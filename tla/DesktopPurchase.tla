--------------------------- MODULE DesktopPurchase ---------------------------
(***************************************************************************)
(* A picture bought by the desktop program: the service                    *)
(* (src/desktop/src/main/paid-media-service.ts), its second protocol for   *)
(* assets (paid-media-asset-v2-runtime.ts), the handlers of its mutations  *)
(* (paid-media-recovery-executor.ts), and the document with which it       *)
(* proves to the installation root that its three stores are the ones it   *)
(* left (paid-media-installation-root.ts).                                 *)
(*                                                                         *)
(* Every change of the stores is a mutation: an intent is written into the *)
(* document, the stores are changed, the document is closed over the new   *)
(* contents, and the root follows every document by one step.  What is cut *)
(* in a legacy mutation ends in manual recovery; a durable one is resumed  *)
(* by its handler when the program starts.                                 *)
(*                                                                         *)
(* The ledger refuses a claim while an operation is unresolved, and a new  *)
(* claim asks for the first protocol, which is switched off, so there is   *)
(* one operation, claimed by an earlier version of the program.            *)
(***************************************************************************)
EXTENDS Naturals

CONSTANTS
  NoIntent,     \* no intent in the document
  MaxGen,       \* bound on the times that stages are opened
  MaxFaults     \* bound on crashes, failing handlers and an unreachable root

VARIABLES
  ledger,       \* the operation in the ledger
  vault,        \* the dispatch marker, the stages and the archive of its bytes
  hold,         \* its reservation of disk capacity
  doc,          \* the authority document
  root,         \* where the root stands, as seen from the document
  app,          \* the process: its mode and what it remembers
  task,         \* the mutation under way
  call,         \* the call of execute under way
  sent,         \* the request was sent to the gateway
  last,         \* the kind of the last intent written
  faults

storeVars == <<ledger, vault, hold>>
rootVars == <<doc, root>>
dpVars == <<storeVars, rootVars, app, task, call, sent, last, faults>>

DurableKinds == {"dispatch", "reserve", "reclaim", "cleanup", "archive"}

LegacyKinds == {"reconcile", "startup", "recovery"}

Stores == [ledger |-> ledger, vault |-> vault, hold |-> hold]

NoWork == [pc |-> "idle", kind |-> NoIntent, gen |-> 0]

\* pc: down; inspect, confirm, resume, startup: the steps of its start; up.
Down == [pc |-> "down", mode |-> "detached", usable |-> FALSE, v2 |-> FALSE,
         cleaned |-> {}]

DesktopAssumption ==
  /\ MaxGen \in Nat \ {0} /\ MaxFaults \in Nat
  /\ NoIntent \notin DurableKinds \union LegacyKinds

Init ==
  /\ ledger = [state |-> "claimed", dispatched |-> FALSE]
  /\ vault = [marker |-> FALSE, stage |-> "none", gen |-> 0, kept |-> FALSE]
  /\ hold = "none"
  /\ doc = [intent |-> NoIntent, gen |-> 0, committed |-> FALSE, evidence |-> Stores,
            manual |-> FALSE, floor |-> FALSE]
  /\ root = [behind |-> FALSE, fence |-> FALSE]
  /\ app = Down /\ task = NoWork /\ call = "idle"
  /\ sent = FALSE
  /\ last = NoIntent
  /\ faults = 0

Hurt == faults < MaxFaults /\ faults' = faults + 1

\* Leases of stages that are neither cleaned nor archived and cleaned.
ActiveStage == vault.stage \in {"reserved", "opened", "clearing"}

Exact == ~root.behind /\ ~root.fence

\* The root follows, or cannot be reached and has followed or not.
RootFollows == root' = [root EXCEPT !.behind = FALSE] /\ UNCHANGED faults

RootIsLost ==
  /\ Hurt
  /\ root' \in {root, [root EXCEPT !.behind = FALSE]}

Mode(m) == app' = [app EXCEPT !.mode = m]

----------------------------------------------------------------------------
(* A mutation. *)

\* A new document, one step ahead of the root.
Write(d) == doc' = d /\ root' = [root EXCEPT !.behind = TRUE]

\* The document is at rest and has the contents of the stores.
Matches == doc.evidence = Stores

\* proveExactUnlocked
Proved == doc.intent = NoIntent /\ ~doc.manual /\ Matches /\ Exact

\* The proof and the intent.  A proof that fails fuses; a root that cannot be
\* read only refuses.
Begin(kind, gen) ==
  \/ /\ app.mode = "ready"
     /\ IF Proved
          THEN /\ Write([doc EXCEPT !.intent = kind, !.gen = gen, !.committed = FALSE])
               /\ task' = [pc |-> IF kind \in LegacyKinds THEN "act" ELSE "announce",
                           kind |-> kind, gen |-> gen]
               /\ last' = kind
               /\ UNCHANGED app
          ELSE /\ Mode("fused")
               /\ task' = [NoWork EXCEPT !.pc = "failed"]
               /\ UNCHANGED <<rootVars, last>>
     /\ UNCHANGED faults
  \/ /\ app.mode # "ready"
     /\ task' = [NoWork EXCEPT !.pc = "failed"]
     /\ UNCHANGED <<rootVars, app, last, faults>>
  \/ /\ app.mode = "ready" /\ Hurt
     /\ task' = [NoWork EXCEPT !.pc = "failed"]
     /\ UNCHANGED <<rootVars, app, last>>

Ends(pc) == task' = [NoWork EXCEPT !.pc = pc]

Fuses == Mode("fused") /\ Ends("failed")

\* The changes of the legacy mutations; archive_recovery throws, for the
\* operation is bound to the second protocol.
LegacyAct ==
  /\ task.pc = "act"
  /\ \/ /\ task.kind = "reconcile"
        /\ ledger' = [ledger EXCEPT !.state = "reconciled"]
        /\ task' = [task EXCEPT !.pc = IF ledger.dispatched THEN "close" ELSE "release"]
        /\ UNCHANGED <<vault, hold, app, faults>>
     \/ /\ task.kind = "startup"
        /\ hold' = IF (vault.kept /\ vault.stage = "done") \/ ~ledger.dispatched
                     THEN "released" ELSE hold
        /\ task' = [task EXCEPT !.pc = "close"]
        /\ UNCHANGED <<ledger, vault, app, faults>>
     \/ /\ task.kind = "recovery"
        /\ Fuses
        /\ UNCHANGED <<storeVars, faults>>
     \/ Hurt /\ Fuses /\ UNCHANGED storeVars
  /\ UNCHANGED <<rootVars, call, sent, last>>

\* What was never dispatched gives up its reservation, in a second store.
ReleaseUnsent ==
  /\ task.pc = "release"
  /\ hold' = "released"
  /\ task' = [task EXCEPT !.pc = "close"]
  /\ UNCHANGED <<ledger, vault, rootVars, app, call, sent, last, faults>>

\* The root follows to the intent, the document is closed over the contents,
\* and the root follows again; what fails here fuses.
LegacyConfirm ==
  /\ task.pc \in {"close", "finish"}
  /\ \/ /\ RootFollows
        /\ IF task.pc = "close"
             THEN task' = [task EXCEPT !.pc = "final"] ELSE Ends("done")
        /\ UNCHANGED app
     \/ RootIsLost /\ Fuses
  /\ UNCHANGED <<storeVars, doc, call, sent, last>>

LegacyFinal ==
  /\ task.pc = "final"
  /\ Write([doc EXCEPT !.intent = NoIntent, !.gen = 0, !.evidence = Stores])
  /\ task' = [task EXCEPT !.pc = "finish"]
  /\ UNCHANGED <<storeVars, app, call, sent, last, faults>>

\* A durable intent: no handler before the root has followed to it.
Announce ==
  /\ task.pc = "announce"
  /\ \/ /\ RootFollows
        /\ Mode("recovery_pending")
        /\ task' = [task EXCEPT !.pc = "handle"]
     \/ RootIsLost /\ Mode("detached") /\ Ends("failed")
  /\ UNCHANGED <<storeVars, doc, call, sent, last>>

\* A handler that fails leaves its intent for the next start.
HandlerFails ==
  /\ Ends("failed")
  /\ UNCHANGED <<storeVars, rootVars, app, call, sent, last>>

\* Its conflicts end in manual recovery.
Conflicted ==
  [doc EXCEPT !.intent = NoIntent, !.gen = 0, !.manual = TRUE, !.evidence = Stores]

Conflict ==
  /\ Write(Conflicted)
  /\ task' = [task EXCEPT !.pc = "surrender"]
  /\ UNCHANGED <<storeVars, app, call, sent, last>>

Changes(pc) ==
  /\ task' = [task EXCEPT !.pc = pc]
  /\ UNCHANGED <<rootVars, app, call, sent, last, faults>>

\* Capacity first, then the marker of the vault, then the ledger; each is
\* kept when it is there already.
HandleDispatch ==
  /\ task.pc = "handle" /\ task.kind = "dispatch"
  /\ \/ hold = "none" /\ hold' = "active" /\ Changes("handle") /\ UNCHANGED <<ledger, vault>>
     \/ /\ hold = "active" /\ ~vault.marker
        /\ vault' = [vault EXCEPT !.marker = TRUE]
        /\ Changes("handle") /\ UNCHANGED <<ledger, hold>>
     \/ /\ hold = "active" /\ vault.marker
        /\ ledger' = [state |-> "dispatching", dispatched |-> TRUE]
        /\ Changes("inspect") /\ UNCHANGED <<vault, hold>>

\* Stages are reserved, durably, before any is opened.  Stages reserved but
\* not opened are a conflict for the handler that finds them.
HandleReserve ==
  /\ task.pc \in {"handle", "open"} /\ task.kind = "reserve"
  /\ \/ /\ task.pc = "handle" /\ vault.stage \in {"none", "cleared"}
        /\ vault' = [vault EXCEPT !.stage = "reserved",
                       !.gen = IF vault.stage = "none" THEN 0 ELSE @ + 1]
        /\ Changes("open") /\ UNCHANGED <<ledger, hold>>
     \/ /\ task.pc = "open"
        /\ vault' = [vault EXCEPT !.stage = "opened"]
        /\ Changes("inspect") /\ UNCHANGED <<ledger, hold>>
     \/ /\ task.pc = "handle" /\ vault.stage = "opened"
        /\ Changes("inspect") /\ UNCHANGED storeVars
     \/ /\ task.pc = "handle" /\ vault.stage \in {"reserved", "clearing"}
        /\ Conflict /\ UNCHANGED faults
     \/ /\ task.pc = "handle" /\ vault.stage = "done"
        /\ HandlerFails /\ UNCHANGED faults

\* Opened stages are opened anew, emptied, in a later generation.
HandleReclaim ==
  /\ task.pc = "handle" /\ task.kind = "reclaim"
  /\ vault.stage = "opened"
  /\ vault' = [vault EXCEPT !.gen = @ + 1]
  /\ Changes("inspect") /\ UNCHANGED <<ledger, hold>>

\* Stages are marked, their bytes deleted, and the deletion recorded.  A second
\* cleanup of the operation in one process is taken for another intent, and
\* stages whose mark the intent does not know are a conflict.
HandleCleanup ==
  /\ task.pc \in {"handle", "clear"} /\ task.kind = "cleanup"
  /\ \/ /\ task.pc = "handle" /\ app.cleaned \ {task.gen} # {}
        /\ Conflict /\ UNCHANGED faults
     \/ /\ task.pc = "handle" /\ app.cleaned \subseteq {task.gen}
        /\ vault.stage = "opened"
        /\ vault' = [vault EXCEPT !.stage = "clearing"]
        /\ Changes("clear") /\ UNCHANGED <<ledger, hold>>
     \/ /\ task.pc = "handle" /\ app.cleaned \subseteq {task.gen}
        /\ vault.stage = "clearing"
        /\ Conflict /\ UNCHANGED faults
     \/ /\ task.pc = "handle" /\ app.cleaned \subseteq {task.gen}
        /\ vault.stage = "cleared"
        /\ Changes("inspect") /\ UNCHANGED storeVars
     \/ /\ task.pc = "clear"
        /\ vault' = [vault EXCEPT !.stage = "cleared"]
        /\ Changes("inspect") /\ UNCHANGED <<ledger, hold>>

\* The archive first, from the stages as they were opened; only then are their
\* bytes deleted.
HandleArchive ==
  /\ task.pc = "handle" /\ task.kind = "archive"
  /\ \/ /\ ~vault.kept /\ vault.stage = "opened" /\ vault.gen = task.gen
        /\ vault' = [vault EXCEPT !.kept = TRUE]
        /\ Changes("handle") /\ UNCHANGED <<ledger, hold>>
     \/ /\ vault.kept
        /\ vault' = [vault EXCEPT !.stage = "done"]
        /\ Changes("inspect") /\ UNCHANGED <<ledger, hold>>

Handler ==
  \/ HandleDispatch \/ HandleReserve \/ HandleReclaim \/ HandleCleanup
  \/ HandleArchive
  \/ task.pc \in {"handle", "open", "clear"} /\ Hurt /\ HandlerFails

\* assertRecoverableAfterEvidence: each kind changes its stores and no other.
AfterFits ==
  /\ (ledger # doc.evidence.ledger) = (task.kind = "dispatch")
  /\ vault # doc.evidence.vault
  /\ (hold # doc.evidence.hold) = (task.kind = "dispatch")

\* Faulty: the final document says nothing of the intent it closes.
ClosedWithoutReceipt == [doc EXCEPT !.intent = NoIntent, !.gen = 0, !.evidence = Stores]

\* The document that closes a durable intent is its receipt.
Closed ==
  [doc EXCEPT !.intent = NoIntent, !.gen = 0, !.committed = TRUE, !.evidence = Stores]

\* Evidence that does not fit the intent is a conflict.
InspectAfter ==
  /\ task.pc = "inspect"
  /\ IF AfterFits
       THEN /\ Write(Closed)
            /\ task' = [task EXCEPT !.pc = "confirm"]
            /\ app' = IF task.kind = "cleanup"
                        THEN [app EXCEPT !.cleaned = @ \union {task.gen}] ELSE app
            /\ UNCHANGED <<storeVars, call, sent, last>>
       ELSE Conflict
  /\ UNCHANGED faults

ConfirmFinal ==
  /\ task.pc = "confirm"
  /\ \/ RootFollows /\ Mode("ready") /\ Ends("done")
     \/ RootIsLost /\ Ends("failed") /\ UNCHANGED app
  /\ UNCHANGED <<storeVars, doc, call, sent, last>>

Surrender ==
  /\ task.pc = "surrender"
  /\ \/ RootFollows /\ Mode("manual_only")
     \/ RootIsLost /\ Mode("fused")
  /\ Ends("failed")
  /\ UNCHANGED <<storeVars, doc, call, sent, last>>

Mutation ==
  \/ LegacyAct \/ ReleaseUnsent \/ LegacyConfirm \/ LegacyFinal
  \/ Announce \/ Handler \/ InspectAfter \/ ConfirmFinal \/ Surrender

----------------------------------------------------------------------------
(* The start. *)

Up(mode, usable) ==
  app' = [app EXCEPT !.pc = "up", !.mode = mode, !.usable = usable]

\* A boot that is ready takes the second protocol when no stage is active.
Open ==
  app' = [app EXCEPT !.pc = "up", !.mode = "ready", !.usable = TRUE, !.v2 = ~ActiveStage]

startVars == <<storeVars, call, sent>>

StartUp ==
  /\ app.pc = "down"
  /\ app' = [Down EXCEPT !.pc = "inspect"]
  /\ UNCHANGED <<startVars, rootVars, task, last, faults>>

\* The root cannot be read: the program runs, and buys nothing.
StartDetached ==
  /\ app.pc = "inspect"
  /\ Hurt /\ Up("detached", FALSE)
  /\ UNCHANGED <<startVars, rootVars, task, last>>

\* A durable intent is brought to the root, if no handler has touched the
\* stores since, and resumed.
ResumeIntent ==
  /\ app.pc = "inspect" /\ doc.intent \in DurableKinds /\ ~root.fence
  /\ \/ /\ IF root.behind => Matches
             THEN /\ app' = [app EXCEPT !.pc = "resume", !.mode = "recovery_pending"]
                  /\ task' = [pc |-> "handle", kind |-> doc.intent, gen |-> doc.gen]
                  /\ RootFollows
             ELSE Up("fused", FALSE) /\ UNCHANGED <<root, task, faults>>
     \/ root.behind /\ RootIsLost /\ Up("detached", FALSE) /\ UNCHANGED task
  /\ UNCHANGED <<startVars, doc, last>>

\* What the resumed handler leaves: ready, or manual recovery with its reads;
\* otherwise the initialization fails and the intent waits for another start.
Resumed ==
  /\ app.pc = "resume" /\ task.pc \in {"done", "failed"}
  /\ IF app.mode = "ready" THEN Open ELSE Up(app.mode, app.mode = "manual_only")
  /\ task' = NoWork
  /\ UNCHANGED <<startVars, rootVars, last, faults>>

\* A final document whose receipt names its intent is taken to the root.
FollowCommit ==
  /\ app.pc = "inspect" /\ doc.committed /\ root.behind
  /\ \/ /\ IF Matches /\ ~root.fence
             THEN RootFollows /\ UNCHANGED app
             ELSE Up("fused", FALSE) /\ UNCHANGED <<root, faults>>
     \/ RootIsLost /\ Up("detached", FALSE)
  /\ UNCHANGED <<startVars, doc, task, last>>

\* Any other document that the root has not seen is taken for a cut: the root
\* follows it and sets its fence.  A lost answer is asked for again.
Verify ==
  /\ app.pc = "inspect" /\ root.behind /\ ~root.fence
  /\ ~doc.committed /\ doc.intent \notin DurableKinds
  /\ \/ root' = [behind |-> FALSE, fence |-> TRUE] /\ UNCHANGED faults
     \/ Hurt /\ UNCHANGED root
  /\ UNCHANGED <<startVars, doc, app, task, last>>

Surrendered(floor) ==
  [doc EXCEPT !.intent = NoIntent, !.gen = 0, !.manual = TRUE, !.floor = floor,
     !.evidence = Stores]

\* Behind the fence the document becomes a manual one, over whatever is there.
EnterManual ==
  /\ app.pc = "inspect" /\ ~root.behind /\ root.fence
  /\ Write(Surrendered(TRUE))
  /\ UNCHANGED <<startVars, app, task, last, faults>>

\* The root acknowledges it, and takes its fence away.
AcknowledgeRecovery ==
  /\ app.pc = "inspect" /\ doc.manual /\ doc.floor /\ root.behind /\ root.fence
  /\ \/ root' = [behind |-> FALSE, fence |-> FALSE] /\ UNCHANGED <<app, faults>>
     \/ /\ Hurt /\ root' \in {root, [behind |-> FALSE, fence |-> FALSE]}
        /\ Up("fused", FALSE)
  /\ UNCHANGED <<startVars, doc, task, last>>

\* A legacy intent that the root has seen is never resumed.
ManualFromPending ==
  /\ app.pc = "inspect" /\ doc.intent \in LegacyKinds /\ Exact
  /\ Write(Surrendered(FALSE))
  /\ app' = [app EXCEPT !.pc = "confirm"]
  /\ UNCHANGED <<startVars, task, last, faults>>

ConfirmManual ==
  /\ app.pc = "confirm"
  /\ \/ RootFollows /\ app' = [app EXCEPT !.pc = "inspect"]
     \/ RootIsLost /\ Up("fused", FALSE)
  /\ UNCHANGED <<startVars, doc, task, last>>

\* The document at rest: manual, or ready, where what holds capacity is looked
\* at again in a mutation of its own.
Settle ==
  /\ app.pc = "inspect" /\ doc.intent = NoIntent /\ Exact
  /\ IF ~Matches THEN Up("fused", FALSE)
     ELSE IF doc.manual THEN Up("manual_only", TRUE)
     ELSE IF hold = "active" THEN app' = [app EXCEPT !.pc = "startup", !.mode = "ready"]
     ELSE Open
  /\ UNCHANGED <<startVars, rootVars, task, last, faults>>

ReconcileCapacity ==
  /\ app.pc = "startup" /\ task.pc = "idle"
  /\ Begin("startup", 0)
  /\ UNCHANGED startVars

CapacityReconciled ==
  /\ app.pc = "startup" /\ task.pc \in {"done", "failed"}
  /\ IF task.pc = "done" THEN Open ELSE Up(app.mode, FALSE)
  /\ task' = NoWork
  /\ UNCHANGED <<startVars, rootVars, last, faults>>

Restart ==
  \/ StartUp \/ StartDetached \/ ResumeIntent \/ Resumed \/ FollowCommit \/ Verify
  \/ EnterManual \/ AcknowledgeRecovery \/ ManualFromPending \/ ConfirmManual
  \/ Settle \/ ReconcileCapacity \/ CapacityReconciled

\* The process dies between any two steps.
Crash ==
  /\ app.pc # "down" /\ Hurt
  /\ app' = Down /\ task' = NoWork /\ call' = "idle"
  /\ UNCHANGED <<storeVars, rootVars, sent, last>>

----------------------------------------------------------------------------
(* The calls. *)

Unsettled == ledger.state \in {"claimed", "dispatching"}

\* Calls for one operation are serialized, and need a start that succeeded.
TakesCall == app.pc = "up" /\ app.usable /\ call = "idle" /\ Unsettled
         /\ app.mode \in {"ready", "manual_only"}

\* The second protocol, if the start took it; without it an archived operation
\* is recovered by the first, and anything else refused.
Purchase ==
  /\ TakesCall
  /\ \/ /\ app.v2 /\ vault.gen < MaxGen
        /\ call' = "prove"
        /\ UNCHANGED <<rootVars, app, task, last, faults>>
     \/ /\ ~app.v2 /\ vault.kept
        /\ Begin("recovery", 0) /\ call' = "recovery"
  /\ UNCHANGED <<storeVars, sent>>

\* assertOutboundReady fuses in any mode but ready.
Prove ==
  /\ call = "prove"
  /\ \/ /\ app.mode = "ready" /\ Proved
        /\ IF ledger.dispatched
             THEN call' = "check" /\ UNCHANGED <<rootVars, app, task, last, faults>>
             ELSE Begin("dispatch", 0) /\ call' = "dispatch"
     \/ /\ ~(app.mode = "ready" /\ Proved)
        /\ Mode("fused") /\ call' = "idle" /\ UNCHANGED <<rootVars, task, last, faults>>
     \/ /\ app.mode = "ready" /\ Hurt
        /\ call' = "idle" /\ UNCHANGED <<rootVars, app, task, last>>
  /\ UNCHANGED <<storeVars, sent>>

\* The request, again and under the same key if need be; it may fail or be
\* cancelled.
Post ==
  /\ call = "check"
  /\ IF vault.marker /\ ledger.state = "dispatching" /\ hold = "active"
       THEN sent' = TRUE /\ call' \in {"answered", "idle"}
       ELSE call' = "idle" /\ UNCHANGED sent
  /\ UNCHANGED <<storeVars, rootVars, app, task, last, faults>>

\* Stages for what was answered: those that are open are reclaimed, and stages
\* that are neither open nor done with refuse the answer.
StageAnswer ==
  /\ call = "answered"
  /\ IF vault.stage = "opened" THEN Begin("reclaim", vault.gen) /\ call' = "stage"
     ELSE IF ~ActiveStage THEN Begin("reserve", vault.gen) /\ call' = "stage"
     ELSE call' = "idle" /\ UNCHANGED <<rootVars, app, task, last, faults>>
  /\ UNCHANGED <<storeVars, sent>>

\* The bytes are fetched, sealed and probed, or this fails and the stages are
\* cleaned.
DownloadBytes ==
  /\ call = "download"
  /\ \/ Begin("archive", vault.gen) /\ call' = "archive"
     \/ Begin("cleanup", vault.gen) /\ call' = "cleanup"
  /\ UNCHANGED <<storeVars, sent>>

\* After the archive the runtime parses the result it reads back with the parser
\* of the answer, which refuses the form the vault gives it, so the call ends
\* there: the result is never made ready.
Returns ==
  /\ call \in {"recovery", "dispatch", "stage", "archive", "cleanup", "reconcile"}
  /\ task.pc \in {"done", "failed"}
  /\ call' = IF task.pc = "done" /\ call = "dispatch" THEN "check"
             ELSE IF task.pc = "done" /\ call = "stage" THEN "download"
             ELSE "idle"
  /\ task' = NoWork
  /\ UNCHANGED <<storeVars, rootVars, app, sent, last, faults>>

\* The user closes the operation by hand.
ReconcileManually ==
  /\ TakesCall /\ app.mode = "ready"
  /\ Begin("reconcile", 0) /\ call' = "reconcile"
  /\ UNCHANGED <<storeVars, sent>>

Calls ==
  \/ Purchase \/ Prove \/ Post \/ StageAnswer \/ DownloadBytes \/ Returns
  \/ ReconcileManually

Next == Restart \/ Mutation \/ Crash \/ Calls

Spec == Init /\ [][Next]_dpVars

----------------------------------------------------------------------------

TypeOK ==
  /\ ledger \in [state : {"claimed", "dispatching", "reconciled"}, dispatched : BOOLEAN]
  /\ vault \in [marker : BOOLEAN, gen : Nat, kept : BOOLEAN,
       stage : {"none", "reserved", "opened", "clearing", "cleared", "done"}]
  /\ hold \in {"none", "active", "released"}
  /\ doc.intent \in DurableKinds \union LegacyKinds \union {NoIntent}
  /\ root \in [behind : BOOLEAN, fence : BOOLEAN]
  /\ app.mode \in {"detached", "fused", "ready", "recovery_pending", "manual_only"}

\* A request is on its way only when a document the root has followed holds its
\* marker, its dispatch and its reservation: whatever dies after it, the next
\* start knows that it may have been paid for.
SentIsOnRecord ==
  sent => /\ doc.evidence.vault.marker
          /\ doc.evidence.ledger.dispatched
          /\ doc.evidence.hold # "none"

\* The mode is ready, between mutations, only while the document is at rest,
\* has the contents of the three stores and is the one the root has seen, so
\* no proof of a later mutation fails.
ReadyIsExact == app.mode = "ready" /\ task.pc \in {"idle", "done"} => Proved

\* What was dispatched and is not archived keeps its reservation, unless the
\* user closed it.
HeldWhileOwed == ledger.state = "dispatching" /\ ~vault.kept => hold = "active"

\* A crash in the middle of a dispatch, of the reopening of stages or of an
\* archive is repaired by its handler: the document asks for manual recovery
\* only after a legacy mutation, or one of stages being reserved or cleaned.
ManualIsForTheRest ==
  doc.manual => last \in LegacyKinds \union {"reserve", "cleanup"}

\* The four together.
PurchaseIsProved == TypeOK /\ SentIsOnRecord /\ ReadyIsExact /\ HeldWhileOwed /\ ManualIsForTheRest

\* The stores change under an intent only, those of a durable one after the
\* root has followed to it; manual recovery is never undone, and the stores
\* stay as it found them; nothing is sent without the proof.
DesktopStep ==
  /\ storeVars' # storeVars => /\ doc.intent # NoIntent
                               /\ doc.intent \in DurableKinds => Exact
  /\ doc.manual => doc'.manual /\ UNCHANGED storeVars
  /\ sent' # sent => Proved

\* paid-media-service.ts:1893: a call whose result is unknown is retried with
\* the same operation; while nothing crashes and the root answers, that never
\* asks for an operator.
RetriesNeedNoOperator == faults = 0 => ~doc.manual
=============================================================================
