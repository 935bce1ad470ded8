----------------------------- MODULE WebPurchases -----------------------------
(***************************************************************************)
(* Purchases from the Web console: the journal of gateway/                 *)
(* paid_media_web.py and its handlers, with the hand-over of what was      *)
(* bought in gateway/paid_media_asset_delivery.py.                         *)
(*                                                                         *)
(* An operation of the journal is claimed, sent, answered, delivered or    *)
(* reconciled.  The store of requests decides whether the provider is      *)
(* paid (MediaRequests); here it is one row for each operation, for every  *)
(* operation presents an idempotency key of its own.  Bought assets live   *)
(* in the store of assets until the archive of the console owns a copy     *)
(* (WebArchive); here a purchase is live, archived, or both.               *)
(*                                                                         *)
(* A handler is a coroutine.  What it does between two calls of a store    *)
(* that it waits for is one action; in between, other handlers, another    *)
(* process and time go on, and a process may die.                          *)
(*                                                                         *)
(* There is one principal and one epoch, so a receipt of the archive is a  *)
(* function of the purchase.  Two images may well be the same bytes: here  *)
(* all images are, and all videos.                                         *)
(***************************************************************************)
EXTENDS Integers, FiniteSets

CONSTANTS
  Ops,        \* operation ids
  Processes,
  None,
  RetryAge,   \* _AUTOMATIC_RETRY_MAX_AGE_MS
  Retention,  \* retention_seconds of the store of requests
  MaxSent     \* bound: dispatches of an operation

WebAssumption ==
  /\ IsFiniteSet(Ops) /\ None \notin Processes /\ None \notin Ops
  /\ RetryAge \in Nat /\ Retention \in Nat /\ RetryAge < Retention
  /\ MaxSent \in Nat

VARIABLES
  rows,     \* paid_media_web_operations
  index,    \* paid_media_web_asset_references: the purchase behind a content
  auth,     \* the row of the store of requests
  live,     \* purchases whose bytes the store of assets has
  archived, \* purchases whose document the archive has
  paid,     \* how often each purchase was sent to a provider
  flights,  \* _EXECUTE_FLIGHTS: the run of an operation in each process
  moves,    \* _WEB_ARCHIVE_FLIGHTS: its hand-over to the archive
  acks      \* acknowledgements that wait for a hand-over, or have its receipt

stores == <<auth, live, archived, paid>>
journal == <<rows, index>>
memory == <<flights, moves, acks>>
webVars == <<journal, stores, memory>>

States == {"none", "claimed", "dispatching", "recoverable", "result_ready",
           "delivered", "reconciled"}
Unresolved == {"claimed", "dispatching", "recoverable", "result_ready"}
Sendable == {"claimed", "dispatching", "recoverable"}

\* body: is the request on record; doc: the result.
WebRow == [state: States, video: BOOLEAN, body: BOOLEAN, cancel: BOOLEAN,
           sent: 0..MaxSent, doc: {"none", "plain", "assets"}, age: 0..Retention]
NoRow == [state |-> "none", video |-> FALSE, body |-> FALSE, cancel |-> FALSE,
          sent |-> 0, doc |-> "none", age |-> 0]

\* processing in phase 0 and 1, recovery_required, succeeded without assets, and
\* the three states of an answer with assets.  An owner whose lease is over is
\* None.
Auth == [state: {"none", "claimed", "paying", "unknown", "plain", "committed",
                 "acked", "cleaned"},
         owner: Processes \cup {None}, keep: 0..Retention]
NoAuth == [state |-> "none", owner |-> None, keep |-> 0]
Answered == {"committed", "acked", "cleaned"}

Flights == {"none", "fence", "claim", "claimed", "calling", "plain", "assets",
            "indexed", "failed"}
Moves == {"none", "lookup", "copy", "ack", "clean", "complete"}

WebContents == {"picture", "film"}
Content(o) == IF rows[o].video THEN "film" ELSE "picture"

WebInit ==
  /\ rows = [o \in Ops |-> NoRow]
  /\ index = [c \in WebContents |-> None]
  /\ auth = [o \in Ops |-> NoAuth]
  /\ live = {} /\ archived = {}
  /\ paid = [o \in Ops |-> 0]
  /\ flights = [p \in Processes |-> [o \in Ops |-> "none"]]
  /\ moves = [p \in Processes |-> [o \in Ops |-> "none"]]
  /\ acks = [p \in Processes |-> [o \in Ops |-> "none"]]

Flies(p, o, place) == flights' = [flights EXCEPT ![p][o] = place]
Lands(p, o, from) == flights[p][o] = from /\ Flies(p, o, "none")
Becomes(o, state) == rows' = [rows EXCEPT ![o].state = state, ![o].cancel = FALSE]
Holds(p, o, state) == auth[o].state = state /\ auth[o].owner = p

-----------------------------------------------------------------------------
(* What the user asks of the journal.                                      *)

Claims(o, video) ==
  /\ rows[o].state = "none"
  /\ \A u \in Ops : rows[u].state \notin Unresolved
  /\ rows' = [rows EXCEPT ![o] =
       [NoRow EXCEPT !.state = "claimed", !.video = video, !.body = TRUE]]
  /\ UNCHANGED <<index, stores, memory>>

\* A record of an older program, whose request is not known.
ImportLegacy(o, video) ==
  /\ rows[o].state = "none"
  /\ \E state \in {"claimed", "recoverable"} :
       rows' = [rows EXCEPT ![o] =
         [NoRow EXCEPT !.state = state, !.video = video]]
  /\ UNCHANGED <<index, stores, memory>>

Cancel(o) ==
  /\ rows[o].state \in Sendable
  /\ rows' = [rows EXCEPT ![o].cancel = TRUE]
  /\ UNCHANGED <<index, stores, memory>>

Abandon(o) ==
  /\ rows[o].state = "claimed" /\ rows[o].sent = 0
  /\ Becomes(o, "reconciled")
  /\ UNCHANGED <<index, stores, memory>>

Reconcile(o) ==
  /\ rows[o].state \in Unresolved
  /\ Becomes(o, "reconciled")
  /\ UNCHANGED <<index, stores, memory>>

-----------------------------------------------------------------------------
(* An execution: the handler and _execute_fresh.                           *)

\* The result is on record: it is shown, and its reference recorded again.
ShowResult(o) ==
  /\ rows[o].state \in {"result_ready", "delivered"} /\ rows[o].body
  /\ rows[o].doc = "assets"
  /\ index' = [index EXCEPT ![Content(o)] = o]
  /\ UNCHANGED <<rows, stores, memory>>

MayRetry(o) == rows[o].age < RetryAge

\* A run that is in flight here is joined.  A dispatch that no run of this
\* process is behind was cut, or is another process's.
Execute(p, o) ==
  /\ rows[o].state \in Sendable /\ rows[o].body /\ MayRetry(o)
  /\ flights[p][o] = "none" /\ rows[o].sent < MaxSent
  /\ IF rows[o].state = "dispatching" THEN Becomes(o, "recoverable")
     ELSE UNCHANGED rows
  /\ Flies(p, o, "fence")
  /\ UNCHANGED <<index, stores, moves, acks>>

\* consume_cancel_or_dispatch
Dispatch(p, o) ==
  /\ flights[p][o] = "fence"
  /\ rows[o].state \in {"claimed", "recoverable"} /\ ~ rows[o].cancel
  /\ rows[o].sent < MaxSent
  /\ rows' = [rows EXCEPT ![o].state = "dispatching", ![o].sent = @ + 1]
  /\ Flies(p, o, "claim")
  /\ UNCHANGED <<index, stores, moves, acks>>

ConsumeCancel(p, o) ==
  /\ Lands(p, o, "fence")
  /\ rows[o].state \in {"claimed", "recoverable"} /\ rows[o].cancel
  /\ Becomes(o, "recoverable")
  /\ UNCHANGED <<index, stores, moves, acks>>

NotDispatchable(p, o) ==
  /\ Lands(p, o, "fence")
  /\ rows[o].state \notin {"claimed", "recoverable"}
  /\ UNCHANGED <<journal, stores, moves, acks>>

\* Faulty: so is one whose outcome is unknown.
ClaimPaidAgain(p, o) ==
  /\ flights[p][o] = "claim"
  /\ auth[o].state \in {"none", "claimed", "unknown"} /\ auth[o].owner = None
  /\ auth' = [auth EXCEPT ![o].state = "claimed", ![o].owner = p]
  /\ Flies(p, o, "claimed")
  /\ UNCHANGED <<journal, live, archived, paid, moves, acks>>

\* A claim that never reached the provider is made again when its lease is over.
ClaimPaid(p, o) ==
  /\ flights[p][o] = "claim"
  /\ auth[o].state \in {"none", "claimed"} /\ auth[o].owner = None
  /\ auth' = [auth EXCEPT ![o].state = "claimed", ![o].owner = p]
  /\ Flies(p, o, "claimed")
  /\ UNCHANGED <<journal, live, archived, paid, moves, acks>>

\* 425: the journal keeps on dispatching.
PeerInFlight(p, o) ==
  /\ Lands(p, o, "claim")
  /\ auth[o].state \in {"claimed", "paying"} /\ auth[o].owner # None
  /\ UNCHANGED <<journal, stores, moves, acks>>

\* The answer on record, or the notice that none is known.
Replay(p, o) ==
  /\ flights[p][o] = "claim"
  /\ \/ auth[o].state = "plain" /\ Flies(p, o, "plain")
     \/ auth[o].state \in Answered /\ Flies(p, o, "assets")
     \/ auth[o].state = "unknown" /\ Flies(p, o, "failed")
  /\ UNCHANGED <<journal, stores, moves, acks>>

\* No route, no room, no proof of the installation: the claim is undone, unless
\* it went to another process.
GiveBack(p, o) ==
  /\ flights[p][o] = "claimed"
  /\ auth' = IF Holds(p, o, "claimed") THEN [auth EXCEPT ![o] = NoAuth] ELSE auth
  /\ Flies(p, o, "failed")
  /\ UNCHANGED <<journal, live, archived, paid, moves, acks>>

\* The claim enters its provider phase, and the provider is called.
Pay(p, o) ==
  /\ flights[p][o] = "claimed" /\ Holds(p, o, "claimed")
  /\ auth' = [auth EXCEPT ![o].state = "paying"]
  /\ paid' = [paid EXCEPT ![o] = @ + 1]
  /\ Flies(p, o, "calling")
  /\ UNCHANGED <<journal, live, archived, moves, acks>>

\* A video that is generated at once is committed with its assets, and yet the
\* answer says that it is in the making.
Answer(p, o) ==
  /\ flights[p][o] = "calling" /\ Holds(p, o, "paying")
  /\ \/ /\ auth' = [auth EXCEPT ![o].state = "committed", ![o].owner = None]
        /\ live' = live \cup {o}
        /\ Flies(p, o, IF rows[o].video THEN "plain" ELSE "assets")
     \/ /\ rows[o].video
        /\ auth' = [auth EXCEPT ![o].state = "plain", ![o].owner = None]
        /\ Flies(p, o, "plain") /\ UNCHANGED live
  /\ UNCHANGED <<journal, archived, paid, moves, acks>>

\* Whatever went wrong, or the answer comes after the lease: it stays unknown.
NoAnswer(p, o) ==
  /\ flights[p][o] = "calling"
  /\ auth' = IF Holds(p, o, "paying")
             THEN [auth EXCEPT ![o].state = "unknown", ![o].owner = None] ELSE auth
  /\ Flies(p, o, "failed")
  /\ UNCHANGED <<journal, live, archived, paid, moves, acks>>

RecordIndex(p, o) ==
  /\ flights[p][o] = "assets"
  /\ index' = [index EXCEPT ![Content(o)] = o]
  /\ Flies(p, o, "indexed")
  /\ UNCHANGED <<rows, stores, moves, acks>>

\* mark_result_ready; a row that is not dispatching any more is left alone.
Ready(p, o) ==
  /\ flights[p][o] \in {"plain", "indexed"}
  /\ IF rows[o].state = "dispatching"
     THEN rows' = [rows EXCEPT ![o].state = "result_ready", ![o].cancel = FALSE,
                     ![o].doc = IF flights[p][o] = "plain" THEN "plain" ELSE "assets"]
     ELSE UNCHANGED rows
  /\ Flies(p, o, "none")
  /\ UNCHANGED <<index, stores, moves, acks>>

\* mark_recoverable
FlightFails(p, o) ==
  /\ Lands(p, o, "failed")
  /\ IF rows[o].state \in Sendable THEN Becomes(o, "recoverable") ELSE UNCHANGED rows
  /\ UNCHANGED <<index, stores, moves, acks>>

\* The journal cannot be written.
JournalFails(p, o) ==
  /\ flights[p][o] \in {"fence", "plain", "assets", "indexed", "failed"}
  /\ Flies(p, o, "none")
  /\ UNCHANGED <<journal, stores, moves, acks>>

-----------------------------------------------------------------------------
(* The hand-over to the archive: archive_paid_media_document_for_web, one  *)
(* at a time for each purchase in a process.                               *)

MoveGoes(p, o, place) == moves' = [moves EXCEPT ![p][o] = place]
Moving(p, o, from, to) == moves[p][o] = from /\ MoveGoes(p, o, to)

\* What wants a purchase in the archive joins a hand-over or begins one.
Joins(p, o) ==
  IF moves[p][o] = "none" THEN MoveGoes(p, o, "lookup") ELSE UNCHANGED moves

\* read-asset: the purchase the index has for a content.
ReadAsset(p, c) ==
  /\ index[c] # None /\ moves[p][index[c]] = "none"
  /\ Joins(p, index[c])
  /\ UNCHANGED <<journal, stores, flights, acks>>

\* poll-video: the film is finished,
Generate(o) ==
  /\ auth[o].state = "plain"
  /\ auth' = [auth EXCEPT ![o].state = "committed"]
  /\ live' = live \cup {o}
  /\ UNCHANGED <<journal, archived, paid, memory>>

\* and whoever knows its alias records its reference and has it archived.
Poll(p, o) ==
  /\ rows[o].doc = "plain" /\ auth[o].state \in Answered
  /\ index' = [index EXCEPT ![Content(o)] = o]
  /\ Joins(p, o)
  /\ UNCHANGED <<rows, stores, flights, acks>>

\* acknowledge: an operation with assets.
Acknowledge(p, o) ==
  /\ rows[o].state \in {"result_ready", "delivered"} /\ rows[o].doc = "assets"
  /\ acks[p][o] = "none"
  /\ IF rows[o].state = "delivered" /\ o \in archived
     THEN acks' = [acks EXCEPT ![p][o] = "proved"] /\ UNCHANGED moves
     ELSE acks' = [acks EXCEPT ![p][o] = "waiting"] /\ Joins(p, o)
  /\ UNCHANGED <<journal, stores, flights>>

Lookup(p, o) ==
  /\ Moving(p, o, "lookup", IF o \in archived THEN "ack" ELSE "copy")
  /\ UNCHANGED <<journal, stores, flights, acks>>

\* A copy is made of what is live and not acknowledged; a purchase that another
\* process archived meanwhile is as good.
Copy(p, o) ==
  /\ Moving(p, o, "copy", "ack")
  /\ \/ auth[o].state = "committed" /\ o \in live
     \/ o \in archived
  /\ archived' = archived \cup {o}
  /\ UNCHANGED <<journal, auth, live, paid, flights, acks>>

\* ack_asset_success: the same receipt may acknowledge again.
MoveAck(p, o) ==
  /\ Moving(p, o, "ack", "clean")
  /\ auth[o].state \in Answered
  /\ auth' = IF auth[o].state = "committed"
             THEN [auth EXCEPT ![o].state = "acked"] ELSE auth
  /\ UNCHANGED <<journal, live, archived, paid, flights, acks>>

\* The store of assets deletes the bytes.
MoveClean(p, o) ==
  /\ Moving(p, o, "clean", "complete")
  /\ live' = live \ {o}
  /\ UNCHANGED <<journal, auth, archived, paid, flights, acks>>

\* complete_asset_ack_cleanup; who waits for the receipt gets it.
MoveComplete(p, o) ==
  /\ Moving(p, o, "complete", "none")
  /\ auth[o].state \in {"acked", "cleaned"}
  /\ auth' = IF auth[o].state = "acked"
             THEN [auth EXCEPT ![o].state = "cleaned", ![o].keep = Retention]
             ELSE auth
  /\ acks' = IF acks[p][o] = "waiting" THEN [acks EXCEPT ![p][o] = "proved"] ELSE acks
  /\ UNCHANGED <<journal, live, archived, paid, flights>>

\* A store or the archive refuses or fails, wherever the hand-over is.
MoveFails(p, o) ==
  /\ moves[p][o] # "none" /\ MoveGoes(p, o, "none")
  /\ acks' = IF acks[p][o] = "waiting" THEN [acks EXCEPT ![p][o] = "none"] ELSE acks
  /\ UNCHANGED <<journal, stores, flights>>

\* mark_delivered
Deliver(p, o) ==
  /\ acks[p][o] = "proved"
  /\ acks' = [acks EXCEPT ![p][o] = "none"]
  /\ IF rows[o].state = "result_ready"
     THEN rows' = [rows EXCEPT ![o].state = "delivered"] ELSE UNCHANGED rows
  /\ UNCHANGED <<index, stores, flights, moves>>

DeliverPlain(o) ==
  /\ rows[o].state = "result_ready" /\ rows[o].doc = "plain"
  /\ rows' = [rows EXCEPT ![o].state = "delivered"]
  /\ UNCHANGED <<index, stores, memory>>

-----------------------------------------------------------------------------
(* Faults and time.                                                        *)

WebCrash(p) ==
  /\ flights' = [flights EXCEPT ![p] = [o \in Ops |-> "none"]]
  /\ moves' = [moves EXCEPT ![p] = [o \in Ops |-> "none"]]
  /\ acks' = [acks EXCEPT ![p] = [o \in Ops |-> "none"]]
  /\ memory' # memory
  /\ UNCHANGED <<journal, stores>>

\* The lease of a claim ends, its owner is dead or slow.
LeaseEnds(o) ==
  /\ auth[o].owner # None
  /\ auth' = [auth EXCEPT ![o].owner = None,
                ![o].state = IF @ = "paying" THEN "unknown" ELSE @]
  /\ UNCHANGED <<journal, live, archived, paid, memory>>

\* _prune: an answer whose assets were handed over long ago.
Prune(o) ==
  /\ auth[o].state = "cleaned" /\ auth[o].keep = 0
  /\ auth' = [auth EXCEPT ![o] = NoAuth]
  /\ UNCHANGED <<journal, live, archived, paid, memory>>

\* An execution that was let through claims before its operation is as old as
\* the retention: it has the days by which RetryAge is shorter.
Tick ==
  /\ \A p \in Processes, o \in Ops :
       flights[p][o] \in {"fence", "claim"} => rows[o].age + 1 < Retention
  /\ rows' = [o \in Ops |->
       IF rows[o].state # "none" /\ rows[o].age < Retention
       THEN [rows[o] EXCEPT !.age = @ + 1] ELSE rows[o]]
  /\ auth' = [o \in Ops |->
       IF auth[o].keep > 0 THEN [auth[o] EXCEPT !.keep = @ - 1] ELSE auth[o]]
  /\ UNCHANGED <<index, live, archived, paid, memory>>

WebNext ==
  \/ \E o \in Ops, video \in BOOLEAN : Claims(o, video)
  \/ \E o \in Ops, video \in BOOLEAN : ImportLegacy(o, video)
  \/ \E o \in Ops : Cancel(o)
  \/ \E o \in Ops : Abandon(o)
  \/ \E o \in Ops : Reconcile(o)
  \/ \E o \in Ops : ShowResult(o)
  \/ \E p \in Processes, o \in Ops : Execute(p, o)
  \/ \E p \in Processes, o \in Ops : Dispatch(p, o)
  \/ \E p \in Processes, o \in Ops : ConsumeCancel(p, o)
  \/ \E p \in Processes, o \in Ops : NotDispatchable(p, o)
  \/ \E p \in Processes, o \in Ops : ClaimPaid(p, o)
  \/ \E p \in Processes, o \in Ops : PeerInFlight(p, o)
  \/ \E p \in Processes, o \in Ops : Replay(p, o)
  \/ \E p \in Processes, o \in Ops : GiveBack(p, o)
  \/ \E p \in Processes, o \in Ops : Pay(p, o)
  \/ \E p \in Processes, o \in Ops : Answer(p, o)
  \/ \E p \in Processes, o \in Ops : NoAnswer(p, o)
  \/ \E p \in Processes, o \in Ops : RecordIndex(p, o)
  \/ \E p \in Processes, o \in Ops : Ready(p, o)
  \/ \E p \in Processes, o \in Ops : FlightFails(p, o)
  \/ \E p \in Processes, o \in Ops : JournalFails(p, o)
  \/ \E p \in Processes, c \in WebContents : ReadAsset(p, c)
  \/ \E o \in Ops : Generate(o)
  \/ \E p \in Processes, o \in Ops : Poll(p, o)
  \/ \E p \in Processes, o \in Ops : Acknowledge(p, o)
  \/ \E p \in Processes, o \in Ops : Lookup(p, o)
  \/ \E p \in Processes, o \in Ops : Copy(p, o)
  \/ \E p \in Processes, o \in Ops : MoveAck(p, o)
  \/ \E p \in Processes, o \in Ops : MoveClean(p, o)
  \/ \E p \in Processes, o \in Ops : MoveComplete(p, o)
  \/ \E p \in Processes, o \in Ops : MoveFails(p, o)
  \/ \E p \in Processes, o \in Ops : Deliver(p, o)
  \/ \E o \in Ops : DeliverPlain(o)
  \/ \E p \in Processes : WebCrash(p)
  \/ \E o \in Ops : LeaseEnds(o)
  \/ \E o \in Ops : Prune(o)
  \/ Tick

WebSpec == WebInit /\ [][WebNext]_webVars

-----------------------------------------------------------------------------
(* Properties.                                                             *)

\* Rows and runs keep their type.
WebTypeOK ==
  /\ rows \in [Ops -> WebRow]
  /\ index \in [WebContents -> Ops \cup {None}]
  /\ auth \in [Ops -> Auth]
  /\ live \subseteq Ops /\ archived \subseteq Ops
  /\ paid \in [Ops -> Nat]
  /\ flights \in [Processes -> [Ops -> Flights]]
  /\ moves \in [Processes -> [Ops -> Moves]]
  /\ acks \in [Processes -> [Ops -> {"none", "waiting", "proved"}]]

\* "a journal/authority divergence fails closed instead of double-charging":
\* however often an operation is cut, cancelled, retried and run by two
\* processes, the provider is paid once, and nothing is paid for an operation
\* that was abandoned or imported without its request.
PaidOnce ==
  \A o \in Ops :
    /\ paid[o] <= 1
    /\ paid[o] > 0 => rows[o].body /\ rows[o].sent > 0

\* "The archive receipt is committed only after all closed-set assets have been
\* copied and verified.  Durable ACK, object cleanup, and reservation release
\* follow in that order": the purchase is acknowledged when the archive has it,
\* its bytes go when that is on record, and the row is done when they are gone.
ReleasedInOrder ==
  \A o \in Ops :
    /\ auth[o].state \in {"acked", "cleaned"} => o \in archived
    /\ o \in live => auth[o].state \in {"committed", "acked"}
    /\ auth[o].state = "committed" => o \in live

\* An operation with assets is delivered when the archive owns them and the
\* room they took is free again.
DeliveredIsOwned ==
  \A o \in Ops :
    rows[o].state = "delivered" /\ rows[o].doc = "assets" =>
      /\ o \in archived /\ o \notin live
      /\ auth[o].state \in {"cleaned", "none"}

\* A reference that was handed out is never dead: its bytes are in the archive,
\* or they can still be copied there.
ReferencesLive ==
  /\ \A c \in WebContents : index[c] # None =>
       index[c] \in archived \/ (index[c] \in live /\ auth[index[c]].state = "committed")
  /\ \A o \in Ops : rows[o].doc = "assets" => index[Content(o)] # None

\* What is charged, referred to, released and delivered, taken together.
WebInv == WebTypeOK /\ PaidOnce /\ ReleasedInOrder /\ DeliveredIsOwned /\ ReferencesLive

\* A result is final, and so is the end of an operation; nothing is sent on
\* behalf of an operation that has either.
ResultsAreFinal ==
  \A o \in Ops :
    /\ rows[o].doc # "none" => rows'[o].doc = rows[o].doc
    /\ rows[o].state \in {"delivered", "reconciled"} => rows'[o].state = rows[o].state
    /\ rows[o].state = "result_ready" =>
         rows'[o].state \in {"result_ready", "delivered", "reconciled"}
    /\ rows[o].doc # "none" => paid'[o] = paid[o]
=============================================================================
