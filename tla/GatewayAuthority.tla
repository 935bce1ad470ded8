--------------------------- MODULE GatewayAuthority ---------------------------
(***************************************************************************)
(* The paid-media ledger as a component of the installation root: the      *)
(* controller (src/gateway/gateway_installation_control.py) and the        *)
(* transactions of the store (src/gateway/durable_media_requests.py).      *)
(*                                                                         *)
(* A mutation is written to the rollback anchor, then to the database,     *)
(* then confirmed at the root by the commit hook, and only then may its    *)
(* request go outbound, after a fresh proof that files and root agree.     *)
(* The process may die between any two of these steps; the files may be    *)
(* put back to a copy while it is down; operators and the other components *)
(* change the root at any time.                                            *)
(*                                                                         *)
(* A claim is a purchase: its mutation records that it may be sent.        *)
(***************************************************************************)
EXTENDS InstallationRoot

CONSTANTS
  Claims,
  Gateway,      \* the component whose ledger this is
  Addition,     \* the component channel_media
  MaxFloor,     \* bound on the sequence of the ledger's own mutations
  MaxOther,     \* bound on the sequences of the other components
  MaxCas,       \* _MAX_ROOT_CAS_CALLS
  MaxLooks,     \* _MAX_OUTBOUND_INSPECTIONS
  MaxInspections, \* _MAX_RECONCILE_INSPECTIONS
  MaxRootFaults \* bound on crashes, files put back, failing commits and
                \* unreadable roots

ASSUME AuthorityAssumption ==
  /\ Gateway \in Components /\ Addition \in Components \ {Gateway}
  /\ None \notin Claims \union Operations
  /\ {MaxFloor, MaxOther, MaxRootFaults} \subseteq Nat
  /\ {MaxEpoch, MaxCas, MaxLooks, MaxInspections} \subseteq Nat \ {0}

VARIABLES
  db, anchor,   \* the database and its rollback anchor
  copy,         \* a copy of both, or None
  ctl,          \* the controller, and its reconciliation at start-up
  writer,       \* the transaction that holds the store's lock
  waiting,      \* claims whose handlers were told that they are recorded
  out,          \* the handler that asks to go outbound
  sent,         \* how often a claim's request was sent
  gapTaken,     \* a mutation that was not confirmed was taken over
  rootFaults    \* faults so far

fileVars == <<db, anchor, copy>>
procVars == <<ctl, writer, waiting, out>>
gaVars == <<rootVars, fileVars, procVars, sent, gapTaken, rootFaults>>

Down == [pc |-> "down", mode |-> "detached", epoch |-> 1, proof |-> 0,
         pending |-> FALSE, looks |-> 0, fresh |-> FALSE]

NoWriter == [pc |-> "idle", claim |-> None, tries |-> 0, calls |-> 0,
             fresh |-> FALSE]

NoOut == [pc |-> "idle", claim |-> None, looks |-> 0, same |-> FALSE, local |-> 0]

AuthorityInit ==
  /\ RootInit(Addition)
  /\ db = [id |-> 1, seq |-> 0, manual |-> FALSE, rows |-> [c \in Claims |-> 0]]
  /\ anchor = [id |-> 1, seq |-> 0]
  /\ copy = None
  /\ ctl = Down /\ writer = NoWriter /\ out = NoOut
  /\ waiting = {}
  /\ sent = [c \in Claims |-> 0]
  /\ gapTaken = FALSE
  /\ rootFaults = 0

Mine == comps[Gateway]

AnchorFits == anchor.id = db.id /\ anchor.seq = db.seq

LockIsFree == writer.pc = "idle"

\* _root_transition_in_flight
InFlight == writer.pc \in {"snapshot", "cas"}

\* The root is the one the controller was opened for (_validated_component).
Trusted == root.epoch = ctl.epoch /\ Mine.bound

Fused(c) == [c EXCEPT !.mode = "fused"]

\* The generation has moved on.
Moved(o) == [o EXCEPT !.same = FALSE]

Harmed == rootFaults < MaxRootFaults /\ rootFaults' = rootFaults + 1

\* What was read of the root is no longer current.
Overtaken ==
  IF root' = root /\ comps' = comps
    THEN UNCHANGED <<ctl, writer>>
    ELSE /\ ctl' = [ctl EXCEPT !.fresh = FALSE]
         /\ writer' = [writer EXCEPT !.fresh = FALSE]

----------------------------------------------------------------------------
(* Start-up. *)

\* The installer binds the ledger it has just created.
Provision ==
  /\ ctl.pc = "down" /\ root.status = "provisioning" /\ ~Mine.bound
  /\ AnchorFits /\ db.seq = 0 /\ ~db.manual
  /\ Bind(Gateway, root.epoch, 0, Addition)
  /\ UNCHANGED <<fileVars, procVars, sent, gapTaken, rootFaults>>

\* open_bound: the files must fit each other and the identity of the epoch.
Open ==
  /\ ctl.pc = "down"
  /\ AnchorFits /\ db.id = root.epoch
  /\ ctl' = [Down EXCEPT !.pc = "inspect", !.epoch = root.epoch]
  /\ UNCHANGED <<rootVars, fileVars, writer, waiting, out, sent, gapTaken, rootFaults>>

\* Faulty: files behind the root pass for those it knows.
ExactAtMost == db.seq <= Mine.floor

Exact == db.seq = Mine.floor

Fenced == Mine.fence

\* One inspection of reconcile_startup, and what it decides.
Reconciled ==
  LET settled(mode) == [ctl EXCEPT !.pc = "running", !.mode = mode,
                          !.proof = db.seq, !.pending = FALSE]
      next(pc) == [ctl EXCEPT !.pc = pc, !.fresh = TRUE]
  IN IF ctl.looks = MaxInspections \/ ~Trusted
       THEN settled("fused")
     ELSE IF root.status = "provisioning"
       THEN IF Exact /\ ~Fenced /\ ~db.manual
              THEN settled("provisioned_not_active") ELSE settled("fused")
     ELSE IF ~Serving
       THEN settled("fused")
     ELSE IF Exact /\ ~Fenced
       THEN settled(IF db.manual THEN "manual_only" ELSE "ready")
     ELSE IF ~db.manual /\ Exact
       THEN next("fence")
     ELSE IF ~db.manual /\ ~Fenced /\ db.seq = Mine.floor + 1
       THEN next("verify")
     ELSE IF db.manual /\ Fenced /\ db.seq = Mine.floor + 1
       THEN next("acknowledge")
     ELSE settled("fused")

Inspect ==
  /\ ctl.pc = "inspect"
  /\ ctl' = Reconciled
  /\ UNCHANGED <<rootVars, fileVars, writer, waiting, out, sent, gapTaken, rootFaults>>

\* A controller that waits for the activation of the root looks again.
Refresh ==
  /\ ctl.pc = "running" /\ ctl.mode = "provisioned_not_active"
  /\ root.status # "provisioning"
  /\ ctl' = [ctl EXCEPT !.pc = "inspect", !.looks = 0]
  /\ UNCHANGED <<rootVars, fileVars, writer, waiting, out, sent, gapTaken, rootFaults>>

LookAgain == ctl' = [ctl EXCEPT !.pc = "inspect", !.looks = @ + 1, !.fresh = FALSE]

\* The step that was not confirmed is taken over by the root, behind a fence.
TakeOver ==
  /\ ctl.pc = "verify"
  /\ Verify(Gateway, ctl.epoch, db.seq)
  /\ gapTaken' = (gapTaken \/ comps' # comps)
  /\ LookAgain
  /\ UNCHANGED <<fileVars, writer, waiting, out, sent, rootFaults>>

\* enter_authority_manual_only: the anchor first, then the database.
FenceAnchor ==
  /\ ctl.pc = "fence" /\ AnchorFits
  /\ anchor' = [anchor EXCEPT !.seq = @ + 1]
  /\ ctl' = [ctl EXCEPT !.pc = "manual"]
  /\ UNCHANGED <<rootVars, db, copy, writer, waiting, out, sent, gapTaken, rootFaults>>

EnterManual ==
  /\ ctl.pc = "manual"
  /\ db' = [db EXCEPT !.seq = @ + 1, !.manual = TRUE]
  /\ ctl' = [ctl EXCEPT !.pc = "acknowledge"]
  /\ UNCHANGED <<rootVars, anchor, copy, writer, waiting, out, sent, gapTaken, rootFaults>>

AcknowledgeManual ==
  /\ ctl.pc = "acknowledge"
  /\ IF ctl.fresh THEN Acknowledge(Gateway, ctl.epoch, db.seq - 1) ELSE Refused
  /\ LookAgain
  /\ UNCHANGED <<fileVars, writer, waiting, out, sent, gapTaken, rootFaults>>

Startup ==
  Provision \/ Open \/ Inspect \/ Refresh \/ TakeOver \/ FenceAnchor
  \/ EnterManual \/ AcknowledgeManual

----------------------------------------------------------------------------
(* A transaction of the store. *)

\* The gate before a mutation (assert_local_mutation_ready) and the anchor,
\* which is written before the database commits.
BeginWrite(c) ==
  /\ LockIsFree /\ ctl.mode = "ready" /\ ~ctl.pending
  /\ AnchorFits /\ ~db.manual /\ db.rows[c] = 0 /\ db.seq < MaxFloor
  /\ anchor' = [anchor EXCEPT !.seq = @ + 1]
  /\ writer' = [NoWriter EXCEPT !.pc = "anchored", !.claim = c]
  /\ UNCHANGED <<rootVars, db, copy, ctl, waiting, out, sent, gapTaken, rootFaults>>

CommitWrite ==
  /\ writer.pc = "anchored"
  /\ db' = [db EXCEPT !.seq = @ + 1, !.rows[writer.claim] = db.seq + 1]
  /\ writer' = [writer EXCEPT !.pc = "committed"]
  /\ UNCHANGED <<rootVars, anchor, copy, ctl, waiting, out, sent, gapTaken, rootFaults>>

\* The commit fails: the anchor stays ahead of the database.
FailWrite ==
  /\ writer.pc = "anchored"
  /\ Harmed
  /\ writer' = NoWriter
  /\ UNCHANGED <<rootVars, fileVars, ctl, waiting, out, sent, gapTaken>>

HookFails ==
  /\ ctl' = [Fused(ctl) EXCEPT !.pending = TRUE]
  /\ writer' = NoWriter
  /\ out' = Moved(out)
  /\ UNCHANGED waiting

\* Confirmed: the controller is at the new state, and the handler goes on.
HookConfirms ==
  IF ctl.mode # "ready"
    THEN HookFails
    ELSE /\ ctl' = [ctl EXCEPT !.proof = db.seq]
         /\ waiting' = waiting \union {writer.claim}
         /\ writer' = NoWriter
         /\ out' = Moved(out)

EnterHook ==
  /\ writer.pc = "committed"
  /\ IF ctl.mode = "ready" /\ ctl.proof = db.seq - 1
       THEN /\ writer' = [writer EXCEPT !.pc = "snapshot"]
            /\ out' = Moved(out)
            /\ UNCHANGED <<ctl, waiting>>
       ELSE HookFails
  /\ UNCHANGED <<rootVars, fileVars, sent, gapTaken, rootFaults>>

\* The root is read afresh; only its typed state decides.
HookSnapshot ==
  /\ writer.pc = "snapshot"
  /\ IF writer.tries > MaxCas \/ ~Serving \/ ~Trusted \/ Mine.fence
       THEN HookFails
     ELSE IF Mine.floor = db.seq
       THEN HookConfirms
     ELSE IF Mine.floor = db.seq - 1 /\ writer.calls < MaxCas
       THEN /\ writer' = [writer EXCEPT !.pc = "cas", !.fresh = TRUE,
                            !.tries = @ + 1, !.calls = @ + 1]
            /\ UNCHANGED <<ctl, waiting, out>>
     ELSE HookFails
  /\ UNCHANGED <<rootVars, fileVars, sent, gapTaken, rootFaults>>

\* The root cannot be read: one inspection is used up.
HookUnreadable ==
  /\ writer.pc = "snapshot" /\ writer.tries <= MaxCas
  /\ Harmed
  /\ writer' = [writer EXCEPT !.tries = @ + 1]
  /\ UNCHANGED <<rootVars, fileVars, ctl, waiting, out, sent, gapTaken>>

\* The compare-and-swap; whether it was applied is known from its answer or,
\* when that is an error or lost, from the next snapshot.
HookCas ==
  /\ writer.pc = "cas"
  /\ IF writer.fresh THEN Advance(Gateway, ctl.epoch, db.seq) ELSE Refused
  /\ \/ comps' # comps /\ HookConfirms
     \/ /\ writer' = [writer EXCEPT !.pc = "snapshot", !.fresh = FALSE]
        /\ UNCHANGED <<ctl, waiting, out>>
  /\ UNCHANGED <<fileVars, sent, gapTaken, rootFaults>>

Write ==
  \/ \E c \in Claims : BeginWrite(c)
  \/ CommitWrite \/ FailWrite \/ EnterHook \/ HookSnapshot \/ HookUnreadable
  \/ HookCas

----------------------------------------------------------------------------
(* The proof before a request goes outbound (assert_outbound_ready). *)

AskOutbound(c) ==
  /\ out.pc = "idle" /\ c \in waiting
  /\ waiting' = waiting \ {c}
  /\ out' = [NoOut EXCEPT !.pc = "sample", !.claim = c]
  /\ UNCHANGED <<rootVars, fileVars, ctl, writer, sent, gapTaken, rootFaults>>

Sample ==
  /\ out.pc = "sample"
  /\ out' = IF ctl.mode # "ready" \/ out.looks = MaxLooks
              THEN NoOut
              ELSE [out EXCEPT !.pc = "read", !.same = TRUE]
  /\ UNCHANGED <<rootVars, fileVars, ctl, writer, waiting, sent, gapTaken, rootFaults>>

SampleAgain == [out EXCEPT !.pc = "sample", !.looks = @ + 1, !.local = 0]

Changed == ctl.mode = "ready" /\ (~out.same \/ InFlight)

\* What does not fit is looked at again when something moved meanwhile;
\* otherwise the controller fuses until it is restarted.
Mismatch ==
  IF Changed
    THEN out' = SampleAgain /\ UNCHANGED ctl
    ELSE out' = NoOut /\ ctl' = Fused(ctl)

\* inspect_root_state takes the store's lock.
ReadFiles ==
  /\ out.pc = "read" /\ LockIsFree
  /\ IF AnchorFits /\ ~db.manual
       THEN out' = [out EXCEPT !.pc = "prove", !.local = db.seq] /\ UNCHANGED ctl
       ELSE Mismatch
  /\ UNCHANGED <<rootVars, fileVars, writer, waiting, sent, gapTaken, rootFaults>>

ProveRoot ==
  /\ out.pc = "prove"
  /\ IF Serving /\ Trusted /\ ~Mine.fence /\ Mine.floor = out.local
       THEN out' = [out EXCEPT !.pc = "resume"] /\ UNCHANGED ctl
       ELSE Mismatch
  /\ UNCHANGED <<rootVars, fileVars, writer, waiting, sent, gapTaken, rootFaults>>

\* resume_after_root_reconcile: the files still stand where they were read.
Resume ==
  /\ out.pc = "resume" /\ LockIsFree
  /\ IF AnchorFits /\ db.seq = out.local
       THEN /\ out' = [out EXCEPT !.pc = "publish"]
            /\ ctl' = [ctl EXCEPT !.pending = FALSE]
       ELSE /\ out' = IF Changed THEN SampleAgain ELSE NoOut
            /\ UNCHANGED ctl
  /\ UNCHANGED <<rootVars, fileVars, writer, waiting, sent, gapTaken, rootFaults>>

Publish ==
  /\ out.pc = "publish"
  /\ IF /\ ctl.mode = "ready" /\ ~InFlight
        /\ out.same \/ ctl.proof = out.local
       THEN /\ ctl' = [ctl EXCEPT !.proof = out.local]
            /\ out' = [out EXCEPT !.pc = "granted", !.same = FALSE]
       ELSE out' = SampleAgain /\ UNCHANGED ctl
  /\ UNCHANGED <<rootVars, fileVars, writer, waiting, sent, gapTaken, rootFaults>>

Send ==
  /\ out.pc = "granted"
  /\ sent' = [sent EXCEPT ![out.claim] = @ + 1]
  /\ out' = NoOut
  /\ UNCHANGED <<rootVars, fileVars, ctl, writer, waiting, gapTaken, rootFaults>>

Outbound ==
  \/ \E c \in Claims : AskOutbound(c)
  \/ Sample \/ ReadFiles \/ ProveRoot \/ Resume \/ Publish \/ Send

----------------------------------------------------------------------------
(* What happens around the process. *)

\* The process dies, or is stopped, and what it held in memory is gone.
ProcessDies ==
  /\ ctl.pc # "down"
  /\ Harmed
  /\ ctl' = Down /\ writer' = NoWriter /\ out' = NoOut /\ waiting' = {}
  /\ UNCHANGED <<rootVars, fileVars, sent, gapTaken>>

\* A copy is taken of files that are at rest and that the root knows.
CopyFiles ==
  /\ ctl.pc = "down" /\ copy = None
  /\ AnchorFits /\ Mine.bound /\ ~Mine.fence /\ Mine.floor = db.seq
  /\ copy' = db
  /\ UNCHANGED <<rootVars, db, anchor, procVars, sent, gapTaken, rootFaults>>

\* The database, its anchor, or both are put back to the copy.
RestoreFiles ==
  /\ ctl.pc = "down" /\ copy # None
  /\ Harmed
  /\ \/ db' = copy /\ anchor' = [id |-> copy.id, seq |-> copy.seq]
     \/ db' = copy /\ UNCHANGED anchor
     \/ anchor' = [id |-> copy.id, seq |-> copy.seq] /\ UNCHANGED db
  /\ UNCHANGED <<rootVars, copy, procVars, sent, gapTaken>>

\* The other components, whose files may have been put back as well.
OtherComponent(c) ==
  \/ Bind(c, root.epoch, 0, Addition)
  \/ /\ comps[c].floor < MaxOther
     /\ Advance(c, root.epoch, comps[c].floor + 1)
  \/ \E f \in 0..MaxOther : Verify(c, root.epoch, f)
  \/ comps[c].floor < MaxOther /\ Acknowledge(c, root.epoch, comps[c].floor)

\* Operators, and the tool that binds the files of a new epoch.
Operator ==
  \/ EnterMaintenance \/ ResumeActive \/ Retire
  \/ \E op \in Operations : BeginReanchor(op) \/ CompleteReanchor(op)
  \/ Reanchoring /\ \E f \in {0, 1} : Bind(Gateway, root.epoch, f, Addition)

Elsewhere ==
  /\ \/ \E c \in Components \ {Gateway} : OtherComponent(c)
     \/ Operator
  /\ Overtaken
  /\ UNCHANGED <<fileVars, waiting, out, sent, gapTaken, rootFaults>>

AuthorityNext ==
  \/ Startup
  \/ Write
  \/ Outbound
  \/ ProcessDies \/ CopyFiles \/ RestoreFiles
  \/ Elsewhere

AuthoritySpec == AuthorityInit /\ [][AuthorityNext]_gaVars

----------------------------------------------------------------------------
\* No purchase is sent twice, though the record of the first sending was put
\* back with the files (the floor of the root must notice).
SentOnce == \A c \in Claims : sent[c] <= 1

\* While the controller would let mutations pass, its ledger has every purchase
\* that was sent.
ReadyIsComplete ==
  ctl.mode = "ready" => \A c \in Claims : sent[c] > 0 => db.rows[c] > 0

\* What was sent stands in the root: local files, then root, then outbound.
SentIsConfirmed ==
  \A c \in Claims :
    sent[c] > 0 /\ db.rows[c] > 0 /\ db.id = root.epoch /\ Mine.bound =>
      db.rows[c] <= Mine.floor

\* Once a step that was not confirmed has been taken over, nothing goes
\* outbound any more, whatever is restarted or put back.
GapNeverServes == gapTaken => ctl.mode # "ready"

\* A purchase goes outbound once, with its record confirmed by the root, though
\* processes die and files are put back; a ledger that served and lost a record
\* serves no more, nor does one whose last step had to be taken over.
OutboundOnce ==
  SentOnce /\ ReadyIsComplete /\ SentIsConfirmed /\ GapNeverServes
=============================================================================
