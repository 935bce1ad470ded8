----------------------------- MODULE ClaimLease -----------------------------
(***************************************************************************)
(* The lease of one worker of a channel over one row of its inbox:         *)
(* ClaimLeaseSession (gateway/channel_delivery_claim.py) with the storage  *)
(* the Weixin bridge gives it (scripts/run_weixin_ilink_bridge.py).        *)
(*                                                                         *)
(* Every claim has a session of its own, a worker that runs it and, once   *)
(* started, a heartbeat thread; both take the session's gate around each   *)
(* call of the store.  A claim's token and epoch are its number.  Of the   *)
(* clock remain whether a claim's deadline has passed (leased) and whether *)
(* the deadline of a finish has (late).                                    *)
(***************************************************************************)
EXTENDS Integers

CONSTANTS
  MaxClaims,    \* bound on the claims of the row
  MaxAttempts,  \* a message that failed so often is dead
  Tries,        \* the length of finish_retry_delays
  MaxFaults     \* bound on errors of the store, stalls and crashes

ASSUME ClaimLeaseAssumption ==
  MaxClaims \in Nat /\ MaxAttempts \in Nat \ {0} /\ Tries \in Nat \ {0} /\ MaxFaults \in Nat

Claims == 1..MaxClaims
Outcomes == {"done", "retry"}

VARIABLES
  row,      \* the row of inbound_message
  epoch,    \* its claim_epoch
  session,  \* the session and its worker, by claim
  gate,     \* who holds the session's gate
  beat,     \* the heartbeat thread
  effects,  \* the claim that made the last fenced write
  commits,  \* how often each claim's finish was committed
  faults

vars == <<row, epoch, session, gate, beat, effects, commits, faults>>

Finish == [claim: 0..MaxClaims, outcome: {"none", "done", "retry", "dead"}]
Row == [status: {"pending", "processing", "done", "dead"}, claim: 0..MaxClaims,
        leased: BOOLEAN, attempts: 0..MaxAttempts, last: Finish]

Finishing == {"finish", "write", "confirm", "closing"}
Session == [pc: {"none", "start", "work", "fence", "close", "end"} \cup Finishing,
            started: BOOLEAN, stop: BOOLEAN, lost: BOOLEAN,
            failed: BOOLEAN,  \* _finish_deadline_failed
            late: BOOLEAN, tries: 0..Tries, outcome: Outcomes,
            error: BOOLEAN,   \* finish_error of this try
            told: {"nothing", "finished", "not finished"},
            closed: BOOLEAN]  \* close answered that nothing is lost

NewSession == [pc |-> "start", started |-> FALSE, stop |-> FALSE, lost |-> FALSE,
               failed |-> FALSE, late |-> FALSE, tries |-> 0, outcome |-> "done",
               error |-> FALSE, told |-> "nothing", closed |-> FALSE]

Init ==
  /\ row = [status |-> "pending", claim |-> 0, leased |-> FALSE, attempts |-> 0,
            last |-> [claim |-> 0, outcome |-> "none"]]
  /\ epoch = 0
  /\ session = [c \in Claims |-> [NewSession EXCEPT !.pc = "none"]]
  /\ gate = [c \in Claims |-> "free"]
  /\ beat = [c \in Claims |-> "none"]
  /\ effects = 0
  /\ commits = [c \in Claims |-> 0]
  /\ faults = 0

At(c, pc) == session[c].pc = pc
Set(c, s) == session' = [session EXCEPT ![c] = s]
Hurt == faults < MaxFaults /\ faults' = faults + 1

-----------------------------------------------------------------------------
(* The store.                                                              *)

\* What every write of a claim is conditional on.
Owns(c) == row.status = "processing" /\ row.claim = c /\ row.leased

\* _claim_inbound: a row that waits, or whose owner let the deadline pass.
Claim(c) ==
  /\ c = epoch + 1
  /\ row.status = "pending" \/ (row.status = "processing" /\ ~ row.leased)
  /\ row' = [row EXCEPT !.status = "processing", !.claim = c, !.leased = TRUE]
  /\ epoch' = c
  /\ Set(c, NewSession)
  /\ UNCHANGED <<gate, beat, effects, commits, faults>>

\* _finish_inbound: the row as the finish of its owner leaves it.
FinishedRow(c, outcome) ==
  LET dead == outcome = "retry" /\ row.attempts + 1 >= MaxAttempts IN
  IF ~ Owns(c) THEN row
  ELSE [row EXCEPT !.status = IF outcome = "done" THEN "done" ELSE IF dead THEN "dead" ELSE "pending",
          !.claim = 0, !.leased = FALSE,
          !.attempts = IF outcome = "done" THEN @ ELSE @ + 1,
          !.last = [claim |-> c, outcome |-> IF dead THEN "dead" ELSE outcome]]

\* Faulty: a finish of the same kind is taken for this one.
ConfirmedByKind(c, outcome) ==
  row.last.outcome = IF outcome = "done" THEN "done"
                     ELSE IF row.status = "dead" THEN "dead" ELSE "retry"

\* _inbound_finish_was_committed
Confirmed(c, outcome) ==
  /\ row.last.claim = c
  /\ IF outcome = "done" THEN row.last.outcome = "done"
     ELSE \/ row.status = "pending" /\ row.last.outcome = "retry"
          \/ row.status = "dead" /\ row.last.outcome = "dead"

-----------------------------------------------------------------------------
(* The worker, up to the finish.                                           *)

\* start: one renewal and the heartbeat thread; a renewal that fails or errs
\* is a loss, and the session is closed.
Start(c) ==
  /\ At(c, "start")
  /\ \/ Owns(c) /\ Set(c, [session[c] EXCEPT !.pc = "work", !.started = TRUE])
        /\ beat' = [beat EXCEPT ![c] = "wait"] /\ UNCHANGED faults
     \/ ~ Owns(c) /\ Set(c, [session[c] EXCEPT !.pc = "close", !.lost = TRUE])
        /\ UNCHANGED <<beat, faults>>
     \/ Hurt /\ Set(c, [session[c] EXCEPT !.pc = "close", !.lost = TRUE])
        /\ UNCHANGED beat
  /\ UNCHANGED <<row, epoch, gate, effects, commits>>

\* before_provider: a renewal at the boundary of an outside call.
BeforeProvider(c) ==
  /\ At(c, "work") /\ gate[c] = "free" /\ ~ session[c].lost
  /\ \/ ~ Owns(c) /\ UNCHANGED faults
     \/ Hurt
  /\ Set(c, [session[c] EXCEPT !.lost = TRUE])
  /\ UNCHANGED <<row, epoch, gate, beat, effects, commits>>

\* commit_fence: the gate is held from here to the end of the write.
EnterFence(c) ==
  /\ At(c, "work") /\ gate[c] = "free" /\ ~ session[c].lost
  /\ IF Owns(c)
     THEN /\ gate' = [gate EXCEPT ![c] = "worker"]
          /\ Set(c, [session[c] EXCEPT !.pc = "fence"])
     ELSE Set(c, [session[c] EXCEPT !.lost = TRUE]) /\ UNCHANGED gate
  /\ UNCHANGED <<row, epoch, beat, effects, commits, faults>>

\* Faulty: what the fence asked is trusted.
FencedWriteTrusting(c) ==
  /\ At(c, "fence")
  /\ effects' = c
  /\ gate' = [gate EXCEPT ![c] = "free"]
  /\ Set(c, [session[c] EXCEPT !.pc = "work"])
  /\ UNCHANGED <<row, epoch, beat, commits, faults>>

\* The write inside the fence asks again, in its own transaction.
FencedWrite(c) ==
  /\ At(c, "fence")
  /\ effects' = IF Owns(c) THEN c ELSE effects
  /\ gate' = [gate EXCEPT ![c] = "free"]
  /\ Set(c, [session[c] EXCEPT !.pc = "work"])
  /\ UNCHANGED <<row, epoch, beat, commits, faults>>

-----------------------------------------------------------------------------
(* finish: bounded tries, each inside the gate.                            *)

\* The handler is done; a session that is lost does not finish as a success.
BeginFinish(c) ==
  /\ At(c, "work")
  /\ \E outcome \in Outcomes :
       /\ session[c].lost => outcome = "retry"
       /\ Set(c, [session[c] EXCEPT !.pc = "finish", !.outcome = outcome,
                    !.late = FALSE, !.tries = 0, !.error = FALSE])
  /\ UNCHANGED <<row, epoch, gate, beat, effects, commits, faults>>

Unfinished(s) == [s EXCEPT !.pc = "close", !.told = "not finished"]
Lost(s) == Unfinished([s EXCEPT !.lost = TRUE])
\* _fail_finish_deadline
TooLate(s) == Lost([s EXCEPT !.stop = TRUE, !.failed = TRUE])
Closing(s) == [s EXCEPT !.pc = "closing", !.stop = TRUE]

NextTry(s) ==
  IF s.tries + 1 < Tries THEN [s EXCEPT !.pc = "finish", !.tries = @ + 1, !.error = FALSE]
  ELSE Unfinished(s)

FinishTakesGate(c) ==
  /\ At(c, "finish")
  /\ IF session[c].late THEN Set(c, TooLate(session[c])) /\ UNCHANGED gate
     ELSE /\ gate[c] = "free"
          /\ IF session[c].lost THEN Set(c, Lost(session[c])) /\ UNCHANGED gate
             ELSE /\ Set(c, [session[c] EXCEPT !.pc = "write"])
                  /\ gate' = [gate EXCEPT ![c] = "worker"]
  /\ UNCHANGED <<row, epoch, beat, effects, commits, faults>>

\* What the store answers to the write, and whether it was committed: an error
\* may hide a commit, and a commit that exceeds the budget is a fatal error.
Answers(c) ==
  IF FinishedRow(c, session[c].outcome) # row
  THEN {<<"changed", TRUE>>, <<"retryable", TRUE>>, <<"retryable", FALSE>>,
        <<"fatal", TRUE>>, <<"fatal", FALSE>>}
  ELSE {<<"missed", FALSE>>, <<"retryable", FALSE>>, <<"fatal", FALSE>>}

FinishWrites(c) ==
  /\ At(c, "write")
  /\ \E answer \in Answers(c) :
       /\ row' = IF answer[2] THEN FinishedRow(c, session[c].outcome) ELSE row
       /\ commits' = [commits EXCEPT ![c] = IF answer[2] THEN @ + 1 ELSE @]
       /\ IF answer[1] \in {"retryable", "fatal"} THEN Hurt ELSE UNCHANGED faults
       /\ Set(c, CASE answer[1] = "fatal" -> Lost(session[c])
                   [] answer[1] # "fatal" /\ session[c].late -> TooLate(session[c])
                   [] answer[1] = "changed" /\ ~ session[c].late -> Closing(session[c])
                   [] OTHER -> [session[c] EXCEPT !.pc = "confirm",
                                  !.error = (answer[1] = "retryable")])
  /\ gate' = [gate EXCEPT ![c] = IF session'[c].pc = "confirm" THEN @ ELSE "free"]
  /\ UNCHANGED <<epoch, beat, effects>>

\* After an error or a miss the row is asked whether it was this finish.
FinishConfirms(c) ==
  /\ At(c, "confirm")
  /\ \/ /\ UNCHANGED faults
        /\ Set(c, CASE session[c].late -> TooLate(session[c])
                    [] ~ session[c].late /\ Confirmed(c, session[c].outcome) ->
                         Closing(session[c])
                    [] ~ session[c].late /\ ~ Confirmed(c, session[c].outcome) ->
                         IF session[c].error THEN NextTry(session[c]) ELSE Lost(session[c]))
     \/ Hurt /\ Set(c, IF session[c].late THEN TooLate(session[c]) ELSE NextTry(session[c]))
     \/ Hurt /\ Set(c, Lost(session[c]))
  /\ gate' = [gate EXCEPT ![c] = "free"]
  /\ UNCHANGED <<row, epoch, beat, effects, commits>>

\* _close_before: the heartbeat is stopped with what is left of the deadline.
FinishCloses(c) ==
  /\ At(c, "closing")
  /\ \/ session[c].late /\ Set(c, TooLate(session[c])) /\ UNCHANGED faults
     \/ beat[c] = "ended" /\ ~ session[c].late
        /\ Set(c, [session[c] EXCEPT !.pc = "close",
                     !.told = IF session[c].lost THEN "not finished" ELSE "finished"])
        /\ UNCHANGED faults
     \/ beat[c] # "ended" /\ Hurt /\ Set(c, Lost([session[c] EXCEPT !.failed = TRUE]))
  /\ UNCHANGED <<row, epoch, gate, beat, effects, commits>>

\* The deadline of the finish passes.
Late(c) ==
  /\ session[c].pc \in Finishing /\ ~ session[c].late
  /\ Hurt
  /\ Set(c, [session[c] EXCEPT !.late = TRUE])
  /\ UNCHANGED <<row, epoch, gate, beat, effects, commits>>

\* Faulty: a thread that nobody told to stop is waited for.
CloseWaiting(c) ==
  /\ At(c, "close") /\ beat[c] \in {"none", "ended"}
  /\ Set(c, [session[c] EXCEPT !.pc = "end"])
  /\ UNCHANGED <<row, epoch, gate, beat, effects, commits, faults>>

\* close: the thread is joined for a bounded time.
Close(c) ==
  /\ At(c, "close")
  /\ \/ session[c].stop /\ (beat[c] \in {"none", "ended"} \/ session[c].failed)
        /\ Set(c, [session[c] EXCEPT !.pc = "end",
                     !.closed = ~ (session[c].failed \/ session[c].lost)])
        /\ UNCHANGED faults
     \/ ~ session[c].stop /\ Set(c, [session[c] EXCEPT !.stop = TRUE]) /\ UNCHANGED faults
     \/ session[c].stop /\ beat[c] \notin {"none", "ended"} /\ Hurt
        /\ Set(c, [session[c] EXCEPT !.pc = "end", !.lost = TRUE])
  /\ UNCHANGED <<row, epoch, gate, beat, effects, commits>>

-----------------------------------------------------------------------------
(* The heartbeat.                                                          *)

\* Its interval is over; it waits for the gate.
Wake(c) ==
  /\ beat[c] = "wait"
  /\ beat' = [beat EXCEPT ![c] = IF session[c].stop THEN "ended" ELSE "gate"]
  /\ UNCHANGED <<row, epoch, session, gate, effects, commits, faults>>

TakesGate(c) ==
  /\ beat[c] = "gate" /\ gate[c] = "free"
  /\ IF session[c].lost \/ session[c].stop
     THEN beat' = [beat EXCEPT ![c] = "ended"] /\ UNCHANGED gate
     ELSE /\ beat' = [beat EXCEPT ![c] = "renew"]
          /\ gate' = [gate EXCEPT ![c] = "beat"]
  /\ UNCHANGED <<row, epoch, session, effects, commits, faults>>

\* The renewal itself; an error is a loss.
Pulse(c) ==
  /\ beat[c] = "renew"
  /\ gate' = [gate EXCEPT ![c] = "free"]
  /\ \/ Owns(c) /\ beat' = [beat EXCEPT ![c] = "wait"] /\ UNCHANGED <<session, faults>>
     \/ /\ (~ Owns(c) /\ UNCHANGED faults) \/ Hurt
        /\ beat' = [beat EXCEPT ![c] = "ended"]
        /\ Set(c, [session[c] EXCEPT !.lost = TRUE])
  /\ UNCHANGED <<row, epoch, effects, commits>>

-----------------------------------------------------------------------------
(* What may happen at any time.                                            *)

Beating(c) == beat[c] \in {"wait", "gate", "renew"} /\ ~ session[c].stop

\* The deadline of a claim passes: nothing renews it, or its threads stall.
Lapse ==
  /\ row.leased
  /\ IF Beating(row.claim) THEN Hurt ELSE UNCHANGED faults
  /\ row' = [row EXCEPT !.leased = FALSE]
  /\ UNCHANGED <<epoch, session, gate, beat, effects, commits>>

\* The process dies; at the next start claims are given back (_recover_inbound).
Crash ==
  /\ Hurt
  /\ session' = [c \in Claims |-> IF At(c, "none") THEN session[c]
                   ELSE [NewSession EXCEPT !.pc = "end", !.lost = TRUE]]
  /\ beat' = [c \in Claims |-> IF At(c, "none") THEN "none" ELSE "ended"]
  /\ gate' = [c \in Claims |-> "free"]
  /\ row' = IF row.status = "processing"
            THEN [row EXCEPT !.status = "pending", !.claim = 0, !.leased = FALSE] ELSE row
  /\ UNCHANGED <<epoch, effects, commits>>

Work(c) ==
  \/ Start(c) \/ EnterFence(c) \/ FencedWrite(c) \/ BeginFinish(c)
  \/ FinishTakesGate(c) \/ FinishWrites(c) \/ FinishConfirms(c) \/ FinishCloses(c)
  \/ Close(c)
Heartbeat(c) == Wake(c) \/ TakesGate(c) \/ Pulse(c)

Next ==
  \/ \E c \in Claims : Claim(c) \/ BeforeProvider(c) \/ Work(c) \/ Late(c) \/ Heartbeat(c)
  \/ Lapse \/ Crash

\* A row that nobody may claim once more, with every session over, stays.
Rests ==
  /\ \A c \in Claims : session[c].pc \in {"none", "end"} /\ beat[c] \in {"none", "ended"}
  /\ row.status \in {"done", "dead"} \/ epoch = MaxClaims
  /\ UNCHANGED vars

Spec == Init /\ [][Next \/ Rests]_vars

\* Threads run; a finish is begun in the end; time passes over a lease that
\* nothing renews.
FairSpec ==
  /\ Spec
  /\ \A c \in Claims :
       /\ WF_vars(Start(c)) /\ WF_vars(FencedWrite(c)) /\ SF_vars(BeginFinish(c))
       /\ SF_vars(FinishTakesGate(c)) /\ WF_vars(FinishWrites(c))
       /\ WF_vars(FinishConfirms(c)) /\ WF_vars(FinishCloses(c)) /\ WF_vars(Close(c))
       /\ WF_vars(Wake(c)) /\ SF_vars(TakesGate(c)) /\ WF_vars(Pulse(c))
  /\ WF_vars(Lapse)

-----------------------------------------------------------------------------
(* Properties.                                                             *)

TypeOK ==
  /\ row \in Row /\ epoch \in 0..MaxClaims
  /\ session \in [Claims -> Session]
  /\ gate \in [Claims -> {"free", "worker", "beat"}]
  /\ beat \in [Claims -> {"none", "wait", "gate", "renew", "ended"}]
  /\ effects \in 0..MaxClaims
  /\ commits \in [Claims -> 0..Tries]
  /\ faults \in 0..MaxFaults
  /\ row.status = "processing" <=> row.claim # 0

\* A worker that is told its finish stands has committed it, once, although
\* the answer of the store was lost and others claimed the row since; and no
\* claim is ever finished twice by its retries.
FinishIsTrue ==
  \A c \in Claims : commits[c] <= 1 /\ (session[c].told = "finished" => commits[c] = 1)

\* While a worker may still call out, either its heartbeat runs or the session
\* knows that it is lost.
WorkIsCovered ==
  \A c \in Claims : session[c].pc \in {"work", "fence"} =>
    session[c].lost \/ (beat[c] \in {"wait", "gate", "renew"} /\ ~ session[c].stop)

\* A session whose close answered yes leaves no thread behind that would renew.
ClosedIsQuiet ==
  \A c \in Claims : session[c].closed => beat[c] \in {"none", "ended"}

\* What a session tells is true, its work is covered, and it leaves no thread.
LeaseIsTrue == FinishIsTrue /\ WorkIsCovered /\ ClosedIsQuiet

\* The fenced writes of a row's owners never run backwards: a worker that
\* stalled inside the fence writes nothing after its successor did.  And a row
\* that is done or dead is never opened again, by a late finish either.
WritesFollowClaims ==
  [][/\ effects' >= effects
     /\ row.status \in {"done", "dead"} => UNCHANGED <<row.status, row.last>>]_vars

\* A session ends, and a claim does not outlive the work on it for ever.
SessionIsOver(c) == session[c].pc \in {"none", "end"}
OutlivesWork(c) == At(c, "end") /\ Owns(c)
LeasesEnd == \A c \in Claims : []<>SessionIsOver(c) /\ []<>(~ OutlivesWork(c))
=============================================================================
