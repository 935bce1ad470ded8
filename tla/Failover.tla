------------------------------ MODULE Failover ------------------------------
(***************************************************************************)
(* A model call with its backup models, gateway/failover.py:               *)
(* chat_with_fallback and stream_with_fallback, over the ledger of provider*)
(* calls (CallLedger) and the cooldowns of models (Cooldowns).             *)
(*                                                                         *)
(* A run is one coroutine.  Its writes to the ledger are made by a thread  *)
(* that it shields and waits for when it is cancelled; cancelled again     *)
(* while it waits, it leaves and the thread goes on.  An operation may be  *)
(* begun again, by a client that repeats it or after a crash, and is then  *)
(* the same operation to the ledger.                                       *)
(***************************************************************************)
EXTENDS Integers, FiniteSets, Sequences

CONSTANTS
  Quotes, NoQuote, Fundings, Amounts, Models, ErrThreshold, MaxTracked,
  Operations,
  Runs,     \* coroutines at work
  Order     \* the requested model, then its backups

ASSUME FailoverAssumption ==
  /\ Operations # {} /\ Quotes # {} /\ NoQuote \notin Quotes
  /\ Order \in Seq(Models) /\ Order # <<>>
  /\ {ErrThreshold, MaxTracked} \subseteq Nat \ {0}

VARIABLES
  calls, reservations, entries, \* the ledger
  cooling, errors,              \* the cooldowns
  runs,                         \* what each coroutine is doing
  strays,                       \* writes whose coroutine has left
  sent                          \* calls the provider has, or may get

ledger == <<calls, reservations, entries>>
quota == <<cooling, errors>>
vars == <<ledger, quota, runs, strays, sent>>

\* The ledger's identifier of the n-th attempt of an operation.
AttemptCalls == Operations \X (1..Len(Order))

Ledger == INSTANCE CallLedger WITH Calls <- AttemptCalls, Turns <- Operations, Commercial <- TRUE
Quota == INSTANCE Cooldowns

Places == {"idle", "next", "starting", "aborted", "calling", "streaming",
           "closing"}

\* How an attempt ended: what the ledger is told, whether the next model is
\* tried then, and what is noted of this one.
Marks == {"none", "ok", "error", "quota", "twice", "quota and error"}
Verdict == [status: {"none"} \cup Ledger!Terminal, error: Ledger!Errors \ {"stale"},
            failover: BOOLEAN, mark: Marks]
NoVerdict ==
  [status |-> "none", error |-> "none", failover |-> FALSE, mark |-> "none"]

Run == [at: Places, op: Operations, stream: BOOLEAN, rest: Seq(Models), model: Models,
        n: 0..Len(Order), verdict: Verdict]
Idle == [at |-> "idle", op |-> CHOOSE o \in Operations : TRUE,
         stream |-> FALSE, rest |-> <<>>, model |-> Order[1], n |-> 0,
         verdict |-> NoVerdict]

Init ==
  /\ Ledger!Init /\ Quota!Init
  /\ runs = [r \in Runs |-> Idle]
  /\ strays = {} /\ sent = {}

At(r, place) == runs[r].at = place
C(r) == <<runs[r].op, runs[r].n>>
Becomes(r, run) == runs' = [runs EXCEPT ![r] = run]
Goes(r, place) ==
  Becomes(r, IF place = "idle" THEN Idle
             ELSE [runs[r] EXCEPT !.at = place, !.verdict = NoVerdict])

-----------------------------------------------------------------------------
(* The chain of models.                                                    *)

\* fallback_chain sorts the models: those in a cooldown come last.
IsBefore(i, j) ==
  \/ Quota!IsAvailable(Order[i]) /\ ~ Quota!IsAvailable(Order[j])
  \/ (Quota!IsAvailable(Order[i]) <=> Quota!IsAvailable(Order[j])) /\ i < j
Chains ==
  {[i \in 1..Len(Order) |-> Order[place[i]]] :
     place \in {p \in [1..Len(Order) -> 1..Len(Order)] :
                  \A i, j \in 1..Len(Order) : i < j => IsBefore(p[i], p[j])}}

Begin(r, o, stream) ==
  /\ At(r, "idle")
  /\ \E chain \in Chains :
       Becomes(r, [Idle EXCEPT !.at = "next", !.op = o, !.stream = stream, !.rest = chain])
  /\ UNCHANGED <<ledger, quota, strays, sent>>

\* The model has no route.
Skip(r) ==
  /\ At(r, "next") /\ runs[r].rest # <<>>
  /\ Becomes(r, [runs[r] EXCEPT !.rest = Tail(@)])
  /\ UNCHANGED <<ledger, quota, strays, sent>>

\* No model is left, or the time of the operation is over.
GiveUp(r) ==
  /\ At(r, "next")
  /\ Goes(r, "idle")
  /\ UNCHANGED <<ledger, quota, strays, sent>>

Pick(r) ==
  /\ At(r, "next") /\ runs[r].rest # <<>>
  /\ Becomes(r, [runs[r] EXCEPT !.at = "starting", !.n = @ + 1,
       !.model = Head(runs[r].rest), !.rest = Tail(runs[r].rest)])
  /\ UNCHANGED <<ledger, quota, strays, sent>>

-----------------------------------------------------------------------------
(* start_provider_attempt_durable.                                         *)

Price == CHOOSE q \in Quotes : TRUE

\* The call is recorded, and made.
Started(r) ==
  /\ At(r, "starting")
  /\ Ledger!Start(C(r), runs[r].op, Price)
  /\ sent' = sent \cup {C(r)}
  /\ Goes(r, "calling")
  /\ UNCHANGED <<quota, strays>>

\* The identifier was claimed, the budget is used up, or the database fails.
StartRefused(r) ==
  /\ At(r, "starting") \/ At(r, "aborted")
  /\ Goes(r, "idle")
  /\ UNCHANGED <<ledger, quota, strays, sent>>

CancelStart(r) ==
  /\ At(r, "starting")
  /\ Goes(r, "aborted")
  /\ UNCHANGED <<ledger, quota, strays, sent>>

Closing(r, status, error, failover, mark) ==
  Becomes(r, [runs[r] EXCEPT !.at = "closing", !.verdict =
    [status |-> status, error |-> error, failover |-> failover, mark |-> mark]])

\* The cancelled coroutine waited for the claim and closes it unmade.
StartedAborted(r) ==
  /\ At(r, "aborted")
  /\ Ledger!Start(C(r), runs[r].op, Price)
  /\ Closing(r, "cancelled", "before_invocation", FALSE, "none")
  /\ UNCHANGED <<quota, strays, sent>>

LeaveStart(r) ==
  /\ At(r, "aborted")
  /\ strays' = strays \cup {[call |-> C(r), start |-> TRUE, verdict |-> NoVerdict]}
  /\ Goes(r, "idle")
  /\ UNCHANGED <<ledger, quota, sent>>

-----------------------------------------------------------------------------
(* The call.                                                               *)

\* A whole answer.
Answered(r) ==
  /\ At(r, "calling") /\ ~ runs[r].stream
  /\ Closing(r, "success", "none", FALSE, "ok")
  /\ UNCHANGED <<ledger, quota, strays, sent>>

\* The connection was never made: no request has left, or will.
Unconnected(r) ==
  /\ At(r, "calling")
  /\ sent' = sent \ {C(r)}
  /\ \E mark \in {"error", "quota"} :
       Closing(r, "provider_error", "connect", TRUE, mark)
  /\ UNCHANGED <<ledger, quota, strays>>

\* Faulty: after a timeout the next model is tried.
LostThenNext(r) ==
  /\ At(r, "calling")
  /\ \E status \in {"provider_error", "timeout"} :
       Closing(r, status, "unknown", status = "timeout", "error")
  /\ UNCHANGED <<ledger, quota, strays, sent>>

\* The call timed out or failed, it was answered with an error, or a stream
\* with nothing.  A stream passes through two handlers, each of which notes the
\* error; only one does for an adapter that itself reports an unknown outcome.
Lost(r) ==
  /\ At(r, "calling")
  /\ \/ /\ ~ runs[r].stream
        /\ \E mark \in {"error", "quota"} :
             Closing(r, "provider_error", "unknown", FALSE, mark)
     \/ ~ runs[r].stream /\ Closing(r, "timeout", "unknown", FALSE, "error")
     \/ /\ runs[r].stream
        /\ \E mark \in {"error", "twice", "quota and error"} :
             Closing(r, "provider_error", "unknown", FALSE, mark)
     \/ /\ runs[r].stream
        /\ \E status \in {"timeout", "empty_stream"} :
             Closing(r, status, "unknown", FALSE, "twice")
  /\ UNCHANGED <<ledger, quota, strays, sent>>

\* The caller goes away: the coroutine is cancelled, or its stream closed.
CancelCall(r) ==
  /\ At(r, "calling") \/ At(r, "streaming")
  /\ Closing(r, "cancelled", "unknown", FALSE, "none")
  /\ UNCHANGED <<ledger, quota, strays, sent>>

FirstChunk(r) ==
  /\ At(r, "calling") /\ runs[r].stream
  /\ Quota!MarkOk(runs[r].model)
  /\ Goes(r, "streaming")
  /\ UNCHANGED <<ledger, strays, sent>>

StreamEnds(r) ==
  /\ At(r, "streaming")
  /\ Closing(r, "success", "none", FALSE, "none")
  /\ UNCHANGED <<ledger, quota, strays, sent>>

\* After the first chunk no other model is tried, whatever is wrong.
StreamFails(r) ==
  /\ At(r, "streaming")
  /\ \/ \E mark \in {"none", "error"} :
          Closing(r, "timeout", "unknown", FALSE, mark)
     \/ \E mark \in {"error", "quota"}, error \in {"unknown", "connect"} :
          Closing(r, "stream_interrupted", error, FALSE, mark)
  /\ UNCHANGED <<ledger, quota, strays, sent>>

-----------------------------------------------------------------------------
(* finish_provider_attempt_durable.                                        *)

\* mark_ok, mark_error and mark_if_quota, one after the other.
Note(m, mark) ==
  CASE mark = "ok" -> Quota!MarkOk(m)
    [] mark = "error" -> Quota!MarkError(m)
    [] mark = "quota" -> Quota!MarkExhausted(m)
    [] mark = "quota and error" ->
         Quota!Becomes(Quota!AfterError(Quota!AfterExhausted(Quota!State, m), m))
    [] mark = "twice" ->
         Quota!Becomes(Quota!AfterError(Quota!AfterError(Quota!State, m), m))
    [] OTHER -> UNCHANGED quota

Continues(r) ==
  LET v == runs[r].verdict IN
  /\ Note(runs[r].model, v.mark)
  /\ Goes(r, IF v.failover THEN "next" ELSE "idle")

Open(c) == calls[c].status = "started"

\* A call that the reconciliation closed in the meantime stays as it is.
Finished(r) ==
  /\ At(r, "closing")
  /\ IF Open(C(r))
     THEN Ledger!Finish(C(r), runs[r].verdict.status, runs[r].verdict.error)
     ELSE UNCHANGED ledger
  /\ Continues(r)
  /\ UNCHANGED <<strays, sent>>

\* A stream closes its attempt again if it could not, one that had begun it.
ClosesAgain(r) == runs[r].stream /\ runs[r].verdict.error # "before_invocation"

\* The database fails.  A stream takes that for an error of the provider, of
\* unknown outcome (which of the two says whether a chunk was passed on), or is
\* past that handler and closes as cancelled in its last one.  Whoever has no
\* handler left ends and leaves the call open.
FinishFails(r) ==
  /\ At(r, "closing")
  /\ \/ /\ ClosesAgain(r) /\ runs[r].verdict.status # "cancelled"
        /\ \E status \in {"provider_error", "stream_interrupted"} :
             Closing(r, status, "unknown", FALSE, "error")
     \/ ClosesAgain(r) /\ Closing(r, "cancelled", "unknown", FALSE, "none")
     \/ /\ ClosesAgain(r) => runs[r].verdict.status = "cancelled"
        /\ Goes(r, "idle")
  /\ UNCHANGED <<ledger, quota, strays, sent>>

\* A run that is cancelled waits for its write and then ends.
CancelFinish(r) ==
  /\ At(r, "closing")
  /\ runs[r].verdict.mark # "none" \/ runs[r].verdict.failover
  /\ Closing(r, runs[r].verdict.status, runs[r].verdict.error, FALSE, "none")
  /\ UNCHANGED <<ledger, quota, strays, sent>>

\* Cancelled again it leaves its write behind; a stream closes its attempt
\* once more, which may overtake the write it left.
LeaveFinish(r) ==
  /\ At(r, "closing")
  /\ ~ runs[r].verdict.failover /\ runs[r].verdict.mark = "none"
  /\ strays' = strays \cup
       {[call |-> C(r), start |-> FALSE, verdict |-> runs[r].verdict]}
  /\ \/ ClosesAgain(r) /\ Closing(r, "cancelled", "unknown", FALSE, "none")
     \/ Goes(r, "idle")
  /\ UNCHANGED <<ledger, quota, sent>>

\* A write left behind is made, has nothing to do any more, or fails.
StrayLands(w) ==
  /\ w \in strays
  /\ \/ w.start /\ Ledger!Start(w.call, w.call[1], Price)
     \/ /\ ~ w.start /\ Open(w.call)
        /\ Ledger!Finish(w.call, w.verdict.status, w.verdict.error)
     \/ UNCHANGED ledger
  /\ strays' = strays \ {w}
  /\ UNCHANGED <<quota, runs, sent>>

-----------------------------------------------------------------------------
(* The process.                                                            *)

Crash ==
  /\ Quota!Clear
  /\ runs' = [r \in Runs |-> Idle]
  /\ strays' = {}
  /\ UNCHANGED <<ledger, sent>>

\* This process or another opens the ledger.
Reopen == Ledger!Reconcile /\ UNCHANGED <<quota, runs, strays, sent>>

\* The bound is a day: runs may well be at work when it passes.
Age(c) == Ledger!Age(c) /\ UNCHANGED <<quota, runs, strays, sent>>

Fund(f, a) == Ledger!Fund(f, a) /\ UNCHANGED <<quota, runs, strays, sent>>

CooldownEnds(m) ==
  /\ Quota!CooldownEnds(m) \/ Quota!ErrorIsForgotten(m)
  /\ UNCHANGED <<ledger, runs, strays, sent>>

Step(r) ==
  \/ Skip(r) \/ GiveUp(r) \/ Pick(r)
  \/ Started(r) \/ StartRefused(r) \/ StartedAborted(r)
  \/ Answered(r) \/ Unconnected(r) \/ Lost(r)
  \/ FirstChunk(r) \/ StreamEnds(r) \/ StreamFails(r)
  \/ Finished(r)

Disturbance(r) ==
  CancelStart(r) \/ LeaveStart(r) \/ CancelCall(r) \/ FinishFails(r)
  \/ CancelFinish(r) \/ LeaveFinish(r)

Next ==
  \/ \E r \in Runs : Step(r) \/ Disturbance(r)
  \/ \E r \in Runs, o \in Operations, stream \in BOOLEAN : Begin(r, o, stream)
  \/ \E w \in strays : StrayLands(w)
  \/ Crash \/ Reopen
  \/ \E c \in AttemptCalls : Age(c)
  \/ \E f \in Fundings, a \in Amounts : Fund(f, a)
  \/ \E m \in Models : CooldownEnds(m)

Spec == Init /\ [][Next]_vars

\* Every wait of a run has a deadline, calls grow old, and the ledger is opened
\* again from time to time, which is when old calls are closed.
Fairness ==
  /\ \A r \in Runs : WF_vars(Step(r))
  /\ \A c \in AttemptCalls : WF_vars(Age(c))
  /\ WF_vars(Reopen)

FairSpec == Spec /\ Fairness

-----------------------------------------------------------------------------
(* Properties.                                                             *)

TypeOK ==
  /\ calls \in [AttemptCalls -> Ledger!Call]
  /\ reservations \in [AttemptCalls -> Ledger!Reservation]
  /\ Quota!TypeOK
  /\ runs \in [Runs -> Run]
  /\ \A r \in Runs : runs[r].n + Len(runs[r].rest) <= Len(Order)
  /\ \A w \in strays : w.call \in AttemptCalls /\ w.start \in BOOLEAN /\ w.verdict \in Verdict
  /\ sent \subseteq AttemptCalls

\* Whatever is repeated, cancelled, lost or crashed, at most one attempt of an
\* operation reaches a provider: no user action is executed or billed twice.
SentOnce ==
  \A o \in Operations : Cardinality({c \in sent : c[1] = o}) <= 1

\* A call that a provider may have is on record with its money held, captured
\* or under review; none is charged to the operator and released to the user.
SentIsAccounted ==
  \A c \in sent :
    reservations[c].state \in {"reserved", "captured", "review_required"}

\* What is remembered of models is bounded, whatever models requests name, and
\* though two errors of one attempt are noted one after the other.
TrackingIsBounded == Quota!TrackingIsBounded

\* One attempt at most, on record, and of bounded memory.
CallsAreAccounted == SentOnce /\ SentIsAccounted /\ TrackingIsBounded

\* Whatever the runs do to the ledger is a call of the ledger.
UsesLedger == Ledger!Spec

\* No budget is held for ever by a call whose process died or whose closing was
\* lost: in the end it is captured, released or put under review.
Holds(c) == reservations[c].state = "reserved"
NoHoldForever == \A c \in AttemptCalls : []<>(~ Holds(c))

\* Every run ends, however its providers fail.
RunsEnd == \A r \in Runs : []<>At(r, "idle")
=============================================================================
