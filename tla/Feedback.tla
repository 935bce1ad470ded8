------------------------------ MODULE Feedback ------------------------------
(***************************************************************************)
(* Feedback applied once, record_feedback_once of orchestrator/agent.py:   *)
(* the effect (a lesson, a case, a score) is claimed among the receipts of *)
(* turns before it happens, and its result is the receipt.                 *)
(***************************************************************************)
EXTENDS TurnReceipts

CONSTANTS Callers, TurnOf, RequestOf

FeedbackAssumption ==
  /\ TurnOf \in [Callers -> Turns]
  /\ RequestOf \in [Callers -> Requests]

VARIABLES
  pc,      \* where each caller stands
  told,    \* what each caller was told
  applied  \* how often the effects of each turn were begun

fvars == <<tvars, pc, told, applied>>

FInit ==
  /\ Init
  /\ pc = [c \in Callers |-> "idle"]
  /\ told = [c \in Callers |-> None]
  /\ applied = [t \in Turns |-> 0]

T(c) == TurnOf[c]
R(c) == RequestOf[c]
To(c, p) == pc' = [pc EXCEPT ![c] = p]
Tell(c, a) == told' = [told EXCEPT ![c] = a] /\ To(c, "idle")

Call(c) ==
  /\ pc[c] = "idle"
  /\ To(c, "claim") /\ told' = [told EXCEPT ![c] = None]
  /\ UNCHANGED <<tvars, applied>>

ClaimIt(c) ==
  /\ pc[c] = "claim"
  /\ \E outcome \in {"claimed", "in_progress", "committed", "conflict", "unavailable"} :
       /\ ClaimEffect(T(c), R(c), outcome)
       /\ CASE outcome = "claimed" -> To(c, "apply") /\ UNCHANGED told
            [] outcome = "in_progress" -> To(c, "wait") /\ UNCHANGED told
            [] outcome = "committed" -> Tell(c, receipts[T(c)].response)
            [] OTHER -> Tell(c, None)
  /\ UNCHANGED applied

\* record_feedback writes its stores one after the other and raises nothing.
Apply(c) ==
  /\ pc[c] = "apply"
  /\ To(c, "commit")
  /\ applied' = [applied EXCEPT ![T(c)] = IF @ < 2 THEN @ + 1 ELSE @]
  /\ UNCHANGED <<tvars, told>>

CommitIt(c) ==
  /\ pc[c] = "commit"
  /\ \E a \in Responses, outcome \in Responses \cup {None} :
       Commit(T(c), R(c), a, outcome) /\ Tell(c, outcome)
  /\ UNCHANGED applied

\* A caller that came second polls for the result, and gives up in the end.
Wait(c) ==
  /\ pc[c] = "wait"
  /\ \/ Lookup(T(c), R(c)) = "committed" /\ Tell(c, receipts[T(c)].response)
     \/ Lookup(T(c), R(c)) # "committed" /\ Tell(c, None)
     \/ Lookup(T(c), R(c)) = "nothing" /\ UNCHANGED <<pc, told>>
  /\ UNCHANGED <<tvars, applied>>

\* The process dies, or the caller's store fails under it.
Crash(c) ==
  /\ pc[c] # "idle"
  /\ Tell(c, None)
  /\ UNCHANGED <<tvars, applied>>

\* Nobody is at work for a turn whose receipt grows old.
Age(t) ==
  /\ Committed(t) /\ \A c \in Callers : T(c) = t => pc[c] = "idle"
  /\ AgeReceipt(t)
  /\ told' = [c \in Callers |-> IF T(c) = t THEN None ELSE told[c]]
  /\ applied' = [applied EXCEPT ![t] = 0]
  /\ UNCHANGED pc

Next ==
  \/ \E c \in Callers : Call(c) \/ ClaimIt(c) \/ Apply(c) \/ CommitIt(c)
                        \/ Wait(c) \/ Crash(c)
  \/ \E t \in Turns : Age(t)

Spec == FInit /\ [][Next]_fvars

-----------------------------------------------------------------------------

TypeOK ==
  /\ receipts \in [Turns -> Receipt]
  /\ reservations \in [Turns -> Reservation]
  /\ pc \in [Callers -> {"idle", "claim", "apply", "commit", "wait"}]
  /\ told \in [Callers -> Responses \cup {None}]
  /\ applied \in [Turns -> 0..2]
  /\ \A t \in Turns : Committed(t) =>
       receipts[t].response # None /\ reservations[t] = NoReservation

\* The effects of one feedback are begun at most once while its receipt is
\* protected, by concurrent callers and after crashes alike.
AppliedOnce == \A t \in Turns : applied[t] <= 1

\* Who is told a result is told the one that stands for what it asked, also
\* when it only waited for another caller to finish.
ToldWhatStands ==
  [][\A c \in Callers : told'[c] \notin {None, told[c]} =>
       /\ receipts'[T(c)].request = R(c)
       /\ receipts'[T(c)].response = told'[c]]_fvars

\* Receipts and reservations never exceed what the store may hold.
RoomIsBounded == Cardinality(Occupied(receipts, reservations)) <= MaxReceipts

\* The receipts keep the promise of a turn.
Promise == INSTANCE TurnPromise WITH
  bound <- [t \in Turns |-> Bound(t)],
  response <- [t \in Turns |-> receipts[t].response],
  expired <- {t \in Turns : receipts[t].old}
KeepsPromise == Promise!Spec
=============================================================================
