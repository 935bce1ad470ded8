----------------------------- MODULE Cooldowns -----------------------------
(***************************************************************************)
(* Which models are left alone for a while, gateway/quota_state.py.  The   *)
(* state is in memory: a restart forgets it.  A cooldown and the memory of *)
(* a lone error end at a time of their own.                                *)
(***************************************************************************)
EXTENDS Integers, FiniteSets

CONSTANTS
  Models,
  ErrThreshold, \* consecutive errors that open the breaker
  MaxTracked    \* models remembered at once

CooldownsAssumption == {ErrThreshold, MaxTracked} \subseteq Nat \ {0}

VARIABLES
  cooling, \* models in a cooldown
  errors   \* consecutive errors counted for each model

qvars == <<cooling, errors>>

Init ==
  /\ cooling = {}
  /\ errors = [m \in Models |-> 0]

Tracked == cooling \cup {m \in Models : errors[m] > 0}

CanTrack(m) == m \in Tracked \/ Cardinality(Tracked) < MaxTracked

\* What a mark makes of the state s, a record of the two variables.
State == [cooling |-> cooling, errors |-> errors]
Becomes(s) == cooling' = s.cooling /\ errors' = s.errors

Forgiven(m) == [errors EXCEPT ![m] = 0]

Cooled(s, m) ==
  [cooling |-> s.cooling \cup {m}, errors |-> [s.errors EXCEPT ![m] = 0]]

AfterExhausted(s, m) == IF CanTrack(m) THEN Cooled(s, m) ELSE s

\* The error that reaches the threshold opens the breaker.
AfterError(s, m) ==
  IF ~ CanTrack(m) THEN s
  ELSE IF s.errors[m] + 1 >= ErrThreshold THEN Cooled(s, m)
  ELSE [s EXCEPT !.errors[m] = @ + 1]

MarkExhausted(m) == Becomes(AfterExhausted(State, m))
MarkError(m) == Becomes(AfterError(State, m))

\* A success clears the count and leaves a cooldown as it is.
MarkOk(m) == errors' = Forgiven(m) /\ UNCHANGED cooling

\* available: an unknown model is left alone when no more can be remembered.
IsAvailable(m) == m \notin cooling /\ CanTrack(m)

\* _prune_expired_locked.
CooldownEnds(m) == m \in cooling /\ cooling' = cooling \ {m} /\ UNCHANGED errors
ErrorIsForgotten(m) == errors[m] > 0 /\ errors' = Forgiven(m) /\ UNCHANGED cooling

\* clear; a new process starts the same way.
Clear == cooling' = {} /\ errors' = [m \in Models |-> 0]

Next ==
  \/ \E m \in Models :
       MarkExhausted(m) \/ MarkError(m) \/ MarkOk(m) \/ CooldownEnds(m)
       \/ ErrorIsForgotten(m)
  \/ Clear

TypeOK == cooling \subseteq Models /\ errors \in [Models -> 0..ErrThreshold - 1]

\* What is remembered of models is bounded, whatever names requests bring.
TrackingIsBounded == Cardinality(Tracked) <= MaxTracked
=============================================================================
