---------------------------- MODULE TurnPromise ----------------------------
(***************************************************************************)
(* What the receipts promise of a turn (docs/adr/0007): the first request  *)
(* binds it, for good if it is given up before a provider is reached; it   *)
(* gets one response, which stands; only a response is ever forgotten,     *)
(* when its time of protection is over.                                    *)
(***************************************************************************)
CONSTANTS Turns, Requests, Responses, None

VARIABLES
  bound,   \* the request of each turn, or None
  response, \* the response of each turn, or None
  expired  \* turns whose response is no longer protected

Init ==
  /\ bound = [t \in Turns |-> None]
  /\ response = [t \in Turns |-> None]
  /\ expired = {}

Forgotten(F, f) == [t \in Turns |-> IF t \in F THEN None ELSE f[t]]

\* Forgetting happens when room is made for a new turn.
Bind(t, r, F) ==
  /\ F \subseteq expired /\ t \notin F
  /\ bound[t] \in {None, r} /\ response[t] = None
  /\ bound' = [Forgotten(F, bound) EXCEPT ![t] = r]
  /\ response' = Forgotten(F, response)
  /\ expired' = expired \ F

Answer(t, a) ==
  /\ bound[t] # None /\ response[t] = None
  /\ response' = [response EXCEPT ![t] = a]
  /\ UNCHANGED <<bound, expired>>

Expire(t) ==
  /\ response[t] # None
  /\ expired' = expired \cup {t}
  /\ UNCHANGED <<bound, response>>

Next ==
  \/ \E t \in Turns, r \in Requests, F \in SUBSET Turns : Bind(t, r, F)
  \/ \E t \in Turns, a \in Responses : Answer(t, a)
  \/ \E t \in Turns : Expire(t)

Spec == Init /\ [][Next]_<<bound, response, expired>>
=============================================================================
