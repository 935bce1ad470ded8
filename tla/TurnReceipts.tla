---------------------------- MODULE TurnReceipts ----------------------------
(***************************************************************************)
(* The receipts of turns in the store of conversations,                    *)
(* orchestrator/agent.py: room for a receipt is reserved before a turn may *)
(* reach a provider, and the receipt takes the reservation's place in the  *)
(* transaction that writes the conversation.                               *)
(*                                                                         *)
(* Every action is one transaction.  The entries of the conversation are   *)
(* written by the transaction that inserts the receipt and are not kept    *)
(* apart from it.  A reservation and a receipt count as one unit of room.  *)
(***************************************************************************)
EXTENDS Integers, FiniteSets

CONSTANTS
  Turns,     \* turn keys
  Requests,  \* digests of what is asked
  Responses,
  None,
  MaxReceipts

TurnReceiptsAssumption ==
  /\ None \notin Requests \cup Responses
  /\ MaxReceipts \in Nat \ {0}

VARIABLES
  receipts,    \* agent_turn_receipt
  reservations \* agent_turn_reservation

tvars == <<receipts, reservations>>

\* old: past the thirty days a receipt is protected for.
Receipt == [request: Requests \cup {None}, response: Responses \cup {None},
            old: BOOLEAN]
NoReceipt == [request |-> None, response |-> None, old |-> FALSE]

Reservation == [state: {"none", "reserved", "provider_started", "abandoned"},
                request: Requests \cup {None}]
NoReservation == [state |-> "none", request |-> None]

Init ==
  /\ receipts = [t \in Turns |-> NoReceipt]
  /\ reservations = [t \in Turns |-> NoReservation]

-----------------------------------------------------------------------------
(* What the operations read.                                               *)

Committed(t) == receipts[t] # NoReceipt

\* The one row of the two tables that says where a turn stands.
State(t) == IF Committed(t) THEN "committed" ELSE reservations[t].state
Bound(t) == IF Committed(t) THEN receipts[t].request ELSE reservations[t].request
Conflicts(t, r) == State(t) # "none" /\ Bound(t) # r

\* What counts against the capacity: an abandoned reservation does not.
Occupied(rec, res) ==
  {t \in Turns : rec[t] # NoReceipt} \cup
  {t \in Turns : res[t].state \in {"reserved", "provider_started"}}

\* The receipts that are left when the expired ones are deleted.
Protected == [t \in Turns |-> IF receipts[t].old THEN NoReceipt ELSE receipts[t]]

HasRoom(rec) == Cardinality(Occupied(rec, reservations)) + 1 <= MaxReceipts

Reserved(r, state) == [state |-> state, request |-> r]

-----------------------------------------------------------------------------
(* The operations; each says what it answers.                              *)

\* idempotent_result: a receipt, nothing, or a conflict.
Lookup(t, r) ==
  CASE Conflicts(t, r) -> "conflict"
    [] ~ Conflicts(t, r) /\ Committed(t) -> "committed"
    [] OTHER -> "nothing"

\* reserve_turn_receipt, for a turn that has no row or an abandoned one.
NewReservation(t, r, state, outcome) ==
  IF HasRoom(Protected)
  THEN /\ outcome = state
       /\ receipts' = Protected
       /\ reservations' = [reservations EXCEPT ![t] = Reserved(r, state)]
  ELSE outcome = "unavailable" /\ UNCHANGED tvars

\* Faulty: a turn that was given up cannot be reserved again.
ReserveOnce(t, r, outcome) ==
  IF Conflicts(t, r) THEN outcome = "conflict" /\ UNCHANGED tvars
  ELSE IF State(t) = "none" THEN NewReservation(t, r, "reserved", outcome)
  ELSE /\ outcome = IF State(t) = "abandoned" THEN "unavailable" ELSE State(t)
       /\ UNCHANGED tvars

Reserve(t, r, outcome) ==
  IF Conflicts(t, r) THEN outcome = "conflict" /\ UNCHANGED tvars
  ELSE IF State(t) \in {"none", "abandoned"}
  THEN NewReservation(t, r, "reserved", outcome)
  ELSE outcome = State(t) /\ UNCHANGED tvars

\* enter_turn_provider_phase
EnterTurn(t, r, outcome) ==
  /\ outcome = CASE Conflicts(t, r) -> "conflict"
                 [] ~ Conflicts(t, r) /\ State(t) \in {"none", "abandoned"} -> "unavailable"
                 [] ~ Conflicts(t, r) /\ State(t) = "reserved" -> "provider_started"
                 [] OTHER -> State(t)
  /\ reservations' = IF State(t) = "reserved" /\ ~ Conflicts(t, r)
                     THEN [reservations EXCEPT ![t].state = "provider_started"]
                     ELSE reservations
  /\ UNCHANGED receipts

\* abandon_turn_before_provider: the request stays bound to the turn.
Abandon(t, r) ==
  /\ ~ Conflicts(t, r) /\ State(t) = "reserved"
  /\ reservations' = [reservations EXCEPT ![t].state = "abandoned"]
  /\ UNCHANGED receipts

\* Faulty: a receipt that is there is replaced.
CommitOver(t, r, response, outcome) ==
  IF State(t) \in {"provider_started", "committed"} /\ ~ Conflicts(t, r)
  THEN /\ outcome = response
       /\ receipts' = [receipts EXCEPT ![t] =
            [request |-> r, response |-> response, old |-> FALSE]]
       /\ reservations' = [reservations EXCEPT ![t] = NoReservation]
  ELSE outcome = None /\ UNCHANGED tvars

\* commit_idempotent_turn with require_provider_started, as its callers in the
\* program ask for; the answer is the receipt that stands, or none.
Commit(t, r, response, outcome) ==
  IF Conflicts(t, r) \/ State(t) \notin {"provider_started", "committed"}
  THEN outcome = None /\ UNCHANGED tvars
  ELSE IF Committed(t) THEN outcome = receipts[t].response /\ UNCHANGED tvars
  ELSE /\ outcome = response
       /\ receipts' = [receipts EXCEPT ![t] =
            [request |-> r, response |-> response, old |-> FALSE]]
       /\ reservations' = [reservations EXCEPT ![t] = NoReservation]

\* Faulty: an effect another caller began is claimed again.
ClaimEffectAgain(t, r, outcome) ==
  IF ~ Conflicts(t, r) /\ State(t) = "provider_started"
  THEN outcome = "claimed" /\ UNCHANGED tvars
  ELSE /\ State(t) = "none" /\ outcome = "claimed" /\ HasRoom(Protected)
       /\ receipts' = Protected
       /\ reservations' = [reservations EXCEPT ![t] = Reserved(r, "provider_started")]

\* claim_idempotent_effect: the reservation is the mark that the effect began.
ClaimEffect(t, r, outcome) ==
  CASE Conflicts(t, r) -> outcome = "conflict" /\ UNCHANGED tvars
    [] ~ Conflicts(t, r) /\ State(t) = "none" ->
         \E state \in {"provider_started", "unavailable"} :
           /\ NewReservation(t, r, "provider_started", state)
           /\ outcome = IF state = "unavailable" THEN state ELSE "claimed"
    [] ~ Conflicts(t, r) /\ State(t) = "reserved" ->
         EnterTurn(t, r, "provider_started") /\ outcome = "claimed"
    [] ~ Conflicts(t, r) /\ State(t) = "provider_started" ->
         outcome = "in_progress" /\ UNCHANGED tvars
    [] ~ Conflicts(t, r) /\ State(t) = "abandoned" ->
         outcome = "unavailable" /\ UNCHANGED tvars
    [] OTHER -> outcome = "committed" /\ UNCHANGED tvars

\* Thirty days pass since the receipt was written.
AgeReceipt(t) ==
  receipts' = [receipts EXCEPT ![t].old = Committed(t)] /\ UNCHANGED reservations
=============================================================================
