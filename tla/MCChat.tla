-------------------------------- MODULE MCChat --------------------------------
(***************************************************************************)
(* Instances of the turns of a chat, for TLC.  A behaviour follows one of  *)
(* three parts that share no state: two owners of one message, two         *)
(* messages in a replay ledger of one row, and feedback.                   *)
(***************************************************************************)
EXTENDS ChatTurn, TLC

CONSTANTS h1, h2, g1, g2, t2, q1, q2

VARIABLES
  part,
  rRows, rReceipts, rReservations, rRoute, rHandlers, rAgents, rSpent,
  rContacts, rAnswers, rAged, rFaults,
  fReceipts, fReservations, pc, told, applied

OneTurn == [h \in {h1, h2} |-> CHOOSE t \in Turns : TRUE]

\* Two messages, room for one, and the ledger of calls required.
Room == INSTANCE ChatTurn WITH
  Turns <- Turns \cup {t2}, Models <- {"m"}, Handlers <- {g1, g2},
  TurnOf <- [h \in {g1, g2} |-> IF h = g2 THEN t2 ELSE OneTurn[h1]],
  Required <- TRUE, MaxFaults <- 1,
  rows <- rRows, receipts <- rReceipts, reservations <- rReservations,
  route <- rRoute, handlers <- rHandlers, agents <- rAgents,
  spent <- rSpent, contacts <- rContacts, answers <- rAnswers,
  aged <- rAged, faults <- rFaults

\* Callers of two feedbacks, one with another content, room for one receipt.
Feed == INSTANCE Feedback WITH
  Turns <- Turns \cup {t2}, Requests <- {q1, q2},
  Callers <- {h1, h2, g1, g2}, Responses <- {"done", "other"},
  TurnOf <- [c \in {h1, h2, g1, g2} |-> IF c = g2 THEN t2 ELSE OneTurn[h1]],
  RequestOf <- [c \in {h1, h2, g1, g2} |-> IF c = g1 THEN q2 ELSE q1],
  receipts <- fReceipts, reservations <- fReservations

ASSUME Room!ChatTurnAssumption
ASSUME Feed!FeedbackAssumption /\ Feed!TurnReceiptsAssumption

roomVars == <<rRows, rReceipts, rReservations, rRoute, rHandlers, rAgents,
              rSpent, rContacts, rAnswers, rAged, rFaults>>
feedVars == <<fReceipts, fReservations, pc, told, applied>>

PartsInit ==
  /\ part \in {"owners", "room", "feedback"}
  /\ Init /\ Room!Init /\ Feed!FInit
  \* The routes are symmetric or one.
  /\ (part # "owners" => route = CHOOSE m \in Models : TRUE)

PartsNext ==
  \/ part = "owners" /\ Next
     /\ UNCHANGED <<part, roomVars, feedVars>>
  \/ part = "room" /\ Room!Next
     /\ UNCHANGED <<part, vars, feedVars>>
  \/ part = "feedback" /\ Feed!Next
     /\ UNCHANGED <<part, vars, roomVars>>

PartsSpec ==
  PartsInit /\ [][PartsNext]_<<part, vars, roomVars, feedVars>>

\* Where messages and feedbacks compete for room: each message is still run once,
\* and the room for its receipt is kept before it is run; the effects of one
\* feedback are begun at most once while its receipt is protected, in the room the
\* store has, and who is told a result is told the one that stands.
OnceInRoom ==
  [](Room!TurnRunsOnce /\ Feed!AppliedOnce /\ Feed!RoomIsBounded) /\ Feed!ToldWhatStands

Symmetry == Permutations({h1, h2}) \cup Permutations(Models)
=============================================================================
