------------------------------- MODULE MCCalls -------------------------------
(***************************************************************************)
(* Instances of the calls to providers for TLC.  A behaviour follows one   *)
(* of two parts that share no state: any calls to the ledger of provider   *)
(* calls, and the runs of the failover over a ledger of their own.         *)
(***************************************************************************)
EXTENDS CallLedger, TLC

CONSTANTS m1, m2, Operations

\* One price with a rest to give back and one without.
TwoQuotes == {[reserve |-> 2, capture |-> 1], [reserve |-> 1, capture |-> 1]}

VARIABLES
  part,
  fCalls, fReservations, fEntries, cooling, errors, runs, strays, sent

\* Two runs of one operation, with a backup model and money for both.  They
\* have the names of the budgets: what is symmetric in one part is in the other.
Attempts == INSTANCE Failover WITH
  Quotes <- {[reserve |-> 2, capture |-> 1]}, Amounts <- {4},
  Fundings <- {"f"}, Runs <- Fundings, Models <- {m1, m2},
  Order <- <<m1, m2>>, ErrThreshold <- 2, MaxTracked <- 1,
  calls <- fCalls, reservations <- fReservations, entries <- fEntries

ASSUME Attempts!FailoverAssumption /\ Attempts!Quota!CooldownsAssumption

attemptVars == <<fCalls, fReservations, fEntries, cooling, errors, runs,
                 strays, sent>>

PartsInit ==
  /\ part \in {"budget", "attempts"}
  /\ Init /\ Attempts!Init

PartsNext ==
  \/ part = "budget" /\ Next
     /\ UNCHANGED <<part, attemptVars>>
  \/ part = "attempts" /\ Attempts!Next
     /\ UNCHANGED <<part, lvars>>

PartsSpec ==
  PartsInit /\ [][PartsNext]_<<part, lvars, attemptVars>>

\* Whatever two runs of an operation repeat, lose or leave behind, at most one
\* attempt reaches a provider, on record with its money held, captured or under
\* review, and what is remembered of models is bounded.
AttemptsAreAccounted == Attempts!CallsAreAccounted

Symmetry == Permutations(Fundings)
=============================================================================
