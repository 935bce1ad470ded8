----------------------------- MODULE CallLedger -----------------------------
(***************************************************************************)
(* The ledger of provider calls, gateway/provider_call_ledger.py: every    *)
(* call is recorded before it is made and closed once, and where a         *)
(* commercial budget is required the money it may cost is held first.      *)
(*                                                                         *)
(* Every action is one transaction.  A call is opened under an identifier  *)
(* its caller chooses, which is how a repeated operation is refused.  The  *)
(* age of an open call is kept as whether it is past the bound after which *)
(* the next opening of the ledger closes it.                               *)
(***************************************************************************)
EXTENDS Integers, FiniteSets

CONSTANTS
  Calls,      \* call identifiers
  Turns,      \* what a call is made for
  Quotes,     \* prices: what is held and what is captured
  NoQuote,
  Commercial, \* a budget is required
  Fundings,   \* identifiers of payments into the budget
  Amounts

ASSUME CallLedgerAssumption ==
  /\ Turns # {}
  /\ Commercial \in BOOLEAN
  /\ NoQuote \notin Quotes
  /\ \A q \in Quotes : /\ {q.reserve, q.capture} \subseteq Nat \ {0}
                       /\ q.capture <= q.reserve
  /\ Amounts \subseteq Nat \ {0}

VARIABLES
  calls,        \* provider_calls
  reservations, \* commercial_budget_reservations
  entries       \* commercial_budget_entries

lvars == <<calls, reservations, entries>>

Terminal == {"success", "provider_error", "timeout", "cancelled",
             "empty_stream", "stream_interrupted"}

\* What a closed call says of the error: a connection that was never made, a
\* call that was never begun, an outcome that is not known, or the ledger's own
\* closing of a stale call.
Errors == {"none", "connect", "before_invocation", "unknown", "stale"}

Call == [status: {"none", "started"} \cup Terminal, error: Errors,
         turn: Turns, old: BOOLEAN]
NoCall == [status |-> "none", error |-> "none",
           turn |-> CHOOSE t \in Turns : TRUE, old |-> FALSE]

Reservation == [state: {"none", "reserved", "captured", "released",
                        "review_required"},
                quote: Quotes \cup {NoQuote}]
NoReservation == [state |-> "none", quote |-> NoQuote]

Init ==
  /\ calls = [c \in Calls |-> NoCall]
  /\ reservations = [c \in Calls |-> NoReservation]
  /\ entries = {}

-----------------------------------------------------------------------------
(* The entries of the budget.                                              *)

\* A sum of amounts counts their units, each with the entry it belongs to.
Units(w) == UNION {{x} \X (1..w[x]) : x \in DOMAIN w}
Total(w) == Cardinality(Units(w))

AmountsOf(es, kinds) == [e \in {x \in es : x.kind \in kinds} |-> e.amount]
Sum(kinds) == Total(AmountsOf(entries, kinds))

\* A capture is not counted: what it takes was held.
Available == Sum({"funding", "release"}) - Sum({"hold"})

\* Entries with their kind and identifier are unique.
Insert(new) ==
  /\ \A e \in entries, f \in new : ~ (e.kind = f.kind /\ e.id = f.id)
  /\ entries' = entries \cup new

Entry(kind, id, amount) == [kind |-> kind, id |-> id, amount |-> amount]

Fund(f, a) ==
  /\ Commercial
  /\ Insert({Entry("funding", f, a)})
  /\ UNCHANGED <<calls, reservations>>

-----------------------------------------------------------------------------
(* Calls.                                                                  *)

Opened(t) == [status |-> "started", error |-> "none", turn |-> t, old |-> FALSE]

\* start_attempt; an identifier that was used is refused whatever became of it.
Start(c, t, q) ==
  /\ calls[c] = NoCall
  /\ (q # NoQuote) <=> Commercial
  /\ calls' = [calls EXCEPT ![c] = Opened(t)]
  /\ IF q = NoQuote THEN UNCHANGED <<reservations, entries>>
     ELSE /\ reservations[c] = NoReservation
          /\ Available >= q.reserve
          /\ Insert({Entry("hold", c, q.reserve)})
          /\ reservations' = [reservations EXCEPT ![c] =
               [state |-> "reserved", quote |-> q]]

\* Faulty: every cancelled call counts as not sent.
ProvenUnsentIfCancelled(status, error) ==
  \/ status = "provider_error" /\ error = "connect"
  \/ status = "cancelled"

\* _commercial_failure_proven_pre_submission, and the same condition in SQL.
ProvenUnsent(status, error) ==
  \/ status = "provider_error" /\ error = "connect"
  \/ status = "cancelled" /\ error = "before_invocation"

Outcome(status, error) ==
  IF status = "success" THEN "captured"
  ELSE IF ProvenUnsent(status, error) THEN "released"
  ELSE "review_required"

\* Faulty: what was held beyond the price is not given back.
SettlementKeepsRest(c, outcome) ==
  LET q == reservations[c].quote IN
  CASE outcome = "captured" -> {Entry("capture", c, q.capture)}
    [] outcome = "released" -> {Entry("release", c, q.reserve)}
    [] OTHER -> {}

\* The entries that settle a reservation.
Settlement(c, outcome) ==
  LET q == reservations[c].quote IN
  CASE outcome = "captured" ->
         {Entry("capture", c, q.capture)} \cup
         (IF q.capture = q.reserve THEN {}
          ELSE {Entry("release", c, q.reserve - q.capture)})
    [] outcome = "released" -> {Entry("release", c, q.reserve)}
    [] OTHER -> {}

Closed(c, status, error) ==
  [calls[c] EXCEPT !.status = status, !.error = error, !.old = FALSE]

\* Faulty: a call that was closed as stale takes the late answer.
FinishLate(c, status, error) ==
  /\ calls[c].status = "started" \/ calls[c].error = "stale"
  /\ calls' = [calls EXCEPT ![c] = Closed(c, status, error)]
  /\ IF reservations[c] = NoReservation
     THEN UNCHANGED <<reservations, entries>>
     ELSE LET outcome == Outcome(status, error) IN
          /\ Insert(Settlement(c, outcome))
          /\ reservations' = [reservations EXCEPT ![c].state = outcome]

\* _finish_attempt; a call that is closed is left as it is.
Finish(c, status, error) ==
  /\ calls[c].status = "started"
  /\ calls' = [calls EXCEPT ![c] = Closed(c, status, error)]
  /\ IF reservations[c] = NoReservation
     THEN UNCHANGED <<reservations, entries>>
     ELSE LET outcome == Outcome(status, error) IN
          /\ reservations[c].state = "reserved"
          /\ Insert(Settlement(c, outcome))
          /\ reservations' = [reservations EXCEPT ![c].state = outcome]

Stale == {c \in Calls : calls[c].status = "started" /\ calls[c].old}

\* reconcile_stale_started, whenever a process opens the ledger.
Reconcile ==
  /\ Stale # {}
  /\ calls' = [c \in Calls |->
       IF c \in Stale THEN Closed(c, "provider_error", "stale") ELSE calls[c]]
  /\ reservations' = [c \in Calls |->
       IF c \in Stale /\ reservations[c].state = "reserved"
       THEN [reservations[c] EXCEPT !.state = "review_required"]
       ELSE reservations[c]]
  /\ UNCHANGED entries

\* The clock passes the bound.
Age(c) ==
  /\ calls[c].status = "started" /\ ~ calls[c].old
  /\ calls' = [calls EXCEPT ![c].old = TRUE]
  /\ UNCHANGED <<reservations, entries>>

\* turn_requires_operator_recovery.
NeedsOperator(t) ==
  \E c \in Calls :
    /\ calls[c].status # "none" /\ calls[c].turn = t
    /\ ~ ProvenUnsent(calls[c].status, calls[c].error)

-----------------------------------------------------------------------------
Next ==
  \/ \E f \in Fundings, a \in Amounts : Fund(f, a)
  \/ \E c \in Calls, t \in Turns, q \in Quotes \cup {NoQuote} : Start(c, t, q)
  \/ \E c \in Calls, status \in Terminal, error \in Errors \ {"stale"} :
       Finish(c, status, error)
  \/ Reconcile
  \/ \E c \in Calls : Age(c)

Spec == Init /\ [][Next]_lvars

-----------------------------------------------------------------------------
(* Properties.                                                             *)

\* Every row is one the columns of its table allow.
TypeOK ==
  /\ calls \in [Calls -> Call]
  /\ reservations \in [Calls -> Reservation]
  /\ \A e \in entries :
       /\ e.kind \in {"funding", "hold", "capture", "release"}
       /\ e.id \in Calls \cup Fundings
       /\ e.amount \in Nat \ {0}

\* The balance that start_attempt computes from the entries alone is never
\* negative, however many calls were under way, closed late or closed as stale.
NoOverdraft == Available >= 0

Booked(c, kind) == {e.amount : e \in {x \in entries : x.kind = kind /\ x.id = c}}

\* The entries of a call tell the same story as its reservation: money is held
\* once, a capture and the release of the rest make up what was held, a release
\* without a capture is of everything, and an open or disputed reservation has
\* had nothing given back.
BooksAgree ==
  \A c \in Calls :
    LET q == reservations[c].quote
        s == reservations[c].state
    IN /\ Booked(c, "hold") = IF s = "none" THEN {} ELSE {q.reserve}
       /\ Booked(c, "capture") = IF s = "captured" THEN {q.capture} ELSE {}
       /\ Booked(c, "release") =
            CASE s = "released" -> {q.reserve}
              [] s = "captured" -> {q.reserve - q.capture} \ {0}
              [] OTHER -> {}

\* A reservation is open exactly as long as its call is: none is forgotten when
\* its call is closed, by whichever of the two ways.
OpenTogether ==
  Commercial =>
    \A c \in Calls :
      (calls[c].status = "started") <=> (reservations[c].state = "reserved")

\* What the budget's inductive invariant must contain.
BooksInv == TypeOK /\ NoOverdraft /\ BooksAgree /\ OpenTogether

\* Once closed, a call and its reservation are never touched again: an answer
\* that comes after the reconciliation does not turn a call under review into a
\* paid one.
ClosedIsFinal ==
  [][\A c \in Calls :
       calls[c].status \in Terminal =>
         /\ calls'[c] = calls[c]
         /\ reservations'[c] = reservations[c]]_lvars

BudgetState(s) ==
  CASE s = "none" -> "none"
    [] s = "reserved" -> "held"
    [] s = "captured" -> "paid"
    [] s = "released" -> "returned"
    [] s = "review_required" -> "disputed"

Promise == INSTANCE Budget WITH
  Purchases <- Calls,
  Prices <- Quotes,
  funds <- Sum({"funding"}),
  purchases <- [c \in Calls |->
    [state |-> BudgetState(reservations[c].state),
     price |-> reservations[c].quote]]

\* The ledger keeps the promise of the budget.
KeepsBudget == Promise!Spec
=============================================================================
