---------------------------- MODULE TurnRequests ----------------------------
(***************************************************************************)
(* The replay ledger of channel messages, gateway/weixin_idempotency.py:   *)
(* one row for each message, owned through a fencing token under a lease.  *)
(*                                                                         *)
(* Every action is one transaction.  A token is drawn when a request       *)
(* claims the row and known to that request alone, so it is represented by *)
(* the request's name.  Of a lease is kept whether it still runs, of the   *)
(* age of a row whether it is past the retention period; of the order of   *)
(* ages nothing is kept, so the capacity prune may take any row it may     *)
(* take.  Responses count as one unit of the byte budget each.             *)
(***************************************************************************)
EXTENDS Integers, FiniteSets, FiniteSetsExt

CONSTANTS
  Turns,      \* messages, identified by principal and message key
  Requests,   \* digests of what is asked
  Owners,     \* requests that arrive, and the tokens they draw
  Responses,
  None,       \* no request, no owner, no response
  MaxRecords,
  MaxResponses

TurnRequestsAssumption ==
  /\ None \notin Requests \cup Owners \cup Responses
  /\ {MaxRecords, MaxResponses} \subseteq Nat \ {0}

VARIABLE rows \* weixin_agent_idempotency

Row == [status: {"none", "processing", "succeeded", "failed"},
        request: Requests \cup {None}, token: Owners \cup {None},
        leased: BOOLEAN, entered: BOOLEAN,
        response: Responses \cup {None}, old: BOOLEAN]
NoRow == [status |-> "none", request |-> None, token |-> None,
          leased |-> FALSE, entered |-> FALSE, response |-> None, old |-> FALSE]

Init == rows = [t \in Turns |-> NoRow]

-----------------------------------------------------------------------------
(* Pruning: the row of the message at hand is never taken, and neither is  *)
(* one whose lease runs.                                                   *)

Recorded(r) == {t \in Turns : r[t].status # "none"}

Removable(t) == {u \in Recorded(rows) \ {t} :
                   ~ (rows[u].status = "processing" /\ rows[u].leased)}

Least(a, b) == IF a <= b THEN a ELSE b

\* n members of S, or all of them.
Some(S, n) == {V \in SUBSET S : Cardinality(V) = Least(n, Cardinality(S))}

Without(V) == [t \in Turns |-> IF t \in V THEN NoRow ELSE rows[t]]

\* The ledger after the prune of a claim, which leaves room for one more row
\* even when the message already has its own.
PrunedForClaim(t) ==
  LET aged == {u \in Removable(t) : rows[u].old}
      kept == Cardinality(Recorded(rows) \ aged)
      excess == IF kept >= MaxRecords THEN kept - MaxRecords + 1 ELSE 0 IN
  {Without(aged \cup V) : V \in Some(Removable(t) \ aged, excess)}

\* The ledger after the prune of a success, which makes room for a response.
PrunedForResponse(t) ==
  LET aged == {u \in Removable(t) : rows[u].old}
      stored == {u \in Turns \ aged : rows[u].response # None}
      excess == IF Cardinality(stored) >= MaxResponses
                THEN Cardinality(stored) - MaxResponses + 1 ELSE 0 IN
  {Without(aged \cup V) : V \in Some(stored \ {t}, excess)}

-----------------------------------------------------------------------------
(* The operations.                                                         *)

Claimed(row, r, h) ==
  [row EXCEPT !.status = "processing", !.request = r, !.token = h,
              !.leased = TRUE, !.response = None, !.old = FALSE]

\* What a claim answers, given the pruned ledger.
ClaimOutcome(kept, t, r) ==
  LET row == kept[t] IN
  CASE row.status = "none" ->
         IF Cardinality(Recorded(kept)) < MaxRecords THEN "claimed" ELSE "full"
    [] row.status # "none" /\ row.request # r -> "conflict"
    [] row.request = r /\ row.status = "succeeded" -> "succeeded"
    [] row.request = r /\ row.status = "processing" /\ row.leased -> "processing"
    [] OTHER -> IF row.entered THEN "recovery_required" ELSE "claimed"

\* claim: a reclaimed row keeps its provider phase.
Claim(t, r, h, outcome) ==
  \E kept \in PrunedForClaim(t) :
    /\ outcome = ClaimOutcome(kept, t, r)
    /\ rows' = IF outcome \in {"claimed", "recovery_required"}
               THEN [kept EXCEPT ![t] = Claimed(kept[t], r, h)] ELSE kept

\* What every write of an owner is conditional on.
Owns(t, r, h) ==
  /\ rows[t].status = "processing" /\ rows[t].request = r
  /\ rows[t].token = h /\ rows[t].leased

\* The writes of an owner answer whether a row was written.
Write(t, done, row) ==
  rows' = IF done THEN [rows EXCEPT ![t] = row] ELSE rows

\* renew, which sets the lease anew.
Renew(t, r, h, done) == done = Owns(t, r, h) /\ UNCHANGED rows

\* enter_provider_phase: once for each row.
Enter(t, r, h, done) ==
  /\ done = (Owns(t, r, h) /\ ~ rows[t].entered)
  /\ Write(t, done, [rows[t] EXCEPT !.entered = TRUE])

\* succeed: the prune stands whether the row is written or not.
Succeed(t, r, h, response, done) ==
  /\ done = Owns(t, r, h)
  /\ \E kept \in PrunedForResponse(t) :
       rows' = IF done
               THEN [kept EXCEPT ![t] =
                      [@ EXCEPT !.status = "succeeded", !.token = None,
                                !.leased = FALSE, !.response = response]]
               ELSE kept

\* fail: the provider phase is kept.
Fail(t, r, h, done) ==
  /\ done = Owns(t, r, h)
  /\ Write(t, done, [rows[t] EXCEPT !.status = "failed", !.token = None,
                                    !.leased = FALSE])

\* A lease runs out.
Lapse(t) ==
  /\ rows[t].leased
  /\ rows' = [rows EXCEPT ![t].leased = FALSE]

\* The retention period passes without a write to the row.
AgeRow(t) ==
  rows' = [rows EXCEPT ![t].old = @ \/ rows[t].status # "none",
                       ![t].leased = FALSE]
=============================================================================
