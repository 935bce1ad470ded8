------------------------------- MODULE Budget -------------------------------
(***************************************************************************)
(* What the commercial budget promises to the one who fills it, without    *)
(* entries, rows or restarts: a purchase is begun only with money that is  *)
(* there, it ends once, and it then costs its price, nothing, or stays in  *)
(* dispute with all its money held.                                        *)
(***************************************************************************)
EXTENDS Integers, FiniteSets

CONSTANTS
  Purchases,
  Prices     \* what may be held for a purchase and what it then costs

VARIABLES
  funds,     \* all the money put in so far
  purchases  \* how each purchase stands

bvars == <<funds, purchases>>

Kept(p) ==
  CASE purchases[p].state \in {"held", "disputed"} -> purchases[p].price.reserve
    [] purchases[p].state = "paid" -> purchases[p].price.capture
    [] OTHER -> 0

\* The units of money that purchases keep; a sum counts them.
KeptUnits == UNION {{p} \X (1..Kept(p)) : p \in Purchases}

Free == funds - Cardinality(KeptUnits)

Init ==
  /\ funds = 0
  /\ \A p \in Purchases : purchases[p].state = "none"

PutIn ==
  /\ funds' > funds
  /\ UNCHANGED purchases

Begin(p) ==
  /\ purchases[p].state = "none"
  /\ purchases'[p].price \in Prices
  /\ Free >= purchases'[p].price.reserve
  /\ purchases' = [purchases EXCEPT ![p] =
       [state |-> "held", price |-> purchases'[p].price]]
  /\ UNCHANGED funds

End(ps, outcome) ==
  /\ \A p \in ps : purchases[p].state = "held"
  /\ purchases' = [p \in Purchases |->
       IF p \in ps THEN [purchases[p] EXCEPT !.state = outcome]
       ELSE purchases[p]]
  /\ UNCHANGED funds

Next ==
  \/ PutIn
  \/ \E p \in Purchases : Begin(p)
  \/ \E p \in Purchases, outcome \in {"paid", "returned"} : End({p}, outcome)
  \/ \E ps \in SUBSET Purchases : End(ps, "disputed")

Spec == Init /\ [][Next]_bvars
=============================================================================
