-------------------------- MODULE PurchasePromise --------------------------
(***************************************************************************)
(* What the store of paid media requests promises to the one who pays, for *)
(* each purchase, without tables, leases or clocks: one buyer at a time    *)
(* pays for it, nobody pays again while the outcome of the last payment is *)
(* not known or must still be kept, and an outcome that is known never     *)
(* changes.                                                                *)
(***************************************************************************)
EXTENDS Naturals

CONSTANT Turns

VARIABLES
  stage,  \* "open", "paying", "answered" or "unknown" (paid, or perhaps not)
  buyer,  \* who is paying, 0 when nobody is
  kept    \* the outcome must still be kept

pvars == <<stage, buyer, kept>>

Stages == {"open", "paying", "answered", "unknown"}

Init ==
  /\ stage = [t \in Turns |-> "open"]
  /\ buyer = [t \in Turns |-> 0]
  /\ kept = [t \in Turns |-> FALSE]

Moves(t, from, to) == stage[t] = from /\ stage'[t] = to

Buy(t) == Moves(t, "open", "paying") /\ buyer'[t] # 0 /\ kept'[t] = kept[t]

\* The buyer vouches that nothing was paid, or its outcome was never known and
\* its time on record is over when that is noticed.
Undo(t) == Moves(t, "paying", "open") /\ buyer'[t] = 0 /\ ~ kept'[t]

Settle(t) ==
  /\ \E outcome \in {"answered", "unknown"} : Moves(t, "paying", outcome)
  /\ buyer'[t] = 0

\* The outcome has been collected, or it was kept long enough.
Release(t) ==
  /\ stage[t] \in {"answered", "unknown"} /\ stage'[t] = stage[t]
  /\ buyer'[t] = buyer[t]
  /\ kept[t] /\ ~ kept'[t]

Forget(t) ==
  /\ \E outcome \in {"answered", "unknown"} : Moves(t, outcome, "open")
  /\ buyer'[t] = 0
  /\ ~ kept[t] /\ ~ kept'[t]

Same(t) ==
  stage'[t] = stage[t] /\ buyer'[t] = buyer[t] /\ kept'[t] = kept[t]

\* One transaction may settle and forget several purchases.
Next ==
  /\ stage' \in [Turns -> Stages]
  /\ \A t \in Turns :
       Same(t) \/ Buy(t) \/ Undo(t) \/ Settle(t) \/ Release(t) \/ Forget(t)

Spec == Init /\ [][Next]_pvars
=============================================================================
