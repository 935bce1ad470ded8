----------------------------- MODULE GatesProofs -----------------------------
(***************************************************************************)
(* Proofs about the gates of the gateway: the admission of requests        *)
(* (Admission), the pool of background jobs (JobPool), the installation    *)
(* root (InstallationRoot) and the paid ledger under it (GatewayAuthority),*)
(* and the ledger of provider calls with its budget (CallLedger); for any  *)
(* requests, keys, videos, claims, components, calls, prices, limits and   *)
(* faults.  Each part has an inductive invariant, a lemma for every        *)
(* action, and the theorems that state the properties of the runs.         *)
(***************************************************************************)
EXTENDS Admission, JobPool, GatewayAuthority, CallLedger, FiniteSetTheorems, TLAPS

(***************************************************************************)
(* Admission.  The slots and the counts of a day are cardinalities of sets *)
(* of requests, and each step moves at most one request into such a set or *)
(* out of it.                                                              *)
(***************************************************************************)
\* Whoever holds a slot, of whatever key.
Holders == {r \in Requests : request[r].pc \in {"charging", "serving"}}

\* What a count of a day must cover: requests passed on that day, and those
\* that were counted and do not know it yet.
CountedOn(k, d) ==
  {r \in Requests :
     /\ KeyOf[r] = k
     /\ \/ served[r] = d
        \/ request[r].pc = "charging" /\ request[r].thread = "yes" /\ request[r].day = d}

\* The way of a request: it is counted while it waits for the answer, and has
\* been passed on only afterwards.
OnItsWay ==
  \A r \in Requests :
    /\ request[r].pc = "new" => request[r].thread = "none" /\ served[r] = -1
    /\ request[r].pc = "charging" => served[r] = -1

Slots ==
  /\ IsFiniteSet(Holders)
  /\ \A k \in Keys : in_flight[k] = Cardinality(Holding(k))
  /\ global_in_flight = Cardinality(Holders)

Charges ==
  \A k \in Keys : \A d \in AllDays :
    IsFiniteSet(CountedOn(k, d)) /\ Cardinality(CountedOn(k, d)) <= request_count[k][d]

AdmissionIInv == AdmissionTypeOK /\ OnItsWay /\ Slots /\ Charges

-----------------------------------------------------------------------------
(* Slots. *)

\* A counter that is not zero is reduced by one.
LEMMA MaxIsLess == ASSUME NEW n \in Nat, n > 0 PROVE Max({0, n - 1}) = n - 1
<1>1. n - 1 \in {0, n - 1} /\ \A y \in {0, n - 1} : n - 1 >= y
  OBVIOUS
<1>2. \A x \in {0, n - 1} : (\A y \in {0, n - 1} : x >= y) => x = n - 1
  OBVIOUS
<1> QED
  BY <1>1, <1>2 DEF Max

\* Those who hold a slot are those who hold a slot of some key.
LEMMA HoldersAreHolding == UNION {Holding(k) : k \in Keys} = Holders
BY AdmissionAssumption DEF Holders, Holding

LEMMA HoldingIsHolders ==
  ASSUME NEW k \in Keys, IsFiniteSet(Holders)
  PROVE  /\ IsFiniteSet(Holding(k)) /\ Cardinality(Holding(k)) \in Nat
         /\ Cardinality(Holders) \in Nat
<1>1. Holding(k) \in SUBSET Holders
  BY DEF Holding, Holders
<1> QED
  BY <1>1, FS_Subset, FS_CardinalityType

\* A request takes a slot that it did not have.
LEMMA SlotTaken ==
  ASSUME Slots, NEW r \in Requests, r \notin Holders,
         Holders' = Holders \cup {r},
         \A k \in Keys : Holding(k)' = IF k = KeyOf[r] THEN Holding(k) \cup {r} ELSE Holding(k),
         \A k \in Keys : in_flight'[k] = IF k = KeyOf[r] THEN in_flight[k] + 1 ELSE in_flight[k],
         global_in_flight' = global_in_flight + 1
  PROVE  Slots'
<1>1. IsFiniteSet(Holders) /\ global_in_flight = Cardinality(Holders)
  BY DEF Slots
<1>2. IsFiniteSet(Holders \cup {r}) /\ Cardinality(Holders \cup {r}) = Cardinality(Holders) + 1
  BY <1>1, FS_AddElement
<1>3. IsFiniteSet(Holders') /\ global_in_flight' = Cardinality(Holders')
  BY <1>1, <1>2, Zenon
<1>4. ASSUME NEW k \in Keys PROVE in_flight'[k] = Cardinality(Holding(k)')
  <2>1. in_flight[k] = Cardinality(Holding(k)) /\ IsFiniteSet(Holding(k)) /\ r \notin Holding(k)
    BY <1>1, HoldingIsHolders DEF Slots, Holding, Holders
  <2>2. CASE k = KeyOf[r]
    <3>1. Cardinality(Holding(k) \cup {r}) = Cardinality(Holding(k)) + 1
      BY <2>1, FS_AddElement
    <3>2. Holding(k)' = Holding(k) \cup {r}
      BY <2>2
    <3>3. Cardinality(Holding(k)') = Cardinality(Holding(k)) + 1
      BY <3>1, <3>2, Zenon
    <3> QED
      BY <2>1, <2>2, <3>3
  <2>3. CASE k # KeyOf[r]
    <3>1. Holding(k)' = Holding(k)
      BY <2>3
    <3> QED
      BY <2>1, <2>3, <3>1, Zenon
  <2> QED
    BY <2>2, <2>3
<1> QED
  BY <1>3, <1>4 DEF Slots

\* A request gives back the slot it has.
LEMMA SlotGivenBack ==
  ASSUME Slots, NEW r \in Requests, r \in Holders, NEW rollback \in BOOLEAN,
         in_flight \in [Keys -> 0..PerKey], Release(r, rollback),
         Holders' = Holders \ {r},
         \A k \in Keys : Holding(k)' = IF k = KeyOf[r] THEN Holding(k) \ {r} ELSE Holding(k)
  PROVE  /\ Slots'
         /\ in_flight' \in [Keys -> 0..PerKey]
         /\ global_in_flight' = global_in_flight - 1 /\ global_in_flight > 0
<1>0. KeyOf[r] \in Keys /\ PerKey \in Nat
  BY AdmissionAssumption
<1>1. IsFiniteSet(Holders) /\ global_in_flight = Cardinality(Holders) /\ Cardinality(Holders) \in Nat
  BY <1>0, HoldingIsHolders DEF Slots
<1>2. /\ IsFiniteSet(Holders \ {r}) /\ Cardinality(Holders \ {r}) = Cardinality(Holders) - 1
      /\ Cardinality(Holders \ {r}) \in Nat
  BY <1>1, FS_RemoveElement, FS_CardinalityType
<1>3. global_in_flight > 0 /\ global_in_flight \in Nat
  BY <1>1, <1>2
<1>4. global_in_flight' = global_in_flight - 1
  BY <1>3, MaxIsLess DEF Release
<1>5. IsFiniteSet(Holders') /\ global_in_flight' = Cardinality(Holders')
  <2>1. Cardinality(Holders') = Cardinality(Holders) - 1 /\ IsFiniteSet(Holders')
    BY <1>2, Zenon
  <2> QED
    BY <1>1, <1>4, <2>1
<1>6. ASSUME NEW k \in Keys
      PROVE  in_flight'[k] = Cardinality(Holding(k)') /\ in_flight'[k] \in 0..PerKey
  <2>1. in_flight[k] = Cardinality(Holding(k)) /\ IsFiniteSet(Holding(k)) /\ in_flight[k] \in 0..PerKey
    BY <1>1, HoldingIsHolders DEF Slots
  <2>2. CASE k = KeyOf[r]
    <3>1. r \in Holding(k)
      BY <2>2 DEF Holding, Holders
    <3>2. Cardinality(Holding(k) \ {r}) = Cardinality(Holding(k)) - 1
          /\ Cardinality(Holding(k) \ {r}) \in Nat
      BY <2>1, <3>1, FS_RemoveElement, FS_CardinalityType
    <3>3. Holding(k)' = Holding(k) \ {r}
      BY <2>2
    <3>4. Cardinality(Holding(k)') = Cardinality(Holding(k)) - 1
      BY <3>2, <3>3, Zenon
    <3>5. in_flight[k] > 0 /\ in_flight[k] \in Nat
      BY <2>1, <3>2, <1>0
    <3>6. in_flight'[k] = in_flight[k] - 1
      BY <2>2, <3>5, MaxIsLess DEF Release
    <3> QED
      BY <2>1, <3>4, <3>5, <3>6, <1>0
  <2>3. CASE k # KeyOf[r]
    <3>1. Holding(k)' = Holding(k) /\ in_flight'[k] = in_flight[k]
      BY <2>3 DEF Release
    <3> QED
      BY <2>1, <3>1, Zenon
  <2> QED
    BY <2>2, <2>3
<1>7. in_flight' \in [Keys -> 0..PerKey]
  BY <1>6 DEF Release
<1> QED
  BY <1>3, <1>4, <1>5, <1>6, <1>7 DEF Slots

-----------------------------------------------------------------------------
(* Counts of a day. *)

\* Where nobody is newly counted, a count that does not fall still covers all.
LEMMA ChargesKept ==
  ASSUME Charges, AdmissionTypeOK, AdmissionTypeOK',
         \A k \in Keys : \A d \in AllDays :
           /\ CountedOn(k, d)' \subseteq CountedOn(k, d)
           /\ request_count[k][d] <= request_count'[k][d]
  PROVE  Charges'
<1> SUFFICES ASSUME NEW k \in Keys, NEW d \in AllDays
             PROVE  /\ IsFiniteSet(CountedOn(k, d)')
                    /\ Cardinality(CountedOn(k, d)') <= request_count'[k][d]
  BY DEF Charges
<1>1. IsFiniteSet(CountedOn(k, d)) /\ Cardinality(CountedOn(k, d)) <= request_count[k][d]
  BY DEF Charges
<1>2. /\ IsFiniteSet(CountedOn(k, d)') /\ Cardinality(CountedOn(k, d)') <= Cardinality(CountedOn(k, d))
      /\ Cardinality(CountedOn(k, d)') \in Nat /\ Cardinality(CountedOn(k, d)) \in Nat
  BY <1>1, FS_Subset, FS_CardinalityType
<1>3. request_count[k][d] \in Int /\ request_count'[k][d] \in Int
  BY AdmissionAssumption DEF AdmissionTypeOK
<1> QED
  BY <1>1, <1>2, <1>3

LEMMA AcquireIInv == ASSUME AdmissionIInv, NEW r \in Requests, Acquire(r) PROVE AdmissionIInv'
<1> DEFINE k == KeyOf[r]
<1>0. /\ KeyOf \in [Requests -> Keys] /\ PerKey \in Nat /\ Global \in Nat
      /\ request[r].pc = "new" /\ served' = served /\ request_count' = request_count
      /\ old' = old /\ today' = today /\ faults' = faults
  BY AdmissionAssumption DEF Acquire
<1>t. /\ request \in [Requests -> Request]
      /\ in_flight \in [Keys -> 0..PerKey] /\ global_in_flight \in 0..Global
      /\ recent \in [Keys -> SUBSET Requests] /\ today \in AllDays
  BY DEF AdmissionIInv, AdmissionTypeOK
<1>1. CASE \/ global_in_flight >= Global \/ in_flight[k] >= PerKey
           \/ Cardinality(Window(k)) >= Rolling
  <2>1. /\ request' = [request EXCEPT ![r].pc = "over"]
        /\ recent' = [recent EXCEPT ![k] = IF global_in_flight >= Global THEN @ ELSE Window(k)]
        /\ in_flight' = in_flight /\ global_in_flight' = global_in_flight
    BY <1>1 DEF Acquire, To
  <2>2. AdmissionTypeOK'
    BY <1>0, <1>t, <2>1 DEF AdmissionIInv, AdmissionTypeOK, Request, Window
  <2>3. OnItsWay'
    BY <1>0, <1>t, <2>1 DEF AdmissionIInv, OnItsWay, Request
  <2>4. Holders' = Holders /\ \A j \in Keys : Holding(j)' = Holding(j)
    BY <1>0, <1>t, <2>1 DEF Holders, Holding, Request
  <2>5. Slots'
    BY <2>1, <2>4, Zenon DEF AdmissionIInv, Slots
  <2>6. \A j \in Keys : \A d \in AllDays : CountedOn(j, d)' \subseteq CountedOn(j, d)
    BY <1>0, <1>t, <2>1 DEF CountedOn, Request
  <2>7. \A j \in Keys : \A d \in AllDays : request_count[j][d] <= request_count'[j][d]
    BY <1>0, AdmissionAssumption DEF AdmissionIInv, AdmissionTypeOK
  <2>8. Charges'
    BY <2>2, <2>6, <2>7, ChargesKept DEF AdmissionIInv
  <2> QED
    BY <2>2, <2>3, <2>5, <2>8 DEF AdmissionIInv
<1>2. CASE ~ (\/ global_in_flight >= Global \/ in_flight[k] >= PerKey
              \/ Cardinality(Window(k)) >= Rolling)
  <2>1. /\ request' = [request EXCEPT ![r] = [pc |-> "charging", day |-> today,
                                                thread |-> "running"]]
        /\ in_flight' = [in_flight EXCEPT ![k] = @ + 1]
        /\ global_in_flight' = global_in_flight + 1
        /\ recent' = [recent EXCEPT ![k] = Window(k) \cup {r}]
        /\ ~ (global_in_flight >= Global) /\ ~ (in_flight[k] >= PerKey)
    BY <1>2 DEF Acquire
  <2>2. AdmissionTypeOK'
    <3>1. in_flight' \in [Keys -> 0..PerKey] /\ global_in_flight' \in 0..Global
      BY <1>0, <1>t, <2>1
    <3>2. request' \in [Requests -> Request] /\ recent' \in [Keys -> SUBSET Requests]
      BY <1>0, <1>t, <2>1 DEF Request, Window
    <3> QED
      BY <1>0, <3>1, <3>2 DEF AdmissionIInv, AdmissionTypeOK
  <2>3. OnItsWay'
    BY <1>0, <1>t, <2>1 DEF AdmissionIInv, OnItsWay
  <2>4. /\ Holders' = Holders \cup {r} /\ r \notin Holders
        /\ \A j \in Keys : Holding(j)' = IF j = KeyOf[r] THEN Holding(j) \cup {r} ELSE Holding(j)
    BY <1>0, <1>t, <2>1 DEF Holders, Holding
  <2>5. \A j \in Keys : in_flight'[j] = IF j = KeyOf[r] THEN in_flight[j] + 1 ELSE in_flight[j]
    BY <1>t, <2>1
  <2>6. Slots'
    BY <2>1, <2>4, <2>5, SlotTaken DEF AdmissionIInv
  <2>7. \A j \in Keys : \A d \in AllDays : CountedOn(j, d)' \subseteq CountedOn(j, d)
    BY <1>0, <1>t, <2>1 DEF CountedOn, Request
  <2>8. \A j \in Keys : \A d \in AllDays : request_count[j][d] <= request_count'[j][d]
    BY <1>0, AdmissionAssumption DEF AdmissionIInv, AdmissionTypeOK
  <2>9. Charges'
    BY <2>2, <2>7, <2>8, ChargesKept DEF AdmissionIInv
  <2> QED
    BY <2>2, <2>3, <2>6, <2>9 DEF AdmissionIInv
<1> QED
  BY <1>1, <1>2

\* A request ends: whatever was the reason, it gives its slot back.
LEMMA EndIInv ==
  ASSUME AdmissionIInv, NEW r \in Requests, NEW rollback \in BOOLEAN,
         request[r].pc \in {"charging", "serving"}, To(r, "over"), Release(r, rollback),
         UNCHANGED <<old, today, request_count, served>>,
         request[r].pc = "charging" \/ ~rollback
  PROVE  AdmissionIInv'
<1>0. /\ KeyOf \in [Requests -> Keys] /\ PerKey \in Nat /\ Global \in Nat
      /\ request \in [Requests -> Request] /\ request' = [request EXCEPT ![r].pc = "over"]
      /\ in_flight \in [Keys -> 0..PerKey] /\ global_in_flight \in 0..Global
      /\ recent \in [Keys -> SUBSET Requests]
  BY AdmissionAssumption DEF AdmissionIInv, AdmissionTypeOK, To
<1>1. /\ Holders' = Holders \ {r} /\ r \in Holders
      /\ \A j \in Keys : Holding(j)' = IF j = KeyOf[r] THEN Holding(j) \ {r} ELSE Holding(j)
  BY <1>0 DEF Holders, Holding, Request
<1>2. /\ Slots' /\ in_flight' \in [Keys -> 0..PerKey]
      /\ global_in_flight' = global_in_flight - 1 /\ global_in_flight > 0
  BY <1>0, <1>1, SlotGivenBack DEF AdmissionIInv
<1>3. request' \in [Requests -> Request] /\ recent' \in [Keys -> SUBSET Requests]
  BY <1>0 DEF Request, Release, Window
<1>4. AdmissionTypeOK'
  BY <1>0, <1>2, <1>3 DEF AdmissionIInv, AdmissionTypeOK
<1>5. OnItsWay'
  BY <1>0 DEF AdmissionIInv, OnItsWay, Request
<1>6. \A j \in Keys : \A d \in AllDays :
        /\ CountedOn(j, d)' \subseteq CountedOn(j, d)
        /\ request_count[j][d] <= request_count'[j][d]
  BY <1>0, AdmissionAssumption DEF AdmissionIInv, AdmissionTypeOK, CountedOn, Request
<1>7. Charges'
  BY <1>4, <1>6, ChargesKept DEF AdmissionIInv
<1> QED
  BY <1>2, <1>4, <1>5, <1>7 DEF AdmissionIInv

\* The thread answers: only a count that went up is told to a request.
LEMMA ThreadIInv ==
  ASSUME AdmissionIInv, NEW r \in Requests, request[r].thread = "running",
         NEW answer \in {"yes", "no", "error"}, NEW n \in {0, 1},
         answer = "yes" => n = 1,
         n = 1 => request_count[KeyOf[r]][request[r].day] < Daily,
         request' = [request EXCEPT ![r].thread = answer],
         request_count' = [request_count EXCEPT ![KeyOf[r]][request[r].day] = @ + n],
         UNCHANGED <<in_flight, global_in_flight, recent, old, today, served>>
  PROVE  AdmissionIInv'
<1> DEFINE k == KeyOf[r]
           d == request[r].day
<1>a. /\ KeyOf \in [Requests -> Keys] /\ k \in Keys /\ Daily \in Nat
      /\ request \in [Requests -> Request] /\ d \in AllDays
      /\ request_count \in [Keys -> [AllDays -> 0..Daily]]
  BY AdmissionAssumption DEF AdmissionIInv, AdmissionTypeOK, Request
<1>b. request_count[k][d] + n \in 0..Daily
  BY <1>a
<1>c. request_count' \in [Keys -> [AllDays -> 0..Daily]]
  BY <1>a, <1>b
<1>0. /\ KeyOf \in [Requests -> Keys] /\ k \in Keys /\ Daily \in Nat
      /\ request \in [Requests -> Request] /\ d \in AllDays
      /\ request_count \in [Keys -> [AllDays -> 0..Daily]]
      /\ request_count' \in [Keys -> [AllDays -> 0..Daily]]
  BY <1>a, <1>c
<1>1. request' \in [Requests -> Request]
  BY <1>0 DEF Request
<1>2. AdmissionTypeOK'
  BY <1>0, <1>1 DEF AdmissionIInv, AdmissionTypeOK
<1>3. OnItsWay'
  BY <1>0 DEF AdmissionIInv, OnItsWay, Request
<1>4. Holders' = Holders /\ \A j \in Keys : Holding(j)' = Holding(j)
  BY <1>0 DEF Holders, Holding, Request
<1>5. in_flight' = in_flight /\ global_in_flight' = global_in_flight
  BY <1>0
<1>6. Slots'
  BY <1>4, <1>5, Zenon DEF AdmissionIInv, Slots
<1>7. ASSUME NEW j \in Keys, NEW e \in AllDays
      PROVE  IsFiniteSet(CountedOn(j, e)') /\ Cardinality(CountedOn(j, e)') <= request_count'[j][e]
  <2>1. /\ IsFiniteSet(CountedOn(j, e)) /\ Cardinality(CountedOn(j, e)) <= request_count[j][e]
        /\ Cardinality(CountedOn(j, e)) \in Nat /\ request_count[j][e] \in Nat
    BY <1>0, FS_CardinalityType DEF AdmissionIInv, Charges
  <2>2. CASE answer = "yes" /\ j = k /\ e = d
    <3>1. CountedOn(j, e)' \subseteq CountedOn(j, e) \cup {r}
      BY <1>0 DEF CountedOn, Request
    <3>2. IsFiniteSet(CountedOn(j, e) \cup {r})
          /\ Cardinality(CountedOn(j, e) \cup {r}) <= Cardinality(CountedOn(j, e)) + 1
          /\ Cardinality(CountedOn(j, e) \cup {r}) \in Nat
      <4>1. IsFiniteSet(CountedOn(j, e) \cup {r})
            /\ \/ Cardinality(CountedOn(j, e) \cup {r}) = Cardinality(CountedOn(j, e))
               \/ Cardinality(CountedOn(j, e) \cup {r}) = Cardinality(CountedOn(j, e)) + 1
        BY <2>1, FS_AddElement, Zenon
      <4> QED
        BY <2>1, <4>1
    <3>3. IsFiniteSet(CountedOn(j, e)')
          /\ Cardinality(CountedOn(j, e)') <= Cardinality(CountedOn(j, e) \cup {r})
          /\ Cardinality(CountedOn(j, e)') \in Nat
      BY <3>1, <3>2, FS_Subset, FS_CardinalityType
    <3>4. request_count'[j][e] = request_count[j][e] + 1
      BY <1>0, <2>2
    <3> QED
      BY <2>1, <3>2, <3>3, <3>4
  <2>3. CASE ~ (answer = "yes" /\ j = k /\ e = d)
    <3>1. CountedOn(j, e)' \subseteq CountedOn(j, e)
      BY <1>0, <2>3 DEF CountedOn, Request
    <3>2. IsFiniteSet(CountedOn(j, e)')
          /\ Cardinality(CountedOn(j, e)') <= Cardinality(CountedOn(j, e))
          /\ Cardinality(CountedOn(j, e)') \in Nat
      BY <2>1, <3>1, FS_Subset, FS_CardinalityType
    <3>3. request_count'[j][e] \in Nat /\ request_count'[j][e] >= request_count[j][e]
      BY <1>0
    <3> QED
      BY <2>1, <3>2, <3>3
  <2> QED
    BY <2>2, <2>3
<1> QED
  BY <1>2, <1>3, <1>6, <1>7 DEF AdmissionIInv, Charges

LEMMA ConsumeIInv == ASSUME AdmissionIInv, NEW r \in Requests, Consume(r) PROVE AdmissionIInv'
<1> DEFINE k == KeyOf[r]
           d == request[r].day
<1>0. /\ request[r].thread = "running"
      /\ UNCHANGED <<in_flight, global_in_flight, recent, old, today, served>>
      /\ request \in [Requests -> Request]
      /\ request_count \in [Keys -> [AllDays -> 0..Daily]]
      /\ Daily \in Nat /\ k \in Keys /\ d \in AllDays
  BY AdmissionAssumption DEF Consume, AdmissionIInv, AdmissionTypeOK, Request, gate
<1>1. CASE request_count[k][d] >= Daily
  <2>1. request' = [request EXCEPT ![r].thread = "no"] /\ request_count' = request_count
    BY <1>1 DEF Consume
  <2>2. request_count' = [request_count EXCEPT ![k][d] = @ + 0]
    BY <1>0, <2>1
  <2>3. /\ "no" \in {"yes", "no", "error"} /\ 0 \in {0, 1} /\ "no" # "yes" /\ 0 # 1
    OBVIOUS
  <2> QED
    BY <1>0, <2>1, <2>2, <2>3, ThreadIInv, Zenon
<1>2. CASE ~ (request_count[k][d] >= Daily)
  <2>1. /\ request' = [request EXCEPT ![r].thread = "yes"]
        /\ request_count' = [request_count EXCEPT ![k][d] = @ + 1]
        /\ request_count[k][d] < Daily
    BY <1>0, <1>2 DEF Consume
  <2> QED
    BY <1>0, <2>1, ThreadIInv
<1> QED
  BY <1>1, <1>2

LEMMA ConsumeFailsIInv == ASSUME AdmissionIInv, NEW r \in Requests, ConsumeFails(r) PROVE AdmissionIInv'
<1> DEFINE k == KeyOf[r]
           d == request[r].day
<1>0. /\ request[r].thread = "running"
      /\ UNCHANGED <<in_flight, global_in_flight, recent, old, today, served>>
      /\ request' = [request EXCEPT ![r].thread = "error"]
  BY DEF ConsumeFails, gate
<1>1. PICK n \in {0, 1} :
        /\ n = 1 => request_count[k][d] < Daily
        /\ request_count' = [request_count EXCEPT ![k][d] = @ + n]
  <2> DEFINE one == IF request_count[k][d] < Daily THEN 1 ELSE 0
  <2>1. PICK n \in {0, one} : request_count' = [request_count EXCEPT ![k][d] = @ + n]
    BY DEF ConsumeFails
  <2>2. n \in {0, 1} /\ (n = 1 => request_count[k][d] < Daily)
    BY <2>1
  <2> QED
    BY <2>1, <2>2, Zenon
<1> QED
  BY <1>0, <1>1, ThreadIInv

LEMMA DecideIInv == ASSUME AdmissionIInv, NEW r \in Requests, Decide(r) PROVE AdmissionIInv'
<1>0. /\ request[r].pc = "charging" /\ request \in [Requests -> Request]
      /\ UNCHANGED <<old, today, request_count, faults>>
  BY DEF Decide, AdmissionIInv, AdmissionTypeOK
<1>1. CASE request[r].thread \in {"no", "error"}
  <2>1. To(r, "over") /\ Release(r, TRUE) /\ served' = served
    BY <1>1 DEF Decide
  <2> QED
    BY <1>0, <2>1, EndIInv
<1>2. CASE request[r].thread = "yes"
  <2>1. /\ request' = [request EXCEPT ![r].pc = "serving"]
        /\ served' = [served EXCEPT ![r] = request[r].day]
        /\ UNCHANGED <<in_flight, global_in_flight, recent>>
        /\ served \in [Requests -> {-1} \cup AllDays] /\ request[r].day \in AllDays
    BY <1>0, <1>2 DEF Decide, To, gate, AdmissionIInv, AdmissionTypeOK, Request
  <2>2. request' \in [Requests -> Request]
    BY <1>0, <2>1 DEF Request
  <2>3. AdmissionTypeOK'
    BY <1>0, <2>1, <2>2 DEF AdmissionIInv, AdmissionTypeOK
  <2>4. OnItsWay'
    BY <1>0, <2>1 DEF AdmissionIInv, OnItsWay, AdmissionTypeOK, Request
  <2>5. Holders' = Holders /\ \A j \in Keys : Holding(j)' = Holding(j)
    BY <1>0, <2>1 DEF Holders, Holding, Request
  <2>6. in_flight' = in_flight /\ global_in_flight' = global_in_flight
    BY <2>1
  <2>7. Slots'
    BY <2>5, <2>6, Zenon DEF AdmissionIInv, Slots
  <2>8. \A j \in Keys : \A d \in AllDays : CountedOn(j, d)' \subseteq CountedOn(j, d)
    BY <1>0, <1>2, <2>1 DEF CountedOn, Request
  <2>9. \A j \in Keys : \A d \in AllDays : request_count[j][d] <= request_count'[j][d]
    BY <1>0, AdmissionAssumption DEF AdmissionIInv, AdmissionTypeOK
  <2>10. Charges'
    BY <2>3, <2>8, <2>9, ChargesKept DEF AdmissionIInv
  <2> QED
    BY <2>3, <2>4, <2>7, <2>10 DEF AdmissionIInv
<1> QED
  BY <1>1, <1>2 DEF Decide

LEMMA CrashIInv == ASSUME AdmissionIInv, Crash PROVE AdmissionIInv'
<1>0. /\ request \in [Requests -> Request] /\ PerKey \in Nat /\ Global \in Nat
      /\ request' = [r \in Requests |->
                   IF request[r].pc \in {"charging", "serving"}
                   THEN [request[r] EXCEPT !.pc = "over", !.thread = "none"] ELSE request[r]]
      /\ in_flight' = [k \in Keys |-> 0] /\ global_in_flight' = 0
      /\ recent' = [k \in Keys |-> {}]
      /\ UNCHANGED <<old, today, request_count, served>>
  BY AdmissionAssumption DEF Crash, AdmissionIInv, AdmissionTypeOK
<1>1. request' \in [Requests -> Request]
  BY <1>0 DEF Request
<1>2. AdmissionTypeOK'
  <2>1. /\ in_flight' \in [Keys -> 0..PerKey] /\ global_in_flight' \in 0..Global
        /\ recent' \in [Keys -> SUBSET Requests]
    <3>1. /\ in_flight' = [k \in Keys |-> 0] /\ global_in_flight' = 0
          /\ recent' = [k \in Keys |-> {}] /\ PerKey \in Nat /\ Global \in Nat
      BY <1>0, Zenon
    <3> QED
      BY <3>1
  <2>2. UNCHANGED <<old, today, request_count, served>>
    BY <1>0
  <2> QED
    BY <1>1, <2>1, <2>2 DEF AdmissionIInv, AdmissionTypeOK
<1>3. OnItsWay'
  BY <1>0 DEF AdmissionIInv, OnItsWay, Request
<1>4. Holders' = {} /\ \A k \in Keys : Holding(k)' = {}
  BY <1>0 DEF Holders, Holding, Request
<1>5. Slots'
  BY <1>0, <1>4, FS_EmptySet DEF Slots
<1>6. \A j \in Keys : \A d \in AllDays :
        /\ CountedOn(j, d)' \subseteq CountedOn(j, d)
        /\ request_count[j][d] <= request_count'[j][d]
  <2>1. ASSUME NEW j \in Keys, NEW d \in AllDays PROVE CountedOn(j, d)' \subseteq CountedOn(j, d)
    BY <1>0 DEF CountedOn, Request
  <2>2. request_count' = request_count
    BY <1>0
  <2>3. \A j \in Keys : \A d \in AllDays : request_count[j][d] <= request_count'[j][d]
    BY <2>2, AdmissionAssumption DEF AdmissionIInv, AdmissionTypeOK
  <2> QED
    BY <2>1, <2>3
<1>7. Charges'
  BY <1>2, <1>6, ChargesKept DEF AdmissionIInv
<1> QED
  BY <1>2, <1>3, <1>5, <1>7 DEF AdmissionIInv

\* The clock moves no request.
LEMMA ClockIInv ==
  ASSUME AdmissionIInv, UNCHANGED <<request, gate, request_count, served>>,
         old' \subseteq Requests, today' \in AllDays
  PROVE  AdmissionIInv'
<1>1. /\ request' = request /\ in_flight' = in_flight /\ global_in_flight' = global_in_flight
      /\ recent' = recent /\ request_count' = request_count /\ served' = served
  BY DEF gate
<1>2. AdmissionTypeOK'
  BY <1>1 DEF AdmissionIInv, AdmissionTypeOK
<1>2b. OnItsWay'
  BY <1>1 DEF AdmissionIInv, OnItsWay
<1>3. /\ Holders' = Holders /\ \A k \in Keys : Holding(k)' = Holding(k)
      /\ \A k \in Keys, d \in AllDays : CountedOn(k, d)' = CountedOn(k, d)
  BY <1>1 DEF Holders, Holding, CountedOn
<1>4. Slots'
  BY <1>1, <1>3, Zenon DEF AdmissionIInv, Slots
<1>5. Charges'
  BY <1>1, <1>3, Zenon DEF AdmissionIInv, Charges
<1> QED
  BY <1>2, <1>2b, <1>4, <1>5 DEF AdmissionIInv

-----------------------------------------------------------------------------
(* Theorems. *)

LEMMA AdmissionStart == AdmissionInit => AdmissionIInv
<1> SUFFICES ASSUME AdmissionInit PROVE AdmissionIInv
  OBVIOUS
<1>0. PerKey \in Nat /\ Global \in Nat /\ Daily \in Nat /\ Days \in Nat
  BY AdmissionAssumption
<1>1. AdmissionTypeOK /\ OnItsWay
  BY <1>0 DEF AdmissionInit, AdmissionTypeOK, OnItsWay, Request, AllDays
<1>2. Holders = {} /\ \A k \in Keys : Holding(k) = {}
  BY DEF AdmissionInit, Holders, Holding
<1>3. \A k \in Keys : \A d \in AllDays : CountedOn(k, d) = {}
  BY <1>0 DEF AdmissionInit, CountedOn, AllDays
<1>4. Cardinality(Holders) = 0 /\ IsFiniteSet(Holders)
  BY <1>2, FS_EmptySet, Zenon
<1>5. \A k \in Keys : Cardinality(Holding(k)) = 0
  BY <1>2, FS_EmptySet, Zenon
<1>6. \A k \in Keys : \A d \in AllDays : IsFiniteSet(CountedOn(k, d)) /\ Cardinality(CountedOn(k, d)) = 0
  BY <1>3, FS_EmptySet, Zenon
<1>7. Slots
  BY <1>4, <1>5 DEF AdmissionInit, Slots
<1>8. Charges
  BY <1>6 DEF AdmissionInit, Charges
<1> QED
  BY <1>1, <1>7, <1>8 DEF AdmissionIInv

LEMMA AdmissionStep == AdmissionIInv /\ [AdmissionNext]_vars => AdmissionIInv'
<1> SUFFICES ASSUME AdmissionIInv, [AdmissionNext]_vars PROVE AdmissionIInv'
  OBVIOUS
<1>1. CASE UNCHANGED vars
  BY <1>1, ClockIInv DEF vars, AdmissionIInv, AdmissionTypeOK
<1>2. CASE Midnight
  BY <1>2, ClockIInv, AdmissionAssumption DEF Midnight, AdmissionIInv, AdmissionTypeOK, AllDays
<1>3. CASE Crash
  BY <1>3, CrashIInv
<1>4. ASSUME NEW r \in Requests, Acquire(r) PROVE AdmissionIInv'
  BY <1>4, AcquireIInv
<1>5. ASSUME NEW r \in Requests, Consume(r) PROVE AdmissionIInv'
  BY <1>5, ConsumeIInv
<1>6. ASSUME NEW r \in Requests, ConsumeFails(r) PROVE AdmissionIInv'
  BY <1>6, ConsumeFailsIInv
<1>7. ASSUME NEW r \in Requests, Decide(r) PROVE AdmissionIInv'
  BY <1>7, DecideIInv
<1>8. ASSUME NEW r \in Requests, CancelCharge(r) PROVE AdmissionIInv'
  BY <1>8, EndIInv DEF CancelCharge
<1>9. ASSUME NEW r \in Requests, Serve(r) PROVE AdmissionIInv'
  BY <1>9, EndIInv DEF Serve
<1>10. ASSUME NEW r \in Requests, WindowPasses(r) PROVE AdmissionIInv'
  BY <1>10, ClockIInv DEF WindowPasses, AdmissionIInv, AdmissionTypeOK
<1> QED
  BY <1>1, <1>2, <1>3, <1>4, <1>5, <1>6, <1>7, <1>8, <1>9, <1>10 DEF AdmissionNext

LEMMA AdmissionAlways == AdmissionSpec => []AdmissionIInv
BY AdmissionStart, AdmissionStep, PTL DEF AdmissionSpec

\* The slots of _acquire_local and _release_local and the counts of try_consume
\* are exact, for any number of requests: whatever is refused, rolled back,
\* cancelled, failed or restarted, no slot is lost or given back twice, and
\* what was passed on was counted on its day.
THEOREM CountsCorrect == AdmissionSpec => [](AdmissionTypeOK /\ CountsExact)
<1>1. AdmissionIInv => AdmissionTypeOK /\ CountsExact
  <2> SUFFICES ASSUME AdmissionIInv PROVE CountsExact
    BY DEF AdmissionIInv
  <2>1. SlotsExact
    BY HoldersAreHolding, Zenon DEF AdmissionIInv, Slots, SlotsExact
  <2>2. ASSUME NEW k \in Keys, NEW d \in AllDays
        PROVE  Cardinality({r \in Requests : KeyOf[r] = k /\ served[r] = d}) <= request_count[k][d]
    <3> DEFINE S == {r \in Requests : KeyOf[r] = k /\ served[r] = d}
    <3>1. S \subseteq CountedOn(k, d)
      BY DEF CountedOn
    <3>2. IsFiniteSet(CountedOn(k, d)) /\ Cardinality(CountedOn(k, d)) <= request_count[k][d]
      BY DEF AdmissionIInv, Charges
    <3> HIDE DEF S
    <3>3. Cardinality(S) <= Cardinality(CountedOn(k, d)) /\ Cardinality(S) \in Nat
          /\ Cardinality(CountedOn(k, d)) \in Nat
      BY <3>1, <3>2, FS_Subset, FS_CardinalityType
    <3>4. request_count[k][d] \in Int
      BY AdmissionAssumption DEF AdmissionIInv, AdmissionTypeOK
    <3>5. Cardinality(S) <= request_count[k][d]
      BY <3>2, <3>3, <3>4
    <3> QED
      BY <3>5 DEF S
  <2> QED
    BY <2>1, <2>2 DEF CountsExact, ServedIsCounted
<1> QED
  BY <1>1, AdmissionAlways, PTL

\* A request that was passed on keeps its place in its key's window for sixty
\* seconds, unless the process is started again.
LEMMA WindowStep ==
  ASSUME AdmissionIInv, [AdmissionNext]_vars, NEW r \in Requests,
         served[r] # -1, r \in recent[KeyOf[r]] \ old
  PROVE  r \in recent'[KeyOf[r]] \/ \A k \in Keys : recent'[k] = {} /\ in_flight'[k] = 0
<1>0. /\ recent \in [Keys -> SUBSET Requests] /\ KeyOf \in [Requests -> Keys]
      /\ request[r].pc # "new" /\ request[r].pc # "charging"
  BY AdmissionAssumption DEF AdmissionIInv, AdmissionTypeOK, OnItsWay
<1>1. CASE UNCHANGED recent
  BY <1>0, <1>1
<1>2. CASE Crash
  BY <1>2 DEF Crash
<1>3. ASSUME NEW q \in Requests, Acquire(q) PROVE r \in recent'[KeyOf[r]]
  BY <1>0, <1>3 DEF Acquire, Window
<1>4. ASSUME NEW q \in Requests, NEW rollback \in BOOLEAN, Release(q, rollback),
             rollback => q # r
      PROVE  r \in recent'[KeyOf[r]]
  BY <1>0, <1>4 DEF Release, Window
<1>5. ASSUME NEW q \in Requests, Decide(q) PROVE r \in recent'[KeyOf[r]]
  <2>1. CASE UNCHANGED gate
    BY <1>0, <2>1 DEF gate
  <2>2. CASE Release(q, TRUE)
    BY <1>0, <1>4, <1>5, <2>2 DEF Decide
  <2> QED
    BY <1>5, <2>1, <2>2 DEF Decide
<1>6. ASSUME NEW q \in Requests, CancelCharge(q) PROVE r \in recent'[KeyOf[r]]
  BY <1>0, <1>4, <1>6 DEF CancelCharge
<1>7. ASSUME NEW q \in Requests, Serve(q) PROVE r \in recent'[KeyOf[r]]
  BY <1>4, <1>7 DEF Serve
<1>8. ASSUME NEW q \in Requests, Consume(q) \/ ConsumeFails(q) \/ WindowPasses(q)
      PROVE  UNCHANGED recent
  BY <1>8 DEF Consume, ConsumeFails, WindowPasses, gate
<1>9. ASSUME Midnight \/ UNCHANGED vars PROVE UNCHANGED recent
  BY <1>9 DEF Midnight, vars, gate
<1> QED
  BY <1>1, <1>2, <1>3, <1>5, <1>6, <1>7, <1>8, <1>9 DEF AdmissionNext

\* A request is refused only for want of slots when its key's window is over.
LEMMA RefusedStep ==
  ASSUME AdmissionIInv, [AdmissionNext]_vars, NEW r \in Requests,
         request[r].pc = "new", request'[r].pc = "over", recent[KeyOf[r]] \subseteq old
  PROVE  global_in_flight >= Global \/ in_flight[KeyOf[r]] >= PerKey
<1>0. request \in [Requests -> Request] /\ Rolling \in Nat \ {0}
  BY AdmissionAssumption DEF AdmissionIInv, AdmissionTypeOK
<1>1. CASE Acquire(r)
  <2>1. Window(KeyOf[r]) = {}
    BY DEF Window
  <2>2. Cardinality(Window(KeyOf[r])) = 0
    BY <2>1, FS_EmptySet, Zenon
  <2>3. ~ (Cardinality(Window(KeyOf[r])) >= Rolling)
    BY <1>0, <2>2
  <2>4. ~ (global_in_flight >= Global \/ in_flight[KeyOf[r]] >= PerKey) =>
          request' = [request EXCEPT ![r] = [pc |-> "charging", day |-> today,
                                             thread |-> "running"]]
    BY <1>1, <2>3, Zenon DEF Acquire
  <2> QED
    BY <1>0, <2>4
<1>2. CASE UNCHANGED request
  BY <1>2
<1>3. CASE Crash
  BY <1>3 DEF Crash
<1>4. ASSUME NEW q \in Requests, q # r,
             \/ Acquire(q) \/ Consume(q) \/ ConsumeFails(q) \/ Decide(q) \/ CancelCharge(q)
             \/ Serve(q)
      PROVE  request'[r] = request[r]
  BY <1>0, <1>4 DEF Acquire, Consume, ConsumeFails, Decide, CancelCharge, Serve, To
<1>5. ASSUME \/ Consume(r) \/ ConsumeFails(r) \/ Decide(r) \/ CancelCharge(r) \/ Serve(r)
      PROVE  request[r].thread = "running" \/ request[r].pc # "new"
  BY <1>5 DEF Consume, ConsumeFails, Decide, CancelCharge, Serve
<1>6. request[r].thread = "none"
  BY DEF AdmissionIInv, OnItsWay
<1>7. ASSUME NEW q \in Requests, WindowPasses(q) PROVE UNCHANGED request
  BY <1>7 DEF WindowPasses
<1>8. ASSUME Midnight \/ UNCHANGED vars PROVE UNCHANGED request
  BY <1>8 DEF Midnight, vars
<1> QED
  BY <1>1, <1>2, <1>3, <1>4, <1>5, <1>6, <1>7, <1>8 DEF AdmissionNext

\* The window of a key counts what _acquire_local must count and nothing that
\* left it.
THEOREM WindowsCorrect == AdmissionSpec => WindowIsExact
<1>1. AdmissionIInv /\ [AdmissionNext]_vars =>
        [\A r \in Requests : served[r] # -1 /\ r \in recent[KeyOf[r]] \ old =>
           r \in recent'[KeyOf[r]] \/ \A k \in Keys : recent'[k] = {} /\ in_flight'[k] = 0]_vars
  BY WindowStep
<1>2. AdmissionIInv /\ [AdmissionNext]_vars =>
        [\A r \in Requests :
           /\ request[r].pc = "new" /\ request'[r].pc = "over"
           /\ recent[KeyOf[r]] \subseteq old
           => global_in_flight >= Global \/ in_flight[KeyOf[r]] >= PerKey]_vars
  BY RefusedStep
<1> QED
  BY <1>1, <1>2, AdmissionAlways, PTL DEF AdmissionSpec, WindowIsExact, WindowIsKept, OldIsForgotten

-----------------------------------------------------------------------------
(***************************************************************************)
(* The job pool.  What a handler read of the registry, twice, is old when  *)
(* it asks for a slot; yet every video that occupies the provider is among *)
(* those it read or has a slot that it sees, and so it finds no room when  *)
(* there is none.                                                          *)
(***************************************************************************)
\* The videos that run at the provider or may be accepted there.
Occupied == {v \in Videos : remote[v] = "running" \/ handler[v] \in {"enter", "call"}}

\* Where a handler is, what the registry and the provider know of its video.
VideoInv ==
  \A v \in Videos :
    /\ handler[v] \in {"new", "restore", "reread", "acquire", "enter"} =>
         registry[v] = "none" /\ remote[v] = "none"
    /\ handler[v] = "enter" => own[v] = "unbound"
    /\ own[v] = "bound" => handler[v] = "over"
    /\ handler[v] \in {"call", "persist"} => registry[v] = "processing"
    /\ handler[v] = "call" => remote[v] = "none"
    /\ remote[v] = "running" => v \in ActiveVideos
    /\ registry[v] = "terminal" => remote[v] = "ended"
    /\ poll[v] = "release" => registry[v] = "terminal"

\* What was read may be old, but only of what has ended.
ReadsInv ==
  \A v \in Videos :
    /\ handler[v] \in {"restore", "reread", "acquire"} =>
         \A u \in first[v] : registry[u] # "none"
    /\ handler[v] = "acquire" =>
         /\ \A u \in Gone(v) : registry[u] = "terminal"
         /\ \A u \in Occupied : u \in second[v] \/ own[u] # "none" \/ restored[u]

OccupiedFits == IsFiniteSet(Occupied) /\ Cardinality(Occupied) <= MaxGlobal

PoolIInv == PoolTypeOK /\ VideoInv /\ ReadsInv /\ OccupiedFits

-----------------------------------------------------------------------------
\* Fewer videos are occupied, or the same.
LEMMA FitsSubset ==
  ASSUME OccupiedFits, Occupied' \subseteq Occupied
  PROVE  OccupiedFits'
<1>1. Occupied' \in SUBSET Occupied /\ IsFiniteSet(Occupied)
  BY DEF OccupiedFits
<1>2. IsFiniteSet(Occupied') /\ Cardinality(Occupied') <= Cardinality(Occupied)
      /\ Cardinality(Occupied) \in Nat /\ Cardinality(Occupied') \in Nat
  BY <1>1, FS_Subset, FS_CardinalityType
<1> QED
  BY <1>2, PoolAssumption DEF OccupiedFits

\* What has ended or not begun is not occupied.
LEMMA NotOccupied ==
  ASSUME VideoInv, NEW u \in Videos, registry[u] = "terminal"
  PROVE  u \notin Occupied
BY DEF VideoInv, Occupied

LEMMA RegistryOfActive ==
  \A u \in Videos : u \in ActiveVideos <=>
    registry[u] \in {"processing", "recovery_required", "succeeded"}
BY DEF ActiveVideos

LEMMA ReadStep == ASSUME PoolIInv, NEW v \in Videos, Read(v) PROVE PoolIInv'
<1> USE DEF PoolIInv, Read, Goes, At
<1>1. PoolTypeOK'
  BY DEF PoolTypeOK, leases, Handler, ActiveVideos
<1>2. VideoInv'
  BY DEF VideoInv, PoolTypeOK, leases, ActiveVideos
<1>3. Occupied' = Occupied
  BY DEF Occupied, PoolTypeOK
<1>4. ReadsInv'
  BY <1>3 DEF ReadsInv, PoolTypeOK, leases, ActiveVideos, Gone
<1> QED
  BY <1>1, <1>2, <1>3, <1>4, FitsSubset

LEMMA RestoreStep == ASSUME PoolIInv, NEW v \in Videos, Restore(v) PROVE PoolIInv'
<1> USE DEF PoolIInv, Restore, Goes, At
<1>0. \A u \in Videos : restored[u] => restored'[u]
  BY DEF Rebuilt
<1>1. PoolTypeOK'
  <2>1. restored' \in [Videos -> BOOLEAN] /\ \A u \in Videos : ~ (own[u] = "bound" /\ restored'[u])
    BY DEF Rebuilt, PoolTypeOK
  <2> QED
    BY <2>1 DEF PoolTypeOK, reads, Handler
<1>2. VideoInv'
  BY DEF VideoInv, PoolTypeOK, reads, ActiveVideos
<1>3. Occupied' = Occupied
  BY DEF Occupied, PoolTypeOK
<1>4. ReadsInv'
  <2>1. /\ handler' = [handler EXCEPT ![v] = "reread"] /\ handler[v] = "restore"
        /\ UNCHANGED <<own, registry, remote, first, second>>
    BY DEF reads
  <2>2. \A w \in Videos : Gone(w)' = Gone(w)
    BY <2>1 DEF Gone
  <2>3. \A w \in Videos : /\ w # v => handler'[w] = handler[w]
                          /\ handler'[v] = "reread"
    BY <2>1 DEF PoolTypeOK
  <2>4. \A u \in Occupied : u \in Videos
    BY DEF Occupied
  <2> QED
    BY <1>0, <1>3, <2>1, <2>2, <2>3, <2>4 DEF ReadsInv
<1> QED
  BY <1>1, <1>2, <1>3, <1>4, FitsSubset

LEMMA RereadStep == ASSUME PoolIInv, NEW v \in Videos, Reread(v) PROVE PoolIInv'
<1> USE DEF PoolIInv, Reread, Goes, At
<1>1. PoolTypeOK'
  BY DEF PoolTypeOK, leases, Handler, ActiveVideos
<1>2. VideoInv'
  BY DEF VideoInv, PoolTypeOK, leases, ActiveVideos
<1>3. Occupied' = Occupied
  BY DEF Occupied, PoolTypeOK
<1>4. ReadsInv'
  <2>1. second' = [second EXCEPT ![v] = ActiveVideos] /\ handler' = [handler EXCEPT ![v] = "acquire"]
        /\ UNCHANGED <<own, restored, registry, remote, first>> /\ handler[v] = "reread"
    BY DEF leases
  <2>2. ASSUME NEW w \in Videos, w # v
        PROVE  handler'[w] = handler[w] /\ second'[w] = second[w] /\ Gone(w)' = Gone(w)
    BY <2>1, <2>2 DEF PoolTypeOK, Gone
  <2>3. second'[v] = ActiveVideos /\ first[v] \subseteq Videos
    BY <2>1 DEF PoolTypeOK
  <2>4. \A u \in first[v] \ ActiveVideos : registry[u] = "terminal"
    BY <2>1, <2>3 DEF ReadsInv, PoolTypeOK, ActiveVideos, Registry
  <2>5. \A u \in Occupied : u \in ActiveVideos \/ own[u] # "none" \/ restored[u]
    BY DEF Occupied, VideoInv, ActiveVideos
  <2> QED
    BY <1>3, <2>1, <2>2, <2>3, <2>4, <2>5 DEF ReadsInv, PoolTypeOK, Gone
<1> QED
  BY <1>1, <1>2, <1>3, <1>4, FitsSubset

\* One more is admitted only when fewer than the slots are counted, and
\* everything that is occupied is counted.
LEMMA TryAcquireStep == ASSUME PoolIInv, NEW v \in Videos, TryAcquire(v) PROVE PoolIInv'
<1> USE DEF PoolIInv
<1> DEFINE kept == [u \in Videos |-> Rebuilt(second[v])[u] /\ u \notin Gone(v)]
           mine == [u \in Videos |-> IF u \in Gone(v) /\ own[u] = "bound" THEN "none" ELSE own[u]]
           A == {u \in Videos : mine[u] # "none"}
           B == {u \in Videos : kept[u]}
           n == Cardinality(A) + Cardinality(B)
<1>1. /\ handler[v] = "acquire" /\ restored' = kept
      /\ own' = IF n < MaxGlobal THEN [mine EXCEPT ![v] = "unbound"] ELSE mine
      /\ handler' = [handler EXCEPT ![v] = IF n < MaxGlobal THEN "enter" ELSE "over"]
      /\ UNCHANGED <<registry, remote, first, second, poll, poolFaults>>
  BY DEF TryAcquire, At, Goes, reads
<1>2. \A u \in Gone(v) : registry[u] = "terminal"
  BY <1>1 DEF ReadsInv
<1>3. \A u \in Videos : kept[u] <=> (restored[u] \/ (u \in second[v] /\ own[u] # "bound")) /\ u \notin Gone(v)
  BY DEF Rebuilt
<1>4. /\ mine \in [Videos -> Own] /\ kept \in [Videos -> BOOLEAN]
      /\ \A u \in Videos : ~(mine[u] = "bound" /\ kept[u])
      /\ \A u \in Videos : mine[u] \in {own[u], "none"}
  <2>1. mine \in [Videos -> Own] /\ \A u \in Videos : mine[u] \in {own[u], "none"}
    BY DEF PoolTypeOK, Own
  <2>2. kept \in [Videos -> BOOLEAN]
    BY Zenon
  <2>3. \A u \in Videos : ~(mine[u] = "bound" /\ kept[u])
    BY <1>3, <2>1 DEF PoolTypeOK
  <2> QED
    BY <2>1, <2>2, <2>3
<1>5. A \in SUBSET Videos /\ B \in SUBSET Videos
  OBVIOUS
<1>6. /\ IsFiniteSet(A) /\ IsFiniteSet(B) /\ Cardinality(A) \in Nat /\ Cardinality(B) \in Nat
      /\ IsFiniteSet(A \cup B) /\ Cardinality(A \cup B) \in Nat /\ Cardinality(A \cup B) <= n
  <2>1. IsFiniteSet(A) /\ IsFiniteSet(B) /\ Cardinality(A) \in Nat /\ Cardinality(B) \in Nat
    BY <1>5, PoolAssumption, FS_Subset, FS_CardinalityType
  <2>2. /\ IsFiniteSet(A \cup B) /\ IsFiniteSet(A \cap B)
        /\ Cardinality(A \cup B) = Cardinality(A) + Cardinality(B) - Cardinality(A \cap B)
    BY <2>1, FS_Union, FS_Intersection
  <2>3. Cardinality(A \cap B) \in Nat /\ Cardinality(A \cup B) \in Nat
    BY <2>2, FS_CardinalityType
  <2> HIDE DEF A, B
  <2> QED
    BY <2>1, <2>2, <2>3
<1>7. Occupied \subseteq A \cup B
  <2> SUFFICES ASSUME NEW u \in Occupied PROVE u \in A \cup B
    OBVIOUS
  <2>1. u \in Videos /\ registry[u] # "terminal"
    BY NotOccupied DEF Occupied
  <2>2. u \in second[v] \/ own[u] # "none" \/ restored[u]
    BY <1>1 DEF ReadsInv
  <2>3. u \notin Gone(v)
    BY <1>2, <2>1
  <2>4. own[u] # "none" => mine[u] # "none"
    BY <2>1, <2>3
  <2>5. own[u] = "none" => kept[u]
    BY <1>3, <2>1, <2>2, <2>3
  <2> QED
    BY <2>1, <2>4, <2>5
<1> HIDE DEF kept, mine, A, B
<1>8. Occupied' \subseteq Occupied \cup (IF n < MaxGlobal THEN {v} ELSE {})
  BY <1>1 DEF Occupied, PoolTypeOK
<1>9. OccupiedFits'
  <2>1. CASE ~(n < MaxGlobal)
    BY <1>8, <2>1, FitsSubset
  <2>2. CASE n < MaxGlobal
    <3>1. Occupied' \subseteq (A \cup B) \cup {v}
      BY <1>7, <1>8, <2>2
    <3>2. IsFiniteSet((A \cup B) \cup {v}) /\ Cardinality((A \cup B) \cup {v}) \in Nat
          /\ Cardinality((A \cup B) \cup {v}) <= Cardinality(A \cup B) + 1
      <4> DEFINE C == A \cup B
      <4>1. IsFiniteSet(C) /\ Cardinality(C) \in Nat
        BY <1>6
      <4> HIDE DEF C
      <4>2. /\ IsFiniteSet(C \cup {v})
            /\ Cardinality(C \cup {v}) = IF v \in C THEN Cardinality(C) ELSE Cardinality(C) + 1
        BY <4>1, FS_AddElement
      <4>3. IsFiniteSet(C \cup {v}) /\ Cardinality(C \cup {v}) \in Nat
            /\ Cardinality(C \cup {v}) <= Cardinality(C) + 1
        BY <4>1, <4>2
      <4> QED
        BY <4>3 DEF C
    <3>3. IsFiniteSet(Occupied') /\ Cardinality(Occupied') <= Cardinality((A \cup B) \cup {v})
          /\ Cardinality(Occupied') \in Nat
      BY <3>1, <3>2, FS_Subset, FS_CardinalityType
    <3> HIDE DEF n
    <3>4. n \in Nat
      BY <1>6 DEF n
    <3> QED
      BY <1>6, <2>2, <3>2, <3>3, <3>4, PoolAssumption DEF OccupiedFits
  <2> QED
    BY <2>1, <2>2
<1>10. PoolTypeOK'
  <2>1. own' \in [Videos -> Own] /\ handler' \in [Videos -> Handler]
    BY <1>1, <1>4 DEF PoolTypeOK, Own, Handler
  <2>2. \A u \in Videos : ~(own'[u] = "bound" /\ restored'[u])
    BY <1>1, <1>4
  <2> QED
    BY <1>1, <1>4, <2>1, <2>2 DEF PoolTypeOK
<1>11. \A u \in Videos : u # v \/ ~(n < MaxGlobal) => own'[u] = mine[u]
  BY <1>1, <1>4
<1>12. VideoInv'
  <2> SUFFICES ASSUME NEW u \in Videos
               PROVE  /\ handler'[u] \in {"new", "restore", "reread", "acquire", "enter"} =>
                           registry[u] = "none" /\ remote[u] = "none"
                      /\ handler'[u] = "enter" => own'[u] = "unbound"
                      /\ own'[u] = "bound" => handler'[u] = "over"
                      /\ handler'[u] \in {"call", "persist"} => registry[u] = "processing"
                      /\ handler'[u] = "call" => remote[u] = "none"
                      /\ remote[u] = "running" => u \in ActiveVideos
                      /\ registry[u] = "terminal" => remote[u] = "ended"
                      /\ poll[u] = "release" => registry[u] = "terminal"
    BY <1>1 DEF VideoInv, ActiveVideos
  <2>1. CASE u # v
    <3>1. handler'[u] = handler[u] /\ own'[u] = mine[u] /\ mine[u] \in {own[u], "none"}
      BY <1>1, <1>4, <1>11, <2>1 DEF PoolTypeOK
    <3>2. handler[u] = "enter" => mine[u] = "unbound"
      BY <1>2 DEF VideoInv, mine
    <3> QED
      BY <3>1, <3>2 DEF VideoInv
  <2>2. CASE u = v
    <3>1. handler'[v] = (IF n < MaxGlobal THEN "enter" ELSE "over") /\ own[v] # "bound"
      BY <1>1 DEF PoolTypeOK, VideoInv
    <3>2. n < MaxGlobal => own'[v] = "unbound"
      BY <1>1, <1>4
    <3> QED
      BY <1>1, <1>4, <1>11, <2>2, <3>1, <3>2 DEF VideoInv
  <2> QED
    BY <2>1, <2>2
<1>13. ReadsInv'
  <2> SUFFICES ASSUME NEW w \in Videos, handler'[w] \in {"restore", "reread", "acquire"}
               PROVE  /\ \A u \in first[w] : registry[u] # "none"
                      /\ handler'[w] = "acquire" =>
                           /\ \A u \in Gone(w) : registry[u] = "terminal"
                           /\ \A u \in Occupied' : u \in second[w] \/ own'[u] # "none" \/ restored'[u]
    BY <1>1 DEF ReadsInv, Gone
  <2>1. w # v /\ handler'[w] = handler[w]
    BY <1>1 DEF PoolTypeOK
  <2>2. ASSUME handler[w] = "acquire", NEW u \in Occupied'
        PROVE  u \in second[w] \/ own'[u] # "none" \/ restored'[u]
    <3>1. CASE u = v /\ n < MaxGlobal
      BY <1>1, <1>4, <3>1
    <3>2. CASE ~(u = v /\ n < MaxGlobal)
      <4>1. u \in Occupied /\ u \in Videos
        BY <1>8, <3>2 DEF Occupied
      <4>2. u \notin Gone(v)
        BY <1>2, <4>1, NotOccupied
      <4>3. u \in second[w] \/ own[u] # "none" \/ restored[u]
        BY <2>2, <4>1 DEF ReadsInv
      <4>4. own'[u] = own[u]
        BY <1>11, <3>2, <4>1, <4>2 DEF mine
      <4>5. restored[u] => restored'[u]
        BY <1>1, <1>3, <4>1, <4>2
      <4> QED
        BY <4>3, <4>4, <4>5
    <3> QED
      BY <3>1, <3>2
  <2> QED
    BY <2>1, <2>2 DEF ReadsInv
<1> QED
  BY <1>9, <1>10, <1>12, <1>13

\* A step of one video that occupies no slot anew, and leaves the leases of
\* those that occupy one.
LEMMA OneVideo ==
  ASSUME PoolIInv, PoolTypeOK', VideoInv', UNCHANGED <<first, second>>,
         \A u \in Occupied' : /\ u \in Occupied
                              /\ own'[u] = "none" => own[u] = "none"
                              /\ restored[u] => restored'[u],
         \A u \in Videos : /\ handler'[u] \in {"restore", "reread", "acquire"} =>
                                handler'[u] = handler[u]
                           /\ registry[u] # "none" => registry'[u] # "none"
                           /\ registry[u] = "terminal" => registry'[u] = "terminal"
  PROVE  PoolIInv'
<1> USE DEF PoolIInv
<1>1. OccupiedFits'
  BY FitsSubset
<1>2. \A u \in Videos : first[u] \subseteq Videos /\ Gone(u)' = Gone(u) /\ Gone(u) \subseteq Videos
  BY DEF PoolTypeOK, Gone
<1>3. \A u \in Occupied' : u \in Videos
  BY DEF Occupied
<1>4. ReadsInv'
  BY <1>2, <1>3 DEF ReadsInv
<1> QED
  BY <1>1, <1>4

LEMMA EnterStep == ASSUME PoolIInv, NEW v \in Videos, Enter(v) PROVE PoolIInv'
<1> USE DEF PoolIInv, Enter, Goes, At
<1>0. /\ handler[v] = "enter" /\ registry[v] = "none" /\ remote[v] = "none" /\ poll[v] # "release"
      /\ UNCHANGED <<remote, first, second, poll, restored>>
      /\ \E state \in {"none", "processing", "recovery_required"} :
           registry' = [registry EXCEPT ![v] = state]
      /\ \/ /\ handler' = [handler EXCEPT ![v] = "call"] /\ own' = own
            /\ registry' = [registry EXCEPT ![v] = "processing"] /\ poolFaults' = poolFaults
         \/ /\ handler' = [handler EXCEPT ![v] = "over"]
            /\ own' = own \/ own' = [own EXCEPT ![v] = "none"]
            /\ poolFaults' = poolFaults + 1
  BY DEF VideoInv, PoolTypeOK, reads, leases, GiveBack, PoolHurt
<1>1. PoolTypeOK'
  BY <1>0 DEF PoolTypeOK, Handler, Registry, Own
<1>2. VideoInv'
  BY <1>0 DEF VideoInv, PoolTypeOK, ActiveVideos
<1>3. \A u \in Occupied' : u \in Occupied /\ (own'[u] = "none" => own[u] = "none")
  BY <1>0 DEF Occupied, PoolTypeOK
<1> QED
  BY <1>0, <1>1, <1>2, <1>3, OneVideo DEF PoolTypeOK

LEMMA InvokeStep == ASSUME PoolIInv, NEW v \in Videos, Invoke(v) PROVE PoolIInv'
<1> USE DEF PoolIInv, Invoke, Goes, At
<1>0. /\ handler[v] = "call" /\ registry[v] = "processing" /\ poll[v] # "release"
      /\ UNCHANGED <<own, restored, first, second, poll>>
      /\ \E end \in {"none", "running", "ended"} : remote' = [remote EXCEPT ![v] = end]
      /\ \/ handler' = [handler EXCEPT ![v] = "persist"] /\ registry' = registry
         \/ /\ handler' = [handler EXCEPT ![v] = "over"]
            /\ \E state \in {"processing", "recovery_required"} :
                 registry' = [registry EXCEPT ![v] = state]
  BY DEF VideoInv, PoolTypeOK, reads, leases
<1>1. PoolTypeOK'
  BY <1>0 DEF PoolTypeOK, Handler, Registry, Own
<1>2. VideoInv'
  BY <1>0 DEF VideoInv, PoolTypeOK, ActiveVideos
<1>3. \A u \in Occupied' : u \in Occupied
  BY <1>0 DEF Occupied, PoolTypeOK
<1> QED
  BY <1>0, <1>1, <1>2, <1>3, OneVideo DEF PoolTypeOK

LEMMA PersistStep == ASSUME PoolIInv, NEW v \in Videos, Persist(v) PROVE PoolIInv'
<1> USE DEF PoolIInv, Persist, Goes, At
<1>0. /\ handler[v] = "persist" /\ registry[v] = "processing" /\ poll[v] # "release"
      /\ UNCHANGED <<own, restored, remote, first, second, poll>>
      /\ handler' = [handler EXCEPT ![v] = "settle"]
      /\ \/ registry' = [registry EXCEPT ![v] = "terminal"] /\ remote[v] = "ended"
         \/ \E state \in {"succeeded", "recovery_required"} :
              registry' = [registry EXCEPT ![v] = state]
  BY DEF VideoInv, PoolTypeOK, reads, leases
<1>1. PoolTypeOK'
  BY <1>0 DEF PoolTypeOK, Handler, Registry, Own
<1>2. VideoInv'
  BY <1>0 DEF VideoInv, PoolTypeOK, ActiveVideos
<1>3. \A u \in Occupied' : u \in Occupied
  BY <1>0 DEF Occupied, PoolTypeOK
<1> QED
  BY <1>0, <1>1, <1>2, <1>3, OneVideo DEF PoolTypeOK

LEMMA SettleStep == ASSUME PoolIInv, NEW v \in Videos, Settle(v) PROVE PoolIInv'
<1> USE DEF PoolIInv, Settle, Goes, At
<1>0. /\ handler[v] = "settle" /\ own[v] # "bound"
      /\ UNCHANGED <<restored, registry, remote, first, second, poll, poolFaults>>
      /\ handler' = [handler EXCEPT ![v] = "over"]
      /\ \/ own' = [own EXCEPT ![v] = "none"] /\ (remote[v] = "ended" \/ restored[v])
         \/ /\ own' = [own EXCEPT ![v] = IF own[v] = "unbound" THEN "bound" ELSE own[v]]
            /\ ~restored[v]
  BY DEF VideoInv, PoolTypeOK, reads, GiveBack, HasAlias
<1>1. PoolTypeOK'
  BY <1>0 DEF PoolTypeOK, Handler, Own
<1>2. VideoInv'
  BY <1>0 DEF VideoInv, PoolTypeOK, ActiveVideos
<1>3. \A u \in Occupied' : u \in Occupied
  BY <1>0 DEF Occupied, PoolTypeOK
<1>4. OccupiedFits'
  BY <1>3, FitsSubset
<1>5. \A u \in Occupied' : own[u] # "none" \/ restored[u] => own'[u] # "none" \/ restored'[u]
  <2>1. v \in Occupied' => remote[v] = "running"
    BY <1>0 DEF Occupied, PoolTypeOK
  <2>2. \A u \in Occupied' : u \in Videos
    BY DEF Occupied
  <2> QED
    BY <1>0, <2>1, <2>2 DEF PoolTypeOK
<1>6. ReadsInv'
  <2>1. \A w \in Videos : Gone(w)' = Gone(w)
    BY <1>0 DEF Gone
  <2>2. \A w \in Videos : handler'[w] \in {"restore", "reread", "acquire"} => handler'[w] = handler[w]
    BY <1>0 DEF PoolTypeOK
  <2> QED
    BY <1>0, <1>3, <1>5, <2>1, <2>2 DEF ReadsInv
<1> QED
  BY <1>1, <1>2, <1>4, <1>6

LEMMA RemoteEndsStep == ASSUME PoolIInv, NEW v \in Videos, RemoteEnds(v) PROVE PoolIInv'
<1> USE DEF PoolIInv, RemoteEnds
<1>0. /\ remote[v] = "running" /\ remote' = [remote EXCEPT ![v] = "ended"]
      /\ UNCHANGED <<own, restored, registry, handler, first, second, poll>>
  BY DEF leases, reads
<1>1. PoolTypeOK'
  BY <1>0 DEF PoolTypeOK
<1>2. VideoInv'
  BY <1>0 DEF VideoInv, PoolTypeOK, ActiveVideos
<1>3. \A u \in Occupied' : u \in Occupied
  BY <1>0 DEF Occupied, PoolTypeOK
<1> QED
  BY <1>0, <1>1, <1>2, <1>3, OneVideo

LEMMA PollEndsStep == ASSUME PoolIInv, NEW v \in Videos, PollEnds(v) PROVE PoolIInv'
<1> USE DEF PoolIInv, PollEnds
<1>0. /\ registry[v] = "succeeded" /\ remote[v] = "ended"
      /\ registry' = [registry EXCEPT ![v] = "terminal"] /\ poll' = [poll EXCEPT ![v] = "release"]
      /\ UNCHANGED <<own, restored, remote, handler, first, second>>
  BY DEF leases, reads
<1>1. PoolTypeOK'
  BY <1>0 DEF PoolTypeOK, Registry
<1>2. VideoInv'
  BY <1>0 DEF VideoInv, PoolTypeOK, ActiveVideos
<1>3. \A u \in Occupied' : u \in Occupied
  BY <1>0 DEF Occupied
<1> QED
  BY <1>0, <1>1, <1>2, <1>3, OneVideo DEF PoolTypeOK

LEMMA PollReleasesStep == ASSUME PoolIInv, NEW v \in Videos, PollReleases(v) PROVE PoolIInv'
<1> USE DEF PoolIInv, PollReleases
<1>0. /\ poll[v] = "release" /\ poll' = [poll EXCEPT ![v] = "none"]
      /\ \A u \in Videos \ {v} : own'[u] = own[u] /\ restored'[u] = restored[u]
      /\ own'[v] \in {own[v], "none"} /\ own'[v] # "bound" /\ restored'[v] = FALSE
      /\ own' \in [Videos -> Own] /\ restored' \in [Videos -> BOOLEAN]
      /\ UNCHANGED <<registry, remote, handler, first, second>>
  <2>1. /\ own' = [u \in Videos |-> IF u \in {v} /\ own[u] = "bound" THEN "none" ELSE own[u]]
        /\ restored' = [u \in Videos |-> restored[u] /\ u \notin {v}]
    BY DEF ReleaseAlias
  <2>2. own' \in [Videos -> Own] /\ restored' \in [Videos -> BOOLEAN]
    BY <2>1 DEF PoolTypeOK, Own
  <2>3. \A u \in Videos \ {v} : own'[u] = own[u] /\ restored'[u] = restored[u]
    BY <2>1 DEF PoolTypeOK
  <2>4. own'[v] \in {own[v], "none"} /\ own'[v] # "bound" /\ restored'[v] = FALSE
    BY <2>1
  <2> QED
    BY <2>2, <2>3, <2>4 DEF reads
<1>1. PoolTypeOK'
  <2>1. poll' \in [Videos -> {"none", "release"}]
    BY <1>0 DEF PoolTypeOK
  <2>2. ASSUME NEW u \in Videos PROVE ~ (own'[u] = "bound" /\ restored'[u])
    <3>1. CASE u = v
      BY <1>0, <3>1
    <3>2. CASE u # v
      BY <1>0, <3>2 DEF PoolTypeOK
    <3> QED
      BY <3>1, <3>2
  <2> QED
    BY ZenonT(40), <1>0, <2>1, <2>2 DEF PoolTypeOK
<1>2. registry[v] = "terminal" /\ v \notin Occupied /\ handler[v] # "enter"
  BY <1>0, NotOccupied DEF VideoInv
<1>3. VideoInv'
  BY <1>0, <1>2 DEF VideoInv, PoolTypeOK, ActiveVideos
<1>4. Occupied' = Occupied /\ Occupied \subseteq Videos \ {v}
  BY <1>0, <1>2 DEF Occupied
<1> QED
  BY <1>0, <1>1, <1>3, <1>4, OneVideo

LEMMA LapseStep == ASSUME PoolIInv, NEW v \in Videos, Lapse(v) PROVE PoolIInv'
<1> USE DEF PoolIInv, Lapse
<1>0. /\ \A u \in Videos : handler[u] \notin {"acquire", "enter"}
      /\ \/ own' = [own EXCEPT ![v] = "none"] /\ restored' = restored
         \/ restored' = [restored EXCEPT ![v] = FALSE] /\ own' = own
      /\ UNCHANGED <<registry, remote, handler, first, second, poll>>
  BY DEF Waits, reads
<1>1. PoolTypeOK'
  BY ZenonT(40), <1>0 DEF PoolTypeOK, Own
<1>2. VideoInv'
  BY <1>0 DEF VideoInv, PoolTypeOK, ActiveVideos
<1>3. OccupiedFits'
  BY <1>0, FitsSubset DEF Occupied
<1>4. ReadsInv'
  BY <1>0 DEF ReadsInv
<1> QED
  BY <1>1, <1>2, <1>3, <1>4

LEMMA Characteristic == ASSUME NEW S, NEW T PROVE [x \in S |-> x \in T] \in [S -> BOOLEAN]
  OBVIOUS

LEMMA RestartStep == ASSUME PoolIInv, Restart PROVE PoolIInv'
<1> USE DEF PoolIInv, Restart, At
<1>0. /\ own' = [v \in Videos |-> "none"] /\ restored' \in [Videos -> BOOLEAN]
      /\ handler' = [v \in Videos |-> IF handler[v] = "new" THEN "new" ELSE "over"]
      /\ \A v \in Videos : remote'[v] = remote[v] \/ (handler[v] = "call" /\ remote'[v] = "running")
      /\ remote' \in [Videos -> {"none", "running", "ended"}]
      /\ poll' = [v \in Videos |-> "none"]
      /\ UNCHANGED <<registry, first, second>>
  <2>1. PICK accepted \in SUBSET Videos :
          remote' = [v \in Videos |-> IF handler[v] = "call" /\ v \in accepted THEN "running" ELSE remote[v]]
    OBVIOUS
  <2>2. remote' \in [Videos -> {"none", "running", "ended"}]
    BY <2>1 DEF PoolTypeOK
  <2>3. restored' = [v \in Videos |-> v \in ActiveVideos]
    OBVIOUS
  <2>4. restored' \in [Videos -> BOOLEAN]
    BY <2>3, Characteristic
  <2>5. /\ own' = [v \in Videos |-> "none"]
        /\ handler' = [v \in Videos |-> IF handler[v] = "new" THEN "new" ELSE "over"]
        /\ poll' = [v \in Videos |-> "none"]
        /\ UNCHANGED <<registry, first, second>>
    BY DEF reads
  <2>6. \A v \in Videos : remote'[v] = remote[v] \/ (handler[v] = "call" /\ remote'[v] = "running")
    BY <2>1
  <2> QED
    BY <2>2, <2>4, <2>5, <2>6, Zenon
<1>1. PoolTypeOK'
  BY <1>0 DEF PoolTypeOK, Own, Handler
<1>2. VideoInv'
  BY <1>0 DEF VideoInv, ActiveVideos
<1>3. OccupiedFits'
  <2>1. Occupied' \subseteq Occupied
    BY <1>0 DEF Occupied
  <2> QED
    BY <2>1, FitsSubset
<1>4. ReadsInv'
  BY <1>0 DEF ReadsInv
<1> QED
  BY <1>1, <1>2, <1>3, <1>4

LEMMA PoolStart == PoolInit => PoolIInv
<1> SUFFICES ASSUME PoolInit PROVE PoolIInv
  OBVIOUS
<1> USE DEF PoolInit
<1>1. PoolTypeOK
  BY DEF PoolTypeOK, Own, Registry, Handler
<1>2. VideoInv /\ ReadsInv
  BY DEF VideoInv, ReadsInv
<1>3. Occupied = {}
  BY DEF Occupied
<1>4. OccupiedFits
  BY <1>3, FS_EmptySet, PoolAssumption DEF OccupiedFits
<1> QED
  BY <1>1, <1>2, <1>4 DEF PoolIInv

LEMMA PoolStep == PoolIInv /\ [PoolNext]_poolVars => PoolIInv'
<1> SUFFICES ASSUME PoolIInv, [PoolNext]_poolVars PROVE PoolIInv'
  OBVIOUS
<1>1. ASSUME NEW v \in Videos, Create(v) PROVE PoolIInv'
  BY <1>1, ReadStep, RestoreStep, RereadStep, TryAcquireStep, EnterStep, InvokeStep, PersistStep,
     SettleStep DEF Create
<1>2. CASE UNCHANGED poolVars
  BY <1>2 DEF poolVars, leases, reads, PoolIInv, PoolTypeOK, VideoInv, ReadsInv, OccupiedFits,
              Occupied, ActiveVideos, Gone
<1> QED
  BY <1>1, <1>2, RemoteEndsStep, PollEndsStep, PollReleasesStep, LapseStep, RestartStep DEF PoolNext

\* acquire of the pool and the two reads of the create handler keep the number
\* of videos at the provider within max_global, for any number of videos: whatever
\* lapses, fails, is forgotten by a restart or ends between a read and its use.
THEOREM CapacityCorrect == PoolSpec => [](PoolTypeOK /\ CapacityIsKept)
<1>1. PoolIInv => PoolTypeOK /\ CapacityIsKept
  <2> SUFFICES ASSUME PoolIInv PROVE PoolTypeOK /\ CapacityIsKept
    OBVIOUS
  <2> DEFINE R == {v \in Videos : remote[v] = "running"}
  <2>1. R \in SUBSET Occupied /\ IsFiniteSet(Occupied)
    BY DEF PoolIInv, OccupiedFits, Occupied
  <2>2. Cardinality(R) <= Cardinality(Occupied) /\ Cardinality(R) \in Nat
        /\ Cardinality(Occupied) \in Nat
    BY <2>1, FS_Subset, FS_CardinalityType
  <2>3. Cardinality(R) <= MaxGlobal
    BY <2>2, PoolAssumption DEF PoolIInv, OccupiedFits
  <2> QED
    BY <2>3 DEF PoolIInv, CapacityIsKept
<1> QED
  BY <1>1, PoolStart, PoolStep, PTL DEF PoolSpec

-----------------------------------------------------------------------------
(***************************************************************************)
(* The installation root.  Each operation of the root, whoever calls it,   *)
(* keeps RootIInv and is a RootStep.                                       *)
(***************************************************************************)
\* The status and the kind of a lock agree; a receipt is of an epoch that has
\* been opened, and a pending re-anchoring has none yet.
RootAgrees ==
  /\ root.status = "maintenance_locked" <=>
       root.kind \in {"operator", "integrity", "component_addition", "reanchor"}
  /\ root.status = "retired" <=> root.kind = "retired"
  /\ root.kind = "component_addition" \/ root.status = "provisioning" => root.epoch = 1

\* At most one receipt for an operation and for an epoch, none of an epoch to
\* come, and one of the epoch that serves or is held by an operator.
ReceiptsFit ==
  /\ \A r \in receipts : r.epoch <= root.epoch
  /\ \A r, s \in receipts : r.op = s.op \/ r.epoch = s.epoch => r = s
  /\ Reanchoring =>
       /\ root.op \in Operations /\ root.epoch > 1
       /\ \A r \in receipts : r.op # root.op /\ r.epoch # root.epoch
  /\ root.kind \in {"none", "operator"} /\ root.epoch > 1 =>
       \E r \in receipts : r.epoch = root.epoch

RootIInv == RootTypeOK /\ ServesWhole /\ RootAgrees /\ ReceiptsFit

\* What every step of the root achieves.
RootDone == RootIInv' /\ RootStep

LEMMA RootRefusedStep == ASSUME RootIInv, Refused PROVE RootDone
<1>1. RootIInv'
  BY DEF RootIInv, Refused, rootVars, RootTypeOK, ServesWhole, RootAgrees, ReceiptsFit, Serving,
         AllBound, Reanchoring
<1>2. RootStep
  BY DEF RootIInv, Refused, rootVars, RootStep, RootTypeOK, RootRecord, ComponentRecord, Reanchoring
<1> QED
  BY <1>1, <1>2 DEF RootDone

LEMMA IntegrityStep == ASSUME RootIInv, IntegrityLock PROVE RootDone
<1> USE DEF RootIInv
<1>1. CASE root' = root
  BY <1>1, RootRefusedStep DEF IntegrityLock, Refused, rootVars
<1>2. CASE root' = Locked(root, "integrity", None) /\ root.status # "retired" /\ ~Reanchoring
  <2>1. /\ root'.epoch = root.epoch /\ root'.status = "maintenance_locked"
        /\ root'.kind = "integrity" /\ comps' = comps /\ receipts' = receipts
        /\ root' \in RootRecord
    BY <1>2 DEF Locked, IntegrityLock, RootTypeOK, RootRecord
  <2>2. RootTypeOK' /\ ServesWhole' /\ RootAgrees' /\ ReceiptsFit'
    BY <2>1 DEF RootTypeOK, ServesWhole, RootAgrees, ReceiptsFit, Serving, AllBound, Reanchoring
  <2>3. RootStep
    BY <1>2, <2>1 DEF RootStep, RootTypeOK, RootRecord, ComponentRecord, Reanchoring, rootVars
  <2> QED
    BY <2>2, <2>3 DEF RootDone
<1> QED
  BY <1>1, <1>2 DEF IntegrityLock

\* What changes a component that is not yet bound, or raises its floor.
LEMMA ComponentStep ==
  ASSUME RootIInv, NEW c \in Components, NEW new \in ComponentRecord,
         comps' = [comps EXCEPT ![c] = new], UNCHANGED <<root, receipts>>,
         new.epoch = comps[c].epoch,
         comps[c].bound => new.bound /\ new.floor >= comps[c].floor,
         root.status # "retired"
  PROVE  RootDone
<1> USE DEF RootIInv
<1>1. comps' \in [Components -> ComponentRecord]
  BY DEF RootTypeOK
<1>2. \A d \in Components : /\ comps'[d].epoch = root.epoch
                            /\ comps[d].bound => comps'[d].bound /\ comps'[d].floor >= comps[d].floor
  BY DEF RootTypeOK, ComponentRecord, ServesWhole
<1>3. RootTypeOK' /\ RootAgrees' /\ ReceiptsFit'
  BY <1>1 DEF RootTypeOK, RootAgrees, ReceiptsFit, Reanchoring
<1>4. ServesWhole'
  BY <1>1, <1>2 DEF ServesWhole, Serving, AllBound
<1>5. RootStep
  BY <1>2 DEF RootStep, RootTypeOK, RootRecord, Reanchoring
<1> QED
  BY <1>3, <1>4, <1>5 DEF RootDone

LEMMA BindStep ==
  ASSUME RootIInv, NEW c \in Components, NEW e, NEW f \in Nat, NEW a, Bind(c, e, f, a)
  PROVE  RootDone
<1> USE DEF RootIInv
<1>1. CASE Refused
  BY <1>1, RootRefusedStep
<1>2. CASE IntegrityLock
  BY <1>2, IntegrityStep
<1>3. CASE /\ root.status \notin {"active", "retired"} /\ ~comps[c].bound /\ TakesBindings(c, a)
           /\ comps' = [comps EXCEPT ![c].bound = TRUE, ![c].floor = f]
           /\ root' = (IF AllBound(comps') /\ ~Reanchoring THEN Active(root) ELSE root)
           /\ UNCHANGED receipts
  <2> DEFINE new == [comps[c] EXCEPT !.bound = TRUE, !.floor = f]
  <2>1. /\ comps' = [comps EXCEPT ![c] = new] /\ new \in ComponentRecord
        /\ new.epoch = comps[c].epoch
    BY <1>3 DEF RootTypeOK, ComponentRecord
  <2>2. CASE root' = root
    <3>1. UNCHANGED <<root, receipts>>
      BY <1>3, <2>2
    <3> HIDE DEF new
    <3> QED
      BY <1>3, <2>1, <3>1, ComponentStep
  <2>3. CASE AllBound(comps') /\ ~Reanchoring /\ root' = Active(root)
    <3>1. /\ root'.epoch = root.epoch /\ root'.status = "active" /\ root'.kind = "none"
          /\ root' \in RootRecord
      BY <2>3 DEF Active, RootTypeOK, RootRecord
    <3>2. root.epoch = 1 /\ root.kind # "integrity"
      BY <1>3, <2>3 DEF TakesBindings, RootAgrees
    <3>3. /\ comps' \in [Components -> ComponentRecord]
          /\ \A d \in Components :
               /\ comps'[d].epoch = root.epoch
               /\ comps[d].bound => comps'[d].bound /\ comps'[d].floor >= comps[d].floor
      BY <1>3, <2>1 DEF RootTypeOK, ComponentRecord, ServesWhole
    <3>4. RootTypeOK' /\ ServesWhole'
      BY <1>3, <2>3, <3>1, <3>3 DEF RootTypeOK, ServesWhole
    <3>5. RootAgrees'
      BY <3>1 DEF RootAgrees
    <3>6. ReceiptsFit'
      BY <1>3, <3>1, <3>2 DEF ReceiptsFit, Reanchoring
    <3>7. RootStep
      BY <1>3, <2>3, <3>1, <3>2, <3>3 DEF RootStep, RootTypeOK, RootRecord
    <3> QED
      BY <3>4, <3>5, <3>6, <3>7 DEF RootDone
  <2> QED
    BY <1>3, <2>2, <2>3
<1> QED
  BY <1>1, <1>2, <1>3 DEF Bind

\* A record with a new floor is a record.
LEMMA NewFloor ==
  ASSUME NEW was \in ComponentRecord, NEW n \in Nat
  PROVE  /\ [was EXCEPT !.floor = n, !.fence = TRUE] \in ComponentRecord
         /\ [was EXCEPT !.floor = n, !.fence = FALSE] \in ComponentRecord
BY DEF ComponentRecord

LEMMA VerifyStep ==
  ASSUME RootIInv, NEW c \in Components, NEW e, NEW f \in Nat, Verify(c, e, f)
  PROVE  RootDone
<1>1. CASE Serving /\ comps[c].bound /\ f = comps[c].floor + 1
           /\ comps' = [comps EXCEPT ![c].floor = f, ![c].fence = TRUE]
           /\ UNCHANGED <<root, receipts>>
  <2> DEFINE new == [comps[c] EXCEPT !.floor = f, !.fence = TRUE]
  <2>0. comps \in [Components -> ComponentRecord] /\ comps[c] \in ComponentRecord
    BY DEF RootIInv, RootTypeOK
  <2>1. /\ comps' = [comps EXCEPT ![c] = new]
        /\ new \in ComponentRecord
        /\ new.epoch = comps[c].epoch /\ new.bound = comps[c].bound /\ new.floor >= comps[c].floor
    <3>1. comps' = [comps EXCEPT ![c] = new]
      BY <1>1, <2>0
    <3>2. comps[c].floor \in Nat /\ f \in Nat
      BY <1>1, <2>0 DEF ComponentRecord
    <3>3. new \in ComponentRecord
      BY <2>0, <3>2, NewFloor
    <3>4. new.epoch = comps[c].epoch /\ new.bound = comps[c].bound /\ new.floor >= comps[c].floor
      <4>1. new.epoch = comps[c].epoch /\ new.bound = comps[c].bound
        BY <2>0, Zenon DEF ComponentRecord
      <4>2. new.floor >= comps[c].floor
        BY <1>1, <2>0, <3>2 DEF ComponentRecord
      <4> QED
        BY <4>1, <4>2
    <3> QED
      BY <3>1, <3>3, <3>4
  <2>2. root.status # "retired"
    BY <1>1 DEF Serving
  <2> HIDE DEF new
  <2> QED
    BY <1>1, <2>1, <2>2, ComponentStep
<1> QED
  BY <1>1, RootRefusedStep, IntegrityStep DEF Verify

LEMMA AcknowledgeStep ==
  ASSUME RootIInv, NEW c \in Components, NEW e, NEW f, Acknowledge(c, e, f)
  PROVE  RootDone
<1>1. CASE Serving /\ comps[c].floor = f
           /\ comps' = [comps EXCEPT ![c].floor = f + 1, ![c].fence = FALSE]
           /\ UNCHANGED <<root, receipts>>
  <2> DEFINE new == [comps[c] EXCEPT !.floor = f + 1, !.fence = FALSE]
  <2>0. comps \in [Components -> ComponentRecord] /\ comps[c] \in ComponentRecord
    BY DEF RootIInv, RootTypeOK
  <2>1. /\ comps' = [comps EXCEPT ![c] = new]
        /\ new \in ComponentRecord
        /\ new.epoch = comps[c].epoch /\ new.bound = comps[c].bound /\ new.floor >= comps[c].floor
    <3>1. comps' = [comps EXCEPT ![c] = new]
      BY <1>1, <2>0
    <3>2. comps[c].floor \in Nat /\ f + 1 \in Nat
      BY <1>1, <2>0 DEF ComponentRecord
    <3>3. new \in ComponentRecord
      BY <2>0, <3>2, NewFloor
    <3>4. new.epoch = comps[c].epoch /\ new.bound = comps[c].bound /\ new.floor >= comps[c].floor
      <4>1. new.epoch = comps[c].epoch /\ new.bound = comps[c].bound
        BY <2>0, Zenon DEF ComponentRecord
      <4>2. new.floor >= comps[c].floor
        BY <1>1, <2>0, <3>2 DEF ComponentRecord
      <4> QED
        BY <4>1, <4>2
    <3> QED
      BY <3>1, <3>3, <3>4
  <2>2. root.status # "retired"
    BY <1>1 DEF Serving
  <2> HIDE DEF new
  <2> QED
    BY <1>1, <2>1, <2>2, ComponentStep
<1> QED
  BY <1>1, RootRefusedStep, IntegrityStep DEF Acknowledge

LEMMA AdvanceStep ==
  ASSUME RootIInv, NEW c \in Components, NEW e, NEW f \in Nat, Advance(c, e, f)
  PROVE  RootDone
<1>1. CASE Serving /\ comps[c].floor = f - 1
           /\ comps' = [comps EXCEPT ![c].floor = f]
           /\ UNCHANGED <<root, receipts>>
  <2> DEFINE new == [comps[c] EXCEPT !.floor = f]
  <2>1. /\ comps' = [comps EXCEPT ![c] = new] /\ new \in ComponentRecord
        /\ new.epoch = comps[c].epoch /\ new.bound = comps[c].bound /\ new.floor >= comps[c].floor
    BY <1>1 DEF RootIInv, RootTypeOK, ComponentRecord
  <2>2. root.status # "retired"
    BY <1>1 DEF Serving
  <2> HIDE DEF new
  <2> QED
    BY <1>1, <2>1, <2>2, ComponentStep
<1> QED
  BY <1>1, RootRefusedStep, IntegrityStep DEF Advance

\* What an operator does to the row, component by component unchanged.
LEMMA MaintenanceStep ==
  ASSUME RootIInv, EnterMaintenance \/ ResumeActive \/ Retire
  PROVE  RootDone
<1> USE DEF RootIInv
<1>1. CASE EnterMaintenance
  <2>1. /\ root'.epoch = root.epoch /\ root'.status = "maintenance_locked"
        /\ root'.kind = "operator" /\ UNCHANGED <<comps, receipts>> /\ root' \in RootRecord
        /\ root.status = "active" /\ root.kind = "none"
    BY <1>1 DEF EnterMaintenance, Locked, Serving, RootTypeOK, RootRecord, RootAgrees
  <2>2. RootTypeOK' /\ ServesWhole' /\ RootAgrees' /\ ReceiptsFit'
    BY <2>1 DEF RootTypeOK, ServesWhole, RootAgrees, ReceiptsFit, Serving, AllBound, Reanchoring
  <2>3. RootStep
    BY <2>1 DEF RootStep, RootTypeOK, RootRecord, ComponentRecord, Reanchoring
  <2> QED
    BY <2>2, <2>3 DEF RootDone
<1>2. CASE ResumeActive
  <2>1. CASE root.kind = "operator" /\ AllBound(comps) /\ root' = Active(root) /\ UNCHANGED <<comps, receipts>>
    <3>1. /\ root'.epoch = root.epoch /\ root'.status = "active"
          /\ root'.kind = "none" /\ root' \in RootRecord /\ root.status = "maintenance_locked"
      BY <2>1 DEF Active, RootTypeOK, RootRecord, RootAgrees
    <3>2. RootTypeOK' /\ ServesWhole' /\ RootAgrees' /\ ReceiptsFit'
      BY <2>1, <3>1 DEF RootTypeOK, ServesWhole, RootAgrees, ReceiptsFit, Serving, AllBound, Reanchoring
    <3>3. RootStep
      BY <2>1, <3>1 DEF RootStep, RootTypeOK, RootRecord, ComponentRecord, Reanchoring
    <3> QED
      BY <3>2, <3>3 DEF RootDone
  <2> QED
    BY <1>2, <2>1, IntegrityStep DEF ResumeActive
<1>3. CASE Retire
  <2>1. /\ root'.epoch = root.epoch /\ root'.status = "retired"
        /\ root'.kind = "retired" /\ UNCHANGED <<comps, receipts>> /\ root' \in RootRecord
        /\ root.status # "retired" /\ ~Reanchoring
    BY <1>3 DEF Retire, RootTypeOK, RootRecord
  <2>2. RootTypeOK' /\ ServesWhole' /\ RootAgrees' /\ ReceiptsFit'
    BY <2>1 DEF RootTypeOK, ServesWhole, RootAgrees, ReceiptsFit, Serving, AllBound, Reanchoring
  <2>3. RootStep
    BY <2>1 DEF RootStep, RootTypeOK, RootRecord, ComponentRecord, Reanchoring
  <2> QED
    BY <2>2, <2>3 DEF RootDone
<1> QED
  BY <1>1, <1>2, <1>3

LEMMA ReanchorStep ==
  ASSUME RootIInv, NEW op \in Operations, BeginReanchor(op) \/ CompleteReanchor(op)
  PROVE  RootDone
<1> USE DEF RootIInv
<1>1. CASE BeginReanchor(op)
  <2>1. /\ root'.epoch = root.epoch + 1 /\ root'.status = "maintenance_locked"
        /\ root'.kind = "reanchor" /\ root'.op = op
        /\ root'.epoch \in 1..MaxEpoch /\ root.epoch \in Nat /\ root.epoch >= 1
        /\ root' \in RootRecord
    <3>1. MaxEpoch \in Nat /\ root.epoch \in 1..MaxEpoch /\ root \in RootRecord
      BY AuthorityAssumption DEF RootTypeOK, RootRecord
    <3>2. root.epoch + 1 \in 1..MaxEpoch /\ root.epoch \in Nat /\ root.epoch >= 1
      BY <1>1, <3>1 DEF BeginReanchor
    <3>3. root' = [root EXCEPT !.status = "maintenance_locked", !.kind = "reanchor", !.op = op,
                               !.epoch = root.epoch + 1]
      BY <1>1, <3>1 DEF BeginReanchor, Locked, RootRecord
    <3> QED
      BY <3>1, <3>2, <3>3 DEF RootRecord
  <2>2. /\ comps' \in [Components -> ComponentRecord] /\ receipts' = receipts
        /\ \A c \in Components : comps'[c].epoch = root'.epoch
        /\ \A r \in receipts : r.op # op
        /\ root.status = "maintenance_locked" /\ ~Reanchoring
    BY <1>1, <2>1 DEF BeginReanchor, Unbound, ComponentRecord, RootAgrees, Reanchoring
  <2>3. RootTypeOK' /\ ServesWhole' /\ RootAgrees'
    BY <2>1, <2>2 DEF RootTypeOK, ServesWhole, RootAgrees, Serving
  <2>4. \A r \in receipts : r.epoch \in Nat /\ r.epoch < root'.epoch
    BY <2>1 DEF RootTypeOK, ReceiptsFit
  <2>5. ReceiptsFit'
    BY <2>1, <2>2, <2>4 DEF ReceiptsFit, Reanchoring
  <2>6. RootStep
    BY <1>1, <2>1, <2>2 DEF RootStep
  <2> QED
    BY <2>3, <2>5, <2>6 DEF RootDone
<1>2. CASE CompleteReanchor(op)
  <2> DEFINE new == [op |-> op, epoch |-> root.epoch]
  <2>1. /\ root'.epoch = root.epoch /\ root'.status = "active" /\ root'.kind = "none"
        /\ root' \in RootRecord /\ root.epoch \in 1..MaxEpoch
        /\ comps' = comps /\ receipts' = receipts \union {new} /\ AllBound(comps)
        /\ Reanchoring /\ root.op = op
        /\ root.status = "maintenance_locked" /\ root.kind = "reanchor"
    BY <1>2 DEF CompleteReanchor, Active, RootTypeOK, RootRecord, RootAgrees, Reanchoring
  <2>2. new.op = op /\ new.epoch = root.epoch /\ new \in [op: Operations, epoch: 1..MaxEpoch]
    BY <2>1
  <2>3. RootTypeOK' /\ ServesWhole' /\ RootAgrees'
    BY <2>1, <2>2 DEF RootTypeOK, ServesWhole, RootAgrees, AllBound
  <2>4. \A r \in receipts : r.op # op /\ r.epoch # root.epoch /\ r.epoch \in Nat
    BY <2>1 DEF ReceiptsFit, RootTypeOK
  <2>5. ReceiptsFit'
    <3> HIDE DEF new
    <3>1. \A r \in receipts' : r.epoch <= root'.epoch
      BY <2>1, <2>2 DEF ReceiptsFit
    <3>2. \A r, s \in receipts' : r.op = s.op \/ r.epoch = s.epoch => r = s
      BY <2>1, <2>2, <2>4 DEF ReceiptsFit
    <3>3. \E r \in receipts' : r.epoch = root'.epoch
      BY <2>1, <2>2
    <3> QED
      BY <2>1, <3>1, <3>2, <3>3 DEF ReceiptsFit, Reanchoring
  <2>6. RootStep
    BY <2>1 DEF RootStep, RootTypeOK, RootRecord, ComponentRecord
  <2> QED
    BY <2>3, <2>5, <2>6 DEF RootDone
<1> QED
  BY <1>1, <1>2

(***************************************************************************)
(* The paid ledger under the root.  A claim is sent only after the root    *)
(* knows the mutation that recorded it, and what the controller serves is  *)
(* never behind the root; a copy of the files that lacks the record is     *)
(* older than the floor of the root and is found out when it is put back.  *)
(***************************************************************************)
FileRecord == [id: {1}, seq: Nat, manual: BOOLEAN, rows: [Claims -> Nat]]
Modes == {"detached", "provisioned_not_active", "ready", "manual_only", "fused"}
ControlRecord ==
  [pc: {"down", "inspect", "verify", "fence", "manual", "acknowledge", "running"},
   mode: Modes, epoch: {1}, proof: Nat, pending: BOOLEAN, looks: Nat, fresh: BOOLEAN]

WriterRecord ==
  [pc: {"idle", "anchored", "committed", "snapshot", "cas"},
   claim: Claims \cup {None}, tries: Nat, calls: Nat, fresh: BOOLEAN]

AskSteps == {"idle", "sample", "read", "prove", "resume", "publish", "granted"}

AskRecord ==
  [pc: AskSteps,
   claim: Claims \cup {None}, looks: Nat, same: BOOLEAN, local: Nat]

AuthorityTypeOK ==
  /\ RootTypeOK
  /\ db \in FileRecord /\ anchor \in [id: {1}, seq: Nat] /\ copy \in FileRecord \cup {None}
  /\ ctl \in ControlRecord /\ writer \in WriterRecord /\ out \in AskRecord
  /\ waiting \subseteq Claims /\ sent \in [Claims -> Nat]
  /\ gapTaken \in BOOLEAN /\ rootFaults \in Nat

\* Nobody writes and nobody is on the way outbound.
Quiet == writer.pc = "idle" /\ out.pc = "idle" /\ waiting = {}
\* The root is still in the epoch in which this ledger was bound.
Original == root.epoch = 1 /\ Mine.bound
\* The copy, if there is one, is older than mutation n.
Older(n) == copy # None => copy.seq < n

\* Who is starting does not serve; what it must yet fence is where it was read.
ControlInv ==
  /\ ctl.pc # "running" => ctl.mode \in {"detached", "provisioned_not_active"}
  /\ ctl.mode \notin {"ready", "fused"} => Quiet
  /\ ctl.pc = "acknowledge" => db.manual
  /\ ctl.pc \in {"fence", "manual"} /\ Original => db.seq = Mine.floor /\ Mine.fence /\ ~db.manual

\* Before the ledger is bound nothing has happened.
UnboundInv ==
  root.epoch = 1 /\ ~Mine.bound =>
    /\ ctl.mode # "ready" /\ Quiet /\ copy = None /\ ~gapTaken
    /\ \A c \in Claims : sent[c] = 0

\* A file that is not behind the root has the record of every claim sent.
Whole(d) ==
  /\ \A c \in Claims : d.rows[c] <= d.seq
  /\ Original /\ d.seq >= Mine.floor =>
       \A c \in Claims : sent[c] > 0 => d.rows[c] \in 1..Mine.floor

\* So it is with the database and with the copy, which the root has overtaken or met.
FilesInv ==
  /\ Whole(db)
  /\ copy # None => Whole(copy) /\ (Original => copy.seq <= Mine.floor)

\* Who serves is behind neither a copy nor the root.
ServingInv ==
  ctl.mode = "ready" \/ writer.pc # "idle" =>
    Older(db.seq + 1) /\ (Original => db.seq >= Mine.floor)

\* A claim that is being written has not been sent, is nobody else's, and its
\* record is the last of the database once it is committed.
WriterInv ==
  writer.pc # "idle" =>
    /\ writer.claim \in Claims /\ sent[writer.claim] = 0
    /\ writer.claim \notin waiting /\ (out.pc # "idle" => out.claim # writer.claim)
    /\ IF writer.pc = "anchored" THEN db.rows[writer.claim] = 0
       ELSE db.rows[writer.claim] = db.seq /\ db.seq > 0 /\ Older(db.seq)

\* A claim is recorded in a mutation that no copy has reached and the root knows.
Recorded(c) ==
  /\ sent[c] = 0 /\ db.rows[c] > 0
  /\ Older(db.rows[c])
  /\ Original => db.rows[c] <= Mine.floor

\* So are those that wait and the one that asks to go outbound.
OutInv ==
  /\ \A c \in waiting : Recorded(c)
  /\ out.pc # "idle" => out.claim \in Claims \ waiting /\ Recorded(out.claim)

\* After a take-over the database is marked as manual, or behind the fence, or
\* elsewhere than the root, and so is every copy that could be put back.
GapInv ==
  gapTaken =>
    /\ ctl.mode # "ready" /\ writer.pc = "idle"
    /\ Original => /\ copy # None => copy.seq < Mine.floor \/ copy.manual
                   /\ Mine.fence \/ db.seq # Mine.floor \/ db.manual

AuthorityIInv ==
  /\ RootIInv /\ AuthorityTypeOK
  /\ ControlInv /\ UnboundInv /\ FilesInv /\ ServingInv /\ WriterInv /\ OutInv
  /\ ReadyIsComplete /\ SentOnce /\ GapInv

-----------------------------------------------------------------------------
\* Steps of the root by others leave the row of this ledger alone, unless they
\* have left the first epoch.
LEMMA OthersOfRoot ==
  ASSUME AuthorityIInv, Elsewhere
  PROVE  /\ RootDone
         /\ root'.epoch = 1 => root.epoch = 1 /\ Mine' = Mine
<1>0. RootIInv /\ Gateway \in Components /\ comps \in [Components -> ComponentRecord]
      /\ root \in RootRecord /\ root.epoch \in Nat /\ root.epoch >= 1
      /\ MaxOther \in Nat
  BY AuthorityAssumption DEF AuthorityIInv, RootIInv, RootTypeOK, RootRecord
<1>1. ASSUME NEW c \in Components \ {Gateway}, OtherComponent(c)
      PROVE  RootDone /\ root'.epoch = root.epoch /\ Mine' = Mine
  <2>1. comps[c].floor \in Nat
    BY <1>0 DEF ComponentRecord
  <2>2. CASE Bind(c, root.epoch, 0, Addition)
    BY <1>0, <2>2, BindStep DEF Bind, Refused, IntegrityLock, Locked, Active, Mine, rootVars, RootRecord
  <2>3. CASE Advance(c, root.epoch, comps[c].floor + 1)
    <3>1. RootDone
      BY <1>0, <2>1, <2>3, AdvanceStep
    <3>2. root'.epoch = root.epoch
      BY <1>0, <2>3 DEF Advance, Refused, IntegrityLock, Locked, rootVars, RootRecord
    <3>3. Mine' = Mine
      BY <1>0, <2>3 DEF Advance, Refused, IntegrityLock, Mine, rootVars
    <3> QED
      BY <3>1, <3>2, <3>3
  <2>4. ASSUME NEW f \in 0..MaxOther, Verify(c, root.epoch, f)
        PROVE  RootDone /\ root'.epoch = root.epoch /\ Mine' = Mine
    <3>1. RootDone
      BY <1>0, <2>4, VerifyStep
    <3>2. root'.epoch = root.epoch
      BY <1>0, <2>4 DEF Verify, Refused, IntegrityLock, Locked, rootVars, RootRecord
    <3>3. Mine' = Mine
      BY <1>0, <2>4 DEF Verify, Refused, IntegrityLock, Mine, rootVars
    <3> QED
      BY <3>1, <3>2, <3>3
  <2>5. CASE Acknowledge(c, root.epoch, comps[c].floor)
    BY <1>0, <2>5, AcknowledgeStep DEF Acknowledge, Refused, IntegrityLock, Locked, Mine, rootVars, RootRecord
  <2> QED
    BY <1>1, <2>2, <2>3, <2>4, <2>5 DEF OtherComponent
<1>2. CASE EnterMaintenance \/ ResumeActive \/ Retire
  <2>1. root'.epoch = root.epoch /\ comps' = comps
    BY <1>0, <1>2 DEF EnterMaintenance, ResumeActive, Retire, IntegrityLock, Locked, Active, RootRecord
  <2> QED
    BY <1>0, <1>2, <2>1, MaintenanceStep DEF Mine
<1>3. ASSUME NEW op \in Operations, BeginReanchor(op)
      PROVE  RootDone /\ root'.epoch = root.epoch + 1
  BY <1>0, <1>3, ReanchorStep DEF BeginReanchor, Locked, RootRecord
<1>4. ASSUME NEW op \in Operations, CompleteReanchor(op)
      PROVE  RootDone /\ root'.epoch = root.epoch /\ Mine' = Mine
  BY <1>0, <1>4, ReanchorStep DEF CompleteReanchor, Active, RootRecord, Mine
<1>5. ASSUME Reanchoring, NEW f \in {0, 1}, Bind(Gateway, root.epoch, f, Addition)
      PROVE  RootDone /\ root'.epoch = root.epoch /\ root.epoch > 1
  <2>1. root.epoch > 1
    BY <1>0, <1>5 DEF RootIInv, ReceiptsFit
  <2>2. root'.epoch = root.epoch
    BY <1>0, <1>5 DEF Bind, Refused, IntegrityLock, Locked, Active, rootVars, RootRecord
  <2> QED
    BY <1>0, <1>5, <2>1, <2>2, BindStep
<1> QED
  BY <1>0, <1>1, <1>2, <1>3, <1>4, <1>5 DEF Elsewhere, Operator

\* The records of the process and of the files, one by one.
LEMMA AuthorityTypes ==
  ASSUME AuthorityTypeOK
  PROVE  /\ db \in FileRecord /\ db.id = 1 /\ db.seq \in Nat /\ db.rows \in [Claims -> Nat]
         /\ copy # None => copy \in FileRecord /\ copy.seq \in Nat /\ copy.rows \in [Claims -> Nat]
         /\ root.epoch \in Nat /\ root.epoch >= 1
         /\ Mine \in ComponentRecord /\ Mine.floor \in Nat
BY AuthorityAssumption DEF AuthorityTypeOK, FileRecord, RootTypeOK, RootRecord, ComponentRecord, Mine

\* Every purchase at hand is as safe as before: the floor has risen to the
\* files, if at all, no new record was made, and the controller has not become
\* ready; a purchase comes to hand only when the root has its record.
NothingNew ==
  /\ UNCHANGED <<db, copy, sent, gapTaken>>
  /\ ctl'.mode = "ready" => ctl.mode = "ready"
  /\ root'.epoch = 1 =>
       /\ root.epoch = 1 /\ Mine'.bound = Mine.bound
       /\ \/ Mine' = Mine
          \/ ~gapTaken /\ Mine.floor <= db.seq /\ Mine'.floor = db.seq
  /\ \/ writer'.pc = "idle"
     \/ /\ writer.pc # "idle" /\ writer'.claim = writer.claim
        /\ writer.pc = "anchored" <=> writer'.pc = "anchored"
  /\ \/ out'.pc = "idle"
     \/ out.pc # "idle" /\ out'.claim = out.claim
  /\ \/ waiting' \subseteq waiting
     \/ /\ writer.pc \notin {"idle", "anchored"} /\ writer'.pc = "idle"
        /\ waiting' = waiting \cup {writer.claim}
        /\ Original' => db.seq <= Mine'.floor
        /\ ctl.mode = "ready"

LEMMA NothingNewKeeps ==
  ASSUME AuthorityIInv, RootIInv', AuthorityTypeOK', ControlInv', NothingNew
  PROVE  AuthorityIInv'
<1> USE DEF AuthorityIInv
<1>0. Original' => Original
  BY DEF NothingNew, Original
<1>t. /\ db.seq \in Nat /\ db.rows \in [Claims -> Nat] /\ Mine.floor \in Nat /\ Mine'.floor \in Nat
      /\ copy # None => copy.seq \in Nat /\ copy.rows \in [Claims -> Nat]
      /\ root.epoch \in Nat /\ root'.epoch \in Nat /\ sent \in [Claims -> Nat]
      /\ waiting \subseteq Claims
  BY AuthorityTypes, AuthorityAssumption DEF AuthorityTypeOK, RootTypeOK, RootRecord, ComponentRecord, Mine
<1>f. Original' => Mine'.floor >= Mine.floor /\ (Mine'.floor = Mine.floor \/ Mine'.floor = db.seq)
  BY <1>0, <1>t DEF NothingNew, Original
<1>o. \A n : Older(n)' <=> Older(n)
  BY DEF NothingNew, Older
<1>1. UnboundInv'
  BY <1>t DEF UnboundInv, NothingNew, Quiet
<1>2. FilesInv'
  <2>1. Whole(db)'
    BY <1>0, <1>t, <1>f DEF FilesInv, Whole, NothingNew
  <2>2. ASSUME copy # None PROVE Whole(copy)' /\ (Original' => copy.seq <= Mine'.floor)
    <3>1. Whole(copy) /\ (Original => copy.seq <= Mine.floor)
      BY <2>2 DEF FilesInv
    <3> QED
      BY <1>0, <1>t, <1>f, <2>2, <3>1 DEF Whole, NothingNew
  <2> QED
    BY <2>1, <2>2 DEF FilesInv, NothingNew
<1>3. ServingInv'
  <2>1. SUFFICES ASSUME ctl'.mode = "ready" \/ writer'.pc # "idle"
                 PROVE  Older(db.seq + 1)' /\ (Original' => db'.seq >= Mine'.floor)
    BY DEF ServingInv
  <2>2. Older(db.seq + 1) /\ (Original => db.seq >= Mine.floor)
    BY <2>1 DEF ServingInv, NothingNew
  <2> QED
    BY <1>0, <1>t, <1>f, <2>2 DEF NothingNew, Older
<1>4. \A c \in Claims : Recorded(c) => Recorded(c)'
  BY <1>0, <1>t, <1>f DEF Recorded, NothingNew, Older
<1>5. WriterInv'
  <2>1. SUFFICES ASSUME writer'.pc # "idle" PROVE WriterInv'
    BY DEF WriterInv
  <2>2. waiting' \subseteq waiting /\ writer'.claim = writer.claim /\ writer.pc # "idle"
    BY <2>1 DEF NothingNew
  <2> QED
    BY <2>1, <2>2 DEF WriterInv, NothingNew, Older
<1>6. OutInv'
  <2>1. ASSUME NEW c \in waiting' PROVE Recorded(c)'
    <3>1. CASE c \in waiting
      BY <1>4, <1>t, <3>1 DEF OutInv
    <3>2. CASE c \notin waiting
      <4>1. /\ writer.pc \notin {"idle", "anchored"} /\ c = writer.claim
            /\ Original' => db.seq <= Mine'.floor
        BY <2>1, <3>2 DEF NothingNew
      <4>2. db.rows[c] = db.seq /\ db.seq > 0 /\ Older(db.seq) /\ sent[c] = 0
        BY <4>1 DEF WriterInv
      <4> QED
        BY <4>1, <4>2 DEF Recorded, NothingNew, Older
    <3> QED
      BY <3>1, <3>2
  <2>2. ASSUME out'.pc # "idle" PROVE (out.claim \in Claims \ waiting /\ Recorded(out.claim))'
    <3>1. out.pc # "idle" /\ out'.claim = out.claim
      BY <2>2 DEF NothingNew
    <3>2. out.claim \in Claims \ waiting /\ Recorded(out.claim)
      BY <3>1 DEF OutInv
    <3>3. out.claim \notin waiting'
      BY <3>1, <3>2 DEF NothingNew, WriterInv
    <3>4. PICK c \in Claims : c = out.claim
      BY <3>2
    <3>5. Recorded(c)'
      BY <1>4, <3>2, <3>4
    <3>6. Recorded(out.claim)'
      BY <3>1, <3>4, <3>5 DEF Recorded
    <3> QED
      BY <3>1, <3>2, <3>3, <3>6
  <2> QED
    BY <2>1, <2>2 DEF OutInv
<1>7. ReadyIsComplete' /\ SentOnce'
  BY DEF ReadyIsComplete, SentOnce, NothingNew
<1>8. GapInv'
  BY <1>0, <1>t DEF GapInv, NothingNew, Original
<1> QED
  BY <1>1, <1>2, <1>3, <1>5, <1>6, <1>7, <1>8

-----------------------------------------------------------------------------
\* Steps of the process alone: neither the root nor the database changes.
LEMMA AloneKeeps ==
  ASSUME AuthorityIInv, UNCHANGED <<rootVars, db, copy, sent, gapTaken>>,
         AuthorityTypeOK', ControlInv',
         ctl'.mode = "ready" => ctl.mode = "ready",
         \/ writer'.pc = "idle"
         \/ /\ writer.pc # "idle" /\ writer'.claim = writer.claim
            /\ writer.pc = "anchored" <=> writer'.pc = "anchored",
         out'.pc = "idle" \/ (out.pc # "idle" /\ out'.claim = out.claim),
         \/ waiting' \subseteq waiting
         \/ /\ writer.pc \notin {"idle", "anchored"} /\ writer'.pc = "idle"
            /\ waiting' = waiting \cup {writer.claim}
            /\ Original => db.seq <= Mine.floor
            /\ ctl.mode = "ready"
  PROVE  AuthorityIInv' /\ RootDone
<1>1. RootDone
  BY RootRefusedStep DEF AuthorityIInv, Refused
<1>2. NothingNew
  BY DEF NothingNew, rootVars, Mine, Original
<1> QED
  BY <1>1, <1>2, NothingNewKeeps DEF RootDone

\* Records that keep their fields are records.
LEMMA AskRecords ==
  ASSUME NEW o \in AskRecord
  PROVE  /\ \A pc \in AskSteps : [o EXCEPT !.pc = pc] \in AskRecord
         /\ [o EXCEPT !.pc = "read", !.same = TRUE] \in AskRecord
         /\ [o EXCEPT !.pc = "granted", !.same = FALSE] \in AskRecord
         /\ \A n \in Nat : [o EXCEPT !.pc = "prove", !.local = n] \in AskRecord
         /\ [o EXCEPT !.pc = "sample", !.looks = @ + 1, !.local = 0] \in AskRecord
         /\ [o EXCEPT !.same = FALSE] \in AskRecord
<1>1. \A pc \in AskSteps : [o EXCEPT !.pc = pc] \in AskRecord
  BY DEF AskRecord, AskSteps
<1>2. [o EXCEPT !.pc = "read", !.same = TRUE] \in AskRecord
  BY DEF AskRecord, AskSteps
<1>3. [o EXCEPT !.pc = "granted", !.same = FALSE] \in AskRecord
  BY DEF AskRecord, AskSteps
<1>4. \A n \in Nat : [o EXCEPT !.pc = "prove", !.local = n] \in AskRecord
  BY DEF AskRecord, AskSteps
<1>5. [o EXCEPT !.pc = "sample", !.looks = @ + 1, !.local = 0] \in AskRecord
  <2>1. \A n \in Nat : [o EXCEPT !.pc = "sample", !.looks = n, !.local = 0] \in AskRecord
    BY DEF AskRecord, AskSteps
  <2>2. o.looks + 1 \in Nat
    BY DEF AskRecord
  <2>3. [o EXCEPT !.pc = "sample", !.looks = @ + 1, !.local = 0] =
          [o EXCEPT !.pc = "sample", !.looks = o.looks + 1, !.local = 0]
    BY DEF AskRecord
  <2> QED
    BY <2>1, <2>2, <2>3
<1>6. [o EXCEPT !.same = FALSE] \in AskRecord
  BY DEF AskRecord, AskSteps
<1> QED
  BY <1>1, <1>2, <1>3, <1>4, <1>5, <1>6

LEMMA WriterRecords ==
  ASSUME NEW w \in WriterRecord
  PROVE  /\ [w EXCEPT !.pc = "committed"] \in WriterRecord
         /\ [w EXCEPT !.pc = "snapshot"] \in WriterRecord
         /\ [w EXCEPT !.pc = "cas", !.fresh = TRUE, !.tries = @ + 1, !.calls = @ + 1] \in WriterRecord
         /\ [w EXCEPT !.pc = "snapshot", !.fresh = FALSE] \in WriterRecord
         /\ [w EXCEPT !.fresh = FALSE] \in WriterRecord
         /\ [w EXCEPT !.tries = @ + 1] \in WriterRecord
<1>1. [w EXCEPT !.pc = "committed"] \in WriterRecord
  BY DEF WriterRecord
<1>2. [w EXCEPT !.pc = "snapshot"] \in WriterRecord
  BY DEF WriterRecord
<1>3. [w EXCEPT !.pc = "cas", !.fresh = TRUE, !.tries = @ + 1, !.calls = @ + 1] \in WriterRecord
  <2>1. \A n, m \in Nat : [w EXCEPT !.pc = "cas", !.fresh = TRUE, !.tries = n, !.calls = m] \in WriterRecord
    BY DEF WriterRecord
  <2>2. w.tries + 1 \in Nat /\ w.calls + 1 \in Nat
    BY DEF WriterRecord
  <2>3. [w EXCEPT !.pc = "cas", !.fresh = TRUE, !.tries = @ + 1, !.calls = @ + 1] =
          [w EXCEPT !.pc = "cas", !.fresh = TRUE, !.tries = w.tries + 1, !.calls = w.calls + 1]
    BY DEF WriterRecord
  <2> QED
    BY <2>1, <2>2, <2>3
<1>4. [w EXCEPT !.pc = "snapshot", !.fresh = FALSE] \in WriterRecord
  BY DEF WriterRecord
<1>5. [w EXCEPT !.fresh = FALSE] \in WriterRecord
  BY DEF WriterRecord
<1>6. [w EXCEPT !.tries = @ + 1] \in WriterRecord
  BY DEF WriterRecord
<1> QED
  BY <1>1, <1>2, <1>3, <1>4, <1>5, <1>6

LEMMA ControlRecords ==
  ASSUME NEW t \in ControlRecord
  PROVE  /\ [t EXCEPT !.mode = "fused"] \in ControlRecord
         /\ [t EXCEPT !.mode = "fused", !.pending = TRUE] \in ControlRecord
         /\ [t EXCEPT !.pending = FALSE] \in ControlRecord
         /\ [t EXCEPT !.fresh = FALSE] \in ControlRecord
         /\ \A n \in Nat : [t EXCEPT !.proof = n] \in ControlRecord
         /\ [t EXCEPT !.pc = "inspect", !.looks = 0] \in ControlRecord
         /\ [t EXCEPT !.pc = "inspect", !.looks = @ + 1, !.fresh = FALSE] \in ControlRecord
         /\ [t EXCEPT !.pc = "manual"] \in ControlRecord
         /\ [t EXCEPT !.pc = "acknowledge"] \in ControlRecord
         /\ \A pc \in {"verify", "fence", "acknowledge"} : [t EXCEPT !.pc = pc, !.fresh = TRUE] \in ControlRecord
         /\ \A mode \in Modes : \A n \in Nat :
              [t EXCEPT !.pc = "running", !.mode = mode, !.proof = n, !.pending = FALSE] \in ControlRecord
<1>1. [t EXCEPT !.mode = "fused"] \in ControlRecord
  BY DEF ControlRecord, Modes
<1>2. [t EXCEPT !.mode = "fused", !.pending = TRUE] \in ControlRecord
  BY DEF ControlRecord, Modes
<1>3. [t EXCEPT !.pending = FALSE] \in ControlRecord
  BY DEF ControlRecord, Modes
<1>4. [t EXCEPT !.fresh = FALSE] \in ControlRecord
  BY DEF ControlRecord, Modes
<1>5. \A n \in Nat : [t EXCEPT !.proof = n] \in ControlRecord
  BY DEF ControlRecord, Modes
<1>6. [t EXCEPT !.pc = "inspect", !.looks = 0] \in ControlRecord
  BY DEF ControlRecord, Modes
<1>7. [t EXCEPT !.pc = "inspect", !.looks = @ + 1, !.fresh = FALSE] \in ControlRecord
  <2>1. \A n \in Nat : [t EXCEPT !.pc = "inspect", !.looks = n, !.fresh = FALSE] \in ControlRecord
    BY DEF ControlRecord, Modes
  <2>2. t.looks + 1 \in Nat
    BY DEF ControlRecord
  <2>3. [t EXCEPT !.pc = "inspect", !.looks = @ + 1, !.fresh = FALSE] =
          [t EXCEPT !.pc = "inspect", !.looks = t.looks + 1, !.fresh = FALSE]
    BY DEF ControlRecord
  <2> QED
    BY <2>1, <2>2, <2>3
<1>8. [t EXCEPT !.pc = "manual"] \in ControlRecord
  BY DEF ControlRecord, Modes
<1>9. [t EXCEPT !.pc = "acknowledge"] \in ControlRecord
  BY DEF ControlRecord, Modes
<1>10. \A pc \in {"verify", "fence", "acknowledge"} : [t EXCEPT !.pc = pc, !.fresh = TRUE] \in ControlRecord
  BY DEF ControlRecord, Modes
<1>11. \A mode \in Modes : \A n \in Nat :
              [t EXCEPT !.pc = "running", !.mode = mode, !.proof = n, !.pending = FALSE] \in ControlRecord
  BY DEF ControlRecord, Modes
<1> QED
  BY <1>1, <1>2, <1>3, <1>4, <1>5, <1>6, <1>7, <1>8, <1>9, <1>10, <1>11

LEMMA NewRecords ==
  /\ NoOut \in AskRecord /\ NoWriter \in WriterRecord /\ Down \in ControlRecord
  /\ \A c \in Claims : /\ [NoWriter EXCEPT !.pc = "anchored", !.claim = c] \in WriterRecord
                        /\ [NoOut EXCEPT !.pc = "sample", !.claim = c] \in AskRecord
  /\ [Down EXCEPT !.pc = "inspect", !.epoch = 1] \in ControlRecord
<1>1. NoOut \in AskRecord /\ NoWriter \in WriterRecord
  BY DEF NoOut, AskRecord, AskSteps, NoWriter, WriterRecord
<1>2. Down \in ControlRecord
  BY DEF Down, ControlRecord, Modes
<1>3. ASSUME NEW c \in Claims
      PROVE  [NoWriter EXCEPT !.pc = "anchored", !.claim = c] \in WriterRecord
  BY DEF NoWriter, WriterRecord
<1>4. ASSUME NEW c \in Claims
      PROVE  [NoOut EXCEPT !.pc = "sample", !.claim = c] \in AskRecord
  BY DEF NoOut, AskRecord, AskSteps
<1>5. [Down EXCEPT !.pc = "inspect", !.epoch = 1] \in ControlRecord
  BY DEF Down, ControlRecord, Modes
<1> QED
  BY <1>1, <1>2, <1>3, <1>4, <1>5

LEMMA OpenStep == ASSUME AuthorityIInv, Open PROVE AuthorityIInv' /\ RootDone
<1> USE DEF Open, AuthorityIInv
<1>1. ctl' = [Down EXCEPT !.pc = "inspect", !.epoch = 1]
  BY AuthorityTypes
<1>2. ctl'.pc = "inspect" /\ ctl'.mode = "detached" /\ ctl.mode \in {"detached", "provisioned_not_active"}
  BY <1>1 DEF Down, ControlInv
<1>3. AuthorityTypeOK'
  BY <1>1, NewRecords DEF AuthorityTypeOK, RootTypeOK, rootVars, fileVars
<1>4. ControlInv'
  BY <1>2 DEF ControlInv, Quiet, Original, Mine, rootVars, fileVars
<1> QED
  BY <1>2, <1>3, <1>4, AloneKeeps DEF fileVars

LEMMA RefreshStep == ASSUME AuthorityIInv, Refresh PROVE AuthorityIInv' /\ RootDone
<1> USE DEF Refresh, AuthorityIInv
<1>1. AuthorityTypeOK'
  BY ControlRecords DEF AuthorityTypeOK, RootTypeOK, Modes, rootVars, fileVars
<1>2. ctl'.pc = "inspect" /\ ctl'.mode = "provisioned_not_active"
  BY DEF AuthorityTypeOK, ControlRecord, WriterRecord, AskRecord
<1>3. ControlInv'
  BY <1>2 DEF ControlInv, Quiet, Original, Mine, rootVars, fileVars
<1> QED
  BY <1>1, <1>2, <1>3, AloneKeeps DEF fileVars

LEMMA FenceAnchorStep == ASSUME AuthorityIInv, FenceAnchor PROVE AuthorityIInv' /\ RootDone
<1> USE DEF FenceAnchor, AuthorityIInv
<1>1. AuthorityTypeOK'
  <2>1. anchor' \in [id: {1}, seq: Nat]
    BY DEF AuthorityTypeOK
  <2> QED
    BY <2>1, ControlRecords DEF AuthorityTypeOK, RootTypeOK, rootVars
<1>2. ctl'.pc = "manual" /\ ctl'.mode = ctl.mode
  BY DEF AuthorityTypeOK, ControlRecord, WriterRecord, AskRecord
<1>3. ControlInv'
  BY <1>2 DEF ControlInv, Quiet, Original, Mine, rootVars
<1> QED
  BY <1>1, <1>2, <1>3, AloneKeeps

LEMMA FailWriteStep == ASSUME AuthorityIInv, FailWrite PROVE AuthorityIInv' /\ RootDone
<1> USE DEF FailWrite, AuthorityIInv
<1>1. AuthorityTypeOK'
  <2>1. rootFaults' \in Nat
    BY DEF AuthorityTypeOK, Harmed
  <2> QED
    BY <2>1, NewRecords DEF AuthorityTypeOK, RootTypeOK, rootVars, fileVars
<1>2. writer'.pc = "idle"
  BY DEF NoWriter
<1>3. ControlInv'
  BY <1>2 DEF ControlInv, Quiet, Original, Mine, rootVars, fileVars
<1> QED
  BY <1>1, <1>2, <1>3, AloneKeeps DEF fileVars

\* The hook gives up.
LEMMA HookFailsStep ==
  ASSUME AuthorityIInv, writer.pc # "idle", HookFails,
         UNCHANGED <<rootVars, fileVars, sent, gapTaken, rootFaults>>
  PROVE  AuthorityIInv' /\ RootDone
<1> USE DEF HookFails, AuthorityIInv
<1>1. AuthorityTypeOK'
  BY ControlRecords, AskRecords, NewRecords DEF AuthorityTypeOK, RootTypeOK, Modes, rootVars, fileVars, NoWriter, Fused, Moved
<1>2. /\ writer'.pc = "idle" /\ ctl'.mode = "fused" /\ ctl'.pc = ctl.pc
      /\ out'.pc = out.pc /\ out'.claim = out.claim
  BY DEF AuthorityTypeOK, ControlRecord, AskRecord, NoWriter, Fused, Moved
<1>3. ControlInv'
  BY <1>2 DEF ControlInv, Quiet, Original, Mine, rootVars, fileVars
<1> QED
  BY <1>1, <1>2, <1>3, AloneKeeps DEF fileVars

LEMMA EnterHookStep == ASSUME AuthorityIInv, EnterHook PROVE AuthorityIInv' /\ RootDone
<1> USE DEF EnterHook
<1>1. CASE ctl.mode = "ready" /\ ctl.proof = db.seq - 1
  <2> USE DEF AuthorityIInv
  <2>1. AuthorityTypeOK'
    BY <1>1, WriterRecords, AskRecords DEF AuthorityTypeOK, RootTypeOK, rootVars, fileVars, Moved
  <2>2. writer'.pc = "snapshot" /\ writer'.claim = writer.claim /\ out'.pc = out.pc /\ out'.claim = out.claim
    BY <1>1 DEF AuthorityTypeOK, WriterRecord, AskRecord, Moved
  <2>3. ControlInv'
    BY <1>1, <2>2 DEF ControlInv, Quiet, Original, Mine, rootVars, fileVars
  <2> QED
    BY <1>1, <2>1, <2>2, <2>3, AloneKeeps DEF fileVars
<1> QED
  BY <1>1, HookFailsStep

\* The hook confirms what the root knows.
LEMMA HookSnapshotStep == ASSUME AuthorityIInv, HookSnapshot PROVE AuthorityIInv' /\ RootDone
<1> USE DEF HookSnapshot
<1>1. CASE HookFails
  BY <1>1, HookFailsStep
<1>2. CASE Mine.floor = db.seq /\ HookConfirms /\ ctl.mode = "ready"
  <2> USE DEF AuthorityIInv
  <2>1. AuthorityTypeOK'
    <3>1. db.seq \in Nat /\ writer.claim \in Claims
      BY AuthorityTypes DEF WriterInv
    <3>2. /\ ctl' = [ctl EXCEPT !.proof = db.seq] /\ waiting' = waiting \cup {writer.claim}
          /\ writer' = NoWriter /\ out' = [out EXCEPT !.same = FALSE]
      BY <1>2 DEF HookConfirms, Moved
    <3>3. ctl' \in ControlRecord /\ writer' \in WriterRecord /\ out' \in AskRecord
          /\ waiting' \subseteq Claims
      BY <3>1, <3>2, ControlRecords, AskRecords, NewRecords DEF AuthorityTypeOK
    <3> QED
      BY <3>3 DEF AuthorityTypeOK, RootTypeOK, rootVars, fileVars
  <2>2. /\ writer'.pc = "idle" /\ out'.pc = out.pc /\ out'.claim = out.claim
        /\ waiting' = waiting \cup {writer.claim} /\ ctl'.mode = ctl.mode /\ ctl'.pc = ctl.pc
    BY <1>2 DEF AuthorityTypeOK, ControlRecord, WriterRecord, AskRecord, Moved, HookConfirms, NoWriter
  <2>3. ControlInv'
    BY <1>2, <2>2 DEF ControlInv, Quiet, Original, Mine, rootVars, fileVars
  <2>4. Original => db.seq <= Mine.floor
    BY <1>2, AuthorityTypes
  <2> QED
    BY <1>2, <2>1, <2>2, <2>3, <2>4, AloneKeeps DEF fileVars
<1>3. CASE /\ writer' = [writer EXCEPT !.pc = "cas", !.fresh = TRUE,
                            !.tries = @ + 1, !.calls = @ + 1]
           /\ UNCHANGED <<ctl, waiting, out>>
  <2> USE DEF AuthorityIInv
  <2>1. AuthorityTypeOK'
    BY <1>3, WriterRecords DEF AuthorityTypeOK, RootTypeOK, rootVars, fileVars
  <2>2. writer'.pc = "cas" /\ writer'.claim = writer.claim
    BY <1>3 DEF AuthorityTypeOK, WriterRecord
  <2>3. ControlInv'
    BY <1>3, <2>2 DEF ControlInv, Quiet, Original, Mine, rootVars, fileVars
  <2> QED
    BY <1>3, <2>1, <2>2, <2>3, AloneKeeps DEF fileVars
<1> QED
  BY <1>1, <1>2, <1>3 DEF HookConfirms

LEMMA HookUnreadableStep == ASSUME AuthorityIInv, HookUnreadable PROVE AuthorityIInv' /\ RootDone
<1> USE DEF HookUnreadable, AuthorityIInv
<1>1. AuthorityTypeOK'
  <2>1. rootFaults' \in Nat
    BY DEF AuthorityTypeOK, Harmed
  <2> QED
    BY <2>1, WriterRecords DEF AuthorityTypeOK, RootTypeOK, rootVars, fileVars
<1>2. writer'.pc = writer.pc /\ writer'.claim = writer.claim
  BY DEF AuthorityTypeOK, ControlRecord, WriterRecord, AskRecord
<1>3. ControlInv'
  BY <1>2 DEF ControlInv, Quiet, Original, Mine, rootVars, fileVars
<1> QED
  BY <1>1, <1>2, <1>3, AloneKeeps DEF fileVars

\* A handler that asks to go outbound looks, and the controller may fuse.
LEMMA AsksStep ==
  ASSUME AuthorityIInv, Sample \/ ReadFiles \/ ProveRoot \/ Resume \/ Publish
  PROVE  AuthorityIInv' /\ RootDone
<1> USE DEF AuthorityIInv
<1>1. UNCHANGED <<rootVars, fileVars, writer, waiting, sent, gapTaken, rootFaults>>
  BY DEF Sample, ReadFiles, ProveRoot, Resume, Publish
<1>t. out \in AskRecord /\ ctl \in ControlRecord /\ db.seq \in Nat /\ out.local \in Nat
  BY AuthorityTypes DEF AuthorityTypeOK, AskRecord
<1>2. /\ out.pc # "idle"
      /\ out' \in AskRecord
      /\ out'.pc = "idle" \/ out'.claim = out.claim
  <2>1. NoOut \in AskRecord /\ NoOut.pc = "idle"
    BY NewRecords DEF NoOut
  <2>2. SampleAgain \in AskRecord /\ SampleAgain.claim = out.claim
    BY <1>t, AskRecords DEF SampleAgain, AskRecord
  <2>3. /\ [out EXCEPT !.pc = "read", !.same = TRUE] \in AskRecord
        /\ [out EXCEPT !.pc = "granted", !.same = FALSE] \in AskRecord
        /\ [out EXCEPT !.pc = "prove", !.local = db.seq] \in AskRecord
        /\ [out EXCEPT !.pc = "resume"] \in AskRecord
        /\ [out EXCEPT !.pc = "publish"] \in AskRecord
    BY <1>t, AskRecords DEF AskSteps
  <2>4. /\ [out EXCEPT !.pc = "read", !.same = TRUE].claim = out.claim
        /\ [out EXCEPT !.pc = "granted", !.same = FALSE].claim = out.claim
        /\ [out EXCEPT !.pc = "prove", !.local = db.seq].claim = out.claim
        /\ [out EXCEPT !.pc = "resume"].claim = out.claim
        /\ [out EXCEPT !.pc = "publish"].claim = out.claim
    BY <1>t DEF AskRecord
  <2>5. \/ out' = NoOut \/ out' = SampleAgain
        \/ out' = [out EXCEPT !.pc = "read", !.same = TRUE]
        \/ out' = [out EXCEPT !.pc = "granted", !.same = FALSE]
        \/ out' = [out EXCEPT !.pc = "prove", !.local = db.seq]
        \/ out' = [out EXCEPT !.pc = "resume"]
        \/ out' = [out EXCEPT !.pc = "publish"]
    BY DEF Sample, ReadFiles, ProveRoot, Resume, Publish, Mismatch
  <2>6. out.pc # "idle"
    BY DEF Sample, ReadFiles, ProveRoot, Resume, Publish
  <2> QED
    BY <2>1, <2>2, <2>3, <2>4, <2>5, <2>6
<1>3. /\ ctl' \in ControlRecord /\ ctl'.pc = ctl.pc
      /\ ctl'.mode = ctl.mode \/ ctl'.mode = "fused"
  <2>1. \/ ctl' = ctl \/ ctl' = Fused(ctl) \/ ctl' = [ctl EXCEPT !.pending = FALSE]
        \/ ctl' = [ctl EXCEPT !.proof = out.local]
    BY DEF Sample, ReadFiles, ProveRoot, Resume, Publish, Mismatch
  <2>2. ctl' \in ControlRecord
    BY <1>t, <2>1, ControlRecords DEF Fused
  <2> QED
    BY <1>t, <2>1, <2>2 DEF Fused, ControlRecord
<1>4. AuthorityTypeOK'
  BY <1>1, <1>2, <1>3 DEF AuthorityTypeOK, RootTypeOK, rootVars, fileVars
<1>5. ControlInv'
  BY <1>1, <1>2, <1>3 DEF ControlInv, Quiet, Original, Mine, rootVars, fileVars
<1> QED
  BY <1>1, <1>2, <1>3, <1>4, <1>5, AloneKeeps DEF fileVars

LEMMA ProcessDiesStep == ASSUME AuthorityIInv, ProcessDies PROVE AuthorityIInv' /\ RootDone
<1> USE DEF ProcessDies, AuthorityIInv
<1>1. AuthorityTypeOK'
  <2>1. rootFaults' \in Nat
    BY DEF AuthorityTypeOK, Harmed
  <2> QED
    BY <2>1, NewRecords DEF AuthorityTypeOK, RootTypeOK, rootVars, fileVars
<1>2. ctl'.pc = "down" /\ ctl'.mode = "detached" /\ writer'.pc = "idle" /\ out'.pc = "idle" /\ waiting' = {}
  BY DEF Down, NoWriter, NoOut
<1>3. ControlInv'
  BY <1>2 DEF ControlInv, Quiet
<1> QED
  BY <1>1, <1>2, <1>3, AloneKeeps DEF fileVars

LEMMA RootStill == ASSUME AuthorityIInv, UNCHANGED rootVars PROVE RootDone
BY RootRefusedStep DEF AuthorityIInv, Refused

\* One look at the root and the files; the controller may become ready.
LEMMA InspectStep == ASSUME AuthorityIInv, Inspect PROVE AuthorityIInv' /\ RootDone
<1> USE DEF Inspect, AuthorityIInv
<1>t. /\ db.seq \in Nat /\ Mine.floor \in Nat /\ sent \in [Claims -> Nat]
      /\ db.rows \in [Claims -> Nat]
      /\ copy # None => copy.seq \in Nat
      /\ ctl \in ControlRecord /\ ctl.epoch = 1
  BY AuthorityTypes DEF AuthorityTypeOK, ControlRecord
<1>1. /\ ctl' \in ControlRecord
      /\ \/ /\ ctl'.pc = "running" /\ ctl'.mode # "ready"
         \/ /\ ctl'.pc = "running" /\ ctl'.mode = "ready"
            /\ Trusted /\ Exact /\ ~Fenced /\ ~db.manual
         \/ /\ ctl'.mode = ctl.mode
            /\ \/ ctl'.pc = "fence" /\ ~db.manual /\ Exact /\ Fenced
               \/ ctl'.pc = "verify"
               \/ ctl'.pc = "acknowledge" /\ db.manual
  <2> DEFINE settled(mode) == [ctl EXCEPT !.pc = "running", !.mode = mode,
                                 !.proof = db.seq, !.pending = FALSE]
             next(pc) == [ctl EXCEPT !.pc = pc, !.fresh = TRUE]
  <2>1. \/ \E mode \in Modes \ {"ready"} : ctl' = settled(mode)
        \/ ctl' = settled("ready") /\ Trusted /\ Exact /\ ~Fenced /\ ~db.manual
        \/ ctl' = next("fence") /\ ~db.manual /\ Exact /\ Fenced
        \/ ctl' = next("verify")
        \/ ctl' = next("acknowledge") /\ db.manual
    BY DEF Reconciled, Modes
  <2>2. \A mode \in Modes : /\ settled(mode) \in ControlRecord
                            /\ settled(mode).pc = "running" /\ settled(mode).mode = mode
    <3>1. \A mode \in Modes : settled(mode) \in ControlRecord
      BY <1>t, ControlRecords
    <3>2. \A mode \in Modes : settled(mode).pc = "running" /\ settled(mode).mode = mode
      BY <1>t DEF ControlRecord
    <3> QED
      BY <3>1, <3>2
  <2>3. \A pc \in {"verify", "fence", "acknowledge"} :
          next(pc) \in ControlRecord /\ next(pc).pc = pc /\ next(pc).mode = ctl.mode
    <3>1. \A pc \in {"verify", "fence", "acknowledge"} : next(pc) \in ControlRecord
      BY <1>t, ControlRecords
    <3>2. \A pc \in {"verify", "fence", "acknowledge"} : next(pc).pc = pc /\ next(pc).mode = ctl.mode
      BY <1>t DEF ControlRecord
    <3> QED
      BY <3>1, <3>2
  <2>4. "ready" \in Modes
    BY DEF Modes
  <2> HIDE DEF settled, next
  <2> QED
    BY <2>1, <2>2, <2>3, <2>4
<1>2. ctl.mode \in {"detached", "provisioned_not_active"} /\ Quiet
  BY DEF ControlInv
<1>3. AuthorityTypeOK'
  BY <1>1 DEF AuthorityTypeOK, RootTypeOK, rootVars, fileVars
<1>4. ControlInv'
  BY <1>1, <1>2 DEF ControlInv, Quiet, Original, Mine, Exact, Fenced, rootVars, fileVars
<1>5. CASE ctl'.mode # "ready"
  BY <1>3, <1>4, <1>5, AloneKeeps DEF fileVars
<1>6. CASE ctl'.mode = "ready"
  <2>1. Trusted /\ Exact /\ ~Fenced /\ ~db.manual
    BY <1>1, <1>2, <1>6
  <2>2. Original /\ db.seq = Mine.floor /\ ~Mine.fence
    BY <1>t, <2>1 DEF Trusted, Exact, Fenced, Original
  <2>3. ~gapTaken
    BY <2>1, <2>2 DEF GapInv
  <2>4. \A c \in Claims : sent[c] > 0 => db.rows[c] > 0
    BY <1>t, <2>2 DEF FilesInv, Whole
  <2>5. copy # None => copy.seq < db.seq + 1
    <3>1. copy # None => copy.seq <= Mine.floor
      BY <2>2 DEF FilesInv
    <3> QED
      BY <1>t, <2>2, <3>1
  <2>6. /\ UNCHANGED <<root, comps, receipts, db, anchor, copy, writer, waiting, out, sent, gapTaken>>
    BY DEF rootVars, fileVars
  <2>7. Mine' = Mine /\ (Original' <=> Original) /\ \A n : Older(n)' <=> Older(n)
    BY <2>6 DEF Mine, Original, Older
  <2>8. UnboundInv' /\ ServingInv' /\ ReadyIsComplete' /\ GapInv'
    BY <1>t, <2>2, <2>3, <2>4, <2>5, <2>6, <2>7
    DEF UnboundInv, ServingInv, ReadyIsComplete, GapInv, Original, Older
  <2>9. FilesInv' /\ SentOnce'
    BY <2>6, <2>7 DEF FilesInv, Whole, SentOnce
  <2>10. WriterInv' /\ OutInv'
    BY <1>2, <2>6 DEF WriterInv, OutInv, Quiet
  <2>11. RootDone
    BY RootStill
  <2> QED
    BY <1>3, <1>4, <2>8, <2>9, <2>10, <2>11 DEF RootDone
<1> QED
  BY <1>5, <1>6

\* The floor rises to files that will not serve any more.
LEMMA FloorRises ==
  ASSUME AuthorityIInv, RootIInv', AuthorityTypeOK', ControlInv',
         UNCHANGED <<db, copy, sent, writer, waiting, out>>,
         Quiet, ctl'.mode # "ready",
         root'.epoch = root.epoch, Mine.bound, Mine'.bound,
         Mine'.floor = Mine.floor + 1, Mine'.floor = db.seq,
         Mine'.fence \/ db.manual
  PROVE  AuthorityIInv'
<1> USE DEF AuthorityIInv
<1>t. /\ db.seq \in Nat /\ db.rows \in [Claims -> Nat] /\ Mine.floor \in Nat
      /\ copy # None => copy.seq \in Nat /\ copy.rows \in [Claims -> Nat]
  BY AuthorityTypes
<1>1. Original' <=> Original
  BY DEF Original
<1>2. UnboundInv' /\ ServingInv' /\ WriterInv' /\ OutInv' /\ ReadyIsComplete' /\ SentOnce'
  BY DEF UnboundInv, ServingInv, WriterInv, OutInv, ReadyIsComplete, SentOnce, Quiet
<1>3. Whole(db)'
  BY <1>t, <1>1 DEF FilesInv, Whole
<1>4. copy # None => Whole(copy)' /\ (Original => copy.seq < Mine'.floor)
  BY <1>t, <1>1 DEF FilesInv, Whole
<1>5. FilesInv'
  BY <1>t, <1>1, <1>3, <1>4 DEF FilesInv
<1>6. GapInv'
  BY <1>1, <1>4 DEF GapInv, Quiet
<1> QED
  BY <1>2, <1>5, <1>6

LEMMA LookAgainType ==
  ASSUME AuthorityIInv, LookAgain
  PROVE  ctl' \in ControlRecord /\ ctl'.pc = "inspect" /\ ctl'.mode = ctl.mode
<1>1. ctl \in ControlRecord
  BY DEF AuthorityIInv, AuthorityTypeOK
<1>2. ctl' \in ControlRecord
  BY <1>1, ControlRecords DEF LookAgain
<1>3. ctl'.pc = "inspect" /\ ctl'.mode = ctl.mode
  BY <1>1 DEF LookAgain, ControlRecord
<1> QED
  BY <1>2, <1>3

LEMMA TakeOverStep == ASSUME AuthorityIInv, TakeOver PROVE AuthorityIInv' /\ RootDone
<1> USE DEF TakeOver, AuthorityIInv
<1>t. /\ db.seq \in Nat /\ root \in RootRecord /\ comps \in [Components -> ComponentRecord]
      /\ Gateway \in Components /\ Mine.floor \in Nat
  BY AuthorityTypes, AuthorityAssumption DEF AuthorityTypeOK, RootTypeOK
<1>1. RootDone
  BY <1>t, VerifyStep
<1>2. /\ ctl.mode \in {"detached", "provisioned_not_active"} /\ Quiet
      /\ ctl' \in ControlRecord /\ ctl'.pc = "inspect" /\ ctl'.mode = ctl.mode
  BY LookAgainType DEF ControlInv
<1>3. AuthorityTypeOK'
  <2>1. gapTaken' \in BOOLEAN
    BY DEF AuthorityTypeOK
  <2> QED
    BY <1>1, <1>2, <2>1 DEF AuthorityTypeOK, RootDone, RootIInv, fileVars
<1>4. ControlInv'
  BY <1>2 DEF ControlInv, Quiet
<1>5. CASE comps' = comps
  <2>1. root'.epoch = root.epoch /\ Mine' = Mine
    BY <1>t, <1>5 DEF Verify, Refused, IntegrityLock, Locked, RootRecord, rootVars, Mine
  <2>2. gapTaken' = gapTaken
    BY <1>5, Zenon DEF AuthorityTypeOK
  <2>3. NothingNew
    BY <1>2, <1>5, <2>1, <2>2 DEF NothingNew, fileVars, Quiet
  <2> QED
    BY <1>1, <1>3, <1>4, <2>3, NothingNewKeeps DEF RootDone
<1>6. CASE comps' # comps
  <2>1. /\ Serving /\ Mine.bound /\ db.seq = Mine.floor + 1
        /\ comps' = [comps EXCEPT ![Gateway].floor = db.seq, ![Gateway].fence = TRUE]
        /\ root' = root
    BY <1>6 DEF Verify, Refused, IntegrityLock, rootVars, Mine
  <2>2. Mine'.bound /\ Mine'.floor = db.seq /\ Mine'.fence
    BY <1>t, <2>1 DEF Mine, ComponentRecord
  <2>3. UNCHANGED <<db, copy, sent, writer, waiting, out>>
    BY DEF fileVars
  <2> QED
    BY <1>1, <1>2, <1>3, <1>4, <2>1, <2>2, <2>3, FloorRises DEF RootDone
<1> QED
  BY <1>5, <1>6

LEMMA AcknowledgeManualStep == ASSUME AuthorityIInv, AcknowledgeManual PROVE AuthorityIInv' /\ RootDone
<1> USE DEF AcknowledgeManual, AuthorityIInv
<1>t. /\ db.seq \in Nat /\ root \in RootRecord /\ comps \in [Components -> ComponentRecord]
      /\ Gateway \in Components /\ Mine.floor \in Nat
  BY AuthorityTypes, AuthorityAssumption DEF AuthorityTypeOK, RootTypeOK
<1>1. RootDone
  BY <1>t, AcknowledgeStep, RootRefusedStep
<1>2. /\ ctl.mode \in {"detached", "provisioned_not_active"} /\ Quiet /\ db.manual
      /\ ctl' \in ControlRecord /\ ctl'.pc = "inspect" /\ ctl'.mode = ctl.mode
  BY LookAgainType DEF ControlInv
<1>3. AuthorityTypeOK'
  BY <1>1, <1>2 DEF AuthorityTypeOK, RootDone, RootIInv, fileVars
<1>4. ControlInv'
  BY <1>2 DEF ControlInv, Quiet
<1>5. CASE comps' = comps
  <2>1. root'.epoch = root.epoch /\ Mine' = Mine
    BY <1>t, <1>5 DEF Acknowledge, Refused, IntegrityLock, Locked, RootRecord, rootVars, Mine
  <2>2. NothingNew
    BY <1>2, <1>5, <2>1 DEF NothingNew, fileVars, Quiet
  <2> QED
    BY <1>1, <1>3, <1>4, <2>2, NothingNewKeeps DEF RootDone
<1>6. CASE comps' # comps
  <2>1. /\ Serving /\ Mine.floor = db.seq - 1
        /\ comps' = [comps EXCEPT ![Gateway].floor = db.seq - 1 + 1, ![Gateway].fence = FALSE]
        /\ root' = root
    BY <1>6 DEF Acknowledge, Refused, IntegrityLock, rootVars, Mine
  <2>2. Mine.bound
    BY <1>t, <2>1 DEF RootIInv, ServesWhole, AllBound, Mine
  <2>3. Mine'.bound /\ Mine'.floor = db.seq
    BY <1>t, <2>1, <2>2 DEF Mine, ComponentRecord
  <2>4. UNCHANGED <<db, copy, sent, writer, waiting, out>>
    BY DEF fileVars
  <2> QED
    BY <1>t, <1>1, <1>2, <1>3, <1>4, <2>1, <2>2, <2>3, <2>4, FloorRises DEF RootDone
<1> QED
  BY <1>5, <1>6

LEMMA EnterManualStep == ASSUME AuthorityIInv, EnterManual PROVE AuthorityIInv' /\ RootDone
<1> USE DEF EnterManual, AuthorityIInv
<1>t. /\ db \in FileRecord /\ db.seq \in Nat /\ db.rows \in [Claims -> Nat] /\ Mine.floor \in Nat
      /\ ctl \in ControlRecord
  BY AuthorityTypes DEF AuthorityTypeOK
<1>1. db' \in FileRecord /\ db'.seq = db.seq + 1 /\ db'.manual /\ db'.rows = db.rows
  <2>1. \A n \in Nat : [db EXCEPT !.seq = n, !.manual = TRUE] \in FileRecord
    BY <1>t DEF FileRecord
  <2>2. db' = [db EXCEPT !.seq = db.seq + 1, !.manual = TRUE]
    BY <1>t DEF FileRecord
  <2>3. db' \in FileRecord
    <3>1. db.seq + 1 \in Nat
      BY <1>t
    <3> QED
      BY <2>1, <2>2, <3>1, Zenon
  <2> QED
    BY <1>t, <2>2, <2>3 DEF FileRecord
<1>2. /\ ctl' \in ControlRecord /\ ctl'.pc = "acknowledge" /\ ctl'.mode = ctl.mode
  <2>1. ctl' \in ControlRecord
    BY <1>t, ControlRecords
  <2> QED
    BY <1>t, <2>1 DEF ControlRecord
<1>3. ctl.mode \in {"detached", "provisioned_not_active"} /\ Quiet
  BY DEF ControlInv
<1>4. Original => db.seq = Mine.floor /\ Mine.fence
  BY DEF ControlInv
<1>5. UNCHANGED <<root, comps, receipts, copy, writer, waiting, out, sent, gapTaken>>
  BY DEF rootVars
<1>6. AuthorityTypeOK' /\ ControlInv'
  <2>1. AuthorityTypeOK'
    BY <1>1, <1>2, <1>5 DEF AuthorityTypeOK, RootTypeOK
  <2>2. ControlInv'
    BY <1>1, <1>2, <1>3, <1>5 DEF ControlInv, Quiet
  <2> QED
    BY <2>1, <2>2
<1>7. Mine' = Mine /\ (Original' <=> Original)
  BY <1>5 DEF Mine, Original
<1>8. UnboundInv' /\ ServingInv' /\ WriterInv' /\ OutInv' /\ ReadyIsComplete' /\ SentOnce'
  BY <1>2, <1>3, <1>5, <1>7
  DEF UnboundInv, ServingInv, WriterInv, OutInv, ReadyIsComplete, SentOnce, Quiet
<1>9. FilesInv'
  <2>1. Whole(db)'
    BY <1>t, <1>1, <1>4, <1>5, <1>7 DEF FilesInv, Whole
  <2>2. copy # None => Whole(copy)'
    BY <1>5, <1>7 DEF FilesInv, Whole
  <2> QED
    BY <1>5, <1>7, <2>1, <2>2 DEF FilesInv
<1>10. GapInv'
  BY <1>1, <1>2, <1>3, <1>5, <1>7 DEF GapInv
<1>11. RootDone
  BY RootStill
<1> QED
  BY <1>6, <1>8, <1>9, <1>10, <1>11 DEF RootDone

LEMMA ProvisionStep == ASSUME AuthorityIInv, Provision PROVE AuthorityIInv' /\ RootDone
<1> USE DEF Provision, AuthorityIInv
<1>t. /\ db.seq \in Nat /\ root \in RootRecord /\ comps \in [Components -> ComponentRecord]
      /\ Gateway \in Components
  BY AuthorityTypes, AuthorityAssumption DEF AuthorityTypeOK, RootTypeOK
<1>1. RootDone
  BY <1>t, BindStep
<1>2. root.epoch = 1 /\ ~Mine.bound
  BY DEF RootIInv, RootAgrees
<1>3. /\ Quiet /\ copy = None /\ ~gapTaken /\ \A c \in Claims : sent[c] = 0
      /\ ctl.mode # "ready"
  BY <1>2 DEF UnboundInv
<1>4. UNCHANGED <<db, anchor, copy, ctl, writer, waiting, out, sent, gapTaken, rootFaults>>
  BY DEF fileVars, procVars
<1>5. root'.epoch = 1 /\ Mine'.bound
  <2>1. /\ comps' = [comps EXCEPT ![Gateway].bound = TRUE, ![Gateway].floor = 0]
        /\ root' = (IF AllBound(comps') /\ ~Reanchoring THEN Active(root) ELSE root)
    BY <1>2 DEF Bind, TakesBindings, Mine
  <2> QED
    BY <1>t, <1>2, <2>1 DEF Active, RootRecord, ComponentRecord, Mine
<1>6. AuthorityTypeOK'
  BY <1>1, <1>4 DEF AuthorityTypeOK, RootDone, RootIInv
<1>7. ControlInv' /\ UnboundInv' /\ ServingInv' /\ WriterInv' /\ OutInv' /\ GapInv'
  BY <1>3, <1>4, <1>5 DEF ControlInv, UnboundInv, ServingInv, WriterInv, OutInv, GapInv, Quiet
<1>8. ReadyIsComplete' /\ SentOnce'
  BY <1>4 DEF ReadyIsComplete, SentOnce
<1>9. FilesInv'
  BY <1>3, <1>4 DEF FilesInv, Whole
<1> QED
  BY <1>1, <1>6, <1>7, <1>8, <1>9 DEF RootDone

LEMMA BeginWriteStep ==
  ASSUME AuthorityIInv, NEW c \in Claims, BeginWrite(c)
  PROVE  AuthorityIInv' /\ RootDone
<1> USE DEF BeginWrite, AuthorityIInv
<1>t. /\ sent \in [Claims -> Nat] /\ waiting \subseteq Claims /\ writer.pc = "idle"
      /\ ctl.mode = "ready" /\ db.rows[c] = 0
  BY DEF AuthorityTypeOK, LockIsFree
<1>1. writer' \in WriterRecord /\ writer'.pc = "anchored" /\ writer'.claim = c
  <2>1. writer' \in WriterRecord
    BY NewRecords
  <2> QED
    BY <2>1 DEF NoWriter, WriterRecord
<1>2. UNCHANGED <<root, comps, receipts, db, copy, ctl, waiting, out, sent, gapTaken, rootFaults>>
  BY DEF rootVars
<1>3. AuthorityTypeOK'
  <2>1. anchor' \in [id: {1}, seq: Nat]
    BY DEF AuthorityTypeOK
  <2> QED
    BY <1>1, <1>2, <2>1 DEF AuthorityTypeOK, RootTypeOK
<1>4. sent[c] = 0
  BY <1>t DEF ReadyIsComplete
<1>5. c \notin waiting /\ (out.pc # "idle" => out.claim # c)
  BY <1>t DEF OutInv, Recorded
<1>6. Mine' = Mine /\ (Original' <=> Original) /\ \A n : Older(n)' <=> Older(n)
  BY <1>2 DEF Mine, Original, Older
<1>7. ControlInv' /\ UnboundInv' /\ ServingInv' /\ GapInv'
  BY <1>t, <1>2, <1>6 DEF ControlInv, UnboundInv, ServingInv, GapInv, Quiet, Original, Older
<1>8. WriterInv'
  BY <1>1, <1>2, <1>4, <1>5, <1>t DEF WriterInv
<1>9. FilesInv' /\ OutInv' /\ ReadyIsComplete' /\ SentOnce'
  BY <1>2, <1>6 DEF FilesInv, Whole, OutInv, Recorded, Older, ReadyIsComplete, SentOnce
<1>10. RootDone
  BY RootStill
<1> QED
  BY <1>3, <1>7, <1>8, <1>9, <1>10 DEF RootDone

LEMMA CommitWriteStep == ASSUME AuthorityIInv, CommitWrite PROVE AuthorityIInv' /\ RootDone
<1> USE DEF CommitWrite, AuthorityIInv
<1> DEFINE c == writer.claim
<1>t. /\ db \in FileRecord /\ db.seq \in Nat /\ db.rows \in [Claims -> Nat] /\ Mine.floor \in Nat
      /\ sent \in [Claims -> Nat] /\ waiting \subseteq Claims
      /\ writer \in WriterRecord
  BY AuthorityTypes DEF AuthorityTypeOK
<1>c. /\ c \in Claims /\ sent[c] = 0 /\ c \notin waiting /\ db.rows[c] = 0
      /\ out.pc # "idle" => out.claim # c
  BY DEF WriterInv
<1>1. /\ db' \in FileRecord /\ db'.seq = db.seq + 1 /\ db'.rows \in [Claims -> Nat]
      /\ db'.manual = db.manual
      /\ \A d \in Claims : db'.rows[d] = IF d = c THEN db.seq + 1 ELSE db.rows[d]
  <2> DEFINE new == [db.rows EXCEPT ![c] = db.seq + 1]
  <2>1. /\ new \in [Claims -> Nat]
        /\ \A d \in Claims : new[d] = IF d = c THEN db.seq + 1 ELSE db.rows[d]
    BY <1>t, <1>c
  <2>2. db' = [db EXCEPT !.seq = db.seq + 1, !.rows = new]
    BY <1>t DEF FileRecord
  <2> HIDE DEF new
  <2>3. \A n \in Nat : [db EXCEPT !.seq = n, !.rows = new] \in FileRecord
    BY <1>t, <2>1 DEF FileRecord
  <2>4. db.seq + 1 \in Nat
    BY <1>t
  <2>5. db' \in FileRecord
    BY <2>2, <2>3, <2>4, Zenon
  <2>6. db'.seq = db.seq + 1 /\ db'.rows = new /\ db'.manual = db.manual
    BY <1>t, <2>2 DEF FileRecord
  <2> QED
    BY <2>1, <2>5, <2>6
<1>2. writer' \in WriterRecord /\ writer'.pc = "committed" /\ writer'.claim = c
  <2>1. writer' \in WriterRecord
    BY <1>t, WriterRecords
  <2> QED
    BY <1>t, <2>1 DEF WriterRecord
<1>3. UNCHANGED <<root, comps, receipts, copy, ctl, waiting, out, sent, gapTaken, rootFaults>>
  BY DEF rootVars
<1>4. AuthorityTypeOK'
  BY <1>1, <1>2, <1>3 DEF AuthorityTypeOK, RootTypeOK
<1>5. Mine' = Mine /\ (Original' <=> Original) /\ \A n : Older(n)' <=> Older(n)
  BY <1>3 DEF Mine, Original, Older
<1>6. ~Quiet /\ ~gapTaken
  BY DEF Quiet, GapInv
<1> HIDE DEF c
<1>7. ControlInv' /\ UnboundInv' /\ GapInv'
  <2>1. ctl.mode \in {"ready", "fused"} /\ ctl.pc = "running"
    BY <1>6 DEF ControlInv
  <2>2. ~(root.epoch = 1 /\ ~Mine.bound)
    BY <1>6 DEF UnboundInv
  <2> QED
    BY <1>3, <1>5, <1>6, <2>1, <2>2 DEF ControlInv, UnboundInv, GapInv
<1>8. Older(db.seq + 1) /\ (Original => db.seq >= Mine.floor)
  BY DEF ServingInv
<1>9. ServingInv'
  <2>1. Older(db.seq + 1 + 1)
    BY <1>t, <1>8, AuthorityTypes DEF Older
  <2>2. Older(db.seq + 1)'
    BY <1>1, <1>3, <2>1 DEF Older
  <2>3. Original' => db'.seq >= Mine'.floor
    BY <1>t, <1>1, <1>5, <1>8
  <2> QED
    BY <2>2, <2>3 DEF ServingInv
<1>10. WriterInv'
  <2>1. db'.rows[c] = db'.seq /\ db'.seq > 0
    BY <1>t, <1>c, <1>1
  <2>2. copy' # None => copy'.seq < db'.seq
    BY <1>1, <1>3, <1>8 DEF Older
  <2> QED
    BY <1>2, <1>3, <1>c, <2>1, <2>2 DEF WriterInv, Older
<1>11. OutInv'
  <2>1. \A d \in Claims \ {c} : Recorded(d) => Recorded(d)'
    BY <1>1, <1>3, <1>5 DEF Recorded, Older
  <2>2. \A d \in waiting' : Recorded(d)'
    BY <1>c, <1>t, <1>3, <2>1 DEF OutInv
  <2>3. ASSUME out.pc # "idle" PROVE (out.claim \in Claims \ waiting /\ Recorded(out.claim))'
    <3>1. PICK d \in Claims \ {c} : d = out.claim /\ Recorded(d) /\ d \notin waiting
      BY <1>c, <2>3 DEF OutInv
    <3>2. Recorded(d)'
      BY <2>1, <3>1
    <3> QED
      BY <1>3, <3>1, <3>2 DEF Recorded
  <2> QED
    BY <1>3, <2>2, <2>3 DEF OutInv
<1>12. FilesInv'
  <2>1. Whole(db)'
    BY <1>t, <1>c, <1>1, <1>3, <1>5, <1>8 DEF FilesInv, Whole
  <2>2. copy # None => Whole(copy)'
    BY <1>3, <1>5 DEF FilesInv, Whole
  <2> QED
    BY <1>3, <1>5, <2>1, <2>2 DEF FilesInv
<1>13. ReadyIsComplete' /\ SentOnce'
  BY <1>t, <1>1, <1>3 DEF ReadyIsComplete, SentOnce
<1>14. RootDone
  BY RootStill
<1> QED
  BY <1>4, <1>7, <1>9, <1>10, <1>11, <1>12, <1>13, <1>14 DEF RootDone

\* The compare-and-swap is applied or not, and its answer arrives or not.
LEMMA HookCasStep == ASSUME AuthorityIInv, HookCas PROVE AuthorityIInv' /\ RootDone
<1> USE DEF HookCas, AuthorityIInv
<1>t. /\ db.seq \in Nat /\ root \in RootRecord /\ comps \in [Components -> ComponentRecord]
      /\ Gateway \in Components /\ Mine.floor \in Nat
      /\ writer \in WriterRecord /\ ctl \in ControlRecord /\ out \in AskRecord
      /\ writer.claim \in Claims
  BY AuthorityTypes, AuthorityAssumption DEF AuthorityTypeOK, RootTypeOK, WriterInv
<1>1. RootDone
  BY <1>t, AdvanceStep, RootRefusedStep
<1>2. ~gapTaken
  BY DEF GapInv
<1>3. /\ root'.epoch = root.epoch
      /\ \/ Mine' = Mine /\ comps' = comps
         \/ Mine'.bound = Mine.bound /\ Mine.floor <= db.seq /\ Mine'.floor = db.seq
            /\ Mine'.fence = Mine.fence
  <2>1. CASE comps' = comps
    BY <1>t, <2>1 DEF Advance, Refused, IntegrityLock, Locked, RootRecord, rootVars, Mine
  <2>2. CASE comps' # comps
    <3>1. /\ comps' = [comps EXCEPT ![Gateway].floor = db.seq] /\ Mine.floor = db.seq - 1
          /\ root' = root
      BY <2>2 DEF Advance, Refused, IntegrityLock, rootVars, Mine
    <3> QED
      BY <1>t, <3>1 DEF Mine, ComponentRecord
  <2> QED
    BY <2>1, <2>2
<1>4. /\ ctl' \in ControlRecord /\ writer' \in WriterRecord /\ out' \in AskRecord
      /\ waiting' \subseteq Claims
      /\ ctl'.pc = ctl.pc /\ (ctl'.mode = ctl.mode \/ ctl'.mode = "fused")
      /\ out'.pc = out.pc /\ out'.claim = out.claim
      /\ \/ writer'.pc = "idle"
         \/ writer'.pc = "snapshot" /\ writer'.claim = writer.claim
      /\ \/ waiting' = waiting
         \/ /\ waiting' = waiting \cup {writer.claim} /\ comps' # comps
            /\ writer'.pc = "idle" /\ ctl.mode = "ready"
  <2>1. \/ /\ ctl' = [Fused(ctl) EXCEPT !.pending = TRUE] /\ writer' = NoWriter
           /\ out' = Moved(out) /\ UNCHANGED waiting
        \/ /\ ctl' = [ctl EXCEPT !.proof = db.seq] /\ writer' = NoWriter /\ comps' # comps
           /\ out' = Moved(out) /\ waiting' = waiting \cup {writer.claim} /\ ctl.mode = "ready"
        \/ /\ writer' = [writer EXCEPT !.pc = "snapshot", !.fresh = FALSE]
           /\ UNCHANGED <<ctl, waiting, out>>
    BY DEF HookConfirms, HookFails
  <2>2. ctl' \in ControlRecord /\ ctl'.pc = ctl.pc /\ (ctl'.mode = ctl.mode \/ ctl'.mode = "fused")
    <3>1. ctl' \in ControlRecord
      <4>1. [Fused(ctl) EXCEPT !.pending = TRUE] \in ControlRecord
        BY <1>t, ControlRecords DEF Fused
      <4>2. [ctl EXCEPT !.proof = db.seq] \in ControlRecord
        BY <1>t, ControlRecords
      <4> QED
        BY <1>t, <2>1, <4>1, <4>2
    <3>2. ctl'.pc = ctl.pc /\ (ctl'.mode = ctl.mode \/ ctl'.mode = "fused")
      BY <1>t, <2>1 DEF Fused, ControlRecord
    <3> QED
      BY <3>1, <3>2
  <2>3. out' \in AskRecord /\ out'.pc = out.pc /\ out'.claim = out.claim
    <3>1. out' \in AskRecord
      BY <1>t, <2>1, AskRecords DEF Moved
    <3> QED
      BY <1>t, <2>1, <3>1 DEF Moved, AskRecord
  <2>4. /\ writer' \in WriterRecord
        /\ \/ writer' = NoWriter /\ writer'.pc = "idle"
           \/ writer'.pc = "snapshot" /\ writer'.claim = writer.claim
    <3>1. writer' \in WriterRecord
      BY <1>t, <2>1, WriterRecords, NewRecords
    <3>2. NoWriter.pc = "idle"
      BY DEF NoWriter
    <3>3. LET w == [writer EXCEPT !.pc = "snapshot", !.fresh = FALSE] IN
            w.pc = "snapshot" /\ w.claim = writer.claim
      BY <1>t DEF WriterRecord
    <3> QED
      BY <2>1, <3>1, <3>2, <3>3
  <2>5. waiting' \subseteq Claims
    BY <1>t, <2>1 DEF AuthorityTypeOK
  <2>6. \/ waiting' = waiting
        \/ /\ waiting' = waiting \cup {writer.claim} /\ comps' # comps
           /\ writer'.pc = "idle" /\ ctl.mode = "ready"
    BY <2>1 DEF NoWriter
  <2> QED
    BY <2>2, <2>3, <2>4, <2>5, <2>6
<1>5. AuthorityTypeOK'
  BY <1>1, <1>4 DEF AuthorityTypeOK, RootDone, RootIInv, fileVars
<1>6. ControlInv'
  <2>1. ~Quiet
    BY DEF Quiet
  <2>2. ctl.mode \in {"ready", "fused"} /\ ctl.pc = "running"
    BY <2>1 DEF ControlInv
  <2> QED
    BY <1>4, <2>2 DEF ControlInv
<1>7. Original' => Mine'.floor >= Mine.floor /\ (comps' # comps => db.seq <= Mine'.floor)
  BY <1>t, <1>3
<1>8. NothingNew
  <2>1. UNCHANGED <<db, copy, sent, gapTaken>>
    BY DEF fileVars
  <2>2. ctl'.mode = "ready" => ctl.mode = "ready"
    BY <1>4
  <2>3. /\ Mine'.bound = Mine.bound
        /\ \/ Mine' = Mine
           \/ ~gapTaken /\ Mine.floor <= db.seq /\ Mine'.floor = db.seq
    BY <1>2, <1>3
  <2>4. \/ writer'.pc = "idle"
        \/ /\ writer.pc # "idle" /\ writer'.claim = writer.claim
           /\ writer.pc = "anchored" <=> writer'.pc = "anchored"
    BY <1>4
  <2>5. \/ waiting' \subseteq waiting
        \/ /\ writer.pc \notin {"idle", "anchored"} /\ writer'.pc = "idle"
           /\ waiting' = waiting \cup {writer.claim}
           /\ Original' => db.seq <= Mine'.floor
           /\ ctl.mode = "ready"
    BY <1>4, <1>7
  <2> QED
    BY <1>3, <1>4, <2>1, <2>2, <2>3, <2>4, <2>5 DEF NothingNew
<1> QED
  BY <1>1, <1>5, <1>6, <1>8, NothingNewKeeps DEF RootDone

LEMMA AskOutboundStep ==
  ASSUME AuthorityIInv, NEW c \in Claims, AskOutbound(c)
  PROVE  AuthorityIInv' /\ RootDone
<1> USE DEF AskOutbound, AuthorityIInv
<1>1. out' \in AskRecord /\ out'.pc = "sample" /\ out'.claim = c
  <2>1. out' \in AskRecord
    BY NewRecords
  <2> QED
    BY <2>1 DEF NoOut, AskRecord
<1>2. UNCHANGED <<root, comps, receipts, db, anchor, copy, ctl, writer, sent, gapTaken, rootFaults>>
  BY DEF rootVars, fileVars
<1>3. c \in waiting /\ waiting' = waiting \ {c} /\ out.pc = "idle" /\ Recorded(c)
  BY DEF OutInv
<1>4. AuthorityTypeOK'
  BY <1>1, <1>2, <1>3 DEF AuthorityTypeOK, RootTypeOK
<1>5. Mine' = Mine /\ (Original' <=> Original) /\ \A n : Older(n)' <=> Older(n)
  BY <1>2 DEF Mine, Original, Older
<1>6. ControlInv' /\ UnboundInv'
  <2>1. ~Quiet
    BY <1>3 DEF Quiet
  <2>2. ctl.mode \in {"ready", "fused"} /\ ctl.pc = "running" /\ ~(root.epoch = 1 /\ ~Mine.bound)
    BY <2>1 DEF ControlInv, UnboundInv
  <2> QED
    BY <1>2, <1>5, <2>2 DEF ControlInv, UnboundInv
<1>7. WriterInv'
  <2>1. writer.pc # "idle" => writer.claim # c
    BY <1>3 DEF WriterInv
  <2> QED
    BY <1>1, <1>2, <1>3, <1>5, <2>1 DEF WriterInv, Older
<1>8. OutInv'
  <2>1. \A d \in waiting' : Recorded(d)'
    BY <1>2, <1>3, <1>5 DEF OutInv, Recorded, Older
  <2>2. out'.claim \in Claims \ waiting'
    BY <1>1, <1>3
  <2>3. Recorded(out.claim)'
    BY <1>1, <1>2, <1>3, <1>5 DEF Recorded, Older
  <2> QED
    BY <2>1, <2>2, <2>3 DEF OutInv
<1>9. FilesInv' /\ ServingInv' /\ ReadyIsComplete' /\ SentOnce' /\ GapInv'
  BY <1>2, <1>5 DEF FilesInv, Whole, ServingInv, Older, ReadyIsComplete, SentOnce, GapInv
<1>10. RootDone
  BY RootStill
<1> QED
  BY <1>4, <1>6, <1>7, <1>8, <1>9, <1>10 DEF RootDone

\* The request goes outbound: nothing else is at hand for this purchase, and a
\* copy that lacks it is behind the root.
LEMMA SendStep == ASSUME AuthorityIInv, Send PROVE AuthorityIInv' /\ RootDone
<1> USE DEF Send, AuthorityIInv
<1> DEFINE c == out.claim
<1>t. /\ sent \in [Claims -> Nat] /\ db.rows \in [Claims -> Nat] /\ db.seq \in Nat
      /\ Mine.floor \in Nat
  BY AuthorityTypes DEF AuthorityTypeOK
<1>u. copy # None => copy.seq \in Nat /\ copy.rows \in [Claims -> Nat]
  BY AuthorityTypes
<1>c. /\ c \in Claims \ waiting /\ Recorded(c) /\ sent[c] = 0
      /\ writer.pc # "idle" => writer.claim # c
  BY DEF OutInv, Recorded, WriterInv
<1>1. out' \in AskRecord /\ out'.pc = "idle"
  BY NewRecords DEF NoOut
<1>2. UNCHANGED <<root, comps, receipts, db, anchor, copy, ctl, writer, waiting, gapTaken, rootFaults>>
  BY DEF rootVars, fileVars
<1> HIDE DEF c
<1>3. sent' \in [Claims -> Nat] /\ \A d \in Claims : sent'[d] = IF d = c THEN 1 ELSE sent[d]
  BY <1>t, <1>c DEF c
<1>4. AuthorityTypeOK'
  BY <1>1, <1>2, <1>3 DEF AuthorityTypeOK, RootTypeOK
<1>5. Mine' = Mine /\ (Original' <=> Original) /\ \A n : Older(n)' <=> Older(n)
  BY <1>2 DEF Mine, Original, Older
<1>6. ControlInv' /\ UnboundInv' /\ ServingInv' /\ GapInv'
  <2>1. ~Quiet
    BY DEF Quiet
  <2>2. ctl.mode \in {"ready", "fused"} /\ ctl.pc = "running" /\ ~(root.epoch = 1 /\ ~Mine.bound)
    BY <2>1 DEF ControlInv, UnboundInv
  <2> QED
    BY <1>2, <1>5, <2>2 DEF ControlInv, UnboundInv, ServingInv, Older, GapInv
<1>7. WriterInv'
  BY <1>1, <1>2, <1>3, <1>c, <1>5 DEF WriterInv, Older
<1>8. OutInv'
  <2>1. \A d \in waiting' : d \in Claims /\ d # c
    BY <1>c, <1>2 DEF AuthorityTypeOK
  <2>2. \A d \in waiting' : Recorded(d)'
    BY <1>2, <1>3, <1>5, <2>1 DEF OutInv, Recorded, Older
  <2> QED
    BY <1>1, <2>2 DEF OutInv
<1>9. FilesInv'
  <2>1. Whole(db)'
    BY <1>t, <1>c, <1>2, <1>3, <1>5 DEF FilesInv, Whole, Recorded
  <2>2. ASSUME copy # None PROVE Whole(copy)'
    <3>1. Original => copy.seq < Mine.floor
      BY <1>t, <1>u, <1>c, <2>2 DEF Recorded, Older
    <3> QED
      BY <1>t, <1>u, <1>2, <1>5, <2>2, <3>1 DEF FilesInv, Whole
  <2> QED
    BY <1>2, <1>5, <2>1, <2>2 DEF FilesInv
<1>10. ReadyIsComplete' /\ SentOnce'
  BY <1>c, <1>2, <1>3 DEF ReadyIsComplete, SentOnce, Recorded
<1>11. RootDone
  BY RootStill
<1> QED
  BY <1>4, <1>6, <1>7, <1>8, <1>9, <1>10, <1>11 DEF RootDone

LEMMA CopyFilesStep == ASSUME AuthorityIInv, CopyFiles PROVE AuthorityIInv' /\ RootDone
<1> USE DEF CopyFiles, AuthorityIInv
<1>t. db \in FileRecord /\ db.seq \in Nat /\ Mine.floor \in Nat
  BY AuthorityTypes
<1>1. UNCHANGED <<root, comps, receipts, db, anchor, ctl, writer, waiting, out, sent, gapTaken,
                  rootFaults>> /\ copy' = db
  BY DEF rootVars, procVars
<1>2. Mine' = Mine /\ (Original' <=> Original)
  BY <1>1 DEF Mine, Original
<1>3. Quiet /\ ctl.mode \in {"detached", "provisioned_not_active"}
  BY DEF ControlInv
<1>4. AuthorityTypeOK'
  BY <1>t, <1>1 DEF AuthorityTypeOK, RootTypeOK
<1>5. ControlInv' /\ UnboundInv' /\ ServingInv' /\ WriterInv' /\ OutInv' /\ ReadyIsComplete' /\ SentOnce'
  BY <1>1, <1>2, <1>3
  DEF ControlInv, UnboundInv, ServingInv, WriterInv, OutInv, ReadyIsComplete, SentOnce, Quiet
<1>6. FilesInv'
  BY <1>t, <1>1, <1>2 DEF FilesInv, Whole
<1>7. GapInv'
  BY <1>1, <1>2 DEF GapInv
<1>8. RootDone
  BY <1>1, RootStill DEF rootVars
<1> QED
  BY <1>4, <1>5, <1>6, <1>7, <1>8 DEF RootDone

\* What is put back was copied: it is behind the root, or it is what the root knows.
LEMMA RestoreFilesStep == ASSUME AuthorityIInv, RestoreFiles PROVE AuthorityIInv' /\ RootDone
<1> USE DEF RestoreFiles, AuthorityIInv
<1>t. /\ copy \in FileRecord /\ copy.id = 1 /\ copy.seq \in Nat
      /\ rootFaults' \in Nat
  BY AuthorityAssumption DEF AuthorityTypeOK, FileRecord, Harmed
<1>1. /\ UNCHANGED <<root, comps, receipts, copy, ctl, writer, waiting, out, sent, gapTaken>>
      /\ db' \in {db, copy}
  BY DEF rootVars, procVars
<1>2. Mine' = Mine /\ (Original' <=> Original)
  BY <1>1 DEF Mine, Original
<1>3. Quiet /\ ctl.mode \in {"detached", "provisioned_not_active"} /\ ctl.pc = "down"
  BY DEF ControlInv
<1>4. AuthorityTypeOK'
  <2>1. anchor' \in [id: {1}, seq: Nat]
    BY <1>t DEF AuthorityTypeOK
  <2> QED
    BY <1>t, <1>1, <2>1 DEF AuthorityTypeOK, RootTypeOK
<1>5. ControlInv' /\ UnboundInv' /\ ServingInv' /\ WriterInv' /\ OutInv' /\ ReadyIsComplete' /\ SentOnce'
  BY <1>1, <1>2, <1>3
  DEF ControlInv, UnboundInv, ServingInv, WriterInv, OutInv, ReadyIsComplete, SentOnce, Quiet
<1>6. FilesInv'
  <2>1. Whole(db)' /\ Whole(copy)'
    BY <1>1, <1>2 DEF FilesInv, Whole
  <2> QED
    BY <1>1, <1>2, <2>1 DEF FilesInv
<1>7. GapInv'
  <2>1. Mine.floor \in Nat
    BY AuthorityTypes
  <2> QED
    BY <1>t, <1>1, <1>2, <2>1 DEF GapInv
<1>8. RootDone
  BY <1>1, RootStill DEF rootVars
<1> QED
  BY <1>4, <1>5, <1>6, <1>7, <1>8 DEF RootDone

LEMMA ElsewhereStep == ASSUME AuthorityIInv, Elsewhere PROVE AuthorityIInv' /\ RootDone
<1> USE DEF Elsewhere, AuthorityIInv
<1>1. RootDone /\ (root'.epoch = 1 => root.epoch = 1 /\ Mine' = Mine)
  BY OthersOfRoot
<1>2. UNCHANGED <<db, anchor, copy, waiting, out, sent, gapTaken, rootFaults>>
  BY DEF fileVars
<1>3. /\ ctl' \in ControlRecord /\ ctl'.pc = ctl.pc /\ ctl'.mode = ctl.mode
      /\ writer' \in WriterRecord /\ writer'.pc = writer.pc /\ writer'.claim = writer.claim
  <2>1. ctl \in ControlRecord /\ writer \in WriterRecord
    BY DEF AuthorityTypeOK
  <2>2. ctl' \in {ctl, [ctl EXCEPT !.fresh = FALSE]} /\ writer' \in {writer, [writer EXCEPT !.fresh = FALSE]}
    BY DEF Overtaken
  <2>3. ctl' \in ControlRecord /\ writer' \in WriterRecord
    BY <2>1, <2>2, ControlRecords, WriterRecords
  <2> QED
    BY <2>1, <2>2, <2>3 DEF ControlRecord, WriterRecord
<1>4. AuthorityTypeOK'
  BY <1>1, <1>2, <1>3 DEF AuthorityTypeOK, RootDone, RootIInv
<1>5. ControlInv'
  BY <1>1, <1>2, <1>3 DEF ControlInv, Quiet, Original
<1>6. NothingNew
  BY <1>1, <1>2, <1>3 DEF NothingNew
<1> QED
  BY <1>1, <1>4, <1>5, <1>6, NothingNewKeeps DEF RootDone

-----------------------------------------------------------------------------
LEMMA AuthorityStart == AuthorityInit => AuthorityIInv
<1> SUFFICES ASSUME AuthorityInit PROVE AuthorityIInv
  OBVIOUS
<1> USE DEF AuthorityInit
<1>g. Gateway \in Components /\ Gateway # Addition /\ MaxEpoch \in Nat \ {0} /\ 1 \in 1..MaxEpoch
  BY AuthorityAssumption
<1>1. /\ root \in RootRecord /\ root.epoch = 1 /\ receipts = {} /\ ~Serving /\ ~Reanchoring
      /\ \/ root.status = "provisioning" /\ root.kind = "none"
         \/ root.status = "maintenance_locked" /\ root.kind = "component_addition"
      /\ comps \in [Components -> ComponentRecord] /\ \A c \in Components : comps[c].epoch = 1
  <2>1. /\ root \in RootRecord /\ root.epoch = 1 /\ receipts = {} /\ ~Serving /\ ~Reanchoring
        /\ \/ root.status = "provisioning" /\ root.kind = "none"
           \/ root.status = "maintenance_locked" /\ root.kind = "component_addition"
    BY <1>g DEF RootInit, RootRecord, Serving, Reanchoring
  <2>2. Unbound(1) \in ComponentRecord /\ Unbound(1).epoch = 1
    BY <1>g DEF Unbound, ComponentRecord
  <2>3. \A b \in BOOLEAN : LET u == [Unbound(1) EXCEPT !.bound = b] IN
          u \in ComponentRecord /\ u.epoch = 1
    BY <1>g DEF Unbound, ComponentRecord
  <2>4. \/ comps = [c \in Components |-> Unbound(1)]
        \/ comps = [c \in Components |-> [Unbound(1) EXCEPT !.bound = c # Addition]]
    BY DEF RootInit
  <2>5. \A c \in Components : (c # Addition) \in BOOLEAN
    OBVIOUS
  <2>6. comps \in [Components -> ComponentRecord] /\ \A c \in Components : comps[c].epoch = 1
    BY <2>2, <2>3, <2>4, <2>5, Zenon
  <2> QED
    BY <2>1, <2>6
<1>2. RootIInv
  BY <1>1 DEF RootIInv, RootTypeOK, ServesWhole, RootAgrees, ReceiptsFit
<1>3. db \in FileRecord /\ db.seq = 0 /\ ~db.manual /\ \A c \in Claims : db.rows[c] = 0
  BY DEF FileRecord
<1>4. AuthorityTypeOK
  <2>1. anchor \in [id: {1}, seq: Nat] /\ sent \in [Claims -> Nat]
    OBVIOUS
  <2> QED
    BY <1>2, <1>3, <2>1, NewRecords DEF AuthorityTypeOK, RootIInv
<1>5. /\ ctl.pc = "down" /\ ctl.mode = "detached" /\ writer.pc = "idle" /\ out.pc = "idle"
      /\ waiting = {} /\ copy = None /\ gapTaken = FALSE /\ \A c \in Claims : sent[c] = 0
  BY DEF Down, NoWriter, NoOut
<1>6. ControlInv /\ UnboundInv /\ ServingInv /\ WriterInv /\ OutInv /\ ReadyIsComplete /\ SentOnce /\ GapInv
  BY <1>5 DEF ControlInv, UnboundInv, ServingInv, WriterInv, OutInv, ReadyIsComplete, SentOnce, GapInv, Quiet
<1>7. FilesInv
  BY <1>3, <1>5 DEF FilesInv, Whole
<1> QED
  BY <1>2, <1>4, <1>6, <1>7 DEF AuthorityIInv

LEMMA AuthorityStep == AuthorityIInv /\ [AuthorityNext]_gaVars => AuthorityIInv' /\ RootDone
<1> SUFFICES ASSUME AuthorityIInv, [AuthorityNext]_gaVars PROVE AuthorityIInv' /\ RootDone
  OBVIOUS
<1>1. CASE Startup
  BY <1>1, ProvisionStep, OpenStep, InspectStep, RefreshStep, TakeOverStep, FenceAnchorStep,
     EnterManualStep, AcknowledgeManualStep DEF Startup
<1>2. CASE Write
  BY <1>2, BeginWriteStep, CommitWriteStep, FailWriteStep, EnterHookStep, HookSnapshotStep,
     HookUnreadableStep, HookCasStep DEF Write
<1>3. CASE Outbound
  BY <1>3, AskOutboundStep, AsksStep, SendStep DEF Outbound
<1>4. CASE ProcessDies \/ CopyFiles \/ RestoreFiles \/ Elsewhere
  BY <1>4, ProcessDiesStep, CopyFilesStep, RestoreFilesStep, ElsewhereStep
<1>5. CASE UNCHANGED gaVars
  <2>1. UNCHANGED <<rootVars, db, copy, sent, gapTaken>> /\ AuthorityTypeOK' /\ ControlInv'
    BY <1>5 DEF gaVars, fileVars, procVars, rootVars, AuthorityIInv, AuthorityTypeOK, RootTypeOK, ControlInv,
                Quiet, Original, Mine
  <2> QED
    BY <1>5, <2>1, AloneKeeps DEF gaVars, procVars
<1> QED
  BY <1>1, <1>2, <1>3, <1>4, <1>5 DEF AuthorityNext

LEMMA AuthorityAlways == AuthoritySpec => []AuthorityIInv
BY AuthorityStart, AuthorityStep, PTL DEF AuthoritySpec

\* assert_outbound_ready, the commit hook and the start-up of the controller let a
\* purchase out at most once, with its record confirmed by the root, whenever the
\* process dies and whichever copy of the files is put back; a ledger that lost a
\* record or whose last mutation was taken over does not serve.
THEOREM OutboundCorrect == AuthoritySpec => [](AuthorityTypeOK /\ OutboundOnce)
<1>1. AuthorityIInv => AuthorityTypeOK /\ OutboundOnce
  <2> SUFFICES ASSUME AuthorityIInv PROVE AuthorityTypeOK /\ OutboundOnce
    OBVIOUS
  <2> USE DEF AuthorityIInv
  <2>1. SentIsConfirmed
    <3> SUFFICES ASSUME NEW c \in Claims, sent[c] > 0, db.rows[c] > 0, db.id = root.epoch, Mine.bound
                 PROVE  db.rows[c] <= Mine.floor
      BY DEF SentIsConfirmed
    <3>1. Original /\ db.seq \in Nat /\ db.rows[c] \in Nat /\ Mine.floor \in Nat
      BY AuthorityTypes DEF Original
    <3> QED
      BY <3>1 DEF FilesInv, Whole
  <2>2. GapNeverServes
    BY DEF GapNeverServes, GapInv
  <2> QED
    BY <2>1, <2>2 DEF OutboundOnce
<1> QED
  BY <1>1, AuthorityAlways, PTL

\* The operations of the installation root, called by this ledger, the other
\* components and operators in any order, let only a whole epoch with its receipt
\* serve and take back no epoch, floor, retirement or pending re-anchoring.
THEOREM RootCorrect == AuthoritySpec => RootIsKept
<1>1. AuthorityIInv /\ [AuthorityNext]_gaVars => [ServesWhole' /\ EpochsHaveReceipts' /\ RootStep]_rootVars
  <2> SUFFICES ASSUME AuthorityIInv, [AuthorityNext]_gaVars
               PROVE  ServesWhole' /\ EpochsHaveReceipts' /\ RootStep
    OBVIOUS
  <2>1. AuthorityIInv' /\ RootStep
    BY AuthorityStep DEF RootDone
  <2>2. EpochsHaveReceipts'
    BY <2>1 DEF AuthorityIInv, RootIInv, EpochsHaveReceipts, ReceiptsFit, RootAgrees, Serving, RootTypeOK, RootRecord
  <2> QED
    BY <2>1, <2>2 DEF AuthorityIInv, RootIInv
<1> QED
  BY <1>1, AuthorityAlways, PTL DEF AuthoritySpec, RootIsKept

(***************************************************************************)
(* The ledger of provider calls, for any calls, prices and payments.  A    *)
(* sum of amounts is the number of their units, so that what a step does   *)
(* to a sum is a fact about the cardinality of a set.                      *)
(***************************************************************************)

(* Sums. *)

\* The units of one element are as many as it weighs, and finite.
LEMMA OneElement ==
  ASSUME NEW x, NEW n \in Nat
  PROVE  /\ IsFiniteSet({x} \X (1..n))
         /\ Cardinality({x} \X (1..n)) = n
<1>1. IsFiniteSet({x}) /\ Cardinality({x}) = 1
  BY FS_Singleton
<1>2. IsFiniteSet(1..n) /\ Cardinality(1..n) = n
  BY FS_Interval
<1> DEFINE X == {x}
           I == 1..n
<1>3. IsFiniteSet(X \X I) /\ Cardinality(X \X I) = Cardinality(X) * Cardinality(I)
  <2> HIDE DEF X, I
  <2> QED
    BY <1>1, <1>2, FS_Product DEF X, I
<1> QED
  BY <1>1, <1>2, <1>3

\* Units of a new element are added to those there were.
LEMMA AddUnits ==
  ASSUME NEW R, IsFiniteSet(R), NEW x, NEW n \in Nat,
         \A u \in R : u[1] # x
  PROVE  /\ IsFiniteSet(R \cup ({x} \X (1..n)))
         /\ Cardinality(R \cup ({x} \X (1..n))) = Cardinality(R) + n
         /\ Cardinality(R) \in Nat
<1> DEFINE P == {x} \X (1..n)
<1>1. IsFiniteSet(P) /\ Cardinality(P) = n
  BY OneElement
<1>2. R \cap P = {}
  OBVIOUS
<1>3. Cardinality(R) \in Nat
  BY FS_CardinalityType
<1>4. Cardinality(R \cap P) = 0
  BY <1>2, FS_EmptySet
<1>5. IsFiniteSet(R \cup P)
      /\ Cardinality(R \cup P) = Cardinality(R) + Cardinality(P) - Cardinality(R \cap P)
  <2> HIDE DEF P
  <2> QED
    BY <1>1, FS_Union
<1> QED
  BY <1>1, <1>3, <1>4, <1>5

\* A unit belongs to an element and is counted within its weight.
LEMMA UnitOf ==
  ASSUME NEW w, NEW u
  PROVE  u \in Units(w) <=> \E x \in DOMAIN w : \E n \in 1..w[x] : u = <<x, n>>
BY DEF Units

\* A sum in which the weight of one element is exchanged.
LEMMA ExchangeUnits ==
  ASSUME NEW S, NEW w \in [S -> Nat], IsFiniteSet(Units(w)),
         NEW x \in S, NEW n \in Nat, NEW v \in [S -> Nat], v[x] = n,
         \A y \in S : y # x => v[y] = w[y]
  PROVE  /\ IsFiniteSet(Units(v))
         /\ Total(v) = Total(w) - w[x] + n
         /\ Total(w) \in Nat /\ Total(v) \in Nat
<1> DEFINE R == {u \in Units(w) : u[1] # x}
<1>1. IsFiniteSet(R)
  BY FS_Subset, R \in SUBSET Units(w)
<1>2. Units(w) = R \cup ({x} \X (1..w[x]))
  BY DEF Units
<1>3. Units(v) = R \cup ({x} \X (1..n))
  BY DEF Units
<1>0. w[x] \in Nat /\ \A u \in R : u[1] # x
  OBVIOUS
<1> HIDE DEF R
<1>4. Cardinality(Units(w)) = Cardinality(R) + w[x] /\ Cardinality(R) \in Nat
  <2>1. /\ Cardinality(R \cup ({x} \X (1..w[x]))) = Cardinality(R) + w[x]
        /\ Cardinality(R) \in Nat
    BY <1>0, <1>1, AddUnits
  <2> QED
    BY <1>2, <2>1, Zenon
<1>5. IsFiniteSet(Units(v)) /\ Cardinality(Units(v)) = Cardinality(R) + n
  <2>1. /\ IsFiniteSet(R \cup ({x} \X (1..n)))
        /\ Cardinality(R \cup ({x} \X (1..n))) = Cardinality(R) + n
    BY <1>0, <1>1, AddUnits
  <2> QED
    BY <1>3, <2>1, Zenon
<1> QED
  BY <1>4, <1>5 DEF Total

\* What a new entry adds to the sums of the entries.
LEMMA AddEntry ==
  ASSUME NEW E, IsFiniteSet(E), NEW kinds,
         \A e \in E : e.amount \in Nat,
         IsFiniteSet(Units(AmountsOf(E, kinds))),
         NEW f, f \notin E, f.amount \in Nat
  PROVE  /\ IsFiniteSet(E \cup {f})
         /\ IsFiniteSet(Units(AmountsOf(E \cup {f}, kinds)))
         /\ Total(AmountsOf(E \cup {f}, kinds)) =
              Total(AmountsOf(E, kinds)) + (IF f.kind \in kinds THEN f.amount ELSE 0)
         /\ Total(AmountsOf(E, kinds)) \in Nat
<1> DEFINE W == AmountsOf(E, kinds)
           V == AmountsOf(E \cup {f}, kinds)
<1>0. IsFiniteSet(E \cup {f})
  BY FS_AddElement
<1>1. Total(W) \in Nat
  BY FS_CardinalityType DEF Total
<1>2. CASE f.kind \notin kinds
  <2>1. {x \in E \cup {f} : x.kind \in kinds} = {x \in E : x.kind \in kinds}
    BY <1>2
  <2>2. V = W
    BY <2>1 DEF AmountsOf
  <2> QED
    BY <1>0, <1>1, <1>2, <2>2
<1>3. CASE f.kind \in kinds
  <2>1. Units(V) = Units(W) \cup ({f} \X (1..f.amount))
    BY <1>3, UnitOf DEF AmountsOf
  <2>2. \A u \in Units(W) : u[1] # f
    BY UnitOf DEF AmountsOf
  <2> HIDE DEF W, V
  <2>3. IsFiniteSet(Units(W)) 
    BY DEF W
  <2>4. /\ IsFiniteSet(Units(W) \cup ({f} \X (1..f.amount)))
        /\ Cardinality(Units(W) \cup ({f} \X (1..f.amount)))
             = Cardinality(Units(W)) + f.amount
    BY <2>2, <2>3, AddUnits
  <2>5. IsFiniteSet(Units(V)) /\ Cardinality(Units(V)) = Cardinality(Units(W)) + f.amount
    BY <2>1, <2>4, Zenon
  <2> QED
    BY <1>0, <1>1, <1>3, <2>5 DEF Total, W, V
<1> QED
  BY <1>2, <1>3

-----------------------------------------------------------------------------
(* The inductive invariant. *)

KindSets == {{"funding"}, {"hold"}, {"release"}, {"funding", "release"}}

\* Entries whose sums are numbers.
Counted(E) ==
  /\ IsFiniteSet(E)
  /\ \A e \in E : e.amount \in Nat \ {0}
  /\ \A kinds \in KindSets : IsFiniteSet(Units(AmountsOf(E, kinds)))

SumOf(E, kinds) == Total(AmountsOf(E, kinds))

\* The sums of the entries, with one entry more.
LEMMA Booking ==
  ASSUME NEW E, Counted(E), NEW f, f \notin E, f.amount \in Nat \ {0}
  PROVE  /\ Counted(E \cup {f})
         /\ \A kinds \in KindSets :
              /\ SumOf(E, kinds) \in Nat
              /\ SumOf(E \cup {f}, kinds) =
                   SumOf(E, kinds) + (IF f.kind \in kinds THEN f.amount ELSE 0)
<1>1. ASSUME NEW kinds \in KindSets
      PROVE  /\ IsFiniteSet(E \cup {f})
             /\ IsFiniteSet(Units(AmountsOf(E \cup {f}, kinds)))
             /\ SumOf(E, kinds) \in Nat
             /\ SumOf(E \cup {f}, kinds) =
                   SumOf(E, kinds) + (IF f.kind \in kinds THEN f.amount ELSE 0)
  <2>1. IsFiniteSet(E) /\ IsFiniteSet(Units(AmountsOf(E, kinds)))
        /\ \A e \in E : e.amount \in Nat
    BY DEF Counted
  <2>2. f.amount \in Nat
    OBVIOUS
  <2> QED
    BY <2>1, <2>2, AddEntry DEF SumOf
<1>2. IsFiniteSet(E \cup {f})
  BY FS_AddElement DEF Counted
<1> QED
  BY <1>1, <1>2 DEF Counted

\* What a purchase keeps of the budget: what it may cost while it is open or in
\* dispute, then its price, or nothing.
KeptOf(r) ==
  CASE r.state \in {"reserved", "review_required"} -> r.quote.reserve
    [] r.state = "captured" -> r.quote.capture
    [] OTHER -> 0

KeptNow == [c \in Calls |-> KeptOf(reservations[c])]

\* A reservation has a price, unless there is none.
Priced ==
  \A c \in Calls :
    \/ reservations[c] = NoReservation
    \/ reservations[c].state # "none" /\ reservations[c].quote \in Quotes

\* What is held is kept by a purchase or was given back.
Balanced ==
  /\ IsFiniteSet(Units(KeptNow))
  /\ Sum({"funding", "release"}) = Sum({"funding"}) + Sum({"release"})
  /\ Sum({"hold"}) = Total(KeptNow) + Sum({"release"})

LedgerIInv == BooksInv /\ Priced /\ Counted(entries) /\ Balanced

\* What is kept is a number of units.
LEMMA KeptType ==
  ASSUME NEW r \in Reservation,
         r = NoReservation \/ (r.state # "none" /\ r.quote \in Quotes)
  PROVE  KeptOf(r) \in Nat
BY CallLedgerAssumption DEF KeptOf, Reservation, NoReservation

LEMMA LedgerStart == Init => LedgerIInv
<1> SUFFICES ASSUME Init PROVE LedgerIInv
  OBVIOUS
<1>0. NoCall \in Call
  BY CallLedgerAssumption DEF Call, NoCall, Errors
<1>1. TypeOK /\ Priced
  BY <1>0 DEF Init, TypeOK, Priced, Reservation, NoReservation
<1>2. \A kinds : AmountsOf(entries, kinds) = [e \in {} |-> e.amount]
  BY DEF Init, AmountsOf
<1>3. Units([e \in {} |-> e.amount]) = {}
  BY DEF Units
<1>4. \A kinds : Units(AmountsOf(entries, kinds)) = {}
  BY <1>2, <1>3
<1>5. Counted(entries) /\ \A kinds : Sum(kinds) = 0
  BY <1>4, FS_EmptySet DEF Init, Counted, Sum, Total
<1>6. \A u \in Units(KeptNow) : FALSE
  BY UnitOf DEF Init, KeptNow, KeptOf, NoReservation
<1>7. Units(KeptNow) = {}
  BY <1>6
<1>8. IsFiniteSet(Units(KeptNow)) /\ Total(KeptNow) = 0
  BY <1>7, FS_EmptySet DEF Total
<1>9. BooksAgree
  BY DEF Init, BooksAgree, Booked, NoReservation
<1>10. OpenTogether
  BY DEF Init, OpenTogether, NoCall, NoReservation
<1>11. NoOverdraft
  BY <1>5 DEF NoOverdraft, Available
<1> QED
  BY <1>1, <1>5, <1>8, <1>9, <1>10, <1>11 DEF LedgerIInv, BooksInv, Balanced

-----------------------------------------------------------------------------
(* Steps. *)

\* Where one reservation changes, what is kept changes by as much.
LEMMA KeptChanges ==
  ASSUME TypeOK, Priced, TypeOK', Priced', IsFiniteSet(Units(KeptNow)),
         NEW c \in Calls,
         \A d \in Calls : d # c => reservations'[d] = reservations[d]
  PROVE  /\ IsFiniteSet(Units(KeptNow'))
         /\ Total(KeptNow') =
              Total(KeptNow) - KeptOf(reservations[c]) + KeptOf(reservations'[c])
         /\ Total(KeptNow) \in Nat
<1>1. KeptNow \in [Calls -> Nat] /\ KeptNow' \in [Calls -> Nat]
  BY KeptType DEF KeptNow, TypeOK, Priced
<1>2. /\ KeptNow[c] = KeptOf(reservations[c])
      /\ KeptNow'[c] = KeptOf(reservations'[c])
      /\ \A d \in Calls : d # c => KeptNow'[d] = KeptNow[d]
  BY DEF KeptNow
<1> QED
  BY <1>1, <1>2, ExchangeUnits

\* The sums of the four kinds, by name.
Funded(E) == SumOf(E, {"funding"})
Held(E) == SumOf(E, {"hold"})
Returned(E) == SumOf(E, {"release"})
Income(E) == SumOf(E, {"funding", "release"})

\* What one more entry does to each of them.
LEMMA BookingByKind ==
  ASSUME NEW E, Counted(E), NEW f, f \notin E, f.amount \in Nat \ {0}
  PROVE  /\ Counted(E \cup {f})
         /\ Funded(E) \in Nat /\ Held(E) \in Nat /\ Returned(E) \in Nat /\ Income(E) \in Nat
         /\ Funded(E \cup {f}) = Funded(E) + (IF f.kind = "funding" THEN f.amount ELSE 0)
         /\ Held(E \cup {f}) = Held(E) + (IF f.kind = "hold" THEN f.amount ELSE 0)
         /\ Returned(E \cup {f}) = Returned(E) + (IF f.kind = "release" THEN f.amount ELSE 0)
         /\ Income(E \cup {f}) =
              Income(E) + (IF f.kind \in {"funding", "release"} THEN f.amount ELSE 0)
<1>1. Counted(E \cup {f})
      /\ \A kinds \in KindSets :
              /\ SumOf(E, kinds) \in Nat
              /\ SumOf(E \cup {f}, kinds) =
                   SumOf(E, kinds) + (IF f.kind \in kinds THEN f.amount ELSE 0)
  BY Booking
<1>2. /\ {"funding"} \in KindSets /\ {"hold"} \in KindSets
      /\ {"release"} \in KindSets /\ {"funding", "release"} \in KindSets
  BY DEF KindSets
<1>3. Funded(E \cup {f}) = Funded(E) + (IF f.kind = "funding" THEN f.amount ELSE 0)
      /\ Funded(E) \in Nat
  BY <1>1, <1>2 DEF Funded
<1>4. Held(E \cup {f}) = Held(E) + (IF f.kind = "hold" THEN f.amount ELSE 0)
      /\ Held(E) \in Nat
  BY <1>1, <1>2 DEF Held
<1>5. Returned(E \cup {f}) = Returned(E) + (IF f.kind = "release" THEN f.amount ELSE 0)
      /\ Returned(E) \in Nat
  BY <1>1, <1>2 DEF Returned
<1>6. Income(E \cup {f}) =
              Income(E) + (IF f.kind \in {"funding", "release"} THEN f.amount ELSE 0)
      /\ Income(E) \in Nat
  BY <1>1, <1>2 DEF Income
<1> QED
  BY <1>1, <1>3, <1>4, <1>5, <1>6

\* The same of the entries and those after a step.
LEMMA BookingNext ==
  ASSUME Counted(entries), NEW f, f \notin entries, f.amount \in Nat \ {0},
         entries' = entries \cup {f}
  PROVE  /\ Counted(entries')
         /\ Funded(entries') = Funded(entries) + (IF f.kind = "funding" THEN f.amount ELSE 0)
         /\ Held(entries') = Held(entries) + (IF f.kind = "hold" THEN f.amount ELSE 0)
         /\ Returned(entries') = Returned(entries) + (IF f.kind = "release" THEN f.amount ELSE 0)
         /\ Income(entries') =
              Income(entries) + (IF f.kind \in {"funding", "release"} THEN f.amount ELSE 0)
         /\ Funded(entries) \in Nat /\ Held(entries) \in Nat
         /\ Returned(entries) \in Nat /\ Income(entries) \in Nat
<1> DEFINE E == entries \cup {f}
<1>1. /\ Counted(E)
      /\ Funded(entries) \in Nat /\ Held(entries) \in Nat
      /\ Returned(entries) \in Nat /\ Income(entries) \in Nat
      /\ Funded(E) = Funded(entries) + (IF f.kind = "funding" THEN f.amount ELSE 0)
      /\ Held(E) = Held(entries) + (IF f.kind = "hold" THEN f.amount ELSE 0)
      /\ Returned(E) = Returned(entries) + (IF f.kind = "release" THEN f.amount ELSE 0)
      /\ Income(E) =
           Income(entries) + (IF f.kind \in {"funding", "release"} THEN f.amount ELSE 0)
  BY BookingByKind
<1>2. E = entries'
  OBVIOUS
<1> HIDE DEF E
<1> QED
  BY <1>1, <1>2, Zenon

\* The books in terms of the four sums.
LEMMA BooksByKind ==
  /\ Balanced <=> /\ IsFiniteSet(Units(KeptNow))
                  /\ Income(entries) = Funded(entries) + Returned(entries)
                  /\ Held(entries) = Total(KeptNow) + Returned(entries)
  /\ Available = Income(entries) - Held(entries)
BY DEF Balanced, Available, Sum, SumOf, Income, Funded, Returned, Held

LEMMA BooksByKindNext ==
  /\ Balanced' <=> /\ IsFiniteSet(Units(KeptNow'))
                   /\ Income(entries') = Funded(entries') + Returned(entries')
                   /\ Held(entries') = Total(KeptNow') + Returned(entries')
  /\ Available' = Income(entries') - Held(entries')
BY DEF Balanced, Available, Sum, SumOf, Income, Funded, Returned, Held

\* The entries of one call agree with its reservation.
Agrees(c) ==
  LET q == reservations[c].quote
      s == reservations[c].state
  IN /\ Booked(c, "hold") = IF s = "none" THEN {} ELSE {q.reserve}
     /\ Booked(c, "capture") = IF s = "captured" THEN {q.capture} ELSE {}
     /\ Booked(c, "release") =
            CASE s = "released" -> {q.reserve}
              [] s = "captured" -> {q.reserve - q.capture} \ {0}
              [] OTHER -> {}

LEMMA BooksAgreeByCall == BooksAgree <=> \A c \in Calls : Agrees(c)
BY Zenon DEF BooksAgree, Agrees

LEMMA BooksAgreeByCallNext == BooksAgree' <=> \A c \in Calls : Agrees(c)'
BY Zenon DEF BooksAgree, Agrees

\* What new entries book for a call.
AddedFor(c, new, kind) == {e.amount : e \in {x \in new : x.kind = kind /\ x.id = c}}

LEMMA BookedNext ==
  ASSUME NEW new, entries' = entries \cup new, NEW c \in Calls, NEW kind
  PROVE  Booked(c, kind)' = Booked(c, kind) \cup AddedFor(c, new, kind)
BY DEF Booked, AddedFor

\* Entries of others change nothing for a call whose reservation stays.
LEMMA AgreesStill ==
  ASSUME NEW c \in Calls, Agrees(c), NEW new, entries' = entries \cup new,
         reservations'[c] = reservations[c],
         AddedFor(c, new, "hold") = {}, AddedFor(c, new, "capture") = {},
         AddedFor(c, new, "release") = {}
  PROVE  Agrees(c)'
<1>1. Booked(c, "hold")' = Booked(c, "hold")
  BY DEF Booked, AddedFor
<1>2. Booked(c, "capture")' = Booked(c, "capture")
  BY DEF Booked, AddedFor
<1>3. Booked(c, "release")' = Booked(c, "release")
  BY DEF Booked, AddedFor
<1> QED
  BY <1>1, <1>2, <1>3, Zenon DEF Agrees

LEMMA FundStep ==
  ASSUME LedgerIInv, NEW f \in Fundings, NEW a \in Amounts, Fund(f, a)
  PROVE  LedgerIInv'
<1> DEFINE e == Entry("funding", f, a)
<1>1. /\ e.kind = "funding" /\ e.id = f /\ e.amount = a /\ a \in Nat \ {0}
      /\ e \notin entries /\ entries' = entries \cup {e}
  BY CallLedgerAssumption DEF Fund, Insert, Entry
<1> HIDE DEF e
<1>2. UNCHANGED <<calls, reservations>>
  BY DEF Fund
<1>3. Counted(entries) /\ Balanced /\ Available >= 0
  BY DEF LedgerIInv, BooksInv, NoOverdraft
<1>4. Counted(entries') /\ Balanced' /\ Available' >= 0
  <2>1. KeptNow' = KeptNow
    BY <1>2 DEF KeptNow
  <2>2. IsFiniteSet(Units(KeptNow')) /\ Total(KeptNow') = Total(KeptNow)
        /\ Total(KeptNow) \in Nat
    BY <1>3, <2>1, FS_CardinalityType DEF Balanced, Total
  <2>3. /\ Counted(entries')
        /\ Funded(entries') = Funded(entries) + a
        /\ Held(entries') = Held(entries)
        /\ Returned(entries') = Returned(entries)
        /\ Income(entries') = Income(entries) + a
        /\ Funded(entries) \in Nat /\ Held(entries) \in Nat
        /\ Returned(entries) \in Nat /\ Income(entries) \in Nat
    BY <1>1, <1>3, BookingNext
  <2> QED
    BY <1>1, <1>3, <2>2, <2>3, BooksByKind, BooksByKindNext
<1>5. TypeOK'
  BY <1>1, <1>2 DEF LedgerIInv, BooksInv, TypeOK
<1>6. BooksAgree'
  <2> SUFFICES ASSUME NEW c \in Calls PROVE Agrees(c)'
    BY BooksAgreeByCall, BooksAgreeByCallNext
  <2>1. Agrees(c)
    BY BooksAgreeByCall DEF LedgerIInv, BooksInv
  <2>2. AddedFor(c, {e}, "hold") = {} /\ AddedFor(c, {e}, "capture") = {}
        /\ AddedFor(c, {e}, "release") = {}
    BY <1>1 DEF AddedFor
  <2> QED
    BY <1>1, <1>2, <2>1, <2>2, AgreesStill
<1>7. OpenTogether' /\ Priced'
  BY <1>2 DEF LedgerIInv, BooksInv, OpenTogether, Priced
<1> QED
  BY <1>4, <1>5, <1>6, <1>7 DEF LedgerIInv, BooksInv, NoOverdraft

LEMMA StartStep ==
  ASSUME LedgerIInv, NEW c \in Calls, NEW t \in Turns, NEW q \in Quotes \cup {NoQuote},
         Start(c, t, q)
  PROVE  LedgerIInv'
<1>1. /\ calls[c] = NoCall /\ calls' = [calls EXCEPT ![c] = Opened(t)]
      /\ calls \in [Calls -> Call] /\ reservations \in [Calls -> Reservation]
      /\ (q # NoQuote) <=> Commercial
  BY DEF Start, LedgerIInv, BooksInv, TypeOK
<1>2. Opened(t) \in Call
  BY DEF Opened, Call, Errors
<1>3. calls' \in [Calls -> Call]
  BY <1>1, <1>2
<1>4. CASE q = NoQuote
  <2>1. UNCHANGED <<reservations, entries>> /\ ~Commercial
    BY <1>1, <1>4, CallLedgerAssumption DEF Start
  <2>2. TypeOK' /\ OpenTogether' /\ Priced' /\ BooksAgree'
    BY <1>3, <2>1 DEF LedgerIInv, BooksInv, TypeOK, OpenTogether, Priced, BooksAgree, Booked
  <2>3. NoOverdraft' /\ Counted(entries') /\ Balanced'
    BY <2>1, Zenon DEF LedgerIInv, BooksInv, NoOverdraft, Available, Sum, Balanced, KeptNow
  <2> QED
    BY <2>2, <2>3 DEF LedgerIInv, BooksInv
<1>5. CASE q # NoQuote
  <2> DEFINE e == Entry("hold", c, q.reserve)
             r == [state |-> "reserved", quote |-> q]
  <2>1. /\ q \in Quotes /\ q.reserve \in Nat \ {0}
        /\ reservations[c] = NoReservation /\ Available >= q.reserve
        /\ reservations' = [reservations EXCEPT ![c] = r]
        /\ e \notin entries /\ entries' = entries \cup {e}
        /\ e.kind = "hold" /\ e.id = c /\ e.amount = q.reserve
    BY <1>5, CallLedgerAssumption DEF Start, Insert, Entry
  <2>2. /\ reservations'[c] = r /\ r.state = "reserved" /\ r.quote = q
        /\ reservations' \in [Calls -> Reservation]
        /\ \A d \in Calls : d # c => reservations'[d] = reservations[d]
    BY <1>1, <2>1 DEF Reservation
  <2> HIDE DEF e, r
  <2>3. TypeOK'
    BY <1>3, <2>1, <2>2 DEF LedgerIInv, BooksInv, TypeOK
  <2>4. Priced'
    BY <2>1, <2>2 DEF LedgerIInv, Priced
  <2>5. OpenTogether'
    BY <1>1, <2>2 DEF LedgerIInv, BooksInv, OpenTogether, Opened
  <2>6. ASSUME NEW d \in Calls PROVE Agrees(d)'
    <3>1. Agrees(d)
      BY BooksAgreeByCall DEF LedgerIInv, BooksInv
    <3>2. CASE d # c
      <4>1. AddedFor(d, {e}, "hold") = {} /\ AddedFor(d, {e}, "capture") = {}
            /\ AddedFor(d, {e}, "release") = {}
        BY <2>1, <3>2 DEF AddedFor
      <4> QED
        BY <2>1, <2>2, <3>1, <3>2, <4>1, AgreesStill
    <3>3. CASE d = c
      <4>1. Booked(c, "hold") = {} /\ Booked(c, "capture") = {} /\ Booked(c, "release") = {}
        BY <2>1, <3>1, <3>3 DEF Agrees, NoReservation
      <4>2. Booked(c, "hold")' = {q.reserve}
        BY <2>1, <4>1 DEF Booked
      <4>3. Booked(c, "capture")' = {} /\ Booked(c, "release")' = {}
        BY <2>1, <4>1 DEF Booked
      <4> QED
        BY <2>2, <3>3, <4>2, <4>3 DEF Agrees
    <3> QED
      BY <3>2, <3>3
  <2>7. BooksAgree'
    BY <2>6, BooksAgreeByCallNext
  <2>8. /\ IsFiniteSet(Units(KeptNow'))
        /\ Total(KeptNow') = Total(KeptNow) + q.reserve
        /\ Total(KeptNow) \in Nat
    <3>1. KeptOf(reservations[c]) = 0 /\ KeptOf(reservations'[c]) = q.reserve
      BY <2>1, <2>2 DEF KeptOf, NoReservation
    <3>2. /\ IsFiniteSet(Units(KeptNow'))
          /\ Total(KeptNow') =
               Total(KeptNow) - KeptOf(reservations[c]) + KeptOf(reservations'[c])
          /\ Total(KeptNow) \in Nat
      BY <2>2, <2>3, <2>4, KeptChanges DEF LedgerIInv, BooksInv, Balanced
    <3> QED
      BY <2>1, <3>1, <3>2
  <2>9. /\ Counted(entries')
        /\ Funded(entries') = Funded(entries)
        /\ Held(entries') = Held(entries) + q.reserve
        /\ Returned(entries') = Returned(entries)
        /\ Income(entries') = Income(entries)
        /\ Funded(entries) \in Nat /\ Held(entries) \in Nat
        /\ Returned(entries) \in Nat /\ Income(entries) \in Nat
    <3>1. /\ e \notin entries /\ entries' = entries \cup {e} /\ Counted(entries)
          /\ e.kind = "hold" /\ e.amount = q.reserve /\ e.amount \in Nat \ {0}
      BY <2>1 DEF LedgerIInv
    <3>2. /\ Counted(entries')
          /\ Funded(entries') = Funded(entries) + (IF e.kind = "funding" THEN e.amount ELSE 0)
          /\ Held(entries') = Held(entries) + (IF e.kind = "hold" THEN e.amount ELSE 0)
          /\ Returned(entries') =
               Returned(entries) + (IF e.kind = "release" THEN e.amount ELSE 0)
          /\ Income(entries') =
               Income(entries) + (IF e.kind \in {"funding", "release"} THEN e.amount ELSE 0)
          /\ Funded(entries) \in Nat /\ Held(entries) \in Nat
          /\ Returned(entries) \in Nat /\ Income(entries) \in Nat
      BY <3>1, BookingNext, Zenon
    <3> HIDE DEF e
    <3> QED
      BY <3>1, <3>2
  <2>10. Balanced' /\ NoOverdraft'
    <3>1. Available >= q.reserve /\ q.reserve \in Nat /\ Balanced
      BY <2>1 DEF LedgerIInv
    <3> QED
      BY <2>8, <2>9, <3>1, BooksByKind, BooksByKindNext DEF NoOverdraft
  <2> QED
    BY <2>3, <2>4, <2>5, <2>7, <2>9, <2>10 DEF LedgerIInv, BooksInv
<1> QED
  BY <1>4, <1>5

LEMMA ReconcileStep == ASSUME LedgerIInv, Reconcile PROVE LedgerIInv'
<1>1. /\ calls \in [Calls -> Call] /\ reservations \in [Calls -> Reservation]
      /\ entries' = entries
  BY DEF Reconcile, LedgerIInv, BooksInv, TypeOK
<1>2. ASSUME NEW c \in Calls
      PROVE  /\ calls'[c] = IF c \in Stale THEN Closed(c, "provider_error", "stale") ELSE calls[c]
             /\ calls'[c] \in Call
             /\ reservations'[c] =
                  IF c \in Stale /\ reservations[c].state = "reserved"
                  THEN [reservations[c] EXCEPT !.state = "review_required"]
                  ELSE reservations[c]
             /\ reservations'[c] \in Reservation
             /\ KeptOf(reservations'[c]) = KeptOf(reservations[c])
             /\ reservations'[c].quote = reservations[c].quote
  BY <1>1 DEF Reconcile, Closed, Call, Reservation, Terminal, Errors, KeptOf
<1>3. TypeOK'
  BY <1>1, <1>2 DEF Reconcile, LedgerIInv, BooksInv, TypeOK
<1>4. Priced'
  <2> SUFFICES ASSUME NEW c \in Calls
               PROVE  \/ reservations'[c] = NoReservation
                      \/ reservations'[c].state # "none" /\ reservations'[c].quote \in Quotes
    BY DEF Priced
  <2>1. /\ reservations[c] \in Reservation
        /\ \/ reservations[c] = NoReservation
           \/ reservations[c].state # "none" /\ reservations[c].quote \in Quotes
    BY <1>1 DEF LedgerIInv, Priced
  <2>2. CASE reservations[c].state = "reserved"
    <3>1. reservations'[c].state \in {"reserved", "review_required"}
      BY <1>2, <2>1, <2>2 DEF Reservation
    <3>2. reservations[c].quote \in Quotes
      BY <2>1, <2>2 DEF NoReservation
    <3> QED
      BY <1>2, <3>1, <3>2
  <2>3. CASE reservations[c].state # "reserved"
    BY <1>2, <2>1, <2>3
  <2> QED
    BY <2>2, <2>3
<1>5. OpenTogether'
  BY ZenonT(40), <1>1, <1>2 DEF LedgerIInv, BooksInv, OpenTogether, Stale, Closed, Call, Reservation
<1>6. KeptNow' = KeptNow
  BY <1>2 DEF KeptNow
<1>7. Balanced' /\ NoOverdraft' /\ Counted(entries')
  BY <1>1, <1>6, Zenon DEF LedgerIInv, BooksInv, Balanced, NoOverdraft, Available, Sum
<1>8. ASSUME NEW c \in Calls PROVE Agrees(c)'
  <2>1. Agrees(c)
    BY BooksAgreeByCall DEF LedgerIInv, BooksInv
  <2>2. \A kind : Booked(c, kind)' = Booked(c, kind)
    BY <1>1, Zenon DEF Booked
  <2>3. CASE reservations'[c] = reservations[c]
    BY <2>1, <2>2, <2>3, Zenon DEF Agrees
  <2>4. CASE reservations[c].state = "reserved" /\ reservations'[c].state = "review_required"
    <3>1. /\ Booked(c, "hold") = {reservations[c].quote.reserve}
          /\ Booked(c, "capture") = {} /\ Booked(c, "release") = {}
      BY <2>1, <2>4 DEF Agrees
    <3>2. /\ Booked(c, "hold")' = {reservations'[c].quote.reserve}
          /\ Booked(c, "capture")' = {} /\ Booked(c, "release")' = {}
      BY <1>2, <2>2, <3>1
    <3> QED
      BY <2>4, <3>2 DEF Agrees
  <2>5. reservations[c] \in Reservation
    BY <1>1
  <2> QED
    BY <1>2, <2>3, <2>4, <2>5 DEF Reservation
<1> QED
  BY <1>3, <1>4, <1>5, <1>7, <1>8, BooksAgreeByCallNext DEF LedgerIInv, BooksInv

LEMMA AgeStep == ASSUME LedgerIInv, NEW c \in Calls, Age(c) PROVE LedgerIInv'
<1>1. UNCHANGED <<reservations, entries>> /\ calls' = [calls EXCEPT ![c].old = TRUE]
      /\ calls \in [Calls -> Call]
  BY DEF Age, LedgerIInv, BooksInv, TypeOK
<1>2. TypeOK' /\ OpenTogether' /\ Priced' /\ BooksAgree'
  BY <1>1 DEF LedgerIInv, BooksInv, TypeOK, OpenTogether, Priced, BooksAgree, Booked, Call
<1>3. entries' = entries /\ reservations' = reservations
  BY <1>1
<1>4. NoOverdraft' /\ Counted(entries') /\ Balanced'
  BY <1>3, Zenon DEF LedgerIInv, BooksInv, NoOverdraft, Available, Sum, Balanced, KeptNow
<1> QED
  BY <1>2, <1>4 DEF LedgerIInv, BooksInv

\* A reservation that is settled: what it keeps afterwards, and what was given
\* back, make up what was held.
Rest(q, outcome) ==
  CASE outcome = "captured" -> q.reserve - q.capture
    [] outcome = "released" -> q.reserve
    [] OTHER -> 0

\* The sums after the entries of a settlement were inserted.
LEMMA SettlementSums ==
  ASSUME Counted(entries), NEW c \in Calls, reservations[c].quote \in Quotes,
         NEW outcome \in {"captured", "released", "review_required"},
         Insert(Settlement(c, outcome))
  PROVE  LET q == reservations[c].quote IN
         /\ Counted(entries')
         /\ Funded(entries') = Funded(entries)
         /\ Held(entries') = Held(entries)
         /\ Returned(entries') = Returned(entries) + Rest(q, outcome)
         /\ Income(entries') = Income(entries) + Rest(q, outcome)
         /\ Rest(q, outcome) \in Nat
         /\ Funded(entries) \in Nat /\ Held(entries) \in Nat
         /\ Returned(entries) \in Nat /\ Income(entries) \in Nat
<1> DEFINE q == reservations[c].quote
           p == Entry("capture", c, q.capture)
           r == Entry("release", c, q.reserve - q.capture)
           all == Entry("release", c, q.reserve)
<1> DEFINE new == Settlement(c, outcome)
<1>1. /\ q.reserve \in Nat \ {0} /\ q.capture \in Nat \ {0} /\ q.capture <= q.reserve
      /\ entries' = entries \cup new
      /\ \A e \in entries, f \in new : ~ (e.kind = f.kind /\ e.id = f.id)
  BY CallLedgerAssumption DEF Insert
<1>2. /\ p.kind = "capture" /\ p.id = c /\ p.amount = q.capture
      /\ r.kind = "release" /\ r.id = c /\ r.amount = q.reserve - q.capture
      /\ all.kind = "release" /\ all.id = c /\ all.amount = q.reserve
  BY DEF Entry
<1>3. CASE outcome = "captured" /\ q.capture = q.reserve
  <2>1. new = {p}
    BY <1>3 DEF Settlement
  <2>2. /\ p \notin entries /\ entries' = entries \cup {p} /\ p.amount \in Nat \ {0}
        /\ p.kind = "capture"
    BY <1>1, <1>2, <2>1
  <2> HIDE DEF new, p, q
  <2>3. Rest(q, outcome) = 0
    BY <1>1, <1>3 DEF Rest
  <2> QED
    BY <2>2, <2>3, BookingNext DEF q
<1>4. CASE outcome = "captured" /\ q.capture # q.reserve
  <2> DEFINE E == entries \cup {p}
  <2>1. new = {p} \cup {r}
    BY <1>4 DEF Settlement
  <2>2. /\ p \notin entries /\ p.amount \in Nat \ {0} /\ p.kind = "capture"
        /\ r \notin E /\ r.amount \in Nat \ {0} /\ r.kind = "release"
        /\ entries' = E \cup {r}
    BY <1>1, <1>2, <1>4, <2>1
  <2>3. Rest(q, outcome) = r.amount
    BY <1>2, <1>4 DEF Rest
  <2> HIDE DEF new, p, q, r
  <2>4. /\ Counted(E)
        /\ Funded(E) = Funded(entries) /\ Held(E) = Held(entries)
        /\ Returned(E) = Returned(entries) /\ Income(E) = Income(entries)
        /\ Funded(entries) \in Nat /\ Held(entries) \in Nat
        /\ Returned(entries) \in Nat /\ Income(entries) \in Nat
    BY <2>2, BookingByKind
  <2> HIDE DEF E
  <2>5. /\ Counted(E \cup {r})
        /\ Funded(E \cup {r}) = Funded(entries) /\ Held(E \cup {r}) = Held(entries)
        /\ Returned(E \cup {r}) = Returned(entries) + r.amount
        /\ Income(E \cup {r}) = Income(entries) + r.amount
    BY <2>2, <2>4, BookingByKind
  <2>6. /\ Counted(entries')
        /\ Funded(entries') = Funded(entries) /\ Held(entries') = Held(entries)
        /\ Returned(entries') = Returned(entries) + r.amount
        /\ Income(entries') = Income(entries) + r.amount
    BY <2>2, <2>5, Zenon
  <2> QED
    BY <2>2, <2>3, <2>4, <2>6 DEF q
<1>5. CASE outcome = "released"
  <2>1. new = {all}
    BY <1>5 DEF Settlement
  <2>2. /\ all \notin entries /\ entries' = entries \cup {all}
        /\ all.amount \in Nat \ {0} /\ all.kind = "release" /\ all.amount = q.reserve
    BY <1>1, <1>2, <2>1
  <2> HIDE DEF new, all, q
  <2>3. Rest(q, outcome) = q.reserve
    BY <1>5 DEF Rest
  <2>4. /\ Counted(entries \cup {all})
        /\ Funded(entries \cup {all}) = Funded(entries)
        /\ Held(entries \cup {all}) = Held(entries)
        /\ Returned(entries \cup {all}) = Returned(entries) + all.amount
        /\ Income(entries \cup {all}) = Income(entries) + all.amount
        /\ Funded(entries) \in Nat /\ Held(entries) \in Nat
        /\ Returned(entries) \in Nat /\ Income(entries) \in Nat
    BY <2>2, BookingByKind
  <2>5. /\ Counted(entries')
        /\ Funded(entries') = Funded(entries) /\ Held(entries') = Held(entries)
        /\ Returned(entries') = Returned(entries) + all.amount
        /\ Income(entries') = Income(entries) + all.amount
    BY <2>2, <2>4, Zenon
  <2> QED
    BY <2>2, <2>3, <2>4, <2>5 DEF q
<1>6. CASE outcome = "review_required"
  <2>1. entries' = entries
    BY <1>1, <1>6 DEF Settlement
  <2>2. Rest(q, outcome) = 0
    BY <1>6 DEF Rest
  <2>3. \A kinds \in KindSets : SumOf(entries, kinds) \in Nat
    BY FS_CardinalityType DEF Counted, SumOf, Total
  <2>4. /\ Funded(entries) \in Nat /\ Held(entries) \in Nat
        /\ Returned(entries) \in Nat /\ Income(entries) \in Nat
    BY <2>3 DEF KindSets, Funded, Held, Returned, Income
  <2> QED
    BY <2>1, <2>2, <2>4
<1> QED
  BY <1>3, <1>4, <1>5, <1>6

LEMMA FinishStep ==
  ASSUME LedgerIInv, NEW c \in Calls, NEW status \in Terminal,
         NEW error \in Errors \ {"stale"}, Finish(c, status, error)
  PROVE  LedgerIInv'
<1>1. /\ calls[c].status = "started"
      /\ calls' = [calls EXCEPT ![c] = Closed(c, status, error)]
      /\ calls \in [Calls -> Call] /\ reservations \in [Calls -> Reservation]
  BY DEF Finish, LedgerIInv, BooksInv, TypeOK
<1>2. Closed(c, status, error) \in Call /\ Closed(c, status, error).status # "started"
  BY <1>1 DEF Closed, Call, Terminal
<1>3. calls' \in [Calls -> Call]
  BY <1>1, <1>2
<1>4. CASE reservations[c] = NoReservation
  <2>1. ~Commercial /\ reservations' = reservations /\ entries' = entries
    BY <1>1, <1>4 DEF Finish, LedgerIInv, BooksInv, OpenTogether, NoReservation
  <2>2. TypeOK' /\ OpenTogether' /\ Priced' /\ BooksAgree'
    BY <1>3, <2>1 DEF LedgerIInv, BooksInv, TypeOK, OpenTogether, Priced, BooksAgree, Booked
  <2>3. NoOverdraft' /\ Counted(entries') /\ Balanced'
    BY <2>1, Zenon DEF LedgerIInv, BooksInv, NoOverdraft, Available, Sum, Balanced, KeptNow
  <2> QED
    BY <2>2, <2>3 DEF LedgerIInv, BooksInv
<1>5. CASE reservations[c] # NoReservation
  <2> DEFINE o == Outcome(status, error)
             q == reservations[c].quote
             new == Settlement(c, o)
  <2>1. /\ reservations[c].state = "reserved" /\ q \in Quotes
        /\ Insert(new) /\ entries' = entries \cup new
        /\ reservations' = [reservations EXCEPT ![c].state = o]
        /\ o \in {"captured", "released", "review_required"}
    BY <1>5 DEF Finish, LedgerIInv, Priced, Insert, Outcome
  <2>2. /\ q.reserve \in Nat \ {0} /\ q.capture \in Nat \ {0} /\ q.capture <= q.reserve
    BY <2>1, CallLedgerAssumption
  <2> HIDE DEF o
  <2>3. /\ reservations' \in [Calls -> Reservation]
        /\ reservations'[c].state = o /\ reservations'[c].quote = q
        /\ \A d \in Calls : d # c => reservations'[d] = reservations[d]
    BY <1>1, <2>1 DEF Reservation
  <2>4. TypeOK'
    <3>1. ASSUME NEW e \in new
          PROVE  /\ e.kind \in {"funding", "hold", "capture", "release"}
                 /\ e.id = c /\ e.amount \in Nat \ {0}
      BY <2>1, <2>2 DEF Settlement, Entry
    <3> QED
      BY <1>3, <2>1, <2>3, <3>1 DEF LedgerIInv, BooksInv, TypeOK
  <2>5. Priced'
    BY <2>1, <2>3 DEF LedgerIInv, Priced
  <2>6. OpenTogether'
    BY <1>1, <1>2, <2>1, <2>3 DEF LedgerIInv, BooksInv, OpenTogether
  <2>7. ASSUME NEW d \in Calls PROVE Agrees(d)'
    <3>1. Agrees(d)
      BY BooksAgreeByCall DEF LedgerIInv, BooksInv
    <3>2. CASE d # c
      <4>1. AddedFor(d, new, "hold") = {} /\ AddedFor(d, new, "capture") = {}
            /\ AddedFor(d, new, "release") = {}
        BY <2>1, <3>2 DEF AddedFor, Settlement, Entry
      <4> QED
        BY <2>1, <2>3, <3>1, <3>2, <4>1, AgreesStill
    <3>3. CASE d = c
      <4>1. Booked(c, "hold") = {q.reserve}
            /\ Booked(c, "capture") = {} /\ Booked(c, "release") = {}
        BY <2>1, <3>1, <3>3 DEF Agrees
      <4>2. /\ AddedFor(c, new, "hold") = {}
            /\ AddedFor(c, new, "capture") = IF o = "captured" THEN {q.capture} ELSE {}
            /\ AddedFor(c, new, "release") =
                 CASE o = "released" -> {q.reserve}
                   [] o = "captured" -> {q.reserve - q.capture} \ {0}
                   [] OTHER -> {}
        <5>1. CASE o = "captured"
          <6> DEFINE p == Entry("capture", c, q.capture)
                     r == Entry("release", c, q.reserve - q.capture)
          <6>1. new = {p} \cup (IF q.capture = q.reserve THEN {} ELSE {r})
            BY <5>1 DEF Settlement
          <6>2. /\ p.kind = "capture" /\ p.id = c /\ p.amount = q.capture
                /\ r.kind = "release" /\ r.id = c /\ r.amount = q.reserve - q.capture
            BY DEF Entry
          <6> HIDE DEF new, p, r, q
          <6> QED
            BY <2>2, <5>1, <6>1, <6>2 DEF AddedFor
        <5>2. CASE o = "released"
          <6> DEFINE r == Entry("release", c, q.reserve)
          <6>1. new = {r}
            BY <5>2 DEF Settlement
          <6>2. r.kind = "release" /\ r.id = c /\ r.amount = q.reserve
            BY DEF Entry
          <6> HIDE DEF new, r, q
          <6> QED
            BY <5>2, <6>1, <6>2 DEF AddedFor
        <5>3. CASE o = "review_required"
          BY <5>3 DEF AddedFor, Settlement
        <5> QED
          BY <2>1, <5>1, <5>2, <5>3
      <4> HIDE DEF new, q
      <4>3. Booked(c, "hold")' = {q.reserve}
        BY <2>1, <4>1, <4>2 DEF Booked, AddedFor
      <4>4. Booked(c, "capture")' = IF o = "captured" THEN {q.capture} ELSE {}
        <5>1. Booked(c, "capture")' = Booked(c, "capture") \cup AddedFor(c, new, "capture")
          BY <2>1, BookedNext, Zenon
        <5> QED
          BY <4>1, <4>2, <5>1
      <4>5. Booked(c, "release")' =
                 CASE o = "released" -> {q.reserve}
                   [] o = "captured" -> {q.reserve - q.capture} \ {0}
                   [] OTHER -> {}
        BY <2>1, <4>1, <4>2, BookedNext
      <4> QED
        BY <2>1, <2>3, <3>3, <4>3, <4>4, <4>5 DEF Agrees
    <3> QED
      BY <3>2, <3>3
  <2>8. BooksAgree'
    BY <2>7, BooksAgreeByCallNext
  <2>9. /\ IsFiniteSet(Units(KeptNow'))
        /\ Total(KeptNow') = Total(KeptNow) - Rest(q, o)
        /\ Total(KeptNow) \in Nat
    <3>1. KeptOf(reservations[c]) = q.reserve
          /\ KeptOf(reservations'[c]) = q.reserve - Rest(q, o)
      BY <2>1, <2>2, <2>3 DEF KeptOf, Rest
    <3>2. /\ IsFiniteSet(Units(KeptNow'))
          /\ Total(KeptNow') =
               Total(KeptNow) - KeptOf(reservations[c]) + KeptOf(reservations'[c])
          /\ Total(KeptNow) \in Nat
      BY <2>3, <2>4, <2>5, KeptChanges DEF LedgerIInv, BooksInv, Balanced
    <3>3. Rest(q, o) \in Int
      BY <2>1, <2>2 DEF Rest
    <3> QED
      BY <2>2, <3>1, <3>2, <3>3
  <2>10. /\ Counted(entries')
         /\ Funded(entries') = Funded(entries)
         /\ Held(entries') = Held(entries)
         /\ Returned(entries') = Returned(entries) + Rest(q, o)
         /\ Income(entries') = Income(entries) + Rest(q, o)
         /\ Rest(q, o) \in Nat
         /\ Funded(entries) \in Nat /\ Held(entries) \in Nat
         /\ Returned(entries) \in Nat /\ Income(entries) \in Nat
    BY <2>1, SettlementSums DEF LedgerIInv
  <2>11. Balanced' /\ NoOverdraft'
    <3>1. Balanced /\ Available >= 0
      BY DEF LedgerIInv, BooksInv, NoOverdraft
    <3> HIDE DEF q
    <3> QED
      BY <2>9, <2>10, <3>1, BooksByKind, BooksByKindNext DEF NoOverdraft
  <2> QED
    BY <2>4, <2>5, <2>6, <2>8, <2>10, <2>11 DEF LedgerIInv, BooksInv
<1> QED
  BY <1>4, <1>5

-----------------------------------------------------------------------------
(* Theorems. *)

LEMMA LedgerStep == LedgerIInv /\ [Next]_lvars => LedgerIInv'
<1> SUFFICES ASSUME LedgerIInv, [Next]_lvars PROVE LedgerIInv'
  OBVIOUS
<1>1. CASE UNCHANGED lvars
  <2>1. entries' = entries /\ reservations' = reservations /\ calls' = calls
    BY <1>1 DEF lvars
  <2>2. TypeOK' /\ OpenTogether' /\ Priced' /\ BooksAgree'
    BY <2>1 DEF LedgerIInv, BooksInv, TypeOK, OpenTogether, Priced, BooksAgree, Booked
  <2>3. NoOverdraft' /\ Counted(entries') /\ Balanced'
    BY <2>1, Zenon DEF LedgerIInv, BooksInv, NoOverdraft, Available, Sum, Balanced, KeptNow
  <2> QED
    BY <2>2, <2>3 DEF LedgerIInv, BooksInv
<1>2. CASE Next
  BY <1>2, FundStep, StartStep, FinishStep, ReconcileStep, AgeStep DEF Next
<1> QED
  BY <1>1, <1>2

\* The inductive invariant of the ledger holds for any number of calls, prices
\* and payments: the balance that start_attempt computes is never negative, and
\* the entries of a call tell the story of its reservation.
THEOREM BooksCorrect == Spec => [](BooksInv /\ Priced /\ Balanced)
<1>1. Spec => []LedgerIInv
  BY LedgerStart, LedgerStep, PTL DEF Spec
<1>2. LedgerIInv => BooksInv /\ Priced /\ Balanced
  BY DEF LedgerIInv
<1> QED
  BY <1>1, <1>2, PTL

\* A call that is closed, and its reservation, are never touched again, by a
\* late answer to _finish_attempt or by reconcile_stale_started.
THEOREM ClosedForGood == Spec => ClosedIsFinal
<1>1. ASSUME LedgerIInv, [Next]_lvars, NEW c \in Calls, calls[c].status \in Terminal
      PROVE  calls'[c] = calls[c] /\ reservations'[c] = reservations[c]
  <2>0. /\ calls \in [Calls -> Call] /\ reservations \in [Calls -> Reservation]
        /\ calls[c].status # "started" /\ calls[c].status # "none"
        /\ Commercial => reservations[c].state # "reserved"
        /\ Commercial \in BOOLEAN
    BY <1>1, CallLedgerAssumption DEF LedgerIInv, BooksInv, TypeOK, Terminal, OpenTogether
  <2>1. CASE UNCHANGED lvars
    BY <2>1 DEF lvars
  <2>2. ASSUME NEW f \in Fundings, NEW a \in Amounts, Fund(f, a)
        PROVE  calls'[c] = calls[c] /\ reservations'[c] = reservations[c]
    BY <2>2 DEF Fund
  <2>3. ASSUME NEW d \in Calls, NEW t \in Turns, NEW q \in Quotes \cup {NoQuote}, Start(d, t, q)
        PROVE  calls'[c] = calls[c] /\ reservations'[c] = reservations[c]
    BY <2>0, <2>3 DEF Start, NoCall
  <2>4. ASSUME NEW d \in Calls, NEW status \in Terminal, NEW error \in Errors \ {"stale"},
               Finish(d, status, error)
        PROVE  calls'[c] = calls[c] /\ reservations'[c] = reservations[c]
    BY <2>0, <2>4 DEF Finish
  <2>5. CASE Reconcile
    BY <2>0, <2>5 DEF Reconcile, Stale
  <2>6. ASSUME NEW d \in Calls, Age(d)
        PROVE  calls'[c] = calls[c] /\ reservations'[c] = reservations[c]
    BY <2>0, <2>6 DEF Age
  <2> QED
    BY <1>1, <2>1, <2>2, <2>3, <2>4, <2>5, <2>6 DEF Next
<1>2. LedgerIInv /\ [Next]_lvars =>
        [\A c \in Calls :
           calls[c].status \in Terminal =>
             /\ calls'[c] = calls[c]
             /\ reservations'[c] = reservations[c]]_lvars
  BY <1>1
<1>3. Spec => []LedgerIInv
  BY LedgerStart, LedgerStep, PTL DEF Spec
<1> QED
  BY <1>2, <1>3, PTL DEF Spec, ClosedIsFinal

-----------------------------------------------------------------------------
(* The promise of the budget. *)

\* How a purchase stands, as the budget sees it.
Standing == [c \in Calls |-> [state |-> BudgetState(reservations[c].state),
                              price |-> reservations[c].quote]]

LEMMA StandingOf ==
  ASSUME TypeOK, NEW c \in Calls
  PROVE  /\ Standing[c].state = BudgetState(reservations[c].state)
         /\ Standing[c].price = reservations[c].quote
         /\ Promise!Kept(c) = KeptOf(reservations[c])
<1>1. reservations[c].state \in {"none", "reserved", "captured", "released", "review_required"}
  BY DEF TypeOK, Reservation
<1> QED
  BY <1>1 DEF Standing, Promise!Kept, BudgetState, KeptOf

\* What the budget takes for free is what start_attempt computes.
LEMMA FreeIsAvailable ==
  ASSUME LedgerIInv
  PROVE  Promise!Free = Available
<1>1. \A c \in Calls : Promise!Kept(c) = KeptNow[c]
  BY StandingOf DEF LedgerIInv, BooksInv, KeptNow
<1>2. Promise!KeptUnits = Units(KeptNow)
  <2>1. DOMAIN KeptNow = Calls
    BY DEF KeptNow
  <2> QED
    BY <1>1, <2>1, Zenon DEF Promise!KeptUnits, Units
<1>3. Promise!Cardinality(Promise!KeptUnits) = Total(KeptNow)
  <2>1. Promise!Cardinality(Units(KeptNow)) = Cardinality(Units(KeptNow))
    BY Zenon DEF Promise!Cardinality, Cardinality, Promise!IsFiniteSet, IsFiniteSet
  <2> QED
    BY <1>2, <2>1, Zenon DEF Total
<1>4. /\ Available = Income(entries) - Held(entries)
      /\ Income(entries) = Funded(entries) + Returned(entries)
      /\ Held(entries) = Total(KeptNow) + Returned(entries)
      /\ Sum({"funding"}) = Funded(entries)
  BY BooksByKind DEF LedgerIInv, Sum, Funded, SumOf
<1>5. \A kinds \in KindSets : SumOf(entries, kinds) \in Nat
  BY FS_CardinalityType DEF LedgerIInv, Counted, SumOf, Total
<1>6. Funded(entries) \in Nat /\ Returned(entries) \in Nat
  BY <1>5 DEF KindSets, Funded, Returned
<1>7. Total(KeptNow) \in Nat
  BY FS_CardinalityType DEF LedgerIInv, Balanced, Total
<1> QED
  BY <1>3, <1>4, <1>6, <1>7 DEF Promise!Free

\* The ledger implements Budget: a purchase begins only with money that is
\* there, ends once, and then costs its price, nothing, or stays in dispute.
THEOREM BudgetKept == Spec => KeepsBudget
<1>1. Init => Promise!Init
  <2> SUFFICES ASSUME Init PROVE Promise!Init
    OBVIOUS
  <2>1. \A c \in Calls : Standing[c].state = "none"
    BY DEF Init, Standing, BudgetState, NoReservation
  <2>2. Units(AmountsOf(entries, {"funding"})) = {}
    BY DEF Init, Units, AmountsOf
  <2>3. Sum({"funding"}) = 0
    BY <2>2, FS_EmptySet DEF Sum, Total
  <2> QED
    BY <2>1, <2>3 DEF Promise!Init, Standing
<1>2. LedgerIInv /\ LedgerIInv' /\ [Next]_lvars => [Promise!Next]_(Promise!bvars)
  <2> SUFFICES ASSUME LedgerIInv, LedgerIInv', [Next]_lvars
               PROVE  [Promise!Next]_(Promise!bvars)
    OBVIOUS
  <2>0. /\ TypeOK /\ TypeOK' /\ Counted(entries)
        /\ reservations \in [Calls -> Reservation] /\ reservations' \in [Calls -> Reservation]
    BY DEF LedgerIInv, BooksInv, TypeOK
  <2>a. ASSUME reservations' = reservations, Funded(entries') = Funded(entries)
        PROVE  UNCHANGED Promise!bvars
    <3>1. Sum({"funding"})' = Sum({"funding"})
      BY <2>a DEF Sum, Funded, SumOf
    <3> QED
      BY <2>a, <3>1 DEF Promise!bvars
  <2>1. CASE UNCHANGED lvars
    <3>1. reservations' = reservations /\ Funded(entries') = Funded(entries)
      BY <2>1 DEF lvars
    <3> QED
      BY <2>a, <3>1
  <2>2. ASSUME NEW f \in Fundings, NEW a \in Amounts, Fund(f, a)
        PROVE  Promise!Next
    <3> DEFINE e == Entry("funding", f, a)
    <3>1. /\ e.kind = "funding" /\ e.amount = a /\ e.amount \in Nat \ {0}
          /\ e \notin entries /\ entries' = entries \cup {e}
          /\ reservations' = reservations
      BY <2>2, CallLedgerAssumption DEF Fund, Insert, Entry
    <3> HIDE DEF e
    <3>2. Funded(entries') = Funded(entries) + a /\ Funded(entries) \in Nat
      BY <2>0, <3>1, BookingNext
    <3>3. Sum({"funding"})' > Sum({"funding"})
      BY <3>1, <3>2 DEF Sum, Funded, SumOf
    <3> QED
      BY <3>1, <3>3 DEF Promise!Next, Promise!PutIn
  <2>3. ASSUME NEW c \in Calls, NEW t \in Turns, NEW q \in Quotes \cup {NoQuote}, Start(c, t, q)
        PROVE  [Promise!Next]_(Promise!bvars)
    <3>1. CASE q = NoQuote
      <4>1. reservations' = reservations /\ Funded(entries') = Funded(entries)
        BY <2>3, <3>1 DEF Start
      <4> QED
        BY <2>a, <4>1
    <3>2. CASE q # NoQuote
      <4> DEFINE e == Entry("hold", c, q.reserve)
                 r == [state |-> "reserved", quote |-> q]
      <4>1. /\ q \in Quotes /\ q.reserve \in Nat \ {0}
            /\ reservations[c] = NoReservation /\ Available >= q.reserve
            /\ reservations' = [reservations EXCEPT ![c] = r]
            /\ e \notin entries /\ entries' = entries \cup {e}
            /\ e.kind = "hold" /\ e.amount \in Nat \ {0}
        BY <2>3, <3>2, CallLedgerAssumption DEF Start, Insert, Entry
      <4>2. Standing' = [Standing EXCEPT ![c] = [state |-> "held", price |-> q]]
        BY <2>0, <4>1 DEF Standing, BudgetState
      <4>3. Standing[c].state = "none" /\ Standing'[c].price = q
        BY <2>0, <4>1, <4>2 DEF Standing, BudgetState, NoReservation
      <4> HIDE DEF e, r
      <4>4. Funded(entries') = Funded(entries)
        <5>1. e \notin entries /\ entries' = entries \cup {e}
              /\ e.kind # "funding" /\ e.amount \in Nat \ {0}
          BY <4>1
        <5>2. /\ Funded(entries') = Funded(entries) + (IF e.kind = "funding" THEN e.amount ELSE 0)
              /\ Funded(entries) \in Nat
          BY <2>0, <5>1, BookingNext, Zenon
        <5> QED
          BY <5>1, <5>2
      <4>5. Sum({"funding"})' = Sum({"funding"})
        BY <4>4 DEF Sum, Funded, SumOf
      <4>6. Promise!Free >= q.reserve
        BY <4>1, FreeIsAvailable
      <4>7. Promise!Begin(c)
        BY <4>1, <4>2, <4>3, <4>5, <4>6 DEF Promise!Begin, Standing
      <4> QED
        BY <4>7 DEF Promise!Next
    <3> QED
      BY <3>1, <3>2
  <2>4. ASSUME NEW c \in Calls, NEW status \in Terminal, NEW error \in Errors \ {"stale"},
               Finish(c, status, error)
        PROVE  [Promise!Next]_(Promise!bvars)
    <3>1. CASE reservations[c] = NoReservation
      <4>1. reservations' = reservations /\ Funded(entries') = Funded(entries)
        BY <2>4, <3>1 DEF Finish
      <4> QED
        BY <2>a, <4>1
    <3>2. CASE reservations[c] # NoReservation
      <4> DEFINE o == Outcome(status, error)
      <4>1. /\ reservations[c].state = "reserved" /\ reservations[c].quote \in Quotes
            /\ Insert(Settlement(c, o))
            /\ reservations' = [reservations EXCEPT ![c].state = o]
            /\ o \in {"captured", "released", "review_required"}
        BY <2>4, <3>2 DEF Finish, LedgerIInv, Priced, Outcome
      <4> HIDE DEF o
      <4>2. Sum({"funding"})' = Sum({"funding"})
        <5>1. Funded(entries') = Funded(entries)
          BY <2>0, <4>1, SettlementSums
        <5> QED
          BY <5>1 DEF Sum, Funded, SumOf
      <4>3. Standing[c].state = "held"
        BY <4>1 DEF Standing, BudgetState
      <4>4. Standing' = [p \in Calls |->
                IF p \in {c} THEN [Standing[p] EXCEPT !.state = BudgetState(o)] ELSE Standing[p]]
        BY <2>0, <4>1 DEF Standing, Reservation
      <4>5. Promise!End({c}, BudgetState(o))
        BY <4>2, <4>3, <4>4 DEF Promise!End, Standing
      <4>6. BudgetState(o) \in {"paid", "returned", "disputed"}
        BY <4>1 DEF BudgetState
      <4> QED
        BY <4>5, <4>6 DEF Promise!Next
    <3> QED
      BY <3>1, <3>2
  <2>5. CASE Reconcile
    <3> DEFINE ps == {c \in Stale : reservations[c].state = "reserved"}
    <3>1. Standing' = [p \in Calls |->
                IF p \in ps THEN [Standing[p] EXCEPT !.state = "disputed"] ELSE Standing[p]]
      BY <2>0, <2>5 DEF Reconcile, Standing, BudgetState, Reservation
    <3>2. ps \in SUBSET Calls /\ \A p \in ps : Standing[p].state = "held"
      BY DEF Stale, Standing, BudgetState
    <3>3. Sum({"funding"})' = Sum({"funding"})
      BY <2>5 DEF Reconcile, Sum
    <3> HIDE DEF ps
    <3>4. Promise!End(ps, "disputed")
      BY <3>1, <3>2, <3>3 DEF Promise!End, Standing
    <3> QED
      BY <3>2, <3>4 DEF Promise!Next
  <2>6. ASSUME NEW c \in Calls, Age(c)
        PROVE  UNCHANGED Promise!bvars
    <3>1. reservations' = reservations /\ Funded(entries') = Funded(entries)
      BY <2>6 DEF Age
    <3> QED
      BY <2>a, <3>1
  <2> QED
    BY <2>1, <2>2, <2>3, <2>4, <2>5, <2>6 DEF Next
<1>3. LedgerIInv /\ [Next]_lvars => [Promise!Next]_(Promise!bvars)
  BY <1>2, LedgerStep
<1>4. Spec => []LedgerIInv
  BY LedgerStart, LedgerStep, PTL DEF Spec
<1> QED
  BY <1>1, <1>3, <1>4, PTL DEF Spec, KeepsBudget, Promise!Spec
=============================================================================
