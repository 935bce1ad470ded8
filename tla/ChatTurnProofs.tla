--------------------------- MODULE ChatTurnProofs ---------------------------
(***************************************************************************)
(* Proofs about ChatTurn, for any turns, models, handlers and limits: one  *)
(* agent at most reaches a provider for a turn, clients are told the same, *)
(* and the receipts keep the promise of a turn.                            *)
(***************************************************************************)
EXTENDS ChatTurn, FiniteSetTheorems, TLAPS

LEMMA Constants ==
  /\ TurnOf \in [Handlers -> Turns] /\ Required \in BOOLEAN /\ MaxFaults \in Nat
  /\ None \notin Models /\ None \notin Handlers /\ None \notin Responses
  /\ None # "result" /\ None # "notice"
  /\ MaxReceipts \in Nat /\ MaxReceipts > 0
BY ChatTurnAssumption
   DEF Ledger!TurnRequestsAssumption, Store!TurnReceiptsAssumption, Responses

-----------------------------------------------------------------------------
(* Types.                                                                  *)

\* Who asks has a model, and who is about to answer has the response.
Equipped ==
  \A h \in Handlers :
    /\ handlers[h].pc \notin {"idle", "end"} => handlers[h].model \in Models
    /\ handlers[h].pc \in {"replay", "notice_succeed", "succeed"} =>
         handlers[h].response \in Responses

\* A receipt is whole.
WholeReceipts ==
  \A t \in Turns :
    /\ Store!Committed(t) => receipts[t].request \in Models /\ receipts[t].response \in Responses
    /\ ~ Store!Committed(t) => receipts[t].request = None /\ receipts[t].response = None
                               /\ ~ receipts[t].old

Types == TypeOK /\ Equipped /\ WholeReceipts

\* A prune takes whole rows, and never the row at hand.
Pruned(kept, t) ==
  /\ kept \in [Turns -> Ledger!Row] /\ kept[t] = rows[t]
  /\ \A u \in Turns : kept[u] = rows[u] \/ kept[u] = Ledger!NoRow

LEMMA WithoutPrunes ==
  ASSUME TypeOK, NEW t \in Turns, NEW V, t \notin V
  PROVE  Pruned(Ledger!Without(V), t)
<1>1. rows \in [Turns -> Ledger!Row] /\ Ledger!NoRow \in Ledger!Row
  BY DEF TypeOK, Ledger!Row, Ledger!NoRow
<1> QED
  BY <1>1 DEF Pruned, Ledger!Without

LEMMA ClaimPrunes ==
  ASSUME TypeOK, NEW t \in Turns, NEW kept \in Ledger!PrunedForClaim(t)
  PROVE  Pruned(kept, t)
<1> DEFINE dated == {u \in Ledger!Removable(t) : rows[u].old}
<1>1. \E n : \E V \in Ledger!Some(Ledger!Removable(t) \ dated, n) : kept = Ledger!Without(dated \cup V)
  BY Zenon DEF Ledger!PrunedForClaim
<1>2. PICK V : kept = Ledger!Without(dated \cup V) /\ V \subseteq Ledger!Removable(t)
  BY <1>1 DEF Ledger!Some
<1>3. t \notin dated \cup V
  BY <1>2 DEF Ledger!Removable
<1> QED
  BY <1>2, <1>3, WithoutPrunes

LEMMA ResponsePrunes ==
  ASSUME TypeOK, NEW t \in Turns, NEW kept \in Ledger!PrunedForResponse(t)
  PROVE  Pruned(kept, t)
<1> DEFINE dated == {u \in Ledger!Removable(t) : rows[u].old}
           stored == {u \in Turns \ dated : rows[u].response # None}
<1>1. \E n : \E V \in Ledger!Some(stored \ {t}, n) : kept = Ledger!Without(dated \cup V)
  BY Zenon DEF Ledger!PrunedForResponse
<1>2. PICK V : kept = Ledger!Without(dated \cup V) /\ V \subseteq stored \ {t}
  BY <1>1 DEF Ledger!Some
<1>3. t \notin dated \cup V
  BY <1>2 DEF Ledger!Removable
<1> QED
  BY <1>2, <1>3, WithoutPrunes

Row == Ledger!Row
NoRow == Ledger!NoRow

\* The rows of other turns stay, or are pruned.
OthersKept(t) ==
  /\ rows' \in [Turns -> Row]
  /\ \A u \in Turns : rows'[u].status = "succeeded" <=> rows'[u].response # None
  /\ \A u \in Turns : u # t => rows'[u] = rows[u] \/ rows'[u] = NoRow

LEMMA ClaimMoves ==
  ASSUME TypeOK, NEW t \in Turns, NEW r \in Models, NEW h \in Handlers, NEW outcome,
         Ledger!Claim(t, r, h, outcome)
  PROVE  /\ OthersKept(t)
         /\ \/ rows'[t] = rows[t]
            \/ rows'[t] = Ledger!Claimed(rows[t], r, h)
         /\ outcome = "succeeded" => /\ rows[t].status = "succeeded" /\ rows[t].request = r
                                     /\ rows'[t] = rows[t]
<1>1. PICK kept \in Ledger!PrunedForClaim(t) :
        /\ outcome = Ledger!ClaimOutcome(kept, t, r)
        /\ rows' = IF outcome \in {"claimed", "recovery_required"}
                   THEN [kept EXCEPT ![t] = Ledger!Claimed(kept[t], r, h)] ELSE kept
  BY DEF Ledger!Claim
<1>2. Pruned(kept, t)
  BY ClaimPrunes
<1>3. /\ \A u \in Turns : rows[u].status = "succeeded" <=> rows[u].response # None
      /\ NoRow.status = "none" /\ NoRow.response = None
  BY DEF TypeOK, NoRow, Ledger!NoRow
<1>4. Ledger!Claimed(rows[t], r, h) \in Row
  <2>1. rows[t] \in Ledger!Row
    BY DEF TypeOK
  <2> QED
    BY <2>1 DEF Row, Ledger!Row, Ledger!Claimed
<1>5. /\ Ledger!Claimed(rows[t], r, h).status = "processing"
      /\ Ledger!Claimed(rows[t], r, h).response = None
  BY DEF TypeOK, Ledger!Row, Ledger!Claimed
<1>6. CASE outcome \in {"claimed", "recovery_required"}
  <2>1. rows' = [kept EXCEPT ![t] = Ledger!Claimed(rows[t], r, h)]
    BY <1>1, <1>2, <1>6 DEF Pruned
  <2>2. rows' \in [Turns -> Row]
    BY <1>2, <1>4, <2>1 DEF Pruned, Row
  <2>3. /\ rows'[t] = Ledger!Claimed(rows[t], r, h)
        /\ \A u \in Turns : u # t => rows'[u] = rows[u] \/ rows'[u] = NoRow
    BY <1>2, <2>1 DEF Pruned, NoRow
  <2> QED
    BY <1>3, <1>5, <1>6, <2>2, <2>3 DEF OthersKept
<1>7. CASE ~ (outcome \in {"claimed", "recovery_required"})
  <2>1. rows' = kept
    BY <1>1, <1>7
  <2>2. OthersKept(t) /\ rows'[t] = rows[t]
    BY <1>2, <1>3, <2>1 DEF OthersKept, Pruned, NoRow, Row
  <2>3. outcome = "succeeded" => rows[t].status = "succeeded" /\ rows[t].request = r
    BY <1>1, <1>2 DEF Pruned, Ledger!ClaimOutcome
  <2> QED
    BY <2>2, <2>3
<1> QED
  BY <1>6, <1>7

LEMMA SucceedMoves ==
  ASSUME TypeOK, NEW t \in Turns, NEW r \in Models, NEW h \in Handlers,
         NEW response \in Responses, NEW done \in BOOLEAN,
         Ledger!Succeed(t, r, h, response, done)
  PROVE  /\ OthersKept(t)
         /\ \/ ~ done /\ rows'[t] = rows[t]
            \/ /\ done /\ rows'[t].status = "succeeded"
               /\ rows'[t].request = r /\ rows'[t].response = response
<1>1. PICK kept \in Ledger!PrunedForResponse(t) :
        /\ done = Ledger!Owns(t, r, h)
        /\ rows' = IF done
                   THEN [kept EXCEPT ![t] =
                          [@ EXCEPT !.status = "succeeded", !.token = None,
                                    !.leased = FALSE, !.response = response]]
                   ELSE kept
  BY DEF Ledger!Succeed
<1>2. Pruned(kept, t)
  BY ResponsePrunes
<1>3. /\ \A u \in Turns : rows[u].status = "succeeded" <=> rows[u].response # None
      /\ NoRow.status = "none" /\ NoRow.response = None
  BY DEF TypeOK, NoRow, Ledger!NoRow
<1> DEFINE row == [rows[t] EXCEPT !.status = "succeeded", !.token = None,
                                  !.leased = FALSE, !.response = response]
<1>4. CASE done
  <2>1. row \in Row /\ row.status = "succeeded" /\ row.response = response
        /\ row.request = rows[t].request
    BY DEF TypeOK, Row, Ledger!Row
  <2>2. rows[t].request = r
    BY <1>1, <1>4 DEF Ledger!Owns
  <2>3. rows' = [kept EXCEPT ![t] = row]
    BY <1>1, <1>2, <1>4 DEF Pruned
  <2> HIDE DEF row
  <2>4. /\ rows' \in [Turns -> Row] /\ rows'[t] = row
        /\ \A u \in Turns : u # t => rows'[u] = rows[u] \/ rows'[u] = NoRow
    BY <1>2, <2>1, <2>3 DEF Pruned, NoRow, Row
  <2> QED
    BY <1>3, <1>4, <2>1, <2>2, <2>4, Constants DEF OthersKept
<1>5. CASE ~ done
  <2>1. rows' = kept
    BY <1>1, <1>5
  <2> QED
    BY <1>2, <1>3, <1>5, <2>1 DEF OthersKept, Pruned, NoRow, Row
<1> QED
  BY <1>4, <1>5

-----------------------------------------------------------------------------
(* The store of receipts: what each operation does to it.                  *)

Bare(t) == receipts[t].response = None
Kept == UNCHANGED <<receipts, reservations>>

Books(t, r) ==
  /\ Bare(t) /\ reservations[t].state \in {"none", "abandoned"}
  /\ reservations[t].state = "none" \/ reservations[t].request = r
  /\ Store!HasRoom(Store!Protected)
  /\ receipts' = Store!Protected
  /\ reservations' = [reservations EXCEPT ![t] = Store!Reserved(r, "reserved")]

\* A reservation enters the provider phase, or is given up.
Leaves(t, state) ==
  /\ Bare(t) /\ reservations[t].state = "reserved"
  /\ reservations' = [reservations EXCEPT ![t].state = state]
  /\ UNCHANGED receipts

Writes(t, r, a) ==
  /\ Bare(t) /\ reservations[t].state = "provider_started" /\ reservations[t].request = r
  /\ receipts' = [receipts EXCEPT ![t] = [request |-> r, response |-> a, old |-> FALSE]]
  /\ reservations' = [reservations EXCEPT ![t] = Store!NoReservation]

LEMMA CommittedIsNotBare ==
  ASSUME Types, NEW t \in Turns
  PROVE  /\ Store!Committed(t) <=> ~ Bare(t)
         /\ Bare(t) => Store!State(t) = reservations[t].state
                       /\ Store!Bound(t) = reservations[t].request
         /\ ~ Bare(t) => Store!State(t) = "committed" /\ Store!Bound(t) = receipts[t].request
<1>1. Store!Committed(t) <=> ~ Bare(t)
  BY Constants DEF Types, WholeReceipts, Bare
<1> QED
  BY <1>1 DEF Store!State, Store!Bound

LEMMA ReserveMoves ==
  ASSUME Types, NEW t \in Turns, NEW r \in Models, NEW outcome, Store!Reserve(t, r, outcome)
  PROVE  /\ outcome \in {"reserved", "provider_started", "committed", "conflict", "unavailable"}
         /\ Kept \/ (Books(t, r) /\ outcome = "reserved")
         /\ outcome = "committed" => ~ Bare(t) /\ receipts[t].request = r
         /\ ~ Bare(t) => outcome \in {"committed", "conflict"}
         /\ outcome = "reserved" => reservations[t].state \in {"none", "abandoned", "reserved"}
         /\ outcome = "provider_started" => reservations[t].state = "provider_started"
<1>0. reservations[t].state \in {"none", "reserved", "provider_started", "abandoned"}
  BY DEF Types, TypeOK, Store!Reservation
<1>1. CASE Store!Conflicts(t, r)
  BY <1>1, CommittedIsNotBare DEF Store!Reserve, Kept, Store!tvars
<1>2. CASE ~ Store!Conflicts(t, r) /\ Store!State(t) \in {"none", "abandoned"}
  <2>1. Bare(t) /\ Store!State(t) = reservations[t].state
        /\ (reservations[t].state = "none" \/ reservations[t].request = r)
    BY <1>2, CommittedIsNotBare DEF Store!Conflicts
  <2>2. Store!NewReservation(t, r, "reserved", outcome)
    BY <1>2 DEF Store!Reserve
  <2>3. CASE Store!HasRoom(Store!Protected)
    BY <1>2, <2>1, <2>2, <2>3 DEF Store!NewReservation, Books
  <2>4. CASE ~ Store!HasRoom(Store!Protected)
    BY <2>1, <2>2, <2>4 DEF Store!NewReservation, Kept, Store!tvars
  <2> QED
    BY <2>3, <2>4
<1>3. CASE ~ Store!Conflicts(t, r) /\ ~ (Store!State(t) \in {"none", "abandoned"})
  <2>1. outcome = Store!State(t) /\ Kept
    BY <1>3 DEF Store!Reserve, Kept, Store!tvars
  <2>2. Store!State(t) # "none" => Store!Bound(t) = r
    BY <1>3 DEF Store!Conflicts
  <2> QED
    BY <1>0, <1>3, <2>1, <2>2, CommittedIsNotBare
<1> QED
  BY <1>1, <1>2, <1>3

LEMMA EnterMoves ==
  ASSUME Types, NEW t \in Turns, NEW r \in Models, NEW outcome, Store!EnterTurn(t, r, outcome)
  PROVE  /\ Kept \/ Leaves(t, "provider_started")
         /\ outcome = "provider_started" =>
              /\ Bare(t) /\ reservations[t].request = r
              /\ reservations[t].state \in {"reserved", "provider_started"}
              /\ reservations'[t].state = "provider_started"
              /\ receipts' = receipts
<1>0. reservations[t].state \in {"none", "reserved", "provider_started", "abandoned"}
      /\ reservations \in [Turns -> Store!Reservation]
  BY DEF Types, TypeOK, Store!Reservation
<1>1. CASE Store!State(t) = "reserved" /\ ~ Store!Conflicts(t, r)
  <2>1. reservations' = [reservations EXCEPT ![t].state = "provider_started"]
        /\ receipts' = receipts
    BY <1>1 DEF Store!EnterTurn
  <2>2. Bare(t) /\ reservations[t].state = "reserved" /\ reservations[t].request = r
    BY <1>1, CommittedIsNotBare DEF Store!Conflicts
  <2>3. reservations'[t].state = "provider_started"
    BY <1>0, <2>1 DEF Store!Reservation
  <2> QED
    BY <2>1, <2>2, <2>3 DEF Leaves
<1>2. CASE ~ (Store!State(t) = "reserved" /\ ~ Store!Conflicts(t, r))
  <2>1. Kept
    BY <1>2 DEF Store!EnterTurn, Kept
  <2>2. outcome = "provider_started" => Store!State(t) = "provider_started" /\ ~ Store!Conflicts(t, r)
    BY <1>2 DEF Store!EnterTurn
  <2> QED
    BY <2>1, <2>2, CommittedIsNotBare DEF Store!Conflicts, Kept
<1> QED
  BY <1>1, <1>2

LEMMA CommitMoves ==
  ASSUME Types, NEW t \in Turns, NEW r \in Models, NEW a \in Responses, NEW outcome,
         Store!Commit(t, r, a, outcome)
  PROVE  /\ Kept \/ (Writes(t, r, a) /\ outcome = a)
         /\ outcome # None => /\ receipts'[t].request = r /\ receipts'[t].response = outcome
                              /\ outcome \in Responses
<1>0. receipts \in [Turns -> Store!Receipt]
  BY DEF Types, TypeOK
<1>1. CASE Store!Conflicts(t, r) \/ ~ (Store!State(t) \in {"provider_started", "committed"})
  BY <1>1 DEF Store!Commit, Kept, Store!tvars
<1>2. CASE ~ Store!Conflicts(t, r) /\ Store!Committed(t)
  <2>1. Store!State(t) = "committed" /\ Store!Bound(t) = receipts[t].request
    BY <1>2, CommittedIsNotBare
  <2>2. Kept /\ outcome = receipts[t].response
    BY <1>2, <2>1 DEF Store!Commit, Kept, Store!tvars
  <2>3. receipts[t].request = r
    BY <1>2, <2>1 DEF Store!Conflicts
  <2> QED
    BY <1>2, <2>2, <2>3 DEF Kept, Types, WholeReceipts
<1>3. CASE ~ Store!Conflicts(t, r) /\ ~ Store!Committed(t) /\ Store!State(t) \in {"provider_started", "committed"}
  <2>1. Bare(t) /\ Store!State(t) = reservations[t].state /\ reservations[t].request = r
    BY <1>3, CommittedIsNotBare DEF Store!Conflicts
  <2>2. reservations[t].state = "provider_started"
    BY <1>3, <2>1 DEF Types, TypeOK, Store!Reservation
  <2>3. /\ outcome = a
        /\ receipts' = [receipts EXCEPT ![t] = [request |-> r, response |-> a, old |-> FALSE]]
        /\ reservations' = [reservations EXCEPT ![t] = Store!NoReservation]
    BY <1>3 DEF Store!Commit
  <2>4. receipts'[t].request = r /\ receipts'[t].response = a
    BY <1>0, <2>3
  <2> QED
    BY <2>1, <2>2, <2>3, <2>4 DEF Writes
<1> QED
  BY <1>1, <1>2, <1>3

Ages(t) ==
  /\ receipts' = [receipts EXCEPT ![t].old = Store!Committed(t)]
  /\ UNCHANGED reservations

CalmMoves ==
  \/ Kept
  \/ \E t \in Turns :
       \/ \E r \in Models : Books(t, r)
       \/ \E state \in {"provider_started", "abandoned"} : Leaves(t, state)
       \/ \E r \in Models, a \in Responses : Writes(t, r, a)

StoreMoves == CalmMoves \/ \E t \in Turns : Ages(t)

Occupied == Store!Occupied(receipts, reservations)

\* A turn has a receipt or a reservation, never both, and the reservation is
\* bound; together they fit in the room there is.
StoreInv ==
  /\ \A t \in Turns :
       /\ ~ Bare(t) => reservations[t] = Store!NoReservation
       /\ reservations[t].state = "none" <=> reservations[t].request = None
  /\ IsFiniteSet(Occupied) /\ Cardinality(Occupied) <= MaxReceipts

StoreTypes ==
  /\ receipts \in [Turns -> Store!Receipt] /\ reservations \in [Turns -> Store!Reservation]
  /\ WholeReceipts

\* One turn's receipt and reservation are replaced, and receipts that are not
\* protected any more may go.
LEMMA BooksTypes ==
  ASSUME Types, StoreInv, NEW t \in Turns, NEW r \in Models, Books(t, r)
  PROVE  /\ StoreTypes' /\ Bare(t)' /\ reservations'[t] = Store!Reserved(r, "reserved")
         /\ \A u \in Turns : u # t => reservations'[u] = reservations[u]
         /\ \A u \in Turns : receipts'[u] = IF receipts[u].old THEN Store!NoReceipt ELSE receipts[u]
<1>0. /\ receipts \in [Turns -> Store!Receipt] /\ reservations \in [Turns -> Store!Reservation]
      /\ None # "result" /\ None # "notice"
  BY Constants DEF Types, TypeOK
<1>1. /\ Store!NoReceipt \in Store!Receipt /\ Store!Reserved(r, "reserved") \in Store!Reservation
      /\ Store!NoReceipt.response = None /\ Store!NoReceipt.request = None /\ ~ Store!NoReceipt.old
  BY DEF Store!NoReceipt, Store!Receipt, Store!Reserved, Store!Reservation
<1>2. \A u \in Turns : receipts'[u] = IF receipts[u].old THEN Store!NoReceipt ELSE receipts[u]
  BY DEF Books, Store!Protected
<1>3. receipts' \in [Turns -> Store!Receipt]
  BY <1>0, <1>1 DEF Books, Store!Protected
<1>4. /\ reservations' \in [Turns -> Store!Reservation]
      /\ reservations'[t] = Store!Reserved(r, "reserved")
      /\ \A u \in Turns : u # t => reservations'[u] = reservations[u]
  BY <1>0, <1>1 DEF Books
<1>5. WholeReceipts'
  BY <1>1, <1>2 DEF Types, WholeReceipts, Store!Committed
<1>6. Bare(t)'
  BY <1>1, <1>2 DEF Books, Bare
<1> QED
  BY <1>2, <1>3, <1>4, <1>5, <1>6 DEF StoreTypes

LEMMA SameCardinality == ASSUME NEW S PROVE Store!Cardinality(S) = Cardinality(S)
BY Zenon DEF Store!Cardinality, Cardinality, Store!IsFiniteSet, IsFiniteSet

LEMMA BooksInv ==
  ASSUME Types, StoreInv, NEW t \in Turns, NEW r \in Models, Books(t, r)
  PROVE  StoreInv'
<1> DEFINE Left == Store!Occupied(Store!Protected, reservations)
<1>0. /\ Bare(t)' /\ reservations'[t] = Store!Reserved(r, "reserved")
      /\ \A u \in Turns : u # t => reservations'[u] = reservations[u]
      /\ \A u \in Turns : receipts'[u] = IF receipts[u].old THEN Store!NoReceipt ELSE receipts[u]
      /\ receipts' = Store!Protected
  BY BooksTypes DEF Books
<1>1. \A u \in Turns :
        /\ ~ Bare(u)' => reservations'[u] = Store!NoReservation
        /\ reservations'[u].state = "none" <=> reservations'[u].request = None
  BY <1>0, Constants DEF StoreInv, Bare, Store!NoReceipt, Store!Reserved
<1>2. Left \subseteq Occupied
  BY DEF Occupied, Store!Occupied, Store!Protected
<1>3. Occupied' = Left \cup {t}
  <2>1. \A u \in Turns : reservations'[u].state \in {"reserved", "provider_started"}
                       <=> u = t \/ reservations[u].state \in {"reserved", "provider_started"}
    BY <1>0 DEF Store!Reserved
  <2>2. Occupied' = {u \in Turns : Store!Protected[u] # Store!NoReceipt} \cup
                    {u \in Turns : reservations'[u].state \in {"reserved", "provider_started"}}
    BY <1>0, Zenon DEF Occupied, Store!Occupied
  <2>3. Left = {u \in Turns : Store!Protected[u] # Store!NoReceipt} \cup
               {u \in Turns : reservations[u].state \in {"reserved", "provider_started"}}
    BY Zenon DEF Store!Occupied
  <2> HIDE DEF Left
  <2>4. {u \in Turns : reservations'[u].state \in {"reserved", "provider_started"}}
        = {u \in Turns : reservations[u].state \in {"reserved", "provider_started"}} \cup {t}
    BY <2>1
  <2> QED
    BY <2>2, <2>3, <2>4
<1>4. IsFiniteSet(Left) /\ Cardinality(Left) \in Nat /\ Cardinality(Left) + 1 <= MaxReceipts
  <2>1. Store!Cardinality(Left) = Cardinality(Left)
    BY SameCardinality
  <2>2. Store!Cardinality(Left) + 1 <= MaxReceipts
    BY Zenon DEF Books, Store!HasRoom
  <2> HIDE DEF Left
  <2> QED
    BY <1>2, <2>1, <2>2, FS_Subset, FS_CardinalityType DEF StoreInv
<1> HIDE DEF Left
<1>5. /\ IsFiniteSet(Left \cup {t})
      /\ \/ Cardinality(Left \cup {t}) = Cardinality(Left)
         \/ Cardinality(Left \cup {t}) = Cardinality(Left) + 1
  BY <1>4, FS_AddElement, Zenon
<1>6. Cardinality(Left \cup {t}) <= MaxReceipts
  BY <1>4, <1>5, Constants
<1>7. IsFiniteSet(Occupied') /\ Cardinality(Occupied') <= MaxReceipts
  BY <1>3, <1>5, <1>6, Zenon
<1> QED
  BY <1>1, <1>7 DEF StoreInv

LEMMA FewerOccupied ==
  ASSUME StoreInv, NEW S, S \subseteq Occupied
  PROVE  IsFiniteSet(S) /\ Cardinality(S) <= MaxReceipts
<1>1. IsFiniteSet(S) /\ Cardinality(S) <= Cardinality(Occupied)
      /\ Cardinality(S) \in Nat /\ Cardinality(Occupied) \in Nat
  BY FS_Subset, FS_CardinalityType DEF StoreInv
<1> QED
  BY <1>1, Constants DEF StoreInv

LEMMA StoreMoveInv ==
  ASSUME Types, StoreInv, StoreMoves
  PROVE  StoreTypes' /\ StoreInv'
<1>0. /\ receipts \in [Turns -> Store!Receipt] /\ reservations \in [Turns -> Store!Reservation]
      /\ None # "result" /\ None # "notice" /\ None \notin Models /\ None \notin Responses
  BY Constants DEF Types, TypeOK
<1>1. CASE Kept
  <2>1. StoreTypes'
    BY <1>0, <1>1 DEF Kept, StoreTypes, Types, WholeReceipts, Store!Committed
  <2>2. Occupied' \subseteq Occupied
    BY <1>1 DEF Kept, Occupied, Store!Occupied
  <2>3. IsFiniteSet(Occupied') /\ Cardinality(Occupied') <= MaxReceipts
    BY <2>2, FewerOccupied
  <2> QED
    BY <1>1, <2>1, <2>3 DEF StoreInv, Kept, Bare
<1>2. ASSUME NEW t \in Turns, NEW r \in Models, Books(t, r) PROVE StoreTypes' /\ StoreInv'
  BY <1>2, BooksTypes, BooksInv
<1>3. ASSUME NEW t \in Turns, NEW state \in {"provider_started", "abandoned"}, Leaves(t, state)
      PROVE  StoreTypes' /\ StoreInv'
  <2>1. /\ receipts' = receipts /\ reservations' \in [Turns -> Store!Reservation]
        /\ reservations'[t].state = state /\ reservations'[t].request = reservations[t].request
        /\ \A u \in Turns : u # t => reservations'[u] = reservations[u]
        /\ reservations[t].state = "reserved" /\ Bare(t)
    BY <1>0, <1>3 DEF Leaves, Store!Reservation
  <2>2. StoreTypes'
    BY <1>0, <2>1 DEF StoreTypes, Types, WholeReceipts, Store!Committed
  <2>3. Occupied' \subseteq Occupied
    BY <2>1 DEF Occupied, Store!Occupied
  <2>4. IsFiniteSet(Occupied') /\ Cardinality(Occupied') <= MaxReceipts
    BY <2>3, FewerOccupied
  <2>5. \A u \in Turns :
          /\ ~ Bare(u)' => reservations'[u] = Store!NoReservation
          /\ reservations'[u].state = "none" <=> reservations'[u].request = None
    BY <2>1 DEF StoreInv, Bare
  <2> QED
    BY <2>2, <2>4, <2>5 DEF StoreInv
<1>4. ASSUME NEW t \in Turns, NEW r \in Models, NEW a \in Responses, Writes(t, r, a)
      PROVE  StoreTypes' /\ StoreInv'
  <2> DEFINE new == [request |-> r, response |-> a, old |-> FALSE]
  <2>1. /\ receipts' = [receipts EXCEPT ![t] = new] /\ new \in Store!Receipt
        /\ new.request = r /\ new.response = a
        /\ reservations' = [reservations EXCEPT ![t] = Store!NoReservation]
        /\ Store!NoReservation \in Store!Reservation
        /\ Store!NoReservation.state = "none" /\ Store!NoReservation.request = None
        /\ new # Store!NoReceipt /\ reservations[t].state = "provider_started"
    BY <1>0, <1>4 DEF Writes, Store!Receipt, Store!Reservation, Store!NoReservation, Store!NoReceipt
  <2> HIDE DEF new
  <2>2. /\ receipts' \in [Turns -> Store!Receipt] /\ reservations' \in [Turns -> Store!Reservation]
        /\ receipts'[t] = new /\ reservations'[t] = Store!NoReservation
        /\ \A u \in Turns : u # t => receipts'[u] = receipts[u] /\ reservations'[u] = reservations[u]
    BY <1>0, <2>1
  <2>3. WholeReceipts'
    BY <1>0, <2>1, <2>2 DEF Types, WholeReceipts, Store!Committed
  <2>4. Occupied' \subseteq Occupied
    BY <2>1, <2>2 DEF Occupied, Store!Occupied
  <2>5. IsFiniteSet(Occupied') /\ Cardinality(Occupied') <= MaxReceipts
    BY <2>4, FewerOccupied
  <2>6. \A u \in Turns :
          /\ ~ Bare(u)' => reservations'[u] = Store!NoReservation
          /\ reservations'[u].state = "none" <=> reservations'[u].request = None
    BY <2>1, <2>2 DEF StoreInv, Bare
  <2> QED
    BY <2>2, <2>3, <2>5, <2>6 DEF StoreInv, StoreTypes
<1>5. ASSUME NEW t \in Turns, Ages(t) PROVE StoreTypes' /\ StoreInv'
  <2>1. /\ receipts' \in [Turns -> Store!Receipt] /\ reservations' = reservations
        /\ \A u \in Turns : /\ receipts'[u].request = receipts[u].request
                            /\ receipts'[u].response = receipts[u].response
                            /\ u # t => receipts'[u] = receipts[u]
        /\ receipts'[t].old = Store!Committed(t)
    BY <1>0, <1>5 DEF Ages, Store!Receipt, Store!Committed
  <2>2. \A u \in Turns : Bare(u)' <=> Bare(u)
    BY <2>1 DEF Bare
  <2>3. \A u \in Turns : (Store!Committed(u) <=> ~ Bare(u)) /\ (Store!Committed(u)' <=> ~ Bare(u))
    BY <1>0, <2>1 DEF Types, WholeReceipts, Bare, Store!Committed, Store!NoReceipt, Store!Receipt
  <2>4. WholeReceipts'
    BY <2>1, <2>3 DEF Types, WholeReceipts
  <2>5. Occupied' \subseteq Occupied
    BY <2>1, <2>3 DEF Occupied, Store!Occupied, Store!Committed
  <2>6. IsFiniteSet(Occupied') /\ Cardinality(Occupied') <= MaxReceipts
    BY <2>5, FewerOccupied
  <2>7. \A u \in Turns :
          /\ ~ Bare(u)' => reservations'[u] = Store!NoReservation
          /\ reservations'[u].state = "none" <=> reservations'[u].request = None
    BY <2>1, <2>2 DEF StoreInv
  <2>8. StoreTypes'
    BY <1>0, <2>1, <2>4 DEF StoreTypes
  <2> QED
    BY <2>6, <2>7, <2>8 DEF StoreInv
<1> QED
  BY <1>1, <1>2, <1>3, <1>4, <1>5 DEF StoreMoves, CalmMoves

-----------------------------------------------------------------------------
(* Types of each step.                                                     *)

RowsOK ==
  /\ rows \in [Turns -> Row]
  /\ \A t \in Turns : rows[t].status = "succeeded" <=> rows[t].response # None

HandlersOK == handlers \in [Handlers -> Handler] /\ Equipped

WorldOK ==
  /\ route \in Models \cup {None} /\ agents \in [Handlers -> Agent]
  /\ spent \in SUBSET Turns /\ contacts \in [Turns -> 0..2]
  /\ answers \in [Turns -> SUBSET (Models \X Responses)]
  /\ aged \in SUBSET Turns /\ faults \in 0..MaxFaults

LEMMA TypesAre == Types <=> RowsOK /\ StoreTypes /\ HandlersOK /\ WorldOK
BY DEF Types, TypeOK, RowsOK, StoreTypes, HandlersOK, WorldOK, Row

\* What may become of a handler.
Fit(x) ==
  /\ x \in Handler
  /\ x.pc \notin {"idle", "end"} => x.model \in Models
  /\ x.pc \in {"replay", "notice_succeed", "succeed"} => x.response \in Responses

LEMMA FitHandlers ==
  ASSUME HandlersOK, NEW h \in Handlers, NEW x, Fit(x), handlers' = [handlers EXCEPT ![h] = x]
  PROVE  HandlersOK'
BY DEF HandlersOK, Equipped, Fit

LEMMA FitGone ==
  ASSUME NEW response \in Responses \cup {None, "conflict", "outage"}
  PROVE  Fit(Gone(response)) /\ Gone(response).pc = "end"
BY DEF Fit, Gone, IdleHandler, Handler, Before, Guarded, Cleanup

LEMMA FitIdle == Fit(IdleHandler) /\ IdleHandler.pc = "idle"
BY DEF Fit, IdleHandler, Handler, Before, Guarded, Cleanup

LEMMA FitThrown ==
  ASSUME HandlersOK, NEW h \in Handlers, handlers[h].pc \notin {"idle", "end"}, NEW lost \in BOOLEAN
  PROVE  Fit(Thrown(h, lost))
<1>1. handlers[h] \in Handler /\ handlers[h].model \in Models
  BY DEF HandlersOK, Equipped
<1>2. Fit([handlers[h] EXCEPT !.lost = lost, !.pc = "abandon"])
  BY <1>1 DEF Fit, Handler, Before, Guarded, Cleanup
<1>3. Fit([handlers[h] EXCEPT !.pc = "fail"])
  BY <1>1 DEF Fit, Handler, Before, Guarded, Cleanup
<1> QED
  BY <1>2, <1>3, FitGone DEF Thrown

LEMMA FitTo ==
  ASSUME HandlersOK, NEW h \in Handlers, handlers[h].pc \notin {"idle", "end"},
         NEW pc \in (Before \cup Guarded \cup Cleanup) \ {"replay", "notice_succeed", "succeed"}
  PROVE  Fit([handlers[h] EXCEPT !.pc = pc])
<1>1. handlers[h] \in Handler /\ handlers[h].model \in Models
  BY DEF HandlersOK, Equipped
<1> QED
  BY <1>1 DEF Fit, Handler

\* A handler that ends tells its client a response, or an error.
LEMMA EndMoves ==
  ASSUME HandlersOK, WorldOK, NEW h \in Handlers, handlers[h].pc \notin {"idle", "end"},
         NEW response \in Responses \cup {None, "conflict"}, End(h, response)
  PROVE  /\ HandlersOK' /\ answers' \in [Turns -> SUBSET (Models \X Responses)]
         /\ handlers' = [handlers EXCEPT ![h] = Gone(response)]
<1>1. handlers' = [handlers EXCEPT ![h] = Gone(response)]
  BY DEF End, Set
<1>2. HandlersOK'
  BY <1>1, FitGone, FitHandlers
<1>3. handlers[h].model \in Models /\ TurnOf[h] \in Turns
  BY Constants DEF HandlersOK, Equipped
<1> QED
  BY <1>1, <1>2, <1>3 DEF End, WorldOK, M, T

Sound == CalmMoves /\ RowsOK' /\ HandlersOK' /\ WorldOK'

\* A step of a handler that changes nothing but the handler.
LEMMA OnlyHandler ==
  ASSUME Types, NEW h \in Handlers, NEW x, Fit(x), handlers' = [handlers EXCEPT ![h] = x],
         UNCHANGED <<rows, receipts, reservations, route, agents, spent, contacts, answers, aged>>,
         faults' \in 0..MaxFaults
  PROVE  Sound
<1>1. HandlersOK'
  BY TypesAre, FitHandlers
<1>2. CalmMoves
  BY DEF CalmMoves, Kept
<1>3. RowsOK' /\ WorldOK'
  BY TypesAre DEF RowsOK, WorldOK
<1> QED
  BY <1>1, <1>2, <1>3 DEF Sound

LEMMA AskSound ==
  ASSUME Types, NEW h \in Handlers,
         Arrive(h) \/ Leave(h) \/ Preflight(h) \/ Renew(h)
  PROVE  Sound
<1>0. HandlersOK /\ WorldOK /\ RowsOK
  BY TypesAre
<1>1. CASE Arrive(h)
  <2>1. UNCHANGED <<rows, receipts, reservations, route, agents, spent, contacts, answers, aged>>
        /\ faults' \in 0..MaxFaults
    BY <1>0, <1>1 DEF Arrive, stores, world, history, WorldOK
  <2>2. Fit(Gone("outage"))
    BY FitGone
  <2>3. route # None => Fit([IdleHandler EXCEPT !.pc = "claim", !.model = route])
    BY <1>0 DEF WorldOK, Fit, IdleHandler, Handler, Before, Guarded, Cleanup
  <2> QED
    BY <1>1, <2>1, <2>2, <2>3, OnlyHandler DEF Arrive, Set
<1>2. CASE Leave(h)
  <2>1. UNCHANGED <<rows, receipts, reservations, route, agents, spent, contacts, answers, aged>>
        /\ faults' \in 0..MaxFaults
    BY <1>0, <1>2 DEF Leave, stores, world, history, WorldOK
  <2> QED
    BY <1>2, <2>1, FitIdle, OnlyHandler DEF Leave, Set
<1>3. CASE Preflight(h)
  <2>1. UNCHANGED <<rows, receipts, reservations, route, agents, spent, contacts, answers, aged>>
        /\ faults' \in 0..MaxFaults
    BY <1>0, <1>3 DEF Preflight, stores, world, history, WorldOK
  <2>2. handlers[h] \in Handler /\ handlers[h].model \in Models /\ NeedsOperator(T(h)) \in BOOLEAN
    BY <1>0, <1>3 DEF Preflight, At, HandlersOK, Equipped, NeedsOperator
  <2>3. Fit([handlers[h] EXCEPT !.pc = "reserve", !.recovery = NeedsOperator(T(h))])
    BY <2>2 DEF Fit, Handler, Before, Guarded, Cleanup
  <2> QED
    BY <1>3, <2>1, <2>3, OnlyHandler DEF Preflight, Set
<1>4. CASE Renew(h)
  <2>0. handlers[h].pc \notin {"idle", "end"}
    BY <1>4 DEF Renew, At
  <2>1. UNCHANGED <<rows, receipts, reservations, route, agents, spent, contacts, answers, aged>>
        /\ faults' \in 0..MaxFaults
    BY <1>0, <1>4 DEF Renew, Ledger!Renew, world, history, WorldOK
  <2>2. /\ Fit(Thrown(h, TRUE)) /\ Fit([handlers[h] EXCEPT !.pc = "enter_turn"])
        /\ Fit([handlers[h] EXCEPT !.pc = "commit"])
    BY <1>0, <2>0, FitThrown, FitTo DEF Before, Guarded, Cleanup
  <2>3. \/ handlers' = [handlers EXCEPT ![h] = Thrown(h, TRUE)]
        \/ handlers' = [handlers EXCEPT ![h] = [handlers[h] EXCEPT !.pc = "enter_turn"]]
        \/ handlers' = [handlers EXCEPT ![h] = [handlers[h] EXCEPT !.pc = "commit"]]
    BY <1>4 DEF Renew, Throw, To, Set
  <2> QED
    BY <2>1, <2>2, <2>3, OnlyHandler
<1> QED
  BY <1>1, <1>2, <1>3, <1>4

\* Claims, and answers that are put into the replay ledger.
LEMMA ClaimSound == ASSUME Types, NEW h \in Handlers, Claim(h) PROVE Sound
<1>0. /\ HandlersOK /\ WorldOK /\ RowsOK /\ T(h) \in Turns /\ M(h) \in Models
      /\ handlers[h].pc = "claim" /\ handlers[h] \in Handler
  BY TypesAre, Constants DEF Claim, At, HandlersOK, Equipped, T, M
<1>1. PICK outcome \in {"claimed", "recovery_required", "full", "conflict", "processing", "succeeded"} :
       /\ Ledger!Claim(T(h), M(h), h, outcome)
       /\ CASE outcome \in {"claimed", "recovery_required"} ->
                 /\ Set(h, [handlers[h] EXCEPT !.pc = "lookup",
                              !.recovery = (outcome = "recovery_required")])
                 /\ UNCHANGED answers
            [] outcome = "succeeded" -> End(h, rows[T(h)].response)
            [] outcome = "conflict" -> End(h, "conflict")
            [] OTHER -> End(h, None)
  BY DEF Claim
<1>2. RowsOK'
  BY <1>0, <1>1, ClaimMoves DEF Types, OthersKept, RowsOK
<1>3. CalmMoves /\ UNCHANGED <<route, agents, spent, contacts, aged, faults>>
  BY DEF Claim, CalmMoves, Kept
<1>4. rows[T(h)].response \in Responses \cup {None, "conflict"}
  BY <1>0 DEF RowsOK, Row, Ledger!Row
<1>5. HandlersOK' /\ answers' \in [Turns -> SUBSET (Models \X Responses)]
  <2>1. CASE outcome \in {"claimed", "recovery_required"}
    <3>1. Fit([handlers[h] EXCEPT !.pc = "lookup", !.recovery = (outcome = "recovery_required")])
      BY <1>0 DEF Fit, Handler, Before, Guarded, Cleanup, M
    <3>2. Set(h, [handlers[h] EXCEPT !.pc = "lookup", !.recovery = (outcome = "recovery_required")])
          /\ answers' = answers
      BY <1>1, <2>1
    <3> QED
      BY <1>0, <3>1, <3>2, FitHandlers DEF Set, WorldOK
  <2>2. CASE outcome \notin {"claimed", "recovery_required"}
    <3>1. End(h, rows[T(h)].response) \/ End(h, "conflict") \/ End(h, None)
      BY <1>1, <2>2
    <3> QED
      BY <1>0, <1>4, <3>1, EndMoves
  <2> QED
    BY <2>1, <2>2
<1> QED
  BY <1>0, <1>2, <1>3, <1>5 DEF Sound, WorldOK

LEMMA SucceedSound ==
  ASSUME Types, NEW h \in Handlers, Replay(h) \/ NoticeSucceed(h) \/ Succeed(h)
  PROVE  Sound
<1>0. /\ HandlersOK /\ WorldOK /\ T(h) \in Turns /\ M(h) \in Models
      /\ handlers[h].pc \in {"replay", "notice_succeed", "succeed"}
      /\ handlers[h].response \in Responses
  BY TypesAre, Constants DEF Replay, NoticeSucceed, Succeed, At, HandlersOK, Equipped, T, M
<1>1. PICK done \in BOOLEAN :
       /\ Ledger!Succeed(T(h), M(h), h, handlers[h].response, done)
       /\ End(h, IF done THEN handlers[h].response ELSE None)
  BY DEF Replay, NoticeSucceed, Succeed
<1>2. UNCHANGED <<receipts, reservations, route, agents, spent, contacts, aged, faults>>
  BY DEF Replay, NoticeSucceed, Succeed
<1>3. RowsOK'
  BY <1>0, <1>1, SucceedMoves DEF Types, OthersKept, RowsOK
<1>4. HandlersOK' /\ answers' \in [Turns -> SUBSET (Models \X Responses)]
  BY <1>0, <1>1, EndMoves
<1> QED
  BY <1>0, <1>2, <1>3, <1>4 DEF Sound, CalmMoves, Kept, WorldOK

LEMMA FailSound == ASSUME Types, NEW h \in Handlers, Fail(h) PROVE Sound
<1>0. /\ HandlersOK /\ WorldOK /\ RowsOK /\ T(h) \in Turns /\ handlers[h].pc = "fail"
  BY TypesAre, Constants DEF Fail, At, T
<1>1. UNCHANGED <<receipts, reservations, route, agents, spent, contacts, aged, faults>> /\ End(h, None)
  BY DEF Fail
<1>2. PICK done \in BOOLEAN : Ledger!Fail(T(h), M(h), h, done)
  BY DEF Fail
<1> DEFINE row == [rows[T(h)] EXCEPT !.status = "failed", !.token = None, !.leased = FALSE]
<1>3. done => row \in Row /\ row.status = "failed" /\ row.response = None
  BY <1>0, <1>2 DEF Ledger!Fail, Ledger!Owns, RowsOK, Row, Ledger!Row
<1>4. rows' = IF done THEN [rows EXCEPT ![T(h)] = row] ELSE rows
  BY <1>2 DEF Ledger!Fail, Ledger!Write
<1> HIDE DEF row
<1>5. RowsOK'
  BY <1>0, <1>3, <1>4 DEF RowsOK
<1>6. HandlersOK' /\ answers' \in [Turns -> SUBSET (Models \X Responses)]
  BY <1>0, <1>1, EndMoves
<1> QED
  BY <1>0, <1>1, <1>5, <1>6 DEF Sound, CalmMoves, Kept, WorldOK

\* Receipts.
LEMMA LookupSound == ASSUME Types, NEW h \in Handlers, Lookup(h) PROVE Sound
<1>0. /\ HandlersOK /\ WorldOK /\ RowsOK /\ T(h) \in Turns /\ handlers[h].pc = "lookup"
      /\ handlers[h] \in Handler /\ handlers[h].model \in Models
  BY TypesAre, Constants DEF Lookup, At, T, HandlersOK, Equipped
<1>1. UNCHANGED <<rows, receipts, reservations, route, agents, spent, contacts, aged, faults>>
  BY DEF Lookup, stores
<1>2. CASE End(h, "conflict")
  BY <1>0, <1>1, <1>2, EndMoves DEF Sound, CalmMoves, Kept, WorldOK, RowsOK
<1>3. CASE /\ Store!Lookup(T(h), M(h)) = "committed"
           /\ Set(h, [handlers[h] EXCEPT !.pc = "replay", !.response = receipts[T(h)].response])
           /\ UNCHANGED answers
  <2>1. Store!Committed(T(h))
    BY <1>3 DEF Store!Lookup
  <2>2. receipts[T(h)].response \in Responses
    BY <1>0, <2>1 DEF Types, WholeReceipts
  <2>3. Fit([handlers[h] EXCEPT !.pc = "replay", !.response = receipts[T(h)].response])
    BY <1>0, <2>2 DEF Fit, Handler, Before, Guarded, Cleanup
  <2> QED
    BY <1>0, <1>1, <1>3, <2>3, OnlyHandler DEF Set, WorldOK
<1>4. CASE /\ \/ To(h, "reserve") \/ To(h, "preflight")
           /\ UNCHANGED answers
  <2>1. Fit([handlers[h] EXCEPT !.pc = "reserve"]) /\ Fit([handlers[h] EXCEPT !.pc = "preflight"])
    BY <1>0, FitTo DEF Before, Guarded, Cleanup
  <2> QED
    BY <1>0, <1>1, <1>4, <2>1, OnlyHandler DEF To, Set, WorldOK
<1> QED
  BY <1>2, <1>3, <1>4 DEF Lookup

LEMMA ReserveSound == ASSUME Types, NEW h \in Handlers, Reserve(h) PROVE Sound
<1>0. /\ HandlersOK /\ WorldOK /\ RowsOK /\ T(h) \in Turns /\ M(h) \in Models
      /\ handlers[h].pc = "reserve" /\ handlers[h] \in Handler /\ handlers[h].model \in Models
  BY TypesAre, Constants DEF Reserve, At, T, M, HandlersOK, Equipped
<1>1. /\ UNCHANGED <<rows, route, agents, spent, contacts, answers, aged, faults>>
      /\ \E outcome \in {"reserved", "provider_started", "committed", "conflict", "unavailable"} :
           Store!Reserve(T(h), M(h), outcome) /\ Set(h, AfterReserve(h, outcome))
  BY DEF Reserve, world, history
<1>2. PICK outcome : Store!Reserve(T(h), M(h), outcome) /\ Set(h, AfterReserve(h, outcome))
  BY <1>1
<1>3. /\ Kept \/ Books(T(h), M(h))
      /\ outcome = "committed" => ~ Bare(T(h))
  BY <1>0, <1>2, ReserveMoves
<1>4. Fit(AfterReserve(h, outcome))
  <2>1. CASE outcome = "committed"
    <3>1. receipts[T(h)].response \in Responses
      BY <1>0, <1>3, <2>1, CommittedIsNotBare DEF Types, WholeReceipts
    <3> QED
      BY <1>0, <2>1, <3>1 DEF AfterReserve, Fit, Handler, Before, Guarded, Cleanup
  <2>2. CASE outcome # "committed"
    BY <1>0, <2>2 DEF AfterReserve, Fit, Handler, Before, Guarded, Cleanup
  <2> QED
    BY <2>1, <2>2
<1>5. HandlersOK'
  BY <1>0, <1>2, <1>4, FitHandlers DEF Set
<1>6. CalmMoves
  BY <1>0, <1>3 DEF CalmMoves
<1> QED
  BY <1>0, <1>1, <1>5, <1>6 DEF Sound, WorldOK, RowsOK

LEMMA FenceSound == ASSUME Types, NEW h \in Handlers, Fence(h) PROVE Sound
<1>0. /\ HandlersOK /\ WorldOK /\ RowsOK /\ T(h) \in Turns /\ M(h) \in Models
      /\ handlers[h].pc = "fence"
  BY TypesAre, Constants DEF Fence, At, T, M, HandlersOK, Equipped
<1>1. PICK outcome :
       /\ Store!EnterTurn(T(h), M(h), outcome)
       /\ (To(h, "notice") /\ UNCHANGED answers) \/ End(h, None)
  BY DEF Fence
<1>2. UNCHANGED <<rows, route, agents, spent, contacts, aged, faults>>
  BY DEF Fence
<1>3. CalmMoves
  BY <1>0, <1>1, EnterMoves DEF CalmMoves
<1>4. Fit([handlers[h] EXCEPT !.pc = "notice"])
  BY <1>0, FitTo DEF Before, Guarded, Cleanup
<1>5. HandlersOK' /\ answers' \in [Turns -> SUBSET (Models \X Responses)]
  BY <1>0, <1>1, <1>4, FitHandlers, EndMoves DEF To, Set, WorldOK
<1> QED
  BY <1>0, <1>2, <1>3, <1>5 DEF Sound, WorldOK, RowsOK

LEMMA WriteSound == ASSUME Types, NEW h \in Handlers, Notice(h) \/ Commit(h) PROVE Sound
<1>0. /\ HandlersOK /\ WorldOK /\ RowsOK /\ T(h) \in Turns /\ M(h) \in Models
      /\ handlers[h].pc \in {"notice", "commit"} /\ handlers[h] \in Handler
      /\ handlers[h].model \in Models
  BY TypesAre, Constants DEF Notice, Commit, At, T, M, HandlersOK, Equipped
<1>1. UNCHANGED <<rows, route, agents, spent, contacts, answers, aged, faults>>
  BY DEF Notice, Commit, world, history
<1>2. PICK a \in Responses, outcome \in Responses \cup {None} :
       /\ Store!Commit(T(h), M(h), a, outcome)
       /\ \/ /\ handlers' = [handlers EXCEPT ![h] = [handlers[h] EXCEPT !.response = outcome,
                              !.pc = IF outcome = None THEN "fail" ELSE "notice_succeed"]]
          \/ outcome = None /\ handlers' = [handlers EXCEPT ![h] = Thrown(h, FALSE)]
          \/ /\ outcome # None
             /\ handlers' = [handlers EXCEPT ![h] = [handlers[h] EXCEPT !.response = outcome,
                                                                         !.pc = "succeed"]]
  BY DEF Notice, Commit, Set, Throw, Responses
<1>3. CalmMoves
  BY <1>0, <1>2, CommitMoves DEF CalmMoves
<1>4. Fit(Thrown(h, FALSE))
  BY <1>0, FitThrown
<1>5. Fit([handlers[h] EXCEPT !.response = outcome,
            !.pc = IF outcome = None THEN "fail" ELSE "notice_succeed"])
  BY <1>0 DEF Fit, Handler, Before, Guarded, Cleanup
<1>6. outcome # None => Fit([handlers[h] EXCEPT !.response = outcome, !.pc = "succeed"])
  BY <1>0 DEF Fit, Handler, Before, Guarded, Cleanup
<1>7. HandlersOK'
  BY <1>0, <1>2, <1>4, <1>5, <1>6, FitHandlers
<1> QED
  BY <1>0, <1>1, <1>3, <1>7 DEF Sound, WorldOK, RowsOK

LEMMA EnterTurnSound == ASSUME Types, NEW h \in Handlers, EnterTurn(h) PROVE Sound
<1>0. /\ HandlersOK /\ WorldOK /\ RowsOK /\ T(h) \in Turns /\ M(h) \in Models
      /\ handlers[h].pc = "enter_turn" /\ handlers[h] \in Handler /\ handlers[h].model \in Models
  BY TypesAre, Constants DEF EnterTurn, At, T, M, HandlersOK, Equipped
<1>1. UNCHANGED <<rows, route, agents, spent, contacts, answers, aged, faults>>
  BY DEF EnterTurn, world, history
<1>2. PICK outcome :
       /\ Store!EnterTurn(T(h), M(h), outcome)
       /\ \/ handlers' = [handlers EXCEPT ![h] = [handlers[h] EXCEPT !.reserved = FALSE, !.pc = "enter_row"]]
          \/ handlers' = [handlers EXCEPT ![h] = Gone(None)]
          \/ handlers' = [handlers EXCEPT ![h] = Thrown(h, TRUE)]
  BY DEF EnterTurn, Set, Throw
<1>3. CalmMoves
  BY <1>0, <1>2, EnterMoves DEF CalmMoves
<1>4. Fit([handlers[h] EXCEPT !.reserved = FALSE, !.pc = "enter_row"])
  BY <1>0 DEF Fit, Handler, Before, Guarded, Cleanup
<1>5. Fit(Gone(None)) /\ Fit(Thrown(h, TRUE))
  BY <1>0, FitGone, FitThrown
<1>6. HandlersOK'
  BY <1>0, <1>2, <1>4, <1>5, FitHandlers
<1> QED
  BY <1>0, <1>1, <1>3, <1>6 DEF Sound, WorldOK, RowsOK

LEMMA EnterRowSound == ASSUME Types, NEW h \in Handlers, EnterRow(h) PROVE Sound
<1>0. /\ HandlersOK /\ WorldOK /\ RowsOK /\ T(h) \in Turns /\ M(h) \in Models
      /\ handlers[h].pc = "enter_row"
  BY TypesAre, Constants DEF EnterRow, At, T, M, HandlersOK, Equipped
<1>1. UNCHANGED <<receipts, reservations, route, agents, spent, contacts, answers, aged, faults>>
  BY DEF EnterRow, world, history
<1>2. PICK done \in BOOLEAN :
       Ledger!Enter(T(h), M(h), h, done) /\ To(h, IF done THEN "start" ELSE "fail")
  BY DEF EnterRow
<1> DEFINE row == [rows[T(h)] EXCEPT !.entered = TRUE]
<1>3. /\ rows' = IF done THEN [rows EXCEPT ![T(h)] = row] ELSE rows
      /\ row \in Row /\ row.status = rows[T(h)].status /\ row.response = rows[T(h)].response
  BY <1>0, <1>2 DEF Ledger!Enter, Ledger!Write, RowsOK, Row, Ledger!Row
<1> HIDE DEF row
<1>4. RowsOK'
  BY <1>0, <1>3 DEF RowsOK
<1>5. Fit([handlers[h] EXCEPT !.pc = IF done THEN "start" ELSE "fail"])
  BY <1>0, FitTo DEF Before, Guarded, Cleanup
<1>6. HandlersOK'
  BY <1>0, <1>2, <1>5, FitHandlers DEF To, Set
<1> QED
  BY <1>0, <1>1, <1>4, <1>6 DEF Sound, CalmMoves, Kept, WorldOK

LEMMA AbandonSound == ASSUME Types, NEW h \in Handlers, Abandon(h) PROVE Sound
<1>0. /\ HandlersOK /\ WorldOK /\ RowsOK /\ T(h) \in Turns /\ M(h) \in Models
      /\ handlers[h].pc = "abandon"
  BY TypesAre, Constants DEF Abandon, At, T, M, HandlersOK, Equipped
<1>1. UNCHANGED <<rows, route, agents, spent, contacts, answers, aged, faults>>
  BY DEF Abandon, world, history
<1>2. Kept \/ Leaves(T(h), "abandoned")
  <2>1. CASE Store!State(T(h)) = "reserved" /\ ~ Store!Conflicts(T(h), M(h))
    <3>1. Bare(T(h)) /\ reservations[T(h)].state = "reserved"
      BY <1>0, <2>1, CommittedIsNotBare
    <3> QED
      BY <2>1, <3>1 DEF Abandon, Store!Abandon, Leaves
  <2>2. CASE ~ (Store!State(T(h)) = "reserved" /\ ~ Store!Conflicts(T(h), M(h)))
    BY <2>2 DEF Abandon, Kept
  <2> QED
    BY <2>1, <2>2
<1>3. \/ handlers' = [handlers EXCEPT ![h] = Gone(None)]
      \/ handlers' = [handlers EXCEPT ![h] = [handlers[h] EXCEPT !.pc = "fail"]]
  BY DEF Abandon, Set
<1>4. Fit(Gone(None)) /\ Fit([handlers[h] EXCEPT !.pc = "fail"])
  BY <1>0, FitGone, FitTo DEF Before, Guarded, Cleanup
<1>5. HandlersOK'
  BY <1>0, <1>3, <1>4, FitHandlers
<1>6. CalmMoves
  BY <1>0, <1>2 DEF CalmMoves
<1> QED
  BY <1>0, <1>1, <1>5, <1>6 DEF Sound, WorldOK, RowsOK

\* The agents' own steps, and what a handler does to its agent.
LEMMA AgentSound ==
  ASSUME Types, NEW h \in Handlers,
         StartAgent(h) \/ AgentCalls(h) \/ Reached(h) \/ NotReached(h) \/ AgentEnds(h)
  PROVE  Sound
<1>0. /\ HandlersOK /\ WorldOK /\ RowsOK /\ T(h) \in Turns
      /\ agents \in [Handlers -> Agent] /\ NoAgent \in Agent
  BY TypesAre, Constants DEF T, WorldOK, NoAgent, Agent
<1>1. CalmMoves /\ RowsOK' /\ UNCHANGED <<route, answers, aged, faults>>
  BY <1>0 DEF StartAgent, AgentCalls, Reached, NotReached, AgentEnds, stores, history,
              CalmMoves, Kept, RowsOK
<1>2. HandlersOK'
  <2>1. CASE StartAgent(h)
    <3>1. Fit([handlers[h] EXCEPT !.pc = "run"])
      BY <1>0, <2>1, FitTo DEF StartAgent, At, Before, Guarded, Cleanup
    <3> QED
      BY <1>0, <2>1, <3>1, FitHandlers DEF StartAgent, To, Set
  <2>2. CASE UNCHANGED handlers
    BY <1>0, <2>2 DEF HandlersOK, Equipped
  <2> QED
    BY <2>1, <2>2 DEF AgentCalls, Reached, NotReached, AgentEnds
<1>3. agents' \in [Handlers -> Agent]
  <2>1. agents[h] \in Agent
    BY <1>0
  <2>2. ASSUME NEW state \in {"none", "running", "calling", "done", "failed"}
        PROVE  [agents[h] EXCEPT !.state = state] \in Agent
    BY <2>1 DEF Agent
  <2>3. \A b \in BOOLEAN : [state |-> "running", contacted |-> b] \in Agent
    BY DEF Agent
  <2>4. \E a \in Agent : agents' = [agents EXCEPT ![h] = a]
    <3>1. CASE StartAgent(h) \/ Reached(h)
      BY <2>3, <3>1 DEF StartAgent, Reached
    <3>2. CASE AgentCalls(h)
      BY <2>2, <3>2 DEF AgentCalls
    <3>3. CASE NotReached(h)
      BY <2>2, <3>3 DEF NotReached
    <3>4. CASE AgentEnds(h)
      BY <1>0, <2>2, <3>4 DEF AgentEnds
    <3> QED
      BY <3>1, <3>2, <3>3, <3>4
  <2> QED
    BY <1>0, <2>4
<1>4. spent' \in SUBSET Turns
  BY <1>0 DEF StartAgent, AgentCalls, Reached, NotReached, AgentEnds, WorldOK
<1>5. contacts' \in [Turns -> 0..2]
  BY <1>0 DEF StartAgent, AgentCalls, Reached, NotReached, AgentEnds, WorldOK, history, Ledger!Least
<1> QED
  BY <1>0, <1>1, <1>2, <1>3, <1>4, <1>5 DEF Sound, WorldOK

LEMMA CancelTypes ==
  ASSUME WorldOK, NEW h \in Handlers, NEW heeds \in BOOLEAN, CancelAgent(h, heeds)
  PROVE  agents' \in [Handlers -> Agent] /\ spent' \in SUBSET Turns
<1>1. T(h) \in Turns /\ NoAgent \in Agent
  BY Constants DEF T, NoAgent, Agent
<1> QED
  BY <1>1 DEF WorldOK, CancelAgent

LEMMA StopSound ==
  ASSUME Types, NEW h \in Handlers, SeeResult(h) \/ LoseLease(h) \/ Deadline(h)
  PROVE  Sound
<1>0. /\ HandlersOK /\ WorldOK /\ RowsOK /\ T(h) \in Turns /\ handlers[h].pc = "run"
  BY TypesAre, Constants DEF T, SeeResult, LoseLease, Deadline, At
<1>1. CalmMoves /\ RowsOK' /\ UNCHANGED <<route, contacts, answers, aged, faults>>
  BY <1>0 DEF SeeResult, LoseLease, Deadline, stores, history, CalmMoves, Kept, RowsOK
<1>2. HandlersOK'
  <2>1. /\ Fit(Thrown(h, TRUE)) /\ Fit(Thrown(h, FALSE))
        /\ Fit([handlers[h] EXCEPT !.pc = "renew_again"])
    BY <1>0, FitThrown, FitTo DEF Before, Guarded, Cleanup
  <2>2. \/ \E lost \in BOOLEAN : handlers' = [handlers EXCEPT ![h] = Thrown(h, lost)]
        \/ handlers' = [handlers EXCEPT ![h] = [handlers[h] EXCEPT !.pc = "renew_again"]]
    BY DEF SeeResult, LoseLease, Deadline, Throw, To, Set
  <2> QED
    BY <1>0, <2>1, <2>2, FitHandlers
<1>3. agents' \in [Handlers -> Agent] /\ spent' \in SUBSET Turns
  <2>1. CASE SeeResult(h)
    BY <1>0, <2>1 DEF SeeResult, WorldOK, NoAgent, Agent
  <2>2. CASE \E heeds \in BOOLEAN : CancelAgent(h, heeds)
    BY <1>0, <2>2, CancelTypes
  <2> QED
    BY <2>1, <2>2 DEF LoseLease, Deadline
<1> QED
  BY <1>0, <1>1, <1>2, <1>3 DEF Sound, WorldOK

LEMMA FaultSound ==
  ASSUME Types, NEW h \in Handlers, StoreFails(h) \/ Cancel(h) \/ Late(h)
  PROVE  Sound
<1>0. /\ HandlersOK /\ WorldOK /\ RowsOK /\ handlers[h].pc \notin {"idle", "end"}
  BY TypesAre DEF StoreFails, Cancel, Late, Before, Guarded, Cleanup
<1>1. /\ CalmMoves /\ RowsOK' /\ UNCHANGED <<route, contacts, answers, aged>>
      /\ faults' \in 0..MaxFaults
  <2>1. UNCHANGED <<rows, receipts, reservations, route, contacts, answers, aged>> /\ Hurt
    BY DEF StoreFails, Cancel, Late, stores, history
  <2> QED
    BY <1>0, <2>1, Constants DEF Hurt, CalmMoves, Kept, RowsOK, WorldOK
<1>2. HandlersOK'
  <2>1. /\ Fit(Thrown(h, TRUE)) /\ Fit(Thrown(h, FALSE)) /\ Fit(Gone(None))
        /\ Fit([handlers[h] EXCEPT !.pc = "fail"])
    BY <1>0, FitThrown, FitGone, FitTo DEF Before, Guarded, Cleanup
  <2>2. \/ \E lost \in BOOLEAN : handlers' = [handlers EXCEPT ![h] = Thrown(h, lost)]
        \/ handlers' = [handlers EXCEPT ![h] = Gone(None)]
        \/ handlers' = [handlers EXCEPT ![h] = [handlers[h] EXCEPT !.pc = "fail"]]
    BY DEF StoreFails, Where, Cancel, Late, Throw, Set
  <2> QED
    BY <1>0, <2>1, <2>2, FitHandlers
<1>3. agents' \in [Handlers -> Agent] /\ spent' \in SUBSET Turns
  <2>1. CASE UNCHANGED <<agents, spent>>
    BY <1>0, <2>1 DEF WorldOK
  <2>2. CASE \E heeds \in BOOLEAN : CancelAgent(h, heeds)
    BY <1>0, <2>2, CancelTypes
  <2> QED
    BY <2>1, <2>2 DEF StoreFails, Cancel, Late
<1> QED
  BY <1>0, <1>1, <1>2, <1>3 DEF Sound, WorldOK

LEMMA CrashSound == ASSUME Types, Crash PROVE Sound
<1>0. HandlersOK /\ WorldOK /\ RowsOK /\ NoAgent \in Agent
  BY TypesAre DEF NoAgent, Agent
<1>1. /\ CalmMoves /\ RowsOK' /\ UNCHANGED <<route, contacts, answers, aged>>
      /\ faults' \in 0..MaxFaults
  BY <1>0, Constants DEF Crash, Hurt, stores, history, CalmMoves, Kept, RowsOK, WorldOK
<1>2. HandlersOK'
  BY FitIdle DEF Crash, HandlersOK, Equipped, Fit
<1>3. agents' \in [Handlers -> Agent] /\ spent' \in SUBSET Turns
  BY <1>0, Constants DEF Crash, WorldOK
<1> QED
  BY <1>0, <1>1, <1>2, <1>3 DEF Sound, WorldOK

\* Leases, age and routes.
LEMMA LapseSound ==
  ASSUME Types, NEW t \in Turns, LapseOfGone(t) \/ LapseOfStalled(t)
  PROVE  Sound
<1>0. HandlersOK /\ WorldOK /\ RowsOK
  BY TypesAre
<1>1. /\ UNCHANGED <<receipts, reservations, handlers, route, agents, spent, contacts, answers, aged>>
      /\ faults' \in 0..MaxFaults
  BY <1>0, Constants DEF LapseOfGone, LapseOfStalled, Hurt, world, history, WorldOK
<1>2. rows' = [rows EXCEPT ![t].leased = FALSE]
  BY DEF LapseOfGone, LapseOfStalled, Ledger!Lapse
<1>3. RowsOK'
  BY <1>0, <1>2 DEF RowsOK, Row, Ledger!Row
<1> QED
  BY <1>0, <1>1, <1>3 DEF Sound, CalmMoves, Kept, WorldOK, HandlersOK, Equipped

LEMMA AgeSound ==
  ASSUME Types, NEW t \in Turns, Age(t)
  PROVE  StoreMoves /\ RowsOK' /\ HandlersOK' /\ WorldOK'
<1>0. HandlersOK /\ WorldOK /\ RowsOK
  BY TypesAre
<1>1. UNCHANGED <<handlers, route, agents, spent, contacts, answers, faults>> /\ aged' = aged \cup {t}
  BY DEF Age
<1>2. rows' = [rows EXCEPT ![t].old = @ \/ rows[t].status # "none", ![t].leased = FALSE]
  BY DEF Age, Ledger!AgeRow
<1>3. RowsOK'
  <2> DEFINE row == [[rows[t] EXCEPT !.old = @ \/ rows[t].status # "none"] EXCEPT !.leased = FALSE]
  <2>1. row \in Row /\ row.status = rows[t].status /\ row.response = rows[t].response
    BY <1>0 DEF RowsOK, Row, Ledger!Row
  <2>2. rows' = [rows EXCEPT ![t] = row]
    BY <1>0, <1>2 DEF RowsOK, Row, Ledger!Row
  <2> HIDE DEF row
  <2> QED
    BY <1>0, <2>1, <2>2 DEF RowsOK
<1>4. StoreMoves
  BY DEF Age, Store!AgeReceipt, Ages, StoreMoves
<1> QED
  BY <1>0, <1>1, <1>3, <1>4 DEF WorldOK, HandlersOK, Equipped

LEMMA RouteSound == ASSUME Types, RouteChanges \/ RouteReturns PROVE Sound
<1>0. HandlersOK /\ WorldOK /\ RowsOK
  BY TypesAre
<1>1. /\ UNCHANGED <<rows, receipts, reservations, handlers, agents, spent, contacts, answers, aged>>
      /\ faults' \in 0..MaxFaults /\ route' \in Models \cup {None}
  BY <1>0, Constants DEF RouteChanges, RouteReturns, Hurt, stores, history, WorldOK
<1> QED
  BY <1>0, <1>1 DEF Sound, CalmMoves, Kept, WorldOK, HandlersOK, Equipped, RowsOK

LEMMA StepSound == ASSUME Types, [Next]_vars PROVE Sound \/ \E t \in Turns : Age(t)
<1>1. CASE UNCHANGED vars
  <2>1. HandlersOK /\ WorldOK /\ RowsOK
    BY TypesAre
  <2> QED
    BY <1>1, <2>1 DEF vars, Sound, CalmMoves, Kept, WorldOK, HandlersOK, Equipped, RowsOK
<1>2. ASSUME NEW h \in Handlers, Arrive(h) \/ Work(h) PROVE Sound
  BY <1>2, AskSound, ClaimSound, LookupSound, SucceedSound, ReserveSound, FenceSound, WriteSound,
     EnterTurnSound, EnterRowSound, AgentSound, StopSound, AbandonSound, FailSound DEF Work
<1>3. ASSUME NEW h \in Handlers,
             \/ AgentCalls(h) \/ Reached(h) \/ NotReached(h) \/ AgentEnds(h)
             \/ StoreFails(h) \/ Cancel(h) \/ Late(h) \/ Deadline(h)
      PROVE  Sound
  BY <1>3, AgentSound, FaultSound, StopSound
<1>4. CASE Crash \/ RouteChanges \/ RouteReturns
  BY <1>4, CrashSound, RouteSound
<1>5. ASSUME NEW t \in Turns, LapseOfGone(t) \/ LapseOfStalled(t) PROVE Sound
  BY <1>5, LapseSound
<1> QED
  BY <1>1, <1>2, <1>3, <1>4, <1>5 DEF Next

LEMMA InitTypes == Init => Types /\ StoreInv
<1> SUFFICES ASSUME Init PROVE Types /\ StoreInv
  OBVIOUS
<1>1. RowsOK
  BY DEF Init, Ledger!Init, RowsOK, Row, Ledger!Row, Ledger!NoRow
<1>2. StoreTypes
  BY DEF Init, Store!Init, StoreTypes, WholeReceipts, Store!Committed, Store!NoReceipt,
         Store!NoReservation, Store!Receipt, Store!Reservation
<1>3. HandlersOK
  BY FitIdle DEF Init, HandlersOK, Equipped, Fit
<1>4. WorldOK
  BY Constants DEF Init, WorldOK, NoAgent, Agent
<1>5. Types
  BY <1>1, <1>2, <1>3, <1>4, TypesAre
<1>6. Occupied = {}
  BY DEF Init, Store!Init, Occupied, Store!Occupied, Store!NoReservation
<1>7. IsFiniteSet(Occupied) /\ Cardinality(Occupied) = 0
  BY <1>6, FS_EmptySet, Zenon
<1>8. StoreInv
  BY <1>7, Constants DEF Init, Store!Init, StoreInv, Bare, Store!NoReceipt, Store!NoReservation
<1> QED
  BY <1>5, <1>8

LEMMA StepTypes == ASSUME Types, StoreInv, [Next]_vars PROVE Types' /\ StoreInv' /\ StoreMoves
<1>1. StoreMoves /\ RowsOK' /\ HandlersOK' /\ WorldOK'
  BY StepSound, AgeSound DEF Sound, StoreMoves
<1>2. StoreTypes' /\ StoreInv'
  BY <1>1, StoreMoveInv
<1>3. Equipped' /\ WholeReceipts'
  BY <1>1, <1>2 DEF StoreTypes, HandlersOK
<1>4. TypeOK'
  BY <1>1, <1>2, Zenon DEF TypeOK, RowsOK, StoreTypes, HandlersOK, WorldOK, Row
<1>5. Types'
  BY <1>3, <1>4 DEF Types
<1> QED
  BY <1>1, <1>2, <1>5

-----------------------------------------------------------------------------
(* One agent for a turn.                                                   *)

\* Where a handler of a turn may be whose receipt is past its protection: it
\* asks, or has been told that there is nothing to do.
Asks == {"idle", "end", "claim", "lookup", "replay", "preflight", "reserve", "fail"}
Quick(h) == handlers[h].pc \in Asks /\ agents[h].state = "none"

Started(t) == ~ Bare(t) \/ reservations[t].state = "provider_started"

\* The turn's receipt may be forgotten and nothing else remembers it.
Exempt(t) == ~ Required /\ t \in aged

\* A handler that starts an agent, or whose agent has reached no provider yet.
MayContact(h) ==
  \/ handlers[h].pc = "start"
  \/ agents[h].state \in {"running", "calling"} /\ ~ agents[h].contacted

\* A handler that the row's fence would let through.
Waits(h) == rows[T(h)].status = "processing" /\ rows[T(h)].token = h /\ ~ rows[T(h)].entered
MayEnter(h) == handlers[h].pc \in {"renew", "enter_turn", "enter_row"} /\ Waits(h)

\* A handler has an agent while it waits for it, and once it is gone one that
\* did not heed its cancellation may be left; what is begun next has none.
Apart == {"idle", "end", "run", "abandon", "fail"}
Solo(h) == agents[h].state # "none" => handlers[h].pc \in Apart
OneAgent == \A h \in Handlers : Solo(h)

\* Past the first fence the receipts know that the turn may have been run.
Busy(h) == handlers[h].pc \in {"enter_row", "start"} \/ agents[h].state # "none"
Fenced == \A h \in Handlers : Busy(h) => Started(T(h))

\* A receipt is forgotten only when nobody is at work for its turn.
OldIsQuiet ==
  \A t \in Turns : receipts[t].old =>
    t \in aged /\ \A h \in Handlers : T(h) = t => Quick(h)

\* What reached a provider is remembered by the receipts, or has aged; and who
\* then asks for a reservation has been told by the ledger of calls.
Remembered ==
  \A t \in Turns : contacts[t] > 0 =>
    /\ t \in spent
    /\ Started(t) \/ t \in aged
    /\ Required /\ (receipts[t].old \/ ~ Started(t)) =>
         \A h \in Handlers : T(h) = t /\ handlers[h].pc = "reserve" => handlers[h].recovery

\* Of those who may still contact a provider, or pass the fence, there is one,
\* and nobody was before it.
OneRun ==
  \A t \in Turns : ~ Exempt(t) =>
    /\ contacts[t] <= 1
    /\ \A h \in Handlers : T(h) = t /\ MayContact(h) =>
         contacts[t] = 0 /\ \A g \in Handlers : T(g) = t /\ MayContact(g) => g = h
    /\ \A h \in Handlers : T(h) = t /\ MayEnter(h) =>
         contacts[t] = 0 /\ \A g \in Handlers : T(g) = t => ~ MayContact(g)

RunInv == OneAgent /\ Fenced /\ OldIsQuiet /\ Remembered /\ OneRun

\* The store forgets only what is old.
Calm ==
  \A t \in Turns :
    /\ Started(t) /\ ~ receipts[t].old => Started(t)'
    /\ receipts'[t].old => receipts[t].old
    /\ ~ Bare(t) /\ ~ receipts[t].old => receipts'[t] = receipts[t]

LEMMA CalmMovesAreCalm == ASSUME Types, StoreInv, CalmMoves PROVE Calm
<1>0. receipts \in [Turns -> Store!Receipt] /\ reservations \in [Turns -> Store!Reservation]
  BY DEF Types, TypeOK
<1>1. CASE Kept
  BY <1>1 DEF Kept, Calm, Started, Bare
<1>2. ASSUME NEW t \in Turns, NEW r \in Models, Books(t, r) PROVE Calm
  <2>1. /\ \A u \in Turns : u # t => reservations'[u] = reservations[u]
        /\ \A u \in Turns : receipts'[u] = IF receipts[u].old THEN Store!NoReceipt ELSE receipts[u]
        /\ ~ Store!NoReceipt.old /\ Bare(t) /\ reservations[t].state \in {"none", "abandoned"}
    BY <1>2, BooksTypes DEF Books, Store!NoReceipt
  <2> QED
    BY <2>1 DEF Calm, Started, Bare
<1>3. ASSUME NEW t \in Turns, NEW state \in {"provider_started", "abandoned"}, Leaves(t, state)
      PROVE  Calm
  BY <1>0, <1>3 DEF Leaves, Calm, Started, Bare
<1>4. ASSUME NEW t \in Turns, NEW r \in Models, NEW a \in Responses, Writes(t, r, a) PROVE Calm
  <2>1. /\ Bare(t) /\ receipts'[t].response = a /\ ~ receipts'[t].old
        /\ \A u \in Turns : u # t => receipts'[u] = receipts[u] /\ reservations'[u] = reservations[u]
    BY <1>0, <1>4 DEF Writes
  <2> QED
    BY <2>1, Constants DEF Calm, Started, Bare
<1> QED
  BY <1>1, <1>2, <1>3, <1>4 DEF CalmMoves

\* Nobody reached a provider for the turn or is about to.
Untouched(t) == contacts[t] = 0 /\ \A g \in Handlers : T(g) = t => ~ MayContact(g)

\* What most steps do to a handler: they bring it no nearer to a provider, but
\* for the fences it has passed.
TameFor(g) ==
  /\ MayContact(g)' => MayContact(g)
  /\ MayEnter(g)' => MayEnter(g) \/ Untouched(T(g)) \/ Exempt(T(g))
  /\ Busy(g)' => Busy(g) \/ Started(T(g))'
  /\ receipts[T(g)].old /\ Quick(g) => Quick(g)'
  /\ Solo(g) => Solo(g)'
  /\ handlers'[g].pc = "reserve" =>
       \/ handlers[g].pc = "reserve" /\ handlers'[g].recovery = handlers[g].recovery
       \/ handlers'[g].recovery \/ ~ Required \/ T(g) \notin spent

Tame ==
  /\ contacts' = contacts /\ aged' = aged /\ spent \subseteq spent'
  /\ \A g \in Handlers : TameFor(g)

LEMMA TameInv ==
  ASSUME Types, RunInv, Calm, Tame
  PROVE  RunInv'
<1>0. \A h \in Handlers : T(h) \in Turns
  BY Constants DEF T
<1>5. OneAgent'
  BY DEF RunInv, OneAgent, Tame, TameFor
<1>1. Fenced'
  <2> SUFFICES ASSUME NEW h \in Handlers, Busy(h)' PROVE Started(T(h))'
    BY DEF Fenced, T
  <2>1. CASE Busy(h)
    <3>1. Started(T(h)) /\ ~ receipts[T(h)].old
      BY <1>0, <2>1 DEF RunInv, Fenced, OldIsQuiet, Quick, Busy, Asks, Apart
    <3> QED
      BY <1>0, <3>1 DEF Calm
  <2> QED
    BY <2>1 DEF Tame, TameFor
<1>2. OldIsQuiet'
  <2> SUFFICES ASSUME NEW t \in Turns, receipts'[t].old
               PROVE  t \in aged' /\ \A h \in Handlers : T(h) = t => Quick(h)'
    BY DEF OldIsQuiet, T
  <2>1. receipts[t].old
    BY DEF Calm
  <2> QED
    BY <2>1 DEF RunInv, OldIsQuiet, Tame, TameFor
<1>3. Remembered'
  <2> SUFFICES ASSUME NEW t \in Turns, contacts[t] > 0
               PROVE  /\ t \in spent'
                      /\ Started(t)' \/ t \in aged'
                      /\ Required /\ (receipts'[t].old \/ ~ Started(t)') =>
                           \A h \in Handlers : T(h) = t /\ handlers'[h].pc = "reserve" =>
                             handlers'[h].recovery
    BY DEF Remembered, Tame, T
  <2>1. /\ t \in spent /\ (Started(t) \/ t \in aged)
        /\ Required /\ (receipts[t].old \/ ~ Started(t)) =>
             \A h \in Handlers : T(h) = t /\ handlers[h].pc = "reserve" => handlers[h].recovery
        /\ receipts[t].old => t \in aged
    BY DEF RunInv, Remembered, OldIsQuiet
  <2>2. /\ Started(t) /\ ~ receipts[t].old => Started(t)'
        /\ receipts'[t].old => receipts[t].old
    BY DEF Calm
  <2> QED
    BY <2>1, <2>2 DEF Tame, TameFor
<1>4. OneRun'
  <2> SUFFICES ASSUME NEW t \in Turns, ~ Exempt(t)
               PROVE  /\ contacts[t] <= 1
                      /\ \A h \in Handlers : T(h) = t /\ MayContact(h)' =>
                           contacts[t] = 0 /\ \A g \in Handlers : T(g) = t /\ MayContact(g)' => g = h
                      /\ \A h \in Handlers : T(h) = t /\ MayEnter(h)' =>
                           contacts[t] = 0 /\ \A g \in Handlers : T(g) = t => ~ MayContact(g)'
    BY DEF OneRun, Tame, Exempt, T
  <2>1. \A h \in Handlers : /\ MayContact(h)' => MayContact(h)
                            /\ MayEnter(h)' => MayEnter(h) \/ Untouched(T(h)) \/ Exempt(T(h))
    BY DEF Tame, TameFor
  <2>2. \A h \in Handlers : T(h) = t /\ (MayEnter(h) \/ Untouched(T(h)) \/ Exempt(T(h))) =>
          contacts[t] = 0 /\ \A g \in Handlers : T(g) = t => ~ MayContact(g)
    BY DEF RunInv, OneRun, Untouched
  <2> QED
    BY <2>1, <2>2 DEF RunInv, OneRun
<1> QED
  BY <1>1, <1>2, <1>3, <1>4, <1>5 DEF RunInv

\* A step of one handler: the others see at most their row taken.
Alone(h) ==
  /\ contacts' = contacts /\ aged' = aged /\ spent \subseteq spent'
  /\ \A g \in Handlers : g # h =>
       handlers'[g] = handlers[g] /\ agents'[g] = agents[g] /\ (Waits(g)' => Waits(g))

LEMMA AloneTame ==
  ASSUME NEW h \in Handlers, Alone(h), TameFor(h)
  PROVE  Tame
<1>1. ASSUME NEW g \in Handlers, g # h PROVE TameFor(g)
  BY <1>1 DEF Alone, TameFor, Solo, MayContact, MayEnter, Busy, Quick
<1> QED
  BY <1>1 DEF Tame, Alone

\* A handler that goes to where no fence is passed, and whose agent, if any,
\* goes on or ends.
Eased(a, b) ==
  /\ b.state \in {"running", "calling"} /\ ~ b.contacted =>
       a.state \in {"running", "calling"} /\ ~ a.contacted
  /\ a.state = "none" => b.state = "none"

LEMMA PlainTame ==
  ASSUME NEW h \in Handlers, Alone(h), Eased(agents[h], agents'[h]),
         handlers'[h].pc \notin {"reserve", "renew", "enter_turn", "enter_row", "start"},
         receipts[T(h)].old /\ handlers[h].pc \in Asks => handlers'[h].pc \in Asks,
         handlers[h].pc \in Apart => handlers'[h].pc \in Apart \/ agents'[h].state = "none"
  PROVE  Tame
<1>1. TameFor(h)
  BY DEF Eased, TameFor, Solo, MayContact, MayEnter, Busy, Quick
<1> QED
  BY <1>1, AloneTame
\* The row of the handler's turn is taken or written, others are pruned.
RowsEase(h) == \A g \in Handlers : g # h => (Waits(g)' => Waits(g))

LEMMA HandlerTame ==
  ASSUME Types, NEW h \in Handlers, NEW x, handlers' = [handlers EXCEPT ![h] = x],
         x.pc \notin {"reserve", "renew", "enter_turn", "enter_row", "start"},
         handlers[h].pc \in Asks => x.pc \in Asks,
         handlers[h].pc \in Apart => x.pc \in Apart \/ agents[h].state = "none",
         UNCHANGED <<agents, contacts, aged>>, spent \subseteq spent', RowsEase(h)
  PROVE  Tame
<1>1. handlers'[h] = x /\ \A g \in Handlers : g # h => handlers'[g] = handlers[g]
  BY DEF Types, TypeOK
<1>2. Alone(h)
  BY <1>1 DEF Alone, RowsEase
<1>3. Eased(agents[h], agents'[h])
  BY DEF Eased
<1> QED
  BY <1>1, <1>2, <1>3, PlainTame

LEMMA SameRowsEase ==
  ASSUME NEW h \in Handlers, rows' = rows PROVE RowsEase(h)
BY DEF RowsEase, Waits, T

LEMMA OthersKeptEase ==
  ASSUME NEW h \in Handlers, OthersKept(T(h)),
         rows'[T(h)] = rows[T(h)] \/ rows'[T(h)].status # "processing" \/ rows'[T(h)].token = h
  PROVE  RowsEase(h)
<1> SUFFICES ASSUME NEW g \in Handlers, g # h, Waits(g)' PROVE Waits(g)
  BY DEF RowsEase
<1>1. rows'[T(g)].status = "processing" /\ rows'[T(g)].token = g /\ ~ rows'[T(g)].entered
  BY DEF Waits, T
<1>2. T(g) \in Turns /\ NoRow.status = "none"
  BY Constants DEF T, NoRow, Ledger!NoRow
<1>3. rows'[T(g)] = rows[T(g)]
  BY <1>1, <1>2 DEF OthersKept
<1> QED
  BY <1>1, <1>3 DEF Waits

LEMMA GonePc == /\ \A response : Gone(response).pc = "end"
                /\ IdleHandler.pc = "idle"
BY DEF Gone, IdleHandler

LEMMA ThrownPc ==
  ASSUME Types, NEW h \in Handlers, NEW lost
  PROVE  Thrown(h, lost).pc \in {"abandon", "end", "fail"}
<1>1. handlers[h] \in Handler
  BY DEF Types, TypeOK
<1> QED
  BY <1>1, GonePc DEF Thrown, Handler

LEMMA AskTame ==
  ASSUME Types, NEW h \in Handlers, Arrive(h) \/ Leave(h) \/ Preflight(h) \/ Renew(h)
  PROVE  Tame
<1>0. /\ handlers \in [Handlers -> Handler] /\ handlers[h] \in Handler
      /\ UNCHANGED <<rows, receipts, reservations, agents, spent, contacts, answers, aged>>
  BY DEF Types, TypeOK, Arrive, Leave, Preflight, Renew, Ledger!Renew, stores, world, history
<1>1. RowsEase(h)
  BY <1>0, SameRowsEase
<1>2. CASE Arrive(h)
  <2>1. handlers[h].pc \in Asks /\ [IdleHandler EXCEPT !.pc = "claim", !.model = route].pc = "claim"
        /\ Gone("outage").pc = "end" /\ agents[h].state = "none"
    BY <1>2, GonePc DEF Arrive, At, Asks, IdleHandler, NoAgent
  <2>2. \/ handlers' = [handlers EXCEPT ![h] = Gone("outage")]
        \/ handlers' = [handlers EXCEPT ![h] = [IdleHandler EXCEPT !.pc = "claim", !.model = route]]
    BY <1>2 DEF Arrive, Set
  <2> QED
    BY <1>0, <1>1, <2>1, <2>2, HandlerTame DEF Asks, Apart
<1>3. CASE Leave(h)
  <2>1. handlers' = [handlers EXCEPT ![h] = IdleHandler]
    BY <1>3 DEF Leave, Set
  <2> QED
    BY <1>0, <1>1, <2>1, GonePc, HandlerTame DEF Asks, Apart
<1>4. CASE Preflight(h)
  <2> DEFINE x == [handlers[h] EXCEPT !.pc = "reserve", !.recovery = NeedsOperator(T(h))]
  <2>1. x.pc = "reserve" /\ x.recovery = NeedsOperator(T(h)) /\ handlers[h].pc = "preflight"
    BY <1>0, <1>4 DEF Preflight, At, Handler
  <2>2. handlers' = [handlers EXCEPT ![h] = x]
    BY <1>4 DEF Preflight, Set
  <2> HIDE DEF x
  <2>3. handlers'[h] = x /\ \A g \in Handlers : g # h => handlers'[g] = handlers[g]
    BY <1>0, <2>2
  <2>4. Alone(h)
    BY <1>0, <1>1, <2>3 DEF Alone, RowsEase
  <2>5. x.recovery \/ T(h) \notin spent
    BY <2>1 DEF NeedsOperator
  <2>6. TameFor(h)
    BY <1>0, <2>1, <2>3, <2>5 DEF TameFor, Solo, MayContact, MayEnter, Busy, Quick, Asks, Apart
  <2> QED
    BY <2>4, <2>6, AloneTame
<1>5. CASE Renew(h)
  <2>0. handlers[h].pc \in {"renew", "renew_again"}
    BY <1>5 DEF Renew, At
  <2>1. CASE handlers' = [handlers EXCEPT ![h] = Thrown(h, TRUE)]
    BY <1>0, <1>1, <2>0, <2>1, ThrownPc, HandlerTame DEF Asks, Apart
  <2>2. CASE handlers' = [handlers EXCEPT ![h] = [handlers[h] EXCEPT !.pc = "commit"]]
    <3>1. [handlers[h] EXCEPT !.pc = "commit"].pc = "commit"
      BY <1>0 DEF Handler
    <3> QED
      BY <1>0, <1>1, <2>0, <2>2, <3>1, HandlerTame DEF Asks, Apart
  <2>3. CASE /\ handlers[h].pc = "renew"
             /\ handlers' = [handlers EXCEPT ![h] = [handlers[h] EXCEPT !.pc = "enter_turn"]]
    <3>1. [handlers[h] EXCEPT !.pc = "enter_turn"].pc = "enter_turn"
      BY <1>0 DEF Handler
    <3>2. handlers'[h].pc = "enter_turn" /\ \A g \in Handlers : g # h => handlers'[g] = handlers[g]
      BY <1>0, <2>3, <3>1
    <3>3. Alone(h)
      BY <1>0, <1>1, <3>2 DEF Alone, RowsEase
    <3>4. TameFor(h)
      BY <1>0, <2>3, <3>2 DEF TameFor, Solo, MayContact, MayEnter, Busy, Quick, Asks, Apart, Waits, T
    <3> QED
      BY <3>3, <3>4, AloneTame
  <2> QED
    BY <1>5, <2>1, <2>2, <2>3 DEF Renew, Throw, To, Set, At
<1> QED
  BY <1>2, <1>3, <1>4, <1>5
LEMMA ClaimTame == ASSUME Types, NEW h \in Handlers, Claim(h) PROVE Tame
<1>0. /\ handlers[h] \in Handler /\ T(h) \in Turns /\ M(h) \in Models /\ handlers[h].pc = "claim"
      /\ rows[T(h)] \in Ledger!Row /\ TypeOK
  BY Constants DEF Types, TypeOK, Equipped, Claim, At, T, M
<1>1. UNCHANGED <<agents, contacts, aged>> /\ spent \subseteq spent'
  BY DEF Claim
<1>2. PICK outcome \in {"claimed", "recovery_required", "full", "conflict", "processing", "succeeded"} :
        /\ Ledger!Claim(T(h), M(h), h, outcome)
        /\ \/ Set(h, [handlers[h] EXCEPT !.pc = "lookup",
                        !.recovery = (outcome = "recovery_required")])
           \/ End(h, rows[T(h)].response)
           \/ End(h, "conflict")
           \/ End(h, None)
  BY DEF Claim
<1>3. RowsEase(h)
  <2>1. Ledger!Claimed(rows[T(h)], M(h), h).token = h
    BY <1>0 DEF Ledger!Claimed, Ledger!Row
  <2>2. OthersKept(T(h)) /\ (rows'[T(h)] = rows[T(h)]
                             \/ rows'[T(h)] = Ledger!Claimed(rows[T(h)], M(h), h))
    BY <1>0, <1>2, ClaimMoves
  <2> QED
    BY <2>1, <2>2, OthersKeptEase
<1>4. [handlers[h] EXCEPT !.pc = "lookup", !.recovery = (outcome = "recovery_required")].pc = "lookup"
  BY <1>0 DEF Handler
<1>5. \/ handlers' = [handlers EXCEPT ![h] = [handlers[h] EXCEPT !.pc = "lookup",
                        !.recovery = (outcome = "recovery_required")]]
      \/ \E response : handlers' = [handlers EXCEPT ![h] = Gone(response)]
  BY <1>2 DEF Set, End
<1> QED
  BY <1>0, <1>1, <1>3, <1>4, <1>5, GonePc, HandlerTame DEF Asks, Apart

\* Handlers that end without a new row of their own.
LEMMA GoneTame ==
  ASSUME Types, NEW h \in Handlers, NEW response, handlers' = [handlers EXCEPT ![h] = Gone(response)],
         UNCHANGED <<agents, contacts, aged>>, spent \subseteq spent', RowsEase(h)
  PROVE  Tame
BY GonePc, HandlerTame DEF Asks, Apart

LEMMA SucceedTame ==
  ASSUME Types, NEW h \in Handlers, Replay(h) \/ NoticeSucceed(h) \/ Succeed(h)
  PROVE  Tame
<1>0. /\ T(h) \in Turns /\ M(h) \in Models /\ TypeOK /\ handlers[h].response \in Responses
  BY Constants DEF Types, Equipped, Replay, NoticeSucceed, Succeed, At, T, M
<1>1. UNCHANGED <<agents, contacts, aged>> /\ spent \subseteq spent'
  BY DEF Replay, NoticeSucceed, Succeed
<1>2. PICK done \in BOOLEAN :
       /\ Ledger!Succeed(T(h), M(h), h, handlers[h].response, done)
       /\ End(h, IF done THEN handlers[h].response ELSE None)
  BY DEF Replay, NoticeSucceed, Succeed
<1>3. RowsEase(h)
  BY <1>0, <1>2, SucceedMoves, OthersKeptEase
<1>4. handlers' = [handlers EXCEPT ![h] = Gone(IF done THEN handlers[h].response ELSE None)]
  BY <1>2 DEF End, Set
<1> QED
  BY <1>1, <1>3, <1>4, GoneTame

LEMMA FailTame == ASSUME Types, NEW h \in Handlers, Fail(h) PROVE Tame
<1>0. T(h) \in Turns /\ rows \in [Turns -> Ledger!Row] /\ \A g \in Handlers : T(g) \in Turns
  BY Constants DEF Types, TypeOK, T
<1>1. UNCHANGED <<agents, contacts, aged>> /\ spent \subseteq spent'
  BY DEF Fail
<1>2. PICK done \in BOOLEAN : Ledger!Fail(T(h), M(h), h, done)
  BY DEF Fail
<1>3. \/ rows' = rows
      \/ /\ rows'[T(h)].status = "failed"
         /\ \A u \in Turns : u # T(h) => rows'[u] = rows[u]
  BY <1>0, <1>2 DEF Ledger!Fail, Ledger!Write, Ledger!Row
<1>4. RowsEase(h)
  BY <1>0, <1>3 DEF RowsEase, Waits, T
<1>5. handlers' = [handlers EXCEPT ![h] = Gone(None)]
  BY DEF Fail, End, Set
<1> QED
  BY <1>1, <1>4, <1>5, GoneTame

LEMMA LookupTame == ASSUME Types, NEW h \in Handlers, Lookup(h) PROVE Tame
<1>0. /\ handlers \in [Handlers -> Handler] /\ handlers[h] \in Handler /\ handlers[h].pc = "lookup"
      /\ UNCHANGED <<rows, agents, spent, contacts, aged>>
  BY DEF Types, TypeOK, Lookup, At, stores
<1>1. RowsEase(h) /\ spent \subseteq spent'
  BY <1>0, SameRowsEase
<1>2. CASE handlers' = [handlers EXCEPT ![h] = Gone("conflict")]
  BY <1>0, <1>1, <1>2, GoneTame
<1>3. CASE \E pc \in {"replay", "preflight"}, a \in {handlers[h].response, receipts[T(h)].response} :
             handlers' = [handlers EXCEPT ![h] = [handlers[h] EXCEPT !.pc = pc, !.response = a]]
  <2>1. PICK pc \in {"replay", "preflight"}, a \in {handlers[h].response, receipts[T(h)].response} :
             handlers' = [handlers EXCEPT ![h] = [handlers[h] EXCEPT !.pc = pc, !.response = a]]
    BY <1>3
  <2>2. [handlers[h] EXCEPT !.pc = pc, !.response = a].pc = pc
    BY <1>0 DEF Handler
  <2> QED
    BY <1>0, <1>1, <2>1, <2>2, HandlerTame DEF Asks, Apart
<1>4. CASE /\ handlers[h].recovery \/ ~ Required
           /\ handlers' = [handlers EXCEPT ![h] = [handlers[h] EXCEPT !.pc = "reserve"]]
  <2> DEFINE x == [handlers[h] EXCEPT !.pc = "reserve"]
  <2>1. x.pc = "reserve" /\ x.recovery = handlers[h].recovery
    BY <1>0 DEF Handler
  <2>2. handlers' = [handlers EXCEPT ![h] = x]
    BY <1>4
  <2> HIDE DEF x
  <2>3. handlers'[h] = x /\ \A g \in Handlers : g # h => handlers'[g] = handlers[g]
    BY <1>0, <2>2
  <2>4. Alone(h)
    BY <1>0, <1>1, <2>3 DEF Alone, RowsEase
  <2>5. TameFor(h)
    BY <1>0, <1>4, <2>1, <2>3 DEF TameFor, Solo, MayContact, MayEnter, Busy, Quick, Asks, Apart
  <2> QED
    BY <2>4, <2>5, AloneTame
<1>5. [handlers[h] EXCEPT !.pc = "preflight"]
      = [handlers[h] EXCEPT !.pc = "preflight", !.response = handlers[h].response]
  BY <1>0 DEF Handler
<1>6. \/ handlers' = [handlers EXCEPT ![h] = Gone("conflict")]
      \/ handlers' = [handlers EXCEPT ![h] = [handlers[h] EXCEPT !.pc = "replay",
                         !.response = receipts[T(h)].response]]
      \/ handlers' = [handlers EXCEPT ![h] = [handlers[h] EXCEPT !.pc = "preflight"]]
      \/ /\ handlers[h].recovery \/ ~ Required
         /\ handlers' = [handlers EXCEPT ![h] = [handlers[h] EXCEPT !.pc = "reserve"]]
  BY DEF Lookup, End, Set, To
<1> QED
  BY <1>2, <1>3, <1>4, <1>5, <1>6

LEMMA OldIsWhole == ASSUME Types, NEW t \in Turns, receipts[t].old PROVE ~ Bare(t)
BY CommittedIsNotBare DEF Types, WholeReceipts

\* A reservation that is only reserved, and no recovery: nobody was there.
LEMMA ReserveTame == ASSUME Types, StoreInv, RunInv, NEW h \in Handlers, Reserve(h) PROVE Tame
<1>0. /\ handlers \in [Handlers -> Handler] /\ handlers[h] \in Handler /\ handlers[h].pc = "reserve"
      /\ UNCHANGED <<rows, agents, spent, contacts, aged>> /\ T(h) \in Turns /\ M(h) \in Models
      /\ contacts[T(h)] \in 0..2
  BY Constants DEF Types, TypeOK, Equipped, Reserve, At, world, history, T, M
<1>1. PICK outcome : Store!Reserve(T(h), M(h), outcome) /\ Set(h, AfterReserve(h, outcome))
  BY DEF Reserve
<1>2. RowsEase(h) /\ spent \subseteq spent'
  BY <1>0, SameRowsEase
<1>3. handlers' = [handlers EXCEPT ![h] = AfterReserve(h, outcome)]
  BY <1>1 DEF Set
<1>4. CASE outcome = "reserved" /\ ~ handlers[h].recovery
  <2>1. AfterReserve(h, outcome).pc = "renew"
    BY <1>0, <1>4 DEF AfterReserve, Handler
  <2>2. handlers'[h].pc = "renew" /\ \A g \in Handlers : g # h => handlers'[g] = handlers[g]
    BY <1>0, <1>3, <2>1
  <2>3. Alone(h)
    BY <1>0, <1>2, <2>2 DEF Alone, RowsEase
  <2>4. ~ Started(T(h))
    <3>1. /\ reservations[T(h)].state \in {"none", "abandoned", "reserved"}
          /\ Bare(T(h))
      BY <1>0, <1>1, <1>4, ReserveMoves
    <3> QED
      BY <3>1 DEF Started
  <2>5. \A g \in Handlers : T(g) = T(h) => ~ MayContact(g)
    BY <2>4 DEF RunInv, Fenced, Busy, MayContact
  <2>6. contacts[T(h)] > 0 => T(h) \in aged /\ ~ Required
    BY <1>0, <1>4, <2>4 DEF RunInv, Remembered
  <2>7. Untouched(T(h)) \/ Exempt(T(h))
    BY <1>0, <2>5, <2>6 DEF Untouched, Exempt
  <2>8. receipts[T(h)].old => ~ Bare(T(h))
    BY <1>0, OldIsWhole
  <2>9. TameFor(h)
    BY <1>0, <2>2, <2>4, <2>7, <2>8 DEF TameFor, Solo, Apart, MayContact, Busy, Quick, Started
  <2> QED
    BY <2>3, <2>9, AloneTame
<1>5. CASE ~ (outcome = "reserved" /\ ~ handlers[h].recovery)
  <2>1. AfterReserve(h, outcome).pc \in {"replay", "notice", "fence", "fail"}
    BY <1>0, <1>5 DEF AfterReserve, Handler
  <2>2. AfterReserve(h, outcome).pc \in {"notice", "fence"} => outcome \in {"reserved", "provider_started"}
    BY <1>0, <1>5 DEF AfterReserve, Handler
  <2>3. receipts[T(h)].old => outcome \in {"committed", "conflict"}
    <3>1. receipts[T(h)].old => ~ Bare(T(h))
      BY <1>0, OldIsWhole
    <3> QED
      BY <1>0, <1>1, <3>1, ReserveMoves
  <2>4. handlers'[h] = AfterReserve(h, outcome)
        /\ \A g \in Handlers : g # h => handlers'[g] = handlers[g]
    BY <1>0, <1>3
  <2>5. Alone(h)
    BY <1>0, <1>2, <2>4 DEF Alone, RowsEase
  <2>6. Eased(agents[h], agents'[h])
    BY <1>0 DEF Eased
  <2> QED
    BY <1>0, <2>1, <2>2, <2>3, <2>4, <2>5, <2>6, PlainTame DEF Asks, Apart
<1> QED
  BY <1>4, <1>5
LEMMA FenceTame == ASSUME Types, NEW h \in Handlers, Fence(h) PROVE Tame
<1>0. /\ handlers[h] \in Handler /\ handlers[h].pc = "fence"
      /\ UNCHANGED <<rows, agents, spent, contacts, aged>>
  BY DEF Types, TypeOK, Fence, At
<1>1. RowsEase(h) /\ spent \subseteq spent'
  BY <1>0, SameRowsEase
<1>2. \/ handlers' = [handlers EXCEPT ![h] = Gone(None)]
      \/ handlers' = [handlers EXCEPT ![h] = [handlers[h] EXCEPT !.pc = "notice"]]
  BY DEF Fence, End, Set, To
<1>3. [handlers[h] EXCEPT !.pc = "notice"].pc = "notice"
  BY <1>0 DEF Handler
<1> QED
  BY <1>0, <1>1, <1>2, <1>3, GoneTame, HandlerTame DEF Asks, Apart

LEMMA WriteTame == ASSUME Types, NEW h \in Handlers, Notice(h) \/ Commit(h) PROVE Tame
<1>0. /\ handlers[h] \in Handler /\ handlers[h].pc \in {"notice", "commit"}
      /\ UNCHANGED <<rows, agents, spent, contacts, aged>>
  BY DEF Types, TypeOK, Notice, Commit, At, world, history
<1>1. RowsEase(h) /\ spent \subseteq spent'
  BY <1>0, SameRowsEase
<1>2. \/ \E pc \in {"fail", "notice_succeed", "succeed"}, a \in Responses \cup {None} :
           handlers' = [handlers EXCEPT ![h] = [handlers[h] EXCEPT !.response = a, !.pc = pc]]
      \/ handlers' = [handlers EXCEPT ![h] = Thrown(h, FALSE)]
  BY DEF Notice, Commit, Set, Throw
<1>3. \A pc \in {"fail", "notice_succeed", "succeed"}, a \in Responses \cup {None} :
        [handlers[h] EXCEPT !.response = a, !.pc = pc].pc = pc
  BY <1>0 DEF Handler
<1>4. CASE handlers' = [handlers EXCEPT ![h] = Thrown(h, FALSE)]
  BY <1>0, <1>1, <1>4, ThrownPc, HandlerTame DEF Asks, Apart
<1>5. CASE \E pc \in {"fail", "notice_succeed", "succeed"}, a \in Responses \cup {None} :
             handlers' = [handlers EXCEPT ![h] = [handlers[h] EXCEPT !.response = a, !.pc = pc]]
  BY <1>0, <1>1, <1>3, <1>5, HandlerTame DEF Asks, Apart
<1> QED
  BY <1>2, <1>4, <1>5

LEMMA EnterTurnTame == ASSUME Types, NEW h \in Handlers, EnterTurn(h) PROVE Tame
<1>0. /\ handlers \in [Handlers -> Handler] /\ handlers[h] \in Handler /\ handlers[h].pc = "enter_turn"
      /\ UNCHANGED <<rows, agents, spent, contacts, aged>> /\ T(h) \in Turns /\ M(h) \in Models
  BY Constants DEF Types, TypeOK, Equipped, EnterTurn, At, world, history, T, M
<1>1. PICK outcome :
        /\ Store!EnterTurn(T(h), M(h), outcome)
        /\ \/ /\ outcome = "provider_started"
              /\ handlers' = [handlers EXCEPT ![h] = [handlers[h] EXCEPT !.reserved = FALSE, !.pc = "enter_row"]]
           \/ handlers' = [handlers EXCEPT ![h] = Gone(None)]
           \/ handlers' = [handlers EXCEPT ![h] = Thrown(h, TRUE)]
  BY DEF EnterTurn, Set, Throw
<1>2. RowsEase(h) /\ spent \subseteq spent'
  BY <1>0, SameRowsEase
<1>3. CASE handlers' = [handlers EXCEPT ![h] = Gone(None)]
  BY <1>0, <1>2, <1>3, GoneTame
<1>4. CASE handlers' = [handlers EXCEPT ![h] = Thrown(h, TRUE)]
  BY <1>0, <1>2, <1>4, ThrownPc, HandlerTame DEF Asks, Apart
<1>5. CASE /\ outcome = "provider_started"
           /\ handlers' = [handlers EXCEPT ![h] = [handlers[h] EXCEPT !.reserved = FALSE, !.pc = "enter_row"]]
  <2>1. [handlers[h] EXCEPT !.reserved = FALSE, !.pc = "enter_row"].pc = "enter_row"
    BY <1>0 DEF Handler
  <2>2. handlers'[h].pc = "enter_row" /\ \A g \in Handlers : g # h => handlers'[g] = handlers[g]
    BY <1>0, <1>5, <2>1
  <2>3. Alone(h)
    BY <1>0, <1>2, <2>2 DEF Alone, RowsEase
  <2>4. Started(T(h))'
    <3>1. reservations'[T(h)].state = "provider_started"
      BY <1>0, <1>1, <1>5, EnterMoves
    <3> QED
      BY <3>1 DEF Started, T
  <2>5. TameFor(h)
    BY <1>0, <2>2, <2>4 DEF TameFor, Solo, MayContact, MayEnter, Busy, Quick, Asks, Apart, Waits, T
  <2> QED
    BY <2>3, <2>5, AloneTame
<1> QED
  BY <1>1, <1>3, <1>4, <1>5

LEMMA AbandonTame == ASSUME Types, NEW h \in Handlers, Abandon(h) PROVE Tame
<1>0. /\ handlers[h] \in Handler /\ handlers[h].pc = "abandon"
      /\ UNCHANGED <<rows, agents, spent, contacts, aged>>
  BY DEF Types, TypeOK, Abandon, At, world, history
<1>1. RowsEase(h) /\ spent \subseteq spent'
  BY <1>0, SameRowsEase
<1>2. \/ handlers' = [handlers EXCEPT ![h] = Gone(None)]
      \/ handlers' = [handlers EXCEPT ![h] = [handlers[h] EXCEPT !.pc = "fail"]]
  BY DEF Abandon, Set
<1>3. [handlers[h] EXCEPT !.pc = "fail"].pc = "fail"
  BY <1>0 DEF Handler
<1> QED
  BY <1>0, <1>1, <1>2, <1>3, GoneTame, HandlerTame DEF Asks, Apart

\* Agents that begin, go on or end.
LEMMA AgentTame ==
  ASSUME Types, NEW h \in Handlers, StartAgent(h) \/ AgentCalls(h) \/ NotReached(h) \/ AgentEnds(h)
  PROVE  Tame
<1>0. /\ handlers \in [Handlers -> Handler] /\ handlers[h] \in Handler
      /\ agents \in [Handlers -> Agent] /\ agents[h] \in Agent
      /\ UNCHANGED <<rows, receipts, reservations, spent, contacts, aged>>
  BY DEF Types, TypeOK, StartAgent, AgentCalls, NotReached, AgentEnds, stores, history
<1>1. RowsEase(h) /\ spent \subseteq spent'
  BY <1>0, SameRowsEase
<1>2. CASE StartAgent(h)
  <2>1. [handlers[h] EXCEPT !.pc = "run"].pc = "run" /\ handlers[h].pc = "start"
    BY <1>0, <1>2 DEF Handler, StartAgent, At
  <2>2. handlers' = [handlers EXCEPT ![h] = [handlers[h] EXCEPT !.pc = "run"]]
    BY <1>2 DEF StartAgent, To, Set
  <2>3. handlers'[h].pc = "run" /\ \A g \in Handlers : g # h => handlers'[g] = handlers[g]
    BY <1>0, <2>1, <2>2
  <2>4. \A g \in Handlers : g # h => agents'[g] = agents[g]
    BY <1>0, <1>2 DEF StartAgent
  <2>5. Alone(h)
    BY <1>0, <1>1, <2>3, <2>4 DEF Alone, RowsEase
  <2>6. TameFor(h)
    BY <2>1, <2>3 DEF TameFor, Solo, MayContact, MayEnter, Busy, Quick, Asks, Apart
  <2> QED
    BY <2>5, <2>6, AloneTame
<1>3. CASE AgentCalls(h) \/ NotReached(h) \/ AgentEnds(h)
  <2>1. handlers' = handlers /\ \A g \in Handlers : g # h => agents'[g] = agents[g]
    BY <1>0, <1>3 DEF AgentCalls, NotReached, AgentEnds
  <2>2. /\ agents[h].state \in {"running", "calling"}
        /\ agents'[h].contacted = agents[h].contacted \/ agents'[h] = NoAgent
           \/ agents'[h].state \in {"done", "failed"}
    BY <1>0, <1>3 DEF AgentCalls, NotReached, AgentEnds, Agent
  <2>3. Alone(h)
    BY <1>0, <1>1, <2>1 DEF Alone, RowsEase
  <2>4. TameFor(h)
    BY <1>0, <2>1, <2>2 DEF TameFor, Solo, MayContact, MayEnter, Busy, Quick, Waits, T, NoAgent
  <2> QED
    BY <2>3, <2>4, AloneTame
<1> QED
  BY <1>2, <1>3

\* Handlers that are stopped, and agents that are cancelled with them.
LEMMA StopTame ==
  ASSUME Types, NEW h \in Handlers,
         \/ SeeResult(h) \/ LoseLease(h) \/ Deadline(h)
         \/ StoreFails(h) \/ Cancel(h) \/ Late(h)
  PROVE  Tame
<1>0. /\ handlers \in [Handlers -> Handler] /\ handlers[h] \in Handler
      /\ agents \in [Handlers -> Agent] /\ agents[h] \in Agent
      /\ UNCHANGED <<rows, receipts, reservations, contacts, aged>>
  BY DEF Types, TypeOK, SeeResult, LoseLease, Deadline, StoreFails, Cancel, Late, stores, history
<1>1. RowsEase(h)
  BY <1>0, SameRowsEase
<1>2. /\ spent \subseteq spent'
      /\ agents' = agents \/ agents' = [agents EXCEPT ![h] = NoAgent]
  BY DEF SeeResult, LoseLease, Deadline, StoreFails, Cancel, Late, CancelAgent
<1>3. /\ Eased(agents[h], agents'[h])
      /\ \A g \in Handlers : g # h => agents'[g] = agents[g]
  BY <1>0, <1>2 DEF Eased, NoAgent
<1>4. /\ [handlers[h] EXCEPT !.pc = "renew_again"].pc = "renew_again"
      /\ [handlers[h] EXCEPT !.pc = "fail"].pc = "fail"
  BY <1>0 DEF Handler
<1>5. \E x : /\ handlers' = [handlers EXCEPT ![h] = x]
             /\ x.pc \in {"renew_again", "abandon", "fail", "end"}
             /\ handlers[h].pc \in Asks => x.pc \in {"fail", "end"}
             /\ x.pc = "renew_again" => agents'[h].state = "none"
  <2>1. CASE SeeResult(h) \/ LoseLease(h) \/ Deadline(h) \/ Late(h)
    <3>1. handlers[h].pc \notin Asks
      BY <2>1 DEF SeeResult, LoseLease, Deadline, Late, At, Asks, Apart
    <3>2. \/ \E lost \in BOOLEAN : handlers' = [handlers EXCEPT ![h] = Thrown(h, lost)]
          \/ /\ handlers' = [handlers EXCEPT ![h] = [handlers[h] EXCEPT !.pc = "renew_again"]]
             /\ agents' = [agents EXCEPT ![h] = NoAgent]
      BY <2>1 DEF SeeResult, LoseLease, Deadline, Late, Throw, To, Set
    <3>3. agents' = [agents EXCEPT ![h] = NoAgent] => agents'[h].state = "none"
      BY <1>0 DEF NoAgent
    <3> QED
      BY <1>4, <3>1, <3>2, <3>3, ThrownPc
  <2>2. CASE StoreFails(h)
    <3>1. handlers' = [handlers EXCEPT ![h] = Where(h)]
      BY <2>2 DEF StoreFails, Set
    <3>2. /\ Where(h).pc \in {"abandon", "fail", "end"}
          /\ handlers[h].pc \in Asks => Where(h).pc \in {"fail", "end"}
      BY <1>4, ThrownPc, GonePc DEF Where, Asks, Apart
    <3> QED
      BY <3>1, <3>2
  <2>3. CASE Cancel(h)
    <3>1. \/ handlers[h].pc \in Guarded /\ handlers' = [handlers EXCEPT ![h] = Thrown(h, TRUE)]
          \/ handlers' = [handlers EXCEPT ![h] = Gone(None)]
      BY <2>3 DEF Cancel, Throw, Set
    <3> QED
      BY <3>1, ThrownPc, GonePc DEF Guarded, Asks, Apart
  <2> QED
    BY <2>1, <2>2, <2>3
<1>6. /\ \A g \in Handlers : g # h => handlers'[g] = handlers[g]
      /\ handlers'[h].pc \in {"renew_again", "abandon", "fail", "end"}
      /\ handlers[h].pc \in Asks => handlers'[h].pc \in {"fail", "end"}
      /\ handlers'[h].pc = "renew_again" => agents'[h].state = "none"
  BY <1>0, <1>5
<1>7. Alone(h)
  BY <1>0, <1>1, <1>2, <1>3, <1>6 DEF Alone, RowsEase
<1> QED
  BY <1>3, <1>6, <1>7, PlainTame DEF Asks, Apart

LEMMA CrashTame == ASSUME Crash PROVE Tame
<1>1. /\ contacts' = contacts /\ aged' = aged /\ spent \subseteq spent'
      /\ \A g \in Handlers : handlers'[g] = IdleHandler /\ agents'[g] = NoAgent
  BY DEF Crash, history
<1> QED
  BY <1>1, GonePc DEF Tame, TameFor, Solo, MayContact, MayEnter, Busy, Quick, Asks, Apart, NoAgent

LEMMA RestTame ==
  ASSUME Types,
         \/ \E t \in Turns : LapseOfGone(t) \/ LapseOfStalled(t)
         \/ RouteChanges \/ RouteReturns \/ UNCHANGED vars
  PROVE  Tame
<1>0. rows \in [Turns -> Ledger!Row] /\ \A g \in Handlers : T(g) \in Turns
  BY Constants DEF Types, TypeOK, T
<1>1. UNCHANGED <<handlers, agents, spent, contacts, aged>>
  BY DEF LapseOfGone, LapseOfStalled, RouteChanges, RouteReturns, world, history, vars
<1>2. rows' = rows \/ \E t \in Turns : rows' = [rows EXCEPT ![t].leased = FALSE]
  BY DEF LapseOfGone, LapseOfStalled, Ledger!Lapse, RouteChanges, RouteReturns, stores, vars
<1>3. \A g \in Handlers : Waits(g)' => Waits(g)
  BY <1>0, <1>2 DEF Waits, T, Ledger!Row
<1> QED
  BY <1>1, <1>3 DEF Tame, TameFor, Solo, MayContact, MayEnter, Busy, Quick
\* Through the row's fence goes one, who is then the one that may contact.
LEMMA EnterRowRun == ASSUME Types, RunInv, NEW h \in Handlers, EnterRow(h) PROVE RunInv'
<1>0. /\ handlers \in [Handlers -> Handler] /\ handlers[h] \in Handler /\ handlers[h].pc = "enter_row"
      /\ UNCHANGED <<receipts, reservations, agents, spent, contacts, aged>>
      /\ rows \in [Turns -> Ledger!Row] /\ \A g \in Handlers : T(g) \in Turns
  BY Constants DEF Types, TypeOK, EnterRow, At, world, history, T
<1>1. PICK done \in BOOLEAN :
        /\ Ledger!Enter(T(h), M(h), h, done)
        /\ handlers' = [handlers EXCEPT ![h] = [handlers[h] EXCEPT !.pc = IF done THEN "start" ELSE "fail"]]
  BY DEF EnterRow, To, Set
<1>2. CASE ~ done
  <2>1. rows' = rows /\ [handlers[h] EXCEPT !.pc = "fail"].pc = "fail"
        /\ handlers' = [handlers EXCEPT ![h] = [handlers[h] EXCEPT !.pc = "fail"]]
    BY <1>0, <1>1, <1>2 DEF Ledger!Enter, Ledger!Write, Handler
  <2>2. Tame
    BY <1>0, <2>1, SameRowsEase, HandlerTame DEF Asks, Apart
  <2>3. Calm
    BY <1>0 DEF Calm, Started, Bare
  <2> QED
    BY <2>2, <2>3, TameInv
<1>3. CASE done
  <2>1. [handlers[h] EXCEPT !.pc = "start"].pc = "start"
    BY <1>0 DEF Handler
  <2>2. handlers'[h].pc = "start" /\ \A g \in Handlers : g # h => handlers'[g] = handlers[g]
    BY <1>0, <1>1, <1>3, <2>1
  <2>3. /\ MayEnter(h)
        /\ rows'[T(h)].entered
        /\ \A u \in Turns : u # T(h) => rows'[u] = rows[u]
    BY <1>0, <1>1, <1>3 DEF Ledger!Enter, Ledger!Owns, Ledger!Write, MayEnter, Waits, Ledger!Row
  <2>4. \A g \in Handlers : /\ g # h => (MayContact(g)' <=> MayContact(g))
                            /\ MayEnter(g)' => MayEnter(g) /\ T(g) # T(h)
                            /\ Busy(g)' <=> Busy(g)
                            /\ Quick(g)' <=> Quick(g)
    BY <1>0, <2>2, <2>3 DEF MayContact, MayEnter, Waits, Busy, Quick, T, Asks, Apart
  <2>5. Fenced' /\ OldIsQuiet' /\ OneAgent'
    <3>1. agents[h].state = "none"
      BY <1>0 DEF RunInv, OneAgent, Solo, Apart
    <3> QED
      BY <1>0, <2>2, <2>4, <3>1 DEF RunInv, OneAgent, Solo, Fenced, OldIsQuiet, Started, Bare, T
  <2>6. Remembered'
    BY <1>0, <2>2 DEF RunInv, Remembered, Started, Bare, T
  <2>7. OneRun'
    <3> SUFFICES ASSUME NEW t \in Turns, ~ Exempt(t)
                 PROVE  /\ contacts[t] <= 1
                        /\ \A f \in Handlers : T(f) = t /\ MayContact(f)' =>
                             contacts[t] = 0 /\ \A g \in Handlers : T(g) = t /\ MayContact(g)' => g = f
                        /\ \A f \in Handlers : T(f) = t /\ MayEnter(f)' =>
                             contacts[t] = 0 /\ \A g \in Handlers : T(g) = t => ~ MayContact(g)'
      BY <1>0 DEF OneRun, Exempt, T
    <3>1. /\ contacts[t] <= 1
          /\ \A f \in Handlers : T(f) = t /\ MayContact(f) =>
               contacts[t] = 0 /\ \A g \in Handlers : T(g) = t /\ MayContact(g) => g = f
          /\ \A f \in Handlers : T(f) = t /\ MayEnter(f) =>
               contacts[t] = 0 /\ \A g \in Handlers : T(g) = t => ~ MayContact(g)
      BY DEF RunInv, OneRun
    <3>2. CASE t = T(h)
      BY <2>3, <2>4, <3>1, <3>2
    <3>3. CASE t # T(h)
      BY <2>4, <3>1, <3>3
    <3> QED
      BY <3>2, <3>3
  <2> QED
    BY <2>5, <2>6, <2>7 DEF RunInv
<1> QED
  BY <1>2, <1>3

\* The one that may contact does so, and nobody may after it.
LEMMA ReachedRun == ASSUME Types, RunInv, NEW h \in Handlers, Reached(h) PROVE RunInv'
<1>0. /\ agents \in [Handlers -> Agent] /\ agents[h].state = "calling"
      /\ UNCHANGED <<rows, receipts, reservations, handlers, aged>> /\ spent' = spent \cup {T(h)}
      /\ contacts \in [Turns -> 0..2] /\ T(h) \in Turns
  BY Constants DEF Types, TypeOK, Reached, stores, T
<1>1. /\ agents'[h].state = "running" /\ agents'[h].contacted
      /\ \A g \in Handlers : g # h => agents'[g] = agents[g]
  BY <1>0 DEF Reached
<1>2. /\ ~ MayContact(h)' /\ (MayContact(h) <=> ~ agents[h].contacted)
      /\ \A g \in Handlers : /\ g # h => (MayContact(g)' <=> MayContact(g))
                             /\ MayEnter(g)' <=> MayEnter(g)
                             /\ Busy(g)' <=> Busy(g)
                             /\ Quick(g)' <=> Quick(g)
  <2>1. handlers[h].pc # "start"
    BY <1>0 DEF RunInv, OneAgent, Solo, Apart
  <2> QED
    BY <1>0, <1>1, <2>1 DEF MayContact, MayEnter, Waits, Busy, Quick, T
<1>3. Busy(h) /\ Started(T(h)) /\ ~ receipts[T(h)].old
  BY <1>0 DEF RunInv, Fenced, OldIsQuiet, Busy, Quick
<1>4. Fenced' /\ OldIsQuiet' /\ OneAgent'
  BY <1>0, <1>1, <1>2 DEF RunInv, OneAgent, Solo, Fenced, OldIsQuiet, Started, Bare, T
<1>5. /\ \A t \in Turns : t # T(h) => contacts'[t] = contacts[t]
      /\ contacts'[T(h)] = contacts[T(h)] \/ (~ agents[h].contacted /\ contacts'[T(h)] > 0)
      /\ ~ agents[h].contacted /\ contacts[T(h)] = 0 => contacts'[T(h)] = 1
  BY <1>0 DEF Reached, Ledger!Least
<1>6. Remembered'
  BY <1>0, <1>3, <1>5 DEF RunInv, Remembered, Started, Bare, T
<1>7. OneRun'
  <2> SUFFICES ASSUME NEW t \in Turns, ~ Exempt(t)
               PROVE  /\ contacts'[t] <= 1
                      /\ \A f \in Handlers : T(f) = t /\ MayContact(f)' =>
                           contacts'[t] = 0 /\ \A g \in Handlers : T(g) = t /\ MayContact(g)' => g = f
                      /\ \A f \in Handlers : T(f) = t /\ MayEnter(f)' =>
                           contacts'[t] = 0 /\ \A g \in Handlers : T(g) = t => ~ MayContact(g)'
    BY <1>0 DEF OneRun, Exempt, T
  <2>1. /\ contacts[t] <= 1
        /\ \A f \in Handlers : T(f) = t /\ MayContact(f) =>
             contacts[t] = 0 /\ \A g \in Handlers : T(g) = t /\ MayContact(g) => g = f
        /\ \A f \in Handlers : T(f) = t /\ MayEnter(f) =>
             contacts[t] = 0 /\ \A g \in Handlers : T(g) = t => ~ MayContact(g)
    BY DEF RunInv, OneRun
  <2>2. CASE t # T(h)
    BY <1>2, <1>5, <2>1, <2>2
  <2>3. CASE t = T(h)
    BY <1>0, <1>2, <1>5, <2>1, <2>3
  <2> QED
    BY <2>2, <2>3
<1> QED
  BY <1>4, <1>6, <1>7 DEF RunInv

\* A turn ages when nothing of it is at work.
LEMMA AgeRun == ASSUME Types, RunInv, NEW t \in Turns, Age(t) PROVE RunInv'
<1>0. /\ UNCHANGED <<handlers, agents, spent, contacts, reservations>> /\ aged' = aged \cup {t}
      /\ receipts \in [Turns -> Store!Receipt] /\ rows \in [Turns -> Ledger!Row]
      /\ \A h \in Handlers : T(h) \in Turns
  BY Constants DEF Types, TypeOK, Age, Store!AgeReceipt, T
<1>1. /\ \A u \in Turns : receipts'[u].response = receipts[u].response
      /\ \A u \in Turns : u # t => receipts'[u].old = receipts[u].old
  BY <1>0 DEF Age, Store!AgeReceipt, Store!Receipt
<1>2. \A u \in Turns : /\ rows'[u].status = rows[u].status /\ rows'[u].token = rows[u].token
                       /\ rows'[u].entered = rows[u].entered
  BY <1>0 DEF Age, Ledger!AgeRow, Ledger!Row
<1>3. \A h \in Handlers : T(h) = t => handlers[h].pc \in {"idle", "end"} /\ agents[h] = NoAgent
  BY DEF Age, Quiet, T
<1>4. /\ \A u \in Turns : Started(u)' <=> Started(u)
      /\ \A g \in Handlers : /\ MayContact(g)' <=> MayContact(g)
                             /\ MayEnter(g)' <=> MayEnter(g)
                             /\ Busy(g)' <=> Busy(g)
                             /\ Quick(g)' <=> Quick(g)
  BY <1>0, <1>1, <1>2 DEF Started, Bare, MayContact, MayEnter, Waits, Busy, Quick, T
<1>5. Fenced' /\ OneAgent'
  BY <1>0, <1>4 DEF RunInv, OneAgent, Solo, Fenced, T
<1>6. OldIsQuiet'
  BY <1>0, <1>1, <1>3, <1>4 DEF RunInv, OldIsQuiet, Quick, Asks, Apart, NoAgent, T
<1>7. Remembered'
  BY <1>0, <1>1, <1>3, <1>4 DEF RunInv, Remembered, T
<1>8. OneRun'
  BY <1>0, <1>4 DEF RunInv, OneRun, Exempt, T
<1> QED
  BY <1>5, <1>6, <1>7, <1>8 DEF RunInv

LEMMA StepRun == ASSUME Types, StoreInv, RunInv, [Next]_vars PROVE RunInv'
<1>1. ASSUME NEW t \in Turns, Age(t) PROVE RunInv'
  BY <1>1, AgeRun
<1>2. ASSUME NEW h \in Handlers, EnterRow(h) \/ Reached(h) PROVE RunInv'
  BY <1>2, EnterRowRun, ReachedRun
<1>3. CASE /\ ~ \E t \in Turns : Age(t)
           /\ ~ \E h \in Handlers : EnterRow(h) \/ Reached(h)
  <2>1. Calm
    BY <1>3, StepSound, CalmMovesAreCalm DEF Sound
  <2>2. ASSUME NEW h \in Handlers, Arrive(h) \/ Work(h) PROVE Tame
    BY <1>3, <2>2, AskTame, ClaimTame, LookupTame, SucceedTame, ReserveTame, FenceTame, WriteTame,
       EnterTurnTame, AgentTame, StopTame, AbandonTame, FailTame DEF Work
  <2>3. ASSUME NEW h \in Handlers,
               \/ AgentCalls(h) \/ Reached(h) \/ NotReached(h) \/ AgentEnds(h)
               \/ StoreFails(h) \/ Cancel(h) \/ Late(h) \/ Deadline(h)
        PROVE  Tame
    BY <1>3, <2>3, AgentTame, StopTame
  <2>4. ASSUME Crash PROVE Tame
    BY <2>4, CrashTame
  <2>5. ASSUME \/ \E t \in Turns : LapseOfGone(t) \/ LapseOfStalled(t)
               \/ RouteChanges \/ RouteReturns \/ UNCHANGED vars
        PROVE  Tame
    BY <2>5, RestTame
  <2>6. Tame
    BY <1>3, <2>2, <2>3, <2>4, <2>5 DEF Next
  <2> QED
    BY <2>1, <2>6, TameInv
<1> QED
  BY <1>1, <1>2, <1>3

LEMMA InitRun == Init => RunInv
<1> SUFFICES ASSUME Init PROVE RunInv
  OBVIOUS
<1>1. /\ \A h \in Handlers : handlers[h].pc = "idle" /\ agents[h].state = "none"
      /\ \A t \in Turns : contacts[t] = 0 /\ ~ receipts[t].old
  BY GonePc DEF Init, NoAgent, Store!Init, Store!NoReceipt
<1> QED
  BY <1>1 DEF RunInv, OneAgent, Solo, Fenced, OldIsQuiet, Remembered, OneRun, MayContact, MayEnter, Busy, Quick, Asks, Apart
-----------------------------------------------------------------------------
(* All clients are told the same.                                          *)

Says(t, m, a) == ~ Bare(t) /\ receipts[t].request = m /\ receipts[t].response = a

\* Where a handler has a response it is about to give.
Tellers == {"replay", "notice_succeed", "succeed"}

\* What clients were told, what the replay ledger holds and what a handler is
\* about to tell is what the receipt says, as long as it is protected.
ToldInv ==
  \A t \in Turns \ aged :
    /\ \A a \in answers[t] : Says(t, a[1], a[2])
    /\ rows[t].status = "succeeded" => Says(t, rows[t].request, rows[t].response)
    /\ \A h \in Handlers : T(h) = t /\ handlers[h].pc \in Tellers =>
         Says(t, handlers[h].model, handlers[h].response)

\* What is told anew is what the receipt says after the step.
RowsTell ==
  \A t \in Turns \ aged' : rows'[t].status = "succeeded" =>
    \/ /\ rows[t].status = "succeeded" /\ rows'[t].request = rows[t].request
       /\ rows'[t].response = rows[t].response
    \/ Says(t, rows[t].request, rows[t].response)'

Tells ==
  /\ aged \subseteq aged'
  /\ \A t \in Turns \ aged' :
       /\ ~ Bare(t) /\ ~ receipts[t].old => receipts'[t] = receipts[t]
       /\ \A a \in answers'[t] : a \in answers[t] \/ Says(t, a[1], a[2])'
  /\ RowsTell
  /\ \A h \in Handlers : T(h) \notin aged' /\ handlers'[h].pc \in Tellers =>
       \/ /\ handlers[h].pc \in Tellers /\ handlers'[h].model = handlers[h].model
          /\ handlers'[h].response = handlers[h].response
       \/ Says(T(h), handlers[h].model, handlers[h].response)'

LEMMA TellsInv ==
  ASSUME RunInv, ToldInv, Tells
  PROVE  ToldInv'
<1>1. ASSUME NEW t \in Turns \ aged', NEW m, NEW a, Says(t, m, a)
      PROVE  receipts'[t].response # None /\ receipts'[t].request = m /\ receipts'[t].response = a
  <2>1. ~ receipts[t].old
    BY <1>1 DEF RunInv, OldIsQuiet, Tells
  <2> QED
    BY <1>1, <2>1 DEF Says, Bare, Tells
<1> SUFFICES ASSUME NEW t \in Turns \ aged'
             PROVE  /\ \A a \in answers'[t] : Says(t, a[1], a[2])'
                    /\ rows'[t].status = "succeeded" => Says(t, rows[t].request, rows[t].response)'
                    /\ \A h \in Handlers : T(h) = t /\ handlers'[h].pc \in Tellers =>
                         Says(t, handlers[h].model, handlers[h].response)'
  BY DEF ToldInv, T, Says, Bare
<1>2. t \in Turns \ aged
  BY DEF Tells
<1>3. \A a \in answers'[t] : Says(t, a[1], a[2])'
  BY <1>1, <1>2 DEF ToldInv, Tells, Says, Bare
<1>4. rows'[t].status = "succeeded" => Says(t, rows[t].request, rows[t].response)'
  BY <1>1, <1>2 DEF ToldInv, Tells, RowsTell, Says, Bare
<1>5. ASSUME NEW h \in Handlers, T(h) = t, handlers'[h].pc \in Tellers
      PROVE  Says(t, handlers[h].model, handlers[h].response)'
  BY <1>1, <1>2, <1>5 DEF ToldInv, Tells, Says, Bare
<1> QED
  BY <1>3, <1>4, <1>5
LEMMA SameRowsTell == ASSUME rows' = rows PROVE RowsTell
BY DEF RowsTell

LEMMA OthersKeptTell ==
  ASSUME NEW t \in Turns, OthersKept(t),
         \/ rows'[t] = rows[t]
         \/ rows'[t].status # "succeeded"
         \/ Says(t, rows[t].request, rows[t].response)'
  PROVE  RowsTell
<1>1. NoRow.status = "none"
  BY DEF NoRow, Ledger!NoRow
<1> QED
  BY <1>1 DEF OthersKept, RowsTell

\* A handler goes to where it has nothing to tell.
LEMMA QuietTells ==
  ASSUME Types, Calm, NEW h \in Handlers, NEW x, handlers' = [handlers EXCEPT ![h] = x],
         x.pc \notin Tellers, UNCHANGED <<answers, aged>>, RowsTell
  PROVE  Tells
<1>1. \A g \in Handlers : handlers'[g].pc \in Tellers =>
        /\ handlers[g].pc \in Tellers /\ handlers'[g].model = handlers[g].model
        /\ handlers'[g].response = handlers[g].response
  BY DEF Types, TypeOK
<1> QED
  BY <1>1 DEF Tells, Calm

\* A handler goes to where it tells what the receipt says.
LEMMA NewTells ==
  ASSUME Types, Calm, NEW h \in Handlers, NEW x, handlers' = [handlers EXCEPT ![h] = x],
         x.model = M(h), ~ Bare(T(h))', receipts'[T(h)].request = M(h),
         receipts'[T(h)].response = x.response, UNCHANGED <<answers, aged>>, RowsTell
  PROVE  Tells
<1>1. handlers'[h] = x /\ \A g \in Handlers : g # h => handlers'[g] = handlers[g]
  BY DEF Types, TypeOK
<1>2. Says(T(h), handlers[h].model, handlers[h].response)'
  BY <1>1 DEF Says, T, M
<1> QED
  BY <1>1, <1>2 DEF Tells, Calm

\* A handler ends with nothing, or with what the receipt says.
LEMMA EndTells ==
  ASSUME Types, RunInv, Calm, NEW h \in Handlers, NEW response, End(h, response), aged' = aged, RowsTell,
         response \in Responses /\ T(h) \notin aged => Says(T(h), M(h), response)
  PROVE  Tells
<1>0. T(h) \in Turns /\ answers \in [Turns -> SUBSET (Models \X Responses)] /\ Gone(response).pc \notin Tellers
  BY Constants, GonePc DEF Types, TypeOK, T, Tellers
<1>1. \A g \in Handlers : handlers'[g].pc \in Tellers =>
        /\ handlers[g].pc \in Tellers /\ handlers'[g].model = handlers[g].model
        /\ handlers'[g].response = handlers[g].response
  BY <1>0 DEF Types, TypeOK, End, Set
<1>2. ASSUME NEW t \in Turns \ aged, NEW a \in answers'[t]
      PROVE  a \in answers[t] \/ Says(t, a[1], a[2])'
  <2>1. \/ a \in answers[t]
        \/ response \in Responses /\ t = T(h) /\ a = <<M(h), response>>
    BY <1>0, <1>2 DEF End
  <2>2. ASSUME response \in Responses, t = T(h), a = <<M(h), response>>, a \notin answers[t]
        PROVE  Says(t, a[1], a[2])'
    <3>1. Says(t, M(h), response) /\ a[1] = M(h) /\ a[2] = response
      BY <2>2
    <3>2. ~ receipts[t].old
      BY <1>2 DEF RunInv, OldIsQuiet
    <3>3. receipts'[t] = receipts[t]
      BY <3>1, <3>2 DEF Says, Calm
    <3> QED
      BY <3>1, <3>3 DEF Says, Bare
  <2> QED
    BY <2>1, <2>2
<1> QED
  BY <1>1, <1>2 DEF Tells, Calm
\* The steps that tell something new.
LEMMA ClaimTells ==
  ASSUME Types, RunInv, ToldInv, Calm, NEW h \in Handlers, Claim(h)
  PROVE  Tells
<1>0. /\ handlers[h] \in Handler /\ T(h) \in Turns /\ M(h) \in Models
      /\ TypeOK /\ rows[T(h)] \in Ledger!Row /\ aged' = aged
  BY Constants DEF Types, TypeOK, Equipped, Claim, At, T, M
<1>1. PICK outcome \in {"claimed", "recovery_required", "full", "conflict", "processing", "succeeded"} :
        /\ Ledger!Claim(T(h), M(h), h, outcome)
        /\ \/ /\ Set(h, [handlers[h] EXCEPT !.pc = "lookup",
                           !.recovery = (outcome = "recovery_required")])
              /\ UNCHANGED answers
           \/ outcome = "succeeded" /\ End(h, rows[T(h)].response)
           \/ End(h, "conflict")
           \/ End(h, None)
  BY DEF Claim
<1>2. /\ OthersKept(T(h))
      /\ rows'[T(h)] = rows[T(h)] \/ rows'[T(h)] = Ledger!Claimed(rows[T(h)], M(h), h)
      /\ outcome = "succeeded" => rows[T(h)].status = "succeeded" /\ rows[T(h)].request = M(h)
  BY <1>0, <1>1, ClaimMoves
<1>3. RowsTell
  <2>1. Ledger!Claimed(rows[T(h)], M(h), h).status = "processing"
    BY <1>0 DEF Ledger!Claimed, Ledger!Row
  <2> QED
    BY <1>0, <1>2, <2>1, OthersKeptTell
<1>4. CASE /\ handlers' = [handlers EXCEPT ![h] = [handlers[h] EXCEPT !.pc = "lookup",
                             !.recovery = (outcome = "recovery_required")]]
           /\ UNCHANGED answers
  <2>1. [handlers[h] EXCEPT !.pc = "lookup", !.recovery = (outcome = "recovery_required")].pc = "lookup"
    BY <1>0 DEF Handler
  <2> QED
    BY <1>0, <1>3, <1>4, <2>1, QuietTells DEF Tellers
<1>5. CASE outcome = "succeeded" /\ End(h, rows[T(h)].response)
  <2>1. T(h) \notin aged => Says(T(h), M(h), rows[T(h)].response)
    BY <1>0, <1>2, <1>5 DEF ToldInv
  <2> QED
    BY <1>0, <1>3, <1>5, <2>1, EndTells
<1>6. CASE End(h, "conflict") \/ End(h, None)
  BY <1>0, <1>3, <1>6, Constants, EndTells DEF Responses
<1> QED
  BY <1>1, <1>4, <1>5, <1>6 DEF Set

LEMMA SucceedTells ==
  ASSUME Types, RunInv, ToldInv, Calm, NEW h \in Handlers,
         Replay(h) \/ NoticeSucceed(h) \/ Succeed(h)
  PROVE  Tells
<1>0. /\ T(h) \in Turns /\ M(h) \in Models /\ TypeOK /\ handlers[h].response \in Responses
      /\ handlers[h].pc \in Tellers /\ UNCHANGED <<receipts, aged>>
  BY Constants DEF Types, Equipped, Replay, NoticeSucceed, Succeed, At, T, M, Tellers
<1>1. PICK done \in BOOLEAN :
       /\ Ledger!Succeed(T(h), M(h), h, handlers[h].response, done)
       /\ End(h, IF done THEN handlers[h].response ELSE None)
  BY DEF Replay, NoticeSucceed, Succeed
<1>2. T(h) \notin aged => Says(T(h), M(h), handlers[h].response)
  BY <1>0 DEF ToldInv, M
<1>3. RowsTell
  <2>1. /\ OthersKept(T(h))
        /\ \/ rows'[T(h)] = rows[T(h)]
           \/ rows'[T(h)].request = M(h) /\ rows'[T(h)].response = handlers[h].response
    BY <1>0, <1>1, SucceedMoves
  <2>2. CASE T(h) \notin aged
    <3>1. \/ rows'[T(h)] = rows[T(h)]
          \/ Says(T(h), rows[T(h)].request, rows[T(h)].response)'
      BY <1>0, <1>2, <2>1, <2>2 DEF Says, Bare, T
    <3> QED
      BY <1>0, <2>1, <3>1, OthersKeptTell
  <2>3. CASE T(h) \in aged
    <3>1. NoRow.status = "none"
      BY DEF NoRow, Ledger!NoRow
    <3> QED
      BY <1>0, <2>1, <2>3, <3>1 DEF OthersKept, RowsTell
  <2> QED
    BY <2>2, <2>3
<1>4. (IF done THEN handlers[h].response ELSE None) \in Responses => done
  BY Constants
<1> QED
  BY <1>0, <1>1, <1>2, <1>3, <1>4, EndTells

LEMMA LookupTells == ASSUME Types, RunInv, Calm, NEW h \in Handlers, Lookup(h) PROVE Tells
<1>0. /\ handlers[h] \in Handler /\ T(h) \in Turns /\ UNCHANGED <<rows, receipts, aged>>
  BY Constants DEF Types, TypeOK, Lookup, T, stores
<1>1. RowsTell
  BY <1>0, SameRowsTell
<1>2. CASE End(h, "conflict")
  BY <1>0, <1>1, <1>2, EndTells, Constants DEF Responses
<1>3. CASE /\ Store!Lookup(T(h), M(h)) = "committed"
           /\ Set(h, [handlers[h] EXCEPT !.pc = "replay", !.response = receipts[T(h)].response])
           /\ UNCHANGED answers
  <2> DEFINE x == [handlers[h] EXCEPT !.pc = "replay", !.response = receipts[T(h)].response]
  <2>1. x.model = M(h) /\ x.response = receipts[T(h)].response
    BY <1>0 DEF Handler, M
  <2>2. handlers' = [handlers EXCEPT ![h] = x]
    BY <1>3 DEF Set
  <2> HIDE DEF x
  <2>3. ~ Bare(T(h)) /\ receipts[T(h)].request = M(h)
    <3>1. Store!Committed(T(h)) /\ ~ Store!Conflicts(T(h), M(h))
      BY <1>3 DEF Store!Lookup
    <3> QED
      BY <1>0, <3>1, CommittedIsNotBare DEF Store!Conflicts
  <2>4. ~ Bare(T(h))' /\ receipts'[T(h)] = receipts[T(h)]
    BY <1>0, <2>3 DEF Bare, T
  <2> QED
    BY <1>0, <1>1, <1>3, <2>1, <2>2, <2>3, <2>4, NewTells
<1>4. CASE (To(h, "reserve") \/ To(h, "preflight")) /\ UNCHANGED answers
  <2>1. /\ [handlers[h] EXCEPT !.pc = "reserve"].pc = "reserve"
        /\ [handlers[h] EXCEPT !.pc = "preflight"].pc = "preflight"
    BY <1>0 DEF Handler
  <2> QED
    BY <1>0, <1>1, <1>4, <2>1, QuietTells DEF To, Set, Tellers
<1> QED
  BY <1>2, <1>3, <1>4 DEF Lookup

LEMMA ReserveTells == ASSUME Types, RunInv, Calm, NEW h \in Handlers, Reserve(h) PROVE Tells
<1>0. /\ handlers[h] \in Handler /\ T(h) \in Turns /\ M(h) \in Models
      /\ UNCHANGED <<rows, answers, aged>>
  BY Constants DEF Types, TypeOK, Equipped, Reserve, At, world, history, T, M
<1>1. RowsTell
  BY <1>0, SameRowsTell
<1>2. PICK outcome :
        Store!Reserve(T(h), M(h), outcome) /\ handlers' = [handlers EXCEPT ![h] = AfterReserve(h, outcome)]
  BY DEF Reserve, Set
<1>3. CASE outcome = "committed"
  <2>1. /\ AfterReserve(h, outcome).model = M(h)
        /\ AfterReserve(h, outcome).response = receipts[T(h)].response
    BY <1>0, <1>3 DEF AfterReserve, Handler, M
  <2>2. /\ Kept /\ ~ Bare(T(h)) /\ receipts[T(h)].request = M(h)
    BY <1>0, <1>2, <1>3, ReserveMoves
  <2>3. ~ Bare(T(h))' /\ receipts'[T(h)] = receipts[T(h)]
    BY <2>2 DEF Kept, Bare, T
  <2> QED
    BY <1>0, <1>1, <1>2, <2>1, <2>2, <2>3, NewTells
<1>4. CASE outcome # "committed"
  <2>1. AfterReserve(h, outcome).pc \notin Tellers
    BY <1>0, <1>4 DEF AfterReserve, Handler, Tellers
  <2> QED
    BY <1>0, <1>1, <1>2, <2>1, QuietTells
<1> QED
  BY <1>3, <1>4

LEMMA WriteTells == ASSUME Types, RunInv, Calm, NEW h \in Handlers, Notice(h) \/ Commit(h) PROVE Tells
<1>0. /\ handlers[h] \in Handler /\ T(h) \in Turns /\ M(h) \in Models
      /\ UNCHANGED <<rows, answers, aged>>
  BY Constants DEF Types, TypeOK, Equipped, Notice, Commit, At, world, history, T, M
<1>1. RowsTell
  BY <1>0, SameRowsTell
<1>2. PICK a \in Responses, outcome \in Responses \cup {None} :
       /\ Store!Commit(T(h), M(h), a, outcome)
       /\ \/ /\ outcome # None
             /\ \E pc \in {"notice_succeed", "succeed"} :
                  handlers' = [handlers EXCEPT ![h] = [handlers[h] EXCEPT !.response = outcome, !.pc = pc]]
          \/ handlers' = [handlers EXCEPT ![h] = [handlers[h] EXCEPT !.response = outcome, !.pc = "fail"]]
          \/ handlers' = [handlers EXCEPT ![h] = Thrown(h, FALSE)]
  BY DEF Notice, Commit, Set, Throw, Responses
<1>3. CASE /\ outcome # None
           /\ \E pc \in {"notice_succeed", "succeed"} :
                handlers' = [handlers EXCEPT ![h] = [handlers[h] EXCEPT !.response = outcome, !.pc = pc]]
  <2>1. PICK pc \in {"notice_succeed", "succeed"} :
          handlers' = [handlers EXCEPT ![h] = [handlers[h] EXCEPT !.response = outcome, !.pc = pc]]
    BY <1>3
  <2>2. /\ [handlers[h] EXCEPT !.response = outcome, !.pc = pc].model = M(h)
        /\ [handlers[h] EXCEPT !.response = outcome, !.pc = pc].response = outcome
    BY <1>0 DEF Handler, M
  <2>3. receipts'[T(h)].request = M(h) /\ receipts'[T(h)].response = outcome
    BY <1>0, <1>2, <1>3, CommitMoves
  <2>4. ~ Bare(T(h))'
    BY <1>3, <2>3 DEF Bare, T
  <2> QED
    BY <1>0, <1>1, <2>1, <2>2, <2>3, <2>4, NewTells
<1>4. CASE \/ handlers' = [handlers EXCEPT ![h] = [handlers[h] EXCEPT !.response = outcome, !.pc = "fail"]]
           \/ handlers' = [handlers EXCEPT ![h] = Thrown(h, FALSE)]
  <2>1. [handlers[h] EXCEPT !.response = outcome, !.pc = "fail"].pc = "fail"
    BY <1>0 DEF Handler
  <2> QED
    BY <1>0, <1>1, <1>4, <2>1, ThrownPc, QuietTells DEF Tellers
<1> QED
  BY <1>2, <1>3, <1>4
\* The steps that tell nothing.
LEMMA HandlerTells ==
  ASSUME Types, RunInv, Calm, NEW h \in Handlers,
         \/ Arrive(h) \/ Leave(h) \/ Preflight(h) \/ Renew(h) \/ EnterTurn(h) \/ Abandon(h)
         \/ StartAgent(h) \/ SeeResult(h) \/ LoseLease(h) \/ Deadline(h)
         \/ StoreFails(h) \/ Cancel(h) \/ Late(h)
  PROVE  Tells
<1>0. /\ handlers[h] \in Handler /\ UNCHANGED <<rows, answers, aged>>
  BY DEF Types, TypeOK, Arrive, Leave, Preflight, Renew, Ledger!Renew, EnterTurn, Abandon, StartAgent,
         SeeResult, LoseLease, Deadline, StoreFails, Cancel, Late, stores, world, history
<1>1. RowsTell
  BY <1>0, SameRowsTell
<1>2. \A pc \in {"preflight", "reserve", "fail", "enter_turn", "commit", "run", "renew_again"} :
        [handlers[h] EXCEPT !.pc = pc].pc = pc
  BY <1>0 DEF Handler
<1>3. \E x : handlers' = [handlers EXCEPT ![h] = x] /\ x.pc \notin Tellers
  <2>1. CASE Arrive(h) \/ Leave(h)
    <3>1. [IdleHandler EXCEPT !.pc = "claim", !.model = route].pc = "claim"
      BY DEF IdleHandler
    <3> QED
      BY <2>1, <3>1, GonePc DEF Arrive, Leave, Set, Tellers
  <2>2. CASE Preflight(h)
    <3>1. [handlers[h] EXCEPT !.pc = "reserve", !.recovery = NeedsOperator(T(h))].pc = "reserve"
      BY <1>0 DEF Handler
    <3> QED
      BY <2>2, <3>1 DEF Preflight, Set, Tellers
  <2>3. CASE EnterTurn(h)
    <3>1. [handlers[h] EXCEPT !.reserved = FALSE, !.pc = "enter_row"].pc = "enter_row"
      BY <1>0 DEF Handler
    <3>2. \/ handlers' = [handlers EXCEPT ![h] = [handlers[h] EXCEPT !.reserved = FALSE, !.pc = "enter_row"]]
          \/ handlers' = [handlers EXCEPT ![h] = Gone(None)]
          \/ handlers' = [handlers EXCEPT ![h] = Thrown(h, TRUE)]
      BY <2>3 DEF EnterTurn, Set, Throw
    <3> QED
      BY <3>1, <3>2, GonePc, ThrownPc DEF Tellers
  <2>4. CASE Renew(h) \/ StartAgent(h) \/ SeeResult(h) \/ LoseLease(h) \/ Deadline(h) \/ Late(h)
    <3>1. \/ \E pc \in {"enter_turn", "commit", "run", "renew_again"} :
               handlers' = [handlers EXCEPT ![h] = [handlers[h] EXCEPT !.pc = pc]]
          \/ \E lost \in BOOLEAN : handlers' = [handlers EXCEPT ![h] = Thrown(h, lost)]
      BY <2>4 DEF Renew, StartAgent, SeeResult, LoseLease, Deadline, Late, Throw, To, Set
    <3> QED
      BY <1>2, <3>1, ThrownPc DEF Tellers
  <2>5. CASE Abandon(h)
    BY <1>2, <2>5, GonePc DEF Abandon, Set, Tellers
  <2>6. CASE StoreFails(h)
    <3>1. handlers' = [handlers EXCEPT ![h] = Where(h)]
      BY <2>6 DEF StoreFails, Set
    <3>2. Where(h).pc \in {"abandon", "fail", "end"}
      BY <1>2, ThrownPc, GonePc DEF Where
    <3> QED
      BY <3>1, <3>2 DEF Tellers
  <2>7. CASE Cancel(h)
    <3>1. \/ handlers' = [handlers EXCEPT ![h] = Thrown(h, TRUE)]
          \/ handlers' = [handlers EXCEPT ![h] = Gone(None)]
      BY <2>7 DEF Cancel, Throw, Set
    <3> QED
      BY <3>1, ThrownPc, GonePc DEF Tellers
  <2> QED
    BY <2>1, <2>2, <2>3, <2>4, <2>5, <2>6, <2>7
<1> QED
  BY <1>0, <1>1, <1>3, QuietTells

LEMMA RowTells ==
  ASSUME Types, RunInv, Calm, NEW h \in Handlers, EnterRow(h) \/ Fail(h) \/ Fence(h)
  PROVE  Tells
<1>0. /\ handlers[h] \in Handler /\ T(h) \in Turns /\ rows \in [Turns -> Ledger!Row] /\ aged' = aged
  BY Constants DEF Types, TypeOK, EnterRow, Fail, Fence, world, history, T
<1>1. CASE EnterRow(h)
  <2>1. PICK done \in BOOLEAN :
          Ledger!Enter(T(h), M(h), h, done)
          /\ handlers' = [handlers EXCEPT ![h] = [handlers[h] EXCEPT !.pc = IF done THEN "start" ELSE "fail"]]
    BY <1>1 DEF EnterRow, To, Set
  <2>2. RowsTell
    BY <1>0, <2>1 DEF RowsTell, Ledger!Enter, Ledger!Write, Ledger!Row
  <2>3. [handlers[h] EXCEPT !.pc = IF done THEN "start" ELSE "fail"].pc \notin Tellers
    BY <1>0 DEF Handler, Tellers
  <2>4. UNCHANGED answers
    BY <1>1 DEF EnterRow, world, history
  <2> QED
    BY <1>0, <2>1, <2>2, <2>3, <2>4, QuietTells
<1>2. CASE Fail(h)
  <2>1. End(h, None)
    BY <1>2 DEF Fail
  <2>2. RowsTell
    BY <1>0, <1>2 DEF Fail, RowsTell, Ledger!Fail, Ledger!Write, Ledger!Row
  <2> QED
    BY <1>0, <2>1, <2>2, Constants, EndTells
<1>3. CASE Fence(h)
  <2>1. RowsTell
    BY <1>3, SameRowsTell DEF Fence
  <2>2. CASE End(h, None)
    BY <1>0, <2>1, <2>2, Constants, EndTells
  <2>3. CASE handlers' = [handlers EXCEPT ![h] = [handlers[h] EXCEPT !.pc = "notice"]] /\ UNCHANGED answers
    <3>1. [handlers[h] EXCEPT !.pc = "notice"].pc \notin Tellers
      BY <1>0 DEF Handler, Tellers
    <3> QED
      BY <1>0, <2>1, <2>3, <3>1, QuietTells
  <2> QED
    BY <1>3, <2>2, <2>3 DEF Fence, To, Set
<1> QED
  BY <1>1, <1>2, <1>3

LEMMA RestTells ==
  ASSUME Types, Calm,
         \/ \E h \in Handlers : AgentCalls(h) \/ Reached(h) \/ NotReached(h) \/ AgentEnds(h)
         \/ Crash \/ \E t \in Turns : LapseOfGone(t) \/ LapseOfStalled(t)
         \/ RouteChanges \/ RouteReturns \/ UNCHANGED vars
  PROVE  Tells
<1>1. /\ UNCHANGED <<answers, aged>>
      /\ handlers' = handlers \/ handlers' = [h \in Handlers |-> IdleHandler]
  BY DEF AgentCalls, Reached, NotReached, AgentEnds, Crash, LapseOfGone, LapseOfStalled, RouteChanges,
         RouteReturns, vars, world, history
<1>2. rows' = rows \/ \E t \in Turns : rows' = [rows EXCEPT ![t].leased = FALSE]
  BY DEF AgentCalls, Reached, NotReached, AgentEnds, Crash, LapseOfGone, LapseOfStalled, Ledger!Lapse,
         RouteChanges, RouteReturns, stores, vars
<1>3. RowsTell
  BY <1>2 DEF Types, TypeOK, Ledger!Row, RowsTell
<1>4. \A g \in Handlers : handlers'[g].pc \in Tellers => handlers' = handlers
  BY <1>1, GonePc DEF Tellers
<1> QED
  BY <1>1, <1>3, <1>4 DEF Tells, Calm

LEMMA AgeTells == ASSUME Types, NEW t \in Turns, Age(t) PROVE Tells
<1>1. /\ UNCHANGED <<answers, handlers>> /\ aged' = aged \cup {t}
      /\ receipts \in [Turns -> Store!Receipt] /\ rows \in [Turns -> Ledger!Row]
  BY DEF Types, TypeOK, Age
<1>2. /\ \A u \in Turns : u # t => receipts'[u] = receipts[u]
      /\ \A u \in Turns : u # t => rows'[u] = rows[u]
  BY <1>1 DEF Age, Store!AgeReceipt, Ledger!AgeRow
<1> QED
  BY <1>1, <1>2 DEF Tells, RowsTell

LEMMA StepTold == ASSUME Types, StoreInv, RunInv, ToldInv, [Next]_vars PROVE ToldInv'
<1>1. ASSUME NEW t \in Turns, Age(t) PROVE Tells
  BY <1>1, AgeTells
<1>2. ASSUME ~ \E t \in Turns : Age(t) PROVE Tells
  <2>1. Calm
    BY <1>2, StepSound, CalmMovesAreCalm DEF Sound
  <2>2. ASSUME NEW h \in Handlers, Arrive(h) \/ Work(h) PROVE Tells
    BY <2>1, <2>2, ClaimTells, SucceedTells, LookupTells, ReserveTells, WriteTells, HandlerTells,
       RowTells DEF Work
  <2>3. ASSUME NEW h \in Handlers, StoreFails(h) \/ Cancel(h) \/ Late(h) \/ Deadline(h) PROVE Tells
    BY <2>1, <2>3, HandlerTells
  <2>4. ASSUME \/ \E h \in Handlers : AgentCalls(h) \/ Reached(h) \/ NotReached(h) \/ AgentEnds(h)
               \/ Crash \/ \E t \in Turns : LapseOfGone(t) \/ LapseOfStalled(t)
               \/ RouteChanges \/ RouteReturns \/ UNCHANGED vars
        PROVE  Tells
    BY <2>1, <2>4, RestTells
  <2> QED
    BY <1>2, <2>2, <2>3, <2>4 DEF Next
<1>3. Tells
  BY <1>1, <1>2
<1> QED
  BY <1>3, TellsInv

LEMMA InitTold == Init => ToldInv
BY GonePc DEF Init, ToldInv, Ledger!Init, Ledger!NoRow, Tellers

-----------------------------------------------------------------------------

IInv == Types /\ StoreInv /\ RunInv /\ ToldInv

LEMMA InitIInv == Init => IInv
BY InitTypes, InitRun, InitTold DEF IInv

LEMMA StepIInv == IInv /\ [Next]_vars => IInv'
BY StepTypes, StepRun, StepTold DEF IInv

LEMMA RunsOnce == IInv => TypeOK /\ TurnRunsOnce
<1> SUFFICES ASSUME IInv PROVE TypeOK /\ TurnRunsOnce
  OBVIOUS
<1>1. ExecutedOnce
  BY DEF IInv, RunInv, OneRun, Exempt, ExecutedOnce
<1>2. \A h \in Handlers : agents[h].state # "none" =>
        Store!State(T(h)) \in {"provider_started", "committed"}
  <2> TAKE h \in Handlers
  <2> HAVE agents[h].state # "none"
  <2>1. T(h) \in Turns /\ Started(T(h))
    BY Constants DEF IInv, RunInv, Fenced, Busy, T
  <2> QED
    BY <2>1, CommittedIsNotBare DEF IInv, Started
<1>3. \A t \in Turns : Store!Committed(t) => reservations[t] = Store!NoReservation
  BY CommittedIsNotBare DEF IInv, StoreInv
<1>4. Cardinality(Store!Occupied(receipts, reservations)) <= MaxReceipts
  BY Zenon DEF IInv, StoreInv, Occupied
<1>5. FencedBeforeProvider
  BY <1>2, <1>3, <1>4, Zenon DEF FencedBeforeProvider
<1> QED
  BY <1>1, <1>5 DEF TurnRunsOnce, IInv, Types

LEMMA Told == IInv => ToldTheSame
<1> SUFFICES ASSUME IInv PROVE ToldTheSame
  OBVIOUS
<1>1. OneAnswer
  <2> SUFFICES ASSUME NEW t \in Turns \ aged, NEW a \in answers[t], NEW b \in answers[t]
               PROVE  a = b /\ (Store!Committed(t) => a = <<receipts[t].request, receipts[t].response>>)
    BY DEF OneAnswer
  <2>1. a \in Models \X Responses /\ b \in Models \X Responses
    BY DEF IInv, Types, TypeOK
  <2>2. Says(t, a[1], a[2]) /\ Says(t, b[1], b[2])
    BY DEF IInv, ToldInv
  <2>3. \A p \in Models \X Responses : p = <<p[1], p[2]>>
    OBVIOUS
  <2>4. a = <<a[1], a[2]>> /\ b = <<b[1], b[2]>>
    BY <2>1, <2>3
  <2>5. a[1] = receipts[t].request /\ b[1] = receipts[t].request
        /\ a[2] = receipts[t].response /\ b[2] = receipts[t].response
    BY <2>2 DEF Says
  <2> QED
    BY <2>4, <2>5, Zenon
<1>2. LedgersAgree
  BY DEF IInv, ToldInv, Says, LedgersAgree
<1> QED
  BY <1>1, <1>2 DEF ToldTheSame

\* However often a message is repeated, and whoever dies, stalls, is cancelled
\* or loses its row, one agent at most reaches a provider for a turn, and none
\* runs for a turn that another request could still begin.
THEOREM TurnsRunOnce == Spec => [](TypeOK /\ TurnRunsOnce)
<1>1. Init => IInv
  BY InitIInv
<1>2. IInv /\ [Next]_vars => IInv'
  BY StepIInv
<1>3. IInv => TypeOK /\ TurnRunsOnce
  BY RunsOnce
<1> QED
  BY <1>1, <1>2, <1>3, PTL DEF Spec

\* Clients that are answered within the time a receipt is protected hear the
\* same, and it is what both databases say.
THEOREM AnswersAgree == Spec => []ToldTheSame
<1>1. Init => IInv
  BY InitIInv
<1>2. IInv /\ [Next]_vars => IInv'
  BY StepIInv
<1>3. IInv => ToldTheSame
  BY Told
<1> QED
  BY <1>1, <1>2, <1>3, PTL DEF Spec
-----------------------------------------------------------------------------
(* The receipts keep the promise of a turn.                                *)

bound == [t \in Turns |-> Store!Bound(t)]
response == [t \in Turns |-> receipts[t].response]
expired == {t \in Turns : receipts[t].old}

LEMMA BoundIs ==
  ASSUME Types, NEW t \in Turns
  PROVE  bound[t] = IF Bare(t) THEN reservations[t].request ELSE receipts[t].request
BY CommittedIsNotBare DEF bound

LEMMA BoundIsNext ==
  ASSUME Types', NEW t \in Turns
  PROVE  bound'[t] = IF receipts'[t].response = None
                     THEN reservations'[t].request ELSE receipts'[t].request
<1>1. (bound[t] = IF Bare(t) THEN reservations[t].request ELSE receipts[t].request)'
  BY BoundIs, PTL
<1> QED
  BY <1>1 DEF Bare
LEMMA InitPromise == Init => Promise!Init
<1> SUFFICES ASSUME Init PROVE Promise!Init
  OBVIOUS
<1>1. \A t \in Turns : /\ receipts[t] = Store!NoReceipt /\ reservations[t] = Store!NoReservation
                       /\ Store!NoReceipt.response = None /\ ~ Store!NoReceipt.old
                       /\ Store!NoReservation.request = None
  BY DEF Init, Store!Init, Store!NoReceipt, Store!NoReservation
<1>2. \A t \in Turns : Store!Bound(t) = None
  BY <1>1 DEF Store!Bound, Store!Committed
<1> QED
  BY <1>1, <1>2 DEF Promise!Init

PromiseMoves == Promise!Next \/ UNCHANGED <<bound, response, expired>>

LEMMA KeptPromise == ASSUME Kept PROVE UNCHANGED <<bound, response, expired>>
BY DEF Kept, bound, response, expired, Store!Bound, Store!Committed

\* A reservation binds the turn; room is made by forgetting what has expired.
LEMMA BooksPromise ==
  ASSUME Types, StoreInv, Types', NEW t \in Turns, NEW r \in Models, Books(t, r)
  PROVE  Promise!Next
<1>0. /\ Bare(t)' /\ reservations'[t] = Store!Reserved(r, "reserved")
      /\ \A u \in Turns : u # t => reservations'[u] = reservations[u]
      /\ \A u \in Turns : receipts'[u] = IF receipts[u].old THEN Store!NoReceipt ELSE receipts[u]
  BY BooksTypes
<1>1. /\ Store!NoReceipt.response = None /\ ~ Store!NoReceipt.old
      /\ reservations'[t].request = r /\ Store!NoReservation.request = None
  BY <1>0 DEF Store!NoReceipt, Store!Reserved, Store!NoReservation
<1>2. \A u \in Turns : receipts[u].old => ~ Bare(u) /\ reservations[u].request = None
  BY <1>1, OldIsWhole DEF StoreInv
<1>3. Bare(t) /\ ~ receipts[t].old /\ reservations[t].request \in {None, r}
  BY <1>2 DEF Books, StoreInv
<1>4. expired \subseteq expired /\ t \notin expired /\ expired \subseteq Turns
  BY <1>3 DEF expired
<1>5. bound[t] \in {None, r} /\ response[t] = None
  BY <1>3, BoundIs DEF response, Bare
<1>6. response' = Promise!Forgotten(expired, response)
  BY <1>0, <1>1 DEF response, expired, Promise!Forgotten
<1>7. expired' = expired \ expired
  BY <1>0, <1>1 DEF expired
<1>8. bound' = [Promise!Forgotten(expired, bound) EXCEPT ![t] = r]
  <2>1. ASSUME NEW u \in Turns
        PROVE  bound'[u] = IF u = t THEN r ELSE IF u \in expired THEN None ELSE bound[u]
    <3>1. CASE u = t
      BY <1>0, <1>1, <3>1, BoundIsNext DEF Bare
    <3>2. CASE u # t /\ receipts[u].old
      BY <1>0, <1>1, <1>2, <3>2, BoundIsNext DEF expired
    <3>3. CASE u # t /\ ~ receipts[u].old
      BY <1>0, <3>3, BoundIs, BoundIsNext DEF expired, Bare
    <3> QED
      BY <3>1, <3>2, <3>3
  <2>2. bound' = [u \in Turns |-> bound'[u]]
    BY DEF bound
  <2> QED
    BY <2>1, <2>2 DEF Promise!Forgotten
<1>9. PICK F \in SUBSET Turns : F = expired
  BY <1>4
<1>10. Promise!Bind(t, r, F)
  <2>1. /\ F \subseteq expired /\ t \notin F /\ expired' = expired \ F
        /\ response' = Promise!Forgotten(F, response)
        /\ bound' = [Promise!Forgotten(F, bound) EXCEPT ![t] = r]
    BY <1>4, <1>6, <1>7, <1>8, <1>9 DEF Promise!Forgotten
  <2> QED
    BY <1>5, <2>1 DEF Promise!Bind, Promise!Forgotten, bound, response, expired
<1> QED
  BY <1>10 DEF Promise!Next

LEMMA LeavesPromise ==
  ASSUME Types, Types', NEW t \in Turns, NEW state, Leaves(t, state)
  PROVE  UNCHANGED <<bound, response, expired>>
<1>1. receipts' = receipts /\ \A u \in Turns : reservations'[u].request = reservations[u].request
  BY DEF Types, TypeOK, Store!Reservation, Leaves
<1>2. UNCHANGED <<response, expired>>
  BY <1>1 DEF response, expired
<1>3. \A u \in Turns : bound'[u] = bound[u]
  BY <1>1, BoundIs, BoundIsNext DEF Bare
<1>4. bound' = [u \in Turns |-> bound'[u]] /\ bound = [u \in Turns |-> bound[u]]
  BY DEF bound
<1> QED
  BY <1>2, <1>3, <1>4

LEMMA WritesPromise ==
  ASSUME Types, StoreInv, Types', NEW t \in Turns, NEW r \in Models, NEW a \in Responses, Writes(t, r, a)
  PROVE  Promise!Next
<1>0. /\ receipts'[t].request = r /\ receipts'[t].response = a /\ ~ receipts'[t].old
      /\ \A u \in Turns : u # t => receipts'[u] = receipts[u] /\ reservations'[u] = reservations[u]
      /\ Bare(t) /\ reservations[t].request = r
  BY DEF Types, TypeOK, Writes
<1>1. ~ receipts[t].old
  BY <1>0, OldIsWhole
<1>2. bound[t] # None /\ response[t] = None
  BY <1>0, BoundIs, Constants DEF response, Bare
<1>3. response' = [response EXCEPT ![t] = a]
  BY <1>0 DEF response
<1>4. expired' = expired
  BY <1>0, <1>1 DEF expired
<1>5. bound' = bound
  <2>1. \A u \in Turns : bound'[u] = bound[u]
    BY <1>0, BoundIs, BoundIsNext, Constants DEF Bare
  <2>2. bound' = [u \in Turns |-> bound'[u]] /\ bound = [u \in Turns |-> bound[u]]
    BY DEF bound
  <2> QED
    BY <2>1, <2>2
<1>6. Promise!Answer(t, a)
  BY <1>2, <1>3, <1>4, <1>5 DEF Promise!Answer, bound, response, expired
<1> QED
  BY <1>6 DEF Promise!Next

LEMMA AgesPromise ==
  ASSUME Types, Types', NEW t \in Turns, Ages(t)
  PROVE  PromiseMoves
<1>0. /\ \A u \in Turns : /\ receipts'[u].request = receipts[u].request
                          /\ receipts'[u].response = receipts[u].response
                          /\ u # t => receipts'[u].old = receipts[u].old
      /\ (receipts'[t].old <=> ~ Bare(t)) /\ reservations' = reservations
  BY CommittedIsNotBare DEF Types, TypeOK, Store!Receipt, Ages
<1>1. response' = response
  BY <1>0 DEF response
<1>2. bound' = bound
  <2>1. \A u \in Turns : bound'[u] = bound[u]
    BY <1>0, BoundIs, BoundIsNext DEF Bare
  <2>2. bound' = [u \in Turns |-> bound'[u]] /\ bound = [u \in Turns |-> bound[u]]
    BY DEF bound
  <2> QED
    BY <2>1, <2>2
<1>3. CASE Bare(t)
  <2>1. ~ receipts[t].old
    BY <1>3, OldIsWhole
  <2>2. expired' = expired
    BY <1>0, <1>3, <2>1 DEF expired
  <2> QED
    BY <1>1, <1>2, <2>2 DEF PromiseMoves
<1>4. CASE ~ Bare(t)
  <2>1. expired' = expired \cup {t} /\ response[t] # None
    BY <1>0, <1>4 DEF expired, response, Bare
  <2>2. Promise!Expire(t)
    BY <1>1, <1>2, <2>1 DEF Promise!Expire, bound, response, expired
  <2> QED
    BY <2>2 DEF Promise!Next, PromiseMoves
<1> QED
  BY <1>3, <1>4

\* The receipts keep the promise of a turn: the first request binds it, it gets
\* one response that stands, and only what has expired is ever forgotten.
THEOREM PromiseKept == Spec => KeepsPromise
<1>1. Init => IInv
  BY InitIInv
<1>2. IInv /\ [Next]_vars => IInv'
  BY StepIInv
<1>3. Init => Promise!Init
  BY InitPromise
<1>4. IInv /\ [Next]_vars => PromiseMoves
  <2> SUFFICES ASSUME IInv, [Next]_vars PROVE PromiseMoves
    OBVIOUS
  <2>1. Types /\ StoreInv /\ Types' /\ StoreMoves
    BY StepTypes DEF IInv
  <2>2. ASSUME NEW t \in Turns, NEW state, Leaves(t, state) PROVE PromiseMoves
    BY <2>1, <2>2, LeavesPromise DEF PromiseMoves
  <2>3. ASSUME NEW t \in Turns, NEW r \in Models, Books(t, r) PROVE PromiseMoves
    BY <2>1, <2>3, BooksPromise DEF PromiseMoves
  <2>4. ASSUME NEW t \in Turns, NEW r \in Models, NEW a \in Responses, Writes(t, r, a) PROVE PromiseMoves
    BY <2>1, <2>4, WritesPromise DEF PromiseMoves
  <2>5. ASSUME NEW t \in Turns, Ages(t) PROVE PromiseMoves
    BY <2>1, <2>5, AgesPromise
  <2>6. ASSUME Kept PROVE PromiseMoves
    BY <2>6, KeptPromise DEF PromiseMoves
  <2> QED
    BY <2>1, <2>2, <2>3, <2>4, <2>5, <2>6 DEF StoreMoves, CalmMoves
<1>5. PromiseMoves => [Promise!Next]_<<bound, response, expired>>
  BY DEF PromiseMoves
<1> QED
  BY <1>1, <1>2, <1>3, <1>4, <1>5, PTL DEF Spec, KeepsPromise, Promise!Spec, bound, response, expired
=============================================================================
