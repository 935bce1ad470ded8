---------------------------- MODULE PurchaseProofs ----------------------------
(***************************************************************************)
(* Proofs about what stands around the paid image: the journal of the Web  *)
(* console (WebPurchases), the archive of its results (WebArchive), the    *)
(* end of a paid video (VideoPolls) and the desktop (DesktopPurchase).     *)
(* Each part has its inductive invariant, lemmas for its actions, and at   *)
(* its end the theorems of its specification.                              *)
(***************************************************************************)
EXTENDS WebPurchases, WebArchive, VideoPolls, DesktopPurchase,
        FiniteSetTheorems, TLAPS

-----------------------------------------------------------------------------

(***************************************************************************)
(* Purchases from the console (WebPurchases).                              *)
(***************************************************************************)
\* The provider has been paid, and the purchase is over for the two stores: its
\* bytes may go.
IsOver(o) ==
  \/ auth[o].state \in {"acked", "cleaned"}
  \/ auth[o].state = "none" /\ paid[o] > 0

\* The bytes of a purchase are in the archive, or can be copied there.
HasBytes(o) == o \in archived \/ (o \in live /\ auth[o].state = "committed")

\* The archive owns a purchase and nobody else has to.
IsOwned(o) ==
  /\ o \in archived /\ o \notin live
  /\ auth[o].state = "cleaned" \/ (auth[o].state = "none" /\ paid[o] > 0)

\* What is claimed or paid was sent from the journal, and what has a result was
\* paid and is not sent again.
InJournal(o) ==
  /\ auth[o].state # "none" \/ paid[o] > 0 =>
       rows[o].state # "none" /\ rows[o].body /\ rows[o].sent > 0
  /\ rows[o].doc # "none" =>
       paid[o] > 0 /\ rows[o].state \in {"result_ready", "delivered", "reconciled"}

\* A purchase is paid once.  Its row in the store of requests may go when the
\* operation is as old as the retention, and so is never executed again.
Money(o) ==
  /\ paid[o] <= 1
  /\ auth[o].state = "claimed" => paid[o] = 0
  /\ auth[o].state = "none" => paid[o] = 0 \/ rows[o].age = Retention
  /\ auth[o].state = "cleaned" => rows[o].age + auth[o].keep >= Retention
  /\ auth[o].state \notin {"none", "claimed"} => paid[o] > 0

Bytes(o) ==
  /\ auth[o].state \in {"acked", "cleaned"} => o \in archived
  /\ o \in live => auth[o].state \in {"committed", "acked"}
  /\ auth[o].state = "committed" => o \in live
  /\ rows[o].doc = "assets" => HasBytes(o) /\ index[Content(o)] # None
  /\ rows[o].state = "delivered" /\ rows[o].doc = "assets" => IsOwned(o)

OpInv(o) == InJournal(o) /\ Money(o) /\ Bytes(o)

IndexInv(c) == index[c] # None => HasBytes(index[c])

\* What a run has come to know of its operation stays so.
RunInv(p, o) ==
  /\ flights[p][o] # "none" => rows[o].state # "none" /\ rows[o].body
  /\ flights[p][o] \notin {"none", "fence"} => rows[o].sent > 0
  /\ flights[p][o] \in {"fence", "claim"} => rows[o].age < Retention
  /\ flights[p][o] \in {"plain", "assets", "indexed"} => paid[o] > 0
  /\ flights[p][o] \in {"assets", "indexed"} => HasBytes(o)
  /\ flights[p][o] = "indexed" => index[Content(o)] # None

\* So does what a hand-over has done, and what an acknowledgement waited for.
MoveInv(p, o) ==
  /\ moves[p][o] = "ack" => o \in archived
  /\ moves[p][o] \in {"clean", "complete"} => IsOver(o) /\ o \in archived
  /\ moves[p][o] = "complete" => o \notin live
  /\ acks[p][o] = "proved" => IsOwned(o)

WebIInv ==
  /\ WebTypeOK
  /\ \A o \in Ops : OpInv(o)
  /\ \A p \in Processes, o \in Ops : RunInv(p, o) /\ MoveInv(p, o)
  /\ \A c \in WebContents : IndexInv(c)

\* The inductive invariant says what the run checks.
LEMMA WebIInvImplies ==
  ASSUME WebAssumption, WebIInv
  PROVE  WebInv
<1>1. PaidOnce
  BY DEF WebIInv, OpInv, InJournal, Money, PaidOnce
<1>2. ReleasedInOrder
  BY DEF WebIInv, OpInv, Bytes, ReleasedInOrder
<1>3. DeliveredIsOwned
  BY DEF WebIInv, OpInv, Bytes, IsOwned, DeliveredIsOwned
<1>4. ReferencesLive
  BY DEF WebIInv, OpInv, IndexInv, Bytes, HasBytes, ReferencesLive
<1> QED
  BY <1>1, <1>2, <1>3, <1>4 DEF WebIInv, WebInv

LEMMA WebStart == ASSUME WebAssumption, WebInit PROVE WebIInv
<1> USE DEF WebAssumption, WebInit, NoRow, NoAuth
<1>1. WebTypeOK
  <2>1. NoRow \in WebRow /\ NoAuth \in Auth
    BY DEF WebRow, States, Auth
  <2> HIDE DEF NoRow, NoAuth
  <2> QED
    BY <2>1 DEF WebTypeOK, Flights, Moves
<1>2. ASSUME NEW o \in Ops PROVE OpInv(o)
  BY DEF OpInv, InJournal, Money, Bytes
<1>3. ASSUME NEW p \in Processes, NEW o \in Ops PROVE RunInv(p, o) /\ MoveInv(p, o)
  BY DEF RunInv, MoveInv
<1>4. ASSUME NEW c \in WebContents PROVE IndexInv(c)
  BY DEF IndexInv
<1> QED
  BY <1>1, <1>2, <1>3, <1>4 DEF WebIInv

(* Types of what a step changes. *)

LEMMA RowUpdate ==
  ASSUME NEW f \in [Ops -> WebRow], NEW o \in Ops, NEW r \in WebRow
  PROVE  [f EXCEPT ![o] = r] \in [Ops -> WebRow]
OBVIOUS

LEMMA AuthUpdate ==
  ASSUME auth \in [Ops -> Auth], NEW o \in Ops, NEW r \in Auth,
         auth' = [auth EXCEPT ![o] = r]
  PROVE  auth' \in [Ops -> Auth]
OBVIOUS

LEMMA PlaceUpdate ==
  ASSUME NEW S, NEW f \in [Processes -> [Ops -> S]], NEW p \in Processes, NEW o \in Ops,
         NEW place \in S
  PROVE  [f EXCEPT ![p][o] = place] \in [Processes -> [Ops -> S]]
OBVIOUS

\* A row that changes its state, with or without its cancellation.
LEMMA RowMoves ==
  ASSUME WebTypeOK, NEW o \in Ops, NEW state \in States,
         \/ Becomes(o, state)
         \/ rows' = [rows EXCEPT ![o].state = state]
  PROVE  /\ rows' \in [Ops -> WebRow]
         /\ rows'[o].state = state
         /\ \A x \in Ops : /\ x # o => rows'[x] = rows[x]
                           /\ rows'[x].video = rows[x].video /\ rows'[x].body = rows[x].body
                           /\ rows'[x].sent = rows[x].sent /\ rows'[x].doc = rows[x].doc
                           /\ rows'[x].age = rows[x].age
<1> DEFINE r == [rows[o] EXCEPT !.state = state]
           s == [rows[o] EXCEPT !.state = state, !.cancel = FALSE]
<1>1. /\ r \in WebRow /\ s \in WebRow
      /\ r.state = state /\ s.state = state
      /\ r.video = rows[o].video /\ r.body = rows[o].body /\ r.sent = rows[o].sent
      /\ r.doc = rows[o].doc /\ r.age = rows[o].age
      /\ s.video = rows[o].video /\ s.body = rows[o].body /\ s.sent = rows[o].sent
      /\ s.doc = rows[o].doc /\ s.age = rows[o].age
  <2>1. rows[o] \in WebRow
    BY DEF WebTypeOK
  <2> QED
    BY <2>1 DEF WebRow
<1>2. rows' = [rows EXCEPT ![o] = r] \/ rows' = [rows EXCEPT ![o] = s]
  BY DEF Becomes
<1> HIDE DEF r, s
<1>3. rows' \in [Ops -> WebRow]
  BY <1>1, <1>2, RowUpdate DEF WebTypeOK
<1>4. \A x \in Ops : x # o => rows'[x] = rows[x]
  BY <1>2 DEF WebTypeOK
<1>5. rows'[o] = r \/ rows'[o] = s
  BY <1>2 DEF WebTypeOK
<1> QED
  BY <1>1, <1>3, <1>4, <1>5

\* A run that moves on, and a hand-over that is joined.
LEMMA FliesTo ==
  ASSUME WebTypeOK, NEW p \in Processes, NEW o \in Ops, NEW place \in Flights,
         Flies(p, o, place)
  PROVE  /\ flights' \in [Processes -> [Ops -> Flights]]
         /\ flights'[p][o] = place
         /\ \A q \in Processes, x \in Ops : q # p \/ x # o => flights'[q][x] = flights[q][x]
BY PlaceUpdate DEF WebTypeOK, Flies

LEMMA JoinsTo ==
  ASSUME WebTypeOK, NEW p \in Processes, NEW o \in Ops, Joins(p, o)
  PROVE  /\ moves' \in [Processes -> [Ops -> Moves]]
         /\ \A q \in Processes, x \in Ops : moves'[q][x] \in {moves[q][x], "lookup"}
<1>1. moves' = [moves EXCEPT ![p][o] = "lookup"] \/ moves' = moves
  BY DEF Joins, MoveGoes
<1>2. "lookup" \in Moves /\ moves \in [Processes -> [Ops -> Moves]]
  BY DEF Moves, WebTypeOK
<1>3. [moves EXCEPT ![p][o] = "lookup"] \in [Processes -> [Ops -> Moves]]
  BY <1>2, PlaceUpdate
<1>4. \A q \in Processes, x \in Ops : moves'[q][x] \in {moves[q][x], "lookup"}
  BY <1>1, <1>2
<1> QED
  BY <1>1, <1>2, <1>3, <1>4

LEMMA ClaimsStep ==
  ASSUME WebAssumption, WebIInv, NEW o \in Ops, NEW video \in BOOLEAN, Claims(o, video)
  PROVE  WebIInv' /\ ResultsAreFinal
<1>1. WebTypeOK'
  <2>0. WebTypeOK
    BY DEF WebIInv
  <2>1. rows' \in [Ops -> WebRow]
    <3> DEFINE r == [NoRow EXCEPT !.state = "claimed", !.video = video, !.body = TRUE]
    <3>1. rows' = [rows EXCEPT ![o] = r]
      BY DEF Claims, Unresolved, stores
    <3>2. NoRow \in WebRow
      BY DEF WebAssumption, NoRow, WebRow, States
    <3>3. r \in WebRow
      BY <3>2 DEF WebRow, States
    <3> QED
      BY <2>0, <3>1, <3>3, RowUpdate DEF WebTypeOK
  <2> QED
    BY <2>0, <2>1 DEF Claims, stores, memory, WebTypeOK
<1> USE DEF WebAssumption, WebIInv, Claims, Unresolved, stores, memory
<1>2. ASSUME NEW x \in Ops PROVE OpInv(x)'
  BY DEF OpInv, InJournal, Money, Bytes, HasBytes, IsOwned, Content, WebTypeOK, NoRow
<1>3. ASSUME NEW q \in Processes, NEW x \in Ops PROVE RunInv(q, x)' /\ MoveInv(q, x)'
  BY DEF IsOver, HasBytes, IsOwned, RunInv, MoveInv, Content
<1>4. ASSUME NEW d \in WebContents PROVE IndexInv(d)'
  BY DEF HasBytes, IndexInv
<1>5. ResultsAreFinal
  BY DEF ResultsAreFinal, OpInv, InJournal
<1> QED
  BY <1>1, <1>2, <1>3, <1>4, <1>5 DEF WebIInv

LEMMA ImportLegacyStep ==
  ASSUME WebAssumption, WebIInv, NEW o \in Ops, NEW video \in BOOLEAN,
         ImportLegacy(o, video)
  PROVE  WebIInv' /\ ResultsAreFinal
<1>1. WebTypeOK'
  <2>0. WebTypeOK
    BY DEF WebIInv
  <2>1. rows' \in [Ops -> WebRow]
    <3> DEFINE r(state) == [NoRow EXCEPT !.state = state, !.video = video]
    <3>1. PICK state \in {"claimed", "recoverable"} : rows' = [rows EXCEPT ![o] = r(state)]
      BY DEF ImportLegacy, stores, memory
    <3>2. NoRow \in WebRow
      BY DEF WebAssumption, NoRow, WebRow, States
    <3>3. r(state) \in WebRow
      BY <3>2 DEF WebRow, States
    <3> QED
      BY <2>0, <3>1, <3>3, RowUpdate DEF WebTypeOK
  <2> QED
    BY <2>0, <2>1 DEF ImportLegacy, stores, memory, WebTypeOK
<1> USE DEF WebAssumption, WebIInv, ImportLegacy, stores, memory
<1>2. ASSUME NEW x \in Ops PROVE OpInv(x)'
  BY DEF OpInv, InJournal, Money, Bytes, HasBytes, IsOwned, Content, WebTypeOK, NoRow
<1>3. ASSUME NEW q \in Processes, NEW x \in Ops PROVE RunInv(q, x)' /\ MoveInv(q, x)'
  BY DEF IsOver, HasBytes, IsOwned, RunInv, MoveInv, Content
<1>4. ASSUME NEW d \in WebContents PROVE IndexInv(d)'
  BY DEF HasBytes, IndexInv
<1>5. ResultsAreFinal
  BY DEF ResultsAreFinal, OpInv, InJournal
<1> QED
  BY <1>1, <1>2, <1>3, <1>4, <1>5 DEF WebIInv

LEMMA CancelStep ==
  ASSUME WebAssumption, WebIInv, NEW o \in Ops, Cancel(o)
  PROVE  WebIInv' /\ ResultsAreFinal
<1>1. WebTypeOK'
  <2>0. WebTypeOK
    BY DEF WebIInv
  <2>1. rows' \in [Ops -> WebRow]
    <3> DEFINE r == [rows[o] EXCEPT !.cancel = TRUE]
    <3>1. rows' = [rows EXCEPT ![o] = r]
      BY DEF Cancel, Sendable, stores
    <3>2. r \in WebRow
      BY ZenonT(40), <2>0 DEF WebTypeOK, WebRow
    <3> QED
      BY <2>0, <3>1, <3>2, RowUpdate DEF WebTypeOK
  <2> QED
    BY <2>0, <2>1 DEF Cancel, stores, memory, WebTypeOK
<1> USE DEF WebAssumption, WebIInv, Cancel, Sendable, stores, memory
<1>2. ASSUME NEW x \in Ops PROVE OpInv(x)'
  BY DEF OpInv, InJournal, Money, Bytes, HasBytes, IsOwned, Content
<1>3. ASSUME NEW q \in Processes, NEW x \in Ops PROVE RunInv(q, x)' /\ MoveInv(q, x)'
  BY DEF IsOver, HasBytes, IsOwned, RunInv, MoveInv, Content
<1>4. ASSUME NEW d \in WebContents PROVE IndexInv(d)'
  BY DEF HasBytes, IndexInv
<1>5. ResultsAreFinal
  BY DEF ResultsAreFinal
<1> QED
  BY <1>1, <1>2, <1>3, <1>4, <1>5 DEF WebIInv

LEMMA AbandonStep ==
  ASSUME WebAssumption, WebIInv, NEW o \in Ops, Abandon(o)
  PROVE  WebIInv' /\ ResultsAreFinal
<1>1. WebTypeOK'
  <2>0. WebTypeOK
    BY DEF WebIInv
  <2>1. rows' \in [Ops -> WebRow]
    <3>1. Becomes(o, "reconciled")
      BY DEF Abandon, stores, memory
    <3> QED
      BY <2>0, <3>1, RowMoves DEF WebTypeOK, States
  <2> QED
    BY <2>0, <2>1 DEF Abandon, stores, memory, WebTypeOK
<1> USE DEF WebAssumption, WebIInv, Abandon, Becomes, stores, memory
<1>2. ASSUME NEW x \in Ops PROVE OpInv(x)'
  BY DEF OpInv, InJournal, Money, Bytes, HasBytes, IsOwned, Content, WebTypeOK
<1>3. ASSUME NEW q \in Processes, NEW x \in Ops PROVE RunInv(q, x)' /\ MoveInv(q, x)'
  BY DEF IsOver, HasBytes, IsOwned, RunInv, MoveInv, Content, WebTypeOK
<1>4. ASSUME NEW d \in WebContents PROVE IndexInv(d)'
  BY DEF HasBytes, IndexInv
<1>5. ResultsAreFinal
  BY DEF ResultsAreFinal, WebTypeOK
<1> QED
  BY <1>1, <1>2, <1>3, <1>4, <1>5 DEF WebIInv

LEMMA ReconcileStep ==
  ASSUME WebAssumption, WebIInv, NEW o \in Ops, Reconcile(o)
  PROVE  WebIInv' /\ ResultsAreFinal
<1>1. WebTypeOK'
  <2>0. WebTypeOK
    BY DEF WebIInv
  <2>1. rows' \in [Ops -> WebRow]
    <3>1. Becomes(o, "reconciled")
      BY DEF Reconcile, Unresolved, stores
    <3> QED
      BY <2>0, <3>1, RowMoves DEF WebTypeOK, States
  <2> QED
    BY <2>0, <2>1 DEF Reconcile, stores, memory, WebTypeOK
<1> USE DEF WebAssumption, WebIInv, Reconcile, Becomes, Unresolved, stores, memory
<1>2. ASSUME NEW x \in Ops PROVE OpInv(x)'
  BY DEF OpInv, InJournal, Money, Bytes, HasBytes, IsOwned, Content, WebTypeOK
<1>3. ASSUME NEW q \in Processes, NEW x \in Ops PROVE RunInv(q, x)' /\ MoveInv(q, x)'
  BY DEF IsOver, HasBytes, IsOwned, RunInv, MoveInv, Content, WebTypeOK
<1>4. ASSUME NEW d \in WebContents PROVE IndexInv(d)'
  BY DEF HasBytes, IndexInv
<1>5. ResultsAreFinal
  BY DEF ResultsAreFinal, WebTypeOK
<1> QED
  BY <1>1, <1>2, <1>3, <1>4, <1>5 DEF WebIInv

LEMMA ShowResultStep ==
  ASSUME WebAssumption, WebIInv, NEW o \in Ops, ShowResult(o)
  PROVE  WebIInv' /\ ResultsAreFinal
<1>1. WebTypeOK'
  BY DEF WebIInv, ShowResult, stores, memory, WebTypeOK
<1> USE DEF WebAssumption, WebIInv, ShowResult, stores, memory
<1>2. ASSUME NEW x \in Ops PROVE OpInv(x)'
  BY DEF OpInv, InJournal, Money, Bytes, HasBytes, IsOwned, Content
<1>3. ASSUME NEW q \in Processes, NEW x \in Ops PROVE RunInv(q, x)' /\ MoveInv(q, x)'
  BY DEF IsOver, HasBytes, IsOwned, RunInv, MoveInv, Content
<1>4. ASSUME NEW d \in WebContents PROVE IndexInv(d)'
  BY DEF OpInv, Bytes, HasBytes, IndexInv
<1>5. ResultsAreFinal
  BY DEF ResultsAreFinal
<1> QED
  BY <1>1, <1>2, <1>3, <1>4, <1>5 DEF WebIInv

LEMMA ExecuteStep ==
  ASSUME WebAssumption, WebIInv, NEW p \in Processes, NEW o \in Ops, Execute(p, o)
  PROVE  WebIInv' /\ ResultsAreFinal
<1>1. WebTypeOK'
  <2>0. WebTypeOK
    BY DEF WebIInv
  <2>1. rows' \in [Ops -> WebRow]
    <3>1. Becomes(o, "recoverable") \/ UNCHANGED rows
      BY DEF Execute, Flies, MayRetry
    <3> QED
      BY <2>0, <3>1, RowMoves DEF WebTypeOK, States
  <2> QED
    BY <2>0, <2>1 DEF Execute, Flies, stores, WebTypeOK, Flights
<1>2. /\ rows'[o].state = IF rows[o].state = "dispatching" THEN "recoverable" ELSE rows[o].state
      /\ \A x \in Ops : /\ x # o => rows'[x] = rows[x]
                        /\ rows'[x].video = rows[x].video /\ rows'[x].body = rows[x].body
                        /\ rows'[x].sent = rows[x].sent /\ rows'[x].doc = rows[x].doc
                        /\ rows'[x].age = rows[x].age
  <2>1. CASE rows[o].state = "dispatching"
    BY <2>1, RowMoves DEF WebIInv, Execute, States
  <2>2. CASE ~ (rows[o].state = "dispatching")
    BY <2>2 DEF Execute, Flies, MayRetry
  <2> QED
    BY <2>1, <2>2
<1> USE DEF WebAssumption, WebIInv, Execute, Flies, MayRetry, Sendable, stores
<1>3. ASSUME NEW x \in Ops PROVE OpInv(x)'
  <2>1. OpInv(x) /\ (rows[x].doc # "none" => rows'[x].state = rows[x].state)
    BY <1>2 DEF OpInv, InJournal
  <2>2. InJournal(x)'
    BY <1>2, <2>1 DEF OpInv, InJournal
  <2>3. Money(x)'
    BY <1>2, <2>1 DEF OpInv, Money
  <2>4. rows'[x].state = rows[x].state \/ rows'[x].state = "recoverable"
    BY <1>2
  <2>5. Bytes(x)'
    BY <1>2, <2>1, <2>4 DEF OpInv, Bytes, HasBytes, IsOwned, Content
  <2> QED
    BY <2>2, <2>3, <2>5 DEF OpInv
<1>4. ASSUME NEW q \in Processes, NEW x \in Ops PROVE RunInv(q, x)' /\ MoveInv(q, x)'
  BY <1>2 DEF IsOver, HasBytes, IsOwned, RunInv, MoveInv, Content, WebTypeOK, WebRow
<1>5. ASSUME NEW d \in WebContents PROVE IndexInv(d)'
  BY DEF HasBytes, IndexInv
<1>6. ResultsAreFinal
  BY <1>2 DEF ResultsAreFinal
<1> QED
  BY <1>1, <1>3, <1>4, <1>5, <1>6 DEF WebIInv

LEMMA DispatchStep ==
  ASSUME WebAssumption, WebIInv, NEW p \in Processes, NEW o \in Ops, Dispatch(p, o)
  PROVE  WebIInv' /\ ResultsAreFinal
<1>1. WebTypeOK'
  <2>0. WebTypeOK
    BY DEF WebIInv
  <2>1. rows' \in [Ops -> WebRow]
    <3> DEFINE r == [rows[o] EXCEPT !.state = "dispatching", !.sent = @ + 1]
    <3>1. rows' = [rows EXCEPT ![o] = r]
      BY DEF Dispatch, Flies, stores
    <3>2. rows[o] \in WebRow /\ rows[o].sent + 1 \in 0..MaxSent
      BY <2>0 DEF WebTypeOK, WebAssumption, WebRow, Dispatch
    <3>3. r \in WebRow
      BY <3>2 DEF WebRow, States
    <3> QED
      BY <2>0, <3>1, <3>3, RowUpdate DEF WebTypeOK
  <2> QED
    BY <2>0, <2>1 DEF Dispatch, Flies, stores, WebTypeOK, Flights
<1> USE DEF WebAssumption, WebIInv, Dispatch, Flies, stores
<1>2. ASSUME NEW x \in Ops PROVE OpInv(x)'
  BY DEF IsOver, HasBytes, IsOwned, RunInv, MoveInv, IndexInv, Content, WebTypeOK,
     WebRow, WebContents
<1>3. ASSUME NEW q \in Processes, NEW x \in Ops PROVE RunInv(q, x)' /\ MoveInv(q, x)'
  BY DEF IsOver, HasBytes, IsOwned, RunInv, MoveInv, Content, WebTypeOK, WebRow
<1>4. ASSUME NEW d \in WebContents PROVE IndexInv(d)'
  BY DEF HasBytes, IndexInv
<1>5. ResultsAreFinal
  BY DEF ResultsAreFinal, WebTypeOK
<1> QED
  BY <1>1, <1>2, <1>3, <1>4, <1>5 DEF WebIInv

LEMMA ConsumeCancelStep ==
  ASSUME WebAssumption, WebIInv, NEW p \in Processes, NEW o \in Ops, ConsumeCancel(p, o)
  PROVE  WebIInv' /\ ResultsAreFinal
<1>1. WebTypeOK'
  <2>0. WebTypeOK
    BY DEF WebIInv
  <2>1. rows' \in [Ops -> WebRow]
    <3>1. Becomes(o, "recoverable")
      BY DEF ConsumeCancel, Flies, Lands
    <3> QED
      BY <2>0, <3>1, RowMoves DEF WebTypeOK, States
  <2> QED
    BY <2>0, <2>1 DEF ConsumeCancel, Flies, Lands, stores, WebTypeOK, Flights
<1>2. /\ rows'[o].state = "recoverable"
      /\ \A x \in Ops : /\ x # o => rows'[x] = rows[x]
                        /\ rows'[x].video = rows[x].video /\ rows'[x].body = rows[x].body
                        /\ rows'[x].sent = rows[x].sent /\ rows'[x].doc = rows[x].doc
                        /\ rows'[x].age = rows[x].age
  BY RowMoves DEF WebIInv, ConsumeCancel, States
<1> USE DEF WebAssumption, WebIInv, ConsumeCancel, Flies, Lands, stores
<1>3. ASSUME NEW x \in Ops PROVE OpInv(x)'
  BY <1>2 DEF OpInv, InJournal, Money, Bytes, HasBytes, IsOwned, IndexInv, Content,
     WebRow, Auth, WebContents
<1>4. ASSUME NEW q \in Processes, NEW x \in Ops PROVE RunInv(q, x)' /\ MoveInv(q, x)'
  BY <1>2 DEF IsOver, HasBytes, IsOwned, RunInv, MoveInv, Content
<1>5. ASSUME NEW d \in WebContents PROVE IndexInv(d)'
  BY DEF HasBytes, IndexInv
<1>6. ResultsAreFinal
  BY <1>2 DEF ResultsAreFinal
<1> QED
  BY <1>1, <1>3, <1>4, <1>5, <1>6 DEF WebIInv

LEMMA NotDispatchableStep ==
  ASSUME WebAssumption, WebIInv, NEW p \in Processes, NEW o \in Ops,
         NotDispatchable(p, o)
  PROVE  WebIInv' /\ ResultsAreFinal
<1>1. WebTypeOK'
  BY DEF WebIInv, NotDispatchable, Flies, Lands, stores, journal, WebTypeOK, Flights
<1> USE DEF WebAssumption, WebIInv, NotDispatchable, Flies, Lands, stores, journal
<1>2. ASSUME NEW x \in Ops PROVE OpInv(x)'
  BY DEF OpInv, InJournal, Money, Bytes, HasBytes, IsOwned, Content
<1>3. ASSUME NEW q \in Processes, NEW x \in Ops PROVE RunInv(q, x)' /\ MoveInv(q, x)'
  BY DEF IsOver, HasBytes, IsOwned, RunInv, MoveInv, Content
<1>4. ASSUME NEW d \in WebContents PROVE IndexInv(d)'
  BY DEF HasBytes, IndexInv
<1>5. ResultsAreFinal
  BY DEF ResultsAreFinal
<1> QED
  BY <1>1, <1>2, <1>3, <1>4, <1>5 DEF WebIInv

LEMMA ClaimPaidStep ==
  ASSUME WebAssumption, WebIInv, NEW p \in Processes, NEW o \in Ops, ClaimPaid(p, o)
  PROVE  WebIInv' /\ ResultsAreFinal
<1>1. WebTypeOK'
  <2>0. WebTypeOK
    BY DEF WebIInv
  <2>1. auth' \in [Ops -> Auth]
    <3> DEFINE r == [auth[o] EXCEPT !.state = "claimed", !.owner = p]
    <3>1. auth' = [auth EXCEPT ![o] = r]
      BY DEF ClaimPaid, Flies, journal
    <3>2. r \in Auth
      BY ZenonT(40), <2>0 DEF WebTypeOK, Auth
    <3> QED
      BY <2>0, <3>1, <3>2, AuthUpdate DEF WebTypeOK
  <2> QED
    BY <2>0, <2>1 DEF ClaimPaid, Flies, journal, WebTypeOK, Flights
<1> USE DEF WebAssumption, WebIInv, ClaimPaid, Flies, journal
<1>2. ASSUME NEW x \in Ops PROVE OpInv(x)'
  BY DEF OpInv, InJournal, Money, Bytes, HasBytes, IsOwned, RunInv, Content, WebTypeOK
<1>3. ASSUME NEW q \in Processes, NEW x \in Ops PROVE RunInv(q, x)' /\ MoveInv(q, x)'
  BY DEF OpInv, Money, IsOver, HasBytes, IsOwned, RunInv, MoveInv, Content, WebTypeOK
<1>4. ASSUME NEW d \in WebContents PROVE IndexInv(d)'
  BY DEF HasBytes, IndexInv, WebTypeOK
<1>5. ResultsAreFinal
  BY DEF ResultsAreFinal
<1> QED
  BY <1>1, <1>2, <1>3, <1>4, <1>5 DEF WebIInv

LEMMA PeerInFlightStep ==
  ASSUME WebAssumption, WebIInv, NEW p \in Processes, NEW o \in Ops, PeerInFlight(p, o)
  PROVE  WebIInv' /\ ResultsAreFinal
<1>1. WebTypeOK'
  BY DEF WebIInv, PeerInFlight, Flies, Lands, stores, journal, WebTypeOK, Flights
<1> USE DEF WebAssumption, WebIInv, PeerInFlight, Flies, Lands, stores, journal
<1>2. ASSUME NEW x \in Ops PROVE OpInv(x)'
  BY DEF OpInv, InJournal, Money, Bytes, HasBytes, IsOwned, Content
<1>3. ASSUME NEW q \in Processes, NEW x \in Ops PROVE RunInv(q, x)' /\ MoveInv(q, x)'
  BY DEF IsOver, HasBytes, IsOwned, RunInv, MoveInv, Content
<1>4. ASSUME NEW d \in WebContents PROVE IndexInv(d)'
  BY DEF HasBytes, IndexInv
<1>5. ResultsAreFinal
  BY DEF ResultsAreFinal
<1> QED
  BY <1>1, <1>2, <1>3, <1>4, <1>5 DEF WebIInv

LEMMA ReplayStep ==
  ASSUME WebAssumption, WebIInv, NEW p \in Processes, NEW o \in Ops, Replay(p, o)
  PROVE  WebIInv' /\ ResultsAreFinal
<1>1. WebTypeOK'
  <2>0. WebTypeOK
    BY DEF WebIInv
  <2>1. flights' \in [Processes -> [Ops -> Flights]]
    <3>1. Flies(p, o, "plain") \/ Flies(p, o, "assets") \/ Flies(p, o, "failed")
      BY DEF Replay, Answered, stores
    <3> QED
      BY <2>0, <3>1, FliesTo DEF Flights
  <2> QED
    BY <2>0, <2>1 DEF Replay, stores, journal, WebTypeOK
<1>2. /\ \/ flights'[p][o] = "plain" /\ auth[o].state = "plain"
         \/ flights'[p][o] = "assets" /\ auth[o].state \in Answered
         \/ flights'[p][o] = "failed"
      /\ \A q \in Processes, x \in Ops : q # p \/ x # o => flights'[q][x] = flights[q][x]
  BY FliesTo DEF WebIInv, Replay, Flights
<1> USE DEF WebAssumption, WebIInv, Replay, Answered, stores, journal
<1>3. ASSUME NEW x \in Ops PROVE OpInv(x)'
  BY DEF OpInv, InJournal, Money, Bytes, HasBytes, IsOwned, Content
<1>4. ASSUME NEW q \in Processes, NEW x \in Ops PROVE RunInv(q, x)' /\ MoveInv(q, x)'
  <2>1. CASE q = p /\ x = o
    BY <1>2, <2>1 DEF OpInv, Money, Bytes, IsOver, HasBytes, IsOwned, RunInv, MoveInv
  <2>2. CASE q # p \/ x # o
    BY <1>2, <2>2 DEF IsOver, HasBytes, IsOwned, RunInv, MoveInv, Content
  <2> QED
    BY <2>1, <2>2
<1>5. ASSUME NEW d \in WebContents PROVE IndexInv(d)'
  BY DEF HasBytes, IndexInv
<1>6. ResultsAreFinal
  BY DEF ResultsAreFinal
<1> QED
  BY <1>1, <1>3, <1>4, <1>5, <1>6 DEF WebIInv

LEMMA GiveBackStep ==
  ASSUME WebAssumption, WebIInv, NEW p \in Processes, NEW o \in Ops, GiveBack(p, o)
  PROVE  WebIInv' /\ ResultsAreFinal
<1>1. WebTypeOK'
  BY DEF WebAssumption, WebIInv, GiveBack, Flies, journal, WebTypeOK, Auth, NoAuth,
     Flights
<1> USE DEF WebAssumption, WebIInv, GiveBack, Flies, Holds, journal
<1>2. ASSUME NEW x \in Ops PROVE OpInv(x)'
  BY DEF OpInv, InJournal, Money, Bytes, HasBytes, IsOwned, Content, NoAuth
<1>3. ASSUME NEW q \in Processes, NEW x \in Ops PROVE RunInv(q, x)' /\ MoveInv(q, x)'
  BY DEF IsOver, HasBytes, IsOwned, RunInv, MoveInv, Content
<1>4. ASSUME NEW d \in WebContents PROVE IndexInv(d)'
  BY DEF HasBytes, IndexInv
<1>5. ResultsAreFinal
  BY DEF ResultsAreFinal
<1> QED
  BY <1>1, <1>2, <1>3, <1>4, <1>5 DEF WebIInv

LEMMA PayStep ==
  ASSUME WebAssumption, WebIInv, NEW p \in Processes, NEW o \in Ops, Pay(p, o)
  PROVE  WebIInv' /\ ResultsAreFinal
<1>1. WebTypeOK'
  <2>0. WebTypeOK
    BY DEF WebIInv
  <2>1. auth' \in [Ops -> Auth]
    <3> DEFINE r == [auth[o] EXCEPT !.state = "paying"]
    <3>1. auth' = [auth EXCEPT ![o] = r]
      BY DEF Pay, Flies, Holds
    <3>2. r \in Auth
      BY <2>0 DEF WebTypeOK, Auth
    <3> QED
      BY <2>0, <3>1, <3>2, AuthUpdate DEF WebTypeOK
  <2> QED
    BY <2>0, <2>1 DEF Pay, Flies, journal, WebTypeOK, Flights
<1> USE DEF WebAssumption, WebIInv, Pay, Flies, Holds, journal
<1>2. ASSUME NEW x \in Ops PROVE OpInv(x)'
  BY DEF OpInv, InJournal, Money, Bytes, HasBytes, IsOwned, Content, WebTypeOK
<1>3. ASSUME NEW q \in Processes, NEW x \in Ops PROVE RunInv(q, x)' /\ MoveInv(q, x)'
  BY DEF IsOver, HasBytes, IsOwned, RunInv, MoveInv, Content, WebTypeOK
<1>4. ASSUME NEW d \in WebContents PROVE IndexInv(d)'
  BY DEF HasBytes, IndexInv
<1>5. ResultsAreFinal
  BY DEF ResultsAreFinal, OpInv, InJournal, Money
<1> QED
  BY <1>1, <1>2, <1>3, <1>4, <1>5 DEF WebIInv

LEMMA AnswerStep ==
  ASSUME WebAssumption, WebIInv, NEW p \in Processes, NEW o \in Ops, Answer(p, o)
  PROVE  WebIInv' /\ ResultsAreFinal
<1>1. WebTypeOK'
  <2>0. WebTypeOK
    BY DEF WebIInv
  <2>1. auth' \in [Ops -> Auth]
    <3> DEFINE r(state) == [auth[o] EXCEPT !.state = state, !.owner = None]
    <3>1. auth' = [auth EXCEPT ![o] = r("committed")] \/ auth' = [auth EXCEPT ![o] = r("plain")]
      BY DEF Answer, Flies, Holds
    <3>2. r("committed") \in Auth /\ r("plain") \in Auth
      BY <2>0 DEF WebTypeOK, Auth
    <3> QED
      BY <2>0, <3>1, <3>2, AuthUpdate DEF WebTypeOK
  <2>2. flights' \in [Processes -> [Ops -> Flights]]
    <3>1. Flies(p, o, "plain") \/ Flies(p, o, "assets")
      BY DEF Answer, Holds, journal
    <3> QED
      BY <2>0, <3>1, FliesTo DEF Flights
  <2> QED
    BY <2>0, <2>1, <2>2 DEF Answer, journal, WebTypeOK
<1>2. /\ \/ flights'[p][o] = "plain"
         \/ flights'[p][o] = "assets" /\ auth'[o].state = "committed"
      /\ \A q \in Processes, x \in Ops : q # p \/ x # o => flights'[q][x] = flights[q][x]
  BY FliesTo DEF WebIInv, WebTypeOK, Auth, Answer, Flights
<1> USE DEF WebAssumption, WebIInv, Answer, Holds, journal
<1>3. ASSUME NEW x \in Ops PROVE OpInv(x)'
  BY DEF OpInv, InJournal, Money, IsOwned, Content, WebTypeOK, WebRow, Auth
<1>4. ASSUME NEW q \in Processes, NEW x \in Ops PROVE RunInv(q, x)' /\ MoveInv(q, x)'
  <2>1. CASE q = p /\ x = o
    BY <1>2, <2>1 DEF OpInv, Money, IsOver, HasBytes, IsOwned, RunInv, MoveInv,
       WebTypeOK, Auth
  <2>2. CASE q # p \/ x # o
    BY <1>2, <2>2 DEF IsOver, HasBytes, IsOwned, RunInv, MoveInv, Content, WebTypeOK
  <2> QED
    BY <2>1, <2>2
<1>5. ASSUME NEW d \in WebContents PROVE IndexInv(d)'
  <2>1. ASSUME NEW x \in Ops, HasBytes(x) PROVE HasBytes(x)'
    BY <2>1 DEF HasBytes, WebTypeOK
  <2> QED
    BY <2>1 DEF IndexInv, HasBytes, WebTypeOK
<1>6. ResultsAreFinal
  BY DEF ResultsAreFinal
<1> QED
  BY <1>1, <1>3, <1>4, <1>5, <1>6 DEF WebIInv

LEMMA NoAnswerStep ==
  ASSUME WebAssumption, WebIInv, NEW p \in Processes, NEW o \in Ops, NoAnswer(p, o)
  PROVE  WebIInv' /\ ResultsAreFinal
<1>1. WebTypeOK'
  <2>0. WebTypeOK
    BY DEF WebIInv
  <2>1. auth' \in [Ops -> Auth]
    <3> DEFINE r == [auth[o] EXCEPT !.state = "unknown", !.owner = None]
    <3>1. auth' = [auth EXCEPT ![o] = r] \/ auth' = auth
      BY DEF NoAnswer, Flies, Holds
    <3>2. r \in Auth
      BY <2>0 DEF WebTypeOK, Auth
    <3> QED
      BY <2>0, <3>1, <3>2, AuthUpdate DEF WebTypeOK
  <2> QED
    BY <2>0, <2>1 DEF NoAnswer, Flies, journal, WebTypeOK, Flights
<1> USE DEF WebAssumption, WebIInv, NoAnswer, Flies, Holds, journal
<1>2. ASSUME NEW x \in Ops PROVE OpInv(x)'
  BY DEF OpInv, InJournal, Money, Bytes, HasBytes, IsOwned, Content, WebTypeOK
<1>3. ASSUME NEW q \in Processes, NEW x \in Ops PROVE RunInv(q, x)' /\ MoveInv(q, x)'
  BY DEF IsOver, HasBytes, IsOwned, RunInv, MoveInv, Content, WebTypeOK
<1>4. ASSUME NEW d \in WebContents PROVE IndexInv(d)'
  <2>1. ASSUME NEW x \in Ops, HasBytes(x) PROVE HasBytes(x)'
    BY <2>1 DEF HasBytes, WebTypeOK
  <2> QED
    BY <2>1 DEF IndexInv, HasBytes, WebTypeOK
<1>5. ResultsAreFinal
  BY DEF ResultsAreFinal
<1> QED
  BY <1>1, <1>2, <1>3, <1>4, <1>5 DEF WebIInv

LEMMA RecordIndexStep ==
  ASSUME WebAssumption, WebIInv, NEW p \in Processes, NEW o \in Ops, RecordIndex(p, o)
  PROVE  WebIInv' /\ ResultsAreFinal
<1>1. WebTypeOK'
  BY DEF WebIInv, RecordIndex, Flies, stores, WebTypeOK, Flights
<1> USE DEF WebAssumption, WebIInv, RecordIndex, Flies, stores
<1>2. ASSUME NEW x \in Ops PROVE OpInv(x)'
  BY DEF OpInv, InJournal, Money, Bytes, HasBytes, IsOwned, Content
<1>3. ASSUME NEW q \in Processes, NEW x \in Ops PROVE RunInv(q, x)' /\ MoveInv(q, x)'
  BY DEF IsOver, HasBytes, IsOwned, RunInv, MoveInv, Content, WebTypeOK, WebContents
<1>4. ASSUME NEW d \in WebContents PROVE IndexInv(d)'
  BY DEF HasBytes, RunInv, IndexInv
<1>5. ResultsAreFinal
  BY DEF ResultsAreFinal
<1> QED
  BY <1>1, <1>2, <1>3, <1>4, <1>5 DEF WebIInv

LEMMA ReadyStep ==
  ASSUME WebAssumption, WebIInv, NEW p \in Processes, NEW o \in Ops, Ready(p, o)
  PROVE  WebIInv' /\ ResultsAreFinal
<1>1. WebTypeOK'
  <2>0. WebTypeOK
    BY DEF WebIInv
  <2>1. rows' \in [Ops -> WebRow]
    <3> DEFINE r(d) == [rows[o] EXCEPT !.state = "result_ready", !.cancel = FALSE, !.doc = d]
    <3>1. rows' = rows \/ rows' = [rows EXCEPT ![o] = r("plain")] \/ rows' = [rows EXCEPT ![o] = r("assets")]
      BY DEF Ready, Flies, stores
    <3>2. r("plain") \in WebRow /\ r("assets") \in WebRow
      BY ZenonT(40), <2>0 DEF WebTypeOK, WebRow, States
    <3> QED
      BY <2>0, <3>1, <3>2, RowUpdate DEF WebTypeOK
  <2> QED
    BY <2>0, <2>1 DEF Ready, Flies, stores, WebTypeOK, Flights
<1> USE DEF WebAssumption, WebIInv, Ready, Flies, stores
<1>2. ASSUME NEW x \in Ops PROVE OpInv(x)'
  BY SMTT(30) DEF OpInv, InJournal, Money, Bytes, IsOver, HasBytes, IsOwned, RunInv, MoveInv,
     IndexInv, Content, WebTypeOK, WebRow, Auth, WebContents
<1>3. ASSUME NEW q \in Processes, NEW x \in Ops PROVE RunInv(q, x)' /\ MoveInv(q, x)'
  BY DEF OpInv, InJournal, Bytes, IsOver, HasBytes, IsOwned, RunInv, MoveInv, Content,
     WebTypeOK, WebRow, WebContents
<1>4. ASSUME NEW d \in WebContents PROVE IndexInv(d)'
  BY DEF HasBytes, IndexInv
<1>5. ResultsAreFinal
  <2>1. CASE rows[o].state = "dispatching"
    BY <2>1 DEF ResultsAreFinal, OpInv, InJournal, WebTypeOK
  <2>2. CASE rows[o].state # "dispatching"
    BY <2>2 DEF ResultsAreFinal
  <2> QED
    BY <2>1, <2>2
<1> QED
  BY <1>1, <1>2, <1>3, <1>4, <1>5 DEF WebIInv

LEMMA FlightFailsStep ==
  ASSUME WebAssumption, WebIInv, NEW p \in Processes, NEW o \in Ops, FlightFails(p, o)
  PROVE  WebIInv' /\ ResultsAreFinal
<1>1. WebTypeOK'
  <2>0. WebTypeOK
    BY DEF WebIInv
  <2>1. rows' \in [Ops -> WebRow]
    <3>1. Becomes(o, "recoverable") \/ UNCHANGED rows
      BY DEF FlightFails, Flies, Lands
    <3> QED
      BY <2>0, <3>1, RowMoves DEF WebTypeOK, States
  <2> QED
    BY <2>0, <2>1 DEF FlightFails, Flies, Lands, stores, WebTypeOK, Flights
<1>2. /\ rows'[o].state = IF rows[o].state \in Sendable THEN "recoverable" ELSE rows[o].state
      /\ \A x \in Ops : /\ x # o => rows'[x] = rows[x]
                        /\ rows'[x].video = rows[x].video /\ rows'[x].body = rows[x].body
                        /\ rows'[x].sent = rows[x].sent /\ rows'[x].doc = rows[x].doc
                        /\ rows'[x].age = rows[x].age
  <2>1. CASE rows[o].state \in Sendable
    BY <2>1, RowMoves DEF WebIInv, FlightFails, States
  <2>2. CASE ~ (rows[o].state \in Sendable)
    BY <2>2 DEF FlightFails, Flies, Lands
  <2> QED
    BY <2>1, <2>2
<1> USE DEF WebAssumption, WebIInv, FlightFails, Flies, Lands, Sendable, stores
<1>3. ASSUME NEW x \in Ops PROVE OpInv(x)'
  BY <1>2 DEF OpInv, InJournal, Money, Bytes, HasBytes, IsOwned, IndexInv, Content,
     WebRow, Auth, WebContents
<1>4. ASSUME NEW q \in Processes, NEW x \in Ops PROVE RunInv(q, x)' /\ MoveInv(q, x)'
  BY <1>2 DEF IsOver, HasBytes, IsOwned, RunInv, MoveInv, Content
<1>5. ASSUME NEW d \in WebContents PROVE IndexInv(d)'
  BY DEF HasBytes, IndexInv
<1>6. ResultsAreFinal
  BY <1>2 DEF ResultsAreFinal
<1> QED
  BY <1>1, <1>3, <1>4, <1>5, <1>6 DEF WebIInv

LEMMA JournalFailsStep ==
  ASSUME WebAssumption, WebIInv, NEW p \in Processes, NEW o \in Ops, JournalFails(p, o)
  PROVE  WebIInv' /\ ResultsAreFinal
<1>1. WebTypeOK'
  BY DEF WebIInv, JournalFails, Flies, stores, journal, WebTypeOK, Flights
<1> USE DEF WebAssumption, WebIInv, JournalFails, Flies, stores, journal
<1>2. ASSUME NEW x \in Ops PROVE OpInv(x)'
  BY DEF OpInv, InJournal, Money, Bytes, HasBytes, IsOwned, Content
<1>3. ASSUME NEW q \in Processes, NEW x \in Ops PROVE RunInv(q, x)' /\ MoveInv(q, x)'
  BY DEF IsOver, HasBytes, IsOwned, RunInv, MoveInv, Content
<1>4. ASSUME NEW d \in WebContents PROVE IndexInv(d)'
  BY DEF HasBytes, IndexInv
<1>5. ResultsAreFinal
  BY DEF ResultsAreFinal
<1> QED
  BY <1>1, <1>2, <1>3, <1>4, <1>5 DEF WebIInv

LEMMA ReadAssetStep ==
  ASSUME WebAssumption, WebIInv, NEW p \in Processes, NEW c \in WebContents,
         ReadAsset(p, c)
  PROVE  WebIInv' /\ ResultsAreFinal
<1>1. WebTypeOK'
  <2>0. WebTypeOK
    BY DEF WebIInv
  <2>1. moves' \in [Processes -> [Ops -> Moves]]
    <3>1. index[c] \in Ops /\ Joins(p, index[c])
      BY <2>0 DEF ReadAsset, WebTypeOK
    <3> QED
      BY <2>0, <3>1, JoinsTo DEF WebTypeOK
  <2> QED
    BY <2>0, <2>1 DEF ReadAsset, stores, journal, WebTypeOK
<1>2. \A q \in Processes, x \in Ops : moves'[q][x] \in {moves[q][x], "lookup"}
  BY JoinsTo DEF WebIInv, WebTypeOK, ReadAsset
<1> USE DEF WebAssumption, WebIInv, ReadAsset, MoveGoes, stores, journal
<1>3. ASSUME NEW x \in Ops PROVE OpInv(x)'
  BY DEF OpInv, InJournal, Money, Bytes, HasBytes, IsOwned, Content
<1>4. ASSUME NEW q \in Processes, NEW x \in Ops PROVE RunInv(q, x)' /\ MoveInv(q, x)'
  BY <1>2 DEF IsOver, HasBytes, IsOwned, RunInv, MoveInv, Content
<1>5. ASSUME NEW d \in WebContents PROVE IndexInv(d)'
  BY DEF HasBytes, IndexInv
<1>6. ResultsAreFinal
  BY DEF ResultsAreFinal
<1> QED
  BY <1>1, <1>3, <1>4, <1>5, <1>6 DEF WebIInv

LEMMA GenerateStep ==
  ASSUME WebAssumption, WebIInv, NEW o \in Ops, Generate(o)
  PROVE  WebIInv' /\ ResultsAreFinal
<1>1. WebTypeOK'
  <2>0. WebTypeOK
    BY DEF WebIInv
  <2>1. auth' \in [Ops -> Auth]
    <3> DEFINE r == [auth[o] EXCEPT !.state = "committed"]
    <3>1. auth' = [auth EXCEPT ![o] = r]
      BY DEF Generate, journal, memory
    <3>2. r \in Auth
      BY <2>0 DEF WebTypeOK, Auth
    <3> QED
      BY <2>0, <3>1, <3>2, AuthUpdate DEF WebTypeOK
  <2> QED
    BY <2>0, <2>1 DEF Generate, journal, memory, WebTypeOK
<1> USE DEF WebAssumption, WebIInv, Generate, journal, memory
<1>2. ASSUME NEW x \in Ops PROVE OpInv(x)'
  BY DEF OpInv, InJournal, Money, Bytes, HasBytes, IsOwned, Content, WebTypeOK
<1>3. ASSUME NEW q \in Processes, NEW x \in Ops PROVE RunInv(q, x)' /\ MoveInv(q, x)'
  BY DEF IsOver, HasBytes, IsOwned, RunInv, MoveInv, Content
<1>4. ASSUME NEW d \in WebContents PROVE IndexInv(d)'
  BY DEF HasBytes, IndexInv
<1>5. ResultsAreFinal
  BY DEF ResultsAreFinal
<1> QED
  BY <1>1, <1>2, <1>3, <1>4, <1>5 DEF WebIInv

LEMMA PollStep ==
  ASSUME WebAssumption, WebIInv, NEW p \in Processes, NEW o \in Ops, Poll(p, o)
  PROVE  WebIInv' /\ ResultsAreFinal
<1>1. WebTypeOK'
  <2>0. WebTypeOK
    BY DEF WebIInv
  <2>1. moves' \in [Processes -> [Ops -> Moves]]
    <3>1. Joins(p, o)
      BY DEF Poll
    <3> QED
      BY <2>0, <3>1, JoinsTo DEF WebTypeOK
  <2> QED
    BY <2>0, <2>1 DEF Poll, stores, WebTypeOK
<1>2. \A q \in Processes, x \in Ops : moves'[q][x] \in {moves[q][x], "lookup"}
  BY JoinsTo DEF WebIInv, Poll
<1> USE DEF WebAssumption, WebIInv, Poll, MoveGoes, Answered, stores
<1>3. ASSUME NEW x \in Ops PROVE OpInv(x)'
  BY DEF OpInv, InJournal, Money, Bytes, HasBytes, IsOwned, Content
<1>4. ASSUME NEW q \in Processes, NEW x \in Ops PROVE RunInv(q, x)' /\ MoveInv(q, x)'
  BY <1>2 DEF IsOver, HasBytes, IsOwned, RunInv, MoveInv, Content
<1>5. ASSUME NEW d \in WebContents PROVE IndexInv(d)'
  BY DEF OpInv, Bytes, HasBytes, IndexInv
<1>6. ResultsAreFinal
  BY DEF ResultsAreFinal
<1> QED
  BY <1>1, <1>3, <1>4, <1>5, <1>6 DEF WebIInv

LEMMA AcknowledgeStep ==
  ASSUME WebAssumption, WebIInv, NEW p \in Processes, NEW o \in Ops, Acknowledge(p, o)
  PROVE  WebIInv' /\ ResultsAreFinal
<1>1. WebTypeOK'
  <2>0. WebTypeOK
    BY DEF WebIInv
  <2>1. moves' \in [Processes -> [Ops -> Moves]]
    <3>1. Joins(p, o) \/ UNCHANGED moves
      BY DEF Acknowledge
    <3> QED
      BY <2>0, <3>1, JoinsTo DEF WebTypeOK
  <2>2. acks' \in [Processes -> [Ops -> {"none", "waiting", "proved"}]]
    <3>1. acks' = [acks EXCEPT ![p][o] = "proved"] \/ acks' = [acks EXCEPT ![p][o] = "waiting"]
      BY DEF Acknowledge, MoveGoes, Joins
    <3>2. /\ [acks EXCEPT ![p][o] = "proved"] \in [Processes -> [Ops -> {"none", "waiting", "proved"}]]
          /\ [acks EXCEPT ![p][o] = "waiting"] \in [Processes -> [Ops -> {"none", "waiting", "proved"}]]
      BY <2>0, PlaceUpdate DEF WebTypeOK
    <3> QED
      BY <3>1, <3>2
  <2> QED
    BY <2>0, <2>1, <2>2 DEF Acknowledge, stores, journal, WebTypeOK
<1>2. \A q \in Processes, x \in Ops : moves'[q][x] \in {moves[q][x], "lookup"}
  BY JoinsTo DEF WebIInv, Acknowledge
<1>3. \A q \in Processes, x \in Ops :
        acks'[q][x] = "proved" =>
          acks[q][x] = "proved" \/ (q = p /\ x = o /\ rows[o].state = "delivered" /\ rows[o].doc = "assets")
  BY DEF WebIInv, WebTypeOK, Acknowledge
<1> USE DEF WebAssumption, WebIInv, Acknowledge, MoveGoes, stores, journal
<1>4. ASSUME NEW x \in Ops PROVE OpInv(x)'
  BY DEF OpInv, InJournal, Money, Bytes, HasBytes, IsOwned, Content
<1>5. ASSUME NEW q \in Processes, NEW x \in Ops PROVE RunInv(q, x)' /\ MoveInv(q, x)'
  BY <1>2, <1>3 DEF OpInv, Bytes, IsOver, HasBytes, IsOwned, RunInv, MoveInv, Content
<1>6. ASSUME NEW d \in WebContents PROVE IndexInv(d)'
  BY DEF HasBytes, IndexInv
<1>7. ResultsAreFinal
  BY DEF ResultsAreFinal
<1> QED
  BY <1>1, <1>4, <1>5, <1>6, <1>7 DEF WebIInv

LEMMA LookupStep ==
  ASSUME WebAssumption, WebIInv, NEW p \in Processes, NEW o \in Ops, Lookup(p, o)
  PROVE  WebIInv' /\ ResultsAreFinal
<1>1. WebTypeOK'
  BY DEF WebIInv, Lookup, MoveGoes, Moving, stores, journal, WebTypeOK, Moves
<1> USE DEF WebAssumption, WebIInv, Lookup, MoveGoes, Moving, stores, journal
<1>2. ASSUME NEW x \in Ops PROVE OpInv(x)'
  BY DEF OpInv, InJournal, Money, Bytes, HasBytes, IsOwned, Content
<1>3. ASSUME NEW q \in Processes, NEW x \in Ops PROVE RunInv(q, x)' /\ MoveInv(q, x)'
  BY DEF IsOver, HasBytes, IsOwned, RunInv, MoveInv, Content
<1>4. ASSUME NEW d \in WebContents PROVE IndexInv(d)'
  BY DEF HasBytes, IndexInv
<1>5. ResultsAreFinal
  BY DEF ResultsAreFinal
<1> QED
  BY <1>1, <1>2, <1>3, <1>4, <1>5 DEF WebIInv

LEMMA CopyStep ==
  ASSUME WebAssumption, WebIInv, NEW p \in Processes, NEW o \in Ops, Copy(p, o)
  PROVE  WebIInv' /\ ResultsAreFinal
<1>1. WebTypeOK'
  BY DEF WebIInv, Copy, MoveGoes, Moving, journal, WebTypeOK, Moves
<1> USE DEF WebAssumption, WebIInv, Copy, MoveGoes, Moving, journal
<1>2. ASSUME NEW x \in Ops PROVE OpInv(x)'
  BY DEF OpInv, InJournal, Money, Bytes, HasBytes, IsOwned, Content
<1>3. ASSUME NEW q \in Processes, NEW x \in Ops PROVE RunInv(q, x)' /\ MoveInv(q, x)'
  BY DEF IsOver, HasBytes, IsOwned, RunInv, MoveInv, Content
<1>4. ASSUME NEW d \in WebContents PROVE IndexInv(d)'
  BY DEF HasBytes, IndexInv
<1>5. ResultsAreFinal
  BY DEF ResultsAreFinal
<1> QED
  BY <1>1, <1>2, <1>3, <1>4, <1>5 DEF WebIInv

LEMMA MoveAckStep ==
  ASSUME WebAssumption, WebIInv, NEW p \in Processes, NEW o \in Ops, MoveAck(p, o)
  PROVE  WebIInv' /\ ResultsAreFinal
<1>1. WebTypeOK'
  <2>0. WebTypeOK
    BY DEF WebIInv
  <2>1. auth' \in [Ops -> Auth]
    <3> DEFINE r == [auth[o] EXCEPT !.state = "acked"]
    <3>1. auth' = [auth EXCEPT ![o] = r] \/ auth' = auth
      BY DEF MoveAck, MoveGoes, Moving
    <3>2. r \in Auth
      BY <2>0 DEF WebTypeOK, Auth
    <3> QED
      BY <2>0, <3>1, <3>2, AuthUpdate DEF WebTypeOK
  <2> QED
    BY <2>0, <2>1 DEF MoveAck, MoveGoes, Moving, journal, WebTypeOK, Moves
<1> USE DEF WebAssumption, WebIInv, MoveAck, MoveGoes, Moving, Answered, journal
<1>2. ASSUME NEW x \in Ops PROVE OpInv(x)'
  BY DEF OpInv, InJournal, Money, Bytes, HasBytes, IsOwned, MoveInv, Content
<1>3. ASSUME NEW q \in Processes, NEW x \in Ops PROVE RunInv(q, x)' /\ MoveInv(q, x)'
  BY DEF IsOver, HasBytes, IsOwned, RunInv, MoveInv, Content, WebTypeOK
<1>4. ASSUME NEW d \in WebContents PROVE IndexInv(d)'
  BY DEF HasBytes, MoveInv, IndexInv
<1>5. ResultsAreFinal
  BY DEF ResultsAreFinal
<1> QED
  BY <1>1, <1>2, <1>3, <1>4, <1>5 DEF WebIInv

LEMMA MoveCleanStep ==
  ASSUME WebAssumption, WebIInv, NEW p \in Processes, NEW o \in Ops, MoveClean(p, o)
  PROVE  WebIInv' /\ ResultsAreFinal
<1>1. WebTypeOK'
  BY DEF WebIInv, MoveClean, MoveGoes, Moving, journal, WebTypeOK, Moves
<1> USE DEF WebAssumption, WebIInv, MoveClean, MoveGoes, Moving, journal
<1>2. ASSUME NEW x \in Ops PROVE OpInv(x)'
  BY DEF OpInv, InJournal, Money, Bytes, IsOver, HasBytes, IsOwned, MoveInv, Content
<1>3. ASSUME NEW q \in Processes, NEW x \in Ops PROVE RunInv(q, x)' /\ MoveInv(q, x)'
  BY DEF IsOver, HasBytes, IsOwned, RunInv, MoveInv, Content
<1>4. ASSUME NEW d \in WebContents PROVE IndexInv(d)'
  BY DEF HasBytes, MoveInv, IndexInv
<1>5. ResultsAreFinal
  BY DEF ResultsAreFinal
<1> QED
  BY <1>1, <1>2, <1>3, <1>4, <1>5 DEF WebIInv

LEMMA MoveCompleteStep ==
  ASSUME WebAssumption, WebIInv, NEW p \in Processes, NEW o \in Ops, MoveComplete(p, o)
  PROVE  WebIInv' /\ ResultsAreFinal
<1>1. WebTypeOK'
  <2>0. WebTypeOK
    BY DEF WebIInv
  <2>1. auth' \in [Ops -> Auth]
    <3> DEFINE r == [auth[o] EXCEPT !.state = "cleaned", !.keep = Retention]
    <3>1. auth' = [auth EXCEPT ![o] = r] \/ auth' = auth
      BY DEF MoveComplete, MoveGoes, Moving
    <3>2. auth[o] \in Auth /\ Retention \in 0..Retention
      BY <2>0 DEF WebAssumption, WebTypeOK
    <3>3. r \in Auth
      BY <3>2 DEF Auth
    <3> QED
      BY <2>0, <3>1, <3>3, AuthUpdate DEF WebTypeOK
  <2> QED
    BY <2>0, <2>1 DEF MoveComplete, MoveGoes, Moving, journal, WebTypeOK, Moves
<1> USE DEF WebAssumption, WebIInv, MoveComplete, MoveGoes, Moving, journal
<1>2. ASSUME NEW x \in Ops PROVE OpInv(x)'
  BY DEF OpInv, InJournal, Money, Bytes, HasBytes, IsOwned, MoveInv, Content,
     WebTypeOK, WebRow
<1>3. ASSUME NEW q \in Processes, NEW x \in Ops PROVE RunInv(q, x)' /\ MoveInv(q, x)'
  BY DEF IsOver, HasBytes, IsOwned, RunInv, MoveInv, Content, WebTypeOK
<1>4. ASSUME NEW d \in WebContents PROVE IndexInv(d)'
  BY DEF HasBytes, IndexInv, WebTypeOK
<1>5. ResultsAreFinal
  BY DEF ResultsAreFinal
<1> QED
  BY <1>1, <1>2, <1>3, <1>4, <1>5 DEF WebIInv

LEMMA MoveFailsStep ==
  ASSUME WebAssumption, WebIInv, NEW p \in Processes, NEW o \in Ops, MoveFails(p, o)
  PROVE  WebIInv' /\ ResultsAreFinal
<1>1. WebTypeOK'
  BY DEF WebIInv, MoveFails, MoveGoes, stores, journal, WebTypeOK, Moves
<1> USE DEF WebAssumption, WebIInv, MoveFails, MoveGoes, stores, journal
<1>2. ASSUME NEW x \in Ops PROVE OpInv(x)'
  BY DEF OpInv, InJournal, Money, Bytes, HasBytes, IsOwned, Content
<1>3. ASSUME NEW q \in Processes, NEW x \in Ops PROVE RunInv(q, x)' /\ MoveInv(q, x)'
  BY DEF IsOver, HasBytes, IsOwned, RunInv, MoveInv, Content
<1>4. ASSUME NEW d \in WebContents PROVE IndexInv(d)'
  BY DEF HasBytes, IndexInv
<1>5. ResultsAreFinal
  BY DEF ResultsAreFinal
<1> QED
  BY <1>1, <1>2, <1>3, <1>4, <1>5 DEF WebIInv

LEMMA DeliverStep ==
  ASSUME WebAssumption, WebIInv, NEW p \in Processes, NEW o \in Ops, Deliver(p, o)
  PROVE  WebIInv' /\ ResultsAreFinal
<1>1. WebTypeOK'
  <2>0. WebTypeOK
    BY DEF WebIInv
  <2>1. rows' \in [Ops -> WebRow]
    <3>1. rows' = [rows EXCEPT ![o].state = "delivered"] \/ UNCHANGED rows
      BY DEF Deliver, stores
    <3> QED
      BY <2>0, <3>1, RowMoves DEF WebTypeOK, States
  <2> QED
    BY <2>0, <2>1 DEF Deliver, stores, WebTypeOK
<1>2. /\ rows'[o].state = IF rows[o].state = "result_ready" THEN "delivered" ELSE rows[o].state
      /\ \A x \in Ops : /\ x # o => rows'[x] = rows[x]
                        /\ rows'[x].video = rows[x].video /\ rows'[x].body = rows[x].body
                        /\ rows'[x].sent = rows[x].sent /\ rows'[x].doc = rows[x].doc
                        /\ rows'[x].age = rows[x].age
  <2>1. CASE rows[o].state = "result_ready"
    BY <2>1, RowMoves DEF WebIInv, Deliver, States
  <2>2. CASE ~ (rows[o].state = "result_ready")
    BY <2>2 DEF Deliver
  <2> QED
    BY <2>1, <2>2
<1> USE DEF WebAssumption, WebIInv, Deliver, stores
<1>3. ASSUME NEW x \in Ops PROVE OpInv(x)'
  <2>1. CASE x = o
    BY <1>2, <2>1 DEF OpInv, InJournal, Money, Bytes, HasBytes, IsOwned, MoveInv,
       Content
  <2>2. CASE x # o
    BY <1>2, <2>2 DEF OpInv, InJournal, Money, Bytes, HasBytes, IsOwned, Content
  <2> QED
    BY <2>1, <2>2
<1>4. ASSUME NEW q \in Processes, NEW x \in Ops PROVE RunInv(q, x)' /\ MoveInv(q, x)'
  BY <1>2 DEF IsOver, HasBytes, IsOwned, RunInv, MoveInv, Content
<1>5. ASSUME NEW d \in WebContents PROVE IndexInv(d)'
  BY DEF HasBytes, IndexInv
<1>6. ResultsAreFinal
  BY <1>2 DEF ResultsAreFinal
<1> QED
  BY <1>1, <1>3, <1>4, <1>5, <1>6 DEF WebIInv

LEMMA DeliverPlainStep ==
  ASSUME WebAssumption, WebIInv, NEW o \in Ops, DeliverPlain(o)
  PROVE  WebIInv' /\ ResultsAreFinal
<1>1. WebTypeOK'
  <2>0. WebTypeOK
    BY DEF WebIInv
  <2>1. rows' \in [Ops -> WebRow]
    <3>1. rows' = [rows EXCEPT ![o].state = "delivered"]
      BY DEF DeliverPlain, stores, memory
    <3> QED
      BY <2>0, <3>1, RowMoves DEF WebTypeOK, States
  <2> QED
    BY <2>0, <2>1 DEF DeliverPlain, stores, memory, WebTypeOK
<1> USE DEF WebAssumption, WebIInv, DeliverPlain, stores, memory
<1>2. ASSUME NEW x \in Ops PROVE OpInv(x)'
  BY DEF OpInv, InJournal, Money, Bytes, HasBytes, IsOwned, Content
<1>3. ASSUME NEW q \in Processes, NEW x \in Ops PROVE RunInv(q, x)' /\ MoveInv(q, x)'
  BY DEF IsOver, HasBytes, IsOwned, RunInv, MoveInv, Content
<1>4. ASSUME NEW d \in WebContents PROVE IndexInv(d)'
  BY DEF HasBytes, IndexInv
<1>5. ResultsAreFinal
  BY DEF ResultsAreFinal
<1> QED
  BY <1>1, <1>2, <1>3, <1>4, <1>5 DEF WebIInv

LEMMA WebCrashStep ==
  ASSUME WebAssumption, WebIInv, NEW p \in Processes, WebCrash(p)
  PROVE  WebIInv' /\ ResultsAreFinal
<1>1. WebTypeOK'
  BY DEF WebIInv, WebCrash, stores, journal, WebTypeOK, Flights, Moves
<1> USE DEF WebAssumption, WebIInv, WebCrash, stores, journal, memory
<1>2. ASSUME NEW x \in Ops PROVE OpInv(x)'
  BY DEF OpInv, InJournal, Money, Bytes, HasBytes, IsOwned, Content
<1>3. ASSUME NEW q \in Processes, NEW x \in Ops PROVE RunInv(q, x)' /\ MoveInv(q, x)'
  BY DEF IsOver, HasBytes, IsOwned, RunInv, MoveInv, Content
<1>4. ASSUME NEW d \in WebContents PROVE IndexInv(d)'
  BY DEF HasBytes, IndexInv
<1>5. ResultsAreFinal
  BY DEF ResultsAreFinal
<1> QED
  BY <1>1, <1>2, <1>3, <1>4, <1>5 DEF WebIInv

LEMMA LeaseEndsStep ==
  ASSUME WebAssumption, WebIInv, NEW o \in Ops, LeaseEnds(o)
  PROVE  WebIInv' /\ ResultsAreFinal
<1>1. WebTypeOK'
  <2>0. WebTypeOK
    BY DEF WebIInv
  <2>1. auth' \in [Ops -> Auth]
    <3> DEFINE r == [auth[o] EXCEPT !.owner = None, !.state = IF @ = "paying" THEN "unknown" ELSE @]
    <3>1. auth' = [auth EXCEPT ![o] = r]
      BY DEF LeaseEnds, journal, memory
    <3>2. r \in Auth
      <4>1. auth[o] \in Auth
        BY <2>0 DEF WebTypeOK
      <4>2. CASE auth[o].state = "paying"
        BY <4>1, <4>2 DEF Auth
      <4>3. CASE auth[o].state # "paying"
        BY <4>1, <4>3 DEF Auth
      <4> QED
        BY <4>2, <4>3
    <3> QED
      BY <2>0, <3>1, <3>2, AuthUpdate DEF WebTypeOK
  <2> QED
    BY <2>0, <2>1 DEF LeaseEnds, journal, memory, WebTypeOK
<1> USE DEF WebAssumption, WebIInv, LeaseEnds, journal, memory
<1>2. ASSUME NEW x \in Ops PROVE OpInv(x)'
  BY DEF OpInv, InJournal, Money, Bytes, HasBytes, IsOwned, Content, WebTypeOK
<1>3. ASSUME NEW q \in Processes, NEW x \in Ops PROVE RunInv(q, x)' /\ MoveInv(q, x)'
  BY DEF IsOver, HasBytes, IsOwned, RunInv, MoveInv, Content, WebTypeOK
<1>4. ASSUME NEW d \in WebContents PROVE IndexInv(d)'
  BY DEF HasBytes, IndexInv, WebTypeOK
<1>5. ResultsAreFinal
  BY DEF ResultsAreFinal
<1> QED
  BY <1>1, <1>2, <1>3, <1>4, <1>5 DEF WebIInv

LEMMA PruneStep ==
  ASSUME WebAssumption, WebIInv, NEW o \in Ops, Prune(o)
  PROVE  WebIInv' /\ ResultsAreFinal
<1>1. WebTypeOK'
  BY DEF WebIInv, Prune, journal, memory, WebTypeOK, Auth, NoAuth
<1>2. auth[o].state = "cleaned" /\ paid[o] > 0 /\ rows[o].age = Retention
  <2>1. auth[o].keep = 0 /\ auth[o].state = "cleaned" /\ rows[o].age \in 0..Retention
    BY DEF Prune, WebIInv, WebTypeOK, WebRow
  <2>2. rows[o].age + auth[o].keep >= Retention /\ paid[o] > 0
    BY <2>1 DEF WebIInv, OpInv, Money
  <2> QED
    BY <2>1, <2>2 DEF WebAssumption
<1> USE DEF WebAssumption, WebIInv, Prune, journal, memory
<1>3. ASSUME NEW x \in Ops PROVE OpInv(x)'
  BY <1>2 DEF OpInv, InJournal, Money, Bytes, HasBytes, IsOwned, Content, NoAuth
<1>4. ASSUME NEW q \in Processes, NEW x \in Ops PROVE RunInv(q, x)' /\ MoveInv(q, x)'
  BY <1>2 DEF IsOver, HasBytes, IsOwned, RunInv, MoveInv, Content, NoAuth
<1>5. ASSUME NEW d \in WebContents PROVE IndexInv(d)'
  BY DEF HasBytes, IndexInv
<1>6. ResultsAreFinal
  BY DEF ResultsAreFinal
<1> QED
  BY <1>1, <1>3, <1>4, <1>5, <1>6 DEF WebIInv

LEMMA TickStep ==
  ASSUME WebAssumption, WebIInv, Tick
  PROVE  WebIInv' /\ ResultsAreFinal
<1>1. WebTypeOK'
  <2>0. WebTypeOK
    BY DEF WebIInv
  <2>1. rows' \in [Ops -> WebRow]
    <3>1. ASSUME NEW x \in Ops PROVE rows'[x] \in WebRow
      <4>1. rows[x] \in WebRow
        BY <2>0 DEF WebTypeOK
      <4>2. CASE rows[x].state # "none" /\ rows[x].age < Retention
        <5>1. rows'[x] = [rows[x] EXCEPT !.age = @ + 1]
          BY <4>2 DEF Tick, memory
        <5> QED
          BY <4>1, <4>2, <5>1 DEF WebRow, WebAssumption
      <4>3. CASE ~ (rows[x].state # "none" /\ rows[x].age < Retention)
        BY <4>1, <4>3 DEF Tick, memory
      <4> QED
        BY <4>2, <4>3
    <3> QED
      BY <3>1 DEF Tick, memory
  <2>2. auth' \in [Ops -> Auth]
    <3>1. ASSUME NEW x \in Ops PROVE auth'[x] \in Auth
      <4>1. auth[x] \in Auth
        BY <2>0 DEF WebTypeOK
      <4>2. CASE auth[x].keep > 0
        <5>1. auth'[x] = [auth[x] EXCEPT !.keep = @ - 1]
          BY <4>2 DEF Tick, memory
        <5> QED
          BY <4>1, <4>2, <5>1 DEF Auth, WebAssumption
      <4>3. CASE ~ (auth[x].keep > 0)
        BY <4>1, <4>3 DEF Tick, memory
      <4> QED
        BY <4>2, <4>3
    <3> QED
      BY <3>1 DEF Tick, memory
  <2> QED
    BY <2>0, <2>1, <2>2 DEF Tick, memory, WebTypeOK
<1> USE DEF WebAssumption, WebIInv, Tick, memory
<1>2. ASSUME NEW x \in Ops PROVE OpInv(x)'
  BY DEF OpInv, InJournal, Money, Bytes, HasBytes, IsOwned, Content, WebTypeOK,
     WebRow, Auth
<1>3. ASSUME NEW q \in Processes, NEW x \in Ops PROVE RunInv(q, x)' /\ MoveInv(q, x)'
  BY DEF IsOver, HasBytes, IsOwned, RunInv, MoveInv, Content
<1>4. ASSUME NEW d \in WebContents PROVE IndexInv(d)'
  BY DEF HasBytes, IndexInv, WebTypeOK
<1>5. ResultsAreFinal
  BY DEF ResultsAreFinal
<1> QED
  BY <1>1, <1>2, <1>3, <1>4, <1>5 DEF WebIInv

LEMMA WebStep ==
  ASSUME WebAssumption, WebIInv, [WebNext]_webVars
  PROVE  WebIInv' /\ [ResultsAreFinal]_webVars
<1>1. CASE UNCHANGED webVars
  <2> USE <1>1 DEF webVars, journal, stores, memory
  <2>1. WebTypeOK'
    BY DEF WebIInv, WebTypeOK
  <2>2. ASSUME NEW o \in Ops PROVE OpInv(o)'
    BY DEF WebIInv, OpInv, InJournal, Money, Bytes, HasBytes, IsOwned, Content
  <2>3. ASSUME NEW p \in Processes, NEW o \in Ops PROVE RunInv(p, o)' /\ MoveInv(p, o)'
    BY DEF WebIInv, RunInv, MoveInv, HasBytes, IsOver, IsOwned, Content
  <2>4. ASSUME NEW c \in WebContents PROVE IndexInv(c)'
    BY DEF WebIInv, IndexInv, HasBytes
  <2> QED
    BY <2>1, <2>2, <2>3, <2>4 DEF WebIInv
<1>2. ASSUME NEW o \in Ops, NEW video \in BOOLEAN,
             Claims(o, video) PROVE WebIInv' /\ ResultsAreFinal
  BY <1>2, ClaimsStep
<1>3. ASSUME NEW o \in Ops, NEW video \in BOOLEAN,
             ImportLegacy(o, video) PROVE WebIInv' /\ ResultsAreFinal
  BY <1>3, ImportLegacyStep
<1>4. ASSUME NEW o \in Ops, Cancel(o) PROVE WebIInv' /\ ResultsAreFinal
  BY <1>4, CancelStep
<1>5. ASSUME NEW o \in Ops, Abandon(o) PROVE WebIInv' /\ ResultsAreFinal
  BY <1>5, AbandonStep
<1>6. ASSUME NEW o \in Ops, Reconcile(o) PROVE WebIInv' /\ ResultsAreFinal
  BY <1>6, ReconcileStep
<1>7. ASSUME NEW o \in Ops, ShowResult(o) PROVE WebIInv' /\ ResultsAreFinal
  BY <1>7, ShowResultStep
<1>8. ASSUME NEW p \in Processes, NEW o \in Ops,
             Execute(p, o) PROVE WebIInv' /\ ResultsAreFinal
  BY <1>8, ExecuteStep
<1>9. ASSUME NEW p \in Processes, NEW o \in Ops,
             Dispatch(p, o) PROVE WebIInv' /\ ResultsAreFinal
  BY <1>9, DispatchStep
<1>10. ASSUME NEW p \in Processes, NEW o \in Ops,
              ConsumeCancel(p, o) PROVE WebIInv' /\ ResultsAreFinal
  BY <1>10, ConsumeCancelStep
<1>11. ASSUME NEW p \in Processes, NEW o \in Ops,
              NotDispatchable(p, o) PROVE WebIInv' /\ ResultsAreFinal
  BY <1>11, NotDispatchableStep
<1>12. ASSUME NEW p \in Processes, NEW o \in Ops,
              ClaimPaid(p, o) PROVE WebIInv' /\ ResultsAreFinal
  BY <1>12, ClaimPaidStep
<1>13. ASSUME NEW p \in Processes, NEW o \in Ops,
              PeerInFlight(p, o) PROVE WebIInv' /\ ResultsAreFinal
  BY <1>13, PeerInFlightStep
<1>14. ASSUME NEW p \in Processes, NEW o \in Ops,
              Replay(p, o) PROVE WebIInv' /\ ResultsAreFinal
  BY <1>14, ReplayStep
<1>15. ASSUME NEW p \in Processes, NEW o \in Ops,
              GiveBack(p, o) PROVE WebIInv' /\ ResultsAreFinal
  BY <1>15, GiveBackStep
<1>16. ASSUME NEW p \in Processes, NEW o \in Ops,
              Pay(p, o) PROVE WebIInv' /\ ResultsAreFinal
  BY <1>16, PayStep
<1>17. ASSUME NEW p \in Processes, NEW o \in Ops,
              Answer(p, o) PROVE WebIInv' /\ ResultsAreFinal
  BY <1>17, AnswerStep
<1>18. ASSUME NEW p \in Processes, NEW o \in Ops,
              NoAnswer(p, o) PROVE WebIInv' /\ ResultsAreFinal
  BY <1>18, NoAnswerStep
<1>19. ASSUME NEW p \in Processes, NEW o \in Ops,
              RecordIndex(p, o) PROVE WebIInv' /\ ResultsAreFinal
  BY <1>19, RecordIndexStep
<1>20. ASSUME NEW p \in Processes, NEW o \in Ops,
              Ready(p, o) PROVE WebIInv' /\ ResultsAreFinal
  BY <1>20, ReadyStep
<1>21. ASSUME NEW p \in Processes, NEW o \in Ops,
              FlightFails(p, o) PROVE WebIInv' /\ ResultsAreFinal
  BY <1>21, FlightFailsStep
<1>22. ASSUME NEW p \in Processes, NEW o \in Ops,
              JournalFails(p, o) PROVE WebIInv' /\ ResultsAreFinal
  BY <1>22, JournalFailsStep
<1>23. ASSUME NEW p \in Processes, NEW c \in WebContents,
              ReadAsset(p, c) PROVE WebIInv' /\ ResultsAreFinal
  BY <1>23, ReadAssetStep
<1>24. ASSUME NEW o \in Ops, Generate(o) PROVE WebIInv' /\ ResultsAreFinal
  BY <1>24, GenerateStep
<1>25. ASSUME NEW p \in Processes, NEW o \in Ops,
              Poll(p, o) PROVE WebIInv' /\ ResultsAreFinal
  BY <1>25, PollStep
<1>26. ASSUME NEW p \in Processes, NEW o \in Ops,
              Acknowledge(p, o) PROVE WebIInv' /\ ResultsAreFinal
  BY <1>26, AcknowledgeStep
<1>27. ASSUME NEW p \in Processes, NEW o \in Ops,
              Lookup(p, o) PROVE WebIInv' /\ ResultsAreFinal
  BY <1>27, LookupStep
<1>28. ASSUME NEW p \in Processes, NEW o \in Ops,
              Copy(p, o) PROVE WebIInv' /\ ResultsAreFinal
  BY <1>28, CopyStep
<1>29. ASSUME NEW p \in Processes, NEW o \in Ops,
              MoveAck(p, o) PROVE WebIInv' /\ ResultsAreFinal
  BY <1>29, MoveAckStep
<1>30. ASSUME NEW p \in Processes, NEW o \in Ops,
              MoveClean(p, o) PROVE WebIInv' /\ ResultsAreFinal
  BY <1>30, MoveCleanStep
<1>31. ASSUME NEW p \in Processes, NEW o \in Ops,
              MoveComplete(p, o) PROVE WebIInv' /\ ResultsAreFinal
  BY <1>31, MoveCompleteStep
<1>32. ASSUME NEW p \in Processes, NEW o \in Ops,
              MoveFails(p, o) PROVE WebIInv' /\ ResultsAreFinal
  BY <1>32, MoveFailsStep
<1>33. ASSUME NEW p \in Processes, NEW o \in Ops,
              Deliver(p, o) PROVE WebIInv' /\ ResultsAreFinal
  BY <1>33, DeliverStep
<1>34. ASSUME NEW o \in Ops, DeliverPlain(o) PROVE WebIInv' /\ ResultsAreFinal
  BY <1>34, DeliverPlainStep
<1>35. ASSUME NEW p \in Processes, WebCrash(p) PROVE WebIInv' /\ ResultsAreFinal
  BY <1>35, WebCrashStep
<1>36. ASSUME NEW o \in Ops, LeaseEnds(o) PROVE WebIInv' /\ ResultsAreFinal
  BY <1>36, LeaseEndsStep
<1>37. ASSUME NEW o \in Ops, Prune(o) PROVE WebIInv' /\ ResultsAreFinal
  BY <1>37, PruneStep
<1>38. ASSUME Tick PROVE WebIInv' /\ ResultsAreFinal
  BY <1>38, TickStep
<1> QED
  BY <1>1, <1>2, <1>3, <1>4, <1>5, <1>6, <1>7, <1>8, <1>9, <1>10, <1>11, <1>12, <1>13,
     <1>14, <1>15, <1>16, <1>17, <1>18, <1>19, <1>20, <1>21, <1>22, <1>23, <1>24,
     <1>25, <1>26, <1>27, <1>28, <1>29, <1>30, <1>31, <1>32, <1>33, <1>34, <1>35,
     <1>36, <1>37, <1>38 DEF WebNext

\* However often an operation is cut, cancelled, retried and run by several
\* processes, its provider is paid once; its bytes and its room are released in
\* order, what is delivered is in the archive, and no reference is dead.
THEOREM PurchasesCorrect == ASSUME WebAssumption PROVE WebSpec => []WebInv
<1>1. WebInit => WebIInv
  BY WebStart
<1>2. WebIInv /\ [WebNext]_webVars => WebIInv'
  BY WebStep
<1>3. WebIInv => WebInv
  BY WebIInvImplies
<1> QED
  BY <1>1, <1>2, <1>3, PTL DEF WebSpec

\* A result and the end of an operation are final, and nothing is paid for an
\* operation that has a result.
THEOREM ResultsCorrect == ASSUME WebAssumption PROVE WebSpec => [][ResultsAreFinal]_webVars
<1>1. WebInit => WebIInv
  BY WebStart
<1>2. WebIInv /\ [WebNext]_webVars => WebIInv' /\ [ResultsAreFinal]_webVars
  BY WebStep
<1> QED
  BY <1>1, <1>2, PTL DEF WebSpec

-----------------------------------------------------------------------------

(***************************************************************************)
(* The archive (WebArchive).                                               *)
(***************************************************************************)
\* The files, the rows and the documents agree.
Whole == files = objects /\ objects = Owned /\ ~ stray

\* What each place of the work knows: while a batch is open, there is at most
\* one thing that no document owns and that is not a member of its own.
PlaceInv ==
  /\ (fence = NoOne) = (work.at = "idle")
  /\ work.todo \subseteq Members[work.doc]
  /\ ~ meta.dirty => Whole
  /\ work.at \in {"admit", "open"} => ~ meta.dirty
  /\ work.at \in {"rows", "unlink", "check", "store", "written", "index", "close"} =>
       meta.dirty
  /\ work.at = "unlink" => objects = Owned
  /\ work.at \in {"check", "close"} => Whole
  /\ work.at \in {"store", "written", "index"} =>
       /\ objects \subseteq Owned \cup Members[work.doc]
       /\ files \ objects = IF work.at = "index" THEN {work.item} ELSE {}
       /\ stray => work.at = "written"
  /\ work.at \in {"written", "index"} => work.item \in Members[work.doc] \ objects

SetsInv == RowsHaveFiles /\ DocumentsAreComplete

ArchiveIInv == ArchiveTypeOK /\ SetsInv /\ CountersExact /\ PlaceInv

\* Rows and documents are finitely many, so one more or less is one more or
\* less in their number.
LEMMA ArchiveCounts ==
  ASSUME ArchiveAssumption, ArchiveTypeOK
  PROVE  /\ IsFiniteSet(objects) /\ IsFiniteSet(documents)
         /\ Cardinality(objects) \in Nat /\ Cardinality(documents) \in Nat
         /\ \A c \in Contents \ objects :
              Cardinality(objects \cup {c}) = Cardinality(objects) + 1
         /\ \A d \in Docs \ documents :
              Cardinality(documents \cup {d}) = Cardinality(documents) + 1
         /\ \A S \in SUBSET objects :
              /\ Cardinality(objects \cap S) = Cardinality(objects) - Cardinality(objects \ S)
              /\ Cardinality(objects \cap S) \in Nat
              /\ Cardinality(objects \ S) \in Nat
<1>1. IsFiniteSet(objects) /\ IsFiniteSet(documents)
  BY FS_Subset DEF ArchiveAssumption, ArchiveTypeOK
<1>2. ASSUME NEW S \in SUBSET objects
      PROVE /\ Cardinality(objects \cap S) = Cardinality(objects) - Cardinality(objects \ S)
             /\ Cardinality(objects \cap S) \in Nat
             /\ Cardinality(objects \ S) \in Nat
  <2>1. IsFiniteSet(objects \ S) /\ Cardinality(objects \ S) = Cardinality(objects) - Cardinality(objects \cap S)
    BY <1>1, FS_Difference
  <2>2. IsFiniteSet(objects \cap S)
    BY <1>1, FS_Intersection
  <2> QED
    BY <1>1, <2>1, <2>2, FS_CardinalityType
<1> QED
  BY <1>1, <1>2, FS_AddElement, FS_CardinalityType

LEMMA StartStep ==
  ASSUME ArchiveAssumption, ArchiveIInv, NEW p \in Gateways, Start(p)
  PROVE  ArchiveIInv' /\ ArchivedStays
<1> USE DEF ArchiveIInv, Start, Idle, records, directory
<1>1. ArchiveTypeOK'
  BY DEF ArchiveAssumption, ArchiveTypeOK, Work, Places, Sequels, Meta
<1>2. SetsInv' /\ ArchivedStays
  BY DEF ArchiveAssumption, ArchiveTypeOK, Work, SetsInv, RowsHaveFiles,
     DocumentsAreComplete, ArchivedStays, Owned, PlaceInv, Whole
<1>3. CountersExact'
  BY ArchiveCounts DEF ArchiveAssumption, ArchiveTypeOK, Meta, CountersExact
<1>4. PlaceInv'
  BY DEF ArchiveAssumption, ArchiveTypeOK, Work, Meta, SetsInv, RowsHaveFiles,
     DocumentsAreComplete, Owned, PlaceInv, Whole
<1> QED
  BY <1>1, <1>2, <1>3, <1>4

LEMMA MarkDirtyStep ==
  ASSUME ArchiveAssumption, ArchiveIInv, MarkDirty
  PROVE  ArchiveIInv' /\ ArchivedStays
<1> USE DEF ArchiveIInv, MarkDirty, Proceeds, Step, SetDirty, records, directory
<1>1. ArchiveTypeOK'
  BY DEF ArchiveAssumption, ArchiveTypeOK, Work, Places, Sequels, Meta
<1>2. SetsInv' /\ ArchivedStays
  BY DEF ArchiveAssumption, ArchiveTypeOK, Work, SetsInv, RowsHaveFiles,
     DocumentsAreComplete, ArchivedStays, Owned, PlaceInv, Whole
<1>3. CountersExact'
  BY ArchiveCounts DEF ArchiveAssumption, ArchiveTypeOK, Meta, CountersExact
<1>4. PlaceInv'
  BY DEF ArchiveAssumption, ArchiveTypeOK, Work, Meta, SetsInv, RowsHaveFiles,
     DocumentsAreComplete, Owned, PlaceInv, Whole
<1> QED
  BY <1>1, <1>2, <1>3, <1>4

LEMMA DropOrphansStep ==
  ASSUME ArchiveAssumption, ArchiveIInv, DropOrphans
  PROVE  ArchiveIInv' /\ ArchivedStays
<1> USE DEF ArchiveIInv, DropOrphans, Proceeds, Step, directory
<1>1. ArchiveTypeOK'
  <2>1. Cardinality(objects \ Owned) \in Nat
    <3>1. objects \ Owned = objects \ (objects \cap Owned) /\ objects \cap Owned \in SUBSET objects
      OBVIOUS
    <3> QED
      BY <3>1, ArchiveCounts
  <2>2. meta' \in Meta
    BY <2>1 DEF ArchiveTypeOK, Meta
  <2>3. work' \in Work
    BY DEF ArchiveTypeOK, Work, Places
  <2> QED
    BY <2>2, <2>3 DEF ArchiveTypeOK
<1>2. SetsInv' /\ ArchivedStays
  BY DEF ArchiveAssumption, ArchiveTypeOK, Work, SetsInv, RowsHaveFiles,
     DocumentsAreComplete, ArchivedStays, Owned, PlaceInv, Whole
<1>3. CountersExact'
  <2>1. objects \ Owned = objects \ (objects \cap Owned) /\ objects \cap Owned \in SUBSET objects
    OBVIOUS
  <2>2. /\ Cardinality(objects \cap Owned) = Cardinality(objects) - Cardinality(objects \ Owned)
        /\ Cardinality(objects \cap Owned) \in Nat /\ Cardinality(objects \ Owned) \in Nat
        /\ Cardinality(objects) \in Nat
    <3>1. objects \cap (objects \cap Owned) = objects \cap Owned
      OBVIOUS
    <3> QED
      BY <2>1, <3>1, ArchiveCounts
  <2>3. meta'.stored = meta.stored - Cardinality(objects \ Owned) /\ meta'.count = meta.count
    BY DEF ArchiveTypeOK, Meta
  <2> QED
    BY <2>2, <2>3 DEF CountersExact, ArchiveAssumption
<1>4. PlaceInv'
  BY DEF ArchiveAssumption, ArchiveTypeOK, Work, Meta, SetsInv, RowsHaveFiles,
     DocumentsAreComplete, Owned, PlaceInv, Whole
<1> QED
  BY <1>1, <1>2, <1>3, <1>4

LEMMA UnlinkOneStep ==
  ASSUME ArchiveAssumption, ArchiveIInv, UnlinkOne
  PROVE  ArchiveIInv' /\ ArchivedStays
<1> USE DEF ArchiveIInv, UnlinkOne, Proceeds, Step, records
<1>1. ArchiveTypeOK'
  BY DEF ArchiveAssumption, ArchiveTypeOK, Work, Places, Sequels, Meta
<1>2. SetsInv' /\ ArchivedStays
  BY DEF ArchiveAssumption, ArchiveTypeOK, Work, SetsInv, RowsHaveFiles,
     DocumentsAreComplete, ArchivedStays, Owned, PlaceInv, Whole
<1>3. CountersExact'
  BY ArchiveCounts DEF ArchiveAssumption, ArchiveTypeOK, Meta, CountersExact
<1>4. PlaceInv'
  BY DEF ArchiveAssumption, ArchiveTypeOK, Work, Meta, SetsInv, RowsHaveFiles,
     DocumentsAreComplete, Owned, PlaceInv, Whole
<1> QED
  BY <1>1, <1>2, <1>3, <1>4

LEMMA CheckObjectsStep ==
  ASSUME ArchiveAssumption, ArchiveIInv, CheckObjects
  PROVE  ArchiveIInv' /\ ArchivedStays
<1> USE DEF ArchiveIInv, CheckObjects, Proceeds, Step, records, directory
<1>1. ArchiveTypeOK'
  BY DEF ArchiveAssumption, ArchiveTypeOK, Work, Places, Sequels, Meta
<1>2. SetsInv' /\ ArchivedStays
  BY DEF ArchiveAssumption, ArchiveTypeOK, Work, SetsInv, RowsHaveFiles,
     DocumentsAreComplete, ArchivedStays, Owned, PlaceInv, Whole
<1>3. CountersExact'
  BY ArchiveCounts DEF ArchiveAssumption, ArchiveTypeOK, Meta, CountersExact
<1>4. PlaceInv'
  BY ZenonT(40) DEF ArchiveAssumption, ArchiveTypeOK, Work, Meta, SetsInv, RowsHaveFiles,
     DocumentsAreComplete, Owned, PlaceInv, Whole
<1> QED
  BY <1>1, <1>2, <1>3, <1>4

LEMMA RecoveredStep ==
  ASSUME ArchiveAssumption, ArchiveIInv, Recovered
  PROVE  ArchiveIInv' /\ ArchivedStays
<1> USE DEF ArchiveIInv, Recovered, Idle, Proceeds, ClearDirty, records, directory
<1>1. ArchiveTypeOK'
  <2>1. meta' \in Meta /\ debt' \in [Gateways -> BOOLEAN]
    BY DEF ArchiveTypeOK, Meta
  <2>2. Idle \in Work
    BY DEF ArchiveAssumption, Work, Places, Sequels
  <2>3. [work EXCEPT !.at = "admit"] \in Work
    BY DEF ArchiveTypeOK, Work, Places
  <2>4. work' \in Work /\ fence' \in Gateways \cup {NoOne} /\ down' \subseteq Gateways
    <3> HIDE DEF Idle
    <3> QED
      BY <2>2, <2>3 DEF ArchiveTypeOK
  <2> QED
    BY <2>1, <2>4 DEF ArchiveTypeOK
<1>2. SetsInv' /\ ArchivedStays
  BY DEF ArchiveAssumption, ArchiveTypeOK, Work, SetsInv, RowsHaveFiles,
     DocumentsAreComplete, ArchivedStays, Owned, PlaceInv, Whole
<1>3. CountersExact'
  BY ArchiveCounts DEF ArchiveAssumption, ArchiveTypeOK, Meta, CountersExact
<1>4. PlaceInv'
  BY DEF ArchiveAssumption, ArchiveTypeOK, Work, Meta, SetsInv, RowsHaveFiles,
     DocumentsAreComplete, Owned, PlaceInv, Whole
<1> QED
  BY <1>1, <1>2, <1>3, <1>4

LEMMA RecoveryFailsStep ==
  ASSUME ArchiveAssumption, ArchiveIInv, RecoveryFails
  PROVE  ArchiveIInv' /\ ArchivedStays
<1> USE DEF ArchiveIInv, RecoveryFails, Idle, Leaves, records, directory
<1>1. ArchiveTypeOK'
  BY DEF ArchiveAssumption, ArchiveTypeOK, Work, Places, Sequels, Meta
<1>2. SetsInv' /\ ArchivedStays
  BY DEF ArchiveAssumption, ArchiveTypeOK, Work, SetsInv, RowsHaveFiles,
     DocumentsAreComplete, ArchivedStays, Owned, PlaceInv, Whole
<1>3. CountersExact'
  BY ArchiveCounts DEF ArchiveAssumption, ArchiveTypeOK, Meta, CountersExact
<1>4. PlaceInv'
  BY DEF ArchiveAssumption, ArchiveTypeOK, Work, Meta, SetsInv, RowsHaveFiles,
     DocumentsAreComplete, Owned, PlaceInv, Whole
<1> QED
  BY <1>1, <1>2, <1>3, <1>4

LEMMA EnterStep ==
  ASSUME ArchiveAssumption, ArchiveIInv, NEW p \in Gateways, NEW d \in Docs, Enter(p, d)
  PROVE  ArchiveIInv' /\ ArchivedStays
<1> USE DEF ArchiveIInv, Enter, MustRecover, records, directory
<1>1. ArchiveTypeOK'
  BY DEF ArchiveAssumption, ArchiveTypeOK, Work, Places, Sequels, Meta
<1>2. SetsInv' /\ ArchivedStays
  BY DEF ArchiveAssumption, ArchiveTypeOK, Work, SetsInv, RowsHaveFiles,
     DocumentsAreComplete, ArchivedStays, Owned, PlaceInv, Whole
<1>3. CountersExact'
  BY ArchiveCounts DEF ArchiveAssumption, ArchiveTypeOK, Meta, CountersExact
<1>4. PlaceInv'
  BY DEF ArchiveAssumption, ArchiveTypeOK, Work, Meta, SetsInv, RowsHaveFiles,
     DocumentsAreComplete, Owned, PlaceInv, Whole
<1> QED
  BY <1>1, <1>2, <1>3, <1>4

LEMMA AdmitStep ==
  ASSUME ArchiveAssumption, ArchiveIInv, Admit
  PROVE  ArchiveIInv' /\ ArchivedStays
<1> USE DEF ArchiveIInv, Admit, Proceeds, Step, Present, Admissible, records, directory
<1>1. ArchiveTypeOK'
  BY DEF ArchiveAssumption, ArchiveTypeOK, Work, Places, Sequels, Meta
<1>2. SetsInv' /\ ArchivedStays
  BY DEF ArchiveAssumption, ArchiveTypeOK, Work, SetsInv, RowsHaveFiles,
     DocumentsAreComplete, ArchivedStays, Owned, PlaceInv, Whole
<1>3. CountersExact'
  BY ArchiveCounts DEF ArchiveAssumption, ArchiveTypeOK, Meta, CountersExact
<1>4. PlaceInv'
  BY DEF ArchiveAssumption, ArchiveTypeOK, Work, Meta, SetsInv, RowsHaveFiles,
     DocumentsAreComplete, Owned, PlaceInv, Whole
<1> QED
  BY <1>1, <1>2, <1>3, <1>4

LEMMA RefuseStep ==
  ASSUME ArchiveAssumption, ArchiveIInv, Refuse
  PROVE  ArchiveIInv' /\ ArchivedStays
<1> USE DEF ArchiveIInv, Refuse, Idle, Leaves, records, directory
<1>1. ArchiveTypeOK'
  BY DEF ArchiveAssumption, ArchiveTypeOK, Work, Places, Sequels, Meta
<1>2. SetsInv' /\ ArchivedStays
  BY DEF ArchiveAssumption, ArchiveTypeOK, Work, SetsInv, RowsHaveFiles,
     DocumentsAreComplete, ArchivedStays, Owned, PlaceInv, Whole
<1>3. CountersExact'
  BY ArchiveCounts DEF ArchiveAssumption, ArchiveTypeOK, Meta, CountersExact
<1>4. PlaceInv'
  BY DEF ArchiveAssumption, ArchiveTypeOK, Work, Meta, SetsInv, RowsHaveFiles,
     DocumentsAreComplete, Owned, PlaceInv, Whole
<1> QED
  BY <1>1, <1>2, <1>3, <1>4

LEMMA OpenBatchStep ==
  ASSUME ArchiveAssumption, ArchiveIInv, OpenBatch
  PROVE  ArchiveIInv' /\ ArchivedStays
<1> USE DEF ArchiveIInv, OpenBatch, Proceeds, Step, SetDirty, records, directory
<1>1. ArchiveTypeOK'
  BY DEF ArchiveAssumption, ArchiveTypeOK, Work, Places, Sequels, Meta
<1>2. SetsInv' /\ ArchivedStays
  BY DEF ArchiveAssumption, ArchiveTypeOK, Work, SetsInv, RowsHaveFiles,
     DocumentsAreComplete, ArchivedStays, Owned, PlaceInv, Whole
<1>3. CountersExact'
  BY ArchiveCounts DEF ArchiveAssumption, ArchiveTypeOK, Meta, CountersExact
<1>4. PlaceInv'
  BY DEF ArchiveAssumption, ArchiveTypeOK, Work, Meta, SetsInv, RowsHaveFiles,
     DocumentsAreComplete, Owned, PlaceInv, Whole
<1> QED
  BY <1>1, <1>2, <1>3, <1>4

LEMMA KeepStep ==
  ASSUME ArchiveAssumption, ArchiveIInv, NEW c \in Contents, Keep(c)
  PROVE  ArchiveIInv' /\ ArchivedStays
<1> USE DEF ArchiveIInv, Keep, records, directory
<1>1. ArchiveTypeOK'
  BY DEF ArchiveAssumption, ArchiveTypeOK, Work, Places, Sequels, Meta
<1>2. SetsInv' /\ ArchivedStays
  BY DEF ArchiveAssumption, ArchiveTypeOK, Work, SetsInv, RowsHaveFiles,
     DocumentsAreComplete, ArchivedStays, Owned, PlaceInv, Whole
<1>3. CountersExact'
  BY ArchiveCounts DEF ArchiveAssumption, ArchiveTypeOK, Meta, CountersExact
<1>4. PlaceInv'
  BY DEF ArchiveAssumption, ArchiveTypeOK, Work, Meta, SetsInv, RowsHaveFiles,
     DocumentsAreComplete, Owned, PlaceInv, Whole
<1> QED
  BY <1>1, <1>2, <1>3, <1>4

LEMMA AdoptStep ==
  ASSUME ArchiveAssumption, ArchiveIInv, NEW c \in Contents, Adopt(c)
  PROVE  ArchiveIInv' /\ ArchivedStays
<1> USE DEF ArchiveIInv, Adopt, Fits, Takes, records, directory
<1>1. ArchiveTypeOK'
  BY DEF ArchiveAssumption, ArchiveTypeOK, Work, Places, Sequels, Meta
<1>2. SetsInv' /\ ArchivedStays
  BY DEF ArchiveAssumption, ArchiveTypeOK, Work, SetsInv, RowsHaveFiles,
     DocumentsAreComplete, ArchivedStays, Owned, PlaceInv, Whole
<1>3. CountersExact'
  BY ArchiveCounts DEF ArchiveAssumption, ArchiveTypeOK, Meta, CountersExact
<1>4. PlaceInv'
  BY DEF ArchiveAssumption, ArchiveTypeOK, Work, Meta, SetsInv, RowsHaveFiles,
     DocumentsAreComplete, Owned, PlaceInv, Whole
<1> QED
  BY <1>1, <1>2, <1>3, <1>4

LEMMA WriteTemporaryStep ==
  ASSUME ArchiveAssumption, ArchiveIInv, NEW c \in Contents, WriteTemporary(c)
  PROVE  ArchiveIInv' /\ ArchivedStays
<1> USE DEF ArchiveIInv, WriteTemporary, Fits, Takes, records
<1>1. ArchiveTypeOK'
  BY DEF ArchiveAssumption, ArchiveTypeOK, Work, Places, Sequels, Meta
<1>2. SetsInv' /\ ArchivedStays
  BY DEF ArchiveAssumption, ArchiveTypeOK, Work, SetsInv, RowsHaveFiles,
     DocumentsAreComplete, ArchivedStays, Owned, PlaceInv, Whole
<1>3. CountersExact'
  BY ArchiveCounts DEF ArchiveAssumption, ArchiveTypeOK, Meta, CountersExact
<1>4. PlaceInv'
  BY DEF ArchiveAssumption, ArchiveTypeOK, Work, Meta, SetsInv, RowsHaveFiles,
     DocumentsAreComplete, Owned, PlaceInv, Whole
<1> QED
  BY <1>1, <1>2, <1>3, <1>4

LEMMA ReplaceStep ==
  ASSUME ArchiveAssumption, ArchiveIInv, Replace
  PROVE  ArchiveIInv' /\ ArchivedStays
<1> USE DEF ArchiveIInv, Replace, Proceeds, Step, records
<1>1. ArchiveTypeOK'
  <2>1. work.item \in Contents
    BY DEF ArchiveAssumption, ArchiveTypeOK, Work, PlaceInv
  <2>2. work' \in Work
    BY DEF ArchiveTypeOK, Work, Places
  <2> QED
    BY <2>1, <2>2 DEF ArchiveTypeOK
<1>2. SetsInv' /\ ArchivedStays
  BY DEF ArchiveAssumption, ArchiveTypeOK, Work, SetsInv, RowsHaveFiles,
     DocumentsAreComplete, ArchivedStays, Owned, PlaceInv, Whole
<1>3. CountersExact'
  BY ArchiveCounts DEF ArchiveAssumption, ArchiveTypeOK, Meta, CountersExact
<1>4. PlaceInv'
  BY DEF ArchiveAssumption, ArchiveTypeOK, Work, Meta, SetsInv, RowsHaveFiles,
     DocumentsAreComplete, Owned, PlaceInv, Whole
<1> QED
  BY <1>1, <1>2, <1>3, <1>4

LEMMA IndexStep ==
  ASSUME ArchiveAssumption, ArchiveIInv, Index
  PROVE  ArchiveIInv' /\ ArchivedStays
<1> USE DEF ArchiveIInv, Index, Fits, AddRow, directory
<1>1. ArchiveTypeOK'
  <2>1. work.item \in Contents
    BY DEF ArchiveAssumption, ArchiveTypeOK, Work, PlaceInv
  <2>2. meta' \in Meta
    BY DEF ArchiveTypeOK, Meta
  <2>3. work' \in Work
    BY DEF ArchiveTypeOK, Work, Places, Sequels
  <2> QED
    BY <2>1, <2>2, <2>3 DEF ArchiveTypeOK
<1>2. SetsInv' /\ ArchivedStays
  BY DEF ArchiveAssumption, ArchiveTypeOK, Work, SetsInv, RowsHaveFiles,
     DocumentsAreComplete, ArchivedStays, Owned, PlaceInv, Whole
<1>3. CountersExact'
  <2>1. work.item \in Contents \ objects
    BY DEF ArchiveAssumption, ArchiveTypeOK, Work, PlaceInv
  <2>2. Cardinality(objects') = Cardinality(objects) + 1
    BY <2>1, ArchiveCounts
  <2>3. meta'.stored = meta.stored + 1 /\ meta'.count = meta.count
    BY DEF ArchiveTypeOK, Meta
  <2> QED
    BY <2>2, <2>3 DEF CountersExact
<1>4. PlaceInv'
  BY DEF ArchiveAssumption, ArchiveTypeOK, Work, Meta, SetsInv, RowsHaveFiles,
     DocumentsAreComplete, Owned, PlaceInv, Whole
<1> QED
  BY <1>1, <1>2, <1>3, <1>4

LEMMA CommitDocumentStep ==
  ASSUME ArchiveAssumption, ArchiveIInv, CommitDocument
  PROVE  ArchiveIInv' /\ ArchivedStays
<1> USE DEF ArchiveIInv, CommitDocument, Proceeds, Step, Present, directory
<1>1. ArchiveTypeOK'
  BY DEF ArchiveAssumption, ArchiveTypeOK, Work, Places, Sequels, Meta
<1>2. SetsInv' /\ ArchivedStays
  BY DEF ArchiveAssumption, ArchiveTypeOK, Work, SetsInv, RowsHaveFiles,
     DocumentsAreComplete, ArchivedStays, Owned, PlaceInv, Whole
<1>3. CountersExact'
  <2>1. CASE work.doc \in documents
    BY <2>1 DEF CountersExact
  <2>2. CASE work.doc \notin documents
    <3>1. work.doc \in Docs \ documents
      BY <2>2 DEF ArchiveTypeOK, Work
    <3>2. Cardinality(documents') = Cardinality(documents) + 1 /\ Cardinality(documents) \in Nat
      BY <2>2, <3>1, ArchiveCounts
    <3>3. meta'.count = meta.count + 1 /\ meta'.stored = meta.stored
      BY <2>2 DEF ArchiveTypeOK, Meta
    <3> QED
      BY <2>2, <3>2, <3>3 DEF CountersExact, ArchiveAssumption
  <2> QED
    BY <2>1, <2>2
<1>4. PlaceInv'
  <2>1. Owned' = Owned \cup Members[work.doc]
    BY DEF Owned
  <2>2. meta.dirty /\ meta'.dirty
    BY DEF PlaceInv, ArchiveTypeOK, Meta
  <2>3. objects = Owned' /\ files = objects /\ ~ stray
    BY <2>1 DEF PlaceInv, SetsInv, RowsHaveFiles, DocumentsAreComplete
  <2>4. work'.at = "close" /\ work'.todo = work.todo /\ work'.doc = work.doc
    BY DEF ArchiveTypeOK, Work
  <2> QED
    BY <2>2, <2>3, <2>4 DEF PlaceInv, Whole
<1> QED
  BY <1>1, <1>2, <1>3, <1>4

LEMMA CloseBatchStep ==
  ASSUME ArchiveAssumption, ArchiveIInv, CloseBatch
  PROVE  ArchiveIInv' /\ ArchivedStays
<1> USE DEF ArchiveIInv, CloseBatch, Idle, ClearDirty, records, directory
<1>1. ArchiveTypeOK'
  BY DEF ArchiveAssumption, ArchiveTypeOK, Work, Places, Sequels, Meta
<1>2. SetsInv' /\ ArchivedStays
  BY DEF ArchiveAssumption, ArchiveTypeOK, Work, SetsInv, RowsHaveFiles,
     DocumentsAreComplete, ArchivedStays, Owned, PlaceInv, Whole
<1>3. CountersExact'
  BY ArchiveCounts DEF ArchiveAssumption, ArchiveTypeOK, Meta, CountersExact
<1>4. PlaceInv'
  BY DEF ArchiveAssumption, ArchiveTypeOK, Work, Meta, SetsInv, RowsHaveFiles,
     DocumentsAreComplete, Owned, PlaceInv, Whole
<1> QED
  BY <1>1, <1>2, <1>3, <1>4

LEMMA BatchFailsStep ==
  ASSUME ArchiveAssumption, ArchiveIInv, BatchFails
  PROVE  ArchiveIInv' /\ ArchivedStays
<1> USE DEF ArchiveIInv, BatchFails, Raises, records, directory
<1>1. ArchiveTypeOK'
  BY DEF ArchiveAssumption, ArchiveTypeOK, Work, Places, Sequels, Meta
<1>2. SetsInv' /\ ArchivedStays
  BY DEF ArchiveAssumption, ArchiveTypeOK, Work, SetsInv, RowsHaveFiles,
     DocumentsAreComplete, ArchivedStays, Owned, PlaceInv, Whole
<1>3. CountersExact'
  BY ArchiveCounts DEF ArchiveAssumption, ArchiveTypeOK, Meta, CountersExact
<1>4. PlaceInv'
  BY DEF ArchiveAssumption, ArchiveTypeOK, Work, Meta, SetsInv, RowsHaveFiles,
     DocumentsAreComplete, Owned, PlaceInv, Whole
<1> QED
  BY <1>1, <1>2, <1>3, <1>4

LEMMA WriteFailsStep ==
  ASSUME ArchiveAssumption, ArchiveIInv, WriteFails
  PROVE  ArchiveIInv' /\ ArchivedStays
<1> USE DEF ArchiveIInv, WriteFails, Raises, records
<1>1. ArchiveTypeOK'
  BY DEF ArchiveAssumption, ArchiveTypeOK, Work, Places, Sequels, Meta
<1>2. SetsInv' /\ ArchivedStays
  BY DEF ArchiveAssumption, ArchiveTypeOK, Work, SetsInv, RowsHaveFiles,
     DocumentsAreComplete, ArchivedStays, Owned, PlaceInv, Whole
<1>3. CountersExact'
  BY ArchiveCounts DEF ArchiveAssumption, ArchiveTypeOK, Meta, CountersExact
<1>4. PlaceInv'
  BY DEF ArchiveAssumption, ArchiveTypeOK, Work, Meta, SetsInv, RowsHaveFiles,
     DocumentsAreComplete, Owned, PlaceInv, Whole
<1> QED
  BY <1>1, <1>2, <1>3, <1>4

LEMMA IndexFailsStep ==
  ASSUME ArchiveAssumption, ArchiveIInv, IndexFails
  PROVE  ArchiveIInv' /\ ArchivedStays
<1> USE DEF ArchiveIInv, IndexFails, Raises, records
<1>1. ArchiveTypeOK'
  BY DEF ArchiveAssumption, ArchiveTypeOK, Work, Places, Sequels, Meta
<1>2. SetsInv' /\ ArchivedStays
  BY DEF ArchiveAssumption, ArchiveTypeOK, Work, SetsInv, RowsHaveFiles,
     DocumentsAreComplete, ArchivedStays, Owned, PlaceInv, Whole
<1>3. CountersExact'
  BY ArchiveCounts DEF ArchiveAssumption, ArchiveTypeOK, Meta, CountersExact
<1>4. PlaceInv'
  BY DEF ArchiveAssumption, ArchiveTypeOK, Work, Meta, SetsInv, RowsHaveFiles,
     DocumentsAreComplete, Owned, PlaceInv, Whole
<1> QED
  BY <1>1, <1>2, <1>3, <1>4

LEMMA IndexedAnywayStep ==
  ASSUME ArchiveAssumption, ArchiveIInv, IndexedAnyway
  PROVE  ArchiveIInv' /\ ArchivedStays
<1> USE DEF ArchiveIInv, IndexedAnyway, Fits, AddRow, Raises, directory
<1>1. ArchiveTypeOK'
  <2>1. work.item \in Contents
    BY DEF ArchiveAssumption, ArchiveTypeOK, Work, PlaceInv
  <2>2. meta' \in Meta
    BY DEF ArchiveTypeOK, Meta
  <2>3. work' \in Work
    BY DEF ArchiveTypeOK, Work, Places, Sequels
  <2> QED
    BY <2>1, <2>2, <2>3 DEF ArchiveTypeOK
<1>2. SetsInv' /\ ArchivedStays
  BY DEF ArchiveAssumption, ArchiveTypeOK, Work, SetsInv, RowsHaveFiles,
     DocumentsAreComplete, ArchivedStays, Owned, PlaceInv, Whole
<1>3. CountersExact'
  <2>1. work.item \in Contents \ objects
    BY DEF ArchiveAssumption, ArchiveTypeOK, Work, PlaceInv
  <2>2. Cardinality(objects') = Cardinality(objects) + 1
    BY <2>1, ArchiveCounts
  <2>3. meta'.stored = meta.stored + 1 /\ meta'.count = meta.count
    BY DEF ArchiveTypeOK, Meta
  <2> QED
    BY <2>2, <2>3 DEF CountersExact
<1>4. PlaceInv'
  BY DEF ArchiveAssumption, ArchiveTypeOK, Work, Meta, SetsInv, RowsHaveFiles,
     DocumentsAreComplete, Owned, PlaceInv, Whole
<1> QED
  BY <1>1, <1>2, <1>3, <1>4

LEMMA ArchiveCrashStep ==
  ASSUME ArchiveAssumption, ArchiveIInv, NEW p \in Gateways, ArchiveCrash(p)
  PROVE  ArchiveIInv' /\ ArchivedStays
<1> USE DEF ArchiveIInv, ArchiveCrash, Idle, records, directory
<1>1. ArchiveTypeOK'
  BY DEF ArchiveAssumption, ArchiveTypeOK, Work, Places, Sequels, Meta
<1>2. SetsInv' /\ ArchivedStays
  BY DEF ArchiveAssumption, ArchiveTypeOK, Work, SetsInv, RowsHaveFiles,
     DocumentsAreComplete, ArchivedStays, Owned, PlaceInv, Whole
<1>3. CountersExact'
  BY ArchiveCounts DEF ArchiveAssumption, ArchiveTypeOK, Meta, CountersExact
<1>4. PlaceInv'
  BY DEF ArchiveAssumption, ArchiveTypeOK, Work, Meta, SetsInv, RowsHaveFiles,
     DocumentsAreComplete, Owned, PlaceInv, Whole
<1> QED
  BY <1>1, <1>2, <1>3, <1>4

LEMMA ArchiveStart == ASSUME ArchiveAssumption, ArchiveInit PROVE ArchiveIInv
<1> USE DEF ArchiveAssumption, ArchiveInit, Idle
<1>0. PICK d \in Docs : Idle = [at |-> "idle", doc |-> d, todo |-> {},
                               item |-> NoOne, next |-> "start"]
  <2>1. (CHOOSE d \in Docs : TRUE) \in Docs
    BY Zenon
  <2> QED
    BY <2>1, Zenon
<1>1. ArchiveTypeOK
  <2>1. work \in Work
    BY <1>0, SMT DEF Work, Places, Sequels
  <2>2. meta \in Meta
    BY DEF Meta
  <2> HIDE DEF Idle
  <2> QED
    BY <2>1, <2>2 DEF ArchiveTypeOK
<1>2. SetsInv
  BY DEF SetsInv, RowsHaveFiles, DocumentsAreComplete, Owned
<1>3. CountersExact
  BY FS_EmptySet DEF CountersExact
<1>4. PlaceInv
  BY DEF PlaceInv, Whole, Owned
<1> QED
  BY <1>1, <1>2, <1>3, <1>4 DEF ArchiveIInv

LEMMA ArchiveStep ==
  ASSUME ArchiveAssumption, ArchiveIInv, [ArchiveNext]_archiveVars
  PROVE  ArchiveIInv' /\ [ArchivedStays]_archiveVars
<1>1. CASE UNCHANGED archiveVars
  BY <1>1
     DEF archiveVars, records, directory, control, ArchiveIInv, ArchiveTypeOK, SetsInv,
         RowsHaveFiles, DocumentsAreComplete, CountersExact, PlaceInv, Whole, Owned
<1>2. ASSUME NEW p \in Gateways, Start(p) PROVE ArchiveIInv' /\ ArchivedStays
  BY <1>2, StartStep
<1>3. CASE MarkDirty
  BY <1>3, MarkDirtyStep
<1>4. CASE DropOrphans
  BY <1>4, DropOrphansStep
<1>5. CASE UnlinkOne
  BY <1>5, UnlinkOneStep
<1>6. CASE CheckObjects
  BY <1>6, CheckObjectsStep
<1>7. CASE Recovered
  BY <1>7, RecoveredStep
<1>8. CASE RecoveryFails
  BY <1>8, RecoveryFailsStep
<1>9. ASSUME NEW p \in Gateways, NEW d \in Docs,
             Enter(p, d) PROVE ArchiveIInv' /\ ArchivedStays
  BY <1>9, EnterStep
<1>10. CASE Admit
  BY <1>10, AdmitStep
<1>11. CASE Refuse
  BY <1>11, RefuseStep
<1>12. CASE OpenBatch
  BY <1>12, OpenBatchStep
<1>13. ASSUME NEW c \in Contents, Keep(c) PROVE ArchiveIInv' /\ ArchivedStays
  BY <1>13, KeepStep
<1>14. ASSUME NEW c \in Contents, Adopt(c) PROVE ArchiveIInv' /\ ArchivedStays
  BY <1>14, AdoptStep
<1>15. ASSUME NEW c \in Contents, WriteTemporary(c) PROVE ArchiveIInv' /\ ArchivedStays
  BY <1>15, WriteTemporaryStep
<1>16. CASE Replace
  BY <1>16, ReplaceStep
<1>17. CASE Index
  BY <1>17, IndexStep
<1>18. CASE CommitDocument
  BY <1>18, CommitDocumentStep
<1>19. CASE CloseBatch
  BY <1>19, CloseBatchStep
<1>20. CASE BatchFails
  BY <1>20, BatchFailsStep
<1>21. CASE WriteFails
  BY <1>21, WriteFailsStep
<1>22. CASE IndexFails
  BY <1>22, IndexFailsStep
<1>23. CASE IndexedAnyway
  BY <1>23, IndexedAnywayStep
<1>24. ASSUME NEW p \in Gateways, ArchiveCrash(p) PROVE ArchiveIInv' /\ ArchivedStays
  BY <1>24, ArchiveCrashStep
<1> QED
  BY <1>1, <1>2, <1>3, <1>4, <1>5, <1>6, <1>7, <1>8, <1>9, <1>10, <1>11, <1>12, <1>13,
     <1>14, <1>15, <1>16, <1>17, <1>18, <1>19, <1>20, <1>21, <1>22, <1>23, <1>24
     DEF ArchiveNext

\* Whatever fails or dies in a batch or in a recovery, for any documents that
\* share contents: a row has its file, a document on record is complete, the
\* counters are exact and within their limits, and a clear flag may be trusted.
THEOREM ArchiveCorrect == ASSUME ArchiveAssumption PROVE ArchiveSpec => []ArchiveInv
<1>1. ArchiveInit => ArchiveIInv
  BY ArchiveStart
<1>2. ArchiveIInv /\ [ArchiveNext]_archiveVars => ArchiveIInv'
  BY ArchiveStep
<1>3. ArchiveIInv => ArchiveInv
  BY DEF ArchiveIInv, ArchiveInv, SetsInv, PlaceInv, Whole, CleanIsClean
<1> QED
  BY <1>1, <1>2, <1>3, PTL DEF ArchiveSpec

\* A document that was archived stays, and so do its bytes.
THEOREM ArchiveKeeps == ASSUME ArchiveAssumption PROVE ArchiveSpec => [][ArchivedStays]_archiveVars
<1>1. ArchiveInit => ArchiveIInv
  BY ArchiveStart
<1>2. ArchiveIInv /\ [ArchiveNext]_archiveVars => ArchiveIInv' /\ [ArchivedStays]_archiveVars
  BY ArchiveStep
<1> QED
  BY <1>1, <1>2, PTL DEF ArchiveSpec

-----------------------------------------------------------------------------

(***************************************************************************)
(* The polls of one video (VideoPolls).                                    *)
(***************************************************************************)
\* The places of a poll that has the token of its asset.
Working == {"describe", "recover", "download", "staged", "pending", "moved",
            "attach", "finalize", "commit"}

\* The places of a poll that has staged nothing that the store knows of.
Fresh == {"none", "provider", "describe", "recover", "download", "staged"}

\* The row: it has a fence and a token only after the order and before its end,
\* and before the token nothing of the video is anywhere.
RowInv ==
  /\ ~ row.ordered => row.fence = 0 /\ ~ row.token /\ row.terminal = "none"
  /\ row.terminal # "none" => row.fence = 0 /\ ~ row.token
  /\ row.terminal # "asset" => row.answer = 0
  /\ ~ row.token /\ row.terminal # "asset" =>
       asset = 0 /\ pending = 0 /\ row.attached = 0

\* The store: one download is registered or in motion, never both.
StoreInv ==
  /\ asset # 0 => pending = 0
  /\ overtaken \in {0, asset}

\* The polls: who works with the token has it on record, who works with a
\* description has the one of the asset, who has the fence and still asks the
\* provider finds no token, and who cleans up does so after a failure.
StagesInv ==
  \A n \in Downloads :
    /\ stages[n].at \in Working => row.token \/ row.terminal = "asset"
    /\ stages[n].at = "provider" /\ row.fence = n => ~ row.token
    /\ stages[n].at \in Fresh => pending # n /\ asset # n
    /\ stages[n].doc \in {0, asset}
    /\ stages[n].at \in {"attach", "finalize", "commit"} =>
         stages[n].doc = asset /\ asset # 0
    /\ stages[n].at = "commit" => mirror = "committed"
    /\ stages[n].at \in {"clean", "cleaned"} => row.terminal = "failed"
    /\ stages[n].at = "cleaned" => mirror = "none"
    /\ n > polls => stages[n].at = "none"

PollIInv == PollInv /\ RowInv /\ StoreInv /\ StagesInv

\* What the ends of a poll write keeps the type of the row.
LEMMA RowForms ==
  ASSUME PollsAssumption, NEW r \in VideoRow
  PROVE  /\ [r EXCEPT !.fence = 0, !.lease = FALSE, !.wait = TRUE] \in VideoRow
         /\ [r EXCEPT !.fence = 0, !.lease = FALSE, !.terminal = "failed"] \in VideoRow
         /\ [r EXCEPT !.fence = 0, !.lease = FALSE, !.token = FALSE, !.attached = 0,
                      !.terminal = "asset", !.answer = r.attached] \in VideoRow
<1>1. 0 \in Ids
  BY DEF PollsAssumption, Ids
<1>2. [r EXCEPT !.fence = 0, !.lease = FALSE, !.wait = TRUE] \in VideoRow
  BY <1>1 DEF VideoRow
<1>3. [r EXCEPT !.fence = 0, !.lease = FALSE, !.terminal = "failed"] \in VideoRow
  BY <1>1 DEF VideoRow
<1>5. [r EXCEPT !.fence = 0, !.lease = FALSE, !.token = FALSE, !.attached = 0,
             !.terminal = "asset", !.answer = r.attached] \in VideoRow
  <2>1. r.attached \in Ids
    BY DEF VideoRow
  <2> QED
    BY <1>1, <2>1, ZenonT(60) DEF VideoRow
<1> QED
  BY <1>2, <1>3, <1>5

LEMMA OrderPoll ==
  ASSUME PollsAssumption, PollIInv, Order
  PROVE  PollIInv' /\ EndIsFinal
<1> USE DEF PollsAssumption, Downloads, Ids, PollIInv, PollInv, envelope,
           store, VideoRow, Stage, Order
<1>1. CASE row' = [row EXCEPT !.ordered = TRUE]
  <2>1. PollsTypeOK'
    <3>1. row' \in VideoRow
      BY <1>1 DEF PollsTypeOK
    <3> QED
      BY <1>1, <3>1 DEF PollsTypeOK
  <2>2. AnswerIsTheAsset'
    BY <1>1 DEF PollsTypeOK, AnswerIsTheAsset, RowInv, StoreInv, StagesInv,
       Working, FailedIsEmpty
  <2>3. FailedIsEmpty'
    BY <1>1 DEF PollsTypeOK, FailedIsEmpty, AnswerIsTheAsset, RowInv, StoreInv,
       StagesInv, Working
  <2>4. RowInv'
    BY <1>1 DEF PollsTypeOK, RowInv, StoreInv, StagesInv, Working,
       AnswerIsTheAsset, FailedIsEmpty
  <2>5. StagesInv'
    BY <1>1 DEF PollsTypeOK, StagesInv, RowInv, StoreInv, Working, Fresh,
       AnswerIsTheAsset, FailedIsEmpty
  <2>6. EndIsFinal
    BY <1>1 DEF PollsTypeOK, EndIsFinal, RowInv, StoreInv, StagesInv, Working
  <2>7. VideoHasBytes' /\ StoreInv'
    BY <1>1 DEF VideoHasBytes, StoreInv
  <2> QED
    BY <2>1, <2>2, <2>3, <2>4, <2>5, <2>6, <2>7 DEF PollIInv, PollInv
<1>2. CASE row' = [row EXCEPT !.ordered = TRUE, !.token = TRUE]
  <2>1. PollsTypeOK'
    <3>1. row' \in VideoRow
      BY <1>2 DEF PollsTypeOK
    <3> QED
      BY <1>2, <3>1 DEF PollsTypeOK
  <2>2. AnswerIsTheAsset'
    BY <1>2 DEF PollsTypeOK, AnswerIsTheAsset, RowInv, StoreInv, StagesInv,
       Working, FailedIsEmpty
  <2>3. FailedIsEmpty'
    BY <1>2 DEF PollsTypeOK, FailedIsEmpty, AnswerIsTheAsset, RowInv, StoreInv,
       StagesInv, Working
  <2>4. RowInv'
    BY <1>2 DEF PollsTypeOK, RowInv, StoreInv, StagesInv, Working,
       AnswerIsTheAsset, FailedIsEmpty
  <2>5. StagesInv'
    BY <1>2 DEF PollsTypeOK, StagesInv, RowInv, StoreInv, Working, Fresh,
       AnswerIsTheAsset, FailedIsEmpty
  <2>6. EndIsFinal
    BY <1>2 DEF PollsTypeOK, EndIsFinal, RowInv, StoreInv, StagesInv, Working
  <2>7. VideoHasBytes' /\ StoreInv'
    BY <1>2 DEF VideoHasBytes, StoreInv
  <2> QED
    BY <2>1, <2>2, <2>3, <2>4, <2>5, <2>6, <2>7 DEF PollIInv, PollInv
<1>3. CASE row' = [row EXCEPT !.ordered = TRUE, !.terminal = "failed"]
  <2>1. PollsTypeOK'
    <3>1. row' \in VideoRow
      BY <1>3 DEF PollsTypeOK
    <3> QED
      BY <1>3, <3>1 DEF PollsTypeOK
  <2>2. AnswerIsTheAsset'
    BY <1>3 DEF PollsTypeOK, AnswerIsTheAsset, RowInv, StoreInv, StagesInv,
       Working, FailedIsEmpty
  <2>3. FailedIsEmpty'
    BY <1>3 DEF PollsTypeOK, FailedIsEmpty, AnswerIsTheAsset, RowInv, StoreInv,
       StagesInv, Working
  <2>4. RowInv'
    BY <1>3 DEF PollsTypeOK, RowInv, StoreInv, StagesInv, Working,
       AnswerIsTheAsset, FailedIsEmpty
  <2>5. StagesInv'
    BY <1>3 DEF PollsTypeOK, StagesInv, RowInv, StoreInv, Working, Fresh,
       AnswerIsTheAsset, FailedIsEmpty
  <2>6. EndIsFinal
    BY <1>3 DEF PollsTypeOK, EndIsFinal, RowInv, StoreInv, StagesInv, Working
  <2>7. VideoHasBytes' /\ StoreInv'
    BY <1>3 DEF VideoHasBytes, StoreInv
  <2> QED
    BY <2>1, <2>2, <2>3, <2>4, <2>5, <2>6, <2>7 DEF PollIInv, PollInv
<1> QED
  BY <1>1, <1>2, <1>3

LEMMA BeginPollPoll ==
  ASSUME PollsAssumption, PollIInv, BeginPoll
  PROVE  PollIInv' /\ EndIsFinal
<1> USE DEF PollsAssumption, Downloads, Ids, PollIInv, PollInv, envelope,
           store, VideoRow, Stage, BeginPoll, Claimable, Begins
<1>1. PollsTypeOK'
  <2>1. polls' \in Ids
    BY DEF PollsTypeOK
  <2>2. row' \in VideoRow
    BY <2>1 DEF PollsTypeOK
  <2>3. stages' \in [Downloads -> Stage]
    BY DEF PollsTypeOK, PollPlaces
  <2> QED
    BY <2>1, <2>2, <2>3 DEF PollsTypeOK
<1>2. AnswerIsTheAsset'
  BY DEF PollsTypeOK, AnswerIsTheAsset, RowInv, StoreInv, StagesInv, Working,
     FailedIsEmpty
<1>3. FailedIsEmpty'
  BY DEF PollsTypeOK, FailedIsEmpty, AnswerIsTheAsset, RowInv, StoreInv,
     StagesInv, Working
<1>4. RowInv'
  BY DEF PollsTypeOK, RowInv, StoreInv, StagesInv, Working, AnswerIsTheAsset,
     FailedIsEmpty
<1>5. StagesInv'
  BY DEF PollsTypeOK, StagesInv, RowInv, StoreInv, Working, Fresh,
     AnswerIsTheAsset, FailedIsEmpty
<1>6. EndIsFinal
  BY DEF PollsTypeOK, EndIsFinal, RowInv, StoreInv, StagesInv, Working
<1>7. VideoHasBytes' /\ StoreInv'
  BY DEF VideoHasBytes, StoreInv
<1> QED
  BY <1>1, <1>2, <1>3, <1>4, <1>5, <1>6, <1>7 DEF PollIInv, PollInv

LEMMA ReconcileExpiredPoll ==
  ASSUME PollsAssumption, PollIInv, ReconcileExpired
  PROVE  PollIInv' /\ EndIsFinal
<1> USE DEF PollsAssumption, Downloads, Ids, PollIInv, PollInv, envelope,
           store, VideoRow, Stage, ReconcileExpired
<1>1. CASE pending' = 0 /\ lapsed' = FALSE
  <2>1. PollsTypeOK'
    <3>1. disk' \in [Downloads -> {"none", "staged", "object"}]
      BY <1>1 DEF PollsTypeOK
    <3>2. asset' \in Ids /\ pending' \in Ids
      BY <1>1 DEF PollsTypeOK
    <3> QED
      BY <1>1, <3>1, <3>2 DEF PollsTypeOK
  <2>2. VideoHasBytes'
    BY <1>1 DEF PollsTypeOK, VideoHasBytes, StagesInv, StoreInv, Fresh
  <2>3. AnswerIsTheAsset'
    BY <1>1 DEF PollsTypeOK, AnswerIsTheAsset, RowInv, StoreInv, StagesInv,
       Working, FailedIsEmpty
  <2>4. FailedIsEmpty'
    BY <1>1 DEF PollsTypeOK, FailedIsEmpty, AnswerIsTheAsset, RowInv, StoreInv,
       StagesInv, Working
  <2>5. RowInv'
    BY <1>1 DEF PollsTypeOK, RowInv, StoreInv, StagesInv, Working,
       AnswerIsTheAsset, FailedIsEmpty
  <2>6. StoreInv'
    BY <1>1 DEF PollsTypeOK, StoreInv, RowInv, StagesInv, Working,
       AnswerIsTheAsset
  <2>7. StagesInv'
    BY <1>1 DEF PollsTypeOK, StagesInv, RowInv, StoreInv, Working, Fresh,
       AnswerIsTheAsset, FailedIsEmpty
  <2>8. EndIsFinal
    BY <1>1 DEF EndIsFinal
  <2> QED
    BY <2>1, <2>2, <2>3, <2>4, <2>5, <2>6, <2>7, <2>8 DEF PollIInv, PollInv
<1>2. CASE UNCHANGED <<pending, lapsed>>
  <2>1. PollsTypeOK'
    <3>1. disk' \in [Downloads -> {"none", "staged", "object"}]
      BY <1>2 DEF PollsTypeOK
    <3>2. asset' \in Ids /\ pending' \in Ids
      BY <1>2 DEF PollsTypeOK
    <3> QED
      BY <1>2, <3>1, <3>2 DEF PollsTypeOK
  <2>2. VideoHasBytes'
    BY <1>2 DEF PollsTypeOK, VideoHasBytes, StagesInv, StoreInv, Fresh
  <2>3. AnswerIsTheAsset'
    BY <1>2 DEF PollsTypeOK, AnswerIsTheAsset, RowInv, StoreInv, StagesInv,
       Working, FailedIsEmpty
  <2>4. FailedIsEmpty'
    BY <1>2 DEF PollsTypeOK, FailedIsEmpty, AnswerIsTheAsset, RowInv, StoreInv,
       StagesInv, Working
  <2>5. RowInv'
    BY <1>2 DEF PollsTypeOK, RowInv, StoreInv, StagesInv, Working,
       AnswerIsTheAsset, FailedIsEmpty
  <2>6. StoreInv'
    BY <1>2 DEF PollsTypeOK, StoreInv, RowInv, StagesInv, Working,
       AnswerIsTheAsset
  <2>7. StagesInv'
    BY <1>2 DEF PollsTypeOK, StagesInv, RowInv, StoreInv, Working, Fresh,
       AnswerIsTheAsset, FailedIsEmpty
  <2>8. EndIsFinal
    BY <1>2 DEF EndIsFinal
  <2> QED
    BY <2>1, <2>2, <2>3, <2>4, <2>5, <2>6, <2>7, <2>8 DEF PollIInv, PollInv
<1> QED
  BY <1>1, <1>2

LEMMA PollFailedPoll ==
  ASSUME PollsAssumption, PollIInv, PollFailed
  PROVE  PollIInv' /\ EndIsFinal
<1> USE DEF PollsAssumption, Downloads, Ids, PollIInv, PollInv, envelope,
           store, VideoRow, Stage, PollFailed, Begins
<1>1. PollsTypeOK'
  BY DEF PollsTypeOK, PollPlaces
<1>2. StagesInv'
  BY DEF PollsTypeOK, StagesInv, RowInv, StoreInv, Working, Fresh,
     AnswerIsTheAsset, FailedIsEmpty
<1>3. VideoHasBytes' /\ AnswerIsTheAsset' /\ FailedIsEmpty' /\ RowInv' /\
           StoreInv' /\ EndIsFinal
  BY DEF VideoHasBytes, AnswerIsTheAsset, FailedIsEmpty, RowInv, StoreInv,
     EndIsFinal
<1> QED
  BY <1>1, <1>2, <1>3 DEF PollIInv, PollInv

LEMMA PollLeaseEndsPoll ==
  ASSUME PollsAssumption, PollIInv, PollLeaseEnds
  PROVE  PollIInv' /\ EndIsFinal
<1> USE DEF PollsAssumption, Downloads, Ids, PollIInv, PollInv, envelope,
           store, VideoRow, Stage, PollLeaseEnds
<1>1. PollsTypeOK'
  BY DEF PollsTypeOK
<1>2. AnswerIsTheAsset'
  BY DEF PollsTypeOK, AnswerIsTheAsset, RowInv, StoreInv, StagesInv, Working,
     FailedIsEmpty
<1>3. FailedIsEmpty'
  BY DEF PollsTypeOK, FailedIsEmpty, AnswerIsTheAsset, RowInv, StoreInv,
     StagesInv, Working
<1>4. RowInv'
  BY DEF PollsTypeOK, RowInv, StoreInv, StagesInv, Working, AnswerIsTheAsset,
     FailedIsEmpty
<1>5. StagesInv'
  BY DEF PollsTypeOK, StagesInv, RowInv, StoreInv, Working, Fresh,
     AnswerIsTheAsset, FailedIsEmpty
<1>6. EndIsFinal
  BY DEF PollsTypeOK, EndIsFinal, RowInv, StoreInv, StagesInv, Working
<1>7. VideoHasBytes' /\ StoreInv'
  BY DEF VideoHasBytes, StoreInv
<1> QED
  BY <1>1, <1>2, <1>3, <1>4, <1>5, <1>6, <1>7 DEF PollIInv, PollInv

LEMMA WaitEndsPoll ==
  ASSUME PollsAssumption, PollIInv, WaitEnds
  PROVE  PollIInv' /\ EndIsFinal
<1> USE DEF PollsAssumption, Downloads, Ids, PollIInv, PollInv, envelope,
           store, VideoRow, Stage, WaitEnds
<1>1. PollsTypeOK'
  BY DEF PollsTypeOK
<1>2. AnswerIsTheAsset'
  BY DEF PollsTypeOK, AnswerIsTheAsset, RowInv, StoreInv, StagesInv, Working,
     FailedIsEmpty
<1>3. FailedIsEmpty'
  BY DEF PollsTypeOK, FailedIsEmpty, AnswerIsTheAsset, RowInv, StoreInv,
     StagesInv, Working
<1>4. RowInv'
  BY DEF PollsTypeOK, RowInv, StoreInv, StagesInv, Working, AnswerIsTheAsset,
     FailedIsEmpty
<1>5. StagesInv'
  BY DEF PollsTypeOK, StagesInv, RowInv, StoreInv, Working, Fresh,
     AnswerIsTheAsset, FailedIsEmpty
<1>6. EndIsFinal
  BY DEF PollsTypeOK, EndIsFinal, RowInv, StoreInv, StagesInv, Working
<1>7. VideoHasBytes' /\ StoreInv'
  BY DEF VideoHasBytes, StoreInv
<1> QED
  BY <1>1, <1>2, <1>3, <1>4, <1>5, <1>6, <1>7 DEF PollIInv, PollInv

LEMMA PendingLapsesPoll ==
  ASSUME PollsAssumption, PollIInv, PendingLapses
  PROVE  PollIInv' /\ EndIsFinal
<1> USE DEF PollsAssumption, Downloads, Ids, PollIInv, PollInv, envelope,
           store, VideoRow, Stage, PendingLapses
<1>1. PollsTypeOK'
  BY DEF PollsTypeOK
<1>2. VideoHasBytes' /\ AnswerIsTheAsset' /\ FailedIsEmpty' /\ RowInv' /\
           StoreInv' /\ StagesInv' /\ EndIsFinal
  BY DEF VideoHasBytes, AnswerIsTheAsset, FailedIsEmpty, RowInv, StoreInv,
     StagesInv, EndIsFinal
<1> QED
  BY <1>1, <1>2 DEF PollIInv, PollInv

LEMMA PreparePoll ==
  ASSUME PollsAssumption, PollIInv, NEW n \in Downloads, Prepare(n)
  PROVE  PollIInv' /\ EndIsFinal
<1> USE DEF PollsAssumption, Downloads, Ids, PollIInv, PollInv, envelope,
           store, VideoRow, Stage, Prepare, At, HasFence, Goes
<1>1. PollsTypeOK'
  <2>1. row' \in VideoRow
    BY DEF PollsTypeOK
  <2>2. stages' \in [Downloads -> Stage]
    BY DEF PollsTypeOK, PollPlaces
  <2> QED
    BY <2>1, <2>2 DEF PollsTypeOK
<1>2. AnswerIsTheAsset'
  BY DEF PollsTypeOK, AnswerIsTheAsset, RowInv, StoreInv, StagesInv, Working,
     FailedIsEmpty
<1>3. FailedIsEmpty'
  BY DEF PollsTypeOK, FailedIsEmpty, AnswerIsTheAsset, RowInv, StoreInv,
     StagesInv, Working
<1>4. RowInv'
  BY DEF PollsTypeOK, RowInv, StoreInv, StagesInv, Working, AnswerIsTheAsset,
     FailedIsEmpty
<1>5. StagesInv'
  BY DEF PollsTypeOK, StagesInv, RowInv, StoreInv, Working, Fresh,
     AnswerIsTheAsset, FailedIsEmpty
<1>6. EndIsFinal
  BY DEF PollsTypeOK, EndIsFinal, RowInv, StoreInv, StagesInv, Working
<1>7. VideoHasBytes' /\ StoreInv'
  BY DEF VideoHasBytes, StoreInv
<1> QED
  BY <1>1, <1>2, <1>3, <1>4, <1>5, <1>6, <1>7 DEF PollIInv, PollInv

LEMMA FinishPoll ==
  ASSUME PollsAssumption, PollIInv, NEW n \in Downloads, Finish(n)
  PROVE  PollIInv' /\ EndIsFinal
<1> USE DEF PollsAssumption, Downloads, Ids, PollIInv, PollInv, envelope,
           store, VideoRow, Stage, Finish, At, HasFence, Goes
<1>1. CASE row' = [row EXCEPT !.fence = 0, !.lease = FALSE, !.wait = TRUE] /\
           Goes(n, "end")
  <2>1. PollsTypeOK'
    <3>1. row' \in VideoRow
      <4>1. row \in VideoRow
        BY DEF PollsTypeOK
      <4> HIDE DEF PollIInv, PollInv, VideoRow, Ids
      <4> QED
        BY <1>1, <4>1, RowForms
    <3>2. stages' \in [Downloads -> Stage]
      BY <1>1 DEF PollsTypeOK, PollPlaces
    <3> QED
      BY SMTT(30), <1>1, <3>1, <3>2 DEF PollsTypeOK
  <2>2. AnswerIsTheAsset'
    BY <1>1 DEF PollsTypeOK, AnswerIsTheAsset, RowInv, StoreInv, StagesInv,
       Working, FailedIsEmpty
  <2>3. FailedIsEmpty'
    BY <1>1 DEF PollsTypeOK, FailedIsEmpty, AnswerIsTheAsset, RowInv, StoreInv,
       StagesInv, Working
  <2>4. RowInv'
    BY <1>1 DEF PollsTypeOK, RowInv, StoreInv, StagesInv, Working,
       AnswerIsTheAsset, FailedIsEmpty
  <2>5. StagesInv'
    BY <1>1 DEF PollsTypeOK, StagesInv, RowInv, StoreInv, Working, Fresh,
       AnswerIsTheAsset, FailedIsEmpty
  <2>6. EndIsFinal
    BY <1>1 DEF PollsTypeOK, EndIsFinal, RowInv, StoreInv, StagesInv, Working
  <2>7. VideoHasBytes' /\ StoreInv'
    BY <1>1 DEF VideoHasBytes, StoreInv
  <2> QED
    BY <2>1, <2>2, <2>3, <2>4, <2>5, <2>6, <2>7 DEF PollIInv, PollInv
<1>2. CASE row' = [row EXCEPT !.fence = 0, !.lease = FALSE, !.terminal = "failed"]
          /\ Goes(n, "clean")
  <2>1. PollsTypeOK'
    <3>1. row' \in VideoRow
      <4>1. row \in VideoRow
        BY DEF PollsTypeOK
      <4> HIDE DEF PollIInv, PollInv, VideoRow, Ids
      <4> QED
        BY <1>2, <4>1, RowForms
    <3>2. stages' \in [Downloads -> Stage]
      BY <1>2 DEF PollsTypeOK, PollPlaces
    <3> QED
      BY SMTT(30), <1>2, <3>1, <3>2 DEF PollsTypeOK
  <2>2. AnswerIsTheAsset'
    BY <1>2 DEF PollsTypeOK, AnswerIsTheAsset, RowInv, StoreInv, StagesInv,
       Working, FailedIsEmpty
  <2>3. FailedIsEmpty'
    BY <1>2 DEF PollsTypeOK, FailedIsEmpty, AnswerIsTheAsset, RowInv, StoreInv,
       StagesInv, Working
  <2>4. RowInv'
    BY <1>2 DEF PollsTypeOK, RowInv, StoreInv, StagesInv, Working,
       AnswerIsTheAsset, FailedIsEmpty
  <2>5. StagesInv'
    BY <1>2 DEF PollsTypeOK, StagesInv, RowInv, StoreInv, Working, Fresh,
       AnswerIsTheAsset, FailedIsEmpty
  <2>6. EndIsFinal
    BY <1>2 DEF PollsTypeOK, EndIsFinal, RowInv, StoreInv, StagesInv, Working
  <2>7. VideoHasBytes' /\ StoreInv'
    BY <1>2 DEF VideoHasBytes, StoreInv
  <2> QED
    BY <2>1, <2>2, <2>3, <2>4, <2>5, <2>6, <2>7 DEF PollIInv, PollInv
<1> QED
  BY <1>1, <1>2

LEMMA AttachPoll ==
  ASSUME PollsAssumption, PollIInv, NEW n \in Downloads, Attach(n)
  PROVE  PollIInv' /\ EndIsFinal
<1> USE DEF PollsAssumption, Downloads, Ids, PollIInv, PollInv, envelope,
           store, VideoRow, Stage, Attach, At, HasFence, Goes
<1>1. PollsTypeOK'
  <2>1. row' \in VideoRow
    BY DEF PollsTypeOK
  <2>2. stages' \in [Downloads -> Stage]
    BY DEF PollsTypeOK, PollPlaces
  <2> QED
    BY <2>1, <2>2 DEF PollsTypeOK
<1>2. AnswerIsTheAsset'
  BY DEF PollsTypeOK, AnswerIsTheAsset, RowInv, StoreInv, StagesInv, Working,
     FailedIsEmpty
<1>3. FailedIsEmpty'
  BY DEF PollsTypeOK, FailedIsEmpty, AnswerIsTheAsset, RowInv, StoreInv,
     StagesInv, Working
<1>4. RowInv'
  BY DEF PollsTypeOK, RowInv, StoreInv, StagesInv, Working, AnswerIsTheAsset,
     FailedIsEmpty
<1>5. StagesInv'
  BY DEF PollsTypeOK, StagesInv, RowInv, StoreInv, Working, Fresh,
     AnswerIsTheAsset, FailedIsEmpty
<1>6. EndIsFinal
  BY DEF PollsTypeOK, EndIsFinal, RowInv, StoreInv, StagesInv, Working
<1>7. VideoHasBytes' /\ StoreInv'
  BY DEF VideoHasBytes, StoreInv
<1> QED
  BY <1>1, <1>2, <1>3, <1>4, <1>5, <1>6, <1>7 DEF PollIInv, PollInv

LEMMA CommitPoll ==
  ASSUME PollsAssumption, PollIInv, NEW n \in Downloads, Commit(n)
  PROVE  PollIInv' /\ EndIsFinal
<1> USE DEF PollsAssumption, Downloads, Ids, PollIInv, PollInv, envelope,
           store, VideoRow, Stage, Commit, At, HasFence, Goes
<1>1. PollsTypeOK'
  <2>1. row' \in VideoRow
    <3>1. row \in VideoRow
      BY DEF PollsTypeOK
    <3> HIDE DEF PollIInv, PollInv, VideoRow, Ids
    <3> QED
      BY <3>1, RowForms
  <2>2. stages' \in [Downloads -> Stage]
    BY DEF PollsTypeOK, PollPlaces
  <2> QED
    BY SMTT(30), <2>1, <2>2 DEF PollsTypeOK
<1>2. AnswerIsTheAsset'
  BY DEF PollsTypeOK, AnswerIsTheAsset, RowInv, StoreInv, StagesInv, Working,
     FailedIsEmpty
<1>3. FailedIsEmpty'
  BY DEF PollsTypeOK, FailedIsEmpty, AnswerIsTheAsset, RowInv, StoreInv,
     StagesInv, Working
<1>4. RowInv'
  BY DEF PollsTypeOK, RowInv, StoreInv, StagesInv, Working, AnswerIsTheAsset,
     FailedIsEmpty
<1>5. StagesInv'
  BY DEF PollsTypeOK, StagesInv, RowInv, StoreInv, Working, Fresh,
     AnswerIsTheAsset, FailedIsEmpty
<1>6. EndIsFinal
  BY DEF PollsTypeOK, EndIsFinal, RowInv, StoreInv, StagesInv, Working
<1>7. VideoHasBytes' /\ StoreInv'
  BY DEF VideoHasBytes, StoreInv
<1> QED
  BY <1>1, <1>2, <1>3, <1>4, <1>5, <1>6, <1>7 DEF PollIInv, PollInv

LEMMA FenceLostPoll ==
  ASSUME PollsAssumption, PollIInv, NEW n \in Downloads, FenceLost(n)
  PROVE  PollIInv' /\ EndIsFinal
<1> USE DEF PollsAssumption, Downloads, Ids, PollIInv, PollInv, envelope,
           store, VideoRow, Stage, FenceLost, At, Goes
<1>1. PollsTypeOK'
  BY ZenonT(40) DEF PollsTypeOK, PollPlaces
<1>2. StagesInv'
  BY DEF PollsTypeOK, StagesInv, RowInv, StoreInv, Working, Fresh,
     AnswerIsTheAsset, FailedIsEmpty
<1>3. VideoHasBytes' /\ AnswerIsTheAsset' /\ FailedIsEmpty' /\ RowInv' /\
           StoreInv' /\ EndIsFinal
  BY DEF VideoHasBytes, AnswerIsTheAsset, FailedIsEmpty, RowInv, StoreInv,
     EndIsFinal
<1> QED
  BY <1>1, <1>2, <1>3 DEF PollIInv, PollInv

LEMMA ReleasePoll ==
  ASSUME PollsAssumption, PollIInv, NEW n \in Downloads, Release(n)
  PROVE  PollIInv' /\ EndIsFinal
<1> USE DEF PollsAssumption, Downloads, Ids, PollIInv, PollInv, envelope,
           store, VideoRow, Stage, Release, At, Goes
<1>1. CASE row.fence = n /\ row' = [row EXCEPT !.fence = 0, !.lease = FALSE,
           !.wait = TRUE]
  <2>1. PollsTypeOK'
    <3>1. row' \in VideoRow
      <4>1. row \in VideoRow
        BY DEF PollsTypeOK
      <4> HIDE DEF PollIInv, PollInv, VideoRow, Ids
      <4> QED
        BY <1>1, <4>1, RowForms
    <3>2. stages' \in [Downloads -> Stage]
      BY <1>1 DEF PollsTypeOK, PollPlaces
    <3> QED
      BY SMTT(30), <1>1, <3>1, <3>2 DEF PollsTypeOK
  <2>2. AnswerIsTheAsset'
    BY <1>1 DEF PollsTypeOK, AnswerIsTheAsset, RowInv, StoreInv, StagesInv,
       Working, FailedIsEmpty
  <2>3. FailedIsEmpty'
    BY <1>1 DEF PollsTypeOK, FailedIsEmpty, AnswerIsTheAsset, RowInv, StoreInv,
       StagesInv, Working
  <2>4. RowInv'
    BY <1>1 DEF PollsTypeOK, RowInv, StoreInv, StagesInv, Working,
       AnswerIsTheAsset, FailedIsEmpty
  <2>5. StagesInv'
    BY <1>1 DEF PollsTypeOK, StagesInv, RowInv, StoreInv, Working, Fresh,
       AnswerIsTheAsset, FailedIsEmpty
  <2>6. EndIsFinal
    BY <1>1 DEF PollsTypeOK, EndIsFinal, RowInv, StoreInv, StagesInv, Working
  <2>7. VideoHasBytes' /\ StoreInv'
    BY <1>1 DEF VideoHasBytes, StoreInv
  <2> QED
    BY <2>1, <2>2, <2>3, <2>4, <2>5, <2>6, <2>7 DEF PollIInv, PollInv
<1>2. CASE UNCHANGED row
  <2>1. PollsTypeOK'
    <3>1. row' \in VideoRow
      <4>1. row \in VideoRow
        BY DEF PollsTypeOK
      <4> HIDE DEF PollIInv, PollInv, VideoRow, Ids
      <4> QED
        BY <1>2, <4>1, RowForms
    <3>2. stages' \in [Downloads -> Stage]
      BY ZenonT(40), <1>2 DEF PollsTypeOK, PollPlaces
    <3> QED
      BY SMTT(30), <1>2, <3>1, <3>2 DEF PollsTypeOK
  <2>2. AnswerIsTheAsset'
    BY <1>2 DEF PollsTypeOK, AnswerIsTheAsset, RowInv, StoreInv, StagesInv,
       Working, FailedIsEmpty
  <2>3. FailedIsEmpty'
    BY <1>2 DEF PollsTypeOK, FailedIsEmpty, AnswerIsTheAsset, RowInv, StoreInv,
       StagesInv, Working
  <2>4. RowInv'
    BY <1>2 DEF PollsTypeOK, RowInv, StoreInv, StagesInv, Working,
       AnswerIsTheAsset, FailedIsEmpty
  <2>5. StagesInv'
    BY <1>2 DEF PollsTypeOK, StagesInv, RowInv, StoreInv, Working, Fresh,
       AnswerIsTheAsset, FailedIsEmpty
  <2>6. EndIsFinal
    BY <1>2 DEF PollsTypeOK, EndIsFinal, RowInv, StoreInv, StagesInv, Working
  <2>7. VideoHasBytes' /\ StoreInv'
    BY <1>2 DEF VideoHasBytes, StoreInv
  <2> QED
    BY <2>1, <2>2, <2>3, <2>4, <2>5, <2>6, <2>7 DEF PollIInv, PollInv
<1> QED
  BY <1>1, <1>2

LEMMA DescribePoll ==
  ASSUME PollsAssumption, PollIInv, NEW n \in Downloads, Describe(n)
  PROVE  PollIInv' /\ EndIsFinal
<1> USE DEF PollsAssumption, Downloads, Ids, PollIInv, PollInv, envelope,
           store, VideoRow, Stage, Describe, At, Goes
<1>1. PollsTypeOK'
  BY SMTT(30) DEF PollsTypeOK, PollPlaces
<1>2. StagesInv'
  BY SMTT(30) DEF PollsTypeOK, StagesInv, RowInv, StoreInv, Working, Fresh,
     AnswerIsTheAsset, FailedIsEmpty
<1>3. VideoHasBytes' /\ AnswerIsTheAsset' /\ FailedIsEmpty' /\ RowInv' /\
           StoreInv' /\ EndIsFinal
  BY DEF VideoHasBytes, AnswerIsTheAsset, FailedIsEmpty, RowInv, StoreInv,
     EndIsFinal
<1> QED
  BY <1>1, <1>2, <1>3 DEF PollIInv, PollInv

LEMMA RecoverPoll ==
  ASSUME PollsAssumption, PollIInv, NEW n \in Downloads, Recover(n)
  PROVE  PollIInv' /\ EndIsFinal
<1> USE DEF PollsAssumption, Downloads, Ids, PollIInv, PollInv, envelope,
           store, VideoRow, Stage, Recover, At, Recoverable
<1>1. PollsTypeOK'
  <2>1. stages' \in [Downloads -> Stage]
    BY ZenonT(40) DEF PollsTypeOK, PollPlaces
  <2>2. disk' \in [Downloads -> {"none", "staged", "object"}]
    BY DEF PollsTypeOK
  <2>3. asset' \in Ids /\ pending' \in Ids
    BY DEF PollsTypeOK
  <2> QED
    BY <2>1, <2>2, <2>3 DEF PollsTypeOK
<1>2. VideoHasBytes'
  BY DEF PollsTypeOK, VideoHasBytes, StagesInv, StoreInv, Fresh
<1>3. AnswerIsTheAsset'
  BY DEF PollsTypeOK, AnswerIsTheAsset, RowInv, StoreInv, StagesInv, Working,
     FailedIsEmpty
<1>4. FailedIsEmpty'
  BY DEF PollsTypeOK, FailedIsEmpty, AnswerIsTheAsset, RowInv, StoreInv,
     StagesInv, Working
<1>5. RowInv'
  BY DEF PollsTypeOK, RowInv, StoreInv, StagesInv, Working, AnswerIsTheAsset,
     FailedIsEmpty
<1>6. StoreInv'
  BY DEF PollsTypeOK, StoreInv, RowInv, StagesInv, Working, AnswerIsTheAsset
<1>7. StagesInv'
  BY DEF PollsTypeOK, StagesInv, RowInv, StoreInv, Working, Fresh,
     AnswerIsTheAsset, FailedIsEmpty
<1>8. EndIsFinal
  BY DEF PollsTypeOK, EndIsFinal, RowInv, StoreInv, StagesInv, Working
<1> QED
  BY <1>1, <1>2, <1>3, <1>4, <1>5, <1>6, <1>7, <1>8 DEF PollIInv, PollInv

LEMMA RecoverCutPoll ==
  ASSUME PollsAssumption, PollIInv, NEW n \in Downloads, RecoverCut(n)
  PROVE  PollIInv' /\ EndIsFinal
<1> USE DEF PollsAssumption, Downloads, Ids, PollIInv, PollInv, envelope,
           store, VideoRow, Stage, RecoverCut, At, Recoverable, Goes
<1>1. PollsTypeOK'
  BY DEF PollsTypeOK, PollPlaces
<1>2. VideoHasBytes'
  BY DEF PollsTypeOK, VideoHasBytes, StagesInv, StoreInv, Fresh
<1>3. StagesInv'
  BY DEF PollsTypeOK, StagesInv, RowInv, StoreInv, Working, Fresh,
     AnswerIsTheAsset, FailedIsEmpty
<1>4. AnswerIsTheAsset' /\ FailedIsEmpty' /\ RowInv' /\ StoreInv' /\ EndIsFinal
  BY DEF AnswerIsTheAsset, FailedIsEmpty, RowInv, StoreInv, EndIsFinal
<1> QED
  BY <1>1, <1>2, <1>3, <1>4 DEF PollIInv, PollInv

LEMMA DownloadPoll ==
  ASSUME PollsAssumption, PollIInv, NEW n \in Downloads, Download(n)
  PROVE  PollIInv' /\ EndIsFinal
<1> USE DEF PollsAssumption, Downloads, Ids, PollIInv, PollInv, envelope,
           store, VideoRow, Stage, Download, At, Stageable, Goes
<1>1. PollsTypeOK'
  BY SMTT(30) DEF PollsTypeOK, PollPlaces
<1>2. VideoHasBytes'
  BY DEF PollsTypeOK, VideoHasBytes, StagesInv, StoreInv, Fresh
<1>3. StagesInv'
  BY DEF PollsTypeOK, StagesInv, RowInv, StoreInv, Working, Fresh,
     AnswerIsTheAsset, FailedIsEmpty
<1>4. AnswerIsTheAsset' /\ FailedIsEmpty' /\ RowInv' /\ StoreInv' /\ EndIsFinal
  BY DEF AnswerIsTheAsset, FailedIsEmpty, RowInv, StoreInv, EndIsFinal
<1> QED
  BY <1>1, <1>2, <1>3, <1>4 DEF PollIInv, PollInv

LEMMA InsertPendingPoll ==
  ASSUME PollsAssumption, PollIInv, NEW n \in Downloads, InsertPending(n)
  PROVE  PollIInv' /\ EndIsFinal
<1> USE DEF PollsAssumption, Downloads, Ids, PollIInv, PollInv, envelope,
           store, VideoRow, Stage, InsertPending, At, Stageable, Goes
<1>1. PollsTypeOK'
  <2>1. stages' \in [Downloads -> Stage]
    BY ZenonT(40) DEF PollsTypeOK, PollPlaces
  <2>2. asset' \in Ids /\ pending' \in Ids
    BY DEF PollsTypeOK
  <2> QED
    BY <2>1, <2>2 DEF PollsTypeOK
<1>2. AnswerIsTheAsset'
  BY DEF PollsTypeOK, AnswerIsTheAsset, RowInv, StoreInv, StagesInv, Working,
     FailedIsEmpty
<1>3. FailedIsEmpty'
  BY DEF PollsTypeOK, FailedIsEmpty, AnswerIsTheAsset, RowInv, StoreInv,
     StagesInv, Working
<1>4. RowInv'
  BY DEF PollsTypeOK, RowInv, StoreInv, StagesInv, Working, AnswerIsTheAsset,
     FailedIsEmpty
<1>5. StoreInv'
  BY DEF PollsTypeOK, StoreInv, RowInv, StagesInv, Working, AnswerIsTheAsset
<1>6. StagesInv'
  BY DEF PollsTypeOK, StagesInv, RowInv, StoreInv, Working, Fresh,
     AnswerIsTheAsset, FailedIsEmpty
<1>7. VideoHasBytes' /\ EndIsFinal
  BY DEF VideoHasBytes, EndIsFinal
<1> QED
  BY <1>1, <1>2, <1>3, <1>4, <1>5, <1>6, <1>7 DEF PollIInv, PollInv

LEMMA MovePoll ==
  ASSUME PollsAssumption, PollIInv, NEW n \in Downloads, Move(n)
  PROVE  PollIInv' /\ EndIsFinal
<1> USE DEF PollsAssumption, Downloads, Ids, PollIInv, PollInv, envelope,
           store, VideoRow, Stage, Move, At, Goes
<1>1. PollsTypeOK'
  BY SMTT(30) DEF PollsTypeOK, PollPlaces
<1>2. VideoHasBytes'
  BY DEF PollsTypeOK, VideoHasBytes, StagesInv, StoreInv, Fresh
<1>3. StagesInv'
  BY DEF PollsTypeOK, StagesInv, RowInv, StoreInv, Working, Fresh,
     AnswerIsTheAsset, FailedIsEmpty
<1>4. AnswerIsTheAsset' /\ FailedIsEmpty' /\ RowInv' /\ StoreInv' /\ EndIsFinal
  BY DEF AnswerIsTheAsset, FailedIsEmpty, RowInv, StoreInv, EndIsFinal
<1> QED
  BY <1>1, <1>2, <1>3, <1>4 DEF PollIInv, PollInv

LEMMA PromotePoll ==
  ASSUME PollsAssumption, PollIInv, NEW n \in Downloads, Promote(n)
  PROVE  PollIInv' /\ EndIsFinal
<1> USE DEF PollsAssumption, Downloads, Ids, PollIInv, PollInv, envelope,
           store, VideoRow, Stage, Promote, At, Stageable, Goes
<1>1. CASE stages' = [stages EXCEPT ![n] = [at |-> "attach", doc |-> n]]
  <2>1. PollsTypeOK'
    <3>1. stages' \in [Downloads -> Stage]
      BY <1>1 DEF PollsTypeOK, PollPlaces
    <3>2. asset' \in Ids /\ pending' \in Ids
      BY <1>1 DEF PollsTypeOK
    <3> QED
      BY <1>1, <3>1, <3>2 DEF PollsTypeOK
  <2>2. VideoHasBytes'
    BY <1>1 DEF PollsTypeOK, VideoHasBytes, StagesInv, StoreInv, Fresh
  <2>3. AnswerIsTheAsset'
    BY <1>1 DEF PollsTypeOK, AnswerIsTheAsset, RowInv, StoreInv, StagesInv,
       Working, FailedIsEmpty
  <2>4. FailedIsEmpty'
    BY <1>1 DEF PollsTypeOK, FailedIsEmpty, AnswerIsTheAsset, RowInv, StoreInv,
       StagesInv, Working
  <2>5. RowInv'
    BY <1>1 DEF PollsTypeOK, RowInv, StoreInv, StagesInv, Working,
       AnswerIsTheAsset, FailedIsEmpty
  <2>6. StoreInv'
    BY <1>1 DEF PollsTypeOK, StoreInv, RowInv, StagesInv, Working,
       AnswerIsTheAsset
  <2>7. StagesInv'
    BY <1>1 DEF PollsTypeOK, StagesInv, RowInv, StoreInv, Working, Fresh,
       AnswerIsTheAsset, FailedIsEmpty
  <2>8. EndIsFinal
    BY <1>1 DEF PollsTypeOK, EndIsFinal, RowInv, StoreInv, StagesInv, Working
  <2> QED
    BY <2>1, <2>2, <2>3, <2>4, <2>5, <2>6, <2>7, <2>8 DEF PollIInv, PollInv
<1>2. CASE Goes(n, "release")
  <2>1. PollsTypeOK'
    <3>1. stages' \in [Downloads -> Stage]
      BY <1>2 DEF PollsTypeOK, PollPlaces
    <3>2. asset' \in Ids /\ pending' \in Ids
      BY <1>2 DEF PollsTypeOK
    <3> QED
      BY <1>2, <3>1, <3>2 DEF PollsTypeOK
  <2>2. VideoHasBytes'
    BY <1>2 DEF PollsTypeOK, VideoHasBytes, StagesInv, StoreInv, Fresh
  <2>3. AnswerIsTheAsset'
    BY <1>2 DEF PollsTypeOK, AnswerIsTheAsset, RowInv, StoreInv, StagesInv,
       Working, FailedIsEmpty
  <2>4. FailedIsEmpty'
    BY <1>2 DEF PollsTypeOK, FailedIsEmpty, AnswerIsTheAsset, RowInv, StoreInv,
       StagesInv, Working
  <2>5. RowInv'
    BY <1>2 DEF PollsTypeOK, RowInv, StoreInv, StagesInv, Working,
       AnswerIsTheAsset, FailedIsEmpty
  <2>6. StoreInv'
    BY <1>2 DEF PollsTypeOK, StoreInv, RowInv, StagesInv, Working,
       AnswerIsTheAsset
  <2>7. StagesInv'
    BY <1>2 DEF PollsTypeOK, StagesInv, RowInv, StoreInv, Working, Fresh,
       AnswerIsTheAsset, FailedIsEmpty
  <2>8. EndIsFinal
    BY <1>2 DEF PollsTypeOK, EndIsFinal, RowInv, StoreInv, StagesInv, Working
  <2> QED
    BY <2>1, <2>2, <2>3, <2>4, <2>5, <2>6, <2>7, <2>8 DEF PollIInv, PollInv
<1> QED
  BY <1>1, <1>2

LEMMA PromoteFailsPoll ==
  ASSUME PollsAssumption, PollIInv, NEW n \in Downloads, PromoteFails(n)
  PROVE  PollIInv' /\ EndIsFinal
<1> USE DEF PollsAssumption, Downloads, Ids, PollIInv, PollInv, envelope,
           store, VideoRow, Stage, PromoteFails, At, Goes
<1>1. PollsTypeOK'
  BY ZenonT(40) DEF PollsTypeOK, PollPlaces
<1>2. VideoHasBytes'
  BY DEF PollsTypeOK, VideoHasBytes, StagesInv, StoreInv, Fresh
<1>3. StoreInv'
  BY DEF PollsTypeOK, StoreInv, RowInv, StagesInv, Working, AnswerIsTheAsset
<1>4. StagesInv'
  BY DEF PollsTypeOK, StagesInv, RowInv, StoreInv, Working, Fresh,
     AnswerIsTheAsset, FailedIsEmpty
<1>5. AnswerIsTheAsset' /\ FailedIsEmpty' /\ RowInv' /\ EndIsFinal
  BY DEF AnswerIsTheAsset, FailedIsEmpty, RowInv, EndIsFinal
<1> QED
  BY <1>1, <1>2, <1>3, <1>4, <1>5 DEF PollIInv, PollInv

LEMMA FinalizePoll ==
  ASSUME PollsAssumption, PollIInv, NEW n \in Downloads, Finalize(n)
  PROVE  PollIInv' /\ EndIsFinal
<1> USE DEF PollsAssumption, Downloads, Ids, PollIInv, PollInv, envelope,
           store, VideoRow, Stage, Finalize, At, Goes
<1>1. PollsTypeOK'
  BY DEF PollsTypeOK, PollPlaces
<1>2. AnswerIsTheAsset'
  BY DEF PollsTypeOK, AnswerIsTheAsset, RowInv, StoreInv, StagesInv, Working,
     FailedIsEmpty
<1>3. FailedIsEmpty'
  BY DEF PollsTypeOK, FailedIsEmpty, AnswerIsTheAsset, RowInv, StoreInv,
     StagesInv, Working
<1>4. StagesInv'
  BY DEF PollsTypeOK, StagesInv, RowInv, StoreInv, Working, Fresh,
     AnswerIsTheAsset, FailedIsEmpty
<1>5. VideoHasBytes' /\ RowInv' /\ StoreInv' /\ EndIsFinal
  BY DEF VideoHasBytes, RowInv, StoreInv, EndIsFinal
<1> QED
  BY <1>1, <1>2, <1>3, <1>4, <1>5 DEF PollIInv, PollInv

LEMMA FailsPoll ==
  ASSUME PollsAssumption, PollIInv, NEW n \in Downloads, Fails(n)
  PROVE  PollIInv' /\ EndIsFinal
<1> USE DEF PollsAssumption, Downloads, Ids, PollIInv, PollInv, envelope,
           store, VideoRow, Stage, Fails, At, Goes
<1>1. PollsTypeOK'
  BY SMTT(30) DEF PollsTypeOK, PollPlaces
<1>2. VideoHasBytes'
  BY DEF PollsTypeOK, VideoHasBytes, StagesInv, StoreInv, Fresh
<1>3. StagesInv'
  BY DEF PollsTypeOK, StagesInv, RowInv, StoreInv, Working, Fresh,
     AnswerIsTheAsset, FailedIsEmpty
<1>4. AnswerIsTheAsset' /\ FailedIsEmpty' /\ RowInv' /\ StoreInv' /\ EndIsFinal
  BY DEF AnswerIsTheAsset, FailedIsEmpty, RowInv, StoreInv, EndIsFinal
<1> QED
  BY <1>1, <1>2, <1>3, <1>4 DEF PollIInv, PollInv

LEMMA CleanMirrorPoll ==
  ASSUME PollsAssumption, PollIInv, NEW n \in Downloads, CleanMirror(n)
  PROVE  PollIInv' /\ EndIsFinal
<1> USE DEF PollsAssumption, Downloads, Ids, PollIInv, PollInv, envelope,
           store, VideoRow, Stage, CleanMirror, At, Goes
<1>1. PollsTypeOK'
  BY ZenonT(40) DEF PollsTypeOK, PollPlaces
<1>2. AnswerIsTheAsset'
  BY DEF PollsTypeOK, AnswerIsTheAsset, RowInv, StoreInv, StagesInv, Working,
     FailedIsEmpty
<1>3. FailedIsEmpty'
  BY DEF PollsTypeOK, FailedIsEmpty, AnswerIsTheAsset, RowInv, StoreInv,
     StagesInv, Working
<1>4. StagesInv'
  BY DEF PollsTypeOK, StagesInv, RowInv, StoreInv, Working, Fresh,
     AnswerIsTheAsset, FailedIsEmpty
<1>5. VideoHasBytes' /\ RowInv' /\ StoreInv' /\ EndIsFinal
  BY DEF VideoHasBytes, RowInv, StoreInv, EndIsFinal
<1> QED
  BY <1>1, <1>2, <1>3, <1>4, <1>5 DEF PollIInv, PollInv

LEMMA CleanRoomPoll ==
  ASSUME PollsAssumption, PollIInv, NEW n \in Downloads, CleanRoom(n)
  PROVE  PollIInv' /\ EndIsFinal
<1> USE DEF PollsAssumption, Downloads, Ids, PollIInv, PollInv, envelope,
           store, VideoRow, Stage, CleanRoom, At, Goes
<1>1. PollsTypeOK'
  BY ZenonT(40) DEF PollsTypeOK, PollPlaces
<1>2. AnswerIsTheAsset'
  BY DEF PollsTypeOK, AnswerIsTheAsset, RowInv, StoreInv, StagesInv, Working,
     FailedIsEmpty
<1>3. FailedIsEmpty'
  BY DEF PollsTypeOK, FailedIsEmpty, AnswerIsTheAsset, RowInv, StoreInv,
     StagesInv, Working
<1>4. StagesInv'
  BY DEF PollsTypeOK, StagesInv, RowInv, StoreInv, Working, Fresh,
     AnswerIsTheAsset, FailedIsEmpty
<1>5. VideoHasBytes' /\ RowInv' /\ StoreInv' /\ EndIsFinal
  BY DEF VideoHasBytes, RowInv, StoreInv, EndIsFinal
<1> QED
  BY <1>1, <1>2, <1>3, <1>4, <1>5 DEF PollIInv, PollInv

LEMMA CleanFailsPoll ==
  ASSUME PollsAssumption, PollIInv, NEW n \in Downloads, CleanFails(n)
  PROVE  PollIInv' /\ EndIsFinal
<1> USE DEF PollsAssumption, Downloads, Ids, PollIInv, PollInv, envelope,
           store, VideoRow, Stage, CleanFails, At, Goes
<1>1. PollsTypeOK'
  BY ZenonT(40) DEF PollsTypeOK, PollPlaces
<1>2. StagesInv'
  BY DEF PollsTypeOK, StagesInv, RowInv, StoreInv, Working, Fresh,
     AnswerIsTheAsset, FailedIsEmpty
<1>3. VideoHasBytes' /\ AnswerIsTheAsset' /\ FailedIsEmpty' /\ RowInv' /\
           StoreInv' /\ EndIsFinal
  BY DEF VideoHasBytes, AnswerIsTheAsset, FailedIsEmpty, RowInv, StoreInv,
     EndIsFinal
<1> QED
  BY <1>1, <1>2, <1>3 DEF PollIInv, PollInv

LEMMA PollCrashPoll ==
  ASSUME PollsAssumption, PollIInv, NEW n \in Downloads, PollCrash(n)
  PROVE  PollIInv' /\ EndIsFinal
<1> USE DEF PollsAssumption, Downloads, Ids, PollIInv, PollInv, envelope,
           store, VideoRow, Stage, PollCrash, At, Goes
<1>1. PollsTypeOK'
  BY DEF PollsTypeOK, PollPlaces
<1>2. StagesInv'
  BY DEF PollsTypeOK, StagesInv, RowInv, StoreInv, Working, Fresh,
     AnswerIsTheAsset, FailedIsEmpty
<1>3. VideoHasBytes' /\ AnswerIsTheAsset' /\ FailedIsEmpty' /\ RowInv' /\
           StoreInv' /\ EndIsFinal
  BY DEF VideoHasBytes, AnswerIsTheAsset, FailedIsEmpty, RowInv, StoreInv,
     EndIsFinal
<1> QED
  BY <1>1, <1>2, <1>3 DEF PollIInv, PollInv

LEMMA PollsStart == ASSUME PollsAssumption, PollsInit PROVE PollIInv
<1> USE DEF PollsAssumption, PollsInit, Downloads, Ids
<1>1. PollsTypeOK
  <2>1. row \in VideoRow
    BY DEF VideoRow
  <2>2. stages \in [Downloads -> Stage]
    BY DEF Stage, PollPlaces
  <2> QED
    BY <2>1, <2>2 DEF PollsTypeOK, VideoRow
<1>2. VideoHasBytes
  BY DEF VideoHasBytes
<1>3. AnswerIsTheAsset
  BY DEF AnswerIsTheAsset
<1>4. FailedIsEmpty
  BY DEF FailedIsEmpty
<1>5. RowInv
  BY DEF RowInv
<1>6. StoreInv
  BY DEF StoreInv
<1>7. StagesInv
  BY DEF StagesInv, Working, Fresh
<1> QED
  BY <1>1, <1>2, <1>3, <1>4, <1>5, <1>6, <1>7 DEF PollIInv, PollInv

LEMMA PollsStep ==
  ASSUME PollsAssumption, PollIInv, [PollsNext]_pollVars
  PROVE  PollIInv' /\ [EndIsFinal]_pollVars
<1>1. CASE UNCHANGED pollVars
  BY <1>1
     DEF pollVars, envelope, store, PollIInv, PollInv, PollsTypeOK, VideoHasBytes,
         AnswerIsTheAsset, FailedIsEmpty, RowInv, StoreInv, StagesInv
<1>2. CASE Order
  BY <1>2, OrderPoll
<1>3. CASE BeginPoll
  BY <1>3, BeginPollPoll
<1>4. CASE ReconcileExpired
  BY <1>4, ReconcileExpiredPoll
<1>5. CASE PollFailed
  BY <1>5, PollFailedPoll
<1>6. CASE PollLeaseEnds
  BY <1>6, PollLeaseEndsPoll
<1>7. CASE WaitEnds
  BY <1>7, WaitEndsPoll
<1>8. CASE PendingLapses
  BY <1>8, PendingLapsesPoll
<1>9. ASSUME NEW n \in Downloads, Prepare(n) PROVE PollIInv' /\ EndIsFinal
  BY <1>9, PreparePoll
<1>10. ASSUME NEW n \in Downloads, Finish(n) PROVE PollIInv' /\ EndIsFinal
  BY <1>10, FinishPoll
<1>11. ASSUME NEW n \in Downloads, Attach(n) PROVE PollIInv' /\ EndIsFinal
  BY <1>11, AttachPoll
<1>12. ASSUME NEW n \in Downloads, Commit(n) PROVE PollIInv' /\ EndIsFinal
  BY <1>12, CommitPoll
<1>13. ASSUME NEW n \in Downloads, FenceLost(n) PROVE PollIInv' /\ EndIsFinal
  BY <1>13, FenceLostPoll
<1>14. ASSUME NEW n \in Downloads, Release(n) PROVE PollIInv' /\ EndIsFinal
  BY <1>14, ReleasePoll
<1>15. ASSUME NEW n \in Downloads, Describe(n) PROVE PollIInv' /\ EndIsFinal
  BY <1>15, DescribePoll
<1>16. ASSUME NEW n \in Downloads, Recover(n) PROVE PollIInv' /\ EndIsFinal
  BY <1>16, RecoverPoll
<1>17. ASSUME NEW n \in Downloads, RecoverCut(n) PROVE PollIInv' /\ EndIsFinal
  BY <1>17, RecoverCutPoll
<1>18. ASSUME NEW n \in Downloads, Download(n) PROVE PollIInv' /\ EndIsFinal
  BY <1>18, DownloadPoll
<1>19. ASSUME NEW n \in Downloads, InsertPending(n) PROVE PollIInv' /\ EndIsFinal
  BY <1>19, InsertPendingPoll
<1>20. ASSUME NEW n \in Downloads, Move(n) PROVE PollIInv' /\ EndIsFinal
  BY <1>20, MovePoll
<1>21. ASSUME NEW n \in Downloads, Promote(n) PROVE PollIInv' /\ EndIsFinal
  BY <1>21, PromotePoll
<1>22. ASSUME NEW n \in Downloads, PromoteFails(n) PROVE PollIInv' /\ EndIsFinal
  BY <1>22, PromoteFailsPoll
<1>23. ASSUME NEW n \in Downloads, Finalize(n) PROVE PollIInv' /\ EndIsFinal
  BY <1>23, FinalizePoll
<1>24. ASSUME NEW n \in Downloads, Fails(n) PROVE PollIInv' /\ EndIsFinal
  BY <1>24, FailsPoll
<1>25. ASSUME NEW n \in Downloads, CleanMirror(n) PROVE PollIInv' /\ EndIsFinal
  BY <1>25, CleanMirrorPoll
<1>26. ASSUME NEW n \in Downloads, CleanRoom(n) PROVE PollIInv' /\ EndIsFinal
  BY <1>26, CleanRoomPoll
<1>27. ASSUME NEW n \in Downloads, CleanFails(n) PROVE PollIInv' /\ EndIsFinal
  BY <1>27, CleanFailsPoll
<1>28. ASSUME NEW n \in Downloads, PollCrash(n) PROVE PollIInv' /\ EndIsFinal
  BY <1>28, PollCrashPoll
<1> QED
  BY <1>1, <1>2, <1>3, <1>4, <1>5, <1>6, <1>7, <1>8, <1>9, <1>10, <1>11,
     <1>12, <1>13, <1>14, <1>15, <1>16, <1>17, <1>18, <1>19, <1>20, <1>21,
     <1>22, <1>23, <1>24, <1>25, <1>26, <1>27, <1>28 DEF PollsNext

\* PollInv: a video that is registered has its bytes, whatever polls overtake
\* each other (but for the one whose own late poll deleted it); its description
\* and its answer are the asset that the store has; under a video that failed
\* nothing was ever staged, so that its room can be given back.
THEOREM VideosHaveBytes == ASSUME PollsAssumption PROVE PollsSpec => []PollInv
<1>1. PollsInit => PollIInv
  BY PollsStart
<1>2. PollIInv /\ [PollsNext]_pollVars => PollIInv'
  BY PollsStep
<1>3. PollIInv => PollInv
  BY SMTT(30) DEF PollIInv
<1> QED
  BY <1>1, <1>2, <1>3, PTL DEF PollsSpec

\* The end of a video and its asset are final, and the token that keeps the
\* provider from being asked again stays until there is an end.
THEOREM VideoEndsOnce ==
  ASSUME PollsAssumption PROVE PollsSpec => [][EndIsFinal]_pollVars
<1>1. PollsInit => PollIInv
  BY PollsStart
<1>2. PollIInv /\ [PollsNext]_pollVars => PollIInv' /\ [EndIsFinal]_pollVars
  BY PollsStep
<1> QED
  BY <1>1, <1>2, PTL DEF PollsSpec

-----------------------------------------------------------------------------

(***************************************************************************)
(* The desktop (DesktopPurchase).                                          *)
(***************************************************************************)
\* Intents after which the stores may be left as they are: nothing durable is due.
Rest == LegacyKinds \union {"reserve", "cleanup"}

WorkCalls == {"recovery", "dispatch", "stage", "archive", "cleanup", "reconcile"}

LegacyPlaces == {"act", "release", "close", "final"}

HandlerPlaces == {"handle", "open", "clear", "inspect"}

Ledgers ==
  [state : {"claimed", "dispatching", "reconciled"}, dispatched : BOOLEAN]

StageStates == {"none", "reserved", "opened", "clearing", "cleared", "done"}

Vaults == [marker : BOOLEAN, gen : Nat, kept : BOOLEAN, stage : StageStates]

HoldStates == {"none", "active", "released"}

Intents == DurableKinds \union LegacyKinds \union {NoIntent}

Evidences == [ledger : Ledgers, vault : Vaults, hold : HoldStates]

Documents ==
  [intent : Intents, gen : Nat, committed : BOOLEAN, manual : BOOLEAN, floor : BOOLEAN,
   evidence : Evidences]

Roots == [behind : BOOLEAN, fence : BOOLEAN]

Modes == {"detached", "fused", "ready", "recovery_pending", "manual_only"}

AppPlaces == {"down", "inspect", "confirm", "resume", "startup", "up"}

Apps ==
  [pc : AppPlaces, mode : Modes, usable : BOOLEAN, v2 : BOOLEAN,
   cleaned : SUBSET Nat]

TaskPlaces ==
  LegacyPlaces \union HandlerPlaces \union
  {"idle", "announce", "finish", "confirm", "surrender", "done", "failed"}

Tasks == [pc : TaskPlaces, kind : Intents, gen : Nat]

CallPlaces == WorkCalls \union {"idle", "prove", "check", "answered", "download"}

\* The types, with what TLC need not enumerate.
DesktopTyped ==
  /\ ledger \in Ledgers /\ vault \in Vaults /\ hold \in HoldStates
  /\ doc \in Documents /\ root \in Roots /\ last \in Intents
  /\ app \in Apps /\ task \in Tasks
  /\ call \in CallPlaces /\ sent \in BOOLEAN

\* Who has work under way: nobody before the start-up has looked at the root, the
\* start-up alone until it is done, then one call.
WhoWorks ==
  /\ app.pc \in {"down", "inspect", "confirm"}
       => app.mode = "detached" /\ task.pc = "idle" /\ call = "idle"
  /\ app.pc \in {"resume", "startup"} => call = "idle"
  /\ app.pc = "resume" => task.pc # "idle"
  /\ task.pc # "idle" => app.pc \in {"resume", "startup"} \/ call \in WorkCalls
  /\ call = "check" => app.mode = "ready"

\* A download and an answer with bytes have an opened stage of the vault.
StageIsOpen ==
  /\ call = "download" => vault.stage = "opened"
  /\ call = "stage" /\ task.pc = "done" => vault.stage = "opened"
  /\ call = "stage" /\ task.pc \notin {"idle", "done", "failed"}
       => task.kind \in {"reserve", "reclaim"}
  /\ task.kind \in {"reserve", "reclaim"} /\ task.pc \in {"inspect", "confirm"}
       => vault.stage = "opened"

\* Work that changes the stores runs neither behind a fence nor under manual recovery.
Unfenced ==
  task.pc \in LegacyPlaces \union HandlerPlaces \union {"announce", "finish", "confirm"}
    => ~root.fence /\ ~doc.manual

\* What the program shows of its mode while work is under way.
ModeFits ==
  /\ task.pc \in LegacyPlaces \union {"announce", "finish", "done"} => app.mode = "ready"
  /\ task.pc \in HandlerPlaces \union {"confirm", "surrender"} => app.mode = "recovery_pending"

\* The intent on record is the one that is worked on, and a durable one is worked on
\* only when the root has followed.
IntentFits ==
  /\ task.pc \in LegacyPlaces => doc.intent = task.kind
  /\ task.pc \in LegacyPlaces \union {"finish"} => task.kind \in LegacyKinds
  /\ task.pc \in HandlerPlaces \union {"announce"}
       => doc.intent = task.kind /\ task.kind \in DurableKinds
  /\ task.pc \in HandlerPlaces => ~root.behind
  /\ task.pc \in {"finish", "confirm"} => doc.intent = NoIntent /\ Matches

\* A program that is ready and at rest has stores that the document proves.
ReadyIsProved ==
  app.mode = "ready" /\ task.pc \in {"idle", "done", "failed"} => Proved

\* The document, the root and the last intent the process remembers tell one story.
DocumentInv ==
  /\ doc.manual => doc.intent = NoIntent /\ last \in Rest
  /\ root.fence => doc.intent \notin DurableKinds /\ last \in Rest
  /\ root.behind /\ ~doc.committed /\ doc.intent \notin DurableKinds => last \in Rest
  /\ doc.intent # NoIntent => last = doc.intent

\* The three stores know of the dispatch.
OnRecord(s) ==
  s.vault.marker /\ s.ledger.dispatched /\ s.hold # "none"

\* What was sent is known to the stores and to the evidence in the document.
StoresFit ==
  /\ ledger.state = "dispatching" => ledger.dispatched
  /\ HeldWhileOwed
  /\ sent => OnRecord(Stores) /\ OnRecord(doc.evidence)
  /\ task.pc = "release" => ledger.state = "reconciled"

\* The stores are what the evidence says, but for what the intent on record changes.
EvidenceFits ==
  /\ ~ledger.dispatched /\ doc.intent # "dispatch" => hold # "active" /\ ~vault.marker
  /\ doc.intent = "dispatch"
       => /\ ~doc.evidence.ledger.dispatched
          /\ doc.evidence.hold # "active"
          /\ ~doc.evidence.vault.marker
  /\ doc.intent \in DurableKinds \ {"dispatch"}
       => ledger = doc.evidence.ledger /\ hold = doc.evidence.hold
  /\ doc.intent = "reclaim" => vault.gen >= doc.evidence.vault.gen
  /\ doc.intent = "archive" => doc.evidence.vault.stage # "done"

\* A handler that has returned has done what its intent says.
AfterHandler ==
  task.pc = "inspect"
    => /\ task.kind = "dispatch" => ledger.dispatched /\ vault.marker /\ hold = "active"
       /\ task.kind = "reclaim" => vault.gen > doc.evidence.vault.gen
       /\ task.kind = "archive" => vault.stage = "done"

DesktopRules ==
  /\ WhoWorks
  /\ StageIsOpen
  /\ Unfenced
  /\ ModeFits
  /\ IntentFits
  /\ ReadyIsProved
  /\ DocumentInv
  /\ StoresFit
  /\ EvidenceFits
  /\ AfterHandler

\* The inductive invariant.
DesktopIInv == DesktopTyped /\ DesktopRules

\* Records that the actions write.
LEMMA DocumentRecords ==
  ASSUME NEW d \in Documents, NEW k \in Intents
  PROVE  /\ \A g \in Nat :
              [d EXCEPT !.intent = k, !.gen = g, !.committed = FALSE] \in Documents
         /\ \A e \in Evidences :
              /\ [d EXCEPT !.intent = k, !.gen = 0, !.evidence = e] \in Documents
              /\ [d EXCEPT !.intent = k, !.gen = 0, !.committed = TRUE, !.evidence = e]
                   \in Documents
              /\ [d EXCEPT !.intent = k, !.gen = 0, !.manual = TRUE, !.evidence = e]
                   \in Documents
              /\ \A b \in BOOLEAN :
                   [d EXCEPT !.intent = k, !.gen = 0, !.manual = TRUE, !.floor = b,
                             !.evidence = e] \in Documents
  BY ZenonT(40) DEF Documents

LEMMA RootRecords ==
  ASSUME NEW r \in Roots, NEW b \in BOOLEAN, NEW f \in BOOLEAN
  PROVE  /\ [behind |-> b, fence |-> f] \in Roots
         /\ [r EXCEPT !.behind = b] \in Roots
  BY DEF Roots

LEMMA AppRecords ==
  ASSUME NEW a \in Apps
  PROVE  /\ \A m \in Modes : [a EXCEPT !.mode = m] \in Apps
         /\ \A c \in SUBSET Nat : [a EXCEPT !.cleaned = c] \in Apps
         /\ \A p \in AppPlaces : [a EXCEPT !.pc = p] \in Apps
         /\ \A p \in AppPlaces, m \in Modes : [a EXCEPT !.pc = p, !.mode = m] \in Apps
         /\ \A m \in Modes, u \in BOOLEAN :
              [a EXCEPT !.pc = "up", !.mode = m, !.usable = u] \in Apps
         /\ \A v \in BOOLEAN :
              [a EXCEPT !.pc = "up", !.mode = "ready", !.usable = TRUE, !.v2 = v] \in Apps
  BY DEF Apps, AppPlaces, Modes

LEMMA DownIsApp == Down \in Apps /\ [Down EXCEPT !.pc = "inspect"] \in Apps
  <1>1. {} \in SUBSET Nat
    OBVIOUS
  <1> QED
    BY <1>1 DEF Down, Apps, Modes, AppPlaces

LEMMA LedgerRecords ==
  ASSUME NEW l \in Ledgers
  PROVE  /\ [l EXCEPT !.state = "reconciled"] \in Ledgers
         /\ [state |-> "dispatching", dispatched |-> TRUE] \in Ledgers
  BY DEF Ledgers

LEMMA VaultRecords ==
  ASSUME NEW v \in Vaults
  PROVE  /\ \A s \in StageStates : [v EXCEPT !.stage = s] \in Vaults
         /\ \A s \in StageStates, g \in Nat : [v EXCEPT !.stage = s, !.gen = g] \in Vaults
         /\ \A g \in Nat : [v EXCEPT !.gen = g] \in Vaults
         /\ [v EXCEPT !.marker = TRUE] \in Vaults
         /\ [v EXCEPT !.kept = TRUE] \in Vaults
  BY DEF Vaults

\* What changes the stores, and what the document.
LEMMA StoresChange ==
  ASSUME Next
  PROVE  \/ UNCHANGED storeVars
         \/ LegacyAct \/ ReleaseUnsent \/ HandleDispatch \/ HandleReserve
         \/ HandleReclaim \/ HandleCleanup \/ HandleArchive
  BY DEF Next, Restart, Mutation, Crash, Calls, Handler, StartUp, StartDetached,
     ResumeIntent, Resumed, FollowCommit, Verify, EnterManual, AcknowledgeRecovery,
     ManualFromPending, ConfirmManual, Settle, ReconcileCapacity, CapacityReconciled,
     LegacyConfirm, LegacyFinal, Announce, HandlerFails, InspectAfter, ConfirmFinal,
     Surrender, Purchase, Prove, Post, StageAnswer, DownloadBytes, Returns,
     ReconcileManually, storeVars, startVars, Conflict

LEMMA StoresAreTyped ==
  ASSUME DesktopTyped, Next
  PROVE  ledger' \in Ledgers /\ vault' \in Vaults /\ hold' \in HoldStates
  <1> USE DEF DesktopTyped, HoldStates
  <1>1. CASE LegacyAct
    BY <1>1, LedgerRecords DEF LegacyAct, storeVars
  <1>2. CASE ReleaseUnsent
    BY <1>2 DEF ReleaseUnsent
  <1>3. CASE HandleDispatch
    BY <1>3, LedgerRecords, VaultRecords DEF HandleDispatch, storeVars
  <1>4. CASE HandleReserve \/ HandleReclaim
    <2> DEFINE g == IF vault.stage = "none" THEN 0 ELSE vault.gen + 1
    <2>1. g \in Nat /\ vault.gen + 1 \in Nat 
          /\ "reserved" \in StageStates /\ "opened" \in StageStates
      BY DEF Vaults, StageStates
    <2>2. /\ UNCHANGED <<ledger, hold>>
          /\ vault' \in {vault, [vault EXCEPT !.stage = "reserved", !.gen = g],
                         [vault EXCEPT !.stage = "opened"],
                         [vault EXCEPT !.gen = vault.gen + 1]}
      BY <1>4 DEF HandleReserve, HandleReclaim, Conflict, HandlerFails, storeVars,
         Vaults
    <2> HIDE DEF g
    <2>3. /\ [vault EXCEPT !.stage = "reserved", !.gen = g] \in Vaults
          /\ [vault EXCEPT !.stage = "opened"] \in Vaults
          /\ [vault EXCEPT !.gen = vault.gen + 1] \in Vaults
      BY <2>1, VaultRecords
    <2> QED
      BY <2>2, <2>3
  <1>5. CASE HandleCleanup \/ HandleArchive
    <2>1. {"clearing", "cleared", "done"} \subseteq StageStates
      BY DEF StageStates
    <2> QED
      BY ZenonT(40), <1>5, <2>1, VaultRecords DEF HandleCleanup, HandleArchive, Conflict,
           storeVars
  <1> QED
    BY <1>1, <1>2, <1>3, <1>4, <1>5, StoresChange DEF storeVars

LEMMA BeginIsTyped ==
  ASSUME DesktopTyped, NEW kind \in DurableKinds \union LegacyKinds, NEW gen \in Nat,
         Begin(kind, gen)
  PROVE  /\ doc' \in Documents /\ root' \in Roots /\ last' \in Intents
         /\ app' \in Apps /\ task' \in Tasks
  <1> USE DEF DesktopTyped
  <1>1. kind \in Intents
    BY DEF Intents
  <1>2. doc' = doc \/ doc' = [doc EXCEPT !.intent = kind, !.gen = gen, !.committed = FALSE]
    BY DEF Begin, Write, rootVars
  <1>3. [doc EXCEPT !.intent = kind, !.gen = gen, !.committed = FALSE] \in Documents
    BY <1>1, DocumentRecords, Zenon
  <1>4. root' = root \/ root' = [root EXCEPT !.behind = TRUE]
    BY DEF Begin, Write, rootVars
  <1>5. root' \in Roots
    BY <1>4, RootRecords
  <1>6. app' \in Apps
    BY ZenonT(40), AppRecords DEF Begin, Mode, Modes
  <1>7. task' \in Tasks
    BY <1>1 DEF Begin, Tasks, TaskPlaces, LegacyPlaces, NoWork, Intents
  <1> QED
    BY <1>1, <1>2, <1>3, <1>5, <1>6, <1>7 DEF Begin, rootVars

LEMMA BeginsAreTyped ==
  ASSUME DesktopTyped,
         \/ ReconcileCapacity \/ Purchase \/ Prove \/ StageAnswer \/ DownloadBytes
         \/ ReconcileManually
  PROVE  /\ doc' \in Documents /\ root' \in Roots /\ last' \in Intents
         /\ app' \in Apps /\ task' \in Tasks
  <1> USE DEF DesktopTyped
  <1>1. vault.gen \in Nat
    BY DEF Vaults
  <1>2. \/ \E kind \in DurableKinds \union LegacyKinds, gen \in Nat : Begin(kind, gen)
        \/ UNCHANGED <<doc, root, task, last>> /\ (UNCHANGED app \/ Mode("fused"))
    BY <1>1 DEF ReconcileCapacity, Purchase, Prove, StageAnswer, DownloadBytes,
         ReconcileManually, DurableKinds, LegacyKinds, rootVars
  <1> QED
    BY ZenonT(40), <1>2, BeginIsTyped, AppRecords DEF Mode, Modes

LEMMA DocumentChanges ==
  ASSUME Next
  PROVE  \/ UNCHANGED <<doc, last>>
         \/ /\ UNCHANGED last
            /\ \/ Write(Closed) \/ Write(ClosedWithoutReceipt) \/ Write(Conflicted)
               \/ Write(Surrendered(TRUE)) \/ Write(Surrendered(FALSE))
         \/ ReconcileCapacity \/ Purchase \/ Prove \/ StageAnswer \/ DownloadBytes
         \/ ReconcileManually
  BY DEF Next, Restart, Mutation, Crash, Calls, Handler, StartUp, StartDetached,
     ResumeIntent, Resumed, FollowCommit, Verify, EnterManual, AcknowledgeRecovery,
     ManualFromPending, ConfirmManual, Settle, CapacityReconciled, LegacyAct,
     ReleaseUnsent, LegacyConfirm, LegacyFinal, Announce, HandleDispatch,
     HandleReserve, HandleReclaim, HandleCleanup, HandleArchive, HandlerFails,
     InspectAfter, ConfirmFinal, Surrender, Post, Returns, Changes, storeVars,
     startVars, rootVars, Conflict, ClosedWithoutReceipt

LEMMA RootChanges ==
  ASSUME Next
  PROVE \/ root' \in {root, [root EXCEPT !.behind = FALSE], [root EXCEPT !.behind = TRUE],
               [behind |-> FALSE, fence |-> TRUE], [behind |-> FALSE, fence |-> FALSE]}
         \/ ReconcileCapacity \/ Purchase \/ Prove \/ StageAnswer \/ DownloadBytes
         \/ ReconcileManually
  <1> USE DEF RootIsLost, RootFollows, Write, rootVars
  <1>1. CASE Restart
    BY <1>1 DEF Restart, StartUp, StartDetached, ResumeIntent, Resumed, FollowCommit,
       Verify, EnterManual, AcknowledgeRecovery, ManualFromPending, ConfirmManual,
       Settle, CapacityReconciled
  <1>2. CASE Mutation
    BY <1>2 DEF Mutation, LegacyAct, ReleaseUnsent, LegacyConfirm, LegacyFinal,
       Announce, Handler, HandleDispatch, HandleReserve, HandleReclaim, HandleCleanup,
       HandleArchive, HandlerFails, InspectAfter, ConfirmFinal, Surrender, Changes,
       Conflict
  <1>3. CASE Crash \/ Calls
    BY <1>3 DEF Crash, Calls, Post, Returns
  <1> QED
    BY <1>1, <1>2, <1>3 DEF Next

LEMMA DocumentIsTyped ==
  ASSUME DesktopTyped, Next
  PROVE  doc' \in Documents /\ root' \in Roots /\ last' \in Intents
  <1> USE DEF DesktopTyped
  <1>1. CASE \/ ReconcileCapacity \/ Purchase \/ Prove \/ StageAnswer \/ DownloadBytes
             \/ ReconcileManually
    BY <1>1, BeginsAreTyped
  <1>2. CASE ~(\/ ReconcileCapacity \/ Purchase \/ Prove \/ StageAnswer \/ DownloadBytes
               \/ ReconcileManually)
    <2>1. Stores \in Evidences /\ NoIntent \in Intents
      BY DEF Stores, Evidences, Intents
    <2>2. doc' \in {doc, Closed, ClosedWithoutReceipt, Conflicted, Surrendered(TRUE),
                    Surrendered(FALSE)} /\ last' = last
      BY ZenonT(40), <1>2, DocumentChanges DEF Write
    <2>3. /\ Closed \in Documents /\ ClosedWithoutReceipt \in Documents
          /\ Conflicted \in Documents
      BY ZenonT(40), <2>1, DocumentRecords DEF Closed, ClosedWithoutReceipt, Conflicted
    <2>4. Surrendered(TRUE) \in Documents /\ Surrendered(FALSE) \in Documents
      BY ZenonT(40), <2>1, DocumentRecords DEF Surrendered
    <2>5. root' \in {root, [root EXCEPT !.behind = FALSE], [root EXCEPT !.behind = TRUE],
            [behind |-> FALSE, fence |-> TRUE], [behind |-> FALSE, fence |-> FALSE]}
      BY <1>2, RootChanges DEF Write, RootFollows
    <2> QED
      BY <2>2, <2>3, <2>4, <2>5, RootRecords
  <1> QED
    BY <1>1, <1>2

LEMMA ProcessIsTyped ==
  ASSUME DesktopTyped, Next
  PROVE  app' \in Apps /\ task' \in Tasks /\ call' \in CallPlaces /\ sent' \in BOOLEAN
  <1> USE DEF DesktopTyped
  <1>1. CASE \/ ReconcileCapacity \/ Purchase \/ Prove \/ StageAnswer \/ DownloadBytes
             \/ ReconcileManually
    <2>1. call' \in CallPlaces /\ sent' = sent
      BY <1>1 DEF ReconcileCapacity, Purchase, Prove, StageAnswer, DownloadBytes,
           ReconcileManually, CallPlaces, WorkCalls, startVars
    <2> QED
      BY <1>1, <2>1, BeginsAreTyped
  <1>2. CASE ~(\/ ReconcileCapacity \/ Purchase \/ Prove \/ StageAnswer \/ DownloadBytes
               \/ ReconcileManually)
    <2>1. \/ UNCHANGED app \/ Open
          \/ \E m \in Modes, u \in BOOLEAN : Mode(m) \/ Up(m, u)
          \/ app' \in {Down, [Down EXCEPT !.pc = "inspect"],
               [app EXCEPT !.pc = "resume", !.mode = "recovery_pending"],
               [app EXCEPT !.pc = "startup", !.mode = "ready"],
               [app EXCEPT !.pc = "confirm"], [app EXCEPT !.pc = "inspect"],
               [app EXCEPT !.cleaned = @ \union {task.gen}]}
      <3>1. \A m \in {"detached", "fused", "ready", "recovery_pending", "manual_only", app.mode} : m \in Modes
        BY DEF Apps, Modes
      <3> QED
        BY <1>2, <3>1 DEF Next, Fuses, Restart, Mutation, Crash, Calls, Handler,
           StartUp, StartDetached, ResumeIntent, Resumed, FollowCommit, Verify,
           EnterManual, AcknowledgeRecovery, ManualFromPending, ConfirmManual, Settle,
           CapacityReconciled, LegacyAct, ReleaseUnsent, LegacyConfirm, LegacyFinal,
           Announce, HandleDispatch, HandleReserve, HandleReclaim, HandleCleanup,
           HandleArchive, HandlerFails, InspectAfter, ConfirmFinal, Surrender, Post,
           Returns, Changes, storeVars, startVars, rootVars, Conflict
    <2>2. app' \in Apps
      <3>1. app.cleaned \union {task.gen} \in SUBSET Nat
        BY DEF Apps, Tasks
      <3>2. CASE \E m \in Modes, u \in BOOLEAN : Mode(m) \/ Up(m, u)
        <4>1. PICK m \in Modes, u \in BOOLEAN : Mode(m) \/ Up(m, u)
          BY <3>2
        <4>2. CASE Mode(m)
          BY <4>2, AppRecords DEF Mode
        <4>3. CASE Up(m, u)
          BY <4>3, AppRecords DEF Up
        <4> QED
          BY <4>1, <4>2, <4>3
      <3>3. CASE Open
        <4>1. (~ActiveStage) \in BOOLEAN
          BY DEF ActiveStage
        <4> QED
          BY <3>3, <4>1, AppRecords DEF Open
      <3>4. CASE UNCHANGED app
        BY <3>4
      <3>5. CASE app' \in {Down, [Down EXCEPT !.pc = "inspect"],
               [app EXCEPT !.pc = "resume", !.mode = "recovery_pending"],
               [app EXCEPT !.pc = "startup", !.mode = "ready"],
               [app EXCEPT !.pc = "confirm"], [app EXCEPT !.pc = "inspect"],
               [app EXCEPT !.cleaned = @ \union {task.gen}]}
        <4>1. /\ "recovery_pending" \in Modes /\ "ready" \in Modes
              /\ {"resume", "startup", "confirm", "inspect"} \subseteq AppPlaces
          BY DEF Modes, AppPlaces
        <4>2. /\ [app EXCEPT !.cleaned = @ \union {task.gen}] \in Apps
              /\ [app EXCEPT !.pc = "resume", !.mode = "recovery_pending"] \in Apps
              /\ [app EXCEPT !.pc = "startup", !.mode = "ready"] \in Apps
              /\ [app EXCEPT !.pc = "confirm"] \in Apps
              /\ [app EXCEPT !.pc = "inspect"] \in Apps
          BY <3>1, <4>1, AppRecords
        <4> QED
          BY <3>5, <4>2, DownIsApp
      <3> QED
        BY <2>1, <3>2, <3>3, <3>4, <3>5
    <2>3. task' \in Tasks
      <3> USE DEF NoWork, Tasks, TaskPlaces, LegacyPlaces, HandlerPlaces, Intents
      <3>1. CASE Restart
        <4>1. doc.intent \in Intents /\ doc.gen \in Nat
          BY DEF Documents
        <4>2. task' \in {task, NoWork, [pc |-> "handle", kind |-> doc.intent, gen |-> doc.gen]}
          BY <1>2, <3>1 DEF Restart, StartUp, StartDetached, ResumeIntent, Resumed,
             FollowCommit, Verify, EnterManual, AcknowledgeRecovery,
             ManualFromPending, ConfirmManual, Settle, CapacityReconciled
        <4> QED
          BY <4>1, <4>2
      <3>2. CASE Mutation
        BY <1>2, <3>2 DEF Mutation, LegacyAct, ReleaseUnsent, LegacyConfirm,
           LegacyFinal, Announce, Handler, HandleDispatch, HandleReserve,
           HandleReclaim, HandleCleanup, HandleArchive, HandlerFails, InspectAfter,
           ConfirmFinal, Surrender, Changes, Ends, Fuses, Conflict
      <3>3. CASE Crash \/ Calls
        BY <1>2, <3>3 DEF Crash, Calls, Post, Returns
      <3> QED
        BY <3>1, <3>2, <3>3 DEF Next
    <2>4. call' \in CallPlaces /\ (sent' = sent \/ sent' = TRUE)
      BY <1>2 DEF Next, CallPlaces, WorkCalls, Restart, Mutation, Crash, Calls,
         Handler, StartUp, StartDetached, ResumeIntent, Resumed, FollowCommit, Verify,
         EnterManual, AcknowledgeRecovery, ManualFromPending, ConfirmManual, Settle,
         CapacityReconciled, LegacyAct, ReleaseUnsent, LegacyConfirm, LegacyFinal,
         Announce, HandleDispatch, HandleReserve, HandleReclaim, HandleCleanup,
         HandleArchive, HandlerFails, InspectAfter, ConfirmFinal, Surrender, Post,
         Returns, Changes, storeVars, startVars, rootVars, Conflict
    <2> QED
      BY <2>2, <2>3, <2>4
  <1> QED
    BY <1>1, <1>2

\* What the writers do, column by column.
LEMMA UpDoes ==
  ASSUME DesktopTyped, NEW m, NEW u, Up(m, u)
  PROVE  app'.pc = "up" /\ app'.mode = m
  BY DEF DesktopTyped, Apps, Up

LEMMA OpenDoes ==
  ASSUME DesktopTyped, Open
  PROVE  app'.pc = "up" /\ app'.mode = "ready"
  BY DEF DesktopTyped, Apps, Open

LEMMA WriteDoes ==
  ASSUME DesktopTyped, NEW d, Write(d)
  PROVE  doc' = d /\ root'.behind = TRUE /\ root'.fence = root.fence
  BY DEF DesktopTyped, Roots, Write

LEMMA FinalDoes ==
  ASSUME DesktopTyped
  PROVE  /\ Write(Closed) \/ Write(ClosedWithoutReceipt)
              => /\ doc'.intent = NoIntent /\ doc'.evidence = Stores
                 /\ doc'.manual = doc.manual
                 /\ root'.behind = TRUE /\ root'.fence = root.fence
         /\ Write(Closed) => doc'.committed = TRUE
         /\ Write(ClosedWithoutReceipt) => doc'.committed = doc.committed
         /\ Write(Conflicted) \/ Write(Surrendered(TRUE)) \/ Write(Surrendered(FALSE))
              => /\ doc'.intent = NoIntent /\ doc'.evidence = Stores
                 /\ doc'.manual = TRUE
                 /\ root'.behind = TRUE /\ root'.fence = root.fence
  <1>1. /\ Closed.intent = NoIntent /\ Closed.evidence = Stores
        /\ Closed.manual = doc.manual /\ Closed.committed = TRUE
    BY DEF DesktopTyped, Documents, Closed
  <1>2. /\ ClosedWithoutReceipt.intent = NoIntent
        /\ ClosedWithoutReceipt.evidence = Stores
        /\ ClosedWithoutReceipt.manual = doc.manual
        /\ ClosedWithoutReceipt.committed = doc.committed
    BY DEF DesktopTyped, Documents, ClosedWithoutReceipt
  <1>3. /\ Conflicted.intent = NoIntent /\ Conflicted.evidence = Stores
        /\ Conflicted.manual = TRUE
    BY DEF DesktopTyped, Documents, Conflicted
  <1>4. /\ Surrendered(TRUE).intent = NoIntent /\ Surrendered(FALSE).intent = NoIntent
        /\ Surrendered(TRUE).evidence = Stores /\ Surrendered(FALSE).evidence = Stores
        /\ Surrendered(TRUE).manual = TRUE /\ Surrendered(FALSE).manual = TRUE
    BY DEF DesktopTyped, Documents, Surrendered
  <1>5. root' = [root EXCEPT !.behind = TRUE]
                => root'.behind = TRUE /\ root'.fence = root.fence
    BY DEF DesktopTyped, Roots
  <1> QED
    BY <1>1, <1>2, <1>3, <1>4, <1>5 DEF Write

LEMMA BeginDoes ==
  ASSUME DesktopTyped, NEW kind \in DurableKinds \union LegacyKinds, NEW gen \in Nat,
         Begin(kind, gen)
  PROVE  \/ /\ app.mode = "ready" /\ Proved /\ app' = app /\ last' = kind
            /\ doc'.intent = kind /\ doc'.evidence = doc.evidence
            /\ doc'.committed = FALSE /\ doc'.manual = doc.manual
            /\ root'.behind = TRUE /\ root'.fence = root.fence
            /\ task'.pc = IF kind \in LegacyKinds THEN "act" ELSE "announce"
            /\ task'.kind = kind
         \/ /\ doc' = doc /\ root' = root /\ last' = last
            /\ task'.pc = "failed" /\ task'.kind = NoIntent
            /\ \/ app' = app
               \/ app'.mode = "fused" /\ app'.pc = app.pc
  <1>1. CASE app.mode = "ready" /\ Proved /\ last' = kind
             /\ Write([doc EXCEPT !.intent = kind, !.gen = gen, !.committed = FALSE])
             /\ task' = [pc |-> IF kind \in LegacyKinds THEN "act" ELSE "announce",
                         kind |-> kind, gen |-> gen]
             /\ UNCHANGED app
    <2>1. /\ doc' = [doc EXCEPT !.intent = kind, !.gen = gen, !.committed = FALSE]
          /\ root'.behind = TRUE /\ root'.fence = root.fence
      BY <1>1, WriteDoes
    <2> QED
      BY <1>1, <2>1 DEF DesktopTyped, Documents
  <1>2. CASE UNCHANGED <<rootVars, last>> /\ task' = [NoWork EXCEPT !.pc = "failed"]
             /\ (UNCHANGED app \/ Mode("fused"))
    BY <1>2 DEF DesktopTyped, Apps, NoWork, rootVars, Mode
  <1> QED
    BY <1>1, <1>2 DEF Begin

LEMMA ConflictKeeps ==
  ASSUME DesktopAssumption, DesktopIInv, Conflict,
         task.pc \in HandlerPlaces, task.kind \in {"reserve", "cleanup"}
  PROVE  DesktopRules'
  <1>1. /\ Write(Closed) \/ Write(ClosedWithoutReceipt)
             => /\ doc'.intent = NoIntent /\ doc'.evidence = Stores
                /\ doc'.manual = doc.manual
                /\ root'.behind = TRUE /\ root'.fence = root.fence
        /\ Write(Closed) => doc'.committed = TRUE
        /\ Write(ClosedWithoutReceipt) => doc'.committed = doc.committed
        /\ Write(Conflicted) \/ Write(Surrendered(TRUE)) \/ Write(Surrendered(FALSE))
             => /\ doc'.intent = NoIntent /\ doc'.evidence = Stores
                /\ doc'.manual = TRUE
                /\ root'.behind = TRUE /\ root'.fence = root.fence
    BY FinalDoes DEF DesktopIInv
  <1> USE DEF DesktopIInv, DesktopTyped, DesktopRules, DesktopAssumption, Ledgers,
     Vaults, StageStates, Documents, Evidences, Roots, Apps, Tasks, Stores, Matches,
     Exact, Proved, DurableKinds, LegacyKinds, LegacyPlaces, HandlerPlaces, WorkCalls,
     Rest, storeVars, rootVars, dpVars, NoWork, Intents, CallPlaces, TaskPlaces,
     AppPlaces, Modes, HoldStates
  <1>2. WhoWorks'
    BY <1>1 DEF WhoWorks, ModeFits, Conflict, OnRecord
  <1>3. StageIsOpen'
    BY <1>1 DEF WhoWorks, StageIsOpen, AfterHandler, IntentFits, Conflict, OnRecord
  <1>4. Unfenced'
    BY <1>1 DEF Unfenced, ReadyIsProved, DocumentInv, WhoWorks, IntentFits, Conflict,
       OnRecord
  <1>5. ModeFits'
    BY <1>1 DEF WhoWorks, ModeFits, Conflict, OnRecord
  <1>6. IntentFits'
    BY <1>1 DEF IntentFits, Unfenced, ReadyIsProved, WhoWorks, ModeFits, Conflict,
       OnRecord
  <1>7. ReadyIsProved'
    BY <1>1 DEF ReadyIsProved, ModeFits, IntentFits, Unfenced, WhoWorks, Conflict,
       OnRecord
  <1>8. DocumentInv'
    BY <1>1 DEF DocumentInv, IntentFits, Unfenced, ReadyIsProved, WhoWorks,
       AfterHandler, EvidenceFits, Conflict, OnRecord
  <1>9. StoresFit'
    BY <1>1 DEF StoresFit, ReadyIsProved, WhoWorks, HeldWhileOwed, OnRecord,
       IntentFits, AfterHandler, EvidenceFits, Conflict
  <1>10. EvidenceFits'
    BY <1>1 DEF EvidenceFits, IntentFits, AfterHandler, ReadyIsProved, StageIsOpen,
       DocumentInv, Conflict, OnRecord
  <1>11. AfterHandler'
    BY <1>1 DEF AfterHandler, EvidenceFits, IntentFits, WhoWorks, Conflict, OnRecord
  <1> QED
    BY <1>2, <1>3, <1>4, <1>5, <1>6, <1>7, <1>8, <1>9, <1>10, <1>11 DEF DesktopRules

LEMMA LegacyActKeeps ==
  ASSUME DesktopAssumption, DesktopIInv, LegacyAct \/ ReleaseUnsent
  PROVE  DesktopRules'
  <1> USE DEF DesktopIInv, DesktopTyped, DesktopRules, DesktopAssumption, Ledgers,
     Vaults, StageStates, Documents, Evidences, Roots, Apps, Tasks, Stores, Matches,
     Exact, Proved, DurableKinds, LegacyKinds, LegacyPlaces, HandlerPlaces, WorkCalls,
     Rest, storeVars, rootVars, dpVars, NoWork, Intents, CallPlaces, TaskPlaces,
     AppPlaces, Modes, HoldStates
  <1>1. WhoWorks'
    BY DEF WhoWorks, ModeFits, LegacyAct, ReleaseUnsent, Fuses, Ends, Mode, OnRecord
  <1>2. StageIsOpen'
    BY DEF WhoWorks, StageIsOpen, AfterHandler, IntentFits, LegacyAct, ReleaseUnsent,
       Fuses, Ends, Mode, OnRecord
  <1>3. Unfenced'
    BY DEF Unfenced, ReadyIsProved, DocumentInv, WhoWorks, IntentFits, LegacyAct,
       ReleaseUnsent, Fuses, Ends, Mode, OnRecord
  <1>4. ModeFits'
    BY DEF WhoWorks, ModeFits, LegacyAct, ReleaseUnsent, Fuses, Ends, Mode, OnRecord
  <1>5. IntentFits'
    BY DEF IntentFits, Unfenced, ReadyIsProved, WhoWorks, ModeFits, LegacyAct,
       ReleaseUnsent, Fuses, Ends, Mode, OnRecord
  <1>6. ReadyIsProved'
    BY DEF ReadyIsProved, ModeFits, IntentFits, Unfenced, WhoWorks, LegacyAct,
       ReleaseUnsent, Fuses, Ends, Mode, OnRecord
  <1>7. DocumentInv'
    BY DEF DocumentInv, IntentFits, Unfenced, ReadyIsProved, WhoWorks, AfterHandler,
       EvidenceFits, LegacyAct, ReleaseUnsent, Fuses, Ends, Mode, OnRecord
  <1>8. StoresFit'
    BY DEF StoresFit, ReadyIsProved, WhoWorks, HeldWhileOwed, OnRecord, IntentFits,
       AfterHandler, EvidenceFits, LegacyAct, ReleaseUnsent, Fuses, Ends, Mode
  <1>9. EvidenceFits'
    BY DEF EvidenceFits, IntentFits, AfterHandler, ReadyIsProved, StageIsOpen,
       DocumentInv, LegacyAct, ReleaseUnsent, Fuses, Ends, Mode, OnRecord
  <1>10. AfterHandler'
    BY DEF AfterHandler, EvidenceFits, IntentFits, WhoWorks, LegacyAct, ReleaseUnsent,
       Fuses, Ends, Mode, OnRecord
  <1> QED
    BY <1>1, <1>2, <1>3, <1>4, <1>5, <1>6, <1>7, <1>8, <1>9, <1>10 DEF DesktopRules

LEMMA LegacyEndKeeps ==
  ASSUME DesktopAssumption, DesktopIInv, LegacyConfirm \/ LegacyFinal
  PROVE  DesktopRules'
  <1>1. /\ Write(Closed) \/ Write(ClosedWithoutReceipt)
             => /\ doc'.intent = NoIntent /\ doc'.evidence = Stores
                /\ doc'.manual = doc.manual
                /\ root'.behind = TRUE /\ root'.fence = root.fence
        /\ Write(Closed) => doc'.committed = TRUE
        /\ Write(ClosedWithoutReceipt) => doc'.committed = doc.committed
        /\ Write(Conflicted) \/ Write(Surrendered(TRUE)) \/ Write(Surrendered(FALSE))
             => /\ doc'.intent = NoIntent /\ doc'.evidence = Stores
                /\ doc'.manual = TRUE
                /\ root'.behind = TRUE /\ root'.fence = root.fence
    BY FinalDoes DEF DesktopIInv
  <1> USE DEF DesktopIInv, DesktopTyped, DesktopRules, DesktopAssumption, Ledgers,
     Vaults, StageStates, Documents, Evidences, Roots, Apps, Tasks, Stores, Matches,
     Exact, Proved, DurableKinds, LegacyKinds, LegacyPlaces, HandlerPlaces, WorkCalls,
     Rest, storeVars, rootVars, dpVars, NoWork, Intents, CallPlaces, TaskPlaces,
     AppPlaces, Modes, HoldStates
  <1>2. WhoWorks'
    BY <1>1 DEF WhoWorks, ModeFits, LegacyConfirm, LegacyFinal, ClosedWithoutReceipt,
       RootFollows, RootIsLost, Fuses, Ends, Mode, OnRecord
  <1>3. StageIsOpen'
    BY <1>1 DEF WhoWorks, StageIsOpen, AfterHandler, IntentFits, LegacyConfirm,
       LegacyFinal, ClosedWithoutReceipt, RootFollows, RootIsLost, Fuses, Ends, Mode,
       OnRecord
  <1>4. Unfenced'
    BY <1>1 DEF Unfenced, ReadyIsProved, DocumentInv, WhoWorks, IntentFits,
       LegacyConfirm, LegacyFinal, ClosedWithoutReceipt, RootFollows, RootIsLost,
       Fuses, Ends, Mode, OnRecord
  <1>5. ModeFits'
    BY <1>1 DEF WhoWorks, ModeFits, LegacyConfirm, LegacyFinal, ClosedWithoutReceipt,
       RootFollows, RootIsLost, Fuses, Ends, Mode, OnRecord
  <1>6. IntentFits'
    BY <1>1 DEF IntentFits, Unfenced, ReadyIsProved, WhoWorks, ModeFits,
       LegacyConfirm, LegacyFinal, ClosedWithoutReceipt, RootFollows, RootIsLost,
       Fuses, Ends, Mode, OnRecord
  <1>7. ReadyIsProved'
    BY <1>1 DEF ReadyIsProved, ModeFits, IntentFits, Unfenced, WhoWorks,
       LegacyConfirm, LegacyFinal, ClosedWithoutReceipt, RootFollows, RootIsLost,
       Fuses, Ends, Mode, OnRecord
  <1>8. DocumentInv'
    BY <1>1 DEF DocumentInv, IntentFits, Unfenced, ReadyIsProved, WhoWorks,
       AfterHandler, EvidenceFits, LegacyConfirm, LegacyFinal, ClosedWithoutReceipt,
       RootFollows, RootIsLost, Fuses, Ends, Mode, OnRecord
  <1>9. StoresFit'
    BY <1>1 DEF StoresFit, ReadyIsProved, WhoWorks, HeldWhileOwed, OnRecord,
       IntentFits, AfterHandler, EvidenceFits, LegacyConfirm, LegacyFinal,
       ClosedWithoutReceipt, RootFollows, RootIsLost, Fuses, Ends, Mode
  <1>10. EvidenceFits'
    BY <1>1 DEF EvidenceFits, IntentFits, AfterHandler, ReadyIsProved, StageIsOpen,
       DocumentInv, LegacyConfirm, LegacyFinal, ClosedWithoutReceipt, RootFollows,
       RootIsLost, Fuses, Ends, Mode, OnRecord
  <1>11. AfterHandler'
    BY <1>1 DEF AfterHandler, EvidenceFits, IntentFits, WhoWorks, LegacyConfirm,
       LegacyFinal, ClosedWithoutReceipt, RootFollows, RootIsLost, Fuses, Ends, Mode,
       OnRecord
  <1> QED
    BY <1>2, <1>3, <1>4, <1>5, <1>6, <1>7, <1>8, <1>9, <1>10, <1>11 DEF DesktopRules

LEMMA AnnounceKeeps ==
  ASSUME DesktopAssumption, DesktopIInv, Announce \/ ConfirmFinal \/ Surrender
  PROVE  DesktopRules'
  <1> USE DEF DesktopIInv, DesktopTyped, DesktopRules, DesktopAssumption, Ledgers,
     Vaults, StageStates, Documents, Evidences, Roots, Apps, Tasks, Stores, Matches,
     Exact, Proved, DurableKinds, LegacyKinds, LegacyPlaces, HandlerPlaces, WorkCalls,
     Rest, storeVars, rootVars, dpVars, NoWork, Intents, CallPlaces, TaskPlaces,
     AppPlaces, Modes, HoldStates
  <1>1. WhoWorks'
    BY DEF WhoWorks, ModeFits, Announce, ConfirmFinal, Surrender, RootFollows,
       RootIsLost, Ends, Mode, OnRecord
  <1>2. StageIsOpen'
    BY DEF WhoWorks, StageIsOpen, AfterHandler, IntentFits, Announce, ConfirmFinal,
       Surrender, RootFollows, RootIsLost, Ends, Mode, OnRecord
  <1>3. Unfenced'
    BY DEF Unfenced, ReadyIsProved, DocumentInv, WhoWorks, IntentFits, Announce,
       ConfirmFinal, Surrender, RootFollows, RootIsLost, Ends, Mode, OnRecord
  <1>4. ModeFits'
    BY DEF WhoWorks, ModeFits, Announce, ConfirmFinal, Surrender, RootFollows,
       RootIsLost, Ends, Mode, OnRecord
  <1>5. IntentFits'
    BY DEF IntentFits, Unfenced, ReadyIsProved, WhoWorks, ModeFits, Announce,
       ConfirmFinal, Surrender, RootFollows, RootIsLost, Ends, Mode, OnRecord
  <1>6. ReadyIsProved'
    BY DEF ReadyIsProved, ModeFits, IntentFits, Unfenced, WhoWorks, Announce,
       ConfirmFinal, Surrender, RootFollows, RootIsLost, Ends, Mode, OnRecord
  <1>7. DocumentInv'
    BY DEF DocumentInv, IntentFits, Unfenced, ReadyIsProved, WhoWorks, AfterHandler,
       EvidenceFits, Announce, ConfirmFinal, Surrender, RootFollows, RootIsLost, Ends,
       Mode, OnRecord
  <1>8. StoresFit'
    BY DEF StoresFit, ReadyIsProved, WhoWorks, HeldWhileOwed, OnRecord, IntentFits,
       AfterHandler, EvidenceFits, Announce, ConfirmFinal, Surrender, RootFollows,
       RootIsLost, Ends, Mode
  <1>9. EvidenceFits'
    BY DEF EvidenceFits, IntentFits, AfterHandler, ReadyIsProved, StageIsOpen,
       DocumentInv, Announce, ConfirmFinal, Surrender, RootFollows, RootIsLost, Ends,
       Mode, OnRecord
  <1>10. AfterHandler'
    BY DEF AfterHandler, EvidenceFits, IntentFits, WhoWorks, Announce, ConfirmFinal,
       Surrender, RootFollows, RootIsLost, Ends, Mode, OnRecord
  <1> QED
    BY <1>1, <1>2, <1>3, <1>4, <1>5, <1>6, <1>7, <1>8, <1>9, <1>10 DEF DesktopRules

LEMMA GiveUpKeeps ==
  ASSUME DesktopAssumption, DesktopIInv, HandlerFails,
         task.pc \in HandlerPlaces
  PROVE  DesktopRules'
  <1> USE DEF DesktopIInv, DesktopTyped, DesktopRules, DesktopAssumption, Ledgers,
     Vaults, StageStates, Documents, Evidences, Roots, Apps, Tasks, Stores, Matches,
     Exact, Proved, DurableKinds, LegacyKinds, LegacyPlaces, HandlerPlaces, WorkCalls,
     Rest, storeVars, rootVars, dpVars, NoWork, Intents, CallPlaces, TaskPlaces,
     AppPlaces, Modes, HoldStates
  <1>1. WhoWorks'
    BY DEF WhoWorks, ModeFits, HandlerFails, Ends, OnRecord
  <1>2. StageIsOpen'
    BY DEF WhoWorks, StageIsOpen, AfterHandler, IntentFits, HandlerFails, Ends,
       OnRecord
  <1>3. Unfenced'
    BY DEF Unfenced, ReadyIsProved, DocumentInv, WhoWorks, IntentFits, HandlerFails,
       Ends, OnRecord
  <1>4. ModeFits'
    BY DEF WhoWorks, ModeFits, HandlerFails, Ends, OnRecord
  <1>5. IntentFits'
    BY DEF IntentFits, Unfenced, ReadyIsProved, WhoWorks, ModeFits, HandlerFails,
       Ends, OnRecord
  <1>6. ReadyIsProved'
    BY DEF ReadyIsProved, ModeFits, IntentFits, Unfenced, WhoWorks, HandlerFails,
       Ends, OnRecord
  <1>7. DocumentInv'
    BY DEF DocumentInv, IntentFits, Unfenced, ReadyIsProved, WhoWorks, AfterHandler,
       EvidenceFits, HandlerFails, Ends, OnRecord
  <1>8. StoresFit'
    BY DEF StoresFit, ReadyIsProved, WhoWorks, HeldWhileOwed, OnRecord, IntentFits,
       AfterHandler, EvidenceFits, HandlerFails, Ends
  <1>9. EvidenceFits'
    BY DEF EvidenceFits, IntentFits, AfterHandler, ReadyIsProved, StageIsOpen,
       DocumentInv, HandlerFails, Ends, OnRecord
  <1>10. AfterHandler'
    BY DEF AfterHandler, EvidenceFits, IntentFits, WhoWorks, HandlerFails, Ends,
       OnRecord
  <1> QED
    BY <1>1, <1>2, <1>3, <1>4, <1>5, <1>6, <1>7, <1>8, <1>9, <1>10 DEF DesktopRules

LEMMA DispatchKeeps ==
  ASSUME DesktopAssumption, DesktopIInv, HandleDispatch
  PROVE  DesktopRules'
  <1> USE DEF DesktopIInv, DesktopTyped, DesktopRules, DesktopAssumption, Ledgers,
     Vaults, StageStates, Documents, Evidences, Roots, Apps, Tasks, Stores, Matches,
     Exact, Proved, DurableKinds, LegacyKinds, LegacyPlaces, HandlerPlaces, WorkCalls,
     Rest, storeVars, rootVars, dpVars, NoWork, Intents, CallPlaces, TaskPlaces,
     AppPlaces, Modes, HoldStates
  <1>1. WhoWorks'
    BY DEF WhoWorks, ModeFits, HandleDispatch, Changes, OnRecord
  <1>2. StageIsOpen'
    BY DEF WhoWorks, StageIsOpen, AfterHandler, IntentFits, HandleDispatch, Changes,
       OnRecord
  <1>3. Unfenced'
    BY DEF Unfenced, ReadyIsProved, DocumentInv, WhoWorks, IntentFits, HandleDispatch,
       Changes, OnRecord
  <1>4. ModeFits'
    BY DEF WhoWorks, ModeFits, HandleDispatch, Changes, OnRecord
  <1>5. IntentFits'
    BY DEF IntentFits, Unfenced, ReadyIsProved, WhoWorks, ModeFits, HandleDispatch,
       Changes, OnRecord
  <1>6. ReadyIsProved'
    BY DEF ReadyIsProved, ModeFits, IntentFits, Unfenced, WhoWorks, HandleDispatch,
       Changes, OnRecord
  <1>7. DocumentInv'
    BY DEF DocumentInv, IntentFits, Unfenced, ReadyIsProved, WhoWorks, AfterHandler,
       EvidenceFits, HandleDispatch, Changes, OnRecord
  <1>8. StoresFit'
    BY DEF StoresFit, ReadyIsProved, WhoWorks, HeldWhileOwed, OnRecord, IntentFits,
       AfterHandler, EvidenceFits, HandleDispatch, Changes
  <1>9. EvidenceFits'
    BY DEF EvidenceFits, IntentFits, AfterHandler, ReadyIsProved, StageIsOpen,
       DocumentInv, HandleDispatch, Changes, OnRecord
  <1>10. AfterHandler'
    BY DEF AfterHandler, EvidenceFits, IntentFits, WhoWorks, HandleDispatch, Changes,
       OnRecord
  <1> QED
    BY <1>1, <1>2, <1>3, <1>4, <1>5, <1>6, <1>7, <1>8, <1>9, <1>10 DEF DesktopRules

LEMMA ReserveDoesNoHarm ==
  ASSUME DesktopAssumption, DesktopIInv, task.pc \in {"handle", "open"},
         task.kind = "reserve",
         task'.pc \in {"open", "inspect"}, task'.kind = "reserve",
         UNCHANGED <<ledger, hold, rootVars, app, call, sent, last>>,
         vault'.marker = vault.marker, vault'.kept = vault.kept,
         task'.pc = "inspect" => vault'.stage = "opened"
  PROVE  DesktopRules'
  <1> USE DEF DesktopIInv, DesktopTyped, DesktopRules, DesktopAssumption, Ledgers,
     Vaults, StageStates, Documents, Evidences, Roots, Apps, Tasks, Stores, Matches,
     Exact, Proved, DurableKinds, LegacyKinds, LegacyPlaces, HandlerPlaces, WorkCalls,
     Rest, storeVars, rootVars, dpVars, NoWork, Intents, CallPlaces, TaskPlaces,
     AppPlaces, Modes, HoldStates
  <1>1. WhoWorks'
    BY DEF WhoWorks, ModeFits, OnRecord
  <1>2. StageIsOpen'
    BY DEF WhoWorks, StageIsOpen, AfterHandler, IntentFits, OnRecord
  <1>3. Unfenced'
    BY DEF Unfenced, ReadyIsProved, DocumentInv, WhoWorks, IntentFits, OnRecord
  <1>4. ModeFits'
    BY DEF WhoWorks, ModeFits, OnRecord
  <1>5. IntentFits'
    BY DEF IntentFits, Unfenced, ReadyIsProved, WhoWorks, ModeFits, OnRecord
  <1>6. ReadyIsProved'
    BY DEF ReadyIsProved, ModeFits, IntentFits, Unfenced, WhoWorks, OnRecord
  <1>7. DocumentInv'
    BY DEF DocumentInv, IntentFits, Unfenced, ReadyIsProved, WhoWorks, AfterHandler,
       EvidenceFits, OnRecord
  <1>8. StoresFit'
    BY DEF StoresFit, ReadyIsProved, WhoWorks, HeldWhileOwed, OnRecord, IntentFits,
       AfterHandler, EvidenceFits
  <1>9. EvidenceFits'
    BY DEF EvidenceFits, IntentFits, AfterHandler, ReadyIsProved, StageIsOpen,
       DocumentInv, OnRecord
  <1>10. AfterHandler'
    BY DEF AfterHandler, EvidenceFits, IntentFits, WhoWorks, OnRecord
  <1> QED
    BY <1>1, <1>2, <1>3, <1>4, <1>5, <1>6, <1>7, <1>8, <1>9, <1>10 DEF DesktopRules

LEMMA ReserveKeeps ==
  ASSUME DesktopAssumption, DesktopIInv, HandleReserve, ~Conflict, ~HandlerFails
  PROVE  DesktopRules'
  <1>1. task \in Tasks /\ vault \in Vaults
    BY DEF DesktopIInv, DesktopTyped
  <1>2. /\ task.pc \in {"handle", "open"} /\ task.kind = "reserve"
        /\ UNCHANGED <<ledger, hold, rootVars, app, call, sent, last>>
        /\ task' \in {[task EXCEPT !.pc = "open"], [task EXCEPT !.pc = "inspect"]}
    BY DEF HandleReserve, Changes, storeVars
  <1>3. /\ vault'.marker = vault.marker /\ vault'.kept = vault.kept
        /\ task'.pc = "inspect" => vault'.stage = "opened"
    BY <1>1 DEF HandleReserve, Changes, storeVars, Vaults, Tasks
  <1>4. task'.pc \in {"open", "inspect"} /\ task'.kind = "reserve"
    BY <1>1, <1>2 DEF Tasks
  <1> QED
    BY <1>2, <1>3, <1>4, ReserveDoesNoHarm

LEMMA ReclaimKeeps ==
  ASSUME DesktopAssumption, DesktopIInv, HandleReclaim \/ HandleArchive
  PROVE  DesktopRules'
  <1> USE DEF DesktopIInv, DesktopTyped, DesktopRules, DesktopAssumption, Ledgers,
     Vaults, StageStates, Documents, Evidences, Roots, Apps, Tasks, Stores, Matches,
     Exact, Proved, DurableKinds, LegacyKinds, LegacyPlaces, HandlerPlaces, WorkCalls,
     Rest, storeVars, rootVars, dpVars, NoWork, Intents, CallPlaces, TaskPlaces,
     AppPlaces, Modes, HoldStates
  <1>1. WhoWorks'
    BY DEF WhoWorks, ModeFits, HandleReclaim, HandleArchive, Changes, OnRecord
  <1>2. StageIsOpen'
    BY DEF WhoWorks, StageIsOpen, AfterHandler, IntentFits, HandleReclaim,
       HandleArchive, Changes, OnRecord
  <1>3. Unfenced'
    BY DEF Unfenced, ReadyIsProved, DocumentInv, WhoWorks, IntentFits, HandleReclaim,
       HandleArchive, Changes, OnRecord
  <1>4. ModeFits'
    BY DEF WhoWorks, ModeFits, HandleReclaim, HandleArchive, Changes, OnRecord
  <1>5. IntentFits'
    BY DEF IntentFits, Unfenced, ReadyIsProved, WhoWorks, ModeFits, HandleReclaim,
       HandleArchive, Changes, OnRecord
  <1>6. ReadyIsProved'
    BY DEF ReadyIsProved, ModeFits, IntentFits, Unfenced, WhoWorks, HandleReclaim,
       HandleArchive, Changes, OnRecord
  <1>7. DocumentInv'
    BY DEF DocumentInv, IntentFits, Unfenced, ReadyIsProved, WhoWorks, AfterHandler,
       EvidenceFits, HandleReclaim, HandleArchive, Changes, OnRecord
  <1>8. StoresFit'
    BY DEF StoresFit, ReadyIsProved, WhoWorks, HeldWhileOwed, OnRecord, IntentFits,
       AfterHandler, EvidenceFits, HandleReclaim, HandleArchive, Changes
  <1>9. EvidenceFits'
    BY DEF EvidenceFits, IntentFits, AfterHandler, ReadyIsProved, StageIsOpen,
       DocumentInv, HandleReclaim, HandleArchive, Changes, OnRecord
  <1>10. AfterHandler'
    BY DEF AfterHandler, EvidenceFits, IntentFits, WhoWorks, HandleReclaim,
       HandleArchive, Changes, OnRecord
  <1> QED
    BY <1>1, <1>2, <1>3, <1>4, <1>5, <1>6, <1>7, <1>8, <1>9, <1>10 DEF DesktopRules

LEMMA CleanupKeeps ==
  ASSUME DesktopAssumption, DesktopIInv, HandleCleanup, ~Conflict
  PROVE  DesktopRules'
  <1> USE DEF DesktopIInv, DesktopTyped, DesktopRules, DesktopAssumption, Ledgers,
     Vaults, StageStates, Documents, Evidences, Roots, Apps, Tasks, Stores, Matches,
     Exact, Proved, DurableKinds, LegacyKinds, LegacyPlaces, HandlerPlaces, WorkCalls,
     Rest, storeVars, rootVars, dpVars, NoWork, Intents, CallPlaces, TaskPlaces,
     AppPlaces, Modes, HoldStates
  <1>1. WhoWorks'
    BY DEF WhoWorks, ModeFits, HandleCleanup, Changes, OnRecord
  <1>2. StageIsOpen'
    BY DEF WhoWorks, StageIsOpen, AfterHandler, IntentFits, HandleCleanup, Changes,
       OnRecord
  <1>3. Unfenced'
    BY DEF Unfenced, ReadyIsProved, DocumentInv, WhoWorks, IntentFits, HandleCleanup,
       Changes, OnRecord
  <1>4. ModeFits'
    BY DEF WhoWorks, ModeFits, HandleCleanup, Changes, OnRecord
  <1>5. IntentFits'
    BY DEF IntentFits, Unfenced, ReadyIsProved, WhoWorks, ModeFits, HandleCleanup,
       Changes, OnRecord
  <1>6. ReadyIsProved'
    BY DEF ReadyIsProved, ModeFits, IntentFits, Unfenced, WhoWorks, HandleCleanup,
       Changes, OnRecord
  <1>7. DocumentInv'
    BY DEF DocumentInv, IntentFits, Unfenced, ReadyIsProved, WhoWorks, AfterHandler,
       EvidenceFits, HandleCleanup, Changes, OnRecord
  <1>8. StoresFit'
    BY DEF StoresFit, ReadyIsProved, WhoWorks, HeldWhileOwed, OnRecord, IntentFits,
       AfterHandler, EvidenceFits, HandleCleanup, Changes
  <1>9. EvidenceFits'
    BY DEF EvidenceFits, IntentFits, AfterHandler, ReadyIsProved, StageIsOpen,
       DocumentInv, HandleCleanup, Changes, OnRecord
  <1>10. AfterHandler'
    BY DEF AfterHandler, EvidenceFits, IntentFits, WhoWorks, HandleCleanup, Changes,
       OnRecord
  <1> QED
    BY <1>1, <1>2, <1>3, <1>4, <1>5, <1>6, <1>7, <1>8, <1>9, <1>10 DEF DesktopRules

LEMMA InspectKeeps ==
  ASSUME DesktopAssumption, DesktopIInv, InspectAfter, AfterFits
  PROVE  DesktopRules'
  <1>1. /\ Write(Closed) \/ Write(ClosedWithoutReceipt)
             => /\ doc'.intent = NoIntent /\ doc'.evidence = Stores
                /\ doc'.manual = doc.manual
                /\ root'.behind = TRUE /\ root'.fence = root.fence
        /\ Write(Closed) => doc'.committed = TRUE
        /\ Write(ClosedWithoutReceipt) => doc'.committed = doc.committed
        /\ Write(Conflicted) \/ Write(Surrendered(TRUE)) \/ Write(Surrendered(FALSE))
             => /\ doc'.intent = NoIntent /\ doc'.evidence = Stores
                /\ doc'.manual = TRUE
                /\ root'.behind = TRUE /\ root'.fence = root.fence
    BY FinalDoes DEF DesktopIInv
  <1> USE DEF DesktopIInv, DesktopTyped, DesktopRules, DesktopAssumption, Ledgers,
     Vaults, StageStates, Documents, Evidences, Roots, Apps, Tasks, Stores, Matches,
     Exact, Proved, DurableKinds, LegacyKinds, LegacyPlaces, HandlerPlaces, WorkCalls,
     Rest, storeVars, rootVars, dpVars, NoWork, Intents, CallPlaces, TaskPlaces,
     AppPlaces, Modes, HoldStates
  <1>2. WhoWorks'
    BY <1>1 DEF WhoWorks, ModeFits, InspectAfter, OnRecord
  <1>3. StageIsOpen'
    BY <1>1 DEF WhoWorks, StageIsOpen, AfterHandler, IntentFits, InspectAfter,
       OnRecord
  <1>4. Unfenced'
    BY <1>1 DEF Unfenced, ReadyIsProved, DocumentInv, WhoWorks, IntentFits,
       InspectAfter, OnRecord
  <1>5. ModeFits'
    BY <1>1 DEF WhoWorks, ModeFits, InspectAfter, OnRecord
  <1>6. IntentFits'
    BY <1>1 DEF IntentFits, Unfenced, ReadyIsProved, WhoWorks, ModeFits, InspectAfter,
       OnRecord
  <1>7. ReadyIsProved'
    BY <1>1 DEF ReadyIsProved, ModeFits, IntentFits, Unfenced, WhoWorks, InspectAfter,
       OnRecord
  <1>8. DocumentInv'
    BY <1>1 DEF DocumentInv, IntentFits, Unfenced, ReadyIsProved, WhoWorks,
       AfterHandler, EvidenceFits, InspectAfter, OnRecord
  <1>9. StoresFit'
    BY <1>1 DEF StoresFit, ReadyIsProved, WhoWorks, HeldWhileOwed, OnRecord,
       IntentFits, AfterHandler, EvidenceFits, InspectAfter
  <1>10. EvidenceFits'
    BY <1>1 DEF EvidenceFits, IntentFits, AfterHandler, ReadyIsProved, StageIsOpen,
       DocumentInv, InspectAfter, OnRecord
  <1>11. AfterHandler'
    BY <1>1 DEF AfterHandler, EvidenceFits, IntentFits, WhoWorks, InspectAfter,
       OnRecord
  <1> QED
    BY <1>2, <1>3, <1>4, <1>5, <1>6, <1>7, <1>8, <1>9, <1>10, <1>11 DEF DesktopRules

LEMMA QuietStartKeeps ==
  ASSUME DesktopAssumption, DesktopIInv,
         app.pc \in {"down", "inspect", "confirm"},
         UNCHANGED <<storeVars, doc, task, call, sent, last>>,
         app'.pc \in {"inspect", "up", "startup"},
         app'.pc = "inspect" => app'.mode = "detached",
         app'.mode = "ready" => Proved /\ UNCHANGED root,
         root'.fence => root.fence \/ (doc.intent \notin DurableKinds /\ last \in Rest),
         root'.behind => root.behind
  PROVE  DesktopRules'
  <1> USE DEF DesktopIInv, DesktopTyped, DesktopRules, DesktopAssumption, Ledgers,
     Vaults, StageStates, Documents, Evidences, Roots, Apps, Tasks, Stores, Matches,
     Exact, Proved, DurableKinds, LegacyKinds, LegacyPlaces, HandlerPlaces, WorkCalls,
     Rest, storeVars, rootVars, dpVars, NoWork, Intents, CallPlaces, TaskPlaces,
     AppPlaces, Modes, HoldStates
  <1>1. WhoWorks'
    BY DEF WhoWorks, ModeFits, OnRecord
  <1>2. StageIsOpen'
    BY DEF WhoWorks, StageIsOpen, AfterHandler, IntentFits, OnRecord
  <1>3. Unfenced'
    BY DEF Unfenced, ReadyIsProved, DocumentInv, WhoWorks, IntentFits, OnRecord
  <1>4. ModeFits'
    BY DEF WhoWorks, ModeFits, OnRecord
  <1>5. IntentFits'
    BY DEF IntentFits, Unfenced, ReadyIsProved, WhoWorks, ModeFits, OnRecord
  <1>6. ReadyIsProved'
    BY DEF ReadyIsProved, ModeFits, IntentFits, Unfenced, WhoWorks, OnRecord
  <1>7. DocumentInv'
    BY DEF DocumentInv, IntentFits, Unfenced, ReadyIsProved, WhoWorks, AfterHandler,
       EvidenceFits, OnRecord
  <1>8. StoresFit'
    BY DEF StoresFit, ReadyIsProved, WhoWorks, HeldWhileOwed, OnRecord, IntentFits,
       AfterHandler, EvidenceFits
  <1>9. EvidenceFits'
    BY DEF EvidenceFits, IntentFits, AfterHandler, ReadyIsProved, StageIsOpen,
       DocumentInv, OnRecord
  <1>10. AfterHandler'
    BY DEF AfterHandler, EvidenceFits, IntentFits, WhoWorks, OnRecord
  <1> QED
    BY <1>1, <1>2, <1>3, <1>4, <1>5, <1>6, <1>7, <1>8, <1>9, <1>10 DEF DesktopRules

LEMMA ResumeKeeps ==
  ASSUME DesktopAssumption, DesktopIInv,
         app.pc = "inspect", doc.intent \in DurableKinds, ~root.fence,
         UNCHANGED <<storeVars, doc, call, sent, last>>,
         app'.pc = "resume", app'.mode = "recovery_pending",
         task' = [pc |-> "handle", kind |-> doc.intent, gen |-> doc.gen],
         RootFollows
  PROVE  DesktopRules'
  <1> USE DEF DesktopIInv, DesktopTyped, DesktopRules, DesktopAssumption, Ledgers,
     Vaults, StageStates, Documents, Evidences, Roots, Apps, Tasks, Stores, Matches,
     Exact, Proved, DurableKinds, LegacyKinds, LegacyPlaces, HandlerPlaces, WorkCalls,
     Rest, storeVars, rootVars, dpVars, NoWork, Intents, CallPlaces, TaskPlaces,
     AppPlaces, Modes, HoldStates
  <1>1. WhoWorks'
    BY DEF WhoWorks, ModeFits, OnRecord, RootFollows
  <1>2. StageIsOpen'
    BY DEF WhoWorks, StageIsOpen, AfterHandler, IntentFits, OnRecord, RootFollows
  <1>3. Unfenced'
    BY DEF Unfenced, ReadyIsProved, DocumentInv, WhoWorks, IntentFits, OnRecord,
       RootFollows
  <1>4. ModeFits'
    BY DEF WhoWorks, ModeFits, OnRecord, RootFollows
  <1>5. IntentFits'
    BY DEF IntentFits, Unfenced, ReadyIsProved, WhoWorks, ModeFits, OnRecord,
       RootFollows
  <1>6. ReadyIsProved'
    BY DEF ReadyIsProved, ModeFits, IntentFits, Unfenced, WhoWorks, OnRecord,
       RootFollows
  <1>7. DocumentInv'
    BY DEF DocumentInv, IntentFits, Unfenced, ReadyIsProved, WhoWorks, AfterHandler,
       EvidenceFits, OnRecord, RootFollows
  <1>8. StoresFit'
    BY DEF StoresFit, ReadyIsProved, WhoWorks, HeldWhileOwed, OnRecord, IntentFits,
       AfterHandler, EvidenceFits, RootFollows
  <1>9. EvidenceFits'
    BY DEF EvidenceFits, IntentFits, AfterHandler, ReadyIsProved, StageIsOpen,
       DocumentInv, OnRecord, RootFollows
  <1>10. AfterHandler'
    BY DEF AfterHandler, EvidenceFits, IntentFits, WhoWorks, OnRecord, RootFollows
  <1> QED
    BY <1>1, <1>2, <1>3, <1>4, <1>5, <1>6, <1>7, <1>8, <1>9, <1>10 DEF DesktopRules

LEMMA StartEndKeeps ==
  ASSUME DesktopAssumption, DesktopIInv,
         app.pc \in {"resume", "startup"}, task.pc \in {"done", "failed"},
         UNCHANGED <<storeVars, rootVars, call, sent, last>>, task' = NoWork,
         app'.pc = "up", app'.mode = "ready" => app.mode = "ready" 
  PROVE  DesktopRules'
  <1> USE DEF DesktopIInv, DesktopTyped, DesktopRules, DesktopAssumption, Ledgers,
     Vaults, StageStates, Documents, Evidences, Roots, Apps, Tasks, Stores, Matches,
     Exact, Proved, DurableKinds, LegacyKinds, LegacyPlaces, HandlerPlaces, WorkCalls,
     Rest, storeVars, rootVars, dpVars, NoWork, Intents, CallPlaces, TaskPlaces,
     AppPlaces, Modes, HoldStates
  <1>1. WhoWorks'
    BY DEF WhoWorks, ModeFits, OnRecord
  <1>2. StageIsOpen'
    BY DEF WhoWorks, StageIsOpen, AfterHandler, IntentFits, OnRecord
  <1>3. Unfenced'
    BY DEF Unfenced, ReadyIsProved, DocumentInv, WhoWorks, IntentFits, OnRecord
  <1>4. ModeFits'
    BY DEF WhoWorks, ModeFits, OnRecord
  <1>5. IntentFits'
    BY DEF IntentFits, Unfenced, ReadyIsProved, WhoWorks, ModeFits, OnRecord
  <1>6. ReadyIsProved'
    BY DEF ReadyIsProved, ModeFits, IntentFits, Unfenced, WhoWorks, OnRecord
  <1>7. DocumentInv'
    BY DEF DocumentInv, IntentFits, Unfenced, ReadyIsProved, WhoWorks, AfterHandler,
       EvidenceFits, OnRecord
  <1>8. StoresFit'
    BY DEF StoresFit, ReadyIsProved, WhoWorks, HeldWhileOwed, OnRecord, IntentFits,
       AfterHandler, EvidenceFits
  <1>9. EvidenceFits'
    BY DEF EvidenceFits, IntentFits, AfterHandler, ReadyIsProved, StageIsOpen,
       DocumentInv, OnRecord
  <1>10. AfterHandler'
    BY DEF AfterHandler, EvidenceFits, IntentFits, WhoWorks, OnRecord
  <1> QED
    BY <1>1, <1>2, <1>3, <1>4, <1>5, <1>6, <1>7, <1>8, <1>9, <1>10 DEF DesktopRules

LEMMA SurrenderKeeps ==
  ASSUME DesktopAssumption, DesktopIInv,
         app.pc = "inspect", Write(Surrendered(TRUE)) \/ Write(Surrendered(FALSE)),
         root.fence \/ doc.intent \in LegacyKinds,
         UNCHANGED <<storeVars, task, call, sent, last>>,
         app'.pc \in {"inspect", "confirm"}, app'.mode = "detached" 
  PROVE  DesktopRules'
  <1>1. /\ Write(Closed) \/ Write(ClosedWithoutReceipt)
             => /\ doc'.intent = NoIntent /\ doc'.evidence = Stores
                /\ doc'.manual = doc.manual
                /\ root'.behind = TRUE /\ root'.fence = root.fence
        /\ Write(Closed) => doc'.committed = TRUE
        /\ Write(ClosedWithoutReceipt) => doc'.committed = doc.committed
        /\ Write(Conflicted) \/ Write(Surrendered(TRUE)) \/ Write(Surrendered(FALSE))
             => /\ doc'.intent = NoIntent /\ doc'.evidence = Stores
                /\ doc'.manual = TRUE
                /\ root'.behind = TRUE /\ root'.fence = root.fence
    BY FinalDoes DEF DesktopIInv
  <1> USE DEF DesktopIInv, DesktopTyped, DesktopRules, DesktopAssumption, Ledgers,
     Vaults, StageStates, Documents, Evidences, Roots, Apps, Tasks, Stores, Matches,
     Exact, Proved, DurableKinds, LegacyKinds, LegacyPlaces, HandlerPlaces, WorkCalls,
     Rest, storeVars, rootVars, dpVars, NoWork, Intents, CallPlaces, TaskPlaces,
     AppPlaces, Modes, HoldStates
  <1>2. WhoWorks'
    BY <1>1 DEF WhoWorks, ModeFits, OnRecord
  <1>3. StageIsOpen'
    BY <1>1 DEF WhoWorks, StageIsOpen, AfterHandler, IntentFits, OnRecord
  <1>4. Unfenced'
    BY <1>1 DEF Unfenced, ReadyIsProved, DocumentInv, WhoWorks, IntentFits, OnRecord
  <1>5. ModeFits'
    BY <1>1 DEF WhoWorks, ModeFits, OnRecord
  <1>6. IntentFits'
    BY <1>1 DEF IntentFits, Unfenced, ReadyIsProved, WhoWorks, ModeFits, OnRecord
  <1>7. ReadyIsProved'
    BY <1>1 DEF ReadyIsProved, ModeFits, IntentFits, Unfenced, WhoWorks, OnRecord
  <1>8. DocumentInv'
    BY ZenonT(40), <1>1 DEF DocumentInv, IntentFits, Unfenced, ReadyIsProved, WhoWorks,
       AfterHandler, EvidenceFits, OnRecord
  <1>9. StoresFit'
    BY ZenonT(40), <1>1 DEF StoresFit, ReadyIsProved, WhoWorks, HeldWhileOwed, OnRecord,
       IntentFits, AfterHandler, EvidenceFits
  <1>10. EvidenceFits'
    BY <1>1 DEF EvidenceFits, IntentFits, AfterHandler, ReadyIsProved, StageIsOpen,
       DocumentInv, OnRecord
  <1>11. AfterHandler'
    BY <1>1 DEF AfterHandler, EvidenceFits, IntentFits, WhoWorks, OnRecord
  <1> QED
    BY <1>2, <1>3, <1>4, <1>5, <1>6, <1>7, <1>8, <1>9, <1>10, <1>11 DEF DesktopRules

LEMMA StartsKeep ==
  ASSUME DesktopAssumption, DesktopIInv,
         \/ StartUp \/ StartDetached \/ FollowCommit \/ Verify \/ AcknowledgeRecovery
         \/ ConfirmManual \/ Settle \/ ResumeIntent
  PROVE  DesktopRules'
  <1>1. /\ app \in Apps /\ root \in Roots
        /\ app.pc \in {"inspect", "confirm"} => app.mode = "detached" /\ task.pc = "idle"
    BY DEF DesktopIInv, DesktopTyped, DesktopRules, WhoWorks
  <1>2. CASE StartUp
    <2>1. app'.pc = "inspect" /\ app'.mode = "detached"
      BY <1>2 DEF StartUp, Down
    <2> QED
      BY <1>2, <2>1, QuietStartKeeps DEF StartUp, startVars, rootVars
  <1>3. CASE StartDetached
    <2>1. app'.pc = "up" /\ app'.mode = "detached"
      BY <1>1, <1>3 DEF StartDetached, Up, Apps
    <2> QED
      BY <1>3, <2>1, QuietStartKeeps DEF StartDetached, startVars, rootVars
  <1>4. CASE FollowCommit
    <2>1. app' = app \/ (app'.pc = "up" /\ app'.mode \in {"fused", "detached"})
      BY <1>1, <1>4 DEF FollowCommit, Up, Apps
    <2>2. root'.fence = root.fence /\ (root'.behind => root.behind)
      BY <1>1, <1>4 DEF FollowCommit, RootFollows, RootIsLost, Roots
    <2> QED
      BY <1>1, <1>4, <2>1, <2>2, QuietStartKeeps DEF FollowCommit, startVars
  <1>5. CASE Verify
    <2>1. /\ root'.fence => root.fence \/ (doc.intent \notin DurableKinds /\ last \in Rest)
          /\ root'.behind => root.behind
      BY <1>5 DEF Verify, DesktopIInv, DesktopRules, DocumentInv
    <2> QED
      BY <1>1, <1>5, <2>1, QuietStartKeeps DEF Verify, startVars
  <1>6. CASE AcknowledgeRecovery
    <2>1. app' = app \/ (app'.pc = "up" /\ app'.mode = "fused")
      BY <1>1, <1>6 DEF AcknowledgeRecovery, Up, Apps
    <2>2. (root'.fence => root.fence) /\ (root'.behind => root.behind)
      BY <1>1, <1>6 DEF AcknowledgeRecovery, Roots
    <2> QED
      BY <1>1, <1>6, <2>1, <2>2, QuietStartKeeps DEF AcknowledgeRecovery, startVars
  <1>7. CASE ConfirmManual
    <2>1. \/ app'.pc = "inspect" /\ app'.mode = app.mode
          \/ app'.pc = "up" /\ app'.mode = "fused"
      BY <1>1, <1>7 DEF ConfirmManual, Up, Apps
    <2>2. root'.fence = root.fence /\ (root'.behind => root.behind)
      BY <1>1, <1>7 DEF ConfirmManual, RootFollows, RootIsLost, Roots
    <2> QED
      BY <1>1, <1>7, <2>1, <2>2, QuietStartKeeps DEF ConfirmManual, startVars
  <1>8. CASE Settle
    <2>1. /\ app'.pc \in {"up", "startup"}
          /\ app'.mode = "ready" => Proved
      BY <1>1, <1>8 DEF Settle, Up, Open, Apps, Proved
    <2> QED
      BY <1>8, <2>1, QuietStartKeeps DEF Settle, startVars, rootVars
  <1>9. CASE ResumeIntent
    <2>1. CASE task' = task
      <3>1. app'.pc = "up" /\ app'.mode \in {"fused", "detached"}
        <4>1. task.pc # "handle"
          BY <1>1, <1>9 DEF ResumeIntent
        <4>2. app' \in {[app EXCEPT !.pc = "up", !.mode = "fused", !.usable = FALSE],
                        [app EXCEPT !.pc = "up", !.mode = "detached", !.usable = FALSE]}
          BY <1>9, <2>1, <4>1 DEF ResumeIntent, Up
        <4> QED
          BY <1>1, <4>2 DEF Apps
      <3>2. root'.fence = root.fence /\ (root'.behind => root.behind)
        BY <1>1, <1>9 DEF ResumeIntent, RootFollows, RootIsLost, Roots
      <3> QED
        BY <1>9, <2>1, <3>1, <3>2, QuietStartKeeps DEF ResumeIntent, startVars
    <2>2. CASE task' # task
      <3>1. /\ task' = [pc |-> "handle", kind |-> doc.intent, gen |-> doc.gen]
            /\ app' = [app EXCEPT !.pc = "resume", !.mode = "recovery_pending"]
            /\ RootFollows
        BY <1>9, <2>2 DEF ResumeIntent
      <3>2. app'.pc = "resume" /\ app'.mode = "recovery_pending"
        BY <1>1, <3>1 DEF Apps
      <3> QED
        BY <1>9, <3>1, <3>2, ResumeKeeps DEF ResumeIntent, startVars
    <2> QED
      BY <2>1, <2>2
  <1> QED
    BY <1>2, <1>3, <1>4, <1>5, <1>6, <1>7, <1>8, <1>9

LEMMA OtherStartsKeep ==
  ASSUME DesktopAssumption, DesktopIInv,
         Resumed \/ CapacityReconciled \/ EnterManual \/ ManualFromPending
  PROVE  DesktopRules'
  <1>1. /\ app \in Apps
        /\ task.pc = "done" => app.mode = "ready"
        /\ app.pc = "inspect" => app.mode = "detached"
    BY DEF DesktopIInv, DesktopTyped, DesktopRules, WhoWorks, ModeFits
  <1>2. CASE Resumed
    <2>1. app'.pc = "up" /\ (app'.mode = "ready" => app.mode = "ready")
      BY <1>1, <1>2 DEF Resumed, Up, Open, Apps
    <2> QED
      BY <1>2, <2>1, StartEndKeeps DEF Resumed, startVars
  <1>3. CASE CapacityReconciled
    <2>1. app'.pc = "up" /\ (app'.mode = "ready" => app.mode = "ready")
      BY <1>1, <1>3 DEF CapacityReconciled, Up, Open, Apps
    <2> QED
      BY <1>3, <2>1, StartEndKeeps DEF CapacityReconciled, startVars
  <1>4. CASE EnterManual
    BY <1>1, <1>4, SurrenderKeeps DEF EnterManual, startVars
  <1>5. CASE ManualFromPending
    <2>1. app'.pc = "confirm" /\ app'.mode = app.mode
      BY <1>1, <1>5 DEF ManualFromPending, Apps
    <2> QED
      BY <1>1, <1>5, <2>1, SurrenderKeeps DEF ManualFromPending, startVars
  <1> QED
    BY <1>2, <1>3, <1>4, <1>5

LEMMA BeginKeeps ==
  ASSUME DesktopAssumption, DesktopIInv,
         NEW kind \in DurableKinds \union LegacyKinds, NEW gen \in Nat,
         Begin(kind, gen), task.pc = "idle", UNCHANGED <<storeVars, sent>>,
         IF app.pc = "startup" THEN call' = "idle"
                               ELSE app.pc = "up" /\ call' \in WorkCalls,
         kind = "dispatch" => ~ledger.dispatched,
         kind = "archive" => vault.stage # "done",
         call' = "stage" => kind \in {"reserve", "reclaim"}
  PROVE  DesktopRules'
  <1>1. \/ /\ app.mode = "ready" /\ Proved /\ app' = app /\ last' = kind
           /\ doc'.intent = kind /\ doc'.evidence = doc.evidence
           /\ doc'.committed = FALSE /\ doc'.manual = doc.manual
           /\ root'.behind = TRUE /\ root'.fence = root.fence
           /\ task'.pc = IF kind \in LegacyKinds THEN "act" ELSE "announce"
           /\ task'.kind = kind
        \/ /\ doc' = doc /\ root' = root /\ last' = last
           /\ task'.pc = "failed" /\ task'.kind = NoIntent
           /\ \/ app' = app
              \/ app'.mode = "fused" /\ app'.pc = app.pc
    BY BeginDoes DEF DesktopIInv
  <1> USE DEF DesktopIInv, DesktopTyped, DesktopRules, DesktopAssumption, Ledgers,
     Vaults, StageStates, Documents, Evidences, Roots, Apps, Tasks, Stores, Matches,
     Exact, Proved, DurableKinds, LegacyKinds, LegacyPlaces, HandlerPlaces, WorkCalls,
     Rest, storeVars, rootVars, dpVars, NoWork, Intents, CallPlaces, TaskPlaces,
     AppPlaces, Modes, HoldStates
  <1>2. WhoWorks'
    BY <1>1 DEF WhoWorks, ModeFits, OnRecord
  <1>3. StageIsOpen'
    BY <1>1 DEF WhoWorks, StageIsOpen, AfterHandler, IntentFits, OnRecord
  <1>4. Unfenced'
    BY <1>1 DEF Unfenced, ReadyIsProved, DocumentInv, WhoWorks, IntentFits, OnRecord
  <1>5. ModeFits'
    BY <1>1 DEF WhoWorks, ModeFits, OnRecord
  <1>6. IntentFits'
    BY <1>1 DEF IntentFits, Unfenced, ReadyIsProved, WhoWorks, ModeFits, OnRecord
  <1>7. ReadyIsProved'
    BY <1>1 DEF ReadyIsProved, ModeFits, IntentFits, Unfenced, WhoWorks, OnRecord
  <1>8. DocumentInv'
    BY <1>1 DEF DocumentInv, IntentFits, Unfenced, ReadyIsProved, WhoWorks,
       AfterHandler, EvidenceFits, OnRecord
  <1>9. StoresFit'
    BY <1>1 DEF StoresFit, ReadyIsProved, WhoWorks, HeldWhileOwed, OnRecord,
       IntentFits, AfterHandler, EvidenceFits
  <1>10. EvidenceFits'
    BY <1>1 DEF EvidenceFits, IntentFits, AfterHandler, ReadyIsProved, StageIsOpen,
       DocumentInv, OnRecord
  <1>11. AfterHandler'
    BY <1>1 DEF AfterHandler, EvidenceFits, IntentFits, WhoWorks, OnRecord
  <1> QED
    BY <1>2, <1>3, <1>4, <1>5, <1>6, <1>7, <1>8, <1>9, <1>10, <1>11 DEF DesktopRules

LEMMA CallKeeps ==
  ASSUME DesktopAssumption, DesktopIInv, Post \/ Returns \/ Crash
  PROVE  DesktopRules'
  <1> USE DEF DesktopIInv, DesktopTyped, DesktopRules, DesktopAssumption, Ledgers,
     Vaults, StageStates, Documents, Evidences, Roots, Apps, Tasks, Stores, Matches,
     Exact, Proved, DurableKinds, LegacyKinds, LegacyPlaces, HandlerPlaces, WorkCalls,
     Rest, storeVars, rootVars, dpVars, NoWork, Intents, CallPlaces, TaskPlaces,
     AppPlaces, Modes, HoldStates
  <1>1. WhoWorks'
    BY DEF WhoWorks, ModeFits, Post, Returns, Crash, Down, OnRecord
  <1>2. StageIsOpen'
    BY DEF WhoWorks, StageIsOpen, AfterHandler, IntentFits, Post, Returns, Crash,
       Down, OnRecord
  <1>3. Unfenced'
    BY DEF Unfenced, ReadyIsProved, DocumentInv, WhoWorks, IntentFits, Post, Returns,
       Crash, Down, OnRecord
  <1>4. ModeFits'
    BY DEF WhoWorks, ModeFits, Post, Returns, Crash, Down, OnRecord
  <1>5. IntentFits'
    BY DEF IntentFits, Unfenced, ReadyIsProved, WhoWorks, ModeFits, Post, Returns,
       Crash, Down, OnRecord
  <1>6. ReadyIsProved'
    BY DEF ReadyIsProved, ModeFits, IntentFits, Unfenced, WhoWorks, Post, Returns,
       Crash, Down, OnRecord
  <1>7. DocumentInv'
    BY DEF DocumentInv, IntentFits, Unfenced, ReadyIsProved, WhoWorks, AfterHandler,
       EvidenceFits, Post, Returns, Crash, Down, OnRecord
  <1>8. StoresFit'
    BY DEF StoresFit, ReadyIsProved, WhoWorks, HeldWhileOwed, OnRecord, IntentFits,
       AfterHandler, EvidenceFits, Post, Returns, Crash, Down
  <1>9. EvidenceFits'
    BY DEF EvidenceFits, IntentFits, AfterHandler, ReadyIsProved, StageIsOpen,
       DocumentInv, Post, Returns, Crash, Down, OnRecord
  <1>10. AfterHandler'
    BY DEF AfterHandler, EvidenceFits, IntentFits, WhoWorks, Post, Returns, Crash,
       Down, OnRecord
  <1> QED
    BY <1>1, <1>2, <1>3, <1>4, <1>5, <1>6, <1>7, <1>8, <1>9, <1>10 DEF DesktopRules

LEMMA RefusedKeeps ==
  ASSUME DesktopAssumption, DesktopIInv,
         UNCHANGED <<storeVars, rootVars, task, last>>, call \in {"idle", "prove", "answered"},
         UNCHANGED sent, call' \in {"idle", "prove", "check"},
         UNCHANGED app \/ Mode("fused"), app.pc = "up", 
         call' = "check" => app.mode = "ready" /\ UNCHANGED app
  PROVE  DesktopRules'
  <1> USE DEF DesktopIInv, DesktopTyped, DesktopRules, DesktopAssumption, Ledgers,
     Vaults, StageStates, Documents, Evidences, Roots, Apps, Tasks, Stores, Matches,
     Exact, Proved, DurableKinds, LegacyKinds, LegacyPlaces, HandlerPlaces, WorkCalls,
     Rest, storeVars, rootVars, dpVars, NoWork, Intents, CallPlaces, TaskPlaces,
     AppPlaces, Modes, HoldStates
  <1>1. WhoWorks'
    BY DEF WhoWorks, ModeFits, Mode, OnRecord
  <1>2. StageIsOpen'
    BY DEF WhoWorks, StageIsOpen, AfterHandler, IntentFits, Mode, OnRecord
  <1>3. Unfenced'
    BY DEF Unfenced, ReadyIsProved, DocumentInv, WhoWorks, IntentFits, Mode, OnRecord
  <1>4. ModeFits'
    BY DEF WhoWorks, ModeFits, Mode, OnRecord
  <1>5. IntentFits'
    BY DEF IntentFits, Unfenced, ReadyIsProved, WhoWorks, ModeFits, Mode, OnRecord
  <1>6. ReadyIsProved'
    BY DEF ReadyIsProved, ModeFits, IntentFits, Unfenced, WhoWorks, Mode, OnRecord
  <1>7. DocumentInv'
    BY DEF DocumentInv, IntentFits, Unfenced, ReadyIsProved, WhoWorks, AfterHandler,
       EvidenceFits, Mode, OnRecord
  <1>8. StoresFit'
    BY DEF StoresFit, ReadyIsProved, WhoWorks, HeldWhileOwed, OnRecord, IntentFits,
       AfterHandler, EvidenceFits, Mode
  <1>9. EvidenceFits'
    BY DEF EvidenceFits, IntentFits, AfterHandler, ReadyIsProved, StageIsOpen,
       DocumentInv, Mode, OnRecord
  <1>10. AfterHandler'
    BY DEF AfterHandler, EvidenceFits, IntentFits, WhoWorks, Mode, OnRecord
  <1> QED
    BY <1>1, <1>2, <1>3, <1>4, <1>5, <1>6, <1>7, <1>8, <1>9, <1>10 DEF DesktopRules

\* The handlers of a dispatch, of the reopening of stages and of an archive leave what
\* the inspection after them expects, however often they were cut.
LEMMA EvidenceOfWhatIsRepaired ==
  ASSUME DesktopIInv, task.pc = "inspect",
         task.kind \in {"dispatch", "reclaim", "archive"}
  PROVE  AfterFits
  <1> USE DEF DesktopIInv, DesktopTyped, DesktopRules, Vaults, Ledgers, Documents,
     Evidences, DurableKinds, HandlerPlaces
  <1>1. doc.intent = task.kind
    BY DEF IntentFits
  <1>2. CASE task.kind = "dispatch"
    BY <1>1, <1>2 DEF AfterFits, EvidenceFits, AfterHandler
  <1>3. CASE task.kind = "reclaim"
    BY <1>1, <1>3 DEF AfterFits, EvidenceFits, AfterHandler
  <1>4. CASE task.kind = "archive"
    BY <1>1, <1>4 DEF AfterFits, EvidenceFits, AfterHandler
  <1> QED
    BY <1>2, <1>3, <1>4

LEMMA BeginsKeep ==
  ASSUME DesktopAssumption, DesktopIInv,
         \/ ReconcileCapacity \/ Purchase \/ Prove \/ StageAnswer \/ DownloadBytes
         \/ ReconcileManually
  PROVE  DesktopRules'
  <1>1. /\ vault.gen \in Nat
        /\ app.pc = "startup" => call = "idle"
        /\ call \in {"prove", "answered", "download"} => app.pc = "up" /\ task.pc = "idle"
        /\ app.pc = "up" /\ call = "idle" => task.pc = "idle"
        /\ call = "download" => vault.stage = "opened"
    BY DEF DesktopIInv, DesktopTyped, DesktopRules, WhoWorks, StageIsOpen, Vaults, Apps,
         AppPlaces, WorkCalls
  <1> USE DEF DurableKinds, LegacyKinds, WorkCalls
  <1>2. CASE ReconcileCapacity
    BY <1>1, <1>2, BeginKeeps DEF ReconcileCapacity, startVars
  <1>3. CASE Purchase
    BY <1>1, <1>3, BeginKeeps, RefusedKeeps DEF Purchase, TakesCall
  <1>4. CASE Prove
    BY <1>1, <1>4, BeginKeeps, RefusedKeeps DEF Prove
  <1>5. CASE StageAnswer
    BY <1>1, <1>5, BeginKeeps, RefusedKeeps DEF StageAnswer
  <1>6. CASE DownloadBytes
    BY <1>1, <1>6, BeginKeeps DEF DownloadBytes
  <1>7. CASE ReconcileManually
    BY <1>1, <1>7, BeginKeeps DEF ReconcileManually, TakesCall
  <1> QED
    BY <1>2, <1>3, <1>4, <1>5, <1>6, <1>7

LEMMA MutationKeeps ==
  ASSUME DesktopAssumption, DesktopIInv, Mutation
  PROVE  DesktopRules'
  <1>1. CASE LegacyAct \/ ReleaseUnsent \/ LegacyConfirm \/ LegacyFinal
    BY <1>1, LegacyActKeeps, LegacyEndKeeps
  <1>2. CASE Announce \/ ConfirmFinal \/ Surrender
    BY <1>2, AnnounceKeeps
  <1>3. CASE Handler
    <2>1. CASE HandlerFails /\ task.pc \in HandlerPlaces
      BY <2>1, GiveUpKeeps
    <2>2. CASE Conflict /\ (HandleReserve \/ HandleCleanup)
      BY <2>2, ConflictKeeps DEF HandleReserve, HandleCleanup, HandlerPlaces
    <2>3. CASE HandleReserve /\ ~Conflict
      <3>1. task.pc \in HandlerPlaces
        BY <2>3 DEF HandleReserve, HandlerPlaces
      <3> QED
        BY <2>1, <2>3, <3>1, ReserveKeeps
    <2>4. CASE HandleCleanup /\ ~Conflict
      BY <2>4, CleanupKeeps
    <2>5. CASE HandleDispatch \/ HandleReclaim \/ HandleArchive
      BY <2>5, DispatchKeeps, ReclaimKeeps
    <2>6. CASE task.pc \in {"handle", "open", "clear"} /\ Hurt /\ HandlerFails
      BY <2>1, <2>6 DEF HandlerPlaces
    <2> QED
      BY <1>3, <2>2, <2>3, <2>4, <2>5, <2>6 DEF Handler
  <1>4. CASE InspectAfter
    <2>1. CASE AfterFits
      BY <1>4, <2>1, InspectKeeps
    <2>2. CASE ~AfterFits
      <3>1. task.pc = "inspect" /\ Conflict
        BY <1>4, <2>2 DEF InspectAfter
      <3>2. task.kind \in DurableKinds /\ task.pc \in HandlerPlaces
        BY <3>1 DEF DesktopIInv, DesktopRules, IntentFits, HandlerPlaces
      <3>3. task.kind \in {"reserve", "cleanup"}
        BY <2>2, <3>1, <3>2, EvidenceOfWhatIsRepaired DEF DurableKinds
      <3> QED
        BY <3>1, <3>2, <3>3, ConflictKeeps
    <2> QED
      BY <2>1, <2>2
  <1> QED
    BY <1>1, <1>2, <1>3, <1>4 DEF Mutation

LEMMA DesktopStart ==
  ASSUME DesktopAssumption, Init
  PROVE  DesktopIInv
  <1> USE DEF Init
  <1>1. DesktopTyped
    <2>1. {} \in SUBSET Nat
      OBVIOUS
    <2>2. ledger \in Ledgers /\ vault \in Vaults /\ hold \in HoldStates
      BY DEF Ledgers, Vaults, StageStates, HoldStates
    <2>3. NoIntent \in Intents /\ Stores \in Evidences
      BY <2>2 DEF Intents, Evidences, Stores
    <2>4. doc \in Documents /\ root \in Roots
      BY <2>3 DEF Documents, Roots
    <2>5. app \in Apps
      BY DownIsApp
    <2>6. task \in Tasks
      BY <2>3 DEF Tasks, TaskPlaces, NoWork
    <2> QED
      BY <2>2, <2>3, <2>4, <2>5, <2>6 DEF DesktopTyped, CallPlaces
  <1>2. DesktopRules
    BY DEF DesktopRules, WhoWorks, StageIsOpen, Unfenced, ModeFits, IntentFits,
       ReadyIsProved, DocumentInv, StoresFit, HeldWhileOwed, EvidenceFits, AfterHandler,
       DesktopAssumption, NoWork, Down, LegacyPlaces, HandlerPlaces, WorkCalls,
       DurableKinds, LegacyKinds
  <1> QED
    BY <1>1, <1>2 DEF DesktopIInv

LEMMA DesktopKeeps ==
  ASSUME DesktopAssumption, DesktopIInv, [Next]_dpVars
  PROVE  DesktopIInv'
  <1>1. CASE Next
    <2>1. DesktopTyped'
      <3> USE DEF DesktopIInv
      <3> QED
        BY <1>1, StoresAreTyped, DocumentIsTyped, ProcessIsTyped DEF DesktopTyped
    <2>2. DesktopRules'
      <3>1. CASE Mutation
        BY <3>1, MutationKeeps
      <3>2. CASE Restart
        BY <3>2, StartsKeep, OtherStartsKeep, BeginsKeep DEF Restart
      <3>3. CASE Crash \/ Post \/ Returns
        BY <3>3, CallKeeps
      <3>4. CASE Calls
        BY <3>3, <3>4, BeginsKeep DEF Calls
      <3> QED
        BY <1>1, <3>1, <3>2, <3>3, <3>4 DEF Next
    <2> QED
      BY <2>1, <2>2 DEF DesktopIInv
  <1>2. CASE UNCHANGED dpVars
    <2>1. DesktopTyped'
      BY <1>2 DEF dpVars, storeVars, rootVars, DesktopIInv, DesktopTyped
    <2>2. DesktopRules'
      BY <1>2 DEF dpVars, storeVars, rootVars, DesktopIInv, DesktopRules, WhoWorks,
         StageIsOpen, Unfenced, ModeFits, IntentFits, ReadyIsProved, DocumentInv,
         StoresFit, HeldWhileOwed, EvidenceFits, AfterHandler, OnRecord, Stores, Matches,
         Proved, Exact
    <2> QED
      BY <2>1, <2>2 DEF DesktopIInv
  <1> QED
    BY <1>1, <1>2

LEMMA DesktopAlways ==
  ASSUME DesktopAssumption
  PROVE  Spec => []DesktopIInv
  <1>1. Init => DesktopIInv
    BY DesktopStart
  <1>2. DesktopIInv /\ [Next]_dpVars => DesktopIInv'
    BY DesktopKeeps
  <1> QED
    BY <1>1, <1>2, PTL DEF Spec

(***************************************************************************)
(* PurchaseIsProved (the steps of paid-media-service.ts and of its         *)
(* executor): what was sent is on a record that a document holds; the mode *)
(* is ready between mutations only while the proof would succeed; what is  *)
(* owed keeps its reservation; and only a legacy mutation, or one of       *)
(* stages being reserved or cleaned, ends in manual recovery.              *)
(***************************************************************************)
THEOREM DesktopCorrect ==
  ASSUME DesktopAssumption
  PROVE  Spec => []PurchaseIsProved
  <1>1. DesktopIInv => PurchaseIsProved
    <2> SUFFICES ASSUME DesktopIInv PROVE PurchaseIsProved
      OBVIOUS
    <2> USE DEF DesktopIInv, DesktopTyped, DesktopRules
    <2>1. TypeOK
      BY DEF TypeOK, Ledgers, Vaults, StageStates, HoldStates, Documents, Intents, Roots,
         Apps,
         Modes
    <2>2. SentIsOnRecord /\ HeldWhileOwed
      BY DEF SentIsOnRecord, StoresFit, OnRecord
    <2>3. ReadyIsExact
      BY DEF ReadyIsExact, ReadyIsProved
    <2>4. ManualIsForTheRest
      BY DEF ManualIsForTheRest, DocumentInv, Rest
    <2> QED
      BY <2>1, <2>2, <2>3, <2>4 DEF PurchaseIsProved
  <1> QED
    BY <1>1, DesktopAlways, PTL

LEMMA BeginsDo ==
  ASSUME DesktopIInv,
         \/ ReconcileCapacity \/ Purchase \/ Prove \/ StageAnswer \/ DownloadBytes
         \/ ReconcileManually
  PROVE  doc'.manual = doc.manual
  <1>1. vault.gen \in Nat
    BY DEF DesktopIInv, DesktopTyped, Vaults
  <1>2. doc' = doc \/ \E kind \in DurableKinds \union LegacyKinds, gen \in Nat : Begin(kind, gen)
    BY <1>1 DEF ReconcileCapacity, Purchase, Prove, StageAnswer, DownloadBytes,
       ReconcileManually, DurableKinds, LegacyKinds, rootVars
  <1> QED
    BY <1>2, BeginDoes DEF DesktopIInv

LEMMA DesktopMayStep ==
  ASSUME DesktopAssumption, DesktopIInv, Next
  PROVE  DesktopStep
  <1> USE DEF DesktopIInv, DesktopTyped
  <1>1. storeVars' # storeVars
          => \/ task.pc \in LegacyPlaces
             \/ task.pc \in HandlerPlaces
    BY StoresChange DEF LegacyAct, ReleaseUnsent, HandleDispatch, HandleReserve,
       HandleReclaim, HandleCleanup, HandleArchive, LegacyPlaces, HandlerPlaces
  <1>2. task.pc \in LegacyPlaces \union HandlerPlaces
          => /\ doc.intent # NoIntent /\ ~doc.manual
             /\ doc.intent \in DurableKinds => Exact
    BY DEF DesktopRules, IntentFits, Unfenced, Exact, DesktopAssumption, DurableKinds,
       LegacyKinds, LegacyPlaces, HandlerPlaces
  <1>3. doc.manual => doc'.manual
    <2>1. CASE \/ ReconcileCapacity \/ Purchase \/ Prove \/ StageAnswer \/ DownloadBytes
               \/ ReconcileManually
      BY <2>1, BeginsDo
    <2>2. CASE ~(\/ ReconcileCapacity \/ Purchase \/ Prove \/ StageAnswer \/ DownloadBytes
                 \/ ReconcileManually)
      BY <2>2, DocumentChanges, FinalDoes
    <2> QED
      BY <2>1, <2>2
  <1>4. sent' # sent => Proved
    <2>1. sent' # sent => Post

      BY DEF Next, Conflict, storeVars, startVars, rootVars, Restart, Mutation, Crash,
         Calls, Handler, StartUp, StartDetached, ResumeIntent, Resumed, FollowCommit,
         Verify, EnterManual, AcknowledgeRecovery, ManualFromPending, ConfirmManual,
         Settle, ReconcileCapacity, CapacityReconciled, LegacyAct, ReleaseUnsent,
         LegacyConfirm, LegacyFinal, Announce, HandleDispatch, HandleReserve,
         HandleReclaim, HandleCleanup, HandleArchive, HandlerFails, InspectAfter,
         ConfirmFinal, Surrender, Purchase, Prove, StageAnswer, DownloadBytes,
         Returns, ReconcileManually, Changes
    <2>2. Post => Proved
      BY DEF Post, DesktopRules, WhoWorks, ReadyIsProved, WorkCalls, Apps, AppPlaces
    <2> QED
      BY <2>1, <2>2
  <1> QED
    BY <1>1, <1>2, <1>3, <1>4 DEF DesktopStep, storeVars

(***************************************************************************)
(* DesktopStep: the stores change under an intent only, those of a durable *)
(* one after the root has followed to it; manual recovery is never undone, *)
(* and the stores stay as it found them; nothing is sent without the       *)
(* proof.                                                                  *)
(***************************************************************************)
THEOREM DesktopStepsAreProved ==
  ASSUME DesktopAssumption
  PROVE  Spec => [][DesktopStep]_dpVars
  <1>1. DesktopIInv /\ [Next]_dpVars => [DesktopStep]_dpVars
    BY DesktopMayStep
  <1> QED
    BY <1>1, DesktopAlways, PTL DEF Spec
=============================================================================
