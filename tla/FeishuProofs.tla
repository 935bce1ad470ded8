---------------------------- MODULE FeishuProofs ----------------------------
(***************************************************************************)
(* Proofs about the Feishu bridge FeishuBridge, for any number of chats,   *)
(* messages, workers, pictures, attempts and faults: what counts as        *)
(* handled is answered, nothing is sent twice, and a chat hears its        *)
(* answers in the order of its messages.                                   *)
(***************************************************************************)
EXTENDS FeishuBridge, TLAPS

Busy == {"processing", "submitting"}
OverStatuses == {"done", "dead", "closed"}

\* The types, without the bounds on attempts and rejections.
InboundOf == [status: OpenStatuses \cup OverStatuses \cup {"none"}, attempts: Nat,
              owner: Workers \cup {Nobody}]
DeliveryOf == [status: OpenStatuses \cup OverStatuses \cup {"absent"}, text: Texts, key: Nat,
               rank: Nat, tries: Nat, live: BOOLEAN,
               flight: {"none", "out", "ok", "rejected", "unknown"}]

FeishuTypes ==
  /\ cursor \in 0..N /\ inbox \in [Msgs -> InboundOf] /\ worker \in [Workers -> Worker]
  /\ uploads \in [Msgs -> Nat] /\ known \in [Msgs -> Nat]

Stored(m, kind) == outbox[<<m, kind>>].status # "absent"
OpenRow(r) == outbox[r].status \in OpenStatuses
OfOneChat(r, q) == ChatOf[r[1]] = ChatOf[q[1]]

\* A row d that arrived n times.
Sound(d, n) ==
  /\ d.flight = "out" => d.status \in {"submitting", "recovery_required"}
  /\ n <= 1
  /\ d.status \in {"absent", "pending", "processing"} => n = 0
  /\ d.flight \in {"out", "rejected"} => n = 0

\* A row that was taken from the queue.
Taken(r) == landed[r] > 0 \/ outbox[r].status \in {"processing", "submitting", "recovery_required"}

RowTypes == outbox \in [Rows -> DeliveryOf] /\ landed \in [Rows -> Nat]
SoundInv == \A r \in Rows : Sound(outbox[r], landed[r])
\* Some row has the highest rank there is.
TopInv == \A r \in Rows : \E q \in Rows : \A p \in Rows : outbox[q].rank >= outbox[p].rank
\* The rows of an earlier message of a chat were stored earlier.
RankInv ==
  \A r, q \in Rows :
    /\ outbox[r].status # "absent" /\ outbox[q].status # "absent"
    /\ OfOneChat(r, q) /\ r[1] < q[1]
    => outbox[r].rank < outbox[q].rank
\* What is open in a chat was stored no earlier than what was taken.
LineInv ==
  \A q, r \in Rows : Taken(q) /\ OpenRow(r) /\ OfOneChat(r, q) => outbox[r].rank >= outbox[q].rank
RowsInv == RowTypes /\ SoundInv /\ TopInv /\ RankInv /\ LineInv

StoredInv ==
  /\ \A m \in Msgs : m <= cursor <=> inbox[m].status # "none"
  /\ \A w \in Workers : worker[w].pc # "idle" => worker[w].msg \in 1..cursor

\* Behind a message that was begun every earlier one of its chat is over.
Over(m) == inbox[m].status \in OverStatuses
Begun(n) == inbox[n].status \in Busy \/ \E k \in Kinds : Stored(n, k)
Earlier(n) == {m \in Msgs : ChatOf[m] = ChatOf[n] /\ m < n}
BehindInv == \A n \in Msgs : Begun(n) => \A m \in Earlier(n) : Over(m)

\* An upload of unknown outcome keeps its message from being handled, and a
\* worker begins one only when the outcome of every other is known.
UploadKept(m) ==
  /\ uploads[m] <= known[m] + 1
  /\ uploads[m] > known[m] => inbox[m].status \in {"submitting", "recovery_required", "closed"}
MayUpload(w) ==
  worker[w].pc = "upload" /\ Owns(w) =>
    inbox[worker[w].msg].status = "submitting" /\ uploads[worker[w].msg] <= known[worker[w].msg]
UploadInv == (\A m \in Msgs : UploadKept(m)) /\ (\A w \in Workers : MayUpload(w))

\* A worker is past an answer only when it is in the outbox, and a message is
\* handled or given up only with what it owes.
Answered(m) ==
  /\ Stored(m, "reply")
  /\ m \in Pictures /\ outbox[<<m, "reply">>].text = "answer" => Stored(m, "image") \/ Stored(m, "link")
PastReply == {"media", "upload", "uploading", "store", "complete", "link"}
Knows(x, m) ==
  /\ x.pc \in PastReply => Stored(m, "reply")
  /\ x.pc = "complete" => Stored(m, "image")
  /\ x.pc = "finish" /\ x.verdict = "ok" => Answered(m)
Paid(m) ==
  /\ inbox[m].status = "done" => Answered(m)
  /\ inbox[m].status = "dead" => Stored(m, "terminal")
WorkerKnows(w) ==
  worker[w].pc # "idle" => \A m \in Msgs : worker[w].msg = m => Knows(worker[w], m)
AnswerInv ==
  /\ \A w \in Workers : WorkerKnows(w)
  /\ \A m \in Msgs : Paid(m)

FeishuIInv == FeishuTypes /\ RowsInv /\ StoredInv /\ BehindInv /\ UploadInv /\ AnswerInv

-----------------------------------------------------------------------------
LEMMA SizeOfChat == N \in Nat /\ Msgs \subseteq Nat \ {0}
BY FeishuAssumption DEF N, Msgs

LEMMA RowParts ==
  /\ \A r \in Rows : r[1] \in Msgs /\ r[2] \in Kinds /\ r = <<r[1], r[2]>> /\ r[1] \in Nat
  /\ \A m \in Msgs, k \in Kinds : <<m, k>> \in Rows /\ <<m, k>>[1] = m /\ <<m, k>>[2] = k
<1>1. ASSUME NEW r \in Rows PROVE r[1] \in Msgs /\ r[2] \in Kinds /\ r = <<r[1], r[2]>>
  BY DEF Rows
<1>2. ASSUME NEW m \in Msgs, NEW k \in Kinds
      PROVE  <<m, k>> \in Rows /\ <<m, k>>[1] = m /\ <<m, k>>[2] = k
  BY DEF Rows
<1> QED
  BY <1>1, <1>2, SizeOfChat

\* A row is the first open one of its chat.
FirstOpen(r) == OpenRow(r) /\ \A q \in Rows : OpenRow(q) /\ OfOneChat(r, q) => outbox[q].rank >= outbox[r].rank

\* What a step may do to a row that is there, or is not.
Moves(r) ==
  /\ outbox'[r] \in DeliveryOf /\ landed'[r] \in Nat /\ Sound(outbox'[r], landed'[r])
  /\ outbox'[r].status = "absent" <=> outbox[r].status = "absent"
  /\ outbox'[r].rank = outbox[r].rank /\ outbox'[r].text = outbox[r].text
  /\ OpenRow(r)' => OpenRow(r)
  /\ Taken(r)' => Taken(r) \/ FirstOpen(r)
RowsMove ==
  /\ outbox' = [r \in Rows |-> outbox'[r]] /\ landed' = [r \in Rows |-> landed'[r]]
  /\ \A r \in Rows : Moves(r)

\* The rows that are stored stay, and one is added only of a busy message.
RowsGrow ==
  \A r \in Rows :
    /\ outbox[r].status # "absent" => outbox'[r].status # "absent" /\ outbox'[r].text = outbox[r].text
    /\ outbox'[r].status # "absent" => outbox[r].status # "absent" \/ inbox[r[1]].status \in Busy

LEMMA ARow ==
  ASSUME RowsInv, NEW r \in Rows
  PROVE  outbox[r] \in DeliveryOf /\ landed[r] \in Nat /\ Sound(outbox[r], landed[r])
         /\ outbox[r].rank \in Nat
BY DEF RowsInv, RowTypes, SoundInv, DeliveryOf

LEMMA RowsMoveKeeps == ASSUME RowsInv, RowsMove PROVE RowsInv' /\ RowsGrow
<1>1. RowTypes' /\ SoundInv'
  <2>1. \A r \in Rows : outbox'[r] \in DeliveryOf /\ landed'[r] \in Nat /\ Sound(outbox'[r], landed'[r])
    BY DEF RowsMove, Moves
  <2>2. outbox' = [r \in Rows |-> outbox'[r]] /\ landed' = [r \in Rows |-> landed'[r]]
    BY DEF RowsMove
  <2>3. outbox' \in [Rows -> DeliveryOf]
    BY <2>1, <2>2
  <2>4. landed' \in [Rows -> Nat]
    BY <2>1, <2>2
  <2> QED
    BY <2>1, <2>3, <2>4 DEF RowTypes, SoundInv
<1>2. \A r \in Rows : outbox'[r].rank = outbox[r].rank
  BY DEF RowsMove, Moves
<1>3. TopInv' /\ RankInv'
  <2>1. TopInv /\ RankInv
    BY DEF RowsInv
  <2>2. TopInv'
    BY <1>2, <2>1 DEF TopInv
  <2>3. RankInv'
    BY <1>2, <2>1 DEF RankInv, RowsMove, Moves, OfOneChat
  <2> QED
    BY <2>2, <2>3
<1>4. LineInv'
  <2> SUFFICES ASSUME NEW q \in Rows, NEW r \in Rows, Taken(q)', OpenRow(r)', OfOneChat(r, q)
               PROVE  outbox'[r].rank >= outbox'[q].rank
    BY DEF LineInv, OfOneChat
  <2>1. OpenRow(r) /\ (Taken(q) \/ FirstOpen(q))
    BY DEF RowsMove, Moves
  <2>2. outbox[r].rank >= outbox[q].rank
    BY <2>1 DEF RowsInv, LineInv, FirstOpen, OfOneChat
  <2> QED
    BY <1>2, <2>2
<1>5. RowsGrow
  BY DEF RowsMove, Moves, RowsGrow
<1> QED
  BY <1>1, <1>3, <1>4, <1>5 DEF RowsInv

LEMMA RowsStay == ASSUME RowsInv, UNCHANGED <<outbox, landed>> PROVE RowsInv' /\ RowsGrow
<1>1. \A r \in Rows : Moves(r)
  BY ARow DEF Moves, OpenRow, Taken
<1>2. RowsMove
  BY <1>1 DEF RowsMove, RowsInv, RowTypes
<1> QED
  BY <1>2, RowsMoveKeeps

\* One row is changed.
LEMMA OneRowMoves ==
  ASSUME RowsInv, NEW r \in Rows, NEW d \in DeliveryOf, NEW n \in Nat,
         outbox' = [outbox EXCEPT ![r] = d], landed' = [landed EXCEPT ![r] = n],
         Sound(d, n), d.status = "absent" <=> outbox[r].status = "absent",
         d.rank = outbox[r].rank, d.text = outbox[r].text,
         d.status \in OpenStatuses => OpenRow(r),
         Taken(r) \/ FirstOpen(r) \/ d.status = outbox[r].status,
         n > 0 => Taken(r)
  PROVE  RowsInv' /\ RowsGrow
<1>0. outbox \in [Rows -> DeliveryOf] /\ landed \in [Rows -> Nat]
  BY DEF RowsInv, RowTypes
<1>1. outbox'[r] = d /\ landed'[r] = n
  BY <1>0
<1>2. \A q \in Rows \ {r} : outbox'[q] = outbox[q] /\ landed'[q] = landed[q]
  BY <1>0
<1>3. ASSUME NEW q \in Rows PROVE Moves(q)
  <2>1. CASE q = r
    <3>1. /\ outbox'[r] \in DeliveryOf /\ landed'[r] \in Nat /\ Sound(outbox'[r], landed'[r])
          /\ outbox'[r].status = "absent" <=> outbox[r].status = "absent"
          /\ outbox'[r].rank = outbox[r].rank /\ outbox'[r].text = outbox[r].text
          /\ OpenRow(r)' => OpenRow(r)
      BY <1>1 DEF OpenRow
    <3>2. Taken(r)' => Taken(r) \/ FirstOpen(r)
      BY <1>1 DEF Taken
    <3> QED
      BY <2>1, <3>1, <3>2 DEF Moves
  <2>2. CASE q # r
    <3>1. outbox'[q] = outbox[q] /\ landed'[q] = landed[q]
      BY <1>2, <2>2
    <3> QED
      BY <3>1, ARow DEF Moves, OpenRow, Taken
  <2> QED
    BY <2>1, <2>2
<1>4. outbox' = [q \in Rows |-> outbox'[q]] /\ landed' = [q \in Rows |-> landed'[q]]
  BY <1>0
<1>5. RowsMove
  BY <1>3, <1>4 DEF RowsMove
<1> QED
  BY <1>5, RowsMoveKeeps

LEMMA LastRankIsTop ==
  ASSUME RowsInv, NEW r \in Rows
  PROVE  LastRank \in Nat /\ \A q \in Rows : LastRank >= outbox[q].rank
<1> DEFINE S == {outbox[q].rank : q \in Rows}
<1>1. \E x \in S : \A y \in S : x >= y
  BY DEF RowsInv, TopInv
<1>2. LastRank \in S /\ \A y \in S : LastRank >= y
  BY <1>1 DEF LastRank, Max
<1>3. \A q \in Rows : outbox[q].rank \in Nat
  BY ARow
<1> QED
  BY <1>2, <1>3

\* A row is added for a message that is being handled.
LEMMA EnqueueGrows ==
  ASSUME FeishuTypes, RowsInv, StoredInv, BehindInv, NEW m \in Msgs, NEW kind \in Kinds,
         NEW text \in Texts, NEW key \in Nat,
         inbox[m].status \in Busy, Accepts(m, kind, text, key),
         outbox' = Enqueued(m, kind, text, key), UNCHANGED landed
  PROVE  /\ RowsInv' /\ RowsGrow
         /\ Stored(m, kind)' /\ outbox'[<<m, kind>>].text = text
<1> DEFINE r == <<m, kind>>
<1>0. r \in Rows /\ r[1] = m
  BY RowParts
<1> DEFINE top == LastRank + 1
<1> DEFINE new == [Absent EXCEPT !.status = "pending", !.text = text, !.key = key, !.rank = top]
<1>1. CASE outbox[r].status # "absent"
  <2>1. outbox' = outbox
    BY <1>1 DEF Enqueued
  <2>2. outbox[r].text = text
    BY <1>1 DEF Accepts
  <2>3. UNCHANGED <<outbox, landed>>
    BY <2>1
  <2>4. RowsInv' /\ RowsGrow
    BY <2>3, RowsStay
  <2> QED
    BY <1>1, <2>1, <2>2, <2>4 DEF Stored
<1>2. CASE outbox[r].status = "absent"
  <2>0. outbox' = [outbox EXCEPT ![r] = new]
    BY <1>2 DEF Enqueued
  <2>1. top \in Nat /\ \A q \in Rows : top > outbox[q].rank /\ outbox[q].rank \in Nat
    BY <1>0, LastRankIsTop, ARow
  <2>2. /\ new \in DeliveryOf /\ new.status = "pending" /\ new.text = text /\ new.rank = top
        /\ new.flight = "none"
    BY <2>1 DEF Absent, DeliveryOf, OpenStatuses
  <2> HIDE DEF new, top, r
  <2>3. outbox \in [Rows -> DeliveryOf] /\ landed \in [Rows -> Nat]
    BY DEF RowsInv, RowTypes
  <2>4. outbox'[r] = new /\ \A q \in Rows \ {r} : outbox'[q] = outbox[q]
    BY <1>0, <2>0, <2>3
  <2>5. outbox' \in [Rows -> DeliveryOf]
    BY <2>0, <2>2, <2>3
  <2>6. landed[r] = 0 /\ landed'[r] = 0
    BY <1>0, <1>2, ARow DEF Sound
  <2>7. SoundInv'
    <3> SUFFICES ASSUME NEW q \in Rows PROVE Sound(outbox'[q], landed'[q])
      BY DEF SoundInv
    <3>1. CASE q = r
      BY <2>2, <2>4, <2>6, <3>1 DEF Sound
    <3>2. CASE q # r
      BY <2>4, <3>2, ARow
    <3> QED
      BY <3>1, <3>2
  <2>8. \A q \in Rows : top >= outbox'[q].rank /\ outbox'[q].rank \in Nat
    BY <2>1, <2>2, <2>4
  <2>9. TopInv'
    BY <1>0, <2>2, <2>4, <2>8 DEF TopInv
  <2>10. RankInv'
    <3> SUFFICES ASSUME NEW p \in Rows, NEW q \in Rows,
                        outbox'[p].status # "absent", outbox'[q].status # "absent",
                        OfOneChat(p, q), p[1] < q[1]
                 PROVE  outbox'[p].rank < outbox'[q].rank
      BY DEF RankInv, OfOneChat
    <3>1. CASE q = r
      <4>1. p # r
        BY <3>1, RowParts
      <4> QED
        BY <2>1, <2>2, <2>4, <3>1, <4>1
    <3>2. CASE p = r
      <4>1. q # r
        BY <3>2, RowParts
      <4>2. q[1] \in Msgs /\ m \in Earlier(q[1])
        BY <1>0, <3>2, RowParts DEF Earlier, OfOneChat
      <4>3. Begun(q[1])
        BY <2>4, <4>1, RowParts DEF Begun, Stored
      <4>4. Over(m)
        BY <4>2, <4>3 DEF BehindInv
      <4> QED
        BY <4>4 DEF Over, Busy, OverStatuses
    <3>3. CASE p # r /\ q # r
      BY <2>4, <3>3 DEF RowsInv, RankInv
    <3> QED
      BY <3>1, <3>2, <3>3
  <2>11. LineInv'
    <3> SUFFICES ASSUME NEW q \in Rows, NEW p \in Rows, Taken(q)', OpenRow(p)', OfOneChat(p, q)
                 PROVE  outbox'[p].rank >= outbox'[q].rank
      BY DEF LineInv, OfOneChat
    <3>1. CASE p = r
      BY <2>2, <2>4, <2>8, <3>1
    <3>2. CASE p # r
      <4>1. q # r
        BY <2>2, <2>4, <2>6 DEF Taken
      <4>2. Taken(q) /\ OpenRow(p)
        BY <2>4, <3>2, <4>1 DEF Taken, OpenRow
      <4> QED
        BY <2>4, <3>2, <4>1, <4>2 DEF RowsInv, LineInv
    <3> QED
      BY <3>1, <3>2
  <2>12. RowsGrow
    <3> SUFFICES ASSUME NEW q \in Rows
                 PROVE  /\ outbox[q].status # "absent" =>
                             outbox'[q].status # "absent" /\ outbox'[q].text = outbox[q].text
                        /\ outbox'[q].status # "absent" =>
                             outbox[q].status # "absent" \/ inbox[q[1]].status \in Busy
      BY DEF RowsGrow
    <3>1. CASE q = r
      BY <1>0, <1>2, <3>1
    <3>2. CASE q # r
      BY <2>4, <3>2
    <3> QED
      BY <3>1, <3>2
  <2>13. RowsInv'
    BY <2>3, <2>5, <2>7, <2>9, <2>10, <2>11 DEF RowsInv, RowTypes
  <2>14. Stored(m, kind)' /\ outbox'[<<m, kind>>].text = text
    BY <2>2, <2>4 DEF r, Stored
  <2> QED
    BY <2>12, <2>13, <2>14
<1> QED
  BY <1>1, <1>2

-----------------------------------------------------------------------------
\* What a step does to a message and to a worker.
MessageMoves(m) ==
  /\ m <= cursor' <=> inbox'[m].status # "none"
  /\ Over(m) => Over(m)'
  /\ inbox'[m].status \in Busy => inbox[m].status \in Busy \/ \A n \in Earlier(m) : Over(n)
  /\ UploadKept(m)'
  /\ inbox'[m].status = "done" => inbox[m].status = "done" \/ Answered(m)'
  /\ inbox'[m].status = "dead" => inbox[m].status = "dead" \/ Stored(m, "terminal")'

WorkerMoves(w) ==
  /\ worker'[w].pc # "idle" =>
       \/ worker'[w] = worker[w]
       \/ worker'[w].msg \in 1..cursor' /\ WorkerKnows(w)'
  /\ MayUpload(w)'

\* What is stored stays so.
LEMMA StoredStays ==
  ASSUME RowsGrow, NEW m \in Msgs
  PROVE  /\ \A k \in Kinds : Stored(m, k) => Stored(m, k)'
         /\ Answered(m) => Answered(m)'
<1>1. \A k \in Kinds : Stored(m, k) =>
        Stored(m, k)' /\ outbox'[<<m, k>>].text = outbox[<<m, k>>].text
  BY RowParts DEF Stored, RowsGrow
<1>2. {"reply", "image", "link"} \subseteq Kinds
  BY DEF Kinds
<1> QED
  BY <1>1, <1>2 DEF Answered

LEMMA KnowsStays ==
  ASSUME RowsGrow, NEW m \in Msgs, NEW x, Knows(x, m)
  PROVE  Knows(x, m)'
<1>1. {"reply", "image"} \subseteq Kinds
  BY DEF Kinds
<1> QED
  BY <1>1, StoredStays DEF Knows

LEMMA ItsMessage ==
  ASSUME FeishuTypes, StoredInv, NEW w \in Workers, worker[w].pc # "idle"
  PROVE  worker[w] \in Worker /\ worker[w].msg \in Msgs /\ worker[w].msg \in 1..cursor
         /\ inbox[worker[w].msg].status # "none" /\ inbox[worker[w].msg] \in InboundOf
<1>1. worker[w].msg \in 1..cursor /\ cursor \in 0..N /\ worker[w] \in Worker
  BY DEF StoredInv, FeishuTypes
<1>2. worker[w].msg \in Msgs /\ worker[w].msg <= cursor
  BY <1>1, SizeOfChat DEF Msgs
<1> QED
  BY <1>1, <1>2 DEF StoredInv, FeishuTypes

LEMMA StepKeeps ==
  ASSUME FeishuIInv, FeishuTypes', RowsInv', RowsGrow, cursor <= cursor',
         \A m \in Msgs : MessageMoves(m), \A w \in Workers : WorkerMoves(w)
  PROVE  FeishuIInv'
<1>1. cursor \in Nat /\ cursor' \in Nat
  BY SizeOfChat DEF FeishuIInv, FeishuTypes
<1>2. StoredInv'
  <2>1. \A m \in Msgs : m <= cursor' <=> inbox'[m].status # "none"
    BY DEF MessageMoves
  <2>2. ASSUME NEW w \in Workers, worker'[w].pc # "idle" PROVE worker'[w].msg \in 1..cursor'
    BY <1>1, <2>2 DEF WorkerMoves, FeishuIInv, StoredInv
  <2> QED
    BY <2>1, <2>2 DEF StoredInv
<1>3. BehindInv'
  <2> SUFFICES ASSUME NEW n \in Msgs, Begun(n)', NEW m \in Earlier(n) PROVE Over(m)'
    BY DEF BehindInv, Earlier
  <2>1. CASE inbox'[n].status \in Busy
    <3>1. Begun(n) \/ Over(m)
      BY <2>1 DEF MessageMoves, Begun
    <3> QED
      BY <3>1 DEF MessageMoves, FeishuIInv, BehindInv, Earlier
  <2>2. CASE \E k \in Kinds : Stored(n, k)'
    <3>1. PICK k \in Kinds : Stored(n, k)'
      BY <2>2
    <3>2. Begun(n)
      BY <3>1, RowParts DEF RowsGrow, Stored, Begun
    <3> QED
      BY <3>2 DEF MessageMoves, FeishuIInv, BehindInv, Earlier
  <2> QED
    BY <2>1, <2>2 DEF Begun
<1>4. UploadInv'
  BY DEF UploadInv, MessageMoves, WorkerMoves
<1>5. AnswerInv'
  <2>1. ASSUME NEW w \in Workers PROVE WorkerKnows(w)'
    <3>1. CASE worker'[w] = worker[w]
      <4>1. SUFFICES ASSUME worker[w].pc # "idle", NEW m \in Msgs, worker[w].msg = m
                     PROVE  Knows(worker[w], m)'
        BY <3>1 DEF WorkerKnows
      <4>2. PICK x : x = worker[w]
        OBVIOUS
      <4>3. Knows(x, m)
        BY <4>1, <4>2 DEF FeishuIInv, AnswerInv, WorkerKnows
      <4>4. Knows(x, m)'
        BY <4>3, KnowsStays
      <4> QED
        BY <3>1, <4>2, <4>4
    <3> QED
      BY <3>1 DEF WorkerMoves, WorkerKnows
  <2>2. ASSUME NEW m \in Msgs PROVE Paid(m)'
    <3>1. Paid(m)
      BY DEF FeishuIInv, AnswerInv
    <3>2. "terminal" \in Kinds
      BY DEF Kinds
    <3> QED
      BY <3>1, <3>2, StoredStays DEF Paid, MessageMoves
  <2> QED
    BY <2>1, <2>2 DEF AnswerInv
<1> QED
  BY <1>2, <1>3, <1>4, <1>5 DEF FeishuIInv

-----------------------------------------------------------------------------
\* A worker w writes x for itself, and i, u and k for the row, the uploads and the
\* known outcomes of its message m.
Writes(w, m, x, i, u, k) ==
  /\ worker' = [worker EXCEPT ![w] = x] /\ inbox' = [inbox EXCEPT ![m] = i]
  /\ uploads' = [uploads EXCEPT ![m] = u] /\ known' = [known EXCEPT ![m] = k]
  /\ cursor' = cursor
\* What it may write.
MessageFits(m, i, u, k) ==
  /\ i.status # "none" /\ (Over(m) => i.status \in OverStatuses)
  /\ i.status \in Busy => inbox[m].status \in Busy
  /\ u <= k + 1 /\ (u > k => i.status \in {"submitting", "recovery_required", "closed"})
  /\ i.status = "done" => inbox[m].status = "done" \/ Answered(m)'
  /\ i.status = "dead" => inbox[m].status = "dead" \/ Stored(m, "terminal")'
WorkerFits(w, m, x, i, u, k) ==
  /\ x.pc # "idle" => x.msg = m
  /\ x.pc = "upload" /\ i.owner = w /\ i.status \in Busy => i.status = "submitting" /\ u <= k
  /\ \/ i = inbox[m] /\ u = uploads[m] /\ k = known[m]
     \/ i.owner \in {w, Nobody}

LEMMA WorkerStep ==
  ASSUME FeishuIInv, NEW w \in Workers, worker[w].pc # "idle", NEW mine, mine = worker[w].msg,
         NEW x \in Worker, NEW i \in InboundOf, NEW u \in Nat, NEW k \in Nat,
         Writes(w, mine, x, i, u, k), MessageFits(mine, i, u, k), WorkerFits(w, mine, x, i, u, k),
         x.pc # "idle" => Knows(x, mine)', RowsInv', RowsGrow
  PROVE  FeishuIInv'
<1> USE DEF Writes
<1>1. mine \in Msgs /\ mine \in 1..cursor /\ mine <= cursor /\ cursor \in Nat
  <2>1. mine \in Msgs /\ mine \in 1..cursor /\ cursor \in 0..N
    BY ItsMessage DEF FeishuIInv, FeishuTypes
  <2> QED
    BY <2>1, SizeOfChat
<1>2. /\ inbox \in [Msgs -> InboundOf] /\ worker \in [Workers -> Worker]
      /\ uploads \in [Msgs -> Nat] /\ known \in [Msgs -> Nat]
  BY DEF FeishuIInv, FeishuTypes
<1>3. FeishuTypes'
  <2>1. cursor' \in 0..N
    BY DEF FeishuIInv, FeishuTypes
  <2>2. inbox' \in [Msgs -> InboundOf] /\ worker' \in [Workers -> Worker]
    BY <1>2
  <2>3. uploads' \in [Msgs -> Nat] /\ known' \in [Msgs -> Nat]
    BY <1>2
  <2> QED
    BY <2>1, <2>2, <2>3 DEF FeishuTypes
<1>4. inbox'[mine] = i /\ uploads'[mine] = u /\ known'[mine] = k /\ worker'[w] = x
  BY <1>1, <1>2
<1>5. /\ \A m \in Msgs \ {mine} : inbox'[m] = inbox[m] /\ uploads'[m] = uploads[m] /\ known'[m] = known[m]
      /\ \A v \in Workers \ {w} : worker'[v] = worker[v]
  BY <1>2
<1>6. ASSUME NEW m \in Msgs PROVE MessageMoves(m)
  <2>1. CASE m = mine
    BY <1>1, <1>4, <2>1 DEF MessageFits, MessageMoves, Over, UploadKept
  <2>2. CASE m # mine
    <3>1. UploadKept(m) /\ (m <= cursor <=> inbox[m].status # "none")
      BY DEF FeishuIInv, UploadInv, StoredInv
    <3> QED
      BY <1>5, <2>2, <3>1 DEF MessageMoves, Over, UploadKept
  <2> QED
    BY <2>1, <2>2
<1>7. ASSUME NEW v \in Workers PROVE WorkerMoves(v)
  <2>1. CASE v = w
    <3>1. MayUpload(w)'
      BY <1>4 DEF WorkerFits, MayUpload, Owns, Has, Busy
    <3>2. WorkerKnows(w)'
      BY <1>4 DEF WorkerFits, WorkerKnows
    <3> QED
      BY <1>1, <1>4, <2>1, <3>1, <3>2 DEF WorkerFits, WorkerMoves
  <2>2. CASE v # w
    <3>1. MayUpload(v) /\ v # Nobody /\ worker'[v] = worker[v]
      BY <1>5, <2>2, FeishuAssumption DEF FeishuIInv, UploadInv
    <3>2. MayUpload(v)'
      <4> SUFFICES ASSUME worker[v].pc = "upload", NEW m, m = worker[v].msg, inbox'[m].owner = v,
                          inbox'[m].status \in {"processing", "submitting"}
                   PROVE  inbox'[m].status = "submitting" /\ uploads'[m] <= known'[m]
        BY <3>1 DEF MayUpload, Owns, Has
      <4>1. m \in Msgs
        BY ItsMessage DEF FeishuIInv
      <4>2. inbox'[m] = inbox[m] /\ uploads'[m] = uploads[m] /\ known'[m] = known[m]
        BY <1>4, <1>5, <2>2, <3>1, <4>1 DEF WorkerFits
      <4> QED
        BY <3>1, <4>2 DEF MayUpload, Owns, Has
    <3> QED
      BY <3>1, <3>2 DEF WorkerMoves
  <2> QED
    BY <2>1, <2>2
<1>8. cursor <= cursor'
  BY <1>1
<1> QED
  BY <1>3, <1>6, <1>7, <1>8, StepKeeps

\* A worker goes on, and leaves its message as it is.
LEMMA WorkerGoesOn ==
  ASSUME FeishuIInv, NEW w \in Workers, worker[w].pc # "idle", NEW mine, mine = worker[w].msg,
         NEW x \in Worker, worker' = [worker EXCEPT ![w] = x],
         UNCHANGED <<cursor, inbox, uploads, known>>, RowsInv', RowsGrow,
         x.pc # "upload", x.pc # "idle" => x.msg = mine /\ Knows(x, mine)'
  PROVE  FeishuIInv'
<1>1. /\ mine \in Msgs /\ inbox[mine].status # "none" /\ inbox[mine] \in InboundOf
      /\ uploads[mine] \in Nat /\ known[mine] \in Nat
  BY ItsMessage DEF FeishuIInv, FeishuTypes
<1>2. PICK i \in InboundOf : i = inbox[mine]
  BY <1>1
<1>3. PICK u \in Nat : u = uploads[mine]
  BY <1>1
<1>4. PICK k \in Nat : k = known[mine]
  BY <1>1
<1>5. Writes(w, mine, x, i, u, k)
  BY <1>1, <1>2, <1>3, <1>4 DEF Writes, FeishuIInv, FeishuTypes
<1>6. MessageFits(mine, i, u, k)
  <2>1. u <= k + 1 /\ (u > k => i.status \in {"submitting", "recovery_required", "closed"})
    BY <1>1, <1>2, <1>3, <1>4 DEF FeishuIInv, UploadInv, UploadKept
  <2> QED
    BY <1>1, <1>2, <2>1 DEF MessageFits, Over
<1>7. WorkerFits(w, mine, x, i, u, k)
  BY <1>2, <1>3, <1>4 DEF WorkerFits
<1> QED
  BY <1>5, <1>6, <1>7, WorkerStep

\* What a worker becomes when it goes on.
PCs == {"ask", "asked", "reply", "media", "upload", "uploading", "store", "complete", "link", "finish"}
Becomes(w, x) ==
  x \in Worker /\ worker' = [worker EXCEPT ![w] = x] /\ x.msg = worker[w].msg /\ x.pc # "idle"
LEMMA Going ==
  ASSUME FeishuTypes, NEW w \in Workers, NEW pc \in PCs, NEW text \in Texts,
         NEW verdict \in {"ok", "retry", "recovery"}
  PROVE  /\ WorkerGoes(w, pc) => \E x \in Worker : Becomes(w, x) /\ x.pc = pc /\ x.text = worker[w].text
         /\ Says(w, pc, text) => \E x \in Worker : Becomes(w, x) /\ x.pc = pc /\ x.text = text
         /\ Ends(w, verdict) => \E x \in Worker : Becomes(w, x) /\ x.pc = "finish" /\ x.verdict = verdict
<1>1. worker \in [Workers -> Worker] /\ worker[w] \in Worker
  BY DEF FeishuTypes
<1>2. ASSUME WorkerGoes(w, pc) PROVE \E x \in Worker : Becomes(w, x) /\ x.pc = pc /\ x.text = worker[w].text
  <2>1. PICK x : x = [worker[w] EXCEPT !.pc = pc]
    OBVIOUS
  <2>2. x \in Worker /\ x.msg = worker[w].msg /\ x.pc = pc /\ x.text = worker[w].text /\ pc # "idle"
    BY <1>1, <2>1 DEF Worker, PCs
  <2>3. worker' = [worker EXCEPT ![w] = x]
    BY <1>1, <1>2, <2>1 DEF WorkerGoes
  <2> QED
    BY <2>2, <2>3 DEF Becomes
<1>3. ASSUME Says(w, pc, text) PROVE \E x \in Worker : Becomes(w, x) /\ x.pc = pc /\ x.text = text
  <2>1. PICK x : x = [worker[w] EXCEPT !.pc = pc, !.text = text]
    OBVIOUS
  <2>2. x \in Worker /\ x.msg = worker[w].msg /\ x.pc = pc /\ x.text = text /\ pc # "idle"
    BY <1>1, <2>1 DEF Worker, PCs
  <2>3. worker' = [worker EXCEPT ![w] = x]
    BY <1>1, <1>3, <2>1 DEF Says
  <2> QED
    BY <2>2, <2>3 DEF Becomes
<1>4. ASSUME Ends(w, verdict) PROVE \E x \in Worker : Becomes(w, x) /\ x.pc = "finish" /\ x.verdict = verdict
  <2>1. PICK x : x = [worker[w] EXCEPT !.pc = "finish", !.verdict = verdict]
    OBVIOUS
  <2>2. x \in Worker /\ x.msg = worker[w].msg /\ x.pc = "finish" /\ x.verdict = verdict
    BY <1>1, <2>1 DEF Worker
  <2>3. worker' = [worker EXCEPT ![w] = x]
    BY <1>1, <1>4, <2>1 DEF Ends
  <2> QED
    BY <2>2, <2>3 DEF Becomes
<1> QED
  BY <1>2, <1>3, <1>4

\* A worker that knows nothing of its message's answer.
LEMMA GoesBlind ==
  ASSUME FeishuIInv, NEW w \in Workers, worker[w].pc # "idle", NEW x \in Worker, Becomes(w, x),
         x.pc \in {"asked", "reply"} \/ (x.pc = "finish" /\ x.verdict # "ok"),
         UNCHANGED <<cursor, inbox, uploads, known>>, RowsInv', RowsGrow
  PROVE  FeishuIInv'
<1>1. PICK mine : mine = worker[w].msg
  OBVIOUS
<1>2. Knows(x, mine)'
  BY DEF Knows, PastReply
<1>3. worker' = [worker EXCEPT ![w] = x] /\ x.msg = mine /\ x.pc # "upload"
  BY <1>1 DEF Becomes
<1> QED
  BY <1>1, <1>2, <1>3, WorkerGoesOn

LEMMA GivesUp ==
  ASSUME FeishuIInv, NEW w \in Workers, worker[w].pc # "idle", NEW verdict \in {"retry", "recovery"},
         Ends(w, verdict), UNCHANGED <<cursor, inbox, uploads, known>>, RowsInv', RowsGrow
  PROVE  FeishuIInv'
<1>1. "ask" \in PCs /\ "fixed" \in Texts
  BY DEF PCs, Texts
<1>2. PICK x \in Worker : Becomes(w, x) /\ x.pc = "finish" /\ x.verdict = verdict
  BY <1>1, Going DEF FeishuIInv
<1> QED
  BY <1>2, GoesBlind

LEMMA FailStep == ASSUME FeishuIInv, NEW w \in Workers, Fail(w) PROVE FeishuIInv'
<1>1. Excuse(w) \in {"retry", "recovery"} /\ Ends(w, Excuse(w)) /\ worker[w].pc # "idle"
  BY DEF Fail, Excuse
<1>2. UNCHANGED <<cursor, inbox, uploads, known>> /\ RowsInv' /\ RowsGrow
  BY RowsStay DEF Fail, world, FeishuIInv
<1> QED
  BY <1>1, <1>2, GivesUp

LEMMA AskStep == ASSUME FeishuIInv, NEW w \in Workers, Ask(w) PROVE FeishuIInv'
<1>1. UNCHANGED <<cursor, inbox, uploads, known>> /\ RowsInv' /\ RowsGrow /\ worker[w].pc # "idle"
  BY RowsStay DEF Ask, WorkerAt, world, FeishuIInv
<1>2. {"asked", "reply"} \subseteq PCs /\ {"limit", "fixed"} \subseteq Texts
  BY DEF PCs, Texts
<1>3. \E x \in Worker : Becomes(w, x) /\ x.pc \in {"asked", "reply"}
  <2>1. CASE WorkerGoes(w, "asked")
    BY <1>2, <2>1, Going DEF FeishuIInv
  <2>2. CASE Says(w, "reply", "limit")
    BY <1>2, <2>2, Going DEF FeishuIInv
  <2> QED
    BY <2>1, <2>2 DEF Ask
<1> QED
  BY <1>1, <1>3, GoesBlind

LEMMA AnswerStep == ASSUME FeishuIInv, NEW w \in Workers, Answer(w) PROVE FeishuIInv'
<1>1. UNCHANGED <<cursor, inbox, uploads, known>> /\ RowsInv' /\ RowsGrow /\ worker[w].pc # "idle"
  BY RowsStay DEF Answer, WorkerAt, FeishuIInv
<1>2. "reply" \in PCs /\ {"answer", "local"} \subseteq Texts
  BY DEF PCs, Texts
<1>3. CASE Ends(w, "retry")
  BY <1>1, <1>3, GivesUp
<1>4. CASE \E text \in {"answer", "local"} : Says(w, "reply", text)
  <2>1. \E x \in Worker : Becomes(w, x) /\ x.pc = "reply"
    BY <1>2, <1>4, Going DEF FeishuIInv
  <2> QED
    BY <1>1, <2>1, GoesBlind
<1> QED
  BY <1>3, <1>4 DEF Answer

-----------------------------------------------------------------------------
\* The worker at a message it owns.
LEMMA OwnsBusy ==
  ASSUME FeishuIInv, NEW w \in Workers, NEW S, Has(w, S), S \subseteq Busy, NEW mine, mine = worker[w].msg
  PROVE  /\ mine \in Msgs /\ inbox[mine].status \in S /\ inbox[mine].status \in Busy
         /\ inbox[mine].owner = w /\ worker[w].pc # "idle" /\ worker[w] \in Worker
         /\ Knows(worker[w], mine)
         /\ uploads[mine] \in Nat /\ known[mine] \in Nat /\ UploadKept(mine) /\ inbox[mine] \in InboundOf
<1>1. mine \in Msgs /\ worker[w] \in Worker
  BY ItsMessage DEF Has, FeishuIInv
<1> QED
  BY <1>1 DEF Has, FeishuIInv, FeishuTypes, UploadInv, AnswerInv, WorkerKnows

LEMMA ProgressStep == ASSUME FeishuIInv, NEW w \in Workers, Progress(w) PROVE FeishuIInv'
<1>1. PICK mine : mine = worker[w].msg
  OBVIOUS
<1>2. mine \in Msgs /\ inbox[mine].status \in Busy /\ worker[w] \in Worker /\ worker[w].pc = "asked"
  BY <1>1, OwnsBusy DEF Progress, Busy, WorkerAt
<1>3. "progress" \in Kinds /\ "fixed" \in Texts /\ 0 \in Nat
  BY DEF Kinds, Texts
<1>4. Accepts(mine, "progress", "fixed", 0) /\ outbox' = Enqueued(mine, "progress", "fixed", 0)
      /\ UNCHANGED <<cursor, inbox, worker, uploads, known, landed>>
  BY <1>1 DEF Progress, world
<1>5. RowsInv' /\ RowsGrow
  BY <1>2, <1>3, <1>4, EnqueueGrows DEF FeishuIInv
<1>6. PICK x \in Worker : x = worker[w]
  BY <1>2
<1>7. Becomes(w, x) /\ x.pc = "asked"
  BY <1>2, <1>4, <1>6 DEF Becomes, FeishuIInv, FeishuTypes
<1> QED
  BY <1>2, <1>4, <1>5, <1>7, GoesBlind

LEMMA ReplyStep == ASSUME FeishuIInv, NEW w \in Workers, Reply(w) PROVE FeishuIInv'
<1>1. PICK mine : mine = worker[w].msg
  OBVIOUS
<1>2. PICK text : text = worker[w].text
  OBVIOUS
<1>3. mine \in Msgs /\ inbox[mine].status \in Busy /\ worker[w] \in Worker /\ worker[w].pc # "idle"
      /\ text \in Texts
  <2>1. mine \in Msgs /\ inbox[mine].status \in Busy /\ worker[w] \in Worker /\ worker[w].pc # "idle"
    BY <1>1, OwnsBusy DEF Reply, Owns, Busy
  <2> QED
    BY <1>2, <2>1 DEF Worker
<1>4. UNCHANGED <<cursor, inbox, uploads, known, landed>>
  BY DEF Reply, world
<1>5. CASE Accepts(mine, "reply", text, 0)
  <2>1. outbox' = Enqueued(mine, "reply", text, 0)
    BY <1>1, <1>2, <1>5 DEF Reply
  <2>2. "reply" \in Kinds /\ 0 \in Nat
    BY DEF Kinds
  <2>3. RowsInv' /\ RowsGrow /\ Stored(mine, "reply")' /\ outbox'[<<mine, "reply">>].text = text
    BY <1>3, <1>4, <1>5, <2>1, <2>2, EnqueueGrows DEF FeishuIInv
  <2>4. PICK x \in Worker : Becomes(w, x) /\ (x.pc = "media" \/ (x.pc = "finish" /\ x.verdict = "ok" /\ ~ Brings(w)))
    <3>1. "media" \in PCs /\ "fixed" \in Texts
      BY DEF PCs, Texts
    <3>2. CASE Brings(w)
      BY <1>1, <1>2, <1>5, <3>1, <3>2, Going DEF Reply, FeishuIInv
    <3>3. CASE ~ Brings(w)
      BY <1>1, <1>2, <1>5, <3>1, <3>3, Going DEF Reply, FeishuIInv
    <3> QED
      BY <3>2, <3>3
  <2>5. Knows(x, mine)'
    BY <1>1, <1>2, <2>3, <2>4 DEF Knows, Answered, Brings
  <2> QED
    BY <1>1, <1>3, <1>4, <2>3, <2>4, <2>5, WorkerGoesOn DEF Becomes
<1>6. CASE ~ Accepts(mine, "reply", text, 0)
  <2>1. Ends(w, "retry") /\ UNCHANGED outbox
    BY <1>1, <1>2, <1>6 DEF Reply
  <2> QED
    BY <1>3, <1>4, <2>1, RowsStay, GivesUp DEF FeishuIInv
<1> QED
  BY <1>5, <1>6

\* A row of the inbox whose status, attempts or owner change.
LEMMA InboundRecords ==
  ASSUME NEW i \in InboundOf, NEW status \in OpenStatuses \cup OverStatuses
  PROVE  /\ [i EXCEPT !.status = status] \in InboundOf
         /\ [i EXCEPT !.owner = Nobody] \in InboundOf
         /\ [i EXCEPT !.status = status, !.owner = Nobody] \in InboundOf
         /\ [i EXCEPT !.attempts = @ + 1, !.owner = Nobody] \in InboundOf
<1>1. i = [status |-> i.status, attempts |-> i.attempts, owner |-> i.owner] /\ i.attempts + 1 \in Nat
  BY DEF InboundOf
<1>2. [i EXCEPT !.status = status] \in InboundOf /\ [i EXCEPT !.owner = Nobody] \in InboundOf
  BY DEF InboundOf
<1>3. [i EXCEPT !.status = status, !.owner = Nobody] \in InboundOf
  BY DEF InboundOf
<1>4. [i EXCEPT !.attempts = @ + 1, !.owner = Nobody] \in InboundOf
  BY <1>1 DEF InboundOf
<1> QED
  BY <1>2, <1>3, <1>4

LEMMA BeginUploadStep == ASSUME FeishuIInv, NEW w \in Workers, BeginUpload(w) PROVE FeishuIInv'
<1>1. PICK mine : mine = worker[w].msg
  OBVIOUS
<1>2. /\ mine \in Msgs /\ inbox[mine].status = "processing" /\ inbox[mine].owner = w
      /\ worker[w] \in Worker /\ worker[w].pc = "media" /\ Knows(worker[w], mine)
      /\ uploads[mine] \in Nat /\ known[mine] \in Nat /\ UploadKept(mine) /\ inbox[mine] \in InboundOf
  BY <1>1, OwnsBusy DEF BeginUpload, Busy, WorkerAt
<1>3. UNCHANGED <<cursor, uploads, known>> /\ RowsInv' /\ RowsGrow
  BY RowsStay DEF BeginUpload, world, FeishuIInv
<1>4. {"upload", "link"} \subseteq PCs /\ "fixed" \in Texts
  BY DEF PCs, Texts
<1>5. Stored(mine, "reply")'
  BY <1>2, <1>3, StoredStays DEF Knows, PastReply, Kinds
<1>6. CASE inbox' = [inbox EXCEPT ![mine].status = "submitting"] /\ WorkerGoes(w, "upload")
  <2>1. PICK x \in Worker : Becomes(w, x) /\ x.pc = "upload"
    BY <1>4, <1>6, Going DEF FeishuIInv
  <2>2. PICK i : i = [inbox[mine] EXCEPT !.status = "submitting"]
    OBVIOUS
  <2>3. PICK u \in Nat : u = uploads[mine]
    BY <1>2
  <2>4. PICK k \in Nat : k = known[mine]
    BY <1>2
  <2>5. i \in InboundOf /\ i.status = "submitting" /\ i.owner = w
    BY <1>2, <2>2 DEF InboundOf, OpenStatuses
  <2>6. u <= k
    BY <1>2, <2>3, <2>4 DEF UploadKept
  <2>7. Writes(w, mine, x, i, u, k)
    BY <1>2, <1>3, <1>6, <2>1, <2>2, <2>3, <2>4 DEF Writes, Becomes, FeishuIInv, FeishuTypes
  <2>8. MessageFits(mine, i, u, k)
    BY <1>2, <2>5, <2>6 DEF MessageFits, Over, OverStatuses, Busy
  <2>9. WorkerFits(w, mine, x, i, u, k) /\ Knows(x, mine)'
    BY <1>1, <1>5, <2>1, <2>5, <2>6 DEF WorkerFits, Becomes, Knows
  <2> QED
    BY <1>1, <1>2, <1>3, <2>5, <2>7, <2>8, <2>9, WorkerStep
<1>7. CASE WorkerGoes(w, "link") /\ UNCHANGED inbox
  <2>1. PICK x \in Worker : Becomes(w, x) /\ x.pc = "link"
    BY <1>4, <1>7, Going DEF FeishuIInv
  <2>2. Knows(x, mine)'
    BY <1>5, <2>1 DEF Knows
  <2> QED
    BY <1>1, <1>2, <1>3, <1>7, <2>1, <2>2, WorkerGoesOn DEF Becomes
<1> QED
  BY <1>1, <1>6, <1>7 DEF BeginUpload

LEMMA UploadStep == ASSUME FeishuIInv, NEW w \in Workers, Upload(w) PROVE FeishuIInv'
<1>1. PICK mine : mine = worker[w].msg
  OBVIOUS
<1>2. /\ mine \in Msgs /\ inbox[mine].owner = w
      /\ worker[w] \in Worker /\ worker[w].pc = "upload" /\ Knows(worker[w], mine)
      /\ uploads[mine] \in Nat /\ known[mine] \in Nat /\ inbox[mine] \in InboundOf
  BY <1>1, OwnsBusy DEF Upload, Owns, Busy, WorkerAt
<1>3. inbox[mine].status = "submitting" /\ uploads[mine] <= known[mine]
  BY <1>1, <1>2 DEF Upload, MayUpload, FeishuIInv, UploadInv
<1>4. /\ uploads' = [uploads EXCEPT ![mine] = @ + 1] /\ WorkerGoes(w, "uploading")
      /\ UNCHANGED <<cursor, inbox, known>> /\ RowsInv' /\ RowsGrow
  BY <1>1, RowsStay DEF Upload, FeishuIInv
<1>5. "uploading" \in PCs /\ "fixed" \in Texts
  BY DEF PCs, Texts
<1>6. PICK x \in Worker : Becomes(w, x) /\ x.pc = "uploading"
  BY <1>4, <1>5, Going DEF FeishuIInv
<1>7. PICK i \in InboundOf : i = inbox[mine]
  BY <1>2
<1>8. PICK u \in Nat : u = uploads[mine] + 1
  BY <1>2
<1>9. PICK k \in Nat : k = known[mine]
  BY <1>2
<1>10. Writes(w, mine, x, i, u, k)
  BY <1>2, <1>4, <1>6, <1>7, <1>8, <1>9 DEF Writes, Becomes, FeishuIInv, FeishuTypes
<1>11. MessageFits(mine, i, u, k)
  BY <1>2, <1>3, <1>7, <1>8, <1>9 DEF MessageFits, Over, OverStatuses, Busy
<1>12. WorkerFits(w, mine, x, i, u, k)
  BY <1>1, <1>2, <1>6, <1>7 DEF WorkerFits, Becomes
<1>13. Knows(x, mine)'
  <2>1. Stored(mine, "reply")'
    BY <1>2, <1>4, StoredStays DEF Knows, PastReply, Kinds
  <2> QED
    BY <1>6, <2>1 DEF Knows
<1> QED
  BY <1>1, <1>2, <1>4, <1>10, <1>11, <1>12, <1>13, WorkerStep

\* A worker that records what came of its upload.
LEMMA SettlesStep ==
  ASSUME FeishuIInv, NEW w \in Workers, Settles(w), NEW x \in Worker, Becomes(w, x),
         x.pc # "upload", NEW mine, mine = worker[w].msg, Knows(x, mine)',
         UNCHANGED <<cursor, uploads>>, RowsInv', RowsGrow
  PROVE  FeishuIInv'
<1>1. /\ mine \in Msgs /\ inbox[mine].owner = w /\ inbox[mine].status = "submitting"
      /\ worker[w].pc # "idle" /\ UploadKept(mine)
      /\ uploads[mine] \in Nat /\ known[mine] \in Nat /\ inbox[mine] \in InboundOf
  BY OwnsBusy DEF Settles, Busy
<1>2. PICK i : i = [inbox[mine] EXCEPT !.status = "processing"]
  OBVIOUS
<1>3. i \in InboundOf /\ i.status = "processing" /\ i.owner = w
  BY <1>1, <1>2 DEF InboundOf, OpenStatuses
<1>4. PICK u \in Nat : u = uploads[mine]
  BY <1>1
<1>5. PICK k \in Nat : k = known[mine] + 1
  BY <1>1
<1>6. Writes(w, mine, x, i, u, k)
  BY <1>1, <1>2, <1>4, <1>5 DEF Settles, Writes, Becomes, FeishuIInv, FeishuTypes
<1>7. MessageFits(mine, i, u, k)
  BY <1>1, <1>3, <1>4, <1>5 DEF MessageFits, Over, OverStatuses, Busy, UploadKept
<1>8. WorkerFits(w, mine, x, i, u, k)
  BY <1>3 DEF WorkerFits, Becomes
<1> QED
  BY <1>1, <1>3, <1>6, <1>7, <1>8, WorkerStep

LEMMA UploadedStep == ASSUME FeishuIInv, NEW w \in Workers, Uploaded(w) PROVE FeishuIInv'
<1>1. PICK mine : mine = worker[w].msg
  OBVIOUS
<1>2. worker[w].pc = "uploading" /\ Knows(worker[w], mine) /\ mine \in Msgs
  BY <1>1, ItsMessage DEF Uploaded, WorkerAt, FeishuIInv, AnswerInv, WorkerKnows
<1>3. UNCHANGED <<cursor, uploads>> /\ RowsInv' /\ RowsGrow
  BY RowsStay DEF Uploaded, FeishuIInv
<1>4. {"store", "link"} \subseteq PCs /\ "fixed" \in Texts
  BY DEF PCs, Texts
<1>5. Stored(mine, "reply")'
  BY <1>2, <1>3, StoredStays DEF Knows, PastReply, Kinds
<1>6. CASE WorkerGoes(w, "store") /\ UNCHANGED <<inbox, known>>
  <2>1. PICK x \in Worker : Becomes(w, x) /\ x.pc = "store"
    BY <1>4, <1>6, Going DEF FeishuIInv
  <2>2. Knows(x, mine)'
    BY <1>5, <2>1 DEF Knows
  <2> QED
    BY <1>1, <1>2, <1>3, <1>6, <2>1, <2>2, WorkerGoesOn DEF Becomes
<1>7. CASE Settles(w) /\ WorkerGoes(w, "link")
  <2>1. PICK x \in Worker : Becomes(w, x) /\ x.pc = "link"
    BY <1>4, <1>7, Going DEF FeishuIInv
  <2>2. Knows(x, mine)'
    BY <1>5, <2>1 DEF Knows
  <2> QED
    BY <1>1, <1>3, <1>7, <2>1, <2>2, SettlesStep
<1>8. CASE Ends(w, "recovery") /\ UNCHANGED <<inbox, known>>
  BY <1>2, <1>3, <1>8, GivesUp
<1> QED
  BY <1>6, <1>7, <1>8 DEF Uploaded

LEMMA StoreImageStep == ASSUME FeishuIInv, NEW w \in Workers, StoreImage(w) PROVE FeishuIInv'
<1>1. PICK mine : mine = worker[w].msg
  OBVIOUS
<1>2. /\ mine \in Msgs /\ inbox[mine].status \in Busy /\ worker[w].pc = "store"
      /\ Knows(worker[w], mine) /\ uploads[mine] \in Nat
  BY <1>1, OwnsBusy DEF StoreImage, Owns, Busy, WorkerAt
<1>3. UNCHANGED <<cursor, inbox, uploads, known, landed>>
  BY DEF StoreImage, world
<1>4. CASE Accepts(mine, "image", "fixed", uploads[mine])
  <2>1. outbox' = Enqueued(mine, "image", "fixed", uploads[mine]) /\ WorkerGoes(w, "complete")
    BY <1>1, <1>4 DEF StoreImage
  <2>2. {"image", "reply"} \subseteq Kinds /\ "fixed" \in Texts /\ "complete" \in PCs
    BY DEF Kinds, Texts, PCs
  <2>3. RowsInv' /\ RowsGrow /\ Stored(mine, "image")'
    BY <1>2, <1>3, <1>4, <2>1, <2>2, EnqueueGrows DEF FeishuIInv
  <2>4. Stored(mine, "reply")'
    BY <1>2, <2>2, <2>3, StoredStays DEF Knows, PastReply
  <2>5. PICK x \in Worker : Becomes(w, x) /\ x.pc = "complete"
    BY <2>1, <2>2, Going DEF FeishuIInv
  <2>6. Knows(x, mine)'
    BY <2>3, <2>4, <2>5 DEF Knows
  <2> QED
    BY <1>1, <1>2, <1>3, <2>3, <2>5, <2>6, WorkerGoesOn DEF Becomes
<1>5. CASE ~ Accepts(mine, "image", "fixed", uploads[mine])
  <2>1. Ends(w, "recovery") /\ UNCHANGED outbox
    BY <1>1, <1>5 DEF StoreImage
  <2> QED
    BY <1>2, <1>3, <2>1, RowsStay, GivesUp DEF FeishuIInv
<1> QED
  BY <1>4, <1>5

LEMMA CompleteUploadStep == ASSUME FeishuIInv, NEW w \in Workers, CompleteUpload(w) PROVE FeishuIInv'
<1>1. PICK mine : mine = worker[w].msg
  OBVIOUS
<1>2. mine \in Msgs /\ worker[w].pc = "complete" /\ Knows(worker[w], mine)
  BY <1>1, ItsMessage DEF CompleteUpload, WorkerAt, FeishuIInv, AnswerInv, WorkerKnows
<1>3. UNCHANGED <<cursor, uploads>> /\ RowsInv' /\ RowsGrow
  BY RowsStay DEF CompleteUpload, FeishuIInv
<1>4. Answered(mine)'
  BY <1>2, <1>3, StoredStays DEF Knows, PastReply, Answered
<1>5. "ask" \in PCs /\ "fixed" \in Texts
  BY DEF PCs, Texts
<1>6. PICK x \in Worker : Becomes(w, x) /\ x.pc = "finish" /\ x.verdict = "ok"
  BY <1>5, Going DEF CompleteUpload, FeishuIInv
<1>7. Knows(x, mine)'
  BY <1>4, <1>6 DEF Knows, PastReply
<1> QED
  BY <1>1, <1>3, <1>6, <1>7, SettlesStep DEF CompleteUpload

LEMMA SendLinkStep == ASSUME FeishuIInv, NEW w \in Workers, SendLink(w) PROVE FeishuIInv'
<1>1. PICK mine : mine = worker[w].msg
  OBVIOUS
<1>2. /\ mine \in Msgs /\ inbox[mine].status \in Busy /\ worker[w].pc = "link"
      /\ Knows(worker[w], mine)
  BY <1>1, OwnsBusy DEF SendLink, Owns, Busy, WorkerAt
<1>3. UNCHANGED <<cursor, inbox, uploads, known, landed>>
  BY DEF SendLink, world
<1>4. CASE Accepts(mine, "link", "fixed", 0)
  <2>1. outbox' = Enqueued(mine, "link", "fixed", 0) /\ Ends(w, "ok")
    BY <1>1, <1>4 DEF SendLink
  <2>2. {"link", "reply"} \subseteq Kinds /\ "fixed" \in Texts /\ "ask" \in PCs /\ 0 \in Nat
    BY DEF Kinds, Texts, PCs
  <2>3. RowsInv' /\ RowsGrow /\ Stored(mine, "link")'
    BY <1>2, <1>3, <1>4, <2>1, <2>2, EnqueueGrows DEF FeishuIInv
  <2>4. Stored(mine, "reply")'
    BY <1>2, <2>2, <2>3, StoredStays DEF Knows, PastReply
  <2>5. PICK x \in Worker : Becomes(w, x) /\ x.pc = "finish" /\ x.verdict = "ok"
    BY <2>1, <2>2, Going DEF FeishuIInv
  <2>6. Knows(x, mine)'
    BY <2>3, <2>4, <2>5 DEF Knows, PastReply, Answered
  <2> QED
    BY <1>1, <1>2, <1>3, <2>3, <2>5, <2>6, WorkerGoesOn DEF Becomes
<1>5. CASE ~ Accepts(mine, "link", "fixed", 0)
  <2>1. Ends(w, "retry") /\ UNCHANGED outbox
    BY <1>1, <1>5 DEF SendLink
  <2> QED
    BY <1>2, <1>3, <2>1, RowsStay, GivesUp DEF FeishuIInv
<1> QED
  BY <1>4, <1>5

LEMMA RestingWorker == Resting \in Worker /\ Resting.pc = "idle"
BY SizeOfChat DEF Resting, Worker, Texts

\* A worker that leaves its message, of which i is the new row.
LEMMA LeavesMessage ==
  ASSUME FeishuIInv, NEW w \in Workers, Owns(w), NEW mine, mine = worker[w].msg,
         worker' = [worker EXCEPT ![w] = Resting],
         NEW i \in InboundOf, inbox' = [inbox EXCEPT ![mine] = i], i.owner = Nobody,
         UNCHANGED <<cursor, uploads, known>>, RowsInv', RowsGrow,
         i.status \in {"pending", "done", "dead"} => inbox[mine].status = "processing",
         i.status \in {"pending", "done", "dead", "recovery_required"} \/ i.status = inbox[mine].status,
         i.status = "done" => Answered(mine)', i.status = "dead" => Stored(mine, "terminal")'
  PROVE  FeishuIInv'
<1>1. /\ mine \in Msgs /\ inbox[mine].status \in Busy /\ worker[w].pc # "idle" /\ UploadKept(mine)
      /\ uploads[mine] \in Nat /\ known[mine] \in Nat
  BY OwnsBusy DEF Owns, Busy
<1>2. PICK u \in Nat : u = uploads[mine]
  BY <1>1
<1>3. PICK k \in Nat : k = known[mine]
  BY <1>1
<1>4. PICK x \in Worker : x = Resting /\ x.pc = "idle"
  BY RestingWorker
<1>5. Writes(w, mine, x, i, u, k)
  BY <1>1, <1>2, <1>3, <1>4 DEF Writes, FeishuIInv, FeishuTypes
<1>6. MessageFits(mine, i, u, k)
  <2>1. u <= k + 1 /\ (u > k => inbox[mine].status = "submitting")
    BY <1>1, <1>2, <1>3 DEF UploadKept, Busy
  <2>2. u > k => i.status \in {"submitting", "recovery_required", "closed"}
    BY <2>1
  <2>3. i.status # "none" /\ ~ Over(mine)
    BY <1>1 DEF Busy, Over, OverStatuses
  <2> QED
    BY <1>1, <2>1, <2>2, <2>3 DEF MessageFits
<1>7. WorkerFits(w, mine, x, i, u, k)
  BY <1>4 DEF WorkerFits
<1> QED
  BY <1>1, <1>4, <1>5, <1>6, <1>7, WorkerStep

LEMMA StoresStep ==
  ASSUME FeishuIInv, NEW w \in Workers, Stores(w), WorkerAt(w, "finish"),
         worker' = [worker EXCEPT ![w] = Resting], UNCHANGED <<cursor, uploads, known, landed>>
  PROVE  FeishuIInv'
<1>1. PICK mine : mine = worker[w].msg
  OBVIOUS
<1>2. /\ mine \in Msgs /\ inbox[mine].status \in Busy /\ Owns(w) /\ Knows(worker[w], mine)
      /\ inbox[mine] \in InboundOf /\ inbox \in [Msgs -> InboundOf]
  <2>1. Owns(w)
    BY DEF Stores, Has, Owns
  <2> QED
    BY <1>1, <2>1, OwnsBusy DEF Owns, Busy, FeishuIInv, FeishuTypes
<1>3. CASE /\ worker[w].verdict = "ok" /\ Has(w, {"processing"})
           /\ Closes(mine, "done") /\ UNCHANGED outbox
  <2>1. PICK i : i = [inbox[mine] EXCEPT !.status = "done", !.owner = Nobody]
    OBVIOUS
  <2>2. i \in InboundOf /\ i.status = "done" /\ i.owner = Nobody
    BY <1>2, <2>1 DEF InboundOf, OverStatuses
  <2>3. inbox' = [inbox EXCEPT ![mine] = i]
    BY <1>2, <1>3, <2>1 DEF Closes
  <2>4. RowsInv' /\ RowsGrow
    BY <1>3, RowsStay DEF FeishuIInv
  <2>5. Answered(mine)
    BY <1>2, <1>3 DEF WorkerAt, Knows
  <2>6. Answered(mine)'
    BY <1>2, <2>4, <2>5, StoredStays
  <2>7. inbox[mine].status = "processing"
    BY <1>1, <1>3 DEF Has
  <2> QED
    BY <1>1, <1>2, <2>2, <2>3, <2>4, <2>6, <2>7, LeavesMessage
<1>4. CASE /\ worker[w].verdict = "recovery" /\ Owns(w)
           /\ Closes(mine, "recovery_required") /\ UNCHANGED outbox
  <2>1. PICK i : i = [inbox[mine] EXCEPT !.status = "recovery_required", !.owner = Nobody]
    OBVIOUS
  <2>2. i \in InboundOf /\ i.status = "recovery_required" /\ i.owner = Nobody
    BY <1>2, <2>1 DEF InboundOf, OpenStatuses
  <2>3. inbox' = [inbox EXCEPT ![mine] = i]
    BY <1>2, <1>4, <2>1 DEF Closes
  <2>4. RowsInv' /\ RowsGrow
    BY <1>4, RowsStay DEF FeishuIInv
  <2> QED
    BY <1>1, <1>2, <2>2, <2>3, <2>4, LeavesMessage
<1>5. PICK tried : tried = [inbox[mine] EXCEPT !.attempts = @ + 1, !.owner = Nobody]
  OBVIOUS
<1>6. tried \in InboundOf /\ tried.owner = Nobody
  BY <1>2, <1>5, InboundRecords DEF InboundOf, OpenStatuses
<1>7. CASE /\ worker[w].verdict = "retry" /\ Has(w, {"processing"})
           /\ inbox' = [inbox EXCEPT ![mine] = [tried EXCEPT !.status = "pending"]]
           /\ UNCHANGED outbox
  <2>1. PICK i : i = [tried EXCEPT !.status = "pending"]
    OBVIOUS
  <2>2. i \in InboundOf /\ i.status = "pending" /\ i.owner = Nobody
    BY <1>6, <2>1 DEF InboundOf, OpenStatuses
  <2>3. RowsInv' /\ RowsGrow
    BY <1>7, RowsStay DEF FeishuIInv
  <2>4. inbox[mine].status = "processing"
    BY <1>1, <1>7 DEF Has
  <2> QED
    BY <1>1, <1>2, <1>7, <2>1, <2>2, <2>3, <2>4, LeavesMessage
<1>8. CASE /\ worker[w].verdict = "retry" /\ Has(w, {"processing"})
           /\ inbox' = [inbox EXCEPT ![mine] = [tried EXCEPT !.status = "dead"]]
           /\ DeadWith(mine)
  <2>1. PICK i : i = [tried EXCEPT !.status = "dead"]
    OBVIOUS
  <2>2. i \in InboundOf /\ i.status = "dead" /\ i.owner = Nobody
    BY <1>6, <2>1 DEF InboundOf, OverStatuses
  <2>3. "terminal" \in Kinds /\ "fixed" \in Texts /\ 0 \in Nat
    BY DEF Kinds, Texts
  <2>4. RowsInv' /\ RowsGrow /\ Stored(mine, "terminal")'
    BY <1>2, <1>8, <2>3, EnqueueGrows DEF DeadWith, FeishuIInv
  <2>5. inbox[mine].status = "processing"
    BY <1>1, <1>8 DEF Has
  <2> QED
    BY <1>1, <1>2, <1>8, <2>1, <2>2, <2>4, <2>5, LeavesMessage
<1> QED
  BY <1>1, <1>3, <1>4, <1>5, <1>7, <1>8 DEF Stores

LEMMA FinishInboundStep == ASSUME FeishuIInv, NEW w \in Workers, FinishInbound(w) PROVE FeishuIInv'
<1>1. PICK mine : mine = worker[w].msg
  OBVIOUS
<1>2. /\ worker' = [worker EXCEPT ![w] = Resting] /\ UNCHANGED <<cursor, uploads, known, landed>>
      /\ worker[w].pc # "idle" /\ WorkerAt(w, "finish")
  BY DEF FinishInbound, WorkerAt, world
<1>3. CASE Stores(w)
  BY <1>2, <1>3, StoresStep
<1>4. CASE Owns(w) /\ inbox' = [inbox EXCEPT ![mine].owner = Nobody] /\ UNCHANGED outbox
  <2>1. mine \in Msgs /\ inbox[mine].status \in Busy /\ inbox[mine] \in InboundOf
    BY <1>1, <1>4, OwnsBusy DEF Owns, Busy
  <2>2. PICK i : i = [inbox[mine] EXCEPT !.owner = Nobody]
    OBVIOUS
  <2>3. i \in InboundOf /\ i.owner = Nobody /\ i.status = inbox[mine].status
    BY <2>1, <2>2 DEF InboundOf
  <2>4. inbox' = [inbox EXCEPT ![mine] = i]
    BY <1>4, <2>1, <2>2 DEF FeishuIInv, FeishuTypes
  <2>5. RowsInv' /\ RowsGrow
    BY <1>2, <1>4, RowsStay DEF FeishuIInv
  <2>6. i.status \in Busy
    BY <2>1, <2>3
  <2>7. i.status \notin {"pending", "done", "dead"}
    BY <2>6 DEF Busy
  <2> QED
    BY ZenonT(40), <1>1, <1>2, <1>4, <2>3, <2>4, <2>5, <2>7, LeavesMessage
<1>5. CASE UNCHANGED <<inbox, outbox>>
  <2>1. RowsInv' /\ RowsGrow
    BY <1>2, <1>5, RowsStay DEF FeishuIInv
  <2>2. PICK x \in Worker : x = Resting /\ x.pc = "idle"
    BY RestingWorker
  <2>3. worker' = [worker EXCEPT ![w] = x] /\ x.pc # "upload"
    BY <1>2, <2>2
  <2> QED
    BY <1>1, <1>2, <1>5, <2>1, <2>2, <2>3, WorkerGoesOn
<1> QED
  BY <1>1, <1>3, <1>4, <1>5 DEF FinishInbound

-----------------------------------------------------------------------------
\* Steps without a worker.
LEMMA InboxOnly ==
  ASSUME FeishuIInv, FeishuTypes', RowsInv', RowsGrow, cursor <= cursor',
         UNCHANGED <<worker, uploads, known>>, \A m \in Msgs : MessageMoves(m),
         \A m \in Msgs : \/ inbox'[m] = inbox[m] \/ inbox'[m].owner = Nobody
                         \/ inbox'[m].status \notin Busy
  PROVE  FeishuIInv'
<1>1. ASSUME NEW w \in Workers PROVE WorkerMoves(w)
  <2>1. MayUpload(w)'
    <3> SUFFICES ASSUME worker[w].pc = "upload", NEW m, m = worker[w].msg, inbox'[m].owner = w,
                        inbox'[m].status \in {"processing", "submitting"}
                 PROVE  inbox'[m].status = "submitting" /\ uploads'[m] <= known'[m]
      BY DEF MayUpload, Owns, Has
    <3>1. m \in Msgs
      BY ItsMessage DEF FeishuIInv
    <3>2. inbox'[m] = inbox[m]
      BY <3>1, FeishuAssumption DEF Busy
    <3>3. MayUpload(w)
      BY DEF FeishuIInv, UploadInv
    <3> QED
      BY <3>2, <3>3 DEF MayUpload, Owns, Has
  <2> QED
    BY <2>1 DEF WorkerMoves
<1> QED
  BY <1>1, StepKeeps

\* A message that stays, or whose row does.
LEMMA MessageStays ==
  ASSUME FeishuIInv, NEW m \in Msgs, inbox'[m].status = inbox[m].status,
         UNCHANGED <<uploads, known>>, m <= cursor' <=> m <= cursor
  PROVE  MessageMoves(m)
<1>1. UploadKept(m) /\ (m <= cursor <=> inbox[m].status # "none")
  BY DEF FeishuIInv, UploadInv, StoredInv
<1> QED
  BY <1>1 DEF MessageMoves, Over, UploadKept

LEMMA RowsOnly ==
  ASSUME FeishuIInv, UNCHANGED <<cursor, inbox, worker, uploads, known>>, RowsInv', RowsGrow
  PROVE  FeishuIInv'
<1>1. FeishuTypes' /\ cursor <= cursor'
  BY SizeOfChat DEF FeishuIInv, FeishuTypes
<1>2. \A m \in Msgs : MessageMoves(m)
  BY MessageStays
<1> QED
  BY <1>1, <1>2, InboxOnly

LEMMA ReceiveStep == ASSUME FeishuIInv, Receive PROVE FeishuIInv'
<1>1. /\ cursor' = cursor + 1 /\ cursor < N /\ inbox' = [inbox EXCEPT ![cursor'].status = "pending"]
      /\ UNCHANGED <<outbox, landed, worker, uploads, known>>
  BY DEF Receive, world
<1>2. PICK new : new = cursor'
  OBVIOUS
<1>3. cursor \in Nat /\ new = cursor + 1 /\ new \in Msgs /\ cursor <= cursor' /\ cursor' \in 0..N
      /\ (\A m \in Msgs : m # new => (m <= cursor' <=> m <= cursor)) /\ ~ (new <= cursor)
  <2>1. cursor \in Nat /\ N \in Nat
    BY SizeOfChat DEF FeishuIInv, FeishuTypes
  <2> QED
    BY <1>1, <1>2, <2>1 DEF Msgs
<1>4. inbox \in [Msgs -> InboundOf] /\ inbox[new].status = "none"
  BY <1>3 DEF FeishuIInv, FeishuTypes, StoredInv
<1>5. inbox' \in [Msgs -> InboundOf] /\ inbox'[new].status = "pending"
      /\ \A m \in Msgs \ {new} : inbox'[m] = inbox[m]
  <2>1. [inbox[new] EXCEPT !.status = "pending"] \in InboundOf
    BY <1>3, <1>4, InboundRecords DEF OpenStatuses
  <2>2. [inbox[new] EXCEPT !.status = "pending"].status = "pending"
    BY <1>3, <1>4 DEF InboundOf
  <2>3. inbox' = [inbox EXCEPT ![new] = [inbox[new] EXCEPT !.status = "pending"]]
    BY <1>1, <1>2, <1>3, <1>4
  <2> HIDE <1>1
  <2> QED
    BY <1>3, <1>4, <2>1, <2>2, <2>3
<1>6. FeishuTypes'
  BY <1>1, <1>3, <1>5 DEF FeishuIInv, FeishuTypes
<1>7. RowsInv' /\ RowsGrow
  BY <1>1, RowsStay DEF FeishuIInv
<1>8. ASSUME NEW m \in Msgs PROVE MessageMoves(m)
  <2>1. CASE m = new
    <3>1. UploadKept(new) /\ uploads[new] \in Nat /\ known[new] \in Nat /\ ~ (uploads[new] > known[new])
      BY <1>3, <1>4 DEF FeishuIInv, FeishuTypes, UploadInv, UploadKept
    <3>2. UploadKept(new)'
      BY <1>1, <3>1 DEF UploadKept
    <3>3. new <= cursor'
      BY <1>2, <1>3
    <3> QED
      BY <1>4, <1>5, <2>1, <3>2, <3>3 DEF MessageMoves, Over, OverStatuses, Busy
  <2>2. CASE m # new
    BY <1>1, <1>3, <1>5, <2>2, MessageStays
  <2> QED
    BY <2>1, <2>2
<1>9. \A m \in Msgs : inbox'[m] = inbox[m] \/ inbox'[m].status \notin Busy
  BY <1>5 DEF Busy
<1> QED
  BY <1>1, <1>3, <1>6, <1>7, <1>8, <1>9, InboxOnly

LEMMA ClaimInboundStep ==
  ASSUME FeishuIInv, NEW w \in Workers, NEW m \in Msgs, ClaimInbound(w, m)
  PROVE  FeishuIInv'
<1>1. /\ inbox[m].status = "pending" /\ (\A n \in OpenMsgs(ChatOf[m]) : n >= m)
      /\ inbox' = [inbox EXCEPT ![m].status = "processing", ![m].owner = w]
      /\ worker' = [worker EXCEPT ![w] = [Resting EXCEPT !.pc = "ask", !.msg = m]]
      /\ UNCHANGED <<cursor, outbox, landed, uploads, known>>
  BY DEF ClaimInbound, world
<1>2. inbox \in [Msgs -> InboundOf] /\ worker \in [Workers -> Worker]
  BY DEF FeishuIInv, FeishuTypes
<1>3. PICK i : i = [inbox[m] EXCEPT !.status = "processing", !.owner = w]
  OBVIOUS
<1>4. i \in InboundOf /\ i.status = "processing" /\ i.owner = w
  BY <1>2, <1>3 DEF InboundOf, OpenStatuses
<1>5. inbox' = [inbox EXCEPT ![m] = i]
  BY <1>1, <1>2, <1>3
<1>6. inbox' \in [Msgs -> InboundOf] /\ inbox'[m] = i /\ \A n \in Msgs \ {m} : inbox'[n] = inbox[n]
  BY <1>2, <1>4, <1>5
<1>7. cursor \in Nat /\ m \in Nat /\ m <= cursor /\ m \in 1..cursor /\ m \in 0..N
  BY <1>1, SizeOfChat DEF FeishuIInv, FeishuTypes, StoredInv, Msgs
<1>8. PICK x : x = [Resting EXCEPT !.pc = "ask", !.msg = m]
  OBVIOUS
<1>9. x \in Worker /\ x.pc = "ask" /\ x.msg = m
  BY <1>7, <1>8 DEF Resting, Worker, Texts
<1>10. worker' \in [Workers -> Worker] /\ worker'[w] = x /\ \A v \in Workers \ {w} : worker'[v] = worker[v]
  BY <1>1, <1>2, <1>8, <1>9
<1>11. FeishuTypes'
  BY <1>1, <1>6, <1>10 DEF FeishuIInv, FeishuTypes
<1>12. RowsInv' /\ RowsGrow
  BY <1>1, RowsStay DEF FeishuIInv
<1>13. ASSUME NEW n \in Earlier(m) PROVE Over(n)
  <2>1. n \in Msgs /\ n \in Nat /\ n < m /\ ChatOf[n] = ChatOf[m]
    BY SizeOfChat DEF Earlier
  <2>2. inbox[n].status # "none"
    BY <1>7, <2>1 DEF FeishuIInv, StoredInv
  <2>3. inbox[n].status \notin OpenStatuses
    BY <1>1, <1>7, <2>1 DEF OpenMsgs
  <2> QED
    BY <1>2, <2>1, <2>2, <2>3 DEF InboundOf, Over
<1>14. ASSUME NEW n \in Msgs PROVE MessageMoves(n)
  <2>1. CASE n = m
    <3>1. UploadKept(m)'
      BY <1>1 DEF FeishuIInv, FeishuTypes, UploadInv, UploadKept
    <3>2. ~ Over(m) /\ m <= cursor'
      BY <1>1, <1>7 DEF Over, OverStatuses
    <3> QED
      BY <1>4, <1>6, <1>13, <2>1, <3>1, <3>2 DEF MessageMoves
  <2>2. CASE n # m
    BY <1>1, <1>6, <2>2, MessageStays
  <2> QED
    BY <2>1, <2>2
<1>15. ASSUME NEW v \in Workers PROVE WorkerMoves(v)
  <2>1. CASE v = w
    <3>1. MayUpload(w)' /\ WorkerKnows(w)'
      BY <1>9, <1>10 DEF MayUpload, WorkerKnows, Knows, PastReply
    <3> QED
      BY <1>1, <1>7, <1>9, <1>10, <2>1, <3>1 DEF WorkerMoves
  <2>2. CASE v # w
    <3>1. worker'[v] = worker[v] /\ MayUpload(v)
      BY <1>10, <2>2 DEF FeishuIInv, UploadInv
    <3>2. MayUpload(v)'
      <4> SUFFICES ASSUME worker[v].pc = "upload", NEW n, n = worker[v].msg, inbox'[n].owner = v,
                          inbox'[n].status \in {"processing", "submitting"}
                   PROVE  inbox'[n].status = "submitting" /\ uploads'[n] <= known'[n]
        BY <3>1 DEF MayUpload, Owns, Has
      <4>1. n \in Msgs
        BY ItsMessage DEF FeishuIInv
      <4>2. inbox'[n] = inbox[n]
        BY <1>4, <1>6, <2>2, <4>1
      <4> QED
        BY <1>1, <3>1, <4>2 DEF MayUpload, Owns, Has
    <3> QED
      BY <3>1, <3>2 DEF WorkerMoves
  <2> QED
    BY <2>1, <2>2
<1>16. cursor <= cursor'
  BY <1>1, <1>7
<1> QED
  BY <1>11, <1>12, <1>14, <1>15, <1>16, StepKeeps

LEMMA LapseStep == ASSUME FeishuIInv, NEW m \in Msgs, Lapse(m) PROVE FeishuIInv'
<1>1. inbox' = [inbox EXCEPT ![m].owner = Nobody]
      /\ UNCHANGED <<cursor, outbox, landed, worker, uploads, known>>
  BY DEF Lapse, world
<1>2. inbox \in [Msgs -> InboundOf]
  BY DEF FeishuIInv, FeishuTypes
<1>3. inbox' \in [Msgs -> InboundOf] /\ inbox'[m].owner = Nobody
      /\ (\A n \in Msgs : inbox'[n].status = inbox[n].status)
      /\ \A n \in Msgs \ {m} : inbox'[n] = inbox[n]
  BY <1>1, <1>2 DEF InboundOf
<1>4. FeishuTypes' /\ cursor <= cursor'
  BY <1>1, <1>3, SizeOfChat DEF FeishuIInv, FeishuTypes
<1>5. \A n \in Msgs : MessageMoves(n)
  BY <1>1, <1>3, MessageStays
<1>6. RowsInv' /\ RowsGrow
  BY <1>1, RowsStay DEF FeishuIInv
<1> QED
  BY <1>1, <1>3, <1>4, <1>5, <1>6, InboxOnly

\* What the recovery makes of a message.
LEMMA RecoversMessage ==
  ASSUME NEW i \in InboundOf
  PROVE  /\ RecoveredInbound(i) \in InboundOf
         /\ RecoveredInbound(i).status = IF i.status = "processing" THEN "pending"
                                         ELSE IF i.status = "submitting" THEN "recovery_required"
                                         ELSE i.status
         /\ RecoveredInbound(i).status \notin Busy
         /\ RecoveredInbound(i) = i \/ RecoveredInbound(i).owner = Nobody
BY DEF RecoveredInbound, InboundOf, OpenStatuses, Busy

LEMMA RecoveryMoves ==
  ASSUME FeishuIInv, NEW m \in Msgs, inbox'[m] = RecoveredInbound(inbox[m]),
         UNCHANGED <<cursor, uploads, known>>
  PROVE  MessageMoves(m)
<1>1. inbox[m] \in InboundOf /\ (m <= cursor <=> inbox[m].status # "none") /\ UploadKept(m)
      /\ uploads[m] \in Nat /\ known[m] \in Nat
  BY DEF FeishuIInv, FeishuTypes, StoredInv, UploadInv
<1>2. UploadKept(m)'
  BY <1>1, RecoversMessage DEF UploadKept
<1> QED
  BY <1>1, <1>2, RecoversMessage DEF MessageMoves, Over, OverStatuses

LEMMA RecoverInboundStep == ASSUME FeishuIInv, NEW m \in Msgs, RecoverInbound(m) PROVE FeishuIInv'
<1>1. inbox' = [inbox EXCEPT ![m] = RecoveredInbound(inbox[m])]
      /\ UNCHANGED <<cursor, outbox, landed, worker, uploads, known>>
  BY DEF RecoverInbound, world
<1>2. inbox \in [Msgs -> InboundOf]
  BY DEF FeishuIInv, FeishuTypes
<1>3. inbox' \in [Msgs -> InboundOf] /\ inbox'[m] = RecoveredInbound(inbox[m])
      /\ \A n \in Msgs \ {m} : inbox'[n] = inbox[n]
  BY <1>1, <1>2, RecoversMessage
<1>4. FeishuTypes' /\ cursor <= cursor'
  BY <1>1, <1>3, SizeOfChat DEF FeishuIInv, FeishuTypes
<1>5. ASSUME NEW n \in Msgs PROVE MessageMoves(n) /\ (inbox'[n] = inbox[n] \/ inbox'[n].status \notin Busy)
  <2>1. CASE n = m
    BY <1>1, <1>2, <1>3, <2>1, RecoveryMoves, RecoversMessage
  <2>2. CASE n # m
    BY <1>1, <1>3, <2>2, MessageStays
  <2> QED
    BY <2>1, <2>2
<1>6. RowsInv' /\ RowsGrow
  BY <1>1, RowsStay DEF FeishuIInv
<1> QED
  BY <1>1, <1>4, <1>5, <1>6, InboxOnly

-----------------------------------------------------------------------------
\* A row becomes d and has arrived n times.
RowFits(r, d, n) ==
  /\ d \in DeliveryOf /\ n \in Nat /\ Sound(d, n)
  /\ d.status = "absent" <=> outbox[r].status = "absent"
  /\ d.rank = outbox[r].rank /\ d.text = outbox[r].text
  /\ d.status \in OpenStatuses => OpenRow(r)
  /\ Taken(r) \/ FirstOpen(r) \/ d.status = outbox[r].status
  /\ n > 0 => Taken(r)

\* A step of the drain, which arrives only by Land.
LEMMA RowStep ==
  ASSUME FeishuIInv, NEW r \in Rows, NEW d, NEW n, RowFits(r, d, n),
         outbox' = [outbox EXCEPT ![r] = d], landed' = [landed EXCEPT ![r] = n],
         UNCHANGED <<cursor, inbox, worker, uploads, known>>
  PROVE  FeishuIInv'
<1>1. RowsInv
  BY DEF FeishuIInv
<1>2. RowsInv' /\ RowsGrow
  BY <1>1, OneRowMoves DEF RowFits
<1> QED
  BY <1>2, RowsOnly

LEMMA LandedStays ==
  ASSUME FeishuIInv, NEW r \in Rows, UNCHANGED landed
  PROVE  /\ landed' = [landed EXCEPT ![r] = landed[r]] /\ landed[r] \in Nat
         /\ outbox[r] \in DeliveryOf /\ Sound(outbox[r], landed[r])
         /\ landed[r] > 0 => Taken(r)
BY ARow DEF FeishuIInv, RowsInv, RowTypes, Taken

LEMMA ClaimDeliveryStep == ASSUME FeishuIInv, NEW r \in Rows, ClaimDelivery(r) PROVE FeishuIInv'
<1>1. PICK d : d = [outbox[r] EXCEPT !.status = "processing", !.live = TRUE]
  OBVIOUS
<1>2. PICK n : n = landed[r]
  OBVIOUS
<1>3. /\ outbox' = [outbox EXCEPT ![r] = d] /\ outbox[r].status = "pending"
      /\ UNCHANGED <<cursor, inbox, worker, uploads, known, landed>>
  BY <1>1 DEF ClaimDelivery, Sets, world
<1>4. FirstOpen(r)
  BY DEF ClaimDelivery, FirstOpen, OpenRows, OpenRow, OfOneChat, OpenStatuses
<1>5. d \in DeliveryOf /\ d.status = "processing" /\ d.rank = outbox[r].rank /\ d.text = outbox[r].text
      /\ d.flight = outbox[r].flight
  BY <1>1, <1>3, LandedStays DEF DeliveryOf, OpenStatuses
<1>6. RowFits(r, d, n)
  BY <1>2, <1>3, <1>4, <1>5, LandedStays DEF RowFits, Sound, OpenRow, OpenStatuses
<1> QED
  BY <1>2, <1>3, <1>6, LandedStays, RowStep

LEMMA BeginSubmissionStep == ASSUME FeishuIInv, NEW r \in Rows, BeginSubmission(r) PROVE FeishuIInv'
<1>1. PICK d : d = [outbox[r] EXCEPT !.status = "submitting", !.flight = "out"]
  OBVIOUS
<1>2. PICK n : n = landed[r]
  OBVIOUS
<1>3. /\ outbox' = [outbox EXCEPT ![r] = d] /\ outbox[r].status = "processing"
      /\ UNCHANGED <<cursor, inbox, worker, uploads, known, landed>>
  BY <1>1 DEF BeginSubmission, Sets, world
<1>4. d \in DeliveryOf /\ d.status = "submitting" /\ d.rank = outbox[r].rank /\ d.text = outbox[r].text
  BY <1>1, <1>3, LandedStays DEF DeliveryOf, OpenStatuses
<1>5. RowFits(r, d, n)
  BY <1>2, <1>3, <1>4, LandedStays DEF RowFits, Sound, OpenRow, OpenStatuses, Taken
<1> QED
  BY <1>2, <1>3, <1>5, LandedStays, RowStep

LEMMA LandStep == ASSUME FeishuIInv, NEW r \in Rows, Land(r) PROVE FeishuIInv'
<1>0. outbox[r] \in DeliveryOf /\ landed[r] \in Nat /\ Sound(outbox[r], landed[r])
  BY ARow DEF FeishuIInv
<1>1. PICK f \in {"ok", "unknown"} : outbox' = [outbox EXCEPT ![r] = [outbox[r] EXCEPT !.flight = f]]
  BY DEF Land, Sets
<1>2. PICK d : d = [outbox[r] EXCEPT !.flight = f]
  OBVIOUS
<1>3. PICK n : n = landed[r] + 1
  OBVIOUS
<1>4. /\ outbox' = [outbox EXCEPT ![r] = d] /\ outbox[r].flight = "out"
      /\ landed' = [landed EXCEPT ![r] = n]
      /\ UNCHANGED <<cursor, inbox, worker, uploads, known>>
  BY <1>1, <1>2, <1>3 DEF Land, FeishuIInv, RowsInv, RowTypes
<1>5. d \in DeliveryOf /\ d.status = outbox[r].status /\ d.rank = outbox[r].rank
      /\ d.text = outbox[r].text /\ d.flight = f
  BY <1>0, <1>2 DEF DeliveryOf
<1>6. outbox[r].status \in {"submitting", "recovery_required"} /\ n = 1
  BY <1>0, <1>3, <1>4 DEF Sound
<1>7. RowFits(r, d, n)
  BY <1>5, <1>6 DEF RowFits, Sound, OpenRow, OpenStatuses, Taken
<1> QED
  BY <1>4, <1>7, RowStep

LEMMA SinkStep == ASSUME FeishuIInv, NEW r \in Rows, Sink(r) PROVE FeishuIInv'
<1>1. PICK f \in {"rejected", "unknown"} : outbox' = [outbox EXCEPT ![r] = [outbox[r] EXCEPT !.flight = f]]
  BY DEF Sink, Sets
<1>2. PICK d : d = [outbox[r] EXCEPT !.flight = f]
  OBVIOUS
<1>3. PICK n : n = landed[r]
  OBVIOUS
<1>4. /\ outbox' = [outbox EXCEPT ![r] = d] /\ outbox[r].flight = "out"
      /\ UNCHANGED <<cursor, inbox, worker, uploads, known, landed>>
  BY <1>1, <1>2 DEF Sink, world
<1>5. d \in DeliveryOf /\ d.status = outbox[r].status /\ d.rank = outbox[r].rank
      /\ d.text = outbox[r].text /\ d.flight = f
  BY <1>2, <1>4, LandedStays DEF DeliveryOf
<1>6. RowFits(r, d, n)
  BY <1>3, <1>4, <1>5, LandedStays DEF RowFits, Sound, OpenRow, OpenStatuses, Taken
<1> QED
  BY <1>3, <1>4, <1>6, LandedStays, RowStep

\* A row that is over, or waits again.
LEMMA RowEnded ==
  ASSUME NEW x \in DeliveryOf, NEW s \in {"done", "dead", "closed", "recovery_required", "pending"}
  PROVE  /\ Ended(x, s) \in DeliveryOf /\ Ended(x, s).status = s /\ Ended(x, s).flight = "none"
         /\ Ended(x, s).text = x.text /\ Ended(x, s).rank = x.rank
BY DEF DeliveryOf, Ended, OpenStatuses, OverStatuses

LEMMA RowRejected ==
  ASSUME NEW z \in DeliveryOf, NEW d, d = [z EXCEPT !.tries = @ + 1]
  PROVE  d \in DeliveryOf /\ d.status = z.status /\ d.flight = z.flight /\ d.text = z.text /\ d.rank = z.rank
BY DEF DeliveryOf

LEMMA FinishDeliveryStep == ASSUME FeishuIInv, NEW r \in Rows, FinishDelivery(r) PROVE FeishuIInv'
<1>1. PICK x : x = outbox[r]
  OBVIOUS
<1>2. PICK n : n = landed[r]
  OBVIOUS
<1>3. x.status = "submitting" /\ UNCHANGED <<cursor, inbox, worker, uploads, known, landed>>
  BY <1>1 DEF FinishDelivery, world
<1>4. x \in DeliveryOf /\ Sound(x, n) /\ n \in Nat /\ landed' = [landed EXCEPT ![r] = n]
  BY <1>1, <1>2, <1>3, LandedStays
<1>5. Taken(r) /\ OpenRow(r)
  BY <1>1, <1>3 DEF Taken, OpenRow, OpenStatuses
<1>6. ASSUME NEW s \in {"done", "dead", "closed", "recovery_required", "pending"}, NEW d,
             d = Ended(x, s) \/ d = [Ended(x, s) EXCEPT !.tries = @ + 1],
             outbox' = [outbox EXCEPT ![r] = d], s = "pending" => x.flight = "rejected"
      PROVE  FeishuIInv'
  <2>1. d \in DeliveryOf /\ d.status = s /\ d.flight = "none" /\ d.text = x.text /\ d.rank = x.rank
    <3>1. PICK z : z = Ended(x, s)
      OBVIOUS
    <3>2. z \in DeliveryOf /\ z.status = s /\ z.flight = "none" /\ z.text = x.text /\ z.rank = x.rank
      BY <1>4, <3>1, RowEnded
    <3>3. CASE d = z
      BY <3>2, <3>3
    <3>4. CASE d = [z EXCEPT !.tries = @ + 1]
      BY <3>2, <3>4, RowRejected
    <3> QED
      BY <1>6, <3>1, <3>3, <3>4
  <2>2. RowFits(r, d, n)
    BY <1>1, <1>3, <1>4, <1>5, <1>6, <2>1 DEF RowFits, Sound
  <2> QED
    BY <1>3, <1>4, <1>6, <2>2, RowStep
<1>7. CASE \E s \in {"done", "recovery_required"} : outbox' = [outbox EXCEPT ![r] = Ended(x, s)]
  BY <1>6, <1>7
<1>8. CASE x.flight = "rejected" /\ \E s \in {"dead", "pending"} :
             outbox' = [outbox EXCEPT ![r] = [Ended(x, s) EXCEPT !.tries = @ + 1]]
  BY <1>6, <1>8
<1>9. CASE /\ x.flight = "rejected"
           /\ Sets(r, [Ended(x, IF x.tries + 1 >= MaxSends THEN "dead" ELSE "pending") EXCEPT !.tries = @ + 1])
  <2>1. CASE x.tries + 1 >= MaxSends
    BY <1>8, <1>9, <2>1 DEF Sets
  <2>2. CASE ~ (x.tries + 1 >= MaxSends)
    BY <1>8, <1>9, <2>2 DEF Sets
  <2> QED
    BY <2>1, <2>2
<1>10. CASE Sets(r, Ended(x, "done")) \/ Sets(r, Ended(x, "recovery_required"))
  BY <1>7, <1>10 DEF Sets
<1> QED
  BY <1>1, <1>9, <1>10 DEF FinishDelivery

LEMMA LapseDeliveryStep == ASSUME FeishuIInv, NEW r \in Rows, LapseDelivery(r) PROVE FeishuIInv'
<1>1. PICK d : d = [outbox[r] EXCEPT !.live = FALSE]
  OBVIOUS
<1>2. PICK n : n = landed[r]
  OBVIOUS
<1>3. /\ outbox' = [outbox EXCEPT ![r] = d]
      /\ UNCHANGED <<cursor, inbox, worker, uploads, known, landed>>
  BY <1>1 DEF LapseDelivery, Sets, world
<1>4. d \in DeliveryOf /\ d.status = outbox[r].status /\ d.rank = outbox[r].rank
      /\ d.text = outbox[r].text /\ d.flight = outbox[r].flight
  BY <1>1, <1>3, LandedStays DEF DeliveryOf
<1>5. RowFits(r, d, n)
  BY <1>2, <1>3, <1>4, LandedStays DEF RowFits, Sound, OpenRow
<1> QED
  BY <1>2, <1>3, <1>5, LandedStays, RowStep

\* What the recovery makes of a row.
LEMMA RecoversRow ==
  ASSUME FeishuIInv, NEW r \in Rows
  PROVE  RowFits(r, RecoveredDelivery(outbox[r]), landed[r])
<1>1. PICK x \in DeliveryOf : x = outbox[r]
  BY ARow DEF FeishuIInv
<1>2. PICK n \in Nat : n = landed[r] /\ Sound(x, n)
  BY <1>1, ARow DEF FeishuIInv
<1>3. n > 0 => Taken(r)
  BY <1>2 DEF Taken
<1>4. CASE x.status = "processing"
  <2>1. RecoveredDelivery(x) = Ended(x, "pending")
    BY <1>4 DEF RecoveredDelivery
  <2>2. RowFits(r, Ended(x, "pending"), n)
    BY <1>1, <1>2, <1>3, <1>4, RowEnded DEF RowFits, Sound, OpenRow, OpenStatuses, Taken
  <2> QED
    BY <1>1, <1>2, <2>1, <2>2
<1>5. CASE x.status = "submitting"
  <2>1. PICK f \in {"out", "none"} : f = IF x.flight = "out" THEN "out" ELSE "none"
    OBVIOUS
  <2>2. PICK y : y = [x EXCEPT !.status = "recovery_required", !.live = FALSE, !.flight = f]
    OBVIOUS
  <2>3. y = RecoveredDelivery(x)
    BY <1>5, <2>1, <2>2 DEF RecoveredDelivery
  <2>4. y \in DeliveryOf /\ y.status = "recovery_required" /\ y.flight = f /\ y.rank = x.rank /\ y.text = x.text
    BY <2>2 DEF DeliveryOf, OpenStatuses
  <2>5. RowFits(r, y, n)
    BY <1>1, <1>2, <1>3, <1>5, <2>1, <2>4 DEF RowFits, Sound, OpenRow, OpenStatuses, Taken
  <2> QED
    BY <1>1, <1>2, <2>3, <2>5
<1>6. CASE x.status \notin {"processing", "submitting"}
  <2>1. RecoveredDelivery(x) = x
    BY <1>6 DEF RecoveredDelivery
  <2>2. RowFits(r, x, n)
    BY <1>1, <1>2, <1>3 DEF RowFits, OpenRow
  <2> QED
    BY <1>1, <1>2, <2>1, <2>2
<1> QED
  BY <1>4, <1>5, <1>6

LEMMA RecoverDeliveryStep == ASSUME FeishuIInv, NEW r \in Rows, RecoverDelivery(r) PROVE FeishuIInv'
<1>1. PICK d : d = RecoveredDelivery(outbox[r])
  OBVIOUS
<1>2. PICK n : n = landed[r]
  OBVIOUS
<1>3. /\ outbox' = [outbox EXCEPT ![r] = d]
      /\ UNCHANGED <<cursor, inbox, worker, uploads, known, landed>>
  BY <1>1 DEF RecoverDelivery, Sets, world
<1>4. RowFits(r, d, n)
  BY <1>1, <1>2, RecoversRow
<1> QED
  BY <1>2, <1>3, <1>4, LandedStays, RowStep

-----------------------------------------------------------------------------
LEMMA CloseWithoutReplayStep ==
  ASSUME FeishuIInv, NEW c \in Chats, CloseWithoutReplay(c) PROVE FeishuIInv'
<1>1. UNCHANGED <<cursor, worker, uploads, known, landed>>
  BY DEF CloseWithoutReplay, world
<1>2. /\ inbox' = [m \in Msgs |-> IF m \in Undecided(c) THEN [inbox[m] EXCEPT !.status = "closed"]
                                  ELSE inbox[m]]
      /\ outbox' = [r \in Rows |-> IF r \in Uncertain(c) THEN Ended(outbox[r], "closed") ELSE outbox[r]]
  BY DEF CloseWithoutReplay
<1>3. ASSUME NEW m \in Msgs
      PROVE  /\ inbox'[m] \in InboundOf
             /\ inbox'[m] = inbox[m] \/ inbox'[m].status \notin Busy
             /\ MessageMoves(m)
  <2>1. inbox[m] \in InboundOf
    BY DEF FeishuIInv, FeishuTypes
  <2>2. CASE m \in Undecided(c)
    <3>1. inbox'[m].status = "closed" /\ inbox'[m] \in InboundOf /\ inbox[m].status = "recovery_required"
      BY <1>2, <2>1, <2>2 DEF Undecided, InboundOf, OverStatuses
    <3>2. UploadKept(m)'
      BY <1>1, <3>1 DEF FeishuIInv, UploadInv, UploadKept
    <3>3. m <= cursor'
      BY <1>1, <3>1 DEF FeishuIInv, StoredInv
    <3> QED
      BY <3>1, <3>2, <3>3 DEF MessageMoves, Over, OverStatuses, Busy
  <2>3. CASE m \notin Undecided(c)
    <3>1. inbox'[m] = inbox[m]
      BY <1>2, <2>3
    <3> QED
      BY <1>1, <2>1, <3>1, MessageStays
  <2> QED
    BY <2>2, <2>3
<1>4. ASSUME NEW r \in Rows PROVE Moves(r)
  <2>1. outbox[r] \in DeliveryOf /\ landed[r] \in Nat /\ Sound(outbox[r], landed[r])
    BY ARow DEF FeishuIInv
  <2>2. CASE r \in Uncertain(c)
    <3>1. outbox[r].status = "recovery_required"
      BY <2>2 DEF Uncertain
    <3>2. outbox'[r] = Ended(outbox[r], "closed")
      BY <1>2, <2>2
    <3>3. /\ outbox'[r] \in DeliveryOf /\ outbox'[r].status = "closed" /\ outbox'[r].flight = "none"
          /\ outbox'[r].rank = outbox[r].rank /\ outbox'[r].text = outbox[r].text
      <4>1. PICK x \in DeliveryOf : x = outbox[r]
        BY <2>1
      <4>2. outbox'[r] = Ended(x, "closed")
        BY <3>2, <4>1
      <4> QED
        BY <4>1, <4>2, RowEnded
    <3> QED
      BY <1>1, <2>1, <3>1, <3>3 DEF Moves, Sound, OpenRow, OpenStatuses, Taken
  <2>3. CASE r \notin Uncertain(c)
    <3>1. outbox'[r] = outbox[r]
      BY <1>2, <2>3
    <3> QED
      BY <1>1, <2>1, <3>1 DEF Moves, OpenRow, Taken
  <2> QED
    BY <2>2, <2>3
<1>5. RowsInv' /\ RowsGrow
  <2>1. outbox' = [r \in Rows |-> outbox'[r]]
    BY <1>2
  <2>2. landed' = [r \in Rows |-> landed'[r]]
    BY <1>1 DEF FeishuIInv, RowsInv, RowTypes
  <2> QED
    BY <1>4, <2>1, <2>2, RowsMoveKeeps DEF RowsMove, FeishuIInv
<1>6. inbox' \in [Msgs -> InboundOf]
  BY <1>2, <1>3
<1>7. FeishuTypes' /\ cursor <= cursor'
  BY <1>1, <1>6, SizeOfChat DEF FeishuIInv, FeishuTypes
<1> QED
  BY <1>1, <1>3, <1>5, <1>7, InboxOnly

LEMMA BridgeDiesStep == ASSUME FeishuIInv, BridgeDies PROVE FeishuIInv'
<1>1. /\ UNCHANGED <<cursor, uploads, known, landed>> /\ worker' = [w \in Workers |-> Resting]
      /\ inbox' = [m \in Msgs |-> RecoveredInbound(inbox[m])]
      /\ outbox' = [r \in Rows |-> RecoveredDelivery(outbox[r])]
  BY DEF BridgeDies, world
<1>2. \A m \in Msgs : inbox'[m] \in InboundOf /\ MessageMoves(m)
  <2>1. \A m \in Msgs : inbox'[m] = RecoveredInbound(inbox[m]) /\ inbox[m] \in InboundOf
    BY <1>1 DEF FeishuIInv, FeishuTypes
  <2> QED
    BY <1>1, <2>1, RecoversMessage, RecoveryMoves
<1>3. FeishuTypes'
  <2>1. inbox' \in [Msgs -> InboundOf]
    BY <1>1, <1>2
  <2>2. worker' \in [Workers -> Worker]
    BY <1>1, RestingWorker
  <2> QED
    BY <1>1, <2>1, <2>2 DEF FeishuIInv, FeishuTypes
<1>4. ASSUME NEW r \in Rows PROVE Moves(r)
  <2>1. RowFits(r, outbox'[r], landed'[r]) /\ outbox'[r] = RecoveredDelivery(outbox[r])
    BY <1>1, RecoversRow
  <2>2. outbox'[r].status \in {"processing", "submitting", "recovery_required"} =>
          outbox[r].status \in {"submitting", "recovery_required"}
    BY <2>1 DEF RecoveredDelivery, Ended, RowFits, DeliveryOf
  <2> QED
    BY <1>1, <2>1, <2>2 DEF RowFits, Moves, OpenRow, Taken
<1>5. RowsInv' /\ RowsGrow
  <2>1. outbox' = [r \in Rows |-> outbox'[r]]
    BY <1>1
  <2>2. landed' = [r \in Rows |-> landed'[r]]
    BY <1>1 DEF FeishuIInv, RowsInv, RowTypes
  <2> QED
    BY <1>4, <2>1, <2>2, RowsMoveKeeps DEF RowsMove, FeishuIInv
<1>6. \A w \in Workers : WorkerMoves(w)
  BY <1>1, RestingWorker DEF WorkerMoves, MayUpload
<1>7. cursor <= cursor'
  BY <1>1, SizeOfChat DEF FeishuIInv, FeishuTypes
<1> QED
  BY <1>2, <1>3, <1>5, <1>6, <1>7, StepKeeps

-----------------------------------------------------------------------------
LEMMA FeishuStep == ASSUME FeishuIInv, FeishuNext PROVE FeishuIInv'
<1>1. CASE Receive \/ BridgeDies
  BY <1>1, ReceiveStep, BridgeDiesStep
<1>2. CASE \E w \in Workers : Handle(w) \/ Fail(w) \/ Progress(w)
  <2>1. PICK w \in Workers : Handle(w) \/ Fail(w) \/ Progress(w)
    BY <1>2
  <2>2. CASE \E m \in Msgs : ClaimInbound(w, m)
    BY <2>2, ClaimInboundStep
  <2>3. CASE Ask(w) \/ Answer(w) \/ Reply(w) \/ BeginUpload(w) \/ Upload(w)
    BY <2>3, AskStep, AnswerStep, ReplyStep, BeginUploadStep, UploadStep
  <2>4. CASE Uploaded(w) \/ StoreImage(w) \/ CompleteUpload(w) \/ SendLink(w) \/ FinishInbound(w)
    BY <2>4, UploadedStep, StoreImageStep, CompleteUploadStep, SendLinkStep, FinishInboundStep
  <2>5. CASE Fail(w) \/ Progress(w)
    BY <2>5, FailStep, ProgressStep
  <2> QED
    BY <2>1, <2>2, <2>3, <2>4, <2>5 DEF Handle
<1>3. CASE \E m \in Msgs : Lapse(m) \/ RecoverInbound(m)
  BY <1>3, LapseStep, RecoverInboundStep
<1>4. CASE \E r \in Rows : Drain(r) \/ Sink(r) \/ LapseDelivery(r)
  <2>1. PICK r \in Rows : Drain(r) \/ Sink(r) \/ LapseDelivery(r)
    BY <1>4
  <2>2. CASE ClaimDelivery(r) \/ BeginSubmission(r) \/ Land(r) \/ FinishDelivery(r) \/ RecoverDelivery(r)
    BY <2>2, ClaimDeliveryStep, BeginSubmissionStep, LandStep, FinishDeliveryStep, RecoverDeliveryStep
  <2>3. CASE Sink(r) \/ LapseDelivery(r)
    BY <2>3, SinkStep, LapseDeliveryStep
  <2> QED
    BY <2>1, <2>2, <2>3 DEF Drain
<1>5. CASE \E c \in Chats : CloseWithoutReplay(c)
  BY <1>5, CloseWithoutReplayStep
<1> QED
  BY <1>1, <1>2, <1>3, <1>4, <1>5 DEF FeishuNext

LEMMA FeishuStart == ASSUME FeishuInit PROVE FeishuIInv
<1> USE DEF FeishuInit
<1>1. \A r \in Rows : outbox[r] = Absent /\ landed[r] = 0
  OBVIOUS
<1>2. Absent \in DeliveryOf /\ Absent.status = "absent" /\ Absent.flight = "none" /\ Absent.rank = 0
  BY DEF Absent, DeliveryOf, Texts
<1>3. \A m \in Msgs : inbox[m].status = "none" /\ inbox[m] \in InboundOf
  BY SMTT(30) DEF InboundOf
<1>4. \A w \in Workers : worker[w] = Resting
  OBVIOUS
<1>5. FeishuTypes
  <2>1. worker \in [Workers -> Worker] /\ inbox \in [Msgs -> InboundOf]
    BY <1>3, RestingWorker
  <2>2. cursor \in 0..N
    BY SizeOfChat
  <2>3. uploads \in [Msgs -> Nat] /\ known \in [Msgs -> Nat]
    OBVIOUS
  <2> QED
    BY <2>1, <2>2, <2>3 DEF FeishuTypes
<1>6. RowsInv
  <2>1. RowTypes
    BY <1>1, <1>2 DEF RowTypes
  <2>2. SoundInv /\ TopInv /\ RankInv /\ LineInv
    BY <1>1, <1>2 DEF SoundInv, Sound, TopInv, RankInv, LineInv
  <2> QED
    BY <2>1, <2>2 DEF RowsInv
<1>7. StoredInv
  <2>1. \A m \in Msgs : ~ (m <= cursor)
    BY SizeOfChat
  <2> QED
    BY <1>3, <1>4, <2>1, RestingWorker DEF StoredInv
<1>8. BehindInv
  <2>1. \A m \in Msgs : ~ Begun(m)
    BY <1>1, <1>2, <1>3, RowParts DEF Begun, Busy, Stored
  <2> QED
    BY <2>1 DEF BehindInv
<1>9. UploadInv
  <2>1. \A w \in Workers : MayUpload(w)
    BY <1>4, RestingWorker DEF MayUpload
  <2>2. \A m \in Msgs : uploads[m] = 0 /\ known[m] = 0
    OBVIOUS
  <2> QED
    BY <2>1, <2>2 DEF UploadInv, UploadKept
<1>10. AnswerInv
  BY <1>3, <1>4, RestingWorker DEF AnswerInv, WorkerKnows, Paid
<1> QED
  BY <1>5, <1>6, <1>7, <1>8, <1>9, <1>10 DEF FeishuIInv

LEMMA FeishuStutter == ASSUME FeishuIInv, UNCHANGED feishuVars PROVE FeishuIInv'
<1>1. UNCHANGED <<cursor, inbox, outbox, worker, uploads, known, landed>>
  BY DEF feishuVars, world
<1>2. RowsInv' /\ RowsGrow
  BY <1>1, RowsStay DEF FeishuIInv
<1> QED
  BY <1>1, <1>2, RowsOnly

LEMMA FeishuAlways == FeishuSpec => []FeishuIInv
<1>1. FeishuInit => FeishuIInv
  BY FeishuStart
<1>2. FeishuIInv /\ [FeishuNext]_feishuVars => FeishuIInv'
  BY FeishuStep, FeishuStutter
<1> QED
  BY <1>1, <1>2, PTL DEF FeishuSpec

\* No delivery arrives twice and no picture is uploaded behind an upload of
\* unknown outcome; a message that counts as handled has its reply in the outbox
\* with its picture or link, and a dead one its notice.
THEOREM DeliveriesCorrect == FeishuSpec => []DeliveriesAreSent
<1>1. FeishuIInv => DeliveriesAreSent
  <2> SUFFICES ASSUME FeishuIInv PROVE DeliveredOnce /\ DoneIsAnswered
    BY DEF DeliveriesAreSent
  <2>1. DeliveredOnce
    BY DEF DeliveredOnce, FeishuIInv, RowsInv, SoundInv, Sound, UploadInv, UploadKept
  <2>2. ASSUME NEW m \in Msgs
        PROVE  LET stored == {k \in Kinds : outbox[<<m, k>>].status # "absent"} IN
               /\ inbox[m].status = "done" =>
                    /\ "reply" \in stored
                    /\ m \in Pictures /\ outbox[<<m, "reply">>].text = "answer" =>
                         {"image", "link"} \cap stored # {}
               /\ inbox[m].status = "dead" => "terminal" \in stored
    <3>1. Paid(m)
      BY DEF FeishuIInv, AnswerInv
    <3>2. \A k \in {"reply", "image", "link", "terminal"} :
            Stored(m, k) => k \in {j \in Kinds : outbox[<<m, j>>].status # "absent"}
      BY DEF Kinds, Stored
    <3> QED
      BY <3>1, <3>2 DEF Paid, Answered
  <2> QED
    BY <2>1, <2>2 DEF DoneIsAnswered
<1> QED
  BY <1>1, FeishuAlways, PTL

\* Only a request that is out arrives.
LEMMA OnlyLands ==
  ASSUME FeishuIInv, FeishuNext, NEW r \in Rows, landed'[r] > landed[r]
  PROVE  OpenRow(r)
<1>0. landed[r] \in Nat /\ landed \in [Rows -> Nat]
  BY DEF FeishuIInv, RowsInv, RowTypes
<1>1. ASSUME NEW q \in Rows, Land(q) PROVE OpenRow(r)
  <2>1. landed' = [landed EXCEPT ![q] = @ + 1] /\ outbox[q].flight = "out"
    BY <1>1 DEF Land
  <2>2. r = q
    BY <1>0, <2>1
  <2> QED
    BY <2>1, <2>2, ARow DEF FeishuIInv, Sound, OpenRow, OpenStatuses
<1>2. ~ UNCHANGED landed
  BY <1>0
<1>3. CASE Receive \/ BridgeDies
  BY <1>2, <1>3 DEF Receive, BridgeDies, world
<1>4. CASE \E w \in Workers : Handle(w) \/ Fail(w) \/ Progress(w)
  BY ZenonT(40), <1>2, <1>4 DEF Handle, Fail, Progress, ClaimInbound, Ask, Answer, Reply, BeginUpload, Upload,
     Uploaded, StoreImage, CompleteUpload, SendLink, FinishInbound, world
<1>5. CASE \E m \in Msgs : Lapse(m) \/ RecoverInbound(m)
  BY <1>2, <1>5 DEF Lapse, RecoverInbound, world
<1>6. CASE \E q \in Rows : Drain(q) \/ Sink(q) \/ LapseDelivery(q)
  BY <1>1, <1>2, <1>6 DEF Drain, ClaimDelivery, BeginSubmission, FinishDelivery, RecoverDelivery, Sink,
                          LapseDelivery, world
<1>7. CASE \E c \in Chats : CloseWithoutReplay(c)
  BY <1>2, <1>7 DEF CloseWithoutReplay, world
<1> QED
  BY <1>3, <1>4, <1>5, <1>6, <1>7 DEF FeishuNext

LEMMA OrderOfAStep == ASSUME FeishuIInv, [FeishuNext]_feishuVars PROVE [DeliveredInOrder]_feishuVars
<1> SUFFICES ASSUME FeishuNext PROVE DeliveredInOrder
  OBVIOUS
<1> SUFFICES ASSUME NEW r \in Rows, NEW q \in Rows, landed'[r] > landed[r], landed[q] > 0,
                    ChatOf[r[1]] = ChatOf[q[1]]
             PROVE  r[1] >= q[1] /\ outbox[r].rank >= outbox[q].rank
  BY DEF DeliveredInOrder
<1>1. OpenRow(r) /\ Taken(q) /\ OfOneChat(r, q)
  BY OnlyLands DEF Taken, OfOneChat
<1>2. outbox[r].rank >= outbox[q].rank /\ outbox[r].rank \in Nat /\ outbox[q].rank \in Nat
  BY <1>1, ARow DEF FeishuIInv, RowsInv, LineInv
<1>3. outbox[r].status # "absent" /\ outbox[q].status # "absent"
  <2>1. Sound(outbox[q], landed[q])
    BY ARow DEF FeishuIInv
  <2> QED
    BY <1>1, <2>1 DEF OpenRow, OpenStatuses, Sound
<1>4. ~ (r[1] < q[1])
  BY <1>1, <1>2, <1>3 DEF FeishuIInv, RowsInv, RankInv
<1> QED
  BY <1>2, <1>4, RowParts

\* What arrives in a chat belongs to no earlier message, and was stored no
\* earlier, than what arrived before.
THEOREM DeliveryOrderCorrect == FeishuSpec => OrderKept
<1>1. FeishuIInv /\ [FeishuNext]_feishuVars => [DeliveredInOrder]_feishuVars
  BY OrderOfAStep
<1> QED
  BY <1>1, FeishuAlways, PTL DEF FeishuSpec, OrderKept
=============================================================================
