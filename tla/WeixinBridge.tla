---------------------------- MODULE WeixinBridge ----------------------------
(***************************************************************************)
(* The Weixin bridge (scripts/run_weixin_ilink_bridge.py): its inbox, its  *)
(* outbox, the reservations of its video queue, the workers between them,  *)
(* and the order and the single sending they promise to a chat.            *)
(*                                                                         *)
(* The platform numbers the messages of all chats 1, 2, ..; chat_seq is    *)
(* that number.  A claim's token is the name of its worker; the life of a  *)
(* lease is in ClaimLease.  A row of the outbox is one chunk of a group.   *)
(* The gateway gives a turn one answer (TurnPromise), and a local reply    *)
(* while no model is ready.  Videos end here in one step (VideoQueue).     *)
(***************************************************************************)
EXTENDS FiniteSets, FiniteSetsExt, Sequences, Integers

CONSTANTS
  Chats,        \* the users
  ChatOf,       \* the chat of each message
  Workers,      \* threads that handle messages
  Chunks,       \* chunks of a reply
  Videos,       \* messages whose turn starts an asynchronous video
  Pictures,     \* messages whose answer brings generated media
  VideoRoom,    \* rows of pending_video that may be alive
  MaxFailures,  \* a message that failed so often is dead
  MaxSends,     \* a chunk that could not be sent so often is dead
  MaxMishaps,   \* bound on errors, stalls and crashes
  Outages,      \* bound on how often no model is ready
  Prunes        \* bound on groups that retention or capacity removes

N == Len(ChatOf)
Msgs == 1..N

ASSUME BridgeAssumption ==
  /\ ChatOf \in Seq(Chats)
  /\ Videos \subseteq Msgs /\ Pictures \subseteq Msgs
  /\ {Chunks, VideoRoom, MaxFailures, MaxSends} \subseteq Nat \ {0}
  /\ {MaxMishaps, Outages, Prunes} \subseteq Nat

Kinds == {"progress", "retrying", "terminal", "reply", "link"}
Rows == {r \in Msgs \X Kinds \X (1..Chunks) : r[2] = "reply" \/ r[3] = 1}

VARIABLES
  cursor,   \* the last message stored
  inbox,    \* inbound_message
  outbox,   \* pending_delivery
  video,    \* pending_video, by the message that asked for it
  worker,
  turn,     \* whether the gateway executed the message's turn
  outage,   \* whether no model is ready
  landed,   \* how often a chunk arrived in the chat
  media,    \* how often generated media arrived
  mishaps, outages, prunes

rows == <<inbox, outbox, video>>
world == <<turn, outage, landed, media>>
bounds == <<outages, prunes>>
bridgeVars == <<cursor, rows, worker, world, mishaps, bounds>>

Nobody == "nobody"
Inbound == [status: {"none", "pending", "processing", "done", "dead"},
            attempts: 0..MaxFailures, owner: Workers \cup {Nobody}]
Texts == {"answer", "local", "fixed"}
Delivery == [status: {"absent", "pending", "processing", "submitting",
                      "recovery_required", "done", "dead"},
             text: Texts, rank: Nat, tries: 0..MaxSends,
             live: BOOLEAN,   \* the claim's deadline is ahead
             flight: {"none", "out", "ok", "lost", "dns"}]
Absent == [status |-> "absent", text |-> "fixed", rank |-> 0, tries |-> 0,
           live |-> FALSE, flight |-> "none"]
Worker == [pc: {"idle", "reserve", "ask", "asked", "settle", "reply", "media", "finish"},
           msg: 0..N, text: Texts, slot: BOOLEAN, ok: BOOLEAN]
Idle == [pc |-> "idle", msg |-> 0, text |-> "fixed", slot |-> FALSE, ok |-> TRUE]

BridgeInit ==
  /\ cursor = 0
  /\ inbox = [m \in Msgs |-> [status |-> "none", attempts |-> 0, owner |-> Nobody]]
  /\ outbox = [r \in Rows |-> Absent]
  /\ video = [m \in Msgs |-> "none"]
  /\ worker = [w \in Workers |-> Idle]
  /\ turn = [m \in Msgs |-> "none"] /\ outage = FALSE
  /\ landed = [r \in Rows |-> 0] /\ media = [m \in Msgs |-> 0]
  /\ mishaps = 0 /\ outages = 0 /\ prunes = 0

Mishap == mishaps < MaxMishaps /\ mishaps' = mishaps + 1

-----------------------------------------------------------------------------
(* What is open in a chat, and who waits for it.                           *)

SameChat(m, n) == ChatOf[m] = ChatOf[n]
Earlier(m) == {n \in 1..(m - 1) : SameChat(m, n)}

OpenInbound(m) == inbox[m].status \in {"pending", "processing"}
OpenRow(r) == outbox[r].status \in {"pending", "processing", "submitting", "recovery_required"}
OpenVideo(m) == video[m] \in {"reserved", "pending", "recovery_required"}

EarlierWork(m) == \E n \in Earlier(m) : OpenInbound(n)
EarlierRows(m) == \E r \in Rows : r[1] \in Earlier(m) /\ OpenRow(r)
EarlierVideo(m) == \E n \in Earlier(m) : OpenVideo(n)

Group(r) == {q \in Rows : q[1] = r[1] /\ q[2] = r[2]}

\* Faulty: rows of the messages before are not looked at.
MayBeSentBehind(r) ==
  /\ \A q \in Group(r) : q[3] < r[3] => outbox[q].status = "done"
  /\ ~ EarlierWork(r[1])

\* The conditions of _claim_delivery.
MayBeSent(r) ==
  /\ \A q \in Group(r) : q[3] < r[3] => outbox[q].status = "done"
  /\ ~ EarlierRows(r[1]) /\ ~ EarlierWork(r[1]) /\ ~ EarlierVideo(r[1])
  /\ \A q \in Rows \ Group(r) :
       q[1] = r[1] /\ outbox[q].rank < outbox[r].rank => ~ OpenRow(q)

\* Of a group that exists already nothing but the text is compared.
Conflicts(m, kind, text) ==
  \E r \in Rows : r[1] = m /\ r[2] = kind /\ outbox[r].status # "absent" /\ outbox[r].text # text

Ranks(m) == {outbox[r].rank : r \in {q \in Rows : q[1] = m}}

\* _enqueue_delivery_in_transaction: a group that exists stays as it is.
Enqueued(m, kind, text) ==
  [r \in Rows |->
     IF r[1] = m /\ r[2] = kind /\ outbox[r].status = "absent"
     THEN [Absent EXCEPT !.status = "pending", !.text = text, !.rank = Max(Ranks(m)) + 1]
     ELSE outbox[r]]

-----------------------------------------------------------------------------
(* The inbox.                                                              *)

\* _store_updates: messages and the cursor in one transaction.
Receive ==
  \E k \in (cursor + 1)..N :
    /\ inbox' = [m \in Msgs |-> IF m \in (cursor + 1)..k
                                THEN [inbox[m] EXCEPT !.status = "pending"] ELSE inbox[m]]
    /\ cursor' = k
    /\ UNCHANGED <<outbox, video, worker, world, mishaps, bounds>>

\* Faulty: a claim that its owner lost is not taken over.
ClaimInboundPending(w, m) ==
  /\ worker[w].pc = "idle"
  /\ inbox[m].status = "pending"
  /\ ~ EarlierWork(m) /\ ~ EarlierRows(m)
  /\ inbox' = [inbox EXCEPT ![m].status = "processing", ![m].owner = w]
  /\ worker' = [worker EXCEPT ![w] = [Idle EXCEPT !.pc = "reserve", !.msg = m]]
  /\ UNCHANGED <<cursor, outbox, video, world, mishaps, bounds>>

\* _claim_inbound.
ClaimInbound(w, m) ==
  /\ worker[w].pc = "idle"
  /\ inbox[m].status = "pending" \/ (inbox[m].status = "processing" /\ inbox[m].owner = Nobody)
  /\ ~ EarlierWork(m) /\ ~ EarlierRows(m)
  /\ inbox' = [inbox EXCEPT ![m].status = "processing", ![m].owner = w]
  /\ worker' = [worker EXCEPT ![w] = [Idle EXCEPT !.pc = "reserve", !.msg = m]]
  /\ UNCHANGED <<cursor, outbox, video, world, mishaps, bounds>>

OwnsInbound(w) ==
  worker[w].pc # "idle" /\ inbox[worker[w].msg].status = "processing"
                        /\ inbox[worker[w].msg].owner = w

\* A claim runs out while its worker stalls; the worker cannot write any more.
LapseInbound(m) ==
  /\ inbox[m].status = "processing" /\ inbox[m].owner # Nobody
  /\ Mishap
  /\ inbox' = [inbox EXCEPT ![m].owner = Nobody]
  /\ UNCHANGED <<cursor, outbox, video, worker, world, bounds>>

-----------------------------------------------------------------------------
(* The handler: _handle, every write of it under the claim.                *)

WorkerAt(w, pc) == worker[w].pc = pc
Goes(w, pc) == worker' = [worker EXCEPT ![w].pc = pc]
Fails(w) == worker' = [worker EXCEPT ![w].pc = "finish", ![w].ok = FALSE]

\* An exception, or a fence that refuses, at any step before the finish.
Fail(w) ==
  /\ worker[w].pc \notin {"idle", "finish"}
  /\ IF OwnsInbound(w) THEN Mishap ELSE UNCHANGED mishaps
  /\ Fails(w)
  /\ UNCHANGED <<cursor, rows, world, bounds>>

\* _reserve_pending_video_capacity; without room the turn goes on.
ReserveVideo(w) ==
  /\ WorkerAt(w, "reserve") /\ OwnsInbound(w)
  /\ LET m == worker[w].msg
         room == Cardinality({n \in Msgs : OpenVideo(n)}) < VideoRoom
         slot == video[m] # "none" \/ room IN
     /\ video' = IF video[m] = "none" /\ room THEN [video EXCEPT ![m] = "reserved"] ELSE video
     /\ worker' = [worker EXCEPT ![w].pc = "ask", ![w].slot = slot]
  /\ UNCHANGED <<cursor, inbox, outbox, world, mishaps, bounds>>

Ask(w) ==
  /\ WorkerAt(w, "ask") /\ OwnsInbound(w)
  /\ Goes(w, "asked")
  /\ UNCHANGED <<cursor, rows, world, mishaps, bounds>>

\* What comes of the call to the gateway, whoever owns the message by then.
Answer(w) ==
  /\ WorkerAt(w, "asked")
  /\ LET m == worker[w].msg IN
     \/ /\ ~ outage
        /\ turn' = [turn EXCEPT ![m] = "done"]
        /\ worker' = [worker EXCEPT ![w].pc = "settle", ![w].text = "answer"]
        /\ UNCHANGED mishaps
     \/ /\ outage
        /\ worker' = [worker EXCEPT ![w].pc = "settle", ![w].text = "local"]
        /\ UNCHANGED <<turn, mishaps>>
     \/ /\ Mishap
        /\ turn' \in {turn, IF outage THEN turn ELSE [turn EXCEPT ![m] = "done"]}
        /\ Fails(w)
  /\ UNCHANGED <<cursor, rows, outage, landed, media, bounds>>

\* The notice of a turn that takes long; its thread may hang behind a failure.
Progress(w) ==
  /\ \/ worker[w].pc \in {"asked", "settle"}
     \/ WorkerAt(w, "finish") /\ ~ worker[w].ok
  /\ OwnsInbound(w)
  /\ outbox' = Enqueued(worker[w].msg, "progress", "fixed")
  /\ outbox' # outbox
  /\ UNCHANGED <<cursor, inbox, video, worker, world, mishaps, bounds>>

\* The reserved slot becomes the video's row or is given back.
Settle(w) ==
  /\ WorkerAt(w, "settle") /\ OwnsInbound(w)
  /\ LET m == worker[w].msg
         starts == m \in Videos /\ worker[w].slot /\ worker[w].text = "answer" IN
     video' = IF worker[w].slot /\ video[m] = "reserved"
              THEN [video EXCEPT ![m] = IF starts THEN "pending" ELSE "none"]
              ELSE video
  /\ Goes(w, "reply")
  /\ UNCHANGED <<cursor, inbox, outbox, world, mishaps, bounds>>

\* deliver(reply, "reply"): stored; it is sent by whoever drains the outbox.
Reply(w) ==
  /\ WorkerAt(w, "reply") /\ OwnsInbound(w)
  /\ IF Conflicts(worker[w].msg, "reply", worker[w].text)
     THEN Fails(w) /\ UNCHANGED outbox
     ELSE /\ outbox' = Enqueued(worker[w].msg, "reply", worker[w].text)
          /\ Goes(w, "media")
  /\ UNCHANGED <<cursor, inbox, video, world, mishaps, bounds>>

\* _send_generated_media: sent directly, and a link is stored when that fails.
SendMedia(w) ==
  /\ WorkerAt(w, "media") /\ OwnsInbound(w)
  /\ LET m == worker[w].msg IN
     IF m \notin Pictures \/ worker[w].text # "answer"
     THEN UNCHANGED <<media, outbox, mishaps>>
     ELSE \/ media' = [media EXCEPT ![m] = @ + 1] /\ UNCHANGED <<outbox, mishaps>>
          \/ /\ Mishap
             /\ media' \in {media, [media EXCEPT ![m] = @ + 1]}
             /\ outbox' = Enqueued(m, "link", "fixed")
  /\ Goes(w, "finish")
  /\ UNCHANGED <<cursor, inbox, video, turn, outage, landed, bounds>>

Dies(m) == inbox[m].attempts + 1 >= MaxFailures

\* _finish_inbound, with the notice in the same transaction; a finish that is
\* not stored, or not its owner's, leaves the row to the end of its lease.
FinishInbound(w) ==
  /\ WorkerAt(w, "finish")
  /\ LET m == worker[w].msg IN
     \/ /\ OwnsInbound(w) /\ worker[w].ok
        /\ inbox' = [inbox EXCEPT ![m].status = "done", ![m].owner = Nobody]
        /\ UNCHANGED <<outbox, mishaps>>
     \/ /\ OwnsInbound(w) /\ ~ worker[w].ok
        /\ inbox' = [inbox EXCEPT ![m] = [status |-> IF Dies(m) THEN "dead" ELSE "pending",
                                          attempts |-> @.attempts + 1, owner |-> Nobody]]
        /\ outbox' = IF Dies(m) THEN Enqueued(m, "terminal", "fixed")
                     ELSE IF inbox[m].attempts = 0 THEN Enqueued(m, "retrying", "fixed")
                     ELSE outbox
        /\ UNCHANGED mishaps
     \/ /\ OwnsInbound(w) /\ Mishap
        /\ inbox' = [inbox EXCEPT ![m].owner = Nobody]
        /\ UNCHANGED outbox
     \/ ~ OwnsInbound(w) /\ UNCHANGED <<inbox, outbox, mishaps>>
  /\ worker' = [worker EXCEPT ![w] = Idle]
  /\ UNCHANGED <<cursor, video, world, bounds>>

-----------------------------------------------------------------------------
(* The outbox.                                                             *)

Sets(r, d) == outbox' = [outbox EXCEPT ![r] = d]

ClaimDelivery(r) ==
  /\ outbox[r].status = "pending" /\ MayBeSent(r)
  /\ Sets(r, [outbox[r] EXCEPT !.status = "processing", !.live = TRUE])
  /\ UNCHANGED <<cursor, inbox, video, worker, world, mishaps, bounds>>

\* The time of the drain is used up before anything was sent.
ReleaseDelivery(r) ==
  /\ outbox[r].status = "processing" /\ outbox[r].live
  /\ Mishap
  /\ Sets(r, [outbox[r] EXCEPT !.status = "pending", !.live = FALSE])
  /\ UNCHANGED <<cursor, inbox, video, worker, world, bounds>>

\* _mark_delivery_submitting, committed before the first byte.
MarkSubmitting(r) ==
  /\ outbox[r].status = "processing" /\ outbox[r].live
  /\ Sets(r, [outbox[r] EXCEPT !.status = "submitting", !.flight = "out"])
  /\ UNCHANGED <<cursor, inbox, video, worker, world, mishaps, bounds>>

\* The request arrives, or not; its sender learns so, or not.
Land(r) ==
  /\ outbox[r].flight = "out"
  /\ landed' = [landed EXCEPT ![r] = @ + 1]
  /\ \/ Sets(r, [outbox[r] EXCEPT !.flight = "ok"]) /\ UNCHANGED mishaps
     \/ Mishap /\ Sets(r, [outbox[r] EXCEPT !.flight = "lost"])
  /\ UNCHANGED <<cursor, inbox, video, worker, turn, outage, media, bounds>>
Sink(r) ==
  /\ outbox[r].flight = "out" /\ Mishap
  /\ \E end \in {"lost", "dns"} : Sets(r, [outbox[r] EXCEPT !.flight = end])
  /\ UNCHANGED <<cursor, inbox, video, worker, world, bounds>>

Ended(d, status) == [d EXCEPT !.status = status, !.live = FALSE, !.flight = "none"]

\* _finish_delivery: only what never left is tried again; a chunk that dies
\* takes the rest of its group along.
FinishDelivery(r) ==
  /\ outbox[r].status = "submitting" /\ outbox[r].live
  /\ \/ outbox[r].flight = "ok" /\ Sets(r, Ended(outbox[r], "done"))
     \/ outbox[r].flight = "lost" /\ Sets(r, Ended(outbox[r], "recovery_required"))
     \/ /\ outbox[r].flight = "dns" /\ outbox[r].tries + 1 < MaxSends
        /\ Sets(r, [Ended(outbox[r], "pending") EXCEPT !.tries = @ + 1])
     \/ /\ outbox[r].flight = "dns" /\ outbox[r].tries + 1 >= MaxSends
        /\ outbox' = [q \in Rows |-> IF q \in Group(r) /\ outbox[q].status \notin {"done", "absent"}
                                     THEN Ended(outbox[q], "dead") ELSE outbox[q]]
  /\ UNCHANGED <<cursor, inbox, video, worker, world, mishaps, bounds>>

\* The drainer stalls, or its finish is not stored: the lease runs out.
LapseDelivery(r) ==
  /\ outbox[r].live /\ Mishap
  /\ Sets(r, [outbox[r] EXCEPT !.live = FALSE])
  /\ UNCHANGED <<cursor, inbox, video, worker, world, bounds>>

Flies(d) == [d EXCEPT !.live = FALSE, !.flight = IF @ = "out" THEN "out" ELSE "none"]

\* Faulty: what was submitted is sent again.
RecoveredAgain(d) ==
  IF d.status \in {"processing", "submitting"} THEN [Flies(d) EXCEPT !.status = "pending"] ELSE d

\* _recover_delivery_claims, of one row.
Recovered(d) ==
  CASE d.status = "processing" -> [d EXCEPT !.status = "pending", !.live = FALSE]
    [] d.status = "submitting" -> [Flies(d) EXCEPT !.status = "recovery_required"]
    [] OTHER -> d

RecoverDelivery(r) ==
  /\ outbox[r].status \in {"processing", "submitting"} /\ ~ outbox[r].live
  /\ Sets(r, Recovered(outbox[r]))
  /\ UNCHANGED <<cursor, inbox, video, worker, world, mishaps, bounds>>

-----------------------------------------------------------------------------
(* The rest of the bridge.                                                 *)

\* The video worker ends a video (its claim has conditions like the others).
EndVideo(m) ==
  /\ video[m] = "pending"
  /\ ~ EarlierWork(m) /\ ~ EarlierRows(m) /\ ~ EarlierVideo(m)
  /\ \/ video' = [video EXCEPT ![m] = "done"] /\ UNCHANGED mishaps
     \/ Mishap /\ video' = [video EXCEPT ![m] = "recovery_required"]
  /\ UNCHANGED <<cursor, inbox, outbox, worker, world, bounds>>

\* _terminal_maintenance: reservations nobody will use.
Maintain ==
  /\ \E m \in Msgs : video[m] = "reserved" /\ inbox[m].status \in {"done", "dead"}
  /\ video' = [m \in Msgs |-> IF video[m] = "reserved" /\ inbox[m].status \in {"done", "dead"}
                              THEN "none" ELSE video[m]]
  /\ UNCHANGED <<cursor, inbox, outbox, worker, world, mishaps, bounds>>

\* A group that is done is removed, by age or for room.
Prune(r) ==
  /\ prunes < Prunes /\ prunes' = prunes + 1
  /\ \A q \in Group(r) : outbox[q].status = "done"
  /\ outbox' = [q \in Rows |-> IF q \in Group(r) THEN Absent ELSE outbox[q]]
  /\ UNCHANGED <<cursor, inbox, video, worker, world, mishaps, outages>>

Uncertain(c) == {r \in Rows : ChatOf[r[1]] = c /\ outbox[r].status = "recovery_required"}

\* _weixin_close_without_replay: an operator gives up a chat's uncertain rows,
\* after the requests of these have come to their end.
CloseWithoutReplay(c) ==
  /\ Uncertain(c) # {} \/ \E m \in Msgs : ChatOf[m] = c /\ video[m] = "recovery_required"
  /\ \A r \in Uncertain(c) : outbox[r].flight # "out"
  /\ outbox' = [r \in Rows |-> IF r \in Uncertain(c) THEN Ended(outbox[r], "dead") ELSE outbox[r]]
  /\ video' = [m \in Msgs |-> IF ChatOf[m] = c /\ video[m] = "recovery_required"
                              THEN "dead" ELSE video[m]]
  /\ UNCHANGED <<cursor, inbox, worker, world, mishaps, bounds>>

\* _recover_inbound, of one row.
RecoveredInbound(i) ==
  IF i.status = "processing" THEN [i EXCEPT !.status = "pending", !.owner = Nobody] ELSE i

\* The process dies; main recovers every claim before it goes on.
BridgeDies ==
  /\ Mishap
  /\ worker' = [w \in Workers |-> Idle]
  /\ inbox' = [m \in Msgs |-> RecoveredInbound(inbox[m])]
  /\ outbox' = [r \in Rows |-> Recovered(outbox[r])]
  /\ UNCHANGED <<cursor, video, world, bounds>>

LoseModels ==
  /\ ~ outage /\ outages < Outages
  /\ outage' = TRUE /\ outages' = outages + 1
  /\ UNCHANGED <<cursor, rows, worker, turn, landed, media, mishaps, prunes>>
FindModels ==
  /\ outage /\ outage' = FALSE
  /\ UNCHANGED <<cursor, rows, worker, turn, landed, media, mishaps, bounds>>

Handle(w) ==
  \/ \E m \in Msgs : ClaimInbound(w, m)
  \/ ReserveVideo(w) \/ Ask(w) \/ Answer(w) \/ Settle(w) \/ Reply(w)
  \/ SendMedia(w) \/ FinishInbound(w)

Drain(r) ==
  \/ ClaimDelivery(r) \/ MarkSubmitting(r) \/ Land(r) \/ FinishDelivery(r) \/ RecoverDelivery(r)

BridgeNext ==
  \/ Receive \/ Maintain \/ BridgeDies \/ LoseModels \/ FindModels
  \/ \E w \in Workers : Handle(w) \/ Fail(w) \/ Progress(w)
  \/ \E m \in Msgs : LapseInbound(m) \/ EndVideo(m)
  \/ \E r \in Rows : Drain(r) \/ ReleaseDelivery(r) \/ Sink(r) \/ LapseDelivery(r) \/ Prune(r)
  \/ \E c \in Chats : CloseWithoutReplay(c)

BridgeSpec == BridgeInit /\ [][BridgeNext]_bridgeVars

\* What a thread does by itself.
Thread(w) == Handle(w) \/ (Fail(w) /\ ~ OwnsInbound(w))

\* Every thread runs, the operator decides and the models come back; no step is
\* taken for ever, so that weak fairness of each thread is enough.
BridgeFairSpec ==
  /\ BridgeSpec
  /\ WF_bridgeVars(Receive) /\ WF_bridgeVars(Maintain) /\ WF_bridgeVars(FindModels)
  /\ WF_bridgeVars(\E m \in Msgs : EndVideo(m))
  /\ WF_bridgeVars(\E r \in Rows : Drain(r))
  /\ WF_bridgeVars(\E c \in Chats : CloseWithoutReplay(c))
  /\ \A w \in Workers : WF_bridgeVars(Thread(w))

-----------------------------------------------------------------------------
(* Properties.                                                             *)

BridgeTypeOK ==
  /\ cursor \in 0..N
  /\ inbox \in [Msgs -> Inbound] /\ outbox \in [Rows -> Delivery]
  /\ video \in [Msgs -> {"none", "reserved", "pending", "done", "dead", "recovery_required"}]
  /\ worker \in [Workers -> Worker]
  /\ turn \in [Msgs -> {"none", "done"}] /\ outage \in BOOLEAN
  /\ landed \in [Rows -> Nat] /\ media \in [Msgs -> Nat]
  /\ \A m \in Msgs : inbox[m].owner # Nobody => inbox[m].status = "processing"

\* No chunk arrives in a chat twice: not by a retry, a second drainer, a lease
\* that ran out during the request, or a restart.  (What retention removes of a
\* message that is not finished is sent again: hence the condition on prunes.)
SentOnce == prunes = 0 => \A r \in Rows : landed[r] <= 1

\* A message that counts as handled has its reply in the outbox, and the reply
\* is the answer of the turn unless no model was ready.
DoneIsAnswered ==
  prunes = 0 =>
    \A m \in Msgs : inbox[m].status = "done" =>
      \A i \in 1..Chunks :
        /\ outbox[<<m, "reply", i>>].status # "absent"
        /\ outages = 0 => outbox[<<m, "reply", i>>].text = "answer"

\* Every message that counts as handled has a reply, and no reply is sent twice.
RepliesAreSent == SentOnce /\ DoneIsAnswered

\* What arrives belongs to no earlier message, and to no earlier chunk of a
\* reply, than what has arrived before; a video does not end behind them.
Before(r, q) ==
  /\ SameChat(r[1], q[1])
  /\ r[1] < q[1] \/ (prunes = 0 /\ r[1] = q[1] /\ {r[2], q[2]} = {"reply"} /\ r[3] < q[3])
SentInOrder ==
  /\ \A r \in Rows : landed'[r] > landed[r] => \A q \in Rows : Before(r, q) => landed[q] = 0
  /\ \A m \in Msgs : video[m] = "pending" /\ video'[m] = "done" =>
       \A q \in Rows : m \in Earlier(q[1]) => landed[q] = 0
OrderKept == [][SentInOrder]_bridgeVars

\* The messages there are come to their end, and so does what is stored for a
\* chat: the outbox is empty again and again.
InboxAtRest == \A m \in Msgs : ~ OpenInbound(m)
OutboxAtRest == \A r \in Rows : ~ OpenRow(r)
ChatsComeToRest == []<>InboxAtRest /\ []<>OutboxAtRest
=============================================================================
