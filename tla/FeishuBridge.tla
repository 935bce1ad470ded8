---------------------------- MODULE FeishuBridge ----------------------------
(***************************************************************************)
(* The Feishu bridge (scripts/run_feishu_bridge.py): its inbox with the    *)
(* uploads of pictures, its outbox, the workers between them, the recovery *)
(* of their claims, and an operator's decision on what is uncertain.       *)
(*                                                                         *)
(* Messages are numbered in the order they are stored in; the platform     *)
(* delivers one that was refused again.  A claim's token is the name of    *)
(* its worker; the life of a lease is in ClaimLease.  The keys of the      *)
(* outbox are (message, kind): the numbers in them start again with each   *)
(* attempt.  A row is sent by whoever drains the outbox.                   *)
(***************************************************************************)
EXTENDS FiniteSets, FiniteSetsExt, Sequences, Integers

CONSTANTS
  Chats,        \* the chats
  ChatOf,       \* the chat of each message
  Workers,      \* threads that handle messages
  Pictures,     \* messages whose answer brings a picture
  InRoom,       \* messages of a chat that may be open
  OutRoom,      \* deliveries of a chat that may be open
  MaxAttempts,  \* a message that failed so often is dead
  MaxSends,     \* a delivery that was rejected so often is dead
  MaxFaults     \* bound on errors, stalls and crashes

N == Len(ChatOf)
Msgs == 1..N

Nobody == "nobody"

ASSUME FeishuAssumption ==
  /\ ChatOf \in Seq(Chats) /\ Pictures \subseteq Msgs /\ Nobody \notin Workers
  /\ {InRoom, OutRoom, MaxAttempts, MaxSends} \subseteq Nat \ {0}
  /\ MaxFaults \in Nat

Kinds == {"progress", "reply", "image", "link", "terminal"}
Rows == Msgs \X Kinds

VARIABLES
  cursor,   \* the last message stored
  inbox,    \* feishu_inbox
  outbox,   \* feishu_outbox
  worker,
  turn,     \* whether the gateway executed the message's turn
  uploads,  \* requests to upload the message's picture
  known,    \* how many of them have a recorded outcome
  landed,   \* how often a delivery arrived in the chat
  faults

world == <<turn, uploads, known, landed>>
feishuVars == <<cursor, inbox, outbox, worker, world, faults>>

OpenStatuses == {"pending", "processing", "submitting", "recovery_required"}
Inbound == [status: OpenStatuses \cup {"none", "done", "dead", "closed"},
            attempts: 0..MaxAttempts, owner: Workers \cup {Nobody}]
Texts == {"answer", "local", "limit", "fixed"}
Delivery == [status: OpenStatuses \cup {"absent", "done", "dead", "closed"},
             text: Texts, key: Nat, rank: Nat, tries: 0..MaxSends,
             live: BOOLEAN,   \* the claim's deadline is ahead
             flight: {"none", "out", "ok", "rejected", "unknown"}]
Absent == [status |-> "absent", text |-> "fixed", key |-> 0, rank |-> 0, tries |-> 0,
           live |-> FALSE, flight |-> "none"]
Worker == [pc: {"idle", "ask", "asked", "reply", "media", "upload", "uploading",
                "store", "complete", "link", "finish"},
           msg: 0..N, text: Texts, verdict: {"ok", "retry", "recovery"}]
Resting == [pc |-> "idle", msg |-> 0, text |-> "fixed", verdict |-> "ok"]

FeishuInit ==
  /\ cursor = 0
  /\ inbox = [m \in Msgs |-> [status |-> "none", attempts |-> 0, owner |-> Nobody]]
  /\ outbox = [r \in Rows |-> Absent]
  /\ worker = [w \in Workers |-> Resting]
  /\ turn = [m \in Msgs |-> FALSE]
  /\ uploads = [m \in Msgs |-> 0] /\ known = [m \in Msgs |-> 0]
  /\ landed = [r \in Rows |-> 0]
  /\ faults = 0

Hurt == faults < MaxFaults /\ faults' = faults + 1

-----------------------------------------------------------------------------
(* What is open in a chat.                                                 *)

OpenMsgs(c) == {m \in Msgs : ChatOf[m] = c /\ inbox[m].status \in OpenStatuses}
OpenRows(c) == {r \in Rows : ChatOf[r[1]] = c /\ outbox[r].status \in OpenStatuses}

\* _enqueue_outbox_in_transaction: a row that exists must be the same one, and one
\* that is dead or closed has lost its chat and content and is none.
Accepts(m, kind, text, key) ==
  LET d == outbox[<<m, kind>>] IN
  IF d.status = "absent" THEN Cardinality(OpenRows(ChatOf[m])) < OutRoom
                         ELSE d.status \notin {"dead", "closed"} /\ d.text = text /\ d.key = key
LastRank == Max({outbox[r].rank : r \in Rows})
Enqueued(m, kind, text, key) ==
  IF outbox[<<m, kind>>].status # "absent" THEN outbox
  ELSE [outbox EXCEPT ![<<m, kind>>] =
          [Absent EXCEPT !.status = "pending", !.text = text, !.key = key, !.rank = LastRank + 1]]

-----------------------------------------------------------------------------
(* The inbox.                                                              *)

\* _store_inbound; a chat with too many open messages is refused.
Receive ==
  /\ cursor < N
  /\ Cardinality(OpenMsgs(ChatOf[cursor + 1])) < InRoom
  /\ cursor' = cursor + 1
  /\ inbox' = [inbox EXCEPT ![cursor'].status = "pending"]
  /\ UNCHANGED <<outbox, worker, world, faults>>

\* _claim_inbound: one message of a chat after the other; what is in the
\* outbox does not hold it back.
ClaimInbound(w, m) ==
  /\ worker[w].pc = "idle" /\ inbox[m].status = "pending"
  /\ \A n \in OpenMsgs(ChatOf[m]) : n >= m
  /\ inbox' = [inbox EXCEPT ![m].status = "processing", ![m].owner = w]
  /\ worker' = [worker EXCEPT ![w] = [Resting EXCEPT !.pc = "ask", !.msg = m]]
  /\ UNCHANGED <<cursor, outbox, world, faults>>

Has(w, statuses) ==
  /\ worker[w].pc # "idle"
  /\ inbox[worker[w].msg].owner = w /\ inbox[worker[w].msg].status \in statuses
Owns(w) == Has(w, {"processing", "submitting"})

\* A claim runs out while its worker stalls.
Lapse(m) ==
  /\ inbox[m].owner # Nobody /\ Hurt
  /\ inbox' = [inbox EXCEPT ![m].owner = Nobody]
  /\ UNCHANGED <<cursor, outbox, worker, world>>

\* _recover_inflight, of one message.
RecoveredInbound(i) ==
  CASE i.status = "processing" -> [i EXCEPT !.status = "pending", !.owner = Nobody]
    [] i.status = "submitting" -> [i EXCEPT !.status = "recovery_required", !.owner = Nobody]
    [] OTHER -> i

\* _recover_stale_inflight, of one message.
RecoverInbound(m) ==
  /\ inbox[m].status \in {"processing", "submitting"} /\ inbox[m].owner = Nobody
  /\ inbox' = [inbox EXCEPT ![m] = RecoveredInbound(@)]
  /\ UNCHANGED <<cursor, outbox, worker, world, faults>>

-----------------------------------------------------------------------------
(* The handler: _handle_message and _send_reply, every write under the     *)
(* claim of the message.                                                   *)

WorkerAt(w, pc) == worker[w].pc = pc
WorkerGoes(w, pc) == worker' = [worker EXCEPT ![w].pc = pc]
Says(w, pc, text) == worker' = [worker EXCEPT ![w].pc = pc, ![w].text = text]
Ends(w, verdict) == worker' = [worker EXCEPT ![w].pc = "finish", ![w].verdict = verdict]

\* What an error says of the message: after an upload its outcome is unknown.
Excuse(w) == IF worker[w].pc \in {"uploading", "store", "complete"} THEN "recovery" ELSE "retry"

\* An exception, or a fence that refuses, at any step before the finish.
Fail(w) ==
  /\ worker[w].pc \notin {"idle", "finish"}
  /\ IF Owns(w) THEN Hurt ELSE UNCHANGED faults
  /\ Ends(w, Excuse(w))
  /\ UNCHANGED <<cursor, inbox, outbox, world>>

\* _allow_inbound counts a message that has not failed yet.
Ask(w) ==
  /\ WorkerAt(w, "ask") /\ Owns(w)
  /\ \/ WorkerGoes(w, "asked")
     \/ inbox[worker[w].msg].attempts = 0 /\ Says(w, "reply", "limit")
  /\ UNCHANGED <<cursor, inbox, outbox, world, faults>>

\* _agent_chat: the answer, or the reply for a gateway that has no model; the
\* fence behind the call drops what comes after the claim was lost.
Answer(w) ==
  /\ WorkerAt(w, "asked")
  /\ LET executed == [turn EXCEPT ![worker[w].msg] = TRUE] IN
     \/ /\ turn' = executed /\ UNCHANGED faults
        /\ IF Owns(w) THEN Says(w, "reply", "answer") ELSE Ends(w, "retry")
     \/ /\ Hurt /\ UNCHANGED turn
        /\ IF Owns(w) THEN Says(w, "reply", "local") ELSE Ends(w, "retry")
     \/ Hurt /\ turn' \in {turn, executed} /\ Ends(w, "retry")
  /\ UNCHANGED <<cursor, inbox, outbox, uploads, known, landed>>

\* _persist_text_progress_notice; the timer is cancelled before the reply.
Progress(w) ==
  /\ WorkerAt(w, "asked") /\ Has(w, {"processing"})
  /\ Accepts(worker[w].msg, "progress", "fixed", 0)
  /\ outbox' = Enqueued(worker[w].msg, "progress", "fixed", 0)
  /\ outbox' # outbox
  /\ UNCHANGED <<cursor, inbox, worker, world, faults>>

Brings(w) == worker[w].msg \in Pictures /\ worker[w].text = "answer"

\* _reply.
Reply(w) ==
  /\ WorkerAt(w, "reply") /\ Owns(w)
  /\ LET m == worker[w].msg
         text == worker[w].text IN
     IF Accepts(m, "reply", text, 0)
     THEN /\ outbox' = Enqueued(m, "reply", text, 0)
          /\ IF Brings(w) THEN WorkerGoes(w, "media") ELSE Ends(w, "ok")
     ELSE Ends(w, "retry") /\ UNCHANGED outbox
  /\ UNCHANGED <<cursor, inbox, world, faults>>

\* The picture is fetched, and the upload is recorded before it begins
\* (_begin_inbound_media_upload_submission).
BeginUpload(w) ==
  /\ WorkerAt(w, "media") /\ Has(w, {"processing"})
  /\ \/ /\ inbox' = [inbox EXCEPT ![worker[w].msg].status = "submitting"]
        /\ WorkerGoes(w, "upload") /\ UNCHANGED faults
     \/ Hurt /\ WorkerGoes(w, "link") /\ UNCHANGED inbox
  /\ UNCHANGED <<cursor, outbox, world>>

\* _upload_image sends the request.
Upload(w) ==
  /\ WorkerAt(w, "upload") /\ Owns(w)
  /\ uploads' = [uploads EXCEPT ![worker[w].msg] = @ + 1]
  /\ WorkerGoes(w, "uploading")
  /\ UNCHANGED <<cursor, inbox, outbox, turn, known, landed, faults>>

\* The upload's outcome goes with the claim back to processing
\* (_complete_inbound_media_upload_submission).
Settles(w) ==
  /\ Has(w, {"submitting"})
  /\ inbox' = [inbox EXCEPT ![worker[w].msg].status = "processing"]
  /\ known' = [known EXCEPT ![worker[w].msg] = @ + 1]

\* What comes of the request: a picture, a refusal, or nobody knows.
Uploaded(w) ==
  /\ WorkerAt(w, "uploading")
  /\ \/ /\ Has(w, {"submitting"}) /\ WorkerGoes(w, "store")
        /\ UNCHANGED <<inbox, known, faults>>
     \/ Settles(w) /\ Hurt /\ WorkerGoes(w, "link")
     \/ /\ ~ Owns(w) /\ Ends(w, "recovery")
        /\ UNCHANGED <<inbox, known, faults>>
  /\ UNCHANGED <<cursor, outbox, turn, uploads, landed>>

\* _send_image: a picture under another key than before is a conflict.
StoreImage(w) ==
  /\ WorkerAt(w, "store") /\ Owns(w)
  /\ LET m == worker[w].msg IN
     IF Accepts(m, "image", "fixed", uploads[m])
     THEN outbox' = Enqueued(m, "image", "fixed", uploads[m]) /\ WorkerGoes(w, "complete")
     ELSE Ends(w, "recovery") /\ UNCHANGED outbox
  /\ UNCHANGED <<cursor, inbox, world, faults>>

CompleteUpload(w) ==
  /\ WorkerAt(w, "complete")
  /\ Settles(w)
  /\ Ends(w, "ok")
  /\ UNCHANGED <<cursor, outbox, turn, uploads, landed, faults>>

\* The link instead of a picture that could not be had.
SendLink(w) ==
  /\ WorkerAt(w, "link") /\ Owns(w)
  /\ LET m == worker[w].msg IN
     IF Accepts(m, "link", "fixed", 0)
     THEN outbox' = Enqueued(m, "link", "fixed", 0) /\ Ends(w, "ok")
     ELSE Ends(w, "retry") /\ UNCHANGED outbox
  /\ UNCHANGED <<cursor, inbox, world, faults>>

\* Faulty: the notice of a dead message is left to a later transaction.
DeadWithout(m) == UNCHANGED outbox

\* The notice is stored with the end of the message, or neither is.
DeadWith(m) ==
  /\ Accepts(m, "terminal", "fixed", 0)
  /\ outbox' = Enqueued(m, "terminal", "fixed", 0)

Closes(m, status) == inbox' = [inbox EXCEPT ![m].status = status, ![m].owner = Nobody]

\* _finish_inbound, of the verdict it can store.
Stores(w) ==
  LET m == worker[w].msg
      tried == [inbox[m] EXCEPT !.attempts = @ + 1, !.owner = Nobody]
      dies == tried.attempts >= MaxAttempts IN
  \/ /\ worker[w].verdict = "ok" /\ Has(w, {"processing"})
     /\ Closes(m, "done") /\ UNCHANGED outbox
  \/ /\ worker[w].verdict = "recovery" /\ Owns(w)
     /\ Closes(m, "recovery_required") /\ UNCHANGED outbox
  \/ /\ worker[w].verdict = "retry" /\ Has(w, {"processing"}) /\ ~ dies
     /\ inbox' = [inbox EXCEPT ![m] = [tried EXCEPT !.status = "pending"]]
     /\ UNCHANGED outbox
  \/ /\ worker[w].verdict = "retry" /\ Has(w, {"processing"}) /\ dies
     /\ inbox' = [inbox EXCEPT ![m] = [tried EXCEPT !.status = "dead"]]
     /\ DeadWith(m)

\* The verdict does not fit the row, or the notice does not fit the outbox.
Unstorable(w) ==
  LET m == worker[w].msg IN
  \/ worker[w].verdict # "recovery" /\ ~ Has(w, {"processing"})
  \/ /\ worker[w].verdict = "retry" /\ inbox[m].attempts + 1 >= MaxAttempts
     /\ ~ Accepts(m, "terminal", "fixed", 0)

\* A finish that is not stored leaves the row to the end of its lease.
FinishInbound(w) ==
  /\ WorkerAt(w, "finish")
  /\ \/ Stores(w) /\ UNCHANGED faults
     \/ /\ Owns(w)
        /\ IF Unstorable(w) THEN UNCHANGED faults ELSE Hurt
        /\ inbox' = [inbox EXCEPT ![worker[w].msg].owner = Nobody]
        /\ UNCHANGED outbox
     \/ ~ Owns(w) /\ UNCHANGED <<inbox, outbox, faults>>
  /\ worker' = [worker EXCEPT ![w] = Resting]
  /\ UNCHANGED <<cursor, world>>

-----------------------------------------------------------------------------
(* The outbox.                                                             *)

Sets(r, d) == outbox' = [outbox EXCEPT ![r] = d]
Ended(d, status) == [d EXCEPT !.status = status, !.live = FALSE, !.flight = "none"]

\* Faulty: whatever is pending may be next.
ClaimDeliveryOutOfTurn(r) ==
  /\ outbox[r].status = "pending"
  /\ Sets(r, [outbox[r] EXCEPT !.status = "processing", !.live = TRUE])
  /\ UNCHANGED <<cursor, inbox, worker, world, faults>>

\* _claim_outbox: the rows of a chat in the order they were stored.
ClaimDelivery(r) ==
  /\ outbox[r].status = "pending"
  /\ \A q \in OpenRows(ChatOf[r[1]]) : outbox[q].rank >= outbox[r].rank
  /\ Sets(r, [outbox[r] EXCEPT !.status = "processing", !.live = TRUE])
  /\ UNCHANGED <<cursor, inbox, worker, world, faults>>

\* _begin_outbox_submission, committed before the request.
BeginSubmission(r) ==
  /\ outbox[r].status = "processing" /\ outbox[r].live
  /\ Sets(r, [outbox[r] EXCEPT !.status = "submitting", !.flight = "out"])
  /\ UNCHANGED <<cursor, inbox, worker, world, faults>>

\* The request arrives, or not; its sender learns so, or not.
Land(r) ==
  /\ outbox[r].flight = "out"
  /\ landed' = [landed EXCEPT ![r] = @ + 1]
  /\ \/ Sets(r, [outbox[r] EXCEPT !.flight = "ok"]) /\ UNCHANGED faults
     \/ Hurt /\ Sets(r, [outbox[r] EXCEPT !.flight = "unknown"])
  /\ UNCHANGED <<cursor, inbox, worker, turn, uploads, known>>
Sink(r) ==
  /\ outbox[r].flight = "out" /\ Hurt
  /\ \E end \in {"rejected", "unknown"} : Sets(r, [outbox[r] EXCEPT !.flight = end])
  /\ UNCHANGED <<cursor, inbox, worker, world>>

\* _finish_outbox: only what the platform rejected is tried again.  A session
\* that is lost keeps its row out of the way (_quarantine_outbox_submission).
FinishDelivery(r) ==
  LET d == outbox[r] IN
  /\ d.status = "submitting" /\ d.live
  /\ \/ d.flight = "ok" /\ Sets(r, Ended(d, "done")) /\ UNCHANGED faults
     \/ d.flight = "unknown" /\ Sets(r, Ended(d, "recovery_required")) /\ UNCHANGED faults
     \/ /\ d.flight = "rejected" /\ UNCHANGED faults
        /\ Sets(r, [Ended(d, IF d.tries + 1 >= MaxSends THEN "dead" ELSE "pending")
                      EXCEPT !.tries = @ + 1])
     \/ d.flight \in {"ok", "rejected"} /\ Hurt /\ Sets(r, Ended(d, "recovery_required"))
  /\ UNCHANGED <<cursor, inbox, worker, world>>

\* The drainer stalls, or its finish is not stored: the lease runs out.
LapseDelivery(r) ==
  /\ outbox[r].live /\ Hurt
  /\ Sets(r, [outbox[r] EXCEPT !.live = FALSE])
  /\ UNCHANGED <<cursor, inbox, worker, world>>

\* _recover_inflight, of one row; a request that is out stays out.
RecoveredDelivery(d) ==
  CASE d.status = "processing" -> Ended(d, "pending")
    [] d.status = "submitting" ->
         [d EXCEPT !.status = "recovery_required", !.live = FALSE,
                   !.flight = IF @ = "out" THEN "out" ELSE "none"]
    [] OTHER -> d

\* _recover_stale_inflight, of one row.
RecoverDelivery(r) ==
  /\ outbox[r].status \in {"processing", "submitting"} /\ ~ outbox[r].live
  /\ Sets(r, RecoveredDelivery(outbox[r]))
  /\ UNCHANGED <<cursor, inbox, worker, world, faults>>

-----------------------------------------------------------------------------
(* The rest of the bridge.                                                 *)

Uncertain(c) == {r \in OpenRows(c) : outbox[r].status = "recovery_required"}
Undecided(c) == {m \in OpenMsgs(c) : inbox[m].status = "recovery_required"}

\* _close_without_replay: an operator gives up what is uncertain in a chat,
\* after its requests have come to their end.
CloseWithoutReplay(c) ==
  /\ Uncertain(c) # {} \/ Undecided(c) # {}
  /\ \A r \in Uncertain(c) : outbox[r].flight # "out"
  /\ inbox' = [m \in Msgs |-> IF m \in Undecided(c) THEN [inbox[m] EXCEPT !.status = "closed"]
                              ELSE inbox[m]]
  /\ outbox' = [r \in Rows |-> IF r \in Uncertain(c) THEN Ended(outbox[r], "closed")
                               ELSE outbox[r]]
  /\ UNCHANGED <<cursor, worker, world, faults>>

\* The process dies; main recovers every claim before it starts its threads.
BridgeDies ==
  /\ Hurt
  /\ worker' = [w \in Workers |-> Resting]
  /\ inbox' = [m \in Msgs |-> RecoveredInbound(inbox[m])]
  /\ outbox' = [r \in Rows |-> RecoveredDelivery(outbox[r])]
  /\ UNCHANGED <<cursor, world>>

Handle(w) ==
  \/ \E m \in Msgs : ClaimInbound(w, m)
  \/ Ask(w) \/ Answer(w) \/ Reply(w) \/ BeginUpload(w) \/ Upload(w) \/ Uploaded(w)
  \/ StoreImage(w) \/ CompleteUpload(w) \/ SendLink(w) \/ FinishInbound(w)

Drain(r) ==
  \/ ClaimDelivery(r) \/ BeginSubmission(r) \/ Land(r) \/ FinishDelivery(r) \/ RecoverDelivery(r)

FeishuNext ==
  \/ Receive \/ BridgeDies
  \/ \E w \in Workers : Handle(w) \/ Fail(w) \/ Progress(w)
  \/ \E m \in Msgs : Lapse(m) \/ RecoverInbound(m)
  \/ \E r \in Rows : Drain(r) \/ Sink(r) \/ LapseDelivery(r)
  \/ \E c \in Chats : CloseWithoutReplay(c)

FeishuSpec == FeishuInit /\ [][FeishuNext]_feishuVars

\* What a thread does by itself.
Thread(w) == Handle(w) \/ (Fail(w) /\ ~ Owns(w))

\* Every thread runs, the platform delivers again and the operator decides.
FeishuFairSpec ==
  /\ FeishuSpec
  /\ WF_feishuVars(Receive)
  /\ WF_feishuVars(\E m \in Msgs : RecoverInbound(m))
  /\ WF_feishuVars(\E r \in Rows : Drain(r))
  /\ WF_feishuVars(\E c \in Chats : CloseWithoutReplay(c))
  /\ \A w \in Workers : WF_feishuVars(Thread(w))

-----------------------------------------------------------------------------
(* Properties.                                                             *)

FeishuTypeOK ==
  /\ cursor \in 0..N
  /\ inbox \in [Msgs -> Inbound] /\ outbox \in [Rows -> Delivery]
  /\ worker \in [Workers -> Worker]
  /\ turn \in [Msgs -> BOOLEAN]
  /\ uploads \in [Msgs -> Nat] /\ known \in [Msgs -> Nat] /\ landed \in [Rows -> Nat]
  /\ \A m \in Msgs : inbox[m].owner # Nobody => inbox[m].status \in {"processing", "submitting"}

\* No delivery arrives in a chat twice, and no picture is uploaded again while
\* it is not known what came of the upload before: not by a retry, a stalled
\* worker that was overtaken, a lease that ran out or a restart.
DeliveredOnce ==
  /\ \A r \in Rows : landed[r] <= 1
  /\ \A m \in Msgs : uploads[m] <= known[m] + 1

\* What arrives belongs to no earlier message of its chat, and was stored no
\* earlier, than what has arrived before.
DeliveredInOrder ==
  \A r, q \in Rows :
    landed'[r] > landed[r] /\ landed[q] > 0 /\ ChatOf[r[1]] = ChatOf[q[1]] =>
      r[1] >= q[1] /\ outbox[r].rank >= outbox[q].rank
OrderKept == [][DeliveredInOrder]_feishuVars

\* A message that counts as handled has its reply in the outbox, with the
\* picture or its link where the answer brings one; the user is told of one that
\* was given up.
DoneIsAnswered ==
  \A m \in Msgs :
    LET stored == {k \in Kinds : outbox[<<m, k>>].status # "absent"} IN
    /\ inbox[m].status = "done" =>
         /\ "reply" \in stored
         /\ m \in Pictures /\ outbox[<<m, "reply">>].text = "answer" =>
              {"image", "link"} \cap stored # {}
    /\ inbox[m].status = "dead" => "terminal" \in stored

\* Every message that counts as handled is answered, and nothing is sent twice.
DeliveriesAreSent == DeliveredOnce /\ DoneIsAnswered

\* The messages there are come to their end, and so does what is stored for a
\* chat.
InboxAtRest == \A c \in Chats : OpenMsgs(c) = {}
OutboxAtRest == \A c \in Chats : OpenRows(c) = {}
ChatsComeToRest == []<>InboxAtRest /\ []<>OutboxAtRest
=============================================================================
