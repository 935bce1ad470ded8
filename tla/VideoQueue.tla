----------------------------- MODULE VideoQueue -----------------------------
(***************************************************************************)
(* The video queue of the Weixin bridge (pending_video and its worker in   *)
(* scripts/run_weixin_ilink_bridge.py): a generated video is polled for,   *)
(* fetched, and sent across three boundaries, each of which is committed   *)
(* before the request that crosses it, so that nothing is sent again after *)
(* a crash, a lost answer or a lease that ran out.                         *)
(*                                                                         *)
(* The videos 1, 2, .. belong to one chat.  A claim's token is the name of *)
(* its worker; the life of a lease and of a finish is in ClaimLease.       *)
(***************************************************************************)
EXTENDS Integers

CONSTANTS
  QueueLength,    \* videos
  Pollers,        \* threads of the queue
  Broken,         \* videos that fail, never come, or cannot be fetched
  MaxPolls,       \* bound on the polls that find a video unready
  MaxQueueFaults  \* bound on errors, stalls and crashes

Queued == 1..QueueLength

ASSUME QueueAssumption ==
  /\ QueueLength \in Nat \ {0} /\ Broken \subseteq Queued
  /\ {MaxPolls, MaxQueueFaults} \subseteq Nat

VARIABLES
  queue,      \* pending_video
  poller,
  upstream,   \* what the generator says of a video
  sending,    \* the request that sends the video
  arrived,    \* how often it arrived
  polls, queueFaults

outside == <<upstream, sending, arrived>>
queueVars == <<queue, poller, outside, polls, queueFaults>>

NoPoller == "nobody"
Phases == <<"", "upload_grant_submitting", "upload_submitting", "send_submitting",
            "send_confirmed">>
QueueRow == [status: {"pending", "processing", "done", "recovery_required", "dead"},
             owner: Pollers \cup {NoPoller},
             live: BOOLEAN,     \* the claim's deadline is ahead
             url: BOOLEAN,      \* result_url is stored
             direct: BOOLEAN,   \* direct_attempted
             phase: 1..5]       \* submission_phase
Poller == [pc: {"idle", "poll", "tell", "fetch", "mark", "grant", "upload", "send",
                "wait", "finish"},
           video: 0..QueueLength, outcome: {"done", "recovery_required", "pending"}]
Resting == [pc |-> "idle", video |-> 0, outcome |-> "pending"]

QueueInit ==
  /\ queue = [v \in Queued |-> [status |-> "pending", owner |-> NoPoller, live |-> FALSE,
                                url |-> FALSE, direct |-> FALSE, phase |-> 1]]
  /\ poller = [w \in Pollers |-> Resting]
  /\ upstream = [v \in Queued |-> "working"]
  /\ sending = [v \in Queued |-> "none"]
  /\ arrived = [v \in Queued |-> 0]
  /\ polls = 0 /\ queueFaults = 0

QueueHurt == queueFaults < MaxQueueFaults /\ queueFaults' = queueFaults + 1

-----------------------------------------------------------------------------
(* Rows.                                                                   *)

InQueue(v) == queue[v].status \in {"pending", "processing", "recovery_required"}
Untouched(r) == ~ r.direct /\ r.phase = 1
Given(r, status) == [r EXCEPT !.status = status, !.owner = NoPoller, !.live = FALSE]

\* Faulty: what was marked but not begun stays with nobody.
RecoveredSomeVideo(r) ==
  CASE r.status = "processing" /\ r.phase = 5 -> Given(r, "done")
    [] r.status = "processing" /\ r.phase \in 2..4 -> Given(r, "recovery_required")
    [] r.status = "processing" /\ Untouched(r) -> Given(r, "pending")
    [] OTHER -> r

\* _recover_pending_video_claims, of a row whose claim is over.
RecoveredVideo(r) ==
  CASE r.status = "processing" /\ r.phase = 5 -> Given(r, "done")
    [] r.status \in {"pending", "processing"} /\ r.phase # 5 /\ ~ Untouched(r) ->
         Given(r, "recovery_required")
    [] r.status = "processing" /\ Untouched(r) -> Given(r, "pending")
    [] OTHER -> r

RecoverVideo(v) ==
  /\ ~ queue[v].live /\ RecoveredVideo(queue[v]) # queue[v]
  /\ queue' = [queue EXCEPT ![v] = RecoveredVideo(@)]
  /\ UNCHANGED <<poller, outside, polls, queueFaults>>

\* _claim_pending_video: never behind an earlier video of the chat.
ClaimVideo(w, v) ==
  /\ poller[w].pc = "idle"
  /\ queue[v].status = "pending" /\ Untouched(queue[v])
  /\ \A u \in 1..(v - 1) : ~ InQueue(u)
  /\ queue' = [queue EXCEPT ![v].status = "processing", ![v].owner = w, ![v].live = TRUE]
  /\ poller' = [poller EXCEPT ![w] = [Resting EXCEPT !.pc = "poll", !.video = v]]
  /\ UNCHANGED <<outside, polls, queueFaults>>

\* The worker stalls longer than its claim.
LapseVideo(v) ==
  /\ queue[v].live /\ QueueHurt
  /\ queue' = [queue EXCEPT ![v].live = FALSE]
  /\ UNCHANGED <<poller, outside, polls>>

-----------------------------------------------------------------------------
(* The worker.  Every write and every request asks for the claim first.    *)

PollerAt(w, pc) == poller[w].pc = pc
PollerGoes(w, pc) == poller' = [poller EXCEPT ![w].pc = pc]
PollerEnds(w, outcome) == poller' = [poller EXCEPT ![w].pc = "finish", ![w].outcome = outcome]
OwnsVideo(w) ==
  poller[w].pc # "idle" /\ queue[poller[w].video].owner = w /\ queue[poller[w].video].live
Its(w) == queue[poller[w].video]

\* An exception: what may have been sent is left to an operator.
FailsWith(w) == PollerEnds(w, IF Untouched(Its(w)) THEN "pending" ELSE "recovery_required")
PollerFails(w) ==
  /\ poller[w].pc \notin {"idle", "finish", "wait"}
  /\ IF OwnsVideo(w) THEN QueueHurt ELSE UNCHANGED queueFaults
  /\ FailsWith(w)
  /\ UNCHANGED <<queue, outside, polls>>

\* What the generator says; a result that is stored is not asked for again.
Poll(w) ==
  /\ PollerAt(w, "poll") /\ OwnsVideo(w)
  /\ LET v == poller[w].video IN
     \/ /\ queue[v].url \/ upstream[v] = "ready"
        /\ queue' = [queue EXCEPT ![v].url = TRUE]
        /\ PollerGoes(w, "fetch") /\ UNCHANGED polls
     \/ /\ ~ queue[v].url /\ upstream[v] = "failed"
        /\ PollerGoes(w, "tell") /\ UNCHANGED <<queue, polls>>
     \/ /\ ~ queue[v].url /\ upstream[v] = "working"
        /\ polls < MaxPolls /\ polls' = polls + 1
        /\ PollerEnds(w, "pending") /\ UNCHANGED queue
  /\ UNCHANGED <<outside, queueFaults>>

\* _fetch_media; the link is told of what cannot be fetched.
Fetch(w) ==
  /\ PollerAt(w, "fetch") /\ OwnsVideo(w)
  /\ \/ PollerGoes(w, "mark") /\ UNCHANGED queueFaults
     \/ PollerGoes(w, "tell") /\ QueueHurt
  /\ UNCHANGED <<queue, outside, polls>>

\* _deliver_text finds the session of the video but no claim of a message in the
\* worker's context, refuses to store the text, and the row is tried again.
Tell(w) ==
  /\ PollerAt(w, "tell")
  /\ FailsWith(w)
  /\ UNCHANGED <<queue, outside, polls, queueFaults>>

\* _mark_pending_video_direct_attempt.
Mark(w) ==
  /\ PollerAt(w, "mark") /\ OwnsVideo(w) /\ Untouched(Its(w))
  /\ queue' = [queue EXCEPT ![poller[w].video].direct = TRUE]
  /\ PollerGoes(w, "grant")
  /\ UNCHANGED <<outside, polls, queueFaults>>

\* _pending_video_submission_boundary, and the request behind it.
Boundary(w, pc, phase, next) ==
  /\ PollerAt(w, pc) /\ OwnsVideo(w)
  /\ Its(w).direct /\ Its(w).phase = phase - 1
  /\ queue' = [queue EXCEPT ![poller[w].video].phase = phase]
  /\ PollerGoes(w, next)
  /\ UNCHANGED <<upstream, arrived, polls, queueFaults>>

Grant(w) == Boundary(w, "grant", 2, "upload") /\ UNCHANGED sending
UploadVideo(w) == Boundary(w, "upload", 3, "send") /\ UNCHANGED sending
SendVideo(w) ==
  Boundary(w, "send", 4, "wait") /\ sending' = [sending EXCEPT ![poller[w].video] = "out"]

VideoLands(v) ==
  /\ sending[v] = "out"
  /\ arrived' = [arrived EXCEPT ![v] = @ + 1]
  /\ \/ sending' = [sending EXCEPT ![v] = "ok"] /\ UNCHANGED queueFaults
     \/ sending' = [sending EXCEPT ![v] = "lost"] /\ QueueHurt
  /\ UNCHANGED <<queue, poller, upstream, polls>>
VideoSinks(v) ==
  /\ sending[v] = "out" /\ QueueHurt
  /\ sending' = [sending EXCEPT ![v] = "lost"]
  /\ UNCHANGED <<queue, poller, upstream, arrived, polls>>

\* Faulty: a request without an answer counts as sent.
ConfirmUnread(w) ==
  /\ PollerAt(w, "wait") /\ sending[poller[w].video] \in {"ok", "lost"}
  /\ IF OwnsVideo(w)
     THEN queue' = [queue EXCEPT ![poller[w].video].phase = 5] /\ PollerEnds(w, "done")
     ELSE FailsWith(w) /\ UNCHANGED queue
  /\ UNCHANGED <<outside, polls, queueFaults>>

\* The platform's answer is recorded before the row is finished.
Confirm(w) ==
  /\ PollerAt(w, "wait") /\ sending[poller[w].video] \in {"ok", "lost"}
  /\ IF sending[poller[w].video] = "ok" /\ OwnsVideo(w)
     THEN queue' = [queue EXCEPT ![poller[w].video].phase = 5] /\ PollerEnds(w, "done")
     ELSE FailsWith(w) /\ UNCHANGED queue
  /\ UNCHANGED <<outside, polls, queueFaults>>

\* _commit_pending_video_finish: of the claim, or of nothing; nothing that
\* crossed a boundary becomes pending.  A finish that fails leaves the claim.
FinishVideo(w) ==
  /\ PollerAt(w, "finish")
  /\ LET v == poller[w].video
         outcome == poller[w].outcome IN
     \/ /\ OwnsVideo(w)
        /\ outcome = "pending" => Untouched(queue[v])
        /\ outcome = "done" => queue[v].phase = 5
        /\ queue' = [queue EXCEPT ![v] = Given(@, outcome)]
        /\ UNCHANGED queueFaults
     \/ OwnsVideo(w) /\ QueueHurt /\ queue' = [queue EXCEPT ![v].live = FALSE]
     \/ ~ OwnsVideo(w) /\ UNCHANGED <<queue, queueFaults>>
  /\ poller' = [poller EXCEPT ![w] = Resting]
  /\ UNCHANGED <<outside, polls>>

-----------------------------------------------------------------------------
Generate(v) ==
  /\ upstream[v] = "working"
  /\ upstream' = [upstream EXCEPT ![v] = IF v \in Broken THEN "failed" ELSE "ready"]
  /\ UNCHANGED <<queue, poller, sending, arrived, polls, queueFaults>>

\* An operator closes what is uncertain after its request has come to its end.
CloseVideo(v) ==
  /\ queue[v].status = "recovery_required" /\ sending[v] # "out"
  /\ queue' = [queue EXCEPT ![v] = Given(@, "dead")]
  /\ UNCHANGED <<poller, outside, polls, queueFaults>>

\* The process dies, and recovers every claim when it starts.
QueueDies ==
  /\ QueueHurt
  /\ poller' = [w \in Pollers |-> Resting]
  /\ queue' = [v \in Queued |-> RecoveredVideo(queue[v])]
  /\ UNCHANGED <<outside, polls>>

PollerWorks(w) ==
  \/ \E v \in Queued : ClaimVideo(w, v)
  \/ Poll(w) \/ Fetch(w) \/ Tell(w) \/ Mark(w) \/ Grant(w) \/ UploadVideo(w) \/ SendVideo(w)
  \/ Confirm(w) \/ FinishVideo(w)

QueueNext ==
  \/ QueueDies
  \/ \E w \in Pollers : PollerWorks(w) \/ PollerFails(w)
  \/ \E v \in Queued : \/ RecoverVideo(v) \/ LapseVideo(v) \/ VideoLands(v) \/ VideoSinks(v)
                      \/ Generate(v) \/ CloseVideo(v)

QueueSpec == QueueInit /\ [][QueueNext]_queueVars

\* Workers run, each row's claim is recovered by whoever claims next, requests
\* end, videos are generated or fail, and the operator decides.
QueueFairSpec ==
  /\ QueueSpec
  /\ \A w \in Pollers :
       SF_queueVars(PollerWorks(w)) /\ WF_queueVars(PollerFails(w) /\ ~ OwnsVideo(w))
  /\ \A v \in Queued : /\ WF_queueVars(RecoverVideo(v)) /\ WF_queueVars(VideoLands(v))
                        /\ WF_queueVars(Generate(v)) /\ WF_queueVars(CloseVideo(v))

-----------------------------------------------------------------------------
(* Properties.                                                             *)

QueueTypeOK ==
  /\ queue \in [Queued -> QueueRow] /\ poller \in [Pollers -> Poller]
  /\ upstream \in [Queued -> {"working", "ready", "failed"}]
  /\ sending \in [Queued -> {"none", "out", "ok", "lost"}]
  /\ arrived \in [Queued -> Nat]
  /\ \A v \in Queued : (queue[v].owner # NoPoller) = (queue[v].status = "processing")

\* No video arrives twice: not by a retry, by a worker whose claim ran out during
\* an upload, or after a restart.
VideoSentOnce == \A v \in Queued : arrived[v] <= 1

\* A video that counts as sent has arrived, and the platform said so.
DoneHasArrived ==
  \A v \in Queued : queue[v].status = "done" => arrived[v] = 1 /\ sending[v] = "ok"

\* A video arrives once at most, and has arrived if it counts as sent.
VideosAreSent == VideoSentOnce /\ DoneHasArrived

\* The videos of a chat arrive in the order of the messages that asked for them.
NoneBehind ==
  \A u \in Queued : arrived'[u] > arrived[u] => \A v \in (u + 1)..QueueLength : arrived[v] = 0
VideosInOrder == [][NoneBehind]_queueVars

\* Every video ends: it is sent, or an operator gives it up.
VideoEnded(v) == queue[v].status \in {"done", "dead"}
VideosEnd == \A v \in Queued : []<>VideoEnded(v)
=============================================================================
