------------------------------ MODULE VideoPolls ------------------------------
(***************************************************************************)
(* The end of one paid video: the polls of gateway/app.py with what they   *)
(* do to the row of the video in gateway/durable_media_requests.py and to  *)
(* the store of assets in gateway/paid_media_asset_store.py.               *)
(*                                                                         *)
(* A poll runs under a fence with a lease of five minutes.  When the       *)
(* provider has finished the video, the poll first puts the token of the   *)
(* asset on record, then downloads the video and registers the file, then  *)
(* puts its description on record, finishes the reservation, and answers.  *)
(* A poll that finds a token goes on from there and asks the provider no   *)
(* more; a file that another poll left in motion it registers itself.  The *)
(* recovery that an operator starts is such a poll.                        *)
(*                                                                         *)
(* Polls are numbered by their fence; what a poll downloads has its        *)
(* number.  The stores are transactional and each call of one is an        *)
(* action; a change to the disk is an action too.  A poll may be slower    *)
(* than its lease, and its process may die.                                *)
(***************************************************************************)
EXTENDS Integers

CONSTANT MaxPolls  \* bound

PollsAssumption == MaxPolls \in Nat

VARIABLES
  row,      \* the envelope of the row, once the video was ordered
  room,     \* durable_media_asset_authority
  mirror,   \* asset_reservations
  asset,    \* paid_media_assets: the download that is registered, or 0
  pending,  \* asset_pending_commits: the download that is in motion, or 0
  lapsed,   \* is its lease over
  disk,     \* where the file of each download is
  polls,    \* how many polls began
  stages,   \* what each poll does
  overtaken \* the registered download whose own poll deleted it, or 0

envelope == <<row, room>>
store == <<mirror, asset, pending, lapsed, overtaken>>
pollVars == <<envelope, store, disk, polls, stages>>

Downloads == 1..MaxPolls
Ids == 0..MaxPolls

VideoRow ==
  [ordered: BOOLEAN,
   fence: Ids, lease: BOOLEAN,   \* poll_fencing_token and its lease
   wait: BOOLEAN,                \* next_poll_at is not reached
   token: BOOLEAN,               \* prepared_token
   attached: Ids,                \* prepared_asset_response
   terminal: {"none", "asset", "failed"}, answer: Ids]

PollPlaces ==
  {"none", "provider", "describe", "recover", "download", "staged", "pending",
   "moved", "attach", "finalize", "commit", "release", "clean", "cleaned", "end"}

\* doc is the description of the asset that the poll works with.
Stage == [at: PollPlaces, doc: Ids]

PollsInit ==
  /\ row = [ordered |-> FALSE, fence |-> 0, lease |-> FALSE, wait |-> FALSE,
            token |-> FALSE, attached |-> 0, terminal |-> "none", answer |-> 0]
  /\ room = "reserved" /\ mirror = "active"
  /\ asset = 0 /\ pending = 0 /\ lapsed = FALSE /\ overtaken = 0
  /\ disk = [k \in Downloads |-> "none"]
  /\ polls = 0
  /\ stages = [k \in Downloads |-> [at |-> "none", doc |-> 0]]

At(n, place) == stages[n].at = place
Goes(n, place) == stages' = [stages EXCEPT ![n].at = place]

Begins(place) ==
  /\ polls < MaxPolls /\ polls' = polls + 1
  /\ stages' = [stages EXCEPT ![polls'] = [at |-> place, doc |-> row.attached]]

-----------------------------------------------------------------------------
(* The row of the video.                                                   *)

\* succeed_video: the provider took the order, had the video at once, or
\* failed at once.
Order ==
  /\ ~ row.ordered
  /\ \/ row' = [row EXCEPT !.ordered = TRUE]
     \/ row' = [row EXCEPT !.ordered = TRUE, !.token = TRUE]
     \/ row' = [row EXCEPT !.ordered = TRUE, !.terminal = "failed"]
  /\ UNCHANGED <<room, store, disk, polls, stages>>

\* _video_poll_read_result
Claimable ==
  row.ordered /\ row.terminal = "none" /\ ~ row.lease /\ ~ row.wait

\* begin_video_poll and claim_prepared_video_recovery
BeginPoll ==
  /\ Claimable
  /\ Begins(IF row.token THEN "describe" ELSE "provider")
  /\ row' = [row EXCEPT !.fence = polls', !.lease = TRUE]
  /\ UNCHANGED <<room, store, disk>>

HasFence(n) == row.fence = n /\ room = "reserved"

\* prepare_video_poll_asset: the provider has the video.
Prepare(n) ==
  /\ At(n, "provider") /\ HasFence(n)
  /\ row' = [row EXCEPT !.token = TRUE]
  /\ Goes(n, "describe")
  /\ UNCHANGED <<room, store, disk, polls>>

\* finish_video_poll: it is at work on it, or failed.
Finish(n) ==
  /\ At(n, "provider") /\ HasFence(n)
  /\ \/ /\ row' = [row EXCEPT !.fence = 0, !.lease = FALSE, !.wait = TRUE]
        /\ Goes(n, "end")
     \/ /\ row' = [row EXCEPT !.fence = 0, !.lease = FALSE, !.terminal = "failed"]
        /\ Goes(n, "clean")
  /\ UNCHANGED <<room, store, disk, polls>>

\* attach_video_poll_asset: a description that is there already must be equal.
Attach(n) ==
  /\ At(n, "attach") /\ HasFence(n) /\ row.token
  /\ row.attached \in {0, stages[n].doc}
  /\ row' = [row EXCEPT !.attached = stages[n].doc]
  /\ Goes(n, "finalize")
  /\ UNCHANGED <<room, store, disk, polls>>

\* commit_prepared_video_poll_asset
Commit(n) ==
  /\ At(n, "commit") /\ HasFence(n)
  /\ row.token /\ row.attached = stages[n].doc
  /\ row' = [row EXCEPT !.fence = 0, !.lease = FALSE, !.token = FALSE,
               !.attached = 0, !.terminal = "asset", !.answer = row.attached]
  /\ room' = "committed"
  /\ Goes(n, "end")
  /\ UNCHANGED <<store, disk, polls>>

\* The fence went to another poll: nothing is written.
FenceLost(n) ==
  /\ stages[n].at \in {"provider", "attach", "commit"} /\ row.fence # n
  /\ Goes(n, "end")
  /\ UNCHANGED <<envelope, store, disk, polls>>

\* fail_video_poll; it may fail itself.
Release(n) ==
  /\ At(n, "release") /\ Goes(n, "end")
  /\ \/ /\ row.fence = n
        /\ row' = [row EXCEPT !.fence = 0, !.lease = FALSE, !.wait = TRUE]
     \/ UNCHANGED row
  /\ UNCHANGED <<room, store, disk, polls>>

-----------------------------------------------------------------------------
(* The store of assets.                                                    *)

\* describe_prepared_asset
Describe(n) ==
  /\ At(n, "describe")
  /\ \/ /\ asset # 0 /\ mirror \in {"active", "committed"}
        /\ stages' = [stages EXCEPT ![n].at = "attach",
                        ![n].doc = IF @ = 0 THEN asset ELSE @]
     \/ /\ asset = 0 /\ pending # 0 /\ mirror \in {"active", "committed"}
        /\ Goes(n, "recover")
     \/ /\ asset = 0 /\ pending = 0 /\ mirror = "active" /\ stages[n].doc = 0
        /\ Goes(n, "download")
  /\ UNCHANGED <<envelope, store, disk, polls>>

Recoverable ==
  mirror = "active" /\ asset = 0 /\ pending # 0 /\ disk[pending] # "none"

\* _recover_prepared_pending: whatever the lease of the row says, its file is
\* put in place and registered.
Recover(n) ==
  /\ At(n, "recover") /\ Recoverable
  /\ disk' = [disk EXCEPT ![pending] = "object"]
  /\ asset' = pending /\ pending' = 0 /\ lapsed' = FALSE
  /\ stages' = [stages EXCEPT ![n].at = "attach",
                  ![n].doc = IF @ = 0 THEN pending ELSE @]
  /\ UNCHANGED <<envelope, mirror, overtaken, polls>>

\* The file is in place, and the transaction fails.
RecoverCut(n) ==
  /\ At(n, "recover") /\ Recoverable
  /\ disk' = [disk EXCEPT ![pending] = "object"]
  /\ Goes(n, "release")
  /\ UNCHANGED <<envelope, store, polls>>

Stageable == mirror = "active" /\ asset = 0

\* stage_url
Download(n) ==
  /\ At(n, "download") /\ Stageable
  /\ disk' = [disk EXCEPT ![n] = "staged"]
  /\ Goes(n, "staged")
  /\ UNCHANGED <<envelope, store, polls>>

\* One row for each token.
InsertPending(n) ==
  /\ At(n, "staged") /\ Stageable /\ pending = 0
  /\ pending' = n /\ lapsed' = FALSE
  /\ Goes(n, "pending")
  /\ UNCHANGED <<envelope, mirror, asset, overtaken, disk, polls>>

\* os.replace
Move(n) ==
  /\ At(n, "pending") /\ disk[n] = "staged"
  /\ disk' = [disk EXCEPT ![n] = "object"]
  /\ Goes(n, "moved")
  /\ UNCHANGED <<envelope, store, polls>>

\* The root may not confirm it.
Promote(n) ==
  /\ At(n, "moved") /\ Stageable
  /\ pending = n /\ disk[n] = "object"
  /\ asset' = n /\ pending' = 0 /\ lapsed' = FALSE
  /\ \/ stages' = [stages EXCEPT ![n] = [at |-> "attach", doc |-> n]]
     \/ Goes(n, "release")
  /\ UNCHANGED <<envelope, mirror, overtaken, disk, polls>>

\* The transaction fails, or what it checks has changed: the object is deleted.
PromoteFails(n) ==
  /\ At(n, "moved")
  /\ disk' = [disk EXCEPT ![n] = "none"]
  /\ overtaken' = IF asset = n THEN n ELSE overtaken
  /\ Goes(n, "release")
  /\ UNCHANGED <<envelope, mirror, asset, pending, lapsed, polls>>

\* finalize_prepared_result; it may be repeated.
Finalize(n) ==
  /\ At(n, "finalize")
  /\ mirror \in {"active", "committed"}
  /\ asset = stages[n].doc /\ pending = 0
  /\ mirror' = "committed"
  /\ Goes(n, "commit")
  /\ UNCHANGED <<envelope, asset, pending, lapsed, overtaken, disk, polls>>

\* Anything else that goes wrong deletes what is still in the staging
\* directory, and releases the fence.
Fails(n) ==
  /\ stages[n].at \in {"provider", "describe", "recover", "download", "staged",
                       "pending", "moved", "attach", "finalize", "commit"}
  /\ disk' = IF disk[n] = "staged" THEN [disk EXCEPT ![n] = "none"] ELSE disk
  /\ Goes(n, "release")
  /\ UNCHANGED <<envelope, store, polls>>

\* reconcile_expired_pending, called for another purchase: the files go before
\* the row, which stays when the process ends in between.
ReconcileExpired ==
  /\ pending # 0 /\ lapsed
  /\ disk' = [disk EXCEPT ![pending] = "none"]
  /\ \/ pending' = 0 /\ lapsed' = FALSE
     \/ UNCHANGED <<pending, lapsed>>
  /\ UNCHANGED <<envelope, mirror, asset, overtaken, polls, stages>>

-----------------------------------------------------------------------------
(* A video that failed: _complete_video_terminal_failure_cleanup.          *)

\* A later poll finds the failure.
PollFailed ==
  /\ row.terminal = "failed"
  /\ Begins("clean")
  /\ UNCHANGED <<envelope, store, disk>>

\* release_pre_provider: no reservation, or one with nothing under it.
CleanMirror(n) ==
  /\ At(n, "clean")
  /\ mirror = "none" \/ (mirror = "active" /\ asset = 0 /\ pending = 0)
  /\ mirror' = "none"
  /\ Goes(n, "cleaned")
  /\ UNCHANGED <<envelope, asset, pending, lapsed, overtaken, disk, polls>>

\* complete_video_terminal_failure_cleanup
CleanRoom(n) ==
  /\ At(n, "cleaned") /\ row.terminal = "failed" /\ row.fence = 0
  /\ room' = "none"
  /\ Goes(n, "end")
  /\ UNCHANGED <<row, store, disk, polls>>

\* Either store refuses: 503, and a later poll cleans up.
CleanFails(n) ==
  /\ stages[n].at \in {"clean", "cleaned"} /\ Goes(n, "end")
  /\ UNCHANGED <<envelope, store, disk, polls>>

-----------------------------------------------------------------------------
(* Faults and time.                                                        *)

\* The process of a poll dies.
PollCrash(n) ==
  /\ ~ At(n, "none") /\ ~ At(n, "end") /\ Goes(n, "end")
  /\ UNCHANGED <<envelope, store, disk, polls>>

PollLeaseEnds ==
  /\ row.lease /\ row' = [row EXCEPT !.lease = FALSE]
  /\ UNCHANGED <<room, store, disk, polls, stages>>

WaitEnds ==
  /\ row.wait /\ row' = [row EXCEPT !.wait = FALSE]
  /\ UNCHANGED <<room, store, disk, polls, stages>>

PendingLapses ==
  /\ pending # 0 /\ ~ lapsed /\ lapsed' = TRUE
  /\ UNCHANGED <<envelope, mirror, asset, pending, overtaken, disk, polls, stages>>

PollsNext ==
  \/ Order
  \/ BeginPoll
  \/ ReconcileExpired
  \/ PollFailed
  \/ PollLeaseEnds
  \/ WaitEnds
  \/ PendingLapses
  \/ \E n \in Downloads : Prepare(n)
  \/ \E n \in Downloads : Finish(n)
  \/ \E n \in Downloads : Attach(n)
  \/ \E n \in Downloads : Commit(n)
  \/ \E n \in Downloads : FenceLost(n)
  \/ \E n \in Downloads : Release(n)
  \/ \E n \in Downloads : Describe(n)
  \/ \E n \in Downloads : Recover(n)
  \/ \E n \in Downloads : RecoverCut(n)
  \/ \E n \in Downloads : Download(n)
  \/ \E n \in Downloads : InsertPending(n)
  \/ \E n \in Downloads : Move(n)
  \/ \E n \in Downloads : Promote(n)
  \/ \E n \in Downloads : PromoteFails(n)
  \/ \E n \in Downloads : Finalize(n)
  \/ \E n \in Downloads : Fails(n)
  \/ \E n \in Downloads : CleanMirror(n)
  \/ \E n \in Downloads : CleanRoom(n)
  \/ \E n \in Downloads : CleanFails(n)
  \/ \E n \in Downloads : PollCrash(n)

PollsSpec == PollsInit /\ [][PollsNext]_pollVars

-----------------------------------------------------------------------------
(* Properties.                                                             *)

\* The row, the rows of the store and the polls keep their type.
PollsTypeOK ==
  /\ row \in VideoRow
  /\ room \in {"reserved", "committed", "none"}
  /\ mirror \in {"active", "committed", "none"}
  /\ asset \in Ids /\ pending \in Ids /\ lapsed \in BOOLEAN /\ overtaken \in Ids
  /\ disk \in [Downloads -> {"none", "staged", "object"}]
  /\ polls \in Ids
  /\ stages \in [Downloads -> Stage]

\* A video that is registered has its bytes, whatever polls overtake each
\* other: except the one whose own poll came back late and deleted it.
VideoHasBytes ==
  asset # 0 /\ asset # overtaken => disk[asset] = "object"

\* What is on record of a video is what the store has: a description before the
\* answer, and the answer of a finished reservation, with the room committed.
AnswerIsTheAsset ==
  /\ row.attached # 0 => row.attached = asset
  /\ row.answer # 0 => row.answer = asset
  /\ row.terminal = "asset" =>
       row.answer # 0 /\ mirror = "committed" /\ room = "committed"
  /\ mirror = "committed" => asset # 0 /\ pending = 0

\* The room of a failed video can always be given back, in the order of the
\* stores: nothing was ever staged under it, by whichever poll.
FailedIsEmpty ==
  /\ row.terminal = "failed" => ~ row.token /\ asset = 0 /\ pending = 0
  /\ mirror = "none" => row.terminal = "failed"
  /\ room = "none" => mirror = "none"

\* The video, its record and its room, taken together.
PollInv == PollsTypeOK /\ VideoHasBytes /\ AnswerIsTheAsset /\ FailedIsEmpty

\* The end of a video is final, and until it has one its token stays: the
\* provider is not asked for it again.
EndIsFinal ==
  /\ row.terminal # "none" =>
       row'.terminal = row.terminal /\ row'.answer = row.answer
  /\ row.token => row'.token \/ row'.terminal = "asset"
  /\ asset # 0 => asset' = asset
=============================================================================
