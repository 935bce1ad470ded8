------------------------------ MODULE PaidImage ------------------------------
(***************************************************************************)
(* The purchase of an image, gateway/app.py: _execute_paid_image_generation*)
(* and acknowledge_paid_media_assets, over the store of paid requests      *)
(* (MediaRequests), the store of bought assets (AssetStore) and a provider *)
(* that charges for every call it gets; and the buyer's downloads of what  *)
(* was bought, gateway/paid_media_asset_delivery.py.                       *)
(*                                                                         *)
(* Every call of a store is a step of its own, since the handler awaits    *)
(* it.  A handler may end before or after any of them: the process         *)
(* crashes, or the request is cancelled where nothing compensates for it.  *)
(* The thread that stages an asset goes on without its handler.            *)
(***************************************************************************)
EXTENDS MediaRequests, AssetStore

CONSTANT Handlers  \* requests for images under way

VARIABLES
  handlers, \* what each handler awaits, with its claim
  charged,  \* the claims for which the provider was called, by purchase
  downloads \* what each download has looked up

handlerVars == <<handlers, charged>>
imageVars == <<vars, assetVars, handlerVars, downloads>>

\* A handler that is past the provider fence holds a claim in phase 1.
BeforeFence == {"claimed", "mirror", "release", "abandon", "fence"}
AfterFence == {"outbound", "invoke", "stage", "staging", "finalize", "persist"}
Places == {"idle", "unfence", "undo", "mark"} \cup BeforeFence \cup AfterFence

Handler == [at: Places, turn: Turns \cup {NoTurn}, token: 0..MaxTokens]

Reader == [at: {"idle", "looked", "pinned", "served"},
           turn: Turns \cup {NoTurn}, token: 0..MaxTokens]

Idle == [at |-> "idle", turn |-> NoTurn, token |-> 0]

ImageInit ==
  /\ Init /\ AssetInit
  /\ handlers = [h \in Handlers |-> Idle]
  /\ charged = [t \in Turns |-> {}]
  /\ downloads = [r \in Readers |-> Idle]

At(h, place) == handlers[h].at = place
T(h) == handlers[h].turn
K(h) == handlers[h].token
Goes(h, place) ==
  handlers' = [handlers EXCEPT ![h] =
    IF place = "idle" THEN Idle ELSE [@ EXCEPT !.at = place]]

\* A step of the handler alone.
Jump(h, from, to) ==
  /\ At(h, from) /\ Goes(h, to) /\ UNCHANGED <<vars, assetVars, charged, downloads>>

\* A step of the handler that is a call of one store or the other.
StoreCall(h, from, to) == At(h, from) /\ Goes(h, to) /\ UNCHANGED <<assetVars, charged, downloads>>
FilesCall(h, from, to) == At(h, from) /\ Goes(h, to) /\ UNCHANGED <<vars, charged, downloads>>

-----------------------------------------------------------------------------
(* Before the provider fence.                                              *)

\* _claim_paid_media_request; every answer but a new claim ends the handler.
ClaimImage(h, t, d, lag) ==
  /\ At(h, "idle")
  /\ Claim(t, d, lag)
  /\ IF issued' = issued THEN UNCHANGED handlers
     ELSE handlers' = [handlers EXCEPT ![h] =
            [at |-> "claimed", turn |-> t, token |-> issued']]
  /\ UNCHANGED <<assetVars, charged, downloads>>

\* No route, no provider that keeps the protocol, or no asset store.
NoRoute(h) == Jump(h, "claimed", "abandon")

\* reserve_asset_capacity; a reservation that is there already is as good.
ReserveRoom(h) ==
  /\ StoreCall(h, "claimed", "mirror")
  /\ \/ ReserveAssets(T(h), K(h))
     \/ /\ Owns(T(h), K(h), 0)
        /\ authority[T(h)] = Reserved
        /\ UNCHANGED vars

\* It returns False, or it fails.
RoomRefused(h) == Jump(h, "claimed", "release")

\* The request is cancelled while the call runs: it is drained first.
RoomCancelled(h) ==
  /\ StoreCall(h, "claimed", "release")
  /\ ReserveAssets(T(h), K(h))

\* PaidMediaAssetStore.reserve, which first reconciles; where that fails or is
\* cut short, the handler goes on with MirrorRefused or Quit.
ReconcileFirst(h) ==
  /\ FilesCall(h, "mirror", "mirror")
  /\ Reconcile \/ ReconcileCut

ReserveMirror(h) ==
  /\ \E to \in {"fence", "release"} : FilesCall(h, "mirror", to)
  /\ \/ Reserve(T(h))
     \/ reservations[T(h)].state \in {"active", "committed"} /\ UNCHANGED assetVars

MirrorRefused(h) == Jump(h, "mirror", "release")

\* release_pre_provider takes no fencing token: it releases what the purchase
\* has, and reports success when it has nothing.
ReleaseMirror(h) ==
  /\ FilesCall(h, "release", "abandon")
  /\ \/ Release(T(h))
     \/ reservations[T(h)].state = "none" /\ UNCHANGED assetVars

\* _abandon_paid_media_pre_provider
AbandonClaim(h) ==
  /\ StoreCall(h, "abandon", "idle")
  /\ Abandon(T(h), K(h), 0)

-----------------------------------------------------------------------------
(* The fence, the provider and the answer.                                 *)

\* enter_provider_phase; a cancelled request is drained first.
EnterPhase(h) ==
  /\ \E to \in {"outbound", "unfence"} : StoreCall(h, "fence", to)
  /\ EnterProviderPhase(T(h), K(h))

\* The compensation of a cancelled request that entered the phase.
UnfenceMirror(h) ==
  /\ FilesCall(h, "unfence", "undo")
  /\ \/ Release(T(h))
     \/ reservations[T(h)].state = "none" /\ UNCHANGED assetVars

UndoClaim(h) ==
  /\ StoreCall(h, "undo", "idle")
  /\ Abandon(T(h), K(h), 1)

\* _assert_paid_media_outbound_ready
OutboundReady(h) == Jump(h, "outbound", "invoke")
OutboundRefused(h) == Jump(h, "outbound", "mark")

\* The provider is called, and charges whatever it answers.
Invoke(h) ==
  /\ At(h, "invoke")
  /\ \E to \in {"stage", "mark"} : Goes(h, to)
  /\ charged' = [charged EXCEPT ![T(h)] = @ \cup {K(h)}]
  /\ UNCHANGED <<vars, assetVars, downloads>>

\* stage_url, in a thread.
Stage(h) ==
  /\ FilesCall(h, "stage", "staging")
  /\ Download(T(h), K(h))

\* Faulty: the claim of an answer that cannot be stored is given back.
StageRefusedUndo(h) == Jump(h, "stage", "undo")

StageRefused(h) == Jump(h, "stage", "mark")

Staged(h) == Jump(h, "staging", "finalize") /\ stager[K(h)].at = "done"
StageFailed(h) == Jump(h, "staging", "mark") /\ stager[K(h)].at = "failed"

FinalizeImage(h) ==
  /\ FilesCall(h, "finalize", "persist")
  /\ Finalize(T(h), K(h))

FinalizeFails(h) == Jump(h, "finalize", "mark")

\* Faulty: the answer is recorded as soon as the asset is downloaded.
PersistEarly(h) ==
  /\ \E from \in {"staging", "persist"} : StoreCall(h, from, "idle")
  /\ SucceedAssets(T(h), K(h))

\* _persist_paid_media_success
Persist(h) ==
  /\ StoreCall(h, "persist", "idle")
  /\ SucceedAssets(T(h), K(h))

PersistFails(h) == Jump(h, "persist", "mark")

\* _mark_paid_media_recovery_or_fail
Mark(h, lag) ==
  /\ StoreCall(h, "mark", "idle")
  /\ MarkRecovery(T(h), K(h), lag)

\* The handler ends where it is: a crash, a cancellation, or a call that is
\* refused where nothing is left to do.
Quit(h) == handlers[h].at # "idle" /\ Jump(h, handlers[h].at, "idle")

-----------------------------------------------------------------------------
(* The threads that stage, and the acknowledgement of the buyer.           *)

StagingStep(k) ==
  /\ \/ InsertPending(k)
     \/ Move(k)
     \/ Promote(k)
     \/ PromoteFails(k)
     \/ StageFails(k)
     \/ StageCrash(k)
  /\ UNCHANGED <<vars, handlerVars, downloads>>

\* read_asset_success_document: the answer as the buyer reads it.
Doc(t) == requests[t].doc

\* acknowledge_paid_media_assets: first the store of requests takes it,
Acknowledge(t, a) ==
  /\ Doc(t) # 0
  /\ AckAssets(t, Doc(t), a)
  /\ UNCHANGED <<assetVars, handlerVars, downloads>>

CleansUp(t) ==
  /\ Doc(t) # 0
  /\ authority[t].state \in {"acked_pending_cleanup", "acked"}

\* then the store of assets,
AckStep(t) ==
  /\ CleansUp(t)
  /\ \/ AckReceipt(t, Doc(t), authority[t].archive)
     \/ AckWait(t) /\ receipts[t].tokens = Doc(t)
     \/ AckErase(t)
     \/ AckRemove(t)
  /\ UNCHANGED <<vars, handlerVars, downloads>>

\* cleanup_complete of ack: the receipt is this one and nothing is left.
Cleaned(t) == receipts[t].tokens = Doc(t) /\ assets[t] = 0

\* and then the store of requests gives back the room.
AckDone(t, lag) ==
  /\ Doc(t) # 0 /\ Cleaned(t)
  /\ CompleteAck(t, Doc(t), receipts[t].archive, lag)
  /\ UNCHANGED <<assetVars, handlerVars, downloads>>

-----------------------------------------------------------------------------
(* Downloads: _pin_paid_media_asset_for_principal_sync.                    *)

\* read_unacked_asset_success_document
Unacked(t) == authority[t].state = "committed"

\* The first look at the answer.  What locate_token finds before it, the pin
\* looks for again.
Look(r, t) ==
  /\ downloads[r].at = "idle"
  /\ Unacked(t)
  /\ downloads' = [downloads EXCEPT ![r] =
       [at |-> "looked", turn |-> t, token |-> Doc(t)]]
  /\ UNCHANGED <<vars, assetVars, handlerVars>>

PinAsset(r) ==
  /\ downloads[r].at = "looked"
  /\ assets[downloads[r].turn] = downloads[r].token
  /\ Open(r, downloads[r].turn)
  /\ downloads' = [downloads EXCEPT ![r].at = "pinned"]
  /\ UNCHANGED <<vars, handlerVars>>

\* Nothing is pinned: another answer, or an acknowledgement.
PinRefused(r) ==
  /\ downloads[r].at = "looked"
  /\ downloads' = [downloads EXCEPT ![r] = Idle]
  /\ UNCHANGED <<vars, assetVars, handlerVars>>

SameAnswer(r) ==
  LET t == downloads[r].turn IN Unacked(t) /\ Doc(t) = downloads[r].token

\* The second look; if it finds the same, the file is served.
LookAgain(r) ==
  /\ downloads[r].at = "pinned"
  /\ SameAnswer(r)
  /\ downloads' = [downloads EXCEPT ![r].at = "served"]
  /\ UNCHANGED <<vars, assetVars, handlerVars>>

\* The response ends, however it ends.
CloseDownload(r) ==
  /\ downloads[r].at \in {"pinned", "served"}
  /\ Close(r)
  /\ downloads' = [downloads EXCEPT ![r] = Idle]
  /\ UNCHANGED <<vars, handlerVars>>

ImageTick == Tick /\ AssetTick /\ UNCHANGED <<handlerVars, downloads>>

ImageNext ==
  \/ ImageTick
  \/ \E h \in Handlers, t \in Turns, d \in Digests, lag \in Lags :
       ClaimImage(h, t, d, lag)
  \/ \E h \in Handlers : NoRoute(h)
  \/ \E h \in Handlers : ReserveRoom(h)
  \/ \E h \in Handlers : RoomRefused(h)
  \/ \E h \in Handlers : RoomCancelled(h)
  \/ \E h \in Handlers : ReconcileFirst(h)
  \/ \E h \in Handlers : ReserveMirror(h)
  \/ \E h \in Handlers : MirrorRefused(h)
  \/ \E h \in Handlers : ReleaseMirror(h)
  \/ \E h \in Handlers : AbandonClaim(h)
  \/ \E h \in Handlers : EnterPhase(h)
  \/ \E h \in Handlers : UnfenceMirror(h)
  \/ \E h \in Handlers : UndoClaim(h)
  \/ \E h \in Handlers : OutboundReady(h)
  \/ \E h \in Handlers : OutboundRefused(h)
  \/ \E h \in Handlers : Invoke(h)
  \/ \E h \in Handlers : Stage(h)
  \/ \E h \in Handlers : StageRefused(h)
  \/ \E h \in Handlers : Staged(h)
  \/ \E h \in Handlers : StageFailed(h)
  \/ \E h \in Handlers : FinalizeImage(h)
  \/ \E h \in Handlers : FinalizeFails(h)
  \/ \E h \in Handlers : Persist(h)
  \/ \E h \in Handlers : PersistFails(h)
  \/ \E h \in Handlers, lag \in Lags : Mark(h, lag)
  \/ \E h \in Handlers : Quit(h)
  \/ \E k \in Tokens : StagingStep(k)
  \/ \E t \in Turns, a \in Archives : Acknowledge(t, a)
  \/ \E t \in Turns : AckStep(t)
  \/ \E t \in Turns, lag \in Lags : AckDone(t, lag)
  \/ \E r \in Readers, t \in Turns : Look(r, t)
  \/ \E r \in Readers : PinAsset(r)
  \/ \E r \in Readers : PinRefused(r)
  \/ \E r \in Readers : LookAgain(r)
  \/ \E r \in Readers : CloseDownload(r)

ImageSpec == ImageInit /\ [][ImageNext]_imageVars

-----------------------------------------------------------------------------
(* Properties.                                                             *)

\* The rows of both stores keep their type, and a handler at work has a claim.
ImageTypeOK ==
  /\ TypeOK /\ AssetTypeOK
  /\ handlers \in [Handlers -> Handler]
  /\ charged \in [Turns -> SUBSET Tokens]
  /\ downloads \in [Readers -> Reader]
  /\ \A h \in Handlers :
       /\ T(h) = NoTurn <=> At(h, "idle")
       /\ K(h) = 0 <=> At(h, "idle")

\* Whatever handlers stall, crash, are cancelled or come back late, a purchase
\* is charged once; again only after the buyer acknowledged what it brought.
PaidOnce ==
  \A t \in Turns :
    Cardinality({k \in charged[t] : receipts[t].tokens # k}) <= 1

\* An answer on record has its bytes: what the buyer reads from the store of
\* requests is finished, registered and on disk in the store of assets.
SuccessHasBytes ==
  \A t \in Turns :
    authority[t].state = "committed" =>
      /\ reservations[t] = [state |-> "committed", tokens |-> authority[t].tokens]
      /\ assets[t] = authority[t].tokens
      /\ disk[assets[t]] = "object"

\* The store of assets takes an acknowledgement only after the store of
\* requests has it on record, so a crash between them loses no bytes that the
\* buyer could still ask for.
AckIsRecordedFirst ==
  \A t \in Turns :
    reservations[t].state = "acked" =>
      /\ authority[t].state = "acked_pending_cleanup"
      /\ authority[t].archive = receipts[t].archive

\* The store of requests gives the room back only when the bytes are gone.
RoomIsGivenBackLast ==
  \A t \in Turns :
    authority[t].state = "acked" =>
      /\ assets[t] # authority[t].tokens
      /\ disk[authority[t].tokens] = "none"

\* "A hold consumes capacity but cannot orphan private bytes": whatever files
\* a purchase has or is about to get, its authority is on record.
BytesAreNeverOrphaned ==
  \A t \in Turns :
    assets[t] # 0 \/ PendingOf(t) # {} => authority[t].state # "none"

\* What is served, as long as its read lease runs, is the answer on record: its
\* bytes are on disk and its room is not given back.
ServedIsOnRecord ==
  \A r \in Readers : LET t == downloads[r].turn IN
    downloads[r].at = "served" /\ pins[r].left > 0 =>
      /\ authority[t].state \in {"committed", "acked_pending_cleanup"}
      /\ authority[t].tokens = pins[r].token
      /\ disk[pins[r].token] = "object"

\* The answers on record and the bytes agree, from the purchase to the end of
\* its acknowledgement, which passes through the two stores in one order.
BytesFitAnswers ==
  /\ SuccessHasBytes /\ BytesAreNeverOrphaned /\ ServedIsOnRecord
  /\ AckIsRecordedFirst /\ RoomIsGivenBackLast

\* docs/adr/0009: the reservation is on disk before the provider fence, and is
\* not released before the answer is acknowledged.
NoChargeWithoutRoom ==
  \A h \in Handlers :
    handlers[h].at \in AfterFence /\ Owns(T(h), K(h), 1)
      => reservations[T(h)].state # "none"

\* docs/adr/0009: until the buyer has archived the answer, the same key gives
\* it again and the download goes on.
AnswerIsReadable ==
  \A t \in Turns : authority[t].state = "committed" => Readable(t)
=============================================================================
