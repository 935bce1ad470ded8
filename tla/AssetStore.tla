----------------------------- MODULE AssetStore -----------------------------
(***************************************************************************)
(* The private store of bought assets of gateway/paid_media_asset_store.py:*)
(* reservations of room, the files on disk, the tombstones that track a    *)
(* file while it moves into place, the read leases of downloads and the    *)
(* receipts of acknowledgements.                                           *)
(*                                                                         *)
(* A transaction is one action; so is a change to the disk, which no       *)
(* transaction covers.  Staging runs in a thread: once started it goes on  *)
(* whatever becomes of the coroutine that waits for it, until the process  *)
(* crashes.  A purchase has one asset here (one to four in the code, which *)
(* stages them one after the other and finalises the whole list).          *)
(*                                                                         *)
(* The callers are the most general ones, with one exception, OfPurchase:  *)
(* the gateway acknowledges only the assets its request row names.  Of the *)
(* rows that are never deleted this leaves one hazard to PaidImage: the    *)
(* receipt of an earlier purchase of the same turn.                        *)
(***************************************************************************)
EXTENDS PaidMedia, FiniteSets

CONSTANTS
  Readers,      \* downloads
  Room,         \* max_capacity_bytes, in reservations of one operation
  PendingLease, \* _PENDING_COMMIT_LEASE_SECONDS
  ReadLease     \* lease_seconds of pin_authorized

ASSUME AssetAssumption ==
  /\ IsFiniteSet(Turns) /\ Room \in Nat
  /\ PendingLease \in Nat \ {0} /\ ReadLease \in Nat \ {0}

VARIABLES
  reservations, \* asset_reservations
  total,        \* asset_store_meta.reserved_total_bytes
  assets,       \* paid_media_assets: the token of a purchase's asset, or 0
  pending,      \* asset_pending_commits, by token: is there a row, time left
  receipts,     \* asset_ack_receipts
  disk,         \* where the file of a token is
  stager,       \* the thread that stages a token
  pins,         \* asset_read_leases of the downloads under way
  drained       \* acknowledgements that have seen no read lease

assetVars == <<reservations, total, assets, pending, receipts, disk, stager, pins,
          drained>>
assetRows == <<reservations, total, assets, receipts>>
assetFiles == <<pending, disk, stager>>
readVars == <<pins, drained>>

Reservation == [state: {"none", "active", "committed", "acked"},
                tokens: 0..MaxTokens]
Free == [state |-> "none", tokens |-> 0]
Active == [state |-> "active", tokens |-> 0]

Pending == [on: BOOLEAN, turn: Turns \cup {NoTurn}, left: 0..PendingLease]
Receipt == [tokens: 0..MaxTokens, archive: Archives \cup {NoArchive}]
NoReceipt == [tokens |-> 0, archive |-> NoArchive]

Stager == [turn: Turns \cup {NoTurn},
           at: {"idle", "downloaded", "pending", "moved", "done", "failed"}]
Pin == [token: 0..MaxTokens, left: 0..ReadLease]
NoPin == [token |-> 0, left |-> 0]

AssetInit ==
  /\ reservations = [t \in Turns |-> Free]
  /\ total = 0
  /\ assets = [t \in Turns |-> 0]
  /\ pending = [k \in Tokens |-> [on |-> FALSE, turn |-> NoTurn, left |-> 0]]
  /\ receipts = [t \in Turns |-> NoReceipt]
  /\ disk = [k \in Tokens |-> "none"]
  /\ stager = [k \in Tokens |-> [turn |-> NoTurn, at |-> "idle"]]
  /\ pins = [r \in Readers |-> NoPin]
  /\ drained = {}

PendingOf(t) == {k \in Tokens : pending[k].on /\ pending[k].turn = t}

-----------------------------------------------------------------------------
(* Reservations.                                                           *)

Expired == {k \in Tokens : pending[k].on /\ pending[k].left = 0}

Without(K) ==
  [k \in Tokens |-> IF k \in K THEN [pending[k] EXCEPT !.on = FALSE, !.left = 0]
                    ELSE pending[k]]
Erase(K) == [k \in Tokens |-> IF k \in K THEN "none" ELSE disk[k]]

\* reconcile_expired_pending: the files of expired tombstones are deleted, and
\* then the tombstones.  reserve calls it first, in a transaction of its own.
Reconcile ==
  /\ Expired # {}
  /\ disk' = Erase(Expired)
  /\ pending' = Without(Expired)
  /\ UNCHANGED <<assetRows, stager, readVars>>

\* The process ends among the deletions, or one fails: the transaction rolls
\* back, the deleted files do not.
ReconcileCut ==
  \E K \in SUBSET Expired :
    /\ disk' = Erase(K)
    /\ UNCHANGED <<assetRows, pending, stager, readVars>>

\* reserve; a row that is there already is left as it is.
Reserve(t) ==
  /\ reservations[t].state = "none"
  /\ total + 1 <= Room
  /\ reservations' = [reservations EXCEPT ![t] = Active]
  /\ total' = total + 1
  /\ UNCHANGED <<assets, receipts, assetFiles, readVars>>

\* release_pre_provider, of a reservation that has nothing staged.
Releasable(t) ==
  /\ reservations[t].state = "active"
  /\ assets[t] = 0 /\ PendingOf(t) = {}

Release(t) ==
  /\ Releasable(t)
  /\ reservations' = [reservations EXCEPT ![t] = Free]
  /\ total' = total - 1
  /\ UNCHANGED <<assets, receipts, assetFiles, readVars>>

-----------------------------------------------------------------------------
(* Staging: stage_url and _validate_and_commit_stage.                      *)

Stageable(t) == reservations[t].state = "active" /\ assets[t] = 0

StagerAt(k, at) == stager' = [stager EXCEPT ![k].at = at]

\* The room is checked and the asset downloaded into the staging directory.
Download(t, k) ==
  /\ stager[k].at = "idle"
  /\ Stageable(t)
  /\ stager' = [stager EXCEPT ![k] = [turn |-> t, at |-> "downloaded"]]
  /\ disk' = [disk EXCEPT ![k] = "staged"]
  /\ UNCHANGED <<assetRows, pending, readVars>>

\* The tombstone is committed before the file moves.
InsertPending(k) ==
  LET t == stager[k].turn IN
  /\ stager[k].at = "downloaded"
  /\ Stageable(t)
  /\ PendingOf(t) = {}  \* UNIQUE(turn_id, ordinal)
  /\ pending' = [pending EXCEPT ![k] =
       [on |-> TRUE, turn |-> t, left |-> PendingLease]]
  /\ StagerAt(k, "pending")
  /\ UNCHANGED <<assetRows, disk, readVars>>

\* os.replace
Move(k) ==
  /\ stager[k].at = "pending"
  /\ disk[k] = "staged"
  /\ disk' = [disk EXCEPT ![k] = "object"]
  /\ StagerAt(k, "moved")
  /\ UNCHANGED <<assetRows, pending, readVars>>

\* Faulty: the identity seen when the file moved is trusted.
IntactAsMoved(k) == stager[k].at = "moved"

\* Under the final write lock the object is opened and hashed again.
Intact(k) == disk[k] = "object"

\* The receipt is committed; the caller sees a failure when the installation
\* root does not confirm it.
Promote(k) ==
  /\ stager[k].at = "moved"
  /\ Stageable(stager[k].turn)
  /\ pending[k].on
  /\ Intact(k)
  /\ assets' = [assets EXCEPT ![stager[k].turn] = k]
  /\ pending' = Without({k})
  /\ \E at \in {"done", "failed"} : StagerAt(k, at)
  /\ UNCHANGED <<reservations, total, receipts, disk, readVars>>

\* The receipt could not be committed: the object is deleted again.
PromoteFails(k) ==
  /\ stager[k].at = "moved"
  /\ disk' = Erase({k})
  /\ StagerAt(k, "failed")
  /\ UNCHANGED <<assetRows, pending, readVars>>

\* A failure anywhere else deletes the staged file, and only that.
StageFails(k) ==
  /\ stager[k].at \in {"downloaded", "pending", "moved"}
  /\ disk' = IF disk[k] = "staged" THEN Erase({k}) ELSE disk
  /\ StagerAt(k, "failed")
  /\ UNCHANGED <<assetRows, pending, readVars>>

\* The process ends; the files stay as they are.
StageCrash(k) ==
  /\ stager[k].at \in {"downloaded", "pending", "moved"}
  /\ StagerAt(k, "failed")
  /\ UNCHANGED <<assetRows, pending, disk, readVars>>

\* finalize_result, and finalize_prepared_result, which checks more.
Finalize(t, k) ==
  /\ reservations[t].state = "active"
  /\ assets[t] = k /\ PendingOf(t) = {}
  /\ reservations' = [reservations EXCEPT ![t] =
       [state |-> "committed", tokens |-> k]]
  /\ UNCHANGED <<total, assets, receipts, assetFiles, readVars>>

-----------------------------------------------------------------------------
(* Downloads and acknowledgements.                                         *)

\* The rows that locate_token and pin_authorized look for.
Readable(t) ==
  /\ reservations[t].state = "committed"
  /\ assets[t] # 0
  /\ receipts[t] = NoReceipt

\* The lease is committed, then the file is opened and hashed.
Open(r, t) ==
  /\ pins[r].token = 0
  /\ Readable(t)
  /\ pins' = [pins EXCEPT ![r] = [token |-> assets[t], left |-> ReadLease]]
  /\ UNCHANGED <<assetRows, assetFiles, drained>>

Close(r) ==
  /\ pins[r].token # 0
  /\ pins' = [pins EXCEPT ![r] = NoPin]
  /\ UNCHANGED <<assetRows, assetFiles, drained>>

\* The first transaction of ack; an exact repeat changes nothing.
AckReceipt(t, k, a) ==
  /\ receipts[t] = NoReceipt
  /\ reservations[t] = [state |-> "committed", tokens |-> k]
  /\ receipts' = [receipts EXCEPT ![t] = [tokens |-> k, archive |-> a]]
  /\ reservations' = [reservations EXCEPT ![t].state = "acked"]
  /\ UNCHANGED <<total, assets, assetFiles, readVars>>

\* The downloads whose read lease ack waits for.
Reading(t) == {r \in Readers : pins[r].left > 0 /\ pins[r].token = assets[t]}

\* The receipt is of the assets that the purchase has now.
OfPurchase(t) == receipts[t].tokens # 0 /\ receipts[t].tokens = assets[t]

\* An acknowledgement, or an exact repeat of one, sees the last lease go.
AckWait(t) ==
  /\ OfPurchase(t) /\ Reading(t) = {} /\ t \notin drained
  /\ drained' = drained \cup {t}
  /\ UNCHANGED <<assetRows, assetFiles, pins>>

\* It deletes the files,
AckErase(t) ==
  /\ t \in drained
  /\ disk' = Erase({assets[t]})
  /\ UNCHANGED <<assetRows, pending, stager, readVars>>

\* and then the rows; those of the asset and of its leases go with them.
AckRemove(t) ==
  /\ t \in drained /\ disk[assets[t]] = "none"
  /\ reservations' = [reservations EXCEPT ![t] = Free]
  /\ total' = total - 1
  /\ assets' = [assets EXCEPT ![t] = 0]
  /\ pins' = [r \in Readers |-> IF pins[r].token = assets[t]
                                THEN [pins[r] EXCEPT !.left = 0] ELSE pins[r]]
  /\ drained' = drained \ {t}
  /\ UNCHANGED <<receipts, assetFiles>>

AssetTick ==
  /\ pending' = [k \in Tokens |->
       IF pending[k].left > 0 THEN [pending[k] EXCEPT !.left = @ - 1]
       ELSE pending[k]]
  /\ pins' = [r \in Readers |->
       IF pins[r].left > 0 THEN [pins[r] EXCEPT !.left = @ - 1] ELSE pins[r]]
  /\ UNCHANGED <<assetRows, disk, stager, drained>>

AssetNext ==
  \/ AssetTick
  \/ Reconcile
  \/ ReconcileCut
  \/ \E t \in Turns : Reserve(t)
  \/ \E t \in Turns : Release(t)
  \/ \E t \in Turns, k \in Tokens : Download(t, k)
  \/ \E k \in Tokens : InsertPending(k)
  \/ \E k \in Tokens : Move(k)
  \/ \E k \in Tokens : Promote(k)
  \/ \E k \in Tokens : PromoteFails(k)
  \/ \E k \in Tokens : StageFails(k)
  \/ \E k \in Tokens : StageCrash(k)
  \/ \E t \in Turns, k \in Tokens : Finalize(t, k)
  \/ \E r \in Readers, t \in Turns : Open(r, t)
  \/ \E r \in Readers : Close(r)
  \/ \E t \in Turns, k \in Tokens, a \in Archives : AckReceipt(t, k, a)
  \/ \E t \in Turns : AckWait(t)
  \/ \E t \in Turns : AckErase(t)
  \/ \E t \in Turns : AckRemove(t)

AssetSpec == AssetInit /\ [][AssetNext]_assetVars

-----------------------------------------------------------------------------
(* Properties.                                                             *)

\* Every row keeps its type, and the columns and references agree as CHECK and
\* REFERENCES demand: a token set with a finished purchase, a tombstone only
\* under a purchase at work.
AssetTypeOK ==
  /\ reservations \in [Turns -> Reservation]
  /\ total \in Int
  /\ assets \in [Turns -> 0..MaxTokens]
  /\ pending \in [Tokens -> Pending]
  /\ receipts \in [Turns -> Receipt]
  /\ disk \in [Tokens -> {"none", "staged", "object"}]
  /\ stager \in [Tokens -> Stager]
  /\ pins \in [Readers -> Pin]
  /\ drained \subseteq Turns
  /\ \A t \in Turns :
       reservations[t].tokens # 0 <=>
         reservations[t].state \in {"committed", "acked"}
  /\ \A k \in Tokens :
       /\ pending[k].on => /\ pending[k].turn \in Turns
                           /\ reservations[pending[k].turn].state = "active"
       /\ stager[k].at # "idle" => stager[k].turn \in Turns

\* reserve, release and ack keep the counter of the room exact, and it never
\* passes its limit.
TotalExact ==
  /\ total = Cardinality({t \in Turns : reservations[t].state # "none"})
  /\ total <= Room

\* A registered asset has its bytes on disk until it is acknowledged: neither
\* the reconciliation of another process, cut short or not, nor a failed
\* promotion or an acknowledgement of something else takes them.
AssetHasBytes ==
  \A t \in Turns :
    /\ assets[t] # 0 /\ reservations[t].state # "acked"
         => disk[assets[t]] = "object"
    /\ reservations[t].state = "committed" => assets[t] = reservations[t].tokens

\* Every object on disk is tracked by a tombstone or a registered asset, so
\* that a crash at any point leaves no private bytes that no row remembers.
ObjectsAreTracked ==
  \A k \in Tokens :
    disk[k] = "object" => pending[k].on \/ \E t \in Turns : assets[t] = k

\* What must hold of the rows and the files together.
FilesInv == AssetTypeOK /\ TotalExact /\ AssetHasBytes /\ ObjectsAreTracked

\* A download that holds a running read lease keeps its file, whatever is
\* acknowledged meanwhile.
ReadersKeepTheirFile ==
  \A r \in Readers : pins[r].left > 0 => disk[pins[r].token] = "object"

\* Rows and files agree through crashes, reconciliations and acknowledgements,
\* the room is counted exactly, and downloads keep their file.
FilesAreKept == FilesInv /\ ReadersKeepTheirFile
=============================================================================
