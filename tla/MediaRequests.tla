--------------------------- MODULE MediaRequests ---------------------------
(***************************************************************************)
(* The store of paid media requests of gateway/durable_media_requests.py   *)
(* in its profile paid_media: one row per purchase (principal, operation   *)
(* and idempotency key; their hash is the turn), and beside it the row of  *)
(* the asset authority that holds room for the bought assets.              *)
(*                                                                         *)
(* Every operation is one BEGIN IMMEDIATE transaction, so every operation  *)
(* is one action; one that returns False or raises rolls back and is a     *)
(* step that does not happen.  The caller is the most general one: it may  *)
(* present every fencing token that was ever issued, and every document.   *)
(* The gateway's own handlers are in PaidImage.                            *)
(*                                                                         *)
(* Time is kept as what is left of it: lease is lease_expires_at - now and *)
(* keep is expires_at - now.  Claim, MarkRecovery and CompleteAck read the *)
(* clock before they wait for the lock, so their clock may lag.            *)
(*                                                                         *)
(* Every request reserves the same PAID_MEDIA_RESULT_MAX_BYTES for its     *)
(* answer and no answer is longer, so the byte budget is not modelled      *)
(* apart from the limit on rows.                                           *)
(***************************************************************************)
EXTENDS PaidMedia, FiniteSets

CONSTANTS
  Digests,    \* what a request asks for: request_sha256
  Lease,      \* lease_seconds
  Retention,  \* retention_seconds
  MaxLag,     \* bound: how old a clock read before the lock may be
  PruneBatch, \* prune_batch
  MaxRecords, \* max_records
  MaxAssets   \* max_asset_reservation_bytes, in reservations of one operation

ASSUME MediaAssumption ==
  /\ IsFiniteSet(Turns)
  /\ Digests # {}
  /\ Lease \in Nat \ {0} /\ Retention \in Nat \ {0}
  /\ MaxLag \in Nat /\ PruneBatch \in Nat
  /\ MaxRecords \in Nat /\ MaxAssets \in Nat

VARIABLES
  requests,  \* durable_media_requests
  authority, \* durable_media_asset_authority
  held,      \* durable_media_asset_capacity.reserved_total_bytes
  issued     \* fencing tokens issued so far (a token is 32 random bytes)

vars == <<requests, authority, held, issued>>

Lags == 0..MaxLag
\* _ASSET_SUCCESS_UNACKED_EXPIRES_AT, the last second of the year 9999
Forever == Retention + 1

Status == {"absent", "processing", "succeeded", "recovery_required"}

\* doc is the token set of the assets in the answer, 0 for any other answer:
\* create_asset_token is random, so it is identified with the fencing token
\* of the attempt that downloaded the assets.
Request == [status: Status, digest: Digests, token: 0..MaxTokens,
            lease: Int, phase: 0..1, keep: Int, doc: 0..MaxTokens]

Authority == [state: {"none", "reserved", "committed",
                      "acked_pending_cleanup", "acked"},
              tokens: 0..MaxTokens, archive: Archives \cup {NoArchive}]

NoRequest == [status |-> "absent", digest |-> CHOOSE d \in Digests : TRUE,
              token |-> 0, lease |-> 0, phase |-> 0, keep |-> 0, doc |-> 0]
NoAuthority == [state |-> "none", tokens |-> 0, archive |-> NoArchive]
Reserved == [NoAuthority EXCEPT !.state = "reserved"]

\* A row of the authority that takes up room.
Holding == {"reserved", "committed", "acked_pending_cleanup"}
Holders == {t \in Turns : authority[t].state \in Holding}

Init ==
  /\ requests = [t \in Turns |-> NoRequest]
  /\ authority = [t \in Turns |-> NoAuthority]
  /\ held = 0
  /\ issued = 0

-----------------------------------------------------------------------------
(* The transition every claim makes before it looks at its own row.        *)

Live(r, lag) == r.lease + lag > 0

\* A claim that may have reached the provider and whose lease is over.
Ambiguous(rows, lag) ==
  {t \in Turns : /\ rows[t].status = "processing" /\ rows[t].phase = 1
                 /\ ~ Live(rows[t], lag)}

\* The outcome is unknown, and stays on record from the end of the lease.
Concluded(r, keep) ==
  [r EXCEPT !.status = "recovery_required", !.token = 0, !.lease = 0,
            !.keep = keep]

\* expires_at of a row at work is one retention after it was (re)claimed.
ExpiresIn(r) ==
  IF r.status = "processing" THEN r.lease - Lease + Retention ELSE r.keep

\* Faulty: an outcome that has expired is deleted with its assets.
DroppableRegardless(rows, lag) ==
  {t \in Turns : /\ rows[t].status \in {"succeeded", "recovery_required"}
                 /\ rows[t].keep + lag <= 0}

\* What may be deleted: an outcome that has expired and whose assets are not
\* held, or a claim without room that was abandoned long ago.
Droppable(rows, lag) ==
  {t \in Turns :
    \/ /\ rows[t].status \in {"succeeded", "recovery_required"}
       /\ rows[t].keep + lag <= 0
       /\ authority[t].state \notin Holding
    \/ /\ rows[t].status = "processing" /\ rows[t].phase = 0
       /\ rows[t].lease + Retention + lag <= 0
       /\ authority[t].state = "none"}

\* At most PruneBatch rows are pruned at a time, the oldest first.
Oldest(S, age) ==
  {X \in SUBSET S :
    /\ \/ X = S /\ Cardinality(S) <= PruneBatch
       \/ Cardinality(X) = PruneBatch
    /\ \A x \in X, y \in S \ X : age[x] <= age[y]}

ConcludeAll(C) ==
  [t \in Turns |-> IF t \in C
                   THEN Concluded(requests[t], requests[t].lease + Retention)
                   ELSE requests[t]]

\* What _prune may do at a claim of turn t: the rows after it concluded some
\* claims, and the turns it deletes; t's own row whatever the batch is.
Prunings(t, lag) ==
  UNION {LET rows == ConcludeAll(C)
             old == Droppable(rows, lag)
         IN  {[rows |-> rows, gone |-> X \cup (old \cap {t})] :
                X \in Oldest(old, [u \in Turns |-> ExpiresIn(rows[u])])} :
         C \in Oldest(Ambiguous(requests, lag),
                      [u \in Turns |-> requests[u].lease])}

Drop(rows, D) == [t \in Turns |-> IF t \in D THEN NoRequest ELSE rows[t]]
\* ON DELETE CASCADE, and the trigger that counts the room of a deleted row.
HeldBy(D) == Cardinality(D \cap Holders)

\* Faulty: the room of a deleted row is not given back.
DropAuthorityUncounted(D) ==
  /\ authority' = [t \in Turns |-> IF t \in D THEN NoAuthority ELSE authority[t]]
  /\ held' = held

DropAuthority(D) ==
  /\ authority' = [t \in Turns |-> IF t \in D THEN NoAuthority ELSE authority[t]]
  /\ held' = held - HeldBy(D)

-----------------------------------------------------------------------------
(* claim *)

\* A claim that is answered from its row, without a write: a conflict, a
\* request at work, or an outcome that has not expired.
Answered(r, d, lag) ==
  /\ \/ r.status \in {"succeeded", "recovery_required"} /\ r.keep + lag > 0
     \/ /\ r.status = "processing"
        /\ r.phase = 0 => r.lease + Retention + lag > 0
  /\ \/ r.digest # d
     \/ r.status = "processing" => Live(r, lag)

NewToken == issued + 1

Insert(rows, t, d, lag) ==
  /\ rows[t].status = "absent"
  /\ Cardinality({u \in Turns : rows[u].status # "absent"}) < MaxRecords
  /\ issued < MaxTokens
  /\ issued' = NewToken
  /\ requests' = [rows EXCEPT ![t] =
       [NoRequest EXCEPT !.status = "processing", !.digest = d,
                         !.token = NewToken, !.lease = Lease - lag]]

\* The claim before it never reached the provider.
Reclaim(rows, t, d, lag) ==
  /\ rows[t].status = "processing" /\ rows[t].phase = 0
  /\ rows[t].digest = d /\ ~ Live(rows[t], lag)
  /\ issued < MaxTokens
  /\ issued' = NewToken
  /\ requests' = [rows EXCEPT ![t].token = NewToken, ![t].lease = Lease - lag]

\* The claim before it may have reached the provider, and the batch of _prune
\* was too small for it.
GiveUp(rows, t, d, lag) ==
  /\ rows[t].status = "processing" /\ rows[t].phase = 1
  /\ rows[t].digest = d /\ ~ Live(rows[t], lag)
  /\ requests' = [rows EXCEPT ![t] = Concluded(@, Retention - lag)]
  /\ UNCHANGED issued

\* An expired outcome whose assets are still held, or a conflict with it.
Replay(rows, t, d) ==
  /\ rows[t].status # "absent"
  /\ rows[t].digest # d \/ rows[t].status # "processing"
  /\ requests' = rows
  /\ UNCHANGED issued

Claim(t, d, lag) ==
  /\ ~ Answered(requests[t], d, lag)
  /\ \E p \in Prunings(t, lag) :
       LET rows == Drop(p.rows, p.gone)
       IN  /\ DropAuthority(p.gone)
           /\ \/ Insert(rows, t, d, lag)
              \/ Reclaim(rows, t, d, lag)
              \/ GiveUp(rows, t, d, lag)
              \/ Replay(rows, t, d)

-----------------------------------------------------------------------------
(* What the holder of a fencing token may do. *)

Owns(t, token, phase) ==
  /\ requests[t].status = "processing"
  /\ requests[t].token = token
  /\ requests[t].phase = phase

\* reserve_asset_capacity; the trigger refuses what does not fit.
ReserveAssets(t, token) ==
  /\ Owns(t, token, 0)
  /\ authority[t].state = "none"
  /\ held + 1 <= MaxAssets
  /\ authority' = [authority EXCEPT ![t] = Reserved]
  /\ held' = held + 1
  /\ UNCHANGED <<requests, issued>>

EnterProviderPhase(t, token) ==
  /\ Owns(t, token, 0) /\ Live(requests[t], 0)
  /\ requests' = [requests EXCEPT ![t].phase = 1]
  /\ UNCHANGED <<authority, held, issued>>

RenewClaim(t, token) ==
  /\ Owns(t, token, requests[t].phase) /\ Live(requests[t], 0)
  /\ requests' = [requests EXCEPT ![t].lease = Lease]
  /\ UNCHANGED <<authority, held, issued>>

\* abandon_pre_provider in phase 0, abandon_fenced_before_invocation in
\* phase 1: the caller vouches that the provider was not invoked.
Abandon(t, token, phase) ==
  /\ Owns(t, token, phase)
  /\ requests' = Drop(requests, {t})
  /\ DropAuthority({t})
  /\ UNCHANGED issued

SucceededWith(r, doc, keep) ==
  [r EXCEPT !.status = "succeeded", !.token = 0, !.lease = 0,
            !.keep = keep, !.doc = doc]

\* succeed, with an answer that has no assets.
SucceedPlain(t, token) ==
  /\ Owns(t, token, 1) /\ Live(requests[t], 0)
  /\ authority[t].state = "none"
  /\ requests' = [requests EXCEPT ![t] = SucceededWith(@, 0, Retention)]
  /\ UNCHANGED <<authority, held, issued>>

\* succeed, with assets whose room was reserved.
SucceedAssets(t, token) ==
  /\ Owns(t, token, 1) /\ Live(requests[t], 0)
  /\ authority[t].state = "reserved"
  /\ requests' = [requests EXCEPT ![t] = SucceededWith(@, token, Forever)]
  /\ authority' = [authority EXCEPT ![t].state = "committed",
                                    ![t].tokens = token]
  /\ UNCHANGED <<held, issued>>

MarkRecovery(t, token, lag) ==
  /\ Owns(t, token, 1)
  /\ requests' = [requests EXCEPT ![t] = Concluded(@, Retention - lag)]
  /\ UNCHANGED <<authority, held, issued>>

\* ack_asset_success: the client archived the assets.
AckAssets(t, doc, a) ==
  /\ requests[t].status = "succeeded"
  /\ authority[t].state = "committed" /\ authority[t].tokens = doc
  /\ authority' = [authority EXCEPT ![t].state = "acked_pending_cleanup",
                                    ![t].archive = a]
  /\ UNCHANGED <<requests, held, issued>>

\* complete_asset_ack_cleanup: the private bytes are gone.
CompleteAck(t, doc, a, lag) ==
  /\ authority[t] = [state |-> "acked_pending_cleanup", tokens |-> doc,
                     archive |-> a]
  /\ authority' = [authority EXCEPT ![t].state = "acked"]
  /\ held' = held - 1
  /\ requests' = [requests EXCEPT ![t].keep = Retention - lag]
  /\ UNCHANGED issued

\* The bounds below which nothing more can happen to a time.
LeaseFloor == -(Retention + MaxLag)
KeepFloor == -MaxLag

Aged(r) ==
  IF r.status = "processing"
  THEN [r EXCEPT !.lease = IF @ > LeaseFloor THEN @ - 1 ELSE @]
  ELSE [r EXCEPT !.keep = IF @ > KeepFloor /\ @ # Forever THEN @ - 1 ELSE @]

Tick ==
  /\ requests' = [t \in Turns |-> IF requests[t].status = "absent"
                                  THEN requests[t] ELSE Aged(requests[t])]
  /\ UNCHANGED <<authority, held, issued>>

Next ==
  \/ Tick
  \/ \E t \in Turns, d \in Digests, lag \in Lags : Claim(t, d, lag)
  \/ \E t \in Turns, token \in 1..issued : ReserveAssets(t, token)
  \/ \E t \in Turns, token \in 1..issued : EnterProviderPhase(t, token)
  \/ \E t \in Turns, token \in 1..issued : RenewClaim(t, token)
  \/ \E t \in Turns, token \in 1..issued, phase \in 0..1 :
       Abandon(t, token, phase)
  \/ \E t \in Turns, token \in 1..issued : SucceedPlain(t, token)
  \/ \E t \in Turns, token \in 1..issued : SucceedAssets(t, token)
  \/ \E t \in Turns, token \in 1..issued, lag \in Lags :
       MarkRecovery(t, token, lag)
  \/ \E t \in Turns, doc \in 1..issued, a \in Archives : AckAssets(t, doc, a)
  \/ \E t \in Turns, doc \in 1..issued, a \in Archives, lag \in Lags :
       CompleteAck(t, doc, a, lag)

Spec == Init /\ [][Next]_vars

-----------------------------------------------------------------------------
(* Properties. *)

\* Every row keeps its type, and its columns agree as the CHECK constraints of
\* the two tables demand.
TypeOK ==
  /\ requests \in [Turns -> Request]
  /\ authority \in [Turns -> Authority]
  /\ held \in Int
  /\ issued \in 0..MaxTokens
  /\ \A t \in Turns :
       /\ requests[t].status = "absent" => requests[t] = NoRequest
       /\ requests[t].token # 0 <=> requests[t].status = "processing"
       /\ requests[t].status \in {"succeeded", "recovery_required"}
            => requests[t].phase = 1 /\ requests[t].lease = 0
       /\ requests[t].doc # 0 => requests[t].status = "succeeded"
       /\ requests[t].keep <= Forever
       /\ authority[t].tokens # 0 <=> authority[t].state \in
            {"committed", "acked_pending_cleanup", "acked"}
       /\ authority[t].archive # NoArchive <=> authority[t].state \in
            {"acked_pending_cleanup", "acked"}

\* The two tables tell one story: room is held for a purchase at work or of
\* unknown outcome, the assets of an answer stay committed until they are
\* acknowledged, and such an answer does not expire before.
AuthorityMatches ==
  \A t \in Turns :
    LET r == requests[t]
        a == authority[t]
    IN  CASE a.state = "none" -> r.doc = 0
          [] a.state = "reserved" ->
               r.status \in {"processing", "recovery_required"}
          [] OTHER -> /\ r.status = "succeeded"
                      /\ r.doc = a.tokens /\ r.doc # 0
                      /\ (r.keep = Forever) = (a.state # "acked")

\* The triggers, the cascades and the acknowledgement keep the counter of the
\* room exact, and it never passes its limit.
HeldExact == held = Cardinality(Holders) /\ held <= MaxAssets

\* The inductive invariant of the store.  AuthorityMatches needs the columns to
\* agree as TypeOK says, and HeldExact needs the authority to be well typed.
StoreInv == TypeOK /\ AuthorityMatches /\ HeldExact

\* An outcome whose assets are still held stays on record, unchanged, until
\* the client has acknowledged them and their bytes are gone; an outcome
\* without assets stays until it expires.
EvidenceIsKept ==
  [][\A t \in Turns :
       /\ requests[t].status \in {"succeeded", "recovery_required"}
       /\ authority[t].state \in Holding \/ requests[t].keep > 0
       => /\ requests'[t].status = requests[t].status
          /\ requests'[t].doc = requests[t].doc]_vars

\* An acknowledgement is never taken back or exchanged for another.
AckIsFinal ==
  [][\A t \in Turns :
       /\ authority[t].archive # NoArchive
       => \/ authority'[t].archive = authority[t].archive
          \/ authority[t].state = "acked" /\ authority'[t].state = "none"]_vars

\* The promise to the one who pays, with a row's stage as its purchase.
Purchase == INSTANCE PurchasePromise WITH
  stage <- [t \in Turns |->
    CASE requests[t].status = "succeeded" -> "answered"
      [] requests[t].status = "recovery_required" -> "unknown"
      [] requests[t].status = "processing" /\ requests[t].phase = 1 -> "paying"
      [] OTHER -> "open"],
  buyer <- [t \in Turns |-> requests[t].token * requests[t].phase],
  kept <- [t \in Turns |->
    /\ requests[t].status \in {"succeeded", "recovery_required"}
    /\ authority[t].state \in Holding \/ requests[t].keep > 0]

\* The store implements PurchasePromise: it hands the right to pay for a
\* purchase to one fencing token at a time, and to another one only after the
\* outcome of the first was collected, or expired, or was never paid for.
KeepsPurchases == Purchase!Spec
=============================================================================
