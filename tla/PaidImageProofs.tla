--------------------------- MODULE PaidImageProofs ---------------------------
(***************************************************************************)
(* Proofs about MediaRequests, AssetStore and PaidImage, for any number of *)
(* purchases, handlers, downloads and tokens and any sizes of the two      *)
(* stores.                                                                 *)
(*                                                                         *)
(* The first part is about the store of requests alone, the second about   *)
(* the store of assets, whoever calls them.                                *)
(* The third is about the handlers, the threads that stage, the            *)
(* acknowledgement and the downloads over both stores.  Its invariant,     *)
(* ImageInv, is a conjunction of named parts, each with a lemma of its own *)
(* that says it is kept; the invariants of the two stores are kept because *)
(* every step is, for each store, one of its own steps (StepsOfStores).    *)
(***************************************************************************)
EXTENDS PaidImage, FiniteSetTheorems, TLAPS

-----------------------------------------------------------------------------
(* The store of requests.  Every property of it is about one row and its   *)
(* authority, so each action is first described by what it does to the row *)
(* of any one turn; claim, which prunes other rows on the way, by the      *)
(* lemma ClaimRow.                                                         *)

\* All that matters of the batch that _prune chooses: it concludes claims
\* whose outcome is unknown, and what it deletes may be deleted.
LEMMA PruningFacts ==
  ASSUME NEW t \in Turns, NEW lag \in Lags, NEW p \in Prunings(t, lag)
  PROVE  /\ p.gone \subseteq Droppable(p.rows, lag)
         /\ \E C \in SUBSET Ambiguous(requests, lag) : p.rows = ConcludeAll(C)
<1>1. PICK C \in Oldest(Ambiguous(requests, lag),
                        [u \in Turns |-> requests[u].lease]) :
        \E X \in Oldest(Droppable(ConcludeAll(C), lag),
                       [u \in Turns |-> ExpiresIn(ConcludeAll(C)[u])]) :
          p = [rows |-> ConcludeAll(C),
               gone |-> X \cup (Droppable(ConcludeAll(C), lag) \cap {t})]
  BY DEF Prunings
<1>3. PICK X \in Oldest(Droppable(ConcludeAll(C), lag),
                       [u \in Turns |-> ExpiresIn(ConcludeAll(C)[u])]) :
        p = [rows |-> ConcludeAll(C),
             gone |-> X \cup (Droppable(ConcludeAll(C), lag) \cap {t})]
  BY <1>1
<1>2. C \subseteq Ambiguous(requests, lag)
      /\ X \subseteq Droppable(ConcludeAll(C), lag)
  BY DEF Oldest
<1> QED
  BY <1>2, <1>3

-----------------------------------------------------------------------------
(* What a step may do to the row of one turn and to its authority. *)

\* A row that a claim has just inserted.
Fresh(r) == \E d \in Digests, k \in 1..MaxTokens, l \in Int :
  r = [NoRequest EXCEPT !.status = "processing", !.digest = d,
                        !.token = k, !.lease = l]

\* A row that pruning may delete, concluded by it or before.
Disposable(r, a) ==
  /\ a.state \notin Holding
  /\ \/ r.status \in {"succeeded", "recovery_required"} /\ r.keep <= 0
     \/ r.status = "processing" /\ r.phase = 0 /\ a.state = "none"
     \/ r.status = "processing" /\ r.phase = 1

\* A row that another claim has taken over.
Reclaimed(r, k, l) == [r EXCEPT !.token = k, !.lease = l]

RowSame(t) == requests'[t] = requests[t] /\ authority'[t] = authority[t]

RowConcluded(t) ==
  /\ requests[t].status = "processing" /\ requests[t].phase = 1
  /\ \E k \in Int : k <= Retention /\ requests'[t] = Concluded(requests[t], k)
  /\ authority'[t] = authority[t]

RowDropped(t) ==
  /\ Disposable(requests[t], authority[t])
  /\ authority'[t] = NoAuthority
  /\ requests'[t] = NoRequest \/ Fresh(requests'[t])

RowInserted(t) ==
  /\ requests[t].status = "absent" /\ Fresh(requests'[t])
  /\ authority'[t] = authority[t]

RowReclaimed(t) ==
  /\ requests[t].status = "processing" /\ requests[t].phase = 0
  /\ \E k \in 1..MaxTokens, l \in Int :
       requests'[t] = Reclaimed(requests[t], k, l)
  /\ authority'[t] = authority[t]

RowAged(t) ==
  /\ requests[t].status # "absent" /\ requests'[t] = Aged(requests[t])
  /\ authority'[t] = authority[t]

RowReserved(t) ==
  /\ requests[t].status = "processing" /\ requests[t].phase = 0
  /\ authority[t].state = "none" /\ authority'[t] = Reserved
  /\ requests'[t] = requests[t]

RowEntered(t) ==
  /\ requests[t].status = "processing" /\ requests[t].phase = 0
  /\ requests'[t] = [requests[t] EXCEPT !.phase = 1]
  /\ authority'[t] = authority[t]

RowRenewed(t) ==
  /\ requests[t].status = "processing"
  /\ requests'[t] = [requests[t] EXCEPT !.lease = Lease]
  /\ authority'[t] = authority[t]

RowAbandoned(t) ==
  /\ requests[t].status = "processing"
  /\ requests'[t] = NoRequest /\ authority'[t] = NoAuthority

RowAnswered(t) ==
  /\ requests[t].status = "processing" /\ requests[t].phase = 1
  /\ authority[t].state = "none" /\ authority'[t] = authority[t]
  /\ requests'[t] = SucceededWith(requests[t], 0, Retention)

RowAnsweredAssets(t) ==
  /\ requests[t].status = "processing" /\ requests[t].phase = 1
  /\ authority[t].state = "reserved"
  /\ \E k \in 1..MaxTokens :
       /\ requests'[t] = SucceededWith(requests[t], k, Forever)
       /\ authority'[t] = [authority[t] EXCEPT !.state = "committed",
                                               !.tokens = k]

RowAcked(t) ==
  /\ requests[t].status = "succeeded" /\ authority[t].state = "committed"
  /\ \E a \in Archives :
       authority'[t] = [authority[t] EXCEPT !.state = "acked_pending_cleanup",
                                            !.archive = a]
  /\ requests'[t] = requests[t]

RowCleaned(t) ==
  /\ authority[t].state = "acked_pending_cleanup"
  /\ authority'[t] = [authority[t] EXCEPT !.state = "acked"]
  /\ \E k \in Int : /\ k <= Retention
                    /\ requests'[t] = [requests[t] EXCEPT !.keep = k]

RowStep(t) ==
  \/ RowSame(t) \/ RowConcluded(t) \/ RowDropped(t) \/ RowInserted(t)
  \/ RowReclaimed(t) \/ RowAged(t) \/ RowReserved(t) \/ RowEntered(t)
  \/ RowRenewed(t) \/ RowAbandoned(t) \/ RowAnswered(t)
  \/ RowAnsweredAssets(t) \/ RowAcked(t) \/ RowCleaned(t)

\* A claim, of whatever turn, does one of five things to a row.
LEMMA ClaimRow ==
  ASSUME TypeOK, NEW t \in Turns, NEW d \in Digests, NEW lag \in Lags,
         Claim(t, d, lag), NEW u \in Turns
  PROVE  \/ RowSame(u) \/ RowConcluded(u) \/ RowDropped(u)
         \/ RowInserted(u) \/ RowReclaimed(u)
<1> USE MediaAssumption, MediaConstants
<1>0. requests[u] \in Request /\ authority[u] \in Authority /\ lag \in Nat
      /\ lag <= MaxLag
  BY DEF TypeOK, Lags
<1>1. PICK p \in Prunings(t, lag) :
        LET rows == Drop(p.rows, p.gone)
        IN  /\ DropAuthority(p.gone)
            /\ \/ Insert(rows, t, d, lag)
               \/ Reclaim(rows, t, d, lag)
               \/ GiveUp(rows, t, d, lag)
               \/ Replay(rows, t, d)
  BY DEF Claim
<1>2. PICK C \in SUBSET Ambiguous(requests, lag) : p.rows = ConcludeAll(C)
  BY PruningFacts
<1>3. p.gone \subseteq Droppable(p.rows, lag)
  BY PruningFacts
<1> DEFINE rows == Drop(p.rows, p.gone)
<1>4. p.rows[u] = IF u \in C
                  THEN Concluded(requests[u], requests[u].lease + Retention)
                  ELSE requests[u]
  BY <1>2 DEF ConcludeAll
<1>5. /\ rows[u] = IF u \in p.gone THEN NoRequest ELSE p.rows[u]
      /\ rows = [v \in Turns |-> rows[v]]
  BY DEF Drop
<1>6. authority'[u] = IF u \in p.gone THEN NoAuthority ELSE authority[u]
  BY <1>1 DEF DropAuthority
<1>7. u \in C => /\ requests[u].status = "processing" /\ requests[u].phase = 1
                 /\ requests[u].lease + Retention \in Int
                 /\ requests[u].lease + Retention <= Retention
  BY <1>0 DEF Ambiguous, Live, Request
<1>8. u \in p.gone => Disposable(requests[u], authority[u])
  <2> SUFFICES ASSUME u \in p.gone PROVE Disposable(requests[u], authority[u])
    OBVIOUS
  <2>1. CASE u \in C
    <3>1. p.rows[u].status = "recovery_required"
      BY <1>4, <1>0, <2>1 DEF Concluded, Request
    <3> QED
      BY <3>1, <1>3, <1>7, <2>1 DEF Droppable, Disposable
  <2>2. CASE u \notin C
    BY <1>0, <1>3, <1>4, <2>2 DEF Droppable, Disposable, Holding, Request
  <2> QED
    BY <2>1, <2>2
<1>9. CASE requests'[u] = rows[u]
  <2>1. CASE u \in p.gone
    BY <1>5, <1>6, <1>8, <1>9, <2>1 DEF RowDropped
  <2>2. CASE u \notin p.gone /\ u \in C
    BY <1>4, <1>5, <1>6, <1>7, <1>9, <2>2 DEF RowConcluded
  <2>3. CASE u \notin p.gone /\ u \notin C
    BY <1>4, <1>5, <1>6, <1>9, <2>3 DEF RowSame
  <2> QED BY <2>1, <2>2, <2>3
<1>10. CASE Insert(rows, t, d, lag) /\ u = t
  <2>1. Fresh(requests'[u])
    <3>1. requests'[u] = [NoRequest EXCEPT !.status = "processing",
                !.digest = d, !.token = NewToken, !.lease = Lease - lag]
      BY <1>5, <1>10 DEF Insert
    <3>2. NewToken \in 1..MaxTokens
      BY <1>10 DEF Insert, NewToken, TypeOK
    <3>3. Lease - lag \in Int
      BY <1>0
    <3> QED
      BY <3>1, <3>2, <3>3 DEF Fresh
  <2>2. rows[u].status = "absent"
    BY <1>10 DEF Insert
  <2>3. u \notin p.gone => requests[u].status = "absent"
    BY <2>2, <1>4, <1>5, <1>0 DEF Concluded, Request
  <2> QED
    BY <2>1, <2>3, <1>6, <1>8 DEF RowDropped, RowInserted
<1>11. CASE Reclaim(rows, t, d, lag) /\ u = t
  <2>1. rows[u].status = "processing" /\ rows[u].phase = 0
    BY <1>11 DEF Reclaim
  <2>2. u \notin p.gone /\ u \notin C /\ rows[u] = requests[u]
    BY <2>1, <1>4, <1>5, <1>0 DEF NoRequest, Concluded, Request
  <2>3. NewToken \in 1..MaxTokens
    BY <1>11 DEF Reclaim, NewToken, TypeOK
  <2>4. requests'[u] = [rows[u] EXCEPT !.token = NewToken, !.lease = Lease - lag]
    BY <1>5, <1>11 DEF Reclaim
  <2>5. Lease - lag \in Int
    BY <1>0
  <2>6. requests'[u] = Reclaimed(requests[u], NewToken, Lease - lag)
    BY <2>2, <2>4 DEF Reclaimed
  <2> QED
    BY <2>1, <2>2, <2>3, <2>5, <2>6, <1>6 DEF RowReclaimed
<1>12. CASE GiveUp(rows, t, d, lag) /\ u = t
  <2>1. rows[u].status = "processing" /\ rows[u].phase = 1
    BY <1>12 DEF GiveUp
  <2>2. u \notin p.gone /\ u \notin C /\ rows[u] = requests[u]
    BY <2>1, <1>4, <1>5, <1>0 DEF NoRequest, Concluded, Request
  <2>3. requests'[u] = Concluded(rows[u], Retention - lag)
    BY <1>5, <1>12 DEF GiveUp
  <2>4. Retention - lag \in Int /\ Retention - lag <= Retention
    BY <1>0
  <2> QED
    BY <2>1, <2>2, <2>3, <2>4, <1>6 DEF RowConcluded
<1>13. requests'[u] = rows[u] \/ u = t
  BY <1>1, <1>5 DEF Insert, Reclaim, GiveUp, Replay
<1>14. Replay(rows, t, d) => requests'[u] = rows[u]
  BY DEF Replay
<1> QED
  BY <1>1, <1>9, <1>10, <1>11, <1>12, <1>13, <1>14

-----------------------------------------------------------------------------
(* Every step does to a row what RowStep allows, and to the counters what  *)
(* the following lemmas say.                                               *)

\* A token that somebody holds is one that was issued.
LEMMA IssuedTokens ==
  ASSUME TypeOK, NEW token \in 1..issued
  PROVE  token \in 1..MaxTokens
BY MediaAssumption, MediaConstants DEF TypeOK

LEMMA NextRow ==
  ASSUME TypeOK, Next, NEW u \in Turns
  PROVE  RowStep(u)
<1> USE MediaAssumption, MediaConstants DEF TypeOK
<1>1. CASE Tick
  <2>1. CASE requests[u].status = "absent"
    BY <1>1, <2>1 DEF Tick, RowStep, RowSame
  <2>2. CASE requests[u].status # "absent"
    BY <1>1, <2>2 DEF Tick, RowStep, RowAged
  <2> QED BY <2>1, <2>2
<1>2. ASSUME NEW t \in Turns, NEW d \in Digests, NEW lag \in Lags,
             Claim(t, d, lag)
      PROVE  RowStep(u)
  BY <1>2, ClaimRow DEF RowStep
<1>3. ASSUME NEW t \in Turns, NEW token \in 1..issued, ReserveAssets(t, token)
      PROVE  RowStep(u)
  BY <1>3 DEF ReserveAssets, Owns, RowStep, RowSame, RowReserved
<1>4. ASSUME NEW t \in Turns, NEW token \in 1..issued,
             EnterProviderPhase(t, token)
      PROVE  RowStep(u)
  BY <1>4 DEF EnterProviderPhase, Owns, RowStep, RowSame, RowEntered
<1>5. ASSUME NEW t \in Turns, NEW token \in 1..issued, RenewClaim(t, token)
      PROVE  RowStep(u)
  BY <1>5 DEF RenewClaim, Owns, RowStep, RowSame, RowRenewed
<1>6. ASSUME NEW t \in Turns, NEW token \in 1..issued, NEW phase \in 0..1,
             Abandon(t, token, phase)
      PROVE  RowStep(u)
  BY <1>6 DEF Abandon, Drop, DropAuthority, Owns, RowStep, RowSame,
              RowAbandoned
<1>7. ASSUME NEW t \in Turns, NEW token \in 1..issued, SucceedPlain(t, token)
      PROVE  RowStep(u)
  BY <1>7 DEF SucceedPlain, Owns, RowStep, RowSame, RowAnswered
<1>8. ASSUME NEW t \in Turns, NEW token \in 1..issued, SucceedAssets(t, token)
      PROVE  RowStep(u)
  <2>1. token \in 1..MaxTokens
    BY IssuedTokens
  <2>2. CASE u = t
    <3>1. /\ requests[u].status = "processing" /\ requests[u].phase = 1
          /\ authority[u].state = "reserved"
      BY <1>8, <2>2 DEF SucceedAssets, Owns
    <3>2. requests'[u] = SucceededWith(requests[u], token, Forever)
      BY <1>8, <2>2 DEF SucceedAssets
    <3>3. authority'[u] = [authority[u] EXCEPT !.state = "committed",
                                               !.tokens = token]
      BY <1>8, <2>2 DEF SucceedAssets
    <3> QED BY <2>1, <3>1, <3>2, <3>3 DEF RowStep, RowAnsweredAssets
  <2>3. CASE u # t
    BY <1>8, <2>3 DEF SucceedAssets, RowStep, RowSame
  <2> QED BY <2>2, <2>3
<1>9. ASSUME NEW t \in Turns, NEW token \in 1..issued, NEW lag \in Lags,
             MarkRecovery(t, token, lag)
      PROVE  RowStep(u)
  <2>1. Retention - lag \in Int /\ Retention - lag <= Retention
    BY DEF Lags
  <2>2. CASE u = t
    BY <1>9, <2>1, <2>2 DEF MarkRecovery, Owns, RowStep, RowConcluded
  <2>3. CASE u # t
    BY <1>9, <2>3 DEF MarkRecovery, RowStep, RowSame
  <2> QED BY <2>2, <2>3
<1>10. ASSUME NEW t \in Turns, NEW doc \in 1..issued, NEW a \in Archives,
              AckAssets(t, doc, a)
       PROVE  RowStep(u)
  <2>1. CASE u = t
    <3>1. authority'[u] = [authority[u] EXCEPT
                 !.state = "acked_pending_cleanup", !.archive = a]
      BY <1>10, <2>1 DEF AckAssets
    <3> QED BY <1>10, <2>1, <3>1 DEF AckAssets, RowStep, RowAcked
  <2>2. CASE u # t
    BY <1>10, <2>2 DEF AckAssets, RowStep, RowSame
  <2> QED BY <2>1, <2>2
<1>11. ASSUME NEW t \in Turns, NEW doc \in 1..issued, NEW a \in Archives,
              NEW lag \in Lags, CompleteAck(t, doc, a, lag)
       PROVE  RowStep(u)
  <2>1. Retention - lag \in Int /\ Retention - lag <= Retention
    BY DEF Lags
  <2>2. CASE u = t
    BY <1>11, <2>1, <2>2 DEF CompleteAck, RowStep, RowCleaned
  <2>3. CASE u # t
    BY <1>11, <2>3 DEF CompleteAck, RowStep, RowSame
  <2> QED BY <2>2, <2>3
<1> QED
  BY <1>1, <1>2, <1>3, <1>4, <1>5, <1>6, <1>7, <1>8, <1>9, <1>10, <1>11
  DEF Next

\* Every operation writes one row of each table, and none adds a turn.
LEMMA Tables ==
  ASSUME TypeOK, Next
  PROVE  /\ requests' = [t \in Turns |-> requests'[t]]
         /\ authority' = [t \in Turns |-> authority'[t]]
<1> USE DEF TypeOK
<1>1. ASSUME NEW t \in Turns, NEW d \in Digests, NEW lag \in Lags,
             Claim(t, d, lag)
      PROVE  /\ requests' = [u \in Turns |-> requests'[u]]
             /\ authority' = [u \in Turns |-> authority'[u]]
  BY <1>1 DEF Claim, DropAuthority, Drop, Insert, Reclaim, GiveUp, Replay
<1>2. CASE ~ \E t \in Turns, d \in Digests, lag \in Lags : Claim(t, d, lag)
  BY <1>2 DEF Next, Tick, ReserveAssets, EnterProviderPhase, RenewClaim,
     Abandon, Drop, DropAuthority, SucceedPlain, SucceedAssets, MarkRecovery,
     AckAssets, CompleteAck
<1> QED BY <1>1, <1>2

LEMMA Counters ==
  ASSUME TypeOK, Next
  PROVE  held' \in Int /\ issued' \in 0..MaxTokens
<1> USE MediaAssumption, MediaConstants DEF TypeOK
<1>1. ASSUME NEW D, DropAuthority(D)
      PROVE  held' \in Int
  <2>1. D \cap Holders \subseteq Turns
    BY DEF Holders
  <2>2. IsFiniteSet(D \cap Holders)
    BY <2>1, FS_Subset
  <2>3. HeldBy(D) \in Nat
    BY <2>2, FS_CardinalityType DEF HeldBy
  <2> QED BY <1>1, <2>3 DEF DropAuthority
<1>2. held' \in Int
  <2>1. CASE \E t \in Turns, d \in Digests, lag \in Lags : Claim(t, d, lag)
    BY <1>1, <2>1 DEF Claim
  <2>2. CASE \E t \in Turns, token \in 1..issued, phase \in 0..1 :
               Abandon(t, token, phase)
    BY <1>1, <2>2 DEF Abandon
  <2>3. held' \in {held, held + 1, held - 1} \/ \E D : DropAuthority(D)
    BY <2>1, <2>2 DEF Next, Claim, Tick, ReserveAssets, EnterProviderPhase,
       RenewClaim, Abandon, SucceedPlain, SucceedAssets, MarkRecovery,
       AckAssets, CompleteAck
  <2> QED BY <1>1, <2>3
<1>3. issued' \in 0..MaxTokens
  <2>1. issued' = issued \/ (issued < MaxTokens /\ issued' = issued + 1)
    <3>1. ASSUME NEW t \in Turns, NEW d \in Digests, NEW lag \in Lags,
                 Claim(t, d, lag)
          PROVE  \/ issued' = issued
                 \/ issued < MaxTokens /\ issued' = issued + 1
      BY <3>1 DEF Claim, Insert, Reclaim, GiveUp, Replay, NewToken
    <3> QED
      BY <3>1 DEF Next, Tick, ReserveAssets, EnterProviderPhase, RenewClaim,
         Abandon, SucceedPlain, SucceedAssets, MarkRecovery, AckAssets,
         CompleteAck
  <2> QED BY <2>1
<1> QED BY <1>2, <1>3

-----------------------------------------------------------------------------
(* What TypeOK and AuthorityMatches say of one row and its authority.      *)

RowOK(r, a) ==
  /\ r \in Request /\ a \in Authority
  /\ r.status = "absent" => r = NoRequest
  /\ r.token # 0 <=> r.status = "processing"
  /\ r.status \in {"succeeded", "recovery_required"}
       => r.phase = 1 /\ r.lease = 0
  /\ r.doc # 0 => r.status = "succeeded"
  /\ r.keep <= Forever
  /\ a.tokens # 0 <=>
       a.state \in {"committed", "acked_pending_cleanup", "acked"}
  /\ a.archive # NoArchive <=> a.state \in {"acked_pending_cleanup", "acked"}
  /\ a.state = "none" => r.doc = 0
  /\ a.state = "reserved" => r.status \in {"processing", "recovery_required"}
  /\ a.state \notin {"none", "reserved"}
       => /\ r.status = "succeeded" /\ r.doc = a.tokens /\ r.doc # 0
          /\ r.keep = Forever <=> a.state # "acked"

LEMMA RowsOfInv ==
  ASSUME TypeOK, AuthorityMatches, NEW t \in Turns
  PROVE  RowOK(requests[t], authority[t])
<1>1. requests[t] \in Request /\ authority[t] \in Authority
  BY DEF TypeOK
<1>2. (requests[t].keep = Forever) = (authority[t].state # "acked")
      <=> (requests[t].keep = Forever <=> authority[t].state # "acked")
  OBVIOUS
<1>3. CASE authority[t].state = "none"
  BY <1>1, <1>3 DEF TypeOK, AuthorityMatches, RowOK
<1>4. CASE authority[t].state = "reserved"
  BY <1>1, <1>4 DEF TypeOK, AuthorityMatches, RowOK
<1>5. CASE authority[t].state \notin {"none", "reserved"}
  BY <1>1, <1>2, <1>5 DEF TypeOK, AuthorityMatches, RowOK
<1> QED BY <1>3, <1>4, <1>5

LEMMA InvOfRows ==
  ASSUME TypeOK, Next, \A t \in Turns : RowOK(requests'[t], authority'[t])
  PROVE  TypeOK' /\ AuthorityMatches'
<1>1. TypeOK'
  BY Tables, Counters DEF TypeOK, RowOK
<1>2. ASSUME NEW t \in Turns
      PROVE  LET r == requests'[t]
                 a == authority'[t]
             IN  CASE a.state = "none" -> r.doc = 0
                   [] a.state = "reserved" ->
                        r.status \in {"processing", "recovery_required"}
                   [] OTHER -> /\ r.status = "succeeded"
                               /\ r.doc = a.tokens /\ r.doc # 0
                               /\ (r.keep = Forever) = (a.state # "acked")
  <2>1. RowOK(requests'[t], authority'[t])
    OBVIOUS
  <2>2. CASE authority'[t].state = "none"
    BY <2>1, <2>2 DEF RowOK
  <2>3. CASE authority'[t].state = "reserved"
    BY <2>1, <2>3 DEF RowOK
  <2>4. CASE authority'[t].state \notin {"none", "reserved"}
    BY <2>1, <2>4 DEF RowOK
  <2> QED BY <2>2, <2>3, <2>4
<1> QED BY <1>1, <1>2 DEF AuthorityMatches

\* A write of a few columns keeps a row a row.
LEMMA Rewritten ==
  ASSUME NEW t \in Turns, requests[t] \in Request, authority[t] \in Authority
  PROVE  /\ \A k \in Int : Concluded(requests[t], k) \in Request
         /\ \A k \in 1..MaxTokens, l \in Int :
              Reclaimed(requests[t], k, l) \in Request
         /\ \A k \in 0..MaxTokens, l \in Int :
              SucceededWith(requests[t], k, l) \in Request
         /\ \A k \in 1..MaxTokens :
              [authority[t] EXCEPT !.state = "committed", !.tokens = k]
                \in Authority
<1> USE MediaAssumption, MediaConstants
<1>1. ASSUME NEW k \in Int
      PROVE  Concluded(requests[t], k) \in Request
  <2>1. /\ 0 \in 0..MaxTokens /\ 0 \in Int
        /\ "recovery_required" \in Status
    BY DEF Status
  <2> QED BY <2>1 DEF Concluded, Request
<1>2. ASSUME NEW k \in 1..MaxTokens, NEW l \in Int
      PROVE  Reclaimed(requests[t], k, l) \in Request
  <2>1. k \in 0..MaxTokens
    OBVIOUS
  <2> QED BY <2>1 DEF Reclaimed, Request
<1>3. ASSUME NEW k \in 0..MaxTokens, NEW l \in Int
      PROVE  SucceededWith(requests[t], k, l) \in Request
  <2>1. 0 \in 0..MaxTokens /\ 0 \in Int /\ "succeeded" \in Status
    BY DEF Status
  <2> QED BY <2>1 DEF SucceededWith, Request
<1>4. ASSUME NEW k \in 1..MaxTokens
      PROVE  [authority[t] EXCEPT !.state = "committed", !.tokens = k]
               \in Authority
  <2>1. k \in 0..MaxTokens
    OBVIOUS
  <2> QED BY <2>1 DEF Authority
<1> QED BY <1>1, <1>2, <1>3, <1>4

LEMMA RowKept ==
  ASSUME NEW t \in Turns, RowOK(requests[t], authority[t]), RowStep(t)
  PROVE  RowOK(requests'[t], authority'[t])
<1> USE MediaAssumption, MediaConstants DEF RowOK
<1>0. /\ NoRequest \in Request /\ NoAuthority \in Authority
      /\ Reserved \in Authority /\ RowOK(NoRequest, NoAuthority)
      /\ Forever \in Int /\ Retention \in Int /\ Retention < Forever
      /\ 0 < Forever /\ 0 \in 0..MaxTokens /\ 1..MaxTokens \subseteq 0..MaxTokens
  BY DEF NoRequest, NoAuthority, Reserved, Forever, Request, Authority, Status
<1>00. ASSUME NEW k \in 0..MaxTokens, NEW l \in Int
       PROVE  SucceededWith(requests[t], k, l) \in Request
  BY Rewritten
<1>1. CASE RowSame(t)
  BY <1>1 DEF RowSame
<1>2. CASE RowConcluded(t)
  <2>1. PICK k \in Int : /\ k <= Retention
                         /\ requests'[t] = Concluded(requests[t], k)
    BY <1>2 DEF RowConcluded
  <2>2. requests'[t] \in Request
    BY <2>1, Rewritten
  <2>3. /\ requests'[t].status = "recovery_required"
        /\ requests'[t].token = 0 /\ requests'[t].lease = 0
        /\ requests'[t].phase = requests[t].phase
        /\ requests'[t].doc = requests[t].doc /\ requests'[t].keep = k
    BY <2>1 DEF Concluded, Request
  <2> QED BY <1>0, <1>2, <2>1, <2>2, <2>3 DEF RowConcluded
<1>3. ASSUME NEW r, Fresh(r)
      PROVE  /\ r \in Request /\ r.status = "processing" /\ r.token # 0
             /\ r.doc = 0 /\ r.keep = 0
  <2>1. PICK d \in Digests, k \in 1..MaxTokens, l \in Int :
          r = [NoRequest EXCEPT !.status = "processing", !.digest = d,
                                !.token = k, !.lease = l]
    BY <1>3 DEF Fresh
  <2>2. r = [status |-> "processing", digest |-> d, token |-> k, lease |-> l,
             phase |-> 0, keep |-> 0, doc |-> 0]
    BY <2>1 DEF NoRequest
  <2> QED BY <2>2 DEF Request, Status
<1>4. CASE RowDropped(t)
  BY <1>0, <1>3, <1>4 DEF RowDropped, NoAuthority, Request, Authority, Status
<1>5. CASE RowInserted(t)
  <2>1. authority[t].state = "none"
    BY <1>5 DEF RowInserted, NoRequest
  <2> QED BY <1>0, <1>3, <1>5, <2>1 DEF RowInserted
<1>6. CASE RowReclaimed(t)
  <2>1. PICK k \in 1..MaxTokens, l \in Int :
          requests'[t] = Reclaimed(requests[t], k, l)
    BY <1>6 DEF RowReclaimed
  <2>2. requests'[t] \in Request
    BY <2>1, Rewritten
  <2>3. /\ requests'[t].status = "processing" /\ requests'[t].token # 0
        /\ requests'[t].doc = requests[t].doc
        /\ requests'[t].keep = requests[t].keep
    BY <1>6, <2>1 DEF RowReclaimed, Reclaimed, Request
  <2> QED BY <1>6, <2>2, <2>3 DEF RowReclaimed
<1>7. CASE RowAged(t)
  BY <1>0, <1>7 DEF RowAged, Aged, Request, Authority, Status
<1>8. CASE RowReserved(t)
  BY <1>0, <1>8 DEF RowReserved, Reserved, NoAuthority, Request, Authority, Status
<1>9. CASE RowEntered(t)
  BY <1>9 DEF RowEntered, Request, Authority, Status
<1>10. CASE RowRenewed(t)
  BY <1>10 DEF RowRenewed, Request, Authority, Status
<1>11. CASE RowAbandoned(t)
  BY <1>0, <1>11 DEF RowAbandoned
<1>12. CASE RowAnswered(t)
  <2>1. requests'[t] \in Request
    <3>1. SucceededWith(requests[t], 0, Retention) \in Request
      BY <1>0, <1>00
    <3> QED BY <1>12, <3>1 DEF RowAnswered
  <2>2. /\ requests'[t].status = "succeeded"
        /\ requests'[t].token = 0 /\ requests'[t].lease = 0
        /\ requests'[t].phase = requests[t].phase
        /\ requests'[t].doc = 0 /\ requests'[t].keep = Retention
    BY <1>12 DEF RowAnswered, SucceededWith, Request
  <2> QED BY <1>0, <1>12, <2>1, <2>2 DEF RowAnswered
<1>13. CASE RowAnsweredAssets(t)
  <2>1. PICK k \in 1..MaxTokens :
          /\ requests'[t] = SucceededWith(requests[t], k, Forever)
          /\ authority'[t] = [authority[t] EXCEPT !.state = "committed",
                                                  !.tokens = k]
    BY <1>13 DEF RowAnsweredAssets
  <2>2. requests'[t] \in Request
    <3>1. SucceededWith(requests[t], k, Forever) \in Request
      BY <1>0, <1>00
    <3> QED BY <2>1, <3>1
  <2>3. /\ requests'[t].status = "succeeded"
        /\ requests'[t].token = 0 /\ requests'[t].lease = 0
        /\ requests'[t].phase = requests[t].phase
        /\ requests'[t].doc = k /\ requests'[t].keep = Forever
    BY <2>1 DEF SucceededWith, Request
  <2>4. authority'[t] \in Authority
    BY <2>1, Rewritten
  <2>5. /\ authority'[t].state = "committed" /\ authority'[t].tokens = k
        /\ authority'[t].archive = authority[t].archive
    BY <2>1 DEF Authority
  <2> QED BY <1>0, <1>13, <2>2, <2>3, <2>4, <2>5 DEF RowAnsweredAssets
<1>14. CASE RowAcked(t)
  <2>1. PICK a \in Archives :
          authority'[t] = [authority[t] EXCEPT !.state = "acked_pending_cleanup",
                                               !.archive = a]
    BY <1>14 DEF RowAcked
  <2>2. a # NoArchive
    BY <2>1
  <2>3. /\ authority'[t] \in Authority
        /\ authority'[t].state = "acked_pending_cleanup"
        /\ authority'[t].archive = a
        /\ authority'[t].tokens = authority[t].tokens
    BY <2>1 DEF Authority
  <2> QED BY <1>14, <2>2, <2>3 DEF RowAcked
<1>15. CASE RowCleaned(t)
  BY <1>0, <1>15 DEF RowCleaned, Request, Authority, Status
<1> QED
  BY <1>1, <1>2, <1>4, <1>5, <1>6, <1>7, <1>8, <1>9, <1>10, <1>11, <1>12,
     <1>13, <1>14, <1>15 DEF RowStep

-----------------------------------------------------------------------------
(* The counter of the room. *)

LEMMA HoldersAre ==
  IsFiniteSet(Holders) /\ Cardinality(Holders) \in Nat
<1>1. Holders \subseteq Turns
  BY DEF Holders
<1> QED BY <1>1, FS_Subset, FS_CardinalityType, MediaAssumption, MediaConstants

\* What is deleted gives back the room it held, and no more.
LEMMA DropKeepsCount ==
  ASSUME HeldExact, NEW D, DropAuthority(D)
  PROVE  HeldExact'
<1>1. Holders' = Holders \ D
  BY DEF DropAuthority, Holders, Holding, NoAuthority
<1>2. D \cap Holders = Holders \cap D
  OBVIOUS
<1>3. Cardinality(Holders \ D) = Cardinality(Holders) - HeldBy(D)
  BY <1>2, HoldersAre, FS_Difference DEF HeldBy
<1>4. IsFiniteSet(D \cap Holders)
  BY HoldersAre, FS_Subset
<1>5. HeldBy(D) \in Nat
  BY <1>4, FS_CardinalityType DEF HeldBy
<1> QED
  BY <1>1, <1>3, <1>5, HoldersAre, MediaAssumption, MediaConstants
  DEF HeldExact, DropAuthority

LEMMA HeldStep ==
  ASSUME TypeOK, HeldExact, Next
  PROVE  HeldExact'
<1> USE MediaAssumption, MediaConstants DEF TypeOK
<1>1. ASSUME held' = held,
             \A t \in Turns : authority'[t].state \in Holding
                              <=> authority[t].state \in Holding
      PROVE  HeldExact'
  <2>1. Holders' = Holders
    BY <1>1 DEF Holders
  <2> QED BY <1>1, <2>1 DEF HeldExact
<1>2. CASE Tick
  BY <1>1, <1>2 DEF Tick
<1>3. ASSUME NEW t \in Turns, NEW d \in Digests, NEW lag \in Lags,
             Claim(t, d, lag)
      PROVE  HeldExact'
  BY <1>3, DropKeepsCount DEF Claim
<1>4. ASSUME NEW t \in Turns, NEW token \in 1..issued, ReserveAssets(t, token)
      PROVE  HeldExact'
  <2>1. t \notin Holders
    BY <1>4 DEF ReserveAssets, Holders, Holding
  <2>2. Holders' = Holders \cup {t}
    BY <1>4 DEF ReserveAssets, Holders, Holding, Reserved, NoAuthority
  <2>3. Cardinality(Holders') = Cardinality(Holders) + 1
    BY <2>1, <2>2, HoldersAre, FS_AddElement
  <2> QED BY <1>4, <2>3 DEF HeldExact, ReserveAssets
<1>5. ASSUME NEW t \in Turns, NEW token \in 1..issued,
             \/ EnterProviderPhase(t, token) \/ RenewClaim(t, token)
             \/ SucceedPlain(t, token)
      PROVE  HeldExact'
  BY <1>1, <1>5 DEF EnterProviderPhase, RenewClaim, SucceedPlain
<1>6. ASSUME NEW t \in Turns, NEW token \in 1..issued, NEW phase \in 0..1,
             Abandon(t, token, phase)
      PROVE  HeldExact'
  BY <1>6, DropKeepsCount DEF Abandon
<1>7. ASSUME NEW t \in Turns, NEW token \in 1..issued, SucceedAssets(t, token)
      PROVE  HeldExact'
  <2>1. \A u \in Turns : u # t => authority'[u] = authority[u]
    BY <1>7 DEF SucceedAssets
  <2>2. authority'[t].state = "committed" /\ authority[t].state = "reserved"
    BY <1>7 DEF SucceedAssets, Authority
  <2>3. held' = held
    BY <1>7 DEF SucceedAssets
  <2> QED BY <1>1, <2>1, <2>2, <2>3 DEF Holding
<1>8. ASSUME NEW t \in Turns, NEW token \in 1..issued, NEW lag \in Lags,
             MarkRecovery(t, token, lag)
      PROVE  HeldExact'
  BY <1>1, <1>8 DEF MarkRecovery
<1>9. ASSUME NEW t \in Turns, NEW doc \in 1..issued, NEW a \in Archives,
             AckAssets(t, doc, a)
      PROVE  HeldExact'
  <2>1. \A u \in Turns : u # t => authority'[u] = authority[u]
    BY <1>9 DEF AckAssets
  <2>2. /\ authority'[t].state = "acked_pending_cleanup"
        /\ authority[t].state = "committed"
    BY <1>9 DEF AckAssets, Authority
  <2>3. held' = held
    BY <1>9 DEF AckAssets
  <2> QED BY <1>1, <2>1, <2>2, <2>3 DEF Holding
<1>10. ASSUME NEW t \in Turns, NEW doc \in 1..issued, NEW a \in Archives,
              NEW lag \in Lags, CompleteAck(t, doc, a, lag)
       PROVE  HeldExact'
  <2>1. t \in Holders
    BY <1>10 DEF CompleteAck, Holders, Holding
  <2>2. Holders' = Holders \ {t}
    BY <1>10 DEF CompleteAck, Holders, Holding
  <2>3. Cardinality(Holders') = Cardinality(Holders) - 1
    BY <2>1, <2>2, HoldersAre, FS_RemoveElement
  <2> QED BY <1>10, <2>3, HoldersAre DEF HeldExact, CompleteAck
<1> QED
  BY <1>2, <1>3, <1>4, <1>5, <1>6, <1>7, <1>8, <1>9, <1>10 DEF Next

-----------------------------------------------------------------------------
(* The theorems. *)

LEMMA StoreStart ==
  ASSUME Init
  PROVE  StoreInv
<1> USE MediaAssumption, MediaConstants DEF Init
<1>1. (CHOOSE d \in Digests : TRUE) \in Digests
  OBVIOUS
<1>2. NoRequest \in Request /\ NoAuthority \in Authority
  BY <1>1 DEF NoRequest, NoAuthority, Request, Authority, Status
<1>3. TypeOK
  <2>1. requests \in [Turns -> Request] /\ authority \in [Turns -> Authority]
    BY <1>2
  <2>2. held \in Int /\ issued \in 0..MaxTokens /\ 0 <= Forever
    BY DEF Forever
  <2> QED BY <2>1, <2>2 DEF TypeOK, NoRequest, NoAuthority
<1>4. AuthorityMatches
  BY DEF AuthorityMatches, NoRequest, NoAuthority
<1>5. Holders = {}
  BY DEF Holders, Holding, NoAuthority
<1> QED
  BY <1>3, <1>4, <1>5, FS_EmptySet DEF StoreInv, HeldExact

LEMMA StoreStep ==
  ASSUME StoreInv, [Next]_vars
  PROVE  StoreInv'
<1>1. CASE Next
  <2>1. \A t \in Turns : RowOK(requests'[t], authority'[t])
    BY <1>1, RowsOfInv, NextRow, RowKept DEF StoreInv
  <2>2. TypeOK' /\ AuthorityMatches'
    BY <1>1, <2>1, InvOfRows DEF StoreInv
  <2> QED BY <1>1, <2>2, HeldStep DEF StoreInv
<1>2. CASE UNCHANGED vars
  BY <1>2 DEF vars, StoreInv, TypeOK, AuthorityMatches, HeldExact, Holders
<1> QED BY <1>1, <1>2

\* The two tables and the counter are in order after any calls, whatever the
\* number of purchases, the limits and the lags.
THEOREM StoreCorrect == Spec => []StoreInv
<1>1. Init => StoreInv
  BY StoreStart
<1>2. StoreInv /\ [Next]_vars => StoreInv'
  BY StoreStep
<1> QED BY <1>1, <1>2, PTL DEF Spec

\* Every row keeps its type, and its columns agree.
THEOREM RowsTyped == Spec => []TypeOK
BY StoreCorrect, PTL DEF StoreInv

\* A row and its authority never disagree on what is held for a purchase.
THEOREM TablesAgree == Spec => []AuthorityMatches
BY StoreCorrect, PTL DEF StoreInv

\* The counter of the room counts the rows that hold room, and stays in its
\* limit, through cascades, acknowledgements and prunings.
THEOREM RoomIsCounted == Spec => []HeldExact
BY StoreCorrect, PTL DEF StoreInv

\* An outcome stays on record, unchanged, for as long as its assets are held or
\* it has not expired: of the steps of a row only a deletion forgets one.
THEOREM EvidenceStays == Spec => EvidenceIsKept
<1>1. ASSUME StoreInv, Next, NEW t \in Turns,
             requests[t].status \in {"succeeded", "recovery_required"},
             authority[t].state \in Holding \/ requests[t].keep > 0
      PROVE  /\ requests'[t].status = requests[t].status
             /\ requests'[t].doc = requests[t].doc
  <2>1. RowOK(requests[t], authority[t]) /\ RowStep(t)
    BY <1>1, RowsOfInv, NextRow DEF StoreInv
  <2>2. requests[t] \in Request /\ requests[t].keep \in Int
    BY <2>1 DEF RowOK, Request
  <2>3. ~ RowDropped(t)
    BY <1>1, <2>2 DEF RowDropped, Disposable
  <2>4. RowSame(t) \/ RowAged(t) \/ RowAcked(t) \/ RowCleaned(t)
    BY <1>1, <2>1, <2>3 DEF RowStep, RowConcluded, RowInserted, RowReclaimed,
       RowReserved, RowEntered, RowRenewed, RowAbandoned, RowAnswered,
       RowAnsweredAssets
  <2> QED
    BY <1>1, <2>2, <2>4 DEF RowSame, RowAged, Aged, RowAcked, RowCleaned,
                            Request
<1>2. StoreInv /\ [Next]_vars =>
        [\A t \in Turns :
           /\ requests[t].status \in {"succeeded", "recovery_required"}
           /\ authority[t].state \in Holding \/ requests[t].keep > 0
           => /\ requests'[t].status = requests[t].status
              /\ requests'[t].doc = requests[t].doc]_vars
  BY <1>1
<1> QED BY <1>2, StoreCorrect, PTL DEF Spec, EvidenceIsKept

\* An acknowledgement outlives every step but the deletion of its purchase,
\* which waits until the acknowledged bytes are gone.
THEOREM AckStays == Spec => AckIsFinal
<1>1. ASSUME StoreInv, Next, NEW t \in Turns,
             authority[t].archive # NoArchive
      PROVE  \/ authority'[t].archive = authority[t].archive
             \/ authority[t].state = "acked" /\ authority'[t].state = "none"
  <2>1. RowOK(requests[t], authority[t]) /\ RowStep(t)
    BY <1>1, RowsOfInv, NextRow DEF StoreInv
  <2>2. /\ authority[t] \in Authority
        /\ authority[t].state \in {"acked_pending_cleanup", "acked"}
        /\ requests[t].status = "succeeded"
    BY <1>1, <2>1 DEF RowOK
  <2>3. CASE RowDropped(t)
    BY <2>2, <2>3 DEF RowDropped, Disposable, Holding, NoAuthority
  <2>4. CASE RowSame(t) \/ RowAged(t)
    BY <2>4 DEF RowSame, RowAged
  <2>5. CASE RowCleaned(t)
    BY <2>2, <2>5 DEF RowCleaned, Authority
  <2> QED
    BY <2>1, <2>2, <2>3, <2>4, <2>5 DEF RowStep, RowConcluded, RowInserted,
       RowReclaimed, RowReserved, RowEntered, RowRenewed, RowAbandoned,
       RowAnswered, RowAnsweredAssets, RowAcked
<1>2. StoreInv /\ [Next]_vars =>
        [\A t \in Turns :
           /\ authority[t].archive # NoArchive
           => \/ authority'[t].archive = authority[t].archive
              \/ authority[t].state = "acked" /\ authority'[t].state = "none"]_vars
  BY <1>1
<1> QED BY <1>2, StoreCorrect, PTL DEF Spec, AckIsFinal

-----------------------------------------------------------------------------
(* The refinement of PurchasePromise, a row at a time. *)

StageOf(r) ==
  CASE r.status = "succeeded" -> "answered"
    [] r.status = "recovery_required" -> "unknown"
    [] r.status = "processing" /\ r.phase = 1 -> "paying"
    [] OTHER -> "open"

Buyer(r) == r.token * r.phase

Kept(r, a) ==
  /\ r.status \in {"succeeded", "recovery_required"}
  /\ a.state \in Holding \/ r.keep > 0

\* The purchase of a row that is in order, without the product.
LEMMA PurchaseOf ==
  ASSUME NEW r, NEW a, RowOK(r, a)
  PROVE  /\ StageOf(r) = IF r.status = "succeeded" THEN "answered"
                       ELSE IF r.status = "recovery_required" THEN "unknown"
                       ELSE IF r.phase = 1 THEN "paying" ELSE "open"
         /\ Buyer(r) = IF r.status = "processing" /\ r.phase = 1 THEN r.token
                       ELSE 0
         /\ r.status = "processing" => r.token # 0
<1>1. r.token \in Int /\ r.phase \in {0, 1} /\ r.status \in Status
  BY MediaAssumption, MediaConstants DEF RowOK, Request
<1>2. r.status = "absent" => r.phase = 0
  BY DEF RowOK, NoRequest
<1>3. r.status # "processing" => r.token = 0
  BY DEF RowOK
<1>4. CASE r.phase = 1
  <2>1. Buyer(r) = r.token
    BY <1>1, <1>4 DEF Buyer
  <2> QED BY <1>1, <1>2, <1>3, <1>4, <2>1 DEF StageOf, Status, RowOK
<1>5. CASE r.phase = 0
  <2>1. Buyer(r) = 0
    BY <1>1, <1>5 DEF Buyer
  <2>2. r.status \in {"absent", "processing"}
    BY <1>1, <1>5 DEF RowOK, Status
  <2> QED BY <1>5, <2>1, <2>2 DEF StageOf, RowOK
<1> QED BY <1>1, <1>4, <1>5

\* A row that is inserted or deleted is a purchase nobody pays for.
LEMMA OpenRows ==
  /\ StageOf(NoRequest) = "open" /\ Buyer(NoRequest) = 0
  /\ \A a : ~ Kept(NoRequest, a)
  /\ \A r : Fresh(r) => /\ StageOf(r) = "open" /\ Buyer(r) = 0
                        /\ r.status = "processing"
<1>1. NoRequest.status = "absent" /\ NoRequest.phase = 0 /\ NoRequest.token = 0
  BY DEF NoRequest
<1>2. ASSUME NEW r, Fresh(r)
      PROVE  r.status = "processing" /\ r.phase = 0 /\ r.token \in Int
  <2>1. PICK d \in Digests, k \in 1..MaxTokens, l \in Int :
          r = [NoRequest EXCEPT !.status = "processing", !.digest = d,
                                !.token = k, !.lease = l]
    BY <1>2 DEF Fresh
  <2> QED BY <2>1, MediaAssumption, MediaConstants DEF NoRequest
<1> QED BY <1>1, <1>2 DEF StageOf, Buyer, Kept

\* The six ways of PurchasePromise, for one row.
Purchases(r, a, r2, a2) ==
  \/ StageOf(r2) = StageOf(r) /\ Buyer(r2) = Buyer(r) /\ Kept(r2, a2) = Kept(r, a)
  \/ /\ StageOf(r) = "open" /\ StageOf(r2) = "paying"
     /\ Buyer(r2) # 0 /\ Kept(r2, a2) = Kept(r, a)
  \/ /\ StageOf(r) = "paying" /\ StageOf(r2) = "open"
     /\ Buyer(r2) = 0 /\ ~ Kept(r2, a2)
  \/ /\ StageOf(r) = "paying" /\ StageOf(r2) \in {"answered", "unknown"}
     /\ Buyer(r2) = 0
  \/ /\ StageOf(r) \in {"answered", "unknown"} /\ StageOf(r2) = StageOf(r)
     /\ Buyer(r2) = Buyer(r) /\ Kept(r, a) /\ ~ Kept(r2, a2)
  \/ /\ StageOf(r) \in {"answered", "unknown"} /\ StageOf(r2) = "open"
     /\ Buyer(r2) = 0 /\ ~ Kept(r, a) /\ ~ Kept(r2, a2)

LEMMA RowPurchases ==
  ASSUME NEW t \in Turns, RowOK(requests[t], authority[t]), RowStep(t),
         RowOK(requests'[t], authority'[t])
  PROVE  Purchases(requests[t], authority[t], requests'[t], authority'[t])
<1> DEFINE r == requests[t]
           a == authority[t]
           s == requests'[t]
           b == authority'[t]
<1>1. /\ r \in Request /\ r.status \in Status /\ r.phase \in {0, 1}
      /\ r.keep \in Int
  BY DEF RowOK, Request
<1>2. /\ StageOf(r) = IF r.status = "succeeded" THEN "answered"
                    ELSE IF r.status = "recovery_required" THEN "unknown"
                    ELSE IF r.phase = 1 THEN "paying" ELSE "open"
      /\ Buyer(r) = IF r.status = "processing" /\ r.phase = 1 THEN r.token
                    ELSE 0
      /\ r.status = "processing" => r.token # 0
  BY PurchaseOf
<1>3. /\ StageOf(s) = IF s.status = "succeeded" THEN "answered"
                    ELSE IF s.status = "recovery_required" THEN "unknown"
                    ELSE IF s.phase = 1 THEN "paying" ELSE "open"
      /\ Buyer(s) = IF s.status = "processing" /\ s.phase = 1 THEN s.token
                    ELSE 0
      /\ s.status = "processing" => s.token # 0
  BY PurchaseOf
<1>4. r.status = "absent" => r.phase = 0
  BY DEF RowOK, NoRequest
<1>5. ASSUME s = r, b = a PROVE Purchases(r, a, s, b)
  BY <1>5 DEF Purchases
<1>6. ASSUME s.status = "processing", r.status = "processing",
             s.token = r.token, s.phase = r.phase
      PROVE  Purchases(r, a, s, b)
  BY <1>2, <1>3, <1>6 DEF Purchases, Kept
<1>7. CASE RowSame(t)
  BY <1>5, <1>7 DEF RowSame
<1>8. CASE RowConcluded(t)
  <2>1. s.status = "recovery_required"
    BY <1>1, <1>8 DEF RowConcluded, Concluded, Request
  <2> QED BY <1>2, <1>3, <1>8, <2>1 DEF RowConcluded, Purchases
<1>9. CASE RowDropped(t)
  <2>1. StageOf(s) = "open" /\ Buyer(s) = 0 /\ ~ Kept(s, b)
    BY <1>9, OpenRows DEF RowDropped, Kept
  <2>2. CASE r.status = "processing"
    BY <1>1, <1>2, <2>1, <2>2 DEF Purchases, Kept
  <2>3. CASE r.status # "processing"
    BY <1>1, <1>2, <1>9, <2>1, <2>3 DEF RowDropped, Disposable, Purchases, Kept
  <2> QED BY <2>2, <2>3
<1>10. CASE RowInserted(t)
  <2>1. StageOf(s) = "open" /\ Buyer(s) = 0 /\ ~ Kept(s, b)
    BY <1>10, OpenRows DEF RowInserted, Kept
  <2> QED BY <1>2, <1>4, <1>10, <2>1 DEF RowInserted, Purchases, Kept
<1>11. CASE RowReclaimed(t)
  <2>1. s.status = "processing" /\ s.phase = 0
    BY <1>1, <1>11 DEF RowReclaimed, Reclaimed, Request
  <2> QED BY <1>2, <1>3, <1>11, <2>1 DEF RowReclaimed, Purchases, Kept
<1>12. CASE RowAged(t)
  <2>1. /\ s.status = r.status /\ s.token = r.token /\ s.phase = r.phase
        /\ b = a
    BY <1>1, <1>12 DEF RowAged, Aged, Request
  <2>2. r.status # "processing" => s.keep <= r.keep /\ s.keep \in Int
    BY <1>1, <1>12 DEF RowAged, Aged, Request
  <2>3. CASE r.status = "processing"
    BY <1>6, <2>1, <2>3
  <2>4. CASE r.status # "processing"
    <3>1. r.status \in {"succeeded", "recovery_required"}
      BY <1>1, <1>12, <2>4 DEF RowAged, Status
    <3>2. Kept(s, b) => Kept(r, a)
      BY <1>1, <2>1, <2>2, <2>4 DEF Kept
    <3>3. StageOf(s) = StageOf(r) /\ Buyer(s) = Buyer(r)
      BY <1>2, <1>3, <2>1
    <3>4. Kept(r, a) \in BOOLEAN /\ Kept(s, b) \in BOOLEAN
      BY DEF Kept
    <3>5. StageOf(r) \in {"answered", "unknown"}
      BY <1>2, <3>1
    <3> QED BY <3>2, <3>3, <3>4, <3>5 DEF Purchases
  <2> QED BY <2>3, <2>4
<1>13. CASE RowReserved(t)
  BY <1>6, <1>13 DEF RowReserved
<1>14. CASE RowEntered(t)
  <2>1. s.status = "processing" /\ s.phase = 1
    BY <1>1, <1>14 DEF RowEntered, Request
  <2> QED BY <1>2, <1>3, <1>14, <2>1 DEF RowEntered, Purchases, Kept
<1>15. CASE RowRenewed(t)
  <2>1. s.status = "processing" /\ s.token = r.token /\ s.phase = r.phase
    BY <1>1, <1>15 DEF RowRenewed, Request
  <2> QED BY <1>6, <1>15, <2>1 DEF RowRenewed
<1>16. CASE RowAbandoned(t)
  <2>1. StageOf(s) = "open" /\ Buyer(s) = 0 /\ ~ Kept(s, b)
    BY <1>16, OpenRows DEF RowAbandoned
  <2> QED BY <1>1, <1>2, <1>16, <2>1 DEF RowAbandoned, Purchases, Kept
<1>17. CASE RowAnswered(t)
  <2>1. s.status = "succeeded"
    BY <1>1, <1>17 DEF RowAnswered, SucceededWith, Request
  <2> QED BY <1>2, <1>3, <1>17, <2>1 DEF RowAnswered, Purchases
<1>18. CASE RowAnsweredAssets(t)
  <2>1. s.status = "succeeded"
    BY <1>1, <1>18 DEF RowAnsweredAssets, SucceededWith, Request
  <2> QED BY <1>2, <1>3, <1>18, <2>1 DEF RowAnsweredAssets, Purchases
<1>19. CASE RowAcked(t)
  <2>1. s = r /\ a.state \in Holding /\ b.state \in Holding
    BY <1>19 DEF RowAcked, Holding, RowOK, Authority
  <2> QED BY <2>1 DEF Purchases, Kept
<1>20. CASE RowCleaned(t)
  <2>1. r.status = "succeeded" /\ Kept(r, a)
    BY <1>20 DEF RowCleaned, RowOK, Holding, Kept
  <2>2. s.status = "succeeded"
    BY <1>1, <1>20, <2>1 DEF RowCleaned, Request
  <2>3. Kept(s, b) \in BOOLEAN
    BY DEF Kept
  <2> QED BY <1>2, <1>3, <2>1, <2>2, <2>3 DEF Purchases
<1> QED
  BY <1>7, <1>8, <1>9, <1>10, <1>11, <1>12, <1>13, <1>14, <1>15, <1>16,
     <1>17, <1>18, <1>19, <1>20 DEF RowStep

\* The store keeps the promise of PurchasePromise: of two calls for the same
\* purchase at most one pays, and no outcome is forgotten that must be kept.
THEOREM PurchasesKept == Spec => KeepsPurchases
<1> DEFINE stage == [t \in Turns |->
             CASE requests[t].status = "succeeded" -> "answered"
               [] requests[t].status = "recovery_required" -> "unknown"
               [] requests[t].status = "processing" /\ requests[t].phase = 1
                    -> "paying"
               [] OTHER -> "open"]
           buyer == [t \in Turns |-> requests[t].token * requests[t].phase]
           kept == [t \in Turns |->
             /\ requests[t].status \in {"succeeded", "recovery_required"}
             /\ authority[t].state \in Holding \/ requests[t].keep > 0]
<1>1. Init => Purchase!Init
  <2> SUFFICES ASSUME Init PROVE Purchase!Init
    OBVIOUS
  <2>1. \A t \in Turns : requests[t] = NoRequest
    BY DEF Init
  <2>2. /\ NoRequest.status = "absent" /\ NoRequest.phase = 0
        /\ NoRequest.token = 0
    BY DEF NoRequest
  <2>3. stage = [t \in Turns |-> "open"]
    BY <2>1, <2>2
  <2>4. buyer = [t \in Turns |-> 0]
    BY <2>1, <2>2
  <2>5. kept = [t \in Turns |-> FALSE]
    BY <2>1, <2>2
  <2> QED BY <2>3, <2>4, <2>5 DEF Purchase!Init
<1>2. StoreInv /\ [Next]_vars => [Purchase!Next]_(Purchase!pvars)
  <2> SUFFICES ASSUME StoreInv, [Next]_vars
               PROVE  [Purchase!Next]_(Purchase!pvars)
    OBVIOUS
  <2>1. CASE UNCHANGED vars
    BY <2>1 DEF vars, Purchase!pvars
  <2>2. CASE Next
    <3>1. \A t \in Turns : /\ stage[t] = StageOf(requests[t])
                           /\ buyer[t] = Buyer(requests[t])
                           /\ kept[t] = Kept(requests[t], authority[t])
      BY DEF StageOf, Buyer, Kept
    <3>2. \A t \in Turns : /\ stage'[t] = StageOf(requests'[t])
                           /\ buyer'[t] = Buyer(requests'[t])
                           /\ kept'[t] = Kept(requests'[t], authority'[t])
      BY DEF StageOf, Buyer, Kept
    <3>3. ASSUME NEW t \in Turns
          PROVE  Purchases(requests[t], authority[t],
                           requests'[t], authority'[t])
      BY <2>2, RowsOfInv, NextRow, RowKept, RowPurchases DEF StoreInv
    <3>4. ASSUME NEW t \in Turns
          PROVE  \/ Purchase!Same(t) \/ Purchase!Buy(t) \/ Purchase!Undo(t)
                 \/ Purchase!Settle(t) \/ Purchase!Release(t)
                 \/ Purchase!Forget(t)
      <4> DEFINE r == requests[t]
                 a == authority[t]
                 s == requests'[t]
                 b == authority'[t]
      <4>1. Purchase!Same(t)
            <=> /\ StageOf(s) = StageOf(r) /\ Buyer(s) = Buyer(r)
                /\ Kept(s, b) = Kept(r, a)
        <5>1. Purchase!Same(t)
              <=> /\ stage'[t] = stage[t] /\ buyer'[t] = buyer[t]
                  /\ kept'[t] = kept[t]
          BY Zenon DEF Purchase!Same
        <5> HIDE DEF stage, buyer, kept
        <5> QED BY <5>1, <3>1, <3>2, Zenon
      <4>2. Purchase!Buy(t)
            <=> /\ StageOf(r) = "open" /\ StageOf(s) = "paying"
                /\ Buyer(s) # 0 /\ Kept(s, b) = Kept(r, a)
        BY <3>1, <3>2 DEF Purchase!Buy, Purchase!Moves
      <4>3. Purchase!Undo(t)
            <=> /\ StageOf(r) = "paying" /\ StageOf(s) = "open"
                /\ Buyer(s) = 0 /\ ~ Kept(s, b)
        BY <3>1, <3>2 DEF Purchase!Undo, Purchase!Moves
      <4>4. Purchase!Settle(t)
            <=> /\ StageOf(r) = "paying" /\ StageOf(s) \in {"answered", "unknown"}
                /\ Buyer(s) = 0
        BY <3>1, <3>2 DEF Purchase!Settle, Purchase!Moves
      <4>5. Purchase!Release(t)
            <=> /\ StageOf(r) \in {"answered", "unknown"} /\ StageOf(s) = StageOf(r)
                /\ Buyer(s) = Buyer(r) /\ Kept(r, a) /\ ~ Kept(s, b)
        <5>1. Purchase!Release(t)
              <=> /\ stage[t] \in {"answered", "unknown"}
                  /\ stage'[t] = stage[t] /\ buyer'[t] = buyer[t]
                  /\ kept[t] /\ ~ kept'[t]
          BY Zenon DEF Purchase!Release
        <5> HIDE DEF stage, buyer, kept
        <5> QED BY <5>1, <3>1, <3>2, Zenon
      <4>6. Purchase!Forget(t)
            <=> /\ StageOf(r) \in {"answered", "unknown"} /\ StageOf(s) = "open"
                /\ Buyer(s) = 0 /\ ~ Kept(r, a) /\ ~ Kept(s, b)
        BY <3>1, <3>2 DEF Purchase!Forget, Purchase!Moves
      <4> QED
        BY <3>3, <4>1, <4>2, <4>3, <4>4, <4>5, <4>6 DEF Purchases
    <3>5. stage' \in [Turns -> Purchase!Stages]
      BY DEF Purchase!Stages
    <3> QED BY <3>4, <3>5 DEF Purchase!Next
  <2> QED BY <2>1, <2>2
<1> QED BY <1>1, <1>2, StoreCorrect, PTL DEF Spec, KeepsPurchases, Purchase!Spec

-----------------------------------------------------------------------------
(* The store of assets.  What keeps its rows and files together is who     *)
(* stages what, and how far it has come: a token is staged once, for one   *)
(* purchase.                                                               *)

Over == {"done", "failed"}

\* A tombstone is of the thread that stages its token, and a file that is yet
\* to be moved has one.
Staging(k) ==
  /\ pending[k].on => /\ pending[k].turn = stager[k].turn
                      /\ stager[k].at \in {"pending", "moved", "failed"}
  /\ stager[k].at = "pending" /\ disk[k] = "staged" => pending[k].on

\* The asset of a purchase was staged for it, and nobody stages it any more.
Registered(t) ==
  LET k == assets[t] IN
  k # 0 => /\ stager[k].turn = t /\ stager[k].at \in Over /\ ~ pending[k].on
           /\ reservations[t].state # "none"

\* So it is with what was acknowledged, and its file goes before its row.
Acknowledged(t) ==
  LET k == receipts[t].tokens IN
  /\ k # 0 => /\ stager[k].turn = t /\ stager[k].at \in Over /\ ~ pending[k].on
              /\ assets[t] = k => reservations[t].state = "acked"
              /\ assets[t] # k => disk[k] = "none"
  /\ reservations[t].state = "acked" =>
       k # 0 /\ assets[t] = k /\ reservations[t].tokens = k

Draining(t) ==
  t \in drained => reservations[t].state = "acked" /\ Reading(t) = {}

Leased(r) ==
  pins[r].left > 0 =>
    pins[r].token # 0 /\ \E t \in Turns : assets[t] = pins[r].token

\* The inductive invariant of the store of assets.
AssetInv ==
  /\ FilesAreKept
  /\ \A k \in Tokens : Staging(k)
  /\ \A t \in Turns : Registered(t) /\ Acknowledged(t) /\ Draining(t)
  /\ \A r \in Readers : Leased(r)

\* The types of the rows and files.
Columns ==
  /\ reservations \in [Turns -> Reservation]
  /\ total \in Int
  /\ assets \in [Turns -> 0..MaxTokens]
  /\ pending \in [Tokens -> Pending]
  /\ receipts \in [Turns -> Receipt]
  /\ disk \in [Tokens -> {"none", "staged", "object"}]
  /\ stager \in [Tokens -> Stager]
  /\ pins \in [Readers -> Pin]
  /\ drained \subseteq Turns

\* Every step keeps the type of the rows.
LEMMA AssetTypes ==
  ASSUME Columns, AssetNext
  PROVE  Columns'
<1> USE AssetAssumption, MediaConstants DEF Columns, Tokens
<1>0. 0 \in 0..MaxTokens /\ 0 \in 0..ReadLease /\ 0 \in 0..PendingLease
  OBVIOUS
<1>1. /\ Free \in Reservation /\ Active \in Reservation /\ NoPin \in Pin
      /\ \A k \in Tokens : [state |-> "committed", tokens |-> k] \in Reservation
  BY <1>0 DEF Free, Active, NoPin, Reservation, Pin
<1>2. \A D : /\ Without(D) \in [Tokens -> Pending]
             /\ Erase(D) \in [Tokens -> {"none", "staged", "object"}]
  <2>1. ASSUME NEW D, NEW k \in Tokens
        PROVE  (IF k \in D THEN [pending[k] EXCEPT !.on = FALSE, !.left = 0]
                ELSE pending[k]) \in Pending
    <3>1. pending[k] \in Pending
      OBVIOUS
    <3> QED BY <1>0, <3>1 DEF Pending
  <2> QED BY <2>1 DEF Without, Erase
<1>3. ASSUME NEW k \in Tokens, NEW at, StagerAt(k, at),
             at \in {"idle", "downloaded", "pending", "moved", "done", "failed"}
      PROVE  stager' \in [Tokens -> Stager]
  <2>1. stager[k] \in Stager
    OBVIOUS
  <2>2. [stager[k] EXCEPT !.at = at] \in Stager
    BY <1>3, <2>1 DEF Stager
  <2> QED BY <1>3, <2>2 DEF StagerAt
<1>a. ASSUME AssetTick PROVE Columns'
  <2>1. ASSUME NEW k \in Tokens
        PROVE  (IF pending[k].left > 0 THEN [pending[k] EXCEPT !.left = @ - 1]
                ELSE pending[k]) \in Pending
    <3>1. pending[k] \in Pending
      OBVIOUS
    <3>2. \A n \in 0..PendingLease : n > 0 => n - 1 \in 0..PendingLease
      OBVIOUS
    <3> QED BY <3>1, <3>2 DEF Pending
  <2>2. ASSUME NEW r \in Readers
        PROVE  (IF pins[r].left > 0 THEN [pins[r] EXCEPT !.left = @ - 1]
                ELSE pins[r]) \in Pin
    <3>1. pins[r] \in Pin
      OBVIOUS
    <3>2. \A n \in 0..ReadLease : n > 0 => n - 1 \in 0..ReadLease
      OBVIOUS
    <3> QED BY <3>1, <3>2 DEF Pin
  <2> QED BY <1>a, <2>1, <2>2 DEF AssetTick, assetRows
<1>b. ASSUME Reconcile \/ ReconcileCut PROVE Columns'
  BY <1>b, <1>2 DEF Reconcile, ReconcileCut, assetRows, readVars
<1>c. ASSUME NEW t \in Turns, Reserve(t) \/ Release(t) PROVE Columns'
  BY <1>c, <1>1 DEF Reserve, Release, assetFiles, readVars
<1>d. ASSUME NEW t \in Turns, NEW k \in Tokens, Download(t, k) PROVE Columns'
  BY <1>d DEF Download, Stager, assetRows, readVars
<1>e. ASSUME NEW k \in Tokens, InsertPending(k) PROVE Columns'
  <2>1. stager' \in [Tokens -> Stager]
    BY <1>e, <1>3 DEF InsertPending
  <2>2. /\ stager[k] \in Stager
        /\ [on |-> TRUE, turn |-> stager[k].turn, left |-> PendingLease]
             \in Pending
    BY DEF Stager, Pending
  <2> QED BY <1>e, <2>1, <2>2 DEF InsertPending, assetRows, readVars
<1>f. ASSUME NEW k \in Tokens, Move(k) \/ PromoteFails(k) \/ StageFails(k)
             \/ StageCrash(k)
      PROVE Columns'
  BY <1>f, <1>2, <1>3
     DEF Move, PromoteFails, StageFails, StageCrash, assetRows, readVars
<1>g. ASSUME NEW k \in Tokens, Promote(k) PROVE Columns'
  <2>1. stager' \in [Tokens -> Stager] /\ k \in 0..MaxTokens
    BY <1>g, <1>3 DEF Promote
  <2>2. assets' \in [Turns -> 0..MaxTokens] /\ pending' \in [Tokens -> Pending]
    BY <1>g, <1>2, <2>1 DEF Promote
  <2> QED BY <1>g, <2>1, <2>2 DEF Promote, readVars
<1>h. ASSUME NEW t \in Turns, NEW k \in Tokens, Finalize(t, k) PROVE Columns'
  BY <1>h, <1>1 DEF Finalize, assetFiles, readVars
<1>i. ASSUME NEW r \in Readers, NEW t \in Turns, Open(r, t) PROVE Columns'
  BY <1>i DEF Open, Pin, assetRows, assetFiles
<1>j. ASSUME NEW r \in Readers, Close(r) PROVE Columns'
  BY <1>j, <1>1 DEF Close, assetRows, assetFiles
<1>k. ASSUME NEW t \in Turns, NEW k \in Tokens, NEW a \in Archives,
             AckReceipt(t, k, a)
      PROVE Columns'
  BY <1>k DEF AckReceipt, Receipt, Reservation, assetFiles, readVars
<1>l. ASSUME NEW t \in Turns, AckWait(t) \/ AckErase(t) PROVE Columns'
  BY <1>l, <1>2 DEF AckWait, AckErase, assetRows, assetFiles, readVars
<1>m. ASSUME NEW t \in Turns, AckRemove(t) PROVE Columns'
  <2>1. ASSUME NEW r \in Readers
        PROVE  (IF pins[r].token = assets[t] THEN [pins[r] EXCEPT !.left = 0]
                ELSE pins[r]) \in Pin
    <3>1. pins[r] \in Pin
      OBVIOUS
    <3> QED BY <1>0, <3>1 DEF Pin
  <2> QED BY <1>m, <1>0, <1>1, <2>1 DEF AckRemove, assetFiles
<1> QED
  BY <1>a, <1>b, <1>c, <1>d, <1>e, <1>f, <1>g, <1>h, <1>i, <1>j, <1>k, <1>l,
     <1>m
     DEF AssetNext

\* The invariant of a purchase, a token and a download.
PurchaseOK(t) ==
  /\ reservations[t].tokens # 0 <=>
       reservations[t].state \in {"committed", "acked"}
  /\ assets[t] # 0 /\ reservations[t].state # "acked"
       => disk[assets[t]] = "object"
  /\ reservations[t].state = "committed" => assets[t] = reservations[t].tokens
  /\ Registered(t) /\ Acknowledged(t) /\ Draining(t)

FileOK(k) ==
  /\ pending[k].on => /\ pending[k].turn \in Turns
                      /\ reservations[pending[k].turn].state = "active"
  /\ stager[k].at # "idle" => stager[k].turn \in Turns
  /\ disk[k] = "object" => pending[k].on \/ \E t \in Turns : assets[t] = k
  /\ Staging(k)

ReaderOK(r) ==
  pins[r].left > 0 =>
    /\ disk[pins[r].token] = "object" /\ pins[r].token # 0
    /\ \E t \in Turns : assets[t] = pins[r].token

\* The invariant is about the counter of the room and, one by one, the
\* purchases, the tokens and the downloads.
LEMMA InvByParts ==
  AssetInv <=> /\ Columns /\ TotalExact
               /\ \A t \in Turns : PurchaseOK(t)
               /\ \A k \in Tokens : FileOK(k)
               /\ \A r \in Readers : ReaderOK(r)
BY
   DEF AssetInv, FilesAreKept, FilesInv, ReadersKeepTheirFile, AssetTypeOK,
       Columns,
       AssetHasBytes, ObjectsAreTracked, PurchaseOK, FileOK, ReaderOK, Leased

Parts == /\ \A t \in Turns : PurchaseOK(t)
         /\ \A k \in Tokens : FileOK(k)
         /\ \A r \in Readers : ReaderOK(r)

\* The tokens that rows name.
LEMMA NamedTokens ==
  ASSUME Columns
  PROVE  /\ \A t \in Turns : assets[t] # 0 => assets[t] \in Tokens
         /\ \A t \in Turns : receipts[t].tokens # 0 => receipts[t].tokens \in Tokens
         /\ \A r \in Readers : pins[r].token # 0 => pins[r].token \in Tokens
         /\ 0 \notin Tokens
BY MediaConstants DEF Columns, Tokens, Receipt, Pin

\* Reconciliation takes the files of tombstones only, and no registered asset
\* or acknowledged one has a tombstone.
LEMMA ReconcileParts ==
  ASSUME Columns, Parts, Reconcile
  PROVE  Parts'
<1>1. /\ reservations' = reservations /\ assets' = assets /\ stager' = stager
      /\ receipts' = receipts /\ pins' = pins /\ drained' = drained
  BY DEF Reconcile, assetRows, readVars
<1>2. ASSUME NEW k \in Tokens
      PROVE  /\ k \in Expired => /\ pending[k].on /\ ~ pending'[k].on
                                 /\ disk'[k] = "none"
             /\ k \notin Expired => /\ pending'[k] = pending[k]
                                    /\ disk'[k] = disk[k]
             /\ pending'[k].turn = pending[k].turn
  <2>1. pending[k] \in Pending
    BY DEF Columns
  <2> QED BY <2>1 DEF Reconcile, Without, Erase, Expired, Pending
<1>3. \A t \in Turns : /\ assets[t] # 0 => assets[t] \notin Expired
                       /\ receipts[t].tokens # 0 =>
                            receipts[t].tokens \notin Expired
  BY <1>2, NamedTokens DEF Parts, PurchaseOK, Registered, Acknowledged
<1>4. ASSUME NEW t \in Turns PROVE PurchaseOK(t)'
  <2>1. PurchaseOK(t)
    BY DEF Parts
  <2> QED BY <1>1, <1>2, <1>3, <2>1, NamedTokens
          DEF PurchaseOK, Registered, Acknowledged, Draining, Reading
<1>5. ASSUME NEW k \in Tokens PROVE FileOK(k)'
  <2>1. FileOK(k)
    BY DEF Parts
  <2> QED BY <1>1, <1>2, <2>1 DEF FileOK, Staging
<1>6. ASSUME NEW r \in Readers PROVE ReaderOK(r)'
  <2>1. ReaderOK(r)
    BY DEF Parts
  <2> QED BY <1>1, <1>2, <1>3, <2>1, NamedTokens DEF ReaderOK
<1> QED BY <1>4, <1>5, <1>6 DEF Parts

\* What is released has no asset and no tombstone.
LEMMA ReleaseParts ==
  ASSUME Columns, Parts, NEW t \in Turns, Release(t)
  PROVE  Parts'
<1>1. /\ assets' = assets /\ stager' = stager /\ receipts' = receipts
      /\ pins' = pins /\ drained' = drained /\ pending' = pending
      /\ disk' = disk
  BY DEF Release, assetFiles, readVars
<1>2. /\ \A k \in Tokens : ~ (pending[k].on /\ pending[k].turn = t)
      /\ reservations[t].state = "active" /\ assets[t] = 0
  BY DEF Release, Releasable, PendingOf
<1>3. /\ \A u \in Turns : u # t => reservations'[u] = reservations[u]
      /\ reservations'[t].state = "none" /\ reservations'[t].tokens = 0
  BY DEF Release, Free, Columns
<1>4. ASSUME NEW u \in Turns PROVE PurchaseOK(u)'
  <2>1. PurchaseOK(u)
    BY DEF Parts
  <2> QED BY <1>1, <1>2, <1>3, <2>1
          DEF PurchaseOK, Registered, Acknowledged, Draining, Reading
<1>5. ASSUME NEW k \in Tokens PROVE FileOK(k)'
  <2>1. FileOK(k)
    BY DEF Parts
  <2> QED BY <1>1, <1>2, <1>3, <2>1 DEF FileOK, Staging
<1>6. ASSUME NEW r \in Readers PROVE ReaderOK(r)'
  BY <1>1 DEF Parts, ReaderOK
<1> QED BY <1>4, <1>5, <1>6 DEF Parts

\* What is finished is registered and has no tombstone.
LEMMA FinalizeParts ==
  ASSUME Columns, Parts, NEW t \in Turns, NEW k \in Tokens, Finalize(t, k)
  PROVE  Parts'
<1>1. /\ assets' = assets /\ stager' = stager /\ receipts' = receipts
      /\ pins' = pins /\ drained' = drained /\ pending' = pending
      /\ disk' = disk
  BY DEF Finalize, assetFiles, readVars
<1>2. /\ \A j \in Tokens : ~ (pending[j].on /\ pending[j].turn = t)
      /\ reservations[t].state = "active" /\ assets[t] = k
  BY DEF Finalize, PendingOf
<1>3. /\ \A u \in Turns : u # t => reservations'[u] = reservations[u]
      /\ reservations'[t].state = "committed" /\ reservations'[t].tokens = k
  BY DEF Finalize, Columns
<1>4. ASSUME NEW u \in Turns PROVE PurchaseOK(u)'
  <2>1. PurchaseOK(u)
    BY DEF Parts
  <2> QED BY <1>1, <1>2, <1>3, <2>1, NamedTokens
          DEF PurchaseOK, Registered, Acknowledged, Draining, Reading
<1>5. ASSUME NEW j \in Tokens PROVE FileOK(j)'
  <2>1. FileOK(j)
    BY DEF Parts
  <2> QED BY <1>1, <1>2, <1>3, <2>1 DEF FileOK, Staging
<1>6. ASSUME NEW r \in Readers PROVE ReaderOK(r)'
  BY <1>1 DEF Parts, ReaderOK
<1> QED BY <1>4, <1>5, <1>6 DEF Parts

\* A token that is downloaded was never used, so no row names it.
LEMMA DownloadParts ==
  ASSUME Columns, Parts, NEW t \in Turns, NEW k \in Tokens, Download(t, k)
  PROVE  Parts'
<1>1. /\ reservations' = reservations /\ assets' = assets
      /\ pending' = pending /\ receipts' = receipts /\ pins' = pins
      /\ drained' = drained
  BY DEF Download, assetRows, readVars
<1>2. /\ \A j \in Tokens : j # k => disk'[j] = disk[j] /\ stager'[j] = stager[j]
      /\ disk'[k] = "staged"
      /\ stager'[k].turn = t /\ stager'[k].at = "downloaded"
      /\ stager[k].at = "idle"
  BY DEF Download, Columns
<1>3. /\ \A u \in Turns : assets[u] # k /\ receipts[u].tokens # k
      /\ ~ pending[k].on
  BY <1>2, NamedTokens
     DEF Parts, PurchaseOK, FileOK, Registered, Acknowledged, Staging, Over
<1>4. ASSUME NEW u \in Turns PROVE PurchaseOK(u)'
  <2>1. PurchaseOK(u)
    BY DEF Parts
  <2> QED BY <1>1, <1>2, <1>3, <2>1, NamedTokens
          DEF PurchaseOK, Registered, Acknowledged, Draining, Reading
<1>5. ASSUME NEW j \in Tokens PROVE FileOK(j)'
  <2>1. FileOK(j)
    BY DEF Parts
  <2> QED BY <1>1, <1>2, <1>3, <2>1 DEF FileOK, Staging
<1>6. ASSUME NEW r \in Readers PROVE ReaderOK(r)'
  <2>1. ReaderOK(r)
    BY DEF Parts
  <2> QED BY <1>1, <1>2, <1>3, <2>1, NamedTokens DEF ReaderOK
<1> QED BY <1>4, <1>5, <1>6 DEF Parts

\* What is promoted was in the hands of its thread, so no row named it.
LEMMA PromoteParts ==
  ASSUME Columns, Parts, NEW k \in Tokens, Promote(k)
  PROVE  Parts'
<1>1. /\ reservations' = reservations /\ disk' = disk /\ receipts' = receipts
      /\ pins' = pins /\ drained' = drained
  BY DEF Promote, readVars
<1>2. PICK t \in Turns : t = stager[k].turn
  BY DEF Promote, Parts, FileOK
<1>3. /\ reservations[t].state = "active" /\ assets[t] = 0
      /\ stager[k].at = "moved" /\ disk[k] = "object" /\ pending[k].on
  BY <1>2 DEF Promote, Stageable, Intact
<1>4. /\ assets'[t] = k
      /\ \A u \in Turns : u # t => assets'[u] = assets[u]
  BY <1>2 DEF Promote, Columns
<1>5. /\ \A j \in Tokens :
           j # k => pending'[j] = pending[j] /\ stager'[j] = stager[j]
      /\ ~ pending'[k].on
  BY DEF Promote, StagerAt, Without, Columns, Pending
<1>6. stager'[k].turn = t /\ stager'[k].at \in Over
  <2>1. stager[k] \in Stager
    BY DEF Columns
  <2> QED BY <1>2, <2>1 DEF Promote, StagerAt, Columns, Over, Stager
<1>7. \A u \in Turns : assets[u] # k /\ receipts[u].tokens # k
  BY <1>3, NamedTokens
     DEF Parts, PurchaseOK, Registered, Acknowledged, Over
<1>8. ASSUME NEW u \in Turns PROVE PurchaseOK(u)'
  <2>1. PurchaseOK(u)
    BY DEF Parts
  <2>2. Draining(u)'
    BY <1>1, <1>3, <1>4, <2>1 DEF PurchaseOK, Draining, Reading
  <2>3. Registered(u)'
    BY <1>1, <1>3, <1>4, <1>5, <1>6, <1>7, <2>1, NamedTokens
       DEF PurchaseOK, Registered
  <2>4. Acknowledged(u)'
    BY <1>1, <1>3, <1>4, <1>5, <1>6, <1>7, <2>1, NamedTokens
       DEF PurchaseOK, Acknowledged
  <2> QED BY <1>1, <1>3, <1>4, <2>1, <2>2, <2>3, <2>4 DEF PurchaseOK
<1>9. ASSUME NEW j \in Tokens PROVE FileOK(j)'
  <2>1. FileOK(j)
    BY DEF Parts
  <2> QED BY <1>1, <1>2, <1>3, <1>4, <1>5, <1>6, <1>7, <2>1, NamedTokens
          DEF FileOK, Staging, Over
<1>10. ASSUME NEW r \in Readers PROVE ReaderOK(r)'
  <2>1. ReaderOK(r)
    BY DEF Parts
  <2> QED BY <1>1, <1>3, <1>4, <2>1, NamedTokens DEF ReaderOK
<1> QED BY <1>8, <1>9, <1>10 DEF Parts

\* Time ends leases, and ends tombstones only when they are reconciled.
LEMMA AssetTickParts ==
  ASSUME Columns, Parts, AssetTick
  PROVE  Parts'
<1>1. ASSUME NEW u \in Turns PROVE PurchaseOK(u)'
  BY NamedTokens
     DEF Columns, Parts, PurchaseOK, Registered, Acknowledged, Draining,
         Reading, AssetTick, assetRows, Pin
<1>2. ASSUME NEW j \in Tokens PROVE FileOK(j)'
  BY NamedTokens
     DEF Columns, Parts, FileOK, Staging, AssetTick, assetRows, Pending
<1>3. ASSUME NEW q \in Readers PROVE ReaderOK(q)'
  BY NamedTokens
     DEF Columns, Parts, ReaderOK, AssetTick, assetRows, Pin
<1> QED BY <1>1, <1>2, <1>3 DEF Parts

\* A reconciliation that is cut short leaves the tombstones.
LEMMA ReconcileCutParts ==
  ASSUME Columns, Parts, ReconcileCut
  PROVE  Parts'
<1>1. ASSUME NEW u \in Turns PROVE PurchaseOK(u)'
  BY NamedTokens
     DEF Columns, Parts, PurchaseOK, Registered, Acknowledged, Draining,
         Reading, ReconcileCut, Erase, Expired, assetRows, readVars
<1>2. ASSUME NEW j \in Tokens PROVE FileOK(j)'
  BY NamedTokens
     DEF Columns, Parts, FileOK, Staging, ReconcileCut, Erase, Expired,
         assetRows, readVars
<1>3. ASSUME NEW q \in Readers PROVE ReaderOK(q)'
  BY NamedTokens
     DEF Columns, Parts, ReaderOK, ReconcileCut, Erase, Expired, assetRows,
         readVars, PurchaseOK, Registered
<1> QED BY <1>1, <1>2, <1>3 DEF Parts

\* A reservation that is new has nothing yet.
LEMMA ReserveParts ==
  ASSUME Columns, Parts, NEW t \in Turns, Reserve(t)
  PROVE  Parts'
<1>1. ASSUME NEW u \in Turns PROVE PurchaseOK(u)'
  BY NamedTokens
     DEF Columns, Parts, PurchaseOK, Registered, Acknowledged, Draining,
         Reading, Reserve, Active, assetFiles, readVars
<1>2. ASSUME NEW j \in Tokens PROVE FileOK(j)'
  BY NamedTokens
     DEF Columns, Parts, FileOK, Staging, Reserve, Active, assetFiles,
         readVars
<1>3. ASSUME NEW q \in Readers PROVE ReaderOK(q)'
  BY NamedTokens
     DEF Columns, Parts, ReaderOK, Reserve, Active, assetFiles, readVars
<1> QED BY <1>1, <1>2, <1>3 DEF Parts

\* A tombstone is of the purchase its thread stages for.
LEMMA InsertPendingParts ==
  ASSUME Columns, Parts, NEW k \in Tokens, InsertPending(k)
  PROVE  Parts'
<1>1. ASSUME NEW u \in Turns PROVE PurchaseOK(u)'
  BY NamedTokens
     DEF Columns, Parts, PurchaseOK, Registered, Acknowledged, Draining,
         Reading, InsertPending, Stageable, PendingOf, StagerAt, assetRows,
         readVars, Over
<1>2. ASSUME NEW j \in Tokens PROVE FileOK(j)'
  BY NamedTokens
     DEF Columns, Parts, FileOK, Staging, InsertPending, Stageable,
         PendingOf, StagerAt, assetRows, readVars
<1>3. ASSUME NEW q \in Readers PROVE ReaderOK(q)'
  BY NamedTokens
     DEF Columns, Parts, ReaderOK, InsertPending, Stageable, PendingOf,
         StagerAt, assetRows, readVars
<1> QED BY <1>1, <1>2, <1>3 DEF Parts

\* A file that moves has its tombstone.
LEMMA MoveParts ==
  ASSUME Columns, Parts, NEW k \in Tokens, Move(k)
  PROVE  Parts'
<1>1. ASSUME NEW u \in Turns PROVE PurchaseOK(u)'
  BY NamedTokens
     DEF Columns, Parts, PurchaseOK, Registered, Acknowledged, Draining,
         Reading, Move, StagerAt, assetRows, readVars, Over
<1>2. ASSUME NEW j \in Tokens PROVE FileOK(j)'
  BY NamedTokens
     DEF Columns, Parts, FileOK, Staging, Move, StagerAt, assetRows, readVars
<1>3. ASSUME NEW q \in Readers PROVE ReaderOK(q)'
  BY NamedTokens
     DEF Columns, Parts, ReaderOK, Move, StagerAt, assetRows, readVars,
         PurchaseOK, Registered, Over
<1> QED BY <1>1, <1>2, <1>3 DEF Parts

\* A failed promotion deletes the file of a token that no row names.
LEMMA PromoteFailsParts ==
  ASSUME Columns, Parts, NEW k \in Tokens, PromoteFails(k)
  PROVE  Parts'
<1>1. ASSUME NEW u \in Turns PROVE PurchaseOK(u)'
  BY NamedTokens
     DEF Columns, Parts, PurchaseOK, Registered, Acknowledged, Draining,
         Reading, PromoteFails, Erase, StagerAt, assetRows, readVars, Over
<1>2. ASSUME NEW j \in Tokens PROVE FileOK(j)'
  BY NamedTokens
     DEF Columns, Parts, FileOK, Staging, PromoteFails, Erase, StagerAt,
         assetRows, readVars
<1>3. ASSUME NEW q \in Readers PROVE ReaderOK(q)'
  BY NamedTokens
     DEF Columns, Parts, ReaderOK, PromoteFails, Erase, StagerAt, assetRows,
         readVars, PurchaseOK, Registered, Over
<1> QED BY <1>1, <1>2, <1>3 DEF Parts

\* A failed staging deletes no object.
LEMMA StageFailsParts ==
  ASSUME Columns, Parts, NEW k \in Tokens, StageFails(k)
  PROVE  Parts'
<1>1. ASSUME NEW u \in Turns PROVE PurchaseOK(u)'
  BY NamedTokens
     DEF Columns, Parts, PurchaseOK, Registered, Acknowledged, Draining,
         Reading, StageFails, Erase, StagerAt, assetRows, readVars, Over
<1>2. ASSUME NEW j \in Tokens PROVE FileOK(j)'
  BY NamedTokens
     DEF Columns, Parts, FileOK, Staging, StageFails, Erase, StagerAt,
         assetRows, readVars
<1>3. ASSUME NEW q \in Readers PROVE ReaderOK(q)'
  BY NamedTokens
     DEF Columns, Parts, ReaderOK, StageFails, Erase, StagerAt, assetRows,
         readVars, PurchaseOK, Registered, Over
<1> QED BY <1>1, <1>2, <1>3 DEF Parts

\* A crash leaves the files, and the tombstone with them.
LEMMA StageCrashParts ==
  ASSUME Columns, Parts, NEW k \in Tokens, StageCrash(k)
  PROVE  Parts'
<1>1. ASSUME NEW u \in Turns PROVE PurchaseOK(u)'
  BY NamedTokens
     DEF Columns, Parts, PurchaseOK, Registered, Acknowledged, Draining,
         Reading, StageCrash, StagerAt, assetRows, readVars, Over
<1>2. ASSUME NEW j \in Tokens PROVE FileOK(j)'
  BY NamedTokens
     DEF Columns, Parts, FileOK, Staging, StageCrash, StagerAt, assetRows,
         readVars
<1>3. ASSUME NEW q \in Readers PROVE ReaderOK(q)'
  BY NamedTokens
     DEF Columns, Parts, ReaderOK, StageCrash, StagerAt, assetRows, readVars
<1> QED BY <1>1, <1>2, <1>3 DEF Parts

\* A lease is on the asset of a finished purchase, which has its bytes.
LEMMA OpenParts ==
  ASSUME Columns, Parts, NEW r \in Readers, NEW t \in Turns, Open(r, t)
  PROVE  Parts'
<1>1. ASSUME NEW u \in Turns PROVE PurchaseOK(u)'
  BY NamedTokens
     DEF Columns, Parts, PurchaseOK, Registered, Acknowledged, Draining,
         Reading, Open, Readable, assetRows, assetFiles
<1>2. ASSUME NEW j \in Tokens PROVE FileOK(j)'
  BY NamedTokens
     DEF Columns, Parts, FileOK, Staging, Open, Readable, assetRows,
         assetFiles
<1>3. ASSUME NEW q \in Readers PROVE ReaderOK(q)'
  BY NamedTokens
     DEF Columns, Parts, ReaderOK, Open, Readable, assetRows, assetFiles,
         PurchaseOK
<1> QED BY <1>1, <1>2, <1>3 DEF Parts

\* A download that ends gives up its lease.
LEMMA CloseParts ==
  ASSUME Columns, Parts, NEW r \in Readers, Close(r)
  PROVE  Parts'
<1>1. ASSUME NEW u \in Turns PROVE PurchaseOK(u)'
  BY NamedTokens
     DEF Columns, Parts, PurchaseOK, Registered, Acknowledged, Draining,
         Reading, Close, NoPin, assetRows, assetFiles
<1>2. ASSUME NEW j \in Tokens PROVE FileOK(j)'
  BY NamedTokens
     DEF Columns, Parts, FileOK, Staging, Close, NoPin, assetRows, assetFiles
<1>3. ASSUME NEW q \in Readers PROVE ReaderOK(q)'
  BY NamedTokens
     DEF Columns, Parts, ReaderOK, Close, NoPin, assetRows, assetFiles
<1> QED BY <1>1, <1>2, <1>3 DEF Parts

\* An acknowledgement of a finished purchase names its asset.
LEMMA AckReceiptParts ==
  ASSUME Columns, Parts, NEW t \in Turns, NEW k \in Tokens,
         NEW a \in Archives, AckReceipt(t, k, a)
  PROVE  Parts'
<1>1. ASSUME NEW u \in Turns PROVE PurchaseOK(u)'
  BY NamedTokens
     DEF Columns, Parts, PurchaseOK, Registered, Acknowledged, Draining,
         Reading, AckReceipt, assetFiles, readVars, NoReceipt
<1>2. ASSUME NEW j \in Tokens PROVE FileOK(j)'
  BY NamedTokens
     DEF Columns, Parts, FileOK, Staging, AckReceipt, assetFiles, readVars
<1>3. ASSUME NEW q \in Readers PROVE ReaderOK(q)'
  BY NamedTokens
     DEF Columns, Parts, ReaderOK, AckReceipt, assetFiles, readVars
<1> QED BY <1>1, <1>2, <1>3 DEF Parts

\* Draining begins when nobody reads.
LEMMA AckWaitParts ==
  ASSUME Columns, Parts, NEW t \in Turns, AckWait(t)
  PROVE  Parts'
<1>1. ASSUME NEW u \in Turns PROVE PurchaseOK(u)'
  BY NamedTokens
     DEF Columns, Parts, PurchaseOK, Registered, Acknowledged, Draining,
         Reading, AckWait, OfPurchase, assetRows, assetFiles
<1>2. ASSUME NEW j \in Tokens PROVE FileOK(j)'
  BY NamedTokens
     DEF Columns, Parts, FileOK, Staging, AckWait, OfPurchase, assetRows,
         assetFiles
<1>3. ASSUME NEW q \in Readers PROVE ReaderOK(q)'
  BY NamedTokens
     DEF Columns, Parts, ReaderOK, AckWait, OfPurchase, assetRows, assetFiles
<1> QED BY <1>1, <1>2, <1>3 DEF Parts

\* While it drains nobody can begin to read, so the file may go.
LEMMA AckEraseParts ==
  ASSUME Columns, Parts, NEW t \in Turns, AckErase(t)
  PROVE  Parts'
<1>1. ASSUME NEW u \in Turns PROVE PurchaseOK(u)'
  BY NamedTokens
     DEF Columns, Parts, PurchaseOK, Registered, Acknowledged, Draining,
         Reading, AckErase, Erase, assetRows, readVars
<1>2. ASSUME NEW j \in Tokens PROVE FileOK(j)'
  BY NamedTokens
     DEF Columns, Parts, FileOK, Staging, AckErase, Erase, assetRows,
         readVars, PurchaseOK, Draining
<1>3. ASSUME NEW q \in Readers PROVE ReaderOK(q)'
  BY NamedTokens
     DEF Columns, Parts, ReaderOK, AckErase, Erase, assetRows, readVars,
         PurchaseOK, Draining, Reading, Registered
<1> QED BY <1>1, <1>2, <1>3 DEF Parts

\* When the file is gone its row goes.
LEMMA AckRemoveParts ==
  ASSUME Columns, Parts, NEW t \in Turns, AckRemove(t)
  PROVE  Parts'
<1>1. ASSUME NEW u \in Turns PROVE PurchaseOK(u)'
  BY NamedTokens
     DEF Columns, Parts, PurchaseOK, Registered, Acknowledged, Draining,
         Reading, AckRemove, Free, assetFiles
<1>2. ASSUME NEW j \in Tokens PROVE FileOK(j)'
  BY NamedTokens
     DEF Columns, Parts, FileOK, Staging, AckRemove, Free, assetFiles,
         PurchaseOK, Draining
<1>3. ASSUME NEW q \in Readers PROVE ReaderOK(q)'
  BY NamedTokens
     DEF Columns, Parts, ReaderOK, AckRemove, Free, assetFiles, PurchaseOK
<1> QED BY <1>1, <1>2, <1>3 DEF Parts

\* Every step keeps what each purchase, each token and each download needs.
LEMMA PartsKept ==
  ASSUME Columns, Parts, AssetNext
  PROVE  Parts'
BY AssetTickParts, ReconcileParts, ReconcileCutParts, ReserveParts,
   ReleaseParts, DownloadParts, InsertPendingParts, MoveParts, PromoteParts,
   PromoteFailsParts, StageFailsParts, StageCrashParts, FinalizeParts,
   OpenParts, CloseParts, AckReceiptParts, AckWaitParts, AckEraseParts,
   AckRemoveParts
   DEF AssetNext

\* Room is taken for one purchase and given back for one.
Reserving == {t \in Turns : reservations[t].state # "none"}

\* The counter follows the rows.
LEMMA TotalIsCounted ==
  ASSUME Columns, Columns', Parts, TotalExact, AssetNext
  PROVE  TotalExact'
<1> USE DEF Reserving
<1>1. Reserving \in SUBSET Turns /\ IsFiniteSet(Reserving)
  BY AssetAssumption, FS_Subset
<1>2. /\ Cardinality(Reserving) \in Nat /\ Room \in Nat
      /\ total = Cardinality(Reserving) /\ total <= Room
  BY <1>1, AssetAssumption, FS_CardinalityType DEF TotalExact
<1>3. CASE Reserving' = Reserving /\ total' = total
  BY <1>2, <1>3 DEF TotalExact
<1>4. CASE \E t \in Turns : Reserve(t)
  <2>1. PICK t \in Turns : Reserve(t)
    BY <1>4
  <2>2. t \notin Reserving /\ Reserving' = Reserving \cup {t}
    BY <2>1 DEF Reserve, Active, Columns
  <2>3. Cardinality(Reserving') = Cardinality(Reserving) + 1
    BY <1>1, <2>2, FS_AddElement
  <2> QED BY <1>2, <2>1, <2>3 DEF Reserve, TotalExact
<1>5. CASE \E t \in Turns : Release(t) \/ AckRemove(t)
  <2>1. PICK t \in Turns : Release(t) \/ AckRemove(t)
    BY <1>5
  <2>2. t \in Reserving /\ Reserving' = Reserving \ {t} /\ total' = total - 1
    BY <2>1
       DEF Release, Releasable, AckRemove, Free, Columns, Parts, PurchaseOK,
                Draining
  <2>3. Cardinality(Reserving') = Cardinality(Reserving) - 1
    BY <1>1, <2>2, FS_RemoveElement
  <2>4. total' = Cardinality(Reserving')
    BY <1>2, <2>2, <2>3
  <2>5. total' <= Room
    BY <1>2, <2>2
  <2> QED BY <2>4, <2>5 DEF TotalExact
<1>6. CASE \E t \in Turns, k \in Tokens :
             Finalize(t, k) \/ \E a \in Archives : AckReceipt(t, k, a)
  <2>1. PICK t \in Turns, k \in Tokens :
          Finalize(t, k) \/ \E a \in Archives : AckReceipt(t, k, a)
    BY <1>6
  <2>2. /\ reservations[t].state # "none" /\ reservations'[t].state # "none"
        /\ \A u \in Turns : u # t => reservations'[u] = reservations[u]
        /\ total' = total
    <3>1. CASE Finalize(t, k)
      BY <3>1 DEF Finalize, Columns
    <3>2. CASE \E a \in Archives : AckReceipt(t, k, a)
      BY <3>2 DEF AckReceipt, Columns, Reservation
    <3> QED BY <2>1, <3>1, <3>2
  <2>3. Reserving' = Reserving
    BY <2>2
  <2> QED BY <2>2, <2>3, <1>3
<1>7. CASE reservations' = reservations /\ total' = total
  BY <1>3, <1>7
<1>8. \/ \E t \in Turns : Reserve(t)
      \/ \E t \in Turns : Release(t) \/ AckRemove(t)
      \/ \E t \in Turns, k \in Tokens :
           Finalize(t, k) \/ \E a \in Archives : AckReceipt(t, k, a)
      \/ reservations' = reservations /\ total' = total
  BY
     DEF AssetNext, AssetTick, Reconcile, ReconcileCut, Download,
         InsertPending,
         Move, Promote, PromoteFails, StageFails, StageCrash, Open, Close,
         AckWait, AckErase, assetRows
<1> QED BY <1>4, <1>5, <1>6, <1>7, <1>8

\* Every step of the store keeps its invariant.
LEMMA AssetStep ==
  ASSUME AssetInv, [AssetNext]_assetVars
  PROVE  AssetInv'
<1>1. Columns /\ TotalExact /\ Parts
  BY InvByParts DEF Parts
<1>2. CASE AssetNext
  <2>1. Columns'
    BY <1>1, <1>2, AssetTypes
  <2>2. Parts' /\ TotalExact'
    BY <1>1, <1>2, <2>1, PartsKept, TotalIsCounted
  <2> QED BY <2>1, <2>2 DEF Columns, Parts, AssetInv, FilesAreKept, FilesInv,
             ReadersKeepTheirFile, AssetTypeOK, AssetHasBytes,
             ObjectsAreTracked, PurchaseOK, FileOK, ReaderOK, Leased
<1>3. CASE UNCHANGED assetVars
  BY <1>3 DEF assetVars, AssetInv, FilesAreKept, FilesInv, AssetTypeOK,
     TotalExact, AssetHasBytes, ObjectsAreTracked, ReadersKeepTheirFile,
     Staging, Registered, Acknowledged, Draining, Reading, Leased
<1> QED BY <1>2, <1>3

\* An empty store is correct.
LEMMA AssetStart ==
  ASSUME AssetInit
  PROVE  AssetInv
<1> USE MediaConstants, AssetAssumption
<1>1. Columns
  BY DEF AssetInit, Columns, Reservation, Free, Pending, Receipt, NoReceipt,
         Stager, Pin, NoPin, Tokens
<1>2. {t \in Turns : reservations[t].state # "none"} = {}
  BY DEF AssetInit, Free
<1>3. TotalExact
  <2>1. Cardinality({t \in Turns : reservations[t].state # "none"}) = 0
    BY <1>2, FS_EmptySet
  <2>2. total = 0 /\ Room >= 0
    BY DEF AssetInit
  <2> QED BY <2>1, <2>2 DEF TotalExact
<1>4. ASSUME NEW t \in Turns PROVE PurchaseOK(t)
  BY DEF AssetInit, PurchaseOK, Free, NoReceipt, Registered, Acknowledged,
         Draining
<1>5. ASSUME NEW k \in Tokens PROVE FileOK(k)
  BY DEF AssetInit, FileOK, Staging
<1>6. ASSUME NEW r \in Readers PROVE ReaderOK(r)
  BY DEF AssetInit, ReaderOK, NoPin
<1> QED BY <1>1, <1>3, <1>4, <1>5, <1>6, InvByParts

\* Rows and files of the store agree, for any number of purchases, downloads
\* and stagings, whatever crashes, expires or is cut short.
THEOREM FilesCorrect == AssetSpec => []FilesAreKept
<1>1. AssetInit => AssetInv
  BY AssetStart
<1>2. AssetInv /\ [AssetNext]_assetVars => AssetInv'
  BY AssetStep
<1>3. AssetInv => FilesAreKept
  BY DEF AssetInv
<1> QED BY <1>1, <1>2, <1>3, PTL DEF AssetSpec

-----------------------------------------------------------------------------
(* The purchase of an image over both stores: the parts of its invariant.   *)

\* A claim is one handler's, of one purchase, and the provider is called and
\* an asset staged for issued claims only.
Issued ==
  /\ \A h \in Handlers : K(h) <= issued
  /\ \A t \in Turns : requests[t].token <= issued /\ requests[t].doc <= issued
  /\ \A t \in Turns : \A k \in charged[t] : k <= issued
  /\ \A g, h \in Handlers : K(g) = K(h) /\ K(h) # 0 => g = h
  /\ \A t \in Turns, h \in Handlers :
       K(h) # 0 /\ requests[t].token = K(h) => T(h) = t

\* The provider was called before anything is staged, and not before the fence.
Unpaid == BeforeFence \cup {"unfence", "undo"}
Paid == {"stage", "staging", "finalize", "persist"}

Charges ==
  /\ \A k \in Tokens : stager[k].at # "idle" => k \in charged[stager[k].turn]
  /\ \A h \in Handlers :
       /\ handlers[h].at \in Unpaid => K(h) \notin charged[T(h)]
       /\ handlers[h].at \in Paid => K(h) \in charged[T(h)]

\* What was or may be paid for and is not collected yet.
PastFence == AfterFence \cup {"mark"}

MayCost(t, k) ==
  /\ receipts[t].tokens # k
  /\ \/ k \in charged[t]
     \/ \E h \in Handlers : T(h) = t /\ K(h) = k /\ handlers[h].at \in PastFence

\* It is on record: at work, of unknown outcome, or answered; and at each of
\* these its room is held.
OnRecord(t, k) ==
  \/ Owns(t, k, 1)
  \/ requests[t].status = "recovery_required"
  \/ /\ requests[t].status = "succeeded" /\ requests[t].doc = k
     /\ authority[t].state \in Holding

OnePurchase ==
  \A t \in Turns : \A k \in Tokens : MayCost(t, k) =>
    /\ OnRecord(t, k)
    /\ \A j \in Tokens : MayCost(t, j) => j = k

RoomIsHeld ==
  /\ \A t \in Turns :
       \/ requests[t].status = "processing" /\ requests[t].phase = 1
       \/ requests[t].status = "recovery_required"
       => authority[t].state = "reserved"
  /\ \A h \in Handlers :
       handlers[h].at \in {"mirror", "fence"} /\ Owns(T(h), K(h), 0)
         => authority[T(h)].state = "reserved"

\* What is recorded, or about to be, is finished in the store of assets.
Finished ==
  /\ \A h \in Handlers :
       At(h, "persist") /\ Owns(T(h), K(h), 1) =>
         reservations[T(h)] = [state |-> "committed", tokens |-> K(h)]
  /\ \A t \in Turns :
       authority[t].state = "committed" =>
         reservations[t] = [state |-> "committed",
                            tokens |-> authority[t].tokens]

\* An acknowledgement in the store of assets is of the answer on record, and
\* the room comes back when there is a receipt.
Receipts ==
  \A t \in Turns :
    /\ reservations[t].state = "acked" =>
         /\ authority[t].state = "acked_pending_cleanup"
         /\ authority[t].archive = receipts[t].archive
         /\ authority[t].tokens = receipts[t].tokens
    /\ authority[t].state = "acked" =>
         authority[t].tokens = receipts[t].tokens

\* A download looks at an answer that is on record or was acknowledged, and its
\* lease is on the asset of that answer.
Looked ==
  \A r \in Readers : LET d == downloads[r] IN
    /\ d.at # "idle" => /\ d.turn \in Turns
                        /\ d.token # 0
                        /\ \/ authority[d.turn].tokens = d.token
                           \/ receipts[d.turn].tokens = d.token
    /\ pins[r].left > 0 => /\ d.at \in {"pinned", "served"}
                           /\ pins[r].token = d.token
                           /\ assets[d.turn] = d.token

\* The types of the handlers, the charges and the downloads.
ImageTyped ==
  /\ handlers \in [Handlers -> Handler]
  /\ charged \in [Turns -> SUBSET Tokens]
  /\ downloads \in [Readers -> Reader]
  /\ \A h \in Handlers : T(h) = NoTurn <=> At(h, "idle")
  /\ \A h \in Handlers : K(h) = 0 <=> At(h, "idle")

\* The invariants of the two stores, and the types.
StoresInv == StoreInv /\ AssetInv /\ ImageTyped

\* The inductive invariant of the purchase of an image.
ImageInv ==
  /\ StoresInv /\ Issued /\ Charges /\ RoomIsHeld /\ OnePurchase
  /\ Finished /\ Receipts /\ Looked

\* The types of what the handlers read.
LEMMA Reads ==
  ASSUME StoresInv
  PROVE  /\ \A t \in Turns : requests[t] \in Request /\ authority[t] \in Authority
         /\ \A t \in Turns : reservations[t] \in Reservation
                             /\ receipts[t] \in Receipt /\ assets[t] \in 0..MaxTokens
         /\ \A k \in Tokens : stager[k] \in Stager /\ pending[k] \in Pending
         /\ \A r \in Readers : pins[r] \in Pin /\ downloads[r] \in Reader
         /\ issued \in 0..MaxTokens
         /\ \A h \in Handlers : handlers[h] \in Handler
         /\ \A h \in Handlers : ~ At(h, "idle") => T(h) \in Turns /\ K(h) \in Tokens
BY MediaConstants
   DEF StoresInv, StoreInv, TypeOK, AssetInv, FilesAreKept, FilesInv,
   AssetTypeOK, ImageTyped, Handler, T, K, At, Tokens

\* A claim that a handler has is one that was issued, and so is the token of
\* an answer.
LEMMA HeldClaims ==
  ASSUME StoresInv, Issued
  PROVE  /\ \A h \in Handlers : ~ At(h, "idle") => T(h) \in Turns /\ K(h) \in 1..issued
         /\ \A t \in Turns : Doc(t) # 0 => Doc(t) \in 1..issued
<1>1. \A h \in Handlers : ~ At(h, "idle") => T(h) \in Turns /\ K(h) \in Tokens
  BY Reads
<1>2. \A t \in Turns : requests[t].doc \in 0..MaxTokens
  BY Reads DEF Request
<1>3. issued \in Nat
  BY Reads, MediaConstants
<1> QED BY <1>1, <1>2, <1>3, MediaConstants DEF Issued, Tokens, Doc

-----------------------------------------------------------------------------
(* The steps of the system are steps of the stores.                        *)

\* The steps of a handler that call neither store.
Jumps(h) ==
  \/ NoRoute(h) \/ RoomRefused(h) \/ MirrorRefused(h) \/ OutboundReady(h)
  \/ OutboundRefused(h) \/ StageRefused(h) \/ Staged(h) \/ StageFailed(h)
  \/ FinalizeFails(h) \/ PersistFails(h) \/ Quit(h)

\* Every step of the handlers, the threads and the buyers is a step of each
\* store, or leaves it alone.
LEMMA StepsOfStores ==
  ASSUME StoresInv, Issued, Looked, ImageNext
  PROVE  [Next]_vars /\ [AssetNext]_assetVars
<1>1. CASE ImageTick
  BY <1>1 DEF ImageTick, Next, AssetNext
<1>2. CASE \E h \in Handlers : Jumps(h)
  BY <1>2 DEF Jumps, Jump, NoRoute, RoomRefused, MirrorRefused, OutboundReady,
     OutboundRefused, StageRefused, Staged, StageFailed, FinalizeFails,
     PersistFails, Quit
<1>3. ASSUME NEW h \in Handlers, NEW t \in Turns, NEW d \in Digests,
             NEW lag \in Lags, ClaimImage(h, t, d, lag)
      PROVE  Next /\ UNCHANGED assetVars
  BY <1>3 DEF ClaimImage, Next
<1>4. ASSUME NEW h \in Handlers,
             ReserveRoom(h) \/ RoomCancelled(h) \/ AbandonClaim(h)
               \/ EnterPhase(h) \/ UndoClaim(h) \/ Persist(h)
               \/ \E lag \in Lags : Mark(h, lag)
      PROVE  [Next]_vars /\ UNCHANGED assetVars
  <2>1. ~ At(h, "idle")
    BY <1>4 DEF ReserveRoom, RoomCancelled, AbandonClaim, EnterPhase,
                UndoClaim, Persist, Mark, StoreCall, At
  <2>2. T(h) \in Turns /\ K(h) \in 1..issued
    BY <2>1, HeldClaims
  <2>3. UNCHANGED assetVars
    BY <1>4 DEF ReserveRoom, RoomCancelled, AbandonClaim, EnterPhase,
                UndoClaim, Persist, Mark, StoreCall
  <2>4. \/ ReserveAssets(T(h), K(h)) \/ UNCHANGED vars
        \/ EnterProviderPhase(T(h), K(h))
        \/ \E phase \in 0..1 : Abandon(T(h), K(h), phase)
        \/ SucceedAssets(T(h), K(h))
        \/ \E lag \in Lags : MarkRecovery(T(h), K(h), lag)
    BY <1>4 DEF ReserveRoom, RoomCancelled, AbandonClaim, EnterPhase,
                UndoClaim, Persist, Mark
  <2> QED BY <2>2, <2>3, <2>4 DEF Next
<1>5. ASSUME NEW h \in Handlers,
             ReconcileFirst(h) \/ ReserveMirror(h) \/ ReleaseMirror(h)
               \/ UnfenceMirror(h) \/ Stage(h) \/ FinalizeImage(h)
      PROVE  UNCHANGED vars /\ [AssetNext]_assetVars
  <2>1. ~ At(h, "idle") /\ UNCHANGED vars
    BY <1>5 DEF ReconcileFirst, ReserveMirror, ReleaseMirror, UnfenceMirror,
                Stage, FinalizeImage, FilesCall, At
  <2>2. T(h) \in Turns /\ K(h) \in Tokens
    BY <2>1, Reads
  <2>3. \/ Reconcile \/ ReconcileCut \/ Reserve(T(h)) \/ Release(T(h))
        \/ UNCHANGED assetVars
        \/ Download(T(h), K(h)) \/ Finalize(T(h), K(h))
    BY <1>5 DEF ReconcileFirst, ReserveMirror, ReleaseMirror, UnfenceMirror,
                Stage, FinalizeImage
  <2> QED BY <2>1, <2>2, <2>3 DEF AssetNext
<1>6. CASE \E h \in Handlers : Invoke(h)
  BY <1>6 DEF Invoke
<1>7. ASSUME NEW k \in Tokens, StagingStep(k)
      PROVE  UNCHANGED vars /\ AssetNext
  BY <1>7 DEF StagingStep, AssetNext
<1>8. ASSUME NEW t \in Turns,
             (\E a \in Archives : Acknowledge(t, a))
               \/ \E lag \in Lags : AckDone(t, lag)
      PROVE  Next /\ UNCHANGED assetVars
  <2>1. Doc(t) \in 1..issued
    BY <1>8, HeldClaims DEF Acknowledge, AckDone
  <2>2. CASE \E a \in Archives : Acknowledge(t, a)
    BY <2>1, <2>2 DEF Acknowledge, Next
  <2>3. ASSUME NEW lag \in Lags, AckDone(t, lag) PROVE Next
    <3>1. authority[t].archive = receipts[t].archive
          /\ authority[t].state = "acked_pending_cleanup"
      BY <2>3 DEF AckDone, CompleteAck
    <3>2. receipts[t].archive \in Archives
      BY <3>1, RowsOfInv, Reads DEF StoresInv, StoreInv, RowOK, Authority
    <3> QED BY <2>1, <2>3, <3>2 DEF AckDone, Next
  <2> QED BY <1>8, <2>2, <2>3 DEF Acknowledge, AckDone
<1>9. ASSUME NEW t \in Turns, AckStep(t)
      PROVE  UNCHANGED vars /\ AssetNext
  <2>1. Doc(t) \in Tokens
    BY <1>9, HeldClaims, Reads, MediaConstants DEF AckStep, CleansUp, Tokens
  <2>2. authority[t].archive \in Archives
    BY <1>9, RowsOfInv, Reads
       DEF AckStep, CleansUp, StoresInv, StoreInv, RowOK, Authority
  <2> QED BY <1>9, <2>1, <2>2 DEF AckStep, AssetNext
<1>10. CASE \/ \E r \in Readers, t \in Turns : Look(r, t)
            \/ \E r \in Readers : PinRefused(r) \/ LookAgain(r)
  BY <1>10 DEF Look, PinRefused, LookAgain
<1>11. ASSUME NEW r \in Readers, PinAsset(r)
       PROVE  UNCHANGED vars /\ AssetNext
  <2>1. downloads[r].turn \in Turns
    BY <1>11 DEF PinAsset, Looked
  <2> QED BY <1>11, <2>1 DEF PinAsset, AssetNext
<1>12. CASE \E r \in Readers : CloseDownload(r)
  BY <1>12 DEF CloseDownload, AssetNext
<1> QED
  BY <1>1, <1>2, <1>3, <1>4, <1>5, <1>6, <1>7, <1>8, <1>9, <1>10, <1>11, <1>12
     DEF ImageNext, Jumps

-----------------------------------------------------------------------------
(* Whose steps they are, and what becomes of the handlers.                 *)

\* Where a handler goes when it does not start.
LEMMA GoesTo ==
  ASSUME StoresInv, NEW h \in Handlers, NEW to \in Places, ~ At(h, "idle"),
         Goes(h, to)
  PROVE  /\ handlers' \in [Handlers -> Handler]
         /\ \A g \in Handlers : g # h => handlers'[g] = handlers[g]
         /\ to = "idle" => handlers'[h] = Idle
         /\ to # "idle" => /\ handlers'[h].at = to
                           /\ handlers'[h].turn = handlers[h].turn
                           /\ handlers'[h].token = handlers[h].token
<1>1. handlers \in [Handlers -> Handler]
  BY DEF StoresInv, ImageTyped
<1>2. handlers[h] \in Handler /\ Idle \in Handler
  BY <1>1, MediaConstants DEF Handler, Idle, Places
<1>3. to # "idle" => [handlers[h] EXCEPT !.at = to] \in Handler
  BY <1>2 DEF Handler
<1>4. to = "idle" => handlers' = [handlers EXCEPT ![h] = Idle]
  BY DEF Goes
<1>5. to # "idle" =>
        handlers' = [handlers EXCEPT ![h] = [handlers[h] EXCEPT !.at = to]]
  BY DEF Goes
<1> QED BY <1>1, <1>2, <1>3, <1>4, <1>5 DEF Handler

\* The steps of one handler h from a place to another.
Moves(h) ==
  \/ Jumps(h) \/ ReserveRoom(h) \/ RoomCancelled(h) \/ ReconcileFirst(h)
  \/ ReserveMirror(h) \/ ReleaseMirror(h) \/ AbandonClaim(h) \/ EnterPhase(h)
  \/ UnfenceMirror(h) \/ UndoClaim(h) \/ Invoke(h) \/ Stage(h)
  \/ FinalizeImage(h) \/ Persist(h) \/ \E lag \in Lags : Mark(h, lag)

\* A claim, with which a handler starts.
Starts(h) == \E t \in Turns, d \in Digests, lag \in Lags :
               ClaimImage(h, t, d, lag)

\* The steps of the clock, of the threads and of the buyers.
Others ==
  \/ ImageTick
  \/ \E k \in Tokens : StagingStep(k)
  \/ \E t \in Turns : \/ AckStep(t)
                      \/ \E a \in Archives : Acknowledge(t, a)
                      \/ \E lag \in Lags : AckDone(t, lag)
  \/ \E r \in Readers, t \in Turns : Look(r, t)
  \/ \E r \in Readers : \/ PinAsset(r) \/ PinRefused(r) \/ LookAgain(r)
                        \/ CloseDownload(r)

\* The kinds of places that the invariant tells apart, and the steps that
\* bring a handler to another kind.
Alike(h, from, to) ==
  /\ to \in Unpaid => from \in Unpaid
  /\ to \in Paid => from \in Paid \/ Invoke(h)
  /\ to \in PastFence => from \in PastFence \/ EnterPhase(h)
  /\ to \in {"mirror", "fence"} => from \in {"mirror", "fence"} \/ ReserveRoom(h)
  /\ to = "persist" => from = "persist" \/ FinalizeImage(h)

\* A handler that goes on has the claim it had.
Steady(h) ==
  \A g \in Handlers :
    /\ g # h => handlers'[g] = handlers[g]
    /\ \/ handlers'[g] = Idle
       \/ /\ T(g)' = T(g) /\ K(g)' = K(g)
          /\ ~ At(g, "idle") /\ ~ At(g, "idle")'
          /\ Alike(h, handlers[g].at, handlers'[g].at)

\* A handler that moves is the only one, and its claim stays the same.
LEMMA HandlerMoves ==
  ASSUME StoresInv, NEW h \in Handlers, Moves(h)
  PROVE  handlers' \in [Handlers -> Handler] /\ Steady(h) /\ ~ At(h, "idle")
<1> DEFINE from == handlers[h].at
<1>1. PICK to \in Places : /\ ~ At(h, "idle") /\ Goes(h, to)
                           /\ Alike(h, from, to) \/ to = "idle"
  <2>1. CASE Jumps(h)
    BY <2>1 DEF Jumps, Jump, NoRoute, RoomRefused, MirrorRefused,
       OutboundReady, OutboundRefused, StageRefused, Staged, StageFailed,
       FinalizeFails, PersistFails, Quit, At, Alike, Unpaid, Paid, PastFence,
       BeforeFence, AfterFence, Places
  <2>2. CASE ReserveRoom(h) \/ RoomCancelled(h) \/ AbandonClaim(h)
             \/ UndoClaim(h) \/ Persist(h) \/ \E lag \in Lags : Mark(h, lag)
    BY <2>2 DEF ReserveRoom, RoomCancelled, AbandonClaim,
       UndoClaim, Persist, Mark, StoreCall, At, Alike, Unpaid, Paid,
       PastFence, BeforeFence, AfterFence, Places
  <2>3. CASE ReconcileFirst(h) \/ ReserveMirror(h) \/ ReleaseMirror(h)
             \/ UnfenceMirror(h) \/ Stage(h) \/ FinalizeImage(h)
    BY <2>3 DEF ReconcileFirst, ReserveMirror, ReleaseMirror, UnfenceMirror,
       Stage, FinalizeImage, FilesCall, At, Alike, Unpaid, Paid, PastFence,
       BeforeFence, AfterFence, Places
  <2>4. CASE Invoke(h)
    <3>1. PICK to \in {"stage", "mark"} : At(h, "invoke") /\ Goes(h, to)
      BY <2>4 DEF Invoke
    <3> QED BY <2>4, <3>1 DEF At, Alike, Unpaid, Paid, PastFence,
       BeforeFence, AfterFence, Places
  <2>5. CASE EnterPhase(h)
    <3>1. PICK to \in {"outbound", "unfence"} : At(h, "fence") /\ Goes(h, to)
      BY <2>5 DEF EnterPhase, StoreCall
    <3> QED BY <2>5, <3>1 DEF At, Alike, Unpaid, Paid, PastFence,
       BeforeFence, AfterFence, Places
  <2> QED BY <2>1, <2>2, <2>3, <2>4, <2>5 DEF Moves
<1>2. /\ handlers' \in [Handlers -> Handler]
      /\ \A g \in Handlers : g # h => handlers'[g] = handlers[g]
      /\ to = "idle" => handlers'[h] = Idle
      /\ to # "idle" => /\ handlers'[h].at = to
                        /\ handlers'[h].turn = handlers[h].turn
                        /\ handlers'[h].token = handlers[h].token
  BY <1>1, GoesTo
<1>3. \A g \in Handlers : At(g, "idle") => handlers[g] = Idle
  BY Reads DEF StoresInv, ImageTyped, Handler, Idle, T, K, At
<1>4. \A x : Alike(h, x, x)
  BY DEF Alike
<1> HIDE DEF from
<1> QED BY <1>1, <1>2, <1>3, <1>4 DEF Steady, At, K, T, from

\* The step of a handler, the start of one, or a step of somebody else.
LEMMA WhoSteps ==
  ASSUME ImageNext
  PROVE  (\E h \in Handlers : Moves(h) \/ Starts(h)) \/ Others
BY DEF ImageNext, Moves, Starts, Others, Jumps

\* Nobody but a handler changes a handler, or calls the provider.
LEMMA OthersLeave ==
  ASSUME Others
  PROVE  handlers' = handlers /\ charged' = charged
BY DEF Others, ImageTick, StagingStep, Acknowledge, AckStep, AckDone, Look,
       PinAsset, PinRefused, LookAgain, CloseDownload, handlerVars

\* A claim makes at most one row a new one, and gives it a token of its own.
LEMMA ClaimTokens ==
  ASSUME StoresInv, NEW t \in Turns, NEW d \in Digests, NEW lag \in Lags,
         Claim(t, d, lag)
  PROVE  /\ issued' = issued \/ issued' = issued + 1
         /\ \A u \in Turns : requests'[u].status = "processing" =>
              \/ requests'[u] = requests[u]
              \/ /\ u = t /\ issued' = issued + 1
                 /\ requests'[u].token = issued' /\ requests'[u].phase = 0
         /\ issued' = issued + 1 => requests'[t].token = issued'
         /\ issued' \in Tokens \/ issued' = issued
<1> USE MediaAssumption, MediaConstants
<1>1. PICK p \in Prunings(t, lag) :
        LET rows == Drop(p.rows, p.gone)
        IN  /\ DropAuthority(p.gone)
            /\ \/ Insert(rows, t, d, lag)
               \/ Reclaim(rows, t, d, lag)
               \/ GiveUp(rows, t, d, lag)
               \/ Replay(rows, t, d)
  BY DEF Claim
<1>2. PICK C \in SUBSET Ambiguous(requests, lag) : p.rows = ConcludeAll(C)
  BY PruningFacts
<1> DEFINE rows == Drop(p.rows, p.gone)
<1>3. \A u \in Turns : requests[u] \in Request
  BY Reads
<1>4. ASSUME NEW u \in Turns
      PROVE  /\ rows[u] \in Request
             /\ rows[u].status = "processing" => rows[u] = requests[u]
  <2>1. p.rows[u] = IF u \in C
                    THEN Concluded(requests[u], requests[u].lease + Retention)
                    ELSE requests[u]
    BY <1>2 DEF ConcludeAll
  <2>2. rows[u] = IF u \in p.gone THEN NoRequest ELSE p.rows[u]
    BY DEF Drop
  <2>3. NoRequest.status = "absent" /\ NoRequest \in Request
    BY DEF NoRequest, Request, Status
  <2>4. ASSUME NEW n \in Int
        PROVE  /\ Concluded(requests[u], n) \in Request
               /\ Concluded(requests[u], n).status = "recovery_required"
    <3>1. Concluded(requests[u], n) \in Request
      BY Rewritten, Reads
    <3>2. Concluded(requests[u], n).status = "recovery_required"
      BY <1>3 DEF Concluded, Request
    <3> QED BY <3>1, <3>2
  <2>5. requests[u].lease + Retention \in Int
    BY <1>3 DEF Request
  <2> HIDE DEF rows
  <2> QED BY <1>3, <2>1, <2>2, <2>3, <2>4, <2>5
<1>5. rows = [u \in Turns |-> rows[u]]
  BY DEF Drop
<1>6. issued \in Nat /\ issued <= MaxTokens
  BY Reads
<1> HIDE DEF rows
<1>7. CASE Insert(rows, t, d, lag)
  <2>1. /\ issued' = issued + 1 /\ issued < MaxTokens
        /\ requests' = [rows EXCEPT ![t] =
             [NoRequest EXCEPT !.status = "processing", !.digest = d,
                               !.token = issued + 1, !.lease = Lease - lag]]
    BY <1>7 DEF Insert, NewToken
  <2>2. /\ requests'[t].token = issued + 1 /\ requests'[t].phase = 0
        /\ \A u \in Turns : u # t => requests'[u] = rows[u]
    BY <1>5, <2>1 DEF NoRequest
  <2> QED BY <1>4, <1>6, <2>1, <2>2 DEF Tokens
<1>8. CASE Reclaim(rows, t, d, lag)
  <2>1. /\ issued' = issued + 1 /\ issued < MaxTokens
        /\ requests' = [rows EXCEPT ![t] =
             [rows[t] EXCEPT !.token = issued + 1, !.lease = Lease - lag]]
        /\ rows[t].phase = 0
    BY <1>5, <1>8 DEF Reclaim, NewToken
  <2>2. /\ requests'[t].token = issued + 1 /\ requests'[t].phase = 0
        /\ \A u \in Turns : u # t => requests'[u] = rows[u]
    BY <1>4, <1>5, <2>1 DEF Request
  <2> QED BY <1>4, <1>6, <2>1, <2>2 DEF Tokens
<1>9. CASE GiveUp(rows, t, d, lag)
  <2>1. issued' = issued
    BY <1>9 DEF GiveUp
  <2>2. /\ requests'[t].status = "recovery_required"
        /\ \A u \in Turns : u # t => requests'[u] = rows[u]
    BY <1>4, <1>5, <1>9 DEF GiveUp, Concluded, Request
  <2> QED BY <1>4, <1>6, <2>1, <2>2
<1>10. CASE Replay(rows, t, d)
  BY <1>4, <1>6, <1>10 DEF Replay
<1> QED BY <1>1, <1>7, <1>8, <1>9, <1>10 DEF rows

\* What a claim does to the row of any purchase: the room that is held stays.
LEMMA ClaimEffect ==
  ASSUME StoresInv, NEW t \in Turns, NEW d \in Digests, NEW lag \in Lags,
         Claim(t, d, lag), NEW u \in Turns
  PROVE  /\ \/ authority'[u] = authority[u]
            \/ /\ authority'[u] = NoAuthority
               /\ authority[u].state \in {"none", "acked"}
         /\ requests'[u].doc \in {0, requests[u].doc}
         /\ authority[u].state \in Holding =>
              \/ /\ requests'[u].status = requests[u].status
                 /\ requests'[u].phase = requests[u].phase
                 /\ requests'[u].doc = requests[u].doc
              \/ /\ requests[u].status = "processing" /\ requests[u].phase = 1
                 /\ requests'[u].status = "recovery_required"
         /\ requests'[u].status = "recovery_required" =>
              \/ requests[u].status = "recovery_required"
              \/ requests[u].status = "processing" /\ requests[u].phase = 1
<1>1. /\ requests[u] \in Request /\ authority[u] \in Authority
      /\ RowOK(requests[u], authority[u])
  BY Reads, RowsOfInv DEF StoresInv, StoreInv
<1>2. RowSame(u) \/ RowConcluded(u) \/ RowDropped(u) \/ RowInserted(u)
      \/ RowReclaimed(u)
  BY ClaimRow DEF StoresInv, StoreInv
<1>3. /\ NoRequest.doc = 0 /\ NoRequest.status = "absent"
      /\ \A r : Fresh(r) => r.doc = 0 /\ r.status = "processing"
  BY DEF NoRequest, Fresh
<1>4. CASE RowSame(u)
  BY <1>1, <1>4 DEF RowSame, Request
<1>5. CASE RowConcluded(u)
  BY <1>1, <1>5 DEF RowConcluded, Concluded, Request, RowOK
<1>6. CASE RowDropped(u)
  BY <1>1, <1>3, <1>6 DEF RowDropped, Disposable, Holding, Authority
<1>7. CASE RowInserted(u)
  BY <1>1, <1>3, <1>7 DEF RowInserted, RowOK, Holding
<1>8. CASE RowReclaimed(u)
  BY <1>1, <1>8 DEF RowReclaimed, Reclaimed, Request
<1> QED BY <1>2, <1>4, <1>5, <1>6, <1>7, <1>8

\* A handler that starts has a claim that nobody had.
LEMMA StartEffect ==
  ASSUME StoresInv, NEW h \in Handlers, NEW t \in Turns, NEW d \in Digests,
         NEW lag \in Lags, ClaimImage(h, t, d, lag)
  PROVE  /\ handlers' \in [Handlers -> Handler]
         /\ \A g \in Handlers : g # h => handlers'[g] = handlers[g]
         /\ \/ handlers' = handlers /\ issued' = issued
            \/ /\ At(h, "idle") /\ issued' = issued + 1 /\ issued' \in Tokens
               /\ At(h, "claimed")' /\ T(h)' = t /\ K(h)' = issued'
<1>1. handlers \in [Handlers -> Handler]
  BY DEF StoresInv, ImageTyped
<1>2. issued \in Nat
  BY Reads, MediaConstants
<1>3. /\ issued' = issued \/ issued' = issued + 1
      /\ issued' \in Tokens \/ issued' = issued
  BY ClaimTokens DEF ClaimImage
<1>4. CASE issued' = issued
  BY <1>1, <1>4 DEF ClaimImage
<1>5. CASE issued' # issued
  <2>1. handlers' = [handlers EXCEPT ![h] =
          [at |-> "claimed", turn |-> t, token |-> issued']]
    BY <1>5 DEF ClaimImage
  <2>2. [at |-> "claimed", turn |-> t, token |-> issued'] \in Handler
    BY <1>3, <1>5, MediaConstants DEF Handler, Places, BeforeFence, Tokens
  <2>3. At(h, "idle")
    BY DEF ClaimImage
  <2> QED BY <1>1, <1>3, <1>5, <2>1, <2>2, <2>3 DEF At, T, K
<1> QED BY <1>4, <1>5

\* Which steps write what.
LEMMA WhoWrites ==
  ASSUME ImageNext
  PROVE  /\ \/ UNCHANGED vars
            \/ ImageTick
            \/ \E h \in Handlers :
                 \/ Starts(h) \/ ReserveRoom(h) \/ RoomCancelled(h)
                 \/ AbandonClaim(h) \/ EnterPhase(h) \/ UndoClaim(h)
                 \/ Persist(h) \/ \E lag \in Lags : Mark(h, lag)
            \/ \E t \in Turns : \/ \E a \in Archives : Acknowledge(t, a)
                                \/ \E lag \in Lags : AckDone(t, lag)
         /\ \/ UNCHANGED assetVars
            \/ ImageTick
            \/ \E h \in Handlers :
                 \/ ReconcileFirst(h) \/ ReserveMirror(h) \/ ReleaseMirror(h)
                 \/ UnfenceMirror(h) \/ Stage(h) \/ FinalizeImage(h)
            \/ \E k \in Tokens : StagingStep(k)
            \/ \E t \in Turns : AckStep(t)
            \/ \E r \in Readers : PinAsset(r) \/ CloseDownload(r)
         /\ \/ charged' = charged
            \/ \E h \in Handlers : Invoke(h)
         /\ \/ downloads' = downloads
            \/ \E r \in Readers, t \in Turns : Look(r, t)
            \/ \E r \in Readers : \/ PinAsset(r) \/ LookAgain(r)
                                  \/ PinRefused(r) \/ CloseDownload(r)
BY DEF ImageNext, ImageTick, Starts, ClaimImage, Jump, StoreCall, FilesCall,
   NoRoute, ReserveRoom, RoomRefused, RoomCancelled, ReconcileFirst,
   ReserveMirror, MirrorRefused, ReleaseMirror, AbandonClaim, EnterPhase,
   UnfenceMirror, UndoClaim, OutboundReady, OutboundRefused, Invoke, Stage,
   StageRefused, Staged, StageFailed, FinalizeImage, FinalizeFails, Persist,
   PersistFails, Mark, Quit, StagingStep, Acknowledge, AckStep, AckDone, Look,
   PinAsset, PinRefused, LookAgain, CloseDownload, handlerVars

\* Every step keeps the types of handlers, charges and downloads.
LEMMA TypesStep ==
  ASSUME StoresInv, ImageNext
  PROVE  ImageTyped'
<1>0. /\ handlers \in [Handlers -> Handler]
      /\ charged \in [Turns -> SUBSET Tokens]
      /\ downloads \in [Readers -> Reader]
  BY DEF StoresInv, ImageTyped
<1>1. handlers' \in [Handlers -> Handler]
  BY <1>0, WhoSteps, HandlerMoves, StartEffect, OthersLeave DEF Starts
<1>2. \A g \in Handlers : /\ (T(g) = NoTurn <=> At(g, "idle"))'
                          /\ (K(g) = 0 <=> At(g, "idle"))'
  <2>1. Idle.at = "idle" /\ Idle.turn = NoTurn /\ Idle.token = 0
    BY DEF Idle
  <2>2. \A g \in Handlers : (T(g) = NoTurn <=> At(g, "idle"))
                            /\ (K(g) = 0 <=> At(g, "idle"))
    BY DEF StoresInv, ImageTyped
  <2>3. CASE \E h \in Handlers : Steady(h)
    BY <2>1, <2>2, <2>3 DEF Steady, T, K, At
  <2>4. ASSUME NEW h \in Handlers, Starts(h)
        PROVE  \A g \in Handlers : /\ (T(g) = NoTurn <=> At(g, "idle"))'
                                   /\ (K(g) = 0 <=> At(g, "idle"))'
    <3>1. PICK t \in Turns, d \in Digests, lag \in Lags :
            ClaimImage(h, t, d, lag)
      BY <2>4 DEF Starts
    <3>2. CASE handlers' = handlers
      BY <2>2, <3>2 DEF T, K, At
    <3>3. CASE handlers' # handlers
      <4>1. /\ \A g \in Handlers : g # h => handlers'[g] = handlers[g]
            /\ issued' \in Tokens
            /\ At(h, "claimed")' /\ T(h)' = t /\ K(h)' = issued'
        BY <3>1, <3>3, StartEffect
      <4>2. t # NoTurn /\ issued' # 0
        BY <4>1, MediaConstants DEF Tokens
      <4> QED BY <2>2, <4>1, <4>2 DEF T, K, At
    <3> QED BY <3>2, <3>3
  <2>5. CASE Others
    BY <2>2, <2>5, OthersLeave DEF T, K, At
  <2> QED BY <2>3, <2>4, <2>5, WhoSteps, HandlerMoves
<1>3. charged' \in [Turns -> SUBSET Tokens]
  <2>1. ASSUME NEW h \in Handlers, Invoke(h)
        PROVE  charged' \in [Turns -> SUBSET Tokens]
    <3>1. K(h) \in Tokens
      BY <2>1, Reads DEF Invoke, At
    <3> QED BY <1>0, <2>1, <3>1 DEF Invoke
  <2>2. CASE charged' = charged
    BY <1>0, <2>2
  <2> QED BY <2>1, <2>2, WhoWrites
<1>4. downloads' \in [Readers -> Reader]
  <2>1. ASSUME NEW r \in Readers, NEW t \in Turns, Look(r, t)
        PROVE  downloads' \in [Readers -> Reader]
    <3>1. [at |-> "looked", turn |-> t, token |-> Doc(t)] \in Reader
      BY Reads DEF Reader, Doc, Request
    <3> QED BY <1>0, <2>1, <3>1 DEF Look
  <2>2. ASSUME NEW r \in Readers, PinAsset(r) \/ LookAgain(r)
        PROVE  downloads' \in [Readers -> Reader]
    <3>1. \A at \in {"pinned", "served"} :
            [downloads[r] EXCEPT !.at = at] \in Reader
      BY <1>0 DEF Reader
    <3> QED BY <1>0, <2>2, <3>1 DEF PinAsset, LookAgain
  <2>3. ASSUME NEW r \in Readers, PinRefused(r) \/ CloseDownload(r)
        PROVE  downloads' \in [Readers -> Reader]
    <3>1. Idle \in Reader
      BY MediaConstants DEF Idle, Reader
    <3> QED BY <1>0, <2>3, <3>1 DEF PinRefused, CloseDownload
  <2> QED BY <1>0, <2>1, <2>2, <2>3, WhoWrites
<1> QED BY <1>1, <1>2, <1>3, <1>4 DEF ImageTyped

-----------------------------------------------------------------------------
(* Tokens, charges and the room that is held.                              *)

\* What a handler does to the row of its purchase.
RowOps(h) ==
  \/ At(h, "claimed") /\ ReserveAssets(T(h), K(h))
  \/ At(h, "fence") /\ EnterProviderPhase(T(h), K(h))
  \/ At(h, "abandon") /\ Abandon(T(h), K(h), 0)
  \/ At(h, "undo") /\ Abandon(T(h), K(h), 1)
  \/ At(h, "persist") /\ SucceedAssets(T(h), K(h))
  \/ At(h, "mark") /\ \E lag \in Lags : MarkRecovery(T(h), K(h), lag)

\* A handler that moves leaves the rows alone or does to its own what its
\* place allows.
LEMMA RowOf ==
  ASSUME NEW h \in Handlers, Moves(h)
  PROVE  UNCHANGED vars \/ RowOps(h)
BY DEF Moves, Jumps, Jump, StoreCall, FilesCall, NoRoute, ReserveRoom,
   RoomRefused, RoomCancelled, ReconcileFirst, ReserveMirror, MirrorRefused,
   ReleaseMirror, AbandonClaim, EnterPhase, UnfenceMirror, UndoClaim,
   OutboundReady, OutboundRefused, Invoke, Stage, StageRefused, Staged,
   StageFailed, FinalizeImage, FinalizeFails, Persist, PersistFails, Mark,
   Quit, RowOps

\* Only a claim issues a token; other steps keep the one of a row or take it
\* away, and an answer is of a token that was issued.
LEMMA TokensStay ==
  ASSUME StoresInv, Issued, ImageNext, ~ \E h \in Handlers : Starts(h)
  PROVE  /\ issued' = issued
         /\ \A t \in Turns : /\ requests'[t].token \in {0, requests[t].token}
                             /\ requests'[t].doc <= issued
<1>0. \A t \in Turns : requests[t] \in Request
  BY Reads
<1>1. requests \in [Turns -> Request] /\ issued \in Nat
  BY MediaConstants DEF StoresInv, StoreInv, TypeOK
<1>2. \A t \in Turns : requests[t].doc <= issued
  BY DEF Issued
<1>3. CASE UNCHANGED vars
  BY <1>2, <1>3 DEF vars
<1>4. CASE ImageTick
  <2>1. \A t \in Turns : requests'[t] = requests[t] \/ requests'[t] = Aged(requests[t])
    BY <1>4 DEF ImageTick, Tick
  <2>2. \A t \in Turns : Aged(requests[t]).token = requests[t].token
                         /\ Aged(requests[t]).doc = requests[t].doc
    BY <1>0 DEF Aged, Request
  <2> QED BY <1>2, <1>4, <2>1, <2>2 DEF ImageTick, Tick
<1>5. ASSUME NEW h \in Handlers, Moves(h)
      PROVE  /\ issued' = issued
             /\ \A t \in Turns : /\ requests'[t].token \in {0, requests[t].token}
                                 /\ requests'[t].doc <= issued
  <2>1. K(h) <= issued /\ K(h) \in Int
    BY Reads, MediaConstants DEF Issued, Handler, K
  <2>2. NoRequest.token = 0 /\ NoRequest.doc = 0
    BY DEF NoRequest
  <2>3. CASE UNCHANGED vars
    BY <1>2, <2>3 DEF vars
  <2>4. CASE ReserveAssets(T(h), K(h))
    BY <1>2, <2>4 DEF ReserveAssets
  <2>5. CASE EnterProviderPhase(T(h), K(h))
    BY <1>1, <1>2, <2>5 DEF EnterProviderPhase, Request
  <2>6. CASE Abandon(T(h), K(h), 0) \/ Abandon(T(h), K(h), 1)
    BY <1>1, <1>2, <2>2, <2>6 DEF Abandon, Drop
  <2>7. CASE SucceedAssets(T(h), K(h))
    BY <1>1, <1>2, <2>1, <2>7 DEF SucceedAssets, SucceededWith, Request
  <2>8. CASE \E lag \in Lags : MarkRecovery(T(h), K(h), lag)
    BY <1>1, <1>2, <2>8 DEF MarkRecovery, Concluded, Request
  <2> QED BY <1>5, RowOf, <2>3, <2>4, <2>5, <2>6, <2>7, <2>8 DEF RowOps
<1>6. ASSUME NEW t \in Turns, NEW a \in Archives, Acknowledge(t, a)
      PROVE  UNCHANGED <<requests, issued>>
  BY <1>6 DEF Acknowledge, AckAssets
<1>7. ASSUME NEW t \in Turns, NEW lag \in Lags, AckDone(t, lag)
      PROVE  /\ issued' = issued
             /\ \A u \in Turns : /\ requests'[u].token = requests[u].token
                                 /\ requests'[u].doc = requests[u].doc
  BY <1>1, <1>7 DEF AckDone, CompleteAck, Request
<1> QED
  BY <1>2, <1>3, <1>4, <1>5, <1>6, <1>7, WhoWrites DEF Moves

\* Tokens stay unique: to a claim, its handler and its purchase.
LEMMA IssuedStep ==
  ASSUME StoresInv, Issued, ImageNext
  PROVE  Issued'
<1>1. /\ issued \in Nat
      /\ \A h \in Handlers : K(h) \in Nat /\ K(h) <= issued
      /\ \A t \in Turns : requests[t].token \in Nat /\ requests[t].doc \in Nat
      /\ \A t \in Turns : requests[t].token <= issued /\ requests[t].doc <= issued
      /\ \A t \in Turns : \A k \in charged[t] : k <= issued /\ k \in Nat
  BY Reads, MediaConstants
     DEF Issued, Handler, K, Request, StoresInv, ImageTyped, Tokens
<1>2. ASSUME NEW h \in Handlers, Starts(h)
      PROVE  Issued'
  <2>1. PICK t \in Turns, d \in Digests, lag \in Lags :
          ClaimImage(h, t, d, lag)
    BY <1>2 DEF Starts
  <2>2. charged' = charged /\ Claim(t, d, lag)
    BY <2>1 DEF ClaimImage
  <2>3. /\ issued' = issued \/ issued' = issued + 1
        /\ \A u \in Turns : requests'[u].doc \in {0, requests[u].doc}
    BY <2>2, ClaimTokens, ClaimEffect
  <2>4. \A u \in Turns : 
          \/ requests'[u].token \in {0, requests[u].token}
          \/ u = t /\ issued' = issued + 1 /\ requests'[u].token = issued'
    <3>1. ASSUME NEW u \in Turns, requests'[u].status # "processing"
          PROVE  requests'[u].token = 0
      <4>1. StoreInv'
        BY <2>2, StoreStep DEF StoresInv, Next
      <4> QED BY <3>1, <4>1 DEF StoreInv, TypeOK
    <3> QED BY <2>2, <3>1, ClaimTokens
  <2>5. /\ \A g \in Handlers : g # h => handlers'[g] = handlers[g]
        /\ \/ handlers' = handlers /\ issued' = issued
           \/ issued' = issued + 1 /\ T(h)' = t /\ K(h)' = issued'
    BY <2>1, StartEffect
  <2>6. (\A g \in Handlers : K(g) <= issued)'
    BY <1>1, <2>3, <2>5 DEF K
  <2>7. (\A u \in Turns : requests[u].token <= issued /\ requests[u].doc <= issued)'
    BY <1>1, <2>3, <2>4
  <2>8. (\A u \in Turns : \A k \in charged[u] : k <= issued)'
    BY <1>1, <2>2, <2>3
  <2>9. (\A g, i \in Handlers : K(g) = K(i) /\ K(i) # 0 => g = i)'
    BY <1>1, <2>5 DEF K, Issued
  <2>10. (\A u \in Turns, g \in Handlers :
            K(g) # 0 /\ requests[u].token = K(g) => T(g) = u)'
    BY <1>1, <2>4, <2>5 DEF K, T, Issued
  <2> QED BY <2>6, <2>7, <2>8, <2>9, <2>10 DEF Issued
<1>3. ASSUME ~ \E h \in Handlers : Starts(h)
      PROVE  Issued'
  <2>1. /\ issued' = issued
        /\ \A t \in Turns : /\ requests'[t].token \in {0, requests[t].token}
                            /\ requests'[t].doc <= issued
    BY <1>3, TokensStay
  <2>2. \A g \in Handlers : K(g)' = 0 \/ (K(g)' = K(g) /\ T(g)' = T(g))
    BY <1>3, WhoSteps, HandlerMoves, OthersLeave DEF Steady, Idle, K, T
  <2>3. \A t \in Turns : \A k \in charged'[t] :
          k \in charged[t] \/ \E h \in Handlers : k = K(h)
    BY WhoWrites DEF Invoke, StoresInv, ImageTyped
  <2>4. (\A g \in Handlers : K(g) <= issued)'
    BY <1>1, <2>1, <2>2
  <2>5. (\A t \in Turns : requests[t].token <= issued /\ requests[t].doc <= issued)'
    BY <1>1, <2>1
  <2>6. (\A t \in Turns : \A k \in charged[t] : k <= issued)'
    BY <1>1, <2>1, <2>3
  <2>7. (\A g, h \in Handlers : K(g) = K(h) /\ K(h) # 0 => g = h)'
    BY <2>2 DEF Issued
  <2>8. (\A t \in Turns, h \in Handlers :
            K(h) # 0 /\ requests[t].token = K(h) => T(h) = t)'
    BY <2>1, <2>2 DEF Issued
  <2> QED BY <2>4, <2>5, <2>6, <2>7, <2>8 DEF Issued
<1> QED BY <1>2, <1>3

\* Once a thread stages a token it does so for the same purchase.
LEMMA StagersStay ==
  ASSUME StoresInv, ImageNext, NEW k \in Tokens
  PROVE  \/ stager'[k].at = "idle"
         \/ stager[k].at # "idle" /\ stager'[k].turn = stager[k].turn
         \/ \E h \in Handlers : Stage(h) /\ k = K(h) /\ stager'[k].turn = T(h)
<1>1. stager \in [Tokens -> Stager]
  BY DEF StoresInv, AssetInv, FilesAreKept, FilesInv, AssetTypeOK
<1>2. CASE stager' = stager
  BY <1>2
<1>3. ASSUME NEW h \in Handlers, Stage(h)
      PROVE  \/ stager'[k] = stager[k]
             \/ k = K(h) /\ stager'[k].turn = T(h)
  BY <1>1, <1>3 DEF Stage, Download
<1>4. ASSUME NEW j \in Tokens, StagingStep(j)
      PROVE  \/ stager'[k] = stager[k]
             \/ stager[k].at # "idle" /\ stager'[k].turn = stager[k].turn
  BY <1>1, <1>4 DEF StagingStep, InsertPending, Move, Promote, PromoteFails,
     StageFails, StageCrash, StagerAt, Stager
<1>5. \/ stager' = stager
      \/ \E h \in Handlers : Stage(h)
      \/ \E j \in Tokens : StagingStep(j)
  BY WhoWrites
     DEF ImageTick, AssetTick, ReconcileFirst, ReserveMirror, ReleaseMirror,
         UnfenceMirror, FinalizeImage, Reconcile, ReconcileCut, Reserve, Release, Finalize,
         AckStep, AckReceipt, AckWait, AckErase, AckRemove, PinAsset, Open,
         CloseDownload, Close, assetFiles, assetVars
<1> QED BY <1>2, <1>3, <1>4, <1>5

\* Staging follows the charge, and no charge comes before the fence.
LEMMA ChargesStep ==
  ASSUME StoresInv, Issued, Charges, ImageNext
  PROVE  Charges'
<1>1. \A t \in Turns : charged[t] \subseteq charged'[t]
  BY WhoWrites DEF Invoke, StoresInv, ImageTyped
<1>2. ASSUME NEW k \in Tokens, stager'[k].at # "idle"
      PROVE  k \in charged'[stager'[k].turn]
  <2>1. CASE stager[k].at # "idle" /\ stager'[k].turn = stager[k].turn
    <3>1. stager[k].turn \in Turns
      BY <2>1 DEF StoresInv, AssetInv, FilesAreKept, FilesInv, AssetTypeOK
    <3> QED BY <1>1, <2>1, <3>1 DEF Charges
  <2>2. ASSUME NEW h \in Handlers, Stage(h), k = K(h), stager'[k].turn = T(h)
        PROVE  k \in charged'[stager'[k].turn]
    <3>1. At(h, "stage")
      BY <2>2 DEF Stage, FilesCall
    <3>2. T(h) \in Turns /\ K(h) \in charged[T(h)]
      BY <3>1, Reads DEF Charges, Paid, At
    <3> QED BY <1>1, <2>2, <3>2
  <2> QED BY <1>2, <2>1, <2>2, StagersStay
<1> DEFINE Ok(g) == /\ handlers[g].at \in Unpaid => K(g) \notin charged[T(g)]
                    /\ handlers[g].at \in Paid => K(g) \in charged[T(g)]
<1>3. \A g \in Handlers : Ok(g)
  BY DEF Charges
<1>4. "idle" \notin Unpaid /\ "idle" \notin Paid /\ Idle.at = "idle"
  BY DEF Unpaid, Paid, BeforeFence, Idle
<1>5. ASSUME NEW h \in Handlers, Moves(h), ~ Invoke(h), charged' = charged,
             NEW g \in Handlers
      PROVE  Ok(g)'
  <2>1. Steady(h)
    BY <1>5, HandlerMoves
  <2> QED BY <1>3, <1>4, <1>5, <2>1 DEF Steady, Alike, K, T
<1>6. ASSUME NEW h \in Handlers, Invoke(h), NEW g \in Handlers
      PROVE  Ok(g)'
  <2>1. At(h, "invoke") /\ T(h) \in Turns /\ K(h) # 0
    BY <1>6, Reads, MediaConstants DEF Invoke, At, Tokens
  <2>2. charged' = [charged EXCEPT ![T(h)] = charged[T(h)] \cup {K(h)}]
    BY <1>6 DEF Invoke
  <2>3. charged \in [Turns -> SUBSET Tokens]
    BY DEF StoresInv, ImageTyped
  <2>4. CASE g = h
    <3>1. PICK to \in {"stage", "mark"} : Goes(h, to)
      BY <1>6 DEF Invoke
    <3>2. to \in Places /\ ~ At(h, "idle") /\ to # "idle"
      BY <2>1, <3>1 DEF Places, AfterFence, At
    <3>3. /\ handlers'[h].at = to
          /\ T(h)' = T(h) /\ K(h)' = K(h)
      BY <3>1, <3>2, GoesTo DEF T, K
    <3>4. to \notin Unpaid
      BY <3>1 DEF Unpaid, BeforeFence
    <3> QED BY <2>1, <2>2, <2>3, <2>4, <3>3, <3>4
  <2>5. CASE g # h
    <3>1. handlers'[g] = handlers[g]
      BY <1>6, <2>1, <2>5, GoesTo DEF Invoke, Places, AfterFence, At
    <3>2. K(g) # K(h)
      BY <2>1, <2>5 DEF Issued
    <3>3. ~ At(g, "idle") => T(g) \in Turns
      BY Reads
    <3>4. At(g, "idle") => Ok(g)'
      BY <1>4, <3>1 DEF At
    <3>5. T(g) \in Turns => (K(g) \in charged'[T(g)] <=> K(g) \in charged[T(g)])
      BY <2>1, <2>2, <2>3, <3>2
    <3> QED BY <1>3, <3>1, <3>3, <3>4, <3>5 DEF K, T
  <2> QED BY <2>4, <2>5
<1>8. ASSUME NEW h \in Handlers, Starts(h), NEW g \in Handlers
      PROVE  Ok(g)'
  <2>1. PICK t \in Turns, d \in Digests, lag \in Lags :
          ClaimImage(h, t, d, lag)
    BY <1>8 DEF Starts
  <2>2. charged' = charged
    BY <2>1 DEF ClaimImage
  <2>3. /\ \A i \in Handlers : i # h => handlers'[i] = handlers[i]
        /\ \/ handlers' = handlers
           \/ /\ issued' = issued + 1 /\ At(h, "claimed")' /\ T(h)' = t
              /\ K(h)' = issued'
    BY <2>1, StartEffect
  <2>4. issued + 1 \notin charged[t]
    BY Reads, MediaConstants DEF Issued
  <2>5. "claimed" \notin Paid
    BY DEF Paid
  <2>6. CASE handlers'[g] = handlers[g]
    BY <1>3, <2>2, <2>6 DEF K, T
  <2>7. CASE handlers'[g] # handlers[g]
    BY <2>2, <2>3, <2>4, <2>5, <2>7 DEF At
  <2> QED BY <2>6, <2>7
<1>9. ASSUME Others, NEW g \in Handlers
      PROVE  Ok(g)'
  BY <1>3, <1>9, OthersLeave DEF K, T
<1>10. \/ charged' = charged \/ \E h \in Handlers : Invoke(h)
  BY WhoWrites
<1> HIDE DEF Ok
<1>11. \A g \in Handlers : Ok(g)'
  BY <1>5, <1>6, <1>8, <1>9, <1>10, WhoSteps
<1> QED BY <1>2, <1>11 DEF Charges, Ok

\* No row is at work past the fence, or of unknown outcome, without room.
PastFenceHolds(u) ==
  \/ requests[u].status = "processing" /\ requests[u].phase = 1
  \/ requests[u].status = "recovery_required"
  => authority[u].state = "reserved"

\* No handler that reached the mirror does without.
FencedHolds(g) ==
  handlers[g].at \in {"mirror", "fence"} /\ Owns(T(g), K(g), 0)
    => authority[T(g)].state = "reserved"

\* RoomIsHeld is about each purchase and each handler.
LEMMA RoomByRows ==
  RoomIsHeld <=> /\ \A u \in Turns : PastFenceHolds(u)
                 /\ \A g \in Handlers : FencedHolds(g)
BY DEF RoomIsHeld, PastFenceHolds, FencedHolds

\* A claim takes over no row past the fence, and drops no room that is held.
LEMMA RoomAtStart ==
  ASSUME StoresInv, Issued, RoomIsHeld, NEW h \in Handlers, Starts(h)
  PROVE  RoomIsHeld'
<1>1. PICK t \in Turns, d \in Digests, lag \in Lags : ClaimImage(h, t, d, lag)
  BY DEF Starts
<1>2. Claim(t, d, lag)
  BY <1>1 DEF ClaimImage
<1>3. ASSUME NEW u \in Turns, authority[u].state = "reserved"
      PROVE  authority'[u] = authority[u]
  <2>1. \/ authority'[u] = authority[u]
        \/ authority[u].state \in {"none", "acked"}
    BY <1>2, ClaimEffect
  <2> QED BY <1>3, <2>1
<1>4. ASSUME NEW u \in Turns PROVE PastFenceHolds(u)'
  <2>1. requests'[u].status = "processing" /\ requests'[u].phase = 1
          => requests'[u] = requests[u]
    BY <1>2, ClaimTokens
  <2>2. requests'[u].status = "recovery_required" =>
              \/ requests[u].status = "recovery_required"
              \/ requests[u].status = "processing" /\ requests[u].phase = 1
    BY <1>2, ClaimEffect
  <2> QED BY <1>3, <2>1, <2>2 DEF RoomIsHeld, PastFenceHolds
<1>5. ASSUME NEW g \in Handlers, At(g, "mirror")' \/ At(g, "fence")',
             (Owns(T(g), K(g), 0))'
      PROVE  authority'[T(g)'].state = "reserved"
  <2>1. handlers'[g] = handlers[g]
    BY <1>1, <1>5, StartEffect DEF At
  <2>2. ~ At(g, "idle") /\ (At(g, "mirror") \/ At(g, "fence"))
    BY <1>5, <2>1 DEF At
  <2>3. T(g) \in Turns /\ K(g) \in Tokens /\ K(g) <= issued
        /\ K(g) \in Nat
    BY <2>2, Reads, MediaConstants DEF Issued, Tokens
  <2>4. requests'[T(g)] = requests[T(g)]
    <3>1. Owns(T(g), K(g), 0)'
      BY <1>5
    <3>2. /\ (requests[T(g)].status = "processing")'
          /\ (requests[T(g)].token = K(g))'
      BY <3>1 DEF Owns
    <3>3. requests'[T(g)].status = "processing" /\ requests'[T(g)].token = K(g)
      BY <2>1, <3>2 DEF T, K
    <3>4. \/ requests'[T(g)] = requests[T(g)]
          \/ issued' = issued + 1 /\ requests'[T(g)].token = issued'
      BY <1>2, <2>3, <3>3, ClaimTokens
    <3> QED BY <2>3, <3>3, <3>4, Reads, MediaConstants
  <2>5. Owns(T(g), K(g), 0)
    BY <1>5, <2>1, <2>4 DEF Owns, T, K
  <2>6. authority[T(g)].state = "reserved"
    BY <2>2, <2>5 DEF RoomIsHeld, At
  <2> QED BY <1>3, <2>1, <2>3, <2>6 DEF T
<1> QED BY <1>4, <1>5, RoomByRows DEF RoomIsHeld, PastFenceHolds, At

\* The other steps that write the rows write one.
LEMMA OneRow ==
  ASSUME StoresInv, NEW h \in Handlers, RowOps(h), NEW u \in Turns, u # T(h)
  PROVE  requests'[u] = requests[u] /\ authority'[u] = authority[u]
BY DEF RowOps, ReserveAssets, EnterProviderPhase, Abandon, Drop, DropAuthority,
   SucceedAssets, MarkRecovery, StoresInv, StoreInv, TypeOK

\* A handler passes the fence only with its room, and gives it back only when
\* it never called the provider.
LEMMA RoomAtMoves ==
  ASSUME StoresInv, Issued, RoomIsHeld, NEW h \in Handlers, Moves(h)
  PROVE  RoomIsHeld'
<1>1. /\ Steady(h) /\ ~ At(h, "idle") /\ T(h) \in Turns /\ K(h) # 0
      /\ K(h) \in Int
  BY HandlerMoves, Reads, MediaConstants DEF Tokens
<1>2. /\ requests \in [Turns -> Request] /\ authority \in [Turns -> Authority]
      /\ requests[T(h)] \in Request
  BY <1>1 DEF StoresInv, StoreInv, TypeOK
<1>3. /\ NoRequest.status = "absent" /\ NoRequest.token = 0
      /\ Reserved.state = "reserved"
  BY DEF NoRequest, NoAuthority, Reserved
<1>4. /\ \A u \in Turns : PastFenceHolds(u)
      /\ \A g \in Handlers : FencedHolds(g)
  BY RoomByRows
<1>0. PICK t \in Turns, k \in Int : t = T(h) /\ k = K(h)
  BY <1>1
<1>5. CASE UNCHANGED vars
  <2>1. requests' = requests /\ authority' = authority
    BY <1>5 DEF vars
  <2>2. \A u \in Turns : PastFenceHolds(u)'
    BY <1>4, <2>1 DEF PastFenceHolds
  <2>3. ASSUME NEW g \in Handlers PROVE FencedHolds(g)'
    <3>1. CASE ReserveRoom(h) /\ g = h
      <4>1. authority'[t].state = "reserved"
        BY <1>0, <1>2, <1>3, <1>5, <3>1 DEF ReserveRoom, ReserveAssets, vars
      <4>2. T(h)' = T(h) \/ handlers'[h] = Idle
        BY <1>1 DEF Steady
      <4>3. Idle.at = "idle"
        BY DEF Idle
      <4> QED BY <1>0, <3>1, <4>1, <4>2, <4>3 DEF FencedHolds
    <3>2. CASE ~ ReserveRoom(h) \/ g # h
      <4>1. \/ handlers'[g].at = "idle"
            \/ /\ T(g)' = T(g) /\ K(g)' = K(g)
               /\ handlers'[g].at \in {"mirror", "fence"} =>
                    handlers[g].at \in {"mirror", "fence"}
        BY <1>1, <3>2 DEF Steady, Alike, Idle
      <4> QED BY <1>4, <2>1, <4>1 DEF FencedHolds, Owns
    <3> QED BY <3>1, <3>2
  <2> QED BY <2>2, <2>3, RoomByRows DEF RoomIsHeld, PastFenceHolds, FencedHolds
<1>6. CASE RowOps(h)
  <2>1. \A u \in Turns : u # t => requests'[u] = requests[u]
                                  /\ authority'[u] = authority[u]
    BY <1>0, <1>6, OneRow
  <2>2. requests[t].token = k /\ requests[t].status = "processing"
    BY <1>0, <1>6 DEF RowOps, ReserveAssets, EnterProviderPhase, Abandon,
       SucceedAssets, MarkRecovery, Owns
  <2>3. requests'[t].token \in {0, k}
    <3>1. CASE ReserveAssets(t, k) \/ EnterProviderPhase(t, k)
      BY <1>0, <1>2, <2>2, <3>1 DEF ReserveAssets, EnterProviderPhase, Request
    <3>2. CASE Abandon(t, k, 0) \/ Abandon(t, k, 1)
      BY <1>0, <1>3, <3>2 DEF Abandon, Drop
    <3>3. CASE SucceedAssets(t, k)
      BY <1>0, <1>2, <3>3 DEF SucceedAssets, SucceededWith, Request
    <3>4. CASE \E lag \in Lags : MarkRecovery(t, k, lag)
      BY <1>0, <1>2, <3>4 DEF MarkRecovery, Concluded, Request
    <3> QED BY <1>0, <1>6, <3>1, <3>2, <3>3, <3>4 DEF RowOps
  <2>4. PastFenceHolds(t)'
    <3>1. CASE At(h, "claimed") /\ ReserveAssets(t, k)
      BY <1>2, <1>3, <3>1 DEF ReserveAssets, PastFenceHolds
    <3>2. CASE At(h, "fence") /\ EnterProviderPhase(t, k)
      BY <1>0, <1>2, <1>4, <3>2
         DEF EnterProviderPhase, PastFenceHolds, FencedHolds, At
    <3>3. CASE Abandon(t, k, 0) \/ Abandon(t, k, 1)
      BY <1>1, <1>3, <3>3 DEF Abandon, Drop, PastFenceHolds
    <3>4. CASE SucceedAssets(t, k)
      BY <1>2, <3>4 DEF SucceedAssets, SucceededWith, PastFenceHolds
    <3>5. CASE \E lag \in Lags : MarkRecovery(t, k, lag)
      BY <1>2, <1>4, <3>5
         DEF MarkRecovery, Owns, Concluded, PastFenceHolds
    <3> QED BY <1>0, <1>6, <3>1, <3>2, <3>3, <3>4, <3>5 DEF RowOps
  <2>5. ASSUME NEW g \in Handlers, g # h PROVE FencedHolds(g)'
    <3>1. handlers'[g] = handlers[g]
      BY <1>1, <2>5 DEF Steady
    <3>2. K(g) # k
      BY <1>0, <1>1, <2>5 DEF Issued
    <3>3. ASSUME handlers[g].at \in {"mirror", "fence"}
          PROVE T(g) \in Turns /\ K(g) # 0
      BY <3>3, Reads, MediaConstants DEF At, Tokens
    <3>4. T(g) = t /\ handlers[g].at \in {"mirror", "fence"}
            => requests'[t].token # K(g)
      BY <2>3, <3>2, <3>3
    <3> QED BY <1>4, <2>1, <3>1, <3>3, <3>4 DEF FencedHolds, Owns, T, K
  <2>6. FencedHolds(h)'
    <3>1. CASE handlers'[h].at \notin {"mirror", "fence"}
      BY <3>1 DEF FencedHolds
    <3>2. CASE handlers'[h].at \in {"mirror", "fence"}
      <4>1. T(h)' = t /\ K(h)' = k
        BY <1>0, <1>1, <3>2 DEF Steady, Idle
      <4>2. At(h, "claimed") \/ At(h, "fence")
        <5>1. handlers[h].at \in {"mirror", "fence"} \/ At(h, "claimed")
          BY <1>1, <3>2 DEF Steady, Alike, Idle, ReserveRoom, StoreCall
        <5>2. ~ At(h, "mirror")
          BY <1>6 DEF RowOps, At
        <5> QED BY <5>1, <5>2 DEF At
      <4>3. CASE At(h, "claimed")
        BY <1>0, <1>2, <1>3, <1>6, <4>1, <4>3
           DEF RowOps, At, ReserveAssets, FencedHolds
      <4>4. CASE At(h, "fence")
        <5>1. EnterProviderPhase(t, k)
          BY <1>0, <1>6, <4>4 DEF RowOps, At
        <5>2. requests'[t].phase = 1
          BY <1>0, <1>2, <5>1 DEF EnterProviderPhase, Request
        <5> QED BY <4>1, <5>2 DEF FencedHolds, Owns
      <4> QED BY <4>2, <4>3, <4>4
    <3> QED BY <3>1, <3>2
  <2> QED
    BY <2>1, <2>4, <2>5, <2>6, <1>4, RoomByRows
       DEF RoomIsHeld, PastFenceHolds, FencedHolds
<1> QED BY <1>5, <1>6, RowOf

\* The clock and the buyers change no row that is not answered, but its times.
LEMMA OtherRows ==
  ASSUME StoresInv, Others, NEW u \in Turns
  PROVE  /\ requests'[u].status = requests[u].status
         /\ requests'[u].phase = requests[u].phase
         /\ requests'[u].token = requests[u].token
         /\ requests'[u].doc = requests[u].doc
         /\ \/ authority'[u] = authority[u]
            \/ \E a \in Archives :
                 /\ Acknowledge(u, a) /\ authority[u].state = "committed"
                 /\ authority'[u].state = "acked_pending_cleanup"
                 /\ authority'[u].tokens = authority[u].tokens
                 /\ authority'[u].archive = a
            \/ \E lag \in Lags :
                 /\ AckDone(u, lag)
                 /\ authority[u].state = "acked_pending_cleanup"
                 /\ authority'[u].state = "acked"
                 /\ authority'[u].tokens = authority[u].tokens
<1>1. /\ requests \in [Turns -> Request] /\ authority \in [Turns -> Authority]
      /\ requests[u] \in Request /\ authority[u] \in Authority
  BY DEF StoresInv, StoreInv, TypeOK
<1>2. CASE UNCHANGED vars
  BY <1>2 DEF vars
<1>3. CASE ImageTick
  BY <1>1, <1>3 DEF ImageTick, Tick, Aged, Request
<1>4. ASSUME NEW t \in Turns, NEW a \in Archives, Acknowledge(t, a)
      PROVE  /\ requests' = requests
             /\ u # t => authority'[u] = authority[u]
             /\ u = t => /\ authority[u].state = "committed"
                         /\ authority'[u].state = "acked_pending_cleanup"
                         /\ authority'[u].tokens = authority[u].tokens
                         /\ authority'[u].archive = a
  <2>1. /\ requests' = requests /\ authority[t].state = "committed"
        /\ authority' = [authority EXCEPT ![t] =
             [authority[t] EXCEPT !.state = "acked_pending_cleanup",
                                  !.archive = a]]
    BY <1>1, <1>4 DEF Acknowledge, AckAssets
  <2> QED BY <1>1, <2>1 DEF Authority
<1>5. ASSUME NEW t \in Turns, NEW lag \in Lags, AckDone(t, lag)
      PROVE  /\ requests'[u].status = requests[u].status
             /\ requests'[u].phase = requests[u].phase
             /\ requests'[u].token = requests[u].token
             /\ requests'[u].doc = requests[u].doc
             /\ u # t => authority'[u] = authority[u]
             /\ u = t => /\ authority[u].state = "acked_pending_cleanup"
                         /\ authority'[u].state = "acked"
                         /\ authority'[u].tokens = authority[u].tokens
  <2>1. /\ authority' = [authority EXCEPT ![t].state = "acked"]
        /\ requests' = [requests EXCEPT ![t].keep = Retention - lag]
        /\ authority[t].state = "acked_pending_cleanup"
    BY <1>5 DEF AckDone, CompleteAck
  <2> QED BY <1>1, <2>1 DEF Authority, Request
<1>6. \/ UNCHANGED vars \/ ImageTick
      \/ \E t \in Turns : \/ \E a \in Archives : Acknowledge(t, a)
                          \/ \E lag \in Lags : AckDone(t, lag)
  BY DEF Others, StagingStep, AckStep, Look, PinAsset, PinRefused, LookAgain,
         CloseDownload
<1>7. CASE \E t \in Turns, a \in Archives : Acknowledge(t, a)
  BY <1>4, <1>7
<1>8. CASE \E t \in Turns, lag \in Lags : AckDone(t, lag)
  BY <1>5, <1>8
<1> QED BY <1>2, <1>3, <1>6, <1>7, <1>8

\* Whatever may have been paid for has its room on record.
LEMMA RoomStep ==
  ASSUME StoresInv, Issued, RoomIsHeld, ImageNext
  PROVE  RoomIsHeld'
<1>1. CASE Others
  <2>1. handlers' = handlers
    BY <1>1, OthersLeave
  <2>2. \A u \in Turns : /\ requests'[u].status = requests[u].status
                         /\ requests'[u].phase = requests[u].phase
                         /\ requests'[u].token = requests[u].token
                         /\ authority[u].state = "reserved" =>
                              authority'[u] = authority[u]
    BY <1>1, OtherRows
  <2>3. \A g \in Handlers : ~ At(g, "idle") => T(g) \in Turns
    BY Reads
  <2>4. ASSUME NEW u \in Turns PROVE PastFenceHolds(u)'
    BY <2>2 DEF RoomIsHeld, PastFenceHolds
  <2>5. ASSUME NEW g \in Handlers PROVE FencedHolds(g)'
    BY <2>1, <2>2, <2>3 DEF RoomIsHeld, FencedHolds, Owns, At, T, K
  <2> QED BY <2>4, <2>5, RoomByRows DEF RoomIsHeld, PastFenceHolds, FencedHolds
<1> QED BY <1>1, WhoSteps, RoomAtStart, RoomAtMoves

-----------------------------------------------------------------------------
(* One purchase may cost, and it is on record.                             *)

\* A receipt is written once, by an acknowledgement that has none.
LEMMA ReceiptsStay ==
  ASSUME StoresInv, ImageNext, NEW t \in Turns
  PROVE  \/ receipts'[t] = receipts[t]
         \/ /\ receipts[t] = NoReceipt /\ CleansUp(t)
            /\ AckReceipt(t, Doc(t), authority[t].archive)
            /\ receipts'[t] = [tokens |-> Doc(t), archive |-> authority[t].archive]
<1>1. receipts \in [Turns -> Receipt]
  BY DEF StoresInv, AssetInv, FilesAreKept, FilesInv, AssetTypeOK
<1>2. ASSUME NEW u \in Turns, AckStep(u)
      PROVE  \/ receipts' = receipts
             \/ CleansUp(u) /\ AckReceipt(u, Doc(u), authority[u].archive)
  BY <1>2 DEF AckStep, AckWait, AckErase, AckRemove, assetRows
<1>3. receipts' = receipts \/ \E u \in Turns : AckStep(u)
  BY WhoWrites
     DEF ImageTick, AssetTick, ReconcileFirst, ReserveMirror, ReleaseMirror,
         UnfenceMirror, FinalizeImage, Stage, Reconcile, ReconcileCut, Reserve, Release,
         Finalize, Download, PinAsset, Open, CloseDownload, Close, StagingStep,
         InsertPending, Move, Promote, PromoteFails, StageFails, StageCrash,
         assetRows, assetVars
<1>4. ASSUME NEW u \in Turns, CleansUp(u),
             AckReceipt(u, Doc(u), authority[u].archive),
             receipts'[t] # receipts[t]
      PROVE  /\ u = t /\ receipts[t] = NoReceipt
             /\ receipts'[t] = [tokens |-> Doc(t), archive |-> authority[t].archive]
  BY <1>1, <1>4 DEF AckReceipt
<1> QED BY <1>2, <1>3, <1>4

\* Only entering the provider phase adds to what may cost.
LEMMA CostsStay ==
  ASSUME StoresInv, ImageNext, NEW t \in Turns, NEW k \in Tokens,
         MayCost(t, k)'
  PROVE  \/ MayCost(t, k)
         \/ \E h \in Handlers : EnterPhase(h) /\ T(h) = t /\ K(h) = k
<1>1. receipts[t].tokens # k
  <2>1. receipts'[t].tokens # k
    BY DEF MayCost
  <2>2. k # 0 /\ NoReceipt.tokens = 0
    BY MediaConstants DEF NoReceipt, Tokens
  <2>3. receipts'[t] = receipts[t] \/ receipts[t] = NoReceipt
    BY ReceiptsStay
  <2> QED BY <2>1, <2>2, <2>3
<1>2. ASSUME k \in charged'[t]
      PROVE  MayCost(t, k)
  <2>1. CASE k \in charged[t]
    BY <1>1, <2>1 DEF MayCost
  <2>2. ASSUME NEW h \in Handlers, Invoke(h), k \notin charged[t]
        PROVE  MayCost(t, k)
    <3>1. T(h) = t /\ K(h) = k
      BY <1>2, <2>2 DEF Invoke, StoresInv, ImageTyped
    <3>2. handlers[h].at \in PastFence
      BY <2>2 DEF Invoke, At, PastFence, AfterFence
    <3> QED BY <1>1, <3>1, <3>2 DEF MayCost
  <2> QED BY <1>2, <2>1, <2>2, WhoWrites
<1>3. ASSUME NEW g \in Handlers, T(g)' = t, K(g)' = k,
             handlers'[g].at \in PastFence
      PROVE  \/ MayCost(t, k)
             \/ \E h \in Handlers : EnterPhase(h) /\ T(h) = t /\ K(h) = k
  <2>1. CASE handlers'[g] = handlers[g]
    BY <1>1, <1>3, <2>1 DEF MayCost, T, K
  <2>2. ASSUME NEW h \in Handlers, Moves(h), handlers'[g] # handlers[g]
        PROVE  \/ MayCost(t, k)
               \/ EnterPhase(h) /\ T(h) = t /\ K(h) = k
    <3>1. g = h /\ T(g)' = T(g) /\ K(g)' = K(g)
          /\ (handlers[g].at \in PastFence \/ EnterPhase(h))
      BY <1>3, <2>2, HandlerMoves
         DEF Steady, Alike, Idle, PastFence, AfterFence
    <3>2. CASE handlers[g].at \in PastFence
      BY <1>1, <1>3, <3>1, <3>2 DEF MayCost
    <3> QED BY <1>3, <3>1, <3>2
  <2>3. ASSUME NEW h \in Handlers, Starts(h)
        PROVE  handlers'[g] = handlers[g]
    BY <1>3, <2>3, StartEffect DEF Starts, At, PastFence, AfterFence
  <2> QED BY <2>1, <2>2, <2>3, WhoSteps, OthersLeave
<1> QED BY <1>2, <1>3 DEF MayCost

\* What may cost stays on record until it is collected.
LEMMA RecordsStay ==
  ASSUME StoresInv, Issued, Charges, RoomIsHeld, ImageNext,
         NEW t \in Turns, NEW k \in Tokens, MayCost(t, k), OnRecord(t, k)
  PROVE  OnRecord(t, k)'
<1>1. /\ requests \in [Turns -> Request] /\ authority \in [Turns -> Authority]
      /\ requests[t] \in Request /\ authority[t] \in Authority
      /\ k \in Nat /\ k # 0
  BY MediaConstants DEF StoresInv, StoreInv, TypeOK, Tokens
<1>2. authority[t].state \in Holding
  BY DEF RoomIsHeld, OnRecord, Owns, Holding
<1>3. ASSUME NEW h \in Handlers, Starts(h)
      PROVE  OnRecord(t, k)'
  <2>1. PICK u \in Turns, d \in Digests, lag \in Lags : Claim(u, d, lag)
    BY <1>3 DEF Starts, ClaimImage
  <2>2. /\ authority'[t] = authority[t]
        /\ \/ /\ requests'[t].status = requests[t].status
              /\ requests'[t].phase = requests[t].phase
              /\ requests'[t].doc = requests[t].doc
           \/ requests'[t].status = "recovery_required"
    BY <1>2, <2>1, ClaimEffect DEF Holding
  <2>3. requests'[t].status = "processing" /\ requests'[t].phase = 1
          => requests'[t] = requests[t]
    BY <2>1, ClaimTokens
  <2> QED BY <2>2, <2>3 DEF OnRecord, Owns
<1>4. CASE Others
  <2>1. /\ requests'[t].status = requests[t].status
        /\ requests'[t].phase = requests[t].phase
        /\ requests'[t].token = requests[t].token
        /\ requests'[t].doc = requests[t].doc
    BY <1>4, OtherRows
  <2>2. CASE authority'[t].state \in Holding
    BY <2>1, <2>2 DEF OnRecord, Owns
  <2>3. ASSUME NEW lag \in Lags, AckDone(t, lag)
        PROVE  requests[t].doc # k
    BY <2>3 DEF AckDone, Cleaned, Doc, MayCost
  <2>4. CASE requests[t].status = "succeeded" /\ requests[t].doc = k
    BY <1>2, <1>4, <2>2, <2>3, <2>4, OtherRows DEF Holding
  <2> QED BY <2>1, <2>4 DEF OnRecord, Owns
<1>5. ASSUME NEW h \in Handlers, Moves(h)
      PROVE  OnRecord(t, k)'
  <2>1. CASE UNCHANGED vars
    BY <2>1 DEF vars, OnRecord, Owns
  <2>2. CASE RowOps(h) /\ T(h) # t
    <3>1. requests'[t] = requests[t] /\ authority'[t] = authority[t]
      BY <2>2, OneRow
    <3> QED BY <3>1 DEF OnRecord, Owns
  <2>3. CASE RowOps(h) /\ T(h) = t
    <3>1. \E phase \in 0..1 : Owns(t, K(h), phase)
      BY <2>3 DEF RowOps, ReserveAssets, EnterProviderPhase, Abandon,
         SucceedAssets, MarkRecovery
    <3>2. Owns(t, k, 1) /\ K(h) = k
      BY <3>1 DEF OnRecord, Owns
    <3>3. ~ At(h, "undo")
      <4> SUFFICES ASSUME At(h, "undo") PROVE FALSE
        OBVIOUS
      <4>1. k \notin charged[t]
        BY <2>3, <3>2 DEF Charges, Unpaid, At
      <4>2. PICK g \in Handlers : K(g) = k /\ handlers[g].at \in PastFence
        BY <4>1 DEF MayCost
      <4>3. g = h
        BY <1>1, <3>2, <4>2 DEF Issued
      <4> QED BY <4>2, <4>3 DEF PastFence, AfterFence, At
    <3>4. SucceedAssets(t, k) \/ \E lag \in Lags : MarkRecovery(t, k, lag)
      BY <2>3, <3>2, <3>3 DEF RowOps, ReserveAssets, EnterProviderPhase,
         Abandon, Owns
    <3>5. CASE SucceedAssets(t, k)
      <4>1. /\ requests' = [requests EXCEPT ![t] =
                 SucceededWith(requests[t], k, Forever)]
            /\ authority'[t].state = "committed"
        BY <1>1, <3>5 DEF SucceedAssets, Authority
      <4>2. requests'[t].status = "succeeded" /\ requests'[t].doc = k
        BY <1>1, <4>1 DEF SucceededWith, Request
      <4> QED BY <4>1, <4>2 DEF OnRecord, Holding
    <3>6. CASE \E lag \in Lags : MarkRecovery(t, k, lag)
      BY <1>1, <3>6 DEF MarkRecovery, Concluded, Request, OnRecord
    <3> QED BY <3>4, <3>5, <3>6
  <2> QED BY <1>5, <2>1, <2>2, <2>3, RowOf
<1> QED BY <1>3, <1>4, <1>5, WhoSteps

\* Only one claim of a purchase may cost, and it stays on record.
LEMMA OnePurchaseStep ==
  ASSUME StoresInv, Issued, Charges, RoomIsHeld, OnePurchase, ImageNext
  PROVE  OnePurchase'
<1>1. ASSUME NEW h \in Handlers, EnterPhase(h)
      PROVE  /\ T(h) \in Turns /\ K(h) \in Tokens
             /\ \A j \in Tokens : ~ MayCost(T(h), j)
             /\ \A k : k = K(h) => \A t : t = T(h) => OnRecord(t, k)'
  <2>1. At(h, "fence") /\ EnterProviderPhase(T(h), K(h))
    BY <1>1 DEF EnterPhase, StoreCall
  <2>2. T(h) \in Turns /\ K(h) \in Tokens
    BY <2>1, Reads DEF At
  <2>3. PICK t \in Turns, k \in Tokens : t = T(h) /\ k = K(h)
    BY <2>2
  <2>4. requests \in [Turns -> Request] /\ requests[t] \in Request
    BY DEF StoresInv, StoreInv, TypeOK
  <2>5. requests' = [requests EXCEPT ![t] = [requests[t] EXCEPT !.phase = 1]]
        /\ requests[t].status = "processing" /\ requests[t].phase = 0
        /\ requests[t].token = k
    BY <2>1, <2>3 DEF EnterProviderPhase, Owns
  <2>6. requests'[t].status = "processing" /\ requests'[t].phase = 1
        /\ requests'[t].token = k
    BY <2>4, <2>5 DEF Request
  <2>7. OnRecord(t, k)'
    BY <2>6 DEF OnRecord, Owns
  <2>8. \A j \in Tokens : ~ MayCost(t, j)
    BY <2>5 DEF OnePurchase, OnRecord, Owns
  <2> QED BY <2>2, <2>3, <2>7, <2>8
<1>2. ASSUME NEW t \in Turns, NEW k \in Tokens, MayCost(t, k)'
      PROVE  OnRecord(t, k)' /\ \A j \in Tokens : MayCost(t, j)' => j = k
  <2>1. CASE \E h \in Handlers : EnterPhase(h) /\ T(h) = t
    <3>1. PICK h \in Handlers : EnterPhase(h) /\ T(h) = t
      BY <2>1
    <3>2. \A j \in Tokens : ~ MayCost(t, j)
      BY <1>1, <3>1
    <3>3. \A j \in Tokens : MayCost(t, j)' =>
            \E g \in Handlers : EnterPhase(g) /\ T(g) = t /\ K(g) = j
      BY <3>2, CostsStay
    <3>4. \A g \in Handlers : EnterPhase(g) => K(g) = K(h) \/ T(g) # t
      BY <3>1 DEF EnterPhase, EnterProviderPhase, Owns
    <3>5. k = K(h) /\ \A j \in Tokens : MayCost(t, j)' => j = K(h)
      BY <1>2, <3>3, <3>4
    <3> QED BY <1>1, <3>1, <3>5
  <2>2. CASE ~ \E h \in Handlers : EnterPhase(h) /\ T(h) = t
    <3>1. \A j \in Tokens : MayCost(t, j)' => MayCost(t, j)
      BY <2>2, CostsStay
    <3>2. MayCost(t, k) /\ OnRecord(t, k) /\ \A j \in Tokens : MayCost(t, j) => j = k
      BY <1>2, <3>1 DEF OnePurchase
    <3> QED BY <3>1, <3>2, RecordsStay
  <2> QED BY <2>1, <2>2
<1> QED BY <1>2 DEF OnePurchase

-----------------------------------------------------------------------------
(* What is recorded was finished, and is acknowledged in order.            *)

\* What a step may do to the authority of a purchase.
LEMMA AuthorityPath ==
  ASSUME StoresInv, ImageNext, NEW t \in Turns
  PROVE  \/ authority'[t] = authority[t]
         \/ /\ authority[t].state \in {"none", "reserved", "acked"}
            /\ authority'[t] \in {NoAuthority, Reserved}
         \/ \E h \in Handlers :
              /\ At(h, "persist") /\ T(h) = t /\ Owns(t, K(h), 1)
              /\ authority[t].state = "reserved"
              /\ authority'[t].state = "committed"
              /\ authority'[t].tokens = K(h)
         \/ /\ authority[t].state = "committed"
            /\ authority'[t].state = "acked_pending_cleanup"
            /\ authority'[t].tokens = authority[t].tokens
         \/ /\ \E lag \in Lags : AckDone(t, lag)
            /\ authority[t].state = "acked_pending_cleanup"
            /\ authority'[t].state = "acked"
            /\ authority'[t].tokens = authority[t].tokens
<1>1. /\ authority \in [Turns -> Authority] /\ authority[t] \in Authority
      /\ RowOK(requests[t], authority[t])
  BY RowsOfInv DEF StoresInv, StoreInv, TypeOK
<1>2. CASE Others
  BY <1>2, OtherRows
<1>3. ASSUME NEW h \in Handlers, Starts(h)
      PROVE  \/ authority'[t] = authority[t]
             \/ /\ authority[t].state \in {"none", "acked"}
                /\ authority'[t] = NoAuthority
  BY <1>3, ClaimEffect DEF Starts, ClaimImage
<1>4. ASSUME NEW h \in Handlers, RowOps(h), T(h) = t
      PROVE  \/ authority'[t] = authority[t]
             \/ /\ authority[t].state \in {"none", "reserved"}
                /\ authority'[t] \in {NoAuthority, Reserved}
             \/ /\ At(h, "persist") /\ Owns(t, K(h), 1)
                /\ authority[t].state = "reserved"
                /\ authority'[t].state = "committed"
                /\ authority'[t].tokens = K(h)
  <2>1. PICK k : k = K(h)
    OBVIOUS
  <2>2. CASE ReserveAssets(t, k)
    BY <1>1, <2>2 DEF ReserveAssets
  <2>3. CASE EnterProviderPhase(t, k) \/ \E lag \in Lags : MarkRecovery(t, k, lag)
    BY <2>3 DEF EnterProviderPhase, MarkRecovery
  <2>4. CASE Abandon(t, k, 0) \/ Abandon(t, k, 1)
    <3>1. requests[t].status = "processing" /\ authority'[t] = NoAuthority
      BY <2>4 DEF Abandon, Owns, DropAuthority
    <3>2. authority[t].state \in {"none", "reserved"}
      BY <1>1, <3>1 DEF RowOK, Authority
    <3> QED BY <3>1, <3>2
  <2>5. CASE At(h, "persist") /\ SucceedAssets(t, k)
    <3>1. /\ Owns(t, k, 1) /\ authority[t].state = "reserved"
          /\ authority' = [authority EXCEPT ![t] =
               [authority[t] EXCEPT !.state = "committed", !.tokens = k]]
      BY <1>1, <2>5 DEF SucceedAssets
    <3> QED BY <1>1, <2>1, <2>5, <3>1 DEF Authority
  <2> QED BY <1>4, <2>1, <2>2, <2>3, <2>4, <2>5 DEF RowOps
<1>5. ASSUME NEW h \in Handlers, RowOps(h), T(h) # t
      PROVE  authority'[t] = authority[t]
  BY <1>5, OneRow
<1>6. UNCHANGED vars => authority'[t] = authority[t]
  BY DEF vars
<1> QED BY <1>2, <1>3, <1>4, <1>5, <1>6, WhoSteps, RowOf

\* What a step may do to the reservation of a purchase.
LEMMA ReservationPath ==
  ASSUME StoresInv, ImageNext, NEW t \in Turns
  PROVE  \/ reservations'[t] = reservations[t]
         \/ /\ reservations[t].state \in {"none", "active"}
            /\ reservations'[t].state \in {"none", "active", "committed"}
         \/ reservations[t].state = "acked" /\ reservations'[t] = Free
         \/ /\ CleansUp(t) /\ AckReceipt(t, Doc(t), authority[t].archive)
            /\ UNCHANGED vars
<1>1. reservations \in [Turns -> Reservation] /\ reservations[t] \in Reservation
  BY DEF StoresInv, AssetInv, FilesAreKept, FilesInv, AssetTypeOK
<1>2. ASSUME NEW h \in Handlers, ReserveMirror(h) \/ ReleaseMirror(h)
                                 \/ UnfenceMirror(h)
      PROVE  \/ reservations'[t] = reservations[t]
             \/ /\ reservations[t].state \in {"none", "active"}
                /\ reservations'[t].state \in {"none", "active", "committed"}
  BY <1>1, <1>2 DEF ReserveMirror, ReleaseMirror, UnfenceMirror, Reserve,
     Release, Releasable, Active, Free, assetVars
<1>3. ASSUME NEW h \in Handlers, FinalizeImage(h)
      PROVE  \/ reservations'[t] = reservations[t]
             \/ /\ reservations[t].state \in {"none", "active"}
                /\ reservations'[t].state \in {"none", "active", "committed"}
  BY <1>1, <1>3 DEF FinalizeImage, Finalize
<1>4. ASSUME NEW u \in Turns, AckStep(u)
      PROVE  \/ reservations'[t] = reservations[t]
             \/ reservations[t].state = "acked" /\ reservations'[t] = Free
             \/ /\ CleansUp(t) /\ AckReceipt(t, Doc(t), authority[t].archive)
                /\ UNCHANGED vars
  <2>1. CASE AckReceipt(u, Doc(u), authority[u].archive)
    <3>1. CleansUp(u) /\ UNCHANGED vars
      BY <1>4 DEF AckStep
    <3>2. u # t => reservations'[t] = reservations[t]
      BY <1>1, <2>1 DEF AckReceipt
    <3> QED BY <2>1, <3>1, <3>2
  <2>2. CASE AckWait(u) \/ AckErase(u)
    BY <2>2 DEF AckWait, AckErase, assetRows
  <2>3. CASE AckRemove(u)
    <3>1. u # t => reservations'[t] = reservations[t]
      BY <1>1, <2>3 DEF AckRemove
    <3>2. u = t => reservations'[t] = Free /\ t \in drained
      BY <1>1, <2>3 DEF AckRemove
    <3>3. t \in drained => reservations[t].state = "acked"
      BY DEF StoresInv, AssetInv, Draining
    <3> QED BY <3>1, <3>2, <3>3
  <2> QED BY <1>4, <2>1, <2>2, <2>3 DEF AckStep
<1>5. \/ reservations' = reservations
      \/ \E h \in Handlers : \/ ReserveMirror(h) \/ ReleaseMirror(h)
                             \/ UnfenceMirror(h) \/ FinalizeImage(h)
      \/ \E u \in Turns : AckStep(u)
  BY WhoWrites
     DEF ImageTick, AssetTick, ReconcileFirst, Stage, Reconcile, ReconcileCut, Download,
         PinAsset, Open, CloseDownload, Close, StagingStep, InsertPending,
         Move, Promote, PromoteFails, StageFails, StageCrash, assetRows,
         assetVars
<1> QED BY <1>2, <1>3, <1>4, <1>5

\* What is finished stays so until its acknowledgement is on record.
LEMMA CommittedStays ==
  ASSUME StoresInv, ImageNext, NEW t \in Turns,
         reservations[t].state = "committed",
         authority[t].state \in {"reserved", "committed"}
  PROVE  reservations'[t] = reservations[t]
BY ReservationPath DEF CleansUp

\* What is recorded, or about to be, stays finished until it is acknowledged.
LEMMA FinishedStep ==
  ASSUME StoresInv, Issued, RoomIsHeld, Finished, ImageNext
  PROVE  Finished'
<1>0. requests \in [Turns -> Request]
  BY DEF StoresInv, StoreInv, TypeOK
<1>1. ASSUME NEW h \in Handlers, At(h, "persist"), Owns(T(h), K(h), 1)
      PROVE  reservations'[T(h)] = [state |-> "committed", tokens |-> K(h)]
  <2>1. T(h) \in Turns
    BY <1>1, Reads DEF At
  <2>2. PICK t \in Turns : t = T(h)
    BY <2>1
  <2>3. authority[t].state = "reserved"
    BY <1>1, <2>2 DEF RoomIsHeld, Owns
  <2>4. reservations[t] = [state |-> "committed", tokens |-> K(h)]
    BY <1>1, <2>2 DEF Finished
  <2>5. reservations'[t] = reservations[t]
    BY <2>3, <2>4, CommittedStays
  <2> QED BY <2>2, <2>4, <2>5
<1>2. ASSUME NEW t \in Turns, authority'[t].state = "committed"
      PROVE  reservations'[t] = [state |-> "committed",
                                 tokens |-> authority'[t].tokens]
  <2>1. CASE authority'[t] = authority[t]
    BY <1>2, <2>1, CommittedStays DEF Finished
  <2>2. ASSUME NEW h \in Handlers, At(h, "persist"), T(h) = t, Owns(t, K(h), 1),
               authority'[t].tokens = K(h)
        PROVE  reservations'[t] = [state |-> "committed",
                                 tokens |-> authority'[t].tokens]
    BY <1>1, <2>2
  <2>3. NoAuthority.state = "none" /\ Reserved.state = "reserved"
    BY DEF NoAuthority, Reserved
  <2> QED BY <1>2, <2>1, <2>2, <2>3, AuthorityPath
<1>3. ASSUME NEW h \in Handlers, At(h, "persist")', (Owns(T(h), K(h), 1))'
      PROVE  (reservations[T(h)] = [state |-> "committed", tokens |-> K(h)])'
  <2>1. CASE FinalizeImage(h)
    <3>1. T(h)' = T(h) /\ K(h)' = K(h)
      BY <1>3, <2>1, HandlerMoves DEF Moves, Steady, Idle, At
    <3>2. T(h) \in Turns
      BY <2>1, Reads DEF FinalizeImage, FilesCall, At
    <3>3. reservations'[T(h)] = [state |-> "committed", tokens |-> K(h)]
      BY <2>1, <3>2 DEF FinalizeImage, Finalize, StoresInv, AssetInv,
         FilesAreKept, FilesInv, AssetTypeOK
    <3> QED BY <3>1, <3>3
  <2>2. CASE ~ FinalizeImage(h)
    <3>1. T(h)' = T(h) /\ K(h)' = K(h) /\ At(h, "persist")
      <4>1. CASE handlers'[h] = handlers[h]
        BY <1>3, <4>1 DEF At, T, K
      <4>2. ASSUME NEW g \in Handlers, Moves(g), handlers'[h] # handlers[h]
            PROVE  T(h)' = T(h) /\ K(h)' = K(h) /\ At(h, "persist")
        BY <1>3, <2>2, <4>2, HandlerMoves DEF Steady, Alike, Idle, At
      <4>3. ASSUME NEW g \in Handlers, Starts(g)
            PROVE  handlers'[h] = handlers[h]
        BY <1>3, <4>3, StartEffect DEF Starts, At
      <4> QED BY <4>1, <4>2, <4>3, WhoSteps, OthersLeave
    <3>2. PICK t \in Turns, k \in Tokens : t = T(h) /\ k = K(h)
      BY <3>1, Reads DEF At
    <3>3. requests'[t].status = "processing" /\ requests'[t].phase = 1
          /\ requests'[t].token = k
      BY <1>3, <3>1, <3>2 DEF Owns
    <3>4. Owns(t, k, 1)
      <4>1. CASE UNCHANGED vars
        BY <3>3, <4>1 DEF vars, Owns
      <4>2. ASSUME NEW g \in Handlers, Starts(g) PROVE Owns(t, k, 1)
        <5>1. requests'[t] = requests[t]
          BY <3>3, <4>2, ClaimTokens DEF Starts, ClaimImage
        <5> QED BY <3>3, <5>1 DEF Owns
      <4>3. CASE Others
        BY <3>3, <4>3, OtherRows DEF Owns
      <4>4. ASSUME NEW g \in Handlers, RowOps(g), T(g) # t PROVE Owns(t, k, 1)
        BY <3>3, <4>4, OneRow DEF Owns
      <4>5. ASSUME NEW g \in Handlers, Moves(g), RowOps(g), T(g) = t, K(g) = k
            PROVE  FALSE
        <5>1. g = h
          BY <3>2, <4>5, MediaConstants DEF Issued, Tokens
        <5>2. SucceedAssets(t, k)
          BY <3>1, <4>5, <5>1 DEF RowOps, At
        <5>3. requests'[t].status = "succeeded"
          BY <1>0, <5>2 DEF SucceedAssets, SucceededWith, Request
        <5> QED BY <3>3, <5>3
      <4>6. ASSUME NEW g \in Handlers, Moves(g), RowOps(g), T(g) = t, K(g) # k,
                   ~ \E i \in Handlers : Starts(i)
            PROVE  FALSE
        <5>1. requests[t].token = K(g)
          BY <4>6 DEF RowOps, ReserveAssets, EnterProviderPhase, Abandon,
             SucceedAssets, MarkRecovery, Owns
        <5>2. requests'[t].token \in {0, requests[t].token}
          BY <4>6, TokensStay
        <5> QED BY <3>2, <3>3, <4>6, <5>1, <5>2, MediaConstants DEF Tokens
      <4> QED BY <4>1, <4>2, <4>3, <4>4, <4>5, <4>6, WhoSteps, RowOf
    <3>5. reservations'[t] = [state |-> "committed", tokens |-> k]
      BY <1>1, <3>1, <3>2, <3>4
    <3> QED BY <3>1, <3>2, <3>5
  <2> QED BY <2>1, <2>2
<1> QED BY <1>2, <1>3 DEF Finished

\* What the rows of both stores say of an acknowledgement.
LEMMA AckFacts ==
  ASSUME StoresInv, NEW t \in Turns
  PROVE  /\ authority[t].state \in {"committed", "acked_pending_cleanup", "acked"}
              => Doc(t) = authority[t].tokens /\ Doc(t) # 0
         /\ authority[t].tokens # 0 <=>
              authority[t].state \in {"committed", "acked_pending_cleanup", "acked"}
         /\ reservations[t].state = "acked" =>
              receipts[t].tokens # 0 /\ assets[t] = receipts[t].tokens
         /\ NoReceipt.tokens = 0 /\ NoAuthority.tokens = 0 /\ Reserved.tokens = 0
         /\ NoAuthority.state = "none" /\ Reserved.state = "reserved"
<1>1. /\ NoReceipt.tokens = 0 /\ NoAuthority.tokens = 0 /\ Reserved.tokens = 0
      /\ NoAuthority.state = "none" /\ Reserved.state = "reserved"
  BY DEF NoReceipt, NoAuthority, Reserved
<1>2. Acknowledged(t)
  BY DEF StoresInv, AssetInv
<1>3. /\ authority[t].tokens # 0 <=>
           authority[t].state \in {"committed", "acked_pending_cleanup", "acked"}
      /\ RowOK(requests[t], authority[t])
  BY RowsOfInv DEF StoresInv, StoreInv, TypeOK
<1> QED BY <1>1, <1>2, <1>3 DEF Acknowledged, RowOK, Doc

\* Acknowledgements pass from the store of requests to the store of assets and
\* back.
LEMMA ReceiptsStep ==
  ASSUME StoresInv, Receipts, ImageNext
  PROVE  Receipts'
<1>1. ASSUME NEW t \in Turns, reservations'[t].state = "acked"
      PROVE  /\ authority'[t].state = "acked_pending_cleanup"
             /\ authority'[t].archive = receipts'[t].archive
             /\ authority'[t].tokens = receipts'[t].tokens
  <2>1. CASE reservations'[t] = reservations[t]
    <3>1. /\ authority[t].state = "acked_pending_cleanup"
          /\ authority[t].archive = receipts[t].archive
          /\ authority[t].tokens = receipts[t].tokens
          /\ receipts[t].tokens # 0 /\ assets[t] # 0
      BY <1>1, <2>1, AckFacts DEF Receipts
    <3>2. receipts'[t] = receipts[t]
      BY <3>1, ReceiptsStay, AckFacts
    <3>3. \A lag \in Lags : ~ AckDone(t, lag)
      BY <3>1 DEF AckDone, Cleaned
    <3>4. authority'[t] = authority[t]
      BY <3>1, <3>3, AuthorityPath
    <3> QED BY <3>1, <3>2, <3>4
  <2>2. CASE /\ CleansUp(t) /\ AckReceipt(t, Doc(t), authority[t].archive)
             /\ UNCHANGED vars
    <3>1. receipts[t] = NoReceipt /\ authority' = authority
      BY <2>2 DEF AckReceipt, vars
    <3>2. authority[t].state = "acked_pending_cleanup"
      BY <2>2, <3>1, AckFacts DEF CleansUp, Receipts
    <3>3. receipts'[t] = [tokens |-> Doc(t), archive |-> authority[t].archive]
      BY <2>2 DEF AckReceipt, StoresInv, AssetInv, FilesAreKept, FilesInv,
                  AssetTypeOK
    <3> QED BY <3>1, <3>2, <3>3, AckFacts
  <2> QED BY <1>1, <2>1, <2>2, ReservationPath DEF Free
<1>2. ASSUME NEW t \in Turns, authority'[t].state = "acked"
      PROVE  authority'[t].tokens = receipts'[t].tokens
  <2>1. CASE authority'[t] = authority[t]
    <3>1. authority[t].tokens = receipts[t].tokens /\ receipts[t].tokens # 0
      BY <1>2, <2>1, AckFacts DEF Receipts
    <3>2. receipts'[t] = receipts[t]
      BY <3>1, ReceiptsStay, AckFacts
    <3> QED BY <2>1, <3>1, <3>2
  <2>2. CASE /\ \E lag \in Lags : AckDone(t, lag)
             /\ authority[t].state = "acked_pending_cleanup"
             /\ authority'[t].tokens = authority[t].tokens
    <3>1. receipts[t].tokens = Doc(t) /\ receipts' = receipts
      BY <2>2 DEF AckDone, Cleaned, assetVars
    <3> QED BY <2>2, <3>1, AckFacts
  <2> QED BY <1>2, <2>1, <2>2, AuthorityPath, AckFacts
<1> QED BY <1>1, <1>2 DEF Receipts

\* An asset is registered once, and goes with its leases.
LEMMA AssetPath ==
  ASSUME StoresInv, ImageNext, NEW t \in Turns
  PROVE  \/ assets'[t] = assets[t]
         \/ assets[t] = 0
         \/ AckRemove(t)
<1>1. assets \in [Turns -> 0..MaxTokens]
  BY DEF StoresInv, AssetInv, FilesAreKept, FilesInv, AssetTypeOK
<1>2. ASSUME NEW u \in Turns, AckStep(u)
      PROVE  assets'[t] = assets[t] \/ AckRemove(t)
  BY <1>1, <1>2
     DEF AckStep, AckReceipt, AckWait, AckErase, AckRemove, assetRows
<1>3. ASSUME NEW k \in Tokens, StagingStep(k)
      PROVE  assets'[t] = assets[t] \/ assets[t] = 0
  <2>1. CASE Promote(k)
    BY <1>1, <2>1 DEF Promote, Stageable
  <2>2. CASE ~ Promote(k)
    BY <1>3, <2>2 DEF StagingStep, InsertPending, Move, PromoteFails,
       StageFails, StageCrash, assetRows
  <2> QED BY <2>1, <2>2
<1>4. \/ assets' = assets
      \/ \E u \in Turns : AckStep(u)
      \/ \E k \in Tokens : StagingStep(k)
  BY WhoWrites
     DEF ImageTick, AssetTick, ReconcileFirst, ReserveMirror, ReleaseMirror,
         UnfenceMirror, FinalizeImage, Stage, Reconcile, ReconcileCut, Reserve, Release,
         Finalize, Download, PinAsset, Open, CloseDownload, Close, assetRows,
         assetVars
<1> QED BY <1>2, <1>3, <1>4

\* A read lease begins with a pin.
LEMMA LeasePath ==
  ASSUME StoresInv, ImageNext, NEW r \in Readers, pins'[r].left > 0
  PROVE  /\ \/ pins[r].left > 0 /\ pins'[r].token = pins[r].token
            \/ PinAsset(r)
         /\ \A t \in Turns : AckRemove(t) => pins[r].token # assets[t]
<1>1. /\ pins \in [Readers -> Pin] /\ pins[r] \in Pin
      /\ \A n \in 0..ReadLease : n \in Int
  BY AssetAssumption
     DEF StoresInv, AssetInv, FilesAreKept, FilesInv, AssetTypeOK
<1>2. ASSUME NEW t \in Turns, AckRemove(t)
      PROVE  pins[r].token # assets[t] /\ pins'[r] = pins[r]
  BY <1>1, <1>2 DEF AckRemove, Pin
<1>3. ASSUME NEW u \in Turns, AckStep(u)
      PROVE  pins'[r] = pins[r]
  BY <1>2, <1>3 DEF AckStep, AckReceipt, AckWait, AckErase, readVars
<1>4. ASSUME ImageTick
      PROVE  pins[r].left > 0 /\ pins'[r].token = pins[r].token
  <2>1. /\ pins[r].left > 0 =>
             pins'[r] = [pins[r] EXCEPT !.left = pins[r].left - 1]
        /\ ~ (pins[r].left > 0) => pins'[r] = pins[r]
    BY <1>1, <1>4 DEF ImageTick, AssetTick
  <2>2. [pins[r] EXCEPT !.left = pins[r].left - 1].token = pins[r].token
    BY <1>1 DEF Pin
  <2> QED BY <2>1, <2>2
<1>5. ASSUME NEW q \in Readers, PinAsset(q) \/ CloseDownload(q), q # r
      PROVE  pins'[r] = pins[r]
  BY <1>1, <1>5 DEF PinAsset, CloseDownload, Open, Close
<1>6. ~ CloseDownload(r)
  BY <1>1 DEF CloseDownload, Close, NoPin
<1>7. \/ pins' = pins \/ ImageTick
      \/ \E u \in Turns : AckStep(u)
      \/ \E q \in Readers : PinAsset(q) \/ CloseDownload(q)
  BY WhoWrites
     DEF ReconcileFirst, ReserveMirror, ReleaseMirror, UnfenceMirror,
         FinalizeImage, Stage, Reconcile, ReconcileCut, Reserve, Release, Finalize, Download,
         StagingStep, InsertPending, Move, Promote, PromoteFails, StageFails,
         StageCrash, readVars, assetVars
<1> QED BY <1>2, <1>3, <1>4, <1>5, <1>6, <1>7

\* A download keeps what it looked at until it ends.
LEMMA DownloadPath ==
  ASSUME StoresInv, ImageNext, NEW r \in Readers
  PROVE  \/ downloads'[r] = downloads[r]
         \/ \E t \in Turns :
              /\ downloads[r].at = "idle" /\ Unacked(t)
              /\ downloads'[r] = [at |-> "looked", turn |-> t, token |-> Doc(t)]
         \/ /\ downloads[r].at # "idle"
            /\ downloads'[r].at \in {"pinned", "served"}
            /\ downloads'[r].turn = downloads[r].turn
            /\ downloads'[r].token = downloads[r].token
         \/ /\ downloads[r].at = "looked" \/ CloseDownload(r)
            /\ downloads'[r] = Idle
<1>1. downloads \in [Readers -> Reader] /\ downloads[r] \in Reader
  BY DEF StoresInv, ImageTyped
<1>2. ASSUME NEW q \in Readers, NEW t \in Turns, Look(q, t)
      PROVE  \/ downloads'[r] = downloads[r]
             \/ /\ downloads[r].at = "idle" /\ Unacked(t)
                /\ downloads'[r] = [at |-> "looked", turn |-> t, token |-> Doc(t)]
  BY <1>1, <1>2 DEF Look
<1>3. ASSUME NEW q \in Readers, PinAsset(q) \/ LookAgain(q)
      PROVE  \/ downloads'[r] = downloads[r]
             \/ /\ downloads[r].at # "idle"
                /\ downloads'[r].at \in {"pinned", "served"}
                /\ downloads'[r].turn = downloads[r].turn
                /\ downloads'[r].token = downloads[r].token
  BY <1>1, <1>3 DEF PinAsset, LookAgain, Reader
<1>4. ASSUME NEW q \in Readers, PinRefused(q) \/ CloseDownload(q)
      PROVE  \/ downloads'[r] = downloads[r]
             \/ /\ downloads[r].at = "looked" \/ CloseDownload(r)
                /\ downloads'[r] = Idle
  BY <1>1, <1>4 DEF PinRefused, CloseDownload
<1> QED BY <1>2, <1>3, <1>4, WhoWrites

\* A lease outlives neither the download nor the asset it is on.
LEMMA LookedStep ==
  ASSUME StoresInv, Receipts, Looked, ImageNext
  PROVE  Looked'
<1>0. \A r \in Readers : pins[r] \in Pin /\ downloads[r] \in Reader
  BY Reads
<1>1. ASSUME NEW t \in Turns, NEW k, k # 0,
             authority[t].tokens = k \/ receipts[t].tokens = k
      PROVE  authority'[t].tokens = k \/ receipts'[t].tokens = k
  <2>1. receipts[t].tokens = k => receipts'[t] = receipts[t]
    BY <1>1, ReceiptsStay, AckFacts
  <2>2. authority[t].tokens = k =>
          authority[t].state \in {"committed", "acked_pending_cleanup", "acked"}
    BY <1>1, AckFacts
  <2>3. authority[t].state = "acked" => authority[t].tokens = receipts[t].tokens
    BY DEF Receipts
  <2> QED BY <1>1, <2>1, <2>2, <2>3, AuthorityPath
<1>2. ASSUME NEW r \in Readers, downloads'[r].at # "idle"
      PROVE  LET d == downloads'[r] IN
               /\ d.turn \in Turns /\ d.token # 0
               /\ \/ authority'[d.turn].tokens = d.token
                  \/ receipts'[d.turn].tokens = d.token
  <2>1. CASE /\ downloads[r].at # "idle"
             /\ downloads'[r].turn = downloads[r].turn
             /\ downloads'[r].token = downloads[r].token
    BY <1>1, <2>1 DEF Looked
  <2>2. ASSUME NEW t \in Turns, Unacked(t),
               downloads'[r] = [at |-> "looked", turn |-> t, token |-> Doc(t)]
        PROVE  /\ downloads'[r].turn = t /\ downloads'[r].token # 0
               /\ \/ authority'[t].tokens = downloads'[r].token
                  \/ receipts'[t].tokens = downloads'[r].token
    BY <1>1, <2>2, AckFacts DEF Unacked
  <2>3. Idle.at = "idle"
    BY DEF Idle
  <2> QED BY <1>2, <2>1, <2>2, <2>3, DownloadPath
<1>3. ASSUME NEW r \in Readers, pins'[r].left > 0
      PROVE  LET d == downloads'[r] IN
               /\ d.at \in {"pinned", "served"} /\ pins'[r].token = d.token
               /\ assets'[d.turn] = d.token
  <2>1. CASE PinAsset(r)
    <3>1. /\ downloads'[r].at = "pinned"
          /\ downloads'[r].turn = downloads[r].turn
          /\ downloads'[r].token = downloads[r].token
      BY <1>0, <2>1 DEF PinAsset, Reader, StoresInv, ImageTyped
    <3>2. /\ assets' = assets
          /\ assets[downloads[r].turn] = downloads[r].token
          /\ pins'[r].token = assets[downloads[r].turn]
      BY <2>1 DEF PinAsset, Open, assetRows, StoresInv, AssetInv,
                  FilesAreKept, FilesInv, AssetTypeOK
    <3> QED BY <3>1, <3>2
  <2>2. CASE pins[r].left > 0 /\ pins'[r].token = pins[r].token /\ ~ PinAsset(r)
    <3>1. PICK t \in Turns : t = downloads[r].turn
      BY <2>2 DEF Looked
    <3>2. /\ downloads[r].at \in {"pinned", "served"}
          /\ pins[r].token = downloads[r].token /\ downloads[r].token # 0
          /\ assets[t] = downloads[r].token
      BY <2>2, <3>1 DEF Looked
    <3>3. assets'[t] = assets[t]
      BY <1>3, <3>2, AssetPath, LeasePath
    <3>4. ~ CloseDownload(r)
      BY <1>3, <1>0 DEF CloseDownload, Close, NoPin, StoresInv, AssetInv,
                        FilesAreKept, FilesInv, AssetTypeOK
    <3>5. /\ downloads'[r].at \in {"pinned", "served"}
          /\ downloads'[r].turn = t
          /\ downloads'[r].token = downloads[r].token
      BY <3>1, <3>2, <3>4, DownloadPath
    <3> QED BY <2>2, <3>2, <3>3, <3>5
  <2> QED BY <1>3, <2>1, <2>2, LeasePath
<1> QED BY <1>2, <1>3 DEF Looked

-----------------------------------------------------------------------------
(* The theorems.                                                           *)

\* At the start nothing is bought.
LEMMA ImageStart ==
  ASSUME ImageInit
  PROVE  ImageInv
<1> USE MediaConstants
<1>1. StoreInv /\ AssetInv
  BY StoreStart, AssetStart DEF ImageInit
<1>2. /\ \A h \in Handlers : At(h, "idle") /\ T(h) = NoTurn /\ K(h) = 0
      /\ \A t \in Turns : charged[t] = {}
      /\ \A r \in Readers : downloads[r].at = "idle" /\ pins[r].left = 0
      /\ \A k \in Tokens : stager[k].at = "idle"
      /\ \A t \in Turns : /\ reservations[t].state = "none"
                          /\ authority[t].state = "none"
                          /\ requests[t].status = "absent"
                          /\ requests[t].token = 0 /\ requests[t].doc = 0
      /\ issued = 0
  BY DEF ImageInit, Init, AssetInit, Idle, At, T, K, Free, NoPin, NoAuthority,
         NoRequest
<1>3. ImageTyped
  <2>1. Idle \in Handler /\ Idle \in Reader
    BY DEF Idle, Handler, Reader, Places
  <2> QED BY <1>2, <2>1 DEF ImageInit, ImageTyped
<1>4. Issued
  BY <1>2 DEF Issued
<1>5. Charges /\ Finished /\ RoomIsHeld
  BY <1>2 DEF Charges, Unpaid, Paid, BeforeFence, Finished, RoomIsHeld, At
<1>6. OnePurchase
  BY <1>2 DEF OnePurchase, MayCost, PastFence, AfterFence, At
<1>7. Receipts /\ Looked
  BY <1>2 DEF Receipts, Looked
<1> QED BY <1>1, <1>3, <1>4, <1>5, <1>6, <1>7 DEF ImageInv, StoresInv

\* Every step of the handlers, the threads, the buyers and the clock keeps the
\* invariant.
LEMMA ImageStep ==
  ASSUME ImageInv, [ImageNext]_imageVars
  PROVE  ImageInv'
<1>1. CASE ImageNext
  <2>1. StoresInv /\ Issued /\ Looked
    BY DEF ImageInv
  <2>2. StoreInv' /\ AssetInv'
    BY <1>1, <2>1, StepsOfStores, StoreStep, AssetStep DEF StoresInv
  <2>3. StoresInv'
    BY <1>1, <2>1, <2>2, TypesStep DEF StoresInv
  <2>4. Issued' /\ Charges'
    BY <1>1, IssuedStep, ChargesStep DEF ImageInv
  <2>5. RoomIsHeld' /\ OnePurchase'
    BY <1>1, RoomStep, OnePurchaseStep DEF ImageInv
  <2>6. Finished' /\ Receipts' /\ Looked'
    BY <1>1, FinishedStep, ReceiptsStep, LookedStep DEF ImageInv
  <2> QED BY <2>3, <2>4, <2>5, <2>6 DEF ImageInv
<1>2. CASE UNCHANGED imageVars
  <2>1. UNCHANGED vars /\ UNCHANGED assetVars
        /\ UNCHANGED <<handlers, charged, downloads>>
    BY <1>2 DEF imageVars, handlerVars
  <2>2. StoreInv' /\ AssetInv'
    BY <2>1, StoreStep, AssetStep DEF ImageInv, StoresInv
  <2>3. ImageTyped'
    BY <2>1 DEF ImageInv, StoresInv, ImageTyped, T, K, At
  <2>4. (Issued /\ Charges /\ RoomIsHeld)'
    BY <2>1 DEF ImageInv, Issued, Charges, RoomIsHeld, Owns, T, K, At, vars,
                assetVars
  <2>5. (OnePurchase /\ Finished)'
    BY <2>1 DEF ImageInv, OnePurchase, MayCost, OnRecord, Finished, Owns, T, K,
                At, vars, assetVars
  <2>6. (Receipts /\ Looked)'
    BY <2>1 DEF ImageInv, Receipts, Looked, vars, assetVars
  <2> QED BY <2>2, <2>3, <2>4, <2>5, <2>6 DEF ImageInv, StoresInv
<1> QED BY <1>1, <1>2

\* Along every behaviour of the handlers, the threads and the buyers the two
\* stores, the handlers and the downloads agree as ImageInv says.
THEOREM ImageCorrect == ImageSpec => []ImageInv
<1>1. ImageInit => ImageInv
  BY ImageStart
<1>2. ImageInv /\ [ImageNext]_imageVars => ImageInv'
  BY ImageStep
<1> QED BY <1>1, <1>2, PTL DEF ImageSpec

\* The handlers and the acknowledgement endpoint use the store of requests as
\* it may be used: every call of theirs is one of its operations.
THEOREM RequestsUsedRight == ImageSpec => Spec
<1>1. ImageInit => Init
  BY DEF ImageInit
<1>2. ImageInv /\ [ImageNext]_imageVars => [Next]_vars
  BY StepsOfStores DEF ImageInv, imageVars
<1> QED BY <1>1, <1>2, ImageCorrect, PTL DEF ImageSpec, Spec

\* And so for the store of assets, whose acknowledgement of a purchase names
\* the assets of that purchase.
THEOREM AssetsUsedRight == ImageSpec => AssetSpec
<1>1. ImageInit => AssetInit
  BY DEF ImageInit
<1>2. ImageInv /\ [ImageNext]_imageVars => [AssetNext]_assetVars
  BY StepsOfStores DEF ImageInv, imageVars
<1> QED BY <1>1, <1>2, ImageCorrect, PTL DEF ImageSpec, AssetSpec

\* A purchase is charged once, and again only after the buyer acknowledged
\* what it brought, whoever crashes, stalls, is cancelled or comes back late.
THEOREM ChargedOnce == ImageSpec => []PaidOnce
<1>1. ASSUME ImageInv, NEW t \in Turns
      PROVE  Cardinality({k \in charged[t] : receipts[t].tokens # k}) <= 1
  <2> DEFINE S == {k \in charged[t] : receipts[t].tokens # k}
  <2>1. charged[t] \subseteq Tokens
    BY <1>1 DEF ImageInv, StoresInv, ImageTyped
  <2>2. \A j, k \in S : j = k
    BY <1>1, <2>1 DEF ImageInv, OnePurchase, MayCost
  <2>3. S = {} \/ \E k : S = {k}
    BY <2>2
  <2> HIDE DEF S
  <2>4. Cardinality(S) = 0 \/ Cardinality(S) = 1
    BY <2>3, FS_EmptySet, FS_Singleton
  <2> QED BY <2>4 DEF S
<1>2. ImageInv => PaidOnce
  BY <1>1 DEF PaidOnce
<1> QED BY <1>2, ImageCorrect, PTL

\* Each part of BytesFitAnswers follows from ImageInv: an answer has its bytes
\* since it was Finished, an acknowledgement since Receipts keep the order of the
\* two stores, and no bytes are orphaned since what was staged was charged.
LEMMA BytesOfInv ==
  ASSUME ImageInv
  PROVE  BytesFitAnswers
<1>0. StoresInv /\ Finished /\ Receipts /\ Looked /\ Charges /\ OnePurchase
      /\ RoomIsHeld
  BY DEF ImageInv
<1>1. SuccessHasBytes
  <2> SUFFICES ASSUME NEW t \in Turns, authority[t].state = "committed"
               PROVE  /\ reservations[t] = [state |-> "committed",
                                            tokens |-> authority[t].tokens]
                      /\ assets[t] = authority[t].tokens
                      /\ disk[assets[t]] = "object"
    BY DEF SuccessHasBytes
  <2>1. reservations[t] = [state |-> "committed", tokens |-> authority[t].tokens]
    BY <1>0 DEF Finished
  <2>2. authority[t].tokens # 0
    BY <1>0, AckFacts
  <2> QED BY <1>0, <2>1, <2>2
          DEF StoresInv, AssetInv, FilesAreKept, FilesInv, AssetHasBytes
<1>2. AckIsRecordedFirst
  BY <1>0 DEF AckIsRecordedFirst, Receipts
<1>3. ASSUME NEW t \in Turns, receipts[t].tokens # 0,
             receipts[t].tokens = assets[t]
      PROVE  /\ authority[t].state = "acked_pending_cleanup"
             /\ authority[t].tokens = receipts[t].tokens
  BY <1>0, <1>3 DEF StoresInv, AssetInv, Acknowledged, Receipts
<1>4. RoomIsGivenBackLast
  <2> SUFFICES ASSUME NEW t \in Turns, authority[t].state = "acked"
               PROVE  /\ assets[t] # authority[t].tokens
                      /\ disk[authority[t].tokens] = "none"
    BY DEF RoomIsGivenBackLast
  <2>1. authority[t].tokens = receipts[t].tokens /\ receipts[t].tokens # 0
    BY <1>0, AckFacts DEF Receipts
  <2>2. assets[t] # receipts[t].tokens
    BY <1>3, <2>1
  <2> QED BY <1>0, <2>1, <2>2 DEF StoresInv, AssetInv, Acknowledged
<1>5. BytesAreNeverOrphaned
  <2>1. ASSUME NEW t \in Turns, NEW k \in Tokens, k \in charged[t],
               receipts[t].tokens # k
        PROVE  authority[t].state # "none"
    <3>1. OnRecord(t, k)
      BY <1>0, <2>1 DEF OnePurchase, MayCost
    <3> QED BY <1>0, <3>1 DEF OnRecord, Owns, RoomIsHeld, Holding
  <2>2. ASSUME NEW t \in Turns, assets[t] # 0
        PROVE  authority[t].state # "none"
    <3>1. assets[t] \in Tokens
      BY <1>0, <2>2, Reads, MediaConstants DEF Tokens
    <3>2. assets[t] \in charged[t]
      BY <1>0, <2>2, <3>1
         DEF StoresInv, AssetInv, Registered, Over, Charges
    <3> QED BY <1>3, <2>1, <2>2, <3>1, <3>2
  <2>3. ASSUME NEW t \in Turns, NEW k \in PendingOf(t)
        PROVE  authority[t].state # "none"
    <3>1. k \in Tokens /\ pending[k].on /\ pending[k].turn = t
      BY DEF PendingOf
    <3>2. k \in charged[t]
      BY <1>0, <3>1 DEF StoresInv, AssetInv, Staging, Charges
    <3>3. receipts[t].tokens # k
      BY <1>0, <3>1, MediaConstants
         DEF StoresInv, AssetInv, Acknowledged, Tokens
    <3> QED BY <2>1, <3>1, <3>2, <3>3
  <2> QED BY <2>2, <2>3 DEF BytesAreNeverOrphaned
<1>6. ServedIsOnRecord
  <2> SUFFICES ASSUME NEW r \in Readers, NEW t, t = downloads[r].turn,
                      downloads[r].at = "served", pins[r].left > 0
               PROVE  /\ authority[t].state \in {"committed", "acked_pending_cleanup"}
                      /\ authority[t].tokens = pins[r].token
                      /\ disk[pins[r].token] = "object"
    BY DEF ServedIsOnRecord
  <2>1. PICK k : k = downloads[r].token
    OBVIOUS
  <2>2. /\ t \in Turns /\ k # 0 /\ pins[r].token = k /\ assets[t] = k
        /\ authority[t].tokens = k \/ receipts[t].tokens = k
    BY <1>0, <2>1 DEF Looked
  <2>3. disk[k] = "object"
    BY <1>0, <2>2
       DEF StoresInv, AssetInv, FilesAreKept, ReadersKeepTheirFile
  <2>4. CASE receipts[t].tokens = k
    BY <1>3, <2>2, <2>3, <2>4
  <2>5. CASE receipts[t].tokens # k
    <3>1. authority[t].state \in {"committed", "acked_pending_cleanup", "acked"}
      BY <1>0, <2>2, <2>5, AckFacts
    <3>2. authority[t].state # "acked"
      BY <1>0, <2>2, <2>5 DEF Receipts
    <3> QED BY <2>2, <2>3, <2>5, <3>1, <3>2
  <2> QED BY <2>4, <2>5
<1> QED BY <1>1, <1>2, <1>4, <1>5, <1>6 DEF BytesFitAnswers

\* The answers on record and the bytes agree from the purchase to the end of
\* its acknowledgement, through both stores.
THEOREM AnswersHaveBytes == ImageSpec => []BytesFitAnswers
<1>1. ImageInv => BytesFitAnswers
  BY BytesOfInv
<1> QED BY <1>1, ImageCorrect, PTL
=============================================================================
