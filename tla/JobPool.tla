------------------------------- MODULE JobPool -------------------------------
(***************************************************************************)
(* The background slots of paid videos: BackgroundJobLeasePool             *)
(* (gateway/admission.py), the handler that creates a video and rebuilds   *)
(* the pool from the durable registry first, and the poll that ends one    *)
(* (gateway/app.py).                                                       *)
(*                                                                         *)
(* The registry is read in a thread; what was read is used when the        *)
(* handler resumes on the event loop, where nothing interrupts it.  A      *)
(* video has one handler and one alias; it may hold the lease its handler  *)
(* acquired and the one a rebuild made for its alias.  Limits per key are  *)
(* a second counter of the same kind and left out.                         *)
(***************************************************************************)
EXTENDS FiniteSets, Integers

CONSTANTS
  Videos,
  MaxGlobal,         \* max_global
  MaxPoolFaults      \* bound on errors, lapses and restarts

ASSUME PoolAssumption ==
  IsFiniteSet(Videos) /\ MaxGlobal \in Nat \ {0} /\ MaxPoolFaults \in Nat

VARIABLES
  own,         \* the lease the handler of a video acquired
  restored,    \* whether a rebuild made a lease for the video's alias
  registry,    \* the video in durable_media_requests
  remote,      \* what the provider makes of the video
  handler,
  first, second,   \* what the handler's two reads saw
  poll,
  poolFaults

leases == <<own, restored>>
reads == <<first, second>>
poolVars == <<leases, registry, remote, handler, reads, poll, poolFaults>>

Own == {"none", "unbound", "bound"}
Registry == {"none", "processing", "recovery_required", "succeeded", "terminal"}
Handler == {"new", "read", "restore", "reread", "acquire", "enter", "call", "persist",
            "settle", "over"}

PoolInit ==
  /\ own = [v \in Videos |-> "none"] /\ restored = [v \in Videos |-> FALSE]
  /\ registry = [v \in Videos |-> "none"]
  /\ remote = [v \in Videos |-> "none"]
  /\ handler = [v \in Videos |-> "new"]
  /\ first = [v \in Videos |-> {}] /\ second = [v \in Videos |-> {}]
  /\ poll = [v \in Videos |-> "none"]
  /\ poolFaults = 0

PoolHurt == poolFaults < MaxPoolFaults /\ poolFaults' = poolFaults + 1
At(v, pc) == handler[v] = pc
Goes(v, pc) == handler' = [handler EXCEPT ![v] = pc]

-----------------------------------------------------------------------------
(* The pool.                                                               *)

Leased == {v \in Videos : own[v] # "none"}
Count == Cardinality(Leased) + Cardinality({v \in Videos : restored[v]})
HasAlias(v) == own[v] = "bound" \/ restored[v]

\* list_active_video_leases.
ActiveVideos ==
  {v \in Videos : registry[v] \in {"processing", "recovery_required", "succeeded"}}

\* restore, of each alias that is not bound to a lease.
Rebuilt(known) == [v \in Videos |-> restored[v] \/ (v \in known /\ own[v] # "bound")]

\* release_external.
ReleaseAlias(aliases) ==
  /\ own' = [v \in Videos |-> IF v \in aliases /\ own[v] = "bound" THEN "none" ELSE own[v]]
  /\ restored' = [v \in Videos |-> restored[v] /\ v \notin aliases]

-----------------------------------------------------------------------------
(* The handler: _execute_paid_video_generation.                            *)

Read(v) ==
  /\ At(v, "new") /\ Goes(v, "restore")
  /\ first' = [first EXCEPT ![v] = ActiveVideos]
  /\ UNCHANGED <<leases, registry, remote, second, poll, poolFaults>>

Restore(v) ==
  /\ At(v, "restore") /\ Goes(v, "reread")
  /\ restored' = Rebuilt(first[v])
  /\ UNCHANGED <<own, registry, remote, reads, poll, poolFaults>>

Reread(v) ==
  /\ At(v, "reread") /\ Goes(v, "acquire")
  /\ second' = [second EXCEPT ![v] = ActiveVideos]
  /\ UNCHANGED <<leases, registry, remote, first, poll, poolFaults>>

Gone(v) == first[v] \ second[v]

\* Faulty: the second read only says what to give back.
AcquireOnFirst(v) ==
  /\ At(v, "acquire")
  /\ LET kept == [u \in Videos |-> restored[u] /\ u \notin Gone(v)]
         mine == [u \in Videos |-> IF u \in Gone(v) /\ own[u] = "bound" THEN "none" ELSE own[u]]
         n == Cardinality({u \in Videos : mine[u] # "none"})
              + Cardinality({u \in Videos : kept[u]}) IN
     /\ restored' = kept
     /\ own' = IF n < MaxGlobal THEN [mine EXCEPT ![v] = "unbound"] ELSE mine
     /\ Goes(v, IF n < MaxGlobal THEN "enter" ELSE "over")
  /\ UNCHANGED <<registry, remote, reads, poll, poolFaults>>

\* What the second read knows is restored, what only the first knew is given
\* back, and try_acquire decides, all before the event loop goes on.
TryAcquire(v) ==
  /\ At(v, "acquire")
  /\ LET kept == [u \in Videos |-> Rebuilt(second[v])[u] /\ u \notin Gone(v)]
         mine == [u \in Videos |-> IF u \in Gone(v) /\ own[u] = "bound" THEN "none" ELSE own[u]]
         n == Cardinality({u \in Videos : mine[u] # "none"})
              + Cardinality({u \in Videos : kept[u]}) IN
     /\ restored' = kept
     /\ own' = IF n < MaxGlobal THEN [mine EXCEPT ![v] = "unbound"] ELSE mine
     /\ Goes(v, IF n < MaxGlobal THEN "enter" ELSE "over")
  /\ UNCHANGED <<registry, remote, reads, poll, poolFaults>>

GiveBack(v) == own' = [own EXCEPT ![v] = "none"] /\ UNCHANGED restored

\* The provider phase and the readiness of the way out, before any request.  Who is
\* refused there gives the slot back; who is cancelled keeps it until it lapses.
Enter(v) ==
  /\ At(v, "enter")
  /\ \/ /\ registry' = [registry EXCEPT ![v] = "processing"]
        /\ Goes(v, "call") /\ UNCHANGED <<leases, poolFaults>>
     \/ /\ PoolHurt
        /\ \/ /\ \E state \in {"none", "processing", "recovery_required"} :
                   registry' = [registry EXCEPT ![v] = state]
              /\ GiveBack(v)
           \/ /\ \E state \in {"none", "processing"} :
                   registry' = [registry EXCEPT ![v] = state]
              /\ UNCHANGED leases
        /\ Goes(v, "over")
  /\ UNCHANGED <<remote, reads, poll>>

\* An error or a cancellation keeps the slot: the video may have been accepted.
Invoke(v) ==
  /\ At(v, "call")
  /\ \/ \E end \in {"running", "ended"} :
          /\ remote' = [remote EXCEPT ![v] = end]
          /\ Goes(v, "persist") /\ UNCHANGED <<registry, poolFaults>>
     \/ /\ PoolHurt
        /\ \E end \in {"none", "running"} : remote' = [remote EXCEPT ![v] = end]
        /\ \E state \in {"processing", "recovery_required"} :
             registry' = [registry EXCEPT ![v] = state]
        /\ Goes(v, "over")
  /\ UNCHANGED <<leases, reads, poll>>

\* The registry learns of the answer; if it does not, the slot stays.
Persist(v) ==
  /\ At(v, "persist")
  /\ \/ /\ registry' = [registry EXCEPT ![v] =
                          IF remote[v] = "ended" THEN "terminal" ELSE "succeeded"]
        /\ UNCHANGED poolFaults
     \/ /\ PoolHurt
        /\ registry' = [registry EXCEPT ![v] = "recovery_required"]
  /\ Goes(v, "settle")
  /\ UNCHANGED <<leases, remote, reads, poll>>

\* _settle_video_background_lease.
Settle(v) ==
  /\ At(v, "settle")
  /\ IF remote[v] = "ended" \/ HasAlias(v) THEN GiveBack(v)
     ELSE /\ own' = [own EXCEPT ![v] = IF @ = "unbound" THEN "bound" ELSE @]
          /\ UNCHANGED restored
  /\ Goes(v, "over")
  /\ UNCHANGED <<registry, remote, reads, poll, poolFaults>>

-----------------------------------------------------------------------------
(* Polls, time and restarts.                                               *)

RemoteEnds(v) ==
  /\ remote[v] = "running" /\ remote' = [remote EXCEPT ![v] = "ended"]
  /\ UNCHANGED <<leases, registry, handler, reads, poll, poolFaults>>

\* A poll that finds the end records it in a thread ..
PollEnds(v) ==
  /\ registry[v] = "succeeded" /\ remote[v] = "ended"
  /\ registry' = [registry EXCEPT ![v] = "terminal"]
  /\ poll' = [poll EXCEPT ![v] = "release"]
  /\ UNCHANGED <<leases, remote, handler, reads, poolFaults>>

\* .. and gives the slot back when it resumes.
PollReleases(v) ==
  /\ poll[v] = "release" /\ poll' = [poll EXCEPT ![v] = "none"]
  /\ ReleaseAlias({v})
  /\ UNCHANGED <<registry, remote, handler, reads, poolFaults>>

\* A lease is not renewed for its whole life, at least five minutes, which no
\* handler spends between its second read and its provider phase.
Waits(v) == handler[v] \notin {"acquire", "enter"}

\* _prune_locked.  A lease that nothing renews any more ends at no one's fault.
Lapse(v) ==
  /\ \A u \in Videos : Waits(u)
  /\ \/ own[v] # "none" /\ own' = [own EXCEPT ![v] = "none"] /\ UNCHANGED restored
     \/ restored[v] /\ restored' = [restored EXCEPT ![v] = FALSE] /\ UNCHANGED own
  /\ IF registry[v] \in {"none", "terminal"} /\ At(v, "over")
       THEN UNCHANGED poolFaults ELSE PoolHurt
  /\ UNCHANGED <<registry, remote, handler, reads, poll>>

\* The gateway is started again and rebuilds the pool before it serves.
Restart ==
  /\ PoolHurt
  /\ own' = [v \in Videos |-> "none"]
  /\ restored' = [v \in Videos |-> v \in ActiveVideos]
  /\ handler' = [v \in Videos |-> IF At(v, "new") THEN "new" ELSE "over"]
  /\ remote' \in {[v \in Videos |-> IF At(v, "call") /\ v \in accepted THEN "running" ELSE remote[v]] :
                    accepted \in SUBSET Videos}
  /\ poll' = [v \in Videos |-> "none"]
  /\ UNCHANGED <<registry, reads>>

Create(v) ==
  \/ Read(v) \/ Restore(v) \/ Reread(v) \/ TryAcquire(v) \/ Enter(v) \/ Invoke(v) \/ Persist(v)
  \/ Settle(v)

PoolNext ==
  \/ Restart
  \/ \E v \in Videos : Create(v) \/ RemoteEnds(v) \/ PollEnds(v) \/ PollReleases(v) \/ Lapse(v)

PoolSpec == PoolInit /\ [][PoolNext]_poolVars

\* Handlers and polls run, and what nothing renews lapses.
PoolFairSpec ==
  PoolSpec /\ \A v \in Videos :
            WF_poolVars(Create(v)) /\ WF_poolVars(PollReleases(v)) /\ SF_poolVars(Lapse(v))

-----------------------------------------------------------------------------
(* Properties.                                                             *)

PoolTypeOK ==
  /\ own \in [Videos -> Own] /\ restored \in [Videos -> BOOLEAN]
  /\ registry \in [Videos -> Registry] /\ handler \in [Videos -> Handler]
  /\ remote \in [Videos -> {"none", "running", "ended"}]
  /\ first \in [Videos -> SUBSET Videos] /\ second \in [Videos -> SUBSET Videos]
  /\ poll \in [Videos -> {"none", "release"}]
  /\ \A v \in Videos : ~ (own[v] = "bound" /\ restored[v])

\* No more videos run at the provider than there are slots, whatever lapses, is
\* forgotten by a restart, or happens between a read and its use.
CapacityIsKept == Cardinality({v \in Videos : remote[v] = "running"}) <= MaxGlobal

\* The slots of a video that ended come back.
HasSlotAfterwards(v) == registry[v] = "terminal" /\ (own[v] # "none" \/ restored[v])
PoolSlotsComeBack == \A v \in Videos : []<>(~ HasSlotAfterwards(v))
=============================================================================
