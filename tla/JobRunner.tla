----------------------------- MODULE JobRunner ------------------------------
(***************************************************************************)
(* run_job of orchestrator/ledger.py: the workers that drive the jobs of   *)
(* the task ledger, composed with it.                                      *)
(*                                                                         *)
(* A worker is one invocation of run_job.  It takes a fresh uuid as lease  *)
(* owner, so a worker and the owner name it uses are the same thing here,  *)
(* and resuming a job means starting another worker.  A worker is one      *)
(* asyncio coroutine: what it does between two awaits is one action.       *)
(* Beside it run two heartbeats, one for the lease on the job and, while a *)
(* step executes, one for the lease on the step.  A heartbeat hands the    *)
(* renewal to a thread and awaits it; cancelling the heartbeat does not    *)
(* stop the thread, which then renews with nobody listening (adrift).      *)
(*                                                                         *)
(* The executor of a step is code outside the ledger: it ends, well or     *)
(* with an exception, or it is cancelled.                                  *)
(***************************************************************************)
EXTENDS TaskLedger

CONSTANTS
  Lease,        \* lease_seconds, of the job and of each step
  MaxAttempts   \* max_attempts

ASSUME RunnerAssumption == Lease \in Durations /\ MaxAttempts \in Nat \ {0}

VARIABLES
  pc,       \* where the coroutine of a worker stands
  grant,    \* what claim_job returned to it (job, owner and epoch)
  claim,    \* what claim_next_step returned last
  attempts, \* step["attempts"] of that claim, as it was read then
  outcome,  \* of the executor: "none" while it runs, "ok" or "error"
  lost,     \* the event lease_lost
  beat,     \* the heartbeats, of the job and of the step
  adrift    \* renewals running in a thread whose heartbeat was cancelled

workerVars == <<pc, grant, claim, attempts, outcome, lost, beat, adrift>>
runnerVars == <<vars, workerVars>>

Beats == {"job", "step"}
Silent == [k \in Beats |-> "off"]

Over == {"returned", "raised", "crashed"}
\* At an await the task may be cancelled from outside.
Awaiting == {"executing", "landed"}

NoGrant == [job |-> CHOOSE j \in Jobs : TRUE, owner |-> NoOwner, epoch |-> 0]
NoClaim == [step |-> <<NoGrant.job, 1>>, token |-> 0, owner |-> NoOwner,
            epoch |-> 0]

RunnerInit ==
  /\ Init
  /\ pc = [w \in Owners |-> "idle"]
  /\ grant = [w \in Owners |-> NoGrant]
  /\ claim = [w \in Owners |-> NoClaim]
  /\ attempts = [w \in Owners |-> 0]
  /\ outcome = [w \in Owners |-> "none"]
  /\ lost = [w \in Owners |-> FALSE]
  /\ beat = [w \in Owners |-> Silent]
  /\ adrift = {}

Goto(w, there) == pc' = [pc EXCEPT ![w] = there]

\* What the thread of heartbeat k of worker w is renewing.
Renewal(w, k) ==
  [kind |-> k, worker |-> w, of |-> IF k = "job" THEN grant[w] ELSE claim[w]]

\* Faulty: the heartbeat of a run that is over is left running.
SilenceForgotten(w, k) == UNCHANGED <<beat, adrift>>

\* Cancelling a heartbeat that awaits a renewal leaves the renewal to its thread.
Silence(w, k) ==
  /\ beat' = [beat EXCEPT ![w][k] = "off"]
  /\ \/ UNCHANGED adrift
     \/ beat[w][k] = "on" /\ adrift' = adrift \cup {Renewal(w, k)}

\* The variables of a step are dead once the worker is through with it.
Forget(w) ==
  /\ claim' = [claim EXCEPT ![w] = NoClaim]
  /\ attempts' = [attempts EXCEPT ![w] = 0]
  /\ outcome' = [outcome EXCEPT ![w] = "none"]

-----------------------------------------------------------------------------
(***************************************************************************)
(* claim_job, the first call of a worker: with the epoch it gets it starts *)
(* the heartbeat of the job; refused, it returns what the ledger shows.    *)
(***************************************************************************)
Start(w, j) ==
  /\ pc[w] = "idle"
  /\ ClaimJob(j, w, Lease)
  /\ grant' = [grant EXCEPT ![w] = [job |-> j, owner |-> w,
                                    epoch |-> jobs[j].epoch + 1]]
  /\ beat' = [beat EXCEPT ![w]["job"] = "on"]
  /\ Goto(w, "loop")
  /\ UNCHANGED <<claim, attempts, outcome, lost, adrift>>

Refused(w, j) ==
  /\ pc[w] = "idle"
  /\ jobs[j].status = "done" \/ Held(j)
  /\ Goto(w, "returned")
  /\ UNCHANGED <<vars, grant, claim, attempts, outcome, lost, beat, adrift>>

(***************************************************************************)
(* The head of the loop: the next step, unless the lease is known lost.    *)
(***************************************************************************)
TakeStep(w) ==
  /\ pc[w] = "loop" /\ ~lost[w]
  /\ ClaimNextStep(grant[w], Lease)
  /\ \E c \in claims' \ claims :
       /\ claim' = [claim EXCEPT ![w] = c]
       /\ attempts' = [attempts EXCEPT ![w] = steps'[c.step].attempts]
  /\ outcome' = [outcome EXCEPT ![w] = "none"]
  /\ beat' = [beat EXCEPT ![w]["step"] = "on"]
  /\ Goto(w, "executing")
  /\ UNCHANGED <<grant, lost, adrift>>

NothingReady(w) ==
  \/ ~RootAuthority(grant[w].job, w, grant[w].epoch)
  \/ \A s \in StepsOf(grant[w].job) : ~Ready(s)

\* claim_next_step returned None: no authority, or no step to hand out.
Drain(w) ==
  /\ pc[w] = "loop" /\ ~lost[w]
  /\ NothingReady(w)
  /\ Goto(w, "drained")
  /\ UNCHANGED <<vars, grant, claim, attempts, outcome, lost, beat, adrift>>

\* Nothing left to hand out: the job is done if all its steps are.
CloseJob(w) ==
  /\ pc[w] = "drained"
  /\ IF /\ AllDone(grant[w].job)
        /\ RootAuthority(grant[w].job, w, grant[w].epoch)
     THEN \E t \in Texts : SetClaimedJob(grant[w], "done", t)
     ELSE UNCHANGED vars
  /\ Goto(w, "leaving")
  /\ UNCHANGED <<grant, claim, attempts, outcome, lost, beat, adrift>>

(***************************************************************************)
(* The executor ends; the worker wakes up, at this or at the loss of the   *)
(* lease.  A loss wins: the executor is cancelled, its result is dropped.  *)
(***************************************************************************)
ExecutorEnds(w, result) ==
  /\ pc[w] = "executing" /\ outcome[w] = "none"
  /\ outcome' = [outcome EXCEPT ![w] = result]
  /\ UNCHANGED <<vars, pc, grant, claim, attempts, lost, beat, adrift>>

Land(w) ==
  /\ pc[w] = "executing" /\ outcome[w] # "none" /\ ~lost[w]
  /\ Goto(w, "landed")
  /\ UNCHANGED <<vars, grant, claim, attempts, outcome, lost, beat, adrift>>

\* An early return or an exception: the heartbeat of the step is cancelled.
GiveUp(w) ==
  /\ Silence(w, "step")
  /\ Forget(w)
  /\ Goto(w, "leaving")
  /\ UNCHANGED <<vars, grant, lost>>

\* The checks of lease_lost: at the head of the loop, after the wait, and again
\* after an executor that ended well.
SeeLost(w) ==
  /\ lost[w]
  /\ \/ pc[w] \in {"loop", "executing"}
     \/ pc[w] = "landed" /\ outcome[w] = "ok"
  /\ GiveUp(w)

\* Faulty: a step that keeps failing is tried for ever.
VerdictAlwaysRetry(w) == IF outcome[w] = "ok" THEN "done" ELSE "pending"

\* The status that finish_claimed_step is asked for: a failed attempt is tried
\* again until the attempts are used up.
Verdict(w) ==
  IF outcome[w] = "ok" THEN "done"
  ELSE IF attempts[w] >= MaxAttempts THEN "failed" ELSE "pending"

MayFinish(w) == pc[w] = "landed" /\ (outcome[w] = "ok" => ~lost[w])

Finish(w) ==
  /\ MayFinish(w)
  /\ \E t \in Texts : FinishStep(claim[w], Verdict(w), t)
  /\ Silence(w, "step")
  /\ Forget(w)
  /\ Goto(w, IF Verdict(w) = "failed" THEN "leaving" ELSE "loop")
  /\ UNCHANGED <<grant, lost>>

\* finish_claimed_step returned False: the claim is no longer worth anything.
FinishRefused(w) ==
  /\ MayFinish(w)
  /\ ~ClaimAuthority(claim[w])
  /\ GiveUp(w)

\* The task that runs the worker is cancelled at an await.
Cancel(w) == pc[w] \in Awaiting /\ GiveUp(w)

(***************************************************************************)
(* The end of every run: the heartbeat of the job is cancelled, then the   *)
(* job is given back, unless the lease is known lost.  The ledger refuses  *)
(* while a step of this worker is alive.                                   *)
(***************************************************************************)
Leave(w) ==
  /\ pc[w] = "leaving"
  /\ Silence(w, "job")
  /\ Goto(w, "closing")
  /\ UNCHANGED <<vars, grant, claim, attempts, outcome, lost>>

\* Faulty: only a finished job is given back.
ReleasableIfDone(w) ==
  /\ ~lost[w] /\ jobs[grant[w].job].status = "done"
  /\ jobs[grant[w].job].owner = w /\ jobs[grant[w].job].epoch = grant[w].epoch

Releasable(w) ==
  /\ ~lost[w]
  /\ jobs[grant[w].job].owner = w /\ jobs[grant[w].job].epoch = grant[w].epoch
  /\ ~LiveChild(grant[w].job, w)

Return(w) ==
  /\ pc[w] = "closing"
  /\ IF Releasable(w) THEN ReleaseJob(grant[w])
                      ELSE UNCHANGED vars
  /\ Goto(w, "returned")
  /\ UNCHANGED <<grant, claim, attempts, outcome, lost, beat, adrift>>

\* The database raises.  While a result is recorded that counts as a failed
\* attempt of the step; anywhere else it ends the run.
StoreFails(w) ==
  \/ /\ MayFinish(w) /\ outcome[w] = "ok"
     /\ outcome' = [outcome EXCEPT ![w] = "error"]
     /\ UNCHANGED <<vars, pc, grant, claim, attempts, lost, beat, adrift>>
  \/ /\ \/ MayFinish(w) /\ outcome[w] = "error"
        \/ pc[w] = "loop" /\ ~lost[w]
        \/ pc[w] = "drained"
     /\ GiveUp(w)
  \/ /\ pc[w] = "closing" /\ ~lost[w]
     /\ Goto(w, "raised")
     /\ UNCHANGED <<vars, grant, claim, attempts, outcome, lost, beat,
                    adrift>>

-----------------------------------------------------------------------------
(***************************************************************************)
(* A heartbeat that is on sleeps or awaits the thread that calls renew_job *)
(* or renew_step.  Refused, or with the database raising, it sets          *)
(* lease_lost when it is scheduled next, and ends.                         *)
(***************************************************************************)
BeatIs(w, k, state) == beat' = [beat EXCEPT ![w][k] = state]

Renew(r) ==
  IF r.kind = "job" THEN RenewJob(r.of, Lease)
                    ELSE RenewStep(r.of, Lease)

Authorised(r) ==
  IF r.kind = "job" THEN RootAuthority(r.of.job, r.worker, r.of.epoch)
                    ELSE ClaimAuthority(r.of)

Renewed(w, k) ==
  /\ beat[w][k] = "on"
  /\ Renew(Renewal(w, k))
  /\ UNCHANGED workerVars

NotRenewed(w, k) ==
  /\ beat[w][k] = "on"
  /\ BeatIs(w, k, "refused")
  /\ UNCHANGED <<vars, pc, grant, claim, attempts, outcome, lost, adrift>>

LoseLease(w, k) ==
  /\ beat[w][k] = "refused"
  /\ lost' = [lost EXCEPT ![w] = TRUE]
  /\ BeatIs(w, k, "off")
  /\ UNCHANGED <<vars, pc, grant, claim, attempts, outcome, adrift>>

\* The thread of a cancelled heartbeat ends on its own.
ThreadEnds(r) ==
  /\ IF Authorised(r) THEN Renew(r) ELSE UNCHANGED vars
  /\ adrift' = adrift \ {r}
  /\ UNCHANGED <<pc, grant, claim, attempts, outcome, lost, beat>>

-----------------------------------------------------------------------------
\* The process of a worker dies, and its threads with it.
Crash(w) ==
  /\ pc[w] \notin Over \cup {"idle"}
  /\ Goto(w, "crashed")
  /\ beat' = [beat EXCEPT ![w] = Silent]
  /\ adrift' = {r \in adrift : r.worker # w}
  /\ Forget(w)
  /\ UNCHANGED <<vars, grant, lost>>

\* The gateway submits a job, and marks it failed if no worker can be spawned.
Submit(j) == CreateJob(j) /\ UNCHANGED workerVars

SpawnFails(j) ==
  (\E t \in Texts : FailUnclaimedJob(j, t)) /\ UNCHANGED workerVars

TimePasses == Tick /\ UNCHANGED workerVars

Work(w) ==
  \/ TakeStep(w) \/ Drain(w) \/ CloseJob(w)
  \/ \E result \in {"ok", "error"} : ExecutorEnds(w, result)
  \/ Land(w) \/ SeeLost(w) \/ Finish(w) \/ FinishRefused(w)
  \/ Leave(w) \/ Return(w)

Beat(w, k) == Renewed(w, k) \/ NotRenewed(w, k) \/ LoseLease(w, k)

RunnerNext ==
  \/ \E j \in Jobs : Submit(j) \/ SpawnFails(j)
  \/ \E w \in Owners, j \in Jobs : Start(w, j) \/ Refused(w, j)
  \/ \E w \in Owners : Work(w) \/ Cancel(w) \/ StoreFails(w) \/ Crash(w)
  \/ \E w \in Owners, k \in Beats : Beat(w, k)
  \/ \E r \in adrift : ThreadEnds(r)
  \/ TimePasses

\* Time passes, coroutines are scheduled and executors end.  Nothing else is
\* promised: heartbeats may come too late, threads may hang.
Fairness == WF_runnerVars(TimePasses) /\ \A w \in Owners : WF_runnerVars(Work(w))

RunnerSpec == RunnerInit /\ [][RunnerNext]_runnerVars
FairRunnerSpec == RunnerSpec /\ Fairness

-----------------------------------------------------------------------------
(***************************************************************************)
(* Properties.                                                             *)
(***************************************************************************)
States == {"idle", "loop", "executing", "landed", "drained", "leaving",
           "closing"} \cup Over

RunnerTypeOK ==
  /\ TypeOK
  /\ pc \in [Owners -> States]
  /\ grant \in [Owners -> grants \cup {NoGrant}]
  /\ claim \in [Owners -> claims \cup {NoClaim}]
  /\ attempts \in [Owners -> Nat]
  /\ outcome \in [Owners -> {"none", "ok", "error"}]
  /\ lost \in [Owners -> BOOLEAN]
  /\ beat \in [Owners -> [Beats -> {"off", "on", "refused"}]]
  /\ \A r \in adrift : r.kind \in Beats /\ r.worker \in Owners

\* A run that finds nothing more to hand out while it still has the job is
\* through: no step is ever stuck behind a crashed worker's claim, a failed
\* dependency or an exhausted retry.
NeverStuck ==
  [][ \A w \in Owners :
        /\ pc[w] = "loop" /\ pc'[w] = "drained"
        /\ RootAuthority(grant[w].job, w, grant[w].epoch)
        => AllDone(grant[w].job) ]_runnerVars

\* Within one run a step is executed at most max_attempts times.
RetriesAreBounded ==
  \A s \in StepIds, e \in 1..MaxEpoch :
    Cardinality({c \in claims : c.step = s /\ c.epoch = e}) <= MaxAttempts

\* A run that returned has given the job back, whatever its renewal threads
\* still do: it keeps the job only with a claimed step that it abandoned (the
\* ledger then waits for that lease) or when it knew its lease was lost.
JobIsGivenBack ==
  \A w \in Owners : pc[w] = "returned" /\ ~lost[w] =>
    \A j \in Jobs : jobs[j].owner = w =>
      \E s \in StepsOf(j) :
        steps[s].status = "running" /\ steps[s].owner = w

\* A worker whose run is over, however it ended, does not lock the job: what it
\* still holds runs out.
HoldsAfterwards ==
  \E w \in Owners, j \in Jobs : pc[w] \in Over /\ jobs[j].owner = w /\ jobs[j].ttl > 0
NoLeaseOutlivesWork == []<>(~ HoldsAfterwards)

\* Every run ends: executors that keep failing use up their attempts.
RunsAreOver == \A w \in Owners : pc[w] \in Over \cup {"idle"}
RunsEnd == []<>RunsAreOver
=============================================================================
