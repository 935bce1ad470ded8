----------------------------- MODULE TaskLedger -----------------------------
(***************************************************************************)
(* The task ledger of orchestrator/ledger.py: the SQLite table of long     *)
(* jobs and of their ordered steps, with the worker leases, the fencing    *)
(* epochs, the claim tokens and the terminal headroom that is reserved     *)
(* before any work is handed out.                                          *)
(*                                                                         *)
(* Every operation of TaskLedger runs in one BEGIN IMMEDIATE transaction   *)
(* under a process lock, so every operation is one action.  An operation   *)
(* that returns None or False, or raises, rolls back: it is a step that    *)
(* does not happen.  The caller here is the most general one: it may       *)
(* present, at any time and in any order, every credential that the ledger *)
(* ever returned (late calls, restarted workers, two workers with the same *)
(* owner name).  The worker that really calls the ledger is JobRunner.     *)
(*                                                                         *)
(* A lease is kept as the time it has left: lease_until > now is ttl > 0,  *)
(* and time passing takes one unit from every lease.  Texts are kept as    *)
(* their size, and sizes are counted in units of the payload budget.       *)
(***************************************************************************)
EXTENDS Integers, FiniteSets

CONSTANTS
  Jobs,         \* job ids; a job is absent until create_job inserts it
  Owners,       \* lease owner names
  NoOwner,      \* the empty lease_owner
  NumSteps,     \* steps of every job
  Deps,         \* Deps[i]: the steps that step i waits for
  Durations,    \* the lease_seconds a caller may ask for
  MaxText,      \* the bound on a step's output/error and on a job's result
  JobRow,       \* payload of a job and its steps when they are inserted
  JobHeadroom,  \* payload of the terminal headroom of a job
  StepHeadroom, \* payload of the terminal headroom of a step
  MaxPayload,   \* _MAX_LOGICAL_PAYLOAD_BYTES
  MaxEpoch,     \* bound: lease epochs of a job
  MaxTokens     \* bound: claim tokens issued

StepIdx == 1..NumSteps
StepIds == Jobs \X StepIdx
Texts == 0..MaxText

ASSUME LedgerAssumption ==
  /\ NumSteps \in Nat \ {0}
  \* _normalise_execution_steps lets a step depend on earlier steps only
  /\ Deps \in [StepIdx -> SUBSET StepIdx]
  /\ \A i \in StepIdx : \A d \in Deps[i] : d < i
  /\ NoOwner \notin Owners
  /\ Durations \subseteq Nat \ {0}
  /\ MaxText \in Nat /\ JobRow \in Nat
  /\ JobHeadroom \in Nat /\ StepHeadroom \in Nat
  /\ MaxPayload \in Nat /\ MaxEpoch \in Nat /\ MaxTokens \in Nat
  \* the headroom is sized for the largest terminal record
  /\ JobHeadroom >= MaxText /\ StepHeadroom >= MaxText

VARIABLES
  jobs,          \* the jobs table: [status, owner, ttl, epoch, result]
  steps,         \* the steps table: [status, owner, ttl, token, attempts, text]
  jobHeadroom,   \* ledger_terminal_headroom, rows of kind 'job'
  stepHeadroom,  \* ledger_terminal_headroom, rows of kind 'step'
  tokens,        \* claim tokens issued so far (a token is a fresh uuid)
  grants,        \* every (job, owner, epoch) that claim_job returned
  claims         \* every (step, token, owner, epoch) of claim_next_step

vars == <<jobs, steps, jobHeadroom, stepHeadroom, tokens, grants, claims>>

JobStatus == {"absent", "planning", "running", "failed", "done", "paused"}
StepStatus == {"pending", "running", "failed", "done"}

JobRecord == [status : JobStatus, owner : Owners \cup {NoOwner}, ttl : Nat,
              epoch : Nat, result : Texts]
StepRecord == [status : StepStatus, owner : Owners \cup {NoOwner}, ttl : Nat,
               token : Nat, attempts : Nat, text : Texts]
\* What claim_job and claim_next_step hand to a worker.
Grant == [job : Jobs, owner : Owners, epoch : Nat]
Claim == [step : StepIds, token : Nat, owner : Owners, epoch : Nat]

NoJob == [status |-> "absent", owner |-> NoOwner, ttl |-> 0, epoch |-> 0,
          result |-> 0]
NewStep == [status |-> "pending", owner |-> NoOwner, ttl |-> 0, token |-> 0,
            attempts |-> 0, text |-> 0]

StepsOf(j) == {s \in StepIds : s[1] = j}
DepsOf(s) == {<<s[1], d>> : d \in Deps[s[2]]}
Shorter(a, b) == IF a <= b THEN a ELSE b

(***************************************************************************)
(* The payload counter of ledger_capacity.  The triggers of jobs, steps    *)
(* and ledger_terminal_headroom keep it equal to this sum and abort every  *)
(* insert and update that would take it over the limit.  A sum of sizes is *)
(* the number of their units.                                              *)
(***************************************************************************)
Units(size) == UNION {{x} \X (1..size[x]) : x \in DOMAIN size}
Total(size) == Cardinality(Units(size))

Present(js) == {j \in Jobs : js[j].status # "absent"}
Results(js) == [j \in Jobs |-> js[j].result]
StepTexts(ss) == [s \in StepIds |-> ss[s].text]

Payload(js, ss, jh, sh) ==
  JobRow * Cardinality(Present(js)) + Total(Results(js)) + Total(StepTexts(ss))
    + JobHeadroom * Cardinality(jh) + StepHeadroom * Cardinality(sh)

Fits(js, ss, jh, sh) == Payload(js, ss, jh, sh) <= MaxPayload

-----------------------------------------------------------------------------
Init ==
  /\ jobs = [j \in Jobs |-> NoJob]
  /\ steps = [s \in StepIds |-> NewStep]
  /\ jobHeadroom = {}
  /\ stepHeadroom = {}
  /\ tokens = 0
  /\ grants = {}
  /\ claims = {}

(***************************************************************************)
(* create_job: the job, its pending steps and the job's headroom together. *)
(***************************************************************************)
CreateJob(j) ==
  /\ jobs[j].status = "absent"
  /\ jobs' = [jobs EXCEPT ![j].status = "running"]
  /\ jobHeadroom' = jobHeadroom \cup {j}
  /\ Fits(jobs', steps, jobHeadroom', stepHeadroom)
  /\ UNCHANGED <<steps, stepHeadroom, tokens, grants, claims>>

Held(j) == jobs[j].owner # NoOwner /\ jobs[j].ttl > 0

\* Faulty: a new epoch keeps the claims of the old one.
ResetsFailedOnly(j) == {s \in StepsOf(j) : steps[s].status = "failed"}

(***************************************************************************)
(* What claim_job makes of a step: a new epoch takes every running or      *)
(* failed step back to pending.                                            *)
(***************************************************************************)
Resets(j) == {s \in StepsOf(j) : steps[s].status \in {"running", "failed"}}

ResetStep(r) ==
  [r EXCEPT !.status = "pending", !.owner = NoOwner, !.ttl = 0, !.token = 0,
            !.attempts = IF r.status = "failed" THEN 0 ELSE @]

\* Faulty: a live lease does not keep others out.
ClaimJobAnytime(j, o, d) ==
  /\ jobs[j].status \notin {"absent", "done"} /\ jobs[j].epoch < MaxEpoch
  /\ jobs' = [jobs EXCEPT ![j].status = "running", ![j].owner = o,
                          ![j].ttl = d, ![j].epoch = @ + 1]
  /\ steps' = [s \in StepIds |->
                 IF s \in Resets(j) THEN ResetStep(steps[s]) ELSE steps[s]]
  /\ stepHeadroom' = stepHeadroom \ Resets(j)
  /\ jobHeadroom' = jobHeadroom \cup {j}
  /\ grants' = grants \cup
                 {[job |-> j, owner |-> o, epoch |-> jobs[j].epoch + 1]}
  /\ UNCHANGED <<tokens, claims>>

ClaimJob(j, o, d) ==
  /\ jobs[j].status \notin {"absent", "done"}
  /\ ~Held(j)
  /\ jobs[j].epoch < MaxEpoch
  /\ jobs' = [jobs EXCEPT ![j].status = "running", ![j].owner = o,
                          ![j].ttl = d, ![j].epoch = @ + 1]
  /\ steps' = [s \in StepIds |->
                 IF s \in Resets(j) THEN ResetStep(steps[s]) ELSE steps[s]]
  /\ stepHeadroom' = stepHeadroom \ Resets(j)
  /\ jobHeadroom' = jobHeadroom \cup {j}
  /\ Fits(jobs', steps', jobHeadroom', stepHeadroom')
  /\ grants' = grants \cup
                 {[job |-> j, owner |-> o, epoch |-> jobs[j].epoch + 1]}
  /\ UNCHANGED <<tokens, claims>>

(***************************************************************************)
(* The check that every later call of a worker repeats: the job is         *)
(* running, under this owner and this epoch, and the lease has not expired.*)
(***************************************************************************)
RootAuthority(j, o, e) ==
  /\ jobs[j].status = "running"
  /\ jobs[j].owner = o
  /\ jobs[j].epoch = e
  /\ jobs[j].ttl > 0

RenewJob(g, d) ==
  /\ RootAuthority(g.job, g.owner, g.epoch)
  /\ jobs' = [jobs EXCEPT ![g.job].ttl = d]
  /\ UNCHANGED <<steps, jobHeadroom, stepHeadroom, tokens, grants, claims>>

(***************************************************************************)
(* release_job: refused while a child claim of this owner is alive.        *)
(***************************************************************************)
LiveChild(j, o) ==
  \E s \in StepsOf(j) :
    steps[s].status = "running" /\ steps[s].owner = o /\ steps[s].ttl > 0

ReleaseJob(g) ==
  /\ jobs[g.job].owner = g.owner
  /\ jobs[g.job].epoch = g.epoch
  /\ ~LiveChild(g.job, g.owner)
  /\ jobs' = [jobs EXCEPT ![g.job].owner = NoOwner, ![g.job].ttl = 0]
  /\ UNCHANGED <<steps, jobHeadroom, stepHeadroom, tokens, grants, claims>>

(***************************************************************************)
(* claim_next_step: the first pending step whose dependencies are done.    *)
(***************************************************************************)
DepsDone(s) == \A d \in DepsOf(s) : steps[d].status = "done"
\* Faulty: the dependencies are forgotten.
ReadyRegardless(s) == steps[s].status = "pending"
Ready(s) == steps[s].status = "pending" /\ DepsDone(s)
FirstReady(s) == Ready(s) /\ \A i \in 1..(s[2] - 1) : ~Ready(<<s[1], i>>)

\* Faulty: the headroom is written past the limit.
ClaimOverLimit(g, d) ==
  /\ RootAuthority(g.job, g.owner, g.epoch) /\ tokens < MaxTokens
  /\ \E s \in StepsOf(g.job) :
       /\ FirstReady(s)
       /\ steps' = [steps EXCEPT ![s].status = "running", ![s].owner = g.owner,
                                 ![s].ttl = Shorter(d, jobs[g.job].ttl),
                                 ![s].token = tokens + 1]
       /\ stepHeadroom' = stepHeadroom \cup {s}
       /\ claims' = claims \cup {[step |-> s, token |-> tokens + 1,
                                  owner |-> g.owner, epoch |-> g.epoch]}
  /\ tokens' = tokens + 1
  /\ UNCHANGED <<jobs, jobHeadroom, grants>>

ClaimNextStep(g, d) ==
  /\ RootAuthority(g.job, g.owner, g.epoch)
  /\ tokens < MaxTokens
  /\ \E s \in StepsOf(g.job) :
       /\ FirstReady(s)
       /\ steps' = [steps EXCEPT ![s].status = "running", ![s].owner = g.owner,
                                 ![s].ttl = Shorter(d, jobs[g.job].ttl),
                                 ![s].token = tokens + 1,
                                 ![s].attempts = @ + 1]
       /\ stepHeadroom' = stepHeadroom \cup {s}
       /\ claims' = claims \cup {[step |-> s, token |-> tokens + 1,
                                  owner |-> g.owner, epoch |-> g.epoch]}
  /\ tokens' = tokens + 1
  /\ Fits(jobs, steps', jobHeadroom, stepHeadroom')
  /\ UNCHANGED <<jobs, jobHeadroom, grants>>

(***************************************************************************)
(* The check of renew_step and finish_claimed_step: this very claim of the *)
(* step is alive, and so is the root lease it was made under.              *)
(***************************************************************************)
ClaimAuthority(c) ==
  /\ steps[c.step].status = "running"
  /\ steps[c.step].owner = c.owner
  /\ steps[c.step].token = c.token
  /\ steps[c.step].ttl > 0
  /\ RootAuthority(c.step[1], c.owner, c.epoch)

RenewStep(c, d) ==
  /\ ClaimAuthority(c)
  /\ steps' = [steps EXCEPT ![c.step].ttl = Shorter(d, jobs[c.step[1]].ttl)]
  /\ UNCHANGED <<jobs, jobHeadroom, stepHeadroom, tokens, grants, claims>>

(***************************************************************************)
(* finish_claimed_step: "done", "pending" for a retry, or "failed", which  *)
(* fails the job in the same transaction.  The headroom is consumed before *)
(* the text is written.                                                    *)
(***************************************************************************)
Finished(r, status, text) ==
  [r EXCEPT !.status = status, !.owner = NoOwner, !.ttl = 0, !.token = 0,
            !.text = text]

\* Faulty: the job of a failed step goes on.
FinishStepOnly(c, status, text) ==
  /\ ClaimAuthority(c)
  /\ steps' = [steps EXCEPT ![c.step] = Finished(@, status, text)]
  /\ stepHeadroom' = stepHeadroom \ {c.step}
  /\ UNCHANGED <<jobs, jobHeadroom, tokens, grants, claims>>

FinishStep(c, status, text) ==
  /\ ClaimAuthority(c)
  /\ c.step \in stepHeadroom
  /\ status = "failed" => c.step[1] \in jobHeadroom
  /\ steps' = [steps EXCEPT ![c.step] = Finished(@, status, text)]
  /\ stepHeadroom' = stepHeadroom \ {c.step}
  /\ IF status = "failed"
     THEN /\ jobs' = [jobs EXCEPT ![c.step[1]].status = "failed"]
          /\ jobHeadroom' = jobHeadroom \ {c.step[1]}
     ELSE UNCHANGED <<jobs, jobHeadroom>>
  /\ Fits(jobs', steps', jobHeadroom', stepHeadroom')
  /\ UNCHANGED <<tokens, grants, claims>>

(***************************************************************************)
(* set_claimed_job: "done" only when every step is done, or "paused".      *)
(***************************************************************************)
AllDone(j) == \A s \in StepsOf(j) : steps[s].status = "done"

SetClaimedJob(g, status, text) ==
  /\ RootAuthority(g.job, g.owner, g.epoch)
  /\ status = "done" => AllDone(g.job)
  /\ g.job \in jobHeadroom
  /\ jobs' = [jobs EXCEPT ![g.job].status = status, ![g.job].result = text]
  /\ jobHeadroom' = jobHeadroom \ {g.job}
  /\ Fits(jobs', steps, jobHeadroom', stepHeadroom)
  /\ UNCHANGED <<steps, stepHeadroom, tokens, grants, claims>>

(***************************************************************************)
(* fail_unclaimed_job: a failure before any worker ever claimed the job.   *)
(***************************************************************************)
FailUnclaimedJob(j, text) ==
  /\ jobs[j].status \in {"planning", "running"}
  /\ jobs[j].owner = NoOwner
  /\ jobs[j].epoch = 0
  /\ j \in jobHeadroom
  /\ jobs' = [jobs EXCEPT ![j].status = "failed", ![j].result = text]
  /\ jobHeadroom' = jobHeadroom \ {j}
  /\ Fits(jobs', steps, jobHeadroom', stepHeadroom)
  /\ UNCHANGED <<steps, stepHeadroom, tokens, grants, claims>>

(***************************************************************************)
(* Time passes: every lease has one unit less left, down to none.          *)
(***************************************************************************)
Less(t) == IF t > 0 THEN t - 1 ELSE 0

Tick ==
  /\ \/ \E j \in Jobs : jobs[j].ttl > 0
     \/ \E s \in StepIds : steps[s].ttl > 0
  /\ jobs' = [j \in Jobs |-> [jobs[j] EXCEPT !.ttl = Less(@)]]
  /\ steps' = [s \in StepIds |-> [steps[s] EXCEPT !.ttl = Less(@)]]
  /\ UNCHANGED <<jobHeadroom, stepHeadroom, tokens, grants, claims>>

Next ==
  \/ \E j \in Jobs : CreateJob(j)
  \/ \E j \in Jobs, o \in Owners, d \in Durations : ClaimJob(j, o, d)
  \/ \E g \in grants, d \in Durations : RenewJob(g, d)
  \/ \E g \in grants : ReleaseJob(g)
  \/ \E g \in grants, d \in Durations : ClaimNextStep(g, d)
  \/ \E c \in claims, d \in Durations : RenewStep(c, d)
  \/ \E c \in claims, status \in {"done", "pending", "failed"}, t \in Texts :
       FinishStep(c, status, t)
  \/ \E g \in grants, status \in {"done", "paused"}, t \in Texts :
       SetClaimedJob(g, status, t)
  \/ \E j \in Jobs, t \in Texts : FailUnclaimedJob(j, t)
  \/ Tick

Spec == Init /\ [][Next]_vars

-----------------------------------------------------------------------------
(***************************************************************************)
(* Properties.                                                             *)
(***************************************************************************)

\* Every row has the shape that the CHECK constraints of the schema demand.
TypeOK ==
  /\ jobs \in [Jobs -> JobRecord]
  /\ steps \in [StepIds -> StepRecord]
  /\ jobHeadroom \subseteq Jobs
  /\ stepHeadroom \subseteq StepIds
  /\ tokens \in Nat
  /\ grants \subseteq Grant
  /\ claims \subseteq Claim

\* The closed set that _validate_current_database demands whenever another
\* process has written: headroom is held by exactly the active jobs and the
\* running steps.  An operation that leaks or loses a row locks the ledger.
HeadroomExact ==
  /\ jobHeadroom = {j \in Jobs : jobs[j].status \in {"planning", "running"}}
  /\ stepHeadroom = {s \in StepIds : steps[s].status = "running"}

\* The point of the headroom: a terminal record of any legal size can be
\* written by whoever has the authority to write it, however full the ledger is.
TerminalFits ==
  /\ \A s \in StepIds : steps[s].status = "running" =>
       /\ s \in stepHeadroom
       /\ \A t \in Texts : Fits(jobs, [steps EXCEPT ![s].text = t],
                                jobHeadroom, stepHeadroom \ {s})
  /\ \A j \in Jobs : jobs[j].status = "running" =>
       /\ j \in jobHeadroom
       /\ \A t \in Texts : Fits([jobs EXCEPT ![j].result = t], steps,
                                jobHeadroom \ {j}, stepHeadroom)

\* A job is done only with all its steps done.
DoneJobIsComplete ==
  \A j \in Jobs : jobs[j].status = "done" => AllDone(j)

\* No step is handed out, or done, before everything it depends on is done.
DependenciesFirst ==
  \A s \in StepIds : steps[s].status \in {"running", "done"} => DepsDone(s)

\* The failure of a step and of its job are one commit: a reader never sees a
\* failed step in a job that goes on, nor a claimed job failed without a step.
FailureIsAtomic ==
  \A j \in Jobs :
    /\ (\E s \in StepsOf(j) : steps[s].status = "failed") =>
         jobs[j].status = "failed"
    /\ jobs[j].status = "failed" /\ jobs[j].epoch > 0 =>
         \E s \in StepsOf(j) : steps[s].status = "failed"

\* Epochs fence: no two grants of a job carry the same epoch, and the job's
\* owner is the one that was granted the newest.
EpochsFence ==
  \A g \in grants :
    /\ g.epoch <= jobs[g.job].epoch
    /\ g.epoch = jobs[g.job].epoch =>
         jobs[g.job].owner \in {g.owner, NoOwner}
    /\ \A h \in grants : h.job = g.job /\ h.epoch = g.epoch => h = g

\* A running step was claimed under the job's current epoch: a claim made under
\* an older one, even by a worker of the same name with a longer child lease,
\* is void.
ClaimsAreCurrent ==
  \A s \in StepIds : steps[s].status = "running" =>
    \E c \in claims :
      /\ c.step = s /\ c.token = steps[s].token /\ c.owner = steps[s].owner
      /\ c.epoch = jobs[s[1]].epoch

\* A job is never given up over the head of a live child: while a claim of one
\* of its steps is alive, its owner still holds the job, so nobody else can be
\* handed the step.
LiveChildHasRoot ==
  \A s \in StepIds : steps[s].status = "running" /\ steps[s].ttl > 0 =>
    jobs[s[1]].owner = steps[s].owner

\* The lease columns of a step are set exactly while it runs.
LeaseColumns ==
  \A s \in StepIds :
    IF steps[s].status = "running"
    THEN steps[s].owner \in Owners /\ steps[s].token \in 1..tokens
    ELSE steps[s].owner = NoOwner /\ steps[s].token = 0 /\ steps[s].ttl = 0

\* The inductive invariant of the ledger.  TLC checks its parts one by one; the
\* proofs need them together: a promise about done steps rests on what is known
\* of running ones, and fencing on what is known of epochs.
LedgerInv ==
  /\ TypeOK
  /\ LeaseColumns
  /\ HeadroomExact
  /\ DependenciesFirst
  /\ DoneJobIsComplete
  /\ FailureIsAtomic
  /\ EpochsFence
  /\ ClaimsAreCurrent
  /\ LiveChildHasRoot

\* What a worker finished stays finished: no late call, new epoch or retry
\* changes a done step, its text or its job's completion.
DoneIsFinal ==
  [][ /\ \A s \in StepIds : steps[s].status = "done" => steps'[s] = steps[s]
      /\ \A j \in Jobs : jobs[j].status = "done" =>
           /\ jobs'[j].status = "done"
           /\ jobs'[j].result = jobs[j].result ]_vars

\* A lease is taken over only after it ran out or was given back.
NoLeaseIsStolen ==
  [][ \A j \in Jobs : Held(j) /\ jobs'[j].owner # jobs[j].owner =>
        jobs'[j].owner = NoOwner /\ ~LiveChild(j, jobs[j].owner) ]_vars

-----------------------------------------------------------------------------
(***************************************************************************)
(* The ledger keeps the promise: the completed steps are the done rows of  *)
(* the steps table, the closed jobs the done rows of the jobs table.       *)
(***************************************************************************)
Promise == INSTANCE TaskPromise WITH
  complete <- {s \in StepIds : steps[s].status = "done"},
  closed   <- {j \in Jobs : jobs[j].status = "done"}

\* Whatever workers, crashes, retries and late calls do to the rows, a user sees
\* steps complete once and in order and jobs close only when complete.
KeepsPromise == Promise!Spec
=============================================================================
