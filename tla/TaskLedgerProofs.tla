-------------------------- MODULE TaskLedgerProofs --------------------------
(***************************************************************************)
(* Proofs about the task ledger and its runners, for any set of jobs,      *)
(* owners, steps and lease durations, and about the receipts that undo     *)
(* what a task wrote.  The conjuncts of LedgerInv are each inductive once  *)
(* the type invariant and the ones before them are known.                  *)
(***************************************************************************)
EXTENDS JobRunner, UndoReceipts, FiniteSetTheorems, WellFoundedInduction, TLAPS

\* A step belongs to one job.
LEMMA StepParts ==
  ASSUME NEW s \in StepIds
  PROVE  s[1] \in Jobs /\ s[2] \in StepIdx /\ s = <<s[1], s[2]>>
BY DEF StepIds

LEMMA TextZero == 0 \in Texts
BY LedgerAssumption DEF Texts

\* Every row keeps its type: the first fact each other proof rests on.
THEOREM TypeCorrect == Spec => []TypeOK
<1>1. Init => TypeOK
  BY TextZero DEF Init, TypeOK, NoJob, NewStep, JobRecord, StepRecord,
                  JobStatus, StepStatus
<1>2. TypeOK /\ [Next]_vars => TypeOK'
  <2> SUFFICES ASSUME TypeOK, [Next]_vars
               PROVE  TypeOK'
    OBVIOUS
  <2> USE LedgerAssumption DEF TypeOK
  <2>1. ASSUME NEW j \in Jobs, CreateJob(j)
        PROVE  TypeOK'
    BY <2>1 DEF CreateJob, JobRecord, JobStatus
  <2>2. ASSUME NEW j \in Jobs, NEW o \in Owners, NEW d \in Durations,
               ClaimJob(j, o, d)
        PROVE  TypeOK'
    <3> USE <2>2 DEF ClaimJob
    <3>1. jobs' \in [Jobs -> JobRecord]
      BY DEF JobRecord, JobStatus
    <3>2. ASSUME NEW s \in StepIds
          PROVE  ResetStep(steps[s]) \in StepRecord
      BY ZenonT(40) DEF ResetStep, StepRecord, StepStatus
    <3>3. steps' \in [StepIds -> StepRecord]
      BY <3>2
    <3>4. grants' \subseteq Grant
      BY DEF Grant, JobRecord
    <3> QED BY <3>1, <3>3, <3>4
  <2>3. ASSUME NEW g \in grants, NEW d \in Durations, RenewJob(g, d)
        PROVE  TypeOK'
    BY <2>3 DEF RenewJob, JobRecord
  <2>4. ASSUME NEW g \in grants, ReleaseJob(g)
        PROVE  TypeOK'
    BY ZenonT(40), <2>4 DEF ReleaseJob, JobRecord
  <2>5. ASSUME NEW g \in grants, NEW d \in Durations, ClaimNextStep(g, d)
        PROVE  TypeOK'
    <3>1. PICK s \in StepsOf(g.job) :
            /\ steps' = [steps EXCEPT ![s].status = "running",
                                      ![s].owner = g.owner,
                                      ![s].ttl = Shorter(d, jobs[g.job].ttl),
                                      ![s].token = tokens + 1,
                                      ![s].attempts = @ + 1]
            /\ stepHeadroom' = stepHeadroom \cup {s}
            /\ claims' = claims \cup {[step |-> s, token |-> tokens + 1,
                                       owner |-> g.owner, epoch |-> g.epoch]}
      BY <2>5 DEF ClaimNextStep
    <3>2. s \in StepIds /\ g \in Grant
      BY DEF StepsOf
    <3>3. Shorter(d, jobs[g.job].ttl) \in Nat
      BY <3>2 DEF Shorter, JobRecord, Grant
    <3>4. steps' \in [StepIds -> StepRecord]
      BY <3>1, <3>2, <3>3 DEF StepRecord, StepStatus, Grant
    <3>5. claims' \subseteq Claim
      BY <3>1, <3>2 DEF Claim, Grant
    <3> QED BY <2>5, <3>1, <3>2, <3>4, <3>5 DEF ClaimNextStep
  <2>6. ASSUME NEW c \in claims, NEW d \in Durations, RenewStep(c, d)
        PROVE  TypeOK'
    <3>1. c.step \in StepIds /\ c.step[1] \in Jobs
      BY StepParts DEF Claim
    <3>2. Shorter(d, jobs[c.step[1]].ttl) \in Nat
      BY <3>1 DEF Shorter, JobRecord
    <3>3. steps' \in [StepIds -> StepRecord]
      BY <2>6, <3>1, <3>2 DEF RenewStep, StepRecord
    <3> QED BY <2>6, <3>3 DEF RenewStep
  <2>7. ASSUME NEW c \in claims, NEW status \in {"done", "pending", "failed"},
               NEW t \in Texts, FinishStep(c, status, t)
        PROVE  TypeOK'
    <3>1. c.step \in StepIds /\ c.step[1] \in Jobs
      BY StepParts DEF Claim
    <3>2. Finished(steps[c.step], status, t) \in StepRecord
      BY ZenonT(40), <3>1 DEF Finished, StepRecord, StepStatus
    <3>3. steps' \in [StepIds -> StepRecord]
      BY <2>7, <3>2 DEF FinishStep
    <3>4. jobs' \in [Jobs -> JobRecord] /\ jobHeadroom' \subseteq Jobs
      BY <2>7, <3>1 DEF FinishStep, JobRecord, JobStatus
    <3> QED BY <2>7, <3>3, <3>4 DEF FinishStep
  <2>8. ASSUME NEW g \in grants, NEW status \in {"done", "paused"},
               NEW t \in Texts, SetClaimedJob(g, status, t)
        PROVE  TypeOK'
    <3>1. jobs' \in [Jobs -> JobRecord]
      BY <2>8 DEF SetClaimedJob, JobRecord, JobStatus
    <3> QED BY <2>8, <3>1 DEF SetClaimedJob
  <2>9. ASSUME NEW j \in Jobs, NEW t \in Texts, FailUnclaimedJob(j, t)
        PROVE  TypeOK'
    <3>1. jobs' \in [Jobs -> JobRecord]
      BY <2>9 DEF FailUnclaimedJob, JobRecord, JobStatus
    <3> QED BY <2>9, <3>1 DEF FailUnclaimedJob
  <2>10. CASE Tick
    <3>1. ASSUME NEW t \in Nat
          PROVE  Less(t) \in Nat
      BY DEF Less
    <3>2. jobs' \in [Jobs -> JobRecord]
      BY <2>10, <3>1 DEF Tick, JobRecord
    <3>3. steps' \in [StepIds -> StepRecord]
      BY ZenonT(40), <2>10, <3>1 DEF Tick, StepRecord
    <3> QED BY <2>10, <3>2, <3>3 DEF Tick
  <2>11. CASE UNCHANGED vars
    BY <2>11 DEF vars
  <2> QED
    BY <2>1, <2>2, <2>3, <2>4, <2>5, <2>6, <2>7, <2>8, <2>9, <2>10, <2>11
    DEF Next
<1> QED BY <1>1, <1>2, PTL DEF Spec

-----------------------------------------------------------------------------
(***************************************************************************)
(* What the two actions that hand out work do to the rows of the steps.    *)
(***************************************************************************)

\* claim_job sends the running and failed steps of the job back to pending, and
\* leaves every other step alone.
LEMMA ClaimJobSteps ==
  ASSUME TypeOK, NEW j \in Jobs, NEW o \in Owners, NEW d \in Durations,
         ClaimJob(j, o, d), NEW s \in StepIds
  PROVE  /\ s \in Resets(j) => /\ s[1] = j
                               /\ steps[s].status \in {"running", "failed"}
                               /\ steps'[s].status = "pending"
                               /\ steps'[s].owner = NoOwner
                               /\ steps'[s].token = 0
                               /\ steps'[s].ttl = 0
         /\ s \notin Resets(j) => steps'[s] = steps[s]
         /\ s[1] = j => steps'[s].status \notin {"running", "failed"}
<1> USE DEF TypeOK
<1>1. s \in Resets(j) <=>
        s[1] = j /\ steps[s].status \in {"running", "failed"}
  BY DEF Resets, StepsOf
<1>2. LET r == ResetStep(steps[s])
      IN  r.status = "pending" /\ r.owner = NoOwner /\ r.token = 0 /\ r.ttl = 0
  BY DEF ResetStep, StepRecord
<1>3. steps'[s] = IF s \in Resets(j) THEN ResetStep(steps[s]) ELSE steps[s]
  BY SMTT(30) DEF ClaimJob
<1> QED BY <1>1, <1>2, <1>3

\* claim_next_step starts one step whose dependencies are done, under the lease
\* and the epoch of the caller, and leaves every other step alone.
LEMMA ClaimNextStepSteps ==
  ASSUME TypeOK, NEW g \in grants, NEW d \in Durations, ClaimNextStep(g, d)
  PROVE  \E s \in StepIds :
           /\ s[1] = g.job /\ steps[s].status = "pending" /\ DepsDone(s)
           /\ steps' = [steps EXCEPT ![s] = steps'[s]]
           /\ steps'[s].status = "running" /\ steps'[s].owner = g.owner
           /\ steps'[s].token = tokens + 1
           /\ stepHeadroom' = stepHeadroom \cup {s}
           /\ claims' = claims \cup {[step |-> s, token |-> tokens + 1,
                                      owner |-> g.owner, epoch |-> g.epoch]}
<1> USE DEF TypeOK
<1>1. PICK s \in StepsOf(g.job) :
        /\ FirstReady(s)
        /\ steps' = [steps EXCEPT ![s].status = "running",
                                  ![s].owner = g.owner,
                                  ![s].ttl = Shorter(d, jobs[g.job].ttl),
                                  ![s].token = tokens + 1,
                                  ![s].attempts = @ + 1]
        /\ stepHeadroom' = stepHeadroom \cup {s}
        /\ claims' = claims \cup {[step |-> s, token |-> tokens + 1,
                                   owner |-> g.owner, epoch |-> g.epoch]}
  BY DEF ClaimNextStep
<1>2. s \in StepIds /\ s[1] = g.job
  BY DEF StepsOf
<1>3. steps[s].status = "pending" /\ DepsDone(s)
  BY <1>1 DEF FirstReady, Ready
<1>4. /\ steps' = [steps EXCEPT ![s] = steps'[s]]
      /\ steps'[s].status = "running" /\ steps'[s].owner = g.owner
      /\ steps'[s].token = tokens + 1
  BY <1>1, <1>2 DEF StepRecord
<1> QED BY <1>1, <1>2, <1>3, <1>4

\* finish_claimed_step changes the status of the one running step it is about.
LEMMA FinishStepSteps ==
  ASSUME TypeOK, NEW c \in claims, NEW status \in {"done", "pending", "failed"},
         NEW t \in Texts, FinishStep(c, status, t)
  PROVE  /\ c.step \in StepIds /\ c.step[1] \in Jobs
         /\ steps[c.step].status = "running"
         /\ steps' = [steps EXCEPT ![c.step] = steps'[c.step]]
         /\ steps'[c.step].status = status
         /\ steps'[c.step].owner = NoOwner
         /\ steps'[c.step].token = 0
         /\ steps'[c.step].ttl = 0
<1>1. c.step \in StepIds /\ c.step[1] \in Jobs
  BY StepParts DEF TypeOK, Claim
<1>2. steps[c.step] \in StepRecord /\ steps[c.step].status = "running"
  BY <1>1 DEF TypeOK, FinishStep, ClaimAuthority
<1>3. LET r == Finished(steps[c.step], status, t)
      IN  r.status = status /\ r.owner = NoOwner /\ r.token = 0 /\ r.ttl = 0
  BY <1>2 DEF Finished, StepRecord
<1>4. steps' = [steps EXCEPT ![c.step] = Finished(steps[c.step], status, t)]
  BY DEF FinishStep
<1>5. steps'[c.step] = Finished(steps[c.step], status, t)
  BY <1>1, <1>4 DEF TypeOK
<1> QED BY <1>1, <1>2, <1>3, <1>4, <1>5

\* renew_step and the passing of time move nothing but the leases of steps.
LEMMA RenewStepSteps ==
  ASSUME TypeOK, NEW c \in claims, NEW d \in Durations, RenewStep(c, d),
         NEW s \in StepIds
  PROVE  /\ steps'[s] = [steps[s] EXCEPT !.ttl = steps'[s].ttl]
         /\ steps'[s].ttl # steps[s].ttl => s = c.step
BY StepParts DEF TypeOK, RenewStep, StepRecord, Claim

LEMMA TickRows ==
  ASSUME TypeOK, Tick
  PROVE  /\ \A s \in StepIds :
              /\ steps'[s] = [steps[s] EXCEPT !.ttl = steps'[s].ttl]
              /\ steps'[s].ttl > 0 => steps[s].ttl > 0
         /\ \A j \in Jobs : jobs'[j] = [jobs[j] EXCEPT !.ttl = jobs'[j].ttl]
<1>1. ASSUME NEW t \in Nat
      PROVE  Less(t) > 0 => t > 0
  BY DEF Less
<1> QED BY <1>1 DEF TypeOK, Tick, StepRecord, JobRecord

\* Headroom is held by exactly the active jobs and the running steps.
LEMMA HeadroomStep ==
  ASSUME TypeOK, TypeOK', HeadroomExact, [Next]_vars
  PROVE  HeadroomExact'
<1> USE DEF TypeOK, HeadroomExact
<1>1. ASSUME NEW j \in Jobs, CreateJob(j)
      PROVE  HeadroomExact'
  BY <1>1 DEF CreateJob, JobRecord
<1>2. ASSUME NEW j \in Jobs, NEW o \in Owners, NEW d \in Durations,
             ClaimJob(j, o, d)
      PROVE  HeadroomExact'
  <2>1. (jobHeadroom = {k \in Jobs : jobs[k].status \in {"planning", "running"}})'
    BY <1>2 DEF ClaimJob, JobRecord
  <2>2. ASSUME NEW s \in StepIds
        PROVE  s \in stepHeadroom' <=> steps'[s].status = "running"
    BY <1>2, ClaimJobSteps DEF ClaimJob
  <2> QED BY <1>2, <2>1, <2>2 DEF ClaimJob
<1>3. ASSUME NEW g \in grants, NEW d \in Durations, RenewJob(g, d)
      PROVE  HeadroomExact'
  BY <1>3 DEF RenewJob, JobRecord
<1>4. ASSUME NEW g \in grants, ReleaseJob(g)
      PROVE  HeadroomExact'
  BY SMTT(30), <1>4 DEF ReleaseJob, JobRecord
<1>5. ASSUME NEW g \in grants, NEW d \in Durations, ClaimNextStep(g, d)
      PROVE  HeadroomExact'
  <2>1. PICK s \in StepIds :
          /\ steps' = [steps EXCEPT ![s] = steps'[s]]
          /\ steps'[s].status = "running"
          /\ stepHeadroom' = stepHeadroom \cup {s}
    BY <1>5, ClaimNextStepSteps
  <2>2. (stepHeadroom = {r \in StepIds : steps[r].status = "running"})'
    BY <2>1
  <2> QED BY <1>5, <2>2 DEF ClaimNextStep
<1>6. ASSUME NEW c \in claims, NEW d \in Durations, RenewStep(c, d)
      PROVE  HeadroomExact'
  BY <1>6 DEF RenewStep, StepRecord
<1>7. ASSUME NEW c \in claims, NEW status \in {"done", "pending", "failed"},
             NEW t \in Texts, FinishStep(c, status, t)
      PROVE  HeadroomExact'
  <2>1. c.step \in StepIds /\ c.step[1] \in Jobs
    BY StepParts DEF Claim
  <2>2. (stepHeadroom = {s \in StepIds : steps[s].status = "running"})'
    BY <1>7, <2>1 DEF FinishStep, Finished, StepRecord
  <2>3. (jobHeadroom = {k \in Jobs : jobs[k].status \in {"planning", "running"}})'
    BY <1>7, <2>1 DEF FinishStep, JobRecord
  <2> QED BY <2>2, <2>3
<1>8. ASSUME NEW g \in grants, NEW status \in {"done", "paused"},
             NEW t \in Texts, SetClaimedJob(g, status, t)
      PROVE  HeadroomExact'
  BY <1>8 DEF SetClaimedJob, JobRecord, Grant
<1>9. ASSUME NEW j \in Jobs, NEW t \in Texts, FailUnclaimedJob(j, t)
      PROVE  HeadroomExact'
  BY <1>9 DEF FailUnclaimedJob, JobRecord
<1>10. CASE Tick
  BY <1>10 DEF Tick, JobRecord, StepRecord
<1>11. CASE UNCHANGED vars
  BY <1>11 DEF vars
<1> QED
  BY <1>1, <1>2, <1>3, <1>4, <1>5, <1>6, <1>7, <1>8, <1>9, <1>10, <1>11
  DEF Next

\* The lease columns of a step are set exactly while it runs.
LEMMA LeaseColumnsStep ==
  ASSUME TypeOK, TypeOK', LeaseColumns, [Next]_vars
  PROVE  LeaseColumns'
<1> USE DEF LeaseColumns
<1>1. ASSUME NEW j \in Jobs, CreateJob(j)
      PROVE  LeaseColumns'
  BY <1>1 DEF CreateJob
<1>2. ASSUME NEW j \in Jobs, NEW o \in Owners, NEW d \in Durations,
             ClaimJob(j, o, d)
      PROVE  LeaseColumns'
  <2>1. tokens' = tokens
    BY <1>2 DEF ClaimJob
  <2> QED BY <1>2, <2>1, ClaimJobSteps
<1>3. ASSUME NEW g \in grants, NEW d \in Durations, RenewJob(g, d)
      PROVE  LeaseColumns'
  BY <1>3 DEF RenewJob
<1>4. ASSUME NEW g \in grants, ReleaseJob(g)
      PROVE  LeaseColumns'
  BY <1>4 DEF ReleaseJob
<1>5. ASSUME NEW g \in grants, NEW d \in Durations, ClaimNextStep(g, d)
      PROVE  LeaseColumns'
  <2>1. PICK s \in StepIds :
          /\ steps' = [steps EXCEPT ![s] = steps'[s]]
          /\ steps'[s].status = "running" /\ steps'[s].owner = g.owner
          /\ steps'[s].token = tokens + 1
    BY <1>5, ClaimNextStepSteps
  <2>2. tokens' = tokens + 1 /\ tokens \in Nat /\ g.owner \in Owners
    BY <1>5 DEF ClaimNextStep, TypeOK, Grant
  <2>3. ASSUME NEW r \in StepIds, r # s
        PROVE  steps'[r] = steps[r]
    BY <2>1, <2>3 DEF TypeOK
  <2> QED BY <2>1, <2>2, <2>3
<1>6. ASSUME NEW c \in claims, NEW d \in Durations, RenewStep(c, d)
      PROVE  LeaseColumns'
  <2>1. /\ steps' = [steps EXCEPT ![c.step].ttl =
                                    Shorter(d, jobs[c.step[1]].ttl)]
        /\ steps[c.step].status = "running" /\ tokens' = tokens
    BY <1>6 DEF RenewStep, ClaimAuthority
  <2> QED BY <2>1 DEF TypeOK, StepRecord
<1>7. ASSUME NEW c \in claims, NEW status \in {"done", "pending", "failed"},
             NEW t \in Texts, FinishStep(c, status, t)
      PROVE  LeaseColumns'
  <2>1. tokens' = tokens
    BY <1>7 DEF FinishStep
  <2>2. ASSUME NEW r \in StepIds, r # c.step
        PROVE  steps'[r] = steps[r]
    BY <1>7, <2>2, FinishStepSteps DEF TypeOK
  <2>3. /\ steps'[c.step].status # "running"
        /\ steps'[c.step].owner = NoOwner /\ steps'[c.step].token = 0
        /\ steps'[c.step].ttl = 0
    BY <1>7, FinishStepSteps
  <2> QED BY <2>1, <2>2, <2>3
<1>8. ASSUME NEW g \in grants, NEW status \in {"done", "paused"},
             NEW t \in Texts, SetClaimedJob(g, status, t)
      PROVE  LeaseColumns'
  BY <1>8 DEF SetClaimedJob
<1>9. ASSUME NEW j \in Jobs, NEW t \in Texts, FailUnclaimedJob(j, t)
      PROVE  LeaseColumns'
  BY <1>9 DEF FailUnclaimedJob
<1>10. CASE Tick
  <2>1. ASSUME NEW s \in StepIds
        PROVE  /\ steps'[s].status = steps[s].status
               /\ steps'[s].owner = steps[s].owner
               /\ steps'[s].token = steps[s].token
               /\ steps[s].ttl = 0 => steps'[s].ttl = 0
    BY <1>10 DEF Tick, Less, TypeOK, StepRecord
  <2>2. tokens' = tokens
    BY <1>10 DEF Tick
  <2> QED BY <2>1, <2>2
<1>11. CASE UNCHANGED vars
  BY <1>11 DEF vars
<1> QED
  BY <1>1, <1>2, <1>3, <1>4, <1>5, <1>6, <1>7, <1>8, <1>9, <1>10, <1>11
  DEF Next

\* Only a claim starts a step, and a done step is never touched again, so the
\* dependencies of a step that runs or is done stay done.
LEMMA DoneStays ==
  ASSUME TypeOK, LeaseColumns, [Next]_vars,
         NEW s \in StepIds, steps[s].status = "done"
  PROVE  steps'[s] = steps[s]
<1> USE DEF TypeOK
<1>1. ASSUME NEW j \in Jobs, CreateJob(j)
      PROVE  steps'[s] = steps[s]
  BY <1>1 DEF CreateJob
<1>2. ASSUME NEW j \in Jobs, NEW o \in Owners, NEW d \in Durations,
             ClaimJob(j, o, d)
      PROVE  steps'[s] = steps[s]
  BY <1>2, ClaimJobSteps
<1>3. ASSUME NEW g \in grants, NEW d \in Durations,
             RenewJob(g, d) \/ ReleaseJob(g)
      PROVE  steps'[s] = steps[s]
  BY <1>3 DEF RenewJob, ReleaseJob
<1>4. ASSUME NEW g \in grants, ReleaseJob(g)
      PROVE  steps'[s] = steps[s]
  BY <1>4 DEF ReleaseJob
<1>5. ASSUME NEW g \in grants, NEW d \in Durations, ClaimNextStep(g, d)
      PROVE  steps'[s] = steps[s]
  BY <1>5, ClaimNextStepSteps
<1>6. ASSUME NEW c \in claims, NEW d \in Durations, RenewStep(c, d)
      PROVE  steps'[s] = steps[s]
  BY <1>6 DEF RenewStep, ClaimAuthority
<1>7. ASSUME NEW c \in claims, NEW status \in {"done", "pending", "failed"},
             NEW t \in Texts, FinishStep(c, status, t)
      PROVE  steps'[s] = steps[s]
  BY <1>7, FinishStepSteps
<1>8. ASSUME NEW g \in grants, NEW status \in {"done", "paused"},
             NEW t \in Texts, SetClaimedJob(g, status, t)
      PROVE  steps'[s] = steps[s]
  BY <1>8 DEF SetClaimedJob
<1>9. ASSUME NEW j \in Jobs, NEW t \in Texts, FailUnclaimedJob(j, t)
      PROVE  steps'[s] = steps[s]
  BY <1>9 DEF FailUnclaimedJob
<1>10. CASE Tick
  <2>1. steps'[s] = [steps[s] EXCEPT !.ttl = Less(@)]
    BY <1>10 DEF Tick
  <2>2. steps[s].ttl = 0
    BY DEF LeaseColumns
  <2> QED BY <2>1, <2>2 DEF Less, StepRecord
<1>11. CASE UNCHANGED vars
  BY <1>11 DEF vars
<1> QED
  BY <1>1, <1>2, <1>3, <1>4, <1>5, <1>6, <1>7, <1>8, <1>9, <1>10, <1>11
  DEF Next

\* A step that is not running or done becomes so only by a claim, which asks for
\* its dependencies.
LEMMA DependenciesStep ==
  ASSUME TypeOK, TypeOK', LeaseColumns, DependenciesFirst, [Next]_vars
  PROVE  DependenciesFirst'
<1>1. ASSUME NEW s \in StepIds, DepsDone(s)
      PROVE  DepsDone(s)'
  <2>1. \A d \in DepsOf(s) : d \in StepIds
    <3>1. s[1] \in Jobs /\ s[2] \in StepIdx
      BY StepParts
    <3> QED BY <3>1, LedgerAssumption DEF DepsOf, StepIds
  <2> QED BY <1>1, <2>1, DoneStays DEF DepsDone
<1>2. SUFFICES ASSUME NEW s \in StepIds,
                      steps'[s].status \in {"running", "done"}
               PROVE  DepsDone(s)
  BY <1>1 DEF DependenciesFirst
<1>3. CASE steps[s].status \in {"running", "done"}
  BY <1>3 DEF DependenciesFirst
<1>4. CASE steps[s].status \notin {"running", "done"}
  <2> USE <1>4
  <2>1. ASSUME NEW j \in Jobs, NEW o \in Owners, NEW d \in Durations,
               ClaimJob(j, o, d)
        PROVE  FALSE
    BY <1>2, <2>1, ClaimJobSteps
  <2>2. ASSUME NEW g \in grants, NEW d \in Durations, ClaimNextStep(g, d)
        PROVE  DepsDone(s)
    BY <1>2, <2>2, ClaimNextStepSteps DEF TypeOK
  <2>3. ASSUME NEW c \in claims, NEW d \in Durations, RenewStep(c, d)
        PROVE  FALSE
    <3>1. steps'[s].status = steps[s].status
      BY <2>3, RenewStepSteps DEF TypeOK, StepRecord
    <3> QED BY <1>2, <3>1
  <2>4. ASSUME NEW c \in claims, NEW status \in {"done", "pending", "failed"},
               NEW t \in Texts, FinishStep(c, status, t)
        PROVE  FALSE
    BY <1>2, <2>4, FinishStepSteps DEF TypeOK
  <2>5. CASE Tick
    <3>1. steps'[s].status = steps[s].status
      BY <2>5, TickRows DEF TypeOK, StepRecord
    <3> QED BY <1>2, <3>1
  <2>6. CASE steps' = steps
    BY SMTT(30), <1>2, <2>6
  <2> QED
    BY <2>1, <2>2, <2>3, <2>4, <2>5, <2>6
    DEF Next, CreateJob, RenewJob, ReleaseJob, SetClaimedJob,
        FailUnclaimedJob, vars
<1> QED BY <1>3, <1>4

\* A job becomes done only when its steps are, and done steps stay done.
LEMMA DoneJobStep ==
  ASSUME TypeOK, TypeOK', LeaseColumns, DoneJobIsComplete, [Next]_vars
  PROVE  DoneJobIsComplete'
<1>1. ASSUME NEW j \in Jobs, AllDone(j)
      PROVE  AllDone(j)'
  BY <1>1, DoneStays DEF AllDone, StepsOf
<1>2. SUFFICES ASSUME NEW j \in Jobs, jobs'[j].status = "done",
                      jobs[j].status # "done"
               PROVE  AllDone(j)
  BY <1>1 DEF DoneJobIsComplete
<1> USE DEF TypeOK, JobRecord
<1>3. ASSUME NEW k \in Jobs, CreateJob(k)
      PROVE  FALSE
  BY <1>2, <1>3 DEF CreateJob
<1>4. ASSUME NEW k \in Jobs, NEW o \in Owners, NEW d \in Durations,
             ClaimJob(k, o, d)
      PROVE  FALSE
  BY <1>2, <1>4 DEF ClaimJob
<1>5. ASSUME NEW g \in grants, NEW d \in Durations, RenewJob(g, d)
      PROVE  FALSE
  BY <1>2, <1>5 DEF RenewJob
<1>6. ASSUME NEW g \in grants, ReleaseJob(g)
      PROVE  FALSE
  BY <1>2, <1>6 DEF ReleaseJob
<1>7. ASSUME NEW c \in claims, NEW status \in {"done", "pending", "failed"},
             NEW t \in Texts, FinishStep(c, status, t)
      PROVE  FALSE
  BY <1>2, <1>7 DEF FinishStep
<1>8. ASSUME NEW g \in grants, NEW status \in {"done", "paused"},
             NEW t \in Texts, SetClaimedJob(g, status, t)
      PROVE  AllDone(j)
  BY <1>2, <1>8 DEF SetClaimedJob
<1>9. ASSUME NEW k \in Jobs, NEW t \in Texts, FailUnclaimedJob(k, t)
      PROVE  FALSE
  BY <1>2, <1>9 DEF FailUnclaimedJob
<1>10. CASE Tick
  BY <1>2, <1>10, TickRows
<1>11. CASE jobs' = jobs
  BY SMTT(30), <1>2, <1>11
<1> QED
  BY <1>3, <1>4, <1>5, <1>6, <1>7, <1>8, <1>9, <1>10, <1>11
  DEF Next, ClaimNextStep, RenewStep, vars

-----------------------------------------------------------------------------
(***************************************************************************)
(* Most actions leave most columns alone; the four facts about failures,   *)
(* epochs, claims and releases only concern the actions that do not.       *)
(***************************************************************************)

\* Only a claim and a release change the owner of a job, and only a claim its
\* epoch.
LEMMA RootFrame ==
  ASSUME TypeOK, [Next]_vars
  PROVE  \/ \E j \in Jobs, o \in Owners, d \in Durations : ClaimJob(j, o, d)
         \/ \E g \in grants : ReleaseJob(g)
         \/ /\ grants' = grants
            /\ \A j \in Jobs : /\ jobs'[j].owner = jobs[j].owner
                              /\ jobs'[j].epoch = jobs[j].epoch
<1> DEFINE Same == /\ grants' = grants
                   /\ \A j \in Jobs : /\ jobs'[j].owner = jobs[j].owner
                                     /\ jobs'[j].epoch = jobs[j].epoch
<1> USE DEF TypeOK, JobRecord
<1>1. ASSUME NEW j \in Jobs, CreateJob(j)
      PROVE  Same
  BY <1>1 DEF CreateJob
<1>2. ASSUME NEW g \in grants, NEW d \in Durations, RenewJob(g, d)
      PROVE  Same
  BY <1>2 DEF RenewJob
<1>3. ASSUME NEW c \in claims, NEW status \in {"done", "pending", "failed"},
             NEW t \in Texts, FinishStep(c, status, t)
      PROVE  Same
  BY <1>3 DEF FinishStep
<1>4. ASSUME NEW g \in grants, NEW status \in {"done", "paused"},
             NEW t \in Texts, SetClaimedJob(g, status, t)
      PROVE  Same
  BY <1>4 DEF SetClaimedJob
<1>5. ASSUME NEW j \in Jobs, NEW t \in Texts, FailUnclaimedJob(j, t)
      PROVE  Same
  BY <1>5 DEF FailUnclaimedJob
<1>6. CASE Tick
  BY <1>6, TickRows DEF Tick
<1>7. CASE jobs' = jobs /\ grants' = grants
  BY <1>7
<1> QED
  BY <1>1, <1>2, <1>3, <1>4, <1>5, <1>6, <1>7
  DEF Next, ClaimNextStep, RenewStep, vars

\* Only a claim, a finish and the reset of a new epoch change more of a step
\* than its lease, and only a claim and a renewal give it more time.
LEMMA StepFrame ==
  ASSUME TypeOK, [Next]_vars
  PROVE  \/ \E j \in Jobs, o \in Owners, d \in Durations : ClaimJob(j, o, d)
         \/ \E g \in grants, d \in Durations : ClaimNextStep(g, d)
         \/ \E c \in claims, status \in {"done", "pending", "failed"},
               t \in Texts : FinishStep(c, status, t)
         \/ /\ claims' = claims
            /\ \A s \in StepIds :
                 /\ steps'[s].status = steps[s].status
                 /\ steps'[s].owner = steps[s].owner
                 /\ steps'[s].token = steps[s].token
                 /\ \/ steps'[s].ttl > 0 => steps[s].ttl > 0
                    \/ \E c \in claims, d \in Durations :
                         RenewStep(c, d) /\ s = c.step
<1> DEFINE Same(s) == /\ steps'[s].status = steps[s].status
                      /\ steps'[s].owner = steps[s].owner
                      /\ steps'[s].token = steps[s].token
           Kept(s) == steps'[s].ttl > 0 => steps[s].ttl > 0
<1>1. ASSUME NEW c \in claims, NEW d \in Durations, RenewStep(c, d),
             NEW s \in StepIds
      PROVE  Same(s) /\ (Kept(s) \/ s = c.step)
  <2>1. /\ steps'[s] = [steps[s] EXCEPT !.ttl = steps'[s].ttl]
        /\ steps'[s].ttl # steps[s].ttl => s = c.step
    BY <1>1, RenewStepSteps
  <2>2. Same(s)
    BY <2>1 DEF TypeOK, StepRecord
  <2> QED BY <2>1, <2>2
<1>2. ASSUME Tick, NEW s \in StepIds
      PROVE  Same(s) /\ Kept(s)
  <2>1. /\ steps'[s] = [steps[s] EXCEPT !.ttl = steps'[s].ttl]
        /\ Kept(s)
    BY <1>2, TickRows
  <2>2. Same(s)
    BY <2>1 DEF TypeOK, StepRecord
  <2> QED BY <2>1, <2>2
<1>3. ASSUME steps' = steps, NEW s \in StepIds
      PROVE  Same(s) /\ Kept(s)
  BY SMTT(30), <1>3
<1>4. \/ \E j \in Jobs, o \in Owners, d \in Durations : ClaimJob(j, o, d)
      \/ \E g \in grants, d \in Durations : ClaimNextStep(g, d)
      \/ \E c \in claims, status \in {"done", "pending", "failed"},
            t \in Texts : FinishStep(c, status, t)
      \/ /\ claims' = claims
         /\ \/ \E c \in claims, d \in Durations : RenewStep(c, d)
            \/ Tick
            \/ steps' = steps
  BY DEF Next, CreateJob, RenewJob, ReleaseJob, SetClaimedJob,
         FailUnclaimedJob, RenewStep, Tick, vars
<1> QED BY <1>1, <1>2, <1>3, <1>4

\* The failures of a step and of its job are one commit.
LEMMA FailureStep ==
  ASSUME TypeOK, TypeOK', FailureIsAtomic, [Next]_vars
  PROVE  FailureIsAtomic'
<1> DEFINE Failed(s) == steps[s].status = "failed"
           SameFailures == \A s \in StepIds : Failed(s)' <=> Failed(s)
           SameJob(j) == /\ (jobs'[j].status = "failed") =
                               (jobs[j].status = "failed")
                         /\ jobs'[j].epoch = jobs[j].epoch
           Atomic(j) == /\ (\E s \in StepsOf(j) : Failed(s)) =>
                             jobs[j].status = "failed"
                        /\ jobs[j].status = "failed" /\ jobs[j].epoch > 0 =>
                             \E s \in StepsOf(j) : Failed(s)
<1>1. FailureIsAtomic <=> \A j \in Jobs : Atomic(j)
  BY DEF FailureIsAtomic
<1>2. FailureIsAtomic' <=> \A j \in Jobs : Atomic(j)'
  BY DEF FailureIsAtomic
<1>3. ASSUME NEW j \in Jobs, SameJob(j),
             \A s \in StepsOf(j) : Failed(s)' <=> Failed(s)
      PROVE  Atomic(j)'
  <2>1. Atomic(j)
    BY <1>1
  <2>2. StepsOf(j)' = StepsOf(j)
    BY DEF StepsOf
  <2> QED BY <1>3, <2>1, <2>2
<1> USE DEF TypeOK
<1>4. ASSUME NEW k \in Jobs, CreateJob(k)
      PROVE  FailureIsAtomic'
  <2>1. \A j \in Jobs : SameJob(j)
    BY <1>4 DEF CreateJob, JobRecord
  <2>2. steps' = steps
    BY <1>4 DEF CreateJob
  <2> QED BY <1>2, <1>3, <2>1, <2>2
<1>5. ASSUME NEW k \in Jobs, NEW o \in Owners, NEW d \in Durations,
             ClaimJob(k, o, d)
      PROVE  FailureIsAtomic'
  <2>1. ASSUME NEW j \in Jobs, j # k
        PROVE  Atomic(j)'
    <3>1. \A s \in StepsOf(j) : steps'[s] = steps[s]
      BY <1>5, <2>1, ClaimJobSteps DEF StepsOf
    <3>2. SameJob(j)
      BY <1>5, <2>1 DEF ClaimJob
    <3> QED BY <1>3, <3>1, <3>2
  <2>2. jobs'[k].status = "running"
    BY <1>5 DEF ClaimJob, JobRecord
  <2>3. \A s \in StepsOf(k) : ~ Failed(s)'
    BY <1>5, ClaimJobSteps DEF StepsOf
  <2>4. Atomic(k)'
    BY <2>2, <2>3 DEF StepsOf
  <2> QED BY <1>2, <2>1, <2>4
<1>6. ASSUME NEW g \in grants, NEW d \in Durations, RenewJob(g, d)
      PROVE  FailureIsAtomic'
  <2>1. \A j \in Jobs : SameJob(j)
    BY <1>6 DEF RenewJob, JobRecord
  <2>2. steps' = steps
    BY <1>6 DEF RenewJob
  <2> QED BY <1>2, <1>3, <2>1, <2>2
<1>7. ASSUME NEW g \in grants, ReleaseJob(g)
      PROVE  FailureIsAtomic'
  <2>1. \A j \in Jobs : SameJob(j)
    BY <1>7 DEF ReleaseJob, JobRecord
  <2>2. steps' = steps
    BY <1>7 DEF ReleaseJob
  <2> QED BY <1>2, <1>3, <2>1, <2>2
<1>8. ASSUME NEW g \in grants, NEW d \in Durations, ClaimNextStep(g, d)
      PROVE  FailureIsAtomic'
  <2>1. SameFailures
    BY <1>8, ClaimNextStepSteps
  <2>2. jobs' = jobs
    BY <1>8 DEF ClaimNextStep
  <2> QED BY <1>2, <1>3, <2>1, <2>2 DEF StepsOf
<1>9. ASSUME NEW c \in claims, NEW d \in Durations, RenewStep(c, d)
      PROVE  FailureIsAtomic'
  <2>1. SameFailures
    BY <1>9, RenewStepSteps DEF StepRecord
  <2>2. jobs' = jobs
    BY <1>9 DEF RenewStep
  <2> QED BY <1>2, <1>3, <2>1, <2>2 DEF StepsOf
<1>10. ASSUME NEW c \in claims, NEW status \in {"done", "pending", "failed"},
              NEW t \in Texts, FinishStep(c, status, t)
       PROVE  FailureIsAtomic'
  <2> DEFINE k == c.step[1]
  <2>1. /\ c.step \in StepIds /\ k \in Jobs /\ ~Failed(c.step)
        /\ steps'[c.step].status = status
        /\ \A s \in StepIds : s # c.step => steps'[s] = steps[s]
    BY <1>10, FinishStepSteps
  <2>2. jobs[k].status = "running"
    BY <1>10 DEF FinishStep, ClaimAuthority, RootAuthority
  <2>3. /\ \A j \in Jobs : j # k => jobs'[j] = jobs[j]
        /\ jobs'[k].epoch = jobs[k].epoch
        /\ jobs'[k].status = IF status = "failed" THEN "failed" ELSE "running"
    BY <1>10, <2>1, <2>2 DEF FinishStep, JobRecord
  <2>4. ASSUME NEW j \in Jobs, j # k
        PROVE  Atomic(j)'
    <3>1. \A s \in StepsOf(j) : steps'[s] = steps[s]
      BY <2>1, <2>4 DEF StepsOf
    <3> QED BY <1>3, <2>3, <2>4, <3>1
  <2>5. CASE status = "failed"
    <3>1. c.step \in StepsOf(k) /\ Failed(c.step)' /\ jobs'[k].status = "failed"
      BY <2>1, <2>3, <2>5 DEF StepsOf
    <3>2. Atomic(k)'
      BY <3>1 DEF StepsOf
    <3> QED BY <1>2, <2>4, <3>2
  <2>6. CASE status # "failed"
    <3>1. SameFailures
      BY <2>1, <2>6
    <3>2. SameJob(k)
      BY <2>2, <2>3, <2>6
    <3>3. Atomic(k)'
      BY <1>3, <2>1, <3>1, <3>2 DEF StepsOf
    <3> QED BY <1>2, <2>4, <3>3
  <2> QED BY <2>5, <2>6
<1>11. ASSUME NEW g \in grants, NEW status \in {"done", "paused"},
              NEW t \in Texts, SetClaimedJob(g, status, t)
       PROVE  FailureIsAtomic'
  <2>1. \A j \in Jobs : SameJob(j)
    BY <1>11 DEF SetClaimedJob, RootAuthority, JobRecord
  <2>2. steps' = steps
    BY <1>11 DEF SetClaimedJob
  <2> QED BY <1>2, <1>3, <2>1, <2>2
<1>12. ASSUME NEW k \in Jobs, NEW t \in Texts, FailUnclaimedJob(k, t)
       PROVE  FailureIsAtomic'
  <2>1. /\ \A j \in Jobs : j # k => SameJob(j)
        /\ jobs'[k].status = "failed" /\ jobs'[k].epoch = 0
    BY <1>12 DEF FailUnclaimedJob, JobRecord
  <2>2. steps' = steps
    BY <1>12 DEF FailUnclaimedJob
  <2>3. Atomic(k)'
    BY <2>1
  <2> QED BY <1>2, <1>3, <2>1, <2>2, <2>3
<1>13. CASE Tick
  <2>1. \A j \in Jobs : SameJob(j)
    BY <1>13, TickRows DEF JobRecord
  <2>2. SameFailures
    BY <1>13, TickRows DEF StepRecord
  <2> QED BY <1>2, <1>3, <2>1, <2>2 DEF StepsOf
<1>14. CASE UNCHANGED vars
  BY <1>1, <1>2, <1>14 DEF vars
<1> QED
  BY <1>4, <1>5, <1>6, <1>7, <1>8, <1>9, <1>10, <1>11, <1>12, <1>13, <1>14
  DEF Next

\* Epochs fence: a claim opens an epoch that no grant carries yet.
LEMMA EpochsStep ==
  ASSUME TypeOK, TypeOK', EpochsFence, [Next]_vars
  PROVE  EpochsFence'
<1> USE DEF TypeOK, EpochsFence
<1>1. ASSUME NEW j \in Jobs, NEW o \in Owners, NEW d \in Durations,
             ClaimJob(j, o, d)
      PROVE  EpochsFence'
  <2> DEFINE new == [job |-> j, owner |-> o, epoch |-> jobs[j].epoch + 1]
  <2>1. /\ grants' = grants \cup {new}
        /\ jobs'[j].epoch = jobs[j].epoch + 1 /\ jobs'[j].owner = o
        /\ \A k \in Jobs : k # j => jobs'[k] = jobs[k]
    BY <1>1 DEF ClaimJob, JobRecord
  <2>2. \A k \in Jobs : jobs[k].epoch \in Nat
    BY DEF JobRecord
  <2>3. ASSUME NEW g \in grants
        PROVE  g.job \in Jobs /\ g.epoch \in Nat
    BY DEF Grant
  <2>4. ASSUME NEW g \in grants'
        PROVE  /\ g.epoch <= jobs'[g.job].epoch
               /\ g.epoch = jobs'[g.job].epoch =>
                    jobs'[g.job].owner \in {g.owner, NoOwner}
    <3>1. CASE g = new
      BY <2>1, <2>2, <3>1
    <3>2. CASE g \in grants
      BY <2>1, <2>2, <2>3, <3>2
    <3> QED BY <2>1, <3>1, <3>2
  <2>5. ASSUME NEW g \in grants, g.job = j
        PROVE  g.epoch # new.epoch
    BY <2>2, <2>3, <2>5
  <2>6. ASSUME NEW g \in grants', NEW h \in grants',
               h.job = g.job, h.epoch = g.epoch
        PROVE  h = g
    BY <2>1, <2>5, <2>6
  <2> QED BY <2>4, <2>6
<1>2. ASSUME NEW r \in grants, ReleaseJob(r)
      PROVE  EpochsFence'
  <2>1. /\ grants' = grants
        /\ \A j \in Jobs : /\ jobs'[j].epoch = jobs[j].epoch
                          /\ jobs'[j].owner \in {jobs[j].owner, NoOwner}
    BY <1>2 DEF ReleaseJob, JobRecord
  <2> QED BY <2>1 DEF Grant
<1>3. ASSUME grants' = grants,
             \A j \in Jobs : /\ jobs'[j].owner = jobs[j].owner
                            /\ jobs'[j].epoch = jobs[j].epoch
      PROVE  EpochsFence'
  BY <1>3 DEF Grant
<1> QED BY <1>1, <1>2, <1>3, RootFrame

\* A running step was claimed under the current epoch: claims of older epochs
\* are reset by the claim that opens a new one.
LEMMA CurrentStep ==
  ASSUME TypeOK, TypeOK', ClaimsAreCurrent, [Next]_vars
  PROVE  ClaimsAreCurrent'
<1> DEFINE Current(s) == \E c \in claims :
             /\ c.step = s /\ c.token = steps[s].token
             /\ c.owner = steps[s].owner /\ c.epoch = jobs[s[1]].epoch
<1>1. ASSUME NEW s \in StepIds, steps[s].status = "running",
             claims \subseteq claims',
             steps'[s].token = steps[s].token,
             steps'[s].owner = steps[s].owner,
             jobs'[s[1]].epoch = jobs[s[1]].epoch
      PROVE  Current(s)'
  <2>1. Current(s)
    BY <1>1 DEF ClaimsAreCurrent
  <2> QED BY <1>1, <2>1
<1>2. SUFFICES ASSUME NEW s \in StepIds, steps'[s].status = "running"
               PROVE  Current(s)'
  BY DEF ClaimsAreCurrent
<1>3. s[1] \in Jobs
  BY StepParts
<1>4. ASSUME NEW j \in Jobs, NEW o \in Owners, NEW d \in Durations,
             ClaimJob(j, o, d)
      PROVE  Current(s)'
  <2>1. s[1] # j /\ steps'[s] = steps[s]
    BY <1>2, <1>4, ClaimJobSteps
  <2>2. jobs'[s[1]] = jobs[s[1]] /\ claims' = claims
    BY <1>3, <1>4, <2>1 DEF ClaimJob, TypeOK
  <2> QED BY <1>1, <1>2, <2>1, <2>2
<1>5. ASSUME NEW g \in grants, NEW d \in Durations, ClaimNextStep(g, d)
      PROVE  Current(s)'
  <2>1. PICK r \in StepIds :
          /\ r[1] = g.job
          /\ steps' = [steps EXCEPT ![r] = steps'[r]]
          /\ steps'[r].owner = g.owner /\ steps'[r].token = tokens + 1
          /\ claims' = claims \cup {[step |-> r, token |-> tokens + 1,
                                     owner |-> g.owner, epoch |-> g.epoch]}
    BY <1>5, ClaimNextStepSteps
  <2>2. jobs' = jobs /\ jobs[g.job].epoch = g.epoch
    BY <1>5 DEF ClaimNextStep, RootAuthority
  <2>3. CASE s = r
    <3> DEFINE new == [step |-> r, token |-> tokens + 1,
                       owner |-> g.owner, epoch |-> g.epoch]
    <3>1. new \in claims'
      BY <2>1
    <3>2. /\ new.step = s /\ new.token = steps'[s].token
          /\ new.owner = steps'[s].owner /\ new.epoch = jobs'[s[1]].epoch
      BY <2>1, <2>2, <2>3
    <3> QED BY <3>1, <3>2
  <2>4. CASE s # r
    <3>1. steps'[s] = steps[s]
      BY <2>1, <2>4 DEF TypeOK
    <3> QED BY <1>1, <1>2, <2>1, <2>2, <3>1
  <2> QED BY <2>3, <2>4
<1>6. ASSUME NEW c \in claims, NEW status \in {"done", "pending", "failed"},
             NEW t \in Texts, FinishStep(c, status, t)
      PROVE  Current(s)'
  <2>1. s # c.step
    BY <1>2, <1>6, FinishStepSteps
  <2>2. steps'[s] = steps[s]
    BY <1>6, <2>1, FinishStepSteps DEF TypeOK
  <2>3. jobs'[s[1]].epoch = jobs[s[1]].epoch /\ claims' = claims
    BY SMTT(30), <1>3, <1>6 DEF FinishStep, TypeOK, JobRecord
  <2> QED BY <1>1, <1>2, <2>2, <2>3
<1>7. ASSUME claims' = claims,
             steps'[s].status = steps[s].status,
             steps'[s].owner = steps[s].owner,
             steps'[s].token = steps[s].token,
             ~ \E j \in Jobs, o \in Owners, d \in Durations : ClaimJob(j, o, d)
      PROVE  Current(s)'
  <2>1. jobs'[s[1]].epoch = jobs[s[1]].epoch
    <3>1. ASSUME NEW g \in grants, ReleaseJob(g)
          PROVE  jobs'[s[1]].epoch = jobs[s[1]].epoch
      BY <1>3, <3>1 DEF ReleaseJob, TypeOK, JobRecord
    <3> QED BY <1>3, <1>7, <3>1, RootFrame
  <2> QED BY <1>1, <1>2, <1>7, <2>1
<1> QED BY <1>4, <1>5, <1>6, <1>7, StepFrame

\* While a claim of a step is alive its owner holds the job: release_job
\* refuses, and a new owner voids the claim as it takes over.
LEMMA LiveChildStep ==
  ASSUME TypeOK, TypeOK', LiveChildHasRoot, [Next]_vars
  PROVE  LiveChildHasRoot'
<1>1. SUFFICES ASSUME NEW s \in StepIds, steps'[s].status = "running",
                      steps'[s].ttl > 0
               PROVE  jobs'[s[1]].owner = steps'[s].owner
  BY DEF LiveChildHasRoot
<1>2. s[1] \in Jobs
  BY StepParts
<1> USE DEF TypeOK, JobRecord
<1>3. ASSUME NEW j \in Jobs, NEW o \in Owners, NEW d \in Durations,
             ClaimJob(j, o, d)
      PROVE  jobs'[s[1]].owner = steps'[s].owner
  <2>1. s[1] # j /\ steps'[s] = steps[s]
    BY <1>1, <1>3, ClaimJobSteps
  <2>2. jobs'[s[1]] = jobs[s[1]]
    BY <1>2, <1>3, <2>1 DEF ClaimJob
  <2> QED BY <1>1, <2>1, <2>2 DEF LiveChildHasRoot
<1>4. ASSUME NEW g \in grants, NEW d \in Durations, ClaimNextStep(g, d)
      PROVE  jobs'[s[1]].owner = steps'[s].owner
  <2>1. PICK r \in StepIds :
          /\ r[1] = g.job
          /\ steps' = [steps EXCEPT ![r] = steps'[r]]
          /\ steps'[r].owner = g.owner
    BY <1>4, ClaimNextStepSteps
  <2>2. jobs' = jobs /\ jobs[g.job].owner = g.owner
    BY <1>4 DEF ClaimNextStep, RootAuthority
  <2>3. s # r => steps'[s] = steps[s]
    BY <2>1
  <2> QED BY <1>1, <2>1, <2>2, <2>3 DEF LiveChildHasRoot
<1>5. ASSUME NEW c \in claims, NEW status \in {"done", "pending", "failed"},
             NEW t \in Texts, FinishStep(c, status, t)
      PROVE  jobs'[s[1]].owner = steps'[s].owner
  <2>1. s # c.step
    BY <1>1, <1>5, FinishStepSteps
  <2>2. steps'[s] = steps[s]
    BY <1>5, <2>1, FinishStepSteps
  <2>3. jobs'[s[1]].owner = jobs[s[1]].owner
    BY <1>2, <1>5 DEF FinishStep
  <2> QED BY <1>1, <2>2, <2>3 DEF LiveChildHasRoot
<1>6. ASSUME steps'[s].status = steps[s].status,
             steps'[s].owner = steps[s].owner,
             steps[s].ttl > 0,
             ~ \E j \in Jobs, o \in Owners, d \in Durations : ClaimJob(j, o, d)
      PROVE  jobs'[s[1]].owner = steps'[s].owner
  <2>1. jobs[s[1]].owner = steps[s].owner
    BY <1>1, <1>6 DEF LiveChildHasRoot
  <2>2. ASSUME NEW g \in grants, ReleaseJob(g)
        PROVE  jobs'[s[1]].owner = jobs[s[1]].owner
    <3>1. s[1] # g.job
      BY <1>1, <1>6, <2>1, <2>2 DEF ReleaseJob, LiveChild, StepsOf
    <3> QED BY <1>2, <2>2, <3>1 DEF ReleaseJob
  <2> QED BY <1>2, <1>6, <2>1, <2>2, RootFrame
<1>7. ASSUME NEW c \in claims, NEW d \in Durations, RenewStep(c, d), s = c.step
      PROVE  jobs'[s[1]].owner = steps'[s].owner
  <2>1. jobs' = jobs /\ jobs[s[1]].owner = c.owner /\ steps[s].owner = c.owner
    BY <1>7 DEF RenewStep, ClaimAuthority, RootAuthority
  <2>2. steps'[s] = [steps[s] EXCEPT !.ttl = steps'[s].ttl]
    BY <1>7, RenewStepSteps
  <2>3. steps'[s].owner = steps[s].owner
    BY <2>2 DEF StepRecord
  <2> QED BY <2>1, <2>3
<1> QED BY <1>1, <1>3, <1>4, <1>5, <1>6, <1>7, StepFrame

-----------------------------------------------------------------------------
\* The inductive invariant holds of every reachable ledger: none of the hazards
\* it stands for can be reached, by any callers in any order.
THEOREM LedgerCorrect == Spec => []LedgerInv
<1>1. Init => LedgerInv
  <2> SUFFICES ASSUME Init
               PROVE  LedgerInv
    OBVIOUS
  <2>1. TypeOK
    BY TextZero DEF Init, TypeOK, NoJob, NewStep, JobRecord, StepRecord,
                    JobStatus, StepStatus
  <2>2. /\ \A j \in Jobs : jobs[j].status = "absent"
        /\ \A s \in StepIds : /\ steps[s].status = "pending"
                             /\ steps[s].owner = NoOwner
                             /\ steps[s].token = 0 /\ steps[s].ttl = 0
        /\ jobHeadroom = {} /\ stepHeadroom = {} /\ grants = {}
    BY DEF Init, NoJob, NewStep
  <2>3. LeaseColumns /\ HeadroomExact /\ DependenciesFirst
    BY <2>2 DEF LeaseColumns, HeadroomExact, DependenciesFirst
  <2>4. DoneJobIsComplete /\ EpochsFence /\ ClaimsAreCurrent /\ LiveChildHasRoot
    BY <2>2 DEF DoneJobIsComplete, EpochsFence, ClaimsAreCurrent,
                LiveChildHasRoot
  <2>5. FailureIsAtomic
    BY <2>2 DEF FailureIsAtomic, StepsOf
  <2> QED BY <2>1, <2>3, <2>4, <2>5 DEF LedgerInv
<1>2. TypeOK /\ TypeOK' /\ LedgerInv /\ [Next]_vars => LedgerInv'
  BY LeaseColumnsStep, HeadroomStep, DependenciesStep, DoneJobStep,
     FailureStep, EpochsStep, CurrentStep, LiveChildStep DEF LedgerInv
<1>3. Spec => []TypeOK
  BY TypeCorrect
<1> QED BY <1>1, <1>2, <1>3, PTL DEF Spec

\* The closed set of headroom rows is exact, whatever was claimed, finished,
\* failed, released or reset.
THEOREM HeadroomAlwaysExact == Spec => []HeadroomExact
BY LedgerCorrect, PTL DEF LedgerInv

\* Steps are handed out in dependency order and a done job is a complete one.
THEOREM CompletionInOrder == Spec => [](DependenciesFirst /\ DoneJobIsComplete)
BY LedgerCorrect, PTL DEF LedgerInv

\* A failed step and its failed job are never seen one without the other.
THEOREM FailureAlwaysAtomic == Spec => []FailureIsAtomic
BY LedgerCorrect, PTL DEF LedgerInv

\* Fencing: an epoch belongs to one grant, running steps belong to the current
\* epoch, and a live child keeps the job with its owner.
THEOREM FencingHolds ==
  Spec => [](EpochsFence /\ ClaimsAreCurrent /\ LiveChildHasRoot)
BY LedgerCorrect, PTL DEF LedgerInv

\* A done job keeps its status and its result.
LEMMA DoneJobStays ==
  ASSUME TypeOK, [Next]_vars, NEW j \in Jobs, jobs[j].status = "done"
  PROVE  jobs'[j].status = "done" /\ jobs'[j].result = jobs[j].result
<1> USE DEF TypeOK, JobRecord
<1>1. ASSUME NEW k \in Jobs, CreateJob(k)
      PROVE  jobs'[j] = jobs[j]
  BY <1>1 DEF CreateJob
<1>2. ASSUME NEW k \in Jobs, NEW o \in Owners, NEW d \in Durations,
             ClaimJob(k, o, d)
      PROVE  jobs'[j] = jobs[j]
  BY <1>2 DEF ClaimJob
<1>3. ASSUME NEW g \in grants, NEW d \in Durations, RenewJob(g, d)
      PROVE  jobs'[j] = jobs[j]
  BY <1>3 DEF RenewJob, RootAuthority
<1>4. ASSUME NEW g \in grants, ReleaseJob(g)
      PROVE  /\ jobs'[j].status = jobs[j].status
             /\ jobs'[j].result = jobs[j].result
  BY <1>4 DEF ReleaseJob
<1>5. ASSUME NEW c \in claims, NEW status \in {"done", "pending", "failed"},
             NEW t \in Texts, FinishStep(c, status, t)
      PROVE  jobs'[j] = jobs[j]
  BY <1>5 DEF FinishStep, ClaimAuthority, RootAuthority
<1>6. ASSUME NEW g \in grants, NEW status \in {"done", "paused"},
             NEW t \in Texts, SetClaimedJob(g, status, t)
      PROVE  jobs'[j] = jobs[j]
  BY <1>6 DEF SetClaimedJob, RootAuthority
<1>7. ASSUME NEW k \in Jobs, NEW t \in Texts, FailUnclaimedJob(k, t)
      PROVE  jobs'[j] = jobs[j]
  BY <1>7 DEF FailUnclaimedJob
<1>8. CASE Tick
  <2>1. jobs'[j] = [jobs[j] EXCEPT !.ttl = jobs'[j].ttl]
    BY <1>8, TickRows
  <2> QED BY <2>1
<1>9. CASE jobs' = jobs
  BY <1>9
<1> QED
  BY <1>1, <1>2, <1>3, <1>4, <1>5, <1>6, <1>7, <1>8, <1>9
  DEF Next, ClaimNextStep, RenewStep, vars

\* What a worker finished stays finished.
THEOREM FinishedForGood == Spec => DoneIsFinal
<1> DEFINE Final == /\ \A s \in StepIds :
                          steps[s].status = "done" => steps'[s] = steps[s]
                    /\ \A j \in Jobs : jobs[j].status = "done" =>
                         /\ jobs'[j].status = "done"
                         /\ jobs'[j].result = jobs[j].result
<1>1. LedgerInv /\ [Next]_vars => Final
  BY DoneStays, DoneJobStays DEF LedgerInv
<1>2. LedgerInv /\ [Next]_vars => [Final]_vars
  BY <1>1
<1> QED BY <1>2, LedgerCorrect, PTL DEF Spec, DoneIsFinal

\* A lease that has not run out ends only when its owner gives it back, and
\* never over a live child.
THEOREM LeasesAreSafe == Spec => NoLeaseIsStolen
<1> DEFINE Safe == \A j \in Jobs : Held(j) /\ jobs'[j].owner # jobs[j].owner =>
                     jobs'[j].owner = NoOwner /\ ~LiveChild(j, jobs[j].owner)
<1>1. TypeOK /\ [Next]_vars => Safe
  <2> SUFFICES ASSUME TypeOK, [Next]_vars,
                      NEW j \in Jobs, Held(j), jobs'[j].owner # jobs[j].owner
               PROVE  jobs'[j].owner = NoOwner /\ ~LiveChild(j, jobs[j].owner)
    OBVIOUS
  <2>1. ASSUME NEW k \in Jobs, NEW o \in Owners, NEW d \in Durations,
               ClaimJob(k, o, d)
        PROVE  FALSE
    BY <2>1 DEF ClaimJob, TypeOK
  <2>2. ASSUME NEW g \in grants, ReleaseJob(g)
        PROVE  jobs'[j].owner = NoOwner /\ ~LiveChild(j, jobs[j].owner)
    BY <2>2 DEF ReleaseJob, TypeOK, JobRecord
  <2> QED BY <2>1, <2>2, RootFrame
<1>2. TypeOK /\ [Next]_vars => [Safe]_vars
  BY <1>1
<1> QED BY <1>2, TypeCorrect, PTL DEF Spec, NoLeaseIsStolen

-----------------------------------------------------------------------------
(***************************************************************************)
(* The refinement: each step of the ledger completes one step of the       *)
(* promise, closes one job, or is invisible to the user.                   *)
(***************************************************************************)

\* Only finish_claimed_step makes a step done.
LEMMA CompleteFrame ==
  ASSUME TypeOK, LeaseColumns, [Next]_vars, NEW s \in StepIds,
         steps'[s].status = "done", steps[s].status # "done"
  PROVE  \E c \in claims, t \in Texts : c.step = s /\ FinishStep(c, "done", t)
<1>1. ASSUME NEW j \in Jobs, NEW o \in Owners, NEW d \in Durations,
             ClaimJob(j, o, d)
      PROVE  FALSE
  BY <1>1, ClaimJobSteps
<1>2. ASSUME NEW g \in grants, NEW d \in Durations, ClaimNextStep(g, d)
      PROVE  FALSE
  BY <1>2, ClaimNextStepSteps DEF TypeOK
<1>3. ASSUME NEW c \in claims, NEW status \in {"done", "pending", "failed"},
             NEW t \in Texts, FinishStep(c, status, t)
      PROVE  c.step = s /\ status = "done"
  BY SMTT(30), <1>3, FinishStepSteps DEF TypeOK
<1> QED BY <1>1, <1>2, <1>3, StepFrame

\* Only set_claimed_job makes a job done.
LEMMA CloseFrame ==
  ASSUME TypeOK, [Next]_vars, NEW j \in Jobs,
         jobs'[j].status = "done", jobs[j].status # "done"
  PROVE  \E g \in grants, t \in Texts :
           g.job = j /\ SetClaimedJob(g, "done", t)
<1> USE DEF TypeOK, JobRecord
<1>1. ASSUME NEW k \in Jobs, CreateJob(k)
      PROVE  FALSE
  BY <1>1 DEF CreateJob
<1>2. ASSUME NEW k \in Jobs, NEW o \in Owners, NEW d \in Durations,
             ClaimJob(k, o, d)
      PROVE  FALSE
  BY <1>2 DEF ClaimJob
<1>3. ASSUME NEW g \in grants, NEW d \in Durations, RenewJob(g, d)
      PROVE  FALSE
  BY <1>3 DEF RenewJob
<1>4. ASSUME NEW g \in grants, ReleaseJob(g)
      PROVE  FALSE
  BY <1>4 DEF ReleaseJob
<1>5. ASSUME NEW c \in claims, NEW status \in {"done", "pending", "failed"},
             NEW t \in Texts, FinishStep(c, status, t)
      PROVE  FALSE
  BY <1>5 DEF FinishStep
<1>6. ASSUME NEW g \in grants, NEW status \in {"done", "paused"},
             NEW t \in Texts, SetClaimedJob(g, status, t)
      PROVE  g.job = j /\ status = "done"
  BY <1>6 DEF SetClaimedJob
<1>7. ASSUME NEW k \in Jobs, NEW t \in Texts, FailUnclaimedJob(k, t)
      PROVE  FALSE
  BY <1>7 DEF FailUnclaimedJob
<1>8. CASE Tick
  <2>1. jobs'[j] = [jobs[j] EXCEPT !.ttl = jobs'[j].ttl]
    BY <1>8, TickRows
  <2>2. jobs'[j].status = jobs[j].status
    BY <2>1
  <2> QED BY <2>2
<1>9. CASE jobs' = jobs
  BY <1>9
<1> QED
  BY <1>1, <1>2, <1>3, <1>4, <1>5, <1>6, <1>7, <1>8, <1>9
  DEF Next, ClaimNextStep, RenewStep, vars

\* The ledger implements the promise to the user.
THEOREM PromiseKept == Spec => KeepsPromise
<1> DEFINE complete == {s \in StepIds : steps[s].status = "done"}
           closed == {j \in Jobs : jobs[j].status = "done"}
<1>1. Init => Promise!Init
  BY DEF Init, Promise!Init, NoJob, NewStep
<1>2. LedgerInv /\ [Next]_vars => [Promise!Next]_(Promise!pvars)
  <2> SUFFICES ASSUME LedgerInv, [Next]_vars
               PROVE  [Promise!Next]_(Promise!pvars)
    OBVIOUS
  <2> USE DEF LedgerInv
  <2>1. ASSUME NEW c \in claims, NEW t \in Texts, FinishStep(c, "done", t)
        PROVE  Promise!Next
    <3>1. /\ c.step \in StepIds /\ c.step[1] \in Jobs
          /\ steps[c.step].status = "running"
          /\ steps'[c.step].status = "done"
          /\ \A s \in StepIds : s # c.step => steps'[s] = steps[s]
      BY <2>1, FinishStepSteps DEF TypeOK
    <3>2. jobs' = jobs /\ jobs[c.step[1]].status = "running"
      BY <2>1 DEF FinishStep, ClaimAuthority, RootAuthority
    <3>3. DepsDone(c.step)
      BY <3>1 DEF DependenciesFirst
    <3>4. \A d \in DepsOf(c.step) : d \in StepIds
      <4>1. c.step[1] \in Jobs /\ c.step[2] \in StepIdx
        BY <3>1, StepParts
      <4> QED BY <4>1, LedgerAssumption DEF DepsOf, StepIds
    <3>5. Promise!DepsOf(c.step) \subseteq complete
      BY <3>3, <3>4 DEF DepsDone, DepsOf, Promise!DepsOf
    <3>6. c.step \notin complete /\ c.step[1] \notin closed
      BY <3>1, <3>2
    <3>7. complete' = complete \cup {c.step}
      BY <3>1
    <3>8. closed' = closed
      BY <3>2
    <3>9. Promise!Complete(c.step)
      BY <3>5, <3>6, <3>7, <3>8 DEF Promise!Complete
    <3> QED BY <3>1, <3>9 DEF Promise!Next, StepIds
  <2>2. ASSUME NEW g \in grants, NEW t \in Texts, SetClaimedJob(g, "done", t)
        PROVE  Promise!Next
    <3>1. g.job \in Jobs
      BY DEF TypeOK, Grant
    <3>2. /\ jobs[g.job].status = "running" /\ AllDone(g.job)
          /\ jobs'[g.job].status = "done"
          /\ \A j \in Jobs : j # g.job => jobs'[j] = jobs[j]
          /\ steps' = steps
      BY <2>2, <3>1 DEF SetClaimedJob, RootAuthority, TypeOK, JobRecord
    <3>3. Promise!StepsOf(g.job) \subseteq complete
      BY <3>1, <3>2 DEF Promise!StepsOf, AllDone, StepsOf, StepIds
    <3>4. g.job \notin closed /\ closed' = closed \cup {g.job}
      BY <3>1, <3>2
    <3>5. complete' = complete
      BY <3>2
    <3>6. Promise!Close(g.job)
      BY <3>3, <3>4, <3>5 DEF Promise!Close
    <3> QED BY <3>1, <3>6 DEF Promise!Next
  <2>3. ASSUME ~ \E c \in claims, t \in Texts : FinishStep(c, "done", t),
               ~ \E g \in grants, t \in Texts : SetClaimedJob(g, "done", t)
        PROVE  complete' = complete /\ closed' = closed
    <3>1. complete' \subseteq complete /\ closed' \subseteq closed
      BY <2>3, CompleteFrame, CloseFrame
    <3>2. complete \subseteq complete' /\ closed \subseteq closed'
      BY DoneStays, DoneJobStays
    <3> QED BY <3>1, <3>2
  <2> QED BY <2>1, <2>2, <2>3 DEF Promise!pvars
<1> QED BY <1>1, <1>2, LedgerCorrect, PTL DEF Spec, KeepsPromise, Promise!Spec

-----------------------------------------------------------------------------
(***************************************************************************)
(* The room of the ledger.  A sum of sizes is the number of their units,   *)
(* so that what a step does to it is a fact about cardinalities.           *)
(***************************************************************************)

\* The units of one element are as many as it weighs, and finite.
LEMMA OneElement ==
  ASSUME NEW x, NEW n \in Nat
  PROVE  /\ IsFiniteSet({x} \X (1..n))
         /\ Cardinality({x} \X (1..n)) = n
<1>1. IsFiniteSet({x}) /\ Cardinality({x}) = 1
  BY FS_Singleton
<1>2. IsFiniteSet(1..n) /\ Cardinality(1..n) = n
  BY FS_Interval
<1> DEFINE X == {x}
           I == 1..n
<1>3. IsFiniteSet(X \X I) /\ Cardinality(X \X I) = Cardinality(X) * Cardinality(I)
  <2> HIDE DEF X, I
  <2> QED
    BY <1>1, <1>2, FS_Product DEF X, I
<1> QED
  BY <1>1, <1>2, <1>3

\* Units of a new element are added to those there were.
LEMMA AddUnits ==
  ASSUME NEW R, IsFiniteSet(R), NEW x, NEW n \in Nat,
         \A u \in R : u[1] # x
  PROVE  /\ IsFiniteSet(R \cup ({x} \X (1..n)))
         /\ Cardinality(R \cup ({x} \X (1..n))) = Cardinality(R) + n
         /\ Cardinality(R) \in Nat
<1> DEFINE P == {x} \X (1..n)
<1>1. IsFiniteSet(P) /\ Cardinality(P) = n
  BY OneElement
<1>2. R \cap P = {}
  OBVIOUS
<1>3. Cardinality(R) \in Nat
  BY FS_CardinalityType
<1>4. Cardinality(R \cap P) = 0
  BY <1>2, FS_EmptySet
<1>5. IsFiniteSet(R \cup P)
      /\ Cardinality(R \cup P) = Cardinality(R) + Cardinality(P) - Cardinality(R \cap P)
  <2> HIDE DEF P
  <2> QED
    BY <1>1, FS_Union
<1> QED
  BY <1>1, <1>3, <1>4, <1>5

\* A sum in which the weight of one element is exchanged.
LEMMA ExchangeUnits ==
  ASSUME NEW S, NEW w \in [S -> Nat], IsFiniteSet(Units(w)),
         NEW x \in S, NEW n \in Nat, NEW v \in [S -> Nat], v[x] = n,
         \A y \in S : y # x => v[y] = w[y]
  PROVE  /\ IsFiniteSet(Units(v))
         /\ Total(v) = Total(w) - w[x] + n
         /\ Total(w) \in Nat /\ Total(v) \in Nat
<1> DEFINE R == {u \in Units(w) : u[1] # x}
<1>1. IsFiniteSet(R)
  BY FS_Subset, R \in SUBSET Units(w)
<1>2. Units(w) = R \cup ({x} \X (1..w[x]))
  BY DEF Units
<1>3. Units(v) = R \cup ({x} \X (1..n))
  BY DEF Units
<1>0. w[x] \in Nat /\ \A u \in R : u[1] # x
  OBVIOUS
<1> HIDE DEF R
<1>4. Cardinality(Units(w)) = Cardinality(R) + w[x] /\ Cardinality(R) \in Nat
  <2>1. /\ Cardinality(R \cup ({x} \X (1..w[x]))) = Cardinality(R) + w[x]
        /\ Cardinality(R) \in Nat
    BY ZenonT(40), <1>0, <1>1, AddUnits
  <2> QED
    BY <1>2, <2>1, Zenon
<1>5. IsFiniteSet(Units(v)) /\ Cardinality(Units(v)) = Cardinality(R) + n
  <2>1. /\ IsFiniteSet(R \cup ({x} \X (1..n)))
        /\ Cardinality(R \cup ({x} \X (1..n))) = Cardinality(R) + n
    BY ZenonT(40), <1>0, <1>1, AddUnits
  <2> QED
    BY <1>3, <2>1, Zenon
<1> QED
  BY <1>4, <1>5 DEF Total

\* A sum stays finite when one size changes.
LEMMA FiniteUnits ==
  ASSUME NEW S, NEW w \in [S -> Nat], IsFiniteSet(Units(w)),
         NEW v \in [S -> Nat], NEW x, \A y \in S : y # x => v[y] = w[y]
  PROVE  IsFiniteSet(Units(v))
<1>1. CASE x \in S
  <2>1. v[x] \in Nat
    BY <1>1
  <2> QED
    BY <1>1, <2>1, ExchangeUnits
<1>2. CASE x \notin S
  <2>1. v = w
    BY <1>2
  <2> QED
    BY <2>1
<1> QED
  BY <1>1, <1>2

\* Everything that is counted is finite, whatever jobs there could be.
Counted ==
  /\ IsFiniteSet(Present(jobs)) /\ IsFiniteSet(Units(Results(jobs)))
  /\ IsFiniteSet(Units(StepTexts(steps)))
  /\ IsFiniteSet(jobHeadroom) /\ IsFiniteSet(stepHeadroom)

RoomInv == Counted /\ Fits(jobs, steps, jobHeadroom, stepHeadroom)

LEMMA SizeTypes ==
  ASSUME NEW js \in [Jobs -> JobRecord], NEW ss \in [StepIds -> StepRecord]
  PROVE  Results(js) \in [Jobs -> Nat] /\ StepTexts(ss) \in [StepIds -> Nat]
<1>1. Texts \subseteq Nat
  BY LedgerAssumption DEF Texts
<1> QED
  BY <1>1 DEF JobRecord, StepRecord, Results, StepTexts

\* A text that takes the place of its headroom does not need more.
LEMMA PlaceOfHeadroom ==
  ASSUME NEW a \in Nat, NEW b \in Nat, NEW x \in Nat, NEW old \in Nat, NEW t \in Nat,
         NEW unit \in Nat, NEW n \in Nat, t <= unit
  PROVE  a + (x - old + t) + unit * (n - 1) + b <= a + x + unit * n + b
<1>1. unit * (n - 1) = unit * n - unit /\ unit * n \in Nat
  OBVIOUS
<1> QED
  BY <1>1

\* A step of the ledger adds at most one job, writes one result and one text, and
\* reserves headroom for one job and one step.
JobRowsMove ==
  \E x : /\ Present(jobs') \subseteq Present(jobs) \cup {x}
         /\ jobHeadroom' \subseteq jobHeadroom \cup {x}
         /\ \A j \in Jobs : j # x => jobs'[j].result = jobs[j].result
StepRowsMove ==
  \E y : /\ stepHeadroom' \subseteq stepHeadroom \cup {y}
         /\ \A s \in StepIds : s # y => steps'[s].text = steps[s].text

LEMMA RowsMove ==
  ASSUME TypeOK, [Next]_vars
  PROVE  JobRowsMove /\ StepRowsMove
<1> USE DEF TypeOK, JobRecord, StepRecord
<1>0. ASSUME steps' = steps, stepHeadroom' = stepHeadroom
      PROVE  StepRowsMove
  BY <1>0 DEF StepRowsMove
<1>00. ASSUME jobs' = jobs, jobHeadroom' = jobHeadroom
       PROVE  JobRowsMove
  BY <1>00 DEF JobRowsMove
<1>1. ASSUME NEW j \in Jobs, CreateJob(j)
      PROVE  JobRowsMove /\ StepRowsMove
  BY <1>0, <1>1 DEF CreateJob, JobRowsMove, Present
<1>2. ASSUME NEW j \in Jobs, NEW o \in Owners, NEW d \in Durations, ClaimJob(j, o, d)
      PROVE  JobRowsMove /\ StepRowsMove
  <2>1. JobRowsMove
    BY <1>2 DEF ClaimJob, JobRowsMove, Present
  <2>2. ASSUME NEW s \in StepIds
        PROVE  steps'[s].text = steps[s].text
    BY <1>2 DEF ClaimJob, ResetStep
  <2>3. stepHeadroom' \subseteq stepHeadroom
    BY <1>2 DEF ClaimJob
  <2> QED
    BY <2>1, <2>2, <2>3 DEF StepRowsMove
<1>3. ASSUME NEW g \in grants, NEW d \in Durations, RenewJob(g, d)
      PROVE  JobRowsMove /\ StepRowsMove
  BY <1>0, <1>3 DEF RenewJob, JobRowsMove, Present
<1>4. ASSUME NEW g \in grants, ReleaseJob(g)
      PROVE  JobRowsMove /\ StepRowsMove
  BY <1>0, <1>4 DEF ReleaseJob, JobRowsMove, Present
<1>5. ASSUME NEW g \in grants, NEW d \in Durations, ClaimNextStep(g, d)
      PROVE  JobRowsMove /\ StepRowsMove
  BY ZenonT(40), <1>00, <1>5 DEF ClaimNextStep, StepRowsMove
<1>6. ASSUME NEW c \in claims, NEW d \in Durations, RenewStep(c, d)
      PROVE  JobRowsMove /\ StepRowsMove
  BY <1>00, <1>6 DEF RenewStep, StepRowsMove
<1>7. ASSUME NEW c \in claims, NEW status \in {"done", "pending", "failed"},
             NEW t \in Texts, FinishStep(c, status, t)
      PROVE  JobRowsMove /\ StepRowsMove
  <2>1. StepRowsMove
    BY <1>7 DEF FinishStep, StepRowsMove
  <2>2. c.step[1] \in Jobs /\ jobs[c.step[1]].status = "running"
    BY <1>7, FinishStepSteps DEF FinishStep, ClaimAuthority, RootAuthority
  <2>3. JobRowsMove
    BY <1>7, <2>2 DEF FinishStep, JobRowsMove, Present
  <2> QED
    BY <2>1, <2>3
<1>8. ASSUME NEW g \in grants, NEW status \in {"done", "paused"}, NEW t \in Texts,
             SetClaimedJob(g, status, t)
      PROVE  JobRowsMove /\ StepRowsMove
  BY <1>0, <1>8 DEF SetClaimedJob, JobRowsMove, Present, RootAuthority
<1>9. ASSUME NEW j \in Jobs, NEW t \in Texts, FailUnclaimedJob(j, t)
      PROVE  JobRowsMove /\ StepRowsMove
  BY <1>0, <1>9 DEF FailUnclaimedJob, JobRowsMove, Present
<1>10. CASE Tick
  <2>1. /\ \A j \in Jobs : jobs'[j].result = jobs[j].result /\ jobs'[j].status = jobs[j].status
        /\ \A s \in StepIds : steps'[s].text = steps[s].text
    BY <1>10 DEF Tick
  <2> QED
    BY <1>10, <2>1 DEF Tick, JobRowsMove, StepRowsMove, Present
<1>11. CASE UNCHANGED vars
  BY <1>0, <1>00, <1>11 DEF vars
<1> QED
  BY <1>1, <1>2, <1>3, <1>4, <1>5, <1>6, <1>7, <1>8, <1>9, <1>10, <1>11 DEF Next

LEMMA CountedStep ==
  ASSUME TypeOK, TypeOK', Counted, [Next]_vars
  PROVE  Counted'
<1>1. JobRowsMove /\ StepRowsMove
  BY RowsMove
<1>2. PICK x : /\ Present(jobs') \subseteq Present(jobs) \cup {x}
               /\ jobHeadroom' \subseteq jobHeadroom \cup {x}
               /\ \A j \in Jobs : j # x => jobs'[j].result = jobs[j].result
  BY <1>1 DEF JobRowsMove
<1>3. PICK y : /\ stepHeadroom' \subseteq stepHeadroom \cup {y}
               /\ \A s \in StepIds : s # y => steps'[s].text = steps[s].text
  BY <1>1 DEF StepRowsMove
<1>4. ASSUME NEW S, IsFiniteSet(S), NEW z, NEW T, T \subseteq S \cup {z}
      PROVE  IsFiniteSet(T)
  <2>1. IsFiniteSet(S \cup {z})
    BY <1>4, FS_AddElement
  <2> QED
    BY <1>4, <2>1, FS_Subset
<1>5. IsFiniteSet(Present(jobs)') /\ IsFiniteSet(jobHeadroom') /\ IsFiniteSet(stepHeadroom')
  <2>1. Present(jobs)' = Present(jobs')
    BY DEF Present
  <2> QED
    BY <1>2, <1>3, <1>4, <2>1 DEF Counted
<1>6. /\ Results(jobs) \in [Jobs -> Nat] /\ Results(jobs)' \in [Jobs -> Nat]
      /\ StepTexts(steps) \in [StepIds -> Nat] /\ StepTexts(steps)' \in [StepIds -> Nat]
  BY SizeTypes DEF TypeOK, Results, StepTexts
<1>7. IsFiniteSet(Units(Results(jobs)'))
  <2>1. \A j \in Jobs : j # x => (Results(jobs)')[j] = Results(jobs)[j]
    BY <1>2 DEF Results
  <2> QED
    BY <1>6, <2>1, FiniteUnits DEF Counted
<1>8. IsFiniteSet(Units(StepTexts(steps)'))
  <2>1. \A s \in StepIds : s # y => (StepTexts(steps)')[s] = StepTexts(steps)[s]
    BY <1>3 DEF StepTexts
  <2> QED
    BY <1>6, <2>1, FiniteUnits DEF Counted
<1> QED
  BY <1>5, <1>7, <1>8 DEF Counted

\* A step that is not guarded by the limit writes nothing that is counted.
LEMMA FitsStep ==
  ASSUME TypeOK, Fits(jobs, steps, jobHeadroom, stepHeadroom), [Next]_vars
  PROVE  Fits(jobs, steps, jobHeadroom, stepHeadroom)'
<1> DEFINE F == Fits(jobs, steps, jobHeadroom, stepHeadroom)'
<1> USE DEF TypeOK, JobRecord, StepRecord
<1>0. ASSUME /\ \A j \in Jobs : jobs'[j].status = jobs[j].status /\ jobs'[j].result = jobs[j].result,
             \A s \in StepIds : steps'[s].text = steps[s].text,
             jobHeadroom' = jobHeadroom, stepHeadroom' = stepHeadroom
      PROVE  F
  <2>1. /\ Present(jobs') = Present(jobs) /\ Results(jobs') = Results(jobs)
        /\ StepTexts(steps') = StepTexts(steps)
    BY <1>0 DEF Present, Results, StepTexts
  <2> QED
    BY <1>0, <2>1 DEF Fits, Payload
<1>1. ASSUME NEW j \in Jobs, CreateJob(j)
      PROVE  F
  BY <1>1 DEF CreateJob
<1>2. ASSUME NEW j \in Jobs, NEW o \in Owners, NEW d \in Durations, ClaimJob(j, o, d)
      PROVE  F
  BY <1>2 DEF ClaimJob
<1>3. ASSUME NEW g \in grants, NEW d \in Durations, RenewJob(g, d)
      PROVE  F
  BY <1>0, <1>3 DEF RenewJob
<1>4. ASSUME NEW g \in grants, ReleaseJob(g)
      PROVE  F
  BY <1>0, <1>4 DEF ReleaseJob
<1>5. ASSUME NEW g \in grants, NEW d \in Durations, ClaimNextStep(g, d)
      PROVE  F
  BY <1>5 DEF ClaimNextStep, Fits, Payload
<1>6. ASSUME NEW c \in claims, NEW d \in Durations, RenewStep(c, d)
      PROVE  F
  BY <1>0, <1>6 DEF RenewStep
<1>7. ASSUME NEW c \in claims, NEW status \in {"done", "pending", "failed"},
             NEW t \in Texts, FinishStep(c, status, t)
      PROVE  F
  BY <1>7 DEF FinishStep
<1>8. ASSUME NEW g \in grants, NEW status \in {"done", "paused"}, NEW t \in Texts,
             SetClaimedJob(g, status, t)
      PROVE  F
  BY <1>8 DEF SetClaimedJob, Fits, Payload
<1>9. ASSUME NEW j \in Jobs, NEW t \in Texts, FailUnclaimedJob(j, t)
      PROVE  F
  BY <1>9 DEF FailUnclaimedJob, Fits, Payload
<1>10. CASE Tick
  BY <1>0, <1>10 DEF Tick
<1>11. CASE UNCHANGED vars
  BY <1>0, <1>11 DEF vars
<1> QED
  BY <1>1, <1>2, <1>3, <1>4, <1>5, <1>6, <1>7, <1>8, <1>9, <1>10, <1>11 DEF Next

\* The headroom that the end of a step or of a job gives back is no smaller than
\* the text it writes.
LEMMA EndsFit ==
  ASSUME TypeOK, HeadroomExact, RoomInv
  PROVE  TerminalFits
<1> DEFINE R == Cardinality(Present(jobs))
           J == Cardinality(jobHeadroom)
           H == Cardinality(stepHeadroom)
           X == Results(jobs)
           Y == StepTexts(steps)
<1>0. /\ JobRow \in Nat /\ JobHeadroom \in Nat /\ StepHeadroom \in Nat /\ MaxPayload \in Nat
      /\ \A t \in Texts : t \in Nat /\ t <= JobHeadroom /\ t <= StepHeadroom
  BY LedgerAssumption DEF Texts
<1>1. R \in Nat /\ J \in Nat /\ H \in Nat /\ Total(X) \in Nat /\ Total(Y) \in Nat
  BY FS_CardinalityType DEF RoomInv, Counted, Total
<1>2. JobRow * R + Total(X) + Total(Y) + JobHeadroom * J + StepHeadroom * H <= MaxPayload
  BY DEF RoomInv, Fits, Payload
<1>3. /\ JobRow * R \in Nat /\ JobHeadroom * J \in Nat /\ StepHeadroom * H \in Nat
  <2> HIDE DEF R, J, H
  <2> QED
    BY <1>0, <1>1
<1>4. X \in [Jobs -> Nat] /\ Y \in [StepIds -> Nat]
      /\ IsFiniteSet(Units(X)) /\ IsFiniteSet(Units(Y))
      /\ IsFiniteSet(jobHeadroom) /\ IsFiniteSet(stepHeadroom)
  BY SizeTypes DEF TypeOK, RoomInv, Counted
<1>5. ASSUME NEW s \in StepIds, steps[s].status = "running", NEW t \in Texts
      PROVE  /\ s \in stepHeadroom
             /\ Fits(jobs, [steps EXCEPT ![s].text = t], jobHeadroom, stepHeadroom \ {s})
  <2> DEFINE after == [steps EXCEPT ![s].text = t]
             Y2 == StepTexts(after)
  <2>1. s \in stepHeadroom
    BY <1>5 DEF HeadroomExact
  <2>2. Cardinality(stepHeadroom \ {s}) = H - 1
    BY <1>4, <2>1, FS_RemoveElement
  <2>3. Y2 \in [StepIds -> Nat] /\ Y2[s] = t /\ \A r \in StepIds : r # s => Y2[r] = Y[r]
    BY <1>0, <1>4 DEF StepTexts, TypeOK, StepRecord
  <2>4. t \in Nat /\ t <= StepHeadroom /\ Y[s] \in Nat
    BY <1>0, <1>4
  <2>5. Total(Y2) = Total(Y) - Y[s] + t
    <3> HIDE DEF Y, Y2
    <3> QED
      BY <1>4, <2>3, <2>4, ExchangeUnits
  <2>6. JobRow * R + Total(X) + Total(Y2) + JobHeadroom * J + StepHeadroom * (H - 1) <= MaxPayload
    <3> DEFINE a == JobRow * R + Total(X)
               b == JobHeadroom * J
               x == Total(Y)
               old == Y[s]
    <3>1. a \in Nat /\ b \in Nat /\ x \in Nat /\ old \in Nat /\ H \in Nat
      BY <1>1, <1>3, <2>4
    <3>2. a + x + StepHeadroom * H + b <= MaxPayload
      BY <1>1, <1>2, <1>3
    <3>3. a + (x - old + t) + StepHeadroom * (H - 1) + b <= a + x + StepHeadroom * H + b
      <4> HIDE DEF a, b, x, old, H
      <4> QED
        BY <1>0, <2>4, <3>1, PlaceOfHeadroom
    <3>4. StepHeadroom * (H - 1) \in Int
      <4> HIDE DEF H
      <4> QED
        BY <1>0, <3>1
    <3>5. a + (x - old + t) + StepHeadroom * (H - 1) + b <= MaxPayload
      <4> HIDE DEF a, b, x, old, H
      <4> QED
        BY <1>0, <1>1, <1>3, <2>4, <3>1, <3>2, <3>3, <3>4
    <3> QED
      BY <1>1, <1>3, <2>4, <2>5, <3>4, <3>5
  <2> QED
    BY <2>1, <2>2, <2>6 DEF Fits, Payload
<1>6. ASSUME NEW j \in Jobs, jobs[j].status = "running", NEW t \in Texts
      PROVE  /\ j \in jobHeadroom
             /\ Fits([jobs EXCEPT ![j].result = t], steps, jobHeadroom \ {j}, stepHeadroom)
  <2> DEFINE after == [jobs EXCEPT ![j].result = t]
             X2 == Results(after)
  <2>1. j \in jobHeadroom
    BY <1>6 DEF HeadroomExact
  <2>2. Cardinality(jobHeadroom \ {j}) = J - 1
    BY <1>4, <2>1, FS_RemoveElement
  <2>3. X2 \in [Jobs -> Nat] /\ X2[j] = t /\ \A k \in Jobs : k # j => X2[k] = X[k]
    BY <1>0, <1>4 DEF Results, TypeOK, JobRecord
  <2>4. t \in Nat /\ t <= JobHeadroom /\ X[j] \in Nat
    BY <1>0, <1>4
  <2>5. Total(X2) = Total(X) - X[j] + t
    <3> HIDE DEF X, X2
    <3> QED
      BY <1>4, <2>3, <2>4, ExchangeUnits
  <2>6. JobRow * R + Total(X2) + Total(Y) + JobHeadroom * (J - 1) + StepHeadroom * H <= MaxPayload
    <3> DEFINE a == JobRow * R + Total(Y)
               b == StepHeadroom * H
               x == Total(X)
               old == X[j]
    <3>1. a \in Nat /\ b \in Nat /\ x \in Nat /\ old \in Nat /\ J \in Nat
      BY <1>1, <1>3, <2>4
    <3>2. a + x + JobHeadroom * J + b <= MaxPayload
      BY <1>1, <1>2, <1>3
    <3>3. a + (x - old + t) + JobHeadroom * (J - 1) + b <= a + x + JobHeadroom * J + b
      <4> HIDE DEF a, b, x, old, J
      <4> QED
        BY <1>0, <2>4, <3>1, PlaceOfHeadroom
    <3>4. JobHeadroom * (J - 1) \in Int
      <4> HIDE DEF J
      <4> QED
        BY <1>0, <3>1
    <3>5. a + (x - old + t) + JobHeadroom * (J - 1) + b <= MaxPayload
      <4> HIDE DEF a, b, x, old, J
      <4> QED
        BY <1>0, <1>1, <1>3, <2>4, <3>1, <3>2, <3>3, <3>4
    <3> QED
      BY <1>1, <1>3, <2>4, <2>5, <3>4, <3>5
  <2>7. Present(after) = Present(jobs)
    BY DEF Present, TypeOK, JobRecord
  <2> QED
    BY <2>1, <2>2, <2>6, <2>7 DEF Fits, Payload
<1>7. /\ \A s \in StepIds : steps[s].status = "running" => s \in stepHeadroom
      /\ \A j \in Jobs : jobs[j].status = "running" => j \in jobHeadroom
  BY DEF HeadroomExact
<1> QED
  BY <1>5, <1>6, <1>7 DEF TerminalFits

LEMMA RoomInit == Init => RoomInv
<1> SUFFICES ASSUME Init
             PROVE  RoomInv
  OBVIOUS
<1>1. Present(jobs) = {}
  BY DEF Init, Present, NoJob
<1>2. Units(Results(jobs)) = {}
  <2>1. \A x \in DOMAIN Results(jobs) : {x} \X (1..Results(jobs)[x]) = {}
    BY DEF Init, Results, NoJob
  <2> QED
    BY <2>1 DEF Units
<1>3. Units(StepTexts(steps)) = {}
  <2>1. \A x \in DOMAIN StepTexts(steps) : {x} \X (1..StepTexts(steps)[x]) = {}
    BY DEF Init, StepTexts, NewStep
  <2> QED
    BY <2>1 DEF Units
<1>4. jobHeadroom = {} /\ stepHeadroom = {}
  BY DEF Init
<1>5. IsFiniteSet({}) /\ Cardinality({}) = 0
  BY FS_EmptySet
<1>6. Counted
  BY <1>1, <1>2, <1>3, <1>4, <1>5 DEF Counted
<1>7. Payload(jobs, steps, jobHeadroom, stepHeadroom) = 0
  BY <1>1, <1>2, <1>3, <1>4, <1>5, LedgerAssumption DEF Payload, Total
<1> QED
  BY <1>6, <1>7, LedgerAssumption DEF RoomInv, Fits

\* Whoever has the authority to end a step or a job can record how it ended, at
\* any legal size and however full the ledger is.
THEOREM EndsCanBeRecorded == Spec => []TerminalFits
<1>1. RoomInv /\ TypeOK /\ TypeOK' /\ [Next]_vars => RoomInv'
  BY CountedStep, FitsStep DEF RoomInv
<1>2. TypeOK /\ HeadroomExact /\ RoomInv => TerminalFits
  BY EndsFit
<1> QED
  BY <1>1, <1>2, RoomInit, TypeCorrect, HeadroomAlwaysExact, PTL DEF Spec

-----------------------------------------------------------------------------
(***************************************************************************)
(* The workers.  A worker presents to the ledger only what it was handed,  *)
(* so that its every step is a step of the ledger or none; what else is    *)
(* known of it says who has a job and which step it has in hand.           *)
(***************************************************************************)
InRun == {"loop", "executing", "landed", "drained", "leaving", "closing"}

WorkerTypes ==
  /\ pc \in [Owners -> States]
  /\ grant \in [Owners -> grants \cup {NoGrant}]
  /\ claim \in [Owners -> claims \cup {NoClaim}]
  /\ lost \in [Owners -> BOOLEAN]
  /\ beat \in [Owners -> [Beats -> {"off", "on", "refused"}]]

InHand(w) ==
  /\ pc[w] \in InRun => grant[w] \in grants /\ grant[w].owner = w
  /\ pc[w] \in Awaiting => claim[w] \in claims /\ claim[w].owner = w
  /\ beat[w]["job"] # "off" => pc[w] \in InRun \ {"closing"}
  /\ beat[w]["step"] # "off" => pc[w] \in Awaiting

WorkersInv ==
  /\ WorkerTypes
  /\ \A w \in Owners : InHand(w)
  /\ \A r \in adrift : r.of \in IF r.kind = "job" THEN grants ELSE claims

\* What a worker and a thread of its do to the ledger, the ledger allows.
LEMMA RunnerStepIsLedgerStep ==
  ASSUME WorkersInv, [RunnerNext]_runnerVars
  PROVE  [Next]_vars
<1> USE DEF WorkersInv
<1>0. Lease \in Durations
  BY RunnerAssumption
<1>1. ASSUME NEW j \in Jobs, Submit(j) \/ SpawnFails(j)
      PROVE  [Next]_vars
  BY <1>1 DEF Submit, SpawnFails, Next
<1>2. ASSUME NEW w \in Owners, NEW j \in Jobs, Start(w, j) \/ Refused(w, j)
      PROVE  [Next]_vars
  BY <1>0, <1>2 DEF Start, Refused, Next
<1>3. ASSUME NEW w \in Owners, TakeStep(w)
      PROVE  [Next]_vars
  BY <1>0, <1>3 DEF TakeStep, Next, InHand, InRun
<1>4. ASSUME NEW w \in Owners, CloseJob(w)
      PROVE  [Next]_vars
  BY <1>4 DEF CloseJob, Next, InHand, InRun
<1>5. ASSUME NEW w \in Owners, Finish(w)
      PROVE  [Next]_vars
  <2>1. claim[w] \in claims
    BY <1>5 DEF Finish, MayFinish, InHand, Awaiting
  <2>2. Verdict(w) \in {"done", "pending", "failed"}
    BY DEF Verdict
  <2> QED
    BY <1>5, <2>1, <2>2 DEF Finish, Next
<1>6. ASSUME NEW w \in Owners, Return(w)
      PROVE  [Next]_vars
  BY <1>6 DEF Return, Next, InHand, InRun
<1>7. ASSUME NEW r, Renew(r), r.of \in IF r.kind = "job" THEN grants ELSE claims
      PROVE  [Next]_vars
  BY <1>0, <1>7 DEF Renew, Next
<1>8. ASSUME NEW w \in Owners, NEW k \in Beats, Renewed(w, k)
      PROVE  [Next]_vars
  <2>1. Renewal(w, k).of \in IF Renewal(w, k).kind = "job" THEN grants ELSE claims
    BY <1>8 DEF Renewed, Renewal, InHand, Beats
  <2> QED
    BY <1>7, <1>8, <2>1 DEF Renewed
<1>9. ASSUME NEW r \in adrift, ThreadEnds(r)
      PROVE  [Next]_vars
  BY <1>7, <1>9 DEF ThreadEnds
<1>10. ASSUME NEW w \in Owners,
              \/ Drain(w) \/ Land(w) \/ SeeLost(w) \/ FinishRefused(w) \/ Leave(w)
              \/ \E result \in {"ok", "error"} : ExecutorEnds(w, result)
              \/ Cancel(w) \/ StoreFails(w) \/ Crash(w)
              \/ \E k \in Beats : NotRenewed(w, k) \/ LoseLease(w, k)
       PROVE  UNCHANGED vars
  BY <1>10 DEF Drain, Land, SeeLost, FinishRefused, Leave, ExecutorEnds, Cancel,
               StoreFails, Crash, NotRenewed, LoseLease, GiveUp
<1>11. CASE TimePasses
  BY <1>11 DEF TimePasses, Next
<1>12. CASE UNCHANGED runnerVars
  BY SMTT(30), <1>12 DEF runnerVars, vars
<1> QED
  BY <1>1, <1>2, <1>3, <1>4, <1>5, <1>6, <1>8, <1>9, <1>10, <1>11, <1>12
  DEF RunnerNext, Work, Beat

\* What was handed out is remembered.
LEMMA HandedOutStays ==
  ASSUME [Next]_vars
  PROVE  grants \subseteq grants' /\ claims \subseteq claims'
BY ZenonT(40) DEF Next, CreateJob, ClaimJob, RenewJob, ReleaseJob, ClaimNextStep, RenewStep,
       FinishStep, SetClaimedJob, FailUnclaimedJob, Tick, vars

\* A worker that does not move keeps what it has in hand.
LEMMA InHandStays ==
  ASSUME NEW v \in Owners, InHand(v), grants \subseteq grants', claims \subseteq claims',
         pc'[v] = pc[v], grant'[v] = grant[v], claim'[v] = claim[v], beat'[v] = beat[v]
  PROVE  InHand(v)'
BY DEF InHand

\* A heartbeat that is cancelled leaves at most the renewal it was at.
LEMMA SilenceKeeps ==
  ASSUME WorkersInv, NEW w \in Owners, NEW k \in Beats, Silence(w, k)
  PROVE  /\ beat' = [beat EXCEPT ![w][k] = "off"]
         /\ beat' \in [Owners -> [Beats -> {"off", "on", "refused"}]]
         /\ \A r \in adrift' : r.of \in IF r.kind = "job" THEN grants ELSE claims
<1> USE DEF WorkersInv, WorkerTypes
<1>1. beat' = [beat EXCEPT ![w][k] = "off"]
  BY DEF Silence
<1>2. beat[w][k] = "on" =>
        Renewal(w, k).of \in IF Renewal(w, k).kind = "job" THEN grants ELSE claims
  BY DEF Renewal, InHand, Beats
<1>3. \/ adrift' \subseteq adrift
      \/ beat[w][k] = "on" /\ adrift' = adrift \cup {Renewal(w, k)}
  BY DEF Silence
<1> QED
  BY <1>1, <1>2, <1>3

\* An early return leaves nothing of the step in hand.
LEMMA GiveUpKeeps ==
  ASSUME WorkersInv, NEW w \in Owners, pc[w] \in InRun, GiveUp(w)
  PROVE  WorkersInv'
<1> USE DEF WorkersInv, WorkerTypes
<1>1. /\ pc' = [pc EXCEPT ![w] = "leaving"] /\ claim' = [claim EXCEPT ![w] = NoClaim]
      /\ grant' = grant /\ lost' = lost /\ grants' = grants /\ claims' = claims
  BY DEF GiveUp, Goto, Forget, vars
<1>2. /\ beat' = [beat EXCEPT ![w]["step"] = "off"]
      /\ beat' \in [Owners -> [Beats -> {"off", "on", "refused"}]]
      /\ \A r \in adrift' : r.of \in IF r.kind = "job" THEN grants ELSE claims
  BY SilenceKeeps DEF GiveUp, Beats
<1>3. WorkerTypes'
  BY <1>1, <1>2 DEF States
<1>4. InHand(w)'
  BY <1>1, <1>2 DEF InHand, InRun, Awaiting, Beats
<1>5. ASSUME NEW v \in Owners, v # w
      PROVE  InHand(v)'
  BY <1>1, <1>2, <1>5, InHandStays
<1> QED
  BY <1>1, <1>2, <1>3, <1>4, <1>5

\* A worker has in hand what the ledger handed it, and keeps no heartbeat beyond.
LEMMA WorkersStep ==
  ASSUME WorkersInv, [RunnerNext]_runnerVars
  PROVE  WorkersInv'
<1> USE DEF WorkersInv, WorkerTypes
<1>0. grants \subseteq grants' /\ claims \subseteq claims'
  BY RunnerStepIsLedgerStep, HandedOutStays
<1>1. ASSUME UNCHANGED workerVars
      PROVE  WorkersInv'
  <2>1. \A w \in Owners : InHand(w)'
    BY <1>0, <1>1, InHandStays DEF workerVars
  <2> QED
    BY <1>0, <1>1, <2>1 DEF workerVars
<1>2. ASSUME NEW w \in Owners, NEW j \in Jobs, Start(w, j)
      PROVE  WorkersInv'
  <2>1. [job |-> j, owner |-> w, epoch |-> jobs[j].epoch + 1] \in grants'
    BY <1>2 DEF Start, ClaimJob
  <2>2. WorkerTypes'
    BY <1>0, <1>2, <2>1 DEF Start, Goto, States, Beats
  <2>3. InHand(w)'
    BY <1>2, <2>1 DEF Start, Goto, InHand, InRun, Awaiting, Beats
  <2>4. ASSUME NEW v \in Owners, v # w
        PROVE  InHand(v)'
    BY <1>0, <1>2, <2>4, InHandStays DEF Start, Goto
  <2> QED
    BY <1>0, <1>2, <2>2, <2>3, <2>4 DEF Start
<1>3. ASSUME NEW w \in Owners, TakeStep(w)
      PROVE  WorkersInv'
  <2>1. PICK c \in claims' \ claims : claim' = [claim EXCEPT ![w] = c]
    BY <1>3 DEF TakeStep
  <2>2. c.owner = w
    BY SMTT(30), <1>3, <2>1 DEF TakeStep, ClaimNextStep, InHand, InRun
  <2>3. WorkerTypes'
    BY <1>0, <1>3, <2>1 DEF TakeStep, Goto, States, Beats
  <2>4. InHand(w)'
    BY <1>0, <1>3, <2>1, <2>2 DEF TakeStep, Goto, InHand, InRun, Awaiting, Beats
  <2>5. ASSUME NEW v \in Owners, v # w
        PROVE  InHand(v)'
    BY <1>0, <1>3, <2>1, <2>5, InHandStays DEF TakeStep, Goto
  <2> QED
    BY <1>0, <1>3, <2>3, <2>4, <2>5 DEF TakeStep
<1>4. ASSUME NEW w \in Owners, Finish(w)
      PROVE  WorkersInv'
  <2>1. PICK there \in {"leaving", "loop"} : pc' = [pc EXCEPT ![w] = there]
    BY <1>4 DEF Finish, Goto
  <2>2. /\ claim' = [claim EXCEPT ![w] = NoClaim] /\ grant' = grant /\ lost' = lost
    BY <1>4 DEF Finish, Forget
  <2>3. /\ beat' = [beat EXCEPT ![w]["step"] = "off"]
        /\ beat' \in [Owners -> [Beats -> {"off", "on", "refused"}]]
        /\ \A r \in adrift' : r.of \in IF r.kind = "job" THEN grants ELSE claims
    BY <1>4, SilenceKeeps DEF Finish, Beats
  <2>4. WorkerTypes'
    BY <1>0, <2>1, <2>2, <2>3 DEF States
  <2>5. pc[w] = "landed"
    BY <1>4 DEF Finish, MayFinish
  <2>6. InHand(w)'
    BY <1>0, <2>1, <2>2, <2>3, <2>5 DEF InHand, InRun, Awaiting, Beats
  <2>7. ASSUME NEW v \in Owners, v # w
        PROVE  InHand(v)'
    BY <1>0, <2>1, <2>2, <2>3, <2>7, InHandStays
  <2> QED
    BY <1>0, <2>3, <2>4, <2>6, <2>7
<1>5. ASSUME NEW w \in Owners, NEW from, NEW there \in States,
             pc[w] = from, pc' = [pc EXCEPT ![w] = there],
             \/ from = "idle" /\ there = "returned"
             \/ from = "loop" /\ there = "drained"
             \/ from = "drained" /\ there = "leaving"
             \/ from = "executing" /\ there = "landed"
             \/ from = "closing" /\ there \in {"returned", "raised"},
             UNCHANGED <<grant, claim, lost, beat, adrift>>
      PROVE  WorkersInv'
  <2>1. InHand(w)'
    BY <1>0, <1>5 DEF InHand, InRun, Awaiting
  <2>2. ASSUME NEW v \in Owners, v # w
        PROVE  InHand(v)'
    BY <1>0, <1>5, <2>2, InHandStays
  <2> QED
    BY <1>0, <1>5, <2>1, <2>2
<1>6. ASSUME NEW w \in Owners,
             \/ \E j \in Jobs : Refused(w, j)
             \/ Drain(w) \/ CloseJob(w) \/ Land(w) \/ Return(w)
      PROVE  WorkersInv'
  <2>0. UNCHANGED <<grant, claim, lost, beat, adrift>>
    BY <1>6 DEF Refused, Drain, CloseJob, Land, Return
  <2>1. CASE pc[w] = "idle" /\ pc' = [pc EXCEPT ![w] = "returned"]
    BY <1>5, <2>0, <2>1 DEF States, Over
  <2>2. CASE pc[w] = "loop" /\ pc' = [pc EXCEPT ![w] = "drained"]
    BY <1>5, <2>0, <2>2 DEF States
  <2>3. CASE pc[w] = "drained" /\ pc' = [pc EXCEPT ![w] = "leaving"]
    BY <1>5, <2>0, <2>3 DEF States
  <2>4. CASE pc[w] = "executing" /\ pc' = [pc EXCEPT ![w] = "landed"]
    BY <1>5, <2>0, <2>4 DEF States
  <2>5. CASE pc[w] = "closing" /\ pc' = [pc EXCEPT ![w] = "returned"]
    BY <1>5, <2>0, <2>5 DEF States, Over
  <2> QED
    BY <1>6, <2>1, <2>2, <2>3, <2>4, <2>5
    DEF Refused, Drain, CloseJob, Land, Return, Goto
<1>7. ASSUME NEW w \in Owners, UNCHANGED <<vars, pc, grant, claim, lost, beat, adrift>>
      PROVE  WorkersInv'
  <2>1. \A v \in Owners : InHand(v)'
    BY <1>0, <1>7, InHandStays
  <2> QED
    BY <1>0, <1>7, <2>1
<1>8. ASSUME NEW w \in Owners, Leave(w)
      PROVE  WorkersInv'
  <2>1. /\ pc' = [pc EXCEPT ![w] = "closing"] /\ pc[w] = "leaving"
        /\ grant' = grant /\ claim' = claim /\ lost' = lost
    BY <1>8 DEF Leave, Goto
  <2>2. /\ beat' = [beat EXCEPT ![w]["job"] = "off"]
        /\ beat' \in [Owners -> [Beats -> {"off", "on", "refused"}]]
        /\ \A r \in adrift' : r.of \in IF r.kind = "job" THEN grants ELSE claims
    BY <1>8, SilenceKeeps DEF Leave, Beats
  <2>3. InHand(w)'
    BY <1>0, <2>1, <2>2 DEF InHand, InRun, Awaiting, Beats
  <2>4. ASSUME NEW v \in Owners, v # w
        PROVE  InHand(v)'
    BY <1>0, <2>1, <2>2, <2>4, InHandStays
  <2>5. WorkerTypes'
    BY <1>0, <2>1, <2>2 DEF States
  <2> QED
    BY <1>0, <2>2, <2>3, <2>4, <2>5
<1>9. ASSUME NEW w \in Owners, NEW k \in Beats, NotRenewed(w, k) \/ LoseLease(w, k)
      PROVE  WorkersInv'
  <2>1. PICK state \in {"refused", "off"} : beat' = [beat EXCEPT ![w][k] = state]
    BY <1>9 DEF NotRenewed, LoseLease, BeatIs
  <2>2. /\ pc' = pc /\ grant' = grant /\ claim' = claim /\ adrift' = adrift
        /\ lost' = lost \/ lost' = [lost EXCEPT ![w] = TRUE]
        /\ beat[w][k] # "off"
    BY <1>9 DEF NotRenewed, LoseLease
  <2>3. WorkerTypes'
    BY <1>0, <2>1, <2>2 DEF Beats
  <2>4. InHand(w)'
    BY <1>0, <2>1, <2>2 DEF InHand, Beats
  <2>5. ASSUME NEW v \in Owners, v # w
        PROVE  InHand(v)'
    BY <1>0, <2>1, <2>2, <2>5, InHandStays
  <2> QED
    BY <1>0, <2>2, <2>3, <2>4, <2>5
<1>10. ASSUME NEW r \in adrift, ThreadEnds(r)
       PROVE  WorkersInv'
  <2>1. \A v \in Owners : InHand(v)'
    BY <1>0, <1>10, InHandStays DEF ThreadEnds
  <2> QED
    BY <1>0, <1>10, <2>1 DEF ThreadEnds
<1>11. ASSUME NEW w \in Owners, Crash(w)
       PROVE  WorkersInv'
  <2>1. /\ pc' = [pc EXCEPT ![w] = "crashed"] /\ claim' = [claim EXCEPT ![w] = NoClaim]
        /\ beat' = [beat EXCEPT ![w] = Silent] /\ grant' = grant /\ lost' = lost
        /\ adrift' \subseteq adrift
    BY <1>11 DEF Crash, Goto, Forget
  <2>2. Silent \in [Beats -> {"off", "on", "refused"}]
        /\ Silent["job"] = "off" /\ Silent["step"] = "off"
    BY DEF Silent, Beats
  <2>3. WorkerTypes'
    BY <1>0, <2>1, <2>2 DEF States, Over
  <2>4. InHand(w)'
    BY <2>1, <2>2 DEF InHand, InRun, Awaiting
  <2>5. ASSUME NEW v \in Owners, v # w
        PROVE  InHand(v)'
    BY <1>0, <2>1, <2>5, InHandStays
  <2> QED
    BY <1>0, <2>1, <2>3, <2>4, <2>5
<1>12. ASSUME NEW w \in Owners,
              \/ SeeLost(w) \/ FinishRefused(w) \/ Cancel(w)
              \/ StoreFails(w) /\ GiveUp(w)
       PROVE  WorkersInv'
  <2>1. GiveUp(w)
    BY <1>12 DEF SeeLost, FinishRefused, Cancel
  <2>2. pc[w] \in InRun
    BY <1>12 DEF SeeLost, FinishRefused, Cancel, StoreFails, MayFinish, Awaiting, InRun
  <2> QED
    BY <2>1, <2>2, GiveUpKeeps
<1>13. ASSUME NEW w \in Owners, StoreFails(w)
       PROVE  WorkersInv'
  <2>1. CASE pc[w] = "closing" /\ pc' = [pc EXCEPT ![w] = "raised"]
             /\ UNCHANGED <<grant, claim, lost, beat, adrift>>
    BY <1>5, <2>1 DEF States, Over
  <2> QED
    BY <1>7, <1>12, <1>13, <2>1 DEF StoreFails, Goto
<1>14. ASSUME NEW w \in Owners, NEW result, ExecutorEnds(w, result)
       PROVE  WorkersInv'
  BY <1>7, <1>14 DEF ExecutorEnds
<1> QED
  BY <1>1, <1>2, <1>3, <1>4, <1>6, <1>8, <1>9, <1>10, <1>11, <1>12, <1>13, <1>14
  DEF RunnerNext, Work, Beat, Submit, SpawnFails, TimePasses, Renewed, runnerVars, workerVars

LEMMA WorkersInit == RunnerInit => WorkersInv
BY DEF RunnerInit, WorkersInv, WorkerTypes, InHand, InRun, Awaiting, States, Silent,
       Beats

\* Workers use the ledger as it allows: all that is proved of the ledger under
\* any calls holds while run_job drives it.
THEOREM RunnerUsesLedger == RunnerSpec => Spec
<1>1. RunnerInit => Init
  BY DEF RunnerInit
<1> QED
  BY <1>1, WorkersInit, WorkersStep, RunnerStepIsLedgerStep, PTL DEF RunnerSpec, Spec

-----------------------------------------------------------------------------
(***************************************************************************)
(* Who has a job, and which step of it.  Of a worker's steps four matter:  *)
(* it starts, takes a step, finishes it, and gives the job back.           *)
(***************************************************************************)

\* A job belongs to the run that was granted its newest epoch.
OwnedIsGranted ==
  \A w \in Owners, j \in Jobs : jobs[j].owner = w =>
    pc[w] # "idle" /\ grant[w].job = j /\ grant[w].epoch = jobs[j].epoch

\* A run has at most one step of its job under way: the one it is executing.
OneStepAtATime ==
  \A w \in Owners, s \in StepIds :
    /\ jobs[s[1]].owner = w /\ steps[s].status = "running"
    /\ pc[w] \in {"loop"} \cup Awaiting
    => pc[w] # "loop" /\ s = claim[w].step

RowsKept ==
  /\ \A j \in Jobs : jobs'[j].owner = jobs[j].owner /\ jobs'[j].epoch = jobs[j].epoch
  /\ \A s \in StepIds : steps'[s].status = steps[s].status /\ steps'[s].owner = steps[s].owner

\* A worker that stays where it is, or moves on with what it has in hand.
MovesOn(w) ==
  /\ pc'[w] = "idle" => pc[w] = "idle"
  /\ pc'[w] = "returned" => pc[w] \in {"idle", "returned"}
  /\ pc'[w] = "loop" => pc[w] = "loop"
  /\ pc'[w] \in Awaiting => pc[w] \in Awaiting /\ claim'[w] = claim[w]
  /\ pc[w] = "loop" /\ pc'[w] = "drained" => NothingReady(w)
  /\ grant'[w] = grant[w]
  /\ lost[w] => lost'[w]

Stays(w) == pc'[w] = pc[w] /\ claim'[w] = claim[w] /\ grant'[w] = grant[w] /\ lost'[w] = lost[w]

LEMMA StayingMovesOn ==
  ASSUME NEW w \in Owners, Stays(w)
  PROVE  MovesOn(w)
BY DEF Stays, MovesOn

\* The calls that neither take nor give back anything.
LEMMA QuietCalls ==
  ASSUME TypeOK,
         \/ \E j \in Jobs : CreateJob(j) \/ \E t \in Texts : FailUnclaimedJob(j, t)
         \/ \E g \in grants, d \in Durations : RenewJob(g, d)
         \/ \E c \in claims, d \in Durations : RenewStep(c, d)
         \/ \E g \in grants, t \in Texts : SetClaimedJob(g, "done", t)
         \/ Tick \/ UNCHANGED vars
  PROVE  RowsKept
<1> USE DEF TypeOK, RowsKept
<1>1. ASSUME NEW j \in Jobs, CreateJob(j) \/ \E t \in Texts : FailUnclaimedJob(j, t)
      PROVE  RowsKept
  BY <1>1 DEF CreateJob, FailUnclaimedJob, JobRecord
<1>2. ASSUME NEW g \in grants, NEW d \in Durations, RenewJob(g, d)
      PROVE  RowsKept
  BY <1>2 DEF RenewJob, JobRecord
<1>3. ASSUME NEW c \in claims, NEW d \in Durations, RenewStep(c, d)
      PROVE  RowsKept
  <2>1. \A s \in StepIds : steps'[s] = [steps[s] EXCEPT !.ttl = steps'[s].ttl]
    BY <1>3, RenewStepSteps
  <2> QED
    BY <1>3, <2>1 DEF RenewStep, StepRecord
<1>4. ASSUME NEW g \in grants, NEW t \in Texts, SetClaimedJob(g, "done", t)
      PROVE  RowsKept
  BY <1>4 DEF SetClaimedJob, JobRecord
<1>5. CASE Tick
  <2>1. \A s \in StepIds : steps'[s] = [steps[s] EXCEPT !.ttl = steps'[s].ttl]
    BY <1>5, TickRows
  <2>2. \A j \in Jobs : jobs'[j] = [jobs[j] EXCEPT !.ttl = jobs'[j].ttl]
    BY <1>5, TickRows
  <2>3. ASSUME NEW s \in StepIds
        PROVE  steps'[s].status = steps[s].status /\ steps'[s].owner = steps[s].owner
    BY ZenonT(40), <2>1 DEF StepRecord
  <2>4. ASSUME NEW j \in Jobs
        PROVE  jobs'[j].owner = jobs[j].owner /\ jobs'[j].epoch = jobs[j].epoch
    BY ZenonT(40), <2>2 DEF JobRecord
  <2> QED
    BY <2>3, <2>4
<1>6. CASE UNCHANGED vars
  BY <1>6 DEF vars
<1> QED
  BY <1>1, <1>2, <1>3, <1>4, <1>5, <1>6

LEMMA RunnerFrame ==
  ASSUME TypeOK, WorkersInv, [RunnerNext]_runnerVars
  PROVE  \/ \E w \in Owners, j \in Jobs : Start(w, j)
         \/ \E w \in Owners : TakeStep(w) \/ Finish(w)
         \/ \E w \in Owners : Return(w) /\ Releasable(w)
         \/ \E w \in Owners : /\ Return(w) /\ ~Releasable(w) /\ RowsKept
                              /\ \A v \in Owners : v # w => MovesOn(v)
         \/ RowsKept /\ \A w \in Owners : MovesOn(w)
<1> DEFINE Quiet == RowsKept /\ \A w \in Owners : MovesOn(w)
<1> USE DEF WorkersInv, WorkerTypes
<1>0. Lease \in Durations
  BY RunnerAssumption
<1>1. ASSUME UNCHANGED workerVars,
             \/ \E j \in Jobs : CreateJob(j) \/ \E t \in Texts : FailUnclaimedJob(j, t)
             \/ \E g \in grants, d \in Durations : RenewJob(g, d)
             \/ \E c \in claims, d \in Durations : RenewStep(c, d)
             \/ Tick \/ UNCHANGED vars
      PROVE  Quiet
  BY <1>1, QuietCalls, StayingMovesOn DEF workerVars, Stays
<1>2. ASSUME NEW w \in Owners, RowsKept, MovesOn(w), \A v \in Owners \ {w} : Stays(v)
      PROVE  Quiet
  BY <1>2, StayingMovesOn
<1>3. ASSUME NEW w \in Owners,
             \/ \E j \in Jobs : Refused(w, j)
             \/ Drain(w) \/ Land(w) \/ SeeLost(w) \/ FinishRefused(w) \/ Leave(w)
             \/ \E result \in {"ok", "error"} : ExecutorEnds(w, result)
             \/ Cancel(w) \/ StoreFails(w) \/ Crash(w)
             \/ \E k \in Beats : NotRenewed(w, k) \/ LoseLease(w, k)
      PROVE  Quiet
  <2>1. RowsKept
    BY <1>3, QuietCalls
    DEF Refused, Drain, Land, SeeLost, FinishRefused, Leave, ExecutorEnds, Cancel,
        StoreFails, Crash, NotRenewed, LoseLease, GiveUp
  <2>2. \A v \in Owners \ {w} : Stays(v)
    BY <1>3
    DEF Refused, Drain, Land, SeeLost, FinishRefused, Leave, ExecutorEnds, Cancel,
        StoreFails, Crash, NotRenewed, LoseLease, GiveUp, Forget, Goto, Stays
  <2>3. MovesOn(w)
    BY <1>3
    DEF Refused, Drain, Land, SeeLost, FinishRefused, Leave, ExecutorEnds, Cancel,
        StoreFails, Crash, NotRenewed, LoseLease, GiveUp, Forget, Goto, MovesOn, Awaiting
  <2> QED
    BY <1>2, <2>1, <2>2, <2>3
<1>4. ASSUME NEW w \in Owners, CloseJob(w)
      PROVE  Quiet
  <2>1. grant[w] \in grants
    BY <1>4 DEF CloseJob, InHand, InRun
  <2>2. RowsKept
    BY <1>4, <2>1, QuietCalls DEF CloseJob
  <2>3. MovesOn(w) /\ \A v \in Owners \ {w} : Stays(v)
    BY <1>4 DEF CloseJob, Goto, MovesOn, Stays, Awaiting
  <2> QED
    BY <1>2, <2>2, <2>3
<1>5. ASSUME NEW w \in Owners, Return(w), ~Releasable(w)
      PROVE  RowsKept /\ \A v \in Owners : v # w => MovesOn(v)
  <2>1. RowsKept
    BY <1>5, QuietCalls DEF Return
  <2> QED
    BY <1>5, <2>1, StayingMovesOn DEF Return, Goto, Stays
<1>6. ASSUME NEW w \in Owners, NEW k \in Beats, Renewed(w, k)
      PROVE  Quiet
  BY <1>0, <1>1, <1>6 DEF Renewed, Renew, Renewal, InHand, InRun, Beats
<1>7. ASSUME NEW r \in adrift, ThreadEnds(r)
      PROVE  Quiet
  <2>1. RowsKept
    BY <1>0, <1>7, QuietCalls DEF ThreadEnds, Renew
  <2> QED
    BY <1>7, <2>1, StayingMovesOn DEF ThreadEnds, Stays
<1> QED
  BY <1>1, <1>3, <1>4, <1>5, <1>6, <1>7
  DEF RunnerNext, Work, Beat, Submit, SpawnFails, TimePasses, runnerVars

\* What taking a step, and finishing one, does to the steps.
LEMMA TakenStep ==
  ASSUME TypeOK, WorkersInv, NEW w \in Owners, TakeStep(w)
  PROVE  /\ pc[w] = "loop" /\ pc'[w] = "executing"
         /\ jobs' = jobs /\ grant' = grant /\ lost' = lost
         /\ \A v \in Owners \ {w} : Stays(v)
         /\ claim'[w].step \in StepIds /\ jobs[claim'[w].step[1]].owner = w
         /\ steps[claim'[w].step].status = "pending"
         /\ steps'[claim'[w].step].owner = w
         /\ \A s \in StepIds : s # claim'[w].step => steps'[s] = steps[s]
<1> USE DEF WorkersInv, WorkerTypes
<1>1. PICK s \in StepsOf(grant[w].job) :
        /\ FirstReady(s)
        /\ steps' = [steps EXCEPT ![s].status = "running", ![s].owner = grant[w].owner,
                                  ![s].ttl = Shorter(Lease, jobs[grant[w].job].ttl),
                                  ![s].token = tokens + 1,
                                  ![s].attempts = @ + 1]
        /\ claims' = claims \cup {[step |-> s, token |-> tokens + 1,
                                   owner |-> grant[w].owner, epoch |-> grant[w].epoch]}
  BY DEF TakeStep, ClaimNextStep
<1>2. PICK c \in claims' \ claims : claim' = [claim EXCEPT ![w] = c]
  BY DEF TakeStep
<1>3. claim'[w].step = s
  BY <1>1, <1>2
<1>4. s \in StepIds /\ s[1] = grant[w].job /\ steps[s].status = "pending"
  BY SMTT(30), <1>1 DEF StepsOf, FirstReady, Ready
<1>5. grant[w].owner = w /\ jobs[grant[w].job].owner = w
  BY DEF TakeStep, ClaimNextStep, RootAuthority, InHand, InRun
<1>6. steps'[s].owner = w /\ \A r \in StepIds : r # s => steps'[r] = steps[r]
  BY SMTT(30), <1>1, <1>4, <1>5 DEF TypeOK, StepRecord
<1>7. /\ pc[w] = "loop" /\ pc'[w] = "executing"
      /\ jobs' = jobs /\ grant' = grant /\ lost' = lost
      /\ \A v \in Owners \ {w} : Stays(v)
  BY <1>2 DEF TakeStep, ClaimNextStep, Goto, Stays
<1> QED
  BY SMTT(30), <1>3, <1>4, <1>5, <1>6, <1>7

LEMMA FinishedStep ==
  ASSUME TypeOK, WorkersInv, NEW w \in Owners, Finish(w)
  PROVE  /\ pc[w] = "landed" /\ pc'[w] \in {"loop", "leaving"}
         /\ grant' = grant /\ lost' = lost
         /\ \A v \in Owners \ {w} : Stays(v)
         /\ \A j \in Jobs : /\ jobs'[j].owner = jobs[j].owner
                           /\ jobs'[j].epoch = jobs[j].epoch
         /\ claim[w].step \in StepIds /\ steps[claim[w].step].owner = w
         /\ steps'[claim[w].step].status # "running"
         /\ \A s \in StepIds : s # claim[w].step => steps'[s] = steps[s]
<1> USE DEF WorkersInv, WorkerTypes
<1>1. /\ pc[w] = "landed" /\ pc'[w] \in {"loop", "leaving"}
      /\ grant' = grant /\ lost' = lost
      /\ \A v \in Owners \ {w} : Stays(v)
  BY DEF Finish, MayFinish, Forget, Goto, Stays
<1>2. claim[w] \in claims /\ claim[w].owner = w
  BY <1>1 DEF InHand, Awaiting
<1>3. claim[w].step \in StepIds /\ claim[w].step[1] \in Jobs
  BY <1>2, StepParts DEF TypeOK, Claim
<1>4. PICK t \in Texts : FinishStep(claim[w], Verdict(w), t)
  BY DEF Finish
<1>5. steps[claim[w].step].owner = w
  BY <1>2, <1>4 DEF FinishStep, ClaimAuthority
<1>6. \A j \in Jobs : jobs'[j].owner = jobs[j].owner /\ jobs'[j].epoch = jobs[j].epoch
  BY <1>3, <1>4 DEF FinishStep, TypeOK, JobRecord
<1>7. Verdict(w) # "running"
  BY DEF Verdict
<1>8. /\ steps'[claim[w].step].status # "running"
      /\ \A s \in StepIds : s # claim[w].step => steps'[s] = steps[s]
  BY <1>3, <1>4, <1>7 DEF FinishStep, Finished, TypeOK, StepRecord
<1> QED
  BY <1>1, <1>3, <1>5, <1>6, <1>8

\* A worker that starts has the newest epoch; nobody else's moves a job to it.
LEMMA OwnedStep ==
  ASSUME TypeOK, WorkersInv, OwnedIsGranted, [RunnerNext]_runnerVars
  PROVE  OwnedIsGranted'
<1> USE DEF WorkersInv, WorkerTypes
<1>1. ASSUME NEW w \in Owners, NEW j \in Jobs, Start(w, j)
      PROVE  OwnedIsGranted'
  <2> SUFFICES ASSUME NEW v \in Owners, NEW k \in Jobs, jobs'[k].owner = v
               PROVE  pc'[v] # "idle" /\ grant'[v].job = k /\ grant'[v].epoch = jobs'[k].epoch
    BY DEF OwnedIsGranted
  <2>1. CASE k = j
    <3>1. v = w /\ jobs'[j].epoch = jobs[j].epoch + 1
      BY <1>1, <2>1 DEF Start, ClaimJob, TypeOK, JobRecord
    <3> QED
      BY <1>1, <2>1, <3>1 DEF Start, Goto
  <2>2. CASE k # j
    <3>1. jobs'[k] = jobs[k]
      BY <1>1, <2>2 DEF Start, ClaimJob, TypeOK
    <3>2. pc[v] # "idle" /\ grant[v].job = k /\ grant[v].epoch = jobs[k].epoch
      BY <3>1 DEF OwnedIsGranted
    <3>3. v # w
      BY <1>1, <3>2 DEF Start
    <3> QED
      BY <1>1, <3>1, <3>2, <3>3 DEF Start, Goto
  <2> QED
    BY <2>1, <2>2
<1>2. ASSUME NEW w \in Owners, TakeStep(w) \/ Finish(w)
      PROVE  OwnedIsGranted'
  <2>1. \A j \in Jobs : jobs'[j].owner = jobs[j].owner /\ jobs'[j].epoch = jobs[j].epoch
    BY <1>2, TakenStep, FinishedStep
  <2>2. grant' = grant /\ \A v \in Owners : pc'[v] = "idle" => pc[v] = "idle"
    BY <1>2, TakenStep, FinishedStep DEF Stays
  <2> QED
    BY <2>1, <2>2 DEF OwnedIsGranted
<1>3. ASSUME NEW w \in Owners, Return(w), Releasable(w)
      PROVE  OwnedIsGranted'
  <2>1. \A j \in Jobs : /\ jobs'[j].owner \in {jobs[j].owner, NoOwner}
                        /\ jobs'[j].epoch = jobs[j].epoch
    BY <1>3 DEF Return, ReleaseJob, TypeOK, JobRecord
  <2>2. grant' = grant /\ \A v \in Owners : pc'[v] = "idle" => pc[v] = "idle"
    BY <1>3 DEF Return, Goto
  <2> QED
    BY <2>1, <2>2, LedgerAssumption DEF OwnedIsGranted
<1>4. ASSUME NEW w \in Owners, Return(w), RowsKept,
             \A v \in Owners : v # w => MovesOn(v)
      PROVE  OwnedIsGranted'
  BY <1>4 DEF OwnedIsGranted, RowsKept, Return, Goto, MovesOn
<1>5. ASSUME RowsKept, \A w \in Owners : MovesOn(w)
      PROVE  OwnedIsGranted'
  BY <1>5 DEF OwnedIsGranted, RowsKept, MovesOn
<1> QED
  BY <1>1, <1>2, <1>3, <1>4, <1>5, RunnerFrame

\* A worker that starts resets what was under way; it takes a step only when none
\* of its own is.
LEMMA OneStepStep ==
  ASSUME TypeOK, WorkersInv, OwnedIsGranted, OneStepAtATime, [RunnerNext]_runnerVars
  PROVE  OneStepAtATime'
<1> SUFFICES ASSUME NEW v \in Owners, NEW s \in StepIds,
                    jobs'[s[1]].owner = v, steps'[s].status = "running",
                    pc'[v] \in {"loop"} \cup Awaiting
             PROVE  pc'[v] # "loop" /\ s = claim'[v].step
  BY DEF OneStepAtATime
<1> USE DEF WorkersInv, WorkerTypes
<1>0. s[1] \in Jobs
  BY StepParts
<1>1. ASSUME NEW w \in Owners, NEW j \in Jobs, Start(w, j)
      PROVE  s[1] # j /\ v # w /\ steps'[s] = steps[s] /\ jobs'[s[1]] = jobs[s[1]] /\ Stays(v)
  <2>1. ClaimJob(j, w, Lease) /\ Lease \in Durations
    BY <1>1, RunnerAssumption DEF Start
  <2>2. s[1] # j
    BY <2>1, ClaimJobSteps
  <2>3. steps'[s] = steps[s]
    BY <2>1, <2>2, ClaimJobSteps
  <2>4. jobs'[s[1]] = jobs[s[1]]
    BY <1>0, <2>1, <2>2 DEF ClaimJob, TypeOK
  <2>5. v # w
    BY <1>0, <1>1, <2>4 DEF OwnedIsGranted, Start
  <2> QED
    BY <1>1, <2>2, <2>3, <2>4, <2>5 DEF Start, Goto, Stays
<1>2. ASSUME Stays(v), steps[s].status = "running", jobs[s[1]].owner = v
      PROVE  pc'[v] # "loop" /\ s = claim'[v].step
  BY <1>2 DEF Stays, OneStepAtATime
<1>3. ASSUME NEW w \in Owners, TakeStep(w)
      PROVE  pc'[v] # "loop" /\ s = claim'[v].step
  <2>1. CASE v = w
    <3>1. s # claim'[w].step => steps[s].status = "running" /\ jobs[s[1]].owner = w
      BY <1>3, <2>1, TakenStep
    <3>2. s = claim'[w].step
      BY <1>3, <3>1, TakenStep DEF OneStepAtATime
    <3> QED
      BY <1>3, <2>1, <3>2, TakenStep
  <2>2. CASE v # w
    <3>1. s # claim'[w].step
      BY <1>3, <2>2, TakenStep
    <3> QED
      BY <1>2, <1>3, <2>2, <3>1, TakenStep
  <2> QED
    BY <2>1, <2>2
<1>4. ASSUME NEW w \in Owners, Finish(w)
      PROVE  pc'[v] # "loop" /\ s = claim'[v].step
  <2>1. s # claim[w].step
    BY <1>4, FinishedStep
  <2>2. steps[s].status = "running" /\ jobs[s[1]].owner = v
    BY <1>0, <1>4, <2>1, FinishedStep
  <2>3. v # w
    BY <1>4, <2>1, <2>2, FinishedStep DEF OneStepAtATime, Awaiting
  <2> QED
    BY <1>2, <1>4, <2>2, <2>3, FinishedStep
<1>5. ASSUME NEW w \in Owners, Return(w), Releasable(w)
      PROVE  pc'[v] # "loop" /\ s = claim'[v].step
  <2>1. steps' = steps /\ jobs'[s[1]].owner \in {jobs[s[1]].owner, NoOwner}
    BY SMTT(30), <1>0, <1>5 DEF Return, ReleaseJob, TypeOK, JobRecord
  <2>2. v # w
    BY <1>5 DEF Return, Goto, Awaiting
  <2>3. Stays(v)
    BY <1>5, <2>2 DEF Return, Goto, Stays
  <2> QED
    BY <1>2, <2>1, <2>3, LedgerAssumption
<1>6. ASSUME RowsKept, MovesOn(v)
      PROVE  pc'[v] # "loop" /\ s = claim'[v].step
  <2>1. steps[s].status = "running" /\ jobs[s[1]].owner = v
    BY <1>0, <1>6 DEF RowsKept
  <2> QED
    BY <1>6, <2>1 DEF MovesOn, OneStepAtATime, Awaiting
<1>7. ASSUME NEW w \in Owners, Return(w)
      PROVE  v # w
  BY <1>7 DEF Return, Goto, Awaiting
<1> QED
  BY <1>1, <1>2, <1>3, <1>4, <1>5, <1>6, <1>7, RunnerFrame

\* A run that is over has nothing: no late call of anybody gives it a job back.
LEMMA GivenBackStep ==
  ASSUME TypeOK, WorkersInv, OwnedIsGranted, JobIsGivenBack, [RunnerNext]_runnerVars
  PROVE  JobIsGivenBack'
<1> SUFFICES ASSUME NEW v \in Owners, pc'[v] = "returned", ~lost'[v],
                    NEW j \in Jobs, jobs'[j].owner = v
             PROVE  \E s \in StepsOf(j) :
                      steps'[s].status = "running" /\ steps'[s].owner = v
  BY DEF JobIsGivenBack, StepsOf
<1> USE DEF WorkersInv, WorkerTypes
<1>1. ASSUME pc[v] = "returned", ~lost[v], jobs[j].owner = v
      PROVE  \E s \in StepsOf(j) : steps[s].status = "running" /\ steps[s].owner = v
  BY <1>1 DEF JobIsGivenBack
<1>2. ASSUME NEW w \in Owners, NEW k \in Jobs, Start(w, k)
      PROVE  \E s \in StepsOf(j) : steps'[s].status = "running" /\ steps'[s].owner = v
  <2>1. ClaimJob(k, w, Lease) /\ Lease \in Durations
    BY <1>2, RunnerAssumption DEF Start
  <2>2. v # w /\ pc[v] = "returned" /\ ~lost[v]
    BY <1>2 DEF Start, Goto
  <2>3. j # k /\ jobs[j].owner = v
    BY <2>1, <2>2 DEF ClaimJob, TypeOK, JobRecord
  <2>4. PICK s \in StepsOf(j) : steps[s].status = "running" /\ steps[s].owner = v
    BY <1>1, <2>2, <2>3
  <2>5. steps'[s] = steps[s]
    BY <2>1, <2>3, <2>4, ClaimJobSteps DEF StepsOf
  <2> QED
    BY <2>4, <2>5
<1>3. ASSUME NEW w \in Owners, TakeStep(w)
      PROVE  \E s \in StepsOf(j) : steps'[s].status = "running" /\ steps'[s].owner = v
  <2>1. v # w /\ pc[v] = "returned" /\ ~lost[v] /\ jobs[j].owner = v
    BY <1>3, TakenStep DEF Stays
  <2>2. PICK s \in StepsOf(j) : steps[s].status = "running" /\ steps[s].owner = v
    BY <1>1, <2>1
  <2>3. steps'[s] = steps[s]
    BY <1>3, <2>2, TakenStep DEF StepsOf
  <2> QED
    BY <2>2, <2>3
<1>4. ASSUME NEW w \in Owners, Finish(w)
      PROVE  \E s \in StepsOf(j) : steps'[s].status = "running" /\ steps'[s].owner = v
  <2>1. v # w /\ pc[v] = "returned" /\ ~lost[v] /\ jobs[j].owner = v
    BY <1>4, FinishedStep DEF Stays
  <2>2. PICK s \in StepsOf(j) : steps[s].status = "running" /\ steps[s].owner = v
    BY <1>1, <2>1
  <2>3. steps'[s] = steps[s]
    BY <1>4, <2>1, <2>2, FinishedStep DEF StepsOf
  <2> QED
    BY <2>2, <2>3
<1>5. ASSUME NEW w \in Owners, Return(w), Releasable(w)
      PROVE  \E s \in StepsOf(j) : steps'[s].status = "running" /\ steps'[s].owner = v
  <2>1. /\ ReleaseJob(grant[w]) /\ pc' = [pc EXCEPT ![w] = "returned"] /\ lost' = lost
        /\ steps' = steps
    BY <1>5 DEF Return, Goto, ReleaseJob
  <2>2. /\ j # grant[w].job /\ jobs[j].owner = v
    BY <2>1, LedgerAssumption DEF ReleaseJob, TypeOK, JobRecord
  <2>3. v # w
    BY <2>2 DEF OwnedIsGranted
  <2> QED
    BY <1>1, <2>1, <2>2, <2>3
<1>6. ASSUME NEW w \in Owners, Return(w), ~Releasable(w), RowsKept, v = w
      PROVE  \E s \in StepsOf(j) : steps'[s].status = "running" /\ steps'[s].owner = v
  <2>1. ~lost[w] /\ jobs[j].owner = w
    BY <1>6 DEF Return, RowsKept
  <2>2. grant[w].job = j /\ grant[w].epoch = jobs[j].epoch
    BY <2>1 DEF OwnedIsGranted
  <2>3. LiveChild(j, w)
    BY <1>6, <2>1, <2>2 DEF Releasable
  <2> QED
    BY <1>6, <2>3 DEF LiveChild, RowsKept, StepsOf
<1>7. ASSUME RowsKept, MovesOn(v)
      PROVE  \E s \in StepsOf(j) : steps'[s].status = "running" /\ steps'[s].owner = v
  <2>1. jobs[j].owner = v
    BY <1>7 DEF RowsKept
  <2>2. pc[v] = "returned" /\ ~lost[v]
    BY <1>7, <2>1 DEF MovesOn, OwnedIsGranted
  <2> QED
    BY <1>1, <1>7, <2>1, <2>2 DEF RowsKept, StepsOf
<1> QED
  BY <1>2, <1>3, <1>4, <1>5, <1>6, <1>7, RunnerFrame

LEMMA HandsInit == RunnerInit => OwnedIsGranted /\ OneStepAtATime /\ JobIsGivenBack
BY LedgerAssumption
DEF RunnerInit, Init, NoJob, NewStep, OwnedIsGranted, OneStepAtATime, JobIsGivenBack,
    Awaiting, StepIds

\* What is known of the workers beside the ledger's invariant.
LEMMA HandsHold == RunnerSpec => [](LedgerInv /\ OwnedIsGranted /\ OneStepAtATime)
<1>1. /\ LedgerInv /\ WorkersInv /\ OwnedIsGranted /\ OneStepAtATime
      /\ [RunnerNext]_runnerVars
      => (OwnedIsGranted /\ OneStepAtATime)'
  BY OwnedStep, OneStepStep DEF LedgerInv
<1> QED
  BY <1>1, HandsInit, WorkersInit, WorkersStep, RunnerUsesLedger, LedgerCorrect, PTL
  DEF RunnerSpec

\* A run that returned, and did not know its lease lost, has given its job back,
\* or left a claimed step behind whose lease the ledger waits for.
THEOREM JobGivenBack == RunnerSpec => []JobIsGivenBack
<1>1. /\ LedgerInv /\ WorkersInv /\ OwnedIsGranted /\ JobIsGivenBack
      /\ [RunnerNext]_runnerVars
      => JobIsGivenBack'
  BY GivenBackStep DEF LedgerInv
<1> QED
  BY <1>1, HandsInit, HandsHold, WorkersInit, WorkersStep, PTL DEF RunnerSpec

\* A set of numbers has a least one.
LEMMA LeastNumber ==
  ASSUME NEW S \in SUBSET Nat, S # {}
  PROVE  \E m \in S : \A k \in S : m <= k
<1> DEFINE R == OpToRel(<, Nat)
<1>1. IsWellFoundedOn(R, Nat)
  BY Zenon, NatLessThanWellFounded
<1>2. \A x, y \in Nat : x < y => <<x, y>> \in R
  BY Zenon DEF OpToRel
<1> HIDE DEF R
<1>3. PICK x \in S : \A y \in S : ~ (<<y, x>> \in R)
  BY Zenon, <1>1, WFMin
<1>4. ASSUME NEW k \in S
      PROVE  x <= k
  <2>1. k \in Nat /\ x \in Nat
    OBVIOUS
  <2>2. ~ (k < x)
    BY <1>2, <1>3, <2>1
  <2> QED
    BY <2>1, <2>2
<1> QED
  BY <1>4

\* The first step of a job that is not done waits for nothing.
LEMMA FirstOpenStep ==
  ASSUME TypeOK, NEW j \in Jobs, ~AllDone(j),
         \A s \in StepsOf(j) : steps[s].status \in {"pending", "done"}
  PROVE  \E s \in StepsOf(j) : Ready(s)
<1> DEFINE Open == {i \in StepIdx : steps[<<j, i>>].status # "done"}
<1>1. \A i \in StepIdx : <<j, i>> \in StepsOf(j)
  BY DEF StepsOf, StepIds
<1>2. \A s \in StepsOf(j) : s[2] \in StepIdx /\ s = <<j, s[2]>>
  BY StepParts DEF StepsOf
<1>3. Open # {} /\ Open \in SUBSET Nat
  BY <1>2 DEF AllDone, StepIdx
<1>4. PICK m \in Open : \A k \in Open : m <= k
  BY <1>3, LeastNumber
<1>5. ASSUME NEW d \in Deps[m]
      PROVE  steps[<<j, d>>].status = "done"
  <2>1. d \in StepIdx /\ d < m /\ m \in StepIdx /\ d \in Int /\ m \in Int
    BY LedgerAssumption DEF StepIdx
  <2> QED
    BY <1>4, <2>1
<1>6. steps[<<j, m>>].status = "pending"
  BY <1>1
<1>7. DepsDone(<<j, m>>)
  BY <1>5 DEF DepsDone, DepsOf
<1> QED
  BY <1>1, <1>6, <1>7 DEF Ready

\* A run leaves its loop with the lease in hand only when every step is done.
THEOREM NeverStuckHolds == RunnerSpec => NeverStuck
<1> DEFINE Through == \A w \in Owners :
                        /\ pc[w] = "loop" /\ pc'[w] = "drained"
                        /\ RootAuthority(grant[w].job, w, grant[w].epoch)
                        => AllDone(grant[w].job)
<1>1. LedgerInv /\ WorkersInv /\ OneStepAtATime /\ [RunnerNext]_runnerVars => Through
  <2> SUFFICES ASSUME LedgerInv, WorkersInv, OneStepAtATime, [RunnerNext]_runnerVars,
                      NEW w \in Owners, pc[w] = "loop", pc'[w] = "drained",
                      RootAuthority(grant[w].job, w, grant[w].epoch)
               PROVE  AllDone(grant[w].job)
    OBVIOUS
  <2> USE DEF LedgerInv
  <2>1. MovesOn(w)
    <3>1. \A v \in Owners, j \in Jobs : ~ Start(v, j)
      BY DEF Start, Goto, WorkersInv, WorkerTypes
    <3>2. \A v \in Owners : ~ TakeStep(v) /\ ~ Finish(v)
      BY TakenStep, FinishedStep DEF Stays
    <3>3. \A v \in Owners : Return(v) => v # w /\ pc'[w] = pc[w]
      BY DEF Return, Goto, WorkersInv, WorkerTypes
    <3> QED
      BY <3>1, <3>2, <3>3, RunnerFrame
  <2>2. \A s \in StepsOf(grant[w].job) : ~Ready(s)
    BY <2>1 DEF MovesOn, NothingReady
  <2>3. grant[w].job \in Jobs
    BY DEF WorkersInv, InHand, InRun, TypeOK, Grant
  <2>4. ASSUME NEW s \in StepsOf(grant[w].job)
        PROVE  steps[s].status \in {"pending", "done"}
    <3>1. s \in StepIds /\ s[1] = grant[w].job
      BY DEF StepsOf
    <3>2. steps[s].status # "running"
      BY <3>1 DEF OneStepAtATime, RootAuthority
    <3>3. steps[s].status # "failed"
      BY <2>3 DEF FailureIsAtomic, RootAuthority
    <3>4. steps[s].status \in StepStatus
      BY <3>1 DEF TypeOK, StepRecord
    <3> QED
      BY <3>2, <3>3, <3>4 DEF StepStatus
  <2> QED
    BY <2>2, <2>3, <2>4, FirstOpenStep
<1>2. LedgerInv /\ WorkersInv /\ OneStepAtATime /\ [RunnerNext]_runnerVars
        => [Through]_runnerVars
  BY <1>1
<1> QED
  BY <1>2, HandsHold, WorkersInit, WorkersStep, PTL DEF RunnerSpec, NeverStuck

(***************************************************************************)
(* Undo receipts, for any writes, contents and limit of the ledger.        *)
(***************************************************************************)
\* A receipt has its row from the moment its write has it issued; a restoration
\* works for a write that is done, claims a success only after it left the file
\* with the pre-image, and is about to replace what it saw, or the file changed
\* since.
UndoIInv ==
  /\ UndoTypeOK
  /\ RestoredIsTrue
  /\ \A w \in Writes : writes[w] \in {"idle", "read"} => receipts[w].status = "none"
  /\ run # NoRun => writes[run.of] = "written"
  /\ run.verdict = "restored" => run.at = "end" /\ run.of \in undone
  /\ run.at = "put" => touched \/ file = receipts[run.of].after

UndoDone == EditsSurvive /\ SpentOnce

\* Receipts that are in the ledger after a step and were not before.
LEMMA StoredKept ==
  ASSUME UndoAssumption, Stored' \subseteq Stored, Cardinality(Stored) <= MaxRows
  PROVE  Cardinality(Stored') <= MaxRows
<1>1. Stored \subseteq Writes /\ Stored' \subseteq Writes
  BY DEF Stored
<1>2. IsFiniteSet(Stored) /\ IsFiniteSet(Stored')
  BY <1>1, FS_Subset DEF UndoAssumption
<1>3. Cardinality(Stored') <= Cardinality(Stored)
  BY <1>2, FS_Subset
<1>4. Cardinality(Stored) \in Nat /\ Cardinality(Stored') \in Nat
  BY <1>2, FS_CardinalityType
<1> QED
  BY <1>3, <1>4 DEF UndoAssumption

LEMMA ReadBeforeStep ==
  ASSUME UndoAssumption, UndoIInv, NEW w \in Writes, NEW c \in Contents, ReadBefore(w, c)
  PROVE  UndoIInv' /\ UndoDone
<1> USE DEF UndoIInv, ReadBefore
<1>1. UndoTypeOK'
  <2> DEFINE R == [status : {"none", "pending", "executing", "gone"} \cup Terminal,
                   before : Holdings, after : Holdings, lapsed : BOOLEAN, expired : BOOLEAN]
             r == [receipts[w] EXCEPT !.before = file, !.after = c]
  <2>1. receipts[w] \in R /\ file \in Holdings /\ c \in Holdings
    BY DEF UndoTypeOK, Holdings
  <2>2. r \in R
    BY <2>1
  <2>3. receipts' = [receipts EXCEPT ![w] = r] /\ receipts \in [Writes -> R]
    BY DEF UndoTypeOK
  <2> HIDE DEF R, r
  <2>4. receipts' \in [Writes -> R]
    BY <2>2, <2>3
  <2> QED
    BY <2>4 DEF UndoTypeOK, R
<1>2. \A x \in Writes : receipts'[x].status = receipts[x].status
  BY DEF UndoTypeOK
<1>3. RestoredIsTrue'
  BY <1>2, StoredKept DEF RestoredIsTrue, Stored, UndoTypeOK
<1>4. \A x \in Writes : x # w => receipts'[x] = receipts[x] /\ writes'[x] = writes[x]
  BY DEF UndoTypeOK
<1>5. run # NoRun => run.of \in Writes /\ run.of # w
  BY DEF UndoTypeOK
<1>6. run.at = "put" => run # NoRun
  BY DEF NoRun
<1> QED
  BY ZenonT(40), <1>1, <1>2, <1>3, <1>4, <1>5, <1>6 DEF UndoDone, EditsSurvive, SpentOnce

LEMMA IssueStep ==
  ASSUME UndoAssumption, UndoIInv, NEW w \in Writes, Issue(w)
  PROVE  UndoIInv' /\ UndoDone
<1> USE DEF UndoIInv
<1>1. CASE Cardinality(Stored \ Prunable) >= MaxRows
  <2>1. writes' = [writes EXCEPT ![w] = "cancelled"] /\ UNCHANGED <<receipts, file, run, touched, undone>>
    BY <1>1 DEF Issue
  <2>2. UndoTypeOK'
    BY <2>1 DEF UndoTypeOK
  <2>3. RestoredIsTrue'
    BY <2>1 DEF RestoredIsTrue, Stored, UndoTypeOK
  <2>4. writes[w] = "read"
    BY DEF Issue
  <2> QED
    BY <2>1, <2>2, <2>3, <2>4 DEF UndoDone, EditsSurvive, SpentOnce, UndoTypeOK
<1>2. CASE ~(Cardinality(Stored \ Prunable) >= MaxRows)
  <2>1. /\ writes[w] = "read" /\ writes' = [writes EXCEPT ![w] = "issued"]
        /\ UNCHANGED <<file, run, touched, undone>>
        /\ receipts' = [x \in Writes |->
             IF x = w THEN [receipts[x] EXCEPT !.status = "pending"]
             ELSE IF x \in Prunable
             THEN [receipts[x] EXCEPT !.status = "gone"] ELSE receipts[x]]
    BY <1>2 DEF Issue
  <2>2. w \notin Stored /\ receipts[w].status = "none"
    BY <2>1 DEF Stored
  <2>3. /\ receipts'[w].status = "pending"
        /\ \A x \in Writes : /\ receipts'[x].after = receipts[x].after
                             /\ x # w => receipts'[x].status \in {receipts[x].status, "gone"}
                             /\ x # w /\ x \notin Prunable => receipts'[x] = receipts[x]
                             /\ x # w /\ x \in Prunable => receipts'[x].status = "gone"
    BY <2>1 DEF UndoTypeOK
  <2>4. UndoTypeOK'
    BY <2>1 DEF UndoTypeOK
  <2>5. Stored' = (Stored \ Prunable) \cup {w}
    BY <2>2, <2>3 DEF Stored, Prunable
  <2>6. Cardinality(Stored') <= MaxRows
    <3> DEFINE S == Stored \ Prunable
    <3>1. IsFiniteSet(S)
      BY FS_Subset DEF Stored, UndoAssumption
    <3>2. w \notin S
      BY <2>2
    <3>3. Cardinality(S) \in Nat /\ Cardinality(S \cup {w}) = Cardinality(S) + 1
      BY <3>1, <3>2, FS_CardinalityType, FS_AddElement
    <3>4. Stored' = S \cup {w} /\ ~(Cardinality(S) >= MaxRows)
      BY <1>2, <2>5
    <3> HIDE DEF S
    <3> QED
      BY <3>3, <3>4 DEF UndoAssumption
  <2>7. \A x \in Writes : receipts[x].status # "none" => receipts'[x].status # "none"
    BY <2>2, <2>3
  <2>8. RestoredIsTrue'
    BY <2>1, <2>3, <2>6, <2>7 DEF RestoredIsTrue, UndoTypeOK
  <2>9. \A x \in Writes : x # w => writes'[x] = writes[x]
    BY <2>1 DEF UndoTypeOK
  <2>10. \A x \in Writes : writes'[x] \in {"idle", "read"} => receipts'[x].status = "none"
    BY <2>1, <2>3, <2>9 DEF UndoTypeOK, Prunable, Stored
  <2>11. /\ run = NoRun \/ (run.of \in Writes /\ run.of # w)
         /\ run.at = "put" => run # NoRun
    BY <2>1 DEF UndoTypeOK, NoRun
  <2>12. UndoDone
    BY <2>1, <2>2, <2>3 DEF UndoDone, EditsSurvive, SpentOnce, Terminal
  <2> QED
    BY <2>1, <2>3, <2>4, <2>8, <2>9, <2>10, <2>11, <2>12
<1> QED
  BY <1>1, <1>2

LEMMA PutFileStep ==
  ASSUME UndoAssumption, UndoIInv, NEW w \in Writes, PutFile(w)
  PROVE  UndoIInv' /\ UndoDone
<1> USE DEF UndoIInv, PutFile, ChangesTo
<1>1. UndoTypeOK'
  BY DEF UndoTypeOK, Holdings, Terminal, NoRun
<1>3. RestoredIsTrue'
  BY DEF RestoredIsTrue, Stored, UndoTypeOK
<1>4. UndoDone
  BY DEF UndoDone, EditsSurvive, SpentOnce, UndoTypeOK, Terminal, NoRun
<1> QED
  BY ZenonT(40), <1>1, <1>3, <1>4 DEF UndoTypeOK, NoRun, Terminal

LEMMA WriteFailsStep ==
  ASSUME UndoAssumption, UndoIInv, NEW w \in Writes, WriteFails(w)
  PROVE  UndoIInv' /\ UndoDone
<1> USE DEF UndoIInv, WriteFails
<1>1. UndoTypeOK'
  BY DEF UndoTypeOK, Holdings, Terminal, NoRun
<1>3. RestoredIsTrue'
  BY DEF RestoredIsTrue, Stored, UndoTypeOK
<1>4. UndoDone
  BY DEF UndoDone, EditsSurvive, SpentOnce, UndoTypeOK, Terminal, NoRun
<1> QED
  BY <1>1, <1>3, <1>4 DEF UndoTypeOK, NoRun, Terminal

LEMMA ClaimReceiptStep ==
  ASSUME UndoAssumption, UndoIInv, NEW w \in Writes, ClaimReceipt(w)
  PROVE  UndoIInv' /\ UndoDone
<1> USE DEF UndoIInv, ClaimReceipt, Claimable
<1>1. UndoTypeOK'
  BY ZenonT(40) DEF UndoTypeOK, Holdings, Terminal, NoRun
<1>2. Stored' \subseteq Stored
  BY DEF Stored, UndoTypeOK
<1>3. RestoredIsTrue'
  BY <1>2, StoredKept DEF RestoredIsTrue, UndoTypeOK, Terminal, NoRun, Claimable
<1>4. UndoDone
  BY DEF UndoDone, EditsSurvive, SpentOnce, UndoTypeOK, Terminal, NoRun, Claimable
<1> QED
  BY <1>1, <1>3, <1>4 DEF UndoTypeOK, NoRun, Terminal

LEMMA LookStep ==
  ASSUME UndoAssumption, UndoIInv, Look
  PROVE  UndoIInv' /\ UndoDone
<1> USE DEF UndoIInv, Look, Sight
<1>0. run.of \in Writes /\ run # NoRun
  BY DEF UndoTypeOK, NoRun
<1>1. UndoTypeOK'
  <2>1. run' \in [of : Writes, at : {"look", "put", "end"}, verdict : Terminal]
    BY <1>0 DEF Terminal
  <2>2. undone' \subseteq Writes
    BY <1>0 DEF UndoTypeOK
  <2> QED
    BY <2>1, <2>2 DEF UndoTypeOK
<1>3. RestoredIsTrue'
  BY DEF RestoredIsTrue, Stored, UndoTypeOK
<1>4. UndoDone
  BY DEF UndoDone, EditsSurvive, SpentOnce, UndoTypeOK, Terminal, NoRun
<1> QED
  BY <1>0, <1>1, <1>3, <1>4 DEF UndoTypeOK, NoRun, Terminal

LEMMA PutStep ==
  ASSUME UndoAssumption, UndoIInv, Put
  PROVE  UndoIInv' /\ UndoDone
<1> USE DEF UndoIInv, Put
<1>0. run.of \in Writes /\ run # NoRun
  BY DEF UndoTypeOK, NoRun
<1>1. UndoTypeOK'
  <2>1. run' \in [of : Writes, at : {"look", "put", "end"}, verdict : Terminal]
    BY <1>0 DEF UndoTypeOK, Terminal
  <2>2. receipts[run.of].before \in Holdings
    BY <1>0 DEF UndoTypeOK
  <2> QED
    BY <1>0, <2>1, <2>2 DEF UndoTypeOK
<1>3. RestoredIsTrue'
  BY DEF RestoredIsTrue, Stored, UndoTypeOK
<1>4. UndoDone
  BY DEF UndoDone, EditsSurvive, SpentOnce, UndoTypeOK, Terminal, NoRun
<1> QED
  BY <1>0, <1>1, <1>3, <1>4 DEF UndoTypeOK, NoRun, Terminal

LEMMA UndoFailsStep ==
  ASSUME UndoAssumption, UndoIInv, UndoFails
  PROVE  UndoIInv' /\ UndoDone
<1> USE DEF UndoIInv, UndoFails
<1>1. UndoTypeOK'
  BY DEF UndoTypeOK, Holdings, Terminal, NoRun
<1>3. RestoredIsTrue'
  BY DEF RestoredIsTrue, Stored, UndoTypeOK
<1>4. UndoDone
  BY DEF UndoDone, EditsSurvive, SpentOnce, UndoTypeOK, Terminal, NoRun
<1> QED
  BY <1>1, <1>3, <1>4 DEF UndoTypeOK, NoRun, Terminal

LEMMA FinishUndoStep ==
  ASSUME UndoAssumption, UndoIInv, FinishUndo
  PROVE  UndoIInv' /\ UndoDone
<1> USE DEF UndoIInv, FinishUndo
<1>1. UndoTypeOK'
  BY DEF UndoTypeOK, Holdings, Terminal, NoRun
<1>2. Stored' \subseteq Stored
  BY DEF Stored, UndoTypeOK
<1>3. RestoredIsTrue'
  BY <1>2, StoredKept DEF RestoredIsTrue, UndoTypeOK, Terminal, NoRun, Claimable
<1>4. UndoDone
  BY DEF UndoDone, EditsSurvive, SpentOnce, UndoTypeOK, Terminal, NoRun
<1> QED
  BY <1>1, <1>3, <1>4 DEF UndoTypeOK, NoRun, Terminal

LEMMA FinishFailsStep ==
  ASSUME UndoAssumption, UndoIInv, FinishFails
  PROVE  UndoIInv' /\ UndoDone
<1> USE DEF UndoIInv, FinishFails
<1>1. UndoTypeOK'
  BY DEF UndoTypeOK, Holdings, Terminal, NoRun
<1>3. RestoredIsTrue'
  BY DEF RestoredIsTrue, Stored, UndoTypeOK
<1>4. UndoDone
  BY DEF UndoDone, EditsSurvive, SpentOnce, UndoTypeOK, Terminal, NoRun
<1> QED
  BY <1>1, <1>3, <1>4 DEF UndoTypeOK, NoRun, Terminal

LEMMA EditStep ==
  ASSUME UndoAssumption, UndoIInv, NEW c \in Holdings, Edit(c)
  PROVE  UndoIInv' /\ UndoDone
<1> USE DEF UndoIInv, Edit, ChangesTo
<1>1. UndoTypeOK'
  BY DEF UndoTypeOK, Holdings, Terminal, NoRun
<1>3. RestoredIsTrue'
  BY DEF RestoredIsTrue, Stored, UndoTypeOK
<1>4. UndoDone
  BY DEF UndoDone, EditsSurvive, SpentOnce, UndoTypeOK, Terminal, NoRun
<1> QED
  BY <1>1, <1>3, <1>4 DEF UndoTypeOK, NoRun, Terminal

LEMMA LapseStep ==
  ASSUME UndoAssumption, UndoIInv, NEW w \in Writes, Lapse(w)
  PROVE  UndoIInv' /\ UndoDone
<1> USE DEF UndoIInv, Lapse
<1>1. UndoTypeOK'
  BY ZenonT(40) DEF UndoTypeOK, Holdings, Terminal, NoRun
<1>2. Stored' \subseteq Stored
  BY DEF Stored, UndoTypeOK
<1>3. RestoredIsTrue'
  BY <1>2, StoredKept DEF RestoredIsTrue, UndoTypeOK, Terminal, NoRun, Claimable
<1>4. UndoDone
  BY DEF UndoDone, EditsSurvive, SpentOnce, UndoTypeOK, Terminal, NoRun
<1> QED
  BY <1>1, <1>3, <1>4 DEF UndoTypeOK, NoRun, Terminal

LEMMA ExpireStep ==
  ASSUME UndoAssumption, UndoIInv, NEW w \in Writes, Expire(w)
  PROVE  UndoIInv' /\ UndoDone
<1> USE DEF UndoIInv, Expire
<1>1. UndoTypeOK'
  BY ZenonT(40) DEF UndoTypeOK, Holdings, Terminal, NoRun
<1>2. Stored' \subseteq Stored
  BY DEF Stored, UndoTypeOK
<1>3. RestoredIsTrue'
  BY <1>2, StoredKept DEF RestoredIsTrue, UndoTypeOK, Terminal, NoRun, Claimable
<1>4. UndoDone
  BY DEF UndoDone, EditsSurvive, SpentOnce, UndoTypeOK, Terminal, NoRun
<1> QED
  BY <1>1, <1>3, <1>4 DEF UndoTypeOK, NoRun, Terminal

LEMMA UndoCrashStep ==
  ASSUME UndoAssumption, UndoIInv, UndoCrash
  PROVE  UndoIInv' /\ UndoDone
<1> USE DEF UndoIInv, UndoCrash
<1>1. UndoTypeOK'
  BY DEF UndoTypeOK, Holdings, Terminal, NoRun
<1>3. RestoredIsTrue'
  BY DEF RestoredIsTrue, Stored, UndoTypeOK
<1>4. UndoDone
  BY DEF UndoDone, EditsSurvive, SpentOnce, UndoTypeOK, Terminal, NoRun
<1> QED
  BY <1>1, <1>3, <1>4 DEF UndoTypeOK, NoRun, Terminal

LEMMA UndoStart == ASSUME UndoAssumption, UndoInit PROVE UndoIInv
<1> USE DEF UndoInit, NoReceipt, NoRun
<1>1. UndoTypeOK
  BY DEF UndoTypeOK, Holdings, Terminal
<1>2. Stored = {}
  BY DEF Stored
<1>3. RestoredIsTrue
  BY <1>2, FS_EmptySet DEF RestoredIsTrue, UndoAssumption
<1> QED
  BY <1>1, <1>3 DEF UndoIInv

LEMMA UndoStep ==
  ASSUME UndoAssumption, UndoIInv, [UndoNext]_undoVars
  PROVE  UndoIInv' /\ [UndoDone]_undoVars
<1>1. CASE UNCHANGED undoVars
  BY <1>1 DEF undoVars, UndoIInv, UndoTypeOK, RestoredIsTrue, Stored
<1>2. ASSUME NEW w \in Writes, NEW c \in Contents, ReadBefore(w, c) PROVE UndoIInv' /\ UndoDone
  BY <1>2, ReadBeforeStep
<1>3. ASSUME NEW w \in Writes,
             Issue(w) \/ PutFile(w) \/ WriteFails(w) \/ ClaimReceipt(w) \/ Lapse(w) \/ Expire(w)
      PROVE  UndoIInv' /\ UndoDone
  BY <1>3, IssueStep, PutFileStep, WriteFailsStep, ClaimReceiptStep, LapseStep, ExpireStep
<1>4. CASE Look \/ Put \/ UndoFails \/ FinishUndo \/ FinishFails \/ UndoCrash
  BY <1>4, LookStep, PutStep, UndoFailsStep, FinishUndoStep, FinishFailsStep, UndoCrashStep
<1>5. ASSUME NEW c \in Holdings, Edit(c) PROVE UndoIInv' /\ UndoDone
  BY <1>5, EditStep
<1> QED
  BY <1>1, <1>2, <1>3, <1>4, <1>5 DEF UndoNext

\* A receipt says restored only of a file that was left as it was before its
\* write, an edit by someone else is overwritten only if it came after the
\* restoration had looked, and no receipt is spent twice.
THEOREM UndoCorrect == ASSUME UndoAssumption PROVE UndoSpec => UndoIsHonest
<1>1. UndoInit => UndoIInv
  BY UndoStart
<1>2. UndoIInv /\ [UndoNext]_undoVars => UndoIInv' /\ [UndoDone]_undoVars
  BY UndoStep
<1>3. UndoIInv => RestoredIsTrue
  BY DEF UndoIInv
<1>4. [UndoDone]_undoVars => [EditsSurvive /\ SpentOnce]_undoVars
  BY DEF UndoDone
<1> QED
  BY <1>1, <1>2, <1>3, <1>4, PTL DEF UndoSpec, UndoIsHonest
=============================================================================
