------------------------------ MODULE MCAnswers ------------------------------
(***************************************************************************)
(* Instances of what ends under strong fairness, for TLC.  A behaviour     *)
(* follows one of four parts that share no state: a message that clients   *)
(* repeat, the video queue, the pool of background jobs, and the lease of  *)
(* a claim.                                                                *)
(***************************************************************************)
EXTENDS ChatTurn, TLC

CONSTANTS h1, h2

VARIABLES
  part,
  queue, poller, upstream, sending, arrived, polls, queueFaults,
  own, restored, registry, remote, handler, first, second, poll, poolFaults,
  lRow, epoch, session, gate, beat, effects, commits, leaseFaults

OneTurn == [h \in {h1, h2} |-> CHOOSE t \in Turns : TRUE]

\* Two videos that are generated, two workers.
Queue == INSTANCE VideoQueue WITH
  QueueLength <- 2, Pollers <- {h1, h2}, Broken <- {}, MaxPolls <- 1,
  MaxQueueFaults <- 2

\* Two videos and one slot.
Pool == INSTANCE JobPool WITH
  Videos <- 1..2, MaxGlobal <- 1, MaxPoolFaults <- 2

\* Two claims of a row, finishes of one try.
Lease == INSTANCE ClaimLease WITH
  MaxClaims <- 2, MaxAttempts <- 2, Tries <- 1, MaxFaults <- 1,
  row <- lRow, faults <- leaseFaults

ASSUME Queue!QueueAssumption
ASSUME Lease!ClaimLeaseAssumption

queueVars == <<queue, poller, upstream, sending, arrived, polls, queueFaults>>
poolVars == <<own, restored, registry, remote, handler, first, second, poll,
              poolFaults>>
leaseVars == <<lRow, epoch, session, gate, beat, effects, commits, leaseFaults>>
partsVars == <<part, vars, queueVars, poolVars, leaseVars>>

PartsInit ==
  /\ part \in {"turn", "queue", "pool", "lease"}
  /\ Init /\ Queue!QueueInit /\ Pool!PoolInit /\ Lease!Init

InTurn(A) == part = "turn" /\ A /\ UNCHANGED <<part, queueVars, poolVars, leaseVars>>
InQueue(A) == part = "queue" /\ A /\ UNCHANGED <<part, vars, poolVars, leaseVars>>
InPool(A) == part = "pool" /\ A /\ UNCHANGED <<part, vars, queueVars, leaseVars>>
InLease(A) == part = "lease" /\ A /\ UNCHANGED <<part, vars, queueVars, poolVars>>

PartsNext ==
  \/ InTurn(Next) \/ InQueue(Queue!QueueNext) \/ InPool(Pool!PoolNext) \/ InLease(Lease!Next)

\* The fairness of each part's specification, where a behaviour follows it: an
\* action of one part and one of another are never enabled together, so that
\* fairness of their disjunction is fairness of both.  So is that of the two
\* waits of a lease's worker, each of which is over after a bounded number of
\* steps.
PartsFairness ==
  /\ \A h \in Handlers :
       /\ WF_partsVars(InTurn(Arrive(h)))
       /\ WF_partsVars(InTurn(Work(h)))
       /\ WF_partsVars(InTurn(Deadline(h)))
       /\ WF_partsVars(InTurn(Reached(h) \/ NotReached(h)))
       /\ WF_partsVars(InQueue(Queue!PollerFails(h) /\ ~ Queue!OwnsVideo(h)))
  /\ SF_partsVars(InTurn(AgentEnds(h1)) \/ InQueue(Queue!PollerWorks(h1)) \/ InPool(Pool!Lapse(1))
       \/ InLease(Lease!BeginFinish(1) \/ Lease!FinishTakesGate(1)))
  /\ SF_partsVars(InTurn(AgentEnds(h2)) \/ InQueue(Queue!PollerWorks(h2)) \/ InPool(Pool!Lapse(2))
       \/ InLease(Lease!BeginFinish(2) \/ Lease!FinishTakesGate(2)))
  /\ \A t \in Turns :
       WF_partsVars(InTurn(LapseOfGone(t))) /\ SF_partsVars(InTurn(Age(t)) \/ InLease(Lease!TakesGate(1)))
  /\ WF_partsVars(InTurn(RouteReturns))
  /\ \A v \in 1..2 :
       /\ WF_partsVars(InQueue(Queue!RecoverVideo(v)))
       /\ WF_partsVars(InQueue(Queue!VideoLands(v)))
       /\ WF_partsVars(InQueue(Queue!Generate(v)))
       /\ WF_partsVars(InQueue(Queue!CloseVideo(v)))
       /\ WF_partsVars(InPool(Pool!Create(v)))
       /\ WF_partsVars(InPool(Pool!PollReleases(v)))
  /\ SF_partsVars(InLease(Lease!TakesGate(2)))
  /\ \A c \in 1..2 :
       /\ WF_partsVars(InLease(Lease!Start(c)))
       /\ WF_partsVars(InLease(Lease!FencedWrite(c)))
       /\ WF_partsVars(InLease(Lease!FinishWrites(c)))
       /\ WF_partsVars(InLease(Lease!FinishConfirms(c)))
       /\ WF_partsVars(InLease(Lease!FinishCloses(c)))
       /\ WF_partsVars(InLease(Lease!Close(c)))
       /\ WF_partsVars(InLease(Lease!Wake(c)))
       /\ WF_partsVars(InLease(Lease!Pulse(c)))
  /\ WF_partsVars(InLease(Lease!Lapse))

PartsSpec == PartsInit /\ [][PartsNext]_partsVars /\ PartsFairness

\* A message that is repeated is answered in the end, with its result or with
\* the notice that it may have been paid for.
TurnsAreAnswered ==
  \A t \in Turns : []<>(part = "turn" => answers[t] # {})

\* Every video that can be generated ends, it is sent or an operator gives it
\* up, and the slots of a video that ended come back.
VideosEnd ==
  \A v \in 1..2 :
    /\ []<>(part = "queue" => Queue!VideoEnded(v))
    /\ []<>(part = "pool" => ~ Pool!HasSlotAfterwards(v))

\* A session ends, and no claim outlives the work on it.
LeasesEnd ==
  \A c \in 1..2 :
    /\ []<>(part = "lease" => Lease!SessionIsOver(c))
    /\ []<>(part = "lease" => ~ Lease!OutlivesWork(c))
=============================================================================
