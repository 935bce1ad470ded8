-------------------------------- MODULE MCEnds --------------------------------
(***************************************************************************)
(* Instances of what ends under weak fairness, for TLC.  A behaviour       *)
(* follows one of five parts that share no state: a run of a job, a run of *)
(* the failover, the admission of requests, and the two bridges.           *)
(***************************************************************************)
EXTENDS Failover, FeishuBridge, TLC

CONSTANT alice

\* One run of an operation after another; one model of two is remembered.
OneQuote == {[reserve |-> 2, capture |-> 1]}
WithBackup == <<"m", "backup">>

\* At Feishu, two messages of a chat.
TwoMessages == <<alice, alice>>

VARIABLES
  part,
  jobs, steps, jobHeadroom, stepHeadroom, tokens, grants, claims,
  pc, grant, claim, attempts, outcome, lost, beat, adrift,
  request, in_flight, global_in_flight, recent, old, today, request_count,
  served, gateFaults,
  wCursor, wInbox, wOutbox, video, wWorker, wTurn, outage, wLanded, media,
  mishaps, outages, prunes

\* One run of a job of two steps, each waiting for the one before, that may be
\* tried twice each.
Runner == INSTANCE JobRunner WITH
  Jobs <- {"job"}, Owners <- {"worker"}, NoOwner <- "nobody", NumSteps <- 2,
  Deps <- <<{}, {1}>>, Durations <- {2}, Lease <- 2, MaxAttempts <- 2,
  MaxText <- 0, JobRow <- 1,
  JobHeadroom <- 1, StepHeadroom <- 1, MaxPayload <- 10, MaxEpoch <- 2,
  MaxTokens <- 5

\* Three requests of two keys, two slots.
Gate == INSTANCE Admission WITH
  Requests <- 1..3, Keys <- 1..2, KeyOf <- <<1, 1, 2>>,
  PerKey <- 1, Global <- 2, Rolling <- 1, Daily <- 1, Days <- 0,
  MaxFaults <- 2, faults <- gateFaults

\* Two messages of a chat, the first starts a video; one worker.
Bridge == INSTANCE WeixinBridge WITH
  Chats <- {alice}, ChatOf <- <<alice, alice>>, Workers <- {"worker"},
  Chunks <- 1, Videos <- {1}, Pictures <- {}, VideoRoom <- 1,
  MaxFailures <- 2, MaxSends <- 2, MaxMishaps <- 2, Outages <- 0, Prunes <- 0,
  cursor <- wCursor, inbox <- wInbox, outbox <- wOutbox, worker <- wWorker,
  turn <- wTurn, landed <- wLanded

ASSUME Runner!LedgerAssumption /\ Runner!RunnerAssumption /\ Quota!CooldownsAssumption
ASSUME Gate!AdmissionAssumption
ASSUME Bridge!BridgeAssumption

runnerVars == <<jobs, steps, jobHeadroom, stepHeadroom, tokens, grants, claims,
                pc, grant, claim, attempts, outcome, lost, beat, adrift>>
gateVars == <<request, in_flight, global_in_flight, recent, old, today,
              request_count, served, gateFaults>>
bridgeVars == <<wCursor, wInbox, wOutbox, video, wWorker, wTurn, outage, wLanded,
                media, mishaps, outages, prunes>>

PartsInit ==
  /\ part \in {"runner", "attempts", "gate", "bridge", "feishu"}
  /\ Runner!RunnerInit /\ Init /\ Gate!AdmissionInit /\ Bridge!BridgeInit /\ FeishuInit

PartsNext ==
  \/ part = "runner" /\ Runner!RunnerNext
     /\ UNCHANGED <<part, vars, gateVars, bridgeVars, feishuVars>>
  \/ part = "attempts" /\ Next
     /\ UNCHANGED <<part, runnerVars, gateVars, bridgeVars, feishuVars>>
  \/ part = "gate" /\ Gate!AdmissionNext
     /\ UNCHANGED <<part, runnerVars, vars, bridgeVars, feishuVars>>
  \/ part = "bridge" /\ Bridge!BridgeNext
     /\ UNCHANGED <<part, runnerVars, vars, gateVars, feishuVars>>
  \/ part = "feishu" /\ FeishuNext
     /\ UNCHANGED <<part, runnerVars, vars, gateVars, bridgeVars>>

\* The fairness of each part's specification, where a behaviour follows it.
PartsFairness ==
  /\ WF_runnerVars(part = "runner" /\ Runner!TimePasses)
  /\ WF_runnerVars(part = "runner" /\ Runner!Work("worker"))
  /\ WF_vars(part = "attempts" /\ Step("run"))
  /\ \A c \in AttemptCalls : WF_vars(part = "attempts" /\ Age(c))
  /\ WF_vars(part = "attempts" /\ Reopen)
  /\ \A r \in 1..3 :
       /\ WF_gateVars(part = "gate" /\ Gate!Acquire(r))
       /\ WF_gateVars(part = "gate" /\ Gate!Consume(r))
       /\ WF_gateVars(part = "gate" /\ Gate!Decide(r))
       /\ WF_gateVars(part = "gate" /\ Gate!Serve(r))
  /\ WF_bridgeVars(part = "bridge" /\ Bridge!Receive)
  /\ WF_bridgeVars(part = "bridge" /\ Bridge!Maintain)
  /\ WF_bridgeVars(part = "bridge" /\ Bridge!FindModels)
  /\ WF_bridgeVars(part = "bridge" /\ \E m \in Bridge!Msgs : Bridge!EndVideo(m))
  /\ WF_bridgeVars(part = "bridge" /\ \E r \in Bridge!Rows : Bridge!Drain(r))
  /\ WF_bridgeVars(part = "bridge" /\ Bridge!CloseWithoutReplay(alice))
  /\ WF_bridgeVars(part = "bridge" /\ Bridge!Thread("worker"))
  /\ WF_feishuVars(part = "feishu" /\ Receive)
  /\ WF_feishuVars(part = "feishu" /\ \E m \in Msgs : RecoverInbound(m))
  /\ WF_feishuVars(part = "feishu" /\ \E r \in Rows : Drain(r))
  /\ WF_feishuVars(part = "feishu" /\ CloseWithoutReplay(alice))
  /\ WF_feishuVars(part = "feishu" /\ Thread("worker"))

PartsSpec ==
  /\ PartsInit
  /\ [][PartsNext]_<<part, runnerVars, vars, gateVars, bridgeVars, feishuVars>>
  /\ PartsFairness

\* Every run of a job or of an operation ends, however its executors and its
\* providers fail: it is over again and again.
EveryRunEnds ==
  []<>(/\ part = "runner" => Runner!RunsAreOver
       /\ part = "attempts" => At("run", "idle"))

\* What a run that is over still holds of a job runs out, no budget is held for
\* ever by a call whose process died or whose closing was lost, and all slots of
\* the gate come back once the requests are over.
NothingIsHeldForever ==
  /\ []<>(part = "runner" => ~ Runner!HoldsAfterwards)
  /\ \A c \in AttemptCalls : []<>(part = "attempts" => ~ Holds(c))
  /\ []<>(part = "gate" => Gate!NothingInFlight)

\* The messages there are come to their end, and the outbox is empty again and
\* again.
BridgesComeToRest ==
  /\ []<>(part = "bridge" => Bridge!InboxAtRest)
  /\ []<>(part = "bridge" => Bridge!OutboxAtRest)
  /\ []<>(part = "feishu" => InboxAtRest)
  /\ []<>(part = "feishu" => OutboxAtRest)
=============================================================================
