------------------------------ MODULE ChatTurn ------------------------------
(***************************************************************************)
(* A message of a channel answered by the gateway: the handler of          *)
(* /v1/agent/chat (gateway/app.py) over the replay ledger (TurnRequests),  *)
(* the receipts of turns (TurnReceipts) and the question the ledger of     *)
(* provider calls answers of a turn.                                       *)
(*                                                                         *)
(* A handler is a coroutine; each of its steps is one call of a store, or  *)
(* of the agent, and what it knows is what the calls answered.  Clients    *)
(* repeat a message for ever.  All that may go wrong without a reason in   *)
(* the state (a crash, a cancellation, a store that fails, a deadline, a   *)
(* lease that runs out under a handler that lives) is counted in faults    *)
(* and bounded by MaxFaults.                                               *)
(***************************************************************************)
EXTENDS Integers, FiniteSets, FiniteSetsExt

CONSTANTS
  Turns,
  Models,     \* what an omitted model may resolve to; part of the digest
  Handlers,
  TurnOf,     \* the turn whose message a handler serves
  None,
  Required,   \* the ledger of provider calls is required
  MaxRecords, MaxResponses, MaxReceipts,
  MaxFaults

Responses == {"result", "notice"}

VARIABLES
  rows,                   \* the replay ledger
  receipts, reservations, \* the store of conversations
  route,                  \* the chat model that is ready, or None
  handlers,
  agents,                 \* the agent's task of each handler
  spent,                  \* turns with a call not proven unsent
  contacts,               \* how many agents reached a provider for a turn
  answers,                \* what clients were told of a turn
  aged,                   \* turns that were quiet for more than thirty days
  faults

vars == <<rows, receipts, reservations, route, handlers, agents, spent,
          contacts, answers, aged, faults>>

Ledger == INSTANCE TurnRequests WITH Requests <- Models, Owners <- Handlers
Store == INSTANCE TurnReceipts WITH Requests <- Models

ASSUME ChatTurnAssumption ==
  /\ TurnOf \in [Handlers -> Turns]
  /\ Required \in BOOLEAN
  /\ MaxFaults \in Nat
  /\ Ledger!TurnRequestsAssumption /\ Store!TurnReceiptsAssumption

stores == <<rows, receipts, reservations>>
history == <<contacts, answers, aged>>
world == <<route, agents, spent, history, faults>>

Before == {"claim", "lookup", "replay", "preflight", "reserve", "fence",
           "notice", "notice_succeed"}
Guarded == {"renew", "enter_turn", "enter_row", "start", "run", "renew_again",
            "commit", "succeed"}
Cleanup == {"abandon", "fail"}

Handler == [pc: Before \cup Guarded \cup Cleanup \cup {"idle", "end"},
            model: Models \cup {None},
            recovery: BOOLEAN, \* recovery_required
            reserved: BOOLEAN, \* the reservation is known to be only reserved
            lost: BOOLEAN,     \* the exception leaves the claim alone
            response: Responses \cup {None, "conflict", "outage"}]
IdleHandler == [pc |-> "idle", model |-> None, recovery |-> FALSE,
                reserved |-> FALSE, lost |-> FALSE, response |-> None]

Agent == [state: {"none", "running", "calling", "done", "failed"},
          contacted: BOOLEAN]
NoAgent == [state |-> "none", contacted |-> FALSE]

Init ==
  /\ Ledger!Init
  /\ Store!Init
  /\ route \in Models
  /\ handlers = [h \in Handlers |-> IdleHandler]
  /\ agents = [h \in Handlers |-> NoAgent]
  /\ spent = {}
  /\ contacts = [t \in Turns |-> 0]
  /\ answers = [t \in Turns |-> {}]
  /\ aged = {}
  /\ faults = 0

-----------------------------------------------------------------------------
(* How a handler goes on.                                                  *)

T(h) == TurnOf[h]
M(h) == handlers[h].model
At(h, pc) == handlers[h].pc = pc
Set(h, handler) == handlers' = [handlers EXCEPT ![h] = handler]
To(h, pc) == Set(h, [handlers[h] EXCEPT !.pc = pc])

Gone(response) == [IdleHandler EXCEPT !.pc = "end", !.response = response]

\* The answer of the handler; None is an error the client may retry.
End(h, response) ==
  /\ Set(h, Gone(response))
  /\ answers' = IF response \in Responses
                THEN [answers EXCEPT ![T(h)] = @ \cup {<<M(h), response>>}]
                ELSE answers

\* Where an exception leads inside the handler's try: a reservation that is
\* not known to be entered is given up, a claim is failed unless the handler
\* was cancelled or lost its lease.
Thrown(h, lost) ==
  IF handlers[h].reserved THEN [handlers[h] EXCEPT !.lost = lost, !.pc = "abandon"]
  ELSE IF lost THEN Gone(None)
  ELSE [handlers[h] EXCEPT !.pc = "fail"]
Throw(h, lost) == Set(h, Thrown(h, lost))

-----------------------------------------------------------------------------
(* Up to the reservation.                                                  *)

\* The model is resolved before the ledger is asked, replay or not.
Arrive(h) ==
  /\ At(h, "idle") /\ agents[h] = NoAgent
  /\ IF route = None THEN Set(h, Gone("outage"))
     ELSE Set(h, [IdleHandler EXCEPT !.pc = "claim", !.model = route])
  /\ UNCHANGED <<stores, world>>

Leave(h) ==
  /\ At(h, "end")
  /\ Set(h, IdleHandler)
  /\ UNCHANGED <<stores, world>>

Claim(h) ==
  /\ At(h, "claim")
  /\ \E outcome \in {"claimed", "recovery_required", "full", "conflict",
                     "processing", "succeeded"} :
       /\ Ledger!Claim(T(h), M(h), h, outcome)
       /\ CASE outcome \in {"claimed", "recovery_required"} ->
                 /\ Set(h, [handlers[h] EXCEPT !.pc = "lookup",
                              !.recovery = (outcome = "recovery_required")])
                 /\ UNCHANGED answers
            [] outcome = "succeeded" -> End(h, rows[T(h)].response)
            [] outcome = "conflict" -> End(h, "conflict")
            [] OTHER -> End(h, None)
  /\ UNCHANGED <<receipts, reservations, route, agents, spent, contacts, aged, faults>>

\* A receipt that is there is the answer; no claim is given back here.
Lookup(h) ==
  /\ At(h, "lookup")
  /\ CASE Store!Lookup(T(h), M(h)) = "conflict" -> End(h, "conflict")
       [] Store!Lookup(T(h), M(h)) = "committed" ->
            /\ Set(h, [handlers[h] EXCEPT !.pc = "replay",
                         !.response = receipts[T(h)].response])
            /\ UNCHANGED answers
       [] OTHER -> To(h, IF handlers[h].recovery \/ ~ Required
                         THEN "reserve" ELSE "preflight") /\ UNCHANGED answers
  /\ UNCHANGED <<stores, route, agents, spent, contacts, aged, faults>>

\* The receipt is put into the replay ledger.
Replay(h) ==
  /\ At(h, "replay")
  /\ \E done \in BOOLEAN :
       /\ Ledger!Succeed(T(h), M(h), h, handlers[h].response, done)
       /\ End(h, IF done THEN handlers[h].response ELSE None)
  /\ UNCHANGED <<receipts, reservations, route, agents, spent, contacts, aged, faults>>

\* turn_requires_operator_recovery
NeedsOperator(t) ==
  \/ t \in spent
  \/ \E h \in Handlers : TurnOf[h] = t /\ agents[h].state = "calling"

Preflight(h) ==
  /\ At(h, "preflight")
  /\ Set(h, [handlers[h] EXCEPT !.pc = "reserve", !.recovery = NeedsOperator(T(h))])
  /\ UNCHANGED <<stores, world>>

AfterReserve(h, outcome) ==
  CASE outcome = "committed" ->
         [handlers[h] EXCEPT !.pc = "replay", !.response = receipts[T(h)].response]
    [] outcome = "provider_started" ->
         [handlers[h] EXCEPT !.pc = "notice", !.recovery = TRUE]
    [] outcome = "reserved" ->
         [handlers[h] EXCEPT !.reserved = ~ handlers[h].recovery,
            !.pc = IF handlers[h].recovery THEN "fence" ELSE "renew"]
    [] OTHER -> [handlers[h] EXCEPT !.pc = "fail"]

Reserve(h) ==
  /\ At(h, "reserve")
  /\ \E outcome \in {"reserved", "provider_started", "committed", "conflict",
                     "unavailable"} :
       /\ Store!Reserve(T(h), M(h), outcome)
       /\ Set(h, AfterReserve(h, outcome))
  /\ UNCHANGED <<rows, world>>

-----------------------------------------------------------------------------
(* A turn that may have reached a provider: the notice becomes its answer. *)

Fence(h) ==
  /\ At(h, "fence")
  /\ \E outcome \in {"provider_started", "committed", "conflict", "unavailable"} :
       /\ Store!EnterTurn(T(h), M(h), outcome)
       /\ IF outcome = "provider_started" THEN To(h, "notice") /\ UNCHANGED answers
          ELSE End(h, None)
  /\ UNCHANGED <<rows, route, agents, spent, contacts, aged, faults>>

\* Faulty: the notice is the answer even when another receipt stands.
NoticeOwn(h) ==
  /\ At(h, "notice")
  /\ \E outcome \in Responses \cup {None} :
       /\ Store!Commit(T(h), M(h), "notice", outcome)
       /\ Set(h, [handlers[h] EXCEPT !.response = "notice",
                    !.pc = IF outcome = None THEN "fail" ELSE "notice_succeed"])
  /\ UNCHANGED <<rows, world>>

Notice(h) ==
  /\ At(h, "notice")
  /\ \E outcome \in Responses \cup {None} :
       /\ Store!Commit(T(h), M(h), "notice", outcome)
       /\ Set(h, [handlers[h] EXCEPT !.response = outcome,
                    !.pc = IF outcome = None THEN "fail" ELSE "notice_succeed"])
  /\ UNCHANGED <<rows, world>>

NoticeSucceed(h) ==
  /\ At(h, "notice_succeed")
  /\ \E done \in BOOLEAN :
       /\ Ledger!Succeed(T(h), M(h), h, handlers[h].response, done)
       /\ End(h, IF done THEN handlers[h].response ELSE None)
  /\ UNCHANGED <<receipts, reservations, route, agents, spent, contacts, aged, faults>>

-----------------------------------------------------------------------------
(* The turn itself.                                                        *)

Renew(h) ==
  /\ At(h, "renew") \/ At(h, "renew_again")
  /\ \E done \in BOOLEAN :
       /\ Ledger!Renew(T(h), M(h), h, done)
       /\ IF done THEN To(h, IF At(h, "renew") THEN "enter_turn" ELSE "commit")
          ELSE Throw(h, TRUE)
  /\ UNCHANGED <<receipts, reservations, world>>

\* Another owner may have entered the same turn: that is found out next.
EnterTurn(h) ==
  /\ At(h, "enter_turn")
  /\ \E outcome \in {"provider_started", "committed", "conflict", "unavailable"} :
       /\ Store!EnterTurn(T(h), M(h), outcome)
       /\ CASE outcome = "provider_started" ->
                 Set(h, [handlers[h] EXCEPT !.reserved = FALSE, !.pc = "enter_row"])
            [] outcome = "committed" -> Set(h, Gone(None))
            [] OTHER -> Throw(h, TRUE)
  /\ UNCHANGED <<rows, world>>

\* Faulty: the row's fence is not asked before the agent runs.
EnterRowUnasked(h) ==
  /\ At(h, "enter_row")
  /\ To(h, "start")
  /\ UNCHANGED <<stores, world>>

EnterRow(h) ==
  /\ At(h, "enter_row")
  /\ \E done \in BOOLEAN :
       /\ Ledger!Enter(T(h), M(h), h, done)
       /\ To(h, IF done THEN "start" ELSE "fail")
  /\ UNCHANGED <<receipts, reservations, world>>

StartAgent(h) ==
  /\ At(h, "start")
  /\ agents' = [agents EXCEPT ![h] = [state |-> "running", contacted |-> FALSE]]
  /\ To(h, "run")
  /\ UNCHANGED <<stores, route, spent, history, faults>>

\* The agent's task ended and the lease still holds.
SeeResult(h) ==
  /\ At(h, "run")
  /\ agents[h].state \in {"done", "failed"}
  /\ agents' = [agents EXCEPT ![h] = NoAgent]
  /\ IF agents[h].state = "done" THEN To(h, "renew_again") ELSE Throw(h, FALSE)
  /\ UNCHANGED <<stores, route, spent, history, faults>>

\* A cancelled task ends, or is left running when it does not heed; the call it
\* is in is not proven unsent.
CancelAgent(h, heeds) ==
  /\ heeds \/ agents[h].state \in {"running", "calling"}
  /\ agents' = IF heeds THEN [agents EXCEPT ![h] = NoAgent] ELSE agents
  /\ spent' = IF heeds /\ agents[h].state = "calling" THEN spent \cup {T(h)} ELSE spent

\* The heartbeat finds the claim taken or its lease gone.
LoseLease(h) ==
  /\ At(h, "run") /\ ~ Ledger!Owns(T(h), M(h), h)
  /\ \E heeds \in BOOLEAN : CancelAgent(h, heeds)
  /\ Throw(h, TRUE)
  /\ UNCHANGED <<stores, route, history, faults>>

Commit(h) ==
  /\ At(h, "commit")
  /\ \E outcome \in Responses \cup {None} :
       /\ Store!Commit(T(h), M(h), "result", outcome)
       /\ IF outcome = None THEN Throw(h, FALSE)
          ELSE Set(h, [handlers[h] EXCEPT !.response = outcome, !.pc = "succeed"])
  /\ UNCHANGED <<rows, world>>

Succeed(h) ==
  /\ At(h, "succeed")
  /\ \E done \in BOOLEAN :
       /\ Ledger!Succeed(T(h), M(h), h, handlers[h].response, done)
       /\ End(h, IF done THEN handlers[h].response ELSE None)
  /\ UNCHANGED <<receipts, reservations, route, agents, spent, contacts, aged, faults>>

-----------------------------------------------------------------------------
(* The exits.                                                              *)

\* The reservation carries no token: it may be a later owner's by now.
Abandon(h) ==
  /\ At(h, "abandon")
  /\ IF Store!State(T(h)) = "reserved" /\ ~ Store!Conflicts(T(h), M(h))
     THEN Store!Abandon(T(h), M(h))
     ELSE UNCHANGED <<receipts, reservations>>
  /\ Set(h, IF handlers[h].lost \/ Store!Conflicts(T(h), M(h)) THEN Gone(None)
            ELSE [handlers[h] EXCEPT !.pc = "fail"])
  /\ UNCHANGED <<rows, world>>

Fail(h) ==
  /\ At(h, "fail")
  /\ \E done \in BOOLEAN : Ledger!Fail(T(h), M(h), h, done)
  /\ End(h, None)
  /\ UNCHANGED <<receipts, reservations, route, agents, spent, contacts, aged, faults>>

-----------------------------------------------------------------------------
(* The agent: it may place calls, one after the other.                     *)

AgentCalls(h) ==
  /\ agents[h].state = "running"
  /\ agents' = [agents EXCEPT ![h].state = "calling"]
  /\ UNCHANGED <<stores, route, handlers, spent, history, faults>>

Reached(h) ==
  /\ agents[h].state = "calling"
  /\ agents' = [agents EXCEPT ![h] = [state |-> "running", contacted |-> TRUE]]
  /\ spent' = spent \cup {T(h)}
  /\ contacts' = IF agents[h].contacted THEN contacts
                 ELSE [contacts EXCEPT ![T(h)] = Ledger!Least(@ + 1, 2)]
  /\ UNCHANGED <<stores, route, handlers, answers, aged, faults>>

\* The connection was never made, and the ledger has it so.
NotReached(h) ==
  /\ agents[h].state = "calling"
  /\ agents' = [agents EXCEPT ![h].state = "running"]
  /\ UNCHANGED <<stores, route, handlers, spent, history, faults>>

\* A task whose handler is gone ends for nobody.
AgentEnds(h) ==
  /\ agents[h].state = "running"
  /\ \E state \in {"done", "failed"} :
       agents' = [agents EXCEPT ![h] = IF At(h, "run") THEN [@ EXCEPT !.state = state]
                                       ELSE NoAgent]
  /\ UNCHANGED <<stores, route, handlers, spent, history, faults>>

-----------------------------------------------------------------------------
(* What may happen at any time.                                            *)

Hurt == faults < MaxFaults /\ faults' = faults + 1

\* The store a step asks is unavailable, or refuses what it is given.
Where(h) ==
  CASE handlers[h].pc \in {"claim", "lookup", "replay", "fence"} ->
         Gone(None)
    [] handlers[h].pc \in {"preflight", "reserve", "notice", "notice_succeed"} ->
         [handlers[h] EXCEPT !.pc = "fail"]
    [] handlers[h].pc \in {"renew", "enter_turn", "enter_row", "renew_again"} ->
         Thrown(h, TRUE)
    [] handlers[h].pc \in {"commit", "succeed"} -> Thrown(h, FALSE)
    [] OTHER -> Gone(None)

StoreFails(h) ==
  /\ Hurt
  /\ handlers[h].pc \in (Before \cup Guarded \cup Cleanup) \ {"start", "run"}
  /\ Set(h, Where(h))
  /\ UNCHANGED <<stores, route, agents, spent, history>>

\* The request is cancelled, or its heartbeat fails.
Cancel(h) ==
  /\ Hurt
  /\ IF handlers[h].pc \in Guarded THEN Throw(h, TRUE)
     ELSE handlers[h].pc \in Before \cup Cleanup /\ Set(h, Gone(None))
  /\ IF At(h, "run") THEN \E heeds \in BOOLEAN : CancelAgent(h, heeds)
     ELSE UNCHANGED <<agents, spent>>
  /\ UNCHANGED <<stores, route, history>>

\* The turn's deadline passed before the agent is begun.
Late(h) ==
  /\ Hurt
  /\ handlers[h].pc \in {"renew", "enter_turn", "start"}
  /\ Throw(h, FALSE)
  /\ UNCHANGED <<stores, route, agents, spent, history>>

\* The deadline passes over a running agent; a task that does not heed its
\* cancellation keeps the claim until the lease is over.
Deadline(h) ==
  /\ At(h, "run")
  /\ \E heeds \in BOOLEAN : CancelAgent(h, heeds) /\ Throw(h, ~ heeds)
  /\ UNCHANGED <<stores, route, history, faults>>

\* The process dies and comes back.
Crash ==
  /\ Hurt
  /\ handlers' = [h \in Handlers |-> IdleHandler]
  /\ spent' = spent \cup {TurnOf[h] : h \in {g \in Handlers : agents[g].state = "calling"}}
  /\ agents' = [h \in Handlers |-> NoAgent]
  /\ UNCHANGED <<stores, route, history>>

\* A handler that has not claimed yet is not the owner of an earlier claim.
Owner(t, h) == rows[t].token = h /\ handlers[h].pc \notin {"idle", "end", "claim"}

\* A lease runs out because its owner is gone, or stalls.
LapseOfGone(t) ==
  /\ \A h \in Handlers : ~ Owner(t, h)
  /\ Ledger!Lapse(t)
  /\ UNCHANGED <<receipts, reservations, handlers, world>>

LapseOfStalled(t) ==
  /\ Hurt
  /\ \E h \in Handlers : Owner(t, h)
  /\ Ledger!Lapse(t)
  /\ UNCHANGED <<receipts, reservations, handlers, route, agents, spent, history>>

\* Handlers live for seconds: nothing of a turn is at work when it ages.
Quiet(t) ==
  /\ Store!Committed(t) \/ rows[t].status # "none"
  /\ \A h \in Handlers : TurnOf[h] = t =>
       handlers[h].pc \in {"idle", "end"} /\ agents[h] = NoAgent

Age(t) ==
  /\ Quiet(t)
  /\ Ledger!AgeRow(t) /\ Store!AgeReceipt(t)
  /\ aged' = aged \cup {t}
  /\ UNCHANGED <<route, handlers, agents, spent, contacts, answers, faults>>

\* The table of verified routes changes.
RouteChanges ==
  /\ Hurt
  /\ route' \in (Models \cup {None}) \ {route}
  /\ UNCHANGED <<stores, handlers, agents, spent, history>>

RouteReturns ==
  /\ route = None /\ route' \in Models
  /\ UNCHANGED <<stores, handlers, agents, spent, history, faults>>

-----------------------------------------------------------------------------

Work(h) ==
  \/ Leave(h) \/ Claim(h) \/ Lookup(h) \/ Replay(h) \/ Preflight(h)
  \/ Reserve(h) \/ Fence(h) \/ Notice(h) \/ NoticeSucceed(h)
  \/ Renew(h) \/ EnterTurn(h) \/ EnterRow(h) \/ StartAgent(h) \/ SeeResult(h)
  \/ LoseLease(h) \/ Commit(h) \/ Succeed(h) \/ Abandon(h) \/ Fail(h)

Next ==
  \/ \E h \in Handlers :
       \/ Arrive(h) \/ Work(h)
       \/ AgentCalls(h) \/ Reached(h) \/ NotReached(h) \/ AgentEnds(h)
       \/ StoreFails(h) \/ Cancel(h) \/ Late(h) \/ Deadline(h)
  \/ Crash \/ RouteChanges \/ RouteReturns
  \/ \E t \in Turns : LapseOfGone(t) \/ LapseOfStalled(t) \/ Age(t)

Spec == Init /\ [][Next]_vars

\* Clients repeat their message; handlers run; the deadline of an agent passes,
\* calls time out and the tasks that make them end; the lease of an owner that
\* is gone runs out; quiet turns age; a model is made ready again.
FairSpec ==
  /\ Spec
  /\ \A h \in Handlers :
       /\ WF_vars(Arrive(h)) /\ WF_vars(Work(h)) /\ WF_vars(Deadline(h))
       /\ WF_vars(Reached(h) \/ NotReached(h)) /\ SF_vars(AgentEnds(h))
  /\ \A t \in Turns : WF_vars(LapseOfGone(t)) /\ SF_vars(Age(t))
  /\ WF_vars(RouteReturns)

-----------------------------------------------------------------------------
(* Properties.                                                             *)

TypeOK ==
  /\ rows \in [Turns -> Ledger!Row]
  /\ \A t \in Turns : rows[t].status = "succeeded" <=> rows[t].response # None
  /\ receipts \in [Turns -> Store!Receipt]
  /\ reservations \in [Turns -> Store!Reservation]
  /\ route \in Models \cup {None}
  /\ handlers \in [Handlers -> Handler]
  /\ agents \in [Handlers -> Agent]
  /\ spent \in SUBSET Turns
  /\ contacts \in [Turns -> 0..2]
  /\ answers \in [Turns -> SUBSET (Models \X Responses)]
  /\ aged \in SUBSET Turns
  /\ faults \in 0..MaxFaults

\* However often a message is repeated and whoever dies, stalls or loses its
\* row to the capacity prune, one agent at most reaches a provider for it; with
\* a required ledger of calls even after the receipts have aged.
ExecutedOnce ==
  \A t \in Turns : contacts[t] <= 1 \/ (~ Required /\ t \in aged)

\* Within the time a receipt is protected all clients that are answered hear
\* the same, and it is what the receipt says.
OneAnswer ==
  \A t \in Turns \ aged : \A a, b \in answers[t] :
    /\ a = b
    /\ Store!Committed(t) => a = <<receipts[t].request, receipts[t].response>>

\* The two databases never tell different stories of a turn.
LedgersAgree ==
  \A t \in Turns \ aged : rows[t].status = "succeeded" /\ Store!Committed(t) =>
    rows[t].request = receipts[t].request /\ rows[t].response = receipts[t].response

\* An agent never runs for a turn that another request could still begin: its
\* reservation says so, and keeps the room its receipt will need.
FencedBeforeProvider ==
  /\ \A h \in Handlers : agents[h].state # "none" =>
       Store!State(T(h)) \in {"provider_started", "committed"}
  /\ Cardinality(Store!Occupied(receipts, reservations)) <= MaxReceipts
  /\ \A t \in Turns : Store!Committed(t) => reservations[t] = Store!NoReservation

\* Both: a turn is fenced before it is run, and so it is run once.
TurnRunsOnce == ExecutedOnce /\ FencedBeforeProvider

\* Clients that are answered hear the same, it is what the receipt says, and
\* the two databases tell the same story.
ToldTheSame == OneAnswer /\ LedgersAgree

\* The receipts keep the promise of a turn.
Promise == INSTANCE TurnPromise WITH
  Requests <- Models,
  bound <- [t \in Turns |-> Store!Bound(t)],
  response <- [t \in Turns |-> receipts[t].response],
  expired <- {t \in Turns : receipts[t].old}
KeepsPromise == Promise!Spec

\* A message that is repeated is answered in the end, with its result or with
\* the notice that it may have been paid for.
TurnIsAnswered == \A t \in Turns : []<>(answers[t] # {})
=============================================================================
