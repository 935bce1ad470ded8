------------------------------ MODULE Admission ------------------------------
(***************************************************************************)
(* The admission gate of expensive requests (gateway/admission.py): slots  *)
(* in flight, a rolling window of sixty seconds, and a count per key and   *)
(* day in SQLite, which a thread consumes while its request may be         *)
(* cancelled.                                                              *)
(*                                                                         *)
(* The gate's own steps run on the event loop and never wait inside its    *)
(* lock.  Requests that are not expensive, or whose key is unknown, are    *)
(* passed on uncounted and left out.                                       *)
(***************************************************************************)
EXTENDS FiniteSets, FiniteSetsExt, Integers

CONSTANTS
  Requests, Keys,
  KeyOf,          \* the key of each request
  PerKey, Global, \* slots
  Rolling,        \* requests of a key in sixty seconds
  Daily,          \* requests of a key in a day
  Days,           \* bound on midnights
  MaxFaults       \* bound on cancellations, errors and crashes

ASSUME AdmissionAssumption ==
  /\ KeyOf \in [Requests -> Keys]
  /\ {PerKey, Global, Rolling, Daily} \subseteq Nat \ {0} /\ PerKey <= Global
  /\ {Days, MaxFaults} \subseteq Nat

VARIABLES
  request,
  in_flight,         \* by key
  global_in_flight,
  recent,            \* the events of a key's window
  old,               \* the events that are older than the window
  today,
  request_count,     \* by key and day
  served,            \* history: the day a request was passed on, or -1
  faults

gate == <<in_flight, global_in_flight, recent>>
vars == <<request, gate, old, today, request_count, served, faults>>

AllDays == 0..Days
Request == [pc: {"new", "charging", "serving", "over"},
            day: AllDays,                                \* for which it is charged
            thread: {"none", "running", "yes", "no", "error"}]

AdmissionInit ==
  /\ request = [r \in Requests |-> [pc |-> "new", day |-> 0, thread |-> "none"]]
  /\ in_flight = [k \in Keys |-> 0] /\ global_in_flight = 0
  /\ recent = [k \in Keys |-> {}] /\ old = {}
  /\ today = 0 /\ request_count = [k \in Keys |-> [d \in AllDays |-> 0]]
  /\ served = [r \in Requests |-> -1]
  /\ faults = 0

Hurt == faults < MaxFaults /\ faults' = faults + 1
To(r, pc) == request' = [request EXCEPT ![r].pc = pc]

-----------------------------------------------------------------------------
(* The slots.                                                              *)

\* Faulty: what left the window still counts.
WindowAll(k) == recent[k]

\* Events that left the window are dropped when the gate looks at a key.
Window(k) == recent[k] \ old

\* _acquire_local.
Acquire(r) ==
  /\ request[r].pc = "new"
  /\ LET k == KeyOf[r] IN
     IF \/ global_in_flight >= Global \/ in_flight[k] >= PerKey
        \/ Cardinality(Window(k)) >= Rolling
     THEN /\ To(r, "over")
          /\ recent' = [recent EXCEPT ![k] = IF global_in_flight >= Global THEN @ ELSE Window(k)]
          /\ UNCHANGED <<in_flight, global_in_flight>>
     ELSE /\ request' = [request EXCEPT ![r] = [pc |-> "charging", day |-> today,
                                                thread |-> "running"]]
          /\ in_flight' = [in_flight EXCEPT ![k] = @ + 1]
          /\ global_in_flight' = global_in_flight + 1
          /\ recent' = [recent EXCEPT ![k] = Window(k) \cup {r}]
  /\ UNCHANGED <<old, today, request_count, served, faults>>

\* Faulty: the slot of all keys is forgotten on the way of a roll-back.
ReleaseKeyOnly(r, rollback) ==
  LET k == KeyOf[r] IN
  /\ in_flight' = [in_flight EXCEPT ![k] = Max({0, @ - 1})]
  /\ global_in_flight' = IF rollback THEN global_in_flight ELSE Max({0, global_in_flight - 1})
  /\ recent' = [recent EXCEPT ![k] = Window(k) \ (IF rollback THEN {r} ELSE {})]

\* _release_local.
Release(r, rollback) ==
  LET k == KeyOf[r] IN
  /\ in_flight' = [in_flight EXCEPT ![k] = Max({0, @ - 1})]
  /\ global_in_flight' = Max({0, global_in_flight - 1})
  /\ recent' = [recent EXCEPT ![k] = Window(k) \ (IF rollback THEN {r} ELSE {})]

-----------------------------------------------------------------------------
(* The count of the day.                                                   *)

\* try_consume, in a thread that nobody stops: one transaction.
Consume(r) ==
  /\ request[r].thread = "running"
  /\ LET k == KeyOf[r]
         d == request[r].day IN
     IF request_count[k][d] >= Daily
     THEN request' = [request EXCEPT ![r].thread = "no"] /\ UNCHANGED request_count
     ELSE request' = [request EXCEPT ![r].thread = "yes"]
          /\ request_count' = [request_count EXCEPT ![k][d] = @ + 1]
  /\ UNCHANGED <<gate, old, today, served, faults>>

\* The database refuses; the commit may have reached it, or not.
ConsumeFails(r) ==
  /\ request[r].thread = "running" /\ Hurt
  /\ request' = [request EXCEPT ![r].thread = "error"]
  /\ LET k == KeyOf[r]
         d == request[r].day
         one == IF request_count[k][d] < Daily THEN 1 ELSE 0 IN
     \E n \in {0, one} : request_count' = [request_count EXCEPT ![k][d] = @ + n]
  /\ UNCHANGED <<gate, old, today, served>>

\* What the gate does with the answer; it is closed when there is none.
Decide(r) ==
  /\ request[r].pc = "charging"
  /\ \/ /\ request[r].thread = "yes"
        /\ To(r, "serving") /\ served' = [served EXCEPT ![r] = request[r].day]
        /\ UNCHANGED gate
     \/ /\ request[r].thread \in {"no", "error"}
        /\ To(r, "over") /\ Release(r, TRUE)
        /\ UNCHANGED served
  /\ UNCHANGED <<old, today, request_count, faults>>

\* The client goes away while the thread counts: the count is not undone.
CancelCharge(r) ==
  /\ request[r].pc = "charging" /\ Hurt
  /\ To(r, "over") /\ Release(r, TRUE)
  /\ UNCHANGED <<old, today, request_count, served>>

\* The response ends, fails or is cancelled.
Serve(r) ==
  /\ request[r].pc = "serving"
  /\ To(r, "over") /\ Release(r, FALSE)
  /\ UNCHANGED <<old, today, request_count, served, faults>>

-----------------------------------------------------------------------------
WindowPasses(r) ==
  /\ r \in recent[KeyOf[r]] \ old
  /\ old' = old \cup {r}
  /\ UNCHANGED <<request, gate, today, request_count, served, faults>>

Midnight ==
  /\ today < Days /\ today' = today + 1
  /\ UNCHANGED <<request, gate, old, request_count, served, faults>>

\* The process dies: the slots and the window are gone, the count is not.
Crash ==
  /\ Hurt
  /\ request' = [r \in Requests |->
                   IF request[r].pc \in {"charging", "serving"}
                   THEN [request[r] EXCEPT !.pc = "over", !.thread = "none"] ELSE request[r]]
  /\ in_flight' = [k \in Keys |-> 0] /\ global_in_flight' = 0
  /\ recent' = [k \in Keys |-> {}]
  /\ UNCHANGED <<old, today, request_count, served>>

AdmissionNext ==
  \/ Midnight \/ Crash
  \/ \E r \in Requests :
       Acquire(r) \/ Consume(r) \/ ConsumeFails(r) \/ Decide(r) \/ CancelCharge(r)
         \/ Serve(r) \/ WindowPasses(r)

AdmissionSpec == AdmissionInit /\ [][AdmissionNext]_vars

\* Threads and handlers run, and responses end.
FairSpec ==
  AdmissionSpec /\ \A r \in Requests : WF_vars(Acquire(r)) /\ WF_vars(Consume(r)) /\ WF_vars(Decide(r))
                              /\ WF_vars(Serve(r))

-----------------------------------------------------------------------------
(* Properties.                                                             *)

AdmissionTypeOK ==
  /\ request \in [Requests -> Request]
  /\ in_flight \in [Keys -> 0..PerKey] /\ global_in_flight \in 0..Global
  /\ recent \in [Keys -> SUBSET Requests] /\ old \subseteq Requests
  /\ today \in AllDays /\ request_count \in [Keys -> [AllDays -> 0..Daily]]
  /\ served \in [Requests -> {-1} \cup AllDays]

Holding(k) == {r \in Requests : KeyOf[r] = k /\ request[r].pc \in {"charging", "serving"}}

\* The counters of slots are the requests that hold one, through refusals, roll
\* backs and cancellations; none is lost and none is given back twice.
SlotsExact ==
  /\ \A k \in Keys : in_flight[k] = Cardinality(Holding(k))
  /\ global_in_flight = Cardinality(UNION {Holding(k) : k \in Keys})

\* What was passed on was counted on its day, and a day has no more than its
\* limit, whatever was cancelled, failed or restarted in between.
ServedIsCounted ==
  \A k \in Keys : \A d \in AllDays :
    Cardinality({r \in Requests : KeyOf[r] = k /\ served[r] = d}) <= request_count[k][d]

\* Both, which is what the gate is for: nothing passes uncounted.
CountsExact == SlotsExact /\ ServedIsCounted

\* A request that is passed on stays in its key's window for sixty seconds, or
\* until the process is started again.
WindowIsKept ==
  [][\A r \in Requests : served[r] # -1 /\ r \in recent[KeyOf[r]] \ old =>
       r \in recent'[KeyOf[r]] \/ \A k \in Keys : recent'[k] = {} /\ in_flight'[k] = 0]_vars

\* Slots come back: when every request is over nothing is in flight.
NothingInFlight == global_in_flight = 0 /\ \A k \in Keys : in_flight[k] = 0
SlotsComeBack == []<>NothingInFlight

\* A key whose window is over is not refused because of it.
OldIsForgotten ==
  [][\A r \in Requests :
       /\ request[r].pc = "new" /\ request'[r].pc = "over"
       /\ recent[KeyOf[r]] \subseteq old
       => global_in_flight >= Global \/ in_flight[KeyOf[r]] >= PerKey]_vars

\* Both: the window counts what it must and nothing else.
WindowIsExact == WindowIsKept /\ OldIsForgotten
=============================================================================
