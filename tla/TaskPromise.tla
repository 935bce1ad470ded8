----------------------------- MODULE TaskPromise ----------------------------
(***************************************************************************)
(* What the task ledger promises to the user of a long job, without        *)
(* workers, leases or retries: a step completes at most once and after     *)
(* everything it depends on, a job is closed only when all its steps are   *)
(* complete, and neither is ever taken back.                               *)
(***************************************************************************)
CONSTANTS Jobs, StepIdx, Deps

VARIABLES
  complete,   \* the steps whose result is recorded
  closed      \* the jobs that are reported as done

pvars == <<complete, closed>>

StepsOf(j) == {j} \X StepIdx
DepsOf(s) == {<<s[1], d>> : d \in Deps[s[2]]}

Init == complete = {} /\ closed = {}

Complete(s) ==
  /\ s \notin complete
  /\ s[1] \notin closed
  /\ DepsOf(s) \subseteq complete
  /\ complete' = complete \cup {s}
  /\ UNCHANGED closed

Close(j) ==
  /\ j \notin closed
  /\ StepsOf(j) \subseteq complete
  /\ closed' = closed \cup {j}
  /\ UNCHANGED complete

Next ==
  \/ \E s \in Jobs \X StepIdx : Complete(s)
  \/ \E j \in Jobs : Close(j)

Spec == Init /\ [][Next]_pvars
=============================================================================
