------------------------------- MODULE MCTasks -------------------------------
(***************************************************************************)
(* Instances of the task ledger, its runner and the undo receipts for TLC. *)
(* A behaviour follows one part: any calls to the ledger, or two runs of   *)
(* run_job over it, with room for the terminal records of two steps of     *)
(* three; or writes of a file and their undoing, with room for every       *)
(* receipt ("undo") or for one ("tight").                                  *)
(***************************************************************************)
EXTENDS JobRunner, TLC

CONSTANTS Writes, Contents, Absent

\* Step 1 first, then 2 and 3 in any order: two steps can run at once.
Fork == <<{}, {1}, {1}>>

VARIABLES
  part,
  file, writes, receipts, run, touched, undone

\* Two writes of one file.
Undo == INSTANCE UndoReceipts WITH MaxRows <- 2
Tight == INSTANCE UndoReceipts WITH MaxRows <- 1

ASSUME Undo!UndoAssumption

undoVars == <<file, writes, receipts, run, touched, undone>>

\* Runs write nothing long; calls fill the ledger.
ShortTexts ==
  (\A j \in Jobs : jobs'[j].result = 0) /\ (\A s \in StepIds : steps'[s].text = 0)

PartsInit ==
  /\ part \in {"calls", "runs", "undo", "tight"}
  /\ RunnerInit /\ Undo!UndoInit
  /\ part \in {"calls", "runs"} => file = Absent

PartsNext ==
  \/ part = "calls" /\ Next /\ UNCHANGED <<part, workerVars, undoVars>>
  \/ part = "runs" /\ RunnerNext /\ ShortTexts /\ UNCHANGED <<part, undoVars>>
  \/ part = "undo" /\ Undo!UndoNext /\ UNCHANGED <<part, runnerVars>>
  \/ part = "tight" /\ Tight!UndoNext /\ UNCHANGED <<part, runnerVars>>

PartsSpec == PartsInit /\ [][PartsNext]_<<part, runnerVars, undoVars>>

\* A restoration overwrites nothing but the write it undoes and what changed
\* after it had looked; a receipt says restored only if that happened, and is
\* spent once; and the ledger of receipts keeps its limit.
UndoIsHonest ==
  Undo!UndoIsHonest /\ [](part = "tight" => Tight!RestoredIsTrue)

Symmetry ==
  UNION {Permutations(Owners), Permutations(Writes), Permutations(Contents)}
=============================================================================
