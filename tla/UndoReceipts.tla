----------------------------- MODULE UndoReceipts -----------------------------
(***************************************************************************)
(* One-time receipts that undo a file written by an agent                  *)
(* (src/orchestrator/undo_receipts.py), the write_file tool that asks for  *)
(* them and the endpoint that spends them.                                 *)
(*                                                                         *)
(* Several writes and any other program share one file.  A write reads the *)
(* file, has a receipt issued for what it read and what it will put there, *)
(* and replaces the file.  The endpoint runs on the gateway's event loop,  *)
(* so there is one restoration at a time; it claims the receipt in the     *)
(* ledger, looks at the file, replaces it, and writes the end of the       *)
(* receipt.  The file has no lock, the ledger does: the file may change    *)
(* between any two of these steps, and the process may die.                *)
(*                                                                         *)
(* A receipt is named by its write.  Contents stand for the digests that   *)
(* the receipt signs; Absent as a pre-image is existed = FALSE.  The       *)
(* minute of a claim and the day of a receipt run out in Lapse and Expire. *)
(* Links that are put in a path's place, the signature and the size limits *)
(* are left out.                                                           *)
(***************************************************************************)
EXTENDS FiniteSets, Integers

CONSTANTS
  Writes,    \* calls of the tool, each with its receipt
  Contents,  \* what a file may hold
  Absent,    \* there is no file
  MaxRows    \* _MAX_RECEIPT_ROWS

UndoAssumption ==
  IsFiniteSet(Writes) /\ Absent \notin Contents /\ MaxRows \in Nat

VARIABLES
  file,      \* what is at the path
  writes,    \* what each call of the tool has come to
  receipts,  \* each receipt: what it signs, and its row in the ledger
  run,       \* the restoration in progress, or NoRun
  touched,   \* history: the file changed since the restoration looked at it
  undone     \* history: receipts a restoration left with their pre-image

undoVars == <<file, writes, receipts, run, touched, undone>>

Holdings == Contents \cup {Absent}
NoRun == [of |-> "none", at |-> "none", verdict |-> "failed"]
NoReceipt == [status |-> "none", before |-> Absent, after |-> Absent,
              lapsed |-> FALSE, expired |-> FALSE]

Terminal == {"restored", "failed"}

Stored == {w \in Writes : receipts[w].status \notin {"none", "gone"}}

UndoInit ==
  /\ file \in Holdings
  /\ writes = [w \in Writes |-> "idle"]
  /\ receipts = [w \in Writes |-> NoReceipt]
  /\ run = NoRun
  /\ touched = FALSE
  /\ undone = {}

\* The file changes under the restoration in progress.
ChangesTo(c) == file' = c /\ touched' = (touched \/ c # file)

-----------------------------------------------------------------------------
(* The write_file tool, in a thread of its own. *)

\* before and existed are read; c is what the model wants written.
ReadBefore(w, c) ==
  /\ writes[w] = "idle"
  /\ writes' = [writes EXCEPT ![w] = "read"]
  /\ receipts' = [receipts EXCEPT ![w].before = file, ![w].after = c]
  /\ UNCHANGED <<file, run, touched, undone>>

\* Rows past their day, unless a claim of less than a minute works on them.
Prunable ==
  {w \in Stored : /\ receipts[w].expired
                  /\ receipts[w].status # "executing" \/ receipts[w].lapsed}

\* issue: at capacity everything is rolled back, the pruning included.
Issue(w) ==
  /\ writes[w] = "read"
  /\ IF Cardinality(Stored \ Prunable) >= MaxRows
     THEN writes' = [writes EXCEPT ![w] = "cancelled"] /\ UNCHANGED receipts
     ELSE /\ writes' = [writes EXCEPT ![w] = "issued"]
          /\ receipts' = [x \in Writes |->
               IF x = w THEN [receipts[x] EXCEPT !.status = "pending"]
               ELSE IF x \in Prunable
               THEN [receipts[x] EXCEPT !.status = "gone"] ELSE receipts[x]]
  /\ UNCHANGED <<file, run, touched, undone>>

\* The temporary file replaces whatever is at the path by now.
PutFile(w) ==
  /\ writes[w] = "issued"
  /\ ChangesTo(receipts[w].after)
  /\ writes' = [writes EXCEPT ![w] = "written"]
  /\ UNCHANGED <<receipts, run, undone>>

\* The ledger, the temporary file or the replacement fails.
WriteFails(w) ==
  /\ writes[w] \in {"read", "issued"}
  /\ writes' = [writes EXCEPT ![w] = "cancelled"]
  /\ UNCHANGED <<file, receipts, run, touched, undone>>

-----------------------------------------------------------------------------
(* The endpoint.  Only a finished write has told its receipt to anyone. *)

Claimable(r) ==
  /\ ~r.expired
  /\ r.status = "pending" \/ (r.status = "executing" /\ r.lapsed)

ClaimReceipt(w) ==
  /\ run = NoRun
  /\ writes[w] = "written"
  /\ Claimable(receipts[w])
  /\ receipts' = [receipts EXCEPT ![w].status = "executing", ![w].lapsed = FALSE]
  /\ run' = [of |-> w, at |-> "look", verdict |-> "failed"]
  /\ UNCHANGED <<file, writes, touched, undone>>

\* What the file holds decides: the pre-image is the end of an earlier try
\* that died before it could say so, anything but the image is a later edit.
\* Faulty: a later edit is not looked for.
SightUnchecked(r) ==
  [at |-> IF file = r.before THEN "end" ELSE "put",
   verdict |-> IF file = r.before THEN "restored" ELSE "failed"]
Sight(r) ==
  [at |-> IF file # r.before /\ file = r.after THEN "put" ELSE "end",
   verdict |-> IF file = r.before THEN "restored" ELSE "failed"]

Look ==
  /\ run.at = "look"
  /\ run' = [of |-> run.of, at |-> Sight(receipts[run.of]).at,
             verdict |-> Sight(receipts[run.of]).verdict]
  /\ touched' = FALSE
  /\ undone' = IF run'.verdict = "restored" THEN undone \cup {run.of} ELSE undone
  /\ UNCHANGED <<file, writes, receipts>>

\* os.replace, or os.unlink of a file the write created.
Put ==
  /\ run.at = "put"
  /\ receipts[run.of].before = Absent => file # Absent
  /\ file' = receipts[run.of].before
  /\ run' = [run EXCEPT !.at = "end", !.verdict = "restored"]
  /\ undone' = undone \cup {run.of}
  /\ UNCHANGED <<writes, receipts, touched>>

\* Reading, the temporary file or the replacement raises.
UndoFails ==
  /\ run.at \in {"look", "put"}
  /\ run' = [run EXCEPT !.at = "end"]
  /\ UNCHANGED <<file, writes, receipts, touched, undone>>

\* finally: the row of a receipt that was pruned meanwhile is not written.
FinishUndo ==
  /\ run.at = "end"
  /\ receipts' = IF receipts[run.of].status = "executing"
                 THEN [receipts EXCEPT ![run.of].status = run.verdict]
                 ELSE receipts
  /\ run' = NoRun
  /\ UNCHANGED <<file, writes, touched, undone>>

\* The last update is refused by the database: the row stays as claimed.
FinishFails ==
  /\ run.at = "end"
  /\ run' = NoRun
  /\ UNCHANGED <<file, writes, receipts, touched, undone>>

-----------------------------------------------------------------------------
(* What happens around them. *)

\* Any other program, or the user, changes or removes the file.
Edit(c) ==
  /\ ChangesTo(c)
  /\ UNCHANGED <<writes, receipts, run, undone>>

\* A minute after the claim.
Lapse(w) ==
  /\ receipts[w].status = "executing"
  /\ receipts' = [receipts EXCEPT ![w].lapsed = TRUE]
  /\ UNCHANGED <<file, writes, run, touched, undone>>

\* A day after the write.
Expire(w) ==
  /\ w \in Stored
  /\ receipts' = [receipts EXCEPT ![w].expired = TRUE]
  /\ UNCHANGED <<file, writes, run, touched, undone>>

\* The process dies with its threads; the next one opens the same ledger.
UndoCrash ==
  /\ run' = NoRun
  /\ writes' = [w \in Writes |->
       IF writes[w] \in {"read", "issued"} THEN "cancelled" ELSE writes[w]]
  /\ UNCHANGED <<file, receipts, touched, undone>>

UndoNext ==
  \/ \E w \in Writes, c \in Contents : ReadBefore(w, c)
  \/ \E w \in Writes : Issue(w) \/ PutFile(w) \/ WriteFails(w) \/ ClaimReceipt(w)
  \/ Look \/ Put \/ UndoFails \/ FinishUndo \/ FinishFails
  \/ \E c \in Holdings : Edit(c)
  \/ \E w \in Writes : Lapse(w) \/ Expire(w)
  \/ UndoCrash

UndoSpec == UndoInit /\ [][UndoNext]_undoVars

-----------------------------------------------------------------------------

UndoTypeOK ==
  /\ file \in Holdings
  /\ writes \in [Writes -> {"idle", "read", "issued", "written", "cancelled"}]
  /\ receipts \in
       [Writes ->
         [status : {"none", "pending", "executing", "gone"} \cup Terminal,
          before : Holdings, after : Holdings,
          lapsed : BOOLEAN, expired : BOOLEAN]]
  /\ run = NoRun \/ run \in [of : Writes, at : {"look", "put", "end"},
                             verdict : Terminal]
  /\ touched \in BOOLEAN
  /\ undone \subseteq Writes

\* A receipt says restored only if its file was left as it was before the
\* write, however often the attempt died; and no restoration works on a
\* receipt without a row, nor is the ledger larger than its limit.
RestoredIsTrue ==
  /\ \A w \in Writes : receipts[w].status = "restored" => w \in undone
  /\ Cardinality(Stored) <= MaxRows
  /\ \A w \in Writes : writes[w] \in {"issued", "written"} =>
                         receipts[w].status # "none"

\* A restoration overwrites nothing but the write it undoes, unless the file
\* changed after it had looked: an edit made before it began, or between a try
\* that died and its repetition, stays.
EditsSurvive ==
  run.at = "put" /\ file' # file =>
    \/ touched'
    \/ file = receipts[run.of].after /\ file' = receipts[run.of].before

\* A receipt that came to an end is not executed again, and keeps its end
\* until it is pruned.
SpentOnce ==
  \A w \in Writes : receipts[w].status \in Terminal \cup {"gone"} =>
    receipts'[w].status \in {receipts[w].status, "gone"}

\* The three, for the writes and restorations of one file.
UndoIsHonest == []RestoredIsTrue /\ [][EditsSurvive /\ SpentOnce]_undoVars
=============================================================================
