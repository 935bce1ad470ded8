------------------------------ MODULE WebArchive ------------------------------
(***************************************************************************)
(* The archive of the Web console, gateway/paid_media_web_archive.py: the  *)
(* bytes of bought assets as files, named after their content, and the     *)
(* documents (finished purchases) that own them as rows of a database.     *)
(*                                                                         *)
(* Several processes share it; a lock that the system releases when its    *)
(* holder dies (_authority_fence) lets one at a time in.  A transaction is *)
(* one action and so is a change to a file; the process may fail or die    *)
(* between any two.  A flag in the database, set before the first file is  *)
(* touched and cleared when files and rows agree again, tells the next one *)
(* in whether there is something to repair.                                *)
(*                                                                         *)
(* Every object counts for one byte.  The assets of a document are stored  *)
(* in any order, and its members are counted with it.                      *)
(***************************************************************************)
EXTENDS Integers, FiniteSets

CONSTANTS
  Docs,          \* documents, one for each purchase
  Contents,      \* digests of assets
  Members,       \* the contents of each document
  Gateways,
  Capacity,      \* max_capacity_bytes
  MaxDocuments,
  NoOne

ArchiveAssumption ==
  /\ IsFiniteSet(Docs) /\ Docs # {} /\ IsFiniteSet(Contents)
  /\ Members \in [Docs -> SUBSET Contents]
  /\ NoOne \notin Gateways /\ NoOne \notin Contents
  /\ Capacity \in Nat /\ MaxDocuments \in Nat

VARIABLES
  objects,    \* web_asset_archive_objects
  documents,  \* web_asset_archive_documents, with their members
  meta,       \* stored_bytes, document_count and cleanup_pending
  files,      \* objects/: the contents that are there under their own name
  stray,      \* objects/: is there a file under a random name
  fence,      \* the process that holds the lock
  work,       \* what it does
  debt,       \* _cleanup_debt of each process
  down        \* the processes that have not opened the archive

records == <<objects, documents>>
directory == <<files, stray>>
control == <<fence, work, debt, down>>
archiveVars == <<records, meta, directory, control>>

\* repair, rows, unlink, check: the four parts of a recovery.
Places == {"idle", "repair", "rows", "unlink", "check", "admit", "open",
           "store", "written", "index", "close"}

\* What follows a recovery: the archive is open, the document is admitted, or
\* the failure that made it necessary is raised.
Sequels == {"start", "admit", "raise"}

Work == [at: Places, doc: Docs, todo: SUBSET Contents,
         item: Contents \cup {NoOne}, next: Sequels]

Idle == [at |-> "idle", doc |-> CHOOSE d \in Docs : TRUE, todo |-> {},
         item |-> NoOne, next |-> "start"]

Meta == [stored: Int, count: Int, dirty: BOOLEAN]

ArchiveInit ==
  /\ objects = {} /\ documents = {}
  /\ meta = [stored |-> 0, count |-> 0, dirty |-> FALSE]
  /\ files = {} /\ stray = FALSE
  /\ fence = NoOne /\ work = Idle
  /\ debt = [p \in Gateways |-> FALSE]
  /\ down = Gateways

\* What complete documents own.
Owned == UNION {Members[d] : d \in documents}

Proceeds(at) == work' = [work EXCEPT !.at = at]

Step(from, to) == fence # NoOne /\ work.at = from /\ Proceeds(to)

\* The fence is given back, with the debt of a failure or without.
Leaves(owes) ==
  /\ fence' = NoOne /\ work' = Idle
  /\ debt' = IF owes THEN [debt EXCEPT ![fence] = TRUE] ELSE debt

\* _set_cleanup_pending_locked: the flag of the database, then the one of the
\* process.
SetDirty ==
  meta' = [meta EXCEPT !.dirty = TRUE] /\ debt' = [debt EXCEPT ![fence] = TRUE]
ClearDirty ==
  meta' = [meta EXCEPT !.dirty = FALSE] /\ debt' = [debt EXCEPT ![fence] = FALSE]

-----------------------------------------------------------------------------
(* The recovery: _recover_uncommitted_objects_locked.                      *)

\* The constructor recovers whatever the flag says.
Start(p) ==
  /\ fence = NoOne /\ p \in down
  /\ fence' = p
  /\ work' = [Idle EXCEPT !.at = "repair"]
  /\ UNCHANGED <<records, meta, directory, debt, down>>

MarkDirty ==
  /\ Step("repair", "rows") /\ SetDirty
  /\ UNCHANGED <<records, directory, fence, down>>

\* The rows that no document owns go before their files.
DropOrphans ==
  /\ Step("rows", "unlink")
  /\ objects' = objects \cap Owned
  /\ meta' = [meta EXCEPT !.stored = @ - Cardinality(objects \ Owned)]
  /\ UNCHANGED <<documents, directory, fence, debt, down>>

UnlinkOne ==
  /\ Step("unlink", "unlink")
  /\ \/ \E c \in files \ objects : files' = files \ {c} /\ UNCHANGED stray
     \/ stray /\ stray' = FALSE /\ UNCHANGED files
  /\ UNCHANGED <<records, meta, fence, debt, down>>

\* Every object that is left is read and hashed.
CheckObjects ==
  /\ Step("unlink", "check")
  /\ files \subseteq objects /\ ~ stray
  /\ objects \subseteq files
  /\ UNCHANGED <<records, meta, directory, fence, debt, down>>

\* The flag is cleared, and what made the recovery necessary goes on.
Recovered ==
  /\ fence # NoOne /\ work.at = "check" /\ ClearDirty
  /\ \/ /\ work.next = "start"
        /\ down' = down \ {fence}
        /\ fence' = NoOne /\ work' = Idle
     \/ /\ work.next = "admit" /\ Proceeds("admit")
        /\ UNCHANGED <<fence, down>>
     \/ /\ work.next = "raise"
        /\ fence' = NoOne /\ work' = Idle
        /\ UNCHANGED down
  /\ UNCHANGED <<records, directory>>

\* A step of the recovery fails, or an object is not what its row says.
RecoveryFails ==
  /\ fence # NoOne /\ work.at \in {"repair", "rows", "unlink", "check"}
  /\ Leaves(TRUE)
  /\ UNCHANGED <<records, meta, directory, down>>

-----------------------------------------------------------------------------
(* A document: document_batch, store_asset and commit.                     *)

MustRecover(p) == debt[p] \/ meta.dirty

Enter(p, d) ==
  /\ fence = NoOne /\ p \notin down
  /\ fence' = p
  /\ work' = [at |-> IF MustRecover(p) THEN "repair" ELSE "admit",
              doc |-> d, todo |-> Members[d], item |-> NoOne, next |-> "admit"]
  /\ UNCHANGED <<records, meta, directory, debt, down>>

Present(d) == Members[d] \subseteq objects /\ Members[d] \subseteq files

\* _preflight_document_admission_locked
Admissible(d) ==
  \/ d \in documents /\ Present(d)
  \/ d \notin documents /\ meta.count < MaxDocuments

Admit ==
  /\ Step("admit", "open")
  /\ Admissible(work.doc)
  /\ UNCHANGED <<records, meta, directory, fence, debt, down>>

\* The document does not fit, or the database fails: nothing is begun.
Refuse ==
  /\ fence # NoOne /\ work.at \in {"admit", "open"}
  /\ Leaves(FALSE)
  /\ UNCHANGED <<records, meta, directory, down>>

OpenBatch ==
  /\ Step("open", "store") /\ SetDirty
  /\ UNCHANGED <<records, directory, fence, down>>

\* The object has a row already: its bytes are compared.
Keep(c) ==
  /\ fence # NoOne /\ work.at = "store" /\ c \in work.todo
  /\ c \in objects /\ c \in files
  /\ work' = [work EXCEPT !.todo = @ \ {c}]
  /\ UNCHANGED <<records, meta, directory, fence, debt, down>>

Fits == meta.stored + 1 <= Capacity

\* A content without a row is taken up while there is room for it.
Takes(c) ==
  /\ fence # NoOne /\ work.at = "store"
  /\ c \in work.todo /\ c \notin objects /\ Fits

\* There is a file under its name already: its bytes are compared.
Adopt(c) ==
  /\ Takes(c) /\ c \in files
  /\ work' = [work EXCEPT !.at = "index", !.item = c]
  /\ UNCHANGED <<records, meta, directory, fence, debt, down>>

\* Otherwise they are written under a random name,
WriteTemporary(c) ==
  /\ Takes(c) /\ c \notin files
  /\ work' = [work EXCEPT !.at = "written", !.item = c]
  /\ stray' = TRUE
  /\ UNCHANGED <<records, meta, files, fence, debt, down>>

\* and the file gets its name.
Replace ==
  /\ Step("written", "index")
  /\ files' = files \cup {work.item} /\ stray' = FALSE
  /\ UNCHANGED <<records, meta, fence, debt, down>>

AddRow ==
  /\ objects' = objects \cup {work.item}
  /\ meta' = [meta EXCEPT !.stored = @ + 1]

Index ==
  /\ fence # NoOne /\ work.at = "index" /\ Fits
  /\ AddRow
  /\ work' = [work EXCEPT !.at = "store", !.todo = @ \ {work.item}, !.item = NoOne]
  /\ UNCHANGED <<documents, directory, fence, debt, down>>

\* The document and its members, once every one of them has been verified; a
\* document that is complete already keeps its receipt.
CommitDocument ==
  /\ Step("store", "close") /\ work.todo = {} /\ Present(work.doc)
  /\ IF work.doc \in documents THEN UNCHANGED <<documents, meta>>
     ELSE /\ meta.count < MaxDocuments
          /\ documents' = documents \cup {work.doc}
          /\ meta' = [meta EXCEPT !.count = @ + 1]
  /\ UNCHANGED <<objects, directory, fence, debt, down>>

CloseBatch ==
  /\ fence # NoOne /\ work.at = "close" /\ ClearDirty
  /\ fence' = NoOne /\ work' = Idle
  /\ UNCHANGED <<records, directory, down>>

\* A failure inside the batch is raised after a recovery.
Raises ==
  work' = [work EXCEPT !.at = "repair", !.todo = {}, !.item = NoOne, !.next = "raise"]

\* No room, a member that is missing, a disk or a database that fails.
BatchFails ==
  /\ fence # NoOne /\ work.at \in {"store", "close"}
  /\ Raises
  /\ UNCHANGED <<records, meta, directory, fence, debt, down>>

\* The file under the random name may be left.
WriteFails ==
  /\ fence # NoOne /\ work.at = "written"
  /\ stray' \in BOOLEAN
  /\ debt' = [debt EXCEPT ![fence] = TRUE]
  /\ Raises
  /\ UNCHANGED <<records, meta, files, fence, down>>

\* The row was not committed: its file is deleted, if that succeeds.
IndexFails ==
  /\ fence # NoOne /\ work.at = "index"
  /\ \/ files' = files \ {work.item} /\ UNCHANGED debt
     \/ debt' = [debt EXCEPT ![fence] = TRUE] /\ UNCHANGED files
  /\ Raises
  /\ UNCHANGED <<records, meta, stray, fence, down>>

\* The row was committed although an error says otherwise: the file stays.
IndexedAnyway ==
  /\ fence # NoOne /\ work.at = "index" /\ Fits
  /\ AddRow /\ Raises
  /\ UNCHANGED <<documents, directory, fence, debt, down>>

\* A process dies; the system gives its lock back.
ArchiveCrash(p) ==
  /\ p \notin down \/ fence = p
  /\ down' = down \cup {p}
  /\ debt' = [debt EXCEPT ![p] = FALSE]
  /\ IF fence = p THEN fence' = NoOne /\ work' = Idle
     ELSE UNCHANGED <<fence, work>>
  /\ UNCHANGED <<records, meta, directory>>

ArchiveNext ==
  \/ \E p \in Gateways : Start(p)
  \/ MarkDirty
  \/ DropOrphans
  \/ UnlinkOne
  \/ CheckObjects
  \/ Recovered
  \/ RecoveryFails
  \/ \E p \in Gateways, d \in Docs : Enter(p, d)
  \/ Admit
  \/ Refuse
  \/ OpenBatch
  \/ \E c \in Contents : Keep(c)
  \/ \E c \in Contents : Adopt(c)
  \/ \E c \in Contents : WriteTemporary(c)
  \/ Replace
  \/ Index
  \/ CommitDocument
  \/ CloseBatch
  \/ BatchFails
  \/ WriteFails
  \/ IndexFails
  \/ IndexedAnyway
  \/ \E p \in Gateways : ArchiveCrash(p)

ArchiveSpec == ArchiveInit /\ [][ArchiveNext]_archiveVars

-----------------------------------------------------------------------------
(* Properties.                                                             *)

\* Rows, files and the lock keep their type.
ArchiveTypeOK ==
  /\ objects \subseteq Contents /\ documents \subseteq Docs
  /\ meta \in Meta
  /\ files \subseteq Contents /\ stray \in BOOLEAN
  /\ fence \in Gateways \cup {NoOne} /\ work \in Work
  /\ debt \in [Gateways -> BOOLEAN] /\ down \subseteq Gateways

\* "never an accounted row whose bytes have disappeared": whatever fails or
\* dies in a batch or in a recovery, a row has its file.
RowsHaveFiles == objects \subseteq files

\* A document on record is complete: each of its assets has a row and a file.
DocumentsAreComplete == Owned \subseteq objects \cap files

\* The counters that admit new assets and documents are exact and never pass
\* their limits.
CountersExact ==
  /\ meta.stored = Cardinality(objects) /\ meta.stored <= Capacity
  /\ meta.count = Cardinality(documents) /\ meta.count <= MaxDocuments

\* The fast path of admission may be trusted: while the flag is clear, the
\* directory holds exactly the files of complete documents, so no process
\* builds on what another one left half done.
CleanIsClean ==
  ~ meta.dirty => files = objects /\ objects = Owned /\ ~ stray

\* The archive, its directory and its counters, taken together.
ArchiveInv ==
  /\ ArchiveTypeOK /\ RowsHaveFiles /\ DocumentsAreComplete /\ CountersExact
  /\ CleanIsClean

\* A document that was archived stays, and so do its bytes.
ArchivedStays == documents \subseteq documents' /\ Owned \subseteq files'
=============================================================================
