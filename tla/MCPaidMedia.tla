----------------------------- MODULE MCPaidMedia -----------------------------
(***************************************************************************)
(* Instances of the stores of paid media for TLC.  A behaviour follows one *)
(* of seven parts that share no state: the handlers of image purchases and *)
(* downloads over their two stores, any calls to the store of requests,    *)
(* any calls to the store of assets, a purchase of the desktop program,    *)
(* the archive of the Web console, a purchase from that console, and the   *)
(* polls of a video.                                                       *)
(***************************************************************************)
EXTENDS PaidImage, TLC

CONSTANTS Digests2, Archives2, Readers2, None

VARIABLES
  part,
  rRequests, rAuthority, rHeld, rIssued,
  fReservations, fTotal, fAssets, fPending, fReceipts, fDisk, fStager, fPins,
  fDrained,
  ledger, vault, hold, doc, root, app, task, call, sent, last, faults,
  objects, documents, meta, files, stray, fence, batch, debt, down,
  rows, index, auth, live, archived, paid, flights, moves, acks,
  vRow, vRoom, vMirror, vAsset, vPending, vLapsed, vDisk, vPolls, vFlights,
  vOvertaken

\* Two requests whose content may differ, claimed four times.
Requests == INSTANCE MediaRequests WITH
  MaxTokens <- 4, Retention <- 2, MaxLag <- 1,
  Digests <- Digests2, Archives <- Archives2,
  requests <- rRequests, authority <- rAuthority, held <- rHeld,
  issued <- rIssued

\* Room for one purchase, three stagings and two downloads.
Files == INSTANCE AssetStore WITH
  MaxTokens <- 3, Archives <- Archives2, Readers <- Readers2,
  reservations <- fReservations, total <- fTotal, assets <- fAssets,
  pending <- fPending, receipts <- fReceipts, disk <- fDisk,
  stager <- fStager, pins <- fPins, drained <- fDrained

\* Stages are opened four times; six crashes, failing handlers and reads of the
\* root that fail.
Desktop == INSTANCE DesktopPurchase WITH MaxGen <- 4, MaxFaults <- 6,
  NoIntent <- None

\* Three documents that share assets, with room for two of each.
Archive == INSTANCE WebArchive WITH
  Docs <- {"one", "pair", "other"}, Contents <- {"a", "b", "c"},
  Members <- ("one" :> {"a"}) @@ ("pair" :> {"a", "b"}) @@ ("other" :> {"b", "c"}),
  Gateways <- Handlers, Capacity <- 2, MaxDocuments <- 2, NoOne <- None,
  work <- batch

\* One operation, run by two processes and sent twice.
Web == INSTANCE WebPurchases WITH
  Ops <- {"op"}, Processes <- Handlers, RetryAge <- 1, Retention <- 2,
  MaxSent <- 2

\* Three polls of one video.
Video == INSTANCE VideoPolls WITH
  MaxPolls <- 3, row <- vRow, room <- vRoom, mirror <- vMirror,
  asset <- vAsset, pending <- vPending, lapsed <- vLapsed, disk <- vDisk,
  polls <- vPolls, stages <- vFlights, overtaken <- vOvertaken

ASSUME /\ Requests!MediaAssumption /\ Requests!MediaConstants
       /\ Files!AssetAssumption /\ Files!MediaConstants
       /\ Desktop!DesktopAssumption /\ Archive!ArchiveAssumption
       /\ Web!WebAssumption /\ Video!PollsAssumption

storeVars == <<rRequests, rAuthority, rHeld, rIssued>>
fileVars == <<fReservations, fTotal, fAssets, fPending, fReceipts, fDisk,
              fStager, fPins, fDrained>>
desktopVars == <<ledger, vault, hold, doc, root, app, task, call, sent, last,
                 faults>>
archiveVars == <<objects, documents, meta, files, stray, fence, batch, debt, down>>
webVars == <<rows, index, auth, live, archived, paid, flights, moves, acks>>
videoVars == <<vRow, vRoom, vMirror, vAsset, vPending, vLapsed, vDisk, vPolls,
               vFlights, vOvertaken>>
consoleVars == <<archiveVars, webVars, videoVars>>

PartsInit ==
  /\ part \in {"images", "requests", "assets", "desktop", "archive", "web",
              "video"}
  /\ ImageInit /\ Requests!Init /\ Files!AssetInit /\ Desktop!Init
  /\ Archive!ArchiveInit /\ Web!WebInit /\ Video!PollsInit

PartsNext ==
  /\ UNCHANGED part
  /\ \/ /\ part = "images" /\ ImageNext
        /\ UNCHANGED <<storeVars, fileVars, desktopVars, consoleVars>>
     \/ /\ part = "requests" /\ Requests!Next
        /\ UNCHANGED <<imageVars, fileVars, desktopVars, consoleVars>>
     \/ /\ part = "assets" /\ Files!AssetNext
        /\ UNCHANGED <<imageVars, storeVars, desktopVars, consoleVars>>
     \/ /\ part = "desktop" /\ Desktop!Next
        /\ UNCHANGED <<imageVars, storeVars, fileVars, consoleVars>>
     \/ /\ part = "archive" /\ Archive!ArchiveNext
        /\ UNCHANGED <<imageVars, storeVars, fileVars, desktopVars, webVars, videoVars>>
     \/ /\ part = "web" /\ Web!WebNext
        /\ UNCHANGED <<imageVars, storeVars, fileVars, desktopVars, archiveVars, videoVars>>
     \/ /\ part = "video" /\ Video!PollsNext
        /\ UNCHANGED <<imageVars, storeVars, fileVars, desktopVars, archiveVars, webVars>>

PartsSpec ==
  PartsInit /\
  [][PartsNext]_<<part, imageVars, storeVars, fileVars, desktopVars, consoleVars>>

\* Whatever calls the two stores get from anyone, rows, room and files agree.
\* The archive of the console agrees with its rows whenever its flag is clear;
\* an operation of the console is charged once for good, a reference that it
\* was given leads to bytes, and what is delivered to it is in its archive.  A
\* video has its bytes, but for the case in which the poll that lost it to
\* another deletes it, and its answer is the asset that the store has.
StoresAreKept ==
  /\ Requests!StoreInv /\ Files!FilesAreKept
  /\ Archive!ArchiveInv
  /\ Web!WebInv
  /\ Video!PollInv

\* The store of requests keeps its promise to any caller.  The desktop sends
\* nothing that its next start would not know of, and what is cut in a dispatch
\* or in an archive is repaired without an operator.  What the archive of the
\* console has stays there, and so does a result of the console and the end of
\* a video.
PurchaseIsProved ==
  /\ Requests!KeepsPurchases
  /\ [][Desktop!PurchaseIsProved' /\ Desktop!DesktopStep]_desktopVars
  /\ [][Archive!ArchivedStays]_archiveVars
  /\ [][Web!ResultsAreFinal]_webVars
  /\ [][Video!EndIsFinal]_videoVars

Symmetry ==
  Permutations(Turns) \cup Permutations(Archives2) \cup Permutations(Handlers)
=============================================================================
