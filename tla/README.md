# Verification of Nachuan

Nachuan is a local AI engine: a gateway (`gateway/`) that takes requests from a
desktop application and from chat channels, an orchestrator (`orchestrator/`)
that runs agents and long jobs, bridges that carry the messages of chat
platforms (`scripts/run_*_bridge.py`), and a desktop client (`desktop/`).  Most
of its code moves text between models.  What must be right under crashes,
retries and races is a set of small SQLite stores with leases, fencing tokens,
quotas and receipts, and the handlers that call several of them in a fixed
order.  This directory specifies those in TLA+, checks them with TLC on small
instances, and proves the stores that everything rests on, and the handlers of
chats, calls and images over them, with TLAPS for every instance.

## 1. The system

### Components, their state and what makes them correct

| component | state | operations | correct when |
|---|---|---|---|
| Task ledger, `orchestrator/ledger.py` | jobs and steps with lease columns, epoch, claim token; rows of terminal headroom; a payload counter | create, claim, renew, release, claim next step, renew and finish a step, close a job, fail an unclaimed job | a step completes once and in dependency order; an old claim can do nothing; the end of what runs can always be recorded |
| Job runner, `run_job` in the same file | one coroutine per run, a heartbeat task for the job, one for the step, threads of renewals | start, take a step, execute, finish, leave | a run ends, gives the job back, and never strands a step |
| Undo receipts, `orchestrator/undo_receipts.py` | a file, one-time receipts with an execution lease | issue, restore | what is undone is what the receipt was issued for; a receipt is spent once and says what happened |
| Durable media requests, `gateway/durable_media_requests.py` | a row per purchase, an authority row that holds room for its assets, a counter kept by triggers | claim, reserve room, enter the provider phase, renew, abandon, succeed, mark recovery, acknowledge, complete the clean-up, prune | nobody pays twice for one purchase; the evidence of a payment is not forgotten while it matters |
| Paid media asset store, `gateway/paid_media_asset_store.py` | reservations, tombstones of files in motion, asset rows, receipts, read leases, and the files | reserve, release, stage, reconcile, finalise, pin, acknowledge | a registered asset has its bytes; every file has a row; a reader keeps its file |
| Paid image handler, acknowledgement endpoint, `gateway/app.py` | what a request has called so far | the order of the calls of both stores and of the provider, with compensation | charged once; room before the charge; bytes before the answer; acknowledged before erased |
| Installation root and the gateway's authority, `gateway/installation_root.py`, `gateway/gateway_installation_control.py` | one row with status, epoch, revision; a floor and a lock for each component; an anchor file beside each database | bootstrap, activate, advance, acknowledge, lock, recover, re-anchor, retire; inspect, anchor, confirm | a store that was rolled back is noticed before it sends; a purchase goes outbound once |
| Provider call ledger and budget, `gateway/provider_call_ledger.py` | calls, attempts, reservations, entries | fund, start, finish, reconcile | the budget is never overdrawn, each hold ends once |
| Failover and cooldowns, `gateway/failover.py`, `gateway/quota_state.py` | the attempts of a run, failure counts and cooldowns per model | attempt, fail, fall back, cancel | one attempt of an operation at most reaches a provider; what may have been sent is on record |
| Channel turn idempotency, `gateway/weixin_idempotency.py`, receipts in `orchestrator/agent.py`, the handler of `/v1/agent/chat` | a row per message with token, lease and phase; a reservation and a receipt per turn | claim, renew, reserve, enter the provider phase, commit, fail, prune | one agent run per message, one answer |
| Claim lease session, `gateway/channel_delivery_claim.py` | a heartbeat thread, a sticky loss flag, a finish deadline | start, pulse, fence, finish, close | no commit after a loss; a finish is reported done only if it is |
| Channel bridges, `scripts/run_weixin_ilink_bridge.py`, `scripts/run_feishu_bridge.py` | inbox, outbox, uploads and the video queue of each channel | receive, claim, answer, send, recover, close | each message handled once, each reply sent at most once, in the order of the chat |
| Admission and background jobs, `gateway/admission.py` | slots and rate events per key, a daily counter, leases of background jobs | acquire, release, consume, bind, renew, rebuild | limits hold, no slot leaks |
| Desktop paid media, `desktop/src/main/paid-media-*.ts` | the client's ledger, vault and capacity, and a document that the root follows | start, dispatch, open and clean stages, archive, close by hand | what is sent is on record and provable at the next start; what is cut is resumed, or left to an operator, never sent anew |
| Paid video handlers, `gateway/app.py` over both stores | the envelope of the video's row with a poll fence, the token and the description of its asset; the reservation and the file | order, poll, prepare, stage or recover, attach, finalise, commit, clean up | the answer is the asset that is there; a provider's end is never asked for again; a failure gives its room back |
| Web console, `gateway/paid_media_web.py`, `gateway/paid_media_asset_delivery.py` | a journal of operations, an index of contents, flights in memory | claim, execute, cancel, abandon, reconcile, poll, read, hand over to the archive, acknowledge | paid once over two processes and retries; what was handed out can be read; done means archived and cleaned |
| Web archive, `gateway/paid_media_web_archive.py` | object files, rows of objects and documents, counters, a flag of unfinished work | open a batch, store an asset, commit a document, recover | a row has its file; a document is complete; the counters that admit are exact |
| Restricted capture, operator recovery, privacy | operators' two-phase operations | prepare, execute, confirm | nothing is half done |
| Agents, workflows, plugins, caches, UI, CLI, SDK, packaging | content and presentation | | outside this project |

`PROJECT.json` lists them all with their sources, and says of each what is
modelled or why it is not.

### How they interact

A *long job* is created in the task ledger, claimed by a runner under a fresh
owner name and a new epoch, and executed step by step under claims whose leases
two heartbeats extend.  Runner and ledger share nothing but the rows.

A *paid image* passes, in one handler: claim in the request store, room in the
request store, room in the asset store (the mirror), the provider fence, the
provider, staging and finalising in the asset store, and the answer in the
request store.  No transaction spans two stores.  The buyer downloads under read
leases, archives, and acknowledges: request store, asset store, request store
again.  A *video* is ordered like an image and finished by polls, each under a
fence of the row: token on record, file registered, description on record,
reservation finished, answer.  A purchase of the Web console is archived by the gateway itself, and the
receipt of its archive makes the same three calls.  Before the fence every failure is compensated; after it every failure
ends in `recovery_required`, because the provider may have charged.  Each
mutation of the request store is written to an anchor file, then to the
database, then confirmed at the installation root, and only then may the request
go out.

A *message of a chat* is stored by a bridge, claimed by one of its workers under
a lease that a claim session keeps alive, and asked of the gateway, which claims
its row in the replay ledger, reserves room for its receipt, fences the provider
phase and runs the agent.  The agent's model calls go through the failover,
which records every attempt in the provider call ledger before it is made.  The
answer is a receipt; the bridge puts it in its outbox and sends it.

The *desktop* buys pictures through the image handler.  Each change of its three
stores is a mutation: the document gets an intent, the root follows it, the
stores change, the document is closed over their contents, the root follows
again.  A start compares document, stores and root: a durable intent is handed
to its handler, any other that was cut ends in manual recovery.

### What is hard

Late calls with old credentials; leases that run out while their owner works;
heartbeats that outlive what they renew; a process that dies between two stores
or between a row and its file; requests whose answer is lost after they took
effect; clean-up that races with the work it cleans up after; clocks read before
a lock is taken; counters that many paths change; retries that must tell "not
paid" from "perhaps paid"; files put back to an older copy.  `PROJECT.json` lists
these hazards at their lines, each with the properties that watch it.

## 2. The plan and where it stands

1. Task ledger, its promise, its runner, and the ledger's proofs. *Done.*
2. Durable media requests with their promise; the asset store; the image handler
   over both. *Done, and proved about.*
3. Calls to providers: `CallLedger` with `Budget` as its abstract specification,
   `Failover` over it. *Done.*
4. Chat turns: `TurnRequests`, `TurnReceipts` with `TurnPromise`, `ChatTurn` over
   both, `Feedback`. *Done.*
5. Bridges: `ClaimLease`, `WeixinBridge`, `VideoQueue`, `FeishuBridge`. *Done.*
6. Gates: `Admission`, `JobPool`; the installation root and its first
   controller, `InstallationRoot`, `GatewayAuthority`. *Done.*
7. `UndoReceipts`. *Done.*
8. The desktop's purchase, `DesktopPurchase`. *Done for images under the second
   protocol.*
9. The Web console and its archive: `WebPurchases`, `WebArchive`; the polls of a
   video, `VideoPolls`. *Done.*
10. Left: the desktop's videos, the channel profile of the media store (over
    `MediaRequests`), restricted capture and operator recovery.

Proofs in the order of what they support, one module of theorems for the components
that are composed, checked together or of one kind: `TaskLedgerProofs` (with the runner
and the undo receipts), `GatesProofs` (admission, job pool, root and authority, the ledger
of calls), `FailoverProofs`, `ChatTurnProofs`, `PaidImageProofs` (with both stores),
`ChannelsProofs` (claim sessions, the Weixin bridge, its video queue), `FeishuProofs` and
`PurchaseProofs` (the console, its archive, the polls of a video, the desktop); all *done*.
Left is `Feedback`.  All modules are written for this: no recursive operators, constants
with assumptions, one action per operation.

## 3. The modules

| module | stands for | abstract specification |
|---|---|---|
| `TaskLedger` | every transaction of the task ledger, under callers that present any credential ever returned | `TaskPromise` |
| `JobRunner` | `run_job` over `TaskLedger`, which it extends | its ledger |
| `DesktopPurchase` | a picture bought by the desktop: its mutations, their handlers, the start and the call, over its stores and what it sees of the root | |
| `UndoReceipts` | the ledger of receipts, the tool that writes a file, the endpoint that undoes it, and anyone else who edits the file | |
| `MediaRequests` | every image transaction of the request store, under callers that present any token and document | `PurchasePromise` |
| `PaidMedia` | the constants that both stores share | |
| `AssetStore` | the asset store and the files, one action per transaction and per change to the disk | |
| `PaidImage` | the handler, the endpoint of acknowledgements and the downloads over both stores, which it extends, and a provider that charges | its two stores |
| `WebArchive` | the archive of the Web console: its rows, its files, its lock, one action per transaction and per change to the disk | |
| `WebPurchases` | the console's journal and handlers, the runs in memory of two processes, and the hand-over of purchases to the archive | |
| `VideoPolls` | one video: its row, its asset in motion, and the polls that overtake each other | |
| `InstallationRoot` | the transactions of the root over components, epochs and floors | |
| `GatewayAuthority` | the gateway's controller and the anchored transactions of its ledger over the root, with crashes, files put back, and operators | |
| `CallLedger` | the transactions of the provider call ledger | `Budget` |
| `Cooldowns` | the failure counts and cooldowns of models | |
| `Failover` | a model call with its backups over `CallLedger` and `Cooldowns` | |
| `TurnRequests` | the replay ledger of messages | |
| `TurnReceipts` | reservations and receipts of turns | `TurnPromise` |
| `ChatTurn` | the handler of a message over both and the agent | |
| `Feedback` | feedback applied once, over `TurnReceipts` | |
| `ClaimLease` | the claim session of a bridge's worker and its heartbeat thread | |
| `WeixinBridge` | the Weixin bridge's inbox, outbox, chunks, media, recovery and retention | |
| `VideoQueue` | the same bridge's queue of pending videos | |
| `FeishuBridge` | the Feishu bridge's inbox with uploads, its outbox and the operator's decision | |
| `Admission` | slots, windows and daily counts of requests | |
| `JobPool` | the slots of background videos and their rebuilding | |
| `TaskLedgerProofs` | theorems about `TaskLedger`, `JobRunner` and `UndoReceipts` | |
| `FailoverProofs`, `ChatTurnProofs` | theorems about the module of their name | |
| `PaidImageProofs` | theorems about `MediaRequests`, `AssetStore` and `PaidImage` | |
| `GatesProofs` | theorems about `Admission`, `JobPool`, `InstallationRoot`, `GatewayAuthority` and `CallLedger` | |
| `PurchaseProofs` | theorems about `WebPurchases`, `WebArchive`, `VideoPolls` and `DesktopPurchase` | |
| `ChannelsProofs`, `FeishuProofs` | theorems about `ClaimLease`, `WeixinBridge` and `VideoQueue`; about `FeishuBridge` | |
| `MC...` | instances for TLC | |

**State.**  A table is a function from keys to records with the columns the
operations read; a row that is missing has the status `absent` (or `none`).  A
random token or uuid is the next number, or the name of the worker that drew it.
A time is kept as what is left of it, so `lease_until > now` is `ttl > 0` and
`Tick` takes one unit from all of them; where only "past or not" is read, it is
a Boolean that an action of its own makes true.  A clock that is read before
the lock is taken lags: the operation sees a time up to `MaxLag` units younger.
`grants` and `claims` in `TaskLedger`, `charged` in `PaidImage`, `sent` and
`landed` elsewhere are history: what was returned, charged or has arrived.

**Actions.**  An operation of a store is one `BEGIN IMMEDIATE` transaction and
one action.  An operation that returns `False` or raises rolls back, so it is a
step that does not happen; where the caller does something about it, the
caller's module has an action for it.  Files are no part of a transaction:
moving, erasing and reconciling them have actions of their own and can be cut
short.  A coroutine's steps lie between its awaits, a thread's between its
transactions.  A request to another machine is two steps, the one that takes
effect and the one that hears of it; the second may be lost.

**Faults.**  What may go wrong without a reason in the state (a crash, a
cancellation, a failing database, a lost answer) is counted in `faults`, which
`MaxFaults` bounds; the counter is the only thing these actions share.

**Operators that are marked _Faulty_** are deliberate mistakes.  Nothing uses
them in a run; put in the place of the operator that follows them, each makes a
property fail, which shows what the property is for.

## 4. The runs

Components that share no state are checked in one run: a behaviour of such an
MC module chooses one of several *parts* in its first state (`part`) and follows
its specification; the variables of the other parts stay as they are.  The
states of a run are then the sum of its parts' and not their product, and a
property such as `StoresAreKept` names what it says of each part.  Where the theorems are
about a module, the MC module extends it, so that theorem and run speak of one definition.

| run | parts and their instances | shows |
|---|---|---|
| `tasks` | any calls to the ledger (one job of three steps of which two depend on the first, two owners, leases of 1 and 2), too small for the largest records of all its steps; two runs of such a job, with a lease of 1, one attempt for a step and short texts; two writes of a file of two contents with room for both receipts, or for one | `LedgerInv`, `NoLeaseIsStolen`, and the promise (`KeepsPromise`); the end of what runs always fits (`TerminalFits`); a run gives the job back and leaves no step stuck (`JobIsGivenBack`, `NeverStuck`); a restoration is what its receipt says (`UndoIsHonest`) |
| `paid_media` | two image handlers over both stores (two purchases, room for one, three claims, a download); any calls to the request store (two purchases, two request bodies, room for one, four claims); any calls to the asset store (two purchases, three stagings, two downloads, room for one); a purchase of the desktop with four openings of stages and six faults; two processes over an archive with three documents that share assets, and room for two; an operation of the console, run by two processes and sent twice; three polls of a video | of the handlers: charged once (`PaidOnce`); bytes before the answer, acknowledgement in order, and what is served is on record (`BytesFitAnswers`); the invariants and the promise of the two stores they use (`StoreInv`, `FilesAreKept`, `KeepsPurchases`).  Of the other parts: the two stores keep theirs under any caller, rows and files agree in the archive and for a video, and the console pays once (`StoresAreKept`); what the desktop sends is on a record that the root has seen, a dispatch or an archive that is cut is repaired, and what was archived or ended stays so (`PurchaseIsProved`) |
| `calls` | three calls of two prices and two budgets; two runs of one operation with a backup model | the books of the ledger and the budget (`BooksInv`, `KeepsBudget`); of two runs of an operation too, one attempt at most reaches a provider, and what may have is on record with its money (`AttemptsAreAccounted`) |
| `gates` | four requests of two keys at every limit; three videos and two slots; two components of a root in two epochs, two mutations, three faults | slots and windows are exact (`CountsExact`, `WindowIsExact`); no more videos at the provider than slots (`CapacityIsKept`); a purchase goes outbound once, with its record confirmed, and a ledger with a gap serves no more (`OutboundOnce`); the root never runs backwards (`RootIsKept`) |
| `chat` | two owners of one message whose model may change; two messages and room for one; four callers of two feedbacks | one agent at most reaches a provider for a turn, and no other request may begin one that runs (`TurnRunsOnce`); one answer (`ToldTheSame`, `KeepsPromise`); the same where messages compete for room, and feedback applied once within its own (`OnceInRoom`) |
| `channels` | the Weixin bridge with two workers, and with one and every way out; three videos and two workers; the Feishu bridge with a picture; two claims of a row | no chunk of a reply and no video arrives twice, and done means done (`RepliesAreSent`, `VideosAreSent`); a chat hears its answers in the order of its messages, at Feishu with nothing sent twice between two workers (`OrderIsKept`); claim sessions tell the truth (`LeaseIsTrue`, `WritesFollowClaims`) |
| `ends` | a run of a job; runs of the failover; requests at the gate; the two bridges | liveness under weak fairness: runs end (`EveryRunEnds`), holds and slots come back (`NothingIsHeldForever`), chats come to rest (`BridgesComeToRest`); safety of runs of an operation that follow each other (`CallsAreAccounted`) and of the Feishu bridge (`DeliveriesAreSent`, `OrderKept`) |
| `answers` | a repeated message; videos; the pool; a claim session | liveness under strong fairness: an answer comes, videos end, sessions end |
| `image_room`, `image_readable`, `video_broken`, `desktop_retry` | one of each | *violations*, see below |

Every run but the violations covers the whole state space of its instance.
`CHECK_DEADLOCK FALSE` everywhere: the bounds on epochs, tokens and faults stop
a model where the program would go on, and a chat at rest is quiet.

**Bounds.**  Two of everything that competes (owners, workers, handlers,
messages of a chat, budgets), since every hazard listed is a matter of one
actor and another that came before or after it.  `MaxEpoch`, `MaxTokens` and
`MaxClaims` limit claims: an owner and its successor, or three where a stale
credential meets both.  Runs write no long texts in `tasks`
(`ShortTexts`): how full the ledger is, is a matter of its calls.  Leases and retentions of one or two units let a lease be running,
expiring and over, with a heartbeat in between.  `MaxLag` of one makes a clock
as wrong as a lease is long.  `PruneBatch` of one with two rows to prune makes
the batch too small; `Room`, `MaxRecords`, `MaxReceipts`, `InRoom`, `OutRoom`
and slots are one less than what asks for them.  `MaxAttempts` and `MaxSends` of
two stand for the bridges' 8 and 12: a first try, a retry, and the end.
`MaxFaults` of two to four allows a fault while the recovery from another is
under way.  In `gates`, `MaxInspections` is the code's five; `MaxCas` is two
where the code tries four times, `MaxLooks` two for four.  In
`paid_media`, an operation of the console may be retried for one unit of time and
an answer is kept for two, where the code has 27 and 30 days
(`WebAssumption` needs the order alone).  Symmetry is declared
for sets that no `CHOOSE` picks from, and never in a liveness run.

**Fairness.**  Safety modules assume none.  Where liveness is stated it rests on
what the code schedules:

* `JobRunner`: time passes, the coroutine of a run is scheduled, an executor ends
  (executors have timeouts).  Nothing of heartbeats, of the threads of renewals, or
  of the database, so `EveryRunEnds` holds with heartbeats that never run.
* `Failover`: every step of a run is weakly fair, since each waits under a deadline;
  an open attempt comes of age and the ledger is reopened (each start of the
  process does it).
* `Admission`: the event loop runs what is ready.
* The bridges: their loops poll, recover and drain for ever, their workers are
  threads, an operator looks at what is uncertain (`Close`), an outage of models ends
  (`FindModels`).  `VideoQueue`: an upstream generates what it accepted, and a
  worker that is again and again able to work does (strong, because leases run out
  under it).
* `ChatTurn`: clients repeat, handlers run, deadlines of 55 s fire, calls time
  out, leases of owners that are gone lapse, rows age, and an agent
  ends some time (strong).  The route of the model returns; with two models a
  changed route makes a message conflict for as long as it stays, so this
  instance has one.
* `ClaimLease`: each thread runs, and a lock that is free again and again is
  obtained (strong).
* Nothing is assumed of crashes, of the provider's success, or of buyers: a
  purchase in `recovery_required` may wait for an operator for ever, by design
  (ADR 0007), and a reservation of a turn whose client never comes back holds
  its room.

**What the violations show.**

* `image_room`: a handler that lost its claim compensates with a release that
  names the turn alone and so deletes the mirror reservation of the handler that
  took the claim over, which then pays with no reservation in the asset store.
* `image_readable`: receipts of acknowledgements are never deleted and a key
  always makes the same turn.  When the key is used again after its purchase was
  acknowledged and expired, the second purchase is paid for, and its assets can
  be neither read nor acknowledged.
* `video_broken`: the chat is to be told of a video whose generation failed; the
  worker has no claim of a message and the outbox asks for one, so that the text is refused
  each time, the row never ends, and the chat waits behind it.
* `desktop_retry`: the executor of the desktop takes a second clean-up of one
  operation in one process for another intent in conflict with the first, so two
  failed downloads of one picture end in manual recovery, from which no code
  returns, though the user was told to retry.

## 5. The proofs

`TaskLedgerProofs` proves, for any number of jobs, steps, owners and any
dependencies, sizes and bounds allowed by `LedgerAssumption` (dependencies point
to earlier steps, as `_normalise_execution_steps` ensures; a headroom is at
least as large as the largest terminal text; `NoOwner` is no owner):

* `TypeCorrect`: every row keeps its type.
* `LedgerCorrect`: `LedgerInv`, the inductive invariant.
* From it `HeadroomAlwaysExact`, `CompletionInOrder`, `FailureAlwaysAtomic` and
  `FencingHolds`, and the action properties `FinishedForGood` (a done step or job
  never changes) and `LeasesAreSafe` (no live lease is taken over).
* `PromiseKept`: the refinement of `TaskPromise`, a step at a time.
* `EndsCanBeRecorded`: `TerminalFits`.
* Of the workers (`RunnerAssumption`): `RunnerUsesLedger`, `JobGivenBack`
  (`JobIsGivenBack`) and `NeverStuckHolds` (`NeverStuck`).

None of the invariants is inductive alone.  `FinishStep` is guarded by the
claim's token and the lease columns, so to know that it finishes a running step
one needs `LeaseColumns`: only running steps have a token.  That done steps stay
done, and with it `DependenciesFirst` and `DoneJobIsComplete`, rests on this: the
only writers of a status are `FinishStep`, which writes running steps,
`ClaimNextStep`, which writes pending ones, and `ClaimJob`, which resets running
and failed ones.  `ClaimsAreCurrent` needs `ClaimJob` to void every claim of the
old epoch, and `LiveChildHasRoot` needs `ReleaseJob` and `ClaimJob` to respect
live leases.  The proof has one lemma per invariant, with one step per action
that can disturb it, and frame lemmas (`RootFrame`, `StepFrame`) that say which
actions touch what.

That an end can be recorded is arithmetic on the payload: the invariant is that all that
is stored and reserved fits (`RoomInv`), and that it is finite; a text then takes the place
of the headroom that `HeadroomExact` says is there for it (`EndsFit`).

A worker and its threads present what the ledger handed them (`WorkersInv`), so
`RunnerSpec` implies `Spec` and the theorems about the ledger hold while workers drive it.
A job belongs to the run that was granted its newest epoch (`OwnedIsGranted`), and a run
has at most one step of its job under way, the one it executes (`OneStepAtATime`).  So when
a run with the lease finds nothing to hand out, no step of the job runs or has failed, and
the first that is not done would wait for nothing (`FirstOpenStep`): all are done.  When a
run ends and cannot give its job back, it owns a claimed step, and no one else's call takes that
step's lease or the job away from it but a new epoch.

Of the undo receipts, for any finite set of writes and any limit of the ledger
(`UndoAssumption`), it proves `UndoCorrect`: `UndoIsHonest`, that a receipt says restored
only of a file that has its pre-image, that nobody's edit is lost, and that no receipt is
spent twice.  What makes it inductive is what a restoration knows between its look at the
file and the replacement: the file is what the receipt says, or was touched since.

Of the ledger of calls, `GatesProofs` proves, for any calls, prices and budgets, and for
finishes and reconciliations that come late, twice or not at all:

* `BooksCorrect`: `BooksInv`, that no budget is overdrawn and that reservations,
  entries and calls tell one story.
* `ClosedForGood`: a call that is closed keeps its outcome.
* `BudgetKept`: the refinement of `Budget`, an entry at a time.

That no budget is overdrawn is about a sum over entries, and the balance about
another over calls.  A sum of amounts is the number of their units (`Units`), so
the library's theorems about cardinality do for it.  The invariant adds to
`BooksInv` that the sums are of finitely many units (`Counted`), that a
reservation has a price (`Priced`), and how the books balance (`Balanced`): what
was ever held is what calls keep of the budget, plus what was released.  Without
it a release of a hold that was never booked would keep every other part.

`GatesProofs` proves, of the admission for any requests, keys, limits and days
(`AdmissionAssumption`), and of the pool and the authority for any videos, slots,
components, claims and faults:

* `CountsCorrect`: `CountsExact`.  The counters are not defined from the
  requests in the code; that they agree is what a cancellation between two of them
  threatens, since the daily count is written in a thread.  The invariant has
  `OnItsWay`, `Slots` and `Charges`: a request whose count is written and which has
  not been passed on yet is already one of those its day counts.
* `WindowsCorrect`: `WindowIsExact`, from the same invariant.
* `CapacityCorrect`: `CapacityIsKept`.  A handler reads the registry twice and asks for a
  slot later, so what it knows is old.  The invariant says why that is enough: every video
  that occupies the provider was among those it read, or holds a slot that it sees
  (`ReadsInv`); what it read first and not again has ended.  `OccupiedFits` then counts what runs together
  with who is about to run.
* `OutboundCorrect`: `OutboundOnce`, and `RootCorrect`: `RootIsKept`.  `RootIInv` is about
  the root alone, under any caller (what serves is whole, receipts fit their epochs).
  Above it the question is what a file can be that was put back.  `FilesInv` says that a
  file which is not behind the root has the record of every claim that was sent, of the
  database and of the copy alike; `ServingInv` that who serves is behind neither; `WriterInv`
  and `OutInv` follow a claim from its record over the confirmation to the request; `GapInv`
  keeps what was taken over away from serving, by a mark in the file or by the root.

`ChatTurnProofs` proves, for any owners, messages, models and capacities
(`ChatTurn` with its two stores):

* `TurnsRunOnce`: `TurnRunsOnce`.  `RunInv` is what makes it inductive: a handler has
  an agent only where it waits for it (`OneAgent`), past the first fence the
  receipts know (`Fenced`), a receipt is forgotten only when nobody is at work for
  its turn (`OldIsQuiet`), what reached a provider is remembered by the receipts
  or by the ledger of calls (`Remembered`), and of those who may still reach one
  or pass the fence there is one (`OneRun`).  It needs `StoreInv`, what holds of
  the two databases, and `ToldInv`, by which receipt each answer was told.
* `AnswersAgree`: `ToldTheSame`.
* `PromiseKept`: the refinement of `TurnPromise`, through every handler and
  not for the store alone.

`ChannelsProofs` proves, of the claim sessions for any number of claims, attempts, tries and
faults (`ClaimLeaseAssumption`), and of the Weixin bridge and its video queue for any chats,
messages, chunks, workers, videos and limits (`BridgeAssumption`, `QueueAssumption`):

* `LeaseIsHonest`: `LeaseIsTrue`, from `RowInv` (only the last claim may own the row),
  `CommitInv` (a claim to come has committed nothing, and a finish takes the row
  from its claim) and
  `SessionInv` (what each place of a session implies for its thread).  That a worker which
  heard nothing may ask the row whether its finish stands needs `CommitInv`: the
  row remembers the last finish, and none that was not committed.
* `WritesAreInOrder`: `WritesFollowClaims`; a fenced write compares
  the row's claim in its own transaction, and the owner is the last claim, so that
  none is of an earlier one.
* `RepliesCorrect`: `RepliesAreSent`, and `OrderCorrect`: `OrderKept` of the bridge.  Nothing
  is sent twice because a row that has not begun has not landed and one in flight has not
  either (`OnceInv`, `FlightInv`).  The order rests on `BehindInv`: behind a row that has
  begun, every earlier message of the chat is closed, with its rows and its video, and closed
  it stays.  `ChunkInv` says the same of the chunks of a reply, `TextInv` and `ReplyInv` that a
  worker is past the reply of its message only when the reply, the answer of the turn, is in the
  outbox.  Where retention may take a row (`prunes`) or the gateway has no model (`outages`), the
  properties say less, and so does the invariant.
* `VideosCorrect`: `VideosAreSent`, and `VideoOrderCorrect`: `VideosInOrder`.  `SoundVideo`
  says of one row how its phase, its request and what arrived agree; behind a row that
  somebody has taken all others are over.

`FeishuProofs` proves, for any chats, messages, workers, pictures and limits
(`FeishuAssumption`):

* `DeliveriesCorrect`: `DeliveriesAreSent`.
* `DeliveryOrderCorrect`: `OrderKept` of this bridge.

The rows of the outbox have ranks, a row is drained in the order of its rank, and a worker may
store for a message while those of the message before are being sent.  Order between messages
is therefore two facts: an earlier message is over before a later one stores anything
(`BehindInv`), so that ranks follow messages (`RankInv`); and what is open in a chat was stored
after whatever was taken there (`LineInv`).  `UploadInv` is the picture: a request to upload
whose outcome is not known keeps its message from being handled by anyone, and a worker that is
about to send one owns the message and knows the outcome of all before.  `AnswerInv` says that a
worker is past an answer only when it is in the outbox.

`FailoverProofs` proves, for any operations, coroutines, chains of models and
prices, and with crashes at any step (`FailoverAssumption`):

* `CallsAccounted`: `CallsAreAccounted`, that one attempt at most of an operation is at a
  provider, that what may be has its money held, captured or under review, and
  that the memory of models is bounded.
* `LedgerIsUsed`: whatever the runs and the threads they left behind do to the
  ledger is a step of `CallLedger`.

One attempt per operation is a fact about the numbers of its attempts.  They are recorded
in order, and number *n* only after all before it are *gone*: on record, so that no
other run can make them, and not with a provider (`SentInv`).  A run past an
attempt carries this knowledge (`RunOK`), and so does a write it left behind
(`StrayOK`), which may land after another run has gone on.  The verdict is where
it could go wrong: only of an attempt that is gone it may say that the next model is
tried or that the money is released (`VerdictOK`); a verdict "cancelled before
invocation" is such a one and "cancelled" is not.

`PaidImageProofs` proves first of the request store, for any number of purchases, digests and archives,
any lease, retention and lag, any batch and any limits (`MediaAssumption`):

* `StoreCorrect`: `StoreInv`, the inductive invariant, with `RowsTyped`,
  `TablesAgree` and `RoomIsCounted` as its parts.
* From it the action properties `EvidenceStays` (an outcome that must be kept is
  never forgotten) and `AckStays` (an acknowledgement is never exchanged).
* `PurchasesKept`: the refinement of `PurchasePromise`.

Everything but the counter is about one row and its authority, while a claim may
rewrite many rows.  So the proof first reduces every action to `RowStep`, the
fourteen things a step can do to the row of any one turn; for a claim (`ClaimRow`)
all that matters of the batch `_prune` chooses is that it concludes ambiguous
claims and that what it deletes is droppable (`PruningFacts`).  `RowOK` is what
the invariant says of one row; `RowKept` shows that `RowStep` preserves it and
`RowPurchases` that each kind of step is one of the moves the promise allows.
The agreement with the authority cannot be separated from the type: that an
abandoned or pruned row takes no committed assets with it needs
`AuthorityMatches`, and that an answer commits a token that is not 0 needs the
columns to agree.  The counter is the cardinality of a set of turns and rests on
the library's theorems about finite sets.

Of the asset store and the handlers it proves, for any number of purchases, handlers, readers, claims and
archives, any room, leases and lag (`MediaAssumption`, `AssetAssumption`):

* `FilesCorrect`: `FilesAreKept` of the asset store under any calls, with crashes between
  a row, the move of its file and its commit, and reconciliations that are cut.
* `ChargedOnce`: `PaidOnce`.
* `AnswersHaveBytes`: `BytesFitAnswers`.
* `RequestsUsedRight`, `AssetsUsedRight`: whatever handlers, endpoint and downloads
  do to a store is a step of that store or leaves it alone.

`FilesAreKept` is not inductive.  That a reconciliation or a failing commit deletes no
registered file needs `Staging` and `Registered`: a tombstone belongs to the thread that
stages its token, and what is registered is staged by nobody any more.  That an
acknowledged file goes before its row, and not under a reader, needs `Acknowledged`,
`Draining` and `Leased`.  Together they are `AssetInv`.

`ImageInv` adds what connects the stores.  A handler knows its purchase by the number of
its claim, so `Issued` says that a number has one handler and one purchase, and that no
number to come is in use.  `Charges` orders the fence, the provider and the staging.
`OnePurchase` is the heart: what may have cost something and was not acknowledged
(`MayCost`: it was charged, or its handler is past the fence) is on record, as a
claim at work, an unknown outcome or an answer whose room is held, and there is one for
a purchase.  It stays so because a row in the provider phase is concluded and never
handed on, and because rows whose room is held are not dropped, which is why it needs
`RoomIsHeld`.  `Finished` says that who is about to record an answer has finished it in
the store of assets, `Receipts` how far an acknowledgement has come, and `Looked` what a
download may believe after each of its looks.  The refinement is used inside the
proof: every step is, for each store, one of its own steps (`StepsOfStores`), so that the
invariants of the stores are kept by the theorems about them.  The other parts are shown
for what a step can do to one column of one purchase (`AuthorityPath`,
`ReservationPath`, `AssetPath`, `LeasePath`, `DownloadPath`) more than for each of the
thirty-five actions.

`PurchaseProofs` proves of the Web console, for any operations, contents and processes
(`WebAssumption`):

* `PurchasesCorrect`: `WebInv` (`PaidOnce`, `ReleasedInOrder`, `DeliveredIsOwned`,
  `ReferencesLive`).
* `ResultsCorrect`: `ResultsAreFinal`.

The journal, the store of requests, the store of assets and the archive are four places
that are written one after the other by processes that cut each other off, so the
invariant says of one operation what each place implies for the others (`InJournal`, `Money`,
`Bytes`), and of a run and a hand-over that what they have learned stays true (`RunInv`,
`MoveInv`).  A purchase may be paid and have no row any more; then it is as old as the
retention and no run begins it again, which is the part of `Money` that `PaidOnce` needs.

Of the archive it proves, for any gateways and any documents that share contents
(`ArchiveAssumption`; there is a document, or the archive has nothing to do):

* `ArchiveCorrect`: `ArchiveInv`, that a row has its file, a document on record is complete,
  the counters are exact, and a clear flag may be trusted.
* `ArchiveKeeps`: `ArchivedStays`.

`PlaceInv` is the strengthening: what each step of a batch may leave behind, at most one
thing that no document owns and its batch does not know.  The counters are cardinalities.

Of the polls of a video, for any number of polls (`PollsAssumption`):

* `VideosHaveBytes`: `PollInv`, that a video that is registered has its bytes, whatever
  polls overtake each other (but for the one whose own late poll deleted it, see
  section 6), that its answer is the asset, and that a failed one holds nothing.
* `VideoEndsOnce`: `EndIsFinal`.

Who still asks the provider has staged nothing and finds no token (`StagesInv`), and before
the token nothing of the video is anywhere (`RowInv`).

Of the desktop, for any bounds on stages and faults (`DesktopAssumption`):

* `DesktopCorrect`: `PurchaseIsProved`, that a request on its way is on record, that a program
  that is ready has exactly the stores its document proves, and that an operator is asked
  for only after a legacy mutation or one of stages.
* `DesktopStepsAreProved`: `DesktopStep`, that the stores change under an intent only,
  under a durable one after the root has followed to it, that manual recovery is not undone
  by it, and that nothing is sent without the proof.

The stores are three files and the proof of them a fourth, so between a mutation and its
document they differ; the invariant says how.  `EvidenceFits` has, for each intent on
record, what may have changed since its evidence, which is why a handler that resumes after a
crash meets its own half-done work and no other; `IntentFits`, `ModeFits` and `Unfenced`
tie the mutation in memory to the intent and the root; `AfterHandler` says what
a handler has done when it returns; `ReadyIsProved` that the mode is ready only at rest.

What the two findings say is visible in `PaidImageProofs`: `ImageInv` cannot claim that a charge has
its reservation in the asset store (`image_room`) nor that an answer can be read
(`image_readable`), and the proof does without both.

**Model-checked only:** all liveness, which the prover cannot do (it has no rule for
fairness or `ENABLED`), and what the runs say of the feedback (a part of `OnceInRoom`).
`StoresAreKept`, `PurchaseIsProved`, `UndoIsHonest` and `AttemptsAreAccounted`, and parts of
`OnceInRoom` and `OrderIsKept`, take a proved property of an instance: the theorems are about
the module, the runs about its instance.

## 6. Divergences met while modelling that have no run of their own

Each is a behaviour of the code that a comment, a docstring or the code's own
purpose speaks against.  They were seen while translating, and most in a run of
an earlier form of the model.

* *Attempts of a step.*  They are compared with `max_attempts` only when an
  executor raises; a step whose worker dies is handed out again without limit,
  where the docstring of `run_job` promises at most `max_attempts` tries.
* *Weixin.*  The operator's close of the first chunk of a reply leaves the
  second in the outbox for ever.  Retention may remove the reply of a message
  that is not finished, whose retry sends it again.  Media generated by a tool is sent without
  a row, and a retry sends it again.  A redelivered update whose row was
  pruned is a new message.
* *Feishu.*  `_feed_pending_videos` marks an upload in flight as
  `recovery_required`, so that the confirmation of the upload fails.
  `_allow_inbound` says a durable retry does not consume the rate limit twice
  (`run_feishu_bridge.py:709`), but attempts are not raised when a claim lapses
  or the process restarts, so such a retry may be limited: the executed turn is answered with
  "too fast", or conflicts with the reply on record until it is
  dead.  A picture that is uploaded again after a lost finish conflicts under its
  key and goes to `recovery_required`.
* *Failover.*  A stream that is slow or empty before its first chunk ends the
  operation with an unknown outcome and only a failed connection goes on to the next
  model, where the docstring at `failover.py:779` names all three.
* *Breaker.*  An attempt of a stream that fails before its first chunk is noted
  by an inner and again by an outer handler (`failover.py:872`, `:1089`), so one
  failure is two to a breaker that `quota_state.py:95` says opens after so many
  in a row.
* *Desktop, after the archive.*  `executeImage` parses the result it reads back
  with the parser of an answer, which refuses the form `{data, created}` that the
  real vault returns (its double in the tests returns the other).  The call ends
  as unknown, the result is never ready, nothing is acknowledged, and a retry in
  the same process asks the vault for stages it refuses, so that the intent is
  left pending and fails again at every start; ADR 0009 (line 92) promises that
  the transition is made up for.  `Returns` and `HandleReserve` have this.
* *Desktop, at the start.*  Stages that were open when the process died keep the
  second protocol off at every later start, and no code cleans them; a picture
  archived under it is then handed to the first protocol's recovery, which throws
  and fuses.  The reconciliation of capacity releases the reservation of an
  archived picture, after which its retry finds its dispatch evidence in conflict.
  A crash between the reservation and the opening of stages, or between the mark
  of a clean-up and its end, makes the resumed handler see a conflict: manual
  recovery.  `ManualIsForTheRest` says that this is so for these two kinds only.
  A disk without room inside the dispatch handler leaves its intent pending.
* *Desktop, claims.*  The IPC asks for the first protocol's probe before a new
  claim (`paid-media-ipc.ts:367`), which is switched off for good, so no purchase
  can be begun at this commit.  An exception of a legacy mutation that only
  refuses (a second claim, an acknowledgement too early) fuses the authority, and
  the next start is manual; so does any call that reaches the outbound proof
  while the mode is manual.
* *Videos.*  A poll whose lease of five minutes ran out while it downloaded has
  registered its file as pending and moved it.  A later poll finds the pending row
  (`_recover_prepared_pending` does not look at its lease), registers that file and
  may even answer.  The first poll's own transaction then finds the ordinal taken,
  and its `except BaseException` (`paid_media_asset_store.py:2752`) deletes the
  object that the other registered: a paid video without bytes, which can be neither
  read nor acknowledged.  The comment above it says that deleting the object of a
  committed receipt would corrupt it, and excepts one case only.  `VideoPolls` has
  this (`overtaken`) and `VideoHasBytes` excludes exactly it.  A staging that
  fails after its row and before its move leaves a row without a file, which every
  poll refuses until another purchase's `reserve` clears it fifteen minutes later.
* *Web console.*  A paid answer that comes after its operation was reconciled by
  hand is recorded in the index of contents, but no listing shows it, and it keeps
  its room until somebody reads the asset.  A cancel that was answered with success
  is undone when another process marks the operation recoverable.  An answer that
  `read-asset` archived and that was pruned thirty days later can no longer be
  acknowledged: `ack_asset_success` raises a conflict that the endpoint does not
  catch, and the operation blocks new claims until it is reconciled.
* *Job pool.*  A rebuild can leave a slot with a video that ended, until its
  lease runs out.
* *Undo.*  A file edited between the read and the `os.replace` of an undo, or of
  the writing tool, is overwritten; the model has this window (`touched`) and
  `UndoIsHonest` excludes exactly it.
* *Chat turns.*  The endpoint picks the model, and answers 503 when none is ready,
  before it asks the replay ledger, so that the replay of a turn that succeeded is refused as
  an outage, which the comment at `app.py:4304` wants to avoid.  With a replay ledger of one row and full receipts two clients
  can refuse each other for ever.
* *Budget.*  Nothing outside the tests constructs a `CommercialBudgetAuthorization`.
* *Re-anchoring.*  No adapter of the re-anchoring of ADR 0008 is in the sources;
  the model has the root's transactions for it.

## 7. What the models leave out

* Opening a store: schema creation, migration, integrity and file identity
  checks, WAL settings.  A store that fails them does not open.
* Jumps of the wall clock.  Clocks that lag are modelled.
* Byte lengths, hashes, canonical JSON, signatures, the wording of errors.
* *Media requests:* the channel profile, `manual_only`.  More than one asset per
  purchase (the code allows four and stages them one after the other), prepared and base64
  assets, which share the commit path.  A commit is a commit in `MediaRequests`; what the
  anchor and the root make of it is in `GatewayAuthority`.
* *Image handler:* a plain image's response cache.  The buyer who
  acknowledges is taken at its word.  In `AssetStore` an
  acknowledgement erases only the assets that its receipt names (`OfPurchase`).
* *Videos:* one asset, one purchase, the frozen route, the accounting of polls; rows
  without a reservation (the first protocol); the pruning of a failed video.
* *Web archive:* damage to files, the limits of reads, identities of files; every
  object is one byte and a document's members are counted with it.
* *Web console:* one principal and one epoch, so that a receipt is a function of
  the purchase; all images are the same bytes and so are all videos.  Listings,
  cookies and sessions, the operator's recovery.
* *Installation:* copies are taken of stopped files that the root confirms; an identity is
  an epoch, a digest a function of identity and sequence; the compare-and-swap is
  "fresh or not".  The updater's floors, the controllers of the assets
  and of channel media (which follow the same steps), the HTTP interface and
  backup manifests are left out.
* *Chat turns:* a handler's steps are atomic calls of a store; a response is
  one unit of room; retention of 30 days is a Boolean.
* *Weixin:* `chat_seq` is the number of the message; a claim's token is its worker's
  name; order is stated across messages and chunks.
* *Feishu:* messages are numbered in the order stored; limits are per chat; progress and
  terminal rows exist for text messages; retention, files, schedules, videos,
  access guidance and the chain of an operator's receipts are left out.
* *Admission:* requests without a key; per-key limits of the pool.  One process.
* *Undo:* one restoration at a time (the endpoint is synchronous on the event loop); links,
  signatures, sizes.
* *Desktop:* one operation, claimed before (see above), with one picture; videos,
  the first protocol's requests, claims, what follows a ready result, provisioning,
  held stages (a leaf that was damaged or replaced) and files that do not decode.
  The root is what one document can see of it: behind or not, fenced or not.
* *Not modelled:* see the statuses and notes in `PROJECT.json`.  Task endpoints
  answer 503 in this edition; caches and usage counters cost money or time and no
  correctness; plugins and the shell depend on the operating system; agents,
  modes and workflows are sequences of model calls whose content decides.
