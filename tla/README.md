# Flipcash for iOS in TLA+

The iOS app of Flipcash (formerly Code) is a wallet for cash that is handed
over by scanning a bill on another phone's screen, sent as a link, or sent in a
chat. This directory holds a formal model of its concurrent core: TLA+ modules
translated from the Swift sources under `src/` (and, for the scanner's codes,
C++), configurations for the model
checker TLC, and proofs checked by TLAPS.

Three facts shape every module:

- Most of the app runs on the main actor or in an actor of its own. Code
  between two `await`s is atomic; interleavings happen at the awaits, and at the
  unstructured `Task { ... }`s that callbacks and synchronous callers start.
- Money moves on a server the app sees only through calls that may be slow, be
  refused, or lose their answer after they took effect.
- Cancelling a task is a request. A task looks at it where the code says
  `Task.checkCancellation()`, or not at all.

## Inventory

| Component | State it keeps | Operations | What is hard about it | Model |
|---|---|---|---|---|
| Bill session (`Session`, `SendCashOperation`, `ScanCashOperation`, `TipFlow`, `GiveViewModel`) | the bill on screen and its buttons, the stored operation, the one dialog, the valuation sheet, `scanOperation` | showCashBill, dismissCashBill, the operation's run, Send as a Link, scan, give, claim a link, tipcard | orphaned operations, one slot written by several tasks, a lost answer, two intents under one id | `BillSession`, `SessionToasts` |
| Toasts (`ToastQueue`, `Session.toast`) | a queue, the visible toast | enqueue, consumeToast | consumer tasks side by side | `Toasts`, `SessionToasts` |
| Stream handles (`GRPCStream.swift`) | task, generation and two flags under a lock | open, finish, cancel | decisions taken under the lock and acted on after it | `ServerStream` |
| Event stream (`EventStreamer`) | the stream held and its generation, three flags, two timers | subscribe, ensureConnected, stop, callbacks, timers | late callbacks, timers past their cancel, sessions that overlap | `EventStreamer`, `StreamKeeper`, `SessionCalls`, `ConversationSessions`, `SessionStreams` |
| Messaging (`Client+Messaging`, `MessagingService`) | the message stream of a rendezvous key, the polls for it | openMessageStream, sendRequestToGrabBill, awaitGiveRequest | a stream that closes without telling its reader, requests lost with it | `BillContract`, `BillExchange` |
| Transactions (`TransactionService`, `Intents/`) | the phase of one submitIntent stream, the polls of an intent | submit, handleSuccess, pollIntentMetadata | a stream without a timeout | outcomes and polls in `BillSession`, `BillExchange`; the phases planned |
| Rates (`LiveMintDataStreamer`, `VerifiedProtoService`, `RatesController`) | as the event stream, plus the mints subscribed to; signed rates and reserve states in memory and in a table; the rates on screen and in a second table | start, updateMints, ensureMintSubscribed, timers, save, warm load | two sets of mints on two actors, a leftover reconnect timer, batches out of order, two tables written by two threads, restarts | `LiveMints`, `LiveRates` |
| Chat (`ConversationController`, `ConversationStore`, `Database+Conversations`) | transcripts, event log cursors, optimistic sends, read pointers, typing | apply an event, catchUp, send, markRead | gaps, reordering, failed writes, a crash between two of them | `EventLog` for rows and cursors; sends, receipts, typing planned |
| Contact sync | contacts as last uploaded, a checksum | delta and full upload | crash between server and database | planned |
| Authentication, accounts | keychain accounts, current and historical | login, logout, switch, migration | restarts halfway | planned |
| Sweep, deposits, wallets | one in-flight flag, order ids | sweep, hand-over to wallets | retries, app switched away | planned |
| Swaps | the phase of a swap stream | begin, sign, poll | partial failure | planned |
| Blob upload, history sync | attempt counters, cursors | upload, poll, page | retries | planned |
| Navigation, verification wizards, amount entry, push | screen state | taps | little; single-threaded | not planned |
| Codes (`CashCode`, `TipCode`, `KikCodes`, zxing's Reed-Solomon) | a buffer | encode, decode | error correction, zero bytes trimmed, an ignored failure | `GenericGF`, `ReedSolomon`, `ScanCode` |
| Bonding curve, Solana encodings, picture detection, views, generated API | none, or pixels | pure functions | arithmetic out of TLC's reach | not planned |

How they interact: a scan or a tap makes `Session` create a
`SendCashOperation`, which advertises the bill over Messaging, waits on a
message stream for a grab request, and submits a transfer over Transactions; its
outcome comes back to the task of `showCashBill` that started it, which writes
the dialog, the toasts and the screen. Amounts need a verified state from Rates.
Chat and Rates each own one long-lived stream, opened when a session starts and
closed at logout; both streams' handles are the ones of `GRPCStream.swift`.

What makes each part correct is stated with the module that has it, below, and
for the parts to come under *Plan*. `PROJECT.json` lists every hazard at its
line of the code, with the properties that watch it.

## Modules

### BillSession

One action per stretch of main-actor code between two awaits. The state is that
of `Session` (`sendOperation`, `billState`, `dialogItem`, `valuation`, the
pending valuation tasks), one record per bill of its `SendCashOperation`
(`op`: where `run()` stands, `cancelled`: its task's flag, `ignoresStream`) and
of its Send as a Link flow (`link`, `offered`, `announced`), what is about to
bring a bill up (`giving`, `scanning`, `claiming`, `tip`), and the server's
answer to *which intent was accepted under this bill's rendezvous key*
(`intent`). `IntentTransfer` and `IntentSendCashLink` both use that key as their
id, so the server takes one of them; this is what `NeverSharedAndSettled` rests
on.

`showCashBill` is `ShowCashBill` with three callers (`Give`, `Grabbed`,
`Claimed`); the task it starts is `Start` and `Complete`; `run()` is the chain
`starting, advertising, awaiting, verifying, transferring, polling` with one
action per way out of each await. A `catch` that begins with
`Task.checkCancellation()` is `CheckedFailure`; the ones that do not are written
without it. The bill's primary action is `SendAsLink`, then `AcceptLink` and
`LinkCreated`, or `LinkFailed`; the share sheet and its two dialogs follow.

Properties that hold:

- `BillOnScreenIsLive`: a cash bill on screen is backed by the stored,
  uncancelled operation, which still has an outcome to report.
- `ToastTellsTheTruth`: the "-amount" toast comes at most once per bill, over
  both flows, and only for money that left.
- `NeverSharedAndSettled`: a bill whose link reached the share sheet is never
  also settled to somebody who grabbed it.
- `QuestionIsOpen`: "Did You Send The Link?" is only asked of a link that waits
  for the answer.
- `DismissedBillWindsDown`: the operation of a dismissed bill closes, or waits
  for the answer to a transfer it had submitted.

What the code says and the model refutes (see *Refuted by hand*): "The cash was
returned to your wallet" for a payment whose answer was lost
(`ReturnedMeansNotPaid`); late errors kept off unrelated bills
(`OrphanErrorsStaySilent`). The second one rests on operations
nobody can tear down: `showCashBill` overwrites `sendOperation` without cancelling
what it held, and a `cancel` before `start` stored its task cancels nothing. The model also has the bill that stays deaf after a
failed Send as a Link (`LinkFailed` leaves `ignoresStream` set, as the code does).

### BillContract, BillExchange

`BillSession` sees one phone. `BillExchange` is the bill between the phones: the
giver's `SendCashOperation.run` once more, without its screen; the message stream
that `MessagingService` keeps open for it (`call`, `buffer`); any number of
receivers' `ScanCashOperation`s; and the server, external, as these use it
(`queued`, `connected`, `wire`, `intent`).

| Code | Actions |
|---|---|
| `SendCashOperation.run` | `GiveRequestQueued`, `Advertised`, `AdvertiseFailed`, `TakeRequest`, `SkipRequest`, `WaitCancelled`, `RequestRefused`, `TransferSubmitted`, `TransferAcknowledged`, `TransferFailed`, `Polled` |
| `dismissCashBill`, "Send as a Link" | `Dismiss`, `SendAsLink`, `LinkFailed`, `AcceptLink` |
| `openMessageStream` | `StreamOpened`, `Delivered`, `StreamUnavailable` (opened again at once), `StreamEnded` (not opened again, and nobody told) |
| `didScanCash`, `ScanCashOperation.run` | `Scan`, `GiveRequestFound`, `NoGiveRequest`, `Prepared`, `NeverPrepared`, `GrabAcknowledged`, `NoStream`, `ScanFailed`, `IntentFound`, `Denied`, `IntentMissed` |
| the server, the network | `AcceptTransfer`, `AcceptLink`, `ServerNotices` |

The server and the call disagree for a while on whether the stream is open: a
request acknowledged in between is lost. A transfer may reach the server after
the giver gave up on its answer.

- `KeepsContract`: the exchange implements `BillContract`. Of those who asked at
  most one is paid, or the link is; who is shown the bill as theirs was paid; the
  giver is told that it was sent only if a receiver has it. The mapping takes
  `paid` to the server's intent, `told` to the receivers that saw it and `sent` to
  the giver's outcome.
- `ScansEnd`: every scan shows the bill or lets its code be scanned again, but for
  one that hangs (below).
- `KeptUpIsGrabbed`: a bill that stays up on a live stream does not do so for ever
  while somebody keeps scanning it, one whose scan does not hang.

A scan may hang. Before it asks for the bill the receiver awaits `createAccounts`,
a `submitIntent` stream without a timeout; a stream that stays silent, or closes
with status OK before the answer, never calls the completion
(`TransactionService.swift:739`). The operation then stays for ever and the code
cannot be scanned again: `NeverPrepared`, after which the receiver is `"hanging"`.

A stream that ends with anything but `unavailable` leaves a bill nobody can grab
until it is dismissed; `Client+Messaging.swift` documents an error for it that is
never thrown. The liveness property is stated for bills whose call is open.

### Toasts

`ToastQueue.insert` and `pop`, and the consumer task `consumeToast` starts on
every dismissal that finds a toast queued: 500 ms, then show for 3 s, then a gap
of 1 s, then again. `Tick` lets 500 ms pass for every task; a task whose delay is
over may run late. `NoToastStranded` says that a queued toast always has a bill
over it or a consumer on its way, although consumers leave on their own and
enqueueing starts none; `OldestFirst` that toasts go up in order, each once,
however many consumers there are; `ToastsDrain` that the queue empties. The
3-second window that `Session.toast`'s doc promises does not hold with two consumers
side by side, which cut each other's toast short; the model lets it happen.
`Inserted` compares with the front of the queue, which is
its newest toast and, with two queued, not the next one to be consumed.

### SessionToasts

`Session` is one object: what `BillSession` does to the bill on screen and what
`Toasts` does to the queue are parts of the same steps. `SessionToasts` extends
both and says which: a received bill enqueues a deposit toast (`ArriveToasting`), a
settled or shared one enqueues a "-amount" toast and is dismissed
(`SpendToasting`), the other callers of `dismissCashBill` dismiss
(`DismissToasting`), consumers move by themselves, and the rest leaves the toasts
alone. `worth` is the amount on each bill.

- `SessionComposes`: the composition implements `BillSession` and `Toasts`, so what
  each of them promises holds of the one `Session`.
- `ShowingIsTheScreen`: the flag by which `Toasts` stands for `isShowingBill` is
  what `BillSession` has on screen.
- `ClearScreenHasAConsumer`: while the screen is clear and a toast waits, a
  consumer is on its way.
- `SpentToastsAreTrue`: every "-amount" toast that is queued or visible announces
  the amount of a bill whose money left.

These four are proved for every set of bills, amounts and consumers. TLC checks the
last three on `MCSessionToasts.cfg`, by hand: two bills, two toasts, one consumer, one
arrival at a time and no tipcard.

### ServerStream

`ServerGRPCStream`, with every lock section an action and what a call does after
the unlock another: `Open`, `Store`, `Supersede` are `open`; `End`, `Finish`,
`Complete` the task it runs; `Cancel`, `CancelTask` are `cancel`. Any number of
opens may overlap, as the class allows. `NoOrphan`: once the calls have returned,
a connection that runs uncancelled is the one the handle can still cancel, and a
cancelled handle has none. `CancelEndsConnections`: after `cancel` every
connection ends. The doc says that `cancel` suppresses `onComplete`; a `finish`
that had already passed its lock section (`Finish`, then `Complete`) calls it all
the same, which the one caller, `MessagingService`, survives because a cancelled
handle refuses its next `open`.

### StreamKeeper, EventStreamer, SessionStreams

`EventStreamer` is the actor: every method is one step. What waits for the actor
is state: `callbacks` (the tasks of `onResponse` and `onComplete`, unordered,
each with the generation it captured), `timeouts` and `reconnects` (timers that
passed their `isCancelled` check and cannot be cancelled any more), next to the
sleeping timers `pingTimer`, `reconnectTimer` and `strayTimers` (a reconnect task
that was overwritten, not cancelled). A cancelled call may still hand over
messages it had received.

- `NotWedged`: a streaming streamer has a timer or a call on its way that will
  notice the end of its stream; the early return of `reconnect` never strands it.
- `OneStream`: only the held stream is up. The server evicts the older of two.
- `LateCallbackSparesReplacement`: what `streamGeneration` is for.
- `StreamComesBack`: a dropped stream is reopened.
- `KeepsOneStream`: the actor implements `StreamKeeper`, which says what its
  callers rely on: one owner at a time, until a stop, whoever subscribes
  meanwhile, and the stream that is up is the owner's. The refinement mapping
  takes `served` to the owner of the connection that is up.
- `FreshLive`, the doc's "a reconnect produces a fresh `.live`", is refuted by
  hand: `reconnect` does not change the generation, so a ping still on its way sets
  the latch for a dead stream, and the next stream's first ping looks like a repeat.

`SessionCalls` is the callers' side: the `ConversationController`s of one session
after the other, with `start`'s task (hydrate, subscribe), `stop`, which cancels the
task and stops the streamer from a task of its own, and `ensureConnected`. Two
modules give these calls a streamer: `ConversationSessions` the abstract
`StreamKeeper`, `SessionStreams` the actor itself with its late timers and
callbacks. `StreamOwners` declares the owners they share.

- `DrivesAKeeper`: `SessionStreams` implements `ConversationSessions`. The actor
  under its callers does what the contract says, step by step; a call that finds
  nothing to do is a step in which the keeper stutters.
- `StrayStreamHasACause`: a stream that is up for somebody not signed in has only
  two causes, a stop that still waits for the actor or a subscribe that ran after
  the logout. The second one bites: a logout while the start still reads the
  database is followed by the old owner's `subscribe`, and the next session stays
  on that stream (`StreamServesSession`, refuted by hand).

### LiveMints

The event stream's sibling, with a request that changes. `RatesController`, on
the main actor, keeps `streamedMints` and `pendingMints` (mints needed before they
are owned) and calls the streamer from tasks nobody awaits: `calls`, in the order
they were made, each with the mints it captured or `Late` while it has not read
them. `LiveMintDataStreamer` is modelled as `EventStreamer` is, with
`subscribedMints`, `sentSubscriptionUpdate` and `hasRecentPing` (`PingTracker`)
in addition; `request` is what was last sent on the held stream, `serves` what the
server took up. `updateMints` is `UpdateMints`/`ChangeMints`, and the abort by
which the server may answer a changed request is `HandleUpdateAbort`.

- `RequestsTheSubscription`: the last request of the held stream is the current
  subscription, through reopenings, restarts and updates between two openings.
- `NotWedged`: although `updateMints` opens a stream in the middle of a reconnect.
- `SettledFollowsApp`: once the calls are through, the streamer has the
  controller's mints and streams if the app is in front; after a logout it streams
  only if something asked for the stream since.
- `WantedMintsAreServed`: a mint that stays wanted is served in the end.

`updateMints` during a back-off opens a stream and leaves the timer set, which
then replaces that stream by another one: wasteful, and the model shows that it
harms nothing. A logout's stop is not final either: `TipFlow` calls
`ensureStreamConnected` after awaits that `logout` does not cancel, and the streamer
kept its mints, so it streams again for the session that ended, until its objects
are released (which is not modelled). The history variable `revived` remembers such
a call. `sentSubscriptionUpdate` is not set when the update opened a stream,
and stays set until the end of the stream, however long after the update.

### LiveRates

What that stream delivers. `responses` are the tasks of `onResponse`, which two
actors enqueue: they are taken in any order. `SaveRates` is `saveRates` with its
transaction, `WarmLoadFromStore` the launch's read of the table of proofs, `Clear`
the logout. What was published and not yet received is `ratesPublisher`; the main
actor shows it (`UpdateRates`) and enqueues it for the second table
(`UpsertRates`). `Relaunch` ends the process with everything queued. The history
variables `parted` and `published` hold the currencies of which the database lost
a write or a read, and those published since.

- `DisplayFollowsProofs`: with nothing on its way, the screens show the rate a
  payment would be signed with. The exception is a currency of which the database
  lost something, until its rate changes again.
- `TablesAgree`: the two tables agree once the queues are empty, with the same
  exception.
- `OlderProofHasACause`: an older proof replaces a newer one only by a late
  response; the warm load, whenever it runs, yields to the stream.

Both exceptions contradict something the code says, and are refuted by hand:
`FreshestProof` ("always uses the freshest signed rate proof",
`VerifiedProtoService`: two responses may be saved in the other order) and
`StreamOverwritesDisplay` ("the stream overwrites these within seconds",
`RatesController`: a process that ends between the two writes leaves the old rate
in the second table, and the next launch deduplicates the stream's rate against
the proof it warm-loaded).

### GenericGF, ReedSolomon, ScanCode

The field of 256 elements of the scanner's zxing, its polynomials, the
Reed-Solomon encoder and decoder, and the way of a payload from one screen to the
other phone: `PayloadBytes` (20 bytes), `Encode` (35 with the check bytes, in the
printed order), `Misread` (some bytes wrong), `Parse`, `Trimmed` and
`ScannedCode`. The algorithms are operators and folds, evaluated on real codes.

`ReadsWhatIsShown`: with up to six bytes wrong, wherever they are, every field of
the payload is read back. There is one exception. `KikCodes.decode` trims zero
bytes at the end; `TipCode.Payload` restores them, `CashCode.Payload` refuses a
short frame. A bill whose random nonce ends in a zero byte, one in 256, is
never read. After a failed correction `decode` returns what its local buffer
holds (`Scan` has both outcomes: an earlier code's bytes, or others).

### EventLog

One conversation: the server's log of mutations (a message sent, edited or
deleted, each with its event sequence), the rows and the cursor in the database,
and the feed row and cursor in memory. Everything that writes them is an action:

| Code | Actions |
|---|---|
| `start`, and the end of the process | `Start`, `Kill` |
| `persist(event:)` for sequenced events, the overlay, a touched or refreshed conversation; `deliver`'s confirmed row | `ChatEvents`, `NewMessage`, `ConversationTouched`, `MetadataRefresh`, and `...Unwritten` where the write fails |
| `hydrateIfUnknown` | `ChatFetched` |
| `loadFeed`, `replaceConversationFeed` | `FeedLoaded` |
| `loadMessages`, `loadOlderMessages` | `LoadMessages`, `MessagesLoaded`, `LoadFailed`, `LoadOlder`, `OlderLoaded`, `OlderFailed` |
| `catchUp`, its batches, `scheduleGapCatchUp` | `CatchUp`, `GapTimerFires`, `DeltaOpened`, `DeltaBatch`, `DeltaCompleted`, `DeltaFailed` |
| `resyncAfterReset` | `ResetRequired`, `ResyncLoaded`, `ResyncFailed` |

Calls are two steps or more, and what happens in between is free. Feed and
metadata answers, whose calls may overlap without limit, carry any state the
server has had. Events arrive late, twice, or with others missing. Every database
write may fail by itself; where the code writes twice (`dropStaleEpochIfNeeded`, then the page; messages, then the
conversation) the first may land alone. A row is not stored as a value:
`stored` holds the mutations the rows include, and the row of a message is its
newest.

- `CursorsRunBehindRows`: every message last changed at or below a cursor, in
  memory or in the database, is stored in that state. This is what `GetDelta`
  relies on, which only ever asks for what is above the cursor.
- `RowsNeverRegress`: no late copy takes a row back (a deleted message does not
  come up again); rows only go together, for newer ones than all of them.
- `PageStitchesNoGap`, what the comment of `dropStaleEpochIfNeeded` says it is
  for, is refuted. The guard compares the page with the newest row only. A row
  written beyond a hole (a live event, an own send, the feed's preview, which each
  feed load writes) makes the page overlap; `loadMessages` then keeps the old rows
  and seats the cursor above the hole.

The first property has two exceptions, and `passedOver`, a history variable,
holds exactly the messages they concern. A newest page seats the cursor above
older messages the client lacks or holds in an older state (the gap of
`PageStitchesNoGap` among them), and above rows it dropped;
`ConversationScreen.swift` says that the newest page is the fresh state. And a
delta batch that lands after a batch that failed seats the cursor above the
failed one: the recovery re-reads the database's cursor, which that later batch
has moved too. The comment there says that a rolled-back batch is not to be
orphaned; it has no run of its own.

Projected out, because nothing here reads it: pending sends before they are
confirmed, read pointers, activity dates, hidden flags, typing, the contents of
messages. Feeds of two types are one. A conversation exists once its first
message does.

## Runs

Every `.cfg` is run on the `MC` module of its component.

| Run | Question | Bounds |
|---|---|---|
| `bill_session` | the four invariants, every order of events | two bills, interchangeable; no limit on steps |
| `bill_winds_down` | does a dismissed bill's operation end | one bill |
| `bill_exchange` | the bill's contract, scans that end or hang, a bill kept up that is grabbed | two receivers, two attempts of each poll, two requests on their way |
| `toasts` | order, no toast forgotten, the queue empties | three toasts, two amounts, two consumers |
| `server_stream` | orphans; the end of a cancelled handle | three opens, one cancel |
| `event_streamer` | wedging, one stream, late callbacks, refinement of `StreamKeeper`, reopening | two owners, two streams, one fired timer of each kind waiting |
| `session_streams` | what may leave a stream without a session; the actor under its sessions against the keeper under them | two sessions (interchangeable), two streams, two waiting calls of a kind, one fired timer of each kind, one callback of each stream waiting |
| `live_mints` | the request and the subscription, wedging, the streamer and the app, every wanted mint served | the core mint and another, two calls on their way, two streams, one fired timer of each kind |
| `live_rates` | screens and tables against the signed proofs | two currencies, two rates (interchangeable), three batches, one failure, one restart |
| `event_log` | cursors behind rows, rows that never go back | a log of three mutations (two sent, the first then deleted), updates of two events, pages of one message, two calls at a time |
| `stitched_gap` | the comment on a page that does not overlap, refuted | three messages sent, updates of one event, pages of one, one call |
| `scan_code` | what is shown is read | four payloads, seven positions misread one, six or seven at a time, two codes one after the other |

Why the bounds are enough: the bill hazards need one bill and its replacement,
and a third bill meets the second as the second met the first. Two consumers
interfere pairwise; the third toast lets a consumer come back while another
waits. Three opens of a handle: one overtaken, one overtaking it, and one between
their lock sections. Two streams: the one torn down, with all its late callbacks,
and its replacement, which may itself break; in `session_streams` the second stream is the
next session's or the first one's again, and a callback that waits has the same effect
however many wait behind it. In `EventLog` a hole takes two
mutations and an older version of a row a third; pages of one message make every
second message fall off the page, and two calls are enough for one to overtake
the other. In `BillExchange` two receivers ask for one bill, the second attempt
of a poll is its last, and two requests are enough for one to be taken with the
other behind it. In `LiveMints` one mint comes and goes next to the core mint, and
two calls are enough for a stop behind a start or an update behind either; more
streams repeat the second. In `LiveRates` a batch may change a rate, a second one
change it back and a third arrive late; one loss parts the tables and one restart
reads them. In `ScanCode` six is the most the 12 check bytes correct (floor 12 / 2)
and seven one more. `MaxOpens`, `MaxDue`, `MaxToasts`, `Consumers`, `BillsLeft`,
`Log`, `MaxUpdate`, `MaxCalls`, `MaxMail`, `MaxProofs`, `MaxFailures`, `MaxLaunches`
and `MaxCodes` are the only bounds (the polls' limits are the code's, made small); each is named where it is
declared, and only the guards of arrivals, opens, firings, enqueues, updates and
calls mention them. Deadlock is checked except where the system may really rest:
a handle whose calls are over, a stopped streamer, sessions that have all ended,
a log that has ended, a bill's exchange that is over, batches or codes that are
used up. `BillSession` and `Toasts` never rest.

`StreamComesBack` and `WantedMintsAreServed` stop asking once the model's streams
are used up: the last stream may drop and the bound forbids another.

### Refuted by hand

Six more properties state what the code or its texts say, and TLC refutes them.
They keep a `.cfg` each, for `tlc -config X.cfg M`, and are not among the runs:

| `X.cfg` | `M` | What is refuted |
|---|---|---|
| `ReturnedMeansNotPaid` | `MCBillSession` | the dialog "The cash was returned to your wallet" |
| `OrphanErrorsStaySilent` | `MCBillSession` | errors of an earlier bill are kept off the one on screen |
| `FreshLive` | `MCEventStreamer` | a reconnect produces a fresh `.live` |
| `StreamServesSession` | `MCSessionStreams` | the stream is that of the session |
| `FreshestProof` | `MCLiveRates` | a payment is signed with the freshest proof |
| `StreamOverwritesDisplay` | `MCLiveRates` | the stream overwrites the rates read at launch |

## Fairness

- `BillSession`: each await of `run()` returns, because unary calls carry a 15 s
  timeout (`.unaryDefault`), polls are counted, and a stream whose task is
  cancelled ends. `submitIntent` has no timeout, so nothing is assumed of a
  transfer's answer; that is why `DismissedBillWindsDown` allows for it.
- `Toasts`: time passes, and a task whose delay is over gets the main actor.
- `ServerStream`: a thread inside a call goes on, and an RPC whose task was
  cancelled ends. A connection nobody cancelled may run for ever.
- `EventStreamer`: timers fire and the actor runs what waits for it. Nothing is
  assumed of the server or the network.

- `LiveMints`: the two actors run what waits for them and timers fire; the server
  reads what it is sent on a stream that stays up. The controller's tasks reach the
  streamer in the order they were made: they are created on the main actor with one
  priority and start there, and `SettledFollowsApp` rests on this.
- `BillExchange`: unary calls are answered or time out and polls are counted; what
  the stream holds is delivered and taken. Of `createAccounts`, which is no unary
  call, nothing is assumed: never being answered is one of its outcomes
  (`NeverPrepared`), and the properties except the scan it happens to.
  `KeptUpIsGrabbed` also needs a camera that keeps scanning the code (it scans every
  frame) and that a call made again and again, and answered each time, gets through
  some time (strong fairness); without it no bill need ever be grabbed.
- `EventLog`, `LiveRates`, `ScanCode`: none; their properties are about safety.

Apart from what is said of `BillExchange` and of `LiveMints`' server, no property
is checked under fairness of the user, the server or the network.

## Proofs

The proofs hold for every value of the constants, from the assumptions each
module names on them (that the bounds are natural numbers, and that the "none"
values are none of the others).

- `Session_proofs`, for any set of bills, amounts and consumers. Of `BillSession`:
  type correctness and the four invariants. None is inductive. `ScreenInv` (the
  stored operation is live even while the tipcard covers it; an unused bill has no
  past) carries `BillOnScreenIsLive`, since `EndTip` and `CompleteSend` may bring
  the session back to a bill whose history the screen does not show. `MoneyInv`
  ties the link, the operation and the toast to the one intent the server took, and
  carries `ToastTellsTheTruth` and `NeverSharedAndSettled`. `QuestionIsOpen` is
  proved from what keeps a link's state untouched while its dialog is up. Of
  `Toasts`: `NoToastStranded`, and `OldestFirst` from `Sorted` (the queue is sorted
  and all of it newer than the visible toast), with lemmas on what `insert` and
  `pop` do to the queue. Of the two together: `SessionComposes`, and from it and the
  invariants of the parts `ShowingCorrect`, `ClearScreenIsServed` and
  `SpentToastsCorrect`. The last one's invariant, `ToastsAnnounce`, says that every
  "-amount" toast, queued or up, is some bill's announcement; `ToastTellsTheTruth`
  says that a bill is only announced when its money left.
- `ServerStream_proofs`: `NoOrphan`. The invariant says who *holds* each running
  connection: an `open` that has not stored it yet, an `open` that is about to
  cancel it, the handle, or the `cancel` that read it from the handle.
- `EventStreamer_proofs`: `NotWedged`, `OneStream`, the refinement of
  `StreamKeeper`, and from the same invariant `LateCallbackSparesReplacement`. They
  are proved together (`Inv`), since the refinement needs that what is up is held,
  and that it was opened for the present owner (`UpForOwner`). `KeeperStep` splits on what a step does to the owner, not on the
  action: only `Subscribe`, `Stop` and `HandleDenied` change it. The same invariant
  holds under the sessions (a step of `SessionStreams` is a step of the streamer or
  leaves it alone), and with `CallsInv`, which says of whoever the actor
  keeps the stream for, up or not, what the property says of streams that are up, it
  gives `SessionsTypeOK`,
  `StrayStreamHasACause` and the refinement `DrivesAKeeper`, for any number of
  sessions and streams.
- `EventLog_proofs`: type correctness, `RowsNeverRegress` and
  `CursorsRunBehindRows`, for any log, any page size and any number of calls.
  The last is not inductive: a delta in flight has a checkpoint it may seat the
  cursor at next, so `CatchUpRunsBehindRows` says of it what the property says of
  the two cursors, up to the batches received. Its steps fall into those that
  store more and leave every cursor where it was covered (`CarefulStep`), pages
  (`PageCovers`) and batches (`BatchCovers`).
- `BillExchange_proofs`: type correctness and the refinement of `BillContract`, for
  any number of receivers. `Inv` follows a request from the server, which recorded
  it, along the wire, the buffer and the giver's target to the intent
  (`RequestsAsked`), and says that whoever believes the bill was paid is right
  (`BelievesWhatIsPaid`).
- `LiveMints_proofs`: type correctness, `RequestsTheSubscription`, `NotWedged`
  (with `HeldWhileStreaming`), and `SettledFollowsApp`. The last speaks of the
  moment the calls are through; `FollowInv` says of every moment what the calls
  still on their way will make of the streamer: the last one that carries mints
  carries the controller's (`MintsFollow`), the last start or stop agrees with the
  phase (`StartFollows`, `StopFollows`, the second unless something asked for the
  stream after the logout). `AppendFollows` and `TailFollows` are what
  it takes of sequences.
- `LiveRates_proofs`: type correctness (among it that no empty batch is published),
  the two invariants and the action property. That a published rate changed is said
  by no theorem of its own: what depends on it is what the screens show.
  The invariants speak of empty queues; `After` says what the queues will make
  of a map of rates, and `MemoryShown`, `TableShown` and `MemoryStored` state with
  it that the screens and the second table are going to agree with the proofs.
- `ScanCode_proofs`: `ReadsBack`, for every payload there is: the 20 bytes its
  encoder writes, trimmed and read by the initialisers, are the payload, with the
  one exception of a zero at the end of a bill's nonce. It assumes nothing but the
  types of the fields and that the eighth byte of an amount is zero (of an amount
  that has more, the code drops it; the frame has no room). `ReadsTheCode` and
  `ScanTypeCorrect` extend it to the printed code and any misreading of it, under
  `ReedSolomonCorrects`, which says what the error correction is for: the code word
  begins with its data, the decoder gives 35 bytes or gives up, and up to six wrong
  bytes of a code word are put right. `TurnedBack` is the step that matters: the
  code is turned by 22 bytes when drawn and by 13 when read, so the wrong positions
  of the picture are at most as many in the word to decode. `GlueAt`, `CutAt` and
  `ThreeParts` say what `\o` and `SubSeq` make of bytes.

Only model-checked: everything under fairness (liveness is out of the prover's
reach); and `ReedSolomonCorrects`, the hypothesis of two theorems of
`ScanCode_proofs`. What the folds of `ReedSolomon` compute for every input is an
induction over data, which the installed provers cannot do; the run `scan_code`
evaluates encoder and decoder on every frame it has, where a wrong decoder violates
`ReadsWhatIsShown` and a wrong length `TypeOK`.

## Plan

What is left, in this order; each step is a module with its runs, then its theorems.

1. `SubmitIntent`: the phases of `TransactionService.submit`; completion called
   exactly once per submission, including a stream that closes early.
2. `OptimisticSends`: pending rows against their echoes and re-deliveries, a retry
   that the server takes for the original, and the transcript window over
   `EventLog`. Abstract specification: each send is in the transcript once, until
   it is confirmed or failed. With it, what the user can still page to after an
   epoch was dropped.
3. `ReadReceipts` and `Typing`: pointers that only advance, indicators that
   expire.
4. `ContactSync`, `UsdcSweep`, `BlobUpload`, `Swap`, `HistorySync`: one module
   each, with retries and the state kept across restarts.
5. `Accounts`: login, logout and the keychain across crashes, composed with
   `SessionCalls`, and so with `SessionStreams`.

Theorems worth proving next: the refinement of step 2, and the inductive
invariants of each component as it comes.

## Not modelled

Times, except in `Toasts`: a timer may fire at any moment after it was set, so
the back-off and the ping window, which only shift moments, are left out.
Amounts and limits: a bill is a name, a rate one of two values. Signatures and the
encodings of messages: a message is a name, and `GrabRejected` stands for a signature that does not verify. The
contents of chat events, which pass through the streamer unchanged. Balances,
limits and profile polling of `Session`, which share no state with its bills.
Reserve states, which take the rates' way through `VerifiedProtoService` without
the second table. Finding a code in a picture. Of the C and C++ in the
repository nearly everything is vendored (OpenCV's headers, in three copies,
zxing, ed25519); `ScanCode` covers the path the app itself uses of it.
The parts listed in `PROJECT.json` as `not_modelled`, each with its reason.
