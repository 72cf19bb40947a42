# Verification of the Rehla shop assistant

TLA+ models of the assistant in this repository, the TLC instances that check them
and proofs of the results that hold for every size of the system. The models are
written from the Python under `src/`; paths below are relative to it.

- [1. The system](#1-the-system)
- [2. Modules](#2-modules)
- [3. Runs](#3-runs)
- [4. Proofs](#4-proofs)
- [5. What does not hold](#5-what-does-not-hold)
- [6. Not modelled](#6-not-modelled)
- [7. Plan](#7-plan)

`tlc -config MCX_y.cfg MCX` runs a configuration; `tlapm X.tla` checks the proofs of X.

## 1. The system

Customers write on WhatsApp and Instagram. Webhook requests claim each message,
store it and hand it to a dispatcher, which gathers the messages of one conversation
into a batch and runs a *turn* on a worker thread. A turn reads the transcript, lets a
language model call tools (catalogue, cart, orders, handoff), stores the transcript and
sends the reply. Orders are booked on Shopify and recorded in PostgreSQL. Shopify
reports later changes by webhook; periodic jobs start messages of their own; staff read
and answer conversations in a dashboard. One process runs all of it: a thread pool for
turns, timer threads, webhook handlers in a thread pool, one scheduler thread. A
deploy ends the process at any moment.

### Components

| component | state it keeps | operations | what makes it correct |
|---|---|---|---|
| **Message dispatcher** `assistant/dispatcher.py` | open batches, timers, carried batches, announced counts, per-conversation locks and their user counts, busy count, pool | submit, expect/settle, timers, supersede, run, shutdown | one turn of a conversation at a time; no message lost or answered twice; nothing waits for ever; locks are forgotten |
| **Channel adapters** `assistant/channels/*`, `integrations/whatsapp/client.py` | none of their own | verify, claim, announce, record, submit; deliver a turn's reply; record receipts | claims released exactly when a retry must be processed; ids land on the message they belong to |
| **Conversation runtime** `assistant/runtime.py`, `turn_retry.py` | `ProcessedMessage` claims | claim, release, record inbound and outbound, handle a batch, pause | what a customer wrote is on record whatever the turn does |
| **Session store** `assistant/session.py` | one row per conversation: transcript, start of the context, last activity | load, save, append, trim, carry over, fold back, receipts, ids | nothing said is lost or said twice, a tool call stays with its result |
| **Instagram comments** `channels/instagram.py` | one row per comment, claims | claim, limits, classify, public line, private reply, alert | one reply of each kind; nobody ignored; a promised message comes |
| **Agent loop** `assistant/agent.py`, `assistant/tools/*` | the turn's copies of transcript and cart | model hop, tool calls, replies sent back, end of turn, give way | the transcript shows the cart; an order charges what was agreed |
| **Reply checks and composition** `photo_claims.py`, `action_claims.py`, `showcase.py`, ... | the pictures of one reply | attach, check a sentence, send it back, cut, replace | what leaves is true of what the turn did and carries |
| **LLM providers** `assistant/providers/*`, `media.py` | retry counts; vendors' blobs, in the transcript | post a hop, retry, read notes and photos | no half answer is taken for a whole one |
| **Order service** `domain/services/orders.py` | orders, items | place, modify, cancel, swap, advance | an order is placed on both sides or never happened; statuses move forward |
| **Shopify client** `integrations/shopify/client.py`, `orders.py` | throttle | retried GraphQL calls; orderCreate, orderCancel, edits | a retry does not repeat an effect |
| **Inventory** `domain/services/inventory.py` | `Variant.stock_qty` | decrement, record sold / returned, release | books balance with the recorded orders |
| **Carts** `domain/services/carts.py` | cart lines | add, change, clear | one cart becomes at most one order |
| **Shopify webhooks** `integrations/shopify/webhooks.py` | claims of event ids | status, fulfilment, cancel, update | idempotent, forward only, one stage at a time |
| **Notifications and hooks** `domain/services/notifications.py`, `common/events.py` | hooks of a transaction | push after commit, record, stamp ids | a message never describes a write that was rolled back |
| **Handoff** `assistant/recovery.py`, `domain/services/queues.py`, dashboard | pause flag, queue items | pause, take over, reply, release, take back | one voice in a conversation |
| **Silence nudges, jobs** `assistant/silence_nudges.py`, `domain/services/scheduler.py`, `reengagement.py`, `waitlist.py` | arming rows, claims, scheduler thread | arm, claim, plan, send | sent once, and not to somebody who has just written |
| **Product import and reconcile** `integrations/shopify/product_*.py`, `admin_products.py` | catalogue rows, SKUs on Shopify | create, delete, archive, import, sweep, reconcile | every product arrives; no row without a product |
| **Alert e-mail** `domain/services/alert_email.py` | cooldowns, hourly budget | allow, send | an alert is not silenced by one that was never sent |

The rest (catalogue search, admin proxies without local state, resets, public pages)
reads, matches text or forwards a request, without state that concurrent steps share;
`PROJECT.json` lists every component with its status.

### How they interact

- A webhook thread *announces* a message (`expect`), claims and records it in
  transactions of its own, downloads media, and *submits* it; or settles the
  announcement when there is nothing to submit.
- A dispatcher worker calls the adapter's `_deliver_turn`, which calls
  `handle_message`: one database transaction for the whole turn, except that
  `place_order` commits it half way.
- The agent loop asks the dispatcher (`has_newer`) whether to give way.
- The transcript row is written by webhook threads, the turn, pushes out of
  after-commit hooks, jobs, and staff. Nothing locks it before it is read.
- `place_order` calls Shopify inside the turn; Shopify's webhooks come back in
  transactions of other threads and read and write the same orders.
- A unit of work queues messages and mails as hooks, which run at its commit -- and,
  with SQLAlchemy 2.0, at the release of a savepoint.
- A handoff pauses the conversation by a flag of the identity and an item of the queue;
  the next message may take it back, staff may take it over, reply or release.
- The catalogue has two sides with a SKU as the only link; webhooks, the scheduler's
  sweep, the dashboard and a script each write one of them after reading the other.

### What is hard

Threads (the dispatcher's three kinds), two systems without a common transaction
(orders), read-modify-write of one row by everyone (the transcript), retries of calls
whose effect is unknown, retries of turns half of which is committed, hooks that run
at a moment SQLAlchemy chooses, and restarts between any two of these. The list of
hazards in `PROJECT.json` names each at its line, with the property that catches it.

## 2. Modules

| module | models | proofs in |
|---|---|---|
| `Dispatcher`; abstract `ConversationTurns` | `assistant/dispatcher.py`, and the calls of `channels/whatsapp.py` into it | `TurnsProofs` |
| `OrderPlacement`; abstract `OrderPromise` | `place_order` with `create_order`, `cancel_order`, `_call`, `record_sold`, its hooks | `OrderPlacementProofs` |
| `SessionStore` | `assistant/session.py` under its writers (`runtime.py`, `agent.py`, `turn_retry.py`) | `TurnsProofs` |
| `ReplyDelivery` | `_deliver_turn` of the adapters, the WhatsApp client with its media ids, the notes a send leaves on a line, receipts | `ConversationProofs` |
| `Conversation` | from a delivery to its answer: claims, the turn around the model, pause, handoff, taking back, the dashboard's buttons | `ConversationProofs` |
| `Checkout` | the turn loop of `agent.py` with the cart and checkout tools and the guard of `confirm_order` | `ShopProofs` |
| `ReplyPictures` | the tools' pictures, the showcase, the checks of a sentence | `RepliesProofs` |
| `ModelCalls` | the requests to the vendors, notes, photos, truncation | `RepliesProofs` |
| `Comments` | `_accept_comment` of `channels/instagram.py` and what it calls | `RepliesProofs` |
| `OrderLifecycle`; abstract `OrderStages` | modify, add, swap, cancel, advance from tools, dashboard and Shopify's webhooks | `OrderLifecycleProofs` |
| `ShelfReservations` | `inventory.py` over Shopify's shelf or the local one, for orders with no Shopify order | `OrderLifecycleProofs` |
| `Outbox` | `events.py`, `session_scope`, `notifications.py`, `alert_email.py` | `OutboxProofs` |
| `SilenceNudges` | `silence_nudges.py` in several instances | `SilenceNudgesProofs` |
| `ProductMirror` | `admin_products.py`, `product_import.py`, `product_reconcile.py` | `ShopProofs` |

Each has an MC module with its instances; `MCTranscript` puts `SessionStore` and
`ReplyDelivery` into one run, `MCOrderLifecycle` puts `OrderLifecycle` and
`ShelfReservations`, `MCReplies` puts `Comments`, `ReplyPictures` and `ModelCalls`.
The models in one run share no variable: a behaviour is one of one of them. `map` in
`PROJECT.json` gives each definition the lines it stands for.

### Dispatcher

One action per region under `_lock`, and one per step between two such regions that
another thread can see. Variables carry the names of the attributes (`pending` for
`_pending`, `lockUsers` for `_lock_users`). `Merge` is `Pending.merge`, with the
overwriting `extras.update` that decides a batch's give-way count.

- Webhook threads: `Announce`, `Ready`, `SubmitMessage` (`settle_and_submit`),
  `Decline`, `SettleFlush`, `Revive`.
- Timers: `Fire` (the timer `_timers` knows), `FireLoose` (one it has forgotten; a
  timer that has fired cannot be cancelled), `HoldBatch` and `ReleaseBatch`
  (`_release`), `HandToPool` (its `submit` to the pool, outside the lock),
  `HoldExpires`.
- Workers: `Start`, `GetLock`, `Acquire`, `TakeCarry`, `Answer`, `SeeNewer`, `GiveWay`,
  `LeaveLock`, `Unlock`, `FlushCarry`, `Resubmit`, `MarkDone`.
- Deploy: `ShutdownCancel`, `ShutdownDrain`, `ShutdownSubmit`, `ShutdownPool`.

Time is abstracted: an armed timer may fire at any moment, so every window `_wait_for`
can return is covered. Each lock object has an identity, because the code deletes a
conversation's lock and makes another. `Dispatcher` implements `ConversationTurns`
under `turnStatus`.

### OrderPlacement

A customer's `place_order` stands at one of the steps shelf, create, sell, notify,
commit, compensate: the boundaries at which another turn, Shopify or a crash can come
in between. Refusals for missing or invalid arguments change nothing and are not steps.
What can go wrong outside the program is a member of the constant `Faults`, so that a
run and a theorem say what they assume. Rows updated by an open transaction are locked
(`HoldsRow`, `HoldsCounter`), in cart order and then the order counter; a cycle of
waits is broken by failing one statement (`InDeadlock`). The confirmation leaves at
`Notify`: the hook registered inside the savepoint runs when the savepoint is released,
because SQLAlchemy (2.0, as pinned) dispatches `after_commit` for a nested transaction
as well. That is behaviour of the library, not of code under `src/`. A customer has one
`place_order` at a time: `OneTurnPerConversation` of `Dispatcher`, proved there.

### SessionStore and ReplyDelivery

The transcript is a sequence of messages; a message is who speaks and of which inbound
messages it is the copy or the answer. `Trim`, `Opened` (`load` and `carry_over`),
`DropProvisional`, `MergeInterleaved`, `Save` and `AppendTo` translate the functions of
`session.py`; `start` is `context_start`. A transaction is two actions, its SELECT
(`ReadOnArrival`, `ReadForPush`, `ReadForConfirmation`, `ReadForSave`,
`ReadWhilePaused`) and its UPDATE with COMMIT (`RecordInbound`, `RecordPush`,
`RecordConfirmation`, `SaveTurn`, `StoreWhilePaused`). The turn reads its copy at
`BeginTurn`, long before its save's SELECT. Transactions overlap as READ COMMITTED lets
them: any number may have read before one writes. `said`, `meanwhile` and three flags are
history variables: `capped` and `clipped` say that the archive cap has dropped a message,
or one of the context itself, `raced` that a transaction has written over a row that had
changed since its SELECT.

`ReplyDelivery` has the same row after the words are stored: the parts of a reply leave
one by one (`SendPart`, `SendUploaded`, `Upload`, `StoreId`), each accepted, accepted
unheard, or refused; then `FlagFailures`, `StampIds`, `NoteUndelivered` on whatever line
is newest by then; `StartPush`, `SendPush`, `NotePush` are what the shop starts, and
`ReportArrives` Meta's webhooks. `Shown` is what the next turn takes for shown
(`_sent_images` without `photo_claims.undelivered`).

### Conversation

Claims (`Deliver`, `DeliverAgain`, `AcceptFails`), a sticker that is handed over
without a turn (`ReadForHandoff`, `RaiseHandoff`), the turn (`BeginTurn`, `TakeBack`,
`Compose`, `HandOver`, `GiveWay`, `StoreForStaff`, `RetryTurn`, `GiveUpBatch`, `Crash`),
what follows its commit (`Send`, `AnswerAll`, `Apologise`, `SendRaises`) and the
dashboard (`Takeover`, `Reply`, `Release`), which reads when clicked and writes later.
Unlocked reads are steps of their own; an UPDATE holds the row till the transaction
ends (`HoldsIdentity`); SQLAlchemy writes an attribute only if its value changes. The
dispatcher is taken at its word, `ConversationTurns`.

### Checkout, ReplyPictures, ModelCalls

Three views of one turn. `Checkout`: calls to the model up to the cap, tools on the turn's
copies of cart and transcript (`AddToCart`, `AddRefused`, `RemoveFromCart`, `ViewCart`,
`GetShippingFee`, `Lookup`), the guard and the order behind it (`ConfirmRefused`,
`ConfirmFails`, `ConfirmRolledBack`, `ConfirmPlaces`), the ends (`Reply`, `Again`, `CutOff`,
`Fallback`, `Exhausted`, `ProviderFails`, `Crash`, `Drop`) with what each saves, and `Send`,
which may not arrive. `place_order` commits in the middle of the turn: `ConfirmPlaces`
leaves the order, the empty cart and (`Told`, or `Untold` when its notices fail) the
confirmation committed, and the turn's own transcript to `SavePlaced`; a `Crash` in between
runs the turn again on what is committed. When it fails with its savepoint closed it rolls
back the turn's whole transaction (`ConfirmRolledBack`): the cart is the committed one
again, while the turn's copy of the transcript still shows what its calls had put there
(`undone`). `ReplyPictures`: `Act`, `LookUp`, `Search` and `SizeChart` are tools and what
they attach, `Compose` a sentence with the pictures it brings and every check it is held
against; it is sent back, replaced or cut; what is cut away may leave nothing, and then the
offer stays, or a fixed line stands for a blamed failure (`CutOffer`, `CutFailure`).
`ModelCalls`: `Listen`, `Look` read notes and photos before anything is composed,
`StartHop`, `ResolveModel`, `PostRefused`, `PostAnswered` one hop; `Deploy` may change the
vendor. What the model decides is arbitrary in all three; the vendors are external.

### OrderLifecycle and ShelfReservations

A transaction reads the order (`Begin`, `Handle`), calls Shopify (`EditLands`,
`EditRefused`, `CancelCalled`, `MarkDelivered`), writes and commits (`Commit`), or fails
at a statement (`WriteFails`, with the compensation of a changed quantity) or at the end
(`CommitFails`). `Inbound` claims a webhook and starts a background task, which a deploy
can lose (`TaskLost`). No row is read for update, so transactions of one order overlap as they
like; `overtaken` has the orders whose status a transaction wrote over one that had changed
since it read it (`WritesOver`). `ShopMoves` and `ShopCancels` are the shop at Shopify's side.
An order is a sequence of lines on both sides; an edit means the first line of its item
(`First`), and a swap onto an item the order has makes two of them (`Doubles`).
`ShelfReservations` has the units: `ReadShelf`, `ReserveUnits` (compare-and-set),
`ReadForRelease`, `ReleaseUnits` (best effort), `ReturnReceipts`, several edits to one
transaction, on Shopify's shelf or, with no Shopify, on SQLite or PostgreSQL.

### Outbox

A unit of work writes and queues (`Say...`), opens, releases and rolls back savepoints,
commits, and its hooks run (`Deliver...`, `MailHook`) at the release of a savepoint as
well as at the commit; the jobs that correct a line run after the session is closed
(`Correct`, `PushFailed`, `ConfirmationFailed`). `SendMail` is the mail thread.

### SilenceNudges

One customer, a row, instances of the program: `Look`, `Read`, `Insert` or `Rearm`,
`Decide` (which claims a step with an UPDATE ... WHERE), `SendNudge`, `Settle`. A tick of
the clock makes the silence older (`Tick`) and waits for an instance to have polled.

### ProductMirror

Shopify's products with their SKUs on one side, rows on the other. `CreateProduct` with
`FillVariants` and `FinishCreate`, `DeleteProduct`, `DeleteVariant`, `ArchiveProduct`
are staff's; `ImportProduct` a webhook; `Sweep` the scheduler; `Reconcile` the script;
`ShopCreates`, `ShopAddsSize`, `ShopDeletes` the shop in Shopify's own admin. Each call,
read and flush is a step; a flush is seen by others when it is committed.

### Comments

`Deliver`, `Claim`, `TooOld`, `Flood`, `Count`, `WriteRow` (whose primary key lets one
instance through; `RowTaken` is the other), `Classify`, `Route` (the table `_ACTIONS`
with limits and switched-off messages), `PublicReply`, `MarkPublic`, `PrivateReply`,
`MarkPrivate`, `Seed`; `Raise` gives the claim back, `Crash` does not.

## 3. Runs

Distinct states are of one exhaustive run; every run completes, in 15 s to 3 minutes
with two workers.

| run | instance | checks | states |
|---|---|---|---|
| `dispatcher_safety` | 3 messages of one customer, 2 workers, 2 locks, a deploy at any moment | `OneTurnPerConversation`, `NeitherLostNorTwice`, `CarryHasTaker` | 146,830 |
| `dispatcher_liveness` | 3 messages of two customers, 2 workers, fair | `EveryMessageAnswered`, `ImplementsTurns` | 111,522 |
| `orders_atomic` | 2 customers, 2 variants, carts in crossing order, scarce stock; Shopify down, customer block refused, COMMIT refused, cancel failing; fair | `PlacedOrNeverHappened`, `EveryConfirmAnswered` | 239,965 |
| `orders_faults` | 2 customers, 2 carts each, a storefront sale; lost replies, failing writes, COMMIT in doubt, restarts | `OneOrderPerCart`, `NeverOversold` | 829,587 |
| `session_shared` | 2 messages, 2 pushes, a confirmation, one expiry, caps 3 / 2 / 7; or two replies with an uploaded picture, a push, a report, a mishap | `PairsStayTogether`, `NothingLost`; `ShownWasSent`, `IdsNameTheirMessage` | 1,667,297 |
| `lifecycle` | 2 orders over 2 variants, a modify, an add, a swap, a cancellation, the delivered button, 3 webhooks, one of them twice, all faults; or 3 old orders, 2 edits, a sale, a count, a failure, in each deployment | `DisagreementsKnown`, `ReportsApplied`, `StatusesMoveForward`; `EveryUnitSomewhere`, `NothingSoldTwice` | 814,014 |
| `conversation` | 2 texts and a sticker, one delivered twice, 2 clicks of staff, one restart, all faults; fair | `NoClaimForgotten`, `HeardOncePerClaim`, `StaffKeepIt`, `EveryClaimSettled` | 864,265 |
| `outbox` | 2 units, 3 notices of any kind, a savepoint, one restart; fair | `ShownAsSentOrKnown`, `AlertsTravel`, `OnlyWhatWasWritten`, `NoticesSettle` | 205,551 |
| `nudges` | 2 instances, 2 messages, one restart, 5 ticks | `NudgedOncePerStep`, `StopIsForGood`, `SilenceIsDecided` | 4,746,999 |
| `checkout` | 3 messages, 2 prices, 3 calls to the model per turn, one retry, one give-way, one fault | `TranscriptMatchesCart`, `OrdersAreAgreed` | 800,692 |
| `catalogue` | 3 Shopify products, 2 sizes, one worker and the scheduler, one job of staff, one shop edit, one fault; fair | `PhantomsKnown`, `EveryProductArrives` | 229,424 |
| `replies` | 4 comments of one person in 2 instances, a fault; or 2 messages with any look-ups and sentences; or 2 turns with 2 notes or photos each and a deploy | `OneReplyEach`, `NobodyIgnored`, `PromisesKeptOrKnown`; `PicturesBelong`, `ClaimsBacked`; `CutNeverPasses` | 1,529,092 |

**Why these bounds.** *Dispatcher:* the races are between one turn that runs, one batch
that waits and one message that arrives; three messages give every pair of these and a
third party, and two workers two turns. A second customer matters only through the
shared pool, which the liveness run has. Two lock objects are enough because a
conversation's lock is replaced only when nobody uses the old one. *Orders:* two
customers whose carts hold the same two variants in opposite order give the deadlock,
the lost race for the last unit and the sold-out answer; two attempts give a retry after
a failure; two carts and two confirms give a repeated confirm after success, failure and
restart. *Session:* the context cap of 3 is exceeded by one turn with a tool call, the
archive cap of 7 by the second; two messages allow a batch of two, or one that arrives
mid-turn and to which a turn gives way; two pushes and a confirmation are written in
the same windows, by transactions that may overlap. *Delivery:* two replies and one push
give a note that lands on another's line. *Lifecycle:* one order meets every kind of
change, two at a time, the other takes the variants the first gives back; the webhook that
is delivered twice may meet its own first delivery. *Shelf:* one unit of each item,
so every race is for the last one. *Conversation:* two messages are a batch, a message that
comes while a turn runs, and a redelivery; two clicks are a takeover with a reply or a
release. *Outbox:* one unit with a savepoint, one without, two alerts of one subject.
*Nudges:* two instances of a deploy and an answer between two silences. *Checkout:* two
prices make a total stale; three messages a yes, a question and another yes. *Catalogue:*
a deletion, an import and the sweep of one product beside a second one. *Replies:* four
comments are one of each path with the flood limit and the message limit reached; two
pictures of one product and one of another tell belonging apart.

**Overlaps.** Every module has the overlaps that READ COMMITTED allows. Where a read and
the write that rests on it are not one statement the code races, and the property says
what is left of it: `StatusesMoveForward` and `ReportsApplied` name the transaction that
writes over another's status, `DisagreementsKnown` the edits of one order that cross,
`PairsStayTogether` and `NothingLost` the write over a row that was not read again. The
statements without these exceptions are in section 5. A behaviour of `SessionStore` is
followed in `session_shared` until `raced` comes true: what follows is excepted.

**Deadlock.** `Dispatcher` is checked for deadlock: it stutters explicitly where it may
rest (`Rest`, `Drained`), and anywhere else must be able to move. The other models have
bounded numbers of messages, clicks and faults, end when these are used up, and switch
the check off; that a call is never stuck is `EveryConfirmAnswered`,
`EveryClaimSettled`, `NoticesSettle` and `EveryProductArrives`.

**Symmetry** is used in runs that check invariants and action properties only.

**Fairness.** `Dispatcher`: weak fairness for each thread. The operating system
schedules pool, timer and webhook threads; a handler returns because every call it
makes has a timeout; a download ends because the media client sets timeouts
(`integrations/whatsapp/client.py`). Nothing is assumed of customers: a message need not
arrive. `OrderPlacement`: each turn's thread; calls return or time out, and PostgreSQL
detects deadlocks. `Conversation`: requests, turns and the dashboard's requests go on;
nobody has to write or click. `Outbox`: transactions end, `session_scope` runs what is
left, the mail thread is scheduled. `ProductMirror`: the sweep comes again
(`scheduler.py` is periodic), a worker's job goes on, a webhook's import starts.
`Checkout`: a turn goes on. The rest states no liveness.

**Mutants.** Each property of a run is paired in `PROJECT.json` with a mutant: a
definition of the model changed in the way a plausible bug would change the code (a lock
deleted while others wait, a sale forgotten in compensation, a cancellation that does not
look at the status, a claim not given back), with which TLC finds the property violated.

Stated in the modules and not in a run: the type invariants; `LocksForgotten`,
`RecordedIsBooked`, `OrdersMatchSales`, `EverySaleAccountedFor`, `BooksBalance` of
`OrderPlacement`, `RefusalsReachStaff`, `PausedIsSeen`, `HeardOrHandedOver`,
`SizingGetsNoPhoto`, which are proved; and `AnswerMatchesCart`, `NothingLeftCounted`,
`ContextSaysNothingTwice`, `DmsWithinLimit`, `TurnEnds`, which hold on the same instances
(`TurnEnds` in five minutes).

### Reading the properties

- `NeitherLostNorTwice`: a submitted message is in exactly one container, worker, or
  the answered set. `CarryHasTaker` is the safety half of `EveryMessageAnswered`.
- `PlacedOrNeverHappened`: `OrderPlacement` refines `OrderPromise`; the sales a turn
  still answers for, and those a person was asked to cancel, are not yet or no longer
  promised (`Booked`).
- `PairsStayTogether`, of the context the model is sent and of the turn's copy, up to a
  write over a row that was not read again (`raced`) or a cap below the context
  (`clipped`). `NothingLost`, with the same first exception, up to the first message the
  archive cap drops.
- `StatusesMoveForward`, of each step: a transaction moves the status on, or ends it, from
  the one it has read, and tells the customer of each stage from there; that is the
  order's own status unless `WritesOver`. `ReportsApplied` excepts the orders a status was
  written over (`overtaken`), and reports whose handler failed or was lost.
- `TranscriptMatchesCart`, wherever cart and transcript are committed, also between an
  order's commit and its turn's save; `undone` marks a transcript whose last showing of the
  cart was rolled back, or an order nobody was told of yet.
- `ShownWasSent`: the picture a customer asks for is never the one the bot refuses to
  send again, unless it was sent, is on its way or the note was lost.
- `DisagreementsKnown`: local order and Shopify order differ only where a log line names
  the order, or in the listed ways that leave no line (`silent`): a lost reply, an added
  or swapped line whose write failed, a late rollback, a swap onto an item already there,
  two edits of the order that cross (`Crosses`). Overlapping edits, cancellations and webhooks
  that do not cross so are in it.
- `NothingSoldTwice`: orders and storefront never have more than there was, but for
  `strayed`, the places where the code gives a unit up.
- `HeardOncePerClaim`: what the customer hears about a message, against the claims taken
  and not given back. `StaffKeepIt`: paused stays paused.
- `OnlyWhatWasWritten`: nothing is sent about a write that was rolled back, except what
  left with a savepoint.
- `NudgedOncePerStep`: against two instances that read the same open row.
- `OrdersAreAgreed`: the total charged had reached the customer before their yes.
- `PhantomsKnown`: no row without a product on Shopify, but for the listed excuses.
- `PromisesKeptOrKnown`: a public "we sent you a message" is followed by one, or it is
  known why not. `ClaimsBacked`: what leaves as the model wrote it is true of the reply, but
  for an offer of pictures that is the whole reply and is left standing beside them.

## 4. Proofs

TLAPS checks the theorems for all values of the constants, from the assumptions named in the
modules (`ConstantsAssumption`, `CartsAssumption`, `BoundsAssumption`, `CountsAssumption`,
`DeliveryAssumption`, `ShelfAssumption`, ...), which TLC evaluates in every run. Each
inductive invariant was model-checked on the run's instance before it was proved. In each
proof module an action has a lemma of its own; the theorems are at the end of a part.

### TurnsProofs

| theorem | result | assuming |
|---|---|---|
| `InductiveInvariant`, `TypeCorrect` | `Spec => []IInv`, `Spec => []TypeOK` | |
| `OneTurn` | `Spec => []OneTurnPerConversation` | |
| `LocksDoNotLeak` | `Spec => []LocksForgotten` | |
| `PlacesInvariant`, `InOnePlace` | `Spec => []NeitherLostNorTwice` | |
| `CarryIsTaken` | `Spec => []CarryHasTaker` | |
| `RefinesTurns` | `Spec => ImplementsTurns`, the safety part of the refinement | |
| `SessionTypes` | `SessionSpec => []SessionTypeOK` | |
| `NothingIsLost` | `SessionSpec => []NothingLost` | |
| `PairsKept` | `SessionSpec => []PairsStayTogether` | |

*Dispatcher:* `OneTurnPerConversation` is not inductive. Mutual exclusion rests on everybody
who uses a conversation's lock having the *same* lock object, while the code deletes the
object when its user count drops to 0. So `IInv` says that every thread between `GetLock`
and `LeaveLock` refers to the object the dict has, that no object has two holders, and that
`lockUsers[k]` *is* the number of such threads, which needs cardinalities of finite sets.
`TasksMatchThreads` is there so that a thread's conversation is defined. A second invariant
says in which container a message is (the containers are disjoint and together hold what was
submitted); with it every step maps to one of `ConversationTurns`.

*SessionStore:* a turn saves a copy of the history that is as old as the turn, so the
argument says what copy and row have in common. `Copied`: while nothing has been capped,
every message the context had when the turn read it is in the copy, itself or in a message
of the same speaker that covers it (a copy made on arrival goes into the message the turn
stores, which is why such a copy must be of a message, `Arrived`). What others have
written since lies behind the bookmark and is folded in, so a save loses nothing
(`NothingIsLost`). Transactions overlap as they like; what the argument needs of one is
only that the row it writes over is the row it had read, which is `~raced`. So `KeepInv`
and `PairInv` hold until then, and `RacedStays` and `ClippedStays` say that the exceptions are
for good. From then on the properties fail (section 5).

Every cut `trim` makes is at a message of the customer, even where the context then stays
longer than its cap; the archive cap cuts anywhere, and what it keeps is the end. A pair
is safe from it as long as it drops nothing of the context itself, which is `~clipped`: the
settings are 2000 messages for a context of 150, though nothing in `config/settings.py` keeps
an owner from a smaller archive, with which TLC finds a context that begins inside a pair.
While a turn runs, others append only customers' messages and pushes (`OthersAppend`), so
folding in separates no pair, and a turn adds its calls with their results
(`OutcomesFacts`).

### OrderPlacementProofs

| theorem | result | assuming |
|---|---|---|
| `InductiveInvariant`, `TypeCorrect` | `[]IInv`, `[]TypeOK` | |
| `OrdersNameTheirSales` | `[]OrdersMatchSales` | |
| `CartsBecomeOneOrder` | `[]OneOrderPerCart` | |
| `NobodyIsOversold` | `[]NeverOversold` | |
| `LocalCountBalances` | `[]BooksBalance` | no COMMIT in doubt |
| `RecordedStaysBooked` | `[]RecordedIsBooked` | no COMMIT in doubt |
| `PromiseKept` | `PlacedOrNeverHappened` | no lost reply, COMMIT in doubt or restart |
| `EverySaleSettled` | `[]EverySaleAccountedFor` | the same |

`IInv` adds to the types what a step needs to know of sales in hand: a turn's lines are its
customer's cart (`LinesInHand`), its sale is its customer's and of these lines
(`SaleInHand`), and a sale in hand is neither recorded nor given up (`Unrecorded`); so two
turns never hold the same sale and a commit never makes two orders name one. With that,
every action maps to a step of `OrderPromise` or to a stutter. Units are counted as the
cardinality of sets of pieces: what Shopify's shelf has and the pieces that are out together
never exceed `Stock`, whatever is lost on the way (`ShelfInv`). The pieces of the recorded
orders are among those that are out, so they fit the stock (`BooksFit`) and the floor at
zero of the local count never bites. The assumptions of the other theorems are needed: a
lost reply alone breaks `PromiseKept` (section 5), and a COMMIT that takes effect and
reports a failure makes the compensation cancel the sale of a recorded order.

### OrderLifecycleProofs

| theorem | result | assuming |
|---|---|---|
| `Invariant` | `[]IInv` | |
| `ReportsAreApplied` | `[]ReportsApplied` | |
| `StatusesMove` | `StatusesMoveForward`: every step of an order is one of `OrderStages`, from the status it has or one that was read | |
| `SidesDiffer` | `[]DisagreementsKnown` | |
| `ShelfReached` | `ShelfSpec => []ShelfInv` | |
| `UnitsAreSomewhere` | `ShelfSpec => []EveryUnitSomewhere` | |
| `NoUnitTwice` | `ShelfSpec => []NothingSoldTwice` | |

The point is what an open transaction may rely on while others commit: only what it has
read itself. Whoever cancels read a status that may be cancelled, and a webhook that
advances read one before its topic's (`ReadsJustify`). A commit then leaves the status,
ends it or advances it to its target, each from the status that was read (`CommitWrites`);
where that is the order's own still, it keeps every report that was applied
(`AppliedStays`), and where it is not, the order is `overtaken`. All faults, redeliveries,
lost tasks and interleavings of any number of workers are covered.

`SidesDiffer` needs what holds while a transaction is under way (`SInv`). An order that no
log line names and that is not silent has, until an edit of it has landed on Shopify, on
both sides at most one line of an item, with as many units; between Shopify's answer and the
commit it has one edit in hand, which has read the order's lines as they are, and Shopify
agrees in this way with the lines the commit is going to write (`LinesAgree`); any other
edit that lands crosses it and makes the order silent. Whoever changes or swaps a line has
read one (`LineRead`), and a cancellation that was reported, is being written or is written
happened on Shopify, or the log names the order (`ClosedThere`). The work is in the lemmas
about lines: what setting a quantity, adding a line and changing an item do to `On`, `First`
and `Units` when an item has one line. A line of an item is found by the least number in a
set of places, which `WFMin` over `NatLessThanWellFounded` gives.

Of the shelf, the properties speak of the moments between transactions; the invariant
speaks of every moment, so it says what an open transaction holds. Per item there is an
account with a share for each order (`Balanced`): an order in no transaction has its
lines, one in a transaction what the transaction sees, less what it has given back, and
more by what it has reserved; shelf, shares and sales add up, or the item has strayed.
The upper bound needs a second account (`Bounded`): an item whose shelf the transaction
has not moved is still on the order as committed, so a rollback or a return written off
in the log costs nothing, and only the four ways of `NothingSoldTwice`, and on PostgreSQL
a raced read, put more in hands than there was. What a transaction has done is tied to
the order it read (`Followed`); on SQLite what was read still holds at the commit. A step
moves one clerk's share (`ShelfStepKeeps`), so each action is a lemma about one item and
one order; `TotalChanges` carries it to the sum.

### ConversationProofs

| theorem | result |
|---|---|
| `TypeCorrect` | `Spec => []TypeOK` |
| `ClaimsInOrder`, `ClaimsAreKept` | `Spec => []NoClaimForgotten` |
| `HeardOnce` | `Spec => []HeardOncePerClaim` |
| `StaffKeepTheirs` | `Spec => []StaffKeepIt` |
| `PausedIsInTheQueue` | `Spec => []PausedIsSeen` |
| `DeliveryTypesHold` | `DeliverySpec => []DeliveryTypeOK` |
| `ShownIsBacked` | `DeliverySpec => []ShownWasSent` |
| `IdsAreTrue` | `DeliverySpec => []IdsNameTheirMessage` |
| `RefusalsAreTold` | `DeliverySpec => []RefusalsReachStaff` |

Per message: where it is, whether it is owed an answer, and that answers and claims are
counted against each other (`MessageInv`). Custody of the conversation (`CustodyInv`): a
handoff is taken back once (`StampedOnce`), a turn that takes back holds the identity's
row, and a request that waits to write knows what the conversation was (`DesksKnow`).

Of `ReplyDelivery`: the line a worker's reply was written on is the newest, or lies under
a push; ids, labels and receipts on a line are those of what Meta took and reported; each
picture a line claims was accepted, is noted as undelivered, is on its way, or its
delivery's bookkeeping broke off; and what a turn that composes has read is what the row
still begins with, but for ids, failures and receipts.

### OutboxProofs

| theorem | result |
|---|---|
| `Invariant`, `TypeCorrect` | `Spec => []IInv`, `Spec => []TypeOK` |
| `WhatIsShownWasSent` | `Spec => []ShownAsSentOrKnown` |
| `AlertsAreMailedOrKnown` | `Spec => []AlertsTravel` |
| `NothingIsSaidOfALostWrite` | `Spec => []OnlyWhatWasWritten` |

Per unit: hooks and uncommitted rows are those of an open transaction, a queued hook has
its row beside it (`HooksHaveRows`), what fires is committed or left with a savepoint
(`FiresWritten`), and a line that reads as sent has a send before it or behind it
(`SentKnown`, `AlertsKnown`).

### SilenceNudgesProofs

| theorem | result |
|---|---|
| `Invariant`, `TypeCorrect` | `Spec => []IInv`, `Spec => []TypeOK` |
| `NudgedOnce` | `Spec => []NudgedOncePerStep` |
| `StopStays` | `Spec => StopIsForGood` |
| `DueSilencesDecided` | `Spec => SilenceIsDecided` |

Rows only grow (`Older`): a later silence replaces an earlier one and within a silence a
decided step stays decided. An uncommitted write is the row armed for the silence its
poller looked at; a poll about an outdated row is younger than `NUDGE_FIRST_MINUTES`
(`Younger`), so it plans nothing. Hence at most one instance has a live claim of a step
(`Once`). "Stop" is read from the row or from the last text (`Stops`); an instance that
has polled has decided the silence or is in its first transaction (`Polls`).

### ShopProofs

| theorem | result |
|---|---|
| `Invariant`, `TypeCorrect` | of `Checkout`: `Spec => []IInv`, `Spec => []TypeOK` |
| `TranscriptIsTrue` | `Spec => []TranscriptMatchesCart` |
| `AgreedTotals` | `Spec => []OrdersAreAgreed` |
| `MirrorInductive`, `MirrorTypes` | of `ProductMirror`: `MirrorSpec => []MirrorInv`, `MirrorSpec => []MirrorTypeOK` |
| `MirrorPhantoms` | `MirrorSpec => []PhantomsKnown` |

*Checkout:* a turn works on copies. `GoodAttempt`: its transcript shows its cart, a turn that has
not written has the committed cart, and its idea of the last words is the committed one; what
a rollback takes from the cart is marked in its transcript (`Shows`). `GoodPlacement` says the
same between an order's commit and its turn's save.
`HeardIsSaid`: words that arrived are what was last heard. `Answered`: every yes that
waits, or is in the batch, answers the last words or crossed a reply; while a turn runs
every new one may (`AllCross`).

*ProductMirror:* `PhantomsKnown` speaks of a product none of whose variants is left; the
invariant speaks of each variant (`Backed`): it is on Shopify, there is a reason why it
may not be, or a job that struck it there deletes its row next (`LeavesBy`). A variant
comes into the rows from a transaction (`PutLive`), and there from SKUs a job had read or
written (`InHand`); those of a product taken from under a job are excused for good, while
"cut" goes when the deletion is completed. That the two kinds of job stay out of each
other's rows is the row locks (`Apart`, `Taken`), and that a product made for a job is
nobody else's until it has variants is `Filling`. `SafeStep` says once what a step owes
that leaves the committed rows alone; each action is shown to pay it.

### RepliesProofs

| theorem | result |
|---|---|
| `TypeCorrect`, `RepliesOnce`, `NoneIgnored`, `PromisesStand` | of `Comments`: types, `OneReplyEach`, `NobodyIgnored`, `PromisesKeptOrKnown` |
| `ClaimsHold`, `PicturesAreOfTheReply`, `SizesGetNoPhoto` | of `ReplyPictures`: `ClaimsBacked`, `PicturesBelong`, `SizingGetsNoPhoto` |
| `CallsTypeCorrect`, `NoHalfIsTakenForAWhole`, `UnreadGoToAPerson` | of `ModelCalls`: types, `CutNeverPasses`, `HeardOrHandedOver` |

*Comments:* the row's primary key lets one handler of a comment through (`OneHandler`), the
replies so far are those the handler's step says (`StepsMatchReplies`), and a claimed
comment without a handler has come to an end (`RowsSettle`, `ClaimsSettle`). *Pictures:*
while a turn thinks nothing is sent; a sentence that leaves passed each check against the
pictures that leave with it, or was cut down to what passes (`CutIs`). A turn's basket holds
pictures of what its tools returned and is empty between turns (`BasketBelongs`); what each
operator of the tool layer and of the showcase adds is of the products it was called for
(`Brings`). *Calls:* the context holds only messages that were kept whole or asked for to
the end, a note that was heard is words, and a turn past listening has read one of what it
was sent.

### Only model-checked

- Out of the prover's reach: liveness and ENABLED (`EveryMessageAnswered`,
  `EveryConfirmAnswered`, `EveryClaimSettled`, `NoticesSettle`, `EveryProductArrives`,
  `TurnEnds`).
- Not attempted: the properties without a run that are not in a table above; the type
  invariants of the modules without proofs.

## 5. What does not hold

Statements of the documentation, of a comment or of common sense that the code does not
keep. A configuration with a name finds the counterexample; "swap" means putting the
property in place of those of the configuration.

| property | configuration | what happens |
|---|---|---|
| `CarriedNeverDropped` | `MCDispatcher_shutdown.cfg` | a turn gives way after `shutdown` has drained, and its batch goes to a closed pool |
| `GivesWayBoundedly` | `MCDispatcher_giveway.cfg` | `extras.update` in `Pending.merge` overwrites the give-way count with a smaller one |
| `EverySaleAccountedFor` | `MCOrderPlacement_lostreply.cfg` | `orderCreate` is repeated, or given up, without looking whether it took effect |
| `ToldIsRecorded` | `MCOrderPlacement_confirmation.cfg` | the confirmation leaves with the savepoint; when COMMIT then fails the customer was told of an order that does not exist |
| `FoldedBackIn` | `MCSessionStore_full.cfg` | at the archive cap, what is written mid-turn is lost: the fold-back compares lengths, and a full row no longer grows |
| `NothingOverwritten` | `MCSessionStore_overlap.cfg` | the row is read without a lock and written back whole, so a message recorded between another's SELECT and UPDATE is gone, though `session.py:220-222` has it "folded back in rather than overwritten" |
| `TakeoverHolds` | `MCConversation_takeover.cfg` | staff click while a turn is taking the conversation back: they read the flag as set and write nothing, and the turn's commit clears it |
| `AgreedToWhatTheyHeard` | `MCCheckout_agreement.cfg` | a yes written while a reply was on its way is taken for an answer to it, and orders a total the customer had not heard |
| `NoIsHeard` | swap in the same | `_NO` uses `^` without MULTILINE (`tools/order_tools.py:130`): of a batch's lines only the first can say no |
| `PromisesKept` | `MCComments_promise.cfg` | a private reply refused after the public line; direct messages switched off; complaint, order status or a short text over the limit still get the line that says a message was sent |
| `TranscriptShowsTheCart` | swap in `MCCheckout_turns.cfg` | an order fails at its notifications or COMMIT and rolls back the turn's earlier cart calls, whose results are saved with the turn (`orders.py:730-732`; the comment at 720-724 keeps the cart) |
| `OneOrderPerYes` | swap in the same | a turn ends with an error between its order's commit and its save; run again, it fills the cart anew and orders on the same yes, though `turn_retry.py:17-22` has the second attempt start "from exactly the state the first one did" |
| `StatusesOnlyMoveForward` | `MCOrderLifecycle_edits.cfg`, swap | two webhooks, or one and the button, read the same stage and the later commit moves the order back or tells a stage again, though `webhooks.py:43-46` has statuses "only ever move forward, one stage at a time" |
| `DecidedOnce` | swap in the same | two members of staff read a request as open and both decisions are carried out (`queues.py:67`) |
| `BooksBalance` of `OrderLifecycle` | swap in the same | two cancellations of one order each return its units (`orders.py:1098`), and overlapping edits take or return by the lines each has read |
| `OneLineEach` | `MCOrderLifecycle_edits.cfg` with `Requests <- Additions`, swap | a swap onto an item the order has already leaves two lines of it (`apply_swap`), which `_add_variant` calls "a packing slip nobody can read" (`orders.py:1282-1283`) |
| `SoldOutIsTrue` | swap in the same | a lost race is told as insufficient_stock with more on the shelf than was asked for (`inventory.py:27-30`, `orders.py:914-916`) |
| `LocalShelfHolds` | swap in the same | on PostgreSQL two read the row before either commits, and one turn may take the last unit twice; the decrement stops at zero |
| `ReceiptsStay` | swap in `MCTranscript_shared.cfg` | a turn writes the lines it read back over the receipts of the meantime |
| `NotShownTwice` | swap in the same, `MaxReplies = 3`, `MaxPushes = 0`, `MaxReports = 0` | a picture refused once counts as unshown for ever (`agent.py:640-642`, `photo_claims.py:333-358`) |
| `ReconcileSparesShopify` | swap in `MCProductMirror_catalogue.cfg` | the script lists Shopify before it reads the rows: a product imported in between is taken for one that vanished, and deleted |
| `NeverRekeyed` | swap in the same | the sweep and a webhook import one product, each with a number of its own; the second writes its SKU over the first |
| `SkusUnique` | the same with two workers, two jobs of staff, no fault | two creations number their product before either commits |
| `CutLinesTrue` | swap in `MCReplies_said.cfg` | a reply that is nothing but an offer of photos goes out beside them (`photo_claims.py:412-420`), and "here is its picture" beside a size chart (`agent.py:1134-1135`) |
| `SizingNeverGetsPhoto`, `NothingLeftOut`, `PhotosNumberedAsSent`, `CutIsAskedAgain`, `EmptyIsNoReading` | swap in `MCReplies_said.cfg` (`PhotosNumberedAsSent` with `MostMedia = 3`) | ends that skip the checks keep the showcase's photo; an unreadable note or photo beside a readable one is left out without a word (`runtime.py:438-443`); photos are numbered by the readable ones (`runtime.py:527-534`); an empty answer cut at the ceiling is not asked again; a vision answer `{}` reads as an unknown garment |

Seen while modelling, and kept in the models as the code has them:

- *Sending.* `scheduler.py:17-20` and `reengagement.py:8-11` say a duplicate pass never
  sends twice; two instances that read the open entry, or a COMMIT that fails after the
  send, send the back-in-stock message twice. `deliver_request_resolution` does not look
  at Meta's answer (`notifications.py:1049`). A rolled-back savepoint drops the hooks
  queued before it. The end of the process between commit and hooks loses what was to be
  sent. `_allowed` starts the cooldown before the mail is sent (`alert_email.py:299`).
- *Nudges.* A slow second instance settles over a re-armed row, and may claim a step of a
  later silence believing it its own, which it then skips; the insert race's comment
  "theirs is the same anchor" is not always true and harmless, because such a poll is
  younger than the first threshold. "Stop" is remembered only if a poll sees it as the
  last text, after the first threshold and not while paused.
- *Orders.* With two lines of one item, a later change of quantity reaches the first line
  on each side, which need not be the same one: Shopify's new line is its last, the local
  one is where the old item was. The check of the totals does not see it, since the local
  total was taken over from Shopify a moment before (`_apply_remote_totals`).
- *Conversation.* A takeover that races a colleague's release leaves the conversation
  released, since SQLAlchemy finds nothing to write.
- *Delivery.* Ids and refused pictures are noted on the newest line, whoever's it is by
  then; `_flag_delivery_failures` is unguarded, so an exception there ends the other
  notes; an insert race for a media id ends the rest of the delivery; a receipt that
  comes before the id is stamped is lost; a send that was accepted and timed out is
  flagged as failed.
- *Shelf.* A swap that is rolled back after its release leaves a unit too many.
- *Replies.* The fallbacks for a change, a blame or a promise leave beside the rejected
  sentence's pictures, which are only taken off for a retry. A cached answer of
  get_variants or get_products does not bring its picture again, though `base.py:519`
  says a cached call must have the same effects. An old order lets "order placed" pass
  with an empty cart. A fee answered from the cache may be stale (`base.py:294-299`).
- *Models.* `gemini.py:121-123` resolves a model only when none is configured, though
  the comment there says a configured model that is gone is resolved anew. The calls of
  a truncated hop are run once the retries are used up. `get_provider` falls back to the
  rehearsal in production, though `fake.py` says it must never.
- *Catalogue.* Deletion looks up only the first size, so a product whose first size is
  not on Shopify stays there and the sweep adopts it again; a sweep that read a product
  before its deletion creates its row again; two removals of a product's last two sizes
  are stopped only by Shopify's refusal.

## 6. Not modelled

- `Dispatcher`: the inline path for a debounce of 0, window lengths and fragment memory, a
  second call of `shutdown`. Media downloads end within their clients' timeouts; the hold
  limit does not apply to a carried batch, so such a batch waits for the download.
- `OrderPlacement`: cart edits of the same turn that are not yet committed, editing a cart
  line by line, the later webhook that cancels a local row, the throttle of the Shopify
  client.
- `SessionStore`: `clear` and `purge`; unreadable rows; the first INSERT of a row; a
  redelivery after a turn was given up. `RecordInboundFails` is restricted to a row that has
  not expired, where the turn's `load` does not write. A confirmation is recorded once.
  `ReplyDelivery`: the archive, expiry and context reset; template sends, `mark_as_read`,
  `locate_mid`'s second scheme of ids, a picker's contents.
- `Conversation`: what the transcript says; a reply of staff that Meta refuses (502); the 24
  h window; release from the command line; the announcement and the closing line.
- `Checkout`: what the reply checks look for (`ReplyPictures`), pictures, the governorate's
  picker and fee, limits on repeated calls, the closing of request_human; a second tool in
  one hop; a COMMIT whose outcome is in doubt (`OrderPlacement`).
- `ReplyPictures`: superseded and empty replies, "placed" claims, wording, the picker,
  numbers of another product. `ModelCalls`: the blobs of the vendors (signatures,
  `reasoning_details`), which each request translates from the stored messages by a test of
  their type (`gemini.py:222-234`, `openrouter.py:262-264`), what the rehearsal plans,
  matching a photo's colour, reading a chart, routing among upstreams.
- `OrderLifecycle`: the money of orders/updated, `submit_feedback`, windows and templates of
  the pushes, alerts about a total that differs; orders from before Shopify are
  `ShelfReservations`, which leaves out untracked items, two edits of one order at once, the
  local bookkeeping row of a Shopify shop, and deadlocks of row locks.
- `Outbox`: the text of templates, the hourly mail ceiling, the waitlist's own rules.
- `SilenceNudges`: wording, the nudge row of abandoned carts of older versions.
- `ProductMirror`: the fields `update_product` edits, prices, pictures, collections, size
  charts, the empty shells of a repeated productCreate whose reply was lost, drafts, one
  size removed by the shop.
- `Comments`: the banks of wording, captions and product openers, the hour of the limits
  passing, comments switched off, the filter of the shop's own account, the product's photo,
  looking up a fee.
- The model's answers and the tools that do not write shared state: arbitrary, or reached by
  the repository's tests. Time as a quantity (windows, cooldowns, expiry hours): an action
  that may happen.

## 7. Plan

1. **ProductEdits.** A product's drawer in the dashboard, `update_product` and its calls:
   a save that raises half way, counts and prices written from a form that is old.
2. **SizeCharts and collections**, imported and edited on two sides.
3. **Catalogue reads** with their caches, against the edits they miss.
4. **Instagram direct messages**, as far as they differ from the WhatsApp adapter's.
