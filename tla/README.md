# TLA+ models of the Drivest backend

The backend is one NestJS application in front of one PostgreSQL database
(`src/src`). A request is an asynchronous handler of a service class; between
two `await`s of one handler any other handler may run, in the same process or in
another: `src/ecosystem.config.cjs` starts one process and restarts it when it
dies, `src/app.yaml` leaves their number to App Engine. Most handlers read a
row, decide, and save what they made of it. A few use a transaction, some of them
with row locks. What goes wrong in such code is seldom one statement: it is the
order of several, of several requests, or of a request and a webhook, with a
process that may die in between. These modules are about that.

Contents: [inventory](#inventory), [plan](#plan), [modules](#modules),
[runs](#runs), [proofs](#proofs), [findings](#findings),
[not modelled](#what-is-not-modelled).

## Inventory

File names are below `src/src/modules/` unless they start with `src/`. The
hazards of each part, with their lines and the properties that watch them, are
in `PROJECT.json`.

### Lesson booking: `instructors/instructors.service.ts`

State: `instructor_availability` (window, status, `booked_lesson_id`,
`deleted_at`), `lessons` (status, `availability_slot_id`, time, duration),
whether an instructor is approved or suspended.

Operations: `createAvailabilitySlot`, `cancelAvailabilitySlot`, `createLesson`
(with and without a slot), `updateLessonStatus`, `cancelLessonAsLearner`,
`rescheduleLessonAsLearner`, approval and suspension.

Interaction: a lesson and its slot name each other, and four handlers write
both sides. Each status change refreshes the finance snapshot and a completed
lesson may bring referral rewards.

Hard: the conflict checks are queries on a second connection, and no constraint
backs them; `cancelAvailabilitySlot` saves a row it read without a lock, by a
second read and a partial update, and soft-deletes it in one more statement;
booking and rescheduling hold row locks while they wait for another connection;
a reschedule takes a third lock.

Right when: a slot and its lesson agree, only a free slot is taken, a lesson
called off frees its time, no time is given away twice, terminal statuses are final, nobody waits for ever.

### Lesson payments: `instructors/instructors.service.ts`, `webhooks/webhooks.service.ts`

State: one `lesson_payments` row per lesson (status, provider, session), and at
Stripe the Checkout sessions with the events not yet acknowledged.

Operations: `createLessonStripeCheckout`, `confirmLessonStripePayment`,
`activateLessonApplePayment`, `handleStripe`.

Hard: no transaction and no lock, each handler saves what it made of a row that
it read before it called Stripe, and of that only the columns that differ when
it saves; a session outlives the request that opened it; events come late, again
and in any order.

Right when: the row tells of nothing that has not happened, a lesson
that was paid is captured in the end, and a captured payment is not replaced.

### Practice purchases and the learner bonus: `entitlements`, `webhooks`, `referrals`

State: `purchases` (unique `transactionId`), `entitlements`, `referral_events`.

Operations: `handleRevenueCat`, `activateApplePurchase`, `subscribeMonthly`,
`cancelMonthlySubscription`, `grantL2LBonusForPurchase`,
`reverseL2LBonusForCanceledPurchase`.

Hard: one transaction is reported from two sides; the purchase row is the mark
that it was handled, but is the first of five to be written; the check of the
bonus and the event that records it are several statements apart.

Right when: a transaction has its effect once, a learner is rewarded once, and
a cancelled purchase leaves nothing behind.

### Lesson finance and disputes: `instructors`, `disputes`

State: `lesson_finance_snapshots` (commission, payout, integrity) and
`dispute_cases`.

Operations: `computeLessonFinance` inside every booking transaction,
`repairLessonFinanceSnapshots` with its fallback, `openCase` with
`applyFinanceHoldForDispute`, `addEvidence`, `updateStatusAsAdmin`.

Hard: the snapshot is derived from the lesson and from the number of open
cases, and written by two services, each from its own earlier read; the hold
is placed after the case was saved and its failure is swallowed.

Right when: the snapshot agrees with the lesson, and money on hold stays on
hold while a case is open.

### Rewards for instructors: `referrals`, `entitlements`

State: `referral_events`, `referral_payouts`, and of the learner who invited:
credit, `navigation_access_until`, the bundle's purchase and entitlement.

Operations: `processI2IStake` and `grantL2IRewardsForFirstSettledLesson` after a
completed lesson, `reviewReferralEvent` with `reverseL2IRewardEvent`, the daily
`expireDiscountedRates`, `extendNavigationAccess`, `cancelMonthlySubscription`.

Hard: a reward is five statements, a reversal four, none in a transaction; that
a reward was given is known from its event, the first of the five; the save of
a row that was read long before writes every column that has changed since; the
end of a purchase that Apple gives takes the place of what rewards brought.

Right when: no credit without a reward, no completed lesson forgotten, one
reward per instructor, and the learner has what the standing rewards brought.

### Services beside lessons and purchases

| part | state | hard | right when |
|---|---|---|---|
| cashback and its reminders (`cashback`, `notifications`) | claims, an advisory lock, the flag `running` | several processes tick; the lock belongs to a connection of the pool and is released on any other; a push precedes its note | nobody is reminded twice |
| advisory cache (`routes`) | a cached query and its features | BEGIN and COMMIT on any connections of a pool that every other request uses; errors in between; stale rows | a cached answer is that of one fetch, and a stale one is better than none |
| road hazards (`routes`) | `LruTtlCache` in memory | eviction and expiry together | what was used lately is kept |
| practice sessions (`routes`) | sessions, statistics of a route | read, count, write | each completed session counts once |
| parking (`parking`) | councils, localities, time bands | bands that overlap; two replacements that wait for each other | a driver is told what holds, from one source |
| share codes, links (`instructors`) | codes, links pending or approved | uniqueness by reading; a stale save | an instructor keeps a code, a learner the link |
| reviews (`instructors`) | reviews, deleted or not | removal in two statements; stale saves | what was taken down stays down |
| access to test centres (`entitlements`, `access-overrides`) | entitlements for all centres or one, a selection | read, deactivate, insert | a centre is open only while it is paid for |
| authentication, throttling, legal acceptance, users, content packs, centres, analytics, health, administration | rows, counters | single statements, or none in between | see [below](#what-is-not-modelled) |

These services do not call each other. Parking's search reads what its import
writes, and the access to centres reads the entitlements that purchases and
rewards leave.

## Plan

Most important first. All of it is done; proofs are listed [below](#proofs).

1. `LessonLifecycle`, the abstract statement of what a lesson goes through, and
   `LessonBooking`, which implements it.
2. `LessonPayment` with Stripe as its environment.
3. `PracticePurchase` with crashes between any two statements.
4. `LessonFinance`, which composes the life of a lesson, its snapshot and its
   disputes.
5. `CompletionRewards`: what a completed lesson brings, review and reversal.
6. `CashbackReminders`, `AdvisoryCache`: statements that take any connection of
   a pool.
7. `ParkingRules`, `ParkingAtlas`, `LruTtlCache`, `PracticeSessions`,
   `LessonReviews`, `LearnerLinks`, `CentreAccess`.

Every invariant and every action property that a passing run checks is also
proved. Left: the refinement of `PracticePurchase` by an abstract specification
of its effects, and weaker properties of `LessonFinance` for requests that
overlap.

## Modules

All modules follow one scheme. `req[r]` says what request `r` has read and
still means to do; an action that fits `req[r].op = "idle"` starts a handler,
one that ends with `End(r)` finishes it, and `Crash(r)` (`GiveUp(r)` in
`LessonFinance`) ends it anywhere: the process dies, a statement fails, or the
client is gone. What was committed stays. A definition marked "Mutant" is a
plausible mistake in the code, kept beside the definition it replaces; the
specification does not use it.

A guard is the code's conditions and early returns up to the first write. A
request the code refuses changes nothing, so it is not an action.

### How a save is modelled

TypeORM's `Repository.save` (0.3.28) of an entity that has an id is two
statements: it reads the row again, without a lock, and UPDATEs the columns in
which the entity differs from that, or none if it differs in none; the save of a
new entity is one INSERT. So the columns of a row may come from two handlers, and
a column the handler never meant to change is written if another one has changed
it since the entity was read. `LessonBooking`, `LessonPayment` and
`CompletionRewards` have the two statements as two steps, with what differs in
`req[r].columns`.

Elsewhere a save is one step, because two would show nothing else:

- `PracticePurchase` and `LearnerLinks`: it can change only one modelled column
  (the status of a purchase or a link, the state of an event). Either the UPDATE
  writes that, or the reload found it to be what is saved, and the step is that
  reload.
- `CashbackReminders`: besides what only submissions write, a claim has the note
  of the tick. A save whose reload came before the note keeps it, which is what
  the save before the note does.
- `LessonFinance`, and the property of `PracticeSessions`, are about requests
  that take turns: the reload finds what the request has read.
- `LessonReviews`: a review may really be left with the status of one handler and
  the `deleted_at` of another, which the model has not. Its property asks whether
  a review is visible, and only a restore writes that.

### LessonBooking

| code | actions |
|---|---|
| `createAvailabilitySlot` | `CreateSlotCheck`, `CreateSlotSave` |
| `cancelAvailabilitySlot` | `CancelSlotRead`, `CancelSlotReload`, `CancelSlotSave`, `CancelSlotDelete` |
| `createLesson` without a slot | `CreateLessonCheck`, `CreateLessonCommit` |
| `createLessonFromAvailabilitySlot` | `BookSlotLock`, `BookSlotCommit` |
| `updateLessonStatus` | `UpdateStatusCheck`, `StatusLock`, `SyncReload`, `StatusCommit` |
| `cancelLessonAsLearner` | `LearnerCancelCheck`, `StatusLock`, `SyncReload`, `StatusCommit` |
| `rescheduleLessonAsLearner` | `RescheduleLock`, `RescheduleCommit` |
| approval, suspension | `ApproveInstructor`, `SuspendInstructor` |

A transaction is one step at its commit, unless it holds `FOR UPDATE` locks
while it waits for a query on another connection, or saves a row it has not
locked; then locking is a step and committing is one. A blocked lock is a guard
(`~SlotLocked`, `~LessonLocked`).
`CancelSlotSave` and, in `StatusCommit`, `syncAvailabilitySlotForLessonStatus`
save a slot that nobody has locked: the UPDATE waits for the lock of a booking,
the reload before it does not. A booking that commits before the reload of
`CancelSlotSave` loses its slot; one that commits after it stays in
`booked_lesson_id` of a cancelled slot. So it is no invariant of this code that
only a booked slot names a lesson; what remains true is that whoever turns to a
slot finds it open and free then (`TakesOnlyFreeSlots`), and that the two sides
agree (`HolderPointsBack`). `syncAvailabilitySlotForLessonStatus` also writes
`deleted_at` back to null when the slot was soft-deleted since it was read:
`revived` has such slots, and the properties leave them out. Time is a set of
units, a window is an instructor and the units it covers, and a direct request
without a time covers none. Ids are taken when the handler starts, so the sets
`Slots` and `Lessons` bound how many rows there ever are.

`LessonLifecycle` is the table `validTransitions` as a specification of its own;
`FollowsLifecycle` is the refinement, with the statuses of the lessons for
`status`.

### LessonPayment

| code | actions |
|---|---|
| `createLessonStripeCheckout` | `ReuseCheckout`, or `CheckoutPost`, `Reload`, `CheckoutSave` |
| `confirmLessonStripePayment` | `ConfirmRead`, `ConfirmFetch`, `Reload`, `ConfirmSave` |
| `activateLessonApplePayment` | `AppleRead`, `Reload`, `AppleSave` |
| `handleStripe`, `handleStripeCheckoutSession` | `WebhookRead`, `Reload`, `WebhookSave` |
| Stripe, the learner, the clock | `Pay`, `AsyncSucceed`, `AsyncFail`, `Expire`, `Age`, `LessonCloses` |

One lesson, since rows of different lessons never meet. A save is `Write(r)`: if
the handler had found a row, `Reload(r)` comes first and `Updated(r)` is the row
with the columns that differed; otherwise it is an insert that fails when `UNIQUE
(lesson_id)` says so. A webhook whose UPDATE comes after a checkout has put its
session into the row writes the status alone: captured may stand beside a session
that nobody paid. `RecordsWhatHappened` is therefore about the lesson: no column
tells of what has not happened in any of its sessions. `url` is the session whose
page `checkout_url` opens, `bought` that the learner has bought the lesson in the
App Store. `shown` has the sessions whose URL somebody was given; nobody pays in
another. An open session may expire at any time, also while the row is not `old`,
so that its URL would still be reused: its owner may end it at Stripe. An event leaves `events` only when
the webhook has answered it with success, so it can be delivered again and in
any order. `Delayed` are sessions paid by a method that settles later; the code
asks for cards only (`payment_method_types[0]`), so the serial run has none,
while the safety run has one, because the handlers deal with that case.

### PracticePurchase

| code | actions |
|---|---|
| `handleRevenueCat`, `activateApplePurchase`, `subscribeMonthly` | `PurchaseBegin` or `PurchaseKnown`, `PurchaseSave`, `Entitle`, `EntitleRejected` |
| `grantL2LBonusForPurchase` | `BonusCheck`, `BonusCount`, `BonusLog`, `BonusSave`, `BonusNote` |
| `cancelMonthlySubscription` | `CancelRead`, `CancelPurchases`, `CancelAccess`, `CancelEnd` |
| `reverseL2LBonusForCanceledPurchase` | `ReverseBonus`, `ReverseEvent` |

One referred learner. Every statement is a step, for nothing here runs in a
transaction. `told` has the transactions whose caller was answered with
success. Two pairs of statements are merged because nothing can tell: the
lookup of the event with the update of its entitlements, and the reads of the
purchase and of the released events. `FromStore` are the transactions that come
from RevenueCat, which the cancellation leaves alone.

### LessonFinance

| code | actions |
|---|---|
| `createLesson*` with its first snapshot | `CreateLesson` |
| `updateLessonStatus`, `cancelLessonAsLearner` | `StatusCheck`, `StatusLock`, `Commit` |
| `rescheduleLessonAsLearner` | `RescheduleLock`, `Commit` |
| `repairLessonFinanceSnapshots` | `RepairRead`, `RepairSave`, `RepairFails` |
| `openCase`, `applyFinanceHoldForDispute` | `OpenCase`, `HoldRead`, `HoldBackfill`, `HoldSave`, `GiveUp` |
| `updateStatusAsAdmin` | `AdminRead`, `AdminSave` |
| `addEvidence` | `EvidenceRead`, `EvidenceSave` |
| rate or duration becomes known | `Price` |

`Computed` is `computeLessonFinance` without the amounts. A lesson may be older
than the snapshots (`Init` allows any status with none). The fallback of a
refresh writes `sync_failed`; only the one of the repair can succeed, because
after a failed statement PostgreSQL refuses every other one of the same
transaction. `unheld` is an auxiliary variable: the cases whose hold failed, a
failure that `openCase` logs and forgives.

### CompletionRewards

| code | actions |
|---|---|
| `updateLessonStatus` to completed | `CompleteCheck`, `CompleteCommit` |
| `processI2IStake` | `StakeCheck`, `StakePay`, `StakeNote` |
| `grantL2IRewardsForFirstSettledLesson` | `RewardCheck`, `RewardRead`, `RewardLog`, `LogOnly`, `RewardPurchase`, `CreditReload`, `RewardCredit`, `RewardCentre`, `NoteReload`, `RewardNote` |
| `reviewReferralEvent`, `reverseL2IRewardEvent` | `ReviewRead`; `TakeBegin`, `TakeRead`, `TakeReload`, `TakeRow`, `TakePurchase`, `TakeCentre`, `TakeEventReload`, `TakeEvent` |
| `expireDiscountedRates` | `AuditRead` |
| `extendNavigationAccess` | `SaleRead`, `SaleSave` |
| `cancelMonthlySubscription` | `CancelRead`, `CancelPurchases`, `CancelCentres`, `CancelAccess` |

One learner invited some of the instructors; rows of different referrers never
meet. A row's credit and total may come from two handlers, so `CreditIsEarned`
bounds each of them by the rewards that were logged; that the balance is not
above the total is not so. `SaleSave` is `extendNavigationAccess`, which is an
`update` of the one column: it adds a year to what was read or, for a purchase
that Apple gave an `expiresAt`, sets that end (`Ends`). `marks` is auxiliary and
says what the properties exclude: handlers that overlapped, an event whose state
was set by hand, navigation that was taken away, and an end that Apple gave
(`dated`), after which years of navigation are no longer a sum. What the model
shows besides: reversing an event that never brought
anything takes 25 pounds and the navigation access (`referrals.service.ts:1216`);
an event set from held to released by hand brings nothing and stands in the way
of the reward; a reversal restores the access as it was before the reward and
forgets what was bought since; the cancellation of a subscription also cancels
the bundle of a reward.

### CashbackReminders, AdvisoryCache

| code | actions |
|---|---|
| `start`, `submit` | `ClaimStart`, `ClaimInsert`; `ClaimRead`, `ClaimSave`, `ClaimTrack`, `SubmitEnd` |
| `tick`, `acquireReminderLock` | `TickStart`, `TickLock`, `TickRead`, `TickSend` or `TickSendFails`, `TickNote`, `TickEnd`, `TickUnlock` |
| the pool, the processes | `ConnectionCloses`, `HostDies`, `SubmitDies` |
| `resolveBbox`, `refreshAndCache` | `Begin`, `ReadFresh`, `ReadStale`, `ReadPrefilled`, `Fetch` or `FetchFails`, `Reread`, `Unavailable` |
| `persistCacheRow` | `StoreBegin`, `StoreUpsert`, `StoreDelete`, `StoreInsert`, `StoreCommit`, `StoreRollback` |
| the pool, the database, the process | `StatementFails`, `OthersQuery`, `CacheExpires`, `CacheCrash` |

In both a statement runs on a connection, and what it means depends on which:
an advisory lock belongs to the connection it was taken on and may be taken
again there, a transaction to the one that ran BEGIN. A statement gets any
connection that no other statement is running on. The pool serves every other
request of the process, and lookups of other keys: `OthersQuery` is one of them,
which begins, fails, ends or commits a transaction on a connection, whoever began
it, or the pool that closes the connection. So the statements of a lookup may be
torn from their BEGIN even when no other lookup of its key is under way, and
`astray` says that this has happened to what is cached now; until then
`CacheIsWhole` holds however lookups of the key overlap, since the lock on the
row of the query lets one at a time replace its features. After that a partial
answer may be cached until the row expires, and nothing in the code prevents it.
`happened`, `astray`, `latest` and the fields `had`, `answer` and `on` of a lookup
are auxiliary. The log of fetches is left out: it swallows its errors, and
nothing reads it.

### ParkingRules, ParkingAtlas

`Tell` is `evaluateTimeAwareStatus` with its three outcomes `TellActive`,
`TellComing` and `TellBase`; the clock runs on after a driver was told, and
`ToldIsTrue` compares what was told with what holds then. Read from the code:
bands until 24:00 or past midnight never apply, and an announced end is the end
of the band in force, whatever follows it.

`ParkingAtlas` is `syncAtlasFromRepository` and `importCouncilFeed`:
`ReplaceBegin`, then the transaction's two DELETEs, each in a step that finds
rows and one that has their locks (`FindBands`, `DeleteBands`, `FindPlaces`,
`DeletePlaces`), then `ReplaceWrite`, and `ReplaceFails` anywhere. Writing and
committing are one step because every row a transaction writes waits for whoever
has deleted one of that id, and nobody sees it before the commit.

### LruTtlCache, PracticeSessions, LessonReviews, LearnerLinks, CentreAccess

| code | actions |
|---|---|
| `get`, `set` | `GetExpired`, `GetHits`, `SetValue`; `TimeGoesBy` |
| `startPractice`, `finishPractice` | `StartPractice`; `FinishRead`, `FinishEnd`, `FinishStat`, `SaveStat` |
| `createReview` | `ReviewCount`, `ReviewFind`, `ReviewInsert`; `DayPasses` |
| `reportReview`, `flagReview`, `hideReview`, `removeReview`, `restoreReview` | `ReportRead`, `ModerateRead`, `RestoreRead`, `RestoreUndelete`, `ReviewSave`, `RemoveDelete` |
| `getInstructorShareCode`, `regenerateInstructorShareCode` | `GetCode`; `RegenerateCode`, `UpdateRows`; `DrawCode`, `InsertCode` |
| `submitLearnerLinkRequest`, `approveInstructorLinkRequest` | `SubmitCode`, `SubmitFind`, `SubmitSave`; `ApproveFind`, `ApproveSave` |
| `selectCentreForPractice` | `CallBegin`, `OverrideRead`, `WhitelistRead`, `GrantAll`, `SelectRead` or `CallAnswer`, `SelectClear`, `SelectInsert` |
| `appAccessState`, `hasAccess` | the same up to `CallAnswer`; `HasAccess` |

The cache runs without an `await`, so its operations are atomic. `since` has the
keys used since a key was. The save of a review writes `deleted_at` too if that
has changed since it was read, so a stale save un-deletes it; a crash between the save and the soft
delete leaves a removed review that can still be moderated; one that was removed
may be written again as far as `createReview` is concerned, but `UNIQUE`
refuses it. `regenerateInstructorShareCode` is the one transaction here: its
UPDATE finds rows, waits, and leaves alone what another has deactivated, so two
at once leave two active codes. In `CentreAccess` rows are told apart by centre,
end and origin; an end after `Horizon` is none. The list of privileged addresses
and the whitelist bring an entitlement without an end, which outlives the list.

`MCServices` composes the nine modules.

## Runs

| run | instance | states | shows |
|---|---|---|---|
| `booking_concurrent` | 1 instructor, 2 slots, 2 lessons, 2 requests, 2 units of time | 5,247,702 | `TakesOnlyFreeSlots`, `HolderPointsBack`, `HolderIsLive`, `LocksProtect`, `NeverWaitsForPreviousSlot` for interleaved requests that may die |
| `booking_serial` | 2 instructors, 2 slots, 2 lessons, 1 request, windows that overlap in part | 1,413,412 | no double booking (`CalendarDisjoint`, `SlotsDisjoint`), `OccupyingLessonHoldsSlot`, `FollowsLifecycle` |
| `booking_live` | 1 lesson, 2 slots, 2 requests, 1 unit of time | 282,096 | `RequestsEnd` |
| `booking_terminal` | 1 lesson, 2 requests | violation | a terminal status is overwritten |
| `payment_concurrent` | 2 sessions, one of which settles later, 2 requests | 7,754,320 | `RecordsWhatHappened` |
| `payment_serial` | 2 sessions, 1 request | 17,262 | `PaidIsCaptured`, `PaidLeadsToCaptured` |
| `payment_replaced` | 1 session, 2 requests | violation | Apple replaces a captured payment |
| `purchase` | 3 transactions, 2 requests of which both may cancel and 1 dies, or 1 at a time of which 2 die | 501,719 | `EntitledOnce`, `OneReward`; one at a time `SerialBonusIsBacked`, `SerialCancelledHasNothing` |
| `purchase_lost` | 1 transaction, 1 request, 1 crash | violation | success without access |
| `finance_serial` | 2 cases, 1 request | 51,677 | `SnapshotFollowsLesson`, `HeldWhileOpen`, `HoldIsKept` |
| `rewards` | 2 instructors, 3 lessons, 2 handlers, 1 crash, 2 reviews, 1 sale with or without an end that Apple gives | 4,307,958 | `CreditIsEarned` however handlers overlap; `LessonsAreSettled`; one after the other `RewardedOnce`, `BooksBalance` |
| `services` | each of nine services by itself, 2 requests or processes | 2,599,269 | `RemindedOnce`, `CacheIsWhole`, `StaleIsAnswered`, `ToldIsTrue`, `KeepsRecent`, `PracticeIsCounted`, `ModerationStands`, `LinksAreKept`, `AtlasIsOneSource`, `AccessIsPaidFor` |

Types are checked in one run of each module. Deadlock is checked in all runs but
two: in `services` practice sessions come to an end when all that are allowed
were started and finished, and in `payment_concurrent` a captured row may
name a session that nobody was shown, and then nobody has anything left to do. The mutants in `PROJECT.json` break each property
once.

In `services` the variable `part` says which service moves, and the others stay
as they began. That loses nothing: no service calls another, no property is
about two of them, and the one thing two of them share, the rules of parking, is
any set of rules for the one that reads it. The number of states is then the sum
over the services and not the product.

"Serial" runs have a single request, so the next handler starts when the last
one has ended or died. Their properties do not survive interleaving, which is a
fact about the code, not about the model: two requests for the same time both
pass `ensureNoLessonConflicts`, and two handlers that save a snapshot overwrite
each other. What is claimed for interleaved requests is what the row locks and
the unique constraints do protect.

### Bounds

- Two requests in flight: every race here is between two handlers, and a lock
  has a holder and a waiter. Two slots and two lessons give a reschedule a slot
  to leave, one to take, and somebody to want either. The proofs remove these
  bounds from the invariants.
- Two units of time are enough for windows that are equal, overlap in part, or
  are apart; `MixedWindows` has each, one of another instructor, and one that
  covers no time.
- `Ends` has one end that is later than nothing and no later than what a reward
  and a sale bring, so an end that Apple gives lengthens or shortens.
- Two sessions: the row names one, and the events of another may still come.
  The two properties of `payment_serial` are about lessons with one session,
  while the second is there to end the premise.
- Three transactions: one that is rewarded, one that is in the way, and one
  after the cancellation. `MaxCrashes` bounds the handlers that die; two are
  enough for one in a purchase and one in a cancellation.
- Two cases: resolving one of them must not release what the other holds.
- Rewards: two lessons of one instructor compete for the first reward, and the
  other instructor was not invited by the learner; two handlers meet once in a
  behaviour, whatever one at a time has done before. Two reviews hold, release
  and reverse an event.
- Two ticking processes, one with two connections, of which a lock and its
  unlock may get one each; `MaxPushes` ends a behaviour in which a learner was
  reminded twice, and `MaxDepth` how often a connection may take the lock again.
- Two lookups that may overlap, two connections that other requests use as well,
  two answers without a common feature: what is left of a mixed refresh is none
  or both.
- A day of three minutes has two bands that are equal, touch, overlap, contain
  each other or are apart, with any tokens; a locality with none, its own or the
  council's bands. The proof removes the bound.
- The cache holds two of three keys, and time can pass between all uses.
- A council with one locality and three sources, of which one gives no fee and
  one no locality; two test centres, a clock that moves once, so that of two
  entitlements one ends, and one that does not.

Symmetry is used in the runs without liveness only, on sets whose elements no
definition tells apart.

### Fairness

Nothing is assumed of users: no fairness on what starts a handler, on payments,
approvals or crashes.

- `LessonBooking`: `SF(Finish(r))`. A handler that has started goes on, since
  its statements are run by the event loop and the pool. Strong and not weak,
  because a waiter's step is disabled whenever another transaction has the row
  lock; PostgreSQL serves the queue of a lock in order.
- `LessonPayment`: `WF(Continue(r))`, of which dying is one way to go on;
  `SF(Deliver(s))`, `SF(Reloads(s))` and `SF(Record(s))` say that Stripe repeats
  a delivery that was not acknowledged, and that not every attempt of one that is
  repeated for ever fails, at the first statement of its save or at the second.

## Proofs

All for any values of the constants; the assumptions on constants are named in
the modules that declare them (`WindowsAssumption`, `NullAssumption`,
`SessionsAssumption` (in `LessonPayment` and in `AdvisoryCache`),
`NoEventAssumption`, `TransactionsAssumption`, `RequestsAssumption`, `DisputesAssumption`, `InstructorsAssumption`,
`LessonsAssumption`, `BoundsAssumption`, `RulesAssumption`, `CacheAssumption`,
`ConnectionsAssumption`, `LearnersAssumption`, `NobodyAssumption`,
`ReviewsAssumption`, `HorizonAssumption`, `PracticeAssumption`,
`AnswersAssumption`, `RulesAreRules`), and say only that null values are none of
the ids, that windows belong to instructors and lessons have one, that answers
are sets of features, that a source's rule names its own localities, that bounds
and minutes are natural numbers, that a fee has one of the
four values `normalizeFeeState` gives it, and that the LRU cache has a value to
hold.

Some properties hold only while requests do not overlap, because the code does
not lock what they depend on. In `LessonBooking`, `LessonPayment`,
`PracticePurchase` and `LessonFinance` their theorems have the form
`Spec /\ []Alone => []P`, where `Alone` says of a state that no two requests are
in flight. There may be any number of requests that take turns, and all that one
can meet alone is kept: it may stop, fail or die anywhere between two of its
statements, and the next one begins there. Where the module itself records that
requests overlapped (`marks`, `raced`, `mixed`, `replaced`), or that a statement
went astray (`astray`), the property says so, the theorem needs no hypothesis,
and that they are alone until then is part of the invariant. The argument is the same everywhere: what a
request has read is still so when it writes. It is made for the request that
takes the step (`OnlyOne`, `ThisKnows`, `OthersRest`), since all others are
idle.

`LessonBookingProofs`. The invariant is `Base /\ Holding /\ Locking`.
`Holding` is what we want: `HolderPointsBack`, `HolderIsLive`. It is not
inductive: a commit hands its slot to its lesson, which keeps `HolderIsLive` only
if the lesson still takes up time, and keeps the old holder's side only if there
is none. So `Locking` says that what a transaction checked under its locks stays
so (`LocksProtect`: a save may have reloaded the row before, but its UPDATE waits
for the lock), that a lesson covers exactly the time of
its slot (`WindowsAgree`), that no other lesson that takes up time is on a slot
that is locked (`LockedSlotUncontested`), and that the partial UPDATE of a status
change writes `booked_lesson_id` whenever that must change (`SavesSeeHolder`): its
reload has seen the holder, and to give the slot to that lesson since takes the
lock of the lesson.
`LockedSlotUncontested` starts to hold with the lock, because the conflict check
of `BookSlotLock` and `RescheduleLock` would have met that lesson: it covers the
same time (lemma `ConflictFindsHolders`). It goes on to hold because whatever
would bring a lesson back to that slot has to wait for the lock. From it follows
`NoLockCycle`: whoever wants the slot a lesson is moving away from would contest
that lesson, so a reschedule never waits for its third lock, and the locks
cannot form a cycle although they are taken in no fixed order. `Base` is types,
references of requests, and ids reserved apart.
Theorems: `TypeCorrect`, `SlotsAndLessonsAgree`, `HoldersAreLive`,
`LocksAreEnough`, `NoLockCycle`, `OnlyFreeSlotsAreTaken`; and, of no run because
`LocksProtect` all but says it, `OnlyManageableIsMoved`.
Under `[]Alone`, `SInv` adds `Calendars` (`CalendarDisjoint`,
`SlotsDisjoint`, `OccupyingLessonHoldsSlot`) and `ReadsAreFresh`: no slot and
no lesson has come in the way of the window that is about to be written, a slot
to be dropped is still nobody's, and the transition that was checked is still
one of the table. It needs `IInv`, since a lesson that takes its slot back is
safe only if the slot names no other. From it follow `NoDoubleBooking`,
`NoOverlappingSlots`, `LessonsHoldTheirSlots` and `BookingImplementsLifecycle`,
the refinement: initial states map to initial states, and every action to a step
of `LessonLifecycle` or a stutter.

`LessonPaymentProofs`. `OnlyWhatHappened` needs that each column a handler is
about to write tells of what has happened (`AnswersAreTrue`), and that for
webhooks needs that events do (`EventsAreTrue`): a session that is paid, failed
or expired stays so, hence an answer may be old but not wrong. As it is said of
each column for itself, it holds of any mixture of them that a partial UPDATE
leaves. `PaymentsAreCaptured` assumes `[]Alone` and that no
method settles later (`Delayed = {}`). Its heart is `NoneForgotten`: a session
that is paid, and the only one, is captured or its event is still to come;
`EventsSayAll` and `SettledAtOnce` say that this event reports a payment,
`SessionsExist` and `HandlerKnows` that a handler in flight writes what agrees
with it that a status its UPDATE leaves out is in the
row already, and that a failed handler leaves the event to be repeated.

`PracticePurchaseProofs`. `EffectsAtMostOnce`: the unique `transactionId` makes
one request the owner of a transaction (`OneOwner`), and the owner has not yet
done what it is about to do (`OwnerProgress`); a crash only removes an owner.
`AtMostOneReward` adds `OneEarned`: a purchase that has been counted as the
only completed one stays completed until a cancellation, and is then in the
way of every other count. `OneAfterTheOther` is about behaviours with `[]Alone`.
`FreshRewards` says that what was found of the rewards is still so; `InProgress`,
that what a cancelled purchase still has will be taken by the cancellation that
is under way, and that what RevenueCat reported is entitled or about to be.
`BonusesAreBacked` and `CancelledKeepsNothing` are about the specification of the
run, whose variable `serial` says that handlers take turns; `SerialInv` is the
same invariant while it does.

`LessonFinanceProofs`. `TypeCorrect` for any requests; `SnapshotIsRight` and
`HoldOutlivesCases` assume `[]Alone`, since the code does not protect the
snapshot from two writers. `ReadsAreFresh` is the point: what the request in
flight computed is still right when it saves, also across the two statements of
a backfill and a hold. `OpenCasesHoldThePayout`, under the same assumption, rests on `HInv`: for every
case that is open and was never resolved, the payout is on hold or the request
that opened the case is still to hold it (`HeldOrHolding`). To show that no
step lifts a hold too early it needs that a payout is voided only with its
lesson, for good (`VoidedForGood`), that a case that was resolved or closed is
marked as resolved (`CasesMarked`), and that whoever saves a case has it as it
stands (`CaseIsFresh`).

`CompletionRewardsProofs`. `TypeCorrect`, and `EarnedOnly`: whatever overlaps,
the learner's credit and total never exceed the rewards that were logged, nor the
years of navigation those and the purchases unless Apple gave an end. A handler
carries a copy of the row it has read, and its UPDATE writes some columns of it,
so the invariant bounds each column of every copy by itself (`Covered`), and
counts what a handler is about to add before its event is there.
`LessonsGetSettled` holds however handlers interleave. `SettledInv` says that,
unless one died, for each completed lesson an event is logged or some handler is
still to look at the reward of that instructor (`LooksAt`), and for each payout
the lesson is staked or some handler is still to note it (`Notes`). A handler
that finds a reward already given gives up its turn, but then the event is in
the log; and the log only grows and no event changes hands, for which
`CopiesAreTrue` is needed: a review that writes back its stale copy of an event
writes one of the same instructor.
`OneReward` and `TheBooksBalance` rest on `SerialInv`: until handlers overlap,
they are `Alone`, and `Turn(q)` relates all that is stored to the handler `q` in
flight, or to an idle one when there is none. `Paid(q)` is about payouts,
`EventsRight` says that one event of an instructor stands and that what was
granted was released, `KnowsEvents(q)` that what `q` has read is still so, and
`Books(q)` counts what the standing rewards brought, less what `q` has not given
yet or has taken already. While a handler is at work the books are out by
exactly its remaining statements, which is why `BooksBalance`, about quiet
states, is not inductive. Alone, a handler's reload finds what it has read, so its
UPDATE writes all it means to change. A sale with an end that Apple gave is
marked, and the years of navigation are then out of the books.

`PoolProofs`. `AnswersAreWhole`: `CacheInv` says, until a statement goes astray,
that every transaction with a change is that of one lookup (`Apart`), and what it
has replaced so far at each statement of `persistCacheRow` (`Holds`); so a COMMIT
makes all of it visible, a ROLLBACK or a crash none of it, and of two lookups of
the key the second waits for the row of the first (at most one transaction has
stored it). `OwnsOne` says which connection a lookup has begun on, and holds
always. `StaleRowsAnswer` holds whatever overlaps, since a
row never goes away (`RowIsKept`). `NobodyIsRemindedTwice`: `ClaimsAreTrue` holds
always, also of the copy of a claim that a request is about to save; `Guarded`
holds until the first mishap the property lists: one tick works, under a lock
that a connection of its own process holds, and whoever was pushed to is noted
or about to be noted by it. `CacheTyped`, `RemindersTyped`: the types.

`InstructorProofs`. `CodesAndLinksAreKept`: a request that has deactivated
rows keeps them to itself until it inserts, so a code that was issued is never
missing; while one request at a time writes codes, the code it has drawn is
still free when it inserts it. `ModerationHolds`: whoever would save a review as
visible has read it as visible, and what takes a review down marks every reader
in flight; only a restore clears that.

`ServicesProofs`.

- `DriversAreToldTheTruth`: no band in force changes before the minute that was
  named. With a band in force that is its own end, and the first in the order of
  the sort stays first, for bands that begin meanwhile begin later; without one
  it is the first start that is still to come.
- `CentresArePaidFor`: a selection ends no later than some entitlement to all
  centres, which nobody shortens, and so does the one a request is about to
  insert (`PaidFor`). Selections that did not overlap have cleared the others
  before they insert (`OneSelects`).
- `SessionsAreCounted`: `KeptCount` compares the statistic with the completed
  sessions that no request is still to count (`Counted`), and `OneFinishes` says
  that whoever saves the statistic has it as it stands.
- `AtlasHasOneSource`: a replacement that was alone since it began has found and
  deleted all there is (`KnowsAll`), so what it writes is all there is then.
- `RecentAnswersAreKept`: entries stand in the order of their last use
  (`Tidy`: of two, the later one was used since the earlier one), so an entry
  that is evicted has a full cache of other keys used since, and that set only
  grows until the key is used again.
- `EachAsIfAlone`: a behaviour of `MCServices` is, for each of the nine modules,
  a behaviour of that module, since a step of one leaves the variables of the
  others unchanged. So every theorem above holds of the composition, and the run
  `services`, which checks them there, checks what is proved.
  `ServicesAreTyped` is the first use of it.

Only model-checked: the two liveness properties (`RequestsEnd`,
`PaidLeadsToCaptured`), since fairness is beyond the proof system; of the first,
`NoLockCycle` proves the safety part, that no cycle of locks is waited for.
And the three properties that are violated, which are not theorems. What a
recursive definition computes is nowhere needed: the modules that are proved
about have none.

## Findings

1. `TerminalIsFinal` (`booking_terminal`). `updateLessonStatus` checks the
   transition on a row it read without a lock and, under the lock, writes the
   new status without a second look (`instructors.service.ts:922`; learner
   cancellation does the same at 1024). A lesson that was cancelled in between
   is then completed, and takes its slot back from whoever was given it since.
2. `AppleNeverReplacesStripe` (`payment_replaced`). The check that a Stripe
   payment is captured is made on an earlier read
   (`instructors.service.ts:1667`), and the save at 1691 replaces what a webhook
   captured since.
3. `SuccessMeansEntitled` (`purchase_lost`). The purchase row is saved first and
   marks the transaction as handled (`webhooks.service.ts:71`); when the
   delivery dies before the entitlement, every repetition succeeds and grants
   nothing.

## What is not modelled

- Amounts of money, texts, notifications, audit rows, contact details: no
  decision of the modelled handlers depends on them.
- Reads that change nothing (lists, reports, exports).
- The caps on bonuses per referrer, the comparison of devices, and end dates of
  entitlements, in `PracticePurchase`; registration with its codes and fraud
  score, the list of payouts and marking one as paid
  (`setReferralPayoutPaidStatus`), in `CompletionRewards`.
- Confirmations and events that name one lesson and a session of another, and
  signatures, in `LessonPayment`.
- The size of the connection pool: a transaction that waits for a second
  connection is modelled as if there always were one.
- Authentication, users, throttling, legal acceptance, analytics, content packs,
  centres, health and administration: one statement per operation, or none
  between a read and a write that another request could disturb in a way the
  code answers for; hashing, signing and files are libraries.
- Geometry along routes, OSM conversions, parsers of feeds and tracks: floating
  point arithmetic and text, without state.
- Seeds (more than 20,000 lines of coordinates), migrations and import scripts:
  data, and steps that somebody runs by hand on a database nobody else uses.
  They are most of the source, which is why the map names a small share of it.
