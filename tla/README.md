# Verification of the ANoon coworking backend

The program is the backend of a coworking space: reception checks visitors in and
out, the cafe sells to them, some pay in advance (subscriptions, snack wallets),
some owe (debts), and a MikroTik hotspot sells them internet. It is one Node process
(Express, TypeScript) over PostgreSQL through Prisma. Paths below are relative to
the repository root; `sessions/service.ts` means
`src/modules/sessions/service.ts` and so on. `PROJECT.json` names, for every
definition, the lines it stands for (there the repository root is written `src/`).

    tlc -workers 2 -config Cafe.cfg CafeMC.tla       # one run
    tlapm CafeProofs.tla                             # one set of proofs

## 1. The system

### Where the steps are

JavaScript runs to the next `await`, so two requests interleave exactly at database
and router calls. Most operations are: read rows, await, decide, write. The write
often is an absolute value computed from what was read. `prisma.$transaction` makes
the writes in it appear at once, at PostgreSQL's default READ COMMITTED: a read in
a transaction still sees what others have committed since the last statement, and
only rows that it has *updated* are locked. Nothing retries. The schema has unique
keys on `SnackWallet.phone`, `KnownDevice.mac`, `Contact.phone`, `EmployeeRoster.phone`,
`Staff.username` and `Staff.phone` among others, and none on open sessions, visitors' phones, active subscriptions,
bookings or unpaid debts; those are guarded by a read before the write. Any call may
throw (a database error, a refusal) or the process may die, and what was already
written stays: the models have an `Abort` action for that. Prices, discounts, Arabic
messages, audit rows and the shape of JSON are data no property here is about.

### Components

| component | code | state | operations | correct when |
|---|---|---|---|---|
| Snack wallet | `snack-wallet/service.ts`, and the order, checkout and delete paths of `sessions/service.ts` | `SnackWallet.balance`, the ledger `SnackWalletTransaction` | create, remove, topUp, deduct, refunds | the balance is what the ledger says, never negative; an order is not charged again without a refund; a refund gives back what was charged last, once |
| Attendance | `sessions/service.ts`, `integrations/service.ts` (QR page) | `Session`, `Subscription.daysUsed` | checkIn, anoonCheckIn, editSession, checkout, deleteSession | one open session of a visitor; each attended day used up once |
| Session orders | `sessions/service.ts` 838-1451 | `SnackOrder`, `Sale`, quantities | addOrder, addBatchOrders, editOrderItem, deleteOrderItem | stock, wallet and bill all follow the order |
| Sales page | `sales/service.ts` | `Sale`, quantities | create (one or many), edit, delete | units are conserved |
| Inventory, drinks | `inventory/service.ts`, `drinks/service.ts` | `InventoryItem.quantity`, `Drink.quantity` | create, restock, edit, delete | never below zero, no units lost |
| Billing and debts | `sessions/service.ts` checkout, checkoutUnpaid, editSession, deleteSession; `debts/service.ts` | `Session.amount/paymentStatus`, `Debt`, `Subscription.amountPaid` | the two checkouts, edit, delete, collect, collect in parts | what is not paid is owed, once, in full |
| Pricing | `sessions/pricing.ts`, `hotspot.config.ts` | none (pure) | price of a stay | longer is never cheaper; the Live page shows what will be charged |
| Hotspot | `hotspot/hotspot.service.ts`, `hotspot.cron.ts`, `hotspot.routes.ts` | `NetSession`, the router's active devices, `Session.internetAmount` | portal login, computeVisitCharge, endByPhone, the sweep at closing time, the idle reconciliation every ten minutes | a visit is charged from its first connection, never from an earlier visit, once; rows of devices that left are closed |
| Hotspot identity | `hotspot/identity.service.ts`, `device-auth.ts`, `lib/mikrotik.ts` | `KnownDevice`, users and active entries of the router | resolve a phone, remember a device, let its peers in, cut a phone | a device is online under the phone it is saved for; a cut leaves none behind; every door finds the same visitor |
| Subscribers | `subscribers/service.ts`, `lib/subscription.ts` | `Subscription` | create, renew, pause, update, delete, restore, expire | one live subscription of a person, none lost in renewal |
| Persons | `visitors/service.ts`, `lib/person.ts`, `mergePerson.ts`, `personUniqueness.ts`, and the person half of `trainees`, `tamkeen-students`, `employees`, `subscribers` | `Visitor`, `EmployeeRoster`, whose wallet a phone has | create, import, hire, edit, archive, restore, convert, merge | a phone has one active person; a wallet stays with its person; nobody is archived while present |
| Rooms and bookings | `rooms/bookings.service.ts` | `Booking` | create, update, delete | bookings of a room do not overlap |
| Authentication | `auth/service.ts` | `Staff.failedAttempts`, `lockedUntil`, `LoginLog` | login, refresh, change of password | five failures in a row lock the account for 15 minutes, and no lock is lifted early |
| Courses | `courses/courses.service.ts` | `Course`, `Trainee.amountPaid` | enrol, record a payment, edit, delete | what was handed over is what is recorded |
| Contacts | `contacts/service.ts` | `Contact` | create, update, import, delete | one card per phone, refusals reported |
| Revenue, reports, dashboard | `lib/revenue.ts`, `lib/daily-report.ts`, `reports/controller.ts`, `dashboard/service.ts`, the history of `sessions/service.ts`, `expenses/service.ts` | `Expense`; the rows of everybody else | sums, workbooks, mails | count what was handed over, once; agree with each other |
| Follow-up | `followUp/service.ts`, the alert of the dashboard, `getChurned` | a mark on `Visitor` | list, markContacted, optOut | leaves alone whom it should; its lists agree |
| Time zone | `lib/timezone.ts` | none (pure) | the date, the beginning and the end of a day in Palestine | the bounds of a day hold the day |
| QR notices | `lib/anoon-sync.ts` | the copy the QR site keeps | syncMember, deactivateMember, not awaited | the copy is current once notices have arrived |
| The rest | staff accounts, notes, settings, public menu, login log; the HTTP shell | rows of their own | CRUD | independent rows |

### How they interact

- Check-in (front desk, or the QR page through `integrations`) creates the session,
  uses up a day of the subscription in the same transaction, and in the background
  authorises the phone at the router.
- `addOrder` is four components in a row: it takes stock, writes the order, charges
  the wallet (its own transaction) and writes the sale. `editOrderItem` and
  `deleteOrderItem` undo these one by one; `deleteSession` undoes the wallet again.
- A checkout asks the hotspot for the charge of the visit, closes the session with it,
  charges the wallet if asked to, and only then calls `endByPhone`, which cuts the
  device, stamps the rows as billed and labels the session. The sweep and
  `POST /hotspot/end` call `endByPhone` without any checkout.
- `checkoutUnpaid` and `editSession` create debts; collecting a debt of a subscription
  reads `Subscription.amountPaid`, adds to it and writes it back.
- A person is found by phone, in `Visitor`, the roster and the staff, by queries that
  reception, the QR page, the portal and the imports each have of their own; creating,
  renaming, converting, merging and archiving a person moves the wallet and tells the QR
  site, without waiting.
- Revenue, history, workbooks, previews, mails and the dashboard each read the same
  sessions, orders, sales, debts, bookings, courses and expenses with their own queries,
  between days that `lib/timezone` bounds.
- The cron jobs (end of day, idle reconciliation, expiry of subscriptions, the daily
  mail) run beside all of this.

### What is hard

Stale reads written back as absolute values (wallet, stock, daysUsed, debts);
check-then-insert without a key (open session, live subscription, booking, unpaid
debt); operations that are several commits (order, unpaid checkout, renewal);
refunds and restores that can be reached by two routes; several jobs stamping the
same hotspot rows; rows left over from an earlier visit; a job that must eventually
close what nobody else will; checks that guard one phone by different questions; calls to
a router and a site that may be carried out and yet fail; one amount written to four rows
that are edited apart; days that are not 24 hours long. `PROJECT.json` lists these with their lines.

## 2. The modules

Every module keeps one record per request in flight, `req[r]`: `pc` is the await it
stands at, the other fields are the local variables that matter, and a few history
fields (marked so) record whether somebody else wrote in between. An action is the
code between two awaits, or a whole transaction where nothing is read in it before
its first write. Ids are uuids and are used once, so a bounded instance may simply run
out of them: hence `CHECK_DEADLOCK FALSE` everywhere. No code here waits for
another request except for a row lock, and the one place where a row lock is held over
several steps has its own guard (`Writable`, `VisitorFree`).

**SnackWallet** - `wallet`, `balance`, `ledger`, with just enough of sessions, orders and
sales to know which request may start. `TopUpRead`/`TopUpCommit` and
`ChargeRead`/`Deduct` are the reads outside and the writes inside the transactions of
`topUp` and `deduct`; `EditFind`/`EditCommit`, `RemoveFind`/`RemoveCommit` and
`PurgeList`/`PurgeRead`/`PurgeApply`/`PurgeCommit` are the three refunding paths, the last
one running inside the transaction of `deleteSession` and holding the row lock.
`EditFind` may pick any deduction of the order, as the `findFirst` of the code does.
A session charges the wallet of its visitor only, and a phone that moves to
another wallet is not modelled. Whether `deleteSession` is refused for a debt is left
open here (Billing decides it), and so is the stock.

**Attendance** - `session`, `sub` (with `used`, that is `daysUsed`) and the calendar
`today`. A transaction is four steps: `Begin` (the first write and its lock), `ReadSub`,
`ReadDays`, `Close` (everything becomes visible). Check-in updates the visitor's row
first, so two check-ins of one visitor run one after the other; edits and deletions
lock only the session. An edit that keeps the day it read writes that day back all the
same if it gives a check-in, and so may undo the move of another edit (`Amend`). What the
subscribers service does to a subscription appears as `CreateSub`, `Lapse` and `Revive`. Check-in takes whichever of several active
subscriptions the query may return.

**Hotspot** - `net` (NetSession rows), `online` (the router), `session` (what billing reads
of it) and the clock `now`. A charge is identified by the time it counts from, 0 being
none: whether the amount is right then is arithmetic, which minute it starts at is
the hard part. Login is router, session lookup, supersede, create; ending is cut,
read the visit, close, stamp, carry, post, each its own step. `Pending` and `Checkout`
are computeVisitCharge before, and the session update of, a checkout. `Drop` and
`Authorize` are devices leaving and coming back by themselves. A phone with two open
rows is ended once per run of a job; the code may do it twice, which is a further run.

**Cafe** - `stock`, `order`, `sale` for inventory items and drinks (whose code paths are the
same but for the table). Reads and writes are separate steps, and `Put` writes
the absolute value. History: `supplied`, the units a request holds (`owed`), and `exact`,
false from the first write that overtakes another, is abandoned half way, or comes
from a sale that belongs to an order. The checks of the session and the wallet only
refuse, so they are `Abort`. `deleteSession`, which drops the orders of a session with the
units in them (`sessions/service.ts:1505`), is not an action here: see section 5.

**Billing** - `session` (amount, payment status, number of orders), `debt`, `sub` (amount
paid). The price of the time, the internet and the discount are one number out of
`Hours`. A collection for a subscription is two steps: `Sync` updates the debt, whose row it
then holds (`Locked`), and reads what was paid; `Collect` or `CollectPart` writes that back with
the money added (`Synced`) and commits. `disturbed` holds the sessions and subscriptions whose
requests overlapped or that staff edited by hand in a way that says something new about the
money (a debt's amount or status, a deleted debt, a debt or an amount paid that a subscription
is given, a reopened or repriced session, a payment changed together with the date): no
property speaks of those.

**Office** composes the thirteen services beside the sessions. Each is a module of its own,
instantiated with its variables; each says itself what the rest of the program may do to
its rows (a check-in that creates a person, a device that leaves, a room that is deleted),
so no two of them share a variable and interleaving them would add no behaviour. `focus`
picks the service that moves in a behaviour; a property of Office is the property of the
service, where it is in focus. The sessions stay in the five modules above, which each
keep the part of a session their own properties are about.

| module | stands for | its actions |
|---|---|---|
| Persons | rows of `Visitor` of five types, the roster, wallets, presence | looking (all checks of an operation, at one moment) and writing (one statement or transaction), for creation by six doors, renaming, conversion, archive, restore, merge, import, hiring, and the edit, archive and restore of the pages for trainees, Tamkeen students and subscribers (the last of which looks neither at the type of the row nor at its archive mark) |
| Entrances | the doors of the space, for one phone | Reception, QrMember, QrVisitor, Portal, whose check-in may be refused or break down at any query and which goes on either way, and what becomes of the rows between. A row has any number of sessions, open (`seat`) and closed (`past`), as an edit may open a closed one again beside another (`Reopen`) |
| Devices | the router and KnownDevice | logins, peers one by one, guests, cuts in their three calls, each of which may fail after it was carried out |
| SessionPrice | pricing.ts, hotspot.config.ts, the sums of a checkout and of the Live page | time passes, orders, going online |
| Subscriptions | the subscriptions of a person | create, renew in its two commits, pause, edit, convert (one transaction of two statements: it ends the rows that counted at the first, keeps them locked, and all of it shows at the commit), merge, expiry |
| Login | one account of the staff | start, fail, succeed, clock; the failures are written as read plus one |
| Bookings | bookings and rooms | look, then create or update; delete; deletion of a room |
| Courses | courses, trainees, payments | look, then pay or delete; the edits by hand |
| Contacts, Directory | the address book, and what one promises | look, then create, or update with the fields that are given and no others; an import row by row |
| AnoonSync | the person of one phone, and the copy of the QR site | every operation that sends a notice; sending, arriving, losing |
| Takings | visits, items (an order with its sale, or a sale), debts, a booking, a course, an expense | the operations that write amounts, one step each; the reports are operators |
| FollowUp | persons, their visits, the mark | visits, calls, opt-outs, edits, archives; the three lists are operators |
| Calendar | lib/timezone on a day with or without a change of the clocks | time passes |

**SnackWalletProofs**, **AttendanceProofs**, **HotspotProofs**, **CafeProofs**, **BillingProofs**,
**OfficeProofs** and **LedgerProofs** hold the theorems, **Sums** the lemmas about sums over
finite sets and about largest and smallest numbers which they share. The theorems of the
services in Office are about the instances (`Rooms!`, `Ledger!`, ...): OfficeProofs has those
of eleven services; LedgerProofs, which extends it, those of the takings and of the days,
and the types of all thirteen. The `MC` modules add symmetry sets, instance values and
constraints. `TakingsMC` runs Takings by itself for the one property it does not keep.

## 3. The runs

| run | shows | bounds | states, time |
|---|---|---|---|
| `snack_wallet` | HeadAgrees, NonNegative, ChargesMatchOrders, ChainedUnlessOvertaken | one wallet, session, order; two requests; deposit 2, prices 1 and 2; four ledger rows | 1,560,042, 2 min |
| `attendance` | QuotaCounted, OneOpenUnlessRaced, NoLostDay | one visitor, two sessions, one subscription, two requests, two days | 1,816,966, 1.5 min |
| `hotspot` | ChargedFromFirstConnection, BilledOnce, OneOpenRowUnlessRaced | one phone and session, two rows, two requests, clock 1..2, tolerance 0 | 977,552, 1.5 min |
| `hotspot_idle` | IdleRowsClose | one request, the cron job, visitors and employees | 335,920, 1.5 min |
| `cafe` | Conserved, OnlyBatchesOversell | one item, one drink, one order, one sale, two requests, one or two units | 2,236,960, 3 min |
| `billing` | SessionsAreOwedOnce, FeeIsPaidOrOwed | one session, one subscription, two debts, two requests, two orders | 426,425, 1 min |
| `office` | the nineteen properties of the services, below | below | 351,353, 2.5 min |

Each but `hotspot_idle` also checks its module's `TypeOK`; that of Office is the one of each
service in focus. Why these are enough: every race in this code
is between a read and a write of *one* row by *two* requests (a third only adds a
second overtaker), so two requests and one contended row are the smallest complete
case. Two ids are kept where a second one changes the answer: sessions in
Attendance (a second open one), rows in Hotspot (a reconnect), debts in Billing (a
second debt), two amounts (a refund of the wrong charge; an edit up or down). Two days
separate "today" from "another day", and two ticks "before" from "since"; a tolerance of
0 makes the edge of the window a reachable one. Four ledger rows fit a top-up, a
charge, its refund and a second charge or refund. `Cafe` looks at no state behind the first
write that broke `exact` (constraint `Exact`) as its invariant then claims nothing; the
claim that holds there too, OnlyBatchesOversell, is proved without any bound.
`Billing` likewise stops at the first disturbance (`Calm`): once an owner is in
`disturbed`, nothing is claimed of it, and the properties of the others concern
other rows. Symmetry is over interchangeable ids only, and the liveness run has none.

The services of `office`, with their bounds (every action of each service occurs within them):

| service | property | what it says | bounds |
|---|---|---|---|
| rooms | NoDoubleBooking | edits of one field at a time, by several clerks, do not add up to two confirmed bookings of a room at an instant, unless one was checked before the other was written, or moved to a room where nobody looked | two bookings, rooms and clerks; times 0..2 |
| book | IsADirectory | the requests implement Directory: one card per phone, one change at a time (a refinement, by `INSTANCE ... WITH cards <- Cards`) | two cards, names, phones, clerks |
| school | PaymentsAddUp | payments that do not overlap add up, never above the price; "paid in full" is true even when they do | one course and trainee, prices 2 and 3, payments of 1 and 2 |
| plans | PaidSubscriptionLives | one live subscription, the one paid for last, but for two requests that overlap, a row edited by hand, or a renewal that died half way | two subscriptions, two requests |
| door | FailuresLock, LockHolds | failures in a row lock the account unless logins overlapped; a lock is lifted early only by a login that had read the row before | two logins, three failures for the five of the code, a lock of 2 ticks |
| till | NeverCheaper, LiveIsCharged | a longer visit or a further order is never cheaper, across the cap, the minimum, the increments and every rounding; the Live page shows the bill, or less than it | two seat rates, two tiers, three discounts, 280 minutes in steps of 35 |
| site | CopyIsCurrent | with no notice lost, overtaken or unsent, the site lists exactly the members | four operations |
| router | CutIsComplete, OnlineIsKnown | a cut leaves no device of the phone but those which came in meanwhile; a device is online under the phone it is saved for | two devices, phones and requests, one peer |
| people | OnePersonPerPhone, WalletStaysWithItsPerson, ArchivedAreAway | all doors that guard a phone guard it together; a wallet follows its person; nobody present is archived | two persons, phones and desks, four types, four operations |
| entry | OneInvoice | whichever doors somebody came through, one session is open for the phone, unless staff opened one again beside it; an open session of the visitor it names carries the charge of the internet, or none does as the check-in of the portal broke down; no subscriber pays for it | two rows, two types, five steps |
| ledger | TillAgrees, ReportsAgree | revenue differs from what was handed over by four named sums and no other; eight reports agree up to named roundings and exceptions | two visits, items and debts, two days, four operations |
| calls | FollowUpsAgree | nobody is on the list who was called or came lately; the list, the alert and the messages differ only where named | two persons, five days, four operations |
| days | DaysAreWhole | bounds of a day hold the day and no other, late by less than a second if at all; an hour off on a day of a change; the trend shows each day once unless the clocks were moved in it | a day of 24 ticks, a second of 2, an hour of 4; changes at and around a midnight, forward and back, or never |

The windows in which a service is raced or edited by hand are recorded in history
variables, and the constraint `Calm` stops there for the same reason as in Billing: the
properties except the owner. What is excepted is small and named; that nothing else leads
to the bad outcome is the claim. The calendar is scaled: the code only adds, truncates to the
second and compares, so what matters is that a tick is less than a second, a second than an
hour, an hour than a day, that Palestine is a whole number of hours ahead of UTC, one more
in summer, and that its clocks move at a whole hour, as those of Asia/Hebron do
(`OfficeAssumption`). DaysAreWhole is met by bounds at midnight to the tick, as the comments
promise them, as well as by those of the code, which are later (section 3, disagreements).
`MaxFailed`, the windows of the follow-up and the lengths of days and locks
are constants of the models for the same reason. The prices of SessionPrice are those of
the code in agorot, so that its rounding is exact.

What the properties say beyond "the code does what it does":

- *ChainedUnlessOvertaken*, *OneOpenUnlessRaced*, *NoLostDay*, *BilledOnce* and
  *OneOpenRowUnlessRaced* locate the races of the code: the bad outcome occurs (TLC
  finds it if the exception is dropped) and occurs only to a request that was overtaken
  in one named window. No other sequence of calls, crash or refusal leads there.
- *QuotaCounted* is why check-in may read and write `daysUsed` without more care: the
  lock on the visitor row taken by the first write of the transaction serialises them.
- *ChargedFromFirstConnection* is both sides of the selection of rows in
  computeVisitCharge: far enough back (ReconnectsKeepTheClock), and not further
  (NoStaleAnchor).
- *SessionsAreOwedOnce*, *ChargesMatchOrders*, *Conserved*, *FeeIsPaidOrOwed* and *TillAgrees* are the
  bookkeeping equations. Each relates rows that different operations write, and is
  exact: TillAgrees names the four ways in which revenue and the till differ, and the sum
  of each.
- *OnePersonPerPhone* is about a guard that no constraint of the schema backs: six services
  ask different questions before they write a phone. Some doors do not ask; a phone that
  was written through one of them is excepted, and the exceptions are the doors in the list
  of disagreements below.

**Fairness** is assumed in one run only. `FairSpec` says of the reconciliation job: it is
started again and again (weak fairness of `StartReconcile`; it is a cron
schedule, every ten minutes, with a guard against overlapping itself), and none of
its calls fails every single time it is tried (strong fairness of `ReconcileActives`,
`Cut`, `ReadVisit` and `CloseOpen`; strong because `Abort` may take the job back to the
start any number of times). Nothing is assumed of requests, of the router coming
back, or of visitors. IdleRowsClose leaves out phones which are checked in anew while
an old row is still open: endByPhone looks only at rows of the present visit then, so
such a row stays until that visit ends.

### Disagreements between the code and its comments

Five runs are counterexamples to something a comment or a document says;
`PROJECT.json` quotes each.

- `snack_wallet_refund`: deleting a session refunds deductions which editing or deleting
  an order had refunded before; the wallet gains money. One request at a time.
- `hotspot_posted`: an end of internet without a checkout labels the session with a charge
  that no invoice ever has.
- `cafe_restore`: an order and the sale it wrote give back the same units twice.
- `billing_taken`: a debt paid in parts ends up collected with the amount of the last
  part, which is what revenue counts.
- `takings_twice`: a snack of a visit that left unpaid is counted by its sale, and again
  when the debt of the visit is collected.

Others are not runs of their own. The exceptions which the properties name are where the
models have them.

Sessions, debts and hotspot:

- The edit of an order says "Refund old amount" (`sessions/service.ts:1296`) and finds any one
  deduction of the order (line 1283): an order charged 1, edited to 2 and edited again may get 1
  back. It takes one request at a time. ChargesMatchOrders therefore claims exactness of the
  first refund only, and of each later one that it is the amount of some charge of the order.
- Two overlapping check-ins leave two open sessions, whereas `integrations/service.ts:264`
  says "One open session per visitor; no duplicate rows."
- Two overlapping checkouts: the second prices the visit from a row older than it, since
  the first has closed the session that bounded it (`hotspot.service.ts:42` says that a
  stale row "can never reach back").
- An edit that moves the date and sets "paid" leaves the unpaid debt in place
  (`sessions/service.ts:500`); a session closed by an edit twice can get two unpaid debts
  after a reopening; `addOrder` refused for want of wallet money (402) leaves stock taken
  and the order created; an order that lands on a session just being checked out is
  never billed; endByPhone says the linked rows are closed as billed
  (`hotspot.service.ts:607`) and bills them only when there is an amount.
- A walk-in whose seat rate equals the rate of a tier does not pay for the internet,
  although `sessions/service.ts:587` says that walk-ins keep paying both; a visitor of the QR
  page who picks another tier at the portal pays both rates; a trainee type
  without an enrolment pays at the portal and not through the QR page; `checkoutUnpaid`
  rounds to whole shekels (`sessions/service.ts:782`).

Persons, devices and records:

- `integrations/service.ts:132` says that at most one branch of resolveMember "can ever
  match"; doors with half a guard (a restore, a walk-in with a type and the conversion of
  an employee's row do not ask the roster, editSession asks nobody) let two.
- editSession changes the phone of a person and leaves the wallet at the old one, unlike
  every caller of syncWalletPhone (`lib/person.ts:131`).
- upsertDevice says "Never delete or overwrite another device's row"
  (`device-auth.ts:187`) and writes by the address of the device: a second phone on it takes
  the row over. guestQuickLogin "mirrors the check" of a login
  (`integrations/service.ts:550`), but looks once and does not retry.
- Deleting a course is refused while it has trainees (`courses.service.ts:34`); deleting its
  room deletes them. The edit of a booking looks for conflicts in the room it had.
- markContacted overrides an opt-out and accepts archived persons; the messages of
  getChurned ignore both marks.

Sums and days:

- `revenue.ts:88` calls its hours "intentionally identical" to those of the history, which
  use the price given by hand where there is one, and leave out collected debts.
- The history table divides a subscriber's daily rate by the sessions on the page, its
  summary by those of the day (`sessions/service.ts:1867` says that they match). The
  history workbook shows open visits, with negative hours; the workbook of a report
  counts them and its preview does not, and lists pending bookings, and rounds.
- Payments of a part and debts marked as collected by hand are never revenue. The daily
  mail is sent at 23:55 (`server.ts:67`) and never sees the last minutes of a day.
- The alert of the dashboard (`dashboard/service.ts:142`, "reuse Step 8 logic") counts archived
  persons, which the list leaves out.
- `timezone.ts:53` promises "midnight (00:00:00.000)" and line 60 "23:59:59.999":
  palestineOffsetMs reads the wall to the second and keeps the milliseconds of the instant it
  was asked about, so both bounds of a day are late by them; on a day on which the clocks move
  they may be an hour off. The labels of the trend are the UTC dates at which its days begin, the day before; a change
  of the clocks lets the trend skip a day or repeat one.

## 4. The proofs

The theorems hold for all sets of wallets, sessions, orders, requests, items, devices,
phones, persons and amounts that satisfy the ASSUMEs of the module or of the theorem; those
say that nulls are not ids, that amounts are natural numbers, positive where the code
refuses zero, that the row ids are finitely many where rows are summed or counted, and that
a bound is a number. The properties were model-checked before they were proved.
None of the constraints of the runs (`Calm`, `Exact`, bounds) is assumed in a theorem.

The pattern is the same everywhere. A property of rows is not inductive, because a request
in flight writes what it read some awaits ago; the strengthening says, for each await, what
the *local variables* of a request still have to do with the tables *unless somebody wrote
in between* (`Sane`, `Fresh`, `Knows`, `Looked`, `Informed`, `Found`, `StillFree`). One lemma
per kind of write shows that it makes every other request late or leaves what it knows
alone, and one lemma per action that the request knows enough at its own write.

**SnackWalletProofs**: `TypeCorrect`, `BalanceIsHead`, `NeverNegative`, `OvertakenOnly`,
`LedgerMatchesOrders`. `deduct`
writes `seen - amt`, so the balance stays non-negative because a request at `deduct` has
`seen >= amt`, which no other request can change. That is `Sane`, and it is the heart
of the argument: an absolute write can lose an update but can never go below zero, which
a relative one (`decrement`) in the same place could. `Sane` also keeps the rows of an
uncommitted refund chained, from the first row to `seen`. `Fresh` ties what a request has
read to the balance unless it was overtaken; with `LockHeld` (a locked wallet is not
removed) and `Dormant` (a wallet that does not exist has no rows) it gives the
chaining of the ledger. `IInv` is the conjunction; `InitInv`, one lemma per group of
actions, `NextInv` and `Invariant` follow the module's Next.

`LedgerMatchesOrders` (ChargesMatchOrders) has an invariant of its own on top of `IInv`, `MInv`,
which TLC checked first: a row that names an order names its session (`RowsNameOrders`); a
request that edits or removes still finds the deduction it is to refund, one that deletes
a session those of every row it has listed, and one that records a Sale the deduction it
made, unless the wallet was removed (`Knows`); a request that charges an order it has just
created is the first and the only one to do so (`FirstCharge`, without which an edit could
meet a charge that is under way). Rows are only ever appended, so what was deducted
stays deducted (`DeductedStays`), and a count of rows by type and order goes up by the appended
row only (`NamedAppend`). The first refund of an order is of the only deduction there is, as a
second one needs a refund before it (`Settled`); which of several a later edit finds is open.

**AttendanceProofs**: `TypeCorrect`, `DaysCountOnce`, `SecondSessionWasRaced`, `LostDayWasStale`.
`Shape` is whom and what a request is about, `Knows` what it has read, and `Apart` what the
row locks give: two transactions that both check in are of two visitors, and two that change
a session are of two sessions. From `Apart` it follows that nobody changes `daysUsed`
between the read and the write of a check-in, unless a session of that visitor is moved
or deleted (`tampered`); `SubInv` then counts days as a set. The action properties follow from
the invariant and one look at each action.

**HotspotProofs**: `TypeCorrect`, `ChargedFromFirst`, `RowsBilledOnce`, `SecondRowWasRaced`. `HInv`
says of a row that it is closed once it was billed, that the session it carries is one of
its own phone and not younger than itself, and that a billed row of an open session was
swept at the end of the day (`RowKnows`); that a phone has one open session; and for each
await of login, ending and checkout what the request knows (`Knows`): a login that was not
raced finds no open row at its insert, an end that was not overtaken stamps rows not yet
billed, a checkout carries a charge that begins no earlier than its visit less the tolerance.
The start of a visit is a CHOOSE of the least time, which `SmallestNumber` resolves.

**CafeProofs**: `TypeCorrect`, `OversoldByBatches`, `UnitsConserved`. For the first two the
invariant is TypeOK with `Sane` for each request: at the write of a single sale or order
`q =< seen`, at a swap `nq =< seen`, and the units of a live row are positive. A write below
zero is then traced to its action: sales, orders and swaps write `seen - q`, returns and
restocks write more than they read, and only `BatchCommit` is left. `UnitsConserved` is the
bookkeeping equation, with sums over rows and over requests. Its invariant adds which rows a
request is about (`Aims`), that the sales page sells items only (`OffThePage`), and, as long as
the books are exact, the units a request has moved and not yet written into a row, at
each of its steps (`Books`); shelf, rows and requests then balance, thing by thing.

**BillingProofs**: `TypeCorrect`, `SessionsOwedOnce`, `FeePaidOrOwed`. `RequestsKnow` says that a
request nobody overlapped still sees the orders, the payment status, the debts and what was
paid of the subscription as it read them; `SessionInv` is the property taken apart (billed for
time and orders; unpaid debts at most one; covered by one, or by a request that is about to create it; nothing owed of what
is open, deleted or paid); `SubInv` is the same of a subscription, which needs that its one
unpaid debt holds what is left of the price to the coin.

**OfficeProofs** has the properties of the program as Office states them. A step of Office is a
step of the service in focus or leaves its variables as they are, so that an invariant of a
service needs its own actions only.

| theorem | of | the invariant and why it is needed |
|---|---|---|
| CutsComplete, OnlineKnown | router | `RouterInv`: `CutsGoOn`, a cut under way still has on its list every device of the phone that was online when it listed them, but for those that went by themselves (`gone`) or came in later (`slipped`). Logins, guests, departures and other cuts all replace or remove an entry through `Becomes`, and so through one lemma |
| DirectoryImplemented | book | a refinement. `BookInv`: the types, what a request is about to write (`CardReady`), the unique index (`OneCardPerPhone`). Every write maps to one of `Directory!Add`, `Change`, `Remove`; every look, refusal, failed row of an import and death of a request to a stutter |
| RoomsPromisedOnce | rooms | `RoomInv`: a request that is not late may write the row it has in mind without a conflict, whichever of its fields it changes (`Looked`) |
| FailuresLockAccount, LocksHold | door | `DoorInv`: an account is locked exactly at the last failure; as long as no login overtook another, the failures are the streak; a login knows that it was not locked when it read (`Informed`) |
| CoursePaymentsAddUp | school | `SchoolInv`: paid is what was handed over, at most the price, `full` only when it is reached (`PaidUp`), and so it will be once the payments under way are written (`WillPay`) |
| SubscriptionsLive | plans | `PlanInv`: a request that is not late still finds no live subscription, or none but its own, or none but those that its conversion has ended (`Found`) |
| OnePersonHasAPhone, WalletsStayWithPeople, ArchivedStayAway | people | `PeopleInv`: the answers to the questions of each door still hold while nobody wrote (`StillSo`, `StillFree`), and a phone all doors guard has one holder |
| SiteIsCurrent | site | `SiteInv`: the last notice is on its way, lost or applied, and what it tells is so |
| LongerIsNeverCheaper, LiveIsNotAboveTheBill | till | monotonicity of products, quotients and roundings (`TimesMonotone`, `QuotientMonotone`), which give that of the price of a stay, for all rates and lengths |
| PhoneHasOneInvoice | entry | `EntryInv`: open sessions belong to active rows, of which there is one unless a phone was shared, and a row has one of them, unless one was opened again beside another or on an archived row (`Seated`, `SeatedIsActive`); the charge of the internet is linked to that row, or to none if the check-in of that login broke down (`LinkedRight`) |
| CallsAgree | calls | `CallInv`: the mark carries the day of the last call; what the three lists select is then a matter of largest days (`LargestNumber`) |

`OnePersonHasAPhone` and `WalletsStayWithPeople` are a case of a proof that corrected the
model: the edits of a name and of the phone in a session did not record that they overtake
a request which had asked about the old phone. The run had not shown it, as its constraint
stops at the first overtaking. The history is now written by every action that changes a
phone.

**LedgerProofs** has three parts. `LedgerTypes`, `TillIsRight`, `ReportsAreConsistent` are
about the takings in the program (`Spec => Ledger!Spec`). They assume `Prices` (the tables
are finite; what is given as a price, a discount or a total is a natural number, as the
schemas demand with `min(0)`) and `Rates` (a daily rate that is a natural number; a
non-empty finite set of days of a subscription). TillAgrees quotes reports, and no report is
inductive; `TillInv` says the same of the tables: what the till has for visits, counter
sales and debts, plus parts, is what was taken plus what counts twice. One operation changes
one row of a table and so one term of one sum (`VisitChanges`, `ItemChanges`,
`DebtChanges`), and revenue over all days is that sum plus the difference TillAgrees names
(`TillHolds`). ReportsAgree needs `RowsInv` on top: that a visit whose price was given by
hand is still worth that price and its orders (`Priced`), that no row is dated after today,
that orders are items somebody added. Each of its eight parts is a lemma (`HoursHold`, ...,
`SharesHold`) about sums over one state: sums over a set and its complement, sums of a range
as sums of its days (`DaysOf`), roundings that are off by half a shekel a row (`WholeNear`),
and a share that grows as fewer are on the page (`FewerGetMore`). `Max`, `Cardinality` and
the folds that Takings takes from its community modules are definitions of the instance,
which two lemmas (`SumIsSum`, `CountIsCount`) reduce to those of Sums and of the library.

`DaysHaveTheirBounds` (DaysAreWhole) is arithmetic at one instant, for all lengths of a
second, an hour and a day and every instant at which clocks are moved, forward or back; its
invariant `DayInv` only keeps the clock within its bounds. A date is the quotient of what
the wall shows by the length of a day, which is turned into inequalities once; while the
clocks stay as they are, the instants of a day are an interval as long as a day, and with
a whole number of hours the seconds that the code truncates are those of the instant itself.
A day on which the clocks move begins at the midnight of the one or the other offset, and so
an hour off at most. An instant whole days ago has the date of today less that number, or one
that differs by one, and all the instants on one side of the change agree on which.

`OfficeTypes` (Office.TypeOK) puts together the types of the thirteen services. Of eleven they
are part of the invariants above; of the courses and the routers, whose invariants leave out
some locals of a request, they are proved by themselves (`SchoolRest`, `RouterRest`). Its
hypothesis `OfficeNames` is that of the theorems of the services together. The type of
Courses says that what a trainee has paid is a whole number of coins not below zero
(`schema.prisma:252`, two decimals, and payments are positive); the bound of the run is a
constraint.

**Sums** has the lemmas about sums over finite sets of rows: a sum exists and is the same in
whatever order it is taken, gains what a new member adds, and changes by what one
row changes. The library's induction theorems cannot be applied here (they take a predicate
as a parameter), so the induction is over a set of sets: a non-empty set of finite sets has
a smallest one (`SmallestSet`), and a smallest counterexample is contradictory. The folds of
the models are reduced to these sums once.

Only model-checked:

- IdleRowsClose, which is liveness under fairness, out of the provers' reach;
- the counterexamples of section 3.

Every other property that a passing run checks is stated by a theorem.

## 5. Not modelled, and why

- `deleteSession` in Cafe: it deletes the orders of a session (`sessions/service.ts:1505`) and
  gives no units back, so the units of a deleted session are gone from the shelf and from the
  orders. `Conserved` would need one more exception, and says nothing of them. What the deletion
  does to the wallet, the debts and the days is in SnackWallet, Billing and Attendance.
- Parts of modelled components: the edit of a wallet's name or phone by hand; the ceiling
  on the devices of a profile; endByMac; the edit of a quantity by hand and the
  deletion of an item; updateAttendance, which nothing reads; creation and
  edit of a room; changes of a password; notes and inbound messages of a person; alerts on
  stock and on subscriptions that end.
- A report reads its tables one after the other while they may change; the reports of Takings
  read one state. Sums that disagree for that reason are not shown.
- Tokens are signed and not stored; sending mail and framing the router's API are input and
  output; formats, paging and sorting change nothing.
- Whole components: the accounts of the staff, notes, settings (constants here), the public
  menu and the login log are rows that nothing else reads or one statement each; the HTTP shell
  has no state. The external QR site is not in the repository: AnoonSync models the
  copy it keeps, as `lib/anoon-sync.ts` addresses it. So are the router's own
  decisions in Devices and Hotspot, and the offset of a zone in Calendar.

## 6. Plan

Done: SnackWallet, Attendance, Hotspot, Cafe, Billing, and Office with its thirteen services,
each with proofs of what its runs check except for the liveness. Next, in this order:

1. **Refinement**: an account whose balance changes by atomic amounts, which SnackWallet
   implements in every behaviour in which nobody is overtaken; the visit as one
   charge, which Hotspot implements likewise.
2. **Persons** with three persons and five operations, if its states can be reduced.
