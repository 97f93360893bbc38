# Nestova: a verification companion

Nestova is a household organiser: a Go server over PostgreSQL with chores,
points and rewards, chore trades, notifications, kiosks, photos, calendars,
meals and supplies.  This directory holds TLA+ models of the parts whose
correctness depends on what happens *between* two statements, the TLC
configurations that check them on small instances, and theorems that TLAPS
proves for instances of every size.  Paths below are relative to the repository
root (`src/` in `PROJECT.json`).

## 1. Inventory

| Part | State it keeps | Operations | What is hard | What makes it correct |
|---|---|---|---|---|
| Point ledger, rewards, redemptions (`internal/tasks`) | `point_ledger` (append-only), `reward`, `reward_redemption` | redeem (storefront, deep link), fulfil, deny, cancel, create/update/archive/delete reward, award, penalise | READ COMMITTED transactions of several statements on many connections; a balance is a SUM, not a row that can be locked | no overdraft; the price debited is the current one; a refund is the debit; one redemption per link; stock is not oversold; no deadlock |
| Claims and closing of chores (`internal/tasks`) | `task_instance` claim columns | claim, complete and award, skip, sweep of lapsed claims | the sweep runs every few minutes, so closing and sweeping race | one settlement per lapsed claim window; points paid once; a closed chore stays closed |
| Lifecycle, generator, reminders, scheduler (`internal/tasks/app`) | `task_instance` status and stamps | generate, mark overdue, due-soon, warn, respawn standing chores | stamp-then-enqueue with a compensating clear, crash between the two, several servers in one cycle | one open standing chore; the n-th occurrence is the n-th member's; reminders neither lost nor repeated where the code can help it |
| Chore trades (`internal/tasks`) | `chore_trade`, `chore_trade_reservation` | propose, accept (swap), decline, cancel, expire | lock order between trades and instances; re-validation at accept time | one live trade per chore in either role; a swap is all or nothing; every trade is resolved |
| Notification outbox (`internal/notify`) | `notification` rows with a status that is optimistic once claimed; preferences, contacts, quiet hours | enqueue (routing, quiet hours), claim due, deliver, mark sent/failed, fall back in-app, change settings | claim, send and mark are separate steps; a send is retried within its call; settings change between them; no retry after a crash | sent by one `Send` at most, repeated only by its own retries; a failed text or mail appears in-app; consent and quiet hours are respected |
| Sign-in, second factors, PIN (`internal/auth`) | sessions, TOTP secrets, recovery codes, limiter windows | enrol, confirm, verify, regenerate codes, remember device, reset | concurrent requests on one member's factors; check-then-act limiters | a code works once; the codes shown stand; devices belong to the enrolment they proved |
| Kiosk activation (`internal/kiosk`) | codes, devices | issue, redeem, revoke | concurrent redemption of one code or of two | one device per code, one active device per household |
| Media (`internal/media`, `cmd/storage`) | photo and proof rows, content-addressed files and objects | upload, delete, reap, migrate between stores, retain | bytes shared by several rows; two offline commands beside a running server; failure between bytes and row | no row without its bytes; a dry run tells the truth; proofs in order |
| Supplies (`internal/tracking`, and the planner of `internal/meals`) | shopping list, pantry | restock pass, plan a week, move entries, use up and top up | several writers of one list; a read-modify-write of a quantity | one open entry per line; no change to the pantry is lost |
| Calendar (`internal/calendar`) | accounts, cursors, cached events | connect, refresh token, synchronise | partial passes, expired cursors, a refresh that also writes the cursor | the cursor never runs ahead of the cache |
| Recurrence (`internal/household/domain`) | none | next occurrence, occurrences of a window | clamped months, weeks across intervals | all occurrences, each once, and no others |
| Renewals (`internal/subscriptions`), WebAuthn, deep links, recipes, HTTP, configuration, wiring | rows edited one at a time | CRUD, signing, rendering | little | validation |

The point economy is where the parts meet: redemptions, refunds, penalties and
awards are different services, all appending to one table, and a claim's expiry
reaches it from three paths (completion, skip and the scheduler's sweep).

The scheduler's cycle (`internal/tasks/app/scheduler.go:138`) is the other meeting
point: generation, overdue sweep, due-soon reminders, claim warnings, claim
expiry and trade expiry run one after another in every server process.  The steps
that share rows are modelled together: generation to reminders in `ChoreCalendar`,
warnings and the claims they are about in `StandingChore`, claims and points in
`PointLedger`, overdue and trades in `ChoreTrade`.  Everything that is to be told
ends in the outbox, whose callers see only whether a row was inserted.

## 2. Modules

| Module | Models |
|---|---|
| `LedgerTables` | the tables of the point economy, the queries on them, the reward catalogue's single-statement operations |
| `PointLedger` | the transactions on those tables, one action per SQL statement, with advisory locks, row locks and the unique index they wait on |
| `HouseholdLedger` | what those transactions promise: each request as one atomic step |
| `PointLedgerProofs` | proofs: what a transaction has in flight; types, no overdraft |
| `PointLedgerTheorems` | proofs: what an open transaction has read is still so when it commits; the ledger's properties and the refinement of `HouseholdLedger` |
| `NaturalSets` | lemmas on sets of numbers: a least member, a bound, a greatest member (for the circular waits and the calendar) |
| `TradeBoard` | `chore_trade`, its reservations and the chores they name, and what each trade operation promises as one atomic step |
| `ChoreTrade` | the transactions behind those operations, one action per SQL statement, and the scheduler's cycle |
| `ChoreTradeProofs` | proofs: reservations, deadlock-free proposals, the refinement of `TradeBoard` |
| `NotifyOutbox` | routing, the outbox, the dispatchers and the settings they read |
| `NotifyOutboxProofs` | proofs: the outbox's properties |
| `Calls` | a call that ends well, fails without effect, or takes effect and is not answered |
| `ChoreCalendar` | recurring chores: generator, overdue sweep, due-soon reminders (extends `Calls`) |
| `ChoreCalendarProofs` | proofs: the rotation, and the reminders' stamps and notices |
| `StandingChore` | an as-needed chore: claims, respawn, claim warnings, expiry (extends `Calls`) |
| `PhotoStore` | photo rows, files and objects: uploads, `storage migrate`, `storage reap` |
| `PhotoStoreProofs` | proofs: no row loses its bytes, and the dry run is faithful |
| `ProofPhotos` | the proof photos of a chore, the completion gate and retention |
| `SecondFactor` | TOTP enrolment, recovery codes, sign-in, remembered devices |
| `KioskActivation` | activation codes and the household's kiosk device |
| `Cadence` | the recurrence arithmetic and the walk over a window |
| `CalendarSync` | the sync cursor and the event cache |
| `Supplies` | the shopping list and a pantry item |
| `Services` | the seven services that keep tables of their own, side by side (see below) |
| `ServicesProofs` | proofs: one inductive invariant for each service, and the recurrence arithmetic |
| `PointLedgerMC`, `ChoreTradeMC`, `NotifyOutboxMC`, `ChoreCalendarMC`, `PhotoStoreMC`, `ServicesMC` | the small instances TLC checks |
| `PointLedgerScenes`, `ChoreTradeScenes` (and `PhotoStoreMC`) | scenes: several instances explored in one run |

A *scene* is the module's own `Next` restricted to some of its actions; a variable
`scene` chosen in the initial state says which restriction holds.  The actions of the
module are unchanged, so what a scene reaches, the module reaches.

### LedgerTables and PointLedger

`bal[m]` is the sum of the *committed* ledger rows of `m`; the rows themselves
are kept only where something reads them back: `debit[r]`, `refund[r]` by
redemption, `awarded` (unique index on completions), `charged` (unique index on
claim windows).  `pardoned` is history: lapsed windows ended with a zero penalty
because the balance was empty, where the code deliberately writes no row.

`tx[s]` is connection `s`.  Its record is the Go function's local variables, the
locks granted so far and `delta`, the uncommitted ledger rows summed by member.
`Run` executes a statement if nobody holds what it `Wants`; `Acquire` also keeps
it until the transaction ends; `Rollback` is the deferred `tx.Rollback`; `Abort`
is a lost connection or a crash at any statement.  Commits publish `delta` and
the row changes in one step, which is what a commit is to other READ COMMITTED
readers.

| Actions | Code |
|---|---|
| `RedeemBegin` ... `RedeemCommit` | `RewardService.redeem`, then `RedeemWithDebit`'s steps 2-8 |
| `Fulfill` | `RewardPostgresRepository.Fulfill` |
| `ResolveBegin` ... `ResolveCommit` | `Deny` and `Cancel` with `refundRedemption` |
| `Claim` | `TaskInstanceRepository.Claim` of an unassigned chore |
| `CloseBegin` ... `CloseCommit` | `CompleteInstance`/`SkipInstance`, `penalizeLapsedClaim`, the guarded UPDATE, the award |
| `SweepBegin` ... `SweepCommit` | `SweepExpiredClaims` with its `FOR UPDATE SKIP LOCKED` |
| `ChargeLock`, `ChargeRead`, `ChargeInsert` | `insertClaimExpiryPenalty`, used by both |
| `Catalog` | `RewardAdminService` and `DeleteReward` |

Abstracted: ids are model values (a redemption id or reward id is fresh when it is
used); `pg_advisory_xact_lock(hashtext(...))` is one lock per member (32-bit
collisions are not modelled); notifications sent after the commit, logging,
names and texts are left out.  Only claimable chores are modelled here, because
only their claims expire.  No service deletes members, so a claimant always
exists.

### TradeBoard and ChoreTrade

The clock counts days of the household's time zone: due dates, a trade's expiry
(the end of the earlier due day) and the overdue sweep all look at whole local
days.  The chores are scheduled and assigned; a pool chore can never be traded,
because it is claimed for as long as it has an assignee.

A connection's record holds the arguments of its request, the row its statement
is about to lock (`row`), the rows it has yet to visit (`todo`) and the ones it
has updated (`hits`).  This is what makes lock order visible: `Visit` takes one row
lock at a time, in id order for `lockTradeInstances` (`ORDER BY id FOR UPDATE`),
in any order for the swap and the overdue UPDATE, which have none.  Rows found
by an UPDATE's snapshot are matched again once locked, as READ COMMITTED does.
What a transaction wrote is applied at its commit; its row locks, and the keys of
the reservations its trigger inserts or deletes, keep it from others until then.

| Actions | Code |
|---|---|
| `ProposeBegin` ... `ProposeCommit` | `TradeService.Propose`, `lockTradeInstances`, the checks with `hasLiveTradeProposal`, the INSERT and its trigger |
| `AcceptBegin` ... `AcceptCommit`, `AcceptRefused` | the resolving UPDATE, `swapTradeInstances`, `len(swaps) != 2` |
| `DeclineBegin` ..., `Cancel` | `Decline`, `Cancel` |
| `CycleBegin` ... `OverdueCommit`, `ExpireSweep`, `ExpireCommit` | the two steps of `Scheduler.RunOnce` that touch trades; the second runs even when the first failed |
| `ChoreWork` | the single-row updates of an assigned chore: claim, complete, skip |
| `DeadlockVictim`, `Fault` | PostgreSQL's deadlock detector; a lost connection or process |

`ProposeInsert` has no branch for the primary key violation the code maps to
`ErrInstanceNotTradeable`: `ReservationsGranted` shows that it cannot happen
between callers of the repository.

### NotifyOutbox

A producer's `Enqueue` call is `post[n]`: the lookups of `RoutingEnqueuer` one by
one (preference, contact, quiet hours), each of which may fail, and the INSERT.
`disp[s]` is the tick of server `s`: the batch it claimed, the row it is at and
the number it read for it, and the attempts its `Send` has made in vain.  `ClaimDue` takes the earliest `BatchSize` due rows in one
statement; its answer may be lost.  Every later call of `deliver` is an action.
`delivered`, `unanswered`, `barred` and `unsaved` are history.  A row is named by what it is
for, since the code creates at most one fallback and one warning per owner for
each: what could create a second is a second claim.

One `Send` is up to `Attempts[c]` attempts: the AWS clients are configured with
`RetryMaxAttempts` (`sms_aws.go:90`) and `sesRetryMaxAttempts` (`email_ses.go:46,109`)
and try again by themselves after a server error or no answer.  Such an attempt may
have been taken by the provider (`Unanswered`), so the member can get one row several
times; a server may stop, and the member change settings, between two attempts.
`OneSendPerRow` states what the claim and the limit guarantee then: without an
unanswered attempt a row is handed over once, and with one never more often than one
`Send` tries.

| Actions | Code |
|---|---|
| `Raise`, `ReadPreference`, `ReadContact`, `ReadQuietHours`, `Insert` | `RoutingEnqueuer.Enqueue`, `route`, `resolveChannel`, `OutboxRepository.Enqueue` |
| `ClaimDue` | `OutboxRepository.ClaimDue` |
| `DeliverInApp`, `CannotSend`, `ReadNumber`, `ResolveEmail` | `deliver` and the senders up to the provider call |
| `SendAgain` | another attempt of the provider's client within the same `Send` |
| `SendAccepted`, `SendFailed`, `SendRejected` | the end of `Send`: the provider's final answer, or none at the last attempt or after the context is cancelled |
| `Downgrade`, `WarnOwners` | `EmailNotificationSender.handleRejection` |
| `FallBack`, `MarkFailed`, `MarkSent` | `fallbackToInApp` and the marks, each under its own context |
| `SetPreference`, `SetPhone`, `OptIn`, `OptOut`, `SetQuietHours` | `SettingsService` |
| `Crash` | a server stops and starts, perhaps with other channels wired |

A work context that expires is a lookup or a send that fails.  The check in
`SetPreferences` and its write are one action: an opt-out between the two leaves
the same state as one after them.  Which errors the clients retry is a choice, and the
wait between attempts takes no time.  Daylight saving and the push channel (no sender,
no preference) are left out.

### Calls, ChoreCalendar and StandingChore

Reminders, warnings and notices are all *stamp, enqueue, unstamp what was not
enqueued*: the stamp commits first, so a process that stops in between, or a
commit whose answer is lost, leaves a stamp nobody will honour.  `Calls` is the
fault model of both modules: a caller cannot tell a call that had no effect from
one that was not answered.  `stranded`, `doubted`, `lostWarnings` and `unsure` are
history: the rows for which the code can no longer know.  The properties except
exactly those rows and claim everything else.

`run[s]` (`ChoreCalendar`) and `sweep[s]` (`StandingChore`) are a server's cycle: its
step, the time it captured at the start, the plan or rows it has in hand.

| Actions of `ChoreCalendar` | Code |
|---|---|
| `Tick` | `Scheduler.runTick`, and `Generator.GenerateDue`'s listing |
| `Materialise`, `Insert`, `Abandon` | `materialiseTask`: window, ordinals, assignee; one `INSERT ... ON CONFLICT DO NOTHING` at a time |
| `MarkOverdue`, `EmitOverdue` | `MarkPendingOverdueAll` and the notices, attempted once |
| `ClaimDueSoon`, `EmitDueSoon`, `ClearDueSoonReminder` | `ClaimDueSoonReminders`, `Reminders.EmitDueSoon` |
| `Close`, `Crash`, `Advance` | a member finishes the chore; the process stops; the clock |

A cadence is reduced to a first day and a number of days; `Cadence` has the other
frequencies.  The generator's window starts at midnight UTC of the latest due date
while occurrences have an instant in the household's zone, so `Offset` may put an
instant before or after the midnight of its date.  Daylight saving, and edits of the
rotation or the cadence while the generator runs, are left out.

| Actions of `StandingChore` | Code |
|---|---|
| `Claim`, `Close` | `Claim`; `Complete`, `CompleteAndAward`, `Skip` with `respawnIfStanding` in their transaction |
| `ClaimWarnings`, `EmitClaimWarning`, `ClearClaimWarning` | the warning's stamp, enqueue and clear, the clear guarded by the window it was for |
| `SweepExpiredClaims`, `EmitClaimExpiry` | the reversion of lapsed claims and its notices; the points are `PointLedger`'s |

### PhotoStore and ProofPhotos

A key is a content together with its class, so equal contents share one file and
one object, which is what makes deletion dangerous.  The server writes to one
backend; the operator's two commands run beside it, one statement, file operation or
request at a time.  At the start rows are local, files may have rotted, and the bucket
may hold what an earlier attempt left, good or bad.

| Actions | Code |
|---|---|
| `Put`, `Find`, `TakenAt`, `Create`, `Fail` | `PhotoService.Upload` and its stores; a failed upload leaves its bytes |
| `Delete`, `FlipServer` | `PhotoService.Delete` (the row alone); a restart with the other backend |
| `StartMigrate` ... `Unlink` | `cmd/storage/migrator.go`: verify local, put if absent, verify the target, switch the row, delete the file if no local row shares it |
| `SweepLeftovers`, `VerifyLeftover` | the files of rows an earlier run switched |
| `StartReap` ... `NextClass` | `ReaperService.Run`: retention, references, listing, recheck, delete, per class |
| `StopMigrate`, `StopReap` | an error that ends the command, an interrupt, a crash |

Between the reaper's recheck and its delete a row may still be written, and an upload
or migration may count on an object it has seen; no recheck can close that window,
which the source's comments accept.  `raced` records the keys it hit, and
`RowsKeepTheirBytes` excepts those keys only.  Two conditions come from outside the
code: the runbook deletes local files only once the server writes to the bucket, and
a request does not last for the days of the grace window (`Advance`).  Left out: rows
without a content hash, albums, image decoding, the read-only verifier.

`ProofPhotos` has the transaction that keeps proofs in order (an advisory lock for
the chore, the other kind's extreme, the insert), the policy check the completion
makes before its own transaction, and retention.

### SecondFactor and KioskActivation

Each action of `SecondFactor` is one read or one transaction of a request
(`internal/auth/app/mfa.go`, `adapter/mfa_postgres.go`).  A secret is named by the
attempt that generated it, recovery codes by their batch, a TOTP code by its secret
and step.  `ReplaceRecoveryCodes` and `InsertRecoveryCodes` are two statements of
one transaction: its DELETE sees only the codes committed before it.  `RecordLoginStep` does
not check the secret, so a sign-in that outlives its enrolment can present a step of the
replaced one again; `AcceptedOnce` is about the enrolment in force.  The PIN, the
in-memory limiters, sessions and passwords are left out.

`KioskActivation` is `Redeem` statement by statement, with the code's row lock, the
household's advisory lock and the partial unique index of active devices, for one
household; codes expire, parents revoke, any statement may fail.

### Cadence, CalendarSync and Supplies

`Cadence` is `NextAfter` and `OccurrencesBetween` on a calendar given by the days its
months begin on (`FirstDay`); the instance has fourteen short ones, so that every clamping
occurs within the window.  `WalkIsComplete` compares the walk
with `FallsOn`, which says day by day where a rule falls.  The two correcting loops
are a maximum and a least index, which is what they compute.  The clock's changes of
daylight saving are left out: a day is `DayLen` times of day.

`CalendarSync` numbers the provider's changes; a cursor is the last change it stands
for.  The cursor is listed, the account read again, the token perhaps refreshed
(which writes back the cursor it read), the events applied one by one, the new cursor
stored, and any of it may fail.  The provider expires cursors and forgets deletions.

`Supplies` has the two partial unique indexes as one predicate, passes and planner
requests that insert line by line, every status change the members can make, and
the pantry's locked read-modify-write with the bounds of a quantity.  Whether a
restock is due is left open: the depletion predictor is not modelled.

### Services

These services keep tables of their own and meet only on the pages that show them, so their
product has no behaviour worth exploring that a single one does not have.
`Services` instantiates `SecondFactor`, `KioskActivation`, `StandingChore`,
`ProofPhotos`, `Cadence`, `CalendarSync` and `Supplies`, each with its constants,
and lets one of them move while the others rest.

## 3. Runs

| Run | Instance | Shows |
|---|---|---|
| `ledger` | 3 scenes, 2 connections, 2 members: redemptions, refunds and the catalogue (1 reward, 2 redemptions, 1 link); 2 chores claimed, closed and swept; 2 schedulers sweeping 4 chores | prices, stock, refunds, links; every lapsed claim settled once; no circular wait; refinement of `HouseholdLedger` |
| `funds` | 2 connections, 1 member, 1 reward, 1 redemption, 1 chore worth 4 | types, balance; with fairness, every transaction ends |
| `trades` | 2 scenes, 2 chores due on two days, 2 members, 2 trades: one member's requests and a scheduler with failing connections over two days; two members' requests on one day | reservations match live trades; proposals never deadlock or collide; refinement of `TradeBoard` |
| `expiry` | 1 request, 1 scheduler, 1 trade, with fairness | every proposal is resolved |
| `proposeaccept` | 2 requests, 2 chores, 2 trades; a violation | a proposal and an acceptance over the same two chores can deadlock, contrary to `domain/ports.go:551` and `trade_postgres.go:77` |
| `outbox` | 1 notification, 2 servers of which one crashes, failing connections, 3 attempts a `Send`, 3 hours of a 3-hour day, 2 quiet windows | one `Send` per row, no silent loss, consent, quiet hours, bounces |
| `delivery` | as `outbox`, an owner, 2 attempts a `Send`, with fairness, working database | every due notification is settled |
| `calendar` | 2 servers, a chore in rotation and one that cannot be generated, 2 days of 2 ticks and 2 days of look-ahead, 1 fault, with fairness | the rotation never slips; stamps and reminders are neither lost nor repeated but where the code cannot know; every occurrence falling due is settled |
| `photos` | 4 scenes, an album photo and a proof, 3 rows: uploads and deletes beside the migrator; beside the reaper; two uploads; migrator and reaper together | no row loses its bytes; the dry run previews what a run deletes |
| `services` | the 7 services, instances in `services.cfg`: two of everything that can race, one sync scheduler | the properties of those services |
| `enrolment` | 2 requests; a violation | a secret nobody has proved is confirmed, contrary to `00031_member_mfa.sql:15` |
| `proofgate` | 1 upload, the completion, retention; a violation | a chore is completed without the photo its policy asks for, contrary to `tasks/app/service.go:176` |

Bounds. Two connections are enough for any conflict between two transactions; the
conflicts in this code are pairwise (a lock, a row, a unique key), except circular
waits, which the lock order excludes for any number and the sweeps of `ledger` exercise with the
only path that takes several member locks.  A price that can change between two
values, a stock of one, a member who can pay for one redemption only and one who
has nothing are the edges the guards are about.  `MaxTime` bounds the clock;
`ClaimWindow` is one tick, so a claim lapses one tick after it was made.

For trades, two chores are enough for two proposals to name them in opposite
roles, two trades for one to be proposed while the other is being resolved, and two
days for one chore to be overdue while the other is not.

For the outbox, one notification, its fallback and the warnings of its bounce are
the rows that can meet in one batch; two servers are enough to claim one row twice.
Three attempts are the configured default and the fixed limit for mail; for whether
the loop of attempts ends two are enough.
The day is scaled to three hours, so that the clock passes midnight inside a quiet
window and a same-day window has an hour on either side.  Channels, contacts and
wired senders start as any state an earlier deployment can have left.

For the chore calendar, two members in rotation over three occurrences make the
ordinal come round again, two servers make each occurrence contended, and one fault
(`MaxFaults`) is enough to stop a chore's generation after any prefix, or lose any
single answer.  For `StandingChore`, three ticks let a claim be warned of, swept and
taken anew while a clear is under way.  For the photo store, `Retention` and `Grace`
are one tick, so an object can be young or old at any step, and two rows of one key with
different ages exist.  The other instances are two of everything that can race.

Deadlock is checked in every run but `services`, whose scenes end when their bounds
are used up (codes, changes, entries, the end of the window).

Fairness.  `PointLedger`: strong fairness of each connection's next statement.  A
statement that waits for a lock is granted it in queue order by PostgreSQL, so a
waiter whose lock is free infinitely often is served; a statement that waits for
nothing is simply executed by the goroutine that runs the request.  Nothing is
assumed of who begins requests, of aborts, or of the clock.  `ChoreTrade` adds that
days pass, that the ticker of a scheduler fires (`Scheduler.Run`), and that the
deadlock detector aborts somebody in a circle; `expiry` has no other failures, since a
database that refuses every sweep resolves nothing.  `NotifyOutbox`: each dispatcher
keeps taking steps (`Dispatcher.Run`'s ticker, and statements that return); nothing is
assumed of producers, members, providers or the clock.  A provider that never answers
well ends `Send` by the limit on attempts.  `delivery` excludes crashes
and failing writes, because the code does: a row claimed by a server that stops is
never retried (`adapter/postgres.go:93-97`).  `ChoreCalendar`: the clock
advances, and among the servers' schedulers one at least keeps taking its next step,
since its ticker fires after every cycle and a call returns or fails; a server that
crashed starts another cycle or stays down.

### Observations

Things met while modelling that contradict a comment, or are worth knowing, and have
no run of their own:

* A cycle marks chores overdue before it expires their trades, while
  `domain/trade.go:153` has the expiry first.  Harmless: acceptance checks
  the chores again (`ImplementsBoard`).
* A text may be sent to a number whose owner opted out between the contact's read and
  the provider's call (`sms_notification_sender.go:22-25`); `NoTextAfterOptOut` excludes
  that window.
* `CacheCoversCursor` needs a single sync scheduler, as the server starts: with two, an
  older listing may be applied after a newer cursor was stored.
* Events deleted at the provider stay cached after a full resync if the deletion is no
  longer listed; reconnecting with another account keeps the earlier account's events.
* Generating a week's groceries twice inserts nothing only while the first entries are
  open; a line that was purchased is added again.  Likewise the restock pass raises an
  item again once its entry is purchased, until a depletion is logged.
* An overdue notice has no recovery: the transition commits before titles are read.
* Saving a subscription's form while it is being deactivated may write it back active
  (`internal/subscriptions/app/service.go:67-87`).

## 4. Proofs

The theorems hold for every value of the constants: any number of members, rows,
connections, servers and failures.  An invariant of a run is seldom inductive, because
what a process has read, holds or is about to write decides the next step; so each
proof strengthens the property by what is *in flight*, and that invariant is what the
rest follows from.  Every proof has one lemma per action (or per group of actions that
move the same state), one for what a step leaves alone, and a last step that combines
them.

| Module | Theorem | States |
|---|---|---|
| `PointLedgerProofs` | `TypeCorrect`, `NoOverdraft` | `TypeOK`, `BalanceNeverNegative` |
| `PointLedgerTheorems` | `RefundsAreExact`, `LinksAreSingleUse` | `RefundMatchesDebit`, `LinkRedeemsOnce` |
| | `TermsAreCurrent`, `LateClaimsPay` | `RedeemsAtCurrentTerms`, `LapsedClaimsAreSettled` (action properties) |
| | `TransactionsAreAtomic` | `ImplementsHousehold`: refinement of `HouseholdLedger` |
| | `NoDeadlock` | `NoWaitCycle` |
| `ChoreTradeProofs` | `TradesTypeCorrect`, `ReservationsAreExact`, `InsertsAreGranted`, `ProposalsDoNotDeadlock` | `TypeOK`, `ReservationsMatchLive`, `ReservationsGranted`, `ProposalsNeverDeadlock` |
| | `TradesAreAtomic` | `ImplementsBoard`: refinement of `TradeBoard` |
| `NotifyOutboxProofs` | `OutboxTypeCorrect`, `RepeatsAreRetries`, `NothingLost`, `OptOutsAreRespected`, `TextsWaitForTheWindow` | `TypeOK`, `OneSendPerRow`, `NothingSilentlyLost`, `NoTextAfterOptOut`, `DeferredToWindowEnd` |
| | `OnlyMailIsDowngraded` | `BouncesSpareOtherChoices` (action property) |
| `ChoreCalendarProofs` | `RotationTheorem`, `StampTheorem`, `ToldTheorem` | `RotationStable`, `StampedIsTold`, `ToldOnce` |
| `PhotoStoreProofs` | `RowsAreSafe`, `DryRunTellsTheTruth` | `RowsKeepTheirBytes`, `PreviewIsFaithful` |
| `ServicesProofs` | `CodesAreSingleUse`, `CodesStayOnFile`, `DevicesAreBound` | `AcceptedOnce`, `ShownCodesStand`, `DevicesFollowEnrolment` |
| | `OneKioskDevice`, `PhotosInOrder`, `CursorIsCovered` | `OneDeviceStands`, `ProofsInOrder`, `CacheCoversCursor` |
| | `OneOpenLine`, `NoLostUpdate` | `OneOpenEntry`, `PantryAddsUp` |
| | `OneInstanceStands`, `ClaimantsAreWarned`, `WellTyped` | `OneOpenStanding`, `WarnedOncePerWindow`, `TypesOK` |
| | `WalksAreComplete`, `NextOccurrence` | `WalkIsComplete`; what `NextAfter` returns, of any rule and instant |

**The ledger.**  The balance is non-negative because of what is in flight, not because
of what is committed: a redemption has read a balance three statements before its debit
commits.  So `IInv` (`InFlightInvariant`) says (`Solvent`) that whoever is about to take
`n` points from a member holds that member's lock and that the committed balance covers
`n`; and (`LockMutex`) that no two connections hold one lock.  Other connections can then
only add to that member's balance.  `Redeeming`, `Charging`, `Settling` and `Closing` say
which lock and which values a connection has at each statement; `RowsOK` that debits are
never negative, which makes refunds safe.

`IInv` says that an open transaction could commit; `SerialOK` (`SerialInvariant`) adds
*what* it would commit: the locks it holds at each point, that what it read of price, stock,
redemption, link and claims under those locks is what the rows still say, and what its
uncommitted ledger rows are made of.  With it, each commit is the one atomic step of
`HouseholdLedger` that the request promises, and every other statement a stutter.  The
absence of deadlock needs the order of the locks: reward after member, claimants in
ascending order.  A connection that waits wants a lock of higher rank than all it holds,
ranks have a greatest member in any finite circle, and who waits for that one is waited
for by nobody.

**Trades.**  `IInv` (`TradesInvariant`) has for each statement of each transaction what it
holds and what it knows of those rows (`SessionOK`).  That the knowledge lasts is one
argument for all actions, `Stands`: a step of another session changes no row this one
has locked, and brings no trade of its chores to life.  `Reserving` says who can hold a
reservation's key: its inserter, or whoever holds the trade it belongs to; hence the
check without a lock in `Propose` is conclusive, and the INSERT never waits.

**The outbox.**  The claim marks a row sent before anything is sent, so what a row
says of itself means little while a dispatcher has it in hand.  `IInv`
(`OutboxInvariant`) says it of the dispatchers: a row is in one hand at most, was claimed and
not marked since, and has not been handed over before its turn.  While its `Send` is
under way it was handed over no oftener than the attempts made in vain, and not at all
unless one of them was taken without an answer (`Underway`); what is left of that once the row is put
down is `Accounted`, which is `OneSendPerRow`.  A fallback or a bounce's
warning exists only once its dispatcher is past adding it, so a second claim cannot
hide as a second fallback.  The quiet hours are arithmetic: for every window, the end
`EndAfter` computes is outside and all the hours before it are inside.

**The calendar.**  The generator finds a row's number by counting in one window and the
row itself by counting in another.  `GeneratorInv` says that a chore's rows are its
first occurrences, each with its member, and that a plan in hand starts where the rows
had ended and may have been overtaken; `PlanGoesOn` shows that the two counts agree for every
cadence, zone and set of rows so far.  `NoticeInv` says of each row that its stamp, its
notice and the hand it is in fit together; whoever moves a row between them is the one
process that has it.

**Photographs.**  Bytes are deleted in two places, and `IInv` (`BytesInvariant`) says
what is known before each.  The migrator unlinks a file only once the server writes to the
bucket, so after it has seen that no local row shares the file none can come; it switches a
row only while the object it verified is intact.  The reaper's candidate was old and
unreferenced when it was listed: an upload that counts on it now has written it since (a
request is younger than the grace window), and a row that names it now came after the
recheck, so `raced` records whom the delete hits (`FlightOK`, `ReapOK`).  The dry run counts
rows where the run takes set differences; for finitely many rows the two agree.

**The services.**  Each has an invariant of its own, about requests that have read and not
yet written: the cook with the item's lock has read the present stock; whoever has checked
proof photos holds the chore's lock and its check still holds; the redemption with the
household's lock has the active devices to itself; the new cursor is stored only after all
up to it was applied; a code a request has found valid may be gone, so consumption counts,
not the check; a claim window in a sweeper's hand is in no other's.  A step of one service
leaves the tables of the others alone, and `WellTyped` collects them.

**Recurrence.**  `NextOccurrence` says what `NextAfter` returns for every rule: the first
day after `t` the rule falls on (`Finds`).  `FallsOn` is written with remainders and the
code with an index, so the two are compared by division with remainder.  For a daily or
weekly rule the estimate is the index of the last occurrence on or before `t`'s day; for a
monthly rule, of the last in or before its month.  Either way the occurrence before the
estimate is past and the one after it is to come, so the loops that correct it move one step
at most (`Correction`).  A clamped day stays in its month, and each month
an interval apart has just one (`Clamped`, `MonthlyDays`), so no occurrence repeats or
drifts.  The weekday scan starts in a week at most `interval` weeks before one that counts,
within the days it looks at: the fallback the code calls unreachable is.  `CadenceInv` then
says that the walk has listed just the occurrences up to where it stands.

**Assumptions.**  All are named and evaluated by the runs.  Beyond the types of the
constants: the members who can wait for each other, and the connections (the pool's
`MaxConns`), and the rows that are counted are finitely many (`FiniteAssumption`); null is
no value (`SetsAssumption`, `NullAssumption`), nor is a row that was deleted; a zone is less than a day from UTC (`OffsetAssumption`); a valid
cadence has a positive interval (`CadenceAssumption`, `RuleAssumption`); a `Send` makes
one attempt at least (`AttemptsAssumption`; the constructor refuses a lower limit); months follow one
another, and the calendar goes on for a rule's interval of months after the last window and
the last anchor (`CalendarAssumption`); the server runs one sync scheduler
(`SyncAssumption`, without which `CacheCoversCursor` is false, see the observations).  Nothing
is assumed of `MaxFaults` or of the bounds on clocks but that they are numbers.

**Only model-checked.**  `TransactionsEnd`, `TradesResolve`, `DueIsSettled` and
`PastDueIsSettled`: liveness under fairness is out of the prover's reach.

## 5. Plan

Modelled and checked: the point economy, trades, the outbox, the scheduler's cycle,
media, and the small services.  Proved: all their safety properties and the two
refinements.  Still worth having: renewals, and cadences that change while the
generator runs.

### Not modelled, and why

* Rendering, handlers, templates and their generated Go, CRUD of single rows,
  configuration, metrics, the migrations runner: most of the repository's lines, with no
  state of their own to get out of step.
* WebAuthn: a shell over a library's ceremony.  Deep links: pure signing and
  verification; their single use is in the ledger.
* Renewals: one conditional stamp and one enqueue, a smaller form of the due-soon
  reminders.
* The PIN and the sign-in limiters: a mutex-guarded map of one process, whose only
  hazard (asked before the comparison, told afterwards) is bounded by the number of
  parallel requests and nothing else in the code.
* Recipes and plans: single-statement CRUD; merging ingredients is arithmetic.

`PROJECT.json` lists every component with its status, every modelled definition with
the lines it stands for, and the hazards with the properties that would catch them.
