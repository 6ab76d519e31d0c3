# TLA+ specifications of GreenPMS

GreenPMS (QinTopia PMS) keeps the rooms and beds of a small lodging business, its orders and
stays, member nights, prices and collection facts. A web client and external agents use one HTTP
API; all state is in PostgreSQL. This directory models the parts of that code in which the order of
steps decides whether the books are right, checks them with TLC on small instances, and proves the
central properties with TLAPS for every value of the constants.

Paths are relative to the repository; `db/` is `packages/db/src/`, `web/` is `apps/web/src/`.

## The system and its parts

| part | state it keeps | operations | what is hard about it | what makes it correct |
|---|---|---|---|---|
| Command protocol, `db/commands/service.ts` | `command_executions`, `command_receipts`, `command_previews` | Preview, Confirm, Result, Resolve, Quote | retries, lost answers, two confirmations at once, rejection in a second transaction, stale Previews | a Preview takes effect at most once and as shown; receipts are final |
| Inventory and stays, `db/inventory.ts`, `db/orders.ts`, `db/departure-day-stays.ts`, `db/commands/` | orders, stays, segments, claims, room-days, bed-days, maintenance locks | 14 commands from CREATE_ORDER to REVOKE_CHECK_OUT | room and bed overlap, lock order, midnight, reversals | no night is given twice; claims, pointers and arrangements agree |
| Room status, `db/room-status.ts` | none: projected per query | board, tasks, completeness | a projection of everything else that the browser validates | what is shown free can be booked, nothing is forgotten |
| Order view, `db/orders.ts`, `db/admin-historical-stay-corrections.ts`, `web/orderViewValidation.ts` | amendments, pricing revisions | replay, allowed actions, correction of completed stays | histories with reversals and corrections | the page opens, and offers what is accepted |
| Event delivery, `db/integration-worker.ts`, `db/integration-queries.ts`, migration 058 | outbox, events, deliveries, publish state, subscription | emit, publish, claim, send, finish, prune, control, feed | leases, late answers, crashes, replays, pruning | no event lost or renumbered; accepted means received |
| Member entitlements, `db/members.ts`, `db/commands/member-corrections.ts` | contracts, lots, ledger, coverage items | hold, consume, release, restore, correct, void, upgrade | many commands move the same nights | a night is charged once |
| Collections and funds, `db/retained-funds.ts`, `db/payment-allocation.ts` | collection facts, allocations, holds, transfers | record, refund, reverse, allocate, retain, transfer | two commands spend one source | never more out than in |
| External payments, `db/wecom-sync.ts`, `db/external-payments.ts` | bills, cursors, baseline | poll, match, verify refunds | overlapping windows, refunds before payments | no bill is lost, refunds settle |
| Pricing, quotes and catalog, `packages/domain/src/pricing.ts`, `db/room-catalog.ts` | policies, heads, quotes | publish, quote, price | lists change under quotes and stays | what was shown is charged |
| Authorization, `db/command-authorization.ts`, `apps/api/src/auth.ts` | subjects, grants, sessions, tokens | sign in, authorize, issue, rotate, disable | administrators act at once | a credential never exceeds its account |
| Migrations, `db/migrate.ts`, `db/ready.ts` | schema, history, protocol epoch | migrate, reconcile, probe | old processes, crashes, clocks | no command crosses an epoch |
| Web client, `web/ui.tsx`, `web/pages/` | recovery records, board, forms | confirm, recover, poll, book, upgrade | tabs, lost answers, late reads | nothing sent is forgotten; the screen never goes back |
| Dashboards, reports, assistant, HTTP schemas, scripts | none | queries | | not modelled |

Calls go one way: the web client calls the API; the API calls the protocol; the protocol calls
`lockCommandResources`, `buildCommandEffect` and `applyCommand` in one transaction; triggers write
the outbox in it; workers and the feed read it later; the WeCom poller writes bills under the
payment lock. The parts share PostgreSQL rows, and the tabs of a browser its storage, so every
interaction is a row lock, an advisory lock, a committed value or a storage record. `PROJECT.json`
lists the components with their state of modelling, and the hazards at their lines.

## Modules

| module | models | uses |
|---|---|---|
| `CommandProtocol` | the handlers of `service.ts`, statement by statement | refines `CommandLedger` |
| `CommandLedger` | what the protocol promises: an atomic ledger of offers and decisions | |
| `RoomInventory` | inventory, orders and stays under concurrent confirmations | |
| `StayHistory` | the amendments each command leaves, and their replay | extends `RoomInventory` |
| `RoomStatus` | the board projected from stays, maintenance and damage, and its validation | extends `StayHistory` |
| `OrderView` | pricing revisions, corrections of completed stays, the order page | extends `StayHistory` |
| `EventDelivery` | outbox, publication, delivery, pruning, feed | |
| `Coverage` | member nights under the commands of stays | |
| `Evidence` | what the browser derives from the effect of a stay command | extends `Coverage` |
| `MemberCorrections` | coverage rows and their entries; dates, voiding and new sale of a membership | extends `Coverage` |
| `Memberships` | sale and payment of memberships, the upgrade of a stay and its dialog | |
| `Funds` | bills, collections, refunds, reversals, retained funds | |
| `PaymentSync` | the WeCom poller | |
| `Booking` | price lists, quotes, the booking form, the price of an order through its changes | |
| `BoardClient` | the room page's reads, polls, locks and dialogs | |
| `WebRecovery` | recovery records of sent commands over the tabs of a browser | |
| `Access` | accounts, sessions, tokens, grants and the locks of authorized requests | |
| `Migrations` | migrators, the epoch lock, reconciliation, the readiness probe | |
| `...Proofs` | theorems about the module they name | extend it |
| `MC...` | constants, bounds and symmetries of a run | extend or instantiate what they check |

Some definitions stand directly before the one they vary and are used by no specification
(`RowIgnored` before `RowFree`): they are that definition with a plausible bug, and `PROJECT.json`
("mutants") says which property of which run fails when they take its place.

### CommandProtocol

One element of `Requests` is an HTTP request on a connection of its own; `pc` says which statement
comes next, and what the handler holds follows from it: the session advisory lock of its key
(`withExecutionLock`), the Preview row (`FOR UPDATE`), the business rows of its command in
`lockCommandResources` order, the shared or exclusive catalog lock. `exec`, `preview` and `dom` are
committed state; what a transaction has written and not committed is only in its `pc`. A command is
abstracted to the rows it reads and locks (`LockSeq`), the effect (`Effect`: the contents of what
it reads, which is what the effect hash tells apart) and the value it leaves (`Target`).
`createCommandPreview` reads a REPEATABLE READ snapshot (`PreviewBegin`, `PreviewCommit`).
`confirmCommandPreview` is `ConfirmReplay` (begin, catalog lock, receipt lookup), `ConfirmInsert`
(the EXECUTING row, ON CONFLICT DO NOTHING), `ConfirmClaim` (the Preview row and its checks),
`ConfirmLockRow`, `ConfirmApply` (`rebuildAndApply`), `ConfirmCommit`, and after an error
`PersistRejected` in a second transaction. `FindResult` reads; `ResolveLock`, `ResolveRead`,
`ResolveFence` are `resolveCommandResult`. `Crash`, `Deny`, `Interrupt`, `Abort` and
`DeadlockVictim` are the ways a handler ends early; `Reply` is the release of the session lock and
the answer. `LockOf` need not be injective, as `hashtextextended` is not.

### RoomInventory, StayHistory, RoomStatus, OrderView

One element of `Transactions` is a confirmation inside its READ COMMITTED transaction, after its
key and Preview were claimed. `Submit` starts it; `LockSource` takes the order or maintenance row
and reads the room-days off it; `LockUnits` takes unit rows `FOR UPDATE` (MOVE_UNIT and
REVOKE_CHECK_OUT only); `LockRoomDay` takes one room-day at a time in sorted order; `Check` is
`buildCommandEffect` with its availability checks; `Apply` is `applyCommand` and the commit, and
waits for the unit rows its inserted rows reference; `Rollback` is any failure; `NextDay` is
midnight in the property's time zone. A night is a unit and a date, an arrangement a set of nights,
a claim a night of a source, and `slot` holds the pointers `whole_claim_id` and `bed_claim_id`.
Commands use the business date the code uses: the wall clock sampled under the locks for
CREATE_ORDER, CHECK_IN and CHECK_OUT, `transaction_timestamp()` for the rest. The effect hash covers
that date and the Preview is older than the transaction, so a wall clock past midnight is
PREVIEW_STALE. Otherwise the comparison with the Preview is `CommandProtocol`'s and not repeated: a
transaction may act on any state its own checks accept, which allows more behaviours than the code.

`StayHistory` adds `log`, the amendments a committed command appends, and `LifecycleProjected`, the
replay of `orders.ts` that has to arrive at the rows. `RoomStatus` adds debts, retired rooms and
damaged rows, and projects `Events`, `Intervals`, `Tasks` and `Partial` from every state;
`GridAccepted` and `TaskAccepted` are `roomStatusValidation.ts`. `OrderView` adds the channel of an
order and its pricing revisions, REPRICE_ORDER and the corrections of completed stays;
`PageAccepts` is `orderViewValidation.ts`, `Enabled` is `orderAllowedActions`, and `Accepted` is what
the server decides: `BuildEffect` and `UnitAvailable` on some input of the command. An action can be
offered and refused for three reasons the page does not look at, and `OfferedIsAccepted` names each:
`GuestBeforeStays` (the guest before is still in the room), `NightsHeld` (another stay holds the
nights, or the dates of the model end) and `FollowedCheckout`: `orders.ts` 513 offers
REVOKE_CHECK_OUT for every completed stay, and `checkout-reversal.ts` 24-26 refuses it once a
repricing or a correction of the stay followed the checkout (a correction of a guest may follow;
guests are left out). The cleaning tasks of lines 27-29 are switched off in this release.
A correction looks for completed stays among the claims of the room, released ones included
(`ClaimedEver`, from the log), and compares their arrangements.

Left out: guests, deposits, cleaning, the legacy `internal_use_blocks` and the blockers for damaged
orders (`inventory.ts` 51-82, 459-493), which only make more nights unavailable. MARK_NO_SHOW on
the arrival date is allowed from 20:00; the model has no hours and allows it all day.

### EventDelivery

`state` joins the outbox row and the delivery row of an event. A worker publishes
(`PublishLock`, `PublishCommit`), prunes (`PruneScan`, `PruneDelete`: two statements, two
snapshots), claims with a new generation and a lease (`Claim`), sends (`SendClaim`) and records the
outcome if its claim is still the current one (`FinishDelivery`). Clocks are the Booleans the
queries compute. A feed client follows its cursor (`FeedPage`, `FeedExpired`). `Replayable` and
`Pruning` tell the integration stream from the payment streams.

### Coverage, Evidence, MemberCorrections, Memberships

One member with one membership and its lot. Every command takes the member's entitlement lock
(`lockMemberEntitlementIdentity`) before it rebuilds its effect and keeps it to the commit, so it is
one step. `available` is `total_units` plus the sum of the lot's ledger, `item` the coverage items
that are HELD or CONSUMED, `plan` the stay timeline. `Allocate` is `resolveMemberCoverage`,
`Reconcile` is `reconcileCoverage`, `DateChange` is `planStayDateChangeTimeline`; `shortening` and
`undo` are what SHORTEN_STAY and REVOKE_CHECK_OUT read back from amendments and the ledger.
`Evidence` computes, beside each committed command, the effect summary of `effects.ts` and what
`dateChangePreviewHasEvidence` of `ui.tsx` makes of it. `MemberCorrections` keeps the coverage rows
with their ledger entries (`rows`), the binding of stays to the lot (`bound`) and the audit of
`member-corrections.ts` (`AuditPasses`). `Memberships` has the money side: purchases, payments, the
upgrade of a stay (`Convert`) which moves the remainders of the stay's collections, and the page with
its lookup, dialog and panel; one product, no retained or divided money, no deleted members.

### Funds, PaymentSync

`Funds` has money commands under the property's payment lock (`money`, at most one) beside commands
that only lock their bills (`plain`); `bill`, `facts`, `holds` and `entries` are the tables, and
`PersistBill` is an import by the poller. `PaymentSync` has the provider's list (`shown`,
`occurred`, `state`), the windows of a poll with their transaction each, the baseline, the link of a
bill with the fact booked for it by hand before the source was configured (`Link`; a later booking
names an imported bill), and the verification of one unsettled refund at a time. A payment gets a
DISCOVERED event only if, with the whole window written, it is recent enough, not under review, not
matched and the only one of its number (`Discovered`, `wecom-sync.ts` 107-112); `Announced` says
that whatever the workbench then or later calls AVAILABLE (`Status`, `external-payments.ts` 59-67)
had its event or belongs to the baseline. Contacts, amounts and several properties are left out, and
so are bookings made in the workbench, which only take bills away from AVAILABLE. A refund booked by
hand that also changes its amount is assumed away (`BookingAssumption`): its match is refused by the
trigger on bills under review, with the window's transaction.

### Booking, BoardClient, WebRecovery

`Booking` publishes rates for today or later (`room-catalog.ts`), quotes through the form with
lost, late and recovered answers, creates the order, moves and extends it, and prices it by duration
bands with one rounding. The quote's snapshot precedes its catalog lock (`service.ts` 1477-1480).
Free and backfilled stays and several tabs are left out. `BoardClient` is the page's effects,
timers and reads: at most two reads (`Requests`), a retry timer, the 15 s poll (`sync`), the
authorization the board was read under, and the dialog's phase; the restoration of a page number and
the reload of an order's context are left out. `WebRecovery` has the authoritative record in
localStorage, the session mirror of every tab, the dialog and the shell (`commandShellState.ts`), and
the server as a ledger of keys; a tab may be reloaded, duplicated, closed or killed. The Preview
may run out at any moment at which the shell is ready to confirm (`PreviewExpires`, `ui.tsx`
6649-6659), which includes the wait of `confirm()` for the property's lock (6883): the request is
sent all the same, and the shell ignores every later event and shows an expired Preview to the end
(`ShellTellsTheResult` says so). The record, the query of the original result and the closing of the
dialog depend on the dialog's key and not on the shell, so nothing sent is forgotten.

### Access, Migrations

`Access` runs sign-ins, ordinary commands, account and token commands and quotes as requests that
take the row locks of their code one by one (`need` has those still missing, `locks` those held, in
share or exclusive mode), always the one that comes first in the order of ids (`Rank`: the catalog and
account-management locks, then subjects, sessions, tokens), decide (`Permitted`) and commit. `Migrations` runs migrators of two images file by file, with the advisory
locks, the epoch lock for the guarded files, the insert guarded by the newest `applied_at`, crashes,
a clock that may jump back, reconciliation of profiles, manual damage and the readiness probe.
A readiness query is the set of migrations whose objects it compares, and finds the database as it
expects when exactly the image's files among them have taken effect and nobody altered an object
(`paymentAllocationReady` accepts two schemas). How a query compares an object (a body, a hash, a
list of columns) is not modelled: the sets decide which queries a run watches and which later file
can undo an alteration, and no property says that they name every object the code relies on. What
is checked of the readiness code is its order of statements, its locks and its early answers.

## Runs

A run may hold two models side by side: the MC module lets a behaviour move one of them (`model`)
while the other stays in its initial state, so that a run asks one family of questions without the
product of two state spaces.

| run | question | instance | result |
|---|---|---|---|
| `cp_protocol` | are effects, receipts and answers consistent, decisions final, commits as shown, the ledger implemented? | 2 requests, 2 keys, 2 Previews; one command with matching and mismatching bodies, or three over 2 rows, one a catalog command | holds |
| `live` | does every request end, is every event settled? | opposite lock orders, both Previews open, a key per Preview; the payment stream with 2 events | holds under fairness |
| `ed_delivery` | are publication numbers gapless, does the feed miss anything, is accepted received, is an outcome the attempt's own? | 2 events, 2 workers, 1 client, pages of 1; or 1 event, 3 workers, 2 faults, 1 control | holds |
| `rooms` | can a night be given twice, can a pointer or claim go wrong, is the board true? | a room with two beds and a second room, 2 orders, 1 maintenance, 3 dates, midnight, 4 commands; the board over 4 dates with debts, damage, retired rooms | holds |
| `cv_stays` | is every night charged once, can a membership always be corrected, is what is shown what happens? | 1 order, 2 units, 4 nights, or 2 orders, 1 unit; a lot of 3 that expires before the last date; corrections over 3 nights with a lot of 2 | holds |
| `pay_funds` | is money spent twice, is every balance backed, does an upgrade move all of it, are forms accepted? | 2 orders, 1 bill, 1 refund, 2 owners, 3 facts; 2 members, 2 purchases, 3 payments | holds |
| `pay_sync` | is a bill lost or announced wrongly, do refunds settle? | 2 collections, one booked by hand, 2 refunds with one number, one of them revalued, 3 times, 2 windows, 1 failure | holds under fairness |
| `web_recovery` | can a sent command be forgotten, do records close? | 2 tabs, 2 commands, 1 quote, 2 attempts, 1 fault | holds under fairness |
| `room_page` | do server and browser agree on prices, is the page safe, does it go back, does its lock end? | 2 room types, 3 units, stays of 2, 8 and 14 nights, 3 events; 2 properties, 2 queries, 2 reads, 3 events | holds under fairness |
| `access` | do the locks suffice, are credentials bounded, does a command see one protocol, is an upgrade sound? | 4 accounts, 3 sessions, 3 tokens, 2 requests, 3 events; 4 files, 2 images, 1 migrator run twice, 1 clock step back, 1 damage | holds |
| `order_view` | does every page open, is what it offers accepted, are gained nights free? | 2 rooms, 2 orders, 4 dates, 4 commands, 4 channels | holds |
| `cv_overdraw` | can a command hold nights the lot does not have? | 1 order, 2 units, 4 nights, a lot of 2 | violated, see Findings |

Why the bounds are enough for the questions asked:

* Protocol: every conflict is between two requests about one key, one Preview or one row, and two
  keys and two Previews give each pair the choice of sharing or not. One of the two requests of
  `Receipts` confirms what was shown, the other one does anything (`Unmatched`).
* Delivery: a late answer meets a second and a third claim with three workers.
* Inventory: a conflict is between two sources over one night, and the room with two beds has every
  kind of overlap; three dates allow a shift with and without overlap, and an early check-out, a new
  booking of the released night and a reversal. Midnight falls on open transactions only after at
  most two confirmations (`QuietMidnight`); three commands overlap, a fourth one follows them alone
  (`LastRunsAlone`).
* Board and order view: one order alone uses every date and the last command; a debt or a damaged
  row is added to at most two commands; repricing happens once; a fourth command of an order view is
  the reversal of a check-out. Two orders of an order view are WECOM stays without a repricing, in any
  state of the books; their fourth command is the second correction of a completed stay, the
  reversal of a shortening or an extension beside a completed stay (`FewTogether`).
* Member nights: a lot is overdrawn by one command on one stay or by two stays that spend the same
  night; holding, releasing and reversing happen on both sides of the expiry.
* Money: three facts are a collection, what is taken from it and a reversal of either; funds are
  retained twice from one fact, used twice, or transferred to the other order (`FewRecords`); two
  orders and two owners tell a transfer from a theft. `Sold` and `Upgraded` are the two parts of the
  membership model: purchases of one member beside a plain stay, and one stay with its page.
* Sync: two windows and an overlap of one time step let a bill be listed in, after and between them.
* Browser: two tabs race, a third repeats one of the roles; `MaxFaults` is a crash or lost answer at
  any step. `RetryLimit` is 1 instead of 3: the counter is compared with it and nothing else.
* Access: a decision is disturbed by one other request at a time; a third event
  (`ThirdEvent`) is a sign-in, an ordinary command or the end of a member of staff.

The bounds are constants (`Horizon`, `MaxGranted`, `MaxCommands`, `MaxTries`, `MaxFaults`, ...) that
appear in one guard each, or state predicates of the MC module. `CHECK_DEADLOCK FALSE` is set because
a bounded run ends when its counters are used up or every key is decided.

### Fairness

* `live`, protocol: strong fairness of each handler's next step. A handler is a promise chain that
  runs on when its statement returns; lock waiters are served from PostgreSQL's queues, and the
  deadlock detector aborts one member of a cycle (`DeadlockVictim` is part of `Step`). Clients and
  faults are not fair.
* `live`, delivery: the worker loop runs every second and takes the row that has waited longest, so
  `Claim` and `PublishLock` are strongly fair, the steps of a live worker weakly fair, and time
  passes. Operators are not fair, hence `<>[]paused` is one of the outcomes. Faults are bounded.
* `pay_sync`: the poller runs every minute and its failures are bounded; the provider need not do
  anything.
* `web_recovery`: an open request ends by its timeout, a dialog that is uncertain asks again, and
  a tab that is open carries on; users need not do anything else.
* `room_page`: effects and timers of the page run, the poll fires every 15 s, requests end by their
  timeout.


## Proofs

Each `...Proofs` module has one inductive invariant, one lemma per operation that shows how the
operation keeps it, and the theorems at its end. They hold for every value of the constants: any
number of requests, keys, rooms, events or workers, and any bound; the runs are small instances of
them. Every invariant was checked with TLC on an instance before it was proved.

| module | invariant | theorems | property of a run |
|---|---|---|---|
| `CommandProtocolProofs` | `ProtocolInv` | `TypeCorrect`, `ExactlyOnce`, `DurableAnswers`, `FinalDecisions`, `ConfirmedEffect`, `LedgerImplemented` | `OneReceiptPerEffect`, `AnswersAreDurable`, `DecidedForever`, `ShownIsApplied`, `ImplementsLedger` |
| `EventDeliveryProofs` | `DeliveryInv` | `StreamIsOrdered`, `FeedIsComplete`, `ClaimsStayFenced`, `AcceptedIsReceived`, `AttemptsAreOwn` | `PublishedInOrder`, `FeedComplete`, `AcceptedWasReceived`, `OwnAttempt` |
| `RoomInventoryProofs` | `InventoryInv` | `NeverDoubleBooked`, `PointersAreClaims`, `ClaimsArePlans` | `NoDoubleBooking`, `PointersFollowClaims`, `ClaimsFollowPlan` |
| `MigrationsProofs` | `UpgradeInv` | `OneProtocol`, `SoundUpgrade` | `CommandsSeeOneProtocol`, `UpgradeIsSound` |
| `PaymentSyncProofs` | `SyncInv` | `NothingLost`, `VerifiedForGood` | `SyncLosesNothing` |
| `BoardClientProofs` | `BoardInv` | `PageInvariant`, `PageStaysSafe`, `NothingGoesBack` | `PageIsSafe`, `PageNeverGoesBack` |
| `WebRecoveryProofs` | `RecoveryInv` | `RecoveryInvariant`, `RecoveryStaysSound`, `NothingIsForgotten` | `RecoveryIsSound`, `ForgottenOnlyWhenKnown` |
| `AccessProofs` | `AccessInv` | `AccessInvariant`, `LocksAreEnough`, `CredentialsNeverExceed` | `LocksSuffice`, `CredentialsStayBounded` |

The properties are not inductive as they stand; the strengthening is what the code relies on
between two statements.

* Protocol. `Fits` says which call, rows and answer each program counter can have, `Locks` that two
  handlers never hold one Preview, one row, one key's pending insert, or the catalog in conflict.
  `ReadsStillTrue` is the heart: a handler that has inserted still finds no committed row for its
  key, one that has claimed still finds the Preview OPEN and its own, one that has compared the
  effect still finds it unchanged, because every step that could change it needs the lock the handler
  holds. `EffectsAccounted`, `ReceiptsFit` and `AnswersAreDurable` count effects and receipts; the
  cardinality in `OneReceiptPerEffect` is handled as sets of at most one key. The lock hash is any
  function, colliding ones included (the runs use an injective one).
* Delivery. `RowOwned` says that the publish-state row has one owner, whose reading of the head is
  therefore fresh (`PublishedInOrder`). `ClaimsAreFenced` says that an attempt has the current
  generation of its event or an older one, `AnswersTrue` that what is about to be recorded as
  accepted was received. `PrunedBelowFloor` and `FeedPlaced` put what is gone below the floor and
  every feed client between the floor it started from and the head.
* Inventory. `SourceRows` and `RoomDayRows` say that an order row and a room-day have one holder,
  `Covered` that a transaction has locked or is going to lock the room-days of its command as they
  are now, `Ready` that the nights it is about to add are locked and still free, and `PlansSound`
  that claims are the nights of a connected arrangement.
* Upgrade. `RowsHaveTimes` and `HistoryInOrder` order the history by file and by `applied_at`;
  `LocksHeld` ties the advisory lock and the epoch lock to the program counters of migrators and
  commands; `PlaceInList` says that a migrator past a file has its row, `SeenByProbe` what a
  running probe has read. `UpgradeAssumption` has the shapes of files and images: every image ships
  a file, and the file that introduced the epoch is in the list.
* Sync. `Chained` says that the windows of a round follow each other up to its target, `BeforeRound`
  that whatever was listed before the round's reach is imported, `CoveredSoFar` that the windows the
  round has done are, and `AnswerIsTrue` what an answer not yet persisted says of the provider, which
  may move on meanwhile. A bill below the checkpoint then was imported by an earlier round, an
  earlier window or this one. The arithmetic of `Windows` is the lemma `WindowsAreChained`, for any
  length of window and any number of them. `SilentIsPast` is what makes a failed first round
  harmless: payments taken for history lie before the target that completes the baseline.

* Room page. `ActiveReadIsCurrent` is what makes a late answer harmless: the one read that counts
  asks for the page's property, and its answer is not older than the board nor than the page's own
  commit; every other read is aborted or ignored. `OldBoardIsLocked` says what keeps a board older
  than the own commit from being written on: the pending focus refresh, or the committed command
  still shown (`excused` is the poll of `InventoryPage.tsx` 3659-3665). `WarnedIsClosed` keeps a
  changed authorization closed. `FormMatchesTheDay` only became inductive when the effect that
  closes the form (`InventoryPage.tsx` 4695-4700) was made part of every action after which it runs.
* Recovery records. `OpenIsRecorded` and `OneOpen` are the two halves of the promise: a request that
  is on its way, or about to leave, has its record in localStorage, and there is one such request per
  slot. `KeysAreOwn` (a key is its tab's alone until it is sent), `RecordsFit` and `AnswersTrue` (a
  record or dialog that has a result has the server's) keep a stale mirror of another tab from
  closing or replacing it, `CorruptIsDead` covers the write torn between the two items, `ShellFits`
  ties the shell's state to the dialog's phase. `RecoveryAssumption` separates the keys of commands
  and quotes and the null value from the rest.
* Access. `LocksTaken` says that a request holds exactly the locks of its kind (`LocksOf`) that it no
  longer needs, all of them before it decides and every one ranked below what it still wants;
  `LocksApart` that only share locks are held together. `AuthorizedStillHolds` is the property that
  had to be proved step by step: whatever could change a decision (disabling an account, its grants,
  profile or password, revoking or rotating a token, raising a version) is done by a request that
  holds the row for update, which nobody can while the decision stands (`UpdateLockIsAlone`,
  `StillPermitted`). A sign-out is one statement that waits for the holders of its session; only an
  expiry passes without a lock, and the decision looks at it once. `EpochHeld` and `QuotesCounted` do
  the same for the epoch lock and the quota's advisory lock. `NoCircularWait` follows from the
  invariant: in a circle, the request that wants the highest rank waits for one that wants a higher
  one still (ranks are bounded, so there is a highest). `CredentialsFit` makes the tokens' `by` and
  `from` issued rows, and the bounds on credentials are inductive beside it. `SeedsAssumption` has the
  shapes of the first accounts, `IdsAssumption` that the ids of the three tables are disjoint and that
  `IdOrder` lists all of them, subjects first.

The assumptions are those the modules declare on their constants (`ConstantsAssumption`,
`SyncAssumption`, ...): shapes, never bounds.

Only model-checked are

* liveness (`EveryRequestEnds`, `Settles`, `RefundsSettle`, `RecordsClose`, `LockEnds`), which with
  ENABLED is out of this prover's reach;
* the balances of `Funds`, `Coverage`, `MemberCorrections` and `Memberships`: they are sums over
  sequences and sets, and what a recursive sum does under an update needs induction over data;
* replays of histories (`StayHistory`, `OrderView`, `RoomStatus`, the audit of `MemberCorrections`),
  for the same reason;
* prices of `Booking`, bounded arithmetic best left to evaluation.

## Findings

`cv_overdraw` is a run TLC refutes: RESCHEDULE_STAY of a stay in two units counts held nights that
change units as returned to the lot although it keeps them (`effects.ts` 2681-2688); the lot ends
below zero although `entitlement-balance.ts` says it "must remain within" its bounds.
`OverdrawnOnlyByReschedule`, part of `CommandsAreTrue`, shows that no other command does.

Observations made while modelling, which the modules follow and no run refutes:

* A REPLAY that commits between the two statements of a pruning is deleted undelivered
  (migration 058, 366), although its comment (355) promises to consume "only a contiguous,
  acknowledged prefix".
* MOVE_UNIT and REVOKE_CHECK_OUT lock unit rows before room-days, other commands need them after
  (`apply.ts` 546): two commands on one room deadlock, one is aborted and has to be retried.
* A MOVE_UNIT that began before midnight can bring a guest who is due out on the new date onto the
  unit of a guest whose check-in is checked and not committed (`service.ts` 1953).
* A CHECK_IN is accepted until the day before the departure and recorded LATE_RECORDED
  (`effects.ts` 3177-3214); invariant 19 of `docs/architecture/invariants-and-decisions.md` limits it
  to the arrival date. `assertNoCompletedStayOverlap` is only called for a backfilled CREATE_ORDER.
* A REVOKE_CHECK_OUT of an early check-out and an EXTEND_STAY of an overdue stay look at active claims
  (`checkout-reversal.ts` 135): they take past nights of the unit that another stay has used and
  completed in the meantime. `GainedNightsAreFree` names these two; no other command does it.
* A stale session mirror can bring a closed recovery record back (`ui.tsx` 5489, `ui.test.ts` 400).
* After QUOTE_EXPIRED or PREVIEW_STALE the booking form keeps its settled signature and does not
  quote again by itself; a late definitive refusal settles the old signature.
* A rate in fen makes member quotes with uncovered nights PRICING_POLICY_UNCONFIGURED; a unit of a
  type created after the booking is not priced by the locked policy; a STAY_TOTAL that rounds to 0
  is refused by the browser; before the first publication any effective policy id is accepted.
* The browser refuses as without evidence (`ui.tsx` 717): EXTEND_STAY, REPRICE_ORDER and a second
  MOVE_UNIT of a member moved in house; MOVE_UNIT and EXTEND_STAY after a shortening kept consumed
  nights outside the plan; a RESCHEDULE_STAY in which a returned night pays a night that was
  uncovered before. `AlignedStepIsShown` names the stays this cannot happen to.
* REFRESH_MEMBER_COVERAGE is granted to nobody (`command-permissions.ts` 58).
* The unit of a task is wrong after MOVE_UNIT within the stay and a pure shift (`room-status.ts`
  1305); a task of unknown kind makes the browser refuse the whole board (`room-status.ts` 2198).
* A member's manual price copied by REVOKE_CHECK_OUT is refused by `orderViewValidation.ts` 1202-1206;
  `OrderPageOpens` excludes exactly these orders.
* `InventoryPage.tsx` 3659-3665 unlocks the board on a poll that was sent before the commit
  (`excused` in `BoardClient`); `boardWriteAdmitted` stays false when an authorization changes and
  changes back; an answer dropped while confirming admits writes.
* The upgrade does not refuse a member who has an active membership (ACTIVATE does); the dialog does
  not check the number of nights or divided money, the server does.

## Not modelled

The SQL of the migrations, what a readiness query compares within an object, dashboards and reports (read-only queries), the assistant (text over
read-only tools), HTTP routing and schemas, rendering, deployment scripts. Within modelled parts:
what the sections above list as left out.

## Plan

1. `Occupancy`: what inventory promises (a map from nights to sources), refined by `RoomInventory`.
2. Entitlements with several lots, and temporary other-room stays.
