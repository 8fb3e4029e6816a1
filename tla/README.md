# TomaFix backend: a verification project in TLA+

TomaFix is a NestJS service over PostgreSQL (Prisma) for property workspaces: offices, apartments and estates. A workspace signs up, verifies its owner, pays through Paystack, and then runs its tenants, visitors, requests, charges and staff. One Node process serves HTTP requests and runs the timers; between two `await`s it is uninterrupted, and whatever was read before an `await` may be stale after it. Nearly every error these models look for has that shape: a row is read, a condition is checked on it, and a later write is made by id alone.

The modules here are read from the TypeScript in `src/`; each definition's lines are in `PROJECT.json` under `map`.

## 1. Inventory

Paths are relative to `src/src/`.

| Component | State | Operations | Talks to | What makes it correct |
|---|---|---|---|---|
| **Billing payments** (`billing/billing.service.ts`, `paystack.service.ts`) | `Payment`, `Subscription`, `WebhookEvent` rows; Paystack's own record of the charge | checkout, plan switch, mock checkout and confirmation, webhook, replay of a failed webhook, verification on the success page, the settlement transaction | Paystack (calls and webhooks), entitlements cache, mail | a settlement needs a charge or a grant; a charge is settled in the end although webhooks are lost, repeated or late; an event marked processed stands for a settlement |
| **Billing life cycle** (same file, from line 870) | `Workspace.status`, `billingStatus`, `nextRenewal`, `planName` | status change by hand, payment retry, dunning sweep, reconciliation, cancellation | every other writer of the workspace row | the two statuses stay paired; status follows the transition table; nobody is let in unpaid, nor shut out with no way to pay |
| **Plan catalogue** | `Plan` | list, price update, name audit | admin | names resolve to plans |
| **Entitlements** (`billing/guards.ts`, `cache.ts`, `planConfig.ts`; `service.ts` is wired nowhere) | in-memory cache of plan and usage | guard on creates and features; bust on a plan change | office, apartment, property, onboarding, auth (each counts and then creates) | no plan served that was not bought; no create beyond the limit |
| **Access guard** (`auth/workspace-access.guard.ts`) | workspace row, membership | admits a request; demotes an expired workspace | billing, auth | access ends after grace; a renewal is never undone |
| **Onboarding** (`onboarding/onboarding.service.ts`) | `Workspace`, `EmailOtp`, `TenantInvite`, members | create workspace, send and verify the owner's code, invite, resend, revoke, accept, bulk import | billing, entitlements, mail | one open invite of an address and role; an invite admits once, never after it was revoked; owner codes keep their distance and their number |
| **Auth** (`auth/auth.service.ts`, `trusted-device.service.ts`, `passkey.service.ts`) | login codes, remembered devices, passkeys, memberships; tokens are signed and not stored | send and verify code, sign in by device or passkey, revoke all, add, change and remove members | entitlements, access guard, mail | no more manager seats than the plan has; a code takes so many guesses; a revocation ends every session |
| **Scheduler** (`scheduler/scheduler.service.ts`) | rows of the others, `nextRunAt`, dead letters | preventive maintenance, recurring charges, reminders and overdue marking, subscription expiry, SLA alerts, dead letter retry | estate operations, billing, notifications, mail | each period is charged once; a paid charge is not made overdue; a verdict on a dead letter is true, and there is one in the end |
| **Recurring charges** (`apartment/apartment.service.ts` from line 1837, `scheduler.service.ts` from line 240) | schedules with frequency, day, `nextRunAt`, `lastRunAt` | create, change, delete; the hourly job | estate charges, residents | a run on record charged everybody; no period is left out; what is due is made in the end |
| **Estate operations** (`estate-ops/estate-ops.service.ts`) | leases, meters and readings, violations, approvals, inspections | let and renew, read and bill, decide | scheduler, tenant | no usage is billed twice; an edit of the text keeps the decision; one reminder per lease |
| **Office** (`office/office.service.ts`) | areas, request types, assets, requests, work orders | create, change and delete, public requests, orders opened for the owner of an area | entitlements, notifications | no request is lost with its area; work done has its date; limits hold |
| **Visitors** (`visitors/visitors.service.ts`) | visitor passes | create, walk-in, scan, extend, update, cancel, check in and out | notifications | a visit has its two stamps, in order; an ended pass lets nobody in |
| **Apartment** (`apartment/apartment.service.ts`) | units, residents, requests, charges and payments | move residents in and out, file and work off requests, post, pay and void charges, sum up | entitlements, notifications | one active resident a unit, and the unit's status follows; what is paid is no more than what is owed |
| **Property** (`property/property.service.ts`) | amenities and bookings, household and vehicles, work orders, parcels, equipment | book, move, decide; register and mark primary; complete; log a service | scheduler, notifications | bookings do not overlap; one primary of each; the next service follows the last |
| **Operations** (`operations/operations.service.ts`) | notices with their readers, inspections | post, acknowledge, see; inspect, write the result, convert to requests | apartment | an acknowledgement that is there is not lost; an inspection mentions the requests that came of it until a manager writes its result anew |
| **Tenant** (`tenant/tenant.service.ts`) | none of its own | a resident files, confirms and reopens requests | apartment | the same rules as the managers' endpoints |
| **Admin** (`admin/admin.service.ts`, `admin.guard.ts`) | every table; its own accounts, sessions and reset links | activate, suspend, fix payment, queries; sign in by password and code, reset a password, make, demote and deactivate administrators | billing, mail | an operator's decision is not undone by a stale write; somebody remains who may undo what administrators do to one another; a session has no more rights than its account |
| **Mail and dead letters** (`mail/mail.service.ts`, `scheduler.service.ts` from line 707) | dead letters with attempts and next time | send, park, retry job | providers | no mail is dropped; a verdict on a letter is true, and there is one in the end |
| **Notifications, sms** | notification rows | send, mark read | providers, mail | a notice reaches its user once |
| **Marketplace, AI, reports, health** | applications; none | forms, queries, a call to a model | | |
| **Prisma** (`prisma/schema.prisma`) | tables, defaults, unique keys | transactions (READ COMMITTED) | all | |

The behaviours that are hard here: two requests or a request and a timer between each other's awaits; reads outside the transaction that writes (`finalizeSuccessfulPayment`, `verifyOwnerEmailOtp`, `setBillingStatus`, `acceptTenantInvite`); webhooks delivered twice, late or never; a crash between a settlement and the answer that acknowledges it; caches filled from a row that has changed since; limits enforced by a count followed by a create; sweeps that work from a list read once. Each is listed at its line under `hazards`, with the properties that watch it; a note says what of it they leave out, which is often the race itself (`contested`, section 2), or why no property covers it.

## 2. What is modelled

```
BillingState                 rows, cache, Paystack, handlers in flight, small tables
  |-- BillingPayments        checkout .. settlement, webhook, replay, verification, mock
  |-- BillingLifecycle       OTP, set, retry, dunning, guard, reconcile, cron, administrator
        `-- Billing          both, with entitlements reader, clock, crash; the properties
              |-- PaymentLedger (INSTANCE)   the abstract promise about money
              |-- MCBilling                  instances for TLC
              `-- BillingProofs              types, paired statuses
                    `-- BillingLedgerProofs  settlements, processed events, refinement, paid access

MailQueue                    send, dead letters, retry job; the properties
  |-- MCMailQueue            instances for TLC
  `-- MailProofs             types, verdicts, no mail dropped

RecurringCharges             requests and hourly job, dates; the properties
  |-- MCRecurring            an instance for TLC
  `-- RecurringProofs        types and dates, runs on record, no month left out

Requests                     what every HTTP request and job run does: begin, go on, end, be cut short
  |-- RequestsProofs         who is alone at a row
  |-- Visitors               passes at the gate
  |-- Members                staff, roles, manager seats
  |-- OneTimeCodes           codes sent by mail, guesses
  |     |-- Invites          (with Members) sending, revoking, accepting
  |     `-- Sessions         codes, devices, passkeys, tokens, revocation
  |-- Limits                 the plan's limits, cached counts
  |-- Panel                  administrators' accounts, sessions, reset links
  |-- OwnerCodes             the codes that verify the owner of a workspace
  |     `-- Access           the desks above, one at a time; MCAccess for TLC
  |           `-- AccessProofs     limits, revocations, challenges, owner codes
  |                 `-- AdmissionProofs   passes, members, invitations, codes, administrators, types
  |-- Bookings  Registry  Residents  WorkOrders  EstateCharges  Leases  Meters
  |-- Tickets  Office  Maintenance  Equipment  Notices  Filing
        `-- Premises         these desks, one at a time; MCPremises for TLC
              `-- PremisesProofs   bookings and the other desks, types
```

The families share no state: billing hands its mails to `send` and does not look at the outcome, the charges of an estate have nothing to do with the workspace's own bill, and neither has who is let in at the gate. The one meeting point is the owner's code: `verifyOwnerEmailOtp` is in `OwnerCodes` for what it does to codes, and in `BillingLifecycle` for what it does to the statuses, where a code is right or not by choice.

### Billing: state

| Variable | In the program |
|---|---|
| `ws` | `Workspace`: `status`, `billingStatus`, `nextRenewal`, `planName` |
| `pay` | `Payment` in order of `createdAt`: `status`, `workspaceId`, plan in the metadata, `createdAt`, `paidAt` |
| `sub` | `Subscription`, unique by workspace: `status`, plan, `currentPeriodEnd` |
| `event` | `WebhookEvent`, unique by `eventId`: `processed` |
| `cache` | the plan in the entitlements cache; it goes with the process |
| `open`, `charged`, `acked` | Paystack: checkout pages, charges with their day, webhooks it got a 200 for |
| `granted`, `vouched` | history only: payments settled without a charge (mock flow, administrator), and workspaces an operator set ACTIVE. No guard reads them |
| `now`, `faults` | a clock of whole days, and a count of crashes and failed database calls |
| `h` | one slot per request or timer in flight: its operation, the await it is at, and what it has read and not read again |

A handler starts with an action named `...Read` (or `WebhookStore`), which holds what happens up to and including its first database call, and goes on one await at a time. So `setBillingStatus` is `SetRead` (read, assert the transition) and `SetWrite` (write by id, bust the cache), and anything can happen between them. `finalizeSuccessfulPayment` is `FinalizeRead` (the read and the PAID check, outside the transaction), `FinalizeBust` (the transaction has its row locks and busts the cache), `FinalizeCommit`, and `FinalizeFails` for a rollback; its four callers continue as they do in the code (`Returned`).

Choices a reader of the code should know:

- **Row locks.** From `FinalizeBust` to `FinalizeCommit` the transaction holds its payment and workspace rows, so other writers of them wait (`WorkspaceRowFree`, `PaymentRowFree`). Reads never wait. The transaction's own read of the workspace is taken together with the lock: every status may become ACTIVE, so that what it reads cannot change its course.
- **Cache bust.** Everywhere else the bust follows the write with nothing observable between and is one action with it. In the settlement the bust comes *before* the commit, and is a step of its own.
- **Settled** means that `paidAt` is on record. `retryLatestPayment` can write PENDING over a PAID payment; it keeps `paidAt`.
- **Reconciliation** orders by `paidAt DESC`; PostgreSQL puts nulls first, and so does `LatestByPaidAt`.
- **Verification** that finds another amount or currency rejects, like one Paystack does not confirm (`VerifyRejected`): nothing changes in either case.
- **Sweep.** The dunning sweep reads the `SweepLimit` oldest pending payments once, and each workspace anew at its turn.
- **Left out:** audit log rows, notices and mails, `retryCount` and other counters no decision reads, prices, the local bypass of the owner's code, deletion of plans (no code deletes one).

### Mail: state and steps

| Variable | In the program |
|---|---|
| `env` | which transports are configured, and whether `NODE_ENV` is production |
| `call` | where each call of `send` is: at SMTP, about to be parked, ended |
| `row` | `NotificationDeadLetter`: `status`, `attempts`, and the minutes between its last update and `nextAttemptAt` |
| `dueQueue` | the rows whose `nextAttemptAt` has passed, in that order |
| `sweep` | one slot per run of `runNotificationDlq`, with the rows it has read and not yet retried |
| `arrived`, `refused` | history only: letters delivered, and the numbers of the retries that ended in an error |
| `faults` | a count of restarts and failed database calls |

`send` is `SendWithResend` or `SendWithoutResend`, then `SendWithSmtp`, then `EnqueueDeadLetter`, as far as each is needed. The job is `SweepRead`, and for each row it has read `SweepTry` (`retryEmail`) and `SweepRecord` (the update by id). Choices:

- **Providers** take a mail, refuse it, or take it and lose the answer; the caller sees an error in the last two cases.
- **Overlap.** The job has no guard against itself and Nest starts it every five minutes, so several sweeps may be at work, each with attempts it read some time ago.
- **Time** is abstract: a waiting row may fall due at any moment. Only the order of `nextAttemptAt` matters to the query, and only the delay to a property.
- **Other channels.** `NotificationDeadLetter` knows SMS and WhatsApp, but nothing ever parks one, so the branch that fails them is unreachable.
- **A retry** uses SMTP only when there is no Resend key, unlike `send`, which falls back on it.

### Recurring charges: state and steps

| Variable | In the program |
|---|---|
| `now`, `fired` | the clock, in hours, and whether the job has been started in this one |
| `schedule` | `EstateRecurringCharge`: `frequency`, `dayOfMonth` (0 for null), `isActive`, `nextRunAt`, `lastRunAt`; none, a row, or deleted |
| `active` | the residents with status ACTIVE and a unit |
| `sweep` | one slot per run of the job: its own time `at`, the schedules it has read, the one it is at, the residents it has read, and the hours it has seen pass |
| `charged`, `settled`, `regular`, `again` | history only: the months in which each schedule charged whom, the residents who were there all the time, the schedules never switched off while the job ran every hour, alone and without fault, and whom those charged twice in a month |
| `faults` | a count of restarts and failed calls |

The job is `SweepRead`, and for each schedule `SweepResidents` (the residents), `SweepPost` (`createMany`) and `SweepAdvance` (the update by id); `SweepFails` is its `catch`. Choices:

- **Dates.** An instant is a month, a day and a time of the day. `Date` does what JavaScript does with a day the month does not have, which is all that `setDate` and `setMonth` need here. An hour h has two times, 2h for the full hour and 2h + 1 for some milliseconds later: the job starts a little late, now more, now less, and keeps its own time in `nextRunAt`.
- **Requests.** `updateRecurringCharge` writes by id the `isActive` it was asked for or read some time before. As another request may have changed it in between, either value may be written at any time, and the model does that in one step.
- **The clock** waits for nobody: an hour may pass with the job not started (the process is down) and while runs are at work.
- **Left out:** amounts, titles, due dates, the choice of one estate of the workspace.

### Access and premises: requests and desks

Everything below rests on `Requests`. A request is two steps or more: `Begin`, when its reads are back and its checks have passed (`req[i]` keeps what was read or decided), and then one step per call that writes, the last of which is `End`. Between them any other request, or a run of a job, may step. A request that is rejected or only reads is no step. `Once` is a request with a single statement and no read it depends on. `Abort` is an error, a timeout or a restart that cuts a request short.

| Variable | In the program |
|---|---|
| `req` | per slot, the request or job run in flight, with what it has read and not read again |
| `now` | the clock, from 1; 0 (`Never`) is a null date |
| `contested` | history only: the rows two requests had in flight at the same time. `Cut` (an `Abort` where it matters) adds the rows of a request that left them half done |
| `desk` | which part of the service the behaviour is about |

`contested` is how the properties say what the code does and does not promise. None of these handlers locks a row, so two of them on one row at once can break nearly every rule; the rules are promised for rows on which requests followed one another, in any order and any number, with anything else going on beside them. Each property says in its comment which overlaps it excepts, and where the code has a defence of its own (one statement, a unique key, a transaction, a cache read and cleared without an await between) the property makes no exception: `RevocationHolds`, `ChallengeSpentOnce`, `CodesAreRationed`, `OwnerCodesApart`, `DoneIsStamped` but for one kind, and `NothingIsLost` about notices and inspections as far as what was settled goes. Every other exception has its hazard in `PROJECT.json`, with a note: such a property does not catch the race, it says what still holds around it.

**Desks.** The parts of `Access` share the process and the clock only, and so do those of `Premises`: their tables are different. So a behaviour is the work of one desk, chosen in `Init`, and `desk` keeps the others' tables still. That leaves out nothing but the product of independent behaviours. Where two parts do meet, one desk has both: `Invites` extends `Members` and `OneTimeCodes`, `EstateCharges`, `Leases`, `WorkOrders` and `Maintenance` have the requests and the job that works on the same rows.

| Module | State | Steps and what they stand for |
|---|---|---|
| `Visitors` | `pass`: status, the two dates, the two stamps | creations; every other operation is a decision (`ScanVisitor`, `ManualCheckIn`, ...) and `WritePass`. A scan takes its stamp when it reads, the manual operations when they write |
| `Members` | `member`: id of the row, role, active; `unchecked` (history): managers nobody counted a seat for | add, update, remove; `AssertManagerCapacity` counts on the way to making a manager, `WriteMember` is the upsert or the update by id, which fails when the row was deleted and made anew |
| `OneTimeCodes` | `code`: user, dates, attempts, used | `SendCode`/`IssueCode`, `ReadCode` (the newest usable code, compared), then `MissCode`, `BurnCode` or `SpendCode` |
| `Invites` | `invite` | `ExpireOpenInvites` then `InsertInvite`; `AcceptTenantInvite` reads the invite, spends a code and ends in `GrantMembership`, which counts no seat |
| `Sessions` | `touched` (`user.updatedAt`), `token`, `device`, `passkey`, `challenge`, `revoked` (history) | three ways in, all ending in `CreateSession`; `RevokeAllSessions` touches the user row (`TouchUser`) and deletes the devices; the guard refuses tokens minted more than a second before the row was touched |
| `Limits` | `held`: rows per kind; `usage`: the cached counts | `EntitlementsGuard`, from the cache or by `CountUsage` and `ComputeAndCache`; `AssertPlanLimit` is the service's own count, for some kinds; `CreateRow`. The limit itself does not change here |
| `Panel` | `operator`: role, activity, which password; `login`: sessions, with the password and role read at the sign-in; `link` | `LogInRead` compares the password, `CreateLogIn` makes the session; `ReadExisting`, `WriteOperator` and `DropLogIns` are `updateAdminUser`; `ResetAdminPassword` is the transaction. A request that changes who may do what is at `OperatorsRow`, one about how an account gets in is at the account's own row. The guard's look at the caller and the handler's at the account to change are two steps |
| `OwnerCodes` | `ownerCode` in order of creation; `pending` | `SendOwnerEmailOtp` counts the hour, `IssueOwnerCode` is the transaction under the advisory lock, in which the latest code is read and the new one made; `VerifyOwnerEmailOtp`, `ConsumeOwnerCode`. The code is compared with the guess, wrong guesses change nothing |
| `Bookings` | `amenity`, `booking` | the overlap query (`Taken`), then the write |
| `Registry` | `entry`: household members and vehicles of a resident | `ClearMarks`, then `WriteEntry`. Both kinds are handled alike but for the plate |
| `Residents` | `unit`, `resident`; `manual`, `unlooked` (history) | check, `WriteResident`, and per unit touched `CountActive` and `SyncUnitOccupancy`; the bulk upload judges its rows once and then creates them one by one |
| `WorkOrders` | `work`; `alerts` (history) | updates, and the half-hourly job: list, `MailAlert`, `MarkAlerted` |
| `EstateCharges` | `charge` with the sum of its payments; `reminders`: the log, and the messages sent (history) | payments read the sum, then write payment and status; the hourly job lists, sends, logs and marks; `getFinanceSummary` is an operator |
| `Leases` | `lease`, with messages sent (history) | the status is worked out when a lease is written, and by the job |
| `Meters` | `meter`: last value; `first`, `billed` (history) | `RecordUtilityReading` reads the last value, `WriteReading` is the transaction |
| `Tickets` | `ticket`: kind, status, dates | eight kinds of rows that somebody works off, through nine update handlers. `Answers` is what each writes of what it read, column by column; they differ in which columns they write back |
| `Office` | `area`, `asked`, `order`, `requestType` | `FileRequest` is the transaction that opens an order for the owner read before it; `RemoveArea` does what the foreign keys do (requests deleted, orders emptied) |
| `Maintenance` | `asset`, `orders`; `served` (history) | `RunPreventiveMaintenance` lists, `OpenPmOrder` is the transaction per asset |
| `Equipment` | `machine`: interval, last and next service | the next date is worked out of what was read and what the caller named |
| `Notices` | `paper`; `followUps`, `struck`, `settled` (history): the requests converted from inspections, those a manager's text left out, and what was at each paper when nobody was at it | columns read, added to, written back whole (`Extend`, `WriteColumn`); `UpdateInspectionResult` and `WriteResult` put any text in the place of a result |
| `Filing` | `filed` | the duplicate check of the managers' endpoint; the residents' has none |

Statuses that the code treats alike are one (IN_PROGRESS and OPEN, STAFF and GUARD), amounts are the smallest unit, and texts, contacts and mails are left out except where a message sent is counted.

### Properties

| Property | What it says, and what could break it |
|---|---|
| `StatusesPaired` | `status` and `billingStatus` are one of the pairs the program knows, with eight writers that act on earlier reads |
| `SettledWasCharged` | a settlement was charged for or granted |
| `ProcessedWasSettled` | an event marked processed, or a webhook answered with 200, stands for a settlement |
| `ImplementsLedger` | the service refines `PaymentLedger`: only charged or granted payments settle, settlements stay on record, and **every charge is settled in the end** in spite of crashes, failures and lost or repeated webhooks |
| `ActiveWasPaidFor` | no stale read makes a workspace ACTIVE that never paid and nobody vouched for |
| `PaidAccessEnds` | an ACTIVE workspace nobody vouched for has a renewal date, without which the access guard would never demote it |
| `PlanWasPaidFor` | the plan on the row, and the one the cache serves however stale, is Starter or one a settled payment bought |
| `VerdictsAreTrue` | a dead letter marked SENT was delivered, one marked FAILED was tried in vain up to the limit, although overlapping sweeps write back attempts they read long ago |
| `NoMailDropped` | when `send` ends, the mail was delivered or is parked; it is skipped only with no transport and outside production |
| `EveryLetterIsDecided` | every dead letter ends SENT or FAILED for good, although an overlapping sweep can take it out of either; none starves behind a long queue |
| `RunsWereCharged` | a schedule that says it has run has charged everybody who was there, although runs overlap, write `lastRunAt` out of order and may die between posting and recording |
| `EveryMonthCharged` | a monthly or quarterly schedule leaves out no month or quarter and charges none twice, however late in the hour the job starts and however often the schedule is edited, while no run is missed or fails |
| `DueRunsAreMade` | a schedule that is due is moved on in the end: not stuck for a missed hour, a fault or an older run |
| `VisitIsRecorded` | a visitor is inside exactly between the two stamps, the way out not before the way in, with five operations that look at the status only |
| `EndedPassLetsNobodyIn` | a pass used up, cancelled or expired never lets anybody in again |
| `SeatsHold` | active managers never outnumber the plan's seats, but for the two ways past the count |
| `OneOpenInvite` | one open invitation of an address and role, although the old are expired and the new one made in two calls |
| `InviteAdmitsOnce` | an invitation is accepted once and never after it was revoked or replaced, although it is looked at long before the transaction |
| `CodesAreRationed` | parallel guesses at a code exceed the limit, and parallel requests for an owner's code the hourly cap, by no more than the requests in flight |
| `RevocationHolds` | a completed revocation leaves no older token the guard accepts, and no device remembered before it, not even through a sign-in that was half way; what a bearer token of before still registers afterwards is outside it |
| `ChallengeSpentOnce` | a passkey challenge serves one attempt, however many requests answer it |
| `LimitsHold` | a stale cached count never lets a kind that is counted again pass its limit |
| `SuperAdminRemains` | administrators may demote and deactivate one another in any order, one who can undo it is left; only two who do it to each other at once are excepted |
| `LogInsAreCurrent` | a session, verified or half way, was opened with the password and the role its account has now, although changes delete sessions in other calls than they are made in |
| `OwnerCodesApart` | two codes never go out within half a minute, unless the first was used, however many requests ask at once |
| `NoDoubleBooking` | live bookings of an amenity never share time, in whatever order they are made, moved, cancelled and brought back |
| `OnePrimary` | one primary household member and one primary vehicle |
| `OneActivePerUnit`, `OccupancyFollowsResidents` | one active resident a unit; the unit's status, copied from a count, agrees with its residents whenever no request is at it |
| `RemindedOnce` | one message per breach, charge and lease over all runs of the jobs and all edits between them |
| `DoneIsStamped` | a row whose work is done says since when, through all the handlers and in every interleaving of them |
| `BooksBalance` | a charge is paid up to its amount and says PAID just then, a void one stays void, the manager's totals add up; a meter bills no usage twice |
| `NothingIsLost` | a request is not deleted with its area; what was at a notice or an inspection when nobody was at it is there for good, however requests overlap, but for what a manager's text leaves out of a result; a result mentions every request that came of the inspection and is not struck out; a manager's request is not filed twice, a decision not undone by an edit of the text |
| `ServiceDatesHold` | the next service follows the last; one order per due date of an asset, in service at that moment |
| `TypeOK` | types, one for each family; for recurring charges, that every date reckoned is a day of its month |

## 3. Runs

The billing runs use one workspace and **two handlers**: the stale-read errors need one reader and one writer in between, and a third would only repeat one of them. Rows of different workspaces meet nowhere but in the lists of the sweep and of the cron. Days are few: `GraceDays`, `OverdueDays`, `SuspendDays`, `MonthDays` and `YearDays` are 5, 3, 7, 30 and 365 in the code and small numbers here; decisions only compare sums of them with the clock.

| Run | Question | Bounds | Distinct states |
|---|---|---|---|
| `billing_settle` | are charges settled, once acknowledged and in the end, when deliveries, replay, verification, retry and mock confirmation compete and the process or the database fails? | 1 payment, `MaxDay` 1, 1 fault, fair | 120 thousand |
| `billing_statuses` | what do the writers of the statuses leave behind? | 1 payment, `MaxDay` 2 (a period ends, grace runs out, a payment gets old), month 1, no faults | 1.4 million |
| `billing_plans` | does a plan come from a payment, in the row and in the cache? | 2 payments, 2 plans, clock stopped (plans do not depend on it) | 1.4 million |
| `billing_transitions` | does billing status move along the table only? **Violated** | 2 payments, `MaxDay` 2 | |
| `billing_suspended` | can a suspended workspace pay? **Violated** | 2 payments, `MaxDay` 2 | |
| `billing_idempotent` | does one charge move the renewal date once? **Violated** | 1 payment, `MaxDay` 2 | |
| `mail_outcomes` | is every mail delivered, kept or decided on, when sweeps overlap, answers are lost and the process or the database fails? | 2 letters, 2 sweeps, `Take` 1, `MaxAttempts` 3, 1 fault, fair | 179 thousand |
| `recurring_runs` | are the charges of a schedule posted, none left out and none forgotten, when runs overlap, start late or not at all, fail or die, and managers edit the schedule? | 1 schedule, 1 resident, 2 runs; a day of 1 hour, months of 3 and 2 days, quarter of 2 months; `Months` 3, `MaxHours` 1, 1 fault, fair | 629 thousand |
| `access_members` | do seats, invitations and memberships hold when two requests at a time add, change, remove and invite, and what do administrators leave of one another and of their sessions? | the desks members, invites and panel; 3 users, 1 seat, 1 address, 2 invitations, 2 codes; 2 administrators, 2 sessions, no reset links; clock to 2 for the invitations | 1.8 million |
| `access_sessions` | do passes, sessions, limits, password resets and owner codes hold between two requests? | the desks visitors, sessions, limits, panel and owners; 1 pass, 1 account, 1 device, 1 challenge, 2 kinds; 1 administrator, 1 session, 2 links, 3 passwords; an hour of 2; clock to 3 | 919 thousand |
| `premises_desks` | does each of the thirteen desks of the premises keep its rows in order with two requests or job runs in flight, cut short anywhere? | one or two rows of each table (three in the registry), clock to 2 | 1.1 million |
| `mail_backoff` | does a letter wait as long as the table of delays says? **Violated** | 1 letter, 1 sweep, `Take` 50, `MaxAttempts` 6 | |

`billing_settle` has one payment because the ledger's promise is made for each; two faults would only repeat the crash, for a handler that is lost and a handler that failed continue alike. Deadlock is not checked: customers may stop and the clock and the payments are bounded (`MaxDay`, `MaxPayments` with `RoomForPayment`, `MaxFaults`), so a run may end. Symmetry over handlers is used where no liveness is checked. `PromptHandlers` keeps `billing_transitions` to prompt handlers, so that its counterexample is the ordinary one and not a verification or a sweep that takes days.

In `mail_outcomes` two letters with `Take` 1 (50 in the code) make one wait behind the other; `MaxAttempts` 3 (6 in the code) leaves room for a row that is pending, one that is retrying, and one that an older sweep turns back; two sweeps are what the stale write needs. `mail_backoff` has the code's own numbers.

In `recurring_runs` a schedule is alone because the job treats each by itself, but for the order, which the model leaves open; one resident, because one `createMany` charges all or none. Months of two lengths make a day that only some of them have, four months let a quarter come round, and a day of one hour keeps them small: the lateness within the hour is what dates are sensitive to, and it is there. Frequencies are MONTHLY and QUARTERLY, on a given day or none; the others differ in the step alone, and the theorems are for all. `MaxHours` lets a run stretch over the hour in which the next one starts. The clock stops at `Months`, and the job goes on.

In the access and premises runs **two slots** are what every overlap here needs: one request that reads and one that writes in between; a third could only repeat one of the two. One row is enough where the rule is about one row, two where it compares rows (bookings, residents of a unit, invitations), three in the registry so that two marks can be removed at once. `CodeLife`, `InviteLife`, `DeviceLife`, `ChallengeLife`, `CacheLife`, `WalkInStay` and the windows of the jobs are one tick, so that they run out within `MaxTime`; `TokenLife` is 3 so that tokens outlive the revocation that must end them; `MaxAttempts` is 1 so that a code is burnt within two guesses. In `access_members` the clock stands still at the desks members and panel (`Timeless`): no rule about members depends on dates, and at the panel only the end of a session does, which its two rules there are not about. Two sessions are what one administrator needs to act on another who is signed in. The panel needs two administrators for what they do to one another; in `access_sessions` it has the time and the links, for which one account and one session are enough: three passwords (`MaxSecret`) are two resets, two links one after the other or, from two requests, side by side. `OwnerCap`, `OwnerGap` and `Hour` are 1, 1 and 2 (8, half a minute and an hour in the code), so that the gap runs out before the hour does and codes leave the count before the clock stops. `MaxRows`, `MaxCodes`, `MaxInvites`, `MaxChallenges`, `MaxHeld`, `MaxOrders`, `MaxFiled`, `MaxFollowUps` and `MaxRequests` bound tables that only grow: they are guards of creations and nothing else. When clock and tables are full and nobody has anything left to ask the run ends, so deadlock is not checked. Slots are symmetric, and no fairness is stated: these properties are all about safety.

**Fairness** (`FairSpec`, `billing_settle` only): weak fairness of `Continue(i)`, because Node resumes every request whose promise resolved; strong fairness of the webhook for a charge that has not been answered with 200, because Paystack repeats it until then. Nothing is assumed of customers, operators, timers or the clock.

In `mail_outcomes`, weak fairness of the steps of a call and of a sweep (a promise resolves), of a waiting row falling due (time passes), and of *some* sweep starting when rows are due (the timer fires). Nothing is assumed of what a provider or the database answers: a letter no provider ever takes ends as FAILED.

In `recurring_runs`, weak fairness of the clock, of *some* run of the job starting when one may (the timer fires), and of the steps of a run (a promise resolves or fails). A call may fail, but only `MaxFaults` times; no resident and no manager need do anything.

### What the violated runs show

- **`BillingTransitions`.** The sweep reads PAST_DUE and asserts PAST_DUE → SUSPENDED; a settlement commits ACTIVE; the sweep's update, by id alone (`billing.service.ts:916`), writes SUSPENDED. The row goes ACTIVE → SUSPENDED, which the table at line 24 forbids, and a workspace that has just paid is shut out.
- **`SuspendedCanPay`.** A checkout whose Paystack call failed leaves a pending row (line 380). The sweep takes it for a debt and suspends the workspace; `initPaystackPayment` then refuses it (line 329) while the notice says "Reactivate after payment" (line 941).
- **`SettlementIsIdempotent`.** The webhook and the success page both read the payment unpaid (lines 513–514). The second settlement moves the renewal date again.
- **`WaitsFollowTheTable`.** The comment above `backoffMins` promises 1, 5, 15 minutes and so on. A letter is parked with `attempts` 1 and one minute; the first retry that fails makes `attempts` 2 and takes entry 2, fifteen minutes. The five minutes are never used.

Findings that no run of their own shows, met while modelling; the passing runs make an exception for each, or speak only of what is left:

- A visitor who is inside past `validUntil` is scanned out as EXPIRED and can then be checked out no more, by scan or by hand (`visitors.service.ts:153`).
- A manager restored or added again is not counted against the seats (`auth.service.ts:423`, line 318), nor is one who accepts an invitation. `SeatsHold` excepts `unchecked`.
- A resident set ACTIVE again, and two rows of an upload naming one unit, leave two active residents (`apartment.service.ts:812`, `onboarding.service.ts:548`). `OneActivePerUnit` excepts `unlooked`.
- The reminder job writes OVERDUE and EXPIRING by id from the list it read at its start, over a payment or a termination made meanwhile (`scheduler.service.ts:405`, 445).
- A payment is checked against a sum read before its transaction: two at once pay more than is owed (`apartment.service.ts:1770`).
- The operations endpoint completes an estate inspection without its date (`operations.service.ts:501`), and reopening keeps the date of the resolution (`tenant.service.ts:400`).
- Two super admins who demote or deactivate each other at the same time leave none, and nothing but the database brings one back (`admin.service.ts:1184`).
- A sign-in under way while the password is reset opens its session after the reset has deleted all of them (`admin.service.ts:130`).
- The result of an inspection, where the requests that came of it are mentioned (`operations.service.ts:566`), is written over by the next text a manager sends (line 505; `estate-ops.service.ts:751`), mentions and all. `NothingIsLost` excepts what he leaves out (`struck`).
- A browser whose bearer token has been revoked but has not run out can still be remembered as a device (`auth.controller.ts:82`). `RevocationHolds` speaks of the devices remembered before the revocation.
- Clearing the interval of a machine leaves its next service date in place (`property.service.ts:1649`).
- The balances shown to a resident count void charges with the others (`property.service.ts:1420`, `tenant.service.ts:430`), unlike `getFinanceSummary`; `BooksBalance` is about one charge and its payments and about that summary, and claims nothing of these.

Another one: the comment at lines 41–42 says the statuses never drift from `workspaceStatusFor`. `reconcileWorkspaceBilling` computes the two fields separately, and `Pairs` lists the three further pairs it (and sign-up) can leave: PENDING_OTP with ACTIVE or PAST_DUE, PENDING_PAYMENT with CANCELLED.

## 4. Theorems

Proved with TLAPS for every value of the constants: any sets of workspaces, handlers, plans, letters, schedules, residents, sweeps and rows, any number of requests in flight, any bound. TLC evaluates the assumptions on each run:

- Billing, mail and recurring charges: `ParametersAssumption`, `PeriodsAssumption`, `CalendarAssumption`, `BoundsAssumption`, `OfferedAssumption`.
- Requests: there are finitely many slots and the clock has at least its first tick (`SlotsFinite`, `MaxTimeNat`). The counts of `SeatsHold`, `CodesAreRationed` and the usage of meters need the first.
- Limits, lives, gaps, windows and bounds are natural numbers, and amounts and readings too (`LimitNat`, `LivesAreNat`, `CodeLifeNat`, `OwnerCapNat`, `SeatsNat`, `AmountsArePositive`, `ReadingsAreNat`, `MaxOrdersNat` and the like); a limit of guesses or of codes is not zero, nor is the bound on rows of members or on passwords. A booking ends after it begins (`WindowsAreOrdered`).
- Names that mean nothing do not name anything: `SeatRowIsNoUser`, `NoUnitIsNone`, `NoPlateIsNoPlate`, `NobodyIsNotStaff`, `SendIsNoCharge`, `SendIsNoLease`. Subsets are subsets: `CheckedAreKinds`, `InviteesAreUsers`, `OwnerIsUser`, `TicketKindsKnown`. Nobody is invited as an owner (`InviteRolesOK`): `createTenantInvite` refuses it (`onboarding.service.ts:139`).

| Theorem | Module | Statement |
|---|---|---|
| `TypeCorrect` | BillingProofs | `Spec => []TypeOK` |
| `StatusesStayPaired` | BillingProofs | `Spec => []StatusesPaired` |
| `SettlementsAreCharged` | BillingLedgerProofs | `Spec => []SettledWasCharged` |
| `ProcessedAreSettled` | BillingLedgerProofs | `Spec => []ProcessedWasSettled` |
| `LedgerImplemented` | BillingLedgerProofs | `Spec => Ledger!LedgerSafety` |
| `OpenWorkspacesPaid` | BillingLedgerProofs | `Spec => []ActiveWasPaidFor` |
| `AccessHasAnEnd` | BillingLedgerProofs | `Spec => []PaidAccessEnds` |
| `PlansWereBought` | BillingLedgerProofs | `Spec => []PlanWasPaidFor` |
| `MailTypeCorrect` | MailProofs | `Spec => []TypeOK` |
| `VerdictsTrue` | MailProofs | `Spec => []VerdictsAreTrue` |
| `NoMailIsDropped` | MailProofs | `Spec => []NoMailDropped` |
| `RecurringTypeCorrect` | RecurringProofs | `Spec => []TypeOK` |
| `RunsCharged` | RecurringProofs | `Spec => []RunsWereCharged` |
| `NoMonthIsMissed` | RecurringProofs | `Spec => []EveryMonthCharged` |
| `LimitsRespected` | AccessProofs | `Spec => []LimitsHold` |
| `RevocationsHold` | AccessProofs | `Spec => []RevocationHolds` |
| `ChallengesSpentOnce` | AccessProofs | `Spec => []ChallengeSpentOnce` |
| `OwnerCodesStayApart` | AccessProofs | `Spec => []OwnerCodesApart` |
| `VisitsAreRecorded` | AdmissionProofs | `Spec => []VisitIsRecorded` |
| `EndedPassesStayEnded` | AdmissionProofs | `Spec => EndedPassLetsNobodyIn` |
| `ManagersHaveSeats` | AdmissionProofs | `Spec => []SeatsHold` |
| `InvitationsReplaceOneAnother` | AdmissionProofs | `Spec => []OneOpenInvite` |
| `InvitationsAdmitOnce` | AdmissionProofs | `Spec => InviteAdmitsOnce` |
| `CodesStayRationed` | AdmissionProofs | `Spec => []CodesAreRationed` |
| `AdministratorsRemain` | AdmissionProofs | `Spec => []SuperAdminRemains` |
| `SessionsOfThePanelAreCurrent` | AdmissionProofs | `Spec => []LogInsAreCurrent` |
| `AccessIsTyped` | AdmissionProofs | `Spec => []TypeOK` |
| `BookingsApart` | PremisesProofs | `Spec => []NoDoubleBooking` |
| `PrimariesAreOne` | PremisesProofs | `Spec => []OnePrimary` |
| `UnitsAreLetOnce` | PremisesProofs | `Spec => []OneActivePerUnit` |
| `UnitsSayWhoLivesThere` | PremisesProofs | `Spec => []OccupancyFollowsResidents` |
| `DoneWorkIsDated` | PremisesProofs | `Spec => []DoneIsStamped` |
| `ChargesAreCovered` | PremisesProofs | `BooksBalance`: a charge is paid up to its amount and says PAID just then |
| `VoidChargesStayVoid` | PremisesProofs | `BooksBalance`: `VoidStays` |
| `UsageIsBilledOnce` | PremisesProofs | `BooksBalance`: `UsageBilledOnce` |
| `RemindersGoOutOnce` | PremisesProofs | `Spec => []RemindedOnce` |
| `ServiceIsOnTime` | PremisesProofs | `Spec => ServiceDatesHold` |
| `NothingHandedInIsLost` | PremisesProofs | `Spec => NothingIsLost` |
| `TablesAreTyped` | PremisesProofs | `Spec => []TypeOK` |

**Types.** `TypeOK` is not inductive: a handler that writes `pay[h[i].p]` must hold the id of a payment. `TypeInv` adds what each handler remembers at each await (`Remembered`) and that the rows which exist name a workspace and a plan (`RowsInUse`). Rows are never deleted (`RowsGrow`), so what a handler remembers about them stays true while others run. The queries for the newest, oldest and last-paid payment need that a finite set of payments has such an element: `LargestValue` and `LeastNatural`, from the well-foundedness of the naturals.

**Paired statuses.** Writers either write both statuses from `WorkspaceStatusFor`, or compute them from the row they read. So `PairInv` adds that what a handler *has seen* was a known pair. `ReconciledPaired` goes through reconciliation's cases.

**Money.** When a settlement commits, nobody looks at the charge any more: the signature, the stored event or Paystack's answer was examined several awaits before. `LedgerInv` says what a handler has established at each await (`Established`) and in which order checkout, charge, event and settlement come (`InOrder`). No step takes back a payment, a charge, a grant or a settlement (`LedgerGrows`), so the facts still hold when the handler goes on; the retry that writes PENDING over PAID is harmless because it keeps `paidAt`.

**Refinement.** Under the two invariants each step maps to a step of the ledger: `Charge` to `ChargeCustomer`, `MockConfirmRead` to `Grant`, `FinalizeCommit` to `Settle`, `FixWrite` to `Forgive`, and all the others leave the ledger alone.

**Paid access.** A reconciliation writes a status, a plan and a date that it worked out of a row, a payment and a subscription read at three different awaits; a reader fills the cache with a plan it read before a settlement. `AccessInv` says what such a read is good for: not that it is still the row, but that it was true and cannot become false. A payment once settled stays so, and so do the plan it bought and an operator's word, so whatever a handler remembers (`AllKnow`) has the same warrant as the row it came from (`RowsGood`), and writing it back late is stale but never unpaid for. The renewal date is the same: a row that was read as ACTIVE has its date and a subscription its end, so whoever opens a workspace writes a date it found or makes one.

**Mail.** FAILED is written from an attempt count that a sweep may have read before other sweeps moved it, so `VerdictsAreTrue` needs a meaning for each count: `CountsAreTries` says that a waiting row with `attempts` n was retried in vain as number 2 to n, `ReadCountsAreTries` says it of the counts in the hands of the sweeps, and `OutcomesAreTrue` of the result of the retry just made. `refused` and `arrived` only grow, so what a stale sweep holds stays true and its late write turns a row back but never makes it lie. `DueRowsWait` keeps a row that has its verdict out of the queue.

That no mail is dropped needs nothing of this: every way `send` ends has delivered or parked its mail, and a parked row is never deleted.

**Recurring charges.** That every date is a day of its month rests on two facts of any calendar: no month is twice as long as another, so that a day too many for one month is a day of the next, and a week fits in a month (`DateIsInstant`, `NextRunIsInstant`). A run of the job records in `SweepAdvance` what it did in `SweepPost`, or found nobody to do it for; `RunsInHand` says so of every run at that step. Charges are never taken back and nobody joins those who were there all the time, so it holds however many other runs come between, and the last run to write `lastRunAt` is as right as the first.

**No month left out.** `EveryMonthCharged` is about the charges made, and what keeps them whole is a date it does not mention. `CourseInv` says where a schedule of the regular course stands: its next run is on the day of the month it was given (`RunsInTime`), it is not left behind by more than the hour that has just passed, and the months charged lie a step apart up to the month before `nextRunAt` (`MonthsInStep`), or up to it in the window between the posting of a run and its moving on (`Posted`). A run counts on from the minute it started in, so the lateness adds up to nothing only because the day is set anew each time. `OneRunAnHour` and `TodoKnown` say that a run which has a schedule on its list read it when it was due.

**Bookings and limits.** At a row outside `contested` there is one request at most (`AloneAt`; `BeginAlone` and `ProceedAlone` say it of every step a request takes). So what a request has read of such a row, and nobody can have changed since, is still true when it writes: the room its count has found (`RoomFound`), or the time no live booking takes. A deletion or a cancellation may come between, and only makes more room. `LimitsInv` and `BookingInv` are that, with what each request in flight may be; `contested` never loses a row, so the exception stays where it was once needed.

**Sessions** need no exception. `SessionsInv` orders three times of each account: of its last completed revocation, of the last update of its row, and now. A revocation that has touched the row and not yet deleted the devices has its time between the first two (`HalfRevoked`), and nothing moves any of them back. A token the guard accepts is at most a second older than the update, and so than the revocation; a remembered device is not older than the revocation, since a sign-in by device renews a row that is there and never makes one. For the challenges, whoever answers one took it from the cache in the step in which it began, so that no two hold the same (`SessionRequests`).

**One request at a row.** Most of what follows is the argument of the bookings, desk by desk: an invariant with what each request in flight may be, what it has found (`GateFound`, `AcceptFound`, `LogInFound`, `SuperLeft` and their like), and `AloneAt` for every row outside `contested`. What is particular to each:

- *Visits.* What a request is to write is worked out of the status it read; at a pass outside `contested` the status has not moved since, so the two stamps follow one another. `PassAfter` goes through the writes.
- *Seats.* `SeatsHold` compares a cardinality with the plan. A request that has counted is at `SeatRow` from the count to the write, so no other adds a manager; one who comes back uncounted is in `unchecked`, which he leaves when a seat is counted for him or when he is no manager any more.
- *Invitations.* Sending is two statements. `CreateFound` says that between them no invitation of the address and role is open, `AcceptFound` that whoever is on the way to accept one still has it as it was sent.
- *Rationed codes* have no exception for overlaps. The requests on their way to count a miss are themselves the slack: misses counted and misses to come stay below the limit and the number of slots, and reading a code that has reached its limit adds none (`CodesInv`). The hourly cap on the owner's codes is the same sum (`OwnerRationInv`), with codes that leave the hour.
- *Administrators.* An update looks at its actor in one step and at the account in another. With `OperatorsRow` uncontested no other update changes who may do what in between, so the actor is a super administrator still and not the one he demotes (`SuperLeft`). For the sessions, `CurrentOf` holds at an account at which no request has yet to drop them (`Dropping`).
- *Primary marks, occupancy.* A request cut short between its two statements leaves no mark at all, or a unit whose status is not that of its residents; the first harms nothing, the second is contested by `Cut`. Until then whoever owes a unit the copy of its residents is in flight there.
- *Done and dated.* `DoneIsStamped` holds in every interleaving because of which columns each handler writes back: none writes a status without the date or the row's own date with it (`Answers`). The invariant says so of what every request is going to write.
- *Charges, leases, orders.* A reminder was sent exactly while the log has it or while the run that sent it has not moved on; a run that dies between the two is `Cut`. A payment reads the sum and writes the status; both are of the same charge as long as nobody else is there.
- *Service.* What an update writes of a machine is worked out of what it read. A due date the job has served lies before the one the asset has now, so the job never opens a second order for it.
- *Handed in.* Two statements matter: a request is filed with the owner its area had when it was read, and a column of acknowledgements or of an inspection's result is written back whole. What is written back contains what is settled at the paper (`Extending`), whoever else is at it, for something is settled only when nobody is; a manager's text takes out of it what it leaves out (`ResultIsWritten`). At an inspection nobody contests, the result, or what the one conversion is going to write, is the set of requests converted and not struck (`InStep`).
- *Meters.* What a reading bills starts where the last value was, and at a meter nobody contests that is where the bill so far ends.

**Types of the desks.** `AccessIsTyped` and `TablesAreTyped` put these invariants together. Only the counts (`LimitsTyped`), the sessions (`SessionsTyped`) and the bounds of the two logs of `Invites` need one of their own: what a request has read and will write is typed too.

**Owner codes.** The transaction looks at the latest unused code only, yet the promise is about any two. `OwnersInv` adds that codes lie in the order of their time, none later than now, so that if the latest lies the gap back they all do (`GapOfAll`). That a set of codes has a latest is an induction the provers cannot do over all finite sets; `LatestExists` carries it along, one code at a time (`LatestOfOneMore`).

Each of these invariants is about one desk; at the others `desk` says that its tables do not move (`LimitsStayKept`, `SessionsStayKept`, `PanelStayKept` and their like).

**Only model-checked:** the liveness half of `ImplementsLedger`, `EveryLetterIsDecided` and `DueRunsAreMade`, for fairness is out of the prover's reach; and of `BooksBalance` that the totals of `getFinanceSummary` add up, for a sum over a finite set is an induction over data (its other three parts are theorems).

## 5. Plan

1. **Proofs**: the totals of `BooksBalance`, if the sum can be unfolded by a least counterexample, as `LeastNatural` stands in for an induction in billing. The theorems of access without `desk`: each follows from its own part of `Init` and `Next`.
2. **Billing, further**: starvation of the sweep at `SweepLimit`, the past-due branch skipped for old debts, as liveness.
3. **Onboarding**: the first creation of a workspace, the hourly cap on invitations. **Limits** with a plan that changes: `Billing`'s cache and `Limits` side by side.

## 6. Not modelled

- **Marketplace, AI, health, reports** hold no state whose steps interact. **Runtime configuration** checks variables at start and keeps nothing. `billing/service.ts` (`BillingDomainService`) is wired into no module.
- **Plan catalogue**: prices, which no modelled decision depends on.
- **Notifications and SMS**: rows written once and calls whose failure is logged. Mail, SMS and push providers are outside; the mail models take what they answer as a choice.
- **Of office, apartment, property and tenant**: messages under requests, community channels, the leaderboard, integration addresses, vendors and categories, public information: rows written once or lists without a rule.
- **Of estate operations**: inspection templates and emergency alerts, for the same reason.
- **Of auth and onboarding**: blocks assigned to staff, the stored permission policy and the table of permissions (data), the unit an invitation names, the hourly cap on invitations.
- **Of the scheduler**: the daily digest, onboarding reminders and overdue alerts, which only read and send.
- **Prisma** stands behind the row types, the keys, the locks and what a deletion does to rows that refer to the deleted one.
- **Of the administrators' panel**: plans and overrides of a workspace, broadcasts, technicians' applications, the erasure of a user: single writes or deletions no other rule reads. Which addresses may sign in is configuration. The rest is queries.
