# ReachInbox in TLA+

TLA+ modules, model-checking configurations and machine-checked proofs for the
email scheduling platform in `src/`. Paths below are relative to
`src/backend/src/` unless they start with `README`, `prisma` or `frontend`.

## 1. The system

### Components

| Component | State it keeps | Operations | Here |
|---|---|---|---|
| Worker (`worker/index.ts`) | the claimed row, the job it runs | `processEmailJob`, start, shutdown | `EmailDispatch` |
| Reconciliation (`worker/reconcile.ts`) | the list of rows it has read | read waiting rows, look up and add jobs | `EmailDispatch` |
| Queue (`lib/queue.ts`, BullMQ) | jobs by id, their state, attempts, stall counts, locks | add, hand out, complete, fail, stalled check, eviction | `EmailDispatch` |
| Campaign API (`api/routes/campaigns.ts`) | campaigns, rows | create and enqueue, cancel, read | `EmailDispatch`, `Compose` |
| Rate limiter (`lib/rateLimiter.ts`, Redis) | one expiring counter per campaign and hour | take a slot, time to the next hour | `RateLimiter`, `Deferral`, `EmailDispatch` |
| Email sender (`services/emailSender.ts`, SMTP) | `lastUsedAt` of the accounts | `selectSender`, `sendEmail` | `SenderSelection`; `EmailDispatch` (result only) |
| Sender accounts (`api/routes/senders.ts`) | accounts, `isActive` | add, deactivate, list | `SenderSelection`; `EmailDispatch` (any active or none) |
| HTTP server (`server.ts`) | open connections | start, shutdown; imports the worker | `EmailDispatch` (process life cycle) |
| Database (`prisma/schema.prisma`) | all tables | statements and transactions | `EmailDispatch` |
| Listing API (`api/routes/emails.ts`) | none; reads rows by offset | two lists, one row | `Listing` |
| Upload API (`api/routes/upload.ts`), validators | none | extract addresses, check a campaign | `Recipients`, `Compose` |
| Compose page, `RecipientUpload` (`frontend/`) | the fields, the recipients twice, problems, `submitting` | edit, paste, read a file, submit | `Compose`, `Recipients` |
| Scheduled and sent pages, `EmailTable` (`frontend/`) | page, rows, number of pages, `loading`, `error` | load, turn a page, retry | `Listing` |
| Auth, error handler (`api/middleware/`), `lib/api.ts` | lazy user row | verify, map errors, call | as calls that fail |
| Connections, config, logger, scripts, tests | singletons | | no |

### How they interact

`POST /api/campaigns` writes the campaign and one `SCHEDULED` row per recipient
in one transaction, and then adds one job per row to Redis; the two stores share
no transaction. A worker handles up to `concurrency` jobs at once. For each it
reads the campaign, claims the row (`SCHEDULED`/`RESCHEDULED` to `PROCESSING`, one
conditional UPDATE), takes a slot of the hour (Lua script), chooses a sender,
sends, and writes `SENT` and `sentCount` in one transaction. Without a slot the
row becomes `RESCHEDULED` and a job of a new id is added. After an error the row
goes back to `SCHEDULED`, or to `FAILED` on the job's last attempt, and the handler
throws so that BullMQ retries. `DELETE /api/campaigns/:id` cancels the campaign
and its waiting rows. At start a worker first looks for waiting rows without a
job. The API process runs a worker of its own (`server.ts:24`, although
`README.md:23-26` says it does not), and separate workers may run beside it.

In the browser, the compose page extracts addresses from pasted text or files,
keeps a copy of the box's result, mirrors some of the server's rules, and POSTs.
The two tables GET their pages from the listing API, which reads the rows that
API and workers change. `lib/api.ts` turns every failure into an exception, and
each page has a `finally` block that ends its waiting state.

### What is hard

- Postgres, Redis and SMTP are three systems without a common transaction, so a
  process that ends, or a call that fails, between two of them leaves them apart.
- Several handlers, several processes, a job and its redelivery, and the API
  interleave at every `await`.
- BullMQ ignores an add silently when the id exists, and redelivers a job whose
  lock was lost while the first handler still runs.
- A slot belongs to the hour in which it was asked for; the message may go out
  in the next.
- The tables page by offset through lists that change, with answers that may be
  late; files and answers arrive in the compose form after the user has gone on.
- The row, the counters, the job's attempts and the reschedule count are four
  accounts of the same history.

`PROJECT.json` lists these at their lines under `hazards`.

### What makes each component correct

- Claim: at any time at most one handler works on a row (`SingleOwner`).
- Delivery: no message is accepted twice (`AtMostOnce`); the status says whether
  it is out (`StatusTruthful`); terminal statuses are final (`TerminalStable`).
- Counters agree with rows (`CountersSound`).
- Queue and rows: no waiting row without a job (`NoOrphan`); rows whose job was
  never added are recovered (`EnqueueGapRecovered`).
- Cancellation: nothing is claimed afterwards (`NoClaimAfterCancel`).
- Progress: every email ends (`EventuallyTerminal`).
- Rate limiter: an hour's counter grants each slot once (`HourlyBound`), and
  refuses only when they are gone (`DenialJustified`).
- Deferral: an email waits for its time (`NeverEarly`) and is not put off for
  longer than the hours that the compose page announces (`DeferralsProjected`).
- Tables: rows belong to the page number under them (`RowsMatchPage`), an empty
  page is no false statement (`NothingHereYet`), few rows escape a reader
  (`WalkMisses`), and loading ends (`LoadSettles`).
- Compose: a draft is not sent twice unnoticed (`NoSilentDouble`), what is shown is
  what is posted (`SentWasShown`), totals are true (`TotalsTrue`), nothing that the
  server would take is held back (`NeverOverstrict`), the two parsers differ in two
  known ways only (`UploadDrift`), and submitting ends (`SubmitSettles`).
- Sender accounts: a deactivated account is hardly used any more
  (`DeactivationTakesEffect`); nobody sends without one (`TypeOK`).

## 2. The modules

| Module | What it is |
|---|---|
| `EmailLifecycle` | abstract specification: one email's life, without queue, workers or counters |
| `EmailDispatch` | the dispatcher: API, queue, workers, reconciliation, processes |
| `EmailDispatchProps` | its properties, and the refinement mapping to `EmailLifecycle` |
| `MCEmailDispatch` | small instances: fault budgets, symmetry |
| `EmailDispatch_proofs` | theorems about `EmailDispatch`: claims, deliveries, counters, the refinement |
| `EmailDispatchJobs_proofs` | theorems about the jobs of a row and what the queue owes it |
| `RateLimiter` | the rate limiter against the clock, and its properties |
| `MCRateLimiter`, `RateLimiter_proofs` | its instance and its theorems |
| `Deferral` | `RateLimiter` composed with the emails of a campaign, their times and their jobs' delays |
| `MCDeferral`, `Deferral_proofs` | its instance and its theorems |
| `Listing` | the two tables over lists that change; the listing API |
| `MCListing`, `Listing_proofs` | its instance and its theorems |
| `Recipients` | from a text to addresses and rows, without state |
| `Compose` | the compose form, its POSTs and the campaigns they make |
| `MCCompose`, `Compose_proofs` | its instance and its theorems |
| `SenderSelection` | the accounts of a user and the workers that choose among them |
| `MCSenderSelection`, `SenderSelection_proofs` | its instance and its theorems |
| `CardinalityLemmas` | how one element changes the size of a finite set, and induction on the naturals for sets; used by the proofs |

### EmailDispatch

One action is the code between two awaits: each database statement, Redis call
and SMTP call is a step, and any step of another handler, process or user may
come in between. `pc[s]` names the statement handler `s` will run next:

| `pc` | code (`worker/index.ts`) | actions |
|---|---|---|
| `lookup` | 23-28 read the campaign | `ReadCampaign` |
| `cancelRow` | 29-34 cancel a waiting row | `CancelRow` |
| `claim` | 39-49 conditional UPDATE | `Claim` |
| `limit` | 52 rate limit | `CheckLimit` |
| `defer`, `requeue` | 59-62, 66-70 | `Defer`, `Requeue` |
| `sender`, `noSender` | 77, 79-89 | `SelectSender`, `NoSender` |
| `send` | 92-101 | `Send`, `SendFails`, `SendReplyLost` |
| `record` | 103-119 transaction | `Record`, `RecordFails` |
| `catch`, `countFail` | 130-137, 139-144 | `Catch`, `CountFail` |
| `done`, `throw` | return, throw | `Complete`, `FailJob` |

Any statement may fail (`DbFails`, `RedisFails`); a failing statement has no
effect, except the `SENT` transaction, which may fail after its commit. A failure
outside the `try` leaves the row as it is.

Processes go `down`, `starting`, `reconciling`, `up`, `closing`. `Crash` may happen
in each. A `closing` process may end at any moment: `server.ts:117-124` exits when
the HTTP server has closed, without waiting for handlers (a worker process
without the server does wait; that is one of the behaviours). A signal before
the worker is `up` is covered by `Crash`.

Abstractions:

- *Time.* Only the rate limiter's hour is modelled: `Tick` starts the next. A job
  is `queued` when it may run within the window (BullMQ's wait list, a retry
  backoff, a start delay that ends), `deferred` when it waits for a later
  one. `nextWindow` is the set of rows whose `scheduledAt` lies in a later window.
- *Enqueue order.* A POST enqueues its rows in the order of `scheduledAt`; the model
  takes any order. A failing `findMany` before the loop is the case in which
  every enqueue fails.
- *Reconciliation.* The lookup and the add for one row are one step. Between them
  only the API's own add of the base job could change the answer, and that add
  and the recovery job's do not affect each other. Recovery ids carry a
  timestamp and are taken to be fresh.
- *SMTP.* `delivered` counts the messages the server accepted.
- *Retry errors.* Which exception a handler throws does not matter.

### EmailLifecycle

`waiting`, `claimed`, `handed`, `sent`, `failed`, `cancelled`. A claim may be put
back or given up only before the message is handed over; from `handed` the only
way is `sent`. The mapping (`mail` in `EmailDispatchProps`) reads a `PROCESSING` row
as `claimed` or `handed` by whether the server has accepted the message.

### RateLimiter

`EmailDispatch` names the key and runs the script in one step and in the current
window. `RateLimiter` drops the rest of the dispatcher and keeps what that hides:
the key is named (`GetKey`), the script runs later (`Eval`), the message goes out
later still (`Send`), with the clock advancing in between, and the key expires one
hour after its first INCR. `onTime` and `late` count the messages of an hour by
whether they were sent under its own key.

### Deferral

Extends `RateLimiter`; every step of a worker is a step of `RateLimiter` joined to
what it does to the email in hand (`DeferralImplementsLimiter`), so all that is
proved of the limiter holds here. `scheduledAt` is the row's column, `due` the time
the waiting job may run, `count` the job's `rescheduleCount`.

| Action | Code |
|---|---|
| `Enqueue` | the enqueue loop, `api/routes/campaigns.ts:79-96`; reconciliation computes the same delay |
| `Take` | claim, `worker/index.ts:39-52`, to the naming of the key |
| `AskLimit` | the script |
| `Defer`, `Requeue` | `worker/index.ts:55-62` and 66-70: two writes, with the clock moving in between |
| `Deliver`, `Fail` | 76-148: the slot is spent, on a message or on a failed attempt |

A retry after a failure is due at once: the backoff is seconds, a tick is a part
of an hour. Restarts and failing calls are the subject of `EmailDispatch`.

### Listing

One user, one tab at a time. `group` and `key` are the database: the list whose
statuses a row has, and its place in that list's order, smaller first (for the
sent list, a later `sentAt` has a smaller key, and rows without one share key 0, since
Postgres puts NULL first in a descending order). A request reads rows (`Find`)
and count (`Count`) in two steps in any order, and is answered (`Answer`) or fails
(`Fail`) later. `Firsts` and `PageOf` are the query: rows of equal key come in any
order. `Screen` is what `TableStates` and the table's condition render; the
buttons and "Try again" are available on their screens only. `missed` collects
what the user has not been shown.

### Recipients and Compose

A text is a sequence of tokens, and a token is a mailbox (a kind and a number), the
case it is spelled in, and whether it is bare or has more around the address, as
`mailto:` and a trailing digit have. Four checks meet an address: the regular
expression of the box, that of the upload endpoint (the same but for escapes),
validator's `isEmail` and zod's `email()`. The kinds are what they tell apart:

| Kind | Example | Regular expressions | `isEmail` | zod |
|---|---|---|---|---|
| `plain` | `a@foo.com` | yes | yes | yes |
| `zod` | `a@foo-.com`; 65 characters before the `@` | yes | no | yes |
| `validator` | `a%b@foo.com` | yes | yes | no |
| `loose` | `a..b@foo.com` | yes | no | no |
| `broken`, `word` | `a@foo`; `hello` | no | no | no |

The box asks the regular expression for the whole token (`Valid`), the endpoint cuts
the address out (`Match`) and asks `isEmail`, and the campaign API asks zod. A token has
one address at most; that one without a delimiter between holds two
(`a@foo.com|b@foo.com`) is left out.

In `Compose`, `Edit` is any change of the fields, with the memoised list of problems
computed anew only when a field that `useMemo` names has changed. `Handle` is the
box's callback, which `Paste` calls at once and `Read` when a file's text arrives.
A press of the button (`Submit`) makes a request; `Serve` is the whole handler of the
server; `Succeed`, `Refuse` and `GiveUp` are what the browser sees of it. `GiveUp`
covers a missing token, a lost request, a request that is still on its way (it may be
served later), and a lost answer or a server error after the commit. Length
limits of subject, body and list are not modelled, nor is leaving the page.

### SenderSelection

`EmailDispatch` only asks whether the user has an active account.
`SenderSelection` has the accounts of one user (users share none) and takes
`selectSender` apart: `Find` is the `findFirst`, `Stamp` the `new Date()`,
`Commit` the update that becomes visible with the commit, `Abort` a transaction that
fails, and `Send` the SMTP conversation with the credentials that were read. The
transaction is READ COMMITTED, so another worker's steps and the accounts API come
in between. Among accounts with the same `lastUsedAt` any may be returned. There
is no step that activates an account again, because no code does it. A handler's
own selections carry different time stamps, since it sends a message between
them; the stamps of different handlers may be equal. `tardy` counts, per
account, the messages sent through it after its deactivation.

## 3. The runs

| Run | Instance | Shows |
|---|---|---|
| `dispatch_safety` | 2 processes, 1 email; one crash, restart, Redis failure, SMTP rejection, sender change, cancellation | `AtMostOnce`, `StatusTruthful`, `CountersSound`, `TerminalStable`, `ImplementsLifecycle` |
| `dispatch_claim` | 2 processes, 1 email; one database failure, lost reply, lost lock, eviction, crash, restart | `TypeOK`, `SingleOwner` |
| `dispatch_normal` | 1 process, 2 handlers, 2 emails, 1 slot per window; two rejections, a cancellation; fairness | `NoOrphan`, `NoClaimAfterCancel`, `EventuallyTerminal` |
| `dispatch_recovery` | 1 process, 2 emails; a failing enqueue, a rejection, a shutdown, a restart; fairness | `EnqueueGapRecovered` |
| `deferral` | 3 emails, 2 workers, limit 1, 3 hours of 2 ticks, spacing 0 or 1 tick; one failed attempt | `DeferralTypeOK`, `DeferralsProjected`, `NeverEarly`; of the limiter `TypeOK`, `HourlyBound`, `DenialJustified` |
| `listing` | 3 emails, pages of 1 row, 2 changes while a tab is open; fairness | `TypeOK`, `RowsMatchPage`, `NothingHereYet`, `WalkMisses`, `LoadSettles` |
| `compose` | 4 texts, 4 settings, 2 drafts, 2 presses, one file at a time; fairness | `TypeOK`, `NoSilentDouble`, `TotalsTrue`, `SentWasShown`, `NeverOverstrict`, `UploadDrift`, `SubmitSettles` |
| `sender_selection` | 2 accounts, 2 workers, 4 further ticks of the clock | `TypeOK`, `DeactivationTakesEffect` |
| `dispatch_duplicate` | one failing database statement | `AtMostOnce` is violated |
| `dispatch_lost` | one shutdown and restart; fairness | `NeverLost` is violated |
| `dispatch_dropped` | two shutdowns and restarts, no fault | `DeferredNotDropped` is violated |
| `rate_cap` | the limiter alone: 2 workers, limit 2, 3 hours of 2 ticks | `HourlyCap` is violated |

*Bounds.* `Budget` says how often each kind of fault or user action may happen;
every run names its own in `MCEmailDispatch`. Two processes with one handler
each are the smallest system in which a job and its redelivery, or two jobs of
one row, run side by side across a crash; rows do not share state except the
campaign's counters, slots and status, for which `dispatch_normal` has two emails
that compete for one slot. `Attempts = 2` has a first and a final attempt;
`MaxPerHour = 1` makes the second email of a window the one that is deferred.
`MaxReschedules` bounds the ids `<row>-r<n>`: a handler that would exceed it waits
for ever. In `dispatch_normal` it is 4, more than two emails and two rejections can
reach under fairness, so that no email stops because of the bound; in the
safety runs the bound only cuts behaviours. The theorems have none of these
bounds but `MaxReschedules` and `Budget`, which are arbitrary constants there.
`sender_selection` needs two workers, so that one holds what the other's user has
just deactivated, and two accounts, so that a replacement exists; five instants
let each worker select twice at different times. `LastTime` stops the clock and
in the end the workers, which is why the run does not check for deadlock.

`deferral`: a limit of one and three emails make one email lose two races; three hours
are the two deferrals and the hour after; two workers are needed for a
late message and for two emails held at a time. The clock stops in the last hour,
and workers with it. `listing`: pages of one row over three rows have a first, a
middle and a last page, and with two changes a page past the end; two keys and
the key 0 give orders with and without ties. Changes are counted from the opening
of a tab, so they bound what happens to one reader and not how the list got there.
`compose`: the texts hold every kind of token, three kinds also wrapped, two spellings
of one mailbox, and a blank text; on one both readers agree, on one each finds what the
other does not, on one the box lists what the endpoint refuses; the settings lie at the lower bounds, at the upper bounds, and
outside of each; two presses are the least that can make two campaigns of a draft.

*Faults apart.* `dispatch_safety` leaves out the failing database and the lost SMTP
reply, because `dispatch_duplicate` shows what a failing database does, and because after
a lost reply a second delivery is unavoidable. `dispatch_claim` has both.

*Fairness* (`Fairness`, `SupervisedSpec`). Weak fairness of a running handler's next
statement (the event loop and the awaited calls return), of handing out a due
job to an idle handler, of the stalled check, of the enqueue loop, of
reconciliation and of the clock: each is a loop or a timer of Node.js, BullMQ or
the machine. There is none on faults, users, shutdowns and restarts.
`SupervisedSpec` adds that a process that is told to stop ends and that a process
that is down is started again, as the hosting platform does; it is used only
where the question is what happens after a restart. `Listing` has weak fairness of
the server and the network together: a request is served and answered, or fails, in
the end; `Compose` the same for its requests. There is none on the user, and none on
what others do to the rows. `LoadSettles` therefore speaks of a user who
does not open tabs for ever: each opening drops the request that was under way.

### Findings

Each is a violation run; the counterexample is the evidence.

1. `dispatch_duplicate`. The `SENT` transaction (`worker/index.ts:103`) is inside
   the `try` of the SMTP call. When it throws, the catch block puts the row back
   and the retry sends again. `README.md:106-107` and `README.md:113-116` promise
   at-most-once.
2. `dispatch_lost`. A process that ends between the claim (`worker/index.ts:39`)
   and the send leaves the row `PROCESSING`, undelivered, for ever: redelivery
   finds nothing to claim, and reconciliation does not look at such rows. A
   graceful shutdown is enough. `README.md:3-5` promises that restarts lose
   nothing.
3. `dispatch_dropped`. Reconciliation looks up the base id only
   (`worker/reconcile.ts:43`) and adds a job without `rescheduleCount`. With two jobs
   for one row, the later add under `<row>-r1` meets a retained id and is ignored;
   the row stays `RESCHEDULED` without a job until another restart.
   `README.md:73`: "Over-limit emails are never dropped."
4. `rate_cap`. A slot of hour h used in hour h+1 comes on top of that hour's limit
   (`lib/rateLimiter.ts:56`); `HourlyBound` says by how much.
   `prisma/schema.prisma:118`: "Maximum emails per hour (per this campaign)".

### Observed, without a run

What the modules show and no doc contradicts, or what a doc concedes:

- `selectSender` does not keep two workers from reading the same account: the
  transaction is READ COMMITTED and locks no row when it reads. The comment at
  `services/emailSender.ts:81-83` says that it prevents this, and that correctness
  does not need it; `DeactivationTakesEffect` and `AtMostOnce` indeed do not.
- All emails deferred for the first time get the same stagger (`worker/index.ts:55-56`
  counts per email), where `README.md:83-85` describes one that spreads them.
  They race; `DeferralsProjected` says that the race starves nobody.
- The spacing of `README.md:58-63` holds for the planned times. After a backlog or a
  deferral, emails that are due go out as fast as the workers and the limit allow.
  The projection of the compose page likewise ignores the spacing
  (`frontend/app/dashboard/page.tsx:47`).
- The client's mirror of the rules (`frontend/app/dashboard/page.tsx:29`) is weaker than
  the server's: a delay over 300 s, an hourly limit over 10000, a fractional number, and
  one address that zod refuses each make the server refuse the whole campaign.
  `NeverOverstrict` is the direction that holds. The list of problems is also not
  refreshed by time alone, so the start time may have become too early.
- Box, endpoint and API disagree about unusual addresses. One that zod takes and
  `isEmail` refuses (`a@foo-.com`) is listed by the box and accepted with the campaign,
  but the endpoint counts it as invalid (`api/routes/upload.ts:87`). One that `isEmail`
  takes and zod refuses (`a%b@foo.com`) is listed by both, and the server then refuses the
  whole campaign. `UploadDrift` is what remains true.
- While a POST is under way the form can be edited, and its success empties the
  form. The upload box goes on showing recipients that the form no longer has.
  A file that is read late replaces what was pasted meanwhile.
- An error shown after the commit (a lost answer, a failing `findMany` at
  `api/routes/campaigns.ts:70`) invites a second press, and there is no idempotency
  key: `NoSilentDouble` cannot be had without its premise.
- A client other than the page can post two spellings of one mailbox, or duplicates, and
  gets two rows, or a `totalRecipients` above the number of rows; `TotalsTrue` rests on
  `extractEmails`.
- A page past the end of a list that has shrunk shows "Nothing here yet" and no
  way back but the tab. `orderBy` names one column: rows with equal times, and all
  rows without `sentAt`, may come in another order on the next page.

## 4. The proofs

Checked by TLAPS for all values of the constants: any number of processes,
handlers, emails and campaigns, any limits, any texts, any budgets except where a
theorem assumes one to be zero. Every invariant and every action property of the
passing runs has its theorem; what is left to TLC is liveness.

### Assumptions

On constants, in the modules that declare them and evaluated by TLC in the runs:
types, and two more. `FinitenessAssumption`: emails and processes are finite,
which counting rows needs. `TextsAssumption`: texts are finite sequences
of tokens.

On faults, in the theorems about `EmailDispatch` and nowhere else. A budget is the
number of times a fault may happen, so a budget of zero is the system without it:

| Theorem | Assumed never to happen | Why |
|---|---|---|
| `TypeCorrect`, `ExclusiveClaim`, `FailuresNeverOvercounted` | nothing | |
| `TerminalIsStable`, `CountersAgree` | a failing database statement (`db`) | the `SENT` transaction may fail after its commit, and the catch block then reopens a `SENT` row (finding 1) |
| `DeliveredAtMostOnce`, `StatusIsTruthful`, `DispatchImplementsLifecycle` | `db`, and a lost SMTP reply (`ack`) | a handler cannot know that a message whose reply is lost was accepted |
| `ClaimsRespectCancel` | `crash`, `shutdown`, a lost lock (`lock`) | they bring a second job or a second handler for a row; the argument rests on there being one |
| `NoneStranded`, `DeferredKept` | these three, and failing calls: `db`, `redis`, `enqueue` | a process that ends between the commit and the enqueue, a failing enqueue, or a call that fails on a job's last attempt leaves a row without a job; the first three also bring the second jobs of finding 3 |

SMTP rejections, missing senders, cancellations, evictions and restarts remain as
frequent as one likes in every theorem; crashes, redeliveries, lost locks and
duplicate jobs in all but the last two rows of the table.

### EmailDispatch_proofs

- `TypeCorrect`: `TypeOK` is inductive as it stands.
- `ExclusiveClaim`: the inductive invariant `ClaimInv` adds to `SingleOwner` that no
  row exists without its campaign (`RowsWithCampaign`): without it, a new
  campaign's transaction could overwrite the status of a row under a handler.
- `DeliveredAtMostOnce`, `StatusIsTruthful`: from `DeliveryInv`, which relates each
  row's `delivered` to its status and, for a `PROCESSING` row, to the step of
  the one handler that owns it (nothing delivered before `record`, one message at
  `record`). `ClaimInv` supplies that there is only one owner.
- `FailuresNeverOvercounted`: `failedCount` plus the handlers that are still to increment it
  (`Uncounted`) never exceeds the `FAILED` rows. The sum is what is inductive: `Catch`
  makes a row `FAILED` and its handler one of the uncounted, `CountFail` moves one
  from the set to the counter, a crash only removes from the set.
- `CountersAgree`: in addition `sentCount` is exact, since row and counter change in
  one transaction and the row's owner is the only one who can count it.
- `TerminalIsStable`: every step that writes a status either requires a waiting
  row or is taken by its owner, whose row is `PROCESSING`.
- `DispatchImplementsLifecycle`: every action maps to one action of
  `EmailLifecycle` or to a stutter; `RefineInv` adds what a process
  remembers of a campaign (`CampaignMemory`): one seen cancelled stays so, which
  `CancelRow` needs to be a `Drop`.

### EmailDispatchJobs_proofs

The inductive invariant `JobInv` says that a row has one job at a time: an active
job has one handler, which holds its lock (`Held`); the API enqueues a row once and
nobody before it (`NewRows`); of the jobs that wait and the handlers that work, one
is for the row (`OneJob`); and the reschedule numbers after the current one are
unused (`NumbersFresh`), so that the next deferral's add is not ignored as a
repetition. Its theorems:

- `ClaimsRespectCancel`: the campaign is read before the claim and not with it; what
  makes it right is that the cancellation takes the waiting rows along, so a row
  that is claimed later was not waiting then.
- `NoneStranded`: every step that takes a job away leaves its handler or a new job;
  every step that leaves a handler without a job ends the row or adds one.
- `DeferredKept`, a corollary: what `README.md:73` promises, where finding 3 needs a
  restart.

### RateLimiter_proofs

`HourlyBounded` and `DenialIsJustified`, from `SlotInv`. Its parts: no key is older than
its hour (`Chronology`); hence the current hour's key, once set, is alive
(`CurrentKey`), and its value covers the messages sent under it and the slots still
held (`CurrentSlots`); late messages come from workers that were under way when the
hour began, each at most once (`LateSlots`).

### Deferral_proofs

- `DeferralImplementsLimiter` maps each step of `DeferralNext` to a step of the limiter
  or a stutter, and carries `HourlyBounded` and `SlotInv` over.
- `DeferralTypeCorrect` has the ownership of emails in its invariant: a worker that is
  not idle holds an email, an email that is held has one holder.
- `NeverAttemptedEarly` needs that a waiting job is never due before its row's time;
  during a deferral, between the two writes, that the delay in the worker's hands
  still reaches that far.
- `DeferralsAsProjected`: an email with count c that may be asked for a slot in hour n
  at the earliest has seen c full hours before n, and these are paid:
  c times `MaxPerHour`, and the slots still shown by the counters of the hours from n on,
  together do not exceed what was spent (`ProjectedInv`). The bound alone is not inductive,
  because when an hour fills up its slots must not have been claimed by an
  earlier deferral. The slots of the later hours are a set of pairs (hour, number)
  and its cardinality stands for a sum over hours.

### Listing_proofs

- `ListingTypeCorrect`: `TypeOK` is the types and `InFlight`, that a component that loads
  awaits one request, which is for its page, and one that does not awaits none. The
  guards that hide the buttons are what preserves it.
- `RowsAlwaysMatch` rests on `InFlight`: the answer that arrives is for the page in the
  component.
- `EmptyIsTrue`: as long as the list has not changed, or where it cannot shrink (ended
  emails stay), every page up to the number that the component was told
  begins within the list (`PagingInv`), so only an empty list has an empty page.
- `WalkMissesFew`: unless rows tie, of the rows that belong before the page being shown
  no more are missed than the list has changed (`Skipped`), and the same holds of what an
  open request has read (`Found`). A change of one row moves at most one other row
  across the border of a page (`Displace`, `Trade`); this is where the order of keys enters,
  and what fails with ties. When the last page is reached, the rows before its end
  are all rows.

### Compose_proofs

- `NeverSilentlyDoubled` from `PressInv`: every request that is awaited is
  the last press while the form is submitting, every other one has an error; hence
  whenever the button can be pressed, each earlier press of the draft in the form, a
  request or a campaign by now, has its error.
- `AlwaysSentAsShown` is inductive as it stands.
- `UploadDriftKnown`: both readers fold over the tokens of a text. The proof shows
  that the fold exists and is unique, and then, by induction on the tokens read,
  that each result stays what `BoxSays` and `UploadSays` say of it: every address of the
  box that `isEmail` takes has been found by the endpoint, and what the endpoint has found is
  on the box's list or was cut out of a longer token read so far. The library's
  induction theorems cannot be instantiated here, so induction is `SetInduction` of
  `CardinalityLemmas`, for the set of lengths for which the claim holds.
- `TotalsAlwaysTrue`: what the box lists names no mailbox twice, and a request carries
  such a list from the form to the server (`RowsInv`).
- `FormNeverOverstrict`: the problems on record are a subset of those that the fields
  have now (`Standing`). Not all of them: the start time may have become a problem since.
- `ComposeTypeCorrect`: from these, with the counters and requests in their ranges (`FormOK`).

### SenderSelection_proofs

`SenderTypeCorrect`, and `DeactivationEffective` from
`TardyInv`: for an account that is no longer active, the messages sent since plus
the workers that hold it number at most `Cardinality(Workers)`. The bound alone
is not inductive; the sum is, because `Send` moves one worker from the second
term to the first, and an inactive account gets no new holder.

### Only model-checked

The liveness properties `EventuallyTerminal`, `EnqueueGapRecovered`, `LoadSettles` and
`SubmitSettles`: TLAPS has no ENABLED, and so no proofs from fairness. The inductive
invariants were checked by TLC on the runs' instances before they were proved.

## 5. Not modelled, and the plan

Not modelled: the characters of texts (regular expressions, mail bodies, markup),
token verification, the request limiters of express, logging, configuration,
development scripts, and the read endpoints of campaigns, which no page calls.
PAUSED and COMPLETED campaigns: no code writes these statuses. Availability of
the API process itself.

A property that does not hold, and that nothing promises: a row that alternates
between an SMTP error and a deferral gets a fresh job, and so fresh attempts, at
each deferral, and may never reach `FAILED`.

Done, in this order: `EmailLifecycle`, `EmailDispatch` and its properties, runs and
proofs, `RateLimiter` and `SenderSelection` with their proofs, `Deferral`, `Listing`,
`Recipients` and `Compose`, and the proofs of all their invariants and action
properties. What would add most:

1. `ClaimsRespectCancel` under crashes, shutdowns and lost locks. The run
   `dispatch_normal` has none of them either; a run with them comes first.
2. `CountersAgree` and `TerminalIsStable` with failing statements other than the
   `SENT` transaction: the model counts all of them in one budget.
3. What remains of `DeliveredAtMostOnce` when faults do happen: a bound on the copies of a
   message in terms of the failed statements and lost replies.

How evenly `selectSender` spreads the load is not stated as a property: with equal
time stamps and stale writes of `lastUsedAt`, no simple bound on how often one
account overtakes another holds, and nothing promises one.
