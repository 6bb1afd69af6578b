# UniPush in TLA+

UniPush accepts a message over HTTP, splits it into one delivery per target
channel, queues one job per delivery in Redis (through arq), and lets workers
send each delivery to a webhook with retries, a dead letter, a manual retry and
a periodic repair of stuck rows. The server is the Python program under `app/`
(FastAPI, SQLAlchemy async sessions, arq); `web/` is its console, a React client
(TanStack Query, React Router) in which keys, channels, groups, users and
messages are managed.

This directory models both. `PROJECT.json` holds the list of components,
the runs, the mutants that show each property can fail, the map from
definitions to source lines, the hazards and the theorems.

## 1. Inventory

| part | state | operations | talks to |
|---|---|---|---|
| Push acceptance (`routes/push.py`, `enqueue_message`) | rows of `messages`, `deliveries`; key counter in Redis | accept, deduplicate, refuse | database, Redis counter, job queue |
| Job queue (arq) | due jobs, deferred jobs | enqueue, enqueue later, run, run again after a crash, drop after an exception | workers, API |
| Worker (`process_delivery`, `apply_delivery_attempt`) | a session's rows in memory | load, skip, reject, defer, send, record, reschedule | database, queue, providers |
| Message status (`update_message_status`) | `messages.status` | derive from the deliveries, commit | called by worker, manual retry, repair |
| Manual retry (`retry_failed_delivery`) | a session's row in memory | load, requeue, enqueue | database, queue |
| Repair (`repair_stale_deliveries`) | a session's rows in memory | select stale rows, requeue, enqueue | database, queue |
| Retention (`cleanup_expired_messages`) | none | delete old messages | database |
| Channel adapters (`adapters.py`) | none | build, sign, send, classify the answer | providers |
| Rate limits (`rate_limit.py`) | one Redis counter per key, channel or login, per window | take a slot | push acceptance, worker, login |
| Push keys (`push_keys.py`) | keys, their bound channels, default channel | create, update, rotate, delete, resolve | channels, groups, messages |
| Channels, groups, users (`services/*.py`) | rows, memberships, permissions | create, update, link, unlink, soft-delete, test | push keys |
| Sessions (`routes/auth.py`, `deps.py`) | `token_version`, password hash | log in, check a token, change the password | users, login limit |
| Dashboard, metrics, exports, audit | counters; an append-only table | count, list, append | database |
| Console: session (`useAuth.ts`, `App.tsx`, `Layout.tsx`, `LoginPage`, `ProfilePage`) | token in `localStorage`, the `["me"]` query, the route | log in, log out, guard, save the profile | sessions, the other tabs |
| Console: push keys, channels, groups, users (one page each) | query cache, `useState` of form and dialogs, mutations in flight | open, edit, save, delete, rotate, tick, test | the handlers above |
| Console: lists (six pages) | page number, filters, one query per page and filter | filter, page, reset | the list handlers |
| Console: message detail | one query, retry and replay mutations | retry, replay, refetch | manual retry, replay |
| Console: overview | one query per panel, range of days, charts loaded late | choose a range, poll, refetch | dashboard handlers |

What is hard here:

- **Concurrency without locks.** No row is locked or versioned. A session keeps
  the rows it loaded (`expire_on_commit=False`) and a commit updates only the
  columns it changed, so two sessions interleave column by column. A worker
  claims nothing: `SENDING` is a mark that no other job looks at.
- **Failure between two commits.** The row is committed first and the job is
  enqueued afterwards, everywhere. A crash in between loses the job; only the
  repair brings it back, and it can only see rows in the shapes it asks for.
- **At-least-once jobs.** arq runs a job again when its worker died, and drops
  it when it raised.
- **Timing.** The last retry delay (600 s) is longer than the stale cutoff
  (300 s), so the repair and a job that is due race for one row. The counters of
  the limits expire by Redis's clock and are named by another.
- **Aggregation.** A message's status is derived from several rows that
  different sessions write.
- **The console works on copies.** A form is filled from a cached row and sends
  every field; what it showed may be old, its answer may be late, lost, or meet a
  page that has moved on to another row; one token is shared by all tabs.

What makes each part correct:

- worker, queue and repair: a delivery always has someone to come back to it
  until it is final; attempts are counted truthfully; it is given up only after
  the whole schedule or a refusal; it is not sent again once acknowledged, as
  far as the code can know. `Outbox` says the same without rows and jobs;
- message status: success is claimed only when it is true, and at rest the
  status is that of the deliveries;
- push acceptance: one message per idempotency key, nothing accepted for a key
  that was disabled before;
- limits: no more slots per window than the limit, and no fewer;
- push keys and permissions: the default channel is one of the bound ones, and
  what is bound was authorised;
- a page: a save changes what the user touched and nothing else; what is shown is
  what was asked for; a secret shown once is the one that works; a failure is
  retried once;
- sessions: a changed password ends earlier sessions; a tab shows the user whose
  token it sends; a login leads into the console;
- retention and counters: what is deleted leaves nothing that is still counted.

## 2. Modules

| module | what it models | composed of |
|---|---|---|
| `Delivery`, `MCDelivery` | worker, queue, manual retry, repair, message status, faults, time | - |
| `Outbox` | what the engine promises of a delivery: the abstract specification of `Delivery` | - |
| `DeliveryProofs` | type correctness and three safety invariants, for all constants | `Delivery` |
| `OutboxProofs` | `Delivery` implements `Outbox` (at least once), for all constants | `DeliveryProofs` |
| `ExactlyOnceProofs` | without faults `Delivery` implements `Outbox` with `Exact`, and the fault-free invariants, for all other constants | `OutboxProofs` |
| `Push`, `MCPush` | `enqueue_message` up to its answer: idempotency, targets, replay, against updates and deletion of the key and changes of channels | - |
| `PushProofs` | type correctness and the safety properties of `Push`, for all constants | `Push` |
| `Mutations` | requests of a page: sent, served, answered, settled, lost, left behind | - |
| `PushKeysPage`, `ChannelsPage`, `GroupsPage`, `UsersPage` | the four pages that edit rows, and their handlers | `Mutations` |
| `MessageDetailPage`, `ListPages`, `DashboardPage` | retry and replay; the six tables; the overview | `Mutations` |
| `Session` | tokens, versions, the `["me"]` query, guards, login, logout, profile | `Mutations` |
| `RateLimit` | the counter script, its names and expiry, its three kinds of callers | - |
| `LimitProofs` | the three properties of the limits, for all constants | `RateLimit` |
| `Console` | the areas side by side | the nine above |
| `ConsoleProofs` | what requests go through; saves of push keys; sessions | `Console` |
| `FormsProofs` | the properties of the four pages with forms | `ConsoleProofs` |
| `PagesProofs` | the properties of lists, overview and message, and of the limits beside them | `ConsoleProofs`, `LimitProofs` |

Every property that a passing run checks is also a theorem, but for `Settles`, which is
liveness; of `NothingStranded` only the half without faults is one (section 4), and
`DefaultBound` is one, as it is a property of a passing run, for one console request at a time.
What is left, in the order it would be worth doing: how many faults `NothingStranded` stands
for any number of workers; what one page leaves in the cache for the next; how a push key
meets the loss of its owner's permissions.

## 3. `Delivery`

### State

| variable | code |
|---|---|
| `row[d]` | a row of `deliveries`: status, attempt_count and the five timestamps the program reads |
| `msg[m]` | `messages.status` |
| `ready`, `deferred` | arq jobs of a delivery that are due, and those enqueued with `_defer_by` |
| `posting` | deliveries a push request committed and has yet to enqueue |
| `pc[s]` | the await at which a session stands |
| `batch[s]`, `mem[s]`, `base[s]` | the deliveries a session acts on, its rows in memory, the message status it loaded with them |
| `outcome[w]` | the result of `send_via_channel` |
| `due[s]`, `verdict[s]` | the messages whose status is yet to be derived; the status loaded and the one about to be written |
| `spent` | how much of each bound is used |
| `acks`, `tries`, `refused` | history, read by no action: acknowledged sends, attempts, refusals that are not retryable |

A session is a worker coroutine, an API request or the repair. `LoadRows`
copies rows into its memory; `Save` writes back the columns in which the new row
differs from the loaded one (`Written`), which is what SQLAlchemy's UPDATE does,
and `updated_at` with them. Timestamps are abstracted to `none`, `recent`, `old`
and, in memory, `seen`: the code only ever asks whether one is set and whether
it is older than a cutoff.

### Actions

Each action is the code between two awaits.

| code | actions |
|---|---|
| `enqueue_message` from its commit on | `Accept`, `PostJob`, `PostFails` |
| `deliver_message`, `process_delivery` | `Load`, `Skip`, `Reject`, `DeferForLimit`, `EnqueueDeferred`, `StartSending`, `Answer`, `RecordAttempt`, `Reschedule`, `Finish` |
| `update_message_status` | `ReadStatus`, then `WriteStatus` / `RetryWriteStatus` / `RepairWriteStatus` with what the caller does next |
| `retry_failed_delivery` | `RetryLoad`, `RetryCommit`, `RetryWriteStatus`, `RetryEnqueue` |
| `repair_stale_deliveries` | `RepairLoad`, `RepairCommit`, `RepairEnqueue`, `RepairWriteStatus` |
| faults | `PostFails`, `Crash` (arq runs the job again), `JobFails` (an exception escapes and arq drops the job), `ApiFails`, `RepairFails` |
| time | `RetryDue`, `StaleElapses` |

`ReadStatus` reads a delivery from the session's memory when it was loaded there
and from the table otherwise, as the identity map does. The channel limit may
refuse at any time; how its window works is the subject of `RateLimit`.

### Time

`StaleElapses` makes every recent `updated_at` and `processing_started_at` old.
It is free when nobody works and no job waits (`Quiet`). With jobs waiting it is
an overrun and is paid from the fault budget; with a session at work it is a
stall (a paused process, an answer as slow as the cutoff), paid likewise and
only allowed when `Stalls` is set. `RetryDue` makes a deferred job due and
its `next_retry_at` past.

### Properties

| property | says |
|---|---|
| `NothingStranded` | an unsettled delivery has a job, a session or a row the repair will find |
| `AttemptsReal` | `attempt_count` claims no attempt that was not made (a refusal of a disabled channel or key counts as one) |
| `GivenUpFairly` | dead letter means a refusal that is not retryable, or a used-up schedule |
| `SuccessAcknowledged` | success of a delivery or message means the providers acknowledged it |
| `OneOwner` | calm (no faults, one API session), one job or session owns a delivery at a time |
| `SentOnce` | calm, no delivery is acknowledged twice |
| `SuccessStays` | calm, a delivered row stays delivered |
| `StampsAgree` | calm, the timestamps agree with the status |
| `DeliversAtLeastOnce` | the engine implements `Outbox`, whatever faults happen |
| `DeliversExactlyOnce` | calm, it implements `Outbox` with `Exact` |
| `Settles` | every accepted delivery is settled in the end |
| `RepairSparesDelivered` | the repair takes back no delivered row: **violated** |
| `MessageSettled` | at rest a message has the status of its deliveries: **violated** |

### `Outbox`, the abstract specification

`Outbox` knows of a delivery only what it is said to be (absent, open, delivered,
given up), how often it was tried, how often the provider took it and whether it
was refused. Its steps are `Accept` (the deliveries of a message together),
`Attempt`, `Reject`, `Deliver` (only what the provider took), `GiveUp` (only after
a refusal or a spent schedule) and `Reopen`. With `Exact` it also forbids a second
attempt after an acknowledgement, giving up what was taken, and any step on a
delivery that is not open but the reopening, by hand, of one that was given up.

`Delivery` maps `row[d].status` to that state (`State`) and its histories
to themselves, in two instances: `DeliversAtLeastOnce` is checked with
faults and stalls, `DeliversExactlyOnce` without and with one API session. Without `Exact` the specification
allows reopening at any time, since the repair and a late session do commit `QUEUED`
over anything (finding 2); what it never allows is a claim that is not true.

### Runs

`MCDelivery` gives `MessageOf` its value; workers are a symmetry set in the runs
that check no liveness.

| run | instance | shows |
|---|---|---|
| `delivery_fault_free` | 2 deliveries of 1 message, 2 workers, 1 API request, 1 retry delay, 1 limit refusal, 2 manual retries, no fault | `TypeOK`, `OneOwner`, `SentOnce`, `StampsAgree`, `SuccessStays`, `DeliversExactlyOnce` |
| `delivery_faults` | 1 delivery, 2 workers, 2 of any fault, stalls, 1 limit refusal or manual retry among them | `NothingStranded`, `AttemptsReal`, `GivenUpFairly`, `DeliversAtLeastOnce` |
| `delivery_batch` | 3 deliveries of 2 messages, 1 worker, repair of 2 rows at a time, 1 fault | `SuccessAcknowledged` |
| `delivery_live` | `FairSpec`, 1 delivery, 1 worker, 2 faults, 3 budgeted events | `Settles` |
| `delivery_status_race` | 2 deliveries of 1 message, 2 workers, no fault | `MessageSettled` fails |
| `delivery_repair_race` | 1 delivery, 1 worker, 1 overrun, no stall | `RepairSparesDelivered` fails |
| `delivery_stranded` | 1 delivery, 1 worker, 5 faults, no stall | `NothingStranded` fails |

Bounds, all named constants: `MaxFaults`, `MaxLimited`, `MaxRetries` and
`MaxSpent`, their sum. `NumDelays` is `len(RETRY_DELAYS)`: 3 in the code, 1 in most runs,
which has all three cases (first attempt, retried attempt, schedule used up); the
proofs hold for every value. `RepairLimit` is 200 in the code and 1 or 2 here, so
that a repair leaves rows behind. Two workers are enough for every race of two
jobs on a row; the repair and the API request are third and fourth parties.
Deadlock is not checked: the program rightly stops when every delivery is final
and no retry by hand is left.

### Fairness

`FairSpec` assumes that a due job is eventually run and a coroutine that started
goes on (arq's polling loop and the event loop: weak fairness of the worker's steps), that
the cron jobs run (weak fairness of the repair), that the requests that were
started go on, that a deferred job comes due and that the cutoff passes when
nothing happens. No fairness is given to pushes, to manual retries or to faults.
With finitely many faults, which the budget says, every delivery settles; the
limit may refuse only finitely often too, which stands for a limit of at least one
per minute against a finite load.

### Findings

1. **The status of a message may stay wrong** (`delivery_status_race`). Workers
   finish both deliveries; the first computes `PROCESSING` from a row that
   is still `SENDING`, the second computes the final status and commits it, and the
   first commits its older verdict last. Nothing computes the status again.
2. **The repair can undo a delivery** (`delivery_repair_race`). A retry of 600 s comes
   due, the row is already older than the cutoff, the repair selects it, a worker
   loads and delivers it, and the repair commits `QUEUED` over `SUCCESS`. The job it
   enqueues sends the message again. No crash is involved.
3. **A delivery can be stranded** (`delivery_stranded`). Commits mix columns. First a row
   becomes `QUEUED` with `processing_started_at` set: a repair and a worker load it in
   `RETRYING`, the worker commits `SENDING` and the timestamp, the repair `QUEUED`, and since it
   loaded no timestamp it clears none. (A job run again does it, too: it loaded
   `SENDING`, and after a repair's `QUEUED` writes the new timestamp without the status.) Then a second
   repair loads that row, a worker marks it `SENDING` and its job fails, and the repair's
   commit writes NULL into `processing_started_at` but not the status, which is `QUEUED` as it loaded
   it. It dies before it enqueues. `SENDING` with NULL and no job: the repair asks
   for a timestamp that is not NULL, and manual retry refuses the status. The run allows five faults
   (failed jobs, a failed repair, overruns) and the trace uses all of them.

## 4. `DeliveryProofs`

`TypeCorrect` proves `Spec => []TypeOK`. The proof has one step per action; what
loading, saving, ending a session and spending a budget do to the types is stated
once each (`LoadTypes`, `SaveTypes`, ...) and cited.

`AttemptsAreReal`, `GivenUpIsFair` and `SuccessIsAcknowledged` follow from one
inductive invariant, `IInv`:

- `RowsClaim`, `MemClaim`: every row, in the table or in a session's memory, however
  old, claims no more than the histories show: attempts at most those made, `SUCCESS`
  only after an acknowledgement, `DEAD_LETTER` only after a refusal or a used-up
  schedule. Memory must be included, since it is written back later. The claim is a
  conjunction of statements about single columns, chosen so
  that a column-wise merge of two rows that satisfy it satisfies it too (`ClaimWritten`):
  that is why no lock is needed for these three properties. Histories only grow, so
  a claim once true stays true (`ClaimGrows`).
- `OneDelivery`, `AnswerKnown`: a worker holds one delivery, and when it has an answer,
  the answer is in the histories and one attempt more was made than its row counts.
- `VerdictTrue`, `MessageTrue`: a session that is about to write success for a
  message, and a message that has it, tell the truth.

Assumed is only `DeliveryAssumption`: every message has a delivery, sessions of
different kinds differ, and the bounds are natural numbers. The number of
deliveries, workers and API requests, the length of the schedule and the bounds
are arbitrary.

Only model-checked: `NothingStranded` with faults (it is true only up to a number of
them, so an inductive invariant would have to count which were spent on which row),
and `Settles` (liveness under fairness is out of the prover's reach, as are ENABLED and
induction over recursive definitions).

### `OutboxProofs`

`EngineDelivers` proves `Spec => DeliversAtLeastOnce`: initial states map to
initial states, and every step maps to a step of `Outbox` or to a stutter
(`OutboxInit`, `OutboxStep`). It needs one invariant beside `IInv`: `Births`, which says
that jobs, sessions and derived statuses exist only of deliveries that were accepted,
so that no commit can bring an absent one to life and no second `Accept` can
meet one. Then a commit (`SaveMapped`) changes the rows of one delivery, or of a set that
it puts back to `QUEUED`; by `RowsClaim`, whatever status it leaves, its own or a mix with
columns another session wrote, is one that the histories justify, which is the
guard of `Deliver`, `GiveUp`, `Reject` or `Reopen`. Steps that touch no row and no history are
invisible (`Invisible`).

### `ExactlyOnceProofs`

The hypothesis is `FaultFree`: `MaxFaults = 0` (the overrun that the default settings allow, 600 s
against 300, counts as a fault), and one API session, so no more than one manual retry at a time.
Messages, deliveries, workers, the schedule, the refusals of the limit and the number of manual
retries, one after the other, are arbitrary. The second half is needed: two requests that
load one dead letter before either commits both put it back and enqueue it, and it has two owners.
The button of the page is disabled while its request runs, but nothing on the server
prevents two users from it.

The invariant is `Calm`, with `IInv` and `Births`: the repair is idle, since no row it looks for
is ever stale without a fault (`Fresh`); a session holds one delivery; and every delivery is `Sound`:

- `OneJob`, `Alone`: at most one job of a delivery, and none while a session owns it, nor
  a second session. Ownership is read off the place where a session stands (`Owns`): a worker
  from its load to the commit that ends or reschedules its attempt, a retry from its load
  to its enqueueing.
- `JobRow`, `OwnerRow`: the row of a delivery with a job is `QUEUED` or `RETRYING`; the row of
  one with an owner is the one its owner has in memory, with the status of its place (`Fits`). So a
  commit writes over nothing, and columns never mix.
- `Attended`: a delivery that is not settled has a job or an owner.
- `Stamped`, `TakenOnce`: the timestamps say what the status says; the provider took a
  delivery at most once, and then the row is `SUCCESS` or the worker that was told is about to write it.

Each action moves one delivery from one of these shapes to the next and leaves the others
alone. `OwnedOnce`, `TakenAtMostOnce`, `StampsAlwaysAgree` and `NothingLeftToRepair` are what `Calm` says of
the histories; the last is stronger than `NothingStranded`, for it does without the repair.
`EngineDeliversOnce` shows that each step maps to a step of `Outbox` with `Exact` or to a stutter: by
`OwnerRow` the status a worker commits is one step from the one in the table. `DeliveredStays` follows
from the refinement, since no step of the abstract specification leaves `delivered`.

## 5. `Push`

### State and actions

Pushes of different keys share no row, so the module has one push key.

| variable | code |
|---|---|
| `key`, `links` | the row of `push_keys`; its rows of `push_key_channels` |
| `usable` | channels that are enabled and not deleted |
| `targets` | rows of `messages` with their deliveries: the channels of each message, `{}` when there is no such message; a message is named by the request that wrote it |
| `pc`, `sent`, `seen`, `answer` | of each push: the await it stands at, what it asked for, the key as its session loaded it, what it was told |
| `at`, `patch`, `view`, `listed` | of each console request: the await, the change asked for, the key as loaded, the messages found to delete |
| `kept` | history: every message ever stored |

| code | actions |
|---|---|
| `post_push`, `_resolve_active_push_key` | `Resolve` |
| `replay_message` | `Replay`, then the actions of a push without idempotency key |
| `enqueue_message` | `FindExisting`, `TakeSlot`, `Store` or `Clash` (the commit succeeds, or raises IntegrityError and the request ends in an error), `Accepted`; `Dies` at any await |
| `update_push_key` | `LoadKey`, `Validate`, `CommitPatch` |
| `delete_push_key` | `ListMessages`, `CommitDelete` |
| `update_channel`, `soft_delete_channel` | `Toggle` |

The unique constraint of `messages`, its foreign key to `push_keys` and the primary
key of `push_key_channels` decide whether a commit succeeds (`Admits`, `LinkClash`).
`ForeignKeys` says whether the database enforces foreign keys: PostgreSQL and MySQL do;
SQLite, the default, does not unless told to, and the program does not tell it to. A push that may
be refused for a reason the module leaves out (wrong token, content too large,
no slot left in the minute) is refused at any time. A deletion whose flush meets a message it
did not list is rolled back (SQLAlchemy would set `push_key_id` to NULL, which the
column refuses); a message that comes after that flush goes with the key by the
cascade. Both are outcomes of `CommitDelete`.

Left out: rotation (it replaces only the hash that the token is looked up by),
names and limits, who may bind which channel, channels named twice in one request,
a header of white space only.

### Properties and runs

| property | says |
|---|---|
| `OneMessage` | while the key exists, requests with one idempotency key that are answered with a message get the same one |
| `AnswerTrue` | the message answered has the payload of the request and is there as long as the key |
| `DefaultBound` | the default channel of a key is one of its channels: holds with one console request at a time, **violated** with two |
| `RepeatAnswered` | no push is answered with an error while its idempotency key has a message: **violated** |
| `NoOrphan` | no message outlives its key: **violated** where foreign keys are not enforced |

| run | instance | shows |
|---|---|---|
| `push_accept` | 3 requests, 1 console request that runs again and again, 2 channels, 1 idempotency key, 2 payloads, 4 patches, foreign keys | `TypeOK`, `OneMessage`, `AnswerTrue`, `DefaultBound` |
| `push_race` | as `push_accept` with 2 requests and 2 patches | `RepeatAnswered` fails |
| `push_default` | 1 request, 2 console requests, 3 patches | `DefaultBound` fails |
| `push_orphan` | as `push_race` without foreign keys | `NoOrphan` fails |

Three requests are two that race and one that comes after or replays. Of the patches one switches
the key off, one moves it to the other channel, and two are such that a key that has moved must refuse them.
With enforced foreign keys `NoOrphan` would say only what the database does, so it is
checked where they are not. Each request
runs once, so the instance is finite without further bounds, and deadlock is not
checked since everything may be answered.

### Findings

4. **The loser of an idempotency race gets a 500** (`push_race`). Two pushes with one `Idempotency-Key` find no
   message, and the second commit raises IntegrityError. The branch that is to answer with
   the first's message rolls back and then reads `push_key.id` (`messages.py:154`). A rollback
   expires every object of the session, whatever `expire_on_commit` says, and an AsyncSession cannot
   load an attribute outside of an await: `MissingGreenlet`, a 500. `Clash` models this, with
   and without an idempotency key. The message is stored once, and a later repetition finds it.
5. **Two updates of a key can unbind its default channel** (`push_default`). Channels c1
   and c2 are bound and c1 is the default. One PATCH sets the default to c2; another
   replaces the channels by c1 alone, checked against the default it loaded. Each
   commit writes only what it changed: the default is c2, the only channel c1, and every push
   without `channel_ids` is refused until someone repairs the key.
6. **A push can leave a message without a key** (`push_orphan`). On SQLite, a push that
   resolved its key commits during or after the deletion of that key. The message keeps a
   `push_key_id` that names nothing, and the serializers of messages fail on it.

## 6. `PushProofs`

`PushTypeCorrect` needs no more than `PushAssumption`. `OneMessagePerKey` and
`AnswersAreTrue` hold with and without foreign keys, for any number of requests (those that lose a race are
answered with an error, and are not among those answered with a message), and follow
from the inductive invariant `Inv`:

- `KeptCommitted`, `PostingKept`: a message that was ever stored stays the request it
  was, because that request never starts again; so comparisons with it, made once, stay
  true;
- `TableKept`: as long as the key exists the table holds every message ever kept, and the
  unique constraint therefore compares with all messages there ever were, which gives
  `OnePerIdem`;
- `AnswersTrue`: every answer is backed by a kept message of the same payload
  and idempotency key, or the request's own;
- `GrantedTargets`: who was granted a slot has channels to send to, so a stored message
  is never empty.

`DefaultStaysBound` assumes one console request at a time. Its invariant adds to `DefaultBound` that a request
that has loaded the key knows it as it is, since nobody else changes it meanwhile, and that the
default and channels it checked belong together (`LoadedAsStored`, `PatchBinds`). `Valid` checks
the channels when channels are given and the default when a default is given; that the two checks
together are enough (`ValidBinds`) needs the property itself, for what is not given.

## 7. The console

### How it is modelled

The pages have the same four variables, which `Console` declares:

| variable | code |
|---|---|
| `server` | the rows that the page's handlers read and write |
| `cache` | the query cache: what the page's queries hold, and fetches under way |
| `page` | the `useState` of the mounted component, and the number of gestures made |
| `calls` | the requests sent, in order: `op`, `arg`, where each stands (`sent`, `read`, `ok`, `error`, `done`), its answer `out`, and whether the page that sent it is still `here` |

A gesture of the user is one action, named after the handler in the source
(`handleSubmit`, `openEdit`, `toggleChannel`, ...), whose guard is what the page lets the user do:
an open modal covers the rest, a button is disabled by `isPending`, a row is
there to be clicked only if the cache shows it. A request is served (`Serve...`, in two steps
`Read...`/`Write...` where the handler reads, awaits and commits what it counted from the read
value), answered and settled in separate steps, so requests and answers
overtake each other; `lose` makes the page see a failure, whether or not the server
had done the work. `leave` unmounts the page: its requests go on, its setters do nothing.
`Elsewhere` is another session changing the rows. A fetch lands at any time, so a row
on the screen may be as old as one likes. `Mutations` is TanStack Query's
`useMutation` as the pages use it, and is external.

Some properties have exceptions: the page cannot do better, or the code lets it happen. History
fields (`raced`, `mixed`, `doubt`, `strays`, `overlapped`, ...) are set by the steps that
cause these cases, never by looking at what a property says, and the comment of each property names
them; they are the content of the observations below. So of `PasswordEndsSessions`, `TestResultOfDialog` and
`TabShowsTokenOwner` the races that the code does lose are exceptions: overlapping changes of a password,
the late answer of an earlier dialog, a login answered over an older first fetch.

`Console` runs the pages side by side: the router mounts one at a time and a page keeps
nothing but the cache, which the pages read by keys of their own. So a behaviour is of
one `area`, chosen at the start, and the state space is the sum of the areas'. The limit
counters (`RateLimit`), which the forms of keys and channels set, are an area too.

| area | module | code |
|---|---|---|
| `push-keys` | `PushKeysPage` | `PushKeysPage.tsx`; create, update, rotate, delete in `services/push_keys.py` |
| `channels` | `ChannelsPage` | `ChannelsPage.tsx`; `services/channels.py`, `routes/channels.py` with the test |
| `groups` | `GroupsPage` | `GroupsPage.tsx`; `services/groups.py` |
| `users` | `UsersPage` | `UsersPage.tsx`; `services/users.py` with `_sync_user_groups` |
| `message` | `MessageDetailPage` | `MessageDetailPage.tsx` |
| `lists` | `ListPages` | the tables, filters and pagers of six pages |
| `overview` | `DashboardPage` | `DashboardPage.tsx`, `DashboardCharts.tsx` |
| `session` | `Session` | `useAuth.ts`, `App.tsx`, `Layout.tsx`, `LoginPage.tsx`, `ProfilePage.tsx`; `routes/auth.py`, `deps.py` |
| `limits` | `RateLimit` | `rate_limit.py`, and its callers in `messages.py` and `routes/auth.py` |

### Properties

| property | says |
|---|---|
| `ShownSecretLive` | the secret shown once is the one the key answers to, unless a rotation raced it, here or in another session |
| `DefaultAsShown` | a default channel the user picked is the one that is sent |
| `SaveKeepsUntouched` | a save of a key changes only what was touched, or what had changed since the row was read |
| `OneSaveAtATime` | a page has one save of a key under way at most |
| `TestResultOfDialog` | a channel's dialog shows a test of that channel |
| `ChannelSaveKeeps` | a save of a channel keeps its secret, type, switch and deletion |
| `ShownLinksStored` | a dialog of members or channels at rest shows what is stored, refused clicks included |
| `GroupSaveKeeps` | a save of a group keeps its links, and its switch unless the user moved it in that form or somebody on the server |
| `MembershipsAsSent` | a saved user is in the groups the form lists |
| `UserSaveKeeps` | a save of a user changes only what was touched, and ends sessions only with a password |
| `RetryOncePerFailure` | a page does not retry a failure it has retried |
| `RowsAsAsked` | the rows are those of the page and filter on the screen |
| `EmptyTableExplained` | "nothing here" is true, unless rows were removed or the query failed |
| `FiguresOfRange` | figures are of the range on the screen, and never go back |
| `PasswordEndsSessions` | a change of password ends every earlier session for good |
| `TabShowsTokenOwner` | a tab shows the user whose token it sends, unless one of four named steps parted them |
| `LoginEnters` | a login is not thrown back to the login screen |
| `LimitHonoured` | a key or channel gets no more slots in a minute than its limit, a login fewer than twice its limit in any 60 s |
| `RefusedForReason` | nobody is refused before the limit is used up |
| `DeferralOutlasts` | a deferred delivery does not meet the counter that deferred it |

### Runs and bounds

| run | instance | shows |
|---|---|---|
| `console` | every area | all properties above |

Two each of keys, channels, users, groups, kinds of channels, deliveries and classes of
rows; `Ranges` are the page's 7, 15 and 30 days. `MaxCalls` = 2 requests: the races are
of one request with another (two rotations, two ticks, two tests, a save and a delete, a login
and a save) or with `MaxElsewhere` = 1 change by somebody else. `MaxGestures` = 5 is enough to
open a form, change a field, send it, and open another before the answer. A mutant of every property fails
within these bounds. The message has at most 2 failures of each delivery, lists
have pages of one row and at most 2 rows of a class, each of them and the overview `MaxLooks` = 4 gestures, and
the limits 3 callers, limits of 1 or 2 (a login's is 1, so that three callers could exceed it),
a minute of 3 seconds, 7 seconds and 4 evaluations of the script. All
start in what the application starts with: a row or two there, the cache empty, and a
token in `localStorage` that may be an old one. Deadlock is not checked: the user may stop.

Other choices: `["me"]` is served and shown in one step, since only whether a token
is accepted can change, and not whose it is; users stay active in `Session`; updates of
one key, channel or group are atomic on their pages, since their races are the
subject of `Push`. Another session may, between any two steps of the page, create, update, rotate or delete a
key, switch or delete a group, change a link, and take away, give, disable or enable a channel.

### Observations

Exceptions and oddities met while modelling; the properties are stated around them.

- The form of a key shows the first channel of the list as the default when none was
  picked, and sends the first that was ticked. It offers disabled channels, which
  the server refuses. A binding to a channel that is no longer a choice (or is
  beyond the 200 the list holds) is dropped by the next save.
- The confirmation of a rotation stays enabled while it is pending: two clicks rotate
  twice, and the older secret may be shown last. A rotation by another session leaves a dead
  secret in a dialog that is open, or about to open.
- `list_authorized_channel_ids` (`services/channels.py:94`) does not look at `UserGroup.is_active`, while
  the form says that a disabled group is no longer a valid source of authorisation (`GroupsPage.tsx:613`).
  One query shows it; it is not modelled.
- A late answer of a save or a deletion closes a dialog that was opened meanwhile
  for another row, and the answer of a channel test appears in the dialog of another channel.
- The create form of a key stays open behind the secret. A group's description cannot be cleared. The type
  in the form of an existing channel is ignored.
- Two simultaneous ticks may put back a set that is no longer true when one fails. Two
  inserts of one membership clash, and the 409 speaks of the user name.
- The last administrator can be demoted.
- A deletion can leave a table on a page past the end, and with one page left the pager is
  hidden. (A change of a filter goes back to the first page everywhere.)
- Two overlapping changes of one password count from the same version, so the second
  may leave a token of the first valid.
- After a login in the same tab the cache may still hold lists of the previous user. A first `["me"]` fetch
  with an old token that is under way when a login is answered is not replaced by the
  invalidation (`useAuth.ts:25`): refused, it leads back to the login screen; accepted, the tab shows the old user
  and sends the new one's token.
- A replay does not invalidate the list of messages. `failed_count` of the
  summary counts a status that nothing writes.
- A script that runs in a later minute than the one its counter was named for may find
  the counter expired, and grant more than the limit for that minute. A slot is
  used even if the push then fails or loses the idempotency race.
- Two manual retries of one dead letter at the same time both enqueue it, and it may be sent twice.

## 8. Proofs about the console

Every property of the `console` run is a theorem: for any number of keys, channels, users, groups,
deliveries, rows, requests in flight, gestures and changes by others. Assumed is `ConsoleAssumption`: the sets
are not empty, channels and classes of rows are finitely many, channels are numbered, a page of a list has
a row, bounds are natural numbers, and `Null` is neither a user nor a token.

The lemmas about requests (`SentCall`, `AnsweredCall`, `SettledCall`, `AbandonedCalls` and, in `FormsProofs`,
`TurnsOk`, `StillOpen`, `OnlySent`) are about `Mutations` and serve every page. For each page one lemma
(`KeysOnward`, `GroupRequests`, ...) reduces its actions to what they do to the requests.

`ConsoleProofs`:

- `OneSave`: the button looks at the latest request of
  each of its two mutations only. The invariant `OldSavesDone` says that of two saves of the
  mounted page the earlier is done, whichever of the two kinds they are; hence the
  latest is the only one that can be pending (`NonePending`).
- `TabShowsOwner`, `LoginLeadsIn` and `PasswordEnds` follow from `SessionInv`:
  the types of what each request carries at each stage (`SessionTypes`); `Shown` (unless one of the
  four steps came between, a fetch under way, too, is with a token of the user the tab's token is of);
  `SureOfEntry` (a login that is to lead in has data, or a fetch with its own token under way,
  so the guard waits); and `VersionsRise` (outside overlaps every version ever handed
  out is at most the present one, ended ones are below it, and a change under way has read
  the present one).

`FormsProofs`:

- `GroupSaveLeavesTheRest`, `ChannelSaveLeavesTheRest`, `UserSaveLeavesTheRest`, `SavedInTheGroupsListed` and
  `KeySaveLeavesTheRest` are action properties: they need to know that the row served is the one the request
  names, and that what a request carries agrees with the row it was filled from wherever the user
  touched nothing (`NamesTyped`, `UserArg`, `KeyArg`, `SwitchKept`: the form's invariant, sealed when it is
  sent). The page must keep it through every dialog: of a group, say, that the switch is the one of the row
  the form was opened from or was moved in that form (`GroupForm`), whatever the form before left.
  `TickedInAnyOrder` (a set listed in any order is that set) carries this from the row, where channels
  are a set, to the form, where they are listed.
- `PickedDefaultSent`: a save that is sent carries another default than the one shown only if the one
  picked is not among its channels (`KeyArg`), which stays so however the list of choices moves.
- `TestShownIsOfTheChannel`: while a dialog is open that no other test was under way for, all
  tests of the mounted page that are not dealt with are of its channel (`OwnTests`, `OwnResult`).
- `ShownSecretWorks`: a request carries a key if it is a rotation of it, or a creation that was answered
  with it (`Carries`). A rotation by another session makes a key `raced` if a secret of it was handed out and is
  on its way or shown; one that comes before the page's own is served is no exception. `Secrets` says that every key that exists, is listed or is about to be rotated was handed out by
  the server (`KeysUsed`), so none is created twice; that an answered carrier brings the secret the key answers to,
  and that a dialog that shows a secret of a key that is carried makes the key `raced`
  (`CarriersWork`); that a key with two carriers is `raced` (`CarriersApart`); and that the secret shown
  works (`ShownWorks`). So outside the exception there is one carrier at a time, and nothing can overtake it.
- `ShownAsStored`: what a dialog of links shows differs from what is stored by exactly the clicks that are
  not answered. `LinksHeld` says of each that it is shown as clicked, that it is stored so
  exactly from the time it succeeded, that no link is clicked twice, that the latest knows what was
  shown before it, and that all else is shown as stored. A refused latest click then restores
  a set that is still right for every other click; `doubt` records when it would not.

`PagesProofs`:

- `ListedAsAsked`: an answer is filed under the key of the page and filter it was asked for (`FiledUnder`).
- `EmptyIsEmpty`: while no row was removed, totals only grow, so a page that was reached because it held a row
  still does (`Reached`), and an answer without rows counted none (`Counted`). Whatever the page size.
- `FiguresShown`: a panel has one request under way for a key at a time, so what it brings is not older
  than what is shown (`AnswerInOrder`), and is filed under its own range (`FigureOfKey`).
- `OneRetryPerFailure`: a failure that was retried is past on the server, and either its retry
  still waits for the rows, which disables the button, or the rows the page has are past it, too, and so is every
  answer under way (`RetriedPast`).
- `SlotsWithinLimit`, `RefusedWhenUsedUp`, `DeferredLongEnough` carry the theorems of `LimitProofs` over to the
  counters that stand beside the pages, by instance.

`LimitProofs` is about `RateLimit` alone, for any set of limits, any length of a minute, any callers and any number of
evaluations (`LimitKept`, `RefusalsJustified`, `DeferredPastTheCounter`). `LimitAssumption` asks that limits are at least 1,
as the schemas do (`ge=1`), that there is one (so a least, which stands for the setting for logins), and that a minute has a second. The
invariant relates a counter to the slots granted under its name: it never counts more, and in its own minute,
which it outlasts, exactly as many (`Counted`). Logins have one name and no minute; their counters take turns
of a minute each (`Turns`), no two of which overlap, so any 60 seconds meet two at most, and of the older
not the slot that began it, a minute before it ended (`Begun`): hence fewer than twice the limit. `Waits` says that who was refused has a time to come back at that is past the expiry of the counter
it met.

## 9. Not modelled

Formats, signatures and encryption of payloads, sanitising, logging, schemas and
serializers (pure functions on strings); how the server counts for the overview,
metrics and exports (reads); migrations; start-up and configuration, whose settings
appear as constants; the heartbeat of the worker. Retention is one SELECT and one
DELETE; what it leaves behind is decided by the database's cascade. Expiry of tokens
looks, to a page, like any refusal. Of a push, a header of white space only. A push
key keeps its channels when its owner loses them: no doc says what should happen, so nothing
is stated. What a group authorises is one query (see the observations). Of the console: wording and layout, the UI kit and theme, drawing of charts, export, copy buttons,
the dialog of an audit entry, and the data one page leaves in the cache for another.

## 10. Running it

```
tlc -workers 2 -config DeliveryFaults.cfg MCDelivery
tlc -workers 2 -config Console.cfg Console
tlapm ConsoleProofs.tla
```

The twelve runs take between a second and two minutes each; all proofs together
take about a quarter of an hour.
