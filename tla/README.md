# Verification of the enterprise SMS platform

This directory holds TLA+ models of the backend in `src/backend/app` and of the
release tool in `src/deploy/scripts`, the TLC configurations that check them on
small instances, and TLAPS proofs about all twelve systems they specify. The
platform accepts SMS batches from applications and from a web front end, splits
them into chunks, submits each chunk to a vendor that offers no idempotency of its
own, pulls the vendor's delivery reports, and tells the application what became of
its batch. State is kept in PostgreSQL (`src/schema.sql`), Redis holds projections, caches and
locks, Celery workers and periodic tasks do the work, and a transactional outbox
connects them. Its images are exchanged on a host by a release tool that keeps a
journal.

The questions asked here are the ones a unit test hardly reaches: which
interleavings of workers, leases, lost answers, crashes and recovery jobs make a
recipient get a message twice, lose a paid response, leak a quota for ever, send
what nobody approved, announce a result that is not true, or leave a host between
two releases.

## 1. The system and its parts

| part | state | operations | what makes it hard | modules |
|---|---|---|---|---|
| Transactional outbox | `outbox_event`: state, attempts, lease, due time | enqueue, lease a due row, publish, claim, heartbeat, complete, fail, defer, re-arm, sweep | duplicate and lost messages, leases lost while running, a crash at any point | `Outbox`, `OutboxContract` |
| Chunk submission and vendor failover | `sms_chunk`, `sms_vendor_attempt`, batch status, pause keys | load, route, claim and insert an attempt, check, send, finalize, split, blacklist, fail over | the vendor may have accepted a request whose answer is lost; two workers on one chunk | `ChunkSend`, `SubmissionContract` |
| Submission recovery | the same | close stalled chunks and attempts, repair legacy rejections, end unknown results | races with a worker that wakes up late | `ChunkSend` |
| Idempotent acceptance | `idempotency_claim`, `idempotency_record`, Redis index | look up, reserve, renew, save, wait, resolve an unconfirmed commit, clean up | leases that lapse in the middle, results that expire, unconfirmed commits, caches behind the facts | `Idempotency` |
| In-flight reservations | `send_inflight_reservation`, `send_inflight_balance`, the deferred triggers | reserve, bind, materialize, grow, release, reconcile | reconciliation from old reads, a trigger that refuses a whole round, limits changed at run time | `SendInflight` |
| Usage ledger | `usage_reservation`, entries, `usage_projection` | reserve, commit, request and apply a release, recover orphans | concurrent decisions against shared limits, releases replayed, recovery racing a commit | `UsageLedger` |
| Usage projection | versioned values in Redis, a ready flag, a rebuild barrier | apply a commit, rebuild by pages, publish, reconcile | writes overtaking each other, a flush in the middle of a rebuild, a dead rebuilder | `UsageProjection` |
| Report application | `sms_message`, `report_event_projection`, batch counters | apply a report, confirm or fail a chunk, terminalize, sweep timeouts | reports out of order, before the send result, or never; counters kept by difference | `ReportProjection` |
| Result callbacks | `callback_task`, the authority lease, the application's configuration | create, append, claim, authorize, post, record, retry, revoke | an address withdrawn while a delivery runs, items appended to a loaded task | `Callback` |
| Raw ingest | stream and spill files, `raw_vendor_log` and its lease, the poll lock | capture, spill, commit, recover, process, replay, audit, reevaluate | reading the vendor's queue consumes it; every copy may be the last | `RawIngest` |
| Batch lifecycle | `sms_batch`, `approval`, batch-ready events, queue pauses | accept, view, approve, reject, expire, schedule, reschedule, cancel, claim due batches, plan, pause, resume | decisions taken on an old page, a scan racing a cancellation, events lost between commit and dispatch | `BatchLifecycle` |
| Disposal of uncertain chunks | `sms_uncertain_resolution`, its facts and children, the effect event | propose, confirm, apply, refund, resend, close, hand over | late reports and timeouts between the two people and the effect, two workers on one event, an unconfirmed commit | `UncertainResolution`, over `BatchLifecycle` |
| Release of the images | `state.json`, the event log, the environment file, the containers, the schema | prepare, activate, resume, roll back, compensate, verify | a crash in the middle of a command, a torn log line, a migration whose record was lost | `Release` |
| Bootstrap and recovery of a host | the bootstrap and recovery files, the baseline release, the start gate | bootstrap, start, observe, adopt, resume a stage, contain | a consumer started and not recorded, a database that changed after it was approved, reboots | `HostRecovery` |

The parts that are not modelled are listed with the reason under `components` in
`PROJECT.json`; section 7 groups them.

How the parts meet: the acceptance of a batch runs `Idempotency`, then
`UsageLedger` and `SendInflight`, and commits with an `outbox_event`. The outbox
runs the preparation and, for every chunk, `ChunkSend`. `RawIngest` hands items
to `ReportProjection`, whose batch completion creates the tasks of `Callback`.
Each module contains what its neighbours may do to its state as actions of its
own (`ChunkSend` lets the outbox deliver a chunk to two workers at any time;
`SendInflight` lets any chunk fail; `UsageLedger` lets any acceptance hang).
`UncertainResolution` extends `BatchLifecycle`: one specification takes a batch
from its approval through its chunks to the refund or the resend of what stayed
unknown, with the submission of a chunk as one step.

## 2. How the models correspond to the code

Every definition that stands for code is listed under `map` in `PROJECT.json`
with the lines it translates. Conventions shared by all modules:

- One action is one transaction, one Redis script, one HTTP exchange or one step
  of a handler between two awaits. A compare-and-set `UPDATE ... WHERE` is a
  guard or an `IF` whose other branch is the handler's "lost" path.
- A process is a position (`pc`) and the values it has read. What it read stays
  what it was, so that stale decisions happen in the model as they do in the code.
- Time is a flag that an action sets when a deadline passes. A lease may expire
  while its holder works; that is counted by a bound where it is an exception,
  and unbounded where it is the normal way to recover from a crash.
- A crash empties a process and leaves database, Redis and files alone.
- An unconfirmed commit is a choice between "written" and "not written" after
  which the handler sees an error.
- Payloads, phone numbers, texts and keys are model values or small numbers.

### Outbox
`state`, `attempts`, `lease`, `expired` and `due` are columns of `outbox_event`.
Dispatchers run `lease_due`, publish and record it; executors run
`claim_execution`, the effect, and `complete`, `fail` or `defer`. Messages may
be lost and delivered any number of times. `begun`, `defers`, `rearms` and
`overrun` are history. `OutboxContract` is what the enqueuing code relies on: a
bounded number of tries, done only after a try, settled until armed again.

### ChunkSend
`tasks/send.py` and its repositories. A worker loads the chunk, checks the batch
and the pause keys, routes, claims (a status compare-and-set together with the
insert of the attempt row), checks again, sends, and finalizes under the attempt
it holds. `req` is the truth about each request, which no code reads: the
vendor may accept or refuse it before or after the worker gives up.
`Reconcile` holds the recovery jobs. `Legacy = TRUE` also starts from chunks an
older release left behind without attempt rows. `SubmissionContract` is what a
recipient and the owner are promised.

### Idempotency
One key and several requests, some with another fingerprint. `claim` and `record`
are the two tables, `index` and `proj` the Redis caches, `expired` and `working`
say which results have passed `expires_at` and which still have unfinished work.
A request walks through its lookups, reserves, renews, saves behind its fence,
and is answered; a commit may be unconfirmed, after which
`resolve_ambiguous_acceptance_commit` decides what the caller is told.

### SendInflight
Two reservations of one application. The deferred triggers of the schema are
part of every commit: an action that violates them changes nothing but `refused`.
A reconciliation round takes a snapshot, then writes from it.

### UsageLedger and UsageProjection
The ledger is the facts: reservations, their entries and the sums the decisions
read. The projection is the Redis copy: `APPLY_PROJECTIONS_LUA` with versions,
rebuild pages under a barrier token and an advisory lock, and the ready flag.
They are separate because no decision of the ledger reads Redis.

### ReportProjection
Messages of two chunks, and reports with status, time, rank and key. `Apply`
orders reports as `apply_report` does, `Sending` holds the outcome of the send
and the handling of uncertain chunks, `Sweep` the timeout generations.
`LegacyWrite` is the older release that runs during a rolling update and only
invalidates the active count.

### Callback
Tasks with items, two configurations of an application, workers with claim and
authority leases. `ChangeApp` waits for the authority as `app_update` does and
revokes the open tasks of the old configuration.

### RawIngest
One response, hence one stream file and one spill file. `Captures` are the
capture states, `Envelopes` what the decoder will find. Recovery runs at the start
of each poll, spills before streams. Rows are appended to `rows`; a lease is
named by its epoch. `received` and `overlap` are history. Idle pollers are
interchangeable, so only one of them starts, and polls that would find neither
files nor a response are skipped. A response whose first bytes never arrived has
left no trace anywhere and is outside the model.

### BatchLifecycle and UncertainResolution
One batch, its approval row and the pages approvers look at. A page keeps the
generation and the time it showed; `decide` compares the generation, so `plan`
(how often the time was set) is what a decision really agreed to. The ready event
is claimed, planned or lost, and the reconciler queues again what stayed. Then
chunks are answered or not; an uncertain one ends as `unknown_terminal` and gets a
disposal, proposed and confirmed by different administrators, whose effect two
outbox workers may apply at the same time: `exec` is where a worker is and the
proof (`verify_source_proof`) it has read. `released` records every refund.

### Release
`store` is what `release_store.py` keeps, `host` what the container engine shows.
Each container group is "orig", "new", "back", "mixed" or none. A command may fail,
be interrupted, or die half way; `resume` and `rollback` decide from the log and
from what they observe, as the code does. Validation of a bundle is one choice.

### HostRecovery
Bootstrap phases, and the stages of a fenced recovery (api, callback, workers,
outbox, beat, web). Each command first looks at what runs, compares fingerprint
and watermark of the database, starts its stage and records it; on any failure it
contains all consumers. A reboot starts only what the start gate lets through.

## 3. The runs

| run | instance | distinct states | what it shows |
|---|---|---|---|
| `outbox` | 1 event, 2 dispatchers, 2 consumers, 2 attempts, 1 re-arm, 1 deferral | 93,621 | `LeaseProtects`: consumers overlap only after an overrun, and an event dies only when exhausted. `ImplementsContract`. `Settles`. |
| `chunk` | 2 workers, 2 vendors, 2 attempt rows, fresh and legacy chunks | 158,736 | `AtMostOnce`, `ImplementsContract`, and `AbandonedIsClosed` under fair reconciliation. |
| `idempotency` | 3 requests, 2 fingerprints, 2 generations, symmetric equals | 2,371,885 | `OneCurrentResult`, `AnswersAreTrue`, `OnlyOwnerCommits`. |
| `inflight` | 2 reservations of at most 2 chunks by estimate and 3 in fact, limit 2 or 4 | 214,852 | `HeldWhileLive`, `OnlyStaleWritesRefused`, `GrowthWithinLimit`, `OrphansReclaimed`. |
| `callback` | 1 task, 2 workers, 2 items, 2 configurations, 1 retry, 1 fault, 1 manual retry | 487,990 | `PostAuthorized`, `EndsAreEarned`, `Settles`. |
| `usage` | 3 acceptances (a request, its retry, one of another application), a department quota and a phone with a frequency limit | 615,392 | `WithinLimits`, `LiveBatchCharged`, `OrphansReleased`. |
| `projection` | 2 writers and the reconcile task, 2 dimensions | 521,204 | `QuietMeansExact`, `PublishCovers`, `Converges`. |
| `report` | 3 messages, 2 chunks, 6 reports, 2 sweeps, 2 faults | 135,076 | `BestReportDecides`, `BatchIsExact`, `EndsStay`, `SentSettles`. |
| `raw` | 2 pollers, 1 reconcile task, 1 operator, 2 items, 2 faults or requests of the operator | 822,320 | `NothingLost`, `ProcessedIsEarned`, `Settles`. |
| `batch` | a marketing batch with approval, one without, or a direct batch, 3 approvers (one of them the applicant), 2 administrators, 2 chunks, 2 messages, 2 workers, 3 attempts, 1 reschedule, 1 pause, 1 fault | 401,894 | `SentAsApproved`, `RefundExact`, `ResendEarned`, `Settles`. |
| `release` | 7 manifests (all images with and without migration, cold cutover, partial ones), 3 faults | 101,319 | `EndIsTrue`, `SchemaKeepsItsData`, `ForwardIsQuiet`, `Settles`. |
| `recovery` | bootstrap or recovery, with and without archives, 2 faults, 1 foreign write | 179,260 | `Fenced`, `StartsOnApproved`, `StrayStopped`. |

The type invariants are proved as a part of the inductive invariants of section 5 and
are no invariants of the runs. Deadlock is not checked: each of these systems really stops,
when every event, batch, task or release has ended and the bounds are used up.

**Why the bounds are enough.** Every race described in `hazards` needs two actors
on one row, or one actor and a recovery job; the instances have both. Two
generations or attempts are needed for a stale holder to meet its successor. A
third brings no new kind of meeting: `chunk` also passed with three attempts
(1,109,112 states) and `idempotency` with three generations (13.4 million); they
are kept at two so that a run takes minutes. `callback` also passed its safety
properties with two tasks (1,350,856). The batch run accepts what each of its bounds
is for: the balance runs out only during the marketing batch without approval,
answers are lost only during the direct one, and approvers look at the pages a
decision can go wrong on; a run in which it was the reviewed batch that ran out of
balance (863,750 states) passed too.
The safety properties of all twelve systems are proved for all sizes (section 5); the
instance is the evidence for the liveness properties only.

**Fairness.** Weak fairness of the steps of a running process (Celery gives each
worker its turn, and a task that never ends is killed), of periodic tasks (beat
starts them for ever), and of the passage of time. Only `callback` needs strong
fairness, for the claim of a task: the due scan is ordered by age, so it does not
pass over one task for ever while others come and go. In `raw`, `batch` and `usage`
one weak fairness condition covers all steps of processes and periodic tasks
together, which is less than fairness of each. `release` assumes that a running
tool goes on and that somebody resumes an unfinished release, `recovery` that
somebody goes on with the next stage. Nothing is assumed of
vendors, operators, crashes, Redis, or the broker. `Converges` of `projection`
is stated for a ledger that becomes quiet, which the bounds guarantee.

**Each property can fail.** For every property of every passing run `mutants`
names a plausible bug in the mapped definition (a dropped guard, a swapped
order, a missing reset) with which TLC finds a violation under the run's own
configuration.

## 4. What was found

Two disagreements between code and documentation. Their properties are kept in the
modules; TLC refutes each within a minute under the configuration given.

1. `AnswerMatches` of `Idempotency`: `_ensure_same_request`
   (`pipeline_idempotency.py:277`) compares with the fingerprint of the record that
   exists when it runs, not with that of the batch an earlier lookup returned, so a
   request can be answered with a batch of other content once the first result has
   expired. `docs/api-integration.md:86` says the same key with another fingerprint
   gets 409. `AnswersAreTrue` states what does hold: a batch whose result still
   counts is never returned for other content. (`MCIdempotency.cfg` with the
   invariant `AnswerMatches`.)
2. `RepairOnlyGrows` of `SendInflight`: `reconcile_split_occupancy_drift`
   (`send_inflight.py:756`) writes a value computed from a read before it takes the
   lock, and can shrink a reservation that grew meanwhile. Its docstring
   (`send_inflight.py:710`) and `docs/DECISIONS.md:1469` say it only grows.
   (`SPECIFICATION InflightSpec`, one reservation, limits 2 and 5, `MaxEstimate = 2`,
   `MaxChunks = 4`.)

Behaviours met on the way that contradict no documented claim, but that a
maintainer should know:

- A poller that lost the poll lock in the middle of a response goes on. The
  recovery of the next poller then reads the unfinished stream, commits it as
  truncated, and removes the file even if it was completed in between. If the first
  poller dies before it has written its spill, the complete response is gone.
  `NothingLost` excepts exactly this overlap. `core/redis_lock.py` calls the lock a
  mere suppression of concurrency and relies on database uniqueness, which covers
  duplicates but not this.
- A crash right after a dispatch that found no recipients leaves a submitting chunk
  in a batch that is no longer live; `stale_chunks` then skips it.
- `DispatchBlacklist` treats `submitting` as before the send (`dispatch_blacklist.py:159`).
- A `failover_pending` chunk can lose its wake-up while its event is still
  processing; recovery finds it later.
- A callback that another worker took over may still be posted under the authority
  of the first one: the authority outlives the claim.
- Tasks committed with a configuration that was revoked meanwhile end dead through
  their retries, not through the revoke.
- One release that fails because a rebuild holds the writer lock ends the whole
  round of `recover_orphans`; the next round continues.
- Lowering an application's limit below its balance refuses even a materialization
  that would shrink it, and a split blocked for capacity in a web batch waits for
  an operator.
- A refund contradicted by a later report is not taken back by itself: the disposal
  ends with a person, or its event dies.
- `resume_batches` commits before the pauses are cleared and messages sent; a crash
  there leaves queued batches without a message until the reconciler finds them
  after five minutes (covered by `Settles` of `batch`).
- The deferral into the marketing window changes the time of a batch without a new
  approval; only an explicit reschedule asks for one.
- Containers that a partial release does not change count as having the target, so
  resuming a prepared partial release on an untouched host ends in
  `recovery_required`.
- Compensation starts the backend again before redis and postgres are put back: the
  data services are exchanged under a stopped backend only on the way forward.
- A torn last line of the event log makes `resume` and `rollback` raise for ever;
  `Settles` of `release` excepts it.
- A command of a recovery given out of order, or after the database drifted, contains
  all consumers and ends the recovery, also one that had succeeded. `adopt` cannot be
  repeated once its metadata was written, and a crash between freezing the offline
  bundle and writing the recovery file leaves `start` refused.
- The fingerprint counts rows, so that a stage fails when the application itself
  added rows during an earlier one.

## 5. What is proved

TLAPS checks the following for every value of the constants (any numbers of workers,
vendors, events, requests, reservations, messages, tasks, chunks, attempts, polls,
manifests, writes and faults). Every invariant and action property of the twelve
runs of section 3 is among them. Eight modules hold the proofs; where one is about
two systems, these share nothing but the module, and their names carry the system
(`InflightInit`, `ReportNext`, `ProjSpec`, `HostTypeOK`).

**`AcceptanceProofs`, the outbox**, from `ActorsAssumption` (dispatchers, executors
and the "no one" values are distinct) and `ContractAssumption` (attempt limits are
positive numbers). The inductive invariant is `OutboxInv = TypeOK /\ LeaseDiscipline
/\ AttemptsMatchState`. `LeaseDiscipline` ties the holder of a lease to the state of
the row and says that a running consumer still holds its row or has overrun;
`AttemptsMatchState` says what each state implies about attempts and claims. Neither
`LeaseProtects` nor the budget is inductive alone: a claim is safe because the row
was leased by a dispatcher, and a leased row has an attempt that is not yet begun.
Results: `TypeCorrect`, `BudgetKept`, `LeaseProtected`, and `Refinement` (every step
is a step of `OutboxContract` or a stutter).

**`AcceptanceProofs`, the capacity in flight**, from `SendInflightAssumption`
(finitely many reservations, positive limits, an estimate no larger than what a
batch may have). The sum of the active reservations is the number of their units,
pairs of a reservation and a number up to its chunks, so that the finite-set library
can reason about it: `SumSplits` and `SumChanges` say how it moves when one row is
written. The inductive invariant `InflightInv` is `InflightTypeOK`, what the
deferred triggers demand (`Admitted`: the balance is the sum, no batch occupies more
than it reserved), `Flow` (where acceptor, batch, reservation and worker of one
acceptance stand to each other, and that a worker's `peek` is still the
reservation's count) and `OnlyStaleWritesRefused`. `Flow` is what shows that
accepting, preparing and releasing pass the triggers: only a split or a
reconciliation that worked from rows read earlier can violate one. It also shows
that the scan for ended batches that still hold a reservation finds none
(`snap.terminals = {}`): no step of the model leaves one behind. Results:
`InflightInvariant`, `LiveBatchesHold`, `RefusalsAreStale`, `GrowthIsLimited`.

**`ChunkSendProofs`**, from `ChunkSendAssumption` (the registry is a sequence,
limits are numbers, "no vendor" is no vendor). The inductive invariant is `TypeOK`
with `HoldersKnow` (a worker that may still write a result holds a blocking attempt
of its own and knows what became of the request), `RowsMatchRequests` (a request
that counts has a row that blocks), `BlockingIsLast`, `ResendOnlyAfterRefusal`,
`SubmittedIsAccepted` and `SplitIsFinal`. The argument: a blocking attempt is the
newest one, a holder holds a blocking attempt, so there is at most one holder and
its row is the only one whose request can be outstanding; a new attempt is inserted
only when none blocks. The proof has one lemma per family of actions (those that
leave the core alone, that only change the status, that only move a worker), and one
per action that changes attempts. Results: `TypeCorrect`, `NeverTwice`,
`ResendJustified`, `SubmittedJustified`, `OneBlockingAttempt`,
`NoReturnFromUnknown`, and `Refinement` of `SubmissionContract`.

**`BatchProofs`**, from `KindsAssumption` (only web batches are reviewed),
`HomeAssumption` (each message has a chunk) and `NullAssumption`. On the side of the
approval the inductive invariant adds `PagesKnow` (a page is never ahead of the
approval row, and a page of the row's generation shows the batch's time) and
`NothingEarly` (a batch that waits or was stopped has no chunk). On the side of the
disposal it adds `Confirmed` (an event exists exactly for a disposal two people
confirmed, facts and children belong to one), `WorkerKnows` (what a worker is about
to do is what the disposal says) and `Paid` (the refund is due and paid at the same
moment). Neither side's property is inductive without them: `RefundExact` relies on
the fact being entered before the close, `SentAsApproved` on old pages having old
generations. Results: `Invariance`, `ApprovedOnly`, `RefundIsExact`,
`ResendIsEarned`.

**`FenceProofs`, the idempotency key**, from `IdempotencyAssumption`. The inductive
invariant `IdempotencyInv` says that a result that still counts is the record and is
guarded by the completed claim (`Results`); where a request with a batch, an expired
batch or a valid renewal cache can be (`Places`); that a reservation belongs to one
request, that a valid cache means the claim row is still its own, and that the fence
presented at the save is its own (`Owner`); and what a request was told (`Told`).
The argument: nobody may reserve a completed claim before its result has ended, and
a save passes only under the reservation the row carries, so a second live result
cannot appear. Results: `IdempotencyInvariance`, `OneResult`, `TrueAnswers`,
`OwnersCommit`.

**`FenceProofs`, the recovery of a host**, from `HostAssumption` (the two bounds are
numbers). `Fenced` compares services with a phase in a file, and a service starts
before its phase is recorded. The inductive invariant `HostInv` therefore says how
far a recovery may have gone at each phase, the recorded stages and the one that
follows (`Reach`, in `UpInFence`), and what a command between two steps relies on:
that the files agree with each other (`FilesAgree`), that the phase is still the one
it was dispatched for (`InPlace`), that a containment which reported no failure
stopped everything (`Contained`), and that before a stage comes up only recorded
stages run, the database is the approved one as long as nothing has run, and nothing
was being sent (`Approved`). A few lemmas compute the order of stages and phases
from the sequences of the module. `StartsOnApproved` then follows because one action
only, the start of a stage, makes a service run (`OnlyStageRises`). Results:
`HostInvariant`, `HostFenced`, `HostStartsOnApproved`.

**`CallbackProofs`**, from `CallbackAssumption` (finite sets, at least one
configuration). The inductive invariant says that a lease names one claim
(`Belongs`), that from `Acquire` to `Post` a live claim has the authority and the
authority pins the configuration (`Pinned`), and that what a worker under a live
claim knows of its row is still so (`Knows`). `PostAuthorized` follows from
`Pinned`; `EndsAreEarned` needs `Knows`, because the worker that closes a task
counts with the retry number and the items it loaded. A finite-set lemma shows that
a fresh lease always exists. Results: `Invariance`, `PostsAreAuthorized`,
`EndsEarned`.

**`IngestProofs`, the response**, from `RawIngestAssumption` (items are numbers with
a last one, the three kinds of processes are different). `NothingLost` speaks of
files and rows; what could break it is a process that is about to remove a file. The
inductive invariant `RawInv` says that a row is processed only if its items are
facts (`RowsGood`); what each process relies on where it is (`WorkerGood`); that
nothing happens before the response leaves the queue (`Quiescent`); that one poll
receives it, alone unless its lock was lost (`OneReceives`); and that whoever is
about to remove a copy has seen to another one (`Safe`). The exception of
`NothingLost`, the overlap of section 4, is exactly where `Safe` stops being
inductive. Most actions write one row or one process, so the proof rests on a lemma
for each kind of write (`RowWritten`, `RowInserted`, `FlowMove`). Results:
`RawInvariant`, `RawNothingLost`, `RawProcessedIsEarned`.

**`IngestProofs`, the reports**, from `ReportProjectionAssumption` (finitely many
messages and at least one, each with a chunk; reports have known statuses, and
different reports have different keys). `BeforeIsLower` writes out the order of the
sort keys and the lemmas after it show that it is transitive, with "delivered" as
its top class. The inductive invariant `ReportInv` adds to `BestReportDecides` and
`BatchIsExact` that the report a message shows was applied to it and that nothing is
delivered without a report (`Shows`), and that what an older version set back
belongs to a submitted chunk. The counters are compared with cardinalities: a step
changes one message, hence each count by at most one, or the messages of one chunk,
which are recounted. `EndsStay` then follows action by action. Results:
`ReportDecides`, `CountersExact`, `EndsAreFinal`.

**`ReleaseProofs`**, from `ReleaseAssumption` (a manifest names groups, and a cold
cutover migrates and changes every group). `EndIsTrue` is a claim about the host
made by a tool that may have died at any point, so the invariant has two parts.
`Durable` holds wherever the tool is, and is all that a crash leaves: steps are
begun in the order of the plan, each after the ones before it were recorded
(`InOrder`); what the containers would be made from (`References`) and were made
from (`Containers`); that the backend stays stopped from its quiescence to its
recreation (`Quiet`); that what was verified still runs (`Verified`); and that a
schema that was moved is known to whatever compensates (`Schema`). `AtPrepare`,
`AtForward`, `AtStep` and `AtBackward` add what a running command relies on where it
is. `resume` and `rollback` rebuild the second part from the first and from what
they observe (`ReconcileIs`, `FoundDurable`). The order of the activation enters
through a few lemmas about its numbers (`FirstIs`, `OrderSays`). Results:
`ReleaseInvariant`, `ReleaseEndIsTrue`, `ReleaseKeepsData`, `ReleaseForwardIsQuiet`.

**`UsageProofs`**, about the ledger and about its projection. From
`UsageLedgerAssumption` (finitely many rows, a key, costs are positive,
applications, phones and the department are different dimensions), sums are units
again. The inductive invariant of the ledger is `TypeOK` with `Control` (an
acceptance past its start has an opened row, and quota entries once `reserve_quota`
returned), `Finite`, `WithinLimits` and `LiveBatchCharged`. `WriteRow` carries the
argument: a row is written together with the values of its dimensions, so values
stay sums; an entry is added only after the comparison with the limit, which reads
that sum under the row lock; and `ReleaseRow` shows that a release subtracts what is
there, so that the clamp at zero in the code never acts. Results: `Invariant`,
`LimitsHold`, `ChargesStay`. The proof about the projection is from
`UsageProjectionAssumption` (values and bounds are numbers, the reconcile task is a
process). Its inductive invariant `ProjInv` says that no copy of a row, in Redis or
in a process's hands, is newer than the table, and that one as new is equal to it
(`Versions`); that what Redis lacks is in the hands of a process about to write it,
unless something was lost (`Pending`); and that a rebuild which still has its
barrier accounts for each fact it started with: the fact is on a page to be read, in
its hands, or in Redis at least as new (`Covered`). The barrier is what makes the
last part inductive, since a flush, the only step that takes rows out of Redis,
removes the barrier with them. Results: `ProjInvariant`, `ProjectionExact`,
`PublishedIsComplete`.

**Only model-checked:** the liveness properties (`Settles` of five runs,
`AbandonedIsClosed`, `OrphansReclaimed`, `OrphansReleased`, `Converges`,
`SentSettles`, `StrayStopped`): the prover does not reason about fairness.

## 6. What is left out of the modelled parts

- Idempotency: requests without a `biz_id`; rescheduling that extends a record; the
  redelivery of a dead callback, which makes a retired result count again.
- In-flight reservations: the separate daily budget of live tests; the branch of
  `pipeline_commit.py` (193-197) that leaves a conflicting reservation to the
  reconciliation is the same as a crash here.
- Usage ledger: rotation of HMAC keys and merging of subjects, the volume dimension,
  retention, the change of day, release per recipient. Event ids of releases never
  affect the facts and are dropped.
- Reports: matching a report to a message, the vendor's authority over it, unmatched
  reports, the failure-rate alert.
- Callbacks: recovery of old `batch.finished` events; switching off message reports
  is treated like disabling.
- Raw ingest: quotas, reclaim and cipher queue of the spill directory, the check of
  file identity, quarantine files, the `parse_state` column (only eligibility is
  kept), the audit of a reevaluation. A decryption error is a crash. The reply
  source has the same flow with replies for items.

- Batches: recovery of legacy candidates, splits and numbers excluded by the
  blacklist (these are in `ChunkSend`); the claim and the answer of a submission are
  one step; "pending" stands for pending and retrying chunks; the exemption of test
  batches.
- Releases: offline partial updates, which `prepare` refuses; migrations without
  cold cutover are expanding ones, as validation demands.
- Recovery: activating or resuming a release of the baseline while a recovery is open.

## 7. Not modelled

The models cover the path of a message from its acceptance to the callback and the
two tools that decide what runs on a host: about a tenth of the repository's
implementation lines. The rest is listed in `PROJECT.json`, part by part. It falls
into four groups:

- Code whose state changes are single transactions on single rows (users,
  applications, signs, templates, settings, audit) or that only reads (queries,
  statistics, dashboards, metrics, reports). A model would repeat its guards.
- Pure data: parsing, signing, encryption, billing segments, content rules, masking,
  validation of requests, and the views and forms of the front end.
- Workflows with leases or journals of their own that no property of a message
  depends on: imports, exports, the daily report, vendor test operations and their
  privileged agent, updates of test hosts. They would be worth a module each. They
  use the patterns of `Outbox`, `RawIngest` and `Release`; the effort went to the
  parts where an error reaches a recipient, a bill or a host.
- What is decided mostly outside the repository (replication and failover of
  PostgreSQL and Redis, tunnels, certificates), of which the scripts see a few
  commands.

Sessions, step-up grants and the rate limiter are left out as well: this project
states properties of the message flow, and the limiter's windows need real time.

## 8. Running the checks

    tlc -workers 2 -config MCOutbox.cfg MCOutbox
    tlapm AcceptanceProofs.tla

A run's module and configuration are under `runs` in `PROJECT.json`; the longest
takes about three minutes. From nothing, a proof module takes between four minutes
(`CallbackProofs`, `ReleaseProofs`) and about a quarter of an hour (`FenceProofs`,
`IngestProofs`). Most leaves name Zenon, which proves them faster than a translation
for Z3 takes.
