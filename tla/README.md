# SpecCouncil: a TLA+ model of the store, the worker, the role runner and the API

SpecCouncil reviews one design document with four specialist reviewers
(`requirements`, `architecture`, `qa`, `security`).  A submission is stored as a
queued session with one role run per reviewer; a worker process claims one
session at a time, dispatches its roles to an LLM provider under a concurrency
cap and two deadlines, publishes what comes back, and a deterministic composer
turns the terminal role rows into a verdict.  Owners may cancel at any time and
the process may die at any time; what has been dispatched is never replayed.

This directory models that core: the database transactions and the wrapper they
run in, submission and its retries, the migrations the database comes from, the
goroutines that work on a session, the calls of one role, and what an owner gets
to read.  It is written from `src/internal`, and `PROJECT.json` maps every
definition to the lines it models.

## 1. Inventory

| Part | State | Operations | Hard because | Correct when |
|---|---|---|---|---|
| Domain (`domain/`) | none: enumerations, legal transitions | `CanTransition`, `LegalSessionTransition` | several writers must agree on one state machine | the store never takes a step the state machine forbids |
| Store (`storage/sqlite/`) | tables `sessions`, `role_runs` (and snapshots, findings) | Submit, ClaimSession, ReservePendingRole, PublishRole*, RequestCancellation, three sweeps, restart recovery, ComposeSession | API, dispatcher, coordinator, role goroutines and a second process all write; clocks are read before the write lock is obtained | cap, one review at a time, FIFO, frozen terminal rows, verdict agrees with rows, cancellation effective |
| Transaction wrapper (`immediate.go`) | one writer connection per process | BEGIN IMMEDIATE, bounded busy retry, rollback, COMMIT, poisoning | ambiguous commit, failing rollback, cancelled contexts, a callback that runs several times | a callback's effect happens once or not at all, and the connection goes back clean |
| Submission (`submit.go`, `api/`) | tables `snapshots`, `sessions`, `role_runs` | Submit: lookup, replay, conflict, insert | lost answers, retries that overlap, two builds that cut a document up differently | one complete session per key; an answer is true |
| Opening and migrations (`store.go`, `migrate.go`) | two pools; `schema_migrations` and the schema | open, discover, load, check, apply | several processes and builds, no lock between reading and applying, crashes between migrations | recorded = applied, in order, and only by builds that agree with the history |
| Read models (`read.go`) | none | ReadStatus, ReadReport | several queries without a transaction | no torn answers |
| Composer (`review/composer.go`) | none | `Compose` | priority of causes | verdict is a function of the terminal rows |
| Role runner (`review/runner.go`, `worker/execute.go`) | one outcome, one call counter | RunRole, transport retry, format repair, backoff | three nested deadlines, cancellation, shared budget of two calls | at most two calls, publishable outcome, always returns |
| Worker (`worker/`) | process lock, dispatcher, role goroutines, channels | Supervise, SuperviseSession, Dispatcher.Step/Run, onReserved, gate | many goroutines, dropped wakes, random select, crash and shutdown at any point | no replay, no stuck role, gate composes exactly finished sessions, every session concluded |
| API (`api/`) | none of its own | submit, cancel, status, report | races with the worker | owner-only access, answers that hang together |
| Ingestion (`ingest/`, `evidence/`) | none | parse, assign ids, hash | pure text processing | same input, same snapshot |
| Provider adapters (`provider/`) | none | `Call` | HTTP errors, context expiry | every failure has a category |
| Benchmark, commands | none shared | offline evaluation, demo | sequential | - |

How they interact: the API writes `sessions` (submit, cancel flag) and never
talks to the worker; the worker finds out by reading the database.  Inside the
worker, the coordinator starts the dispatcher, the dispatcher's reservation
calls back `onReserved`, which starts a role goroutine; the role goroutine
publishes, notifies the dispatcher and wakes the gate through a buffered
channel that drops a wake when it is full.  A second process is kept away by an OS file lock only.

`PROJECT.json` lists the hazards, each at its line, with the property that would
catch it.

## 2. Modules

| Module | Models | Role |
|---|---|---|
| `ReviewLifecycle` | the state model of `domain/status.go` as a promise to the owner | abstract specification |
| `ReviewStore` | `storage/sqlite`: claim, dispatch, publish, cancel, sweeps, recovery, compose; `review/composer.go` | one action per write transaction |
| `ReviewStoreProofs` | - | theorems about `ReviewStore`: rows, verdicts, cancellation, cap |
| `ReviewStoreRowProofs` | - | theorems about its timestamps: row CHECKs, claim order, room for a call |
| `ReviewStoreRefinement` | - | `ReviewStore` implements `ReviewLifecycle` |
| `Worker` | `worker/`: Supervise, SuperviseSession, Dispatcher, role goroutines, lock; extends `ReviewStore` | composition of the store with the processes that call it |
| `WorkerProofs` | - | theorems about `Worker` |
| `RoleRunner` | role context, Execute, RunRole, retry, repair, backoff, provider answers | one role goroutine in detail |
| `RoleRunnerProofs` | - | theorems about `RoleRunner` |
| `ImmediateTx` | `immediate.go`: `withImmediate` with attempts, connection, commit, rollback, poisoning | the transaction wrapper, for any callback |
| `Submission` | `submit.go` and `handleSubmit`; extends `ImmediateTx` | the wrapper composed with the callback of Submit and its HTTP answers |
| `SubmitOnce` | the idempotency promise | abstract specification of `Submission` |
| `SubmissionProofs` | - | theorems about `ImmediateTx` and `Submission`, and the refinement |
| `Migration` | `store.go`, `migrate.go`: opening and migrating | processes of several builds on one file |
| `MigrationProofs` | - | theorems about `Migration` |
| `ReviewAPI` | `read.go`, `cancel.go`, the status, report and cancel handlers, the report order of `review/composer.go`; extends `ReviewStore` | composition of the store with its readers |
| `ReviewAPIProofs` | - | theorems about `ReviewAPI` |
| `MC*` | - | constant values for TLC |

### ReviewStore

`sessions` and `role_runs` are the two tables, as functions of the session id
(and role).  Columns no property tells apart are dropped; `dispatch_cutoff_at`
and `hard_deadline_at` are functions of `claimed_at` because the claim writes
all three from the same reading and nothing changes them later.  A status
`absent` stands for a missing row.

Every write runs under `BEGIN IMMEDIATE` on the only writer, so a transaction is
one atomic step.  Time is not atomic: except in Submit and ComposeSession the
code reads its clock before the transaction, which may wait for the lock and be
retried.  Each action therefore takes a `now` from `Reading`, any clock value at
most `MaxStaleness` old.  Operations that find nothing to do change no row and
are stuttering steps.  The schema's CHECKs are not guards of the model: the
actions have to respect them by themselves (`RowChecksHold`).

Two things follow the code where one might expect something else.  Publication
looks only at the role row, not at the session; and recovery interrupts the
roles of a stale session but leaves the session `reviewing`.

### Worker

An `Attempt` is one call of `Supervise`; the outer supervisor calls it again and
again, and two attempts stand for two processes.  `stage` is the program counter
of the main goroutine (lock, recovery, claim, then the coordinator's select, its
tick, its gate), `dispatcher` that of the dispatcher, `task` those of the role
goroutines.  Points where another goroutine can get in between are separate
steps: the commit of a reservation and `onReserved`; the outcome, its
publication, the gate wake and the counter decrement; each sweep of a tick; the
gate's sweep, its status read, its load of the counter and the composition.  The
caller of `Supervise` chooses the cutoff of the recovery sweep (`cfg.Cutoff`), so
`RecoverySweep` takes any up to the present: with a past one, a session claimed
later keeps its roles.  `localInFlight`, `stopped`,
`ctxDone`, `fatalErr` and `gateWake` are the variables of the same name or
purpose in the code.  `Crash` removes an attempt with all its goroutines and
drops the lock; `Shutdown` cancels its context; a store error
reports failure of a transaction that was rolled back or, when the COMMIT took
effect without confirmation, was not (`Unconfirmed`): a recovery, claim,
reservation, publication or composition may then be in the database although the
attempt has given up on it, and only the next attempt's recovery finds it.  All
three are counted by `faults`.
`executed` is a history variable.

The dispatcher's wake, tick and completion channels are merged: a dispatcher
that waits may wake at any time, which its ticker justifies.

### RoleRunner

One role from `onReserved` to the outcome given to publication.  `roleDeadline`
is the deadline of the role's context, each entry of `calls` has the deadline of
its attempt context.  The clock may move between any two steps.  `timing` holds
the hard deadline and the backoff the role was configured with; `Supervise` has
no way to configure a backoff, so `BackoffMin = 0` is what production runs, and
the model checks both.  A provider body is abstracted to the validation stage
that rejects it, and `None` is the zero value of a category.  The `Sleep` hook of the
tests is left out.

### ImmediateTx and Submission

A `Call` is one HTTP request.  `stage[c]` is where its goroutine is inside
`withImmediate`, `conn[p]` is the only writer connection of a process, `tx[p]` the
open transaction on it, `lock` the database's write lock.  SQLite is external and
modelled by what the code relies on: an error of BEGIN means that nothing was
begun, a busy COMMIT that nothing was committed, and any other error of COMMIT
says nothing (`CommitFails` has both outcomes).  The deferred cleanup, `RollBack`,
may fail as well; then the physical connection is discarded.  A crash takes all
calls of a process with it.

`Submission` adds the callback: the lookup by key, replay, conflict, the snapshot
of another splitter version, the inserts, and a statement that fails after some
of them.  `result` is the variable the callback assigns, over and over if it is
run again.  A statement that finds the database busy ends the attempt with an
error that wraps the driver's, which `withImmediate` retries like a busy BEGIN or
COMMIT; the write lock makes that unlikely, not impossible.  `Answer` is what the handler writes.  `by` in a session row is not a
column; it says which request wrote the row.

`SubmitOnce` has a binding per key and a reply per request.  A key is bound
once; a reply is an error, which promises nothing, or it is true of the binding.

In `ReviewStore` a submission is still one step, and so is every other
transaction: `Submission` shows for one callback that the wrapper justifies that.

### Migration

Processes start with a build, open writer and reader pools, and migrate.  The
applied rows are read before any transaction; each pending migration has its own
deferred transaction, which gets the write lock with its first write.  `schema` is
the sequence of migrations whose SQL took effect and `meta` the rows of
`schema_migrations`; in the code nothing ties the two together except that they
are written in one transaction.  `Rerunnable` are migrations whose SQL does not
notice that it has run before (`006_normalize_legacy_timestamps.sql` is one): only
the primary key stops a second run of these.

### ReviewAPI

A handler's queries are separate steps and the store moves between them, because
the reader pool has no transaction around them.  Findings are written in the
transaction that completes their role.  SQLite may return them in any order, and
the report sorts them by `findingLess`, translated field by field.

### ReviewLifecycle

Sessions and role outcomes without clock, deadlines, dispatch order or rows.
`ReviewStore!Lifecycle` maps an interrupted row to its cause and drops the rest;
`ImplementsLifecycle` says that every transaction is a step of it or invisible.
Verdict and reason are stated there by characterisation (when each one is right)
rather than by the composer's first-match order.

## 3. Runs

Passing runs:

| Run | Instance | Shows |
|---|---|---|
| `four_roles` | 1 session, 4 roles, cap 2, times 0..2, readings up to 1 old | cap, roles inside the session, a full call fits before the hard deadline, verdict stays true, cancellation only on request and effective, terminal rows frozen, refinement of `ReviewLifecycle` |
| `two_sessions` | 2 sessions, 1 role, times 0..3, readings up to 1 old | one review at a time, FIFO, the schema's row CHECKs are never hit |
| `crash` | 1 session, 2 roles, cap 1, 2 attempts, 1 fault | no role reaches a provider twice; rows in flight are exactly those somebody is working on; composition is never refused |
| `live` | 1 session, 2 roles, 2 attempts, no fault | every session gets a verdict; a session cancelled in the queue never calls a provider and ends as `user_cancelled` |
| `queue` | 2 sessions, 1 role, 1 attempt, no fault | the queue drains |
| `calls` | call timeout 3; hard deadline 0, 2 or 7; backoff none or 1..2 | call budget, publishable outcomes, no late success, every role returns |
| `retries` | 3 requests, 2 processes, 2 keys, 2 bodies, 2 attempts, 1 fault | one complete session per key; true answers (refinement of `SubmitOnce`); "unavailable" means nothing stored; no transaction left on a connection; every request is answered |
| `migration` | 2 processes, 5 builds, 3 versions, 3 openings, 1 fault | metadata equals what ran, in order; only agreeing builds write; nil means migrated; nothing left open; opening again after a failure succeeds |
| `reads` | 1 session, 2 roles, 1 client, 3 projects, 2 findings | a report is never torn and never changes; a status is not newer than the roles it shows; the answer to a cancellation shows it |

Why the bounds suffice.  The timing policy 1/1/2 is the smallest one
`TimingPolicy.Validate` accepts; with times 0..2 a session claimed at 0 or 1 has
readings before, at and after its cutoff, and at its hard deadline.  One unit of
staleness is enough for a reading on the other side of each boundary.  Four
roles with cap 2 is the production configuration; the worker runs use cap 1 with
two roles so that a second role waits for a slot.  A single fault at any step is
what the code is written for; `crash` has two attempts so that the second one
meets what the first left behind, including goroutines that outlived its lock.
In `calls`, 0 is a deadline already passed, 2 cuts the first call short and 7
leaves room for two calls.  In `retries` two requests share a connection and the
third comes from another process, so that both kinds of waiting occur; two
attempts make the last one different from the first; the four possible requests
are the same one again, its key with another body, its body under another key,
and that with other units.  `migration` has one build for each way to agree or
disagree with a history, and three openings: one fails, one gets in between, one
comes after.  `reads` has one client because readers do not change what other
readers see; its two findings differ in nothing but their ids, so a report whose
order was not total would be caught.  Deadlock checking is off in every run: a system
whose sessions are all concluded and whose clock has reached its bound may stop.

Runs that show a disagreement (each expects a counterexample):

| Run | The code | The text |
|---|---|---|
| `recovered_session` | after a crash, recovery interrupts the roles of the session under review but nobody composes it; it stays `reviewing` and every later claim is refused | `docs/CANONICAL-FLOW.md:569`: run gate and composer for the recovered session |
| `late_goroutine` | on shutdown, `SuperviseSession` does not wait for the dispatcher goroutine, whose last reservation may start a role goroutine after the process lock is released | `docs/cline/worker/W5-PUBLICATION-COMPOSITION.md:271`: no untracked goroutine remains |
| `call_timeout` | the role's context ends no later than call 1, so a timed-out call is never retried | `docs/CANONICAL-FLOW.md:240-244`: call timeout is retryable |

`NoReplay` holds even with the late goroutine of `late_goroutine`, because the
late reservation takes a pending row, never one that was dispatched before.

Other disagreements between code and text, met while modelling and built into
the actions as the code has them:

- the reservation compares the cutoff with a clock reading made before its
  transaction (`dispatch.go:122`; `docs/CANONICAL-FLOW.md:197`: database current
  time).  `FullCallFits` holds all the same, because the reading that passed the
  test is the one recorded as `started_at`;
- a tick sweeps the cutoff before the cancellation (`supervise.go:761`;
  `docs/CANONICAL-FLOW.md:178-182` looks at cancellation first), so pending roles
  of a cancelled session can end as `deadline_cutoff`;
- `CallCount` is raised before the test that may refuse the call
  (`review/runner.go:200`; line 96 says calls actually made).

### Fairness

Liveness is checked under assumptions the runtime gives: a goroutine that can
run does (WF on the main goroutine, the dispatcher, the coordinator and each role
goroutine); Go's `select` picks among its ready cases at random, so a case that
is ready again and again is taken (SF on the gate, the ticker and the stop
case); the outer supervisor keeps starting attempts; a provider call returns
because its context has a deadline.  Nothing is assumed of owners, the clock or
faults.  In `RoleRunner` time passes, the goroutine runs, and the adapter
returns once its context is done; it may, but need not, return earlier.

In `Submission` every goroutine runs (WF on its steps), and a request that waits
for the connection of its process gets it if it becomes free again and again (SF
on `AcquireConn`): `database/sql` queues its waiters.  Nothing is assumed about the
write lock, which a request may find taken every time; `EveryRequestAnswered`
therefore rests on the bounded number of attempts, not on luck.

## 4. Proofs

Every invariant and action property of the passing runs, and both refinements, are
stated by a theorem.  The proof modules build on each other as the models do:

    ReviewStoreProofs <- ReviewStoreRowProofs <- ReviewStoreRefinement <- WorkerProofs
    ReviewStoreProofs <- ReviewAPIProofs
    RoleRunnerProofs, SubmissionProofs, MigrationProofs stand alone

`WorkerUsesTheStore` and `APIUsesTheStore` say that the compositions only ever take
steps of the store, so everything proved of `ReviewStore` holds in them too.

### ReviewStoreProofs

It proves, for every set of sessions, every sequence of distinct
roles, every cap and every valid timing policy:

| Theorem | States |
|---|---|
| `TypeCorrect` | `TypeOK` |
| `InvariantHolds` | the inductive invariant `IInv` |
| `AtMostOneReviewing` | `OneReviewing` |
| `RolesInsideSession` | `RolesFollowSession` |
| `VerdictNeverContradicted` | `VerdictStaysTrue` |
| `NoUnaskedCancellation` | `CancelledOnlyOnRequest` |
| `TerminalRowsFrozen` | `TerminalFrozen` |
| `CancelStopsDispatch` | `NoStartAfterCancel` |
| `CapRespected` | `InFlightCap` |

The argument.  `IInv` is the conjunction of `TypeOK`, `OneReviewing`,
`RolesFollowSession`, `VerdictStaysTrue` and `CancelledOnlyOnRequest`.
`VerdictStaysTrue` is not inductive alone: publication does not look at the
session, so only `RolesFollowSession` (no role of a concluded session is in
flight) keeps a late result out.  Two lemmas carry the case analysis:
`SessionStep` says what a transaction can do to one session row and `RoleStep`
what it can do to the role rows of one session; the invariants are then proved
from these effects, not from each action again.  `TerminalQuiet` combines both
(nothing about a concluded session changes).  The cap has its own lemma on what
one step adds to the set of roles in flight, and uses that this set is finite.

Assumptions: `StoreConstants` (ids are numbers, roles are distinct, `Null` is no
number), `TimingPolicyValid` (what the code's `Validate` enforces) and
`NullIsNoWord`.  TLC evaluates all of them in every run.

### ReviewStoreRowProofs

For every staleness of the clock readings, under the same assumptions:

| Theorem | States |
|---|---|
| `RowInvariance` | the inductive invariant `RowInv` |
| `ChecksNeverFire` | `RowChecksHold` |
| `FirstComeFirstReviewed` | `NotOvertaken` |
| `CallFitsBeforeDeadline` | `FullCallFits` |

`RowInv` is `IInv`, the three properties, `CreatedInThePast` and
`StartedInThePast`.  The schema demands that a row's times are ordered, but each
operation brings its own reading, which may be older than the row it meets; claim
and publication refuse such a reading, recovery and composition take
the later of the two times.  That a recorded time is never
ahead of the clock is what this argument needs of the rows, and what makes the
claim order inductive: a session submitted later cannot get an earlier
`created_at` than one already claimed.

### ReviewStoreRefinement

| Theorem | States |
|---|---|
| `StoreKeepsThePromise` | `ImplementsLifecycle`: `Spec` refines `ReviewLifecycle` |

One lemma per transaction shows which step of the lifecycle it is; those that
touch only times are stutters.  `VerdictIsRight` relates the composer's
first-match order to the lifecycle's characterisation of each verdict.  `RefInv`
adds `AbsentIsBlank` to `RowInv`: the lifecycle's Submit keeps the cancel flag and
the reason, the store's writes a whole row, and the two agree only because a row
that does not exist has nothing set.

### WorkerProofs

For every number of attempts and faults, every cap and every set of sessions and
roles:

| Theorem | States |
|---|---|
| `WorkerInvariance` | the inductive invariant `WInv` |
| `WorkerUsesTheStore` | `WSpec => Spec` |
| `WorkerKeepsThePromise` | `ImplementsLifecycle`, of the whole worker |
| `WorkerTypes` | `WTypeOK` |
| `ProviderWorkNotReplayed` | `NoReplay` |
| `NoRoleForgotten` | `InFlightAccountedFor` |
| `CompositionAccepted` | `CompositionNeverRefused` |

`NoReplay` counts handovers of a role to a provider, and nothing in the count
itself keeps a second attempt away.  What does is in three parts: a session is
claimed once and never queued again (`Ownership`), a pending row was never handed
over (`PendingUntouched`), and a role with a goroutine or a reservation is no
longer pending (`Engaged`).  `Ownership` also covers goroutines that outlive their
attempt's lock.  `SlotsCounted`, `BusyInFlight` and `NoneForgotten` relate the
dispatcher's counter, the goroutines and the rows; the last two hold only while
the attempt supervises, since afterwards another attempt's recovery may end the
rows.  A composition is accepted because the gate saw terminal rows, which stay
terminal (`StaysTerminal`) while the gate loads the counter and until the
composition runs, and then no goroutine of its own is left (`ReadyToCompose`).

Assumption beyond the store's: `WorkerConstants` (`NoOne` is no attempt, session
or role).

### RoleRunnerProofs

For every call timeout, hard deadline and backoff, and whatever the provider answers:

| Theorem | States |
|---|---|
| `Invariance` | the inductive invariant `IInv` |
| `RunnerTypes` | `TypeOK` |
| `CallBudgetKept` | `CallBudget` |
| `OutcomeAlwaysPublishable` | `OutcomePublishable` |
| `SuccessIsInTime` | `NoLateSuccess` |

`CallCount` is raised before a call is tried, so the count and the calls made
differ at some points; `Whereabouts` says at which, and how the first call ended
when the second is a retry or a repair.  `CallsInTime` bounds every call's deadline
by the role's, which gives `NoLateSuccess`.

### SubmissionProofs

For every set of requests, processes, keys and bodies, every number of attempts
and every number of faults:

| Theorem | States |
|---|---|
| `Invariance` | the inductive invariant `IInv` |
| `SubmissionTypes` | `TypeOK`, which bounds the attempts |
| `PoolIsClean` | `NoTxLeftBehind` |
| `KeyIsBoundOnce` | `OneSessionPerKey` |
| `SubmissionIsAtomic` | `NoPartialSubmission` |
| `UnavailableIsHonest` | `UnavailableStoredNothing` |
| `SubmitIsIdempotent` | `ImplementsSubmitOnce`: the safety refinement of `SubmitOnce` |

The invariant has three layers.  `Pool` and `Own` tie stages, connection,
transaction and lock together; they give `OneWriter`, that two calls are never
inside their transactions at the same time.  `Ready` says what a callback that
returned nil has written and assigned, in terms of the database as it is now:
nothing and the session of its key, or a whole submission of a free key.  It
survives the steps of others because of `OneWriter`, and it is what makes a commit
keep the database whole (`CommitKeepsDatabase`).  `Fate` and `Told` say what the
database holds on behalf of a call, by stage and outcome: a session in the
database belongs to a call that has committed, whether it knows or not, so a call
that is still going to retry cannot have written one.  The refinement needs
`Told` (what an answer says is true when it is given), `IdsByMaker` (a new id is
new) and `OneSessionPerKey` (the session chosen for a key is the only one).

Assumptions: `TxConstants` and `SubmissionConstants` (at least one attempt;
`NoOne` is no call, process, request or session).

### MigrationProofs

For every set of processes and builds, any number of migrations, openings and
faults:

| Theorem | States |
|---|---|
| `Invariance` | the inductive invariant `IInv` |
| `MigrationTypes` | `TypeOK` |
| `MetadataTellsTheTruth` | `SchemaMatchesMetadata` |
| `NothingIsLeftBehind` | `NothingLeftBehind` |
| `NilIsTrue` | `NilMeansMigrated` |
| `HistoryIsAgreedUpon` | `OnlyAgreeingBuildsWrite` |
| `NotTurnedAway` | `AloneAndAgreeingSucceeds` |

A process works from rows it read earlier, so the invariant says what such old
knowledge is worth: `Knows` states that what it has seen, or has not pending any
more, is a prefix of the database (`SeenPrefix`, `AppliedUpTo`).  Prefixes stay
prefixes when others append.  `Writes` states what a transaction holds; once the
row is recorded, the primary key has shown that the prefix is the whole database,
and the write lock keeps it so until the commit.  The checks of `migrateDB` and
the absence of gaps make the first pending migration the next one
(`CheckedManifest`, `CurrentIsNext`).

`NotTurnedAway` needs the converse, that a process without bad luck has no reason to
fail.  `Calm` says of a process nothing has disturbed that it is alone, that what it
read is still the database, and that what it is going to apply is new; so a refusal
can only come from the build or the database, and `ReasonStays` shows that such a
reason does not go away while the outcome is on record.

Assumption beyond types: `NoGaps`, the numbers of a build's files have no gaps.
The embedded files satisfy it; `discoverManifest` does not check it.

### ReviewAPIProofs

For every number of clients and every set of findings:

| Theorem | States |
|---|---|
| `APIInvariance` | the inductive invariant `APIInv` |
| `APIUsesTheStore` | `APISpec => Spec` |
| `APITypes` | `APITypeOK` |
| `ReportsAreFinal` | `ReportIsFinal` |
| `StatusesHangTogether` | `StatusHangsTogether` |

A handler reads session, roles, findings and citations in separate queries.
`ReadSoFar` says what the ones already made are worth: once the session row read
is terminal, it and all that is read after it equal the database for good
(`TerminalQuiet` of the store, and findings are only written while their role is
in flight).  A row that was not terminal promises nothing, which is why the status
is only bounded in one direction.  The report attaches citations by role and
finding id; `CitationsRestored` shows that this gives back what was stored, because
ids are distinct within a role.  The order of the report is unique because `findingLess`
is total on findings that differ in role or id: two sorted lists of the same set
would have a first place where they differ, which is a least number and needs no
induction over lists.

Assumptions beyond the store's: `APIConstants` (the fields of a finding have their
types, and a finding without citations has an anchor, which publication enforces)
and `NullIsNoRequest`.

### Only model-checked

- Liveness: `EverySessionConcluded`, `QueuedCancelHonoured`, `RoleReturns` and
  `EveryRequestAnswered`.  Fairness and ENABLED are out of the prover's reach.
- The three counterexamples, which are statements about an instance.

## 5. Not modelled

- Ingestion (`ingest/`, `evidence/`): a pure, sequential function from text to
  units.  A model would repeat the string processing; `Submission` uses that equal
  text gives equal units under one splitter version.
- The field rules of response validation and publication: one check of a text
  or number per field.  The runner depends on the stage that rejects a body,
  which is modelled; the report depends on distinct finding ids, which are too.
  The rules are written twice (`review/validate.go`, `publish.go:131-213`); that
  the copies agree, without which an accepted result could not be published, was
  compared by reading and is no property: `OutcomePublishable` is about status,
  category and call count only.
- The reason of a session that is due for cutoff and cancellation at once: both
  outcomes are reachable, and no property prescribes one (section 3).
- JSON, routing, methods, content types and authentication of the API;
  `ReadSnapshot`, which reads rows that never change; the checks of the read
  models for malformed rows.
- The reread of Submit after a UNIQUE violation: under the write lock the lookup
  before it has already seen the row.
- A panicking callback of `withImmediate` (same cleanup, then the panic goes on)
  and its test hooks.
- The steps of the wrapper inside `Worker`: there an operation is one step that
  succeeds or fails with or without effect.  Attempts, busy retries, rollbacks and
  the pool are modelled in `ImmediateTx`, with Submit as the callback.
- A liveness property with faults: sweep errors are dropped and the next tick
  tries again, but `live` and `queue` run without faults, because after a crash
  the property fails for another reason (`recovered_session`).
- The DSN, path and option checks of `Open`, and the column-by-column comparison
  of `schema_migrations`: the table is ours or it is not.  No command of the
  repository calls `Open` or `Migrate` yet; the caller is the one of the tests,
  which closes the store afterwards.
- Migration files with gaps in their numbers.
- The nanosecond encoding of timestamps and the overflow test of the policy.
- Path checks of the lock file and `ProcessSupervisor`'s mutex.
- Prompts, the in-memory engine, the benchmark and the commands: sequential
  programs without shared state.

## 6. Plan

The order in which the modules were written: store, worker, role runner; then the
wrapper with submission, migrations, and the read side.  What is left:

1. `RoleRunner` shown to implement the atomic `ExecuteReturns` of `Worker`.
2. The session part of `Submission` shown to implement the one-step Submit of
   `ReviewStore`.

## 7. Running

    tlc -config ReviewStore_four_roles.cfg MCReviewStore
    tlapm ReviewStoreProofs.tla

and likewise for the other configurations, `*Proofs` modules and `ReviewStoreRefinement`; the first part of
a configuration's name is the module, with `MC` in front.
