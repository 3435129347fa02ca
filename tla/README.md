# A TLA+ model of ts-effect-crablet

ts-effect-crablet is an event store with Dynamic Consistency Boundaries (DCB) on PostgreSQL, with a command
framework on top and background processors behind it. This directory holds a formal model of its protocols:
TLA+ modules translated from the code in `src/packages` and the two example applications, TLC runs that check them on small instances, and
theorems about them that TLAPS checks for every instance. `PROJECT.json` maps every definition to the lines it
translates.

Contents: [the system](#1-the-system) · [the modules](#2-the-modules-and-the-code) · [the runs](#3-what-is-checked) ·
[fairness](#4-fairness) · [the proofs](#5-what-is-proved) · [what the code does otherwise](#6-where-the-code-and-its-words-differ) ·
[what is not modelled](#7-what-is-not-modelled) · [the plan](#8-the-plan) · [how to run it](#9-running-it)

## 1. The system

All state that outlives a process is in PostgreSQL. Processes talk to each other through it only: rows,
transactions and their ids, advisory locks, `LISTEN`/`NOTIFY`. Everything runs at READ COMMITTED, where each
statement sees a snapshot of its own. That is what most of the difficulty comes from.

| component (packages/) | state | operations | talks to |
|---|---|---|---|
| **Event store** (eventstore `EventStore.ts`, SQL V1, V2, V6, V7) | the table of events, ordered by (transaction id, position); advisory locks held by open transactions | `project` / `readToDecide` (a snapshot, then the rows), `appendEvents`, `appendEventsIf`, `read`, `stream` | called by commands, applications, deadlines |
| **Snapshots and positions** (`ReadSnapshot.ts`, `LogPosition.ts`) | pure values | `sees`, `intersect`, `earliest`, order | the event store |
| **Wake-ups** (`WakeupNotifier.ts`, `Listen.ts`, `SharedListen.ts`) | what types are pending to be announced; listeners | announce after commit, coalesce, listen, reconnect | from the store to the processors and read waits |
| **Leader election** (`Leader.ts`) | a session shared by the leaders of one process; members; a lock per processor and a lease at the server | attempt, check (heartbeat, fence), release, lose | used by every processor loop |
| **Command executor** (commands `CommandExecutor.ts`, `Command.ts`, `CommandDecision.ts`, `Repeat.ts`) | one transaction per attempt | find a duplicate, resolve lookups, load, decide, append, audit, retry a conflict | the event store |
| **Models and periods** (`Model.ts`, `Period.ts`) | none | load an entity, find its open period, turn it | inside the executor's attempt |
| **Event processor** (event-poller `EventProcessor.ts`, `PostgresProgressTracker.ts`, `internal/sql.ts`) | one progress row per processor: cursor, errors, status | tick (status, register, cursor, fetch, fence, handle, move, reset the count), leader loop, polling with backoff | the log, the leader lock, a handler |
| **Processor management** (`ProcessorManagementService.ts`) | the same row | pause, resume, reset, lag, backlog | beside the ticks |
| **Views** (views) | tables of the application | a batch and its cursor in one transaction; reads that wait for a marker | the processor; HTTP reads |
| **Outbox** (outbox) | as a processor per topic and publisher | publish one event after the other, keep what was sent | the processor; brokers |
| **Automations** (automations) | as a processor | run a command for a trigger event | the processor and the executor |
| **Deadlines** (automations, commands `Deadline.ts`, SQL V5) | a table of deadlines that have not fired | list what is due, run the command, record the firing | the processor's loop, the executor |
| **In-memory store** (eventstore `spec/Spec.ts`, `testing/InMemoryEventStore.ts`) | the log as an array | the same operations, as pure functions of the log | tests; the model of the wallet |
| **Event definitions and tools** (commands `Event.ts`, `Personal.ts`, `VerifyEvents.ts`, `EventFixtures.ts`, `ModelImpact.ts`) | fixtures and a baseline in the working copy | decode, redact, walk the log and verify it, capture fixtures, compare models with events | the log; CI |
| **HTTP** (commands-http, views-http, processors-http) | none of its own | a command's answer, consistent reads, pages of the log, the operator's requests | the services above |
| **Example: wallet** | four views | five commands and an automation over three models, one with a period | everything above |
| **Example: course enrolment** | three views | commands, two automations, deadlines that run four commands | everything above |
| **Metrics, test support, migrations runner, tools** | none | counters, fixtures | the services above |

What is hard about it:

* **Order.** Transaction ids are taken in one order, commits happen in another, rows become visible in a third.
  A cursor that passes an id which has still to commit loses its events for good. The append condition, the
  processors' fetch and the causal order of events all rest on snapshots and on `pg_snapshot_xmin`.
* **Conditional appends without a common lock.** Each append locks a few hashed keys derived from its events and its
  queries, shared or exclusive. Correctness needs the sets of every conflicting pair to meet; progress needs one order.
* **Repeats.** A caller that got no answer sends its request again; a trigger is delivered again; the first attempt
  may be anywhere. Keys, fingerprints, the unique index on (cause, emit key) and `byModel` decide what is a repeat.
* **Leaders that do not know.** A leader's session may be gone before it notices. Fences, the compare-and-set of the
  cursor, and a lease measured from two ends keep a second leader and the first apart.
* **One session for many leaders.** Attempts, releases, heartbeats and stops of several processors interleave on one
  connection whose statements may stay unanswered and take effect late.
* **Operators and failures at any moment.** pause, resume and reset, crashes, and errors in a row, between any two
  statements of a tick.
* **Hints that get lost.** A wake-up goes through a merge, a timer, a payload of limited size, a connection several listeners share, a
  hub that drops and a sleep that may have just begun. Each is allowed to lose it only where the interval makes up for it.
* **Reads beside the writes.** A consistent read looks at a cursor and at what is pending in two statements and sleeps between looks; its
  page may be shown by a process whose listener just reconnected.
* **Two steps that belong together.** A deadline's command and the record of its firing, an event published and the cursor that says so,
  a period closed and the next opened, a trigger handled and the automation's row.
* **Events that outlive the code.** Rows written by one release are read, shown and verified by another.

What makes each correct is stated in the modules and listed in section 3. `PROJECT.json` lists 26 components with
their status and 40 hazards, each at the line where it bites, with the properties that watch it.

## 2. The modules and the code

```
ReadSnapshot ── EventLog ──┬── EventStore ── MCEventStore          Dcb ── DcbLog  (abstract: a serial log)
                           │      └─ implements DcbLog                └── EventStore, Command, Period
                           ├── Poller ── Outbox ── MCOutbox         Command + Period ── CommandProofs ── MCCommand
                           ├── Reads ── MCReads                     Wakeups ── MCWakeups
                           └── Evolution ── MCEvolution             LeaderLease ── MCLeaderLease
EventDefs ── Evolution                                             LeaderSession ── MCLeaderSession
AppendSpec ── Models ··> Wallet;  AppendSpec, Calendar ── Wallet ── MCWallet
Enrolment + Deadlines ── Course ── MCCourse                        ViewTable ··> Course, Wallet    (··> by INSTANCE)
theorems:  EventStoreProofs;  ProcessorProofs (of Poller and Outbox);  ReadsProofs;  WakeupsProofs;
           LeaderLeaseProofs;  LeaderSessionProofs;  CommandProofs;  CourseProofs
```

### The log and the store

* **`ReadSnapshot`**: `sees`, `intersect`, `earliest` and the order of positions (`ReadSnapshot.ts`, `LogPosition.ts`). A
  snapshot is `[xmin, xmax, xip]`. Formatting and parsing are left out.
* **`Dcb`**: which events a query matches, and the advisory locks an append takes (the SQL functions of V2 and V6: a
  leaf key per type and tag, a key per type, one for the whole log, each hashed). The hash is a constant, so keys
  may collide, and in the runs some do.
* **`EventLog`**: what PostgreSQL gives every component: transaction ids, the rows of running and ended transactions,
  `pg_current_snapshot()`, the settled horizon. A position is taken by the insert. The snapshot follows the server:
  `xmax` is one past the newest finished id and not the next one to give out.
* **`EventStore`**: sessions that run transactions of one or more appends. An append reads its queries (`project`:
  snapshot first, rows second, per query), then runs `append_events_if`: the first-write rule (CRB01), locks one at a
  time in the order of their numbers, the key, the conflict, the transaction id, and one insert per event with its
  emit key. Any transaction may be rolled back at any point, may have written elsewhere before, and may be the
  victim of PostgreSQL's deadlock detector. One step is one statement, except the appending function, whose steps are its own
  statements: at READ COMMITTED each of those has a new snapshot.
* **`DcbLog`**: what the store promises, with nothing concurrent in it: whole transactions join the log one at a time,
  and each of their decisions was made on exactly the events its queries match in the log it joins. `EventStore` implements it
  with `log <- CommittedRows` (`SerialAppends`). A row remembers what its decision read (`basis`), a history value
  that no guard reads.

### Processors

* **`Poller`**: one processor run by several instances. A tick is `processWith` of `EventProcessor.ts`, each
  statement a step. `Kind` selects the three ways a batch becomes durable: a *view* commits its
  writes and the cursor in one transaction, a *publisher* reports the prefix it has sent, an *automation* succeeds or fails as a
  whole. Leadership is what the processor sees of it: `owner` is the server's view, `leads` each instance's own, and a tick
  keeps the handle it began with. `Unfenced` instances call `process` directly. The log is `EventLog` with anonymous
  writers. The operator's `reset` is three statements.
  Pausing, resuming or resetting a processor that has no row changes nothing, as in the code.
* `Kind = "automation"` differs from a publisher by leaving out the prefix. No run sets it; every theorem of `ProcessorProofs` about the
  processor holds of all three kinds, and what its redeliveries do to commands is in `Command` (a cause) and `Course`.
* **`Outbox`**: one pair of a topic and a publisher, which is `Poller`'s publisher in individual mode, and all that looks at it: the consumer at
  the destination, with publishes that arrive late (`wire`: what a process that was stopped had sent); the operator's requests and their
  answers; the listing and the backlog sample, whose cursor and count are two statements; and a client that reads pages of the log.
  These do not act on one another, so a behaviour has one of them (`watch`). The pairs share a leader and nothing else. Batch mode is one call of the same.
  `leader_instance` and its heartbeat are left out: nothing reads them. An unknown id answers 404 and writes nothing.
* **`Wakeups`**: from a commit to the end of a sleep: the notifier's pending types and its timer, payloads merged and cut to size, the connection
  that a process's listeners share (`SharedListen`), a stream that listens again, the hub that drops its oldest, the loop's sleep,
  and the standby's hint that a lock was released. There is no clock: a sleep ends by a wake-up or by its interval,
  and how long the interval is (the polling backoff) is left out. `excused` is the history of what the code leaves to the interval:
  an overflow, a failed send, a crashed writer, what a full batch left over, events held up by an older transaction, new leadership, and what
  was committed between the first tick and the first `LISTEN`.
* **`Reads`**: a consistent read: the policy of the endpoint and the request, `readCheck`, the wait of each view that is behind (look, ask what is
  pending, pause, wake), the deadline they share, `SettleViews`, and the answer in each mode; the hub of views' pings with its
  reconnects; the feed of a page. Views move as `Poller` promises.
* **`ViewTable`**: the operations a view's handler returns, as SQL applies them (`ViewOpSql.ts`) and as the tests' maps do (`ViewMemory.ts`). `Course` and
  `Wallet` apply both, and their runs ask that the tables agree where the code can have both: in the wallet's four views (`wallet-view-tables.test.ts` compares
  them for one history) and in the course's seats and readiness. The course's enrolments are in SQL only: `raw` computes their seat numbers, and
  `applyOp` throws on it (`ViewMemory.ts:49`), so `memory` has the `Replayable` tables.

### Leadership

* **`LeaderLease`**: one attempt per session, in discrete time: the heartbeat, `verifyTimeout` and
  `failuresBeforeLost` of the leader, `idle_session_timeout` of the server, statements and answers delayed at will, silent
  partitions and killed sessions. Timers are never late (a stalled event loop is outside the model, as it is
  outside ADR-0045). The fence's `verify` is omitted here: it can only add failed checks. `serverIdleTimeout: "off"` and
  replicas are not modelled.
* **`LeaderSession`**: what the leaders of one process do on the session they share (ADR-0046): reserve, lock, lease, share,
  refuse, check, lose, release, abandon, retire, and the retry loop and `stop` of each module. Without clocks: a timeout is a
  step that may happen whenever the connection does not answer. Statements nobody waits for any more are kept in
  `late` and may still take effect. Connections on which a statement went unanswered are retired, as the driver
  does. (Bound: one fence's check at a time per session.)

### Commands

* **`Command`**: calls of `CommandExecutor.run`, several at a time: the key's look-up, the reads of `resolve` and of the load one
  by one, the decision, the append under its locks, the audit row, the commit, a retry after a conflict. What a
  command is (its reads, its load, `decide`) is given by constant operators. A read is one step and a commit one
  number here; `EventStore` has their statements apart and shows that they amount to this. All calls are
  sent at the start, so every order of them happens. Declarations that `defineCommand` refuses are assumed away
  (a guard over the command's own types, an empty query). The audit row is only a step at which the
  transaction may fail.
* **`Period`**: the reads of a model with a period (`periodModel`) and what it makes of them: decide in the open period, or turn
  it, closing the old one and opening the new one in the command's own append. Calendar arithmetic is a number; a
  process's clock may be one period behind.

* **`AppendSpec`**: reads and conditional appends as pure functions of a log, the repository's own executable specification (`spec/Spec.ts`) and the
  store in memory that follows it.
* **`Models`**: from the handlers of a model, its query, its fold and the guard tags; a model with a period over one log. (`Period` has the
  same load read by read.)
* **`Calendar`**: which year, month, week or day a clock is in, its key, and whether the keys of a level sort in the order of time. The wallet's months come
  from it (`AtLeast`); `MCWallet`'s `ASSUME MCKeysSort` has TLC compute, at the start of the run, the keys of all levels for every day of fourteen years.
* **`EventDefs`**: definitions with schemas and tags, the decoder, what is marked personal and its redaction, fixtures, impact findings and
  their baseline. Schemas nest (structs, optional fields, unions, arrays, records); tuples and transformed fields are left out.
* **`Evolution`**: releases over one log. A behaviour is a verification of what all releases write while transactions go on; a deployment, whose pods
  write and show events and capture fixtures; or a working copy that changes against its baseline. Its `ASSUME MarksStay` is
  what a team has to keep: a later release does not unmark a field it still has.

### Deadlines and the two applications

* **`Deadlines`**: the table of pending deadlines, a batch of what is due by the pod's clock, the command and the record of its firing as two
  steps, the fire timeout that gives up on a command that commits after all, crashes, a change of pod, the stop at too many errors. What a
  command does is joined to it by `Course`.
* **`Enrolment`**: the course domain: events and tags, the models as the state their folds have reached, every command's decision.
* **`Course`** composes the two with clients, the automations and the views on pods whose clocks differ. A command is one step: that it decides on the
  log it appends to is what `DecidedOnTheLog` and `SerialAppends` say. Views are at the end of the log. What an automation has
  been asked is a set; an answer may be lost before its cursor moved, and the command is run again.
  `windowClosesAt: null` is left out, and a key used for another input changes nothing, so it is not an action.
* **`Wallet`**: the commands, what HTTP answers, the four views and the paged reads. A command decides on an older log (any earlier point where an
  append ended) by a clock up to a period off, and the append's verdict is `AppendSpec`'s on the newer one. Owners, balances that events only
  record, tiebreaks, the correlation header and the encoding of page cursors are left out.

The MC modules give the constants small values; `poller_live` needs none and runs on `Poller`.

## 3. What is checked

Twelve runs, all of which pass: one per question. Sizes are distinct states.

| run (module) | what it asks | states |
|---|---|---|
| `store_races` (MCEventStore) | three sessions, three transactions of seven kinds (an entity; two entities read one after the other; a whole type under a key; a late command in a transaction that has written; one that holds the horizon back and then appends twice, its locks in another order, so that a deadlock forms and the detector acts; an automation's append; its trigger with another outcome): **`SerialAppends`** (implements `DcbLog`), **`BoundaryHeld`** (after its check nothing joins an append's boundary), **`SortsAfterItsBasis`** (effects sort after causes), **`OncePerKey`**, **`ConflictIsReal`** (no refusal for what was seen), **`CommandsDoNotDeadlock`** | 474,841 |
| `wakeups` (MCWakeups) | two commits, a processor and the progress hub on one connection, anything lost once: **`WakeUpOnItsWay`** (what nothing lost ends the sleep; a standby is told of a lock released on purpose), **`NamesCommitted`** (no wake-up for what is not committed), **`ConnectionIsShared`** | 1,268,886 |
| `poller_live` (Poller) | a view under crashes, lost sessions, failures and an operator between any two statements: **`HandledInTheEnd`**, **`ViewIsItsCursor`** | 289,200 |
| `outbox` (MCOutbox) | a publisher under two instances, its consumer, its operator, its reports and a reader of the log: **`NoSkip`**, **`FollowersMissNothing`** (whoever goes on from where he is), **`AnsweredPauseHolds`**, **`CaughtUpIsTrue`** | 2,057,347 |
| `reads` (MCReads) | an endpoint over two views, every marker and mode: **`ReadsWhatWasWritten`**, **`SleepersAreTold`** (no wait and no page sleeps on news it missed), **`ReadsEnd`** | 540,126 |
| `lease_kept` (MCLeaderLease) | two sessions with one `verifyTimeout` of margin: **`OneLeader`**, **`StopsInTime`** | 4,331,599 |
| `session_shared` (MCLeaderSession) | two modules, two locks, one session, another process: **`LostMeansFailed`** (no healthy leader is lost), **`PooledIsClean`** (no connection goes back with a lock) | 3,472,892 |
| `session_live` (MCLeaderSession) | two modules, one lock, stops: **`OneLeaderOfAKey`**, **`LedInTheEnd`** | 351,512 |
| `command_races` (MCCommand) | three calls, thirteen mixes of seventeen requests: **`AppliedOnce`**, **`DecidedOnTheLog`**, **`AnswersAreTrue`**, **`EveryCallIsAnswered`** | 128,161 |
| `course` (MCCourse) | the enrolment app on two pods: **`SeatsAreCounted`** (capacity, and the three models that count the same seats agree), **`WhatWaitsHasADeadline`**, **`EndedOnceForAll`** (an ended subscription, fee, course or deadline stays so, is recorded once), **`RowsShowTheModels`**, **`SeatsAreLostForAReason`** | 395,137 |
| `wallet` (MCWallet) | the wallet app with clocks a period apart: **`StatementsAddUp`** (a statement's opening, its movements and its closing, and all of them together, are what the log says the wallet is worth), **`ClosedWalletsAreStill`**, **`ReadsAreSo`** (the four views, their rows replayed in memory, and the pages listed of them), **`AnswersAreSo`** | 5,210 |
| `evolution` (MCEvolution) | three releases over one log: **`VerifiedIsReadable`**, **`NothingPersonalIsShown`**, **`ReasonsAreOfNow`** | 206,437 |

Every property has a mutant in `PROJECT.json`: an operator with a plausible bug that replaces a definition of
the model, under which TLC finds that property violated. The type invariants are conjuncts of one of these properties or, where they are proved,
theorems.

### Bounds, and why they are enough

* **Store.** A race of the append condition is between two transactions; the third session is for what shows only with a bystander:
  an open transaction that keeps `xmin` back, or a third lock holder in a circle. Three transactions in all (`MaxRuns`)
  give each session one, or one session a retry. Two types and two tags make a leaf, a type-wide and a
  tag-wide query all different; the lock hash puts two keys on one number.
* **Poller and outbox.** Skipping takes two writers whose ids, positions and commits come in different orders: `MaxXid = 2`, and in
  `outbox` `MaxPos = 2`. A zombie and its successor are two instances; three would add a second zombie, which is the same to the row's
  compare-and-set. `MaxErrors = 2` with a failure and a fault reaches FAILED and a count that has to be reset. A page or a batch
  of one makes every walk go on from a cursor. `poller_live` has one event, because liveness of several is the same argument repeated while its
  graph grows fast.
* **Wake-ups.** Two events share a window or have one each; a hub of one overflows at the second; a batch of one leaves a rest. One fault,
  anywhere. `Separated` and `MaxNames` keep payloads in one piece; what happens when they are not is in section 6.
* **Reads.** One view that may fail and one that may not; two markers; one fault. Two views are enough to let one be caught up, failed
  or late while the other is not.
* **Lease.** Two sessions race for one lock; the intervals are the smallest that tell heartbeat, `verifyTimeout` and
  the number of failures apart. One instance is enough because the theorem has all others.
* **Session.** Two modules share or contend; two connections are the current session and its successor; two or three
  handles allow a lost leader, its successor and a stale one. One fault and one turn of another process, at any moment.
* **Command.** Three calls are a command, its repeat and a competitor, or three competitors; one retry makes both a retried
  and a final conflict; one fault at any statement. Periods run to 2.
* **Course.** Two students for one seat of one course, two pods with a clock that differs by one, time past the payment window, an invoice's due date and the
  readiness deadline, three client requests, a deadline's fault that stops the processor. Seven deadlines are those of a course, a seat, a fee
  and two invoices; invoices are followed up to the fourth, which seven deadlines cannot reach. The limit of courses per student is not reached with one course.
* **Wallet.** Two wallets and ten requests: the same id with the same and with another input, a transfer between wallets and one to
  itself, a closing; seven events are an opening with its statement, a deposit, a turn (two more) and two commands. Clocks differ by one
  period. The state is small because a command is one step over a prefix of the log.
* **Evolution.** The releases rename, mark, drop and require a field and add a type; two transactions and two rows are what a walk can
  meet in the wrong order; a page of one.

Deadlock is checked in `store_races`, `wakeups`, `poller_live`, `outbox`, `reads` and `lease_kept`. `LeaderSession` may really stop (all modules
stopped, or the bounded handles used up), so may `Command` (every call answered), and `Course`, `Wallet` and `Evolution` stop at their bounds: theirs
say `CHECK_DEADLOCK FALSE`.

### What the properties leave out, and why

* `OneLeader` exempts sessions that were killed (`pg_terminate_backend`, a failover): a killed leader leads until its next check,
  and what protects the data then is the fence and the cursor, which `Poller` has.
* The lock and the lease are two statements (`Leader.ts:350`); a partition exactly between them leaves a lock that no timeout of the
  server frees. The lease's properties are of sessions that have both.
* `AnswersAreTrue` says nothing of an "already done" from a command with lookups, and `IsDoneAt` accepts rows without a fingerprint as the code
  does (section 6).
* A refusal or a no-op decided on a lookup or a model that changed meanwhile is returned as it is: nothing is appended, so no
  condition is checked. `DecidedOnTheLog` is of what commits.
* `AnsweredPauseHolds` lets the ticks go on that were under way when the request was answered, whatever they record: the status is read
  once, at the start (`EventProcessor.ts:174`), and such a tick may mark the paused processor FAILED.
* `LostMeansFailed` and `PooledIsClean` are of modules that are not stopped (section 6).
* `AnswersAreSo` allows the 500 of a transfer between wallets whose periods end between two clocks (section 6).
* `VerifiedIsReadable` is of a verification of all events; one of a sample promises nothing.
* That seat numbers are distinct is not asked (section 6).
* Three formulas are defined and in no run: `EventStore!EveryRunEnds` (liveness of the store: it needs a run of its own, since the symmetry
  of `store_races` is not sound for it), `LeaderSession!StoppedHoldsNothing` and `Command!NoLoadDies`, which
  the code does not keep (section 6; `TurningSendings` of `MCCommand` is the latter's instance).

## 4. Fairness

Liveness is checked under the least the code and the server give:

* **`FairStoreSpec`**: a session runs its statements (weak); a statement that waits for a lock or an emit key is served
  (strong, because PostgreSQL serves its lock queue in order and the model has no queue, only a condition that can become false again);
  the deadlock detector runs (weak). Nothing is owed to beginning or rolling back a transaction.
* **`FairPollerSpec`**: writers' transactions end (`idle_in_transaction_session_timeout`, which the code reads at the start, and warns of if it is off, in
  `ServerSettings.ts`); an instance that leads polls, and a tick that is under way goes on; the
  heartbeat notices a lost lock and the server a lost session; somebody tries the lock (strong: it is free only now and then,
  and the retry loop comes back for ever). No fairness for faults, failures or the operator.
* **`LeaderSession!FairSpec`**: the fiber that holds the permit goes on, a session with members is checked, a late
  statement runs or its connection is retired, a silent session is ended by its lease; the permit is a fair
  semaphore, so a forked release that waits for it gets it (strong). Nothing is owed to stops, faults or other processes.
* **`Command!FairSpec`**: an attempt that can go on does. Its enabling condition is written out (`CanGoOn`), which
  says the same as `WF_vars(Step(c))` and is evaluated much faster.

* **`Reads!FairSpec`**: some fiber of the read runs and time passes. Nothing is owed by the writers, the views or the hub: a read must end although
  the view it waits for never moves and the ping it waits for never comes.

The lease has no liveness: what matters there is bounded by time, so `StopsInTime` is an invariant. `Wakeups` has none because its question is
sharper: not that a processor wakes in the end (its interval sees to that) but that it need not wait for it, which `WakeUpOnItsWay` says of every
state. `Course`, `Wallet` and `Evolution` are checked for safety; the graph of `Course` is too large for TLC's liveness.

## 5. What is proved

All proofs are for every value of the constants that satisfies the named assumptions (any number of sessions,
requests, instances, writers, events, modules, any hash of the lock keys, any accepted options). The assumptions are those a declaration of
the code gives: `LockHashType`, `RequestsType`, `MaxRunsType`, `PollerConstants`, `OutboxConstants` (the outbox's processor is a publisher),
`AcceptedOptions`, `SessionOptions`, `WakeupConstants`, `ForeignPayloads` (what others send is a payload), `ReadsConstants`, `EndpointSettings`, the commands'
`RequestsType`, `InitialRowsType`, `ClockType`, `SendingsType`, `BoundsType`, `PeriodTypes` and `PeriodTags` (a period's tags are its own), and the app's
`EnrolmentAssumption`, `DeadlinesAssumption` `CourseAssumption` (clients' pods are pods; prices, capacities and days are what their schemas say) and `RequiredAssumption` (what stands for a column without a
value is no value of a column). The bounds are constants too, so they do not limit the theorems; `CourseAssumption` asks only that the bound on invoices leaves room for the bound on deadlines.

Some theorems have a hypothesis of their own. Of three of them section 6 says what happens without it:
`Margin` (`OneLeaderWithMargin`), `~ MayStop` (`PoolGetsCleanSessions`, `LostOnlyAfterAFault`) and `Wakeups!KeysAreKept` (`SleepersAreWoken`). Each holds
in the instance of the run that checks the property. The others are what the executor asks of the *commands* it runs, which are constants of `Command`:

| hypothesis of `CommandProofs` | what it says | where the code asks for it |
|---|---|---|
| `WellDefined` | `resolve`, `model` and `decide` return lookups, queries and decisions; the two events of a turn have their types and the period's tags | their types (`Command.ts`); `requireTags` (`Model.ts:251`) |
| `NoopsStay` | a no-op decided on a model's rows is one with more of the rows up to the newest of them too | the marker of a no-op is the model's newest row, "the reason it is already done is at or before it" (`Command.ts:281`): a caller that reads from the marker on may see rows the decision did not |
| `ConcurrentByDeclaration` | for a `concurrent()` command, rows of its model that its guard does not select change nothing in its decision | "safe to run in parallel with itself" (`Command.ts:105`): the append's condition is the guard alone |
| `KeysAreKept` | a command with `idempotentBy` appends an event that its key selects | `idempotentBy`'s contract (`Command.ts:204-216`): the next one finds the first by it |
| `ByModelIsKept` | what shows a `byModel()` command that it was done stays | "for an effect that can only happen once per key [...]: the model already shows whether it happened" (`Command.ts:207`) |

Nothing in the code enforces the last four: they are the contract a command's author signs, and what is proved is that the executor keeps its side.
`MCCommand`'s `ASSUME`s have TLC evaluate all five for its seventeen requests on all logs of up to two rows.

Every inductive invariant below was first checked by TLC as an invariant of the component's run.

| theorem | statement | argument |
|---|---|---|
| `EventStoreProofs!IntersectSeesBoth`, `EarliestIsNotAfter` | the intersection of two snapshots sees only what both see; the earliest of two cursors is after neither | arithmetic, cited by the store's proof |
| `LocksCoverConditions` | if one append's event is matched by the other's condition or key, the two want an incompatible lock | An item wants its leaves, its type keys or the global key; an event wants its own of each in the complementary mode. Cases on whether the item names types and tags. The hash plays no part: equal keys have equal numbers. |
| `StoreKeepsInv`; `StoreTypeCorrect`, `StoreHoldsBoundaries` | `[]Inv`; `[]TypeOK`, `[]BoundaryHeld` | below; conjuncts of `Inv` |
| `StoreKeepsSerialInv` | `StoreSpec => []SerialInv` | below |
| `StoreIsSerial` | `StoreSpec => SerialAppends`: the store implements `DcbLog` | a commit is one abstract append per part, every other step a stutter |
| `KeysAreUsedOnce`, `EffectsSortAfterCauses` | `[]OncePerKey`, `[]SortsAfterItsBasis` | `KeyInv`; `OrderInv` |
| `RefusalsAreReal` | `ConflictIsReal`, an action property | `KnownInv`, and what `Inv` says of the reads |
| `CommandsNeverWaitInACircle` | `[]CommandsDoNotDeadlock` | below |
| `ProcessorProofs!PollerKeepsInv` | `PollerSpec => []PollerInv` | below |
| `NothingIsSkipped`, `ViewHoldsItsCursor`, `PollerTypeCorrect` | `[]NoSkip`, `[]ViewIsItsCursor`, `[]PollerTypeOK` | from `PollerInv` |
| `OutboxIsAProcessor`, `OutboxSkipsNothing` | `OutboxSpec => PollerSpec`, so `[]NoSkip` | what publishing and the observers add leaves a step of the processor, or none |
| `OutboxKeepsInv` | `OutboxSpec => []OutboxInv` | below |
| `NothingIsMissed`, `PauseHolds`, `ReportsAreTrue` | `[]FollowersMissNothing`, `[]AnsweredPauseHolds`, `[]CaughtUpIsTrue` | from `OutboxInv` |
| `WakeupsProofs!ListensShare`, `WakeupsNameTheCommitted` | `[]ConnectionIsShared`, `[]NamesCommitted` | below |
| `StandbysAreTold`, `SleepersAreWoken` | `[]StandbyIsTold`; `[]WakeUpOnItsWay` if `KeysAreKept` | below |
| `ReadsProofs!ReadsKeepReadsInv` | `Spec => []ReadsInv` | below |
| `AnswersShowTheWrite`, `NobodySleepsOnNews` | `[]ReadsWhatWasWritten`, `[]SleepersAreTold` | from `ReadsInv` |
| `CommandProofs!DecisionsHold` | `Spec => []DecidedOnTheLog` under `WellDefined` and `ConcurrentByDeclaration`: every commit appended exactly what its command decides on the log just before it | below |
| `AppliedHolds` | `[]AppliedOnce`, also under `KeysAreKept` and `ByModelIsKept` | below |
| `AnswersHold` | `[]AnswersAreTrue`, under `WellDefined` and `NoopsStay` | below |
| `KeysHold`, `CommandTypes` | `[]KeyUsedOnce`, `[](TypeOK /\ PhaseInv)`, under `WellDefined` | conjuncts |
| `CourseProofs!AppIsInStep` | `Spec => []IInv` | below |
| `SeatsCounted`, `WaitsHaveDeadlines`, `EndsOnce` | `[]SeatsAreCounted`, `[]WhatWaitsHasADeadline`, `[]EndedOnceForAll` | from `IInv` |
| `RowsShow` | `[]RowsShowTheModels`: the three views' rows; of the seats and the readiness, also those of a replay in memory | `RowsInv`, inductive under `IInv`: below |
| `SeatsLostForAReason` | `SeatsAreLostForAReason`, an action property | every decision `Goes` from models to models that lost only what it says |
| `LeaderLeaseProofs!LeadersStopInTime` | `Spec => []StopsInTime`, for all accepted options | below |
| `OneLeaderWithMargin` | `Spec => []OneLeader`, if the server's timeout has one `verifyTimeout` more than the rule asks for | below |
| `LeaseTypeCorrect` | `Spec => []LeaseTypeOK` | conjunct |
| `LeaderSessionProofs!SessionStaysShared`, `OneLeads` | `[]SharedInv`, `[]OneLeaderOfAKey` | below |
| `PoolGetsCleanSessions`, `LostOnlyAfterAFault` | `[]PooledIsClean`, `[]LostMeansFailed`, if `~ MayStop` | below |

**`Inv` of the store.** `BoundaryHeld` alone is not inductive: that nothing joins a boundary between the check and the commit
follows from locks held since before the check, and that the check itself finds everything follows from what the
reads could see. So `Inv` adds
`LogInv` (ids taken are below the next, running ones have not committed), `OwnerInv` (a running id is one session's),
`PhaseInv` (where in its request a transaction is), `RowInv` (a row is an event of the append it was written for),
`LockInv` (no two sessions hold incompatible locks; past the lock loop the append's locks are held, and those of the
rows already written), and `ReadInv`: no snapshot and no cursor of a read has passed an id that may still commit, and what the
reads returned is everything their snapshot sees. Then:

1. at `NoConflict`, a committed match is either in what the reads returned, or its id is one that some snapshot did not see and the
   cursor has not passed, which makes it a conflict (`IntersectSeesBoth`, `EarliestIsNotAfter`);
2. afterwards, a match can only come from a transaction that inserts or commits, which holds the locks of its events;
   the waiting append holds those of its condition; they are incompatible (`LocksCoverConditions`), and `LockInv` excludes it.

The proof has one lemma per conjunct and, under it, the actions that can disturb it.

**`SerialInv`.** That the store is serial needs of every transaction what `Inv` does not say: its rows are exactly the events of its appends so
far, each once (`WriteInv`, `EmitInv`), or its commit would not be a whole append; what its reads returned is in the log for good
(`BasisInv`); past its look for a duplicate its key is its own (`KeyInv`: the lock of the key's query excludes the second); a
command's id is later than those of the rows its reads returned (`FreshInv`, `OrderInv`); its locks are taken in ascending order, one of each number
(`QueueInv`); what had committed before it read, it has seen (`KnownInv`). The refinement maps a commit to the appends of the transaction's parts
in one abstract step, with `BoundaryHeld` for the condition and `KeyInv` for the key. A circle of waiting transactions none of which is at a later
append would be a circle of ascending lock numbers: at its largest, the next one's wait is for a smaller one (`QueueInv`); a wait for an emit key is for
one that is at its own insert with the same cause, and would wait there for another such: but the first row of a cause is one transaction's (`EmitInv`).

**`PollerInv`.** `NoSkip` needs that no id at or before the stored cursor can still commit. `HandledTo(c)` says so
(`Passed`: the cursor's id is below every running id and every future one) together with "what is there is handled",
of the row's cursor and of every cursor a tick has read. `TickOK` ties a batch to the cursor it started from: nothing selected
between the two is left out, it is handled from its front, and in the step before a view's commit the tick
holds the row's lock with the cursor still where it was read. `ViewIsItsCursor` is inductive together with that. `LogGrows`
collects what writers may do meanwhile, so that each conjunct is shown stable once.

**`OutboxInv`** is `PollerInv` with one conjunct for each observer. `ConsumerInv`: whatever is on the wire is committed, `Passed`, and all before
it was handled (`Sent`); without it a late publish that moves the consumer's mark forward could jump over an event that never came. `DeskInv`:
behind an answered pause the row is not ACTIVE, no reset is under way, and whoever works is among those it was answered with. `ReportInv`: the cursor a count
starts from is `HandledTo`, so that what the count does not find was handled. `BrowseInv`: the reader's cursor is `Passed`, and all at or before
it was shown and is committed, so that no open transaction can put an event behind it.

**`Wakeups`.** `TypesInv` and `SharedInv` (the count is of the streams that listen; a stream that has listened knows it) are inductive and give
`ConnectionIsShared`; `NamesInv` needs that what is unsaid is committed and that `Committed` only grows (`CommittedGrows`). For `WakeUpOnItsWay` it is not
enough that a wake-up of the right filter is somewhere: a merge could spoil it, as "wakes p" is not kept when keys are added up. `Covers(b, e)` is: a wildcard, or
the event's type and all its keys. `MergeCovers`, `EncodeCovers` and `CoveredWakes` carry it from the notifier to the filter, and `TellInv` says of every
processor that asks (asleep or about to sleep, leading, has listened, not excused) that a payload that covers the event is on its way, or the wildcard of its next connection. `StillIsTold` and `ExcusedIsToldNothing`
dispose of the steps that move no wake-up and of those that excuse one; what is left of each action is its point: a send, a listen, the hub's slide, the taken batch, the poll.

**`ReadsInv`.** An answer shows what it owes because `HandledTo(v, c)` (nothing at or before c is missing in the view, and no id that may still commit is
there) holds of every cursor a read can act on: the view's, the one a look has read, and those of the pings on their way. It is stable while the log grows
(`HandledStays`), and `CaughtUpShows` turns it and "past the write, or nothing pending up to it" into "what is owed is shown", though the two are
different reads. For the sleepers, `NewestInv`: the last ping of a view in the connection, or failing one the ping that waits at a subscriber, is of where the view is; without it
a page could take a batch that is not the newest and have nothing coming. `WaitOK` carries "where the view was read, or there is news" from the look
through the question what is pending to the pause. `Quiet` disposes of the steps that neither send nor deliver. That the loosest answer is one the endpoint allows
is arithmetic of the modes (`PolicyIsGranted`).

**`Command`.** `TypeInv` and `PhaseInv` say of every phase what the attempt has read and that its append is the one decided on it. `HeldInv` is the point of the
whole: once a call has inserted, no other holds a lock or an emit key that meets its own, its key has no other row, and every row its condition selects was
there when it read; so what it read of them is the log just before its commit. `TurnInv` is for the periods, whose three reads see three logs: periods of an entity are opened
once, in order, and every one but the last is closed, so a load that missed a turn would find the turn's event under its condition. From them `DecidedOnTheLog`; with `KeyUsedOnce`
(a key's lock excludes the second), `KeysInv` and `KeptInv` (a `byModel()` commit kept its promise on the log just before it) `AppliedOnce`. `AnswersInv` says what each answer rests on (a
row of the call's own; a row under the key; rows of the model), `RowsInv` which commit a row is of, `TriesInv` that each refused attempt was refused by a commit that it had not seen
before: so a conflict was lost to as many commits as there were attempts. Most steps neither insert, record nor commit; `Quiet` disposes of those.

**`Course`.** `IInv` is about three things at once. *The models* (`ModelInv`, of any models): a seat is held in the subscription's model if and only if the student's has the course and
the course's readiness the student, the course's count is the number of them, no more than its capacity and none once it was cancelled; a billing bills one seat and its invoices are
issued one after the other. *The deadlines* (`DeadlinesInv`): each row, and each that a pod still has in its batch after another pod's firing deleted the row, is of something there is
(`IsDeadline`: of an invoice, the next one or one that was issued, due when the deadline is), and was due on the clock of the pod that has it. *What waits*: it has a deadline in `Open`, the rows whose
command has not run in any pod. Without `Open` the property is not inductive: between a command and the record of its firing the row is still there
and waits for nothing, and when the record deletes it nothing must need it. What the events do is stated once per event (`OnX`, `AfterX`), what each keeps of the models once
(`KeepX`), and each decision then `Does` what it should from any models in which what waits has a deadline in D: to models that keep `ModelInv`, lost
seats for a reason only, and wait for what is in D or set by the decision. `RunDoes` says that a deadline which ran when it was due `Settles`: nothing waits for it any more. So a deadline fired twice, late or by two pods
changes nothing that matters. `FoldNone`, `FoldOne` and `FoldTwo` unfold the fold of a decision's events: no decision has more than two.
*The rows* (`RowsInv`): `Shows(m, r)` says what the rows of each view are for models m, and `RowsShowTheModels` follows from it. It is not inductive alone: a view adds one to a count that the models keep as a set,
so the step needs from `ModelInv` that the student was not, or was, in that set; it needs that a seat's number is a natural number, and that a course without a row of readiness is as it was at the start, since an upsert opens
the row from the column's defaults. `Follows(m, r, e)`, one lemma per event: after e the rows show the models again, and a replay in memory, of the rows it keeps (`Kept`), holds what SQL holds; `Tells` says it of a decision's events.
An event's operations are folded over a set. `MakesOfOne` unfolds that for one operation and `MakesOfRemoves`, for a cancelled course, for any finite number of them: in place of an
induction, `SameOnFinite` takes a smallest set on which the fold and what it should be differ.

**The lease.** `Until(s)` is how long a leader goes on if no check succeeds any more. It falls by one with each
tick and is set back only by a good check, while the other side's clocks (`gone`, `idle`) rise by one: the sums are invariant.
`gone + Until` is at most the loss detection bound, hence `StopsInTime`. `idle + Until` is at most the bound plus
one `verifyTimeout` (the last good answer may have been that long under way), hence `OneLeader` under
`Margin == ServerIdle > lossDetectionBound + VerifyTimeout`, and not without it (section 6).

**The shared session.** The permit covers attempts and releases; checks, the server, faults and stops do not take it. `SharedInv` says what holds
in spite of them: a handle is a member of the session it was made on (`MadeInv`); leaders are members of the current session, which is in use, one for each key
(`HomeInv`); what runs under the permit finds its connection in use and its key free (`PermitInv`). `OneLeaderOfAKey` follows. `CleanInv` gives every lock, late
statement and lease on a connection a reason (a member with that key, the operation under way, an unlock on its way, a session that is given up on or retired)
that is gone before the connection goes back to the pool. `CalmInv` speaks of behaviours in which no connection has failed: a leader has its lock, and a check that misses a key began before the key was taken, so it is not of the leader's set. Both need `~ MayStop`: a stop
in an attempt takes the reason away and leaves the lock (section 6).

**Only model-checked**: the properties of `Wallet` and `Evolution`. `Models`, `Wallet` and `EventDefs`
fold over sequences as long as the log, which needs the induction the prover lacks; `Evolution` reaches a RECURSIVE operator. **Out of the prover's reach**: liveness
(fairness, `ENABLED`: `HandledInTheEnd`, `LedInTheEnd`, `ReadsEnd`, `EveryCallIsAnswered`), induction over data, and RECURSIVE
operators. The modules with theorems use none of the latter.

## 6. Where the code and its words differ

What was met while modelling. None of these is a run; where a model has a switch for it, it is named.

* **The lease rule.** The rule `serverIdleTimeoutOf` enforces (`Leader.ts:79`) is one `verifyTimeout` short of what ADR-0045 and the
  comment at `Leader.ts:50` promise. With heartbeat 1, `verifyTimeout` 2, two failures and an accepted server timeout of 7
  (the bound is 6) `OneLeader` fails. The default of 15 s has the margin, and with it `OneLeaderWithMargin` is a theorem.
* **A stop in an attempt.** `stop` interrupts the retry loop wherever it is (`EventProcessor.ts:470`). In an attempt whose lock
  statement is granted or in flight, the fresh session's connection goes back to the pool with the lock
  (`Leader.ts:341`), and a handle not yet in `leaderRef` is lost; `EventProcessor.ts:53` says a closed scope cannot leave the lock
  held. With `MayStop = TRUE` in `session_shared`, `PooledIsClean` and `StoppedHoldsNothing` fail.
* **Two turns within a load.** The three reads of a model with a period see three states of the log. With two turns between them the tracking
  read names a period whose own events, read next, say it is closed, and the load dies (`Model.ts:335`). A defect is not a
  `Conflict`, so `CommandExecutor.ts:123` does not retry it, though a fresh load would decide. `NoLoadDies` fails under `TurningSendings`.
* **Errors in a row.** `resetErrorCount` is a statement after the batch's commit (`EventProcessor.ts:222`): a process that dies between the two leaves
  the count, and the processor is FAILED after fewer errors in a row than `maxErrors` (`ProcessorConfig.ts:15`). Resuming a FAILED
  processor does not clear the count either.
* **The marker of "already done".** It is the newest event of the *model* (`Command.ts:280-282`) and leaves out what `resolve` read. Two calls of a command
  that looks up whether it has run: the second answers at a marker before the event that made it so, and a client that waits for that marker
  can read from before it. The comment above the line says the reason is at or before the marker.
* **A key without fingerprints.** A key under which there are only rows without a fingerprint answers "already done" to any request
  (`Repeat.ts:36`).
* **Payloads.** A wake-up "only ever wakes too often, never too rarely" (`NotifyPayload.ts:17`): one whose tag keys had to be left out (too long, or
  with a separator in one) carries none, and a subscriber then does not look at keys. But `mergeBatch` (`Listen.ts:106`) adds up
  the keys of the payloads of a window: beside another payload's keys those left out are missed, and the sleep goes on to its interval.
  `wakeups` keeps clear of it (`Separated = {}`, `MaxNames = 9`).
* **A verification beside open transactions.** `VerifyEvents.ts:143-144` says that an open transaction shows as `checked` below `total`. An older
  transaction's event that commits between the count and the walk can make the two equal while a committed event behind the open
  one stays unchecked. `VerifiedIsReadable` speaks of what was finished when the walk ended.
* **Redaction of a union.** `Personal.redact` takes the first member that changes the value; a field only a second member marks can stay. The comment
  calls it conservative.
* **Both wallets in one period.** `WalletTags.ts:16-20` and `TransferMoneyCommand.ts:28` say the two wallets of a transfer always resolve to the same
  period. With clocks on both sides of a period's end, `completeWith` finds two values for a tag and the command dies with a 500 (`Command.ts:290-296`).
* **Keys of minutes.** `WalletPeriod.ts:26` does not pad its number; `Period.ts:20` says the keys of one level sort in time order. With
  `WALLET_PERIOD=minutes:30` the number gets a seventh digit in January 2027, and `Model.ts:328` does not turn the period after that.
* **Seat numbers.** `CourseEnrolmentsViewProjector.ts:15-16` says a released number "is not given again"; it is, when it was the highest.
* **Views in memory.** `ViewMemory.ts:7` says its operations mean what the SQL does. PostgreSQL checks NOT NULL before `ON CONFLICT`; the maps accept
  such an upsert of an existing row. `RowsShowTheModels` (proved) and `ReadsAreSo` (checked) find the two to agree for the declared operations the examples return; a `raw` operation
  has no meaning in memory at all (`ViewMemory.ts:49`).

## 7. What is not modelled

* Session clients, the start-up checks of server settings, metrics, test support, the migrations runner, the tools: wiring and output, no protocol
  of their own. The migrations' SQL is modelled where it is called.
* The polling backoff: `Wakeups` has no clock.
* Of the store: the size limits of an append, the codecs of events and tags, transactions of several appends in memory.
* Of the processors: `getLag` and the metrics it feeds; the fetch's filter (a row is selected or not; `Wakeups` has which payloads a
  selection wakes for); what a broker does.
* Of the commands: upcasting beyond what `EventDefs` decodes, the audit's contents and purge, the fiber-local correlation context.
* Of HTTP: decoding, API descriptions, authorization, headers.
* Of the examples: their user interfaces and the demo scripts.
* Time, except in `LeaderLease`; clocks, except the period of `Command` and `Wallet` and the pods of `Course`.

## 8. The plan

Done, in this order: (1) `ReadSnapshot`, `Dcb`, `EventLog`, `DcbLog`, `EventStore` and their proofs; (2) `Poller` and its proofs;
(3) `LeaderLease` with its proofs and `LeaderSession`; (4) `Command` and `Period`; (5) `Wakeups`, `Reads` and `Outbox` around the processors;
(6) `Deadlines`, `Enrolment`, `ViewTable` and `Course`, and the proofs of `Command` and `Course`; (7) `AppendSpec`, `Models`, `Calendar` and `Wallet`; (8) `EventDefs` and `Evolution`.

Next, in order of worth:

* Proofs: `ClosedWalletsAreStill` of `Wallet`, whose log can be split at the closing.
* `EventStore` as an implementation of `AppendSpec!checkAppend`, statement by statement, beside `DcbLog`.
* The store in memory with its transactions as a second implementation of `DcbLog`.
* `crablet_progress_cursor_xid` (V4), lag against backlog.

The project keeps to a dozen runs: a new question takes the place of one that others have come to cover.

## 9. Running it

```
tlc -workers 2 -config store_races.cfg MCEventStore.tla     # about a minute
tlapm EventStoreProofs.tla                                   # 10 to 20 minutes, as CommandProofs.tla; the others less
```

The module of each run is in `PROJECT.json`. Every run ends within about two minutes with two workers.
