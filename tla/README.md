# TintFlow: a verification development

TintFlow (`src/`) runs workflows. A *run* is a row of table `runs`; replicas of the service
claim due rows from PostgreSQL, drive them step by step, and a reaper takes back the rows
whose worker disappeared. This directory holds TLA+ models of that machinery, the TLC
configurations that check them, and TLAPS proofs of the central invariants.

Line references are to the repository (`engine.rs:199` is `src/src/engine.rs`, line 199).

## 1. The system

| Component | State | Operations | Interacts through |
|---|---|---|---|
| Run table (`db.rs`, `model.rs`, migrations) | rows of `runs`, `run_steps` | one SQL statement each: create, claim, renew lease, save progress, reap, cancel, requeue, log step | shared by all others |
| Engine (`engine.rs`) | the claimed *copy* of a row | `execute_claimed`: cancel check, approval pause, delay, lease renewal, step, log, retry / dead letter, advance, finish | statements on the run table; creates approvals and child runs |
| Claim loop (`worker.rs:52-111`) | semaphore, `WAKE` | reserve permits, claim, spawn, wait for a kick or the poll timer | claims rows, spawns engine tasks, woken by `kick()` |
| Reaper (`worker.rs:35-50`) | none | every 30 s requeue or dead-letter rows with a lapsed lease | run table |
| Runs API (`api.rs:105-209`) | none | run, cancel, retry, patch context | run table, `kick()` |
| Approvals (`api.rs:278-329`) | table `approvals` | list, get, resolve | engine creates a row, `resolve_approval` resumes the run |
| Scheduler (`scheduler.rs`, `cron.rs`) | table `schedules`, one ticker per replica | tick: read clock, list, match, fire, mark | creates runs, `kick()` |
| Workflow store, webhooks, templates | tables | create, update, delete, list | snapshot of the steps at enqueue |
| Subworkflow, foreach (`engine.rs:207-239, 386-459`) | parent and child rows | spawn children, resume the parent | run table, idempotency keys |
| Events, metrics, start-up | none the program reads | output, configuration | — |

What is hard: every replica runs its own claim loop, reaper, scheduler and API handlers over one
database, with no transaction around more than one statement; a task works on a copy that may be
stale; processes, handlers and statements fail between any two statements; leases turn time into
ownership; and scripts are evaluated on the threads that all of this runs on. `PROJECT.json`
lists the hazards line by line, with the properties that would notice each going wrong.

What makes each part correct: a run has at most one executor; no crash loses or skips work; a
terminal state is left only by an operator; a cancellation stops a run at its next step;
attempts are bounded, so runs settle; a gate opens only when approved and can always be
decided; permits and wake-ups are not lost; schedules fire once in a matching minute and miss
none they tick in; cron fields mean what their syntax lists.

## 2. Modules

The runs, from the row outwards:

* **RunStore** — the row and each statement of `db.rs` as an operator on rows. Time is reduced
  to what the statements compare with `now`: `lease_until` is `null`, `future` or `past`; `due`
  is `next_attempt_at <= now`. `context` is the set of step indices whose output it holds
  (contexts are JSON objects, as every creator of runs makes them; a context patch that is not
  an object, which `api.rs:206` stores as it is, is abstracted to one). `Orphan`, a row the old
  engine left running, has cursor 0; a later cursor would bring a context without outputs, of
  which the properties about recorded progress say nothing. Worker ids, error texts and
  timestamps that no condition reads are left out. `Plan[r]` is the immutable snapshot of the
  steps; `monolith` stands for the kinds the monolith executes.
* **RunEngine** — extends RunStore with the tables, the slots that execute runs and `Next`.
  Every statement of `execute_claimed` is an action of its own (`RequestApproval`/`Park` are
  `engine.rs:76`/`79`, `ExecuteStep`/`Advance` are the log at 142 and the save at 199, ...), so
  anything may happen between two of them. `Die` is a crash or the early return on a database
  error. `ReapStale`, `Cancel`, `Retry`, `Enqueue` are the single statements of the reaper and
  the API; `LeaseLapses` and `BecomesDue` are time passing. Slots belong to replicas (`Host`),
  whose runtime has `Threads` threads. A `subworkflow` step stays in flight here.
* **RunSpawning** — extends RunEngine with the steps that create runs. `SpawnChild` is one
  `create_run`; a run's identity stands for its idempotency key, so inserting a run that exists
  fails (`SpawnFails`). Step ids, of which keys are made, are taken to be distinct within a
  workflow (`ChildrenAssumption`), which `api.rs:63-74` does not check. `AwaitChild` saves the
  parent as `waiting_subworkflow`. The child's end is four statements: `FinishRun`,
  `LoadParent`, `ResumeParent`, `LogResume`, with a crash or an error possible at each
  (`ResumerDropped`).
* **RunApi** — extends RunEngine with `resolve_approval` (four statements) and
  `patch_run_context` (two), each handler droppable at every await.
* **RunLifecycle** — abstract specification: exclusive ownership of runs, without rows, leases
  or steps. **RunRefinement** maps RunEngine to it: the phase is a function of the status, the
  holder is the slot that executes the run.

Beside them:

* **WorkflowStore** — definitions and admission: create, update (a read and a write), delete
  with the cascade, and `run_workflow` / `trigger_webhook` as lookup, read and insert under the
  unique index and the foreign key, with clients that post again. A deleted row is marked
  `gone`; `defined` remembers every version a workflow had. **Admission** is the abstract
  promise of idempotency keys; `OwnerOf` maps the rows to it.
* **WorkerPool** — the claim loop of one replica: permits, claim, error path, `select!`. The
  claim statement (`ClaimRuns`) and the processing of its answer (`StartRuns`, `ClaimFails`)
  are separate steps: a kick may fall between them. The claim may skip rows that another
  statement has locked (`ClaimSkipping`), and other replicas take rows (`TakenElsewhere`). An
  execution that hangs holds a permit and a thread of the runtime; without a thread nothing of
  the replica moves. Due rows are counted in two classes, those announced by a kick and those
  whose time just comes.
* **Cron** — the matcher over parsed parts; **CronFields** — what a field's syntax lists,
  independently of the matcher. **Scheduler** extends them with tickers and the table; what may
  fire is the matcher's answer, what should fire is what the syntax lists. Created runs and
  failures are counted per replica. `TimeOf` (the calendar) is a constant.

**MCRunEngine**, **MCRunApi**, **MCRunSpawning**, **MCWorkflowStore** and **MCScheduler** are
the instances TLC checks; **RunEngineProofs**, **RunBudgetProofs**, **RunRefinementProofs**,
**RunApiProofs**, **RunSpawningProofs**, **WorkflowStoreProofs**, **WorkerPoolProofs** and
**SchedulerProofs** (which also covers the matcher) hold the theorems.

Operators whose comment begins with *Variant* are deliberate mistakes. Nothing uses them; each
property is known to fail when the definition behind it is replaced by its variant.

### The timing assumption

`LeaseLapses` lets a lease run out when nobody executes the run, or only tasks that are `slow` or
`Starved`. Slow are tasks in or after a step the code does not keep below `LEASE_SECS` (`SlowKinds`: a monolith
call has a 60 s timeout, rhai evaluation has none), and tasks whose renewal updated no row
because the run was no longer `running`. Rhai is evaluated
synchronously on a thread of the tokio runtime (`engine.rs:360, 379, 431`, without
`spawn_blocking`; `main.rs:17` gives it one thread per core), so script, branch and foreach
steps in flight may hold every thread of a replica, and then none of its other tasks can renew,
whatever their own steps. Single database statements and the clock skew of replicas are assumed
short against 60 s.

Properties that need a premise state it per run, not of the whole system: every other run may
be of any kind beside it.

| Runs | are those | as assumed by |
|---|---|---|
| `ShortRuns` | without a slow kind | the comment at `engine.rs:27-29`, of every step |
| `LinearRuns` | without a `branch` | step order: a branch may jump over a step, or back over a pause |
| `GatedRuns` | linear, with at most one `approval` | `api.rs:308`, which does not look at which gate a run waits |
| `PlainCallers` | linear, and all the workflows they call are short and call nothing | `engine.rs:213`: one finisher for each call |
| `LeafRuns` | short, and calling nothing | as `ShortRuns`, where runs are resumed |

Three premises are about what happens and not about plans. `Unstarved` (RunEngine,
RunSpawning): no task is starved, that is, the rhai steps in flight never hold all the threads
of a replica that executes another run too. Nothing in the code assures it; plans without rhai
meet it, and so does a replica with as many threads as slots (8, `worker.rs:22`). It is a premise
of what follows from leases, and of nothing else. `OneDecider` (RunApi): no two requests
are past their status check for one approval; `api.rs:300` ignores which of them won.
`SameMinute` (Scheduler): ticks of different minutes do not overlap; `scheduler.rs:10` means
tickers to come at the top of the minute. A tick may still outlast its minute if no other
replica's next tick begins meanwhile, and a single replica always meets it.

## 3. Runs

| Run | Instance | Checks |
|---|---|---|
| `engine_bounded` | 2 runs, 2 slots, 1 thread, `http, log` and `delay, approval`, 2 attempts, 1 approval, fair | `TypeOK`, `ProgressRecorded`, `AttemptsBounded`, `OneExecutorIfShort`, `NullLeaseOnlyLegacy`, `TerminalIsFinal`, `FlagStopsExecution`, `Lifecycle`, `Settles` |
| `engine_slow_step` | 1 run, 2 slots, `script, http`, 3 attempts | **violated:** `OneExecutor` |
| `engine_cancel_ignored` | 1 run, 1 slot, `http, delay` | **violated:** `CancelStopsAtBoundary` |
| `api_gate` | 1 run, 1 slot, 2 resolvers under `OneDecider`, 1 patcher, `approval, log`, 1 attempt, 2 approvals | `ApiTypeOK`, `AttemptsBounded`, `WaitingHasApprovalRow`, `NoStepSkipped`, `GatePassedOnlyIfApproved` |
| `api_two_deciders` | 1 slot, 2 resolvers, `approval, log` | **violated:** `GatePassedOnlyIfApproved` |
| `api_decision_lost` | 1 slot, 1 resolver, `approval, log` | **violated:** `WaitingCanBeResolved` |
| `spawning` | caller `subworkflow, subworkflow, foreach`, callees `http` and empty, one item, 2 slots, 1 attempt | `SpawnTypeOK`, `AttemptsBounded`, `PassedOnlyIfSpawned`, `ResumesItsCall`, `OutputsKept`, `OneExecutorOfLeaves` |
| `spawning_child_first` | caller `subworkflow, log`, callee `http`, 2 slots | **violated:** `SuccessResumesParent` |
| `store` | 1 workflow, 2 definitions, 2 requests with one key, 1 webhook, 2 updates, 1 failure, fair | `StoreTypeOK`, `ExecutesTheRecordedVersion`, `Idempotent`, `RetryAnswered` |
| `worker_pool` | 3 permits, 2 threads, 4 rows, 2 errors or skipping claims, 2 hung executions, fair | `TypeOK`, `PermitsConserved`, `NoLostWakeup`, `Drained` |
| `scheduler_aligned` | 2 replicas under `SameMinute`, 2 schedules over midnight, 1 failure, 1 edit | `TypeOK`, `OncePerReplica`, `LastRunAdvances`, `ListedIsFired`, no deadlock |
| `scheduler_replicas` | 2 replicas, no failure | **violated:** `OncePerMinute` |

`Lifecycle` and `Idempotent` are refinements (of RunLifecycle and Admission); `Settles`,
`Drained` and `RetryAnswered` are liveness.

The bounds. Two slots are enough for every conflict over one run (a conflict is between a task
and one other), two runs for those between rows; two attempts reach the dead letter after a
retry. Every ageing of a row is a flag, so the state is finite apart from attempts (bounded by
the code) and approvals (`MaxApprovals`; two give a duplicate of a gate). `MaxApprovals` holds a
task back at a gate where no database would, so `Settles` excepts a run held so (`HeldByBound`).
Plans are short, but each has a step before or after the kind it is about, or is at the boundary
itself: in `engine_bounded` a flag set during one executed step meets a second. Its plans have
no rhai, so `Unstarved` holds of it with one thread. `api_gate` has one slot and one attempt;
its state is in the rows and in the copies of three handlers, and a crash, the reaper and an
operator's retry give its slot any older copy, so a second slot adds little but states.
`spawning` has one attempt, so that a failed step goes to the dead letter at once; an operator's
retry and the reaper bring it back, restarted or not, onto keys that exist. Its two calls in a
row let the finisher of the first child find the parent waiting for the second; its two threads
suffice for two slots. `store` has two updates that overlap each other, the requests and the
deletion, and one failure of a kind TLC chooses; a second request with the same key is what a
failure is repeated against. `worker_pool` has more arrivals than permits and more permits than
threads, so that hung scripts exhaust the threads first (with threads to spare the loop is the
same pool without `ThreadFree`). The scheduler's clock crosses midnight into another weekday, so
that one schedule matches once and one always, and each replica may tick any number of times in
a minute. Symmetry permutes slots, resolvers and replicas, never runs, and is used in safety
runs only. Runs may all end, clients may stay silent and keys be answered, so the engine, API,
spawning and store runs do not ask for deadlock freedom, and `worker_pool` does not because
scripts that hang on every thread really stop a replica. The tickers never end: their runs check
deadlock.

Fairness. `RunEngine!FairSpec`: on a replica with a free thread (`ThreadFree`) a task that does
not die goes on, the reaper and the claim loop run for ever; a rhai step need not return; time
passes. No client and no crash is obliged to
happen, and tasks may die without limit: `Settles` holds because each claim spends an attempt.
`WorkerPool!FairSpec`: while a thread is free the loop is polled, the poll timer fires,
executions that do not hang return, lost rows are reaped. Nothing is assumed of kicks, of other
replicas or of the end of a lock. `WorkflowStore!FairStoreSpec`:
handlers go on, and a client without an answer posts again, which is the use keys are made for
(`0003_add_idempotency.sql`).

### Disagreements the runs show

* `engine_slow_step`: a script (or a monolith call) outlasts the lease, the reaper hands the
  run to a second worker (`worker.rs:9-10`, `engine.rs:27-29`).
* `engine_cancel_ignored`: at a step boundary the engine looks at the flag it read with the
  claim, and asks the row only when it renews the lease. A run flagged during a step therefore
  logs a delay after it as succeeded and sleeps, asks for approval, or ends as succeeded, where
  `db.rs:186-187` and `api.rs:135-136` say that it cancels (`engine.rs:50, 84, 202`).
  `FlagStopsExecution` is what remains: no further step that acts is begun.
* `api_two_deciders`: the result of the conditional update is ignored, so the losing handler
  still resumes the run (`api.rs:300`).
* `api_decision_lost`: a decision that does not meet a saved `waiting_approval` row, or whose
  handler is dropped, leaves a run waiting with nothing pending (`0001_init.sql:74-75`).
* `spawning_child_first`: the child is kicked before its parent is saved as waiting; a child
  that finishes first, or whose worker dies after saving it, resumes nobody (`engine.rs:207,
  213`).
* `scheduler_replicas`: two replicas fire the same minute (`scheduler.rs:2-3`).

Met while modelling, and not given a run of their own:

* The unfenced save also breaks `TerminalIsFinal` and `NullLeaseOnlyLegacy` for a slow run, and
  `Settles`: a stale save may bring a run back after each cancel.
* On one thread, with a script and an `http` run claimed together: the `http` run is claimed,
  the script begins and holds the thread, the lease of the first runs out, the reaper of another
  replica or a later turn of this one's requeues it, and it is claimed again while its first
  task still waits to be polled. `OneExecutorIfShort` fails under `Spec` with `Threads = 1`,
  and holds under `UnstarvedSpec`, or with a thread for each slot.
* `resolve_approval` writes back a run it read before a cancel: the canceled run is queued again
  (`api.rs:326`, against `api.rs:306-307`). The child's finisher does the same to a canceled
  parent (`engine.rs:218`).
* Waking from a pause counts as an attempt, so `attempt` may pass `max_attempts`
  (`AttemptsBounded` allows one per pause).
* With two gates, a spare approval of the first (a crash between `engine.rs:76` and 79) opens
  the second (`api.rs:308` looks at the status only).
* `patch_run_context` may write back a copy read before a retry (`api.rs:207`).
* The key of a child is fixed by run and step, so any second execution of the step fails on the
  unique index: after a lost answer, a crash or a restart the parent can only dead-letter
  (`engine.rs:407-412`). A restart of a child wipes its `_parent` (`db.rs:215`), and a child
  that dead-letters never resumes its parent (`engine.rs:208`).
* Idempotency keys are looked up per tenant, not per workflow (`api.rs:109`): a request gets
  another workflow's run that has the same key.
* `update_workflow` answers with the version it read plus one, which may be another update's
  (`api.rs:91`); the stored versions are right (`RecordedVersions`).
* A crash between firing and marking fires twice; nothing prevents it, and `OncePerReplica`
  grants each replica one repetition per failure. A replica whose
  tick outlasts its minute while another replica's next tick begins moves the mark back and
  opens that minute again, so `OncePerReplica` and `LastRunAdvances` need `SameMinute`.
* A bare cron number with a step never matches, although `cron.rs:52` says the step is ignored.

## 4. Proofs

All are machine-checked for every value of the constants, from the named assumptions of the
modules. Where a property needs a premise on a run, the premise is part of the property
(section 2), so that the theorem speaks of such a run beside any others.

| Module | Theorem | Establishes | of |
|---|---|---|---|
| RunEngineProofs | `TypeCorrect` | `Spec => []TypeOK` | all runs |
| | `MutualExclusion` | `UnstarvedSpec => []OneExecutorIfShort` | `ShortRuns` |
| | `TerminalStates` | `UnstarvedSpec => TerminalIsFinal` | `ShortRuns` |
| | `NullLeases` | `UnstarvedSpec => []NullLeaseOnlyLegacy` | `ShortRuns` |
| | `FlagIsSeen` | `UnstarvedSpec => FlagStopsExecution` | `ShortRuns` |
| | `DurableProgress` | `Spec => []ProgressRecorded` | `LinearRuns` |
| RunBudgetProofs | `RetryBudget` | `Spec => []AttemptsBounded` | `LinearRuns` |
| RunRefinementProofs | `ImplementsLifecycle` | `UnstarvedSpec => Lifecycle`, the refinement of RunLifecycle | `ShortRuns` |
| RunApiProofs | `ApiTypes` | `ApiSpec => []ApiTypeOK` | all runs |
| | `WaitingIsVisible` | `ApiSpec => []WaitingHasApprovalRow` | all runs |
| | `GatesHold` | `OneDeciderSpec => []GatePassedOnlyIfApproved` | `GatedRuns` |
| | `ApiBudget` | `ApiSpec => []AttemptsBounded` | `LinearRuns` |
| | `NothingSkipped` | `ApiSpec => []NoStepSkipped` | `LinearRuns` |
| RunSpawningProofs | `SpawnTypes` | `SpawnSpec => []SpawnTypeOK` | all runs |
| | `LeafExclusion` | `UnstarvedSpawnSpec => []OneExecutorOfLeaves` | `LeafRuns` |
| | `SpawningOrder` | `UnstarvedSpawnSpec => []PassedOnlyIfSpawned` | `PlainCallers` |
| | `ResumeTarget` | `UnstarvedSpawnSpec => []ResumesItsCall` | `PlainCallers` |
| | `KeptOutputs` | `UnstarvedSpawnSpec => []OutputsKept` | `PlainCallers` |
| | `SpawnBudget` | `SpawnSpec => []AttemptsBounded` | `LinearRuns` |
| WorkflowStoreProofs | `StoreTypes`, `RecordedVersions` | `StoreSpec => []StoreTypeOK`, `[]ExecutesTheRecordedVersion` | all rows |
| | `AdmissionIsIdempotent` | `StoreSpec => Idempotent`, the refinement of Admission | all keys |
| WorkerPoolProofs | `PoolTypes`, `PermitConservation`, `NoKickLost` | `Spec => []TypeOK`, `[]PermitsConserved`, `[]NoLostWakeup` | all pools |
| SchedulerProofs | `SchedulerTypes` | `Spec => []TypeOK` | all replicas |
| | `RepeatsAreFailures` | `AlignedSpec => []OncePerReplica` (well-formed expressions) | all schedules |
| | `MarksAdvance` | `AlignedSpec => LastRunAdvances` | all schedules |
| | `AloneOncePerMinute` | `Spec => []OncePerReplica` (well-formed expressions) | one replica |
| | `NothingListedMissed` | `Spec => ListedIsFired` (well-formed expressions) | all schedules |
| | `MatcherExact` | (no state) the matcher answers what the syntax lists | well-formed expressions |

**Exclusive execution.** `OneExecutor` is not inductive: another claim is possible exactly when
the row of an executed run is not `running`, and the reaper acts when its lease is not in the
future. The strengthening `ExclusiveIn(S)` says that every slot with a run of `S` has a row that
is `running` with a lease in the future, is not `slow`, and is the only one with that run. Short
steps keep `slow` false, a slot that is not slow keeps the lease from lapsing, the lease keeps
the reaper away, and `running` keeps claims, immediate cancels and retries away. Each of these
facts is about one run: a slow run beside it loses its own lease only, unless its rhai step
takes the last thread. That is where `Unstarved` is needed, and the only place (`LeaseLapses`).
`TerminalIsFinal`, `NullLeaseOnlyLegacy` and `FlagStopsExecution` follow from the same
invariant, since every save and renewal of a short run then acts on a running, leased row. So
does the refinement: each action maps to one step of RunLifecycle or to a stutter.

**Progress and budget.** `ProgressRecorded` needs no timing: a save may overwrite a newer row
with an older one, but whatever it writes, context and cursor come from one copy that satisfies
the invariant, logs only grow, and a restart resets both. The strengthening `ProgressIn` adds
that a slot about to save its progress has its step in the log, and that a step in flight is a
step of the plan; its parameter is a set of outputs that are not asked for, which RunApi and
RunSpawning choose. `AttemptsBounded` is strengthened to copies, and to "has an attempt to
spare" for every row that may be claimed and for a delay about to be saved; that passing a pause
raises the allowance by one is a lemma about the cardinality of the pauses below an index.

**Gates and handlers.** The cursor of a run lives in its row, in the copies of tasks, of
resolvers and of patchers, and any of them may be written back. `GateInv` therefore follows all
copies: one past the gate needs an approved row, and so does a resolver that is about to save an
approval; a resolver past its decision has decided its row, which `OneDecider` keeps true until
it saves. Any number of handlers may decide duplicate rows of one gate. With two deciders of one
row, or two gates, the invariant fails, as the run and the trace above show. `HistoryInv`, for
the budget and for skipped steps, needs neither: a handler's copy was once the row, whose cursor
and attempts the invariants already bound, and the one step that a decision adds to it is a gate,
which leaves no log entry and pays for the claim it causes.

**Spawning.** `PlainCallers` call only workflows whose steps do not outlast the lease and do not
call; the callers themselves may do both, and so may every other run. Then each child has one
executor (`ExclusiveIn(PlainCallees)`), so it finishes once and one resumer looks for its
parent. The parent, however, may have several executions and may be read at any time: nothing in
a resumer's two statements says that it found the parent in the step that called this child.
`PassInv` shows that it did (`ResumeTarget`). A call is `Over` when its child has succeeded and
no resumer, creating slot or waiting row is left for it; over is for ever. A run makes a call
only when the calls before it are over (`OrderInv`), and it waits only in a call whose child
exists (`WaitInv`); so a waiting parent seen by the resumer of a child waits for that child.
That a row or copy is past a step only when the step is `Done`, with all outputs in its context
(`PastOK`), then follows from where cursors come from (`Reached`: a fresh run, a row or copy of
before, a step just passed, or a resume). Without the premise a child whose own call is resumed
twice can finish twice. `SpawnBudget` needs less: whoever resumes it and how often, a waiting
parent is at a call, so that the resume passes a pause, which pays. `LeafExclusion` is the
argument of exclusive execution for any set of short runs that no resume writes to; a run that
calls is excepted because its child's finisher writes back a copy of it.

**Admission.** `StoreInv` says that versions name one definition each, that what a request, an
editor or a row carries is a definition with its version, that rows belong to live workflows,
that a key has at most one row, and that a request in flight has no answer. `InsertRun` and
`AnswerLost` map to `Admit`, a lookup that finds to `Repeat`, a deletion to `Forget`.

**Claim loop.** `PermitsConserved` and `NoLostWakeup` are strengthened by two facts: the loop
holds permits exactly while it claims and awaits the answer; and while it waits without a token,
or is about to because its claim found nothing, every announced row still has its kick ahead. A
row that a claim skips under another's lock counts as met: only the poll timer finds it again.

**Scheduler and matcher.** `Tidy` says that a tick holds a schedule to do only while it works
through its reading, one to mark only after a firing, and never the same. The counting argument
`AlignedInv` is about every replica, schedule and minute. What replica `p` has created beyond
one per failure is bounded by whether its firing of that minute is `Spent`. A minute is
`Settled` for a schedule when its mark has reached it or the schedule is deleted: no reading
made from then on finds it due. Until then it is spent only while `p` is `Marking`, between the
firing and its mark; from then on as soon as `p` is not `Ready`, that is, its reading no longer
lets it fire. `SameMinute` enters in one place: the mark that is written is of the minute in
which all replicas at work are, so it never lies behind another mark, and settled stays settled.
A single replica needs no premise (`AloneOncePerMinute`). `NothingListedMissed` is the other
half: what a tick drops without firing is not listed or already fired. `MatcherExact` turns "the
matcher answered yes" into "the expression lists the minute", for all parts, lists and fields
(expressions of a bare number with a step excepted, see above).

**Only model-checked.** Every safety invariant, action property and refinement of the passing
runs is proved. Liveness (`Settles`, `Drained`, `RetryAnswered`) is out of the prover's reach, as
are ENABLED, induction over data and recursive operators; TLC checks it on the instances above.

## 5. Not modelled

* `backoff_secs` as a number: due times are nondeterministic, so nothing else depends on it.
* Rows without a snapshot beyond what WorkflowStore says of them (`StepsOf`): RunEngine's plans
  do not change. A cascade under a live execution: its saves would update nothing.
* Scheduler: a firing's two statements are one step. A minute that a tick overruns is not made
  up for; nothing in the code promises that it is.
* Creation of webhook rows and templates, listing handlers: rows nothing else reads, or reads.
* Events and metrics: output. Start-up, routing, the Rhai probe binary: pure I/O. Step bodies
  and JSON: their outcome, and whether their duration is bounded.
* A script that never returns, as a lease that never ends: it lapses like any slow step's, and
  what it does to the replica is in WorkerPool. The reaper task of a starved replica is not told
  from those of the others in RunEngine's safety properties.
* RunApi and RunSpawning are not composed with each other: a gate in a parent or a child is the
  gate of that run alone, and resuming a parent touches no approval.

## 6. Order of the work, and what could follow

Done, in this order: RunStore, RunEngine (core and proofs), RunApi, RunLifecycle and
RunRefinement, WorkerPool, Cron, Scheduler; then RunSpawning, WorkflowStore with Admission, and
the proofs about RunApi, RunRefinement, WorkflowStore, Scheduler, Cron and RunSpawning; then the
premises per run instead of per system, and the proofs about handlers and spawning beside the
engine's budget, and about several replicas of the scheduler; then the threads of the runtime,
in RunEngine and WorkerPool, and the scheduler's counts per replica.

Could follow: called workflows that call in turn (a child resumed twice can finish twice, so
the argument above would have to be by depth of the call); a plan with two gates once
`api.rs:308` compares the step; the firing of a schedule as two statements.
