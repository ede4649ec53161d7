----------------------------- MODULE RunEngine ------------------------------
(***************************************************************************)
(* The durable run queue and the engine that drains it: worker.rs claims   *)
(* due rows and gives each to a task, engine.rs drives the claimed copy of *)
(* the row step by step, the reaper takes back rows whose lease expired,   *)
(* and the API enqueues, cancels and retries rows with single statements.  *)
(*                                                                         *)
(* A task is one execution of execute_claimed.  It works on the copy of    *)
(* the row that the claim returned; every statement it sends is an action  *)
(* of its own, so other tasks, the reaper and the API act in between, and  *)
(* the task may die between any two (process crash, or a database error    *)
(* that makes execute_claimed return early).                               *)
(***************************************************************************)
EXTENDS RunStore, FiniteSets

CONSTANTS
    Tasks,         \* execution slots, of all replicas together
    NoRun,         \* the run of an idle slot
    Host,          \* Host[t]: the replica, one process, that slot t belongs to
    Threads,       \* threads of the tokio runtime of a replica
    MaxApprovals   \* bound: approval rows the model lets the engine create

ASSUME NoRunAssumption == NoRun \notin Runs
ASSUME ThreadsAssumption == Threads \in Nat \ {0}
ASSUME MaxApprovalsAssumption == MaxApprovals \in Nat

VARIABLES
    runs,          \* table runs
    run_steps,     \* table run_steps: per run, the indices logged as succeeded
    approvals,     \* table approvals, in order of creation
    task           \* what each slot is doing

vars == <<runs, run_steps, approvals, task>>

-----------------------------------------------------------------------------

(* "boundary"  at the head of the loop over the steps                      *)
(* "park"      approval row created, waiting_approval not yet saved        *)
(* "sleep"     delay logged, sleeping not yet saved                        *)
(* "stop"      extend_lease reported a cancellation, not yet saved         *)
(* "execute"   lease renewed, the step is in flight                        *)
(* "advance"   success logged, progress not yet saved                      *)
(* "fail"      failure logged, retry or dead letter not yet saved          *)
PC == {"idle", "boundary", "park", "sleep", "stop", "execute", "advance", "fail"}

(* slow: the lease this task last wrote, if it wrote any, may expire before *)
(* the task writes the next one.                                           *)
Task == [pc : PC, run : Runs \cup {NoRun}, copy : Copy, slow : BOOLEAN]

Idle == [pc |-> "idle", run |-> NoRun, copy |-> ReadRun(Absent), slow |-> FALSE]

Approval == [run : Runs, step : Nat, status : {"pending", "approved", "rejected"}]

(* Steps whose duration is not kept below LEASE_SECS = 60: a monolith call *)
(* times out after the same 60 s, a rhai script has no operation limit.    *)
SlowKinds == {"monolith", "script", "branch", "foreach"}

(* Steps that evaluate rhai, which is synchronous: no other task runs on   *)
(* the thread meanwhile (engine.rs:360, 379 and 431; no spawn_blocking).   *)
Rhai == {"script", "branch", "foreach"}

(* A subworkflow step waits for the run it creates; this module leaves it  *)
(* in flight.  The runs a foreach step creates are independent of it.      *)
Spawning == {"subworkflow"}

Outcomes(kind) == CASE kind = "log"     -> {TRUE}
                    [] kind = "unknown" -> {FALSE}
                    [] OTHER            -> BOOLEAN

(* A branch may name any step as the next one; no match falls through.     *)
NextIndex(r, c) == IF StepKind(r, c) = "branch"
                   THEN 0 .. (Len(Plan[r]) - 1) \cup {c.cursor + 1}
                   ELSE {c.cursor + 1}

(* The copy after its current step left its output in the context.         *)
WithOutput(c, next) == [c EXCEPT !.context = @ \cup {c.cursor}, !.cursor = next]

At(t, p)      == task[t].pc = p
Current(t)    == StepKind(task[t].run, task[t].copy)
Goto(t, p)    == task' = [task EXCEPT ![t].pc = p]
Leave(t)      == task' = [task EXCEPT ![t] = Idle]

(* The slots of a replica whose step may be holding a thread, whether the  *)
(* runtime has a thread left for its other tasks, and the tasks it starves *)
(* of theirs.                                                              *)
Blocked(h)    == {t \in Tasks : Host[t] = h /\ At(t, "execute") /\ Current(t) \in Rhai}
ThreadFree(h) == Cardinality(Blocked(h)) < Threads
Starved(t)    == ~ At(t, "idle") /\ t \notin Blocked(Host[t]) /\ ~ ThreadFree(Host[t])

Save(t, c, status, due) ==
    runs' = [runs EXCEPT ![task[t].run] = SaveProgress(@, c, status, due)]

LogSuccess(t) ==
    run_steps' = [run_steps EXCEPT ![task[t].run] = @ \cup {task[t].copy.cursor}]

Init ==
    /\ runs \in [Runs -> {Absent, Orphan}]
    /\ run_steps = [r \in Runs |-> {}]
    /\ approvals = <<>>
    /\ task = [t \in Tasks |-> Idle]

-----------------------------------------------------------------------------
(* The worker and the engine.                                              *)

Claim(t, r) ==
    /\ At(t, "idle")
    /\ CanClaim(runs[r])
    /\ runs' = [runs EXCEPT ![r] = ClaimDue(@)]
    /\ task' = [task EXCEPT ![t] = [pc |-> "boundary", run |-> r, slow |-> FALSE,
                                    copy |-> ReadRun(ClaimDue(runs[r]))]]
    /\ UNCHANGED <<run_steps, approvals>>

Finish(t) ==
    /\ At(t, "boundary")
    /\ AtEnd(task[t].run, task[t].copy)
    /\ Save(t, task[t].copy, "succeeded", TRUE)
    /\ Leave(t)
    /\ UNCHANGED <<run_steps, approvals>>

AtStep(t) ==
    /\ At(t, "boundary")
    /\ ~ AtEnd(task[t].run, task[t].copy)

(* The copy was already flagged when it was claimed, or the renewal of the *)
(* lease just reported the flag.                                           *)
Stop(t) ==
    /\ \/ AtStep(t) /\ task[t].copy.cancel_requested
       \/ At(t, "stop")
    /\ Save(t, task[t].copy, "canceled", TRUE)
    /\ Leave(t)
    /\ UNCHANGED <<run_steps, approvals>>

BeginStep(t) == AtStep(t) /\ ~ task[t].copy.cancel_requested

(* Variant: the run is parked although no approval row was created.        *)
RequestApprovalUnrecorded(t) ==
    /\ BeginStep(t)
    /\ Current(t) = "approval"
    /\ Goto(t, "park")
    /\ UNCHANGED <<runs, run_steps, approvals>>

RequestApproval(t) ==
    /\ BeginStep(t)
    /\ Current(t) = "approval"
    /\ Len(approvals) < MaxApprovals
    /\ approvals' = Append(approvals, [run |-> task[t].run, status |-> "pending",
                                       step |-> task[t].copy.cursor])
    /\ Goto(t, "park")
    /\ UNCHANGED <<runs, run_steps>>

Park(t) ==
    /\ At(t, "park")
    /\ Save(t, task[t].copy, "waiting_approval", TRUE)
    /\ Leave(t)
    /\ UNCHANGED <<run_steps, approvals>>

BeginDelay(t) ==
    /\ BeginStep(t)
    /\ Current(t) = "delay"
    /\ LogSuccess(t)
    /\ task' = [task EXCEPT ![t].pc = "sleep",
                            ![t].copy = WithOutput(@, @.cursor + 1)]
    /\ UNCHANGED <<runs, approvals>>

(* A delay of 0 seconds is due at once.                                    *)
Sleep(t) ==
    /\ At(t, "sleep")
    /\ \E due \in BOOLEAN : Save(t, task[t].copy, "sleeping", due)
    /\ Leave(t)
    /\ UNCHANGED <<run_steps, approvals>>

RenewLease(t) ==
    LET row == runs[task[t].run] IN
    /\ BeginStep(t)
    /\ Current(t) \notin {"approval", "delay"}
    /\ runs' = [runs EXCEPT ![task[t].run] = ExtendLease(@)]
    /\ task' = [task EXCEPT
                    ![t].pc = IF CancelSeen(row) THEN "stop" ELSE "execute",
                    ![t].copy.cancel_requested = CancelSeen(row),
                    ![t].slow = Current(t) \in SlowKinds \/ row.status # "running"]
    /\ UNCHANGED <<run_steps, approvals>>

(* execute_step and the insertion of its run_step.                         *)
ExecuteStep(t) ==
    /\ At(t, "execute")
    /\ Current(t) \notin Spawning
    /\ \E ok \in Outcomes(Current(t)) :
          IF ok THEN LogSuccess(t) /\ Goto(t, "advance")
                ELSE UNCHANGED run_steps /\ Goto(t, "fail")
    /\ UNCHANGED <<runs, approvals>>

Advance(t) ==
    /\ At(t, "advance")
    /\ \E next \in NextIndex(task[t].run, task[t].copy) :
          LET c == WithOutput(task[t].copy, next) IN
          /\ Save(t, c, "running", TRUE)
          /\ task' = [task EXCEPT ![t].pc = "boundary", ![t].copy = c]
    /\ UNCHANGED <<run_steps, approvals>>

Fail(t) ==
    /\ At(t, "fail")
    /\ IF task[t].copy.attempt >= MaxAttempts
       THEN Save(t, task[t].copy, "dead_letter", TRUE)
       ELSE Save(t, task[t].copy, "retrying", FALSE)
    /\ Leave(t)
    /\ UNCHANGED <<run_steps, approvals>>

Die(t) ==
    /\ ~ At(t, "idle")
    /\ Leave(t)
    /\ UNCHANGED <<runs, run_steps, approvals>>

EngineStep(t) ==
    \/ Finish(t) \/ Stop(t)
    \/ RequestApproval(t) \/ Park(t)
    \/ BeginDelay(t) \/ Sleep(t)
    \/ RenewLease(t) \/ ExecuteStep(t) \/ Advance(t) \/ Fail(t)

-----------------------------------------------------------------------------
(* The reaper, the statements of the API, and time.                        *)

ReapStale ==
    /\ \E r \in Runs : IsStale(runs[r])
    /\ runs' = [r \in Runs |-> IF IsStale(runs[r]) THEN Reap(runs[r]) ELSE runs[r]]
    /\ UNCHANGED <<run_steps, approvals, task>>

(* POST /workflows/{id}/run, POST /hooks/{token}, a cron schedule, or a    *)
(* foreach step of another run.                                            *)
Enqueue(r) ==
    /\ runs[r].status = "absent"
    /\ runs' = [runs EXCEPT ![r] = NewRun]
    /\ UNCHANGED <<run_steps, approvals, task>>

Cancel(r) ==
    /\ CanCancel(runs[r])
    /\ runs' = [runs EXCEPT ![r] = RequestCancel(@)]
    /\ UNCHANGED <<run_steps, approvals, task>>

Retry(r) ==
    /\ CanRequeue(runs[r])
    /\ \E restart \in BOOLEAN : runs' = [runs EXCEPT ![r] = Requeue(@, restart)]
    /\ UNCHANGED <<run_steps, approvals, task>>

(* LEASE_SECS pass without a renewal: nobody executes the run any more, or *)
(* only tasks that are not bound to renew in time, because of their step or*)
(* because steps of other runs hold every thread of their replica.  (What  *)
(* is left of a lease after a starved while may run out later; nothing but *)
(* the reaper, which may take its time, tells that from a lapse meanwhile.)*)
LeaseLapses(r) ==
    /\ runs[r].status = "running" /\ runs[r].lease_until = "future"
    /\ \A t \in Tasks : task[t].run = r => task[t].slow \/ Starved(t)
    /\ runs' = [runs EXCEPT ![r].lease_until = "past"]
    /\ UNCHANGED <<run_steps, approvals, task>>

BecomesDue(r) ==
    /\ ~ runs[r].due
    /\ runs' = [runs EXCEPT ![r].due = TRUE]
    /\ UNCHANGED <<run_steps, approvals, task>>

Environment ==
    \/ ReapStale
    \/ \E r \in Runs : Enqueue(r) \/ Cancel(r) \/ Retry(r) \/ LeaseLapses(r) \/ BecomesDue(r)

Next ==
    \/ Environment
    \/ \E t \in Tasks : EngineStep(t) \/ Die(t) \/ \E r \in Runs : Claim(t, r)

Spec == Init /\ [][Next]_vars

(* Time passes.  A replica with a free thread polls its timers, its claim  *)
(* loop and its tasks, so that a task that does not die goes on; a rhai    *)
(* evaluation need not end.  Nothing obliges a client to act or a task to  *)
(* die.                                                                    *)
Fairness ==
    /\ \A t \in Tasks : WF_vars(ThreadFree(Host[t]) /\ t \notin Blocked(Host[t])
                                  /\ EngineStep(t))
    /\ WF_vars(ReapStale /\ \E t \in Tasks : ThreadFree(Host[t]))
    /\ \A r \in Runs : /\ WF_vars(\E t \in Tasks : ThreadFree(Host[t]) /\ Claim(t, r))
                       /\ WF_vars(LeaseLapses(r))
                       /\ WF_vars(BecomesDue(r))

FairSpec == Spec /\ Fairness

(* The other premise of the lease, which nothing in the code assures: never*)
(* do the rhai steps in flight hold all the threads of a replica that has  *)
(* another run to execute.  (A pool with a thread for each slot, or plans  *)
(* without rhai, meet it.)                                                 *)
Unstarved == \A t \in Tasks : ~ Starved(t)

UnstarvedSpec == Init /\ [][Next /\ Unstarved']_vars

-----------------------------------------------------------------------------
(* Properties.                                                             *)

(* Every row, log, approval and slot has the shape of its table or type.   *)
TypeOK ==
    /\ runs \in [Runs -> Row]
    /\ run_steps \in [Runs -> SUBSET Nat]
    /\ approvals \in Seq(Approval)
    /\ task \in [Tasks -> Task]

Executing(t, r) == task[t].run = r

OneExecutorIn(S) ==
    \A r \in S : \A t, u \in Tasks : Executing(t, r) /\ Executing(u, r) => t = u

(* worker.rs:9-10: a run is executed by at most one live worker at a time, *)
(* however claims, leases, the reaper, cancellations and retries overlap.  *)
OneExecutor == OneExecutorIn(Runs)

(* engine.rs:27-29, the premise of the lease: no step of the run may       *)
(* outlast it.  The code does not enforce this (SlowKinds).                *)
ShortRuns == {r \in Runs : \A i \in DOMAIN Plan[r] : Plan[r][i] \notin SlowKinds}

(* The same of each run whose own steps are short.  It needs a thread to   *)
(* renew with: see Unstarved.                                              *)
OneExecutorIfShort == OneExecutorIn(ShortRuns)

(* model.rs:56: a run in a terminal state never executes again on its own; *)
(* the only way out is an operator's retry (requeue_run).  Slow runs, whose*)
(* late saves are not fenced, are excepted here and below.                 *)
TerminalIsFinal ==
    [][\A r \in ShortRuns : runs[r].status \in Terminal =>
          \/ runs'[r] = runs[r]
          \/ runs'[r] = [runs[r] EXCEPT !.due = TRUE]
          \/ CanRequeue(runs[r]) /\ \E restart \in BOOLEAN :
                                        runs'[r] = Requeue(runs[r], restart)]_vars

(* The steps of run r that leave an output behind when they are passed.    *)
Producing(r) == {i \in 0 .. (Len(Plan[r]) - 1) : Plan[r][i + 1] # "approval"}

(* No step of the run chooses its successor.                               *)
LinearRuns == {r \in Runs : \A i \in DOMAIN Plan[r] : Plan[r][i] # "branch"}

(* Durable resume: whatever a row or a live copy has its cursor at, every  *)
(* earlier step left its output in the context and a success in the log.   *)
(* A crash, a retry or a reclaimed lease loses neither (where no branch    *)
(* jumps over a step).                                                     *)
Recorded(r, c, log) ==
    \A i \in Producing(r) : i < c.cursor => i \in c.context /\ i \in log

ProgressRecorded ==
    /\ \A r \in LinearRuns : Recorded(r, runs[r], run_steps[r])
    /\ \A t \in Tasks : task[t].run \in LinearRuns =>
          Recorded(task[t].run, task[t].copy, run_steps[task[t].run])

Flagged(t) == At(t, "boundary") /\ runs[task[t].run].cancel_requested

(* db.rs:186-187, api.rs:135-136: a running run that was flagged cancels at*)
(* its next step boundary.  There the engine has its copy of the flag      *)
(* (engine.rs:50) or the answer of the renewal (112), and a task whose     *)
(* step is a delay, an approval or the end asks for no renewal.            *)
CancelStopsAtBoundary ==
    [][\A t \in Tasks : task[t].run \in ShortRuns /\ Flagged(t)
          => \/ task'[t].pc \in {"boundary", "stop"}
             \/ runs'[task[t].run].status = "canceled"
             \/ Die(t)]_vars

(* What the code does keep of it: a flagged run begins no further step that*)
(* acts (any kind but delay and approval), in whichever claim of the run   *)
(* and whether the engine learns of the flag by the claim or the renewal.  *)
FlagStopsExecution ==
    [][\A t \in Tasks : task[t].run \in ShortRuns /\ Flagged(t)
          => task'[t].pc # "execute"]_vars

(* db.rs:169-171: a running row without a lease can only be an orphan of   *)
(* the old engine, at most flagged since; no claimed run ever becomes one. *)
NullLeaseOnlyLegacy ==
    \A r \in ShortRuns : runs[r].status = "running" /\ runs[r].lease_until = "null"
        => \E flag \in BOOLEAN : runs[r] = [Orphan EXCEPT !.cancel_requested = flag]

(* Pauses that take a claim of their own to come back from.                *)
Pauses(r, n) == {i \in 0 .. (Len(Plan[r]) - 1) :
                    i < n /\ Plan[r][i + 1] \in {"delay", "approval", "subworkflow"}}

PauseCount(r, n) == Cardinality(Pauses(r, n))

(* The retry budget: every claim counts, so a run is claimed at most       *)
(* max_attempts times plus once for each pause it has passed (a branch back*)
(* over a pause would spend a claim on it each time round).                *)
AttemptsBounded ==
    \A r \in LinearRuns : runs[r].attempt <= MaxAttempts + PauseCount(r, runs[r].cursor)

(* The bound on approval rows, which no database has, holds the run back.  *)
HeldByBound(r) == \E t \in Tasks : /\ Executing(t, r) /\ BeginStep(t)
                                   /\ Current(t) = "approval"
                                   /\ Len(approvals) = MaxApprovals

(* worker.rs:5, engine.rs:9: a run that was accepted does not stay active  *)
(* for ever, however often its workers die: each claim spends an attempt,  *)
(* so it ends, or waits for a human.                                       *)
Active == {"queued", "running", "retrying", "sleeping"}

Settles == \A r \in Runs :
              runs[r].status \in Active ~> runs[r].status \notin Active \/ HeldByBound(r)
=============================================================================
