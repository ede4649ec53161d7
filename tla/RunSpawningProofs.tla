------------------------- MODULE RunSpawningProofs --------------------------
(***************************************************************************)
(* Theorems about RunSpawning, for every set of runs, plans, slots and     *)
(* attempt limits: the type invariant, the retry budget, and that no run   *)
(* gets past a step whose runs do not exist or whose child has not         *)
(* succeeded, nor loses an output or resumes in another step than called.  *)
(***************************************************************************)
EXTENDS RunSpawning, RunBudgetProofs

-----------------------------------------------------------------------------
(* Steps, the runs they create, and the step that a child was created by.  *)

Calls     == Steps("subworkflow")
Callee(s) == Spawns(s)[1]
Callees   == {Callee(s) : s \in Calls}

LEMMA StepMember ==
    ASSUME NEW kind, NEW r, NEW i
    PROVE  <<r, i>> \in Steps(kind) <=>
               r \in Runs /\ i \in 0 .. (Len(Plan[r]) - 1) /\ Plan[r][i + 1] = kind
BY DEF Steps

LEMMA StepPair ==
    ASSUME NEW kind, NEW s \in Steps(kind)
    PROVE  /\ s = <<s[1], s[2]>>
           /\ s[1] \in Runs /\ s[2] \in Nat /\ s[2] < Len(Plan[s[1]])
           /\ Plan[s[1]][s[2] + 1] = kind
<1>1. PICK r \in Runs : s \in {r} \X {i \in 0 .. (Len(Plan[r]) - 1) : Plan[r][i + 1] = kind}
  BY DEF Steps
<1>2. PICK i \in 0 .. (Len(Plan[r]) - 1) : s = <<r, i>> /\ Plan[r][i + 1] = kind
  BY <1>1
<1>3. Len(Plan[r]) \in Nat
  BY <1>1, PlanAssumption
<1> QED BY <1>1, <1>2, <1>3

LEMMA CalleeFacts ==
    /\ Callees \subseteq Runs
    /\ \A s \in Calls : /\ Len(Spawns(s)) = 1 /\ DOMAIN Spawns(s) = {1}
                        /\ Callee(s) \in Callees
                        /\ Caller(Callee(s)) = s
    /\ \A c \in Callees : Caller(c) \in Calls /\ Callee(Caller(c)) = c
<1>1. ASSUME NEW s \in Calls
      PROVE  /\ Len(Spawns(s)) = 1 /\ DOMAIN Spawns(s) = {1} /\ Callee(s) \in Runs
             /\ Caller(Callee(s)) = s
  <2>1. s \in SpawningSteps /\ Spawns(s) \in Seq(Runs) /\ Len(Spawns(s)) = 1
    BY ChildrenAssumption DEF Calls, SpawningSteps
  <2>2. DOMAIN Spawns(s) = {1} /\ Spawns(s)[1] \in Runs
    BY <2>1
  <2>3. ASSUME NEW u \in Calls, Callee(u) = Callee(s) PROVE u = s
    <3>1. u \in SpawningSteps /\ Spawns(u) \in Seq(Runs) /\ Len(Spawns(u)) = 1
      BY ChildrenAssumption DEF Calls, SpawningSteps
    <3>2. 1 \in DOMAIN Spawns(u) /\ 1 \in DOMAIN Spawns(s)
      BY <2>2, <3>1
    <3> QED BY <2>1, <2>3, <3>1, <3>2, ChildrenAssumption DEF Callee
  <2>4. Caller(Callee(s)) = s
    BY <2>3 DEF Caller, Calls, Callee
  <2> QED BY <2>1, <2>2, <2>4 DEF Callee
<1> QED BY <1>1 DEF Callees

LEMMA CreatedRuns ==
    /\ \A s \in SpawningSteps : /\ Spawns(s) \in Seq(Runs)
                                /\ \A k \in DOMAIN Spawns(s) : Spawns(s)[k] \in Runs
    /\ Callees \subseteq Created
<1>1. \A s \in SpawningSteps : Spawns(s) \in Seq(Runs)
  BY ChildrenAssumption
<1>2. Callees \subseteq Created
  BY CalleeFacts DEF Callees, Callee, Created, Calls, SpawningSteps
<1> QED BY <1>1, <1>2

(* Where the plan says so, the step a task executes is a spawning one.     *)
LEMMA CurrentMember ==
    ASSUME TypeInv, NEW t \in Tasks, ~ At(t, "idle"), NEW kind
    PROVE  CurrentStep(t) \in Steps(kind) <=>
               ~ AtEnd(task[t].run, task[t].copy) /\ Current(t) = kind
<1>1. task[t].run \in Runs /\ task[t].copy.cursor \in Nat /\ Len(Plan[task[t].run]) \in Nat
  BY InFlight, PlanAssumption
<1> QED BY <1>1, StepMember DEF CurrentStep, Current, StepKind, AtEnd

-----------------------------------------------------------------------------
(* Where rows and copies get their cursor and context from: a fresh run, a *)
(* row or a copy of before, or a copy that passed its step.                *)

SameSpot(x, y) == x.cursor = y.cursor /\ x.context = y.context

Fresh(r, x) == x.cursor = 0 /\ (ParentKey(r) \in x.context => r \in Callees)

Stepped(t, x) ==
    /\ ~ AtEnd(task[t].run, task[t].copy)
    /\ At(t, "advance") \/ Current(t) = "delay"
    /\ x.context = task[t].copy.context \cup {task[t].copy.cursor}
    /\ task[t].run \in LinearRuns => x.cursor = task[t].copy.cursor + 1

FromTask(t, r, x) ==
    /\ ~ At(t, "idle") /\ task[t].run = r
    /\ SameSpot(x, task[t].copy) \/ Stepped(t, x)

Reached(r, x) == Fresh(r, x) \/ SameSpot(x, runs[r]) \/ \E t \in Tasks : FromTask(t, r, x)

AllReached ==
    /\ \A r \in Runs : Reached(r, runs'[r])
    /\ \A t \in Tasks : task'[t].pc # "idle" => Reached(task'[t].run, task'[t].copy)

(* A step of one slot that leaves the other slots and their rows alone.    *)
LEMMA SlotMoves ==
    ASSUME TypeInv, NEW t \in Tasks, ~ At(t, "idle"),
           \A r \in Runs : r # task[t].run => SameSpot(runs'[r], runs[r]),
           \A u \in Tasks : u # t => task'[u] = task[u],
           Reached(task[t].run, runs'[task[t].run]),
           \/ task'[t] = Idle
           \/ task'[t].run = task[t].run /\ Reached(task[t].run, task'[t].copy)
    PROVE  AllReached
<1>1. \A r \in Runs : Reached(r, runs'[r])
  BY DEF Reached
<1>2. ASSUME NEW u \in Tasks, task'[u].pc # "idle" PROVE Reached(task'[u].run, task'[u].copy)
  <2>1. CASE u = t
    BY <1>2, <2>1 DEF Idle
  <2>2. CASE u # t
    BY <1>2, <2>2 DEF Reached, FromTask, SameSpot, At
  <2> QED BY <2>1, <2>2
<1> QED BY <1>1, <1>2 DEF AllReached

LEMMA SaveSpot ==
    ASSUME TypeOK, NEW t \in Tasks, task[t].run \in Runs,
           NEW c, NEW status, NEW due, Save(t, c, status, due)
    PROVE  /\ SameSpot(runs'[task[t].run], c)
           /\ \A r \in Runs : r # task[t].run => SameSpot(runs'[r], runs[r])
BY DEF Save, SaveProgress, TypeOK, Row, SameSpot

LEMMA SaveAndLeaveMoves ==
    ASSUME TypeInv, NEW t \in Tasks, ~ At(t, "idle"), NEW status, NEW due,
           Save(t, task[t].copy, status, due), Leave(t)
    PROVE  AllReached
<1>1. TypeOK /\ task[t].run \in Runs
  BY InFlight DEF TypeInv
<1>2. SameSpot(runs'[task[t].run], task[t].copy)
  BY <1>1, SaveSpot
<1>3. Reached(task[t].run, runs'[task[t].run])
  BY <1>1, <1>2 DEF Reached, FromTask
<1> QED BY <1>1, <1>3, SaveSpot, LeaveEffect, SlotMoves

LEMMA EngineStepMoves ==
    ASSUME TypeInv, MidStepInv, NEW t \in Tasks, EngineStep(t)
    PROVE  AllReached
<1>0. ~ At(t, "idle")
  BY DEF EngineStep, Finish, Stop, RequestApproval, Park, BeginDelay, Sleep, RenewLease,
         ExecuteStep, Advance, Fail, BeginStep, AtStep, At
<1> DEFINE r == task[t].run
           c == task[t].copy
<1>1. /\ r \in Runs /\ c \in Copy /\ c.cursor \in Nat /\ TypeOK /\ task[t] \in Task
      /\ Reached(r, runs[r])
  BY <1>0, InFlight DEF TypeInv, TypeOK, Reached, SameSpot
<1>2. CASE Finish(t) \/ Stop(t) \/ Park(t) \/ Sleep(t) \/ Fail(t)
  BY <1>0, <1>2, SaveAndLeaveMoves DEF Finish, Stop, Park, Sleep, Fail
<1>3. ASSUME \A s \in Runs : SameSpot(runs'[s], runs[s]),
             \A u \in Tasks : u # t => task'[u] = task[u],
             task'[t].run = r, SameSpot(task'[t].copy, c) \/ Stepped(t, task'[t].copy)
      PROVE  AllReached
  <2>1. Reached(r, runs'[r]) /\ Reached(r, task'[t].copy)
    BY <1>0, <1>1, <1>3 DEF Reached, FromTask
  <2> QED BY <1>0, <1>3, <2>1, SlotMoves
<1>4. CASE RequestApproval(t) \/ ExecuteStep(t)
  <2>1. runs' = runs /\ \E p : Goto(t, p)
    BY <1>4 DEF RequestApproval, ExecuteStep
  <2> QED BY <1>1, <1>3, <2>1 DEF Goto, TypeOK, Task, SameSpot
<1>5. CASE BeginDelay(t)
  <2>1. /\ \A u \in Tasks : u # t => task'[u] = task[u]
        /\ task'[t].run = r /\ task'[t].copy = WithOutput(c, c.cursor + 1) /\ runs' = runs
    BY <1>1, <1>5 DEF BeginDelay, TypeOK, Task
  <2>2. Stepped(t, task'[t].copy)
    BY <1>1, <1>5, <2>1 DEF BeginDelay, BeginStep, AtStep, Stepped, WithOutput, Copy
  <2> QED BY <1>3, <2>1, <2>2 DEF SameSpot
<1>6. CASE RenewLease(t)
  <2>1. \A s \in Runs : SameSpot(runs'[s], runs[s])
    BY <1>1, <1>6 DEF RenewLease, ExtendLease, TypeOK, Row, SameSpot
  <2>2. /\ \A u \in Tasks : u # t => task'[u] = task[u]
        /\ task'[t].run = r
        /\ task'[t].copy = [c EXCEPT !.cancel_requested = CancelSeen(runs[r])]
    BY <1>1, <1>6 DEF RenewLease, TypeOK, Task
  <2>3. SameSpot(task'[t].copy, c)
    BY <1>1, <2>2 DEF Copy, SameSpot
  <2> QED BY <1>3, <2>1, <2>2, <2>3
<1>7. CASE Advance(t)
  <2>1. PICK next \in NextIndex(r, c) :
           /\ Save(t, WithOutput(c, next), "running", TRUE)
           /\ task' = [task EXCEPT ![t].pc = "boundary", ![t].copy = WithOutput(c, next)]
    BY <1>7 DEF Advance
  <2> DEFINE d == WithOutput(c, next)
  <2>2. r \in LinearRuns => next = c.cursor + 1
    <3>1. ~ AtEnd(r, c)
      BY <1>7 DEF Advance, At, MidStepInv
    <3> QED BY <1>1, <2>1, <3>1, LinearNext
  <2>3. d.cursor = next /\ d.context = c.context \cup {c.cursor}
    BY <1>1 DEF WithOutput, Copy
  <2>4. At(t, "advance") /\ ~ AtEnd(r, c)
    BY <1>7 DEF Advance, At, MidStepInv
  <2>5. \A x : SameSpot(x, d) => Stepped(t, x)
    BY <2>2, <2>3, <2>4 DEF Stepped, SameSpot
  <2>6. /\ \A u \in Tasks : u # t => task'[u] = task[u]
        /\ task'[t].run = r /\ task'[t].copy = d
    BY <1>1, <2>1 DEF TypeOK, Task
  <2>7. SameSpot(runs'[r], d) /\ \A s \in Runs : s # r => SameSpot(runs'[s], runs[s])
    BY <1>1, <2>1, SaveSpot
  <2>8. Reached(r, runs'[r]) /\ Reached(r, task'[t].copy)
    BY <1>0, <2>5, <2>6, <2>7 DEF Reached, FromTask, SameSpot
  <2> QED BY <1>0, <2>6, <2>7, <2>8, SlotMoves
<1> QED BY <1>2, <1>4, <1>5, <1>6, <1>7 DEF EngineStep

LEMMA FreshRows ==
    ASSUME NEW r \in Runs
    PROVE  Fresh(r, NewRun) /\ \A row \in Row : Fresh(r, Requeue(row, TRUE))
BY DEF Fresh, NewRun, Absent, Requeue, Row

LEMMA EnvironmentMoves == ASSUME TypeInv, Environment PROVE AllReached
<1>1. task' = task /\ runs \in [Runs -> Row]
  BY DEF Environment, ReapStale, Enqueue, Cancel, Retry, LeaseLapses, BecomesDue, TypeInv, TypeOK
<1>2. ASSUME NEW r \in Runs PROVE Fresh(r, runs'[r]) \/ SameSpot(runs'[r], runs[r])
  <2>1. CASE ReapStale
    BY <1>1, <2>1 DEF ReapStale, Reap, Row, SameSpot
  <2>2. ASSUME NEW s \in Runs, Enqueue(s) PROVE Fresh(r, runs'[r]) \/ SameSpot(runs'[r], runs[r])
    BY <1>1, <2>2, FreshRows DEF Enqueue, SameSpot
  <2>3. ASSUME NEW s \in Runs, Cancel(s) PROVE SameSpot(runs'[r], runs[r])
    BY <1>1, <2>3 DEF Cancel, RequestCancel, Row, SameSpot
  <2>4. ASSUME NEW s \in Runs, Retry(s) PROVE Fresh(r, runs'[r]) \/ SameSpot(runs'[r], runs[r])
    <3>1. PICK restart \in BOOLEAN : runs' = [runs EXCEPT ![s] = Requeue(runs[s], restart)]
      BY <2>4 DEF Retry
    <3>2. SameSpot(Requeue(runs[s], FALSE), runs[s])
      BY <1>1 DEF Requeue, Row, SameSpot
    <3> QED BY <1>1, <3>1, <3>2, FreshRows DEF SameSpot
  <2>5. ASSUME NEW s \in Runs, LeaseLapses(s) \/ BecomesDue(s) PROVE SameSpot(runs'[r], runs[r])
    BY <1>1, <2>5 DEF LeaseLapses, BecomesDue, Row, SameSpot
  <2> QED BY <2>1, <2>2, <2>3, <2>4, <2>5 DEF Environment
<1> QED BY <1>1, <1>2 DEF AllReached, Reached, FromTask, SameSpot, At

LEMMA EngineMoves == ASSUME TypeInv, MidStepInv, [Next]_vars PROVE AllReached
<1>1. CASE Environment
  BY <1>1, EnvironmentMoves
<1>2. ASSUME NEW t \in Tasks, EngineStep(t) PROVE AllReached
  BY <1>2, EngineStepMoves
<1>3. ASSUME NEW t \in Tasks, Die(t) PROVE AllReached
  <2>1. ~ At(t, "idle") /\ runs' = runs /\ Leave(t)
    BY <1>3 DEF Die
  <2> QED BY <2>1, LeaveEffect, SlotMoves DEF TypeInv, Reached, SameSpot
<1>4. ASSUME NEW t \in Tasks, NEW r \in Runs, Claim(t, r) PROVE AllReached
  <2>1. \A s \in Runs : SameSpot(runs'[s], runs[s])
    BY <1>4 DEF Claim, ClaimDue, TypeInv, TypeOK, Row, SameSpot
  <2>2. /\ \A u \in Tasks : u # t => task'[u] = task[u]
        /\ task'[t].run = r /\ task'[t].copy = ReadRun(ClaimDue(runs[r]))
    BY <1>4 DEF Claim, TypeInv, TypeOK
  <2>3. SameSpot(task'[t].copy, runs[r])
    BY <2>2 DEF ReadRun, ClaimDue, TypeInv, TypeOK, Row, SameSpot
  <2> QED BY <2>1, <2>2, <2>3 DEF AllReached, Reached, FromTask, SameSpot, At
<1>5. CASE UNCHANGED vars
  BY <1>5 DEF vars, AllReached, Reached, FromTask, SameSpot, At
<1> QED BY <1>1, <1>2, <1>3, <1>4, <1>5 DEF Next

-----------------------------------------------------------------------------
(* The steps of RunSpawning that are steps of RunEngine, and what each     *)
(* other one does to the tables and the slots.                             *)

(* What happens to the status and the position of a row: nothing, or a     *)
(* slot that executes the run writes it, or it was no finished child.      *)
RowMoves(r) ==
    \/ runs'[r].status = runs[r].status /\ runs'[r].cursor = runs[r].cursor
    \/ /\ runs'[r].status \notin {"absent", "waiting_subworkflow"}
       /\ \/ \E t \in Tasks : ~ At(t, "idle") /\ task[t].run = r
          \/ runs[r].status \notin {"absent", "succeeded"}
          \/ r \notin Created

Executed(t) ==
    /\ At(t, "execute") /\ ~ AtSpawn(t)
    /\ task'[t].run = task[t].run /\ task'[t].copy = task[t].copy

Quiet ==
    /\ [Next]_vars /\ spawned' \in [Tasks -> Nat]
    /\ \A r \in Runs : RowMoves(r)
    /\ \A t \in Tasks :
          /\ spawned'[t] = spawned[t] \/ spawned'[t] = 0
          /\ AtSpawn(t) => task'[t] = task[t] \/ spawned'[t] = 0
          /\ task'[t].pc = "advance" => task'[t] = task[t] \/ Executed(t)

LEMMA EngineFrame ==
    ASSUME TypeInv, NEW t \in Tasks, EngineStep(t)
    PROVE  ~ At(t, "idle") /\ \A u \in Tasks : u # t => task'[u] = task[u]
<1>1. TypeOK
  BY DEF TypeInv
<1>2. ~ At(t, "idle")
  BY DEF EngineStep, Finish, Stop, RequestApproval, Park, BeginDelay, Sleep, RenewLease,
         ExecuteStep, Advance, Fail, BeginStep, AtStep, At
<1>3. CASE Leave(t) \/ \E p : Goto(t, p)
  BY <1>1, <1>2, <1>3 DEF Leave, Goto, TypeOK
<1>4. CASE BeginDelay(t) \/ RenewLease(t) \/ Advance(t)
  <2>1. \E x : task' = [task EXCEPT ![t] = x]
    BY <1>4 DEF BeginDelay, RenewLease, Advance
  <2> QED BY <1>1, <1>2, <2>1 DEF TypeOK
<1> QED
  BY <1>3, <1>4
     DEF EngineStep, Finish, Stop, RequestApproval, Park, Sleep, ExecuteStep, Fail

LEMMA EngineRowMoves ==
    ASSUME TypeInv, NEW t \in Tasks, EngineStep(t)
    PROVE  \A r \in Runs : RowMoves(r)
<1>1. TypeOK /\ task[t].run \in Runs /\ ~ At(t, "idle")
  BY EngineFrame, InFlight DEF TypeInv
<1>2. CASE runs' = runs
  BY <1>2 DEF RowMoves
<1>3. ASSUME NEW c, NEW status, NEW due, Save(t, c, status, due),
             status \notin {"absent", "waiting_subworkflow"}
      PROVE  \A r \in Runs : RowMoves(r)
  BY <1>1, <1>3, SaveEffect DEF RowMoves
<1>4. CASE RenewLease(t)
  BY <1>1, <1>4 DEF RenewLease, ExtendLease, TypeOK, Row, RowMoves
<1>5. \/ runs' = runs \/ RenewLease(t)
      \/ \E status \in Status \ {"absent", "waiting_subworkflow"} :
            \E c, due : Save(t, c, status, due)
  <2> DEFINE Written(status) == \E c, due : Save(t, c, status, due)
  <2>1. \E status \in {"succeeded", "canceled", "waiting_approval", "sleeping", "running",
                       "dead_letter", "retrying"} : Written(status)
        \/ runs' = runs \/ RenewLease(t)
    <3>1. CASE Finish(t) \/ Stop(t) \/ Park(t) \/ Sleep(t)
      BY <3>1 DEF Finish, Stop, Park, Sleep
    <3>2. CASE Advance(t)
      BY <3>2 DEF Advance
    <3>3. CASE Fail(t)
      BY <3>3 DEF Fail
    <3> QED BY <3>1, <3>2, <3>3 DEF EngineStep, RequestApproval, BeginDelay, ExecuteStep
  <2> HIDE DEF Written
  <2>2. {"succeeded", "canceled", "waiting_approval", "sleeping", "running", "dead_letter",
         "retrying"} \subseteq Status \ {"absent", "waiting_subworkflow"}
    BY DEF Status, Claimable, Waiting, Terminal
  <2>3. RenewLease(t) \/ runs' = runs
           \/ \E status \in Status \ {"absent", "waiting_subworkflow"} : Written(status)
    BY <2>1, <2>2
  <2> QED BY <2>3 DEF Written
<1> QED BY <1>2, <1>3, <1>4, <1>5

LEMMA AdvanceFrom ==
    ASSUME TypeInv, NEW t \in Tasks, EngineStep(t), task'[t].pc = "advance"
    PROVE  /\ ExecuteStep(t) /\ At(t, "execute")
           /\ task'[t].run = task[t].run /\ task'[t].copy = task[t].copy
<1>1. task \in [Tasks -> Task] /\ task[t] \in Task /\ TypeOK
  BY DEF TypeInv, TypeOK
<1>2. ~ Leave(t)
  BY <1>1, LeaveEffect DEF Idle
<1>3. ~ RequestApproval(t) /\ ~ BeginDelay(t)
  BY <1>1 DEF RequestApproval, BeginDelay, Goto, Task
<1>4. ~ RenewLease(t) /\ ~ Advance(t)
  <2>1. ASSUME RenewLease(t) PROVE FALSE
    <3>1. task'[t].pc \in {"stop", "execute"}
      BY <1>1, <2>1 DEF RenewLease, Task
    <3> QED BY <3>1
  <2>2. ASSUME Advance(t) PROVE FALSE
    <3>1. PICK c : task' = [task EXCEPT ![t].pc = "boundary", ![t].copy = c]
      BY <2>2 DEF Advance
    <3> QED BY <1>1, <3>1 DEF Task
  <2> QED BY <2>1, <2>2
<1>5. ExecuteStep(t)
  BY <1>2, <1>3, <1>4 DEF EngineStep, Finish, Stop, Park, Sleep, Fail
<1> QED BY <1>1, <1>5 DEF ExecuteStep, Goto, Task

LEMMA QuietSteps ==
    ASSUME TypeInv, spawned \in [Tasks -> Nat], resumer \in [Tasks -> Resumer],
           [SpawnNext]_spawnVars
    PROVE  \/ Quiet /\ resumer' = resumer
           \/ Quiet /\ \E t \in Tasks : FinishRun(t)
           \/ \E t \in Tasks : SpawnChild(t) \/ SpawnAnswerLost(t)
           \/ \E t \in Tasks : SpawnFails(t) \/ ForeachDone(t) \/ AwaitChild(t)
           \/ \E t \in Tasks : LoadParent(t) \/ ResumeParent(t) \/ LogResume(t)
                                \/ ResumerDropped(t)
<1>0. runs \in [Runs -> Row]
  BY DEF TypeInv, TypeOK
<1>1. CASE Around
  <2>1. Environment /\ UNCHANGED <<task, spawned, resumer>>
    BY <1>1 DEF Around, Environment, ReapStale, Enqueue, Cancel, Retry, LeaseLapses, BecomesDue
  <2>2. ASSUME ReapStale, NEW r \in Runs PROVE RowMoves(r)
    <3>1. runs'[r] = IF IsStale(runs[r]) THEN Reap(runs[r]) ELSE runs[r]
      BY <2>2 DEF ReapStale
    <3>2. /\ Reap(runs[r]).status \in {"dead_letter", "retrying"}
          /\ IsStale(runs[r]) => runs[r].status = "running"
      BY <1>0 DEF Reap, IsStale, Row
    <3> QED BY <3>1, <3>2 DEF RowMoves
  <2>3. ASSUME NEW r \in Runs \ Created, Enqueue(r) PROVE \A s \in Runs : RowMoves(s)
    BY <1>0, <2>3 DEF Enqueue, NewRun, Absent, RowMoves
  <2>4. ASSUME NEW r \in Runs, Cancel(r) PROVE \A s \in Runs : RowMoves(s)
    BY <1>0, <2>4 DEF Cancel, CanCancel, RequestCancel, Claimable, Waiting, RowMoves, Row
  <2>5. ASSUME NEW r \in Runs, Retry(r) PROVE \A s \in Runs : RowMoves(s)
    BY <1>0, <2>5 DEF Retry, CanRequeue, Requeue, RowMoves, Row
  <2>6. ASSUME NEW r \in Runs, LeaseLapses(r) \/ BecomesDue(r), NEW s \in Runs
        PROVE  RowMoves(s)
    <3>1. runs'[s].status = runs[s].status /\ runs'[s].cursor = runs[s].cursor
      BY <1>0, <2>6 DEF LeaseLapses, BecomesDue, Row
    <3> QED BY <3>1 DEF RowMoves
  <2>7. \A r \in Runs : RowMoves(r)
    BY <1>1, <2>2, <2>3, <2>4, <2>5, <2>6 DEF Around
  <2>8. Next
    BY <2>1 DEF Next
  <2> QED BY <2>1, <2>7, <2>8 DEF Quiet
<1>2. ASSUME NEW t \in Tasks, EngineStep(t), ~ AtSpawn(t), spawned' = spawned PROVE Quiet
  <2>1. \A u \in Tasks : u # t => task'[u] = task[u]
    BY <1>2, EngineFrame
  <2>2. task'[t].pc = "advance" => Executed(t)
    BY <1>2, AdvanceFrom DEF Executed
  <2>3. \A r \in Runs : RowMoves(r)
    BY <1>2, EngineRowMoves
  <2> QED BY <1>2, <2>1, <2>2, <2>3 DEF Quiet, Next
<1>3. ASSUME NEW t \in Tasks, OtherStep(t) PROVE Quiet /\ resumer' = resumer
  <2>1. EngineStep(t) /\ UNCHANGED <<spawned, resumer>>
    BY <1>3 DEF OtherStep, EngineStep
  <2>2. ~ AtSpawn(t)
    BY <1>3 DEF OtherStep, AtSpawn, Stop, RequestApproval, Park, BeginDelay, Sleep, RenewLease,
                Advance, Fail, BeginStep, AtStep, At
  <2> QED BY <1>2, <2>1, <2>2
<1>4. ASSUME NEW t \in Tasks, FinishRun(t) PROVE Quiet
  BY <1>2, <1>4 DEF FinishRun, Finish, EngineStep, AtSpawn, At
<1>5. ASSUME NEW t \in Tasks, DieSpawning(t) PROVE Quiet /\ resumer' = resumer
  <2>1. /\ Die(t) /\ resumer' = resumer /\ spawned' = [spawned EXCEPT ![t] = 0]
        /\ runs' = runs
    BY <1>5 DEF DieSpawning, Die
  <2>2. task'[t].pc = "idle" /\ \A u \in Tasks : u # t => task'[u] = task[u]
    BY <2>1, LeaveEffect DEF Die, TypeInv, Idle
  <2> QED BY <2>1, <2>2 DEF Quiet, Next, RowMoves
<1>6. ASSUME NEW t \in Tasks, NEW r \in Runs, ClaimFree(t, r) PROVE Quiet /\ resumer' = resumer
  <2>1. Claim(t, r) /\ UNCHANGED <<spawned, resumer>>
    BY <1>6 DEF ClaimFree
  <2>2. ~ AtSpawn(t) /\ task'[t].pc = "boundary" /\ \A u \in Tasks : u # t => task'[u] = task[u]
    BY <2>1 DEF Claim, At, AtSpawn, TypeInv, TypeOK
  <2>3. \A s \in Runs : RowMoves(s)
    BY <1>0, <2>1 DEF Claim, CanClaim, ClaimDue, Claimable, RowMoves, Row
  <2> QED BY <2>1, <2>2, <2>3 DEF Quiet, Next
<1>7. CASE UNCHANGED spawnVars
  BY <1>7 DEF spawnVars, vars, Quiet, RowMoves
<1> QED BY <1>1, <1>3, <1>4, <1>5, <1>6, <1>7 DEF SpawnNext, TaskStep, Around, Quiet, Environment

(* A slot counts only the runs of the step it executes.                    *)
SpawnersAt ==
    \A t \in Tasks : spawned[t] > 0 =>
        AtSpawn(t) /\ spawned[t] <= Len(Spawns(CurrentStep(t)))

(* Only a run that a subworkflow step created has a `_parent`.             *)
KeyOK(r, c) == ParentKey(r) \in c.context => r \in Callees

KeyInv ==
    /\ \A r \in Runs : KeyOK(r, runs[r])
    /\ \A t \in Tasks : task[t].pc # "idle" => KeyOK(task[t].run, task[t].copy)
    /\ \A t \in Tasks : resumer[t].pc # "idle" => resumer[t].child \in Callees
    /\ \A t \in Tasks : resumer[t].pc = "store" => KeyOK(Parent(t), resumer[t].copy)

BaseInv ==
    /\ TypeInv /\ MidStepInv
    /\ spawned \in [Tasks -> Nat] /\ resumer \in [Tasks -> Resumer]
    /\ SpawnersAt /\ KeyInv

LEMMA BaseStarts == SpawnInit => BaseInv
<1> SUFFICES ASSUME SpawnInit PROVE BaseInv
  OBVIOUS
<1>1. TypeInv /\ Init
  BY InitType DEF SpawnInit
<1>2. IdleResumer \in Resumer
  BY RowConstants, ReadRunType DEF IdleResumer, Resumer
<1>3. MidStepInv /\ \A t \in Tasks : task[t].pc = "idle"
  BY <1>1 DEF Init, MidStepInv, Idle
<1>4. KeyInv
  BY <1>1, <1>3 DEF SpawnInit, Init, KeyInv, KeyOK, IdleResumer, Absent, Orphan
<1> QED BY <1>1, <1>2, <1>3, <1>4 DEF SpawnInit, BaseInv, SpawnersAt

LEMMA ReachedKey ==
    ASSUME TypeInv, KeyInv, NEW r \in Runs, NEW x, Reached(r, x)
    PROVE  KeyOK(r, x)
<1>1. CASE Fresh(r, x) \/ SameSpot(x, runs[r])
  BY <1>1 DEF Fresh, SameSpot, KeyInv, KeyOK
<1>2. ASSUME NEW t \in Tasks, FromTask(t, r, x) PROVE KeyOK(r, x)
  <2>1. KeyOK(r, task[t].copy) /\ task[t].run = r /\ task[t].copy.cursor \in Nat
    BY <1>2, InFlight DEF FromTask, KeyInv, At
  <2>2. CASE SameSpot(x, task[t].copy)
    BY <2>1, <2>2 DEF SameSpot, KeyOK
  <2>3. CASE Stepped(t, x)
    <3>1. task[t].copy.cursor # ParentKey(r)
      BY <2>1, <2>3, PlanAssumption DEF Stepped, AtEnd, ParentKey
    <3> QED BY <2>1, <2>3, <3>1 DEF Stepped, KeyOK
  <2> QED BY <1>2, <2>2, <2>3 DEF FromTask
<1> QED BY <1>1, <1>2 DEF Reached

LEMMA EngineKeys ==
    ASSUME BaseInv, [Next]_vars
    PROVE  /\ TypeInv' /\ MidStepInv'
           /\ \A r \in Runs : KeyOK(r, runs'[r])
           /\ \A t \in Tasks : task'[t].pc # "idle" => KeyOK(task'[t].run, task'[t].copy)
<1>1. TypeInv' /\ MidStepInv' /\ AllReached
  BY NextType, NextMidStep, EngineMoves DEF BaseInv
<1>2. \A t \in Tasks : task'[t].pc # "idle" => task'[t].run \in Runs
  BY <1>1 DEF TypeInv, SlotOK, At
<1> QED BY <1>1, <1>2, ReachedKey DEF AllReached, BaseInv

(* A step of the engine keeps the whole invariant, but for the resumers.   *)
LEMMA QuietBase ==
    ASSUME BaseInv, Quiet
    PROVE  /\ TypeInv' /\ MidStepInv' /\ spawned' \in [Tasks -> Nat] /\ SpawnersAt'
           /\ \A r \in Runs : KeyOK(r, runs'[r])
           /\ \A t \in Tasks : task'[t].pc # "idle" => KeyOK(task'[t].run, task'[t].copy)
<1>1. ASSUME NEW t \in Tasks, spawned'[t] > 0
      PROVE  task'[t] = task[t] /\ spawned'[t] = spawned[t] /\ spawned[t] > 0
  BY <1>1 DEF Quiet, BaseInv, SpawnersAt
<1>2. SpawnersAt'
  BY <1>1 DEF BaseInv, SpawnersAt, AtSpawn, At, CurrentStep
<1> QED BY <1>2, EngineKeys DEF Quiet

LEMMA QuietKeeps == ASSUME BaseInv, Quiet, resumer' = resumer PROVE BaseInv'
BY QuietBase DEF BaseInv, KeyInv, KeyOK, Parent

LEMMA FinishKeeps ==
    ASSUME BaseInv, Quiet, NEW t \in Tasks, FinishRun(t)
    PROVE  BaseInv'
<1> DEFINE c == task[t].run
<1>1. c \in Runs /\ KeyOK(c, task[t].copy)
  BY InFlight DEF FinishRun, Finish, At, BaseInv, KeyInv
<1>2. CASE resumer' = resumer
  BY <1>2, QuietKeeps
<1>3. CASE ParentKey(c) \in task[t].copy.context
           /\ resumer' = [resumer EXCEPT ![t].pc = "load", ![t].child = c]
  <2>1. c \in Callees
    BY <1>1, <1>3 DEF KeyOK
  <2>2. resumer' \in [Tasks -> Resumer]
    BY <1>1, <1>3 DEF BaseInv, Resumer
  <2>3. /\ resumer'[t].pc = "load" /\ resumer'[t].child = c
        /\ \A u \in Tasks : u # t => resumer'[u] = resumer[u]
    BY <1>3 DEF BaseInv, Resumer
  <2> QED BY <2>1, <2>2, <2>3, QuietBase DEF BaseInv, KeyInv, KeyOK, Parent
<1> QED BY <1>2, <1>3 DEF FinishRun

(* What the steps of this module have in common: the part of the invariant *)
(* that is about a slot and the step it executes.                          *)
LEMMA AtSpawnFacts ==
    ASSUME BaseInv, NEW t \in Tasks, AtSpawn(t)
    PROVE  /\ task[t].run \in Runs /\ ~ At(t, "idle") /\ KeyOK(task[t].run, task[t].copy)
           /\ task[t].copy \in Copy /\ task[t].copy.cursor \in Nat
           /\ CurrentStep(t) \in SpawningSteps /\ Spawns(CurrentStep(t)) \in Seq(Runs)
           /\ spawned[t] \in 0 .. Len(Spawns(CurrentStep(t)))
           /\ CurrentStep(t) \in Calls <=> Current(t) = "subworkflow"
<1>1. ~ At(t, "idle") /\ At(t, "execute")
  BY DEF AtSpawn, At
<1>2. ~ AtEnd(task[t].run, task[t].copy)
  BY <1>1 DEF BaseInv, MidStepInv, At
<1>3. Spawns(CurrentStep(t)) \in Seq(Runs) /\ CurrentStep(t) \in SpawningSteps
  BY CreatedRuns DEF AtSpawn
<1>4. Len(Spawns(CurrentStep(t))) \in Nat
  BY <1>3
<1>5. spawned[t] \in 0 .. Len(Spawns(CurrentStep(t)))
  BY <1>4 DEF BaseInv, SpawnersAt
<1> QED BY <1>1, <1>2, <1>3, <1>5, InFlight, CurrentMember DEF BaseInv, KeyInv, Calls, At

LEMMA InsertKeeps ==
    ASSUME BaseInv, NEW t \in Tasks, AtSpawn(t), ~ AllSpawned(t), Insert(t)
    PROVE  /\ NextChild(t) \in Runs
           /\ CurrentStep(t) \in Calls => NextChild(t) = Callee(CurrentStep(t))
           /\ runs'[NextChild(t)].status = "queued" /\ runs'[NextChild(t)].cursor = 0
           /\ runs'[NextChild(t)].attempt = 0
           /\ \A r \in Runs : r # NextChild(t) => runs'[r] = runs[r]
           /\ runs' \in [Runs -> Row]
           /\ \A r \in Runs : KeyOK(r, runs'[r])
<1> DEFINE s == CurrentStep(t)
           c == NextChild(t)
<1>1. /\ s \in SpawningSteps /\ Spawns(s) \in Seq(Runs) /\ spawned[t] \in Nat
      /\ spawned[t] < Len(Spawns(s))
  BY AtSpawnFacts DEF AllSpawned
<1>2. c \in Runs
  BY <1>1 DEF NextChild
<1>3. s \in Calls => c = Callee(s)
  BY <1>1, CalleeFacts DEF NextChild, Callee
<1>4. s \in Calls => c \in Callees
  BY <1>3, CalleeFacts
<1>5. ParentKey(c) \in Nat
  BY <1>2, PlanAssumption DEF ParentKey
<1>6. /\ NewChild(s, c) \in Row /\ NewChild(s, c).status = "queued"
      /\ NewChild(s, c).cursor = 0 /\ NewChild(s, c).attempt = 0 /\ KeyOK(c, NewChild(s, c))
  <2>1. /\ NewRun \in Row /\ NewRun.status = "queued" /\ NewRun.context = {}
        /\ NewRun.cursor = 0 /\ NewRun.attempt = 0
    BY RowConstants DEF NewRun, Absent
  <2> QED BY <1>4, <1>5, <2>1 DEF NewChild, Row, KeyOK, Calls
<1>7. runs' = [runs EXCEPT ![c] = NewChild(s, c)] /\ runs \in [Runs -> Row]
  BY DEF Insert, BaseInv, TypeInv, TypeOK
<1> QED BY <1>2, <1>3, <1>6, <1>7 DEF BaseInv, KeyInv

LEMMA SpawnersMove ==
    ASSUME BaseInv, NEW t \in Tasks, spawned' = [spawned EXCEPT ![t] = 0],
           \A u \in Tasks : u # t => task'[u] = task[u]
    PROVE  spawned' \in [Tasks -> Nat] /\ SpawnersAt'
<1>1. spawned' \in [Tasks -> Nat] /\ \A u \in Tasks : spawned'[u] > 0 => u # t
  BY DEF BaseInv
<1>2. SpawnersAt'
  BY <1>1 DEF BaseInv, SpawnersAt, AtSpawn, At, CurrentStep
<1> QED BY <1>1, <1>2

LEMMA SpawnKeeps ==
    ASSUME BaseInv, NEW t \in Tasks, SpawnChild(t)
    PROVE  BaseInv'
<1>1. AtSpawn(t) /\ ~ AllSpawned(t) /\ Insert(t)
  BY DEF SpawnChild
<1>2. runs' \in [Runs -> Row] /\ \A r \in Runs : KeyOK(r, runs'[r])
  BY <1>1, InsertKeeps
<1>3. spawned' \in [Tasks -> Nat] /\ SpawnersAt'
  <2>1. spawned[t] + 1 <= Len(Spawns(CurrentStep(t)))
    <3>1. Len(Spawns(CurrentStep(t))) \in Nat
      BY <1>1, AtSpawnFacts
    <3> QED BY <1>1, <3>1, AtSpawnFacts DEF AllSpawned
  <2>2. /\ spawned' \in [Tasks -> Nat] /\ spawned'[t] = spawned[t] + 1 /\ task' = task
        /\ \A u \in Tasks : u # t => spawned'[u] = spawned[u]
    BY DEF SpawnChild, BaseInv
  <2>3. \A u \in Tasks : spawned'[u] > 0 =>
            AtSpawn(u) /\ spawned'[u] <= Len(Spawns(CurrentStep(u)))
    BY <1>1, <2>1, <2>2 DEF BaseInv, SpawnersAt
  <2> QED BY <2>2, <2>3 DEF SpawnersAt, AtSpawn, At, CurrentStep
<1>4. TypeInv' /\ MidStepInv'
  BY <1>2 DEF SpawnChild, BaseInv, TypeInv, TypeOK, SlotOK, MidStepInv, At
<1> QED BY <1>2, <1>3, <1>4 DEF SpawnChild, BaseInv, KeyInv, KeyOK, Parent

(* The step ends: its slot goes on elsewhere or leaves.                    *)
LEMMA StepEnds ==
    ASSUME BaseInv, NEW t \in Tasks, AtSpawn(t),
           spawned' = [spawned EXCEPT ![t] = 0], resumer' = resumer,
           runs' \in [Runs -> Row], \A r \in Runs : KeyOK(r, runs'[r]),
           run_steps' \in [Runs -> SUBSET Nat], approvals' = approvals,
           Leave(t) \/ Goto(t, "fail") \/ Goto(t, "advance")
    PROVE  BaseInv'
<1>1. TypeInv /\ TypeOK /\ task[t].run \in Runs /\ ~ At(t, "idle") /\ task[t] \in Task
  BY AtSpawnFacts DEF BaseInv, TypeInv, TypeOK
<1>2. task' \in [Tasks -> Task] /\ SlotOK'
  BY <1>1, LeaveType, GotoType DEF PC
<1>3. TypeInv'
  BY <1>1, <1>2 DEF TypeInv, TypeOK
<1>4. /\ \A u \in Tasks : u # t => task'[u] = task[u]
      /\ task'[t].pc # "idle" => task'[t].run = task[t].run /\ task'[t].copy = task[t].copy
  BY <1>1 DEF Leave, Goto, TypeOK, Task, Idle
<1>5. MidStepInv'
  <2>1. ~ AtEnd(task[t].run, task[t].copy)
    BY DEF BaseInv, MidStepInv, AtSpawn, At
  <2> QED BY <1>4, <2>1 DEF BaseInv, MidStepInv
<1>6. \A u \in Tasks : task'[u].pc # "idle" => KeyOK(task'[u].run, task'[u].copy)
  BY <1>4, AtSpawnFacts DEF BaseInv, KeyInv
<1> QED BY <1>3, <1>4, <1>5, <1>6, SpawnersMove DEF BaseInv, KeyInv, KeyOK, Parent

LEMMA EndKeeps ==
    ASSUME BaseInv, NEW t \in Tasks,
           SpawnAnswerLost(t) \/ SpawnFails(t) \/ ForeachDone(t) \/ AwaitChild(t)
    PROVE  BaseInv'
<1>0. /\ AtSpawn(t) /\ approvals' = approvals /\ resumer' = resumer
      /\ spawned' = [spawned EXCEPT ![t] = 0]
  BY DEF SpawnAnswerLost, SpawnFails, ForeachDone, AwaitChild
<1>1. TypeOK /\ task[t].run \in Runs /\ task[t].copy \in Copy
  BY <1>0, AtSpawnFacts DEF BaseInv, TypeInv
<1>2. CASE SpawnAnswerLost(t)
  BY <1>0, <1>1, <1>2, InsertKeeps, StepEnds DEF SpawnAnswerLost, TypeOK
<1>3. CASE SpawnFails(t)
  BY <1>0, <1>1, <1>3, StepEnds DEF SpawnFails, TypeOK, BaseInv, KeyInv
<1>4. CASE ForeachDone(t)
  BY <1>0, <1>1, <1>4, LogType, StepEnds DEF ForeachDone, TypeOK, BaseInv, KeyInv
<1>5. CASE AwaitChild(t)
  <2>1. runs' \in [Runs -> Row]
    BY <1>1, <1>5, SaveType DEF AwaitChild, Status, Waiting
  <2>2. \A r \in Runs : KeyOK(r, runs'[r])
    <3>1. /\ SameSpot(runs'[task[t].run], task[t].copy)
          /\ \A r \in Runs : r # task[t].run => SameSpot(runs'[r], runs[r])
      BY <1>1, <1>5, SaveSpot DEF AwaitChild
    <3> QED BY <1>0, <3>1, AtSpawnFacts DEF SameSpot, KeyOK, BaseInv, KeyInv
  <2> QED BY <1>0, <1>1, <1>5, <2>1, <2>2, StepEnds DEF AwaitChild, TypeOK
<1> QED BY <1>2, <1>3, <1>4, <1>5

-----------------------------------------------------------------------------
(* The resumers.                                                           *)

LEMMA ParentFacts ==
    ASSUME BaseInv, NEW t \in Tasks, resumer[t].pc # "idle"
    PROVE  /\ resumer[t].child \in Callees /\ Caller(resumer[t].child) \in Calls
           /\ Parent(t) \in Runs
           /\ Caller(resumer[t].child)[2] \in Nat
           /\ Caller(resumer[t].child)[2] < ParentKey(Parent(t))
           /\ resumer[t].copy \in Copy
<1>1. resumer[t].child \in Callees /\ Caller(resumer[t].child) \in Calls
  BY CalleeFacts DEF BaseInv, KeyInv
<1>2. resumer[t].copy \in Copy
  BY DEF BaseInv, Resumer
<1> QED BY <1>1, <1>2, StepPair DEF Calls, Parent, ParentKey

LEMMA ResumeEffect ==
    ASSUME BaseInv, NEW t \in Tasks, ResumeParent(t)
    PROVE  LET p == Parent(t)
               c == resumer[t].copy IN
           /\ runs' \in [Runs -> Row]
           /\ \A r \in Runs : r # p => runs'[r] = runs[r]
           /\ runs'[p].status = "queued" /\ runs'[p].cursor = c.cursor + 1
           /\ runs'[p].attempt = c.attempt
           /\ runs'[p].context = c.context \cup {Caller(resumer[t].child)[2]}
<1> DEFINE p == Parent(t)
           c == resumer[t].copy
           d == [c EXCEPT !.context = @ \cup {Caller(resumer[t].child)[2]},
                          !.cursor = @ + 1]
<1>1. p \in Runs /\ c \in Copy /\ Caller(resumer[t].child)[2] \in Nat
  BY ParentFacts DEF ResumeParent
<1>2. /\ d \in Copy /\ d.cursor = c.cursor + 1 /\ d.attempt = c.attempt
      /\ d.context = c.context \cup {Caller(resumer[t].child)[2]}
  <2> DEFINE i == Caller(resumer[t].child)[2]
  <2> HIDE DEF i
  <2>1. c.cursor + 1 \in Nat /\ c.context \cup {i} \in SUBSET Nat
    BY <1>1 DEF Copy, i
  <2>2. d = [c EXCEPT !.context = c.context \cup {i}, !.cursor = c.cursor + 1]
    BY DEF i
  <2>3. /\ d \in Copy /\ d.cursor = c.cursor + 1 /\ d.attempt = c.attempt
        /\ d.context = c.context \cup {i}
    BY <1>1, <2>1, <2>2 DEF Copy
  <2> QED BY <2>3 DEF i
<1>3. runs' = [runs EXCEPT ![p] = SaveProgress(@, d, "queued", TRUE)] /\ runs \in [Runs -> Row]
  BY DEF ResumeParent, BaseInv, TypeInv, TypeOK
<1>4. SaveProgress(runs[p], d, "queued", TRUE) \in Row
  BY <1>1, <1>2, <1>3, SaveProgressType DEF Status, Claimable
<1>5. /\ runs' \in [Runs -> Row]
      /\ \A r \in Runs : r # p => runs'[r] = runs[r]
      /\ runs'[p] = SaveProgress(runs[p], d, "queued", TRUE)
  BY <1>1, <1>3, <1>4
<1>6. /\ runs'[p].status = "queued" /\ runs'[p].cursor = d.cursor
      /\ runs'[p].context = d.context /\ runs'[p].attempt = d.attempt
  BY <1>1, <1>3, <1>5 DEF SaveProgress, Row
<1> QED BY <1>2, <1>5, <1>6

LEMMA ResumerKeeps ==
    ASSUME BaseInv, NEW t \in Tasks,
           LoadParent(t) \/ ResumeParent(t) \/ LogResume(t) \/ ResumerDropped(t)
    PROVE  BaseInv'
<1>0. /\ resumer[t].pc # "idle" /\ UNCHANGED <<task, spawned, approvals>>
      /\ resumer \in [Tasks -> Resumer] /\ TypeOK /\ resumer[t] \in Resumer
  BY DEF LoadParent, ResumeParent, LogResume, ResumerDropped, vars, BaseInv, TypeInv, TypeOK
<1>1. ASSUME runs' \in [Runs -> Row], \A r \in Runs : KeyOK(r, runs'[r]),
             run_steps' \in [Runs -> SUBSET Nat],
             resumer' \in [Tasks -> Resumer],
             \A u \in Tasks : u # t => resumer'[u] = resumer[u],
             resumer'[t].pc # "idle" => resumer'[t].child = resumer[t].child,
             resumer'[t].pc = "store" => KeyOK(Parent(t), resumer'[t].copy)
      PROVE  BaseInv'
  <2>1. TypeInv' /\ MidStepInv' /\ SpawnersAt' /\ spawned' \in [Tasks -> Nat]
    BY <1>0, <1>1 DEF BaseInv, TypeInv, TypeOK, SlotOK, At, MidStepInv, SpawnersAt, AtSpawn,
                      CurrentStep
  <2>2. KeyInv'
    <3>1. ASSUME NEW u \in Tasks, resumer'[u].pc # "idle" PROVE resumer'[u].child \in Callees
      BY <1>0, <1>1, <3>1 DEF BaseInv, KeyInv
    <3>2. ASSUME NEW u \in Tasks, resumer'[u].pc = "store"
          PROVE  KeyOK(Caller(resumer'[u].child)[1], resumer'[u].copy)
      BY <1>0, <1>1, <3>2 DEF BaseInv, KeyInv, Parent
    <3> QED BY <1>0, <1>1, <3>1, <3>2 DEF BaseInv, KeyInv, Parent, KeyOK
  <2> QED BY <1>1, <2>1, <2>2 DEF BaseInv
<1>2. CASE LoadParent(t)
  <2> DEFINE row == runs[Parent(t)]
  <2>1. Parent(t) \in Runs /\ row \in Row
    BY <1>0, ParentFacts DEF TypeOK
  <2>2. ReadRun(row) \in Copy /\ ReadRun(row).context = row.context
    BY <2>1, ReadRunType DEF ReadRun
  <2>3. KeyOK(Parent(t), ReadRun(row))
    BY <2>1, <2>2 DEF KeyOK, BaseInv, KeyInv
  <2>4. CASE resumer' = [resumer EXCEPT ![t] = IdleResumer]
    <3>1. IdleResumer \in Resumer /\ IdleResumer.pc = "idle"
      BY RowConstants, ReadRunType DEF IdleResumer, Resumer
    <3> QED BY <1>0, <1>1, <1>2, <2>4, <3>1 DEF LoadParent, vars, TypeOK, BaseInv, KeyInv
  <2>5. CASE resumer' = [resumer EXCEPT ![t].pc = "store", ![t].copy = ReadRun(row)]
    <3>1. /\ resumer' \in [Tasks -> Resumer]
          /\ \A u \in Tasks : u # t => resumer'[u] = resumer[u]
          /\ resumer'[t].child = resumer[t].child /\ resumer'[t].copy = ReadRun(row)
      BY <1>0, <2>2, <2>5 DEF Resumer
    <3> QED BY <1>0, <1>1, <1>2, <2>3, <3>1 DEF LoadParent, vars, TypeOK, BaseInv, KeyInv
  <2> QED BY <1>2, <2>4, <2>5 DEF LoadParent
<1>3. CASE ResumeParent(t)
  <2>1. /\ resumer' \in [Tasks -> Resumer]
        /\ \A u \in Tasks : u # t => resumer'[u] = resumer[u]
        /\ resumer'[t].child = resumer[t].child /\ resumer'[t].pc = "log"
    BY <1>0, <1>3 DEF ResumeParent, Resumer
  <2>2. KeyOK(Parent(t), runs'[Parent(t)])
    <3>1. KeyOK(Parent(t), resumer[t].copy)
      BY <1>3 DEF ResumeParent, BaseInv, KeyInv
    <3>2. Caller(resumer[t].child)[2] # ParentKey(Parent(t))
      BY <1>0, ParentFacts, PlanAssumption DEF ParentKey
    <3> QED BY <1>3, <3>1, <3>2, ResumeEffect DEF KeyOK
  <2> QED BY <1>0, <1>1, <1>3, <2>1, <2>2, ResumeEffect DEF ResumeParent, TypeOK, BaseInv, KeyInv
<1>4. CASE LogResume(t) \/ ResumerDropped(t)
  <2>1. IdleResumer \in Resumer /\ IdleResumer.pc = "idle"
    BY RowConstants, ReadRunType DEF IdleResumer, Resumer
  <2>2. runs' = runs /\ run_steps' \in [Runs -> SUBSET Nat]
    <3>1. Parent(t) \in Runs /\ resumer[t].copy.cursor \in Nat
      BY <1>0, ParentFacts DEF Copy
    <3> QED BY <1>0, <1>4, <3>1 DEF LogResume, ResumerDropped, vars, TypeOK
  <2>3. resumer' = [resumer EXCEPT ![t] = IdleResumer]
    BY <1>4 DEF LogResume, ResumerDropped
  <2>4. /\ resumer' \in [Tasks -> Resumer] /\ resumer'[t].pc = "idle"
        /\ \A u \in Tasks : u # t => resumer'[u] = resumer[u]
    BY <1>0, <2>1, <2>3
  <2> QED BY <1>0, <1>1, <2>2, <2>4 DEF TypeOK, BaseInv, KeyInv
<1> QED BY <1>2, <1>3, <1>4

LEMMA BaseStays == BaseInv /\ [SpawnNext]_spawnVars => BaseInv'
BY QuietSteps, QuietKeeps, FinishKeeps, SpawnKeeps, EndKeeps, ResumerKeeps DEF BaseInv

LEMMA BaseInvariant == SpawnSpec => []BaseInv
BY BaseStarts, BaseStays, PTL DEF SpawnSpec

LEMMA SpawningUnstarved == UnstarvedSpawnSpec => SpawnSpec /\ []Unstarved
<1>1. SpawnInit => Unstarved
  BY DEF SpawnInit, Init, Unstarved, Starved, At, Idle
<1>2. Unstarved /\ [SpawnNext /\ Unstarved']_spawnVars => Unstarved'
  BY DEF spawnVars, Unstarved, Starved, ThreadFree, Blocked, At, Current
<1>3. [SpawnNext /\ Unstarved']_spawnVars => [SpawnNext]_spawnVars
  OBVIOUS
<1> QED BY <1>1, <1>2, <1>3, PTL DEF UnstarvedSpawnSpec, SpawnSpec

(* Every row, log and slot keeps its shape: in particular every resumer    *)
(* names a run that exists in the plan and a caller of it, and no step     *)
(* counts more created runs than it has items.                             *)
THEOREM SpawnTypes == SpawnSpec => []SpawnTypeOK
<1>1. BaseInv => SpawnTypeOK
  BY DEF BaseInv, TypeInv, SpawnTypeOK
<1> QED BY <1>1, BaseInvariant, PTL

-----------------------------------------------------------------------------
(* Getting past a spawning step, for the plain callers and their callees.  *)
(* A callee of theirs has one execution at a time, hence finishes once,    *)
(* hence resumes its parent once.                                          *)

PlainCalls   == {s \in Calls : s[1] \in PlainCallers}
PlainCallees == {Callee(s) : s \in PlainCalls}

LEMMA PlainFacts ==
    /\ PlainCallees \subseteq Callees /\ PlainCallees \subseteq Runs
    /\ BoundedIn(PlainCallees)
    /\ \A s \in Calls : Callee(s) \in PlainCallees <=> s \in PlainCalls
    /\ \A c \in PlainCallees : Caller(c) \in PlainCalls /\ Callee(Caller(c)) = c
    /\ \A s \in SpawningSteps : s[1] \notin PlainCallees
<1>1. PlainCallees \subseteq Callees /\ PlainCallees \subseteq Runs
  BY CalleeFacts DEF PlainCallees, PlainCalls
<1>2. ASSUME NEW c \in PlainCallees
      PROVE  \A i \in DOMAIN Plan[c] : Plan[c][i] \notin SlowKinds \cup {"subworkflow"}
  BY DEF PlainCallees, PlainCalls, PlainCallers, Calls, Callee
<1>3. BoundedIn(PlainCallees)
  BY <1>2 DEF BoundedIn
<1>4. \A c \in PlainCallees : Caller(c) \in PlainCalls /\ Callee(Caller(c)) = c
  BY CalleeFacts DEF PlainCallees, PlainCalls
<1>5. \A s \in Calls : Callee(s) \in PlainCallees <=> s \in PlainCalls
  BY <1>4, CalleeFacts DEF PlainCallees
<1>6. ASSUME NEW s \in SpawningSteps, s[1] \in PlainCallees PROVE FALSE
  <2>1. s[2] + 1 \in DOMAIN Plan[s[1]] /\ Plan[s[1]][s[2] + 1] \in {"subworkflow", "foreach"}
    <3>1. CASE s \in Steps("subworkflow")
      BY <3>1, StepPair, PlanAssumption
    <3>2. CASE s \in Steps("foreach")
      BY <3>2, StepPair, PlanAssumption
    <3> QED BY <3>1, <3>2 DEF SpawningSteps
  <2> QED BY <1>2, <1>6, <2>1 DEF SlowKinds
<1> QED BY <1>1, <1>3, <1>4, <1>5, <1>6

(* Rows that exist and that succeeded; the steps rows wait in; the steps   *)
(* slots create runs for; the runs whose parents slots have yet to resume. *)
Existing  == {r \in Runs : runs[r].status # "absent"}
Succeeded == {r \in Runs : runs[r].status = "succeeded"}
Awaited   == {<<r, runs[r].cursor>> :
                 r \in {q \in Runs : runs[q].status = "waiting_subworkflow"}}
InSpawn   == {CurrentStep(t) : t \in {u \in Tasks : spawned[u] > 0}}
InResume  == {resumer[t].child : t \in {u \in Tasks : resumer[u].pc \in {"load", "store"}}}

(* A call that nothing will ever look at again, and a step to be passed.   *)
Over == {s \in PlainCalls : /\ Callee(s) \in Succeeded /\ Callee(s) \notin InResume
                       /\ s \notin InSpawn /\ s \notin Awaited}

Done == {s \in SpawningSteps : /\ s[1] \in PlainCallers
                               /\ \A k \in DOMAIN Spawns(s) : Spawns(s)[k] \in Existing
                               /\ s \in Calls => s \in Over}

SpawnersOK ==
    /\ \A t \in Tasks : \A k \in 1 .. spawned[t] : Spawns(CurrentStep(t))[k] \in Existing
    /\ \A t, u \in Tasks :
          /\ spawned[t] > 0 /\ spawned[u] > 0
          /\ CurrentStep(t) = CurrentStep(u) /\ CurrentStep(t) \in Calls
          => t = u

(* A resumer found its parent in the very step that called the child.      *)
ResumersOK ==
    \A t \in Tasks : resumer[t].pc # "idle" /\ resumer[t].child \in PlainCallees =>
        /\ resumer[t].child \in Succeeded
        /\ \A u \in Tasks :
              resumer[u].pc # "idle" /\ resumer[u].child = resumer[t].child => u = t
        /\ resumer[t].pc \in {"store", "log"} =>
              resumer[t].copy.cursor = Caller(resumer[t].child)[2]
        /\ resumer[t].pc = "store" => Caller(resumer[t].child) \notin InSpawn

AdvanceOK ==
    \A t \in Tasks : At(t, "advance") /\ CurrentStep(t) \in SpawningSteps =>
        CurrentStep(t) \notin Calls /\ (task[t].run \in PlainCallers => CurrentStep(t) \in Done)

PastOK(r, c, D) ==
    r \in PlainCallers =>
        /\ \A s \in SpawningSteps : s[1] = r /\ s[2] < c.cursor => s \in D
        /\ \A i \in Producing(r) : i < c.cursor => i \in c.context

PastInv ==
    /\ \A r \in Runs : PastOK(r, runs[r], Done)
    /\ \A t \in Tasks : task[t].pc # "idle" => PastOK(task[t].run, task[t].copy, Done)
    /\ \A t \in Tasks : resumer[t].pc = "store" => PastOK(Parent(t), resumer[t].copy, Done)

(* A run calls in the order of its plan, each time after the call before.  *)
OrderInv ==
    \A s, u \in PlainCalls : u[1] = s[1] /\ u[2] < s[2] /\ Callee(s) \in Existing => u \in Over

WaitInv == Awaited \subseteq {s \in Calls : Callee(s) \in Existing /\ s \notin InSpawn}

PassInv ==
    /\ ExclusiveIn(PlainCallees) /\ SpawnersOK /\ ResumersOK /\ AdvanceOK
    /\ PastInv /\ OrderInv /\ WaitInv

LEMMA CalleeHeld ==
    ASSUME ExclusiveIn(PlainCallees), NEW t \in Tasks, ~ At(t, "idle"),
           task[t].run \in PlainCallees
    PROVE  runs[task[t].run].status = "running"
BY DEF ExclusiveIn, Held

(* How one step may change these sets.                                     *)
StepFacts ==
    /\ Existing \subseteq Existing'
    /\ Succeeded \cap PlainCallees \subseteq Succeeded'
    /\ \A s \in PlainCalls : Callee(s) \in Existing' /\ Callee(s) \notin Existing =>
          \E t \in Tasks : AtSpawn(t) /\ CurrentStep(t) = s
    /\ \A s \in Calls : s \in InSpawn' => s \in InSpawn \/ Callee(s) \notin Existing
    /\ InResume' \cap Succeeded \cap PlainCallees \subseteq InResume
    /\ \A s \in Awaited' : s \in Awaited \/ (s \in Calls /\ s \in InSpawn /\ s \notin InSpawn')

LEMMA QuietFacts ==
    ASSUME BaseInv, PassInv, Quiet, resumer' = resumer \/ \E t \in Tasks : FinishRun(t)
    PROVE  StepFacts
<1>1. \A r \in Runs : RowMoves(r)
  BY DEF Quiet
<1>2. Existing \subseteq Existing' /\ Awaited' \subseteq Awaited
  BY <1>1 DEF RowMoves, Existing, Awaited
<1>3. ASSUME NEW c \in PlainCallees
      PROVE  /\ c \in Succeeded => c \in Succeeded'
             /\ c \in Existing' => c \in Existing
  <2>1. c \in Runs /\ c \in Created /\ RowMoves(c)
    BY <1>1, PlainFacts, CreatedRuns
  <2>2. ASSUME NEW t \in Tasks, ~ At(t, "idle"), task[t].run = c PROVE runs[c].status = "running"
    BY <2>2, CalleeHeld DEF PassInv
  <2> QED BY <2>1, <2>2 DEF RowMoves, Succeeded, Existing
<1>4. InSpawn' \subseteq InSpawn
  <2>1. ASSUME NEW t \in Tasks, spawned'[t] > 0 PROVE spawned[t] > 0 /\ task'[t] = task[t]
    BY <2>1 DEF Quiet, BaseInv, SpawnersAt
  <2> QED BY <2>1 DEF InSpawn, CurrentStep
<1>5. InResume' \cap Succeeded \cap PlainCallees \subseteq InResume
  <2>1. CASE resumer' = resumer
    BY <2>1 DEF InResume
  <2>2. ASSUME NEW t \in Tasks, FinishRun(t), resumer' # resumer
        PROVE  InResume' \cap Succeeded \cap PlainCallees \subseteq InResume
    <3>1. /\ ParentKey(task[t].run) \in task[t].copy.context /\ ~ At(t, "idle")
          /\ resumer' = [resumer EXCEPT ![t].pc = "load", ![t].child = task[t].run]
      BY <2>2 DEF FinishRun, Finish, At
    <3>2. task[t].run \in PlainCallees => task[t].run \notin Succeeded
      BY <3>1, CalleeHeld DEF PassInv, Succeeded
    <3>3. /\ resumer'[t].child = task[t].run
          /\ \A u \in Tasks : u # t => resumer'[u] = resumer[u]
      BY <3>1 DEF BaseInv, Resumer
    <3> QED BY <3>2, <3>3 DEF InResume
  <2> QED BY <2>1, <2>2
<1>6. \A s \in PlainCalls : s \in Calls /\ Callee(s) \in PlainCallees
  BY PlainFacts DEF PlainCalls
<1> QED BY <1>2, <1>3, <1>4, <1>5, <1>6 DEF StepFacts

LEMMA OneCaller ==
    ASSUME NEW s \in Calls, NEW u \in SpawningSteps, NEW k \in DOMAIN Spawns(u),
           Spawns(u)[k] = Callee(s)
    PROVE  u = s
BY ChildrenAssumption, CalleeFacts DEF Callee, Calls, SpawningSteps

LEMMA InsertFacts ==
    ASSUME BaseInv, PassInv, NEW t \in Tasks, SpawnChild(t) \/ SpawnAnswerLost(t)
    PROVE  StepFacts
<1> DEFINE c == NextChild(t)
<1>1. /\ AtSpawn(t) /\ ~ AllSpawned(t) /\ Insert(t) /\ runs[c].status = "absent"
      /\ resumer' = resumer
  BY DEF SpawnChild, SpawnAnswerLost
<1>2. /\ c \in Runs /\ runs'[c].status = "queued"
      /\ \A r \in Runs : r # c => runs'[r] = runs[r]
      /\ CurrentStep(t) \in Calls => c = Callee(CurrentStep(t))
  BY <1>1, InsertKeeps
<1>3. /\ Existing \subseteq Existing' /\ Succeeded \subseteq Succeeded'
      /\ Awaited' \subseteq Awaited /\ InResume' = InResume
      /\ \A r \in Existing' : r \in Existing \/ r = c
  BY <1>1, <1>2 DEF Existing, Succeeded, Awaited, InResume
<1>4. ASSUME NEW s \in Calls, Callee(s) = c PROVE CurrentStep(t) = s
  <2>1. spawned[t] + 1 \in DOMAIN Spawns(CurrentStep(t)) /\ CurrentStep(t) \in SpawningSteps
    BY <1>1, AtSpawnFacts DEF AllSpawned
  <2> QED BY <1>4, <2>1, OneCaller DEF NextChild
<1>5. ASSUME NEW s \in Calls, s \in InSpawn' PROVE s \in InSpawn \/ Callee(s) \notin Existing
  <2>1. PICK u \in Tasks : spawned'[u] > 0 /\ CurrentStep(u)' = s
    BY <1>5 DEF InSpawn
  <2>2. CASE u = t
    <3>1. task' = task
      BY <2>1, <2>2 DEF SpawnChild, SpawnAnswerLost, BaseInv
    <3>2. CurrentStep(t) = s
      BY <2>1, <2>2, <3>1 DEF CurrentStep
    <3> QED BY <1>1, <1>2, <3>2 DEF Existing
  <2>3. CASE u # t
    <3>1. spawned'[u] = spawned[u] /\ task'[u] = task[u]
      BY <2>3 DEF SpawnChild, SpawnAnswerLost, Goto, BaseInv, TypeInv, TypeOK
    <3> QED BY <2>1, <3>1 DEF InSpawn, CurrentStep
  <2> QED BY <2>2, <2>3
<1> QED BY <1>1, <1>3, <1>4, <1>5 DEF StepFacts, PlainCalls

(* Ending a step: at most its own row changes, and its count is reset.     *)
LEMMA EndFacts ==
    ASSUME BaseInv, PassInv, NEW t \in Tasks,
           SpawnFails(t) \/ ForeachDone(t) \/ AwaitChild(t)
    PROVE  StepFacts
<1>1. AtSpawn(t) /\ resumer' = resumer /\ spawned' = [spawned EXCEPT ![t] = 0]
  BY DEF SpawnFails, ForeachDone, AwaitChild
<1>2. TypeOK /\ task[t].run \in Runs /\ CurrentStep(t)[1] = task[t].run
      /\ task[t].run \notin PlainCallees
  BY <1>1, AtSpawnFacts, PlainFacts DEF BaseInv, TypeInv, CurrentStep
<1>3. /\ InResume' = InResume /\ InSpawn' \subseteq InSpawn
      /\ \A u \in Tasks : spawned'[u] > 0 => u # t /\ spawned[u] > 0 /\ task'[u] = task[u]
  <2>1. \A u \in Tasks : u # t => task'[u] = task[u]
    BY <1>2, LeaveEffect DEF SpawnFails, ForeachDone, AwaitChild, Goto, TypeOK
  <2>2. \A u \in Tasks : spawned'[u] > 0 => u # t /\ spawned[u] > 0
    BY <1>1 DEF BaseInv
  <2> QED BY <1>1, <2>1, <2>2 DEF InResume, InSpawn, CurrentStep
<1>4. CASE runs' = runs
  BY <1>3, <1>4 DEF StepFacts, Existing, Succeeded, Awaited
<1>5. CASE AwaitChild(t)
  <2>1. /\ \A r \in Runs : r # task[t].run => runs'[r] = runs[r]
        /\ runs'[task[t].run].status = "waiting_subworkflow"
        /\ runs'[task[t].run].cursor = task[t].copy.cursor
    <3>1. Save(t, task[t].copy, "waiting_subworkflow", TRUE)
      BY <1>5 DEF AwaitChild
    <3>2. SameSpot(runs'[task[t].run], task[t].copy)
      BY <1>2, <3>1, SaveSpot
    <3> QED BY <1>2, <3>1, <3>2, SaveEffect DEF SameSpot
  <2>2. /\ Existing \subseteq Existing'
        /\ \A c \in PlainCallees : /\ c \in Succeeded => c \in Succeeded'
                                   /\ c \in Existing' => c \in Existing
    BY <1>2, <2>1, PlainFacts DEF Existing, Succeeded
  <2>3. \A s \in Awaited' : s \in Awaited \/ s = CurrentStep(t)
    BY <2>1 DEF Awaited, CurrentStep
  <2>4. CurrentStep(t) \in Calls /\ spawned[t] > 0
    <3>1. CurrentStep(t) \in Calls /\ spawned[t] = Len(Spawns(CurrentStep(t)))
      BY <1>1, <1>5, AtSpawnFacts DEF AwaitChild, AllSpawned
    <3>2. Len(Spawns(CurrentStep(t))) = 1
      BY <3>1, CalleeFacts
    <3> QED BY <3>1, <3>2
  <2>5. CurrentStep(t) \notin InSpawn'
    BY <1>3, <2>4 DEF PassInv, SpawnersOK, InSpawn, CurrentStep
  <2>6. CurrentStep(t) \in InSpawn
    BY <2>4 DEF InSpawn
  <2>7. \A s \in PlainCalls : Callee(s) \in PlainCallees
    BY PlainFacts DEF PlainCalls
  <2> QED BY <1>3, <2>2, <2>3, <2>4, <2>5, <2>6, <2>7 DEF StepFacts
<1> QED BY <1>4, <1>5 DEF SpawnFails, ForeachDone

LEMMA ResumeFacts ==
    ASSUME BaseInv, PassInv, NEW t \in Tasks,
           LoadParent(t) \/ ResumeParent(t) \/ LogResume(t) \/ ResumerDropped(t)
    PROVE  StepFacts
<1>1. spawned' = spawned /\ task' = task /\ resumer[t].pc # "idle"
  BY DEF LoadParent, ResumeParent, LogResume, ResumerDropped, vars
<1>2. InSpawn' = InSpawn
  BY <1>1 DEF InSpawn, CurrentStep
<1>3. InResume' \subseteq InResume
  <2>1. /\ \A u \in Tasks : u # t => resumer'[u] = resumer[u]
        /\ \/ resumer'[t].pc \in {"idle", "log"}
           \/ resumer[t].pc = "load" /\ resumer'[t].child = resumer[t].child
    <3>1. resumer \in [Tasks -> Resumer] /\ resumer[t] \in Resumer
      BY DEF BaseInv
    <3>2. CASE resumer' = [resumer EXCEPT ![t] = IdleResumer]
      BY <3>1, <3>2 DEF IdleResumer
    <3>3. CASE LoadParent(t)
      BY <3>1, <3>2, <3>3 DEF LoadParent, Resumer
    <3>4. CASE ResumeParent(t)
      BY <3>1, <3>4 DEF ResumeParent, Resumer
    <3> QED BY <3>2, <3>3, <3>4 DEF LogResume, ResumerDropped
  <2> QED BY <2>1 DEF InResume
<1>4. CASE runs' = runs
  BY <1>2, <1>3, <1>4 DEF StepFacts, Existing, Succeeded, Awaited
<1>5. CASE ResumeParent(t)
  <2>1. Parent(t) \in Runs /\ Parent(t) \notin PlainCallees
    BY <1>1, ParentFacts, PlainFacts DEF Parent, Calls, SpawningSteps
  <2>2. runs'[Parent(t)].status = "queued" /\ \A r \in Runs : r # Parent(t) => runs'[r] = runs[r]
    BY <1>5, ResumeEffect
  <2>3. /\ Existing \subseteq Existing' /\ Awaited' \subseteq Awaited
        /\ \A c \in PlainCallees : /\ c \in Succeeded => c \in Succeeded'
                                   /\ c \in Existing' => c \in Existing
    BY <2>1, <2>2, PlainFacts DEF Existing, Succeeded, Awaited
  <2>4. \A s \in PlainCalls : Callee(s) \in PlainCallees
    BY PlainFacts DEF PlainCalls
  <2> QED BY <1>2, <1>3, <2>3, <2>4 DEF StepFacts
<1> QED BY <1>4, <1>5 DEF LoadParent, LogResume, ResumerDropped, vars

LEMMA AnyStepFacts ==
    ASSUME BaseInv, PassInv, [SpawnNext]_spawnVars
    PROVE  StepFacts
BY QuietSteps, QuietFacts, InsertFacts, EndFacts, ResumeFacts DEF BaseInv

LEMMA DoneGrows ==
    ASSUME StepFacts
    PROVE  Over \subseteq Over' /\ Done \subseteq Done'
<1>1. ASSUME NEW s \in Over PROVE s \in Over'
  <2>1. /\ s \in PlainCalls /\ s \in Calls /\ Callee(s) \in PlainCallees
        /\ Callee(s) \in Succeeded /\ Callee(s) \in Existing
    BY PlainFacts DEF Over, Succeeded, Existing, PlainCalls
  <2> QED BY <2>1 DEF StepFacts, Over
<1>2. Done \subseteq Done'
  BY <1>1 DEF Done, StepFacts
<1> QED BY <1>1, <1>2

-----------------------------------------------------------------------------
(* Each part of the invariant is kept.                                     *)

SpawnPart(t) ==
    \/ SpawnChild(t) \/ SpawnAnswerLost(t)
    \/ SpawnFails(t) \/ ForeachDone(t) \/ AwaitChild(t)

ResumePart(t) == LoadParent(t) \/ ResumeParent(t) \/ LogResume(t) \/ ResumerDropped(t)

LEMMA SpawningPair ==
    ASSUME NEW s \in SpawningSteps
    PROVE  s = <<s[1], s[2]>> /\ s[1] \in Runs /\ s[2] \in Nat
<1>1. CASE s \in Steps("subworkflow")
  BY <1>1, StepPair
<1>2. CASE s \in Steps("foreach")
  BY <1>2, StepPair
<1> QED BY <1>1, <1>2 DEF SpawningSteps

LEMMA CallPair ==
    ASSUME NEW s \in Calls
    PROVE  s \in SpawningSteps /\ s = <<s[1], s[2]>> /\ s[1] \in Runs /\ s[2] \in Nat
BY SpawningPair DEF Calls, SpawningSteps

(* What the steps of this module leave of the slots.                       *)
LEMMA SpawnFrame ==
    ASSUME BaseInv, NEW t \in Tasks, SpawnPart(t)
    PROVE  /\ AtSpawn(t) /\ resumer' = resumer
           /\ \A u \in Tasks : u # t => task'[u] = task[u] /\ spawned'[u] = spawned[u]
           /\ task'[t].pc # "idle" => task'[t].run = task[t].run /\ task'[t].copy = task[t].copy
           /\ SpawnChild(t) \/ spawned'[t] = 0
           /\ task'[t] = task[t] \/ task'[t] = Idle \/ task'[t].pc = "fail"
                 \/ (ForeachDone(t) /\ task'[t].pc = "advance")
<1>1. TypeOK /\ task[t] \in Task /\ task \in [Tasks -> Task] /\ spawned \in [Tasks -> Nat]
  BY DEF BaseInv, TypeInv, TypeOK
<1>2. AtSpawn(t) /\ resumer' = resumer
  BY DEF SpawnPart, SpawnChild, SpawnAnswerLost, SpawnFails, ForeachDone, AwaitChild
<1>3. CASE SpawnChild(t)
  BY <1>1, <1>2, <1>3 DEF SpawnChild
<1>4. CASE SpawnAnswerLost(t) \/ SpawnFails(t)
  BY <1>1, <1>2, <1>4 DEF SpawnAnswerLost, SpawnFails, Goto, Task
<1>5. CASE ForeachDone(t)
  BY <1>1, <1>2, <1>5 DEF ForeachDone, Goto, Task
<1>6. CASE AwaitChild(t)
  <2>1. task'[t] = Idle /\ \A u \in Tasks : u # t => task'[u] = task[u]
    BY <1>1, <1>6, LeaveEffect DEF AwaitChild
  <2>2. spawned' = [spawned EXCEPT ![t] = 0]
    BY <1>6 DEF AwaitChild
  <2> QED BY <1>1, <1>2, <2>1, <2>2 DEF Idle
<1> QED BY <1>3, <1>4, <1>5, <1>6 DEF SpawnPart

(* ... and of the rows.                                                    *)
LEMMA SpawnRows ==
    ASSUME BaseInv, NEW t \in Tasks, SpawnPart(t), NEW r \in Runs
    PROVE  \/ runs'[r] = runs[r]
           \/ runs[r].status = "absent" /\ runs'[r].cursor = 0
           \/ r = task[t].run /\ SameSpot(runs'[r], task[t].copy)
<1>1. AtSpawn(t) /\ TypeOK /\ task[t].run \in Runs
  BY SpawnFrame, AtSpawnFacts DEF BaseInv, TypeInv
<1>2. CASE runs' = runs
  BY <1>2
<1>3. CASE SpawnChild(t) \/ SpawnAnswerLost(t)
  BY <1>3, InsertKeeps DEF SpawnChild, SpawnAnswerLost
<1>4. CASE AwaitChild(t)
  <2>1. Save(t, task[t].copy, "waiting_subworkflow", TRUE)
    BY <1>4 DEF AwaitChild
  <2> QED BY <1>1, <2>1, SaveSpot, SaveEffect
<1> QED BY <1>2, <1>3, <1>4 DEF SpawnPart, SpawnFails, ForeachDone

LEMMA ResumeFrame ==
    ASSUME BaseInv, NEW t \in Tasks, ResumePart(t)
    PROVE  /\ task' = task /\ spawned' = spawned /\ resumer[t].pc # "idle"
           /\ \A u \in Tasks : u # t => resumer'[u] = resumer[u]
           /\ resumer'[t].pc # "idle" => resumer'[t].child = resumer[t].child
           /\ resumer'[t].pc = "log" => resumer'[t].copy = resumer[t].copy /\ ResumeParent(t)
           /\ resumer'[t].pc = "store" =>
                 LoadParent(t) /\ runs[Parent(t)].status = "waiting_subworkflow"
                 /\ resumer'[t].copy = ReadRun(runs[Parent(t)])
           /\ runs' = runs \/ ResumeParent(t)
<1>1. resumer \in [Tasks -> Resumer] /\ resumer[t] \in Resumer
  BY DEF BaseInv
<1>2. CASE LogResume(t) \/ ResumerDropped(t)
  BY <1>1, <1>2 DEF LogResume, ResumerDropped, IdleResumer, vars
<1>3. CASE LoadParent(t)
  BY <1>1, <1>3 DEF LoadParent, IdleResumer, Resumer, vars
<1>4. CASE ResumeParent(t)
  BY <1>1, <1>4 DEF ResumeParent, Resumer
<1> QED BY <1>2, <1>3, <1>4 DEF ResumePart

LEMMA StepKinds ==
    ASSUME BaseInv, [SpawnNext]_spawnVars
    PROVE  \/ Quiet /\ (resumer' = resumer \/ \E t \in Tasks : FinishRun(t))
           \/ \E t \in Tasks : SpawnPart(t)
           \/ \E t \in Tasks : ResumePart(t)
BY QuietSteps DEF BaseInv, SpawnPart, ResumePart

LEMMA ExclusiveStays ==
    ASSUME NEW S \in SUBSET Runs, BoundedIn(S), \A s \in SpawningSteps : s[1] \notin S,
           BaseInv, ExclusiveIn(S), Unstarved, [SpawnNext]_spawnVars
    PROVE  ExclusiveIn(S)'
<1>0. S \in SUBSET Runs /\ BoundedIn(S) /\ TypeInv /\ ExclusiveIn(S)
  BY DEF BaseInv
<1>1. CASE Quiet
  BY <1>0, <1>1, NextExclusiveIn DEF Quiet
<1>2. ASSUME \A u \in Tasks : task'[u].run \in S => task'[u] = task[u],
             \A r \in S : runs[r].status = "running" => runs'[r] = runs[r]
      PROVE  ExclusiveIn(S)'
  <2> SUFFICES ASSUME NEW u \in Tasks, task'[u].run \in S
               PROVE  Held(u)' /\ \A v \in Tasks : task'[v].run = task'[u].run => v = u
    BY DEF ExclusiveIn
  <2>1. task'[u] = task[u] /\ task[u].run \in S
    BY <1>2
  <2>2. Held(u) /\ \A v \in Tasks : task[v].run = task[u].run => v = u
    BY <1>0, <2>1 DEF ExclusiveIn
  <2>3. Held(u)'
    BY <1>2, <2>1, <2>2 DEF Held, At
  <2> QED BY <1>2, <2>1, <2>2, <2>3
<1>3. ASSUME NEW t \in Tasks, SpawnPart(t) PROVE ExclusiveIn(S)'
  <2>1. task[t].run \notin S
    BY <1>3, SpawnFrame, AtSpawnFacts DEF CurrentStep
  <2>2. NoRun \notin S
    BY <1>0, NoRunAssumption
  <2>3. \A u \in Tasks : task'[u].run \in S => task'[u] = task[u]
    BY <1>3, <2>1, <2>2, SpawnFrame DEF Idle
  <2>4. \A r \in S : runs[r].status = "running" => runs'[r] = runs[r]
    BY <1>0, <1>3, <2>1, SpawnRows
  <2> QED BY <1>2, <2>3, <2>4
<1>4. ASSUME NEW t \in Tasks, ResumePart(t) PROVE ExclusiveIn(S)'
  <2>1. task' = task /\ resumer[t].pc # "idle" /\ (runs' = runs \/ ResumeParent(t))
    BY <1>4, ResumeFrame
  <2>2. Parent(t) \notin S
    BY <2>1, ParentFacts, CallPair DEF Parent
  <2>3. \A r \in S : runs'[r] = runs[r]
    BY <1>0, <2>1, <2>2, ResumeEffect
  <2> QED BY <1>2, <2>1, <2>3
<1> QED BY <1>1, <1>3, <1>4, StepKinds

LEMMA PlainExclusive ==
    ASSUME BaseInv, PassInv, Unstarved, [SpawnNext]_spawnVars
    PROVE  ExclusiveIn(PlainCallees)'
<1>1. PlainCallees \in SUBSET Runs /\ BoundedIn(PlainCallees) /\ ExclusiveIn(PlainCallees)
  BY PlainFacts DEF PassInv
<1> QED BY <1>1, PlainFacts, ExclusiveStays

LEMMA LeafFacts ==
    /\ LeafRuns \in SUBSET Runs /\ BoundedIn(LeafRuns)
    /\ \A s \in SpawningSteps : s[1] \notin LeafRuns
<1>1. LeafRuns \in SUBSET Runs /\ BoundedIn(LeafRuns)
  BY DEF LeafRuns, ShortRuns, BoundedIn
<1>2. ASSUME NEW s \in Steps("foreach"), s[1] \in LeafRuns PROVE FALSE
  <2>1. s[2] + 1 \in DOMAIN Plan[s[1]] /\ Plan[s[1]][s[2] + 1] = "foreach"
    BY StepPair, PlanAssumption
  <2> QED BY <1>1, <1>2, <2>1 DEF BoundedIn, SlowKinds
<1>3. \A s \in Steps("subworkflow") : s[1] \notin LeafRuns
  BY DEF LeafRuns
<1> QED BY <1>1, <1>2, <1>3 DEF SpawningSteps

(* worker.rs:9-10, engine.rs:27-29: a run that calls nothing and whose     *)
(* steps are short is never executed twice, whichever runs create it or    *)
(* wait for it, outlast their leases beside it or are resumed, as long as  *)
(* they do not starve it of its thread.                                    *)
THEOREM LeafExclusion == UnstarvedSpawnSpec => []OneExecutorOfLeaves
<1>1. SpawnInit => ExclusiveIn(LeafRuns)
  BY LeafFacts, InitExclusive DEF SpawnInit
<1>2. BaseInv /\ ExclusiveIn(LeafRuns) /\ Unstarved /\ [SpawnNext]_spawnVars
         => ExclusiveIn(LeafRuns)'
  BY LeafFacts, ExclusiveStays
<1>3. ExclusiveIn(LeafRuns) => OneExecutorOfLeaves
  BY DEF ExclusiveIn, OneExecutorOfLeaves, OneExecutorIn, Executing
<1> QED BY <1>1, <1>2, <1>3, BaseInvariant, SpawningUnstarved, PTL DEF SpawnSpec

LEMMA OrderStays == ASSUME BaseInv, PassInv, StepFacts PROVE OrderInv' /\ WaitInv'
<1>1. ASSUME NEW s \in PlainCalls, NEW u \in PlainCalls,
             u[1] = s[1], u[2] < s[2], Callee(s) \in Existing'
      PROVE  u \in Over'
  <2>1. CASE Callee(s) \in Existing
    BY <1>1, <2>1, DoneGrows DEF PassInv, OrderInv
  <2>2. CASE Callee(s) \notin Existing
    <3>1. PICK t \in Tasks : AtSpawn(t) /\ CurrentStep(t) = s
      BY <1>1, <2>2 DEF StepFacts
    <3>2. task[t].pc # "idle" /\ task[t].run = u[1] /\ u[2] < task[t].copy.cursor
      BY <1>1, <3>1 DEF CurrentStep, AtSpawn, At
    <3>3. u \in Done
      BY <3>2, CallPair DEF PassInv, PastInv, PastOK, PlainCalls
    <3> QED BY <3>3, DoneGrows DEF Done, PlainCalls
  <2> QED BY <2>1, <2>2
<1>2. OrderInv'
  BY <1>1 DEF OrderInv
<1>3. ASSUME NEW s \in Awaited' PROVE s \in Calls /\ Callee(s) \in Existing' /\ s \notin InSpawn'
  <2>1. CASE s \in Awaited
    BY <1>3, <2>1 DEF PassInv, WaitInv, StepFacts
  <2>2. CASE s \in Calls /\ s \in InSpawn /\ s \notin InSpawn'
    <3>1. PICK t \in Tasks : spawned[t] > 0 /\ CurrentStep(t) = s
      BY <2>2 DEF InSpawn
    <3>2. 1 \in 1 .. spawned[t]
      BY <3>1 DEF BaseInv
    <3>3. Callee(s) \in Existing
      BY <3>1, <3>2 DEF PassInv, SpawnersOK, Callee
    <3> QED BY <2>2, <3>3 DEF StepFacts
  <2> QED BY <1>3, <2>1, <2>2 DEF StepFacts
<1>4. WaitInv'
  BY <1>3 DEF WaitInv
<1> QED BY <1>2, <1>4

(* A slot that still counts executes the same step as before.              *)
LEMMA CountingSlots ==
    ASSUME BaseInv, [SpawnNext]_spawnVars, NEW u \in Tasks, spawned'[u] > 0
    PROVE  /\ task'[u] = task[u]
           /\ \/ spawned'[u] = spawned[u] /\ spawned[u] > 0
              \/ SpawnChild(u) /\ spawned'[u] = spawned[u] + 1
<1>1. CASE Quiet
  BY <1>1 DEF Quiet, BaseInv, SpawnersAt
<1>2. ASSUME NEW t \in Tasks, SpawnPart(t)
      PROVE  /\ task'[u] = task[u]
             /\ \/ spawned'[u] = spawned[u] /\ spawned[u] > 0
                \/ SpawnChild(u) /\ spawned'[u] = spawned[u] + 1
  <2>1. CASE u = t
    BY <1>2, <2>1, SpawnFrame DEF SpawnChild, BaseInv
  <2>2. CASE u # t
    BY <1>2, <2>2, SpawnFrame
  <2> QED BY <2>1, <2>2
<1>3. ASSUME NEW t \in Tasks, ResumePart(t) PROVE task' = task /\ spawned' = spawned
  BY <1>3, ResumeFrame
<1> QED BY <1>1, <1>2, <1>3, StepKinds

LEMMA SpawnersStay ==
    ASSUME BaseInv, PassInv, StepFacts, [SpawnNext]_spawnVars
    PROVE  SpawnersOK'
<1>1. ASSUME NEW t \in Tasks, SpawnChild(t)
      PROVE  /\ NextChild(t) \in Existing' /\ NextChild(t) \notin Existing
             /\ CurrentStep(t) \in Calls => NextChild(t) = Callee(CurrentStep(t))
  BY <1>1, InsertKeeps DEF SpawnChild, Existing
<1>2. ASSUME NEW t \in Tasks, NEW k \in 1 .. spawned'[t]
      PROVE  Spawns(CurrentStep(t)')[k] \in Existing'
  <2>1. spawned'[t] \in Nat /\ spawned[t] \in Nat
    BY BaseStays DEF BaseInv
  <2>2. spawned'[t] > 0
    BY <2>1
  <2>3. CurrentStep(t)' = CurrentStep(t)
    BY <2>2, CountingSlots DEF CurrentStep
  <2>4. CASE k \in 1 .. spawned[t]
    BY <2>3, <2>4 DEF PassInv, SpawnersOK, StepFacts
  <2>5. CASE k \notin 1 .. spawned[t]
    <3>1. SpawnChild(t) /\ k = spawned[t] + 1
      BY <2>1, <2>2, <2>5, CountingSlots
    <3> QED BY <1>1, <2>3, <3>1 DEF NextChild
  <2> QED BY <2>4, <2>5
<1>3. ASSUME NEW t \in Tasks, NEW u \in Tasks, t # u,
             spawned'[t] > 0, spawned'[u] > 0, CurrentStep(t)' = CurrentStep(u)',
             CurrentStep(t)' \in Calls
      PROVE  FALSE
  <2>1. CurrentStep(t) = CurrentStep(u) /\ CurrentStep(t) \in Calls
    BY <1>3, CountingSlots DEF CurrentStep
  <2>2. ASSUME NEW v \in Tasks, NEW w \in Tasks, v # w, SpawnChild(v), spawned[w] > 0,
               CurrentStep(v) = CurrentStep(w), CurrentStep(v) \in Calls
        PROVE  FALSE
    <3>1. 1 \in 1 .. spawned[w]
      BY <2>2 DEF BaseInv
    <3>2. Callee(CurrentStep(v)) \in Existing
      BY <2>2, <3>1 DEF PassInv, SpawnersOK, Callee
    <3> QED BY <1>1, <2>2, <3>2
  <2>3. ~ (spawned[t] > 0 /\ spawned[u] > 0)
    BY <1>3, <2>1 DEF PassInv, SpawnersOK
  <2>4. SpawnChild(t) => spawned[u] > 0
    BY <1>3, SpawnFrame DEF SpawnPart
  <2>5. SpawnChild(u) => spawned[t] > 0
    BY <1>3, SpawnFrame DEF SpawnPart
  <2> QED BY <1>3, <2>1, <2>2, <2>3, <2>4, <2>5, CountingSlots
<1> QED BY <1>2, <1>3 DEF SpawnersOK

LEMMA AdvanceStays ==
    ASSUME BaseInv, PassInv, StepFacts, [SpawnNext]_spawnVars
    PROVE  AdvanceOK'
<1> SUFFICES ASSUME NEW u \in Tasks, task'[u].pc = "advance", CurrentStep(u)' \in SpawningSteps
             PROVE  /\ CurrentStep(u)' \notin Calls
                    /\ task'[u].run \in PlainCallers => CurrentStep(u)' \in Done'
  BY DEF AdvanceOK, At
<1>1. CASE task'[u] = task[u]
  <2>1. CurrentStep(u)' = CurrentStep(u) /\ At(u, "advance")
    BY <1>1 DEF CurrentStep, At
  <2> QED BY <1>1, <2>1, DoneGrows DEF PassInv, AdvanceOK
<1>2. CASE Quiet
  <2>1. ASSUME Executed(u) PROVE FALSE
    BY <2>1 DEF Executed, AtSpawn, CurrentStep
  <2> QED BY <1>1, <1>2, <2>1 DEF Quiet
<1>3. ASSUME NEW t \in Tasks, SpawnPart(t), task'[u] # task[u]
      PROVE  /\ CurrentStep(u)' \notin Calls
             /\ task'[u].run \in PlainCallers => CurrentStep(u)' \in Done'
  <2>1. u = t /\ ForeachDone(t)
    BY <1>3, SpawnFrame DEF Idle
  <2>2. AtSpawn(t) /\ AllSpawned(t) /\ Current(t) = "foreach"
    BY <2>1 DEF ForeachDone
  <2>3. CurrentStep(t)' = CurrentStep(t) /\ task'[t].run = CurrentStep(t)[1]
    BY <1>3, <2>1, SpawnFrame DEF CurrentStep
  <2>4. /\ CurrentStep(t) \in SpawningSteps /\ CurrentStep(t) \notin Calls
        /\ DOMAIN Spawns(CurrentStep(t)) = 1 .. spawned[t]
    BY <2>2, AtSpawnFacts DEF AllSpawned
  <2>5. CurrentStep(t)[1] \in PlainCallers => CurrentStep(t) \in Done
    BY <2>4 DEF PassInv, SpawnersOK, Done
  <2> QED BY <2>1, <2>3, <2>4, <2>5, DoneGrows
<1>4. ASSUME NEW t \in Tasks, ResumePart(t) PROVE task' = task
  BY <1>4, ResumeFrame
<1> QED BY <1>1, <1>2, <1>3, <1>4, StepKinds

(* Where a resumer finds its parent: in the step that called the child.    *)
LEMMA ParentFound ==
    ASSUME BaseInv, PassInv, NEW t \in Tasks, resumer[t].pc = "load",
           resumer[t].child \in PlainCallees,
           runs[Parent(t)].status = "waiting_subworkflow"
    PROVE  /\ runs[Parent(t)].cursor = Caller(resumer[t].child)[2]
           /\ Caller(resumer[t].child) \notin InSpawn
<1> DEFINE u == Caller(resumer[t].child)
           s == <<Parent(t), runs[Parent(t)].cursor>>
<1>1. /\ u \in Calls /\ Callee(u) = resumer[t].child /\ Parent(t) \in Runs /\ u[1] = Parent(t)
      /\ u = <<u[1], u[2]>> /\ u[2] \in Nat /\ u \in PlainCalls
  BY ParentFacts, CalleeFacts, PlainFacts, CallPair DEF Parent
<1>2. s \in Awaited
  BY <1>1 DEF Awaited
<1>3. s \in Calls /\ Callee(s) \in Existing /\ s \notin InSpawn
  BY <1>2 DEF PassInv, WaitInv
<1>4. s[1] = Parent(t) /\ s[2] = runs[Parent(t)].cursor /\ s[2] \in Nat
  BY <1>3, CallPair
<1>5. u \notin Over
  <2>1. resumer[t].child \in InResume
    BY DEF InResume
  <2> QED BY <1>1, <2>1 DEF Over
<1>6. s \notin Over
  BY <1>2 DEF Over
<1>7. Callee(u) \in Existing
  BY <1>1 DEF PassInv, ResumersOK, Succeeded, Existing
<1>8. ~ u[2] < s[2] /\ ~ s[2] < u[2]
  <2>1. s \in PlainCalls
    BY <1>1, <1>3, <1>4 DEF PlainCalls
  <2> QED BY <1>1, <1>3, <1>4, <1>5, <1>6, <1>7, <2>1 DEF PassInv, OrderInv
<1>9. u[2] = s[2]
  BY <1>1, <1>4, <1>8
<1> QED BY <1>1, <1>3, <1>4, <1>9

LEMMA ResumersStay ==
    ASSUME BaseInv, PassInv, StepFacts, [SpawnNext]_spawnVars
    PROVE  ResumersOK'
<1>1. ASSUME NEW u \in Tasks, resumer[u].pc # "idle", resumer[u].child \in PlainCallees
      PROVE  /\ resumer[u].child \in Succeeded' /\ runs[resumer[u].child].status = "succeeded"
             /\ Caller(resumer[u].child) \notin InSpawn => Caller(resumer[u].child) \notin InSpawn'
  <2>1. /\ resumer[u].child \in Succeeded
        /\ Caller(resumer[u].child) \in Calls
        /\ Callee(Caller(resumer[u].child)) = resumer[u].child
    BY <1>1, ParentFacts, CalleeFacts DEF PassInv, ResumersOK
  <2> QED BY <1>1, <2>1 DEF StepFacts, Succeeded, Existing
<1>2. CASE resumer' = resumer
  BY <1>1, <1>2 DEF PassInv, ResumersOK
<1>3. ASSUME NEW t \in Tasks, FinishRun(t), resumer' # resumer,
             task[t].run \in PlainCallees
      PROVE  ResumersOK'
  <2> DEFINE c == task[t].run
  <2>1. /\ ParentKey(c) \in task[t].copy.context /\ ~ At(t, "idle")
        /\ resumer' = [resumer EXCEPT ![t].pc = "load", ![t].child = c]
        /\ Save(t, task[t].copy, "succeeded", TRUE)
    BY <1>3 DEF FinishRun, Finish, At
  <2>2. c \in Runs
    BY <1>3, PlainFacts
  <2>3. runs[c].status = "running"
    BY <1>3, <2>1, CalleeHeld DEF PassInv
  <2>4. c \in Succeeded'
    BY <2>1, <2>2, SaveEffect DEF BaseInv, TypeInv, Succeeded
  <2>5. /\ resumer'[t].pc = "load" /\ resumer'[t].child = c
        /\ \A u \in Tasks : u # t => resumer'[u] = resumer[u]
    BY <2>1 DEF BaseInv, Resumer
  <2>6. \A u \in Tasks : resumer[u].pc # "idle" => resumer[u].child # c
    BY <1>1, <1>3, <2>3
  <2> QED BY <1>1, <2>4, <2>5, <2>6 DEF PassInv, ResumersOK
<1>4. ASSUME NEW t \in Tasks, FinishRun(t), resumer' # resumer,
             task[t].run \notin PlainCallees
      PROVE  ResumersOK'
  <2>1. /\ resumer'[t].pc = "load" /\ resumer'[t].child = task[t].run
        /\ \A u \in Tasks : u # t => resumer'[u] = resumer[u]
    BY <1>4 DEF FinishRun, BaseInv, Resumer
  <2> QED BY <1>1, <1>4, <2>1 DEF PassInv, ResumersOK
<1>5. ASSUME NEW t \in Tasks, ResumePart(t) PROVE ResumersOK'
  <2>1. /\ resumer[t].pc # "idle"
        /\ \A u \in Tasks : u # t => resumer'[u] = resumer[u]
        /\ resumer'[t].pc # "idle" => resumer'[t].child = resumer[t].child
    BY <1>5, ResumeFrame
  <2>2. ASSUME resumer'[t].pc = "store", resumer[t].child \in PlainCallees
        PROVE  /\ resumer'[t].copy.cursor = Caller(resumer[t].child)[2]
               /\ Caller(resumer[t].child) \notin InSpawn
    <3>1. /\ LoadParent(t) /\ runs[Parent(t)].status = "waiting_subworkflow"
          /\ resumer'[t].copy = ReadRun(runs[Parent(t)])
      BY <1>5, <2>2, ResumeFrame
    <3> QED BY <2>2, <3>1, ParentFound DEF LoadParent, ReadRun
  <2>3. ASSUME resumer'[t].pc = "log", resumer[t].child \in PlainCallees
        PROVE  resumer'[t].copy.cursor = Caller(resumer[t].child)[2]
    <3>1. resumer'[t].copy = resumer[t].copy /\ resumer[t].pc = "store"
      BY <1>5, <2>3, ResumeFrame DEF ResumeParent
    <3> QED BY <2>3, <3>1 DEF PassInv, ResumersOK
  <2> QED BY <1>1, <2>1, <2>2, <2>3 DEF PassInv, ResumersOK
<1>6. ASSUME NEW t \in Tasks, SpawnPart(t) PROVE resumer' = resumer
  BY <1>6, SpawnFrame
<1> QED BY <1>2, <1>3, <1>4, <1>5, <1>6, StepKinds

LEMMA PastFields ==
    ASSUME NEW r, NEW c, NEW d, NEW D, NEW E, PastOK(r, c, D), SameSpot(d, c), D \subseteq E
    PROVE  PastOK(r, d, E)
BY DEF PastOK, SameSpot

LEMMA PastAtStart == ASSUME NEW r, NEW c, NEW D, c.cursor = 0 PROVE PastOK(r, c, D)
<1>1. \A s \in SpawningSteps : ~ s[2] < c.cursor
  BY SpawningPair
<1>2. \A i \in Producing(r) : ~ i < c.cursor
  BY DEF Producing
<1> QED BY <1>1, <1>2 DEF PastOK

(* Where the cursor of a plain caller may come to, the steps behind it are *)
(* done.                                                                   *)
LEMMA ReachedPast ==
    ASSUME BaseInv, PassInv, NEW r \in Runs, NEW x, Reached(r, x)
    PROVE  PastOK(r, x, Done)
<1>1. CASE Fresh(r, x)
  BY <1>1, PastAtStart DEF Fresh
<1>2. CASE SameSpot(x, runs[r])
  BY <1>2, PastFields DEF PassInv, PastInv
<1>3. ASSUME NEW t \in Tasks, FromTask(t, r, x) PROVE PastOK(r, x, Done)
  <2>1. /\ ~ At(t, "idle") /\ task[t].run = r /\ task[t].copy.cursor \in Nat /\ TypeInv
        /\ PastOK(r, task[t].copy, Done)
    BY <1>3, InFlight DEF FromTask, BaseInv, PassInv, PastInv, At
  <2>2. CASE SameSpot(x, task[t].copy)
    BY <2>1, <2>2, PastFields
  <2>3. CASE Stepped(t, x)
    <3> SUFFICES ASSUME r \in PlainCallers PROVE PastOK(r, x, Done)
      BY DEF PastOK
    <3>0. /\ x.cursor = task[t].copy.cursor + 1
          /\ x.context = task[t].copy.context \cup {task[t].copy.cursor}
      BY <2>1, <2>3 DEF Stepped, PlainCallers
    <3>5. \A i \in Producing(r) : i < x.cursor => i \in x.context
      BY <2>1, <3>0 DEF PastOK, Producing
    <3> SUFFICES ASSUME NEW s \in SpawningSteps, s[1] = r, s[2] < x.cursor
                 PROVE  s \in Done
      BY <3>5 DEF PastOK
    <3>1. s[2] \in Nat /\ s = <<s[1], s[2]>>
      BY SpawningPair
    <3>2. CASE s[2] < task[t].copy.cursor
      BY <2>1, <3>2 DEF PastOK
    <3>3. CASE s[2] = task[t].copy.cursor
      <4>1. s = CurrentStep(t)
        BY <2>1, <3>1, <3>3 DEF CurrentStep
      <4>2. Current(t) # "delay"
        BY <2>1, <4>1, CurrentMember DEF SpawningSteps
      <4>3. At(t, "advance")
        BY <2>3, <4>2 DEF Stepped
      <4> QED BY <2>1, <4>1, <4>3 DEF PassInv, AdvanceOK
    <3>4. s[2] < task[t].copy.cursor \/ s[2] = task[t].copy.cursor
      BY <2>1, <3>0, <3>1
    <3> QED BY <3>2, <3>3, <3>4
  <2> QED BY <1>3, <2>2, <2>3 DEF FromTask
<1> QED BY <1>1, <1>2, <1>3 DEF Reached

LEMMA PastStays ==
    ASSUME BaseInv, PassInv, StepFacts, [SpawnNext]_spawnVars
    PROVE  PastInv'
<1>0. Done \subseteq Done' /\ BaseInv' /\ runs \in [Runs -> Row]
  BY DoneGrows, BaseStays DEF BaseInv, TypeInv, TypeOK
<1>1. ASSUME NEW r \in Runs, SameSpot(runs'[r], runs[r]) PROVE PastOK(r, runs'[r], Done')
  BY <1>0, <1>1, PastFields DEF PassInv, PastInv
<1>2. ASSUME NEW u \in Tasks, task'[u].pc # "idle",
             task[u].pc # "idle" /\ task'[u].run = task[u].run /\ task'[u].copy = task[u].copy
      PROVE  PastOK(task'[u].run, task'[u].copy, Done')
  BY <1>0, <1>2, PastFields DEF PassInv, PastInv, SameSpot
<1>3. ASSUME NEW u \in Tasks, resumer'[u].pc = "store", resumer'[u] = resumer[u]
      PROVE  PastOK(Caller(resumer'[u].child)[1], resumer'[u].copy, Done')
  BY <1>0, <1>3, PastFields DEF PassInv, PastInv, SameSpot, Parent
<1>4. CASE Quiet /\ (resumer' = resumer \/ \E t \in Tasks : FinishRun(t))
  <2>1. AllReached
    BY <1>4, EngineMoves DEF Quiet, BaseInv
  <2>2. \A r \in Runs : PastOK(r, runs'[r], Done)
    BY <2>1, ReachedPast DEF AllReached
  <2>3. \A u \in Tasks : task'[u].pc # "idle" => PastOK(task'[u].run, task'[u].copy, Done)
    BY <1>0, <2>1, ReachedPast DEF AllReached, BaseInv, TypeInv, SlotOK, At
  <2>4. \A u \in Tasks : resumer'[u].pc = "store" => resumer'[u] = resumer[u]
    BY <1>4 DEF FinishRun, BaseInv, Resumer
  <2> QED BY <1>0, <1>3, <2>2, <2>3, <2>4, PastFields DEF PastInv, SameSpot, Parent
<1>5. ASSUME NEW t \in Tasks, SpawnPart(t) PROVE PastInv'
  <2>1. AtSpawn(t) /\ resumer' = resumer /\ task[t].pc # "idle"
    BY <1>5, SpawnFrame DEF AtSpawn, At
  <2>2. ASSUME NEW r \in Runs PROVE PastOK(r, runs'[r], Done')
    <3>1. CASE runs'[r] = runs[r]
      BY <1>1, <3>1 DEF SameSpot
    <3>2. CASE runs'[r].cursor = 0
      BY <3>2, PastAtStart
    <3>3. CASE r = task[t].run /\ SameSpot(runs'[r], task[t].copy)
      BY <1>0, <2>1, <3>3, PastFields DEF PassInv, PastInv
    <3> QED BY <1>5, <3>1, <3>2, <3>3, SpawnRows
  <2>3. ASSUME NEW u \in Tasks, task'[u].pc # "idle"
        PROVE  task[u].pc # "idle" /\ task'[u].run = task[u].run /\ task'[u].copy = task[u].copy
    <3>1. CASE u = t
      BY <1>5, <2>1, <2>3, <3>1, SpawnFrame
    <3>2. CASE u # t
      BY <1>5, <2>3, <3>2, SpawnFrame
    <3> QED BY <3>1, <3>2
  <2> QED BY <1>2, <1>3, <2>1, <2>2, <2>3 DEF PastInv, Parent
<1>6. ASSUME NEW t \in Tasks, ResumePart(t) PROVE PastInv'
  <2> DEFINE p == Parent(t)
             u == Caller(resumer[t].child)
  <2>1. /\ task' = task /\ spawned' = spawned /\ resumer[t].pc # "idle"
        /\ \A v \in Tasks : v # t => resumer'[v] = resumer[v]
        /\ runs' = runs \/ ResumeParent(t)
    BY <1>6, ResumeFrame
  <2>2. /\ p \in Runs /\ u \in Calls /\ u[1] = p /\ u = <<u[1], u[2]>> /\ u[2] \in Nat
        /\ Callee(u) = resumer[t].child
    BY <2>1, ParentFacts, CalleeFacts, CallPair DEF Parent
  <2>3. ASSUME resumer'[t].pc = "store"
        PROVE  PastOK(Caller(resumer'[t].child)[1], resumer'[t].copy, Done')
    <3>1. resumer'[t].child = resumer[t].child /\ resumer'[t].copy = ReadRun(runs[p])
      BY <1>6, <2>3, ResumeFrame
    <3>2. SameSpot(ReadRun(runs[p]), runs[p])
      BY DEF ReadRun, SameSpot
    <3> QED BY <1>0, <2>2, <3>1, <3>2, PastFields DEF PassInv, PastInv, Parent
  <2>4. ASSUME ResumeParent(t), p \in PlainCallers PROVE PastOK(p, runs'[p], Done')
    <3>0. u \in PlainCalls /\ Callee(u) \in PlainCallees
      BY <2>2, <2>4, PlainFacts DEF PlainCalls
    <3>1. /\ resumer[t].pc = "store" /\ resumer'[t].pc = "log"
      BY <2>4 DEF ResumeParent, BaseInv, Resumer
    <3>2. /\ resumer[t].copy.cursor = u[2] /\ u \notin InSpawn
          /\ PastOK(p, resumer[t].copy, Done) /\ Callee(u) \in Succeeded
          /\ \A v \in Tasks : resumer[v].pc # "idle" /\ resumer[v].child = Callee(u) => v = t
      BY <2>2, <3>0, <3>1 DEF PassInv, PastInv, ResumersOK
    <3>3. /\ runs'[p].status = "queued" /\ runs'[p].cursor = u[2] + 1
          /\ runs'[p].context = resumer[t].copy.context \cup {u[2]}
      BY <2>4, <3>2, ResumeEffect
    <3>4. u \in Over'
      <4>1. Callee(u) \in Succeeded'
        BY <3>0, <3>2 DEF StepFacts
      <4>2. Callee(u) \notin InResume'
        BY <2>1, <3>1, <3>2 DEF InResume
      <4>3. u \notin InSpawn'
        BY <2>1, <3>2 DEF InSpawn, CurrentStep
      <4>4. u \notin Awaited'
        BY <2>2, <3>3 DEF Awaited
      <4> QED BY <3>0, <4>1, <4>2, <4>3, <4>4 DEF Over
    <3>5. u \in Done'
      <4>1. Callee(u) \in Existing'
        BY <3>4 DEF Over, Succeeded, Existing
      <4> QED BY <2>2, <2>4, <3>4, <4>1, CalleeFacts, CallPair DEF Done, Callee
    <3>6. \A i \in Producing(p) : i < runs'[p].cursor => i \in runs'[p].context
      BY <2>2, <2>4, <3>2, <3>3 DEF PastOK, Producing
    <3> SUFFICES ASSUME NEW s \in SpawningSteps, s[1] = p, s[2] < runs'[p].cursor
                 PROVE  s \in Done'
      BY <3>6 DEF PastOK
    <3>7. s[2] \in Nat /\ s = <<s[1], s[2]>>
      BY SpawningPair
    <3>8. CASE s[2] < u[2]
      BY <1>0, <2>4, <3>2, <3>8 DEF PastOK
    <3>9. CASE s[2] = u[2]
      BY <2>2, <3>5, <3>7, <3>9
    <3>10. s[2] < u[2] \/ s[2] = u[2]
      BY <2>2, <3>3, <3>7
    <3> QED BY <3>8, <3>9, <3>10
  <2>5. ASSUME NEW r \in Runs PROVE PastOK(r, runs'[r], Done')
    <3>1. CASE runs'[r] = runs[r]
      BY <1>1, <3>1 DEF SameSpot
    <3>2. CASE ResumeParent(t) /\ r = p
      BY <2>4, <3>2 DEF PastOK
    <3> QED BY <2>1, <3>1, <3>2, ResumeEffect
  <2>6. \A v \in Tasks : task'[v].pc # "idle" => PastOK(task'[v].run, task'[v].copy, Done')
    BY <1>2, <2>1
  <2>7. ASSUME NEW v \in Tasks, resumer'[v].pc = "store"
        PROVE  PastOK(Caller(resumer'[v].child)[1], resumer'[v].copy, Done')
    BY <1>3, <2>1, <2>3, <2>7
  <2> QED BY <2>5, <2>6, <2>7 DEF PastInv, Parent
<1> QED BY <1>4, <1>5, <1>6, StepKinds

LEMMA PassStarts == SpawnInit => PassInv
<1> SUFFICES ASSUME SpawnInit PROVE PassInv
  OBVIOUS
<1>1. /\ Init /\ \A t \in Tasks : task[t].pc = "idle" /\ spawned[t] = 0 /\ resumer[t].pc = "idle"
      /\ \A r \in Runs : runs[r].cursor = 0 /\ runs[r].status \in {"absent", "running"}
      /\ \A c \in Callees : runs[c].status = "absent"
  BY CreatedRuns DEF SpawnInit, Init, Idle, IdleResumer, Absent, Orphan
<1>2. ExclusiveIn(PlainCallees)
  BY <1>1, PlainFacts, InitExclusive
<1>3. SpawnersOK
  BY <1>1 DEF SpawnersOK
<1>4. ResumersOK /\ AdvanceOK
  BY <1>1 DEF ResumersOK, AdvanceOK, At
<1>5. PastInv
  BY <1>1, PastAtStart DEF PastInv
<1>6. OrderInv /\ WaitInv
  BY <1>1, CalleeFacts DEF OrderInv, WaitInv, Existing, Awaited, PlainCalls
<1> QED BY <1>2, <1>3, <1>4, <1>5, <1>6 DEF PassInv

LEMMA PassStays ==
    ASSUME BaseInv, PassInv, Unstarved, [SpawnNext]_spawnVars
    PROVE  PassInv'
<1>1. StepFacts
  BY AnyStepFacts
<1> QED BY <1>1, PlainExclusive, SpawnersStay, ResumersStay, AdvanceStays, PastStays, OrderStays
        DEF PassInv

LEMMA PassInvariant == UnstarvedSpawnSpec => []PassInv
<1>1. BaseInv /\ PassInv /\ Unstarved /\ [SpawnNext]_spawnVars => PassInv'
  BY PassStays
<1> QED BY <1>1, PassStarts, BaseInvariant, SpawningUnstarved, PTL DEF SpawnSpec

(* engine.rs:128-134, 207-221, 398-450: a run that does not branch, and    *)
(* whose subworkflow steps call workflows that neither outlast their leases*)
(* nor call others, gets past a subworkflow step only with the output of a *)
(* child that succeeded, and past a foreach step only when all of its runs *)
(* exist, whatever crashes, lost answers, retries, refused keys and        *)
(* overlapping executions of the parent come before, and whatever the other*)
(* runs do but hold all the threads of a replica.                          *)
THEOREM SpawningOrder == UnstarvedSpawnSpec => []PassedOnlyIfSpawned
<1>1. PassInv => PassedOnlyIfSpawned
  <2> SUFFICES ASSUME PassInv, NEW s \in SpawningSteps,
                      s[1] \in PlainCallers, runs[s[1]].cursor > s[2]
               PROVE  /\ \A k \in DOMAIN Spawns(s) : runs[Spawns(s)[k]].status # "absent"
                      /\ s \in Calls =>
                            s[2] \in runs[s[1]].context /\ runs[Spawns(s)[1]].status = "succeeded"
    BY DEF PassedOnlyIfSpawned, Calls
  <2>1. s[1] \in Runs /\ s[2] < runs[s[1]].cursor
    BY SpawningPair
  <2>2. s \in Done
    BY <2>1 DEF PassInv, PastInv, PastOK
  <2>3. s \in Calls => s[2] \in runs[s[1]].context
    <3>1. s \in Calls => s[2] \in Producing(s[1])
      BY <2>1, StepPair, PlanAssumption DEF Calls, Producing
    <3> QED BY <2>1, <3>1 DEF PassInv, PastInv, PastOK
  <2> QED BY <2>2, <2>3 DEF Done, Over, Existing, Succeeded, Callee
<1> QED BY <1>1, PassInvariant, PTL

(* engine.rs:209-219: a resume puts the child's output under the step that *)
(* it logs and that the cursor moves on from.                              *)
THEOREM ResumeTarget == UnstarvedSpawnSpec => []ResumesItsCall
<1>1. BaseInv /\ PassInv => ResumesItsCall
  <2> SUFFICES ASSUME BaseInv, PassInv, NEW t \in Tasks, resumer[t].pc \in {"store", "log"},
                      Parent(t) \in PlainCallers
               PROVE  resumer[t].copy.cursor = Caller(resumer[t].child)[2]
    BY DEF ResumesItsCall
  <2>1. resumer[t].child \in PlainCallees
    BY ParentFacts, CalleeFacts, PlainFacts DEF Parent, PlainCalls
  <2> QED BY <2>1 DEF PassInv, ResumersOK
<1> QED BY <1>1, BaseInvariant, PassInvariant, SpawningUnstarved, PTL

(* engine.rs:181, 214: no output that a plain caller's steps have put into *)
(* its context is lost, its children's included.                           *)
THEOREM KeptOutputs == UnstarvedSpawnSpec => []OutputsKept
<1>1. PassInv => OutputsKept
  BY DEF PassInv, PastInv, PastOK, OutputsKept, PlainCallers, LinearRuns
<1> QED BY <1>1, PassInvariant, PTL

-----------------------------------------------------------------------------
(* The retry budget.  A resume passes a pause: its parent waits in a step  *)
(* that calls, whichever caller it is.                                     *)

ResumeBudget ==
    \A t \in Tasks : resumer[t].pc = "store" =>
        /\ <<Parent(t), resumer[t].copy.cursor>> \in Calls
        /\ Parent(t) \in LinearRuns => Within(Parent(t), resumer[t].copy)

WaitsAtCall ==
    \A r \in Runs : runs[r].status = "waiting_subworkflow" => <<r, runs[r].cursor>> \in Calls

SpawnBudgetInv == BudgetInv /\ ResumeBudget /\ WaitsAtCall

LEMMA WaitersStay ==
    ASSUME BaseInv, WaitsAtCall, [SpawnNext]_spawnVars
    PROVE  WaitsAtCall'
<1> SUFFICES ASSUME NEW r \in Runs, runs'[r].status = "waiting_subworkflow"
             PROVE  <<r, runs'[r].cursor>> \in Calls
  BY DEF WaitsAtCall
<1>1. CASE Quiet
  BY <1>1 DEF Quiet, RowMoves, WaitsAtCall
<1>2. ASSUME NEW t \in Tasks, SpawnPart(t) PROVE <<r, runs'[r].cursor>> \in Calls
  <2>1. AtSpawn(t) /\ TypeOK /\ task[t].run \in Runs
    BY <1>2, SpawnFrame, AtSpawnFacts DEF BaseInv, TypeInv
  <2>2. CASE runs' = runs
    BY <2>2 DEF WaitsAtCall
  <2>3. CASE SpawnChild(t) \/ SpawnAnswerLost(t)
    <3>1. /\ runs'[NextChild(t)].status = "queued"
          /\ \A q \in Runs : q # NextChild(t) => runs'[q] = runs[q]
      BY <2>3, InsertKeeps DEF SpawnChild, SpawnAnswerLost
    <3> QED BY <3>1 DEF WaitsAtCall
  <2>4. CASE AwaitChild(t)
    <3>1. Save(t, task[t].copy, "waiting_subworkflow", TRUE) /\ CurrentStep(t) \in Calls
      BY <2>1, <2>4, AtSpawnFacts DEF AwaitChild
    <3>2. /\ \A q \in Runs : q # task[t].run => runs'[q] = runs[q]
          /\ SameSpot(runs'[task[t].run], task[t].copy)
      BY <2>1, <3>1, SaveSpot, SaveEffect
    <3> QED BY <3>1, <3>2 DEF WaitsAtCall, SameSpot, CurrentStep
  <2> QED BY <1>2, <2>2, <2>3, <2>4 DEF SpawnPart, SpawnFails, ForeachDone
<1>3. ASSUME NEW t \in Tasks, ResumePart(t) PROVE <<r, runs'[r].cursor>> \in Calls
  <2>1. runs' = runs \/ ResumeParent(t)
    BY <1>3, ResumeFrame
  <2>2. ResumeParent(t) => /\ runs'[Parent(t)].status = "queued"
                           /\ \A q \in Runs : q # Parent(t) => runs'[q] = runs[q]
    BY ResumeEffect
  <2> QED BY <2>1, <2>2 DEF WaitsAtCall
<1> QED BY <1>1, <1>2, <1>3, StepKinds

LEMMA ResumersKeepBudget ==
    ASSUME ResumeBudget, \A t \in Tasks : resumer'[t].pc = "store" => resumer'[t] = resumer[t]
    PROVE  ResumeBudget'
BY DEF ResumeBudget, Parent

LEMMA SpawnPartBudget ==
    ASSUME BaseInv, SpawnBudgetInv, NEW t \in Tasks, SpawnPart(t)
    PROVE  BudgetInv' /\ ResumeBudget'
<1>1. /\ AtSpawn(t) /\ resumer' = resumer /\ TypeInv /\ BudgetInv
      /\ task[t].run \in Runs /\ task[t].copy \in Copy
  BY SpawnFrame, AtSpawnFacts DEF BaseInv, SpawnBudgetInv
<1>2. ResumeBudget'
  BY <1>1, ResumersKeepBudget DEF SpawnBudgetInv
<1>3. ASSUME NEW u \in Tasks PROVE SlotBudget(task'[u])
  <2>1. CASE task'[u] = task[u]
    BY <1>1, <2>1 DEF BudgetInv
  <2>2. CASE task'[u] = Idle
    BY <2>2, NoRunAssumption DEF SlotBudget, Idle, LinearRuns
  <2>3. CASE u = t /\ task'[t].pc \in {"fail", "advance"}
    <3>1. task'[t].run = task[t].run /\ task'[t].copy = task[t].copy
      BY <2>3, SpawnFrame
    <3> QED BY <1>1, <2>3, <3>1 DEF BudgetInv, SlotBudget
  <2> QED BY <2>1, <2>2, <2>3, SpawnFrame
<1>4. \A r \in Runs : RowBudget(r, runs'[r])
  <2>1. CASE runs' = runs
    BY <1>1, <2>1 DEF BudgetInv
  <2>2. CASE SpawnChild(t) \/ SpawnAnswerLost(t)
    <3>1. /\ NextChild(t) \in Runs /\ runs'[NextChild(t)].attempt = 0
          /\ runs' \in [Runs -> Row]
          /\ \A r \in Runs : r # NextChild(t) => runs'[r] = runs[r]
      BY <2>2, InsertKeeps DEF SpawnChild, SpawnAnswerLost
    <3>2. RowBudget(NextChild(t), runs'[NextChild(t)])
      BY <3>1, FreshBudget
    <3> QED BY <1>1, <3>1, <3>2 DEF BudgetInv
  <2>3. CASE AwaitChild(t)
    <3>1. Save(t, task[t].copy, "waiting_subworkflow", TRUE)
      BY <2>3 DEF AwaitChild
    <3>2. task[t].run \in LinearRuns => Within(task[t].run, task[t].copy)
      BY <1>1 DEF BudgetInv, SlotBudget
    <3>3. "waiting_subworkflow" \notin Claimable
      BY DEF Claimable
    <3> QED BY <1>1, <3>1, <3>2, <3>3, SaveBudget
  <2> QED BY <2>1, <2>2, <2>3 DEF SpawnPart, SpawnFails, ForeachDone
<1> QED BY <1>2, <1>3, <1>4 DEF BudgetInv

LEMMA ResumePartBudget ==
    ASSUME BaseInv, SpawnBudgetInv, NEW t \in Tasks, ResumePart(t)
    PROVE  BudgetInv' /\ ResumeBudget'
<1> DEFINE p == Parent(t)
           c == resumer[t].copy
<1>1. /\ task' = task /\ resumer[t].pc # "idle" /\ TypeOK /\ BudgetInv
      /\ p \in Runs /\ runs[p] \in Row /\ c \in Copy
      /\ \A u \in Tasks : u # t => resumer'[u] = resumer[u]
  BY ResumeFrame, ParentFacts DEF BaseInv, TypeInv, TypeOK, SpawnBudgetInv
<1>2. ResumeBudget'
  <2>1. ASSUME resumer'[t].pc = "store"
        PROVE  /\ resumer'[t].child = resumer[t].child
               /\ <<p, resumer'[t].copy.cursor>> \in Calls
               /\ p \in LinearRuns => Within(p, resumer'[t].copy)
    <3>1. /\ resumer'[t].child = resumer[t].child
          /\ runs[p].status = "waiting_subworkflow" /\ resumer'[t].copy = ReadRun(runs[p])
      BY <2>1, ResumeFrame
    <3>2. /\ resumer'[t].copy.cursor = runs[p].cursor
          /\ resumer'[t].copy.attempt = runs[p].attempt
      BY <3>1 DEF ReadRun
    <3>3. <<p, runs[p].cursor>> \in Calls
      BY <1>1, <3>1 DEF SpawnBudgetInv, WaitsAtCall
    <3>4. p \in LinearRuns => Within(p, runs[p])
      BY <1>1 DEF BudgetInv, RowBudget
    <3> QED BY <3>1, <3>2, <3>3, <3>4 DEF Within
  <2> QED BY <1>1, <2>1 DEF SpawnBudgetInv, ResumeBudget, Parent
<1>3. \A r \in Runs : RowBudget(r, runs'[r])
  <2>1. CASE runs' = runs
    BY <1>1, <2>1 DEF BudgetInv
  <2>2. CASE ResumeParent(t)
    <3>1. /\ runs'[p].status = "queued" /\ runs'[p].cursor = c.cursor + 1
          /\ runs'[p].attempt = c.attempt
          /\ \A r \in Runs : r # p => runs'[r] = runs[r]
      BY <2>2, ResumeEffect
    <3>2. /\ <<p, c.cursor>> \in Calls
          /\ p \in LinearRuns => Within(p, c)
      BY <2>2 DEF ResumeParent, SpawnBudgetInv, ResumeBudget
    <3>3. c.cursor < Len(Plan[p]) /\ Plan[p][c.cursor + 1] = "subworkflow" /\ c.cursor \in Nat
      BY <1>1, <3>2, StepMember, PlanAssumption DEF Calls, Copy
    <3>4. /\ PauseCount(p, c.cursor + 1) = PauseCount(p, c.cursor) + 1
          /\ PauseCount(p, c.cursor) \in Nat
      BY <1>1, <3>3, PauseCountPause, PausesFinite
    <3>5. c.attempt \in Nat
      BY <1>1 DEF Copy
    <3>6. RowBudget(p, runs'[p])
      BY <3>1, <3>2, <3>4, <3>5, MaxAttemptsAssumption DEF RowBudget, Within, ToSpare
    <3> QED BY <1>1, <3>1, <3>6 DEF BudgetInv
  <2> QED BY <2>1, <2>2, ResumeFrame
<1> QED BY <1>1, <1>2, <1>3 DEF BudgetInv

(* engine.rs:8-9, 213-217, 398-450: the retry budget also holds of runs    *)
(* that call: no resume of a parent, however late or repeated, gives it an *)
(* attempt that the pause it passes does not pay for.                      *)
THEOREM SpawnBudget == SpawnSpec => []AttemptsBounded
<1>1. SpawnInit => SpawnBudgetInv
  <2> SUFFICES ASSUME SpawnInit PROVE SpawnBudgetInv
    OBVIOUS
  <2>1. \A t \in Tasks : resumer[t].pc = "idle"
    BY DEF SpawnInit, IdleResumer
  <2>2. Absent.status = "absent" /\ Orphan.status = "running"
    BY DEF Absent, Orphan
  <2>3. runs \in [Runs -> {Absent, Orphan}]
    BY DEF SpawnInit, Init
  <2>4. \A r \in Runs : runs[r].status # "waiting_subworkflow"
    BY <2>2, <2>3
  <2> QED BY <2>1, <2>4, InitBudget DEF SpawnInit, SpawnBudgetInv, ResumeBudget, WaitsAtCall
<1>2. ASSUME BaseInv, SpawnBudgetInv, [SpawnNext]_spawnVars
      PROVE  BudgetInv' /\ ResumeBudget'
  <2>1. CASE Quiet /\ (resumer' = resumer \/ \E t \in Tasks : FinishRun(t))
    <3>1. \A u \in Tasks : resumer'[u].pc = "store" => resumer'[u] = resumer[u]
      BY <1>2, <2>1 DEF FinishRun, BaseInv, Resumer
    <3>2. BudgetInv'
      BY <1>2, <2>1, NextBudget DEF Quiet, BaseInv, SpawnBudgetInv
    <3> QED BY <1>2, <3>1, <3>2, ResumersKeepBudget DEF SpawnBudgetInv
  <2> QED BY <1>2, <2>1, StepKinds, SpawnPartBudget, ResumePartBudget
<1>3. BaseInv /\ SpawnBudgetInv /\ [SpawnNext]_spawnVars => SpawnBudgetInv'
  BY <1>2, WaitersStay DEF SpawnBudgetInv
<1>4. SpawnBudgetInv => AttemptsBounded
  BY DEF SpawnBudgetInv, BudgetInv, RowBudget, Within, AttemptsBounded, LinearRuns
<1> QED BY <1>1, <1>3, <1>4, BaseInvariant, PTL DEF SpawnSpec
=============================================================================
