-------------------------- MODULE RunEngineProofs ---------------------------
(* Theorems about RunEngine, for every set of runs, plans, slots and       *)
(* attempt limits.                                                         *)
EXTENDS RunEngine, TLAPS

-----------------------------------------------------------------------------
(* What the statements of db.rs do to the shape of a row.                  *)

LEMMA RowConstants == Absent \in Row /\ NewRun \in Row /\ Orphan \in Row
BY DEF Absent, NewRun, Orphan, Row, Status, Claimable, Waiting, Terminal

LEMMA ReadRunType == ASSUME NEW row \in Row PROVE ReadRun(row) \in Copy
BY DEF ReadRun, Row, Copy

LEMMA SaveProgressType ==
    ASSUME NEW row \in Row, NEW c \in Copy, NEW status \in Status, NEW due \in BOOLEAN
    PROVE  SaveProgress(row, c, status, due) \in Row
BY DEF SaveProgress, Row, Copy

LEMMA StatementTypes ==
    ASSUME NEW row \in Row
    PROVE  /\ ClaimDue(row) \in Row
           /\ ExtendLease(row) \in Row
           /\ Reap(row) \in Row
           /\ RequestCancel(row) \in Row
           /\ \A restart \in BOOLEAN : Requeue(row, restart) \in Row
<1>1. ClaimDue(row) \in Row
  <2>1. row.attempt + 1 \in Nat /\ "running" \in Status
    BY DEF Row, Status
  <2> QED BY <2>1 DEF ClaimDue, Row
<1>2. ExtendLease(row) \in Row
  BY DEF ExtendLease, Row
<1>3. Reap(row) \in Row
  BY DEF Reap, Row, Status, Claimable, Terminal
<1>4. RequestCancel(row) \in Row
  BY DEF RequestCancel, Row, Status, Terminal
<1>5. \A restart \in BOOLEAN : Requeue(row, restart) \in Row
  BY DEF Requeue, Row, Status, Claimable
<1> QED BY <1>1, <1>2, <1>3, <1>4, <1>5

(* The current step of a task that is not past the end is a step kind.     *)
LEMMA CurrentKind ==
    ASSUME NEW r \in Runs, NEW c \in Copy, ~ AtEnd(r, c)
    PROVE  c.cursor + 1 \in DOMAIN Plan[r] /\ StepKind(r, c) \in Kinds
BY PlanAssumption DEF AtEnd, StepKind, Copy

LEMMA WithOutputType ==
    ASSUME NEW c \in Copy, NEW next \in Nat
    PROVE  WithOutput(c, next) \in Copy
BY DEF WithOutput, Copy

LEMMA IdleType == Idle \in Task
BY RowConstants, ReadRunType DEF Idle, Task, PC

-----------------------------------------------------------------------------
(* Type correctness.  A slot that is not idle holds a run.                 *)

SlotOK == \A t \in Tasks : IF At(t, "idle") THEN task[t] = Idle ELSE task[t].run \in Runs

TypeInv == TypeOK /\ SlotOK

LEMMA InitType == Init => TypeInv
<1> SUFFICES ASSUME Init PROVE TypeInv
  OBVIOUS
<1>1. runs \in [Runs -> Row]
  BY RowConstants DEF Init
<1>2. run_steps \in [Runs -> SUBSET Nat] /\ approvals \in Seq(Approval)
  BY DEF Init
<1>3. task \in [Tasks -> Task]
  BY IdleType DEF Init
<1>4. SlotOK
  BY DEF Init, SlotOK, At, Idle
<1> QED BY <1>1, <1>2, <1>3, <1>4 DEF TypeInv, TypeOK

(* A save by a task that holds a run keeps the table well typed.           *)
LEMMA SaveType ==
    ASSUME TypeOK, NEW t \in Tasks, task[t].run \in Runs, NEW c \in Copy,
           NEW status \in Status, NEW due \in BOOLEAN, Save(t, c, status, due)
    PROVE  runs' \in [Runs -> Row]
<1>1. SaveProgress(runs[task[t].run], c, status, due) \in Row
  BY SaveProgressType DEF TypeOK
<1> QED BY <1>1 DEF Save, TypeOK

LEMMA LogType ==
    ASSUME TypeOK, NEW t \in Tasks, task[t].run \in Runs, LogSuccess(t)
    PROVE  run_steps' \in [Runs -> SUBSET Nat]
<1>1. task[t].copy.cursor \in Nat
  BY DEF TypeOK, Task, Copy
<1> QED BY <1>1 DEF LogSuccess, TypeOK

LEMMA LeaveType ==
    ASSUME TypeInv, NEW t \in Tasks, Leave(t)
    PROVE  task' \in [Tasks -> Task] /\ SlotOK'
<1>1. task' \in [Tasks -> Task]
  BY IdleType DEF Leave, TypeInv, TypeOK
<1>2. SlotOK'
  BY DEF Leave, TypeInv, TypeOK, SlotOK, At, Idle
<1> QED BY <1>1, <1>2

LEMMA GotoType ==
    ASSUME TypeInv, NEW t \in Tasks, NEW p \in PC, p # "idle", task[t].run \in Runs,
           Goto(t, p)
    PROVE  task' \in [Tasks -> Task] /\ SlotOK'
<1>1. task' \in [Tasks -> Task]
  BY DEF Goto, TypeInv, TypeOK, Task
<1>2. SlotOK'
  BY DEF Goto, TypeInv, TypeOK, SlotOK, At, Task, Idle
<1> QED BY <1>1, <1>2

(* An in-flight task: where it is, and that it has a run and a typed copy. *)
LEMMA InFlight ==
    ASSUME TypeInv, NEW t \in Tasks, ~ At(t, "idle")
    PROVE  /\ task[t].run \in Runs
           /\ task[t].copy \in Copy
           /\ task[t].copy.cursor \in Nat
           /\ runs[task[t].run] \in Row
BY DEF TypeInv, TypeOK, SlotOK, Task, Copy

LEMMA EngineStepType ==
    ASSUME TypeInv, NEW t \in Tasks, EngineStep(t)
    PROVE  TypeInv'
<1>0. ~ At(t, "idle")
  BY DEF EngineStep, Finish, Stop, RequestApproval, Park, BeginDelay, Sleep, RenewLease,
         ExecuteStep, Advance, Fail, BeginStep, AtStep, At
<1> DEFINE r == task[t].run
           c == task[t].copy
<1>1. r \in Runs /\ c \in Copy /\ c.cursor \in Nat /\ runs[r] \in Row
  BY <1>0, InFlight
<1>2. TypeOK /\ SlotOK
  BY DEF TypeInv
<1>3. {"succeeded", "canceled", "waiting_approval", "sleeping", "running",
       "retrying", "dead_letter"} \subseteq Status
  BY DEF Status, Claimable, Waiting, Terminal
<1>4. CASE Finish(t)
  <2>1. runs' \in [Runs -> Row]
    BY <1>1, <1>2, <1>3, <1>4, SaveType DEF Finish
  <2> QED BY <1>2, <1>4, <2>1, LeaveType DEF Finish, TypeInv, TypeOK
<1>5. CASE Stop(t)
  <2>1. runs' \in [Runs -> Row]
    BY <1>1, <1>2, <1>3, <1>5, SaveType DEF Stop
  <2> QED BY <1>2, <1>5, <2>1, LeaveType DEF Stop, TypeInv, TypeOK
<1>6. CASE RequestApproval(t)
  <2>1. approvals' \in Seq(Approval)
    BY <1>1, <1>2, <1>6 DEF RequestApproval, TypeOK, Approval
  <2>2. task' \in [Tasks -> Task] /\ SlotOK'
    BY <1>1, <1>6, GotoType DEF RequestApproval, PC
  <2> QED BY <1>2, <1>6, <2>1, <2>2 DEF RequestApproval, TypeInv, TypeOK
<1>7. CASE Park(t)
  <2>1. runs' \in [Runs -> Row]
    BY <1>1, <1>2, <1>3, <1>7, SaveType DEF Park
  <2> QED BY <1>2, <1>7, <2>1, LeaveType DEF Park, TypeInv, TypeOK
<1>8. CASE BeginDelay(t)
  <2>1. WithOutput(c, c.cursor + 1) \in Copy
    BY <1>1, WithOutputType
  <2>2. run_steps' \in [Runs -> SUBSET Nat]
    BY <1>1, <1>2, <1>8, LogType DEF BeginDelay
  <2>3. task' \in [Tasks -> Task] /\ SlotOK'
    BY <1>1, <1>2, <1>8, <2>1 DEF BeginDelay, TypeOK, Task, SlotOK, At, PC, Idle
  <2> QED BY <1>2, <1>8, <2>2, <2>3 DEF BeginDelay, TypeInv, TypeOK
<1>9. CASE Sleep(t)
  <2>1. runs' \in [Runs -> Row]
    BY <1>1, <1>2, <1>3, <1>9, SaveType DEF Sleep
  <2> QED BY <1>2, <1>9, <2>1, LeaveType DEF Sleep, TypeInv, TypeOK
<1>10. CASE RenewLease(t)
  <2>1. runs' \in [Runs -> Row]
    BY <1>1, <1>2, <1>10, StatementTypes DEF RenewLease, TypeOK
  <2>2. CancelSeen(runs[r]) \in BOOLEAN
    BY <1>1 DEF CancelSeen, Row
  <2> DEFINE copy == [c EXCEPT !.cancel_requested = CancelSeen(runs[r])]
             slow == Current(t) \in SlowKinds \/ runs[r].status # "running"
             pc   == IF CancelSeen(runs[r]) THEN "stop" ELSE "execute"
             new  == [task[t] EXCEPT !.pc = pc, !.copy = copy, !.slow = slow]
  <2>3. copy \in Copy /\ slow \in BOOLEAN /\ pc \in PC \ {"idle"}
    BY <1>1, <2>2 DEF Copy, PC
  <2>4. task' = [task EXCEPT ![t] = new]
    BY <1>2, <1>10 DEF RenewLease, TypeOK, Task, Copy
  <2> HIDE DEF copy, slow, pc
  <2>5. new \in Task /\ new.run = r /\ new.pc # "idle"
    BY <1>2, <2>3 DEF TypeOK, Task
  <2> HIDE DEF new
  <2>6. task' \in [Tasks -> Task] /\ SlotOK'
    BY <1>1, <1>2, <2>4, <2>5 DEF TypeOK, SlotOK, At
  <2> QED BY <1>2, <1>10, <2>1, <2>6 DEF RenewLease, TypeInv, TypeOK
<1>11. CASE ExecuteStep(t)
  <2>1. run_steps' \in [Runs -> SUBSET Nat]
    BY <1>1, <1>2, <1>11, LogType DEF ExecuteStep, TypeOK
  <2>2. Goto(t, "advance") \/ Goto(t, "fail")
    BY <1>11 DEF ExecuteStep
  <2>3. task' \in [Tasks -> Task] /\ SlotOK'
    BY <1>1, <2>2, GotoType DEF PC
  <2> QED BY <1>2, <1>11, <2>1, <2>3 DEF ExecuteStep, TypeInv, TypeOK
<1>12. CASE Advance(t)
  <2>1. PICK next \in NextIndex(r, c) :
           /\ Save(t, WithOutput(c, next), "running", TRUE)
           /\ task' = [task EXCEPT ![t].pc = "boundary", ![t].copy = WithOutput(c, next)]
    BY <1>12 DEF Advance
  <2>2. next \in Nat
    BY <1>1, PlanAssumption DEF NextIndex
  <2>3. WithOutput(c, next) \in Copy
    BY <1>1, <2>2, WithOutputType
  <2>4. runs' \in [Runs -> Row]
    BY <1>1, <1>2, <1>3, <2>1, <2>3, SaveType
  <2>5. task' \in [Tasks -> Task] /\ SlotOK'
    BY <1>1, <1>2, <2>1, <2>3 DEF TypeOK, Task, SlotOK, At, PC, Idle
  <2> QED BY <1>2, <1>12, <2>4, <2>5 DEF Advance, TypeInv, TypeOK
<1>13. CASE Fail(t)
  <2>1. runs' \in [Runs -> Row]
    BY <1>1, <1>2, <1>3, <1>13, SaveType DEF Fail
  <2> QED BY <1>2, <1>13, <2>1, LeaveType DEF Fail, TypeInv, TypeOK
<1> QED
  BY <1>4, <1>5, <1>6, <1>7, <1>8, <1>9, <1>10, <1>11, <1>12, <1>13 DEF EngineStep

LEMMA EnvironmentType == ASSUME TypeInv, Environment PROVE TypeInv'
<1>1. runs' \in [Runs -> Row]
  <2>1. CASE ReapStale
    BY <2>1, StatementTypes DEF ReapStale, TypeInv, TypeOK
  <2>2. ASSUME NEW r \in Runs, Enqueue(r) PROVE runs' \in [Runs -> Row]
    BY <2>2, RowConstants DEF Enqueue, TypeInv, TypeOK
  <2>3. ASSUME NEW r \in Runs, Cancel(r) PROVE runs' \in [Runs -> Row]
    BY <2>3, StatementTypes DEF Cancel, TypeInv, TypeOK
  <2>4. ASSUME NEW r \in Runs, Retry(r) PROVE runs' \in [Runs -> Row]
    <3>1. PICK restart \in BOOLEAN : runs' = [runs EXCEPT ![r] = Requeue(runs[r], restart)]
      BY <2>4 DEF Retry
    <3>2. Requeue(runs[r], restart) \in Row
      BY StatementTypes DEF TypeInv, TypeOK
    <3> QED BY <3>1, <3>2 DEF TypeInv, TypeOK
  <2>5. ASSUME NEW r \in Runs, LeaseLapses(r) PROVE runs' \in [Runs -> Row]
    <3>1. [runs[r] EXCEPT !.lease_until = "past"] \in Row
      BY DEF TypeInv, TypeOK, Row
    <3> QED BY <2>5, <3>1 DEF LeaseLapses, TypeInv, TypeOK
  <2>6. ASSUME NEW r \in Runs, BecomesDue(r) PROVE runs' \in [Runs -> Row]
    <3>1. [runs[r] EXCEPT !.due = TRUE] \in Row
      BY DEF TypeInv, TypeOK, Row
    <3> QED BY <2>6, <3>1 DEF BecomesDue, TypeInv, TypeOK
  <2> QED BY <2>1, <2>2, <2>3, <2>4, <2>5, <2>6 DEF Environment
<1>2. UNCHANGED <<run_steps, approvals, task>>
  BY DEF Environment, ReapStale, Enqueue, Cancel, Retry, LeaseLapses, BecomesDue
<1> QED BY <1>1, <1>2 DEF TypeInv, TypeOK, SlotOK, At

LEMMA ClaimType ==
    ASSUME TypeInv, NEW t \in Tasks, NEW r \in Runs, Claim(t, r)
    PROVE  TypeInv'
<1>1. ClaimDue(runs[r]) \in Row /\ ReadRun(ClaimDue(runs[r])) \in Copy
  BY StatementTypes, ReadRunType DEF TypeInv, TypeOK
<1>2. runs' \in [Runs -> Row] /\ task' \in [Tasks -> Task]
  BY <1>1 DEF Claim, TypeInv, TypeOK, Task, PC
<1>3. SlotOK'
  BY DEF Claim, TypeInv, TypeOK, SlotOK, At, Task, Idle
<1> QED BY <1>2, <1>3 DEF Claim, TypeInv, TypeOK

LEMMA NextType == TypeInv /\ [Next]_vars => TypeInv'
<1> SUFFICES ASSUME TypeInv, [Next]_vars PROVE TypeInv'
  OBVIOUS
<1>1. CASE Environment
  BY <1>1, EnvironmentType
<1>2. ASSUME NEW t \in Tasks, EngineStep(t) PROVE TypeInv'
  BY <1>2, EngineStepType
<1>3. ASSUME NEW t \in Tasks, Die(t) PROVE TypeInv'
  BY <1>3, LeaveType DEF Die, TypeInv, TypeOK
<1>4. ASSUME NEW t \in Tasks, NEW r \in Runs, Claim(t, r) PROVE TypeInv'
  BY <1>4, ClaimType
<1>5. CASE UNCHANGED vars
  BY <1>5 DEF vars, TypeInv, TypeOK, SlotOK, At
<1> QED BY <1>1, <1>2, <1>3, <1>4, <1>5 DEF Next

LEMMA TypeInvariant == Spec => []TypeInv
<1> QED BY InitType, NextType, PTL DEF Spec

(* Every reachable row, log, approval and slot has the shape of its table  *)
(* or type (db.rs run_from_row, engine.rs execute_claimed).                *)
THEOREM TypeCorrect == Spec => []TypeOK
<1>1. TypeInv => TypeOK
  BY DEF TypeInv
<1> QED BY <1>1, TypeInvariant, PTL

-----------------------------------------------------------------------------
(* Mutual exclusion.  It is not inductive by itself: what keeps a second   *)
(* slot away from a run is that its row stays running with a lease in the  *)
(* future for as long as a slot executes it, and the lease cannot lapse    *)
(* under a slot that renews in time.  Another run's slots do not write to  *)
(* that row, so the argument is about any set S of runs whose own steps are*)
(* short, beside runs whose steps are not; but they may keep the slot from *)
(* its thread, so it holds while no slot is starved of one.                *)

LEMMA AlwaysUnstarved == UnstarvedSpec => Spec /\ []Unstarved
<1>1. Init => Unstarved
  BY DEF Init, Unstarved, Starved, At, Idle
<1>2. Unstarved /\ [Next /\ Unstarved']_vars => Unstarved'
  BY DEF vars, Unstarved, Starved, ThreadFree, Blocked, At, Current
<1>3. [Next /\ Unstarved']_vars => [Next]_vars
  OBVIOUS
<1> QED BY <1>1, <1>2, <1>3, PTL DEF UnstarvedSpec, Spec

Held(t) ==
    ~ At(t, "idle") => /\ runs[task[t].run].status = "running"
                       /\ runs[task[t].run].lease_until = "future"
                       /\ ~ task[t].slow

ExclusiveIn(S) ==
    \A t \in Tasks : task[t].run \in S =>
        Held(t) /\ \A u \in Tasks : task[u].run = task[t].run => u = t

BoundedIn(S) == \A r \in S : \A i \in DOMAIN Plan[r] : Plan[r][i] \notin SlowKinds

ExclusiveInv == ExclusiveIn(ShortRuns)

LEMMA ShortOnes == ShortRuns \in SUBSET Runs /\ BoundedIn(ShortRuns)
BY DEF ShortRuns, BoundedIn

LEMMA InitExclusive == ASSUME NEW S \in SUBSET Runs PROVE Init => ExclusiveIn(S)
BY NoRunAssumption DEF Init, ExclusiveIn, Idle

(* One slot's own steps.  It touches its run's row only, and either leaves *)
(* or goes on holding a renewed lease.                                     *)
LEMMA HolderStep ==
    ASSUME NEW S \in SUBSET Runs, TypeInv, ExclusiveIn(S), NEW t \in Tasks, ~ At(t, "idle"),
           \A s \in Runs : s # task[t].run => runs'[s] = runs[s],
           \A u \in Tasks : u # t => task'[u] = task[u],
           \/ task'[t] = Idle
           \/ /\ task'[t].run = task[t].run
              /\ task[t].run \in S =>
                    /\ task'[t].pc # "idle"
                    /\ ~ task'[t].slow
                    /\ runs'[task[t].run].status = "running"
                    /\ runs'[task[t].run].lease_until = "future"
    PROVE  ExclusiveIn(S)'
<1> SUFFICES ASSUME NEW u \in Tasks, task'[u].run \in S
             PROVE  Held(u)' /\ \A v \in Tasks : task'[v].run = task'[u].run => v = u
  BY DEF ExclusiveIn
<1>1. task[t].run \in Runs /\ task'[u].run # NoRun
  BY InFlight, NoRunAssumption
<1>2. task[u].run = task'[u].run /\ (u = t => task'[t].run = task[t].run)
  BY <1>1 DEF Idle
<1>3. Held(u) /\ \A v \in Tasks : task[v].run = task[u].run => v = u
  BY <1>2 DEF ExclusiveIn
<1>4. \A v \in Tasks : task'[v].run = task'[u].run => v = u
  BY <1>1, <1>2, <1>3 DEF Idle
<1>5. CASE u = t
  BY <1>1, <1>2, <1>4, <1>5 DEF Held, At, Idle
<1>6. CASE u # t
  <2>1. task[u].run \in Runs /\ task[u].run # task[t].run
    BY <1>2, <1>3, <1>6
  <2> QED BY <1>3, <1>4, <1>6, <2>1 DEF Held, At
<1> QED BY <1>4, <1>5, <1>6

(* What a save leaves of the row it writes.                                *)
LEMMA SaveEffect ==
    ASSUME TypeOK, NEW t \in Tasks, task[t].run \in Runs,
           NEW c, NEW status, NEW due, Save(t, c, status, due)
    PROVE  /\ \A s \in Runs : s # task[t].run => runs'[s] = runs[s]
           /\ runs'[task[t].run].status = status
           /\ runs'[task[t].run].lease_until = runs[task[t].run].lease_until
BY DEF Save, SaveProgress, TypeOK, Row

LEMMA LeaveEffect ==
    ASSUME TypeOK, NEW t \in Tasks, Leave(t)
    PROVE  task'[t] = Idle /\ \A u \in Tasks : u # t => task'[u] = task[u]
BY DEF Leave, TypeOK

LEMMA EngineStepExclusive ==
    ASSUME NEW S \in SUBSET Runs, BoundedIn(S), TypeInv, ExclusiveIn(S),
           NEW t \in Tasks, EngineStep(t)
    PROVE  ExclusiveIn(S)'
<1>0. ~ At(t, "idle")
  BY DEF EngineStep, Finish, Stop, RequestApproval, Park, BeginDelay, Sleep, RenewLease,
         ExecuteStep, Advance, Fail, BeginStep, AtStep, At
<1> DEFINE r == task[t].run
           c == task[t].copy
<1>1. r \in Runs /\ c \in Copy /\ runs[r] \in Row /\ TypeOK /\ task[t] \in Task
  BY <1>0, InFlight DEF TypeInv, TypeOK
<1>2. r \in S =>
         runs[r].status = "running" /\ runs[r].lease_until = "future" /\ ~ task[t].slow
  BY <1>0 DEF ExclusiveIn, Held
<1>3. CASE Finish(t)
  BY <1>0, <1>1, <1>3, SaveEffect, LeaveEffect, HolderStep DEF Finish
<1>4. CASE Stop(t)
  BY <1>0, <1>1, <1>4, SaveEffect, LeaveEffect, HolderStep DEF Stop
<1>5. CASE RequestApproval(t)
  BY <1>0, <1>1, <1>2, <1>5, HolderStep DEF RequestApproval, Goto, TypeOK, Task
<1>6. CASE Park(t)
  BY <1>0, <1>1, <1>6, SaveEffect, LeaveEffect, HolderStep DEF Park
<1>7. CASE BeginDelay(t)
  BY <1>0, <1>1, <1>2, <1>7, HolderStep DEF BeginDelay, TypeOK, Task
<1>8. CASE Sleep(t)
  BY <1>0, <1>1, <1>8, SaveEffect, LeaveEffect, HolderStep DEF Sleep
<1>9. CASE RenewLease(t)
  <2>1. r \in S => Current(t) \notin SlowKinds
    BY <1>1, <1>9, CurrentKind DEF RenewLease, BeginStep, AtStep, Current, StepKind, BoundedIn
  <2>2. /\ \A s \in Runs : s # r => runs'[s] = runs[s]
        /\ r \in S => runs'[r].status = "running" /\ runs'[r].lease_until = "future"
    BY <1>1, <1>2, <1>9 DEF RenewLease, ExtendLease, TypeOK, Row
  <2>3. \A u \in Tasks : u # t => task'[u] = task[u]
    BY <1>1, <1>9 DEF RenewLease, TypeOK
  <2>4. task'[t].run = r /\ task'[t].pc # "idle" /\ (r \in S => ~ task'[t].slow)
    BY <1>1, <1>2, <1>9, <2>1 DEF RenewLease, TypeOK, Task
  <2> QED BY <1>0, <2>2, <2>3, <2>4, HolderStep
<1>10. CASE ExecuteStep(t)
  BY <1>0, <1>1, <1>2, <1>10, HolderStep DEF ExecuteStep, Goto, TypeOK, Task
<1>11. CASE Advance(t)
  <2>1. PICK next \in NextIndex(r, c) :
           /\ Save(t, WithOutput(c, next), "running", TRUE)
           /\ task' = [task EXCEPT ![t].pc = "boundary", ![t].copy = WithOutput(c, next)]
    BY <1>11 DEF Advance
  <2>2. /\ \A s \in Runs : s # r => runs'[s] = runs[s]
        /\ r \in S => runs'[r].status = "running" /\ runs'[r].lease_until = "future"
    BY <1>1, <1>2, <2>1, SaveEffect
  <2>3. /\ \A u \in Tasks : u # t => task'[u] = task[u]
        /\ task'[t].run = r /\ task'[t].pc # "idle" /\ (r \in S => ~ task'[t].slow)
    BY <1>1, <1>2, <2>1 DEF TypeOK, Task
  <2> QED BY <1>0, <2>2, <2>3, HolderStep
<1>12. CASE Fail(t)
  <2>1. \E status, due : Save(t, c, status, due)
    BY <1>12 DEF Fail
  <2> QED BY <1>0, <1>1, <1>12, <2>1, SaveEffect, LeaveEffect, HolderStep DEF Fail
<1> QED
  BY <1>3, <1>4, <1>5, <1>6, <1>7, <1>8, <1>9, <1>10, <1>11, <1>12 DEF EngineStep

(* The environment never takes a running, leased row away from its holder. *)
LEMMA EnvironmentExclusive ==
    ASSUME NEW S \in SUBSET Runs, TypeInv, ExclusiveIn(S), Unstarved, Environment
    PROVE  ExclusiveIn(S)'
<1>1. task' = task
  BY DEF Environment, ReapStale, Enqueue, Cancel, Retry, LeaseLapses, BecomesDue
<1>2. ASSUME NEW t \in Tasks, task[t].run \in S
      PROVE  /\ runs'[task[t].run].status = "running"
             /\ runs'[task[t].run].lease_until = "future"
  <2> DEFINE s == task[t].run
  <2>1. s \in Runs /\ runs[s] \in Row /\ runs \in [Runs -> Row]
    BY <1>2 DEF TypeInv, TypeOK
  <2>2. runs[s].status = "running" /\ runs[s].lease_until = "future" /\ ~ task[t].slow
    BY <1>2, NoRunAssumption DEF ExclusiveIn, Held, TypeInv, SlotOK, Idle
  <2>3. CASE ReapStale
    BY <2>1, <2>2, <2>3 DEF ReapStale, IsStale
  <2>4. ASSUME NEW r \in Runs, Enqueue(r) PROVE runs'[s] = runs[s]
    BY <2>1, <2>2, <2>4 DEF Enqueue
  <2>5. ASSUME NEW r \in Runs, Cancel(r)
        PROVE  runs'[s].status = "running" /\ runs'[s].lease_until = "future"
    BY <2>1, <2>2, <2>5 DEF Cancel, RequestCancel, Row
  <2>6. ASSUME NEW r \in Runs, Retry(r) PROVE runs'[s] = runs[s]
    BY <2>1, <2>2, <2>6 DEF Retry, CanRequeue
  <2>7. ASSUME NEW r \in Runs, LeaseLapses(r) PROVE runs'[s] = runs[s]
    BY <2>1, <2>2, <2>7 DEF LeaseLapses, Unstarved
  <2>8. ASSUME NEW r \in Runs, BecomesDue(r)
        PROVE  runs'[s].status = "running" /\ runs'[s].lease_until = "future"
    BY <2>1, <2>2, <2>8 DEF BecomesDue, Row
  <2> QED BY <2>2, <2>3, <2>4, <2>5, <2>6, <2>7, <2>8 DEF Environment
<1> QED BY <1>1, <1>2 DEF ExclusiveIn, Held, At

(* Only a claimable row is claimed, and nobody executes one.               *)
LEMMA ClaimExclusive ==
    ASSUME NEW S \in SUBSET Runs, TypeInv, ExclusiveIn(S),
           NEW t \in Tasks, NEW r \in Runs, Claim(t, r)
    PROVE  ExclusiveIn(S)'
<1>1. runs[r].status # "running" /\ runs[r] \in Row
  BY DEF Claim, CanClaim, Claimable, TypeInv, TypeOK
<1>2. r \in S => \A u \in Tasks : task[u].run # r
  BY <1>1, NoRunAssumption DEF ExclusiveIn, Held, TypeInv, SlotOK, Idle
<1>3. /\ \A u \in Tasks : u # t => task'[u] = task[u]
      /\ task[t].run = NoRun /\ task'[t].run = r /\ ~ task'[t].slow
  BY DEF Claim, TypeInv, TypeOK, SlotOK, Idle
<1>4. /\ \A s \in Runs : s # r => runs'[s] = runs[s]
      /\ runs'[r].status = "running" /\ runs'[r].lease_until = "future"
  BY <1>1 DEF Claim, ClaimDue, TypeInv, TypeOK, Row
<1> SUFFICES ASSUME NEW u \in Tasks, task'[u].run \in S
             PROVE  Held(u)' /\ \A v \in Tasks : task'[v].run = task'[u].run => v = u
  BY DEF ExclusiveIn
<1>5. CASE u = t
  BY <1>2, <1>3, <1>4, <1>5 DEF Held
<1>6. CASE u # t
  BY <1>2, <1>3, <1>4, <1>6 DEF ExclusiveIn, Held, At
<1> QED BY <1>5, <1>6

LEMMA NextExclusiveIn ==
    ASSUME NEW S \in SUBSET Runs, BoundedIn(S), TypeInv, ExclusiveIn(S), Unstarved,
           [Next]_vars
    PROVE  ExclusiveIn(S)'
<1>1. CASE Environment
  BY <1>1, EnvironmentExclusive
<1>2. ASSUME NEW t \in Tasks, EngineStep(t) PROVE ExclusiveIn(S)'
  BY <1>2, EngineStepExclusive
<1>3. ASSUME NEW t \in Tasks, Die(t) PROVE ExclusiveIn(S)'
  BY <1>3, LeaveEffect, HolderStep DEF Die, TypeInv
<1>4. ASSUME NEW t \in Tasks, NEW r \in Runs, Claim(t, r) PROVE ExclusiveIn(S)'
  BY <1>4, ClaimExclusive
<1>5. CASE UNCHANGED vars
  BY <1>5 DEF vars, ExclusiveIn, Held, At
<1> QED BY <1>1, <1>2, <1>3, <1>4, <1>5 DEF Next

LEMMA ExclusiveInvariant == UnstarvedSpec => []ExclusiveInv
<1>1. TypeInv /\ ExclusiveInv /\ Unstarved /\ [Next]_vars => ExclusiveInv'
  BY ShortOnes, NextExclusiveIn DEF ExclusiveInv
<1>2. Init => ExclusiveInv
  BY ShortOnes, InitExclusive DEF ExclusiveInv
<1> QED BY <1>1, <1>2, AlwaysUnstarved, TypeInvariant, PTL DEF Spec

(* A slot of a short run holds it alone, in a running, leased row.         *)
LEMMA ShortHeld ==
    ASSUME TypeInv, ExclusiveInv, NEW t \in Tasks, task[t].run \in ShortRuns
    PROVE  /\ ~ At(t, "idle") /\ ~ task[t].slow
           /\ runs[task[t].run].status = "running"
           /\ runs[task[t].run].lease_until = "future"
           /\ \A u \in Tasks : task[u].run = task[t].run => u = t
<1>1. ~ At(t, "idle")
  BY ShortOnes, NoRunAssumption DEF TypeInv, SlotOK, Idle
<1> QED BY <1>1 DEF ExclusiveInv, ExclusiveIn, Held

(* worker.rs:9-10: a run whose own steps do not outlast the lease is       *)
(* executed by at most one live worker at a time, whatever other runs do   *)
(* but hold all the threads of its replica.                                *)
THEOREM MutualExclusion == UnstarvedSpec => []OneExecutorIfShort
<1>1. ExclusiveInv => OneExecutorIfShort
  BY DEF ExclusiveInv, ExclusiveIn, OneExecutorIfShort, OneExecutorIn, Executing
<1> QED BY <1>1, ExclusiveInvariant, PTL

-----------------------------------------------------------------------------
(* Terminal rows and NULL leases: both follow from the same invariant, for *)
(* a slot only ever writes a short run's row while it is running, and      *)
(* leaves it under a lease.                                                *)

LEMMA EngineStepRow ==
    ASSUME TypeInv, ExclusiveInv, NEW t \in Tasks, EngineStep(t), NEW r \in ShortRuns
    PROVE  \/ runs'[r] = runs[r]
           \/ runs[r].status = "running" /\ runs'[r].lease_until = "future"
<1>0. ~ At(t, "idle")
  BY DEF EngineStep, Finish, Stop, RequestApproval, Park, BeginDelay, Sleep, RenewLease,
         ExecuteStep, Advance, Fail, BeginStep, AtStep, At
<1>1. /\ r \in Runs /\ task[t].run \in Runs /\ runs[task[t].run] \in Row /\ TypeOK
      /\ runs \in [Runs -> Row]
  BY <1>0, ShortOnes, InFlight DEF TypeInv, TypeOK
<1>2. r = task[t].run => runs[r].status = "running" /\ runs[r].lease_until = "future"
  BY ShortHeld
<1>3. CASE runs' = runs
  BY <1>3
<1>4. CASE \E c, status, due : Save(t, c, status, due)
  BY <1>1, <1>2, <1>4, SaveEffect
<1>5. CASE RenewLease(t)
  BY <1>1, <1>2, <1>5 DEF RenewLease, ExtendLease, Row
<1>6. runs' = runs \/ (\E c, status, due : Save(t, c, status, due)) \/ RenewLease(t)
  BY DEF EngineStep, Finish, Stop, RequestApproval, Park, BeginDelay, Sleep,
         ExecuteStep, Advance, Fail
<1> QED BY <1>3, <1>4, <1>5, <1>6

(* model.rs:56: the terminal row of a run whose steps are short changes    *)
(* only by an operator's retry (its timer may still run out).              *)
THEOREM TerminalStates == UnstarvedSpec => TerminalIsFinal
<1> DEFINE Final(r) ==
        \/ runs'[r] = runs[r]
        \/ runs'[r] = [runs[r] EXCEPT !.due = TRUE]
        \/ CanRequeue(runs[r]) /\ \E restart \in BOOLEAN :
                                      runs'[r] = Requeue(runs[r], restart)
<1>1. TypeInv /\ ExclusiveInv /\ [Next]_vars
        => (\A r \in ShortRuns : runs[r].status \in Terminal => Final(r))
  <2> SUFFICES ASSUME TypeInv, ExclusiveInv, [Next]_vars,
                      NEW r \in ShortRuns, runs[r].status \in Terminal
               PROVE  Final(r)
    OBVIOUS
  <2>0. /\ r \in Runs /\ runs \in [Runs -> Row]
        /\ runs[r].status # "running" /\ runs[r].status # "absent"
    BY ShortOnes DEF Terminal, TypeInv, TypeOK
  <2>1. ASSUME NEW t \in Tasks, EngineStep(t) PROVE Final(r)
    BY <2>0, <2>1, EngineStepRow
  <2>2. ASSUME NEW t \in Tasks, Die(t) PROVE Final(r)
    BY <2>2 DEF Die
  <2>3. ASSUME NEW t \in Tasks, NEW s \in Runs, Claim(t, s) PROVE Final(r)
    BY <2>0, <2>3 DEF Claim, CanClaim, Claimable, Terminal
  <2>4. CASE ReapStale
    BY <2>0, <2>4 DEF ReapStale, IsStale
  <2>5. ASSUME NEW s \in Runs, Enqueue(s) \/ LeaseLapses(s) PROVE Final(r)
    BY <2>0, <2>5 DEF Enqueue, LeaseLapses
  <2>6. ASSUME NEW s \in Runs, Cancel(s) PROVE Final(r)
    BY <2>0, <2>6 DEF Cancel, CanCancel, Claimable, Waiting, Terminal
  <2>7. ASSUME NEW s \in Runs, Retry(s) PROVE Final(r)
    BY <2>0, <2>7 DEF Retry
  <2>8. ASSUME NEW s \in Runs, BecomesDue(s) PROVE Final(r)
    BY <2>0, <2>8 DEF BecomesDue
  <2>9. CASE UNCHANGED vars
    BY <2>9 DEF vars
  <2> QED BY <2>1, <2>2, <2>3, <2>4, <2>5, <2>6, <2>7, <2>8, <2>9 DEF Next, Environment
<1> QED BY <1>1, TypeInvariant, ExclusiveInvariant, AlwaysUnstarved, PTL DEF Spec, TerminalIsFinal

LEMMA NextNullLease ==
    ASSUME TypeInv, ExclusiveInv, NullLeaseOnlyLegacy, [Next]_vars
    PROVE  NullLeaseOnlyLegacy'
<1> DEFINE Legacy(row) == row.status = "running" /\ row.lease_until = "null"
              => \E flag \in BOOLEAN : row = [Orphan EXCEPT !.cancel_requested = flag]
<1> SUFFICES ASSUME NEW r \in ShortRuns PROVE Legacy(runs'[r])
  BY DEF NullLeaseOnlyLegacy
<1>0. r \in Runs /\ runs \in [Runs -> Row] /\ runs[r] \in Row /\ Legacy(runs[r])
  BY ShortOnes DEF TypeInv, TypeOK, NullLeaseOnlyLegacy
<1>1. ASSUME NEW t \in Tasks, EngineStep(t) PROVE Legacy(runs'[r])
  BY <1>0, <1>1, EngineStepRow
<1>2. CASE runs'[r] = runs[r]
  BY <1>0, <1>2
<1>3. ASSUME NEW t \in Tasks, Claim(t, r) PROVE Legacy(runs'[r])
  <2>1. ClaimDue(runs[r]).lease_until = "future"
    BY <1>0 DEF ClaimDue, Row
  <2> QED BY <1>0, <1>3, <2>1 DEF Claim
<1>4. CASE ReapStale
  <2>1. IsStale(runs[r]) => Reap(runs[r]).status # "running"
    BY <1>0 DEF Reap, Row
  <2> QED BY <1>0, <1>4, <2>1 DEF ReapStale
<1>5. CASE Enqueue(r)
  BY <1>0, <1>5 DEF Enqueue, NewRun, Absent
<1>6. CASE Cancel(r)
  <2>1. runs'[r] = RequestCancel(runs[r])
    BY <1>0, <1>6 DEF Cancel
  <2>2. CASE runs[r].status = "running" /\ runs[r].lease_until = "null"
    <3>1. PICK flag \in BOOLEAN : runs[r] = [Orphan EXCEPT !.cancel_requested = flag]
      BY <1>0, <2>2
    <3>2. RequestCancel(runs[r]) = [Orphan EXCEPT !.cancel_requested = TRUE]
      BY <3>1 DEF RequestCancel, Orphan, Absent
    <3> QED BY <2>1, <3>2
  <2>3. CASE ~ (runs[r].status = "running" /\ runs[r].lease_until = "null")
    BY <1>0, <2>1, <2>3 DEF RequestCancel, Row
  <2> QED BY <2>2, <2>3
<1>7. CASE Retry(r)
  <2>1. PICK restart \in BOOLEAN : runs' = [runs EXCEPT ![r] = Requeue(runs[r], restart)]
    BY <1>7 DEF Retry
  <2>2. Requeue(runs[r], restart).status = "queued"
    BY <1>0 DEF Requeue, Row
  <2> QED BY <1>0, <2>1, <2>2
<1>8. CASE LeaseLapses(r)
  BY <1>0, <1>8 DEF LeaseLapses, Row
<1>9. CASE BecomesDue(r)
  <2>1. runs[r].status # "running" \/ runs[r].lease_until # "null"
    BY <1>0, <1>9 DEF BecomesDue, Orphan, Absent
  <2>2. runs'[r].status = runs[r].status /\ runs'[r].lease_until = runs[r].lease_until
    BY <1>0, <1>9 DEF BecomesDue, Row
  <2> QED BY <2>1, <2>2
<1>10. ASSUME NEW s \in Runs, s # r,
              \/ Enqueue(s) \/ Cancel(s) \/ Retry(s) \/ LeaseLapses(s) \/ BecomesDue(s)
              \/ \E t \in Tasks : Claim(t, s)
       PROVE  runs'[r] = runs[r]
  BY <1>0, <1>10 DEF Enqueue, Cancel, Retry, LeaseLapses, BecomesDue, Claim
<1>11. ASSUME NEW t \in Tasks, Die(t) PROVE runs'[r] = runs[r]
  BY <1>11 DEF Die
<1>12. UNCHANGED vars => runs'[r] = runs[r]
  BY DEF vars
<1> HIDE DEF Legacy
<1> QED
  BY <1>1, <1>2, <1>3, <1>4, <1>5, <1>6, <1>7, <1>8, <1>9, <1>10, <1>11, <1>12
     DEF Next, Environment

(* db.rs:169-171: the only row of a run with short steps that is running   *)
(* without a lease is an orphan of the old engine.                         *)
THEOREM NullLeases == UnstarvedSpec => []NullLeaseOnlyLegacy
<1>1. Init => NullLeaseOnlyLegacy
  <2>1. Absent.status # "running"
    BY DEF Absent
  <2>2. Orphan.cancel_requested = FALSE
    BY DEF Absent, Orphan
  <2>3. Orphan = [Orphan EXCEPT !.cancel_requested = FALSE]
    BY <2>2, RowConstants DEF Row
  <2> QED BY <2>1, <2>3, ShortOnes DEF Init, NullLeaseOnlyLegacy
<1>2. TypeInv /\ ExclusiveInv /\ NullLeaseOnlyLegacy /\ [Next]_vars => NullLeaseOnlyLegacy'
  BY NextNullLease
<1> QED BY <1>1, <1>2, TypeInvariant, ExclusiveInvariant, AlwaysUnstarved, PTL DEF Spec

(* engine.rs:50, 112: a flagged run whose own steps are short begins no    *)
(* further step that acts.  That they are short matters: a renewal on a row*)
(* that was reaped reports no flag.                                        *)
THEOREM FlagIsSeen == UnstarvedSpec => FlagStopsExecution
<1>1. TypeInv /\ ExclusiveInv /\ [Next]_vars
        => (\A t \in Tasks : task[t].run \in ShortRuns /\ Flagged(t)
               => task'[t].pc # "execute")
  <2> SUFFICES ASSUME TypeInv, ExclusiveInv, [Next]_vars, NEW t \in Tasks, At(t, "boundary"),
                      task[t].run \in ShortRuns, runs[task[t].run].cancel_requested
               PROVE  task'[t].pc # "execute"
    BY DEF Flagged
  <2>0. task \in [Tasks -> Task] /\ TypeOK /\ task[t].pc = "boundary"
        /\ runs[task[t].run].status = "running"
    BY ShortHeld DEF TypeInv, TypeOK, At
  <2>1. ASSUME NEW u \in Tasks, RenewLease(u) PROVE task'[t].pc # "execute"
    <3>1. CASE u = t
      <4>1. CancelSeen(runs[task[t].run])
        BY <2>0 DEF CancelSeen
      <4>2. task'[t].pc = "stop"
        BY <2>0, <2>1, <3>1, <4>1 DEF RenewLease, Task
      <4> QED BY <4>2
    <3>2. CASE u # t
      BY <2>0, <2>1, <3>2 DEF RenewLease
    <3> QED BY <3>1, <3>2
  <2>2. ASSUME NEW u \in Tasks, Advance(u) PROVE task'[t].pc # "execute"
    <3>1. u # t
      BY <2>0, <2>2 DEF Advance, At
    <3>2. PICK next \in NextIndex(task[u].run, task[u].copy) :
             task' = [task EXCEPT ![u].pc = "boundary",
                                  ![u].copy = WithOutput(task[u].copy, next)]
      BY <2>2 DEF Advance
    <3> QED BY <2>0, <3>1, <3>2
  <2>3. ASSUME NEW u \in Tasks, Leave(u) PROVE task'[t].pc # "execute"
    BY <2>0, <2>3, LeaveEffect DEF Idle
  <2>4. ASSUME NEW u \in Tasks, RequestApproval(u) \/ BeginDelay(u) PROVE task'[t].pc # "execute"
    BY <2>0, <2>4 DEF RequestApproval, BeginDelay, Goto, Task
  <2>5. ASSUME NEW u \in Tasks, ExecuteStep(u) PROVE task'[t].pc # "execute"
    BY <2>0, <2>5 DEF ExecuteStep, Goto, At
  <2>6. ASSUME NEW u \in Tasks, NEW r \in Runs, Claim(u, r) PROVE task'[t].pc # "execute"
    BY <2>0, <2>6 DEF Claim
  <2>7. CASE Environment \/ UNCHANGED vars
    BY <2>0, <2>7 DEF Environment, ReapStale, Enqueue, Cancel, Retry, LeaseLapses, BecomesDue,
                      vars
  <2> QED
    BY <2>1, <2>2, <2>3, <2>4, <2>5, <2>6, <2>7
       DEF Next, EngineStep, Die, Finish, Stop, Park, Sleep, Fail
<1> QED BY <1>1, TypeInvariant, ExclusiveInvariant, AlwaysUnstarved, PTL
           DEF Spec, FlagStopsExecution

-----------------------------------------------------------------------------
(* A step in flight is a step of the plan.                                 *)

MidStepInv == \A t \in Tasks : task[t].pc \in {"execute", "advance"} =>
                 ~ AtEnd(task[t].run, task[t].copy)

LEMMA NextMidStep == TypeInv /\ MidStepInv /\ [Next]_vars => MidStepInv'
<1> SUFFICES ASSUME TypeInv, MidStepInv, [Next]_vars PROVE MidStepInv'
  OBVIOUS
<1>1. ASSUME NEW t \in Tasks, EngineStep(t) PROVE MidStepInv'
  <2>1. TypeOK /\ task[t] \in Task
    BY DEF TypeInv, TypeOK
  <2>2. CASE Finish(t) \/ Stop(t) \/ Park(t) \/ Sleep(t) \/ Fail(t)
    <3>1. Leave(t)
      BY <2>2 DEF Finish, Stop, Park, Sleep, Fail
    <3>2. task'[t].pc = "idle" /\ \A u \in Tasks : u # t => task'[u] = task[u]
      BY <2>1, <3>1, LeaveEffect DEF Idle
    <3> QED BY <3>2 DEF MidStepInv
  <2>3. CASE RequestApproval(t)
    BY <2>1, <2>3 DEF RequestApproval, Goto, MidStepInv, TypeOK, Task
  <2>4. CASE BeginDelay(t)
    BY <2>1, <2>4 DEF BeginDelay, MidStepInv, TypeOK, Task
  <2>5. CASE RenewLease(t)
    <3>1. ~ AtEnd(task[t].run, task[t].copy)
      BY <2>5 DEF RenewLease, BeginStep, AtStep
    <3>2. task'[t].run = task[t].run /\ task'[t].copy.cursor = task[t].copy.cursor
      BY <2>1, <2>5 DEF RenewLease, TypeOK, Task, Copy
    <3>3. \A u \in Tasks : u # t => task'[u] = task[u]
      BY <2>1, <2>5 DEF RenewLease, TypeOK
    <3> QED BY <3>1, <3>2, <3>3 DEF MidStepInv, AtEnd
  <2>6. CASE ExecuteStep(t)
    <3>1. task[t].pc = "execute"
      BY <2>6 DEF ExecuteStep, At
    <3>2. /\ task'[t].run = task[t].run /\ task'[t].copy = task[t].copy
          /\ \A u \in Tasks : u # t => task'[u] = task[u]
      BY <2>1, <2>6 DEF ExecuteStep, Goto, TypeOK, Task
    <3> QED BY <3>1, <3>2 DEF MidStepInv
  <2>7. CASE Advance(t)
    <3>1. PICK d : task' = [task EXCEPT ![t].pc = "boundary", ![t].copy = d]
      BY <2>7 DEF Advance
    <3> QED BY <2>1, <3>1 DEF MidStepInv, TypeOK, Task
  <2> QED BY <1>1, <2>2, <2>3, <2>4, <2>5, <2>6, <2>7 DEF EngineStep
<1>2. ASSUME NEW t \in Tasks, Die(t) PROVE MidStepInv'
  BY <1>2, LeaveEffect DEF Die, TypeInv, MidStepInv, Idle
<1>3. ASSUME NEW t \in Tasks, NEW r \in Runs, Claim(t, r) PROVE MidStepInv'
  BY <1>3 DEF Claim, MidStepInv, TypeInv, TypeOK
<1>4. CASE Environment \/ UNCHANGED vars
  BY <1>4 DEF Environment, ReapStale, Enqueue, Cancel, Retry, LeaseLapses, BecomesDue,
              vars, MidStepInv
<1> QED BY <1>1, <1>2, <1>3, <1>4 DEF Next

LEMMA MidStepInvariant == Spec => []MidStepInv
<1>1. Init => MidStepInv
  BY DEF Init, MidStepInv, Idle
<1> QED BY <1>1, NextMidStep, TypeInvariant, PTL DEF Spec

-----------------------------------------------------------------------------
(* Durable resume.  This one needs no premise on the duration of a step:   *)
(* it holds even while two slots execute the same run, because each of     *)
(* them carries a context of its own and the log only grows.               *)

(* S: the runs whose contexts nobody rewrites beside the engine.           *)
Durable(S, r, c, log) ==
    r \in LinearRuns =>
        \A i \in Producing(r) :
            i < c.cursor => i \in log /\ (r \in S => i \in c.context)

ProgressIn(S) ==
    /\ \A r \in Runs : Durable(S, r, runs[r], run_steps[r])
    /\ \A t \in Tasks : Durable(S, task[t].run, task[t].copy, run_steps[task[t].run])
    /\ \A t \in Tasks : At(t, "advance") =>
          task[t].copy.cursor \in run_steps[task[t].run]

(* A copy is recorded also after the log has grown.                        *)
LEMMA DurableMonotone ==
    ASSUME NEW S, NEW r, NEW c, NEW log, NEW longer, Durable(S, r, c, log), log \subseteq longer
    PROVE  Durable(S, r, c, longer)
BY DEF Durable

LEMMA DurableByFields ==
    ASSUME NEW S, NEW r, NEW c, NEW d, NEW log, Durable(S, r, c, log),
           d.cursor = c.cursor, d.context = c.context
    PROVE  Durable(S, r, d, log)
BY DEF Durable

(* Only a branch has another successor than the next step.                 *)
LEMMA LinearNext ==
    ASSUME NEW r \in LinearRuns, NEW c \in Copy, ~ AtEnd(r, c)
    PROVE  StepKind(r, c) # "branch" /\ NextIndex(r, c) = {c.cursor + 1}
<1>1. r \in Runs /\ c.cursor + 1 \in DOMAIN Plan[r]
  BY CurrentKind DEF LinearRuns
<1>2. StepKind(r, c) # "branch"
  BY <1>1 DEF LinearRuns, StepKind
<1> QED BY <1>2 DEF NextIndex

(* The step just logged joins the recorded ones.                           *)
LEMMA DurableNext ==
    ASSUME NEW S, NEW r \in Runs, NEW c \in Copy, ~ AtEnd(r, c), NEW next \in NextIndex(r, c),
           NEW log, Durable(S, r, c, log), c.cursor \in log
    PROVE  Durable(S, r, WithOutput(c, next), log)
<1>1. /\ WithOutput(c, next).cursor = next
      /\ WithOutput(c, next).context = c.context \cup {c.cursor}
  BY DEF WithOutput, Copy
<1>2. r \in LinearRuns => next = c.cursor + 1
  BY LinearNext
<1>3. \A i \in Nat : i < c.cursor + 1 => i < c.cursor \/ i = c.cursor
  BY DEF Copy
<1>4. \A i \in Producing(r) : i \in Nat
  BY PlanAssumption DEF Producing
<1> QED BY <1>1, <1>2, <1>3, <1>4 DEF Durable

(* Nothing needs to be recorded at cursor 0.                               *)
LEMMA DurableAtStart ==
    ASSUME NEW S, NEW r \in Runs, NEW c, NEW log, c.cursor = 0
    PROVE  Durable(S, r, c, log)
<1>1. \A i \in Producing(r) : ~ i < 0
  BY PlanAssumption DEF Producing
<1> QED BY <1>1 DEF Durable

LEMMA NobodysProgress ==
    ASSUME NEW S, NEW r, r \notin Runs, NEW c, NEW log
    PROVE  Durable(S, r, c, log)
BY DEF Durable, LinearRuns

LEMMA InitProgress == ASSUME NEW S PROVE Init => ProgressIn(S)
<1> SUFFICES ASSUME Init PROVE ProgressIn(S)
  OBVIOUS
<1>1. Absent.cursor = 0 /\ Orphan.cursor = 0
  BY DEF Absent, Orphan
<1>2. \A r \in Runs : runs[r].cursor = 0
  BY <1>1 DEF Init
<1>3. \A t \in Tasks : task[t].pc = "idle" /\ task[t].run \notin Runs
  BY NoRunAssumption DEF Init, Idle
<1>4. \A t \in Tasks : Durable(S, task[t].run, task[t].copy, run_steps[task[t].run])
  BY <1>3, NobodysProgress
<1> QED BY <1>2, <1>3, <1>4, DurableAtStart DEF ProgressIn, At

(* A slot's step: the log grows, other slots and rows are left alone, and  *)
(* what the slot leaves in its row and in its copy is recorded.            *)
LEMMA ProgressStep ==
    ASSUME NEW S, TypeInv, ProgressIn(S), NEW t \in Tasks, task[t].run \in Runs,
           \A r \in Runs : run_steps[r] \subseteq run_steps'[r],
           \A s \in Runs : s # task[t].run => runs'[s] = runs[s],
           \A u \in Tasks : u # t => task'[u] = task[u],
           Durable(S, task[t].run, runs'[task[t].run], run_steps'[task[t].run]),
           \/ task'[t] = Idle
           \/ /\ task'[t].run = task[t].run
              /\ Durable(S, task[t].run, task'[t].copy, run_steps'[task[t].run])
              /\ task'[t].pc = "advance" => task'[t].copy.cursor \in run_steps'[task[t].run]
    PROVE  ProgressIn(S)'
<1>1. ASSUME NEW s \in Runs PROVE Durable(S, s, runs'[s], run_steps'[s])
  <2>1. CASE s = task[t].run
    BY <2>1
  <2>2. CASE s # task[t].run
    BY <2>2, DurableMonotone DEF ProgressIn
  <2> QED BY <2>1, <2>2
<1>2. ASSUME NEW u \in Tasks
      PROVE  /\ Durable(S, task'[u].run, task'[u].copy, run_steps'[task'[u].run])
             /\ task'[u].pc = "advance" => task'[u].copy.cursor \in run_steps'[task'[u].run]
  <2>1. CASE u = t
    BY <2>1, NobodysProgress, NoRunAssumption DEF Idle
  <2>2. CASE u # t /\ task[u].run \in Runs
    <3>1. task'[u] = task[u] /\ run_steps[task[u].run] \subseteq run_steps'[task[u].run]
      BY <2>2
    <3>2. Durable(S, task[u].run, task[u].copy, run_steps'[task[u].run])
      BY <3>1, DurableMonotone DEF ProgressIn
    <3> QED BY <2>2, <3>1, <3>2 DEF ProgressIn, At
  <2>3. CASE u # t /\ task[u].run \notin Runs
    <3>1. task'[u] = task[u] /\ task[u].pc = "idle"
      BY <2>3 DEF TypeInv, SlotOK, At
    <3> QED BY <2>3, <3>1, NobodysProgress
  <2> QED BY <2>1, <2>2, <2>3
<1> QED BY <1>1, <1>2 DEF ProgressIn, At

(* A save leaves in the row what the saved copy records.                   *)
LEMMA SaveRecorded ==
    ASSUME NEW S, TypeOK, NEW t \in Tasks, task[t].run \in Runs, NEW c \in Copy,
           NEW status, NEW due, Save(t, c, status, due), NEW log, Durable(S, task[t].run, c, log)
    PROVE  Durable(S, task[t].run, runs'[task[t].run], log)
<1>1. runs'[task[t].run].cursor = c.cursor /\ runs'[task[t].run].context = c.context
  BY DEF Save, SaveProgress, TypeOK, Row
<1> QED BY <1>1, DurableByFields

(* Leaving after a save of the copy, the way every pause and ending does.  *)
LEMMA SaveAndLeave ==
    ASSUME NEW S, TypeInv, ProgressIn(S), NEW t \in Tasks, ~ At(t, "idle"), NEW status, NEW due,
           Save(t, task[t].copy, status, due), Leave(t), run_steps' = run_steps
    PROVE  ProgressIn(S)'
<1>1. task[t].run \in Runs /\ task[t].copy \in Copy /\ TypeOK
  BY InFlight DEF TypeInv
<1>2. Durable(S, task[t].run, task[t].copy, run_steps[task[t].run])
  BY DEF ProgressIn
<1>3. Durable(S, task[t].run, runs'[task[t].run], run_steps[task[t].run])
  BY <1>1, <1>2, SaveRecorded
<1>4. \A s \in Runs : s # task[t].run => runs'[s] = runs[s]
  BY <1>1, SaveEffect
<1> QED BY <1>1, <1>3, <1>4, LeaveEffect, ProgressStep

(* Moving on within the step: neither the row nor what the copy records    *)
(* changes.                                                                *)
LEMMA StayProgress ==
    ASSUME NEW S, TypeInv, ProgressIn(S), NEW t \in Tasks, ~ At(t, "idle"),
           \A r \in Runs : runs'[r].cursor = runs[r].cursor /\ runs'[r].context = runs[r].context,
           run_steps' = run_steps,
           \A u \in Tasks : u # t => task'[u] = task[u],
           task'[t].run = task[t].run, task'[t].pc # "advance",
           task'[t].copy.cursor = task[t].copy.cursor,
           task'[t].copy.context = task[t].copy.context
    PROVE  ProgressIn(S)'
<1>1. \A r \in Runs : Durable(S, r, runs'[r], run_steps[r])
  BY DurableByFields DEF ProgressIn
<1>2. Durable(S, task[t].run, task'[t].copy, run_steps[task[t].run])
  BY DurableByFields, InFlight DEF ProgressIn
<1> QED BY <1>1, <1>2 DEF ProgressIn, At

LEMMA EngineStepProgress ==
    ASSUME NEW S, TypeInv, MidStepInv, ProgressIn(S), NEW t \in Tasks, EngineStep(t)
    PROVE  ProgressIn(S)'
<1>0. ~ At(t, "idle")
  BY DEF EngineStep, Finish, Stop, RequestApproval, Park, BeginDelay, Sleep, RenewLease,
         ExecuteStep, Advance, Fail, BeginStep, AtStep, At
<1> DEFINE r == task[t].run
           c == task[t].copy
<1>1. /\ r \in Runs /\ c \in Copy /\ c.cursor \in Nat /\ runs[r] \in Row
      /\ TypeOK /\ task[t] \in Task
  BY <1>0, InFlight DEF TypeInv, TypeOK
<1>2. Durable(S, r, c, run_steps[r]) /\ Durable(S, r, runs[r], run_steps[r])
  BY <1>0, <1>1 DEF ProgressIn
<1>3. CASE Finish(t) \/ Stop(t) \/ Park(t) \/ Sleep(t) \/ Fail(t)
  BY <1>0, <1>3, SaveAndLeave DEF Finish, Stop, Park, Sleep, Fail
<1>4. CASE RequestApproval(t)
  BY <1>0, <1>1, <1>4, StayProgress DEF RequestApproval, Goto, TypeOK, Task
<1>5. CASE BeginDelay(t)
  <2>1. /\ run_steps' = [run_steps EXCEPT ![r] = @ \cup {c.cursor}] /\ runs' = runs
        /\ task' = [task EXCEPT ![t].pc = "sleep", ![t].copy = WithOutput(@, @.cursor + 1)]
    BY <1>5 DEF BeginDelay, LogSuccess
  <2>2. /\ \A s \in Runs : run_steps[s] \subseteq run_steps'[s]
        /\ c.cursor \in run_steps'[r]
    BY <1>1, <2>1 DEF TypeOK
  <2>3. Durable(S, r, c, run_steps'[r]) /\ Durable(S, r, runs[r], run_steps'[r])
    BY <1>1, <1>2, <2>2, DurableMonotone
  <2>4. Durable(S, r, WithOutput(c, c.cursor + 1), run_steps'[r])
    <3>1. ~ AtEnd(r, c) /\ StepKind(r, c) = "delay"
      BY <1>5 DEF BeginDelay, BeginStep, AtStep, Current
    <3>2. c.cursor + 1 \in NextIndex(r, c)
      BY <3>1 DEF NextIndex
    <3> QED BY <1>1, <2>2, <2>3, <3>1, <3>2, DurableNext
  <2>5. /\ \A u \in Tasks : u # t => task'[u] = task[u]
        /\ task'[t].run = r /\ task'[t].pc = "sleep"
        /\ task'[t].copy = WithOutput(c, c.cursor + 1)
    BY <1>1, <2>1 DEF TypeOK, Task
  <2> QED BY <1>1, <2>1, <2>2, <2>3, <2>4, <2>5, ProgressStep
<1>6. CASE RenewLease(t)
  <2>1. \A s \in Runs : runs'[s].cursor = runs[s].cursor /\ runs'[s].context = runs[s].context
    BY <1>1, <1>6 DEF RenewLease, ExtendLease, TypeOK, Row
  <2>2. \A u \in Tasks : u # t => task'[u] = task[u]
    BY <1>1, <1>6 DEF RenewLease, TypeOK
  <2>3. task'[t].run = r /\ task'[t].pc # "advance"
    BY <1>1, <1>6 DEF RenewLease, TypeOK, Task
  <2>4. task'[t].copy = [c EXCEPT !.cancel_requested = CancelSeen(runs[r])]
    BY <1>1, <1>6 DEF RenewLease, TypeOK, Task
  <2>5. task'[t].copy.cursor = c.cursor /\ task'[t].copy.context = c.context
    BY <1>1, <2>4 DEF Copy
  <2> QED BY <1>0, <1>6, <2>1, <2>2, <2>3, <2>5, StayProgress DEF RenewLease
<1>7. CASE ExecuteStep(t)
  <2>1. CASE LogSuccess(t) /\ Goto(t, "advance")
    <3>1. /\ \A s \in Runs : run_steps[s] \subseteq run_steps'[s]
          /\ c.cursor \in run_steps'[r]
      BY <1>1, <2>1 DEF LogSuccess, TypeOK
    <3>2. Durable(S, r, c, run_steps'[r]) /\ Durable(S, r, runs[r], run_steps'[r])
      BY <1>1, <1>2, <3>1, DurableMonotone
    <3>3. /\ \A u \in Tasks : u # t => task'[u] = task[u]
          /\ task'[t].run = r /\ task'[t].copy = c
      BY <1>1, <2>1 DEF Goto, TypeOK, Task
    <3>4. runs' = runs
      BY <1>7 DEF ExecuteStep
    <3> QED BY <1>1, <3>1, <3>2, <3>3, <3>4, ProgressStep
  <2>2. CASE UNCHANGED run_steps /\ Goto(t, "fail")
    BY <1>0, <1>1, <1>7, <2>2, StayProgress DEF ExecuteStep, Goto, TypeOK, Task
  <2> QED BY <1>7, <2>1, <2>2 DEF ExecuteStep
<1>8. CASE Advance(t)
  <2>1. PICK next \in NextIndex(r, c) :
           /\ Save(t, WithOutput(c, next), "running", TRUE)
           /\ task' = [task EXCEPT ![t].pc = "boundary", ![t].copy = WithOutput(c, next)]
    BY <1>8 DEF Advance
  <2> DEFINE d == WithOutput(c, next)
  <2>2. ~ AtEnd(r, c) /\ next \in Nat
    BY <1>1, <1>8, <2>1, PlanAssumption DEF Advance, At, MidStepInv, NextIndex
  <2>3. c.cursor \in run_steps[r] /\ run_steps' = run_steps
    BY <1>8 DEF Advance, ProgressIn
  <2>4. d \in Copy /\ Durable(S, r, d, run_steps[r])
    BY <1>1, <1>2, <2>1, <2>2, <2>3, WithOutputType, DurableNext
  <2>5. Durable(S, r, runs'[r], run_steps[r]) /\ \A s \in Runs : s # r => runs'[s] = runs[s]
    BY <1>1, <2>1, <2>4, SaveRecorded, SaveEffect
  <2>6. /\ \A u \in Tasks : u # t => task'[u] = task[u]
        /\ task'[t].run = r /\ task'[t].pc = "boundary" /\ task'[t].copy = d
    BY <1>1, <2>1 DEF TypeOK, Task
  <2> QED BY <1>1, <2>3, <2>4, <2>5, <2>6, ProgressStep
<1> QED BY <1>3, <1>4, <1>5, <1>6, <1>7, <1>8 DEF EngineStep

(* Time, the reaper and the API leave cursor and context alone, except a   *)
(* retry from the start, which forgets both.                               *)
LEMMA EnvironmentProgress ==
    ASSUME NEW S, TypeInv, ProgressIn(S), Environment
    PROVE  ProgressIn(S)'
<1>1. UNCHANGED <<run_steps, task>>
  BY DEF Environment, ReapStale, Enqueue, Cancel, Retry, LeaseLapses, BecomesDue
<1>2. ASSUME NEW r \in Runs
      PROVE  \/ runs'[r].cursor = 0
             \/ runs'[r].cursor = runs[r].cursor /\ runs'[r].context = runs[r].context
  <2>0. runs \in [Runs -> Row]
    BY DEF TypeInv, TypeOK
  <2> DEFINE Kept == runs'[r].cursor = runs[r].cursor /\ runs'[r].context = runs[r].context
  <2>1. CASE ReapStale
    BY <2>0, <2>1 DEF ReapStale, Reap, Row
  <2>2. ASSUME NEW s \in Runs, Enqueue(s) PROVE runs'[r].cursor = 0 \/ Kept
    <3>1. NewRun.cursor = 0
      BY DEF NewRun, Absent
    <3> QED BY <2>0, <2>2, <3>1 DEF Enqueue
  <2>3. ASSUME NEW s \in Runs, Cancel(s) PROVE Kept
    BY <2>0, <2>3 DEF Cancel, RequestCancel, Row
  <2>4. ASSUME NEW s \in Runs, Retry(s) PROVE runs'[r].cursor = 0 \/ Kept
    <3>1. PICK restart \in BOOLEAN : runs' = [runs EXCEPT ![s] = Requeue(runs[s], restart)]
      BY <2>4 DEF Retry
    <3>2. \/ Requeue(runs[s], restart).cursor = 0
          \/ /\ Requeue(runs[s], restart).cursor = runs[s].cursor
             /\ Requeue(runs[s], restart).context = runs[s].context
      BY <2>0 DEF Requeue, Row
    <3> QED BY <2>0, <3>1, <3>2
  <2>5. ASSUME NEW s \in Runs, LeaseLapses(s) \/ BecomesDue(s) PROVE Kept
    BY <2>0, <2>5 DEF LeaseLapses, BecomesDue, Row
  <2> QED BY <2>1, <2>2, <2>3, <2>4, <2>5 DEF Environment
<1>3. \A r \in Runs : Durable(S, r, runs'[r], run_steps[r])
  BY <1>2, DurableAtStart, DurableByFields DEF ProgressIn
<1> QED BY <1>1, <1>3 DEF ProgressIn, At

LEMMA ClaimProgress ==
    ASSUME NEW S, TypeInv, ProgressIn(S), NEW t \in Tasks, NEW r \in Runs, Claim(t, r)
    PROVE  ProgressIn(S)'
<1> DEFINE row == ClaimDue(runs[r])
<1>1. row.cursor = runs[r].cursor /\ row.context = runs[r].context
  BY DEF ClaimDue, TypeInv, TypeOK, Row
<1>2. Durable(S, r, row, run_steps[r])
  BY <1>1, DurableByFields DEF ProgressIn
<1>3. Durable(S, r, ReadRun(row), run_steps[r])
  BY <1>2, DurableByFields DEF ReadRun
<1>4. /\ runs' = [runs EXCEPT ![r] = row] /\ run_steps' = run_steps
      /\ task' = [task EXCEPT ![t] = [pc |-> "boundary", run |-> r, slow |-> FALSE,
                                      copy |-> ReadRun(row)]]
  BY DEF Claim
<1> HIDE DEF row
<1>5. \A s \in Runs : Durable(S, s, runs'[s], run_steps'[s])
  BY <1>2, <1>4 DEF ProgressIn, TypeInv, TypeOK
<1>6. /\ task'[t].run = r /\ task'[t].copy = ReadRun(row) /\ task'[t].pc = "boundary"
      /\ \A u \in Tasks : u # t => task'[u] = task[u]
  BY <1>4 DEF TypeInv, TypeOK
<1> QED BY <1>3, <1>4, <1>5, <1>6 DEF ProgressIn, At

LEMMA NextProgress ==
    ASSUME NEW S, TypeInv, MidStepInv, ProgressIn(S), [Next]_vars
    PROVE  ProgressIn(S)'
<1>1. CASE Environment
  BY <1>1, EnvironmentProgress
<1>2. ASSUME NEW t \in Tasks, EngineStep(t) PROVE ProgressIn(S)'
  BY <1>2, EngineStepProgress
<1>3. ASSUME NEW t \in Tasks, Die(t) PROVE ProgressIn(S)'
  <2>1. /\ task'[t] = Idle /\ \A u \in Tasks : u # t => task'[u] = task[u]
        /\ runs' = runs /\ run_steps' = run_steps
    BY <1>3, LeaveEffect DEF Die, TypeInv
  <2>2. Durable(S, Idle.run, Idle.copy, run_steps[Idle.run])
    BY NobodysProgress, NoRunAssumption DEF Idle
  <2> QED BY <2>1, <2>2 DEF ProgressIn, At, Idle
<1>4. ASSUME NEW t \in Tasks, NEW r \in Runs, Claim(t, r) PROVE ProgressIn(S)'
  BY <1>4, ClaimProgress
<1>5. CASE UNCHANGED vars
  BY <1>5 DEF vars, ProgressIn, ProgressRecorded, At
<1> QED BY <1>1, <1>2, <1>3, <1>4, <1>5 DEF Next

(* engine.rs:1-4: in a run without branches every step before the cursor of a   *)
(* row, or of the copy a worker holds, has its output in the context and   *)
(* its success in the log, whatever crashes, retries, expired leases and   *)
(* double executions happened on the way.                                  *)
THEOREM DurableProgress == Spec => []ProgressRecorded
<1>0. Init => ProgressIn(Runs)
  BY InitProgress
<1>1. TypeInv /\ MidStepInv /\ ProgressIn(Runs) /\ [Next]_vars => ProgressIn(Runs)'
  BY NextProgress
<1>2. ProgressIn(Runs) => ProgressRecorded
  BY DEF ProgressIn, ProgressRecorded, Recorded, Durable, LinearRuns
<1> QED BY <1>0, <1>1, <1>2, TypeInvariant, MidStepInvariant, PTL DEF Spec
=============================================================================
