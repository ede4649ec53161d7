-------------------------- MODULE RunBudgetProofs ---------------------------
(* The retry budget of every run whose plan has no branch.                 *)
EXTENDS RunEngineProofs, FiniteSetTheorems

-----------------------------------------------------------------------------
(* Counting the pauses before a cursor.                                    *)

LEMMA PausesFinite ==
    ASSUME NEW r \in Runs, NEW n \in Nat
    PROVE  IsFiniteSet(Pauses(r, n)) /\ PauseCount(r, n) \in Nat
<1>1. Len(Plan[r]) \in Nat
  BY PlanAssumption
<1>2. IsFiniteSet(0 .. (Len(Plan[r]) - 1))
  BY <1>1, FS_Interval
<1>3. IsFiniteSet(Pauses(r, n))
  BY <1>2, FS_Subset DEF Pauses
<1> QED BY <1>3, FS_CardinalityType DEF PauseCount

LEMMA PauseCountGrows ==
    ASSUME NEW r \in Runs, NEW n \in Nat
    PROVE  PauseCount(r, n) <= PauseCount(r, n + 1)
<1>1. Pauses(r, n) \subseteq Pauses(r, n + 1)
  BY PlanAssumption DEF Pauses
<1> QED BY <1>1, PausesFinite, FS_Subset DEF PauseCount

(* Passing a pause raises the count by one.                                *)
LEMMA PauseCountPause ==
    ASSUME NEW r \in Runs, NEW n \in Nat, n < Len(Plan[r]),
           Plan[r][n + 1] \in {"delay", "approval", "subworkflow"}
    PROVE  PauseCount(r, n + 1) = PauseCount(r, n) + 1
<1>1. n \notin Pauses(r, n)
  BY DEF Pauses
<1>2. Pauses(r, n + 1) = Pauses(r, n) \cup {n}
  <2>1. \A i \in 0 .. (Len(Plan[r]) - 1) : i < n + 1 <=> i < n \/ i = n
    BY PlanAssumption
  <2>2. n \in 0 .. (Len(Plan[r]) - 1)
    BY PlanAssumption
  <2> QED BY <2>1, <2>2 DEF Pauses
<1> QED BY <1>1, <1>2, PausesFinite, FS_AddElement DEF PauseCount

-----------------------------------------------------------------------------
(* The invariant.  A row or copy is within its budget; a row that may be   *)
(* claimed, and a delay about to be saved, still has an attempt to spare.  *)

Within(r, c)   == c.attempt <= MaxAttempts + PauseCount(r, c.cursor)
ToSpare(r, c)  == c.attempt <  MaxAttempts + PauseCount(r, c.cursor)

RowBudget(r, row) ==
    r \in LinearRuns => Within(r, row) /\ (row.status \in Claimable => ToSpare(r, row))

SlotBudget(slot) ==
    slot.run \in LinearRuns => /\ Within(slot.run, slot.copy)
                               /\ slot.pc = "sleep" => ToSpare(slot.run, slot.copy)

BudgetInv ==
    /\ \A r \in Runs : RowBudget(r, runs[r])
    /\ \A t \in Tasks : SlotBudget(task[t])

(* A run that starts over has its whole budget.                            *)
LEMMA FreshBudget ==
    ASSUME NEW r \in Runs, NEW row \in Row, row.attempt = 0
    PROVE  RowBudget(r, row)
<1>1. PauseCount(r, row.cursor) \in Nat
  BY PausesFinite DEF Row
<1> QED BY <1>1, MaxAttemptsAssumption DEF RowBudget, Within, ToSpare

LEMMA InitBudget == Init => BudgetInv
<1> SUFFICES ASSUME Init PROVE BudgetInv
  OBVIOUS
<1>1. Absent.attempt = 0 /\ Orphan.attempt = 0
  BY DEF Absent, Orphan
<1>2. \A r \in Runs : RowBudget(r, runs[r])
  BY <1>1, RowConstants, FreshBudget DEF Init
<1>3. \A t \in Tasks : SlotBudget(task[t])
  BY NoRunAssumption DEF Init, Idle, SlotBudget, LinearRuns
<1> QED BY <1>2, <1>3 DEF BudgetInv

(* What a save puts in the row is what the copy says.                      *)
LEMMA SaveBudget ==
    ASSUME TypeInv, BudgetInv, NEW t \in Tasks, task[t].run \in Runs,
           NEW c \in Copy, NEW status, NEW due, Save(t, c, status, due),
           task[t].run \in LinearRuns =>
              Within(task[t].run, c) /\ (status \in Claimable => ToSpare(task[t].run, c))
    PROVE  \A r \in Runs : RowBudget(r, runs'[r])
<1>1. /\ runs'[task[t].run].cursor = c.cursor
      /\ runs'[task[t].run].attempt = c.attempt
      /\ runs'[task[t].run].status = status
  BY DEF Save, SaveProgress, TypeInv, TypeOK, Row
<1>2. RowBudget(task[t].run, runs'[task[t].run])
  BY <1>1 DEF RowBudget, Within, ToSpare
<1>3. \A r \in Runs : r # task[t].run => runs'[r] = runs[r]
  BY SaveEffect DEF TypeInv
<1> QED BY <1>2, <1>3 DEF BudgetInv

LEMMA LeaveBudget ==
    ASSUME TypeInv, BudgetInv, NEW t \in Tasks, Leave(t)
    PROVE  \A u \in Tasks : SlotBudget(task'[u])
<1>1. task'[t] = Idle /\ \A u \in Tasks : u # t => task'[u] = task[u]
  BY LeaveEffect DEF TypeInv
<1> QED BY <1>1, NoRunAssumption DEF BudgetInv, SlotBudget, Idle, LinearRuns

(* A slot that only moves on within its step keeps its budget.             *)
LEMMA SameCopyBudget ==
    ASSUME TypeInv, BudgetInv, NEW t \in Tasks,
           \A u \in Tasks : u # t => task'[u] = task[u],
           task'[t].run = task[t].run, task'[t].pc # "sleep",
           task'[t].copy.cursor = task[t].copy.cursor,
           task'[t].copy.attempt = task[t].copy.attempt
    PROVE  \A u \in Tasks : SlotBudget(task'[u])
<1>1. SlotBudget(task'[t])
  BY DEF BudgetInv, SlotBudget, Within
<1> QED BY <1>1 DEF BudgetInv

LEMMA EngineStepBudget ==
    ASSUME TypeInv, MidStepInv, BudgetInv, NEW t \in Tasks, EngineStep(t)
    PROVE  BudgetInv'
<1>0. ~ At(t, "idle")
  BY DEF EngineStep, Finish, Stop, RequestApproval, Park, BeginDelay, Sleep, RenewLease,
         ExecuteStep, Advance, Fail, BeginStep, AtStep, At
<1> DEFINE r == task[t].run
           c == task[t].copy
<1>1. /\ r \in Runs /\ c \in Copy /\ c.cursor \in Nat /\ c.attempt \in Nat
      /\ runs[r] \in Row /\ TypeOK /\ task[t] \in Task
  BY <1>0, InFlight DEF TypeInv, TypeOK, Copy
<1>2. r \in LinearRuns => Within(r, c) /\ (task[t].pc = "sleep" => ToSpare(r, c))
  BY DEF BudgetInv, SlotBudget
<1>3. PauseCount(r, c.cursor) \in Nat
  BY <1>1, PausesFinite
<1>4. CASE Finish(t) \/ Stop(t) \/ Park(t) \/ Sleep(t) \/ Fail(t)
  <2>1. \A u \in Tasks : SlotBudget(task'[u])
    BY <1>4, LeaveBudget DEF Finish, Stop, Park, Sleep, Fail
  <2>2. CASE Finish(t) \/ Stop(t) \/ Park(t)
    <3>1. PICK status \in {"succeeded", "canceled", "waiting_approval"} :
             Save(t, c, status, TRUE)
      BY <2>2 DEF Finish, Stop, Park
    <3>2. status \notin Claimable
      BY DEF Claimable
    <3> QED BY <1>1, <1>2, <2>1, <3>1, <3>2, SaveBudget DEF BudgetInv
  <2>3. CASE Sleep(t)
    BY <1>1, <1>2, <2>1, <2>3, SaveBudget DEF Sleep, At, BudgetInv
  <2>4. CASE Fail(t) /\ c.attempt >= MaxAttempts
    <3>1. "dead_letter" \notin Claimable
      BY DEF Claimable
    <3> QED BY <1>1, <1>2, <2>1, <2>4, <3>1, SaveBudget DEF Fail, BudgetInv
  <2>5. CASE Fail(t) /\ ~ (c.attempt >= MaxAttempts)
    <3>1. ToSpare(r, c)
      BY <1>1, <1>3, <2>5, MaxAttemptsAssumption DEF ToSpare
    <3> QED BY <1>1, <1>2, <2>1, <2>5, <3>1, SaveBudget DEF Fail, BudgetInv
  <2> QED BY <1>4, <2>2, <2>3, <2>4, <2>5
<1>5. CASE RequestApproval(t)
  BY <1>0, <1>1, <1>5, SameCopyBudget DEF RequestApproval, Goto, TypeOK, Task, BudgetInv
<1>6. CASE BeginDelay(t)
  <2> DEFINE d == WithOutput(c, c.cursor + 1)
  <2>1. d.cursor = c.cursor + 1 /\ d.attempt = c.attempt
    BY <1>1 DEF WithOutput, Copy
  <2>2. PauseCount(r, c.cursor + 1) = PauseCount(r, c.cursor) + 1
    BY <1>1, <1>6, PauseCountPause, PlanAssumption
       DEF BeginDelay, BeginStep, AtStep, AtEnd, Current, StepKind
  <2>3. r \in LinearRuns => Within(r, d) /\ ToSpare(r, d)
    BY <1>1, <1>2, <1>3, <2>1, <2>2, MaxAttemptsAssumption DEF Within, ToSpare
  <2>4. /\ \A u \in Tasks : u # t => task'[u] = task[u]
        /\ task'[t].run = r /\ task'[t].copy = d /\ runs' = runs
    BY <1>1, <1>6 DEF BeginDelay, TypeOK, Task
  <2> HIDE DEF d
  <2> QED BY <2>3, <2>4 DEF BudgetInv, SlotBudget
<1>7. CASE RenewLease(t)
  <2>1. \A s \in Runs : /\ runs'[s].cursor = runs[s].cursor
                        /\ runs'[s].attempt = runs[s].attempt
                        /\ runs'[s].status = runs[s].status
    BY <1>1, <1>7 DEF RenewLease, ExtendLease, TypeOK, Row
  <2>2. \A u \in Tasks : u # t => task'[u] = task[u]
    BY <1>1, <1>7 DEF RenewLease, TypeOK
  <2>3. task'[t].run = r /\ task'[t].pc # "sleep"
    BY <1>1, <1>7 DEF RenewLease, TypeOK, Task
  <2>4. task'[t].copy = [c EXCEPT !.cancel_requested = CancelSeen(runs[r])]
    BY <1>1, <1>7 DEF RenewLease, TypeOK, Task
  <2>5. task'[t].copy.cursor = c.cursor /\ task'[t].copy.attempt = c.attempt
    BY <1>1, <2>4 DEF Copy
  <2>6. \A u \in Tasks : SlotBudget(task'[u])
    BY <1>0, <2>2, <2>3, <2>5, SameCopyBudget
  <2> QED BY <2>1, <2>6 DEF BudgetInv, RowBudget, Within, ToSpare
<1>8. CASE ExecuteStep(t)
  <2>1. (Goto(t, "advance") \/ Goto(t, "fail")) /\ runs' = runs
    BY <1>8 DEF ExecuteStep
  <2>2. /\ \A u \in Tasks : u # t => task'[u] = task[u]
        /\ task'[t].run = r /\ task'[t].copy = c /\ task'[t].pc # "sleep"
    BY <1>1, <2>1 DEF Goto, TypeOK, Task
  <2>3. \A u \in Tasks : SlotBudget(task'[u])
    BY <2>2, SameCopyBudget
  <2> QED BY <2>1, <2>3 DEF BudgetInv
<1>9. CASE Advance(t)
  <2>1. PICK next \in NextIndex(r, c) :
           /\ Save(t, WithOutput(c, next), "running", TRUE)
           /\ task' = [task EXCEPT ![t].pc = "boundary", ![t].copy = WithOutput(c, next)]
    BY <1>9 DEF Advance
  <2> DEFINE d == WithOutput(c, next)
  <2>2. ~ AtEnd(r, c) /\ next \in Nat
    BY <1>1, <1>9, <2>1, PlanAssumption DEF Advance, At, MidStepInv, NextIndex
  <2>3. d \in Copy /\ d.cursor = next /\ d.attempt = c.attempt
    BY <1>1, <2>2, WithOutputType DEF WithOutput, Copy
  <2>4. r \in LinearRuns => Within(r, d)
    <3>1. ASSUME r \in LinearRuns PROVE next = c.cursor + 1
      BY <1>1, <2>1, <2>2, <3>1, LinearNext
    <3>2. PauseCount(r, c.cursor + 1) \in Nat
      BY <1>1, PausesFinite
    <3> QED BY <1>1, <1>2, <1>3, <2>3, <3>1, <3>2, PauseCountGrows, MaxAttemptsAssumption
            DEF Within
  <2>5. \A s \in Runs : RowBudget(s, runs'[s])
    <3>1. "running" \notin Claimable
      BY DEF Claimable
    <3> QED BY <1>1, <2>1, <2>3, <2>4, <3>1, SaveBudget
  <2>6. /\ \A u \in Tasks : u # t => task'[u] = task[u]
        /\ task'[t].run = r /\ task'[t].pc = "boundary" /\ task'[t].copy = d
    BY <1>1, <2>1 DEF TypeOK, Task
  <2> HIDE DEF d
  <2> QED BY <2>4, <2>5, <2>6 DEF BudgetInv, SlotBudget
<1> QED BY <1>4, <1>5, <1>6, <1>7, <1>8, <1>9 DEF EngineStep

LEMMA EnvironmentBudget ==
    ASSUME TypeInv, BudgetInv, Environment
    PROVE  BudgetInv'
<1>0. runs \in [Runs -> Row] /\ TypeInv'
  BY EnvironmentType DEF TypeInv, TypeOK
<1>1. task' = task
  BY DEF Environment, ReapStale, Enqueue, Cancel, Retry, LeaseLapses, BecomesDue
<1> SUFFICES ASSUME NEW r \in Runs PROVE RowBudget(r, runs'[r])
  BY <1>1 DEF BudgetInv
<1>2. /\ RowBudget(r, runs[r]) /\ runs[r].attempt \in Nat /\ runs'[r] \in Row
      /\ PauseCount(r, runs[r].cursor) \in Nat
  BY <1>0, PausesFinite DEF BudgetInv, Row, TypeInv, TypeOK
<1> DEFINE Kept == /\ runs'[r].cursor = runs[r].cursor
                   /\ runs'[r].attempt = runs[r].attempt
                   /\ \/ runs'[r].status \notin Claimable
                      \/ runs[r].status \in Claimable
                      \/ runs[r].attempt < MaxAttempts
<1>3. Kept => RowBudget(r, runs'[r])
  BY <1>2, MaxAttemptsAssumption DEF RowBudget, Within, ToSpare
<1>4. runs'[r].attempt = 0 => RowBudget(r, runs'[r])
  BY <1>2, FreshBudget
<1>5. runs'[r] = runs[r] => Kept
  OBVIOUS
<1>6. CASE ReapStale
  <2>1. CASE IsStale(runs[r])
    <3>1. runs'[r] = Reap(runs[r])
      BY <1>6, <2>1 DEF ReapStale
    <3>2. /\ Reap(runs[r]).cursor = runs[r].cursor /\ Reap(runs[r]).attempt = runs[r].attempt
          /\ \/ Reap(runs[r]).status = "dead_letter"
             \/ ~ (runs[r].attempt >= MaxAttempts)
      BY <1>0 DEF Reap, Row
    <3>3. "dead_letter" \notin Claimable
      BY DEF Claimable
    <3> QED BY <1>2, <1>3, <3>1, <3>2, <3>3, MaxAttemptsAssumption
  <2>2. CASE ~ IsStale(runs[r])
    BY <1>3, <1>5, <1>6, <2>2 DEF ReapStale
  <2> QED BY <2>1, <2>2
<1>7. ASSUME NEW s \in Runs, Enqueue(s) PROVE RowBudget(r, runs'[r])
  <2>1. NewRun.attempt = 0
    BY DEF NewRun, Absent
  <2> QED BY <1>0, <1>3, <1>4, <1>5, <1>7, <2>1 DEF Enqueue
<1>8. ASSUME NEW s \in Runs, Cancel(s) PROVE RowBudget(r, runs'[r])
  <2>1. RequestCancel(runs[s]).status \notin Claimable
    BY <1>0 DEF RequestCancel, Row, Claimable
  <2>2. /\ RequestCancel(runs[s]).cursor = runs[s].cursor
        /\ RequestCancel(runs[s]).attempt = runs[s].attempt
    BY <1>0 DEF RequestCancel, Row
  <2> QED BY <1>0, <1>3, <1>5, <1>8, <2>1, <2>2 DEF Cancel
<1>9. ASSUME NEW s \in Runs, Retry(s) PROVE RowBudget(r, runs'[r])
  <2>1. PICK restart \in BOOLEAN : runs' = [runs EXCEPT ![s] = Requeue(runs[s], restart)]
    BY <1>9 DEF Retry
  <2>2. Requeue(runs[s], restart).attempt = 0
    BY <1>0 DEF Requeue, Row
  <2> QED BY <1>0, <1>3, <1>4, <1>5, <2>1, <2>2
<1>10. ASSUME NEW s \in Runs, LeaseLapses(s) \/ BecomesDue(s) PROVE RowBudget(r, runs'[r])
  <2>1. /\ runs'[r].cursor = runs[r].cursor /\ runs'[r].attempt = runs[r].attempt
        /\ runs'[r].status = runs[r].status
    BY <1>0, <1>10 DEF LeaseLapses, BecomesDue, Row
  <2> QED BY <1>3, <2>1
<1> HIDE DEF Kept
<1> QED BY <1>6, <1>7, <1>8, <1>9, <1>10 DEF Environment

(* A claim spends one of the attempts a claimable row has to spare.        *)
LEMMA ClaimBudget ==
    ASSUME TypeInv, BudgetInv, NEW t \in Tasks, NEW r \in Runs, Claim(t, r)
    PROVE  BudgetInv'
<1> DEFINE row == ClaimDue(runs[r])
<1>0. runs[r] \in Row /\ runs[r].attempt \in Nat /\ PauseCount(r, runs[r].cursor) \in Nat
  BY PausesFinite DEF TypeInv, TypeOK, Row
<1>1. row.cursor = runs[r].cursor /\ row.attempt = runs[r].attempt + 1 /\ row.status = "running"
  BY <1>0 DEF ClaimDue, Row
<1>2. r \in LinearRuns => ToSpare(r, runs[r])
  BY DEF Claim, CanClaim, BudgetInv, RowBudget
<1>3. r \in LinearRuns => Within(r, row)
  BY <1>0, <1>1, <1>2, MaxAttemptsAssumption DEF Within, ToSpare
<1>4. RowBudget(r, row)
  BY <1>1, <1>3 DEF RowBudget, Claimable
<1>5. r \in LinearRuns => Within(r, ReadRun(row))
  BY <1>3 DEF Within, ReadRun
<1>6. /\ runs' = [runs EXCEPT ![r] = row]
      /\ task' = [task EXCEPT ![t] = [pc |-> "boundary", run |-> r, slow |-> FALSE,
                                      copy |-> ReadRun(row)]]
  BY DEF Claim
<1> HIDE DEF row
<1>7. \A s \in Runs : RowBudget(s, runs'[s])
  BY <1>4, <1>6 DEF BudgetInv, TypeInv, TypeOK
<1>8. \A u \in Tasks : SlotBudget(task'[u])
  BY <1>5, <1>6 DEF BudgetInv, SlotBudget, TypeInv, TypeOK
<1> QED BY <1>7, <1>8 DEF BudgetInv

LEMMA NextBudget ==
    ASSUME TypeInv, MidStepInv, BudgetInv, [Next]_vars
    PROVE  BudgetInv'
<1>1. CASE Environment
  BY <1>1, EnvironmentBudget
<1>2. ASSUME NEW t \in Tasks, EngineStep(t) PROVE BudgetInv'
  BY <1>2, EngineStepBudget
<1>3. ASSUME NEW t \in Tasks, Die(t) PROVE BudgetInv'
  BY <1>3, LeaveBudget DEF Die, BudgetInv
<1>4. ASSUME NEW t \in Tasks, NEW r \in Runs, Claim(t, r) PROVE BudgetInv'
  BY <1>4, ClaimBudget
<1>5. CASE UNCHANGED vars
  BY <1>5 DEF vars, BudgetInv
<1> QED BY <1>1, <1>2, <1>3, <1>4, <1>5 DEF Next

(* engine.rs:8-9, db.rs:138: a run without branches is claimed at most     *)
(* max_attempts times, plus once for every pause it has passed, whatever   *)
(* crashes, expired leases and double executions happen.                   *)
THEOREM RetryBudget == Spec => []AttemptsBounded
<1>1. TypeInv /\ MidStepInv /\ BudgetInv /\ [Next]_vars => BudgetInv'
  BY NextBudget
<1>2. BudgetInv => AttemptsBounded
  BY DEF BudgetInv, RowBudget, Within, AttemptsBounded, LinearRuns
<1> QED BY <1>1, <1>2, InitBudget, TypeInvariant, MidStepInvariant, PTL DEF Spec
=============================================================================
