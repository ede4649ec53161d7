------------------------ MODULE RunRefinementProofs -------------------------
(* The run queue implements exclusive ownership, for every set of runs,    *)
(* plans, slots and attempt limits: each run whose own steps do not outlast*)
(* the lease, whatever runs are executed beside it.                        *)
EXTENDS RunRefinement, RunEngineProofs

LEMMA OneOfFew == OneOf({}) = NoRun /\ \A t : OneOf({t}) = t
BY DEF OneOf

(* The holder of a run, without the CHOOSE.                                *)
LEMMA HolderIs ==
    ASSUME OneExecutorIfShort, NEW r \in ShortRuns
    PROVE  /\ \A t \in Tasks : Executing(t, r) => Holders(r) = {t} /\ holderBar[r] = t
           /\ Holders(r) = {} => holderBar[r] = NoRun
<1>1. ASSUME NEW t \in Tasks, Executing(t, r) PROVE Holders(r) = {t} /\ holderBar[r] = t
  <2>1. Holders(r) = {t}
    BY <1>1, ShortOnes DEF OneExecutorIfShort, OneExecutorIn, Holders, Executing
  <2> QED BY <2>1, OneOfFew DEF holderBar
<1> QED BY <1>1, OneOfFew DEF holderBar

LEMMA Phases ==
    /\ phaseBar \in [ShortRuns -> Life!Phase]
    /\ \A r \in ShortRuns : phaseBar[r] = PhaseOf(runs[r].status)
BY DEF phaseBar, PhaseOf, Life!Phase

(* What a client can tell of a step: the phases, and who holds what.       *)
LEMMA SamePhases ==
    ASSUME \A r \in ShortRuns : PhaseOf(runs'[r].status) = PhaseOf(runs[r].status)
    PROVE  phaseBar' = phaseBar
BY DEF phaseBar

LEMMA SameHolders ==
    ASSUME \A r \in ShortRuns : \A t \in Tasks : task'[t].run = r <=> task[t].run = r
    PROVE  holderBar' = holderBar
<1>1. \A r \in ShortRuns : Holders(r)' = Holders(r)
  BY DEF Holders, Executing
<1> QED BY <1>1 DEF holderBar

LEMMA OnePhase ==
    ASSUME NEW r \in ShortRuns, \A s \in Runs : s # r => runs'[s] = runs[s]
    PROVE  phaseBar' = [phaseBar EXCEPT ![r] = PhaseOf(runs'[r].status)]
BY ShortOnes DEF phaseBar

(* What happens to the rows and slots of the other runs is not seen.       *)
LEMMA OtherRow ==
    ASSUME NEW r \in Runs \ ShortRuns, \A s \in Runs : s # r => runs'[s] = runs[s]
    PROVE  phaseBar' = phaseBar
BY ShortOnes, SamePhases

LEMMA OtherSlot ==
    ASSUME NEW t \in Tasks, task[t].run \notin ShortRuns, task'[t].run \notin ShortRuns,
           \A u \in Tasks : u # t => task'[u] = task[u]
    PROVE  holderBar' = holderBar
BY SameHolders

(* The slot of r is emptied.                                               *)
LEMMA HolderLeaves ==
    ASSUME TypeInv, OneExecutorIfShort, NEW t \in Tasks, NEW r \in ShortRuns, r = task[t].run,
           task'[t] = Idle, \A u \in Tasks : u # t => task'[u] = task[u]
    PROVE  /\ holderBar[r] # NoRun
           /\ holderBar' = [holderBar EXCEPT ![r] = NoRun]
<1>0. \A s \in ShortRuns : s \in Runs /\ s # NoRun
  BY ShortOnes, NoRunAssumption
<1>1. Executing(t, r) /\ \A u \in Tasks : Executing(u, r) => u = t
  BY DEF Executing, OneExecutorIfShort, OneExecutorIn
<1>2. holderBar[r] # NoRun
  BY <1>1, HolderIs, NobodyAssumption
<1>3. Holders(r)' = {}
  <2>1. \A u \in Tasks : task'[u].run # r
    BY <1>0, <1>1 DEF Executing, Idle
  <2> QED BY <2>1 DEF Holders, Executing
<1>4. \A s \in ShortRuns : s # r => Holders(s)' = Holders(s)
  BY <1>0 DEF Holders, Executing, Idle
<1>5. holderBar' = [holderBar EXCEPT ![r] = NoRun]
  BY <1>3, <1>4, OneOfFew DEF holderBar
<1> QED BY <1>2, <1>5

LEMMA TaskLeaves ==
    ASSUME TypeInv, ExclusiveInv, OneExecutorIfShort, NEW t \in Tasks,
           task[t].run \in ShortRuns, Leave(t),
           NEW status, PhaseOf(status) \in {"ready", "parked", "done", "stopped"},
           NEW c, NEW due, Save(t, c, status, due)
    PROVE  Life!GiveBack(task[t].run)
<1> DEFINE r == task[t].run
<1>1. r \in Runs /\ TypeOK /\ runs[r].status = "running"
  BY ShortOnes, ShortHeld DEF TypeInv
<1>2. holderBar[r] # NoRun /\ holderBar' = [holderBar EXCEPT ![r] = NoRun]
  BY <1>1, LeaveEffect, HolderLeaves
<1>3. runs'[r].status = status /\ \A s \in Runs : s # r => runs'[s] = runs[s]
  BY <1>1, SaveEffect
<1>4. phaseBar' = [phaseBar EXCEPT ![r] = PhaseOf(status)]
  BY <1>1, <1>3, OnePhase
<1>5. phaseBar[r] = "held"
  BY <1>1, Phases DEF PhaseOf, Claimable
<1> QED BY <1>2, <1>4, <1>5 DEF Life!GiveBack, Life!Move

LEMMA LifeStarts == Init => Life!LifeInit
<1> SUFFICES ASSUME Init PROVE Life!LifeInit
  OBVIOUS
<1>1. PhaseOf(Absent.status) = "none" /\ PhaseOf(Orphan.status) = "held"
  BY DEF PhaseOf, Absent, Orphan, Claimable
<1>2. \A r \in Runs : PhaseOf(runs[r].status) \in {"none", "held"}
  BY <1>1 DEF Init
<1>3. phaseBar \in [ShortRuns -> {"none", "held"}]
  BY <1>2, ShortOnes DEF phaseBar
<1>4. \A r \in ShortRuns : Holders(r) = {}
  BY ShortOnes, NoRunAssumption DEF Init, Holders, Executing, Idle
<1> QED BY <1>3, <1>4, OneOfFew DEF Life!LifeInit, holderBar

LifeStep == [Life!LifeNext]_(Life!lifeVars)

(* A slot's step touches its run's row and its own slot only.              *)
LEMMA EngineStepLocal ==
    ASSUME TypeInv, NEW t \in Tasks, EngineStep(t)
    PROVE  /\ task[t].run \in Runs
           /\ \A s \in Runs : s # task[t].run => runs'[s] = runs[s]
           /\ \A u \in Tasks : u # t => task'[u] = task[u]
           /\ task'[t].run \in {task[t].run, NoRun}
<1>0. ~ At(t, "idle")
  BY DEF EngineStep, Finish, Stop, RequestApproval, Park, BeginDelay, Sleep, RenewLease,
         ExecuteStep, Advance, Fail, BeginStep, AtStep, At
<1>1. task[t].run \in Runs /\ TypeOK /\ runs \in [Runs -> Row] /\ task \in [Tasks -> Task]
  BY <1>0, InFlight DEF TypeInv, TypeOK
<1>2. CASE Leave(t) /\ \E c, status, due : Save(t, c, status, due)
  BY <1>1, <1>2, SaveEffect, LeaveEffect DEF Idle
<1>3. CASE RequestApproval(t) \/ BeginDelay(t) \/ ExecuteStep(t)
  BY <1>1, <1>3 DEF RequestApproval, BeginDelay, ExecuteStep, Goto, Task
<1>4. CASE RenewLease(t)
  BY <1>1, <1>4 DEF RenewLease, Task
<1>5. CASE Advance(t)
  <2>1. PICK next \in NextIndex(task[t].run, task[t].copy) :
           /\ Save(t, WithOutput(task[t].copy, next), "running", TRUE)
           /\ task' = [task EXCEPT ![t].pc = "boundary",
                                   ![t].copy = WithOutput(task[t].copy, next)]
    BY <1>5 DEF Advance
  <2>2. \A s \in Runs : s # task[t].run => runs'[s] = runs[s]
    BY <1>1, <2>1, SaveEffect
  <2> QED BY <1>1, <2>1, <2>2 DEF Task
<1>6. CASE Finish(t) \/ Stop(t) \/ Park(t) \/ Sleep(t) \/ Fail(t)
  BY <1>2, <1>6 DEF Finish, Stop, Park, Sleep, Fail
<1> QED BY <1>3, <1>4, <1>5, <1>6 DEF EngineStep

LEMMA EngineStepLife ==
    ASSUME TypeInv, ExclusiveInv, OneExecutorIfShort, NEW t \in Tasks, EngineStep(t)
    PROVE  LifeStep
<1>0. CASE task[t].run \notin ShortRuns
  <2>1. /\ task[t].run \in Runs \ ShortRuns /\ task'[t].run \notin ShortRuns
        /\ \A s \in Runs : s # task[t].run => runs'[s] = runs[s]
        /\ \A u \in Tasks : u # t => task'[u] = task[u]
    BY <1>0, EngineStepLocal, ShortOnes, NoRunAssumption
  <2> QED BY <2>1, OtherRow, OtherSlot DEF LifeStep, Life!lifeVars
<1> SUFFICES ASSUME task[t].run \in ShortRuns PROVE LifeStep
  BY <1>0
<1>1. /\ task[t].run \in Runs /\ TypeOK /\ runs[task[t].run].status = "running"
      /\ runs \in [Runs -> Row] /\ task \in [Tasks -> Task]
  BY ShortOnes, ShortHeld DEF TypeInv, TypeOK
<1>2. CASE Finish(t) \/ Stop(t) \/ Park(t) \/ Sleep(t) \/ Fail(t)
  <2>1. /\ PhaseOf("succeeded") = "done" /\ PhaseOf("canceled") = "stopped"
        /\ PhaseOf("waiting_approval") = "parked" /\ PhaseOf("sleeping") = "ready"
        /\ PhaseOf("dead_letter") = "stopped" /\ PhaseOf("retrying") = "ready"
    BY DEF PhaseOf, Claimable, Waiting
  <2>2. ASSUME NEW status, NEW due, Save(t, task[t].copy, status, due),
               PhaseOf(status) \in {"ready", "parked", "done", "stopped"}
        PROVE  Life!GiveBack(task[t].run)
    <3>1. Leave(t)
      BY <1>2 DEF Finish, Stop, Park, Sleep, Fail
    <3> QED BY <2>2, <3>1, TaskLeaves
  <2>3. Life!GiveBack(task[t].run)
    <3>1. CASE Sleep(t)
      <4>1. PICK due \in BOOLEAN : Save(t, task[t].copy, "sleeping", due)
        BY <3>1 DEF Sleep
      <4> QED BY <2>1, <2>2, <4>1
    <3>2. CASE Fail(t)
      <4>1. Save(t, task[t].copy, "dead_letter", TRUE) \/ Save(t, task[t].copy, "retrying", FALSE)
        BY <3>2 DEF Fail
      <4> QED BY <2>1, <2>2, <4>1
    <3>3. CASE Finish(t) \/ Stop(t) \/ Park(t)
      <4>1. \/ Save(t, task[t].copy, "succeeded", TRUE)
            \/ Save(t, task[t].copy, "canceled", TRUE)
            \/ Save(t, task[t].copy, "waiting_approval", TRUE)
        BY <3>3 DEF Finish, Stop, Park
      <4> QED BY <2>1, <2>2, <4>1
    <3> QED BY <1>2, <3>1, <3>2, <3>3
  <2> QED BY <1>1, <2>3 DEF LifeStep, Life!LifeNext
<1>3. CASE RequestApproval(t) \/ BeginDelay(t) \/ RenewLease(t) \/ ExecuteStep(t) \/ Advance(t)
  <2>1. \A s \in Runs : runs'[s].status = runs[s].status
    <3>1. CASE RenewLease(t)
      BY <1>1, <3>1 DEF RenewLease, ExtendLease, Row
    <3>2. CASE Advance(t)
      <4>1. PICK c : Save(t, c, "running", TRUE)
        BY <3>2 DEF Advance
      <4>2. /\ \A s \in Runs : s # task[t].run => runs'[s] = runs[s]
            /\ runs'[task[t].run].status = "running"
        BY <1>1, <4>1, SaveEffect
      <4> QED BY <1>1, <4>2
    <3> QED BY <1>3, <3>1, <3>2 DEF RequestApproval, BeginDelay, ExecuteStep
  <2>2. \A u \in Tasks : task'[u].run = task[u].run
    <3>1. CASE Advance(t)
      <4>1. PICK next \in NextIndex(task[t].run, task[t].copy) :
               task' = [task EXCEPT ![t].pc = "boundary",
                                    ![t].copy = WithOutput(task[t].copy, next)]
        BY <3>1 DEF Advance
      <4> QED BY <1>1, <4>1 DEF Task
    <3> QED BY <1>1, <1>3, <3>1 DEF RequestApproval, BeginDelay, RenewLease, ExecuteStep, Goto, Task
  <2> QED BY <2>1, <2>2, ShortOnes, SamePhases, SameHolders DEF LifeStep, Life!lifeVars
<1> QED BY <1>2, <1>3 DEF EngineStep

LEMMA ClaimLife ==
    ASSUME TypeInv, ExclusiveInv, OneExecutorIfShort,
           NEW t \in Tasks, NEW r \in Runs, Claim(t, r)
    PROVE  LifeStep
<1>0. \A s \in ShortRuns : s \in Runs /\ s # NoRun
  BY ShortOnes, NoRunAssumption
<1>1. /\ runs \in [Runs -> Row] /\ task \in [Tasks -> Task]
      /\ task[t].run = NoRun /\ runs[r].status \in Claimable
  BY DEF TypeInv, TypeOK, SlotOK, Claim, CanClaim, Idle
<1>2. /\ runs'[r].status = "running" /\ \A s \in Runs : s # r => runs'[s] = runs[s]
      /\ task'[t].run = r /\ \A u \in Tasks : u # t => task'[u] = task[u]
  BY <1>1 DEF Claim, ClaimDue, Row
<1>3. CASE r \notin ShortRuns
  <2>1. task[t].run \notin ShortRuns /\ task'[t].run \notin ShortRuns
    BY <1>0, <1>1, <1>2, <1>3
  <2> QED BY <1>2, <1>3, <2>1, OtherRow, OtherSlot DEF LifeStep, Life!lifeVars
<1>4. CASE r \in ShortRuns
  <2>1. \A u \in Tasks : ~ Executing(u, r)
    BY <1>1, <1>4, ShortHeld DEF Executing, Claimable
  <2>2. phaseBar[r] = "ready" /\ phaseBar' = [phaseBar EXCEPT ![r] = "held"]
    BY <1>1, <1>2, <1>4, Phases, OnePhase DEF PhaseOf, Claimable
  <2>3. ASSUME NEW s \in ShortRuns PROVE holderBar[s] # t
    <3>1. CASE \E u \in Tasks : Executing(u, s)
      BY <1>0, <1>1, <3>1, HolderIs DEF Executing
    <3>2. CASE ~ \E u \in Tasks : Executing(u, s)
      BY <3>2, HolderIs, NobodyAssumption DEF Holders
    <3> QED BY <3>1, <3>2
  <2>4. holderBar' = [holderBar EXCEPT ![r] = t]
    <3>1. Holders(r)' = {t}
      BY <1>2, <2>1 DEF Holders, Executing
    <3>2. \A s \in ShortRuns : s # r => Holders(s)' = Holders(s)
      BY <1>0, <1>1, <1>2 DEF Holders, Executing
    <3> QED BY <3>1, <3>2, OneOfFew DEF holderBar
  <2>5. Life!Take(r, t)
    BY <2>2, <2>3, <2>4 DEF Life!Take, Life!Move
  <2> QED BY <1>4, <2>5 DEF LifeStep, Life!LifeNext
<1> QED BY <1>3, <1>4

LEMMA DieLife ==
    ASSUME TypeInv, ExclusiveInv, OneExecutorIfShort, NEW t \in Tasks, Die(t)
    PROVE  LifeStep
<1>1. task[t].run \in Runs /\ TypeOK
  BY InFlight DEF Die, TypeInv
<1>2. task'[t] = Idle /\ (\A u \in Tasks : u # t => task'[u] = task[u]) /\ runs' = runs
  BY <1>1, LeaveEffect DEF Die
<1>3. phaseBar' = phaseBar
  BY <1>2, SamePhases
<1>4. CASE task[t].run \in ShortRuns
  <2>1. /\ holderBar[task[t].run] # NoRun
        /\ holderBar' = [holderBar EXCEPT ![task[t].run] = NoRun]
    BY <1>2, <1>4, HolderLeaves
  <2> QED BY <1>3, <1>4, <2>1 DEF LifeStep, Life!LifeNext, Life!Abandon
<1>5. CASE task[t].run \notin ShortRuns
  <2>1. task'[t].run \notin ShortRuns
    BY <1>2, ShortOnes, NoRunAssumption DEF Idle
  <2> QED BY <1>2, <1>3, <1>5, <2>1, OtherSlot DEF LifeStep, Life!lifeVars
<1> QED BY <1>4, <1>5

LEMMA ReapLife ==
    ASSUME TypeInv, ExclusiveInv, OneExecutorIfShort, ReapStale
    PROVE  Life!Reclaim
<1> DEFINE lost == {r \in ShortRuns : IsStale(runs[r])}
<1>1. runs \in [Runs -> Row] /\ ShortRuns \subseteq Runs
  BY ShortOnes DEF TypeInv, TypeOK
<1>2. \A r \in lost : phaseBar[r] = "held" /\ holderBar[r] = NoRun
  <2>1. ASSUME NEW r \in lost PROVE phaseBar[r] = "held" /\ holderBar[r] = NoRun
    <3>1. runs[r].status = "running" /\ runs[r].lease_until # "future"
      BY DEF IsStale
    <3>2. \A t \in Tasks : ~ Executing(t, r)
      BY <3>1, ShortHeld DEF Executing
    <3> QED BY <1>1, <3>1, <3>2, Phases, HolderIs DEF PhaseOf, Claimable, Holders
  <2> QED BY <2>1
<1>3. \A r \in lost : PhaseOf(runs'[r].status) \in {"ready", "stopped"}
  <2>1. \A r \in lost : runs'[r] = Reap(runs[r])
    BY <1>1 DEF ReapStale
  <2>2. \A r \in lost : Reap(runs[r]).status \in {"dead_letter", "retrying"}
    BY <1>1 DEF Reap, Row
  <2> QED BY <2>1, <2>2 DEF PhaseOf, Claimable, Waiting
<1>4. \A r \in ShortRuns \ lost : runs'[r] = runs[r]
  BY <1>1 DEF ReapStale
<1>5. holderBar' = holderBar
  BY SameHolders DEF ReapStale
<1>6. phaseBar' = [r \in ShortRuns |-> PhaseOf(runs'[r].status)]
  BY DEF phaseBar
<1>7. phaseBar' \in [ShortRuns -> Life!Phase]
  BY <1>6 DEF PhaseOf, Life!Phase
<1>8. \A r \in ShortRuns : IF r \in lost THEN phaseBar'[r] \in {"ready", "stopped"}
                                          ELSE phaseBar'[r] = phaseBar[r]
  BY <1>3, <1>4, <1>6, Phases
<1>9. lost \in SUBSET {r \in ShortRuns : phaseBar[r] = "held" /\ holderBar[r] = NoRun}
  BY <1>2
<1> QED BY <1>5, <1>7, <1>8, <1>9 DEF Life!Reclaim

LEMMA EnvironmentLife ==
    ASSUME TypeInv, ExclusiveInv, OneExecutorIfShort, Environment
    PROVE  LifeStep
<1>1. runs \in [Runs -> Row]
  BY DEF TypeInv, TypeOK
<1>2. CASE ReapStale
  BY <1>2, ReapLife DEF LifeStep, Life!LifeNext
<1>3. CASE ~ ReapStale
  <2>1. holderBar' = holderBar
    BY <1>3, SameHolders DEF Environment, Enqueue, Cancel, Retry, LeaseLapses, BecomesDue
  <2>2. ASSUME NEW r \in ShortRuns, Enqueue(r) PROVE LifeStep
    <3>1. phaseBar' = [phaseBar EXCEPT ![r] = "ready"] /\ phaseBar[r] = "none"
      BY <1>1, <2>2, ShortOnes, OnePhase, Phases DEF Enqueue, NewRun, Absent, PhaseOf, Claimable
    <3> QED BY <2>1, <3>1 DEF LifeStep, Life!LifeNext, Life!Submit, Life!Move
  <2>3. ASSUME NEW r \in ShortRuns, Cancel(r) PROVE LifeStep
    <3>0. r \in Runs
      BY ShortOnes
    <3>1. CASE runs[r].status = "running"
      <4>1. \A s \in Runs : runs'[s].status = runs[s].status
        BY <1>1, <2>3, <3>0, <3>1 DEF Cancel, RequestCancel, Row
      <4> QED BY <2>1, <4>1, ShortOnes, SamePhases DEF LifeStep, Life!lifeVars
    <3>2. CASE runs[r].status # "running"
      <4>1. runs'[r].status = "canceled" /\ \A s \in Runs : s # r => runs'[s] = runs[s]
        BY <1>1, <2>3, <3>0, <3>2 DEF Cancel, RequestCancel, Row
      <4>2. runs[r].status \in Claimable \cup Waiting
        BY <2>3, <3>2 DEF Cancel, CanCancel
      <4>3. phaseBar' = [phaseBar EXCEPT ![r] = "stopped"]
        BY <4>1, OnePhase DEF PhaseOf, Claimable, Waiting
      <4>4. phaseBar[r] \in {"ready", "parked"}
        BY <4>2, Phases DEF PhaseOf, Claimable, Waiting
      <4> QED BY <2>1, <4>3, <4>4 DEF LifeStep, Life!LifeNext, Life!Withdraw, Life!Move
    <3> QED BY <3>1, <3>2
  <2>4. ASSUME NEW r \in ShortRuns, Retry(r) PROVE LifeStep
    <3>0. r \in Runs
      BY ShortOnes
    <3>1. PICK restart \in BOOLEAN : runs' = [runs EXCEPT ![r] = Requeue(runs[r], restart)]
      BY <2>4 DEF Retry
    <3>2. Requeue(runs[r], restart).status = "queued"
      BY <1>1, <3>0 DEF Requeue, Row
    <3>3. phaseBar' = [phaseBar EXCEPT ![r] = "ready"]
      BY <1>1, <3>0, <3>1, <3>2, OnePhase DEF PhaseOf, Claimable
    <3>4. phaseBar[r] = "stopped"
      BY <2>4, Phases DEF Retry, CanRequeue, PhaseOf, Claimable, Waiting
    <3> QED BY <2>1, <3>3, <3>4 DEF LifeStep, Life!LifeNext, Life!Reopen, Life!Move
  <2>5. ASSUME NEW r \in Runs, LeaseLapses(r) \/ BecomesDue(r) PROVE LifeStep
    <3>1. \A s \in Runs : runs'[s].status = runs[s].status
      BY <1>1, <2>5 DEF LeaseLapses, BecomesDue, Row
    <3> QED BY <2>1, <3>1, ShortOnes, SamePhases DEF LifeStep, Life!lifeVars
  <2>6. ASSUME NEW r \in Runs \ ShortRuns,
               Enqueue(r) \/ Cancel(r) \/ Retry(r) PROVE LifeStep
    <3>1. \A s \in Runs : s # r => runs'[s] = runs[s]
      BY <1>1, <2>6 DEF Enqueue, Cancel, Retry
    <3> QED BY <2>1, <3>1, OtherRow DEF LifeStep, Life!lifeVars
  <2> QED BY <1>3, <2>2, <2>3, <2>4, <2>5, <2>6 DEF Environment
<1> QED BY <1>2, <1>3

LEMMA NextLife ==
    ASSUME TypeInv, ExclusiveInv, OneExecutorIfShort, [Next]_vars
    PROVE  [Life!LifeNext]_(Life!lifeVars)
<1>1. CASE Environment
  BY <1>1, EnvironmentLife DEF LifeStep
<1>2. ASSUME NEW t \in Tasks, EngineStep(t) PROVE LifeStep
  BY <1>2, EngineStepLife
<1>3. ASSUME NEW t \in Tasks, Die(t) PROVE LifeStep
  BY <1>3, DieLife
<1>4. ASSUME NEW t \in Tasks, NEW r \in Runs, Claim(t, r) PROVE LifeStep
  BY <1>4, ClaimLife
<1>5. CASE UNCHANGED vars
  BY <1>5, SamePhases, SameHolders DEF vars, Life!lifeVars, LifeStep
<1> QED BY <1>1, <1>2, <1>3, <1>4, <1>5 DEF Next, LifeStep

(* engine.rs:6-10, worker.rs:9-10: for the runs whose own steps do not     *)
(* outlast the lease, rows, leases and slots implement exclusive ownership:*)
(* every statement of the engine, the reaper and the API, and everything   *)
(* the other runs do, is one step of the life cycle or nothing that a      *)
(* client can tell.                                                        *)
THEOREM ImplementsLifecycle == UnstarvedSpec => Lifecycle
<1>1. TypeInv /\ ExclusiveInv /\ OneExecutorIfShort /\ [Next]_vars
         => [Life!LifeNext]_(Life!lifeVars)
  BY NextLife
<1> QED
  BY <1>1, LifeStarts, TypeInvariant, ExclusiveInvariant, MutualExclusion, AlwaysUnstarved, PTL
     DEF Spec, Lifecycle, Life!LifeSpec
=============================================================================
