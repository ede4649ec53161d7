---------------------------- MODULE RunSpawning -----------------------------
(***************************************************************************)
(* The steps that create runs of their own (engine.rs): a foreach step     *)
(* creates one run per item and goes on; a subworkflow step creates one    *)
(* run and parks its own until the child, once it has succeeded, puts the  *)
(* parent back into the queue.  The identity of a created run stands for   *)
(* its idempotency key ("<run>_<step>_sub", "<run>_<step>_foreach_<i>"):   *)
(* inserting it again violates the unique index.                           *)
(***************************************************************************)
EXTENDS RunEngine

CONSTANT Children   \* Children[r][i + 1]: the runs that step i of r creates, in order

VARIABLES
    spawned,       \* how many runs the step that a slot executes has created
    resumer        \* what a slot does for the parent of the run it finished

spawnVars == <<runs, run_steps, approvals, task, spawned, resumer>>

(* The steps of a kind in all plans, and the runs that such a step creates.*)
Steps(kind) == UNION {{r} \X {i \in 0 .. (Len(Plan[r]) - 1) : Plan[r][i + 1] = kind} :
                         r \in Runs}

Spawns(s) == Children[s[1]][s[2] + 1]

SpawningSteps == Steps("subworkflow") \cup Steps("foreach")
Created       == UNION {{Spawns(s)[k] : k \in DOMAIN Spawns(s)} : s \in SpawningSteps}

(* A subworkflow step creates one run, and no key is used by two steps: the*)
(* ids of a workflow's steps, of which the keys are made, are taken to be  *)
(* distinct, which nothing in the code sees to.  (Of two steps with one id *)
(* the second would always find its key taken and fail.)                   *)
ASSUME ChildrenAssumption ==
    /\ \A s \in SpawningSteps : Spawns(s) \in Seq(Runs)
    /\ \A s \in Steps("subworkflow") : Len(Spawns(s)) = 1
    /\ \A s, u \in SpawningSteps : \A k \in DOMAIN Spawns(s), l \in DOMAIN Spawns(u) :
          Spawns(s)[k] = Spawns(u)[l] => s = u /\ k = l

(* `_parent` in the context of run c, as an index that no step of c has.   *)
ParentKey(c) == Len(Plan[c])

(* The step that a child's `_parent` names.                                *)
Caller(c) == CHOOSE s \in Steps("subworkflow") : Spawns(s)[1] = c

NewChild(s, c) ==
    IF s \in Steps("subworkflow") THEN [NewRun EXCEPT !.context = {ParentKey(c)}] ELSE NewRun

(* "load"   the child is saved as succeeded, its parent not yet read       *)
(* "store"  the parent was read as waiting_subworkflow, not yet saved      *)
(* "log"    the parent is saved, its step not yet logged                   *)
Resumer == [pc : {"idle", "load", "store", "log"}, child : Runs \cup {NoRun}, copy : Copy]

IdleResumer == [pc |-> "idle", child |-> NoRun, copy |-> ReadRun(Absent)]

SpawnInit ==
    /\ Init
    /\ \A c \in Created : runs[c] = Absent
    /\ spawned = [t \in Tasks |-> 0]
    /\ resumer = [t \in Tasks |-> IdleResumer]

-----------------------------------------------------------------------------
(* execute_subworkflow and execute_foreach, one create_run at a time.      *)

CurrentStep(t) == <<task[t].run, task[t].copy.cursor>>

AtSpawn(t) == At(t, "execute") /\ CurrentStep(t) \in SpawningSteps

NextChild(t) == Spawns(CurrentStep(t))[spawned[t] + 1]

AllSpawned(t) == spawned[t] = Len(Spawns(CurrentStep(t)))

Insert(t) ==
    LET c == NextChild(t) IN runs' = [runs EXCEPT ![c] = NewChild(CurrentStep(t), c)]

SpawnChild(t) ==
    /\ AtSpawn(t) /\ ~ AllSpawned(t)
    /\ runs[NextChild(t)].status = "absent"
    /\ Insert(t)
    /\ spawned' = [spawned EXCEPT ![t] = @ + 1]
    /\ UNCHANGED <<run_steps, approvals, task, resumer>>

(* The step fails, for good or to be retried: an earlier execution of it   *)
(* has created the run, the target workflow is missing or disabled, the    *)
(* items are no list, or the statement fails.                              *)
SpawnFails(t) ==
    /\ AtSpawn(t)
    /\ AllSpawned(t) => spawned[t] = 0
    /\ Goto(t, "fail")
    /\ spawned' = [spawned EXCEPT ![t] = 0]
    /\ UNCHANGED <<runs, run_steps, approvals, resumer>>

(* The insertion commits and its answer is lost.                           *)
SpawnAnswerLost(t) ==
    /\ AtSpawn(t) /\ ~ AllSpawned(t)
    /\ runs[NextChild(t)].status = "absent"
    /\ Insert(t)
    /\ Goto(t, "fail")
    /\ spawned' = [spawned EXCEPT ![t] = 0]
    /\ UNCHANGED <<run_steps, approvals, resumer>>

ForeachDone(t) ==
    /\ AtSpawn(t) /\ AllSpawned(t) /\ Current(t) = "foreach"
    /\ LogSuccess(t)
    /\ Goto(t, "advance")
    /\ spawned' = [spawned EXCEPT ![t] = 0]
    /\ UNCHANGED <<runs, approvals, resumer>>

(* Variants: a status no statement of db.rs knows; the parent is saved past*)
(* its step.                                                               *)
AwaitChildMisspelt(t) ==
    /\ AtSpawn(t) /\ AllSpawned(t) /\ Current(t) = "subworkflow"
    /\ Save(t, task[t].copy, "waiting_child", TRUE)
    /\ Leave(t)
    /\ spawned' = [spawned EXCEPT ![t] = 0]
    /\ UNCHANGED <<run_steps, approvals, resumer>>

AwaitChildMovesOn(t) ==
    /\ AtSpawn(t) /\ AllSpawned(t) /\ Current(t) = "subworkflow"
    /\ Save(t, [task[t].copy EXCEPT !.cursor = @ + 1], "waiting_subworkflow", TRUE)
    /\ Leave(t)
    /\ spawned' = [spawned EXCEPT ![t] = 0]
    /\ UNCHANGED <<run_steps, approvals, resumer>>

AwaitChild(t) ==
    /\ AtSpawn(t) /\ AllSpawned(t) /\ Current(t) = "subworkflow"
    /\ Save(t, task[t].copy, "waiting_subworkflow", TRUE)
    /\ Leave(t)
    /\ spawned' = [spawned EXCEPT ![t] = 0]
    /\ UNCHANGED <<run_steps, approvals, resumer>>

-----------------------------------------------------------------------------
(* The end of a run, and the resume of its parent.                         *)

FinishRun(t) ==
    LET c == task[t].run IN
    /\ Finish(t)
    /\ resumer' = IF ParentKey(c) \in task[t].copy.context
                  THEN [resumer EXCEPT ![t].pc = "load", ![t].child = c] ELSE resumer
    /\ UNCHANGED spawned

Parent(t) == Caller(resumer[t].child)[1]

(* Variant: the parent is not asked whether it waits.                      *)
LoadParentUnguarded(t) ==
    /\ resumer[t].pc = "load"
    /\ resumer' = [resumer EXCEPT ![t].pc = "store", ![t].copy = ReadRun(runs[Parent(t)])]
    /\ UNCHANGED <<vars, spawned>>

LoadParent(t) ==
    LET row == runs[Parent(t)] IN
    /\ resumer[t].pc = "load"
    /\ resumer' = IF row.status = "waiting_subworkflow"
                  THEN [resumer EXCEPT ![t].pc = "store", ![t].copy = ReadRun(row)]
                  ELSE [resumer EXCEPT ![t] = IdleResumer]
    /\ UNCHANGED <<vars, spawned>>

(* Variants: the parent resumes at the step it waited in; the child's      *)
(* context replaces the parent's.                                          *)
ResumeParentInPlace(t) ==
    LET c == resumer[t].copy IN
    /\ resumer[t].pc = "store"
    /\ runs' = [runs EXCEPT ![Parent(t)] = SaveProgress(@,
                   [c EXCEPT !.context = @ \cup {Caller(resumer[t].child)[2]}], "queued", TRUE)]
    /\ resumer' = [resumer EXCEPT ![t].pc = "log"]
    /\ UNCHANGED <<run_steps, approvals, task, spawned>>

ResumeParentChildOnly(t) ==
    LET c == resumer[t].copy IN
    /\ resumer[t].pc = "store"
    /\ runs' = [runs EXCEPT ![Parent(t)] = SaveProgress(@,
                   [c EXCEPT !.context = {Caller(resumer[t].child)[2]},
                             !.cursor = @ + 1], "queued", TRUE)]
    /\ resumer' = [resumer EXCEPT ![t].pc = "log"]
    /\ UNCHANGED <<run_steps, approvals, task, spawned>>

(* The child's context goes under the step that `_parent` names; the       *)
(* cursor moves on from wherever the parent was read.                      *)
ResumeParent(t) ==
    LET c == resumer[t].copy IN
    /\ resumer[t].pc = "store"
    /\ runs' = [runs EXCEPT ![Parent(t)] = SaveProgress(@,
                   [c EXCEPT !.context = @ \cup {Caller(resumer[t].child)[2]},
                             !.cursor = @ + 1], "queued", TRUE)]
    /\ resumer' = [resumer EXCEPT ![t].pc = "log"]
    /\ UNCHANGED <<run_steps, approvals, task, spawned>>

LogResume(t) ==
    /\ resumer[t].pc = "log"
    /\ run_steps' = [run_steps EXCEPT ![Parent(t)] = @ \cup {resumer[t].copy.cursor}]
    /\ resumer' = [resumer EXCEPT ![t] = IdleResumer]
    /\ UNCHANGED <<runs, approvals, task, spawned>>

(* A crash, or a failed statement.                                         *)
ResumerDropped(t) ==
    /\ resumer[t].pc # "idle"
    /\ resumer' = [resumer EXCEPT ![t] = IdleResumer]
    /\ UNCHANGED <<vars, spawned>>

-----------------------------------------------------------------------------

(* What a task does besides, and its death in mid-step.                    *)
OtherStep(t) ==
    /\ \/ Stop(t) \/ RequestApproval(t) \/ Park(t) \/ BeginDelay(t) \/ Sleep(t)
       \/ RenewLease(t) \/ Advance(t) \/ Fail(t)
       \/ ~ AtSpawn(t) /\ ExecuteStep(t)
    /\ UNCHANGED <<spawned, resumer>>

DieSpawning(t) ==
    /\ Die(t)
    /\ spawned' = [spawned EXCEPT ![t] = 0]
    /\ UNCHANGED resumer

(* A slot is taken until the resume of the parent has ended.               *)
ClaimFree(t, r) ==
    /\ resumer[t].pc = "idle"
    /\ Claim(t, r)
    /\ UNCHANGED <<spawned, resumer>>

TaskStep(t) ==
    \/ OtherStep(t) \/ FinishRun(t)
    \/ SpawnChild(t) \/ SpawnFails(t) \/ SpawnAnswerLost(t)
    \/ ForeachDone(t) \/ AwaitChild(t)
    \/ LoadParent(t) \/ ResumeParent(t) \/ LogResume(t)

Around ==
    /\ \/ ReapStale
       \/ \E r \in Runs : \/ r \notin Created /\ Enqueue(r)
                          \/ Cancel(r) \/ Retry(r) \/ LeaseLapses(r) \/ BecomesDue(r)
    /\ UNCHANGED <<spawned, resumer>>

SpawnNext ==
    \/ Around
    \/ \E t \in Tasks : TaskStep(t) \/ DieSpawning(t) \/ ResumerDropped(t)
                        \/ \E r \in Runs : ClaimFree(t, r)

SpawnSpec == SpawnInit /\ [][SpawnNext]_spawnVars

(* As in RunEngine: foreach steps never hold all threads of a replica.     *)
UnstarvedSpawnSpec == SpawnInit /\ [][SpawnNext /\ Unstarved']_spawnVars

-----------------------------------------------------------------------------
(* Properties.                                                             *)

SpawnTypeOK ==
    /\ TypeOK
    /\ spawned \in [Tasks -> Nat]
    /\ resumer \in [Tasks -> Resumer]

(* Runs that do not branch and call only workflows whose steps neither     *)
(* outlast the lease nor call.  A child that does can finish twice, and the*)
(* later finisher resumes a parent that already waits for its next child.  *)
PlainCallers ==
    {r \in LinearRuns : \A s \in Steps("subworkflow") : s[1] = r =>
        \A i \in DOMAIN Plan[Spawns(s)[1]] :
            Plan[Spawns(s)[1]][i] \notin SlowKinds \cup {"subworkflow"}}

(* engine.rs:128-134, 207-221: such a run gets past a subworkflow step only*)
(* with the output of a child that succeeded in its context, and past a    *)
(* foreach step only when the run of every item exists, whatever crashes,  *)
(* refused keys and overlapping executions of the parent came before, and  *)
(* whatever the other runs do.                                             *)
PassedOnlyIfSpawned ==
    \A s \in SpawningSteps : LET row == runs[s[1]] IN
        s[1] \in PlainCallers /\ row.cursor > s[2] =>
            /\ \A k \in DOMAIN Spawns(s) : runs[Spawns(s)[k]].status # "absent"
            /\ s \in Steps("subworkflow") =>
                  s[2] \in row.context /\ runs[Spawns(s)[1]].status = "succeeded"

(* Runs whose steps neither outlast the lease nor call.                    *)
LeafRuns == {r \in ShortRuns : \A s \in Steps("subworkflow") : s[1] # r}

(* worker.rs:9-10: such a run has one executor, whoever created it, waits  *)
(* for it or executes slow steps beside it.  A caller may get a second one:*)
(* its child's finisher writes back an old copy of it.                     *)
OneExecutorOfLeaves == OneExecutorIn(LeafRuns)

(* engine.rs:209-219: the child's output goes under the step that `_parent`*)
(* names, the log and the cursor go by where the parent was read; for such *)
(* a run the two are one step, whoever else worked on the parent meanwhile.*)
ResumesItsCall ==
    \A t \in Tasks :
        resumer[t].pc \in {"store", "log"} /\ Parent(t) \in PlainCallers =>
            resumer[t].copy.cursor = Caller(resumer[t].child)[2]

(* engine.rs:214: a resume adds to the parent's context, and nothing that  *)
(* happens around it loses what an earlier step of such a run put there.   *)
OutputsKept ==
    \A r \in PlainCallers : \A i \in Producing(r) :
        i < runs[r].cursor => i \in runs[r].context

(* engine.rs:207: if a run was triggered as a subworkflow, its success     *)
(* resumes the parent: none waits for a child that has already succeeded.  *)
SuccessResumesParent ==
    \A s \in Steps("subworkflow") : LET c == Spawns(s)[1] IN
        /\ runs[s[1]].status = "waiting_subworkflow" /\ runs[s[1]].cursor = s[2]
        /\ runs[c].status = "succeeded"
        => \E t \in Tasks : resumer[t].pc # "idle" /\ resumer[t].child = c
=============================================================================
