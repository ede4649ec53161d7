--------------------------- MODULE RunRefinement ----------------------------
(* RunEngine implements RunLifecycle for the runs whose steps do not       *)
(* outlast the lease, whatever the others do.                              *)
EXTENDS RunEngine

ASSUME NobodyAssumption == NoRun \notin Tasks

PhaseOf(status) ==
    IF      status = "absent"    THEN "none"
    ELSE IF status \in Claimable THEN "ready"
    ELSE IF status = "running"   THEN "held"
    ELSE IF status \in Waiting   THEN "parked"
    ELSE IF status = "succeeded" THEN "done"
                                 ELSE "stopped"

Holders(r) == {t \in Tasks : Executing(t, r)}

OneOf(S) == IF S = {} THEN NoRun ELSE CHOOSE t \in S : TRUE

phaseBar  == [r \in ShortRuns |-> PhaseOf(runs[r].status)]
holderBar == [r \in ShortRuns |-> OneOf(Holders(r))]

Life == INSTANCE RunLifecycle
            WITH Runs <- ShortRuns, Workers <- Tasks, Nobody <- NoRun,
                 phase <- phaseBar, holder <- holderBar

(* engine.rs:6-10, worker.rs:9-10: the rows, leases and slots behave like  *)
(* exclusive ownership: every step of the engine, the reaper and the API   *)
(* is a step of the life cycle or changes nothing a client can tell.       *)
Lifecycle == Life!LifeSpec
=============================================================================
