---------------------------- MODULE MCRunEngine -----------------------------
(* Instances of RunEngine for TLC: the workflows the runs execute.         *)
EXTENDS RunRefinement, TLC

CONSTANTS r1, r2, t1, t2

(* Two runs whose steps the code bounds well below the lease, as           *)
(* engine.rs:27-29 assumes of every step: one executes two steps, the other*)
(* sleeps and asks for approval.                                           *)
TwoRunsPlan == r1 :> <<"http", "log">> @@ r2 :> <<"delay", "approval">>

(* A step during which a flag may be set, and then one that does not act.  *)
DelayPlan == [r \in Runs |-> <<"http", "delay">>]

(* A script step may outlast the lease.                                    *)
ScriptPlan == [r \in Runs |-> <<"script", "http">>]

(* All slots are of one replica.                                           *)
OneReplica == [t \in Tasks |-> "replica"]

TaskSymmetry == Permutations(Tasks)
=============================================================================
