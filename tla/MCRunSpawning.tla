--------------------------- MODULE MCRunSpawning ----------------------------
(* Instances of RunSpawning for TLC: a caller and the runs it creates.     *)
EXTENDS RunSpawning, TLC

CONSTANTS caller, first, second, item, t1, t2

(* Two calls in a row, then one run per item by a step that may outlast    *)
(* the lease.                                                              *)
CallsPlan == caller :> <<"subworkflow", "subworkflow", "foreach">> @@ first :> <<"http">>
             @@ second :> <<>> @@ item :> <<>>

CallsChildren == caller :> <<<<first>>, <<second>>, <<item>>>> @@ first :> <<<<>>>>
                 @@ second :> <<>> @@ item :> <<>>

OneCallPlan == caller :> <<"subworkflow", "log">> @@ first :> <<"http">>

OneCallChildren == caller :> <<<<first>>, <<>>>> @@ first :> <<<<>>>>

(* All slots are of one replica, which has a thread for each.              *)
OneReplica == [t \in Tasks |-> "replica"]

TaskSymmetry == Permutations(Tasks)
=============================================================================
