------------------------------ MODULE MCRunApi ------------------------------
(* Instances of RunApi for TLC.                                            *)
EXTENDS RunApi, TLC

CONSTANTS r1, t1, t2, h1, h2, p1

OneGatePlan == [r \in Runs |-> <<"approval", "log">>]

OneReplica == [t \in Tasks |-> "replica"]

ApiSymmetry == Permutations(Tasks) \cup Permutations(Resolvers)
=============================================================================
