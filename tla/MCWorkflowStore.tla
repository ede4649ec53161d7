-------------------------- MODULE MCWorkflowStore ---------------------------
(* Instances of WorkflowStore for TLC.                                     *)
EXTENDS WorkflowStore, TLC

CONSTANTS w1, d1, d2, a, b, h, key

(* Two requests with one key, and a webhook.                               *)
SharedKey == a :> key @@ b :> key @@ h :> "none"

OneWorkflow == [q \in Requests |-> w1]
=============================================================================
