----------------------------- MODULE Admission ------------------------------
(***************************************************************************)
(* What an idempotency key promises the clients that share it: the first   *)
(* admission creates a run, every answer given for the key names that run, *)
(* and only the deletion of the run frees the key.                         *)
(***************************************************************************)
EXTENDS Naturals

CONSTANTS
    Requests,      \* the requests that clients make, and make again
    Keys,          \* idempotency keys
    KeyOf          \* KeyOf[q]: the key that request q carries, if it carries one

VARIABLES
    owner,         \* owner[k]: the run admitted under k, 0 for none
    answer,        \* answer[q]: the run that request q was answered with, 0 for none
    last           \* the latest run, of any key

admissionVars == <<owner, answer, last>>

AdmissionInit ==
    /\ owner = [k \in Keys |-> 0]
    /\ answer = [q \in Requests |-> 0]
    /\ last \in Nat

(* A new run takes the key; the answer may get lost.                       *)
Admit(q) ==
    /\ answer[q] = 0
    /\ KeyOf[q] \in Keys => owner[KeyOf[q]] = 0
    /\ last' = last + 1
    /\ owner' = [k \in Keys |-> IF k = KeyOf[q] THEN last' ELSE owner[k]]
    /\ answer' \in {answer, [answer EXCEPT ![q] = last']}

Repeat(q) ==
    /\ answer[q] = 0
    /\ KeyOf[q] \in Keys /\ owner[KeyOf[q]] # 0
    /\ answer' = [answer EXCEPT ![q] = owner[KeyOf[q]]]
    /\ UNCHANGED <<owner, last>>

Forget ==
    /\ \E S \in SUBSET Keys : owner' = [k \in Keys |-> IF k \in S THEN 0 ELSE owner[k]]
    /\ UNCHANGED <<answer, last>>

AdmissionNext == Forget \/ \E q \in Requests : Admit(q) \/ Repeat(q)

AdmissionSpec == AdmissionInit /\ [][AdmissionNext]_admissionVars
=============================================================================
