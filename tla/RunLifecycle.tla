---------------------------- MODULE RunLifecycle ----------------------------
(***************************************************************************)
(* What the run queue promises its clients, without rows, leases or steps: *)
(* a run is held by at most one worker, only a ready run can be taken, a   *)
(* run whose worker is gone comes back or is stopped, a finished run stays *)
(* finished and a stopped one starts again only when it is reopened.       *)
(***************************************************************************)
CONSTANTS
    Runs, Workers,
    Nobody          \* the holder of a run that no worker holds

VARIABLES
    phase,          \* where each run is in its life
    holder          \* the worker that executes it

lifeVars == <<phase, holder>>

(* "none"    not submitted              "parked"   waits for a decision    *)
(* "ready"   may be taken               "done"     succeeded               *)
(* "held"    taken, not yet given back  "stopped"  failed or canceled      *)
Phase == {"none", "ready", "held", "parked", "done", "stopped"}

LifeInit ==
    /\ phase \in [Runs -> {"none", "held"}]
    /\ holder = [r \in Runs |-> Nobody]

Move(r, from, to) == phase[r] \in from /\ phase' = [phase EXCEPT ![r] = to]

Submit(r) == Move(r, {"none"}, "ready") /\ UNCHANGED holder

Take(r, w) ==
    /\ Move(r, {"ready"}, "held")
    /\ \A s \in Runs : holder[s] # w
    /\ holder' = [holder EXCEPT ![r] = w]

(* The holder gives the run back: for later, to wait, finished or stopped. *)
GiveBack(r) ==
    /\ holder[r] # Nobody
    /\ \E to \in {"ready", "parked", "done", "stopped"} : Move(r, {"held"}, to)
    /\ holder' = [holder EXCEPT ![r] = Nobody]

(* The holder is gone and the run is still marked as held.                 *)
Abandon(r) ==
    /\ holder[r] # Nobody
    /\ holder' = [holder EXCEPT ![r] = Nobody]
    /\ UNCHANGED phase

(* Some of the abandoned runs are made ready again or stopped, at once.    *)
Reclaim ==
    /\ \E lost \in SUBSET {r \in Runs : phase[r] = "held" /\ holder[r] = Nobody} :
          phase' \in [Runs -> Phase]
          /\ \A r \in Runs : IF r \in lost THEN phase'[r] \in {"ready", "stopped"}
                                           ELSE phase'[r] = phase[r]
    /\ UNCHANGED holder

Withdraw(r) == Move(r, {"ready", "parked"}, "stopped") /\ UNCHANGED holder

Reopen(r) == Move(r, {"stopped"}, "ready") /\ UNCHANGED holder

LifeNext ==
    \/ Reclaim
    \/ \E r \in Runs :
          \/ Submit(r) \/ GiveBack(r) \/ Abandon(r) \/ Withdraw(r) \/ Reopen(r)
          \/ \E w \in Workers : Take(r, w)

LifeSpec == LifeInit /\ [][LifeNext]_lifeVars
=============================================================================
