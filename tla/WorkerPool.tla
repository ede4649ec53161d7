----------------------------- MODULE WorkerPool -----------------------------
(***************************************************************************)
(* The claim loop of one replica (worker.rs): a semaphore of MaxConcurrent *)
(* permits, the wake-up signal WAKE that kick() sets, and the due rows it  *)
(* drains.  Rows are counted, not named: what the loop does with a claimed *)
(* run is RunEngine's.  The process lives throughout; the reaper and the   *)
(* other replicas appear as rows that come back or go away.  The loop, its *)
(* timer, the executions and the handlers share the threads of one tokio   *)
(* runtime, which a rhai script holds until it returns.                    *)
(***************************************************************************)
EXTENDS Naturals

CONSTANTS
    MaxConcurrent,   \* MAX_CONCURRENT
    Threads,         \* threads of the tokio runtime, one per core
    MaxArrivals,     \* bound: rows that ever become due
    MaxErrors,       \* bound: claims that fail or meet locked rows
    MaxHung          \* bound: executions that never return (a rhai script may not)

ASSUME ConcurrencyAssumption == MaxConcurrent \in Nat \ {0} /\ Threads \in Nat \ {0}
ASSUME BoundsAssumption == MaxArrivals \in Nat /\ MaxErrors \in Nat /\ MaxHung \in Nat

VARIABLES
    loop,       \* where the claim loop is
    free,       \* permits in the semaphore
    held,       \* permits the loop has reserved
    claimed,    \* rows of the claim whose answer the loop awaits
    running,    \* spawned executions that will return, one permit each
    hung,       \* spawned executions that will not: a permit and a thread each
    token,      \* WAKE holds a notification
    fresh,      \* due rows whose insertion is, or was, followed by a kick
    timed,      \* due rows nobody announces (any more)
    kicks,      \* rows inserted whose kick is still to come
    lost,       \* rows claimed by a statement whose answer was lost
    arrivals, errors

poolVars == <<loop, free, held, claimed, running, hung, token, fresh, timed, kicks, lost,
              arrivals, errors>>

(* "answer"    the claim has run in the database, its answer is awaited    *)
(* "wait"      the last claim found nothing due                            *)
(* "back_off"  the last claim failed; the same select! as "wait"           *)
Init ==
    /\ loop = "acquire"
    /\ free = MaxConcurrent
    /\ held = 0 /\ claimed = 0 /\ running = 0 /\ hung = 0
    /\ token = FALSE
    /\ fresh = 0 /\ timed = 0 /\ kicks = 0 /\ lost = 0
    /\ arrivals = 0 /\ errors = 0

Due == fresh + timed

(* A thread is left to poll the loop, its timer and the other tasks.       *)
ThreadFree == hung < Threads

Least(m, n) == IF m <= n THEN m ELSE n

-----------------------------------------------------------------------------
(* The loop.                                                               *)

(* One permit is awaited, then every other free one is taken.              *)
Reserve ==
    /\ loop = "acquire" /\ ThreadFree
    /\ free > 0
    /\ held' = free /\ free' = 0
    /\ loop' = "claim"
    /\ UNCHANGED <<claimed, running, hung, token, fresh, timed, kicks, lost, arrivals, errors>>

(* Variant: the claim is not limited to the permits at hand.               *)
ClaimRunsUnlimited ==
    /\ loop = "claim" /\ loop' = "answer"
    /\ fresh' = 0 /\ timed' = 0 /\ claimed' = Due
    /\ UNCHANGED <<free, held, running, hung, token, kicks, lost, arrivals, errors>>

(* The statement, past f fresh and m timed rows that others have locked.   *)
(* It takes new rows first: they are queued with next_attempt_at 0.  What  *)
(* it skips has had its kick.                                              *)
ClaimPast(f, m) ==
    LET n == Least(held, Due - (f + m))
        k == Least(n, fresh - f) IN
    /\ loop = "claim" /\ loop' = "answer"
    /\ fresh' = fresh - (k + f) /\ timed' = timed - (n - k) + f /\ claimed' = n
    /\ UNCHANGED <<free, held, running, hung, token, kicks, lost, arrivals>>

ClaimRuns == ClaimPast(0, 0) /\ UNCHANGED errors

(* SKIP LOCKED: another statement works on some of the rows.               *)
ClaimSkipping ==
    /\ errors < MaxErrors /\ errors' = errors + 1
    /\ \E f \in 0 .. fresh, m \in 0 .. timed : ClaimPast(f, m)

(* Each claimed run takes its permit along, the others go back.            *)
StartRuns ==
    /\ loop = "answer" /\ ThreadFree
    /\ loop' = IF claimed > 0 THEN "acquire" ELSE "wait"
    /\ running' = running + claimed /\ claimed' = 0
    /\ free' = free + (held - claimed) /\ held' = 0
    /\ UNCHANGED <<hung, token, fresh, timed, kicks, lost, arrivals, errors>>

(* Variant: the permits are not returned on an error.                      *)
ClaimFailsLeaking ==
    /\ loop \in {"claim", "answer"} /\ ThreadFree
    /\ loop' = "back_off"
    /\ errors < MaxErrors /\ errors' = errors + 1
    /\ lost' = lost + claimed /\ claimed' = 0
    /\ held' = 0
    /\ UNCHANGED <<free, running, hung, token, fresh, timed, kicks, arrivals>>

(* The statement fails, or commits and its answer never arrives.           *)
ClaimFails ==
    /\ loop \in {"claim", "answer"} /\ ThreadFree
    /\ loop' = "back_off"
    /\ errors < MaxErrors /\ errors' = errors + 1
    /\ lost' = lost + claimed /\ claimed' = 0
    /\ free' = free + held /\ held' = 0
    /\ UNCHANGED <<running, hung, token, fresh, timed, kicks, arrivals>>

Notified ==
    /\ loop \in {"wait", "back_off"} /\ ThreadFree
    /\ token /\ token' = FALSE
    /\ loop' = "acquire"
    /\ UNCHANGED <<free, held, claimed, running, hung, fresh, timed, kicks, lost, arrivals, errors>>

(* Variant: the loop polls only after an error.                            *)
PollOnErrorOnly ==
    /\ loop = "back_off" /\ ThreadFree
    /\ loop' = "acquire"
    /\ UNCHANGED <<free, held, claimed, running, hung, token, fresh, timed, kicks, lost,
                   arrivals, errors>>

(* POLL_SECS elapsed.                                                      *)
Poll ==
    /\ loop \in {"wait", "back_off"} /\ ThreadFree
    /\ loop' = "acquire"
    /\ UNCHANGED <<free, held, claimed, running, hung, token, fresh, timed, kicks, lost,
                   arrivals, errors>>

ExecutionReturns ==
    /\ running > 0 /\ ThreadFree
    /\ running' = running - 1 /\ free' = free + 1
    /\ UNCHANGED <<loop, held, claimed, hung, token, fresh, timed, kicks, lost, arrivals, errors>>

-----------------------------------------------------------------------------
(* Everything else.                                                        *)

(* A script that does not end holds its permit and its thread.             *)
ExecutionHangs ==
    /\ running > 0 /\ ThreadFree /\ hung < MaxHung
    /\ running' = running - 1 /\ hung' = hung + 1
    /\ UNCHANGED <<loop, free, held, claimed, token, fresh, timed, kicks, lost, arrivals, errors>>

(* create_run or requeue_run has committed; kick() is the next statement.  *)
Enqueue ==
    /\ arrivals < MaxArrivals /\ arrivals' = arrivals + 1
    /\ fresh' = fresh + 1 /\ kicks' = kicks + 1
    /\ UNCHANGED <<loop, free, held, claimed, running, hung, token, timed, lost, errors>>

(* Variant: notify_waiters, which leaves no token to a busy loop.          *)
KickWaitersOnly ==
    /\ kicks > 0 /\ ThreadFree /\ kicks' = kicks - 1
    /\ token' = (token \/ loop \in {"wait", "back_off"})
    /\ UNCHANGED <<loop, free, held, claimed, running, hung, fresh, timed, lost, arrivals, errors>>

(* notify_one wakes the loop if it waits, and leaves a token if it is      *)
(* busy; a second token is not kept.                                       *)
Kick ==
    /\ kicks > 0 /\ ThreadFree /\ kicks' = kicks - 1
    /\ token' = TRUE
    /\ UNCHANGED <<loop, free, held, claimed, running, hung, fresh, timed, lost, arrivals, errors>>

(* The handler is dropped between the insertion and the kick, or runs in   *)
(* another replica: this one is told nothing of the row.                   *)
KickElsewhere ==
    /\ kicks > 0 /\ kicks' = kicks - 1
    /\ IF fresh > 0 THEN fresh' = fresh - 1 /\ timed' = timed + 1
                    ELSE UNCHANGED <<fresh, timed>>
    /\ UNCHANGED <<loop, free, held, claimed, running, hung, token, lost, arrivals, errors>>

(* A backoff or a delay ends: next_attempt_at is reached.                  *)
TimeComes ==
    /\ arrivals < MaxArrivals /\ arrivals' = arrivals + 1
    /\ timed' = timed + 1
    /\ UNCHANGED <<loop, free, held, claimed, running, hung, token, fresh, kicks, lost, errors>>

(* Another replica claims a due row, or an operator cancels it.            *)
TakenElsewhere ==
    /\ \/ fresh > 0 /\ fresh' = fresh - 1 /\ UNCHANGED timed
       \/ timed > 0 /\ timed' = timed - 1 /\ UNCHANGED fresh
    /\ UNCHANGED <<loop, free, held, claimed, running, hung, token, kicks, lost, arrivals, errors>>

(* The lease of a lost row lapses, a reaper, here or elsewhere, requeues   *)
(* it, its time comes.                                                     *)
LostComesBack ==
    /\ lost > 0 /\ lost' = lost - 1
    /\ timed' = timed + 1
    /\ UNCHANGED <<loop, free, held, claimed, running, hung, token, fresh, kicks, arrivals, errors>>

Next ==
    \/ Reserve \/ ClaimRuns \/ ClaimSkipping \/ StartRuns \/ ClaimFails \/ Notified \/ Poll
    \/ ExecutionReturns \/ ExecutionHangs \/ Enqueue \/ Kick \/ KickElsewhere \/ TimeComes
    \/ TakenElsewhere \/ LostComesBack

Spec == Init /\ [][Next]_poolVars

(* While a thread is left, the runtime keeps polling the loop, the timer   *)
(* fires, executions that do not hang return, and the replica's own reaper *)
(* runs.  Of other replicas nothing is assumed.                            *)
Fairness ==
    /\ WF_poolVars(Reserve) /\ WF_poolVars(ThreadFree /\ ClaimRuns) /\ WF_poolVars(StartRuns)
    /\ WF_poolVars(Poll)
    /\ WF_poolVars(ExecutionReturns) /\ WF_poolVars(ThreadFree /\ LostComesBack)

FairSpec == Spec /\ Fairness

-----------------------------------------------------------------------------
(* Properties.                                                             *)

TypeOK ==
    /\ loop \in {"acquire", "claim", "answer", "wait", "back_off"}
    /\ free \in Nat /\ held \in Nat /\ claimed \in Nat /\ running \in Nat /\ hung \in Nat
    /\ fresh \in Nat /\ timed \in Nat /\ kicks \in Nat /\ lost \in Nat
    /\ arrivals \in Nat /\ errors \in Nat
    /\ token \in BOOLEAN

(* worker.rs:52-53, 72, 79-86, 102: no permit leaks or is counted twice on *)
(* any path, so a claimed run always has one and at most MAX_CONCURRENT    *)
(* runs execute.                                                           *)
PermitsConserved == free + held + running + hung = MaxConcurrent

(* worker.rs:18-19: a kick is never lost.  When the loop waits with no     *)
(* notification stored or on its way, every announced row has been claimed *)
(* or was met under another statement's lock.                              *)
NoLostWakeup == loop = "wait" /\ ~ token /\ kicks = 0 => fresh = 0

(* A permit and a thread are free of executions that hang.                 *)
Served == hung < MaxConcurrent /\ ThreadFree

(* worker.rs:3-5: every due row, announced or not, leaves the queue in the *)
(* end, unless so many executions hang that every permit, or every thread  *)
(* of the runtime, is theirs.  The threads may go first: the loop and its  *)
(* poll timer then stop with permits free (engine.rs:360).                 *)
Drained == Due > 0 ~> (Due = 0 \/ ~ Served)
=============================================================================
