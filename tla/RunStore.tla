------------------------------ MODULE RunStore ------------------------------
(***************************************************************************)
(* Table `runs` and the single SQL statements of db.rs that read or write  *)
(* a row of it.  A statement is a pure operator from rows to rows: each is *)
(* one UPDATE or INSERT, which PostgreSQL executes atomically per row.     *)
(* The modules that own the state (RunEngine, RunApi) apply them.          *)
(*                                                                         *)
(* Time is abstracted to what the statements compare with `now`:           *)
(*   lease_until      "null", "future" or "past"                           *)
(*   next_attempt_at  due = TRUE when it is <= now                         *)
(***************************************************************************)
EXTENDS Naturals, Sequences

CONSTANTS
    Runs,          \* identifiers of the rows that may come to exist
    Plan,          \* Plan[r]: the kinds of the steps of r, its immutable snapshot
    MaxAttempts    \* runs.max_attempts

Kinds == {"log", "http", "monolith", "script", "branch", "foreach",
          "subworkflow", "delay", "approval", "unknown"}

ASSUME PlanAssumption == Plan \in [Runs -> Seq(Kinds)]
ASSUME MaxAttemptsAssumption == MaxAttempts \in Nat \ {0}

-----------------------------------------------------------------------------

Terminal  == {"succeeded", "failed", "dead_letter", "canceled"}
Claimable == {"queued", "retrying", "sleeping"}
Waiting   == {"waiting_approval", "waiting_subworkflow"}
Status    == {"absent", "running"} \cup Claimable \cup Waiting \cup Terminal

(* A row.  cursor is the 0-based index of the next step, context the set   *)
(* of step indices whose output is threaded into runs.context.             *)
Row == [status           : Status,
        cursor           : Nat,
        context          : SUBSET Nat,
        attempt          : Nat,
        due              : BOOLEAN,
        cancel_requested : BOOLEAN,
        lease_until      : {"null", "future", "past"}]

(* The fields of a row that a `Run` value read from the table keeps and    *)
(* that save_run_progress may write back.                                  *)
Copy == [cursor : Nat, context : SUBSET Nat, attempt : Nat, cancel_requested : BOOLEAN]

Absent == [status |-> "absent", cursor |-> 0, context |-> {}, attempt |-> 0,
           due |-> TRUE, cancel_requested |-> FALSE, lease_until |-> "null"]

NewRun == [Absent EXCEPT !.status = "queued"]

(* A run that the fire-and-forget engine of schema 0001 left running: the  *)
(* migration gives it attempt 0 and no lease.                              *)
Orphan == [Absent EXCEPT !.status = "running"]

ReadRun(row) == [cursor |-> row.cursor, context |-> row.context,
                 attempt |-> row.attempt, cancel_requested |-> row.cancel_requested]

(* The step a copy of run r is at, and whether it is past the last one.    *)
AtEnd(r, c)    == c.cursor >= Len(Plan[r])
StepKind(r, c) == Plan[r][c.cursor + 1]

-----------------------------------------------------------------------------

(* UPDATE runs SET status, cursor, context, attempt, next_attempt_at: the  *)
(* statement names the row by id alone, it has no condition on the row's   *)
(* status or worker, and it leaves cancel_requested and the lease alone.   *)
SaveProgress(row, c, status, due) ==
    [row EXCEPT !.status = status, !.cursor = c.cursor, !.context = c.context,
                !.attempt = c.attempt, !.due = due]

CanClaim(row) == row.status \in Claimable /\ row.due

(* Variant: the claim forgets the lease.                                   *)
ClaimDueNoLease(row) == [row EXCEPT !.status = "running", !.attempt = @ + 1]

(* Variant: a claim does not count as an attempt.                          *)
ClaimDueUncounted(row) == [row EXCEPT !.status = "running", !.lease_until = "future"]

ClaimDue(row) == [row EXCEPT !.status = "running", !.lease_until = "future",
                             !.attempt = @ + 1]

ExtendLease(row) ==
    IF row.status = "running" THEN [row EXCEPT !.lease_until = "future"] ELSE row

(* Variant: extend_lease does not report the flag.                         *)
CancelSeenNever(row) == FALSE

(* What extend_lease returns: no row is updated when the run is not        *)
(* running, and the answer is then FALSE whatever the flag says.           *)
CancelSeen(row) == row.status = "running" /\ row.cancel_requested

(* Variant: the reaper does not look at the lease.                         *)
IsStaleAnyRunning(row) == row.status = "running"

IsStale(row) == row.status = "running" /\ row.lease_until # "future"

(* Variant: the reaper requeues whatever the number of attempts.           *)
ReapForever(row) == [row EXCEPT !.status = "retrying", !.due = FALSE, !.lease_until = "null"]

Reap(row) ==
    [row EXCEPT !.status = IF row.attempt >= MaxAttempts THEN "dead_letter" ELSE "retrying",
                !.due = FALSE, !.lease_until = "null"]

(* Variant: no condition on the status.                                    *)
CanCancelAny(row) == row.status # "absent"

CanCancel(row) == row.status \in Claimable \cup Waiting \cup {"running"}

(* Variants: a status the rest of the code does not know; a running run    *)
(* canceled under its worker's feet.                                       *)
RequestCancelMisspelt(row) ==
    [row EXCEPT !.cancel_requested = TRUE,
                !.status = IF @ = "running" THEN @ ELSE "cancelled"]

RequestCancelRunning(row) == [row EXCEPT !.cancel_requested = TRUE, !.status = "canceled"]

RequestCancel(row) ==
    [row EXCEPT !.cancel_requested = TRUE,
                !.status = IF @ = "running" THEN @ ELSE "canceled"]

CanRequeue(row) == row.status \in {"failed", "dead_letter", "canceled"}

(* Variant: a restart drops the context and keeps the cursor.              *)
RequeueKeepsCursor(row, restart) ==
    [row EXCEPT !.status = "queued", !.attempt = 0, !.due = TRUE,
                !.cancel_requested = FALSE, !.lease_until = "null",
                !.context = IF restart THEN {} ELSE @]

Requeue(row, restart) ==
    [row EXCEPT !.status = "queued", !.attempt = 0, !.due = TRUE,
                !.cancel_requested = FALSE, !.lease_until = "null",
                !.cursor  = IF restart THEN 0 ELSE @,
                !.context = IF restart THEN {} ELSE @]
=============================================================================
