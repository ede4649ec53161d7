----------------------------- MODULE Scheduler ------------------------------
(***************************************************************************)
(* The minute ticker of every replica (scheduler.rs) over the shared table *)
(* `schedules`.  A tick reads the clock, then the enabled schedules, and   *)
(* works through that reading one schedule at a time, with one statement   *)
(* after the other.  Time is counted in minute buckets.                    *)
(***************************************************************************)
EXTENDS CronFields

CONSTANTS
    Schedules, Replicas,
    Expression,     \* Expression[s]: the cron expression of s
    TimeOf,         \* TimeOf[m]: the calendar fields of minute bucket m
    LastMinute,     \* bound: where the clock stops
    MaxFailures,    \* bound: failures, until one replica has had so many
    MaxEdits        \* bound: deletions and switches of workflows by the API

ASSUME BoundsAssumption == LastMinute \in Nat \ {0} /\ MaxFailures \in Nat /\ MaxEdits \in Nat

Never == 0          \* last_run IS NULL; the clock starts later
Minutes == 1 .. LastMinute

(* The minutes in which the matcher lets a schedule fire.                  *)
Fires(s) == {m \in Minutes : Matches(Expression[s], TimeOf[m])}

(* The minutes that the expression lists, by its syntax.                   *)
Listed == [s \in Schedules |-> {m \in Minutes : Lists(Expression[s], TimeOf[m])}]

VARIABLES
    clock,          \* the minute bucket of now
    last_run,       \* per row of schedules, the bucket of last_run
    deleted,        \* schedules that were deleted
    workflow,       \* of each schedule: "enabled", "disabled" or "deleted"
    tick,           \* what each replica's ticker is doing
    created,        \* per replica, how many runs it created for a schedule and a bucket
    failures,       \* per replica, its crashes and failed statements
    edits

schedVars == <<clock, last_run, deleted, workflow, tick, created, failures, edits>>

(* "idle"  awaiting the ticker     "list"  the clock is read               *)
(* "loop"  between two schedules   "mark"  fired, last_run not yet set     *)
Tick == [pc : {"idle", "list", "loop", "mark"}, now : {Never} \cup Minutes,
         todo : SUBSET Schedules, seen : [Schedules -> {Never} \cup Minutes],
         current : SUBSET Schedules]

Unread == [s \in Schedules |-> Never]

Waiting == [pc |-> "idle", now |-> Never, todo |-> {}, seen |-> Unread, current |-> {}]

Init ==
    /\ clock = 1
    /\ last_run = Unread
    /\ deleted = {}
    /\ workflow \in [Schedules -> {"enabled", "disabled"}]
    /\ tick = [p \in Replicas |-> Waiting]
    /\ created = [p \in Replicas |-> [s \in Schedules |-> [m \in Minutes |-> 0]]]
    /\ failures = [p \in Replicas |-> 0] /\ edits = 0

-----------------------------------------------------------------------------
(* tick.                                                                   *)

(* Intervals catch up in bursts and restart with the process, so a ticker  *)
(* may come round twice in a minute, or skip one.                          *)
StartTick(p) ==
    /\ tick[p].pc = "idle"
    /\ tick' = [tick EXCEPT ![p].pc = "list", ![p].now = clock]
    /\ UNCHANGED <<clock, last_run, deleted, workflow, created, failures, edits>>

ListSchedules(p) ==
    /\ tick[p].pc = "list"
    /\ tick' = [tick EXCEPT ![p].pc = "loop", ![p].todo = Schedules \ deleted,
                            ![p].seen = last_run]
    /\ UNCHANGED <<clock, last_run, deleted, workflow, created, failures, edits>>

(* Variant: the last run is not looked at.                                 *)
DueAlways(p, s) == tick[p].now \in Fires(s)

Due(p, s) == tick[p].seen[s] # tick[p].now /\ tick[p].now \in Fires(s)

Drop(p, s) == tick' = [tick EXCEPT ![p].todo = @ \ {s}]

Skip(p, s) ==
    /\ tick[p].pc = "loop" /\ s \in tick[p].todo
    /\ ~ Due(p, s)
    /\ Drop(p, s)
    /\ UNCHANGED <<clock, last_run, deleted, workflow, created, failures, edits>>

(* fire: a schedule without an enabled workflow fires nothing, and is      *)
(* marked all the same.  Its two statements (read the workflow, insert the *)
(* run) are one step here: an edit between them counts as one after both,  *)
(* and a workflow deleted between them makes the insertion fail.           *)
Fire(p, s) ==
    /\ tick[p].pc = "loop" /\ s \in tick[p].todo
    /\ Due(p, s)
    /\ created' = IF workflow[s] = "enabled"
                  THEN [created EXCEPT ![p][s][tick[p].now] = @ + 1] ELSE created
    /\ tick' = [tick EXCEPT ![p].pc = "mark", ![p].todo = @ \ {s}, ![p].current = {s}]
    /\ UNCHANGED <<clock, last_run, deleted, workflow, failures, edits>>

(* Variants: the mark in seconds; the mark taken back when nothing fired.  *)
MarkSeconds(p) ==
    /\ tick[p].pc = "mark"
    /\ last_run' = [s \in Schedules |->
                       IF s \in tick[p].current \ deleted THEN 60 * tick[p].now ELSE last_run[s]]
    /\ tick' = [tick EXCEPT ![p].pc = "loop", ![p].current = {}]
    /\ UNCHANGED <<clock, deleted, workflow, created, failures, edits>>

MarkTakenBack(p) ==
    /\ tick[p].pc = "mark"
    /\ last_run' = [s \in Schedules |->
                       IF s \notin tick[p].current \ deleted THEN last_run[s]
                       ELSE IF workflow[s] = "enabled" THEN tick[p].now ELSE Never]
    /\ tick' = [tick EXCEPT ![p].pc = "loop", ![p].current = {}]
    /\ UNCHANGED <<clock, deleted, workflow, created, failures, edits>>

(* set_schedule_last_run, with the time the tick began; no row is left to  *)
(* update when the schedule was deleted meanwhile.                         *)
Mark(p) ==
    /\ tick[p].pc = "mark"
    /\ last_run' = [s \in Schedules |->
                       IF s \in tick[p].current \ deleted THEN tick[p].now ELSE last_run[s]]
    /\ tick' = [tick EXCEPT ![p].pc = "loop", ![p].current = {}]
    /\ UNCHANGED <<clock, deleted, workflow, created, failures, edits>>

EndTick(p) ==
    /\ tick[p].pc = "loop" /\ tick[p].todo = {}
    /\ tick' = [tick EXCEPT ![p] = Waiting]
    /\ UNCHANGED <<clock, last_run, deleted, workflow, created, failures, edits>>

-----------------------------------------------------------------------------
(* Failures and the rest of the system.                                    *)

(* A crash or a failed statement of a replica.                             *)
Failure(p) ==
    /\ \A q \in Replicas : failures[q] < MaxFailures
    /\ failures' = [failures EXCEPT ![p] = @ + 1]

(* fire returns an error; the loop goes on.  The run may exist all the     *)
(* same: create_run committed and its answer was lost.                     *)
FireFails(p, s) ==
    /\ tick[p].pc = "loop" /\ s \in tick[p].todo
    /\ Due(p, s)
    /\ Failure(p)
    /\ \/ UNCHANGED created
       \/ workflow[s] = "enabled" /\ created' = [created EXCEPT ![p][s][tick[p].now] = @ + 1]
    /\ Drop(p, s)
    /\ UNCHANGED <<clock, last_run, deleted, workflow, edits>>

(* The process dies, or a statement of the tick fails: `?` ends the tick.  *)
Abort(p) ==
    /\ tick[p].pc # "idle"
    /\ Failure(p)
    /\ tick' = [tick EXCEPT ![p] = Waiting]
    /\ UNCHANGED <<clock, last_run, deleted, workflow, created, edits>>

MinutePasses ==
    /\ clock < LastMinute /\ clock' = clock + 1
    /\ UNCHANGED <<last_run, deleted, workflow, tick, created, failures, edits>>

DeleteSchedule(s) ==
    /\ s \notin deleted /\ deleted' = deleted \cup {s}
    /\ edits < MaxEdits /\ edits' = edits + 1
    /\ UNCHANGED <<clock, last_run, workflow, tick, created, failures>>

(* The schedules of a deleted workflow are deleted with it.                *)
DeleteWorkflow(s) ==
    /\ workflow[s] # "deleted" /\ workflow' = [workflow EXCEPT ![s] = "deleted"]
    /\ deleted' = deleted \cup {s}
    /\ edits < MaxEdits /\ edits' = edits + 1
    /\ UNCHANGED <<clock, last_run, tick, created, failures>>

UpdateWorkflow(s) ==
    /\ workflow[s] # "deleted"
    /\ workflow' = [workflow EXCEPT ![s] = IF @ = "enabled" THEN "disabled" ELSE "enabled"]
    /\ edits < MaxEdits /\ edits' = edits + 1
    /\ UNCHANGED <<clock, last_run, deleted, tick, created, failures>>

Next ==
    \/ MinutePasses
    \/ \E s \in Schedules : DeleteSchedule(s) \/ DeleteWorkflow(s) \/ UpdateWorkflow(s)
    \/ \E p \in Replicas :
          \/ StartTick(p) \/ ListSchedules(p) \/ Mark(p) \/ EndTick(p) \/ Abort(p)
          \/ \E s \in Schedules : Skip(p, s) \/ Fire(p, s) \/ FireFails(p, s)

Spec == Init /\ [][Next]_schedVars

(* scheduler.rs:10 means every ticker to come at the top of a minute, which*)
(* nothing in the code sees to: ticks of different minutes do not overlap. *)
(* A tick may take longer than a minute, if no other replica's next tick   *)
(* begins meanwhile; for a single replica this always holds.               *)
SameMinute ==
    \A p, q \in Replicas :
        tick[p].pc # "idle" /\ tick[q].pc # "idle" => tick[p].now = tick[q].now

AlignedSpec == Init /\ [][Next /\ SameMinute']_schedVars

-----------------------------------------------------------------------------
(* Properties.                                                             *)

Tally == [Schedules -> [Minutes -> Nat]]

TypeOK ==
    /\ clock \in Minutes
    /\ last_run \in [Schedules -> {Never} \cup Minutes]
    /\ deleted \in SUBSET Schedules
    /\ workflow \in [Schedules -> {"enabled", "disabled", "deleted"}]
    /\ tick \in [Replicas -> Tick]
    /\ created \in [Replicas -> Tally]
    /\ failures \in [Replicas -> 0 .. MaxFailures] /\ edits \in 0 .. MaxEdits

(* scheduler.rs:2-3: a schedule fires only in a minute its cron expression *)
(* lists, and at most once in it.                                          *)
OncePerMinute ==
    \A p \in Replicas, s \in Schedules, m \in Minutes :
        created[p][s][m] > 0 => /\ m \in Listed[s] /\ created[p][s][m] = 1
                                /\ \A q \in Replicas \ {p} : created[q][s][m] = 0

(* What each of several aligned replicas keeps of it: it never creates a   *)
(* run in another minute, nor two in one minute unless it crashed or one   *)
(* of its statements failed (scheduler.rs:33-36: a firing whose mark or    *)
(* answer is lost is repeated).  It may tick again and again, on readings  *)
(* that the others outdate.                                                *)
OncePerReplica ==
    \A p \in Replicas, s \in Schedules, m \in Minutes :
        created[p][s][m] <= IF m \in Listed[s] THEN 1 + failures[p] ELSE 0

(* scheduler.rs:1: a tick that leaves behind a schedule whose expression   *)
(* lists the minute, and that its reading does not show as fired in it,    *)
(* has created a run, unless the workflow is switched off or it failed.    *)
ListedIsFired ==
    [][\A p \in Replicas, s \in Schedules :
          LET m == tick[p].now IN
          /\ s \in tick[p].todo \ tick'[p].todo
          /\ m \in Listed[s] /\ tick[p].seen[s] # m /\ workflow[s] = "enabled"
          => created'[p][s][m] > created[p][s][m] \/ failures'[p] > failures[p]]_schedVars

(* The mark that dedupes never moves back to an earlier minute, whichever  *)
(* replicas write it.                                                      *)
LastRunAdvances ==
    [][\A s \in Schedules : last_run'[s] >= last_run[s]]_schedVars
=============================================================================
