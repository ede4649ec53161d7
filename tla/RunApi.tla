------------------------------- MODULE RunApi -------------------------------
(***************************************************************************)
(* The two API handlers that read a run and write it back with several     *)
(* statements: resolve_approval and patch_run_context (api.rs).  They run  *)
(* beside the tasks of RunEngine and beside each other; a handler may be   *)
(* dropped at any await, by a crash, a database error or a client that     *)
(* hangs up.  An early return (409, 404) leaves the handler idle.          *)
(***************************************************************************)
EXTENDS RunEngine

CONSTANTS
    Resolvers,     \* concurrent POST /approvals/{id} requests
    Patchers       \* concurrent PATCH /runs/{id}/context requests

VARIABLES
    resolver,      \* what each resolve_approval handler is doing
    patcher        \* what each patch_run_context handler is doing

apiVars == <<runs, run_steps, approvals, task, resolver, patcher>>

(* "decide"  the approval was read as pending, not yet updated             *)
(* "load"    the approval was updated, the run not yet read                *)
(* "store"   the run was read as waiting_approval, not yet saved           *)
Resolver == [pc : {"idle", "decide", "load", "store"}, approval : Nat,
             verdict : {"approved", "rejected"}, copy : Copy]

Patcher == [pc : {"idle", "store"}, run : Runs \cup {NoRun}, copy : Copy]

IdleResolver == [pc |-> "idle", approval |-> 0, verdict |-> "rejected",
                 copy |-> ReadRun(Absent)]

IdlePatcher == [pc |-> "idle", run |-> NoRun, copy |-> ReadRun(Absent)]

RunOf(h) == approvals[resolver[h].approval].run

ApiInit ==
    /\ Init
    /\ resolver = [h \in Resolvers |-> IdleResolver]
    /\ patcher = [p \in Patchers |-> IdlePatcher]

-----------------------------------------------------------------------------
(* resolve_approval.                                                       *)

ReadApproval(h, a, verdict) ==
    /\ resolver[h].pc = "idle"
    /\ approvals[a].status = "pending"
    /\ resolver' = [resolver EXCEPT ![h].pc = "decide", ![h].approval = a,
                                    ![h].verdict = verdict]
    /\ UNCHANGED <<vars, patcher>>

(* UPDATE approvals ... WHERE status = 'pending'; the handler ignores      *)
(* whether a row was updated.                                              *)
Decide(h) ==
    /\ resolver[h].pc = "decide"
    /\ approvals' = [approvals EXCEPT ![resolver[h].approval].status =
                        IF @ = "pending" THEN resolver[h].verdict ELSE @]
    /\ resolver' = [resolver EXCEPT ![h].pc = "load"]
    /\ UNCHANGED <<runs, run_steps, task, patcher>>

(* Variant: the run is not asked whether it still waits.                   *)
LoadRunUnguarded(h) ==
    /\ resolver[h].pc = "load"
    /\ resolver' = [resolver EXCEPT ![h].pc = "store", ![h].copy = ReadRun(runs[RunOf(h)])]
    /\ UNCHANGED <<vars, patcher>>

LoadRun(h) ==
    LET row == runs[RunOf(h)] IN
    /\ resolver[h].pc = "load"
    /\ resolver' = IF row.status = "waiting_approval"
                   THEN [resolver EXCEPT ![h].pc = "store", ![h].copy = ReadRun(row)]
                   ELSE [resolver EXCEPT ![h] = IdleResolver]
    /\ UNCHANGED <<vars, patcher>>

(* Variants: the run resumes whatever the verdict; the run gets the status *)
(* of the approval.                                                        *)
StoreVerdictAlways(h) ==
    /\ resolver[h].pc = "store"
    /\ runs' = [runs EXCEPT ![RunOf(h)] =
          SaveProgress(@, [resolver[h].copy EXCEPT !.cursor = @ + 1], "queued", TRUE)]
    /\ resolver' = [resolver EXCEPT ![h] = IdleResolver]
    /\ UNCHANGED <<run_steps, approvals, task, patcher>>

StoreVerdictStatus(h) ==
    /\ resolver[h].pc = "store"
    /\ runs' = [runs EXCEPT ![RunOf(h)] =
          SaveProgress(@, resolver[h].copy, resolver[h].verdict, TRUE)]
    /\ resolver' = [resolver EXCEPT ![h] = IdleResolver]
    /\ UNCHANGED <<run_steps, approvals, task, patcher>>

StoreVerdict(h) ==
    LET c == resolver[h].copy IN
    /\ resolver[h].pc = "store"
    /\ runs' = [runs EXCEPT ![RunOf(h)] =
                   IF resolver[h].verdict = "approved"
                   THEN SaveProgress(@, [c EXCEPT !.cursor = @ + 1], "queued", TRUE)
                   ELSE SaveProgress(@, c, "canceled", TRUE)]
    /\ resolver' = [resolver EXCEPT ![h] = IdleResolver]
    /\ UNCHANGED <<run_steps, approvals, task, patcher>>

ResolverDropped(h) ==
    /\ resolver[h].pc # "idle"
    /\ resolver' = [resolver EXCEPT ![h] = IdleResolver]
    /\ UNCHANGED <<vars, patcher>>

-----------------------------------------------------------------------------
(* patch_run_context.  The client may send any context at all.             *)

ReadDeadLetter(p, r) ==
    /\ patcher[p].pc = "idle"
    /\ runs[r].status = "dead_letter"
    /\ patcher' = [patcher EXCEPT ![p] = [pc |-> "store", run |-> r,
                                          copy |-> ReadRun(runs[r])]]
    /\ UNCHANGED <<vars, resolver>>

(* Variants: the patched run is requeued on its spent budget; the step the *)
(* run failed in counts as done.                                           *)
StorePatchAndRequeue(p) ==
    /\ patcher[p].pc = "store"
    /\ runs' = [runs EXCEPT ![patcher[p].run] =
                   SaveProgress(@, patcher[p].copy, "retrying", TRUE)]
    /\ patcher' = [patcher EXCEPT ![p] = IdlePatcher]
    /\ UNCHANGED <<run_steps, approvals, task, resolver>>

StorePatchMovesOn(p) ==
    /\ patcher[p].pc = "store"
    /\ runs' = [runs EXCEPT ![patcher[p].run] = SaveProgress(@,
                   [patcher[p].copy EXCEPT !.cursor = @ + 1], "dead_letter", TRUE)]
    /\ patcher' = [patcher EXCEPT ![p] = IdlePatcher]
    /\ UNCHANGED <<run_steps, approvals, task, resolver>>

(* The saved next_attempt_at is the one that was read; a dead letter is    *)
(* never claimed and a retry overwrites it, so TRUE stands for both.       *)
StorePatch(p) ==
    LET r == patcher[p].run IN
    /\ patcher[p].pc = "store"
    /\ \E context \in SUBSET (0 .. (Len(Plan[r]) - 1)) :
          runs' = [runs EXCEPT ![r] = SaveProgress(@,
                      [patcher[p].copy EXCEPT !.context = context], "dead_letter", TRUE)]
    /\ patcher' = [patcher EXCEPT ![p] = IdlePatcher]
    /\ UNCHANGED <<run_steps, approvals, task, resolver>>

PatcherDropped(p) ==
    /\ patcher[p].pc # "idle"
    /\ patcher' = [patcher EXCEPT ![p] = IdlePatcher]
    /\ UNCHANGED <<vars, resolver>>

-----------------------------------------------------------------------------

ResolverNext(h) ==
    \/ \E a \in DOMAIN approvals, verdict \in {"approved", "rejected"} :
          ReadApproval(h, a, verdict)
    \/ Decide(h) \/ LoadRun(h) \/ StoreVerdict(h) \/ ResolverDropped(h)

PatcherNext(p) ==
    \/ \E r \in Runs : ReadDeadLetter(p, r)
    \/ StorePatch(p) \/ PatcherDropped(p)

ApiNext ==
    \/ Next /\ UNCHANGED <<resolver, patcher>>
    \/ \E h \in Resolvers : ResolverNext(h)
    \/ \E p \in Patchers : PatcherNext(p)

ApiSpec == ApiInit /\ [][ApiNext]_apiVars

(* No two requests decide the same approval at the same time.              *)
OneDecider ==
    \A g, h \in Resolvers :
        /\ resolver[g].pc # "idle" /\ resolver[h].pc # "idle"
        /\ resolver[g].approval = resolver[h].approval
        => g = h

OneDeciderSpec == ApiInit /\ [][ApiNext /\ OneDecider']_apiVars

-----------------------------------------------------------------------------
(* Properties.                                                             *)

ApiTypeOK ==
    /\ TypeOK
    /\ resolver \in [Resolvers -> Resolver]
    /\ patcher \in [Patchers -> Patcher]

Gates(r) == {i \in 0 .. (Len(Plan[r]) - 1) : Plan[r][i + 1] = "approval"}

GateRows(r, i) == {a \in DOMAIN approvals : approvals[a].run = r /\ approvals[a].step = i}

(* The runs with one gate at most, which no branch jumps over: the second  *)
(* of two gates can be opened by a duplicate row of the first.             *)
GatedRuns == {r \in LinearRuns : \A i, j \in Gates(r) : i = j}

(* api.rs:306: a run gets past an approval step only if an approval that   *)
(* was created for that very step was decided "approved"; a crash, a       *)
(* cancellation or a retry does not open the gate.                         *)
GatePassedOnlyIfApproved ==
    \A r \in GatedRuns : \A i \in Gates(r) : runs[r].cursor > i =>
        \E a \in GateRows(r, i) : approvals[a].status = "approved"

(* A run is seen waiting only at a step that has an approval row, decided  *)
(* or not (engine.rs:76 comes before 79; for one still to decide, see      *)
(* WaitingCanBeResolved).                                                  *)
WaitingHasApprovalRow ==
    \A r \in Runs : runs[r].status = "waiting_approval" =>
        GateRows(r, runs[r].cursor) # {}

(* api.rs:203, 308-326: an operator's patch may replace the context, but    *)
(* neither it nor a decision moves a run past a step that was never        *)
(* executed, however old the copy is that the handler writes back: every   *)
(* step before the cursor has its success in the log.                      *)
NoStepSkipped ==
    \A r \in LinearRuns : \A i \in Producing(r) :
        i < runs[r].cursor => i \in run_steps[r]

(* 0001_init.sql:74: resolving the approval resumes the run, so a waiting  *)
(* run always has a pending approval or a decision on its way to it.       *)
WaitingCanBeResolved ==
    \A r \in Runs : runs[r].status = "waiting_approval" =>
        \/ \E a \in DOMAIN approvals : approvals[a].run = r /\ approvals[a].status = "pending"
        \/ \E h \in Resolvers : resolver[h].pc # "idle" /\ RunOf(h) = r
=============================================================================
