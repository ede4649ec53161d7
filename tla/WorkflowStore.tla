--------------------------- MODULE WorkflowStore ----------------------------
(***************************************************************************)
(* Workflow definitions and the admission of runs (api.rs, db.rs): clients *)
(* define, edit and delete workflows while other requests read a workflow  *)
(* with one statement and insert a run of it with a later one.  A request  *)
(* may carry an idempotency key; a client that got no run posts again.     *)
(* What a run does once it is admitted is RunEngine's; here it is only     *)
(* which list of steps each of its executions takes.                       *)
(***************************************************************************)
EXTENDS Naturals, Sequences

CONSTANTS
    Workflows, Definitions,   \* ids of workflows, and lists of steps
    Requests, Keys, KeyOf,    \* as in Admission
    WorkflowOf,               \* WorkflowOf[q]: the workflow that request q is to run
    Hooks,                    \* requests by a webhook token: they carry no key
    NoSnapshot,               \* runs.steps IS NULL
    MaxEdits, MaxFailures     \* bounds: updates; dropped requests, lost answers, errors

ASSUME RequestsAssumption ==
    /\ Workflows # {} /\ "none" \notin Keys /\ Hooks \subseteq Requests
    /\ \A q \in Requests : WorkflowOf[q] \in Workflows
    /\ \A q \in Hooks : KeyOf[q] \notin Keys
ASSUME DefinitionsAssumption == Definitions # {} /\ NoSnapshot \notin Definitions
ASSUME StoreBoundsAssumption == MaxEdits \in Nat /\ MaxFailures \in Nat

VARIABLES
    workflows,     \* table workflows
    runs,          \* table runs, in order of insertion; a deleted row is `gone`
    request,       \* what the handler of each request is doing
    editor,        \* editor[n]: the n-th update_workflow, between read and write
    answer,        \* the run that a request was answered with, 0 for none
    defined,       \* every definition a workflow has had, with its version
    edits, failures

storeVars == <<workflows, runs, request, editor, answer, defined, edits, failures>>

Workflow == [state : {"none", "live", "gone"}, version : Nat \ {0},
             steps : Definitions, enabled : BOOLEAN]

RunRow == [workflow : Workflows, version : Nat \ {0}, steps : Definitions \cup {NoSnapshot},
           key : Keys \cup {"none"}, gone : BOOLEAN]

(* "lookup"  the key not yet looked up   "load"  the workflow not yet read *)
(* "insert"  the run built from the workflow, not yet inserted             *)
Request == [pc : {"idle", "lookup", "load", "insert"}, version : Nat \ {0},
            steps : Definitions]

Editor == [pc : {"idle", "write"}, workflow : Workflows, version : Nat \ {0},
           steps : Definitions, enabled : BOOLEAN]

Some(S) == CHOOSE x \in S : TRUE

IdleRequest == [pc |-> "idle", version |-> 1, steps |-> Some(Definitions)]

IdleEditor == [pc |-> "idle", workflow |-> Some(Workflows), version |-> 1,
               steps |-> Some(Definitions), enabled |-> TRUE]

(* A row from before schema 0002, which gave it version 1 and no snapshot. *)
Legacy(w) == [workflow |-> w, version |-> 1, steps |-> NoSnapshot, key |-> "none",
              gone |-> FALSE]

Live(w) == workflows[w].state = "live"

StoreInit ==
    /\ \E W \in SUBSET Workflows :
          /\ workflows = [w \in Workflows |->
                [state |-> IF w \in W THEN "live" ELSE "none", version |-> 1,
                 steps |-> Some(Definitions), enabled |-> TRUE]]
          /\ defined = [w \in Workflows |->
                IF w \in W THEN {<<1, Some(Definitions)>>} ELSE {}]
          /\ runs \in {<<>>} \cup {<<Legacy(w)>> : w \in W}
    /\ request = [q \in Requests |-> IdleRequest]
    /\ editor = [n \in 1 .. MaxEdits |-> IdleEditor]
    /\ answer = [q \in Requests |-> 0]
    /\ edits = 0 /\ failures = 0

-----------------------------------------------------------------------------
(* create_workflow, update_workflow, delete_workflow.                      *)

(* Variant: no version is given to the new row.                            *)
CreateWorkflowUnversioned(w, d, on) ==
    /\ workflows[w].state = "none"
    /\ workflows' = [workflows EXCEPT ![w] = [state |-> "live", version |-> 0,
                                              steps |-> d, enabled |-> on]]
    /\ defined' = [defined EXCEPT ![w] = {<<0, d>>}]
    /\ UNCHANGED <<runs, request, editor, answer, edits, failures>>

CreateWorkflow(w, d, on) ==
    /\ workflows[w].state = "none"
    /\ workflows' = [workflows EXCEPT ![w] = [state |-> "live", version |-> 1,
                                              steps |-> d, enabled |-> on]]
    /\ defined' = [defined EXCEPT ![w] = {<<1, d>>}]
    /\ UNCHANGED <<runs, request, editor, answer, edits, failures>>

EditRead(w, d, on) ==
    /\ Live(w)
    /\ edits < MaxEdits /\ edits' = edits + 1
    /\ editor' = [editor EXCEPT ![edits'] = [pc |-> "write", workflow |-> w, enabled |-> on,
                                        version |-> workflows[w].version, steps |-> d]]
    /\ UNCHANGED <<workflows, runs, request, answer, defined, failures>>

Define(w, version, d, on) ==
    IF Live(w)
    THEN /\ workflows' = [workflows EXCEPT ![w].version = version, ![w].steps = d,
                                           ![w].enabled = on]
         /\ defined' = [defined EXCEPT ![w] = @ \cup {<<version, d>>}]
    ELSE UNCHANGED <<workflows, defined>>

(* Variant: the version is counted on from the one that was read.          *)
EditWriteFromCopy(n) ==
    LET c == editor[n] IN
    /\ c.pc = "write"
    /\ Define(c.workflow, c.version + 1, c.steps, c.enabled)
    /\ editor' = [editor EXCEPT ![n] = IdleEditor]
    /\ UNCHANGED <<runs, request, answer, edits, failures>>

(* UPDATE workflows SET ..., version = version + 1: no row is left to      *)
(* update when the workflow was deleted, and the handler does not look.    *)
EditWrite(n) ==
    LET c == editor[n] IN
    /\ c.pc = "write"
    /\ Define(c.workflow, workflows[c.workflow].version + 1, c.steps, c.enabled)
    /\ editor' = [editor EXCEPT ![n] = IdleEditor]
    /\ UNCHANGED <<runs, request, answer, edits, failures>>

(* The foreign key of runs cascades (0001_init.sql:22).                    *)
DeleteWorkflow(w) ==
    /\ Live(w)
    /\ workflows' = [workflows EXCEPT ![w].state = "gone"]
    /\ runs' = [i \in DOMAIN runs |->
                   IF runs[i].workflow = w THEN [runs[i] EXCEPT !.gone = TRUE] ELSE runs[i]]
    /\ UNCHANGED <<request, editor, answer, defined, edits, failures>>

-----------------------------------------------------------------------------
(* run_workflow and trigger_webhook.                                       *)

Goto(q, pc) == request' = [request EXCEPT ![q].pc = pc]

(* The client posts until it is answered with a run.                       *)
Post(q) ==
    /\ request[q].pc = "idle" /\ answer[q] = 0
    /\ Goto(q, IF KeyOf[q] \in Keys THEN "lookup" ELSE "load")
    /\ UNCHANGED <<workflows, runs, editor, answer, defined, edits, failures>>

Rows(k) == {i \in DOMAIN runs : ~ runs[i].gone /\ runs[i].key = k}

(* Variant: the lookup never finds the run, as under another tenant.       *)
LookupMisses(q) ==
    /\ request[q].pc = "lookup"
    /\ Goto(q, "load") /\ UNCHANGED answer
    /\ UNCHANGED <<workflows, runs, editor, defined, edits, failures>>

Lookup(q) ==
    /\ request[q].pc = "lookup"
    /\ IF Rows(KeyOf[q]) = {}
       THEN Goto(q, "load") /\ UNCHANGED answer
       ELSE /\ request' = [request EXCEPT ![q] = IdleRequest]
            /\ \E i \in Rows(KeyOf[q]) : answer' = [answer EXCEPT ![q] = i]
    /\ UNCHANGED <<workflows, runs, editor, defined, edits, failures>>

(* `if let Ok(...)`: an error of the lookup counts as not found.           *)
LookupFails(q) ==
    /\ request[q].pc = "lookup"
    /\ failures < MaxFailures /\ failures' = failures + 1
    /\ Goto(q, "load")
    /\ UNCHANGED <<workflows, runs, editor, answer, defined, edits>>

(* 404, or 409 for a webhook of a disabled workflow.                       *)
Refused(q) == ~ Live(WorkflowOf[q]) \/ (q \in Hooks /\ ~ workflows[WorkflowOf[q]].enabled)

LoadWorkflow(q) ==
    LET w == workflows[WorkflowOf[q]] IN
    /\ request[q].pc = "load"
    /\ request' = [request EXCEPT ![q] =
          IF Refused(q) THEN IdleRequest
          ELSE [pc |-> "insert", version |-> w.version, steps |-> w.steps]]
    /\ UNCHANGED <<workflows, runs, editor, answer, defined, edits, failures>>

NewRow(q) == [workflow |-> WorkflowOf[q], version |-> request[q].version,
              steps |-> request[q].steps, gone |-> FALSE,
              key |-> IF KeyOf[q] \in Keys THEN KeyOf[q] ELSE "none"]

(* Variant: no unique index on the key.                                    *)
AcceptedTwice(q) == Live(WorkflowOf[q])

(* The foreign key and the unique index on (tenant_id, idempotency_key).   *)
Accepted(q) == Live(WorkflowOf[q]) /\ (KeyOf[q] \in Keys => Rows(KeyOf[q]) = {})

InsertRun(q) ==
    /\ request[q].pc = "insert" /\ Accepted(q)
    /\ runs' = Append(runs, NewRow(q))
    /\ answer' = [answer EXCEPT ![q] = Len(runs) + 1]
    /\ request' = [request EXCEPT ![q] = IdleRequest]
    /\ UNCHANGED <<workflows, editor, defined, edits, failures>>

(* 500, which tells the client nothing.                                    *)
InsertRefused(q) ==
    /\ request[q].pc = "insert" /\ ~ Accepted(q)
    /\ request' = [request EXCEPT ![q] = IdleRequest]
    /\ UNCHANGED <<workflows, runs, editor, answer, defined, edits, failures>>

(* The run is inserted, but the handler, or its answer, does not return.   *)
AnswerLost(q) ==
    /\ request[q].pc = "insert" /\ Accepted(q)
    /\ failures < MaxFailures /\ failures' = failures + 1
    /\ runs' = Append(runs, NewRow(q))
    /\ request' = [request EXCEPT ![q] = IdleRequest]
    /\ UNCHANGED <<workflows, editor, answer, defined, edits>>

RequestDropped(q) ==
    /\ request[q].pc # "idle"
    /\ failures < MaxFailures /\ failures' = failures + 1
    /\ request' = [request EXCEPT ![q] = IdleRequest]
    /\ UNCHANGED <<workflows, runs, editor, answer, defined, edits>>

-----------------------------------------------------------------------------

HandlerStep(q) == Lookup(q) \/ LoadWorkflow(q) \/ InsertRun(q) \/ InsertRefused(q)

StoreNext ==
    \/ \E w \in Workflows : DeleteWorkflow(w)
    \/ \E w \in Workflows, d \in Definitions, on \in BOOLEAN :
          CreateWorkflow(w, d, on) \/ EditRead(w, d, on)
    \/ \E n \in 1 .. MaxEdits : EditWrite(n)
    \/ \E q \in Requests : \/ Post(q) \/ HandlerStep(q)
                           \/ LookupFails(q) \/ AnswerLost(q) \/ RequestDropped(q)

StoreSpec == StoreInit /\ [][StoreNext]_storeVars

(* Handlers go on, and a client without an answer posts again.             *)
StoreFairness == \A q \in Requests : WF_storeVars(HandlerStep(q)) /\ WF_storeVars(Post(q))

FairStoreSpec == StoreSpec /\ StoreFairness

-----------------------------------------------------------------------------
(* Properties.                                                             *)

StoreTypeOK ==
    /\ workflows \in [Workflows -> Workflow]
    /\ runs \in Seq(RunRow)
    /\ request \in [Requests -> Request]
    /\ editor \in [1 .. MaxEdits -> Editor]
    /\ answer \in [Requests -> 0 .. Len(runs)]
    /\ defined \in [Workflows -> SUBSET ((Nat \ {0}) \X Definitions)]
    /\ edits \in 0 .. MaxEdits /\ failures \in 0 .. MaxFailures

(* Variant: every execution takes the live definition.                     *)
StepsOfLive(row) == workflows[row.workflow].steps

(* What an execution that starts now takes (execute_claimed): the snapshot,*)
(* or for a row without one the live definition, at each claim anew.       *)
StepsOf(row) == IF row.steps = NoSnapshot THEN workflows[row.workflow].steps ELSE row.steps

(* 0002_durable_queue.sql:17-23: whenever a run with a snapshot is         *)
(* executed, however its workflow is edited before, between and while, it  *)
(* takes one list of steps, and the version in its row names just that     *)
(* list among all that the workflow has had.                               *)
ExecutesTheRecordedVersion ==
    \A i \in DOMAIN runs : LET row == runs[i] IN
        ~ row.gone /\ row.steps # NoSnapshot =>
            /\ <<row.version, StepsOf(row)>> \in defined[row.workflow]
            /\ \A x \in defined[row.workflow] :
                  x[1] = row.version => x[2] = StepsOf(row)

(* 0003_add_idempotency.sql, api.rs:106-110: the requests that share a key *)
(* get one run, whatever is retried, lost or in flight at the same time.   *)
OwnerOf == [k \in Keys |-> IF Rows(k) = {} THEN 0 ELSE Some(Rows(k))]

Promise == INSTANCE Admission WITH owner <- OwnerOf, last <- Len(runs)

Idempotent == Promise!AdmissionSpec

(* A client that repeats its request under one key gets its run in the     *)
(* end: a key that is taken is answered, not refused for ever.             *)
RetryAnswered ==
    \A q \in Requests : KeyOf[q] \in Keys =>
        (Live(WorkflowOf[q]) ~> answer[q] # 0 \/ ~ Live(WorkflowOf[q]))
=============================================================================
