------------------------ MODULE WorkflowStoreProofs -------------------------
(***************************************************************************)
(* Proofs about WorkflowStore, for all workflows, definitions, requests,   *)
(* keys and bounds: the type invariant, that no run outlives its workflow, *)
(* that a run executes the version it records, and that admission          *)
(* implements the idempotency promise (module Admission).                  *)
(***************************************************************************)
EXTENDS WorkflowStore, TLAPS

LEMMA IdleTypes == IdleRequest \in Request /\ IdleEditor \in Editor
  <1>1. Some(Definitions) \in Definitions /\ Some(Workflows) \in Workflows
    BY DefinitionsAssumption, RequestsAssumption DEF Some
  <1> QED  BY <1>1 DEF IdleRequest, IdleEditor, Request, Editor

(* Deletion marks rows and keeps them rows.                                *)
LEMMA MarkedRows ==
    ASSUME StoreTypeOK, NEW w, DeleteWorkflow(w)
    PROVE  /\ runs' \in Seq(RunRow) /\ Len(runs') = Len(runs)
           /\ DOMAIN runs' = DOMAIN runs
           /\ \A i \in DOMAIN runs :
                 /\ runs[i].workflow = w => runs'[i].gone
                 /\ runs'[i].gone <=> runs[i].gone \/ runs[i].workflow = w
                 /\ runs'[i].workflow = runs[i].workflow
                 /\ runs'[i].version = runs[i].version
                 /\ runs'[i].steps = runs[i].steps
                 /\ runs'[i].key = runs[i].key
  <1> DEFINE Marked(r) == IF r.workflow = w THEN [r EXCEPT !.gone = TRUE] ELSE r
  <1>1. runs' = [i \in DOMAIN runs |-> Marked(runs[i])]  BY DEF DeleteWorkflow
  <1>2. /\ runs \in Seq(RunRow) /\ DOMAIN runs = 1 .. Len(runs) /\ Len(runs) \in Nat
        /\ \A i \in DOMAIN runs : runs[i] \in RunRow
    BY DEF StoreTypeOK
  <1>3. \A r \in RunRow : /\ Marked(r) \in RunRow
                          /\ r.workflow = w => Marked(r).gone
                          /\ Marked(r).gone <=> r.gone \/ r.workflow = w
                          /\ Marked(r).workflow = r.workflow
                          /\ Marked(r).version = r.version
                          /\ Marked(r).steps = r.steps /\ Marked(r).key = r.key
    BY DEF RunRow
  <1> HIDE DEF Marked
  <1>4. runs' \in [1 .. Len(runs) -> RunRow]  BY <1>1, <1>2, <1>3
  <1>5. runs' \in Seq(RunRow)  BY <1>2, <1>4
  <1>6. Len(runs') = Len(runs)  BY <1>2, <1>4, <1>5
  <1> QED  BY <1>1, <1>2, <1>3, <1>5, <1>6

LEMMA NewRowType ==
    ASSUME StoreTypeOK, NEW q \in Requests
    PROVE  NewRow(q) \in RunRow
  <1>1. WorkflowOf[q] \in Workflows  BY RequestsAssumption
  <1>2. request[q] \in Request  BY DEF StoreTypeOK
  <1> QED  BY <1>1, <1>2 DEF NewRow, RunRow, Request

LEMMA TypesStart == StoreInit => StoreTypeOK
  <1> SUFFICES ASSUME StoreInit PROVE StoreTypeOK  OBVIOUS
  <1> USE IdleTypes, StoreBoundsAssumption
  <1>1. Some(Definitions) \in Definitions  BY DefinitionsAssumption DEF Some
  <1>2. PICK W \in SUBSET Workflows :
          /\ workflows = [w \in Workflows |->
                [state |-> IF w \in W THEN "live" ELSE "none", version |-> 1,
                 steps |-> Some(Definitions), enabled |-> TRUE]]
          /\ defined = [w \in Workflows |->
                IF w \in W THEN {<<1, Some(Definitions)>>} ELSE {}]
          /\ runs \in {<<>>} \cup {<<Legacy(w)>> : w \in W}
    BY DEF StoreInit
  <1>3. \A w \in W : Legacy(w) \in RunRow  BY DEF Legacy, RunRow
  <1>4. runs \in Seq(RunRow)
    <2>1. CASE runs = <<>>  BY <2>1
    <2>2. ASSUME NEW w \in W, runs = <<Legacy(w)>> PROVE runs \in Seq(RunRow)
      BY <1>3, <2>2
    <2> QED  BY <1>2, <2>1, <2>2
  <1>5. 0 \in 0 .. Len(runs)  BY <1>4
  <1>6. workflows \in [Workflows -> Workflow]  BY <1>1, <1>2 DEF Workflow
  <1>7. defined \in [Workflows -> SUBSET ((Nat \ {0}) \X Definitions)]  BY <1>1, <1>2
  <1> QED  BY <1>4, <1>5, <1>6, <1>7 DEF StoreInit, StoreTypeOK

(* An appended row.                                                        *)
LEMMA AppendedRow ==
    ASSUME StoreTypeOK, NEW q \in Requests, runs' = Append(runs, NewRow(q))
    PROVE  /\ runs' \in Seq(RunRow)
           /\ Len(runs) \in Nat /\ Len(runs') = Len(runs) + 1
           /\ DOMAIN runs' = DOMAIN runs \cup {Len(runs) + 1}
           /\ \A i \in DOMAIN runs : runs'[i] = runs[i]
           /\ runs'[Len(runs) + 1] = NewRow(q)
           /\ Len(runs) + 1 \notin DOMAIN runs
  <1>1. NewRow(q) \in RunRow /\ runs \in Seq(RunRow)  BY NewRowType DEF StoreTypeOK
  <1> QED  BY <1>1

LEMMA LaterAnswers ==
    ASSUME StoreTypeOK, runs' \in Seq(RunRow), Len(runs') >= Len(runs)
    PROVE  \A q \in Requests : answer[q] \in 0 .. Len(runs')
  <1>1. Len(runs) \in Nat /\ Len(runs') \in Nat  BY DEF StoreTypeOK
  <1>2. \A q \in Requests : answer[q] \in 0 .. Len(runs)  BY DEF StoreTypeOK
  <1> QED  BY <1>1, <1>2

LEMMA GoingOn ==
    ASSUME StoreTypeOK, NEW q \in Requests,
           NEW pc \in {"idle", "lookup", "load", "insert"}, Goto(q, pc)
    PROVE  request' \in [Requests -> Request]
  <1>1. [request[q] EXCEPT !.pc = pc] \in Request  BY DEF StoreTypeOK, Request
  <1> QED  BY <1>1 DEF StoreTypeOK, Goto

LEMMA TypesStay == StoreTypeOK /\ [StoreNext]_storeVars => StoreTypeOK'
  <1> SUFFICES ASSUME StoreTypeOK, [StoreNext]_storeVars PROVE StoreTypeOK'
    OBVIOUS
  <1> USE DEF StoreTypeOK
  <1>1. ASSUME NEW w \in Workflows, DeleteWorkflow(w) PROVE StoreTypeOK'
    <2>1. runs' \in Seq(RunRow) /\ Len(runs') = Len(runs)
      BY <1>1, MarkedRows DEF DeleteWorkflow
    <2>2. workflows' \in [Workflows -> Workflow]
      BY <1>1 DEF DeleteWorkflow, Workflow
    <2> QED  BY <1>1, <2>1, <2>2 DEF DeleteWorkflow
  <1>2. ASSUME NEW w \in Workflows, NEW d \in Definitions, NEW on \in BOOLEAN,
               CreateWorkflow(w, d, on)
        PROVE  StoreTypeOK'
    BY <1>2 DEF CreateWorkflow, Workflow
  <1>3. ASSUME NEW w \in Workflows, NEW d \in Definitions, NEW on \in BOOLEAN,
               EditRead(w, d, on)
        PROVE  StoreTypeOK'
    <2>1. edits' \in 1 .. MaxEdits  BY <1>3, StoreBoundsAssumption DEF EditRead
    <2>2. workflows[w].version \in Nat \ {0}  BY DEF Workflow
    <2>3. editor' \in [1 .. MaxEdits -> Editor]  BY <1>3, <2>1, <2>2 DEF EditRead, Editor
    <2> QED  BY <1>3, <2>1, <2>3 DEF EditRead
  <1>4. ASSUME NEW n \in 1 .. MaxEdits, EditWrite(n) PROVE StoreTypeOK'
    <2>1. editor[n] \in Editor /\ editor' \in [1 .. MaxEdits -> Editor]
      BY <1>4, IdleTypes DEF EditWrite
    <2>2. workflows[editor[n].workflow].version + 1 \in Nat \ {0}
      BY <2>1 DEF Editor, Workflow
    <2>3. /\ workflows' \in [Workflows -> Workflow]
          /\ defined' \in [Workflows -> SUBSET ((Nat \ {0}) \X Definitions)]
      <3> DEFINE c == editor[n]
                 v == workflows[c.workflow].version + 1
      <3>1. /\ c.workflow \in Workflows /\ c.steps \in Definitions
            /\ c.enabled \in BOOLEAN /\ v \in Nat \ {0}
        BY <2>1, <2>2 DEF Editor
      <3>2. Define(c.workflow, v, c.steps, c.enabled)  BY <1>4 DEF EditWrite
      <3> HIDE DEF c, v
      <3>3. CASE Live(c.workflow)
        <4>1. workflows' \in [Workflows -> Workflow]
          <5>1. workflows' = [workflows EXCEPT ![c.workflow] =
                   [@ EXCEPT !.version = v, !.steps = c.steps, !.enabled = c.enabled]]
            BY <3>1, <3>2, <3>3 DEF Define
          <5>2. workflows[c.workflow] \in Workflow  BY <3>1
          <5>3. [workflows[c.workflow] EXCEPT !.version = v, !.steps = c.steps,
                                              !.enabled = c.enabled] \in Workflow
            BY <3>1, <5>2 DEF Workflow
          <5> QED  BY <3>1, <5>1, <5>3
        <4>2. <<v, c.steps>> \in (Nat \ {0}) \X Definitions  BY <3>1
        <4>3. defined' = [defined EXCEPT ![c.workflow] = @ \cup {<<v, c.steps>>}]
          BY <3>2, <3>3 DEF Define
        <4>4. [defined EXCEPT ![c.workflow] = @ \cup {<<v, c.steps>>}]
                 \in [Workflows -> SUBSET ((Nat \ {0}) \X Definitions)]
          <5>1. defined[c.workflow] \cup {<<v, c.steps>>}
                   \in SUBSET ((Nat \ {0}) \X Definitions)
            BY <3>1, <4>2
          <5> DEFINE D == SUBSET ((Nat \ {0}) \X Definitions)
          <5>2. defined \in [Workflows -> D]  OBVIOUS
          <5> HIDE DEF D
          <5> QED  BY <3>1, <5>1, <5>2
        <4> QED  BY <4>1, <4>3, <4>4
      <3>4. CASE ~ Live(c.workflow)  BY <3>2, <3>4 DEF Define
      <3> QED  BY <3>3, <3>4
    <2> QED  BY <1>4, <2>1, <2>3 DEF EditWrite
  <1>5. ASSUME NEW q \in Requests, Post(q) PROVE StoreTypeOK'
    <2>1. request' \in [Requests -> Request]  BY <1>5, GoingOn DEF Post
    <2> QED  BY <1>5, <2>1 DEF Post
  <1>6. ASSUME NEW q \in Requests, Lookup(q) PROVE StoreTypeOK'
    <2>1. CASE Rows(KeyOf[q]) = {}
      <3>1. request' \in [Requests -> Request]  BY <1>6, <2>1, GoingOn DEF Lookup
      <3> QED  BY <1>6, <2>1, <3>1 DEF Lookup
    <2>2. CASE Rows(KeyOf[q]) # {}
      <3>1. request' \in [Requests -> Request]  BY <1>6, <2>2, IdleTypes DEF Lookup
      <3>2. Rows(KeyOf[q]) \subseteq 0 .. Len(runs)  BY DEF Rows
      <3>3. answer' \in [Requests -> 0 .. Len(runs)]  BY <1>6, <2>2, <3>2 DEF Lookup
      <3> QED  BY <1>6, <2>2, <3>1, <3>3 DEF Lookup
    <2> QED  BY <2>1, <2>2
  <1>7. ASSUME NEW q \in Requests, LookupFails(q) PROVE StoreTypeOK'
    <2>1. request' \in [Requests -> Request]  BY <1>7, GoingOn DEF LookupFails
    <2> QED  BY <1>7, <2>1, StoreBoundsAssumption DEF LookupFails
  <1>8. ASSUME NEW q \in Requests, LoadWorkflow(q) PROVE StoreTypeOK'
    <2>1. workflows[WorkflowOf[q]] \in Workflow  BY RequestsAssumption
    <2>2. [pc |-> "insert", version |-> workflows[WorkflowOf[q]].version,
           steps |-> workflows[WorkflowOf[q]].steps] \in Request
      BY <2>1 DEF Request, Workflow
    <2>3. request' \in [Requests -> Request]  BY <1>8, <2>2, IdleTypes DEF LoadWorkflow
    <2> QED  BY <1>8, <2>3 DEF LoadWorkflow
  <1>9. ASSUME NEW q \in Requests, InsertRun(q) PROVE StoreTypeOK'
    <2>1. /\ runs' \in Seq(RunRow)
          /\ Len(runs) \in Nat /\ Len(runs') = Len(runs) + 1
      BY <1>9, AppendedRow DEF InsertRun
    <2>2. \A p \in Requests : answer[p] \in 0 .. Len(runs')  BY <2>1, LaterAnswers
    <2>3. answer' \in [Requests -> 0 .. Len(runs')]  BY <1>9, <2>1, <2>2 DEF InsertRun
    <2>4. request' \in [Requests -> Request]  BY <1>9, IdleTypes DEF InsertRun
    <2> QED  BY <1>9, <2>1, <2>3, <2>4 DEF InsertRun
  <1>10. ASSUME NEW q \in Requests, InsertRefused(q) PROVE StoreTypeOK'
    <2>1. request' \in [Requests -> Request]  BY <1>10, IdleTypes DEF InsertRefused
    <2> QED  BY <1>10, <2>1 DEF InsertRefused
  <1>11. ASSUME NEW q \in Requests, AnswerLost(q) PROVE StoreTypeOK'
    <2>1. /\ runs' \in Seq(RunRow)
          /\ Len(runs) \in Nat /\ Len(runs') = Len(runs) + 1
      BY <1>11, AppendedRow DEF AnswerLost
    <2>2. \A p \in Requests : answer[p] \in 0 .. Len(runs')  BY <2>1, LaterAnswers
    <2>3. answer' \in [Requests -> 0 .. Len(runs')]  BY <1>11, <2>2 DEF AnswerLost
    <2>4. request' \in [Requests -> Request]  BY <1>11, IdleTypes DEF AnswerLost
    <2> QED  BY <1>11, <2>1, <2>3, <2>4, StoreBoundsAssumption DEF AnswerLost
  <1>12. ASSUME NEW q \in Requests, RequestDropped(q) PROVE StoreTypeOK'
    <2>1. request' \in [Requests -> Request]  BY <1>12, IdleTypes DEF RequestDropped
    <2> QED  BY <1>12, <2>1, StoreBoundsAssumption DEF RequestDropped
  <1>13. CASE UNCHANGED storeVars  BY <1>13 DEF storeVars
  <1> QED
    BY <1>1, <1>2, <1>3, <1>4, <1>5, <1>6, <1>7, <1>8, <1>9, <1>10, <1>11, <1>12, <1>13
       DEF StoreNext, HandlerStep

(* Every table, request and answer keeps its shape.                        *)
THEOREM StoreTypes == StoreSpec => []StoreTypeOK
  BY TypesStart, TypesStay, PTL DEF StoreSpec
-----------------------------------------------------------------------------
(* The inductive invariant: versions name definitions, requests in flight  *)
(* and rows hold a definition with its version, rows belong to live        *)
(* workflows, a key has one row, and a request in flight has no answer.    *)
VersionsName ==
    \A w \in Workflows :
        /\ Live(w) => <<workflows[w].version, workflows[w].steps>> \in defined[w]
        /\ Live(w) => \A x \in defined[w] : x[1] <= workflows[w].version
        /\ \A x, y \in defined[w] : x[1] = y[1] => x[2] = y[2]

RequestsRead ==
    \A q \in Requests : request[q].pc = "insert" =>
        /\ workflows[WorkflowOf[q]].state # "none"
        /\ <<request[q].version, request[q].steps>> \in defined[WorkflowOf[q]]

RowsRecorded ==
    \A i \in DOMAIN runs : ~ runs[i].gone /\ runs[i].steps # NoSnapshot =>
        <<runs[i].version, runs[i].steps>> \in defined[runs[i].workflow]

RowsOwned == \A i \in DOMAIN runs : runs[i].gone \/ Live(runs[i].workflow)

OneRowPerKey == \A k \in Keys : \A i, j \in Rows(k) : i = j

Unanswered == \A q \in Requests : request[q].pc # "idle" => answer[q] = 0

LookupsKeyed == \A q \in Requests : request[q].pc = "lookup" => KeyOf[q] \in Keys

StoreInv ==
    /\ StoreTypeOK /\ RowsOwned /\ VersionsName /\ RequestsRead
    /\ RowsRecorded /\ OneRowPerKey /\ Unanswered /\ LookupsKeyed

Inserts(q) ==
    /\ request[q].pc = "insert" /\ Accepted(q)
    /\ runs' = Append(runs, NewRow(q))
    /\ UNCHANGED <<workflows, defined>>

(* What a step does to the tables of workflows and runs.                   *)
LEMMA TableSteps ==
    ASSUME [StoreNext]_storeVars
    PROVE  \/ \E w \in Workflows : DeleteWorkflow(w)
           \/ \E w \in Workflows, d \in Definitions, on \in BOOLEAN : CreateWorkflow(w, d, on)
           \/ \E n \in 1 .. MaxEdits : EditWrite(n)
           \/ \E q \in Requests : Inserts(q)
           \/ UNCHANGED <<workflows, runs, defined>>
  <1>1. CASE UNCHANGED storeVars  BY <1>1 DEF storeVars
  <1>2. ASSUME NEW q \in Requests, Post(q) \/ LookupFails(q) \/ RequestDropped(q)
               \/ Lookup(q) \/ LoadWorkflow(q) \/ InsertRefused(q)
        PROVE  UNCHANGED <<workflows, runs, defined>>
    BY <1>2 DEF Post, LookupFails, RequestDropped, Lookup, LoadWorkflow, InsertRefused
  <1>3. ASSUME NEW q \in Requests, InsertRun(q) \/ AnswerLost(q) PROVE Inserts(q)
    BY <1>3 DEF InsertRun, AnswerLost, Inserts
  <1>4. ASSUME NEW w, NEW d, NEW on, EditRead(w, d, on)
        PROVE  UNCHANGED <<workflows, runs, defined>>
    BY <1>4 DEF EditRead
  <1> QED  BY <1>1, <1>2, <1>3, <1>4 DEF StoreNext, HandlerStep

(* What an update does, with the types of what it writes.                  *)
LEMMA UpdateStep ==
    ASSUME StoreTypeOK, NEW n \in 1 .. MaxEdits, EditWrite(n)
    PROVE  /\ UNCHANGED runs
           /\ \/ UNCHANGED <<workflows, defined>>
              \/ \E w \in Workflows, d \in Definitions, on \in BOOLEAN :
                    /\ Live(w)
                    /\ workflows' = [workflows EXCEPT ![w].version = @ + 1,
                                                      ![w].steps = d, ![w].enabled = on]
                    /\ defined' = [defined EXCEPT
                          ![w] = @ \cup {<<workflows[w].version + 1, d>>}]
  <1>1. editor[n] \in Editor  BY DEF StoreTypeOK
  <1> DEFINE c == editor[n]
  <1>2. c.workflow \in Workflows /\ c.steps \in Definitions /\ c.enabled \in BOOLEAN
    BY <1>1 DEF Editor
  <1>3. Define(c.workflow, workflows[c.workflow].version + 1, c.steps, c.enabled)
    BY DEF EditWrite
  <1>4. CASE ~ Live(c.workflow)  BY <1>3, <1>4 DEF Define, EditWrite
  <1>5. CASE Live(c.workflow)
    <2>1. /\ workflows' = [workflows EXCEPT
                ![c.workflow].version = workflows[c.workflow].version + 1,
                ![c.workflow].steps = c.steps, ![c.workflow].enabled = c.enabled]
          /\ defined' = [defined EXCEPT ![c.workflow] =
                @ \cup {<<workflows[c.workflow].version + 1, c.steps>>}]
      BY <1>3, <1>5 DEF Define
    <2> HIDE DEF c
    <2>2. workflows' = [workflows EXCEPT ![c.workflow].version = @ + 1,
                ![c.workflow].steps = c.steps, ![c.workflow].enabled = c.enabled]
      BY <2>1
    <2> QED  BY <1>2, <1>5, <2>1, <2>2 DEF EditWrite
  <1> QED  BY <1>4, <1>5

(* A workflow gets a definition under a version that it has not had.       *)
Redefines(w, d, v) ==
    /\ workflows'[w].state = "live"
    /\ workflows'[w].version = v /\ workflows'[w].steps = d
    /\ \A x \in Workflows \ {w} : workflows'[x] = workflows[x] /\ defined'[x] = defined[x]
    /\ UNCHANGED runs

LEMMA CreateFields ==
    ASSUME StoreTypeOK, NEW w \in Workflows, NEW d, NEW on, CreateWorkflow(w, d, on)
    PROVE  /\ Redefines(w, d, 1)
           /\ workflows[w].state = "none" /\ defined'[w] = {<<1, d>>}
  BY DEF StoreTypeOK, CreateWorkflow, Redefines

LEMMA UpdateFields ==
    ASSUME StoreTypeOK, NEW n \in 1 .. MaxEdits, EditWrite(n),
           ~ UNCHANGED <<workflows, defined>>
    PROVE  \E w \in Workflows, d \in Definitions :
              /\ Redefines(w, d, workflows[w].version + 1)
              /\ Live(w)
              /\ defined'[w] = defined[w] \cup {<<workflows[w].version + 1, d>>}
  <1>1. PICK w \in Workflows, d \in Definitions, on \in BOOLEAN :
           /\ Live(w)
           /\ workflows' = [workflows EXCEPT ![w].version = @ + 1,
                                             ![w].steps = d, ![w].enabled = on]
           /\ defined' = [defined EXCEPT ![w] = @ \cup {<<workflows[w].version + 1, d>>}]
    BY UpdateStep
  <1>2. UNCHANGED runs  BY UpdateStep
  <1>3. workflows[w] \in Workflow  BY DEF StoreTypeOK
  <1>4. workflows'[w] = [workflows[w] EXCEPT !.version = workflows[w].version + 1,
                                             !.steps = d, !.enabled = on]
    BY <1>1 DEF StoreTypeOK
  <1>5. /\ workflows'[w].state = "live" /\ workflows'[w].steps = d
        /\ workflows'[w].version = workflows[w].version + 1
    <2>1. workflows[w].state = "live"  BY <1>1 DEF Live
    <2> QED  BY <1>3, <1>4, <2>1 DEF Workflow
  <1>6. \A x \in Workflows \ {w} :
           workflows'[x] = workflows[x] /\ defined'[x] = defined[x]
    BY <1>1 DEF StoreTypeOK
  <1>7. defined'[w] = defined[w] \cup {<<workflows[w].version + 1, d>>}
    BY <1>1 DEF StoreTypeOK
  <1> QED  BY <1>1, <1>2, <1>5, <1>6, <1>7 DEF Redefines

LEMMA OwnedStay ==
    ASSUME StoreTypeOK, StoreTypeOK', RowsOwned, [StoreNext]_storeVars
    PROVE  RowsOwned'
  <1> USE DEF RowsOwned
  <1>1. \A i \in DOMAIN runs : runs[i].workflow \in Workflows
    <2>1. \A i \in DOMAIN runs : runs[i] \in RunRow  BY DEF StoreTypeOK
    <2> QED  BY <2>1 DEF RunRow
  <1>2. ASSUME NEW w \in Workflows, DeleteWorkflow(w) PROVE RowsOwned'
    <2>1. \A x \in Workflows \ {w} : workflows'[x] = workflows[x]
      BY <1>2 DEF DeleteWorkflow, StoreTypeOK
    <2> QED  BY <1>1, <1>2, <2>1, MarkedRows DEF Live
  <1>3. ASSUME NEW w \in Workflows, NEW d, NEW v, Redefines(w, d, v)
        PROVE  RowsOwned'
    BY <1>1, <1>3 DEF Redefines, Live
  <1>4. ASSUME NEW q \in Requests, Inserts(q) PROVE RowsOwned'
    <2>1. Live(WorkflowOf[q]) /\ NewRow(q).workflow = WorkflowOf[q]
      BY <1>4 DEF Inserts, Accepted, NewRow
    <2> QED  BY <1>4, <2>1, AppendedRow DEF Inserts, Live
  <1>5. CASE UNCHANGED <<workflows, runs, defined>>  BY <1>5 DEF Live
  <1>6. ASSUME NEW n \in 1 .. MaxEdits, EditWrite(n) PROVE RowsOwned'
    <2>1. CASE UNCHANGED <<workflows, defined>>  BY <2>1, <1>6, UpdateStep DEF Live
    <2>2. CASE ~ UNCHANGED <<workflows, defined>>
      BY <2>2, <1>6, <1>3, UpdateFields
    <2> QED  BY <2>1, <2>2
  <1> QED  BY <1>2, <1>3, <1>4, <1>5, <1>6, TableSteps, CreateFields

LEMMA VersionsStay ==
    ASSUME StoreTypeOK, VersionsName, [StoreNext]_storeVars
    PROVE  VersionsName'
  <1> USE DEF VersionsName
  <1>1. \A w \in Workflows : /\ workflows[w].version \in Nat
                             /\ \A x \in defined[w] : x[1] \in Nat
    BY DEF StoreTypeOK, Workflow
  <1>2. ASSUME NEW w \in Workflows, DeleteWorkflow(w) PROVE VersionsName'
    <2>1. /\ \A x \in Workflows \ {w} : workflows'[x] = workflows[x]
          /\ workflows'[w].state = "gone" /\ UNCHANGED defined
      BY <1>2 DEF DeleteWorkflow, StoreTypeOK
    <2> QED  BY <2>1 DEF Live
  <1>3. ASSUME NEW w \in Workflows, NEW d \in Definitions, NEW on, CreateWorkflow(w, d, on)
        PROVE  VersionsName'
    <2>1. Redefines(w, d, 1) /\ defined'[w] = {<<1, d>>}  BY <1>3, CreateFields
    <2> QED  BY <2>1 DEF Redefines, Live
  <1>4. ASSUME NEW n \in 1 .. MaxEdits, EditWrite(n), ~ UNCHANGED <<workflows, defined>>
        PROVE  VersionsName'
    <2>1. PICK w \in Workflows, d \in Definitions :
              /\ Redefines(w, d, workflows[w].version + 1)
              /\ Live(w)
              /\ defined'[w] = defined[w] \cup {<<workflows[w].version + 1, d>>}
      BY <1>4, UpdateFields
    <2>2. ASSUME NEW x \in Workflows \ {w}
          PROVE  /\ workflows'[x].state = "live" => <<workflows'[x].version, workflows'[x].steps>> \in defined'[x]
                 /\ workflows'[x].state = "live" => \A y \in defined'[x] : y[1] <= workflows'[x].version
                 /\ \A y, z \in defined'[x] : y[1] = z[1] => y[2] = z[2]
      BY <2>1 DEF Redefines, Live
    <2>3. \A y \in defined[w] : y[1] <= workflows[w].version /\ y[1] \in Nat
      BY <1>1, <2>1
    <2>4. \A y \in defined'[w] : y[1] <= workflows[w].version + 1
      BY <1>1, <2>1, <2>3
    <2>5. \A y, z \in defined'[w] : y[1] = z[1] => y[2] = z[2]
      <3>1. \A y \in defined[w] : y[1] # workflows[w].version + 1
        BY <1>1, <2>1, <2>3
      <3>2. ASSUME NEW y, y = <<workflows[w].version + 1, d>>
            PROVE  y[1] = workflows[w].version + 1
        BY <3>2
      <3> HIDE DEF VersionsName
      <3>3. \A y, z \in defined[w] : y[1] = z[1] => y[2] = z[2]  BY DEF VersionsName
      <3> QED  BY <2>1, <3>1, <3>2, <3>3, Zenon
    <2>6. /\ workflows'[w].state = "live" => <<workflows'[w].version, workflows'[w].steps>> \in defined'[w]
          /\ workflows'[w].state = "live" => \A y \in defined'[w] : y[1] <= workflows'[w].version
      BY <2>1, <2>4 DEF Redefines, Live
    <2> HIDE DEF VersionsName
    <2>7. \A x \in Workflows :
             /\ workflows'[x].state = "live" =>
                   <<workflows'[x].version, workflows'[x].steps>> \in defined'[x]
             /\ workflows'[x].state = "live" =>
                   \A y \in defined'[x] : y[1] <= workflows'[x].version
             /\ \A y, z \in defined'[x] : y[1] = z[1] => y[2] = z[2]
      BY <2>2, <2>5, <2>6
    <2> QED  BY <2>7 DEF VersionsName, Live
  <1>5. CASE UNCHANGED <<workflows, defined>>  BY <1>5 DEF Live
  <1> QED  BY <1>2, <1>3, <1>4, <1>5, TableSteps DEF Inserts

(* Definitions are only added while somebody may still refer to them.      *)
LEMMA DefinedGrows ==
    ASSUME StoreTypeOK, [StoreNext]_storeVars
    PROVE  \A w \in Workflows : workflows[w].state # "none" =>
              defined[w] \subseteq defined'[w] /\ workflows'[w].state # "none"
  <1>1. ASSUME NEW w \in Workflows, DeleteWorkflow(w)
        PROVE  \A x \in Workflows : workflows[x].state # "none" =>
                  defined[x] \subseteq defined'[x] /\ workflows'[x].state # "none"
    BY <1>1 DEF DeleteWorkflow, StoreTypeOK, Workflow
  <1>2. ASSUME NEW w \in Workflows, NEW d, NEW on, CreateWorkflow(w, d, on)
        PROVE  \A x \in Workflows : workflows[x].state # "none" =>
                  defined[x] \subseteq defined'[x] /\ workflows'[x].state # "none"
    BY <1>2, CreateFields DEF Redefines
  <1>3. ASSUME NEW n \in 1 .. MaxEdits, EditWrite(n), ~ UNCHANGED <<workflows, defined>>
        PROVE  \A x \in Workflows : workflows[x].state # "none" =>
                  defined[x] \subseteq defined'[x] /\ workflows'[x].state # "none"
    BY <1>3, UpdateFields DEF Redefines
  <1> QED  BY <1>1, <1>2, <1>3, TableSteps DEF Inserts

LEMMA ReadsStay ==
    ASSUME StoreTypeOK, VersionsName, RequestsRead, [StoreNext]_storeVars
    PROVE  RequestsRead'
  <1> DEFINE Read(q) ==
        /\ workflows[WorkflowOf[q]].state # "none"
        /\ <<request[q].version, request[q].steps>> \in defined[WorkflowOf[q]]
  <1>1. \A q \in Requests : WorkflowOf[q] \in Workflows  BY RequestsAssumption
  <1>2. ASSUME NEW q \in Requests, request'[q] = request[q], request[q].pc = "insert"
        PROVE  Read(q)'
    <2>1. Read(q)  BY <1>2 DEF RequestsRead
    <2> QED  BY <1>1, <1>2, <2>1, DefinedGrows
  <1>3. ASSUME NEW q \in Requests, LoadWorkflow(q)
        PROVE  RequestsRead'
    <2>1. CASE Refused(q)
      <3>1. request'[q].pc = "idle"
        BY <1>3, <2>1 DEF LoadWorkflow, IdleRequest, StoreTypeOK
      <3>2. \A p \in Requests \ {q} : request'[p] = request[p]
        BY <1>3 DEF LoadWorkflow, StoreTypeOK
      <3> QED  BY <1>2, <3>1, <3>2 DEF RequestsRead
    <2>2. CASE ~ Refused(q)
      <3>1. Live(WorkflowOf[q])  BY <2>2 DEF Refused
      <3>2. /\ request'[q].version = workflows[WorkflowOf[q]].version
            /\ request'[q].steps = workflows[WorkflowOf[q]].steps
            /\ UNCHANGED <<workflows, defined>>
        BY <1>3, <2>2 DEF LoadWorkflow, StoreTypeOK
      <3>3. Read(q)'  BY <1>1, <3>1, <3>2 DEF VersionsName, Live
      <3>4. \A p \in Requests \ {q} : request'[p] = request[p]
        BY <1>3 DEF LoadWorkflow, StoreTypeOK
      <3> QED  BY <1>2, <3>3, <3>4 DEF RequestsRead
    <2> QED  BY <2>1, <2>2
  <1>4. ASSUME NEW q \in Requests,
               \/ Post(q) \/ Lookup(q) \/ LookupFails(q) \/ RequestDropped(q)
               \/ InsertRun(q) \/ InsertRefused(q) \/ AnswerLost(q)
        PROVE  RequestsRead'
    <2>1. request'[q].pc # "insert"
      <3>1. IdleRequest.pc = "idle"  BY DEF IdleRequest
      <3>2. ASSUME NEW pc \in {"lookup", "load"}, Goto(q, pc)
            PROVE  request'[q].pc # "insert"
        BY <3>2 DEF Goto, StoreTypeOK, Request
      <3>3. CASE Post(q) \/ LookupFails(q)  BY <3>2, <3>3 DEF Post, LookupFails
      <3>4. CASE Lookup(q)
        <4>1. CASE Rows(KeyOf[q]) = {}  BY <3>2, <3>4, <4>1 DEF Lookup
        <4>2. CASE Rows(KeyOf[q]) # {}
          BY <3>1, <3>4, <4>2 DEF Lookup, StoreTypeOK
        <4> QED  BY <4>1, <4>2
      <3>5. CASE RequestDropped(q) \/ InsertRun(q) \/ InsertRefused(q) \/ AnswerLost(q)
        BY <3>1, <3>5
           DEF RequestDropped, InsertRun, InsertRefused, AnswerLost, StoreTypeOK
      <3> QED  BY <1>4, <3>3, <3>4, <3>5
    <2>2. \A p \in Requests \ {q} : request'[p] = request[p]
      BY <1>4 DEF Post, Lookup, LookupFails, RequestDropped, InsertRun, InsertRefused,
                  AnswerLost, Goto, StoreTypeOK
    <2> QED  BY <1>2, <2>1, <2>2 DEF RequestsRead
  <1>5. CASE UNCHANGED request  BY <1>2, <1>5 DEF RequestsRead
  <1>6. ASSUME ~ UNCHANGED request
        PROVE  \E q \in Requests :
                  \/ LoadWorkflow(q)
                  \/ Post(q) \/ Lookup(q) \/ LookupFails(q) \/ RequestDropped(q)
                  \/ InsertRun(q) \/ InsertRefused(q) \/ AnswerLost(q)
    BY <1>6 DEF StoreNext, HandlerStep, storeVars, DeleteWorkflow, CreateWorkflow,
                EditRead, EditWrite
  <1> QED  BY <1>3, <1>4, <1>5, <1>6

LEMMA RunsChange ==
    ASSUME StoreTypeOK, [StoreNext]_storeVars, ~ UNCHANGED runs
    PROVE  \/ \E w \in Workflows : DeleteWorkflow(w)
           \/ \E q \in Requests : Inserts(q)
  BY TableSteps, UpdateStep DEF CreateWorkflow

LEMMA RecordsStay ==
    ASSUME StoreTypeOK, RowsOwned, RequestsRead, RowsRecorded, [StoreNext]_storeVars
    PROVE  RowsRecorded'
  <1> DEFINE Recorded(i) == ~ runs[i].gone /\ runs[i].steps # NoSnapshot =>
                <<runs[i].version, runs[i].steps>> \in defined[runs[i].workflow]
  <1>1. \A i \in DOMAIN runs : runs[i].workflow \in Workflows
    <2>1. \A i \in DOMAIN runs : runs[i] \in RunRow  BY DEF StoreTypeOK
    <2> QED  BY <2>1 DEF RunRow
  <1>2. \A i \in DOMAIN runs : ~ runs[i].gone => workflows[runs[i].workflow].state # "none"
    BY DEF RowsOwned, Live
  <1>3. ASSUME NEW i \in DOMAIN runs, ~ runs[i].gone, runs[i].steps # NoSnapshot
        PROVE  <<runs[i].version, runs[i].steps>> \in defined'[runs[i].workflow]
    BY <1>1, <1>2, <1>3, DefinedGrows DEF RowsRecorded
  <1>4. CASE UNCHANGED runs  BY <1>3, <1>4 DEF RowsRecorded
  <1>5. ASSUME NEW w \in Workflows, DeleteWorkflow(w) PROVE RowsRecorded'
    BY <1>3, <1>5, MarkedRows DEF RowsRecorded
  <1>6. ASSUME NEW q \in Requests, Inserts(q) PROVE RowsRecorded'
    <2>1. /\ NewRow(q).workflow = WorkflowOf[q]
          /\ NewRow(q).version = request[q].version /\ NewRow(q).steps = request[q].steps
      BY DEF NewRow
    <2>2. <<request[q].version, request[q].steps>> \in defined'[WorkflowOf[q]]
      BY <1>6 DEF Inserts, RequestsRead
    <2> QED  BY <1>3, <1>6, <2>1, <2>2, AppendedRow DEF RowsRecorded, Inserts
  <1> QED  BY <1>4, <1>5, <1>6, RunsChange

(* The rows of a key: an insertion adds one, a deletion takes some away.   *)
LEMMA InsertedKey ==
    ASSUME StoreTypeOK, NEW q \in Requests, Inserts(q), NEW k \in Keys
    PROVE  Rows(k)' = IF k = KeyOf[q] THEN {Len(runs) + 1} ELSE Rows(k)
  <1>1. ~ NewRow(q).gone /\ (NewRow(q).key = k <=> k = KeyOf[q])
    BY RequestsAssumption DEF NewRow
  <1>2. Rows(k)' = Rows(k) \cup (IF k = KeyOf[q] THEN {Len(runs) + 1} ELSE {})
    BY <1>1, AppendedRow DEF Inserts, Rows
  <1>3. k = KeyOf[q] => Rows(k) = {}  BY DEF Inserts, Accepted
  <1> QED  BY <1>2, <1>3

LEMMA DeletedKey ==
    ASSUME StoreTypeOK, NEW w, DeleteWorkflow(w), NEW k
    PROVE  Rows(k)' \subseteq Rows(k)
  BY MarkedRows DEF Rows

LEMMA KeysStay ==
    ASSUME StoreTypeOK, OneRowPerKey, [StoreNext]_storeVars
    PROVE  OneRowPerKey'
  <1>1. CASE UNCHANGED runs  BY <1>1 DEF OneRowPerKey, Rows
  <1>2. ASSUME NEW w \in Workflows, DeleteWorkflow(w) PROVE OneRowPerKey'
    <2>1. \A k \in Keys : Rows(k)' \subseteq Rows(k)  BY <1>2, DeletedKey
    <2> QED  BY <2>1 DEF OneRowPerKey
  <1>3. ASSUME NEW q \in Requests, Inserts(q) PROVE OneRowPerKey'
    <2>1. \A k \in Keys : Rows(k)' = IF k = KeyOf[q] THEN {Len(runs) + 1} ELSE Rows(k)
      BY <1>3, InsertedKey
    <2> QED  BY <2>1 DEF OneRowPerKey
  <1> QED  BY <1>1, <1>2, <1>3, RunsChange

LEMMA UnansweredStays ==
    ASSUME StoreTypeOK, Unanswered, [StoreNext]_storeVars
    PROVE  Unanswered'
  <1> USE DEF Unanswered
  <1>0. IdleRequest.pc = "idle"  BY DEF IdleRequest
  <1>1. ASSUME NEW q \in Requests,
               Post(q) \/ LookupFails(q) \/ LoadWorkflow(q) \/ InsertRefused(q)
               \/ AnswerLost(q) \/ RequestDropped(q)
        PROVE  Unanswered'
    <2>1. answer[q] = 0 /\ UNCHANGED answer
      BY <1>1 DEF Post, LookupFails, LoadWorkflow, InsertRefused, AnswerLost, RequestDropped
    <2>2. \A p \in Requests \ {q} : request'[p] = request[p]
      BY <1>1 DEF Post, LookupFails, LoadWorkflow, InsertRefused, AnswerLost,
                  RequestDropped, Goto, StoreTypeOK
    <2> QED  BY <2>1, <2>2
  <1>2. ASSUME NEW q \in Requests, InsertRun(q) PROVE Unanswered'
    BY <1>0, <1>2 DEF InsertRun, StoreTypeOK
  <1>3. ASSUME NEW q \in Requests, Lookup(q) PROVE Unanswered'
    <2>1. CASE Rows(KeyOf[q]) = {}
      BY <1>3, <2>1 DEF Lookup, Goto, StoreTypeOK
    <2>2. CASE Rows(KeyOf[q]) # {}
      BY <1>0, <1>3, <2>2 DEF Lookup, StoreTypeOK
    <2> QED  BY <2>1, <2>2
  <1>4. CASE UNCHANGED <<request, answer>>  BY <1>4
  <1>5. ~ UNCHANGED <<request, answer>> => \E q \in Requests :
            \/ Post(q) \/ Lookup(q) \/ LookupFails(q) \/ RequestDropped(q)
            \/ LoadWorkflow(q) \/ InsertRun(q) \/ InsertRefused(q) \/ AnswerLost(q)
    BY DEF StoreNext, HandlerStep, storeVars, DeleteWorkflow, CreateWorkflow,
           EditRead, EditWrite
  <1> QED  BY <1>1, <1>2, <1>3, <1>4, <1>5

LEMMA LookupsStayKeyed ==
    ASSUME StoreTypeOK, LookupsKeyed, [StoreNext]_storeVars
    PROVE  LookupsKeyed'
  <1> USE DEF LookupsKeyed
  <1>0. IdleRequest.pc = "idle"  BY DEF IdleRequest
  <1>1. ASSUME NEW q \in Requests, NEW pc \in {"lookup", "load"}, Goto(q, pc),
               pc = "lookup" => KeyOf[q] \in Keys
        PROVE  LookupsKeyed'
    BY <1>1 DEF Goto, StoreTypeOK, Request
  <1>2. ASSUME NEW q \in Requests, NEW s \in Request,
               request' = [request EXCEPT ![q] = s], s.pc # "lookup"
        PROVE  LookupsKeyed'
    BY <1>2 DEF StoreTypeOK
  <1>3. ASSUME NEW q \in Requests, Post(q) \/ LookupFails(q) PROVE LookupsKeyed'
    BY <1>1, <1>3 DEF Post, LookupFails
  <1>4. ASSUME NEW q \in Requests, Lookup(q) PROVE LookupsKeyed'
    <2>1. CASE Rows(KeyOf[q]) = {}  BY <1>1, <1>4, <2>1 DEF Lookup
    <2>2. CASE Rows(KeyOf[q]) # {}
      BY <1>0, <1>2, <1>4, <2>2, IdleTypes DEF Lookup
    <2> QED  BY <2>1, <2>2
  <1>5. ASSUME NEW q \in Requests, LoadWorkflow(q) PROVE LookupsKeyed'
    <2> DEFINE w == workflows[WorkflowOf[q]]
               loaded == [pc |-> "insert", version |-> w.version, steps |-> w.steps]
    <2>1. w \in Workflow  BY RequestsAssumption DEF StoreTypeOK
    <2>2. loaded \in Request /\ loaded.pc # "lookup"  BY <2>1 DEF Workflow, Request
    <2>3. CASE Refused(q)  BY <1>0, <1>2, <1>5, <2>3, IdleTypes DEF LoadWorkflow
    <2>4. CASE ~ Refused(q)
      <3>1. request' = [request EXCEPT ![q] = loaded]  BY <1>5, <2>4 DEF LoadWorkflow
      <3> QED  BY <1>2, <2>2, <3>1
    <2> QED  BY <2>3, <2>4
  <1>6. ASSUME NEW q \in Requests,
               RequestDropped(q) \/ InsertRun(q) \/ InsertRefused(q) \/ AnswerLost(q)
        PROVE  LookupsKeyed'
    BY <1>0, <1>2, <1>6, IdleTypes DEF RequestDropped, InsertRun, InsertRefused, AnswerLost
  <1>7. CASE UNCHANGED request  BY <1>7
  <1> QED
    BY <1>3, <1>4, <1>5, <1>6, <1>7
       DEF StoreNext, HandlerStep, storeVars, DeleteWorkflow, CreateWorkflow,
           EditRead, EditWrite

LEMMA StoreInvStarts == StoreInit => StoreInv
  <1> SUFFICES ASSUME StoreInit PROVE StoreInv  OBVIOUS
  <1>1. StoreTypeOK  BY TypesStart
  <1>2. PICK W \in SUBSET Workflows :
          /\ workflows = [w \in Workflows |->
                [state |-> IF w \in W THEN "live" ELSE "none", version |-> 1,
                 steps |-> Some(Definitions), enabled |-> TRUE]]
          /\ defined = [w \in Workflows |->
                IF w \in W THEN {<<1, Some(Definitions)>>} ELSE {}]
          /\ runs \in {<<>>} \cup {<<Legacy(w)>> : w \in W}
    BY DEF StoreInit
  <1>3. \A i \in DOMAIN runs : \E w \in W : runs[i] = Legacy(w) /\ i = 1
    <2>1. CASE runs = <<>>  BY <2>1
    <2>2. ASSUME NEW w \in W, runs = <<Legacy(w)>>
          PROVE  \A i \in DOMAIN runs : runs[i] = Legacy(w) /\ i = 1
      BY <2>2
    <2> QED  BY <1>2, <2>1, <2>2
  <1>4. \A w \in W : Legacy(w).workflow = w /\ Legacy(w).steps = NoSnapshot
    BY DEF Legacy
  <1>5. RowsOwned  BY <1>2, <1>3, <1>4 DEF RowsOwned, Live
  <1>6. VersionsName
    <2>1. \A w \in W : workflows[w].version = 1 /\ workflows[w].steps = Some(Definitions)
                       /\ defined[w] = {<<1, Some(Definitions)>>}
      BY <1>2
    <2>2. \A w \in Workflows \ W : workflows[w].state = "none" /\ defined[w] = {}
      BY <1>2
    <2>3. \A w \in Workflows \ W :
             /\ ~ Live(w)
             /\ \A x, y \in defined[w] : x[1] = y[1] => x[2] = y[2]
      BY <2>2 DEF Live
    <2>4. ASSUME NEW w \in W
          PROVE  /\ <<workflows[w].version, workflows[w].steps>> \in defined[w]
                 /\ \A x \in defined[w] : x[1] <= workflows[w].version
                 /\ \A x, y \in defined[w] : x[1] = y[1] => x[2] = y[2]
      BY <2>1
    <2> QED  BY <2>3, <2>4 DEF VersionsName
  <1>7. \A q \in Requests : request[q].pc = "idle" /\ answer[q] = 0
    BY DEF StoreInit, IdleRequest
  <1>8. RequestsRead /\ Unanswered /\ LookupsKeyed
    BY <1>7 DEF RequestsRead, Unanswered, LookupsKeyed
  <1>9. RowsRecorded  BY <1>3, <1>4 DEF RowsRecorded
  <1>10. OneRowPerKey  BY <1>3 DEF OneRowPerKey, Rows
  <1> QED  BY <1>1, <1>5, <1>6, <1>8, <1>9, <1>10 DEF StoreInv

LEMMA StoreInvStays == StoreInv /\ [StoreNext]_storeVars => StoreInv'
  BY TypesStay, OwnedStay, VersionsStay, ReadsStay, RecordsStay, KeysStay, UnansweredStays,
     LookupsStayKeyed
     DEF StoreInv

LEMMA StoreInvAlways == StoreSpec => []StoreInv
  BY StoreInvStarts, StoreInvStays, PTL DEF StoreSpec

(* A run executes the one definition that its recorded version names       *)
(* (0002_durable_queue.sql:17-23).                                         *)
THEOREM RecordedVersions == StoreSpec => []ExecutesTheRecordedVersion
  <1>1. StoreInv => ExecutesTheRecordedVersion
    <2> SUFFICES ASSUME StoreInv, NEW i \in DOMAIN runs,
                        ~ runs[i].gone, runs[i].steps # NoSnapshot
                 PROVE  /\ <<runs[i].version, StepsOf(runs[i])>> \in defined[runs[i].workflow]
                        /\ \A x \in defined[runs[i].workflow] :
                              x[1] = runs[i].version => x[2] = StepsOf(runs[i])
      BY DEF ExecutesTheRecordedVersion
    <2> DEFINE y == <<runs[i].version, runs[i].steps>>
    <2>1. runs[i] \in RunRow  BY DEF StoreInv, StoreTypeOK
    <2>2. runs[i].workflow \in Workflows  BY <2>1 DEF RunRow
    <2>3. StepsOf(runs[i]) = runs[i].steps  BY DEF StepsOf
    <2>4. y \in defined[runs[i].workflow]  BY DEF StoreInv, RowsRecorded
    <2>5. y[1] = runs[i].version /\ y[2] = runs[i].steps  OBVIOUS
    <2> HIDE DEF y
    <2>6. \A x \in defined[runs[i].workflow] : x[1] = y[1] => x[2] = y[2]
      BY <2>2, <2>4 DEF StoreInv, VersionsName
    <2> QED  BY <2>3, <2>4, <2>5, <2>6 DEF y
  <1> QED  BY <1>1, StoreInvAlways, PTL

-----------------------------------------------------------------------------
(* The refinement.                                                         *)
LEMMA OwnerIsItsRow ==
    ASSUME OneRowPerKey, NEW k \in Keys
    PROVE  /\ Rows(k) = {} => OwnerOf[k] = 0
           /\ \A i \in Rows(k) : OwnerOf[k] = i /\ Rows(k) = {i}
  <1>1. \A i \in Rows(k) : Some(Rows(k)) \in Rows(k)  BY DEF Some
  <1> QED  BY <1>1 DEF OwnerOf, OneRowPerKey

LEMMA PromiseStarts ==
    ASSUME StoreInit PROVE Promise!AdmissionInit
  <1>1. StoreInv  BY StoreInvStarts
  <1>2. \A k \in Keys : Rows(k) = {}
    <2>1. \A i \in DOMAIN runs : runs[i].key = "none"  
      <3>1. \A w : Legacy(w).key = "none"  BY DEF Legacy
      <3>2. PICK W \in SUBSET Workflows :
               runs \in {<<>>} \cup {<<Legacy(w)>> : w \in W}
        BY DEF StoreInit
      <3>3. CASE runs = <<>>  BY <3>3
      <3>4. ASSUME NEW w \in W, runs = <<Legacy(w)>>
            PROVE  \A i \in DOMAIN runs : runs[i].key = "none"
        BY <3>1, <3>4
      <3> QED  BY <3>2, <3>3, <3>4
    <2> QED  BY <2>1, RequestsAssumption DEF Rows
  <1>3. OwnerOf = [k \in Keys |-> 0]  BY <1>2 DEF OwnerOf
  <1>4. Len(runs) \in Nat  BY <1>1 DEF StoreInv, StoreTypeOK
  <1>5. answer = [q \in Requests |-> 0]  BY DEF StoreInit
  <1> QED  BY <1>3, <1>4, <1>5 DEF Promise!AdmissionInit

LEMMA PromiseSteps ==
    ASSUME StoreInv, StoreInv', [StoreNext]_storeVars
    PROVE  [Promise!AdmissionNext]_(Promise!admissionVars)
  <1> USE DEF StoreInv
  <1>1. CASE UNCHANGED <<runs, answer>>
    <2>1. UNCHANGED <<OwnerOf, Len(runs)>>  BY <1>1 DEF OwnerOf, Rows
    <2> QED  BY <1>1, <2>1 DEF Promise!admissionVars
  <1>2. ASSUME NEW w \in Workflows, DeleteWorkflow(w) PROVE Promise!Forget
    <2> DEFINE S == {k \in Keys : Rows(k)' = {}}
    <2>1. OwnerOf' = [k \in Keys |-> IF k \in S THEN 0 ELSE OwnerOf[k]]
      <3>1. OwnerOf' = [k \in Keys |-> OwnerOf'[k]]  BY DEF OwnerOf
      <3>2. ASSUME NEW k \in Keys
            PROVE  OwnerOf'[k] = IF k \in S THEN 0 ELSE OwnerOf[k]
        <4>1. Rows(k)' \subseteq Rows(k)  BY <1>2, DeletedKey
        <4>2. CASE Rows(k)' = {}  BY <4>2 DEF OwnerOf
        <4>3. ASSUME NEW i \in Rows(k)' PROVE OwnerOf'[k] = i /\ OwnerOf[k] = i
          <5>1. OwnerOf[k] = i  BY <4>1, OwnerIsItsRow
          <5>2. Rows(k)' = {i}  BY <4>1, OwnerIsItsRow
          <5>3. OwnerOf'[k] = Some(Rows(k))'  BY <5>2 DEF OwnerOf
          <5> QED  BY <5>1, <5>2, <5>3 DEF Some
        <4> QED  BY <4>2, <4>3
      <3> QED  BY <3>1, <3>2, Zenon
    <2>2. UNCHANGED <<answer, Len(runs)>>  BY <1>2, MarkedRows DEF DeleteWorkflow
    <2> QED  BY <2>1, <2>2 DEF Promise!Forget
  <1>3. ASSUME NEW q \in Requests, InsertRun(q) \/ AnswerLost(q) PROVE Promise!Admit(q)
    <2>1. Inserts(q) /\ answer[q] = 0
      BY <1>3 DEF InsertRun, AnswerLost, Inserts, Unanswered
    <2>2. Len(runs)' = Len(runs) + 1  BY <2>1, AppendedRow DEF Inserts
    <2>3. KeyOf[q] \in Keys => OwnerOf[KeyOf[q]] = 0
      BY <2>1 DEF Inserts, Accepted, OwnerOf
    <2>4. OwnerOf' = [k \in Keys |-> IF k = KeyOf[q] THEN Len(runs)' ELSE OwnerOf[k]]
      <3>1. OwnerOf' = [k \in Keys |-> OwnerOf'[k]]  BY DEF OwnerOf
      <3>2. ASSUME NEW k \in Keys
            PROVE  OwnerOf'[k] = IF k = KeyOf[q] THEN Len(runs)' ELSE OwnerOf[k]
        <4>1. Rows(k)' = IF k = KeyOf[q] THEN {Len(runs) + 1} ELSE Rows(k)
          BY <2>1, InsertedKey
        <4>2. OwnerOf'[k] = IF Rows(k)' = {} THEN 0 ELSE Some(Rows(k))'  BY DEF OwnerOf
        <4>3. OwnerOf[k] = IF Rows(k) = {} THEN 0 ELSE Some(Rows(k))  BY DEF OwnerOf
        <4>4. CASE k # KeyOf[q]
          <5>1. Rows(k)' = Rows(k)  BY <4>1, <4>4
          <5>2. Some(Rows(k))' = Some(Rows(k))  BY <5>1 DEF Some
          <5> QED  BY <4>2, <4>3, <4>4, <5>1, <5>2
        <4>5. CASE k = KeyOf[q]
          <5>1. Rows(k)' = {Len(runs) + 1}  BY <4>1, <4>5
          <5>2. Some(Rows(k))' = Len(runs) + 1  BY <5>1 DEF Some
          <5> QED  BY <2>2, <4>2, <4>5, <5>1, <5>2
        <4> QED  BY <4>4, <4>5
      <3> QED  BY <3>1, <3>2, Zenon
    <2>5. answer' \in {answer, [answer EXCEPT ![q] = Len(runs)']}
      BY <1>3, <2>2 DEF InsertRun, AnswerLost
    <2> QED  BY <2>1, <2>2, <2>3, <2>4, <2>5 DEF Promise!Admit
  <1>4. ASSUME NEW q \in Requests, Lookup(q), Rows(KeyOf[q]) # {} PROVE Promise!Repeat(q)
    <2>1. answer[q] = 0  BY <1>4 DEF Lookup, Unanswered
    <2>2. KeyOf[q] \in Keys  BY <1>4 DEF Lookup, LookupsKeyed
    <2>3. PICK i \in Rows(KeyOf[q]) : answer' = [answer EXCEPT ![q] = i]
      BY <1>4 DEF Lookup
    <2>4. OwnerOf[KeyOf[q]] = i /\ i # 0
      BY <2>2, <2>3, OwnerIsItsRow DEF Rows, StoreTypeOK
    <2>5. UNCHANGED <<OwnerOf, Len(runs)>>  BY <1>4 DEF Lookup, OwnerOf, Rows
    <2> QED  BY <2>1, <2>2, <2>3, <2>4, <2>5 DEF Promise!Repeat
  <1>5. ASSUME NEW q \in Requests, Lookup(q), Rows(KeyOf[q]) = {}
        PROVE  UNCHANGED <<runs, answer>>
    BY <1>5 DEF Lookup
  <1>6. ASSUME NEW q \in Requests,
               Post(q) \/ LookupFails(q) \/ LoadWorkflow(q) \/ InsertRefused(q)
               \/ RequestDropped(q)
        PROVE  UNCHANGED <<runs, answer>>
    BY <1>6 DEF Post, LookupFails, LoadWorkflow, InsertRefused, RequestDropped
  <1>7. ASSUME NEW n \in 1 .. MaxEdits, EditWrite(n) PROVE UNCHANGED <<runs, answer>>
    BY <1>7 DEF EditWrite
  <1>8. ASSUME NEW w, NEW d, NEW on, CreateWorkflow(w, d, on) \/ EditRead(w, d, on)
        PROVE  UNCHANGED <<runs, answer>>
    BY <1>8 DEF CreateWorkflow, EditRead
  <1>9. UNCHANGED storeVars => UNCHANGED <<runs, answer>>  BY DEF storeVars
  <1>10. \/ UNCHANGED <<runs, answer>>
         \/ \E w \in Workflows : DeleteWorkflow(w)
         \/ \E q \in Requests : InsertRun(q) \/ AnswerLost(q)
         \/ \E q \in Requests : Lookup(q) /\ Rows(KeyOf[q]) # {}
    BY <1>5, <1>6, <1>7, <1>8, <1>9 DEF StoreNext, HandlerStep
  <1> QED  BY <1>1, <1>2, <1>3, <1>4, <1>10 DEF Promise!AdmissionNext

(* Admission implements the promise of idempotency keys: whatever is       *)
(* retried, lost or concurrent, the requests with one key get one run      *)
(* (0003_add_idempotency.sql, api.rs:106-110).                             *)
THEOREM AdmissionIsIdempotent == StoreSpec => Idempotent
  BY PromiseStarts, PromiseSteps, StoreInvAlways, PTL
     DEF StoreSpec, Idempotent, Promise!AdmissionSpec
=============================================================================
