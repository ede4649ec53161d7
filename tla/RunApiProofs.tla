---------------------------- MODULE RunApiProofs ----------------------------
(* Theorems about RunApi, for every set of runs, plans, slots and handlers. *)
EXTENDS RunApi, RunBudgetProofs

-----------------------------------------------------------------------------
(* Type correctness.  A handler that is not idle has an approval row or a  *)
(* run in its hands.                                                       *)

HandlersOK ==
    /\ \A h \in Resolvers : resolver[h].pc # "idle" => resolver[h].approval \in DOMAIN approvals
    /\ \A p \in Patchers : patcher[p].pc # "idle" => patcher[p].run \in Runs

ApiInv ==
    /\ TypeInv
    /\ resolver \in [Resolvers -> Resolver]
    /\ patcher \in [Patchers -> Patcher]
    /\ HandlersOK

LEMMA IdleHandlers == IdleResolver \in Resolver /\ IdlePatcher \in Patcher
BY RowConstants, ReadRunType DEF IdleResolver, IdlePatcher, Resolver, Patcher

(* A new approval row, and an update of one: no row is lost, the run and   *)
(* the step a row was created for never change, nor does a decision.       *)
Kept(old, new) ==
    /\ DOMAIN old \subseteq DOMAIN new
    /\ \A a \in DOMAIN old :
          /\ new[a].run = old[a].run /\ new[a].step = old[a].step
          /\ old[a].status # "pending" => new[a].status = old[a].status

LEMMA AppendedRow ==
    ASSUME NEW old \in Seq(Approval), NEW row \in Approval
    PROVE  /\ Append(old, row) \in Seq(Approval)
           /\ Kept(old, Append(old, row))
           /\ \A a \in DOMAIN old : Append(old, row)[a] = old[a]
           /\ \A a \in DOMAIN Append(old, row) : a \in DOMAIN old \/ a = Len(old) + 1
           /\ Len(old) + 1 \in DOMAIN Append(old, row)
           /\ Append(old, row)[Len(old) + 1] = row
<1>1. /\ Append(old, row) \in Seq(Approval)
      /\ DOMAIN old = 1 .. Len(old) /\ DOMAIN Append(old, row) = 1 .. (Len(old) + 1)
      /\ Len(old) \in Nat
  OBVIOUS
<1>2. \A a \in DOMAIN old : Append(old, row)[a] = old[a]
  OBVIOUS
<1> QED BY <1>1, <1>2 DEF Kept

Decided(old, a, verdict) ==
    [old EXCEPT ![a].status = IF @ = "pending" THEN verdict ELSE @]

LEMMA DecidedRow ==
    ASSUME NEW old \in Seq(Approval), NEW a \in DOMAIN old,
           NEW verdict \in {"approved", "rejected"},
           NEW new, new = Decided(old, a, verdict)
    PROVE  /\ new \in Seq(Approval)
           /\ DOMAIN new = DOMAIN old
           /\ Kept(old, new)
           /\ \A b \in DOMAIN old : b # a => new[b] = old[b]
           /\ \A b \in DOMAIN old : old[b].status # "pending" => new[b] = old[b]
           /\ old[a].status = "pending" => new[a].status = verdict
<1>1. old[a] \in Approval /\ Len(old) \in Nat /\ old \in [1 .. Len(old) -> Approval]
  OBVIOUS
<1> DEFINE row == [old[a] EXCEPT !.status = IF old[a].status = "pending" THEN verdict
                                                                         ELSE old[a].status]
<1>2. /\ row \in Approval /\ row.run = old[a].run /\ row.step = old[a].step
      /\ old[a].status = "pending" => row.status = verdict
      /\ old[a].status # "pending" => row = old[a]
  BY <1>1 DEF Approval
<1>3. new = [old EXCEPT ![a] = row]
  BY DEF Decided
<1> HIDE DEF row
<1>4. new \in [1 .. Len(old) -> Approval] /\ DOMAIN new = DOMAIN old
  BY <1>1, <1>2, <1>3
<1>5. new \in Seq(Approval)
  BY <1>1, <1>4
<1>6. \A b \in DOMAIN old : new[b] = IF b = a THEN row ELSE old[b]
  BY <1>3
<1> QED BY <1>2, <1>4, <1>5, <1>6 DEF Kept

(* What the engine does to the approvals: nothing, or a new row at a gate. *)
LEMMA EngineApprovals ==
    ASSUME TypeInv, [Next]_vars
    PROVE  \/ approvals' = approvals
           \/ \E t \in Tasks : RequestApproval(t)
BY DEF Next, vars, Environment, ReapStale, Enqueue, Cancel, Retry, LeaseLapses, BecomesDue,
       EngineStep, Finish, Stop, Park, BeginDelay, Sleep, RenewLease, ExecuteStep, Advance,
       Fail, Die, Claim

LEMMA RequestedRow ==
    ASSUME TypeInv, NEW t \in Tasks, RequestApproval(t)
    PROVE  \E row \in Approval :
              /\ approvals' = Append(approvals, row)
              /\ row.run = task[t].run /\ row.step = task[t].copy.cursor
              /\ row.status = "pending"
<1>1. task[t].run \in Runs /\ task[t].copy.cursor \in Nat
  BY InFlight DEF RequestApproval, BeginStep, AtStep, At
<1> DEFINE row == [run |-> task[t].run, status |-> "pending", step |-> task[t].copy.cursor]
<1>2. row \in Approval
  BY <1>1 DEF Approval
<1>3. approvals' = Append(approvals, row)
  BY DEF RequestApproval
<1> QED BY <1>2, <1>3

LEMMA ApprovalsKept ==
    ASSUME TypeInv, [Next]_vars
    PROVE  Kept(approvals, approvals')
<1>1. approvals \in Seq(Approval)
  BY DEF TypeInv, TypeOK
<1>2. CASE approvals' = approvals
  BY <1>2 DEF Kept
<1>3. ASSUME NEW t \in Tasks, RequestApproval(t) PROVE Kept(approvals, approvals')
  <2>1. PICK row \in Approval : approvals' = Append(approvals, row)
    BY <1>3, RequestedRow
  <2> QED BY <1>1, <2>1, AppendedRow
<1> QED BY <1>2, <1>3, EngineApprovals

LEMMA InitApi == ApiInit => ApiInv
BY InitType, IdleHandlers DEF ApiInit, ApiInv, HandlersOK, IdleResolver, IdlePatcher

(* The engine's steps, with the handlers standing by.                      *)
LEMMA EngineApi ==
    ASSUME ApiInv, [Next]_vars, UNCHANGED <<resolver, patcher>>
    PROVE  ApiInv'
<1>1. TypeInv'
  BY NextType DEF ApiInv
<1>2. DOMAIN approvals \subseteq DOMAIN approvals'
  BY ApprovalsKept DEF ApiInv, Kept
<1> QED BY <1>1, <1>2 DEF ApiInv, HandlersOK

(* A resolver with an approval in its hands.                               *)
LEMMA BusyResolver ==
    ASSUME ApiInv, NEW h \in Resolvers, resolver[h].pc # "idle"
    PROVE  /\ resolver[h] \in Resolver
           /\ resolver[h].approval \in DOMAIN approvals
           /\ approvals[resolver[h].approval] \in Approval
           /\ RunOf(h) \in Runs
           /\ runs[RunOf(h)] \in Row
           /\ resolver[h].copy \in Copy
           /\ resolver[h].verdict \in {"approved", "rejected"}
<1>1. approvals \in Seq(Approval) /\ runs \in [Runs -> Row] /\ resolver \in [Resolvers -> Resolver]
  BY DEF ApiInv, TypeInv, TypeOK
<1>2. resolver[h].approval \in DOMAIN approvals
  BY DEF ApiInv, HandlersOK
<1>3. approvals[resolver[h].approval] \in Approval
  BY <1>1, <1>2
<1> QED BY <1>1, <1>2, <1>3 DEF RunOf, Approval, Resolver

LEMMA BusyPatcher ==
    ASSUME ApiInv, NEW p \in Patchers, patcher[p].pc # "idle"
    PROVE  /\ patcher[p].run \in Runs
           /\ patcher[p].copy \in Copy
           /\ runs[patcher[p].run] \in Row
BY DEF ApiInv, HandlersOK, TypeInv, TypeOK, Patcher

(* What each statement of a handler leaves behind: its own state, and at   *)
(* most one row of runs or of approvals.                                   *)
LEMMA ResolverStepApi ==
    ASSUME ApiInv, NEW h \in Resolvers, ResolverNext(h)
    PROVE  ApiInv'
<1>1. /\ TypeInv /\ TypeOK /\ SlotOK /\ HandlersOK
      /\ resolver \in [Resolvers -> Resolver] /\ patcher \in [Patchers -> Patcher]
  BY DEF ApiInv, TypeInv
<1>2. {"queued", "canceled"} \subseteq Status
  BY DEF Status, Claimable, Terminal
<1>3. ASSUME NEW a \in DOMAIN approvals, NEW verdict \in {"approved", "rejected"},
             ReadApproval(h, a, verdict)
      PROVE  ApiInv'
  <2>1. a \in Nat
    BY <1>1 DEF TypeOK
  <2>2. /\ resolver' \in [Resolvers -> Resolver]
        /\ resolver'[h].approval = a
        /\ \A g \in Resolvers : g # h => resolver'[g] = resolver[g]
    <3> DEFINE read == [resolver[h] EXCEPT !.pc = "decide", !.approval = a,
                                           !.verdict = verdict]
    <3>1. resolver \in [Resolvers -> Resolver] /\ resolver[h] \in Resolver
      BY <1>1
    <3>2. read \in Resolver /\ read.approval = a
      BY <3>1, <2>1 DEF Resolver
    <3>3. resolver' = [resolver EXCEPT ![h] = read]
      BY <1>3, <3>1 DEF ReadApproval, Resolver
    <3> HIDE DEF read
    <3> QED BY <3>1, <3>2, <3>3
  <2> QED BY <1>1, <1>3, <2>2 DEF ReadApproval, vars, ApiInv, TypeInv, TypeOK, SlotOK, At,
                                  HandlersOK
<1>4. CASE Decide(h)
  <2>1. resolver[h].pc # "idle"
    BY <1>4 DEF Decide
  <2>2. approvals' \in Seq(Approval) /\ DOMAIN approvals' = DOMAIN approvals
    <3>1. approvals' = Decided(approvals, resolver[h].approval, resolver[h].verdict)
      BY <1>4 DEF Decide, Decided
    <3>2. /\ resolver[h].approval \in DOMAIN approvals
          /\ resolver[h].verdict \in {"approved", "rejected"}
      BY <2>1, BusyResolver
    <3>3. approvals \in Seq(Approval)
      BY <1>1 DEF TypeOK
    <3> QED BY <3>1, <3>2, <3>3, DecidedRow
  <2>3. /\ resolver' \in [Resolvers -> Resolver]
        /\ resolver'[h].approval = resolver[h].approval
        /\ \A g \in Resolvers : g # h => resolver'[g] = resolver[g]
    BY <1>1, <1>4 DEF Decide, Resolver
  <2> QED BY <1>1, <1>4, <2>1, <2>2, <2>3 DEF Decide, ApiInv, TypeInv, TypeOK, SlotOK, At,
                                              HandlersOK
<1>5. CASE LoadRun(h)
  <2>1. resolver[h].pc = "load" /\ resolver[h].approval \in DOMAIN approvals
    BY <1>5, BusyResolver DEF LoadRun
  <2>2. ReadRun(runs[RunOf(h)]) \in Copy
    BY <2>1, BusyResolver, ReadRunType
  <2>3. resolver' = [resolver EXCEPT ![h].pc = "store", ![h].copy = ReadRun(runs[RunOf(h)])]
        \/ resolver' = [resolver EXCEPT ![h] = IdleResolver]
    BY <1>5 DEF LoadRun
  <2>4. /\ resolver' \in [Resolvers -> Resolver]
        /\ resolver'[h].pc = "idle" \/ resolver'[h].approval = resolver[h].approval
        /\ \A g \in Resolvers : g # h => resolver'[g] = resolver[g]
    BY <1>1, <2>2, <2>3, IdleHandlers DEF Resolver, IdleResolver
  <2> QED BY <1>1, <1>5, <2>1, <2>4 DEF LoadRun, vars, ApiInv, TypeInv, TypeOK, SlotOK, At,
                                        HandlersOK
<1>6. CASE StoreVerdict(h)
  <2> DEFINE r == RunOf(h)
             c == resolver[h].copy
  <2>1. r \in Runs /\ runs[r] \in Row /\ c \in Copy
    BY <1>6, BusyResolver DEF StoreVerdict
  <2>2. [c EXCEPT !.cursor = @ + 1] \in Copy
    BY <2>1 DEF Copy
  <2>3. /\ SaveProgress(runs[r], [c EXCEPT !.cursor = @ + 1], "queued", TRUE) \in Row
        /\ SaveProgress(runs[r], c, "canceled", TRUE) \in Row
    BY <1>2, <2>1, <2>2, SaveProgressType
  <2>4. runs' = [runs EXCEPT ![r] = SaveProgress(runs[r], [c EXCEPT !.cursor = @ + 1], "queued", TRUE)]
        \/ runs' = [runs EXCEPT ![r] = SaveProgress(runs[r], c, "canceled", TRUE)]
    BY <1>6 DEF StoreVerdict
  <2>5. runs' \in [Runs -> Row]
    BY <1>1, <2>3, <2>4 DEF TypeOK
  <2>6. /\ resolver' \in [Resolvers -> Resolver] /\ resolver'[h].pc = "idle"
        /\ \A g \in Resolvers : g # h => resolver'[g] = resolver[g]
    BY <1>1, <1>6, IdleHandlers DEF StoreVerdict, IdleResolver
  <2> QED BY <1>1, <1>6, <2>5, <2>6 DEF StoreVerdict, ApiInv, TypeInv, TypeOK, SlotOK, At,
                                        HandlersOK
<1>7. CASE ResolverDropped(h)
  <2>1. /\ resolver' \in [Resolvers -> Resolver] /\ resolver'[h].pc = "idle"
        /\ \A g \in Resolvers : g # h => resolver'[g] = resolver[g]
    BY <1>1, <1>7, IdleHandlers DEF ResolverDropped, IdleResolver
  <2> QED BY <1>1, <1>7, <2>1 DEF ResolverDropped, vars, ApiInv, TypeInv, TypeOK, SlotOK, At,
                                  HandlersOK
<1> QED BY <1>3, <1>4, <1>5, <1>6, <1>7 DEF ResolverNext

LEMMA PatcherStepApi ==
    ASSUME ApiInv, NEW p \in Patchers, PatcherNext(p)
    PROVE  ApiInv'
<1>1. /\ TypeInv /\ TypeOK /\ SlotOK /\ HandlersOK
      /\ resolver \in [Resolvers -> Resolver] /\ patcher \in [Patchers -> Patcher]
  BY DEF ApiInv, TypeInv
<1>2. ASSUME NEW r \in Runs, ReadDeadLetter(p, r) PROVE ApiInv'
  <2>1. [pc |-> "store", run |-> r, copy |-> ReadRun(runs[r])] \in Patcher
    BY <1>1, ReadRunType DEF Patcher, TypeOK
  <2>2. patcher' \in [Patchers -> Patcher] /\ patcher'[p].run = r
        /\ \A q \in Patchers : q # p => patcher'[q] = patcher[q]
    BY <1>1, <1>2, <2>1 DEF ReadDeadLetter
  <2> QED BY <1>1, <1>2, <2>2 DEF ReadDeadLetter, vars, ApiInv, TypeInv, TypeOK, SlotOK, At,
                                  HandlersOK
<1>3. CASE StorePatch(p)
  <2> DEFINE r == patcher[p].run
  <2>1. PICK context \in SUBSET (0 .. (Len(Plan[r]) - 1)) :
           runs' = [runs EXCEPT ![r] = SaveProgress(runs[r],
                      [patcher[p].copy EXCEPT !.context = context], "dead_letter", TRUE)]
    BY <1>3 DEF StorePatch
  <2>2. r \in Runs /\ runs[r] \in Row /\ patcher[p].copy \in Copy
    BY <1>3, BusyPatcher DEF StorePatch
  <2>3. [patcher[p].copy EXCEPT !.context = context] \in Copy
    BY <2>2, PlanAssumption DEF Copy
  <2>4. "dead_letter" \in Status
    BY DEF Status, Terminal
  <2>5. runs' \in [Runs -> Row]
    BY <1>1, <2>1, <2>2, <2>3, <2>4, SaveProgressType DEF TypeOK
  <2>6. patcher' \in [Patchers -> Patcher] /\ patcher'[p].pc = "idle"
        /\ \A q \in Patchers : q # p => patcher'[q] = patcher[q]
    BY <1>1, <1>3, IdleHandlers DEF StorePatch, IdlePatcher
  <2> QED BY <1>1, <1>3, <2>5, <2>6 DEF StorePatch, ApiInv, TypeInv, TypeOK, SlotOK, At,
                                        HandlersOK
<1>4. CASE PatcherDropped(p)
  <2>1. patcher' \in [Patchers -> Patcher] /\ patcher'[p].pc = "idle"
        /\ \A q \in Patchers : q # p => patcher'[q] = patcher[q]
    BY <1>1, <1>4, IdleHandlers DEF PatcherDropped, IdlePatcher
  <2> QED BY <1>1, <1>4, <2>1 DEF PatcherDropped, vars, ApiInv, TypeInv, TypeOK, SlotOK, At,
                                  HandlersOK
<1> QED BY <1>2, <1>3, <1>4 DEF PatcherNext

LEMMA NextApi == ApiInv /\ [ApiNext]_apiVars => ApiInv'
<1> SUFFICES ASSUME ApiInv, [ApiNext]_apiVars PROVE ApiInv'
  OBVIOUS
<1>1. CASE (Next \/ UNCHANGED vars) /\ UNCHANGED <<resolver, patcher>>
  BY <1>1, EngineApi
<1>2. ASSUME NEW h \in Resolvers, ResolverNext(h) PROVE ApiInv'
  BY <1>2, ResolverStepApi
<1>3. ASSUME NEW p \in Patchers, PatcherNext(p) PROVE ApiInv'
  BY <1>3, PatcherStepApi
<1> QED BY <1>1, <1>2, <1>3 DEF ApiNext, apiVars, vars

LEMMA ApiInvariant == ApiSpec => []ApiInv
BY InitApi, NextApi, PTL DEF ApiSpec

(* Rows, slots, approvals and the state of both handlers keep their shape  *)
(* (api.rs:291-329 and 197-209 beside engine.rs).                          *)
THEOREM ApiTypes == ApiSpec => []ApiTypeOK
<1>1. ApiInv => ApiTypeOK
  BY DEF ApiInv, ApiTypeOK, TypeInv
<1> QED BY <1>1, ApiInvariant, PTL
-----------------------------------------------------------------------------
(* A waiting run has its approval row.  The task that is about to park the *)
(* run has created it, and rows are never deleted under a run.             *)

HasRow(rows, r, i) == \E a \in DOMAIN rows : rows[a].run = r /\ rows[a].step = i

ParkedInv ==
    /\ \A r \in Runs : runs[r].status = "waiting_approval" =>
          HasRow(approvals, r, runs[r].cursor)
    /\ \A t \in Tasks : At(t, "park") =>
          HasRow(approvals, task[t].run, task[t].copy.cursor)

LEMMA KeptRow ==
    ASSUME NEW old, NEW new, Kept(old, new), NEW r, NEW i, HasRow(old, r, i)
    PROVE  HasRow(new, r, i)
BY DEF Kept, HasRow

LEMMA ParkedStep ==
    ASSUME ParkedInv, Kept(approvals, approvals'),
           \A r \in Runs : runs'[r].status = "waiting_approval" =>
               \/ runs[r].status = "waiting_approval" /\ runs'[r].cursor = runs[r].cursor
               \/ HasRow(approvals', r, runs'[r].cursor),
           \A t \in Tasks : task'[t].pc = "park" =>
               \/ task'[t] = task[t]
               \/ HasRow(approvals', task'[t].run, task'[t].copy.cursor)
    PROVE  ParkedInv'
<1>1. ASSUME NEW r \in Runs, runs'[r].status = "waiting_approval"
      PROVE  HasRow(approvals', r, runs'[r].cursor)
  BY <1>1, KeptRow DEF ParkedInv
<1>2. ASSUME NEW t \in Tasks, task'[t].pc = "park"
      PROVE  HasRow(approvals', task'[t].run, task'[t].copy.cursor)
  BY <1>2, KeptRow DEF ParkedInv, At
<1> QED BY <1>1, <1>2 DEF ParkedInv, At

LEMMA EngineStepParked ==
    ASSUME TypeInv, ParkedInv, Kept(approvals, approvals'), NEW t \in Tasks, EngineStep(t)
    PROVE  ParkedInv'
<1>0. ~ At(t, "idle")
  BY DEF EngineStep, Finish, Stop, RequestApproval, Park, BeginDelay, Sleep, RenewLease,
         ExecuteStep, Advance, Fail, BeginStep, AtStep, At
<1> DEFINE r == task[t].run
           c == task[t].copy
<1>1. /\ r \in Runs /\ c \in Copy /\ c.cursor \in Nat /\ runs[r] \in Row
      /\ TypeOK /\ task[t] \in Task /\ runs \in [Runs -> Row] /\ task \in [Tasks -> Task]
  BY <1>0, InFlight DEF TypeInv, TypeOK
<1>2. ASSUME NEW status, status # "waiting_approval", NEW d, NEW due, Save(t, d, status, due),
             \A u \in Tasks : task'[u].pc = "park" => task'[u] = task[u]
      PROVE  ParkedInv'
  <2>1. \A s \in Runs : runs'[s].status = "waiting_approval" => runs'[s] = runs[s]
    BY <1>1, <1>2, SaveEffect
  <2> QED BY <1>2, <2>1, ParkedStep
<1>3. Leave(t) => \A u \in Tasks : task'[u].pc = "park" => task'[u] = task[u]
  BY <1>1, LeaveEffect DEF Idle
<1>4. CASE Finish(t) \/ Stop(t) \/ Sleep(t) \/ Fail(t)
  <2>1. Leave(t)
    BY <1>4 DEF Finish, Stop, Sleep, Fail
  <2>2. \/ Save(t, c, "succeeded", TRUE) \/ Save(t, c, "canceled", TRUE)
        \/ \E due \in BOOLEAN : Save(t, c, "sleeping", due)
        \/ Save(t, c, "dead_letter", TRUE) \/ Save(t, c, "retrying", FALSE)
    BY <1>4 DEF Finish, Stop, Sleep, Fail
  <2> QED BY <1>2, <1>3, <2>1, <2>2
<1>5. CASE RequestApproval(t)
  <2>1. PICK row \in Approval : /\ approvals' = Append(approvals, row)
                                /\ row.run = r /\ row.step = c.cursor
    BY <1>5, RequestedRow
  <2>2. HasRow(approvals', r, c.cursor)
    <3>1. approvals \in Seq(Approval)
      BY <1>1 DEF TypeOK
    <3>2. Len(approvals) + 1 \in DOMAIN approvals' /\ approvals'[Len(approvals) + 1] = row
      BY <2>1, <3>1, AppendedRow
    <3> QED BY <2>1, <3>2 DEF HasRow
  <2>3. /\ task'[t].run = r /\ task'[t].copy = c
        /\ \A u \in Tasks : u # t => task'[u] = task[u]
    BY <1>1, <1>5 DEF RequestApproval, Goto, Task
  <2>4. runs' = runs
    BY <1>5 DEF RequestApproval
  <2> QED BY <2>2, <2>3, <2>4, ParkedStep
<1>6. CASE Park(t)
  <2>1. HasRow(approvals', r, c.cursor)
    BY <1>6, KeptRow DEF Park, ParkedInv
  <2>2. /\ runs'[r].cursor = c.cursor
        /\ \A s \in Runs : s # r => runs'[s] = runs[s]
    BY <1>1, <1>6 DEF Park, Save, SaveProgress, Row
  <2> QED BY <1>3, <1>6, <2>1, <2>2, ParkedStep DEF Park
<1>7. CASE BeginDelay(t) \/ ExecuteStep(t)
  <2>1. runs' = runs
    BY <1>7 DEF BeginDelay, ExecuteStep
  <2>2. \A u \in Tasks : task'[u].pc = "park" => task'[u] = task[u]
    BY <1>1, <1>7 DEF BeginDelay, ExecuteStep, Goto, Task
  <2> QED BY <2>1, <2>2, ParkedStep
<1>8. CASE RenewLease(t)
  <2>1. \A s \in Runs : runs'[s].status = runs[s].status /\ runs'[s].cursor = runs[s].cursor
    BY <1>1, <1>8 DEF RenewLease, ExtendLease, Row
  <2>2. \A u \in Tasks : task'[u].pc = "park" => task'[u] = task[u]
    BY <1>1, <1>8 DEF RenewLease, Task
  <2> QED BY <2>1, <2>2, ParkedStep
<1>9. CASE Advance(t)
  <2>1. PICK d : /\ Save(t, d, "running", TRUE)
                 /\ task' = [task EXCEPT ![t].pc = "boundary", ![t].copy = d]
    BY <1>9 DEF Advance
  <2>2. \A u \in Tasks : task'[u].pc = "park" => task'[u] = task[u]
    BY <1>1, <2>1 DEF Task
  <2> QED BY <1>2, <2>1, <2>2
<1> QED BY <1>4, <1>5, <1>6, <1>7, <1>8, <1>9 DEF EngineStep

LEMMA EngineParked ==
    ASSUME TypeInv, ParkedInv, [Next]_vars
    PROVE  ParkedInv'
<1>1. Kept(approvals, approvals')
  BY ApprovalsKept
<1>2. runs \in [Runs -> Row] /\ task \in [Tasks -> Task] /\ TypeOK
  BY DEF TypeInv, TypeOK
<1>3. ASSUME NEW t \in Tasks, EngineStep(t) PROVE ParkedInv'
  BY <1>1, <1>3, EngineStepParked
<1>4. ASSUME NEW t \in Tasks, Die(t) PROVE ParkedInv'
  <2>1. /\ task'[t] = Idle /\ \A u \in Tasks : u # t => task'[u] = task[u]
        /\ runs' = runs
    BY <1>2, <1>4, LeaveEffect DEF Die
  <2> QED BY <1>1, <2>1, ParkedStep DEF Idle
<1>5. ASSUME NEW t \in Tasks, NEW r \in Runs, Claim(t, r) PROVE ParkedInv'
  <2>1. /\ \A u \in Tasks : task'[u].pc = "park" => task'[u] = task[u]
        /\ \A s \in Runs : runs'[s].status = "waiting_approval" => runs'[s] = runs[s]
    BY <1>2, <1>5 DEF Claim, ClaimDue, Row
  <2> QED BY <1>1, <2>1, ParkedStep
<1>6. CASE Environment
  <2>1. task' = task
    BY <1>6 DEF Environment, ReapStale, Enqueue, Cancel, Retry, LeaseLapses, BecomesDue
  <2>2. ASSUME NEW s \in Runs
        PROVE  runs'[s].status = "waiting_approval" =>
                  runs[s].status = "waiting_approval" /\ runs'[s].cursor = runs[s].cursor
    <3>1. CASE ReapStale
      BY <1>2, <3>1 DEF ReapStale, Reap, Row
    <3>2. CASE \E r \in Runs : Enqueue(r)
      BY <1>2, <3>2 DEF Enqueue, NewRun, Absent
    <3>3. CASE \E r \in Runs : Cancel(r)
      BY <1>2, <3>3 DEF Cancel, RequestCancel, CanCancel, Row
    <3>4. CASE \E r \in Runs : Retry(r)
      BY <1>2, <3>4 DEF Retry, Requeue, Row
    <3>5. CASE \E r \in Runs : LeaseLapses(r) \/ BecomesDue(r)
      BY <1>2, <3>5 DEF LeaseLapses, BecomesDue, Row
    <3> QED BY <1>6, <3>1, <3>2, <3>3, <3>4, <3>5 DEF Environment
  <2> QED BY <1>1, <2>1, <2>2, ParkedStep
<1>7. CASE UNCHANGED vars
  BY <1>7 DEF vars, ParkedInv, At
<1> QED BY <1>3, <1>4, <1>5, <1>6, <1>7 DEF Next

(* The handlers keep every approval row, and leave no run waiting that did *)
(* not wait before.                                                        *)
LEMMA ResolverKeeps ==
    ASSUME ApiInv, NEW h \in Resolvers, ResolverNext(h)
    PROVE  Kept(approvals, approvals')
<1>1. CASE Decide(h)
  <2>1. approvals' = Decided(approvals, resolver[h].approval, resolver[h].verdict)
    BY <1>1 DEF Decide, Decided
  <2>2. /\ resolver[h].approval \in DOMAIN approvals
        /\ resolver[h].verdict \in {"approved", "rejected"}
    BY <1>1, BusyResolver DEF Decide
  <2>3. approvals \in Seq(Approval)
    BY DEF ApiInv, TypeInv, TypeOK
  <2> QED BY <2>1, <2>2, <2>3, DecidedRow
<1>2. CASE ~ Decide(h)
  BY <1>2 DEF ResolverNext, ReadApproval, LoadRun, StoreVerdict, ResolverDropped, vars, Kept
<1> QED BY <1>1, <1>2

LEMMA ResolverParked ==
    ASSUME ApiInv, ParkedInv, NEW h \in Resolvers, ResolverNext(h)
    PROVE  ParkedInv'
<1>1. runs \in [Runs -> Row]
  BY DEF ApiInv, TypeInv, TypeOK
<1>2. task' = task
  BY DEF ResolverNext, ReadApproval, Decide, LoadRun, StoreVerdict, ResolverDropped, vars
<1>3. \A r \in Runs : runs'[r].status = "waiting_approval" => runs'[r] = runs[r]
  <2>1. CASE StoreVerdict(h)
    BY <1>1, <2>1 DEF StoreVerdict, SaveProgress, Row
  <2>2. CASE ~ StoreVerdict(h)
    BY <2>2 DEF ResolverNext, ReadApproval, Decide, LoadRun, ResolverDropped, vars
  <2> QED BY <2>1, <2>2
<1> QED BY <1>2, <1>3, ResolverKeeps, ParkedStep

LEMMA PatcherParked ==
    ASSUME ApiInv, ParkedInv, NEW p \in Patchers, PatcherNext(p)
    PROVE  ParkedInv'
<1>1. runs \in [Runs -> Row]
  BY DEF ApiInv, TypeInv, TypeOK
<1>2. task' = task /\ Kept(approvals, approvals')
  BY DEF PatcherNext, ReadDeadLetter, StorePatch, PatcherDropped, vars, Kept
<1>3. \A r \in Runs : runs'[r].status = "waiting_approval" => runs'[r] = runs[r]
  <2>1. CASE StorePatch(p)
    BY <1>1, <2>1 DEF StorePatch, SaveProgress, Row
  <2>2. CASE ~ StorePatch(p)
    BY <2>2 DEF PatcherNext, ReadDeadLetter, PatcherDropped, vars
  <2> QED BY <2>1, <2>2
<1> QED BY <1>2, <1>3, ParkedStep

LEMMA NextParked == ApiInv /\ ParkedInv /\ [ApiNext]_apiVars => ParkedInv'
<1> SUFFICES ASSUME ApiInv, ParkedInv, [ApiNext]_apiVars PROVE ParkedInv'
  OBVIOUS
<1>1. CASE Next \/ UNCHANGED vars
  BY <1>1, EngineParked DEF ApiInv
<1>2. ASSUME NEW h \in Resolvers, ResolverNext(h) PROVE ParkedInv'
  BY <1>2, ResolverParked
<1>3. ASSUME NEW p \in Patchers, PatcherNext(p) PROVE ParkedInv'
  BY <1>3, PatcherParked
<1> QED BY <1>1, <1>2, <1>3 DEF ApiNext, apiVars, vars

(* engine.rs:76-79: whatever crashes, duplicate rows, decisions, cancels   *)
(* and retries happen, a run that is seen waiting has an approval row that *)
(* was created for the step it waits at.                                   *)
THEOREM WaitingIsVisible == ApiSpec => []WaitingHasApprovalRow
<1>1. ApiInit => ParkedInv
  BY DEF ApiInit, Init, ParkedInv, At, Idle, Absent, Orphan
<1>2. ParkedInv => WaitingHasApprovalRow
  BY DEF ParkedInv, HasRow, WaitingHasApprovalRow, GateRows
<1> QED BY <1>1, <1>2, ApiInvariant, NextParked, PTL DEF ApiSpec

-----------------------------------------------------------------------------
(* The gate.  A cursor passes a gate in one place only, the resolver's     *)
(* save, so the invariant follows every copy of a cursor: the rows, the    *)
(* tasks, the resolvers and the patchers.                                  *)

Passed(rows, r, c) ==
    r \in GatedRuns =>
        \A i \in Gates(r) : c.cursor > i =>
            \E a \in DOMAIN rows : /\ rows[a].run = r /\ rows[a].step = i
                                   /\ rows[a].status = "approved"

EngineGates ==
    /\ \A r \in Runs : Passed(approvals, r, runs[r])
    /\ \A t \in Tasks : task[t].pc # "idle" => Passed(approvals, task[t].run, task[t].copy)
    /\ \A t \in Tasks : task[t].pc \in {"execute", "advance"} =>
          StepKind(task[t].run, task[t].copy) # "approval"

(* Every approval row belongs to a gate.                                   *)
RowsAtGates == \A a \in DOMAIN approvals : approvals[a].step \in Gates(approvals[a].run)

HandlerGates ==
    /\ \A h \in Resolvers : resolver[h].pc = "decide" =>
          approvals[resolver[h].approval].status = "pending"
    /\ \A h \in Resolvers : resolver[h].pc \in {"load", "store"} =>
          approvals[resolver[h].approval].status = resolver[h].verdict
    /\ \A h \in Resolvers : resolver[h].pc = "store" =>
          Passed(approvals, RunOf(h), resolver[h].copy)
    /\ \A p \in Patchers : patcher[p].pc = "store" =>
          Passed(approvals, patcher[p].run, patcher[p].copy)

LEMMA PassedKept ==
    ASSUME NEW old, NEW new, Kept(old, new), NEW r, NEW c, Passed(old, r, c),
           NEW d, d.cursor = c.cursor
    PROVE  Passed(new, r, d)
BY DEF Kept, Passed

LEMMA PassedAtStart ==
    ASSUME NEW rows, NEW r \in Runs, NEW c, c.cursor = 0
    PROVE  Passed(rows, r, c)
<1>1. \A i \in Gates(r) : ~ 0 > i
  BY PlanAssumption DEF Gates
<1> QED BY <1>1 DEF Passed

(* A cursor that is not at a gate may move on.                             *)
LEMMA PassedNext ==
    ASSUME NEW rows, NEW r \in Runs, NEW c \in Copy, Passed(rows, r, c),
           ~ AtEnd(r, c), StepKind(r, c) # "approval",
           NEW d, r \in GatedRuns => d.cursor = c.cursor + 1
    PROVE  Passed(rows, r, d)
<1>1. c.cursor \in Nat
  BY DEF Copy
<1>2. \A i \in Gates(r) : i \in Nat /\ i # c.cursor
  BY PlanAssumption DEF Gates, StepKind
<1>3. r \in GatedRuns => \A i \in Gates(r) : d.cursor > i => c.cursor > i
  BY <1>1, <1>2
<1> QED BY <1>3 DEF Passed

LEMMA GateStep ==
    ASSUME TypeInv, EngineGates, Kept(approvals, approvals'), NEW t \in Tasks,
           \A s \in Runs : s # task[t].run => runs'[s] = runs[s],
           \A u \in Tasks : u # t => task'[u] = task[u],
           task[t].run \in Runs => Passed(approvals', task[t].run, runs'[task[t].run]),
           \/ task'[t] = Idle
           \/ /\ Passed(approvals', task'[t].run, task'[t].copy)
              /\ task'[t].pc \in {"execute", "advance"} =>
                    StepKind(task'[t].run, task'[t].copy) # "approval"
    PROVE  EngineGates'
<1>1. ASSUME NEW s \in Runs PROVE Passed(approvals', s, runs'[s])
  <2>1. CASE s # task[t].run
    BY <2>1, PassedKept DEF EngineGates
  <2> QED BY <2>1
<1>2. ASSUME NEW u \in Tasks, task'[u].pc # "idle"
      PROVE  Passed(approvals', task'[u].run, task'[u].copy)
  <2>1. CASE u = t
    BY <1>2, <2>1 DEF Idle
  <2>2. CASE u # t
    BY <1>2, <2>2, PassedKept DEF EngineGates
  <2> QED BY <2>1, <2>2
<1>3. ASSUME NEW u \in Tasks, task'[u].pc \in {"execute", "advance"}
      PROVE  StepKind(task'[u].run, task'[u].copy) # "approval"
  <2>1. CASE u = t
    BY <1>3, <2>1 DEF Idle
  <2>2. CASE u # t
    BY <1>3, <2>2 DEF EngineGates
  <2> QED BY <2>1, <2>2
<1>4. \A s \in Runs : Passed(approvals, s, runs[s])'
  BY <1>1 DEF Passed
<1>5. \A u \in Tasks : (task[u].pc # "idle" => Passed(approvals, task[u].run, task[u].copy))'
  BY <1>2 DEF Passed
<1>6. \A u \in Tasks : (task[u].pc \in {"execute", "advance"} =>
                           StepKind(task[u].run, task[u].copy) # "approval")'
  BY <1>3 DEF StepKind
<1> QED BY <1>4, <1>5, <1>6 DEF EngineGates
(* What a save leaves of the cursor, in the row it writes and around it.   *)
LEMMA SaveCursor ==
    ASSUME TypeOK, NEW t \in Tasks, task[t].run \in Runs,
           NEW c, NEW status, NEW due, Save(t, c, status, due)
    PROVE  /\ runs'[task[t].run].cursor = c.cursor
           /\ \A s \in Runs : s # task[t].run => runs'[s] = runs[s]
BY DEF Save, SaveProgress, TypeOK, Row

LEMMA EngineStepGates ==
    ASSUME TypeInv, MidStepInv, EngineGates, Kept(approvals, approvals'),
           NEW t \in Tasks, EngineStep(t)
    PROVE  EngineGates'
<1>0. ~ At(t, "idle")
  BY DEF EngineStep, Finish, Stop, RequestApproval, Park, BeginDelay, Sleep, RenewLease,
         ExecuteStep, Advance, Fail, BeginStep, AtStep, At
<1> DEFINE r == task[t].run
           c == task[t].copy
<1>1. /\ r \in Runs /\ c \in Copy /\ c.cursor \in Nat /\ TypeOK /\ task[t] \in Task
      /\ runs \in [Runs -> Row] /\ task \in [Tasks -> Task]
  BY <1>0, InFlight DEF TypeInv, TypeOK
<1>2. Passed(approvals, r, c) /\ Passed(approvals, r, runs[r])
  BY <1>0, <1>1 DEF EngineGates, At
<1>3. Passed(approvals', r, c) /\ Passed(approvals', r, runs[r])
  BY <1>2, PassedKept
<1>4. CASE Finish(t) \/ Stop(t) \/ Park(t) \/ Sleep(t) \/ Fail(t)
  <2>1. Leave(t) /\ \E status, due : Save(t, c, status, due)
    BY <1>4 DEF Finish, Stop, Park, Sleep, Fail
  <2>2. Passed(approvals', r, runs'[r]) /\ \A s \in Runs : s # r => runs'[s] = runs[s]
    BY <1>1, <1>2, <2>1, SaveCursor, PassedKept
  <2> QED BY <1>1, <2>1, <2>2, LeaveEffect, GateStep
<1>5. CASE RequestApproval(t)
  <2>1. /\ task'[t].run = r /\ task'[t].copy = c /\ task'[t].pc = "park"
        /\ \A u \in Tasks : u # t => task'[u] = task[u]
    BY <1>1, <1>5 DEF RequestApproval, Goto, Task
  <2>2. runs' = runs
    BY <1>5 DEF RequestApproval
  <2> QED BY <1>3, <2>1, <2>2, GateStep
<1>6. CASE BeginDelay(t)
  <2>1. /\ task'[t].run = r /\ task'[t].pc = "sleep"
        /\ task'[t].copy = WithOutput(c, c.cursor + 1)
        /\ \A u \in Tasks : u # t => task'[u] = task[u]
    BY <1>1, <1>6 DEF BeginDelay, Task
  <2>2. runs' = runs
    BY <1>6 DEF BeginDelay
  <2>3. task'[t].copy.cursor = c.cursor + 1
    BY <1>1, <2>1 DEF WithOutput, Copy
  <2>4. ~ AtEnd(r, c) /\ StepKind(r, c) # "approval"
    BY <1>6 DEF BeginDelay, BeginStep, AtStep, Current
  <2>5. Passed(approvals', r, task'[t].copy)
    BY <1>1, <1>3, <2>3, <2>4, PassedNext
  <2> QED BY <1>3, <2>1, <2>2, <2>5, GateStep
<1>7. CASE RenewLease(t)
  <2>1. /\ runs'[r].cursor = runs[r].cursor
        /\ \A s \in Runs : s # r => runs'[s] = runs[s]
    BY <1>1, <1>7 DEF RenewLease, ExtendLease, Row
  <2>2. /\ task'[t].run = r
        /\ task'[t].copy = [c EXCEPT !.cancel_requested = CancelSeen(runs[r])]
        /\ \A u \in Tasks : u # t => task'[u] = task[u]
    BY <1>1, <1>7 DEF RenewLease, Task
  <2>3. task'[t].copy.cursor = c.cursor
    BY <1>1, <2>2 DEF Copy
  <2>4. Passed(approvals', r, runs'[r]) /\ Passed(approvals', r, task'[t].copy)
    BY <1>3, <2>1, <2>3 DEF Passed
  <2>5. StepKind(r, c) # "approval"
    BY <1>7 DEF RenewLease, Current
  <2>6. StepKind(r, task'[t].copy) # "approval"
    BY <2>3, <2>5 DEF StepKind
  <2> QED BY <2>1, <2>2, <2>4, <2>6, GateStep
<1>8. CASE ExecuteStep(t)
  <2>1. /\ task'[t].run = r /\ task'[t].copy = c
        /\ \A u \in Tasks : u # t => task'[u] = task[u]
    BY <1>1, <1>8 DEF ExecuteStep, Goto, Task
  <2>2. runs' = runs
    BY <1>8 DEF ExecuteStep
  <2>3. StepKind(r, c) # "approval"
    BY <1>8 DEF ExecuteStep, EngineGates, At
  <2> QED BY <1>3, <2>1, <2>2, <2>3, GateStep
<1>9. CASE Advance(t)
  <2>1. PICK next \in NextIndex(r, c) :
           /\ Save(t, WithOutput(c, next), "running", TRUE)
           /\ task' = [task EXCEPT ![t].pc = "boundary", ![t].copy = WithOutput(c, next)]
    BY <1>9 DEF Advance
  <2>2. ~ AtEnd(r, c) /\ StepKind(r, c) # "approval"
    BY <1>9 DEF Advance, At, MidStepInv, EngineGates
  <2>3. r \in GatedRuns => next = c.cursor + 1
    BY <1>1, <2>1, <2>2, LinearNext DEF GatedRuns
  <2> DEFINE d == WithOutput(c, next)
  <2>4. r \in GatedRuns => d.cursor = c.cursor + 1
    BY <1>1, <2>3 DEF WithOutput, Copy
  <2>5. Passed(approvals', r, d)
    BY <1>1, <1>3, <2>2, <2>4, PassedNext
  <2>6. runs'[r].cursor = d.cursor /\ \A s \in Runs : s # r => runs'[s] = runs[s]
    BY <1>1, <2>1, SaveCursor
  <2>7. Passed(approvals', r, runs'[r])
    BY <2>5, <2>6 DEF Passed
  <2>8. /\ task'[t].run = r /\ task'[t].pc = "boundary" /\ task'[t].copy = d
        /\ \A u \in Tasks : u # t => task'[u] = task[u]
    BY <1>1, <2>1 DEF Task
  <2> QED BY <2>5, <2>6, <2>7, <2>8, GateStep
<1> QED BY <1>4, <1>5, <1>6, <1>7, <1>8, <1>9 DEF EngineStep

LEMMA EngineKeepsGates ==
    ASSUME TypeInv, MidStepInv, EngineGates, [Next]_vars
    PROVE  EngineGates'
<1>1. Kept(approvals, approvals')
  BY ApprovalsKept
<1>2. TypeOK /\ runs \in [Runs -> Row] /\ task \in [Tasks -> Task]
  BY DEF TypeInv, TypeOK
<1>3. ASSUME NEW t \in Tasks, EngineStep(t) PROVE EngineGates'
  BY <1>1, <1>3, EngineStepGates
<1>4. ASSUME NEW t \in Tasks, Die(t) PROVE EngineGates'
  <2>1. /\ task'[t] = Idle /\ \A u \in Tasks : u # t => task'[u] = task[u]
        /\ runs' = runs
    BY <1>2, <1>4, LeaveEffect DEF Die
  <2>2. task[t].run \in Runs => Passed(approvals', task[t].run, runs'[task[t].run])
    BY <1>1, <2>1, PassedKept DEF EngineGates
  <2> QED BY <1>1, <2>1, <2>2, GateStep
<1>5. ASSUME NEW t \in Tasks, NEW r \in Runs, Claim(t, r) PROVE EngineGates'
  <2>1. /\ runs'[r].cursor = runs[r].cursor /\ \A s \in Runs : s # r => runs'[s] = runs[s]
        /\ task'[t].run = r /\ task'[t].pc = "boundary"
        /\ task'[t].copy.cursor = runs[r].cursor
        /\ \A u \in Tasks : u # t => task'[u] = task[u]
        /\ approvals' = approvals
    BY <1>2, <1>5 DEF Claim, ClaimDue, ReadRun, Row
  <2>2. Passed(approvals, r, runs[r])
    BY DEF EngineGates
  <2>3. \A s \in Runs : Passed(approvals', s, runs'[s])
    BY <2>1 DEF EngineGates, Passed
  <2>4. \A u \in Tasks : task'[u].pc # "idle" => Passed(approvals', task'[u].run, task'[u].copy)
    BY <2>1, <2>2 DEF EngineGates, Passed
  <2>5. \A u \in Tasks : task'[u].pc \in {"execute", "advance"} =>
           StepKind(task'[u].run, task'[u].copy) # "approval"
    BY <2>1 DEF EngineGates
  <2> QED BY <2>3, <2>4, <2>5 DEF EngineGates, Passed, StepKind
<1>6. CASE Environment
  <2>1. task' = task /\ approvals' = approvals
    BY <1>6 DEF Environment, ReapStale, Enqueue, Cancel, Retry, LeaseLapses, BecomesDue
  <2>2. ASSUME NEW s \in Runs
        PROVE  runs'[s].cursor = 0 \/ runs'[s].cursor = runs[s].cursor
    <3>1. CASE ReapStale
      BY <1>2, <3>1 DEF ReapStale, Reap, Row
    <3>2. CASE \E r \in Runs : Enqueue(r)
      BY <1>2, <3>2 DEF Enqueue, NewRun, Absent
    <3>3. CASE \E r \in Runs : Cancel(r)
      BY <1>2, <3>3 DEF Cancel, RequestCancel, Row
    <3>4. ASSUME NEW r \in Runs, Retry(r)
          PROVE  runs'[s].cursor = 0 \/ runs'[s].cursor = runs[s].cursor
      <4>1. PICK restart \in BOOLEAN : runs' = [runs EXCEPT ![r] = Requeue(runs[r], restart)]
        BY <3>4 DEF Retry
      <4>2. \/ Requeue(runs[r], restart).cursor = 0
            \/ Requeue(runs[r], restart).cursor = runs[r].cursor
        BY <1>2 DEF Requeue, Row
      <4> QED BY <1>2, <4>1, <4>2
    <3>5. CASE \E r \in Runs : LeaseLapses(r) \/ BecomesDue(r)
      BY <1>2, <3>5 DEF LeaseLapses, BecomesDue, Row
    <3> QED BY <1>6, <3>1, <3>2, <3>3, <3>4, <3>5 DEF Environment
  <2>3. ASSUME NEW s \in Runs PROVE Passed(approvals, s, runs'[s])
    <3>1. CASE runs'[s].cursor = 0
      BY <3>1, PassedAtStart
    <3>2. CASE runs'[s].cursor = runs[s].cursor
      BY <3>2 DEF EngineGates, Passed
    <3> QED BY <2>2, <3>1, <3>2
  <2> QED BY <2>1, <2>3 DEF EngineGates, Passed, StepKind
<1>7. CASE UNCHANGED vars
  BY <1>7 DEF vars, EngineGates, Passed, StepKind
<1> QED BY <1>3, <1>4, <1>5, <1>6, <1>7 DEF Next
GateInv == EngineGates /\ RowsAtGates /\ HandlerGates

LEMMA InitGates == ApiInit => GateInv
<1> SUFFICES ASSUME ApiInit PROVE GateInv
  OBVIOUS
<1>1. \A r \in Runs : runs[r].cursor = 0
  <2>1. Absent.cursor = 0 /\ Orphan.cursor = 0
    BY DEF Absent, Orphan
  <2> QED BY <2>1 DEF ApiInit, Init
<1>2. approvals = << >> /\ \A t \in Tasks : task[t].pc = "idle"
  BY DEF ApiInit, Init, Idle
<1>3. /\ \A h \in Resolvers : resolver[h].pc = "idle"
      /\ \A p \in Patchers : patcher[p].pc = "idle"
  BY DEF ApiInit, IdleResolver, IdlePatcher
<1> QED BY <1>1, <1>2, <1>3, PassedAtStart DEF GateInv, EngineGates, RowsAtGates, HandlerGates

(* The engine only adds pending rows, and only at a gate.                  *)
LEMMA EngineRows ==
    ASSUME TypeInv, RowsAtGates, [Next]_vars
    PROVE  /\ \A a \in DOMAIN approvals : a \in DOMAIN approvals' /\ approvals'[a] = approvals[a]
           /\ RowsAtGates'
<1> DEFINE Added ==
       /\ \A a \in DOMAIN approvals : a \in DOMAIN approvals' /\ approvals'[a] = approvals[a]
       /\ \A a \in DOMAIN approvals' :
             a \in DOMAIN approvals \/ approvals'[a].step \in Gates(approvals'[a].run)
<1>1. CASE approvals' = approvals
  BY <1>1 DEF RowsAtGates, Gates
<1>2. ASSUME NEW t \in Tasks, RequestApproval(t) PROVE Added
  <2>1. PICK row \in Approval : /\ approvals' = Append(approvals, row)
                                /\ row.run = task[t].run /\ row.step = task[t].copy.cursor
    BY <1>2, RequestedRow
  <2>2. approvals \in Seq(Approval)
    BY DEF TypeInv, TypeOK
  <2>3. row.step \in Gates(row.run)
    <3>1. ~ At(t, "idle") /\ ~ AtEnd(task[t].run, task[t].copy) /\ Current(t) = "approval"
      BY <1>2 DEF RequestApproval, BeginStep, AtStep, At
    <3>2. task[t].run \in Runs /\ task[t].copy.cursor \in Nat
      BY <3>1, InFlight
    <3> QED BY <2>1, <3>1, <3>2, PlanAssumption DEF Gates, Current, StepKind, AtEnd
  <2>4. /\ \A a \in DOMAIN approvals : approvals'[a] = approvals[a]
        /\ DOMAIN approvals \subseteq DOMAIN approvals'
        /\ \A a \in DOMAIN approvals' : a \in DOMAIN approvals \/ a = Len(approvals) + 1
        /\ approvals'[Len(approvals) + 1] = row
    BY <2>1, <2>2, AppendedRow DEF Kept
  <2> QED BY <2>3, <2>4
<1>3. Added => RowsAtGates'
  <2> SUFFICES ASSUME Added
               PROVE  \A a \in DOMAIN approvals' :
                         approvals'[a].step \in Gates(approvals'[a].run)
    BY DEF RowsAtGates, Gates
  <2> QED BY DEF RowsAtGates
<1> QED BY <1>1, <1>2, <1>3, EngineApprovals

(* A handler adds none, and moves none to another step.                    *)
LEMMA HandlerRows ==
    ASSUME RowsAtGates, Kept(approvals, approvals'), DOMAIN approvals' = DOMAIN approvals
    PROVE  RowsAtGates'
<1>1. \A a \in DOMAIN approvals' : approvals'[a].step \in Gates(approvals'[a].run)
  BY DEF RowsAtGates, Kept
<1> QED BY <1>1 DEF RowsAtGates, Gates

LEMMA EngineKeepsGateInv ==
    ASSUME ApiInv, MidStepInv, GateInv, [Next]_vars, UNCHANGED <<resolver, patcher>>
    PROVE  GateInv'
<1>1. TypeInv /\ TypeOK /\ EngineGates /\ RowsAtGates /\ HandlerGates
  BY DEF ApiInv, TypeInv, GateInv
<1>2. EngineGates'
  BY <1>1, EngineKeepsGates
<1>3. \A a \in DOMAIN approvals : a \in DOMAIN approvals' /\ approvals'[a] = approvals[a]
  BY <1>1, EngineRows
<1>4. RowsAtGates'
  BY <1>1, EngineRows
<1>5. HandlerGates'
  <2>1. \A h \in Resolvers : resolver[h].pc # "idle" => resolver[h].approval \in DOMAIN approvals
    BY DEF ApiInv, HandlersOK
  <2>2. \A h \in Resolvers : resolver[h].pc # "idle" =>
           approvals'[resolver[h].approval] = approvals[resolver[h].approval]
    BY <1>3, <2>1
  <2>3. Kept(approvals, approvals')
    BY <1>1, ApprovalsKept
  <2>4. \A h \in Resolvers : resolver[h].pc = "store" =>
           Passed(approvals', approvals'[resolver[h].approval].run, resolver[h].copy)
    BY <1>1, <2>2, <2>3, PassedKept DEF HandlerGates, RunOf
  <2>5. \A p \in Patchers : patcher[p].pc = "store" =>
           Passed(approvals', patcher[p].run, patcher[p].copy)
    BY <1>1, <2>3, PassedKept DEF HandlerGates
  <2>6. /\ \A h \in Resolvers : resolver[h].pc = "decide" =>
              approvals'[resolver[h].approval].status = "pending"
        /\ \A h \in Resolvers : resolver[h].pc \in {"load", "store"} =>
              approvals'[resolver[h].approval].status = resolver[h].verdict
    BY <1>1, <2>2 DEF HandlerGates
  <2> QED BY <2>4, <2>5, <2>6 DEF HandlerGates, RunOf, Passed
<1> QED BY <1>2, <1>4, <1>5 DEF GateInv

(* A handler's step leaves the tasks alone; the rows it leaves decide.     *)
LEMMA HandlerStepGates ==
    ASSUME EngineGates, Kept(approvals, approvals'), task' = task,
           \A r \in Runs : runs'[r].cursor = runs[r].cursor \/ Passed(approvals', r, runs'[r])
    PROVE  EngineGates'
<1>1. \A r \in Runs : Passed(approvals', r, runs'[r])
  BY PassedKept DEF EngineGates
<1>2. \A t \in Tasks : task[t].pc # "idle" => Passed(approvals', task[t].run, task[t].copy)
  BY PassedKept DEF EngineGates
<1> QED BY <1>1, <1>2 DEF EngineGates, Passed, StepKind

(* The resolver's save: an approval of the one gate lets the run past it.  *)
LEMMA VerdictGates ==
    ASSUME ApiInv, GateInv, NEW h \in Resolvers, StoreVerdict(h), NEW r \in Runs
    PROVE  runs'[r].cursor = runs[r].cursor \/ Passed(approvals', r, runs'[r])
<1> DEFINE s == RunOf(h)
           a == resolver[h].approval
           c == resolver[h].copy
<1>1. /\ a \in DOMAIN approvals /\ s \in Runs /\ runs[s] \in Row /\ c \in Copy
      /\ runs \in [Runs -> Row]
  BY BusyResolver DEF StoreVerdict, ApiInv, TypeInv, TypeOK
<1>2. Passed(approvals, s, c) /\ approvals[a].status = resolver[h].verdict
  BY DEF StoreVerdict, GateInv, HandlerGates
<1>3. approvals' = approvals
  BY DEF StoreVerdict
<1>4. CASE r # s
  <2>1. runs'[r] = runs[r]
    BY <1>1, <1>4 DEF StoreVerdict
  <2> QED BY <2>1
<1>5. CASE r = s /\ resolver[h].verdict # "approved"
  <2>1. runs'[r].cursor = c.cursor
    BY <1>1, <1>5 DEF StoreVerdict, SaveProgress, Row
  <2> QED BY <1>2, <1>3, <1>5, <2>1 DEF Passed
<1>6. CASE r = s /\ resolver[h].verdict = "approved"
  <2>1. approvals[a].status = "approved" /\ approvals[a].run = r
    BY <1>2, <1>6 DEF RunOf
  <2>2. approvals[a].step \in Gates(r)
    BY <1>1, <2>1 DEF GateInv, RowsAtGates
  <2>3. r \in GatedRuns => \A i \in Gates(r) : approvals[a].step = i
    BY <2>2 DEF GatedRuns
  <2> QED BY <1>1, <1>3, <2>1, <2>3 DEF Passed
<1> QED BY <1>4, <1>5, <1>6

LEMMA ResolverKeepsGateInv ==
    ASSUME OneDecider, ApiInv, GateInv, NEW h \in Resolvers, ResolverNext(h)
    PROVE  GateInv'
<1>1. /\ EngineGates /\ RowsAtGates /\ HandlerGates
      /\ resolver \in [Resolvers -> Resolver] /\ runs \in [Runs -> Row]
  BY DEF ApiInv, TypeInv, TypeOK, GateInv
<1>2. task' = task /\ patcher' = patcher /\ Kept(approvals, approvals')
  BY ResolverKeeps DEF ResolverNext, ReadApproval, Decide, LoadRun, StoreVerdict,
                       ResolverDropped, vars
<1>3. \A r \in Runs : runs'[r].cursor = runs[r].cursor \/ Passed(approvals', r, runs'[r])
  <2>1. CASE StoreVerdict(h)
    BY <2>1, VerdictGates
  <2>2. CASE ~ StoreVerdict(h)
    BY <2>2 DEF ResolverNext, ReadApproval, Decide, LoadRun, ResolverDropped, vars
  <2> QED BY <2>1, <2>2
<1>4. EngineGates'
  BY <1>1, <1>2, <1>3, HandlerStepGates
<1>5. DOMAIN approvals' = DOMAIN approvals
  BY DEF ResolverNext, ReadApproval, Decide, LoadRun, StoreVerdict, ResolverDropped, vars
<1>6. RowsAtGates'
  BY <1>1, <1>2, <1>5, HandlerRows
<1>7. \A p \in Patchers : patcher[p].pc = "store" =>
         Passed(approvals', patcher[p].run, patcher[p].copy)
  BY <1>1, <1>2, PassedKept DEF HandlerGates
<1> DEFINE Verdict ==
       /\ resolver'[h].pc = "decide" => approvals'[resolver'[h].approval].status = "pending"
       /\ resolver'[h].pc \in {"load", "store"} =>
             approvals'[resolver'[h].approval].status = resolver'[h].verdict
       /\ resolver'[h].pc = "store" =>
             Passed(approvals', approvals'[resolver'[h].approval].run, resolver'[h].copy)
<1>8. Verdict
  <2>1. ASSUME NEW a \in DOMAIN approvals, NEW verdict \in {"approved", "rejected"},
               ReadApproval(h, a, verdict)
        PROVE  Verdict
    BY <1>1, <2>1 DEF ReadApproval, Resolver, vars
  <2>2. CASE Decide(h)
    <3>1. approvals' = Decided(approvals, resolver[h].approval, resolver[h].verdict)
      BY <2>2 DEF Decide, Decided
    <3>2. /\ resolver[h].approval \in DOMAIN approvals
          /\ resolver[h].verdict \in {"approved", "rejected"}
          /\ approvals \in Seq(Approval)
      BY <2>2, BusyResolver DEF Decide, ApiInv, TypeInv, TypeOK
    <3>3. approvals[resolver[h].approval].status = "pending"
      BY <1>1, <2>2 DEF Decide, HandlerGates
    <3>4. approvals'[resolver[h].approval].status = resolver[h].verdict
      BY <3>1, <3>2, <3>3, DecidedRow
    <3>5. /\ resolver'[h].pc = "load" /\ resolver'[h].approval = resolver[h].approval
          /\ resolver'[h].verdict = resolver[h].verdict
      BY <1>1, <2>2 DEF Decide, Resolver
    <3> QED BY <3>4, <3>5
  <2>3. CASE LoadRun(h)
    <3>1. /\ resolver[h].pc = "load" /\ approvals' = approvals
          /\ RunOf(h) \in Runs
      BY <2>3, BusyResolver DEF LoadRun, vars
    <3>2. CASE resolver'[h] = IdleResolver
      BY <3>2 DEF IdleResolver
    <3>3. CASE resolver' = [resolver EXCEPT ![h].pc = "store",
                                            ![h].copy = ReadRun(runs[RunOf(h)])]
      <4>1. /\ resolver'[h].pc = "store" /\ resolver'[h].approval = resolver[h].approval
            /\ resolver'[h].verdict = resolver[h].verdict
            /\ resolver'[h].copy = ReadRun(runs[RunOf(h)])
        BY <1>1, <3>3 DEF Resolver
      <4>2. resolver'[h].copy.cursor = runs[RunOf(h)].cursor
        BY <4>1 DEF ReadRun
      <4>3. Passed(approvals, RunOf(h), resolver'[h].copy)
        BY <1>1, <3>1, <4>2 DEF EngineGates, Passed
      <4>4. approvals[resolver[h].approval].status = resolver[h].verdict
        BY <1>1, <3>1 DEF HandlerGates
      <4> QED BY <3>1, <4>1, <4>3, <4>4 DEF RunOf
    <3> QED BY <1>1, <2>3, <3>2, <3>3 DEF LoadRun
  <2>4. CASE StoreVerdict(h) \/ ResolverDropped(h)
    <3>1. resolver'[h] = IdleResolver
      <4>1. resolver' = [resolver EXCEPT ![h] = IdleResolver]
        BY <2>4 DEF StoreVerdict, ResolverDropped
      <4> QED BY <1>1, <4>1
    <3> QED BY <3>1 DEF IdleResolver
  <2> QED BY <2>1, <2>2, <2>3, <2>4 DEF ResolverNext
(* What another resolver has read or decided stands: its approval is not   *)
(* the one that is decided now.                                            *)
<1>9. ASSUME NEW g \in Resolvers, g # h, resolver[g].pc # "idle"
      PROVE  /\ resolver'[g] = resolver[g]
             /\ approvals'[resolver[g].approval].run = RunOf(g)
             /\ approvals'[resolver[g].approval].status
                   = approvals[resolver[g].approval].status
  <2>1. resolver'[g] = resolver[g]
    BY <1>1, <1>9 DEF ResolverNext, ReadApproval, Decide, LoadRun, StoreVerdict,
                      ResolverDropped
  <2>2. resolver[g].approval \in DOMAIN approvals
    BY <1>9, BusyResolver
  <2>3. approvals'[resolver[g].approval].run = RunOf(g)
    BY <1>2, <2>2 DEF Kept, RunOf
  <2>4. CASE Decide(h)
    <3>1. resolver[g].approval # resolver[h].approval
      BY <1>9, <2>4 DEF OneDecider, Decide
    <3>2. approvals'[resolver[g].approval] = approvals[resolver[g].approval]
      BY <2>2, <2>4, <3>1 DEF Decide
    <3> QED BY <2>1, <2>3, <3>2
  <2>5. CASE approvals' = approvals
    BY <2>1, <2>3, <2>5
  <2> QED BY <2>4, <2>5 DEF ResolverNext, ReadApproval, LoadRun, StoreVerdict,
                            ResolverDropped, vars
<1>10. HandlerGates'
  <2> SUFFICES ASSUME NEW g \in Resolvers, resolver'[g].pc # "idle"
               PROVE  /\ resolver'[g].pc = "decide" =>
                            approvals'[resolver'[g].approval].status = "pending"
                      /\ resolver'[g].pc \in {"load", "store"} =>
                            approvals'[resolver'[g].approval].status = resolver'[g].verdict
                      /\ resolver'[g].pc = "store" =>
                            Passed(approvals', approvals'[resolver'[g].approval].run,
                                   resolver'[g].copy)
    BY <1>1, <1>2, <1>7 DEF HandlerGates, RunOf, Passed
  <2>1. CASE g = h
    BY <1>8, <2>1
  <2>2. CASE g # h
    <3>1. resolver[g].pc # "idle"
      BY <1>1, <2>2 DEF ResolverNext, ReadApproval, Decide, LoadRun, StoreVerdict,
                        ResolverDropped
    <3>2. resolver[g].pc = "store" => Passed(approvals', RunOf(g), resolver[g].copy)
      BY <1>1, <1>2, PassedKept DEF HandlerGates
    <3> QED BY <1>1, <1>9, <2>2, <3>1, <3>2 DEF HandlerGates
  <2> QED BY <2>1, <2>2
<1> QED BY <1>4, <1>6, <1>10 DEF GateInv

LEMMA PatcherKeepsGateInv ==
    ASSUME ApiInv, GateInv, NEW p \in Patchers, PatcherNext(p)
    PROVE  GateInv'
<1>1. /\ EngineGates /\ RowsAtGates /\ HandlerGates
      /\ patcher \in [Patchers -> Patcher] /\ runs \in [Runs -> Row]
  BY DEF ApiInv, TypeInv, TypeOK, GateInv
<1>2. task' = task /\ resolver' = resolver /\ approvals' = approvals
  BY DEF PatcherNext, ReadDeadLetter, StorePatch, PatcherDropped, vars
<1>3. \A q \in Patchers : patcher'[q].pc = "store" =>
         Passed(approvals, patcher'[q].run, patcher'[q].copy)
  <2>1. ASSUME NEW r \in Runs, ReadDeadLetter(p, r)
        PROVE  patcher'[p].copy.cursor = runs[r].cursor /\ patcher'[p].run = r
    BY <1>1, <2>1 DEF ReadDeadLetter, ReadRun
  <2>2. \A q \in Patchers : q # p => patcher'[q] = patcher[q]
    BY <1>1 DEF PatcherNext, ReadDeadLetter, StorePatch, PatcherDropped
  <2>3. \/ \E r \in Runs : ReadDeadLetter(p, r)
        \/ patcher'[p].pc = "idle"
    <3>1. CASE StorePatch(p) \/ PatcherDropped(p)
      <4>1. patcher' = [patcher EXCEPT ![p] = IdlePatcher]
        BY <3>1 DEF StorePatch, PatcherDropped
      <4> QED BY <1>1, <4>1 DEF IdlePatcher
    <3> QED BY <3>1 DEF PatcherNext
  <2> QED BY <1>1, <2>1, <2>2, <2>3 DEF HandlerGates, EngineGates, Passed
<1>4. ASSUME NEW r \in Runs
      PROVE  runs'[r].cursor = runs[r].cursor \/ Passed(approvals, r, runs'[r])
  <2>1. CASE StorePatch(p) /\ r = patcher[p].run
    <3>1. PICK context \in SUBSET (0 .. (Len(Plan[r]) - 1)) :
             runs' = [runs EXCEPT ![r] = SaveProgress(runs[r],
                        [patcher[p].copy EXCEPT !.context = context], "dead_letter", TRUE)]
      BY <2>1 DEF StorePatch
    <3>2. patcher[p].pc = "store" /\ patcher[p].copy \in Copy /\ runs[r] \in Row
      BY <2>1, BusyPatcher DEF StorePatch
    <3>3. runs'[r].cursor = patcher[p].copy.cursor
      BY <1>1, <3>1, <3>2 DEF SaveProgress, Row, Copy
    <3> QED BY <1>1, <2>1, <3>2, <3>3 DEF HandlerGates, Passed
  <2>2. CASE StorePatch(p) /\ r # patcher[p].run
    BY <1>1, <2>2 DEF StorePatch
  <2>3. CASE ~ StorePatch(p)
    BY <2>3 DEF PatcherNext, ReadDeadLetter, PatcherDropped, vars
  <2> QED BY <2>1, <2>2, <2>3
<1>5. EngineGates'
  BY <1>1, <1>2, <1>4 DEF EngineGates, Passed, StepKind
<1>6. RowsAtGates' /\ HandlerGates'
  BY <1>1, <1>2, <1>3 DEF RowsAtGates, HandlerGates, RunOf, Passed, Gates
<1> QED BY <1>5, <1>6 DEF GateInv

LEMMA NextGates ==
    ASSUME OneDecider, ApiInv, MidStepInv, GateInv, [ApiNext]_apiVars
    PROVE  MidStepInv' /\ GateInv'
<1>1. CASE (Next \/ UNCHANGED vars) /\ UNCHANGED <<resolver, patcher>>
  BY <1>1, NextMidStep, EngineKeepsGateInv DEF ApiInv
<1>2. ASSUME NEW h \in Resolvers, ResolverNext(h) PROVE MidStepInv' /\ GateInv'
  <2>1. task' = task
    BY <1>2 DEF ResolverNext, ReadApproval, Decide, LoadRun, StoreVerdict, ResolverDropped, vars
  <2> QED BY <1>2, <2>1, ResolverKeepsGateInv DEF MidStepInv
<1>3. ASSUME NEW p \in Patchers, PatcherNext(p) PROVE MidStepInv' /\ GateInv'
  <2>1. task' = task
    BY <1>3 DEF PatcherNext, ReadDeadLetter, StorePatch, PatcherDropped, vars
  <2> QED BY <1>3, <2>1, PatcherKeepsGateInv DEF MidStepInv
<1> QED BY <1>1, <1>2, <1>3 DEF ApiNext, apiVars, vars

(* api.rs:306: where no two requests decide one approval at the same time, *)
(* no run with one approval step gets past it without an approval of it,   *)
(* however many duplicate rows and decisions of them, crashes, expired     *)
(* leases, overlapping executions, cancels, retries and patches there are, *)
(* and whatever the other runs are.  Two deciders of one approval break it *)
(* (run api_two_deciders), and so would two gates with a duplicate row.    *)
THEOREM GatesHold == OneDeciderSpec => []GatePassedOnlyIfApproved
<1>1. ApiInit => MidStepInv /\ OneDecider
  BY DEF ApiInit, Init, MidStepInv, Idle, IdleResolver, OneDecider
<1>2. [ApiNext /\ OneDecider']_apiVars /\ OneDecider => OneDecider'
  BY DEF apiVars, OneDecider
<1>3. [ApiNext /\ OneDecider']_apiVars => [ApiNext]_apiVars
  OBVIOUS
<1>4. OneDecider /\ ApiInv /\ MidStepInv /\ GateInv /\ [ApiNext]_apiVars
         => MidStepInv' /\ GateInv'
  BY NextGates
<1>5. GateInv => GatePassedOnlyIfApproved
  BY DEF GateInv, EngineGates, Passed, GatePassedOnlyIfApproved, GateRows, GatedRuns, LinearRuns
<1> QED BY <1>1, <1>2, <1>3, <1>4, <1>5, InitGates, InitApi, NextApi, PTL DEF OneDeciderSpec

-----------------------------------------------------------------------------
(* The budget and the log beside the handlers.  A handler may write back a *)
(* copy that is older than the row; what it writes was once a row of the   *)
(* run, or is one step further and that step is a gate.                    *)

CopyOK(r, c) ==
    /\ r \in LinearRuns => Within(r, c)
    /\ Durable({}, r, c, run_steps[r])

HandlerCopies ==
    /\ \A h \in Resolvers : resolver[h].pc = "store" =>
          /\ resolver[h].copy.cursor \in Gates(RunOf(h))
          /\ CopyOK(RunOf(h), resolver[h].copy)
    /\ \A p \in Patchers : patcher[p].pc = "store" => CopyOK(patcher[p].run, patcher[p].copy)

HistoryInv ==
    /\ MidStepInv /\ ParkedInv /\ RowsAtGates
    /\ BudgetInv /\ ProgressIn({}) /\ HandlerCopies

LEMMA LogGrows ==
    ASSUME TypeInv, [Next]_vars
    PROVE  \A r \in Runs : run_steps[r] \subseteq run_steps'[r]
<1>1. \A t \in Tasks : LogSuccess(t) => \A r \in Runs : run_steps[r] \subseteq run_steps'[r]
  BY DEF LogSuccess, TypeInv, TypeOK
<1> QED BY <1>1 DEF Next, vars, Environment, ReapStale, Enqueue, Cancel, Retry, LeaseLapses,
            BecomesDue, EngineStep, Finish, Stop, RequestApproval, Park, BeginDelay, Sleep,
            RenewLease, ExecuteStep, Advance, Fail, Die, Claim

LEMMA InitHistory == ApiInit => HistoryInv
<1> SUFFICES ASSUME ApiInit PROVE HistoryInv
  OBVIOUS
<1>1. Init
  BY DEF ApiInit
<1>2. MidStepInv /\ ParkedInv /\ RowsAtGates
  BY <1>1 DEF Init, MidStepInv, ParkedInv, RowsAtGates, At, Idle, Absent, Orphan
<1>3. HandlerCopies
  BY DEF ApiInit, IdleResolver, IdlePatcher, HandlerCopies
<1> QED BY <1>1, <1>2, <1>3, InitBudget, InitProgress DEF HistoryInv

LEMMA EngineHistory ==
    ASSUME ApiInv, HistoryInv, [Next]_vars, UNCHANGED <<resolver, patcher>>
    PROVE  HistoryInv'
<1>1. /\ TypeInv /\ MidStepInv /\ ParkedInv /\ RowsAtGates /\ BudgetInv /\ ProgressIn({})
      /\ HandlerCopies
  BY DEF ApiInv, HistoryInv
<1>2. MidStepInv' /\ ParkedInv' /\ RowsAtGates' /\ BudgetInv' /\ ProgressIn({})'
  BY <1>1, NextMidStep, EngineParked, EngineRows, NextBudget, NextProgress
<1>3. ASSUME NEW r \in Runs, NEW c, CopyOK(r, c)
      PROVE  (r \in LinearRuns => Within(r, c)) /\ Durable({}, r, c, run_steps'[r])
  BY <1>1, <1>3, LogGrows, DurableMonotone DEF CopyOK
<1>4. ASSUME NEW h \in Resolvers, resolver[h].pc = "store"
      PROVE  /\ RunOf(h) \in Runs
             /\ approvals'[resolver[h].approval].run = RunOf(h)
  <2>1. resolver[h].approval \in DOMAIN approvals
    BY <1>4, BusyResolver
  <2> QED BY <1>1, <1>4, <2>1, BusyResolver, ApprovalsKept DEF Kept, RunOf
<1>5. \A p \in Patchers : patcher[p].pc = "store" => patcher[p].run \in Runs
  BY BusyPatcher
<1>6. \A h \in Resolvers : resolver[h].pc = "store" =>
         /\ resolver[h].copy.cursor \in Gates(approvals'[resolver[h].approval].run)
         /\ LET r == approvals'[resolver[h].approval].run IN
              /\ r \in LinearRuns => Within(r, resolver[h].copy)
              /\ Durable({}, r, resolver[h].copy, run_steps'[r])
  BY <1>1, <1>3, <1>4 DEF HandlerCopies
<1>7. \A p \in Patchers : patcher[p].pc = "store" =>
         LET r == patcher[p].run IN
              /\ r \in LinearRuns => Within(r, patcher[p].copy)
              /\ Durable({}, r, patcher[p].copy, run_steps'[r])
  BY <1>1, <1>3, <1>5 DEF HandlerCopies
<1>8. HandlerCopies'
  BY <1>6, <1>7 DEF HandlerCopies, CopyOK, RunOf
<1> QED BY <1>2, <1>8 DEF HistoryInv

(* A handler's save.                                                       *)
LEMMA HandlerSave ==
    ASSUME ApiInv, HistoryInv, NEW r \in Runs, NEW c \in Copy, NEW status, NEW due,
           runs' = [runs EXCEPT ![r] = SaveProgress(runs[r], c, status, due)],
           UNCHANGED <<task, run_steps>>,
           r \in LinearRuns => Within(r, c) /\ (status \in Claimable => ToSpare(r, c)),
           Durable({}, r, c, run_steps[r])
    PROVE  BudgetInv' /\ ProgressIn({})'
<1>1. BudgetInv /\ ProgressIn({}) /\ runs \in [Runs -> Row]
  BY DEF HistoryInv, ApiInv, TypeInv, TypeOK
<1>2. /\ runs'[r].cursor = c.cursor /\ runs'[r].attempt = c.attempt
      /\ runs'[r].status = status /\ runs'[r].context = c.context
      /\ \A s \in Runs : s # r => runs'[s] = runs[s]
  BY <1>1 DEF SaveProgress, Row
<1>3. RowBudget(r, runs'[r])
  BY <1>2 DEF RowBudget, Within, ToSpare
<1>4. Durable({}, r, runs'[r], run_steps[r])
  BY <1>2, DurableByFields
<1> QED BY <1>1, <1>2, <1>3, <1>4 DEF BudgetInv, ProgressIn, At

(* Past a gate: nothing more is to be logged, and a claim is to spare.     *)
LEMMA PastGate ==
    ASSUME NEW r \in Runs, NEW c \in Copy, c.cursor \in Gates(r), CopyOK(r, c),
           NEW d \in Copy, d = [c EXCEPT !.cursor = @ + 1]
    PROVE  CopyOK(r, d) /\ (r \in LinearRuns => ToSpare(r, d))
<1>1. /\ d.cursor = c.cursor + 1 /\ d.attempt = c.attempt /\ c.attempt \in Nat
      /\ c.cursor \in Nat
  BY DEF Copy
<1>2. c.cursor < Len(Plan[r]) /\ Plan[r][c.cursor + 1] = "approval"
  BY <1>1, PlanAssumption DEF Gates
<1>3. /\ PauseCount(r, c.cursor + 1) = PauseCount(r, c.cursor) + 1
      /\ PauseCount(r, c.cursor) \in Nat
  BY <1>1, <1>2, PauseCountPause, PausesFinite
<1>4. \A i \in Producing(r) : i < c.cursor + 1 => i < c.cursor
  BY <1>1, <1>2, PlanAssumption DEF Producing
<1>5. Durable({}, r, d, run_steps[r])
  BY <1>1, <1>4 DEF CopyOK, Durable
<1> QED BY <1>1, <1>3, <1>5, MaxAttemptsAssumption DEF CopyOK, Within, ToSpare

LEMMA ResolverHistory ==
    ASSUME ApiInv, HistoryInv, NEW h \in Resolvers, ResolverNext(h)
    PROVE  HistoryInv'
<1>1. /\ MidStepInv /\ RowsAtGates /\ BudgetInv /\ ProgressIn({}) /\ HandlerCopies
      /\ ParkedInv /\ resolver \in [Resolvers -> Resolver] /\ runs \in [Runs -> Row]
  BY DEF HistoryInv, ApiInv, TypeInv, TypeOK
<1>2. /\ UNCHANGED <<task, run_steps, patcher>> /\ Kept(approvals, approvals')
      /\ DOMAIN approvals' = DOMAIN approvals
      /\ \A g \in Resolvers : g # h => resolver'[g] = resolver[g]
  BY <1>1, ResolverKeeps DEF ResolverNext, ReadApproval, Decide, LoadRun, StoreVerdict,
                             ResolverDropped, vars
<1>3. MidStepInv' /\ ParkedInv' /\ RowsAtGates'
  BY <1>1, <1>2, ResolverParked, HandlerRows DEF MidStepInv
<1>4. BudgetInv' /\ ProgressIn({})'
  <2>1. CASE StoreVerdict(h)
    <3> DEFINE r == RunOf(h)
               c == resolver[h].copy
               d == [c EXCEPT !.cursor = @ + 1]
    <3>1. r \in Runs /\ c \in Copy /\ c.cursor \in Gates(r) /\ CopyOK(r, c)
      BY <1>1, <2>1, BusyResolver DEF StoreVerdict, HandlerCopies
    <3>2. d \in Copy
      BY <3>1 DEF Copy
    <3>3. CopyOK(r, d) /\ (r \in LinearRuns => ToSpare(r, d))
      BY <3>1, <3>2, PastGate
    <3>4. \/ runs' = [runs EXCEPT ![r] = SaveProgress(runs[r], d, "queued", TRUE)]
          \/ runs' = [runs EXCEPT ![r] = SaveProgress(runs[r], c, "canceled", TRUE)]
      BY <2>1 DEF StoreVerdict
    <3>5. "canceled" \notin Claimable
      BY DEF Claimable
    <3> HIDE DEF r, c, d
    <3> QED BY <1>2, <3>1, <3>2, <3>3, <3>4, <3>5, HandlerSave DEF CopyOK
  <2>2. CASE ~ StoreVerdict(h)
    <3>1. runs' = runs
      BY <2>2 DEF ResolverNext, ReadApproval, Decide, LoadRun, ResolverDropped, vars
    <3> QED BY <1>1, <1>2, <3>1 DEF BudgetInv, ProgressIn, At
  <2> QED BY <2>1, <2>2
<1>5. ASSUME NEW g \in Resolvers, resolver'[g].pc = "store"
      PROVE  LET r == approvals'[resolver'[g].approval].run IN
                resolver'[g].copy.cursor \in Gates(r) /\ CopyOK(r, resolver'[g].copy)
  <2>1. CASE resolver'[g] = resolver[g]
    <3>1. resolver[g].approval \in DOMAIN approvals
      BY <1>5, <2>1, BusyResolver
    <3> QED BY <1>1, <1>2, <1>5, <2>1, <3>1 DEF HandlerCopies, RunOf, Kept
  <2>2. CASE g = h /\ LoadRun(h)
    <3> DEFINE r == RunOf(h)
    <3>1. /\ resolver' = [resolver EXCEPT ![h].pc = "store", ![h].copy = ReadRun(runs[r])]
          /\ runs[r].status = "waiting_approval" /\ approvals' = approvals
      BY <1>1, <1>5, <2>2 DEF LoadRun, IdleResolver, vars
    <3>2. r \in Runs /\ resolver[h] \in Resolver
      BY <2>2, BusyResolver DEF LoadRun
    <3>3. resolver'[h].approval = resolver[h].approval /\ resolver'[h].copy = ReadRun(runs[r])
      BY <1>1, <3>1, <3>2 DEF Resolver
    <3>4. ReadRun(runs[r]).cursor \in Gates(r)
      BY <1>1, <3>1, <3>2 DEF ParkedInv, HasRow, RowsAtGates, ReadRun
    <3>5. CopyOK(r, ReadRun(runs[r]))
      BY <1>1, <3>2, DurableByFields
         DEF CopyOK, BudgetInv, RowBudget, ProgressIn, Within, ReadRun
    <3> QED BY <2>2, <3>1, <3>3, <3>4, <3>5 DEF RunOf
  <2>3. resolver'[g] = resolver[g] \/ (g = h /\ LoadRun(h))
    <3>1. CASE StoreVerdict(h) \/ ResolverDropped(h)
      <4>1. resolver' = [resolver EXCEPT ![h] = IdleResolver]
        BY <3>1 DEF StoreVerdict, ResolverDropped
      <4>2. resolver'[h].pc = "idle"
        BY <1>1, <4>1 DEF IdleResolver
      <4> QED BY <1>2, <1>5, <4>2
    <3>2. CASE Decide(h)
      <4>1. resolver'[h].pc = "load"
        BY <1>1, <3>2 DEF Decide, Resolver
      <4> QED BY <1>2, <1>5, <4>1
    <3>3. ASSUME NEW a, NEW verdict, ReadApproval(h, a, verdict)
          PROVE  resolver'[g] = resolver[g]
      <4>1. resolver'[h].pc = "decide"
        BY <1>1, <3>3 DEF ReadApproval, Resolver
      <4> QED BY <1>2, <1>5, <4>1
    <3> QED BY <1>2, <3>1, <3>2, <3>3 DEF ResolverNext
  <2> QED BY <2>1, <2>2, <2>3
<1>6. HandlerCopies'
  <2>1. \A p \in Patchers : patcher'[p].pc = "store" => CopyOK(patcher'[p].run, patcher'[p].copy)
    BY <1>1, <1>2 DEF HandlerCopies
  <2> QED BY <1>2, <1>5, <2>1 DEF HandlerCopies, CopyOK, RunOf, Gates
<1> QED BY <1>3, <1>4, <1>6 DEF HistoryInv

LEMMA PatcherHistory ==
    ASSUME ApiInv, HistoryInv, NEW p \in Patchers, PatcherNext(p)
    PROVE  HistoryInv'
<1>1. /\ MidStepInv /\ RowsAtGates /\ BudgetInv /\ ProgressIn({}) /\ HandlerCopies
      /\ ParkedInv /\ patcher \in [Patchers -> Patcher] /\ runs \in [Runs -> Row]
  BY DEF HistoryInv, ApiInv, TypeInv, TypeOK
<1>2. /\ UNCHANGED <<task, run_steps, approvals, resolver>>
      /\ \A q \in Patchers : q # p => patcher'[q] = patcher[q]
  BY <1>1 DEF PatcherNext, ReadDeadLetter, StorePatch, PatcherDropped, vars
<1>3. MidStepInv' /\ ParkedInv' /\ RowsAtGates'
  BY <1>1, <1>2, PatcherParked DEF MidStepInv, RowsAtGates, Gates
<1>4. BudgetInv' /\ ProgressIn({})'
  <2>1. CASE StorePatch(p)
    <3> DEFINE r == patcher[p].run
               c == patcher[p].copy
    <3>1. r \in Runs /\ c \in Copy /\ CopyOK(r, c)
      BY <1>1, <2>1, BusyPatcher DEF StorePatch, HandlerCopies
    <3>2. PICK context \in SUBSET (0 .. (Len(Plan[r]) - 1)) :
             runs' = [runs EXCEPT ![r] = SaveProgress(runs[r],
                        [c EXCEPT !.context = context], "dead_letter", TRUE)]
      BY <2>1 DEF StorePatch
    <3> DEFINE d == [c EXCEPT !.context = context]
    <3>3. d \in Copy /\ d.cursor = c.cursor /\ d.attempt = c.attempt
      <4>1. context \in SUBSET Nat
        BY <3>1, PlanAssumption
      <4> QED BY <3>1, <4>1 DEF Copy
    <3>4. (r \in LinearRuns => Within(r, d)) /\ Durable({}, r, d, run_steps[r])
      BY <3>1, <3>3 DEF CopyOK, Within, Durable
    <3>5. "dead_letter" \notin Claimable
      BY DEF Claimable
    <3>6. runs' = [runs EXCEPT ![r] = SaveProgress(runs[r], d, "dead_letter", TRUE)]
      BY <3>2
    <3> HIDE DEF r, c, d
    <3> QED BY <1>2, <3>1, <3>3, <3>4, <3>5, <3>6, HandlerSave
  <2>2. CASE ~ StorePatch(p)
    <3>1. runs' = runs
      BY <2>2 DEF PatcherNext, ReadDeadLetter, PatcherDropped, vars
    <3> QED BY <1>1, <1>2, <3>1 DEF BudgetInv, ProgressIn, At
  <2> QED BY <2>1, <2>2
<1>5. ASSUME NEW q \in Patchers, patcher'[q].pc = "store"
      PROVE  CopyOK(patcher'[q].run, patcher'[q].copy)
  <2>1. CASE q # p
    BY <1>1, <1>2, <1>5, <2>1 DEF HandlerCopies
  <2>2. ASSUME NEW r \in Runs, ReadDeadLetter(p, r), q = p
        PROVE  CopyOK(patcher'[q].run, patcher'[q].copy)
    <3>1. patcher'[q].run = r /\ patcher'[q].copy = ReadRun(runs[r])
      BY <1>1, <2>2 DEF ReadDeadLetter
    <3>2. CopyOK(r, ReadRun(runs[r]))
      BY <1>1, DurableByFields DEF CopyOK, BudgetInv, RowBudget, ProgressIn, Within, ReadRun
    <3> QED BY <3>1, <3>2
  <2>3. CASE q = p /\ ~ \E r \in Runs : ReadDeadLetter(p, r)
    <3>1. patcher' = [patcher EXCEPT ![p] = IdlePatcher]
      BY <2>3 DEF PatcherNext, StorePatch, PatcherDropped
    <3>2. patcher'[q].pc = "idle"
      BY <1>1, <2>3, <3>1 DEF IdlePatcher
    <3> QED BY <1>5, <3>2
  <2> QED BY <2>1, <2>2, <2>3
<1>6. HandlerCopies'
  BY <1>1, <1>2, <1>5 DEF HandlerCopies, CopyOK, RunOf, Gates
<1> QED BY <1>3, <1>4, <1>6 DEF HistoryInv

LEMMA NextHistory == ApiInv /\ HistoryInv /\ [ApiNext]_apiVars => HistoryInv'
<1> SUFFICES ASSUME ApiInv, HistoryInv, [ApiNext]_apiVars PROVE HistoryInv'
  OBVIOUS
<1>1. CASE (Next \/ UNCHANGED vars) /\ UNCHANGED <<resolver, patcher>>
  BY <1>1, EngineHistory
<1>2. ASSUME NEW h \in Resolvers, ResolverNext(h) PROVE HistoryInv'
  BY <1>2, ResolverHistory
<1>3. ASSUME NEW p \in Patchers, PatcherNext(p) PROVE HistoryInv'
  BY <1>3, PatcherHistory
<1> QED BY <1>1, <1>2, <1>3 DEF ApiNext, apiVars, vars

LEMMA HistoryInvariant == ApiSpec => []HistoryInv
BY InitHistory, NextHistory, ApiInvariant, PTL DEF ApiSpec

(* db.rs:142, api.rs:207 and 326: neither a decision nor a patch, written  *)
(* over whatever the row has become, gives a run without branches more     *)
(* claims than its attempts and the pauses it has passed.                  *)
THEOREM ApiBudget == ApiSpec => []AttemptsBounded
<1>1. HistoryInv => AttemptsBounded
  BY DEF HistoryInv, BudgetInv, RowBudget, Within, AttemptsBounded, LinearRuns
<1> QED BY <1>1, HistoryInvariant, PTL

(* api.rs:203 and 326: beside any number of deciders, of the same approval *)
(* too, and of patches, every step before the cursor of a run without      *)
(* branches has succeeded once: its entry is in the log.                   *)
THEOREM NothingSkipped == ApiSpec => []NoStepSkipped
<1>1. HistoryInv => NoStepSkipped
  BY DEF HistoryInv, ProgressIn, Durable, NoStepSkipped, LinearRuns
<1> QED BY <1>1, HistoryInvariant, PTL
=============================================================================
