-------------------------- MODULE SchedulerProofs ---------------------------
(***************************************************************************)
(* Proofs about Scheduler, for all schedules, expressions, calendars and   *)
(* bounds: that its matcher is exact, the type invariant, and what is kept *)
(* of "at most once per minute" when statements fail and processes die, for*)
(* any number of replicas whose ticks of different minutes do not overlap. *)
(***************************************************************************)
EXTENDS Scheduler, TLAPS

-----------------------------------------------------------------------------
(* The matcher of cron.rs is exact: an expression matches the times that   *)
(* its syntax lists and no others.                                         *)

LEMMA Division ==
    ASSUME NEW n \in Nat, NEW d \in Nat, d > 0, n % d = 0
    PROVE  n \div d \in 0 .. n /\ n = (n \div d) * d
<1>1. n \div d \in Nat /\ n = d * (n \div d)
  OBVIOUS
<1>2. n \div d <= d * (n \div d)
  BY <1>1
<1> QED BY <1>1, <1>2

LEMMA MultipleHasNoRemainder ==
    ASSUME NEW i \in Nat, NEW d \in Nat, d > 0
    PROVE  (i * d) % d = 0
  OBVIOUS

(* The test with the remainder is the counting out.                        *)
LEMMA CountedByRemainder ==
    ASSUME NEW v \in FieldValues, NEW from \in Nat, NEW to \in Nat, NEW d \in Nat, d > 0
    PROVE  v \in Counted(from, to, d) <=> from <= v /\ v <= to /\ (v - from) % d = 0
<1>1. ASSUME v \in Counted(from, to, d)
      PROVE  from <= v /\ v <= to /\ (v - from) % d = 0
  <2>1. PICK i \in FieldValues : v = from + i * d
    BY <1>1 DEF Counted
  <2>2. i \in Nat /\ i * d \in Nat /\ v - from = i * d
    BY <2>1 DEF FieldValues
  <2>3. (v - from) % d = 0
    BY <2>2, MultipleHasNoRemainder
  <2>4. from <= v
    BY <2>1, <2>2
  <2> QED BY <1>1, <2>3, <2>4 DEF Counted
<1>2. ASSUME from <= v, v <= to, (v - from) % d = 0
      PROVE  v \in Counted(from, to, d)
  <2>1. v - from \in Nat /\ v - from <= v /\ v <= 59
    BY <1>2 DEF FieldValues
  <2>2. (v - from) \div d \in 0 .. (v - from) /\ v - from = ((v - from) \div d) * d
    BY <1>2, <2>1, Division
  <2>3. (v - from) \div d \in FieldValues
    BY <2>1, <2>2 DEF FieldValues
  <2>4. v = from + ((v - from) \div d) * d
    BY <2>1, <2>2 DEF FieldValues
  <2> QED BY <1>2, <2>3, <2>4 DEF Counted
<1> QED BY <1>1, <1>2

LEMMA PartExact ==
    ASSUME NEW part \in Part, NEW v \in FieldValues
    PROVE  PartMatches(part, v) <=> v \in PartDenotes(part)
<1>1. CASE \E s \in Nat : part = Every(s)
  <2>1. PICK s \in Nat : part = Every(s)
    BY <1>1
  <2>2. s > 0 => (v \in Counted(0, 59, s) <=> (v - 0) % s = 0)
    <3>1. 0 \in Nat /\ 59 \in Nat /\ 0 <= v /\ v <= 59
      BY DEF FieldValues
    <3> QED BY <3>1, CountedByRemainder
  <2>3. v - 0 = v
    BY DEF FieldValues
  <2> QED BY <2>1, <2>2, <2>3 DEF Every, PartMatches, PartDenotes
<1>2. CASE \E s \in Nat : part = Bad(s)
  BY <1>2 DEF Bad, PartMatches, PartDenotes
<1>3. CASE \E n \in Nat, s \in {0, 1} : part = Number(n, s)
  BY <1>3 DEF Number, PartMatches, PartDenotes
<1>4. CASE \E lo, hi, s \in Nat : part = Between(lo, hi, s)
  <2>1. PICK lo \in Nat, hi \in Nat, s \in Nat : part = Between(lo, hi, s)
    BY <1>4
  <2>2. s > 0 => (v \in Counted(lo, hi, s) <=> lo <= v /\ v <= hi /\ (v - lo) % s = 0)
    BY CountedByRemainder
  <2> QED BY <2>1, <2>2 DEF Between, PartMatches, PartDenotes
<1> QED BY <1>1, <1>2, <1>3, <1>4 DEF Part

(* cron.rs:8-24, 31-63: for every expression of well-formed parts and every*)
(* time, the matcher answers what the syntax says (steps anchored at the   *)
(* start of a range, lists as unions, all five fields).                    *)
THEOREM MatcherExact ==
    ASSUME NEW cron \in Seq(SUBSET Part), NEW time \in [1 .. 5 -> FieldValues]
    PROVE  Matches(cron, time) <=> Lists(cron, time)
<1>1. ASSUME NEW i \in 1 .. 5, Len(cron) = 5
      PROVE  FieldMatches(cron[i], time[i]) <=> time[i] \in FieldDenotes(cron[i])
  <2>1. cron[i] \in SUBSET Part /\ time[i] \in FieldValues
    <3>1. \A k \in 1 .. Len(cron) : cron[k] \in SUBSET Part
      OBVIOUS
    <3> QED BY <1>1, <3>1
  <2>2. \A part \in cron[i] : PartMatches(part, time[i]) <=> time[i] \in PartDenotes(part)
    BY <2>1, PartExact
  <2> QED BY <2>2 DEF FieldMatches, FieldDenotes
<1> QED BY <1>1 DEF Matches, Lists

-----------------------------------------------------------------------------
(* The table and the tickers.                                              *)

LEMMA WaitingTick == Waiting \in Tick
  BY DEF Waiting, Tick, Unread

LEMMA SchedTypesStart == Init => TypeOK
  <1> SUFFICES ASSUME Init PROVE TypeOK  OBVIOUS
  <1>1. Unread \in [Schedules -> {Never} \cup Minutes]  BY DEF Unread
  <1>2. created \in [Replicas -> Tally]
    <2>1. [m \in Minutes |-> 0] \in [Minutes -> Nat]  OBVIOUS
    <2>2. [x \in Schedules |-> [m \in Minutes |-> 0]] \in [Schedules -> [Minutes -> Nat]]
      BY <2>1
    <2> QED  BY <2>2 DEF Init, Tally
  <1>3. failures \in [Replicas -> 0 .. MaxFailures] /\ edits \in 0 .. MaxEdits
    BY BoundsAssumption DEF Init
  <1>4. workflow \in [Schedules -> {"enabled", "disabled", "deleted"}]  BY DEF Init
  <1>5. tick \in [Replicas -> Tick]  BY WaitingTick DEF Init
  <1>6. clock \in Minutes  BY BoundsAssumption DEF Init, Minutes
  <1> QED  BY <1>1, <1>2, <1>3, <1>4, <1>5, <1>6 DEF Init, TypeOK

LEMMA FailureType ==
    ASSUME failures \in [Replicas -> 0 .. MaxFailures], NEW p \in Replicas, Failure(p)
    PROVE  failures' \in [Replicas -> 0 .. MaxFailures]
  <1>1. failures[p] + 1 \in 0 .. MaxFailures  BY BoundsAssumption DEF Failure
  <1> QED  BY <1>1 DEF Failure

LEMMA SchedTypesStay == TypeOK /\ [Next]_schedVars => TypeOK'
  <1> SUFFICES ASSUME TypeOK, [Next]_schedVars PROVE TypeOK'
    OBVIOUS
  <1> USE DEF TypeOK
  <1>0. /\ Minutes \subseteq Nat
        /\ \A q \in Replicas : tick[q].now \in {Never} \cup Minutes
    BY DEF Minutes, Tick
  <1>1. CASE MinutePasses  BY <1>1, BoundsAssumption DEF MinutePasses, Minutes
  <1>2. ASSUME NEW s \in Schedules,
               DeleteSchedule(s) \/ DeleteWorkflow(s) \/ UpdateWorkflow(s)
        PROVE  TypeOK'
    BY <1>2, BoundsAssumption DEF DeleteSchedule, DeleteWorkflow, UpdateWorkflow
  <1>3. ASSUME NEW q \in Replicas, StartTick(q) PROVE TypeOK'
    <2>1. [tick[q] EXCEPT !.pc = "list", !.now = clock] \in Tick  BY DEF Tick
    <2> QED  BY <1>3, <2>1 DEF StartTick
  <1>4. ASSUME NEW q \in Replicas, ListSchedules(q) PROVE TypeOK'
    <2>1. [tick[q] EXCEPT !.pc = "loop", !.todo = Schedules \ deleted,
                          !.seen = last_run] \in Tick
      BY DEF Tick
    <2> QED  BY <1>4, <2>1 DEF ListSchedules
  <1>5. ASSUME NEW q \in Replicas, Mark(q) PROVE TypeOK'
    <2>1. [tick[q] EXCEPT !.pc = "loop", !.current = {}] \in Tick  BY DEF Tick
    <2>2. last_run' \in [Schedules -> {Never} \cup Minutes]  BY <1>0, <1>5 DEF Mark
    <2> QED  BY <1>5, <2>1, <2>2 DEF Mark
  <1>6. ASSUME NEW q \in Replicas, EndTick(q) PROVE TypeOK'
    BY <1>6, WaitingTick DEF EndTick
  <1>7. ASSUME NEW q \in Replicas, Abort(q) PROVE TypeOK'
    <2>1. failures' \in [Replicas -> 0 .. MaxFailures]
      BY <1>7, FailureType DEF Abort
    <2> QED  BY <1>7, <2>1, WaitingTick DEF Abort
  <1>8. ASSUME NEW q \in Replicas, NEW s \in Schedules
        PROVE  /\ [tick[q] EXCEPT !.todo = @ \ {s}] \in Tick
               /\ [tick[q] EXCEPT !.pc = "mark", !.todo = @ \ {s}, !.current = {s}] \in Tick
    BY DEF Tick
  <1>9. ASSUME NEW q \in Replicas, NEW s \in Schedules, NEW m \in Minutes
        PROVE  [created EXCEPT ![q][s][m] = @ + 1] \in [Replicas -> Tally]
    <2>1. created[q] \in [Schedules -> [Minutes -> Nat]]  BY DEF Tally
    <2>2. created[q][s] \in [Minutes -> Nat]  BY <2>1
    <2>3. [created[q][s] EXCEPT ![m] = @ + 1] \in [Minutes -> Nat]  BY <2>2
    <2>4. [created[q] EXCEPT ![s] = [created[q][s] EXCEPT ![m] = @ + 1]]
             \in Tally
      BY <2>1, <2>3 DEF Tally
    <2> QED  BY <2>4
  <1>10. ASSUME NEW q \in Replicas, NEW s \in Schedules, Due(q, s)
         PROVE  tick[q].now \in Minutes
    BY <1>10 DEF Due, Fires
  <1>11. ASSUME NEW q \in Replicas, NEW s \in Schedules, Skip(q, s) PROVE TypeOK'
    BY <1>8, <1>11 DEF Skip, Drop
  <1>12. ASSUME NEW q \in Replicas, NEW s \in Schedules, Fire(q, s) PROVE TypeOK'
    <2>1. created' \in [Replicas -> Tally]
      BY <1>9, <1>10, <1>12 DEF Fire
    <2> QED  BY <1>8, <1>12, <2>1 DEF Fire
  <1>13. ASSUME NEW q \in Replicas, NEW s \in Schedules, FireFails(q, s) PROVE TypeOK'
    <2>1. created' \in [Replicas -> Tally]
      <3>1. CASE UNCHANGED created  BY <3>1
      <3>2. CASE created' = [created EXCEPT ![q][s][tick[q].now] = @ + 1]
        <4>1. tick[q].now \in Minutes  BY <1>10, <1>13 DEF FireFails
        <4> QED  BY <1>9, <3>2, <4>1
      <3> QED  BY <1>13, <3>1, <3>2 DEF FireFails
    <2>2. tick' = [tick EXCEPT ![q] = [tick[q] EXCEPT !.todo = @ \ {s}]]
      BY <1>13 DEF FireFails, Drop
    <2>3. tick' \in [Replicas -> Tick]  BY <1>8, <2>2
    <2>4. failures' \in [Replicas -> 0 .. MaxFailures]
      BY <1>13, FailureType DEF FireFails
    <2> QED  BY <1>13, <2>1, <2>3, <2>4 DEF FireFails
  <1>14. CASE UNCHANGED schedVars  BY <1>14 DEF schedVars
  <1> QED
    BY <1>1, <1>2, <1>3, <1>4, <1>5, <1>6, <1>7, <1>11, <1>12, <1>13, <1>14 DEF Next

(* Clock, tables, ticks and counts keep their shape, for any number of     *)
(* replicas.                                                               *)
THEOREM SchedulerTypes == Spec => []TypeOK
  BY SchedTypesStart, SchedTypesStay, PTL DEF Spec

-----------------------------------------------------------------------------
(* Aligned replicas.  A schedule is settled in minute m when no reading    *)
(* made from now on finds it due in m.                                     *)
Settled(s, m) == last_run[s] >= m \/ s \in deleted

(* The reading of p finds s due in m; p has fired s in m, not yet marked.  *)
Ready(p, s, m) == s \in tick[p].todo /\ tick[p].now = m /\ tick[p].seen[s] # m

Marking(p, s, m) == s \in tick[p].current /\ tick[p].now = m

(* Until s is settled in m, a replica has had its run if it is about to    *)
(* mark it; from then on every replica has that will fire it no more.  All *)
(* other runs are paid for by a failure of the replica.                    *)
Spent(p, s, m) == IF Settled(s, m) THEN ~ Ready(p, s, m) ELSE Marking(p, s, m)

Counts(p, s, m) ==
    /\ created[p][s][m] <= failures[p] + (IF Spent(p, s, m) THEN 1 ELSE 0)
    /\ m \notin Fires(s) => created[p][s][m] = 0

(* A tick works in its own minute, which is not over for the marks.        *)
InOrder(p) ==
    tick[p].pc # "idle" => /\ tick[p].now \in Minutes /\ tick[p].now <= clock
                           /\ \A s \in Schedules : last_run[s] <= tick[p].now

Orderly(p) ==
    /\ tick[p].pc \in {"idle", "list"} => tick[p].todo = {}
    /\ tick[p].pc # "mark" => tick[p].current = {}
    /\ tick[p].current \cap tick[p].todo = {}

Tidy == TypeOK /\ \A p \in Replicas : Orderly(p)

AlignedInv ==
    /\ Tidy
    /\ SameMinute
    /\ \A s \in Schedules : last_run[s] <= clock
    /\ \A p \in Replicas : InOrder(p)
    /\ \A p \in Replicas, s \in Schedules, m \in Minutes : Counts(p, s, m)

LEMMA AlignedStarts == Init => AlignedInv
  <1> SUFFICES ASSUME Init PROVE AlignedInv  OBVIOUS
  <1>1. TypeOK  BY SchedTypesStart
  <1>2. clock = 1 /\ \A s \in Schedules : last_run[s] = 0
    BY DEF Init, Unread, Never
  <1>3. \A p \in Replicas : tick[p].pc = "idle" /\ tick[p].current = {} /\ tick[p].todo = {}
    BY DEF Init, Waiting
  <1>4. ASSUME NEW p \in Replicas, NEW s \in Schedules, NEW m \in Minutes
        PROVE  Counts(p, s, m)
    <2>1. created[p][s][m] = 0 /\ failures[p] = 0  BY DEF Init
    <2> QED  BY <2>1 DEF Counts
  <1>5. SameMinute /\ \A p \in Replicas : InOrder(p)  BY <1>3 DEF SameMinute, InOrder
  <1>6. \A p \in Replicas : Orderly(p)  BY <1>3 DEF Orderly
  <1> QED  BY <1>1, <1>2, <1>4, <1>5, <1>6 DEF AlignedInv, Tidy

(* The tick of a replica after each of its actions, field by field.        *)
LEMMA TickFields ==
    ASSUME TypeOK, NEW p \in Replicas
    PROVE  /\ tick[p] \in Tick
           /\ StartTick(p) =>
                 /\ tick'[p].pc = "list" /\ tick'[p].now = clock
                 /\ tick'[p].todo = tick[p].todo /\ tick'[p].current = tick[p].current
           /\ ListSchedules(p) =>
                 /\ tick'[p].pc = "loop" /\ tick'[p].now = tick[p].now
                 /\ tick'[p].todo = Schedules \ deleted
                 /\ tick'[p].seen = last_run /\ tick'[p].current = tick[p].current
           /\ \A s \in Schedules : Drop(p, s) =>
                 /\ tick'[p].pc = tick[p].pc /\ tick'[p].now = tick[p].now
                 /\ tick'[p].todo = tick[p].todo \ {s}
                 /\ tick'[p].seen = tick[p].seen /\ tick'[p].current = tick[p].current
           /\ \A s \in Schedules : Fire(p, s) =>
                 /\ tick'[p].pc = "mark" /\ tick'[p].now = tick[p].now
                 /\ tick'[p].todo = tick[p].todo \ {s}
                 /\ tick'[p].seen = tick[p].seen /\ tick'[p].current = {s}
           /\ Mark(p) =>
                 /\ tick'[p].pc = "loop" /\ tick'[p].now = tick[p].now
                 /\ tick'[p].todo = tick[p].todo
                 /\ tick'[p].seen = tick[p].seen /\ tick'[p].current = {}
           /\ EndTick(p) \/ Abort(p) =>
                 /\ tick'[p].pc = "idle" /\ tick'[p].todo = {} /\ tick'[p].current = {}
  <1>1. tick[p] \in Tick /\ tick \in [Replicas -> Tick]  BY DEF TypeOK
  <1>2. ASSUME NEW t, tick' = [tick EXCEPT ![p] = t] PROVE tick'[p] = t
    BY <1>1, <1>2
  <1>3. ASSUME StartTick(p)
        PROVE  tick'[p] = [tick[p] EXCEPT !.pc = "list", !.now = clock]
    BY <1>1, <1>3 DEF StartTick
  <1>4. ASSUME ListSchedules(p)
        PROVE  tick'[p] = [tick[p] EXCEPT !.pc = "loop", !.todo = Schedules \ deleted,
                                          !.seen = last_run]
    BY <1>1, <1>4 DEF ListSchedules
  <1>5. ASSUME NEW s \in Schedules, Drop(p, s)
        PROVE  tick'[p] = [tick[p] EXCEPT !.todo = tick[p].todo \ {s}]
    BY <1>1, <1>5 DEF Drop
  <1>6. ASSUME NEW s \in Schedules, Fire(p, s)
        PROVE  tick'[p] = [tick[p] EXCEPT !.pc = "mark", !.todo = tick[p].todo \ {s},
                                          !.current = {s}]
    BY <1>1, <1>6 DEF Fire
  <1>7. ASSUME Mark(p) PROVE tick'[p] = [tick[p] EXCEPT !.pc = "loop", !.current = {}]
    BY <1>1, <1>7 DEF Mark
  <1>8. ASSUME EndTick(p) \/ Abort(p) PROVE tick'[p] = Waiting
    BY <1>2, <1>8 DEF EndTick, Abort
  <1>9. Waiting.pc = "idle" /\ Waiting.todo = {} /\ Waiting.current = {}  BY DEF Waiting
  <1>10. StartTick(p) =>
           /\ tick'[p].pc = "list" /\ tick'[p].now = clock
           /\ tick'[p].todo = tick[p].todo /\ tick'[p].current = tick[p].current
    BY <1>1, <1>3 DEF Tick
  <1>11. ListSchedules(p) =>
           /\ tick'[p].pc = "loop" /\ tick'[p].now = tick[p].now
           /\ tick'[p].todo = Schedules \ deleted
           /\ tick'[p].seen = last_run /\ tick'[p].current = tick[p].current
    BY <1>1, <1>4 DEF Tick
  <1>12. ASSUME NEW s \in Schedules, Drop(p, s)
         PROVE  /\ tick'[p].pc = tick[p].pc /\ tick'[p].now = tick[p].now
                /\ tick'[p].todo = tick[p].todo \ {s}
                /\ tick'[p].seen = tick[p].seen /\ tick'[p].current = tick[p].current
    BY <1>1, <1>5, <1>12 DEF Tick
  <1>13. ASSUME NEW s \in Schedules, Fire(p, s)
         PROVE  /\ tick'[p].pc = "mark" /\ tick'[p].now = tick[p].now
                /\ tick'[p].todo = tick[p].todo \ {s}
                /\ tick'[p].seen = tick[p].seen /\ tick'[p].current = {s}
    BY <1>1, <1>6, <1>13 DEF Tick
  <1>14. Mark(p) =>
           /\ tick'[p].pc = "loop" /\ tick'[p].now = tick[p].now
           /\ tick'[p].todo = tick[p].todo
           /\ tick'[p].seen = tick[p].seen /\ tick'[p].current = {}
    BY <1>1, <1>7 DEF Tick
  <1> QED  BY <1>1, <1>8, <1>9, <1>10, <1>11, <1>12, <1>13, <1>14

(* A replica that does nothing.                                            *)
Rests(q) == tick'[q] = tick[q] /\ created'[q] = created[q] /\ failures'[q] = failures[q]

TickStep(p) ==
    \/ StartTick(p) \/ ListSchedules(p) \/ Mark(p) \/ EndTick(p) \/ Abort(p)
    \/ \E s \in Schedules : Skip(p, s) \/ Fire(p, s) \/ FireFails(p, s)

(* What every step of one ticker has in common: the others rest, the clock *)
(* and the deletions stay.                                                 *)
LEMMA TickStepFacts ==
    ASSUME TypeOK, NEW p \in Replicas, TickStep(p)
    PROVE  /\ UNCHANGED <<clock, deleted>>
           /\ ~ Mark(p) => UNCHANGED last_run
           /\ \A q \in Replicas : q # p => Rests(q)
  <1>1. UNCHANGED <<clock, deleted>> /\ (~ Mark(p) => UNCHANGED last_run)
    BY DEF TickStep, StartTick, ListSchedules, Mark, EndTick, Abort, Skip, Fire, FireFails
  <1>2. /\ tick \in [Replicas -> Tick] /\ failures \in [Replicas -> 0 .. MaxFailures]
        /\ created \in [Replicas -> Tally]
    BY DEF TypeOK
  <1>3. ASSUME NEW q \in Replicas, q # p PROVE Rests(q)
    <2>1. CASE StartTick(p) \/ ListSchedules(p)
      BY <1>2, <1>3, <2>1 DEF StartTick, ListSchedules, Rests
    <2>2. CASE Mark(p) \/ EndTick(p) \/ Abort(p)
      BY <1>2, <1>3, <2>2 DEF Mark, EndTick, Abort, Failure, Rests
    <2>3. ASSUME NEW s \in Schedules, Skip(p, s) PROVE Rests(q)
      BY <1>2, <1>3, <2>3 DEF Skip, Drop, Rests
    <2>4. ASSUME NEW s \in Schedules, Fire(p, s) PROVE Rests(q)
      <3>1. created'[q] = created[q]  BY <1>2, <1>3, <2>4 DEF Fire
      <3> QED  BY <1>2, <1>3, <2>4, <3>1 DEF Fire, Rests
    <2>5. ASSUME NEW s \in Schedules, FireFails(p, s) PROVE Rests(q)
      <3>1. created'[q] = created[q]  BY <1>2, <1>3, <2>5 DEF FireFails
      <3> QED  BY <1>2, <1>3, <2>5, <3>1 DEF FireFails, Failure, Drop, Rests
    <2> QED  BY <2>1, <2>2, <2>3, <2>4, <2>5 DEF TickStep
  <1> QED  BY <1>1, <1>3

(* The shape of ticks needs no premise.                                    *)
LEMMA TidyStays == Tidy /\ [Next]_schedVars => Tidy'
  <1> SUFFICES ASSUME Tidy, [Next]_schedVars PROVE Tidy'  OBVIOUS
  <1>1. TypeOK /\ TypeOK'  BY SchedTypesStay DEF Tidy
  <1>2. ASSUME NEW p \in Replicas, TickStep(p) PROVE Orderly(p)'
    <2>1. Orderly(p)  BY DEF Tidy
    <2>2. CASE StartTick(p)
      BY <1>1, <2>1, <2>2, TickFields DEF StartTick, Orderly
    <2>3. CASE ListSchedules(p)
      BY <1>1, <2>1, <2>3, TickFields DEF ListSchedules, Orderly
    <2>4. CASE Mark(p)
      BY <1>1, <2>1, <2>4, TickFields DEF Mark, Orderly
    <2>5. CASE EndTick(p) \/ Abort(p)
      BY <1>1, <2>1, <2>5, TickFields DEF Orderly
    <2>6. ASSUME NEW s \in Schedules, Skip(p, s) \/ FireFails(p, s) PROVE Orderly(p)'
      BY <1>1, <2>1, <2>6, TickFields DEF Skip, FireFails, Orderly
    <2>7. ASSUME NEW s \in Schedules, Fire(p, s) PROVE Orderly(p)'
      BY <1>1, <2>1, <2>7, TickFields DEF Fire, Orderly
    <2> QED  BY <1>2, <2>2, <2>3, <2>4, <2>5, <2>6, <2>7 DEF TickStep
  <1>3. ASSUME NEW q \in Replicas PROVE Orderly(q)'
    <2>1. CASE \E p \in Replicas : TickStep(p)
      <3>1. PICK p \in Replicas : TickStep(p)  BY <2>1
      <3>2. CASE q = p  BY <1>2, <3>1, <3>2
      <3>3. CASE q # p  BY <1>1, <3>1, <3>3, TickStepFacts DEF Tidy, Rests, Orderly
      <3> QED  BY <3>2, <3>3
    <2>2. CASE ~ \E p \in Replicas : TickStep(p)
      <3>1. UNCHANGED tick
        BY <2>2 DEF Next, TickStep, MinutePasses, DeleteSchedule, DeleteWorkflow,
           UpdateWorkflow, schedVars
      <3> QED  BY <3>1 DEF Tidy, Orderly
    <2> QED  BY <2>1, <2>2
  <1> QED  BY <1>1, <1>3 DEF Tidy

LEMMA TidyInvariant == Spec => []Tidy
  <1>1. Init => Tidy  BY AlignedStarts DEF AlignedInv
  <1> QED  BY <1>1, TidyStays, PTL DEF Spec

LEMMA AlignedTypes ==
    ASSUME TypeOK
    PROVE  /\ clock \in Nat /\ clock \in Minutes /\ \A p \in Replicas : failures[p] \in Nat
           /\ \A s \in Schedules : last_run[s] \in Nat
           /\ \A m \in Minutes : m \in Nat
           /\ \A p \in Replicas, s \in Schedules, m \in Minutes : created[p][s][m] \in Nat
           /\ \A p \in Replicas : /\ tick[p].todo \subseteq Schedules
                                  /\ tick[p].current \subseteq Schedules
                                  /\ tick[p].now \in Nat
  <1>1. Minutes \subseteq Nat /\ Never \in Nat  BY DEF Minutes, Never
  <1>2. clock \in Minutes /\ \A s \in Schedules : last_run[s] \in Nat
    BY <1>1 DEF TypeOK
  <1>6. \A p \in Replicas : failures[p] \in Nat  BY BoundsAssumption DEF TypeOK
  <1>3. \A p \in Replicas, s \in Schedules, m \in Minutes : created[p][s][m] \in Nat
    BY DEF TypeOK, Tally
  <1>4. \A p \in Replicas : tick[p] \in Tick  BY DEF TypeOK
  <1>5. \A p \in Replicas : /\ tick[p].todo \subseteq Schedules
                            /\ tick[p].current \subseteq Schedules /\ tick[p].now \in Nat
    BY <1>1, <1>4 DEF Tick
  <1> QED  BY <1>1, <1>2, <1>3, <1>5, <1>6

(* What keeps a count: the replica has neither created nor failed, and if  *)
(* it has had its run, it still has.                                       *)
Kept(p, s, m) ==
    /\ created'[p][s][m] = created[p][s][m] /\ failures'[p] = failures[p]
    /\ Spent(p, s, m) => Spent(p, s, m)'

LEMMA CountsKept ==
    ASSUME TypeOK, NEW p \in Replicas, NEW s \in Schedules, NEW m \in Minutes,
           Counts(p, s, m), Kept(p, s, m)
    PROVE  Counts(p, s, m)'
  <1>1. failures[p] \in Nat /\ created[p][s][m] \in Nat  BY BoundsAssumption DEF TypeOK, Tally
  <1>2. CASE Spent(p, s, m)  BY <1>1, <1>2 DEF Counts, Kept
  <1>3. CASE ~ Spent(p, s, m)
    <2>1. created[p][s][m] <= failures[p]  BY <1>1, <1>3 DEF Counts
    <2>2. created'[p][s][m] <= failures'[p] /\ failures'[p] \in Nat
      BY <1>1, <2>1 DEF Kept
    <2>3. created'[p][s][m] <= failures'[p] + (IF Spent(p, s, m)' THEN 1 ELSE 0)
      BY <1>1, <2>2 DEF Kept
    <2> QED  BY <2>3 DEF Counts, Kept
  <1> QED  BY <1>2, <1>3

(* A replica that rests keeps its count while minutes stay settled.        *)
LEMMA RestCounts ==
    ASSUME Tidy, NEW q \in Replicas, NEW s \in Schedules, NEW m \in Minutes,
           Counts(q, s, m), tick'[q] = tick[q], created'[q] = created[q],
           failures'[q] = failures[q], Settled(s, m) => Settled(s, m)'
    PROVE  Counts(q, s, m)'
  <1>1. (Ready(q, s, m)' <=> Ready(q, s, m)) /\ (Marking(q, s, m)' <=> Marking(q, s, m))
    BY DEF Ready, Marking
  <1>2. ~ (Ready(q, s, m) /\ Marking(q, s, m))
    BY DEF Tidy, Orderly, Ready, Marking
  <1>3. Kept(q, s, m)
    BY <1>1, <1>2 DEF Kept, Spent
  <1> QED  BY <1>3, CountsKept DEF Tidy

(* The matcher answers what the expression lists.                          *)
LEMMA FiresAsListed ==
    ASSUME Expression \in [Schedules -> Seq(SUBSET Part)],
           TimeOf \in [Minutes -> [1 .. 5 -> FieldValues]]
    PROVE  \A s \in Schedules, m \in Minutes : m \in Fires(s) <=> m \in Listed[s]
  BY MatcherExact DEF Fires, Listed

LEMMA DueIsReady ==
    ASSUME AlignedInv, NEW p \in Replicas, NEW s \in Schedules, s \in tick[p].todo, Due(p, s)
    PROVE  /\ tick[p].now \in Minutes /\ tick[p].now \in Fires(s)
           /\ Ready(p, s, tick[p].now)
  BY DEF Due, Fires, Ready

(* The world around the tickers.                                           *)
LEMMA WorldStep ==
    ASSUME AlignedInv, Tidy', SameMinute',
           \/ MinutePasses
           \/ \E s \in Schedules : DeleteSchedule(s) \/ DeleteWorkflow(s) \/ UpdateWorkflow(s)
           \/ UNCHANGED schedVars
    PROVE  AlignedInv'
  <1>1. /\ clock <= clock' /\ clock' \in Nat /\ deleted \subseteq deleted'
        /\ UNCHANGED <<last_run, tick, created, failures>>
    BY AlignedTypes DEF AlignedInv, Tidy, MinutePasses, DeleteSchedule, DeleteWorkflow,
       UpdateWorkflow, schedVars
  <1>2. \A s \in Schedules : last_run'[s] <= clock'
    BY <1>1, AlignedTypes DEF AlignedInv, Tidy
  <1>3. \A p \in Replicas : InOrder(p)'
    BY <1>1, AlignedTypes DEF AlignedInv, Tidy, InOrder
  <1>4. ASSUME NEW p \in Replicas, NEW s \in Schedules, NEW m \in Minutes
        PROVE  Counts(p, s, m)'
    <2>1. Settled(s, m) => Settled(s, m)'  BY <1>1 DEF Settled
    <2> QED  BY <1>1, <2>1, RestCounts DEF AlignedInv
  <1> QED  BY <1>2, <1>3, <1>4 DEF AlignedInv

(* After the step of a ticker that writes no mark the invariant holds if   *)
(* it does of that ticker.                                                 *)
LEMMA StepOf ==
    ASSUME AlignedInv, Tidy', SameMinute', NEW p \in Replicas, TickStep(p), ~ Mark(p),
           InOrder(p)', \A s \in Schedules, m \in Minutes : Counts(p, s, m)'
    PROVE  AlignedInv'
  <1>1. /\ UNCHANGED <<clock, last_run, deleted>>
        /\ \A q \in Replicas : q # p => Rests(q)
    BY TickStepFacts DEF AlignedInv, Tidy
  <1>2. ASSUME NEW q \in Replicas PROVE InOrder(q)'
    <2>1. CASE q = p  BY <2>1
    <2>2. CASE q # p  BY <1>1, <2>2 DEF AlignedInv, InOrder, Rests
    <2> QED  BY <2>1, <2>2
  <1>3. ASSUME NEW q \in Replicas, NEW s \in Schedules, NEW m \in Minutes
        PROVE  Counts(q, s, m)'
    <2>1. CASE q = p  BY <2>1
    <2>2. CASE q # p
      <3>1. Settled(s, m) => Settled(s, m)'  BY <1>1 DEF Settled
      <3> QED  BY <1>1, <2>2, <3>1, RestCounts DEF AlignedInv, Rests
    <2> QED  BY <2>1, <2>2
  <1> QED  BY <1>1, <1>2, <1>3 DEF AlignedInv

(* Beginning and ending a tick, and passing over a schedule.               *)
LEMMA PassiveStep ==
    ASSUME AlignedInv, Tidy', SameMinute', NEW p \in Replicas,
           \/ StartTick(p) \/ ListSchedules(p) \/ EndTick(p)
           \/ \E s \in Schedules : Skip(p, s)
    PROVE  AlignedInv'
  <1>0. TickStep(p) /\ TypeOK /\ Orderly(p) /\ InOrder(p)
    BY DEF TickStep, AlignedInv, Tidy
  <1>1. ~ Mark(p) /\ UNCHANGED <<clock, last_run, deleted, created, failures>>
    BY DEF StartTick, ListSchedules, EndTick, Skip, Mark
  <1>2. \A s \in Schedules, m \in Minutes : Settled(s, m)' <=> Settled(s, m)
    BY <1>1 DEF Settled
  <1>3. SUFFICES InOrder(p)' /\ \A s \in Schedules, m \in Minutes :
                                    Spent(p, s, m) => Spent(p, s, m)'
    <2> SUFFICES ASSUME NEW s \in Schedules, NEW m \in Minutes,
                        Spent(p, s, m) => Spent(p, s, m)'
                 PROVE  Counts(p, s, m)'
      BY <1>0, <1>1, StepOf
    <2> QED  BY <1>0, <1>1, CountsKept DEF AlignedInv, Kept
  <1>4. CASE StartTick(p)
    <2>1. /\ tick'[p].pc = "list" /\ tick'[p].now = clock
          /\ tick'[p].todo = {} /\ tick[p].current = {}
      BY <1>0, <1>4, TickFields DEF StartTick, Orderly
    <2>2. InOrder(p)'
      BY <1>0, <1>1, <2>1, AlignedTypes DEF AlignedInv, InOrder
    <2> QED  BY <1>2, <2>1, <2>2 DEF Spent, Ready, Marking
  <1>5. CASE ListSchedules(p)
    <2>1. /\ tick'[p].pc = "loop" /\ tick'[p].now = tick[p].now
          /\ tick'[p].todo = Schedules \ deleted /\ tick'[p].seen = last_run
          /\ tick[p].current = {} /\ tick[p].pc = "list"
      BY <1>0, <1>5, TickFields DEF ListSchedules, Orderly
    <2>2. InOrder(p)'
      BY <1>0, <1>1, <2>1 DEF InOrder
    <2>3. ASSUME NEW s \in Schedules, NEW m \in Minutes, Settled(s, m), Ready(p, s, m)'
          PROVE  FALSE
      <3>1. s \notin deleted /\ tick[p].now = m /\ last_run[s] # m
        BY <2>1, <2>3 DEF Ready
      <3>2. last_run[s] <= m /\ last_run[s] \in Nat /\ m \in Nat
        BY <1>0, <2>1, <3>1, AlignedTypes DEF InOrder
      <3> QED  BY <2>3, <3>1, <3>2 DEF Settled
    <2> QED  BY <1>2, <2>1, <2>2, <2>3 DEF Spent, Marking
  <1>6. CASE EndTick(p)
    <2>1. /\ tick'[p].pc = "idle" /\ tick'[p].todo = {} /\ tick[p].current = {}
      BY <1>0, <1>6, TickFields DEF EndTick, Orderly
    <2>2. InOrder(p)'
      BY <2>1 DEF InOrder
    <2> QED  BY <1>2, <2>1, <2>2 DEF Spent, Ready, Marking
  <1>7. ASSUME NEW x \in Schedules, Skip(p, x)
        PROVE  InOrder(p)' /\ \A s \in Schedules, m \in Minutes :
                                  Spent(p, s, m) => Spent(p, s, m)'
    <2>1. /\ tick'[p].pc = tick[p].pc /\ tick'[p].now = tick[p].now
          /\ tick'[p].todo = tick[p].todo \ {x} /\ tick'[p].seen = tick[p].seen
          /\ tick'[p].current = tick[p].current
      BY <1>0, <1>7, TickFields DEF Skip
    <2>2. InOrder(p)'
      BY <1>0, <1>1, <2>1 DEF InOrder
    <2> QED  BY <1>2, <2>1, <2>2 DEF Spent, Ready, Marking
  <1> QED  BY <1>4, <1>5, <1>6, <1>7

(* A mark settles its schedule; the replicas at work with it work in the   *)
(* same minute, so that it moves no mark back.                             *)
LEMMA MarkStep ==
    ASSUME AlignedInv, Tidy', SameMinute', NEW p \in Replicas, Mark(p)
    PROVE  AlignedInv'
  <1>0. TickStep(p) /\ TypeOK /\ Orderly(p) /\ InOrder(p)
    BY DEF TickStep, AlignedInv, Tidy
  <1>1. /\ tick'[p].pc = "loop" /\ tick[p].pc = "mark" /\ tick'[p].now = tick[p].now
        /\ tick'[p].todo = tick[p].todo /\ tick'[p].seen = tick[p].seen
        /\ tick'[p].current = {}
    BY <1>0, TickFields DEF Mark
  <1>2. /\ UNCHANGED <<clock, deleted, created, failures>>
        /\ \A s \in Schedules : last_run'[s] =
              IF s \in tick[p].current \ deleted THEN tick[p].now ELSE last_run[s]
    BY DEF Mark
  <1>3. \A s \in Schedules : last_run[s] <= last_run'[s] /\ last_run'[s] <= tick[p].now
    BY <1>0, <1>1, <1>2, AlignedTypes DEF InOrder
  <1>4. \A q \in Replicas : q # p => Rests(q)
    BY <1>0, TickStepFacts DEF AlignedInv
  <1>5. ASSUME NEW q \in Replicas PROVE InOrder(q)'
    <2>1. CASE q = p  BY <1>0, <1>1, <1>2, <1>3, <2>1 DEF InOrder
    <2>2. CASE q # p
      <3>1. tick'[q] = tick[q] /\ InOrder(q)
        BY <1>4, <2>2 DEF AlignedInv, Rests
      <3>2. tick[q].pc # "idle" => tick[q].now = tick[p].now
        BY <1>1 DEF AlignedInv, SameMinute
      <3> QED  BY <1>2, <1>3, <3>1, <3>2 DEF InOrder
    <2> QED  BY <2>1, <2>2
  <1>6. \A s \in Schedules : last_run'[s] <= clock'
    BY <1>0, <1>1, <1>2, AlignedTypes DEF AlignedInv, InOrder
  <1>7. ASSUME NEW s \in Schedules, NEW m \in Minutes, Settled(s, m)
        PROVE  Settled(s, m)'
    <2>1. last_run[s] \in Nat /\ last_run'[s] \in Nat /\ m \in Nat
      BY <1>0, <1>2, AlignedTypes
    <2> QED  BY <1>2, <1>3, <1>7, <2>1 DEF Settled
  <1>8. ASSUME NEW s \in Schedules, NEW m \in Minutes, Spent(p, s, m)
        PROVE  Spent(p, s, m)'
    <2>1. CASE Settled(s, m)
      BY <1>1, <1>7, <1>8, <2>1 DEF Spent, Ready
    <2>2. CASE ~ Settled(s, m)
      <3>1. s \in tick[p].current /\ tick[p].now = m
        BY <1>8, <2>2 DEF Spent, Marking
      <3>2. s \notin deleted  BY <2>2 DEF Settled
      <3>3. last_run'[s] = m /\ m \in Nat  BY <1>0, <1>2, <3>1, <3>2, AlignedTypes
      <3>4. Settled(s, m)'  BY <3>3 DEF Settled
      <3>5. s \notin tick[p].todo  BY <1>0, <3>1 DEF Orderly
      <3> QED  BY <1>1, <3>4, <3>5 DEF Spent, Ready
    <2> QED  BY <2>1, <2>2
  <1>9. ASSUME NEW q \in Replicas, NEW s \in Schedules, NEW m \in Minutes
        PROVE  Counts(q, s, m)'
    <2>1. CASE q = p  BY <1>0, <1>2, <1>8, <2>1, CountsKept DEF AlignedInv, Kept
    <2>2. CASE q # p  BY <1>4, <1>7, <2>2, RestCounts DEF AlignedInv, Rests
    <2> QED  BY <2>1, <2>2
  <1> QED  BY <1>5, <1>6, <1>9 DEF AlignedInv

LEMMA OneMore ==
    ASSUME TypeOK, NEW p \in Replicas, NEW s \in Schedules, NEW n \in Minutes,
           \/ UNCHANGED created
           \/ created' = [created EXCEPT ![p][s][n] = @ + 1]
    PROVE  \A x \in Schedules, m \in Minutes :
              /\ created[p][x][m] \in Nat /\ created'[p][x][m] \in Nat
              /\ created'[p][x][m] <= created[p][x][m] + 1
              /\ x # s \/ m # n => created'[p][x][m] = created[p][x][m]
  <1>1. created \in [Replicas -> Tally]  BY DEF TypeOK
  <1>2. created[p] \in [Schedules -> [Minutes -> Nat]]  BY <1>1 DEF Tally
  <1>3. \A x \in Schedules, m \in Minutes : created[p][x][m] \in Nat  BY <1>2
  <1>4. CASE UNCHANGED created  BY <1>3, <1>4
  <1>5. CASE created' = [created EXCEPT ![p][s][n] = @ + 1]
    <2>1. created'[p] = [created[p] EXCEPT ![s][n] = @ + 1]  BY <1>1, <1>5
    <2>2. \A x \in Schedules, m \in Minutes :
             created'[p][x][m] = IF x = s /\ m = n THEN created[p][x][m] + 1
                                                   ELSE created[p][x][m]
      BY <1>2, <2>1
    <2> QED  BY <1>3, <2>2
  <1> QED  BY <1>4, <1>5

(* The replica that fires was ready and is to mark from then on: it has    *)
(* not had its run, and it has after.                                      *)
LEMMA FireStep ==
    ASSUME AlignedInv, Tidy', SameMinute', NEW p \in Replicas, NEW s \in Schedules,
           Fire(p, s)
    PROVE  AlignedInv'
  <1>0. TickStep(p) /\ TypeOK /\ Orderly(p) /\ InOrder(p)
    BY DEF TickStep, AlignedInv, Tidy
  <1>1. /\ tick'[p].pc = "mark" /\ tick[p].pc = "loop" /\ tick'[p].now = tick[p].now
        /\ tick'[p].todo = tick[p].todo \ {s} /\ tick'[p].seen = tick[p].seen
        /\ tick'[p].current = {s} /\ tick[p].current = {}
    BY <1>0, TickFields DEF Fire, Orderly
  <1>2. /\ UNCHANGED <<clock, last_run, deleted, failures>> /\ ~ Mark(p)
        /\ \/ UNCHANGED created
           \/ created' = [created EXCEPT ![p][s][tick[p].now] = @ + 1]
    BY DEF Fire, Mark
  <1>3. /\ tick[p].now \in Minutes /\ tick[p].now \in Fires(s)
        /\ Ready(p, s, tick[p].now)
    BY DueIsReady DEF Fire
  <1>4. InOrder(p)'
    BY <1>0, <1>1, <1>2 DEF InOrder
  <1>5. ASSUME NEW x \in Schedules, NEW m \in Minutes PROVE Counts(p, x, m)'
    <2>1. /\ created[p][x][m] \in Nat /\ created'[p][x][m] \in Nat
          /\ created'[p][x][m] <= created[p][x][m] + 1
          /\ x # s \/ m # tick[p].now => created'[p][x][m] = created[p][x][m]
      BY <1>0, <1>2, <1>3, OneMore
    <2>2. Counts(p, x, m) /\ failures[p] \in Nat /\ failures'[p] = failures[p]
      BY <1>0, <1>2, AlignedTypes DEF AlignedInv
    <2>3. Settled(x, m)' <=> Settled(x, m)  BY <1>2 DEF Settled
    <2>4. Spent(p, x, m) => Spent(p, x, m)'
      BY <1>1, <2>3 DEF Spent, Ready, Marking
    <2>5. CASE x = s /\ m = tick[p].now
      <3>1. ~ Spent(p, x, m)  BY <1>1, <1>3, <2>5 DEF Spent, Marking
      <3>2. Spent(p, x, m)'
        BY <1>1, <2>5 DEF Spent, Ready, Marking
      <3>3. created'[p][x][m] <= failures[p] + 1
        BY <2>1, <2>2, <3>1 DEF Counts
      <3> QED  BY <1>3, <2>2, <2>5, <3>2, <3>3 DEF Counts
    <2>6. CASE ~ (x = s /\ m = tick[p].now)
      BY <1>0, <2>1, <2>2, <2>4, <2>6, CountsKept DEF Kept
    <2> QED  BY <2>5, <2>6
  <1> QED  BY <1>0, <1>2, <1>4, <1>5, StepOf

(* A failure pays for the run that it may leave behind unmarked.           *)
LEMMA Paid ==
    ASSUME TypeOK, NEW p \in Replicas, NEW s \in Schedules, NEW m \in Minutes,
           Counts(p, s, m), Failure(p), created'[p][s][m] \in Nat,
           \/ created'[p][s][m] = created[p][s][m]
           \/ /\ created'[p][s][m] <= created[p][s][m] + 1
              /\ Spent(p, s, m) => Spent(p, s, m)',
           m \notin Fires(s) => created'[p][s][m] = 0
    PROVE  Counts(p, s, m)'
  <1>1. failures[p] \in Nat /\ created[p][s][m] \in Nat  BY AlignedTypes
  <1>2. failures'[p] = failures[p] + 1  BY DEF Failure, TypeOK
  <1>3. created[p][s][m] <= failures[p] + (IF Spent(p, s, m) THEN 1 ELSE 0)
    BY DEF Counts
  <1>4. created'[p][s][m] <= failures'[p] + (IF Spent(p, s, m)' THEN 1 ELSE 0)
    <2>1. CASE created'[p][s][m] = created[p][s][m]
      <3>1. created'[p][s][m] <= failures[p] + 1  BY <1>1, <1>3, <2>1
      <3> QED  BY <1>1, <1>2, <3>1
    <2>2. CASE /\ created'[p][s][m] <= created[p][s][m] + 1
               /\ Spent(p, s, m) => Spent(p, s, m)'
      <3>1. CASE Spent(p, s, m)  BY <1>1, <1>2, <1>3, <2>2, <3>1
      <3>2. CASE ~ Spent(p, s, m)
        <4>1. created'[p][s][m] <= failures'[p]  BY <1>1, <1>2, <1>3, <2>2, <3>2
        <4> QED  BY <1>1, <1>2, <4>1
      <3> QED  BY <3>1, <3>2
    <2> QED  BY <2>1, <2>2
  <1> QED  BY <1>4 DEF Counts

LEMMA FailedFireStep ==
    ASSUME AlignedInv, Tidy', SameMinute', NEW p \in Replicas, NEW s \in Schedules,
           FireFails(p, s)
    PROVE  AlignedInv'
  <1>0. TickStep(p) /\ TypeOK /\ Orderly(p) /\ InOrder(p)
    BY DEF TickStep, AlignedInv, Tidy
  <1>1. /\ tick'[p].pc = "loop" /\ tick[p].pc = "loop" /\ tick'[p].now = tick[p].now
        /\ tick'[p].todo = tick[p].todo \ {s} /\ tick'[p].seen = tick[p].seen
        /\ tick'[p].current = tick[p].current
    BY <1>0, TickFields DEF FireFails
  <1>2. /\ UNCHANGED <<clock, last_run, deleted>> /\ ~ Mark(p) /\ Failure(p)
        /\ \/ UNCHANGED created
           \/ created' = [created EXCEPT ![p][s][tick[p].now] = @ + 1]
    BY DEF FireFails, Mark
  <1>3. tick[p].now \in Minutes /\ tick[p].now \in Fires(s)
    BY DueIsReady DEF FireFails
  <1>4. InOrder(p)'
    BY <1>0, <1>1, <1>2 DEF InOrder
  <1>5. ASSUME NEW x \in Schedules, NEW m \in Minutes PROVE Counts(p, x, m)'
    <2>1. /\ created[p][x][m] \in Nat /\ created'[p][x][m] \in Nat
          /\ created'[p][x][m] <= created[p][x][m] + 1
          /\ x # s \/ m # tick[p].now => created'[p][x][m] = created[p][x][m]
      BY <1>0, <1>2, <1>3, OneMore
    <2>2. Counts(p, x, m)  BY DEF AlignedInv
    <2>3. Spent(p, x, m) => Spent(p, x, m)'
      BY <1>1, <1>2 DEF Spent, Settled, Ready, Marking
    <2>4. m \notin Fires(x) => created'[p][x][m] = 0
      BY <1>3, <2>1, <2>2 DEF Counts
    <2> QED  BY <1>0, <1>2, <2>1, <2>2, <2>3, <2>4, Paid
  <1> QED  BY <1>0, <1>2, <1>4, <1>5, StepOf

(* A tick cut short loses at most its own mark.                            *)
LEMMA AbortStep ==
    ASSUME AlignedInv, Tidy', SameMinute', NEW p \in Replicas, Abort(p)
    PROVE  AlignedInv'
  <1>0. TickStep(p) /\ TypeOK  BY DEF TickStep, AlignedInv, Tidy
  <1>1. tick'[p].pc = "idle"
    BY <1>0, TickFields DEF Abort
  <1>2. UNCHANGED <<last_run, deleted, created>> /\ ~ Mark(p) /\ Failure(p)
    BY <1>0, <1>1, TickFields DEF Abort
  <1>3. InOrder(p)'  BY <1>1 DEF InOrder
  <1>4. ASSUME NEW s \in Schedules, NEW m \in Minutes PROVE Counts(p, s, m)'
    <2>1. Counts(p, s, m) /\ created[p][s][m] \in Nat /\ created'[p][s][m] = created[p][s][m]
      BY <1>0, <1>2, AlignedTypes DEF AlignedInv
    <2>2. m \notin Fires(s) => created'[p][s][m] = 0  BY <2>1 DEF Counts
    <2> QED  BY <1>0, <1>2, <2>1, <2>2, Paid
  <1> QED  BY <1>0, <1>2, <1>3, <1>4, StepOf

LEMMA AlignedStays ==
    ASSUME AlignedInv, [Next /\ SameMinute']_schedVars
    PROVE  AlignedInv'
  <1>1. Tidy' /\ SameMinute'
    <2>1. Tidy'  BY TidyStays DEF AlignedInv
    <2>2. SameMinute'  BY DEF AlignedInv, SameMinute, schedVars
    <2> QED  BY <2>1, <2>2
  <1> QED  BY <1>1, WorldStep, PassiveStep, MarkStep, FireStep, FailedFireStep, AbortStep
           DEF Next

LEMMA AlignedInvariant == AlignedSpec => []AlignedInv
  BY AlignedStarts, AlignedStays, PTL DEF AlignedSpec

-----------------------------------------------------------------------------

(* However many replicas tick at the same time, on readings that the others*)
(* outdate: no replica creates a run in a minute that the expression does  *)
(* not list, nor two in one minute but for a failure of its own            *)
(* (scheduler.rs:2-3, 21-40).                                              *)
THEOREM RepeatsAreFailures ==
    ASSUME Expression \in [Schedules -> Seq(SUBSET Part)],
           TimeOf \in [Minutes -> [1 .. 5 -> FieldValues]]
    PROVE  AlignedSpec => []OncePerReplica
  <1>1. AlignedInv => OncePerReplica
    <2> SUFFICES ASSUME AlignedInv, NEW p \in Replicas, NEW s \in Schedules, NEW m \in Minutes
                 PROVE  created[p][s][m] <= IF m \in Listed[s] THEN 1 + failures[p] ELSE 0
      BY DEF OncePerReplica
    <2>1. failures[p] \in Nat /\ created[p][s][m] \in Nat /\ Counts(p, s, m)
      BY AlignedTypes DEF AlignedInv, Tidy
    <2>2. created[p][s][m] <= 1 + failures[p]  BY <2>1 DEF Counts
    <2>3. m \notin Listed[s] => created[p][s][m] = 0
      BY <2>1, FiresAsListed DEF Counts
    <2> QED  BY <2>1, <2>2, <2>3
  <1> QED  BY <1>1, AlignedInvariant, PTL

(* A single replica needs no premise on time: it creates no two runs of a  *)
(* schedule in one minute but for its failures, however long its ticks     *)
(* take and wherever in a minute they begin.                               *)
THEOREM AloneOncePerMinute ==
    ASSUME NEW p, Replicas = {p},
           Expression \in [Schedules -> Seq(SUBSET Part)],
           TimeOf \in [Minutes -> [1 .. 5 -> FieldValues]]
    PROVE  Spec => []OncePerReplica
  <1>1. SameMinute'  BY DEF SameMinute
  <1>2. [Next]_schedVars => [Next /\ SameMinute']_schedVars  BY <1>1
  <1>3. AlignedSpec => []OncePerReplica  BY RepeatsAreFailures
  <1> QED  BY <1>2, <1>3, PTL DEF Spec, AlignedSpec

(* Replicas at work in the same minute never move a schedule's mark back,  *)
(* whichever of them writes last (scheduler.rs:37).                        *)
THEOREM MarksAdvance == AlignedSpec => LastRunAdvances
  <1>1. ASSUME AlignedInv, [Next /\ SameMinute']_schedVars
        PROVE  [\A s \in Schedules : last_run'[s] >= last_run[s]]_schedVars
    <2>1. \A s \in Schedules : last_run[s] \in Nat
      BY <1>1, AlignedTypes DEF AlignedInv, Tidy
    <2>2. ASSUME NEW p \in Replicas, Mark(p)
          PROVE  \A s \in Schedules : last_run'[s] >= last_run[s]
      <3>1. \A s \in Schedules :
               /\ last_run'[s] = IF s \in tick[p].current \ deleted
                                 THEN tick[p].now ELSE last_run[s]
               /\ last_run[s] <= tick[p].now /\ tick[p].now \in Nat
        BY <1>1, <2>2, AlignedTypes DEF Mark, AlignedInv, Tidy, InOrder
      <3> QED  BY <2>1, <3>1
    <2>3. CASE ~ \E p \in Replicas : Mark(p)
      <3>1. UNCHANGED last_run
        BY <1>1, <2>3 DEF Next, MinutePasses, DeleteSchedule, DeleteWorkflow,
           UpdateWorkflow, StartTick, ListSchedules, EndTick, Abort, Skip, Fire,
           FireFails, schedVars
      <3> QED  BY <2>1, <3>1
    <2> QED  BY <2>2, <2>3
  <1> QED  BY <1>1, AlignedInvariant, PTL DEF AlignedSpec, LastRunAdvances

(* A tick passes over no schedule that its expression lists and that its   *)
(* reading does not show as fired: the matcher misses no minute, and the   *)
(* loop skips nothing (scheduler.rs:1, 25-35; cron.rs:31-63).              *)
THEOREM NothingListedMissed ==
    ASSUME Expression \in [Schedules -> Seq(SUBSET Part)],
           TimeOf \in [Minutes -> [1 .. 5 -> FieldValues]]
    PROVE  Spec => ListedIsFired
  <1>1. ASSUME Tidy, [Next]_schedVars, NEW p \in Replicas, NEW s \in Schedules, NEW m,
               m = tick[p].now, s \in tick[p].todo \ tick'[p].todo,
               m \in Listed[s], tick[p].seen[s] # m, workflow[s] = "enabled"
        PROVE  created'[p][s][m] > created[p][s][m] \/ failures'[p] > failures[p]
    <2>1. TypeOK /\ Orderly(p) /\ m \in Minutes /\ Due(p, s)
      BY <1>1, FiresAsListed DEF Tidy, Due, Listed
    <2>2. PICK q \in Replicas : TickStep(q)
      BY <1>1 DEF Next, TickStep, MinutePasses, DeleteSchedule, DeleteWorkflow,
         UpdateWorkflow, schedVars
    <2>3. q = p
      BY <1>1, <2>1, <2>2, TickStepFacts DEF Rests
    <2>4. CASE StartTick(p)
      BY <1>1, <2>1, <2>4, TickFields
    <2>5. CASE ListSchedules(p) \/ EndTick(p)
      BY <1>1, <2>1, <2>5 DEF ListSchedules, EndTick, Orderly
    <2>6. CASE Mark(p)
      BY <1>1, <2>1, <2>6, TickFields
    <2>7. ASSUME NEW x \in Schedules, Skip(p, x) \/ Fire(p, x) \/ FireFails(p, x)
          PROVE  x = s
      <3>1. tick'[p].todo = tick[p].todo \ {x}
        BY <2>1, <2>7, TickFields DEF Skip, FireFails
      <3> QED  BY <1>1, <3>1
    <2>8. ~ Skip(p, s)
      BY <2>1 DEF Skip
    <2>9. CASE Fire(p, s)
      <3>1. created' = [created EXCEPT ![p][s][m] = @ + 1]
        BY <1>1, <2>9 DEF Fire
      <3>2. created \in [Replicas -> Tally]  BY <2>1 DEF TypeOK
      <3>3. created[p] \in [Schedules -> [Minutes -> Nat]]  BY <3>2 DEF Tally
      <3>4. created[p][s] \in [Minutes -> Nat] /\ created[p][s][m] \in Nat  BY <2>1, <3>3
      <3>5. created'[p][s] = [created[p][s] EXCEPT ![m] = @ + 1]  BY <3>1, <3>2, <3>3
      <3>6. created'[p][s][m] = created[p][s][m] + 1  BY <2>1, <3>4, <3>5
      <3> QED  BY <3>4, <3>6
    <2>10. CASE Failure(p)
      <3>1. failures'[p] = failures[p] + 1 /\ failures[p] \in Nat
        BY <2>1, <2>10, AlignedTypes DEF Failure, TypeOK
      <3> QED  BY <3>1
    <2>11. Abort(p) \/ FireFails(p, s) => Failure(p)
      BY DEF Abort, FireFails
    <2> QED  BY <2>2, <2>3, <2>4, <2>5, <2>6, <2>7, <2>8, <2>9, <2>10, <2>11 DEF TickStep
  <1>2. Tidy /\ [Next]_schedVars =>
           [\A p \in Replicas, s \in Schedules :
               LET m == tick[p].now IN
               /\ s \in tick[p].todo \ tick'[p].todo
               /\ m \in Listed[s] /\ tick[p].seen[s] # m /\ workflow[s] = "enabled"
               => created'[p][s][m] > created[p][s][m] \/ failures'[p] > failures[p]]_schedVars
    BY <1>1
  <1> QED  BY <1>2, TidyInvariant, PTL DEF Spec, ListedIsFired
=============================================================================
