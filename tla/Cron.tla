-------------------------------- MODULE Cron --------------------------------
(***************************************************************************)
(* The five-field cron matcher (cron.rs).  Text is abstracted to what      *)
(* part_matches finds in it: a part is a base and a step, a field a set of *)
(* parts (the order of a list does not matter), an expression a sequence   *)
(* of fields.  The calendar (chrono) is external.                          *)
(***************************************************************************)
EXTENDS Naturals, Sequences

(* A part.  step is 0 for "/0" and for a step that is not a number; a part *)
(* without a slash has step 1.  base is one of                             *)
(*   [kind |-> "any"]  [kind |-> "range", lo, hi]  [kind |-> "number", n]  *)
(*   [kind |-> "bad"]  (not a number, or a range with such an end)         *)
Every(step)         == [base |-> [kind |-> "any"], step |-> step]
Between(lo, hi, step) == [base |-> [kind |-> "range", lo |-> lo, hi |-> hi], step |-> step]
Number(n, step)     == [base |-> [kind |-> "number", n |-> n], step |-> step]
Bad(step)           == [base |-> [kind |-> "bad"], step |-> step]

(* Variant: a range is anchored at 0 like `*`.                             *)
PartMatchesUnanchored(part, value) ==
    LET base == part.base IN
    /\ part.step # 0
    /\ \/ base.kind = "any" /\ value % part.step = 0
       \/ base.kind = "range" /\ base.lo <= value /\ value <= base.hi /\ value % part.step = 0
       \/ base.kind = "number" /\ value = base.n /\ part.step = 1

(* Variant: the last value of a range does not belong to it.               *)
PartMatchesHalfOpen(part, value) ==
    LET base == part.base IN
    /\ part.step # 0
    /\ \/ base.kind = "any" /\ value % part.step = 0
       \/ /\ base.kind = "range" /\ base.lo <= value /\ value < base.hi
          /\ (value - base.lo) % part.step = 0
       \/ base.kind = "number" /\ value = base.n /\ part.step = 1

(* `*` is anchored at 0, a range at its start.                             *)
PartMatches(part, value) ==
    LET base == part.base IN
    /\ part.step # 0
    /\ \/ base.kind = "any" /\ value % part.step = 0
       \/ /\ base.kind = "range" /\ base.lo <= value /\ value <= base.hi
          /\ (value - base.lo) % part.step = 0
       \/ base.kind = "number" /\ value = base.n /\ part.step = 1

FieldMatches(field, value) == \E part \in field : PartMatches(part, value)

(* time is <<minute, hour, day of month, month, day of week>>: all five    *)
(* fields must match, the two day fields too.                              *)
Matches(cron, time) ==
    /\ Len(cron) = 5
    /\ \A i \in 1 .. 5 : FieldMatches(cron[i], time[i])
=============================================================================
