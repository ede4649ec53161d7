----------------------------- MODULE CronFields -----------------------------
(* What a cron expression denotes by its syntax, apart from the matcher:   *)
(* the values that a field lists.                                          *)
EXTENDS Cron

(* No calendar field exceeds the largest minute.                           *)
FieldValues == 0 .. 59

(* A bare number with a step is left out: cron.rs:52 says that its step is *)
(* ignored, and the code matches nothing.                                  *)
Part ==
    {Every(s) : s \in Nat} \cup {Bad(s) : s \in Nat} \cup {Number(n, s) : n \in Nat, s \in {0, 1}}
    \cup {Between(lo, hi, s) : lo \in Nat, hi \in Nat, s \in Nat}

(* The values that are counted out from the first one, up to the last.     *)
Counted(from, to, step) ==
    {v \in FieldValues : v <= to /\ \E i \in FieldValues : v = from + i * step}

PartDenotes(part) ==
    LET base == part.base IN
    IF part.step = 0 \/ base.kind = "bad" THEN {}
    ELSE IF base.kind = "number" THEN {base.n}
    ELSE IF base.kind = "range" THEN Counted(base.lo, base.hi, part.step)
    ELSE Counted(0, 59, part.step)

FieldDenotes(field) == UNION {PartDenotes(part) : part \in field}

(* cron.rs:1-4: an expression lists a time if each of its five fields lists*)
(* that field of the time.                                                 *)
Lists(cron, time) == Len(cron) = 5 /\ \A i \in 1 .. 5 : time[i] \in FieldDenotes(cron[i])
=============================================================================
