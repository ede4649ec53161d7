-------------------------- MODULE WorkerPoolProofs --------------------------
(* Theorems about WorkerPool, for every number of permits and every bound. *)
EXTENDS WorkerPool, TLAPS

(* The loop waits, or is about to because its claim found nothing.         *)
Drowsy == (loop = "wait") \/ (loop = "answer" /\ claimed = 0)

(* The inductive invariant.  NoLostWakeup alone does not survive a kick    *)
(* that goes elsewhere: what is kept is that, while a drowsy loop has no   *)
(* token, every announced row still has its kick ahead.                    *)
PoolInv ==
    /\ TypeOK
    /\ PermitsConserved
    /\ loop \in {"claim", "answer"} => held > 0
    /\ loop \notin {"claim", "answer"} => held = 0
    /\ claimed <= held
    /\ loop # "answer" => claimed = 0
    /\ Drowsy /\ ~ token => fresh <= kicks

LEMMA LeastOfNats ==
    ASSUME NEW m \in Nat, NEW n \in Nat
    PROVE  Least(m, n) \in Nat /\ Least(m, n) <= m /\ Least(m, n) <= n
                               /\ (Least(m, n) = m \/ Least(m, n) = n)
BY DEF Least

(* How many rows a claim takes past f announced and m other locked ones,   *)
(* and how many of them are announced.                                     *)
LEMMA ClaimAmounts ==
    ASSUME TypeOK, NEW f \in 0 .. fresh, NEW m \in 0 .. timed,
           NEW n, NEW k, n = Least(held, Due - (f + m)), k = Least(n, fresh - f)
    PROVE  /\ n \in Nat /\ n <= held /\ n <= Due - (f + m) /\ (n = held \/ n = Due - (f + m))
           /\ k \in Nat /\ k <= n /\ k <= fresh - f /\ (k = n \/ k = fresh - f)
<1>1. held \in Nat /\ fresh - f \in Nat /\ Due - (f + m) \in Nat
  BY DEF TypeOK, Due
<1>2. n \in Nat /\ n <= held /\ n <= Due - (f + m) /\ (n = held \/ n = Due - (f + m))
  BY <1>1, LeastOfNats
<1> QED BY <1>1, <1>2, LeastOfNats

(* Whatever a claim skips, it takes no more than the loop holds permits    *)
(* for, and if it takes nothing no announced row is left.                  *)
LEMMA ClaimKeeps ==
    ASSUME PoolInv, NEW f \in 0 .. fresh, NEW m \in 0 .. timed, ClaimPast(f, m),
           errors' \in Nat
    PROVE  PoolInv'
<1> DEFINE n == Least(held, Due - (f + m))
           k == Least(n, fresh - f)
<1> USE DEF PoolInv, Drowsy, TypeOK, PermitsConserved
<1>1. /\ n \in Nat /\ n <= held /\ n <= Due - (f + m) /\ (n = held \/ n = Due - (f + m))
      /\ k \in Nat /\ k <= n /\ k <= fresh - f /\ (k = n \/ k = fresh - f)
  BY ClaimAmounts
<1>2. /\ loop = "claim" /\ held > 0 /\ loop' = "answer"
      /\ fresh' = fresh - (k + f) /\ timed' = timed - (n - k) + f /\ claimed' = n
      /\ UNCHANGED <<free, held, running, hung, token, kicks, lost, arrivals>>
  BY DEF ClaimPast
<1> HIDE DEF n, k
<1>3. /\ n - k <= timed /\ fresh - (k + f) \in Nat /\ timed - (n - k) + f \in Nat
  BY <1>1 DEF Due
<1>4. n = 0 => fresh' = 0
  BY <1>1, <1>2 DEF Due
<1> QED BY <1>1, <1>2, <1>3, <1>4

LEMMA InitPool == Init => PoolInv
<1> SUFFICES ASSUME Init PROVE PoolInv
  OBVIOUS
<1>1. TypeOK
  BY ConcurrencyAssumption DEF Init, TypeOK
<1>2. PermitsConserved
  BY ConcurrencyAssumption DEF Init, PermitsConserved
<1>3. loop = "acquire" /\ held = 0 /\ claimed = 0
  BY DEF Init
<1> QED BY <1>1, <1>2, <1>3 DEF PoolInv, Drowsy

LEMMA NextPool == PoolInv /\ [Next]_poolVars => PoolInv'
<1> SUFFICES ASSUME PoolInv, [Next]_poolVars PROVE PoolInv'
  OBVIOUS
<1> USE ConcurrencyAssumption, BoundsAssumption
<1> USE DEF PoolInv, Drowsy, TypeOK, PermitsConserved
<1>1. CASE Reserve
  BY <1>1 DEF Reserve
<1>2. CASE ClaimRuns
  <2>1. ClaimPast(0, 0) /\ errors' \in Nat
    BY <1>2 DEF ClaimRuns
  <2> QED BY <2>1, ClaimKeeps
<1>3. CASE StartRuns
  BY <1>3 DEF StartRuns
<1>4. CASE ClaimFails
  BY <1>4 DEF ClaimFails
<1>5. CASE Notified
  BY <1>5 DEF Notified
<1>6. CASE Poll
  BY <1>6 DEF Poll
<1>7. CASE ExecutionReturns
  BY <1>7 DEF ExecutionReturns
<1>8. CASE ExecutionHangs
  BY <1>8 DEF ExecutionHangs
<1>9. CASE Enqueue
  BY <1>9 DEF Enqueue
<1>10. CASE Kick
  BY <1>10 DEF Kick
<1>11. CASE KickElsewhere
  BY <1>11 DEF KickElsewhere
<1>12. CASE TimeComes
  BY <1>12 DEF TimeComes
<1>13. CASE LostComesBack
  BY <1>13 DEF LostComesBack
<1>14. CASE ClaimSkipping
  <2>1. errors' \in Nat
    BY <1>14 DEF ClaimSkipping
  <2>2. PICK f \in 0 .. fresh, m \in 0 .. timed : ClaimPast(f, m)
    BY <1>14 DEF ClaimSkipping
  <2> QED BY <2>1, <2>2, ClaimKeeps
<1>15. CASE TakenElsewhere
  BY <1>15 DEF TakenElsewhere
<1>16. CASE UNCHANGED poolVars
  BY <1>16 DEF poolVars
<1> QED BY <1>1, <1>2, <1>3, <1>4, <1>5, <1>6, <1>7, <1>8, <1>9, <1>10, <1>11, <1>12, <1>13, <1>14,
           <1>15, <1>16
        DEF Next

LEMMA PoolInvariant == Spec => []PoolInv
BY InitPool, NextPool, PTL DEF Spec

(* Every counter of the loop stays a count: no path takes more permits or   *)
(* rows than there are (worker.rs:57-111).                                 *)
THEOREM PoolTypes == Spec => []TypeOK
<1>1. PoolInv => TypeOK
  BY DEF PoolInv
<1> QED BY <1>1, PoolInvariant, PTL

(* worker.rs:52-53: whatever the claim answers, every permit is free, in   *)
(* the loop's hands or with exactly one execution.                         *)
THEOREM PermitConservation == Spec => []PermitsConserved
<1>1. PoolInv => PermitsConserved
  BY DEF PoolInv
<1> QED BY <1>1, PoolInvariant, PTL

(* worker.rs:18-19: no kick is lost to a loop that is busy, or between its *)
(* last claim and its wait.                                                *)
THEOREM NoKickLost == Spec => []NoLostWakeup
<1>1. PoolInv => NoLostWakeup
  BY DEF PoolInv, Drowsy, NoLostWakeup, TypeOK
<1> QED BY <1>1, PoolInvariant, PTL
=============================================================================
