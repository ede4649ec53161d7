---------------------------- MODULE MCScheduler -----------------------------
(* Instances of Scheduler for TLC.                                         *)
EXTENDS Scheduler, TLC

CONSTANTS s1, s2, a, b

(* From 23:59 on Saturday, 6 June, to 0:01 on Sunday, 7 June.              *)
Midnight == << <<59, 23, 6, 6, 6>>, <<0, 0, 7, 6, 0>>, <<1, 0, 7, 6, 0>> >>

Star == {Every(1)}

(* "*/1 * * * *" and "59,0 * 5-7/2 * 0,6".                                 *)
EveryMinute == <<Star, Star, Star, Star, Star>>
OddDays == <<{Number(59, 1), Number(0, 1)}, Star, {Between(5, 7, 2)}, Star,
             {Number(0, 1), Number(6, 1)}>>

TwoSchedules == s1 :> EveryMinute @@ s2 :> OddDays

OneSchedule == s1 :> EveryMinute

ReplicaSymmetry == Permutations(Replicas)
=============================================================================
