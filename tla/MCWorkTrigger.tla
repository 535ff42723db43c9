---------------------------- MODULE MCWorkTrigger ----------------------------
(* Instances of WorkTrigger small enough for TLC. *)
EXTENDS WorkTrigger, TLC

CONSTANTS t1, t2, t3, i1, i2, i3, p1, p2

\* t1 and t2 are the two workers of one firing of p1, t3 is a task of p2.
TwoTasks == {t1, t2}
ThreeTasks == {t1, t2, t3}
WorkerOf == (t1 :> i1) @@ (t2 :> i1)
WorkerOf3 == (t1 :> i1) @@ (t2 :> i1) @@ (t3 :> i2)
ThreeFirings == (t1 :> i1) @@ (t2 :> i2) @@ (t3 :> i3)
OneProject == [t \in {t1, t2} |-> p1]
OwnerOf == [t \in {t1, t2} |-> p1] @@ (t3 :> p2)

NodeSymmetry == Permutations(Nodes)
=============================================================================
