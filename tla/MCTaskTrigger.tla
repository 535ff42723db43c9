---------------------------- MODULE MCTaskTrigger ----------------------------
(* Instances of TaskTrigger small enough for TLC. *)
EXTENDS TaskTrigger, TLC

CONSTANTS t1, t2, i1, i2, p1, p2

\* t2, a task of p2, depends on t1, a task of p1.
TwoTasks == {t1, t2}
FiringOf == (t1 :> i1) @@ (t2 :> i2)
OwnerOf == (t1 :> p1) @@ (t2 :> p2)
Needs == (t1 :> {}) @@ (t2 :> {t1})
AtZero == (t1 :> 0) @@ (t2 :> 0)
NoDelay == (p1 :> 0) @@ (p2 :> 0)
DelayP2 == (p1 :> 0) @@ (p2 :> 2)
=============================================================================
