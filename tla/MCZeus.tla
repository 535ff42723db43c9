-------------------------------- MODULE MCZeus --------------------------------
(* Instances of Zeus small enough for TLC. *)
EXTENDS Zeus, TLC

CONSTANTS t1, t2, i1, i2, p1

\* Two firings of one project; t2 depends on t1.
TwoTasks == {t1, t2}
FiringOf == (t1 :> i1) @@ (t2 :> i2)
OwnerOf == (t1 :> p1) @@ (t2 :> p1)
Needs == (t1 :> {}) @@ (t2 :> {t1})
AtZero == (t1 :> 0) @@ (t2 :> 0)
NoDelay == (p1 :> 0)
=============================================================================
