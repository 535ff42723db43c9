--------------------------- MODULE MCProjectTrigger ---------------------------
(* Instances of ProjectTrigger small enough for TLC. *)
EXTENDS ProjectTrigger, TLC

ProjectSymmetry == Permutations(Projects)
=============================================================================
