------------------------------ MODULE MCClassInit ------------------------------
(* Instances of ClassInit. *)
EXTENDS ClassInit, TLC

CONSTANTS A, B, C

ThreeClasses == {A, B, C}
Chain == [super |-> (A :> NoClass) @@ (B :> A) @@ (C :> B), interfaces |-> {}]
Interface == [super |-> (A :> NoClass) @@ (B :> A) @@ (C :> A),
              interfaces |-> {C}]
ChainOrInterface == {Chain, Interface}
=============================================================================
