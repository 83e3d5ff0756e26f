------------------------------ MODULE MCServer ------------------------------
(***************************************************************************)
(* Server on small instances.  Connections are interchangeable, and so     *)
(* are users: no action or invariant tells one from another.               *)
(***************************************************************************)
EXTENDS LatchUse, TLC

Symmetry == Permutations(Conns) \cup Permutations(Users)
=============================================================================
