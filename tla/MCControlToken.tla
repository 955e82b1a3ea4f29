--------------------------- MODULE MCControlToken ---------------------------
(* Instances of ControlToken for TLC. *)
EXTENDS ControlToken, TLC

Symmetry == Permutations(Handlers \ MayForce) \cup Permutations(MayForce)
=============================================================================
