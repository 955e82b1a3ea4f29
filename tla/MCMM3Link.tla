----------------------------- MODULE MCMM3Link -----------------------------
(* Instances of MM3Link for TLC. *)
EXTENDS MM3Link
=============================================================================
