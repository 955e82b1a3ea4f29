----------------------------- MODULE MCDbBuffer -----------------------------
(* Instances of DbBuffer for TLC. *)
EXTENDS DbBuffer
=============================================================================
