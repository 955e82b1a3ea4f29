----------------------------- MODULE MCSession -----------------------------
(* Instances of Session for TLC. *)
EXTENDS Session

\* A parameter with a second name.
MCParams == {"depth"}
MCAliases == {"level"}
MCAliasOf == [a \in MCAliases |-> "depth"]
=============================================================================
