----------------------------- MODULE MCBrokerRpc -----------------------------
(* Instances of BrokerRpc for TLC. *)
EXTENDS BrokerRpc

\* The first call carries params, the second does not.
MCWithParams == {1}
=============================================================================
