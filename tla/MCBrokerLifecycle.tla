------------------------- MODULE MCBrokerLifecycle -------------------------
(* Instances of BrokerLifecycle for TLC. *)
EXTENDS BrokerLifecycle
=============================================================================
