--------------------------- MODULE MCSubscription ---------------------------
(* Instances of Subscription for TLC. *)
EXTENDS Subscription

CONSTANTS l1, l2, a, b

\* The first client also names a parameter twice; the second wants one only.
Asks == [l \in Listeners |-> IF l = l1 THEN {<<a>>, <<a, b>>, <<a, a>>} ELSE {<<a>>}]
=============================================================================
