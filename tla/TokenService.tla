---------------------------- MODULE TokenService ----------------------------
(***************************************************************************)
(* What the control token promises its clients: at most one holder, lost   *)
(* only by giving it back or to a client that forces, and restricted       *)
(* methods begun by the holder alone.  A method already begun is not       *)
(* interrupted when the token is revoked, as in the broker.                *)
(***************************************************************************)
CONSTANTS Clients, Forcers, Nobody

VARIABLES holder,    \* who has the token
          working    \* the clients whose restricted method is being executed

Init == holder = Nobody /\ working = {}

Grant(c) ==
    /\ holder = Nobody
    /\ holder' = c
    /\ UNCHANGED working

Return(c) ==
    /\ holder = c
    /\ c \notin working
    /\ holder' = Nobody
    /\ UNCHANGED working

Revoke(c) ==
    /\ c \in Forcers
    /\ holder # Nobody
    /\ holder' = Nobody
    /\ UNCHANGED working

Begin(c) ==
    /\ holder = c
    /\ working' = working \cup {c}
    /\ UNCHANGED holder

End(c) ==
    /\ working' = working \ {c}
    /\ UNCHANGED holder

Next == \E c \in Clients : Grant(c) \/ Return(c) \/ Revoke(c) \/ Begin(c) \/ End(c)

Spec == Init /\ [][Next]_<<holder, working>>
=============================================================================
