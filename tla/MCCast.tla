--------------------------------- MODULE MCCast ---------------------------------
(* Instances of Cast for TLC. *)
EXTENDS Cast

\* The pressure reads right, too much, or too little.
MCDrifts == {0, 1, -2}

MCPlan(isco, lisst, profile, calibrate, park) ==
    [isco |-> isco, lisst |-> lisst, profile |-> profile, calibrate |-> calibrate,
     wipe |-> ~lisst, precal |-> ~isco, park |-> park, depth |-> 3]

MCPlans ==
    {MCPlan(FALSE, FALSE, TRUE, FALSE, "default"), MCPlan(FALSE, TRUE, TRUE, FALSE, "bottom"),
     MCPlan(TRUE, FALSE, TRUE, FALSE, "default"), MCPlan(FALSE, FALSE, TRUE, TRUE, "default"),
     MCPlan(TRUE, TRUE, FALSE, FALSE, "top")}
=============================================================================
