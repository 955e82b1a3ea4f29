--------------------------- MODULE MCCastScheduler ---------------------------
(* Instances of CastScheduler for TLC. *)
EXTENDS CastScheduler

\* A year of two months, of two days and one, with four minutes each.
MCLastDay == <<2, 1>>

MCCron(ms, ds, hs, mins) == [month |-> ms, day |-> ds, hour |-> hs, minute |-> mins]
MCPlan(cron, isco, depth, whole) ==
    [cron |-> cron, isco |-> isco, lisst |-> ~isco, depth |-> depth, whole |-> whole]

Hourly == MCPlan(MCCron(1..2, 1..2, 0..1, {1}), FALSE, 1, TRUE)
Early == MCPlan(MCCron(1..2, {1}, {0}, 0..1), FALSE, 1, TRUE)
Sample == MCPlan(MCCron(1..2, {1}, 0..1, {1}), TRUE, 2, TRUE)
Incomplete == MCPlan(MCCron(1..2, {1}, 0..1, {1}), TRUE, 3, FALSE)
Yearly == MCPlan(MCCron({1}, {2}, {0}, {0}), FALSE, 2, TRUE)

MCPlans == {Incomplete, Yearly}
MCTable == ("e1" :> Hourly) @@ ("e2" :> Sample) @@ ("e3" :> Early)

\* The tries suffice for every row of this instance.
ASSUME MCRowsInReach == RowsInReach
=============================================================================
