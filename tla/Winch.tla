--------------------------------- MODULE Winch ---------------------------------
(***************************************************************************)
(* src/python/avp_winch.py with the MM3Broker and SondeBroker clients of   *)
(* src/python/avp_broker.py: one program moves the winch and watches the   *)
(* move, while its own fault callback, another program that takes the      *)
(* motor's control token, and the motor itself act between its steps.      *)
(*                                                                         *)
(* Positions are levels: 0 is the top, where the photo eye trips, and the  *)
(* sonde is in the water from level Surface on.  Times are not counted:    *)
(* what the loop stops for after a while, it may stop for at once.         *)
(***************************************************************************)
EXTENDS Integers

CONSTANTS
    Surface,      \* the first level in the water
    Slowdown,     \* SLOWDOWN_POSITION
    Deepest,      \* bound of the levels
    Grounds,      \* the levels where the bottom may be
    Drifts,       \* the pressure errors there may be
    Probes,       \* how the conductivity probe may work: "good", "none", "dry"
    OtherTargets, \* where another program may move to
    MaxEvents     \* bound on faults and on what others do

ASSUME LevelAssumption ==
    /\ Surface \in Nat /\ Slowdown \in Nat /\ Deepest \in Nat
    /\ Surface <= Slowdown /\ Slowdown <= Deepest
    /\ Grounds \subseteq Surface..Deepest /\ Drifts \subseteq Int /\ OtherTargets \subseteq 0..Deepest
ASSUME BoundAssumption == MaxEvents \in Nat

VARIABLES
    pos, ground, drift, probe, \* the sonde's level, the bottom's, the pressure error, the probe
    motor, pwm,     \* the motor's order [on, to, by]; PWM_limit and PID let it run
    holder, have,   \* who has the mm3 token at the broker; the client's token_acquired
    tokens,         \* the other instruments' tokens that this program has
    why, notice,    \* stop_reason in the database; a notification waits in ipc_db
    mv,             \* the call that is under way
    cb, other,      \* the program's fault callback; the other program
    sampling,       \* the sonde is in sampling mode
    events          \* bound: faults and acts of others so far

world == <<ground, probe>>
drive == <<motor, pwm>>
token == <<holder, have, tokens>>
ipc == <<why, notice>>
winchVars == <<pos, world, drift, drive, token, ipc, mv, cb, other, sampling, events>>

Idle == [pc |-> "idle", owner |-> "free", to |-> 0, rel |-> FALSE, test |-> "none",
         up |-> FALSE, depth |-> 0, inpos |-> FALSE, code |-> "none"]
Ended(code) == [Idle EXCEPT !.pc = "ended", !.code = code]

-----------------------------------------------------------------------------
(* What the sonde measures. *)

Sunk == IF pos > ground THEN ground ELSE pos
TrueDepth == IF Sunk >= Surface THEN Sunk - Surface + 1 ELSE 0
Depth == TrueDepth + drift

Says(b) == IF b THEN "yes" ELSE "no"
CondInWater ==
    CASE probe = "good" -> Says(TrueDepth > 0)
      [] probe = "dry" -> "no"
      [] probe = "none" -> "unknown"
DepthInWater == Says(Depth > 0)

\* Python's and/or over True, False and None.
InWater(instrument) ==
    CASE instrument = "all" -> (IF DepthInWater = "yes" THEN CondInWater ELSE DepthInWater)
      [] instrument = "any" -> (IF DepthInWater = "yes" THEN DepthInWater ELSE CondInWater)
      [] instrument = "depth in" -> DepthInWater
      [] instrument = "cond" -> CondInWater

\* A water line that cannot be told counts as reached.
CheckWl(instrument) ==
    \/ InWater(instrument) = "unknown"
    \/ InWater(instrument) = (IF mv.up THEN "no" ELSE "yes")
AtDepth == IF mv.up THEN Depth <= mv.depth ELSE Depth >= mv.depth

StopFunct ==
    CASE mv.test = "none" -> FALSE
      [] mv.test = "depth" -> AtDepth
      [] OTHER -> CheckWl(mv.test)

-----------------------------------------------------------------------------
(* The calls.  A move that begins has its parameters in mv; the steps below *)
(* take it from "set" to "ended". *)

MoveToAbsolute(to, test, up, inpos) ==
    mv' = [Idle EXCEPT !.pc = "set", !.to = to, !.test = test, !.up = up, !.inpos = inpos]
MoveToRelative(d, test, up, depth, inpos) ==
    mv' = [Idle EXCEPT !.pc = "set", !.to = d, !.rel = TRUE, !.test = test, !.up = up,
                       !.depth = depth, !.inpos = inpos]

\* The broker refuses who has not its token.
StartSampling == sampling' = (sampling \/ "sonde" \in tokens)

\* When the sonde is not sampling, sampling is started and the call returns
\* without a move: the answer is compared with 'ok' as a whole.
MoveToDepth(desired, inpos) ==
    IF desired <= 0 \/ (sampling /\ Depth = desired)
    THEN mv' = Ended("none") /\ UNCHANGED sampling
    ELSE IF ~sampling THEN mv' = Ended("none") /\ StartSampling
    ELSE /\ MoveToRelative(desired - Depth, "depth", Depth > desired, desired, inpos)
         /\ UNCHANGED sampling

\* get_token without override: the owner is asked, then the token is asked for,
\* or taken when its owner was this program.
AskOwner ==
    /\ mv.pc = "ask"
    /\ mv' = [mv EXCEPT !.pc = "take", !.owner = holder]
    /\ UNCHANGED <<pos, world, drift, drive, token, ipc, cb, other, sampling, events>>

TakeToken ==
    /\ mv.pc = "take"
    /\ IF mv.owner = "self" \/ holder # "other"
       THEN holder' = "self" /\ have' = TRUE
       ELSE have' = FALSE /\ UNCHANGED holder
    /\ mv' = [Idle EXCEPT !.pc = "got"]
    /\ UNCHANGED <<tokens, pos, world, drift, drive, ipc, cb, other, sampling, events>>

\* _move_to_setup; the broker refuses what comes without the token.
MoveSetup ==
    /\ mv.pc = "set"
    /\ pwm' = (pwm \/ holder = "self")
    /\ mv' = [mv EXCEPT !.pc = "clear"]
    /\ UNCHANGED <<pos, world, drift, motor, token, ipc, cb, other, sampling, events>>

\* _clear_stop_reason: the reason is cleared, then the notification is eaten.
ClearReason ==
    /\ mv.pc = "clear"
    /\ why' = "" /\ notice' = TRUE
    /\ mv' = [mv EXCEPT !.pc = "poll"]
    /\ UNCHANGED <<pos, world, drift, drive, token, cb, other, sampling, events>>

PollReason ==
    /\ mv.pc = "poll"
    /\ notice' = FALSE
    /\ mv' = [mv EXCEPT !.pc = "go"]
    /\ UNCHANGED <<pos, world, drift, drive, token, why, cb, other, sampling, events>>

StartMove ==
    /\ mv.pc = "go"
    /\ motor' = IF holder = "self"
                THEN [on |-> TRUE, to |-> IF mv.rel THEN pos + mv.to ELSE mv.to, by |-> "self"]
                ELSE motor
    /\ mv' = [mv EXCEPT !.pc = "watch"]
    /\ UNCHANGED <<pos, world, drift, pwm, token, ipc, cb, other, sampling, events>>

-----------------------------------------------------------------------------
(* monitor_move. *)

Runs == motor.on /\ pwm /\ motor.to # pos
Eye == pos <= 0
Slack == pos > ground

\* Why the loop may end by itself.
Reasons ==
    {c \in {"stop_funct", "in_position", "neg_limit_switch", "pos_limit_switch", "max_zero_v"} :
        CASE c = "stop_funct" -> StopFunct
          [] c = "in_position" -> mv.inpos /\ pos = motor.to
          [] c = "neg_limit_switch" -> Eye /\ Runs /\ motor.to < pos
          [] c = "pos_limit_switch" -> Slack /\ Runs /\ motor.to > pos
          [] c = "max_zero_v" -> ~Runs}

\* mutant of WatchEnds: a move that ended in its place is left to the controller
WatchEndsLoose ==
    /\ mv.pc = "watch"
    /\ \E c \in Reasons :
        /\ mv' = IF c = "stop_funct" THEN Ended(c) ELSE [mv EXCEPT !.pc = "finish", !.code = c]
        /\ why' = c /\ notice' = TRUE
    /\ UNCHANGED <<pos, world, drift, drive, token, cb, other, sampling, events>>

\* mutant of WatchEnds: a motor that stands still is not noticed
WatchEndsPatient ==
    /\ mv.pc = "watch"
    /\ \E c \in Reasons \ {"max_zero_v"} :
        /\ mv' = [mv EXCEPT !.pc = "finish", !.code = c]
        /\ why' = c /\ notice' = TRUE
    /\ UNCHANGED <<pos, world, drift, drive, token, cb, other, sampling, events>>

\* The reason is written to the database, which notifies this program too.
WatchEnds ==
    /\ mv.pc = "watch"
    /\ \E c \in Reasons :
        /\ mv' = [mv EXCEPT !.pc = "finish", !.code = c]
        /\ why' = c /\ notice' = TRUE
    /\ UNCHANGED <<pos, world, drift, drive, token, cb, other, sampling, events>>

\* A key is pressed, the 5 V bus is off, nothing is heard of the instruments, or a
\* switch trips where it should not.
WatchFaults ==
    /\ mv.pc = "watch" /\ events < MaxEvents
    /\ events' = events + 1
    /\ \E c \in {"kbhit", "relay_5V", "max_stopped", "neg_limit_switch", "pos_limit_switch"} :
        /\ mv' = [mv EXCEPT !.pc = "finish", !.code = c]
        /\ why' = c /\ notice' = TRUE
    /\ UNCHANGED <<pos, world, drift, drive, token, cb, other, sampling>>

\* A notification: with a reason the loop ends, without one it goes on.
WatchHears ==
    /\ mv.pc = "watch" /\ notice
    /\ notice' = FALSE
    /\ mv' = IF why = "" THEN mv ELSE [mv EXCEPT !.pc = "finish", !.code = "ipc_conn"]
    /\ UNCHANGED <<pos, world, drift, drive, token, why, cb, other, sampling, events>>

\* A value is missing: the exception leaves the loop and the move, unfinished.
WatchRaises ==
    /\ mv.pc = "watch" /\ events < MaxEvents
    /\ events' = events + 1
    /\ mv' = [Idle EXCEPT !.pc = "raised"]
    /\ UNCHANGED <<pos, world, drift, drive, token, ipc, cb, other, sampling>>

-----------------------------------------------------------------------------
(* _winch_move_finish: mm3.stop, which forces the token when the client     *)
(* does not have it, and gives it back. *)

Halted == motor' = [motor EXCEPT !.on = FALSE] /\ pwm' = FALSE

FinishMove ==
    /\ mv.pc = "finish"
    /\ IF have
       THEN /\ IF holder = "self" THEN Halted ELSE UNCHANGED drive
            /\ mv' = Ended(mv.code)
            /\ UNCHANGED <<holder, have>>
       ELSE /\ holder' = "self" /\ have' = TRUE
            /\ mv' = [mv EXCEPT !.pc = "forced"]
            /\ UNCHANGED drive
    /\ UNCHANGED <<tokens, pos, world, drift, ipc, cb, other, sampling, events>>

FinishForced ==
    /\ mv.pc = "forced"
    /\ IF holder = "self"
       THEN Halted /\ holder' = "free" /\ have' = FALSE
       ELSE UNCHANGED <<drive, holder, have>>
    /\ mv' = Ended(mv.code)
    /\ UNCHANGED <<tokens, pos, world, drift, ipc, cb, other, sampling, events>>

-----------------------------------------------------------------------------
(* The motor, the callback and the other program. *)

MotorRuns ==
    /\ Runs
    /\ pos' = IF motor.to > pos THEN pos + 1 ELSE pos - 1
    /\ UNCHANGED <<world, drift, drive, token, ipc, mv, cb, other, sampling, events>>

\* motor_cb, called by the client's socket thread on a motor fault: stop, and
\* then the reason goes to the database.
CallbackStops ==
    /\ cb = "none" /\ Runs /\ events < MaxEvents
    /\ events' = events + 1
    /\ cb' = "stopped"
    /\ IF have
       THEN (IF holder = "self" THEN Halted ELSE UNCHANGED drive) /\ UNCHANGED holder
       ELSE Halted /\ holder' = "free"
    /\ UNCHANGED <<have, tokens, pos, world, drift, ipc, mv, other, sampling>>

CallbackWrites ==
    /\ cb = "stopped"
    /\ why' = "fault" /\ notice' = TRUE
    /\ cb' = "none"
    /\ UNCHANGED <<pos, world, drift, drive, token, mv, other, sampling, events>>

\* Another program takes the token, by force when it is not free, moves or only
\* stops the motor, gives the token back and says why it stopped.
OtherTakes ==
    /\ other = "idle" /\ events < MaxEvents
    /\ events' = events + 1
    /\ holder' = "other"
    /\ other' = "holds"
    /\ UNCHANGED <<pos, world, drift, drive, have, tokens, ipc, mv, cb, sampling>>

OtherMoves ==
    /\ other = "holds" /\ holder = "other"
    /\ \E t \in OtherTargets : motor' = [on |-> TRUE, to |-> t, by |-> "other"]
    /\ pwm' = TRUE
    /\ why' = "" /\ notice' = TRUE
    /\ other' = "moves"
    /\ UNCHANGED <<pos, world, drift, token, mv, cb, sampling, events>>

OtherHalts ==
    /\ other \in {"holds", "moves"}
    /\ IF holder = "other" THEN Halted ELSE UNCHANGED drive
    /\ other' = "halted"
    /\ UNCHANGED <<pos, world, drift, token, ipc, mv, cb, sampling, events>>

OtherReleases ==
    /\ other = "halted"
    /\ holder' = IF holder = "other" THEN "free" ELSE holder
    /\ other' = "released"
    /\ UNCHANGED <<pos, world, drift, drive, have, tokens, ipc, mv, cb, sampling, events>>

OtherWrites ==
    /\ other = "released"
    /\ why' = "stop" /\ notice' = TRUE
    /\ other' = "idle"
    /\ UNCHANGED <<pos, world, drift, drive, token, mv, cb, sampling, events>>

WinchInit ==
    /\ pos \in {0, Slowdown + 1} /\ ground \in Grounds /\ drift \in Drifts /\ probe \in Probes
    /\ motor = [on |-> FALSE, to |-> 0, by |-> "self"] /\ pwm = FALSE
    /\ holder = "free" /\ have = FALSE /\ tokens = {}
    /\ why = "" /\ notice = FALSE
    /\ mv = Idle /\ cb = "none" /\ other = "idle"
    /\ sampling = FALSE
    /\ events = 0

Watching == WatchEnds \/ WatchHears
WinchSteps ==
    \/ AskOwner \/ TakeToken \/ MoveSetup \/ ClearReason \/ PollReason \/ StartMove
    \/ Watching \/ FinishMove \/ FinishForced
Interference ==
    \/ WatchFaults \/ WatchRaises \/ CallbackStops \/ CallbackWrites
    \/ OtherTakes \/ OtherMoves \/ OtherHalts \/ OtherReleases \/ OtherWrites
=============================================================================
