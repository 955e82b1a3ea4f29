---------------------------------- MODULE Cast ----------------------------------
(***************************************************************************)
(* src/python/avp_cast.py: the stages of a cast, and the calibration of    *)
(* the winch (Winch.calibration in src/python/avp_winch.py), which the     *)
(* launcher runs before its first cast.  One Cast object makes all casts.  *)
(* The moves are those of module Winch, with all that may interfere.       *)
(***************************************************************************)
EXTENDS Winch

CONSTANTS
    Plans,      \* what pre_config may be given
    Soundings,  \* the cast depths that the sounder allows
    Cal,        \* CAL_POSITION
    Over,       \* over_cast, in levels
    Rev,        \* CLICKS_PER_REVOLUTION, in levels
    Shallow,    \* the depth above which a missed target is tried again
    MaxRaises,  \* MAX_ITERS of the calibration
    MaxCasts    \* bound on casts and calibrations

ASSUME CastAssumption ==
    /\ Soundings \subseteq Nat \ {0} /\ Cal \in Nat /\ Over \in Nat /\ Rev \in Nat
    /\ Shallow \in Nat /\ MaxRaises \in Nat /\ MaxCasts \in Nat

VARIABLES
    cast,   \* the Cast object
    known,  \* it had its brokers set up before, and uses them when it has no new ones
    gear,   \* the sonde logs; the LISST's pump runs, its broker is suspended; the ISCO is on
    lines,  \* the winch's wl_position and wl_cond_position
    casts,  \* bound: casts so far
    seen,   \* history: the level where the water was last looked for
    broken  \* history: an exception has left a stage unfinished

castVars == <<winchVars, cast, known, gear, lines, casts, seen, broken>>
still == <<pos, world, drift, drive, ipc, cb, other, events>>
winch == <<still, token, mv, sampling>>
program == <<known, gear, lines, casts, seen, broken>>

NoCast == [stage |-> "done", plan |-> CHOOSE p \in Plans : TRUE, lisst |-> "no",
           precal |-> FALSE, abort |-> "none", target |-> 0, leg |-> 0, first |-> "none"]

CastInit ==
    /\ WinchInit
    /\ cast = NoCast /\ known = FALSE
    /\ gear \in [logging : {FALSE}, pump : {FALSE}, suspended : {FALSE}, isco : {FALSE}]
    /\ lines = [wl |-> Surface, cond |-> Surface]
    /\ casts = 0 /\ seen = 0 /\ broken = FALSE

At(s) == cast.stage = s /\ mv.pc = "idle"
To(s) == cast' = [cast EXCEPT !.stage = s]
\* abort_cast, with its 'park' entry FALSE ("stay") or not ("park").
Abort(kind, s) == cast' = [cast EXCEPT !.abort = kind, !.stage = s]

\* The stages that do nothing once the cast is aborted.
After == [aio |-> "brokers", brokers |-> "tokens", tokens |-> "status", status |-> "depth",
          depth |-> "instruments", instruments |-> "db", park |-> "precal", precal |-> "waterline",
          waterline |-> "wait", wait |-> "sample", sample |-> "collect", collect |-> "end"]

-----------------------------------------------------------------------------
(* Calls to the winch: the motor's token is asked for before most moves. *)

GetsToken(s) == cast.stage = s /\ mv.pc = "idle" /\ mv' = [Idle EXCEPT !.pc = "ask"]
Got(s) == cast.stage = s /\ mv.pc = "got"
Moved(s) == cast.stage = s /\ mv.pc = "ended"

\* park: fast to the slow-down position when the sonde is deep, then slowly.
ParkFrom(s, to) ==
    IF pos > Slowdown
    THEN MoveToAbsolute(Slowdown, "any", TRUE, s = "end") /\ cast' = [cast EXCEPT !.stage = s, !.leg = 1]
    ELSE MoveToAbsolute(to, "none", FALSE, s = "end") /\ cast' = [cast EXCEPT !.stage = s, !.leg = 2]

ParkOn(s, to) ==
    /\ Moved(s) /\ cast.leg = 1
    /\ MoveToAbsolute(to, "none", FALSE, s = "end")
    /\ cast' = [cast EXCEPT !.leg = 2, !.first = mv.code]

\* Why the park stopped, as traverse_tree finds it: the first leg's reason.
Parked(s) == Moved(s) /\ cast.leg = 2
ParkCode == IF cast.first # "none" THEN cast.first ELSE mv.code
Done(s) == cast' = [cast EXCEPT !.stage = s, !.leg = 0, !.first = "none"]
DoneAbort(kind, s) == cast' = [cast EXCEPT !.stage = s, !.abort = kind, !.leg = 0, !.first = "none"]

-----------------------------------------------------------------------------
(* Before the moves. *)

\* pre_config.  An ISCO cast that is to be a LISST cast too is aborted.
StartCast ==
    /\ cast.stage \in {"done", "raised"} /\ mv.pc = "idle" /\ casts < MaxCasts
    /\ casts' = casts + 1
    /\ \E p \in Plans :
        cast' = [stage |-> "aio", plan |-> [p EXCEPT !.profile = @ /\ ~p.isco],
                 lisst |-> IF p.lisst /\ ~p.isco THEN "yes" ELSE "no", precal |-> p.precal,
                 abort |-> IF p.isco /\ p.lisst THEN "park" ELSE "none",
                 target |-> p.depth, leg |-> 0, first |-> "none"]
    /\ UNCHANGED <<winch, known, gear, lines, seen, broken>>

Skip ==
    /\ cast.stage \in DOMAIN After /\ mv.pc = "idle" /\ cast.abort # "none"
    /\ To(After[cast.stage])
    /\ UNCHANGED <<winch, program>>

AfterDb == IF cast.plan.calibrate THEN "raise" ELSE "position"
Fails == events < MaxEvents /\ events' = events + 1

\* The aio token is taken, power is put right, and the token is given back.
AioSetup ==
    /\ At("aio") /\ cast.abort = "none"
    /\ To("brokers")
    /\ gear' = [gear EXCEPT !.isco = IF cast.plan.isco THEN TRUE
                                     ELSE IF cast.lisst = "yes" THEN FALSE ELSE @]
    /\ UNCHANGED <<winch, known, lines, casts, seen, broken>>

\* A token that is not given, or an instrument or a database that is not there.
StageFails ==
    /\ cast.stage \in {"aio", "tokens", "instruments", "db"} /\ mv.pc = "idle"
    /\ cast.abort = "none"
    /\ Fails
    /\ Abort("park", IF cast.stage = "db" THEN AfterDb ELSE After[cast.stage])
    /\ UNCHANGED <<pos, world, drift, drive, token, ipc, mv, cb, other, sampling, program>>

BrokerSetup ==
    /\ At("brokers") /\ cast.abort = "none"
    /\ known' = TRUE
    /\ StartSampling
    /\ To("tokens")
    /\ UNCHANGED <<still, token, mv, gear, lines, casts, seen, broken>>

\* Every token but that of the motor is taken by force.
GetTokens ==
    /\ cast.abort = "none" /\ GetsToken("tokens")
    /\ tokens' = tokens \cup {"sonde"}
    /\ UNCHANGED <<still, holder, have, sampling, cast, program>>

GotTokens ==
    /\ Got("tokens")
    /\ mv' = Idle
    /\ IF have
       THEN /\ tokens' = tokens \cup (IF cast.lisst = "yes" THEN {"lisst"} ELSE {})
                                \cup (IF cast.plan.isco THEN {"isco"} ELSE {})
            /\ To("status")
       ELSE Abort("park", "status") /\ UNCHANGED tokens
    /\ UNCHANGED <<still, holder, have, sampling, program>>

\* A LISST that is suspended, by its last cast or by another program, raises (the
\* answer is stored as '09.3' and read as '09.03'), outside the try; one in a bad
\* state is left out of the cast.  A broker without its instrument aborts, which
\* does not end the stage.
CheckStatus ==
    /\ At("status") /\ cast.abort = "none"
    /\ \E ab \in {"none", "park"} :
        /\ IF ab = "none" THEN UNCHANGED events ELSE Fails
        /\ \/ /\ (cast.lisst = "yes" => ~gear.suspended)
              /\ Abort(ab, "depth") /\ UNCHANGED <<tokens, broken>>
           \/ /\ cast.lisst = "yes"
              /\ Abort(ab, "raised") /\ broken' = TRUE /\ UNCHANGED tokens
           \/ /\ cast.lisst = "yes" /\ ~gear.suspended
              /\ cast' = [cast EXCEPT !.abort = ab, !.stage = "depth", !.lisst = "aborted"]
              /\ tokens' = tokens \ {"lisst"} /\ UNCHANGED broken
    /\ UNCHANGED <<pos, world, drift, drive, ipc, cb, other, holder, have, mv, sampling,
                   known, gear, lines, casts, seen>>

CheckDepth ==
    /\ At("depth") /\ cast.abort = "none"
    /\ \E m \in Soundings :
        cast' = [cast EXCEPT !.stage = "instruments",
                             !.target = IF @ > m \/ @ = 0 THEN m ELSE @]
    /\ UNCHANGED <<winch, program>>

InitInstruments ==
    /\ At("instruments") /\ cast.abort = "none"
    /\ StartSampling
    /\ To("db")
    /\ UNCHANGED <<still, token, mv, program>>

InitDb ==
    /\ At("db")
    /\ To(AfterDb)
    /\ UNCHANGED <<winch, program>>

\* Whether the sonde is parked and calibrated first.  Without brokers of an
\* earlier cast this raises, outside the try.
CheckPosition ==
    /\ At("position")
    /\ IF ~known
       THEN To("raised") /\ broken' = TRUE /\ UNCHANGED sampling
       ELSE /\ StartSampling
            /\ cast' = [cast EXCEPT !.stage = "park",
                    !.precal = @ /\ cast.plan.profile
                                 /\ (InWater("all") = "yes" \/ pos > lines.cond \/ Depth # 0)]
            /\ UNCHANGED broken
    /\ UNCHANGED <<still, token, mv, known, gear, lines, casts, seen>>

-----------------------------------------------------------------------------
(* The moves before the cast. *)

PreCastPark ==
    /\ At("park") /\ cast.abort = "none"
    /\ IF cast.precal THEN GetsToken("park") /\ UNCHANGED cast
       ELSE To("precal") /\ UNCHANGED mv
    /\ UNCHANGED <<still, token, sampling, program>>

ParkBegins ==
    /\ \/ Got("park") /\ ParkFrom("park", Cal)
       \/ ParkOn("park", Cal)
    /\ UNCHANGED <<still, token, sampling, program>>

PreParked ==
    /\ Parked("park")
    /\ mv' = Idle
    /\ IF ParkCode = "pos_limit_switch" THEN DoneAbort("stay", "precal") ELSE Done("precal")
    /\ UNCHANGED <<still, token, sampling, program>>

\* mutant of NeedsZero: the conductivity is not asked
NeedsZeroAlways(check) == Depth # 0

\* check_sonde_calibration, as far as the decision to zero the pressure.
NeedsZero(check) == Depth # 0 /\ ~(check /\ CondInWater = "yes")
PreCalibrate ==
    /\ At("precal") /\ cast.abort = "none"
    /\ IF ~cast.precal THEN To("waterline") /\ UNCHANGED <<sampling, seen>>
       ELSE /\ StartSampling /\ seen' = pos
            /\ IF InWater("all") = "yes" THEN Abort("park", "waterline")
               ELSE To(IF NeedsZero(TRUE) THEN "zero" ELSE "waterline")
    /\ UNCHANGED <<still, token, mv, known, gear, lines, casts, broken>>

\* calibratePressure, with the sampling stopped before and started after it.
Zero ==
    /\ cast.stage \in {"zero", "last zero", "cal zero"} /\ mv.pc = "idle"
    /\ drift' = IF "sonde" \in tokens THEN 0 - TrueDepth ELSE drift
    /\ StartSampling
    /\ gear' = [gear EXCEPT !.logging = @ /\ "sonde" \notin tokens]
    /\ To(CASE cast.stage = "zero" -> "waterline"
            [] cast.stage = "last zero" -> "finish"
            [] cast.stage = "cal zero" -> "cwl")
    /\ UNCHANGED <<pos, world, drive, token, ipc, mv, cb, other, events, known, lines, casts, seen, broken>>

\* pre_position: down to the water line, wiped there, and on to the depth when
\* the sonde does not move while it samples.
PrePosition ==
    /\ cast.abort = "none" /\ GetsToken("waterline")
    /\ UNCHANGED <<still, token, sampling, cast, program>>

ToWaterline ==
    /\ Got("waterline")
    /\ MoveToRelative(lines.wl + Over - pos, "all", FALSE, 0, FALSE)
    /\ UNCHANGED <<still, token, sampling, cast, program>>

AtWaterline ==
    /\ Moved("waterline")
    /\ mv' = Idle
    /\ IF mv.code \in {"pos_limit_switch", "neg_limit_switch", "ipc_conn"}
       THEN Abort("stay", "wait") ELSE To("wipe")
    /\ UNCHANGED <<still, token, sampling, program>>

\* Stopping the sampling ends the logging too.
Wipe ==
    /\ At("wipe")
    /\ IF cast.plan.wipe
       THEN /\ \/ events' = events /\ To("wiped") /\ StartSampling
               \/ Fails /\ Abort("park", "wait")      \* the wiper does not stop
                  /\ sampling' = (sampling /\ "sonde" \notin tokens)
       ELSE To("wiped") /\ UNCHANGED <<sampling, events>>
    /\ UNCHANGED <<pos, world, drift, drive, ipc, cb, other, token, mv, program>>

ToSampleDepth ==
    /\ \/ At("wiped") /\ cast.plan.profile /\ To("wait") /\ UNCHANGED <<mv, sampling>>
       \/ ~cast.plan.profile /\ GetsToken("wiped") /\ UNCHANGED <<cast, sampling>>
       \/ Got("wiped") /\ MoveToDepth(cast.target, FALSE) /\ UNCHANGED cast
    /\ UNCHANGED <<still, token, program>>

AtSampleDepth ==
    /\ Moved("wiped")
    /\ mv' = Idle
    /\ IF mv.code \in {"pos_limit_switch", "neg_limit_switch"}
       THEN Abort("stay", "wait") ELSE To("wait")
    /\ UNCHANGED <<still, token, sampling, program>>

WaitForSched ==
    /\ At("wait") /\ cast.abort = "none"
    /\ To("sample")
    /\ UNCHANGED <<winch, program>>

-----------------------------------------------------------------------------
(* The cast itself. *)

\* The LISST collects only when its probe says it is in the water.
StartsSampling ==
    /\ At("sample") /\ cast.abort = "none"
    /\ StartSampling
    /\ cast' = [cast EXCEPT !.stage = "collect",
            !.lisst = IF @ = "yes" /\ CondInWater # "yes" THEN "aborted" ELSE @]
    /\ gear' = [gear EXCEPT !.logging = TRUE,
                            !.pump = @ \/ (cast.lisst = "yes" /\ CondInWater = "yes")]
    /\ UNCHANGED <<still, token, mv, known, lines, casts, seen, broken>>

\* Down to the target.  Stopped short of it near the surface, the winch raises
\* a little and lowers again; the first move alone is judged.
Lower ==
    /\ cast.stage = "collect" /\ cast.plan.profile /\ cast.abort = "none"
    /\ \/ GetsToken("collect") /\ UNCHANGED <<cast, sampling>>
       \/ Got("collect") /\ MoveToDepth(cast.target, TRUE) /\ cast' = [cast EXCEPT !.leg = 1]
    /\ UNCHANGED <<still, token, program>>

Short == Depth < Shallow /\ Depth # cast.target

LowerAgain ==
    /\ Moved("collect")
    /\ \/ /\ cast.leg = 1 /\ Short
          /\ MoveToDepth(Depth - 1, TRUE)
          /\ cast' = [cast EXCEPT !.leg = 2, !.first = mv.code]
       \/ /\ cast.leg = 2
          /\ MoveToDepth(cast.target, TRUE)
          /\ cast' = [cast EXCEPT !.leg = 3]
    /\ UNCHANGED <<still, token, program>>

Lowered ==
    /\ Moved("collect") /\ (cast.leg = 3 \/ (cast.leg = 1 /\ ~Short))
    /\ mv' = Idle
    /\ IF (IF cast.leg = 1 THEN mv.code ELSE cast.first) \in {"neg_limit_switch", "ipc_conn"}
       THEN DoneAbort("stay", "end") ELSE Done("end")
    /\ UNCHANGED <<still, token, sampling, program>>

\* A water sample, or some time at the depth.  A sampler that is not ready
\* aborts the cast.
Sample ==
    /\ At("collect") /\ cast.abort = "none" /\ ~cast.plan.profile
    /\ \/ To("end") /\ UNCHANGED events
       \/ cast.plan.isco /\ Fails /\ Abort("park", "end")
    /\ UNCHANGED <<pos, world, drift, drive, ipc, cb, other, token, mv, sampling, program>>

StopSampling ==
    /\ At("end")
    /\ gear' = [gear EXCEPT !.logging = @ /\ "sonde" \notin tokens,
                            !.pump = @ /\ cast.lisst # "yes"]
    /\ To("stopped")
    /\ UNCHANGED <<winch, known, lines, casts, seen, broken>>

\* Places of POST_CAST_OPTIONS.
Places == [top |-> 0, default |-> lines.wl \div 3, cwl |-> lines.cond, pwl |-> lines.wl]

\* mutant of PostCastPark: a cast that was aborted parks in any case
PostCastParkAlways ==
    /\ GetsToken("stopped") /\ UNCHANGED cast
    /\ UNCHANGED <<still, token, sampling, program>>

PostCastPark ==
    /\ \/ cast.abort # "stay" /\ GetsToken("stopped") /\ UNCHANGED cast
       \/ At("stopped") /\ cast.abort = "stay" /\ To("zero?") /\ UNCHANGED mv
    /\ UNCHANGED <<still, token, sampling, program>>

\* Half way a default park looks for the surface conductivity.
PostPark ==
    /\ \/ Got("stopped") /\ cast.plan.park = "bottom" /\ mv' = Idle /\ To("zero?")
       \/ Got("stopped") /\ cast.plan.park # "bottom" /\ ParkFrom("home", Places[cast.plan.park])
       \/ ParkOn("home", Places[cast.plan.park])
       \/ Parked("home") /\ mv' = Idle /\ Done("zero?")
    /\ IF cast.plan.park = "default" /\ Moved("home") /\ cast.leg = 1
       THEN StartSampling ELSE UNCHANGED sampling
    /\ UNCHANGED <<still, token, program>>

-----------------------------------------------------------------------------
(* finish_cast: done in any case. *)

\* The pressure is zeroed once more after a profile that was not aborted.  Where
\* to park is compared by identity: 'default' from a schedule may not be equal.
LastZero ==
    /\ At("zero?")
    /\ \/ /\ cast.plan.profile /\ cast.abort = "none" /\ cast.plan.park = "default"
          /\ StartSampling /\ seen' = pos
          /\ To(IF NeedsZero(TRUE) THEN "last zero" ELSE "finish")
       \/ To("finish") /\ UNCHANGED <<sampling, seen>>
    /\ UNCHANGED <<still, token, mv, known, gear, lines, casts, broken>>

\* mutant of FinishCast: only a cast that was not aborted gives the motor back
FinishCastKeeps ==
    /\ At("finish")
    /\ sampling' = (sampling /\ "sonde" \notin tokens)
    /\ gear' = [gear EXCEPT !.logging = @ /\ "sonde" \notin tokens,
                            !.suspended = @ \/ cast.lisst # "no",
                            !.isco = @ /\ ~cast.plan.isco]
    /\ tokens' = {}
    /\ IF holder = "self" /\ cast.abort = "none"
       THEN holder' = "free" /\ have' = FALSE ELSE UNCHANGED <<holder, have>>
    /\ To("done")
    /\ UNCHANGED <<still, mv, known, lines, casts, seen, broken>>

FinishCast ==
    /\ At("finish")
    /\ sampling' = (sampling /\ "sonde" \notin tokens)
    /\ gear' = [gear EXCEPT !.logging = @ /\ "sonde" \notin tokens,
                            !.suspended = @ \/ cast.lisst # "no",
                            !.isco = @ /\ ~cast.plan.isco]
    /\ tokens' = {}
    /\ IF holder = "self" THEN holder' = "free" /\ have' = FALSE ELSE UNCHANGED <<holder, have>>
    /\ To("done")
    /\ UNCHANGED <<still, mv, known, lines, casts, seen, broken>>

\* An exception in a move or between moves: the try leads to finish_cast.  The
\* calibration has no try.
Raises ==
    /\ \/ mv.pc = "raised" /\ UNCHANGED events
       \/ /\ cast.stage \in {"wipe", "wiped", "wait", "sample", "collect", "end"} /\ mv.pc = "idle"
          /\ Fails
    /\ mv' = Idle
    /\ broken' = TRUE
    /\ Done(IF cast.plan.calibrate THEN "raised" ELSE "zero?")
    /\ UNCHANGED <<pos, world, drift, drive, ipc, cb, other, token, sampling, known, gear, lines, casts, seen>>

-----------------------------------------------------------------------------
(* initial_calibration: the first stages, then the winch is calibrated, with *)
(* or without its token. *)

Fatal(code) == code \in {"pos_limit_switch", "kbhit", "ipc_conn"}

\* Up until the photo eye trips: a park above the top, then turn by turn.
RaiseToTop ==
    /\ \/ At("raise") /\ known /\ ParkFrom("raise", IF pos + Rev < 0 - Rev THEN pos + Rev ELSE 0 - Rev)
       \/ ParkOn("raise", 0 - Rev)
       \/ Parked("raise") /\ mv' = Idle /\ Done(IF Fatal(ParkCode) THEN "zero?" ELSE "eye")
    /\ UNCHANGED <<still, token, sampling, program>>

\* On a first cast that was aborted there is no winch yet.
NoWinch ==
    /\ At("raise") /\ ~known
    /\ To("raised") /\ broken' = TRUE
    /\ UNCHANGED <<winch, known, gear, lines, casts, seen>>

RaiseMore ==
    /\ \/ /\ At("eye") /\ ~Eye /\ cast.leg <= MaxRaises
          /\ MoveToRelative(0 - Rev, "none", FALSE, 0, FALSE)
          /\ UNCHANGED cast
       \/ At("eye") /\ ~Eye /\ cast.leg > MaxRaises /\ Done("zero?") /\ UNCHANGED mv
       \/ At("eye") /\ Eye /\ Done("top") /\ UNCHANGED mv
       \/ /\ Moved("eye") /\ mv' = Idle
          /\ IF Fatal(mv.code) THEN Done("zero?") ELSE cast' = [cast EXCEPT !.leg = @ + 1]
    /\ UNCHANGED <<still, token, sampling, program>>

\* The position is stored as 0 and the pressure is zeroed when the sonde is out
\* of the water: by both probes, since the argument that asks for any of them
\* is misspelt.
AtTop ==
    /\ At("top")
    /\ StartSampling /\ seen' = pos
    /\ To(IF InWater("all") # "no" THEN "zero?" ELSE "cal zero")
    /\ UNCHANGED <<still, token, mv, known, gear, lines, casts, broken>>

\* Down to the water line by either probe, then by pressure; where a probe says
\* so, or cannot say, the position is recorded.
ToLines ==
    /\ \/ At("cwl") /\ MoveToAbsolute(lines.cond + Rev, "any", FALSE, FALSE)
       \/ At("pwl") /\ MoveToAbsolute((IF pos > lines.wl THEN pos ELSE lines.wl) + Rev, "depth in", FALSE, FALSE)
    /\ UNCHANGED <<still, token, sampling, cast, program>>

AtLines ==
    /\ \/ /\ Moved("cwl") /\ To("pwl")
          /\ lines' = IF mv.code = "stop_funct" THEN [lines EXCEPT !.cond = pos] ELSE lines
       \/ /\ Moved("pwl") /\ To("cal park")
          /\ lines' = IF mv.code = "stop_funct" THEN [lines EXCEPT !.wl = pos] ELSE lines
    /\ mv' = Idle
    /\ UNCHANGED <<still, token, sampling, known, gear, casts, seen, broken>>

CalPark ==
    /\ \/ At("cal park") /\ ParkFrom("cal park", Cal)
       \/ ParkOn("cal park", Cal)
       \/ Parked("cal park") /\ mv' = Idle /\ Done("zero?")
    /\ UNCHANGED <<still, token, sampling, program>>

-----------------------------------------------------------------------------
Stages ==
    \/ Skip \/ AioSetup \/ BrokerSetup \/ GetTokens \/ GotTokens \/ CheckStatus \/ CheckDepth
    \/ InitInstruments \/ InitDb \/ CheckPosition \/ PreCastPark \/ ParkBegins \/ PreParked
    \/ PreCalibrate \/ Zero \/ PrePosition \/ ToWaterline \/ AtWaterline \/ Wipe \/ ToSampleDepth
    \/ AtSampleDepth \/ WaitForSched \/ StartsSampling \/ Lower \/ LowerAgain \/ Lowered \/ Sample
    \/ StopSampling \/ PostCastPark \/ PostPark \/ LastZero \/ FinishCast \/ Raises
Calibration == RaiseToTop \/ NoWinch \/ RaiseMore \/ AtTop \/ ToLines \/ AtLines \/ CalPark
ProgramSteps == Stages \/ Calibration \/ (WinchSteps /\ UNCHANGED <<cast, program>>)

CastNext ==
    \/ StartCast \/ StageFails \/ ProgramSteps
    \/ (MotorRuns \/ Interference) /\ UNCHANGED <<cast, program>>

CastSpec == CastInit /\ [][CastNext]_castVars

\* The program goes on with its work, and an ordered motor turns.
CastFairSpec == CastSpec /\ WF_castVars(ProgramSteps) /\ WF_castVars(MotorRuns /\ UNCHANGED <<cast, program>>)

-----------------------------------------------------------------------------
(* Properties. *)

Driving == motor.on /\ pwm /\ motor.by = "self"

\* When start() or initial_calibration() has come to its end, whatever became of
\* the cast, its instruments are quiet, its tokens free and its motor stopped:
\* unless an exception left a stage, or another program has the motor.
QuietWhenDone ==
    cast.stage = "done" /\ casts > 0 /\ ~broken =>
        /\ ~sampling /\ ~gear.logging /\ ~gear.pump /\ ~gear.isco /\ tokens = {}
        /\ holder # "self" /\ (holder = "free" => ~Driving)

\* While this program has the motor's token, the motor runs on its order only
\* under a move that watches it or ends it, unless an exception left a move.
Watched ==
    Driving /\ holder = "self" /\ ~broken => mv.pc \in {"watch", "finish", "forced", "raised"}

\* After a fault that forbids to park, the cast gives the motor no order.
StaysPut ==
    [][cast.abort = "stay" /\ motor'.on /\ motor' # motor => motor'.by = "other"]_castVars

\* The pressure is zeroed out of the water, if the conductivity probe works and
\* nobody moved the sonde since it was looked at.  The calibration goes by the
\* pressure alone where that says no: it zeroes a sonde in the water whose
\* pressure reads too little, which is excepted.
ZeroedInAir ==
    [][/\ drift' # drift /\ probe = "good" /\ pos = seen
       /\ cast.stage = "cal zero" => drift >= 0
       => TrueDepth = 0]_castVars

\* Every cast comes to its end.
CastReturns == cast.stage = "aio" ~> cast.stage \in {"done", "raised"}
=============================================================================
