---------------------------- MODULE CastScheduler ----------------------------
(***************************************************************************)
(* src/python/avp_sched.py: the table of scheduled casts, the scheduler    *)
(* thread (_AVPSchedule) that moves what is due from pending to schedule,  *)
(* the launcher thread (AVPLauncher) that casts what is queued there, and  *)
(* the switch on, off or paused (AVPScheduleStatus) that operators turn    *)
(* through the database.                                                   *)
(*                                                                         *)
(* The clock counts minutes: each thread runs once a minute and then       *)
(* sleeps; only a cast or a calibration takes longer.  schedule_lock and   *)
(* pending_lock make each step below atomic; between two steps the other   *)
(* thread may run.  A cast's own work is that of module Cast.              *)
(***************************************************************************)
EXTENDS Integers, Sequences, FiniteSets, SequencesExt

CONSTANTS
    Entries,        \* entry numbers of the schedule table
    FirstTable,     \* the table at the start: a plan or NoPlan for each entry
    RowPlans, NoPlan,  \* what an operator may write in a row; no row
    LastDay, HoursPerDay, MinutesPerHour, \* the calendar: the last day of each month (12), 24, 60
    MaxIters,       \* tries of the search for the next match (200)
    Pre,            \* PRE_CAST_SETUP_TIME in minutes
    MaxScheduled,   \* MAX_SCHEDULED_TIME in minutes
    Pause,          \* PAUSE_MINUTES
    FirstMinute, Horizon, \* bounds of the clock
    MaxActs         \* how often operators and faults act

Orders == {"on", "off", "paused"}
NoTime == -1

ASSUME CalendarAssumption ==
    /\ LastDay \in Seq(Nat \ {0}) /\ LastDay # << >> /\ Len(LastDay) < 100
    /\ \A m \in DOMAIN LastDay : LastDay[m] < 100
    /\ HoursPerDay \in Nat \ {0} /\ MinutesPerHour \in Nat \ {0}
    /\ HoursPerDay <= 100 /\ MinutesPerHour <= 100
ASSUME TimeAssumption ==
    /\ FirstMinute \in Nat /\ Horizon \in Nat /\ FirstMinute <= Horizon
    /\ Pre \in Nat /\ Pause \in Nat
    /\ MaxScheduled \in Nat /\ MaxIters \in Nat \ {0}
ASSUME PlanAssumption == NoPlan \notin RowPlans /\ DOMAIN FirstTable = Entries

VARIABLES
    now,                        \* the minute it is
    rows, news,                 \* the schedule table; a change was notified
    ipcRow, ipcNews,            \* the status row (value and time); a change was notified
    status,                     \* AVPScheduleStatus: _state and _resume_time
    loaded, parsedAt,           \* select_db; the minute pending was last built
    pending, schedule, ready,   \* the three dictionaries
    spc, srun,                  \* the scheduler's place, the minute of its last round
    lost,                       \* history: rows lost with one whose earlier occurrence still waits
    lpc, lrun, lstate,          \* the same of the launcher; its _state
    calibrated, batch, castsToDo, begun, \* needs_calibration, casts to do, casts_to_do, casts_done > 0
    acts,                       \* bound: edits, orders, failures and casts that do not park, so far
    occurred, failed, overtaken, \* history: occurrences cast, entries whose cast raised, entries
                                \* removed as late with the launcher about to cast them,
    skipped, where              \* a counted cast was left out, where the sonde was left

table == <<rows, news>>
switch == <<ipcRow, ipcNews, status>>
sched == <<loaded, parsedAt, ready, spc, srun, lost>>
launch == <<lpc, lrun, lstate, calibrated, batch, castsToDo, begun>>
hist == <<occurred, failed, overtaken, skipped, where>>
schedulerVars == <<now, table, switch, sched, pending, schedule, launch, acts, hist>>

-----------------------------------------------------------------------------
(* The calendar and the search for the next match. *)

Months == DOMAIN LastDay
Hours == 0..(HoursPerDay - 1)
Minutes == 0..(MinutesPerHour - 1)

\* The minutes of a year in their order, every year alike.
Key(t) == ((t.month * 100 + t.day) * 100 + t.hour) * 100 + t.minute
Dates == {t \in [month : Months, day : UNION {1..LastDay[m] : m \in Months},
                 hour : Hours, minute : Minutes] : t.day <= LastDay[t.month]}
Year == [i \in 1..Cardinality(Dates) |->
            CHOOSE t \in Dates : Cardinality({u \in Dates : Key(u) < Key(t)}) = i - 1]
DateOf(n) ==
    LET t == Year[(n % Len(Year)) + 1]
    IN [month |-> t.month, day |-> t.day, hour |-> t.hour, minute |-> t.minute, year |-> n \div Len(Year)]
NumberOf(t) == t.year * Len(Year) - 1 +
    (CHOOSE i \in DOMAIN Year : Key(Year[i]) = Key(t))

Matches(cron, t) ==
    /\ t.month \in cron.month /\ t.day \in cron.day
    /\ t.hour \in cron.hour /\ t.minute \in cron.minute

\* What the loop repairs before it compares: minutes and hours that overflow,
\* a day the month does not have, a month the year does not have.
Repair(t) ==
    LET a == IF t.minute >= MinutesPerHour
             THEN [t EXCEPT !.minute = @ - MinutesPerHour, !.hour = @ + 1] ELSE t
        b == IF a.hour >= HoursPerDay
             THEN [a EXCEPT !.hour = @ - HoursPerDay, !.day = @ + 1] ELSE a
        valid == b.month \in Months /\ b.day \in 1..LastDay[b.month]
        c == IF valid THEN b
             ELSE IF b.month = Len(LastDay)
                  THEN [b EXCEPT !.day = 1, !.month = 1, !.year = @ + 1]
                  ELSE [b EXCEPT !.day = 1, !.month = @ + 1]
    IN IF c.month > Len(LastDay) THEN [c EXCEPT !.month = 1, !.year = @ + 1] ELSE c

\* mutant of Advance: a new month or day keeps the hour and the minute
AdvanceKeeping(cron, t) ==
    IF t.month \notin cron.month THEN [t EXCEPT !.month = @ + 1, !.day = 1]
    ELSE IF t.day \notin cron.day THEN [t EXCEPT !.day = @ + 1]
    ELSE IF t.hour \notin cron.hour THEN [t EXCEPT !.hour = @ + 1, !.minute = 0]
    ELSE [t EXCEPT !.minute = @ + 1]

\* One comparison: the largest field that does not match is counted up and the
\* smaller ones start again.
Advance(cron, t) ==
    IF t.month \notin cron.month
    THEN [t EXCEPT !.month = @ + 1, !.day = 1, !.hour = 0, !.minute = 0]
    ELSE IF t.day \notin cron.day THEN [t EXCEPT !.day = @ + 1, !.hour = 0, !.minute = 0]
    ELSE IF t.hour \notin cron.hour THEN [t EXCEPT !.hour = @ + 1, !.minute = 0]
    ELSE [t EXCEPT !.minute = @ + 1]

\* What the loop compares in its turns: MaxIters dates at most, fewer when one matches.
Tries(cron, n) ==
    LET try[i \in 0..(MaxIters - 1)] ==
            IF i = 0 THEN Repair(DateOf(n))
            ELSE LET t == try[i - 1] IN IF Matches(cron, t) THEN t ELSE Repair(Advance(cron, t))
    IN try

\* The next match from minute n on, NoTime when the tries are used up.
NextMatch(cron, n) ==
    LET last == Tries(cron, n)[MaxIters - 1]
    IN IF Matches(cron, last) THEN NumberOf(last) ELSE NoTime

-----------------------------------------------------------------------------
(* parse_db: pending is built again from the rows read last. *)

Parsed(rs, n) ==
    LET next == [e \in {x \in Entries : rs[x] # NoPlan} |-> NextMatch(rs[e].cron, n + Pre)]
        found == {e \in DOMAIN next : next[e] # NoTime}
    IN [e \in found |-> [time |-> next[e], mark |-> "none"]]

ParseDb ==
    /\ pending' = Parsed(loaded, now)
    /\ parsedAt' = now /\ lost' = {}

LoadDb ==
    /\ loaded' = rows
    /\ news' = FALSE
    /\ pending' = Parsed(rows, now)
    /\ parsedAt' = now /\ lost' = {}

(* AVPScheduleStatus: reading the state polls the database first. *)
Refreshed ==
    IF ipcNews /\ ipcRow.value # status.state
    THEN [state |-> ipcRow.value,
          resume |-> IF ipcRow.value = "paused" THEN ipcRow.time + Pause ELSE status.resume]
    ELSE status

GetState ==
    /\ status' = Refreshed
    /\ ipcNews' = FALSE
    /\ UNCHANGED ipcRow

\* _set_state in another process (console, display) and in the launcher.
SetState(v) ==
    /\ ipcRow' = [value |-> v, time |-> now]
    /\ ipcNews' = TRUE

SchedulerInit ==
    /\ now = FirstMinute
    /\ rows = FirstTable /\ news = FALSE
    /\ ipcRow \in [value : Orders, time : {FirstMinute}] /\ ipcNews = FALSE
    /\ status = [state |-> ipcRow.value,
                 resume |-> IF ipcRow.value = "paused" THEN FirstMinute + Pause ELSE FirstMinute]
    /\ loaded = FirstTable /\ parsedAt = FirstMinute
    /\ pending = Parsed(FirstTable, FirstMinute)
    /\ schedule = << >> /\ ready = << >>
    /\ spc = "purge" /\ srun = FirstMinute /\ lost = {}
    /\ lpc = "top" /\ lrun = FirstMinute /\ lstate = "unknown"
    /\ calibrated = FALSE /\ batch = << >> /\ castsToDo = 0 /\ begun = FALSE
    /\ acts = 0
    /\ occurred = {} /\ failed = {} /\ overtaken = {} /\ skipped = FALSE /\ where = "tube"

-----------------------------------------------------------------------------
(* The scheduler thread. *)

SWake ==
    /\ spc = "sleep" /\ srun < now
    /\ spc' = "purge" /\ srun' = now
    /\ ready' = << >>
    /\ UNCHANGED <<now, table, switch, loaded, parsedAt, lost, pending, schedule, launch, acts, hist>>

\* An entry that never was combined with another has no insert_time: its age
\* counts as 0 for ever.
Late(e) == schedule[e].since # NoTime /\ now - schedule[e].since >= MaxScheduled
Removable == {e \in DOMAIN schedule : schedule[e].action = "done" \/ Late(e)}

Overtaken == UNION {schedule[e].covers : e \in {x \in Removable : Late(x) /\ batch # << >>}}

\* mutant of Purge: what is removed does not lead to a new pending
PurgeOnly ==
    /\ spc = "purge"
    /\ schedule' = [e \in DOMAIN schedule \ Removable |-> schedule[e]]
    /\ overtaken' = overtaken \cup Overtaken
    /\ spc' = "poll"
    /\ UNCHANGED <<now, table, switch, loaded, parsedAt, lost, ready, srun, pending, launch, acts, occurred, failed, skipped, where>>

Purge ==
    /\ spc = "purge"
    /\ schedule' = [e \in DOMAIN schedule \ Removable |-> schedule[e]]
    /\ overtaken' = overtaken \cup Overtaken
    /\ spc' = IF Removable = {} THEN "poll" ELSE "reparse"
    /\ UNCHANGED <<now, table, switch, loaded, parsedAt, lost, ready, srun, pending, launch, acts, occurred, failed, skipped, where>>

Reparse ==
    /\ spc = "reparse"
    /\ ParseDb
    /\ spc' = "purge"
    /\ UNCHANGED <<now, table, switch, loaded, ready, srun, schedule, launch, acts, hist>>

Poll ==
    /\ spc = "poll"
    /\ spc' = "scan"
    /\ IF news THEN LoadDb ELSE UNCHANGED <<news, loaded, pending, parsedAt, lost>>
    /\ UNCHANGED <<now, rows, switch, ready, srun, schedule, launch, acts, hist>>

Due == {e \in DOMAIN pending : pending[e].time = now + Pre /\ pending[e].mark = "none"}

\* What is due is marked and goes to ready.  For what was scheduled and is over,
\* a warning looks at the state of the schedule.
Scan ==
    /\ spc = "scan"
    /\ ready' = [e \in Due |->
                    [time |-> pending[e].time, isco |-> loaded[e].isco, lisst |-> loaded[e].lisst,
                     depth |-> loaded[e].depth, whole |-> loaded[e].whole,
                     since |-> NoTime, covers |-> {e}, action |-> "none"]]
    /\ pending' = [e \in DOMAIN pending |->
                    IF e \in Due THEN [pending[e] EXCEPT !.mark = "scheduled"] ELSE pending[e]]
    /\ IF \E e \in DOMAIN pending : pending[e].mark = "scheduled" /\ pending[e].time <= now
       THEN GetState ELSE UNCHANGED switch
    /\ spc' = "combine"
    /\ UNCHANGED <<now, table, loaded, parsedAt, lost, srun, schedule, launch, acts, hist>>

\* mutant of Combine: the others stay in ready
CombineKeeping ==
    /\ spc = "combine"
    /\ LET plain == {e \in DOMAIN ready : ~ready[e].isco}
       IN IF Cardinality(plain) < 2
          THEN UNCHANGED ready
          ELSE \E first \in plain :
              ready' = [ready EXCEPT ![first] =
                    [@ EXCEPT !.lisst = \E x \in plain : ready[x].lisst,
                              !.since = now, !.covers = plain]]
    /\ spc' = "give"
    /\ UNCHANGED <<now, table, switch, loaded, parsedAt, lost, srun, pending, schedule, launch, acts, hist>>

\* Casts without a water sample that are due together become one cast, that of
\* the first; the others are no longer marked.
Combine ==
    /\ spc = "combine"
    /\ LET plain == {e \in DOMAIN ready : ~ready[e].isco}
       IN IF Cardinality(plain) < 2
          THEN UNCHANGED <<ready, pending>>
          ELSE \E first \in plain :
              /\ ready' = [e \in DOMAIN ready \ (plain \ {first}) |->
                    IF e = first
                    THEN [ready[e] EXCEPT !.lisst = \E x \in plain : ready[x].lisst,
                                          !.since = now, !.covers = plain]
                    ELSE ready[e]]
              /\ pending' = [e \in DOMAIN pending |->
                    IF e \in plain \ {first} THEN [pending[e] EXCEPT !.mark = "none"] ELSE pending[e]]
    /\ spc' = "give"
    /\ UNCHANGED <<now, table, switch, loaded, parsedAt, lost, srun, schedule, launch, acts, hist>>

\* One entry goes to the schedule, unless an earlier one of its number is there:
\* what was combined with it is then lost with it.
Give ==
    /\ spc = "give"
    /\ IF ready = << >>
       THEN spc' = "sleep" /\ UNCHANGED <<ready, schedule, lost>>
       ELSE \E e \in DOMAIN ready :
            /\ schedule' = [x \in DOMAIN schedule \cup {e} |->
                    IF x \in DOMAIN schedule THEN schedule[x]
                    ELSE [ready[e] EXCEPT !.action = "queued"]]
            /\ ready' = [x \in DOMAIN ready \ {e} |-> ready[x]]
            /\ lost' = IF e \in DOMAIN schedule THEN lost \cup (ready[e].covers \ {e}) ELSE lost
            /\ UNCHANGED spc
    /\ UNCHANGED <<now, table, switch, loaded, parsedAt, srun, pending, launch, acts, hist>>

-----------------------------------------------------------------------------
(* The launcher thread. *)

\* The launcher sleeps until five seconds after the next full minute.  When a
\* cast ended in the first seconds of a minute that is still this minute.
Sleeps ==
    /\ lpc' = "sleep"
    /\ lrun' \in IF lrun = now THEN {now} ELSE {now - 1, now}

LWake ==
    /\ lpc = "sleep" /\ lrun < now
    /\ lpc' = "top" /\ lrun' = now
    /\ UNCHANGED <<now, table, switch, sched, pending, schedule, lstate, calibrated, batch, castsToDo, begun, acts, hist>>

\* The state is read; a first "on" calibrates, a pause that is over is ended.
ReadState ==
    /\ lpc = "top"
    /\ GetState
    /\ lstate' = status'.state
    /\ CASE lstate' = "on" -> lpc' = (IF calibrated THEN "look" ELSE "calibrating") /\ UNCHANGED lrun
         [] lstate' = "paused" /\ status'.resume <= now -> lpc' = "resume" /\ UNCHANGED lrun
         [] OTHER -> Sleeps
    /\ UNCHANGED <<now, table, sched, pending, schedule, calibrated, batch, castsToDo, begun, acts, hist>>

\* The pause is ended by an order of the launcher's own, whatever was ordered
\* since the state was read.
Resume ==
    /\ lpc = "resume"
    /\ SetState("on")
    /\ status' = [status EXCEPT !.resume = now]
    /\ Sleeps
    /\ UNCHANGED <<now, table, sched, pending, schedule, lstate, calibrated, batch, castsToDo, begun, acts, hist>>

Calibrated ==
    /\ lpc = "calibrating"
    /\ calibrated' = TRUE
    /\ lpc' = "top"
    /\ UNCHANGED <<now, table, switch, sched, pending, schedule, lrun, lstate, batch, castsToDo, begun, acts, hist>>

Queued == {e \in DOMAIN schedule : schedule[e].action = "queued"}
Plain == {e \in Queued : ~schedule[e].isco}
Orderings(S) ==
    {o \in [1..Cardinality(S) -> S] : \A i, j \in 1..Cardinality(S) : i < j =>
        /\ o[i] # o[j]
        /\ o[j] \in Plain => o[i] \in Plain
        /\ o[i] \in Plain \/ schedule[o[i]].depth >= schedule[o[j]].depth}

\* The casts of this round in their order: the one without a sample first, then
\* those with one, deepest first.  More than one without a sample is too many.
Look ==
    /\ lpc = "look"
    /\ IF Queued = {}
       THEN Sleeps /\ UNCHANGED <<batch, castsToDo, begun, skipped>>
       ELSE LET crowd == IF Cardinality(Plain) > 1 THEN Plain ELSE {}
            IN \E order \in Orderings(Queued \ crowd) :
               /\ batch' = [order |-> order, marks |-> Queued \ crowd, crowd |-> crowd,
                            info |-> [e \in Queued |-> schedule[e]]]
               /\ castsToDo' = Cardinality(Queued)
               /\ begun' = FALSE
               /\ skipped' = (crowd # {})
               /\ lpc' = "mark"
               /\ UNCHANGED lrun
    /\ UNCHANGED <<now, table, switch, sched, pending, schedule, lstate, calibrated, acts, occurred, failed, overtaken, where>>

\* Each of a crowd is skipped; an entry the scheduler removed meanwhile raises
\* an exception that ends the thread.
Crowd(e) ==
    /\ lpc = "mark" /\ e \in batch.crowd
    /\ batch' = [batch EXCEPT !.crowd = @ \ {e}]
    /\ IF e \in DOMAIN schedule
       THEN schedule' = [schedule EXCEPT ![e].action = "done"] /\ UNCHANGED lpc
       ELSE lpc' = "dead" /\ UNCHANGED schedule
    /\ UNCHANGED <<now, table, switch, sched, pending, lrun, lstate, calibrated, castsToDo, begun, acts, hist>>

\* The others are marked in pending; an entry that is no longer there raises an
\* exception that ends the thread.
Mark(e) ==
    /\ lpc = "mark" /\ batch.crowd = {} /\ e \in batch.marks
    /\ batch' = [batch EXCEPT !.marks = @ \ {e}]
    /\ IF e \in DOMAIN pending
       THEN pending' = [pending EXCEPT ![e].mark = "processed"] /\ UNCHANGED lpc
       ELSE lpc' = "dead" /\ UNCHANGED pending
    /\ UNCHANGED <<now, table, switch, sched, schedule, lrun, lstate, calibrated, castsToDo, begun, acts, hist>>

Marked ==
    /\ lpc = "mark" /\ batch.crowd = {} /\ batch.marks = {}
    /\ lpc' = "next"
    /\ UNCHANGED <<now, table, switch, sched, pending, schedule, lrun, lstate, calibrated, batch, castsToDo, begun, acts, hist>>

Current == Head(batch.order)

\* The rest of the loop's body after a cast.
NextCast ==
    /\ batch' = [batch EXCEPT !.order = Tail(@)]
    /\ castsToDo' = castsToDo - 1
    /\ begun' = TRUE
    /\ lpc' = "next"

\* An entry with a parameter missing is passed over, and stays queued.
Invalid ==
    /\ lpc = "next" /\ batch.order # << >> /\ ~batch.info[Current].whole
    /\ skipped' = TRUE
    /\ NextCast
    /\ UNCHANGED <<now, table, switch, sched, pending, schedule, lrun, lstate, calibrated, acts, occurred, failed, overtaken, where>>

\* do_cast: the entry is marked in schedule, then in pending.  An exception on
\* the way is caught at its end and leaves the marks as they are.
Casting ==
    /\ lpc = "next" /\ batch.order # << >> /\ batch.info[Current].whole
    /\ IF Current \in DOMAIN schedule
       THEN /\ schedule' = [schedule EXCEPT ![Current].action = "casting"]
            /\ lpc' = "acting"
            /\ UNCHANGED <<batch, castsToDo, begun, failed, skipped>>
       ELSE /\ NextCast
            /\ failed' = failed \cup {Current} /\ skipped' = TRUE
            /\ UNCHANGED schedule
    /\ UNCHANGED <<now, table, switch, sched, pending, lrun, lstate, calibrated, acts, occurred, overtaken, where>>

Acting ==
    /\ lpc = "acting"
    /\ IF Current \in DOMAIN pending
       THEN /\ pending' = [pending EXCEPT ![Current].mark = "acting"]
            /\ lpc' = "casting"
            /\ UNCHANGED <<batch, castsToDo, begun, failed, skipped>>
       ELSE /\ NextCast
            /\ failed' = failed \cup {Current} /\ skipped' = TRUE
            /\ UNCHANGED pending
    /\ UNCHANGED <<now, table, switch, sched, schedule, lrun, lstate, calibrated, acts, occurred, overtaken, where>>

\* pre_config raised: a broker's configuration or a parameter was no good.
ConfigFails ==
    /\ lpc = "casting" /\ acts < MaxActs
    /\ acts' = acts + 1
    /\ NextCast
    /\ failed' = failed \cup {Current} /\ skipped' = TRUE
    /\ UNCHANGED <<now, table, switch, sched, pending, schedule, lrun, lstate, calibrated, occurred, overtaken, where>>

\* mutant of CastEnds: the first cast returns, not the last
CastEndsFirst ==
    /\ lpc = "casting"
    /\ occurred' = occurred \cup {<<e, batch.info[Current].time>> : e \in batch.info[Current].covers}
    /\ \/ where' = (IF ~begun THEN "tube" ELSE "bottom") /\ UNCHANGED acts
       \/ where' = "left" /\ acts < MaxActs /\ acts' = acts + 1
    /\ lpc' = "finish"
    /\ UNCHANGED <<now, table, switch, sched, pending, schedule, lrun, lstate, calibrated, batch, castsToDo, begun, failed, overtaken, skipped>>

\* The sonde is parked in the tube when this is the last cast to do.  A cast that
\* was aborted with park False, or that raised, does not park: the sonde is left
\* where it then was, in the air or in the water.  The launcher does not ask.
CastEnds ==
    /\ lpc = "casting"
    /\ occurred' = occurred \cup {<<e, batch.info[Current].time>> : e \in batch.info[Current].covers}
    /\ \/ where' = (IF castsToDo = 1 THEN "tube" ELSE "bottom") /\ UNCHANGED acts
       \/ where' = "left" /\ acts < MaxActs /\ acts' = acts + 1
    /\ lpc' = "finish"
    /\ UNCHANGED <<now, table, switch, sched, pending, schedule, lrun, lstate, calibrated, batch, castsToDo, begun, failed, overtaken, skipped>>

\* mutant of Finish: only an entry that pending still has is done
FinishPending ==
    /\ lpc = "finish"
    /\ schedule' = IF Current \in DOMAIN schedule /\ Current \in DOMAIN pending
                   THEN [schedule EXCEPT ![Current].action = "done"] ELSE schedule
    /\ NextCast
    /\ UNCHANGED <<now, table, switch, sched, pending, lrun, lstate, calibrated, acts, hist>>

\* An entry that was removed while it was cast raises, and is caught.
Finish ==
    /\ lpc = "finish"
    /\ schedule' = IF Current \in DOMAIN schedule
                   THEN [schedule EXCEPT ![Current].action = "done"] ELSE schedule
    /\ NextCast
    /\ UNCHANGED <<now, table, switch, sched, pending, lrun, lstate, calibrated, acts, hist>>

RoundEnds ==
    /\ lpc = "next" /\ batch.order = << >>
    /\ Sleeps
    /\ batch' = << >> /\ castsToDo' = 0 /\ begun' = FALSE
    /\ UNCHANGED <<now, table, switch, sched, pending, schedule, lstate, calibrated, acts, hist>>

-----------------------------------------------------------------------------
(* The world. *)

\* An operator writes or deletes a row.
Edit(e, p) ==
    /\ acts < MaxActs /\ rows[e] # p
    /\ acts' = acts + 1
    /\ rows' = [rows EXCEPT ![e] = p]
    /\ news' = TRUE
    /\ UNCHANGED <<now, switch, sched, pending, schedule, launch, hist>>

Order(v) ==
    /\ acts < MaxActs /\ ipcRow.value # v
    /\ acts' = acts + 1
    /\ SetState(v)
    /\ UNCHANGED <<now, table, status, sched, pending, schedule, launch, hist>>

\* A minute passes when the scheduler has done its round of this one and the
\* launcher is asleep, gone, or busy with what takes minutes.
Tick ==
    /\ now < Horizon
    /\ spc = "sleep" /\ srun = now
    /\ lpc \in {"calibrating", "casting", "dead"} \/ (lpc = "sleep" /\ lrun = now)
    /\ now' = now + 1
    /\ UNCHANGED <<table, switch, sched, pending, schedule, launch, acts, hist>>

Scheduler == SWake \/ Purge \/ Reparse \/ Poll \/ Scan \/ Combine \/ Give
Launcher ==
    \/ LWake \/ ReadState \/ Resume \/ Calibrated \/ Look
    \/ \E e \in Entries : Crowd(e) \/ Mark(e)
    \/ Marked \/ Invalid \/ Casting \/ Acting \/ ConfigFails \/ CastEnds \/ Finish \/ RoundEnds
World == Tick \/ (\E e \in Entries, p \in RowPlans \cup {NoPlan} : Edit(e, p)) \/ (\E v \in Orders : Order(v))

SchedulerNext == Scheduler \/ Launcher \/ World
SchedulerSpec == SchedulerInit /\ [][SchedulerNext]_schedulerVars

-----------------------------------------------------------------------------
(* Properties. *)

\* The days whose first minute the search looks at on its way from minute n to
\* minute m, at least: it passes over months that do not match.
DaysLooked(cron, n, m) ==
    {k \in (n + 1)..m : LET d == DateOf(k)
                        IN d.hour = 0 /\ d.minute = 0 /\ (d.month \in cron.month \/ d.day = 1)}

\* A match the tries suffice for: one for each of those days, and those for the
\* hours of a day and the minutes of an hour, which the first day and the last share.
Reachable(cron, n) ==
    \E m \in n..(n + Len(Year) - 1) :
        /\ Matches(cron, DateOf(m))
        /\ Cardinality(DaysLooked(cron, n, m)) + (HoursPerDay - 1) + (MinutesPerHour - 1) < MaxIters

\* Every row there may be has a match the tries suffice for, or none at all.
RowsInReach ==
    \A e \in Entries : \A p \in (RowPlans \cup {FirstTable[e]}) \ {NoPlan} :
        \A n \in (FirstMinute + Pre)..(Horizon + Pre) :
            (\E m \in n..(n + Len(Year) - 1) : Matches(p.cron, DateOf(m))) => Reachable(p.cron, n)

\* What the loop finds is the first minute that matches, from the earliest one
\* that can still be prepared; a row that matches within the year is found.
NextIsEarliest ==
    \A e \in Entries :
        LET from == parsedAt + Pre
            hits == {n \in from..(from + Len(Year) - 1) :
                        loaded[e] # NoPlan /\ Matches(loaded[e].cron, DateOf(n))}
        IN IF hits = {} THEN e \notin DOMAIN pending
           ELSE /\ e \in DOMAIN pending
                /\ pending[e].time \in hits /\ \A n \in hits : pending[e].time <= n

\* Every occurrence of a row is cast at most once, alone or combined with others.
CastOnce ==
    [][lpc = "casting" /\ lpc' = "finish" =>
        \A e \in batch.info[Current].covers : <<e, batch.info[Current].time>> \notin occurred]_schedulerVars

\* After the scheduler's round of a minute, whatever is due in it waits in the
\* schedule, or an earlier occurrence of it is still there, alone or combined
\* with others.  Excepted are rows that the time limit took from under the
\* launcher, and rows lost in a combination, until pending is built again.
DueIsQueued ==
    spc = "sleep" /\ srun = now =>
        \A e \in Entries \ (overtaken \cup lost) :
            loaded[e] # NoPlan /\ Matches(loaded[e].cron, DateOf(now + Pre))
                => \E x \in DOMAIN schedule : e \in schedule[x].covers

\* An entry that says it is being cast is being cast, unless its cast raised.
CastingIsCast ==
    \A e \in DOMAIN schedule :
        schedule[e].action = "casting" =>
            \/ e \in failed
            \/ lpc \in {"acting", "casting", "finish"} /\ Current = e

\* A round leaves the sonde in the tube, unless it left out a cast it had counted
\* or its last cast itself, aborted or raising, left the sonde where it was.  That
\* an earlier cast of the round did so must not matter.
EndsInTube == lpc = "sleep" /\ ~skipped => where \in {"tube", "left"}
=============================================================================
