# AVP in TLA+

Verification development for the Autonomous Vertical Profiler (AVP). A winch
lowers a water-quality sonde from a moored platform. Java brokers, one process
per instrument, own the instruments and serve them over JSON-RPC on TCP sockets;
Python programs schedule and run the casts as clients of the brokers; an Arduino
sketch runs the winch motor on newer platforms. Everything is unattended, on
cellular links and switched power: connections break, instruments fall silent,
programs are killed and restarted, and several programs talk to one broker.

Paths below are relative to the repository; `avp/` stands for
`src/javp/src/main/java/edu/unc/ims/avp/` and `instruments/` for
`src/javp/src/main/java/edu/unc/ims/instruments/`.

Contents: 1 the system, 2 modules and code, 3 runs and bounds, 4 fairness,
5 proofs, 6 where the code departs from what one would expect, 7 not modelled,
8 plan.

## 1. The system

### 1.1 Components, their state, their operations

| Component | Source | State | Operations |
|---|---|---|---|
| Control token | `avp/ControlToken.java` | `owner`, `ownerID` | `acquire` (polite or forced), `release`, `inUse`, `take`, `give` |
| Client handler, one thread per client | `avp/ControllerClientHandler.java` | `mToken`, `mActive`, the socket | read a request, process it, unregister on exit |
| Broker | `avp/Broker.java` | `mState`, `mSuspended`, `mClients` | dispatch, suspend, resume, connect, disconnect, power, shutdown |
| Watchdog | `avp/BrokerWatchdog.java` | its tick | test the device once a minute, reconnect |
| Requests | `avp/BrokerRequest.java`, `BrokerMessage.java` | none | subscribe, unsubscribe, status, set, list_data |
| Subscription, one thread each | `avp/BrokerSubscription.java` | `mParameters`, `mActive`, `mListener` | register, poll, notify, unsubscribe |
| Adapter base | `avp/adapters/BrokerAdapter.java` | `mSubs`, its own `mSuspended`, power | add, look up, remove subscriptions |
| Instruments with a reader thread | `instruments/generic/GenericDataStream.java` and the sounders, weather stations and sondes written alike | `mState`, `mDeviceState`, `mShutdown`, `mSocket`, `mReaderThread` | connect, disconnect, the reader's loop |
| Motor controller driver | `instruments/motionmind3/MM3.java` | cached registers and their ages, the socket | connect, disconnect, commands, `readRegister`, `read`, `sendBytes` |
| Motor controller adapter | `avp/adapters/MotionMind3Adapter.java` | `shouldWait` | get, put, function bits |
| Database | `avp/Db.java`, `BufferedPreparedStatement.java` | `mPsQueue`, `mConn` | buffered execute, reconnect |
| Power relay client | `avp/IoClient.java`, `BrokerClient.java` | `mID`, `mResponse`, the out queue | switch pin, read pin |
| Python broker client | `src/python/avp_broker.py` | `_json_id`, `msg`, `_rx_r`, `_rx_n`, `subscriptions`, `callbacks`, `token_acquired`, `running`, `connected` | calls, reconnection, subscriptions, token |
| Scheduler, launcher | `src/python/avp_sched.py` | the table of casts, `pending`, `schedule`, the switch on/off/paused | read the table, queue what is due, combine, launch, pause, resume |
| Winch and cast | `src/python/avp_winch.py`, `avp_cast.py` | the move under way, the stage of a cast, `abort_cast` | move and watch, stop, park, calibrate, the stages of a cast |
| Supervisor | `src/python/supervisor.py`, `avp_util.py` | `loops`, `check_cs`, the pids, the clients | look for processes, start them, make and initialise clients |
| Winch sketch | `src/arduino/Intelligent Winch/winch/` | motion, position feedback, EEPROM state | loop, commands |

The rest (other instruments, dashboard, console, displays, scripts, web pages,
site variants, vendored libraries) is listed with its reason in section 7.

### 1.2 How they interact

- A Python program calls its `_BrokerClient`; the `SocketHandler` thread of that
  client exchanges lines with one `ControllerClientHandler` of the broker.
- The handler looks up the request, asks `ControlToken` whether its client may
  send it, and runs it on its own thread: it changes `mState`, `mSuspended`, the
  adapter and the instrument directly.
- A subscribe request starts a `BrokerSubscription` thread, which registers itself
  in the adapter's `mSubs`, polls the adapter and writes notifications through
  the handler of its client.
- The watchdog thread reads `mState` and the instrument's state and calls the
  same `connect()` and `disconnect()` as the handlers do.
- Instruments run a reader thread that notifies the adapter, which stores
  records through `Db`.
- Adapters switch instrument power through `IoClient`, a client of another broker.
- The supervisor starts brokers and the scheduler program as processes of their
  own and later knows them by their command lines only.
- The scheduler program runs two threads: one moves what is due from `pending` to
  `schedule`, the launcher casts what it finds there. A cast drives the winch
  through the motor's broker and watches it through items, the callback of a
  motor fault and the stop reason in the database, which any program may write.
- Operators change the table and the switch through the database.

### 1.3 What is hard, and what makes each part correct

| Part | Hard behaviour | What has to hold |
|---|---|---|
| Token | methods are synchronized, sequences of them are not; clients die holding it; it can be forced away during a command | owner and flags agree, a dead client loses it, restricted methods exclude each other |
| Lifecycle | three kinds of threads write two suspended flags and a state in steps | the flags agree when nothing is in progress, the broker settles |
| Subscriptions | the answer comes before the registration; a list is changed under its iterator | what is subscribed can be unsubscribed, threads end |
| Reader threads | one stop flag for all readers, sockets closed by others, silent instruments | connected means read, stops are heeded, sockets closed |
| Database | broken connections before and after a commit | nothing lost, order kept |
| Motor link | lost, late and damaged replies that carry no id; retries; a cache | done means executed, values are current, calls return |
| Python calls | several threads share an id counter and a message; late replies; reconnection | own replies, nothing executed twice, the handler thread survives, connections come back |
| Python session | the dictionary is written before the broker is asked; two threads write an item; a handler thread that stops and starts; a broker that forgets | books agree, what is read is fresh, callbacks are told news only |
| Scheduler | two threads meet at two locks; casts overrun; a hand-made search of a calendar; combined casts | nothing due is lost or cast twice, no entry stays half done, the sonde ends in its tube |
| Winch and cast | the motor runs on while the program waits; the token goes to others; a fault at any step of a long script | the motor is watched while it runs, a fault that forbids moves is heeded, all is quiet at the end |
| Supervisor | children outlive it; scans break off; clients made before their broker is there | one scheduler, a scheduler again, every client in the end |

`PROJECT.json` lists each hazard at its line with the properties that watch it.

## 2. Modules and code

One module per component; `<Module>Proofs` extends it with theorems, `MC<Module>`
instantiates it for TLC. Two modules of proofs are about parts that stand side by
side and share no state: PythonProofs about BrokerRpc, Supervisor and
CastScheduler, MotorProofs about MM3Link and about Cast with Winch; that is why
Supervisor, CastScheduler and Cast name their `Init`, `Next` and `Spec` after themselves. A thread has a place (`pc`) between two atomic steps of
its code; a synchronized method, or a statement that touches one shared
variable, is one step. Definitions marked `mutant` beside a definition are wrong
variants of it, kept to show that the properties notice them. A variable marked
history is read by no action of the code: it remembers what a property needs.

**ControlToken**, with **TokenService**. Handlers interleave between the
synchronized methods: `AcquireInUse`, `AcquireEquals`, `ForceTake`, `AcquireGive`
are the pieces of `acquire()`, `ReleaseEquals` and `ReleaseTake` those of
`release()`, `Unregister*` those of `Broker.unregister()`. A client may hang up
at any time (`Hangup`); the loop sees it between two requests only. A client whose
host drops out without a FIN or an RST (`Vanish`) is not seen at all: the loop ignores
that its reads time out, and no keepalive is set. Only a write to it that the system
gives up (`WriteFails`, owed by nobody) ends the loop. A restricted
command tests the flag once (`RequestCommand`) and then takes as long as it
likes. `take()` on a free token throws as in the code, ending the request or the
thread. TokenService is the promise: one holder, grants of a free token only,
losses by return or by a client that may force, and only the holder begins a
restricted command.

**BrokerLifecycle**. The two flags and the state are separate variables written
in the order of the code by handler threads and by the watchdog. The instrument's
`connect()` refuses a connected instrument, as the code does. Power switching,
`softReset` and shutdown are outside.

**Subscription**. A request is one step of a handler thread; the subscription's
thread registers one parameter per step with the iterator's own test
(`HasNext` compares the cursor with the size) and exception
(`ConcurrentModificationException` when `modified`). `mSubs` is a `HashMap` without a
lock: a thread enters an operation on it and leaves it in another step (`EnterMap`,
`LeaveMap`), and one whose operation overlapped another may leave any entries lost
(`Tables`) or turn in it for ever (`PutHangs`, the handler's requests likewise);
`torn` remembers that two operations overlapped. Threads of gone clients end
by themselves. Whether a poll is due and whether there is news is left open.

**ReaderThread**. `connect()` and `disconnect()` in steps on caller threads, the
reader's loop on reader threads: flush to the first newline, socket checks, poll,
line, notify. Sockets may break, lines may stall, a reopening may fail, and the other
end may close the connection (`HangUp`): then `read()` returns -1 for ever, and the
loop that waits for a newline goes on (`Spin`) without looking at the stop flag, until
`mReader` is replaced by another socket's. The
configuration `ok_to_write` is a variable fixed by `Init`.

**DbBuffer**. One call at a time (the method is synchronized) with its first
drain, reconnection and second drain. The connection may die at any moment,
before or after the server committed. `Db.java:88` recognises a broken connection by
two texts; one that is reported in other words is taken for a refusal, so it removes
the statement at the head, good or not (`DrainThrows`). `misread` remembers these.

**MM3Link**. One call at a time, as the monitor of `sendBytes()` allows, except
`disconnect()`, whose closing runs under a following call. The line executes or
loses a command; a reply may come late, into the next call, whole, spoilt or as its
first byte only, and a pause may cut it in two (`Pause`), since `sendBytes()` ends a
reply at a pause of 30 ms. The checksum refuses what is spoilt, but not a single byte,
which is compared with itself; `cut` remembers that a reply of this call was cut
after its first byte. `late` remembers
whether bytes of an earlier command were still on the way when a command was
sent. Values are version numbers of a register; a register cache entry knows
whether it is a placeholder and whether it is recent.

**BrokerRpc**, with **CallService**. Threads of a Python program call one client. Between reading
`_json_id` and dumping `self.msg` there are five places, each touching one shared
attribute. The `SocketHandler` thread is modelled with its buffer (`select` sees
the socket, `readline` the buffer), its end of stream, its two fatal exceptions
and its reconnection. `apart` remembers whether two calls were ever composed at
once, `executed` what the broker has executed. CallService is the promise: the broker
executes a request once or not at all, as its caller made it; a call ends with its own
answer, and then its request was executed, or with none, and then that is open. The
steps of composing, the connection and the buffer are hidden from it.

**Session**. The same client one level up: a call is sent, answered, refused or
given up, as CallService allows, and what matters is what the client believes.
`_subscribe` enters a name and the item's own in `subscriptions` and sets
`_subscribed` before it asks (`Subscribe`); with a `min_interval` of None it
raises there under Python 3 (`SubscribeRaises`). `unsubscribe` drops an alias
without asking when another name is left (`UnsubscribeSome`), or asks and then
drops the entries (`Unsubscribed`), and stops the handler thread when the
dictionary is empty. `_rx_n` fills whether that thread runs or not; the thread
empties it once when it starts. An item's value and time are two writes, by the
handler (`Apply`, `ApplyTime`) and by a read that asked the broker (`WriteValue`,
`WriteStamp`). A value is known by the tick the broker sampled it. `odd` is the
set of parameters whose last call failed or that a lost connection took.

**CastScheduler**. The clock counts minutes, and the calendar is given by constants:
the days of each month, the hours of a day, the minutes of an hour (`LastDay`,
`HoursPerDay`, `MinutesPerHour`), every year alike. The search for the next match
is the loop of `parse_db`: `Tries` are the dates it compares in its turns, after the
repairs of overflowing fields (`Repair`), `max_iters` at most, and `NextMatch` is the
last of them if it matches. The
scheduler thread purges, re-reads the table when it was notified, polls the
switch, scans `pending` and combines what is due (`Purge` to `Give`); the launcher
reads the switch, resumes, calibrates, sorts and marks the round, and casts
(`LWake` to `RoundEnds`). Each takes `schedule_lock` and `pending_lock` as the
code does, and a step ends where a lock is given back. `PRE_CAST_SETUP_TIME`,
`MAX_SCHEDULED_TIME` and `PAUSE_MINUTES` are constants. What a cast does is in
Cast; here it fails to configure, parks the sonde in its tube or leaves it below for
the next cast, or, aborted with `park` False or ended by an exception, leaves it where
it is (`where` is then `left`). The launcher goes on alike.

**Winch** and **Cast**. Winch is a call of `avp_winch.py` in steps: the token is
asked for in two requests (`AskOwner`, `TakeToken`), the move is set up, the stop
reason is cleared and polled, the motor is started, the loop watches and the stop
follows. Between any two steps the motor may move the sonde by a level, a fault
may occur, the fault callback may stop the motor from the socket's thread, and
another program may take the token, move, stop and write a stop reason. Times
are not counted: what the loop stops for after a while, it may stop for at once.
Cast runs the stages of `avp_cast.py` and `Winch.calibration` on top of it; a
stage is an action or several, named after it, and an aborted cast skips the
stages the code skips. `cast.abort` is `abort_cast` with its `park` entry. What the
sonde measures follows from its level, the bottom, an error of the pressure and a
conductivity probe that works, is dry or fails.

**Supervisor**. The loop of `supervisor.py` with its full check of brokers, of
Python processes and of clients, made at the full minute or when `check_cs` asks
for it; `loops` counts up to two, since the code compares it with no more. Processes
live outside: they die, hang, and outlive the supervisor, which may be killed and
started again (`Restart`). A client that cannot connect in its first two seconds is
`crippled`. That of aio looks up its aliases in its constructor: when aio is not
connected or has no instrument this raises, is tried once more, and there is no client
(`MakeClients`). The loop makes none of its client checks then, and ends on the first
client that is in `context.brokers` and not an attribute of `self`
(`supervisor.py:156-157`, place `dead` of `Sleep`), while the process stays. `blind` remembers that the scheduler was started on a scan that broke
off before any pid was known.

The modules do not share variables: they meet at the calls described in 1.2, and
what one assumes of another is an action of its own (a command in ControlToken is
the whole of a lifecycle command, a `Notify` of ReaderThread is a call of the
adapter that may submit a statement to DbBuffer, `Send` to `Answered` of Session are
a call of CallService, in which the broker may execute what was given up, `Casting` of CastScheduler is a run of Cast). Winch and Cast do
share theirs: Cast extends Winch, and every stage interleaves with the motor and
with whoever else has its token.

## 3. Runs

The number of runs is kept small: one per question.

| Run | Distinct states | Bounds | Shows |
|---|---|---|---|
| Token | 394 775 | 3 handlers, 1 may force, another's host may drop out | `OwnerHoldsFlag`, `DepartedNeverOwns` in every interleaving; `TokenComesBack`; `CommandsExclude` while calls are serial and unforced |
| TokenSerial | 21 770 | 3 handlers, 2 may force and drop out, symmetric | serial calls: `FlagIsOwner`, and ControlToken implements TokenService |
| Lifecycle | 102 072 | 2 clients, watchdog, 2 faults | `SerialFlagsInSync`, `Settles` |
| Sub | 631 410 | 2 clients, 2 parameters, 2 subscriptions, lists of 2: one client names `a`, `a b` or `a a`, the other `a` (`MayAsk`) | `EmptyIsStopped`, `Stoppable`, `ThreadsEnd` |
| Reader | 717 956 | 1 caller, 2 readers, 3 sockets, 1 fault | `ConnectedHasReader`, `AllClosed`, `StopIsHeeded` |
| Db | 3 327 | 5 statements, 2 refused, 4 broken connections | `NothingLost`, `InOrder`, `FewDuplicates` |
| Link | 1 216 837 | 2 registers, 2 attempts, 1 fault, 1 change of a register | `Acknowledged`, `RegisterIsCurrent`, `ReadIsCurrent`, `CallsEnd` |
| Rpc | 70 861 | 2 callers, 2 calls, 2 losses | BrokerRpc implements CallService while calls are composed apart (`ImplementsCalls`); `StopsOnlyAfterLoss`, `Recovers` |
| Session | 7 873 842 | 1 parameter with an alias, 3 ticks, `STALE_TIME` 1, 1 fault | `FreshRead`, `NoOldNews`, `BooksAgree` |
| Sched | 1 611 127 | 3 rows, 2 other rows, a year of 12 minutes, 5 minutes of clock, 1 event (an operator's order, an edit, a failed configuration, or a cast that leaves the sonde) | `NextIsEarliest`, `DueIsQueued`, `CastingIsCast`, `EndsInTube`, `CastOnce` |
| Cast | 1 710 511 | 5 plans, 1 cast or calibration, 7 levels, a pressure that reads 0, +1 or -2 off, 1 event | `QuietWhenDone`, `Watched`, `StaysPut`, `ZeroedInAir`, `CastReturns` |
| Supervisor | 125 831 | 2 brokers, 4 faults | `OneScheduler`, `SchedulerRuns`, `ClientsCome` |

Type invariants are stated in the modules and, where a proof needs them, proved;
they are no property of a run.

Why the bounds are enough. Token: a race needs a handler inside a call, one that
cuts in, and one that owns; the one that drops out without a word (`MayVanish`) is not
the one that may force, so that its token can be forced away. Lifecycle: two overlapping commands and the watchdog,
with one fault to need it and one more while it works. Sub: one subscription
orphaned or emptied and another beside it, of the same client or of the other; three
threads, of which any two may meet in the table.
Reader: an old reader and a new one, the socket each of them has and the one it
opens; the fault may be a connection the other end closes. Db: a good and a refused statement before, at and after the one at which
the connection breaks, on both drains. Link: a command, its retry, and the next
command, with one reply lost, late, damaged or cut. Rpc: a call that times out and
the next of the same caller, or two callers at once; two losses, so that a
reconnected handler loses its connection again. Session: one name of a parameter
and another, a subscription, its end and the next; three ticks let a value of the
first be stale in the second; one refusal, lost reply or lost connection. Sched:
a row due often, one due a minute before it and then combined with it while its
earlier occurrence waits, one with a sample, and in their place one incomplete or
yearly; the year's two months differ in length, so that the search meets a day that
is not there; the clock goes on past `MAX_SCHEDULED_TIME` and a pause. Cast: each kind of plan
the code distinguishes, a bottom nearer and farther than the cast, and one thing
that goes wrong, at any step. Supervisor: a death, the supervisor's own restart,
another death and a scan that breaks off. The five tries of
Sched just suffice for its calendar and rows (`MCRowsInReach`); with four they would not.
The safety properties are proved without these bounds; `NextIsEarliest` and
`DueIsQueued` for rows in reach of the tries.

Some properties hold under a discipline of the callers that the code does not
enforce, and say so: *serial* (calls of different clients do not overlap),
*patient* (a new connect waits for the old reader), *polite* (a client names a
parameter once, subscribes to none it has, and waits for the registration),
*apart* (calls of one Python client are not composed at once), `~late` (the
controller's bytes arrive before the next command is sent), `~torn` (no two threads
meet in `mSubs`). Others except a state by name: `broken` (an exception left a stage
of a cast), `odd`, `blind`, `Stranded`, `Orphaned`, `overtaken`, `lost`, `skipped`,
`left`, `vanished`, `hung`, `misread`, `cut`, and a reader that spins at the end of
its stream. What happens without the discipline, and how the excepted
states come about, is told in section 6.

`CHECK_DEADLOCK FALSE` is set where the system may stop: all clients gone
(Token*), all statements handed over (Db), all calls made (Rpc), the last cast
made (Cast), all threads hung in the table (Sub), every reader spinning and the caller
waiting for one that can do no more (Reader); and where only a bound stops it: the clock of Session and of Sched,
the faults and the brokers' instruments in Supervisor.

## 4. Fairness

- Java and Python threads that can run do run: weak fairness of each thread's own
  steps. Steps the outside world asks for (requests, hang-ups, commands,
  faults) have none.
- Lifecycle: the watchdog ticks for ever (`while` loop with a sleep). `Settles`
  supposes that commands stop; faults are bounded, so they stop too.
- Reader: `NoData` and the discovery of a broken socket are strongly fair: the
  instrument pauses between lines for longer than the poll, and a reader that
  keeps asking a broken socket gets an exception. Data are never owed.
- Link: bytes do not stay on the way for ever (weak fairness of `Line`); timeouts
  belong to the calling thread.
- Cast: the program goes on with its work and an ordered motor turns (weak
  fairness of both); no fault and no other program is owed. `CastReturns` needs it.
- Supervisor: the loop goes on (weak fairness), sockets notice and reconnect. The
  check at the full minute is strongly fair only while the loop sleeps by the
  second: three naps of twenty seconds, begun at another second, miss the minute
  again and again, and the properties except that case (`Stranded`).
- Sched and Session claim no liveness and assume no fairness. Session's clock waits
  for the program's threads (`Prompt`): a notification is handled in the tick it
  came in, so that what is fresh can be told in ticks.
- Rpc: a broker that is asked for a connection again and again accepts one (strong
  fairness of `Connect`): the supervisor restarts brokers that are not running.
  The time limit of a call passes: `TimeOut` is a step of the caller.

## 5. Proofs

TLAPS checks every theorem to the last leaf for every value of the constants,
from the assumptions named in the modules (bounds are naturals, null is no
object, `MayForce` is a subset of the handlers; the bottom lies between the surface
and the deepest level, the errors of the pressure are integers of either sign; a
calendar has months of at least a day each, days of hours and hours of minutes, all
written with two digits; the clock does not end before it starts).

- **ControlTokenProofs**. `TypeCorrect`; `OwnerFlag` and `DepartedSafe` need a
  fact about the places: a handler past the test in `unregister()` is either not
  the owner or about to take. `SerialFlags` and `SerialCommands` strengthen the
  agreement of flag and owner by what a handler inside a call has found out,
  which stays true because nobody else is inside one. `SerialImplementsService`
  maps each step to a step or a stutter of TokenService.
- **BrokerLifecycleProofs**. `TypeCorrect`; `SerialFlags`: the invariant says for
  each place of a suspend or resume which flag has been written already; the
  watchdog writes neither.
- **SubscriptionProofs**. `EmptyStopped`: an empty list goes with a lowered flag,
  also in the middle of a registration. `StaysStoppable` from `StopInv`: of a polite
  client one thread at most registers, the map has exactly the part of its list that
  the iterator has passed, and afterwards all that is left of it; this needs the
  list without repetitions, and removing from it must keep it so. It holds while the
  table is whole: two operations that overlap are noted at once (`TornStays`), and what
  one that met no other leaves is what it meant to (`TablesLoseOnly`).
- **ReaderThreadProofs**. `ConnectedReader`: between the steps of `connect()` the
  thread it made exists and, once started, will work on; a reader that begins
  clears the flag and so cannot harm a live one; a connection the other end closed is
  excepted, as its reader may spin, and a hang-up takes no reader from a live one
  (`HangUpStep`). `NothingLeaks` from `SocketInv`: of
  serial and patient callers one reader at most is there, what is open is the present
  socket, only while a reader is there to close it, and a reader that reopens has
  closed it before.
- **DbBufferProofs**. `BufferNothingLost`, `BufferInOrder`, `BufferFewDuplicates`:
  the queue holds increasing numbers up to the last statement, the last row is
  not above the head, and each duplicate uses up a broken connection. What was lost
  was refused by the server, or removed for a broken connection that was misread.
- **MotorProofs**, the link. `LinkAcknowledged`, `LinkRegisterIsCurrent`,
  `LinkReadIsCurrent`: while nothing is late, what is on the way belongs to the
  current command, so what is accepted answers it; a call of `readRegister` or `read`
  throws only when its own reply was cut after the first byte, which a pause may do to
  a reply that is on the way (`PauseKeeps`); cache entries that are served
  are no older than the last reading command.
- **MotorProofs**, the casts. A stage of a cast moves no motor (`Calm`), which leaves
  the steps of Winch and of the other program. `MovesAreWatched` from `WatchInv`: a
  free token means that the motor has no order of this program, and the other
  program stops the motor before it gives the token back. `AbortedStays` from `Put`: a
  cast that may not park is in the stages left to it, with no call under way.
  `DoneIsQuiet` from `Quiet` with `WatchInv`: what runs has the token that was taken
  for it, or a cast that is still to stop it, for every way through the stages.
  `ZeroedOutOfWater` from `Level` and `Looked`: in a stage that zeroes, the level
  remembered in `seen` was above the water, if the probe works.
- **PythonProofs**, the calls. `StopsAfterLoss`: before the first loss, whoever is past
  the test of `connected` works on an open socket. `RepliesAreOwn` (`OwnReply`, of the
  module): while calls are composed apart the counter is the number of calls, an id is the
  number of its call, and every message anywhere is the one its call should have sent; none of
  this needs the connection to be the same, so late and old replies are harmless.
  `ApartCallsAreServed`: BrokerRpc implements CallService. `SentOnce` follows a
  request: not sent, on its way, executed, never two of these (`Unsent`,
  `OnTheWay`); and whatever reply there is, in the socket, in the buffer or in `_rx_r`,
  is to an executed one (`Replied`). So a step of the broker is an `Execute` of a
  call that had none, a reply that is taken an `Answer`, and the rest is hidden.
- **PythonProofs**, the supervisor. `SecondNeverStarts`: `OneScheduler` is inductive
  once the processes are known to be a number.
- **PythonProofs**, the scheduler. `RoundEndsInTube` from `TubeInv`: `casts_to_do` is the
  length of what is left of the round, as long as none was left out; it is the last
  cast's parking that counts, whatever became of the earlier ones.
  `NothingLeftCasting`: an entry is marked when it is the current one, and the rest is
  that neither thread makes an entry out of less. `NothingCastTwice` from `OnceInv`: no
  occurrence (a row and its time) is twice in what is ready, scheduled, or in the
  launcher's batch together with what was scheduled since the batch was made, and none
  of these was cast. A new one is new because the scheduler looks at a minute once and
  all it ever queued is of earlier minutes (`Clock`, `Ages`); the launcher's copy of an
  entry that the scheduler removed stays distinct from the row's next occurrence for
  the same reason. `QueuedIfFound` says `[]NextIsEarliest => []DueIsQueued`: whatever
  way the next matches are found, if they are the earliest ones then all that is due is
  queued. Its `QueueInv` adds to `OnceInv` that what the scheduler has gone past, or
  somebody has marked, is covered by an entry of `schedule` or of `ready` (`Kept`); that
  only a row whose entry is still there is marked by the launcher (`BatchThere`); and
  that the clock is at most a minute ahead of the scheduler (`Punctual`), so that no
  minute is left out. The calendar is periodic (`Periodic`), so a match now is one of
  the matches within a year that `NextIsEarliest` is about.
- **PythonProofs**, the search of the calendar. `SearchIsSound`: however few the tries,
  what is in `pending` matches its row, and no earlier minute from the first that can
  still be prepared does. `NextMatchIsFound` and, with `QueuedIfFound`,
  `NothingDueIsLost`: of rows in reach of the tries (`RowsInReach`) the next match is
  found, and what is due is queued. The steps: `Year` lists its dates in order
  (`YearIsSorted`), so minutes and dates are in one-to-one and ordered correspondence
  (`DateOfNumber`, `NumbersAreOrdered`). A date with a field out of its range is
  compared by `Stamp`, the number its fields spell. One turn of the loop goes from a
  date that does not match to a later one that is in the calendar, and no date between
  the two matches (`OneTurn`; a case for each field counted up and each repair). Hence
  the tries never pass a match (`TriesPassNothing`), and a match they end on is the
  first (`FoundMatch`). That they do not end too early is a potential: `TurnsLeft`
  counts the days still to be looked at on the way to the match, and the hours and
  minutes of the day at hand, and each turn lowers it (`TurnsLeftDecrease`); the
  condition of `Reachable` bounds its first value. The library's induction theorems
  cannot be applied by the provers here; the recursion is followed by `SetInduction`,
  which takes a set of numbers for the formula and is proved from the least
  element of a set of naturals (`Least`).
  The hours and minutes looked at on the first day are later than the first minute, and
  those on the last day are not, so the two days share one count of each
  (`TurnsLeftAtMost`). For the code's 200 tries, 24 hours and 60 minutes, `Reachable` is
  thus a match with at most 117 days to look at on the way: all days of the months the row
  names, and the first of each other month. That is every row for given
  days up to the 28th (42 at most), for a day of every month (61, the 31st), or for
  one month; rows beyond are told of in section 6.
- **SessionProofs**. `BooksAlwaysAgree` from `BooksInv`: the items always agree with
  the dictionary, and the broker does for every parameter that is not odd and not
  of the call under way. To carry this over an answer one must know what is in
  the wire: main's request once, behind everything it gave up before, and each
  request that was given up concerning odd parameters only (`WireShape`); without
  it a late answer to an old subscribe could set what the client has unsubscribed.
  `NoCallbackOnOldNews` from `NewsInv`: while the handler thread works, all it will
  find is at most a tick old, because it empties the queue before its first look.
  `ReadsAreFresh` from `ReadInv` on top of both: a time of an item is at most a tick
  younger than its value, also between the two writes of either writer, and an answer
  that has reached the read is of the present tick (`Prompt`).

Only model-checked: all liveness (`TokenComesBack`, `Settles`, `ThreadsEnd`,
`StopIsHeeded`, `CallsEnd`, `Recovers`, `CastReturns`, `SchedulerRuns`,
`ClientsCome`), since fairness and `ENABLED` are out of the prover's reach. That
`RowsInReach` holds is a matter of the table and the calendar: TLC evaluates it for
the instance of Sched, as an assumption of MCCastScheduler.

## 6. Departures

What follows was seen while modelling; it is in the models, as a behaviour that a
property excepts or a discipline excludes, unless it is said to be outside.

Broker:

- Two polite acquires can pass `inUse()` together and both be answered with success
  (`RestrictedMutex` holds for serial calls only). A release may take the token from
  a client that acquired it between the test and the take; a restricted command
  runs on after its token was forced away.
- A host that drops out without closing its connection keeps the token until something
  is written to it or somebody forces the token: the handler ignores that reads time
  out (`ControllerClientHandler.java:115,160`), and nothing is sent to look for it.
- Overlapping suspend and resume may leave the adapter's flag different from the
  broker's. A disconnect that overlaps the watchdog's `connect()` leaves a broker
  that was told to be disconnected, or is suspended, connected until the next
  command.
- After a partial unsubscribe the thread goes on sending the parameter: it polls the
  map `pm` it made when it started (`BrokerSubscription.java:101`), not
  `mParameters`. A request that comes during the registration can break the
  registering thread (`modified`). A second subscription to the same parameter takes
  the table's entry, and the first thread can no longer be stopped but by the end of
  its client.
- `mSubs` (`BrokerAdapter.java:45`) is written by the threads of all handlers and
  subscriptions without a lock. Operations that meet may lose entries, of other
  clients too, so that a thread goes on that no unsubscribe finds; on the Java 7 the
  build asks for they may also leave a ring in which `put` turns for ever.
- A `connect()` can succeed on the device state an earlier connection left behind,
  with no data yet; a second connect while an old reader is still flushing leaves
  two readers on one instrument.
- With `ok_to_write` nobody clears `mSocketTimedOut`: after one stalled line the reader
  reads on and its listeners are told nothing more. Without it, a socket that another
  reader closed, or that failed to reopen, makes the loop spin without looking at
  the stop flag.
- When the other end closes the connection, `read()` returns -1, which the loops that
  wait for a newline take for a character (`GenericDataStream.java:378-380,400-404`).
  The reader spins without looking at the stop flag. Closing the socket at this end
  does not help, since Java goes on returning the end of the stream; only a later
  `connect()`, which replaces `mReader`, frees it. The line it builds meanwhile grows
  without bound (outside).
- A broken connection is recognised by two texts (`Db.java:88`). The driver
  has others, such as "This connection has been closed." or "terminating connection
  due to administrator command": then each call removes the statement at the head of
  the queue and throws, as long as the connection stays broken, and nothing is
  buffered, against "buffers db updates if the connection is down" (`Db.java:65`).
- A statement the server refuses during the second drain stays at the head of the
  queue until the next call throws for it.
- Replies of the motor controller carry no id: one that arrives late is taken for
  that of the next command. A relative move whose reply is lost is sent again,
  and moves twice.
- A reply of which only the first byte arrived within 30 ms passes the checksum, which
  is then compared with itself (`MM3.java:458-464,478`): `readRegister()` throws an
  ArrayIndexOutOfBoundsException ("TODO" at `MM3.java:290`), and is not tried again.

Python client:

- Two threads that compose calls at once may send one id twice, or one message twice
  and the other never.
- `_send` stops the handler thread on any exception, and so do a reset during
  `readline` and one before `shutdown`; `connected` may stay True, and then
  `connect_to_broker()` never makes a new handler: every call times out until the
  program restarts.
- Two lines that reach the client together: the second stays in the buffer of `sf`
  until the socket has more to read, so its caller may time out although the broker
  has answered.
- After a reconnection nothing subscribes again: reads heal by asking the broker for
  what is stale, callbacks are silent. `token_acquired` stays true as well (outside).
- `_subscribe` compares `min_interval`, None by default, with 0, which raises under
  Python 3 after the dictionary was written. A failed subscription is not asked for
  again as long as its name is in the dictionary.
- An unsubscribe that is refused leaves the broker's subscription; while the handler
  thread is stopped `_rx_n` grows without bound. The first notification of a new
  subscription may be cleared with it when the thread starts.
- A late reply may overwrite a newer notification, and the two writers may leave the
  value of one with the time of the other: bounded by `FreshRead`, but not "the most
  recent value".
- Outside: another thread's subscription between the test for an empty dictionary and
  the handler's shutdown; `(parameter or data_name) not in ...` tests `parameter` only
  (`avp_broker.py:896`); the `pop(parameter)` at the end of `unsubscribe` removes the
  last name in place of `message_time`.

Scheduler:

- An occurrence that is combined with one whose earlier occurrence still waits in
  `schedule` is lost with it, and the row's later occurrences are not queued either
  until something removes an entry or changes the table, and `pending` is built again
  (`lost`). The time limit may
  remove an entry after the launcher has chosen it (`overtaken`), and never removes
  one that was not combined, since only combining writes `insert_time`.
- The search of `parse_db` compares 200 dates and gives the row up if none of them
  matches (`avp_sched.py:482`, "Something's wrong, don't get stuck"). There are rows
  that need more: the 31st of a list of four months or more of which only some have
  one, such as months 1, 2, 4 and 6 (127 days to look at from the evening of January
  31st, up to 82 hours and minutes on top). Such a row may be missing from
  `pending` until it is built again nearer to its day, with a debug message only.
- The launcher dies on the KeyError of a row deleted before it marks it
  (`avp_sched.py:270` is outside the try). A `do_cast` that raises leaves its entry
  `casting` for good; the status `processing` is never set.
- Pausing again does not extend the pause, although `supervisor.py` says it does and
  the log of `avp_sched.py:125` too. A pause overwrites an `off`, and the resume that
  follows turns the schedule on; so may a resume that races an `off`.
- `casts_to_do` counts entries that are then skipped, so a round may leave the sonde
  at the bottom (`skipped`), against "We return to the top on the last cast"
  (`avp_sched.py:288`). A last cast that was aborted with `park` False, or that raised,
  leaves it where it is (`left`), and the next round begins from there.

Winch and cast:

- A cast that does not get the motor's token aborts but parks all the same, and the
  stop at the end of that move takes the token by force, against "DO NOT override the
  mm3 token!" (`avp_cast.py:346`). A move the broker refused is watched as if it ran.
- A stop order that arrives between the set-up of a move and the clearing of the stop
  reason is lost. The retries of `data_collection` move before the stop code of the
  first move is judged; the moves of `pre_cast_park` and `pre_position` do not judge
  `ipc_conn`; `initial_calibration` does not look at an abort.
- An exception in `monitor_move` skips the stop: the motor runs on unwatched and the
  LISST's pump may stay on (`broken`). One is certain when the LISST is suspended: the
  step is stored as '09.3' and looked up as '09.03', outside the try, so `finish_cast`
  is not reached.
- `move_to_depth` compares a dictionary with 'ok', so a call that finds the sonde not
  sampling starts sampling and does not move. `instrumnet='any'` is passed to a
  function that knows `instrument`, so the default applies: the calibration goes by
  the pressure alone where that finds no water, and zeroes a sonde under water whose
  pressure reads too little, whatever the conductivity says (`ZeroedInAir` excepts it). A water line that cannot
  be told counts as reached. An ISCO cast that is also a LISST cast is aborted. The
  park's stop code is that of its fast leg.
- Outside: `AttributeError` for positions never set when the first cast is aborted, or
  without a GPS; `park_pos is 'default'`; the LISST's swapped water levels; the park's
  correction of the position, which raises or does nothing.

Supervisor:

- After `loops` was set back the loop takes three naps of twenty seconds and misses the
  full minute; if no client has lost its broker, no check is made any more
  (`Stranded`), and so no pause or power cut at low voltage either. A broker that dies
  at every start keeps `loops` so low that scheduler and clients are never started.
- A supervisor whose aio is not connected, or has no instrument for the two times its
  client is made, has no aio client, and if any other client connected the main loop
  dies of an AttributeError a second later (`Orphaned`, `supervisor.py:157`). The
  process stays, for its other threads run on, so nothing starts it again; schedulers
  and brokers that end are not replaced. With no client at all it tries again at the
  next check.
- A client other than aio's that could not connect in its first two seconds is crippled
  for the supervisor's life. A broker that hangs is not killed ("Killing for restart"): the
  dictionary of an error is not empty, and the attribute it would use does not exist.
- A scan of the processes that breaks off on the first look starts a second scheduler
  beside the old one (`blind`).
- Outside: any command line that contains the name of the program counts as it, an
  editor's too; `except SystemExit: pass` at the shutdown keeps the forked child as a
  second supervisor; `file()` in `spawnDaemon` is Python 2, so this is a model of the
  program under Python 2 (under Python 3 the subscription of the motor's faults would
  raise here, too); a broker in the list without a block in
  `_check_connections_and_subscriptions`, which ends the loop as a missing aio does;
  that isco and lisst are initialised only with their relay on.

Seen in code that is not modelled: `put` of the `ret_*` bits one by one passes the
test that protects the `function` register (`MotionMind3Adapter.java:503`);
`shouldWait` is counted by every client's thread without a lock; `IoClient` takes
whatever message comes for its answer.

## 7. Not modelled, and why

- `MotionMind3Adapter`, `IoClient` with `BrokerClient`, broker shutdown with the
  listening server, and the winch sketch: planned, see 8.
- Within modelled parts of the broker: subscription intervals, status/set/list_data
  requests and power switching; the byte layout and the 256-byte buffer of
  the motor controller (`MM3.java:540` tests the bound after the store), and damage
  that its checksum does not see by chance; listeners
  that an adapter registers again at each connect. A controller that is switched
  off stays off (`PowerOff`), which is what `CallsEnd` needs; `restore()` of its
  registers is reduced to keeping the cache.
- Within the Python client: `SocketHandler.shutdown`, `set`, the belief in the token,
  `connect_to_broker` called again, `message_time`, `MINIMUM_VALUE`.
- Within the scheduler: leap years and the change to summer time; a database that cannot be read and an invalid status (both
  read as off), `read_only`, the orderly shutdown.
- Within winch and cast: `move_at_speed`, which no cast uses, speeds and current
  limits, the adjustment of conductivity, what is printed or fed back to a user.
- Within the supervisor: the pause and the power cut at low voltage, serial ports,
  measurements, warnings, and the other Python processes, which are looked after
  as the scheduler is.
- Instruments that follow the pattern of GenericDataStream differ in parsing only;
  samplers, the particle sizer and its YModem transfer are serial dialogues.
- Logging, dashboard, displays, console, mail: output.
- `src/python/brokers/`: a rewrite of `avp_broker.py` that nothing imports yet.
- Site variants (`FerryMon`, `phillips`, `langmuir`, ...), scripts, web pages and
  configuration; vendored libraries (`src/json`, `src/wdt`, the PiPlates classes,
  the Arduino Ethernet library), and the Pertelian display daemon, which is based
  on a third-party program.

## 8. Plan

Done so far, in this order: ControlToken with TokenService, BrokerLifecycle,
Subscription, ReaderThread, DbBuffer, MM3Link, BrokerRpc with CallService, CastScheduler, Winch with
Cast, Session, Supervisor. All have proofs.

Next, for the parts that are not modelled:

1. **MotorGate**: `shouldWait`, the read-modify-write of the function register and
   connect's settings, with the promises of MM3Link as its calls. Properties: a
   get never waits for ever after a put ended, a function bit is not lost, the
   `ret_*` bits stay off.
2. **PowerRelay**: `IoClient` over `BrokerClient`; an answer belongs to its request,
   calls end, a pin is reported as it is.
3. **BrokerShutdown**: every part is told, every thread ends, the queue is drained
   or known lost; composes the client list of ControlToken, BrokerLifecycle and
   DbBuffer.
4. **WinchSketch**: the sketch's loop with its stop conditions.
5. **SubscriptionTiming**: the intervals as a function, checked against a reference
   definition.

Runs are kept few: TokenSerial can be joined to Token by a history variable, as
Subscription does with `polite`.
