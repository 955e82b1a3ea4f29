---------------------------- MODULE ReaderThread ----------------------------
(***************************************************************************)
(* The reader thread of an instrument on a socket (GenericDataStream; the  *)
(* other socket instruments are written alike).  connect() opens a socket, *)
(* starts a reader and waits for data; disconnect() asks the reader to     *)
(* stop and leaves closing the socket to it.  connect() and disconnect()   *)
(* run on the broker's threads, the reader on its own, and the fields      *)
(* mState, mShutdown, mSocket and mReaderThread are shared by all of them. *)
(* Threads and socket numbers are used again once nothing refers to them.  *)
(* What a line says is abstracted to good (a data record) or other.        *)
(***************************************************************************)
EXTENDS Naturals

CONSTANTS Callers,     \* threads that call connect() and disconnect()
          Readers,     \* reader Thread objects
          Sockets,     \* Socket objects
          Nothing,     \* Java's null
          MaxFaults    \* bound on failures of the network, hang-ups and stalled lines

ASSUME NothingAssumption == Nothing \notin Readers /\ Nothing \notin Sockets
ASSUME FaultsAssumption == MaxFaults \in Nat

VARIABLES
    okToWrite,      \* the property ok_to_write of the configuration
    connected,      \* mState = S_CONNECTED
    mShutdown,      \* shutdown requested
    operating,      \* mDeviceState = DS_OPERATING
    timedOut,       \* mSocketTimedOut
    mSocket,        \* the current socket; mReader reads from it
    mReaderThread,  \* the thread connect() made last
    open,           \* sockets that are open at this end
    eof,            \* sockets whose other end has closed: read() returns -1 there
    reading,        \* the socket a flushing reader is blocked on
    faults,         \* failures so far
    at,             \* where each caller is
    pc              \* where each reader is

vars == <<okToWrite, connected, mShutdown, operating, timedOut, mSocket, mReaderThread,
          open, eof, reading, faults, at, pc>>
sockets == <<mSocket, open, eof>>
state == <<okToWrite, connected, mShutdown, operating, timedOut>>

CallerPlaces == {"idle", "opening", "made", "setState", "reset", "waiting",  \* connect()
                 "failed", "stop", "stopState"}                      \* disconnect()
Working == {"flush", "loop", "reopen", "poll", "line", "spin", "notify", "check"}
ReaderPlaces == Working \cup {"unborn", "made", "started", "exiting", "ended"}

TypeOK ==
    /\ okToWrite \in BOOLEAN
    /\ connected \in BOOLEAN
    /\ mShutdown \in BOOLEAN
    /\ operating \in BOOLEAN
    /\ timedOut \in BOOLEAN
    /\ mSocket \in Sockets \cup {Nothing}
    /\ mReaderThread \in Readers \cup {Nothing}
    /\ open \in SUBSET Sockets
    /\ eof \in SUBSET Sockets
    /\ reading \in [Readers -> Sockets \cup {Nothing}]
    /\ faults \in 0..MaxFaults
    /\ at \in [Callers -> CallerPlaces]
    /\ pc \in [Readers -> ReaderPlaces]

Init ==
    /\ okToWrite \in BOOLEAN
    /\ connected = FALSE
    /\ mShutdown = FALSE
    /\ operating = FALSE
    /\ timedOut = FALSE
    /\ mSocket = Nothing
    /\ mReaderThread = Nothing
    /\ open = {}
    /\ eof = {}
    /\ reading = [r \in Readers |-> Nothing]
    /\ faults = 0
    /\ at = [c \in Callers |-> "idle"]
    /\ pc = [r \in Readers |-> "unborn"]

At(c, place) == at[c] = place
Goto(c, place) == at' = [at EXCEPT ![c] = place]
In(r, place) == pc[r] = place
Move(r, place) == pc' = [pc EXCEPT ![r] = place]

\* A call to the network fails, the other end hangs up, or a line stalls for minutes.
Fault ==
    /\ faults < MaxFaults
    /\ faults' = faults + 1

\* Nothing refers to the socket: if it is open still, the collector closes it.
Free(s) == s # mSocket /\ \A r \in Readers : reading[r] # s

\* The hang-ups that still tell once another socket is the current one.
HungUp == {s \in eof : \E r \in Readers : reading[r] = s}

-----------------------------------------------------------------------------
(* connect().                                                              *)

\* A connected instrument throws "Already connected".
Connect(c) ==
    /\ At(c, "idle")
    /\ ~connected
    /\ Goto(c, "opening")
    /\ UNCHANGED <<state, sockets, mReaderThread, reading, faults, pc>>

OpenSocket(c) ==
    /\ At(c, "opening")
    /\ \E s \in Sockets, r \in Readers :
          /\ Free(s)
          /\ pc[r] \in {"unborn", "ended"}
          /\ mSocket' = s
          /\ open' = open \cup {s}
          /\ eof' = HungUp
          /\ mReaderThread' = r
          /\ Move(r, "made")
    /\ Goto(c, "made")
    /\ UNCHANGED <<state, reading, faults>>

\* The exception goes to the caller.
OpenFails(c) ==
    /\ At(c, "opening")
    /\ Fault
    /\ Goto(c, "idle")
    /\ UNCHANGED <<state, sockets, mReaderThread, reading, pc>>

\* Another connect() may have replaced the thread in the half second before
\* start(); starting a thread twice throws.
StartThread(c) ==
    /\ At(c, "made")
    /\ IF In(mReaderThread, "made")
       THEN Move(mReaderThread, "started") /\ Goto(c, "setState")
       ELSE UNCHANGED pc /\ Goto(c, "idle")
    /\ UNCHANGED <<state, sockets, mReaderThread, reading, faults>>

SetConnected(c) ==
    /\ At(c, "setState")
    /\ connected' = TRUE
    /\ Goto(c, "reset")
    /\ UNCHANGED <<okToWrite, mShutdown, operating, timedOut, sockets, mReaderThread, reading, faults, pc>>

\* reset() throws unless connected, then waits for an operating device.
Reset(c) ==
    /\ At(c, "reset")
    /\ Goto(c, IF connected THEN "waiting" ELSE "failed")
    /\ UNCHANGED <<state, sockets, mReaderThread, reading, faults, pc>>

ResetDone(c) ==
    /\ At(c, "waiting")
    /\ operating
    /\ Goto(c, "idle")
    /\ UNCHANGED <<state, sockets, mReaderThread, reading, faults, pc>>

ResetTimesOut(c) ==
    /\ At(c, "waiting")
    /\ ~operating
    /\ Goto(c, "failed")
    /\ UNCHANGED <<state, sockets, mReaderThread, reading, faults, pc>>

SetDisconnected(c, place, next) ==
    /\ At(c, place)
    /\ connected' = FALSE
    /\ Goto(c, next)
    /\ UNCHANGED <<okToWrite, mShutdown, operating, timedOut, sockets, mReaderThread, reading, faults, pc>>

Failed(c) == SetDisconnected(c, "failed", "stop")

-----------------------------------------------------------------------------
(* disconnect().                                                           *)

\* The adapter asks first whether the instrument is connected.
Disconnect(c) ==
    /\ At(c, "idle")
    /\ connected
    /\ Goto(c, "stop")
    /\ UNCHANGED <<state, sockets, mReaderThread, reading, faults, pc>>

Stop(c) ==
    /\ At(c, "stop")
    /\ mShutdown' = TRUE
    /\ Goto(c, "stopState")
    /\ UNCHANGED <<okToWrite, connected, operating, timedOut, sockets, mReaderThread, reading, faults, pc>>

StopState(c) == SetDisconnected(c, "stopState", "idle")

-----------------------------------------------------------------------------
(* run().                                                                  *)

BeginTrusting(r) ==             \* mutant: the flag keeps what the last disconnect() left
    /\ In(r, "started")
    /\ reading' = [reading EXCEPT ![r] = mSocket]
    /\ Move(r, "flush")
    /\ UNCHANGED <<state, sockets, mReaderThread, faults, at>>

Begin(r) ==
    /\ In(r, "started")
    /\ mShutdown' = FALSE
    /\ reading' = [reading EXCEPT ![r] = mSocket]
    /\ Move(r, "flush")
    /\ UNCHANGED <<okToWrite, connected, operating, timedOut, sockets, mReaderThread, faults, at>>

\* A character arrives on the socket the reader waits for: a newline, or the
\* wait goes on with whatever mReader is now.  A closed socket throws, one whose
\* other end has closed gives -1, time and again.
Flush(r) ==
    /\ In(r, "flush")
    /\ \/ /\ reading' = [reading EXCEPT ![r] = Nothing]
          /\ Move(r, "loop")
       \/ /\ reading[r] \in open \cup eof
          /\ reading' = [reading EXCEPT ![r] = mSocket]
          /\ UNCHANGED pc
    /\ UNCHANGED <<state, sockets, mReaderThread, faults, at>>

\* checkSocket(): nothing is wrong, or it is not time to look.
SocketFine(r) ==
    /\ In(r, "loop")
    /\ ~okToWrite => ~timedOut
    /\ Move(r, "poll")
    /\ UNCHANGED <<state, sockets, mReaderThread, reading, faults, at>>

\* The character written to test the socket throws.
SocketBroken(r) ==
    /\ In(r, "loop")
    /\ okToWrite
    /\ Fault \/ (mSocket \notin open \ eof /\ UNCHANGED faults)
    /\ open' = open \ {mSocket}
    /\ Move(r, "reopen")
    /\ UNCHANGED <<state, mSocket, eof, mReaderThread, reading, at>>

SocketTimedOut(r) ==
    /\ In(r, "loop")
    /\ ~okToWrite
    /\ timedOut
    /\ open' = open \ {mSocket}
    /\ connected' = FALSE
    /\ Move(r, "reopen")
    /\ UNCHANGED <<okToWrite, mShutdown, operating, timedOut, mSocket, eof, mReaderThread, reading, faults, at>>

\* Without ok_to_write the flag is cleared, with it nobody ever clears it.
Reopen(r) ==
    /\ In(r, "reopen")
    /\ \/ \E s \in Sockets :
             /\ Free(s)
             /\ mSocket' = s
             /\ open' = open \cup {s}
             /\ eof' = HungUp
             /\ UNCHANGED faults
       \/ Fault /\ UNCHANGED sockets
    /\ timedOut' = (timedOut /\ okToWrite)
    /\ Move(r, "poll")
    /\ UNCHANGED <<okToWrite, connected, mShutdown, operating, mReaderThread, reading, at>>

\* ready() on a closed socket throws and the loop starts over, unless a
\* timeout is on record.
Closed(r) ==
    /\ In(r, "poll")
    /\ mSocket \notin open
    /\ Move(r, IF timedOut THEN "check" ELSE "loop")
    /\ UNCHANGED <<state, sockets, mReaderThread, reading, faults, at>>

NoDataUnchecked(r) ==           \* mutant: shutdown is looked at only after a data line
    /\ In(r, "poll")
    /\ mSocket \in open
    /\ Move(r, "loop")
    /\ UNCHANGED <<state, sockets, mReaderThread, reading, faults, at>>

NoData(r) ==
    /\ In(r, "poll")
    /\ mSocket \in open
    /\ Move(r, "check")
    /\ UNCHANGED <<state, sockets, mReaderThread, reading, faults, at>>

Data(r) ==
    /\ In(r, "poll")
    /\ mSocket \in open
    /\ Move(r, "line")
    /\ UNCHANGED <<state, sockets, mReaderThread, reading, faults, at>>

GoodLine(r) ==
    /\ In(r, "line")
    /\ operating' = (operating \/ ~timedOut)
    /\ Move(r, IF timedOut THEN "check" ELSE "notify")
    /\ UNCHANGED <<okToWrite, connected, mShutdown, timedOut, sockets, mReaderThread, reading, faults, at>>

\* Blank, part of a command's reply, malformed, or cut off by an exception.
OtherLine(r) ==
    /\ In(r, "line")
    /\ Move(r, "loop") \/ (timedOut /\ Move(r, "check"))
    /\ UNCHANGED <<state, sockets, mReaderThread, reading, faults, at>>

\* The other end closes in the middle of a line: read() gives -1, which is not a
\* newline, and the reader goes on reading, whatever is closed or asked for at this
\* end, until mReader is another socket's.
Spin(r) ==
    /\ In(r, "line")
    /\ mSocket \in eof
    /\ Move(r, "spin")
    /\ UNCHANGED <<state, sockets, mReaderThread, reading, faults, at>>

Unspin(r) ==
    /\ In(r, "spin")
    /\ mSocket \notin eof
    /\ Move(r, "line")
    /\ UNCHANGED <<state, sockets, mReaderThread, reading, faults, at>>

LineTimesOut(r) ==
    /\ In(r, "line")
    /\ Fault
    /\ timedOut' = TRUE
    /\ Move(r, "check")
    /\ UNCHANGED <<okToWrite, connected, mShutdown, operating, sockets, mReaderThread, reading, at>>

Notify(r) ==
    /\ In(r, "notify")
    /\ Move(r, "check")
    /\ UNCHANGED <<state, sockets, mReaderThread, reading, faults, at>>

Check(r) ==
    /\ In(r, "check")
    /\ Move(r, IF mShutdown THEN "exiting" ELSE "loop")
    /\ UNCHANGED <<state, sockets, mReaderThread, reading, faults, at>>

ExitLeavingSocket(r) ==         \* mutant: the socket is not closed
    /\ In(r, "exiting")
    /\ Move(r, "ended")
    /\ UNCHANGED <<state, sockets, mReaderThread, reading, faults, at>>

\* The reader closes the current socket, whoever opened it.
Exit(r) ==
    /\ In(r, "exiting")
    /\ open' = open \ {mSocket}
    /\ Move(r, "ended")
    /\ UNCHANGED <<state, mSocket, eof, mReaderThread, reading, faults, at>>

\* The instrument, or the terminal server in front of it, closes the connection.
HangUp(s) ==
    /\ s \in open \ eof
    /\ ~Free(s)                 \* nobody would notice
    /\ Fault
    /\ eof' = eof \cup {s}
    /\ UNCHANGED <<state, mSocket, open, mReaderThread, reading, at, pc>>

-----------------------------------------------------------------------------
\* What follows from a call once it is made.
Calling(c) ==
    \/ OpenSocket(c) \/ OpenFails(c) \/ StartThread(c) \/ SetConnected(c)
    \/ Reset(c) \/ ResetDone(c) \/ ResetTimesOut(c) \/ Failed(c)
    \/ Stop(c) \/ StopState(c)

Checking(r) == SocketFine(r) \/ SocketBroken(r) \/ SocketTimedOut(r) \/ Reopen(r)

Polling(r) ==
    \/ Closed(r) \/ NoData(r) \/ Data(r) \/ GoodLine(r) \/ OtherLine(r)
    \/ Spin(r) \/ Unspin(r) \/ LineTimesOut(r) \/ Notify(r) \/ Check(r) \/ Exit(r)

Next ==
    \/ \E c \in Callers : Connect(c) \/ Disconnect(c) \/ Calling(c)
    \/ \E r \in Readers : Begin(r) \/ Flush(r) \/ Checking(r) \/ Polling(r)
    \/ \E s \in Sockets : HangUp(s)

Spec == Init /\ [][Next]_vars

\* Threads are scheduled, data are not owed.  Between lines the instrument
\* pauses longer than the poll, and a broken socket is found out in seconds.
FairSpec ==
    /\ Spec
    /\ \A c \in Callers : WF_vars(Calling(c))
    /\ \A r \in Readers :
          /\ WF_vars(Begin(r) \/ Checking(r) \/ Polling(r))
          /\ SF_vars(NoData(r))
          /\ SF_vars(mSocket \notin open /\ SocketBroken(r))

-----------------------------------------------------------------------------
(* Disciplines of the callers.  Serial: their calls do not overlap.        *)
(* Patient: moreover connect() waits until earlier readers have ended.     *)

Quiet == \A c \in Callers : At(c, "idle")
Serial == \A c, d \in Callers : ~At(c, "idle") /\ ~At(d, "idle") => c = d

Alive(r) == pc[r] \in Working \cup {"started", "exiting"}
Patient == (\E c \in Callers : At(c, "opening")) => \A r \in Readers : ~Alive(r)

SerialSpec == Init /\ [][Next /\ Serial']_vars

-----------------------------------------------------------------------------
(* Properties.                                                             *)

\* The thread will work on: it runs and is not told to stop, or it has not
\* yet come to clear an old request.
Live(r) == In(r, "started") \/ (pc[r] \in Working /\ ~mShutdown)

\* An instrument that says it is connected has a reader that will work on, as long
\* as the instrument has not hung up on the current socket: the watchdog, which
\* looks only at the state, need not act.  A stop request meant for an earlier
\* reader does not end the new one.  After a hang-up the reader may spin for ever.
ConnectedHasReader ==
    connected /\ Quiet /\ mSocket \notin eof => \E r \in Readers : Live(r)

\* Callers that are serial and patient leak nothing: when calls and readers are
\* over no socket is left open, whatever failed and timed out meanwhile.
SocketsClosed == Quiet /\ (\A r \in Readers : ~Alive(r)) => open = {}
AllClosed == []Serial /\ []Patient => []SocketsClosed

\* With ok_to_write a request to stop that stays ends every reader in its loop,
\* whatever the sockets and the lines do, except one that spins at the end of a
\* stream.  Without it a reader whose socket was closed, by another reader or by a
\* reopening that failed, never comes to look.
StopIsHeeded ==
    \A r \in Readers : okToWrite /\ <>[]mShutdown =>
        <>[](pc[r] \in Working \ {"flush"} => In(r, "spin") /\ mSocket \in eof)

=============================================================================
