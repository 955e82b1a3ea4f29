-------------------------- MODULE ReaderThreadProofs --------------------------
(***************************************************************************)
(* Proofs about ReaderThread for any callers, readers, sockets and faults. *)
(***************************************************************************)
EXTENDS ReaderThread, TLAPS

\* The part of the types the argument needs.
Shape ==
    /\ mReaderThread \in Readers \cup {Nothing}
    /\ at \in [Callers -> CallerPlaces]
    /\ pc \in [Readers -> ReaderPlaces]

\* Between the steps of connect() the thread it made is there and, once started,
\* will work on; the instrument is not connected until setState.
CallFacts ==
    \A c \in Callers :
        /\ At(c, "opening") => ~connected
        /\ At(c, "made") => ~connected /\ mReaderThread \in Readers /\ In(mReaderThread, "made")
        /\ At(c, "setState") => mReaderThread \in Readers /\ Live(mReaderThread)
        /\ At(c, "setState") => ~connected

\* While connected, and until disconnect() has raised the flag, the thread
\* made last will work on.
ConnectedFact ==
    connected /\ (\A c \in Callers : ~At(c, "stopState"))
        => mReaderThread \in Readers /\ Live(mReaderThread)

\* The inductive invariant of serial calls.
ReaderInv == Shape /\ Serial /\ CallFacts /\ ConnectedFact

\* A step of a reader other than Begin leaves the flag alone and keeps every
\* live thread live.
LEMMA ReaderKeeps ==
    ASSUME Shape, NEW r \in Readers, Flush(r) \/ Checking(r) \/ Polling(r)
    PROVE  /\ Shape'
           /\ UNCHANGED <<mShutdown, mReaderThread, at>>
           /\ connected' => connected
           /\ \A q \in Readers : Live(q) => Live(q)'
           /\ \A q \in Readers : In(q, "made") => In(q, "made")'
<1> USE NothingAssumption DEF Shape, ReaderPlaces, Working, Live, In, Move, state, sockets
<1>1. CASE Flush(r)
    BY <1>1 DEF Flush
<1>2. CASE SocketFine(r) \/ Reopen(r)
    BY <1>2 DEF SocketFine, Reopen
<1>3. CASE SocketBroken(r) \/ SocketTimedOut(r)
    BY <1>3 DEF SocketBroken, SocketTimedOut
<1>4. CASE Closed(r) \/ NoData(r) \/ Data(r)
    BY <1>4 DEF Closed, NoData, Data
<1>5. CASE GoodLine(r) \/ OtherLine(r) \/ LineTimesOut(r)
    BY <1>5 DEF GoodLine, OtherLine, LineTimesOut
<1>6. CASE Notify(r) \/ Check(r) \/ Exit(r)
    BY <1>6 DEF Notify, Check, Exit
<1>7. CASE Spin(r) \/ Unspin(r)
    BY <1>7 DEF Spin, Unspin
<1> QED
    BY <1>1, <1>2, <1>3, <1>4, <1>5, <1>6, <1>7 DEF Checking, Polling

\* A reader that begins clears an old request, which makes no thread dead.
LEMMA BeginKeeps ==
    ASSUME Shape, NEW r \in Readers, Begin(r)
    PROVE  /\ Shape'
           /\ UNCHANGED <<connected, mReaderThread, at>>
           /\ \A q \in Readers : Live(q) => Live(q)'
           /\ \A q \in Readers : In(q, "made") => In(q, "made")'
BY DEF Begin, Shape, ReaderPlaces, Working, Live, In, Move, sockets

\* ReaderInv is kept by every step of a reader.
LEMMA ReaderStep ==
    ASSUME ReaderInv, NEW r \in Readers, Begin(r) \/ Flush(r) \/ Checking(r) \/ Polling(r)
    PROVE  ReaderInv'
<1>1. /\ Shape'
      /\ UNCHANGED <<mReaderThread, at>>
      /\ connected' => connected
      /\ \A q \in Readers : Live(q) => Live(q)'
      /\ \A q \in Readers : In(q, "made") => In(q, "made")'
    BY ReaderKeeps, BeginKeeps DEF ReaderInv
<1>2. CallFacts'
    BY <1>1 DEF ReaderInv, CallFacts, At
<1>3. ConnectedFact'
    BY <1>1 DEF ReaderInv, ConnectedFact, At
<1> QED
    BY <1>1, <1>2, <1>3 DEF ReaderInv, Serial, At

\* ReaderInv is kept by every step of a caller, when calls are serial.
LEMMA CallerStep ==
    ASSUME ReaderInv, Serial', NEW c \in Callers,
           Connect(c) \/ Disconnect(c) \/ Calling(c)
    PROVE  ReaderInv'
<1> Shape /\ Serial /\ CallFacts /\ ConnectedFact
    BY DEF ReaderInv
<1> USE NothingAssumption DEF At, Goto, In, Move, state, sockets, Live, Working
<1>1. CASE Connect(c) \/ Disconnect(c)
    <2>1. Shape'
        BY <1>1 DEF Connect, Disconnect, Shape, CallerPlaces
    <2>2. CallFacts' /\ ConnectedFact'
        BY <1>1 DEF Connect, Disconnect, Shape, CallFacts, ConnectedFact
    <2> QED BY <2>1, <2>2 DEF ReaderInv
<1>2. CASE OpenSocket(c)
    <2>1. Shape'
        BY <1>2 DEF OpenSocket, Shape, CallerPlaces, ReaderPlaces
    <2>2. CallFacts'
        BY <1>2 DEF OpenSocket, Shape, CallFacts, Serial
    <2>3. ConnectedFact'
        BY <1>2 DEF OpenSocket, Shape, CallFacts, ConnectedFact
    <2> QED BY <2>1, <2>2, <2>3 DEF ReaderInv
<1>3. CASE StartThread(c)
    <2>1. Shape'
        BY <1>3 DEF StartThread, Shape, CallFacts, CallerPlaces, ReaderPlaces
    <2>2. CallFacts'
        BY <1>3 DEF StartThread, Shape, CallFacts, Serial
    <2>3. ConnectedFact'
        BY <1>3 DEF StartThread, Shape, CallFacts, ConnectedFact
    <2> QED BY <2>1, <2>2, <2>3 DEF ReaderInv
<1>4. CASE SetConnected(c)
    <2>1. Shape'
        BY <1>4 DEF SetConnected, Shape, CallerPlaces
    <2>2. CallFacts'
        BY <1>4 DEF SetConnected, Shape, CallFacts, Serial
    <2>3. ConnectedFact'
        BY <1>4 DEF SetConnected, Shape, CallFacts, ConnectedFact
    <2> QED BY <2>1, <2>2, <2>3 DEF ReaderInv
<1>5. CASE OpenFails(c) \/ Reset(c) \/ ResetDone(c) \/ ResetTimesOut(c)
    <2>1. Shape'
        BY <1>5 DEF OpenFails, Reset, ResetDone, ResetTimesOut, Shape, CallerPlaces
    <2>2. CallFacts' /\ ConnectedFact'
        BY <1>5 DEF OpenFails, Reset, ResetDone, ResetTimesOut, Shape, CallFacts, ConnectedFact
    <2> QED BY <2>1, <2>2 DEF ReaderInv
<1>6. CASE Failed(c) \/ StopState(c)
    <2>1. Shape'
        BY <1>6 DEF Failed, StopState, SetDisconnected, Shape, CallerPlaces
    <2>2. CallFacts' /\ ConnectedFact'
        BY <1>6 DEF Failed, StopState, SetDisconnected, Shape, CallFacts, ConnectedFact
    <2> QED BY <2>1, <2>2 DEF ReaderInv
<1>7. CASE Stop(c)
    <2>1. Shape'
        BY <1>7 DEF Stop, Shape, CallerPlaces
    <2>2. CallFacts'
        BY <1>7 DEF Stop, Shape, CallFacts, Serial
    <2>3. ConnectedFact'
        BY <1>7 DEF Stop, Shape, ConnectedFact
    <2> QED BY <2>1, <2>2, <2>3 DEF ReaderInv
<1> QED
    BY <1>1, <1>2, <1>3, <1>4, <1>5, <1>6, <1>7 DEF Calling

\* Both invariants say nothing of what the other end of a socket does.
LEMMA HangUpStep ==
    ASSUME NEW s \in Sockets, HangUp(s)
    PROVE  /\ ReaderInv => ReaderInv'
           /\ UNCHANGED <<mSocket, open, at, pc>>
BY DEF HangUp, state, ReaderInv, Shape, Serial, CallFacts, ConnectedFact, Live, In, At

\* With serial calls an instrument that says it is connected, and that has not
\* hung up on the current socket, has a reader that will work on, for any number of threads, sockets and faults and with readers
\* of earlier connections still about.
THEOREM ConnectedReader == SerialSpec => []ConnectedHasReader
<1>1. Init => ReaderInv
    BY NothingAssumption
    DEF Init, ReaderInv, Shape, Serial, CallFacts, ConnectedFact, CallerPlaces,
        ReaderPlaces, At
<1>2. ReaderInv /\ [Next /\ Serial']_vars => ReaderInv'
    <2> SUFFICES ASSUME ReaderInv, [Next /\ Serial']_vars PROVE ReaderInv'
        OBVIOUS
    <2>1. ASSUME NEW c \in Callers, Connect(c) \/ Disconnect(c) \/ Calling(c), Serial'
          PROVE  ReaderInv'
        BY <2>1, CallerStep
    <2>2. ASSUME NEW r \in Readers, Begin(r) \/ Flush(r) \/ Checking(r) \/ Polling(r)
          PROVE  ReaderInv'
        BY <2>2, ReaderStep
    <2>4. ASSUME NEW s \in Sockets, HangUp(s)
          PROVE  ReaderInv'
        BY <2>4, HangUpStep
    <2>3. CASE UNCHANGED vars
        BY <2>3 DEF vars, ReaderInv, Shape, Serial, CallFacts, ConnectedFact, Live, In, At
    <2> QED
        BY <2>1, <2>2, <2>3, <2>4 DEF Next
<1>3. ReaderInv => ConnectedHasReader
    BY DEF ReaderInv, ConnectedFact, ConnectedHasReader, Quiet, At
<1> QED
    BY <1>1, <1>2, <1>3, PTL DEF SerialSpec
-----------------------------------------------------------------------------
(* What serial and patient callers leave open: nothing.  A connect() finds *)
(* no reader at work, so one reader at most is there, and one socket.      *)

\* The reader is at work, or will be once connect() starts it.
There(r) == Alive(r) \/ In(r, "made")

OneReader == \A r, q \in Readers : There(r) /\ There(q) => r = q

\* A thread that was made is started by the call that made it.
MadeInCall == \A r \in Readers : In(r, "made") => \E c \in Callers : At(c, "made")

\* What is open is the current socket, and its reader is there to close it; a
\* reader that reopens has closed it.
OneSocket ==
    /\ open \subseteq {mSocket}
    /\ open # {} => \E r \in Readers : There(r)
    /\ \A r \in Readers : In(r, "reopen") => open = {}

\* The inductive invariant of serial and patient calls.
SocketInv == ReaderInv /\ OneReader /\ MadeInCall /\ OneSocket

\* It says that nothing is left open.
LEMMA SocketInvCloses == SocketInv => SocketsClosed
BY DEF SocketInv, MadeInCall, OneSocket, SocketsClosed, Quiet, There, At

\* SocketInv is kept by every step of a reader: its own place is that of the
\* only reader, and only Exit leaves.
LEMMA SocketReader ==
    ASSUME SocketInv, NEW r \in Readers, Begin(r) \/ Flush(r) \/ Checking(r) \/ Polling(r)
    PROVE  SocketInv'
<1> USE DEF In, Move, Alive, Working
<1>1. ReaderInv'
    BY ReaderStep DEF SocketInv
<1>2. /\ \E place \in Working \cup {"started", "exiting", "ended"} : pc' = [pc EXCEPT ![r] = place]
      /\ pc[r] \in Working \cup {"started", "exiting"}
      /\ at' = at
    <2>1. CASE Begin(r) \/ Flush(r)
        <3>1. In(r, "flush") => pc = [pc EXCEPT ![r] = "flush"]
            BY DEF SocketInv, ReaderInv, Shape
        <3> QED  BY <2>1, <3>1 DEF Begin, Flush
    <2>2. CASE Checking(r)
        BY <2>2 DEF Checking, SocketFine, SocketBroken, SocketTimedOut, Reopen
    <2>3. CASE Closed(r) \/ NoData(r) \/ Data(r) \/ GoodLine(r)
        BY <2>3 DEF Closed, NoData, Data, GoodLine
    <2>4. CASE OtherLine(r) \/ LineTimesOut(r) \/ Notify(r) \/ Check(r) \/ Exit(r)
        BY <2>4 DEF OtherLine, LineTimesOut, Notify, Check, Exit
    <2>5. CASE Spin(r) \/ Unspin(r)
        BY <2>5 DEF Spin, Unspin
    <2> QED  BY <2>1, <2>2, <2>3, <2>4, <2>5 DEF Polling
<1>3. OneReader' /\ MadeInCall'
    BY <1>2 DEF SocketInv, ReaderInv, Shape, OneReader, MadeInCall, There, At
<1>4. \A q \in Readers : q # r => ~There(q) /\ pc'[q] = pc[q]
    BY <1>2 DEF SocketInv, ReaderInv, Shape, OneReader, There
<1>5. OneSocket'
    <2> USE <1>2, <1>4 DEF SocketInv, ReaderInv, Shape, OneSocket, There
    <2>1. CASE Begin(r) \/ Flush(r) \/ SocketFine(r)
        BY <2>1 DEF Begin, Flush, SocketFine, sockets
    <2>2. CASE SocketBroken(r) \/ SocketTimedOut(r)
        BY <2>2 DEF SocketBroken, SocketTimedOut
    <2>3. CASE Reopen(r)
        BY <2>3 DEF Reopen, sockets
    <2>4. CASE Closed(r) \/ NoData(r) \/ Data(r) \/ GoodLine(r)
        BY <2>4 DEF Closed, NoData, Data, GoodLine, sockets
    <2>5. CASE OtherLine(r) \/ LineTimesOut(r) \/ Notify(r) \/ Check(r)
        BY <2>5 DEF OtherLine, LineTimesOut, Notify, Check, sockets
    <2>6. CASE Exit(r)
        BY <2>6 DEF Exit
    <2>7. CASE Spin(r) \/ Unspin(r)
        BY <2>7 DEF Spin, Unspin, sockets
    <2> QED  BY <2>1, <2>2, <2>3, <2>4, <2>5, <2>6, <2>7 DEF Checking, Polling
<1> QED
    BY <1>1, <1>3, <1>5 DEF SocketInv

\* SocketInv is kept by every step of a caller that is serial and patient: when a
\* socket is opened no reader is there, so no other is open.
LEMMA SocketCaller ==
    ASSUME SocketInv, Patient, Serial', NEW c \in Callers,
           Connect(c) \/ Disconnect(c) \/ Calling(c)
    PROVE  SocketInv'
<1> USE DEF In, Move, At, Goto, Alive, Working
<1>1. ReaderInv'
    BY CallerStep DEF SocketInv
<1>2. Shape /\ Serial /\ CallFacts
    BY DEF SocketInv, ReaderInv
<1>3. CASE OpenSocket(c)
    <2>1. \A r \in Readers : ~There(r)
        BY <1>2, <1>3 DEF OpenSocket, Patient, SocketInv, MadeInCall, Serial, There
    <2>2. open = {}
        BY <2>1 DEF SocketInv, OneSocket
    <2>3. PICK s \in Sockets, r \in Readers :
            mSocket' = s /\ open' = open \cup {s} /\ pc' = [pc EXCEPT ![r] = "made"]
        BY <1>3 DEF OpenSocket
    <2>4. OneReader' /\ MadeInCall'
        BY <1>2, <1>3, <2>1, <2>3 DEF OpenSocket, OneReader, MadeInCall, There, Shape
    <2>5. OneSocket'
        BY <1>2, <2>1, <2>2, <2>3 DEF OneSocket, There, Shape
    <2> QED  BY <1>1, <2>4, <2>5 DEF SocketInv
<1>4. CASE StartThread(c)
    <2>1. pc' = [pc EXCEPT ![mReaderThread] = "started"] /\ mReaderThread \in Readers
          /\ In(mReaderThread, "made") /\ UNCHANGED sockets
        BY <1>2, <1>4 DEF StartThread, CallFacts
    <2>2. \A r \in Readers : There(r)' <=> There(r)
        BY <1>2, <2>1 DEF There, Shape
    <2>3. OneReader'
        BY <2>2 DEF SocketInv, OneReader
    <2>4. MadeInCall'
        BY <1>2, <2>1 DEF SocketInv, OneReader, There, MadeInCall, Shape
    <2>5. OneSocket'
        BY <1>2, <2>1, <2>2 DEF SocketInv, OneSocket, Shape, sockets
    <2> QED  BY <1>1, <2>3, <2>4, <2>5 DEF SocketInv
<1>5. CASE \/ Connect(c) \/ Disconnect(c) \/ OpenFails(c) \/ SetConnected(c) \/ Reset(c) \/ ResetDone(c)
           \/ ResetTimesOut(c) \/ Failed(c) \/ Stop(c) \/ StopState(c)
    <2>1. UNCHANGED <<sockets, pc>> /\ ~At(c, "made")
          /\ \A d \in Callers : d # c => at'[d] = at[d]
        BY <1>2, <1>5 DEF Connect, Disconnect, OpenFails, SetConnected, Reset, ResetDone, ResetTimesOut,
           Failed, Stop, StopState, SetDisconnected, Shape
    <2>2. OneReader' /\ OneSocket'
        BY <2>1 DEF SocketInv, OneReader, OneSocket, There, sockets
    <2>3. MadeInCall'
        BY <2>1 DEF SocketInv, MadeInCall
    <2> QED  BY <1>1, <2>2, <2>3 DEF SocketInv
<1> QED
    BY <1>3, <1>4, <1>5 DEF Calling

\* AllClosed: callers that are serial, and wait before a connect() until earlier
\* readers have ended, leave no socket open when calls and readers are over.
THEOREM NothingLeaks == Spec => AllClosed
<1>1. Init => SocketInv
    BY NothingAssumption
    DEF Init, SocketInv, ReaderInv, Shape, Serial, CallFacts, ConnectedFact, CallerPlaces, ReaderPlaces,
        OneReader, MadeInCall, OneSocket, There, Alive, Working, At, In
<1>2. SocketInv /\ Patient /\ Serial' /\ [Next]_vars => SocketInv'
    <2> SUFFICES ASSUME SocketInv, Patient, Serial', [Next]_vars PROVE SocketInv'
        OBVIOUS
    <2>1. CASE UNCHANGED vars
        <3>1. ReaderInv'
            BY <2>1 DEF vars, SocketInv, ReaderInv, Shape, Serial, CallFacts, ConnectedFact, Live, In, At
        <3>2. OneReader' /\ MadeInCall' /\ OneSocket'
            BY <2>1 DEF vars, SocketInv, OneReader, MadeInCall, OneSocket, There, Alive, In, At
        <3> QED  BY <3>1, <3>2 DEF SocketInv
    <2>2. ASSUME NEW s \in Sockets, HangUp(s)
          PROVE  SocketInv'
        BY <2>2, HangUpStep
           DEF SocketInv, OneReader, MadeInCall, OneSocket, There, Alive, In, At
    <2> QED
        BY <2>1, <2>2, SocketReader, SocketCaller DEF Next
<1> QED
    BY <1>1, <1>2, SocketInvCloses, PTL DEF Spec, AllClosed
=============================================================================
