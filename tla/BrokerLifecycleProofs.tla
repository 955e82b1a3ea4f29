----------------------- MODULE BrokerLifecycleProofs -----------------------
(***************************************************************************)
(* Proofs about BrokerLifecycle for any number of handler threads.         *)
(***************************************************************************)
EXTENDS BrokerLifecycle, TLAPS

\* Who the threads are.
LEMMA ThreadFacts == Watchdog \in Threads /\ \A c \in Controllers : c \in Threads
BY DEF Threads

\* A fault stays within its bound.
LEMMA FaultCounts == TypeOK /\ Fault => faults' \in 0..MaxFaults
BY FaultsAssumption DEF TypeOK, Fault

\* TypeOK is preserved by connect(), on whichever thread.
LEMMA ConnectType == ASSUME TypeOK, NEW t \in Threads, Connecting(t) PROVE TypeOK'
<1> USE DEF TypeOK, Places, States, At, Goto, flags
<1>1. CASE ConnectBegin(t)
    BY <1>1 DEF ConnectBegin
<1>2. CASE ConnectOpen(t)
    BY <1>2, FaultCounts DEF ConnectOpen
<1>3. CASE ConnectReset(t)
    BY <1>3, FaultCounts DEF ConnectReset
<1>4. CASE ConnectDone(t) \/ ConnectFailed(t)
    BY <1>4 DEF ConnectDone, ConnectFailed, SetState
<1> QED
    BY <1>1, <1>2, <1>3, <1>4 DEF Connecting

\* TypeOK is preserved by everything a handler thread does.
LEMMA ControllerType == ASSUME TypeOK, NEW c \in Controllers, Controller(c) PROVE TypeOK'
<1> c \in Threads
    BY ThreadFacts
<1>1. CASE Connecting(c)
    BY <1>1, ConnectType
<1> USE DEF TypeOK, Places, States, At, Goto, flags
<1>2. CASE Disconnecting(c)
    BY <1>2 DEF Disconnecting, DisconnectTest, DisconnectAdapter, DisconnectDone, SetState
<1>3. CASE Suspend(c) \/ SuspendAdapter(c)
    BY <1>3 DEF Suspend, SuspendAdapter
<1>4. CASE ResumeTest(c) \/ Resume(c) \/ ResumeAdapter(c)
    BY <1>4 DEF ResumeTest, Resume, ResumeAdapter
<1>5. CASE ResumeSetState(c) \/ ResumeReply(c)
    BY <1>5 DEF ResumeSetState, ResumeReply, SetState
<1> HIDE DEF TypeOK, Places, States, At, Goto, flags
<1> QED
    BY <1>1, <1>2, <1>3, <1>4, <1>5 DEF Controller

\* TypeOK is preserved by the watchdog.
LEMMA WatchdogType == TypeOK /\ WatchdogRun => TypeOK'
<1> SUFFICES ASSUME TypeOK, WatchdogRun PROVE TypeOK'
    OBVIOUS
<1>1. CASE Connecting(Watchdog)
    BY <1>1, ConnectType, ThreadFacts
<1>2. CASE WatchdogWake \/ WatchdogTest \/ WatchdogSet
    BY <1>2, ThreadFacts
    DEF WatchdogWake, WatchdogTest, WatchdogSet, SetState, TypeOK, Places, States,
        At, Goto, flags
<1>3. CASE WatchdogRead
    BY <1>3, ThreadFacts DEF WatchdogRead, TypeOK, Places, States, At, Goto, flags
<1> QED
    BY <1>1, <1>2, <1>3 DEF WatchdogRun

\* TypeOK is preserved by every step, whatever interleaves.
LEMMA TypeOKStep == TypeOK /\ [Next]_vars => TypeOK'
<1> SUFFICES ASSUME TypeOK, [Next]_vars PROVE TypeOK'
    OBVIOUS
<1>1. ASSUME NEW c \in Controllers, NEW m \in Commands, Command(c, m) PROVE TypeOK'
    BY <1>1, ThreadFacts DEF Command, Commands, TypeOK, Places, At, Goto, flags
<1>2. CASE LinkDrops
    BY <1>2, FaultCounts DEF LinkDrops, TypeOK, flags
<1>3. CASE UNCHANGED vars
    BY <1>3 DEF vars, TypeOK
<1>4. ASSUME NEW c \in Controllers, Controller(c) PROVE TypeOK'
    BY <1>4, ControllerType
<1> QED
    BY <1>1, <1>2, <1>3, <1>4, WatchdogType DEF Next

\* TypeOK holds when the constructor has run.
LEMMA InitType == Init => TypeOK
<1> SUFFICES ASSUME Init PROVE TypeOK
    OBVIOUS
<1>1. faults \in 0..MaxFaults
    BY FaultsAssumption DEF Init
<1>2. mState \in States
    BY DEF Init, States
<1>3. pc \in [Threads -> Places]
    BY DEF Init, Places
<1>4. mSuspended \in BOOLEAN /\ adapterSuspended \in BOOLEAN /\ connected \in BOOLEAN
    BY Zenon DEF Init
<1> QED
    BY <1>1, <1>2, <1>3, <1>4 DEF TypeOK

\* Every variable keeps its type in every behaviour of the broker.
THEOREM TypeCorrect == Spec => []TypeOK
<1> QED
    BY InitType, TypeOKStep, PTL DEF Spec

-----------------------------------------------------------------------------
(* The two suspended flags under serial lifecycle commands.                *)

\* The flags differ only between the two assignments of suspend and resume.
FlagFacts ==
    /\ \A c \in Controllers :
        /\ At(c, "adapterSuspend") => mSuspended
        /\ At(c, "adapterResume") => ~mSuspended
    /\ (\A c \in Controllers : pc[c] \notin {"adapterSuspend", "adapterResume"})
           => adapterSuspended = mSuspended

\* The inductive invariant of the serial specification.
FlagInv == TypeOK /\ Serial /\ FlagFacts

\* Steps that leave both flags alone and neither enter nor leave the two places.
LEMMA FlagsKept ==
    ASSUME FlagFacts, UNCHANGED flags,
           \A c \in Controllers :
               /\ pc'[c] \notin {"adapterSuspend", "adapterResume"} \/ pc'[c] = pc[c]
               /\ pc[c] \notin {"adapterSuspend", "adapterResume"} \/ pc'[c] = pc[c]
    PROVE  FlagFacts'
BY DEF FlagFacts, flags, At

\* FlagInv is inductive.
LEMMA FlagInvStep == FlagInv /\ [Next /\ Serial']_vars => FlagInv'
<1> SUFFICES ASSUME FlagInv, [Next /\ Serial']_vars PROVE FlagFacts'
    BY TypeOKStep DEF FlagInv, vars, Serial, At
<1> TypeOK /\ FlagFacts /\ Serial
    BY DEF FlagInv
<1> USE WatchdogAssumption, ThreadFacts DEF At, Goto
<1>1. ASSUME NEW t \in Threads, Connecting(t) PROVE FlagFacts'
    BY <1>1, FlagsKept
    DEF TypeOK, Connecting, ConnectBegin, ConnectOpen, ConnectReset, ConnectDone,
        ConnectFailed, SetState
<1>2. ASSUME NEW c \in Controllers, Disconnecting(c) PROVE FlagFacts'
    BY <1>2, FlagsKept
    DEF TypeOK, Disconnecting, DisconnectTest, DisconnectAdapter, DisconnectDone, SetState
<1>3. ASSUME NEW c \in Controllers, NEW m \in Commands, Command(c, m) PROVE FlagFacts'
    BY <1>3, FlagsKept DEF TypeOK, Command, Commands
<1>4. ASSUME NEW c \in Controllers, ResumeTest(c) \/ ResumeSetState(c) \/ ResumeReply(c)
      PROVE  FlagFacts'
    BY <1>4, FlagsKept DEF TypeOK, ResumeTest, ResumeSetState, ResumeReply, SetState
<1>5. ASSUME NEW c \in Controllers, Suspend(c) \/ Resume(c), Serial' PROVE FlagFacts'
    BY <1>5 DEF TypeOK, FlagFacts, Serial, Suspend, Resume
<1>6. ASSUME NEW c \in Controllers, SuspendAdapter(c) \/ ResumeAdapter(c), Serial'
      PROVE  FlagFacts'
    BY <1>6 DEF TypeOK, FlagFacts, Serial, SuspendAdapter, ResumeAdapter
<1>7. CASE WatchdogRun
    BY <1>1, <1>7, FlagsKept
    DEF TypeOK, WatchdogRun, WatchdogWake, WatchdogRead, WatchdogTest, WatchdogSet, SetState
<1>8. CASE LinkDrops \/ UNCHANGED vars
    BY <1>8, FlagsKept DEF LinkDrops, vars, flags
<1>9. ASSUME NEW c \in Controllers, Controller(c), Serial' PROVE FlagFacts'
    BY <1>1, <1>2, <1>4, <1>5, <1>6, <1>9 DEF Controller
<1> QED
    BY <1>3, <1>7, <1>8, <1>9 DEF Next

\* With serial lifecycle commands the adapter's copy of the suspended flag is
\* the broker's whenever no command is in progress, for any number of clients
\* and any number of faults.
THEOREM SerialFlags == Spec => SerialFlagsInSync
<1>1. Init => FlagInv
    <2>1. Init => \A c \in Controllers : At(c, "idle")
        BY ThreadFacts DEF Init, At
    <2> QED
        BY InitType, <2>1 DEF Init, FlagInv, FlagFacts, Serial, At
<1>2. FlagInv => FlagsInSync
    BY DEF FlagInv, FlagFacts, FlagsInSync, Quiet, At
<1>3. [Next]_vars /\ Serial' => [Next /\ Serial']_vars
    OBVIOUS
<1> QED
    BY <1>1, <1>2, <1>3, FlagInvStep, PTL DEF Spec, SerialFlagsInSync
=============================================================================
