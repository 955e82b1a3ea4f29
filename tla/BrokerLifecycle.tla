-------------------------- MODULE BrokerLifecycle --------------------------
(***************************************************************************)
(* The connection state of a Java broker: Broker.mState and mSuspended,    *)
(* the adapter's copy of the suspended flag, and whether the instrument is *)
(* connected.  They are changed by the watchdog thread and by the handler  *)
(* threads that execute suspend, resume, connect and disconnect.  setState *)
(* and getState are synchronized; nothing spans more than one of them.     *)
(* The adapter is GenericDataStreamAdapter with its instrument, whose      *)
(* connect() refuses a connected instrument, opens the socket, marks the   *)
(* instrument connected and then waits for data.  Time is abstracted: the  *)
(* watchdog's minute and the 45 seconds of resume may pass at any moment.  *)
(***************************************************************************)
EXTENDS Naturals

CONSTANTS Controllers,  \* handler threads that execute lifecycle commands
          Watchdog,     \* the watchdog thread
          MaxFaults     \* bound on failed connections and dropped links

ASSUME WatchdogAssumption == Watchdog \notin Controllers
ASSUME FaultsAssumption == MaxFaults \in Nat

VARIABLES
    mState,      \* Broker.mState
    mSuspended,  \* Broker.mSuspended
    adapterSuspended,  \* BrokerAdapter.mSuspended
    connected,   \* the instrument's own state, isDeviceConnected()
    faults,      \* faults so far
    pc           \* where each thread is

vars == <<mState, mSuspended, adapterSuspended, connected, faults, pc>>
flags == <<mSuspended, adapterSuspended>>

Threads == Controllers \cup {Watchdog}
States == {"DISCONNECTED", "CONNECTED", "CONNECTING"}
Places == {"idle",
           "connect", "opening", "reset", "setConnected", "failed",  \* connect()
           "disconnect", "adapterDisconnect", "setDisconnected",     \* disconnect()
           "suspend", "adapterSuspend",                              \* suspend
           "resume", "resuming", "adapterResume", "setResuming", "wait",  \* resume
           "readState", "testDevice", "setConnecting"}               \* watchdog

TypeOK ==
    /\ mState \in States
    /\ mSuspended \in BOOLEAN
    /\ adapterSuspended \in BOOLEAN
    /\ connected \in BOOLEAN
    /\ faults \in 0..MaxFaults
    /\ pc \in [Threads -> Places]

\* The constructor has run: the configuration may start the broker suspended,
\* and the watchdog is prodded by CONNECTING either way.
Init ==
    /\ mState = "CONNECTING"
    /\ mSuspended \in BOOLEAN
    /\ adapterSuspended = mSuspended
    /\ connected = FALSE
    /\ faults = 0
    /\ pc = [t \in Threads |-> "idle"]

At(t, place) == pc[t] = place
Goto(t, place) == pc' = [pc EXCEPT ![t] = place]

SetState(t, from, state, to) ==
    /\ At(t, from)
    /\ mState' = state
    /\ Goto(t, to)
    /\ UNCHANGED <<flags, connected, faults>>

-----------------------------------------------------------------------------
(* Broker.connect(), run by the watchdog and by the connect command.       *)

Fault ==
    /\ faults < MaxFaults
    /\ faults' = faults + 1

\* The instrument refuses a second connection by an exception.
ConnectBegin(t) ==
    /\ At(t, "connect")
    /\ Goto(t, IF connected THEN "failed" ELSE "opening")
    /\ UNCHANGED <<mState, flags, connected, faults>>

ConnectOpen(t) ==
    /\ At(t, "opening")
    /\ \/ /\ connected' = TRUE
          /\ Goto(t, "reset")
          /\ UNCHANGED faults
       \/ /\ Fault
          /\ Goto(t, "failed")
          /\ UNCHANGED connected
    /\ UNCHANGED <<mState, flags>>

\* reset() waits for data; when none come the instrument is disconnected again.
\* It throws at once if another thread disconnected the instrument meanwhile.
ConnectReset(t) ==
    /\ At(t, "reset")
    /\ \/ /\ Goto(t, "setConnected")
          /\ UNCHANGED <<connected, faults>>
       \/ /\ Fault \/ (~connected /\ UNCHANGED faults)
          /\ connected' = FALSE
          /\ Goto(t, "failed")
    /\ UNCHANGED <<mState, flags>>

ConnectDone(t) == SetState(t, "setConnected", "CONNECTED", "idle")

\* The exception handler disconnects the adapter and leaves mState alone.
ConnectFailed(t) ==
    /\ At(t, "failed")
    /\ connected' = FALSE
    /\ Goto(t, "idle")
    /\ UNCHANGED <<mState, flags, faults>>

-----------------------------------------------------------------------------
(* Broker.disconnect(), run by the suspend and disconnect commands.        *)

DisconnectTest(t) ==
    /\ At(t, "disconnect")
    /\ Goto(t, IF mState = "CONNECTED" THEN "adapterDisconnect" ELSE "setDisconnected")
    /\ UNCHANGED <<mState, flags, connected, faults>>

DisconnectAdapter(t) ==
    /\ At(t, "adapterDisconnect")
    /\ connected' = FALSE
    /\ Goto(t, "setDisconnected")
    /\ UNCHANGED <<mState, flags, faults>>

DisconnectDone(t) == SetState(t, "setDisconnected", "DISCONNECTED", "idle")

-----------------------------------------------------------------------------
(* Commands.                                                               *)

\* connect and disconnect are refused while the broker is suspended.
Command(c, place) ==
    /\ At(c, "idle")
    /\ place \in {"connect", "disconnect"} => ~mSuspended
    /\ Goto(c, place)
    /\ UNCHANGED <<mState, flags, connected, faults>>

Suspend(c) ==
    /\ At(c, "suspend")
    /\ mSuspended' = TRUE
    /\ Goto(c, "adapterSuspend")
    /\ UNCHANGED <<mState, adapterSuspended, connected, faults>>

SuspendAdapterForgotten(c) ==   \* mutant: the adapter is not told
    /\ At(c, "adapterSuspend")
    /\ Goto(c, "disconnect")
    /\ UNCHANGED <<mState, flags, connected, faults>>

SuspendAdapter(c) ==
    /\ At(c, "adapterSuspend")
    /\ adapterSuspended' = TRUE
    /\ Goto(c, "disconnect")
    /\ UNCHANGED <<mState, mSuspended, connected, faults>>

\* A broker that is not suspended goes straight to the reply.
ResumeTest(c) ==
    /\ At(c, "resume")
    /\ Goto(c, IF mSuspended THEN "resuming" ELSE "idle")
    /\ UNCHANGED <<mState, flags, connected, faults>>

Resume(c) ==
    /\ At(c, "resuming")
    /\ mSuspended' = FALSE
    /\ Goto(c, "adapterResume")
    /\ UNCHANGED <<mState, adapterSuspended, connected, faults>>

ResumeAdapter(c) ==
    /\ At(c, "adapterResume")
    /\ adapterSuspended' = FALSE
    /\ Goto(c, "setResuming")
    /\ UNCHANGED <<mState, mSuspended, connected, faults>>

ResumeSetState(c) == SetState(c, "setResuming", "CONNECTING", "wait")

\* CONNECTED, or 45 seconds are over and the answer is E_CONNECTION.
ResumeReply(c) ==
    /\ At(c, "wait")
    /\ Goto(c, "idle")
    /\ UNCHANGED <<mState, flags, connected, faults>>

-----------------------------------------------------------------------------
(* BrokerWatchdog.run().                                                   *)

WatchdogWake ==
    /\ At(Watchdog, "idle")
    /\ ~mSuspended
    /\ Goto(Watchdog, "readState")
    /\ UNCHANGED <<mState, flags, connected, faults>>

WatchdogRead ==
    /\ At(Watchdog, "readState")
    /\ Goto(Watchdog, CASE mState = "CONNECTED"    -> "testDevice"
                        [] mState = "CONNECTING"   -> "connect"
                        [] mState = "DISCONNECTED" -> "idle")
    /\ UNCHANGED <<mState, flags, connected, faults>>

WatchdogTrusting ==             \* mutant: a lost device is not noticed
    /\ At(Watchdog, "testDevice")
    /\ Goto(Watchdog, "idle")
    /\ UNCHANGED <<mState, flags, connected, faults>>

WatchdogTest ==
    /\ At(Watchdog, "testDevice")
    /\ Goto(Watchdog, IF connected THEN "idle" ELSE "setConnecting")
    /\ UNCHANGED <<mState, flags, connected, faults>>

WatchdogSet == SetState(Watchdog, "setConnecting", "CONNECTING", "idle")

\* The instrument notices a dead link by itself.
LinkDrops ==
    /\ connected
    /\ Fault
    /\ connected' = FALSE
    /\ UNCHANGED <<mState, flags, pc>>

-----------------------------------------------------------------------------
Connecting(t) ==
    \/ ConnectBegin(t) \/ ConnectOpen(t) \/ ConnectReset(t)
    \/ ConnectDone(t) \/ ConnectFailed(t)

Disconnecting(t) == DisconnectTest(t) \/ DisconnectAdapter(t) \/ DisconnectDone(t)

Controller(c) ==
    \/ Connecting(c) \/ Disconnecting(c) \/ Suspend(c) \/ SuspendAdapter(c)
    \/ ResumeTest(c) \/ Resume(c) \/ ResumeAdapter(c) \/ ResumeSetState(c)
    \/ ResumeReply(c)

WatchdogRun ==
    \/ WatchdogWake \/ WatchdogRead \/ WatchdogTest \/ WatchdogSet
    \/ Connecting(Watchdog)

Commands == {"suspend", "resume", "connect", "disconnect"}

Next ==
    \/ \E c \in Controllers : Controller(c) \/ \E m \in Commands : Command(c, m)
    \/ WatchdogRun
    \/ LinkDrops

Spec == Init /\ [][Next]_vars

\* Every thread is scheduled; commands and faults are not owed.
FairSpec ==
    /\ Spec
    /\ WF_vars(WatchdogRun)
    /\ \A c \in Controllers : WF_vars(Controller(c))

-----------------------------------------------------------------------------
(* The discipline the control token is there to give: lifecycle commands   *)
(* of different clients do not overlap.                                    *)

Serial == \A c, d \in Controllers : ~At(c, "idle") /\ ~At(d, "idle") => c = d

-----------------------------------------------------------------------------
(* Properties.                                                             *)

Quiet == \A c \in Controllers : At(c, "idle")

\* When no command is in progress the adapter's copy of the suspended flag is
\* the broker's, so subscriptions run exactly when the broker does.
FlagsInSync == Quiet => adapterSuspended = mSuspended

\* Commands that never overlap keep the two flags in sync, whatever the
\* watchdog and the instrument do.
SerialFlagsInSync == []Serial => []FlagsInSync

\* Once commands have stopped for good, the broker ends suspended, or told to
\* be disconnected, or connected to a connected instrument: the watchdog
\* repairs every mixture of lost links, failed and doubled connects.
Settles ==
    <>[]Quiet =>
        <>[](mSuspended \/ mState = "DISCONNECTED" \/ (mState = "CONNECTED" /\ connected))
=============================================================================
