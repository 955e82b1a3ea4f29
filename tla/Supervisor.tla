----------------------------- MODULE Supervisor -----------------------------
(***************************************************************************)
(* The supervisor (src/python/supervisor.py): one loop that looks for the  *)
(* broker processes and the Python processes of the profiler, starts those *)
(* it does not find, makes its broker clients (AVPContext of avp_util.py,  *)
(* _BrokerClient of avp_broker.py) and goes on trying to initialise them.  *)
(*                                                                         *)
(* The processes live outside: they die, hang and outlive the supervisor,  *)
(* which is itself killed and started again.  Of the Python processes only *)
(* the scheduler is modelled; the others are looked after alike.  What the *)
(* loop measures and logs is left out, and so are the pause and the power  *)
(* cut at a low voltage.                                                   *)
(***************************************************************************)
EXTENDS Naturals

CONSTANTS Others,       \* the brokers in brokerList besides aio
          MaxFaults     \* bound: processes that die or hang, scans that break
                        \* off, late starts, restarts of the supervisor

ASSUME OthersAssumption == "aio" \notin Others

Brokers == Others \cup {"aio"}

VARIABLES
    broker,         \* each broker's process
    device,         \* the brokers that have their instrument (instr_connected)
    scheds,         \* how many schedulers run
    place, todo,    \* where the loop is, and the brokers yet to be looked at
    loops,          \* self.loops, up to 2
    check_cs,
    pid,            \* pp_info['pid'] of the scheduler: none, or one
    client,         \* context.<broker>: none, live (in context.brokers), or crippled
    mine,           \* the clients that are attributes of self
    linked,         \* the clients whose socket is connected
    initialized,    \* the clients that have been initialised
    blind,          \* the scheduler was started on a scan that broke off (history)
    faults

processes == <<broker, device, scheds>>
loop == <<place, todo, loops, check_cs>>
clients == <<client, mine, linked, initialized>>
supervisorVars == <<processes, loop, pid, clients, blind, faults>>

SupervisorTypeOK ==
    /\ broker \in [Brokers -> {"none", "up", "hung"}] /\ device \subseteq Brokers
    /\ scheds \in 0..(MaxFaults + 1) /\ faults \in 0..MaxFaults
    /\ place \in {"top", "brokers", "clients", "py", "connections", "sleep", "dead"}
    /\ todo \subseteq Brokers /\ loops \in 0..2 /\ check_cs \in BOOLEAN
    /\ pid \in {"none", "one"} /\ blind \in BOOLEAN
    /\ client \in [Brokers -> {"none", "live", "crippled"}]
    /\ mine \subseteq Brokers /\ linked \subseteq Brokers /\ initialized \subseteq Brokers

\* __init__, and what a supervisor that is started again begins with.
Fresh ==
    /\ place' = "top" /\ todo' = {} /\ loops' = 0 /\ check_cs' = TRUE /\ pid' = "none"
    /\ client' = [b \in Brokers |-> "none"]
    /\ mine' = {} /\ linked' = {} /\ initialized' = {}

SupervisorInit ==
    /\ broker = [b \in Brokers |-> "none"] /\ device = {} /\ scheds = 0
    /\ place = "top" /\ todo = {} /\ loops = 0 /\ check_cs = TRUE /\ pid = "none"
    /\ client = [b \in Brokers |-> "none"]
    /\ mine = {} /\ linked = {} /\ initialized = {}
    /\ blind = FALSE /\ faults = 0

Fault == faults < MaxFaults /\ faults' = faults + 1

-----------------------------------------------------------------------------
(* main_loop.                                                               *)

\* The checks are made at the full minute, or at once when check_cs is on.
Check ==
    /\ place = "top"
    /\ place' = "brokers" /\ todo' = Brokers
    /\ UNCHANGED <<processes, loops, check_cs, pid, clients, blind, faults>>

NoCheck ==
    /\ place = "top" /\ ~check_cs
    /\ place' = "sleep"
    /\ UNCHANGED <<processes, todo, loops, check_cs, pid, clients, blind, faults>>

\* _check_java_brokers: a broker that is not found is started.  One that hangs
\* is found: list_data returns an error, which is not empty.
Present(b) == broker[b] # "none"
CheckBroker(b) ==
    /\ place = "brokers" /\ b \in todo
    /\ todo' = todo \ {b}
    /\ IF Present(b)
       THEN UNCHANGED <<broker, loops>>
       ELSE broker' = [broker EXCEPT ![b] = "up"] /\ loops' = 0
    /\ UNCHANGED <<device, scheds, place, check_cs, pid, clients, blind, faults>>

\* An exception of process_iter: the broker is passed over.
ScanBreaks(b) ==
    /\ place = "brokers" /\ b \in todo /\ Fault
    /\ todo' = todo \ {b}
    /\ UNCHANGED <<processes, place, loops, check_cs, pid, clients, blind>>

BrokersChecked ==
    /\ place = "brokers" /\ todo = {}
    /\ place' = IF loops >= 1 THEN (IF "aio" \in mine THEN "py" ELSE "clients") ELSE "connections"
    /\ UNCHANGED <<processes, todo, loops, check_cs, pid, clients, blind, faults>>

\* _initialize_broker_clients: each client is made and gets two seconds to
\* connect; one that has not is disconnected for good.  One that has is
\* initialised if the broker has its instrument.  The client of aio looks its
\* aliases up when it is made: without the instrument's data that raises, twice,
\* and there is none.
MakeClients ==
    /\ place = "clients"
    /\ \E late \in SUBSET {b \in Brokers : broker[b] = "up"} :
        /\ IF late # {} THEN Fault ELSE UNCHANGED faults
        /\ LET reached == {b \in Brokers \ late : broker[b] # "none"}
               structured == {b \in reached : broker[b] = "up" /\ b \in device}
               live == reached \ ({"aio"} \ structured)
           IN /\ client' = [b \in Brokers |-> IF b \in live THEN "live"
                                             ELSE IF b = "aio" THEN "none" ELSE "crippled"]
              /\ linked' = live /\ initialized' = structured
              /\ mine' = live \cap {"aio"}
    /\ place' = "py"
    /\ UNCHANGED <<processes, todo, loops, check_cs, pid, blind>>

\* _check_py_processes: the pid is looked up anew; a scan that breaks off
\* leaves the old one.  Without one, a process is started.
StartIfNone(found) ==
    /\ pid' = found
    /\ scheds' = IF found = "none" THEN scheds + 1 ELSE scheds

Found == IF scheds > 0 THEN "one" ELSE "none"

\* mutant of CheckPy: what an earlier scan found is believed
CheckPyOnce ==
    /\ place = "py"
    /\ StartIfNone(IF pid = "one" THEN pid ELSE Found)
    /\ place' = "connections"
    /\ UNCHANGED <<broker, device, todo, loops, check_cs, clients, blind, faults>>

CheckPy ==
    /\ place = "py"
    /\ StartIfNone(Found)
    /\ place' = "connections"
    /\ UNCHANGED <<broker, device, todo, loops, check_cs, clients, blind, faults>>

\* mutant of PyScanBreaks: the old pid is not put back
PyScanLosesPid ==
    /\ place = "py" /\ Fault
    /\ StartIfNone("none")
    /\ blind' = (blind \/ (pid = "none" /\ scheds > 0))
    /\ place' = "connections"
    /\ UNCHANGED <<broker, device, todo, loops, check_cs, clients>>

PyScanBreaks ==
    /\ place = "py" /\ Fault
    /\ StartIfNone(pid)
    /\ blind' = (blind \/ (pid = "none" /\ scheds > 0))
    /\ place' = "connections"
    /\ UNCHANGED <<broker, device, todo, loops, check_cs, clients>>

\* A broker that answers broker_status and list_data.
Answers(b) == b \in linked /\ broker[b] = "up" /\ b \in device

\* mutant of Initialisable: only the clients that are new to self are tried
InitialisableOnce == {b \in Brokers \ mine : Answers(b)}

\* re_structure_data of every client that is not initialised yet.
Initialisable == {b \in Brokers : Answers(b)}

\* _check_connections_and_subscriptions, and the count of the loops.
CheckConnections ==
    /\ place = "connections"
    /\ IF "aio" \in mine
       THEN mine' = Brokers /\ initialized' = initialized \cup Initialisable
       ELSE UNCHANGED <<mine, initialized>>
    /\ loops' = IF loops < 2 THEN loops + 1 ELSE loops
    /\ place' = "sleep"
    /\ UNCHANGED <<processes, todo, check_cs, pid, client, linked, blind, faults>>

Live == {b \in Brokers : client[b] = "live"}

\* Twenty seconds after the first loop, one second after the others; only then
\* the clients are asked whether they have lost their broker.  One that is not
\* an attribute of self raises, which ends the loop but not the process.
Sleep ==
    /\ place = "sleep"
    /\ check_cs' = IF loops = 1 THEN check_cs ELSE Live \ linked # {}
    /\ place' = IF loops = 1 \/ Live \subseteq mine THEN "top" ELSE "dead"
    /\ UNCHANGED <<processes, todo, loops, pid, clients, blind, faults>>

-----------------------------------------------------------------------------
(* Outside: processes, sockets, instruments, the supervisor's own life.     *)

BrokerDies(b) ==
    /\ broker[b] # "none" /\ Fault
    /\ broker' = [broker EXCEPT ![b] = "none"] /\ device' = device \ {b}
    /\ UNCHANGED <<scheds, loop, pid, clients, blind>>

BrokerHangs(b) ==
    /\ broker[b] = "up" /\ Fault
    /\ broker' = [broker EXCEPT ![b] = "hung"]
    /\ UNCHANGED <<device, scheds, loop, pid, clients, blind>>

SchedulerDies ==
    /\ scheds > 0 /\ Fault
    /\ scheds' = scheds - 1
    /\ UNCHANGED <<broker, device, loop, pid, clients, blind>>

\* The broker reaches its instrument.
DeviceComes(b) ==
    /\ broker[b] = "up" /\ b \notin device
    /\ device' = device \cup {b}
    /\ UNCHANGED <<broker, scheds, loop, pid, clients, blind, faults>>

\* The SocketHandler of a live client notices, and connects again.
Disconnects(b) ==
    /\ b \in linked /\ broker[b] = "none"
    /\ linked' = linked \ {b}
    /\ UNCHANGED <<processes, loop, pid, client, mine, initialized, blind, faults>>

Reconnects(b) ==
    /\ client[b] = "live" /\ b \notin linked /\ broker[b] = "up"
    /\ linked' = linked \cup {b}
    /\ UNCHANGED <<processes, loop, pid, client, mine, initialized, blind, faults>>

\* The supervisor is killed and started again; what it started lives on.
Restart ==
    /\ Fault /\ Fresh
    /\ UNCHANGED <<processes, blind>>

Loop ==
    \/ Check /\ check_cs
    \/ NoCheck \/ BrokersChecked \/ MakeClients \/ CheckPy \/ CheckConnections \/ Sleep
    \/ \E b \in Brokers : CheckBroker(b)

Sockets == \E b \in Brokers : Disconnects(b) \/ Reconnects(b)

SupervisorNext ==
    \/ Check \/ NoCheck \/ BrokersChecked \/ MakeClients
    \/ CheckPy \/ PyScanBreaks \/ CheckConnections \/ Sleep
    \/ \E b \in Brokers : CheckBroker(b) \/ ScanBreaks(b) \/ BrokerDies(b) \/ BrokerHangs(b)
                           \/ DeviceComes(b) \/ Disconnects(b) \/ Reconnects(b)
    \/ SchedulerDies \/ Restart

\* The loop goes on, and it meets the full minute as long as it sleeps by the
\* second: three naps of twenty seconds, begun at another second, miss it.
Fairness ==
    /\ WF_supervisorVars(Loop)
    /\ SF_supervisorVars(Check /\ loops = 2)
    /\ \A b \in Brokers : WF_supervisorVars(Disconnects(b)) /\ WF_supervisorVars(Reconnects(b))

SupervisorSpec == SupervisorInit /\ [][SupervisorNext]_supervisorVars /\ Fairness

-----------------------------------------------------------------------------
(* Properties.                                                              *)

\* Two schedulers would each run the casts.  A second one is never started,
\* across restarts of the supervisor and deaths of the first, unless a scan of
\* the processes broke off when no pid was known, on the first look of a
\* supervisor or the look after it had started one.
OneScheduler == scheds <= 1 \/ blind

\* A broker process that was missing at the minute, with no client to miss it,
\* sets loops back: the loop then sleeps by twenty seconds and asks nobody.
Stranded == loops = 1 /\ ~check_cs

\* aio's client could not be made when another's could: the loop will end on it.
Orphaned == Live # {} /\ "aio" \notin mine

\* The scheduler runs again, whatever died in between, unless the loop is
\* stranded or its clients are orphaned.
SchedulerRuns == scheds = 0 ~> (scheds > 0 \/ Stranded \/ Orphaned)

\* A client that could connect when it was made is initialised in the end,
\* also if its broker or its instrument came and went before, with the same two
\* exceptions.
ClientsCome ==
    \A b \in Brokers :
        client[b] = "live" ~> (b \in initialized \/ client[b] # "live" \/ Stranded \/ Orphaned
                               \/ b \notin device \/ broker[b] = "hung")
=============================================================================
