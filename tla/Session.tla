------------------------------ MODULE Session ------------------------------
(***************************************************************************)
(* What a Python program knows of a broker's parameters                    *)
(* (src/python/avp_broker.py): the subscriptions dictionary and the        *)
(* _DataItem objects of a _BrokerClient, the notifications the SocketHandler *)
(* leaves in _rx_n, the _SubscriptionHandler thread that applies them and  *)
(* starts callbacks, and the broker at the other end.                      *)
(*                                                                         *)
(* One thread of the program subscribes and unsubscribes (Main), another   *)
(* reads values: a callback runs in a thread of its own.  A value is known *)
(* by the time the broker sampled it, so that an item has the time of its  *)
(* value and, in sample_time, the time it is said to be of.  message_time, *)
(* which is added to every subscription and leaves with the last, is not   *)
(* kept apart.  An answer without a value, which leaves the item as it is,  *)
(* counts as an error; a value below MINIMUM_VALUE, which becomes None, is  *)
(* not modelled, nor are set, the token and connect_to_broker again.       *)
(***************************************************************************)
EXTENDS Integers, Sequences, FiniteSets

CONSTANTS Params,       \* the broker's parameters (data_name)
          Aliases,      \* further names from param_aliases
          AliasOf,      \* the parameter of each alias
          Stale,        \* STALE_TIME
          MaxTime,      \* bound: the last tick of the clock
          MaxFaults     \* bound: refusals, time-outs, lost connections

ASSUME NamesAssumption == Params \cap Aliases = {} /\ AliasOf \in [Aliases -> Params]
ASSUME StaleAssumption == Stale \in Nat /\ MaxTime \in Nat

Names == Params \cup Aliases
Own(n) == IF n \in Params THEN n ELSE AliasOf[n]
Callers == {"main", "reader"}

\* The samples of 2000-01-01 every item starts with.
Long == -Stale - 2

VARIABLES
    now,
    subscriptions,  \* the keys of the subscriptions dictionary
    callbacks,      \* the keys of the callbacks dictionary
    subscribed,     \* _subscribed of each item
    value,          \* _value of each item: when it was sampled
    stamp,          \* _sample_time of each item
    running,        \* _SubscriptionHandler.running
    handler,        \* where the handler thread is, and its notification
    rx_n,           \* _rx_n
    connected,      \* SocketHandler.connected
    wire,           \* requests the broker has not answered
    active,         \* the parameters the broker has subscribed for us
    call,           \* the call each thread is in
    faults,
    odd,            \* parameters whose last call failed, or that a lost
                    \* connection took (history)
    since           \* when each parameter was entered last (history)

items == <<subscribed, value, stamp>>
books == <<subscriptions, subscribed, odd, since>>
vars == <<now, subscriptions, callbacks, items, running, handler, rx_n, connected,
          wire, active, call, faults, odd, since>>

NoCall == [pc |-> "idle", op |-> "none", names |-> {}, begun |-> 0, reply |-> "none", sample |-> 0]
NoNews == [param |-> "none", sample |-> 0]

Requests == [who : Callers \cup {"gone"}, op : {"subscribe", "unsubscribe", "status"}, params : SUBSET Params]
News == [param : Params, sample : Int]

TypeOK ==
    /\ now \in 0..MaxTime /\ faults \in 0..MaxFaults
    /\ subscriptions \subseteq Names /\ callbacks \subseteq Params /\ odd \subseteq Params
    /\ subscribed \in [Params -> BOOLEAN]
    /\ value \in [Params -> Int] /\ stamp \in [Params -> Int] /\ since \in [Params -> Int]
    /\ running \in BOOLEAN /\ connected \in BOOLEAN
    /\ handler.pc \in {"off", "starting", "loop", "stamp"}
    /\ rx_n \in Seq(News) /\ wire \in Seq(Requests)
    /\ active \subseteq Params
    /\ \A c \in Callers :
        /\ call[c].pc \in {"idle", "send", "wait", "write", "stamp", "return", "stopping", "returned"}
        /\ call[c].names \subseteq Names /\ call[c].reply \in {"none", "ok", "error"}

\* A client whose __init__ has connected and built the items.
Init ==
    /\ now = 0
    /\ subscriptions = {} /\ callbacks = {} /\ odd = {}
    /\ subscribed = [p \in Params |-> FALSE]
    /\ value = [p \in Params |-> Long] /\ stamp = [p \in Params |-> Long]
    /\ since = [p \in Params |-> 0]
    /\ running = FALSE /\ handler = [pc |-> "off", news |-> NoNews]
    /\ rx_n = <<>> /\ connected = TRUE /\ wire = <<>> /\ active = {}
    /\ call = [c \in Callers |-> NoCall]
    /\ faults = 0

-----------------------------------------------------------------------------
(* Requests: send_rpc, abstracted from BrokerRpc to its three outcomes: the *)
(* broker's answer, its error, and no answer in time.                       *)

At(c, pc) == call[c].pc = pc
Ends(c) == call' = [call EXCEPT ![c] = NoCall]
To(c, pc) == call' = [call EXCEPT ![c].pc = pc]
Idle(c) == At(c, "idle")
Fault == faults < MaxFaults /\ faults' = faults + 1

\* The parameters a call is about, by the names the broker knows.
Of(c) == {Own(n) : n \in call[c].names}

\* unsubscribe_all sends what unsubscribe sends.
Method(op) == IF op = "unsubscribe_all" THEN "unsubscribe" ELSE op

Send(c) ==
    /\ At(c, "send")
    /\ IF connected
       THEN /\ wire' = Append(wire, [who |-> c, op |-> Method(call[c].op), params |-> Of(c)])
            /\ To(c, "wait")
       ELSE /\ call' = [call EXCEPT ![c].pc = "write", ![c].reply = "error"]
            /\ UNCHANGED wire
    /\ UNCHANGED <<now, callbacks, value, stamp, running, handler, rx_n, connected, active, books, faults>>

\* The answer has come: its caller takes it from _rx_r.
Answered(c) ==
    /\ At(c, "wait") /\ call[c].reply # "none"
    /\ To(c, "write")
    /\ UNCHANGED <<now, callbacks, value, stamp, running, handler, rx_n, connected, wire, active, books, faults>>

\* The caller gives up; the broker may answer yet, to nobody.
TimesOut(c) ==
    /\ At(c, "wait") /\ call[c].reply = "none" /\ Fault
    /\ wire' = [i \in DOMAIN wire |-> IF wire[i].who = c THEN [wire[i] EXCEPT !.who = "gone"] ELSE wire[i]]
    /\ call' = [call EXCEPT ![c].pc = "write", ![c].reply = "error"]
    /\ UNCHANGED <<now, callbacks, value, stamp, running, handler, rx_n, connected, active, books>>

-----------------------------------------------------------------------------
(* Main: add_subscriptions, unsubscribe, unsubscribe_all, add_callback.     *)

Begin(c, op, names, pc) == call' = [call EXCEPT ![c] = [NoCall EXCEPT !.pc = pc, !.op = op, !.names = names,
                                                                          !.begun = IF c = "reader" THEN now ELSE 0]]

\* _subscribe enters the name, and the item's own, before it asks the broker,
\* and starts the handler thread.  A name that is there already is not sent.
Subscribe(n) ==
    /\ Idle("main") /\ n \notin subscriptions
    /\ subscriptions' = subscriptions \cup {n, Own(n)}
    /\ subscribed' = [subscribed EXCEPT ![Own(n)] = TRUE]
    /\ since' = [since EXCEPT ![Own(n)] = now]
    /\ running' = TRUE
    /\ handler' = IF running THEN handler ELSE [handler EXCEPT !.pc = "starting"]
    /\ Begin("main", "subscribe", {n}, "send")
    /\ UNCHANGED <<now, callbacks, value, stamp, rx_n, connected, wire, active, faults, odd>>

\* min_interval > 0 with the default None raises under Python 3, when the
\* dictionary is filled and the broker not asked.
SubscribeRaises ==
    /\ At("main", "send") /\ call["main"].op = "subscribe" /\ Fault
    /\ Ends("main")
    /\ odd' = odd \cup Of("main")
    /\ UNCHANGED <<now, subscriptions, callbacks, items, running, handler, rx_n, connected, wire, active, since>>

\* Nothing is undone when the broker refused.
Subscribed ==
    /\ At("main", "write") /\ call["main"].op = "subscribe"
    /\ odd' = IF call["main"].reply = "ok" THEN odd ELSE odd \cup Of("main")
    /\ Ends("main")
    /\ UNCHANGED <<now, subscriptions, callbacks, items, running, handler, rx_n, connected, wire, active, faults, since>>

\* unsubscribe: an alias is taken out here, the other names are sent; a
\* parameter not in the dictionary under its own name is passed over.
Drop(names) == {n \in names \cap Aliases : AliasOf[n] \in subscriptions}
Asked(names) == names \cap Params \cap subscriptions

\* The handler thread is stopped with the last entry.
AfterUnsubscribe(left) == IF left = {} THEN "stopping" ELSE "returned"

\* mutant of Unsubscribe: the alias takes its item's flag with it
UnsubscribeItem(names, op) ==
    /\ subscriptions' = subscriptions \ Drop(names)
    /\ subscribed' = [p \in Params |-> subscribed[p] /\ \A n \in Drop(names) : AliasOf[n] # p]
    /\ Begin("main", op, Asked(names),
             IF Asked(names) # {} THEN "send" ELSE AfterUnsubscribe(subscriptions \ Drop(names)))

Unsubscribe(names, op) ==
    /\ subscriptions' = subscriptions \ Drop(names)
    /\ Begin("main", op, Asked(names),
             IF Asked(names) # {} THEN "send" ELSE AfterUnsubscribe(subscriptions \ Drop(names)))
    /\ UNCHANGED subscribed

UnsubscribeSome ==
    /\ Idle("main")
    /\ \E n \in Names : Unsubscribe({n}, "unsubscribe")
    /\ UNCHANGED <<now, callbacks, value, stamp, running, handler, rx_n, connected, wire, active, faults, odd, since>>

UnsubscribeAll ==
    /\ Idle("main") /\ subscriptions # {}
    /\ Unsubscribe(subscriptions, "unsubscribe_all")
    /\ UNCHANGED <<now, callbacks, value, stamp, running, handler, rx_n, connected, wire, active, faults, odd, since>>

\* Whatever the broker said, the entries go.
Unsubscribed ==
    /\ At("main", "write") /\ call["main"].op \in {"unsubscribe", "unsubscribe_all"}
    /\ subscriptions' = subscriptions \ call["main"].names
    /\ subscribed' = [p \in Params |-> subscribed[p] /\ p \notin call["main"].names]
    /\ odd' = IF call["main"].reply = "ok" THEN odd ELSE odd \cup Of("main")
    /\ To("main", AfterUnsubscribe(subscriptions'))
    /\ UNCHANGED <<now, callbacks, value, stamp, running, handler, rx_n, connected, wire, active, faults, since>>

\* shutdown: running goes off, and a second is slept, ten rounds of the handler.
StopHandler ==
    /\ At("main", "stopping")
    /\ running' = FALSE
    /\ running => UNCHANGED call
    /\ ~running => handler.pc = "off" /\ To("main", "returned")
    /\ UNCHANGED <<now, callbacks, value, stamp, handler, rx_n, connected, wire, active, books, faults>>

\* unsubscribe_all clears both dictionaries at the end.
Returned ==
    /\ At("main", "returned")
    /\ IF call["main"].op = "unsubscribe_all"
       THEN subscriptions' = {} /\ callbacks' = {} ELSE UNCHANGED <<subscriptions, callbacks>>
    /\ Ends("main")
    /\ UNCHANGED <<now, items, running, handler, rx_n, connected, wire, active, faults, odd, since>>

AddCallback(p) ==
    /\ Idle("main") /\ p \notin callbacks
    /\ callbacks' = callbacks \cup {p}
    /\ UNCHANGED <<now, value, stamp, running, handler, rx_n, connected, wire, active, call, books, faults>>

-----------------------------------------------------------------------------
(* The reader: value_getter, which trusts the memory or asks (_status).     *)

\* mutant of Trusted: an item that is subscribed is never asked for
TrustedAlways(p) == subscribed[p]

Trusted(p) == subscribed[p] /\ stamp[p] >= now - Stale

Read(p) ==
    /\ Idle("reader")
    /\ Begin("reader", "status", {p}, IF Trusted(p) THEN "return" ELSE "send")
    /\ UNCHANGED <<now, callbacks, value, stamp, running, handler, rx_n, connected, wire, active, books, faults>>

\* _status writes the value, then its time; an error leaves both.
WriteValue ==
    /\ At("reader", "write")
    /\ IF call["reader"].reply = "ok"
       THEN /\ value' = [p \in Params |-> IF p \in Of("reader") THEN call["reader"].sample ELSE value[p]]
            /\ To("reader", "stamp")
       ELSE To("reader", "return") /\ UNCHANGED value
    /\ UNCHANGED <<now, callbacks, stamp, running, handler, rx_n, connected, wire, active, books, faults>>

WriteStamp ==
    /\ At("reader", "stamp")
    /\ stamp' = [p \in Params |-> IF p \in Of("reader") THEN call["reader"].sample ELSE stamp[p]]
    /\ To("reader", "return")
    /\ UNCHANGED <<now, callbacks, value, running, handler, rx_n, connected, wire, active, books, faults>>

\* The value in memory is returned, whoever wrote it last.
ReturnValue ==
    /\ At("reader", "return")
    /\ Ends("reader")
    /\ UNCHANGED <<now, callbacks, value, stamp, running, handler, rx_n, connected, wire, active, books, faults>>

-----------------------------------------------------------------------------
(* The handler thread.                                                      *)

\* mutant of HandlerStarts: what was left in _rx_n is kept
HandlerStartsFull ==
    /\ handler.pc = "starting"
    /\ handler' = [handler EXCEPT !.pc = "loop"]
    /\ UNCHANGED <<now, callbacks, value, stamp, running, rx_n, connected, wire, active, call, books, faults>>

HandlerStarts ==
    /\ handler.pc = "starting"
    /\ rx_n' = <<>>
    /\ handler' = [handler EXCEPT !.pc = "loop"]
    /\ UNCHANGED <<now, callbacks, value, stamp, running, connected, wire, active, call, books, faults>>

\* The oldest notification is taken; one of a parameter that is not entered
\* is passed over.
Apply ==
    /\ handler.pc = "loop" /\ running /\ rx_n # <<>>
    /\ rx_n' = Tail(rx_n)
    /\ LET n == Head(rx_n)
       IN IF n.param \in subscriptions
          THEN /\ value' = [value EXCEPT ![n.param] = n.sample]
               /\ handler' = [pc |-> "stamp", news |-> n]
          ELSE UNCHANGED <<value, handler>>
    /\ UNCHANGED <<now, callbacks, stamp, running, connected, wire, active, call, books, faults>>

\* The callback of the notification in hand is about to be started.
Tells == handler.pc = "stamp" /\ handler.news.param \in subscriptions \cap callbacks

\* The time follows the value, and the callback (Tells) the time.  An entry that was
\* removed in between raises, and the rest is left.
ApplyTime ==
    /\ handler.pc = "stamp"
    /\ handler' = [pc |-> "loop", news |-> NoNews]
    /\ LET n == handler.news
       IN IF n.param \in subscriptions
          THEN stamp' = [stamp EXCEPT ![n.param] = n.sample]
          ELSE UNCHANGED stamp
    /\ UNCHANGED <<now, callbacks, value, running, rx_n, connected, wire, active, call, books, faults>>

HandlerEnds ==
    /\ handler.pc = "loop" /\ ~running
    /\ handler' = [handler EXCEPT !.pc = "off"]
    /\ UNCHANGED <<now, callbacks, value, stamp, running, rx_n, connected, wire, active, call, books, faults>>

-----------------------------------------------------------------------------
(* The broker, the connection and the clock.                                *)

\* The broker answers the oldest request, or refuses it (suspended).
BrokerAnswers ==
    /\ wire # <<>>
    /\ wire' = Tail(wire)
    /\ LET r == Head(wire)
       IN \E reply \in {"ok", "error"} :
            /\ IF reply = "error" THEN Fault ELSE UNCHANGED faults
            /\ active' = IF reply = "error" THEN active
                         ELSE CASE r.op = "subscribe" -> active \cup r.params
                                [] r.op = "unsubscribe" -> active \ r.params
                                [] OTHER -> active
            /\ odd' = IF reply = "ok" /\ r.who = "main" THEN odd \ r.params ELSE odd
            /\ call' = IF r.who \in Callers
                       THEN [call EXCEPT ![r.who].reply = reply, ![r.who].sample = IF r.op = "status" THEN now ELSE 0] ELSE call
    /\ UNCHANGED <<now, subscriptions, callbacks, items, running, handler, rx_n, connected, since>>

\* A subscription sends what it has sampled.
Notify(p) ==
    /\ connected /\ p \in active
    /\ \A i \in DOMAIN rx_n : rx_n[i] # [param |-> p, sample |-> now]
    /\ rx_n' = Append(rx_n, [param |-> p, sample |-> now])
    /\ UNCHANGED <<now, callbacks, value, stamp, running, handler, connected, wire, active, call, books, faults>>

\* The broker forgets a client whose connection ends.
Disconnects ==
    /\ connected /\ Fault
    /\ connected' = FALSE /\ wire' = <<>>
    /\ odd' = odd \cup active \cup (subscriptions \cap Params)
              \cup (IF At("main", "wait") \/ At("main", "send") THEN Of("main") ELSE {})
    /\ active' = {}
    /\ UNCHANGED <<now, subscriptions, callbacks, items, running, handler, rx_n, call, since>>

\* The SocketHandler connects again, and tells the client nothing.
Reconnects ==
    /\ ~connected /\ connected' = TRUE
    /\ UNCHANGED <<now, callbacks, value, stamp, running, handler, rx_n, wire, active, call, books, faults>>

\* The threads of the program run within a tick: what waits for one of them is
\* at most a tick old, and none is between two of its writes.
Prompt ==
    /\ handler.pc \in {"off", "loop"}
    /\ running => \A i \in DOMAIN rx_n : rx_n[i].sample = now
    /\ ~running => handler.pc = "off"
    /\ \A c \in Callers : Idle(c) \/ (At(c, "wait") /\ call[c].reply = "none")

Tick ==
    /\ now < MaxTime /\ now' = now + 1
    /\ Prompt
    /\ UNCHANGED <<callbacks, value, stamp, running, handler, rx_n, connected, wire, active, call, books, faults>>

Next ==
    \/ \E c \in Callers : Send(c) \/ Answered(c) \/ TimesOut(c)
    \/ \E n \in Names : Subscribe(n)
    \/ SubscribeRaises \/ Subscribed
    \/ UnsubscribeSome \/ UnsubscribeAll \/ Unsubscribed \/ StopHandler \/ Returned
    \/ \E p \in Params : AddCallback(p) \/ Read(p) \/ Notify(p)
    \/ WriteValue \/ WriteStamp \/ ReturnValue
    \/ HandlerStarts \/ Apply \/ ApplyTime \/ HandlerEnds
    \/ BrokerAnswers \/ Disconnects \/ Reconnects \/ Tick

Spec == Init /\ [][Next]_vars

-----------------------------------------------------------------------------
(* Properties.                                                              *)

\* A read whose request was not refused or lost returns what the broker
\* sampled STALE_TIME before it at most (and a tick for what is under way):
\* in whatever state a lost connection, a failed subscription, an alias, a
\* stopped handler thread or the two writers of an item have left it.
FreshRead ==
    At("reader", "return") /\ call["reader"].reply # "error"
        => \A p \in Of("reader") : value[p] >= call["reader"].begun - Stale - 1

\* No callback is started with a sample from before its parameter was entered
\* (and a tick), though notifications pile up in _rx_n while the handler
\* thread is stopped and the broker was not unsubscribed.
NoOldNews ==
    Tells => handler.news.sample >= since[handler.news.param] - 1

\* Between two calls the dictionary, the items' flags and the broker's own
\* subscriptions agree on every parameter whose last subscribe or unsubscribe
\* was answered and that no lost connection has taken since: a failed call is
\* made good by the next that succeeds, whatever came in between.
BooksAgree ==
    Idle("main") => \A p \in Params \ odd :
        /\ subscribed[p] <=> p \in subscriptions
        /\ p \in subscriptions <=> p \in active
=============================================================================
