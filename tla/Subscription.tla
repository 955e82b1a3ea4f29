---------------------------- MODULE Subscription ----------------------------
(***************************************************************************)
(* Subscriptions of a Java broker: BrokerRequest.subscribe/unsubscribe run *)
(* on the handler thread of a client (its listener); every subscription is *)
(* a thread of its own (BrokerSubscription.run) that registers its         *)
(* parameters in the adapter's map mSubs, then polls and notifies until it *)
(* is told to stop.  A subscribe request has been answered "ok" before its *)
(* thread runs.  mSubs is a plain HashMap that all these threads use       *)
(* without a lock: operations that overlap may lose entries or never end.  *)
(* When a poll is due, whether the broker is suspended and whether there is*)
(* something new to send are left to chance; intervals are not modelled.   *)
(***************************************************************************)
EXTENDS Naturals, Sequences, SequencesExt

CONSTANTS Listeners,  \* client handlers
          Params,     \* parameters the adapter supports
          Subs,       \* BrokerSubscription objects
          NoSub,      \* Java's null in mSubs
          MaxList,    \* bound on the parameters one request names
          MayAsk      \* bound: the lists each listener ever subscribes to

ASSUME NoSubAssumption == NoSub \notin Subs
ASSUME ThreadsAssumption == Subs \cap Listeners = {}
ASSUME MaxListAssumption == MaxList \in Nat

VARIABLES
    mSubs,      \* BrokerAdapter.mSubs, by parameter and listener
    present,    \* BrokeredDeviceListener.isActive()
    mListener,  \* the listener of each subscription
    mParameters,  \* its remaining parameters, an ArrayList
    mActive,    \* told to run
    cursor,     \* the iterator over mParameters while registering
    modified,   \* mParameters was changed under that iterator
    pc,         \* where the thread is
    inside,     \* the threads inside an operation on mSubs, and its parameter
    crossed,    \* those whose operation has overlapped another
    torn,       \* two operations on mSubs have overlapped (history)
    polite      \* clients whose requests were all polite so far (history)

vars == <<polite, mSubs, present, mListener, mParameters, mActive, cursor,
          modified, pc, inside, crossed, torn>>
map == <<inside, crossed, torn>>
request == <<mListener, mParameters, modified>>

Lists == UNION {[1..n -> Params] : n \in 1..MaxList}
Keys == Params \X Listeners
Threads == Subs \cup Listeners  \* of subscriptions, and of the listeners' handlers

Places == {"unused", "started", "register", "put", "hung", "poll", "sleep", "ended", "died"}

TypeOK ==
    /\ mSubs \in [Keys -> Subs \cup {NoSub}]
    /\ present \in [Listeners -> BOOLEAN]
    /\ mListener \in [Subs -> Listeners]
    /\ mParameters \in [Subs -> Seq(Params)]
    /\ \A s \in Subs : Len(mParameters[s]) <= MaxList
    /\ mActive \in [Subs -> BOOLEAN]
    /\ cursor \in [Subs -> 0..MaxList]
    /\ modified \in [Subs -> BOOLEAN]
    /\ pc \in [Subs -> Places]
    /\ inside \in SUBSET (Threads \X Params)
    /\ crossed \in SUBSET Threads
    /\ torn \in BOOLEAN
    /\ polite \in SUBSET Listeners

\* The listener of an unused object is immaterial.
Init ==
    /\ mSubs = [k \in Keys |-> NoSub]
    /\ present = [l \in Listeners |-> TRUE]
    /\ mListener = [s \in Subs |-> CHOOSE l \in Listeners : TRUE]
    /\ mParameters = [s \in Subs |-> <<>>]
    /\ mActive = [s \in Subs |-> FALSE]
    /\ cursor = [s \in Subs |-> 0]
    /\ modified = [s \in Subs |-> FALSE]
    /\ pc = [s \in Subs |-> "unused"]
    /\ inside = {}
    /\ crossed = {}
    /\ torn = FALSE
    /\ polite = Listeners

At(s, place) == pc[s] = place
Goto(s, place) == pc' = [pc EXCEPT ![s] = place]

-----------------------------------------------------------------------------
(* A polite client names a parameter once, subscribes to none it still has,*)
(* and sends nothing more until the registration has run, which the        *)
(* protocol does not tell it.                                              *)

Registering(s) == pc[s] \in {"started", "register", "put"}
Settled(l) == \A s \in Subs : mListener[s] = l => ~Registering(s)

Fresh(l, list) ==
    /\ IsInjective(list)
    /\ \A i \in DOMAIN list : mSubs[<<list[i], l>>] = NoSub

Politely(l, ok) == polite' = IF ok THEN polite ELSE polite \ {l}

-----------------------------------------------------------------------------
(* The table of mSubs.  put, containsKey and remove are not atomic: when   *)
(* threads are inside it together, what one of them does may be undone, the*)
(* entries of others may go (a resize copies the buckets), and a bucket    *)
(* may become a ring in which a thread turns for ever (the build is for    *)
(* Java 7).                                                                *)

EnterMap(t, p) ==
    /\ inside' = inside \cup {<<t, p>>}
    /\ crossed' = IF inside = {} THEN crossed
                  ELSE crossed \cup {t} \cup {u[1] : u \in inside}
    /\ torn' = (torn \/ inside # {})

LeaveMap(t, p) ==
    /\ <<t, p>> \in inside
    /\ inside' = inside \ {<<t, p>>}
    /\ crossed' = crossed \ {t}
    /\ UNCHANGED torn

\* What t may leave behind when it meant to leave table.
Tables(t, table) ==
    IF t \in crossed
    THEN {[k \in Keys |-> IF k \in lost THEN NoSub ELSE table[k]] : lost \in SUBSET Keys}
    ELSE {table}

-----------------------------------------------------------------------------
(* Requests, on the handler thread of a client.                            *)

\* The handler is between two requests.
Listening(l) == \A p \in Params : <<l, p>> \notin inside

\* A new object; which of the unused ones stands for it is immaterial.
NewSub == CHOOSE s \in Subs : At(s, "unused")

\* Construct the subscription, answer and start its thread.
Subscribe(l, list) ==
    \E s \in Subs :
        /\ At(s, "unused")
        /\ s = NewSub
        /\ present[l]
        /\ list \in MayAsk[l]
        /\ Listening(l)
        /\ mListener' = [mListener EXCEPT ![s] = l]
        /\ mParameters' = [mParameters EXCEPT ![s] = list]
        /\ Goto(s, "started")
        /\ Politely(l, Settled(l) /\ Fresh(l, list))
        /\ UNCHANGED <<map, mSubs, present, mActive, modified, cursor>>

UnSubscribeEarly(s, p) ==       \* mutant: isEmpty() is asked before the removal
    LET left == RemoveFirst(mParameters[s], p)
    IN  /\ mParameters' = [mParameters EXCEPT ![s] = left]
        /\ modified' = [modified EXCEPT ![s] = @ \/ left # mParameters[s]]
        /\ mActive' = [mActive EXCEPT ![s] = @ /\ mParameters[s] # <<>>]

\* unSubscribe(): the thread ends when no parameter is left.
UnSubscribe(s, p) ==
    LET left == RemoveFirst(mParameters[s], p)
    IN  /\ mParameters' = [mParameters EXCEPT ![s] = left]
        /\ modified' = [modified EXCEPT ![s] = @ \/ left # mParameters[s]]
        /\ mActive' = [mActive EXCEPT ![s] = @ /\ left # <<>>]

\* The request comes: the handler goes to hasSubscription() and dropSubscription().
AskUnsubscribe(l, p) ==
    /\ present[l]
    /\ \E list \in MayAsk[l] : Contains(list, p)
    /\ Listening(l)
    /\ EnterMap(l, p)
    /\ Politely(l, Settled(l))
    /\ UNCHANGED <<mSubs, present, request, mActive, cursor, pc>>

\* remove() returns the entry; overlapped, it may leave it where it is.
DropSubscription(p, l) ==
    /\ mSubs[<<p, l>>] # NoSub
    /\ UnSubscribe(mSubs[<<p, l>>], p)
    /\ \/ mSubs' \in Tables(l, [mSubs EXCEPT ![<<p, l>>] = NoSub])
       \/ l \in crossed /\ mSubs' \in Tables(l, mSubs)

Unsubscribe(l, p) ==
    /\ LeaveMap(l, p)
    /\ DropSubscription(p, l)
    /\ UNCHANGED <<polite, present, mListener, cursor, pc>>

\* No entry, or none that an overlapped look-up finds: E_SUB_NOT_FOUND.
UnsubscribeNotFound(l, p) ==
    /\ LeaveMap(l, p)
    /\ mSubs[<<p, l>>] = NoSub \/ l \in crossed
    /\ UNCHANGED <<polite, mSubs, present, request, mActive, cursor, pc>>

\* The client is gone and its handler has ended.
Leave(l) ==
    /\ present[l]
    /\ Listening(l)
    /\ present' = [present EXCEPT ![l] = FALSE]
    /\ UNCHANGED <<map, polite, mSubs, request, mActive, cursor, pc>>

-----------------------------------------------------------------------------
(* BrokerSubscription.run().                                               *)

Begin(s) ==
    /\ At(s, "started")
    /\ mActive' = [mActive EXCEPT ![s] = TRUE]
    /\ Goto(s, "register")
    /\ UNCHANGED <<map, polite, mSubs, present, request, cursor>>

HasNext(s) == cursor[s] # Len(mParameters[s])

AddForAnyListener(s, p) ==      \* mutant: the key forgets the listener
    mSubs' = [k \in Keys |-> IF k[1] = p THEN s ELSE mSubs[k]]

\* A later subscription takes over the entry of an earlier one.
AddSubscription(s, p) == mSubs' \in Tables(s, [mSubs EXCEPT ![<<p, mListener[s]>>] = s])

\* next(), and into the adapter's put().
Register(s) ==
    /\ At(s, "register")
    /\ HasNext(s)
    /\ ~modified[s]
    /\ EnterMap(s, mParameters[s][cursor[s] + 1])
    /\ cursor' = [cursor EXCEPT ![s] = @ + 1]
    /\ Goto(s, "put")
    /\ UNCHANGED <<polite, mSubs, present, request, mActive>>

Put(s, p) ==
    /\ At(s, "put")
    /\ LeaveMap(s, p)
    /\ AddSubscription(s, p)
    /\ Goto(s, "register")
    /\ UNCHANGED <<polite, present, request, mActive, cursor>>

\* It never comes back out of a table that overlapping operations have broken.
PutHangs(s) ==
    /\ At(s, "put")
    /\ torn
    /\ Goto(s, "hung")
    /\ UNCHANGED <<map, polite, mSubs, present, request, mActive, cursor>>

\* next() throws ConcurrentModificationException and the thread is gone.
RegisterThrows(s) ==
    /\ At(s, "register")
    /\ HasNext(s)
    /\ modified[s]
    /\ Goto(s, "died")
    /\ UNCHANGED <<map, polite, mSubs, present, request, mActive, cursor>>

Registered(s) ==
    /\ At(s, "register")
    /\ ~HasNext(s)
    /\ Goto(s, "poll")
    /\ UNCHANGED <<map, polite, mSubs, present, request, mActive, cursor>>

SetActiveOnly(s) ==             \* mutant: the listener is not asked
    /\ UNCHANGED mActive
    /\ mActive[s]

\* getActive() also ends the subscription of a listener that is gone.
GetActive(s) ==
    /\ mActive' = [mActive EXCEPT ![s] = @ /\ present[mListener[s]]]
    /\ mActive'[s]

GetInactive(s) ==
    /\ ~(mActive[s] /\ present[mListener[s]])
    /\ mActive' = [mActive EXCEPT ![s] = FALSE]

\* Suspended or not yet due.  Otherwise the values are read, and sent if they are
\* new and the subscription is active.
PollNothing(s) ==
    /\ At(s, "poll")
    /\ Goto(s, "sleep")
    /\ UNCHANGED <<map, polite, mSubs, present, request, mActive, cursor>>

Poll(s) ==
    /\ At(s, "poll")
    /\ GetActive(s) \/ GetInactive(s)
    /\ Goto(s, "sleep")
    /\ UNCHANGED <<map, polite, mSubs, present, request, cursor>>

Again(s) ==
    /\ At(s, "sleep")
    /\ \/ GetActive(s) /\ Goto(s, "poll")
       \/ GetInactive(s) /\ Goto(s, "ended")
    /\ UNCHANGED <<map, polite, mSubs, present, request, cursor>>

-----------------------------------------------------------------------------
Run(s) ==
    \/ Begin(s) \/ Register(s) \/ RegisterThrows(s) \/ Registered(s)
    \/ (\E p \in Params : Put(s, p)) \/ PutHangs(s)
    \/ PollNothing(s) \/ Poll(s) \/ Again(s)

Next ==
    \/ \E l \in Listeners :
          \/ \E list \in Lists : Subscribe(l, list)
          \/ \E p \in Params :
                AskUnsubscribe(l, p) \/ Unsubscribe(l, p) \/ UnsubscribeNotFound(l, p)
          \/ Leave(l)
    \/ \E s \in Subs : Run(s)

Spec == Init /\ [][Next]_vars

\* Every subscription thread is scheduled; clients owe nothing.
FairSpec == Spec /\ \A s \in Subs : WF_vars(Run(s))

-----------------------------------------------------------------------------
(* Properties.                                                             *)

Running(s) == pc[s] \in {"poll", "sleep"}

\* A subscription whose last parameter was unsubscribed has been told to stop,
\* even when the requests arrive while its thread is still registering.
EmptyIsStopped ==
    \A s \in Subs : mParameters[s] = <<>> => ~mActive[s]

\* The thread of a subscription that was emptied, or whose client is gone,
\* ends broker or not, and never runs again, unless it hangs in a
\* table that overlapping operations have broken.
ThreadsEnd ==
    \A s \in Subs :
        pc[s] # "unused" /\ (mParameters[s] = <<>> \/ ~present[mListener[s]])
            ~> [](pc[s] \in {"ended", "died", "hung"})

\* As long as no two operations on the table have overlapped, every parameter a
\* running subscription of a polite client still has can be unsubscribed, whatever
\* the other clients do: the map leads to that subscription and no other.
Stoppable ==
    ~torn => \A s \in Subs :
        mListener[s] \in polite /\ Running(s) /\ mActive[s] =>
            \A i \in DOMAIN mParameters[s] : mSubs[<<mParameters[s][i], mListener[s]>>] = s
=============================================================================
