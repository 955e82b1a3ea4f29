-------------------------- MODULE SubscriptionProofs --------------------------
(***************************************************************************)
(* Proofs about Subscription for any clients, parameters and list lengths. *)
(* A table that overlapping operations have broken has fewer entries, never *)
(* wrong ones: EmptyStopped needs no more of it, and needs of a list only   *)
(* that it is emptied when the flag is lowered.  StaysStoppable is about a *)
(* table whole so far, and needs what RemoveFirst leaves in a list.        *)
(***************************************************************************)
EXTENDS Subscription, SequenceTheorems, TLAPS

\* The part of the types the argument needs.
Shape ==
    /\ mSubs \in [Keys -> Subs \cup {NoSub}]
    /\ mActive \in [Subs -> BOOLEAN]
    /\ pc \in [Subs -> Places]
    /\ DOMAIN mParameters = Subs

\* Only threads past setActive(true) are in the map; one that has not come so
\* far still has every parameter it was asked for.
Registration ==
    /\ \A k \in Keys : mSubs[k] # NoSub => pc[mSubs[k]] \notin {"unused", "started"}
    /\ \A s \in Subs : At(s, "unused") => ~mActive[s]
    /\ \A s \in Subs : At(s, "started") => ~mActive[s] /\ mParameters[s] # <<>>

EmptyInv == Shape /\ Registration /\ EmptyIsStopped

\* A request names at least one parameter.
LEMMA ListNotEmpty == ASSUME NEW list \in Lists PROVE list # <<>>
<1>1. PICK n \in 1..MaxList : list \in [1..n -> Params]
    BY DEF Lists
<1>2. 1 \in DOMAIN list
    BY <1>1, MaxListAssumption
<1> QED
    BY <1>2

\* An operation on the table leaves of each entry what it meant to, or nothing.
LEMMA TablesLoseOnly ==
    ASSUME NEW t, NEW table \in [Keys -> Subs \cup {NoSub}], NEW after \in Tables(t, table)
    PROVE  /\ after \in [Keys -> Subs \cup {NoSub}]
           /\ \A k \in Keys : after[k] \in {table[k], NoSub}
           /\ t \notin crossed => after = table
    BY DEF Tables

\* Requests and the end of a client keep EmptyInv.
LEMMA RequestStep ==
    ASSUME EmptyInv, NEW l \in Listeners,
           \/ \E list \in Lists : Subscribe(l, list)
           \/ \E p \in Params :
                 AskUnsubscribe(l, p) \/ Unsubscribe(l, p) \/ UnsubscribeNotFound(l, p)
           \/ Leave(l)
    PROVE  EmptyInv'
<1> USE NoSubAssumption DEF EmptyInv, Shape, Registration, EmptyIsStopped, Places,
                            At, Goto, request
<1>1. ASSUME NEW list \in Lists, Subscribe(l, list) PROVE EmptyInv'
    BY <1>1, ListNotEmpty DEF Subscribe
<1>2. ASSUME NEW p \in Params, Unsubscribe(l, p) PROVE EmptyInv'
    <2> DEFINE s == mSubs[<<p, l>>]
    <2>1. /\ s \in Subs /\ s # NoSub
          /\ UnSubscribe(s, p)
          /\ \/ mSubs' \in Tables(l, [mSubs EXCEPT ![<<p, l>>] = NoSub])
             \/ mSubs' \in Tables(l, mSubs)
          /\ pc' = pc
        BY <1>2 DEF Unsubscribe, DropSubscription, Keys
    <2>2. /\ mSubs' \in [Keys -> Subs \cup {NoSub}]
          /\ \A k \in Keys : mSubs'[k] \in {mSubs[k], NoSub}
        <3> DEFINE table == [mSubs EXCEPT ![<<p, l>>] = NoSub]
        <3>1. /\ table \in [Keys -> Subs \cup {NoSub}]
              /\ \A k \in Keys : table[k] \in {mSubs[k], NoSub}
            OBVIOUS
        <3>2. mSubs' \in Tables(l, table) \/ mSubs' \in Tables(l, mSubs)
            BY <2>1
        <3> HIDE DEF table
        <3>3. CASE mSubs' \in Tables(l, table)
            BY <3>1, <3>3, TablesLoseOnly
        <3>4. CASE mSubs' \in Tables(l, mSubs)
            BY <3>4, TablesLoseOnly
        <3> QED
            BY <3>2, <3>3, <3>4
    <2> HIDE DEF s
    <2>3. /\ DOMAIN mParameters' = Subs /\ mActive' \in [Subs -> BOOLEAN]
          /\ \A t \in Subs : t # s => mParameters'[t] = mParameters[t]
          /\ \A t \in Subs : mActive'[t] => mActive[t]
          /\ mParameters'[s] = <<>> => ~mActive'[s]
        BY <2>1 DEF UnSubscribe
    <2>4. pc[s] \notin {"unused", "started"}
        BY <2>1 DEF s, Keys
    <2> QED
        BY <2>1, <2>2, <2>3, <2>4
<1>3. ASSUME NEW p \in Params, AskUnsubscribe(l, p) \/ UnsubscribeNotFound(l, p)
      PROVE  EmptyInv'
    BY <1>3 DEF AskUnsubscribe, UnsubscribeNotFound
<1>4. CASE Leave(l)
    BY <1>4 DEF Leave
<1> QED
    BY <1>1, <1>2, <1>3, <1>4

\* Steps of a subscription thread keep EmptyInv.
LEMMA RunStep == ASSUME EmptyInv, NEW s \in Subs, Run(s) PROVE EmptyInv'
<1> USE NoSubAssumption DEF EmptyInv, Shape, Registration, EmptyIsStopped, Places,
                            At, Goto, request
<1>1. CASE Begin(s)
    BY <1>1 DEF Begin
<1>2. ASSUME NEW p \in Params, Put(s, p) PROVE EmptyInv'
    <2> DEFINE table == [mSubs EXCEPT ![<<p, mListener[s]>>] = s]
    <2>1. /\ mSubs' \in Tables(s, table) /\ At(s, "put")
          /\ pc' = [pc EXCEPT ![s] = "register"]
          /\ UNCHANGED <<mParameters, mActive>>
        BY <1>2 DEF Put, AddSubscription
    <2>2. table \in [Keys -> Subs \cup {NoSub}] /\ \A k \in Keys : table[k] \in {mSubs[k], s}
        OBVIOUS
    <2> HIDE DEF table
    <2>3. /\ mSubs' \in [Keys -> Subs \cup {NoSub}]
          /\ \A k \in Keys : mSubs'[k] \in {mSubs[k], s, NoSub}
        BY <2>1, <2>2, TablesLoseOnly
    <2> QED
        BY <2>1, <2>3
<1>3. CASE Register(s) \/ PutHangs(s) \/ RegisterThrows(s) \/ Registered(s)
    BY <1>3 DEF Register, PutHangs, RegisterThrows, Registered
<1>4. CASE PollNothing(s)
    BY <1>4 DEF PollNothing
<1>5. ASSUME GetActive(s) \/ GetInactive(s)
      PROVE  /\ mActive' \in [Subs -> BOOLEAN]
             /\ \A t \in Subs : mActive'[t] => mActive[t]
    BY <1>5 DEF GetActive, GetInactive
<1>6. CASE Poll(s) \/ Again(s)
    BY <1>5, <1>6 DEF Poll, Again
<1> QED
    BY <1>1, <1>2, <1>3, <1>4, <1>6 DEF Run

\* Nothing is registered, nothing is active in the beginning.
LEMMA EmptyInit == Init => EmptyInv
    BY NoSubAssumption
    DEF Init, EmptyInv, Shape, Registration, EmptyIsStopped, Places, At

\* EmptyInv is inductive.
LEMMA EmptyStep == EmptyInv /\ [Next]_vars => EmptyInv'
<1> SUFFICES ASSUME EmptyInv, [Next]_vars PROVE EmptyInv'
    OBVIOUS
<1>1. CASE \E l \in Listeners :
              \/ \E list \in Lists : Subscribe(l, list)
              \/ \E p \in Params :
                    AskUnsubscribe(l, p) \/ Unsubscribe(l, p) \/ UnsubscribeNotFound(l, p)
              \/ Leave(l)
    BY <1>1, RequestStep
<1>2. CASE \E s \in Subs : Run(s)
    BY <1>2, RunStep
<1>3. CASE UNCHANGED vars
    BY <1>3 DEF vars, EmptyInv, Shape, Registration,
                EmptyIsStopped, At, request
<1> QED
    BY <1>1, <1>2, <1>3 DEF Next

\* A subscription whose last parameter was unsubscribed has been told to stop,
\* for any number of clients and subscriptions and whatever overtakes what.
THEOREM EmptyStopped == Spec => []EmptyIsStopped
<1>1. EmptyInv => EmptyIsStopped
    BY DEF EmptyInv
<1> QED
    BY <1>1, EmptyInit, EmptyStep, PTL DEF Spec

-----------------------------------------------------------------------------
(* What a polite client has can be unsubscribed, while no operations on    *)
(* the table have overlapped.  While one of its threads registers no other *)
(* one does, and the map has the part of its list that the iterator has    *)
(* passed; afterwards it has all that is left.                             *)

Politeness(s) == mListener[s] \in polite
Key(s, i) == <<mParameters[s][i], mListener[s]>>

\* The part of the types this argument needs; an entry is its listener's own.
StopTypes ==
    /\ DOMAIN mParameters = Subs
    /\ cursor \in [Subs -> Nat]
    /\ DOMAIN mListener = Subs
    /\ \A s \in Subs : ~At(s, "unused") => mListener[s] \in Listeners
    /\ \A k \in Keys : mSubs[k] # NoSub => mListener[mSubs[k]] = k[2]
    /\ \A s \in Subs : pc[s] \in {"unused", "started"} => cursor[s] = 0

\* A polite client waits for one registration before it asks for the next.
OneRegisters ==
    \A s, t \in Subs :
        Registering(s) /\ Registering(t) /\ mListener[s] = mListener[t] /\ Politeness(s) => s = t

\* It names no parameter twice.
NoRepeats ==
    \A s \in Subs : Politeness(s) /\ (Registering(s) \/ Running(s)) =>
        mParameters[s] \in Seq(Params) /\ IsInjective(mParameters[s])

\* What has been put is in the map, the rest of the list is in nobody's hands.
Done(s, i) == i < cursor[s] \/ (i = cursor[s] /\ ~At(s, "put"))
HalfWay ==
    \A s \in Subs : Politeness(s) /\ Registering(s) =>
        \A i \in DOMAIN mParameters[s] : mSubs[Key(s, i)] = IF Done(s, i) THEN s ELSE NoSub

\* Once registered, every parameter it still has leads to the subscription.
AllThere ==
    \A s \in Subs : Politeness(s) /\ Running(s) =>
        \A i \in DOMAIN mParameters[s] : mSubs[Key(s, i)] = s

\* The iterator has not gone beyond the list.
Past ==
    \A s \in Subs : Politeness(s) /\ Registering(s) => cursor[s] <= Len(mParameters[s])

\* At most one thread is inside the table.
Alone == crossed = {} /\ \A u, v \in inside : u = v

\* A put is of the parameter that next() returned.
InPut ==
    \A s \in Subs : Politeness(s) /\ At(s, "put") =>
        /\ cursor[s] \in DOMAIN mParameters[s]
        /\ \A p \in Params : <<s, p>> \in inside => p = mParameters[s][cursor[s]]

\* A polite client whose unsubscribe is handled has nothing that registers.
InAsk ==
    \A l \in Listeners, p \in Params : <<l, p>> \in inside /\ l \in polite => Settled(l)

StopInv == StopTypes /\ OneRegisters /\ NoRepeats /\ Past /\ HalfWay /\ AllThere
             /\ Alone /\ InPut /\ InAsk

\* RemoveFirst takes an element that occurs once out of the list and keeps the
\* others, each where it was or one place earlier.
LEMMA RemoveOnce ==
    ASSUME NEW S, NEW list \in Seq(S), IsInjective(list), NEW e
    PROVE  /\ RemoveFirst(list, e) \in Seq(S)
           /\ IsInjective(RemoveFirst(list, e))
           /\ \A i \in DOMAIN RemoveFirst(list, e) :
                \E j \in DOMAIN list : RemoveFirst(list, e)[i] = list[j] /\ list[j] # e
<1> DEFINE left == RemoveFirst(list, e)
<1>1. CASE ~\E i \in 1..Len(list) : list[i] = e
    <2>1. left = list
        BY <1>1 DEF RemoveFirst
    <2> QED
        BY <1>1, <2>1
<1>2. CASE \E i \in 1..Len(list) : list[i] = e
    <2>1. PICK k \in 1..Len(list) : list[k] = e
        BY <1>2
    <2>2. {i \in 1..Len(list) : list[i] = e} = {k}
        BY <2>1 DEF IsInjective
    <2>3. Min({k}) = k
        BY <2>1 DEF Min
    <2>4. SelectInSeq(list, LAMBDA v : v = e) = k
        BY <2>2, <2>3 DEF SelectInSeq
    <2>5. left = SubSeq(list, 1, k - 1) \o SubSeq(list, k + 1, Len(list))
        BY <1>2, <2>4 DEF RemoveFirst, RemoveAt
    <2>6. /\ left \in Seq(S) /\ Len(left) = Len(list) - 1
          /\ \A i \in 1..Len(left) : left[i] = IF i < k THEN list[i] ELSE list[i + 1]
        <3> DEFINE before == SubSeq(list, 1, k - 1)
                   after == SubSeq(list, k + 1, Len(list))
        <3>1. /\ before \in Seq(S) /\ Len(before) = k - 1
              /\ \A i \in 1..(k - 1) : before[i] = list[i]
            BY <2>1
        <3>2. /\ after \in Seq(S) /\ Len(after) = Len(list) - k
              /\ \A i \in 1..(Len(list) - k) : after[i] = list[k + i]
            BY <2>1
        <3> HIDE DEF before, after
        <3>3. /\ before \o after \in Seq(S) /\ Len(before \o after) = Len(list) - 1
              /\ \A i \in 1..(Len(list) - 1) :
                   (before \o after)[i] = IF i < k THEN before[i] ELSE after[i - (k - 1)]
            <4>1. /\ before \o after \in Seq(S)
                  /\ Len(before \o after) = Len(before) + Len(after)
                  /\ \A i \in 1..(Len(before) + Len(after)) : (before \o after)[i] =
                        IF i <= Len(before) THEN before[i] ELSE after[i - Len(before)]
                BY <3>1, <3>2, ConcatProperties
            <4>2. Len(before) = k - 1 /\ Len(after) = Len(list) - k
                BY <3>1, <3>2
            <4> HIDE DEF before, after
            <4>3. k \in Nat /\ Len(list) \in Nat
                BY <2>1
            <4>4. \A i \in 1..(Len(list) - 1) : i <= k - 1 <=> i < k
                BY <4>3
            <4> QED
                BY <4>1, <4>2, <4>3, <4>4
        <3>4. \A i \in 1..(Len(list) - 1) :
                 (before \o after)[i] = IF i < k THEN list[i] ELSE list[i + 1]
            <4> SUFFICES ASSUME NEW i \in 1..(Len(list) - 1)
                         PROVE (before \o after)[i] = IF i < k THEN list[i] ELSE list[i + 1]
                OBVIOUS
            <4>1. CASE i < k
                BY <2>1, <3>1, <3>3, <4>1
            <4>2. CASE ~(i < k)
                <5>1. i - (k - 1) \in 1..(Len(list) - k) /\ k + (i - (k - 1)) = i + 1
                    BY <2>1, <4>2
                <5> QED
                    BY <3>2, <3>3, <4>2, <5>1
            <4> QED
                BY <4>1, <4>2
        <3>5. left = before \o after
            BY <2>5 DEF before, after
        <3> HIDE DEF left
        <3> QED
            BY <3>3, <3>4, <3>5
    <2>7. \A i \in DOMAIN left : \E j \in DOMAIN list : left[i] = list[j] /\ j # k /\ j = IF i < k THEN i ELSE i + 1
        BY <2>1, <2>6
    <2>8. IsInjective(left)
        BY <2>6, <2>1 DEF IsInjective
    <2> QED
        BY <2>1, <2>6, <2>7, <2>8 DEF IsInjective
<1> QED
    BY <1>1, <1>2

\* Requests and the end of a client keep StopInv, if they overlap nothing.
LEMMA StopRequestStep ==
    ASSUME EmptyInv, StopInv, ~torn, ~torn', NEW l \in Listeners,
           \/ \E list \in Lists : Subscribe(l, list)
           \/ \E p \in Params :
                 AskUnsubscribe(l, p) \/ Unsubscribe(l, p) \/ UnsubscribeNotFound(l, p)
           \/ Leave(l)
    PROVE  StopInv'
<1> USE NoSubAssumption DEF Registering, Politeness, Key, At, Goto, Running, request, Keys, Done
<1>1. ASSUME NEW list \in Lists, Subscribe(l, list) PROVE StopInv'
    <2>1. PICK s \in Subs :
              /\ At(s, "unused")
              /\ mListener' = [mListener EXCEPT ![s] = l]
              /\ mParameters' = [mParameters EXCEPT ![s] = list]
              /\ Goto(s, "started")
              /\ Listening(l)
              /\ Politely(l, Settled(l) /\ Fresh(l, list))
              /\ UNCHANGED <<inside, crossed, torn, mSubs, present, mActive, modified, cursor>>
        BY <1>1 DEF Subscribe, map
    <2>2. list \in Seq(Params)
        BY DEF Lists
    <2>3. \A t \in Subs : t # s => /\ mListener'[t] = mListener[t]
                                   /\ mParameters'[t] = mParameters[t]
                                   /\ pc'[t] = pc[t]
        BY <2>1 DEF EmptyInv, Shape, StopInv, StopTypes
    <2>4. mListener'[s] = l /\ mParameters'[s] = list /\ pc'[s] = "started"
        BY <2>1 DEF EmptyInv, Shape, StopInv, StopTypes
    <2>5. polite' \subseteq polite /\ (l \in polite' => Settled(l) /\ Fresh(l, list))
        BY <2>1 DEF Politely
    <2>6. cursor' = cursor /\ mSubs' = mSubs
        BY <2>1
    <2>7. \A k \in Keys : mSubs[k] # s
        BY <2>1 DEF EmptyInv, Registration
    <2>8. StopTypes'
        BY <2>1, <2>2, <2>3, <2>4, <2>6, <2>7 DEF StopInv, StopTypes, EmptyInv, Shape
    <2>9. OneRegisters'
        BY <2>3, <2>4, <2>5 DEF StopInv, OneRegisters, Settled
    <2>10. NoRepeats'
        <3> SUFFICES ASSUME NEW t \in Subs, Politeness(t)', (Registering(t) \/ Running(t))'
                     PROVE  (mParameters[t] \in Seq(Params) /\ IsInjective(mParameters[t]))'
            BY DEF NoRepeats
        <3>1. CASE t = s
            BY <2>2, <2>4, <2>5, <3>1 DEF Fresh
        <3>2. CASE t # s
            BY <2>3, <2>5, <3>2 DEF StopInv, NoRepeats
        <3> QED
            BY <3>1, <3>2
    <2>11. cursor[s] = 0
        BY <2>1 DEF StopInv, StopTypes
    <2>12. Past'
        BY <2>2, <2>3, <2>4, <2>5, <2>6, <2>11 DEF StopInv, Past
    <2>13. HalfWay'
        BY <2>2, <2>3, <2>4, <2>5, <2>6, <2>11 DEF StopInv, HalfWay, Fresh
    <2>14. AllThere'
        BY <2>3, <2>4, <2>5, <2>6 DEF StopInv, AllThere
    <2>15. Alone'
        BY <2>1 DEF StopInv, Alone
    <2>16. InPut'
        BY <2>1, <2>3, <2>4, <2>5 DEF StopInv, InPut
    <2>17. InAsk'
        <3> SUFFICES ASSUME NEW c \in Listeners, NEW p \in Params,
                            <<c, p>> \in inside, c \in polite'
                     PROVE  Settled(c)'
            BY <2>1 DEF InAsk
        <3>1. c # l /\ c \in polite
            BY <2>1, <2>5 DEF Listening
        <3>2. Settled(c)
            BY <3>1 DEF StopInv, InAsk
        <3> QED
            BY <2>3, <2>4, <3>1, <3>2 DEF Settled
    <2> QED
        BY <2>8, <2>9, <2>10, <2>12, <2>13, <2>14, <2>15, <2>16, <2>17 DEF StopInv
<1>2. ASSUME NEW p \in Params, Unsubscribe(l, p) PROVE StopInv'
    <2>0. <<l, p>> \in inside /\ inside' \subseteq inside /\ crossed = {} /\ crossed' = {}
        BY <1>2 DEF Unsubscribe, LeaveMap, StopInv, Alone
    <2>1. PICK s \in Subs : s = mSubs[<<p, l>>] /\ mListener[s] = l
        BY <1>2 DEF Unsubscribe, DropSubscription, StopInv, StopTypes, EmptyInv, Shape
    <2> DEFINE left == RemoveFirst(mParameters[s], p)
    <2>2. /\ mParameters' = [mParameters EXCEPT ![s] = left]
          /\ mSubs' = [mSubs EXCEPT ![<<p, l>>] = NoSub]
          /\ mListener' = mListener /\ pc' = pc /\ cursor' = cursor
          /\ polite' = polite /\ (l \in polite' => Settled(l))
        <3>1. [mSubs EXCEPT ![<<p, l>>] = NoSub] \in [Keys -> Subs \cup {NoSub}]
            BY DEF EmptyInv, Shape
        <3>2. mSubs' = [mSubs EXCEPT ![<<p, l>>] = NoSub]
            BY <1>2, <2>0, <3>1, TablesLoseOnly DEF Unsubscribe, DropSubscription
        <3>3. l \in polite => Settled(l)
            BY <2>0 DEF StopInv, InAsk
        <3> QED
            BY <1>2, <2>1, <3>2, <3>3 DEF Unsubscribe, DropSubscription, UnSubscribe
    <2> HIDE DEF left
    <2>4. \A t \in Subs : t # s => mParameters'[t] = mParameters[t]
        BY <2>2 DEF StopInv, StopTypes
    <2>5. mParameters'[s] = left
        BY <2>1, <2>2 DEF StopInv, StopTypes
    <2>6. \A t \in Subs : mListener[t] = l /\ l \in polite' => ~Registering(t)
        BY <2>2 DEF Settled
    <2>7. \A k \in Keys : mSubs'[k] = IF k = <<p, l>> THEN NoSub ELSE mSubs[k]
        BY <2>2 DEF EmptyInv, Shape
    <2>8. StopTypes'
        BY <2>1, <2>2, <2>7 DEF StopInv, StopTypes
    <2>9. OneRegisters'
        BY <2>2 DEF StopInv, OneRegisters
    <2>10. ASSUME Politeness(s)', Running(s)
           PROVE  /\ left \in Seq(Params) /\ IsInjective(left)
                  /\ \A i \in DOMAIN left : \E j \in DOMAIN mParameters[s] :
                         left[i] = mParameters[s][j] /\ left[i] # p
        <3>1. mParameters[s] \in Seq(Params) /\ IsInjective(mParameters[s])
            BY <2>1, <2>2, <2>10 DEF StopInv, NoRepeats
        <3> QED
            BY <3>1, RemoveOnce DEF left
    <2>11. NoRepeats'
        BY <2>1, <2>2, <2>4, <2>5, <2>6, <2>10 DEF StopInv, NoRepeats
    <2>12. Past'
        BY <2>1, <2>2, <2>4, <2>6 DEF StopInv, Past
    <2>13. HalfWay'
        <3> SUFFICES ASSUME NEW t \in Subs, Politeness(t)', Registering(t)',
                            NEW i \in (DOMAIN mParameters[t])'
                     PROVE  (mSubs[Key(t, i)] = IF Done(t, i) THEN t ELSE NoSub)'
            BY DEF HalfWay
        <3>1. mListener[t] # l /\ t # s /\ mParameters'[t] = mParameters[t]
            BY <2>1, <2>2, <2>4, <2>6
        <3>2. mSubs[Key(t, i)] = IF Done(t, i) THEN t ELSE NoSub
            BY <2>2, <3>1 DEF StopInv, HalfWay
        <3> QED
            BY <2>2, <3>1, <3>2
    <2>14. AllThere'
        <3> SUFFICES ASSUME NEW t \in Subs, Politeness(t)', Running(t)',
                            NEW i \in (DOMAIN mParameters[t])'
                     PROVE  (mSubs[Key(t, i)] = t)'
            BY DEF AllThere
        <3>0. mListener[t] \in Listeners
            BY <2>2 DEF StopInv, StopTypes
        <3>1. CASE t = s
            <4>1. PICK j \in DOMAIN mParameters[s] : left[i] = mParameters[s][j] /\ left[i] # p
                BY <2>2, <2>5, <2>10, <3>1
            <4>2. mSubs[Key(s, j)] = s
                BY <2>2, <3>1, <4>1 DEF StopInv, AllThere
            <4> QED
                BY <2>1, <2>2, <2>5, <3>1, <4>1, <4>2
        <3>2. CASE t # s
            <4>1. mSubs[Key(t, i)] = t
                BY <2>2, <2>4, <3>2 DEF StopInv, AllThere
            <4>2. Key(t, i) # <<p, l>>
                BY <2>1, <3>2, <4>1
            <4> QED
                BY <2>2, <2>4, <3>2, <4>1, <4>2
        <3> QED
            BY <3>1, <3>2
    <2>15. Alone'
        BY <2>0 DEF StopInv, Alone
    <2>16. InPut'
        <3> SUFFICES ASSUME NEW t \in Subs, Politeness(t)', At(t, "put")'
                     PROVE  (/\ cursor[t] \in DOMAIN mParameters[t]
                             /\ \A q \in Params : <<t, q>> \in inside => q = mParameters[t][cursor[t]])'
            BY DEF InPut
        <3>1. mListener[t] # l /\ t # s /\ mParameters'[t] = mParameters[t]
            BY <2>1, <2>2, <2>4, <2>6
        <3> QED
            BY <2>0, <2>2, <3>1 DEF StopInv, InPut
    <2>17. InAsk'
        BY <2>0, <2>2 DEF StopInv, InAsk, Settled
    <2> QED
        BY <2>8, <2>9, <2>11, <2>12, <2>13, <2>14, <2>15, <2>16, <2>17 DEF StopInv
<1>3. ASSUME NEW p \in Params, AskUnsubscribe(l, p) PROVE StopInv'
    <2>1. /\ inside = {} /\ inside' = {<<l, p>>} /\ crossed' = {}
          /\ polite' \subseteq polite /\ (l \in polite' => Settled(l))
          /\ UNCHANGED <<mSubs, mListener, mParameters, cursor, pc>>
        BY <1>3 DEF AskUnsubscribe, EnterMap, Politely, StopInv, Alone
    <2>2. StopTypes' /\ OneRegisters' /\ NoRepeats' /\ Past' /\ HalfWay' /\ AllThere'
        BY <2>1 DEF StopInv, StopTypes, OneRegisters, NoRepeats, Past, HalfWay, AllThere
    <2>3. Alone' /\ InAsk'
        BY <2>1 DEF Alone, InAsk, Settled
    <2>4. InPut'
        BY <2>1, ThreadsAssumption DEF StopInv, InPut
    <2> QED
        BY <2>2, <2>3, <2>4 DEF StopInv
<1>4. ASSUME NEW p \in Params, UnsubscribeNotFound(l, p) PROVE StopInv'
    <2>1. /\ inside' \subseteq inside /\ crossed' \subseteq crossed
          /\ UNCHANGED <<polite, mSubs, mListener, mParameters, cursor, pc>>
        BY <1>4 DEF UnsubscribeNotFound, LeaveMap
    <2> QED
        BY <2>1 DEF StopInv, StopTypes, OneRegisters, NoRepeats, Past, HalfWay, AllThere,
                    Alone, InPut, InAsk, Settled
<1>5. CASE Leave(l)
    BY <1>5 DEF Leave, map, StopInv, StopTypes, OneRegisters, NoRepeats, Past, HalfWay,
                AllThere, Alone, InPut, InAsk, Settled
<1> QED
    BY <1>1, <1>2, <1>3, <1>4, <1>5

\* Steps of a subscription thread keep StopInv, if they overlap nothing.
LEMMA StopRunStep ==
    ASSUME EmptyInv, StopInv, ~torn, ~torn', NEW s \in Subs, Run(s)
    PROVE  StopInv'
<1> USE NoSubAssumption DEF Registering, Politeness, Key, At, Goto, Running, request, map, Keys, Done
<1>1. CASE Begin(s)
    BY <1>1 DEF Begin, EmptyInv, Shape, StopInv, StopTypes, OneRegisters, NoRepeats, Past,
                HalfWay, AllThere, Alone, InPut, InAsk, Settled
<1>2. CASE Register(s)
    <2> DEFINE p == mParameters[s][cursor[s] + 1]
    <2>1. /\ At(s, "register") /\ cursor[s] # Len(mParameters[s])
          /\ inside = {} /\ inside' = {<<s, p>>} /\ crossed' = {}
          /\ cursor' = [cursor EXCEPT ![s] = @ + 1]
          /\ pc' = [pc EXCEPT ![s] = "put"]
          /\ UNCHANGED <<mSubs, mListener, mParameters, polite>>
        BY <1>2 DEF Register, HasNext, EnterMap, StopInv, Alone
    <2> HIDE DEF p
    <2>2. /\ cursor'[s] = cursor[s] + 1 /\ pc'[s] = "put"
          /\ \A t \in Subs : t # s => cursor'[t] = cursor[t] /\ pc'[t] = pc[t]
          /\ cursor[s] \in Nat
        BY <2>1 DEF StopInv, StopTypes, EmptyInv, Shape
    <2>3. \A t \in Subs : /\ Registering(t)' <=> Registering(t)
                          /\ Running(t)' <=> Running(t)
        BY <2>1, <2>2
    <2>4. StopTypes' /\ OneRegisters' /\ NoRepeats' /\ AllThere'
        BY <2>1, <2>2, <2>3 DEF StopInv, StopTypes, OneRegisters, NoRepeats, AllThere
    <2>5. Politeness(s) => cursor[s] + 1 \in DOMAIN mParameters[s]
        BY <2>1, <2>2 DEF StopInv, Past, NoRepeats
    <2>6. Past'
        <3> SUFFICES ASSUME NEW t \in Subs, Politeness(t), Registering(t)
                     PROVE  cursor'[t] <= Len(mParameters[t])
            BY <2>1, <2>3 DEF Past
        <3>1. mParameters[t] \in Seq(Params) /\ cursor[t] <= Len(mParameters[t])
            BY DEF StopInv, Past, NoRepeats
        <3> QED
            BY <2>2, <2>5, <3>1
    <2>7. HalfWay'
        <3> SUFFICES ASSUME NEW t \in Subs, Politeness(t), Registering(t),
                            NEW i \in DOMAIN mParameters[t]
                     PROVE  mSubs[Key(t, i)] = IF Done(t, i)' THEN t ELSE NoSub
            BY <2>1, <2>3 DEF HalfWay
        <3>1. mSubs[Key(t, i)] = IF Done(t, i) THEN t ELSE NoSub
            BY DEF StopInv, HalfWay
        <3>2. i \in Nat /\ cursor[t] \in Nat
            BY DEF StopInv, NoRepeats, StopTypes
        <3>3. Done(t, i)' <=> Done(t, i)
            <4>1. CASE t = s
                BY <2>1, <2>2, <3>2, <4>1
            <4>2. CASE t # s
                BY <2>2, <4>2
            <4> QED
                BY <4>1, <4>2
        <3> QED
            BY <3>1, <3>3
    <2>8. Alone'
        BY <2>1 DEF Alone
    <2>9. InPut'
        <3> SUFFICES ASSUME NEW t \in Subs, Politeness(t), At(t, "put")'
                     PROVE  /\ cursor'[t] \in DOMAIN mParameters[t]
                            /\ \A q \in Params : <<t, q>> \in inside'
                                    => q = mParameters[t][cursor'[t]]
            BY <2>1 DEF InPut
        <3>1. CASE t = s
            BY <2>1, <2>2, <2>5, <3>1 DEF p
        <3>2. CASE t # s
            BY <2>1, <2>2, <3>2 DEF StopInv, InPut
        <3> QED
            BY <3>1, <3>2
    <2>10. InAsk'
        BY <2>1, ThreadsAssumption DEF InAsk
    <2> QED
        BY <2>4, <2>6, <2>7, <2>8, <2>9, <2>10 DEF StopInv
<1>3. ASSUME NEW p \in Params, Put(s, p) PROVE StopInv'
    <2> DEFINE c == cursor[s]
               l == mListener[s]
    <2>0. /\ At(s, "put") /\ <<s, p>> \in inside
          /\ inside' \subseteq inside /\ crossed = {} /\ crossed' = {}
          /\ pc' = [pc EXCEPT ![s] = "register"]
          /\ UNCHANGED <<mListener, mParameters, cursor, polite>>
        BY <1>3 DEF Put, LeaveMap, StopInv, Alone
    <2>1. mSubs' = [mSubs EXCEPT ![<<p, l>>] = s]
        <3> DEFINE table == [mSubs EXCEPT ![<<p, l>>] = s]
        <3>1. table \in [Keys -> Subs \cup {NoSub}]
            BY DEF EmptyInv, Shape
        <3>2. mSubs' \in Tables(s, table) /\ s \notin crossed
            BY <1>3, <2>0 DEF Put, AddSubscription
        <3> HIDE DEF table
        <3>3. mSubs' = table
            BY <3>1, <3>2, TablesLoseOnly
        <3> QED
            BY <3>3 DEF table
    <2>2. /\ l \in Listeners /\ c \in Nat
          /\ l \in polite => mParameters[s] \in Seq(Params)
        BY <2>0 DEF StopInv, StopTypes, NoRepeats
    <2>3. \A k \in Keys : mSubs'[k] = IF k = <<p, l>> THEN s ELSE mSubs[k]
        BY <2>1 DEF EmptyInv, Shape
    <2>4. /\ pc'[s] = "register" /\ \A t \in Subs : t # s => pc'[t] = pc[t]
          /\ \A t \in Subs : /\ Registering(t)' <=> Registering(t)
                            /\ Running(t)' <=> Running(t)
        BY <2>0 DEF EmptyInv, Shape
    <2>5. l \in polite => c \in DOMAIN mParameters[s] /\ p = mParameters[s][c]
        BY <2>0 DEF StopInv, InPut
    <2> HIDE DEF c, l
    <2>6. c = cursor[s] /\ l = mListener[s]
        BY DEF c, l
    <2>7. StopTypes'
        BY <2>0, <2>2, <2>3, <2>4, <2>6 DEF StopInv, StopTypes
    <2>8. OneRegisters' /\ NoRepeats' /\ Past'
        BY <2>0, <2>4 DEF StopInv, OneRegisters, NoRepeats, Past
    <2>10. l \in polite => mSubs[<<p, l>>] = NoSub
        <3>1. l \in polite => mSubs[Key(s, c)] = IF Done(s, c) THEN s ELSE NoSub
            BY <2>0, <2>5, <2>6 DEF StopInv, HalfWay
        <3>2. ~Done(s, c)
            BY <2>0, <2>2, <2>6
        <3> QED
            BY <2>5, <2>6, <3>1, <3>2
    <2>11. HalfWay'
        <3> SUFFICES ASSUME NEW t \in Subs, Politeness(t), Registering(t),
                            NEW i \in DOMAIN mParameters[t]
                     PROVE  mSubs'[Key(t, i)] = IF Done(t, i)' THEN t ELSE NoSub
            BY <2>0, <2>4 DEF HalfWay
        <3>1. mSubs[Key(t, i)] = IF Done(t, i) THEN t ELSE NoSub
            BY DEF StopInv, HalfWay
        <3>2. /\ mListener[t] \in Listeners /\ mParameters[t] \in Seq(Params)
              /\ cursor[t] \in Nat /\ i \in Nat
            BY DEF StopInv, StopTypes, NoRepeats
        <3>3. Key(t, i) \in Keys
            BY <3>2
        <3>4. CASE t = s
            <4>1. IsInjective(mParameters[s])
                BY <3>4 DEF StopInv, NoRepeats
            <4>2. Key(s, i) = <<p, l>> <=> i = c
                BY <2>5, <2>6, <3>4, <4>1 DEF IsInjective
            <4>3. Done(s, i)' <=> i < c \/ i = c
                BY <2>0, <2>4, <2>6
            <4>4. Done(s, i) <=> i < c
                BY <2>0, <2>6
            <4> QED
                BY <2>2, <2>3, <3>1, <3>2, <3>3, <3>4, <4>2, <4>3, <4>4
        <3>5. CASE t # s
            <4>1. mListener[t] # l
                BY <2>0, <2>6, <3>5 DEF StopInv, OneRegisters
            <4>2. Done(t, i)' <=> Done(t, i)
                BY <2>0, <2>4, <3>5
            <4> QED
                BY <2>3, <3>1, <3>3, <4>1, <4>2
        <3> QED
            BY <3>4, <3>5
    <2>12. AllThere'
        <3> SUFFICES ASSUME NEW t \in Subs, Politeness(t), Running(t),
                            NEW i \in DOMAIN mParameters[t]
                     PROVE  mSubs'[Key(t, i)] = t
            BY <2>0, <2>4 DEF AllThere
        <3>1. mSubs[Key(t, i)] = t
            BY DEF StopInv, AllThere
        <3>2. Key(t, i) \in Keys
            BY DEF StopInv, StopTypes, NoRepeats
        <3>3. Key(t, i) # <<p, l>>
            BY <2>10, <3>1
        <3> QED
            BY <2>3, <3>1, <3>2, <3>3
    <2>13. Alone'
        BY <2>0 DEF StopInv, Alone
    <2>14. InPut'
        BY <2>0, <2>4 DEF StopInv, InPut
    <2>15. InAsk'
        BY <2>0, <2>4 DEF StopInv, InAsk, Settled
    <2> QED
        BY <2>7, <2>8, <2>11, <2>12, <2>13, <2>14, <2>15 DEF StopInv
<1>4. CASE PutHangs(s)
    BY <1>4 DEF PutHangs
<1>5. CASE RegisterThrows(s)
    BY <1>5 DEF RegisterThrows, EmptyInv, Shape, StopInv, StopTypes, OneRegisters, NoRepeats,
                Past, HalfWay, AllThere, Alone, InPut, InAsk, Settled
<1>6. CASE Registered(s)
    <2>1. /\ pc[s] = "register" /\ cursor[s] = Len(mParameters[s])
          /\ pc' = [pc EXCEPT ![s] = "poll"]
          /\ UNCHANGED <<mListener, mParameters, mSubs, cursor, polite, inside, crossed>>
        BY <1>6 DEF Registered, HasNext
    <2>2. /\ pc'[s] = "poll"
          /\ \A t \in Subs : t # s => pc'[t] = pc[t]
        BY <2>1 DEF EmptyInv, Shape
    <2>3. StopTypes' /\ OneRegisters' /\ NoRepeats' /\ Past' /\ HalfWay'
        BY <2>1, <2>2 DEF StopInv, StopTypes, OneRegisters, NoRepeats, Past, HalfWay
    <2>4. AllThere'
        BY <2>1, <2>2 DEF StopInv, StopTypes, NoRepeats, HalfWay, AllThere
    <2>5. Alone' /\ InPut' /\ InAsk'
        BY <2>1, <2>2 DEF StopInv, Alone, InPut, InAsk, Settled
    <2> QED
        BY <2>3, <2>4, <2>5 DEF StopInv
<1>7. CASE PollNothing(s) \/ Poll(s) \/ Again(s)
    <2>1. /\ Running(s)
          /\ UNCHANGED <<mListener, mParameters, mSubs, cursor, polite, inside, crossed>>
          /\ \E place \in {"sleep", "poll", "ended"} : pc' = [pc EXCEPT ![s] = place]
        BY <1>7 DEF PollNothing, Poll, Again
    <2>2. \A t \in Subs : (Registering(t)' => Registering(t)) /\ (Running(t)' => Running(t))
        BY <2>1 DEF EmptyInv, Shape
    <2>3. \A t \in Subs :
             pc'[t] \in {"unused", "started", "register", "put"} \/ pc[t] = "put" => pc'[t] = pc[t]
        BY <2>1 DEF EmptyInv, Shape
    <2>4. \A t \in Subs : pc'[t] # "unused" => pc[t] # "unused"
        BY <2>1 DEF EmptyInv, Shape
    <2>5. StopTypes' /\ OneRegisters' /\ NoRepeats' /\ Past' /\ HalfWay' /\ AllThere'
        BY <2>1, <2>2, <2>3, <2>4
        DEF StopInv, StopTypes, OneRegisters, NoRepeats, Past, HalfWay, AllThere
    <2>6. Alone' /\ InPut' /\ InAsk'
        BY <2>1, <2>2, <2>3 DEF StopInv, Alone, InPut, InAsk, Settled
    <2> QED
        BY <2>5, <2>6 DEF StopInv
<1> QED
    BY <1>1, <1>2, <1>3, <1>4, <1>5, <1>6, <1>7 DEF Run

\* Once operations have overlapped, torn remembers it.
LEMMA TornStays == [Next]_vars /\ torn => torn'
<1> SUFFICES ASSUME [Next]_vars, torn PROVE torn'
    OBVIOUS
<1> USE DEF map
<1>1. ASSUME NEW s \in Subs, Run(s) PROVE torn'
    BY <1>1 DEF Run, Begin, Register, RegisterThrows, Registered, Put, PutHangs, PollNothing,
                Poll, Again, EnterMap, LeaveMap
<1>2. ASSUME NEW l \in Listeners,
             \/ \E list \in Lists : Subscribe(l, list)
             \/ \E p \in Params :
                   AskUnsubscribe(l, p) \/ Unsubscribe(l, p) \/ UnsubscribeNotFound(l, p)
             \/ Leave(l)
      PROVE  torn'
    BY <1>2 DEF Subscribe, AskUnsubscribe, Unsubscribe, UnsubscribeNotFound, Leave,
                EnterMap, LeaveMap
<1>3. CASE UNCHANGED vars
    BY <1>3 DEF vars
<1> QED
    BY <1>1, <1>2, <1>3 DEF Next

\* As long as no operations on the table overlap, what a polite client still has of a
\* running subscription can be unsubscribed, for any clients, parameters and threads.
THEOREM StaysStoppable == Spec => []Stoppable
<1> DEFINE Inv == EmptyInv /\ (~torn => StopInv)
<1>1. Init => Inv
    BY EmptyInit, NoSubAssumption
    DEF Init, StopInv, StopTypes, OneRegisters, NoRepeats, Past, HalfWay, AllThere, Alone,
        InPut, InAsk, At, Registering, Running, Keys
<1>2. Inv /\ [Next]_vars => Inv'
    <2> SUFFICES ASSUME Inv, [Next]_vars, ~torn' PROVE StopInv'
        BY EmptyStep
    <2>0. ~torn /\ StopInv
        BY TornStays
    <2>1. CASE \E l \in Listeners :
                  \/ \E list \in Lists : Subscribe(l, list)
                  \/ \E p \in Params :
                        AskUnsubscribe(l, p) \/ Unsubscribe(l, p) \/ UnsubscribeNotFound(l, p)
                  \/ Leave(l)
        BY <2>0, <2>1, StopRequestStep
    <2>2. CASE \E s \in Subs : Run(s)
        BY <2>0, <2>2, StopRunStep
    <2>3. CASE UNCHANGED vars
        BY <2>0, <2>3 DEF vars, StopInv, StopTypes, OneRegisters, NoRepeats, Past, HalfWay,
                    AllThere, Alone, InPut, InAsk, Settled, At, Registering, Running,
                    Politeness, Key, Done
    <2> QED
        BY <2>1, <2>2, <2>3 DEF Next
<1>3. Inv => Stoppable
    BY DEF StopInv, AllThere, Stoppable, Politeness, Key
<1> QED
    BY <1>1, <1>2, <1>3, PTL DEF Spec
=============================================================================
