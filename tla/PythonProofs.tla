------------------------------ MODULE PythonProofs ------------------------------
(***************************************************************************)
(* Proofs about the parts of the Python programs that stand side by side:  *)
(* BrokerRpc (calls of a broker client), Supervisor, and CastScheduler     *)
(* (the scheduler and the launcher of casts).  They share no state, and    *)
(* each section is about one of them alone.                                *)
(***************************************************************************)
EXTENDS BrokerRpc, Supervisor, CastScheduler, FiniteSetTheorems, SequenceTheorems, TLAPS

-----------------------------------------------------------------------------
(* BrokerRpc: the handler thread stops only after a loss, and calls that are
   composed apart return the replies to their own requests. *)

\* Before the first loss every caller past the test of connected, and the
\* handler, work on an open socket.
SoundSocket ==
  losses = 0 =>
    /\ running /\ reader # "dead" /\ socket \in {"none", "open"}
    /\ connected => socket = "open"
    /\ \A c \in Callers : pc[c] \in {"params", "dump", "send"} => socket = "open"

Requests == {Request(n) : n \in Nat}

\* Calls composed apart: the counter is the number of calls, an id is the
\* number of its call, and what is composed, under way or received is what
\* the call of that number should send.
Numbered ==
  /\ (\A c \in Callers : pc[c] # "bump") => jsonId = issued
  /\ \A c \in Callers :
       /\ pc[c] = "bump" => id[c] = jsonId /\ jsonId + 1 = issued
       /\ pc[c] \in Composing => call[c] = issued
       /\ pc[c] \in {"compose", "params", "dump", "send", "wait"} => id[c] = call[c]

OneComposes ==
  \A c, d \in Callers : c # d /\ pc[c] \in Composing => pc[d] \notin Composing

Composed ==
  \A c \in Callers :
    /\ pc[c] = "params" => /\ call[c] \in WithParams
                           /\ msg = [id |-> call[c], of |-> call[c], params |-> 0]
    /\ pc[c] = "dump" => msg = Request(call[c])
    /\ pc[c] = "send" => data[c] = Request(call[c])

Genuine ==
  /\ replies \subseteq Requests
  /\ toBroker \in Seq(Requests) /\ toClient \in Seq(Requests) /\ buffer \in Seq(Requests)

Matched == \A c \in Callers : answer[c] \subseteq {Request(call[c])}

Apart == apart => Numbered /\ OneComposes /\ Composed /\ Genuine /\ Matched

-----------------------------------------------------------------------------
(* Types. *)

LEMMA InitType == ASSUME Init PROVE TypeOK
<1>1. /\ issued \in 0..MaxCalls /\ jsonId \in Nat /\ losses \in 0..MaxLosses
      /\ msg \in Message /\ replies \subseteq Message
      /\ \A r, q \in replies : r.id = q.id => r = q
    BY CountsAssumption DEF Init, Message, NoMessage
<1>2. /\ pc \in [Callers -> Composing \cup {"idle", "send", "wait"}]
      /\ call \in [Callers -> Nat] /\ id \in [Callers -> Nat]
      /\ data \in [Callers -> Message] /\ answer \in [Callers -> SUBSET Message]
    BY DEF Init, Message, NoMessage
<1>3. /\ running \in BOOLEAN /\ connected \in BOOLEAN /\ apart \in BOOLEAN
      /\ reader \in {"loop", "connecting", "dead"}
      /\ socket \in {"none", "open", "fin", "reset", "closed"}
    BY DEF Init
<1>4. /\ toBroker \in Seq(Message) /\ toClient \in Seq(Message) /\ buffer \in Seq(Message)
      /\ executed \in Seq(Message)
    BY EmptySeq DEF Init
<1> QED  BY <1>1, <1>2, <1>3, <1>4 DEF TypeOK

\* A step of a caller keeps the types.
LEMMA CallerType ==
    ASSUME TypeOK, NEW c \in Callers, Start(c) \/ Caller(c)
    PROVE  TypeOK'
<1> USE DEF TypeOK, Goto, Composing, IsConnected, StillRunning, NextId,
            shared, local, handler, wire
<1>1. CASE Start(c)
    <2>1. issued + 1 \in 0..MaxCalls /\ issued + 1 \in Nat
        BY <1>1, CountsAssumption DEF Start
    <2>2. apart' \in BOOLEAN
        BY <1>1 DEF Start
    <2> QED  BY <1>1, <2>1, <2>2 DEF Start
<1>2. CASE Bump(c)
    BY <1>2 DEF Bump
<1>3. CASE Load(c)
    BY <1>3 DEF Load
<1>4. CASE NotConnected(c) \/ TimeOut(c)
    <2>1. Fail(c)
        BY <1>4 DEF NotConnected, TimeOut
    <2> QED  BY <2>1 DEF Fail, Return
<1>5. CASE Compose(c)
    BY <1>5 DEF Compose, Message
<1>6. CASE AddParams(c)
    BY <1>6 DEF AddParams, Message
<1>7. CASE Dump(c)
    BY <1>7 DEF Dump
<1>8. CASE Send(c)
    <2>1. NoMessage \in Message
        BY DEF NoMessage, Message
    <2>2. Append(toBroker, data[c]) \in Seq(Message)
        OBVIOUS
    <2>3. running' \in BOOLEAN /\ socket' \in {"none", "open", "fin", "reset", "closed"}
        BY <1>8 DEF Send
    <2> QED  BY <1>8, <2>1, <2>2, <2>3 DEF Send
<1>9. CASE Take(c)
    BY <1>9 DEF Take, Return
<1> QED  BY <1>1, <1>2, <1>3, <1>4, <1>5, <1>6, <1>7, <1>8, <1>9 DEF Caller

\* So does a step of the handler thread or of the broker.
LEMMA OtherType ==
    ASSUME TypeOK, Reader \/ Connect \/ Serve \/ Lose
    PROVE  TypeOK'
<1> USE DEF TypeOK, DropConnection, Filed, shared, local, handler, wire
<1>1. CASE Receive
    <2> DEFINE lines == IF buffer = <<>> THEN toClient ELSE buffer
    <2>1. lines \in Seq(Message) /\ lines # <<>>
        BY <1>1 DEF Receive
    <2>2. Head(lines) \in Message /\ Tail(lines) \in Seq(Message) /\ toClient' \in Seq(Message)
        BY <1>1, <2>1, EmptySeq DEF Receive
    <2>3. replies' = Filed(Head(lines)) /\ buffer' = Tail(lines)
        BY <1>1 DEF Receive
    <2> HIDE DEF lines
    <2> QED  BY <1>1, <2>2, <2>3 DEF Receive
<1>2. CASE Lost \/ Reset \/ TryConnect \/ Refused \/ Exit
    BY <1>2 DEF Lost, Reset, TryConnect, Refused, Exit
<1>3. CASE Connect
    BY <1>3 DEF Connect
<1>4. CASE Serve
    <2>1. Head(toBroker) \in Message /\ Tail(toBroker) \in Seq(Message)
        BY <1>4 DEF Serve
    <2>2. /\ Append(toClient, Head(toBroker)) \in Seq(Message)
          /\ Append(executed, Head(toBroker)) \in Seq(Message)
        BY <2>1
    <2> QED  BY <1>4, <2>1, <2>2 DEF Serve
<1>5. CASE Lose
    <2>1. losses + 1 \in 0..MaxLosses
        BY <1>5, CountsAssumption DEF Lose
    <2> QED  BY <1>5, <2>1 DEF Lose
<1> QED  BY <1>1, <1>2, <1>3, <1>4, <1>5 DEF Reader

LEMMA TypeStep == ASSUME TypeOK, [Next]_vars PROVE TypeOK'
<1>1. CASE UNCHANGED vars
    BY <1>1 DEF TypeOK, vars
<1> QED  BY <1>1, CallerType, OtherType DEF Next

\* Every variable keeps its type.
THEOREM TypeCorrect == Spec => []TypeOK
<1> QED  BY InitType, TypeStep, PTL DEF Spec

-----------------------------------------------------------------------------
(* The handler thread and the connection. *)

LEMMA InitSound == ASSUME Init PROVE SoundSocket
BY DEF Init, SoundSocket

LEMMA CallerSound ==
    ASSUME TypeOK, SoundSocket, NEW c \in Callers, Start(c) \/ Caller(c)
    PROVE  SoundSocket'
<1> SUFFICES ASSUME losses = 0, losses' = 0
             PROVE  SoundSocket'
    <2>1. losses' = losses
        BY DEF Start, Caller, Bump, Load, NotConnected, Compose, AddParams, Dump, Send,
               Take, TimeOut, Fail, Return, handler
    <2> QED  BY <2>1 DEF SoundSocket
<1>1. /\ running /\ reader # "dead" /\ socket \in {"none", "open"}
      /\ connected => socket = "open"
      /\ \A d \in Callers : pc[d] \in {"params", "dump", "send"} => socket = "open"
    BY DEF SoundSocket
<1>2. /\ running' /\ reader' = reader /\ socket' = socket /\ connected' = connected
    <2>1. CASE Send(c)
        BY <1>1, <2>1 DEF Send, StillRunning
    <2>2. CASE ~Send(c)
        BY <1>1, <2>2 DEF Start, Caller, Bump, Load, NotConnected, Compose, AddParams, Dump,
               Take, TimeOut, Fail, Return, handler
    <2> QED  BY <2>1, <2>2
<1>3. \A d \in Callers : d # c => pc'[d] = pc[d]
    BY DEF TypeOK, Start, Caller, Bump, Load, NotConnected, Compose, AddParams, Dump, Send,
           Take, TimeOut, Fail, Return, Goto
<1>4. pc'[c] \in {"params", "dump", "send"} => socket = "open"
    <2>1. CASE Compose(c) \/ AddParams(c) \/ Dump(c)
        BY <1>1, <2>1 DEF Compose, AddParams, Dump, IsConnected
    <2>2. CASE ~(Compose(c) \/ AddParams(c) \/ Dump(c))
        <3>1. pc'[c] \in {"idle", "bump", "load", "compose", "wait"}
            BY <2>2 DEF TypeOK, Start, Caller, Bump, Load, NotConnected, Send,
                        Take, TimeOut, Fail, Return, Goto
        <3> QED  BY <3>1
    <2> QED  BY <2>1, <2>2
<1> QED  BY <1>1, <1>2, <1>3, <1>4 DEF SoundSocket

LEMMA OtherSound ==
    ASSUME TypeOK, SoundSocket, Reader \/ Connect \/ Serve \/ Lose
    PROVE  SoundSocket'
<1>1. CASE Receive \/ Serve
    BY <1>1 DEF Receive, Serve, SoundSocket, handler
<1>2. CASE Lost \/ Reset \/ Exit
    BY <1>2 DEF Lost, DropConnection, Reset, Exit, SoundSocket
<1>3. CASE TryConnect \/ Refused
    BY <1>3 DEF TryConnect, Refused, SoundSocket
<1>4. CASE Connect
    BY <1>4 DEF Connect, SoundSocket
<1>5. CASE Lose
    <2>1. losses' # 0
        BY <1>5 DEF Lose, TypeOK
    <2> QED  BY <2>1 DEF SoundSocket
<1> QED  BY <1>1, <1>2, <1>3, <1>4, <1>5 DEF Reader

LEMMA SoundStep == ASSUME TypeOK, SoundSocket, [Next]_vars PROVE SoundSocket'
<1>1. CASE UNCHANGED vars
    BY <1>1 DEF SoundSocket, vars
<1> QED  BY <1>1, CallerSound, OtherSound DEF Next

\* Without a lost connection the handler thread never stops, whatever the
\* callers' threads do to each other.
THEOREM StopsAfterLoss == Spec => []StopsOnlyAfterLoss
<1>1. TypeOK /\ SoundSocket => StopsOnlyAfterLoss
    BY DEF TypeOK, SoundSocket, StopsOnlyAfterLoss
<1>2. Init => TypeOK /\ SoundSocket
    BY InitType, InitSound
<1>3. TypeOK /\ SoundSocket /\ [Next]_vars => (TypeOK /\ SoundSocket)'
    BY TypeStep, SoundStep
<1> QED  BY <1>1, <1>2, <1>3, PTL DEF Spec

-----------------------------------------------------------------------------
(* The calls. *)

LEMMA InitApart == ASSUME Init PROVE Apart
<1>1. Genuine
    BY EmptySeq DEF Init, Genuine
<1>2. Numbered /\ OneComposes /\ Composed /\ Matched
    BY DEF Init, Numbered, OneComposes, Composed, Matched, Composing
<1> QED  BY <1>1, <1>2 DEF Apart

\* A step of a caller that is not composing alone: the counter and msg stay.
LEMMA CountersStay ==
    ASSUME TypeOK, Numbered, OneComposes, NEW c \in Callers, pc[c] # "bump", pc[c] # "idle",
           UNCHANGED <<issued, jsonId, call>>,
           \A d \in Callers : d # c => id'[d] = id[d] /\ pc'[d] = pc[d],
           pc'[c] # "bump",
           pc'[c] \in Composing => pc[c] \in Composing,
           pc'[c] \in {"compose", "params", "dump", "send", "wait"} => id'[c] = call[c]
    PROVE  Numbered' /\ OneComposes'
<1>1. Numbered'
    BY DEF Numbered, TypeOK
<1>2. OneComposes'
    BY DEF OneComposes, TypeOK
<1> QED  BY <1>1, <1>2

\* The first step of a call that nobody else is composing with.
LEMMA StartApart ==
    ASSUME TypeOK, Apart, apart', NEW c \in Callers, Start(c)
    PROVE  Apart'
<1>1. /\ apart /\ \A d \in Callers : pc[d] \notin Composing
      /\ Numbered /\ OneComposes /\ Composed /\ Genuine /\ Matched
    BY DEF Start, Apart, TypeOK
<1>2. /\ pc' = [pc EXCEPT ![c] = "bump"] /\ id' = [id EXCEPT ![c] = jsonId]
      /\ call' = [call EXCEPT ![c] = issued + 1] /\ answer' = [answer EXCEPT ![c] = {}]
      /\ issued' = issued + 1 /\ jsonId' = jsonId /\ msg' = msg /\ replies' = replies
      /\ data' = data /\ toBroker' = toBroker /\ toClient' = toClient /\ buffer' = buffer
    BY DEF Start, Goto, wire
<1>3. jsonId = issued
    BY <1>1 DEF Numbered, Composing
<1>4. \A d \in Callers : d # c => /\ pc'[d] = pc[d] /\ id'[d] = id[d] /\ call'[d] = call[d]
                                  /\ answer'[d] = answer[d]
    BY <1>2 DEF TypeOK
<1>5. pc'[c] = "bump" /\ id'[c] = jsonId /\ call'[c] = issued + 1 /\ answer'[c] = {}
    BY <1>2 DEF TypeOK
<1>6. Numbered'
    BY <1>1, <1>2, <1>3, <1>4, <1>5 DEF Numbered, Composing
<1>7. OneComposes'
    BY <1>1, <1>4, <1>5 DEF OneComposes
<1>8. Composed'
    BY <1>1, <1>2, <1>4, <1>5 DEF Composed, Composing
<1>9. Genuine' /\ Matched'
    BY <1>1, <1>2, <1>4, <1>5 DEF Genuine, Matched
<1> QED  BY <1>6, <1>7, <1>8, <1>9 DEF Apart

\* The steps in which a caller composes its message.
LEMMA ComposeApart ==
    ASSUME TypeOK, Apart, apart', NEW c \in Callers,
           Bump(c) \/ Load(c) \/ Compose(c) \/ AddParams(c) \/ Dump(c)
    PROVE  Apart'
<1>1. /\ apart
      /\ Numbered /\ OneComposes /\ Composed /\ Genuine /\ Matched
    BY DEF Bump, Load, Compose, AddParams, Dump, Apart, shared
<1>2. /\ issued' = issued /\ call' = call /\ answer' = answer /\ replies' = replies
      /\ toBroker' = toBroker /\ toClient' = toClient /\ buffer' = buffer
    BY DEF Bump, Load, Compose, AddParams, Dump, shared, local, wire
<1>3. Genuine' /\ Matched'
    BY <1>1, <1>2 DEF Genuine, Matched
<1>4. pc[c] \in Composing /\ call[c] = issued
    BY <1>1 DEF Bump, Load, Compose, AddParams, Dump, Numbered, Composing
<1>5. \A d \in Callers : d # c => pc[d] \notin Composing
    BY <1>1, <1>4 DEF OneComposes
<1>6. \A d \in Callers : d # c => pc'[d] = pc[d] /\ id'[d] = id[d] /\ data'[d] = data[d]
    BY DEF Bump, Load, Compose, AddParams, Dump, Goto, local, TypeOK
<1>7. OneComposes'
    BY <1>5, <1>6 DEF OneComposes
<1>8. Numbered'
    <2>1. CASE Bump(c)
        <3>1. jsonId' = issued /\ pc'[c] = "load"
            BY <1>1, <2>1 DEF Bump, NextId, Goto, Numbered, TypeOK
        <3> QED  BY <1>1, <1>2, <1>4, <1>5, <1>6, <3>1 DEF Numbered, Composing
    <2>2. CASE Load(c)
        <3>1. pc'[c] = "compose" /\ id'[c] = jsonId /\ jsonId' = jsonId
            BY <2>2 DEF Load, Goto, shared, TypeOK
        <3>2. jsonId = issued
            BY <1>1, <1>5, <2>2 DEF Load, Numbered, Composing
        <3> QED  BY <1>1, <1>2, <1>4, <1>5, <1>6, <3>1, <3>2 DEF Numbered, Composing
    <2>3. CASE Compose(c) \/ AddParams(c) \/ Dump(c)
        <3>1. /\ pc'[c] \in {"params", "dump", "send"} /\ id' = id /\ jsonId' = jsonId
              /\ pc[c] \in {"compose", "params", "dump"}
            BY <2>3 DEF Compose, AddParams, Dump, Goto, shared, local, TypeOK
        <3>2. id'[c] = call[c]
            BY <1>1, <3>1 DEF Numbered
        <3> QED  BY <1>1, <1>2, <1>4, <1>6, <3>1, <3>2, CountersStay DEF Composing
    <2> QED  BY <2>1, <2>2, <2>3
<1>9. Composed'
    <2>1. \A d \in Callers : d # c => /\ pc'[d] \notin {"params", "dump"}
                                      /\ pc'[d] = "send" => data'[d] = Request(call'[d])
        BY <1>1, <1>2, <1>5, <1>6 DEF Composed, Composing
    <2>2. CASE Bump(c) \/ Load(c)
        <3>1. pc'[c] \in {"load", "compose"}
            BY <2>2 DEF Bump, Load, Goto, TypeOK
        <3> QED  BY <2>1, <3>1 DEF Composed
    <2>3. CASE Compose(c)
        <3>1. id[c] = call[c]
            BY <1>1, <2>3 DEF Numbered, Compose
        <3>2. /\ msg' = [id |-> call[c], of |-> call[c], params |-> 0]
              /\ pc'[c] = IF call[c] \in WithParams THEN "params" ELSE "dump"
            BY <2>3, <3>1 DEF Compose, Goto, TypeOK
        <3> QED  BY <1>2, <2>1, <3>2 DEF Composed, Request
    <2>4. CASE AddParams(c)
        <3>1. pc'[c] = "dump" /\ msg' = [msg EXCEPT !.params = call[c]]
            BY <2>4 DEF AddParams, Goto, TypeOK
        <3>2. /\ call[c] \in WithParams
              /\ msg = [id |-> call[c], of |-> call[c], params |-> 0]
            BY <1>1, <2>4 DEF Composed, AddParams
        <3>3. msg' = Request(call[c])
            BY <3>1, <3>2 DEF Request
        <3> QED  BY <1>2, <2>1, <3>1, <3>3 DEF Composed
    <2>5. CASE Dump(c)
        <3>1. pc'[c] = "send" /\ data'[c] = msg
            BY <2>5 DEF Dump, Goto, TypeOK
        <3>2. msg = Request(call[c])
            BY <1>1, <2>5 DEF Composed, Dump
        <3> QED  BY <1>2, <2>1, <3>1, <3>2 DEF Composed
    <2> QED  BY <2>2, <2>3, <2>4, <2>5
<1> QED  BY <1>3, <1>7, <1>8, <1>9 DEF Apart

\* The other steps of a call: it is sent, it is answered, or it ends.
LEMMA EndApart ==
    ASSUME TypeOK, Apart, apart', NEW c \in Callers,
           NotConnected(c) \/ Send(c) \/ Take(c) \/ TimeOut(c)
    PROVE  Apart'
<1> DEFINE Ends == NotConnected(c) \/ TimeOut(c)
<1>1. /\ apart
      /\ Numbered /\ OneComposes /\ Composed /\ Genuine /\ Matched
    BY DEF NotConnected, Send, Take, TimeOut, Fail, Return, Apart, shared
<1>2. /\ issued' = issued /\ jsonId' = jsonId /\ msg' = msg /\ call' = call
      /\ toClient' = toClient /\ buffer' = buffer
    BY DEF NotConnected, Send, Take, TimeOut, Fail, Return, shared, handler, wire
<1>3. pc[c] \in {"compose", "send", "wait"} /\ pc'[c] \in {"wait", "idle"}
    BY DEF NotConnected, Send, Take, TimeOut, Fail, Return, Goto, TypeOK
<1>4. \A d \in Callers : d # c => pc'[d] = pc[d] /\ id'[d] = id[d] /\ data'[d] = data[d]
    BY DEF NotConnected, Send, Take, TimeOut, Fail, Return, Goto, TypeOK
<1>5. Numbered' /\ OneComposes'
    <2>1. pc'[c] = "wait" => id'[c] = call[c]
        <3>1. CASE Send(c)
            BY <1>1, <3>1 DEF Send, Numbered
        <3>2. CASE ~Send(c)
            BY <3>2 DEF NotConnected, Take, TimeOut, Fail, Return, Goto, TypeOK
        <3> QED  BY <3>1, <3>2
    <2>2. UNCHANGED <<issued, jsonId, call>>
        BY <1>2
    <2> QED  BY <1>1, <1>3, <1>4, <2>1, <2>2, CountersStay DEF Composing
<1>6. Composed'
    BY <1>1, <1>2, <1>3, <1>4 DEF Composed
<1>7. Genuine' /\ Matched'
    <2>1. CASE Send(c)
        <3>1. data[c] \in Requests
            BY <1>1, <2>1 DEF Send, Composed, Requests, TypeOK
        <3>2. Append(toBroker, data[c]) \in Seq(Requests)
            BY <1>1, <3>1 DEF Genuine
        <3>3. replies' = replies /\ answer' = answer
            BY <2>1 DEF Send
        <3>4. toBroker' = toBroker \/ toBroker' = Append(toBroker, data[c])
            BY <2>1 DEF Send
        <3>5. toBroker' \in Seq(Requests)
            BY <1>1, <3>2, <3>4 DEF Genuine
        <3> QED  BY <1>1, <1>2, <3>3, <3>5 DEF Genuine, Matched
    <2>2. CASE Take(c)
        <3>1. PICK r \in replies : /\ r.id = id[c] /\ replies' = replies \ {r}
                                   /\ answer' = [answer EXCEPT ![c] = {r}]
            BY <2>2 DEF Take
        <3>2. r = Request(call[c])
            <4>1. PICK n \in Nat : r = Request(n)
                BY <1>1 DEF Genuine, Requests
            <4>2. id[c] = call[c]
                BY <1>1, <2>2 DEF Take, Numbered
            <4> QED  BY <3>1, <4>1, <4>2 DEF Request
        <3>3. Matched'
            BY <1>1, <1>2, <3>1, <3>2 DEF Matched, TypeOK
        <3>4. toBroker' = toBroker
            BY <2>2 DEF Take, Return, wire
        <3> QED  BY <1>1, <1>2, <3>1, <3>3, <3>4 DEF Genuine
    <2>3. CASE Ends
        BY <1>1, <1>2, <2>3 DEF NotConnected, TimeOut, Fail, Return, wire, Genuine, Matched
    <2> QED  BY <2>1, <2>2, <2>3
<1> QED  BY <1>5, <1>6, <1>7 DEF Apart

\* The handler thread and the broker only move replies and requests.
LEMMA OtherApart ==
    ASSUME TypeOK, Apart, apart', Reader \/ Connect \/ Serve \/ Lose
    PROVE  Apart'
<1>1. /\ UNCHANGED <<issued, jsonId, msg, apart>> /\ UNCHANGED pc
      /\ UNCHANGED <<call, id, data>> /\ UNCHANGED answer
    BY DEF Reader, Receive, Lost, Reset, TryConnect, Connect, Refused, Exit, Serve, Lose,
           shared, local
<1>2. Numbered /\ OneComposes /\ Composed /\ Genuine /\ Matched
    BY <1>1 DEF Apart
<1>3. Numbered' /\ OneComposes'
    BY <1>1, <1>2 DEF Numbered, OneComposes
<1>4. Composed' /\ Matched'
    BY <1>1, <1>2 DEF Composed, Matched
<1>5. Genuine'
    <2> USE DEF Genuine
    <2>1. CASE Receive
        <3> DEFINE lines == IF buffer = <<>> THEN toClient ELSE buffer
        <3>1. lines \in Seq(Requests) /\ lines # <<>>
            BY <1>2, <2>1 DEF Receive
        <3>2. /\ Head(lines) \in Requests /\ Tail(lines) \in Seq(Requests)
              /\ toClient' \in Seq(Requests)
            BY <1>2, <2>1, <3>1, EmptySeq DEF Receive
        <3>3. replies' = Filed(Head(lines)) /\ buffer' = Tail(lines) /\ toBroker' = toBroker
            BY <2>1 DEF Receive
        <3> HIDE DEF lines
        <3> QED  BY <1>2, <3>2, <3>3 DEF Filed
    <2>2. CASE Serve
        <3>1. Head(toBroker) \in Requests /\ Tail(toBroker) \in Seq(Requests)
            BY <1>2, <2>2 DEF Serve
        <3>2. Append(toClient, Head(toBroker)) \in Seq(Requests)
            BY <1>2, <3>1
        <3> QED  BY <1>2, <2>2, <3>1, <3>2 DEF Serve
    <2>3. CASE Connect \/ Lose
        <3>1. <<>> \in Seq(Requests)
            BY EmptySeq
        <3> QED  BY <1>2, <2>3, <3>1 DEF Connect, Lose
    <2>4. CASE Lost \/ Reset \/ TryConnect \/ Refused \/ Exit
        BY <1>2, <2>4 DEF Lost, Reset, TryConnect, Refused, Exit, wire
    <2> QED  BY <2>1, <2>2, <2>3, <2>4 DEF Reader
<1> QED  BY <1>3, <1>4, <1>5 DEF Apart

LEMMA ApartStep == ASSUME TypeOK, Apart, [Next]_vars PROVE Apart'
<1> SUFFICES ASSUME apart' PROVE Apart'
    BY DEF Apart
<1>1. CASE UNCHANGED vars
    BY <1>1 DEF vars, Apart, Numbered, OneComposes, Composed, Genuine, Matched
<1>2. ASSUME NEW c \in Callers, Start(c) \/ Caller(c) PROVE Apart'
    BY <1>2, StartApart, ComposeApart, EndApart DEF Caller
<1> QED  BY <1>1, <1>2, OtherApart DEF Next

\* As long as calls are composed apart, a call returns only its own reply,
\* with any number of callers, calls, losses and late replies.
THEOREM RepliesAreOwn == Spec => []OwnReply
<1>1. Apart => OwnReply
    BY DEF Apart, OwnReply, Matched
<1>2. Init => TypeOK /\ Apart
    BY InitType, InitApart
<1>3. TypeOK /\ Apart /\ [Next]_vars => (TypeOK /\ Apart)'
    BY TypeStep, ApartStep
<1> QED  BY <1>1, <1>2, <1>3, PTL DEF Spec

-----------------------------------------------------------------------------
(* BrokerRpc implements CallService while calls are composed apart. *)

Executed(m) == \E i \in DOMAIN executed : executed[i] = m

\* Calls under way are of different numbers, and of those given out.
CallsDiffer ==
  /\ \A c \in Callers : pc[c] # "idle" => call[c] \in 1..issued
  /\ \A c, d \in Callers : c # d /\ pc[c] # "idle" /\ pc[d] # "idle" => call[c] # call[d]

\* What is not sent yet is not on its way to the broker, and was not executed.
Unsent ==
  \A c \in Callers : pc[c] \in Composing \cup {"send"} =>
    /\ ~Executed(Request(call[c]))
    /\ \A i \in DOMAIN toBroker : toBroker[i] # Request(call[c])

\* What is on its way was sent once, and is not executed yet.
OnTheWay ==
  /\ \A i \in DOMAIN toBroker :
       ~Executed(toBroker[i]) /\ \E n \in 1..issued : toBroker[i] = Request(n)
  /\ \A i, j \in DOMAIN toBroker : toBroker[i] = toBroker[j] => i = j
  /\ \A i \in DOMAIN executed : \E n \in 1..issued : executed[i] = Request(n)

\* Replies are to what was executed.
Replied ==
  /\ \A r \in replies : Executed(r)
  /\ \A i \in DOMAIN toClient : Executed(toClient[i])
  /\ \A i \in DOMAIN buffer : Executed(buffer[i])

SentOnce == apart => CallsDiffer /\ Unsent /\ OnTheWay /\ Replied

\* Requests of different calls differ.
LEMMA RequestsDiffer == ASSUME NEW m, NEW n, Request(m) = Request(n) PROVE m = n
BY DEF Request

LEMMA InitSent == ASSUME Init PROVE SentOnce
BY DEF Init, SentOnce, CallsDiffer, Unsent, OnTheWay, Replied, Composing

\* A new call has a number that nothing under way has.
LEMMA StartSent ==
  ASSUME TypeOK, SentOnce, apart', NEW c \in Callers, Start(c)
  PROVE  SentOnce'
<1>1. CallsDiffer /\ Unsent /\ OnTheWay /\ Replied /\ issued \in Nat
  BY CountsAssumption DEF Start, SentOnce, TypeOK
<1>2. /\ issued' = issued + 1 /\ replies' = replies
      /\ toBroker' = toBroker /\ toClient' = toClient /\ buffer' = buffer /\ executed' = executed
  BY DEF Start, wire
<1>3. /\ pc'[c] = "bump" /\ call'[c] = issued + 1 /\ pc[c] = "idle"
      /\ \A d \in Callers : d # c => pc'[d] = pc[d] /\ call'[d] = call[d]
  BY DEF Start, Goto, TypeOK
<1>4. \A n \in 1..issued : n \in 1..(issued + 1) /\ Request(n) # Request(issued + 1)
  BY <1>1, RequestsDiffer
<1>5. CallsDiffer'
  BY <1>1, <1>2, <1>3 DEF CallsDiffer
<1>6. OnTheWay' /\ Replied'
  BY <1>1, <1>2, <1>4 DEF OnTheWay, Replied, Executed
<1>7. Unsent'
  <2>1. /\ ~Executed(Request(issued + 1))
        /\ \A i \in DOMAIN toBroker : toBroker[i] # Request(issued + 1)
    BY <1>1, <1>4 DEF OnTheWay, Executed
  <2> QED
    BY <1>1, <1>2, <1>3, <2>1 DEF Unsent, Executed
<1> QED
  BY <1>5, <1>6, <1>7 DEF SentOnce

\* The steps of a call that send nothing.
LEMMA QuietSent ==
  ASSUME TypeOK, SentOnce, apart', NEW c \in Callers,
         \/ Bump(c) \/ Load(c) \/ NotConnected(c) \/ Compose(c) \/ AddParams(c) \/ Dump(c)
         \/ Take(c) \/ TimeOut(c)
  PROVE  SentOnce'
<1>1. /\ apart' = apart /\ issued' = issued /\ call' = call
      /\ toBroker' = toBroker /\ toClient' = toClient /\ buffer' = buffer /\ executed' = executed
  BY DEF Bump, Load, NotConnected, Compose, AddParams, Dump, Take, TimeOut, Fail, Return, shared, local, wire
<1>2. replies' \subseteq replies
  BY DEF Bump, Load, NotConnected, Compose, AddParams, Dump, Take, TimeOut, Fail
<1>3. \A d \in Callers : d # c => pc'[d] = pc[d]
  BY DEF Bump, Load, NotConnected, Compose, AddParams, Dump, Take, TimeOut, Fail, Return, Goto, TypeOK
<1>4. /\ pc[c] # "idle"
      /\ pc'[c] \in Composing \cup {"send"} => pc[c] \in Composing \cup {"send"}
  BY DEF Bump, Load, NotConnected, Compose, AddParams, Dump, Take, TimeOut, Fail, Return, Goto, TypeOK, Composing
<1>5. CallsDiffer /\ Unsent /\ OnTheWay /\ Replied
  BY <1>1 DEF SentOnce
<1>6. CallsDiffer'
  BY <1>1, <1>3, <1>4, <1>5 DEF CallsDiffer
<1>7. Unsent'
  BY <1>1, <1>3, <1>4, <1>5 DEF Unsent, Executed
<1>8. OnTheWay' /\ Replied'
  BY <1>1, <1>2, <1>5 DEF OnTheWay, Replied, Executed
<1> QED
  BY <1>6, <1>7, <1>8 DEF SentOnce

\* A request is sent once.
LEMMA SendSent ==
  ASSUME TypeOK, Apart, SentOnce, apart', NEW c \in Callers, Send(c)
  PROVE  SentOnce'
<1>1. /\ apart' = apart /\ issued' = issued /\ call' = call /\ replies' = replies
      /\ toClient' = toClient /\ buffer' = buffer /\ executed' = executed
      /\ pc[c] = "send" /\ pc'[c] = "wait" /\ \A d \in Callers : d # c => pc'[d] = pc[d]
      /\ toBroker' = toBroker \/ toBroker' = Append(toBroker, data[c])
  BY DEF Send, shared, Goto, TypeOK
<1>2. CallsDiffer /\ Unsent /\ OnTheWay /\ Replied
  BY <1>1 DEF SentOnce
<1>3. data[c] = Request(call[c]) /\ call[c] \in 1..issued
  BY <1>1, <1>2 DEF Apart, Composed, CallsDiffer
<1>4. /\ ~Executed(Request(call[c])) /\ \A i \in DOMAIN toBroker : toBroker[i] # Request(call[c])
  BY <1>1, <1>2 DEF Unsent
<1>5. \A i \in DOMAIN toBroker' :
        \/ i \in DOMAIN toBroker /\ toBroker'[i] = toBroker[i]
        \/ i = Len(toBroker) + 1 /\ i \notin DOMAIN toBroker /\ toBroker'[i] = Request(call[c])
  <2>1. toBroker \in Seq(Message)
    BY DEF TypeOK
  <2> QED
    BY <1>1, <1>3, <2>1
<1>6. CallsDiffer'
  BY <1>1, <1>2 DEF CallsDiffer
<1>7. Unsent'
  <2> SUFFICES ASSUME NEW d \in Callers, pc'[d] \in Composing \cup {"send"}
               PROVE  /\ ~Executed(Request(call[d]))
                      /\ \A i \in DOMAIN toBroker' : toBroker'[i] # Request(call[d])
    BY <1>1 DEF Unsent, Executed
  <2>1. d # c /\ pc[d] = pc'[d]
    BY <1>1 DEF Composing
  <2>2. /\ ~Executed(Request(call[d])) /\ \A i \in DOMAIN toBroker : toBroker[i] # Request(call[d])
    BY <1>2, <2>1 DEF Unsent
  <2>3. call[d] # call[c]
    BY <1>1, <1>2, <2>1 DEF CallsDiffer, Composing
  <2>4. Request(call[c]) # Request(call[d])
    BY <2>3, RequestsDiffer
  <2> QED
    BY <1>5, <2>2, <2>4
<1>8. OnTheWay' /\ Replied'
  <2>1. \A i \in DOMAIN toBroker' :
          ~Executed(toBroker'[i]) /\ \E n \in 1..issued : toBroker'[i] = Request(n)
    BY <1>2, <1>3, <1>4, <1>5 DEF OnTheWay
  <2>2. \A i, j \in DOMAIN toBroker' : toBroker'[i] = toBroker'[j] => i = j
    BY <1>2, <1>4, <1>5 DEF OnTheWay
  <2> QED
    BY <1>1, <1>2, <2>1, <2>2 DEF OnTheWay, Replied, Executed
<1> QED
  BY <1>6, <1>7, <1>8 DEF SentOnce

\* The broker executes what is first on its way, and replies are only moved.
LEMMA OtherSent ==
  ASSUME TypeOK, SentOnce, apart', Reader \/ Connect \/ Serve \/ Lose
  PROVE  SentOnce'
<1>1. /\ apart' = apart /\ issued' = issued /\ call' = call /\ pc' = pc
  BY DEF Reader, Receive, Lost, Reset, TryConnect, Connect, Refused, Exit, Serve, Lose, shared, local
<1>2. CallsDiffer /\ Unsent /\ OnTheWay /\ Replied
  BY <1>1 DEF SentOnce
<1>3. CallsDiffer'
  BY <1>1, <1>2 DEF CallsDiffer
<1>4. /\ toBroker \in Seq(Message) /\ toClient \in Seq(Message) /\ buffer \in Seq(Message)
      /\ executed \in Seq(Message)
  BY DEF TypeOK
<1>5. CASE Receive
  <2> DEFINE lines == IF buffer = <<>> THEN toClient ELSE buffer
  <2>1. lines \in Seq(Message) /\ lines # <<>> /\ \A i \in DOMAIN lines : Executed(lines[i])
    BY <1>2, <1>4, <1>5 DEF Receive, Replied
  <2>2. /\ replies' = Filed(Head(lines)) /\ buffer' = Tail(lines) /\ toBroker' = toBroker
        /\ executed' = executed /\ (toClient' = toClient \/ toClient' = <<>>)
    BY <1>5 DEF Receive
  <2> HIDE DEF lines
  <2>3. Executed(Head(lines)) /\ \A i \in DOMAIN Tail(lines) : Executed(Tail(lines)[i])
    BY <2>1
  <2>4. \A r \in replies' : Executed(r)
    BY <1>2, <2>2, <2>3 DEF Filed, Replied
  <2>5. Replied'
    BY <1>2, <2>2, <2>3, <2>4 DEF Replied, Executed
  <2>6. Unsent' /\ OnTheWay'
    BY <1>1, <1>2, <2>2 DEF Unsent, OnTheWay, Executed
  <2> QED
    BY <1>3, <2>5, <2>6 DEF SentOnce
<1>6. CASE Serve
  <2> DEFINE m == Head(toBroker)
  <2>1. /\ toBroker # <<>> /\ toBroker' = Tail(toBroker) /\ executed' = Append(executed, m)
        /\ toClient' = Append(toClient, m) /\ replies' = replies /\ buffer' = buffer
    BY <1>6 DEF Serve
  <2>2. 1 \in DOMAIN toBroker /\ m = toBroker[1]
    BY <1>4, <2>1
  <2>3. \A i \in DOMAIN toBroker' : i + 1 \in DOMAIN toBroker /\ toBroker'[i] = toBroker[i + 1] /\ i \in Nat /\ i + 1 # 1
    BY <1>4, <2>1
  <2>4. /\ \A i \in DOMAIN executed : i \in DOMAIN executed' /\ executed'[i] = executed[i]
        /\ \A i \in DOMAIN executed' : (i \in DOMAIN executed /\ executed'[i] = executed[i]) \/ executed'[i] = m
        /\ \E i \in DOMAIN executed' : executed'[i] = m
    <3>1. m \in Message
      BY <1>4, <2>1, HeadTailProperties
    <3> HIDE DEF m
    <3>2. DOMAIN executed = 1..Len(executed) /\ DOMAIN executed' = 1..(Len(executed) + 1)
          /\ executed'[Len(executed) + 1] = m /\ Len(executed) \in Nat
          /\ \A i \in 1..Len(executed) : executed'[i] = executed[i]
      BY <1>4, <2>1, <3>1, AppendProperties
    <3> QED
      BY <3>2
  <2> HIDE DEF m
  <2>5. \A x : Executed(x)' <=> (Executed(x) \/ x = m)
    BY <2>4 DEF Executed
  <2>6. \A i \in DOMAIN toClient' : (i \in DOMAIN toClient /\ toClient'[i] = toClient[i]) \/ toClient'[i] = m
    BY <1>4, <2>1
  <2>7. Replied'
    BY <1>2, <2>1, <2>5, <2>6 DEF Replied
  <2>8. Unsent'
    BY <1>1, <1>2, <2>2, <2>3, <2>5 DEF Unsent
  <2>9. OnTheWay'
    <3>0. ASSUME NEW i \in DOMAIN toBroker'
          PROVE  ~Executed(toBroker'[i]) /\ toBroker'[i] # m /\ \E n \in 1..issued : toBroker'[i] = Request(n)
      BY <1>2, <2>2, <2>3 DEF OnTheWay
    <3>1. (\A i \in DOMAIN toBroker : ~Executed(toBroker[i]) /\ \E n \in 1..issued : toBroker[i] = Request(n))'
      BY <1>1, <2>5, <3>0
    <3>2. \A i, j \in DOMAIN toBroker' : toBroker'[i] = toBroker'[j] => i = j
      BY <1>2, <2>3 DEF OnTheWay
    <3>3. \A i \in DOMAIN executed' : \E n \in 1..issued : executed'[i] = Request(n)
      BY <1>2, <2>2, <2>4 DEF OnTheWay
    <3> QED
      BY <1>1, <3>1, <3>2, <3>3 DEF OnTheWay
  <2> QED
    BY <1>3, <2>7, <2>8, <2>9 DEF SentOnce
<1>7. CASE Connect \/ Lose
  <2>1. /\ toBroker' = <<>> /\ (toClient' = toClient \/ toClient' = <<>>)
        /\ (buffer' = buffer \/ buffer' = <<>>) /\ replies' = replies /\ executed' = executed
    BY <1>7 DEF Connect, Lose
  <2>2. Unsent' /\ OnTheWay' /\ Replied'
    BY <1>1, <1>2, <2>1 DEF Unsent, OnTheWay, Replied, Executed
  <2> QED
    BY <1>3, <2>2 DEF SentOnce
<1>8. CASE Lost \/ Reset \/ TryConnect \/ Refused \/ Exit
  <2>1. /\ toBroker' = toBroker /\ toClient' = toClient /\ buffer' = buffer
        /\ replies' = replies /\ executed' = executed
    BY <1>8 DEF Lost, Reset, TryConnect, Refused, Exit, wire
  <2>2. Unsent' /\ OnTheWay' /\ Replied'
    BY <1>1, <1>2, <2>1 DEF Unsent, OnTheWay, Replied, Executed
  <2> QED
    BY <1>3, <2>2 DEF SentOnce
<1> QED
  BY <1>5, <1>6, <1>7, <1>8 DEF Reader

LEMMA SentStep == ASSUME TypeOK, Apart, SentOnce, [Next]_vars PROVE SentOnce'
<1> SUFFICES ASSUME apart' PROVE SentOnce'
  BY DEF SentOnce
<1>1. CASE UNCHANGED vars
  BY <1>1 DEF vars, SentOnce, CallsDiffer, Unsent, OnTheWay, Replied, Executed
<1>2. ASSUME NEW c \in Callers, Start(c) \/ Caller(c) PROVE SentOnce'
  BY <1>2, StartSent, QuietSent, SendSent DEF Caller
<1> QED
  BY <1>1, <1>2, OtherSent DEF Next

\* The number of the call each caller is in changes with its first and its last step.
LEMMA AtOf ==
  ASSUME TypeOK, NEW c \in Callers, \A d \in Callers \ {c} : pc'[d] = pc[d] /\ call'[d] = call[d]
  PROVE  At' = [At EXCEPT ![c] = IF pc'[c] = "idle" THEN 0 ELSE call'[c]]
BY DEF At, TypeOK

\* A step of a caller is a step of the service or hidden from it.
LEMMA CallerServed ==
  ASSUME TypeOK, TypeOK', Apart, SentOnce, apart', NEW c \in Callers, Start(c) \/ Caller(c)
  PROVE  [Service!Next]_Service!vars
<1>1. /\ At[c] = IF pc[c] = "idle" THEN 0 ELSE call[c]
      /\ executed' = executed
  BY DEF At, Start, Caller, Bump, Load, NotConnected, Compose, AddParams, Dump, Send, Take, TimeOut,
         Fail, Return, wire
<1>2. apart /\ CallsDiffer /\ Replied /\ Numbered /\ Genuine
  BY DEF Apart, SentOnce, Start, Caller, Bump, Load, NotConnected, Compose, AddParams, Dump, Send, Take,
         TimeOut, Fail, Return, shared, TypeOK
<1>3. issued \in Nat
  BY CountsAssumption DEF TypeOK
<1>4. CASE Start(c)
  <2>1. At' = [At EXCEPT ![c] = issued + 1]
    <3>1. \A d \in Callers \ {c} : pc'[d] = pc[d] /\ call'[d] = call[d]
      BY <1>4 DEF Start, Goto, TypeOK
    <3>2. pc'[c] = "bump" /\ call'[c] = issued + 1
      BY <1>4 DEF Start, Goto, TypeOK
    <3> QED
      BY <3>1, <3>2, AtOf
  <2>2. Service!Make(c)
    BY <1>1, <1>4, <2>1 DEF Start, Service!Make
  <2> QED
    BY <2>2 DEF Service!Next
<1>5. CASE NotConnected(c) \/ TimeOut(c)
  <2>1. At' = [At EXCEPT ![c] = 0]
    <3>1. call' = call /\ pc'[c] = "idle" /\ \A d \in Callers \ {c} : pc'[d] = pc[d]
      BY <1>5 DEF NotConnected, TimeOut, Fail, Return, Goto, local, TypeOK
    <3> QED
      BY <3>1, AtOf
  <2>2. pc[c] # "idle" /\ At[c] # 0
    BY <1>1, <1>2, <1>5 DEF NotConnected, TimeOut, CallsDiffer
  <2>3. issued' = issued /\ answer' = answer
    BY <1>5 DEF NotConnected, TimeOut, Fail, Return, shared
  <2>4. Service!GiveUp(c)
    BY <1>1, <2>1, <2>2, <2>3 DEF Service!GiveUp
  <2> QED
    BY <2>4 DEF Service!Next
<1>6. CASE Take(c)
  <2>1. At' = [At EXCEPT ![c] = 0]
    <3>1. call' = call /\ pc'[c] = "idle" /\ \A d \in Callers \ {c} : pc'[d] = pc[d]
      BY <1>6 DEF Take, Return, Goto, local, TypeOK
    <3> QED
      BY <3>1, AtOf
  <2>2. pc[c] = "wait" /\ At[c] = call[c] /\ At[c] # 0
    BY <1>1, <1>2, <1>6 DEF Take, CallsDiffer
  <2>3. issued' = issued
    BY <1>6 DEF Take, Return, shared
  <2>4. PICK r \in replies : r.id = id[c] /\ answer' = [answer EXCEPT ![c] = {r}]
    BY <1>6 DEF Take
  <2>5. r = Request(call[c])
    <3>1. PICK n \in Nat : r = Request(n)
      BY <1>2 DEF Genuine, Requests
    <3>2. id[c] = call[c]
      BY <1>2, <2>2 DEF Numbered
    <3> QED
      BY <2>4, <3>1, <3>2 DEF Request
  <2>6. Service!IsExecuted(At[c])
    BY <1>2, <2>2, <2>5 DEF Replied, Executed, Service!IsExecuted
  <2>7. Service!Answer(c)
    BY <1>1, <2>1, <2>2, <2>3, <2>4, <2>5, <2>6 DEF Service!Answer
  <2> QED
    BY <2>7 DEF Service!Next
<1>7. CASE Bump(c) \/ Load(c) \/ Compose(c) \/ AddParams(c) \/ Dump(c) \/ Send(c)
  <2>1. issued' = issued /\ answer' = answer /\ call' = call
    BY <1>7 DEF Bump, Load, Compose, AddParams, Dump, Send, shared, local
  <2>2. pc[c] # "idle" /\ pc'[c] # "idle" /\ \A d \in Callers \ {c} : pc'[d] = pc[d]
    BY <1>7 DEF Bump, Load, Compose, AddParams, Dump, Send, Goto, TypeOK
  <2>3. At' = At
    BY <2>1, <2>2 DEF At
  <2> QED
    BY <1>1, <2>1, <2>3 DEF Service!vars
<1> QED
  BY <1>4, <1>5, <1>6, <1>7 DEF Caller

\* The broker executes a request; what else the handler thread and the broker do is
\* hidden from the service.
LEMMA OtherServed ==
  ASSUME TypeOK, SentOnce, apart', Reader \/ Connect \/ Serve \/ Lose
  PROVE  [Service!Next]_Service!vars
<1>1. apart' = apart /\ issued' = issued /\ call' = call /\ pc' = pc /\ answer' = answer
  BY DEF Reader, Receive, Lost, Reset, TryConnect, Connect, Refused, Exit, Serve, Lose, shared, local
<1>2. At' = At
  BY <1>1 DEF At
<1>3. CASE Serve
  <2>1. toBroker # <<>> /\ executed' = Append(executed, Head(toBroker)) /\ toBroker \in Seq(Message)
    BY <1>3 DEF Serve, TypeOK
  <2>2. 1 \in DOMAIN toBroker /\ Head(toBroker) = toBroker[1]
    BY <2>1
  <2>3. PICK n \in 1..issued : toBroker[1] = Request(n) /\ ~Executed(Request(n))
    BY <1>1, <2>2 DEF SentOnce, OnTheWay
  <2>4. Service!Execute(n)
    BY <1>1, <1>2, <2>1, <2>2, <2>3 DEF Service!Execute, Service!IsExecuted, Executed
  <2> QED
    BY <2>4 DEF Service!Next
<1>4. CASE Reader \/ Connect \/ Lose
  <2>1. executed' = executed
    BY <1>4 DEF Reader, Receive, Lost, Reset, TryConnect, Connect, Refused, Exit, Lose, wire
  <2> QED
    BY <1>1, <1>2, <2>1 DEF Service!vars
<1> QED
  BY <1>3, <1>4

\* Calls that are composed apart are answered with their own replies, and their requests
\* executed once or not at all, with any number of callers, calls, losses and late replies.
THEOREM ApartCallsAreServed == Spec => ImplementsCalls
<1>1. Init => Service!Init
  BY DEF Init, Service!Init, At
<1>2. Init => TypeOK /\ Apart /\ SentOnce
  BY InitType, InitApart, InitSent
<1>3. TypeOK /\ Apart /\ SentOnce /\ [Next]_vars => (TypeOK /\ Apart /\ SentOnce)'
  BY TypeStep, ApartStep, SentStep
<1>4. TypeOK /\ TypeOK' /\ Apart /\ SentOnce /\ [Next]_vars => [Service!Next \/ ~apart']_Service!vars
  <2> SUFFICES ASSUME TypeOK, TypeOK', Apart, SentOnce, [Next]_vars, apart'
               PROVE  [Service!Next]_Service!vars
    OBVIOUS
  <2>1. CASE UNCHANGED vars
    BY <2>1 DEF vars, Service!vars, At
  <2>2. ASSUME NEW c \in Callers, Start(c) \/ Caller(c) PROVE [Service!Next]_Service!vars
    BY <2>2, CallerServed
  <2> QED
    BY <2>1, <2>2, OtherServed DEF Next
<1> QED
  BY <1>1, <1>2, <1>3, <1>4, PTL DEF Spec, ImplementsCalls

-----------------------------------------------------------------------------
(* Supervisor: no second scheduler is started. *)

\* The inductive invariant of OneScheduler.
SchedulersCounted == scheds \in Nat /\ OneScheduler

\* The steps of the loop and of the world but those that look for a scheduler, and its death.
LEMMA SchedulersStay ==
  ASSUME [SupervisorNext]_supervisorVars
  PROVE  UNCHANGED <<scheds, blind>> \/ CheckPy \/ PyScanBreaks \/ SchedulerDies
BY DEF SupervisorNext, supervisorVars, processes, Check, NoCheck, BrokersChecked, MakeClients,
       CheckConnections, Sleep, CheckBroker, ScanBreaks, BrokerDies, BrokerHangs, DeviceComes,
       Disconnects, Reconnects, Restart

\* OneScheduler: for any brokers and any number of faults, no second scheduler is started
\* unless a scan of the processes broke off when no pid was known.
THEOREM SecondNeverStarts == SupervisorSpec => []OneScheduler
<1>1. SupervisorInit => SchedulersCounted
  BY DEF SupervisorInit, SchedulersCounted, OneScheduler
<1>2. SchedulersCounted /\ [SupervisorNext]_supervisorVars => SchedulersCounted'
  <2> SUFFICES ASSUME SchedulersCounted, [SupervisorNext]_supervisorVars
               PROVE  SchedulersCounted'
    OBVIOUS
  <2> USE DEF SchedulersCounted, OneScheduler
  <2>1. CASE UNCHANGED <<scheds, blind>>
    BY <2>1
  <2>2. CASE CheckPy
    BY <2>2 DEF CheckPy, StartIfNone, Found
  <2>3. CASE PyScanBreaks
    <3>1. scheds' = scheds \/ (scheds' = scheds + 1 /\ pid = "none")
      BY <2>3 DEF PyScanBreaks, StartIfNone
    <3>2. blind' <=> blind \/ (pid = "none" /\ scheds > 0)
      BY <2>3 DEF PyScanBreaks
    <3> QED
      BY <3>1, <3>2
  <2>4. CASE SchedulerDies
    BY <2>4 DEF SchedulerDies
  <2> QED
    BY <2>1, <2>2, <2>3, <2>4, SchedulersStay
<1>3. SchedulersCounted => OneScheduler
  BY DEF SchedulersCounted
<1> QED
  BY <1>1, <1>2, <1>3, PTL DEF SupervisorSpec

-----------------------------------------------------------------------------
(* CastScheduler: how a round ends, what is marked as casting, and that
   nothing is cast twice. *)

\* The launcher has a batch; it is at the batch's first entry.
InRound == lpc \in {"mark", "next", "acting", "casting", "finish"}
OnOne == lpc \in {"acting", "casting", "finish"}

\* Only finitely many entries are scheduled, and a round has its batch.
FiniteSchedule == IsFiniteSet(DOMAIN schedule)

\* In a round the batch is there, and its order is one of entries that it has.
BatchKept ==
  InRound =>
    /\ {"order", "marks", "crowd", "info"} \subseteq DOMAIN batch
    /\ batch.order \in Seq(DOMAIN batch.info)
    /\ OnOne => batch.order # << >>

\* The casts that are yet to be done are those left in the order, as long as none
\* was left out; when none is left to be done, the last was parked in the tube, unless
\* it did not park at all.
Counted ==
  ~skipped =>
    /\ InRound => castsToDo = Len(batch.order)
    /\ ~InRound /\ lpc # "dead" => where \in {"tube", "left"}
    /\ lpc = "mark" => castsToDo # 0
    /\ lpc = "next" /\ castsToDo = 0 => where \in {"tube", "left"}
    /\ lpc = "finish" /\ castsToDo = 1 => where \in {"tube", "left"}

\* The inductive invariant of EndsInTube.
TubeInv == FiniteSchedule /\ BatchKept /\ Counted

\* What remains of a sequence without its first element.
LEMMA TailOf ==
  ASSUME NEW S, NEW s \in Seq(S), s # << >>
  PROVE  /\ Tail(s) \in Seq(S) /\ Len(Tail(s)) = Len(s) - 1 /\ Len(s) \in Nat \ {0}
         /\ Head(s) = s[1] /\ 1 \in DOMAIN s
         /\ \A i \in DOMAIN Tail(s) : i + 1 \in DOMAIN s /\ i + 1 # 1 /\ Tail(s)[i] = s[i + 1]
OBVIOUS

\* An order of Look names each entry of its set once.
LEMMA OrderIsSeq ==
  ASSUME FiniteSchedule, NEW S, S \subseteq Queued, NEW order \in Orderings(S)
  PROVE  /\ order \in Seq(S) /\ Len(order) = Cardinality(S)
         /\ \A i, j \in DOMAIN order : i # j => order[i] # order[j]
<1>1. IsFiniteSet(S) /\ Cardinality(S) \in Nat
  BY FS_Subset, FS_CardinalityType DEF FiniteSchedule, Queued
<1>2. order \in [1..Cardinality(S) -> S]
  BY DEF Orderings
<1>3. order \in Seq(S) /\ Len(order) = Cardinality(S) /\ DOMAIN order = 1..Cardinality(S)
  BY <1>1, <1>2
<1>4. \A i, j \in 1..Cardinality(S) : i < j => order[i] # order[j]
  BY DEF Orderings
<1> QED
  BY <1>1, <1>3, <1>4

\* The steps that leave the launcher and what is scheduled alone.
Elsewhere == SWake \/ Reparse \/ Poll \/ Scan \/ Combine \/ World

\* The steps of Elsewhere do so.
LEMMA ElsewhereFrame ==
  ASSUME Elsewhere PROVE UNCHANGED <<launch, schedule, skipped, where, failed, occurred>>
<1>1. CASE SWake
  BY <1>1 DEF SWake, hist
<1>2. CASE Reparse
  BY <1>2 DEF Reparse, hist
<1>3. CASE Poll
  BY <1>3 DEF Poll, hist
<1>4. CASE Scan
  BY <1>4 DEF Scan, hist
<1>5. CASE Combine
  BY <1>5 DEF Combine, hist
<1>6. CASE World
  BY <1>6 DEF World, Tick, Edit, Order, hist
<1> QED
  BY <1>1, <1>2, <1>3, <1>4, <1>5, <1>6 DEF Elsewhere

\* Give adds one entry at a time, so the schedule stays finite.
LEMMA FiniteNext ==
  ASSUME FiniteSchedule, [SchedulerNext]_schedulerVars
  PROVE  FiniteSchedule'
<1> USE DEF FiniteSchedule
<1>1. CASE DOMAIN schedule' \subseteq DOMAIN schedule
  BY <1>1, FS_Subset
<1>2. CASE Give
  <2>1. CASE schedule' = schedule
    BY <2>1
  <2>2. CASE \E e \in DOMAIN ready : DOMAIN schedule' = DOMAIN schedule \cup {e}
    BY <2>2, FS_AddElement
  <2> QED
    BY <1>2, <2>1, <2>2 DEF Give
<1>3. CASE Elsewhere
  BY <1>3, <1>1, ElsewhereFrame
<1>4. CASE Purge
  BY <1>4, <1>1 DEF Purge
<1>5. CASE LWake \/ ReadState \/ Resume \/ Calibrated \/ Look \/ Marked \/ RoundEnds
           \/ Invalid \/ ConfigFails \/ CastEnds \/ \E e \in Entries : Mark(e)
  BY <1>5, <1>1 DEF LWake, ReadState, Resume, Calibrated, Look, Marked, RoundEnds, Invalid,
                    ConfigFails, CastEnds, Mark
<1>6. CASE (\E e \in Entries : Crowd(e)) \/ Casting \/ Acting \/ Finish
  BY <1>6, <1>1 DEF Crowd, Casting, Acting, Finish
<1>7. CASE UNCHANGED schedulerVars
  BY <1>7 DEF schedulerVars
<1> QED
  BY <1>2, <1>3, <1>4, <1>5, <1>6, <1>7 DEF SchedulerNext, Scheduler, Launcher, Elsewhere

\* Every step keeps the count: NextCast takes one from both sides, and where it is
\* taken without a cast, the cast is noted as left out.
LEMMA TubeNext ==
  ASSUME TubeInv, [SchedulerNext]_schedulerVars
  PROVE  BatchKept' /\ Counted'
<1> USE DEF TubeInv, BatchKept, Counted, InRound, OnOne, launch
<1>1. CASE Elsewhere
  BY <1>1, ElsewhereFrame
<1>2. CASE Purge \/ Give
  BY <1>2 DEF Purge, Give, hist
<1>3. CASE LWake \/ ReadState \/ Resume \/ Calibrated
  BY <1>3 DEF LWake, ReadState, Resume, Calibrated, Sleeps, hist
<1>4. CASE Look
  <2>1. CASE Queued = {}
    BY <1>4, <2>1 DEF Look, Sleeps
  <2>2. CASE Queued # {}
    <3> DEFINE crowd == IF Cardinality(Plain) > 1 THEN Plain ELSE {}
    <3>1. PICK order \in Orderings(Queued \ crowd) :
             /\ batch' = [order |-> order, marks |-> Queued \ crowd, crowd |-> crowd,
                          info |-> [e \in Queued |-> schedule[e]]]
             /\ castsToDo' = Cardinality(Queued) /\ skipped' = (crowd # {}) /\ lpc' = "mark"
      BY <1>4, <2>2 DEF Look
    <3> HIDE DEF crowd
    <3>2. order \in Seq(Queued \ crowd) /\ Len(order) = Cardinality(Queued \ crowd)
      BY OrderIsSeq
    <3>3. order \in Seq(Queued)
      BY <3>2
    <3>4. IsFiniteSet(Queued) /\ Cardinality(Queued) # 0
      BY <2>2, FS_Subset, FS_EmptySet DEF FiniteSchedule, Queued
    <3>5. BatchKept'
      BY <3>1, <3>3
    <3>6. ~skipped' => Queued \ crowd = Queued
      BY <3>1
    <3>7. Counted'
      BY <3>1, <3>2, <3>4, <3>6
    <3> QED
      BY <3>5, <3>7
  <2> QED
    BY <2>1, <2>2
<1>5. CASE \E e \in Entries : Crowd(e) \/ Mark(e)
  BY <1>5 DEF Crowd, Mark, hist
<1>6. CASE Marked
  BY <1>6 DEF Marked, hist
<1>7. ASSUME NextCast, lpc \in {"next", "acting", "casting", "finish"}, batch.order # << >>,
             lpc # "finish" => skipped', lpc = "finish" => UNCHANGED <<skipped, where>>
      PROVE  BatchKept' /\ Counted'
  <2>1. /\ Tail(batch.order) \in Seq(DOMAIN batch.info) /\ Len(batch.order) \in Nat \ {0}
        /\ Len(Tail(batch.order)) = Len(batch.order) - 1
    BY <1>7, TailOf
  <2>2. /\ batch'.order = Tail(batch.order) /\ batch'.info = batch.info
        /\ {"order", "marks", "crowd", "info"} \subseteq DOMAIN batch'
    BY <1>7 DEF NextCast
  <2>3. lpc' = "next" /\ castsToDo' = castsToDo - 1
    BY <1>7 DEF NextCast
  <2>4. BatchKept'
    BY <2>1, <2>2, <2>3
  <2>5. CASE skipped'
    BY <2>4, <2>5
  <2>6. CASE ~skipped'
    <3>1. lpc = "finish" /\ ~skipped /\ castsToDo = Len(batch.order) /\ where' = where
      BY <1>7, <2>6
    <3> QED
      BY <3>1, <2>1, <2>2, <2>3, <2>4
  <2> QED
    BY <2>5, <2>6
<1>8. CASE Invalid
  BY <1>8, <1>7 DEF Invalid
<1>9. CASE Casting
  BY <1>9, <1>7 DEF Casting
<1>10. CASE Acting
  BY <1>10, <1>7 DEF Acting
<1>11. CASE ConfigFails
  BY <1>11, <1>7 DEF ConfigFails
<1>12. CASE CastEnds
  BY <1>12 DEF CastEnds
<1>13. CASE Finish
  BY <1>13, <1>7 DEF Finish, hist
<1>14. CASE RoundEnds
  BY <1>14 DEF RoundEnds, Sleeps, hist
<1>15. CASE UNCHANGED schedulerVars
  BY <1>15 DEF schedulerVars, hist
<1> QED
  BY <1>1, <1>2, <1>3, <1>4, <1>5, <1>6, <1>8, <1>9, <1>10, <1>11, <1>12, <1>13, <1>14, <1>15
     DEF SchedulerNext, Scheduler, Launcher, Elsewhere

\* At the start nothing is scheduled and the launcher has no batch.
LEMMA TubeInit == SchedulerInit => TubeInv
<1> SUFFICES ASSUME SchedulerInit PROVE TubeInv
  OBVIOUS
<1>1. FiniteSchedule
  BY FS_EmptySet DEF SchedulerInit, FiniteSchedule
<1> QED
  BY <1>1 DEF TubeInv, SchedulerInit, BatchKept, Counted, InRound

\* EndsInTube: a round that left out no cast ends with the sonde parked in its tube,
\* whatever became of its earlier casts, unless its last cast itself did not park.
THEOREM RoundEndsInTube == SchedulerSpec => []EndsInTube
<1>1. TubeInv /\ [SchedulerNext]_schedulerVars => TubeInv'
  BY FiniteNext, TubeNext DEF TubeInv
<1>2. TubeInv => EndsInTube
  BY DEF TubeInv, Counted, InRound, EndsInTube
<1> QED
  BY TubeInit, <1>1, <1>2, PTL DEF SchedulerSpec

-----------------------------------------------------------------------------
\* Entries are records, in the schedule and on their way there.
Fields == {"time", "covers", "action", "since"}
Shape ==
  /\ \A e \in DOMAIN schedule : Fields \subseteq DOMAIN schedule[e]
  /\ \A e \in DOMAIN ready : Fields \subseteq DOMAIN ready[e]

\* At the start both are empty.
LEMMA ShapeInit == SchedulerInit => Shape
BY DEF SchedulerInit, Shape

\* Scan makes whole entries, and every other step changes fields of them.
LEMMA ShapeNext ==
  ASSUME Shape, [SchedulerNext]_schedulerVars
  PROVE  Shape'
<1> USE DEF Shape, Fields
<1>1. CASE SWake
  BY <1>1 DEF SWake
<1>2. CASE Purge
  BY <1>2 DEF Purge
<1>3. CASE Scan
  BY <1>3 DEF Scan
<1>4. CASE Combine
  BY <1>4 DEF Combine
<1>5. CASE Give
  BY <1>5 DEF Give
<1>6. CASE Reparse \/ Poll \/ World
  BY <1>6 DEF Reparse, Poll, World, Tick, Edit, Order, sched
<1>7. CASE LWake \/ ReadState \/ Resume \/ Calibrated \/ Look \/ Marked \/ RoundEnds
           \/ Invalid \/ ConfigFails \/ CastEnds \/ \E e \in Entries : Mark(e)
  BY <1>7 DEF LWake, ReadState, Resume, Calibrated, Look, Marked, RoundEnds, Invalid,
              ConfigFails, CastEnds, Mark, sched
<1>8. CASE (\E e \in Entries : Crowd(e)) \/ Casting \/ Acting \/ Finish
  BY <1>8 DEF Crowd, Casting, Acting, Finish, sched
<1>9. CASE UNCHANGED schedulerVars
  BY <1>9 DEF schedulerVars, sched
<1> QED
  BY <1>1, <1>2, <1>3, <1>4, <1>5, <1>6, <1>7, <1>8, <1>9 DEF SchedulerNext, Scheduler, Launcher

\* What is given to the schedule is queued, or lost with what was combined with it;
\* what is there stays.
LEMMA GiveFrame ==
  ASSUME Shape, Give
  PROVE  /\ UNCHANGED <<launch, hist, now, srun>>
         /\ \/ UNCHANGED <<schedule, ready, lost>> /\ spc' = "sleep"
            \/ \E e \in DOMAIN ready :
                 /\ DOMAIN schedule' = DOMAIN schedule \cup {e}
                 /\ \A x \in DOMAIN schedule : schedule'[x] = schedule[x]
                 /\ e \notin DOMAIN schedule =>
                      /\ schedule'[e].action = "queued"
                      /\ schedule'[e].time = ready[e].time /\ schedule'[e].covers = ready[e].covers
                 /\ DOMAIN ready' = DOMAIN ready \ {e}
                 /\ \A x \in DOMAIN ready' : ready'[x] = ready[x]
                 /\ spc' = spc
                 /\ lost' = IF e \in DOMAIN schedule THEN lost \cup (ready[e].covers \ {e}) ELSE lost
<1>1. UNCHANGED <<launch, hist, now, srun>>
  BY DEF Give
<1>2. CASE ready = << >>
  BY <1>1, <1>2 DEF Give
<1>3. CASE ready # << >>
  <2>1. PICK e \in DOMAIN ready :
          /\ schedule' = [x \in DOMAIN schedule \cup {e} |->
                  IF x \in DOMAIN schedule THEN schedule[x]
                  ELSE [ready[e] EXCEPT !.action = "queued"]]
          /\ ready' = [x \in DOMAIN ready \ {e} |-> ready[x]]
          /\ lost' = IF e \in DOMAIN schedule THEN lost \cup (ready[e].covers \ {e}) ELSE lost
          /\ UNCHANGED spc
    BY <1>3 DEF Give
  <2>2. Fields \subseteq DOMAIN ready[e]
    BY <2>1 DEF Shape
  <2> QED
    BY <1>1, <2>1, <2>2 DEF Fields
<1> QED
  BY <1>2, <1>3

\* An entry is marked as casting only by Casting, which makes it the current one;
\* NextCast leaves it only when it is done, or when its cast has raised.
LEMMA CastingNext ==
  ASSUME Shape, CastingIsCast, [SchedulerNext]_schedulerVars
  PROVE  CastingIsCast'
<1> USE DEF Shape, Fields, CastingIsCast, Current, launch
<1>1. CASE Elsewhere
  BY <1>1, ElsewhereFrame
<1>2. CASE Purge
  BY <1>2 DEF Purge
<1>3. CASE Give
  <2>1. UNCHANGED <<lpc, batch, failed>>
    BY <1>3, GiveFrame DEF hist
  <2>2. \A e \in DOMAIN schedule' :
           schedule'[e].action = "casting" => e \in DOMAIN schedule /\ schedule[e].action = "casting"
    BY <1>3, GiveFrame
  <2> QED
    BY <2>1, <2>2
<1>4. CASE LWake \/ ReadState \/ Resume \/ Calibrated \/ Look \/ Marked \/ RoundEnds
           \/ \E e \in Entries : Mark(e)
  BY <1>4 DEF LWake, ReadState, Resume, Calibrated, Look, Marked, RoundEnds, Mark, hist
<1>5. CASE \E e \in Entries : Crowd(e)
  BY <1>5 DEF Crowd, hist
<1>6. CASE Invalid
  BY <1>6 DEF Invalid, NextCast
<1>7. CASE Casting
  BY <1>7 DEF Casting, NextCast
<1>8. CASE Acting
  BY <1>8 DEF Acting, NextCast
<1>9. CASE ConfigFails \/ CastEnds
  BY <1>9 DEF ConfigFails, CastEnds, NextCast
<1>10. CASE Finish
  BY <1>10 DEF Finish, NextCast, hist
<1>11. CASE UNCHANGED schedulerVars
  BY <1>11 DEF schedulerVars, hist
<1> QED
  BY <1>1, <1>2, <1>3, <1>4, <1>5, <1>6, <1>7, <1>8, <1>9, <1>10, <1>11
     DEF SchedulerNext, Scheduler, Launcher, Elsewhere

\* CastingIsCast: an entry that is marked as casting is the one that is cast, or
\* one whose cast has raised.
THEOREM NothingLeftCasting == SchedulerSpec => []CastingIsCast
<1>1. SchedulerInit => CastingIsCast
  BY DEF SchedulerInit, CastingIsCast
<1>2. Shape /\ CastingIsCast /\ [SchedulerNext]_schedulerVars => (Shape /\ CastingIsCast)'
  BY ShapeNext, CastingNext
<1> QED
  BY ShapeInit, <1>1, <1>2, PTL DEF SchedulerSpec

-----------------------------------------------------------------------------
\* Two entries without an occurrence in common; one without any that was cast.
Unlike(x, y) == x.time # y.time \/ x.covers \cap y.covers = {}
NotYet(x) == \A e \in x.covers : <<e, x.time>> \notin occurred

\* The scheduler looks at a minute once: whatever was scheduled before that is
\* older than what it is about to schedule.
Clock ==
  /\ now \in Int /\ srun \in Int /\ srun <= now
  /\ spc # "sleep" => srun = now
\* The scheduler has looked at the minute of its last round; all that was ever due is
\* of a minute that it has looked at.
Scanned == spc \in {"combine", "give", "sleep"}
Old(t) == t \in Int /\ t <= srun + Pre /\ (~Scanned => t < srun + Pre)
Ages ==
  /\ \A e \in DOMAIN schedule : Old(schedule[e].time)
  /\ \A e \in DOMAIN ready : ready[e].time = srun + Pre
  /\ InRound => \A e \in DOMAIN batch.info : Old(batch.info[e].time)
  /\ \A o \in occurred : Old(o[2])

\* What is ready and what is scheduled has no occurrence twice.
ReadyOnce == \A e, f \in DOMAIN ready : e # f => Unlike(ready[e], ready[f])
ReadyAlone == spc = "combine" => \A e \in DOMAIN ready : ready[e].covers = {e}
ScheduledOnce == \A e, f \in DOMAIN schedule : e # f => Unlike(schedule[e], schedule[f])
ReadyNew == \A e \in DOMAIN ready, f \in DOMAIN schedule : Unlike(ready[e], schedule[f])
Waiting == ReadyOnce /\ ReadyAlone /\ ScheduledOnce /\ ReadyNew

\* Nor has the batch, together with what was scheduled since it was made.
Info(i) == batch.info[batch.order[i]]
OrderOnce ==
  \A i, j \in DOMAIN batch.order : i # j =>
    batch.order[i] # batch.order[j] /\ Unlike(Info(i), Info(j))
OrderScheduled ==
  \A i \in DOMAIN batch.order, f \in DOMAIN schedule :
    f # batch.order[i] => Unlike(Info(i), schedule[f])
OrderReady == \A i \in DOMAIN batch.order, f \in DOMAIN ready : Unlike(Info(i), ready[f])
CurrentQueued == OnOne => \A f \in Queued : Unlike(Info(1), schedule[f])
Batched == InRound => OrderOnce /\ OrderScheduled /\ OrderReady /\ CurrentQueued

\* What may still be cast was not cast.
Uncast ==
  /\ \A e \in DOMAIN ready : NotYet(ready[e])
  /\ \A e \in Queued : NotYet(schedule[e])
  /\ InRound => \A i \in DOMAIN batch.order :
                  i # 1 \/ lpc # "finish" => NotYet(Info(i))

\* The inductive invariant of CastOnce.
OnceInv == TubeInv /\ Shape /\ Clock /\ Ages /\ Waiting /\ Batched /\ Uncast

\* At the start nothing is ready, scheduled or cast.
LEMMA OnceInit == SchedulerInit => OnceInv
<1> SUFFICES ASSUME SchedulerInit PROVE OnceInv
  OBVIOUS
<1>1. TubeInv /\ Shape
  BY TubeInit, ShapeInit
<1>2. Clock /\ Ages /\ Waiting /\ Batched /\ Uncast
  BY TimeAssumption DEF SchedulerInit, Clock, Ages, Waiting, ReadyOnce, ReadyAlone,
     ScheduledOnce, ReadyNew,
                        Batched, Uncast, InRound, Queued
<1> QED
  BY <1>1, <1>2 DEF OnceInv

\* The clock only goes on, and the scheduler takes up each minute once.
LEMMA ClockNext ==
  ASSUME Clock, [SchedulerNext]_schedulerVars
  PROVE  Clock' /\ \A t : Old(t) => Old(t)'
<1> USE DEF Clock, Old, Scanned
<1>1. CASE SWake
  BY <1>1, TimeAssumption DEF SWake
<1>2. CASE Purge
  BY <1>2, TimeAssumption DEF Purge
<1>3. CASE Scan
  BY <1>3, TimeAssumption DEF Scan
<1>4. CASE Combine
  BY <1>4 DEF Combine
<1>5. CASE Give
  BY <1>5 DEF Give
<1>6. CASE Reparse
  BY <1>6 DEF Reparse
<1>7. CASE Poll
  BY <1>7 DEF Poll
<1>8. CASE World
  BY <1>8 DEF World, Tick, Edit, Order, sched
<1>9. CASE LWake \/ ReadState \/ Resume \/ Calibrated \/ Look \/ Marked \/ RoundEnds
           \/ Invalid \/ ConfigFails \/ CastEnds \/ \E e \in Entries : Mark(e)
  BY <1>9 DEF LWake, ReadState, Resume, Calibrated, Look, Marked, RoundEnds, Invalid,
              ConfigFails, CastEnds, Mark, sched
<1>10. CASE (\E e \in Entries : Crowd(e)) \/ Casting \/ Acting \/ Finish
  BY <1>10 DEF Crowd, Casting, Acting, Finish, sched
<1>11. CASE UNCHANGED schedulerVars
  BY <1>11 DEF schedulerVars, sched
<1> QED
  BY <1>1, <1>2, <1>3, <1>4, <1>5, <1>6, <1>7, <1>8, <1>9, <1>10, <1>11
     DEF SchedulerNext, Scheduler, Launcher

\* Entries leave the schedule, or change in what is done with them.
Reduced ==
  \A e \in DOMAIN schedule' :
    /\ e \in DOMAIN schedule
    /\ schedule'[e].time = schedule[e].time /\ schedule'[e].covers = schedule[e].covers
    /\ schedule'[e].action = "queued" => schedule[e].action = "queued"

\* The launcher only reduces the schedule, and leaves the scheduler alone.
LEMMA LauncherFrame ==
  ASSUME Shape, Launcher
  PROVE  Reduced /\ UNCHANGED <<ready, spc, srun, now>>
<1> USE DEF Reduced, Shape, Fields, sched
<1>1. CASE LWake \/ ReadState \/ Resume \/ Calibrated \/ Look \/ Marked \/ RoundEnds
           \/ Invalid \/ ConfigFails \/ CastEnds \/ \E e \in Entries : Mark(e)
  BY <1>1 DEF LWake, ReadState, Resume, Calibrated, Look, Marked, RoundEnds, Invalid,
              ConfigFails, CastEnds, Mark
<1>2. CASE \E e \in Entries : Crowd(e)
  BY <1>2 DEF Crowd
<1>3. CASE Casting
  BY <1>3 DEF Casting
<1>4. CASE Acting
  BY <1>4 DEF Acting
<1>5. CASE Finish
  BY <1>5 DEF Finish
<1> QED
  BY <1>1, <1>2, <1>3, <1>4, <1>5 DEF Launcher

\* What the steps of the launcher do with its batch: they leave the round, take
\* a new batch, keep the one they have, or go on to its next entry.
Leaves == ~InRound' /\ UNCHANGED occurred
Takes ==
  /\ lpc' = "mark" /\ UNCHANGED <<schedule, occurred>>
  /\ batch'.info = [e \in Queued |-> schedule[e]]
  /\ batch'.order \in Seq(Queued)
  /\ \A i, j \in DOMAIN batch'.order : i # j => batch'.order[i] # batch'.order[j]
Keeps ==
  /\ InRound /\ InRound' /\ lpc # "finish"
  /\ batch'.order = batch.order /\ batch'.info = batch.info
  /\ \/ lpc' \in {"mark", "next"} /\ ~OnOne /\ UNCHANGED occurred
     \/ lpc = "acting" /\ lpc' = "casting" /\ UNCHANGED occurred
     \/ /\ lpc = "next" /\ lpc' = "acting" /\ UNCHANGED occurred /\ batch.order # << >>
        /\ \A e \in DOMAIN schedule' : schedule'[e].action = "queued" => e # batch.order[1]
     \/ /\ lpc = "casting" /\ lpc' = "finish" /\ UNCHANGED schedule
        /\ occurred' = occurred \cup {<<e, Info(1).time>> : e \in Info(1).covers}
GoesOn ==
  /\ lpc \in {"next", "acting", "casting", "finish"} /\ lpc' = "next" /\ UNCHANGED occurred
  /\ batch.order # << >>
  /\ batch'.order = Tail(batch.order) /\ batch'.info = batch.info

\* Each step of the launcher is of one of these kinds.
LEMMA BatchSteps ==
  ASSUME FiniteSchedule, Shape, BatchKept, Launcher
  PROVE  Leaves \/ Takes \/ Keeps \/ GoesOn
<1> USE DEF BatchKept, InRound, OnOne, hist
<1>1. CASE LWake \/ ReadState \/ Resume \/ Calibrated \/ RoundEnds
  BY <1>1 DEF LWake, ReadState, Resume, Calibrated, RoundEnds, Sleeps, Leaves
<1>2. CASE Look
  <2>1. CASE Queued = {}
    BY <1>2, <2>1 DEF Look, Sleeps, Leaves
  <2>2. CASE Queued # {}
    <3> DEFINE crowd == IF Cardinality(Plain) > 1 THEN Plain ELSE {}
    <3>1. PICK order \in Orderings(Queued \ crowd) :
             /\ batch' = [order |-> order, marks |-> Queued \ crowd, crowd |-> crowd,
                          info |-> [e \in Queued |-> schedule[e]]]
             /\ lpc' = "mark"
      BY <1>2, <2>2 DEF Look
    <3> HIDE DEF crowd
    <3>2. order \in Seq(Queued \ crowd) /\ \A i, j \in DOMAIN order : i # j => order[i] # order[j]
      BY OrderIsSeq
    <3>3. order \in Seq(Queued)
      BY <3>2
    <3>4. UNCHANGED <<schedule, occurred>>
      BY <1>2 DEF Look
    <3> QED
      BY <3>1, <3>2, <3>3, <3>4 DEF Takes
  <2> QED
    BY <2>1, <2>2
<1>3. CASE \E e \in Entries : Crowd(e) \/ Mark(e)
  BY <1>3 DEF Crowd, Mark, Leaves, Keeps
<1>4. CASE Marked
  BY <1>4 DEF Marked, Keeps
<1>5. ASSUME NextCast, lpc \in {"next", "acting", "casting", "finish"}, batch.order # << >>,
             UNCHANGED occurred
      PROVE  GoesOn
  BY <1>5 DEF NextCast, GoesOn
<1>6. CASE Invalid \/ ConfigFails \/ Finish
  BY <1>6, <1>5 DEF Invalid, ConfigFails, Finish
<1>7. CASE Casting
  <2>1. CASE Current \in DOMAIN schedule
    <3>1. /\ schedule' = [schedule EXCEPT ![Current].action = "casting"] /\ lpc = "next" /\ lpc' = "acting"
          /\ UNCHANGED <<batch, occurred>> /\ batch.order # << >>
      BY <1>7, <2>1 DEF Casting
    <3>2. Current = batch.order[1]
      BY <3>1, TailOf DEF Current
    <3>3. \A e \in DOMAIN schedule' : schedule'[e].action = "queued" => e # batch.order[1]
      BY <2>1, <3>1, <3>2 DEF Shape, Fields
    <3> QED
      BY <3>1, <3>3 DEF Keeps
  <2> QED
    BY <1>7, <2>1, <1>5 DEF Casting
<1>8. CASE Acting
  BY <1>8, <1>5 DEF Acting, Keeps
<1>9. CASE CastEnds
  <2>1. Current = batch.order[1]
    BY <1>9, TailOf DEF CastEnds, Current
  <2> QED
    BY <1>9, <2>1 DEF CastEnds, Keeps, Info
<1> QED
  BY <1>1, <1>2, <1>3, <1>4, <1>6, <1>7, <1>8, <1>9 DEF Launcher

\* What is due without a sample becomes the first of it.
LEMMA CombineFrame ==
  ASSUME Shape, Combine
  PROVE  /\ spc' = "give" /\ UNCHANGED <<now, srun, schedule, launch, hist>>
         /\ \/ UNCHANGED ready
            \/ \E plain \in SUBSET DOMAIN ready : \E first \in plain :
                 /\ DOMAIN ready' = DOMAIN ready \ (plain \ {first})
                 /\ ready'[first].covers = plain /\ ready'[first].time = ready[first].time
                 /\ \A e \in DOMAIN ready' \ {first} : ready'[e] = ready[e]
<1>0. spc' = "give" /\ UNCHANGED <<now, srun, schedule, launch, hist>>
  BY DEF Combine
<1> DEFINE plain == {e \in DOMAIN ready : ~ready[e].isco}
<1>1. CASE Cardinality(plain) < 2
  BY <1>0, <1>1 DEF Combine
<1>2. CASE ~(Cardinality(plain) < 2)
  <2>1. PICK first \in plain :
          ready' = [e \in DOMAIN ready \ (plain \ {first}) |->
                    IF e = first
                    THEN [ready[e] EXCEPT !.lisst = \E x \in plain : ready[x].lisst,
                                          !.since = now, !.covers = plain]
                    ELSE ready[e]]
    BY <1>2 DEF Combine
  <2> DEFINE made == [ready[first] EXCEPT !.lisst = \E x \in plain : ready[x].lisst,
                                          !.since = now, !.covers = plain]
  <2>2. made.covers = plain /\ made.time = ready[first].time
    BY DEF Shape, Fields
  <2> HIDE DEF made
  <2>3. ready' = [e \in DOMAIN ready \ (plain \ {first}) |-> IF e = first THEN made ELSE ready[e]]
    BY <2>1 DEF made
  <2> HIDE DEF plain
  <2>4. first \in plain /\ plain \subseteq DOMAIN ready
    BY DEF plain
  <2> QED
    BY <1>0, <2>2, <2>3, <2>4
<1> QED
  BY <1>1, <1>2

\* Only Scan makes entries, with the minute it scans; all others were made before.
LEMMA AgesNext ==
  ASSUME FiniteSchedule, BatchKept, Shape, Clock, Ages, [SchedulerNext]_schedulerVars
  PROVE  Ages'
<1> USE DEF launch, hist
<1>0. (\A t : Old(t) => Old(t)') /\ Clock'
  BY ClockNext
<1>1. CASE Launcher
  <2>1. Reduced /\ UNCHANGED <<ready, srun>>
    BY <1>1, LauncherFrame
  <2>2. /\ \A e \in DOMAIN schedule' : Old(schedule[e].time)'
        /\ \A e \in DOMAIN ready' : ready'[e].time = srun' + Pre
    BY <1>0, <2>1 DEF Ages, Reduced
  <2>3. CASE Leaves
    BY <1>0, <2>2, <2>3 DEF Leaves, Ages
  <2>4. CASE Takes
    BY <1>0, <2>2, <2>4 DEF Takes, Ages, Queued
  <2>5. CASE Keeps
    <3>1. \A o \in occurred' : Old(o[2])'
      <4>1. CASE UNCHANGED occurred
        BY <4>1, <1>0 DEF Ages
      <4>2. CASE /\ lpc = "casting"
                 /\ occurred' = occurred \cup {<<e, Info(1).time>> : e \in Info(1).covers}
        <5>1. batch.order \in Seq(DOMAIN batch.info) /\ batch.order # << >>
          BY <4>2 DEF BatchKept, InRound, OnOne
        <5>2. batch.order[1] \in DOMAIN batch.info
          BY <5>1
        <5> QED
          BY <4>2, <5>2, <1>0, <2>5 DEF Ages, Info, Keeps
      <4> QED
        BY <2>5, <4>1, <4>2 DEF Keeps
    <3> QED
      BY <1>0, <2>2, <2>5, <3>1 DEF Keeps, Ages
  <2>6. CASE GoesOn
    BY <1>0, <2>2, <2>6 DEF GoesOn, Ages, InRound
  <2> QED
    BY <1>1, <2>3, <2>4, <2>5, <2>6, BatchSteps
<1>2. ASSUME UNCHANGED <<launch, occurred>>,
             \A e \in DOMAIN schedule' : Old(schedule[e].time)',
             \A e \in DOMAIN ready' : ready'[e].time = srun' + Pre
      PROVE  Ages'
  BY <1>0, <1>2 DEF Ages, InRound
<1>3. CASE Purge
  BY <1>0, <1>2, <1>3 DEF Purge, Ages
<1>4. CASE Give
  <2>1. \A e \in DOMAIN ready : Old(ready[e].time)
    BY <1>4, TimeAssumption DEF Give, Ages, Old, Clock, Scanned
  <2>2. \A e \in DOMAIN schedule' :
           \/ e \in DOMAIN schedule /\ schedule'[e] = schedule[e]
           \/ e \in DOMAIN ready /\ schedule'[e].time = ready[e].time
    BY <1>4, GiveFrame
  <2>3. \A e \in DOMAIN ready' : ready'[e].time = srun' + Pre
    BY <1>4, GiveFrame DEF Ages
  <2> QED
    BY <1>0, <1>2, <1>4, <2>1, <2>2, <2>3, GiveFrame DEF Ages
<1>5. CASE SWake
  BY <1>0, <1>2, <1>5 DEF SWake, Ages
<1>6. CASE Scan
  <2>1. \A e \in DOMAIN ready' : ready'[e].time = srun' + Pre
    BY <1>6 DEF Scan, Due, Clock
  <2> QED
    BY <1>0, <1>2, <1>6, <2>1 DEF Scan, Ages
<1>7. CASE Combine
  <2>1. \A e \in DOMAIN ready' : e \in DOMAIN ready /\ ready'[e].time = ready[e].time
    BY <1>7, CombineFrame
  <2> QED
    BY <1>0, <1>2, <1>7, <2>1 DEF Combine, Ages
<1>8. CASE Reparse \/ Poll \/ World
  BY <1>0, <1>2, <1>8 DEF Reparse, Poll, World, Tick, Edit, Order, sched, Ages
<1>9. CASE UNCHANGED schedulerVars
  BY <1>0, <1>2, <1>9 DEF schedulerVars, sched, Ages
<1> QED
  BY <1>1, <1>3, <1>4, <1>5, <1>6, <1>7, <1>8, <1>9 DEF SchedulerNext, Scheduler

\* Scan makes entries of a minute that no entry in the schedule is of; Combine
\* joins some of them to one; Give moves one from ready to the schedule.
LEMMA WaitingNext ==
  ASSUME Shape, Clock, Ages, Waiting, [SchedulerNext]_schedulerVars
  PROVE  Waiting'
<1> USE DEF Waiting, ReadyOnce, ReadyAlone, ScheduledOnce, ReadyNew, Unlike
<1>1. CASE Launcher
  BY <1>1, LauncherFrame DEF Reduced
<1>2. CASE Purge
  BY <1>2 DEF Purge
<1>3. CASE Give
  <2>1. CASE UNCHANGED <<schedule, ready>> /\ spc' = "sleep"
    BY <2>1
  <2>2. CASE ~(UNCHANGED <<schedule, ready>> /\ spc' = "sleep")
    <3>1. PICK e \in DOMAIN ready :
            /\ DOMAIN schedule' = DOMAIN schedule \cup {e}
            /\ \A x \in DOMAIN schedule : schedule'[x] = schedule[x]
            /\ e \notin DOMAIN schedule =>
                 schedule'[e].time = ready[e].time /\ schedule'[e].covers = ready[e].covers
            /\ DOMAIN ready' = DOMAIN ready \ {e}
            /\ \A x \in DOMAIN ready' : ready'[x] = ready[x]
            /\ spc' = spc
      BY <1>3, <2>2, GiveFrame
    <3> QED
      BY <3>1
  <2> QED
    BY <2>1, <2>2
<1>4. CASE SWake
  BY <1>4 DEF SWake
<1>5. CASE Scan
  <2>1. \A e \in DOMAIN ready' : ready'[e].time = srun + Pre /\ ready'[e].covers = {e}
    BY <1>5 DEF Scan, Due, Clock
  <2>2. \A f \in DOMAIN schedule : schedule[f].time # srun + Pre
    BY <1>5, TimeAssumption DEF Scan, Ages, Old, Scanned, Clock
  <2>3. UNCHANGED schedule /\ srun' = srun
    BY <1>5 DEF Scan
  <2>4. ReadyOnce' /\ ReadyAlone'
    BY <2>1
  <2>5. ReadyNew'
    BY <2>1, <2>2, <2>3
  <2>6. ScheduledOnce'
    BY <2>3
  <2> HIDE DEF ReadyOnce, ReadyAlone, ScheduledOnce, ReadyNew
  <2> QED
    BY <2>4, <2>5, <2>6
<1>6. CASE Combine
  <2>1. CASE UNCHANGED ready
    BY <1>6, <2>1, CombineFrame
  <2>2. CASE ~UNCHANGED ready
    <3>0. PICK plain \in SUBSET DOMAIN ready : \E first \in plain :
            /\ DOMAIN ready' = DOMAIN ready \ (plain \ {first})
            /\ ready'[first].covers = plain /\ ready'[first].time = ready[first].time
            /\ \A e \in DOMAIN ready' \ {first} : ready'[e] = ready[e]
      BY <1>6, <2>2, CombineFrame
    <3>1. PICK first \in plain :
            /\ DOMAIN ready' = DOMAIN ready \ (plain \ {first})
            /\ ready'[first].covers = plain /\ ready'[first].time = ready[first].time
            /\ \A e \in DOMAIN ready' \ {first} : ready'[e] = ready[e]
      BY <3>0
    <3>2. \A e \in DOMAIN ready : ready[e].time = srun + Pre /\ ready[e].covers = {e}
      BY <1>6 DEF Combine, Ages
    <3>3. UNCHANGED schedule /\ spc' # "combine"
      BY <1>6 DEF Combine
    <3>4. ReadyOnce' /\ ReadyAlone' /\ ScheduledOnce'
      BY <3>1, <3>2, <3>3
    <3>5. ReadyNew'
      <4> SUFFICES ASSUME NEW e \in DOMAIN ready', NEW f \in DOMAIN schedule
                   PROVE  ready'[e].time # schedule[f].time \/ ready'[e].covers \cap schedule[f].covers = {}
        BY <3>3
      <4>1. CASE e # first
        BY <3>1, <4>1
      <4>2. CASE e = first
        <5>1. CASE schedule[f].time # srun + Pre
          BY <4>2, <5>1, <3>1, <3>2
        <5>2. CASE schedule[f].time = srun + Pre
          <6>1. \A x \in plain : x \notin schedule[f].covers
            BY <3>2, <5>2
          <6> QED
            BY <4>2, <3>1, <6>1
        <5> QED
          BY <5>1, <5>2
      <4> QED
        BY <4>1, <4>2
    <3> QED
      BY <3>4, <3>5
  <2> QED
    BY <2>1, <2>2
<1>7. CASE Reparse \/ Poll \/ World
  BY <1>7 DEF Reparse, Poll, World, Tick, Edit, Order, sched
<1>8. CASE UNCHANGED schedulerVars
  BY <1>8 DEF schedulerVars, sched
<1> QED
  BY <1>1, <1>2, <1>3, <1>4, <1>5, <1>6, <1>7, <1>8 DEF SchedulerNext, Scheduler

\* A step that leaves the launcher alone.
LEMMA BatchedFrame ==
  ASSUME BatchKept, Batched, UNCHANGED launch,
         \A f \in DOMAIN schedule' :
           \/ f \in DOMAIN schedule /\ schedule'[f] = schedule[f]
           \/ /\ f \in DOMAIN ready
              /\ schedule'[f].time = ready[f].time /\ schedule'[f].covers = ready[f].covers,
         InRound => OrderReady'
  PROVE  Batched'
<1> USE DEF launch, InRound, OnOne, Info, Unlike, Queued
<1>1. CASE ~InRound
  BY <1>1 DEF Batched
<1>2. CASE InRound
  <2>1. OrderOnce /\ OrderScheduled /\ OrderReady /\ CurrentQueued
    BY <1>2 DEF Batched
  <2>2. OrderOnce'
    BY <2>1 DEF OrderOnce
  <2>3. OrderScheduled'
    BY <2>1 DEF OrderScheduled, OrderReady
  <2>4. CurrentQueued'
    <3>1. OnOne => 1 \in DOMAIN batch.order
      BY <1>2, TailOf DEF BatchKept
    <3> QED
      BY <2>1, <3>1 DEF CurrentQueued, OrderReady
  <2> QED
    BY <1>2, <2>2, <2>3, <2>4 DEF Batched
<1> QED
  BY <1>1, <1>2

\* A new batch: each entry of it is in the schedule, as queued.
LEMMA BatchedTakes ==
  ASSUME Waiting, UNCHANGED ready, Takes
  PROVE  Batched'
<1>1. \A i \in DOMAIN batch'.order : /\ batch'.order[i] \in DOMAIN schedule
                                    /\ Info(i)' = schedule[batch'.order[i]]
  BY DEF Takes, Queued, Info
<1>2. OrderOnce'
  BY <1>1 DEF Takes, OrderOnce, Waiting, ScheduledOnce, Unlike
<1>3. OrderScheduled'
  BY <1>1 DEF Takes, OrderScheduled, Waiting, ScheduledOnce, Unlike
<1>4. OrderReady'
  BY <1>1 DEF OrderReady, Waiting, ReadyNew, Unlike
<1>5. CurrentQueued'
  BY DEF Takes, CurrentQueued, OnOne
<1> QED
  BY <1>2, <1>3, <1>4, <1>5 DEF Batched

\* The batch is kept, and the schedule only reduced.
LEMMA BatchedKeeps ==
  ASSUME Batched, BatchKept, Reduced, UNCHANGED ready, Keeps
  PROVE  Batched'
<1>1. OrderOnce /\ OrderScheduled /\ OrderReady /\ CurrentQueued
  BY DEF Batched, Keeps
<1>2. OrderOnce'
  BY <1>1 DEF OrderOnce, Keeps, Info, Unlike
<1>3. OrderScheduled'
  BY <1>1 DEF OrderScheduled, Keeps, Info, Unlike, Reduced
<1>4. OrderReady'
  BY <1>1 DEF OrderReady, Keeps, Info, Unlike
<1>5. CurrentQueued'
  <2>1. \A f \in Queued' : /\ f \in Queued /\ schedule'[f].time = schedule[f].time
                           /\ schedule'[f].covers = schedule[f].covers
    BY DEF Reduced, Queued
  <2>2. CASE OnOne
    BY <1>1, <2>1, <2>2 DEF CurrentQueued, Keeps, Info, Unlike
  <2>3. CASE lpc = "next" /\ lpc' = "acting"
    <3>1. 1 \in DOMAIN batch.order
      BY <2>3, TailOf DEF BatchKept, InRound, OnOne, Keeps
    <3>2. \A f \in Queued' : f # batch.order[1]
      BY <2>3 DEF Keeps, Queued, OnOne
    <3> QED
      BY <1>1, <2>1, <3>1, <3>2 DEF CurrentQueued, OrderScheduled, Queued, Keeps, Info, Unlike
  <2>4. CASE lpc' \in {"mark", "next"}
    BY <2>4 DEF CurrentQueued, OnOne
  <2> QED
    BY <2>2, <2>3, <2>4 DEF Keeps, OnOne
<1> QED
  BY <1>2, <1>3, <1>4, <1>5 DEF Batched

\* The launcher goes on to the next entry of its batch.
LEMMA BatchedGoesOn ==
  ASSUME Batched, BatchKept, Reduced, UNCHANGED ready, GoesOn
  PROVE  Batched'
<1>1. OrderOnce /\ OrderScheduled /\ OrderReady
  BY DEF Batched, GoesOn, InRound
<1>2. \A i \in DOMAIN batch'.order :
         i + 1 \in DOMAIN batch.order /\ batch'.order[i] = batch.order[i + 1] /\ Info(i)' = Info(i + 1)
  BY TailOf DEF GoesOn, BatchKept, InRound, Info
<1>3. DOMAIN batch'.order \subseteq Nat
  BY TailOf DEF GoesOn, BatchKept, InRound
<1>4. OrderOnce'
  BY <1>1, <1>2, <1>3 DEF OrderOnce, Unlike
<1>5. OrderScheduled'
  BY <1>1, <1>2 DEF OrderScheduled, Reduced, Unlike
<1>6. OrderReady'
  BY <1>1, <1>2 DEF OrderReady, Unlike
<1>7. CurrentQueued'
  BY DEF GoesOn, CurrentQueued, OnOne
<1> QED
  BY <1>4, <1>5, <1>6, <1>7 DEF Batched

\* All steps together.
LEMMA BatchedNext ==
  ASSUME OnceInv, [SchedulerNext]_schedulerVars
  PROVE  Batched'
<1> USE DEF OnceInv, TubeInv
<1>1. CASE Launcher
  <2>1. Reduced /\ UNCHANGED ready
    BY <1>1, LauncherFrame
  <2>2. CASE Leaves
    BY <2>2 DEF Leaves, Batched
  <2> QED
    BY <1>1, <2>1, <2>2, BatchSteps, BatchedTakes, BatchedKeeps, BatchedGoesOn
<1>2. ASSUME UNCHANGED <<launch, schedule>>, InRound => OrderReady'
      PROVE  Batched'
  BY <1>2, BatchedFrame
<1>3. ASSUME UNCHANGED <<launch, ready, batch>> PROVE InRound => OrderReady'
  BY <1>3 DEF Batched, OrderReady, Info, Unlike
<1>4. CASE Purge
  BY <1>3, <1>4, BatchedFrame DEF Purge, launch
<1>5. CASE Give
  <2>1. UNCHANGED launch
    BY <1>5, GiveFrame
  <2>2. InRound => OrderReady'
    BY <1>5, <2>1, GiveFrame DEF launch, Batched, OrderReady, Info, Unlike
  <2> QED
    BY <1>5, <2>1, <2>2, GiveFrame, BatchedFrame
<1>6. CASE SWake
  BY <1>2, <1>6 DEF SWake, OrderReady
<1>7. CASE Scan
  <2>1. UNCHANGED <<launch, batch, schedule>>
    BY <1>7 DEF Scan, launch
  <2>2. \A e \in DOMAIN ready' : ready'[e].time = srun + Pre
    BY <1>7 DEF Scan, Due, Clock
  <2>3. InRound => \A i \in DOMAIN batch.order : Info(i).time # srun + Pre
    <3>1. InRound => \A e \in DOMAIN batch.info : batch.info[e].time # srun + Pre
      BY <1>7, TimeAssumption DEF Scan, Ages, Old, Scanned, Clock
    <3>2. InRound => \A i \in DOMAIN batch.order : batch.order[i] \in DOMAIN batch.info
      BY DEF BatchKept
    <3> QED
      BY <3>1, <3>2 DEF Info
  <2>4. InRound => OrderReady'
    BY <2>1, <2>2, <2>3 DEF OrderReady, Unlike, Info
  <2> QED
    BY <1>2, <2>1, <2>4
<1>8. CASE Combine
  <2>1. UNCHANGED <<launch, batch, schedule>>
    BY <1>8 DEF Combine, launch
  <2>2. CASE UNCHANGED ready
    BY <1>2, <1>3, <2>1, <2>2
  <2>3. CASE ~UNCHANGED ready
    <3>0. PICK plain \in SUBSET DOMAIN ready : \E first \in plain :
            /\ DOMAIN ready' = DOMAIN ready \ (plain \ {first})
            /\ ready'[first].covers = plain /\ ready'[first].time = ready[first].time
            /\ \A e \in DOMAIN ready' \ {first} : ready'[e] = ready[e]
      BY <1>8, <2>3, CombineFrame
    <3>1. PICK first \in plain :
            /\ DOMAIN ready' = DOMAIN ready \ (plain \ {first})
            /\ ready'[first].covers = plain /\ ready'[first].time = ready[first].time
            /\ \A e \in DOMAIN ready' \ {first} : ready'[e] = ready[e]
      BY <3>0
    <3>2. \A e \in DOMAIN ready : ready[e].time = srun + Pre /\ ready[e].covers = {e}
      BY <1>8 DEF Combine, Ages, Waiting, ReadyAlone
    <3>3. ASSUME InRound, NEW i \in DOMAIN batch.order
          PROVE  Info(i).time # srun + Pre \/ \A x \in plain : x \notin Info(i).covers
      BY <3>2, <3>3 DEF Batched, OrderReady, Unlike
    <3>4. InRound => OrderReady'
      <4> SUFFICES ASSUME InRound, NEW i \in DOMAIN batch.order, NEW f \in DOMAIN ready'
                   PROVE  Info(i).time # ready'[f].time \/ Info(i).covers \cap ready'[f].covers = {}
        BY <2>1 DEF OrderReady, Unlike, Info
      <4>1. CASE f = first
        BY <3>1, <3>2, <3>3, <4>1
      <4>2. CASE f # first
        BY <3>1, <4>2 DEF Batched, OrderReady, Unlike
      <4> QED
        BY <4>1, <4>2
    <3> QED
      BY <1>2, <2>1, <3>4
  <2> QED
    BY <2>2, <2>3
<1>9. CASE Reparse \/ Poll \/ World
  BY <1>2, <1>3, <1>9 DEF Reparse, Poll, World, Tick, Edit, Order, sched, launch
<1>10. CASE UNCHANGED schedulerVars
  BY <1>2, <1>3, <1>10 DEF schedulerVars, sched, launch
<1> QED
  BY <1>1, <1>4, <1>5, <1>6, <1>7, <1>8, <1>9, <1>10 DEF SchedulerNext, Scheduler

\* Only CastEnds casts: what it adds was the current entry's, which shares nothing
\* with any other entry that waits.
LEMMA UncastNext ==
  ASSUME OnceInv, [SchedulerNext]_schedulerVars
  PROVE  Uncast'
<1> USE DEF OnceInv, TubeInv
<1>1. CASE Launcher
  <2>1. Reduced /\ UNCHANGED ready
    BY <1>1, LauncherFrame
  <2>2. \A e \in Queued' : /\ e \in Queued /\ schedule'[e].time = schedule[e].time
                           /\ schedule'[e].covers = schedule[e].covers
    BY <2>1 DEF Reduced, Queued
  <2>3. ASSUME UNCHANGED occurred
        PROVE  /\ \A e \in DOMAIN ready' : NotYet(ready[e])'
               /\ \A e \in Queued' : NotYet(schedule[e])'
    BY <2>1, <2>2, <2>3 DEF Uncast, NotYet
  <2>4. CASE Leaves
    BY <2>3, <2>4 DEF Leaves, Uncast
  <2>5. CASE Takes
    <3>1. \A i \in DOMAIN batch'.order : /\ batch'.order[i] \in Queued
                                        /\ Info(i)' = schedule[batch'.order[i]]
      BY <2>5 DEF Takes, Info
    <3>2. \A i \in DOMAIN batch'.order : NotYet(Info(i))'
      BY <2>5, <3>1 DEF Takes, Uncast, NotYet
    <3> QED
      BY <2>3, <2>5, <3>2 DEF Takes, Uncast
  <2>6. CASE Keeps /\ UNCHANGED occurred
    <3>1. \A i \in DOMAIN batch'.order : NotYet(Info(i))'
      BY <2>6 DEF Keeps, Uncast, NotYet, Info
    <3> QED
      BY <2>3, <2>6, <3>1 DEF Uncast
  <2>7. CASE Keeps /\ ~UNCHANGED occurred
    <3>1. /\ lpc = "casting" /\ lpc' = "finish" /\ UNCHANGED schedule
          /\ occurred' = occurred \cup {<<e, Info(1).time>> : e \in Info(1).covers}
          /\ batch'.order = batch.order /\ batch'.info = batch.info
      BY <2>7 DEF Keeps
    <3>2. \A x : NotYet(x) /\ Unlike(Info(1), x) => \A e \in x.covers : <<e, x.time>> \notin occurred'
      BY <3>1 DEF NotYet, Unlike
    <3>3. InRound /\ OnOne /\ batch.order # << >>
      BY <3>1 DEF InRound, OnOne, BatchKept
    <3>4. 1 \in DOMAIN batch.order
      BY <3>3, TailOf DEF BatchKept
    <3>5. \A e \in DOMAIN ready' : NotYet(ready[e])'
      BY <2>1, <3>2, <3>3, <3>4 DEF Batched, OrderReady, Uncast, NotYet
    <3>6. \A e \in Queued' : NotYet(schedule[e])'
      BY <2>2, <3>1, <3>2, <3>3 DEF Batched, CurrentQueued, Uncast, NotYet
    <3>7. \A i \in DOMAIN batch'.order : i # 1 => NotYet(Info(i))'
      BY <3>1, <3>2, <3>3, <3>4 DEF Batched, OrderOnce, Uncast, NotYet, Info
    <3> QED
      BY <3>1, <3>5, <3>6, <3>7 DEF Uncast
  <2>8. CASE GoesOn
    <3>1. \A i \in DOMAIN batch'.order :
             i + 1 \in DOMAIN batch.order /\ i + 1 # 1 /\ Info(i)' = Info(i + 1)
      BY <2>8, TailOf DEF GoesOn, BatchKept, InRound, Info
    <3>2. \A i \in DOMAIN batch'.order : NotYet(Info(i))'
      BY <2>8, <3>1 DEF GoesOn, InRound, Uncast, NotYet
    <3> QED
      BY <2>3, <2>8, <3>2 DEF GoesOn, Uncast
  <2> QED
    BY <1>1, <2>4, <2>5, <2>6, <2>7, <2>8, BatchSteps
<1>2. ASSUME UNCHANGED <<launch, occurred>>,
             \A e \in DOMAIN ready' : NotYet(ready'[e]),
             \A e \in Queued' : NotYet(schedule'[e])
      PROVE  Uncast'
  BY <1>2 DEF launch, Uncast, NotYet, InRound, Info
<1>3. CASE Purge
  BY <1>2, <1>3 DEF Purge, Uncast, Queued
<1>4. CASE Give
  <2>1. UNCHANGED <<launch, occurred>>
    BY <1>4, GiveFrame DEF hist
  <2>2. \A e \in DOMAIN ready' : NotYet(ready'[e])
    BY <1>4, GiveFrame DEF Uncast
  <2>3. \A e \in Queued' :
           \/ e \in Queued /\ schedule'[e] = schedule[e]
           \/ /\ e \in DOMAIN ready
              /\ schedule'[e].time = ready[e].time /\ schedule'[e].covers = ready[e].covers
    BY <1>4, GiveFrame DEF Queued
  <2>4. \A e \in Queued' : NotYet(schedule'[e])
    BY <2>3 DEF Uncast, NotYet
  <2> QED
    BY <1>2, <2>1, <2>2, <2>4
<1>5. CASE SWake
  BY <1>2, <1>5 DEF SWake, hist, Uncast, Queued
<1>6. CASE Scan
  <2>1. \A e \in DOMAIN ready' : ready'[e].time = srun + Pre
    BY <1>6 DEF Scan, Due, Clock
  <2>2. \A o \in occurred : o[2] # srun + Pre
    BY <1>6, TimeAssumption DEF Scan, Ages, Old, Scanned, Clock
  <2>3. \A e \in DOMAIN ready' : NotYet(ready'[e])
    BY <2>1, <2>2 DEF NotYet
  <2> QED
    BY <1>2, <1>6, <2>3 DEF Scan, hist, Uncast, Queued
<1>7. CASE Combine
  <2>1. CASE UNCHANGED ready
    BY <1>2, <1>7, <2>1, CombineFrame DEF hist, Uncast, Queued
  <2>2. CASE ~UNCHANGED ready
    <3>0. PICK plain \in SUBSET DOMAIN ready : \E first \in plain :
            /\ DOMAIN ready' = DOMAIN ready \ (plain \ {first})
            /\ ready'[first].covers = plain /\ ready'[first].time = ready[first].time
            /\ \A e \in DOMAIN ready' \ {first} : ready'[e] = ready[e]
      BY <1>7, <2>2, CombineFrame
    <3>1. PICK first \in plain :
            /\ DOMAIN ready' = DOMAIN ready \ (plain \ {first})
            /\ ready'[first].covers = plain /\ ready'[first].time = ready[first].time
            /\ \A e \in DOMAIN ready' \ {first} : ready'[e] = ready[e]
      BY <3>0
    <3>2. \A e \in DOMAIN ready : ready[e].time = srun + Pre /\ ready[e].covers = {e}
      BY <1>7 DEF Combine, Ages, Waiting, ReadyAlone
    <3>3. \A e \in DOMAIN ready : <<e, srun + Pre>> \notin occurred
      BY <3>2 DEF Uncast, NotYet
    <3>4. \A e \in DOMAIN ready' : NotYet(ready'[e])
      BY <3>1, <3>2, <3>3 DEF NotYet
    <3> QED
      BY <1>2, <1>7, <3>4, CombineFrame DEF hist, Uncast, Queued
  <2> QED
    BY <2>1, <2>2
<1>8. CASE Reparse \/ Poll \/ World
  BY <1>2, <1>8 DEF Reparse, Poll, World, Tick, Edit, Order, sched, hist, Uncast, Queued
<1>9. CASE UNCHANGED schedulerVars
  BY <1>2, <1>9 DEF schedulerVars, sched, hist, Uncast, Queued
<1> QED
  BY <1>1, <1>3, <1>4, <1>5, <1>6, <1>7, <1>8, <1>9 DEF SchedulerNext, Scheduler

\* Every step keeps the invariant.
LEMMA OnceNext == OnceInv /\ [SchedulerNext]_schedulerVars => OnceInv'
<1> SUFFICES ASSUME OnceInv, [SchedulerNext]_schedulerVars PROVE OnceInv'
  OBVIOUS
<1>1. Shape' /\ Clock' /\ Ages' /\ Waiting'
  BY ShapeNext, ClockNext, AgesNext, WaitingNext DEF OnceInv, TubeInv
<1>2. TubeInv'
  BY FiniteNext, TubeNext DEF OnceInv, TubeInv
<1>3. Batched' /\ Uncast'
  BY BatchedNext, UncastNext
<1> QED
  BY <1>1, <1>2, <1>3 DEF OnceInv

\* CastOnce: what an entry was due for at a minute is never cast a second time.
THEOREM NothingCastTwice == SchedulerSpec => CastOnce
<1>1. OnceInv /\ [SchedulerNext]_schedulerVars =>
        [lpc = "casting" /\ lpc' = "finish" =>
          \A e \in batch.info[Current].covers : <<e, batch.info[Current].time>> \notin occurred]_schedulerVars
  <2> SUFFICES ASSUME OnceInv, lpc = "casting"
               PROVE  \A e \in batch.info[Current].covers : <<e, batch.info[Current].time>> \notin occurred
    OBVIOUS
  <2>1. InRound /\ 1 \in DOMAIN batch.order /\ Current = batch.order[1]
    BY TailOf DEF OnceInv, TubeInv, BatchKept, InRound, OnOne, Current
  <2> QED
    BY <2>1 DEF OnceInv, Uncast, NotYet, Info
<1> QED
  BY OnceInit, OnceNext, <1>1, PTL DEF SchedulerSpec, CastOnce
-----------------------------------------------------------------------------
(* The calendar: minutes are numbered in the order of their dates. *)

\* Times of any year, and their order.
Times == {t \in [month : Months, day : Nat, hour : Hours, minute : Minutes, year : Int] :
            t.day \in 1..LastDay[t.month]}
KeyLimit == 100 * 100 * 100 * 100
Stamp(t) == t.year * KeyLimit + Key(t)

\* Months, days, hours and minutes have two digits.
TwoDigits(x) == x \in Int /\ 0 <= x /\ x < 100

\* The months are numbered from 1 on.
LEMMA MonthsAre == Months = 1..Len(LastDay) /\ Len(LastDay) \in Nat \ {0} /\ Len(LastDay) < 100
BY CalendarAssumption DEF Months

\* The fields of a date have two digits, and their first values are there.
LEMMA SmallFields ==
  /\ 1 \in Months /\ \A m \in Months : TwoDigits(m) /\ LastDay[m] \in Nat \ {0} /\ LastDay[m] < 100
  /\ 0 \in Hours /\ 0 \in Minutes
  /\ \A h \in Hours : TwoDigits(h)
  /\ \A m \in Minutes : TwoDigits(m)
<1>1. 1 \in Months /\ \A m \in Months : TwoDigits(m)
  BY MonthsAre DEF TwoDigits
<1>2. \A m \in Months : LastDay[m] \in Nat \ {0} /\ LastDay[m] < 100
  <2>1. LastDay \in Seq(Nat \ {0})
    BY CalendarAssumption
  <2>2. \A m \in 1..Len(LastDay) : LastDay[m] \in Nat \ {0}
    BY <2>1, ElementOfSeq
  <2> QED
    BY <2>2, MonthsAre, CalendarAssumption DEF Months
<1>3. /\ HoursPerDay \in Nat \ {0} /\ MinutesPerHour \in Nat \ {0}
      /\ HoursPerDay <= 100 /\ MinutesPerHour <= 100
  BY CalendarAssumption
<1> QED
  BY <1>1, <1>2, <1>3 DEF Hours, Minutes, TwoDigits

\* A number of four digits to the base of 100.
LEMMA FourDigits ==
  ASSUME NEW a, NEW b, NEW c, NEW d,
         TwoDigits(a), TwoDigits(b), TwoDigits(c), TwoDigits(d)
  PROVE  LET n == ((a * 100 + b) * 100 + c) * 100 + d IN n \in Int /\ 0 <= n /\ n < KeyLimit
BY DEF TwoDigits, KeyLimit

\* The digits are those of the number.
LEMMA DigitsDiffer ==
  ASSUME NEW a, NEW b, NEW c, NEW d, TwoDigits(a), TwoDigits(b), TwoDigits(c), TwoDigits(d),
         NEW p, NEW q, NEW r, NEW s, TwoDigits(p), TwoDigits(q), TwoDigits(r), TwoDigits(s),
         ((a * 100 + b) * 100 + c) * 100 + d = ((p * 100 + q) * 100 + r) * 100 + s
  PROVE  a = p /\ b = q /\ c = r /\ d = s
BY DEF TwoDigits

\* A date is known by its key.
LEMMA KeyOfDate ==
  /\ \A t \in Dates : Key(t) \in Int /\ 0 <= Key(t) /\ Key(t) < KeyLimit
  /\ \A t, u \in Dates : Key(t) = Key(u) => t = u
<1>1. ASSUME NEW t \in Dates
      PROVE  /\ t \in [month : Months, day : UNION {1..LastDay[m] : m \in Months},
                       hour : Hours, minute : Minutes]
             /\ TwoDigits(t.month) /\ TwoDigits(t.day) /\ TwoDigits(t.hour) /\ TwoDigits(t.minute)
  <2>1. /\ t \in [month : Months, day : UNION {1..LastDay[m] : m \in Months},
                       hour : Hours, minute : Minutes]
    BY DEF Dates
  <2>2. PICK m \in Months : t.day \in 1..LastDay[m]
    BY <2>1
  <2>3. TwoDigits(t.day)
    BY <2>2, SmallFields DEF TwoDigits
  <2> QED
    BY <2>1, <2>3, SmallFields
<1>2. \A t \in Dates : Key(t) \in Int /\ 0 <= Key(t) /\ Key(t) < KeyLimit
  BY <1>1, FourDigits DEF Key
<1>3. ASSUME NEW t \in Dates, NEW u \in Dates, Key(t) = Key(u)
      PROVE  t = u
  <2>1. t.month = u.month /\ t.day = u.day /\ t.hour = u.hour /\ t.minute = u.minute
    BY <1>1, <1>3, DigitsDiffer DEF Key
  <2> QED
    BY <1>1, <2>1
<1> QED
  BY <1>2, <1>3

\* There are finitely many dates, and one at least.
LEMMA DatesFinite == IsFiniteSet(Dates) /\ Cardinality(Dates) \in Nat \ {0}
<1>1. KeyLimit \in Int
  BY SMT DEF KeyLimit
<1>2. IsFiniteSet(Dates)
  <2>1. [t \in Dates |-> Key(t)] \in Injection(Dates, 0..KeyLimit)
    BY <1>1, KeyOfDate DEF Injection, IsInjective
  <2>2. IsFiniteSet(0..KeyLimit)
    BY <1>1, FS_Interval
  <2> QED
    BY <2>1, <2>2, FS_Injection
<1>3. [month |-> 1, day |-> 1, hour |-> 0, minute |-> 0] \in Dates
  <2>1. 1 \in UNION {1..LastDay[m] : m \in Months} /\ 1 <= LastDay[1]
    BY SmallFields
  <2> QED
    BY <2>1, SmallFields DEF Dates
<1> QED
  BY <1>2, <1>3, FS_CardinalityType, FS_EmptySet

\* The year is the dates in their order.
LEMMA YearIsSorted ==
  /\ Year \in Seq(Dates) /\ Len(Year) = Cardinality(Dates)
  /\ \A i, j \in 1..Len(Year) : i < j => Key(Year[i]) < Key(Year[j])
  /\ \A t \in Dates : \E i \in 1..Len(Year) : Year[i] = t
<1> DEFINE N == Cardinality(Dates)
           below(t) == {u \in Dates : Key(u) < Key(t)}
           rank == [t \in Dates |-> Cardinality(below(t))]
<1>1. \A t \in Dates : Key(t) \in Int
  BY KeyOfDate
<1>2. ASSUME NEW t \in Dates, NEW u \in Dates, Key(t) < Key(u)
      PROVE  rank[t] < rank[u]
  <2>1. below(t) \subseteq below(u) /\ t \in below(u) /\ t \notin below(t)
    BY <1>1, <1>2
  <2>2. IsFiniteSet(below(u)) /\ below(t) \in SUBSET below(u)
    BY <2>1, DatesFinite, FS_Subset
  <2> HIDE DEF below
  <2>3. IsFiniteSet(below(t)) /\ Cardinality(below(t)) <= Cardinality(below(u))
        /\ Cardinality(below(t)) # Cardinality(below(u))
    BY <2>1, <2>2, FS_Subset
  <2>4. Cardinality(below(t)) \in Nat /\ Cardinality(below(u)) \in Nat
    BY <2>2, <2>3, FS_CardinalityType
  <2> QED
    BY <2>3, <2>4
<1>3. \A t \in Dates : rank[t] \in 0..(N - 1)
  <2> SUFFICES ASSUME NEW t \in Dates PROVE Cardinality(below(t)) \in 0..(N - 1)
    OBVIOUS
  <2>1. below(t) \in SUBSET Dates /\ t \notin below(t)
    BY <1>1
  <2> HIDE DEF below
  <2>2. IsFiniteSet(below(t)) /\ Cardinality(below(t)) <= N /\ Cardinality(below(t)) # N
    BY <2>1, DatesFinite, FS_Subset
  <2> QED
    BY <2>2, DatesFinite, FS_CardinalityType
<1> HIDE DEF rank
<1>4. \A t, u \in Dates : rank[t] = rank[u] => t = u
  BY <1>1, <1>2, <1>3, KeyOfDate
<1>5. \A k \in 0..(N - 1) : \E t \in Dates : rank[t] = k
  <2>1. rank \in Injection(Dates, 0..(N - 1))
    <3>1. rank \in [Dates -> 0..(N - 1)]
      BY <1>3 DEF rank
    <3> QED
      BY <1>4, <3>1 DEF Injection, IsInjective
  <2>2. IsFiniteSet(0..(N - 1)) /\ Cardinality(0..(N - 1)) = N
    BY DatesFinite, FS_Interval
  <2>3. rank \in Surjection(Dates, 0..(N - 1))
    BY <2>1, <2>2, FS_Injection
  <2> QED
    BY <2>3 DEF Surjection
<1>6. \A i \in 1..N : Year[i] \in Dates /\ rank[Year[i]] = i - 1
  <2> SUFFICES ASSUME NEW i \in 1..N PROVE Year[i] \in Dates /\ rank[Year[i]] = i - 1
    OBVIOUS
  <2>1. \E t \in Dates : Cardinality(below(t)) = i - 1
    <3>1. i - 1 \in 0..(N - 1)
      BY DatesFinite
    <3>2. PICK t \in Dates : rank[t] = i - 1
      BY <1>5, <3>1
    <3> QED
      BY <3>2 DEF rank
  <2>2. Year[i] = CHOOSE t \in Dates : Cardinality(below(t)) = i - 1
    BY DEF Year
  <2> HIDE DEF below
  <2>3. Year[i] \in Dates /\ Cardinality(below(Year[i])) = i - 1
    BY <2>1, <2>2
  <2> QED
    BY <2>3 DEF rank
<1>7. Year \in Seq(Dates) /\ Len(Year) = N
  <2>1. DOMAIN Year = 1..N /\ Year = [i \in 1..N |-> Year[i]]
    BY DEF Year
  <2> QED
    BY <1>6, <2>1, DatesFinite
<1>8. ASSUME NEW i \in 1..N, NEW j \in 1..N, i < j
      PROVE  Key(Year[i]) < Key(Year[j])
  <2>1. Year[i] \in Dates /\ Year[j] \in Dates /\ rank[Year[i]] = i - 1 /\ rank[Year[j]] = j - 1
    BY <1>6
  <2>2. ~(rank[Year[j]] <= rank[Year[i]])
    BY <1>8, <2>1
  <2>3. Key(Year[i]) \in Int /\ Key(Year[j]) \in Int
    BY <1>1, <2>1
  <2>4. CASE Key(Year[j]) < Key(Year[i])
    BY <1>2, <2>1, <2>2, <2>4
  <2>5. CASE Key(Year[j]) = Key(Year[i])
    BY <2>1, <2>2, <2>5, KeyOfDate
  <2> QED
    BY <2>3, <2>4, <2>5
<1>9. \A t \in Dates : \E i \in 1..N : Year[i] = t
  <2> SUFFICES ASSUME NEW t \in Dates PROVE \E i \in 1..N : Year[i] = t
    OBVIOUS
  <2>1. rank[t] + 1 \in 1..N
    BY <1>3, DatesFinite
  <2>2. rank[Year[rank[t] + 1]] = rank[t]
    BY <1>3, <1>6, <2>1
  <2> QED
    BY <1>4, <1>6, <2>1, <2>2
<1> QED
  BY <1>7, <1>8, <1>9

\* Years and the minute of the year are those of the number.
LEMMA YearAndMinute ==
  ASSUME NEW L \in Nat, L > 0, NEW y \in Int, NEW r \in Int, 0 <= r, r < L
  PROVE  (y * L + r) \div L = y /\ (y * L + r) % L = r
<1> DEFINE n == y * L + r
           a == n \div L
           s == n % L
<1>0. n \in Int
  OBVIOUS
<1>1. s \in Int /\ 0 <= s /\ s < L /\ a \in Int /\ n = L * a + s
  BY <1>0
<1> HIDE DEF a, s
<1>2. L * (a - y) = r - s
  BY <1>1
<1>3. a - y = 0
  <2>1. CASE a - y >= 1
    <3>1. L * (a - y) >= L
      BY <1>1, <2>1
    <3> QED
      BY <1>1, <1>2, <3>1
  <2>2. CASE a - y <= -1
    <3>1. L * (a - y) <= -L
      BY <1>1, <2>2
    <3> QED
      BY <1>1, <1>2, <3>1
  <2> QED
    BY <1>1, <2>1, <2>2
<1>4. a = y /\ s = r
  BY <1>1, <1>2, <1>3
<1> QED
  BY <1>4 DEF a, s

\* The length of the year, and the minute of a number in it.
LEMMA YearLength == Len(Year) \in Nat \ {0}
BY DatesFinite, YearIsSorted

\* A minute has a year, and a place in that year.
LEMMA MinuteOfYear ==
  ASSUME NEW n \in Int
  PROVE  /\ n % Len(Year) \in Int /\ 0 <= n % Len(Year) /\ n % Len(Year) < Len(Year)
         /\ n \div Len(Year) \in Int /\ n = (n \div Len(Year)) * Len(Year) + (n % Len(Year))
         /\ (n % Len(Year)) + 1 \in 1..Len(Year)
<1> DEFINE L == Len(Year)
<1>1. L \in Nat /\ L > 0
  BY YearLength
<1> HIDE DEF L
<1>2. n % L \in Int /\ 0 <= n % L /\ n % L < L /\ n \div L \in Int /\ n = (n \div L) * L + (n % L)
  BY <1>1
<1>3. (n % L) + 1 \in 1..L
  BY <1>1, <1>2
<1> QED
  BY <1>2, <1>3 DEF L

\* A date of a year is a time, and only dates are.
LEMMA TimesAreDates ==
  /\ \A d \in Dates, y \in Int :
       /\ [month |-> d.month, day |-> d.day, hour |-> d.hour, minute |-> d.minute, year |-> y] \in Times
       /\ Key([month |-> d.month, day |-> d.day, hour |-> d.hour, minute |-> d.minute, year |-> y]) = Key(d)
  /\ \A t \in Times : \E d \in Dates :
       t = [month |-> d.month, day |-> d.day, hour |-> d.hour, minute |-> d.minute, year |-> t.year]
<1>1. ASSUME NEW d \in Dates
      PROVE  /\ d.month \in Months /\ d.hour \in Hours /\ d.minute \in Minutes
             /\ d.day \in Nat /\ d.day \in 1..LastDay[d.month]
  <2>1. /\ d \in [month : Months, day : UNION {1..LastDay[m] : m \in Months},
                       hour : Hours, minute : Minutes] /\ d.day <= LastDay[d.month]
    BY DEF Dates
  <2>2. PICK m \in Months : d.day \in 1..LastDay[m]
    BY <2>1
  <2> QED
    BY <2>1, <2>2, SmallFields
<1>2. ASSUME NEW t \in Times
      PROVE  [month |-> t.month, day |-> t.day, hour |-> t.hour, minute |-> t.minute] \in Dates
  <2>1. /\ t.month \in Months /\ t.hour \in Hours /\ t.minute \in Minutes
        /\ t.day \in 1..LastDay[t.month]
    BY DEF Times
  <2>2. t.day \in UNION {1..LastDay[m] : m \in Months} /\ t.day <= LastDay[t.month]
    BY <2>1, SmallFields
  <2> QED
    BY <2>1, <2>2 DEF Dates
<1>3. ASSUME NEW d \in Dates, NEW y \in Int
      PROVE  /\ [month |-> d.month, day |-> d.day, hour |-> d.hour, minute |-> d.minute, year |-> y] \in Times
             /\ Key([month |-> d.month, day |-> d.day, hour |-> d.hour, minute |-> d.minute, year |-> y]) = Key(d)
  BY <1>1 DEF Times, Key
<1>4. ASSUME NEW t \in Times
      PROVE  \E d \in Dates :
       t = [month |-> d.month, day |-> d.day, hour |-> d.hour, minute |-> d.minute, year |-> t.year]
  <2> DEFINE d == [month |-> t.month, day |-> t.day, hour |-> t.hour, minute |-> t.minute]
  <2>1. t = [month |-> d.month, day |-> d.day, hour |-> d.hour, minute |-> d.minute, year |-> t.year]
    BY DEF Times
  <2>2. d \in Dates
    BY <1>2
  <2> HIDE DEF d
  <2> QED
    BY <2>1, <2>2
<1> QED
  BY <1>3, <1>4

\* What DateOf says of a number.
LEMMA DateOfIs ==
  ASSUME NEW n \in Int
  PROVE  /\ DateOf(n) \in Times /\ DateOf(n).year = n \div Len(Year)
         /\ Key(DateOf(n)) = Key(Year[(n % Len(Year)) + 1])
         /\ Year[(n % Len(Year)) + 1] \in Dates
<1> DEFINE d == Year[(n % Len(Year)) + 1]
<1>1. d \in Dates
  <2>1. (n % Len(Year)) + 1 \in 1..Len(Year)
    BY MinuteOfYear
  <2> QED
    BY <2>1, YearIsSorted, ElementOfSeq
<1>2. n \div Len(Year) \in Int
  BY MinuteOfYear
<1>3. DateOf(n) = [month |-> d.month, day |-> d.day, hour |-> d.hour, minute |-> d.minute,
                   year |-> n \div Len(Year)]
  BY DEF DateOf
<1> HIDE DEF d
<1>4. DateOf(n) \in Times /\ DateOf(n).year = n \div Len(Year) /\ Key(DateOf(n)) = Key(d)
  BY <1>1, <1>2, <1>3, TimesAreDates
<1> QED
  BY <1>1, <1>4 DEF d

\* Dates are in the order of their numbers.
LEMMA LaterIsGreater ==
  ASSUME NEW m \in Int, NEW n \in Int, m < n
  PROVE  Stamp(DateOf(m)) < Stamp(DateOf(n))
<1> DEFINE L == Len(Year)
<1>1. L \in Nat \ {0}
  BY YearLength
<1>2. /\ m % L \in Int /\ 0 <= m % L /\ m % L < L /\ m \div L \in Int /\ m = (m \div L) * L + (m % L)
      /\ n % L \in Int /\ 0 <= n % L /\ n % L < L /\ n \div L \in Int /\ n = (n \div L) * L + (n % L)
      /\ (m % L) + 1 \in 1..L /\ (n % L) + 1 \in 1..L
  BY MinuteOfYear
<1> DEFINE p == Key(Year[(m % L) + 1])
           q == Key(Year[(n % L) + 1])
<1>3. /\ Stamp(DateOf(m)) = (m \div L) * KeyLimit + p
      /\ Stamp(DateOf(n)) = (n \div L) * KeyLimit + q
  BY DateOfIs DEF Stamp
<1>4. /\ p \in Int /\ 0 <= p /\ p < KeyLimit
      /\ q \in Int /\ 0 <= q /\ q < KeyLimit
  BY DateOfIs, KeyOfDate
<1>5. m % L < n % L => p < q
  BY <1>2, YearIsSorted
<1>6. KeyLimit \in Nat
  BY SMT DEF KeyLimit
<1> DEFINE a == m \div L
           b == n \div L
<1>7. a \in Int /\ b \in Int /\ (a < b \/ (a = b /\ p < q))
  <2>1. CASE a > b
    <3> DEFINE r == m % L
               s == n % L
    <3>2. n = b * L + s /\ m = a * L + r /\ r \in Int /\ s \in Int /\ 0 <= r /\ s < L
      BY <1>2
    <3>3. a \in Int /\ b \in Int
      BY <1>2
    <3> HIDE DEF a, b, L, r, s
    <3>1. a * L - b * L >= L
      <4>1. (a - b) * L >= L
        BY <1>1, <2>1, <3>3
      <4> QED
        BY <1>1, <3>3, <4>1
    <3>4. a * L \in Int /\ b * L \in Int
      BY <1>1, <3>3
    <3> QED
      BY <1>1, <3>1, <3>2, <3>4
  <2>2. CASE a = b
    <3>1. m % L < n % L
      BY <1>2, <2>2
    <3> QED
      BY <1>2, <1>5, <2>2, <3>1
  <2> QED
    BY <1>2, <2>1, <2>2
<1> HIDE DEF a, b, p, q, L
<1>8. CASE a < b
  <2>1. (b - a) * KeyLimit >= KeyLimit
    BY <1>6, <1>7, <1>8
  <2>2. b * KeyLimit - a * KeyLimit >= KeyLimit
    BY <1>6, <1>7, <2>1
  <2>3. a * KeyLimit \in Int /\ b * KeyLimit \in Int
    BY <1>6, <1>7
  <2>4. a * KeyLimit + p < b * KeyLimit + q
    BY <1>4, <1>6, <2>2, <2>3
  <2> QED
    BY <1>3, <2>4 DEF a, b
<1>9. CASE a = b /\ p < q
  <2>1. a * KeyLimit \in Int
    BY <1>6, <1>7
  <2>2. a * KeyLimit + p < b * KeyLimit + q
    BY <1>4, <1>9, <2>1
  <2> QED
    BY <1>3, <2>2 DEF a, b
<1> QED
  BY <1>7, <1>8, <1>9

\* A time is known by its stamp.
LEMMA StampOfTime ==
  /\ \A t \in Times : Stamp(t) \in Int
  /\ \A t, u \in Times : Stamp(t) = Stamp(u) => t = u
<1>0. KeyLimit \in Nat /\ KeyLimit > 0
  BY SMT DEF KeyLimit
<1>1. ASSUME NEW t \in Times
      PROVE  t.year \in Int /\ Key(t) \in Int /\ 0 <= Key(t) /\ Key(t) < KeyLimit
  <2>1. PICK d \in Dates :
       t = [month |-> d.month, day |-> d.day, hour |-> d.hour, minute |-> d.minute, year |-> t.year]
    BY TimesAreDates
  <2>2. t.year \in Int
    BY DEF Times
  <2>3. Key(t) = Key(d)
    BY <2>1, <2>2, TimesAreDates
  <2> QED
    BY <2>2, <2>3, KeyOfDate
<1>2. \A t \in Times : Stamp(t) \in Int
  BY <1>0, <1>1 DEF Stamp
<1>3. ASSUME NEW t \in Times, NEW u \in Times, Stamp(t) = Stamp(u)
      PROVE  t = u
  <2>1. PICK d \in Dates :
       t = [month |-> d.month, day |-> d.day, hour |-> d.hour, minute |-> d.minute, year |-> t.year]
    BY TimesAreDates
  <2>2. PICK e \in Dates :
       u = [month |-> e.month, day |-> e.day, hour |-> e.hour, minute |-> e.minute, year |-> u.year]
    BY TimesAreDates
  <2>3. /\ t.year \in Int /\ Key(t) \in Int /\ 0 <= Key(t) /\ Key(t) < KeyLimit
        /\ u.year \in Int /\ Key(u) \in Int /\ 0 <= Key(u) /\ Key(u) < KeyLimit
    BY <1>1
  <2>4. t.year * KeyLimit + Key(t) = u.year * KeyLimit + Key(u)
    BY <1>3 DEF Stamp
  <2>5. t.year = u.year /\ Key(t) = Key(u)
    <3> DEFINE a == t.year
               b == u.year
               p == Key(t)
               q == Key(u)
    <3>1. (a * KeyLimit + p) \div KeyLimit = a /\ (a * KeyLimit + p) % KeyLimit = p
      BY <1>0, <2>3, YearAndMinute
    <3>2. (b * KeyLimit + q) \div KeyLimit = b /\ (b * KeyLimit + q) % KeyLimit = q
      BY <1>0, <2>3, YearAndMinute
    <3>3. a * KeyLimit + p = b * KeyLimit + q
      BY <2>4
    <3> HIDE DEF a, b, p, q
    <3>4. a = b /\ p = q
      BY <3>1, <3>2, <3>3
    <3> QED
      BY <3>4 DEF a, b, p, q
  <2>6. Key(t) = Key(d) /\ Key(u) = Key(e)
    BY <2>1, <2>2, <2>3, TimesAreDates
  <2>7. d = e
    BY <2>5, <2>6, KeyOfDate
  <2> QED
    BY <2>1, <2>2, <2>5, <2>7
<1> QED
  BY <1>2, <1>3

\* NumberOf is the inverse of DateOf.
LEMMA DateOfNumber ==
  ASSUME NEW t \in Times
  PROVE  NumberOf(t) \in Int /\ DateOf(NumberOf(t)) = t
<1> DEFINE L == Len(Year)
           j == CHOOSE i \in DOMAIN Year : Key(Year[i]) = Key(t)
<1>1. PICK d \in Dates :
       t = [month |-> d.month, day |-> d.day, hour |-> d.hour, minute |-> d.minute, year |-> t.year]
  BY TimesAreDates
<1>2. t.year \in Int
  BY DEF Times
<1>3. Key(t) = Key(d)
  BY <1>1, <1>2, TimesAreDates
<1>4. L \in Nat /\ L > 0 /\ DOMAIN Year = 1..L
  BY YearLength, YearIsSorted
<1>5. \E i \in DOMAIN Year : Key(Year[i]) = Key(t)
  BY <1>3, <1>4, YearIsSorted
<1>6. j \in 1..L /\ Key(Year[j]) = Key(t)
  BY <1>4, <1>5
<1>7. NumberOf(t) = t.year * L - 1 + j
  BY DEF NumberOf
<1> HIDE DEF j
<1>8. Year[j] = d
  <2>1. Year[j] \in Dates
    BY <1>6, YearIsSorted, ElementOfSeq
  <2> QED
    BY <1>3, <1>6, <2>1, KeyOfDate
<1>9. NumberOf(t) \in Int /\ NumberOf(t) \div L = t.year /\ (NumberOf(t) % L) + 1 = j
  <2> DEFINE y == t.year
             r == j - 1
  <2>1. y \in Int /\ r \in Int /\ 0 <= r /\ r < L /\ j \in Int
    BY <1>2, <1>4, <1>6
  <2>2. (y * L + r) \div L = y /\ (y * L + r) % L = r
    BY <1>4, <2>1, YearAndMinute
  <2>3. y * L \in Int
    BY <1>4, <2>1
  <2>4. NumberOf(t) = y * L + r
    BY <1>7, <2>1, <2>3
  <2> HIDE DEF y, L
  <2>5. NumberOf(t) \in Int /\ NumberOf(t) \div L = y /\ NumberOf(t) % L = r
    BY <2>1, <2>2, <2>3, <2>4
  <2>6. r + 1 = j
    BY <2>1
  <2> QED
    BY <2>5, <2>6 DEF y
<1>10. DateOf(NumberOf(t)) = [month |-> d.month, day |-> d.day, hour |-> d.hour,
                              minute |-> d.minute, year |-> t.year]
  BY <1>8, <1>9 DEF DateOf
<1> QED
  BY <1>1, <1>9, <1>10

\* DateOf is the inverse of NumberOf.
LEMMA NumberOfDate ==
  ASSUME NEW n \in Int
  PROVE  NumberOf(DateOf(n)) = n
<1> DEFINE m == NumberOf(DateOf(n))
<1>1. DateOf(n) \in Times
  BY DateOfIs
<1>2. m \in Int /\ DateOf(m) = DateOf(n) /\ Stamp(DateOf(n)) \in Int
  BY <1>1, DateOfNumber, StampOfTime
<1> HIDE DEF m
<1>3. ~(m < n)
  BY <1>2, LaterIsGreater
<1>4. ~(n < m)
  BY <1>2, LaterIsGreater
<1>5. m = n
  BY <1>2, <1>3, <1>4
<1> QED
  BY <1>5 DEF m

\* The order of the numbers is that of the dates.
LEMMA NumbersAreOrdered ==
  ASSUME NEW m \in Int, NEW n \in Int
  PROVE  /\ m < n <=> Stamp(DateOf(m)) < Stamp(DateOf(n))
         /\ m <= n <=> Stamp(DateOf(m)) <= Stamp(DateOf(n))
<1>1. Stamp(DateOf(m)) \in Int /\ Stamp(DateOf(n)) \in Int
  BY DateOfIs, StampOfTime
<1>2. m < n => Stamp(DateOf(m)) < Stamp(DateOf(n))
  BY LaterIsGreater
<1>3. n < m => Stamp(DateOf(n)) < Stamp(DateOf(m))
  BY LaterIsGreater
<1>4. n = m => Stamp(DateOf(n)) = Stamp(DateOf(m))
  OBVIOUS
<1> QED
  BY <1>1, <1>2, <1>3, <1>4

\* The order of times, field by field.
Before(t, u) ==
  \/ t.year < u.year
  \/ t.year = u.year /\ t.month < u.month
  \/ t.year = u.year /\ t.month = u.month /\ t.day < u.day
  \/ t.year = u.year /\ t.month = u.month /\ t.day = u.day /\ t.hour < u.hour
  \/ t.year = u.year /\ t.month = u.month /\ t.day = u.day /\ t.hour = u.hour /\ t.minute < u.minute

\* The fields of a time.
LEMMA FieldsOf ==
  ASSUME NEW t \in Times
  PROVE  /\ t.month \in Months /\ t.hour \in Hours /\ t.minute \in Minutes
         /\ t.day \in 1..LastDay[t.month] /\ t.year \in Int
         /\ TwoDigits(t.month) /\ TwoDigits(t.day) /\ TwoDigits(t.hour) /\ TwoDigits(t.minute)
         /\ t = [month |-> t.month, day |-> t.day, hour |-> t.hour, minute |-> t.minute, year |-> t.year]
<1>1. /\ t.month \in Months /\ t.hour \in Hours /\ t.minute \in Minutes
      /\ t.day \in 1..LastDay[t.month] /\ t.year \in Int
      /\ t = [month |-> t.month, day |-> t.day, hour |-> t.hour, minute |-> t.minute, year |-> t.year]
  BY DEF Times
<1>2. TwoDigits(t.day)
  BY <1>1, SmallFields DEF TwoDigits
<1> QED
  BY <1>1, <1>2, SmallFields

\* The order of numbers of four digits, and of a number and what is added to it.
LEMMA DigitsOrder ==  ASSUME NEW a, NEW b, NEW c, NEW d, TwoDigits(a), TwoDigits(b), TwoDigits(c), TwoDigits(d),
         NEW p, NEW q, NEW r, NEW s, TwoDigits(p), TwoDigits(q), TwoDigits(r), TwoDigits(s)
  PROVE  ((a * 100 + b) * 100 + c) * 100 + d < ((p * 100 + q) * 100 + r) * 100 + s
    <=> a < p \/ (a = p /\ b < q) \/ (a = p /\ b = q /\ c < r) \/ (a = p /\ b = q /\ c = r /\ d < s)
BY SMT DEF TwoDigits

\* The order of numbers of a quotient and a remainder.
LEMMA SumsOrder == ASSUME NEW K \in Nat, NEW y \in Int, NEW z \in Int, NEW k \in Int, NEW l \in Int,
   0 <= k, k < K, 0 <= l, l < K
   PROVE y * K + k < z * K + l <=> y < z \/ (y = z /\ k < l)
<1> DEFINE A == y * K
           B == z * K
<1>0. A \in Int /\ B \in Int
  OBVIOUS
<1>1. CASE y < z
  <2>1. (z - y) * K >= K
    BY <1>1
  <2>2. B - A >= K
    BY <2>1
  <2> HIDE DEF A, B
  <2>3. A + k < B + l
    BY <1>0, <2>2
  <2> QED
    BY <1>1, <2>3 DEF A, B
<1>2. CASE z < y
  <2>1. (y - z) * K >= K
    BY <1>2
  <2>2. A - B >= K
    BY <2>1
  <2> HIDE DEF A, B
  <2>3. ~(A + k < B + l)
    BY <1>0, <2>2
  <2> QED
    BY <1>2, <2>3 DEF A, B
<1>3. CASE y = z
  <2> A = B
    BY <1>3
  <2> HIDE DEF A, B
  <2>3. A + k < B + l <=> k < l
    BY <1>0
  <2> QED
    BY <1>3, <2>3 DEF A, B
<1> QED
  BY <1>1, <1>2, <1>3

\* The order of the stamps is that of the fields.
LEMMA StampOrder ==
  ASSUME NEW t \in Times, NEW u \in Times
  PROVE  Stamp(t) < Stamp(u) <=> Before(t, u)
<1>1. /\ TwoDigits(t.month) /\ TwoDigits(t.day) /\ TwoDigits(t.hour) /\ TwoDigits(t.minute)
      /\ TwoDigits(u.month) /\ TwoDigits(u.day) /\ TwoDigits(u.hour) /\ TwoDigits(u.minute)
      /\ t.year \in Int /\ u.year \in Int
  BY FieldsOf
<1>2. Key(t) < Key(u) <=>
        \/ t.month < u.month
        \/ t.month = u.month /\ t.day < u.day
        \/ t.month = u.month /\ t.day = u.day /\ t.hour < u.hour
        \/ t.month = u.month /\ t.day = u.day /\ t.hour = u.hour /\ t.minute < u.minute
  BY <1>1, DigitsOrder DEF Key
<1>3. /\ Key(t) \in Int /\ 0 <= Key(t) /\ Key(t) < KeyLimit
      /\ Key(u) \in Int /\ 0 <= Key(u) /\ Key(u) < KeyLimit
  BY <1>1, FourDigits DEF Key
<1>4. KeyLimit \in Nat
  BY SMT DEF KeyLimit
<1>5. Stamp(t) < Stamp(u) <=> t.year < u.year \/ (t.year = u.year /\ Key(t) < Key(u))
  BY <1>1, <1>3, <1>4, SumsOrder DEF Stamp
<1> QED
  BY <1>2, <1>5 DEF Before

\* The first minute of the next month, day, hour, and the next minute.
NextMonth(t) ==
  IF t.month < Len(LastDay)
  THEN [month |-> t.month + 1, day |-> 1, hour |-> 0, minute |-> 0, year |-> t.year]
  ELSE [month |-> 1, day |-> 1, hour |-> 0, minute |-> 0, year |-> t.year + 1]
NextDay(t) ==
  IF t.day < LastDay[t.month]
  THEN [month |-> t.month, day |-> t.day + 1, hour |-> 0, minute |-> 0, year |-> t.year]
  ELSE NextMonth(t)
NextHour(t) ==
  IF t.hour + 1 < HoursPerDay
  THEN [month |-> t.month, day |-> t.day, hour |-> t.hour + 1, minute |-> 0, year |-> t.year]
  ELSE NextDay(t)
NextMinute(t) ==
  IF t.minute + 1 < MinutesPerHour
  THEN [month |-> t.month, day |-> t.day, hour |-> t.hour, minute |-> t.minute + 1, year |-> t.year]
  ELSE NextHour(t)

\* There are months, days, hours and minutes.
LEMMA CalendarFields ==
  /\ Len(LastDay) \in Nat /\ Len(LastDay) > 0
  /\ HoursPerDay \in Nat /\ HoursPerDay > 0 /\ MinutesPerHour \in Nat /\ MinutesPerHour > 0
  /\ \A m \in 1..Len(LastDay) : LastDay[m] \in Nat /\ LastDay[m] > 0
BY SmallFields, MonthsAre, CalendarAssumption

\* A record of fields that fit together is a time.
LEMMA IsTime ==
  ASSUME NEW m \in Int, NEW d \in Int, NEW h \in Int, NEW k \in Int, NEW y \in Int,
         1 <= m, m <= Len(LastDay), 1 <= d, d <= LastDay[m],
         0 <= h, h < HoursPerDay, 0 <= k, k < MinutesPerHour
  PROVE  [month |-> m, day |-> d, hour |-> h, minute |-> k, year |-> y] \in Times
<1>1. m \in Months /\ h \in Hours /\ k \in Minutes
  BY MonthsAre, CalendarFields DEF Hours, Minutes
<1>2. d \in Nat /\ d \in 1..LastDay[m]
  BY <1>1, SmallFields
<1> QED
  BY <1>1, <1>2 DEF Times

\* The bounds of the fields of a time.
LEMMA Fits ==
  ASSUME NEW t \in Times
  PROVE  /\ t.month \in Int /\ t.day \in Int /\ t.hour \in Int /\ t.minute \in Int /\ t.year \in Int
         /\ 1 <= t.month /\ t.month <= Len(LastDay) /\ 1 <= t.day /\ t.day <= LastDay[t.month]
         /\ 0 <= t.hour /\ t.hour < HoursPerDay /\ 0 <= t.minute /\ t.minute < MinutesPerHour
<1>1. /\ t.month \in Months /\ t.hour \in Hours /\ t.minute \in Minutes
      /\ t.day \in 1..LastDay[t.month] /\ t.year \in Int
  BY FieldsOf
<1>2. LastDay[t.month] \in Nat
  BY <1>1, SmallFields
<1> QED
  BY <1>1, <1>2, MonthsAre, CalendarFields DEF Hours, Minutes

\* The next month begins later, and all minutes before it are of this month.
LEMMA NextMonthIs ==
  ASSUME NEW t \in Times
  PROVE  /\ NextMonth(t) \in Times /\ Before(t, NextMonth(t))
         /\ \A v \in Times : Before(t, v) /\ Before(v, NextMonth(t))
               => v.year = t.year /\ v.month = t.month
<1>1. NextMonth(t) \in Times
  <2>1. CASE t.month < Len(LastDay)
    <3>1. /\ t.month + 1 \in Int /\ 1 <= t.month + 1 /\ t.month + 1 <= Len(LastDay)
          /\ t.year \in Int /\ 0 < HoursPerDay /\ 0 < MinutesPerHour
      BY <2>1, Fits, CalendarFields
    <3>2. 1 <= LastDay[t.month + 1]
      BY <3>1, CalendarFields
    <3>3. [month |-> t.month + 1, day |-> 1, hour |-> 0, minute |-> 0, year |-> t.year] \in Times
      BY <3>1, <3>2, IsTime
    <3> QED
      BY <2>1, <3>3 DEF NextMonth
  <2>2. CASE ~(t.month < Len(LastDay))
    <3>1. t.year + 1 \in Int /\ 1 <= Len(LastDay) /\ 0 < HoursPerDay /\ 0 < MinutesPerHour
      BY <2>2, Fits, CalendarFields
    <3>2. 1 <= LastDay[1]
      BY <3>1, CalendarFields
    <3>3. [month |-> 1, day |-> 1, hour |-> 0, minute |-> 0, year |-> t.year + 1] \in Times
      BY <3>1, <3>2, IsTime
    <3> QED
      BY <2>2, <3>3 DEF NextMonth
  <2> QED
    BY <2>1, <2>2
<1>2. Before(t, NextMonth(t))
  BY Fits DEF NextMonth, Before
<1>3. ASSUME NEW v \in Times, Before(t, v), Before(v, NextMonth(t))
      PROVE  v.year = t.year /\ v.month = t.month
  BY <1>3, Fits DEF NextMonth, Before
<1> QED
  BY <1>1, <1>2, <1>3

\* The next day begins later, and all minutes before it are of this day.
LEMMA NextDayIs ==
  ASSUME NEW t \in Times
  PROVE  /\ NextDay(t) \in Times /\ Before(t, NextDay(t))
         /\ \A v \in Times : Before(t, v) /\ Before(v, NextDay(t))
               => v.year = t.year /\ v.month = t.month /\ v.day = t.day
<1>1. CASE t.day < LastDay[t.month]
  <2>1. NextDay(t) = [month |-> t.month, day |-> t.day + 1, hour |-> 0, minute |-> 0, year |-> t.year]
    BY <1>1 DEF NextDay
  <2>2. NextDay(t) \in Times
    <3>1. t.day + 1 \in Int /\ 1 <= t.day + 1 /\ t.day + 1 <= LastDay[t.month] /\ 0 < HoursPerDay /\ 0 < MinutesPerHour
      BY <1>1, Fits, CalendarFields
    <3>2. /\ t.month \in Int /\ t.day \in Int /\ t.hour \in Int /\ t.minute \in Int /\ t.year \in Int
          /\ 1 <= t.month /\ t.month <= Len(LastDay) /\ 1 <= t.day /\ t.day <= LastDay[t.month]
          /\ 0 <= t.hour /\ t.hour < HoursPerDay /\ 0 <= t.minute /\ t.minute < MinutesPerHour
      BY Fits
    <3>3. [month |-> t.month, day |-> t.day + 1, hour |-> 0, minute |-> 0, year |-> t.year] \in Times
      BY <3>1, <3>2, IsTime
    <3> QED
      BY <2>1, <3>3
  <2>3. Before(t, NextDay(t))
    BY <2>1, Fits DEF Before
  <2>4. ASSUME NEW v \in Times, Before(t, v), Before(v, NextDay(t))
        PROVE  v.year = t.year /\ v.month = t.month /\ v.day = t.day
    BY <2>1, <2>4, Fits DEF Before
  <2> QED
    BY <2>2, <2>3, <2>4
<1>2. CASE ~(t.day < LastDay[t.month])
  <2>1. NextDay(t) = NextMonth(t)
    BY <1>2 DEF NextDay
  <2>2. NextDay(t) \in Times /\ Before(t, NextDay(t))
    BY <2>1, NextMonthIs
  <2>4. ASSUME NEW v \in Times, Before(t, v), Before(v, NextDay(t))
        PROVE  v.year = t.year /\ v.month = t.month /\ v.day = t.day
    <3>1. v.year = t.year /\ v.month = t.month
      BY <2>1, <2>4, NextMonthIs
    <3>2. v.day <= LastDay[v.month] /\ t.day = LastDay[t.month]
      BY <1>2, Fits, CalendarFields
    <3> QED
      BY <2>4, <3>1, <3>2, Fits DEF Before
  <2> QED
    BY <2>2, <2>4
<1> QED
  BY <1>1, <1>2

\* The next hour begins later, and all minutes before it are of this hour.
LEMMA NextHourIs ==
  ASSUME NEW t \in Times
  PROVE  /\ NextHour(t) \in Times /\ Before(t, NextHour(t))
         /\ \A v \in Times : Before(t, v) /\ Before(v, NextHour(t))
               => v.year = t.year /\ v.month = t.month /\ v.day = t.day /\ v.hour = t.hour
<1>1. CASE t.hour + 1 < HoursPerDay
  <2>1. NextHour(t) = [month |-> t.month, day |-> t.day, hour |-> t.hour + 1, minute |-> 0, year |-> t.year]
    BY <1>1 DEF NextHour
  <2>2. NextHour(t) \in Times
    <3>1. t.hour + 1 \in Int /\ 0 <= t.hour + 1 /\ t.hour + 1 < HoursPerDay /\ 0 < MinutesPerHour
      BY <1>1, Fits, CalendarFields
    <3>2. /\ t.month \in Int /\ t.day \in Int /\ t.hour \in Int /\ t.minute \in Int /\ t.year \in Int
          /\ 1 <= t.month /\ t.month <= Len(LastDay) /\ 1 <= t.day /\ t.day <= LastDay[t.month]
          /\ 0 <= t.hour /\ t.hour < HoursPerDay /\ 0 <= t.minute /\ t.minute < MinutesPerHour
      BY Fits
    <3>3. [month |-> t.month, day |-> t.day, hour |-> t.hour + 1, minute |-> 0, year |-> t.year] \in Times
      BY <3>1, <3>2, IsTime
    <3> QED
      BY <2>1, <3>3
  <2>3. Before(t, NextHour(t))
    BY <2>1, Fits DEF Before
  <2>4. ASSUME NEW v \in Times, Before(t, v), Before(v, NextHour(t))
        PROVE  v.year = t.year /\ v.month = t.month /\ v.day = t.day /\ v.hour = t.hour
    BY <2>1, <2>4, Fits DEF Before
  <2> QED
    BY <2>2, <2>3, <2>4
<1>2. CASE ~(t.hour + 1 < HoursPerDay)
  <2>1. NextHour(t) = NextDay(t)
    BY <1>2 DEF NextHour
  <2>2. NextHour(t) \in Times /\ Before(t, NextHour(t))
    BY <2>1, NextDayIs
  <2>4. ASSUME NEW v \in Times, Before(t, v), Before(v, NextHour(t))
        PROVE  v.year = t.year /\ v.month = t.month /\ v.day = t.day /\ v.hour = t.hour
    <3>1. v.year = t.year /\ v.month = t.month /\ v.day = t.day
      BY <2>1, <2>4, NextDayIs
    <3>2. v.hour <= HoursPerDay - 1 /\ t.hour = HoursPerDay - 1
      BY <1>2, Fits, CalendarFields
    <3> QED
      BY <2>4, <3>1, <3>2, Fits DEF Before
  <2> QED
    BY <2>2, <2>4
<1> QED
  BY <1>1, <1>2

\* No minute lies before the next one.
LEMMA NextMinuteIs ==
  ASSUME NEW t \in Times
  PROVE  /\ NextMinute(t) \in Times /\ Before(t, NextMinute(t))
         /\ \A v \in Times : ~(Before(t, v) /\ Before(v, NextMinute(t)))
<1>1. CASE t.minute + 1 < MinutesPerHour
  <2>1. NextMinute(t) = [month |-> t.month, day |-> t.day, hour |-> t.hour, minute |-> t.minute + 1, year |-> t.year]
    BY <1>1 DEF NextMinute
  <2>2. NextMinute(t) \in Times
    <3>1. t.minute + 1 \in Int /\ 0 <= t.minute + 1 /\ t.minute + 1 < MinutesPerHour
      BY <1>1, Fits, CalendarFields
    <3>2. /\ t.month \in Int /\ t.day \in Int /\ t.hour \in Int /\ t.minute \in Int /\ t.year \in Int
          /\ 1 <= t.month /\ t.month <= Len(LastDay) /\ 1 <= t.day /\ t.day <= LastDay[t.month]
          /\ 0 <= t.hour /\ t.hour < HoursPerDay /\ 0 <= t.minute /\ t.minute < MinutesPerHour
      BY Fits
    <3>3. [month |-> t.month, day |-> t.day, hour |-> t.hour, minute |-> t.minute + 1, year |-> t.year] \in Times
      BY <3>1, <3>2, IsTime
    <3> QED
      BY <2>1, <3>3
  <2>3. Before(t, NextMinute(t))
    BY <2>1, Fits DEF Before
  <2>4. ASSUME NEW v \in Times, Before(t, v), Before(v, NextMinute(t))
        PROVE  FALSE
    BY <2>1, <2>4, Fits DEF Before
  <2> QED
    BY <2>2, <2>3, <2>4
<1>2. CASE ~(t.minute + 1 < MinutesPerHour)
  <2>1. NextMinute(t) = NextHour(t)
    BY <1>2 DEF NextMinute
  <2>2. NextMinute(t) \in Times /\ Before(t, NextMinute(t))
    BY <2>1, NextHourIs
  <2>4. ASSUME NEW v \in Times, Before(t, v), Before(v, NextMinute(t))
        PROVE  FALSE
    <3>1. v.year = t.year /\ v.month = t.month /\ v.day = t.day /\ v.hour = t.hour
      BY <2>1, <2>4, NextHourIs
    <3>2. v.minute <= MinutesPerHour - 1 /\ t.minute = MinutesPerHour - 1
      BY <1>2, Fits, CalendarFields
    <3> QED
      BY <2>4, <3>1, <3>2, Fits DEF Before
  <2> QED
    BY <2>2, <2>4
<1> QED
  BY <1>1, <1>2

\* The records the search works on.
Stamped == [month : Int, day : Int, hour : Int, minute : Int, year : Int]

\* A record is made of its fields.
LEMMA StampedRecord ==
  ASSUME NEW r \in Stamped
  PROVE  /\ r = [month |-> r.month, day |-> r.day, hour |-> r.hour, minute |-> r.minute, year |-> r.year]
         /\ r.month \in Int /\ r.day \in Int /\ r.hour \in Int /\ r.minute \in Int /\ r.year \in Int
BY DEF Stamped

\* Records of the same fields are the same.
LEMMA SameRecord ==
  ASSUME NEW r \in Stamped, NEW s \in Stamped,
         r.month = s.month, r.day = s.day, r.hour = s.hour, r.minute = s.minute, r.year = s.year
  PROVE  r = s
BY StampedRecord

\* A record stays one when its fields change.
LEMMA MonthTurned ==
  ASSUME NEW r \in Stamped, NEW s, s = [r EXCEPT !.month = @ + 1, !.day = 1, !.hour = 0, !.minute = 0]
  PROVE  s \in Stamped /\ s.month = r.month + 1 /\ s.day = 1 /\ s.hour = 0 /\ s.minute = 0 /\ s.year = r.year
<1>1. s.month = r.month + 1 /\ s.day = 1 /\ s.hour = 0 /\ s.minute = 0 /\ s.year = r.year
  BY DEF Stamped
<1>2. s \in Stamped
  <2> DEFINE a == [r EXCEPT !.month = @ + 1]
             b == [a EXCEPT !.day = 1]
             c == [b EXCEPT !.hour = 0]
             d == [c EXCEPT !.minute = 0]
  <2>1. a \in Stamped
    BY DEF Stamped
  <2> HIDE DEF a
  <2>2. b \in Stamped
    BY <2>1 DEF Stamped
  <2> HIDE DEF b
  <2>3. c \in Stamped
    BY <2>2 DEF Stamped
  <2> HIDE DEF c
  <2>4. d \in Stamped
    BY <2>3 DEF Stamped
  <2> QED
    BY <2>4, Zenon DEF a, b, c, d
<1> QED
  BY <1>1, <1>2

\* The day counted up.
LEMMA DayTurned ==
  ASSUME NEW r \in Stamped, NEW s, s = [r EXCEPT !.day = @ + 1, !.hour = 0, !.minute = 0]
  PROVE  s \in Stamped /\ s.month = r.month /\ s.day = r.day + 1 /\ s.hour = 0 /\ s.minute = 0 /\ s.year = r.year
<1>1. s.month = r.month /\ s.day = r.day + 1 /\ s.hour = 0 /\ s.minute = 0 /\ s.year = r.year
  BY DEF Stamped
<1>2. s \in Stamped
  <2> DEFINE a == [r EXCEPT !.day = @ + 1]
             b == [a EXCEPT !.hour = 0]
             c == [b EXCEPT !.minute = 0]
  <2>1. a \in Stamped
    BY DEF Stamped
  <2> HIDE DEF a
  <2>2. b \in Stamped
    BY <2>1 DEF Stamped
  <2> HIDE DEF b
  <2>3. c \in Stamped
    BY <2>2 DEF Stamped
  <2> QED
    BY <2>3, Zenon DEF a, b, c
<1> QED
  BY <1>1, <1>2

\* The hour counted up.
LEMMA HourTurned ==
  ASSUME NEW r \in Stamped, NEW s, s = [r EXCEPT !.hour = @ + 1, !.minute = 0]
  PROVE  s \in Stamped /\ s.month = r.month /\ s.day = r.day /\ s.hour = r.hour + 1 /\ s.minute = 0 /\ s.year = r.year
<1>1. s.month = r.month /\ s.day = r.day /\ s.hour = r.hour + 1 /\ s.minute = 0 /\ s.year = r.year
  BY DEF Stamped
<1>2. s \in Stamped
  <2> DEFINE a == [r EXCEPT !.hour = @ + 1]
             b == [a EXCEPT !.minute = 0]
  <2>1. a \in Stamped
    BY DEF Stamped
  <2> HIDE DEF a
  <2>2. b \in Stamped
    BY <2>1 DEF Stamped
  <2> QED
    BY <2>2, Zenon DEF a, b
<1> QED
  BY <1>1, <1>2

\* The minute counted up.
LEMMA MinuteTurned ==
  ASSUME NEW r \in Stamped, NEW s, s = [r EXCEPT !.minute = @ + 1]
  PROVE  s \in Stamped /\ s.month = r.month /\ s.day = r.day /\ s.hour = r.hour /\ s.minute = r.minute + 1 /\ s.year = r.year
<1>1. s.month = r.month /\ s.day = r.day /\ s.hour = r.hour /\ s.minute = r.minute + 1 /\ s.year = r.year
  BY DEF Stamped
<1>2. s \in Stamped
  <2> DEFINE a == [r EXCEPT !.minute = @ + 1]
  <2>1. a \in Stamped
    BY DEF Stamped
  <2> QED
    BY <2>1, Zenon DEF a
<1> QED
  BY <1>1, <1>2

\* An hour too many carried into the day.
LEMMA DayCarried ==
  ASSUME NEW r \in Stamped, NEW s, s = [r EXCEPT !.hour = 0, !.day = @ + 1]
  PROVE  s \in Stamped /\ s.month = r.month /\ s.day = r.day + 1 /\ s.hour = 0 /\ s.minute = r.minute /\ s.year = r.year
<1>1. s.month = r.month /\ s.day = r.day + 1 /\ s.hour = 0 /\ s.minute = r.minute /\ s.year = r.year
  BY DEF Stamped
<1>2. s \in Stamped
  <2> DEFINE a == [r EXCEPT !.hour = 0]
             b == [a EXCEPT !.day = @ + 1]
  <2>1. a \in Stamped
    BY DEF Stamped
  <2> HIDE DEF a
  <2>2. b \in Stamped
    BY <2>1 DEF Stamped
  <2> QED
    BY <2>2, Zenon DEF a, b
<1> QED
  BY <1>1, <1>2

\* A minute too many carried into the hour.
LEMMA HourCarried ==
  ASSUME NEW r \in Stamped, NEW s, s = [r EXCEPT !.minute = 0, !.hour = @ + 1]
  PROVE  s \in Stamped /\ s.month = r.month /\ s.day = r.day /\ s.hour = r.hour + 1 /\ s.minute = 0 /\ s.year = r.year
<1>1. s.month = r.month /\ s.day = r.day /\ s.hour = r.hour + 1 /\ s.minute = 0 /\ s.year = r.year
  BY DEF Stamped
<1>2. s \in Stamped
  <2> DEFINE a == [r EXCEPT !.minute = 0]
             b == [a EXCEPT !.hour = @ + 1]
  <2>1. a \in Stamped
    BY DEF Stamped
  <2> HIDE DEF a
  <2>2. b \in Stamped
    BY <2>1 DEF Stamped
  <2> QED
    BY <2>2, Zenon DEF a, b
<1> QED
  BY <1>1, <1>2

\* A day too many carried into the month.
LEMMA MonthCarried ==
  ASSUME NEW r \in Stamped, NEW s, s = [r EXCEPT !.day = 1, !.month = @ + 1]
  PROVE  s \in Stamped /\ s.month = r.month + 1 /\ s.day = 1 /\ s.hour = r.hour /\ s.minute = r.minute /\ s.year = r.year
<1>1. s.month = r.month + 1 /\ s.day = 1 /\ s.hour = r.hour /\ s.minute = r.minute /\ s.year = r.year
  BY DEF Stamped
<1>2. s \in Stamped
  <2> DEFINE a == [r EXCEPT !.day = 1]
             b == [a EXCEPT !.month = @ + 1]
  <2>1. a \in Stamped
    BY DEF Stamped
  <2> HIDE DEF a
  <2>2. b \in Stamped
    BY <2>1 DEF Stamped
  <2> QED
    BY <2>2, Zenon DEF a, b
<1> QED
  BY <1>1, <1>2

\* A day too many of the last month carried into the year.
LEMMA YearCarried ==
  ASSUME NEW r \in Stamped, NEW s, s = [r EXCEPT !.day = 1, !.month = 1, !.year = @ + 1]
  PROVE  s \in Stamped /\ s.month = 1 /\ s.day = 1 /\ s.hour = r.hour /\ s.minute = r.minute /\ s.year = r.year + 1
<1>1. s.month = 1 /\ s.day = 1 /\ s.hour = r.hour /\ s.minute = r.minute /\ s.year = r.year + 1
  BY DEF Stamped
<1>2. s \in Stamped
  <2> DEFINE a == [r EXCEPT !.day = 1]
             b == [a EXCEPT !.month = 1]
             c == [b EXCEPT !.year = @ + 1]
  <2>1. a \in Stamped
    BY DEF Stamped
  <2> HIDE DEF a
  <2>2. b \in Stamped
    BY <2>1 DEF Stamped
  <2> HIDE DEF b
  <2>3. c \in Stamped
    BY <2>2 DEF Stamped
  <2> QED
    BY <2>3, Zenon DEF a, b, c
<1> QED
  BY <1>1, <1>2

\* A month too many carried into the year.
LEMMA YearTurned ==
  ASSUME NEW r \in Stamped, NEW s, s = [r EXCEPT !.month = 1, !.year = @ + 1]
  PROVE  s \in Stamped /\ s.month = 1 /\ s.day = r.day /\ s.hour = r.hour /\ s.minute = r.minute /\ s.year = r.year + 1
<1>1. s.month = 1 /\ s.day = r.day /\ s.hour = r.hour /\ s.minute = r.minute /\ s.year = r.year + 1
  BY DEF Stamped
<1>2. s \in Stamped
  <2> DEFINE a == [r EXCEPT !.month = 1]
             b == [a EXCEPT !.year = @ + 1]
  <2>1. a \in Stamped
    BY DEF Stamped
  <2> HIDE DEF a
  <2>2. b \in Stamped
    BY <2>1 DEF Stamped
  <2> QED
    BY <2>2, Zenon DEF a, b
<1> QED
  BY <1>1, <1>2

\* What Repair makes of a record, once the minutes and the hours fit.
LEMMA RepairDay ==
  ASSUME NEW r \in Stamped,
         r.minute < MinutesPerHour, r.hour < HoursPerDay, 1 <= r.month, 1 <= r.day
  PROVE  /\ r.month <= Len(LastDay) /\ r.day <= LastDay[r.month] => Repair(r) = r
         /\ r.month < Len(LastDay) /\ r.day > LastDay[r.month] =>
              Repair(r) = [month |-> r.month + 1, day |-> 1, hour |-> r.hour, minute |-> r.minute, year |-> r.year]
         /\ r.month = Len(LastDay) /\ r.day > LastDay[r.month] =>
              Repair(r) = [month |-> 1, day |-> 1, hour |-> r.hour, minute |-> r.minute, year |-> r.year + 1]
         /\ r.month = Len(LastDay) + 1 /\ r.day = 1 =>
              Repair(r) = [month |-> 1, day |-> 1, hour |-> r.hour, minute |-> r.minute, year |-> r.year + 1]
<1> DEFINE valid == r.month \in Months /\ r.day \in 1..LastDay[r.month]
           c == IF valid THEN r
                ELSE IF r.month = Len(LastDay)
                     THEN [r EXCEPT !.day = 1, !.month = 1, !.year = @ + 1]
                     ELSE [r EXCEPT !.day = 1, !.month = @ + 1]
<1>0. /\ r.month \in Int /\ r.day \in Int /\ r.hour \in Int /\ r.minute \in Int /\ r.year \in Int
      /\ ~(r.minute >= MinutesPerHour) /\ ~(r.hour >= HoursPerDay)
      /\ r = [month |-> r.month, day |-> r.day, hour |-> r.hour, minute |-> r.minute, year |-> r.year]
  BY CalendarFields DEF Stamped
<1>1. Repair(r) = IF c.month > Len(LastDay) THEN [c EXCEPT !.month = 1, !.year = @ + 1] ELSE c
  BY <1>0 DEF Repair
<1>2. valid <=> (r.month <= Len(LastDay) /\ r.day <= LastDay[r.month])
  BY <1>0, MonthsAre, CalendarFields
<1> DEFINE next == [month |-> r.month + 1, day |-> 1, hour |-> r.hour, minute |-> r.minute, year |-> r.year]
           first == [month |-> 1, day |-> 1, hour |-> r.hour, minute |-> r.minute, year |-> r.year + 1]
<1>a. /\ [r EXCEPT !.day = 1, !.month = @ + 1] = next
      /\ [r EXCEPT !.day = 1, !.month = 1, !.year = @ + 1] = first
      /\ [next EXCEPT !.month = 1, !.year = @ + 1] = first
  <2>0. next \in Stamped /\ first \in Stamped
    BY <1>0 DEF Stamped
  <2>f. /\ next.month = r.month + 1 /\ next.day = 1 /\ next.hour = r.hour /\ next.minute = r.minute /\ next.year = r.year
        /\ first.month = 1 /\ first.day = 1 /\ first.hour = r.hour /\ first.minute = r.minute /\ first.year = r.year + 1
    OBVIOUS
  <2> HIDE DEF next, first
  <2>1. [r EXCEPT !.day = 1, !.month = @ + 1] = next
    <3> DEFINE s == [r EXCEPT !.day = 1, !.month = @ + 1]
    <3>1. s \in Stamped /\ s.month = r.month + 1 /\ s.day = 1 /\ s.hour = r.hour /\ s.minute = r.minute /\ s.year = r.year
      BY <2>0, MonthCarried
    <3> HIDE DEF s
    <3>2. s = next
      BY <2>0, <2>f, <3>1, SameRecord
    <3> QED
      BY <3>2 DEF s
  <2>2. [r EXCEPT !.day = 1, !.month = 1, !.year = @ + 1] = first
    <3> DEFINE s == [r EXCEPT !.day = 1, !.month = 1, !.year = @ + 1]
    <3>1. s \in Stamped /\ s.month = 1 /\ s.day = 1 /\ s.hour = r.hour /\ s.minute = r.minute /\ s.year = r.year + 1
      BY <2>0, YearCarried
    <3> HIDE DEF s
    <3>2. s = first
      BY <2>0, <2>f, <3>1, SameRecord
    <3> QED
      BY <3>2 DEF s
  <2>3. [next EXCEPT !.month = 1, !.year = @ + 1] = first
    <3> DEFINE s == [next EXCEPT !.month = 1, !.year = @ + 1]
    <3>1. s \in Stamped /\ s.month = 1 /\ s.day = next.day /\ s.hour = next.hour /\ s.minute = next.minute /\ s.year = next.year + 1
      BY <2>0, YearTurned
    <3> HIDE DEF s
    <3>2. s = first
      BY <2>0, <2>f, <3>1, SameRecord
    <3> QED
      BY <3>2 DEF s
  <2> QED
    BY <2>1, <2>2, <2>3
<1>b. next.month = r.month + 1 /\ first.month = 1
  OBVIOUS
<1>c. c = IF valid THEN r ELSE IF r.month = Len(LastDay) THEN first ELSE next
  BY <1>a
<1> HIDE DEF c, valid, next, first
<1>3. CASE r.month <= Len(LastDay) /\ r.day <= LastDay[r.month]
  <2>1. c = r
    BY <1>2, <1>3, <1>c
  <2>2. ~(r.month > Len(LastDay)) /\ r.month # Len(LastDay) + 1 /\ ~(r.day > LastDay[r.month])
    BY <1>0, <1>3, CalendarFields
  <2> QED
    BY <1>1, <1>3, <2>1, <2>2
<1>4. CASE r.month < Len(LastDay) /\ r.day > LastDay[r.month]
  <2>1. ~valid /\ r.month # Len(LastDay)
    BY <1>0, <1>2, <1>4, CalendarFields
  <2>2. c = next
    BY <1>c, <2>1
  <2>3. ~(r.month + 1 > Len(LastDay)) /\ r.month # Len(LastDay) + 1 /\ ~(r.day <= LastDay[r.month])
    BY <1>0, <1>4, CalendarFields
  <2>4. Repair(r) = next
    BY <1>1, <1>b, <2>2, <2>3
  <2> QED
    BY <2>1, <2>3, <2>4, <1>4 DEF next
<1>5. CASE r.month = Len(LastDay) /\ r.day > LastDay[r.month]
  <2>1. ~valid
    BY <1>0, <1>2, <1>5, CalendarFields
  <2>2. c = first
    BY <1>5, <1>c, <2>1
  <2>3. /\ ~(1 > Len(LastDay)) /\ r.month # Len(LastDay) + 1 /\ ~(r.day <= LastDay[r.month])
        /\ ~(r.month < Len(LastDay))
    BY <1>0, <1>5, CalendarFields
  <2>4. Repair(r) = first
    BY <1>1, <1>b, <2>2, <2>3
  <2> QED
    BY <2>3, <2>4, <1>5 DEF first
<1>6. CASE r.month = Len(LastDay) + 1 /\ r.day = 1
  <2>1. ~valid /\ r.month # Len(LastDay)
    BY <1>0, <1>2, <1>6, CalendarFields
  <2>2. c = next
    BY <1>c, <2>1
  <2>3. r.month + 1 > Len(LastDay) /\ ~(r.month <= Len(LastDay)) /\ ~(r.month < Len(LastDay))
    BY <1>0, <1>6, CalendarFields
  <2>4. Repair(r) = first
    BY <1>1, <1>a, <1>b, <2>2, <2>3
  <2> QED
    BY <2>1, <2>3, <2>4, <1>6 DEF first
<1> QED
  BY <1>3, <1>4, <1>5, <1>6

\* The repairs one after the other.
MinuteRepaired(t) == IF t.minute >= MinutesPerHour
                     THEN [t EXCEPT !.minute = @ - MinutesPerHour, !.hour = @ + 1] ELSE t
HourRepaired(a) == IF a.hour >= HoursPerDay
                   THEN [a EXCEPT !.hour = @ - HoursPerDay, !.day = @ + 1] ELSE a
DayRepaired(b) ==
  LET valid == b.month \in Months /\ b.day \in 1..LastDay[b.month]
      c == IF valid THEN b
           ELSE IF b.month = Len(LastDay)
                THEN [b EXCEPT !.day = 1, !.month = 1, !.year = @ + 1]
                ELSE [b EXCEPT !.day = 1, !.month = @ + 1]
  IN IF c.month > Len(LastDay) THEN [c EXCEPT !.month = 1, !.year = @ + 1] ELSE c

\* Repair is the three repairs in their order.
LEMMA Repairs ==
  ASSUME NEW t
  PROVE  Repair(t) = DayRepaired(HourRepaired(MinuteRepaired(t)))
BY DEF Repair, MinuteRepaired, HourRepaired, DayRepaired

\* The hours of a whole day become one day.
LEMMA RepairHour ==
  ASSUME NEW r \in Stamped, r.minute < MinutesPerHour, r.hour = HoursPerDay
  PROVE  Repair(r) = Repair([r EXCEPT !.hour = 0, !.day = @ + 1])
<1> DEFINE s == [r EXCEPT !.hour = 0, !.day = @ + 1]
<1>1. /\ r.hour \in Int /\ ~(r.minute >= MinutesPerHour) /\ r.hour >= HoursPerDay
      /\ r.hour - HoursPerDay = 0 /\ ~(0 >= HoursPerDay)
  BY CalendarFields DEF Stamped
<1>0. s.minute = r.minute /\ s.hour = 0
  BY DEF Stamped
<1>2. MinuteRepaired(r) = r /\ MinuteRepaired(s) = s
  BY <1>0, <1>1 DEF MinuteRepaired
<1>3. HourRepaired(s) = s
  BY <1>0, <1>1 DEF HourRepaired
<1>4. HourRepaired(r) = s
  BY <1>1 DEF HourRepaired
<1> HIDE DEF s
<1>5. Repair(r) = Repair(s)
  BY <1>2, <1>3, <1>4, Repairs
<1> QED
  BY <1>5 DEF s

\* The minutes of a whole hour become one hour.
LEMMA RepairMinute ==
  ASSUME NEW r \in Stamped, r.minute = MinutesPerHour
  PROVE  Repair(r) = Repair([r EXCEPT !.minute = 0, !.hour = @ + 1])
<1> DEFINE s == [r EXCEPT !.minute = 0, !.hour = @ + 1]
<1>1. /\ r.minute >= MinutesPerHour /\ r.minute - MinutesPerHour = 0 /\ ~(0 >= MinutesPerHour)
  BY CalendarFields DEF Stamped
<1>2. MinuteRepaired(r) = s
  BY <1>1 DEF MinuteRepaired
<1>0. s.minute = 0
  BY DEF Stamped
<1>3. MinuteRepaired(s) = s
  BY <1>0, <1>1 DEF MinuteRepaired
<1> HIDE DEF s
<1>5. Repair(r) = Repair(s)
  BY <1>2, <1>3, Repairs
<1> QED
  BY <1>5 DEF s

\* A time needs no repair.
LEMMA RepairsNothing ==
  ASSUME NEW t \in Times
  PROVE  Repair(t) = t
<1>1. t \in Stamped
  BY Fits, FieldsOf DEF Stamped
<1>2. /\ 1 <= t.month /\ t.month <= Len(LastDay) /\ 1 <= t.day /\ t.day <= LastDay[t.month]
      /\ t.hour < HoursPerDay /\ t.minute < MinutesPerHour
  BY Fits
<1> QED
  BY <1>1, <1>2, RepairDay

\* What one turn of the search makes of a time.
LEMMA RepairNext ==
  ASSUME NEW t \in Times
  PROVE  /\ Repair([t EXCEPT !.month = @ + 1, !.day = 1, !.hour = 0, !.minute = 0]) = NextMonth(t)
         /\ Repair([t EXCEPT !.day = @ + 1, !.hour = 0, !.minute = 0]) = NextDay(t)
         /\ Repair([t EXCEPT !.hour = @ + 1, !.minute = 0]) = NextHour(t)
         /\ Repair([t EXCEPT !.minute = @ + 1]) = NextMinute(t)
<1> DEFINE a == [t EXCEPT !.month = @ + 1, !.day = 1, !.hour = 0, !.minute = 0]
           b == [t EXCEPT !.day = @ + 1, !.hour = 0, !.minute = 0]
           c == [t EXCEPT !.hour = @ + 1, !.minute = 0]
           d == [t EXCEPT !.minute = @ + 1]
<1>1. t \in Stamped
  BY Fits, FieldsOf DEF Stamped
<1>2. /\ t.month \in Int /\ t.day \in Int /\ t.hour \in Int /\ t.minute \in Int /\ t.year \in Int
      /\ 1 <= t.month /\ t.month <= Len(LastDay) /\ 1 <= t.day /\ t.day <= LastDay[t.month]
      /\ 0 <= t.hour /\ t.hour < HoursPerDay /\ 0 <= t.minute /\ t.minute < MinutesPerHour
  BY Fits
<1>3. /\ a \in Stamped /\ a.month = t.month + 1 /\ a.day = 1 /\ a.hour = 0 /\ a.minute = 0 /\ a.year = t.year
      /\ b \in Stamped /\ b.month = t.month /\ b.day = t.day + 1 /\ b.hour = 0 /\ b.minute = 0 /\ b.year = t.year
      /\ c \in Stamped /\ c.month = t.month /\ c.day = t.day /\ c.hour = t.hour + 1 /\ c.minute = 0 /\ c.year = t.year
      /\ d \in Stamped /\ d.month = t.month /\ d.day = t.day /\ d.hour = t.hour /\ d.minute = t.minute + 1
      /\ d.year = t.year
  <2>1. a \in Stamped /\ a.month = t.month + 1 /\ a.day = 1 /\ a.hour = 0 /\ a.minute = 0 /\ a.year = t.year
    BY <1>1, MonthTurned
  <2>2. b \in Stamped /\ b.month = t.month /\ b.day = t.day + 1 /\ b.hour = 0 /\ b.minute = 0 /\ b.year = t.year
    BY <1>1, DayTurned
  <2>3. c \in Stamped /\ c.month = t.month /\ c.day = t.day /\ c.hour = t.hour + 1 /\ c.minute = 0 /\ c.year = t.year
    BY <1>1, HourTurned
  <2>4. /\ d \in Stamped /\ d.month = t.month /\ d.day = t.day /\ d.hour = t.hour /\ d.minute = t.minute + 1
        /\ d.year = t.year
    BY <1>1, MinuteTurned
  <2> HIDE DEF a, b, c, d
  <2> QED
    BY <2>1, <2>2, <2>3, <2>4
<1>4. /\ a = [month |-> a.month, day |-> a.day, hour |-> a.hour, minute |-> a.minute, year |-> a.year]
      /\ b = [month |-> b.month, day |-> b.day, hour |-> b.hour, minute |-> b.minute, year |-> b.year]
      /\ c = [month |-> c.month, day |-> c.day, hour |-> c.hour, minute |-> c.minute, year |-> c.year]
      /\ d = [month |-> d.month, day |-> d.day, hour |-> d.hour, minute |-> d.minute, year |-> d.year]
  <2> HIDE DEF a, b, c, d
  <2> QED
    BY <1>3, StampedRecord
<1>x. [d EXCEPT !.minute = 0, !.hour = @ + 1] = c /\ [c EXCEPT !.hour = 0, !.day = @ + 1] = b
  <2> HIDE DEF a, b, c, d
  <2> DEFINE p == [d EXCEPT !.minute = 0, !.hour = @ + 1]
             q == [c EXCEPT !.hour = 0, !.day = @ + 1]
  <2>1. p \in Stamped /\ p.month = d.month /\ p.day = d.day /\ p.hour = d.hour + 1 /\ p.minute = 0 /\ p.year = d.year
    BY <1>3, HourCarried
  <2>2. q \in Stamped /\ q.month = c.month /\ q.day = c.day + 1 /\ q.hour = 0 /\ q.minute = c.minute /\ q.year = c.year
    BY <1>3, DayCarried
  <2> HIDE DEF p, q
  <2>3. p = c /\ q = b
    BY <1>3, <2>1, <2>2, SameRecord
  <2> QED
    BY <2>3 DEF p, q
<1> HIDE DEF a, b, c, d
<1>5. Repair(a) = NextMonth(t)
  <2>1. CASE t.month < Len(LastDay)
    <3>1. 1 <= a.month /\ a.month <= Len(LastDay) /\ 0 < MinutesPerHour /\ 0 < HoursPerDay
      BY <1>2, <1>3, <2>1, CalendarFields
    <3>2. 1 <= LastDay[a.month]
      <4>1. a.month \in 1..Len(LastDay)
        BY <1>3, <3>1, CalendarFields DEF Stamped
      <4> QED
        BY <4>1, CalendarFields
    <3>3. Repair(a) = a
      BY <1>3, <3>1, <3>2, RepairDay
    <3> QED
      BY <1>3, <1>4, <2>1, <3>3 DEF NextMonth
  <2>2. CASE t.month = Len(LastDay)
    <3>1. /\ 1 <= a.month /\ a.month = Len(LastDay) + 1
          /\ ~(t.month < Len(LastDay)) /\ 0 < MinutesPerHour /\ 0 < HoursPerDay
      BY <1>2, <1>3, <2>2, CalendarFields
    <3>2. Repair(a) = [month |-> 1, day |-> 1, hour |-> a.hour, minute |-> a.minute, year |-> a.year + 1]
      BY <1>3, <3>1, RepairDay
    <3> QED
      BY <1>3, <3>1, <3>2 DEF NextMonth
  <2> QED
    BY <1>2, <2>1, <2>2, CalendarFields
<1>6. Repair(b) = NextDay(t)
  <2>0. 1 <= b.day /\ 0 < MinutesPerHour /\ 0 < HoursPerDay /\ LastDay[t.month] \in Nat
    BY <1>2, <1>3, CalendarFields
  <2>1. CASE t.day < LastDay[t.month]
    <3>1. b.day <= LastDay[b.month]
      BY <1>2, <1>3, <2>0, <2>1
    <3>2. Repair(b) = b
      BY <1>2, <1>3, <2>0, <3>1, RepairDay
    <3> QED
      BY <1>3, <1>4, <2>1, <3>2 DEF NextDay
  <2>2. CASE ~(t.day < LastDay[t.month])
    <3>1. b.day > LastDay[b.month] /\ NextDay(t) = NextMonth(t)
      BY <1>2, <1>3, <2>0, <2>2 DEF NextDay
    <3>2. CASE t.month < Len(LastDay)
      <4>1. Repair(b) = [month |-> b.month + 1, day |-> 1, hour |-> b.hour, minute |-> b.minute, year |-> b.year]
        BY <1>2, <1>3, <2>0, <3>1, <3>2, RepairDay
      <4> QED
        BY <1>3, <3>1, <3>2, <4>1 DEF NextMonth
    <3>3. CASE t.month = Len(LastDay)
      <4>1. Repair(b) = [month |-> 1, day |-> 1, hour |-> b.hour, minute |-> b.minute, year |-> b.year + 1]
        BY <1>2, <1>3, <2>0, <3>1, <3>3, RepairDay
      <4>2. ~(t.month < Len(LastDay))
        BY <1>2, <3>3, CalendarFields
      <4> QED
        BY <1>3, <3>1, <4>1, <4>2 DEF NextMonth
    <3> QED
      BY <1>2, <3>2, <3>3, CalendarFields
  <2> QED
    BY <2>1, <2>2
<1>7. Repair(c) = NextHour(t)
  <2>0. 0 < MinutesPerHour /\ 0 < HoursPerDay
    BY CalendarFields
  <2>1. CASE t.hour + 1 < HoursPerDay
    <3>1. Repair(c) = c
      BY <1>2, <1>3, <2>0, <2>1, RepairDay
    <3> QED
      BY <1>3, <1>4, <2>1, <3>1 DEF NextHour
  <2>2. CASE t.hour + 1 = HoursPerDay
    <3>1. ~(t.hour + 1 < HoursPerDay)
      BY <1>2, <2>2, CalendarFields
    <3>2. Repair(c) = Repair(b)
      BY <1>3, <1>x, <2>0, <2>2, RepairHour
    <3> QED
      BY <1>6, <3>1, <3>2 DEF NextHour
  <2> QED
    BY <1>2, <2>1, <2>2, CalendarFields
<1>8. Repair(d) = NextMinute(t)
  <2>1. CASE t.minute + 1 < MinutesPerHour
    <3>1. Repair(d) = d
      BY <1>2, <1>3, <2>1, RepairDay
    <3> QED
      BY <1>3, <1>4, <2>1, <3>1 DEF NextMinute
  <2>2. CASE t.minute + 1 = MinutesPerHour
    <3>1. ~(t.minute + 1 < MinutesPerHour)
      BY <1>2, <2>2, CalendarFields
    <3>2. Repair(d) = Repair(c)
      BY <1>3, <1>x, <2>2, RepairMinute
    <3> QED
      BY <1>7, <3>1, <3>2 DEF NextMinute
  <2> QED
    BY <1>2, <2>1, <2>2, CalendarFields
<1> QED
  BY <1>5, <1>6, <1>7, <1>8 DEF a, b, c, d

\* One turn of the search goes forward and passes nothing that matches.
LEMMA OneTurn ==
  ASSUME NEW cron, NEW t \in Times, ~Matches(cron, t)
  PROVE  /\ Repair(Advance(cron, t)) \in Times
         /\ Stamp(t) < Stamp(Repair(Advance(cron, t)))
         /\ \A v \in Times : Stamp(t) < Stamp(v) /\ Stamp(v) < Stamp(Repair(Advance(cron, t)))
               => ~Matches(cron, v)
<1> DEFINE u == Repair(Advance(cron, t))
<1> SUFFICES /\ u \in Times /\ Before(t, u)
             /\ \A v \in Times : Before(t, v) /\ Before(v, u) => ~Matches(cron, v)
  BY StampOrder
<1>1. CASE t.month \notin cron.month
  <2>1. u = NextMonth(t)
    BY <1>1, RepairNext DEF Advance
  <2> QED
    BY <1>1, <2>1, NextMonthIs DEF Matches
<1>2. CASE t.month \in cron.month /\ t.day \notin cron.day
  <2>1. u = NextDay(t)
    BY <1>2, RepairNext DEF Advance
  <2> QED
    BY <1>2, <2>1, NextDayIs DEF Matches
<1>3. CASE t.month \in cron.month /\ t.day \in cron.day /\ t.hour \notin cron.hour
  <2>1. u = NextHour(t)
    BY <1>3, RepairNext DEF Advance
  <2> QED
    BY <1>3, <2>1, NextHourIs DEF Matches
<1>4. CASE t.month \in cron.month /\ t.day \in cron.day /\ t.hour \in cron.hour
  <2>1. u = NextMinute(t)
    BY <1>4, RepairNext DEF Advance
  <2> QED
    BY <2>1, NextMinuteIs
<1> QED
  BY <1>1, <1>2, <1>3, <1>4

\* A set of naturals has a least member, so induction over a set is sound.
LEMMA Least ==
  ASSUME NEW M \in SUBSET Nat, M # {}
  PROVE  \E x \in M : \A y \in M : x <= y
<1> DEFINE R == {p \in Nat \X Nat : p[1] < p[2]}
<1>1. IsWellFoundedOn(R, Nat)
  <2>1. IsWellFoundedOn(OpToRel(<, Nat), Nat)
    BY NatLessThanWellFounded
  <2>2. OpToRel(<, Nat) = R
    BY DEF OpToRel
  <2> QED
    BY <2>1, <2>2
<1>2. PICK x \in M : \A y \in M : <<y, x>> \notin R
  <2> HIDE DEF R
  <2>1. M \subseteq Nat
    OBVIOUS
  <2> QED
    BY <1>1, <2>1, WFMin
<1>3. \A y \in M : ~(y < x)
  BY <1>2
<1> QED
  BY <1>3

\* What holds of 0, and of n + 1 when of n, holds of all naturals.
LEMMA SetInduction ==
  ASSUME NEW T, 0 \in T, \A n \in Nat : n \in T => n + 1 \in T
  PROVE  Nat \subseteq T
<1> DEFINE M == Nat \ T
<1>1. SUFFICES ASSUME M # {} PROVE FALSE
  OBVIOUS
<1>2. PICK x \in M : \A y \in M : x <= y
  <2>1. M \in SUBSET Nat
    OBVIOUS
  <2> HIDE DEF M
  <2> QED
    BY <1>1, <2>1, Least
<1>3. x # 0 /\ x - 1 \in Nat
  BY <1>2
<1>4. x - 1 \in M
  BY <1>2, <1>3
<1> QED
  BY <1>2, <1>3, <1>4

\* One turn: a time that matches stays, one that does not is advanced.
Turn(cron, t) == IF Matches(cron, t) THEN t ELSE Repair(Advance(cron, t))

\* The recursive function of the search exists, so that its equation holds.
LEMMA TriesAre ==
  ASSUME NEW cron, NEW n
  PROVE  /\ Tries(cron, n)[0] = Repair(DateOf(n))
         /\ \A i \in 1..(MaxIters - 1) : Tries(cron, n)[i] = Turn(cron, Tries(cron, n)[i - 1])
<1> DEFINE init == Repair(DateOf(n))
           Solves(f, k) == f = [i \in 0..k |-> IF i = 0 THEN init ELSE Turn(cron, f[i - 1])]
           T == {k \in Nat : \E f : Solves(f, k)}
<1> HIDE DEF init
<1>1. 0 \in T
  <2> DEFINE f == [i \in 0..0 |-> init]
  <2>1. Solves(f, 0)
    <3>1. \A i \in 0..0 : i = 0
      OBVIOUS
    <3>2. \A i \in 0..0 : init = IF i = 0 THEN init ELSE Turn(cron, f[i - 1])
      BY <3>1, Zenon
    <3> QED
      BY <3>2, Zenon
  <2> QED
    BY <2>1
<1>2. ASSUME NEW k \in Nat, k \in T
      PROVE  k + 1 \in T
  <2>1. PICK f : Solves(f, k)
    BY <1>2
  <2> DEFINE g == [i \in 0..(k + 1) |-> IF i = k + 1 THEN Turn(cron, f[k]) ELSE f[i]]
  <2>2. /\ f[0] = init /\ \A i \in 1..k : f[i] = Turn(cron, f[i - 1])
    BY <2>1
  <2>3. /\ g[0] = f[0] /\ \A i \in 1..k : g[i] = f[i] /\ g[i - 1] = f[i - 1]
        /\ g[k + 1] = Turn(cron, f[k]) /\ g[k] = f[k]
    OBVIOUS
  <2>4. \A i \in 0..(k + 1) : g[i] = IF i = 0 THEN init ELSE Turn(cron, g[i - 1])
    <3> SUFFICES ASSUME NEW i \in 0..(k + 1)
                 PROVE  g[i] = IF i = 0 THEN init ELSE Turn(cron, g[i - 1])
      OBVIOUS
    <3> HIDE DEF g
    <3>1. CASE i = 0
      BY <2>2, <2>3, <3>1
    <3>2. CASE i \in 1..k
      BY <2>2, <2>3, <3>2
    <3>3. CASE i = k + 1
      <4>1. i # 0 /\ i - 1 = k
        BY <3>3
      <4> QED
        BY <2>3, <3>3, <4>1
    <3> QED
      BY <3>1, <3>2, <3>3
  <2>5. g = [i \in 0..(k + 1) |-> g[i]]
    OBVIOUS
  <2> HIDE DEF g
  <2>6. Solves(g, k + 1)
    BY <2>4, <2>5, Zenon
  <2> QED
    BY <2>6
<1>3. Nat \subseteq T
  <2> HIDE DEF T
  <2> QED
    BY <1>1, <1>2, SetInduction
<1>4. \E f : Solves(f, MaxIters - 1)
  <2>1. MaxIters - 1 \in Nat
    BY TimeAssumption
  <2> QED
    BY <1>3, <2>1
<1>5. Tries(cron, n) = CHOOSE f : Solves(f, MaxIters - 1)
  BY DEF Tries, Turn, init
<1>6. Solves(Tries(cron, n), MaxIters - 1)
  <2> HIDE DEF Solves
  <2> QED
    BY <1>4, <1>5
<1> DEFINE g == Tries(cron, n)
<1> HIDE DEF g
<1>7. g[0] = init /\ \A i \in 1..(MaxIters - 1) : g[i] = Turn(cron, g[i - 1])
  BY <1>6, TimeAssumption DEF g
<1> QED
  BY <1>7 DEF g, init

\* What the tries find: nothing that matches lies before the date they are at.
LEMMA TriesPassNothing ==
  ASSUME NEW cron, NEW n \in Int, NEW i \in 0..(MaxIters - 1)
  PROVE  /\ Tries(cron, n)[i] \in Times
         /\ Stamp(DateOf(n)) <= Stamp(Tries(cron, n)[i])
         /\ \A v \in Times : Stamp(DateOf(n)) <= Stamp(v) /\ Stamp(v) < Stamp(Tries(cron, n)[i])
               => ~Matches(cron, v)
<1> DEFINE f == Tries(cron, n)
           s == Stamp(DateOf(n))
           Good(t) == /\ t \in Times /\ s <= Stamp(t)
                      /\ \A v \in Times : s <= Stamp(v) /\ Stamp(v) < Stamp(t) => ~Matches(cron, v)
           T == {j \in Nat : j <= MaxIters - 1 => Good(f[j])}
<1>1. DateOf(n) \in Times /\ s \in Int
  BY DateOfIs, StampOfTime
<1>2. f[0] = DateOf(n) /\ \A j \in 1..(MaxIters - 1) : f[j] = Turn(cron, f[j - 1])
  BY <1>1, TriesAre, RepairsNothing
<1> HIDE DEF f
<1>3. 0 \in T
  <2>1. Good(f[0])
    BY <1>1, <1>2, StampOfTime
  <2> QED
    BY <2>1
<1>4. ASSUME NEW t, Good(t)
      PROVE  Good(Turn(cron, t))
  <2>1. CASE Matches(cron, t)
    BY <1>4, <2>1 DEF Turn
  <2>2. CASE ~Matches(cron, t)
    <3> DEFINE u == Repair(Advance(cron, t))
    <3>1. /\ u \in Times /\ Stamp(t) < Stamp(u)
          /\ \A v \in Times : Stamp(t) < Stamp(v) /\ Stamp(v) < Stamp(u) => ~Matches(cron, v)
      BY <1>4, <2>2, OneTurn
    <3>2. Turn(cron, t) = u
      BY <2>2 DEF Turn
    <3> HIDE DEF u
    <3>3. Stamp(t) \in Int /\ Stamp(u) \in Int
      BY <1>4, <3>1, StampOfTime
    <3>4. ASSUME NEW v \in Times, s <= Stamp(v), Stamp(v) < Stamp(u)
          PROVE  ~Matches(cron, v)
      <4>1. Stamp(v) \in Int
        BY StampOfTime
      <4>2. CASE Stamp(v) < Stamp(t)
        BY <1>4, <3>4, <4>2
      <4>3. CASE Stamp(v) = Stamp(t)
        BY <1>4, <2>2, <4>3, StampOfTime
      <4>4. CASE Stamp(t) < Stamp(v)
        BY <3>1, <3>4, <4>4
      <4> QED
        BY <3>3, <4>1, <4>2, <4>3, <4>4
    <3>5. s <= Stamp(u)
      BY <1>1, <1>4, <3>1, <3>3
    <3> QED
      BY <3>1, <3>2, <3>4, <3>5
  <2> QED
    BY <2>1, <2>2
<1> HIDE DEF Good
<1>5. ASSUME NEW j \in Nat, j \in T
      PROVE  j + 1 \in T
  <2> SUFFICES ASSUME j + 1 <= MaxIters - 1
               PROVE  Good(f[j + 1])
    OBVIOUS
  <2>1. Good(f[j])
    BY <1>5, TimeAssumption
  <2>2. f[j + 1] = Turn(cron, f[j])
    <3>1. j + 1 \in 1..(MaxIters - 1) /\ (j + 1) - 1 = j
      BY TimeAssumption
    <3> QED
      BY <1>2, <3>1
  <2> QED
    BY <1>4, <2>1, <2>2
<1>6. Nat \subseteq T
  <2> HIDE DEF T
  <2> QED
    BY <1>3, <1>5, SetInduction
<1>7. Good(f[i])
  BY <1>6, TimeAssumption
<1> QED
  BY <1>7 DEF Good, f

\* Whatever the search finds is the earliest match.
LEMMA FoundMatch ==
  ASSUME NEW cron, NEW n \in Nat, NextMatch(cron, n) # NoTime
  PROVE  /\ NextMatch(cron, n) \in Nat /\ n <= NextMatch(cron, n)
         /\ Matches(cron, DateOf(NextMatch(cron, n)))
         /\ \A k \in Nat : n <= k /\ k < NextMatch(cron, n) => ~Matches(cron, DateOf(k))
<1> DEFINE t == Tries(cron, n)[MaxIters - 1]
           m == NumberOf(t)
<1>1. MaxIters - 1 \in 0..(MaxIters - 1) /\ n \in Int
  BY TimeAssumption
<1>2. /\ t \in Times /\ Stamp(DateOf(n)) <= Stamp(t)
      /\ \A v \in Times : Stamp(DateOf(n)) <= Stamp(v) /\ Stamp(v) < Stamp(t) => ~Matches(cron, v)
  BY <1>1, TriesPassNothing
<1>3. NextMatch(cron, n) = m /\ Matches(cron, t)
  BY DEF NextMatch
<1> HIDE DEF t
<1>4. m \in Int /\ DateOf(m) = t
  BY <1>2, DateOfNumber
<1> HIDE DEF m
<1>5. n <= m
  BY <1>1, <1>2, <1>4, NumbersAreOrdered
<1>6. ASSUME NEW k \in Nat, n <= k, k < m
      PROVE  ~Matches(cron, DateOf(k))
  <2>1. k \in Int /\ DateOf(k) \in Times
    BY DateOfIs
  <2>2. Stamp(DateOf(n)) <= Stamp(DateOf(k))
    BY <1>1, <1>6, <2>1, NumbersAreOrdered
  <2>3. Stamp(DateOf(k)) < Stamp(DateOf(m))
    BY <1>4, <1>6, <2>1, NumbersAreOrdered
  <2> QED
    BY <1>2, <1>4, <2>1, <2>2, <2>3
<1> QED
  BY <1>3, <1>4, <1>5, <1>6

\* How many turns the search still needs at time t for a match at goal, when
\* there are d first minutes of days between that it will look at.
SameDay(t, u) == t.year = u.year /\ t.month = u.month /\ t.day = u.day
MinutesLeft(cron, t) == IF t.hour \in cron.hour THEN MinutesPerHour - 1 - t.minute ELSE 0
TurnsLeft(cron, t, goal, d) ==
  IF SameDay(t, goal)
  THEN IF t.hour = goal.hour THEN goal.minute - t.minute
       ELSE (goal.hour - t.hour) + goal.minute + MinutesLeft(cron, t)
  ELSE d + goal.hour + goal.minute
         + (IF t.month \in cron.month /\ t.day \in cron.day
            THEN (HoursPerDay - 1 - t.hour) + MinutesLeft(cron, t) ELSE 0)

\* An hour or a day the search begins anew before it reaches the first match
\* holds no match at all: it would hold one as late in it as that one is.
LEMMA NoneBegun ==
  ASSUME NEW cron, NEW t \in Times, NEW u \in Times, NEW goal \in Times,
         Before(t, u), Before(u, goal), Matches(cron, goal), u.minute = 0,
         \A v \in Times : Before(t, v) /\ Before(v, goal) => ~Matches(cron, v)
  PROVE  /\ SameDay(u, goal) /\ u.hour # goal.hour => u.hour < goal.hour /\ u.hour \notin cron.hour
         /\ ~SameDay(u, goal) /\ u.month \in cron.month /\ u.day \in cron.day => u.hour \notin cron.hour
         /\ ~SameDay(u, goal) /\ u.hour = 0 => ~(u.month \in cron.month /\ u.day \in cron.day)
<1> DEFINE v == [month |-> u.month, day |-> u.day, hour |-> u.hour, minute |-> goal.minute, year |-> u.year]
           w == [month |-> u.month, day |-> u.day, hour |-> goal.hour, minute |-> goal.minute, year |-> u.year]
<1>1. /\ u.month \in Int /\ u.day \in Int /\ u.hour \in Int /\ u.minute \in Int /\ u.year \in Int
      /\ 1 <= u.month /\ u.month <= Len(LastDay) /\ 1 <= u.day /\ u.day <= LastDay[u.month]
      /\ 0 <= u.hour /\ u.hour < HoursPerDay /\ 0 <= u.minute /\ u.minute < MinutesPerHour
  BY Fits
<1>2. /\ goal.month \in Int /\ goal.day \in Int /\ goal.hour \in Int /\ goal.minute \in Int /\ goal.year \in Int
      /\ 0 <= goal.hour /\ goal.hour < HoursPerDay /\ 0 <= goal.minute /\ goal.minute < MinutesPerHour
  BY Fits
<1>0. /\ t.month \in Int /\ t.day \in Int /\ t.hour \in Int /\ t.minute \in Int /\ t.year \in Int
  BY Fits
<1>3. v \in Times /\ w \in Times
  BY <1>1, <1>2, IsTime
<1>4. /\ v.month = u.month /\ v.day = u.day /\ v.hour = u.hour /\ v.minute = goal.minute /\ v.year = u.year
      /\ w.month = u.month /\ w.day = u.day /\ w.hour = goal.hour /\ w.minute = goal.minute /\ w.year = u.year
  OBVIOUS
<1> HIDE DEF v, w
<1>5. goal.month \in cron.month /\ goal.day \in cron.day /\ goal.hour \in cron.hour /\ goal.minute \in cron.minute
  BY DEF Matches
<1>6. Before(t, v)
  BY <1>0, <1>1, <1>2, <1>4 DEF Before
<1>7. u.hour = 0 => Before(t, w)
  BY <1>0, <1>1, <1>2, <1>4 DEF Before
<1>8. SameDay(u, goal) /\ u.hour # goal.hour => u.hour < goal.hour /\ Before(v, goal)
  BY <1>1, <1>2, <1>4 DEF Before, SameDay
<1>9. ~SameDay(u, goal) => Before(v, goal) /\ Before(w, goal)
  BY <1>1, <1>2, <1>4 DEF Before, SameDay
<1>10. Before(v, goal) => ~Matches(cron, v)
  BY <1>3, <1>6
<1>11. u.hour = 0 /\ Before(w, goal) => ~Matches(cron, w)
  BY <1>3, <1>7
<1>12. Matches(cron, v) <=> u.month \in cron.month /\ u.day \in cron.day /\ u.hour \in cron.hour
  BY <1>4, <1>5 DEF Matches
<1>13. Matches(cron, w) <=> u.month \in cron.month /\ u.day \in cron.day
  BY <1>4, <1>5 DEF Matches
<1>14. SameDay(u, goal) => u.month \in cron.month /\ u.day \in cron.day
  BY <1>5 DEF SameDay
<1> QED
  BY <1>8, <1>9, <1>10, <1>11, <1>12, <1>13, <1>14

\* A turn of the search before the first match leaves fewer turns to do.
LEMMA TurnsLeftDecrease ==
  ASSUME NEW cron, NEW t \in Times, NEW goal \in Times, NEW d \in Nat, NEW e \in Nat,
         ~Matches(cron, t), Before(t, goal), Matches(cron, goal),
         \A v \in Times : Before(t, v) /\ Before(v, goal) => ~Matches(cron, v),
         NEW u \in Times, u = Repair(Advance(cron, t)),
         e <= d,
         u.hour = 0 /\ u.minute = 0 /\ (u.month \in cron.month \/ u.day = 1) => e < d
  PROVE  /\ TurnsLeft(cron, u, goal, e) < TurnsLeft(cron, t, goal, d)
         /\ TurnsLeft(cron, u, goal, e) \in Nat /\ TurnsLeft(cron, t, goal, d) \in Nat
         /\ u = goal \/ Before(u, goal)
<1> DEFINE H == HoursPerDay
           K == MinutesPerHour
<1>k. H \in Nat /\ K \in Nat /\ H > 0 /\ K > 0
  BY CalendarFields
<1>t. /\ t.month \in Int /\ t.day \in Int /\ t.hour \in Int /\ t.minute \in Int /\ t.year \in Int
      /\ 0 <= t.hour /\ t.hour < H /\ 0 <= t.minute /\ t.minute < K
  BY Fits
<1>u. /\ u.month \in Int /\ u.day \in Int /\ u.hour \in Int /\ u.minute \in Int /\ u.year \in Int
      /\ 0 <= u.hour /\ u.hour < H /\ 0 <= u.minute /\ u.minute < K
  BY Fits
<1>g. /\ goal.month \in Int /\ goal.day \in Int /\ goal.hour \in Int /\ goal.minute \in Int /\ goal.year \in Int
      /\ 0 <= goal.hour /\ goal.hour < H /\ 0 <= goal.minute /\ goal.minute < K
  BY Fits
<1>m. goal.month \in cron.month /\ goal.day \in cron.day /\ goal.hour \in cron.hour
  BY DEF Matches
<1>1. Before(t, u) /\ (u = goal \/ Before(u, goal))
  <2>1. /\ Stamp(t) < Stamp(u)
        /\ \A v \in Times : Stamp(t) < Stamp(v) /\ Stamp(v) < Stamp(u) => ~Matches(cron, v)
    BY OneTurn
  <2>2. ~(Stamp(goal) < Stamp(u))
    BY <2>1, StampOrder
  <2>3. Stamp(goal) \in Int /\ Stamp(u) \in Int
    BY StampOfTime
  <2>4. Stamp(u) = Stamp(goal) \/ Stamp(u) < Stamp(goal)
    BY <2>2, <2>3
  <2> QED
    BY <2>1, <2>4, StampOrder, StampOfTime
<1>2. TurnsLeft(cron, t, goal, d) \in Nat
  <2>1. MinutesLeft(cron, t) \in Nat
    BY <1>k, <1>t DEF MinutesLeft
  <2>2. SameDay(t, goal) => t.hour <= goal.hour /\ (t.hour = goal.hour => t.minute < goal.minute)
    BY <1>t, <1>g DEF SameDay, Before
  <2> HIDE DEF H, K
  <2> QED
    BY <1>k, <1>t, <1>g, <2>1, <2>2 DEF TurnsLeft, H, K
<1>3. TurnsLeft(cron, u, goal, e) \in Nat
  <2>1. MinutesLeft(cron, u) \in Nat
    BY <1>k, <1>u DEF MinutesLeft
  <2>2. SameDay(u, goal) => u.hour <= goal.hour /\ (u.hour = goal.hour => u.minute <= goal.minute)
    BY <1>1, <1>u, <1>g DEF SameDay, Before
  <2> QED
    BY <1>k, <1>u, <1>g, <2>1, <2>2 DEF TurnsLeft
<1>4. u.minute = 0 /\ u # goal =>
        /\ SameDay(u, goal) /\ u.hour # goal.hour => u.hour < goal.hour /\ u.hour \notin cron.hour
        /\ ~SameDay(u, goal) /\ u.month \in cron.month /\ u.day \in cron.day => u.hour \notin cron.hour
        /\ ~SameDay(u, goal) /\ u.hour = 0 => ~(u.month \in cron.month /\ u.day \in cron.day)
  BY <1>1, NoneBegun
\* What is left at the beginning of a day or an hour.
<1>5. ASSUME u.minute = 0, u.hour = 0
      PROVE  IF SameDay(u, goal) THEN TurnsLeft(cron, u, goal, e) <= goal.hour + goal.minute
             ELSE TurnsLeft(cron, u, goal, e) = e + goal.hour + goal.minute
  <2>1. CASE SameDay(u, goal) /\ u.hour = goal.hour
    BY <1>5, <1>k, <1>g, <2>1 DEF TurnsLeft
  <2>2. CASE SameDay(u, goal) /\ u.hour # goal.hour
    <3>1. MinutesLeft(cron, u) = 0
      BY <1>4, <1>5, <2>2 DEF MinutesLeft
    <3> QED
      BY <1>5, <1>k, <1>g, <2>2, <3>1 DEF TurnsLeft
  <2>3. CASE ~SameDay(u, goal)
    <3>1. u # goal
      BY <2>3 DEF SameDay
    <3>2. ~(u.month \in cron.month /\ u.day \in cron.day)
      BY <1>4, <1>5, <2>3, <3>1
    <3> QED
      BY <1>5, <1>k, <1>g, <2>3, <3>2 DEF TurnsLeft
  <2> QED
    BY <2>1, <2>2, <2>3
<1>6. ASSUME u.minute = 0, u.hour = 0, u.month \in cron.month \/ u.day = 1, ~SameDay(t, u)
      PROVE  TurnsLeft(cron, u, goal, e) < TurnsLeft(cron, t, goal, d)
  <2>1. ~SameDay(t, goal)
    BY <1>1, <1>6, <1>t, <1>u, <1>g DEF SameDay, Before
  <2>2. e < d
    BY <1>6
  <2>3. MinutesLeft(cron, t) \in Nat
    BY <1>k, <1>t DEF MinutesLeft
  <2>4. TurnsLeft(cron, t, goal, d) >= d + goal.hour + goal.minute
    BY <1>k, <1>t, <1>g, <2>1, <2>3 DEF TurnsLeft
  <2> HIDE DEF H, K
  <2> QED
    BY <1>2, <1>3, <1>5, <1>6, <1>k, <1>g, <2>2, <2>4
<1>7. ASSUME NEW next \in Times, next = NextDay(t)
      PROVE  next.minute = 0 /\ next.hour = 0 /\ (next.month = t.month \/ next.day = 1) /\ ~SameDay(t, next)
  BY <1>7, <1>t DEF NextDay, NextMonth, SameDay
<1>8. ASSUME u = NextDay(t), t.month \in cron.month
      PROVE  TurnsLeft(cron, u, goal, e) < TurnsLeft(cron, t, goal, d)
  BY <1>6, <1>7, <1>8
\* The day is the same and the hour begins.
<1>9. ASSUME u = [month |-> t.month, day |-> t.day, hour |-> t.hour + 1, minute |-> 0, year |-> t.year],
             t.month \in cron.month, t.day \in cron.day
      PROVE  TurnsLeft(cron, u, goal, e) < TurnsLeft(cron, t, goal, d)
  <2>1. /\ u.month = t.month /\ u.day = t.day /\ u.hour = t.hour + 1 /\ u.minute = 0 /\ u.year = t.year
    BY <1>9
  <2>2. SameDay(u, goal) <=> SameDay(t, goal)
    BY <2>1 DEF SameDay
  <2>3. MinutesLeft(cron, t) \in Nat
    BY <1>k, <1>t DEF MinutesLeft
  <2>4. CASE SameDay(t, goal) /\ u.hour = goal.hour
    <3>1. TurnsLeft(cron, u, goal, e) = goal.minute
      BY <1>g, <2>1, <2>2, <2>4 DEF TurnsLeft
    <3>2. t.hour # goal.hour /\ goal.hour - t.hour = 1
      BY <1>t, <2>1, <2>4
    <3>3. TurnsLeft(cron, t, goal, d) = 1 + goal.minute + MinutesLeft(cron, t)
      BY <2>4, <3>2 DEF TurnsLeft
    <3> HIDE DEF K
    <3> QED
      BY <1>k, <1>g, <2>3, <3>1, <3>3
  <2>5. CASE SameDay(t, goal) /\ u.hour # goal.hour
    <3>1. u # goal
      BY <2>5
    <3>2. u.hour < goal.hour /\ MinutesLeft(cron, u) = 0
      BY <1>4, <2>1, <2>2, <2>5, <3>1 DEF MinutesLeft
    <3>3. TurnsLeft(cron, u, goal, e) = (goal.hour - u.hour) + goal.minute + 0
      BY <2>2, <2>5, <3>2 DEF TurnsLeft
    <3>4. t.hour # goal.hour
      BY <1>t, <1>g, <2>1, <3>2
    <3>5. TurnsLeft(cron, t, goal, d) = (goal.hour - t.hour) + goal.minute + MinutesLeft(cron, t)
      BY <2>5, <3>4 DEF TurnsLeft
    <3> HIDE DEF K
    <3> QED
      BY <1>k, <1>t, <1>g, <2>1, <2>3, <3>3, <3>5
  <2>6. CASE ~SameDay(t, goal)
    <3>1. u # goal
      BY <2>2, <2>6 DEF SameDay
    <3>2. MinutesLeft(cron, u) = 0
      BY <1>4, <1>9, <2>1, <2>2, <2>6, <3>1 DEF MinutesLeft
    <3>3. TurnsLeft(cron, u, goal, e) = e + goal.hour + goal.minute + ((H - 1 - u.hour) + 0)
      BY <1>9, <2>1, <2>2, <2>6, <3>2 DEF TurnsLeft
    <3>4. TurnsLeft(cron, t, goal, d) = d + goal.hour + goal.minute + ((H - 1 - t.hour) + MinutesLeft(cron, t))
      BY <1>9, <2>6 DEF TurnsLeft
    <3> HIDE DEF H, K
    <3> QED
      BY <1>k, <1>t, <1>g, <2>1, <2>3, <3>3, <3>4
  <2> QED
    BY <2>4, <2>5, <2>6
<1>10. ASSUME u = NextHour(t), t.month \in cron.month, t.day \in cron.day
       PROVE  TurnsLeft(cron, u, goal, e) < TurnsLeft(cron, t, goal, d)
  BY <1>8, <1>9, <1>10 DEF NextHour
<1>11. CASE t.month \notin cron.month
  <2>1. u = NextMonth(t)
    BY <1>11, RepairNext DEF Advance
  <2>2. u.minute = 0 /\ u.hour = 0 /\ u.day = 1 /\ ~SameDay(t, u)
    BY <1>t, <2>1 DEF NextMonth, SameDay
  <2> QED
    BY <1>1, <1>2, <1>3, <1>6, <2>2
<1>12. CASE t.month \in cron.month /\ t.day \notin cron.day
  <2>1. u = NextDay(t)
    BY <1>12, RepairNext DEF Advance
  <2> QED
    BY <1>1, <1>2, <1>3, <1>8, <1>12, <2>1
<1>13. CASE t.month \in cron.month /\ t.day \in cron.day /\ t.hour \notin cron.hour
  <2>1. u = NextHour(t)
    BY <1>13, RepairNext DEF Advance
  <2> QED
    BY <1>1, <1>2, <1>3, <1>10, <1>13, <2>1
<1>14. CASE t.month \in cron.month /\ t.day \in cron.day /\ t.hour \in cron.hour
  <2>1. u = NextMinute(t)
    BY <1>14, RepairNext DEF Advance
  <2>2. CASE t.minute + 1 < MinutesPerHour
    <3>1. u = [month |-> t.month, day |-> t.day, hour |-> t.hour, minute |-> t.minute + 1, year |-> t.year]
      BY <2>1, <2>2 DEF NextMinute
    <3>2. u.month = t.month /\ u.day = t.day /\ u.hour = t.hour /\ u.minute = t.minute + 1 /\ u.year = t.year
      BY <3>1
    <3>3. SameDay(u, goal) <=> SameDay(t, goal)
      BY <3>2 DEF SameDay
    <3>4. MinutesLeft(cron, t) = K - 1 - t.minute /\ MinutesLeft(cron, u) = K - 1 - (t.minute + 1)
      BY <1>14, <3>2 DEF MinutesLeft
    <3>5. CASE SameDay(t, goal) /\ t.hour = goal.hour
      <4>1. TurnsLeft(cron, u, goal, e) = goal.minute - (t.minute + 1)
        BY <3>2, <3>3, <3>5 DEF TurnsLeft
      <4>2. TurnsLeft(cron, t, goal, d) = goal.minute - t.minute
        BY <3>5 DEF TurnsLeft
      <4>3. TurnsLeft(cron, u, goal, e) < TurnsLeft(cron, t, goal, d)
        BY <1>t, <1>g, <4>1, <4>2
      <4> QED
        BY <1>1, <1>2, <1>3, <4>3
    <3>6. CASE SameDay(t, goal) /\ t.hour # goal.hour
      <4>1. TurnsLeft(cron, u, goal, e) = (goal.hour - t.hour) + goal.minute + (K - 1 - (t.minute + 1))
        BY <3>2, <3>3, <3>4, <3>6 DEF TurnsLeft
      <4>2. TurnsLeft(cron, t, goal, d) = (goal.hour - t.hour) + goal.minute + (K - 1 - t.minute)
        BY <3>4, <3>6 DEF TurnsLeft
      <4>3. TurnsLeft(cron, u, goal, e) < TurnsLeft(cron, t, goal, d)
        BY <1>k, <1>t, <1>g, <4>1, <4>2
      <4> QED
        BY <1>1, <1>2, <1>3, <4>3
    <3>7. CASE ~SameDay(t, goal)
      <4>1. TurnsLeft(cron, u, goal, e) = e + goal.hour + goal.minute + ((H - 1 - t.hour) + (K - 1 - (t.minute + 1)))
        BY <1>14, <3>2, <3>3, <3>4, <3>7 DEF TurnsLeft
      <4>2. TurnsLeft(cron, t, goal, d) = d + goal.hour + goal.minute + ((H - 1 - t.hour) + (K - 1 - t.minute))
        BY <1>14, <3>4, <3>7 DEF TurnsLeft
      <4>3. TurnsLeft(cron, u, goal, e) < TurnsLeft(cron, t, goal, d)
        BY <1>k, <1>t, <1>g, <4>1, <4>2
      <4> QED
        BY <1>1, <1>2, <1>3, <4>3
    <3> QED
      BY <3>5, <3>6, <3>7
  <2>3. CASE ~(t.minute + 1 < MinutesPerHour)
    <3>1. u = NextHour(t)
      BY <2>1, <2>3 DEF NextMinute
    <3> QED
      BY <1>1, <1>2, <1>3, <1>10, <1>14, <3>1
  <2> QED
    BY <2>2, <2>3
<1> QED
  BY <1>11, <1>12, <1>13, <1>14

\* There are finitely many days to look at; fewer from a later minute on.
LEMMA DaysLookedLess ==
  ASSUME NEW cron, NEW k \in Int, NEW l \in Int, NEW m \in Int, k <= l
  PROVE  /\ Cardinality(DaysLooked(cron, k, m)) \in Nat
         /\ Cardinality(DaysLooked(cron, l, m)) <= Cardinality(DaysLooked(cron, k, m))
         /\ (/\ k < l /\ l <= m
             /\ DateOf(l).hour = 0 /\ DateOf(l).minute = 0
             /\ DateOf(l).month \in cron.month \/ DateOf(l).day = 1)
              => Cardinality(DaysLooked(cron, l, m)) < Cardinality(DaysLooked(cron, k, m))
<1> DEFINE A == DaysLooked(cron, k, m)
           B == DaysLooked(cron, l, m)
<1>1. IsFiniteSet(A)
  <2>1. IsFiniteSet((k + 1)..m)
    BY FS_Interval
  <2>2. A \in SUBSET ((k + 1)..m)
    BY DEF DaysLooked
  <2> QED
    BY <2>1, <2>2, FS_Subset
<1>2. B \in SUBSET A
  BY DEF DaysLooked
<1>3. (/\ k < l /\ l <= m
       /\ DateOf(l).hour = 0 /\ DateOf(l).minute = 0
       /\ DateOf(l).month \in cron.month \/ DateOf(l).day = 1) => l \in A /\ l \notin B
  BY DEF DaysLooked
<1> HIDE DEF A, B
<1>4. /\ IsFiniteSet(B) /\ Cardinality(B) <= Cardinality(A)
      /\ B # A => Cardinality(B) # Cardinality(A)
  BY <1>1, <1>2, FS_Subset
<1>5. Cardinality(A) \in Nat /\ Cardinality(B) \in Nat
  BY <1>1, <1>4, FS_CardinalityType
<1>6. l \in A /\ l \notin B => Cardinality(B) < Cardinality(A)
  BY <1>4, <1>5
<1>7. /\ Cardinality(A) \in Nat /\ Cardinality(B) <= Cardinality(A)
      /\ (/\ k < l /\ l <= m
          /\ DateOf(l).hour = 0 /\ DateOf(l).minute = 0
          /\ DateOf(l).month \in cron.month \/ DateOf(l).day = 1) => Cardinality(B) < Cardinality(A)
  BY <1>3, <1>4, <1>5, <1>6
<1> QED
  BY <1>7 DEF A, B

\* And an earlier end leaves fewer.
LEMMA DaysLookedUntil ==
  ASSUME NEW cron, NEW k \in Int, NEW l \in Int, NEW m \in Int, l <= m
  PROVE  Cardinality(DaysLooked(cron, k, l)) <= Cardinality(DaysLooked(cron, k, m))
<1>1. IsFiniteSet(DaysLooked(cron, k, m))
  <2>1. IsFiniteSet((k + 1)..m)
    BY FS_Interval
  <2>2. DaysLooked(cron, k, m) \in SUBSET ((k + 1)..m)
    BY DEF DaysLooked
  <2> QED
    BY <2>1, <2>2, FS_Subset
<1>2. DaysLooked(cron, k, l) \in SUBSET DaysLooked(cron, k, m)
  BY DEF DaysLooked
<1> QED
  BY <1>1, <1>2, FS_Subset

\* No more turns are left at the start than days to look at, hours of a day and
\* minutes of an hour: an hour or a minute of the day of t that is still to be looked
\* at is later than that of t, and those of the day of goal are earlier.
LEMMA TurnsLeftAtMost ==
  ASSUME NEW cron, NEW t \in Times, NEW goal \in Times, NEW d \in Nat,
         Matches(cron, goal), t = goal \/ (Before(t, goal) /\ ~Matches(cron, t)),
         \A v \in Times : Before(t, v) /\ Before(v, goal) => ~Matches(cron, v)
  PROVE  /\ TurnsLeft(cron, t, goal, d) \in Int
         /\ TurnsLeft(cron, t, goal, d) <= d + (HoursPerDay - 1) + (MinutesPerHour - 1)
<1> DEFINE v == [month |-> t.month, day |-> t.day, hour |-> t.hour, minute |-> goal.minute, year |-> t.year]
           w == [month |-> t.month, day |-> t.day, hour |-> goal.hour, minute |-> goal.minute, year |-> t.year]
<1>1. /\ t.month \in Int /\ t.day \in Int /\ t.hour \in Int /\ t.minute \in Int /\ t.year \in Int
      /\ 1 <= t.month /\ t.month <= Len(LastDay) /\ 1 <= t.day /\ t.day <= LastDay[t.month]
      /\ 0 <= t.hour /\ t.hour < HoursPerDay /\ 0 <= t.minute /\ t.minute < MinutesPerHour
  BY Fits
<1>2. /\ goal.month \in Int /\ goal.day \in Int /\ goal.hour \in Int /\ goal.minute \in Int /\ goal.year \in Int
      /\ 0 <= goal.hour /\ goal.hour < HoursPerDay /\ 0 <= goal.minute /\ goal.minute < MinutesPerHour
  BY Fits
<1>3. HoursPerDay \in Nat /\ MinutesPerHour \in Nat
  BY CalendarFields
<1>4. v \in Times /\ w \in Times
  BY <1>1, <1>2, IsTime
<1>5. /\ v.month = t.month /\ v.day = t.day /\ v.hour = t.hour /\ v.minute = goal.minute /\ v.year = t.year
      /\ w.month = t.month /\ w.day = t.day /\ w.hour = goal.hour /\ w.minute = goal.minute /\ w.year = t.year
  OBVIOUS
<1> HIDE DEF v, w
<1>6. goal.month \in cron.month /\ goal.day \in cron.day /\ goal.hour \in cron.hour /\ goal.minute \in cron.minute
  BY DEF Matches
<1>7. Before(t, v) /\ Before(v, goal) => ~Matches(cron, v)
  BY <1>4
<1>8. Before(t, w) /\ Before(w, goal) => ~Matches(cron, w)
  BY <1>4
<1>9. Matches(cron, v) <=> t.month \in cron.month /\ t.day \in cron.day /\ t.hour \in cron.hour
  BY <1>5, <1>6 DEF Matches
<1>10. Matches(cron, w) <=> t.month \in cron.month /\ t.day \in cron.day
  BY <1>5, <1>6 DEF Matches
<1>11. CASE SameDay(t, goal) /\ t.hour = goal.hour
  BY <1>1, <1>2, <1>3, <1>11 DEF TurnsLeft
<1>12. CASE SameDay(t, goal) /\ t.hour # goal.hour
  <2>1. t.month \in cron.month /\ t.day \in cron.day /\ Before(t, goal)
    BY <1>6, <1>12 DEF SameDay
  <2>2. t.hour < goal.hour /\ Before(v, goal)
    BY <1>1, <1>2, <1>5, <1>12, <2>1 DEF Before, SameDay
  <2>3. t.hour \in cron.hour => goal.minute <= t.minute
    <3>1. goal.minute > t.minute => Before(t, v)
      BY <1>1, <1>2, <1>5 DEF Before
    <3> QED
      BY <1>1, <1>2, <1>7, <1>9, <2>1, <2>2, <3>1
  <2>4. goal.minute + MinutesLeft(cron, t) \in Int /\ goal.minute + MinutesLeft(cron, t) <= MinutesPerHour - 1
    BY <1>1, <1>2, <1>3, <2>3 DEF MinutesLeft
  <2>5. MinutesLeft(cron, t) \in Int
    BY <1>1, <1>3 DEF MinutesLeft
  <2>6. TurnsLeft(cron, t, goal, d) = (goal.hour - t.hour) + goal.minute + MinutesLeft(cron, t)
    BY <1>12 DEF TurnsLeft
  <2>7. goal.hour - t.hour \in Int /\ goal.hour - t.hour <= HoursPerDay - 1
    BY <1>1, <1>2, <1>3, <2>2
  <2> DEFINE x == goal.hour - t.hour
             y == MinutesLeft(cron, t)
             z == goal.minute
  <2>8. /\ x \in Int /\ y \in Int /\ z \in Int /\ x <= HoursPerDay - 1 /\ z + y <= MinutesPerHour - 1
        /\ TurnsLeft(cron, t, goal, d) = x + z + y
    BY <1>2, <2>4, <2>5, <2>6, <2>7
  <2> HIDE DEF x, y, z
  <2> QED
    BY <1>3, <2>8
<1>13. CASE ~SameDay(t, goal) /\ t.month \in cron.month /\ t.day \in cron.day
  <2>1. t # goal /\ Before(t, goal)
    BY <1>13 DEF SameDay
  <2>2. Before(v, goal) /\ Before(w, goal)
    BY <1>1, <1>2, <1>5, <1>13, <2>1 DEF Before, SameDay
  <2>3. goal.hour <= t.hour
    <3>1. goal.hour > t.hour => Before(t, w)
      BY <1>1, <1>2, <1>5 DEF Before
    <3> QED
      BY <1>1, <1>2, <1>8, <1>10, <1>13, <2>2, <3>1
  <2>4. t.hour \in cron.hour => goal.minute <= t.minute
    <3>1. goal.minute > t.minute => Before(t, v)
      BY <1>1, <1>2, <1>5 DEF Before
    <3> QED
      BY <1>1, <1>2, <1>7, <1>9, <1>13, <2>2, <3>1
  <2>5. goal.minute + MinutesLeft(cron, t) <= MinutesPerHour - 1 /\ MinutesLeft(cron, t) \in Int
    BY <1>1, <1>2, <1>3, <2>4 DEF MinutesLeft
  <2>6. TurnsLeft(cron, t, goal, d) = d + goal.hour + goal.minute + ((HoursPerDay - 1 - t.hour) + MinutesLeft(cron, t))
    BY <1>13 DEF TurnsLeft
  <2> DEFINE x == HoursPerDay - 1 - t.hour
             y == MinutesLeft(cron, t)
             z == goal.minute
             h == goal.hour
  <2>7. /\ x \in Int /\ y \in Int /\ z \in Int /\ h \in Int
        /\ h + x <= HoursPerDay - 1 /\ z + y <= MinutesPerHour - 1
    BY <1>1, <1>2, <1>3, <2>3, <2>5
  <2>8. TurnsLeft(cron, t, goal, d) = d + h + z + (x + y)
    BY <2>6
  <2> HIDE DEF x, y, z, h
  <2> QED
    BY <1>3, <2>7, <2>8
<1>14. CASE ~SameDay(t, goal) /\ ~(t.month \in cron.month /\ t.day \in cron.day)
  BY <1>1, <1>2, <1>3, <1>14 DEF TurnsLeft
<1> QED
  BY <1>11, <1>12, <1>13, <1>14

\* A match the tries suffice for is found.
LEMMA ReachableIsFound ==
  ASSUME NEW cron, NEW n \in Nat, Reachable(cron, n)
  PROVE  NextMatch(cron, n) # NoTime
<1>1. PICK m \in n..(n + Len(Year) - 1) :
        /\ Matches(cron, DateOf(m))
        /\ Cardinality(DaysLooked(cron, n, m)) + (HoursPerDay - 1) + (MinutesPerHour - 1) < MaxIters
  BY DEF Reachable
<1>2. m \in Nat /\ n <= m
  BY <1>1, YearLength
<1> DEFINE M == {k \in Nat : n <= k /\ Matches(cron, DateOf(k))}
<1>3. PICK hit \in M : \A k \in M : hit <= k
  <2>1. M \in SUBSET Nat /\ M # {}
    BY <1>1, <1>2
  <2> HIDE DEF M
  <2> QED
    BY <2>1, Least
<1>4. hit \in Nat /\ n <= hit /\ hit <= m /\ Matches(cron, DateOf(hit))
  BY <1>1, <1>2, <1>3
<1> DEFINE goal == DateOf(hit)
           f == Tries(cron, n)
           days(t) == Cardinality(DaysLooked(cron, NumberOf(t), hit))
           left(t) == TurnsLeft(cron, t, goal, days(t))
           Good(t) == /\ t \in Times /\ NumberOf(t) \in Int /\ n <= NumberOf(t) /\ NumberOf(t) <= hit
                      /\ DateOf(NumberOf(t)) = t /\ days(t) \in Nat
                      /\ t = goal \/ Before(t, goal)
                      /\ \A v \in Times : Before(t, v) /\ Before(v, goal) => ~Matches(cron, v)
<1>5. goal \in Times /\ DateOf(n) \in Times /\ hit \in Int /\ n \in Int
  BY <1>4, DateOfIs
<1>6. f[0] = DateOf(n) /\ \A j \in 1..(MaxIters - 1) : f[j] = Turn(cron, f[j - 1])
  BY <1>5, TriesAre, RepairsNothing
<1>7. ASSUME NEW i \in 0..(MaxIters - 1)
      PROVE  Good(f[i])
  <2>1. /\ f[i] \in Times /\ Stamp(DateOf(n)) <= Stamp(f[i])
        /\ \A v \in Times : Stamp(DateOf(n)) <= Stamp(v) /\ Stamp(v) < Stamp(f[i]) => ~Matches(cron, v)
    BY <1>5, TriesPassNothing
  <2> DEFINE t == f[i]
             k == NumberOf(t)
  <2> HIDE DEF f
  <2>2. k \in Int /\ DateOf(k) = t
    BY <2>1, DateOfNumber
  <2> HIDE DEF t, k
  <2>3. t \in Times /\ Stamp(DateOf(n)) <= Stamp(t)
        /\ \A v \in Times : Stamp(DateOf(n)) <= Stamp(v) /\ Stamp(v) < Stamp(t) => ~Matches(cron, v)
    BY <2>1 DEF t
  <2>4. n <= k
    BY <1>5, <2>2, <2>3, NumbersAreOrdered
  <2>5. ~(Stamp(goal) < Stamp(t))
    <3>1. Stamp(DateOf(n)) <= Stamp(goal)
      BY <1>4, <1>5, NumbersAreOrdered
    <3> QED
      BY <1>4, <1>5, <2>3, <3>1
  <2>6. Stamp(goal) \in Int /\ Stamp(t) \in Int
    BY <1>5, <2>3, StampOfTime
  <2>7. Stamp(t) <= Stamp(goal)
    BY <2>5, <2>6
  <2>8. k <= hit
    BY <1>5, <2>2, <2>7, NumbersAreOrdered
  <2>9. t = goal \/ Before(t, goal)
    <3>1. Stamp(t) = Stamp(goal) \/ Stamp(t) < Stamp(goal)
      BY <2>6, <2>7
    <3> QED
      BY <1>5, <2>3, <3>1, StampOfTime, StampOrder
  <2>10. ASSUME NEW v \in Times, Before(t, v), Before(v, goal)
         PROVE  ~Matches(cron, v)
    <3>1. NumberOf(v) \in Int /\ DateOf(NumberOf(v)) = v
      BY DateOfNumber
    <3>2. Stamp(t) < Stamp(v) /\ Stamp(v) < Stamp(goal)
      BY <1>5, <2>3, <2>10, StampOrder
    <3>3. k < NumberOf(v)
      BY <2>2, <3>1, <3>2, NumbersAreOrdered
    <3>4. NumberOf(v) < hit
      BY <1>5, <3>1, <3>2, NumbersAreOrdered
    <3>5. NumberOf(v) \in Nat /\ n <= NumberOf(v) /\ NumberOf(v) \notin M
      BY <1>3, <1>4, <2>2, <2>4, <3>1, <3>3, <3>4
    <3> QED
      BY <3>1, <3>5
  <2>11. Cardinality(DaysLooked(cron, k, hit)) \in Nat
    BY <1>5, <2>2, DaysLookedLess
  <2> QED
    BY <2>2, <2>3, <2>4, <2>8, <2>9, <2>10, <2>11 DEF t, k
<1> HIDE DEF f
<1>8. ASSUME NEW t, NEW u, Good(t), Good(u), ~Matches(cron, t), u = Turn(cron, t)
      PROVE  left(u) < left(t) /\ left(u) \in Nat /\ left(t) \in Nat
  <2>1. u = Repair(Advance(cron, t)) /\ Before(t, goal)
    BY <1>4, <1>8 DEF Turn
  <2>2. Stamp(t) < Stamp(u)
    BY <1>8, <2>1, OneTurn
  <2>3. NumberOf(t) < NumberOf(u)
    BY <1>8, <2>2, NumbersAreOrdered
  <2>4. /\ days(u) <= days(t)
        /\ u.hour = 0 /\ u.minute = 0 /\ (u.month \in cron.month \/ u.day = 1) => days(u) < days(t)
    BY <1>5, <1>8, <2>3, DaysLookedLess
  <2>5. /\ t \in Times /\ u \in Times /\ goal \in Times /\ days(t) \in Nat /\ days(u) \in Nat
        /\ \A v \in Times : Before(t, v) /\ Before(v, goal) => ~Matches(cron, v)
        /\ Matches(cron, goal)
    BY <1>4, <1>5, <1>8
  <2> DEFINE d == days(t)
             e == days(u)
  <2> HIDE DEF d, e, goal
  <2>6. TurnsLeft(cron, u, goal, e) < TurnsLeft(cron, t, goal, d)
        /\ TurnsLeft(cron, u, goal, e) \in Nat /\ TurnsLeft(cron, t, goal, d) \in Nat
    BY <1>8, <2>1, <2>4, <2>5, TurnsLeftDecrease DEF d, e
  <2> QED
    BY <2>6 DEF d, e
<1> HIDE DEF Good
<1> DEFINE T == {j \in Nat : j <= MaxIters - 1 =>
                    Matches(cron, f[j]) \/ (left(f[j]) \in Int /\ left(f[j]) + j <= left(f[0]))}
<1>9. left(f[0]) \in Int /\ left(f[0]) < MaxIters
  <2>1. 0 \in 0..(MaxIters - 1)
    BY TimeAssumption
  <2>2. f[0] \in Times /\ days(f[0]) \in Nat
    BY <1>7, <2>1 DEF Good
  <2>3. days(f[0]) = Cardinality(DaysLooked(cron, n, hit))
    BY <1>5, <1>6, NumberOfDate
  <2>4. days(f[0]) <= Cardinality(DaysLooked(cron, n, m)) /\ Cardinality(DaysLooked(cron, n, m)) \in Nat
    BY <1>2, <1>4, <1>5, <2>3, DaysLookedUntil, DaysLookedLess
  <2>5. ASSUME f[0] # goal
        PROVE  Before(f[0], goal) /\ ~Matches(cron, f[0])
    <3>1. n < hit /\ n \notin M
      BY <1>3, <1>4, <1>5, <1>6, <2>5
    <3>2. ~Matches(cron, f[0])
      BY <1>6, <3>1
    <3> QED
      BY <1>7, <2>1, <2>5, <3>2 DEF Good
  <2>6. left(f[0]) \in Int /\ left(f[0]) <= days(f[0]) + (HoursPerDay - 1) + (MinutesPerHour - 1)
    <3> DEFINE t == f[0]
               d == days(f[0])
    <3>1. /\ t \in Times /\ d \in Nat /\ Matches(cron, goal) /\ goal \in Times
          /\ t = goal \/ (Before(t, goal) /\ ~Matches(cron, t))
          /\ \A v \in Times : Before(t, v) /\ Before(v, goal) => ~Matches(cron, v)
      BY <1>4, <1>5, <1>7, <2>1, <2>5 DEF Good
    <3> HIDE DEF t, d, goal
    <3>2. TurnsLeft(cron, t, goal, d) \in Int
          /\ TurnsLeft(cron, t, goal, d) <= d + (HoursPerDay - 1) + (MinutesPerHour - 1)
      BY <3>1, TurnsLeftAtMost
    <3> QED
      BY <3>2 DEF t, d
  <2> HIDE DEF days, left
  <2> QED
    BY <1>1, <2>2, <2>4, <2>6, CalendarFields, TimeAssumption
<1> HIDE DEF left
<1>10. 0 \in T
  BY <1>9
<1>11. ASSUME NEW j \in Nat, j \in T
       PROVE  j + 1 \in T
  <2> SUFFICES ASSUME j + 1 <= MaxIters - 1, ~Matches(cron, f[j + 1])
               PROVE  left(f[j + 1]) \in Int /\ left(f[j + 1]) + (j + 1) <= left(f[0])
    OBVIOUS
  <2>1. j \in 0..(MaxIters - 1) /\ j + 1 \in 0..(MaxIters - 1) /\ j + 1 \in 1..(MaxIters - 1) /\ (j + 1) - 1 = j
    BY TimeAssumption
  <2>2. f[j + 1] = Turn(cron, f[j])
    BY <1>6, <2>1
  <2>3. ~Matches(cron, f[j])
    BY <2>2 DEF Turn
  <2>4. left(f[j + 1]) < left(f[j]) /\ left(f[j + 1]) \in Nat /\ left(f[j]) \in Nat
    BY <1>7, <1>8, <2>1, <2>2, <2>3
  <2>5. left(f[j]) + j <= left(f[0])
    BY <1>11, <2>1, <2>3
  <2> QED
    BY <1>9, <2>4, <2>5
<1>12. Nat \subseteq T
  <2> HIDE DEF T
  <2> QED
    BY <1>10, <1>11, SetInduction
<1> DEFINE last == f[MaxIters - 1]
<1>13. MaxIters - 1 \in Nat /\ MaxIters - 1 \in 0..(MaxIters - 1)
  BY TimeAssumption
<1>14. Matches(cron, last)
  <2> SUFFICES ASSUME ~Matches(cron, last)
               PROVE  FALSE
    OBVIOUS
  <2>1. left(last) \in Int /\ left(last) + (MaxIters - 1) <= left(f[0])
    BY <1>12, <1>13
  <2>2. Good(last)
    BY <1>7, <1>13
  <2> DEFINE u == Turn(cron, last)
  <2>3. Good(u)
    <3>1. /\ last \in Times /\ last # goal /\ Before(last, goal)
          /\ \A v \in Times : Before(last, v) /\ Before(v, goal) => ~Matches(cron, v)
          /\ NumberOf(last) \in Int /\ DateOf(NumberOf(last)) = last /\ n <= NumberOf(last)
      BY <1>4, <2>2 DEF Good
    <3>2. u = Repair(Advance(cron, last))
      BY DEF Turn
    <3>3. /\ u \in Times /\ Stamp(last) < Stamp(u)
          /\ \A v \in Times : Stamp(last) < Stamp(v) /\ Stamp(v) < Stamp(u) => ~Matches(cron, v)
      BY <3>1, <3>2, OneTurn
    <3> HIDE DEF u, last
    <3>4. Stamp(last) \in Int /\ Stamp(u) \in Int /\ Stamp(goal) \in Int
      BY <1>5, <3>1, <3>3, StampOfTime
    <3>5. Stamp(last) < Stamp(goal)
      BY <1>5, <3>1, StampOrder
    <3>6. Stamp(u) = Stamp(goal) \/ Stamp(u) < Stamp(goal)
      BY <1>4, <1>5, <3>3, <3>4, <3>5
    <3>7. u = goal \/ Before(u, goal)
      BY <1>5, <3>3, <3>6, StampOfTime, StampOrder
    <3>8. NumberOf(u) \in Int /\ DateOf(NumberOf(u)) = u
      BY <3>3, DateOfNumber
    <3>9. NumberOf(last) < NumberOf(u)
      <4> DEFINE k == NumberOf(last)
                 l == NumberOf(u)
      <4>1. k \in Int /\ l \in Int /\ DateOf(k) = last /\ DateOf(l) = u
        BY <3>1, <3>8
      <4> HIDE DEF k, l
      <4>2. k < l
        BY <3>3, <4>1, NumbersAreOrdered
      <4> QED
        BY <4>2 DEF k, l
    <3>10. NumberOf(u) <= hit
      BY <1>5, <3>4, <3>6, <3>8, NumbersAreOrdered
    <3>11. days(u) \in Nat
      BY <1>5, <3>8, DaysLookedLess
    <3>12. ASSUME NEW v \in Times, Before(u, v), Before(v, goal)
           PROVE  ~Matches(cron, v)
      <4>1. Stamp(u) < Stamp(v) /\ Stamp(v) \in Int
        BY <3>3, <3>12, StampOrder, StampOfTime
      <4>2. Before(last, v)
        BY <3>1, <3>3, <3>4, <4>1, StampOrder
      <4> QED
        BY <3>1, <3>12, <4>2
    <3>13. n <= NumberOf(u)
      <4>1. NumberOf(last) \in Int /\ n <= NumberOf(last) /\ NumberOf(u) \in Int
        BY <3>1, <3>8
      <4> QED
        BY <1>5, <3>9, <4>1
    <3> QED
      BY <3>3, <3>7, <3>8, <3>10, <3>11, <3>12, <3>13 DEF Good
  <2>4. left(u) < left(last) /\ left(u) \in Nat /\ left(last) \in Nat
    BY <1>8, <2>2, <2>3
  <2> QED
    BY <1>9, <2>1, <2>4, TimeAssumption
<1>15. NextMatch(cron, n) = NumberOf(last)
  BY <1>14 DEF NextMatch, f
<1>16. NumberOf(last) \in Int /\ n <= NumberOf(last)
  BY <1>7, <1>13 DEF Good
<1> QED
  BY <1>15, <1>16 DEF NoTime

\* Whole years do not change the remainder: what the calendar's period rests on.
LEMMA Remainder ==
  ASSUME NEW L \in Nat, L > 0, NEW m \in Int, NEW q \in Int
  PROVE  (m + q * L) % L = m % L
<1> DEFINE r == m % L
           s == (m + q * L) % L
           a == m \div L
           b == (m + q * L) \div L
           c == a + q - b
<1>1. q * L \in Int
  OBVIOUS
<1>2. r \in 0..(L - 1) /\ a \in Int /\ m = L * a + r
  OBVIOUS
<1>3. s \in 0..(L - 1) /\ b \in Int /\ m + q * L = L * b + s
  BY <1>1
<1>4. c \in Int /\ L * c = s - r
  BY <1>2, <1>3
<1> HIDE DEF r, s, a, b, c
<1>5. c = 0
  <2>1. CASE c >= 1
    <3>1. L * c >= L
      BY <1>4, <2>1
    <3> QED
      BY <1>2, <1>3, <1>4, <3>1
  <2>2. CASE c <= -1
    <3>1. L * c <= -L
      BY <1>4, <2>2
    <3> QED
      BY <1>2, <1>3, <1>4, <3>1
  <2> QED
    BY <1>4, <2>1, <2>2
<1>6. s = r
  BY <1>2, <1>3, <1>4, <1>5
<1> QED
  BY <1>6 DEF s, r

\* What matches a minute matches one within a year of any earlier minute too.
LEMMA Periodic ==
  ASSUME NEW n \in Int, NEW from \in Int, from <= n, NEW cron, Matches(cron, DateOf(n))
  PROVE  \E m \in from..(from + Len(Year) - 1) : m <= n /\ Matches(cron, DateOf(m))
<1> DEFINE L == Len(Year)
<1>1. L \in Nat /\ L > 0
  BY YearLength
<1> HIDE DEF L
<1>2. \E d \in 0..(L - 1), q \in Nat : n - from = d + q * L /\ d <= n - from
  <2>1. n - from \in Nat
    OBVIOUS
  <2>2. ASSUME NEW k \in Nat
        PROVE  k % L \in 0..(L - 1) /\ k % L <= k /\ k \div L \in Nat /\ k = (k % L) + (k \div L) * L
    BY <1>1
  <2> QED
    BY <2>1, <2>2
<1>3. PICK d \in 0..(L - 1), q \in Nat : n - from = d + q * L /\ d <= n - from
  BY <1>2
<1> DEFINE m == from + d
<1>4. m \in from..(from + L - 1) /\ m <= n
  BY <1>1, <1>3
<1>5. n = m + q * L
  <2>1. q * L \in Int
    BY <1>1
  <2> QED
    BY <1>3, <2>1
<1>6. m % L = n % L
  <2>1. m \in Int /\ q \in Int
    BY <1>4
  <2> HIDE DEF m
  <2> QED
    BY <1>1, <1>5, <2>1, Remainder
<1> HIDE DEF m
<1>7. Matches(cron, DateOf(m))
  BY <1>6 DEF L, Matches, DateOf
<1> QED
  BY <1>4, <1>7 DEF L

-----------------------------------------------------------------------------
(* CastScheduler: pending holds the first match of every row. *)

\* The rows are those an operator may write or that were there at the start, and
\* the clock is between its bounds.
RowsKnown ==
  /\ DOMAIN rows = Entries
  /\ \A e \in Entries : /\ rows[e] \in RowPlans \cup {NoPlan, FirstTable[e]}
                        /\ loaded[e] \in RowPlans \cup {NoPlan, FirstTable[e]}
Bounded == now \in FirstMinute..Horizon /\ parsedAt \in FirstMinute..Horizon

\* Pending holds what the search found when it was last built, whatever was marked since.
Searched(e) == NextMatch(loaded[e].cron, parsedAt + Pre)
TimesBuilt ==
  /\ DOMAIN pending = {e \in Entries : loaded[e] # NoPlan /\ Searched(e) # NoTime}
  /\ \A e \in DOMAIN pending :
       {"time", "mark"} \subseteq DOMAIN pending[e] /\ pending[e].time = Searched(e)

\* The inductive invariant of what is in pending.
BuiltInv == RowsKnown /\ Bounded /\ TimesBuilt

\* What parse_db makes of rows.
LEMMA BuiltOf ==
  ASSUME pending = Parsed(loaded, parsedAt)
  PROVE  TimesBuilt
<1> DEFINE next == [e \in {x \in Entries : loaded[x] # NoPlan} |-> Searched(e)]
           found == {e \in DOMAIN next : next[e] # NoTime}
<1>1. pending = [e \in found |-> [time |-> next[e], mark |-> "none"]]
  BY DEF Parsed, Searched
<1>2. found = {e \in Entries : loaded[e] # NoPlan /\ Searched(e) # NoTime}
      /\ \A e \in found : next[e] = Searched(e)
  OBVIOUS
<1> HIDE DEF next, found
<1>3. \A e \in found : {"time", "mark"} \subseteq DOMAIN pending[e] /\ pending[e].time = next[e]
  BY <1>1
<1> QED
  BY <1>1, <1>2, <1>3 DEF TimesBuilt

\* And of what is built in a step.
LEMMA BuiltOfNext ==
  ASSUME pending' = Parsed(loaded', parsedAt')
  PROVE  TimesBuilt'
<1> DEFINE next == [e \in {x \in Entries : loaded'[x] # NoPlan} |-> Searched(e)']
           found == {e \in DOMAIN next : next[e] # NoTime}
<1>1. pending' = [e \in found |-> [time |-> next[e], mark |-> "none"]]
  BY DEF Parsed, Searched
<1>2. found = {e \in Entries : loaded'[e] # NoPlan /\ Searched(e)' # NoTime}
      /\ \A e \in found : next[e] = Searched(e)'
  OBVIOUS
<1> HIDE DEF next, found
<1>3. \A e \in found : {"time", "mark"} \subseteq DOMAIN pending'[e] /\ pending'[e].time = next[e]
  BY <1>1
<1> QED
  BY <1>1, <1>2, <1>3 DEF TimesBuilt

\* At the start pending is built of the first table.
LEMMA BuiltInit == SchedulerInit => BuiltInv
<1> SUFFICES ASSUME SchedulerInit PROVE BuiltInv
  OBVIOUS
<1>1. /\ rows = FirstTable /\ loaded = FirstTable /\ now = FirstMinute /\ parsedAt = FirstMinute
      /\ pending = Parsed(FirstTable, FirstMinute)
  BY DEF SchedulerInit
<1>2. RowsKnown
  BY <1>1, PlanAssumption DEF RowsKnown
<1>3. Bounded
  BY <1>1, TimeAssumption DEF Bounded
<1>4. TimesBuilt
  BY <1>1, BuiltOf
<1> QED
  BY <1>2, <1>3, <1>4 DEF BuiltInv

\* Marks leave the times as they were built.
LEMMA TimesKept ==
  ASSUME TimesBuilt, UNCHANGED <<loaded, parsedAt>>,
         DOMAIN pending' = DOMAIN pending,
         \A e \in DOMAIN pending :
           {"time", "mark"} \subseteq DOMAIN pending'[e] /\ pending'[e].time = pending[e].time
  PROVE  TimesBuilt'
BY DEF TimesBuilt, Searched

\* Marking some entries is such a change.
LEMMA MarksKeep ==
  ASSUME TimesBuilt, UNCHANGED <<loaded, parsedAt>>, NEW S, NEW v,
         pending' = [e \in DOMAIN pending |->
                      IF e \in S THEN [pending[e] EXCEPT !.mark = v] ELSE pending[e]]
  PROVE  TimesBuilt'
<1>1. DOMAIN pending' = DOMAIN pending
  OBVIOUS
<1>2. ASSUME NEW e \in DOMAIN pending
      PROVE  {"time", "mark"} \subseteq DOMAIN pending'[e] /\ pending'[e].time = pending[e].time
  <2>1. {"time", "mark"} \subseteq DOMAIN pending[e]
    BY DEF TimesBuilt
  <2> QED
    BY <2>1
<1> QED
  BY <1>1, <1>2, TimesKept

\* Only parse_db changes what pending was built of, and then builds it anew.
LEMMA TimesNext ==
  ASSUME TimesBuilt, [SchedulerNext]_schedulerVars
  PROVE  TimesBuilt'
<1>1. ASSUME UNCHANGED <<pending, loaded, parsedAt>>
      PROVE  TimesBuilt'
  BY <1>1 DEF TimesBuilt, Searched
<1>2. CASE Scheduler
  <2>1. CASE SWake \/ Purge \/ Give
    BY <1>1, <2>1 DEF SWake, Purge, Give
  <2>2. CASE Reparse
    <3>1. pending' = Parsed(loaded', parsedAt')
      BY <2>2 DEF Reparse, ParseDb
    <3> QED
      BY <3>1, BuiltOfNext
  <2>3. CASE Poll
    <3>1. CASE news
      <4>1. pending' = Parsed(loaded', parsedAt')
        BY <2>3, <3>1 DEF Poll, LoadDb
      <4> QED
        BY <4>1, BuiltOfNext
    <3>2. CASE ~news
      BY <1>1, <2>3, <3>2 DEF Poll
    <3> QED
      BY <3>1, <3>2
  <2>4. CASE Scan
    BY <2>4, MarksKeep DEF Scan
  <2>5. CASE Combine
    <3> DEFINE plain == {e \in DOMAIN ready : ~ready[e].isco}
    <3>0. UNCHANGED <<loaded, parsedAt>>
      BY <2>5 DEF Combine
    <3>1. CASE Cardinality(plain) < 2
      BY <1>1, <2>5, <3>0, <3>1 DEF Combine
    <3>2. CASE ~(Cardinality(plain) < 2)
      <4>1. PICK first \in plain :
              pending' = [e \in DOMAIN pending |->
                    IF e \in plain \ {first} THEN [pending[e] EXCEPT !.mark = "none"] ELSE pending[e]]
        BY <2>5, <3>2 DEF Combine
      <4> HIDE DEF plain
      <4> QED
        BY <3>0, <4>1, MarksKeep
    <3> QED
      BY <3>1, <3>2
  <2> QED
    BY <1>2, <2>1, <2>2, <2>3, <2>4, <2>5 DEF Scheduler
<1>3. CASE Launcher
  <2>1. CASE \E e \in Entries : Mark(e)
    <3>1. PICK e \in Entries : Mark(e)
      BY <2>1
    <3>2. CASE e \in DOMAIN pending
      <4>1. UNCHANGED <<loaded, parsedAt>> /\ pending' = [pending EXCEPT ![e].mark = "processed"]
        BY <3>1, <3>2 DEF Mark, sched
      <4>2. pending' = [x \in DOMAIN pending |->
                 IF x \in {e} THEN [pending[x] EXCEPT !.mark = "processed"] ELSE pending[x]]
        BY <4>1
      <4> QED
        BY <4>1, <4>2, MarksKeep
    <3>3. CASE e \notin DOMAIN pending
      BY <1>1, <3>1, <3>3 DEF Mark, sched
    <3> QED
      BY <3>2, <3>3
  <2>2. CASE Acting
    <3>2. CASE Current \in DOMAIN pending
      <4> DEFINE e == Current
      <4>1. UNCHANGED <<loaded, parsedAt>> /\ pending' = [pending EXCEPT ![e].mark = "acting"]
        BY <2>2, <3>2 DEF Acting, sched
      <4> HIDE DEF e
      <4>2. pending' = [x \in DOMAIN pending |->
                 IF x \in {e} THEN [pending[x] EXCEPT !.mark = "acting"] ELSE pending[x]]
        BY <4>1
      <4> QED
        BY <4>1, <4>2, MarksKeep
    <3>3. CASE Current \notin DOMAIN pending
      BY <1>1, <2>2, <3>3 DEF Acting, sched
    <3> QED
      BY <3>2, <3>3
  <2>3. CASE \E e \in Entries : Crowd(e)
    BY <1>1, <2>3 DEF Crowd, sched
  <2>4. CASE \/ LWake \/ ReadState \/ Resume \/ Calibrated \/ Look \/ Marked
             \/ Invalid \/ Casting \/ ConfigFails \/ CastEnds \/ Finish \/ RoundEnds
    BY <1>1, <2>4 DEF LWake, ReadState, Resume, Calibrated, Look, Marked,
             Invalid, Casting, ConfigFails, CastEnds, Finish, RoundEnds, sched
  <2> QED
    BY <1>3, <2>1, <2>2, <2>3, <2>4 DEF Launcher
<1>4. CASE World
  BY <1>1, <1>4 DEF World, Tick, Edit, Order, sched
<1>5. CASE UNCHANGED schedulerVars
  BY <1>1, <1>5 DEF schedulerVars, sched
<1> QED
  BY <1>2, <1>3, <1>4, <1>5 DEF SchedulerNext

\* Rows and the clock: only operators write rows, and pending is built of rows at the
\* minute it is.
LEMMA BuiltNext ==
  ASSUME BuiltInv, [SchedulerNext]_schedulerVars
  PROVE  BuiltInv'
<1>0. RowsKnown /\ Bounded /\ TimesBuilt
  BY DEF BuiltInv
<1>1. TimesBuilt'
  BY <1>0, TimesNext
<1> SUFFICES RowsKnown' /\ Bounded'
  BY <1>1 DEF BuiltInv
<1>2. ASSUME UNCHANGED <<rows, loaded, now, parsedAt>>
      PROVE  RowsKnown' /\ Bounded'
  BY <1>0, <1>2 DEF RowsKnown, Bounded
<1>3. CASE Scheduler
  <2>1. CASE SWake \/ Purge \/ Scan \/ Give
    BY <1>2, <2>1 DEF SWake, Purge, Scan, Give, table
  <2>2. CASE Combine
    BY <1>2, <2>2 DEF Combine, table
  <2>3. CASE Reparse
    BY <1>0, <2>3 DEF Reparse, ParseDb, table, RowsKnown, Bounded
  <2>4. CASE Poll
    <3>1. CASE news
      BY <1>0, <2>4, <3>1 DEF Poll, LoadDb, RowsKnown, Bounded
    <3>2. CASE ~news
      BY <1>2, <2>4, <3>2 DEF Poll
    <3> QED
      BY <3>1, <3>2
  <2> QED
    BY <1>3, <2>1, <2>2, <2>3, <2>4 DEF Scheduler
<1>4. CASE Launcher
  <2>1. CASE \E e \in Entries : Crowd(e) \/ Mark(e)
    BY <1>2, <2>1 DEF Crowd, Mark, table, sched
  <2>2. CASE \/ LWake \/ ReadState \/ Resume \/ Calibrated \/ Look \/ Marked \/ Acting
             \/ Invalid \/ Casting \/ ConfigFails \/ CastEnds \/ Finish \/ RoundEnds
    BY <1>2, <2>2 DEF LWake, ReadState, Resume, Calibrated, Look, Marked, Acting,
             Invalid, Casting, ConfigFails, CastEnds, Finish, RoundEnds, table, sched
  <2> QED
    BY <1>4, <2>1, <2>2 DEF Launcher
<1>5. CASE World
  <2>1. CASE Tick
    BY <1>0, <2>1, TimeAssumption DEF Tick, table, sched, RowsKnown, Bounded
  <2>2. CASE \E e \in Entries, p \in RowPlans \cup {NoPlan} : Edit(e, p)
    BY <1>0, <2>2 DEF Edit, sched, RowsKnown, Bounded
  <2>3. CASE \E v \in Orders : Order(v)
    BY <1>2, <2>3 DEF Order, table, sched
  <2> QED
    BY <1>5, <2>1, <2>2, <2>3 DEF World
<1>6. CASE UNCHANGED schedulerVars
  BY <1>2, <1>6 DEF schedulerVars, table, sched
<1> QED
  BY <1>3, <1>4, <1>5, <1>6 DEF SchedulerNext

\* What pending names is the first minute that matches its row, at or after the
\* earliest that can still be prepared.
FoundIsEarliest ==
  \A e \in DOMAIN pending :
    /\ e \in Entries /\ loaded[e] # NoPlan /\ pending[e].time \in Nat
    /\ parsedAt + Pre <= pending[e].time /\ Matches(loaded[e].cron, DateOf(pending[e].time))
    /\ \A n \in Nat : parsedAt + Pre <= n /\ n < pending[e].time => ~Matches(loaded[e].cron, DateOf(n))

\* What pending was built of is the first match from then on.
LEMMA BuiltIsEarliest == BuiltInv => FoundIsEarliest
<1> SUFFICES ASSUME BuiltInv, NEW e \in DOMAIN pending
             PROVE  /\ e \in Entries /\ loaded[e] # NoPlan /\ pending[e].time \in Nat
                    /\ parsedAt + Pre <= pending[e].time /\ Matches(loaded[e].cron, DateOf(pending[e].time))
                    /\ \A n \in Nat : parsedAt + Pre <= n /\ n < pending[e].time
                          => ~Matches(loaded[e].cron, DateOf(n))
  BY DEF FoundIsEarliest
<1>1. e \in Entries /\ loaded[e] # NoPlan /\ Searched(e) # NoTime /\ pending[e].time = Searched(e)
  BY DEF BuiltInv, TimesBuilt
<1>2. parsedAt + Pre \in Nat
  BY TimeAssumption DEF BuiltInv, Bounded
<1> DEFINE cron == loaded[e].cron
           from == parsedAt + Pre
<1> HIDE DEF cron, from
<1>3. pending[e].time = NextMatch(cron, from) /\ NextMatch(cron, from) # NoTime /\ from \in Nat
  BY <1>1, <1>2 DEF Searched, cron, from
<1>4. /\ NextMatch(cron, from) \in Nat /\ from <= NextMatch(cron, from)
      /\ Matches(cron, DateOf(NextMatch(cron, from)))
      /\ \A k \in Nat : from <= k /\ k < NextMatch(cron, from) => ~Matches(cron, DateOf(k))
  BY <1>3, FoundMatch
<1> QED
  BY <1>1, <1>3, <1>4 DEF cron, from

\* With rows in reach of the tries, it is there whenever the row matches at all.
LEMMA BuiltIsNext == RowsInReach /\ BuiltInv => NextIsEarliest
<1> SUFFICES ASSUME RowsInReach, BuiltInv, NEW e \in Entries
             PROVE  LET from == parsedAt + Pre
                        hits == {n \in from..(from + Len(Year) - 1) :
                                    loaded[e] # NoPlan /\ Matches(loaded[e].cron, DateOf(n))}
                    IN IF hits = {} THEN e \notin DOMAIN pending
                       ELSE /\ e \in DOMAIN pending
                            /\ pending[e].time \in hits /\ \A n \in hits : pending[e].time <= n
  BY DEF NextIsEarliest
<1> DEFINE from == parsedAt + Pre
           cron == loaded[e].cron
           hits == {n \in from..(from + Len(Year) - 1) : loaded[e] # NoPlan /\ Matches(cron, DateOf(n))}
<1>1. from \in Nat /\ from \in (FirstMinute + Pre)..(Horizon + Pre)
  BY TimeAssumption DEF BuiltInv, Bounded
<1>2. e \in DOMAIN pending <=> loaded[e] # NoPlan /\ NextMatch(cron, from) # NoTime
  BY DEF BuiltInv, TimesBuilt, Searched
<1>3. e \in DOMAIN pending =>
        /\ loaded[e] # NoPlan /\ pending[e].time \in Nat /\ from <= pending[e].time
        /\ Matches(cron, DateOf(pending[e].time))
        /\ \A n \in Nat : from <= n /\ n < pending[e].time => ~Matches(cron, DateOf(n))
  BY BuiltIsEarliest DEF FoundIsEarliest
<1>4. (\E n \in from..(from + Len(Year) - 1) : Matches(cron, DateOf(n))) /\ loaded[e] # NoPlan
        => Reachable(cron, from)
  <2>1. loaded[e] \in RowPlans \cup {NoPlan, FirstTable[e]}
    BY DEF BuiltInv, RowsKnown
  <2> QED
    BY <1>1, <2>1 DEF RowsInReach
<1> HIDE DEF from, cron
<1>5. CASE hits = {}
  <2>1. ASSUME e \in DOMAIN pending
        PROVE  FALSE
    <3>1. /\ loaded[e] # NoPlan /\ pending[e].time \in Int /\ from <= pending[e].time /\ from \in Int
          /\ Matches(cron, DateOf(pending[e].time))
      BY <1>1, <1>3, <2>1
    <3>2. \E m \in from..(from + Len(Year) - 1) : m <= pending[e].time /\ Matches(cron, DateOf(m))
      BY <3>1, Periodic
    <3> QED
      BY <1>5, <3>1, <3>2
  <2> QED
    BY <1>5, <2>1 DEF from, cron
<1>6. CASE hits # {}
  <2>1. loaded[e] # NoPlan /\ Reachable(cron, from)
    BY <1>4, <1>6
  <2>2. e \in DOMAIN pending
    BY <1>1, <1>2, <2>1, ReachableIsFound
  <2> DEFINE k == pending[e].time
  <2>3. /\ k \in Nat /\ from <= k /\ Matches(cron, DateOf(k))
        /\ \A n \in Nat : from <= n /\ n < k => ~Matches(cron, DateOf(n))
    BY <1>3, <2>2
  <2> HIDE DEF k
  <2>4. PICK m \in from..(from + Len(Year) - 1) : m <= k /\ Matches(cron, DateOf(m))
    BY <1>1, <2>3, Periodic
  <2>5. m \in Nat /\ from <= m
    BY <1>1, <2>4, YearLength
  <2>6. m = k
    BY <2>3, <2>4, <2>5
  <2>7. k \in hits
    BY <2>1, <2>4, <2>6
  <2>8. ASSUME NEW n \in hits
        PROVE  k <= n
    <3>1. n \in Nat /\ from <= n /\ Matches(cron, DateOf(n))
      BY <1>1, YearLength
    <3> QED
      BY <2>3, <3>1
  <2> QED
    BY <1>6, <2>2, <2>7, <2>8 DEF from, cron, k
<1> QED
  BY <1>5, <1>6

\* However few the tries, a cast is never planned for a minute that does not match its
\* row, nor for a later one than the first that does.
THEOREM SearchIsSound == SchedulerSpec => []FoundIsEarliest
<1>1. SchedulerInit => BuiltInv
  BY BuiltInit
<1>2. BuiltInv /\ [SchedulerNext]_schedulerVars => BuiltInv'
  BY BuiltNext
<1>3. BuiltInv => FoundIsEarliest
  BY BuiltIsEarliest
<1> QED
  BY <1>1, <1>2, <1>3, PTL DEF SchedulerSpec

\* With rows in reach of the tries, the next match of every row is found.
THEOREM NextMatchIsFound ==
  ASSUME RowsInReach
  PROVE  SchedulerSpec => []NextIsEarliest
<1>1. SchedulerInit => BuiltInv
  BY BuiltInit
<1>2. BuiltInv /\ [SchedulerNext]_schedulerVars => BuiltInv'
  BY BuiltNext
<1>3. BuiltInv => NextIsEarliest
  BY BuiltIsNext
<1> QED
  BY <1>1, <1>2, <1>3, PTL DEF SchedulerSpec

-----------------------------------------------------------------------------
\* A row has an entry in the schedule, or one on its way there.
Covered(e) == \E x \in DOMAIN schedule : e \in schedule[x].covers
OnWay(e) == \E x \in DOMAIN ready : e \in ready[x].covers
\* An entry stands for its own row at least, and what is ready is given at once.
SelfCovered ==
  /\ \A x \in DOMAIN schedule : x \in schedule[x].covers
  /\ \A x \in DOMAIN ready : x \in ready[x].covers
  /\ spc \notin {"combine", "give"} => DOMAIN ready = {}

\* The scheduler is at most a minute behind, and pending not of a time to come.
Punctual == now <= srun + 1 /\ parsedAt \in Int /\ parsedAt <= now
PendingShape ==
  \A e \in DOMAIN pending :
    e \in Entries /\ {"time", "mark"} \subseteq DOMAIN pending[e] /\ pending[e].time \in Int

\* An entry that the launcher has yet to mark or to cast is in the schedule, and not
\* done, unless the time limit took it.
InBatch(e) ==
  (lpc = "mark" /\ e \in batch.marks) \/ \E i \in DOMAIN batch.order : batch.order[i] = e
BatchThere ==
  InRound =>
    /\ \A e : InBatch(e) =>
         e \in overtaken \/ (e \in DOMAIN schedule /\ schedule[e].action # "done")
    /\ lpc = "mark" => \A e \in batch.crowd : ~InBatch(e)

\* Whatever the scheduler has gone past or marked is scheduled or on its way.
Reached == IF Scanned THEN srun + Pre ELSE srun + Pre - 1
Kept ==
  spc # "reparse" =>
    \A e \in DOMAIN pending \ (overtaken \cup lost) :
      pending[e].time <= Reached \/ pending[e].mark # "none" => Covered(e) \/ OnWay(e)

\* The inductive invariant of DueIsQueued, with NextIsEarliest of what pending is built of.
QueueInv ==
  OnceInv /\ SelfCovered /\ Punctual /\ PendingShape /\ BatchThere /\ Kept

\* What pending is built of is not due before it is built.
LEMMA BuiltAhead ==
  ASSUME NextIsEarliest, NEW rs, pending = Parsed(rs, now), parsedAt = now, now \in Int
  PROVE  /\ PendingShape
         /\ \A e \in DOMAIN pending : pending[e].mark = "none" /\ pending[e].time >= now + Pre
<1>1. \A e \in DOMAIN pending :
         /\ e \in Entries /\ pending[e].mark = "none" /\ {"time", "mark"} \subseteq DOMAIN pending[e]
  BY DEF Parsed
<1>2. ASSUME NEW e \in DOMAIN pending
      PROVE  pending[e].time \in (parsedAt + Pre)..(parsedAt + Pre + Len(Year) - 1)
  BY <1>1, <1>2 DEF NextIsEarliest
<1>3. parsedAt + Pre \in Int
  BY TimeAssumption
<1> QED
  BY <1>1, <1>2, <1>3 DEF PendingShape

\* At the start nothing is scheduled, and what is pending was just built.
LEMMA QueueInit == SchedulerInit /\ NextIsEarliest => QueueInv
<1> SUFFICES ASSUME SchedulerInit, NextIsEarliest PROVE QueueInv
  OBVIOUS
<1>1. OnceInv
  BY OnceInit
<1>2. /\ pending = Parsed(FirstTable, now) /\ parsedAt = now /\ now \in Nat /\ now = srun
      /\ DOMAIN schedule = {} /\ DOMAIN ready = {} /\ spc = "purge" /\ lpc = "top"
  BY TimeAssumption DEF SchedulerInit
<1>3. PendingShape /\ \A e \in DOMAIN pending : pending[e].mark = "none" /\ pending[e].time >= now + Pre
  BY <1>2, BuiltAhead
<1>4. Kept
  BY <1>2, <1>3, TimeAssumption DEF Kept, Reached, Scanned, PendingShape
<1> QED
  BY <1>1, <1>2, <1>3, <1>4 DEF QueueInv, SelfCovered, Punctual, BatchThere, InRound

\* The launcher removes nothing from the schedule.
LEMMA LauncherKeeps ==
  ASSUME Shape, Launcher
  PROVE  /\ DOMAIN schedule' = DOMAIN schedule
         /\ \A x \in DOMAIN schedule : schedule'[x].covers = schedule[x].covers
         /\ UNCHANGED <<ready, spc, srun, now, parsedAt, lost, overtaken>>
<1> USE DEF Shape, Fields, sched, hist
<1>1. CASE LWake \/ ReadState \/ Resume \/ Calibrated \/ Look \/ Marked \/ RoundEnds
           \/ Invalid \/ ConfigFails \/ CastEnds \/ \E e \in Entries : Mark(e)
  BY <1>1 DEF LWake, ReadState, Resume, Calibrated, Look, Marked, RoundEnds, Invalid,
              ConfigFails, CastEnds, Mark
<1>2. CASE \E e \in Entries : Crowd(e)
  BY <1>2 DEF Crowd
<1>3. CASE Casting
  BY <1>3 DEF Casting
<1>4. CASE Acting
  BY <1>4 DEF Acting
<1>5. CASE Finish
  BY <1>5 DEF Finish
<1> QED
  BY <1>1, <1>2, <1>3, <1>4, <1>5 DEF Launcher

\* An entry stands for its row from Scan on, through Combine and Give.
LEMMA SelfCoveredNext ==
  ASSUME Shape, SelfCovered, [SchedulerNext]_schedulerVars
  PROVE  SelfCovered'
<1> USE DEF SelfCovered
<1>1. CASE Launcher
  BY <1>1, LauncherKeeps
<1>2. CASE Purge
  BY <1>2 DEF Purge
<1>3. CASE Give
  <2>1. CASE ready = << >>
    <3>1. DOMAIN ready = {}
      BY <2>1
    <3> QED
      BY <1>3, <2>1, <3>1 DEF Give
  <2>2. CASE ready # << >>
    <3>1. spc' = spc /\ spc = "give"
      BY <1>3, <2>2 DEF Give
    <3>2. /\ \A x \in DOMAIN schedule' : x \in schedule'[x].covers
          /\ \A x \in DOMAIN ready' : x \in ready'[x].covers
      BY <1>3, GiveFrame
    <3> QED
      BY <3>1, <3>2
  <2> QED
    BY <2>1, <2>2
<1>4. CASE SWake
  <2>1. DOMAIN ready' = {} /\ spc' = "purge"
    BY <1>4 DEF SWake
  <2> QED
    BY <1>4, <2>1 DEF SWake
<1>5. CASE Scan
  BY <1>5 DEF Scan
<1>6. CASE Combine
  <2>1. spc' = "give" /\ UNCHANGED schedule
    BY <1>6, CombineFrame
  <2>2. \A x \in DOMAIN ready' : x \in ready'[x].covers
    BY <1>6, CombineFrame
  <2> QED
    BY <2>1, <2>2
<1>7. CASE Reparse \/ Poll
  BY <1>7 DEF Reparse, Poll
<1>8. CASE World
  BY <1>8 DEF World, Tick, Edit, Order, sched
<1>9. CASE UNCHANGED schedulerVars
  BY <1>9 DEF schedulerVars, sched
<1> QED
  BY <1>1, <1>2, <1>3, <1>4, <1>5, <1>6, <1>7, <1>8, <1>9 DEF SchedulerNext, Scheduler

\* A minute passes only when the scheduler has taken up the one before.
LEMMA PunctualNext ==
  ASSUME Shape, Clock, Punctual, [SchedulerNext]_schedulerVars
  PROVE  Punctual'
<1> USE DEF Punctual, Clock
<1>1. CASE Launcher
  BY <1>1, LauncherKeeps
<1>2. CASE Purge \/ Scan \/ Combine \/ Give
  <2>1. UNCHANGED <<now, srun, parsedAt>>
    <3>1. CASE Combine
      BY <3>1 DEF Combine
    <3>2. CASE Purge \/ Scan \/ Give
      BY <3>2 DEF Purge, Scan, Give
    <3> QED
      BY <1>2, <3>1, <3>2
  <2> QED
    BY <2>1
<1>6. CASE SWake
  BY <1>6 DEF SWake
<1>3. CASE Reparse \/ Poll
  BY <1>3 DEF Reparse, Poll, ParseDb, LoadDb
<1>4. CASE World
  BY <1>4 DEF World, Tick, Edit, Order, sched
<1>5. CASE UNCHANGED schedulerVars
  BY <1>5 DEF schedulerVars, sched
<1> QED
  BY <1>1, <1>2, <1>3, <1>4, <1>5, <1>6 DEF SchedulerNext, Scheduler

\* What the launcher does to pending: it marks an entry of its batch.
LEMMA LauncherMarks ==
  ASSUME PendingShape, BatchKept, BatchThere, Launcher
  PROVE  \/ UNCHANGED pending
         \/ \E e : /\ e \in overtaken \/ e \in DOMAIN schedule
                   /\ e \in DOMAIN pending /\ DOMAIN pending' = DOMAIN pending
                   /\ {"time", "mark"} \subseteq DOMAIN pending'[e]
                   /\ pending'[e].time = pending[e].time
                   /\ \A x \in DOMAIN pending \ {e} : pending'[x] = pending[x]
<1>1. CASE \E e \in Entries : Mark(e)
  <2>1. PICK e \in Entries : Mark(e)
    BY <1>1
  <2>2. InRound /\ InBatch(e)
    BY <2>1 DEF Mark, InRound, InBatch
  <2>3. e \in overtaken \/ e \in DOMAIN schedule
    BY <2>2 DEF BatchThere
  <2> QED
    BY <2>1, <2>3 DEF Mark, PendingShape
<1>2. CASE Acting
  <2>1. InRound /\ InBatch(Current)
    BY <1>2, TailOf DEF Acting, InRound, OnOne, InBatch, BatchKept, Current
  <2>2. Current \in overtaken \/ Current \in DOMAIN schedule
    BY <2>1 DEF BatchThere
  <2> QED
    BY <1>2, <2>2 DEF Acting, PendingShape
<1> QED
  BY <1>1, <1>2 DEF Launcher, LWake, ReadState, Resume, Calibrated, Look, Crowd, Marked, RoundEnds, Invalid,
     Casting, ConfigFails, CastEnds, Finish

\* What pending is built of again is not due before that.
LEMMA Rebuilt ==
  ASSUME NextIsEarliest', ParseDb \/ LoadDb, UNCHANGED now, now \in Int
  PROVE  /\ PendingShape' /\ lost' = {}
         /\ \A e \in DOMAIN pending' : pending'[e].mark = "none" /\ pending'[e].time >= now + Pre
<1>0. lost' = {} /\ parsedAt' = now /\ \E rs : pending' = Parsed(rs, now)
  BY DEF ParseDb, LoadDb
<1>1. lost' = {} /\ parsedAt' = now /\ \A e \in DOMAIN pending' :
         /\ e \in Entries /\ pending'[e].mark = "none" /\ {"time", "mark"} \subseteq DOMAIN pending'[e]
  BY <1>0 DEF Parsed
<1>2. ASSUME NEW e \in DOMAIN pending'
      PROVE  pending'[e].time \in (parsedAt' + Pre)..(parsedAt' + Pre + Len(Year) - 1)
  BY <1>1, <1>2 DEF NextIsEarliest
<1>3. now + Pre \in Int
  BY TimeAssumption
<1> QED
  BY <1>1, <1>2, <1>3 DEF PendingShape

\* To mark some entries of pending changes nothing else of it.
LEMMA Remarked ==
  ASSUME PendingShape, NEW S, NEW v,
         pending' = [e \in DOMAIN pending |->
                      IF e \in S THEN [pending[e] EXCEPT !.mark = v] ELSE pending[e]]
  PROVE  /\ DOMAIN pending' = DOMAIN pending /\ PendingShape'
         /\ \A e \in DOMAIN pending :
              /\ pending'[e].time = pending[e].time
              /\ pending'[e].mark = IF e \in S THEN v ELSE pending[e].mark
<1>1. \A e \in DOMAIN pending :
        /\ {"time", "mark"} \subseteq DOMAIN pending'[e]
        /\ pending'[e].time = pending[e].time
        /\ pending'[e].mark = IF e \in S THEN v ELSE pending[e].mark
  <2> SUFFICES ASSUME NEW e \in DOMAIN pending
               PROVE  /\ {"time", "mark"} \subseteq DOMAIN pending'[e]
                      /\ pending'[e].time = pending[e].time
                      /\ pending'[e].mark = IF e \in S THEN v ELSE pending[e].mark
    OBVIOUS
  <2>1. {"time", "mark"} \subseteq DOMAIN pending[e]
    BY DEF PendingShape
  <2> QED
    BY <2>1
<1> QED
  BY <1>1 DEF PendingShape

\* Combine takes the mark from all but the first of those it combines.
LEMMA CombineMarks ==
  ASSUME Shape, PendingShape, Combine
  PROVE  \/ UNCHANGED <<ready, pending>>
         \/ \E plain \in SUBSET DOMAIN ready : \E first \in plain :
              /\ DOMAIN ready' = DOMAIN ready \ (plain \ {first})
              /\ ready'[first].covers = plain
              /\ \A e \in DOMAIN ready' \ {first} : ready'[e] = ready[e]
              /\ DOMAIN pending' = DOMAIN pending /\ PendingShape'
              /\ \A e \in DOMAIN pending :
                   /\ pending'[e].time = pending[e].time
                   /\ pending'[e].mark = IF e \in plain \ {first} THEN "none" ELSE pending[e].mark
<1> DEFINE plain == {e \in DOMAIN ready : ~ready[e].isco}
<1>1. CASE Cardinality(plain) < 2
  BY <1>1 DEF Combine
<1>2. CASE ~(Cardinality(plain) < 2)
  <2>1. PICK first \in plain :
          /\ ready' = [e \in DOMAIN ready \ (plain \ {first}) |->
                    IF e = first
                    THEN [ready[e] EXCEPT !.lisst = \E x \in plain : ready[x].lisst,
                                          !.since = now, !.covers = plain]
                    ELSE ready[e]]
          /\ pending' = [e \in DOMAIN pending |->
                    IF e \in plain \ {first} THEN [pending[e] EXCEPT !.mark = "none"] ELSE pending[e]]
    BY <1>2 DEF Combine
  <2> DEFINE made == [ready[first] EXCEPT !.lisst = \E x \in plain : ready[x].lisst,
                                          !.since = now, !.covers = plain]
  <2>2. made.covers = plain
    BY DEF Shape, Fields
  <2> HIDE DEF made
  <2>3. ready' = [e \in DOMAIN ready \ (plain \ {first}) |-> IF e = first THEN made ELSE ready[e]]
    BY <2>1 DEF made
  <2> HIDE DEF plain
  <2>4. first \in plain /\ plain \in SUBSET DOMAIN ready
    BY DEF plain
  <2>5. /\ DOMAIN pending' = DOMAIN pending /\ PendingShape'
        /\ \A e \in DOMAIN pending :
             /\ pending'[e].time = pending[e].time
             /\ pending'[e].mark = IF e \in plain \ {first} THEN "none" ELSE pending[e].mark
    BY <2>1, Remarked
  <2>6. /\ DOMAIN ready' = DOMAIN ready \ (plain \ {first})
        /\ ready'[first].covers = plain
        /\ \A e \in DOMAIN ready' \ {first} : ready'[e] = ready[e]
    BY <2>2, <2>3, <2>4
  <2> QED
    BY <2>4, <2>5, <2>6
<1> QED
  BY <1>1, <1>2

\* The times in pending are of the calendar.
LEMMA PendingNext ==
  ASSUME QueueInv, NextIsEarliest', [SchedulerNext]_schedulerVars
  PROVE  PendingShape'
<1>0. PendingShape /\ Shape /\ BatchKept /\ BatchThere /\ now \in Int
  BY DEF QueueInv, OnceInv, TubeInv, Clock
<1>1. CASE Launcher
  <2>1. CASE UNCHANGED pending
    BY <1>0, <2>1 DEF PendingShape
  <2>2. CASE ~UNCHANGED pending
    BY <1>0, <1>1, <2>2, LauncherMarks DEF PendingShape
  <2> QED
    BY <2>1, <2>2
<1>2. CASE Reparse
  BY <1>0, <1>2, Rebuilt DEF Reparse
<1>3. CASE Poll
  <2>1. CASE news
    BY <1>0, <1>3, <2>1, Rebuilt DEF Poll
  <2>2. CASE ~news
    BY <1>0, <1>3, <2>2 DEF Poll, PendingShape
  <2> QED
    BY <2>1, <2>2
<1>4. CASE Scan
  BY <1>0, <1>4 DEF Scan, PendingShape
<1>5. CASE Combine
  <2>1. CASE UNCHANGED pending
    BY <1>0, <2>1 DEF PendingShape
  <2>2. CASE ~UNCHANGED pending
    BY <1>0, <1>5, <2>2, CombineMarks
  <2> QED
    BY <2>1, <2>2
<1>6. CASE SWake \/ Purge \/ Give \/ World
  BY <1>0, <1>6 DEF SWake, Purge, Give, World, Tick, Edit, Order, PendingShape
<1>7. CASE UNCHANGED schedulerVars
  BY <1>0, <1>7 DEF schedulerVars, PendingShape
<1> QED
  BY <1>1, <1>2, <1>3, <1>4, <1>5, <1>6, <1>7 DEF SchedulerNext, Scheduler

\* What the launcher has yet to mark or to cast stays in the schedule, or the time
\* limit took it: only what is done is removed otherwise, and Finish does the current one.
LEMMA BatchThereNext ==
  ASSUME QueueInv, [SchedulerNext]_schedulerVars
  PROVE  BatchThere'
<1>0. /\ FiniteSchedule /\ BatchKept /\ Shape /\ SelfCovered /\ BatchThere
      /\ (InRound => \A i, j \in DOMAIN batch.order : i # j => batch.order[i] # batch.order[j])
  BY DEF QueueInv, OnceInv, TubeInv, Batched, OrderOnce
<1>1. ASSUME UNCHANGED launch,
             \A e \in DOMAIN schedule : InBatch(e) /\ InRound =>
               e \in overtaken' \/ (e \in DOMAIN schedule' /\ schedule'[e].action = schedule[e].action),
             overtaken \subseteq overtaken'
      PROVE  BatchThere'
  BY <1>0, <1>1 DEF launch, BatchThere, InBatch, InRound
<1>2. CASE Purge
  <2>1. InRound => batch # << >>
    BY <1>0 DEF BatchKept
  <2>2. UNCHANGED launch /\ overtaken' = overtaken \cup Overtaken
        /\ schedule' = [e \in DOMAIN schedule \ Removable |-> schedule[e]]
    BY <1>2 DEF Purge
  <2>3. ASSUME NEW e \in DOMAIN schedule, InBatch(e), InRound, e \in Removable, e \notin overtaken
        PROVE  e \in Overtaken
    <3>1. schedule[e].action # "done"
      BY <1>0, <2>3 DEF BatchThere
    <3>2. Late(e) /\ e \in schedule[e].covers
      BY <1>0, <2>3, <3>1 DEF Removable, SelfCovered
    <3> QED
      BY <2>1, <2>3, <3>2 DEF Overtaken
  <2> QED
    BY <1>1, <2>2, <2>3
<1>3. CASE Give
  BY <1>0, <1>1, <1>3, GiveFrame DEF hist
<1>4. CASE SWake \/ Reparse \/ Poll \/ Scan \/ Combine \/ World
  BY <1>1, <1>4 DEF SWake, Reparse, Poll, Scan, Combine, World, Tick, Edit, Order, hist
<1>5. CASE LWake \/ ReadState \/ Resume \/ Calibrated \/ RoundEnds
  BY <1>5 DEF LWake, ReadState, Resume, Calibrated, RoundEnds, Sleeps, BatchThere, InRound
<1>6. CASE Look
  <2>1. CASE Queued = {}
    BY <1>6, <2>1 DEF Look, Sleeps, BatchThere, InRound
  <2>2. CASE Queued # {}
    <3> DEFINE crowd == IF Cardinality(Plain) > 1 THEN Plain ELSE {}
    <3>1. PICK order \in Orderings(Queued \ crowd) :
             /\ batch' = [order |-> order, marks |-> Queued \ crowd, crowd |-> crowd,
                          info |-> [e \in Queued |-> schedule[e]]]
             /\ lpc' = "mark" /\ UNCHANGED schedule
      BY <1>6, <2>2 DEF Look
    <3> HIDE DEF crowd
    <3>2. order \in Seq(Queued \ crowd)
      BY <1>0, OrderIsSeq
    <3>3. \A e : InBatch(e)' => e \in Queued \ crowd
      BY <3>1, <3>2 DEF InBatch
    <3> QED
      BY <3>1, <3>3 DEF BatchThere, Queued
  <2> QED
    BY <2>1, <2>2
<1>7. CASE \E e \in Entries : Crowd(e)
  <2>1. PICK e \in Entries : Crowd(e)
    BY <1>7
  <2>2. ~InBatch(e)
    BY <1>0, <2>1 DEF Crowd, BatchThere, InRound
  <2>3. /\ \A x : InBatch(x)' => InBatch(x)
        /\ batch'.crowd \subseteq batch.crowd /\ UNCHANGED overtaken
    BY <1>0, <2>1 DEF Crowd, InBatch, hist, BatchKept, InRound
  <2>4. \A x \in DOMAIN schedule \ {e} : x \in DOMAIN schedule' /\ schedule'[x] = schedule[x]
    BY <2>1 DEF Crowd
  <2> QED
    BY <1>0, <2>1, <2>2, <2>3, <2>4 DEF Crowd, BatchThere, InRound
<1>8. CASE (\E e \in Entries : Mark(e)) \/ Marked
  <2>1. /\ \A x : InBatch(x)' => InBatch(x)
        /\ batch'.crowd = batch.crowd /\ UNCHANGED <<overtaken, schedule>> /\ InRound
    BY <1>0, <1>8 DEF Mark, Marked, InBatch, hist, BatchKept, InRound
  <2> QED
    BY <1>0, <1>8, <2>1 DEF Mark, Marked, BatchThere, InRound
<1>9. ASSUME NextCast, lpc \in {"next", "acting", "casting", "finish"}, batch.order # << >>
      PROVE  /\ InRound /\ lpc' = "next"
             /\ \A x : InBatch(x)' => InBatch(x) /\ x # Current
  <2>1. InRound /\ lpc' = "next" /\ batch'.order = Tail(batch.order)
    BY <1>0, <1>9 DEF NextCast, BatchKept, InRound
  <2>2. \A x : InBatch(x)' => \E i \in DOMAIN batch'.order : batch'.order[i] = x
    BY <2>1 DEF InBatch
  <2>3. \A i \in DOMAIN batch'.order : InBatch(batch'.order[i]) /\ batch'.order[i] # Current
    BY <1>0, <1>9, <2>1, TailOf DEF InBatch, BatchKept, Current
  <2> QED
    BY <2>1, <2>2, <2>3
<1>10. ASSUME InRound, lpc' # "mark", UNCHANGED overtaken,
              \A x : InBatch(x)' => InBatch(x),
              \A x \in DOMAIN schedule : InBatch(x)' =>
                 x \in DOMAIN schedule' /\ (schedule'[x].action = "done" => schedule[x].action = "done")
       PROVE  BatchThere'
  BY <1>0, <1>10 DEF BatchThere
<1>11. CASE Invalid \/ ConfigFails \/ Finish
  <2>1. NextCast /\ lpc \in {"next", "acting", "casting", "finish"} /\ batch.order # << >>
        /\ UNCHANGED overtaken
    BY <1>0, <1>11 DEF Invalid, ConfigFails, Finish, BatchKept, InRound, OnOne, hist
  <2>2. \A x \in DOMAIN schedule \ {Current} : x \in DOMAIN schedule' /\ schedule'[x] = schedule[x]
    BY <1>11 DEF Invalid, ConfigFails, Finish
  <2> QED
    BY <1>9, <1>10, <2>1, <2>2
<1>12. CASE Casting
  <2>1. CASE Current \in DOMAIN schedule
    <3>1. /\ schedule' = [schedule EXCEPT ![Current].action = "casting"] /\ lpc = "next" /\ lpc' = "acting"
          /\ UNCHANGED <<batch, overtaken>>
      BY <1>12, <2>1 DEF Casting
    <3>2. \A x \in DOMAIN schedule : x \in DOMAIN schedule' /\
             (schedule'[x].action = "done" => schedule[x].action = "done")
      BY <1>0, <3>1 DEF Shape, Fields
    <3> QED
      BY <1>10, <3>1, <3>2 DEF InBatch, InRound
  <2>2. CASE Current \notin DOMAIN schedule
    BY <1>9, <1>10, <1>12, <2>2 DEF Casting
  <2> QED
    BY <2>1, <2>2
<1>13. CASE Acting
  <2>1. CASE Current \in DOMAIN pending
    BY <1>10, <1>13, <2>1 DEF Acting, InBatch, InRound
  <2>2. CASE Current \notin DOMAIN pending
    <3>1. batch.order # << >>
      BY <1>0, <1>13 DEF Acting, BatchKept, InRound, OnOne
    <3> QED
      BY <1>9, <1>10, <1>13, <2>2, <3>1 DEF Acting
  <2> QED
    BY <2>1, <2>2
<1>14. CASE CastEnds
  BY <1>10, <1>14 DEF CastEnds, InBatch, InRound
<1>15. CASE UNCHANGED schedulerVars
  BY <1>1, <1>15 DEF schedulerVars, hist
<1> QED
  BY <1>2, <1>3, <1>4, <1>5, <1>6, <1>7, <1>8, <1>11, <1>12, <1>13, <1>14, <1>15
     DEF SchedulerNext, Scheduler, Launcher

\* Whatever is passed or marked stays scheduled or on its way: Scan puts what is due on
\* its way, Combine hands it on, Give schedules it; a removal leads to a new pending.
LEMMA KeptNext ==
  ASSUME QueueInv, NextIsEarliest', [SchedulerNext]_schedulerVars
  PROVE  Kept'
<1>0. /\ Kept /\ Shape /\ PendingShape /\ BatchKept /\ BatchThere /\ Clock /\ SelfCovered
      /\ Punctual /\ ReadyAlone
  BY DEF QueueInv, OnceInv, TubeInv, Waiting
<1>1. PendingShape'
  BY PendingNext
<1>2. ASSUME spc # "reparse", DOMAIN ready' = DOMAIN ready,
             \A x \in DOMAIN ready : ready'[x].covers = ready[x].covers,
             DOMAIN schedule' = DOMAIN schedule,
             \A x \in DOMAIN schedule : schedule'[x].covers = schedule[x].covers,
             overtaken \subseteq overtaken', lost \subseteq lost',
             \A e \in DOMAIN pending' \ overtaken' :
               \/ e \in DOMAIN schedule
               \/ /\ e \in DOMAIN pending
                  /\ pending'[e].time <= Reached' => pending[e].time <= Reached
                  /\ pending'[e].mark # "none" => pending[e].mark # "none"
      PROVE  Kept'
  BY <1>0, <1>2 DEF Kept, Covered, OnWay, SelfCovered
<1>3. CASE Launcher
  <2>1. /\ DOMAIN schedule' = DOMAIN schedule
        /\ \A x \in DOMAIN schedule : schedule'[x].covers = schedule[x].covers
        /\ UNCHANGED <<ready, spc, srun, now, parsedAt, lost, overtaken>>
    BY <1>0, <1>3, LauncherKeeps
  <2>2. Reached' = Reached
    BY <2>1 DEF Reached, Scanned
  <2>3. CASE spc = "reparse"
    BY <2>1, <2>3 DEF Kept
  <2>4. CASE spc # "reparse"
    <3>1. \A e \in DOMAIN pending' \ overtaken' :
             \/ e \in DOMAIN schedule
             \/ /\ e \in DOMAIN pending
                /\ pending'[e].time = pending[e].time
                /\ pending'[e].mark = pending[e].mark
      BY <1>0, <1>3, <2>1, LauncherMarks
    <3> QED
      BY <1>2, <2>1, <2>2, <2>4, <3>1
  <2> QED
    BY <2>3, <2>4
<1>4. CASE SWake
  <2>1. /\ spc = "sleep" /\ spc' = "purge" /\ srun' = now /\ now <= srun + 1 /\ DOMAIN ready' = {}
        /\ UNCHANGED <<pending, schedule, lost, overtaken>> /\ DOMAIN ready = {}
    BY <1>0, <1>4 DEF SWake, SelfCovered, Punctual, hist
  <2>2. \A t \in Int : t <= Reached' => t <= Reached
    BY <1>0, <2>1, TimeAssumption DEF Reached, Scanned, Clock
  <2> QED
    BY <1>0, <1>2, <2>1, <2>2 DEF PendingShape
<1>5. CASE Purge
  <2>1. CASE Removable = {}
    <3>1. /\ spc = "purge" /\ spc' = "poll" /\ UNCHANGED <<pending, ready, lost, srun>>
          /\ overtaken \subseteq overtaken' /\ DOMAIN schedule' = DOMAIN schedule
          /\ \A x \in DOMAIN schedule : schedule'[x] = schedule[x]
      BY <1>5, <2>1 DEF Purge
    <3>2. Reached' = Reached
      BY <3>1 DEF Reached, Scanned
    <3> QED
      BY <1>2, <3>1, <3>2
  <2>2. CASE Removable # {}
    BY <1>5, <2>2 DEF Purge, Kept
  <2> QED
    BY <2>1, <2>2
<1>6. ASSUME ParseDb \/ LoadDb, UNCHANGED <<now, srun>>, spc # "sleep", spc' \in {"purge", "scan"}
      PROVE  Kept'
  <2>1. \A e \in DOMAIN pending' : pending'[e].mark = "none" /\ pending'[e].time >= now + Pre
    BY <1>0, <1>6, Rebuilt DEF Clock
  <2>2. \A t \in Int : t <= Reached' => ~(t >= now + Pre)
    BY <1>0, <1>6, TimeAssumption DEF Reached, Scanned, Clock
  <2> QED
    BY <1>1, <2>1, <2>2 DEF Kept, PendingShape
<1>7. CASE Reparse
  BY <1>6, <1>7 DEF Reparse
<1>8. CASE Poll
  <2>1. CASE news
    BY <1>6, <1>8, <2>1 DEF Poll
  <2>2. CASE ~news
    <3>1. /\ spc = "poll" /\ spc' = "scan"
          /\ UNCHANGED <<pending, lost, srun, ready, schedule, overtaken>>
      BY <1>8, <2>2 DEF Poll, hist
    <3>2. Reached' = Reached
      BY <3>1 DEF Reached, Scanned
    <3> QED
      BY <1>2, <3>1, <3>2
  <2> QED
    BY <2>1, <2>2
<1>9. CASE Scan
  <2>1. /\ spc = "scan" /\ spc' = "combine" /\ DOMAIN ready' = Due
        /\ \A e \in Due : ready'[e].covers = {e}
        /\ UNCHANGED <<schedule, lost, overtaken, srun>> /\ srun = now
    BY <1>0, <1>9 DEF Scan, Clock, hist
  <2>2. /\ DOMAIN pending' = DOMAIN pending
        /\ \A e \in DOMAIN pending :
             /\ pending'[e].time = pending[e].time
             /\ pending'[e].mark = IF e \in Due THEN "scheduled" ELSE pending[e].mark
    BY <1>0, <1>9, Remarked DEF Scan
  <2>3. \A t \in Int : t <= Reached' => t <= Reached \/ t = now + Pre
    BY <1>0, <2>1, TimeAssumption DEF Reached, Scanned, Clock
  <2>4. DOMAIN ready = {}
    BY <1>0, <2>1 DEF SelfCovered
  <2> SUFFICES ASSUME NEW e \in DOMAIN pending' \ (overtaken' \cup lost'),
                      pending'[e].time <= Reached' \/ pending'[e].mark # "none"
               PROVE  Covered(e)' \/ OnWay(e)'
    BY DEF Kept
  <2>5. CASE e \in Due
    BY <2>1, <2>5 DEF OnWay
  <2>6. CASE e \notin Due
    <3>1. pending[e].time <= Reached \/ pending[e].mark # "none"
      BY <1>0, <2>2, <2>3, <2>6 DEF PendingShape, Due
    <3>2. Covered(e) \/ OnWay(e)
      BY <1>0, <2>1, <2>2, <3>1 DEF Kept
    <3> QED
      BY <2>1, <2>4, <3>2 DEF Covered, OnWay
  <2> QED
    BY <2>5, <2>6
<1>10. CASE Combine
  <2>1. spc = "combine" /\ spc' = "give" /\ UNCHANGED <<schedule, overtaken, lost, srun>>
    BY <1>10 DEF Combine, hist
  <2>2. Reached' = Reached
    BY <2>1 DEF Reached, Scanned
  <2>3. CASE UNCHANGED <<ready, pending>>
    BY <1>2, <2>1, <2>2, <2>3
  <2>4. CASE ~UNCHANGED <<ready, pending>>
    <3>1. PICK plain \in SUBSET DOMAIN ready : \E first \in plain :
              /\ DOMAIN ready' = DOMAIN ready \ (plain \ {first})
              /\ ready'[first].covers = plain
              /\ \A e \in DOMAIN ready' \ {first} : ready'[e] = ready[e]
              /\ DOMAIN pending' = DOMAIN pending
              /\ \A e \in DOMAIN pending :
                   /\ pending'[e].time = pending[e].time
                   /\ pending'[e].mark = IF e \in plain \ {first} THEN "none" ELSE pending[e].mark
      BY <1>0, <1>10, <2>4, CombineMarks
    <3>2. \A e \in DOMAIN ready : ready[e].covers = {e}
      BY <1>0, <2>1 DEF ReadyAlone
    <3>3. \A e : OnWay(e) => OnWay(e)'
      BY <3>1, <3>2 DEF OnWay
    <3>4. \A e \in DOMAIN pending :
            /\ pending'[e].time = pending[e].time
            /\ pending'[e].mark # "none" => pending[e].mark # "none"
      BY <3>1
    <3> QED
      BY <1>0, <2>1, <2>2, <3>1, <3>3, <3>4 DEF Kept, Covered
  <2> QED
    BY <2>3, <2>4
<1>11. CASE Give
  <2>1. spc = "give" /\ UNCHANGED <<pending, overtaken, srun>>
    BY <1>11 DEF Give, hist
  <2>2. CASE UNCHANGED <<schedule, ready, lost>> /\ spc' = "sleep"
    <3>1. Reached' = Reached
      BY <2>1, <2>2 DEF Reached, Scanned
    <3> QED
      BY <1>2, <2>1, <2>2, <3>1
  <2>3. CASE ~(UNCHANGED <<schedule, ready, lost>> /\ spc' = "sleep")
    <3>1. PICK e \in DOMAIN ready :
                 /\ DOMAIN schedule' = DOMAIN schedule \cup {e}
                 /\ \A x \in DOMAIN schedule : schedule'[x] = schedule[x]
                 /\ e \notin DOMAIN schedule => schedule'[e].covers = ready[e].covers
                 /\ DOMAIN ready' = DOMAIN ready \ {e}
                 /\ \A x \in DOMAIN ready' : ready'[x] = ready[x]
                 /\ spc' = spc
                 /\ lost' = IF e \in DOMAIN schedule THEN lost \cup (ready[e].covers \ {e}) ELSE lost
      BY <1>0, <1>11, <2>3, GiveFrame
    <3>2. Reached' = Reached
      BY <2>1, <3>1 DEF Reached, Scanned
    <3>3. \A f : Covered(f) => Covered(f)'
      BY <3>1 DEF Covered
    <3>4. \A f : OnWay(f) => OnWay(f)' \/ f \in ready[e].covers
      BY <3>1 DEF OnWay
    <3>5. \A f \in ready[e].covers : Covered(f)' \/ f \in lost'
      BY <1>0, <3>1 DEF Covered, SelfCovered
    <3>6. lost \subseteq lost'
      BY <3>1
    <3> QED
      BY <1>0, <2>1, <3>1, <3>2, <3>3, <3>4, <3>5, <3>6 DEF Kept
  <2> QED
    BY <2>2, <2>3
<1>12. ASSUME UNCHANGED <<pending, overtaken, lost, srun, spc, ready, schedule>>
       PROVE  Kept'
  BY <1>0, <1>12 DEF Kept, Reached, Scanned, Covered, OnWay
<1>13. CASE World
  BY <1>12, <1>13 DEF World, Tick, Edit, Order, sched, hist
<1>14. CASE UNCHANGED schedulerVars
  BY <1>12, <1>14 DEF schedulerVars, sched, hist
<1> QED
  BY <1>3, <1>4, <1>5, <1>7, <1>8, <1>9, <1>10, <1>11, <1>13, <1>14 DEF SchedulerNext, Scheduler

\* The queue's invariant is inductive.
LEMMA QueueNext ==
  ASSUME QueueInv, NextIsEarliest', [SchedulerNext]_schedulerVars
  PROVE  QueueInv'
<1>1. OnceInv /\ Shape /\ Clock /\ SelfCovered /\ Punctual
  BY DEF QueueInv, OnceInv
<1> QED
  BY <1>1, OnceNext, SelfCoveredNext, PunctualNext, PendingNext, BatchThereNext, KeptNext DEF QueueInv

\* What is due has an entry of that minute or an earlier one in pending, and that was passed.
LEMMA QueuedWhenDue == QueueInv /\ NextIsEarliest => DueIsQueued
<1> SUFFICES ASSUME QueueInv, NextIsEarliest, spc = "sleep", srun = now,
                    NEW e \in Entries \ (overtaken \cup lost),
                    loaded[e] # NoPlan, Matches(loaded[e].cron, DateOf(now + Pre))
             PROVE  \E x \in DOMAIN schedule : e \in schedule[x].covers
  BY DEF DueIsQueued
<1>1. now \in Int /\ parsedAt \in Int /\ parsedAt <= now /\ PendingShape /\ Kept /\ DOMAIN ready = {}
  BY DEF QueueInv, OnceInv, Clock, Punctual, SelfCovered
<1> DEFINE from == parsedAt + Pre
           hits == {n \in from..(from + Len(Year) - 1) :
                      loaded[e] # NoPlan /\ Matches(loaded[e].cron, DateOf(n))}
<1>2. now + Pre \in Int /\ from \in Int /\ from <= now + Pre
  BY <1>1, TimeAssumption
<1>3. PICK m \in from..(from + Len(Year) - 1) : m <= now + Pre /\ Matches(loaded[e].cron, DateOf(m))
  BY <1>2, Periodic
<1>4. m \in hits
  BY <1>3
<1>5. e \in DOMAIN pending /\ \A n \in hits : pending[e].time <= n
  BY <1>4 DEF NextIsEarliest
<1>6. pending[e].time <= Reached
  <2>1. pending[e].time \in Int /\ m \in Int /\ pending[e].time <= m
    BY <1>1, <1>2, <1>3, <1>4, <1>5 DEF PendingShape
  <2> QED
    BY <1>2, <1>3, <2>1 DEF Reached, Scanned
<1>7. Covered(e) \/ OnWay(e)
  BY <1>1, <1>5, <1>6 DEF Kept
<1> QED
  BY <1>1, <1>7 DEF Covered, OnWay

\* Whatever the search finds the earliest match of is in the schedule when it is due.
THEOREM QueuedIfFound == SchedulerSpec => ([]NextIsEarliest => []DueIsQueued)
<1>1. SchedulerInit /\ NextIsEarliest => QueueInv
  BY QueueInit
<1>2. QueueInv /\ NextIsEarliest' /\ [SchedulerNext]_schedulerVars => QueueInv'
  BY QueueNext
<1>3. QueueInv /\ NextIsEarliest => DueIsQueued
  BY QueuedWhenDue
<1> QED
  BY <1>1, <1>2, <1>3, PTL DEF SchedulerSpec

\* With rows in reach of the tries, what is due is in the schedule after the round of its
\* minute, unless the time limit took it or it was lost in a combination.
THEOREM NothingDueIsLost ==
  ASSUME RowsInReach
  PROVE  SchedulerSpec => []DueIsQueued
<1>1. SchedulerSpec => []NextIsEarliest
  BY NextMatchIsFound
<1> QED
  BY <1>1, QueuedIfFound, PTL
================================================================================
