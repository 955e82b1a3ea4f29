----------------------------- MODULE BrokerRpc -----------------------------
(***************************************************************************)
(* The Python side of a broker connection (src/python/avp_broker.py): any  *)
(* thread of a program (its main thread, and the threads the subscription  *)
(* handler starts for callbacks, 285-289) calls a _BrokerClient method,    *)
(* which bumps the shared _json_id, composes the shared self.msg and sends *)
(* it; the SocketHandler thread reads replies into the shared _rx_r, from  *)
(* which the caller takes the one with its id, or gives up after a while.  *)
(* The handler thread also notices a lost connection and makes it again.   *)
(*                                                                         *)
(* A call is known by its number, in the order calls are made.  A request  *)
(* and its reply are a record: the id, the call its method is of, and the  *)
(* call its params are of (0: none).                                       *)
(***************************************************************************)
EXTENDS Naturals, Sequences

CONSTANTS Callers,      \* the threads that call the client
          WithParams,   \* the numbers of the calls that carry params
          MaxCalls,     \* bound: calls made in all
          MaxLosses     \* bound: connections lost in all

ASSUME CountsAssumption == MaxCalls \in Nat /\ MaxLosses \in Nat

VARIABLES issued,       \* calls made so far (history)
          jsonId,       \* _json_id
          msg,          \* SocketHandler.msg
          replies,      \* _rx_r, as the set of its values
          pc,           \* where each caller is
          call,         \* the number of its last call
          id,           \* the _json_id it has read last: for +=, then for send_rpc
          data,         \* the dumped message it is about to send
          answer,       \* {} or the reply its last call returned
          running,      \* SocketHandler.running
          connected,    \* SocketHandler.connected
          reader,       \* where the SocketHandler thread is
          socket,       \* the state of self.socket and self.sf
          toBroker,     \* bytes under way to the broker, as requests
          toClient,     \* bytes under way from the broker, as replies
          buffer,       \* what sf has read from the socket and not returned yet
          executed,     \* the requests the broker has executed (history)
          losses,       \* connections lost so far
          apart         \* no two calls were ever composed at once (history)

shared == <<issued, jsonId, msg, apart>>
local == <<call, id, data>>
handler == <<running, connected, reader, socket, losses>>
wire == <<toBroker, toClient, buffer, executed>>
vars == <<issued, jsonId, msg, replies, pc, call, id, data, answer,
          running, connected, reader, socket, toBroker, toClient, buffer, executed, losses, apart>>

Message == [id : Nat, of : Nat, params : Nat]
NoMessage == [id |-> 0, of |-> 0, params |-> 0]

\* The message call n should send.
Request(n) == [id |-> n, of |-> n,
               params |-> IF n \in WithParams THEN n ELSE 0]

\* From the reading of _json_id to the dumping of self.msg the caller works
\* on attributes every other caller works on too.
Composing == {"bump", "load", "compose", "params", "dump"}

TypeOK ==
    /\ issued \in 0..MaxCalls /\ jsonId \in Nat /\ losses \in 0..MaxLosses
    /\ msg \in Message /\ replies \subseteq Message
    /\ \A r, q \in replies : r.id = q.id => r = q
    /\ pc \in [Callers -> Composing \cup {"idle", "send", "wait"}]
    /\ call \in [Callers -> Nat] /\ id \in [Callers -> Nat]
    /\ data \in [Callers -> Message] /\ answer \in [Callers -> SUBSET Message]
    /\ running \in BOOLEAN /\ connected \in BOOLEAN /\ apart \in BOOLEAN
    /\ reader \in {"loop", "connecting", "dead"}
    \* none: not made yet; fin: the broker closed it; reset: a reset came back;
    \* closed: sf is closed here
    /\ socket \in {"none", "open", "fin", "reset", "closed"}
    /\ toBroker \in Seq(Message) /\ toClient \in Seq(Message) /\ buffer \in Seq(Message)
    /\ executed \in Seq(Message)

\* connect_to_broker has just started the handler thread.
Init ==
    /\ issued = 0 /\ jsonId = 0 /\ losses = 0
    /\ msg = NoMessage /\ replies = {}
    /\ pc = [c \in Callers |-> "idle"]
    /\ call = [c \in Callers |-> 0] /\ id = [c \in Callers |-> 0]
    /\ data = [c \in Callers |-> NoMessage] /\ answer = [c \in Callers |-> {}]
    /\ running = TRUE /\ connected = FALSE /\ apart = TRUE
    /\ reader = "loop" /\ socket = "none"
    /\ toBroker = <<>> /\ toClient = <<>> /\ buffer = <<>> /\ executed = <<>>

-----------------------------------------------------------------------------
(* A caller. *)

Goto(c, l) == pc' = [pc EXCEPT ![c] = l]

\* self._json_id += 1 reads the counter ...
Start(c) ==
    /\ pc[c] = "idle" /\ issued < MaxCalls
    /\ issued' = issued + 1
    /\ call' = [call EXCEPT ![c] = issued + 1]
    /\ id' = [id EXCEPT ![c] = jsonId]
    /\ answer' = [answer EXCEPT ![c] = {}]
    /\ apart' = (apart /\ \A d \in Callers : pc[d] \notin Composing)
    /\ Goto(c, "bump")
    /\ UNCHANGED <<jsonId, msg, replies, data, handler, wire>>

SameId(n) == n                  \* mutant: the counter is not counted up
NextId(n) == n + 1

\* ... and stores the sum: another thread may have stored its own meanwhile.
Bump(c) ==
    /\ pc[c] = "bump"
    /\ jsonId' = NextId(id[c])
    /\ Goto(c, "load")
    /\ UNCHANGED <<issued, msg, apart, replies, local, answer, handler, wire>>

\* The argument of send_rpc is read from the attribute again.
Load(c) ==
    /\ pc[c] = "load"
    /\ id' = [id EXCEPT ![c] = jsonId]
    /\ Goto(c, "compose")
    /\ UNCHANGED <<shared, replies, call, data, answer, handler, wire>>

\* The end of a call, and of what it holds locally.
Return(c) ==
    /\ Goto(c, "idle")
    /\ id' = [id EXCEPT ![c] = 0]
    /\ UNCHANGED <<shared, call, data, handler, wire>>

\* It ends with an error dictionary or an exception.
Fail(c) == Return(c) /\ UNCHANGED <<replies, answer>>

AlwaysConnected == TRUE         \* mutant: send_rpc does not ask for a connection
IsConnected == connected

NotConnected(c) == pc[c] = "compose" /\ ~IsConnected /\ Fail(c)

Compose(c) ==
    /\ pc[c] = "compose" /\ IsConnected
    /\ msg' = [id |-> id[c], of |-> call[c], params |-> 0]
    /\ Goto(c, IF call[c] \in WithParams THEN "params" ELSE "dump")
    /\ UNCHANGED <<issued, jsonId, apart, replies, local, answer, handler, wire>>

\* The params go into whatever dictionary self.msg is by now.
AddParams(c) ==
    /\ pc[c] = "params"
    /\ msg' = [msg EXCEPT !.params = call[c]]
    /\ Goto(c, "dump")
    /\ UNCHANGED <<issued, jsonId, apart, replies, local, answer, handler, wire>>

Dump(c) ==
    /\ pc[c] = "dump"
    /\ data' = [data EXCEPT ![c] = msg]
    /\ Goto(c, "send")
    /\ UNCHANGED <<shared, replies, call, id, answer, handler, wire>>

\* Any socket but an open one, or one whose end has not been read yet, raises,
\* which stops the handler thread.
StillRunning == running /\ socket \in {"open", "fin"}

\* _send: nothing goes out when the thread is not running.  A peer that has
\* closed takes the bytes and answers them with a reset.  The caller waits for
\* a reply in every case.
Send(c) ==
    /\ pc[c] = "send"
    /\ toBroker' = IF running /\ socket = "open"
                   THEN Append(toBroker, data[c]) ELSE toBroker
    /\ socket' = IF running /\ socket = "fin" THEN "reset" ELSE socket
    /\ running' = StillRunning
    /\ data' = [data EXCEPT ![c] = NoMessage]
    /\ Goto(c, "wait")
    /\ UNCHANGED <<shared, replies, call, id, answer, connected, reader, losses,
                   toClient, buffer, executed>>

\* _get_reply takes the reply with its id out of _rx_r.
Take(c) ==
    /\ pc[c] = "wait"
    /\ \E r \in replies :
         /\ r.id = id[c]
         /\ replies' = replies \ {r}
         /\ answer' = [answer EXCEPT ![c] = {r}]
    /\ Return(c)

\* The time is up.  The call ends without a reply, too, when select finds sf
\* closed (ValueError), and when another caller with the same id pops the
\* reply between this one's lookup and its pop (KeyError).
TimeOut(c) == pc[c] = "wait" /\ Fail(c)

Caller(c) ==
    \/ Bump(c) \/ Load(c) \/ NotConnected(c) \/ Compose(c) \/ AddParams(c)
    \/ Dump(c) \/ Send(c) \/ Take(c) \/ TimeOut(c)

-----------------------------------------------------------------------------
(* The SocketHandler thread. *)

\* A reply replaces one with the same id in _rx_r.
Filed(r) == {q \in replies : q.id # r.id} \cup {r}

\* select sees the socket, not the buffer of sf: each time the socket has bytes,
\* or has come to its end, one line is returned, the first of the buffer if
\* there is one; else all that has come is read, and all but the first line
\* stays in the buffer until the socket has more.
Receive ==
    /\ reader = "loop" /\ running /\ connected
    /\ \/ toClient # <<>> /\ socket \in {"open", "fin", "reset"}
       \/ buffer # <<>> /\ socket \in {"fin", "reset"}
    /\ LET lines == IF buffer = <<>> THEN toClient ELSE buffer
       IN  replies' = Filed(Head(lines)) /\ buffer' = Tail(lines)
    /\ toClient' = IF buffer = <<>> THEN <<>> ELSE toClient
    /\ UNCHANGED <<shared, pc, local, answer, handler, toBroker, executed>>

CloseOnly ==                    \* mutant: connected is not taken back
    socket' = "closed" /\ UNCHANGED connected
DropConnection == socket' = "closed" /\ connected' = FALSE

\* At the end of the stream json.loads('') raises ValueError: the handler
\* closes sf and will connect again; but shutdown of a socket that was reset
\* raises inside the except clause, which ends the thread.
Lost ==
    /\ reader = "loop" /\ running /\ connected
    /\ socket \in {"fin", "reset"} /\ toClient = <<>> /\ buffer = <<>>
    /\ DropConnection
    /\ reader' = IF socket = "reset" THEN "dead" ELSE "loop"
    /\ UNCHANGED <<shared, replies, pc, local, answer, running, losses, wire>>

\* A reset that reaches readline is an OSError, which nothing catches: the
\* thread ends, connected is left TRUE.
Reset ==
    /\ reader = "loop" /\ running /\ connected
    /\ socket = "reset" /\ toClient = <<>> /\ buffer = <<>>
    /\ reader' = "dead"
    /\ UNCHANGED <<shared, replies, pc, local, answer, running, connected, socket,
                   losses, wire>>

\* while self.running: ... else: self.start_connection()
TryConnect ==
    /\ reader = "loop" /\ running /\ ~connected
    /\ reader' = "connecting"
    /\ UNCHANGED <<shared, replies, pc, local, answer, running, connected, socket,
                   losses, wire>>

Connect ==
    /\ reader = "connecting"
    /\ socket' = "open" /\ connected' = TRUE
    /\ toBroker' = <<>> /\ toClient' = <<>> /\ buffer' = <<>>
    /\ reader' = "loop"
    /\ UNCHANGED <<shared, replies, pc, local, answer, running, losses, executed>>

Refused ==
    /\ reader = "connecting"
    /\ reader' = "loop"
    /\ UNCHANGED <<shared, replies, pc, local, answer, running, connected, socket,
                   losses, wire>>

\* running is tested at the top of the loop only; connected is left alone.
Exit ==
    /\ reader = "loop" /\ ~running
    /\ reader' = "dead"
    /\ UNCHANGED <<shared, replies, pc, local, answer, running, connected, socket,
                   losses, wire>>

Reader == Receive \/ Lost \/ Reset \/ TryConnect \/ Refused \/ Exit

-----------------------------------------------------------------------------
(* The broker: it executes and answers the requests of a connection in order. *)

Serve ==
    /\ socket = "open" /\ toBroker # <<>>
    /\ toClient' = Append(toClient, Head(toBroker))
    /\ toBroker' = Tail(toBroker)
    /\ executed' = Append(executed, Head(toBroker))
    /\ UNCHANGED <<shared, replies, pc, local, answer, handler, buffer>>

\* The broker closes the connection in order, after its last reply, or drops
\* it with a reset that overtakes the replies; what it has not read is lost.
Lose ==
    /\ socket = "open" /\ losses < MaxLosses
    /\ losses' = losses + 1
    /\ socket' \in {"fin", "reset"}
    /\ toBroker' = <<>>
    /\ toClient' = IF socket' = "fin" THEN toClient ELSE <<>>
    /\ UNCHANGED <<shared, replies, pc, local, answer, running, connected, reader, buffer, executed>>

-----------------------------------------------------------------------------
Next ==
    \/ \E c \in Callers : Start(c) \/ Caller(c)
    \/ Reader \/ Connect \/ Serve \/ Lose

\* The threads run; a broker that is asked for a connection again and again
\* takes it some time.
Spec == Init /\ [][Next]_vars
               /\ \A c \in Callers : WF_vars(Caller(c))
               /\ WF_vars(Reader) /\ SF_vars(Connect) /\ WF_vars(Serve)

-----------------------------------------------------------------------------
(* Properties. *)

\* As long as no two calls are composed at once, a call that returns a reply
\* returns the reply to its own request, complete with its params: not that
\* of another waiting caller, nor one that came after its caller had given up
\* and was left in _rx_r, nor one from before a reconnection.
OwnReply == apart => \A c \in Callers : answer[c] \subseteq {Request(call[c])}

\* The number of the call a caller is in.
At == [c \in Callers |-> IF pc[c] = "idle" THEN 0 ELSE call[c]]
Service == INSTANCE CallService WITH made <- issued, at <- At, result <- answer

\* As long as no two calls are composed at once, the client keeps the promises of
\* CallService: no request is executed twice or with the params of another call, no
\* late reply and none from before a reconnection answers a call that was not executed.
ImplementsCalls == Service!Init /\ [][Service!Next \/ ~apart']_Service!vars

\* The handler thread stops only because a connection was lost: no order of
\* calls, early calls and timeouts makes a send raise on a sound connection.
StopsOnlyAfterLoss == (~running \/ reader = "dead") => losses > 0

\* A connection that is not open is opened again, unless the handler thread
\* is gone for good.
Recovers == (socket # "open") ~> (socket = "open" \/ reader = "dead")

=============================================================================
