--------------------------- MODULE SessionProofs ---------------------------
(***************************************************************************)
(* Proofs about Session: between two calls the dictionary, the items and   *)
(* the broker agree on what is subscribed (BooksAgree), no callback is     *)
(* started on old news (NoOldNews), and a read returns a fresh value       *)
(* (FreshRead), for any parameters and aliases and any faults.             *)
(***************************************************************************)
EXTENDS Session, TLAPS

Calls == [pc : {"idle", "send", "wait", "write", "stamp", "return", "stopping", "returned"},
          op : {"none", "subscribe", "unsubscribe", "unsubscribe_all", "status"},
          names : SUBSET Names, begun : Int, reply : {"none", "ok", "error"}, sample : Int]

Types ==
    /\ now \in Int
    /\ subscriptions \subseteq Names /\ odd \subseteq Params /\ active \subseteq Params
    /\ subscribed \in [Params -> BOOLEAN]
    /\ wire \in Seq(Requests)
    /\ call \in [Callers -> Calls]

Asking == call["main"].pc \in {"send", "wait", "write"}
Busy(p) == Asking /\ p \in Of("main")

\* What the two threads' calls can be.
MainShape ==
    /\ call["main"].pc \notin {"stamp", "return"}
    /\ Asking => call["main"].op \in {"subscribe", "unsubscribe", "unsubscribe_all"}
    /\ Asking /\ call["main"].op # "subscribe" => call["main"].names \subseteq Params
    /\ call["main"].pc \in {"stopping", "returned"} => call["main"].op \in {"unsubscribe", "unsubscribe_all"}
    /\ call["main"].pc = "send" => call["main"].reply = "none"

ReaderShape == call["reader"].pc # "idle" => call["reader"].op = "status"

\* The request of main's call is in the wire once, while it waits, and behind
\* every request that was given up; what was given up is odd already, or goes
\* odd as soon as main has seen the error.
WireShape ==
    /\ \A i \in DOMAIN wire :
        /\ wire[i].who = "main" =>
              /\ call["main"].pc = "wait" /\ call["main"].reply = "none"
              /\ wire[i].op = Method(call["main"].op) /\ wire[i].params = Of("main")
        /\ wire[i].who = "reader" => wire[i].op = "status"
        /\ wire[i].who = "gone" /\ wire[i].op # "status" =>
              \A p \in wire[i].params :
                  p \in odd \/ (call["main"].pc = "write" /\ call["main"].reply = "error" /\ p \in Of("main"))
    /\ \A i, j \in DOMAIN wire : wire[i].who = "main" /\ i < j => wire[j].op = "status"

\* The items always agree with the dictionary; the broker does, but for the
\* odd parameters and those of the call under way, for which its answer says
\* what it has done.
Books ==
    /\ \A p \in Params : subscribed[p] <=> p \in subscriptions
    /\ \A p \in Params : Busy(p) => p \in subscriptions
    /\ \A p \in Params \ odd : ~Busy(p) => (p \in subscriptions <=> p \in active)
    /\ \A p \in Params \ odd : Busy(p) /\ call["main"].reply = "ok"
                                 => (p \in active <=> call["main"].op = "subscribe")
    /\ call["main"].op = "unsubscribe_all" =>
        /\ Asking => subscriptions \cap Params \subseteq call["main"].names
        /\ call["main"].pc \in {"stopping", "returned"} => subscriptions \cap Params = {}

BooksInv == Types /\ MainShape /\ ReaderShape /\ WireShape /\ Books

-----------------------------------------------------------------------------
\* A name stands for a parameter, a parameter's own name for itself.
LEMMA OwnIsParam ==
    /\ \A n \in Names : Own(n) \in Params
    /\ \A p \in Params : Own(p) = p
    BY NamesAssumption DEF Names, Own

\* What a call is about are parameters.
LEMMA OfParams ==
    ASSUME Types, NEW c \in Callers PROVE Of(c) \subseteq Params
    BY OwnIsParam DEF Types, Calls, Of

\* A call about one name is about the parameter it stands for.
LEMMA OfOwn ==
    ASSUME Types, NEW c \in Callers, call[c].names \subseteq Params PROVE Of(c) = call[c].names
    BY OwnIsParam DEF Of, Names

Places == {"idle", "send", "wait", "write", "stamp", "return", "stopping", "returned"}

\* A call that goes on, with another reply perhaps, keeps what it is about.
LEMMA Moved ==
    ASSUME Types, NEW c \in Callers, NEW x \in Places, NEW y \in {"none", "ok", "error"}, NEW z \in Int,
           \/ call' = [call EXCEPT ![c].pc = x]
           \/ call' = [call EXCEPT ![c].pc = x, ![c].reply = y]
           \/ call' = [call EXCEPT ![c].reply = y, ![c].sample = z]
    PROVE  /\ call' \in [Callers -> Calls]
           /\ \A d \in Callers : call'[d].op = call[d].op /\ call'[d].names = call[d].names
           /\ \A d \in Callers : d # c => call'[d] = call[d]
  <1> DEFINE new == call'[c]
  <1>1. call[c] \in Calls /\ call \in [Callers -> Calls] BY DEF Types
  <1>2. \A d \in Callers : d # c => call'[d] = call[d] BY <1>1
  <1>3. new \in Calls /\ new.op = call[c].op /\ new.names = call[c].names
    BY <1>1 DEF Calls, Places
  <1>4. call' = [call EXCEPT ![c] = new] BY <1>1
  <1>5. call' \in [Callers -> Calls] BY <1>1, <1>3, <1>4
  <1> QED BY <1>2, <1>3, <1>5

\* A call that begins.
LEMMA Begun ==
    ASSUME Types, NEW c \in Callers, NEW op \in {"subscribe", "unsubscribe", "unsubscribe_all", "status"},
           NEW names \in SUBSET Names, NEW x \in Places, Begin(c, op, names, x)
    PROVE  /\ call' \in [Callers -> Calls]
           /\ call'[c].pc = x /\ call'[c].op = op /\ call'[c].names = names /\ call'[c].reply = "none"
           /\ \A d \in Callers : d # c => call'[d] = call[d]
  <1> DEFINE b == IF c = "reader" THEN now ELSE 0
             new == [NoCall EXCEPT !.pc = x, !.op = op, !.names = names, !.begun = b]
  <1>1. call' = [call EXCEPT ![c] = new] BY DEF Begin
  <1>2. b \in Int BY DEF Types
  <1>3. NoCall \in Calls /\ NoCall.reply = "none" BY DEF NoCall, Calls
  <1> HIDE DEF b
  <1>4. new \in Calls BY <1>2, <1>3 DEF Calls, Places
  <1>5. new.pc = x /\ new.op = op /\ new.names = names /\ new.reply = "none" BY <1>3 DEF Calls
  <1> HIDE DEF new
  <1> QED BY <1>1, <1>4, <1>5 DEF Types

\* A call that ends.
LEMMA Ended ==
    ASSUME Types, NEW c \in Callers, Ends(c)
    PROVE  /\ call' \in [Callers -> Calls] /\ call'[c].pc = "idle"  /\ call'[c].op = "none"
           /\ \A d \in Callers : d # c => call'[d] = call[d]
  <1>1. NoCall \in Calls /\ NoCall.pc = "idle" /\ NoCall.op = "none" BY DEF NoCall, Calls
  <1> QED BY <1>1 DEF Ends, Types

\* A client that has just been made has nothing subscribed, nor has the broker.
LEMMA BooksInit == Init => BooksInv
  <1> SUFFICES ASSUME Init PROVE BooksInv OBVIOUS
  <1>1. Types
    <2>1. NoCall \in Calls BY DEF NoCall, Calls
    <2>2. wire \in Seq(Requests) BY DEF Init
    <2> QED BY <2>1, <2>2 DEF Init, Types
  <1>2. call["main"] = NoCall /\ call["reader"] = NoCall BY DEF Init, Callers
  <1>3. MainShape /\ ReaderShape BY <1>2 DEF MainShape, ReaderShape, Asking, NoCall
  <1>4. DOMAIN wire = {} BY DEF Init
  <1>5. WireShape BY <1>4 DEF WireShape
  <1>6. ~Asking /\ call["main"].op = "none" BY <1>2 DEF Asking, NoCall
  <1>7. \A p \in Params : ~Busy(p) /\ ~subscribed[p] /\ p \notin subscriptions /\ p \notin active
    BY <1>6 DEF Busy, Init
  <1>8. Books BY <1>6, <1>7 DEF Books
  <1> QED BY <1>1, <1>3, <1>5, <1>8 DEF BooksInv

\* A step that leaves the books, the wire and main's call alone.
LEMMA Frame ==
    ASSUME BooksInv, UNCHANGED <<subscriptions, subscribed, odd, active, wire>>,
           now' \in Int, call' \in [Callers -> Calls], call'["main"] = call["main"],
           ReaderShape'
    PROVE  BooksInv'
  <1>1. Of("main")' = Of("main") BY DEF Of
  <1>2. Types' BY DEF BooksInv, Types
  <1>3. MainShape' BY DEF BooksInv, MainShape, Asking
  <1>4. WireShape' BY <1>1 DEF BooksInv, WireShape
  <1>5. Books' BY <1>1 DEF BooksInv, Books, Busy, Asking
  <1> QED BY <1>2, <1>3, <1>4, <1>5 DEF BooksInv

\* The reader's steps.
LEMMA ReadStep ==
    ASSUME BooksInv, NEW p \in Params, Read(p) PROVE BooksInv'
  <1> USE DEF BooksInv, Types
  <1>0. "reader" \in Callers /\ "main" \in Callers BY DEF Callers
  <1>1. {p} \in SUBSET Names BY DEF Names
  <1>2. PICK x \in Places : Begin("reader", "status", {p}, x) BY DEF Read, Places
  <1>3. call' \in [Callers -> Calls] /\ call'["main"] = call["main"] /\ ReaderShape'
    <2>1. /\ call' \in [Callers -> Calls] /\ call'["reader"].op = "status"
          /\ \A d \in Callers : d # "reader" => call'[d] = call[d]
      BY <1>0, <1>1, <1>2, Begun
    <2> QED BY <1>0, <2>1 DEF ReaderShape
  <1> QED BY <1>3, Frame DEF Read, books

\* A read writes items and answers, never what is subscribed.
LEMMA ReaderStep ==
    ASSUME BooksInv, WriteValue \/ WriteStamp \/ ReturnValue PROVE BooksInv'
  <1> USE DEF BooksInv, Types
  <1>0. "reader" \in Callers /\ "main" \in Callers BY DEF Callers
  <1>1. UNCHANGED <<now, subscriptions, subscribed, odd, active, wire>>
    BY DEF WriteValue, WriteStamp, ReturnValue, books
  <1>2. CASE WriteValue \/ WriteStamp
    <2>1. call["reader"].pc # "idle" BY <1>2 DEF WriteValue, WriteStamp, At
    <2>2. \E x \in Places : call' = [call EXCEPT !["reader"].pc = x]
      BY <1>2 DEF WriteValue, WriteStamp, To, Places
    <2>3. call' \in [Callers -> Calls] /\ call'["main"] = call["main"] /\ ReaderShape'
      BY <1>0, <2>1, <2>2, Moved DEF ReaderShape
    <2> QED BY <1>1, <2>3, Frame
  <1>3. CASE ReturnValue
    <2>1. call' \in [Callers -> Calls] /\ call'["main"] = call["main"] /\ ReaderShape'
      BY <1>0, <1>3, Ended DEF ReturnValue, ReaderShape
    <2> QED BY <1>1, <2>1, Frame
  <1> QED BY <1>2, <1>3

\* The handler's steps, the clock, the callbacks and the connection's return.
LEMMA OtherStep ==
    ASSUME BooksInv,
           \/ \E p \in Params : AddCallback(p) \/ Notify(p)
           \/ HandlerStarts \/ Apply \/ ApplyTime \/ HandlerEnds \/ Reconnects \/ Tick \/ UNCHANGED vars
    PROVE  BooksInv'
  <1>1. UNCHANGED <<subscriptions, subscribed, odd, active, wire, call>>
    BY DEF HandlerStarts, Apply, ApplyTime, HandlerEnds, Notify, AddCallback, Reconnects, Tick, vars, books, items
  <1>2. now' \in Int
    <2>1. CASE Tick BY <2>1 DEF Tick, BooksInv, Types
    <2>2. CASE ~Tick
      <3>1. UNCHANGED now
        BY <2>2 DEF HandlerStarts, Apply, ApplyTime, HandlerEnds, Notify, AddCallback, Reconnects, vars
      <3> QED BY <3>1 DEF BooksInv, Types
    <2> QED BY <2>1, <2>2
  <1>3. ReaderShape' BY <1>1 DEF BooksInv, ReaderShape
  <1> QED BY <1>1, <1>2, <1>3, Frame DEF BooksInv, Types

-----------------------------------------------------------------------------
(* The steps of the calls. *)

\* A request that is sent: main's becomes the one in the wire.
LEMMA SendStep ==
    ASSUME BooksInv, NEW c \in Callers, Send(c) PROVE BooksInv'
  <1> USE DEF BooksInv, Types
  <1>0. "reader" \in Callers /\ "main" \in Callers BY DEF Callers
  <1> DEFINE r == [who |-> c, op |-> Method(call[c].op), params |-> Of(c)]
  <1>1. UNCHANGED <<now, subscriptions, subscribed, odd, active>> BY DEF Send, books
  <1>2. call' \in [Callers -> Calls] BY Moved DEF Send, To, Places
  <1>3. \A d \in Callers : call'[d].op = call[d].op /\ call'[d].names = call[d].names
    BY Moved DEF Send, To, Places
  <1>4. Of("main")' = Of("main") BY <1>0, <1>3 DEF Of
  <1>5. ReaderShape' BY <1>0, <1>3 DEF Send, At, To, Calls, ReaderShape
  <1>6. CASE ~connected
    <2>1. UNCHANGED wire BY <1>6 DEF Send
    <2>2. CASE c = "reader"
      <3>1. call'["main"] = call["main"] BY <1>0, <1>6, <2>2 DEF Send
      <3> QED BY <1>1, <1>2, <1>5, <2>1, <3>1, Frame
    <2>3. CASE c = "main"
      <3>1. /\ call["main"].pc = "send" /\ call'["main"].pc = "write" /\ call'["main"].reply = "error"
        BY <1>0, <1>6, <2>3 DEF Send, At, Calls
      <3>2. MainShape' BY <1>0, <1>3, <3>1 DEF MainShape, Asking
      <3>3. WireShape' BY <1>1, <1>4, <2>1, <3>1 DEF WireShape
      <3>4. \A p \in Params : Busy(p)' <=> Busy(p) BY <1>4, <3>1 DEF Busy, Asking
      <3>5. Books' BY <1>0, <1>1, <1>3, <3>1, <3>4 DEF Books, Asking
      <3> QED BY <1>1, <1>2, <1>5, <2>1, <3>2, <3>3, <3>5
    <2> QED BY <2>2, <2>3 DEF Callers
  <1>7. CASE connected
    <2>1. wire' = Append(wire, r) BY <1>7 DEF Send
    <2>2. r \in Requests
      <3>1. Of(c) \subseteq Params BY OfParams
      <3>2. Method(call[c].op) \in {"subscribe", "unsubscribe", "status"}
        BY <1>0 DEF Send, At, MainShape, ReaderShape, Asking, Callers, Method
      <3> QED BY <3>1, <3>2 DEF Requests
    <2>3. wire' \in Seq(Requests) /\ Len(wire') = Len(wire) + 1 /\ wire'[Len(wire) + 1] = r
          /\ \A i \in DOMAIN wire : wire'[i] = wire[i]
      BY <2>1, <2>2
    <2>4. DOMAIN wire' = 1..(Len(wire) + 1) /\ DOMAIN wire = 1..Len(wire) /\ Len(wire) \in Nat BY <2>3
    <2>5. Types' BY <1>1, <1>2, <2>3
    <2>6. CASE c = "reader"
      <3>1. call'["main"] = call["main"] BY <1>0, <1>7, <2>6 DEF Send, To
      <3>2. r.who = "reader" /\ r.op = "status" BY <2>6 DEF Send, At, ReaderShape, Method
      <3>3. WireShape'
        <4>1. \A i \in DOMAIN wire' : i \in DOMAIN wire \/ wire'[i] = r BY <2>3, <2>4
        <4>2. \A i \in DOMAIN wire' : wire'[i].who = "main" => i \in DOMAIN wire BY <4>1, <3>2
        <4> QED BY <1>1, <1>4, <2>3, <3>1, <3>2, <4>1, <4>2 DEF WireShape
      <3>4. MainShape' BY <3>1 DEF MainShape, Asking
      <3>5. Books' BY <1>1, <1>4, <3>1 DEF Books, Busy, Asking
      <3> QED BY <1>5, <2>5, <3>3, <3>4, <3>5
    <2>7. CASE c = "main"
      <3>1. /\ call["main"].pc = "send" /\ call'["main"].pc = "wait"
            /\ call["main"].reply = "none" /\ call'["main"].reply = "none"
        BY <1>0, <1>7, <2>7 DEF Send, At, To, Calls, MainShape
      <3>2. MainShape' BY <1>0, <1>3, <3>1 DEF MainShape, Asking
      <3>3. \A p \in Params : Busy(p)' <=> Busy(p) BY <1>4, <3>1 DEF Busy, Asking
      <3>4. Books' BY <1>0, <1>1, <1>3, <3>1, <3>3 DEF Books, Asking
      <3>5. WireShape'
        <4>1. \A i \in DOMAIN wire : wire[i].who # "main" BY <3>1 DEF WireShape
        <4>2. \A i \in DOMAIN wire' : i \in DOMAIN wire \/ (i = Len(wire) + 1 /\ wire'[i] = r) BY <2>3, <2>4
        <4>3. r.who = "main" /\ r.op = Method(call'["main"].op) /\ r.params = Of("main")'
          BY <1>0, <1>3, <1>4, <2>7
        <4>4. \A i, j \in DOMAIN wire' : wire'[i].who = "main" => ~(i < j) BY <2>3, <2>4, <4>1, <4>2
        <4> QED BY <1>1, <1>4, <2>3, <3>1, <4>1, <4>2, <4>3, <4>4 DEF WireShape
      <3> QED BY <1>5, <2>5, <3>2, <3>4, <3>5
    <2> QED BY <2>6, <2>7 DEF Callers
  <1> QED BY <1>6, <1>7

\* A call that gives up: its request is left to nobody.
LEMMA TimesOutStep ==
    ASSUME BooksInv, NEW c \in Callers, TimesOut(c) PROVE BooksInv'
  <1> USE DEF BooksInv, Types
  <1>0. "reader" \in Callers /\ "main" \in Callers BY DEF Callers
  <1>1. UNCHANGED <<now, subscriptions, subscribed, odd, active>> BY DEF TimesOut, books
  <1>2. call' \in [Callers -> Calls] BY Moved DEF TimesOut, Places
  <1>3. \A d \in Callers : call'[d].op = call[d].op /\ call'[d].names = call[d].names
    BY Moved DEF TimesOut, Places
  <1>4. Of("main")' = Of("main") BY <1>0, <1>3 DEF Of
  <1>5. ReaderShape' BY <1>0, <1>3 DEF TimesOut, At, Calls, ReaderShape
  <1>6. /\ DOMAIN wire' = DOMAIN wire
        /\ \A i \in DOMAIN wire : /\ wire[i].who # c => wire'[i] = wire[i]
                                  /\ wire[i].who = c => wire'[i].who = "gone"
                                  /\ wire'[i].op = wire[i].op /\ wire'[i].params = wire[i].params
    <2>1. \A i \in DOMAIN wire : wire[i] \in Requests OBVIOUS
    <2> QED BY <2>1 DEF TimesOut, Requests
  <1>7. wire' \in Seq(Requests)
    <2>1. \A i \in DOMAIN wire : wire[i] \in Requests OBVIOUS
    <2>2. \A i \in DOMAIN wire : [wire[i] EXCEPT !.who = "gone"] \in Requests BY <2>1 DEF Requests
    <2>3. DOMAIN wire = 1..Len(wire) /\ Len(wire) \in Nat OBVIOUS
    <2>4. wire' \in [1..Len(wire) -> Requests] BY <2>1, <2>2, <2>3 DEF TimesOut
    <2> QED BY <2>3, <2>4
  <1>8. Types' BY <1>1, <1>2, <1>7
  <1>9. CASE c = "reader"
    <2>1. call'["main"] = call["main"] BY <1>0, <1>9 DEF TimesOut
    <2>2. WireShape' BY <1>1, <1>4, <1>6, <1>9, <2>1 DEF WireShape
    <2>3. MainShape' BY <2>1 DEF MainShape, Asking
    <2>4. Books' BY <1>1, <1>4, <2>1 DEF Books, Busy, Asking
    <2> QED BY <1>5, <1>8, <2>2, <2>3, <2>4
  <1>10. CASE c = "main"
    <2>1. /\ call["main"].pc = "wait" /\ call'["main"].pc = "write" /\ call'["main"].reply = "error"
      BY <1>0, <1>10 DEF TimesOut, At, Calls
    <2>2. MainShape' BY <1>0, <1>3, <2>1 DEF MainShape, Asking
    <2>3. \A p \in Params : Busy(p)' <=> Busy(p) BY <1>4, <2>1 DEF Busy, Asking
    <2>4. Books' BY <1>0, <1>1, <1>3, <2>1, <2>3 DEF Books, Asking
    <2>5. WireShape'
      <3>1. \A i \in DOMAIN wire' : wire'[i].who # "main" BY <1>6, <1>10
      <3>2. \A i \in DOMAIN wire : wire[i].who = "main" => wire[i].params = Of("main") BY DEF WireShape
      <3>3. \A i \in DOMAIN wire : wire[i].who = "gone" /\ wire[i].op # "status"
                => \A p \in wire[i].params : p \in odd BY <2>1 DEF WireShape
      <3> QED BY <1>1, <1>4, <1>6, <1>10, <2>1, <3>1, <3>2, <3>3 DEF WireShape
    <2> QED BY <1>5, <1>8, <2>2, <2>4, <2>5
  <1> QED BY <1>9, <1>10 DEF Callers

\* Main subscribes: the books change before the request is sent.
LEMMA SubscribeStep ==
    ASSUME BooksInv, NEW n \in Names, Subscribe(n) PROVE BooksInv'
  <1> USE DEF BooksInv, Types
  <1>0. "reader" \in Callers /\ "main" \in Callers BY DEF Callers
  <1>1. call["main"].pc = "idle" BY DEF Subscribe, Idle, At
  <1>2. /\ call' \in [Callers -> Calls] /\ call'["reader"] = call["reader"]
        /\ call'["main"].pc = "send" /\ call'["main"].op = "subscribe"
        /\ call'["main"].names = {n} /\ call'["main"].reply = "none"
    <2>1. {n} \in SUBSET Names /\ "send" \in Places BY DEF Places
    <2> QED BY <1>0, <2>1, Begun DEF Subscribe
  <1>3. Own(n) \in Params /\ Own(n) \in Names BY OwnIsParam DEF Names
  <1>4. Of("main")' = {Own(n)} BY <1>2 DEF Of
  <1>5. /\ subscriptions' = subscriptions \cup {n, Own(n)}
        /\ subscribed' = [subscribed EXCEPT ![Own(n)] = TRUE]
        /\ UNCHANGED <<now, odd, active, wire>>
    BY DEF Subscribe
  <1>6. Types' BY <1>2, <1>3, <1>5
  <1>7. MainShape' BY <1>2 DEF MainShape, Asking
  <1>8. ReaderShape' BY <1>2 DEF ReaderShape
  <1>9. WireShape' BY <1>1, <1>5 DEF WireShape
  <1>10. Books'
    <2>1. \A p \in Params : ~Busy(p) BY <1>1 DEF Busy, Asking
    <2>2. \A p \in Params : Busy(p)' <=> p = Own(n) BY <1>2, <1>4 DEF Busy, Asking
    <2>3. \A p \in Params : p # Own(n) => p # n BY OwnIsParam
    <2>4. \A p \in Params : p \in subscriptions' <=> p \in subscriptions \/ p = Own(n) BY <1>3, <1>5, <2>3
    <2> QED BY <1>2, <1>3, <1>5, <2>1, <2>2, <2>4 DEF Books
  <1> QED BY <1>6, <1>7, <1>8, <1>9, <1>10

\* Main's subscribe ends, in an exception or with the broker's answer.
LEMMA SubscribedStep ==
    ASSUME BooksInv, SubscribeRaises \/ Subscribed PROVE BooksInv'
  <1> USE DEF BooksInv, Types
  <1>0. "reader" \in Callers /\ "main" \in Callers BY DEF Callers
  <1>1. /\ call["main"].op = "subscribe" /\ Asking /\ call["main"].pc \in {"send", "write"}
        /\ UNCHANGED <<now, subscriptions, subscribed, active, wire>>
    BY DEF SubscribeRaises, Subscribed, At, Asking, items
  <1>2. /\ call' \in [Callers -> Calls] /\ call'["reader"] = call["reader"]
        /\ call'["main"].pc = "idle" /\ call'["main"].op = "none"
    BY <1>0, Ended DEF SubscribeRaises, Subscribed
  <1>3. /\ odd \subseteq odd' /\ odd' \subseteq odd \cup Of("main")
        /\ call["main"].reply # "ok" => odd' = odd \cup Of("main")
    <2>1. CASE SubscribeRaises BY <2>1 DEF SubscribeRaises
    <2>2. CASE Subscribed BY <2>2 DEF Subscribed
    <2> QED BY <2>1, <2>2
  <1>4. Of("main") \subseteq Params BY <1>0, OfParams
  <1>5. Types' BY <1>1, <1>2, <1>3, <1>4
  <1>6. MainShape' BY <1>2 DEF MainShape, Asking
  <1>7. ReaderShape' BY <1>2 DEF ReaderShape
  <1>8. WireShape' BY <1>1, <1>3 DEF WireShape
  <1>9. Books'
    <2>1. \A p \in Params : ~Busy(p)' BY <1>2 DEF Busy, Asking
    <2>2. \A p \in Params \ odd' : p \in subscriptions <=> p \in active
      <3> SUFFICES ASSUME NEW p \in Params \ odd' PROVE p \in subscriptions <=> p \in active OBVIOUS
      <3>1. p \in Params \ odd BY <1>3
      <3>2. CASE p \in Of("main")
        <4>1. Busy(p) /\ call["main"].reply = "ok" BY <1>1, <1>3, <3>2 DEF Busy
        <4> QED BY <1>1, <3>1, <4>1 DEF Books
      <3>3. CASE p \notin Of("main") BY <3>1, <3>3 DEF Books, Busy
      <3> QED BY <3>2, <3>3
    <2> QED BY <1>1, <1>2, <2>1, <2>2 DEF Books
  <1> QED BY <1>5, <1>6, <1>7, <1>8, <1>9

\* Main unsubscribes: an alias goes, the rest is asked for.
LEMMA UnsubscribeStep ==
    ASSUME BooksInv, UnsubscribeSome \/ UnsubscribeAll PROVE BooksInv'
  <1> USE DEF BooksInv, Types
  <1>0. "reader" \in Callers /\ "main" \in Callers BY DEF Callers
  <1>1. PICK names \in SUBSET Names, op \in {"unsubscribe", "unsubscribe_all"} :
            Unsubscribe(names, op) /\ (op = "unsubscribe_all" => names = subscriptions)
    BY DEF UnsubscribeSome, UnsubscribeAll
  <1>2. call["main"].pc = "idle" /\ UNCHANGED <<now, odd, active, wire>>
    BY DEF UnsubscribeSome, UnsubscribeAll, Idle, At
  <1> DEFINE x == IF Asked(names) # {} THEN "send" ELSE AfterUnsubscribe(subscriptions \ Drop(names))
  <1>4. x \in {"send", "stopping", "returned"} /\ (x # "send" => Asked(names) = {}) BY DEF AfterUnsubscribe
  <1>13. Begin("main", op, Asked(names), x) BY <1>1 DEF Unsubscribe
  <1> HIDE DEF x
  <1>3. /\ call' \in [Callers -> Calls] /\ call'["reader"] = call["reader"]
        /\ call'["main"].pc = x /\ call'["main"].op = op
        /\ call'["main"].names = Asked(names) /\ call'["main"].reply = "none"
    <2>1. Asked(names) \in SUBSET Names BY DEF Asked
    <2>2. x \in Places BY <1>4 DEF Places
    <2>3. \A d \in Callers : d # "main" => call'[d] = call[d] BY <1>0, <1>13, <2>1, <2>2, Begun
    <2> QED BY <1>0, <1>13, <2>1, <2>2, <2>3, Begun
  <1>5. /\ subscriptions' = subscriptions \ Drop(names) /\ UNCHANGED subscribed
        /\ \A p \in Params : p \in subscriptions' <=> p \in subscriptions
    BY <1>1, NamesAssumption DEF Unsubscribe, Drop
  <1>6. Asked(names) \subseteq Params /\ Asked(names) \subseteq subscriptions BY DEF Asked
  <1>7. Of("main")' = Asked(names)
    <2>1. Of("main")' = {Own(n) : n \in Asked(names)} BY <1>3 DEF Of
    <2> QED BY <1>6, <2>1, OwnIsParam
  <1>8. Types' BY <1>2, <1>3, <1>5
  <1>9. MainShape' BY <1>3, <1>4, <1>6 DEF MainShape, Asking
  <1>10. ReaderShape' BY <1>3 DEF ReaderShape
  <1>11. WireShape' BY <1>2 DEF WireShape
  <1>12. Books'
    <2>1. \A p \in Params : ~Busy(p) BY <1>2 DEF Busy, Asking
    <2>2. \A p \in Params : Busy(p)' => p \in subscriptions BY <1>6, <1>7 DEF Busy
    <2>3. op = "unsubscribe_all" => subscriptions \cap Params \subseteq Asked(names) BY <1>1 DEF Asked
    <2> QED BY <1>2, <1>3, <1>4, <1>5, <2>1, <2>2, <2>3 DEF Books, Asking
  <1> QED BY <1>8, <1>9, <1>10, <1>11, <1>12

\* The broker's answer, or two seconds without one, ends an unsubscribe's
\* request: the entries go.
LEMMA UnsubscribedStep ==
    ASSUME BooksInv, Unsubscribed PROVE BooksInv'
  <1> USE DEF BooksInv, Types
  <1>0. "reader" \in Callers /\ "main" \in Callers BY DEF Callers
  <1> DEFINE gone == call["main"].names
             x == AfterUnsubscribe(subscriptions')
  <1>1. /\ call["main"].pc = "write" /\ call["main"].op \in {"unsubscribe", "unsubscribe_all"}
        /\ UNCHANGED <<now, active, wire>>
        /\ subscriptions' = subscriptions \ gone
        /\ subscribed' = [p \in Params |-> subscribed[p] /\ p \notin gone]
        /\ odd' = IF call["main"].reply = "ok" THEN odd ELSE odd \cup Of("main")
    BY DEF Unsubscribed, At
  <1>2. x \in {"stopping", "returned"} BY DEF AfterUnsubscribe
  <1>3. call' = [call EXCEPT !["main"].pc = x] BY DEF Unsubscribed, To
  <1>4. gone \subseteq Params /\ Of("main") = gone BY <1>0, <1>1, OfOwn DEF MainShape, Asking
  <1> HIDE DEF x
  <1>5. /\ call' \in [Callers -> Calls] /\ call'["reader"] = call["reader"]
        /\ call'["main"].pc = x /\ call'["main"].op = call["main"].op
    <2>1. call'["main"].pc = x BY <1>0, <1>3 DEF Calls
    <2> QED BY <1>0, <1>2, <1>3, <2>1, Moved DEF Places
  <1>6. Types' BY <1>1, <1>4, <1>5
  <1>7. MainShape' BY <1>1, <1>2, <1>5 DEF MainShape, Asking
  <1>8. ReaderShape' BY <1>5 DEF ReaderShape
  <1>9. WireShape' BY <1>1 DEF WireShape
  <1>10. Books'
    <2>1. \A p \in Params : Busy(p) <=> p \in gone BY <1>1, <1>4 DEF Busy, Asking
    <2>2. \A p \in Params : ~Busy(p)' BY <1>2, <1>5 DEF Busy, Asking
    <2>3. \A p \in Params \ odd' : p \in subscriptions' <=> p \in active
      <3> SUFFICES ASSUME NEW p \in Params \ odd' PROVE p \in subscriptions' <=> p \in active OBVIOUS
      <3>1. p \in Params \ odd BY <1>1
      <3>2. CASE p \in gone
        <4>1. Busy(p) /\ call["main"].reply = "ok" BY <1>1, <1>4, <2>1, <3>2
        <4> QED BY <1>1, <3>1, <3>2, <4>1 DEF Books
      <3>3. CASE p \notin gone BY <1>1, <2>1, <3>1, <3>3 DEF Books
      <3> QED BY <3>2, <3>3
    <2>4. \A p \in Params : subscribed'[p] <=> p \in subscriptions' BY <1>1 DEF Books
    <2>5. call["main"].op = "unsubscribe_all" => subscriptions' \cap Params = {}
      BY <1>1 DEF Books, Asking
    <2>6. ~Asking' BY <1>2, <1>5 DEF Asking
    <2> QED BY <1>1, <1>5, <2>2, <2>3, <2>4, <2>5, <2>6 DEF Books
  <1> QED BY <1>6, <1>7, <1>8, <1>9, <1>10

\* The handler thread is told to stop, and has.
LEMMA StopStep ==
    ASSUME BooksInv, StopHandler PROVE BooksInv'
  <1> USE DEF BooksInv, Types
  <1>0. "reader" \in Callers /\ "main" \in Callers BY DEF Callers
  <1>1. /\ call["main"].pc = "stopping"
        /\ UNCHANGED <<now, subscriptions, subscribed, odd, active, wire>>
    BY DEF StopHandler, At, books
  <1>2. CASE running
    <2>1. UNCHANGED call BY <1>2 DEF StopHandler
    <2>2. ReaderShape' BY <2>1 DEF ReaderShape
    <2> QED BY <1>1, <2>1, <2>2, Frame
  <1>3. CASE ~running
    <2>1. call' = [call EXCEPT !["main"].pc = "returned"] BY <1>3 DEF StopHandler, To
    <2>2. /\ call' \in [Callers -> Calls] /\ call'["reader"] = call["reader"]
          /\ call'["main"].pc = "returned" /\ call'["main"].op = call["main"].op
      <3>1. call'["main"].pc = "returned" BY <1>0, <2>1 DEF Calls
      <3> QED BY <1>0, <2>1, <3>1, Moved DEF Places
    <2>3. Types' BY <1>1, <2>2
    <2>4. MainShape' BY <1>1, <2>2 DEF MainShape, Asking
    <2>5. ReaderShape' BY <2>2 DEF ReaderShape
    <2>6. WireShape' BY <1>1 DEF WireShape
    <2>7. ~Asking /\ ~Asking' BY <1>1, <2>2 DEF Asking
    <2>8. Books' BY <1>1, <2>2, <2>7 DEF Books, Busy
    <2> QED BY <2>3, <2>4, <2>5, <2>6, <2>8
  <1> QED BY <1>2, <1>3

\* unsubscribe and unsubscribe_all return.
LEMMA ReturnedStep ==
    ASSUME BooksInv, Returned PROVE BooksInv'
  <1> USE DEF BooksInv, Types
  <1>0. "reader" \in Callers /\ "main" \in Callers BY DEF Callers
  <1>1. /\ call["main"].pc = "returned" /\ UNCHANGED <<now, subscribed, odd, active, wire>>
        /\ subscriptions' = IF call["main"].op = "unsubscribe_all" THEN {} ELSE subscriptions
    BY DEF Returned, At, items
  <1>2. /\ call' \in [Callers -> Calls] /\ call'["reader"] = call["reader"]
        /\ call'["main"].pc = "idle" /\ call'["main"].op = "none"
    BY <1>0, Ended DEF Returned
  <1>3. \A p \in Params : p \in subscriptions' <=> p \in subscriptions BY <1>1 DEF Books
  <1>4. Types' BY <1>1, <1>2
  <1>5. MainShape' BY <1>2 DEF MainShape, Asking
  <1>6. ReaderShape' BY <1>2 DEF ReaderShape
  <1>7. WireShape' BY <1>1 DEF WireShape
  <1>8. ~Asking /\ ~Asking' BY <1>1, <1>2 DEF Asking
  <1>9. Books' BY <1>1, <1>2, <1>3, <1>8 DEF Books, Busy
  <1> QED BY <1>4, <1>5, <1>6, <1>7, <1>9

\* Main takes the broker's answer.
LEMMA AnsweredStep ==
    ASSUME BooksInv, Answered("main") PROVE BooksInv'
  <1> USE DEF BooksInv, Types
  <1>0. "reader" \in Callers /\ "main" \in Callers BY DEF Callers
  <1>1. /\ call["main"].pc = "wait" /\ call["main"].reply # "none"
        /\ call' = [call EXCEPT !["main"].pc = "write"]
        /\ UNCHANGED <<now, subscriptions, subscribed, odd, active, wire>>
    BY DEF Answered, At, To, books
  <1>2. /\ call' \in [Callers -> Calls] /\ call'["reader"] = call["reader"]
        /\ call'["main"].pc = "write" /\ call'["main"].op = call["main"].op
        /\ call'["main"].names = call["main"].names /\ call'["main"].reply = call["main"].reply
    <2>1. call'["main"].pc = "write" /\ call'["main"].reply = call["main"].reply BY <1>0, <1>1 DEF Calls
    <2> QED BY <1>0, <1>1, <2>1, Moved DEF Places
  <1>3. Of("main")' = Of("main") BY <1>2 DEF Of
  <1>4. Types' BY <1>1, <1>2
  <1>5. MainShape' BY <1>1, <1>2 DEF MainShape, Asking
  <1>6. ReaderShape' BY <1>2 DEF ReaderShape
  <1>7. WireShape' BY <1>1, <1>3 DEF WireShape
  <1>8. Asking /\ Asking' BY <1>1, <1>2 DEF Asking
  <1>9. Books' BY <1>1, <1>2, <1>3, <1>8 DEF Books, Busy
  <1> QED BY <1>4, <1>5, <1>6, <1>7, <1>9

\* The connection ends: the requests with it, and all that was subscribed.
LEMMA DisconnectStep ==
    ASSUME BooksInv, Disconnects PROVE BooksInv'
  <1> USE DEF BooksInv, Types
  <1>0. "main" \in Callers BY DEF Callers
  <1>1. /\ wire' = <<>> /\ active' = {} /\ UNCHANGED <<now, subscriptions, subscribed, call>>
        /\ odd' = odd \cup active \cup (subscriptions \cap Params)
                  \cup (IF At("main", "wait") \/ At("main", "send") THEN Of("main") ELSE {})
    BY DEF Disconnects, items
  <1>2. Of("main") \subseteq Params /\ Of("main")' = Of("main") BY <1>0, <1>1, OfParams DEF Of
  <1>3. Types' BY <1>1, <1>2
  <1>4. MainShape' BY <1>1 DEF MainShape, Asking
  <1>5. ReaderShape' BY <1>1 DEF ReaderShape
  <1>6. DOMAIN wire' = {} BY <1>1
  <1>7. WireShape' BY <1>6 DEF WireShape
  <1>8. \A p \in Params : Busy(p)' <=> Busy(p) BY <1>1, <1>2 DEF Busy, Asking
  <1>9. \A p \in Params \ odd' : p \in Params \ odd /\ p \notin subscriptions /\ p \notin active' BY <1>1
  <1>10. Books' BY <1>1, <1>8, <1>9 DEF Books, Asking
  <1> QED BY <1>3, <1>4, <1>5, <1>7, <1>10

\* The broker answers.  An answer to main says what it has done; what it does
\* for a request that was given up concerns odd parameters, or those main is
\* about to give up.
LEMMA BrokerStep ==
    ASSUME BooksInv, BrokerAnswers PROVE BooksInv'
  <1> USE DEF BooksInv, Types
  <1>0. "reader" \in Callers /\ "main" \in Callers BY DEF Callers
  <1> DEFINE r == Head(wire)
  <1>1. /\ wire # <<>> /\ wire' = Tail(wire)
        /\ UNCHANGED <<now, subscriptions, subscribed>>
    BY DEF BrokerAnswers, items
  <1>2. /\ r \in Requests /\ r = wire[1] /\ 1 \in DOMAIN wire
        /\ wire' \in Seq(Requests)
        /\ \A i \in DOMAIN wire' : i + 1 \in DOMAIN wire /\ wire'[i] = wire[i + 1] /\ 1 < i + 1
        /\ \A i, j \in DOMAIN wire' : i < j => i + 1 < j + 1
    BY <1>1
  <1>3. PICK reply \in {"ok", "error"} :
          /\ active' = IF reply = "error" THEN active
                       ELSE CASE r.op = "subscribe" -> active \cup r.params
                              [] r.op = "unsubscribe" -> active \ r.params
                              [] OTHER -> active
          /\ odd' = IF reply = "ok" /\ r.who = "main" THEN odd \ r.params ELSE odd
          /\ call' = IF r.who \in Callers
                     THEN [call EXCEPT ![r.who].reply = reply, ![r.who].sample = IF r.op = "status" THEN now ELSE 0]
                     ELSE call
    BY DEF BrokerAnswers
  <1> DEFINE z == IF r.op = "status" THEN now ELSE 0
  <1>4. z \in Int OBVIOUS
  <1>5. r.params \subseteq Params /\ r.who \in {"main", "reader", "gone"}
        /\ r.op \in {"subscribe", "unsubscribe", "status"}
    BY <1>2 DEF Requests, Callers
  <1> HIDE DEF r, z
  <1>6. /\ call' \in [Callers -> Calls]
        /\ \A d \in Callers : call'[d].op = call[d].op /\ call'[d].names = call[d].names
        /\ \A d \in Callers : call'[d].pc = call[d].pc
        /\ \A d \in Callers : d # r.who => call'[d] = call[d]
        /\ r.who \in Callers => call'[r.who].reply = reply
    <2>1. CASE r.who \in Callers
      <3>1. call' = [call EXCEPT ![r.who].reply = reply, ![r.who].sample = z] BY <1>3, <2>1 DEF z
      <3>2. \A d \in Callers : call'[d].pc = call[d].pc BY <2>1, <3>1 DEF Calls
      <3>3. call'[r.who].reply = reply BY <2>1, <3>1 DEF Calls
      <3> QED BY <1>4, <2>1, <3>1, <3>2, <3>3, Moved DEF Places
    <2>2. CASE r.who \notin Callers
      <3>1. call' = call BY <1>3, <2>2
      <3> QED BY <2>2, <3>1
    <2> QED BY <2>1, <2>2
  <1>7. Of("main")' = Of("main") BY <1>0, <1>6 DEF Of
  <1>8. active' \subseteq Params /\ odd' \subseteq Params BY <1>3, <1>5
  <1>9. Types' BY <1>1, <1>2, <1>6, <1>8
  <1>10. ReaderShape' BY <1>0, <1>6 DEF ReaderShape
  <1>11. \A p \in Params : Busy(p)' <=> Busy(p) BY <1>0, <1>6, <1>7 DEF Busy, Asking
  <1>12. CASE r.who = "main"
    <2>1. /\ call["main"].pc = "wait" /\ call["main"].reply = "none"
          /\ r.op = Method(call["main"].op) /\ r.params = Of("main")
      BY <1>2, <1>12 DEF WireShape
    <2>2. call["main"].op \in {"subscribe", "unsubscribe", "unsubscribe_all"} BY <2>1 DEF MainShape, Asking
    <2>3. MainShape' BY <1>0, <1>6, <2>1 DEF MainShape, Asking
    <2>4. \A i \in DOMAIN wire' : wire'[i].op = "status" /\ wire'[i].who # "main"
      <3> SUFFICES ASSUME NEW i \in DOMAIN wire' PROVE wire'[i].op = "status" /\ wire'[i].who # "main" OBVIOUS
      <3>1. wire'[i].op = "status" BY <1>2, <1>12 DEF WireShape
      <3>2. wire'[i].who = "main" => wire'[i].op = Method(call["main"].op) BY <1>2 DEF WireShape
      <3> QED BY <2>2, <3>1, <3>2 DEF Method
    <2>5. WireShape' BY <2>4 DEF WireShape
    <2>6. \A p \in Params : Busy(p) <=> p \in r.params BY <2>1 DEF Busy, Asking
    <2>7. call'["main"].reply = reply /\ call'["main"].op = call["main"].op
          /\ call'["main"].pc = call["main"].pc /\ call'["main"].names = call["main"].names
      BY <1>0, <1>6, <1>12
    <2>8. reply = "ok" => \A p \in r.params : p \in active' <=> call["main"].op = "subscribe"
      BY <1>3, <1>5, <2>1, <2>2 DEF Method
    <2>9. \A p \in Params \ r.params : (p \in active' <=> p \in active) /\ (p \in odd' <=> p \in odd)
      BY <1>3, <1>5
    <2>10. Asking /\ Asking' BY <2>1, <2>7 DEF Asking
    <2>11. Books' BY <1>1, <1>11, <2>6, <2>7, <2>8, <2>9, <2>10 DEF Books
    <2> QED BY <1>9, <1>10, <2>3, <2>5, <2>11
  <1>13. CASE r.who # "main"
    <2>1. call'["main"] = call["main"] /\ UNCHANGED odd BY <1>0, <1>3, <1>6, <1>13
    <2>2. MainShape' BY <2>1 DEF MainShape, Asking
    <2>3. WireShape'
      <3>1. \A i, j \in DOMAIN wire' : wire'[i].who = "main" /\ i < j => wire'[j].op = "status"
        BY <1>2 DEF WireShape
      <3>2. \A i \in DOMAIN wire' : wire'[i] = wire[i + 1] /\ i + 1 \in DOMAIN wire BY <1>2
      <3> QED BY <1>7, <2>1, <3>1, <3>2 DEF WireShape
    <2>4. \A p \in Params \ odd : ~Busy(p) \/ call["main"].reply = "ok" => (p \in active' <=> p \in active)
      <3>1. CASE r.op = "status" BY <1>3, <3>1
      <3>2. CASE r.op # "status"
        <4>1. r.who = "gone" BY <1>2, <1>5, <1>13, <3>2 DEF WireShape
        <4>2. \A p \in r.params : p \in odd \/ (call["main"].pc = "write" /\ call["main"].reply = "error" /\ p \in Of("main"))
          BY <1>2, <3>2, <4>1 DEF WireShape
        <4>3. \A p \in r.params : p \in odd \/ (Busy(p) /\ call["main"].reply = "error")
          BY <4>2 DEF Busy, Asking
        <4> QED BY <1>3, <1>5, <4>3
      <3> QED BY <3>1, <3>2
    <2>5. Asking' <=> Asking BY <2>1 DEF Asking
    <2>6. Books' BY <1>1, <1>11, <2>1, <2>4, <2>5 DEF Books
    <2> QED BY <1>9, <1>10, <2>2, <2>3, <2>6
  <1> QED BY <1>12, <1>13

-----------------------------------------------------------------------------
\* No step of the client, the broker or the connection breaks the invariant.
LEMMA BooksNext == BooksInv /\ [Next]_vars => BooksInv'
  <1> SUFFICES ASSUME BooksInv, [Next]_vars PROVE BooksInv' OBVIOUS
  <1>1. CASE \E c \in Callers : Send(c) \/ TimesOut(c) BY <1>1, SendStep, TimesOutStep
  <1>2. CASE \E c \in Callers : Answered(c)
    <2>1. CASE Answered("main") BY <2>1, AnsweredStep
    <2>2. CASE Answered("reader")
      <3>1. call["reader"].pc = "wait" BY <2>2 DEF Answered, At
      <3>2. /\ call' = [call EXCEPT !["reader"].pc = "write"]
            /\ UNCHANGED <<now, subscriptions, subscribed, odd, active, wire>>
        BY <2>2 DEF Answered, To, books
      <3>3. call' \in [Callers -> Calls] /\ call'["main"] = call["main"] /\ ReaderShape'
        BY <3>1, <3>2, Moved DEF BooksInv, Types, ReaderShape, Callers, Places
      <3> QED BY <3>2, <3>3, Frame DEF BooksInv, Types
    <2> QED BY <1>2, <2>1, <2>2 DEF Callers
  <1>3. CASE \E n \in Names : Subscribe(n) BY <1>3, SubscribeStep
  <1>4. CASE SubscribeRaises \/ Subscribed BY <1>4, SubscribedStep
  <1>5. CASE UnsubscribeSome \/ UnsubscribeAll BY <1>5, UnsubscribeStep
  <1>6. CASE Unsubscribed BY <1>6, UnsubscribedStep
  <1>7. CASE StopHandler BY <1>7, StopStep
  <1>8. CASE Returned BY <1>8, ReturnedStep
  <1>9. CASE \E p \in Params : Read(p) BY <1>9, ReadStep
  <1>10. CASE WriteValue \/ WriteStamp \/ ReturnValue BY <1>10, ReaderStep
  <1>11. CASE \/ \E p \in Params : AddCallback(p) \/ Notify(p)
              \/ HandlerStarts \/ Apply \/ ApplyTime \/ HandlerEnds \/ Reconnects \/ Tick \/ UNCHANGED vars
    BY <1>11, OtherStep
  <1>12. CASE BrokerAnswers BY <1>12, BrokerStep
  <1>13. CASE Disconnects BY <1>13, DisconnectStep
  <1> QED BY <1>1, <1>2, <1>3, <1>4, <1>5, <1>6, <1>7, <1>8, <1>9, <1>10, <1>11, <1>12, <1>13 DEF Next

\* Between two calls the dictionary, the items' flags and the broker's
\* subscriptions agree on every parameter that is not odd, for any parameters
\* and aliases and any number of faults.
THEOREM BooksAlwaysAgree == Spec => []BooksAgree
  <1>1. BooksInv => BooksAgree
    <2> SUFFICES ASSUME BooksInv, call["main"].pc = "idle", NEW p \in Params \ odd
                 PROVE (subscribed[p] <=> p \in subscriptions) /\ (p \in subscriptions <=> p \in active)
      BY DEF BooksAgree, Idle, At
    <2>1. ~Busy(p) BY DEF Busy, Asking
    <2> QED BY <2>1 DEF BooksInv, Books
  <1> QED BY <1>1, BooksInit, BooksNext, PTL DEF Spec

-----------------------------------------------------------------------------
(* Old news: while the handler thread runs nothing in _rx_n is older than a  *)
(* tick, since the thread clears it first and keeps up with it.              *)

Recent(n) == n.sample >= now - 1

NewsInv ==
    /\ now \in Int /\ rx_n \in Seq(News) /\ running \in BOOLEAN
    /\ since \in [Params -> Int] /\ \A p \in Params : since[p] <= now
    /\ handler \in [pc : {"off", "starting", "loop", "stamp"}, news : News \cup {NoNews}]
    /\ running => handler.pc # "off"
    /\ handler.pc \in {"loop", "stamp"} => \A i \in DOMAIN rx_n : Recent(rx_n[i])
    /\ handler.pc = "stamp" => handler.news \in News /\ Recent(handler.news)

\* There are no notifications at first.
LEMMA NewsInit == Init => NewsInv
  <1> SUFFICES ASSUME Init PROVE NewsInv OBVIOUS
  <1>1. rx_n \in Seq(News) BY DEF Init
  <1>2. since \in [Params -> Int] /\ \A p \in Params : since[p] <= now BY DEF Init
  <1>3. running \in BOOLEAN /\ ~running BY DEF Init
  <1>4. handler = [pc |-> "off", news |-> NoNews] BY DEF Init
  <1>5. now \in Int BY DEF Init
  <1> QED BY <1>1, <1>2, <1>3, <1>4, <1>5 DEF NewsInv

\* What the client's calls and the connection do concerns the handler only
\* when main starts it or stops it.
LEMMA NewsCalls ==
    ASSUME NewsInv,
           \/ \E c \in Callers : Send(c) \/ Answered(c) \/ TimesOut(c)
           \/ SubscribeRaises \/ Subscribed \/ UnsubscribeSome \/ UnsubscribeAll \/ Unsubscribed
           \/ StopHandler \/ Returned \/ WriteValue \/ WriteStamp \/ ReturnValue
           \/ BrokerAnswers \/ Disconnects \/ Reconnects \/ UNCHANGED vars
           \/ \E p \in Params : AddCallback(p) \/ Read(p)
    PROVE  NewsInv'
  <1> DEFINE Alone == UNCHANGED <<now, rx_n, since, handler>> /\ (running' = running \/ running' = FALSE)
  <1> SUFFICES Alone
    <2>1. ASSUME Alone PROVE NewsInv'
      <3>1. CASE running' = running BY <2>1, <3>1 DEF NewsInv, Recent
      <3>2. CASE running' = FALSE BY <2>1, <3>2 DEF NewsInv, Recent
      <3> QED BY <2>1, <3>1, <3>2
    <2> QED BY <2>1
  <1>1. CASE \E c \in Callers : Send(c) \/ Answered(c) \/ TimesOut(c)
    <2>1. PICK c \in Callers : Send(c) \/ Answered(c) \/ TimesOut(c) BY <1>1
    <2>2. CASE Send(c) BY <2>2 DEF Send, books
    <2>3. CASE Answered(c) BY <2>3 DEF Answered, books
    <2>4. CASE TimesOut(c) BY <2>4 DEF TimesOut, books
    <2> QED BY <2>1, <2>2, <2>3, <2>4
  <1>2. CASE SubscribeRaises \/ Subscribed \/ UnsubscribeSome \/ UnsubscribeAll \/ Unsubscribed
    BY <1>2 DEF SubscribeRaises, Subscribed, UnsubscribeSome, UnsubscribeAll, Unsubscribed
  <1>3. CASE StopHandler BY <1>3 DEF StopHandler, books
  <1>4. CASE Returned \/ WriteValue \/ WriteStamp \/ ReturnValue
    BY <1>4 DEF Returned, WriteValue, WriteStamp, ReturnValue, books
  <1>5. CASE BrokerAnswers BY <1>5 DEF BrokerAnswers
  <1>6. CASE Disconnects \/ Reconnects \/ UNCHANGED vars BY <1>6 DEF Disconnects, Reconnects, books, vars
  <1>7. CASE \E p \in Params : AddCallback(p) \/ Read(p) BY <1>7 DEF AddCallback, Read, books
  <1> QED BY <1>1, <1>2, <1>3, <1>4, <1>5, <1>6, <1>7

\* An entry is made now; what the handler holds or will find is no older.
LEMMA NewsSubscribe == ASSUME NewsInv, NEW n \in Names, Subscribe(n) PROVE NewsInv'
  <1> USE DEF NewsInv
  <1>1. UNCHANGED <<now, rx_n>> /\ since' = [since EXCEPT ![Own(n)] = now] /\ running' = TRUE
        /\ handler' = IF running THEN handler ELSE [handler EXCEPT !.pc = "starting"]
    BY DEF Subscribe
  <1>2. since' \in [Params -> Int] /\ \A p \in Params : since'[p] <= now BY <1>1, OwnIsParam
  <1>3. CASE running BY <1>1, <1>2, <1>3 DEF Recent
  <1>4. CASE ~running BY <1>1, <1>2, <1>4
  <1> QED BY <1>3, <1>4

\* The handler empties _rx_n when it starts, and takes what came since.
LEMMA NewsHandler ==
    ASSUME NewsInv, HandlerStarts \/ Apply \/ ApplyTime \/ HandlerEnds PROVE NewsInv'
  <1> USE DEF NewsInv
  <1>1. UNCHANGED <<now, since, running>> BY DEF HandlerStarts, Apply, ApplyTime, HandlerEnds, books
  <1>2. CASE HandlerStarts
    <2>1. DOMAIN rx_n' = {} /\ rx_n' \in Seq(News) BY <1>2 DEF HandlerStarts
    <2> QED BY <1>1, <1>2, <2>1 DEF HandlerStarts
  <1>3. CASE Apply
    <2>1. rx_n # <<>> /\ rx_n' = Tail(rx_n) /\ handler.pc = "loop" BY <1>3 DEF Apply
    <2>2. Head(rx_n) \in News /\ Head(rx_n) = rx_n[1] /\ 1 \in DOMAIN rx_n BY <2>1
    <2>3. rx_n' \in Seq(News) /\ \A i \in DOMAIN rx_n' : i + 1 \in DOMAIN rx_n /\ rx_n'[i] = rx_n[i + 1] BY <2>1
    <2>4. handler' = [pc |-> "stamp", news |-> Head(rx_n)] \/ UNCHANGED handler BY <1>3 DEF Apply
    <2>5. Recent(Head(rx_n)) /\ \A i \in DOMAIN rx_n' : Recent(rx_n'[i]) BY <2>1, <2>2, <2>3
    <2> QED BY <1>1, <2>1, <2>2, <2>3, <2>4, <2>5 DEF Recent
  <1>4. CASE ApplyTime BY <1>1, <1>4 DEF ApplyTime, NoNews, Recent
  <1>5. CASE HandlerEnds BY <1>1, <1>5 DEF HandlerEnds
  <1> QED BY <1>2, <1>3, <1>4, <1>5

\* A notification is of this tick.
LEMMA NewsNotify == ASSUME NewsInv, NEW p \in Params, Notify(p) PROVE NewsInv'
  <1> USE DEF NewsInv
  <1> DEFINE n == [param |-> p, sample |-> now]
  <1>1. rx_n' = Append(rx_n, n) /\ UNCHANGED <<now, since, handler, running>> BY DEF Notify, books
  <1>2. n \in News /\ Recent(n) BY DEF News, Recent
  <1>3. rx_n' \in Seq(News) /\ \A i \in DOMAIN rx_n' : (i \in DOMAIN rx_n /\ rx_n'[i] = rx_n[i]) \/ rx_n'[i] = n
    BY <1>1, <1>2
  <1> HIDE DEF n
  <1> QED BY <1>1, <1>2, <1>3 DEF Recent

\* The clock goes on only when what waits for a running handler is of this tick.
LEMMA NewsTick == ASSUME NewsInv, Tick PROVE NewsInv'
  <1> USE DEF NewsInv
  <1>1. now' = now + 1 /\ UNCHANGED <<rx_n, since, handler, running>> BY DEF Tick, books
  <1>2. handler.pc \in {"off", "loop"} /\ (handler.pc = "loop" => running)
        /\ (running => \A i \in DOMAIN rx_n : rx_n[i].sample = now)
    BY DEF Tick, Prompt
  <1>3. handler.pc = "loop" => \A i \in DOMAIN rx_n : Recent(rx_n[i])' BY <1>1, <1>2 DEF Recent
  <1> QED BY <1>1, <1>2, <1>3

\* No step of the client, the broker or the connection makes old news reach the handler.
LEMMA NewsNext == NewsInv /\ [Next]_vars => NewsInv'
  <1> QED BY NewsCalls, NewsSubscribe, NewsHandler, NewsNotify, NewsTick DEF Next

\* No callback is started with a sample more than a tick older than the last
\* entry of its parameter, however long _rx_n grew while nothing was subscribed.
THEOREM NoCallbackOnOldNews == Spec => []NoOldNews
  <1>1. NewsInv => NoOldNews
    <2> SUFFICES ASSUME NewsInv, Tells PROVE handler.news.sample >= since[handler.news.param] - 1
      BY DEF NoOldNews
    <2>1. handler.news \in News /\ handler.news.sample >= now - 1 BY DEF Tells, NewsInv, Recent
    <2>2. handler.news.param \in Params /\ handler.news.sample \in Int BY <2>1 DEF News
    <2>3. since[handler.news.param] \in Int /\ since[handler.news.param] <= now /\ now \in Int BY <2>2 DEF NewsInv
    <2> QED BY <2>1, <2>2, <2>3
  <1> QED BY <1>1, NewsInit, NewsNext, PTL DEF Spec

-----------------------------------------------------------------------------
(* Fresh reads: whoever writes an item writes a sample of this tick or the  *)
(* one before, so that a value is never more than a tick behind its time.   *)

R == call["reader"]

\* The items, and the notification whose value the handler has just written.
ItemsInv ==
    /\ value \in [Params -> Int] /\ stamp \in [Params -> Int]
    /\ \A p \in Params : stamp[p] <= now /\ value[p] >= stamp[p] - 1
    /\ \A i \in DOMAIN rx_n : rx_n[i].sample <= now
    /\ handler.pc = "stamp" => handler.news.sample <= now /\ value[handler.news.param] >= now - 1

\* The read under way: the answer it has is of this tick, and one that is about
\* to return has seen to it that the value is not too old.
ReaderInv ==
    /\ R.pc \in {"idle", "send", "wait", "write", "stamp", "return"}
    /\ R.names \subseteq Params
    /\ 0 <= now /\ R.begun <= now
    /\ R.reply = "ok" => R.sample = now
    /\ R.pc \in {"idle", "send"} => R.reply = "none"
    /\ R.pc = "write" => R.reply # "none"
    /\ R.pc = "stamp" => R.reply = "ok" /\ \A p \in R.names : value[p] >= now - 1
    /\ R.pc = "return" /\ R.reply # "error" => \A p \in R.names : value[p] >= R.begun - Stale - 1

\* Its request is in the wire once, while it waits.
AskedOnce ==
    /\ \A i \in DOMAIN wire : wire[i].who = "reader" => R.pc = "wait" /\ R.reply = "none"
    /\ \A i, j \in DOMAIN wire : wire[i].who = "reader" /\ wire[j].who = "reader" => i = j

ReadInv == ItemsInv /\ ReaderInv /\ AskedOnce

\* The items start with samples that are too old to be trusted.
LEMMA ReadInit == Init => ReadInv
  <1> SUFFICES ASSUME Init PROVE ReadInv OBVIOUS
  <1>1. Long \in Int /\ Long <= 0 BY StaleAssumption DEF Long
  <1>2. value = [p \in Params |-> Long] /\ stamp = [p \in Params |-> Long] /\ now = 0 BY DEF Init
  <1>3. DOMAIN rx_n = {} /\ DOMAIN wire = {} /\ handler.pc # "stamp" BY DEF Init
  <1>4. ItemsInv BY <1>1, <1>2, <1>3 DEF ItemsInv
  <1>5. R = NoCall BY DEF Init, Callers, R
  <1>6. ReaderInv BY <1>2, <1>5 DEF ReaderInv, NoCall
  <1>7. AskedOnce BY <1>3 DEF AskedOnce
  <1> QED BY <1>4, <1>6, <1>7 DEF ReadInv

\* The read's call, typed.
LEMMA ReaderTyped ==
    ASSUME Types
    PROVE  R \in Calls /\ R.begun \in Int /\ R.sample \in Int /\ now \in Int /\ "reader" \in Callers
  <1>1. "reader" \in Callers BY DEF Callers
  <1> QED BY <1>1 DEF Types, Calls, R

\* Steps that leave the items, the read and its request alone.
LEMMA ReadFrame ==
    ASSUME ReadInv, UNCHANGED <<now, value, stamp, rx_n, wire, R>>,
           UNCHANGED handler \/ handler'.pc # "stamp"
    PROVE  ReadInv'
  <1>1. ItemsInv' BY DEF ReadInv, ItemsInv
  <1>2. ReaderInv' BY DEF ReadInv, ReaderInv
  <1>3. AskedOnce' BY DEF ReadInv, AskedOnce
  <1> QED BY <1>1, <1>2, <1>3 DEF ReadInv

\* Main's calls, and the start and the end of what goes on beside them.
LEMMA ReadMain ==
    ASSUME BooksInv, NewsInv, ReadInv,
           \/ \E n \in Names : Subscribe(n)
           \/ SubscribeRaises \/ Subscribed \/ UnsubscribeSome \/ UnsubscribeAll \/ Unsubscribed
           \/ StopHandler \/ Returned \/ Answered("main")
           \/ \E p \in Params : AddCallback(p)
           \/ HandlerEnds \/ Reconnects \/ UNCHANGED vars
    PROVE  ReadInv'
  <1>0. Types /\ "main" \in Callers /\ "reader" \in Callers BY DEF BooksInv, Callers
  <1>1. ASSUME UNCHANGED <<now, value, stamp, rx_n, wire>>, call'["reader"] = call["reader"],
               UNCHANGED handler \/ handler'.pc # "stamp"
        PROVE  ReadInv'
    BY <1>1, ReadFrame DEF R
  <1>2. ASSUME NEW names, NEW op, NEW x, Begin("main", op, names, x)
        PROVE  call'["reader"] = call["reader"]
    BY <1>0, <1>2 DEF Begin, Types
  <1>3. ASSUME NEW x, To("main", x) PROVE call'["reader"] = call["reader"]
    BY <1>0, <1>3 DEF To, Types
  <1>4. Ends("main") => call'["reader"] = call["reader"] BY <1>0 DEF Ends, Types
  <1>5. ASSUME NEW n \in Names, Subscribe(n) PROVE ReadInv'
    <2>1. UNCHANGED handler \/ handler'.pc # "stamp"
      <3>1. CASE running BY <1>5, <3>1 DEF Subscribe
      <3>2. CASE ~running
        <4>1. handler' = [handler EXCEPT !.pc = "starting"] BY <1>5, <3>2 DEF Subscribe
        <4> QED BY <4>1 DEF NewsInv
      <3> QED BY <3>1, <3>2
    <2> QED BY <1>1, <1>2, <1>5, <2>1 DEF Subscribe
  <1>6. CASE SubscribeRaises \/ Subscribed BY <1>1, <1>4, <1>6 DEF SubscribeRaises, Subscribed, items
  <1>7. CASE UnsubscribeSome \/ UnsubscribeAll
    BY <1>1, <1>2, <1>7 DEF UnsubscribeSome, UnsubscribeAll, Unsubscribe
  <1>8. CASE Unsubscribed BY <1>1, <1>3, <1>8 DEF Unsubscribed
  <1>9. CASE StopHandler \/ Answered("main") BY <1>1, <1>3, <1>9 DEF StopHandler, Answered
  <1>10. CASE Returned BY <1>1, <1>4, <1>10 DEF Returned, items
  <1>11. CASE (\E p \in Params : AddCallback(p)) \/ Reconnects \/ UNCHANGED vars
    BY <1>1, <1>11 DEF AddCallback, Reconnects, vars, items
  <1>12. CASE HandlerEnds
    <2>1. handler.pc = "loop" /\ handler' = [handler EXCEPT !.pc = "off"] BY <1>12 DEF HandlerEnds
    <2>2. handler'.pc # "stamp" BY <2>1
    <2> QED BY <1>1, <1>12, <2>2 DEF HandlerEnds
  <1> QED BY <1>5, <1>6, <1>7, <1>8, <1>9, <1>10, <1>11, <1>12

\* The read begins: what it trusts is at most Stale old, and a tick.
LEMMA ReadBegins ==
    ASSUME BooksInv, NewsInv, ReadInv, NEW p \in Params, Read(p) PROVE ReadInv'
  <1>0. Types /\ "reader" \in Callers BY DEF BooksInv, Callers
  <1>1. UNCHANGED <<now, value, stamp, rx_n, wire, handler>> BY DEF Read
  <1>2. R.pc = "idle" BY DEF Read, Idle, At, R
  <1> DEFINE x == IF Trusted(p) THEN "return" ELSE "send"
  <1>3. R' = [NoCall EXCEPT !.pc = x, !.op = "status", !.names = {p}, !.begun = now]
    BY <1>0 DEF Read, Begin, Types, R
  <1>4. x \in {"return", "send"} /\ (x = "return" => stamp[p] >= now - Stale) BY DEF Trusted
  <1> HIDE DEF x
  <1>5. R'.pc = x /\ R'.names = {p} /\ R'.begun = now /\ R'.reply = "none"
    BY <1>3 DEF NoCall
  <1>6. ItemsInv' BY <1>1 DEF ReadInv, ItemsInv
  <1>7. ReaderInv'
    <2>1. now \in Int /\ Stale \in Int BY <1>0, StaleAssumption DEF Types
    <2>2. value[p] \in Int /\ stamp[p] \in Int /\ value[p] >= stamp[p] - 1 BY DEF ReadInv, ItemsInv
    <2>3. x = "return" => value[p] >= now - Stale - 1 BY <1>4, <2>1, <2>2
    <2> QED BY <1>1, <1>4, <1>5, <2>1, <2>3 DEF ReadInv, ReaderInv
  <1>8. AskedOnce' BY <1>1, <1>2 DEF ReadInv, AskedOnce
  <1> QED BY <1>6, <1>7, <1>8 DEF ReadInv

\* The read goes on to another place: all else about it stays.
LEMMA ReaderMoves ==
    ASSUME Types, NEW x \in Places, To("reader", x)
    PROVE  R'.pc = x /\ R'.names = R.names /\ R'.begun = R.begun /\ R'.reply = R.reply /\ R'.sample = R.sample
  <1>1. "reader" \in Callers BY DEF Callers
  <1> QED BY <1>1 DEF To, Types, Calls, R

\* The answer is taken.
LEMMA ReadAnswered ==
    ASSUME BooksInv, NewsInv, ReadInv, Answered("reader") PROVE ReadInv'
  <1>1. /\ R.pc = "wait" /\ R.reply # "none" /\ To("reader", "write")
        /\ UNCHANGED <<now, value, stamp, rx_n, wire, handler>>
    BY DEF Answered, At, R
  <1>2. R'.pc = "write" /\ R'.names = R.names /\ R'.begun = R.begun /\ R'.reply = R.reply /\ R'.sample = R.sample
    BY <1>1, ReaderMoves DEF BooksInv, Places
  <1>3. ItemsInv' BY <1>1 DEF ReadInv, ItemsInv
  <1>4. ReaderInv' BY <1>1, <1>2 DEF ReadInv, ReaderInv
  <1>5. AskedOnce' BY <1>1, <1>2 DEF ReadInv, AskedOnce
  <1> QED BY <1>3, <1>4, <1>5 DEF ReadInv

\* What is written is the answer's value, of this tick.
LEMMA ReadWrites == ASSUME BooksInv, NewsInv, ReadInv, WriteValue PROVE ReadInv'
  <1>0. Types /\ R \in Calls /\ now \in Int /\ R.sample \in Int /\ Of("reader") = R.names
    BY ReaderTyped, OfOwn DEF BooksInv, ReadInv, ReaderInv, R
  <1>1. R.pc = "write" /\ UNCHANGED <<now, stamp, rx_n, wire, handler>> BY DEF WriteValue, At, R
  <1>2. AskedOnce'
    <2>1. \A i \in DOMAIN wire : wire[i].who # "reader" BY <1>1 DEF ReadInv, AskedOnce
    <2> QED BY <1>1, <2>1 DEF AskedOnce
  <1>3. CASE R.reply = "ok"
    <2>1. /\ value' = [p \in Params |-> IF p \in R.names THEN R.sample ELSE value[p]]
          /\ To("reader", "stamp")
      BY <1>0, <1>3 DEF WriteValue, R
    <2>2. R'.pc = "stamp" /\ R'.names = R.names /\ R'.begun = R.begun /\ R'.reply = R.reply /\ R'.sample = R.sample
      BY <1>0, <2>1, ReaderMoves DEF Places
    <2>3. R.sample = now /\ R.names \subseteq Params BY <1>3 DEF ReadInv, ReaderInv
    <2>4. \A p \in Params : value'[p] = now \/ value'[p] = value[p] BY <2>1, <2>3
    <2>5. value' \in [Params -> Int] BY <1>0, <2>1 DEF ReadInv, ItemsInv
    <2>6. ItemsInv'
      <3>1. \A p \in Params : stamp[p] \in Int /\ stamp[p] <= now /\ value[p] >= stamp[p] - 1
        BY DEF ReadInv, ItemsInv
      <3>2. \A p \in Params : value'[p] >= stamp[p] - 1 BY <1>0, <2>4, <3>1
      <3>3. handler.pc = "stamp" => value'[handler.news.param] >= now - 1
        <4>1. handler.pc = "stamp" => handler.news.param \in Params BY DEF NewsInv, News
        <4> QED BY <1>0, <2>4, <4>1 DEF ReadInv, ItemsInv
      <3> QED BY <1>1, <2>5, <3>1, <3>2, <3>3 DEF ReadInv, ItemsInv
    <2>7. ReaderInv'
      <3>1. \A p \in R.names : value'[p] >= now - 1 BY <1>0, <2>1, <2>3
      <3> QED BY <1>1, <1>3, <2>2, <3>1 DEF ReadInv, ReaderInv
    <2> QED BY <1>2, <2>6, <2>7 DEF ReadInv
  <1>4. CASE R.reply # "ok"
    <2>1. To("reader", "return") /\ UNCHANGED value BY <1>4 DEF WriteValue, R
    <2>2. R'.pc = "return" /\ R'.names = R.names /\ R'.begun = R.begun /\ R'.reply = R.reply /\ R'.sample = R.sample
      BY <1>0, <2>1, ReaderMoves DEF Places
    <2>3. R.reply = "error" BY <1>0, <1>1, <1>4 DEF ReadInv, ReaderInv, Calls
    <2>4. ItemsInv' BY <1>1, <2>1 DEF ReadInv, ItemsInv
    <2>5. ReaderInv' BY <1>1, <2>1, <2>2, <2>3 DEF ReadInv, ReaderInv
    <2> QED BY <1>2, <2>4, <2>5 DEF ReadInv
  <1> QED BY <1>3, <1>4

\* Its time follows: the value is of this tick or the one before, whoever has
\* written it since.
LEMMA ReadStamps == ASSUME BooksInv, NewsInv, ReadInv, WriteStamp PROVE ReadInv'
  <1>0. Types /\ R \in Calls /\ now \in Int /\ R.sample \in Int /\ Of("reader") = R.names /\ R.begun \in Int
    BY ReaderTyped, OfOwn DEF BooksInv, ReadInv, ReaderInv, R
  <1>1. /\ R.pc = "stamp" /\ UNCHANGED <<now, value, rx_n, wire, handler>>
        /\ stamp' = [p \in Params |-> IF p \in R.names THEN R.sample ELSE stamp[p]]
        /\ To("reader", "return")
    BY <1>0 DEF WriteStamp, At, R
  <1>2. R'.pc = "return" /\ R'.names = R.names /\ R'.begun = R.begun /\ R'.reply = R.reply /\ R'.sample = R.sample
    BY <1>0, <1>1, ReaderMoves DEF Places
  <1>3. R.reply = "ok" /\ R.sample = now /\ R.names \subseteq Params /\ R.begun <= now
        /\ \A p \in R.names : value[p] >= now - 1
    BY <1>1 DEF ReadInv, ReaderInv
  <1>4. value \in [Params -> Int] /\ stamp' \in [Params -> Int]
    BY <1>0, <1>1 DEF ReadInv, ItemsInv
  <1>5. ItemsInv'
    <2>1. \A p \in Params : stamp'[p] <= now /\ value[p] >= stamp'[p] - 1
      BY <1>0, <1>1, <1>3 DEF ReadInv, ItemsInv
    <2> QED BY <1>1, <1>4, <2>1 DEF ReadInv, ItemsInv
  <1>6. ReaderInv'
    <2>1. \A p \in R.names : value[p] >= R.begun - Stale - 1 BY <1>0, <1>3, <1>4, StaleAssumption
    <2> QED BY <1>1, <1>2, <1>3, <2>1 DEF ReadInv, ReaderInv
  <1>7. AskedOnce' BY <1>1, <1>2 DEF ReadInv, AskedOnce
  <1> QED BY <1>5, <1>6, <1>7 DEF ReadInv

\* The read returns, and there is none.
LEMMA ReadReturns == ASSUME BooksInv, NewsInv, ReadInv, ReturnValue PROVE ReadInv'
  <1>0. Types /\ now \in Int /\ "reader" \in Callers BY DEF BooksInv, Types, Callers
  <1>1. R.pc = "return" /\ Ends("reader") /\ UNCHANGED <<now, value, stamp, rx_n, wire, handler>>
    BY DEF ReturnValue, At, R
  <1>2. R' = NoCall BY <1>0, <1>1 DEF Ends, Types, R
  <1>3. ItemsInv' BY <1>1 DEF ReadInv, ItemsInv
  <1>4. R'.begun <= now
    <2>1. 0 <= now BY DEF ReadInv, ReaderInv
    <2> QED BY <1>2, <2>1 DEF NoCall
  <1>5. ReaderInv' BY <1>1, <1>2, <1>4 DEF ReadInv, ReaderInv, NoCall
  <1>6. AskedOnce' BY <1>1 DEF ReadInv, AskedOnce
  <1> QED BY <1>3, <1>5, <1>6 DEF ReadInv

\* A request is sent; the read's is the only one of its kind.
LEMMA ReadSend == ASSUME BooksInv, NewsInv, ReadInv, NEW c \in Callers, Send(c) PROVE ReadInv'
  <1>0. Types /\ "reader" \in Callers BY DEF BooksInv, Callers
  <1>1. UNCHANGED <<now, value, stamp, rx_n, handler>> BY DEF Send
  <1> DEFINE r == [who |-> c, op |-> Method(call[c].op), params |-> Of(c)]
  <1>2. wire' = Append(wire, r) \/ UNCHANGED wire BY DEF Send
  <1>3. \A i \in DOMAIN wire' : (i \in DOMAIN wire /\ wire'[i] = wire[i]) \/ (i = Len(wire) + 1 /\ wire'[i].who = c)
    <2>1. wire \in Seq(Requests) BY <1>0 DEF Types
    <2> QED BY <1>2, <2>1
  <1>4. ItemsInv' BY <1>1 DEF ReadInv, ItemsInv
  <1>5. CASE c = "main"
    <2>1. UNCHANGED R BY <1>0, <1>5 DEF Send, To, Types, R
    <2>2. ReaderInv' BY <1>1, <2>1 DEF ReadInv, ReaderInv
    <2>3. \A i \in DOMAIN wire' : wire'[i].who = "reader" => i \in DOMAIN wire /\ wire'[i] = wire[i]
      BY <1>3, <1>5
    <2>4. AskedOnce' BY <2>1, <2>3 DEF ReadInv, AskedOnce
    <2> QED BY <1>4, <2>2, <2>4 DEF ReadInv
  <1>6. CASE c = "reader"
    <2>1. R.pc = "send" /\ R.reply = "none" BY <1>6 DEF Send, At, R, ReadInv, ReaderInv
    <2>2. \A i \in DOMAIN wire : wire[i].who # "reader" BY <2>1 DEF ReadInv, AskedOnce
    <2>3. CASE connected
      <3>1. To("reader", "wait") BY <1>6, <2>3 DEF Send
      <3>2. R'.pc = "wait" /\ R'.names = R.names /\ R'.begun = R.begun /\ R'.reply = R.reply /\ R'.sample = R.sample
        BY <1>0, <3>1, ReaderMoves DEF Places
      <3>3. ReaderInv' BY <1>1, <2>1, <3>2 DEF ReadInv, ReaderInv
      <3>4. AskedOnce' BY <1>3, <2>1, <2>2, <3>2 DEF AskedOnce
      <3> QED BY <1>4, <3>3, <3>4 DEF ReadInv
    <2>4. CASE ~connected
      <3>1. UNCHANGED wire /\ call' = [call EXCEPT !["reader"].pc = "write", !["reader"].reply = "error"]
        BY <1>6, <2>4 DEF Send
      <3>2. R'.pc = "write" /\ R'.names = R.names /\ R'.begun = R.begun /\ R'.reply = "error"
        BY <1>0, <3>1 DEF Types, Calls, R
      <3>3. ReaderInv' BY <1>1, <3>2 DEF ReadInv, ReaderInv
      <3>4. AskedOnce' BY <2>2, <3>1 DEF AskedOnce
      <3> QED BY <1>4, <3>3, <3>4 DEF ReadInv
    <2> QED BY <2>3, <2>4
  <1> QED BY <1>5, <1>6 DEF Callers

\* A call gives up: its request is nobody's.
LEMMA ReadTimesOut == ASSUME BooksInv, NewsInv, ReadInv, NEW c \in Callers, TimesOut(c) PROVE ReadInv'
  <1>0. Types /\ "reader" \in Callers BY DEF BooksInv, Callers
  <1>1. /\ UNCHANGED <<now, value, stamp, rx_n, handler>>
        /\ call' = [call EXCEPT ![c].pc = "write", ![c].reply = "error"]
    BY DEF TimesOut
  <1>2. \A i \in DOMAIN wire' : /\ i \in DOMAIN wire
                                /\ wire'[i].who = "reader" => wire[i].who = "reader" /\ c # "reader"
    <2>1. \A i \in DOMAIN wire : wire[i] \in Requests BY <1>0 DEF Types
    <2> QED BY <2>1 DEF TimesOut, Requests
  <1>3. ItemsInv' BY <1>1 DEF ReadInv, ItemsInv
  <1>4. CASE c = "main"
    <2>1. UNCHANGED R BY <1>0, <1>1, <1>4 DEF Types, R
    <2>2. ReaderInv' BY <1>1, <2>1 DEF ReadInv, ReaderInv
    <2>3. AskedOnce' BY <1>2, <2>1 DEF ReadInv, AskedOnce
    <2> QED BY <1>3, <2>2, <2>3 DEF ReadInv
  <1>5. CASE c = "reader"
    <2>1. R'.pc = "write" /\ R'.names = R.names /\ R'.begun = R.begun /\ R'.reply = "error"
      BY <1>0, <1>1, <1>5 DEF Types, Calls, R
    <2>2. ReaderInv' BY <1>1, <2>1 DEF ReadInv, ReaderInv
    <2>3. AskedOnce' BY <1>2, <1>5 DEF AskedOnce
    <2> QED BY <1>3, <2>2, <2>3 DEF ReadInv
  <1> QED BY <1>4, <1>5 DEF Callers

\* The handler writes what is of this tick or the one before.
LEMMA ReadHandler ==
    ASSUME BooksInv, NewsInv, ReadInv, HandlerStarts \/ Apply \/ ApplyTime PROVE ReadInv'
  <1>1. UNCHANGED <<now, wire, call, R>> BY DEF HandlerStarts, Apply, ApplyTime, R
  <1>2. AskedOnce' BY <1>1 DEF ReadInv, AskedOnce
  <1>0. now \in Int /\ Stale \in Int /\ R.begun \in Int /\ rx_n \in Seq(News)
    BY ReaderTyped, StaleAssumption DEF BooksInv, NewsInv
  <1>3. CASE HandlerStarts
    <2>1. DOMAIN rx_n' = {} /\ handler'.pc = "loop" /\ UNCHANGED <<value, stamp>>
      BY <1>3 DEF HandlerStarts, NewsInv
    <2>2. ItemsInv' BY <1>1, <2>1 DEF ReadInv, ItemsInv
    <2>3. ReaderInv' BY <1>1, <2>1 DEF ReadInv, ReaderInv
    <2> QED BY <1>2, <2>2, <2>3 DEF ReadInv
  <1>4. CASE Apply
    <2> DEFINE n == Head(rx_n)
    <2>1. /\ rx_n # <<>> /\ rx_n' = Tail(rx_n) /\ UNCHANGED stamp /\ handler.pc = "loop"
          /\ IF n.param \in subscriptions
             THEN value' = [value EXCEPT ![n.param] = n.sample] /\ handler' = [pc |-> "stamp", news |-> n]
             ELSE UNCHANGED <<value, handler>>
      BY <1>4 DEF Apply
    <2>2. n \in News /\ n = rx_n[1] /\ 1 \in DOMAIN rx_n
          /\ \A i \in DOMAIN rx_n' : i + 1 \in DOMAIN rx_n /\ rx_n'[i] = rx_n[i + 1]
      BY <1>0, <2>1
    <2>3. n.sample \in Int /\ n.sample <= now /\ n.sample >= now - 1 /\ n.param \in Params
      BY <2>1, <2>2 DEF ReadInv, ItemsInv, NewsInv, Recent, News
    <2> HIDE DEF n
    <2>4. /\ value' \in [Params -> Int]
          /\ \A p \in Params : value'[p] = value[p] \/ value'[p] >= now - 1
          /\ handler'.pc = "stamp" => handler'.news.sample <= now /\ value'[handler'.news.param] >= now - 1
      BY <2>1, <2>3 DEF ReadInv, ItemsInv
    <2>5. ItemsInv'
      <3>1. \A p \in Params : value[p] \in Int /\ value'[p] \in Int /\ stamp[p] \in Int
        BY <2>4 DEF ReadInv, ItemsInv
      <3>2. \A p \in Params : stamp[p] <= now /\ value'[p] >= stamp[p] - 1
        <4>1. \A p \in Params : stamp[p] <= now /\ value[p] >= stamp[p] - 1 BY DEF ReadInv, ItemsInv
        <4>2. \A p \in Params : now - 1 >= stamp[p] - 1 BY <1>0, <3>1, <4>1
        <4> QED BY <1>0, <2>4, <3>1, <4>1, <4>2
      <3>3. \A i \in DOMAIN rx_n' : rx_n'[i].sample <= now BY <2>2 DEF ReadInv, ItemsInv
      <3> QED BY <1>1, <2>1, <2>4, <3>2, <3>3 DEF ReadInv, ItemsInv
    <2>6. ReaderInv'
      <3>1. R.names \subseteq Params /\ R.begun <= now BY DEF ReadInv, ReaderInv
      <3>2. \A p \in R.names : value'[p] = value[p] \/ value'[p] >= R.begun - Stale - 1
        BY <1>0, <2>4, <3>1, StaleAssumption
      <3> QED BY <1>1, <2>4, <3>1, <3>2 DEF ReadInv, ReaderInv
    <2> QED BY <1>2, <2>5, <2>6 DEF ReadInv
  <1>5. CASE ApplyTime
    <2> DEFINE n == handler.news
    <2>1. /\ handler.pc = "stamp" /\ handler'.pc = "loop" /\ UNCHANGED <<value, rx_n>>
          /\ stamp' = [stamp EXCEPT ![n.param] = n.sample] \/ UNCHANGED stamp
      BY <1>5 DEF ApplyTime
    <2>2. n \in News /\ n.sample \in Int /\ n.sample <= now /\ value[n.param] >= now - 1 /\ n.param \in Params
      BY <2>1 DEF ReadInv, ItemsInv, NewsInv, News
    <2> HIDE DEF n
    <2>3. value \in [Params -> Int] /\ stamp' \in [Params -> Int] BY <2>1, <2>2 DEF ReadInv, ItemsInv
    <2>4. \A p \in Params : stamp'[p] <= now /\ value[p] >= stamp'[p] - 1
      <3>1. \A p \in Params : value[p] \in Int /\ stamp[p] \in Int /\ stamp[p] <= now /\ value[p] >= stamp[p] - 1
        BY DEF ReadInv, ItemsInv
      <3>2. value[n.param] >= n.sample - 1 BY <1>0, <2>2, <3>1
      <3>3. \A p \in Params : stamp'[p] = stamp[p] \/ (p = n.param /\ stamp'[p] = n.sample)
        BY <2>1, <2>2 DEF ReadInv, ItemsInv
      <3> QED BY <2>2, <3>1, <3>2, <3>3
    <2>5. ItemsInv' BY <1>1, <2>1, <2>3, <2>4 DEF ReadInv, ItemsInv
    <2>6. ReaderInv' BY <1>1, <2>1 DEF ReadInv, ReaderInv
    <2> QED BY <1>2, <2>5, <2>6 DEF ReadInv
  <1> QED BY <1>3, <1>4, <1>5

\* A notification is of this tick.
LEMMA ReadNotify ==
    ASSUME BooksInv, NewsInv, ReadInv, NEW p \in Params, Notify(p) PROVE ReadInv'
  <1>1. /\ UNCHANGED <<now, value, stamp, handler, wire, R>>
        /\ rx_n' = Append(rx_n, [param |-> p, sample |-> now])
    BY DEF Notify, R
  <1>2. \A i \in DOMAIN rx_n' : rx_n'[i].sample <= now
    <2>1. \A i \in DOMAIN rx_n' : (i \in DOMAIN rx_n /\ rx_n'[i] = rx_n[i]) \/ rx_n'[i].sample = now
      BY <1>1 DEF NewsInv
    <2>2. now <= now BY DEF NewsInv
    <2>3. \A i \in DOMAIN rx_n : rx_n[i].sample <= now BY DEF ReadInv, ItemsInv
    <2> QED BY <2>1, <2>2, <2>3
  <1>3. ItemsInv' BY <1>1, <1>2 DEF ReadInv, ItemsInv
  <1>4. ReaderInv' BY <1>1 DEF ReadInv, ReaderInv
  <1>5. AskedOnce' BY <1>1 DEF ReadInv, AskedOnce
  <1> QED BY <1>3, <1>4, <1>5 DEF ReadInv

\* The clock goes on only between the writes of an item, and while no answer
\* waits for its caller.
LEMMA ReadTick == ASSUME BooksInv, NewsInv, ReadInv, Tick PROVE ReadInv'
  <1>1. now' = now + 1 /\ UNCHANGED <<value, stamp, rx_n, handler, wire, R>> BY DEF Tick, R
  <1>2. handler.pc # "stamp" /\ R.pc \in {"idle", "wait"} /\ R.reply = "none"
    BY DEF Tick, Prompt, Idle, At, Callers, R, ReadInv, ReaderInv
  <1>0. now \in Int /\ R.begun \in Int BY ReaderTyped DEF BooksInv
  <1>3. ItemsInv'
    <2>1. \A p \in Params : stamp[p] <= now + 1
      <3>1. \A p \in Params : stamp[p] \in Int /\ stamp[p] <= now BY DEF ReadInv, ItemsInv
      <3> QED BY <1>0, <3>1
    <2>2. \A i \in DOMAIN rx_n : rx_n[i].sample <= now + 1
      <3>1. \A i \in DOMAIN rx_n : rx_n[i] \in News BY DEF NewsInv
      <3>2. \A i \in DOMAIN rx_n : rx_n[i].sample \in Int BY <3>1 DEF News
      <3>3. \A i \in DOMAIN rx_n : rx_n[i].sample <= now BY DEF ReadInv, ItemsInv
      <3> QED BY <1>0, <3>2, <3>3
    <2> QED BY <1>1, <1>2, <2>1, <2>2 DEF ReadInv, ItemsInv
  <1>4. ReaderInv' BY <1>0, <1>1, <1>2 DEF ReadInv, ReaderInv
  <1>5. AskedOnce' BY <1>1 DEF ReadInv, AskedOnce
  <1> QED BY <1>3, <1>4, <1>5 DEF ReadInv

\* The broker answers: what it has sampled for the read is of this tick.
LEMMA ReadBroker == ASSUME BooksInv, NewsInv, ReadInv, BrokerAnswers PROVE ReadInv'
  <1>0. Types /\ "reader" \in Callers BY DEF BooksInv, Callers
  <1> DEFINE r == Head(wire)
  <1>1. wire # <<>> /\ wire' = Tail(wire) /\ UNCHANGED <<now, value, stamp, rx_n, handler>>
    BY DEF BrokerAnswers, items
  <1>2. /\ r = wire[1] /\ 1 \in DOMAIN wire
        /\ \A i \in DOMAIN wire' : i \in Nat /\ i # 0 /\ i + 1 \in DOMAIN wire /\ wire'[i] = wire[i + 1]
    BY <1>0, <1>1 DEF Types
  <1>3. ItemsInv' BY <1>1 DEF ReadInv, ItemsInv
  <1>4. PICK reply \in {"ok", "error"} :
           call' = IF r.who \in Callers
                   THEN [call EXCEPT ![r.who].reply = reply, ![r.who].sample = IF r.op = "status" THEN now ELSE 0]
                   ELSE call
    BY DEF BrokerAnswers
  <1> HIDE DEF r
  <1>5. CASE r.who # "reader"
    <2>1. UNCHANGED R
      <3>1. CASE r.who \in Callers
        <4>1. call' = [call EXCEPT ![r.who].reply = reply, ![r.who].sample = IF r.op = "status" THEN now ELSE 0]
          BY <1>4, <3>1
        <4> QED BY <1>0, <1>5, <4>1 DEF Types, R
      <3>2. CASE r.who \notin Callers BY <1>4, <3>2 DEF R
      <3> QED BY <3>1, <3>2
    <2>2. ReaderInv' BY <1>1, <2>1 DEF ReadInv, ReaderInv
    <2>3. AskedOnce'
      <3>1. \A i \in DOMAIN wire' : wire'[i].who = "reader" => R.pc = "wait" /\ R.reply = "none"
        BY <1>2 DEF ReadInv, AskedOnce
      <3>2. \A i, j \in DOMAIN wire' : wire'[i].who = "reader" /\ wire'[j].who = "reader" => i + 1 = j + 1
        BY <1>2 DEF ReadInv, AskedOnce
      <3>3. \A i, j \in DOMAIN wire' : i + 1 = j + 1 => i = j BY <1>2
      <3> QED BY <2>1, <3>1, <3>2, <3>3 DEF AskedOnce
    <2> QED BY <1>3, <2>2, <2>3 DEF ReadInv
  <1>6. CASE r.who = "reader"
    <2>1. R.pc = "wait" /\ R.reply = "none" BY <1>2, <1>6 DEF ReadInv, AskedOnce
    <2>2. r.op = "status" BY <1>2, <1>6 DEF BooksInv, WireShape
    <2>3. call' = [call EXCEPT !["reader"].reply = reply, !["reader"].sample = now]
      BY <1>0, <1>4, <1>6, <2>2
    <2>4. R'.pc = "wait" /\ R'.names = R.names /\ R'.begun = R.begun /\ R'.reply = reply /\ R'.sample = now
      BY <1>0, <2>1, <2>3 DEF Types, Calls, R
    <2>5. ReaderInv' BY <1>1, <2>4 DEF ReadInv, ReaderInv
    <2>6. \A i \in DOMAIN wire' : wire'[i].who # "reader"
      <3> SUFFICES ASSUME NEW i \in DOMAIN wire', wire'[i].who = "reader" PROVE FALSE OBVIOUS
      <3>1. i + 1 \in DOMAIN wire /\ wire[i + 1].who = "reader" BY <1>2
      <3>2. i + 1 = 1 BY <1>2, <1>6, <3>1 DEF ReadInv, AskedOnce
      <3> QED BY <1>2, <3>2
    <2>7. AskedOnce' BY <2>6 DEF AskedOnce
    <2> QED BY <1>3, <2>5, <2>7 DEF ReadInv
  <1> QED BY <1>5, <1>6

\* With the connection the requests are gone.
LEMMA ReadDisconnect == ASSUME BooksInv, NewsInv, ReadInv, Disconnects PROVE ReadInv'
  <1>1. DOMAIN wire' = {} /\ UNCHANGED <<now, value, stamp, rx_n, handler, R>> BY DEF Disconnects, items, R
  <1>2. ItemsInv' BY <1>1 DEF ReadInv, ItemsInv
  <1>3. ReaderInv' BY <1>1 DEF ReadInv, ReaderInv
  <1>4. AskedOnce' BY <1>1 DEF AskedOnce
  <1> QED BY <1>2, <1>3, <1>4 DEF ReadInv

\* ReadInv is inductive, given what is known of the books and the news.
LEMMA ReadNext == BooksInv /\ NewsInv /\ ReadInv /\ [Next]_vars => ReadInv'
  <1> SUFFICES ASSUME BooksInv, NewsInv, ReadInv, [Next]_vars PROVE ReadInv' OBVIOUS
  <1>1. CASE \E c \in Callers : Send(c) \/ TimesOut(c) BY <1>1, ReadSend, ReadTimesOut
  <1>2. CASE \E c \in Callers : Answered(c) BY <1>2, ReadAnswered, ReadMain DEF Callers
  <1>3. CASE \/ \E n \in Names : Subscribe(n)
             \/ SubscribeRaises \/ Subscribed \/ UnsubscribeSome \/ UnsubscribeAll \/ Unsubscribed
             \/ StopHandler \/ Returned
             \/ \E p \in Params : AddCallback(p)
             \/ HandlerEnds \/ Reconnects \/ UNCHANGED vars
    BY <1>3, ReadMain
  <1>4. CASE \E p \in Params : Read(p) \/ Notify(p) BY <1>4, ReadBegins, ReadNotify
  <1>5. CASE WriteValue \/ WriteStamp \/ ReturnValue BY <1>5, ReadWrites, ReadStamps, ReadReturns
  <1>6. CASE HandlerStarts \/ Apply \/ ApplyTime BY <1>6, ReadHandler
  <1>7. CASE BrokerAnswers \/ Disconnects \/ Tick BY <1>7, ReadBroker, ReadDisconnect, ReadTick
  <1> QED BY <1>1, <1>2, <1>3, <1>4, <1>5, <1>6, <1>7 DEF Next

\* A read that was not refused or lost returns a value no older than
\* STALE_TIME and a tick, for any parameters and STALE_TIME, whatever
\* becomes of the connection, the subscription and the handler meanwhile.
THEOREM ReadsAreFresh == Spec => []FreshRead
  <1>1. BooksInv /\ ReadInv => FreshRead
    <2> SUFFICES ASSUME BooksInv, ReadInv, R.pc = "return", R.reply # "error", NEW p \in Of("reader")
                 PROVE  value[p] >= R.begun - Stale - 1
      BY DEF FreshRead, At, R
    <2>1. Of("reader") = R.names BY OfOwn DEF BooksInv, ReadInv, ReaderInv, R, Callers
    <2> QED BY <2>1 DEF ReadInv, ReaderInv
  <1> QED BY <1>1, BooksInit, BooksNext, NewsInit, NewsNext, ReadInit, ReadNext, PTL DEF Spec
=============================================================================
