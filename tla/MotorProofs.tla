------------------------------ MODULE MotorProofs ------------------------------
(***************************************************************************)
(* Proofs about the motor: MM3Link, the broker's link to its controller,   *)
(* and Cast with Winch, the programs that move the winch with it.  They    *)
(* share no state, and each section is about one of them alone.            *)
(***************************************************************************)
EXTENDS MM3Link, Cast, SequenceTheorems, TLAPS

-----------------------------------------------------------------------------
(* MM3Link, for any registers, retries, versions and faults. *)

\* The part of the types the argument needs.
Shape ==
    /\ pc \in {"idle", "send", "wait"}
    /\ call \in Calls
    /\ saved \in [Registers -> Versions \cup {None, Placeholder, Garbage}]
    /\ toMotor \in Seq(Commands)
    /\ toHost \in Seq(Replies)
    /\ version \in Versions
    /\ sentAt \in Versions
    /\ readAt \in Versions
    /\ executed \in BOOLEAN
    /\ cut \in BOOLEAN
    /\ late \in BOOLEAN

\* If nothing was on the way when the command was sent, what is on the way now
\* is that command or the reply to it, whole or in pieces, and only one of them.
ReplyTo(reply, to, since, bytes) ==
    /\ reply.call = to
    /\ reply.version >= since
    /\ reply.form = "byte" => bytes /\ to.kind \notin Acked

Alone ==
    ~late /\ pc = "wait" =>
        /\ toMotor = <<>> \/ toHost = <<>>
        /\ toMotor # <<>> => toMotor = <<[call |-> call, mine |-> TRUE]>>
        /\ toHost # <<>> => executed
        /\ \A i \in 1..Len(toHost) : ReplyTo(toHost[i], call, sentAt, cut)

\* The versions known are not newer than the registers, and the cache not older
\* than the command that filled it; a placeholder will be dropped.
CacheFact ==
    ~late => \A r \in Registers :
        \/ saved[r] = None
        \/ saved[r] = Placeholder /\ r \in dormant
        \/ saved[r] \in Versions /\ saved[r] >= readAt

\* The command of a read names all that is cached.
NamesAll ==
    pc # "idle" /\ call.kind = "read" => \A r \in Registers : saved[r] # None => r \in call.regs

SentPast == sentAt <= version

Safe == Acknowledged /\ RegisterIsCurrent /\ ReadIsCurrent

LinkInv == Shape /\ Alone /\ CacheFact /\ NamesAll /\ SentPast /\ Safe

LEMMA InitInv == Init => LinkInv
<1> SUFFICES ASSUME Init PROVE LinkInv
  OBVIOUS
<1> USE VersionAssumption, ValueAssumption DEF Init
<1>1. Shape
  <2>1. toMotor \in Seq(Commands) /\ toHost \in Seq(Replies)
    BY EmptySeq
  <2>2. call \in Calls
    BY DEF Calls, Kinds, Acked
  <2>3. 0 \in Versions
    BY DEF Versions
  <2>4. saved \in [Registers -> Versions \cup {None, Placeholder, Garbage}]
    OBVIOUS
  <2> QED
    BY <2>1, <2>2, <2>3, <2>4 DEF Shape
<1>2. Alone /\ CacheFact /\ NamesAll /\ SentPast
  BY DEF Alone, CacheFact, NamesAll, SentPast
<1>3. Safe
  BY DEF Safe, Acknowledged, RegisterIsCurrent, ReadIsCurrent, Returned
<1> QED
  BY <1>1, <1>2, <1>3 DEF LinkInv

\* Starting a call ends the waiting, so nothing is claimed about the channels.
LEMMA StartKeeps ==
    ASSUME LinkInv, NEW kind \in Kinds, NEW regs \in SUBSET Registers, Start(kind, regs),
           toMotor' \in Seq(Commands), toHost' \in Seq(Replies), late' \in BOOLEAN,
           saved' \in [Registers -> Versions \cup {None, Placeholder, Garbage}],
           CacheFact',
           kind = "read" => \A r \in Registers : saved'[r] # None => r \in regs
    PROVE  LinkInv'
<1> USE DEF Start
<1>1. Shape'
  BY DEF LinkInv, Shape, Calls
<1>2. Alone' /\ NamesAll' /\ SentPast'
  BY DEF LinkInv, Alone, NamesAll, SentPast
<1>3. Safe'
  BY DEF Safe, Acknowledged, RegisterIsCurrent, ReadIsCurrent, Returned
<1> QED
  BY <1>1, <1>2, <1>3 DEF LinkInv

LEMMA DisownTypes ==
    ASSUME toMotor \in Seq(Commands), Disown
    PROVE  toMotor' \in Seq(Commands) /\ toHost' = toHost
<1>1. \A i \in 1..Len(toMotor) : [toMotor[i] EXCEPT !.mine = FALSE] \in Commands
  <2> TAKE i \in 1..Len(toMotor)
  <2>1. toMotor[i] \in Commands
    OBVIOUS
  <2> QED
    BY <2>1 DEF Commands
<1>2. DOMAIN toMotor = 1..Len(toMotor) /\ Len(toMotor) \in Nat
  OBVIOUS
<1>3. toMotor' = [i \in 1..Len(toMotor) |-> [toMotor[i] EXCEPT !.mine = FALSE]]
  BY <1>2 DEF Disown
<1> QED
  BY <1>1, <1>2, <1>3, SeqDef DEF Disown

LEMMA ConnectKeeps == LinkInv /\ Connect => LinkInv'
<1> SUFFICES ASSUME LinkInv, Connect PROVE LinkInv'
  OBVIOUS
<1>1. /\ UNCHANGED readAt
      /\ \/ saved' = [r \in Registers |-> None] /\ late' = FALSE
         \/ UNCHANGED <<saved, dormant, late>>
  BY DEF Connect, Start, cache
<1>2. CacheFact'
  BY <1>1 DEF LinkInv, CacheFact
<1>3. /\ late' \in BOOLEAN
      /\ saved' \in [Registers -> Versions \cup {None, Placeholder, Garbage}]
  BY <1>1 DEF LinkInv, Shape
<1>4. toMotor' \in Seq(Commands) /\ toHost' \in Seq(Replies)
  BY EmptySeq DEF Connect
<1>5. Start("connect", {}) /\ "connect" \in Kinds
  BY DEF Connect, Kinds, Acked
<1> QED
  BY <1>2, <1>3, <1>4, <1>5, StartKeeps

LEMMA UncachedKeeps ==
    ASSUME LinkInv, NEW kind \in Kinds \ {"read"}, Uncached(kind)
    PROVE  LinkInv'
<1>1. Start(kind, {}) /\ Disown /\ UNCHANGED <<saved, dormant, late, readAt>>
  BY DEF Uncached, Start, cache
<1>2. toMotor' \in Seq(Commands) /\ toHost' \in Seq(Replies)
  BY <1>1, DisownTypes DEF LinkInv, Shape
<1>3. CacheFact'
  BY <1>1 DEF LinkInv, CacheFact
<1>4. late' \in BOOLEAN /\ saved' \in [Registers -> Versions \cup {None, Placeholder, Garbage}]
  BY <1>1 DEF LinkInv, Shape
<1> QED
  BY <1>1, <1>2, <1>3, <1>4, StartKeeps

LEMMA ReadKeeps ==
    ASSUME LinkInv, NEW regs \in SUBSET Registers, Read(regs)
    PROVE  LinkInv'
<1> DEFINE named == {r \in Registers : saved'[r] # None}
<1>1. Start("read", named) /\ Disown /\ late' = late /\ readAt' = readAt
  BY DEF Read, Start
<1>2. toMotor' \in Seq(Commands) /\ toHost' \in Seq(Replies) /\ late' \in BOOLEAN
  BY <1>1, DisownTypes DEF LinkInv, Shape
<1>3. saved' \in [Registers -> Versions \cup {None, Placeholder, Garbage}]
  BY DEF Read, Kept, LinkInv, Shape
<1>4. CacheFact'
  <2> SUFFICES ASSUME ~late, NEW r \in Registers
               PROVE  \/ saved'[r] = None
                      \/ saved'[r] = Placeholder /\ r \in dormant'
                      \/ saved'[r] \in Versions /\ saved'[r] >= readAt
    BY <1>1 DEF CacheFact
  <2>1. CASE r \in Missing(regs)
    BY <2>1 DEF Read, AddMissing
  <2>2. CASE r \notin Missing(regs) /\ r \in dormant
    BY <2>2 DEF Read, Kept
  <2>3. CASE r \notin Missing(regs) /\ r \notin dormant
    BY <2>3 DEF Read, Kept, LinkInv, CacheFact
  <2> QED
    BY <2>1, <2>2, <2>3
<1>5. \A r \in Registers : saved'[r] # None => r \in named
  OBVIOUS
<1>6. named \in SUBSET Registers /\ "read" \in Kinds
  BY DEF Kinds
<1> HIDE DEF named
<1> QED
  BY <1>1, <1>2, <1>3, <1>4, <1>5, <1>6, StartKeeps

\* Whatever ends a call says nothing more about the channels.
LEMMA BackKeeps ==
    ASSUME LinkInv, pc' = "idle", call' \in Calls, UNCHANGED <<version, sentAt>>,
           executed' \in BOOLEAN, cut' \in BOOLEAN, late' \in BOOLEAN, readAt' \in Versions,
           toMotor' \in Seq(Commands), toHost' \in Seq(Replies),
           saved' \in [Registers -> Versions \cup {None, Placeholder, Garbage}],
           CacheFact', Safe'
    PROVE  LinkInv'
BY DEF LinkInv, Shape, Alone, NamesAll, SentPast

LEMMA ReadCachedKeeps ==
    ASSUME LinkInv, NEW regs \in SUBSET Registers, ReadCached(regs)
    PROVE  LinkInv'
<1>1. /\ pc' = "idle" /\ call' = [kind |-> "read", regs |-> regs] /\ result' = "ok"
      /\ saved' = [r \in Registers |-> Kept(r)]
      /\ UNCHANGED <<version, sentAt, executed, cut, late, readAt, toMotor, toHost>>
  BY DEF ReadCached, link, history
<1>2. saved' \in [Registers -> Versions \cup {None, Placeholder, Garbage}]
  BY <1>1 DEF Kept, LinkInv, Shape
<1>3. \A r \in Registers : ~late =>
         saved'[r] = None \/ (saved'[r] \in Versions /\ saved'[r] >= readAt)
  BY <1>1 DEF Kept, LinkInv, CacheFact
<1>4. \A r \in regs : saved'[r] # None
  BY <1>1 DEF ReadCached, Hit
<1>5. CacheFact'
  BY <1>1, <1>3 DEF CacheFact
<1>6. Safe'
  BY <1>1, <1>3, <1>4 DEF Safe, Acknowledged, RegisterIsCurrent, ReadIsCurrent, Returned, Acked
<1>7. call' \in Calls
  BY <1>1 DEF Calls, Kinds, Acked
<1> QED
  BY <1>1, <1>2, <1>5, <1>6, <1>7, BackKeeps DEF LinkInv, Shape

\* A failed attempt that is the last, or an I/O error.
LEMMA FailKeeps ==
    ASSUME LinkInv, NEW how \in {"timeout", "io"}, Finish(how),
           UNCHANGED <<call, version, sentAt, executed, cut, late, readAt, saved, dormant>>,
           toMotor' \in Seq(Commands), toHost' \in Seq(Replies)
    PROVE  LinkInv'
<1>1. pc' = "idle" /\ result' \in {"timeout", "io"}
  BY DEF Finish
<1>2. CacheFact'
  BY DEF LinkInv, CacheFact
<1>3. Safe'
  BY <1>1 DEF Safe, Acknowledged, RegisterIsCurrent, ReadIsCurrent, Returned
<1> QED
  BY <1>1, <1>2, <1>3, BackKeeps DEF LinkInv, Shape

LEMMA AgainKeeps ==
    ASSUME LinkInv, pc = "wait", Again,
           UNCHANGED <<call, version, sentAt, executed, cut, late, readAt, saved, dormant>>,
           toMotor' \in Seq(Commands), toHost' \in Seq(Replies)
    PROVE  LinkInv'
<1>1. CASE pc' = "send" /\ UNCHANGED result
  <2>1. Shape'
    BY <1>1 DEF LinkInv, Shape
  <2>2. Alone' /\ CacheFact' /\ NamesAll' /\ SentPast'
    BY <1>1 DEF LinkInv, Alone, CacheFact, NamesAll, SentPast
  <2>3. Safe'
    BY <1>1 DEF LinkInv, Safe, Acknowledged, RegisterIsCurrent, ReadIsCurrent, Returned
  <2> QED
    BY <2>1, <2>2, <2>3 DEF LinkInv
<1>2. CASE Finish("timeout")
  BY <1>2, FailKeeps
<1> QED
  BY <1>1, <1>2 DEF Again

LEMMA FailuresKeep == LinkInv /\ (IOFails \/ TimeOut \/ BadReply) => LinkInv'
<1> SUFFICES ASSUME LinkInv PROVE IOFails \/ TimeOut \/ BadReply => LinkInv'
  OBVIOUS
<1>1. ASSUME IOFails PROVE LinkInv'
  <2>1. /\ Finish("io")
        /\ UNCHANGED <<call, version, sentAt, executed, cut, late, readAt, saved, dormant, toMotor, toHost>>
    BY <1>1 DEF IOFails, cache, link, history
  <2>2. toMotor' \in Seq(Commands) /\ toHost' \in Seq(Replies)
    BY <2>1 DEF LinkInv, Shape
  <2> QED
    BY <2>1, <2>2, FailKeeps
<1>2. ASSUME TimeOut PROVE LinkInv'
  <2>1. /\ pc = "wait" /\ Again
        /\ UNCHANGED <<call, version, sentAt, executed, cut, late, readAt, saved, dormant, toMotor, toHost>>
    BY <1>2 DEF TimeOut, cache, link, history
  <2>2. toMotor' \in Seq(Commands) /\ toHost' \in Seq(Replies)
    BY <2>1 DEF LinkInv, Shape
  <2> QED
    BY <2>1, <2>2, AgainKeeps
<1>3. ASSUME BadReply PROVE LinkInv'
  <2>1. PICK n \in 1..Len(toHost) : Arrive(n)
    BY <1>3 DEF BadReply
  <2>2. /\ pc = "wait" /\ Again
        /\ UNCHANGED <<call, version, sentAt, executed, cut, late, readAt, saved, dormant, toMotor>>
        /\ toHost' = SubSeq(toHost, n + 1, Len(toHost))
    BY <1>3, <2>1 DEF BadReply, Arrive, cache
  <2>3. toMotor' \in Seq(Commands) /\ toHost' \in Seq(Replies)
    BY <2>1, <2>2 DEF LinkInv, Shape
  <2> QED
    BY <2>2, <2>3, AgainKeeps
<1> QED
  BY <1>1, <1>2, <1>3

\* A command that is sent with nothing on the way is alone.
LEMMA SendKeeps == LinkInv /\ Send => LinkInv'
<1> SUFFICES ASSUME LinkInv, Send PROVE LinkInv'
  OBVIOUS
<1> DEFINE cmd == [call |-> call, mine |-> TRUE]
<1>1. /\ pc' = "wait" /\ toMotor' = Append(toMotor, cmd) /\ sentAt' = version
      /\ UNCHANGED <<call, version, executed, cut, readAt, saved, dormant, result, value>>
  BY DEF Send, cache
<1>2. PICK arrived \in 0..Len(toHost) :
         /\ toHost' = SubSeq(toHost, arrived + 1, Len(toHost))
         /\ late' = (late \/ arrived < Len(toHost) \/ toMotor # <<>>)
  BY DEF Send, Flush
<1>3. cmd \in Commands
  BY DEF Commands, LinkInv, Shape
<1> HIDE DEF cmd
<1>4. toMotor' \in Seq(Commands) /\ toHost' \in Seq(Replies)
  <2>1. toMotor \in Seq(Commands) /\ toHost \in Seq(Replies)
    BY DEF LinkInv, Shape
  <2>2. Append(toMotor, cmd) \in Seq(Commands)
    BY <1>3, <2>1
  <2>3. SubSeq(toHost, arrived + 1, Len(toHost)) \in Seq(Replies)
    BY <2>1, <1>2
  <2> QED
    BY <1>1, <1>2, <2>2, <2>3
<1>5. Shape'
  BY <1>1, <1>2, <1>4 DEF LinkInv, Shape
<1>6. Alone'
  <2> SUFFICES ASSUME ~late' PROVE toHost' = <<>> /\ toMotor' = <<cmd>>
    BY <1>1 DEF Alone, cmd
  <2>1. toMotor = <<>> /\ ~(arrived < Len(toHost))
    BY <1>2
  <2>2. toHost \in Seq(Replies) /\ Len(toHost) \in Nat
    BY DEF LinkInv, Shape
  <2>3. arrived = Len(toHost)
    BY <1>2, <2>1, <2>2
  <2>4. SubSeq(toHost, Len(toHost) + 1, Len(toHost)) = <<>>
    BY <2>2
  <2>5. Append(<<>>, cmd) = <<cmd>>
    OBVIOUS
  <2> QED
    BY <1>1, <1>2, <2>1, <2>3, <2>4, <2>5
<1>7. ~late' => ~late
  BY <1>2
<1>8. CacheFact' /\ NamesAll' /\ SentPast'
  <2>1. CacheFact'
    BY <1>1, <1>7 DEF LinkInv, CacheFact
  <2>2. NamesAll'
    BY <1>1 DEF LinkInv, NamesAll, Send
  <2>3. SentPast'
    BY <1>1, VersionAssumption DEF LinkInv, Shape, SentPast, Versions
  <2> QED
    BY <2>1, <2>2, <2>3
<1>9. Safe'
  BY <1>1, <1>7 DEF LinkInv, Safe, Acknowledged, RegisterIsCurrent, ReadIsCurrent, Returned
<1> QED
  BY <1>5, <1>6, <1>8, <1>9 DEF LinkInv

\* What an accepted reply is worth.
LEMMA AnswerIsOwn ==
    ASSUME LinkInv, NEW kinds \in SUBSET Kinds, Answered(kinds)
    PROVE  /\ UNCHANGED <<call, version, executed, sentAt, cut, late, toMotor>>
           /\ toHost' \in Seq(Replies)
           /\ Answer.version \in Versions
           /\ ~late =>
                /\ Answer.call = call /\ Answer.version >= sentAt /\ executed
                /\ Matches \/ (Answer.form = "byte" /\ cut /\ call.kind \notin Acked)
<1>1. /\ pc = "wait" /\ 1 <= Len(toHost) /\ toHost' = SubSeq(toHost, 2, Len(toHost))
      /\ UNCHANGED <<call, version, executed, sentAt, cut, late, toMotor>>
  BY DEF Answered, Arrive
<1>2. toHost \in Seq(Replies) /\ toHost # <<>> /\ toHost[1] \in Replies /\ 1 \in 1..Len(toHost)
  BY <1>1 DEF LinkInv, Shape
<1>3. toHost' \in Seq(Replies)
  BY <1>1, <1>2
<1>4. ~late => ReplyTo(Answer, call, sentAt, cut) /\ executed
  BY <1>1, <1>2 DEF LinkInv, Alone, Answer
<1>5. Answer.form \in {"whole", "byte"}
  BY <1>2 DEF Answered, Accept, Answer, Replies, Forms
<1> QED
  BY <1>1, <1>2, <1>3, <1>4, <1>5 DEF Answer, Matches, Replies, ReplyTo

LEMMA CommandDoneKeeps == LinkInv /\ CommandDone => LinkInv'
<1> SUFFICES ASSUME LinkInv, CommandDone PROVE LinkInv'
  OBVIOUS
<1>1. /\ Answered(Acked) /\ call.kind \in Acked /\ pc' = "idle"
      /\ result' = (IF Answer.form # "spoilt" /\ Answer.call.kind \in Acked THEN "ok" ELSE "bad")
      /\ UNCHANGED <<value, saved, dormant, readAt>>
  BY DEF CommandDone, Answered, Finish, cache
<1>2. Acked \in SUBSET Kinds
  BY DEF Kinds
<1>3. /\ UNCHANGED <<call, version, executed, sentAt, cut, late, toMotor>>
      /\ toHost' \in Seq(Replies)
      /\ ~late => Matches /\ executed
  BY <1>1, <1>2, AnswerIsOwn
<1>4. ~late' => result' = "ok" /\ executed'
  BY <1>1, <1>3 DEF Matches
<1>5. Safe'
  BY <1>1, <1>3, <1>4 DEF Safe, Acknowledged, RegisterIsCurrent, ReadIsCurrent, Returned, Acked
<1>6. CacheFact'
  BY <1>1, <1>3 DEF LinkInv, CacheFact
<1> QED
  BY <1>1, <1>3, <1>5, <1>6, BackKeeps DEF LinkInv, Shape

LEMMA RegisterDoneKeeps == LinkInv /\ RegisterDone => LinkInv'
<1> SUFFICES ASSUME LinkInv, RegisterDone PROVE LinkInv'
  OBVIOUS
<1> USE ValueAssumption
<1>1. /\ Answered({"register", "connect"}) /\ call.kind \in {"register", "connect"} /\ ~OneByte
      /\ pc' = "idle" /\ result' = "ok" /\ value' = Misread(Answer.version)
      /\ UNCHANGED <<saved, dormant, readAt>>
  BY DEF RegisterDone, Answered, Finish, cache
<1>2. {"register", "connect"} \in SUBSET Kinds
  BY DEF Kinds
<1>3. /\ UNCHANGED <<call, version, executed, sentAt, cut, late, toMotor>>
      /\ toHost' \in Seq(Replies)
      /\ Answer.version \in Versions
      /\ ~late => Matches /\ Answer.version >= sentAt
  BY <1>1, <1>2, AnswerIsOwn DEF OneByte
<1>4. ~late' => value' \in Nat /\ value' >= sentAt'
  BY <1>1, <1>3, VersionAssumption DEF Misread, Versions
<1>5. Safe'
  BY <1>1, <1>3, <1>4 DEF Safe, Acknowledged, RegisterIsCurrent, ReadIsCurrent, Returned, Acked
<1>6. CacheFact'
  BY <1>1, <1>3 DEF LinkInv, CacheFact
<1> QED
  BY <1>1, <1>3, <1>5, <1>6, BackKeeps DEF LinkInv, Shape

LEMMA ReadDoneKeeps == LinkInv /\ ReadDone => LinkInv'
<1> SUFFICES ASSUME LinkInv, ReadDone PROVE LinkInv'
  OBVIOUS
<1> DEFINE v == Misread(Answer.version)
<1>1. /\ Answered({"read"}) /\ call.kind = "read" /\ pc = "wait" /\ ~OneByte
      /\ pc' = "idle" /\ result' = "ok" /\ readAt' = sentAt
      /\ saved' = [r \in Registers |-> IF r \in call.regs THEN v ELSE saved[r]]
  BY DEF ReadDone, Answered, Arrive, Finish
<1>2. {"read"} \in SUBSET Kinds
  BY DEF Kinds
<1>3. /\ UNCHANGED <<call, version, executed, sentAt, cut, late, toMotor>>
      /\ toHost' \in Seq(Replies)
      /\ Answer.version \in Versions
      /\ ~late => Matches /\ Answer.version >= sentAt
  BY <1>1, <1>2, AnswerIsOwn DEF OneByte
<1>4. v \in Versions \cup {Garbage} /\ (~late => v \in Versions /\ v >= sentAt)
  BY <1>3 DEF Misread
<1> HIDE DEF v
<1>5. \A r \in Registers : r \in call.regs \/ saved[r] = None
  BY <1>1 DEF LinkInv, NamesAll
<1>6. saved' \in [Registers -> Versions \cup {None, Placeholder, Garbage}]
  BY <1>1, <1>4 DEF LinkInv, Shape
<1>7. CacheFact'
  BY <1>1, <1>3, <1>4, <1>5 DEF CacheFact
<1>8. call.regs \subseteq Registers
  BY DEF LinkInv, Shape, Calls
<1>9. ReadIsCurrent'
  BY <1>1, <1>3, <1>4, <1>8 DEF ReadIsCurrent
<1>10. Safe'
  BY <1>1, <1>3, <1>9 DEF Safe, Acknowledged, RegisterIsCurrent, Returned, Acked
<1> QED
  BY <1>1, <1>3, <1>6, <1>7, <1>10, BackKeeps DEF LinkInv, Shape

\* Only a late reply, or the first byte of the right one, is too short; the byte
\* leaves the cache alone.
LEMMA TooShortKeeps == LinkInv /\ TooShort => LinkInv'
<1> SUFFICES ASSUME LinkInv, TooShort PROVE LinkInv'
  OBVIOUS
<1>1. /\ Answered(Kinds \ Acked) /\ pc' = "idle" /\ ~Matches /\ result' = "exception"
      /\ UNCHANGED readAt
  BY DEF TooShort, Finish
<1>2. PICK R \in SUBSET call.regs :
         /\ OneByte => R = {}
         /\ saved' = [r \in Registers |-> IF r \in R THEN Garbage ELSE saved[r]]
         /\ dormant' = dormant \ R
  BY DEF TooShort
<1>3. (Kinds \ Acked) \in SUBSET Kinds
  OBVIOUS
<1>4. /\ UNCHANGED <<call, version, executed, sentAt, cut, late, toMotor>>
      /\ toHost' \in Seq(Replies)
      /\ ~late => Answer.form = "byte" /\ cut /\ call.kind \notin Acked
  BY <1>1, <1>3, AnswerIsOwn
<1>5. ~late => UNCHANGED <<saved, dormant>>
  BY <1>2, <1>4 DEF OneByte, LinkInv, Shape
<1>6. saved' \in [Registers -> Versions \cup {None, Placeholder, Garbage}]
  BY <1>2 DEF LinkInv, Shape
<1>7. CacheFact'
  BY <1>1, <1>4, <1>5 DEF LinkInv, CacheFact
<1>8. Safe'
  BY <1>1, <1>4 DEF Safe, Acknowledged, RegisterIsCurrent, ReadIsCurrent, Returned
<1> QED
  BY <1>1, <1>4, <1>6, <1>7, <1>8, BackKeeps DEF LinkInv, Shape

-----------------------------------------------------------------------------
(* Steps around the caller.                                                *)

\* A step that leaves the call, the cache and the registers alone.
LEMMA LineKeeps ==
    ASSUME LinkInv,
           UNCHANGED <<pc, call, result, value, saved, dormant, version, sentAt, readAt, late>>,
           executed' \in BOOLEAN, executed => executed', cut' \in BOOLEAN, cut => cut',
           toMotor' \in Seq(Commands), toHost' \in Seq(Replies), Alone'
    PROVE  LinkInv'
<1>1. Shape'
  BY DEF LinkInv, Shape
<1>2. CacheFact' /\ NamesAll' /\ SentPast'
  BY DEF LinkInv, CacheFact, NamesAll, SentPast
<1>3. Safe'
  BY DEF LinkInv, Safe, Acknowledged, RegisterIsCurrent, ReadIsCurrent, Returned
<1> QED
  BY <1>1, <1>2, <1>3 DEF LinkInv

LEMMA CloseKeeps == LinkInv /\ Close => LinkInv'
<1> SUFFICES ASSUME LinkInv, Close PROVE LinkInv'
  OBVIOUS
<1>1. /\ UNCHANGED <<pc, call, result, value, saved, dormant, version, sentAt, readAt, late, cut, executed>>
      /\ toMotor' = <<>> /\ toHost' = <<>>
  BY DEF Close, cache, history
<1>2. toMotor' \in Seq(Commands) /\ toHost' \in Seq(Replies) /\ executed' \in BOOLEAN /\ cut' \in BOOLEAN
  BY <1>1, EmptySeq DEF LinkInv, Shape
<1>3. Alone'
  BY <1>1 DEF Alone
<1> QED
  BY <1>1, <1>2, <1>3, LineKeeps

\* Time and the controller's power leave the line alone.
LEMMA QuietKeeps ==
    LinkInv /\ (GrowOld \/ PowerOff \/ UNCHANGED vars) => LinkInv'
<1> SUFFICES ASSUME LinkInv, GrowOld \/ PowerOff \/ UNCHANGED vars PROVE LinkInv'
  OBVIOUS
<1>1. UNCHANGED <<pc, call, result, value, saved, dormant, version, sentAt, readAt, late, cut, executed, toMotor, toHost>>
  BY DEF GrowOld, PowerOff, vars, cache, link, history
<1>2. toMotor' \in Seq(Commands) /\ toHost' \in Seq(Replies) /\ executed' \in BOOLEAN /\ cut' \in BOOLEAN
  BY <1>1 DEF LinkInv, Shape
<1>3. Alone'
  BY <1>1 DEF LinkInv, Alone
<1> QED
  BY <1>1, <1>2, <1>3, LineKeeps

LEMMA NeglectKeeps == ASSUME LinkInv, NEW r \in Registers, Neglect(r) PROVE LinkInv'
<1>1. /\ UNCHANGED <<pc, call, result, value, saved, version, sentAt, readAt, late, cut, executed, toMotor, toHost>>
      /\ dormant' = dormant \cup {r}
  BY DEF Neglect, link, history
<1>2. Shape'
  BY <1>1 DEF LinkInv, Shape
<1>3. Alone' /\ NamesAll' /\ SentPast'
  BY <1>1 DEF LinkInv, Alone, NamesAll, SentPast
<1>4. CacheFact'
  BY <1>1 DEF LinkInv, CacheFact
<1>5. Safe'
  BY <1>1 DEF LinkInv, Safe, Acknowledged, RegisterIsCurrent, ReadIsCurrent, Returned
<1> QED
  BY <1>2, <1>3, <1>4, <1>5 DEF LinkInv

LEMMA ChangeKeeps == LinkInv /\ Change => LinkInv'
<1> SUFFICES ASSUME LinkInv, Change PROVE LinkInv'
  OBVIOUS
<1>1. /\ UNCHANGED <<pc, call, result, value, saved, dormant, sentAt, readAt, late, cut, executed, toMotor, toHost>>
      /\ version < MaxVersion /\ version' = version + 1
  BY DEF Change, cache, history
<1>2. version \in Nat /\ sentAt \in Nat /\ version' \in Versions
  BY <1>1, VersionAssumption DEF LinkInv, Shape, Versions
<1>3. Shape'
  BY <1>1, <1>2 DEF LinkInv, Shape
<1>4. SentPast'
  BY <1>1, <1>2 DEF LinkInv, SentPast
<1>5. Alone' /\ NamesAll' /\ CacheFact'
  BY <1>1 DEF LinkInv, Alone, NamesAll, CacheFact
<1>6. Safe'
  BY <1>1 DEF LinkInv, Safe, Acknowledged, RegisterIsCurrent, ReadIsCurrent, Returned
<1> QED
  BY <1>3, <1>4, <1>5, <1>6 DEF LinkInv

LEMMA CommandLostKeeps == LinkInv /\ CommandLost => LinkInv'
<1> SUFFICES ASSUME LinkInv, CommandLost PROVE LinkInv'
  OBVIOUS
<1>1. /\ UNCHANGED <<pc, call, result, value, saved, dormant, version, sentAt, readAt, late, cut, executed, toHost>>
      /\ toMotor # <<>> /\ toMotor' = Tail(toMotor)
  BY DEF CommandLost, cache, history
<1>2. toMotor' \in Seq(Commands) /\ toHost' \in Seq(Replies) /\ executed' \in BOOLEAN /\ cut' \in BOOLEAN
  BY <1>1 DEF LinkInv, Shape
<1>3. Alone'
  <2> SUFFICES ASSUME ~late, pc = "wait" PROVE toMotor' = <<>> /\ toHost = <<>>
    BY <1>1 DEF Alone
  <2>1. toMotor = <<[call |-> call, mine |-> TRUE]>> /\ toHost = <<>>
    BY <1>1 DEF LinkInv, Alone
  <2>2. Tail(<<[call |-> call, mine |-> TRUE]>>) = <<>>
    OBVIOUS
  <2> QED
    BY <1>1, <2>1, <2>2
<1> QED
  BY <1>1, <1>2, <1>3, LineKeeps

\* The only command on the way is executed after it was sent.
LEMMA ExecuteKeeps == LinkInv /\ Execute => LinkInv'
<1> SUFFICES ASSUME LinkInv, Execute PROVE LinkInv'
  OBVIOUS
<1> DEFINE answer(form) == [call |-> Head(toMotor).call, version |-> version, form |-> form]
<1>1. /\ UNCHANGED <<pc, call, result, value, saved, dormant, version, sentAt, readAt, late>>
      /\ toMotor # <<>> /\ toMotor' = Tail(toMotor)
      /\ executed' = (executed \/ Head(toMotor).mine)
  BY DEF Execute, cache
<1>2. \/ UNCHANGED <<toHost, cut>>
      \/ \E form \in Forms :
            /\ toHost' = Append(toHost, answer(form))
            /\ IF form = "byte" THEN cut' /\ cut' \in BOOLEAN /\ Head(toMotor).call.kind \notin Acked
                                ELSE UNCHANGED cut
  BY DEF Execute, Forms
<1>3. toMotor \in Seq(Commands) /\ toHost \in Seq(Replies) /\ Head(toMotor) \in Commands
  BY <1>1 DEF LinkInv, Shape
<1>4. \A form \in Forms : answer(form) \in Replies
  BY <1>3 DEF Commands, Replies, LinkInv, Shape
<1>5. toMotor' \in Seq(Commands) /\ executed' \in BOOLEAN
  BY <1>1, <1>3 DEF Commands, LinkInv, Shape
<1>8. cut' \in BOOLEAN /\ (cut => cut')
  <2>1. \/ UNCHANGED cut
        \/ cut' /\ cut' \in BOOLEAN
    BY <1>2
  <2> QED
    BY <2>1 DEF LinkInv, Shape
<1>6. toHost' \in Seq(Replies)
  <2> HIDE DEF answer
  <2>1. \A form \in Forms : Append(toHost, answer(form)) \in Seq(Replies)
    BY <1>3, <1>4
  <2> QED
    BY <1>2, <1>3, <2>1
<1>7. Alone'
  <2> SUFFICES ASSUME ~late, pc = "wait"
               PROVE  /\ toMotor' = <<>>
                      /\ toHost' # <<>> => executed'
                      /\ \A i \in 1..Len(toHost') : ReplyTo(toHost'[i], call', sentAt', cut')
    BY <1>1 DEF Alone
  <2>1. toMotor = <<[call |-> call, mine |-> TRUE]>> /\ toHost = <<>>
    BY <1>1 DEF LinkInv, Alone
  <2>2. Tail(toMotor) = <<>> /\ Head(toMotor) = [call |-> call, mine |-> TRUE]
    BY <2>1
  <2>3. executed'
    <3>1. Head(toMotor).mine
      BY <2>2
    <3> QED
      BY <1>1, <3>1
  <2>4. \A form \in Forms : Append(<<>>, answer(form)) = <<answer(form)>>
    OBVIOUS
  <2>5. \A form \in Forms :
           answer(form).call = call /\ answer(form).version >= sentAt /\ answer(form).form = form
    <3>1. version >= sentAt /\ version \in Nat
      BY VersionAssumption DEF LinkInv, Shape, SentPast, Versions
    <3>2. Head(toMotor).call = call
      BY <2>2
    <3> QED
      BY <3>1, <3>2
  <2>6. Head(toMotor).call = call
    BY <2>2
  <2> HIDE DEF answer
  <2>7. CASE UNCHANGED <<toHost, cut>>
    BY <1>1, <2>1, <2>2, <2>7
  <2>8. ASSUME NEW form \in Forms, toHost' = Append(toHost, answer(form)),
               form = "byte" => cut' /\ Head(toMotor).call.kind \notin Acked
        PROVE  \A i \in 1..Len(toHost') : ReplyTo(toHost'[i], call', sentAt', cut')
    <3>1. toHost' = <<answer(form)>>
      BY <2>1, <2>4, <2>8
    <3>2. ReplyTo(answer(form), call', sentAt', cut')
      BY <1>1, <2>5, <2>6, <2>8 DEF ReplyTo
    <3> QED
      BY <3>1, <3>2
  <2> QED
    BY <1>1, <1>2, <2>2, <2>3, <2>7, <2>8
<1> QED
  BY <1>1, <1>5, <1>6, <1>7, <1>8, LineKeeps DEF LinkInv, Shape

\* A reply in pieces is still the reply to its command.
LEMMA PauseKeeps == LinkInv /\ Pause => LinkInv'
<1> SUFFICES ASSUME LinkInv, Pause PROVE LinkInv'
  OBVIOUS
<1>1. /\ UNCHANGED <<pc, call, result, value, saved, dormant, version, sentAt, readAt, late, executed, toMotor>>
      /\ toHost # <<>> /\ Answer.call.kind \notin Acked
  BY DEF Pause, cache
<1>2. PICK piece \in {"byte", "spoilt"} :
         /\ toHost' = <<[Answer EXCEPT !.form = piece], [Answer EXCEPT !.form = "spoilt"]>> \o Tail(toHost)
         /\ cut' = (cut \/ piece = "byte")
  BY DEF Pause
<1> DEFINE first == [Answer EXCEPT !.form = piece]
           rest == [Answer EXCEPT !.form = "spoilt"]
<1>3. toHost \in Seq(Replies) /\ Answer \in Replies /\ 1 \in 1..Len(toHost)
  BY <1>1 DEF LinkInv, Shape, Answer
<1>4. /\ first \in Replies /\ rest \in Replies
      /\ first.call = Answer.call /\ first.version = Answer.version /\ first.form = piece
      /\ rest.call = Answer.call /\ rest.version = Answer.version /\ rest.form = "spoilt"
  BY <1>3 DEF Replies, Forms
<1> HIDE DEF first, rest
<1>5. /\ toHost' = <<first, rest>> \o Tail(toHost)
      /\ Tail(toHost) \in Seq(Replies) /\ Len(Tail(toHost)) = Len(toHost) - 1
      /\ \A i \in 1..Len(Tail(toHost)) : Tail(toHost)[i] = toHost[i + 1]
  BY <1>1, <1>2, <1>3 DEF first, rest
<1>6. toHost' \in Seq(Replies)
  BY <1>4, <1>5
<1>7. cut' \in BOOLEAN /\ (cut => cut') /\ (piece = "byte" => cut')
  BY <1>2 DEF LinkInv, Shape
<1>8. Alone'
  <2> SUFFICES ASSUME ~late, pc = "wait"
               PROVE  /\ toMotor' = <<>> /\ executed'
                      /\ \A i \in 1..Len(toHost') : ReplyTo(toHost'[i], call', sentAt', cut')
    BY <1>1 DEF Alone
  <2>1. /\ toMotor = <<>> /\ executed
        /\ \A i \in 1..Len(toHost) : ReplyTo(toHost[i], call, sentAt, cut)
    BY <1>1 DEF LinkInv, Alone
  <2>2. ReplyTo(Answer, call, sentAt, cut)
    BY <1>3, <2>1 DEF Answer
  <2>3. ReplyTo(first, call', sentAt', cut') /\ ReplyTo(rest, call', sentAt', cut')
    BY <1>1, <1>4, <1>7, <2>2 DEF ReplyTo
  <2>4. \A i \in 1..Len(Tail(toHost)) : ReplyTo(Tail(toHost)[i], call', sentAt', cut')
    <3> TAKE i \in 1..Len(Tail(toHost))
    <3>1. i + 1 \in 1..Len(toHost)
      BY <1>3, <1>5
    <3>2. ReplyTo(toHost[i + 1], call, sentAt, cut)
      BY <2>1, <3>1
    <3> QED
      BY <1>1, <1>5, <1>7, <3>2 DEF ReplyTo
  <2>5. ASSUME NEW i \in 1..Len(toHost') PROVE ReplyTo(toHost'[i], call', sentAt', cut')
    <3>1. Len(toHost') = 2 + Len(Tail(toHost)) /\ Len(Tail(toHost)) \in Nat
      BY <1>5, <1>4
    <3>2. CASE i = 1
      <4>1. toHost'[i] = first
        BY <3>2, <1>4, <1>5
      <4> QED
        BY <4>1, <2>3
    <3>3. CASE i = 2
      <4>1. toHost'[i] = rest
        BY <3>3, <1>4, <1>5
      <4> QED
        BY <4>1, <2>3
    <3>4. CASE i > 2
      <4>1. i - 2 \in 1..Len(Tail(toHost)) /\ toHost'[i] = Tail(toHost)[i - 2]
        BY <3>1, <3>4, <1>4, <1>5
      <4> QED
        BY <4>1, <2>4
    <3> QED
      BY <3>1, <3>2, <3>3, <3>4
  <2> QED
    BY <1>1, <2>1, <2>5
<1> QED
  BY <1>1, <1>6, <1>7, <1>8, LineKeeps DEF LinkInv, Shape

-----------------------------------------------------------------------------
LEMMA StepKeeps == LinkInv /\ [Next]_vars => LinkInv'
<1> SUFFICES ASSUME LinkInv, [Next]_vars PROVE LinkInv'
  OBVIOUS
<1>1. CASE Connect \/ Command \/ ReadRegister \/ Disconnect
  BY <1>1, ConnectKeeps, UncachedKeeps DEF Command, ReadRegister, Disconnect, Kinds, Acked
<1>2. ASSUME NEW regs \in SUBSET Registers, ReadCached(regs) \/ Read(regs) PROVE LinkInv'
  BY <1>2, ReadCachedKeeps, ReadKeeps
<1>3. CASE SendBytes
  BY <1>3, SendKeeps, FailuresKeep DEF SendBytes
<1>4. CASE Returning
  BY <1>4, CommandDoneKeeps, RegisterDoneKeeps, ReadDoneKeeps, TooShortKeeps DEF Returning
<1>5. CASE Close \/ GrowOld \/ Pause \/ PowerOff \/ Change \/ UNCHANGED vars
  BY <1>5, CloseKeeps, QuietKeeps, PauseKeeps, ChangeKeeps
<1>6. ASSUME NEW r \in Registers, Neglect(r) PROVE LinkInv'
  BY <1>6, NeglectKeeps
<1>7. CASE Line
  BY <1>7, ExecuteKeeps, CommandLostKeeps DEF Line
<1> QED
  BY <1>1, <1>2, <1>3, <1>4, <1>5, <1>6, <1>7 DEF Next

LEMMA Invariance == Spec => []LinkInv
<1> QED
  BY InitInv, StepKeeps, PTL DEF Spec

\* MM3.write() and the moves: BINARY_OK means that the controller has executed
\* this command, however often it was lost or repeated, if nothing older was
\* on the way.
THEOREM LinkAcknowledged == Spec => []Acknowledged
<1>1. LinkInv => Acknowledged
  BY DEF LinkInv, Safe
<1> QED
  BY <1>1, Invariance, PTL

\* MM3.readRegister() returns what the register held after its command was
\* sent, never a reply to another command, and throws for want of bytes only when
\* its own reply was cut after the first one.
THEOREM LinkRegisterIsCurrent == Spec => []RegisterIsCurrent
<1>1. LinkInv => RegisterIsCurrent
  BY DEF LinkInv, Safe
<1> QED
  BY <1>1, Invariance, PTL

\* MM3.read() returns, from the cache or not, what is at least as new as the
\* last command that read registers, and never a placeholder.
THEOREM LinkReadIsCurrent == Spec => []ReadIsCurrent
<1>1. LinkInv => ReadIsCurrent
  BY DEF LinkInv, Safe
<1> QED
  BY <1>1, Invariance, PTL

-----------------------------------------------------------------------------
(* Cast and Winch, for any levels, plans, soundings and number of events. *)

\* Every step of the cast's own: a stage, a call that begins, a failure.
StageStep == StartCast \/ StageFails \/ Stages \/ Calibration

\* The records have their fields.
MvFields == {"pc", "owner", "code"}
CastFields == {"stage", "plan", "lisst", "precal", "abort", "target", "leg", "first"}
GearFields == {"logging", "pump", "suspended", "isco"}
CastShape ==
  /\ {"on", "to", "by"} \subseteq DOMAIN motor
  /\ MvFields \subseteq DOMAIN mv
  /\ CastFields \subseteq DOMAIN cast
  /\ GearFields \subseteq DOMAIN gear

\* A program that does nothing, and one that asks for the token.
LEMMA IdleIs ==
  /\ MvFields \subseteq DOMAIN Idle /\ Idle.pc = "idle"
  /\ MvFields \subseteq DOMAIN [Idle EXCEPT !.pc = "ask"] /\ [Idle EXCEPT !.pc = "ask"].pc = "ask"
BY DEF Idle, MvFields

\* A move that has ended.
LEMMA EndedIs ==
  ASSUME NEW code
  PROVE  MvFields \subseteq DOMAIN Ended(code) /\ Ended(code).pc = "ended"
BY DEF Idle, Ended, MvFields

\* get_token begins between two calls.
LEMMA AsksToken ==
  ASSUME NEW s, GetsToken(s)
  PROVE  /\ cast.stage = s /\ mv.pc = "idle"
         /\ MvFields \subseteq DOMAIN mv' /\ mv'.pc = "ask"
BY IdleIs DEF GetsToken

\* A move that begins has its parameters set.
LEMMA BeginsAbsolute ==
  ASSUME NEW to, NEW test, NEW up, NEW inpos, MoveToAbsolute(to, test, up, inpos)
  PROVE  MvFields \subseteq DOMAIN mv' /\ mv'.pc = "set"
BY DEF MoveToAbsolute, Idle, MvFields

\* The same of a move by a distance.
LEMMA BeginsRelative ==
  ASSUME NEW d, NEW test, NEW up, NEW depth, NEW inpos, MoveToRelative(d, test, up, depth, inpos)
  PROVE  MvFields \subseteq DOMAIN mv' /\ mv'.pc = "set"
BY DEF MoveToRelative, Idle, MvFields

\* A move to a depth begins, or ends at once; it may start the sampling.
LEMMA BeginsDepth ==
  ASSUME NEW desired, NEW inpos, MoveToDepth(desired, inpos)
  PROVE  /\ MvFields \subseteq DOMAIN mv' /\ mv'.pc \in {"set", "ended"}
         /\ UNCHANGED sampling \/ StartSampling
BY EndedIs, BeginsRelative DEF MoveToDepth

\* A park begins with one of its two moves, and leaves the cast as it is planned.
LEMMA BeginsPark ==
  ASSUME CastShape, NEW s, NEW to, ParkFrom(s, to)
  PROVE  /\ MvFields \subseteq DOMAIN mv' /\ mv'.pc = "set"
         /\ CastFields \subseteq DOMAIN cast' /\ cast'.stage = s /\ cast'.abort = cast.abort
         /\ cast'.lisst = cast.lisst /\ cast'.plan = cast.plan
BY BeginsAbsolute DEF ParkFrom, CastShape, CastFields

\* So does its second move.
LEMMA GoesOnParking ==
  ASSUME CastShape, NEW s, NEW to, ParkOn(s, to)
  PROVE  /\ mv.pc = "ended" /\ cast.stage = s /\ MvFields \subseteq DOMAIN mv' /\ mv'.pc = "set"
         /\ CastFields \subseteq DOMAIN cast' /\ cast'.stage = s /\ cast'.abort = cast.abort
         /\ cast'.lisst = cast.lisst /\ cast'.plan = cast.plan
BY BeginsAbsolute DEF ParkOn, Moved, CastShape, CastFields

\* What a step of the cast leaves alone, and when it is taken.
Calm ==
  /\ UNCHANGED <<pos, world, motor, pwm, other>>
  /\ mv.pc \in {"idle", "got", "ended"} \/ (mv.pc = "raised" /\ broken')
  /\ broken => broken'
  /\ mv' = mv \/ mv'.pc \in {"idle", "ask", "set", "ended"}
  /\ holder' = holder \/ (holder = "self" /\ holder' = "free")
  /\ MvFields \subseteq DOMAIN mv'
  /\ CastFields \subseteq DOMAIN cast'
  /\ GearFields \subseteq DOMAIN gear'

\* The stages before the moves.
LEMMA CalmBefore ==
  ASSUME CastShape,
         StartCast \/ StageFails \/ Skip \/ AioSetup \/ BrokerSetup \/ GetTokens \/ GotTokens
           \/ CheckStatus \/ CheckDepth \/ InitInstruments \/ InitDb \/ CheckPosition
  PROVE  Calm
<1>0. /\ MvFields \subseteq DOMAIN mv /\ CastFields \subseteq DOMAIN cast
      /\ GearFields \subseteq DOMAIN gear
  BY DEF CastShape
<1> USE <1>0, IdleIs DEF Calm, CastFields, GearFields, To, Abort, Done, DoneAbort, winch, still,
        program, drive, token, At, Got
<1>1. CASE StartCast
  BY <1>1 DEF StartCast
<1>2. CASE Skip
  BY <1>2 DEF Skip
<1>3. CASE AioSetup
  BY <1>3 DEF AioSetup
<1>4. CASE BrokerSetup
  BY <1>4 DEF BrokerSetup
<1>5. CASE StageFails
  BY <1>5 DEF StageFails
<1>6. CASE GetTokens
  BY <1>6, AsksToken DEF GetTokens
<1>7. CASE GotTokens
  BY <1>7 DEF GotTokens
<1>8. CASE CheckStatus
  <2>1. PICK ab \in {"none", "park"} :
          \/ Abort(ab, "depth") /\ UNCHANGED broken
          \/ Abort(ab, "raised") /\ broken' = TRUE
          \/ /\ cast' = [cast EXCEPT !.abort = ab, !.stage = "depth", !.lisst = "aborted"]
             /\ UNCHANGED broken
    BY <1>8 DEF CheckStatus
  <2>2. broken => broken'
    BY <2>1
  <2>3. CastFields \subseteq DOMAIN cast'
    <3>1. CASE Abort(ab, "depth")
      BY <3>1
    <3>2. CASE Abort(ab, "raised")
      BY <3>2
    <3>3. CASE cast' = [cast EXCEPT !.abort = ab, !.stage = "depth", !.lisst = "aborted"]
      BY <3>3
    <3> QED
      BY <2>1, <3>1, <3>2, <3>3
  <2>4. mv.pc = "idle" /\ UNCHANGED <<pos, world, motor, pwm, other, holder, mv, gear>>
    BY <1>8 DEF CheckStatus
  <2> QED
    BY <2>2, <2>3, <2>4
<1>9. CASE CheckDepth
  BY <1>9 DEF CheckDepth
<1>10. CASE InitInstruments
  BY <1>10 DEF InitInstruments
<1>11. CASE InitDb
  BY <1>11 DEF InitDb
<1>12. CASE CheckPosition
  <2>1. CastFields \subseteq DOMAIN cast'
    BY <1>12 DEF CheckPosition
  <2> QED
    BY <1>12, <2>1 DEF CheckPosition
<1> QED
  BY <1>1, <1>2, <1>3, <1>4, <1>5, <1>6, <1>7, <1>8, <1>9, <1>10, <1>11, <1>12

\* The moves before the cast.
LEMMA CalmMoves ==
  ASSUME CastShape,
         PreCastPark \/ ParkBegins \/ PreParked \/ PreCalibrate \/ Zero \/ PrePosition \/ ToWaterline
           \/ AtWaterline \/ Wipe \/ ToSampleDepth \/ AtSampleDepth \/ WaitForSched
  PROVE  Calm
<1>0. /\ MvFields \subseteq DOMAIN mv /\ CastFields \subseteq DOMAIN cast
      /\ GearFields \subseteq DOMAIN gear
  BY DEF CastShape
<1> USE <1>0, IdleIs DEF Calm, CastFields, GearFields, To, Abort, Done, DoneAbort, winch, still,
        program, drive, token, world, At, Got, Moved
<1>1. CASE PreCastPark
  BY <1>1, AsksToken DEF PreCastPark
<1>2. CASE ParkBegins
  BY <1>2, BeginsPark, GoesOnParking DEF ParkBegins
<1>3. CASE PreParked
  BY <1>3 DEF PreParked, Parked
<1>4. CASE PreCalibrate
  BY <1>4 DEF PreCalibrate
<1>5. CASE Zero
  BY <1>5 DEF Zero
<1>6. CASE PrePosition
  BY <1>6, AsksToken DEF PrePosition
<1>7. CASE ToWaterline
  BY <1>7, BeginsRelative DEF ToWaterline
<1>8. CASE AtWaterline
  BY <1>8 DEF AtWaterline
<1>9. CASE Wipe
  BY <1>9 DEF Wipe
<1>10. CASE ToSampleDepth
  BY <1>10, AsksToken, BeginsDepth DEF ToSampleDepth
<1>11. CASE AtSampleDepth
  BY <1>11 DEF AtSampleDepth
<1>12. CASE WaitForSched
  BY <1>12 DEF WaitForSched
<1> QED
  BY <1>1, <1>2, <1>3, <1>4, <1>5, <1>6, <1>7, <1>8, <1>9, <1>10, <1>11, <1>12

\* The cast itself, and its end.
LEMMA CalmCast ==
  ASSUME CastShape,
         StartsSampling \/ Lower \/ LowerAgain \/ Lowered \/ Sample \/ StopSampling
           \/ PostCastPark \/ PostPark \/ LastZero \/ FinishCast \/ Raises
  PROVE  Calm
<1>0. /\ MvFields \subseteq DOMAIN mv /\ CastFields \subseteq DOMAIN cast
      /\ GearFields \subseteq DOMAIN gear
  BY DEF CastShape
<1> USE <1>0, IdleIs DEF Calm, CastFields, GearFields, To, Abort, Done, DoneAbort, winch, still,
        program, drive, token, world, At, Got, Moved
<1>1. CASE StartsSampling
  BY <1>1 DEF StartsSampling
<1>2. CASE Lower
  BY <1>2, AsksToken, BeginsDepth DEF Lower
<1>3. CASE LowerAgain
  BY <1>3, BeginsDepth DEF LowerAgain
<1>4. CASE Lowered
  BY <1>4 DEF Lowered
<1>5. CASE Sample
  BY <1>5 DEF Sample
<1>6. CASE StopSampling
  BY <1>6 DEF StopSampling
<1>7. CASE PostCastPark
  BY <1>7, AsksToken DEF PostCastPark
<1>8. CASE PostPark
  BY <1>8, BeginsPark, GoesOnParking DEF PostPark, Parked
<1>9. CASE LastZero
  BY <1>9 DEF LastZero
<1>10. CASE FinishCast
  BY <1>10 DEF FinishCast
<1>11. CASE Raises
  BY <1>11 DEF Raises
<1> QED
  BY <1>1, <1>2, <1>3, <1>4, <1>5, <1>6, <1>7, <1>8, <1>9, <1>10, <1>11

\* The calibration.
LEMMA CalmCalibration ==
  ASSUME CastShape,
         RaiseToTop \/ NoWinch \/ RaiseMore \/ AtTop \/ ToLines \/ AtLines \/ CalPark
  PROVE  Calm
<1>0. /\ MvFields \subseteq DOMAIN mv /\ CastFields \subseteq DOMAIN cast
      /\ GearFields \subseteq DOMAIN gear
  BY DEF CastShape
<1> USE <1>0, IdleIs DEF Calm, CastFields, GearFields, To, Abort, Done, DoneAbort, winch, still,
        program, drive, token, world, At, Got, Moved
<1>1. CASE RaiseToTop
  BY <1>1, BeginsPark, GoesOnParking DEF RaiseToTop, Parked
<1>2. CASE NoWinch
  BY <1>2 DEF NoWinch
<1>3. CASE RaiseMore
  BY <1>3, BeginsRelative DEF RaiseMore
<1>4. CASE AtTop
  BY <1>4 DEF AtTop
<1>5. CASE ToLines
  BY <1>5, BeginsAbsolute DEF ToLines
<1>6. CASE AtLines
  BY <1>6 DEF AtLines
<1>7. CASE CalPark
  BY <1>7, BeginsPark, GoesOnParking DEF CalPark, Parked
<1> QED
  BY <1>1, <1>2, <1>3, <1>4, <1>5, <1>6, <1>7

\* Every step of the cast's own is calm.
LEMMA StageIsCalm == CastShape /\ StageStep => Calm
BY CalmBefore, CalmMoves, CalmCast, CalmCalibration DEF StageStep, Stages, Calibration

-----------------------------------------------------------------------------
\* The motor has this program's order; the places of a call that watches or ends a move.
Own == motor.on /\ motor.by = "self"
WatchPlaces == {"watch", "finish", "forced", "raised"}
\* Unless an exception left a stage: the motor runs on this program's order only under
\* such a call; not when the token is free, nor when it is about to be taken back.
Ours == ~broken =>
  /\ holder = "self" /\ Own => mv.pc \in WatchPlaces
  /\ holder = "free" => ~Own
  /\ mv.pc = "take" /\ mv.owner = "self" => ~Own
\* The other program has the token only while it works, and stops the motor last.
Theirs ==
  /\ holder \in {"free", "self", "other"}
  /\ holder = "other" => other \in {"holds", "moves", "halted"}
  /\ holder = "other" /\ other = "halted" => ~motor.on
\* The inductive invariant of Watched.
WatchInv == CastShape /\ Ours /\ Theirs

\* Every step keeps the fields.
LEMMA ShapeKept ==
  ASSUME CastShape, [CastNext]_castVars
  PROVE  CastShape'
<1> USE DEF CastShape
<1>1. CASE StageStep
  BY <1>1, StageIsCalm DEF Calm
<1>2. ASSUME UNCHANGED <<cast, program>>
      PROVE  CastFields \subseteq DOMAIN cast' /\ GearFields \subseteq DOMAIN gear'
  BY <1>2 DEF program
<1>3. CASE WinchSteps /\ UNCHANGED <<cast, program>>
  <2> USE <1>2, <1>3, IdleIs, EndedIs DEF drive, MvFields
  <2>1. CASE AskOwner
    BY <2>1 DEF AskOwner
  <2>2. CASE TakeToken
    BY <2>2 DEF TakeToken, Idle
  <2>3. CASE MoveSetup \/ ClearReason \/ PollReason
    BY <2>3 DEF MoveSetup, ClearReason, PollReason
  <2>4. CASE StartMove
    BY <2>4 DEF StartMove
  <2>5. CASE WatchEnds
    BY <2>5 DEF WatchEnds
  <2>6. CASE WatchHears
    BY <2>6 DEF WatchHears
  <2>7. CASE FinishMove
    BY <2>7 DEF FinishMove, Halted
  <2>8. CASE FinishForced
    BY <2>8 DEF FinishForced, Halted
  <2> QED
    BY <2>1, <2>2, <2>3, <2>4, <2>5, <2>6, <2>7, <2>8 DEF WinchSteps, Watching
<1>4. CASE (MotorRuns \/ Interference) /\ UNCHANGED <<cast, program>>
  <2> USE <1>2, <1>4 DEF drive, MvFields
  <2>1. CASE MotorRuns \/ CallbackWrites \/ OtherTakes \/ OtherReleases \/ OtherWrites
    BY <2>1 DEF MotorRuns, CallbackWrites, OtherTakes, OtherReleases, OtherWrites
  <2>2. CASE WatchFaults
    BY <2>2 DEF WatchFaults
  <2>3. CASE WatchRaises
    BY <2>3 DEF WatchRaises, Idle
  <2>4. CASE CallbackStops
    BY <2>4 DEF CallbackStops, Halted
  <2>5. CASE OtherMoves
    BY <2>5 DEF OtherMoves
  <2>6. CASE OtherHalts
    BY <2>6 DEF OtherHalts, Halted
  <2> QED
    BY <2>1, <2>2, <2>3, <2>4, <2>5, <2>6 DEF Interference
<1>5. CASE UNCHANGED castVars
  BY <1>5 DEF castVars, winchVars, drive
<1> QED
  BY <1>1, <1>3, <1>4, <1>5 DEF CastNext, ProgramSteps, StageStep

\* At the start the motor stands still and the token is free.
LEMMA WatchInit == CastInit => WatchInv
<1> SUFFICES ASSUME CastInit
             PROVE  WatchInv
  OBVIOUS
<1>1. {"on", "to", "by"} \subseteq DOMAIN motor /\ ~Own /\ Theirs
  BY DEF CastInit, WinchInit, Own, Theirs
<1>2. MvFields \subseteq DOMAIN mv /\ mv.pc = "idle"
  BY IdleIs DEF CastInit, WinchInit
<1>3. CastFields \subseteq DOMAIN cast
  BY DEF CastInit, NoCast, CastFields
<1>4. GearFields \subseteq DOMAIN gear
  BY DEF CastInit, GearFields
<1> QED
  BY <1>1, <1>2, <1>3, <1>4 DEF WatchInv, CastShape, Ours

\* A calm step orders nothing, and gives back the token only when the motor is not its own.
LEMMA StagesWatch ==
  ASSUME WatchInv, StageStep
  PROVE  (Ours /\ Theirs)'
BY StageIsCalm DEF WatchInv, Ours, Theirs, Own, WatchPlaces, Calm

\* StartMove gives the order and begins to watch; the watch ends with a halt, by
\* this program if it has the token or can force it.
LEMMA WinchWatches ==
  ASSUME WatchInv, WinchSteps, UNCHANGED broken
  PROVE  (Ours /\ Theirs)'
<1> USE DEF WatchInv, Ours, Theirs, Own, WatchPlaces, CastShape, MvFields, drive, token
<1>1. CASE AskOwner
  BY <1>1 DEF AskOwner
<1>2. CASE TakeToken
  <2>1. mv'.pc = "got" /\ mv.pc = "take" /\ UNCHANGED <<motor, other>>
    BY <1>2 DEF TakeToken, Idle
  <2>2. \/ (mv.owner = "self" \/ holder # "other") /\ holder' = "self"
        \/ UNCHANGED holder
    BY <1>2 DEF TakeToken
  <2> QED
    BY <2>1, <2>2
<1>3. CASE MoveSetup
  BY <1>3 DEF MoveSetup
<1>4. CASE ClearReason \/ PollReason
  BY <1>4 DEF ClearReason, PollReason
<1>5. CASE StartMove
  BY <1>5 DEF StartMove
<1>6. CASE WatchEnds
  BY <1>6 DEF WatchEnds
<1>7. CASE WatchHears
  BY <1>7 DEF WatchHears
<1>8. CASE FinishMove
  BY <1>8, EndedIs DEF FinishMove, Halted
<1>9. CASE FinishForced
  BY <1>9, EndedIs DEF FinishForced, Halted
<1> QED
  BY <1>1, <1>2, <1>3, <1>4, <1>5, <1>6, <1>7, <1>8, <1>9 DEF WinchSteps, Watching

\* The others halt the motor before they give back its token.
LEMMA OthersWatch ==
  ASSUME WatchInv, MotorRuns \/ Interference, UNCHANGED broken
  PROVE  (Ours /\ Theirs)'
<1> USE DEF WatchInv, Ours, Theirs, Own, WatchPlaces, CastShape, MvFields, drive, token
<1>1. CASE MotorRuns \/ CallbackWrites \/ OtherWrites
  BY <1>1 DEF MotorRuns, CallbackWrites, OtherWrites
<1>2. CASE WatchFaults
  BY <1>2 DEF WatchFaults
<1>3. CASE WatchRaises
  BY <1>3 DEF WatchRaises, Idle
<1>4. CASE CallbackStops
  BY <1>4 DEF CallbackStops, Halted
<1>5. CASE OtherTakes
  BY <1>5 DEF OtherTakes
<1>6. CASE OtherMoves
  <2>3. PICK t : motor' = [on |-> TRUE, to |-> t, by |-> "other"]
    BY <1>6 DEF OtherMoves
  <2>1. motor'.by = "other"
    BY <2>3
  <2>2. ~Own'
    BY <2>1
  <2> QED
    BY <1>6, <2>2 DEF OtherMoves
<1>7. CASE OtherHalts
  BY <1>7 DEF OtherHalts, Halted
<1>8. CASE OtherReleases
  BY <1>8 DEF OtherReleases
<1> QED
  BY <1>1, <1>2, <1>3, <1>4, <1>5, <1>6, <1>7, <1>8 DEF Interference

\* Every step keeps the invariant.
LEMMA WatchKept == WatchInv /\ [CastNext]_castVars => WatchInv'
<1> SUFFICES ASSUME WatchInv, [CastNext]_castVars
             PROVE  WatchInv'
  OBVIOUS
<1>1. CastShape'
  BY ShapeKept DEF WatchInv
<1>2. (Ours /\ Theirs)'
  <2>1. CASE StageStep
    BY <2>1, StagesWatch
  <2>2. CASE WinchSteps /\ UNCHANGED <<cast, program>>
    BY <2>2, WinchWatches DEF program
  <2>3. CASE (MotorRuns \/ Interference) /\ UNCHANGED <<cast, program>>
    BY <2>3, OthersWatch DEF program
  <2>4. CASE UNCHANGED castVars
    BY <2>4 DEF castVars, winchVars, drive, token, WatchInv, Ours, Theirs, Own, WatchPlaces
  <2> QED
    BY <2>1, <2>2, <2>3, <2>4 DEF CastNext, ProgramSteps, StageStep
<1> QED
  BY <1>1, <1>2 DEF WatchInv

\* Watched: with its token, this program's motor runs only while it is watched, or
\* is being stopped.
THEOREM MovesAreWatched == CastSpec => []Watched
<1>1. WatchInv => Watched
  BY DEF WatchInv, Ours, Own, Watched, Driving, WatchPlaces
<1> QED
  BY <1>1, WatchInit, WatchKept, PTL DEF CastSpec

-----------------------------------------------------------------------------
\* A cast that may not park gets to these stages only, with no call under way.
PutStages ==
  {"precal", "waterline", "wait", "sample", "collect", "end", "stopped", "zero?", "finish", "done",
   "raised"}
Put == cast.abort = "stay" => mv.pc = "idle" /\ cast.stage \in PutStages

\* Such a cast begins no stage before the moves.
LEMMA PutBefore ==
  ASSUME CastShape, Put,
         StartCast \/ StageFails \/ Skip \/ AioSetup \/ BrokerSetup \/ GetTokens \/ GotTokens
           \/ CheckStatus \/ CheckDepth \/ InitInstruments \/ InitDb \/ CheckPosition
  PROVE  Put'
<1>0. CastFields \subseteq DOMAIN cast
  BY DEF CastShape
<1> USE <1>0, IdleIs DEF CastFields, Put, PutStages, To, Abort, Done, DoneAbort, At, Got, Moved
<1>1. CASE StartCast
  BY <1>1 DEF StartCast
<1>2. CASE StageFails
  BY <1>2 DEF StageFails, After
<1>3. CASE Skip
  <2>1. cast.stage \in PutStages \cap DOMAIN After => After[cast.stage] \in PutStages
    BY DEF After
  <2>2. To(After[cast.stage]) /\ cast.stage \in DOMAIN After /\ mv.pc = "idle" /\ mv' = mv
    BY <1>3 DEF Skip, winch
  <2> HIDE DEF PutStages
  <2> QED
    BY <2>1, <2>2
<1>4. CASE AioSetup
  BY <1>4 DEF AioSetup
<1>5. CASE BrokerSetup
  BY <1>5 DEF BrokerSetup
<1>6. CASE GetTokens
  BY <1>6, AsksToken DEF GetTokens
<1>7. CASE GotTokens
  BY <1>7 DEF GotTokens
<1>8. CASE CheckStatus
  BY <1>8 DEF CheckStatus
<1>9. CASE CheckDepth
  BY <1>9 DEF CheckDepth
<1>10. CASE InitInstruments
  BY <1>10 DEF InitInstruments
<1>11. CASE InitDb
  BY <1>11 DEF InitDb, AfterDb
<1>12. CASE CheckPosition
  BY <1>12 DEF CheckPosition
<1> QED
  BY <1>1, <1>2, <1>3, <1>4, <1>5, <1>6, <1>7, <1>8, <1>9, <1>10, <1>11, <1>12

\* A limit switch ends the first move and leads on to the wait.
LEMMA PutMoves ==
  ASSUME CastShape, Put,
         PreCastPark \/ ParkBegins \/ PreParked \/ PreCalibrate \/ Zero \/ PrePosition
           \/ ToWaterline \/ AtWaterline \/ Wipe \/ ToSampleDepth \/ AtSampleDepth
           \/ WaitForSched
  PROVE  Put'
<1>0. CastFields \subseteq DOMAIN cast
  BY DEF CastShape
<1> USE <1>0, IdleIs DEF CastFields, Put, PutStages, To, Abort, Done, DoneAbort, At, Got, Moved
<1>1. CASE PreCastPark
  BY <1>1, AsksToken DEF PreCastPark
<1>2. CASE ParkBegins
  BY <1>2, BeginsPark, GoesOnParking DEF ParkBegins
<1>3. CASE PreParked
  BY <1>3 DEF PreParked, Parked
<1>4. CASE PreCalibrate
  BY <1>4 DEF PreCalibrate
<1>5. CASE Zero
  BY <1>5 DEF Zero
<1>6. CASE PrePosition
  BY <1>6, AsksToken DEF PrePosition
<1>7. CASE ToWaterline
  BY <1>7, BeginsRelative DEF ToWaterline
<1>8. CASE AtWaterline
  BY <1>8 DEF AtWaterline
<1>9. CASE Wipe
  BY <1>9 DEF Wipe
<1>10. CASE ToSampleDepth
  <2>1. cast.stage = "wiped" /\ (UNCHANGED cast \/ (To("wait") /\ mv.pc = "idle" /\ mv' = mv))
    BY <1>10, AsksToken DEF ToSampleDepth
  <2> QED
    BY <2>1
<1>11. CASE AtSampleDepth
  BY <1>11 DEF AtSampleDepth
<1>12. CASE WaitForSched
  BY <1>12 DEF WaitForSched
<1> QED
  BY <1>1, <1>2, <1>3, <1>4, <1>5, <1>6, <1>7, <1>8, <1>9, <1>10, <1>11, <1>12

\* The later stages skip what moves the winch.
LEMMA PutCast ==
  ASSUME CastShape, Put,
         StartsSampling \/ Lower \/ LowerAgain \/ Lowered \/ Sample \/ StopSampling
           \/ PostCastPark \/ PostPark \/ LastZero \/ FinishCast \/ Raises
  PROVE  Put'
<1>0. CastFields \subseteq DOMAIN cast
  BY DEF CastShape
<1> USE <1>0, IdleIs DEF CastFields, Put, PutStages, To, Abort, Done, DoneAbort, At, Got, Moved
<1>1. CASE StartsSampling
  BY <1>1 DEF StartsSampling
<1>2. CASE Lower
  BY <1>2, AsksToken, BeginsDepth DEF Lower
<1>3. CASE LowerAgain
  BY <1>3, BeginsDepth DEF LowerAgain
<1>4. CASE Lowered
  BY <1>4 DEF Lowered
<1>5. CASE Sample
  BY <1>5 DEF Sample
<1>6. CASE StopSampling
  <2>1. To("stopped") /\ mv.pc = "idle" /\ mv' = mv
    BY <1>6 DEF StopSampling, winch
  <2> QED
    BY <2>1
<1>7. CASE PostCastPark
  BY <1>7, AsksToken DEF PostCastPark
<1>8. CASE PostPark
  BY <1>8, BeginsPark, GoesOnParking DEF PostPark, Parked
<1>9. CASE LastZero
  BY <1>9 DEF LastZero
<1>10. CASE FinishCast
  BY <1>10 DEF FinishCast
<1>11. CASE Raises
  BY <1>11 DEF Raises
<1> QED
  BY <1>1, <1>2, <1>3, <1>4, <1>5, <1>6, <1>7, <1>8, <1>9, <1>10, <1>11

\* The calibration is never told to stay.
LEMMA PutCalibration ==
  ASSUME CastShape, Put,
         RaiseToTop \/ NoWinch \/ RaiseMore \/ AtTop \/ ToLines \/ AtLines \/ CalPark
  PROVE  Put'
<1>0. CastFields \subseteq DOMAIN cast
  BY DEF CastShape
<1> USE <1>0, IdleIs DEF CastFields, Put, PutStages, To, Abort, Done, DoneAbort, At, Got, Moved
<1>1. CASE RaiseToTop
  BY <1>1, BeginsPark, GoesOnParking DEF RaiseToTop, Parked
<1>2. CASE NoWinch
  BY <1>2 DEF NoWinch
<1>3. CASE RaiseMore
  BY <1>3, BeginsRelative DEF RaiseMore
<1>4. CASE AtTop
  BY <1>4 DEF AtTop
<1>5. CASE ToLines
  BY <1>5, BeginsAbsolute DEF ToLines
<1>6. CASE AtLines
  BY <1>6 DEF AtLines
<1>7. CASE CalPark
  BY <1>7, BeginsPark, GoesOnParking DEF CalPark, Parked
<1> QED
  BY <1>1, <1>2, <1>3, <1>4, <1>5, <1>6, <1>7

\* With no call under way, StartMove cannot give an order.
LEMMA PutStays ==
  ASSUME CastShape, Put, [CastNext]_castVars
  PROVE  Put' /\ (cast.abort = "stay" /\ motor'.on /\ motor' # motor => motor'.by = "other")
<1> USE DEF Put
<1>1. CASE StageStep
  <2>1. Put'
    BY <1>1, PutBefore, PutMoves, PutCast, PutCalibration DEF StageStep, Stages, Calibration
  <2>2. UNCHANGED motor
    BY <1>1, StageIsCalm DEF Calm
  <2> QED
    BY <2>1, <2>2
<1>2. CASE WinchSteps /\ UNCHANGED <<cast, program>>
  <2>1. mv.pc # "idle"
    BY <1>2 DEF WinchSteps, Watching, AskOwner, TakeToken, MoveSetup, ClearReason, PollReason,
       StartMove,
                WatchEnds, WatchHears, FinishMove, FinishForced
  <2> QED
    BY <1>2, <2>1
<1>3. CASE (MotorRuns \/ Interference) /\ UNCHANGED <<cast, program>>
  <2>1. mv.pc = "idle" => mv' = mv
    BY <1>3 DEF MotorRuns, Interference, WatchFaults, WatchRaises, CallbackStops, CallbackWrites,
                OtherTakes, OtherMoves, OtherHalts, OtherReleases, OtherWrites
  <2>2. UNCHANGED motor \/ motor' = [motor EXCEPT !.on = FALSE] \/ OtherMoves
    BY <1>3 DEF MotorRuns, Interference, WatchFaults, WatchRaises, CallbackStops, CallbackWrites,
                OtherTakes, OtherHalts, OtherReleases, OtherWrites, Halted, drive
  <2>3. UNCHANGED motor \/ ~motor'.on \/ motor'.by = "other"
    <3>1. CASE UNCHANGED motor
      BY <3>1
    <3>2. CASE motor' = [motor EXCEPT !.on = FALSE]
      BY <3>2 DEF CastShape
    <3>3. CASE OtherMoves
      <4>1. PICK t : motor' = [on |-> TRUE, to |-> t, by |-> "other"]
        BY <3>3 DEF OtherMoves
      <4> QED
        BY <4>1
    <3> QED
      BY <2>2, <3>1, <3>2, <3>3
  <2> QED
    BY <1>3, <2>1, <2>3
<1>4. CASE UNCHANGED castVars
  BY <1>4 DEF castVars, winchVars, drive
<1> QED
  BY <1>1, <1>2, <1>3, <1>4 DEF CastNext, ProgramSteps, StageStep

\* StaysPut: after a fault that forbids to park, the cast gives the motor no order.
THEOREM AbortedStays == CastSpec => StaysPut
<1>1. CastInit => CastShape /\ Put
  BY WatchInit DEF WatchInv, Put, CastInit, NoCast
<1>2. CastShape /\ Put /\ [CastNext]_castVars => (CastShape /\ Put)'
  BY ShapeKept, PutStays
<1>3. CastShape /\ Put /\ [CastNext]_castVars
        => [cast.abort = "stay" /\ motor'.on /\ motor' # motor => motor'.by = "other"]_castVars
  BY PutStays
<1> QED
  BY <1>1, <1>2, <1>3, PTL DEF CastSpec, StaysPut

-----------------------------------------------------------------------------
\* The stages for which the sonde's token was taken.
Prepared ==
  {"status", "depth", "instruments", "db", "position", "park", "precal", "zero", "waterline", "wipe",
   "wiped", "wait", "sample"}
\* What runs has a token that was taken for it, or a cast that will stop it.  The
\* inductive invariant, with WatchInv, of QuietWhenDone.
Quiet ==
  /\ sampling \/ gear.logging => "sonde" \in tokens
  /\ cast.stage \in Prepared /\ cast.abort = "none" => "sonde" \in tokens
  /\ cast.stage = "tokens" /\ mv.pc # "idle" => "sonde" \in tokens
  /\ cast.stage = "raised" => broken
  /\ cast.stage \in {"done", "raised"} => mv.pc = "idle"
  /\ ~broken /\ gear.pump => cast.lisst = "yes" /\ cast.stage \in {"collect", "end"}
  /\ ~broken /\ gear.isco => cast.plan.isco /\ cast.stage # "done"
  /\ cast.stage = "done" /\ ~broken => tokens = {} /\ holder # "self"

\* The stages before the moves: GetTokens takes the sonde's token.
LEMMA QuietBefore ==
  ASSUME CastShape, Quiet,
         StartCast \/ StageFails \/ Skip \/ AioSetup \/ BrokerSetup \/ GetTokens \/ GotTokens
           \/ CheckStatus \/ CheckDepth \/ InitInstruments \/ InitDb \/ CheckPosition
  PROVE  Quiet'
<1>0. CastFields \subseteq DOMAIN cast /\ GearFields \subseteq DOMAIN gear
  BY DEF CastShape
<1> USE <1>0, IdleIs DEF CastFields, GearFields, Quiet, Prepared, To, Abort, Done, DoneAbort,
        At, Got, Moved, program, winch, still, token, StartSampling
<1>1. CASE StartCast
  BY <1>1 DEF StartCast
<1>2. CASE StageFails
  <2>1. cast'.abort = "park" /\ cast'.lisst = cast.lisst /\ cast'.plan = cast.plan
        /\ cast'.stage \in {"brokers", "status", "db", "raise", "position"}
    BY <1>2 DEF StageFails, After, AfterDb
  <2>2. UNCHANGED <<tokens, mv, gear, broken, holder, sampling>> /\ mv.pc = "idle"
        /\ cast.stage \in {"aio", "tokens", "instruments", "db"}
    BY <1>2 DEF StageFails
  <2> QED
    BY <2>1, <2>2
<1>3. CASE Skip
  BY <1>3 DEF Skip, After
<1>4. CASE AioSetup
  BY <1>4 DEF AioSetup
<1>5. CASE BrokerSetup
  BY <1>5 DEF BrokerSetup
<1>6. CASE GetTokens
  BY <1>6, AsksToken DEF GetTokens
<1>7. CASE GotTokens
  BY <1>7 DEF GotTokens
<1>8. CASE CheckStatus
  <2>1. PICK ab \in {"none", "park"} :
          \/ Abort(ab, "depth") /\ UNCHANGED <<tokens, broken>>
          \/ Abort(ab, "raised") /\ broken' = TRUE /\ UNCHANGED tokens
          \/ /\ cast' = [cast EXCEPT !.abort = ab, !.stage = "depth", !.lisst = "aborted"]
             /\ tokens' = tokens \ {"lisst"} /\ UNCHANGED broken
    BY <1>8 DEF CheckStatus
  <2>2. UNCHANGED <<mv, gear, holder, sampling>> /\ mv.pc = "idle" /\ cast.stage = "status"
        /\ cast.abort = "none"
    BY <1>8 DEF CheckStatus
  <2>3. CASE Abort(ab, "depth") /\ UNCHANGED <<tokens, broken>>
    BY <2>2, <2>3
  <2>4. CASE Abort(ab, "raised") /\ broken' = TRUE /\ UNCHANGED tokens
    BY <2>2, <2>4
  <2>5. CASE /\ cast' = [cast EXCEPT !.abort = ab, !.stage = "depth", !.lisst = "aborted"]
             /\ tokens' = tokens \ {"lisst"} /\ UNCHANGED broken
    BY <2>2, <2>5
  <2> QED
    BY <2>1, <2>3, <2>4, <2>5
<1>9. CASE CheckDepth
  BY <1>9 DEF CheckDepth
<1>10. CASE InitInstruments
  BY <1>10 DEF InitInstruments
<1>11. CASE InitDb
  BY <1>11 DEF InitDb, AfterDb
<1>12. CASE CheckPosition
  BY <1>12 DEF CheckPosition
<1> QED
  BY <1>1, <1>2, <1>3, <1>4, <1>5, <1>6, <1>7, <1>8, <1>9, <1>10, <1>11, <1>12

\* The moves start no instrument but with the sonde's token.
LEMMA QuietMoves ==
  ASSUME CastShape, Quiet,
         PreCastPark \/ ParkBegins \/ PreParked \/ PreCalibrate \/ Zero \/ PrePosition
           \/ ToWaterline \/ AtWaterline \/ Wipe \/ ToSampleDepth \/ AtSampleDepth
           \/ WaitForSched
  PROVE  Quiet'
<1>0. CastFields \subseteq DOMAIN cast /\ GearFields \subseteq DOMAIN gear
  BY DEF CastShape
<1> USE <1>0, IdleIs DEF CastFields, GearFields, Quiet, Prepared, To, Abort, Done, DoneAbort,
        At, Got, Moved, program, winch, still, token, StartSampling
<1>1. CASE PreCastPark
  BY <1>1, AsksToken DEF PreCastPark
<1>2. CASE ParkBegins
  BY <1>2, BeginsPark, GoesOnParking DEF ParkBegins
<1>3. CASE PreParked
  BY <1>3 DEF PreParked, Parked
<1>4. CASE PreCalibrate
  BY <1>4 DEF PreCalibrate
<1>5. CASE Zero
  BY <1>5 DEF Zero
<1>6. CASE PrePosition
  BY <1>6, AsksToken DEF PrePosition
<1>7. CASE ToWaterline
  BY <1>7, BeginsRelative DEF ToWaterline
<1>8. CASE AtWaterline
  BY <1>8 DEF AtWaterline
<1>9. CASE Wipe
  BY <1>9 DEF Wipe
<1>10. CASE ToSampleDepth
  <2>1. cast'.stage \in {"wiped", "wait"} /\ cast'.abort = cast.abort
        /\ cast'.lisst = cast.lisst /\ cast'.plan = cast.plan
    <3>1. cast.stage = "wiped" /\ (cast' = cast \/ To("wait"))
      BY <1>10, AsksToken DEF ToSampleDepth
    <3> QED
      BY <3>1
  <2>2. sampling' => sampling \/ "sonde" \in tokens
    BY <1>10, BeginsDepth DEF ToSampleDepth
  <2>3. UNCHANGED <<tokens, gear, broken, holder>> /\ cast.stage = "wiped"
    BY <1>10, AsksToken DEF ToSampleDepth
  <2> QED
    BY <2>1, <2>2, <2>3
<1>11. CASE AtSampleDepth
  BY <1>11 DEF AtSampleDepth
<1>12. CASE WaitForSched
  BY <1>12 DEF WaitForSched
<1> QED
  BY <1>1, <1>2, <1>3, <1>4, <1>5, <1>6, <1>7, <1>8, <1>9, <1>10, <1>11, <1>12

\* StopSampling stops the pump, FinishCast the sampling and the ISCO.
LEMMA QuietCast ==
  ASSUME CastShape, Quiet,
         StartsSampling \/ Lower \/ LowerAgain \/ Lowered \/ Sample \/ StopSampling
           \/ PostCastPark \/ PostPark \/ LastZero \/ FinishCast \/ Raises
  PROVE  Quiet'
<1>0. CastFields \subseteq DOMAIN cast /\ GearFields \subseteq DOMAIN gear
  BY DEF CastShape
<1> USE <1>0, IdleIs DEF CastFields, GearFields, Quiet, Prepared, To, Abort, Done, DoneAbort,
        At, Got, Moved, program, winch, still, token, StartSampling
<1>1. CASE StartsSampling
  BY <1>1 DEF StartsSampling
<1>2. CASE Lower
  BY <1>2, AsksToken, BeginsDepth DEF Lower
<1>3. CASE LowerAgain
  BY <1>3, BeginsDepth DEF LowerAgain
<1>4. CASE Lowered
  BY <1>4 DEF Lowered
<1>5. CASE Sample
  BY <1>5 DEF Sample
<1>6. CASE StopSampling
  BY <1>6 DEF StopSampling
<1>7. CASE PostCastPark
  BY <1>7, AsksToken DEF PostCastPark
<1>8. CASE PostPark
  <2>1. cast.stage \in {"stopped", "home"} /\ cast'.stage \in {"home", "zero?"}
        /\ cast'.lisst = cast.lisst /\ cast'.plan = cast.plan
    <3>1. CASE Got("stopped") /\ mv' = Idle /\ To("zero?")
      BY <3>1
    <3>2. CASE Got("stopped") /\ ParkFrom("home", Places[cast.plan.park])
      BY <3>2, BeginsPark
    <3>3. CASE ParkOn("home", Places[cast.plan.park])
      BY <3>3, GoesOnParking
    <3>4. CASE Parked("home") /\ mv' = Idle /\ Done("zero?")
      BY <3>4 DEF Parked
    <3> QED
      BY <1>8, <3>1, <3>2, <3>3, <3>4 DEF PostPark
  <2>2. sampling' => sampling \/ "sonde" \in tokens
    BY <1>8 DEF PostPark
  <2>3. UNCHANGED <<tokens, gear, broken, holder>>
    BY <1>8 DEF PostPark
  <2> QED
    BY <2>1, <2>2, <2>3
<1>9. CASE LastZero
  <2>1. cast.stage = "zero?" /\ cast'.stage \in {"last zero", "finish"}
        /\ cast'.lisst = cast.lisst /\ cast'.plan = cast.plan
    BY <1>9 DEF LastZero
  <2>2. sampling' => sampling \/ "sonde" \in tokens
    BY <1>9 DEF LastZero
  <2>3. UNCHANGED <<tokens, mv, gear, broken, holder>> /\ mv.pc = "idle"
    BY <1>9 DEF LastZero
  <2> QED
    BY <2>1, <2>2, <2>3
<1>10. CASE FinishCast
  BY <1>10 DEF FinishCast
<1>11. CASE Raises
  BY <1>11 DEF Raises
<1> QED
  BY <1>1, <1>2, <1>3, <1>4, <1>5, <1>6, <1>7, <1>8, <1>9, <1>10, <1>11

\* The calibration starts nothing but the sampling.
LEMMA QuietCalibration ==
  ASSUME CastShape, Quiet,
         RaiseToTop \/ NoWinch \/ RaiseMore \/ AtTop \/ ToLines \/ AtLines \/ CalPark
  PROVE  Quiet'
<1>0. CastFields \subseteq DOMAIN cast /\ GearFields \subseteq DOMAIN gear
  BY DEF CastShape
<1> USE <1>0, IdleIs DEF CastFields, GearFields, Quiet, Prepared, To, Abort, Done, DoneAbort,
        At, Got, Moved, program, winch, still, token, StartSampling
<1>1. CASE RaiseToTop
  BY <1>1, BeginsPark, GoesOnParking DEF RaiseToTop, Parked
<1>2. CASE NoWinch
  BY <1>2 DEF NoWinch
<1>3. CASE RaiseMore
  BY <1>3, BeginsRelative DEF RaiseMore
<1>4. CASE AtTop
  BY <1>4 DEF AtTop
<1>5. CASE ToLines
  BY <1>5, BeginsAbsolute DEF ToLines
<1>6. CASE AtLines
  BY <1>6 DEF AtLines
<1>7. CASE CalPark
  BY <1>7, BeginsPark, GoesOnParking DEF CalPark, Parked
<1> QED
  BY <1>1, <1>2, <1>3, <1>4, <1>5, <1>6, <1>7

\* The winch, the motor and the others change none of this.
LEMMA QuietStays ==
  ASSUME CastShape, Quiet, [CastNext]_castVars
  PROVE  Quiet'
<1>1. CASE StageStep
  BY <1>1, QuietBefore, QuietMoves, QuietCast, QuietCalibration DEF StageStep, Stages, Calibration
<1>2. CASE WinchSteps /\ UNCHANGED <<cast, program>>
  <2>1. mv.pc # "idle"
    BY <1>2 DEF WinchSteps, Watching, AskOwner, TakeToken, MoveSetup, ClearReason, PollReason,
       StartMove,
                WatchEnds, WatchHears, FinishMove, FinishForced
  <2>2. UNCHANGED <<tokens, sampling>>
    BY <1>2 DEF WinchSteps, Watching, AskOwner, TakeToken, MoveSetup, ClearReason, PollReason,
       StartMove,
                WatchEnds, WatchHears, FinishMove, FinishForced, token
  <2> QED
    BY <1>2, <2>1, <2>2 DEF Quiet, program
<1>3. CASE (MotorRuns \/ Interference) /\ UNCHANGED <<cast, program>>
  <2>1. mv' = mv \/ mv.pc = "watch"
    BY <1>3 DEF MotorRuns, Interference, WatchFaults, WatchRaises, CallbackStops, CallbackWrites,
                OtherTakes, OtherMoves, OtherHalts, OtherReleases, OtherWrites
  <2>2. UNCHANGED <<tokens, sampling>>
    BY <1>3 DEF MotorRuns, Interference, WatchFaults, WatchRaises, CallbackStops, CallbackWrites,
                OtherTakes, OtherMoves, OtherHalts, OtherReleases, OtherWrites, token
  <2>3. holder' = "self" => holder = "self"
    BY <1>3 DEF MotorRuns, Interference, WatchFaults, WatchRaises, CallbackStops, CallbackWrites,
                OtherTakes, OtherMoves, OtherHalts, OtherReleases, OtherWrites, token
  <2> QED
    BY <1>3, <2>1, <2>2, <2>3 DEF Quiet, program
<1>4. CASE UNCHANGED castVars
  BY <1>4 DEF castVars, winchVars, token, Quiet
<1> QED
  BY <1>1, <1>2, <1>3, <1>4 DEF CastNext, ProgramSteps, StageStep

\* QuietWhenDone: a cast that has come to its end has stopped its instruments, given
\* back its tokens and left the motor still.
THEOREM DoneIsQuiet == CastSpec => []QuietWhenDone
<1>1. CastInit => Quiet
  <2> SUFFICES ASSUME CastInit
               PROVE  Quiet
    OBVIOUS
  <2>1. cast.stage = "done" /\ mv.pc = "idle"
    BY IdleIs DEF CastInit, WinchInit, NoCast
  <2>2. ~sampling /\ tokens = {} /\ holder = "free"
    BY DEF CastInit, WinchInit
  <2>3. ~gear.logging /\ ~gear.pump /\ ~gear.isco
    BY DEF CastInit
  <2> QED
    BY <2>1, <2>2, <2>3 DEF Quiet, Prepared
<1>2. WatchInv /\ Quiet => QuietWhenDone
  BY DEF WatchInv, Ours, Own, Quiet, QuietWhenDone, Driving
<1>3. WatchInv /\ Quiet /\ [CastNext]_castVars => Quiet'
  BY QuietStays DEF WatchInv
<1> QED
  BY <1>1, <1>2, <1>3, WatchInit, WatchKept, PTL DEF CastSpec

-----------------------------------------------------------------------------
\* The stages that zero the pressure.
ZeroStages == {"zero", "last zero", "cal zero"}
\* A stage that neither looks for the water nor zeroes the pressure.
Astray == UNCHANGED <<drift, seen>> /\ (cast'.stage = cast.stage \/ cast'.stage \notin ZeroStages)

\* The stages before the moves.
LEMMA AstrayBefore ==
  ASSUME CastShape,
         StartCast \/ StageFails \/ Skip \/ AioSetup \/ BrokerSetup \/ GetTokens \/ GotTokens
           \/ CheckStatus \/ CheckDepth \/ InitInstruments \/ InitDb \/ CheckPosition
  PROVE  Astray
<1>0. CastFields \subseteq DOMAIN cast
  BY DEF CastShape
<1> USE <1>0, IdleIs DEF CastFields, Astray, ZeroStages, To, Abort, Done, DoneAbort, At, Got,
        Moved, program, winch, still
<1>1. CASE StartCast
  BY <1>1 DEF StartCast
<1>2. CASE StageFails
  <2>1. cast'.stage \in {"brokers", "status", "db", "raise", "position"}
    BY <1>2 DEF StageFails, After, AfterDb
  <2> QED
    BY <1>2, <2>1 DEF StageFails
<1>3. CASE Skip
  <2>1. cast.stage \in DOMAIN After
          => After[cast.stage] \in {"brokers", "tokens", "status", "depth", "instruments", "db", "precal",
                                    "waterline", "wait", "sample", "collect", "end"}
    BY SMTT(60) DEF After
  <2>2. cast'.stage = After[cast.stage] /\ cast.stage \in DOMAIN After /\ UNCHANGED <<drift, seen>>
    BY <1>3 DEF Skip
  <2> QED
    BY <2>1, <2>2
<1>4. CASE AioSetup
  BY <1>4 DEF AioSetup
<1>5. CASE BrokerSetup
  BY <1>5 DEF BrokerSetup
<1>6. CASE GetTokens
  BY <1>6, AsksToken DEF GetTokens
<1>7. CASE GotTokens
  BY <1>7 DEF GotTokens
<1>8. CASE CheckStatus
  BY <1>8 DEF CheckStatus
<1>9. CASE CheckDepth
  BY <1>9 DEF CheckDepth
<1>10. CASE InitInstruments
  BY <1>10 DEF InitInstruments
<1>11. CASE InitDb
  BY <1>11 DEF InitDb, AfterDb
<1>12. CASE CheckPosition
  BY <1>12 DEF CheckPosition
<1> QED
  BY <1>1, <1>2, <1>3, <1>4, <1>5, <1>6, <1>7, <1>8, <1>9, <1>10, <1>11, <1>12

\* The moves before the cast.
LEMMA AstrayMoves ==
  ASSUME CastShape,
         PreCastPark \/ ParkBegins \/ PreParked \/ PrePosition \/ ToWaterline \/ AtWaterline
           \/ Wipe \/ ToSampleDepth \/ AtSampleDepth \/ WaitForSched
  PROVE  Astray
<1>0. CastFields \subseteq DOMAIN cast
  BY DEF CastShape
<1> USE <1>0, IdleIs DEF CastFields, Astray, ZeroStages, To, Abort, Done, DoneAbort, At, Got,
        Moved, program, winch, still
<1>1. CASE PreCastPark
  BY <1>1, AsksToken DEF PreCastPark
<1>2. CASE ParkBegins
  BY <1>2, BeginsPark, GoesOnParking DEF ParkBegins
<1>3. CASE PreParked
  BY <1>3 DEF PreParked, Parked
<1>4. CASE PrePosition
  BY <1>4, AsksToken DEF PrePosition
<1>5. CASE ToWaterline
  BY <1>5, BeginsRelative DEF ToWaterline
<1>6. CASE AtWaterline
  BY <1>6 DEF AtWaterline
<1>7. CASE Wipe
  BY <1>7 DEF Wipe
<1>8. CASE ToSampleDepth
  BY <1>8, AsksToken, BeginsDepth DEF ToSampleDepth
<1>9. CASE AtSampleDepth
  BY <1>9 DEF AtSampleDepth
<1>10. CASE WaitForSched
  BY <1>10 DEF WaitForSched
<1> QED
  BY <1>1, <1>2, <1>3, <1>4, <1>5, <1>6, <1>7, <1>8, <1>9, <1>10

\* The cast itself, and its end.
LEMMA AstrayCast ==
  ASSUME CastShape,
         StartsSampling \/ Lower \/ LowerAgain \/ Lowered \/ Sample \/ StopSampling
           \/ PostCastPark \/ PostPark \/ FinishCast \/ Raises
  PROVE  Astray
<1>0. CastFields \subseteq DOMAIN cast
  BY DEF CastShape
<1> USE <1>0, IdleIs DEF CastFields, Astray, ZeroStages, To, Abort, Done, DoneAbort, At, Got,
        Moved, program, winch, still
<1>1. CASE StartsSampling
  BY <1>1 DEF StartsSampling
<1>2. CASE Lower
  BY <1>2, AsksToken, BeginsDepth DEF Lower
<1>3. CASE LowerAgain
  BY <1>3, BeginsDepth DEF LowerAgain
<1>4. CASE Lowered
  BY <1>4 DEF Lowered
<1>5. CASE Sample
  BY <1>5 DEF Sample
<1>6. CASE StopSampling
  BY <1>6 DEF StopSampling
<1>7. CASE PostCastPark
  BY <1>7, AsksToken DEF PostCastPark
<1>8. CASE PostPark
  <2>1. cast'.stage \in {"home", "zero?"}
    <3>1. CASE Got("stopped") /\ mv' = Idle /\ To("zero?")
      BY <3>1
    <3>2. CASE Got("stopped") /\ ParkFrom("home", Places[cast.plan.park])
      BY <3>2, BeginsPark
    <3>3. CASE ParkOn("home", Places[cast.plan.park])
      BY <3>3, GoesOnParking
    <3>4. CASE Parked("home") /\ mv' = Idle /\ Done("zero?")
      BY <3>4
    <3> QED
      BY <1>8, <3>1, <3>2, <3>3, <3>4 DEF PostPark
  <2> QED
    BY <1>8, <2>1 DEF PostPark
<1>9. CASE FinishCast
  BY <1>9 DEF FinishCast
<1>10. CASE Raises
  BY <1>10 DEF Raises
<1> QED
  BY <1>1, <1>2, <1>3, <1>4, <1>5, <1>6, <1>7, <1>8, <1>9, <1>10

\* The calibration.
LEMMA AstrayCalibration ==
  ASSUME CastShape,
         RaiseToTop \/ NoWinch \/ RaiseMore \/ ToLines \/ AtLines \/ CalPark
  PROVE  Astray
<1>0. CastFields \subseteq DOMAIN cast
  BY DEF CastShape
<1> USE <1>0, IdleIs DEF CastFields, Astray, ZeroStages, To, Abort, Done, DoneAbort, At, Got,
        Moved, program, winch, still
<1>1. CASE RaiseToTop
  BY <1>1, BeginsPark, GoesOnParking DEF RaiseToTop, Parked
<1>2. CASE NoWinch
  BY <1>2 DEF NoWinch
<1>3. CASE RaiseMore
  BY <1>3, BeginsRelative DEF RaiseMore
<1>4. CASE ToLines
  BY <1>4, BeginsAbsolute DEF ToLines
<1>5. CASE AtLines
  BY <1>5 DEF AtLines
<1>6. CASE CalPark
  BY <1>6, BeginsPark, GoesOnParking DEF CalPark, Parked
<1> QED
  BY <1>1, <1>2, <1>3, <1>4, <1>5, <1>6


\* The levels are numbers, and the bottom is under water.
Level == pos \in Int /\ ground \in Grounds /\ drift \in Int /\ seen \in Int
\* Before the pressure is zeroed, the sonde was seen out of the water: by a probe that
\* works, and in the calibration by the pressure if that reads no less than it should.
Looked ==
  /\ cast.stage \in {"zero", "last zero"} /\ probe = "good" => seen < Surface
  /\ cast.stage = "cal zero" /\ probe = "good" /\ drift >= 0 => seen < Surface

\* The true depth is 0 above the surface and nowhere else.
LEMMA TrueDepthIs ==
  ASSUME Level
  PROVE  TrueDepth \in Nat /\ (TrueDepth = 0 <=> pos < Surface)
BY LevelAssumption DEF Level, TrueDepth, Sunk

\* What the pressure and the probe say of it.
LEMMA DepthSays ==
  ASSUME Level
  PROVE  /\ DepthInWater = "yes" <=> TrueDepth + drift > 0
         /\ DepthInWater \in {"yes", "no"}
         /\ probe = "good" => (CondInWater = "yes" <=> TrueDepth > 0)
BY TrueDepthIs DEF DepthInWater, CondInWater, Says, Depth

\* Then a sonde that was not moved is zeroed in the air.
LEMMA ZeroIsDry ==
  ASSUME Level, Looked, Zero, probe = "good", pos = seen, cast.stage = "cal zero" => drift >= 0
  PROVE  TrueDepth = 0
BY TrueDepthIs DEF Zero, Looked

\* PreCalibrate, LastZero and AtTop look before they lead to a stage that zeroes.
LEMMA StageLooks ==
  ASSUME CastShape, Level, Looked, StageStep
  PROVE  Level' /\ Looked'
<1>1. UNCHANGED <<pos, ground, probe>>
  BY StageIsCalm DEF Calm, world
<1>2. CASE Astray
  BY <1>1, <1>2 DEF Level, Looked, Astray, ZeroStages
<1>3. CASE PreCalibrate
  <2>1. \/ UNCHANGED seen /\ cast'.stage = "waterline"
        \/ seen' = pos /\ cast'.stage \in {"zero", "waterline"}
    BY <1>3 DEF PreCalibrate, To, Abort, CastShape, CastFields
  <2>2. cast'.stage = "zero" => seen' = pos /\ Depth # 0 /\ CondInWater # "yes"
    BY <1>3 DEF PreCalibrate, To, Abort, CastShape, CastFields, NeedsZero
  <2>3. UNCHANGED drift
    BY <1>3 DEF PreCalibrate, still
  <2>4. Level'
    BY <1>1, <2>1, <2>3 DEF Level
  <2>5. cast'.stage = "zero" /\ probe = "good" => pos < Surface
    BY <2>2, TrueDepthIs, DepthSays
  <2> QED
    BY <1>1, <2>1, <2>2, <2>4, <2>5 DEF Looked
<1>4. CASE LastZero
  <2>1. \/ UNCHANGED seen /\ cast'.stage = "finish"
        \/ seen' = pos /\ cast'.stage \in {"last zero", "finish"}
    BY <1>4 DEF LastZero, To, CastShape, CastFields
  <2>2. cast'.stage = "last zero" => seen' = pos /\ CondInWater # "yes"
    BY <1>4 DEF LastZero, To, CastShape, CastFields, NeedsZero
  <2>3. UNCHANGED drift
    BY <1>4 DEF LastZero, still
  <2>4. Level'
    BY <1>1, <2>1, <2>3 DEF Level
  <2>5. cast'.stage = "last zero" /\ probe = "good" => pos < Surface
    <3>1. cast'.stage = "last zero" /\ probe = "good" => ~(TrueDepth > 0)
      BY <2>2, DepthSays
    <3>2. TrueDepth \in Nat /\ (TrueDepth = 0 <=> pos < Surface)
      BY TrueDepthIs
    <3>3. TrueDepth > 0 \/ pos < Surface
      BY <3>2
    <3> QED
      BY <3>1, <3>3
  <2> QED
    BY <1>1, <2>1, <2>2, <2>4, <2>5 DEF Looked
<1>5. CASE AtTop
  <2>1. seen' = pos /\ cast'.stage \in {"cal zero", "zero?"} /\ UNCHANGED drift
    BY <1>5 DEF AtTop, To, CastShape, CastFields, still
  <2>2. cast'.stage = "cal zero" => InWater("all") = "no"
    BY <1>5 DEF AtTop, To, CastShape, CastFields
  <2>3. InWater("all") = "no" /\ probe = "good" /\ drift >= 0 => TrueDepth = 0
    BY TrueDepthIs, DepthSays DEF InWater, Level
  <2> QED
    BY <1>1, <2>1, <2>2, <2>3, TrueDepthIs DEF Level, Looked
<1>6. CASE Zero
  <2>1. cast'.stage \in {"waterline", "finish", "cwl"}
    BY <1>6 DEF Zero, To, CastShape, CastFields
  <2>2. UNCHANGED seen /\ (drift' = 0 - TrueDepth \/ UNCHANGED drift)
    BY <1>6 DEF Zero
  <2>3. drift' \in Int
    BY <2>2, TrueDepthIs DEF Level
  <2> QED
    BY <1>1, <2>1, <2>2, <2>3 DEF Level, Looked
<1> QED
  BY <1>2, <1>3, <1>4, <1>5, <1>6, AstrayBefore, AstrayMoves, AstrayCast, AstrayCalibration
     DEF StageStep, Stages, Calibration

\* The others move the sonde, and neither look nor zero.
LEMMA OthersLook ==
  ASSUME Level, Looked, WinchSteps \/ MotorRuns \/ Interference, UNCHANGED <<cast, program>>
  PROVE  Level' /\ Looked' /\ UNCHANGED drift
<1>1. UNCHANGED <<ground, probe, drift>>
  BY DEF WinchSteps, Watching, AskOwner, TakeToken, MoveSetup, ClearReason, PollReason, StartMove,
         WatchEnds, WatchHears, FinishMove, FinishForced, MotorRuns, Interference, WatchFaults, WatchRaises,
         CallbackStops, CallbackWrites, OtherTakes, OtherMoves, OtherHalts, OtherReleases, OtherWrites, world
<1>2. pos' \in Int
  <2>1. UNCHANGED pos \/ MotorRuns
    BY DEF WinchSteps, Watching, AskOwner, TakeToken, MoveSetup, ClearReason, PollReason,
       StartMove,
           WatchEnds, WatchHears, FinishMove, FinishForced, Interference, WatchFaults, WatchRaises,
           CallbackStops, CallbackWrites, OtherTakes, OtherMoves, OtherHalts, OtherReleases, OtherWrites
  <2> QED
    BY <2>1 DEF Level, MotorRuns
<1> QED
  BY <1>1, <1>2 DEF Level, Looked, program

\* ZeroedInAir: the pressure is zeroed out of the water, if the conductivity probe works
\* and nobody moved the sonde since it was looked at; and if, in the calibration, the
\* pressure does not read too little.
THEOREM ZeroedOutOfWater == CastSpec => ZeroedInAir
<1>1. CastInit => CastShape /\ Level /\ Looked
  <2> SUFFICES ASSUME CastInit
               PROVE  CastShape /\ Level /\ Looked
    OBVIOUS
  <2>1. CastShape
    BY WatchInit DEF WatchInv
  <2>2. cast.stage = "done"
    BY DEF CastInit, NoCast
  <2>3. Level
    <3>1. pos \in {0, Slowdown + 1} /\ ground \in Grounds /\ drift \in Drifts /\ seen = 0
      BY DEF CastInit, WinchInit
    <3> QED
      BY <3>1, LevelAssumption DEF Level
  <2> QED
    BY <2>1, <2>2, <2>3 DEF Looked
<1>2. CastShape /\ Level /\ Looked /\ [CastNext]_castVars
        => /\ (CastShape /\ Level /\ Looked)'
           /\ [/\ drift' # drift /\ probe = "good" /\ pos = seen
               /\ cast.stage = "cal zero" => drift >= 0
               => TrueDepth = 0]_castVars
  <2> SUFFICES ASSUME CastShape, Level, Looked, [CastNext]_castVars
               PROVE  /\ (CastShape /\ Level /\ Looked)'
                      /\ /\ drift' # drift /\ probe = "good" /\ pos = seen
                         /\ cast.stage = "cal zero" => drift >= 0
                         => TrueDepth = 0
    OBVIOUS
  <2>1. CastShape'
    BY ShapeKept
  <2>2. CASE StageStep
    <3>1. Zero \/ UNCHANGED drift
      BY <2>2, AstrayBefore, AstrayMoves, AstrayCast, AstrayCalibration
         DEF StageStep, Stages, Calibration, Astray, PreCalibrate, LastZero, AtTop, still
    <3> QED
      BY <2>1, <2>2, <3>1, StageLooks, ZeroIsDry
  <2>3. CASE (WinchSteps \/ MotorRuns \/ Interference) /\ UNCHANGED <<cast, program>>
    BY <2>1, <2>3, OthersLook
  <2>4. CASE UNCHANGED castVars
    BY <2>1, <2>4 DEF castVars, winchVars, world, Level, Looked
  <2> QED
    BY <2>2, <2>3, <2>4 DEF CastNext, ProgramSteps, StageStep
<1> QED
  BY <1>1, <1>2, PTL DEF CastSpec, ZeroedInAir
================================================================================
