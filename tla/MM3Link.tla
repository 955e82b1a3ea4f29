------------------------------ MODULE MM3Link ------------------------------
(***************************************************************************)
(* The link to the winch's motor controller (MM3.java): one command at a   *)
(* time, retried until a reply with a good checksum comes; replies carry   *)
(* nothing that tells which command they answer.  Bytes travel through a   *)
(* terminal server and a serial line: either direction may delay, spoil or *)
(* lose them but keeps their order, and a pause may cut a reply in two.    *)
(* Damage is taken to break the checksum, except that a reply of a single  *)
(* byte has always a good one.  Reads of several registers go through a    *)
(* cache that lives POLL_PERIOD; clocks are left to chance.  The adapter's *)
(* monitor and that of sendBytes() make calls one at a time; disconnect()  *)
(* stops the motor and may then close the socket under the next call.      *)
(* What the controller's registers hold is a version that only grows.      *)
(***************************************************************************)
EXTENDS Naturals, Sequences

CONSTANTS Registers,   \* registers that are read through the cache
          None,        \* not in mSavedRegisterValues
          Placeholder, \* the 0 stored before the first read
          Garbage,     \* bytes of a reply to something else
          MaxRetries,  \* DEFAULT_RETRIES
          MaxVersion,  \* bound on the changes of the registers
          MaxFaults    \* bound on losses, delays and I/O errors

ASSUME RetriesAssumption == MaxRetries \in Nat \ {0}
ASSUME VersionAssumption == MaxVersion \in Nat
ASSUME FaultsAssumption == MaxFaults \in Nat
ASSUME ValueAssumption ==
    /\ None \notin Nat /\ Placeholder \notin Nat /\ Garbage \notin Nat
    /\ None # Placeholder /\ None # Garbage

VARIABLES
    connected,   \* mState = S_CONNECTED
    closing,     \* disconnect() has stopped the motor and will close the socket
    pc,          \* where the calling thread is
    call,        \* what was called, and the registers its command names
    tries,       \* retryNum
    result,      \* how the last call ended
    value,       \* what readRegister() returned
    saved,       \* mSavedRegisterValues
    dormant,     \* cached registers last asked for more than 10 periods ago
    young,       \* the last read is less than POLL_PERIOD ago
    powered,     \* the controller is on
    toMotor,     \* commands on the way
    toHost,      \* replies on the way
    version,     \* of the controller's registers
    faults,      \* so far
    executed,    \* the command of this call has been executed (history)
    sentAt,      \* version when the last attempt was sent (history)
    readAt,      \* and when the attempt behind the last read was sent (history)
    cut,         \* a reply was cut after its first byte during this call (history)
    late         \* something was still on the way when a command was sent (history)

link == <<powered, toMotor, toHost, version>>
cache == <<saved, dormant, young>>
history == <<executed, sentAt, readAt, cut, late>>
vars == <<connected, closing, pc, call, tries, result, value, cache, link, faults, history>>

Acked == {"command", "stop"}                  \* answered by BINARY_OK
Kinds == Acked \cup {"register", "connect", "read"}
Results == {"none", "ok", "bad", "timeout", "io", "exception"}
Versions == 0..MaxVersion
Calls == [kind : Kinds, regs : SUBSET Registers]
Commands == [call : Calls, mine : BOOLEAN]
\* A reply, or a piece of one: its first byte, or something whose checksum is bad.
Forms == {"whole", "byte", "spoilt"}
Replies == [call : Calls, version : Versions, form : Forms]

Init ==
    /\ connected = FALSE
    /\ closing = FALSE
    /\ pc = "idle"
    /\ call = [kind |-> "command", regs |-> {}]
    /\ tries = 0
    /\ result = "none"
    /\ value = 0
    /\ saved = [r \in Registers |-> None]
    /\ dormant = {}
    /\ young = FALSE
    /\ powered = TRUE
    /\ toMotor = <<>>
    /\ toHost = <<>>
    /\ version = 0
    /\ faults = 0
    /\ executed = FALSE
    /\ sentAt = 0
    /\ readAt = 0
    /\ cut = FALSE
    /\ late = FALSE

TypeOK ==
    /\ connected \in BOOLEAN
    /\ closing \in BOOLEAN
    /\ pc \in {"idle", "send", "wait"}
    /\ call \in Calls
    /\ tries \in 0..MaxRetries-1
    /\ result \in Results
    /\ value \in Versions \cup {Garbage}
    /\ saved \in [Registers -> Versions \cup {None, Placeholder, Garbage}]
    /\ dormant \in SUBSET Registers
    /\ young \in BOOLEAN
    /\ powered \in BOOLEAN
    /\ toMotor \in Seq(Commands)
    /\ toHost \in Seq(Replies)
    /\ version \in Versions
    /\ faults \in 0..MaxFaults
    /\ executed \in BOOLEAN
    /\ sentAt \in Versions
    /\ readAt \in Versions
    /\ cut \in BOOLEAN
    /\ late \in BOOLEAN

\* Something is lost, delayed or fails.
Fault ==
    /\ faults < MaxFaults
    /\ faults' = faults + 1

-----------------------------------------------------------------------------
(* A call is made.                                                         *)

Start(kind, regs) ==
    /\ pc = "idle"
    /\ pc' = "send"
    /\ call' = [kind |-> kind, regs |-> regs]
    /\ tries' = 0
    /\ result' = "none"
    /\ executed' = FALSE
    /\ cut' = FALSE
    /\ UNCHANGED <<closing, value, powered, version, faults, sentAt, readAt>>

\* connect() opens a socket and reads a register to see whether somebody
\* answers.  The adapter makes a new MM3 for it, restore() uses the old one.
Connect ==
    /\ ~connected
    /\ connected' = TRUE
    /\ Start("connect", {})
    /\ toMotor' = <<>>
    /\ toHost' = <<>>
    /\ \/ /\ saved' = [r \in Registers |-> None]
          /\ dormant' = {}
          /\ young' = FALSE
          /\ late' = FALSE
       \/ UNCHANGED <<cache, late>>

\* What is on the way belongs to earlier calls from now on.
Disown ==
    /\ toMotor' = [i \in DOMAIN toMotor |-> [toMotor[i] EXCEPT !.mine = FALSE]]
    /\ UNCHANGED toHost

Uncached(kind) ==
    /\ Start(kind, {})
    /\ Disown
    /\ UNCHANGED <<connected, cache, late>>

Command == Uncached("command")         \* a move, a write, a reset
ReadRegister == Uncached("register")
Disconnect == connected /\ Uncached("stop")

\* read() first drops what nobody asked for lately.
Kept(r) == IF r \in dormant THEN None ELSE saved[r]
Hit(r) == Kept(r) # None /\ young

ReadCached(regs) ==
    /\ pc = "idle"
    /\ \A r \in regs : Hit(r)
    /\ saved' = [r \in Registers |-> Kept(r)]
    /\ dormant' = {}
    /\ call' = [kind |-> "read", regs |-> regs]
    /\ result' = "ok"
    /\ UNCHANGED <<connected, closing, pc, tries, value, young, link, faults, history>>

\* A register not in the cache gets a 0 whose access time is the epoch.
Missing(regs) == {r \in regs : Kept(r) = None}
KeepPlaceholders(regs) == dormant' = {}  \* mutant: its access time is now
AddMissing(regs) == dormant' = Missing(regs)

\* The command names every register in the cache.
Read(regs) ==
    /\ \E r \in regs : ~Hit(r)
    /\ saved' = [r \in Registers |-> IF r \in Missing(regs) THEN Placeholder ELSE Kept(r)]
    /\ AddMissing(regs)
    /\ Start("read", {r \in Registers : saved'[r] # None})
    /\ Disown
    /\ UNCHANGED <<connected, young, late>>

-----------------------------------------------------------------------------
(* sendBytes().                                                            *)

Finish(how) ==
    /\ pc' = "idle"
    /\ result' = how
    /\ connected' = (connected /\ (call.kind = "connect" => how = "ok"))
    /\ closing' = (closing \/ call.kind = "stop")

FlushNothing(arrived) ==        \* mutant: the input buffer is not flushed
    toHost' = toHost
Flush(arrived) == toHost' = SubSeq(toHost, arrived + 1, Len(toHost))

Send ==
    /\ pc = "send"
    /\ connected
    /\ \E arrived \in 0..Len(toHost) :
          /\ Flush(arrived)
          /\ late' = (late \/ arrived < Len(toHost) \/ toMotor # <<>>)
    /\ toMotor' = Append(toMotor, [call |-> call, mine |-> TRUE])
    /\ sentAt' = version
    /\ pc' = "wait"
    /\ UNCHANGED <<connected, closing, call, tries, result, value, cache, powered, version,
                   faults, executed, readAt, cut>>

\* The state is checked before the first attempt, later a closed socket throws.
IOFails ==
    /\ pc \in {"send", "wait"}
    /\ IF connected THEN Fault ELSE UNCHANGED faults
    /\ Finish("io")
    /\ UNCHANGED <<call, tries, value, cache, link, history>>

AgainForEver ==                 \* mutant: retryNum is not counted up
    pc' = "send" /\ UNCHANGED <<tries, connected, closing, result>>
Again ==
    IF tries + 1 < MaxRetries
    THEN pc' = "send" /\ tries' = tries + 1 /\ UNCHANGED <<connected, closing, result>>
    ELSE Finish("timeout") /\ UNCHANGED tries

\* Nothing comes in processing_time.
TimeOut ==
    /\ pc = "wait"
    /\ connected
    /\ IF toMotor = <<>> /\ toHost = <<>> THEN UNCHANGED faults ELSE Fault
    /\ Again
    /\ UNCHANGED <<call, value, cache, link, history>>

\* The first n replies arrive without a pause between them.
Arrive(n) ==
    /\ pc = "wait"
    /\ connected
    /\ n <= Len(toHost)
    /\ toHost' = SubSeq(toHost, n + 1, Len(toHost))
    /\ UNCHANGED <<call, powered, toMotor, version, faults, executed, sentAt, cut, late>>

AcceptAny(reply) == TRUE        \* mutant: the checksum is not verified
Accept(reply) == reply.form # "spoilt"

\* Several replies in one have no good checksum.
BadReply ==
    /\ \E n \in 1..Len(toHost) : Arrive(n) /\ (n = 1 => ~Accept(toHost[1]))
    /\ Again
    /\ UNCHANGED <<value, cache, readAt>>

-----------------------------------------------------------------------------
(* The reply is taken for the answer.  A piece of it, or one to something  *)
(* else, is too short, which throws, or is read as if it were right.       *)

Answer == toHost[1]
Answered(kinds) == Arrive(1) /\ Accept(Answer) /\ call.kind \in kinds

Matches == Answer.form = "whole" /\ Answer.call = call
Misread(v) == IF Matches THEN v ELSE Garbage

\* An acknowledgement is a single byte, and so may be what came of a longer reply.
OneByte == Answer.form = "byte" \/ Answer.call.kind \in Acked

\* write() and the moves look at the first byte.
CommandDone ==
    /\ Answered(Acked)
    /\ Finish(IF Answer.form # "spoilt" /\ Answer.call.kind \in Acked THEN "ok" ELSE "bad")
    /\ UNCHANGED <<tries, value, cache, readAt>>

RegisterDone ==
    /\ Answered({"register", "connect"})
    /\ ~OneByte
    /\ value' = Misread(Answer.version)
    /\ Finish("ok")
    /\ UNCHANGED <<tries, cache, readAt>>

\* Neglect() covers that registers nobody asked for keep their access times.
ReadDone ==
    /\ Answered({"read"})
    /\ ~OneByte
    /\ saved' = [r \in Registers |-> IF r \in call.regs THEN Misread(Answer.version) ELSE saved[r]]
    /\ dormant' = {}
    /\ young' = TRUE
    /\ readAt' = sentAt
    /\ Finish("ok")
    /\ UNCHANGED <<tries, value>>

\* What was copied before the exception stays in the cache.
TooShort ==
    /\ Answered(Kinds \ Acked)
    /\ ~Matches
    /\ \E R \in SUBSET call.regs :
          /\ R # call.regs \/ R = {}
          /\ OneByte => R = {}
          /\ saved' = [r \in Registers |-> IF r \in R THEN Garbage ELSE saved[r]]
          /\ dormant' = dormant \ R
    /\ Finish("exception")
    /\ UNCHANGED <<tries, value, young, readAt>>

-----------------------------------------------------------------------------
(* Around the caller.                                                      *)

\* disconnect() closes the socket whatever the other threads do.
Close ==
    /\ closing
    /\ connected' = FALSE
    /\ closing' = FALSE
    /\ toMotor' = <<>>
    /\ toHost' = <<>>
    /\ UNCHANGED <<pc, call, tries, result, value, cache, powered, version, faults, history>>

\* POLL_PERIOD is over.
GrowOld ==
    /\ young
    /\ young' = FALSE
    /\ UNCHANGED <<connected, closing, pc, call, tries, result, value, saved, dormant, link, faults, history>>

\* Ten periods without a request for the register.
Neglect(r) ==
    /\ saved[r] # None
    /\ dormant' = dormant \cup {r}
    /\ UNCHANGED <<connected, closing, pc, call, tries, result, value, saved, young, link, faults, history>>

\* The controller executes the next command and answers; the answer may be lost
\* or spoilt on the line, or all but its first byte may be.
Execute ==
    /\ powered
    /\ toMotor # <<>>
    /\ LET answer(form) == [call |-> Head(toMotor).call, version |-> version, form |-> form]
       IN  \/ toHost' = Append(toHost, answer("whole")) /\ UNCHANGED <<faults, cut>>
           \/ toHost' = Append(toHost, answer("spoilt")) /\ Fault /\ UNCHANGED cut
           \/ /\ Head(toMotor).call.kind \notin Acked
              /\ toHost' = Append(toHost, answer("byte"))
              /\ Fault
              /\ cut' = TRUE
           \/ UNCHANGED <<toHost, cut>> /\ Fault
    /\ executed' = (executed \/ Head(toMotor).mine)
    /\ toMotor' = Tail(toMotor)
    /\ UNCHANGED <<connected, closing, pc, call, tries, result, value, cache, powered, version, sentAt, readAt, late>>

\* More than 30 ms pass between two bytes of the next reply, which sendBytes()
\* takes for its end.
Pause ==
    /\ toHost # <<>>
    /\ Answer.form = "whole"
    /\ Answer.call.kind \notin Acked
    /\ Fault
    /\ \E piece \in {"byte", "spoilt"} :
          /\ toHost' = <<[Answer EXCEPT !.form = piece], [Answer EXCEPT !.form = "spoilt"]>> \o Tail(toHost)
          /\ cut' = (cut \/ piece = "byte")
    /\ UNCHANGED <<connected, closing, pc, call, tries, result, value, cache, powered, toMotor, version,
                   executed, sentAt, readAt, late>>

CommandLost ==
    /\ toMotor # <<>>
    /\ IF powered THEN Fault ELSE UNCHANGED faults
    /\ toMotor' = Tail(toMotor)
    /\ UNCHANGED <<connected, closing, pc, call, tries, result, value, cache, powered, toHost, version, history>>

PowerOff ==
    /\ powered
    /\ powered' = FALSE
    /\ UNCHANGED <<connected, closing, pc, call, tries, result, value, cache, toMotor, toHost, version, faults, history>>

\* The winch turns, a limit is reached, a command has had its effect.
Change ==
    /\ version < MaxVersion
    /\ version' = version + 1
    /\ UNCHANGED <<connected, closing, pc, call, tries, result, value, cache, powered, toMotor, toHost, faults, history>>

-----------------------------------------------------------------------------
SendBytes == Send \/ IOFails \/ TimeOut \/ BadReply
Returning == CommandDone \/ RegisterDone \/ ReadDone \/ TooShort
Line == Execute \/ CommandLost

Next ==
    \/ Connect \/ Command \/ ReadRegister \/ Disconnect
    \/ \E regs \in SUBSET Registers \ {{}} : ReadCached(regs) \/ Read(regs)
    \/ SendBytes \/ Returning \/ Close \/ GrowOld
    \/ \E r \in Registers : Neglect(r)
    \/ Line \/ Pause \/ PowerOff \/ Change

Spec == Init /\ [][Next]_vars

\* The calling thread is scheduled and bytes do not stay on the way for ever.
FairSpec == Spec /\ WF_vars(SendBytes \/ Returning) /\ WF_vars(Line)

-----------------------------------------------------------------------------
(* Properties.  The pauses around a command are meant to let every byte of *)
(* an earlier one arrive before the next is sent: ~late says they did.     *)

Returned(kinds) == pc = "idle" /\ result = "ok" /\ call.kind \in kinds

\* A command reported as done has been executed, whatever was lost and retried.
Acknowledged == ~late /\ Returned(Acked) => executed

\* No reply is mistaken for that to another command, and readRegister() returns
\* what the register held after its command was sent: the change of a function
\* bit starts from the register as it is.  It throws for want of bytes only when
\* its own reply was cut after the first byte, which passes for a whole one.
RegisterIsCurrent ==
    ~late => /\ result # "bad"
             /\ result = "exception" => cut /\ call.kind \notin Acked
             /\ Returned({"register"}) => value # Garbage /\ value >= sentAt

\* A read, from the cache or not, returns values that are not older than the
\* last command that read them, never the placeholder.
ReadIsCurrent ==
    ~late /\ Returned({"read"}) =>
        \A r \in call.regs : saved[r] \in Versions /\ saved[r] >= readAt

\* Every call returns, also when the controller is off.
CallsEnd == pc # "idle" ~> pc = "idle"
=============================================================================
