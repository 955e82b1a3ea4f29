------------------------------ MODULE DbBuffer ------------------------------
(***************************************************************************)
(* Db.bufferedExecuteUpdate(): every thread of a broker that logs or       *)
(* stores a record hands a statement to this synchronized method, which    *)
(* queues it and then tries to execute the whole queue, oldest first.  A   *)
(* statement leaves the queue after it was executed, so the queue buffers  *)
(* what cannot be stored while the connection is down.  The method is      *)
(* synchronized, so one call runs at a time; statements are numbered in    *)
(* the order the calls come.                                               *)
(* The database is external: the server refuses the statements in Bad, and *)
(* the connection may die at any moment, before or after a statement was   *)
(* committed; the driver then reports one of the two messages the code     *)
(* looks for, or another one.                                              *)
(***************************************************************************)
EXTENDS Naturals, Sequences

CONSTANTS MaxStatements,  \* bound on the statements handed over
          Bad,            \* the statements the server refuses
          MaxFaults       \* bound on broken connections

ASSUME StatementsAssumption == MaxStatements \in Nat
ASSUME BadAssumption == Bad \subseteq 1..MaxStatements
ASSUME FaultsAssumption == MaxFaults \in Nat

VARIABLES
    mPsQueue,   \* the queue
    submitted,  \* number of statements handed over
    thrown,     \* statements removed because of an exception
    misread,    \* those of them whose exception was a broken connection's
    rows,       \* what the server has committed, oldest first
    up,         \* mConn works
    faults,     \* broken connections so far
    pc          \* where the current call is

vars == <<mPsQueue, submitted, thrown, misread, rows, up, faults, pc>>
removed == <<thrown, misread>>
database == <<rows, up, faults>>

Statements == 1..MaxStatements

TypeOK ==
    /\ mPsQueue \in Seq(Statements)
    /\ submitted \in 0..MaxStatements
    /\ thrown \subseteq Statements
    /\ misread \subseteq thrown
    /\ rows \in Seq(Statements)
    /\ up \in BOOLEAN
    /\ faults \in 0..MaxFaults
    /\ pc \in {"idle", "drain", "reconnect", "redrain"}

Init ==
    /\ mPsQueue = <<>>
    /\ submitted = 0
    /\ thrown = {}
    /\ misread = {}
    /\ rows = <<>>
    /\ up = TRUE
    /\ faults = 0
    /\ pc = "idle"

-----------------------------------------------------------------------------
(* The database.                                                           *)

ConnectionDies ==
    /\ up
    /\ faults < MaxFaults
    /\ faults' = faults + 1
    /\ up' = FALSE

Dies ==
    /\ ConnectionDies
    /\ UNCHANGED <<mPsQueue, submitted, removed, rows, pc>>

Stored ==
    /\ up
    /\ Head(mPsQueue) \notin Bad
    /\ rows' = Append(rows, Head(mPsQueue))
    /\ UNCHANGED <<up, faults>>

\* Also a statement with an argument createPreparedStatement() cannot set.
Refused ==
    /\ up
    /\ Head(mPsQueue) \in Bad
    /\ UNCHANGED database

\* An I/O error.  The reply may be what was lost, not the statement.
Broken ==
    \/ /\ ConnectionDies
       /\ \/ rows' = rows
          \/ Head(mPsQueue) \notin Bad /\ rows' = Append(rows, Head(mPsQueue))
    \/ /\ ~up
       /\ UNCHANGED database

-----------------------------------------------------------------------------
(* bufferedExecuteUpdate().                                                *)

Submit ==
    /\ pc = "idle"
    /\ submitted < MaxStatements
    /\ submitted' = submitted + 1
    /\ mPsQueue' = Append(mPsQueue, submitted + 1)
    /\ pc' = "drain"
    /\ UNCHANGED <<removed, database>>

ExecuteLosing ==                \* mutant: the statement leaves the queue before it is executed
    /\ pc \in {"drain", "redrain"}
    /\ mPsQueue # <<>>
    /\ Stored \/ Broken
    /\ mPsQueue' = Tail(mPsQueue)
    /\ UNCHANGED <<submitted, removed, pc>>

ExecuteNewest ==                \* mutant: the newest statement goes first
    /\ pc \in {"drain", "redrain"}
    /\ mPsQueue # <<>>
    /\ up
    /\ mPsQueue[Len(mPsQueue)] \notin Bad
    /\ rows' = Append(rows, mPsQueue[Len(mPsQueue)])
    /\ mPsQueue' = SubSeq(mPsQueue, 1, Len(mPsQueue) - 1)
    /\ UNCHANGED <<submitted, removed, up, faults, pc>>

ExecuteKeeping ==               \* mutant: the statement stays in the queue
    /\ pc \in {"drain", "redrain"}
    /\ mPsQueue # <<>>
    /\ Len(rows) < 2 * MaxStatements + MaxFaults
    /\ Stored
    /\ UNCHANGED <<mPsQueue, submitted, removed, pc>>

\* The loop of either drain: execute the oldest statement, then remove it.
Execute ==
    /\ pc \in {"drain", "redrain"}
    /\ mPsQueue # <<>>
    /\ Stored
    /\ mPsQueue' = Tail(mPsQueue)
    /\ UNCHANGED <<submitted, removed, pc>>

Done ==
    /\ pc \in {"drain", "redrain"}
    /\ mPsQueue = <<>>
    /\ pc' = "idle"
    /\ UNCHANGED <<mPsQueue, submitted, removed, database>>

DrainBroken ==
    /\ pc = "drain"
    /\ mPsQueue # <<>>
    /\ Broken
    /\ pc' = "reconnect"
    /\ UNCHANGED <<mPsQueue, submitted, removed>>

\* Any other exception removes the statement and goes to the caller, whose own
\* statement may be waiting behind it.  It need not be the statement's fault: a
\* broken connection may be reported in other words than the code looks for.
DrainThrows ==
    /\ pc = "drain"
    /\ mPsQueue # <<>>
    /\ \/ Refused /\ UNCHANGED misread
       \/ Broken /\ misread' = misread \cup {Head(mPsQueue)}
    /\ thrown' = thrown \cup {Head(mPsQueue)}
    /\ mPsQueue' = Tail(mPsQueue)
    /\ pc' = "idle"
    /\ UNCHANGED submitted

Reconnect ==
    /\ pc = "reconnect"
    /\ \/ up' = TRUE /\ pc' = "redrain"
       \/ up' = FALSE /\ pc' = "idle"
    /\ UNCHANGED <<mPsQueue, submitted, removed, rows, faults>>

\* Every exception of the second drain is swallowed and the queue kept.
RedrainFails ==
    /\ pc = "redrain"
    /\ mPsQueue # <<>>
    /\ Refused \/ Broken
    /\ pc' = "idle"
    /\ UNCHANGED <<mPsQueue, submitted, removed>>

-----------------------------------------------------------------------------
Call == Execute \/ Done \/ DrainBroken \/ DrainThrows \/ Reconnect \/ RedrainFails

Next == Submit \/ Call \/ Dies

Spec == Init /\ [][Next]_vars

-----------------------------------------------------------------------------
(* Properties.                                                             *)

Among(x, seq) == \E i \in DOMAIN seq : seq[i] = x

\* Every statement ever handed over is in the table, in the queue, or was thrown
\* for, because the server refused it or because its connection broke and the
\* driver said so in words the code does not look for.  A connection error that
\* is recognised drops nothing, however often it comes and in whichever drain.
NothingLost ==
    \A x \in 1..submitted :
        Among(x, rows) \/ Among(x, mPsQueue) \/ x \in thrown \cap (Bad \cup misread)

\* The table is filled in the order of the calls, broken connections or not: a
\* row is never older than the one before it, and the queue holds nothing
\* older than the last row.
InOrder ==
    /\ \A i, j \in DOMAIN rows : i < j => rows[i] <= rows[j]
    /\ \A i \in DOMAIN rows, j \in DOMAIN mPsQueue : rows[i] <= mPsQueue[j]

\* A statement is stored a second time only for a connection that broke: there
\* are no more rows than statements dealt with and connections lost.
FewDuplicates == Len(rows) <= submitted + faults
=============================================================================
