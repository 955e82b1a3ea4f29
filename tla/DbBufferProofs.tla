--------------------------- MODULE DbBufferProofs ---------------------------
(***************************************************************************)
(* What DbBuffer promises, for any number of statements, any set of bad    *)
(* ones and any number of broken connections.  The argument: the queue is  *)
(* always the run of the newest statements, so "dealt with" is one number, *)
(* and the table never runs ahead of the head of the queue.                *)
(***************************************************************************)
EXTENDS DbBuffer, TLAPS

\* The statements 1..Dealt have left the queue.
Dealt == submitted - Len(mPsQueue)

QueueIsNewest ==
    /\ Dealt \in Nat
    /\ \A i \in 1..Len(mPsQueue) : mPsQueue[i] = Dealt + i

RowsSorted == \A i, j \in 1..Len(rows) : i < j => rows[i] <= rows[j]

RowsBehind == \A i \in 1..Len(rows) : rows[i] <= Dealt + 1 /\ rows[i] <= submitted

DealtStored == \A x \in 1..Dealt : Among(x, rows) \/ x \in thrown \cap (Bad \cup misread)

DealtCount == Len(rows) <= Dealt + faults

IInv ==
    TypeOK /\ QueueIsNewest /\ RowsSorted /\ RowsBehind /\ DealtStored /\ DealtCount

USE StatementsAssumption, BadAssumption, FaultsAssumption DEF Statements, removed

\* The head of a queue that is not empty is the first statement not dealt with.
LEMMA HeadIsNext ==
    ASSUME IInv, mPsQueue # <<>>
    PROVE  /\ Head(mPsQueue) = Dealt + 1
           /\ Head(mPsQueue) \in Statements
           /\ Dealt + 1 <= submitted
           /\ Tail(mPsQueue) \in Seq(Statements)
           /\ Len(Tail(mPsQueue)) = Len(mPsQueue) - 1
           /\ \A i \in 1..Len(Tail(mPsQueue)) : Tail(mPsQueue)[i] = mPsQueue[i + 1]
  BY DEF IInv, TypeOK, QueueIsNewest, Dealt

LEMMA LastOrBefore ==
    ASSUME NEW n \in Nat, NEW k, NEW j \in 1..k, k = n + 1
    PROVE  j \in 1..n \/ j = n + 1
  OBVIOUS

\* Appending the head of the queue to the table keeps the table in order.
LEMMA StoreHead ==
    ASSUME IInv, mPsQueue # <<>>, rows' = Append(rows, Head(mPsQueue))
    PROVE  /\ rows' \in Seq(Statements)
           /\ Len(rows') = Len(rows) + 1
           /\ \A x : Among(x, rows) => Among(x, rows')
           /\ Among(Dealt + 1, rows')
           /\ RowsSorted'
           /\ \A i \in 1..Len(rows') : rows'[i] <= Dealt + 1
<1> rows \in Seq(Statements) /\ Dealt \in Nat
  BY DEF IInv, TypeOK, QueueIsNewest
<1> Head(mPsQueue) = Dealt + 1 /\ Dealt + 1 \in Statements
  BY HeadIsNext
<1>1. /\ rows' \in Seq(Statements)
      /\ Len(rows') = Len(rows) + 1
      /\ \A i \in 1..Len(rows) : rows'[i] = rows[i]
      /\ rows'[Len(rows) + 1] = Dealt + 1
  OBVIOUS
<1>2. /\ \A x : Among(x, rows) => Among(x, rows')
      /\ Among(Dealt + 1, rows')
  BY <1>1 DEF Among
<1>3. \A i \in 1..Len(rows') : rows'[i] <= Dealt + 1
  BY <1>1 DEF IInv, RowsBehind
<1>4. RowsSorted'
  <2> SUFFICES ASSUME NEW i \in 1..Len(rows'), NEW j \in 1..Len(rows'), i < j
               PROVE  rows'[i] <= rows'[j]
    BY DEF RowsSorted
  <2>1. i \in 1..Len(rows)
    BY <1>1
  <2>2. CASE j \in 1..Len(rows)
    BY <1>1, <2>1, <2>2 DEF IInv, RowsSorted
  <2>3. CASE j = Len(rows) + 1
    BY <1>1, <1>3, <2>3
  <2>4. j \in 1..Len(rows) \/ j = Len(rows) + 1
    <3>1. Len(rows') = Len(rows) + 1 /\ Len(rows) \in Nat
      BY <1>1
    <3> QED
      BY <3>1, LastOrBefore, Zenon
  <2> QED
    BY <2>2, <2>3, <2>4
<1> QED
  BY <1>1, <1>2, <1>3, <1>4

\* A step that removes the head, having stored it or found it bad.
LEMMA RemoveHead ==
    ASSUME IInv, mPsQueue # <<>>,
           mPsQueue' = Tail(mPsQueue), UNCHANGED submitted,
           TypeOK', RowsSorted',
           \A i \in 1..Len(rows') : rows'[i] <= Dealt + 1,
           \A x : Among(x, rows) => Among(x, rows'),
           thrown \subseteq thrown', misread \subseteq misread',
           Among(Dealt + 1, rows') \/ Dealt + 1 \in thrown' \cap (Bad \cup misread'),
           Len(rows') <= Dealt + 1 + faults'
    PROVE  IInv'
<1>1. Dealt' = Dealt + 1 /\ Dealt \in Nat /\ Dealt + 1 <= submitted
  BY HeadIsNext DEF Dealt, IInv, TypeOK, QueueIsNewest
<1>2. QueueIsNewest'
  BY <1>1, HeadIsNext DEF IInv, TypeOK, QueueIsNewest
<1>3. RowsBehind'
  BY <1>1 DEF RowsBehind, TypeOK
<1>4. DealtStored'
  BY <1>1 DEF IInv, DealtStored
<1>5. DealtCount'
  BY <1>1 DEF DealtCount
<1> QED
  BY <1>2, <1>3, <1>4, <1>5 DEF IInv

\* A step that leaves the queue alone and at most stores its head, in which
\* case a connection breaks.
LEMMA KeepQueue ==
    ASSUME IInv, UNCHANGED <<mPsQueue, submitted, removed>>,
           up' \in BOOLEAN, faults' \in 0..MaxFaults,
           pc' \in {"idle", "drain", "reconnect", "redrain"},
           \/ rows' = rows /\ faults' >= faults
           \/ /\ mPsQueue # <<>>
              /\ rows' = Append(rows, Head(mPsQueue))
              /\ faults' = faults + 1
    PROVE  IInv'
<1> Dealt' = Dealt /\ Dealt \in Nat
  BY DEF Dealt, IInv, QueueIsNewest
<1>1. CASE rows' = rows /\ faults' >= faults
  <2>1. TypeOK' /\ QueueIsNewest' /\ RowsSorted' /\ RowsBehind' /\ DealtStored'
    BY <1>1 DEF IInv, TypeOK, QueueIsNewest, RowsSorted, RowsBehind, DealtStored, Among
  <2>2. DealtCount'
    BY <1>1 DEF IInv, TypeOK, DealtCount
  <2> QED
    BY <2>1, <2>2 DEF IInv
<1>2. CASE mPsQueue # <<>> /\ rows' = Append(rows, Head(mPsQueue)) /\ faults' = faults + 1
  <2>1. TypeOK' /\ QueueIsNewest' /\ RowsSorted'
    BY <1>2, StoreHead DEF IInv, TypeOK, QueueIsNewest
  <2>2. RowsBehind'
    BY <1>2, StoreHead, HeadIsNext DEF RowsBehind, IInv, TypeOK
  <2>3. DealtStored'
    BY <1>2, StoreHead DEF IInv, DealtStored
  <2>4. DealtCount'
    BY <1>2, StoreHead DEF IInv, TypeOK, DealtCount
  <2> QED
    BY <2>1, <2>2, <2>3, <2>4 DEF IInv
<1> QED
  BY <1>1, <1>2

LEMMA InitIInv == Init => IInv
  BY DEF Init, IInv, TypeOK, QueueIsNewest, Dealt, RowsSorted, RowsBehind, DealtStored,
         DealtCount

LEMMA SubmitKeeps == IInv /\ Submit => IInv'
<1> SUFFICES ASSUME IInv, Submit PROVE IInv'
  OBVIOUS
<1>1. TypeOK'
  BY DEF IInv, TypeOK, Submit, database
<1>2. /\ mPsQueue \in Seq(Statements) /\ submitted \in Nat
      /\ submitted' = submitted + 1
      /\ mPsQueue' = Append(mPsQueue, submitted + 1)
      /\ UNCHANGED <<thrown, misread, rows, faults>>
      /\ Dealt \in Nat
  BY DEF IInv, TypeOK, Submit, database, QueueIsNewest
<1>3. Len(mPsQueue') = Len(mPsQueue) + 1 /\ Dealt' = Dealt
  BY <1>2 DEF Dealt
<1>4. QueueIsNewest'
  BY <1>2, <1>3 DEF IInv, QueueIsNewest, Dealt
<1>5. RowsSorted' /\ DealtStored' /\ DealtCount'
  BY <1>2, <1>3 DEF IInv, RowsSorted, DealtStored, DealtCount, Among
<1>6. RowsBehind'
  BY <1>2, <1>3 DEF IInv, RowsBehind, TypeOK
<1> QED
  BY <1>1, <1>4, <1>5, <1>6 DEF IInv

LEMMA BrokenKeeps ==
    ASSUME IInv, mPsQueue # <<>>, Broken, UNCHANGED <<mPsQueue, submitted, removed>>,
           pc' \in {"idle", "drain", "reconnect", "redrain"}
    PROVE  IInv'
<1> faults \in 0..MaxFaults /\ up \in BOOLEAN
  BY DEF IInv, TypeOK
<1>1. CASE ~up /\ UNCHANGED database
  <2>1. rows' = rows /\ faults' = faults /\ up' = up
    BY <1>1 DEF database
  <2> QED
    BY <2>1, KeepQueue
<1>2. CASE /\ ConnectionDies
           /\ \/ rows' = rows
              \/ Head(mPsQueue) \notin Bad /\ rows' = Append(rows, Head(mPsQueue))
  <2>1. up' = FALSE /\ faults' = faults + 1 /\ faults' \in 0..MaxFaults /\ faults' >= faults
    BY <1>2 DEF ConnectionDies
  <2>2. CASE rows' = rows
    BY <2>1, <2>2, KeepQueue
  <2>3. CASE rows' = Append(rows, Head(mPsQueue))
    BY <2>1, <2>3, KeepQueue
  <2> QED
    BY <1>2, <2>2, <2>3
<1> QED
  BY <1>1, <1>2 DEF Broken

LEMMA NextKeeps == IInv /\ [Next]_vars => IInv'
<1> SUFFICES ASSUME IInv, [Next]_vars PROVE IInv'
  OBVIOUS
<1>1. CASE Submit
  BY <1>1, SubmitKeeps
<1>2. CASE Execute
  <2>1. /\ mPsQueue # <<>> /\ mPsQueue' = Tail(mPsQueue)
        /\ UNCHANGED <<submitted, thrown, misread, pc, up, faults>>
        /\ rows' = Append(rows, Head(mPsQueue))
    BY <1>2 DEF Execute, Stored
  <2>2. TypeOK'
    BY <2>1, StoreHead, HeadIsNext DEF IInv, TypeOK
  <2>3. Len(rows') <= Dealt + 1 + faults'
    BY <2>1, StoreHead DEF IInv, DealtCount, TypeOK, QueueIsNewest
  <2> QED
    BY <2>1, <2>2, <2>3, StoreHead, RemoveHead
<1>3. CASE Done
  BY <1>3, KeepQueue DEF Done, database, IInv, TypeOK
<1>4. CASE DrainBroken
  BY <1>4, BrokenKeeps DEF DrainBroken
<1>5. CASE DrainThrows
  <2>1. /\ mPsQueue # <<>> /\ mPsQueue' = Tail(mPsQueue)
        /\ submitted' = submitted
        /\ Head(mPsQueue) \in thrown'
        /\ thrown' = thrown \cup {Head(mPsQueue)}
        /\ misread' \in {misread, misread \cup {Head(mPsQueue)}}
        /\ Head(mPsQueue) \in Bad \cup misread'
        /\ pc' = "idle"
    BY <1>5 DEF DrainThrows, Refused
  <2>2. /\ up' \in BOOLEAN /\ faults' \in 0..MaxFaults
        /\ \/ rows' = rows /\ faults' >= faults
           \/ rows' = Append(rows, Head(mPsQueue)) /\ faults' = faults + 1
    <3> up \in BOOLEAN /\ faults \in 0..MaxFaults
      BY DEF IInv, TypeOK
    <3>1. CASE UNCHANGED database
      BY <3>1 DEF database
    <3>2. CASE ConnectionDies /\ (rows' = rows \/ rows' = Append(rows, Head(mPsQueue)))
      <4>1. up' = FALSE /\ faults' = faults + 1 /\ faults' \in 0..MaxFaults /\ faults' >= faults
        BY <3>2 DEF ConnectionDies
      <4> QED
        BY <3>2, <4>1, Zenon
    <3> QED
      BY <1>5, <3>1, <3>2 DEF DrainThrows, Refused, Broken
  <2>3. /\ rows' \in Seq(Statements)
        /\ RowsSorted' /\ \A i \in 1..Len(rows') : rows'[i] <= Dealt + 1
        /\ \A x : Among(x, rows) => Among(x, rows')
        /\ Len(rows') <= Len(rows) + (faults' - faults)
    <3>1. CASE rows' = rows /\ faults' >= faults
      BY <2>2, <3>1 DEF IInv, TypeOK, RowsSorted, RowsBehind, Among
    <3>2. CASE rows' = Append(rows, Head(mPsQueue)) /\ faults' = faults + 1
      BY <2>1, <2>2, <3>2, StoreHead DEF IInv, TypeOK
    <3> QED
      BY <2>2, <3>1, <3>2
  <2>4. TypeOK'
    BY <2>1, <2>2, <2>3, HeadIsNext DEF IInv, TypeOK
  <2>5. Len(rows') <= Dealt + 1 + faults'
    BY <2>2, <2>3 DEF IInv, DealtCount, TypeOK, QueueIsNewest
  <2>6. Dealt + 1 \in thrown' \cap (Bad \cup misread')
    BY <2>1, HeadIsNext
  <2> QED
    BY <2>1, <2>3, <2>4, <2>5, <2>6, RemoveHead
<1>6. CASE Reconnect
  <2>1. /\ UNCHANGED <<mPsQueue, submitted, removed, rows, faults>>
        /\ up' \in BOOLEAN
        /\ pc' \in {"idle", "drain", "reconnect", "redrain"}
    BY <1>6 DEF Reconnect
  <2>2. rows' = rows /\ faults' \in 0..MaxFaults /\ faults' >= faults
    BY <2>1 DEF IInv, TypeOK
  <2> QED
    BY <2>1, <2>2, KeepQueue
<1>7. CASE RedrainFails
  <2>1. CASE Refused
    BY <1>7, <2>1, KeepQueue DEF RedrainFails, Refused, database, IInv, TypeOK
  <2>2. CASE Broken
    BY <1>7, <2>2, BrokenKeeps DEF RedrainFails
  <2> QED
    BY <1>7, <2>1, <2>2 DEF RedrainFails
<1>8. CASE Dies
  <2>1. /\ UNCHANGED <<mPsQueue, submitted, removed, rows, pc>>
        /\ up' \in BOOLEAN
        /\ faults < MaxFaults /\ faults' = faults + 1
    BY <1>8 DEF Dies, ConnectionDies
  <2>2. /\ rows' = rows /\ faults' \in 0..MaxFaults /\ faults' >= faults
        /\ pc' \in {"idle", "drain", "reconnect", "redrain"}
    BY <2>1 DEF IInv, TypeOK
  <2> QED
    BY <2>1, <2>2, KeepQueue
<1>9. CASE UNCHANGED vars
  BY <1>9, KeepQueue DEF vars, IInv, TypeOK
<1> QED
  BY <1>1, <1>2, <1>3, <1>4, <1>5, <1>6, <1>7, <1>8, <1>9 DEF Next, Call

\* The strengthened invariant holds of bufferedExecuteUpdate() throughout.
THEOREM Invariance == Spec => []IInv
  BY InitIInv, NextKeeps, PTL DEF Spec

-----------------------------------------------------------------------------
LEMMA IInvImplies == IInv => NothingLost /\ InOrder /\ FewDuplicates
<1> SUFFICES ASSUME IInv PROVE NothingLost /\ InOrder /\ FewDuplicates
  OBVIOUS
<1> /\ mPsQueue \in Seq(Statements) /\ rows \in Seq(Statements)
    /\ submitted \in Nat /\ faults \in Nat /\ Dealt \in Nat
  BY DEF IInv, TypeOK, QueueIsNewest
<1>1. ASSUME NEW x \in 1..submitted, x \notin 1..Dealt
      PROVE  Among(x, mPsQueue)
  <2>1. /\ x - Dealt \in 1..Len(mPsQueue)
        /\ mPsQueue[x - Dealt] = x
    <3>1. Dealt + Len(mPsQueue) = submitted
      BY DEF Dealt
    <3>2. x - Dealt \in 1..Len(mPsQueue)
      BY <1>1, <3>1
    <3>3. mPsQueue[x - Dealt] = Dealt + (x - Dealt)
      BY <3>2 DEF IInv, QueueIsNewest
    <3> QED
      BY <3>2, <3>3, <1>1
  <2> QED
    BY <2>1 DEF Among
<1>2. NothingLost
  BY <1>1 DEF NothingLost, IInv, DealtStored
<1>3. \A i \in DOMAIN rows, j \in DOMAIN mPsQueue : rows[i] <= mPsQueue[j]
  <2>1. \A i \in 1..Len(rows) : rows[i] \in Nat /\ rows[i] <= Dealt + 1
    BY DEF IInv, RowsBehind
  <2>2. \A j \in 1..Len(mPsQueue) : mPsQueue[j] = Dealt + j
    BY DEF IInv, QueueIsNewest
  <2> TAKE i \in DOMAIN rows, j \in DOMAIN mPsQueue
  <2>3. i \in 1..Len(rows) /\ j \in 1..Len(mPsQueue)
    OBVIOUS
  <2>4. rows[i] \in Nat /\ rows[i] <= Dealt + 1 /\ mPsQueue[j] = Dealt + j
    BY <2>1, <2>2, <2>3
  <2> QED
    BY <2>3, <2>4
<1>4. InOrder
  <2>1. DOMAIN rows = 1..Len(rows)
    BY DEF IInv, TypeOK
  <2>2. \A i, j \in DOMAIN rows : i < j => rows[i] <= rows[j]
    BY <2>1 DEF IInv, RowsSorted
  <2> QED
    BY <1>3, <2>2 DEF InOrder
<1>5. FewDuplicates
  BY DEF FewDuplicates, IInv, DealtCount, Dealt
<1> QED
  BY <1>2, <1>4, <1>5

\* No exception path of bufferedExecuteUpdate() drops a statement the server would
\* have taken, but the one that takes a connection error for the statement's fault.
THEOREM BufferNothingLost == Spec => []NothingLost
  BY Invariance, IInvImplies, PTL

\* The table is filled in the order of the calls.
THEOREM BufferInOrder == Spec => []InOrder
  BY Invariance, IInvImplies, PTL

\* Only a broken connection lets a statement be stored twice.
THEOREM BufferFewDuplicates == Spec => []FewDuplicates
  BY Invariance, IInvImplies, PTL
=============================================================================
