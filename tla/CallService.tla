---------------------------- MODULE CallService ----------------------------
(***************************************************************************)
(* What a connection to a broker promises those who call it: the broker    *)
(* executes a request once or not at all, as its caller made it; a call    *)
(* ends with the answer to its own request, which then was executed, or    *)
(* with none, which leaves open whether it was or will be.                 *)
(***************************************************************************)
EXTENDS Naturals, Sequences

CONSTANTS Callers,      \* those who call
          Request(_)    \* the request of the call of a number

VARIABLES made,         \* the number of calls so far
          at,           \* the number of the call each caller is in, 0 outside
          executed,     \* the requests the broker has executed, in order
          result        \* {} or the answer to the last call of each caller

IsExecuted(n) == \E i \in DOMAIN executed : executed[i] = Request(n)

Init ==
    /\ made = 0 /\ at = [c \in Callers |-> 0]
    /\ executed = <<>> /\ result = [c \in Callers |-> {}]

Make(c) ==
    /\ at[c] = 0
    /\ made' = made + 1
    /\ at' = [at EXCEPT ![c] = made + 1]
    /\ result' = [result EXCEPT ![c] = {}]
    /\ UNCHANGED executed

\* Also after the caller has given up.
Execute(n) ==
    /\ n \in 1..made /\ ~IsExecuted(n)
    /\ executed' = Append(executed, Request(n))
    /\ UNCHANGED <<made, at, result>>

Answer(c) ==
    /\ at[c] # 0 /\ IsExecuted(at[c])
    /\ result' = [result EXCEPT ![c] = {Request(at[c])}]
    /\ at' = [at EXCEPT ![c] = 0]
    /\ UNCHANGED <<made, executed>>

GiveUp(c) ==
    /\ at[c] # 0
    /\ at' = [at EXCEPT ![c] = 0]
    /\ UNCHANGED <<made, executed, result>>

Next ==
    \/ \E c \in Callers : Make(c) \/ Answer(c) \/ GiveUp(c)
    \/ \E n \in 1..made : Execute(n)

vars == <<made, at, executed, result>>
Spec == Init /\ [][Next]_vars
=============================================================================
