------------------------- MODULE ControlTokenProofs -------------------------
(***************************************************************************)
(* Proofs about ControlToken for any set of handlers.                      *)
(***************************************************************************)
EXTENDS ControlToken, TLAPS

\* TypeOK is preserved by every step of the class, serial or not.
LEMMA TypeOKStep == TypeOK /\ [Next]_vars => TypeOK'
<1> USE NoHandlerAssumption
<1> SUFFICES ASSUME TypeOK, [Next]_vars PROVE TypeOK'
    OBVIOUS
<1> USE DEF TypeOK, Places, At, Goto, token, session
<1>1. ASSUME NEW h \in Handlers, Acquiring(h) PROVE TypeOK'
    BY <1>1 DEF Acquiring, AcquireInUse, AcquireEquals, ForceInUse, ForceTake,
                ForceTakeThrows, AcquireGive, Take, Give
<1>2. ASSUME NEW h \in Handlers, Releasing(h) PROVE TypeOK'
    BY <1>2 DEF Releasing, ReleaseEquals, ReleaseTake, ReleaseTakeThrows, Take
<1>3. ASSUME NEW h \in Handlers, Leaving(h) PROVE TypeOK'
    BY <1>3 DEF Leaving, LeaveLoop, UnregisterCheck, UnregisterTake,
                UnregisterTakeThrows, UnregisterRemove, Take
<1>4. ASSUME NEW h \in Handlers, Start(h) \/ EndCommand(h) PROVE TypeOK'
    BY <1>4 DEF Start, EndCommand
<1>5. ASSUME NEW h \in Handlers, Client(h) PROVE TypeOK'
    BY <1>5 DEF Client, Accept, Hangup, Vanish, WriteFails, RequestAcquire, RequestRelease,
                RequestCommand, RequestRestricted
<1>6. CASE UNCHANGED vars
    BY <1>6 DEF vars
<1> QED
    BY <1>1, <1>2, <1>3, <1>4, <1>5, <1>6 DEF Next, Thread

\* Every variable keeps its type in every behaviour of the class.
THEOREM TypeCorrect == Spec => []TypeOK
<1>1. Init => TypeOK
    BY DEF Init, TypeOK, Places
<1> QED
    BY <1>1, TypeOKStep, PTL DEF Spec

-----------------------------------------------------------------------------
(* The owner, the flags and the departed, under every interleaving.        *)

\* The owner's flag is up and the name is the owner's, step by step.
LEMMA OwnerStep == TypeOK /\ OwnerHoldsFlag /\ [Next]_vars => OwnerHoldsFlag'
<1> USE NoHandlerAssumption DEF TypeOK, OwnerHoldsFlag
<1> SUFFICES ASSUME TypeOK, OwnerHoldsFlag, [Next]_vars PROVE OwnerHoldsFlag'
    OBVIOUS
<1>1. ASSUME UNCHANGED token PROVE OwnerHoldsFlag'
    BY <1>1 DEF token
<1>2. ASSUME Take PROVE OwnerHoldsFlag'
    BY <1>2 DEF Take
<1>3. ASSUME NEW h \in Handlers, Give(h) PROVE OwnerHoldsFlag'
    BY <1>3 DEF Give
<1>4. ASSUME NEW h \in Handlers, Thread(h) PROVE OwnerHoldsFlag'
    BY <1>1, <1>2, <1>3, <1>4
    DEF Thread, Acquiring, Releasing, Leaving, Start, EndCommand, AcquireInUse,
        AcquireEquals, ForceInUse, ForceTake, ForceTakeThrows, AcquireGive,
        ReleaseEquals, ReleaseTake, ReleaseTakeThrows, LeaveLoop, UnregisterCheck,
        UnregisterTake, UnregisterTakeThrows, UnregisterRemove
<1>5. ASSUME NEW h \in Handlers, Client(h) PROVE OwnerHoldsFlag'
    BY <1>1, <1>5 DEF Client, Accept, Hangup, Vanish, WriteFails, RequestAcquire, RequestRelease,
                      RequestCommand, RequestRestricted
<1>6. CASE UNCHANGED vars
    BY <1>1, <1>6 DEF vars, token
<1> QED
    BY <1>4, <1>5, <1>6 DEF Next

\* The owner always holds its flag: take() and give() keep the two copies of
\* the token together whatever interleaves.
THEOREM OwnerFlag == Spec => []OwnerHoldsFlag
<1>1. Init => OwnerHoldsFlag
    BY DEF Init, OwnerHoldsFlag
<1> QED
    BY <1>1, TypeCorrect, OwnerStep, PTL DEF Spec

\* A handler outside the acquire path never becomes the owner.
LEMMA DepartedStep ==
    TypeOK /\ OwnerHoldsFlag /\ DepartedNeverOwns /\ [Next]_vars => DepartedNeverOwns'
<1> USE NoHandlerAssumption DEF TypeOK, OwnerHoldsFlag, DepartedNeverOwns, At, Goto, token
<1> SUFFICES ASSUME TypeOK, OwnerHoldsFlag, DepartedNeverOwns, [Next]_vars
             PROVE  DepartedNeverOwns'
    OBVIOUS
<1>1. ASSUME NEW h \in Handlers, Acquiring(h) PROVE DepartedNeverOwns'
    BY <1>1 DEF Acquiring, AcquireInUse, AcquireEquals, ForceInUse, ForceTake,
                ForceTakeThrows, AcquireGive, Take, Give
<1>2. ASSUME NEW h \in Handlers, Releasing(h) PROVE DepartedNeverOwns'
    BY <1>2 DEF Releasing, ReleaseEquals, ReleaseTake, ReleaseTakeThrows, Take
<1>3. ASSUME NEW h \in Handlers, Leaving(h) PROVE DepartedNeverOwns'
    <2>1. CASE LeaveLoop(h) \/ UnregisterCheck(h)
        BY <2>1 DEF LeaveLoop, UnregisterCheck
    <2>2. CASE UnregisterTake(h) \/ UnregisterTakeThrows(h) \/ UnregisterRemove(h)
        BY <2>2 DEF UnregisterTake, UnregisterTakeThrows, UnregisterRemove, Take
    <2> QED BY <1>3, <2>1, <2>2 DEF Leaving
<1>4. ASSUME NEW h \in Handlers, Start(h) \/ EndCommand(h) PROVE DepartedNeverOwns'
    BY <1>4 DEF Start, EndCommand
<1>5. ASSUME NEW h \in Handlers, Client(h) PROVE DepartedNeverOwns'
    BY <1>5 DEF Client, Accept, Hangup, Vanish, WriteFails, RequestAcquire, RequestRelease,
                RequestCommand, RequestRestricted
<1>6. CASE UNCHANGED vars
    BY <1>6 DEF vars
<1> QED
    BY <1>1, <1>2, <1>3, <1>4, <1>5, <1>6 DEF Next, Thread

\* A client that is gone never leaves the token taken, for any number of
\* clients and under every interleaving of acquire, release and unregister.
THEOREM DepartedSafe == Spec => []DepartedNeverOwns
<1>1. Init => DepartedNeverOwns
    BY NoHandlerAssumption DEF Init, DepartedNeverOwns
<1> QED
    BY <1>1, TypeCorrect, OwnerFlag, DepartedStep, PTL DEF Spec

-----------------------------------------------------------------------------
(* The class under serial token calls.                                     *)

\* What holds between the steps of the one token call in progress.
CallFacts ==
    \A h \in Handlers :
        /\ At(h, "give") => owner \in {NoHandler, h}
        /\ At(h, "forceTake") => owner # NoHandler
        /\ pc[h] \in {"relTake", "unregTake"} => owner = h
        /\ pc[h] \in {"forceInUse", "forceTake"} => force[h]
        /\ force[h] => h \in MayForce

SerialInv == TypeOK /\ OwnerHoldsFlag /\ Serial /\ FlagIsOwner /\ CallFacts

\* Serial calls keep the strengthened invariant.
LEMMA SerialStep == SerialInv /\ [Next /\ Serial']_vars => SerialInv'
<1> USE NoHandlerAssumption, MayForceAssumption
<1> SUFFICES ASSUME SerialInv, [Next /\ Serial']_vars PROVE SerialInv'
    OBVIOUS
<1>0. TypeOK' /\ OwnerHoldsFlag'
    BY TypeOKStep, OwnerStep DEF SerialInv
<1> DEFINE Rest == FlagIsOwner /\ CallFacts
<1> SUFFICES Serial' /\ Rest'
    BY <1>0 DEF SerialInv
<1>1. CASE UNCHANGED vars
    BY <1>1 DEF vars, SerialInv, Serial, InTokenCall, FlagIsOwner, CallFacts, At
<1>2. CASE Next /\ Serial'
    <2> SUFFICES Rest'
        BY <1>2
    <2> USE DEF SerialInv, TypeOK, OwnerHoldsFlag, FlagIsOwner, CallFacts,
                At, Goto, token
    <2>1. ASSUME NEW h \in Handlers, AcquireInUse(h) \/ AcquireEquals(h) \/ ForceInUse(h)
          PROVE  Rest'
        BY <2>1 DEF AcquireInUse, AcquireEquals, ForceInUse
    <2>2. ASSUME NEW h \in Handlers, ForceTake(h) \/ ForceTakeThrows(h) PROVE Rest'
        BY <2>2 DEF ForceTake, ForceTakeThrows, Take, Serial, InTokenCall
    <2>3. ASSUME NEW h \in Handlers, AcquireGive(h) PROVE Rest'
        BY <2>3 DEF AcquireGive, Give, Serial, InTokenCall
    <2>4. ASSUME NEW h \in Handlers, Releasing(h) PROVE Rest'
        BY <2>4 DEF Releasing, ReleaseEquals, ReleaseTake, ReleaseTakeThrows, Take,
                    Serial, InTokenCall
    <2>5. ASSUME NEW h \in Handlers, Leaving(h) PROVE Rest'
        BY <2>5 DEF Leaving, LeaveLoop, UnregisterCheck, UnregisterTake,
                    UnregisterTakeThrows, UnregisterRemove, Take, Serial, InTokenCall
    <2>6. ASSUME NEW h \in Handlers, Start(h) \/ EndCommand(h) PROVE Rest'
        BY <2>6 DEF Start, EndCommand
    <2>7. ASSUME NEW h \in Handlers, Client(h) PROVE Rest'
        BY <2>7 DEF Client, Accept, Hangup, Vanish, WriteFails, RequestAcquire, RequestRelease,
                    RequestCommand, RequestRestricted
    <2> QED
        BY <1>2, <2>1, <2>2, <2>3, <2>4, <2>5, <2>6, <2>7 DEF Next, Thread, Acquiring
<1> QED
    BY <1>1, <1>2

LEMMA SerialInvariant == SerialSpec => []SerialInv
<1>1. Init => SerialInv
    BY NoHandlerAssumption
    DEF Init, SerialInv, TypeOK, Places, OwnerHoldsFlag, Serial, InTokenCall,
        FlagIsOwner, CallFacts, At
<1> QED
    BY <1>1, SerialStep, PTL DEF SerialSpec

\* If token calls never overlap, the flag the broker tests and the owner the
\* token records agree at all times: at most one handler has the token.
THEOREM SerialFlags == SerialSpec => []FlagIsOwner
<1>1. SerialInv => FlagIsOwner
    BY DEF SerialInv
<1> QED
    BY <1>1, SerialInvariant, PTL

\* A handler in a restricted command still is the owner, while nobody forces.
CommandFacts == \A h \in Handlers : At(h, "command") => owner = h

\* Serial calls of clients that do not force keep the token with the command.
LEMMA CommandStep ==
    SerialInv /\ CommandFacts /\ Unforced /\ [Next /\ Serial']_vars => CommandFacts'
<1> USE NoHandlerAssumption
<1> SUFFICES ASSUME SerialInv, CommandFacts, Unforced, [Next]_vars PROVE CommandFacts'
    OBVIOUS
<1> USE DEF SerialInv, TypeOK, FlagIsOwner, CallFacts, CommandFacts, Unforced, At, Goto, token
<1>1. ASSUME NEW h \in Handlers, Acquiring(h) PROVE CommandFacts'
    BY <1>1 DEF Acquiring, AcquireInUse, AcquireEquals, ForceInUse, ForceTake,
                ForceTakeThrows, AcquireGive, Give
<1>2. ASSUME NEW h \in Handlers, Releasing(h) PROVE CommandFacts'
    BY <1>2 DEF Releasing, ReleaseEquals, ReleaseTake, ReleaseTakeThrows, Take
<1>3. ASSUME NEW h \in Handlers, Leaving(h) PROVE CommandFacts'
    BY <1>3 DEF Leaving, LeaveLoop, UnregisterCheck, UnregisterTake,
                UnregisterTakeThrows, UnregisterRemove, Take
<1>4. ASSUME NEW h \in Handlers, Start(h) \/ EndCommand(h) PROVE CommandFacts'
    BY <1>4 DEF Start, EndCommand
<1>5. ASSUME NEW h \in Handlers, Client(h) PROVE CommandFacts'
    BY <1>5 DEF Client, Accept, Hangup, Vanish, WriteFails, RequestAcquire, RequestRelease,
                RequestCommand, RequestRestricted
<1>6. CASE UNCHANGED vars
    BY <1>6 DEF vars
<1> QED
    BY <1>1, <1>2, <1>3, <1>4, <1>5, <1>6 DEF Next, Thread

\* If token calls never overlap and no client forces, restricted methods
\* exclude each other and run under their owner's token from start to end.
THEOREM SerialCommands == Spec => CommandsExclude
<1>1. [Next]_vars /\ Serial' => [Next /\ Serial']_vars
    OBVIOUS
<1>2. Init => CommandFacts
    BY DEF Init, CommandFacts, At
<1>3. CommandFacts => (\A h \in Handlers : At(h, "command") => owner = h) /\ RestrictedMutex
    BY DEF CommandFacts, RestrictedMutex
<1>4. Spec /\ []Serial => []SerialInv
    BY <1>1, SerialInvariant, PTL DEF Spec, SerialSpec
<1> QED
    BY <1>1, <1>2, <1>3, <1>4, CommandStep, PTL DEF Spec, CommandsExclude

\* Every step of the class under serial calls is a step of the token service.
LEMMA ServiceStep ==
    SerialInv /\ [Next /\ Serial']_vars
        => [Service!Next]_<<owner, {h \in Handlers : At(h, "command")}>>
<1> DEFINE working == {h \in Handlers : At(h, "command")}
<1> USE NoHandlerAssumption, MayForceAssumption
        DEF SerialInv, TypeOK, FlagIsOwner, CallFacts, At, Goto, token
<1> SUFFICES ASSUME SerialInv, [Next /\ Serial']_vars
             PROVE  [Service!Next]_<<owner, working>>
    OBVIOUS
<1>1. CASE UNCHANGED vars
    BY <1>1 DEF vars
<1>2. ASSUME NEW h \in Handlers,
             \/ AcquireInUse(h) \/ AcquireEquals(h) \/ ForceInUse(h)
             \/ ForceTakeThrows(h) \/ ReleaseEquals(h) \/ ReleaseTakeThrows(h)
             \/ LeaveLoop(h) \/ UnregisterCheck(h) \/ UnregisterTakeThrows(h)
             \/ UnregisterRemove(h) \/ Start(h) \/ Accept(h) \/ Hangup(h)
             \/ Vanish(h) \/ WriteFails(h)
             \/ RequestAcquire(h, FALSE) \/ RequestAcquire(h, TRUE) \/ RequestRelease(h)
      PROVE  UNCHANGED <<owner, working>>
    BY <1>2 DEF AcquireInUse, AcquireEquals, ForceInUse, ForceTakeThrows, ReleaseEquals,
                ReleaseTakeThrows, LeaveLoop, UnregisterCheck, UnregisterTakeThrows,
                UnregisterRemove, Start, Accept, Hangup, Vanish, WriteFails, RequestAcquire, RequestRelease,
                RequestRestricted
<1>3. ASSUME NEW h \in Handlers, AcquireGive(h)
      PROVE  Service!Grant(h) \/ UNCHANGED <<owner, working>>
    BY <1>3 DEF AcquireGive, Give, Service!Grant
<1>4. ASSUME NEW h \in Handlers, ForceTake(h) PROVE Service!Revoke(h)
    BY <1>4 DEF ForceTake, Take, Service!Revoke
<1>5. ASSUME NEW h \in Handlers, ReleaseTake(h) \/ UnregisterTake(h) PROVE Service!Return(h)
    BY <1>5 DEF ReleaseTake, UnregisterTake, Take, Service!Return
<1>6. ASSUME NEW h \in Handlers, RequestCommand(h) PROVE Service!Begin(h)
    BY <1>6 DEF RequestCommand, RequestRestricted, Service!Begin
<1>7. ASSUME NEW h \in Handlers, EndCommand(h) PROVE Service!End(h)
    BY <1>7 DEF EndCommand, Service!End
<1> QED
    BY <1>1, <1>2, <1>3, <1>4, <1>5, <1>6, <1>7
    DEF Next, Thread, Client, Acquiring, Releasing, Leaving, Service!Next

\* Under serial calls ControlToken implements TokenService.
THEOREM SerialImplementsService == SerialSpec => ImplementsService
<1>1. Init => Service!Init
    BY DEF Init, Service!Init, At
<1> QED
    BY <1>1, SerialInvariant, ServiceStep, PTL DEF SerialSpec, ImplementsService, Service!Spec
=============================================================================
