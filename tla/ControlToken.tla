---------------------------- MODULE ControlToken ----------------------------
(***************************************************************************)
(* The control token of a Java broker: class ControlToken, the token flag  *)
(* every ControllerClientHandler keeps, and the paths of Broker and of the *)
(* handler threads that reach them.  One handler object serves one client  *)
(* socket on a thread of its own, one request at a time.  The methods      *)
(* take(), give(), inUse() and hasToken() are synchronized and are single  *)
(* steps; acquire(), release() and unregister() are not, so the steps of   *)
(* several handlers interleave between those calls.                        *)
(***************************************************************************)
EXTENDS Naturals, FiniteSets

CONSTANTS Handlers,   \* ControllerClientHandler objects, one per client socket
          MayForce,   \* the handlers whose client ever sends tokenForceAcquire
          MayVanish,  \* a bound: the handlers whose client's host may drop out
          NoHandler   \* Java's null

ASSUME NoHandlerAssumption == NoHandler \notin Handlers
ASSUME MayForceAssumption == MayForce \subseteq Handlers
ASSUME MayVanishAssumption == MayVanish \subseteq Handlers

VARIABLES
    owner,      \* ControlToken.owner
    ownerID,    \* ControlToken.ownerID; a client is named by its handler, NoHandler is ""
    mToken,     \* ControllerClientHandler.mToken of each handler
    mActive,    \* ControllerClientHandler.mActive
    mClients,   \* Broker.mClients
    open,       \* the client still holds its end of the socket
    vanished,   \* gone clients of whom no packet tells the broker
    force,      \* the argument of the acquire() call a handler is in
    pc          \* where the thread of each handler is

vars == <<owner, ownerID, mToken, mActive, mClients, open, vanished, force, pc>>
token == <<owner, ownerID, mToken>>
session == <<mActive, mClients, open, vanished>>

Places == {"unborn", "accepted", "idle",            \* not yet connected; run() loop
           "inUse", "equals", "forceInUse", "forceTake", "give",  \* acquire()
           "owns", "relTake",                       \* release()
           "command",                               \* a restricted command
           "unregister", "unregTake", "unregRemove",  \* leaving run()
           "ended", "died"}                         \* returned, killed by an exception

TypeOK ==
    /\ owner \in Handlers \cup {NoHandler}
    /\ ownerID \in Handlers \cup {NoHandler}
    /\ mToken \in [Handlers -> BOOLEAN]
    /\ mActive \in [Handlers -> BOOLEAN]
    /\ mClients \in SUBSET Handlers
    /\ open \in [Handlers -> BOOLEAN]
    /\ vanished \in SUBSET Handlers
    /\ force \in [Handlers -> BOOLEAN]
    /\ pc \in [Handlers -> Places]

Init ==
    /\ owner = NoHandler
    /\ ownerID = NoHandler
    /\ mToken = [h \in Handlers |-> FALSE]
    /\ mActive = [h \in Handlers |-> FALSE]
    /\ mClients = {}
    /\ open = [h \in Handlers |-> FALSE]
    /\ vanished = {}
    /\ force = [h \in Handlers |-> FALSE]
    /\ pc = [h \in Handlers |-> "unborn"]

At(h, place) == pc[h] = place
Goto(h, place) == pc' = [pc EXCEPT ![h] = place]

-----------------------------------------------------------------------------
(* The synchronized methods.                                               *)

\* take() on a token somebody owns; with no owner it throws (owner is null).
Take ==
    /\ owner # NoHandler
    /\ mToken' = [mToken EXCEPT ![owner] = FALSE]
    /\ owner' = NoHandler
    /\ ownerID' = NoHandler

Give(h) ==
    /\ owner' = h
    /\ mToken' = [mToken EXCEPT ![h] = TRUE]
    /\ ownerID' = h

-----------------------------------------------------------------------------
(* The life of a handler.                                                  *)

\* The controller server accepts a socket and constructs the handler.
Accept(h) ==
    /\ At(h, "unborn")
    /\ mClients' = mClients \cup {h}
    /\ open' = [open EXCEPT ![h] = TRUE]
    /\ Goto(h, "accepted")
    /\ UNCHANGED <<token, mActive, vanished, force>>

Start(h) ==
    /\ At(h, "accepted")
    /\ mActive' = [mActive EXCEPT ![h] = TRUE]
    /\ Goto(h, "idle")
    /\ UNCHANGED <<token, mClients, open, vanished, force>>

\* The client closes its socket, or is killed and its system closes it.
Hangup(h) ==
    /\ open[h]
    /\ open' = [open EXCEPT ![h] = FALSE]
    /\ UNCHANGED <<token, mActive, mClients, vanished, force, pc>>

\* The client's host loses power or its link, so nothing says that it is gone:
\* a read of the socket times out, which run() ignores, and no keepalive is set.
Vanish(h) ==
    /\ h \in MayVanish
    /\ open[h]
    /\ open' = [open EXCEPT ![h] = FALSE]
    /\ vanished' = vanished \cup {h}
    /\ UNCHANGED <<token, mActive, mClients, force, pc>>

\* Something was written to it, a reply or a notification, and the system gave up
\* sending: the writer's error flag is set.  Nothing makes this happen.
WriteFails(h) ==
    /\ h \in vanished
    /\ vanished' = vanished \ {h}
    /\ UNCHANGED <<token, mActive, mClients, open, force, pc>>

\* Between two requests the loop of run() sees a closed socket, or a failed
\* write; it goes on for ever with one that merely is silent.
LeaveLoop(h) ==
    /\ At(h, "idle")
    /\ ~open[h]
    /\ h \notin vanished
    /\ Goto(h, "unregister")
    /\ UNCHANGED <<token, session, force>>

UnregisterKeepingToken(h) ==     \* mutant: the token test is missing
    /\ At(h, "unregister")
    /\ Goto(h, "unregRemove")
    /\ UNCHANGED <<token, session, force>>

\* unregister(): does the departing handler hold the token?
UnregisterCheck(h) ==
    /\ At(h, "unregister")
    /\ Goto(h, IF mToken[h] THEN "unregTake" ELSE "unregRemove")
    /\ UNCHANGED <<token, session, force>>

UnregisterTake(h) ==
    /\ At(h, "unregTake")
    /\ Take
    /\ Goto(h, "unregRemove")
    /\ UNCHANGED <<session, force>>

\* The token went away after the check: take() throws out of run().
UnregisterTakeThrows(h) ==
    /\ At(h, "unregTake")
    /\ owner = NoHandler
    /\ Goto(h, "died")
    /\ UNCHANGED <<token, session, force>>

UnregisterRemove(h) ==
    /\ At(h, "unregRemove")
    /\ mClients' = mClients \ {h}
    /\ mActive' = [mActive EXCEPT ![h] = FALSE]
    /\ Goto(h, "ended")
    /\ UNCHANGED <<token, open, vanished, force>>

-----------------------------------------------------------------------------
(* Requests.                                                               *)

\* tokenAcquire and tokenForceAcquire need no token.
RequestAcquire(h, forced) ==
    /\ At(h, "idle")
    /\ open[h]
    /\ forced => h \in MayForce
    /\ force' = [force EXCEPT ![h] = forced]
    /\ Goto(h, "inUse")
    /\ UNCHANGED <<token, session>>

\* A restricted method: without the token it is answered E_TOKEN_REQUIRED and
\* the handler is idle again (no state changes), so only the other case moves.
RequestRestricted(h, place) ==
    /\ At(h, "idle")
    /\ open[h]
    /\ mToken[h]
    /\ Goto(h, place)
    /\ UNCHANGED <<token, session, force>>

RequestRelease(h) == RequestRestricted(h, "owns")
RequestCommand(h) == RequestRestricted(h, "command")

EndCommand(h) ==
    /\ At(h, "command")
    /\ Goto(h, "idle")
    /\ UNCHANGED <<token, session, force>>

\* acquire(), first operand: !inUse().
AcquireInUse(h) ==
    /\ At(h, "inUse")
    /\ Goto(h, IF owner # NoHandler THEN "equals"
               ELSE IF force[h] THEN "forceInUse" ELSE "give")
    /\ UNCHANGED <<token, session, force>>

AcquireAnyway(h) ==              \* mutant: the owner test lets everybody through
    /\ At(h, "equals")
    /\ Goto(h, IF force[h] THEN "forceInUse" ELSE "give")
    /\ UNCHANGED <<token, session, force>>

\* handler.equals(owner) || force; otherwise E_TOKEN_NOT_AVAILABLE.
AcquireEquals(h) ==
    /\ At(h, "equals")
    /\ Goto(h, IF force[h] THEN "forceInUse"
               ELSE IF owner = h THEN "give" ELSE "idle")
    /\ UNCHANGED <<token, session, force>>

ForceWithoutTake(h) ==           \* mutant: a forced acquire leaves the old owner's flag up
    /\ At(h, "forceInUse")
    /\ Goto(h, "give")
    /\ UNCHANGED <<token, session, force>>

\* force && inUse()
ForceInUse(h) ==
    /\ At(h, "forceInUse")
    /\ Goto(h, IF owner # NoHandler THEN "forceTake" ELSE "give")
    /\ UNCHANGED <<token, session, force>>

ForceTake(h) ==
    /\ At(h, "forceTake")
    /\ Take
    /\ Goto(h, "give")
    /\ UNCHANGED <<session, force>>

\* take() throws; processRequest() reports the exception to the client.
ForceTakeThrows(h) ==
    /\ At(h, "forceTake")
    /\ owner = NoHandler
    /\ Goto(h, "idle")
    /\ UNCHANGED <<token, session, force>>

GiveOwnerOnly(h) ==              \* mutant: the handler's own flag is not raised
    /\ At(h, "give")
    /\ owner' = h
    /\ ownerID' = h
    /\ UNCHANGED mToken
    /\ Goto(h, "idle")
    /\ UNCHANGED <<session, force>>

AcquireGive(h) ==
    /\ At(h, "give")
    /\ Give(h)
    /\ Goto(h, "idle")
    /\ UNCHANGED <<session, force>>

\* release(): handler.equals(owner), else E_TOKEN_REQUIRED.
ReleaseEquals(h) ==
    /\ At(h, "owns")
    /\ Goto(h, IF owner = h THEN "relTake" ELSE "idle")
    /\ UNCHANGED <<token, session, force>>

ReleaseTake(h) ==
    /\ At(h, "relTake")
    /\ Take
    /\ Goto(h, "idle")
    /\ UNCHANGED <<session, force>>

ReleaseTakeThrows(h) ==
    /\ At(h, "relTake")
    /\ owner = NoHandler
    /\ Goto(h, "idle")
    /\ UNCHANGED <<token, session, force>>

-----------------------------------------------------------------------------
\* What the thread of h does by itself once it has something to do.
Acquiring(h) ==
    \/ AcquireInUse(h) \/ AcquireEquals(h) \/ ForceInUse(h)
    \/ ForceTake(h) \/ ForceTakeThrows(h) \/ AcquireGive(h)

Releasing(h) == ReleaseEquals(h) \/ ReleaseTake(h) \/ ReleaseTakeThrows(h)

Leaving(h) ==
    \/ LeaveLoop(h) \/ UnregisterCheck(h) \/ UnregisterTake(h)
    \/ UnregisterTakeThrows(h) \/ UnregisterRemove(h)

Thread(h) == Start(h) \/ Acquiring(h) \/ Releasing(h) \/ EndCommand(h) \/ Leaving(h)

\* What the outside world asks for.
Client(h) ==
    \/ Accept(h) \/ Hangup(h) \/ Vanish(h) \/ WriteFails(h)
    \/ RequestAcquire(h, FALSE) \/ RequestAcquire(h, TRUE)
    \/ RequestRelease(h) \/ RequestCommand(h)

Next == \E h \in Handlers : Thread(h) \/ Client(h)

Spec == Init /\ [][Next]_vars

\* Java schedules every runnable thread; clients owe nothing.
FairSpec == Spec /\ \A h \in Handlers : WF_vars(Thread(h))

-----------------------------------------------------------------------------
(* The same class under a discipline it does not enforce: no two handlers  *)
(* are inside token calls at once (what a lock around processJSONRequest   *)
(* and unregister would give).                                             *)

InTokenCall(h) ==
    pc[h] \in {"inUse", "equals", "forceInUse", "forceTake", "give",
               "owns", "relTake", "unregister", "unregTake"}

Serial == \A g, h \in Handlers : InTokenCall(g) /\ InTokenCall(h) => g = h

SerialSpec == Init /\ [][Next /\ Serial']_vars

-----------------------------------------------------------------------------
(* Refinement of the abstract token.                                       *)

Service == INSTANCE TokenService
    WITH Clients <- Handlers, Forcers <- MayForce, Nobody <- NoHandler,
         holder <- owner, working <- {h \in Handlers : At(h, "command")}

\* With serial token calls the class is the token service: every grant is of a
\* free token, every loss is a return or a revocation by a forcing client, and
\* only the holder begins a restricted method.
ImplementsService == Service!Spec

-----------------------------------------------------------------------------
(* Properties.                                                             *)

\* The owner ControlToken records is a handler whose own flag says it holds
\* the token, under its own name, whatever acquire, release and unregister
\* calls interleave: the two copies of the fact never miss an owner.
OwnerHoldsFlag ==
    /\ owner # NoHandler => mToken[owner]
    /\ ownerID = owner

\* A handler whose thread is past unregister()'s take(), ended or killed never
\* is the owner: a client that went away cannot leave the token taken for ever,
\* even when another handler's forced acquire or release cuts in between the
\* test and the take.
DepartedNeverOwns ==
    \A h \in Handlers :
        pc[h] \in {"unborn", "accepted", "unregRemove", "ended", "died"} => owner # h

\* Once the broker can tell that a client is gone, by a closed socket or a failed
\* write, then whatever its handler was doing, the token is eventually not its own
\* and never becomes so again.  A client that vanished with its host may hold the
\* token for ever, until something is written to it or another client forces.
TokenComesBack ==
    \A h \in Handlers :
        ~open[h] /\ h \notin vanished /\ pc[h] # "unborn" ~> [](owner # h)

\* With serial token calls the flags and the owner agree, so at most one
\* handler passes the hasToken() test of Broker.processRequest.
FlagIsOwner == \A h \in Handlers : mToken[h] <=> owner = h

\* Two handlers never execute restricted methods together.
RestrictedMutex ==
    \A g, h \in Handlers : At(g, "command") /\ At(h, "command") => g = h

Unforced == \A h \in Handlers : ~force[h]

\* If token calls never overlap and no client ever forces, a handler executing
\* a restricted method is the owner until the method is done, and nobody else
\* executes one.
CommandsExclude ==
    []Serial /\ []Unforced =>
        []((\A h \in Handlers : At(h, "command") => owner = h) /\ RestrictedMutex)
=============================================================================
