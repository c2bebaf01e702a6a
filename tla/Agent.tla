------------------------------- MODULE Agent -------------------------------
(***************************************************************************)
(* The application side (src/lib.rs: Agent, AgentInner) composed with the  *)
(* event loop.  Threads hold clones of one Agent handle; Agent::set posts  *)
(* a command and then wakes the poll, two steps other threads and the loop *)
(* interleave with; dropping the last handle sends Shutdown and joins the  *)
(* loop thread.                                                            *)
(***************************************************************************)
EXTENDS EventLoop

CONSTANTS
    Threads,        \* application threads
    Main,           \* the thread that called AgentBuilder::build
    MaxSets         \* bound: calls of set per thread

\* The value a thread's n-th set carries: distinct, and ordered per thread.
Stamp(t, n) == <<t, n>>

ASSUME AgentAssumption ==
    /\ IsFiniteSet(Threads)
    /\ Main \in Threads
    /\ MaxSets \in Nat
    /\ \A t \in Threads : \A n \in 1..MaxSets : Stamp(t, n) \in Values

VARIABLES
    app,      \* where each thread is with its handle
    sets,     \* calls of set made so far, per thread
    result    \* what the thread's last set returned

appVars == <<app, sets, result>>
vars == <<loopVars, appVars>>

\* "none": no handle yet; "idle": holds a handle; "sent": inside set, between
\* tx.send and waker.wake; "dropped": gave its handle up; the others are the
\* steps of AgentInner::drop.
AppStates == {"none", "idle", "sent", "dropped", "dropping", "waking", "joining", "done"}

Init ==
    /\ LoopInit
    /\ app = [t \in Threads |-> IF t = Main THEN "idle" ELSE "none"]
    /\ sets = [t \in Threads |-> 0]
    /\ result = [t \in Threads |-> "none"]

OnlyChan == UNCHANGED <<pc, handlerVars, connections, next_token, store, kernelVars>>
OnlyReady == UNCHANGED <<pc, handlerVars, connections, next_token, chan, store,
                         backlog, peer, inbox>>

-----------------------------------------------------------------------------

\* Agent::clone, handed to thread u.
CloneHandle(t, u) ==
    /\ app[t] = "idle"
    /\ app[u] = "none"
    /\ app' = [app EXCEPT ![u] = "idle"]
    /\ UNCHANGED <<sets, result, loopVars>>

\* Agent::set, first half: CommandSender::send posts to the channel, or fails
\* because the receiver is gone.
SetSend(t, o) ==
    /\ app[t] = "idle"
    /\ sets[t] < MaxSets
    /\ sets' = [sets EXCEPT ![t] = @ + 1]
    /\ IF LoopExited
       THEN /\ result' = [result EXCEPT ![t] = "Disconnected"]
            /\ UNCHANGED <<app, chan>>
       ELSE /\ chan' = Append(chan, SetCommand(o, Stamp(t, sets[t] + 1)))
            /\ app' = [app EXCEPT ![t] = "sent"]
            /\ UNCHANGED result
    /\ OnlyChan

\* waker.wake(): an edge for the loop, if it still polls.
WakeLoop == ready' = IF LoopExited THEN ready ELSE ready \cup {WAKER_TOKEN}

\* Agent::set, second half.
SetWake(t) ==
    /\ app[t] = "sent"
    /\ WakeLoop
    /\ app' = [app EXCEPT ![t] = "idle"]
    /\ result' = [result EXCEPT ![t] = "Ok"]
    /\ UNCHANGED sets
    /\ OnlyReady

\* Another thread still owns a clone.
SharedBeyond(t) == \E u \in Threads \ {t} : app[u] \in {"idle", "sent"}

\* Dropping a handle; the last one runs AgentInner::drop.
DropHandle(t) ==
    /\ app[t] = "idle"
    /\ app' = [app EXCEPT ![t] = IF SharedBeyond(t) THEN "dropped" ELSE "dropping"]
    /\ UNCHANGED <<sets, result, loopVars>>

\* AgentInner::drop posts Shutdown; an error (no receiver) skips the wake.
ShutdownSend(t) ==
    /\ app[t] = "dropping"
    /\ IF LoopExited
       THEN /\ app' = [app EXCEPT ![t] = "joining"]
            /\ UNCHANGED chan
       ELSE /\ app' = [app EXCEPT ![t] = "waking"]
            /\ chan' = Append(chan, ShutdownCommand)
    /\ UNCHANGED <<sets, result>>
    /\ OnlyChan

\* Faulty variant: Shutdown is posted without waking the poll.
ShutdownWake_Silent(t) ==
    /\ app[t] = "waking"
    /\ app' = [app EXCEPT ![t] = "joining"]
    /\ UNCHANGED <<sets, result, loopVars>>

ShutdownWake(t) ==
    /\ app[t] = "waking"
    /\ WakeLoop
    /\ app' = [app EXCEPT ![t] = "joining"]
    /\ UNCHANGED <<sets, result>>
    /\ OnlyReady

\* Faulty variant: drop does not wait for the loop thread.
Join_Detached(t) ==
    /\ app[t] = "joining"
    /\ app' = [app EXCEPT ![t] = "done"]
    /\ UNCHANGED <<sets, result, loopVars>>

\* thread_handle.join() returns once the loop thread is gone.
Join(t) ==
    /\ app[t] = "joining"
    /\ LoopExited
    /\ app' = [app EXCEPT ![t] = "done"]
    /\ UNCHANGED <<sets, result, loopVars>>

\* The steps a thread takes on its own once it is inside set or drop.
Finishing(t) == SetWake(t) \/ ShutdownSend(t) \/ ShutdownWake(t) \/ Join(t)

AppNext == \E t \in Threads :
    \/ \E u \in Threads : CloneHandle(t, u)
    \/ \E o \in Oids : SetSend(t, o)
    \/ DropHandle(t)
    \/ Finishing(t)

\* Everything is over: the last handle's drop has returned.
Terminated ==
    /\ \E t \in Threads : app[t] = "done"
    /\ UNCHANGED vars

Next ==
    \/ ConnectionNext /\ UNCHANGED appVars
    \/ ApplySet /\ UNCHANGED appVars
    \/ TakeShutdown /\ UNCHANGED appVars
    \/ CommandsEmpty /\ UNCHANGED appVars
    \/ AppNext
    \/ Terminated

Spec == Init /\ [][Next]_vars

\* The loop thread and a thread inside a library call keep running; time
\* passes.  Nothing is assumed of the clients, of the application's calls or
\* of poll() failing.
Fairness ==
    /\ WF_vars(LoopStep /\ UNCHANGED appVars)
    /\ WF_vars(Tick /\ UNCHANGED appVars)
    /\ \A t \in Threads : WF_vars(Finishing(t))

FairSpec == Spec /\ Fairness

-----------------------------------------------------------------------------
(* Properties *)

\* Every variable of the loop and of the application stays in its type.
TypeOK ==
    /\ LoopTypeOK
    /\ app \in [Threads -> AppStates]
    /\ sets \in [Threads -> 0..MaxSets]
    /\ result \in [Threads -> {"none", "Ok", "Disconnected"}]

\* The wakeup of a command is never lost: while the loop runs, a non-empty
\* channel has the waker's event pending, or the loop is draining the
\* channel, or the sender has yet to call wake.
NoLostCommand ==
    chan # <<>> /\ ~LoopExited =>
        \/ WAKER_TOKEN \in ready \cup events
        \/ pc = "commands"
        \/ \E t \in Threads : app[t] \in {"sent", "waking"}

\* A clean shutdown loses no update: Shutdown is posted by the last handle's
\* drop, so every set any thread had posted is applied before the loop stops.
NoSetLostAtShutdown ==
    pc = "stopped" => \A i \in DOMAIN chan : chan[i].op # "SetValue"

\* drop returns only once the loop thread is gone, and while the loop runs
\* some sender is alive, so drain_commands never finds its channel
\* disconnected.
SenderOutlivesLoop ==
    ~LoopExited => \E t \in Threads : app[t] \notin {"none", "dropped", "done"}

\* An older value never comes back: two sets of one OID by one thread are
\* applied in the order they were called, whatever other threads do.
SetsApplyInOrder ==
    [][\A o \in Oids :
          (/\ store[o] # NoValue
           /\ store'[o] # store[o]
           /\ store'[o][1] = store[o][1]) => store'[o][2] > store[o][2]]_vars

\* The sets in the channel: Shutdown, once posted, is its last command.
Pending ==
    IF chan # <<>> /\ chan[Len(chan)] = ShutdownCommand
    THEN SubSeq(chan, 1, Len(chan) - 1)
    ELSE chan

Service == INSTANCE MibService WITH
    pending <- Pending,
    status  <- IF LoopExited THEN pc ELSE "running"

\* Threads, channel, waker, poll and shutdown together are the promised
\* service: updates take effect one by one in the order they were accepted,
\* and a clean shutdown comes after the last of them.
ImplementsMibService == Service!ServiceSpec

InChan(t, n) == \E i \in DOMAIN chan :
    chan[i].op = "SetValue" /\ chan[i].value = Stamp(t, n)

\* No posted set sits in the channel forever: it is applied, unless poll()
\* failed and took the loop down.
PostedSetsApplied == \A t \in Threads : \A n \in 1..MaxSets :
    InChan(t, n) ~> (~InChan(t, n) \/ pc = "failed")

\* Dropping the last handle always returns, also when the loop died before.
DropReturns == \A t \in Threads : (app[t] = "dropping") ~> (app[t] = "done")
=============================================================================
