----------------------------- MODULE EventLoop -----------------------------
(***************************************************************************)
(* The agent's event loop thread (src/transport/event_loop.rs): one mio    *)
(* poll over the TCP listener, the waker and every accepted connection.    *)
(* The kernel side (backlog, socket buffers, edge-triggered readiness) and *)
(* the TCP clients are the environment, modelled from how the loop uses    *)
(* them.  The application threads, which share only `chan', the waker's    *)
(* readiness and the loop's liveness with this module, are in Agent.       *)
(***************************************************************************)
EXTENDS Integers, Sequences, FiniteSets

CONSTANTS
    Clients,            \* TCP clients; each has at most one connection at a time
    MaxConnections,     \* max_connections
    MaxToken,           \* the largest token (usize::MAX in the code)
    EventsCapacity,     \* Events::with_capacity
    PressureHeadroom,   \* timeout_config, with the timeouts in ticks
    PressureTimeout,
    NormalTimeout,
    MaxInFlight,        \* bound: stream pieces of a client not yet dispatched
    Pieces,             \* the kinds of stream pieces the clients send
    Faults,             \* the system calls that may fail in this instance
    Oids, Values,       \* keys and values of the MIB store
    NoValue             \* an OID that was never set

LISTENER_TOKEN == 0
WAKER_TOKEN == 1
FIRST_CONN_TOKEN == 2
ConnTokens == FIRST_CONN_TOKEN..MaxToken
NoToken == -1

ASSUME LoopAssumption ==
    /\ IsFiniteSet(Clients)
    /\ MaxConnections \in Nat \ {0}
    /\ MaxToken \in Nat /\ MaxToken >= FIRST_CONN_TOKEN + MaxConnections - 1
    /\ EventsCapacity \in Nat \ {0}
    /\ PressureHeadroom \in Nat
    /\ PressureTimeout \in Nat \ {0}
    /\ NormalTimeout \in Nat /\ NormalTimeout >= PressureTimeout
    /\ MaxInFlight \in Nat
    /\ Pieces \subseteq {"frame", "half", "junk"}
    /\ Faults \subseteq {"accept", "register", "write", "poll"}
    /\ NoValue \notin Values

SetCommand(oid, value) == [op |-> "SetValue", oid |-> oid, value |-> value]
ShutdownCommand == [op |-> "Shutdown"]
Commands == {SetCommand(o, v) : o \in Oids, v \in Values} \cup {ShutdownCommand}

VARIABLES
    pc,           \* where the loop thread is
    events,       \* tokens of the current batch not handled yet
    current,      \* the token handle_connection_event is working on
    eof,          \* closed_during_drain
    connections,  \* token -> [peer, buf, idle]: the connection table
    next_token,
    chan,         \* the mpsc channel of commands
    store,        \* the MIB store
    ready,        \* kernel: tokens with an undelivered readiness edge
    backlog,      \* kernel: clients connected and not accepted, oldest first
    peer,         \* client -> "off" | "open" | "eof" | "reset"
    inbox         \* client -> pieces in the socket, not read yet

kernelVars == <<ready, backlog, peer, inbox>>
handlerVars == <<events, current, eof>>
loopVars == <<pc, events, current, eof, connections, next_token, chan, store,
              ready, backlog, peer, inbox>>

LoopExited == pc \in {"stopped", "failed"}

LoopInit ==
    /\ pc = "poll"
    /\ events = {}
    /\ current = NoToken
    /\ eof = FALSE
    /\ connections = [t \in {} |-> {}]
    /\ next_token = FIRST_CONN_TOKEN
    /\ chan = <<>>
    /\ store = [o \in Oids |-> NoValue]
    /\ ready = {}
    /\ backlog = <<>>
    /\ peer = [c \in Clients |-> "off"]
    /\ inbox = [c \in Clients |-> <<>>]

-----------------------------------------------------------------------------
(* The kernel's view of a socket. *)

\* A read on c's socket would not return WouldBlock.
Readable(c) == inbox[c] # <<>> \/ peer[c] \in {"eof", "reset"}

\* The registered token of client c's socket, if any.
TokensOf(c) == {t \in DOMAIN connections : connections[t].peer = c}

\* The sockets of the clients in C are closed by the agent.
Hangup(C) ==
    /\ peer' = [c \in Clients |-> IF c \in C THEN "off" ELSE peer[c]]
    /\ inbox' = [c \in Clients |-> IF c \in C THEN <<>> ELSE inbox[c]]

\* Faulty variant: the registration outlives the table entry.
CloseAndDeregister_Leaky(T) ==
    /\ connections' = [t \in DOMAIN connections \ T |-> connections[t]]
    /\ UNCHANGED ready
    /\ Hangup({connections[t].peer : t \in DOMAIN connections \cap T})

\* close_and_deregister_connection, and the removal in sweep_idle_connections.
CloseAndDeregister(T) ==
    /\ connections' = [t \in DOMAIN connections \ T |-> connections[t]]
    /\ ready' = ready \ T
    /\ Hangup({connections[t].peer : t \in DOMAIN connections \cap T})

-----------------------------------------------------------------------------
(* The clients. *)

\* The connection is established by the kernel; the listener gets an edge.
Connect(c) ==
    /\ ~LoopExited
    /\ peer[c] = "off"
    /\ peer' = [peer EXCEPT ![c] = "open"]
    /\ inbox' = [inbox EXCEPT ![c] = <<>>]
    /\ backlog' = Append(backlog, c)
    /\ ready' = ready \cup {LISTENER_TOKEN}
    /\ UNCHANGED <<pc, handlerVars, connections, next_token, chan, store>>

InFlight(c) ==
    Len(inbox[c]) + (IF TokensOf(c) = {} THEN 0
                     ELSE Len(connections[CHOOSE t \in TokensOf(c) : TRUE].buf))

Send(c, piece) ==
    /\ peer[c] = "open"
    /\ InFlight(c) < MaxInFlight
    /\ inbox' = [inbox EXCEPT ![c] = Append(@, piece)]
    /\ ready' = ready \cup TokensOf(c)
    /\ UNCHANGED <<pc, handlerVars, connections, next_token, chan, store, backlog, peer>>

\* Orderly close: what was sent stays readable.
Finish(c) ==
    /\ peer[c] = "open"
    /\ peer' = [peer EXCEPT ![c] = "eof"]
    /\ ready' = ready \cup TokensOf(c)
    /\ UNCHANGED <<pc, handlerVars, connections, next_token, chan, store, backlog, inbox>>

\* Abort: the kernel drops what was not read.
Reset(c) ==
    /\ peer[c] \in {"open", "eof"}
    /\ peer' = [peer EXCEPT ![c] = "reset"]
    /\ inbox' = [inbox EXCEPT ![c] = <<>>]
    /\ ready' = ready \cup TokensOf(c)
    /\ UNCHANGED <<pc, handlerVars, connections, next_token, chan, store, backlog>>

Client == \E c \in Clients :
    \/ Connect(c)
    \/ \E piece \in Pieces : Send(c, piece)
    \/ Finish(c)
    \/ Reset(c)

\* Time passes: every connection's now - last_activity grows, capped where
\* no timeout can tell the difference.
Tick ==
    /\ \E t \in DOMAIN connections : connections[t].idle < NormalTimeout
    /\ connections' = [t \in DOMAIN connections |->
           [connections[t] EXCEPT !.idle = IF @ < NormalTimeout THEN @ + 1 ELSE @]]
    /\ UNCHANGED <<pc, handlerVars, next_token, chan, store, kernelVars>>

-----------------------------------------------------------------------------
(* run(): poll, handle the batch, sweep. *)

\* Events whose edge is delivered leave `ready': the registrations are
\* edge-triggered.  The order within a batch is the kernel's.
Poll ==
    /\ pc = "poll"
    /\ ready # {}
    /\ \E batch \in SUBSET ready :
          /\ \/ batch = ready /\ Cardinality(ready) <= EventsCapacity
             \/ Cardinality(batch) = EventsCapacity /\ Cardinality(ready) > EventsCapacity
          /\ events' = batch
          /\ ready' = ready \ batch
    /\ pc' = "events"
    /\ UNCHANGED <<current, eof, connections, next_token, chan, store, backlog, peer, inbox>>

\* Faulty variant: a poll without a timeout never reaches the sweep.
PollTimeout_NoSweep ==
    /\ pc = "poll"
    /\ ready = {}
    /\ UNCHANGED loopVars

\* The 30-second timeout: no event, but the sweep still runs.
PollTimeout ==
    /\ pc = "poll"
    /\ ready = {}
    /\ pc' = "sweep"
    /\ UNCHANGED <<handlerVars, connections, next_token, chan, store, kernelVars>>

\* The loop returns: listener, connections and receiver are dropped.
Exit(how) ==
    /\ pc' = how
    /\ events' = {}
    /\ current' = NoToken
    /\ eof' = FALSE
    /\ connections' = [t \in {} |-> {}]
    /\ ready' = {}
    /\ backlog' = <<>>
    /\ Hangup(Clients)
    /\ UNCHANGED <<next_token, store>>

\* poll() returns an error (EINTR included), which `?' propagates.
PollFails ==
    /\ pc = "poll"
    /\ "poll" \in Faults
    /\ Exit("failed")
    /\ UNCHANGED chan

TakeEvent(t) ==
    /\ pc = "events"
    /\ t \in events
    /\ events' = events \ {t}
    /\ pc' = CASE t = LISTENER_TOKEN -> "accept"
               [] t = WAKER_TOKEN    -> "commands"
               [] OTHER              -> "drain"
    /\ current' = t
    /\ UNCHANGED <<eof, connections, next_token, chan, store, kernelVars>>

BatchDone ==
    /\ pc = "events"
    /\ events = {}
    /\ pc' = "sweep"
    /\ UNCHANGED <<handlerVars, connections, next_token, chan, store, kernelVars>>

\* A handler returns to the `for event in &events' loop.
BackToEvents ==
    /\ pc' = "events"
    /\ current' = NoToken
    /\ eof' = FALSE
    /\ UNCHANGED events

-----------------------------------------------------------------------------
(* accept_connections: one action per iteration of its loop. *)

\* Faulty variant: the limit checked with > instead of >=.
Full_OffByOne == Cardinality(DOMAIN connections) > MaxConnections

Full == Cardinality(DOMAIN connections) >= MaxConnections

\* next_token once t is handed out.
After(t) == IF t + 1 > MaxToken THEN FIRST_CONN_TOKEN ELSE t + 1

\* Faulty variant: the counter alone, without the lookup in the table.
NextConnectionToken_Unchecked == next_token

\* next_connection_token: the first token, from next_token on and wrapping
\* to FIRST_CONN_TOKEN, that is not in the table.
NextConnectionToken ==
    LET free == ConnTokens \ DOMAIN connections
        above == free \cap next_token..MaxToken
        least(S) == CHOOSE t \in S : \A u \in S : t <= u
    IN  IF above # {} THEN least(above) ELSE least(free)

\* register_and_insert_connection.  Registering a socket that is already
\* readable produces an edge.
AcceptOne ==
    /\ pc = "accept"
    /\ ~Full
    /\ backlog # <<>>
    /\ LET c == Head(backlog)
           t == NextConnectionToken
       IN  /\ next_token' = After(t)
           /\ \/ /\ connections' = [u \in DOMAIN connections \cup {t} |->
                        IF u = t THEN [peer |-> c, buf |-> <<>>, idle |-> 0]
                        ELSE connections[u]]
                 /\ ready' = IF Readable(c) THEN ready \cup {t} ELSE ready
                 /\ UNCHANGED <<peer, inbox>>
              \/ /\ "register" \in Faults
                 /\ Hangup({c})
                 /\ UNCHANGED <<connections, ready>>
    /\ backlog' = Tail(backlog)
    /\ UNCHANGED <<pc, handlerVars, chan, store>>

\* The limit is reached, accept() would block, or it fails.
AcceptStops ==
    /\ pc = "accept"
    /\ \/ Full
       \/ ~Full /\ backlog = <<>>
       \/ ~Full /\ "accept" \in Faults
    /\ BackToEvents
    /\ UNCHANGED <<connections, next_token, chan, store, kernelVars>>

-----------------------------------------------------------------------------
(* drain_commands: one action per try_recv. *)

\* Faulty variant: one command per wakeup.
ApplySet_Once ==
    /\ pc = "commands"
    /\ chan # <<>>
    /\ Head(chan).op = "SetValue"
    /\ store' = [store EXCEPT ![Head(chan).oid] = Head(chan).value]
    /\ chan' = Tail(chan)
    /\ BackToEvents
    /\ UNCHANGED <<connections, next_token, kernelVars>>

\* Faulty variant: the newest command first.
ApplySet_Newest ==
    /\ pc = "commands"
    /\ chan # <<>>
    /\ chan[Len(chan)].op = "SetValue"
    /\ store' = [store EXCEPT ![chan[Len(chan)].oid] = chan[Len(chan)].value]
    /\ chan' = SubSeq(chan, 1, Len(chan) - 1)
    /\ UNCHANGED <<pc, handlerVars, connections, next_token, kernelVars>>

ApplySet ==
    /\ pc = "commands"
    /\ chan # <<>>
    /\ Head(chan).op = "SetValue"
    /\ store' = [store EXCEPT ![Head(chan).oid] = Head(chan).value]
    /\ chan' = Tail(chan)
    /\ UNCHANGED <<pc, handlerVars, connections, next_token, kernelVars>>

\* What is behind Shutdown in the channel is dropped with the receiver:
\* after the exit, `chan' holds the commands that were never received.
TakeShutdown ==
    /\ pc = "commands"
    /\ chan # <<>>
    /\ Head(chan) = ShutdownCommand
    /\ chan' = Tail(chan)
    /\ Exit("stopped")

\* Empty.  (The Disconnected arm needs every sender dropped; the last one is
\* dropped after join() has returned, see SenderOutlivesLoop in Agent.)
CommandsEmpty ==
    /\ pc = "commands"
    /\ chan = <<>>
    /\ BackToEvents
    /\ UNCHANGED <<connections, next_token, chan, store, kernelVars>>

-----------------------------------------------------------------------------
(* handle_connection_event: drain the socket, dispatch the buffered frames, *)
(* close.  A stream piece is a whole frame, the first half of a frame that  *)
(* the next piece completes, or bytes on which framing gives up.            *)

NextCompleteFrame(buf) ==
    CASE buf = <<>>                          -> "Incomplete"
      [] buf # <<>> /\ Head(buf) = "junk"    -> "Close"
      [] buf # <<>> /\ Head(buf) = "half"    -> IF Len(buf) > 1 THEN "Complete" ELSE "Incomplete"
      [] OTHER                               -> "Complete"

\* The buffer once its first complete frame is taken out.
WithoutFrame(buf) ==
    IF Head(buf) = "half" THEN Tail(Tail(buf)) ELSE Tail(buf)

\* drain_connection_read_buffer: a read that returns bytes ...
ReadBytes ==
    /\ pc = "drain"
    /\ LET c == connections[current].peer
       IN  /\ inbox[c] # <<>>
           /\ connections' = [connections EXCEPT
                  ![current].buf = Append(@, Head(inbox[c])),
                  ![current].idle = 0]
           /\ inbox' = [inbox EXCEPT ![c] = Tail(@)]
    /\ UNCHANGED <<pc, handlerVars, next_token, chan, store, ready, backlog, peer>>

\* Faulty variant: the drain may stop before the socket would block.
ReadEnds_Early ==
    /\ pc = "drain"
    /\ eof' = (peer[connections[current].peer] \in {"eof", "reset"})
    /\ pc' = "dispatch"
    /\ UNCHANGED <<events, current, connections, next_token, chan, store, kernelVars>>

\* ... and one that returns Ok(0), an error, or WouldBlock.
ReadEnds ==
    /\ pc = "drain"
    /\ inbox[connections[current].peer] = <<>>
    /\ eof' = (peer[connections[current].peer] \in {"eof", "reset"})
    /\ pc' = "dispatch"
    /\ UNCHANGED <<events, current, connections, next_token, chan, store, kernelVars>>

\* Faulty variant: one frame per event.
DispatchFrame_Once ==
    /\ pc = "dispatch"
    /\ NextCompleteFrame(connections[current].buf) = "Complete"
    /\ connections' = [connections EXCEPT ![current].buf = WithoutFrame(@)]
    /\ BackToEvents
    /\ UNCHANGED <<next_token, chan, store, kernelVars>>

\* dispatch_buffered_frames: one frame is dispatched; a response, if there
\* is one, is written.
DispatchFrame ==
    /\ pc = "dispatch"
    /\ NextCompleteFrame(connections[current].buf) = "Complete"
    /\ connections' = [connections EXCEPT ![current].buf = WithoutFrame(@)]
    /\ UNCHANGED <<pc, handlerVars, next_token, chan, store, kernelVars>>

\* The response cannot be written (WouldBlock included).
WriteFails ==
    /\ pc = "dispatch"
    /\ NextCompleteFrame(connections[current].buf) = "Complete"
    /\ "write" \in Faults
    /\ CloseAndDeregister({current})
    /\ BackToEvents
    /\ UNCHANGED <<next_token, chan, store, backlog>>

FramingFails ==
    /\ pc = "dispatch"
    /\ NextCompleteFrame(connections[current].buf) = "Close"
    /\ CloseAndDeregister({current})
    /\ BackToEvents
    /\ UNCHANGED <<next_token, chan, store, backlog>>

\* Only an incomplete frame is left: close if the drain saw the end.
DispatchEnds ==
    /\ pc = "dispatch"
    /\ NextCompleteFrame(connections[current].buf) = "Incomplete"
    /\ IF eof THEN CloseAndDeregister({current})
              ELSE UNCHANGED <<connections, ready, peer, inbox>>
    /\ BackToEvents
    /\ UNCHANGED <<next_token, chan, store, backlog>>

-----------------------------------------------------------------------------
(* sweep_idle_connections *)

UnderPressure == Cardinality(DOMAIN connections) + PressureHeadroom >= MaxConnections
IdleTimeout == IF UnderPressure THEN PressureTimeout ELSE NormalTimeout
StaleTokens == {t \in DOMAIN connections : connections[t].idle >= IdleTimeout}

Sweep ==
    /\ pc = "sweep"
    /\ CloseAndDeregister(StaleTokens)
    /\ pc' = "poll"
    /\ UNCHANGED <<handlerVars, next_token, chan, store, backlog>>

-----------------------------------------------------------------------------

\* Every step of the loop thread but the failure of poll(): those on the
\* connections and those on the command channel.
ConnectionStep ==
    \/ Poll \/ PollTimeout \/ BatchDone
    \/ \E t \in 0..MaxToken : TakeEvent(t)
    \/ AcceptOne \/ AcceptStops
    \/ ReadBytes \/ ReadEnds
    \/ DispatchFrame \/ WriteFails \/ FramingFails \/ DispatchEnds
    \/ Sweep

CommandStep == ApplySet \/ TakeShutdown \/ CommandsEmpty

LoopStep == ConnectionStep \/ CommandStep

ConnectionNext == ConnectionStep \/ PollFails \/ Client \/ Tick

\* The loop alone, with clients and no application, so without commands:
\* what the runs on connections check.  Once it has exited nothing happens.
LoopDone == LoopExited /\ UNCHANGED loopVars
LoopSpec == LoopInit /\ [][ConnectionNext \/ LoopDone]_loopVars

\* The loop thread keeps running and time passes; nothing is assumed of the
\* clients or of poll() failing.
FairLoopSpec == LoopSpec /\ WF_loopVars(ConnectionStep) /\ WF_loopVars(Tick)

-----------------------------------------------------------------------------
(* Properties *)

Connection == [peer : Clients, buf : Seq(Pieces), idle : 0..NormalTimeout]

\* Every variable stays in its type; the connection table is indexed by
\* connection tokens only, never by the listener's or the waker's.
LoopTypeOK ==
    /\ pc \in {"poll", "events", "accept", "commands", "drain", "dispatch",
               "sweep", "stopped", "failed"}
    /\ events \in SUBSET (0..MaxToken)
    /\ current \in {NoToken} \cup 0..MaxToken
    /\ eof \in BOOLEAN
    /\ DOMAIN connections \in SUBSET ConnTokens
    /\ connections \in [DOMAIN connections -> Connection]
    /\ next_token \in ConnTokens
    /\ chan \in Seq(Commands)
    /\ store \in [Oids -> Values \cup {NoValue}]
    /\ ready \in SUBSET (0..MaxToken)
    /\ backlog \in Seq(Clients)
    /\ peer \in [Clients -> {"off", "open", "eof", "reset"}]
    /\ inbox \in [Clients -> Seq(Pieces)]

\* accept_connections never lets the table grow past max_connections
\* (REQ-0120), whatever the order of accepts, failures and closes.
ConnectionLimit == Cardinality(DOMAIN connections) <= MaxConnections

\* Edge-triggered reads lose nothing: a connection with unread bytes or an
\* unseen end has its event pending, or the loop is draining it, or has seen
\* its end and will close it.
NoLostReadable ==
    \A t \in DOMAIN connections : Readable(connections[t].peer) =>
        \/ t \in ready \cup events
        \/ current = t /\ pc = "drain"
        \/ current = t /\ pc = "dispatch" /\ eof

\* No event is stale: one that is pending, or in the batch being handled,
\* names a connection of the table, so the handler never misses it (the
\* `get_mut' of drain_connection_read_buffer and dispatch_buffered_frames
\* finds it) nor hits a connection accepted later under the same token.
EventsAreLive ==
    /\ \A t \in (ready \cup events) \cap ConnTokens : t \in DOMAIN connections
    /\ pc \in {"drain", "dispatch"} => current \in DOMAIN connections

\* No request waits in a read buffer for an event that will not come: outside
\* the handler of its own connection a buffer holds at most an incomplete
\* frame, so neither the end of the batch, the sweep nor an end of stream
\* finds a complete one.
NothingLeftBuffered ==
    \A t \in DOMAIN connections :
        NextCompleteFrame(connections[t].buf) # "Incomplete" =>
            current = t /\ pc \in {"drain", "dispatch"}

\* Every socket is accounted for: a client's open connection is either once
\* in the backlog or under exactly one token, and a token or backlog entry is
\* an open connection.  An overwritten table entry or a reused token breaks it.
SocketsAccountedFor ==
    \A c \in Clients :
        LET inTable == Cardinality(TokensOf(c))
            waiting == Cardinality({i \in DOMAIN backlog : backlog[i] = c})
        IN  inTable + waiting = IF peer[c] = "off" THEN 0 ELSE 1

\* A connection whose client goes quiet is closed by the sweep, also when no
\* other event ever arrives (the poll timeout's purpose, event_loop.rs:459).
QuietConnectionClosed == \A c \in Clients :
    ~<>[](peer[c] = "open" /\ inbox[c] = <<>> /\ TokensOf(c) # {})

\* "The OS kernel backlog buffers the excess; they will be accepted once
\* existing connections close" (event_loop.rs:500-503).
BacklogAccepted == \A c \in Clients :
    (peer[c] # "off" /\ TokensOf(c) = {} /\ ~Full)
        ~> (peer[c] = "off" \/ TokensOf(c) # {} \/ Full)
=============================================================================
