---------------------------- MODULE Agent_proofs ----------------------------
(***************************************************************************)
(* Safety of the event loop for every number of clients, connections and   *)
(* tokens, every event capacity and every combination of failing calls;    *)
(* and of the agent's handles and its event loop together, for every       *)
(* number of threads and sets.                                             *)
(***************************************************************************)
EXTENDS Agent, FiniteSetTheorems, WellFoundedInduction, TLAPS

-----------------------------------------------------------------------------
(* The event loop *)

\* Where the loop is fixes what is left of the batch: nothing outside the
\* `for event in &events' loop, and not the event a handler works on.
BatchShape ==
    /\ pc \in {"poll", "sweep", "stopped", "failed"} => events = {}
    /\ pc \in {"drain", "dispatch"} => current \notin events

\* The inductive invariant: what the runs check, with the shape of the batch.
\* The edge of a readable socket is only safe because events are live, and a
\* new token is only free because the table is below its limit.
LoopInv ==
    /\ LoopTypeOK
    /\ ConnectionLimit
    /\ EventsAreLive
    /\ NoLostReadable
    /\ NothingLeftBuffered
    /\ BatchShape

LEMMA Constants ==
    /\ MaxToken \in Nat /\ MaxConnections \in Nat /\ NormalTimeout \in Nat
    /\ MaxToken >= MaxConnections + 1
    /\ NormalTimeout >= 1
    /\ WAKER_TOKEN \notin ConnTokens /\ LISTENER_TOKEN \notin ConnTokens
    /\ NoToken \notin ConnTokens
    /\ ConnTokens \subseteq 0..MaxToken
    /\ FIRST_CONN_TOKEN \in ConnTokens
  BY LoopAssumption DEF LoopAssumption, ConnTokens, FIRST_CONN_TOKEN, WAKER_TOKEN,
                        LISTENER_TOKEN, NoToken

\* The table is finite.
LEMMA TableFinite ==
    ASSUME DOMAIN connections \in SUBSET ConnTokens
    PROVE  /\ IsFiniteSet(DOMAIN connections)
           /\ Cardinality(DOMAIN connections) \in Nat
  <1>1. IsFiniteSet(ConnTokens)
    BY Constants, FS_Interval DEF ConnTokens, FIRST_CONN_TOKEN
  <1>2. IsFiniteSet(DOMAIN connections)
    BY <1>1, FS_Subset
  <1> QED
    BY <1>2, FS_CardinalityType

LEMMA LeastToken ==
    ASSUME NEW S \in SUBSET Nat, S # {}
    PROVE  \E t \in S : \A u \in S : t <= u
  <1> DEFINE R == {p \in Nat \X Nat : p[1] < p[2]}
  <1>1. IsWellFoundedOn(R, Nat)
    BY NatLessThanWellFounded DEF OpToRel
  <1>2. PICK t \in S : \A u \in S : ~(<<u, t>> \in R)
    BY <1>1, WFMin
  <1>3. \A u \in S : ~(u < t)
    BY <1>2
  <1> QED
    BY <1>3

\* While the table is below its limit there is a free token, and
\* next_connection_token finds one.
LEMMA FreeToken ==
    ASSUME LoopTypeOK, ~Full
    PROVE  NextConnectionToken \in ConnTokens \ DOMAIN connections
  <1> DEFINE free == ConnTokens \ DOMAIN connections
             above == free \cap next_token..MaxToken
  <1>1. DOMAIN connections \in SUBSET ConnTokens
    BY DEF LoopTypeOK
  <1>2. Cardinality(DOMAIN connections) < MaxConnections
    BY <1>1, TableFinite, Constants DEF Full
  <1>3. Cardinality(ConnTokens) >= MaxConnections
    BY FS_Interval, Constants DEF ConnTokens, FIRST_CONN_TOKEN
  <1>4. free # {}
    <2> SUFFICES ASSUME free = {} PROVE FALSE
      OBVIOUS
    <2>1. DOMAIN connections = ConnTokens
      BY <1>1
    <2>2. Cardinality(DOMAIN connections) = Cardinality(ConnTokens)
      BY <2>1
    <2> QED
      BY <1>2, <1>3, <2>2, <1>1, TableFinite, Constants
  <1>5. free \in SUBSET Nat /\ above \in SUBSET Nat
    BY Constants DEF ConnTokens, FIRST_CONN_TOKEN
  <1> HIDE DEF free, above
  <1>6. \E t \in free : \A u \in free : t <= u
    BY <1>4, <1>5, LeastToken
  <1>7. above # {} => \E t \in above : \A u \in above : t <= u
    BY <1>5, LeastToken
  <1>8. NextConnectionToken \in free
    BY <1>6, <1>7, Zenon DEF NextConnectionToken, free, above
  <1> QED
    BY <1>8 DEF free

\* What close_and_deregister_connection and the sweep leave behind: the
\* remaining connections as they were, and no new readable socket.
LEMMA Closing ==
    ASSUME LoopTypeOK, NEW T, CloseAndDeregister(T)
    PROVE  /\ DOMAIN connections' = DOMAIN connections \ T
           /\ \A t \in DOMAIN connections' : connections'[t] = connections[t]
           /\ connections' \in [DOMAIN connections' -> Connection]
           /\ ready' = ready \ T
           /\ peer' \in [Clients -> {"off", "open", "eof", "reset"}]
           /\ inbox' \in [Clients -> Seq(Pieces)]
           /\ \A c \in Clients : Readable(c)' => Readable(c)
  <1>1. /\ DOMAIN connections' = DOMAIN connections \ T
        /\ \A t \in DOMAIN connections' : connections'[t] = connections[t]
        /\ connections' \in [DOMAIN connections' -> Connection]
        /\ ready' = ready \ T
    BY DEF LoopTypeOK, CloseAndDeregister
  <1>2. peer' \in [Clients -> {"off", "open", "eof", "reset"}]
    BY DEF LoopTypeOK, CloseAndDeregister, Hangup
  <1>3. <<>> \in Seq(Pieces)
    OBVIOUS
  <1>4. inbox' \in [Clients -> Seq(Pieces)]
    BY <1>3 DEF LoopTypeOK, CloseAndDeregister, Hangup
  <1>5. \A c \in Clients : Readable(c)' => Readable(c)
    BY DEF LoopTypeOK, CloseAndDeregister, Hangup, Readable
  <1> QED
    BY <1>1, <1>2, <1>4, <1>5

\* A table that only loses entries stays within its limit.
LEMMA SmallerTable ==
    ASSUME LoopTypeOK, ConnectionLimit, DOMAIN connections' \subseteq DOMAIN connections
    PROVE  ConnectionLimit'
  <1>1. IsFiniteSet(DOMAIN connections) /\ Cardinality(DOMAIN connections) \in Nat
    BY TableFinite DEF LoopTypeOK
  <1>2. /\ IsFiniteSet(DOMAIN connections')
        /\ Cardinality(DOMAIN connections') <= Cardinality(DOMAIN connections)
    BY <1>1, FS_Subset
  <1>3. Cardinality(DOMAIN connections') \in Nat
    BY <1>2, FS_CardinalityType
  <1> QED
    BY <1>1, <1>2, <1>3, Constants DEF ConnectionLimit

LEMMA LoopInitInv == LoopInit => LoopInv
  <1> SUFFICES ASSUME LoopInit PROVE LoopInv
    OBVIOUS
  <1>0. <<>> \in Seq(Pieces) /\ <<>> \in Seq(Commands) /\ <<>> \in Seq(Clients)
    OBVIOUS
  <1>1. DOMAIN connections = {}
    BY DEF LoopInit
  <1>2. LoopTypeOK
    BY <1>0, <1>1, Constants DEF LoopInit, LoopTypeOK, NoToken
  <1>3. ConnectionLimit
    BY <1>1, FS_EmptySet, Constants DEF ConnectionLimit
  <1>4. EventsAreLive /\ NoLostReadable /\ NothingLeftBuffered /\ BatchShape
    BY <1>1 DEF LoopInit, EventsAreLive, NoLostReadable, NothingLeftBuffered, BatchShape
  <1> QED
    BY <1>2, <1>3, <1>4 DEF LoopInv

\* The clients only add edges for the sockets they make readable.
LEMMA ClientInv == LoopInv /\ Client => LoopInv'
  <1> SUFFICES ASSUME LoopInv, NEW c \in Clients,
                      \/ Connect(c)
                      \/ \E piece \in Pieces : Send(c, piece)
                      \/ Finish(c)
                      \/ Reset(c)
               PROVE  LoopInv'
    BY DEF Client
  <1> USE DEF LoopInv
  <1>1. /\ UNCHANGED <<pc, events, current, eof, connections, next_token, chan, store>>
        /\ ready' \in {ready \cup {LISTENER_TOKEN}, ready \cup TokensOf(c)}
    BY DEF Connect, Send, Finish, Reset, handlerVars
  <1>2. TokensOf(c) \subseteq DOMAIN connections
    BY DEF TokensOf
  <1>3. ready' \in SUBSET (0..MaxToken)
    BY <1>1, <1>2, Constants DEF LoopTypeOK, LISTENER_TOKEN
  <1>4. /\ peer' \in [Clients -> {"off", "open", "eof", "reset"}]
        /\ backlog' \in Seq(Clients)
    <2>0. CASE Connect(c)
      BY <2>0 DEF LoopTypeOK, Connect
    <2>1. CASE Finish(c) \/ Reset(c)
      BY <2>1 DEF LoopTypeOK, Finish, Reset
    <2>2. CASE \E piece \in Pieces : Send(c, piece)
      BY <2>2 DEF LoopTypeOK, Send
    <2> QED
      BY <2>0, <2>1, <2>2
  <1>5. inbox' \in [Clients -> Seq(Pieces)]
    <2>1. <<>> \in Seq(Pieces)
      OBVIOUS
    <2>2. CASE Connect(c) \/ Finish(c) \/ Reset(c)
      BY <2>1, <2>2 DEF LoopTypeOK, Connect, Finish, Reset
    <2>3. CASE \E piece \in Pieces : Send(c, piece)
      BY <2>3 DEF LoopTypeOK, Send
    <2> QED
      BY <2>2, <2>3
  <1>6. LoopTypeOK'
    BY <1>1, <1>3, <1>4, <1>5 DEF LoopTypeOK
  <1>7. EventsAreLive'
    BY <1>1, <1>2, Constants DEF EventsAreLive
  <1>8. NoLostReadable'
    <2> SUFFICES ASSUME NEW t \in DOMAIN connections, Readable(connections[t].peer)'
                 PROVE  \/ t \in ready' \cup events
                        \/ current = t /\ pc = "drain"
                        \/ current = t /\ pc = "dispatch" /\ eof
      BY <1>1 DEF NoLostReadable, Readable
    <2>1. connections[t].peer \in Clients
      BY DEF LoopTypeOK, Connection
    <2>2. ready \subseteq ready'
      BY <1>1
    <2>3. CASE connections[t].peer = c /\ ready' = ready \cup TokensOf(c)
      BY <2>3 DEF TokensOf
    <2>4. CASE Connect(c)
      <3>1. Readable(connections[t].peer)
        BY <2>1, <2>4, <1>1 DEF Connect, Readable, LoopTypeOK
      <3> QED
        BY <3>1, <2>2 DEF NoLostReadable
    <2>5. CASE connections[t].peer # c
      <3>1. Readable(connections[t].peer)
        BY <2>1, <2>5, <1>1 DEF Connect, Send, Finish, Reset, Readable, LoopTypeOK
      <3> QED
        BY <3>1, <2>2 DEF NoLostReadable
    <2> QED
      BY <2>3, <2>4, <2>5 DEF Send, Finish, Reset
  <1> QED
    BY <1>1, <1>6, <1>7, <1>8 DEF ConnectionLimit, NothingLeftBuffered, BatchShape

\* Time only moves the idle clocks.
LEMMA TickInv == LoopInv /\ Tick => LoopInv'
  <1> SUFFICES ASSUME LoopInv, Tick PROVE LoopInv'
    OBVIOUS
  <1> USE DEF LoopInv
  <1>1. UNCHANGED <<pc, events, current, eof, next_token, chan, store,
                    ready, backlog, peer, inbox>>
    BY DEF Tick, handlerVars, kernelVars
  <1>2. DOMAIN connections' = DOMAIN connections
    BY DEF Tick
  <1>3. \A t \in DOMAIN connections :
            /\ connections'[t] \in Connection
            /\ connections'[t].peer = connections[t].peer
            /\ connections'[t].buf = connections[t].buf
    <2> SUFFICES ASSUME NEW t \in DOMAIN connections
                 PROVE  /\ connections'[t] \in Connection
                        /\ connections'[t].peer = connections[t].peer
                        /\ connections'[t].buf = connections[t].buf
      OBVIOUS
    <2>1. connections[t] \in Connection
      BY DEF LoopTypeOK
    <2>2. connections'[t] = [connections[t] EXCEPT
              !.idle = IF @ < NormalTimeout THEN @ + 1 ELSE @]
      BY DEF Tick
    <2> QED
      BY <2>1, <2>2, Constants DEF Connection
  <1>4. connections' \in [DOMAIN connections' -> Connection]
    <2>1. connections' = [t \in DOMAIN connections |-> connections'[t]]
      BY DEF Tick
    <2> QED
      BY <2>1, <1>2, <1>3
  <1>5. LoopTypeOK'
    BY <1>1, <1>2, <1>4 DEF LoopTypeOK
  <1>6. NoLostReadable'
    BY <1>1, <1>2, <1>3 DEF NoLostReadable, Readable
  <1>7. NothingLeftBuffered'
    BY <1>1, <1>2, <1>3 DEF NothingLeftBuffered
  <1> QED
    BY <1>1, <1>2, <1>5, <1>6, <1>7 DEF ConnectionLimit, EventsAreLive, BatchShape

\* Polling, taking an event and ending the batch move tokens and the program
\* counter, and leave the table and the sockets alone.
LEMMA BatchInv ==
    ASSUME LoopInv,
           Poll \/ PollTimeout \/ BatchDone \/ \E t \in 0..MaxToken : TakeEvent(t)
    PROVE  LoopInv'
  <1> USE DEF LoopInv
  <1>1. UNCHANGED <<eof, connections, next_token, chan, store, backlog, peer, inbox>>
    BY DEF Poll, PollTimeout, BatchDone, TakeEvent, handlerVars, kernelVars
  <1>2. CASE Poll
    <2>1. /\ pc = "poll" /\ pc' = "events" /\ current' = current /\ events = {}
          /\ ready' \cup events' = ready \cup events
          /\ events' \subseteq ready
      BY <1>2 DEF Poll, BatchShape
    <2>2. LoopTypeOK'
      BY <1>1, <2>1 DEF LoopTypeOK
    <2>3. NoLostReadable'
      BY <1>1, <2>1 DEF NoLostReadable, Readable
    <2> QED
      BY <1>1, <2>1, <2>2, <2>3
      DEF ConnectionLimit, EventsAreLive, NothingLeftBuffered, BatchShape
  <1>3. CASE PollTimeout \/ BatchDone
    <2>1. /\ UNCHANGED <<events, current, ready>>
          /\ pc \in {"poll", "events"} /\ pc' = "sweep" /\ events = {}
      BY <1>3 DEF PollTimeout, BatchDone, handlerVars, kernelVars, BatchShape
    <2>2. LoopTypeOK'
      BY <1>1, <2>1 DEF LoopTypeOK
    <2>3. NoLostReadable'
      BY <1>1, <2>1 DEF NoLostReadable, Readable
    <2> QED
      BY <1>1, <2>1, <2>2, <2>3
      DEF ConnectionLimit, EventsAreLive, NothingLeftBuffered, BatchShape
  <1>4. ASSUME NEW t \in 0..MaxToken, TakeEvent(t) PROVE LoopInv'
    <2>1. /\ pc = "events" /\ t \in events /\ events' = events \ {t}
          /\ current' = t /\ ready' = ready
          /\ pc' \in {"accept", "commands", "drain"}
          /\ pc' = "drain" <=> t \notin {LISTENER_TOKEN, WAKER_TOKEN}
      BY <1>4 DEF TakeEvent, kernelVars
    <2>2. LoopTypeOK'
      BY <1>1, <2>1 DEF LoopTypeOK
    <2>3. t \in ConnTokens <=> pc' = "drain"
      BY <2>1, Constants DEF ConnTokens, FIRST_CONN_TOKEN, LISTENER_TOKEN, WAKER_TOKEN
    <2>4. EventsAreLive'
      BY <1>1, <2>1, <2>3 DEF EventsAreLive
    <2>5. NoLostReadable'
      <3> SUFFICES ASSUME NEW u \in DOMAIN connections, Readable(connections[u].peer)
                   PROVE  u \in ready' \cup events' \/ (current' = u /\ pc' = "drain")
        BY <1>1 DEF NoLostReadable, Readable
      <3>1. u \in ready \cup events
        BY <2>1 DEF NoLostReadable
      <3>2. u \in ConnTokens
        BY DEF LoopTypeOK
      <3>3. CASE u = t
        BY <3>2, <3>3, <2>1, <2>3
      <3>4. CASE u # t
        BY <3>1, <3>4, <2>1
      <3> QED
        BY <3>3, <3>4
    <2> QED
      BY <1>1, <2>1, <2>2, <2>4, <2>5
      DEF ConnectionLimit, NothingLeftBuffered, BatchShape
  <1> QED
    BY <1>2, <1>3, <1>4

\* Accepting: the new entry has a free token, an edge if its socket is already
\* readable, and an empty buffer.
LEMMA AcceptOneInv ==
    ASSUME LoopInv, AcceptOne
    PROVE  LoopInv'
  <1> USE DEF LoopInv
  <1> DEFINE c == Head(backlog)
             t == NextConnectionToken
  <1>1. /\ pc = "accept" /\ ~Full /\ backlog # <<>>
        /\ next_token' = After(t)
        /\ backlog' = Tail(backlog)
        /\ UNCHANGED <<pc, events, current, eof, chan, store>>
    BY DEF AcceptOne, handlerVars
  <1>2. t \in ConnTokens /\ t \notin DOMAIN connections
    BY <1>1, FreeToken
  <1>3. c \in Clients /\ backlog' \in Seq(Clients)
    BY <1>1 DEF LoopTypeOK
  <1>4. next_token' \in ConnTokens
    BY <1>1, <1>2, Constants DEF After, ConnTokens, FIRST_CONN_TOKEN
  <1> HIDE DEF c, t
  <1>5. CASE /\ connections' = [u \in DOMAIN connections \cup {t} |->
                   IF u = t THEN [peer |-> c, buf |-> <<>>, idle |-> 0] ELSE connections[u]]
             /\ ready' = IF Readable(c) THEN ready \cup {t} ELSE ready
             /\ UNCHANGED <<peer, inbox>>
    <2>1. /\ DOMAIN connections' = DOMAIN connections \cup {t}
          /\ connections'[t] = [peer |-> c, buf |-> <<>>, idle |-> 0]
          /\ \A u \in DOMAIN connections : connections'[u] = connections[u]
      BY <1>2, <1>5
    <2>2. [peer |-> c, buf |-> <<>>, idle |-> 0] \in Connection
      BY <1>3, Constants DEF Connection
    <2>3. connections' \in [DOMAIN connections' -> Connection]
      BY <1>5, <2>1, <2>2 DEF LoopTypeOK
    <2>4. LoopTypeOK'
      BY <1>1, <1>2, <1>3, <1>4, <1>5, <2>1, <2>3, Constants DEF LoopTypeOK
    <2>5. ConnectionLimit'
      <3>1. /\ IsFiniteSet(DOMAIN connections)
            /\ Cardinality(DOMAIN connections) \in Nat
        BY TableFinite DEF LoopTypeOK
      <3>2. Cardinality(DOMAIN connections') = Cardinality(DOMAIN connections) + 1
        BY <3>1, <2>1, <1>2, FS_AddElement
      <3> QED
        BY <3>1, <3>2, <1>1, Constants DEF Full, ConnectionLimit
    <2>6. EventsAreLive'
      BY <1>1, <1>5, <2>1 DEF EventsAreLive
    <2>7. NoLostReadable'
      <3> SUFFICES ASSUME NEW u \in DOMAIN connections', Readable(connections'[u].peer)
                   PROVE  \/ u \in ready' \cup events
                          \/ current = u /\ pc = "drain"
                          \/ current = u /\ pc = "dispatch" /\ eof
        BY <1>1, <1>5 DEF NoLostReadable, Readable
      <3>1. CASE u = t
        BY <3>1, <2>1, <1>5
      <3>2. CASE u # t
        BY <3>2, <2>1, <1>5 DEF NoLostReadable
      <3> QED
        BY <3>1, <3>2
    <2>8. NothingLeftBuffered'
      <3>1. NextCompleteFrame(connections'[t].buf) = "Incomplete"
        BY <2>1 DEF NextCompleteFrame
      <3> QED
        BY <3>1, <1>1, <2>1 DEF NothingLeftBuffered
    <2> QED
      BY <1>1, <2>4, <2>5, <2>6, <2>7, <2>8 DEF BatchShape
  <1>6. CASE Hangup({c}) /\ UNCHANGED <<connections, ready>>
    <2>1. /\ peer' \in [Clients -> {"off", "open", "eof", "reset"}]
          /\ \A d \in Clients : Readable(d)' => Readable(d)
      BY <1>6 DEF LoopTypeOK, Hangup, Readable
    <2>2. inbox' \in [Clients -> Seq(Pieces)]
      <3>1. <<>> \in Seq(Pieces)
        OBVIOUS
      <3> QED
        BY <3>1, <1>6 DEF LoopTypeOK, Hangup
    <2>3. LoopTypeOK'
      BY <1>1, <1>3, <1>4, <1>6, <2>1, <2>2 DEF LoopTypeOK
    <2>4. NoLostReadable'
      <3>1. \A u \in DOMAIN connections : connections[u].peer \in Clients
        BY DEF LoopTypeOK, Connection
      <3>2. \A u \in DOMAIN connections :
                Readable(connections[u].peer)' => Readable(connections[u].peer)
        BY <3>1, <2>1, <1>6 DEF Readable
      <3> QED
        BY <3>2, <1>1, <1>6 DEF NoLostReadable
    <2> QED
      BY <1>1, <1>6, <2>3, <2>4
      DEF ConnectionLimit, EventsAreLive, NothingLeftBuffered, BatchShape
  <1> QED
    BY <1>5, <1>6 DEF AcceptOne, c, t

\* A handler's return to the batch keeps the invariant when the connection it
\* worked on is gone, or has nothing left to handle.
LEMMA BackToEventsInv ==
    ASSUME LoopInv, BackToEvents,
           UNCHANGED <<connections, next_token, chan, store, ready, backlog, peer, inbox>>,
           pc \in {"accept", "commands", "dispatch"},
           pc = "dispatch" =>
               /\ ~eof
               /\ NextCompleteFrame(connections[current].buf) = "Incomplete"
    PROVE  LoopInv'
  <1> USE DEF LoopInv
  <1>1. pc' = "events" /\ current' = NoToken /\ eof' = FALSE /\ events' = events
    BY DEF BackToEvents
  <1>2. LoopTypeOK'
    BY <1>1 DEF LoopTypeOK
  <1>3. NoLostReadable'
    BY <1>1 DEF NoLostReadable, Readable
  <1>4. NothingLeftBuffered'
    BY <1>1 DEF NothingLeftBuffered
  <1> QED
    BY <1>1, <1>2, <1>3, <1>4 DEF ConnectionLimit, EventsAreLive, BatchShape

\* A connection with another buffer and a fresh last_activity.
LEMMA ReadConnection ==
    ASSUME NEW k \in Connection, NEW b \in Seq(Pieces)
    PROVE  /\ [k EXCEPT !.buf = b, !.idle = 0] \in Connection
           /\ [k EXCEPT !.buf = b, !.idle = 0].peer = k.peer
  <1>1. 0 \in 0..NormalTimeout
    BY Constants
  <1> QED
    BY <1>1 DEF Connection

\* Reading appends to the buffer of the connection being drained, and ends
\* once the socket is empty.
LEMMA DrainInv ==
    ASSUME LoopInv, ReadBytes \/ ReadEnds
    PROVE  LoopInv'
  <1> USE DEF LoopInv
  <1> DEFINE c == connections[current].peer
  <1>0. pc = "drain" /\ current \in DOMAIN connections
    BY DEF ReadBytes, ReadEnds, EventsAreLive
  <1>1. connections[current] \in Connection /\ c \in Clients
    BY <1>0 DEF LoopTypeOK, Connection
  <1>2. CASE ReadBytes
    <2>1. /\ inbox[c] # <<>>
          /\ connections' = [connections EXCEPT ![current].buf = Append(@, Head(inbox[c])),
                                                ![current].idle = 0]
          /\ inbox' = [inbox EXCEPT ![c] = Tail(@)]
          /\ UNCHANGED <<pc, events, current, eof, next_token, chan, store, ready, backlog, peer>>
      BY <1>2 DEF ReadBytes, handlerVars
    <2>2. inbox[c] \in Seq(Pieces)
      BY <1>1 DEF LoopTypeOK
    <2> HIDE DEF c
    <2>3. Head(inbox[c]) \in Pieces /\ Tail(inbox[c]) \in Seq(Pieces)
      BY <2>1, <2>2
    <2>4. Append(connections[current].buf, Head(inbox[c])) \in Seq(Pieces)
      BY <2>3, <1>1 DEF Connection
    <2>5. /\ DOMAIN connections' = DOMAIN connections
          /\ \A t \in DOMAIN connections : t # current => connections'[t] = connections[t]
          /\ connections'[current].peer = connections[current].peer
          /\ connections'[current] \in Connection
      <3>1. connections'[current] =
                [connections[current] EXCEPT !.buf = Append(@, Head(inbox[c])), !.idle = 0]
        BY <2>1, <1>0
      <3>2. /\ connections'[current].peer = connections[current].peer
            /\ connections'[current] \in Connection
        BY <3>1, <2>4, <1>1, ReadConnection
      <3> QED
        BY <3>2, <2>1
    <2>6. connections' \in [DOMAIN connections' -> Connection]
      <3>1. \A t \in DOMAIN connections : connections'[t] \in Connection
        BY <2>5 DEF LoopTypeOK
      <3>2. connections' = [t \in DOMAIN connections |-> connections'[t]]
        BY <2>1
      <3> QED
        BY <3>1, <3>2, <2>5
    <2>7. inbox' \in [Clients -> Seq(Pieces)]
      BY <2>1, <2>3, <1>1 DEF LoopTypeOK
    <2>8. LoopTypeOK'
      BY <2>1, <2>5, <2>6, <2>7 DEF LoopTypeOK
    <2>9. NoLostReadable'
      <3> SUFFICES ASSUME NEW t \in DOMAIN connections, t # current,
                          Readable(connections[t].peer)'
                   PROVE  t \in ready \cup events
        BY <2>1, <2>5, <1>0 DEF NoLostReadable, Readable
      <3>1. connections[t].peer \in Clients
        BY DEF LoopTypeOK, Connection
      <3>2. Readable(connections[t].peer)
        BY <2>1, <2>2, <2>5, <3>1 DEF Readable, LoopTypeOK
      <3> QED
        BY <3>2, <1>0 DEF NoLostReadable
    <2> QED
      BY <1>0, <2>1, <2>5, <2>8, <2>9
      DEF ConnectionLimit, EventsAreLive, NothingLeftBuffered, BatchShape
  <1>3. CASE ReadEnds
    <2>1. /\ inbox[c] = <<>> /\ pc' = "dispatch"
          /\ eof' = (peer[c] \in {"eof", "reset"})
          /\ UNCHANGED <<events, current, connections, next_token, chan, store,
                         ready, backlog, peer, inbox>>
      BY <1>3 DEF ReadEnds, kernelVars
    <2>2. eof' \in BOOLEAN
      BY <2>1
    <2>3. LoopTypeOK'
      BY <2>1, <2>2 DEF LoopTypeOK
    <2>4. NoLostReadable'
      <3> SUFFICES ASSUME NEW t \in DOMAIN connections, Readable(connections[t].peer)
                   PROVE  t \in ready \cup events \/ (current = t /\ eof')
        BY <2>1 DEF NoLostReadable, Readable
      <3>1. CASE t = current
        BY <3>1, <2>1 DEF Readable
      <3>2. CASE t # current
        BY <3>2, <1>0 DEF NoLostReadable
      <3> QED
        BY <3>1, <3>2
    <2> QED
      BY <1>0, <2>1, <2>3, <2>4
      DEF ConnectionLimit, EventsAreLive, NothingLeftBuffered, BatchShape
  <1> QED
    BY <1>2, <1>3

\* The buffer without its first complete frame is a buffer.
LEMMA WithoutFrameType ==
    ASSUME NEW buf \in Seq(Pieces), NextCompleteFrame(buf) = "Complete"
    PROVE  WithoutFrame(buf) \in Seq(Pieces)
  <1>1. buf # <<>>
    BY DEF NextCompleteFrame
  <1>2. Tail(buf) \in Seq(Pieces)
    BY <1>1
  <1>3. CASE Head(buf) = "half"
    <2>1. Len(buf) > 1
      BY <1>1, <1>3 DEF NextCompleteFrame
    <2> DEFINE rest == Tail(buf)
    <2>2. Len(rest) = Len(buf) - 1 /\ Len(buf) \in Nat /\ rest \in Seq(Pieces)
      BY <1>1
    <2>3. rest # <<>> /\ Tail(rest) \in Seq(Pieces)
      <3> HIDE DEF rest
      <3>1. Len(rest) # 0
        BY <2>1, <2>2
      <3> QED
        BY <2>2, <3>1
    <2> QED
      BY <1>2, <1>3, <2>3 DEF WithoutFrame
  <1> QED
    BY <1>2, <1>3 DEF WithoutFrame

\* Closing connections none of which has an event left in the batch.
LEMMA CloseInv ==
    ASSUME LoopInv, NEW T, CloseAndDeregister(T),
           T \cap events = {}, events' = events,
           pc' \in {"events", "poll"}, pc' = "poll" => events = {},
           pc \in {"drain", "dispatch"} => current \in T,
           current' \in {NoToken, current}, eof' \in BOOLEAN,
           UNCHANGED <<next_token, chan, store, backlog>>
    PROVE  LoopInv'
  <1> USE DEF LoopInv
  <1>1. /\ DOMAIN connections' = DOMAIN connections \ T
        /\ \A t \in DOMAIN connections' : connections'[t] = connections[t]
        /\ connections' \in [DOMAIN connections' -> Connection]
        /\ ready' = ready \ T
        /\ peer' \in [Clients -> {"off", "open", "eof", "reset"}]
        /\ inbox' \in [Clients -> Seq(Pieces)]
        /\ \A c \in Clients : Readable(c)' => Readable(c)
    BY Closing
  <1>2. LoopTypeOK'
    BY <1>1 DEF LoopTypeOK
  <1>3. ConnectionLimit'
    BY <1>1, SmallerTable
  <1>4. EventsAreLive'
    BY <1>1 DEF EventsAreLive
  <1>5. NoLostReadable'
    <2> SUFFICES ASSUME NEW t \in DOMAIN connections', Readable(connections[t].peer)'
                 PROVE  t \in ready' \cup events
      BY DEF NoLostReadable, Readable
    <2>1. t \in DOMAIN connections /\ t \notin T /\ connections[t].peer \in Clients
      BY <1>1 DEF LoopTypeOK, Connection
    <2>2. Readable(connections[t].peer)
      BY <1>1, <2>1 DEF Readable
    <2> QED
      BY <1>1, <2>1, <2>2 DEF NoLostReadable
  <1>6. NothingLeftBuffered'
    BY <1>1 DEF NothingLeftBuffered
  <1> QED
    BY <1>2, <1>3, <1>4, <1>5, <1>6 DEF BatchShape

\* Dispatching takes frames out of the buffer of the current connection, until
\* only an incomplete one is left or the connection is closed.
LEMMA DispatchInv ==
    ASSUME LoopInv, DispatchFrame \/ WriteFails \/ FramingFails \/ DispatchEnds
    PROVE  LoopInv'
  <1> USE DEF LoopInv
  <1>0. pc = "dispatch" /\ current \in DOMAIN connections /\ current \notin events
    BY DEF DispatchFrame, WriteFails, FramingFails, DispatchEnds, EventsAreLive, BatchShape
  <1>1. CASE DispatchFrame
    <2>1. /\ NextCompleteFrame(connections[current].buf) = "Complete"
          /\ connections' = [connections EXCEPT ![current].buf = WithoutFrame(@)]
          /\ UNCHANGED <<pc, events, current, eof, next_token, chan, store,
                         ready, backlog, peer, inbox>>
      BY <1>1 DEF DispatchFrame, handlerVars, kernelVars
    <2>2. connections[current] \in Connection
      BY <1>0 DEF LoopTypeOK
    <2>3. WithoutFrame(connections[current].buf) \in Seq(Pieces)
      BY <2>1, <2>2, WithoutFrameType DEF Connection
    <2>4. /\ DOMAIN connections' = DOMAIN connections
          /\ \A t \in DOMAIN connections : t # current => connections'[t] = connections[t]
          /\ connections'[current].peer = connections[current].peer
          /\ connections'[current] \in Connection
      <3>1. connections'[current] = [connections[current] EXCEPT !.buf = WithoutFrame(@)]
        BY <2>1, <1>0
      <3> QED
        BY <3>1, <2>1, <2>2, <2>3, <1>0 DEF Connection
    <2>5. connections' \in [DOMAIN connections' -> Connection]
      <3>1. \A t \in DOMAIN connections : connections'[t] \in Connection
        BY <2>4 DEF LoopTypeOK
      <3>2. connections' = [t \in DOMAIN connections |-> connections'[t]]
        BY <2>1
      <3> QED
        BY <3>1, <3>2, <2>4
    <2>6. LoopTypeOK'
      BY <2>1, <2>4, <2>5 DEF LoopTypeOK
    <2>7. NoLostReadable'
      BY <2>1, <2>4 DEF NoLostReadable, Readable
    <2> QED
      BY <1>0, <2>1, <2>4, <2>6, <2>7
      DEF ConnectionLimit, EventsAreLive, NothingLeftBuffered, BatchShape
  <1>2. CASE CloseAndDeregister({current}) /\ BackToEvents
             /\ UNCHANGED <<next_token, chan, store, backlog>>
    BY <1>0, <1>2, CloseInv DEF BackToEvents
  <1>3. CASE DispatchEnds /\ ~eof
    BY <1>0, <1>3, BackToEventsInv DEF DispatchEnds
  <1> QED
    BY <1>1, <1>2, <1>3 DEF WriteFails, FramingFails, DispatchEnds

\* The sweep runs between batches, so no event of a closed connection is left.
LEMMA SweepInv ==
    ASSUME LoopInv, Sweep
    PROVE  LoopInv'
  <1>1. /\ CloseAndDeregister(StaleTokens) /\ pc = "sweep" /\ pc' = "poll"
        /\ UNCHANGED <<events, current, eof, next_token, chan, store, backlog>>
    BY DEF Sweep, handlerVars
  <1>2. events = {} /\ eof' \in BOOLEAN
    BY <1>1 DEF LoopInv, BatchShape, LoopTypeOK
  <1> QED
    BY <1>1, <1>2, CloseInv

\* After the exit nothing is left to lose.
LEMMA ExitInv ==
    ASSUME LoopInv, NEW how \in {"stopped", "failed"}, Exit(how), chan' \in Seq(Commands)
    PROVE  LoopInv'
  <1> USE DEF LoopInv
  <1>0. <<>> \in Seq(Pieces) /\ <<>> \in Seq(Clients)
    OBVIOUS
  <1>1. /\ pc' = how /\ events' = {} /\ ready' = {} /\ eof' = FALSE /\ current' = NoToken
        /\ DOMAIN connections' = {} /\ backlog' = <<>>
        /\ UNCHANGED <<next_token, store>>
    BY DEF Exit
  <1>2. /\ peer' \in [Clients -> {"off", "open", "eof", "reset"}]
        /\ inbox' \in [Clients -> Seq(Pieces)]
    BY <1>0 DEF Exit, Hangup
  <1>3. connections' \in [DOMAIN connections' -> Connection]
    BY DEF Exit
  <1>4. LoopTypeOK'
    BY <1>0, <1>1, <1>2, <1>3 DEF LoopTypeOK
  <1>5. ConnectionLimit'
    BY <1>1, FS_EmptySet, Constants DEF ConnectionLimit
  <1> QED
    BY <1>1, <1>4, <1>5 DEF EventsAreLive, NoLostReadable, NothingLeftBuffered, BatchShape

LEMMA CommandInv ==
    ASSUME LoopInv, CommandStep
    PROVE  LoopInv'
  <1> USE DEF LoopInv
  <1>1. pc = "commands"
    BY DEF CommandStep, ApplySet, TakeShutdown, CommandsEmpty
  <1>2. CASE ApplySet
    <2>1. /\ chan # <<>> /\ chan' = Tail(chan)
          /\ store' = [store EXCEPT ![Head(chan).oid] = Head(chan).value]
          /\ UNCHANGED <<pc, events, current, eof, connections, next_token,
                         ready, backlog, peer, inbox>>
          /\ Head(chan).op = "SetValue"
      BY <1>2 DEF ApplySet, handlerVars, kernelVars
    <2>2. chan' \in Seq(Commands) /\ Head(chan) \in Commands
      BY <2>1 DEF LoopTypeOK
    <2>3. PICK o \in Oids, v \in Values : Head(chan) = SetCommand(o, v)
      BY <2>1, <2>2 DEF Commands, ShutdownCommand
    <2>4. store' \in [Oids -> Values \cup {NoValue}]
      BY <2>1, <2>3 DEF LoopTypeOK, SetCommand
    <2>5. LoopTypeOK'
      BY <2>1, <2>2, <2>4 DEF LoopTypeOK
    <2> QED
      BY <2>1, <2>5
      DEF ConnectionLimit, EventsAreLive, NoLostReadable, NothingLeftBuffered, BatchShape,
          Readable
  <1>3. CASE TakeShutdown
    <2>1. chan' \in Seq(Commands) /\ Exit("stopped")
      BY <1>3 DEF TakeShutdown, LoopTypeOK
    <2> QED
      BY <2>1, ExitInv
  <1>4. CASE CommandsEmpty
    BY <1>1, <1>4, BackToEventsInv DEF CommandsEmpty, kernelVars
  <1> QED
    BY <1>2, <1>3, <1>4 DEF CommandStep

LEMMA ConnectionNextInv ==
    ASSUME LoopInv, ConnectionNext
    PROVE  LoopInv'
  <1>1. CASE Poll \/ PollTimeout \/ BatchDone \/ \E t \in 0..MaxToken : TakeEvent(t)
    BY <1>1, BatchInv
  <1>2. CASE AcceptOne
    BY <1>2, AcceptOneInv
  <1>3. CASE AcceptStops
    BY <1>3, BackToEventsInv DEF AcceptStops, kernelVars
  <1>4. CASE ReadBytes \/ ReadEnds
    BY <1>4, DrainInv
  <1>5. CASE DispatchFrame \/ WriteFails \/ FramingFails \/ DispatchEnds
    BY <1>5, DispatchInv
  <1>6. CASE Sweep
    BY <1>6, SweepInv
  <1>7. CASE PollFails
    <2>1. chan' \in Seq(Commands) /\ Exit("failed")
      BY <1>7 DEF PollFails, LoopInv, LoopTypeOK
    <2> QED
      BY <2>1, ExitInv
  <1>8. CASE Client
    BY <1>8, ClientInv
  <1>9. CASE Tick
    BY <1>9, TickInv
  <1> QED
    BY <1>1, <1>2, <1>3, <1>4, <1>5, <1>6, <1>7, <1>8, <1>9
    DEF ConnectionNext, ConnectionStep

LEMMA LoopStutterInv ==
    ASSUME LoopInv, UNCHANGED loopVars
    PROVE  LoopInv'
  BY DEF loopVars, LoopInv, LoopTypeOK, ConnectionLimit, EventsAreLive, NoLostReadable,
         NothingLeftBuffered, BatchShape, Readable

LEMMA LoopInvariance == LoopSpec => []LoopInv
  <1>1. LoopInit => LoopInv
    BY LoopInitInv
  <1>2. LoopInv /\ [ConnectionNext \/ LoopDone]_loopVars => LoopInv'
    BY ConnectionNextInv, LoopStutterInv DEF LoopDone
  <1> QED
    BY <1>1, <1>2, PTL DEF LoopSpec

\* Type correctness of the loop; in particular no connection is ever stored
\* under the listener's or the waker's token, whatever next_connection_token's
\* counter has wrapped to.
THEOREM LoopTypes == LoopSpec => []LoopTypeOK
  <1>1. LoopInv => LoopTypeOK
    BY DEF LoopInv
  <1> QED
    BY <1>1, LoopInvariance, PTL

\* The table never grows past max_connections (accept_connections).
THEOREM LimitHolds == LoopSpec => []ConnectionLimit
  <1>1. LoopInv => ConnectionLimit
    BY DEF LoopInv
  <1> QED
    BY <1>1, LoopInvariance, PTL

\* An event always names a connection of the table: none is stale, although
\* handlers close connections while the batch is being handled.
THEOREM NoStaleEvent == LoopSpec => []EventsAreLive
  <1>1. LoopInv => EventsAreLive
    BY DEF LoopInv
  <1> QED
    BY <1>1, LoopInvariance, PTL

\* With edge-triggered readiness, no unread byte and no unseen end is ever
\* without a pending event or a handler that will get to it.
THEOREM ReadinessNeverLost == LoopSpec => []NoLostReadable
  <1>1. LoopInv => NoLostReadable
    BY DEF LoopInv
  <1> QED
    BY <1>1, LoopInvariance, PTL

\* No complete frame stays in a read buffer after its connection's handler.
THEOREM BuffersAreDispatched == LoopSpec => []NothingLeftBuffered
  <1>1. LoopInv => NothingLeftBuffered
    BY DEF LoopInv
  <1> QED
    BY <1>1, LoopInvariance, PTL

-----------------------------------------------------------------------------
(* Sockets *)

\* Each connection has one place, in the table or in the backlog, and the
\* places are those of the sockets that are not closed.
SocketsInv ==
    /\ \A t, u \in DOMAIN connections : connections[t].peer = connections[u].peer => t = u
    /\ \A i, j \in DOMAIN backlog : backlog[i] = backlog[j] => i = j
    /\ \A t \in DOMAIN connections, i \in DOMAIN backlog : connections[t].peer # backlog[i]
    /\ \A c \in Clients :
          peer[c] # "off" <=> \/ \E t \in DOMAIN connections : connections[t].peer = c
                              \/ \E i \in DOMAIN backlog : backlog[i] = c

\* Counting the places.
LEMMA PlacesCounted ==
    ASSUME LoopTypeOK, SocketsInv
    PROVE  SocketsAccountedFor
  <1> SUFFICES ASSUME NEW c \in Clients
               PROVE  LET inTable == Cardinality(TokensOf(c))
                          waiting == Cardinality({i \in DOMAIN backlog : backlog[i] = c})
                      IN  inTable + waiting = IF peer[c] = "off" THEN 0 ELSE 1
    BY DEF SocketsAccountedFor
  <1> DEFINE T == TokensOf(c)
             W == {i \in DOMAIN backlog : backlog[i] = c}
  <1>1. ASSUME NEW S, S = {} PROVE Cardinality(S) = 0
    BY <1>1, FS_EmptySet
  <1>2. ASSUME NEW S, NEW x \in S, \A y \in S : y = x PROVE Cardinality(S) = 1
    <2>1. S = {x}
      BY <1>2
    <2> QED
      BY <2>1, FS_Singleton
  <1>3. CASE \E t \in DOMAIN connections : connections[t].peer = c
    <2>1. PICK t \in DOMAIN connections : connections[t].peer = c
      BY <1>3
    <2>2. Cardinality(T) = 1
      <3>1. t \in T /\ \A u \in T : u = t
        BY <2>1 DEF TokensOf, SocketsInv
      <3> HIDE DEF T
      <3> QED
        BY <1>2, <3>1
    <2>3. Cardinality(W) = 0
      <3>1. W = {}
        BY <2>1 DEF SocketsInv
      <3> QED
        BY <1>1, <3>1
    <2>4. peer[c] # "off"
      BY <2>1 DEF SocketsInv
    <2> QED
      BY <2>2, <2>3, <2>4
  <1>4. CASE ~\E t \in DOMAIN connections : connections[t].peer = c
    <2>1. Cardinality(T) = 0
      BY <1>1, <1>4 DEF TokensOf
    <2>2. CASE \E i \in DOMAIN backlog : backlog[i] = c
      <3>1. Cardinality(W) = 1
        BY <1>2, <2>2 DEF SocketsInv
      <3>2. peer[c] # "off"
        BY <2>2 DEF SocketsInv
      <3> QED
        BY <2>1, <3>1, <3>2
    <2>3. CASE ~\E i \in DOMAIN backlog : backlog[i] = c
      <3>1. W = {}
        BY <2>3
      <3>2. Cardinality(W) = 0
        BY <1>1, <3>1
      <3>3. peer[c] = "off"
        BY <1>4, <2>3 DEF SocketsInv
      <3> QED
        BY <2>1, <3>2, <3>3
    <2> QED
      BY <2>2, <2>3
  <1> QED
    BY <1>3, <1>4

\* Steps that open, move and close no socket.
LEMMA SocketsSame ==
    ASSUME SocketsInv, DOMAIN connections' = DOMAIN connections,
           \A t \in DOMAIN connections : connections'[t].peer = connections[t].peer,
           backlog' = backlog, \A c \in Clients : peer'[c] = "off" <=> peer[c] = "off"
    PROVE  SocketsInv'
  BY DEF SocketsInv

LEMMA ClientSockets ==
    ASSUME LoopTypeOK, SocketsInv, Client
    PROVE  SocketsInv'
  <1>1. PICK c \in Clients : \/ Connect(c) \/ \E piece \in Pieces : Send(c, piece)
                             \/ Finish(c) \/ Reset(c)
    BY DEF Client
  <1>2. CASE Connect(c)
    <2>1. /\ connections' = connections /\ peer[c] = "off" /\ peer' = [peer EXCEPT ![c] = "open"]
          /\ backlog' = Append(backlog, c)
      BY <1>2 DEF Connect
    <2> DEFINE n == Len(backlog)
    <2>2. /\ n \in Nat /\ DOMAIN backlog = 1..n /\ DOMAIN backlog' = 1..(n + 1)
          /\ (\A i \in 1..n : backlog'[i] = backlog[i]) /\ backlog'[n + 1] = c
      BY <2>1 DEF LoopTypeOK
    <2>3. /\ \A t \in DOMAIN connections : connections[t].peer # c
          /\ \A i \in 1..n : backlog[i] # c
      BY <2>1, <2>2 DEF SocketsInv
    <2>4. /\ peer'[c] # "off" /\ \A d \in Clients \ {c} : peer'[d] = peer[d]
      BY <2>1 DEF LoopTypeOK
    <2>5. \A i \in 1..(n + 1) : i \in 1..n \/ i = n + 1
      BY <2>2
    <2> HIDE DEF n
    <2>6. \A i, j \in DOMAIN backlog' : backlog'[i] = backlog'[j] => i = j
      BY <2>2, <2>3, <2>5 DEF SocketsInv
    <2>7. \A t \in DOMAIN connections', i \in DOMAIN backlog' : connections'[t].peer # backlog'[i]
      BY <2>1, <2>2, <2>3, <2>5 DEF SocketsInv
    <2>8. ASSUME NEW d \in Clients
          PROVE  peer'[d] # "off" <=> \/ \E t \in DOMAIN connections' : connections'[t].peer = d
                                      \/ \E i \in DOMAIN backlog' : backlog'[i] = d
      <3>1. n + 1 \in 1..(n + 1) /\ \A i \in 1..n : i \in 1..(n + 1)
        BY <2>2
      <3>2. CASE d = c
        BY <2>2, <2>4, <3>1, <3>2
      <3>3. CASE d # c
        <4>1. (\E i \in DOMAIN backlog' : backlog'[i] = d) <=> (\E i \in DOMAIN backlog : backlog[i] = d)
          BY <2>2, <2>5, <3>1, <3>3
        <4> QED
          BY <2>1, <2>4, <3>3, <4>1 DEF SocketsInv
      <3> QED
        BY <3>2, <3>3
    <2>9. \A t, u \in DOMAIN connections' : connections'[t].peer = connections'[u].peer => t = u
      BY <2>1 DEF SocketsInv
    <2> QED
      BY <2>6, <2>7, <2>8, <2>9 DEF SocketsInv
  <1>3. CASE (\E piece \in Pieces : Send(c, piece)) \/ Finish(c) \/ Reset(c)
    <2>1. connections' = connections /\ backlog' = backlog
      BY <1>3 DEF Send, Finish, Reset
    <2>2. \A d \in Clients : peer'[d] = "off" <=> peer[d] = "off"
      BY <1>3 DEF Send, Finish, Reset, LoopTypeOK
    <2> QED
      BY <2>1, <2>2, SocketsSame
  <1> QED
    BY <1>1, <1>2, <1>3

\* Closing takes a place away with its socket, and only that one.
LEMMA CloseSockets ==
    ASSUME LoopTypeOK, SocketsInv, NEW X, CloseAndDeregister(X), backlog' = backlog
    PROVE  SocketsInv'
  <1> DEFINE C == {connections[t].peer : t \in DOMAIN connections \cap X}
  <1>1. /\ DOMAIN connections' = DOMAIN connections \ X
        /\ \A t \in DOMAIN connections' : connections'[t] = connections[t]
    BY Closing
  <1>2. \A c \in Clients : peer'[c] = IF c \in C THEN "off" ELSE peer[c]
    BY DEF CloseAndDeregister, Hangup
  <1>3. \A t \in DOMAIN connections : t \in X <=> connections[t].peer \in C
    BY DEF SocketsInv
  <1>4. \A i \in DOMAIN backlog : backlog[i] \notin C
    BY DEF SocketsInv
  <1>5. \A c \in C : \A t \in DOMAIN connections' : connections'[t].peer # c
    BY <1>1, <1>3
  <1> HIDE DEF C
  <1>6. ASSUME NEW c \in Clients
        PROVE  peer'[c] # "off" <=> \/ \E t \in DOMAIN connections' : connections'[t].peer = c
                                    \/ \E i \in DOMAIN backlog' : backlog'[i] = c
    <2>1. CASE c \in C
      BY <1>2, <1>4, <1>5, <2>1
    <2>2. CASE c \notin C
      <3>1. (\E t \in DOMAIN connections' : connections'[t].peer = c)
                <=> (\E t \in DOMAIN connections : connections[t].peer = c)
        BY <1>1, <1>3, <2>2
      <3> QED
        BY <1>2, <2>2, <3>1 DEF SocketsInv
    <2> QED
      BY <2>1, <2>2
  <1> QED
    BY <1>1, <1>6 DEF SocketsInv

\* accept() moves the oldest waiting client into the table, under a token that
\* was free, or drops it.
LEMMA AcceptSockets ==
    ASSUME LoopTypeOK, SocketsInv, AcceptOne
    PROVE  SocketsInv'
  <1> DEFINE c == Head(backlog)
             t == NextConnectionToken
             n == Len(backlog)
  <1>1. t \notin DOMAIN connections
    BY FreeToken DEF AcceptOne
  <1>2. /\ n \in Nat \ {0} /\ DOMAIN backlog = 1..n /\ backlog[1] = c /\ c \in Clients
        /\ DOMAIN backlog' = 1..(n - 1) /\ \A i \in 1..(n - 1) : backlog'[i] = backlog[i + 1]
    <2>1. backlog \in Seq(Clients) /\ backlog # <<>> /\ backlog' = Tail(backlog)
      BY DEF AcceptOne, LoopTypeOK
    <2> QED
      BY <2>1
  <1> HIDE DEF n
  <1>3. \A i \in 1..(n - 1) : i + 1 \in 1..n /\ i + 1 # 1
    BY <1>2
  <1>4. \A i \in 1..n : i = 1 \/ (i - 1 \in 1..(n - 1) /\ (i - 1) + 1 = i)
    BY <1>2
  <1>5. 1 \in 1..n
    BY <1>2
  <1>6. \A i \in DOMAIN backlog' : backlog'[i] # c
    BY <1>2, <1>3, <1>5 DEF SocketsInv
  <1>7. ASSUME NEW i \in DOMAIN backlog', NEW j \in DOMAIN backlog', backlog'[i] = backlog'[j] PROVE i = j
    <2>1. i + 1 \in DOMAIN backlog /\ j + 1 \in DOMAIN backlog /\ backlog[i + 1] = backlog[j + 1]
      BY <1>2, <1>3, <1>7
    <2>2. i + 1 = j + 1
      BY <2>1 DEF SocketsInv
    <2> QED
      BY <1>2, <2>2
  <1>8. \A d \in Clients \ {c} :
            (\E i \in DOMAIN backlog' : backlog'[i] = d) <=> (\E i \in DOMAIN backlog : backlog[i] = d)
    <2> SUFFICES ASSUME NEW d \in Clients \ {c}
                 PROVE  (\E i \in DOMAIN backlog' : backlog'[i] = d)
                            <=> (\E i \in DOMAIN backlog : backlog[i] = d)
      OBVIOUS
    <2>1. ASSUME NEW i \in DOMAIN backlog, backlog[i] = d PROVE \E j \in DOMAIN backlog' : backlog'[j] = d
      <3>1. i # 1
        BY <1>2, <2>1
      <3>2. i - 1 \in DOMAIN backlog' /\ backlog'[i - 1] = d
        BY <1>2, <1>4, <2>1, <3>1
      <3> QED
        BY <3>2
    <2>2. ASSUME NEW i \in DOMAIN backlog', backlog'[i] = d PROVE \E j \in DOMAIN backlog : backlog[j] = d
      <3>1. i + 1 \in DOMAIN backlog /\ backlog[i + 1] = d
        BY <1>2, <1>3, <2>2
      <3> QED
        BY <3>1
    <2> QED
      BY <2>1, <2>2
  <1>9. /\ \A u \in DOMAIN connections : connections[u].peer # c
        /\ peer[c] # "off"
    BY <1>2, <1>5 DEF SocketsInv
  <1>10. \A u \in DOMAIN connections, i \in DOMAIN backlog' : connections[u].peer # backlog'[i]
    <2> SUFFICES ASSUME NEW u \in DOMAIN connections, NEW i \in DOMAIN backlog'
                 PROVE  connections[u].peer # backlog'[i]
      OBVIOUS
    <2>1. i + 1 \in DOMAIN backlog /\ backlog'[i] = backlog[i + 1]
      BY <1>2, <1>3
    <2> QED
      BY <2>1 DEF SocketsInv
  <1>11. \/ /\ connections' = [u \in DOMAIN connections \cup {t} |->
                   IF u = t THEN [peer |-> c, buf |-> <<>>, idle |-> 0] ELSE connections[u]]
            /\ peer' = peer
         \/ Hangup({c}) /\ connections' = connections
    BY DEF AcceptOne
  <1> HIDE DEF c, t
  <1>12. CASE /\ connections' = [u \in DOMAIN connections \cup {t} |->
                     IF u = t THEN [peer |-> c, buf |-> <<>>, idle |-> 0] ELSE connections[u]]
              /\ peer' = peer
    <2>1. /\ DOMAIN connections' = DOMAIN connections \cup {t} /\ connections'[t].peer = c
          /\ \A u \in DOMAIN connections : connections'[u] = connections[u]
      BY <1>1, <1>12
    <2>2. \A u, v \in DOMAIN connections' : connections'[u].peer = connections'[v].peer => u = v
      BY <1>9, <2>1 DEF SocketsInv
    <2>3. \A u \in DOMAIN connections', i \in DOMAIN backlog' : connections'[u].peer # backlog'[i]
      BY <1>6, <1>10, <2>1
    <2>4. ASSUME NEW d \in Clients
          PROVE  peer'[d] # "off" <=> \/ \E u \in DOMAIN connections' : connections'[u].peer = d
                                      \/ \E i \in DOMAIN backlog' : backlog'[i] = d
      <3>1. CASE d = c
        BY <1>9, <1>12, <2>1, <3>1
      <3>2. CASE d # c
        <4>1. (\E u \in DOMAIN connections' : connections'[u].peer = d)
                  <=> (\E u \in DOMAIN connections : connections[u].peer = d)
          BY <2>1, <3>2
        <4> QED
          BY <1>8, <1>12, <3>2, <4>1 DEF SocketsInv
      <3> QED
        BY <3>1, <3>2
    <2> QED
      BY <1>7, <2>2, <2>3, <2>4 DEF SocketsInv
  <1>13. CASE Hangup({c}) /\ connections' = connections
    <2>1. \A d \in Clients : peer'[d] = IF d = c THEN "off" ELSE peer[d]
      BY <1>13 DEF Hangup
    <2>2. ASSUME NEW d \in Clients
          PROVE  peer'[d] # "off" <=> \/ \E u \in DOMAIN connections' : connections'[u].peer = d
                                      \/ \E i \in DOMAIN backlog' : backlog'[i] = d
      <3>1. CASE d = c
        BY <1>6, <1>9, <1>13, <2>1, <3>1
      <3>2. CASE d # c
        BY <1>8, <1>13, <2>1, <3>2 DEF SocketsInv
      <3> QED
        BY <3>1, <3>2
    <2> QED
      BY <1>7, <1>10, <1>13, <2>2 DEF SocketsInv
  <1> QED
    BY <1>11, <1>12, <1>13

LEMMA SocketsKept ==
    ASSUME LoopTypeOK, EventsAreLive, SocketsInv, [ConnectionNext \/ LoopDone]_loopVars
    PROVE  SocketsInv'
  <1>1. CASE \/ Poll \/ PollTimeout \/ BatchDone \/ (\E t \in 0..MaxToken : TakeEvent(t))
             \/ AcceptStops \/ ReadEnds \/ LoopDone \/ UNCHANGED loopVars
    <2>1. connections' = connections /\ backlog' = backlog /\ peer' = peer
      BY <1>1 DEF Poll, PollTimeout, BatchDone, TakeEvent, AcceptStops, ReadEnds, LoopDone,
                  loopVars, kernelVars
    <2> QED
      BY <2>1, SocketsSame
  <1>2. CASE AcceptOne
    BY <1>2, AcceptSockets
  <1>3. CASE ReadBytes \/ DispatchFrame
    <2>1. current \in DOMAIN connections /\ connections \in [DOMAIN connections -> Connection]
      BY <1>3 DEF EventsAreLive, LoopTypeOK, ReadBytes, DispatchFrame
    <2>2. backlog' = backlog /\ peer' = peer
      BY <1>3 DEF ReadBytes, DispatchFrame, kernelVars
    <2>3. /\ DOMAIN connections' = DOMAIN connections
          /\ \A t \in DOMAIN connections : connections'[t].peer = connections[t].peer
      <3>1. CASE ReadBytes
        BY <2>1, <3>1 DEF ReadBytes, Connection
      <3>2. CASE DispatchFrame
        BY <2>1, <3>2 DEF DispatchFrame, Connection
      <3> QED
        BY <1>3, <3>1, <3>2
    <2> QED
      BY <2>2, <2>3, SocketsSame
  <1>4. CASE WriteFails \/ FramingFails \/ (DispatchEnds /\ eof)
    <2>1. CloseAndDeregister({current}) /\ backlog' = backlog
      BY <1>4 DEF WriteFails, FramingFails, DispatchEnds
    <2> QED
      BY <2>1, CloseSockets
  <1>5. CASE DispatchEnds /\ ~eof
    <2>1. connections' = connections /\ backlog' = backlog /\ peer' = peer
      BY <1>5 DEF DispatchEnds
    <2> QED
      BY <2>1, SocketsSame
  <1>6. CASE Sweep
    <2>1. CloseAndDeregister(StaleTokens) /\ backlog' = backlog
      BY <1>6 DEF Sweep
    <2> QED
      BY <2>1, CloseSockets
  <1>7. CASE PollFails
    <2>1. /\ DOMAIN connections' = {} /\ backlog' = <<>> /\ DOMAIN backlog' = {}
          /\ \A c \in Clients : peer'[c] = "off"
      BY <1>7 DEF PollFails, Exit, Hangup
    <2> QED
      BY <2>1 DEF SocketsInv
  <1>8. CASE Client
    BY <1>8, ClientSockets
  <1>9. CASE Tick
    <2>1. connections \in [DOMAIN connections -> Connection] /\ backlog' = backlog /\ peer' = peer
      BY <1>9 DEF LoopTypeOK, Tick, kernelVars
    <2>2. /\ DOMAIN connections' = DOMAIN connections
          /\ \A t \in DOMAIN connections : connections'[t].peer = connections[t].peer
      BY <1>9, <2>1 DEF Tick, Connection
    <2> QED
      BY <2>1, <2>2, SocketsSame
  <1> QED
    BY <1>1, <1>2, <1>3, <1>4, <1>5, <1>6, <1>7, <1>8, <1>9 DEF ConnectionNext, ConnectionStep

\* Every socket is accounted for: none leaks from the table or the backlog,
\* none is lost by a reused token, whatever fails and closes in between.
THEOREM NoSocketLost == LoopSpec => []SocketsAccountedFor
  <1>1. LoopInit => SocketsInv
    BY DEF LoopInit, SocketsInv
  <1>2. LoopInv /\ SocketsInv /\ [ConnectionNext \/ LoopDone]_loopVars => SocketsInv'
    BY SocketsKept DEF LoopInv
  <1>3. LoopInv /\ SocketsInv => SocketsAccountedFor
    BY PlacesCounted DEF LoopInv
  <1> QED
    BY <1>1, <1>2, <1>3, LoopInvariance, PTL DEF LoopSpec

-----------------------------------------------------------------------------
(* Handles and the loop *)

Leaving == {"dropping", "waking", "joining", "done"}

\* A thread inside AgentInner::drop owned the last handle.
LastHandle ==
    \A t, u \in Threads :
        app[t] \in Leaving /\ u # t => app[u] \in {"none", "dropped"}

\* Nothing is posted behind Shutdown, which only the last handle's drop posts.
ShutdownIsLast ==
    \A i \in DOMAIN chan : chan[i].op = "Shutdown" =>
        /\ i = Len(chan)
        /\ \E t \in Threads : app[t] \in {"waking", "joining", "done"}

\* A loop that stopped has emptied its channel.
StoppedEmpty == pc = "stopped" => chan = <<>>

\* The inductive invariant of the handles.  That a clean shutdown loses no set
\* rests on Shutdown being last, and that on the last handle being alone.
AgentInv ==
    /\ TypeOK
    /\ LoopInv
    /\ NoLostCommand
    /\ SenderOutlivesLoop
    /\ LastHandle
    /\ ShutdownIsLast
    /\ StoppedEmpty

LEMMA AgentInitInv == Init => AgentInv
  <1> SUFFICES ASSUME Init PROVE AgentInv
    OBVIOUS
  <1>1. LoopInv
    BY LoopInitInv DEF Init
  <1>2. TypeOK
    BY <1>1, AgentAssumption DEF Init, TypeOK, LoopInv, AppStates, AgentAssumption
  <1>3. SenderOutlivesLoop /\ LastHandle
    BY AgentAssumption DEF Init, SenderOutlivesLoop, LastHandle, Leaving, AgentAssumption
  <1>4. chan = <<>>
    BY DEF Init, LoopInit
  <1>5. NoLostCommand /\ ShutdownIsLast /\ StoppedEmpty
    BY <1>4 DEF NoLostCommand, ShutdownIsLast, StoppedEmpty
  <1> QED
    BY <1>1, <1>2, <1>3, <1>5 DEF AgentInv

\* The steps on connections take the waker's event neither out of the pending
\* ones nor out of the batch, except to handle it.
LEMMA ConnectionNextWaker ==
    ASSUME LoopInv, ConnectionNext
    PROVE  /\ chan' = chan /\ store' = store
           /\ \/ pc' = "failed"
              \/ /\ ~LoopExited => ~LoopExited'
                 /\ LoopExited => pc' = pc
                 /\ WAKER_TOKEN \in ready \cup events =>
                        WAKER_TOKEN \in ready' \cup events' \/ pc' = "commands"
                 /\ pc = "commands" => pc' = "commands"
  <1> DEFINE Goal ==
           /\ chan' = chan /\ store' = store
           /\ \/ pc' = "failed"
              \/ /\ ~LoopExited => ~LoopExited'
                 /\ LoopExited => pc' = pc
                 /\ WAKER_TOKEN \in ready \cup events =>
                        WAKER_TOKEN \in ready' \cup events' \/ pc' = "commands"
                 /\ pc = "commands" => pc' = "commands"
  <1>0. WAKER_TOKEN \notin DOMAIN connections /\ WAKER_TOKEN = 1
    BY Constants DEF LoopInv, LoopTypeOK, WAKER_TOKEN
  <1>1. CASE Poll \/ PollTimeout \/ BatchDone
    <2>1. /\ UNCHANGED <<chan, store>> /\ pc \in {"poll", "events"}
          /\ pc' \in {"events", "sweep"}
          /\ ready \cup events \subseteq ready' \cup events'
      BY <1>1 DEF Poll, PollTimeout, BatchDone, handlerVars, kernelVars, LoopInv, BatchShape
    <2> QED
      BY <2>1 DEF LoopExited
  <1>2. ASSUME NEW t \in 0..MaxToken, TakeEvent(t) PROVE Goal
    <2>1. /\ UNCHANGED <<chan, store, ready>> /\ pc = "events" /\ events' = events \ {t}
          /\ pc' \in {"accept", "commands", "drain"}
          /\ t = WAKER_TOKEN => pc' = "commands"
      BY <1>2, <1>0 DEF TakeEvent, kernelVars, LISTENER_TOKEN
    <2> QED
      BY <2>1 DEF LoopExited
  <1>3. CASE AcceptOne \/ AcceptStops
    <2>1. /\ UNCHANGED <<chan, store, events>> /\ pc = "accept" /\ pc' \in {"accept", "events"}
          /\ ready \subseteq ready'
      BY <1>3 DEF AcceptOne, AcceptStops, BackToEvents, handlerVars, kernelVars
    <2> QED
      BY <2>1 DEF LoopExited
  <1>4. CASE ReadBytes \/ ReadEnds \/ DispatchFrame
    <2>1. /\ UNCHANGED <<chan, store, events, ready>> /\ pc \in {"drain", "dispatch"}
          /\ pc' \in {"drain", "dispatch"}
      BY <1>4 DEF ReadBytes, ReadEnds, DispatchFrame, handlerVars, kernelVars
    <2> QED
      BY <2>1 DEF LoopExited
  <1>5. CASE WriteFails \/ FramingFails \/ DispatchEnds
    <2>1. /\ UNCHANGED <<chan, store, events>> /\ pc = "dispatch" /\ pc' = "events"
          /\ ready \ {current} \subseteq ready'
      BY <1>5 DEF WriteFails, FramingFails, DispatchEnds, BackToEvents, CloseAndDeregister
    <2>2. current # WAKER_TOKEN
      BY <1>0, <2>1 DEF LoopInv, EventsAreLive
    <2> QED
      BY <2>1, <2>2 DEF LoopExited
  <1>6. CASE Sweep
    <2>1. /\ UNCHANGED <<chan, store, events>> /\ pc = "sweep" /\ pc' = "poll"
          /\ ready' = ready \ StaleTokens
      BY <1>6 DEF Sweep, CloseAndDeregister, handlerVars
    <2>2. WAKER_TOKEN \notin StaleTokens
      BY <1>0 DEF StaleTokens
    <2> QED
      BY <2>1, <2>2 DEF LoopExited
  <1>7. CASE PollFails
    BY <1>7 DEF PollFails, Exit
  <1>8. CASE Client
    <2>1. /\ UNCHANGED <<chan, store, events, pc>> /\ ready \subseteq ready'
      BY <1>8 DEF Client, Connect, Send, Finish, Reset, handlerVars
    <2> QED
      BY <2>1 DEF LoopExited
  <1>9. CASE Tick
    <2>1. UNCHANGED <<chan, store, events, pc, ready>>
      BY <1>9 DEF Tick, handlerVars, kernelVars
    <2> QED
      BY <2>1 DEF LoopExited
  <1> QED
    BY <1>1, <1>2, <1>3, <1>4, <1>5, <1>6, <1>7, <1>8, <1>9
    DEF ConnectionNext, ConnectionStep

LEMMA ConnectionKeepsAgentInv ==
    ASSUME AgentInv, ConnectionNext, UNCHANGED appVars
    PROVE  AgentInv'
  <1> USE DEF AgentInv
  <1>1. UNCHANGED <<app, sets, result>>
    BY DEF appVars
  <1>2. LoopInv'
    BY ConnectionNextInv
  <1>3. TypeOK'
    BY <1>1, <1>2 DEF TypeOK, LoopInv
  <1>4. NoLostCommand'
    BY <1>1, ConnectionNextWaker DEF NoLostCommand, LoopExited
  <1>5. SenderOutlivesLoop' /\ StoppedEmpty'
    BY <1>1, ConnectionNextWaker DEF SenderOutlivesLoop, StoppedEmpty, LoopExited
  <1>6. LastHandle' /\ ShutdownIsLast'
    BY <1>1, ConnectionNextWaker DEF LastHandle, ShutdownIsLast
  <1> QED
    BY <1>2, <1>3, <1>4, <1>5, <1>6

\* The channel without its first command.
LEMMA TailOf ==
    ASSUME NEW S, NEW q \in Seq(S), q # <<>>
    PROVE  /\ Tail(q) \in Seq(S) /\ Len(Tail(q)) = Len(q) - 1
           /\ Head(q) = q[1] /\ 1 \in DOMAIN q
           /\ \A i \in DOMAIN Tail(q) : i + 1 \in DOMAIN q /\ Tail(q)[i] = q[i + 1]
  OBVIOUS

LEMMA CommandKeepsAgentInv ==
    ASSUME AgentInv, CommandStep, UNCHANGED appVars
    PROVE  AgentInv'
  <1> USE DEF AgentInv
  <1>1. UNCHANGED <<app, sets, result>>
    BY DEF appVars
  <1>2. LoopInv'
    BY CommandInv
  <1>3. TypeOK'
    BY <1>1, <1>2 DEF TypeOK, LoopInv
  <1>4. chan \in Seq(Commands) /\ chan' \in Seq(Commands)
    BY <1>3 DEF TypeOK, LoopTypeOK
  <1>5. chan' = Tail(chan) /\ chan # <<>> => ShutdownIsLast'
    <2> SUFFICES ASSUME chan' = Tail(chan), chan # <<>>,
                        NEW i \in DOMAIN chan', chan'[i].op = "Shutdown"
                 PROVE  /\ i = Len(chan')
                        /\ \E t \in Threads : app[t] \in {"waking", "joining", "done"}
      BY <1>1 DEF ShutdownIsLast
    <2>1. /\ i + 1 \in DOMAIN chan /\ chan[i + 1].op = "Shutdown"
          /\ Len(chan') = Len(chan) - 1
      BY <1>4, TailOf
    <2>2. i \in Nat /\ Len(chan) \in Nat
      BY <1>4
    <2> QED
      BY <2>1, <2>2 DEF ShutdownIsLast
  <1>6. CASE ApplySet
    <2>1. pc = "commands" /\ chan # <<>> /\ chan' = Tail(chan) /\ UNCHANGED <<pc, events, ready>>
      BY <1>6 DEF ApplySet, handlerVars, kernelVars
    <2> QED
      BY <1>1, <1>2, <1>3, <1>5, <2>1
      DEF NoLostCommand, SenderOutlivesLoop, LastHandle, StoppedEmpty, LoopExited
  <1>7. CASE TakeShutdown
    <2>1. pc' = "stopped" /\ chan # <<>> /\ chan' = Tail(chan) /\ Head(chan) = ShutdownCommand
      BY <1>7 DEF TakeShutdown, Exit
    <2>2. chan[1].op = "Shutdown" /\ 1 \in DOMAIN chan
      BY <1>4, <2>1, TailOf DEF ShutdownCommand
    <2>3. Len(chan') = 0
      <3>1. Len(chan) = 1
        BY <2>2 DEF ShutdownIsLast
      <3> QED
        BY <3>1, <1>4, <2>1, TailOf
    <2>4. chan' = <<>>
      BY <1>4, <2>3
    <2> QED
      BY <1>1, <1>2, <1>3, <2>1, <2>4
      DEF NoLostCommand, SenderOutlivesLoop, LastHandle, ShutdownIsLast, StoppedEmpty, LoopExited
  <1>8. CASE CommandsEmpty
    <2>1. /\ pc = "commands" /\ pc' = "events" /\ chan = <<>>
          /\ UNCHANGED <<events, ready, chan>>
      BY <1>8 DEF CommandsEmpty, BackToEvents, kernelVars
    <2> QED
      BY <1>1, <1>2, <1>3, <2>1
      DEF NoLostCommand, SenderOutlivesLoop, LastHandle, ShutdownIsLast, StoppedEmpty, LoopExited
  <1> QED
    BY <1>6, <1>7, <1>8 DEF CommandStep

\* Posting a command touches the channel only, waking the loop its readiness.
LEMMA PostKeepsLoopInv ==
    ASSUME LoopInv, OnlyChan, chan' \in Seq(Commands)
    PROVE  LoopInv'
  BY DEF LoopInv, OnlyChan, handlerVars, kernelVars, LoopTypeOK, ConnectionLimit, EventsAreLive,
         NoLostReadable, NothingLeftBuffered, BatchShape, Readable

LEMMA WakeKeepsLoopInv ==
    ASSUME LoopInv, OnlyReady, WakeLoop
    PROVE  LoopInv'
  <1>1. ready \subseteq ready' /\ ready' \subseteq ready \cup {WAKER_TOKEN}
    BY DEF WakeLoop
  <1>2. /\ UNCHANGED <<pc, events, current, eof, connections, next_token, chan, store,
                       backlog, peer, inbox>>
    BY DEF OnlyReady, handlerVars
  <1>3. WAKER_TOKEN \in 0..MaxToken /\ WAKER_TOKEN \notin ConnTokens
    BY Constants DEF WAKER_TOKEN
  <1>4. LoopTypeOK'
    BY <1>1, <1>2, <1>3 DEF LoopInv, LoopTypeOK
  <1>5. EventsAreLive'
    BY <1>1, <1>2, <1>3 DEF LoopInv, EventsAreLive
  <1>6. NoLostReadable'
    BY <1>1, <1>2 DEF LoopInv, NoLostReadable, Readable
  <1> QED
    BY <1>2, <1>4, <1>5, <1>6 DEF LoopInv, ConnectionLimit, NothingLeftBuffered, BatchShape

\* A command at the end of the channel.
LEMMA AppendTo ==
    ASSUME NEW S, NEW q \in Seq(S), NEW e \in S
    PROVE  /\ Append(q, e) \in Seq(S) /\ Len(Append(q, e)) = Len(q) + 1
           /\ Append(q, e)[Len(q) + 1] = e
           /\ \A i \in DOMAIN q : i \in DOMAIN Append(q, e) /\ Append(q, e)[i] = q[i]
           /\ \A i \in DOMAIN Append(q, e) : i \in DOMAIN q \/ i = Len(q) + 1
  OBVIOUS

\* The steps that only move a handle: clone, drop of a handle, join.
LEMMA HandleKeepsAgentInv ==
    ASSUME AgentInv, NEW t \in Threads,
           \/ \E u \in Threads : CloneHandle(t, u)
           \/ DropHandle(t)
           \/ Join(t)
    PROVE  AgentInv'
  <1> USE DEF AgentInv
  <1>1. UNCHANGED <<sets, result>> /\ UNCHANGED loopVars
    BY DEF CloneHandle, DropHandle, Join
  <1>2. UNCHANGED <<pc, events, chan, ready>>
    BY <1>1 DEF loopVars
  <1>3. LoopInv'
    BY <1>1, LoopStutterInv
  <1>4. app' \in [Threads -> AppStates]
    BY DEF CloneHandle, DropHandle, Join, TypeOK, AppStates
  <1>5. TypeOK'
    BY <1>1, <1>3, <1>4 DEF TypeOK, LoopInv
  <1>6. ASSUME NEW u \in Threads, CloneHandle(t, u) PROVE AgentInv'
    <2>1. /\ app[t] = "idle" /\ app[u] = "none" /\ app'[u] = "idle"
          /\ \A v \in Threads : v # u => app'[v] = app[v]
      BY <1>6 DEF CloneHandle, TypeOK
    <2>2. \A v \in Threads : app[v] \notin Leaving
      BY <2>1 DEF LastHandle, Leaving
    <2>3. LastHandle' /\ ShutdownIsLast' /\ StoppedEmpty'
      BY <1>2, <2>1, <2>2 DEF LastHandle, ShutdownIsLast, StoppedEmpty, Leaving
    <2>4. NoLostCommand' /\ SenderOutlivesLoop'
      BY <1>2, <2>1 DEF NoLostCommand, SenderOutlivesLoop, LoopExited
    <2> QED
      BY <1>3, <1>5, <2>3, <2>4
  <1>7. CASE DropHandle(t)
    <2>1. /\ app[t] = "idle"
          /\ app'[t] = IF SharedBeyond(t) THEN "dropped" ELSE "dropping"
          /\ \A v \in Threads : v # t => app'[v] = app[v]
      BY <1>7 DEF DropHandle, TypeOK
    <2>2. \A v \in Threads : app[v] \notin Leaving
      BY <2>1 DEF LastHandle, Leaving
    <2>3. ~SharedBeyond(t) => \A v \in Threads \ {t} : app[v] \in {"none", "dropped"}
      BY <2>2 DEF SharedBeyond, TypeOK, AppStates, Leaving
    <2>4. LastHandle'
      BY <2>1, <2>2, <2>3 DEF LastHandle, Leaving
    <2>5. ShutdownIsLast' /\ StoppedEmpty'
      BY <1>2, <2>2 DEF ShutdownIsLast, StoppedEmpty, Leaving
    <2>6. NoLostCommand'
      BY <1>2, <2>1 DEF NoLostCommand, LoopExited
    <2>7. SenderOutlivesLoop'
      BY <1>2, <2>1 DEF SenderOutlivesLoop, SharedBeyond, LoopExited
    <2> QED
      BY <1>3, <1>5, <2>4, <2>5, <2>6, <2>7
  <1>8. CASE Join(t)
    <2>1. /\ app[t] = "joining" /\ app'[t] = "done" /\ LoopExited
          /\ \A v \in Threads : v # t => app'[v] = app[v]
      BY <1>8 DEF Join, TypeOK
    <2>2. LastHandle' /\ ShutdownIsLast' /\ StoppedEmpty'
      BY <1>2, <2>1 DEF LastHandle, ShutdownIsLast, StoppedEmpty, Leaving
    <2>3. NoLostCommand' /\ SenderOutlivesLoop'
      BY <1>2, <2>1 DEF NoLostCommand, SenderOutlivesLoop, LoopExited
    <2> QED
      BY <1>3, <1>5, <2>2, <2>3
  <1> QED
    BY <1>6, <1>7, <1>8

\* The two wakes: the command's edge takes over from the caller's promise.
LEMMA WakeKeepsAgentInv ==
    ASSUME AgentInv, NEW t \in Threads, SetWake(t) \/ ShutdownWake(t)
    PROVE  AgentInv'
  <1> USE DEF AgentInv
  <1>1. WakeLoop /\ OnlyReady /\ UNCHANGED sets
    BY DEF SetWake, ShutdownWake
  <1>2. UNCHANGED <<pc, events, chan>>
    BY <1>1 DEF OnlyReady, handlerVars
  <1>3. LoopInv'
    BY <1>1, WakeKeepsLoopInv
  <1>4. TypeOK'
    BY <1>1, <1>3 DEF SetWake, ShutdownWake, TypeOK, AppStates, LoopInv
  <1>5. /\ \/ app[t] = "sent" /\ app'[t] = "idle"
           \/ app[t] = "waking" /\ app'[t] = "joining"
        /\ \A v \in Threads : v # t => app'[v] = app[v]
    BY DEF SetWake, ShutdownWake, TypeOK
  <1>6. NoLostCommand'
    BY <1>1, <1>2 DEF NoLostCommand, WakeLoop, LoopExited
  <1>7. SenderOutlivesLoop' /\ StoppedEmpty'
    BY <1>2, <1>5 DEF SenderOutlivesLoop, StoppedEmpty, LoopExited
  <1>8. LastHandle' /\ ShutdownIsLast'
    BY <1>2, <1>5 DEF LastHandle, ShutdownIsLast, Leaving
  <1> QED
    BY <1>3, <1>4, <1>6, <1>7, <1>8

\* Agent::set up to the wake: no Shutdown can be in the channel, because the
\* caller still holds a handle.
LEMMA SetSendKeepsAgentInv ==
    ASSUME AgentInv, NEW t \in Threads, NEW o \in Oids, SetSend(t, o)
    PROVE  AgentInv'
  <1> USE DEF AgentInv
  <1> DEFINE cmd == SetCommand(o, Stamp(t, sets[t] + 1))
  <1>1. /\ app[t] = "idle" /\ sets[t] < MaxSets /\ OnlyChan
        /\ sets' = [sets EXCEPT ![t] = @ + 1]
    BY DEF SetSend
  <1>2. UNCHANGED <<pc, events, ready>>
    BY <1>1 DEF OnlyChan, handlerVars, kernelVars
  <1>3. sets' \in [Threads -> 0..MaxSets] /\ sets[t] + 1 \in 1..MaxSets
    BY <1>1, AgentAssumption DEF TypeOK, AgentAssumption
  <1>4. cmd \in Commands
    BY <1>3, AgentAssumption DEF Commands, AgentAssumption
  <1>5. chan \in Seq(Commands)
    BY DEF TypeOK, LoopTypeOK
  <1>6. \A v \in Threads : app[v] \notin Leaving
    BY <1>1 DEF LastHandle, Leaving
  <1>7. \A i \in DOMAIN chan : chan[i].op # "Shutdown"
    BY <1>6 DEF ShutdownIsLast, Leaving
  <1>8. CASE LoopExited
    <2>1. UNCHANGED <<app, chan>> /\ result' = [result EXCEPT ![t] = "Disconnected"]
      BY <1>8 DEF SetSend
    <2>2. LoopInv'
      BY <1>1, <1>5, <2>1, PostKeepsLoopInv
    <2>3. TypeOK'
      BY <1>3, <2>1, <2>2 DEF TypeOK, LoopInv
    <2> QED
      BY <1>2, <2>1, <2>2, <2>3 DEF NoLostCommand, SenderOutlivesLoop, LastHandle,
          ShutdownIsLast, StoppedEmpty, LoopExited
  <1>9. CASE ~LoopExited
    <2>1. chan' = Append(chan, cmd) /\ app' = [app EXCEPT ![t] = "sent"] /\ result' = result
      BY <1>9 DEF SetSend
    <2>2. chan' \in Seq(Commands)
      BY <1>4, <1>5, <2>1, AppendTo
    <2>3. LoopInv'
      BY <1>1, <2>2, PostKeepsLoopInv
    <2>4. app'[t] = "sent" /\ \A v \in Threads : v # t => app'[v] = app[v]
      BY <2>1 DEF TypeOK
    <2>5. TypeOK'
      BY <1>3, <2>1, <2>3 DEF TypeOK, LoopInv, AppStates
    <2>6. NoLostCommand' /\ SenderOutlivesLoop' /\ LastHandle'
      BY <1>6, <2>4 DEF NoLostCommand, SenderOutlivesLoop, LastHandle, Leaving
    <2>7. cmd.op = "SetValue"
      BY DEF SetCommand
    <2> HIDE DEF cmd
    <2>8. \A i \in DOMAIN chan' : chan'[i].op # "Shutdown"
      BY <1>4, <1>5, <1>7, <2>1, <2>7, AppendTo
    <2>9. ShutdownIsLast' /\ StoppedEmpty'
      BY <1>2, <1>9, <2>8 DEF ShutdownIsLast, StoppedEmpty, LoopExited
    <2> QED
      BY <2>3, <2>5, <2>6, <2>9
  <1> QED
    BY <1>8, <1>9

\* AgentInner::drop up to the wake: no other thread can post any more.
LEMMA ShutdownSendKeepsAgentInv ==
    ASSUME AgentInv, NEW t \in Threads, ShutdownSend(t)
    PROVE  AgentInv'
  <1> USE DEF AgentInv
  <1>1. app[t] = "dropping" /\ OnlyChan /\ UNCHANGED <<sets, result>>
    BY DEF ShutdownSend
  <1>2. UNCHANGED <<pc, events, ready>>
    BY <1>1 DEF OnlyChan, handlerVars, kernelVars
  <1>3. chan \in Seq(Commands) /\ ShutdownCommand \in Commands
    BY DEF TypeOK, LoopTypeOK, Commands
  <1>4. \A v \in Threads : v # t => app[v] \in {"none", "dropped"}
    BY <1>1 DEF LastHandle, Leaving
  <1>5. \A i \in DOMAIN chan : chan[i].op # "Shutdown"
    BY <1>1, <1>4 DEF ShutdownIsLast
  <1>6. /\ app' = [app EXCEPT ![t] = IF LoopExited THEN "joining" ELSE "waking"]
        /\ chan' = IF LoopExited THEN chan ELSE Append(chan, ShutdownCommand)
    BY DEF ShutdownSend
  <1>7. /\ app'[t] = IF LoopExited THEN "joining" ELSE "waking"
        /\ \A v \in Threads : v # t => app'[v] = app[v]
    BY <1>6 DEF TypeOK
  <1>8. chan' \in Seq(Commands)
    BY <1>3, <1>6, AppendTo
  <1>9. LoopInv'
    BY <1>1, <1>8, PostKeepsLoopInv
  <1>10. TypeOK'
    BY <1>1, <1>6, <1>9 DEF TypeOK, LoopInv, AppStates
  <1>11. NoLostCommand' /\ SenderOutlivesLoop'
    <2>1. app'[t] \in {"joining", "waking"} /\ (~LoopExited => app'[t] = "waking")
      BY <1>7
    <2>2. LoopExited' <=> LoopExited
      BY <1>2 DEF LoopExited
    <2> QED
      BY <2>1, <2>2 DEF NoLostCommand, SenderOutlivesLoop
  <1>12. LastHandle'
    BY <1>4, <1>7 DEF LastHandle, Leaving
  <1>13. ShutdownIsLast'
    <2> SUFFICES ASSUME NEW i \in DOMAIN chan', chan'[i].op = "Shutdown"
                 PROVE  i = Len(chan')
      BY <1>7 DEF ShutdownIsLast
    <2> QED
      BY <1>3, <1>5, <1>6, AppendTo
  <1>14. StoppedEmpty'
    BY <1>2, <1>6 DEF StoppedEmpty, LoopExited
  <1> QED
    BY <1>9, <1>10, <1>11, <1>12, <1>13, <1>14

LEMMA AgentStutterInv ==
    ASSUME AgentInv, UNCHANGED vars
    PROVE  AgentInv'
  <1>1. UNCHANGED loopVars /\ UNCHANGED <<app, sets, result>>
    BY DEF vars, appVars
  <1>2. UNCHANGED <<pc, events, ready, chan>>
    BY <1>1 DEF loopVars
  <1>3. LoopInv'
    BY <1>1, LoopStutterInv DEF AgentInv
  <1> QED
    BY <1>1, <1>2, <1>3 DEF AgentInv, TypeOK, LoopInv, NoLostCommand, SenderOutlivesLoop,
        LastHandle, ShutdownIsLast, StoppedEmpty, LoopExited

LEMMA AgentInvariance == Spec => []AgentInv
  <1>1. Init => AgentInv
    BY AgentInitInv
  <1>2. AgentInv /\ [Next]_vars => AgentInv'
    <2> SUFFICES ASSUME AgentInv, [Next]_vars PROVE AgentInv'
      OBVIOUS
    <2>1. CASE ConnectionNext /\ UNCHANGED appVars
      BY <2>1, ConnectionKeepsAgentInv
    <2>2. CASE CommandStep /\ UNCHANGED appVars
      BY <2>2, CommandKeepsAgentInv
    <2>3. CASE AppNext
      BY <2>3, HandleKeepsAgentInv, WakeKeepsAgentInv, SetSendKeepsAgentInv,
         ShutdownSendKeepsAgentInv DEF AppNext, Finishing
    <2>4. CASE UNCHANGED vars
      BY <2>4, AgentStutterInv
    <2> QED
      BY <2>1, <2>2, <2>3, <2>4 DEF Next, CommandStep, Terminated
  <1> QED
    BY <1>1, <1>2, PTL DEF Spec

\* Type correctness of handles, channel and loop together.
THEOREM AgentTypes == Spec => []TypeOK
  <1>1. AgentInv => TypeOK
    BY DEF AgentInv
  <1> QED
    BY <1>1, AgentInvariance, PTL

\* The two steps of Agent::set and of the drop, in any interleaving with the
\* loop and with each other, never leave a command without a wakeup.
THEOREM CommandsNeverLost == Spec => []NoLostCommand
  <1>1. AgentInv => NoLostCommand
    BY DEF AgentInv
  <1> QED
    BY <1>1, AgentInvariance, PTL

\* While the loop runs some handle's sender is alive.
THEOREM LoopNeverDisconnected == Spec => []SenderOutlivesLoop
  <1>1. AgentInv => SenderOutlivesLoop
    BY DEF AgentInv
  <1> QED
    BY <1>1, AgentInvariance, PTL

\* A loop that stopped on Shutdown has applied every set that was posted.
THEOREM CleanShutdown == Spec => []NoSetLostAtShutdown
  <1>1. AgentInv => NoSetLostAtShutdown
    BY DEF AgentInv, StoppedEmpty, NoSetLostAtShutdown
  <1> QED
    BY <1>1, AgentInvariance, PTL

-----------------------------------------------------------------------------
(* Updates of one thread are applied in the order of its calls. *)

IsSet(i) == i \in DOMAIN chan /\ chan[i].op = "SetValue"

\* Commands carry stamps their threads have used, in increasing order per
\* thread, and all later than what the store holds of that thread.
OrderInv ==
    /\ AgentInv
    /\ \A i \in DOMAIN chan : IsSet(i) =>
          \E t \in Threads, n \in Nat : n <= sets[t] /\ chan[i].value = Stamp(t, n)
    /\ \A i, j \in DOMAIN chan : IsSet(i) /\ IsSet(j) /\ i < j =>
          (chan[i].value[1] = chan[j].value[1] => chan[i].value[2] < chan[j].value[2])
    /\ \A o \in Oids : store[o] # NoValue =>
          /\ \E t \in Threads, n \in Nat : n <= sets[t] /\ store[o] = Stamp(t, n)
          /\ \A i \in DOMAIN chan : IsSet(i) =>
                (store[o][1] = chan[i].value[1] => store[o][2] < chan[i].value[2])

\* What one step of SetsApplyInOrder says.
InOrderStep ==
    \A o \in Oids :
        (/\ store[o] # NoValue
         /\ store'[o] # store[o]
         /\ store'[o][1] = store[o][1]) => store'[o][2] > store[o][2]

LEMMA ApplyKeepsOrder ==
    ASSUME OrderInv, ApplySet, UNCHANGED appVars
    PROVE  OrderInv' /\ InOrderStep
  <1> USE DEF OrderInv
  <1>1. /\ chan # <<>> /\ chan' = Tail(chan) /\ Head(chan).op = "SetValue"
        /\ store' = [store EXCEPT ![Head(chan).oid] = Head(chan).value]
        /\ sets' = sets
    BY DEF ApplySet, appVars
  <1>2. AgentInv' /\ chan \in Seq(Commands) /\ store \in [Oids -> Values \cup {NoValue}]
    BY CommandKeepsAgentInv DEF CommandStep, AgentInv, TypeOK, LoopTypeOK
  <1>3. /\ Head(chan) = chan[1] /\ IsSet(1) /\ 1 \in DOMAIN chan
        /\ \A i \in DOMAIN chan' : i \in Nat /\ 1 < i + 1 /\ i + 1 \in DOMAIN chan
                                   /\ chan'[i] = chan[i + 1]
    <2>1. \A i \in DOMAIN Tail(chan) : i \in Nat /\ 1 < i + 1
      BY <1>1, <1>2
    <2> QED
      BY <1>1, <1>2, <2>1, TailOf DEF IsSet
  <1>4. \A i \in DOMAIN chan' : IsSet(i)' => IsSet(i + 1)
    BY <1>3 DEF IsSet
  <1>5. PICK t \in Threads, n \in Nat : n <= sets[t] /\ chan[1].value = Stamp(t, n)
    BY <1>3
  <1>6. \A o \in Oids : store'[o] = store[o] \/ store'[o] = chan[1].value
    BY <1>1, <1>2, <1>3
  <1>7. \A i \in DOMAIN chan' : IsSet(i)' =>
            \E u \in Threads, m \in Nat : m <= sets'[u] /\ chan'[i].value = Stamp(u, m)
    BY <1>1, <1>3, <1>4
  <1>8. \A i, j \in DOMAIN chan' : IsSet(i)' /\ IsSet(j)' /\ i < j =>
            (chan'[i].value[1] = chan'[j].value[1] => chan'[i].value[2] < chan'[j].value[2])
    BY <1>3, <1>4
  <1>9. ASSUME NEW o \in Oids, store'[o] # NoValue
        PROVE  /\ \E u \in Threads, m \in Nat : m <= sets'[u] /\ store'[o] = Stamp(u, m)
               /\ \A i \in DOMAIN chan' : IsSet(i)' =>
                     (store'[o][1] = chan'[i].value[1] => store'[o][2] < chan'[i].value[2])
    <2>1. CASE store'[o] = store[o]
      BY <1>1, <1>3, <1>4, <1>9, <2>1
    <2>2. CASE store'[o] = chan[1].value
      BY <1>1, <1>3, <1>4, <1>5, <2>2
    <2> QED
      BY <1>6, <2>1, <2>2
  <1>10. InOrderStep
    <2> SUFFICES ASSUME NEW o \in Oids, store[o] # NoValue, store'[o] # store[o],
                        store'[o][1] = store[o][1]
                 PROVE  store'[o][2] > store[o][2]
      BY DEF InOrderStep
    <2>1. store'[o] = chan[1].value
      BY <1>6
    <2>2. store[o][2] < chan[1].value[2]
      BY <1>3, <2>1
    <2>3. PICK u \in Threads, m \in Nat : store[o] = Stamp(u, m)
      OBVIOUS
    <2> QED
      BY <1>5, <2>1, <2>2, <2>3 DEF Stamp
  <1> QED
    BY <1>2, <1>7, <1>8, <1>9, <1>10

LEMMA SetSendKeepsOrder ==
    ASSUME OrderInv, NEW t \in Threads, NEW p \in Oids, SetSend(t, p)
    PROVE  OrderInv'
  <1> USE DEF OrderInv
  <1> DEFINE cmd == SetCommand(p, Stamp(t, sets[t] + 1))
  <1>1. /\ AgentInv' /\ store' = store
        /\ sets' = [sets EXCEPT ![t] = @ + 1]
        /\ chan' = IF LoopExited THEN chan ELSE Append(chan, cmd)
    BY SetSendKeepsAgentInv DEF SetSend, OnlyChan
  <1>2. /\ chan \in Seq(Commands) /\ sets[t] \in Nat
        /\ sets \in [Threads -> Nat]
    BY AgentAssumption DEF AgentInv, TypeOK, LoopTypeOK, AgentAssumption
  <1>3. /\ sets'[t] = sets[t] + 1 /\ \A u \in Threads : sets'[u] \in Nat /\ sets[u] <= sets'[u]
    BY <1>1, <1>2
  <1>4. CASE chan' = chan
    <2>1. \A i \in DOMAIN chan' : IsSet(i)' => IsSet(i) /\ i \in DOMAIN chan
      BY <1>4 DEF IsSet
    <2>2. ASSUME NEW v, NEW u \in Threads, NEW m \in Nat, m <= sets[u], v = Stamp(u, m)
          PROVE  \E w \in Threads, k \in Nat : k <= sets'[w] /\ v = Stamp(w, k)
      BY <1>2, <1>3, <2>2
    <2>3. \A i \in DOMAIN chan' : IsSet(i)' =>
              \E u \in Threads, m \in Nat : m <= sets'[u] /\ chan'[i].value = Stamp(u, m)
      BY <1>4, <2>1, <2>2
    <2>4. \A o \in Oids : store'[o] # NoValue =>
              \E u \in Threads, m \in Nat : m <= sets'[u] /\ store'[o] = Stamp(u, m)
      BY <1>1, <2>2
    <2> QED
      BY <1>1, <1>4, <2>1, <2>3, <2>4
  <1>5. CASE chan' = Append(chan, cmd)
    <2>1. cmd \in Commands
      <3>1. sets[t] + 1 \in 1..MaxSets
        BY <1>2, AgentAssumption DEF SetSend, AgentAssumption
      <3> QED
        BY <3>1, AgentAssumption DEF Commands, AgentAssumption
    <2>2. cmd.value = Stamp(t, sets[t] + 1)
      BY DEF SetCommand
    <2>3. \A u \in Threads : \A m \in Nat :
              Stamp(u, m)[1] = u /\ Stamp(u, m)[2] = m
      BY DEF Stamp
    <2> HIDE DEF cmd
    <2>4. /\ \A i \in DOMAIN chan' : \/ i \in DOMAIN chan /\ chan'[i] = chan[i]
                                     \/ i = Len(chan) + 1 /\ chan'[i] = cmd
          /\ \A i \in DOMAIN chan : i < Len(chan) + 1 /\ i \in Nat
      BY <1>2, <1>5, <2>1, AppendTo
    <2>5. \A i \in DOMAIN chan' : IsSet(i)' =>
              \E u \in Threads, m \in Nat : m <= sets'[u] /\ chan'[i].value = Stamp(u, m)
      <3> SUFFICES ASSUME NEW i \in DOMAIN chan', IsSet(i)'
                   PROVE  \E u \in Threads, m \in Nat :
                              m <= sets'[u] /\ chan'[i].value = Stamp(u, m)
        OBVIOUS
      <3>1. CASE i \in DOMAIN chan /\ chan'[i] = chan[i]
        BY <3>1, <1>2, <1>3 DEF IsSet
      <3>2. CASE chan'[i] = cmd
        BY <3>2, <2>2, <1>2, <1>3
      <3> QED
        BY <2>4, <3>1, <3>2
    \* An older command of the same thread has an older stamp.
    <2>6. \A i \in DOMAIN chan : IsSet(i) /\ chan[i].value[1] = t =>
              chan[i].value[2] \in Nat /\ chan[i].value[2] < sets[t] + 1
      BY <1>2, <2>3
    <2>7. \A i, j \in DOMAIN chan' : IsSet(i)' /\ IsSet(j)' /\ i < j =>
              (chan'[i].value[1] = chan'[j].value[1] => chan'[i].value[2] < chan'[j].value[2])
      <3> SUFFICES ASSUME NEW i \in DOMAIN chan', NEW j \in DOMAIN chan',
                          IsSet(i)', IsSet(j)', i < j,
                          chan'[i].value[1] = chan'[j].value[1]
                   PROVE  chan'[i].value[2] < chan'[j].value[2]
        OBVIOUS
      <3>1. i \in DOMAIN chan /\ chan'[i] = chan[i] /\ IsSet(i)
        BY <2>4, <1>2 DEF IsSet
      <3>2. CASE j \in DOMAIN chan /\ chan'[j] = chan[j]
        BY <3>1, <3>2 DEF IsSet
      <3>3. CASE chan'[j] = cmd
        BY <3>1, <3>3, <1>2, <2>2, <2>3, <2>6
      <3> QED
        BY <2>4, <3>2, <3>3
    <2>8. ASSUME NEW o \in Oids, store[o] # NoValue
          PROVE  /\ \E u \in Threads, m \in Nat : m <= sets'[u] /\ store[o] = Stamp(u, m)
                 /\ \A i \in DOMAIN chan' : IsSet(i)' =>
                       (store[o][1] = chan'[i].value[1] => store[o][2] < chan'[i].value[2])
      <3>1. PICK u \in Threads, m \in Nat : m <= sets[u] /\ store[o] = Stamp(u, m)
        BY <2>8
      <3>2. m <= sets'[u]
        BY <3>1, <1>2, <1>3
      <3>3. ASSUME NEW i \in DOMAIN chan', IsSet(i)', store[o][1] = chan'[i].value[1]
            PROVE  store[o][2] < chan'[i].value[2]
        <4>1. CASE i \in DOMAIN chan /\ chan'[i] = chan[i]
          BY <4>1, <2>8, <3>3 DEF IsSet
        <4>2. CASE chan'[i] = cmd
          BY <4>2, <3>1, <3>3, <1>2, <2>2, <2>3
        <4> QED
          BY <2>4, <4>1, <4>2
      <3> QED
        BY <3>1, <3>2, <3>3
    <2> QED
      BY <1>1, <2>5, <2>7, <2>8
  <1> QED
    BY <1>1, <1>4, <1>5

LEMMA OrderInvariance == Spec => []OrderInv /\ [][InOrderStep]_vars
  <1>1. Init => OrderInv
    BY AgentInitInv DEF Init, LoopInit, OrderInv
  <1>2. OrderInv /\ [Next]_vars => OrderInv' /\ InOrderStep
    <2> SUFFICES ASSUME OrderInv, [Next]_vars PROVE OrderInv' /\ InOrderStep
      OBVIOUS
    <2>1. CASE ApplySet /\ UNCHANGED appVars
      BY <2>1, ApplyKeepsOrder
    <2>2. ASSUME NEW t \in Threads, NEW o \in Oids, SetSend(t, o)
          PROVE  OrderInv' /\ InOrderStep
      <3>1. store' = store
        BY <2>2 DEF SetSend, OnlyChan
      <3> QED
        BY <3>1, <2>2, SetSendKeepsOrder DEF InOrderStep
    \* What the other steps have in common: the store and the stamps stay, and
    \* the channel's sets stay where they are, or the channel is empty.
    <2>3. ASSUME AgentInv', store' = store, sets' = sets,
                 \/ chan' = chan
                 \/ chan' = <<>>
                 \/ chan' = Append(chan, ShutdownCommand)
          PROVE  OrderInv' /\ InOrderStep
      <3>0. chan \in Seq(Commands) /\ ShutdownCommand \in Commands
            /\ ShutdownCommand.op # "SetValue"
        BY DEF OrderInv, AgentInv, TypeOK, LoopTypeOK, Commands, ShutdownCommand
      <3>1. \A i \in DOMAIN chan' : IsSet(i)' => IsSet(i) /\ chan'[i] = chan[i]
        BY <2>3, <3>0, AppendTo DEF IsSet
      <3>2. \A i \in DOMAIN chan' : IsSet(i)' => i \in DOMAIN chan
        BY <3>1 DEF IsSet
      <3> QED
        BY <2>3, <3>1, <3>2 DEF OrderInv, InOrderStep
    <2>4. CASE ConnectionNext /\ UNCHANGED appVars
      BY <2>3, <2>4, ConnectionNextWaker, ConnectionKeepsAgentInv
      DEF OrderInv, AgentInv, appVars
    <2>5. CASE TakeShutdown /\ UNCHANGED appVars
      <3>1. AgentInv'
        BY <2>5, CommandKeepsAgentInv DEF CommandStep, OrderInv
      <3>2. chan' = <<>> /\ store' = store /\ sets' = sets
        BY <2>5, <3>1 DEF TakeShutdown, Exit, AgentInv, StoppedEmpty, appVars
      <3> QED
        BY <2>3, <3>1, <3>2
    <2>6. CASE CommandsEmpty /\ UNCHANGED appVars
      BY <2>3, <2>6, CommandKeepsAgentInv DEF CommandStep, CommandsEmpty, OrderInv, appVars
    <2>7. ASSUME NEW t \in Threads,
                 \/ \E u \in Threads : CloneHandle(t, u)
                 \/ DropHandle(t)
                 \/ Join(t)
          PROVE  OrderInv' /\ InOrderStep
      BY <2>3, <2>7, HandleKeepsAgentInv DEF CloneHandle, DropHandle, Join, loopVars, OrderInv
    <2>8. ASSUME NEW t \in Threads, SetWake(t) \/ ShutdownWake(t)
          PROVE  OrderInv' /\ InOrderStep
      BY <2>3, <2>8, WakeKeepsAgentInv DEF SetWake, ShutdownWake, OnlyReady, OrderInv
    <2>9. ASSUME NEW t \in Threads, ShutdownSend(t)
          PROVE  OrderInv' /\ InOrderStep
      BY <2>3, <2>9, ShutdownSendKeepsAgentInv DEF ShutdownSend, OnlyChan, OrderInv
    <2>10. CASE UNCHANGED vars
      <3>1. UNCHANGED <<store, sets, chan>>
        BY <2>10 DEF vars, loopVars, appVars
      <3>2. AgentInv'
        BY <2>10, AgentStutterInv DEF OrderInv
      <3> QED
        BY <2>3, <3>1, <3>2
    <2> QED
      BY <2>1, <2>2, <2>4, <2>5, <2>6, <2>7, <2>8, <2>9, <2>10
      DEF Next, AppNext, Finishing, Terminated
  <1> QED
    BY <1>1, <1>2, PTL DEF Spec

\* Two sets of one OID by one thread are never applied in the wrong order.
THEOREM SetsInOrder == Spec => SetsApplyInOrder
  BY OrderInvariance, PTL DEF SetsApplyInOrder, InOrderStep

-----------------------------------------------------------------------------
(* The composition implements MibService.                                  *)

\* Without Shutdown the channel is the queue of pending sets.
LEMMA AllPending ==
    ASSUME chan \in Seq(Commands), \A i \in DOMAIN chan : chan[i].op # "Shutdown"
    PROVE  Pending = chan
  <1>1. chan # <<>> => Len(chan) \in DOMAIN chan
    OBVIOUS
  <1> QED
    BY <1>1 DEF Pending, ShutdownCommand

\* Posting Shutdown leaves the pending sets alone.
LEMMA PendingBeforeShutdown ==
    ASSUME chan \in Seq(Commands), chan' = Append(chan, ShutdownCommand)
    PROVE  Pending' = chan
  <1>1. ShutdownCommand \in Commands
    BY DEF Commands
  <1>2. chan' # <<>> /\ chan'[Len(chan')] = ShutdownCommand /\ Len(chan') - 1 = Len(chan)
    BY <1>1, AppendTo
  <1>3. SubSeq(chan', 1, Len(chan)) = chan
    BY <1>1
  <1> QED
    BY <1>2, <1>3 DEF Pending

\* Taking a set out of the channel takes the oldest pending one.
LEMMA PendingTail ==
    ASSUME chan \in Seq(Commands), chan # <<>>, Head(chan).op = "SetValue",
           chan' = Tail(chan)
    PROVE  /\ Pending # <<>> /\ Head(Pending) = Head(chan)
           /\ Pending' = Tail(Pending)
  <1>1. /\ Tail(chan) \in Seq(Commands) /\ Len(Tail(chan)) = Len(chan) - 1
        /\ Len(chan) \in Nat /\ Len(chan) >= 1
    OBVIOUS
  <1>2. chan[1] # ShutdownCommand
    BY DEF ShutdownCommand
  <1>3. CASE chan[Len(chan)] = ShutdownCommand
    <2>1. Len(chan) > 1 /\ Tail(chan) # <<>>
      <3>1. Len(chan) # 1
        BY <1>2, <1>3
      <3>2. Len(chan) > 1
        BY <1>1, <3>1
      <3>3. Len(Tail(chan)) # 0
        BY <1>1, <3>2
      <3> QED
        BY <3>2, <3>3, Len(<<>>) = 0
    <2>2. Tail(chan)[Len(Tail(chan))] = ShutdownCommand
      BY <1>1, <1>3, <2>1
    <2>3. /\ Pending = SubSeq(chan, 1, Len(chan) - 1)
          /\ Pending' = SubSeq(Tail(chan), 1, Len(chan) - 2)
      BY <1>1, <1>3, <2>1, <2>2 DEF Pending
    <2>4. /\ SubSeq(chan, 1, Len(chan) - 1) # <<>>
          /\ Head(SubSeq(chan, 1, Len(chan) - 1)) = Head(chan)
          /\ Tail(SubSeq(chan, 1, Len(chan) - 1)) = SubSeq(Tail(chan), 1, Len(chan) - 2)
      BY <1>1, <2>1
    <2> QED
      BY <2>3, <2>4
  <1>4. CASE chan[Len(chan)] # ShutdownCommand
    <2>1. Pending = chan
      BY <1>4 DEF Pending
    <2>2. Tail(chan) # <<>> => Tail(chan)[Len(Tail(chan))] = chan[Len(chan)]
      BY <1>1
    <2>3. Pending' = Tail(chan)
      BY <1>4, <2>2 DEF Pending
    <2> QED
      BY <2>1, <2>3
  <1> QED
    BY <1>3, <1>4

\* The agent's handles, channel and loop implement the abstract MIB service:
\* no interleaving reorders, loses or invents an update, and the loop stops on
\* Shutdown only with nothing left to apply.
THEOREM AgentImplementsService == Spec => ImplementsMibService
  <1> USE DEF Service!serviceVars
  <1>1. Init => Service!ServiceInit
    <2> SUFFICES ASSUME Init PROVE Service!ServiceInit
      OBVIOUS
    <2>1. chan = <<>> /\ ~LoopExited /\ store = [o \in Oids |-> NoValue]
      BY DEF Init, LoopInit, LoopExited
    <2> QED
      BY <2>1 DEF Service!ServiceInit, Pending
  <1>2. AgentInv /\ AgentInv' /\ [Next]_vars => [Service!ServiceNext]_(Service!serviceVars)
    <2> SUFFICES ASSUME AgentInv, AgentInv', [Next]_vars
                 PROVE  [Service!ServiceNext]_(Service!serviceVars)
      OBVIOUS
    <2>0. chan \in Seq(Commands)
      BY DEF AgentInv, TypeOK, LoopTypeOK
    <2>1. ASSUME UNCHANGED <<store, chan, pc>>
          PROVE  UNCHANGED Service!serviceVars
      BY <2>1 DEF Pending, LoopExited
    <2>2. CASE ConnectionNext /\ UNCHANGED appVars
      <3>1. store' = store /\ chan' = chan /\ Pending' = Pending
        BY <2>2, ConnectionNextWaker DEF AgentInv, Pending
      <3>2. CASE PollFails
        <4>1. pc = "poll" /\ pc' = "failed"
          BY <3>2 DEF PollFails, Exit
        <4>2. Service!Fail
          BY <3>1, <4>1 DEF Service!Fail, LoopExited
        <4> QED
          BY <4>2 DEF Service!ServiceNext
      <3>3. CASE ~PollFails
        <4>1. (LoopExited => pc' = pc) /\ (~LoopExited => ~LoopExited')
          <5>1. CASE pc' = "failed" /\ ~LoopExited
            BY <2>2, <3>3, <5>1 DEF ConnectionNext, ConnectionStep, Poll, PollTimeout, BatchDone,
               TakeEvent, AcceptOne, AcceptStops, BackToEvents, ReadBytes, ReadEnds, DispatchFrame,
               WriteFails, FramingFails, DispatchEnds, Sweep, CloseAndDeregister, Client, Connect,
               Send, Finish, Reset, Tick, handlerVars, LoopExited
          <5>2. CASE pc' = "failed" /\ LoopExited
            BY <2>2, <3>3, <5>2 DEF ConnectionNext, ConnectionStep, Poll, PollTimeout, BatchDone,
               TakeEvent, AcceptOne, AcceptStops, BackToEvents, ReadBytes, ReadEnds, DispatchFrame,
               WriteFails, FramingFails, DispatchEnds, Sweep, CloseAndDeregister, Client, Connect,
               Send, Finish, Reset, Tick, handlerVars, LoopExited
          <5> QED
            BY <2>2, <5>1, <5>2, ConnectionNextWaker DEF AgentInv
        <4> QED
          BY <3>1, <4>1 DEF LoopExited
      <3> QED
        BY <3>2, <3>3
    <2>3. CASE ApplySet /\ UNCHANGED appVars
      <3>1. /\ pc = "commands" /\ pc' = pc /\ chan # <<>> /\ Head(chan).op = "SetValue"
            /\ chan' = Tail(chan)
            /\ store' = [store EXCEPT ![Head(chan).oid] = Head(chan).value]
        BY <2>3 DEF ApplySet
      <3>2. /\ Pending # <<>> /\ Head(Pending) = Head(chan) /\ Pending' = Tail(Pending)
        BY <2>0, <3>1, PendingTail
      <3>3. Service!Apply
        BY <3>1, <3>2 DEF Service!Apply, LoopExited
      <3> QED
        BY <3>3 DEF Service!ServiceNext
    <2>4. CASE TakeShutdown /\ UNCHANGED appVars
      <3>1. /\ pc = "commands" /\ pc' = "stopped" /\ store' = store
            /\ chan # <<>> /\ Head(chan) = ShutdownCommand
        BY <2>4 DEF TakeShutdown, Exit
      <3>2. chan[1].op = "Shutdown" /\ 1 \in DOMAIN chan
        BY <2>0, <3>1, TailOf DEF ShutdownCommand
      <3>3. Len(chan) = 1 /\ chan[Len(chan)] = ShutdownCommand
        <4>1. Len(chan) = 1
          BY <3>2 DEF AgentInv, ShutdownIsLast
        <4> QED
          BY <2>0, <3>1, <4>1, TailOf
      <3>4. Pending = <<>>
        BY <2>0, <3>3 DEF Pending
      <3>5. Pending' = <<>>
        BY <3>1 DEF AgentInv, StoppedEmpty, Pending
      <3>6. Service!Stop
        BY <3>1, <3>4, <3>5 DEF Service!Stop, LoopExited
      <3> QED
        BY <3>6 DEF Service!ServiceNext
    <2>5. CASE CommandsEmpty /\ UNCHANGED appVars
      <3>1. UNCHANGED <<store, chan>> /\ pc = "commands" /\ pc' = "events"
        BY <2>5 DEF CommandsEmpty, BackToEvents
      <3> QED
        BY <3>1 DEF Pending, LoopExited
    <2>6. ASSUME NEW t \in Threads, NEW o \in Oids, SetSend(t, o)
          PROVE  [Service!ServiceNext]_(Service!serviceVars)
      <3> DEFINE cmd == SetCommand(o, Stamp(t, sets[t] + 1))
      <3>1. store' = store /\ pc' = pc
        BY <2>6 DEF SetSend, OnlyChan
      <3>2. CASE LoopExited
        BY <2>1, <2>6, <3>1, <3>2 DEF SetSend
      <3>3. CASE ~LoopExited
        <4>1. chan' = Append(chan, cmd)
          BY <2>6, <3>3 DEF SetSend
        <4>2. sets[t] + 1 \in 1..MaxSets
          BY <2>6, AgentAssumption DEF SetSend, AgentInv, TypeOK, AgentAssumption
        <4>3. cmd \in Service!Updates
          BY <4>2, AgentAssumption DEF AgentAssumption, SetCommand, Service!Updates
        <4>4. \A i \in DOMAIN chan : chan[i].op # "Shutdown"
          <5>1. \A v \in Threads : app[v] \notin Leaving
            BY <2>6 DEF SetSend, AgentInv, LastHandle, Leaving
          <5> QED
            BY <5>1 DEF AgentInv, ShutdownIsLast, Leaving
        <4>5. \A i \in DOMAIN chan' : chan'[i].op # "Shutdown"
          <5>1. \A v \in Threads : app'[v] \notin {"waking", "joining", "done"}
            BY <2>6, <3>3 DEF SetSend, AgentInv, LastHandle, Leaving, TypeOK
          <5> QED
            BY <5>1 DEF AgentInv, ShutdownIsLast
        <4>6. Pending = chan /\ Pending' = chan'
          <5>1. chan' \in Seq(Commands)
            BY DEF AgentInv, TypeOK, LoopTypeOK
          <5>2. chan' # <<>> => Len(chan') \in DOMAIN chan'
            BY <5>1
          <5>3. Pending' = chan'
            BY <4>5, <5>2 DEF Pending, ShutdownCommand
          <5> QED
            BY <2>0, <4>4, <5>3, AllPending
        <4> HIDE DEF cmd
        <4>7. Service!Accept(cmd)
          BY <3>1, <3>3, <4>1, <4>6 DEF Service!Accept, LoopExited
        <4> QED
          BY <4>3, <4>7 DEF Service!ServiceNext
      <3> QED
        BY <3>2, <3>3
    <2>7. ASSUME NEW t \in Threads, ShutdownSend(t)
          PROVE  UNCHANGED Service!serviceVars
      <3>1. store' = store /\ pc' = pc
        BY <2>7 DEF ShutdownSend, OnlyChan
      <3>2. CASE LoopExited
        BY <2>1, <2>7, <3>1, <3>2 DEF ShutdownSend
      <3>3. CASE ~LoopExited
        <4>1. chan' = Append(chan, ShutdownCommand)
          BY <2>7, <3>3 DEF ShutdownSend
        <4>2. \A i \in DOMAIN chan : chan[i].op # "Shutdown"
          BY <2>7 DEF ShutdownSend, AgentInv, LastHandle, ShutdownIsLast, Leaving
        <4>3. Pending = chan /\ Pending' = chan
          BY <2>0, <4>1, <4>2, AllPending, PendingBeforeShutdown
        <4> QED
          BY <3>1, <4>3 DEF LoopExited
      <3> QED
        BY <3>2, <3>3
    <2>8. ASSUME NEW t \in Threads,
                 \/ \E u \in Threads : CloneHandle(t, u)
                 \/ DropHandle(t)
                 \/ Join(t)
                 \/ SetWake(t)
                 \/ ShutdownWake(t)
          PROVE  UNCHANGED Service!serviceVars
      <3>1. UNCHANGED <<store, chan, pc>>
        BY <2>8 DEF CloneHandle, DropHandle, Join, SetWake, ShutdownWake, OnlyReady, loopVars
      <3> QED
        BY <3>1, <2>1
    <2>9. CASE UNCHANGED vars
      BY <2>1, <2>9 DEF vars, loopVars
    <2> QED
      BY <2>2, <2>3, <2>4, <2>5, <2>6, <2>7, <2>8, <2>9
      DEF Next, AppNext, Finishing, Terminated
  <1> QED
    BY <1>1, <1>2, AgentInvariance, PTL DEF Spec, ImplementsMibService, Service!ServiceSpec
=============================================================================
