-------------------------------- MODULE Traps --------------------------------
(***************************************************************************)
(* Agent::send_trap and TrapSender (transport/trap.rs), called by several  *)
(* application threads at once, with the two counters they share with one  *)
(* another and with the event loop: TRAP_MSG_ID_COUNTER and the privacy    *)
(* salt of codec/pdu/encode.rs.  Both counters are statics: they outlive   *)
(* an Agent and start afresh with the process.                             *)
(*                                                                         *)
(* A thread's steps are its accesses to shared state: the clock and the    *)
(* message ID, the Once that seeds the salt, the salt itself, the socket.  *)
(***************************************************************************)
EXTENDS Integers, Sequences, FiniteSets, Functions

CONSTANTS
    Threads,         \* application threads
    Loop,            \* the event loop's thread, which encrypts responses
    SendTo,          \* destination lists an application uses
    PduSizes,        \* sizes of encoded Trap-PDUs
    Overhead,        \* security level -> bytes of the message around a PDU
    TRAP_MTU_BYTES,
    IdSpace,         \* message IDs are 0..IdSpace-1: 2^31 in the code
    SaltSpace,       \* salts are 0..SaltSpace-1: 2^64 in the code
    MaxTime,         \* i32::MAX, the largest encodable engine time
    MaxElapsed,      \* bound: seconds of one incarnation
    MaxBoots,        \* bound: incarnations
    MaxMessages      \* bound: encrypted messages

Levels == {"noAuthNoPriv", "authNoPriv", "authPriv"}

ASSUME TrapsAssumption ==
    /\ Loop \notin Threads /\ IsFiniteSet(Threads)
    /\ \A d \in SendTo : d \in Seq(Range(d)) \ {<<>>}
    /\ IdSpace \in Nat \ {0, 1} /\ SaltSpace \in Nat \ {0}
    /\ {TRAP_MTU_BYTES, MaxTime, MaxElapsed, MaxBoots, MaxMessages} \subseteq Nat
    /\ MaxMessages <= SaltSpace

VARIABLES
    level,      \* the configured security level
    boots,      \* snmpEngineBoots of this incarnation
    elapsed,    \* seconds since it started
    nextId,     \* TRAP_MSG_ID_COUNTER
    once,       \* PRIVACY_SALT_INIT: "new", "running", "done"
    salt,       \* PRIVACY_SALT_COUNTER
    pc,         \* per thread: where it is in send_trap
    call,       \* per thread: its latest call
    recentIds,  \* history: the latest IDs of this process, at most IdSpace
    ivs         \* history: the IV of every message encrypted, by any incarnation

shared == <<nextId, once, salt>>
vars == <<level, boots, elapsed, nextId, once, salt, pc, call, recentIds, ivs>>

Callers == Threads \cup {Loop}
NoCall == [size |-> 0, dests |-> <<>>, time |-> 0, results |-> <<>>, sent |-> {}]
HasUser == level # "noAuthNoPriv"

Init ==
    /\ level \in Levels
    /\ boots = 1 /\ elapsed = 0
    /\ nextId = 1 /\ once = "new" /\ salt = 0
    /\ pc = [t \in Callers |-> "idle"]
    /\ call = [t \in Callers |-> NoCall]
    /\ recentIds = <<>>
    /\ ivs = <<>>

-----------------------------------------------------------------------------
(* Clocks and counters *)

\* engine_time_secs; u32::MAX, where it saturates, is not encodable either.
EngineTime == elapsed

\* fetch_add on an AtomicI32 wraps from i32::MAX to i32::MIN.
Incremented(id) == IF id = IdSpace - 1 THEN -IdSpace ELSE id + 1

\* MessageId::next_sequential clears the sign bit.
NextSequential(id) == id % IdSpace

InFlight == Cardinality({t \in Callers : pc[t] # "idle"})
RoomForMessage == Len(ivs) + InFlight < MaxMessages

-----------------------------------------------------------------------------
(* One call of send_trap *)

Goto(t, where) == pc' = [pc EXCEPT ![t] = where]

\* Agent::send_trap rejects an empty list at once; build_wire_trap then makes
\* the Trap-PDU.
SendTrap(t, size, dests) ==
    /\ pc[t] = "idle"
    /\ RoomForMessage
    /\ Goto(t, "encode")
    /\ call' = [call EXCEPT ![t] = [NoCall EXCEPT !.size = size, !.dests = dests]]
    /\ UNCHANGED <<level, boots, elapsed, shared, recentIds, ivs>>

\* encode_error_for_all: every destination gets an error, nothing is sent.
ErrorForAll(c) == [c EXCEPT !.results = [i \in DOMAIN c.dests |-> [destination |-> c.dests[i], ok |-> FALSE]]]

TooLarge(c) == c.size + Overhead[level] > TRAP_MTU_BYTES

\* The message is built: it is sent if it fits.
Encoded(t, c) ==
    IF TooLarge(c)
    THEN call' = [call EXCEPT ![t] = ErrorForAll(c)] /\ Goto(t, "return")
    ELSE call' = [call EXCEPT ![t] = c] /\ Goto(t, "send")

\* encode_trap_pdu without a user: SNMPv2c.
EncodeV2c(t) ==
    /\ pc[t] = "encode"
    /\ ~HasUser
    /\ Encoded(t, call[t])
    /\ UNCHANGED <<level, boots, elapsed, shared, recentIds, ivs>>

Latest(s, n) == IF Len(s) <= n THEN s ELSE SubSeq(s, Len(s) - n + 1, Len(s))

\* encode_trap_pdu with a user: it reads the clock and takes a message ID, then
\* encode_v3_envelope refuses a time that does not fit an i32.
EncodeV3(t) ==
    LET c == [call[t] EXCEPT !.time = EngineTime]
    IN  /\ pc[t] = "encode"
        /\ HasUser
        /\ nextId' = Incremented(nextId)
        /\ recentIds' = Latest(Append(recentIds, NextSequential(nextId)), IdSpace)
        /\ \/ /\ c.time > MaxTime
              /\ call' = [call EXCEPT ![t] = ErrorForAll(c)]
              /\ Goto(t, "return")
           \/ /\ c.time <= MaxTime /\ level = "authPriv"
              /\ call' = [call EXCEPT ![t] = c]
              /\ Goto(t, "salt")
           \/ /\ c.time <= MaxTime /\ level = "authNoPriv"
              /\ Encoded(t, c)
        /\ UNCHANGED <<level, boots, elapsed, once, salt, ivs>>

\* The event loop encrypts a response.  Its clock was started a moment earlier
\* in build(), and was read before the requests of its event.
Respond(time) ==
    /\ pc[Loop] = "idle"
    /\ level = "authPriv"
    /\ RoomForMessage
    /\ time <= MaxTime
    /\ call' = [call EXCEPT ![Loop] = [NoCall EXCEPT !.time = time]]
    /\ Goto(Loop, "salt")
    /\ UNCHANGED <<level, boots, elapsed, shared, recentIds, ivs>>

\* Faulty variant: each thread checks whether the salt was seeded, and seeds.
EnterOnce_Checked(t) ==
    /\ pc[t] = "salt"
    /\ once \in {"new", "running"}
    /\ once' = "running"
    /\ Goto(t, "seeding")
    /\ UNCHANGED <<level, boots, elapsed, nextId, salt, call, recentIds, ivs>>

\* next_privacy_salt: call_once runs the closure in one thread.
EnterOnce(t) ==
    /\ pc[t] = "salt"
    /\ once = "new"
    /\ once' = "running"
    /\ Goto(t, "seeding")
    /\ UNCHANGED <<level, boots, elapsed, nextId, salt, call, recentIds, ivs>>

\* Faulty variant: the closure's thread does not mark the Once.
Seed_Unmarked(t, random) ==
    /\ pc[t] = "seeding"
    /\ salt' = random
    /\ Goto(t, "salt")
    /\ UNCHANGED <<level, boots, elapsed, nextId, once, call, recentIds, ivs>>

Odd(n) == IF n % 2 = 0 THEN n + 1 ELSE n

\* The closure stores random_u64() | 1.
Seed(t, random) ==
    /\ pc[t] = "seeding"
    /\ salt' = Odd(random) % SaltSpace
    /\ once' = "done"
    /\ Goto(t, "salt")
    /\ UNCHANGED <<level, boots, elapsed, nextId, call, recentIds, ivs>>

\* The IV is made of boots, time and the salt that fetch_add returned.
TakeSalt(t) ==
    /\ pc[t] = "salt"
    /\ once = "done"
    /\ ivs' = Append(ivs, <<boots, call[t].time, salt>>)
    /\ salt' = (salt + 1) % SaltSpace
    /\ IF t = Loop THEN Goto(t, "idle") /\ UNCHANGED call ELSE Encoded(t, call[t])
    /\ UNCHANGED <<level, boots, elapsed, nextId, once, recentIds>>

Result(c, ok) ==
    LET next == Len(c.results) + 1
    IN  [c EXCEPT !.results = Append(@, [destination |-> c.dests[next], ok |-> ok]),
                  !.sent = IF ok THEN @ \cup {next} ELSE @]

\* Faulty variant: the first error ends the sends.
SendToNext_StopAtError(t, ok) ==
    /\ pc[t] = "send"
    /\ LET c == Result(call[t], ok)
       IN  /\ call' = [call EXCEPT ![t] = c]
           /\ Goto(t, IF Len(c.results) = Len(c.dests) \/ ~ok THEN "return" ELSE "send")
    /\ UNCHANGED <<level, boots, elapsed, shared, recentIds, ivs>>

\* send_to one destination after the other, whatever its outcome.
SendToNext(t, ok) ==
    /\ pc[t] = "send"
    /\ LET c == Result(call[t], ok)
       IN  /\ call' = [call EXCEPT ![t] = c]
           /\ Goto(t, IF Len(c.results) = Len(c.dests) THEN "return" ELSE "send")
    /\ UNCHANGED <<level, boots, elapsed, shared, recentIds, ivs>>

Return(t) ==
    /\ pc[t] = "return"
    /\ Goto(t, "idle")
    /\ UNCHANGED <<level, boots, elapsed, shared, call, recentIds, ivs>>

-----------------------------------------------------------------------------
(* Time and incarnations *)

Tick ==
    /\ elapsed < MaxElapsed
    /\ elapsed' = elapsed + 1
    /\ UNCHANGED <<level, boots, shared, pc, call, recentIds, ivs>>

NewIncarnation ==
    /\ HasUser
    /\ boots < MaxBoots
    /\ boots' = boots + 1
    /\ elapsed' = 0
    /\ pc' = [t \in Callers |-> "idle"]
    /\ call' = [t \in Callers |-> NoCall]
    /\ UNCHANGED <<level, ivs>>

\* Faulty variant: a new agent takes its message IDs from the start.
Rebuild_NewIds ==
    /\ NewIncarnation
    /\ \A t \in Callers : pc[t] = "idle"
    /\ nextId' = 1
    /\ UNCHANGED <<once, salt, recentIds>>

\* The application drops its agent, which no thread uses any more, and builds
\* another one in the same process.
Rebuild ==
    /\ NewIncarnation
    /\ \A t \in Callers : pc[t] = "idle"
    /\ UNCHANGED <<shared, recentIds>>

\* The process ends, at any point, and starts again.
Restart ==
    /\ NewIncarnation
    /\ nextId' = 1 /\ once' = "new" /\ salt' = 0
    /\ recentIds' = <<>>

Step(t) ==
    \/ EncodeV2c(t) \/ EncodeV3(t)
    \/ EnterOnce(t) \/ (\E random \in 0..(SaltSpace - 1) : Seed(t, random)) \/ TakeSalt(t)
    \/ \E ok \in BOOLEAN : SendToNext(t, ok)
    \/ Return(t)

Next ==
    \/ \E t \in Threads, size \in PduSizes, dests \in SendTo : SendTrap(t, size, dests)
    \/ \E time \in 0..(EngineTime + 1) : Respond(time)
    \/ \E t \in Callers : Step(t)
    \/ Tick
    \/ Rebuild
    \/ Restart

Spec == Init /\ [][Next]_vars

\* A thread inside send_trap is scheduled; the socket does not block for ever.
FairSpec == Spec /\ \A t \in Callers : WF_vars(Step(t))

-----------------------------------------------------------------------------
(* Properties *)

\* No two encrypted messages of the engine share an IV (REQ-0110), whichever
\* threads encrypt them, whichever of them seeds the salt, and across rebuilt
\* agents and restarted processes with any seeds (next_privacy_salt).
IvNeverReused == IsInjective(ivs)

\* Traps of one process carry distinct, non-negative message IDs, also of
\* different agents and around the counter's overflow (next_sequential).
MessageIdsDistinct == IsInjective(recentIds) /\ \A i \in DOMAIN recentIds : recentIds[i] >= 0

\* What send_trap returns tells what was sent: one result per destination, in
\* order, Ok exactly where a datagram went out, and none went out over the MTU
\* (REQ-0044, REQ-0045, REQ-0047, ADR-0008).
ResultsTellDelivery ==
    \A t \in Threads : pc[t] = "return" =>
        /\ DOMAIN call[t].results = DOMAIN call[t].dests
        /\ \A i \in DOMAIN call[t].dests :
              /\ call[t].results[i].destination = call[t].dests[i]
              /\ call[t].results[i].ok <=> i \in call[t].sent
        /\ TooLarge(call[t]) => call[t].sent = {}

\* send_trap returns: nobody waits for ever for the thread that seeds the salt.
SendTrapReturns == \A t \in Callers : pc[t] # "idle" ~> pc[t] = "idle"
=============================================================================
