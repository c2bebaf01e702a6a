# basic-snmp-agent: verification project

TLA+ models of the agent in `src/`, the TLC runs that check them on small
instances, and TLAPS proofs of what matters for every instance.

## The system and its parts

| Part | State | Operations | Interacts with |
|---|---|---|---|
| Event loop (`transport/event_loop.rs`) | connection table (token, stream, read buffer, last activity), token counter, MIB store, statistics counters | `run`: poll, accept, drain commands, drain and dispatch a connection, sweep | kernel (edge-triggered readiness, backlog, sockets); command channel and waker |
| Agent handle (`lib.rs`) | `Arc` of the command sender, trap sender and thread handle | `build`, `clone`, `set`, `send_trap`, drop of the last handle | event loop through the channel, the waker and `join` |
| Engine boots (`usm/boots.rs`) | the boots file and its temporary file | `initialise_engine_boots`, `load`, `save` | file system; called by `build` before anything is served |
| USM pipeline (`transport/dispatch*.rs`) | the seven statistics counters | `process_snmpv3_request` | called by the loop per frame, with the engine's boots and time |
| Request handlers (`transport/request.rs`) and MIB store (`mib.rs`) | ordered map of OIDs to values | GET, GETNEXT, GETBULK, SET | called by the pipeline |
| Trap sender (`transport/trap.rs`) | UDP socket, message ID counter, process-wide privacy salt | `send_trap` | called by any application thread |
| Users and cryptography (`usm/{user,auth,privacy,keys,kdf}.rs`) | the keys, shared by the loop and the trap sender | key derivation, construction of users, MACs, ciphers, zeroing | called by the embedder before `build`, by the pipeline and the trap sender after it |
| Codec (`codec/*`) | none | encoding and decoding of messages, OIDs as text | pure functions |

What is hard here: two-step posts (channel, then waker) interleaving with the
loop and with shutdown; edge-triggered readiness; events that are stale within
their own batch; the connection limit and the kernel backlog; idle timeouts;
crashes inside the boots file's save; replayed messages across time and
restarts; the order of the USM checks; key material on error paths; a manager
that has to find out boots and time over a network that loses messages.  `PROJECT.json` lists the hazards at
their lines, with the properties that would catch each.

What makes each part correct:

- **event loop**: the table keeps its limit and every socket has exactly one
  owner; no event is handled against the wrong connection; edge-triggered
  readiness is never lost; complete requests are never left in a buffer; quiet
  connections are closed.
- **agent handle**: an update that was posted is applied, in order, unless the
  loop died; the last drop returns; the loop never sees a disconnected channel.
- **engine boots**: the counter of serving incarnations increases strictly for
  an engine ID, whatever crashes; the file is never left unreadable.
- **USM pipeline**: exactly the authorised requests are served; nothing that
  depends on the clock or the plaintext is revealed before the MAC verifies;
  replays are bounded; a manager that follows the Reports gets its answer.
- **users and cryptography**: keys and MACs are those a manager computes, and
  no path leaves a key in memory that was given back.
- **request handlers**: a walk advances and misses nothing; GETBULK returns the
  cells RFC 3416 defines, in whole rows, within the message size.
- **trap sender**: no IV and no recent message ID is used twice; the results
  tell which destinations were sent to.
- **codec**: framing, decoding and encoding agree octet for octet; the MAC is
  found where it is; what the agent sends, a manager reads as meant; text and
  OID stand for each other.

## The modules

| Module | Models | Proofs |
|---|---|---|
| `EventLoop` | `EventLoop::run` and all it calls, with the kernel and the TCP clients as environment | `Agent_proofs` |
| `IdleMessages` | `EventLoop` with a history of completed messages (for one finding) | |
| `Agent` | `Agent`, `AgentInner`, `CommandSender`, composed with `EventLoop` (EXTENDS) | `Agent_proofs` |
| `MibService` | abstract: what `Agent::set` promises, a queue of accepted updates; `Agent` implements it | |
| `EngineBoots` | `initialise_engine_boots` over `FileEngineBootsStore`, as `build` runs it | `Startup_proofs` |
| `EngineEpochs` | abstract: what RFC 3414 needs of the counter; `EngineBoots` implements it | |
| `Credentials` | keys, key derivation, users, MACs and ciphers, over symbolic hashes | `Startup_proofs` |
| `Startup` | the life of a key through `AgentBuilder::build`, composed with `EngineBoots` and `Credentials` (EXTENDS) | `Startup_proofs` |
| `UsmDispatch` | `process_snmpv3_request`, the counters, time and restarts | `UsmDispatch_proofs` |
| `UsmSession` | a manager's discovery, time synchronisation and retries, composed with `UsmDispatch` (EXTENDS) | |
| `Requests` | the MIB store and the GET, GETNEXT, GETBULK handlers under a manager's walk | `Requests_proofs` |
| `WireSizes` | the size estimate of `request.rs` beside the size of the encoding | `Requests_proofs` |
| `Traps` | `send_trap` by several threads, with the two process-wide counters | `Traps_proofs` |
| `Ber` | the BER primitives of `codec/ber.rs` on octets of a scaled width | `Codec_proofs` |
| `BerCodec` | those primitives driven by encoders and by a peer's octets | `Codec_proofs` |
| `Framing` | `next_complete_frame` over the octets of one connection | `Codec_proofs` |
| `Messages` | the message codec with signing, blanking and verification: requests of peers, responses, Reports and traps of the agent | `Messages_proofs` |
| `OidText` | OIDs as text: `from_str`, `try_from`, `Display` | `Codec_proofs` |
| `InductionLemmas` | no part of the system: induction and recursion over numbers, and what `FlattenSeq` returns, for the proofs | itself |

`MC*` modules give constants their values; `MCCodec` puts `BerCodec`, `Framing`,
`Messages` and `OidText`, which share no state, side by side, each behaviour
exercising one of them. `PROJECT.json` maps every definition
to its lines.  An operator with an underscore in its name (`CloseAndDeregister_Leaky`,
say) is a faulty variant of the definition below it: substituting it must
break the property it is listed with, which shows that the property depends on
that piece of code.

### How state and actions correspond to the code

**EventLoop.** `pc` is the point the loop thread is at: `poll` (in `Poll::poll`),
`events` (the `for event in events` loop), `accept`, `commands`, `drain`,
`dispatch`, and `stopped` or `failed` once `run` returned.  `connections` is
`self.connections` (a token's client, read buffer and time since
`last_activity`), `next_token` the counter, `events` the tokens of the batch
not handled yet, `current` and `eof` the locals of `handle_connection_event`.
`ready`, `backlog`, `peer` and `inbox` are the kernel's.  `ready` holds the
tokens with an undelivered edge: a poll takes up to `EventsCapacity` of them,
data or an end of stream arriving adds one.  The actions are the iterations of
the loops in the code: `Poll`, `PollTimeout`, `PollFails`, `TakeEvent`,
`AcceptOne`, `AcceptStops`, `ApplySet`, `TakeShutdown`, `CommandsEmpty`,
`ReadBytes`, `ReadEnds`, `DispatchFrame`, `WriteFails`, `FramingFails`,
`DispatchEnds`, `Sweep`, `BatchDone`.  Between any two of them clients connect,
send, finish and reset, and time passes (`Tick`).  The stream is abstracted to
whole frames, halves and junk; what a frame does to the octets is in `Framing`
and what it does to the engine in `UsmDispatch`.

**Agent.** `app[t]` is where a thread is with its handle; `SetSend` and
`SetWake` are the two statements of `CommandSender::send`; `DropHandle`,
`ShutdownSend`, `ShutdownWake` and `Join` are the drop of the last `Arc`.
`Pending`, the sets in the channel, is what `MibService` calls its queue: a post
is its `Accept`, `ApplySet` its `Apply`, the end of the loop its `Stop`, allowed
with an empty queue only, or its `Fail`.

**EngineBoots.** One action per system call of `save` (create, write, sync,
rename, directory sync), each of which may fail; `survivors` is the set of
contents a power loss may leave under the path, `tmp` and `tmp_synced` the
temporary file.  Process crashes keep what a running process reads; power
losses choose a survivor.

**Credentials, Startup.** A key is a sequence of octets; an octet of a digest
names the algorithm, the whole input and its position, so two keys agree exactly
when everything that was hashed agrees.  The functions that make a key or give
one back return, with their result, the octets they leave in memory they give
back (`Leaving`): a digest on the stack, the state of the hasher that computed it
(`HasherState`, external: sha2 offers no way to clear it, and the model keeps it
for good, although later stack frames may overwrite it), the tail cut off by
`truncate`, the old block when an allocation shrinks, the buffer of a dropped
key.  `residue` collects them over the life of the process.  `KeyMemoryZeroed`
says that it holds zeros and hasher states only.  `Startup` interleaves this with `EngineBoots`: `DeriveKey`,
`SupplyKey`, `NewUser` and `Discard` are the embedder's calls, `BuildAgent` to
`Spawn` the parts of `build`, `BuildFails` each of its error returns, and
`owners` tells who holds the `Arc<UsmUser>`, so that the keys are dropped when
the last owner lets go: the loop thread may die long before the trap sender.

**UsmSession.** The manager is external: it sends a discovery probe while it
knows nothing, then the request stamped with its notion of boots and time, takes
boots and time from every Report, and retries.  It may start with any wrong
notion (from before a restart, say).  `LoseRequest` and `LoseAnswer` lose what
is on its way or let it come too late; the agent's clock and the manager's
advance together; a restart closes the connection.

**UsmDispatch.** A frame is a record of what `decode_v3_message` yields and of
what the cryptography says of it.  `RunValidationPipeline` is the chain of
checks in their order; `HandleEvent` reads the time once per event as
`handle_connection_event` does; `EmitReport` increments a counter and answers
when the frame is reportable and the answer can be encoded; `Respond` is the
rest of `process_snmpv3_request`.  `served`-history variables record when a
frame was served first and last.

**Requests.** One action per request of a manager; the handler's result is an
operator (`HandleGet`, `HandleGetNext`, `HandleGetBulk`) of the store.
`handle_set` answers notWritable and changes no state.

**Traps.** A thread's steps are its accesses to shared state: clock and
message ID, the `Once`, the salt, the socket.  The loop's encrypted responses
take salts from the same counter.

**Ber, BerCodec, Framing, Messages.** Values are sequences of octets, but of
`2 * Half` values rather than 256: five bits (so that the tags can be told
apart), or four in the run `ber_oids`, words of two octets and double
words of four in place of i32/u32 and u64/usize.  All constants of the code
that are stated in octets or bits (high bit of an octet, `0x7F`, eight length
octets, shift by the width minus one) are expressed through `Half` and the
widths, so the scaled code has the same corner cases closer together: sign
octets, leading zeros, short and long lengths, accumulators that overflow.
Messages uses an ideal MAC (a value the sender puts in place; verification
compares the blanked message with the blanked message that was signed) and a
stand-in for AES-CFB: a keystream that depends on the IV and the position.
`AgentResponds`, `AgentTraps`, `AgentReports` and `AgentTrapsV2c` are the four
encoders of `encode.rs` around `encode_v3_envelope` (`AgentSends`); `BuildWireTrap`
puts `sysUpTime` and `snmpTrapOID` in front as `build_wire_trap` does.  What a
manager makes of them (`ManagerReads...`) is the reference the property compares
with.

**OidText.** A text is a sequence of the ten digits and three other characters
(dot, plus, anything else); the checks of `from_str` are in the order of the
code, and `str::parse::<u32>`, which accepts a plus sign, is external.

## Runs

Each passing run finishes in under five minutes.

| Run | Shows | Bounds and why they suffice |
|---|---|---|
| `loop` | `ConnectionLimit`, `SocketsAccountedFor`, `EventsAreLive`, `NoLostReadable`, with every system call that may fail failing | 3 clients (interchangeable: symmetry), 2 slots, 3 connection tokens, one piece in flight per connection: the limit is hit with a client waiting, tokens wrap onto ones in use, and two connections share a batch |
| `agent` | refinement of `MibService` (`ImplementsMibService`), `NoLostCommand`, `SenderOutlivesLoop`, `NothingLeftBuffered`, and under fairness `PostedSetsApplied`, `DropReturns`, `QuietConnectionClosed` | 2 threads with one set each: each order of the two-step posts and of the drops, with the loop failing anywhere; one client with two pieces in flight, whole frames, halves and junk in any order and grouping; one slot, so that every sweep is under pressure and both timeouts are the same (they differ in `loop`) |
| `startup` | `KeyMemoryZeroed`, `KeysAgree`, `MacsExact`, `NeverTorn`, refinement of `EngineEpochs` (`ImplementsEpochs`) | ceiling 3 and two engine IDs: first start, increment, ceiling, change of ID and back; passwords of 0, 1, 2, 4 and 7 characters against a stream of 6 (too short, dividing the stream or not, longer than it); supplied keys of 2 and 8 octets; all pairs of protocols, with digests of 4 and 8 octets, MACs of 3 and 6 and privacy keys of 2 and 4 |
| `usm` | `ServedIffAuthorised`, `NoOracleBeforeMac`, `ReplayBounded` | every combination of a frame's attributes and every stamp a frame may carry (negative ones included) against all three configurations; window 1 and a clock that runs past i32::MAX (2) to the end of u32 (4), counters up to saturation, one restart |
| `session` | `ManagerServed` under fairness | window 1, times up to 3 (i32::MAX) and on to the end of u32, three incarnations, all levels, every notion the manager may start with; messages lost any number of times |
| `requests` | `WalkAdvances`, `WalkComplete`, `BulkFollowsRfc`, `RepeatersFit` | four OIDs with a prefix of another, five-byte arcs and two subtrees; one to three columns; short and long values in every store; all request fields at, below and above their clamps, budgets from zero to unlimited; five requests, enough to see the end of the MIB |
| `traps` | `IvNeverReused`, `MessageIdsDistinct`, `ResultsTellDelivery`, and `SendTrapReturns` under fairness | 2 threads and the loop, two destinations, 3 encrypted messages against 4 salts (the seed anywhere, so that the salt wraps), 2 message IDs (so that they wrap), 2 incarnations |
| `codec` | of `BerCodec`: `RoundTrip`, `IntegersExact`; of `Framing`: `FramesAreTheStream`, `BufferBounded`, `NoFrameGivenUp`, `ParsersAgree`; of `Messages`: `OffsetNamesTheMac`, `GenuineVerifies`, `AlterationDetected`, `RequestsAsMeant`, `AnswersAsMeant`; of `OidText`: `OidTextsExact` | all words, double words and lengths around each power, OIDs of every shape, all contents of up to five octets out of seven chosen ones; all streams of up to six octets over seven values, cut and drained in all ways, frames up to five octets, so that several fit and some are refused; every kind of value and PDU, each header in shortest and longer form, each octet of a message altered to four values, MACs with octets that look like a TLV, uptimes below and at the saturation of TimeTicks; all texts of up to five characters out of six, and the texts of all sequences of up to three arcs around the limits |

The bounds `MaxInFlight`, `MaxSets`, `MaxSteps`, `MaxElapsed`, `MaxBoots` (in
`UsmDispatch`, `Traps`), `MaxMessages`, `MaxContent`, `MaxStream` and `MaxText` are guards
of the environment's actions, never of the code's.  `CHECK_DEADLOCK FALSE` is
used only in runs whose environment stops at such a bound (`codec`, `ber_oids`,
`traps`).

### Findings

Four more runs state what the repository says of itself, and TLC finds the
statement violated by what the code does.

| Run | Statement | What the code does |
|---|---|---|
| `loop_backlog` | `BacklogAccepted`: "they will be accepted once existing connections close" (`event_loop.rs:500-503`) | the listener's edge is spent when accepting stops at the limit; a waiting client is only accepted after another one connects |
| `idle_messages` | `SilentConnectionsClosed`: a connection without a complete message within the timeout MUST be closed (REQ-0122) | any bytes refresh `last_activity` |
| `requests_non_repeaters` | `BulkFits`: "The response is bounded to `max_response_size` bytes" (`request.rs:118`) | non-repeaters are added without comparing with the budget |
| `ber_oids` | `OidsExact`: "BER: OID sub-identifier overflows u64" (`ber.rs:993`) | `checked_shl(7)` never fails: bits are shifted out and 2^64 + k reads as k |

Some statements the modelling came across differ from the code without a run:
`boots.rs:8-9` says that at the boots ceiling no further authenticated
communication is possible, while the incarnation that reaches the ceiling
serves (as `NextBoot` and `Launch` of `EngineBoots` have it); `lib.rs:377-378`
says that messages for another engine ID are silently discarded, while a
reportable one is answered with a Report (as REQ-0104 asks, and as
`UsmDispatch` has it); `kdf.rs:71-74` says that authentication and privacy keys
are drawn from different halves of the digest, while the privacy key is the
leading part of the authentication key (`user.rs:783-791`, as REQ-0084 asks and
`PrivKeyOf` has it); the doc comment of `handle_get_bulk` (`request.rs:122-129`)
and `gov/req-coverage-gaps.toml:64` say that negative `max-repetitions` are
rejected at BER decoding and never arrive, while `codec/pdu/decode.rs:60-64`
reads a negative `max-repetitions` or `non-repeaters` as 0 and serves the request
(as REQ-0028 and the unit tests ask, and as `Requests` and `Messages` have it, so
that `BulkFollowsRfc` and `RequestsAsMeant` cover it); REQ-0108
(`gov/rfc/RFC-0007/clauses/C-USM-KEYS.toml:22`) wants all intermediate key material
of key derivation zeroised, while the hashers' internal states are not, which
`kdf.rs:139-144` calls a known limitation (`HasherState` in `Credentials`, which
`KeyMemoryZeroed` excepts); and the check for leading zeros in `oid.rs:181-183` does not
see past a plus sign, so that "+06" is accepted (`Plain` in `OidText` is that
exception).  `SecretKey::truncate` to a shorter length may move the kept octets
and give back the old block with them (`Shrink` in `Credentials`); the library
itself only truncates to the full length, so `KeyMemoryZeroed` holds in spite of it.

## Fairness

- `EventLoop`, `Agent`: weak fairness of the loop's steps (the operating system
  schedules the loop thread, and no step of it blocks except `poll`, whose
  timeout is finite) and of time.  No fairness of clients or of system call
  failures.  A response is written by one `write_all` on a non-blocking socket,
  which ends at once, with success or with an error.
- `Agent`: weak fairness of a thread that is inside a library call (`set`
  between its two statements, the drop of the last handle).  No thread has to
  call anything.
- `Traps`: weak fairness of a thread's steps inside `send_trap`; the thread
  that seeds the salt is one of them, so waiting for it is not a wait for
  something that may never come.  UDP sends do not block for ever.
- `UsmSession`: weak fairness of the manager's sending and of the loop's
  processing of a frame that arrived; strong fairness of arrival in both
  directions: of messages sent again and again, some arrive.  No fairness of
  time, of losses or of restarts; the property excepts an agent that restarts for
  ever and one whose time outgrew the i32 it is encoded in.

## Proofs

All theorems hold for every value of the constants that satisfies the named
assumptions (`LoopAssumption`, `AgentAssumption`, `BootsAssumption`,
`UsmAssumption`, `CredentialsAssumption`, `StartupAssumption`,
`RequestsAssumption`, `TrapsAssumption`, `BerAssumption`, `BerCodecAssumption`,
`FramingAssumption`, `MessagesAssumption`, `TextAssumption`),
which TLC evaluates in the runs of the modules that extend them.  They say what
the code's types and constants say: OIDs have at least two arcs, a password is a
sequence, the two digests differ in length, `msgMaxSize` is at least 484, a
frame's length field fits the accumulator, the encoder is given numbers of their
type and OIDs that `validate_oid_components` accepts, a u64 holds 80 more than
a u32, tags are distinct octets, a MAC has at least one octet, the fields of a
message are of their types (the agent's varbinds of the kinds `VarbindValue` has,
an uptime not negative, the arcs of an OID u32), the stamp of an encrypted request
is not negative (RFC 3414 has boots and time in 0..2147483647; the IV is made of
them as u32), and a message, signed or not, v3 or v2c, is so short that a usize has an octet to
spare for its length (peers pad lengths by one).  One is an assumption about use:
`MaxMessages <= SaltSpace`, no more messages are encrypted than there are salts (2^64).

**Induction over data.**  The provers cannot instantiate an induction theorem
that takes an operator.  `InductionLemmas` therefore states induction with sets
(`NaturalInduction`: a set that holds 0 and is closed under successor holds every
number; `InductionUpTo` for 0..N), derived from the well-foundedness of `<`, and
`RecursionUpTo`, that a function defined by recursion on 0..N exists.  The
recursive functions of the models (`Total`, `Power`, `FromBeBytes`, `ReadOctets`,
`Elements`, `Parts`, `Decimal`, `Digits`, the loop of `HandleGetBulk`, `FlattenSeq` of the
community modules) are reasoned about
through it: first that there is such a function, hence that the CHOOSE the
definition stands for is one, then induction over its argument.

- **Agent_proofs**, of `EventLoop`: `LoopTypeOK`, `ConnectionLimit`, `EventsAreLive`,
  `NoLostReadable`, `NothingLeftBuffered` and `SocketsAccountedFor`.  The inductive invariant `LoopInv`
  is the conjunction of the first five with `BatchShape`: `events` is empty outside the batch
  loop and does not hold `current` while a connection is handled.  Without it
  closing the current connection could leave an event of the same batch that
  names it, and `EventsAreLive` would not be preserved.
  That `next_connection_token` finds a free token needs `FreeToken`: fewer
  connections than tokens, by cardinality.  `SocketsInv` restates
  `SocketsAccountedFor` without cardinalities (at most one token and at most one
  place in the backlog per client, never both, and one exactly when its
  socket is open), which each step can be checked against; `PlacesCounted` goes
  back to the counts.
- **Agent_proofs**, of `Agent`: `TypeOK`, `NoLostCommand`, `SenderOutlivesLoop`,
  `NoSetLostAtShutdown` and the action property `SetsApplyInOrder`.  `AgentInv`
  adds to `LoopInv` that only the last handle drops (`LastHandle`), that nothing
  follows Shutdown in the channel (`ShutdownIsLast`) and that a stopped loop left
  the channel empty (`StoppedEmpty`).  `OrderInv` adds that the stamps of each
  thread increase along the channel and that the store is behind it.
  `AgentImplementsService` is the refinement of `MibService`: each step of threads
  and loop is a step of the queue or leaves it alone (`PendingTail`: taking a set
  off the channel takes the head off the queue; `PendingBeforeShutdown`: when
  Shutdown is taken the queue is empty, because of `ShutdownIsLast`).
- **Startup_proofs**, of `EngineBoots`: `TypeOK`, `NeverTorn`, `EpochDurable` and the
  refinement `ImplementsEpochs`.  The invariant says what is on disk at each
  point of `save`: the temporary file is whole and synced before the rename
  (`TmpInv`), all survivors are whole records (`FileInv`), and none of them is
  below the largest boots value served (`EpochInv`).
  Of `Startup`: that it implements `EngineBoots`
  (`StartupImplementsBoots`: every step of it is a step of the boots start-up or
  leaves its variables alone), which carries `NeverTorn` and `ImplementsEpochs`
  over; `KeyMemoryZeroed` for all passwords, protocols and lengths, because
  a derived key is as long as the digest, so that `truncate` shrinks nothing, and
  finalising a hasher leaves only zeros and the hasher's state (`FinalisedLeaves`);
  `KeysAgree` and `MacsExact`.  For those, `StreamIsCyclic` shows by induction
  over the copies that whole copies and a part of one are the password repeated
  cyclically, for any length of password and stream; `KeysInv` follows the key
  from its derivation, which may have been for another protocol than the
  user's, to the user, which only takes a key of its protocol's length
  (`UserInv`), and to the agent (`SharedInv`).  Hashes stay symbolic.
- **UsmDispatch_proofs** proves `TypeOK`, `ServedIffAuthorised`,
  `NoOracleBeforeMac`, `AnswerLevelMatches` and `ReplayBounded`, by a case split
  over the checks in their order (`PipelineServes`) and an invariant that a
  frame's first and last service lie in the window around its stamp.
- **Requests_proofs** first shows that the estimate of a varbind covers its
  encoding, that `V3_ENVELOPE_OVERHEAD` covers the largest envelope and that
  varbinds within the budget make a message within the limit, for all sizes;
  summed over a response (`Total`) this gives `RepeatersFit`.  The loop of
  `handle_get_bulk` has the invariant `LoopInv`: after n rounds the response is
  the non-repeaters and whole rows, the size is its estimate, each column stands
  at its row's OID, and if the loop has stopped then for one of its reasons.
  `BulkFollowsRfc` follows once "the r-th successor" of the reference is
  seen to be what r steps of `Store::next` reach (`NthAt`: an OID is the r-th
  behind another one exactly when r - 1 lie between them).  For `WalkAdvances` and
  `WalkComplete` the invariant `WalkInv` says of each column that what was seen
  is sorted, lies between the start and the position, is still in the store
  (nothing is ever removed) and holds every OID of the
  beginning up to the position; that a GETBULK row advances a column as as many
  GETNEXTs would is the same `LoopInv`.
- **Traps_proofs** proves `IvNeverReused`, `MessageIdsDistinct` and
  `ResultsTellDelivery` for any number of threads.  `SaltsInv` says that the
  salts used so far in this incarnation are the ones just behind the counter, so
  that the next one is new until the counter has gone round; `OnceInv`, that
  nobody takes a salt before the `Once` is done and that one thread seeds it;
  `IdsInv`, that the recent IDs count up to the counter modulo the ID space;
  `CallsInv`, what a thread in `send_trap` has recorded so far.
- **Codec_proofs** proves, of `BerCodec`, `IntegersExact` and `RoundTrip`, for
  octets, words and double words of any width.  The provers know nothing of `^`, so
  powers are a recursive function (`Power`) with the lemmas `Powers` and
  `PowersGrow`.  A number's octets are taken apart at either end
  (`FromBeBytesAppend`, `FromBeBytesFront`).  `IntegersExact` rests on two facts
  about two's complement: dropping an octet that repeats the sign keeps the value
  (`DropSign`), and a content without such an octet does not fit one octet less
  (`NoSignToDrop`), so the decoder's test of the width after dropping is a test of
  the value.  `RoundTrip` follows for integers, because `EncodeSigned` and
  `EncodeUnsigned` write contents that mean the number (`SignedMeans`,
  `UnsignedMeans`) and `IntegersExact` says how those are read.  For an OID,
  `Base128Reads` says that reading the groups of a number behind other octets
  appends that number, as long as the accumulator has room (`AccumulateGroup`);
  induction over the arcs gives `OidOctetsRead`.  The violation of `ber_oids` is
  about sub-identifiers without that room, which the encoder never writes.
  Of `Framing`, it proves all four properties.  `FramingInv` says
  that frames and buffer make up the octets received (`SplitInv`) and what the
  buffer can be in each phase (`PhaseInv`).  It rests on what `NextCompleteFrame`
  computes for any octets: its outcome depends on the header alone
  (`NextByForm`), more octets never turn a frame or a refusal into something
  else (`WaitsWithLess`, `ClosedForGood`), and `ReadTlv` takes exactly the
  frame (`FrameDecodes`).
  Of `OidText`, `OidTextsExact`, from the invariant `TextInv` that a text was typed or
  is what `Display` gave for its arcs.  Digits without a leading zero and numbers
  stand for each other (`DigitsMean`, `MeansDigits`), so a component that is
  parsed is the digits of its number once a plus sign and the zeros behind it are
  off (`ParsedDigits`); induction over the arcs shows that the text of an OID
  passes the checks for dots and is split where `Display` joined it
  (`DisplayParts`); and `collect` fails exactly when a component does (`Collected`).

- **Messages_proofs** proves `OffsetNamesTheMac`, `GenuineVerifies` and
  `AlterationDetected`, for every width of octets, every message of the types and
  every form of lengths.  What is written is read back TLV by TLV (`Sound`,
  `Reached`), in readers nested in readers, so that the place of the MAC is a sum
  of lengths (`Offset`) on which the encoder's `find_auth_params_offset`, the
  decoder and the peer agree.  That the encoder may sign with zeros in the MAC's
  place and overwrite them rests on `Alike`: two messages that differ in their MACs
  have the same octets around them.  The invariant `MessageInv` says that an
  authenticated message on the wire is what was signed with the MAC at an offset,
  where the decoder finds it, or has one octet changed.  That such a change is
  refused is not a matter of the MAC alone, since a changed tag or length may move the
  place that is blanked: a MAC found at another place makes at least two
  differences to the genuine message (`TwoPlaces`), and found at its own place
  leaves the change in what is verified.  TLC checked `MessageInv` on the instance of
  the run `codec` before it was proved.

  It also proves `RequestsAsMeant` and `AnswersAsMeant`: decoders read what
  encoders wrote, from the inside out.  A value of any type (`ContentReads`), a varbind
  (`VarbindReads`), a list of any length (`VarbindsRead`, by induction over the loop
  `Elements` and the list that `EncodeVarbindList` joined), a PDU (`PduReads`) and a
  scoped PDU (`ScopedReads`) are each read back, or refused where a value or a PDU type is
  not one that the decoder takes (`Understood`), behind the right number of octets and with
  any padding of lengths.  A ciphertext is undone with the boots, time and salt that the
  message itself carries (`Decrypts`, `IvOf`), and the header and security parameters pass
  or fail the checks of RFC 3412 and 3414 as `Allowed` says (`EnvelopeReads`).
  `RequestReads` puts these together for what peers send, `AnswerIsMeant` for what the
  agent answers, with `TrapPdu` and the saturated `sysUpTime` in front of a trap's varbinds
  (`ToldIs`).  Both properties are inductive as they stand: each step that
  writes a message establishes them, and an altered message is not theirs to judge.

Only model-checked: the liveness properties (`PostedSetsApplied`, `DropReturns`,
`QuietConnectionClosed`, `ManagerServed`, `SendTrapReturns`), which need fairness and are
out of the prover's reach.  Every invariant that a passing run checks is also proved.

## Not modelled

- A failing `waker.wake()`: `set` then reports Disconnected although the command
  is posted.
- Memory: the read drain is not bounded by the frame limit before it ends.
- A boots file whose path ends in `.tmp`, which is its own temporary file.
- The cryptographic crates (symbolic), failures of the AES encryption and of the
  random source, and what a compiler may do with copies of a key in registers.
  Of what these crates leave in memory only the hashers of key derivation are
  modelled: the states of the HMACs and ciphers of a message (`auth.rs`,
  `privacy.rs`), which hold what they made of the key, are not, so
  `KeyMemoryZeroed` says nothing of them.
- Time that passes while one event is handled: `engine_time` is read once before
  the drain, and the time window is checked against that reading.
- `UserName`'s validation, error texts, formatting, accessors, logging.
- What a change of the engine ID and back does to the boots values of the first
  one: `EngineEpochs` promises an increase only while the ID is kept.

Most lines of the repository's files are not part of the map: more than half of
each is its inline tests, and of the rest nearly half are doc comments.  What
remains unmapped of the code proper is types, accessors, formatters and error
enumerations, which hold no behaviour to model.

## Plan

1. `EventLoop` with frames that carry requests, composed with `Requests`, so
   that a response belongs to its request and leaves in order.
