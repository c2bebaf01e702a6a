---------------------------- MODULE UsmDispatch ----------------------------
(***************************************************************************)
(* The USM validation pipeline (src/transport/dispatch.rs and its          *)
(* submodules) of one agent, across restarts, while the network delivers   *)
(* copies of a frame at any time and any number of times.  A frame is what *)
(* decode_v3_message makes of it, together with what the cryptography will *)
(* say of it under the configured user's keys.                             *)
(***************************************************************************)
EXTENDS Integers

CONSTANTS
    Frames,      \* the frames of this instance
    Levels,      \* the security levels the agent may be built with
    Window,      \* the time window (150 seconds in the code)
    MaxInt,      \* i32::MAX
    MaxU32,      \* u32::MAX
    MaxBoots,    \* bound: restarts
    Never        \* the frame has not been served

(* SecurityLevel, ordered *)
NoAuthNoPriv == 0
AuthNoPriv == 1
AuthPriv == 2

Counters == {"unknown_security_models", "unknown_engine_ids", "unknown_user_names",
             "unsupported_sec_levels", "wrong_digests", "not_in_time_windows",
             "decryption_errors"}

\* `user': it names the configured user; `mac': its MAC verifies under the
\* user's key; `salt', `opens': msgPrivacyParameters is a salt, and what the
\* ciphertext decrypts to is a ScopedPDU.
FrameType == [decodes : BOOLEAN, usm : BOOLEAN,
              auth_engine_id : {"empty", "mine", "other"},
              user : BOOLEAN, flags : SUBSET {"auth", "priv", "reportable"},
              mac : BOOLEAN, boots : Int, time : Int,
              encrypted : BOOLEAN, salt : BOOLEAN, opens : BOOLEAN,
              context_engine_id : {"mine", "other"},
              context_name : {"default", "named"}]

ASSUME UsmAssumption ==
    /\ Frames \subseteq FrameType
    /\ Levels \subseteq {NoAuthNoPriv, AuthNoPriv, AuthPriv}
    /\ Window \in Nat
    /\ MaxInt \in Nat /\ MaxU32 \in Nat /\ MaxInt + Window < MaxU32
    /\ MaxBoots \in Nat \ {0} /\ MaxBoots <= MaxInt
    /\ Never \notin (1..MaxBoots) \X (0..MaxU32)

VARIABLES
    level,         \* SecurityConfig: the user's level, 0 when there is no user
    engine_boots,
    clock,         \* seconds since engine_start, capped at u32::MAX
    engine_time,   \* engine_time_seconds() as the current event's handler read it
    counters,      \* the usmStats counters
    frame,         \* the frame the network keeps delivering
    reply,         \* what the last delivery was answered with
    first, last    \* history: when the frame was first and last served

vars == <<level, engine_boots, clock, engine_time, counters, frame, reply, first, last>>

NoReply == [type |-> "none"]

-----------------------------------------------------------------------------
(* Each check answers "pass", "discard", or the counter its Report carries. *)

\* The rest of the pipeline runs only if the check passes.
Then(check, rest) == IF check = "pass" THEN rest ELSE check

\* The contextEngineID and contextName decode_v3_message hands to dispatch:
\* an encrypted message's are those of its USM header until it is decrypted.
EngineIdOf(f) == IF f.encrypted THEN f.auth_engine_id ELSE f.context_engine_id
ContextNameOf(f) == IF f.encrypted THEN "default" ELSE f.context_name

\* decode_v3_message clamps negative wire values to u32::MAX.
Unsigned(n) == IF n < 0 THEN MaxU32 ELSE n

HasUser == level # NoAuthNoPriv
HasPrivacy == level = AuthPriv

CheckMessageEnvelope(f) ==
    IF ~f.usm THEN "unknown_security_models"
    ELSE IF f.auth_engine_id = "empty" \/ EngineIdOf(f) # "mine" THEN "unknown_engine_ids"
    ELSE "pass"

CheckUserName(f) == IF HasUser /\ ~f.user THEN "unknown_user_names" ELSE "pass"

\* SecurityLevel::try_from(msgFlags), where privFlag alone is invalid.
ValidFlags(f) == "priv" \in f.flags => "auth" \in f.flags
LevelOf(f) ==
    IF "priv" \in f.flags THEN AuthPriv
    ELSE IF "auth" \in f.flags THEN AuthNoPriv ELSE NoAuthNoPriv

\* Faulty variant: no floor.
ShouldRejectSecurityLevel_NoFloor(f) ==
    \/ ~ValidFlags(f)
    \/ HasUser /\ LevelOf(f) > level
    \/ ~HasUser /\ LevelOf(f) > NoAuthNoPriv

\* The floor is the configured level (AgentBuilder::build).
ShouldRejectSecurityLevel(f) ==
    \/ ~ValidFlags(f)
    \/ LevelOf(f) < level
    \/ HasUser /\ LevelOf(f) > level
    \/ ~HasUser /\ LevelOf(f) > NoAuthNoPriv

CheckSecurityLevel(f) ==
    IF ShouldRejectSecurityLevel(f) THEN "unsupported_sec_levels" ELSE "pass"

CheckPrivFlagAgreement(f) ==
    IF ("priv" \in f.flags) = f.encrypted THEN "pass" ELSE "discard"

VerifyAuthentication(f) == IF HasUser /\ ~f.mac THEN "wrong_digests" ELSE "pass"

\* Faulty variant: the boots value is not compared.
IsInTimeWindow_AnyBoots(boots, time) ==
    /\ time - engine_time <= Window
    /\ engine_time - time <= Window

IsInTimeWindow(boots, time) ==
    /\ boots = engine_boots
    /\ time - engine_time <= Window
    /\ engine_time - time <= Window

CheckTimeWindow(f) ==
    IF HasUser /\ ~IsInTimeWindow(Unsigned(f.boots), Unsigned(f.time))
    THEN "not_in_time_windows" ELSE "pass"

CheckContextName(f) == IF ContextNameOf(f) # "default" THEN "discard" ELSE "pass"

DecryptScopedPdu(f) ==
    IF ~f.encrypted THEN "pass"
    ELSE IF ~HasPrivacy THEN "discard"
    ELSE IF ~f.salt \/ ~f.opens THEN "decryption_errors"
    ELSE IF f.context_engine_id # "mine" THEN "unknown_engine_ids"
    ELSE IF f.context_name # "default" THEN "discard"
    ELSE "pass"

\* Faulty variant: the time window is checked before the MAC.
RunValidationPipeline_TimeFirst(f) ==
    IF ~f.decodes THEN "discard"
    ELSE Then(CheckMessageEnvelope(f),
         Then(CheckUserName(f),
         Then(CheckSecurityLevel(f),
         Then(CheckPrivFlagAgreement(f),
         Then(CheckTimeWindow(f),
         Then(VerifyAuthentication(f),
         Then(CheckContextName(f),
         Then(DecryptScopedPdu(f), "serve"))))))))

RunValidationPipeline(f) ==
    IF ~f.decodes THEN "discard"
    ELSE Then(CheckMessageEnvelope(f),
         Then(CheckUserName(f),
         Then(CheckSecurityLevel(f),
         Then(CheckPrivFlagAgreement(f),
         Then(VerifyAuthentication(f),
         Then(CheckTimeWindow(f),
         Then(CheckContextName(f),
         Then(DecryptScopedPdu(f), "serve"))))))))

-----------------------------------------------------------------------------

\* encode_v3_envelope refuses what a BER INTEGER of 32 bits cannot hold.
Encodable == engine_boots <= MaxInt /\ engine_time <= MaxInt

SaturatingIncrement(n) == IF n < MaxU32 THEN n + 1 ELSE n

\* emit_report_response: the counter moves even when no Report is sent.
EmitReport(f, c) ==
    /\ counters' = [counters EXCEPT ![c] = SaturatingIncrement(@)]
    /\ reply' = IF "reportable" \in f.flags /\ Encodable
                THEN [type |-> "report", counter |-> c, value |-> counters'[c]]
                ELSE NoReply
    /\ UNCHANGED <<first, last>>

\* dispatch_pdu_and_encode_response: the request is executed, and its answer
\* goes out at the level of the configured user's credentials.
Respond ==
    /\ reply' = IF Encodable THEN [type |-> "response", level |-> level] ELSE NoReply
    /\ last' = <<engine_boots, engine_time>>
    /\ first' = IF first = Never THEN last' ELSE first
    /\ UNCHANGED counters

\* process_snmpv3_request on a copy of the frame.
ProcessSnmpv3Request(f) ==
    /\ LET verdict == RunValidationPipeline(f)
       IN  \/ verdict \in Counters /\ EmitReport(f, verdict)
           \/ verdict = "serve" /\ Respond
           \/ /\ verdict = "discard"
              /\ reply' = NoReply
              /\ UNCHANGED <<counters, first, last>>
    /\ UNCHANGED <<level, engine_boots, clock, engine_time, frame>>

\* handle_connection_event reads the time once for all frames of the event.
HandleEvent ==
    /\ engine_time' = clock
    /\ UNCHANGED <<level, engine_boots, clock, counters, frame, reply, first, last>>

Second ==
    /\ clock < MaxU32
    /\ clock' = clock + 1
    /\ UNCHANGED <<level, engine_boots, engine_time, counters, frame, reply, first, last>>

\* The agent is built anew: with a user, under a larger boots value (see
\* EngineEpochs); without one, boots is always 1.
Restart ==
    /\ IF HasUser THEN engine_boots' \in (engine_boots + 1)..MaxBoots
                  ELSE engine_boots' = engine_boots
    /\ clock' = 0
    /\ engine_time' = 0
    /\ counters' = [c \in Counters |-> 0]
    /\ reply' = NoReply
    /\ UNCHANGED <<level, frame, first, last>>

Init ==
    /\ level \in Levels
    /\ engine_boots = 1
    /\ clock = 0
    /\ engine_time = 0
    /\ counters = [c \in Counters |-> 0]
    /\ frame \in Frames
    /\ reply = NoReply
    /\ first = Never
    /\ last = Never

Next ==
    \/ ProcessSnmpv3Request(frame)
    \/ HandleEvent
    \/ Second
    \/ Restart

Spec == Init /\ [][Next]_vars

-----------------------------------------------------------------------------
(* Properties *)

Instants == {Never} \cup ((1..MaxBoots) \X (0..MaxU32))
Replies == {NoReply}
           \cup [type : {"report"}, counter : Counters, value : 0..MaxU32]
           \cup [type : {"response"}, level : Levels]

\* Every variable stays in its type; a counter at u32::MAX stays there.
TypeOK ==
    /\ level \in Levels
    /\ engine_boots \in 1..MaxBoots
    /\ clock \in 0..MaxU32
    /\ engine_time \in 0..MaxU32
    /\ counters \in [Counters -> 0..MaxU32]
    /\ frame \in Frames
    /\ reply \in Replies
    /\ first \in Instants
    /\ last \in Instants

\* The messages an agent of this level must serve, and no others, stated
\* without the order of the checks.
Authorised(f) ==
    /\ f.decodes /\ f.usm /\ f.auth_engine_id # "empty"
    /\ f.context_engine_id = "mine" /\ f.context_name = "default"
    /\ ValidFlags(f) /\ LevelOf(f) = level
    /\ f.encrypted = HasPrivacy
    /\ HasUser => /\ f.user /\ f.mac
                  /\ f.boots = engine_boots
                  /\ f.time >= 0 /\ f.time \in (engine_time - Window)..(engine_time + Window)
    /\ f.encrypted => f.auth_engine_id = "mine" /\ f.salt /\ f.opens

\* The pipeline serves a frame exactly when it is authorised, at every boots
\* value and time of the engine (REQ-0077 to REQ-0079, REQ-0098, REQ-0100,
\* REQ-0101, REQ-0104, REQ-0130, REQ-0135), until the engine time outgrows
\* the 31 bits of its wire format.
ServedIffAuthorised ==
    engine_time <= MaxInt =>
        (RunValidationPipeline(frame) = "serve" <=> Authorised(frame))

\* The frame as it looks to someone who cannot check its MAC: its time stamp
\* and everything under its encryption replaced by fixed values.
Opaque(f) ==
    [f EXCEPT !.boots = 0, !.time = 0, !.salt = FALSE, !.opens = FALSE,
              !.context_engine_id = IF f.encrypted THEN "other" ELSE @,
              !.context_name = IF f.encrypted THEN "named" ELSE @]

\* REQ-0102's order: a frame whose MAC does not verify is answered the same
\* whatever its time stamp says and whatever its ciphertext holds, so neither
\* the clock nor the plaintext is an oracle for it.
NoOracleBeforeMac ==
    HasUser /\ ~frame.mac =>
        RunValidationPipeline(frame) = RunValidationPipeline(Opaque(frame))

\* REQ-0107: an answer goes out at the level of the request.
AnswerLevelMatches ==
    reply.type = "response" => reply.level = LevelOf(frame)

\* Replay is bounded: whatever the network repeats, a frame of an agent with
\* a user is served in one incarnation only, and there within twice the
\* window of its first service.
ReplayBounded ==
    HasUser /\ first # Never =>
        /\ last[1] = first[1]
        /\ last[2] - first[2] <= 2 * Window
        /\ first[2] - last[2] <= 2 * Window
=============================================================================
