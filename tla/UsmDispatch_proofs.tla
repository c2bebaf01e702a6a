------------------------- MODULE UsmDispatch_proofs -------------------------
(***************************************************************************)
(* For every set of frames, every time window and every sequence of        *)
(* deliveries, seconds and restarts: what the validation pipeline serves,  *)
(* what it does not reveal, and how far a replay can reach.                *)
(***************************************************************************)
EXTENDS UsmDispatch, TLAPS

Verdicts == Counters \cup {"serve", "discard"}

\* An answer is one of the last delivery, to a frame at the agent's level.
AnswerInv ==
    reply.type = "response" => reply.level = level /\ LevelOf(frame) = level

\* The instants the frame was served at lie in its window.
Timely(at) ==
    /\ at[1] = Unsigned(frame.boots)
    /\ Unsigned(frame.time) - at[2] <= Window
    /\ at[2] - Unsigned(frame.time) <= Window

ServiceInv ==
    /\ first = Never <=> last = Never
    /\ HasUser /\ first # Never => Timely(first) /\ Timely(last)

\* The inductive invariant.
IInv == TypeOK /\ AnswerInv /\ ServiceInv

LEMMA FrameAttributes ==
    ASSUME NEW f \in Frames
    PROVE  /\ f.boots \in Int /\ f.time \in Int
           /\ Unsigned(f.boots) \in Int /\ Unsigned(f.time) \in Int
           /\ LevelOf(f) \in {NoAuthNoPriv, AuthNoPriv, AuthPriv}
  BY UsmAssumption DEF FrameType, Unsigned, LevelOf, NoAuthNoPriv, AuthNoPriv, AuthPriv

LEMMA PipelineVerdict ==
    ASSUME NEW f PROVE RunValidationPipeline(f) \in Verdicts
  <1> USE DEF Then, Verdicts, Counters
  <1>1. CheckMessageEnvelope(f) \in Counters \cup {"pass"}
    BY DEF CheckMessageEnvelope
  <1>2. CheckUserName(f) \in Counters \cup {"pass"}
    BY DEF CheckUserName
  <1>3. CheckSecurityLevel(f) \in Counters \cup {"pass"}
    BY DEF CheckSecurityLevel
  <1>4. CheckPrivFlagAgreement(f) \in {"pass", "discard"}
    BY DEF CheckPrivFlagAgreement
  <1>5. VerifyAuthentication(f) \in Counters \cup {"pass"}
    BY DEF VerifyAuthentication
  <1>6. CheckTimeWindow(f) \in Counters \cup {"pass"}
    BY DEF CheckTimeWindow
  <1>7. CheckContextName(f) \in {"pass", "discard"}
    BY DEF CheckContextName
  <1>8. DecryptScopedPdu(f) \in Counters \cup {"pass", "discard"}
    BY DEF DecryptScopedPdu
  <1> QED
    BY <1>1, <1>2, <1>3, <1>4, <1>5, <1>6, <1>7, <1>8 DEF RunValidationPipeline

\* What is served has passed every check.
LEMMA PipelineServes ==
    ASSUME NEW f
    PROVE  RunValidationPipeline(f) = "serve" <=>
               /\ f.decodes
               /\ CheckMessageEnvelope(f) = "pass"
               /\ CheckUserName(f) = "pass"
               /\ CheckSecurityLevel(f) = "pass"
               /\ CheckPrivFlagAgreement(f) = "pass"
               /\ VerifyAuthentication(f) = "pass"
               /\ CheckTimeWindow(f) = "pass"
               /\ CheckContextName(f) = "pass"
               /\ DecryptScopedPdu(f) = "pass"
  <1>1. CheckMessageEnvelope(f) # "serve"
    BY DEF CheckMessageEnvelope
  <1>2. CheckUserName(f) # "serve"
    BY DEF CheckUserName
  <1>3. CheckSecurityLevel(f) # "serve"
    BY DEF CheckSecurityLevel
  <1>4. CheckPrivFlagAgreement(f) # "serve"
    BY DEF CheckPrivFlagAgreement
  <1>5. VerifyAuthentication(f) # "serve"
    BY DEF VerifyAuthentication
  <1>6. CheckTimeWindow(f) # "serve"
    BY DEF CheckTimeWindow
  <1>7. CheckContextName(f) # "serve"
    BY DEF CheckContextName
  <1>8. DecryptScopedPdu(f) # "serve"
    BY DEF DecryptScopedPdu
  <1> QED
    BY <1>1, <1>2, <1>3, <1>4, <1>5, <1>6, <1>7, <1>8 DEF RunValidationPipeline, Then

\* A frame that passes the level check is at the configured level.
LEMMA ServedAtLevel ==
    ASSUME TypeOK, NEW f \in Frames, CheckSecurityLevel(f) = "pass"
    PROVE  LevelOf(f) = level /\ ValidFlags(f)
  BY FrameAttributes, UsmAssumption
     DEF TypeOK, CheckSecurityLevel, ShouldRejectSecurityLevel, HasUser,
         NoAuthNoPriv, AuthNoPriv, AuthPriv

LEMMA InitIInv == Init => IInv
  <1> SUFFICES ASSUME Init PROVE IInv
    OBVIOUS
  <1>1. TypeOK
    BY UsmAssumption DEF Init, TypeOK, Instants, Replies
  <1>2. AnswerInv
    BY DEF Init, AnswerInv, NoReply
  <1>3. ServiceInv
    BY DEF Init, ServiceInv
  <1> QED
    BY <1>1, <1>2, <1>3 DEF IInv

LEMMA NextIInv == IInv /\ [Next]_vars => IInv'
  <1> SUFFICES ASSUME IInv, [Next]_vars PROVE IInv'
    OBVIOUS
  <1> USE UsmAssumption DEF IInv
  <1>1. CASE ProcessSnmpv3Request(frame)
    <2> DEFINE verdict == RunValidationPipeline(frame)
    <2>0. UNCHANGED <<level, engine_boots, clock, engine_time, frame>>
      BY <1>1 DEF ProcessSnmpv3Request
    <2>1. CASE verdict \in Counters /\ EmitReport(frame, verdict)
      <3>1. SaturatingIncrement(counters[verdict]) \in 0..MaxU32
        BY <2>1 DEF TypeOK, SaturatingIncrement
      <3>2. counters' \in [Counters -> 0..MaxU32] /\ counters'[verdict] \in 0..MaxU32
        BY <2>1, <3>1 DEF EmitReport, TypeOK
      <3>3. reply' \in Replies /\ reply'.type # "response"
        BY <2>1, <3>2 DEF EmitReport, Replies, NoReply
      <3>4. TypeOK'
        BY <2>0, <2>1, <3>2, <3>3 DEF EmitReport, TypeOK
      <3>5. ServiceInv'
        BY <2>0, <2>1 DEF EmitReport, ServiceInv, Timely, Unsigned, HasUser
      <3> QED
        BY <3>3, <3>4, <3>5 DEF AnswerInv
    <2>2. CASE verdict = "serve" /\ Respond
      <3>1. CheckSecurityLevel(frame) = "pass" /\ CheckTimeWindow(frame) = "pass"
        BY <2>2, PipelineServes
      <3>2. LevelOf(frame) = level
        BY <3>1, ServedAtLevel DEF TypeOK
      <3>3. last' = <<engine_boots, engine_time>> /\ last' \in Instants /\ last' # Never
        BY <2>2 DEF Respond, Instants, TypeOK
      <3>4. first' \in Instants /\ first' # Never
        BY <2>2, <3>3 DEF Respond, TypeOK
      <3>5. reply' \in Replies /\ (reply'.type = "response" => reply'.level = level)
        BY <2>2 DEF Respond, Replies, NoReply, TypeOK
      <3>6. TypeOK'
        BY <2>0, <2>2, <3>3, <3>4, <3>5 DEF Respond, TypeOK
      <3>7. AnswerInv'
        BY <2>0, <3>2, <3>5 DEF AnswerInv, LevelOf
      <3>8. ASSUME HasUser PROVE Timely(last')
        BY <3>1, <3>3, <3>8 DEF CheckTimeWindow, IsInTimeWindow, Timely, TypeOK
      <3>9. ServiceInv'
        <4>1. HasUser' = HasUser
          BY <2>0 DEF HasUser
        <4>2. ASSUME NEW at PROVE Timely(at)' = Timely(at)
          BY <2>0 DEF Timely, Unsigned
        <4>3. CASE first = Never
          BY <2>0, <2>2, <3>3, <3>4, <3>8, <4>1, <4>3 DEF Respond, ServiceInv, Timely, Unsigned
        <4>4. CASE first # Never
          BY <2>0, <2>2, <3>3, <3>4, <3>8, <4>1, <4>4 DEF Respond, ServiceInv, Timely, Unsigned
        <4> QED
          BY <4>3, <4>4
      <3> QED
        BY <3>6, <3>7, <3>9
    <2>3. CASE verdict = "discard" /\ reply' = NoReply /\ UNCHANGED <<counters, first, last>>
      <3>1. TypeOK'
        BY <2>0, <2>3 DEF TypeOK, Replies
      <3>2. AnswerInv'
        BY <2>3 DEF AnswerInv, NoReply
      <3>3. ServiceInv'
        BY <2>0, <2>3 DEF ServiceInv, Timely, Unsigned, HasUser
      <3> QED
        BY <3>1, <3>2, <3>3
    <2> QED
      BY <1>1, <2>1, <2>2, <2>3 DEF ProcessSnmpv3Request
  <1>2. CASE HandleEvent
    BY <1>2 DEF HandleEvent, TypeOK, AnswerInv, ServiceInv, Timely, Unsigned, HasUser, LevelOf
  <1>3. CASE Second
    BY <1>3 DEF Second, TypeOK, AnswerInv, ServiceInv, Timely, Unsigned, HasUser, LevelOf
  <1>4. CASE Restart
    <2>1. TypeOK'
      BY <1>4 DEF Restart, TypeOK, Replies
    <2>2. AnswerInv'
      BY <1>4 DEF Restart, AnswerInv, NoReply
    <2>3. ServiceInv'
      BY <1>4 DEF Restart, ServiceInv, Timely, Unsigned, HasUser
    <2> QED
      BY <2>1, <2>2, <2>3
  <1>5. CASE UNCHANGED vars
    BY <1>5 DEF vars, TypeOK, AnswerInv, ServiceInv, Timely, Unsigned, HasUser, LevelOf
  <1> QED
    BY <1>1, <1>2, <1>3, <1>4, <1>5 DEF Next

LEMMA SpecIInv == Spec => []IInv
  BY InitIInv, NextIInv, PTL DEF Spec

\* Every variable stays in its type; the counters saturate at u32::MAX.
THEOREM UsmTypeOK == Spec => []TypeOK
  <1>1. IInv => TypeOK
    BY DEF IInv
  <1> QED
    BY <1>1, SpecIInv, PTL

\* The pipeline's nested checks serve exactly the frames that are authorised
\* by the declarative definition, for every window, boots value and time.
THEOREM ServesExactlyTheAuthorised == Spec => []ServedIffAuthorised
  <1>1. ASSUME TypeOK PROVE ServedIffAuthorised
    <2> SUFFICES ASSUME engine_time <= MaxInt
                 PROVE  RunValidationPipeline(frame) = "serve" <=> Authorised(frame)
      BY DEF ServedIffAuthorised
    <2> USE <1>1, UsmAssumption
    <2>1. frame \in Frames /\ frame \in FrameType
      BY DEF TypeOK
    <2>2. CheckSecurityLevel(frame) = "pass" <=> ValidFlags(frame) /\ LevelOf(frame) = level
      BY <2>1, FrameAttributes
         DEF TypeOK, CheckSecurityLevel, ShouldRejectSecurityLevel, HasUser,
             NoAuthNoPriv, AuthNoPriv, AuthPriv
    <2>3. HasUser => (CheckTimeWindow(frame) = "pass" <=>
              /\ frame.boots = engine_boots
              /\ frame.time >= 0
              /\ frame.time \in (engine_time - Window)..(engine_time + Window))
      <3>1. frame.boots \in Int /\ frame.time \in Int
        BY <2>1, FrameAttributes
      <3>2. engine_boots \in 1..MaxBoots /\ engine_time \in 0..MaxU32
        BY DEF TypeOK
      <3> QED
        BY <3>1, <3>2 DEF CheckTimeWindow, IsInTimeWindow, Unsigned
    <2>4. ~HasUser => CheckTimeWindow(frame) = "pass"
      BY DEF CheckTimeWindow
    <2>5. LevelOf(frame) = AuthPriv <=> "priv" \in frame.flags
      BY DEF LevelOf, NoAuthNoPriv, AuthNoPriv, AuthPriv
    <2>6. frame.encrypted \in BOOLEAN /\ frame.auth_engine_id \in {"empty", "mine", "other"}
      BY <2>1 DEF FrameType
    <2>7. CheckPrivFlagAgreement(frame) = "pass" <=> ("priv" \in frame.flags <=> frame.encrypted)
      BY <2>6 DEF CheckPrivFlagAgreement
    <2>8. HasPrivacy => HasUser
      BY DEF HasPrivacy, HasUser, NoAuthNoPriv, AuthPriv
    <2>9. CASE frame.encrypted
      BY <2>2, <2>3, <2>4, <2>5, <2>6, <2>7, <2>8, <2>9, PipelineServes
         DEF Authorised, CheckMessageEnvelope, CheckUserName, VerifyAuthentication,
             CheckContextName, DecryptScopedPdu, EngineIdOf, ContextNameOf, HasPrivacy
    <2>10. CASE ~frame.encrypted
      BY <2>2, <2>3, <2>4, <2>5, <2>6, <2>7, <2>8, <2>10, PipelineServes
         DEF Authorised, CheckMessageEnvelope, CheckUserName, VerifyAuthentication,
             CheckContextName, DecryptScopedPdu, EngineIdOf, ContextNameOf, HasPrivacy
    <2> QED
      BY <2>9, <2>10
  <1> QED
    BY <1>1, UsmTypeOK, PTL

\* Without a valid MAC neither the time stamp nor the ciphertext changes the
\* verdict: the order REQ-0102 asks for, as non-interference.
THEOREM VerdictHidesClockAndPlaintext == Spec => []NoOracleBeforeMac
  <1>1. ASSUME TypeOK PROVE NoOracleBeforeMac
    <2> SUFFICES ASSUME HasUser, ~frame.mac
                 PROVE  RunValidationPipeline(frame) = RunValidationPipeline(Opaque(frame))
      BY DEF NoOracleBeforeMac
    <2> DEFINE o == Opaque(frame)
    <2>1. frame \in FrameType
      BY <1>1, UsmAssumption DEF TypeOK
    <2>2. /\ o.decodes = frame.decodes /\ o.usm = frame.usm
          /\ o.auth_engine_id = frame.auth_engine_id /\ o.user = frame.user
          /\ o.flags = frame.flags /\ o.mac = frame.mac
          /\ o.encrypted = frame.encrypted
      BY <2>1 DEF Opaque, FrameType
    <2>3. /\ EngineIdOf(o) = EngineIdOf(frame)
      BY <2>1, <2>2 DEF EngineIdOf, Opaque, FrameType
    <2> HIDE DEF o
    <2>4. CheckMessageEnvelope(o) = CheckMessageEnvelope(frame)
      BY <2>2, <2>3 DEF CheckMessageEnvelope
    <2>5. CheckUserName(o) = CheckUserName(frame)
      BY <2>2 DEF CheckUserName
    <2>6. CheckSecurityLevel(o) = CheckSecurityLevel(frame)
      BY <2>2 DEF CheckSecurityLevel, ShouldRejectSecurityLevel, ValidFlags, LevelOf
    <2>7. CheckPrivFlagAgreement(o) = CheckPrivFlagAgreement(frame)
      BY <2>2 DEF CheckPrivFlagAgreement
    <2>8. VerifyAuthentication(o) = "wrong_digests" /\ VerifyAuthentication(frame) = "wrong_digests"
      BY <2>2 DEF VerifyAuthentication
    <2>9. RunValidationPipeline(frame) = RunValidationPipeline(o)
      BY <2>2, <2>4, <2>5, <2>6, <2>7, <2>8 DEF RunValidationPipeline, Then
    <2> QED
      BY <2>9 DEF o
  <1> QED
    BY <1>1, UsmTypeOK, PTL

\* Answers go out at the level of their requests.
THEOREM AnswersAtRequestLevel == Spec => []AnswerLevelMatches
  <1>1. IInv => AnswerLevelMatches
    BY DEF IInv, AnswerInv, AnswerLevelMatches
  <1> QED
    BY <1>1, SpecIInv, PTL

\* A frame is served in one incarnation only and there for at most twice the
\* window, whatever the network repeats.
THEOREM ReplaysAreBounded == Spec => []ReplayBounded
  <1>1. ASSUME IInv PROVE ReplayBounded
    <2> SUFFICES ASSUME HasUser, first # Never
                 PROVE  /\ last[1] = first[1]
                        /\ last[2] - first[2] <= 2 * Window
                        /\ first[2] - last[2] <= 2 * Window
      BY DEF ReplayBounded
    <2>1. Timely(first) /\ Timely(last)
      BY <1>1 DEF IInv, ServiceInv
    <2>2. first[2] \in 0..MaxU32 /\ last[2] \in 0..MaxU32
      BY <1>1 DEF IInv, TypeOK, Instants, ServiceInv
    <2>3. Unsigned(frame.time) \in Int
      BY <1>1, FrameAttributes DEF IInv, TypeOK
    <2> QED
      BY <2>1, <2>2, <2>3, UsmAssumption DEF Timely
  <1> QED
    BY <1>1, SpecIInv, PTL
=============================================================================
