------------------------------ MODULE Messages ------------------------------
(***************************************************************************)
(* SNMPv3 messages on the wire: how the agent writes and signs them        *)
(* (codec/pdu/encode.rs, codec/ber/*.rs), how it reads them (codec/pdu/    *)
(* decode.rs) and where it finds the MAC it has to blank before it can     *)
(* verify it (transport/dispatch.rs).  A peer may write lengths in longer  *)
(* forms than the agent does, and an octet may change on the way.          *)
(*                                                                         *)
(* Octets are scaled as in Ber; the MAC is ideal (two different messages   *)
(* never have the same one) and the cipher a stand-in that keeps lengths.  *)
(***************************************************************************)
EXTENDS Ber

CONSTANTS
    Tag,             \* the name of a tag -> its octet
    MinMaxSize,      \* the least msgMaxSize: 484
    MaxUserName,     \* MSG_USER_NAME_MAX_LENGTH
    MSG_MAX_SIZE,    \* MSG_MAX_SIZE_UDP
    MacOctets,       \* octets of a MAC
    SaltOctets,      \* octets of a privacy salt: 8
    Answers,         \* what the agent is asked to send
    ReportCounters,  \* varbinds of Reports
    Uptimes,         \* milliseconds since the agent started
    TrapOids,        \* what traps are about
    SYS_UP_TIME_OID, SNMP_TRAP_OID_OID,
    Requests,        \* messages peers send
    Paddings,        \* the sets of TLVs whose lengths a peer writes in a longer form
    Macs,            \* MACs a message may happen to have
    Alterations      \* octets that replace another one on the way

VARIABLES
    wire,     \* the octets of the message
    sent,     \* what its sender meant: [by, fields, signed, mac], and what the agent was asked
    altered   \* an octet has changed

messageVars == <<wire, sent, altered>>

Exceptions == {Tag.NoSuchObject, Tag.NoSuchInstance, Tag.EndOfMibView}
Unsigned32s == {Tag.Counter32, Tag.Gauge32, Tag.TimeTicks}
ValueTags ==
    {Tag.Null, Tag.Integer, Tag.OctetString, Tag.Oid, Tag.IpAddress, Tag.Opaque, Tag.Counter64}
        \cup Exceptions \cup Unsigned32s
InboundTags == {Tag.GetRequest, Tag.GetNextRequest, Tag.SetRequest, Tag.GetBulkRequest}

-----------------------------------------------------------------------------
(* Writing.  The TLVs named in `long' get a longer length than they need,   *)
(* as a peer may write them; the agent always writes the shortest.         *)

WriteTlv(tag, content) == <<tag>> \o EncodeLength(Len(content)) \o content

\* A longer form of a length: a leading zero octet.
LongLength(n) ==
    LET digits == IF n < Half THEN <<n>> ELSE Tail(EncodeLength(n))
    IN  <<Half + Len(digits) + 1, 0>> \o digits

Write(long, name, tag, content) ==
    IF name \in long THEN <<tag>> \o LongLength(Len(content)) \o content ELSE WriteTlv(tag, content)

EncodeContent(tag, data) ==
    CASE tag = Tag.Integer                  -> EncodeSigned(data)
      [] tag = Tag.Oid                      -> EncodeOid(data)
      [] tag \in Unsigned32s                -> EncodeUnsigned(data, WordOctets)
      [] tag = Tag.Counter64                -> EncodeUnsigned(data, DoubleOctets)
      [] tag \in Exceptions \cup {Tag.Null} -> <<>>
      [] OTHER                              -> data

WriteInteger(n) == WriteTlv(Tag.Integer, EncodeSigned(n))
WriteOctets(s) == WriteTlv(Tag.OctetString, s)

EncodeVarbind(vb, long) ==
    Write(long, "varbind", Tag.Sequence,
          WriteTlv(Tag.Oid, EncodeOid(vb.oid)) \o WriteTlv(vb.tag, EncodeContent(vb.tag, vb.data)))

EncodeVarbinds(varbinds, long) ==
    FlattenSeq([i \in DOMAIN varbinds |-> EncodeVarbind(varbinds[i], long)])

EncodeVarbindList(varbinds, long) == Write(long, "list", Tag.Sequence, EncodeVarbinds(varbinds, long))

\* encode_pdu and encode_bulk_pdu: `second' and `third' are error status and
\* index, or non-repeaters and max-repetitions.
EncodePdu(pdu, long) ==
    Write(long, "pdu", pdu.tag,
          WriteInteger(pdu.id) \o WriteInteger(pdu.second) \o WriteInteger(pdu.third)
              \o EncodeVarbindList(pdu.varbinds, long))

EncodeScopedPdu(f, long) ==
    Write(long, "scoped", Tag.Sequence,
          WriteOctets(f.contextEngine) \o WriteOctets(f.contextName) \o EncodePdu(f.pdu, long))

EncodeUsmParams(f, auth, long) ==
    Write(long, "usm", Tag.Sequence,
          Write(long, "engine", Tag.OctetString, f.engine) \o WriteInteger(f.boots) \o WriteInteger(f.time)
              \o Write(long, "user", Tag.OctetString, f.user) \o Write(long, "auth", Tag.OctetString, auth)
              \o WriteOctets(f.salt))

EncodeHeaderData(f, long) ==
    Write(long, "header", Tag.Sequence,
          WriteInteger(f.id) \o WriteInteger(f.maxSize) \o WriteOctets(f.flags) \o WriteInteger(f.model))

\* Stand-in for AES-CFB128: it keeps lengths and depends on the whole IV.
Keystream(iv, i) ==
    LET sum[n \in 0..Len(iv)] == IF n = 0 THEN 7 * i ELSE 3 * sum[n - 1] + iv[n]
    IN  sum[Len(iv)] % Base
Encrypt(iv, s) == [i \in DOMAIN s |-> (s[i] + Keystream(iv, i)) % Base]
Decrypt(iv, s) == [i \in DOMAIN s |-> (s[i] - Keystream(iv, i)) % Base]

\* Faulty variant: the IV lacks the time.
Iv_NoTime(boots, time, salt) == <<boots>> \o salt

\* The IV: boots, time, salt.
Iv(boots, time, salt) == <<boots, time>> \o salt

\* encode_v3_message, around the scoped PDU or its ciphertext.
EncodeV3Message(f, auth, long) ==
    LET scoped == EncodeScopedPdu(f, long)
    IN  Write(long, "message", Tag.Sequence,
              WriteInteger(f.version) \o EncodeHeaderData(f, long)
                  \o Write(long, "security", Tag.OctetString, EncodeUsmParams(f, auth, long))
                  \o IF f.encrypted THEN WriteOctets(Encrypt(<<f.boots, f.time>> \o f.salt, scoped)) ELSE scoped)

Canonical(f, auth) == EncodeV3Message(f, auth, {})

Zeros(n) == [i \in 1..n |-> 0]
Overwrite(s, offset, octets) ==
    [i \in DOMAIN s |-> IF i \in (offset + 1)..(offset + Len(octets)) THEN octets[i - offset] ELSE s[i]]

-----------------------------------------------------------------------------
(* Reading *)

\* The content of a TLV, as read_integer, read_oid, ... decode it.
DecodeContent(tag, content) ==
    CASE tag = Tag.Integer                  -> DecodeSigned(content)
      [] tag = Tag.Oid                      -> DecodeOid(content)
      [] tag \in Unsigned32s                -> DecodeUnsigned(content, WordOctets)
      [] tag = Tag.Counter64                -> DecodeUnsigned(content, DoubleOctets)
      [] tag \in Exceptions \cup {Tag.Null} -> IF content = <<>> THEN Ok(<<>>) ELSE Error
      [] tag = Tag.IpAddress                -> IF Len(content) = 4 THEN Ok(content) ELSE Error
      [] OTHER                              -> Ok(content)

\* Faulty variant: a tag and one length octet.
ContentOffset_ShortForm(start, tlv) == start + 2

\* Where the content of a TLV starts in the message (read_constructed, and
\* offset() minus the content's length).
ContentOffset(start, tlv) == start + tlv.used - Len(tlv.value)

\* The `?' of the code: an error ends the decoding.
Try(r, Continue(_)) == IF r.ok THEN Continue(r) ELSE Error

Value(r, i) == r.fields[i].value
At(r, i) == r.fields[i].at
Rest(s, r) == From(s, r.position + 1)

\* A reader whose input starts at offset `base' of the message reads one more
\* TLV, which has to have the given tag.
ReadField(s, base, r, tag) ==
    Try(ReadTlv(Rest(s, r)), LAMBDA tlv :
        IF s[r.position + 1] # tag THEN Error
        ELSE Try(DecodeContent(tag, tlv.value), LAMBDA content :
                 [ok       |-> TRUE,
                  position |-> r.position + tlv.used,
                  fields   |-> Append(r.fields, [value |-> content.value,
                                                 at    |-> ContentOffset(base + r.position, tlv)])]))

\* TLVs with the given tags, one after the other; what follows them is not
\* looked at.
ReadFields(s, base, tags) ==
    LET read[n \in 0..Len(tags)] ==
            IF n = 0 THEN [ok |-> TRUE, position |-> 0, fields |-> <<>>]
            ELSE Try(read[n - 1], LAMBDA r : ReadField(s, base, r, tags[n]))
    IN  read[Len(tags)]

\* peek_tag, and the TLV if its tag is one of the given.
ReadOneOf(s, tags) ==
    IF s = <<>> THEN Error
    ELSE IF s[1] \notin tags THEN Error
    ELSE ReadFields(s, 0, <<s[1]>>)

DecodeHeaderData(s) ==
    Try(ReadFields(s, 0, <<Tag.Integer, Tag.Integer, Tag.OctetString, Tag.Integer>>), LAMBDA r :
        IF Value(r, 1) < 0 \/ Value(r, 2) < MinMaxSize \/ Len(Value(r, 3)) # 1 THEN Error
        ELSE Ok([id |-> Value(r, 1), maxSize |-> Value(r, 2), flags |-> Value(r, 3), model |-> Value(r, 4)]))

NoOffset == -1

\* decode_usm_security_parameters, given the content of the OCTET STRING and
\* its offset.
DecodeUsm(s, base) ==
    Try(ReadFields(s, base, <<Tag.Sequence>>), LAMBDA outer :
    Try(ReadFields(Value(outer, 1), At(outer, 1),
                   <<Tag.OctetString, Tag.Integer, Tag.Integer,
                     Tag.OctetString, Tag.OctetString, Tag.OctetString>>), LAMBDA r :
        IF Len(Value(r, 4)) > MaxUserName THEN Error
        ELSE Ok([engine |-> Value(r, 1), boots |-> Value(r, 2), time |-> Value(r, 3), user |-> Value(r, 4),
                 auth   |-> Value(r, 5),
                 offset |-> IF Value(r, 5) = <<>> THEN NoOffset ELSE At(r, 5),
                 salt   |-> Value(r, 6)])))

\* decode_v3_envelope: the scoped data is left undecoded.
DecodeV3Envelope(s) ==
    Try(ReadFields(s, 0, <<Tag.Sequence>>), LAMBDA message :
    Try(ReadFields(Value(message, 1), At(message, 1), <<Tag.Integer, Tag.Sequence, Tag.OctetString>>), LAMBDA top :
    Try(DecodeHeaderData(Value(top, 2)), LAMBDA header :
    Try(DecodeUsm(Value(top, 3), At(top, 3)), LAMBDA usm :
    Try(ReadOneOf(Rest(Value(message, 1), top), {Tag.Sequence, Tag.OctetString}), LAMBDA scoped :
        IF Value(top, 1) # 3 THEN Error
        ELSE Ok([header |-> header.value, usm |-> usm.value, scoped |-> Value(scoped, 1),
                 encrypted |-> Head(Rest(Value(message, 1), top)) = Tag.OctetString]))))))

\* SEQUENCEs, one after the other, until nothing is left.
Elements(s) ==
    LET read[n \in 0..Len(s)] ==
            IF n = 0 THEN [ok |-> TRUE, position |-> 0, fields |-> <<>>]
            ELSE Try(read[n - 1], LAMBDA r :
                     IF r.position = Len(s) THEN r ELSE ReadField(s, 0, r, Tag.Sequence))
    IN  read[CHOOSE n \in 0..Len(s) : read[n].ok => read[n].position = Len(s)]

\* decode_varbind_list, decode_varbind_value and decode_varbind_value_to_value
DecodeVarbind(s) ==
    Try(ReadFields(s, 0, <<Tag.Oid>>), LAMBDA name :
    Try(ReadOneOf(Rest(s, name), ValueTags), LAMBDA value :
        IF Rest(Rest(s, name), value) # <<>> THEN Error
        ELSE Ok([oid |-> Value(name, 1), tag |-> Head(Rest(s, name)), data |-> Value(value, 1)])))

AllOk(varbinds) ==
    IF \E i \in DOMAIN varbinds : ~varbinds[i].ok THEN Error
    ELSE Ok([i \in DOMAIN varbinds |-> varbinds[i].value])

DecodeVarbindList(s) ==
    Try(Elements(s), LAMBDA r : AllOk([i \in DOMAIN r.fields |-> DecodeVarbind(Value(r, i))]))

\* A negative repetition count is read as 0; other requests have none.
NonNegative(n) == IF n < 0 THEN 0 ELSE n
Repetitions(tag, n) == IF tag = Tag.GetBulkRequest THEN NonNegative(n) ELSE 0

\* decode_pdu and decoded_pdu_to_inbound: nothing may follow the PDU, nor its
\* varbind list; error status and index are dropped.
DecodePdu(s) ==
    Try(ReadOneOf(s, InboundTags), LAMBDA outer :
    Try(ReadFields(Value(outer, 1), 0, <<Tag.Integer, Tag.Integer, Tag.Integer, Tag.Sequence>>), LAMBDA r :
    Try(DecodeVarbindList(Value(r, 4)), LAMBDA varbinds :
        IF Rest(s, outer) # <<>> \/ Rest(Value(outer, 1), r) # <<>> THEN Error
        ELSE Ok([tag |-> s[1], id |-> Value(r, 1), second |-> Repetitions(s[1], Value(r, 2)),
                 third |-> Repetitions(s[1], Value(r, 3)), varbinds |-> varbinds.value]))))

\* The content of a ScopedPDU: in decode_scoped_pdu_data and decode_scoped_pdu.
DecodeScoped(s) ==
    Try(ReadFields(s, 0, <<Tag.OctetString, Tag.OctetString>>), LAMBDA r :
    Try(DecodePdu(Rest(s, r)), LAMBDA pdu :
        Ok([contextEngine |-> Value(r, 1), contextName |-> Value(r, 2), pdu |-> pdu.value])))

\* A negative boots or time is read as u32::MAX.
Unsigned(n) == IF n < 0 THEN Word - 1 ELSE n

\* PrivacySalt::try_from
ValidSalt(octets) == Len(octets) = SaltOctets

\* decrypt_scoped_pdu, up to the decoded PDU
DecryptScoped(usm, ciphertext) ==
    IF ~ValidSalt(usm.salt) THEN Error
    ELSE Try(ReadFields(Decrypt(Iv(Unsigned(usm.boots), Unsigned(usm.time), usm.salt), ciphertext), 0,
                        <<Tag.Sequence>>), LAMBDA r :
             DecodeScoped(Value(r, 1)))

\* decode_v3_message and, for an encrypted message, its decryption.
DecodeRequest(s) ==
    Try(DecodeV3Envelope(s), LAMBDA r :
    Try(IF r.value.encrypted THEN DecryptScoped(r.value.usm, r.value.scoped)
        ELSE DecodeScoped(r.value.scoped), LAMBDA scoped :
        Ok([header |-> r.value.header, scoped |-> scoped.value,
            usm |-> [r.value.usm EXCEPT !.boots = Unsigned(@), !.time = Unsigned(@)]])))

\* Faulty variant: the place of the MAC is searched for, as a run of zeros.
FindAuthParamsOffset_Search(s) ==
    LET runs == {i \in 0..(Len(s) - MacOctets) : SubSeq(s, i + 1, i + MacOctets) = Zeros(MacOctets)}
    IN  CHOOSE i \in runs : \A j \in runs : i <= j

\* find_auth_params_offset parses what was just written.
FindAuthParamsOffset(s) ==
    Try(ReadFields(s, 0, <<Tag.Sequence>>), LAMBDA message :
    Try(ReadFields(Value(message, 1), At(message, 1), <<Tag.Integer, Tag.Sequence, Tag.OctetString>>), LAMBDA top :
    Try(ReadFields(Value(top, 3), At(top, 3), <<Tag.Sequence>>), LAMBDA usm :
    Try(ReadFields(Value(usm, 1), At(usm, 1),
                   <<Tag.OctetString, Tag.Integer, Tag.Integer, Tag.OctetString, Tag.OctetString>>), LAMBDA r :
        Ok(At(r, 5)))))).value

\* Faulty variant: a message without a MAC passes.
VerifyHmac_Absent(s, usm) ==
    \/ usm.offset = NoOffset
    \/ Overwrite(s, usm.offset, Zeros(Len(usm.auth))) = sent.signed /\ usm.auth = sent.mac

\* verify_hmac over zero_auth_params_in_message; the MAC of anything but what
\* the sender signed is another one.
VerifyHmac(s, usm) ==
    /\ usm.offset # NoOffset
    /\ Overwrite(s, usm.offset, Zeros(Len(usm.auth))) = sent.signed
    /\ usm.auth = sent.mac

-----------------------------------------------------------------------------
MessageInit ==
    /\ wire = <<>>
    /\ sent = [by |-> "nobody"]
    /\ altered = FALSE

\* What encode_v3_envelope fills in.
Envelope(f) ==
    [f EXCEPT !.version = 3, !.maxSize = MSG_MAX_SIZE, !.model = 3, !.contextEngine = f.engine,
              !.flags = <<(IF f.authenticated THEN 1 ELSE 0) + (IF f.encrypted THEN 2 ELSE 0)>>]

\* The MAC of the message with zeros in its place is written over them.
Sign(blank, mac) == Overwrite(blank, FindAuthParamsOffset(blank), mac)

Transmit(blank, f, mac, kind, asked) ==
    /\ wire = <<>>
    /\ wire' = IF f.authenticated THEN Sign(blank, mac) ELSE blank
    /\ sent' = [by |-> "agent", fields |-> Envelope(f), signed |-> blank, mac |-> mac,
                kind |-> kind, asked |-> asked]
    /\ UNCHANGED altered

\* encode_v3_envelope: boots and times beyond i32::MAX are refused, and so is
\* privacy without authentication.
AgentSends(f, mac, kind, asked) ==
    /\ f.boots < Word \div 2 /\ f.time < Word \div 2
    /\ f.encrypted => f.authenticated
    /\ Transmit(Canonical(Envelope(f), IF f.authenticated THEN Zeros(MacOctets) ELSE <<>>), f, mac, kind, asked)

\* encode_v3_response: an error index beyond i32::MAX is refused.
Responded(f) == [f EXCEPT !.pdu.tag = Tag.Response]
AgentResponds(f, mac) ==
    /\ f.pdu.third < Word \div 2
    /\ AgentSends(Responded(f), mac, "Response", f)

\* elapsed_hundredths saturates at u32::MAX.
ElapsedHundredths(uptime) == IF uptime \div 10 >= Word THEN Word - 1 ELSE uptime \div 10

\* The varbinds of a trap: what the application passes follows the two RFC 3416
\* asks for.
BuildWireTrap(pdu, trapOid, uptime) ==
    <<[oid |-> SYS_UP_TIME_OID, tag |-> Tag.TimeTicks, data |-> ElapsedHundredths(uptime)],
      [oid |-> SNMP_TRAP_OID_OID, tag |-> Tag.Oid, data |-> trapOid]>> \o pdu.varbinds

\* The PDU of encode_trap and encode_v3_trap.
TrapPdu(pdu, trapOid, uptime) ==
    [tag |-> Tag.Trap, id |-> pdu.id, second |-> 0, third |-> 0,
     varbinds |-> BuildWireTrap(pdu, trapOid, uptime)]

Trapped(f, trapOid, uptime) == [f EXCEPT !.pdu = TrapPdu(f.pdu, trapOid, uptime)]
\* What the application passes, and when.
Told(f, trapOid, uptime) ==
    LET trap == [trapOid |-> trapOid, uptime |-> uptime]
    IN  [k \in DOMAIN f \cup DOMAIN trap |-> IF k \in DOMAIN f THEN f[k] ELSE trap[k]]

AgentTraps(f, mac, trapOid, uptime) ==
    AgentSends(Trapped(f, trapOid, uptime), mac, "Trap", Told(f, trapOid, uptime))

\* Faulty variant: the request ID of the PDU is not known, and 0.
ReportPdu_NoId(id, counter) ==
    [tag |-> Tag.Report, id |-> 0, second |-> 0, third |-> 0, varbinds |-> <<counter>>]

\* The request ID of a Report is the message ID of what it answers.
ReportPdu(id, counter) ==
    [tag |-> Tag.Report, id |-> id, second |-> 0, third |-> 0, varbinds |-> <<counter>>]

\* encode_v3_report: always noAuthNoPriv, for no user and in the default context.
Reported(f, counter) ==
    [f EXCEPT !.pdu = ReportPdu(f.id, counter), !.user = <<>>, !.contextName = <<>>,
              !.salt = <<>>, !.authenticated = FALSE, !.encrypted = FALSE]
AgentReports(f, counter) ==
    AgentSends(Reported(f, counter), <<>>, "Report", [f EXCEPT !.pdu.varbinds = <<counter>>])

\* encode_v2c_message, with an empty community
EncodeV2cMessage(pdu) ==
    WriteTlv(Tag.Sequence, WriteInteger(1) \o WriteOctets(<<>>) \o EncodePdu(pdu, {}))

\* encode_trap
AgentTrapsV2c(f, trapOid, uptime) ==
    /\ wire = <<>>
    /\ wire' = EncodeV2cMessage(TrapPdu(f.pdu, trapOid, uptime))
    /\ sent' = [by |-> "agent", fields |-> [authenticated |-> FALSE], kind |-> "v2cTrap",
                asked |-> Told(f, trapOid, uptime)]
    /\ UNCHANGED altered

PeerSends(f, mac, padded) ==
    LET auth(s) == IF f.authenticated THEN s ELSE <<>>
    IN  /\ wire = <<>>
        /\ wire' = EncodeV3Message(f, auth(mac), padded)
        /\ sent' = [by |-> "peer", fields |-> f, mac |-> mac,
                    signed |-> EncodeV3Message(f, auth(Zeros(MacOctets)), padded)]
        /\ UNCHANGED altered

Alter(i, octet) ==
    /\ ~altered
    /\ i \in DOMAIN wire /\ wire[i] # octet
    /\ wire' = [wire EXCEPT ![i] = octet]
    /\ altered' = TRUE
    /\ UNCHANGED sent

MessageNext ==
    \/ \E f \in Answers, mac \in Macs : AgentResponds(f, mac)
    \/ \E f \in Answers, mac \in Macs, trapOid \in TrapOids, uptime \in Uptimes :
           AgentTraps(f, mac, trapOid, uptime) \/ AgentTrapsV2c(f, trapOid, uptime)
    \/ \E f \in Answers, counter \in ReportCounters : AgentReports(f, counter)
    \/ \E f \in Requests, mac \in Macs, padded \in Paddings : PeerSends(f, mac, padded)
    \/ \E i \in DOMAIN wire, octet \in Alterations : Alter(i, octet)

-----------------------------------------------------------------------------
(* What the constants stand for *)

I32s == -(Word \div 2)..(Word \div 2 - 1)

ValidData(tag, data) ==
    CASE tag = Tag.Integer                  -> data \in I32s
      [] tag = Tag.Oid                      -> ValidOid(data)
      [] tag \in Unsigned32s                -> data \in 0..(Word - 1)
      [] tag = Tag.Counter64                -> data \in 0..(Double - 1)
      [] tag \in Exceptions \cup {Tag.Null} -> data = <<>>
      [] tag = Tag.IpAddress                -> data \in Seq(Octets) /\ Len(data) = 4
      [] OTHER                              -> data \in Seq(Octets)

ValidPdu(pdu) ==
    /\ pdu = [tag |-> pdu.tag, id |-> pdu.id, second |-> pdu.second, third |-> pdu.third,
              varbinds |-> pdu.varbinds]
    /\ pdu.tag \in Octets /\ pdu.id \in I32s /\ pdu.second \in I32s /\ pdu.third \in Int
    /\ Len(pdu.varbinds) \in Nat /\ pdu.varbinds = [i \in 1..Len(pdu.varbinds) |-> pdu.varbinds[i]]
    /\ \A i \in DOMAIN pdu.varbinds :
          LET vb == pdu.varbinds[i]
          IN  /\ vb = [oid |-> vb.oid, tag |-> vb.tag, data |-> vb.data]
              /\ vb.tag \in Octets /\ ValidOid(vb.oid) /\ ValidData(vb.tag, vb.data)

ValidFields(f) ==
    /\ DOMAIN f = {"version", "id", "maxSize", "flags", "model", "engine", "boots", "time", "user", "salt",
                   "contextEngine", "contextName", "pdu", "authenticated", "encrypted"}
    /\ f.version \in I32s /\ f.id \in I32s /\ f.maxSize \in I32s /\ f.model \in I32s
    /\ f.boots \in Int /\ f.time \in Int
    /\ \A k \in {"flags", "engine", "user", "salt", "contextEngine", "contextName"} : f[k] \in Seq(Octets)
    /\ f.authenticated \in BOOLEAN /\ f.encrypted \in BOOLEAN
    /\ ValidPdu(f.pdu)

\* Values of the types SNMP has (VarbindValue).
ValuesOnly(pdu) == \A i \in DOMAIN pdu.varbinds : pdu.varbinds[i].tag \in ValueTags

\* The messages the agent sends, but for a v2c trap.
Sendable ==
    {Responded(f) : f \in Answers}
        \cup {Trapped(f, trapOid, uptime) : f \in Answers, trapOid \in TrapOids, uptime \in Uptimes}
        \cup {Reported(f, counter) : f \in Answers, counter \in ReportCounters}

\* A length takes at most one octet less than a usize has, and a longer form of
\* it no more than that.
Short(s) == Len(s) < Power(Base, DoubleOctets - 1)

TagNames ==
    {"Integer", "OctetString", "Null", "Oid", "Sequence", "IpAddress", "Counter32", "Gauge32", "TimeTicks",
     "Opaque", "Counter64", "NoSuchObject", "NoSuchInstance", "EndOfMibView", "GetRequest",
     "GetNextRequest", "Response", "SetRequest", "GetBulkRequest", "InformRequest", "Trap", "Report"}

ASSUME MessagesAssumption ==
    /\ Tag \in [TagNames -> Octets] /\ \A a, b \in TagNames : Tag[a] = Tag[b] => a = b
    /\ MacOctets \in Nat \ {0} /\ \A mac \in Macs : mac \in Seq(Octets) /\ Len(mac) = MacOctets
    /\ Alterations \subseteq Octets
    /\ MSG_MAX_SIZE \in I32s /\ MSG_MAX_SIZE >= MinMaxSize /\ MinMaxSize \in Nat /\ Word \div 2 > 3
    /\ MaxUserName \in Nat
    /\ \A f \in Requests :
          /\ ValidFields(f) /\ f.boots \in I32s /\ f.time \in I32s /\ f.pdu.third \in I32s
          /\ f.encrypted => f.boots >= 0 /\ f.time >= 0
          /\ \A padded \in Paddings, auth \in {<<>>, Zeros(MacOctets)} : Short(EncodeV3Message(f, auth, padded))
    /\ \A f \in Sendable :
          /\ ValidFields(f) /\ f.id >= 0 /\ f.boots >= 0 /\ f.time >= 0 /\ f.pdu.third >= 0
          /\ Len(f.user) <= MaxUserName /\ ValuesOnly(f.pdu)
          /\ \A auth \in {<<>>, Zeros(MacOctets)} : Short(Canonical(Envelope(f), auth))
    /\ Uptimes \subseteq Nat
    /\ \A f \in Answers, trapOid \in TrapOids, uptime \in Uptimes :
          Short(EncodeV2cMessage(TrapPdu(f.pdu, trapOid, uptime)))

MessageSpec == MessageInit /\ [][MessageNext]_messageVars

-----------------------------------------------------------------------------
(* Properties *)

Authenticated == wire # <<>> /\ sent.fields.authenticated

\* The offset the decoder reports names the octets of the MAC, in whatever
\* octets arrive and at every depth of nesting: blanking them blanks nothing
\* else (auth_params_offset, decode_usm_security_parameters).
OffsetNamesTheMac ==
    LET envelope == DecodeV3Envelope(wire)
        usm == envelope.value.usm
    IN  envelope.ok =>
            IF usm.auth = <<>> THEN usm.offset = NoOffset
            ELSE usm.offset + Len(usm.auth) <= Len(wire)
                 /\ SubSeq(wire, usm.offset + 1, usm.offset + Len(usm.auth)) = usm.auth

\* A genuine message verifies: the agent's own, signed in place, and those of
\* peers, in any form of lengths and whatever zeros or copies of the MAC stand
\* elsewhere in them (encode_v3_envelope, verify_hmac).
GenuineVerifies ==
    Authenticated /\ ~altered /\ (sent.by = "peer" => DecodeV3Envelope(wire).ok) =>
        LET envelope == DecodeV3Envelope(wire)
        IN  /\ envelope.ok /\ VerifyHmac(wire, envelope.value.usm)
            /\ sent.by = "agent" => wire = Canonical(sent.fields, sent.mac)

\* A message with a changed octet is refused, also when the octet is a tag or
\* a length and moves where the decoder looks for the MAC.
AlterationDetected ==
    Authenticated /\ altered =>
        LET envelope == DecodeV3Envelope(wire)
        IN  ~(envelope.ok /\ VerifyHmac(wire, envelope.value.usm))

\* What RFC 3412, 3414 and 3416 let a request be.
WellFormed(f) ==
    /\ f.version = 3 /\ f.id >= 0 /\ f.maxSize >= MinMaxSize /\ Len(f.flags) = 1
    /\ Len(f.user) <= MaxUserName
    /\ f.encrypted => Len(f.salt) = SaltOctets
    /\ f.pdu.tag \in InboundTags
    /\ ValuesOnly(f.pdu)

\* The request handlers see what the peer meant: every field, in any form of
\* lengths, encrypted or not; and a request that is not well formed is refused
\* (decode_v3_message, decrypt_scoped_pdu).
RequestsAsMeant ==
    wire # <<>> /\ ~altered /\ sent.by = "peer" =>
        LET f == sent.fields
            d == DecodeRequest(wire)
            bulk(n) == IF f.pdu.tag = Tag.GetBulkRequest THEN NonNegative(n) ELSE 0
        IN  IF ~WellFormed(f) THEN ~d.ok
            ELSE /\ d.ok
                 /\ d.value.header = [id |-> f.id, maxSize |-> f.maxSize, flags |-> f.flags, model |-> f.model]
                 /\ \A k \in {"engine", "user", "salt"} : d.value.usm[k] = f[k]
                 /\ \A k \in {"boots", "time"} : d.value.usm[k] = Unsigned(f[k])
                 /\ d.value.scoped =
                        [contextEngine |-> f.contextEngine, contextName |-> f.contextName,
                         pdu |-> [f.pdu EXCEPT !.second = bulk(@), !.third = bulk(@)]]

\* How a manager reads the PDU of a message for it.
ManagerReadsPdu(s) ==
    Try(ReadFields(s, 0, <<s[1]>>), LAMBDA outer :
    Try(ReadFields(Value(outer, 1), 0, <<Tag.Integer, Tag.Integer, Tag.Integer, Tag.Sequence>>), LAMBDA r :
    Try(DecodeVarbindList(Value(r, 4)), LAMBDA varbinds :
        Ok([tag |-> s[1], id |-> Value(r, 1), second |-> Value(r, 2), third |-> Value(r, 3),
            varbinds |-> varbinds.value]))))

\* A v2c message: version, community, PDU.
ManagerReadsV2c(s) ==
    Try(ReadFields(s, 0, <<Tag.Sequence>>), LAMBDA message :
    Try(ReadFields(Value(message, 1), 0, <<Tag.Integer, Tag.OctetString>>), LAMBDA r :
    Try(ManagerReadsPdu(Rest(Value(message, 1), r)), LAMBDA pdu :
        Ok([version |-> Value(r, 1), community |-> Value(r, 2), pdu |-> pdu.value]))))

\* The scoped PDU of an envelope, decrypted with the IV its own fields give.
ManagerReadsScoped(envelope) ==
    LET usm == envelope.usm
        Content(s) ==
            Try(ReadFields(s, 0, <<Tag.OctetString, Tag.OctetString>>), LAMBDA r :
            Try(ManagerReadsPdu(Rest(s, r)), LAMBDA pdu :
                Ok([engine |-> Value(r, 1), name |-> Value(r, 2), pdu |-> pdu.value])))
    IN  IF envelope.encrypted
        THEN Try(ReadFields(Decrypt(<<usm.boots, usm.time>> \o usm.salt, envelope.scoped), 0, <<Tag.Sequence>>),
                 LAMBDA r : Content(Value(r, 1)))
        ELSE Content(envelope.scoped)

\* What RFC 3416 makes of a trap (4.2.6), of a Report and of a Response.
ExpectedPdu(kind, asked) ==
    LET uptime == IF asked.uptime \div 10 < Word THEN asked.uptime \div 10 ELSE Word - 1
        Plain(tag, id, varbinds) == [tag |-> tag, id |-> id, second |-> 0, third |-> 0, varbinds |-> varbinds]
    IN  CASE kind = "Response" -> [asked.pdu EXCEPT !.tag = Tag.Response]
          [] kind = "Report"   -> Plain(Tag.Report, asked.id, asked.pdu.varbinds)
          [] OTHER             ->
                 Plain(Tag.Trap, asked.pdu.id,
                       <<[oid |-> SYS_UP_TIME_OID, tag |-> Tag.TimeTicks, data |-> uptime],
                         [oid |-> SNMP_TRAP_OID_OID, tag |-> Tag.Oid, data |-> asked.trapOid]>> \o asked.pdu.varbinds)

\* The envelope of a message other than a Report carries the user, the context
\* and the level asked for.
EnvelopeAsMeant(envelope, asked, report, auth, priv) ==
    /\ envelope.header = [id |-> asked.id, maxSize |-> MSG_MAX_SIZE, model |-> 3,
                          flags |-> <<(IF auth THEN 1 ELSE 0) + (IF priv THEN 2 ELSE 0)>>]
    /\ \A k \in {"engine", "boots", "time"} : envelope.usm[k] = asked[k]
    /\ envelope.usm.user = IF report THEN <<>> ELSE asked.user
    /\ (envelope.usm.auth # <<>>) = auth
    /\ envelope.encrypted = priv
    /\ ManagerReadsScoped(envelope) =
           Ok([engine |-> asked.engine, pdu |-> ExpectedPdu(sent.kind, asked),
               name |-> IF report THEN <<>> ELSE asked.contextName])

\* A manager can use what the agent sends it: it reads the PDU and the stamp
\* the agent was asked to send, at the level and for the user of the request,
\* decrypts it with nothing but the message's own fields, finds the uptime and
\* the name of a trap where it looks for them, and can match a Report to its
\* request although a Report names no user and is never signed
\* (encode_v3_response, encode_v3_trap, encode_v3_report, encode_trap,
\* build_wire_trap).
AnswersAsMeant ==
    wire # <<>> /\ ~altered /\ sent.by = "agent" =>
        LET asked == sent.asked
            report == sent.kind = "Report"
        IN  IF sent.kind = "v2cTrap"
            THEN ManagerReadsV2c(wire)
                     = Ok([version |-> 1, community |-> <<>>, pdu |-> ExpectedPdu("v2cTrap", asked)])
            ELSE Try(DecodeV3Envelope(wire), LAMBDA r :
                     [ok |-> EnvelopeAsMeant(r.value, asked, report, asked.authenticated /\ ~report,
                                             asked.encrypted /\ ~report)]).ok
=============================================================================
