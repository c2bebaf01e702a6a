----------------------------- MODULE WireSizes -----------------------------
(***************************************************************************)
(* How many bytes the BER encoder writes (src/codec/ber.rs, ber/varbind.rs, *)
(* ber/pdu.rs, ber/snmp.rs), and how many handle_get_bulk expects it to    *)
(* write (src/transport/request.rs).  Sizes are all GETBULK's budget needs *)
(* of the encoding; contents are left out.                                 *)
(***************************************************************************)
EXTENDS Integers

\* Faulty variant: the sum of the fields as the comment at request.rs:263 adds
\* them up, without its margin.
V3_ENVELOPE_OVERHEAD_Bare == 176

V3_ENVELOPE_OVERHEAD == 512

\* Bytes of n without leading zeros; every size here is below 2^32.
SignificantBytes(n) ==
    IF n < 256 THEN 1 ELSE IF n < 65536 THEN 2 ELSE IF n < 16777216 THEN 3 ELSE 4

\* encode_length
EncodedLength(n) == IF n <= 127 THEN 1 ELSE 1 + SignificantBytes(n)

\* write_tlv: tag, length, content.
Tlv(n) == 1 + EncodedLength(n) + n

\* encode_base128: seven bits per byte, at least one byte.  An arc has at
\* most 32 bits, and the combined first two arcs at most 33.
Base128(v) ==
    IF v < 128 THEN 1 ELSE IF v < 16384 THEN 2 ELSE IF v < 2097152 THEN 3
    ELSE IF v < 268435456 THEN 4 ELSE 5

\* encode_varbind, given the content sizes of the name and of the value.
EncodedVarbind(oidContent, valueContent) == Tlv(Tlv(oidContent) + Tlv(valueContent))

-----------------------------------------------------------------------------
(* The estimate *)

LengthOfLength(n) == IF n < 128 THEN 1 ELSE 1 + SignificantBytes(n)

ValueKinds == {"Integer32", "IpAddress", "Counter32", "Gauge32", "TimeTicks", "Counter64",
               "OctetString", "Opaque", "ObjectIdentifier", "EndOfMibView", "NoSuchObject"}

\* value_content_upper_bound.  `len' is the octets of a string, the arcs of an
\* object identifier, and otherwise not looked at.
ValueContentUpperBound(kind, len) ==
    CASE kind \in {"Integer32", "IpAddress"}              -> 4
      [] kind \in {"Counter32", "Gauge32", "TimeTicks"}   -> 5
      [] kind = "Counter64"                               -> 9
      [] kind \in {"OctetString", "Opaque"}               -> len
      [] kind = "ObjectIdentifier"                        -> len * 5
      [] OTHER                                            -> 0

EstimatedVarbind(arcs, kind, len) ==
    LET oidContent == arcs * 5
        oidTlv == 1 + LengthOfLength(oidContent) + oidContent
        valueContent == ValueContentUpperBound(kind, len)
        valueTlv == 1 + LengthOfLength(valueContent) + valueContent
    IN  1 + LengthOfLength(oidTlv + valueTlv) + oidTlv + valueTlv

-----------------------------------------------------------------------------
(* The message around the varbinds.  An INTEGER is at most four bytes long. *)

IntegerTlv == Tlv(4)

\* encode_varbind_list and encode_pdu
ResponsePdu(varbinds) == Tlv(3 * IntegerTlv + Tlv(varbinds))

\* encode_scoped_pdu, with the engine ID and the (empty) context name.
ScopedPdu(engineId, pdu) == Tlv(Tlv(engineId) + Tlv(0) + pdu)

\* encode_usm_params: engine ID, boots, time, user name, MAC, salt.
UsmParams(engineId, user, mac, salt) ==
    Tlv(Tlv(engineId) + 2 * IntegerTlv + Tlv(user) + Tlv(mac) + Tlv(salt))

\* encode_header_data: msgID, msgMaxSize, one byte of flags, security model.
HeaderData == Tlv(2 * IntegerTlv + Tlv(1) + Tlv(1))

\* encode_v3_response, encode_v3_envelope and encode_v3_message: the size of
\* the whole response, for the largest integers.  AES-CFB does not pad.
ResponseMessage(engineId, user, mac, encrypted, varbinds) ==
    LET scoped == ScopedPdu(engineId, ResponsePdu(varbinds))
    IN  Tlv(Tlv(1) + HeaderData
            + Tlv(UsmParams(engineId, user, mac, IF encrypted THEN 8 ELSE 0))
            + IF encrypted THEN Tlv(scoped) ELSE scoped)

\* What the configuration allows (engine_id.rs, user.rs, auth.rs).
EngineIdSizes == 5..32
UserNameSizes == 0..32
MacSizes == {0, 24, 48}
=============================================================================
