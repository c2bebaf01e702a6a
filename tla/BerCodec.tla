------------------------------ MODULE BerCodec ------------------------------
(***************************************************************************)
(* Contents on their way through the codec: written by the agent's encoder, *)
(* or octet by octet by a peer that need not use the shortest encodings.   *)
(***************************************************************************)
EXTENDS Ber

CONSTANTS
    PeerOctets,   \* octets a peer sends
    MaxContent,   \* bound: octets of a peer's content
    Lengths,      \* lengths the encoder writes
    Unsigned64s,  \* Counter64 values it writes
    Oids          \* OIDs it writes, as sequences of arcs

ASSUME BerCodecAssumption ==
    /\ PeerOctets \subseteq Octets
    /\ Lengths \subseteq 0..(Double - 1) /\ Unsigned64s \subseteq 0..(Double - 1)
    /\ Word + 80 <= Double
    /\ \A o \in Oids : ValidOid(o)

VARIABLES
    octets,   \* the content
    written   \* what the encoder wrote: [kind, value]; kind is "peer" for a peer

codecVars == <<octets, written>>

CodecInit == octets = <<>> /\ written = [kind |-> "peer"]

PeerContent(octet) ==
    /\ written.kind = "peer"
    /\ Len(octets) < MaxContent
    /\ octets' = Append(octets, octet)
    /\ UNCHANGED written

Encodes(kind, value, content) ==
    /\ octets = <<>> /\ written.kind = "peer"
    /\ octets' = content
    /\ written' = [kind |-> kind, value |-> value]

CodecNext ==
    \/ \E octet \in PeerOctets : PeerContent(octet)
    \/ \E v \in -(Word \div 2)..(Word \div 2 - 1) : Encodes("i32", v, EncodeSigned(v))
    \/ \E v \in 0..(Word - 1) : Encodes("u32", v, EncodeUnsigned(v, WordOctets))
    \/ \E v \in Unsigned64s : Encodes("u64", v, EncodeUnsigned(v, DoubleOctets))
    \/ \E n \in Lengths : Encodes("length", n, EncodeLength(n))
    \/ \E o \in Oids : Encodes("oid", o, EncodeOid(o))

CodecSpec == CodecInit /\ [][CodecNext]_codecVars

-----------------------------------------------------------------------------
(* Properties *)

\* The first octet of an integer is no mere repetition of its sign.
Shortest(s) == Len(s) > 1 => ~(s[1] \in {0, Base - 1} /\ HighBit(s[1]) = HighBit(s[2]))

\* What the agent writes, it reads back: every integer, length and OID, also at
\* the sign bits and at the steps between numbers of octets; and integers take
\* the shortest form, which BerWriter promises ("DER-canonical").
RoundTrip ==
    /\ CASE written.kind = "i32"    -> DecodeSigned(octets) = Ok(written.value)
         [] written.kind = "u32"    -> DecodeUnsigned(octets, WordOctets) = Ok(written.value)
         [] written.kind = "u64"    -> DecodeUnsigned(octets, DoubleOctets) = Ok(written.value)
         [] written.kind = "length" -> ReadLength(octets) = Taking(written.value, Len(octets))
         [] written.kind = "oid"    -> DecodeOid(octets) = Ok(written.value)
         [] OTHER                   -> TRUE
    /\ written.kind \in {"i32", "u32", "u64"} => Shortest(octets)

\* The number a content means as two's complement.
TwosComplement(s) ==
    LET n == FromBeBytes(s) IN IF HighBit(s[1]) THEN n - Power(Base, Len(s)) ELSE n

\* A peer's integer is read as what it means, with any padding, and rejected
\* exactly when the type cannot hold it: decode_signed_i32, decode_unsigned.
IntegersExact ==
    octets # <<>> =>
        LET n == TwosComplement(octets)
        IN  /\ DecodeSigned(octets) =
                  IF n \in -(Word \div 2)..(Word \div 2 - 1) THEN Ok(n) ELSE Error
            /\ DecodeUnsigned(octets, WordOctets) = IF n \in 0..(Word - 1) THEN Ok(n) ELSE Error
            /\ DecodeUnsigned(octets, DoubleOctets) = IF n \in 0..(Double - 1) THEN Ok(n) ELSE Error

\* More than any sub-identifier in s: an accumulator that loses nothing.
RoomFor(s) == Power(Half, Len(s) + 1)

\* "11 groups of 7 bits = 77 bits > 64 bits -> overflow guaranteed"
\* (ber.rs:1866): an OID whose arcs do not fit is an error, never another OID.
OidsExact == DecodeOid(octets) = OidOf(octets, SubIdentifiers(octets, RoomFor(octets)))
=============================================================================
