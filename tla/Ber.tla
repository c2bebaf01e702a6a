--------------------------------- MODULE Ber ---------------------------------
(***************************************************************************)
(* The BER primitives of src/codec/ber.rs on their octets: lengths,        *)
(* integers and object identifiers, as the agent writes them and as it     *)
(* reads them from a peer that may write them differently.  The widths are *)
(* parameters: the code has octets of 8 bits (Half = 128), words of four   *)
(* octets (i32, u32) and double words of eight (u64, usize).               *)
(***************************************************************************)
EXTENDS Integers, Sequences, FiniteSets, SequencesExt

CONSTANTS Half, WordOctets, DoubleOctets, MAX_OID_SUB_IDENTIFIERS

ASSUME BerAssumption ==
    /\ Half \in Nat /\ Half >= 4
    /\ WordOctets \in Nat \ {0} /\ DoubleOctets = 2 * WordOctets /\ DoubleOctets < Half - 1
    /\ MAX_OID_SUB_IDENTIFIERS \in Nat

\* b to the power of n, in a form that can be proved about
Power(b, n) ==
    LET power[k \in 0..n] == IF k = 0 THEN 1 ELSE b * power[k - 1]
    IN  power[n]

Base == 2 * Half
Octets == 0..(Base - 1)
Word == Power(Base, WordOctets)
Double == Power(Base, DoubleOctets)

Ok(v) == [ok |-> TRUE, value |-> v]
Error == [ok |-> FALSE]

HighBit(octet) == octet >= Half
From(s, first) == SubSeq(s, first, Len(s))
ToBeBytes(n, width) == [i \in 1..width |-> (n \div Power(Base, width - i)) % Base]
FromBeBytes(s) ==
    LET value[n \in 0..Len(s)] == IF n = 0 THEN 0 ELSE value[n - 1] * Base + s[n]
    IN  value[Len(s)]

\* take(len - 1).take_while(== octet).count()
LeadingCount(s, octet) == Cardinality({k \in 1..(Len(s) - 1) : \A j \in 1..k : s[j] = octet})

-----------------------------------------------------------------------------
(* Integers *)

\* Faulty variant: no octet is kept for the sign.
EncodeSigned_Bare(v) ==
    LET raw == ToBeBytes(v % Word, WordOctets)
    IN  From(raw, LeadingCount(raw, IF v >= 0 THEN 0 ELSE Base - 1) + 1)

\* encode_signed_i32
EncodeSigned(v) ==
    LET raw == ToBeBytes(v % Word, WordOctets)
        skip == LeadingCount(raw, IF v >= 0 THEN 0 ELSE Base - 1)
        first == raw[skip + 1]
        keepsSign == (v > 0 /\ HighBit(first)) \/ (v < 0 /\ ~HighBit(first))
    IN  From(raw, IF keepsSign /\ skip > 0 THEN skip ELSE skip + 1)

\* encode_unsigned_bytes
EncodeUnsigned(n, width) ==
    LET raw == ToBeBytes(n, width)
        significant == From(raw, LeadingCount(raw, 0) + 1)
    IN  IF HighBit(Head(significant)) THEN <<0>> \o significant ELSE significant

\* decode_signed_i32: redundant sign octets are dropped before the width is
\* checked.
DecodeSigned(s) ==
    LET negative == HighBit(s[1])
        redundant == IF negative THEN Base - 1 ELSE 0
        kept == {i \in 1..(Len(s) - 1) : s[i] # redundant \/ HighBit(s[i + 1]) # negative}
        significant == From(s, IF kept = {} THEN Len(s) ELSE CHOOSE i \in kept : \A j \in kept : i <= j)
        n == FromBeBytes(significant)
    IN  IF s = <<>> THEN Error
        ELSE IF Len(significant) > WordOctets THEN Error
        ELSE Ok(IF HighBit(significant[1]) THEN n - Power(Base, Len(significant)) ELSE n)

\* Faulty variant: the width is checked before leading zeros are dropped.
DecodeUnsigned_Strict(s, width) ==
    IF s = <<>> THEN Error
    ELSE IF HighBit(s[1]) \/ Len(s) > width THEN Error
    ELSE Ok(FromBeBytes(s))

\* decode_unsigned
DecodeUnsigned(s, width) ==
    LET significant == From(s, LeadingCount(s, 0) + 1)
    IN  IF s = <<>> THEN Error
        ELSE IF HighBit(s[1]) \/ Len(significant) > width THEN Error
        ELSE Ok(FromBeBytes(significant))

-----------------------------------------------------------------------------
(* Lengths.  A length read from the front of s comes with the octets it took. *)

Taking(n, used) == [ok |-> TRUE, value |-> n, used |-> used]

\* encode_length
EncodeLength(n) ==
    LET raw == ToBeBytes(n, DoubleOctets)
        significant == From(raw, LeadingCount(raw, 0) + 1)
    IN  IF n <= Half - 1 THEN <<n>> ELSE <<Half + Len(significant)>> \o significant

\* read_length and read_long_form_length
ReadLength(s) ==
    IF s = <<>> THEN Error
    ELSE LET extra == s[1] - Half
         IN  IF ~HighBit(s[1]) THEN Taking(s[1], 1)
             ELSE IF \/ s[1] = Base - 1
                     \/ extra = 0 \/ extra > DoubleOctets
                     \/ Len(s) < 1 + extra
                  THEN Error
             ELSE Taking(FromBeBytes(SubSeq(s, 2, 1 + extra)), 1 + extra)

\* read_tlv: the content behind the tag, which has to be there entirely.
ReadTlv(s) ==
    IF s = <<>> THEN Error
    ELSE LET length == ReadLength(Tail(s))
         IN  IF ~length.ok THEN Error
             ELSE IF 1 + length.used + length.value > Len(s) THEN Error
             ELSE Taking(SubSeq(s, length.used + 2, 1 + length.used + length.value),
                         1 + length.used + length.value)

-----------------------------------------------------------------------------
(* Object identifiers *)

\* validate_oid_components, on components of u32
ValidOid(o) ==
    /\ o \in Seq(0..(Word - 1)) /\ Len(o) >= 2 /\ Len(o) <= MAX_OID_SUB_IDENTIFIERS
    /\ o[1] <= 2 /\ (o[1] <= 1 => o[2] <= 39)

\* encode_base128: groups from the least significant one, at least one; all
\* but the last carry the high bit.
EncodeBase128(v) ==
    LET groups == 1 + Cardinality({k \in 1..(DoubleOctets + WordOctets) : Power(Half, k) <= v})
    IN  [i \in 1..groups |-> ((v \div Power(Half, groups - i)) % Half) + (IF i < groups THEN Half ELSE 0)]

\* encode_oid
EncodeOid(arcs) ==
    EncodeBase128(40 * arcs[1] + arcs[2])
        \o FlattenSeq([i \in 1..(Len(arcs) - 2) |-> EncodeBase128(arcs[i + 2])])

\* accumulator.checked_shl(7) fails only for a shift by 64 or more: bits that
\* are shifted out of the `room' values of the accumulator are lost.
Accumulate(n, octet, room) == ((n * Half) % room) + (octet % Half)

\* decode_base128, octet by octet: the sum so far, and what is complete.
ReadOctet(st, octet, room) ==
    IF HighBit(octet)
    THEN [st EXCEPT !.sum = Accumulate(@, octet, room)]
    ELSE [sum |-> 0, ids |-> Append(st.ids, Accumulate(st.sum, octet, room))]

ReadOctets(s, room) ==
    LET read[n \in 0..Len(s)] ==
            IF n = 0 THEN [sum |-> 0, ids |-> <<>>] ELSE ReadOctet(read[n - 1], s[n], room)
    IN  read[Len(s)]

SubIdentifiers(s, room) == ReadOctets(s, room).ids

\* decode_oid splits the first sub-identifier in two arcs, which always pass
\* validate_oid_components' rules for the first two.
Arcs(ids) ==
    LET combined == ids[1]
        first == IF combined < 40 THEN 0 ELSE IF combined < 80 THEN 1 ELSE 2
    IN  <<first, combined - 40 * first>> \o Tail(ids)

OidOf(s, ids) ==
    IF s = <<>> THEN Error
    ELSE IF HighBit(s[Len(s)]) THEN Error
    ELSE IF \/ \E i \in DOMAIN Arcs(ids) : Arcs(ids)[i] >= Word
            \/ Len(Arcs(ids)) > MAX_OID_SUB_IDENTIFIERS
         THEN Error
    ELSE Ok(Arcs(ids))

DecodeOid(s) == OidOf(s, SubIdentifiers(s, Double))
=============================================================================
