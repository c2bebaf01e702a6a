------------------------------- MODULE MCCodec -------------------------------
(***************************************************************************)
(* The codec for TLC, on octets of five bits: words of 10 bits, double     *)
(* words of 20, lengths from 16 on in long form.  The primitives (BerCodec), *)
(* the octets of a connection (Framing), the messages (Messages) and OIDs  *)
(* as text (OidText) share no state, so a behaviour exercises one of them. *)
(***************************************************************************)
EXTENDS BerCodec, Framing, Messages, OidText

Init == CodecInit /\ FramingInit /\ MessageInit /\ TextInit

Next ==
    \/ FramingInit /\ MessageInit /\ TextInit /\ CodecNext /\ UNCHANGED <<framingVars, messageVars, textVars>>
    \/ CodecInit /\ MessageInit /\ TextInit /\ FramingNext /\ UNCHANGED <<codecVars, messageVars, textVars>>
    \/ CodecInit /\ FramingInit /\ TextInit /\ MessageNext /\ UNCHANGED <<codecVars, framingVars, textVars>>
    \/ CodecInit /\ FramingInit /\ MessageInit /\ TextNext /\ UNCHANGED <<codecVars, framingVars, messageVars>>

Spec == Init /\ [][Next]_<<codecVars, framingVars, messageVars, textVars>>

-----------------------------------------------------------------------------
(* What the encoder writes *)

Around(n) == {m \in (n - 2)..(n + 2) : m \in 0..(Double - 1)}
MCLengths == 0..20 \cup UNION {Around(Power(Base, k)) \cup Around(Half * Power(Base, k)) : k \in 0..4}
MCArcs == {0, 1, 7, 8, 63, 64, 255}
MCOids ==
    {o \in UNION {[1..n -> MCArcs \cup {2, 39, 40}] : n \in 2..3} :
        o[1] <= 2 /\ (o[1] <= 1 => o[2] <= 39)} \cup {<<1, 3, 6, 1>>}

-----------------------------------------------------------------------------
(* OIDs as text *)

MCCharacters == {0, 2, 4, Dot, Plus, Letter}
MCComponents ==
    UNION {[1..n -> {0, 1, 2, 3, 39, 40, 1023}] : n \in 0..3}
        \cup {[i \in 1..n |-> 1] : n \in 4..6}

-----------------------------------------------------------------------------
(* Messages *)

MCTag ==
    [Integer |-> 2, OctetString |-> 4, Null |-> 5, Oid |-> 6, Sequence |-> 16, IpAddress |-> 8,
     Counter32 |-> 9, Gauge32 |-> 10, TimeTicks |-> 11, Opaque |-> 12, Counter64 |-> 14,
     NoSuchObject |-> 20, NoSuchInstance |-> 21, EndOfMibView |-> 22,
     GetRequest |-> 23, GetNextRequest |-> 24, Response |-> 25, SetRequest |-> 26,
     GetBulkRequest |-> 27, InformRequest |-> 28, Trap |-> 29, Report |-> 30]

Pdu(tag, second, varbinds) == [tag |-> tag, id |-> -7, second |-> second, third |-> 3, varbinds |-> varbinds]
Vb(tag, data) == [oid |-> <<1, 3, 100>>, tag |-> tag, data |-> data]

Get == Pdu(MCTag.GetRequest, 0, <<Vb(MCTag.Null, <<>>), Vb(MCTag.Null, <<>>)>>)
BulkRequest == Pdu(MCTag.GetBulkRequest, -1, <<Vb(MCTag.Null, <<>>)>>)
\* Every kind of value, unsigned ones with their high bits set.
Set == Pdu(MCTag.SetRequest, 0,
           <<Vb(MCTag.Integer, -512), Vb(MCTag.OctetString, Zeros(17)), Vb(MCTag.Oid, <<2, 100>>),
             Vb(MCTag.IpAddress, <<1, 2, 3, 4>>), Vb(MCTag.Counter32, 1023), Vb(MCTag.Gauge32, 512),
             Vb(MCTag.TimeTicks, 0), Vb(MCTag.Opaque, <<>>), Vb(MCTag.Counter64, 1048575),
             Vb(MCTag.EndOfMibView, <<>>)>>)
Unsupported == Pdu(MCTag.SetRequest, 0, <<Vb(MCTag.Sequence, <<>>)>>)
Answer == Pdu(MCTag.Response, 0, <<Vb(MCTag.OctetString, Zeros(4)), Vb(MCTag.NoSuchObject, <<>>)>>)

\* The engine ID holds zeros and something that looks like an empty OCTET
\* STRING, as a MAC may.
Genuine ==
    [version |-> 3, id |-> 5, maxSize |-> 100, flags |-> <<3>>, model |-> 3, engine |-> <<0, 0, 4, 0>>,
     boots |-> 1, time |-> 300, user |-> <<7>>, salt |-> <<>>, contextEngine |-> <<0, 0, 4, 0>>,
     contextName |-> <<>>, pdu |-> Get, authenticated |-> TRUE, encrypted |-> FALSE]
Encrypted(f) == [f EXCEPT !.encrypted = TRUE, !.salt = <<0, 9>>]

MCRequests ==
    {Genuine, Encrypted(Genuine), [Genuine EXCEPT !.authenticated = FALSE, !.pdu = BulkRequest],
     [Genuine EXCEPT !.pdu = Set], [Genuine EXCEPT !.pdu = Unsupported], [Genuine EXCEPT !.pdu = Answer],
     Encrypted([Genuine EXCEPT !.pdu = Set]), [Genuine EXCEPT !.encrypted = TRUE],
     [Genuine EXCEPT !.id = -1], [Genuine EXCEPT !.maxSize = 99], [Genuine EXCEPT !.flags = <<>>],
     [Genuine EXCEPT !.user = <<1, 2, 3>>], [Genuine EXCEPT !.version = 1],
     [Genuine EXCEPT !.time = -1, !.user = <<>>, !.engine = <<>>]}
MCAnswers ==
    {[f EXCEPT !.pdu = Answer] :
        f \in {Genuine, Encrypted(Genuine), [Genuine EXCEPT !.authenticated = FALSE, !.contextName = <<6>>],
               [Genuine EXCEPT !.boots = 511, !.time = 511], [Genuine EXCEPT !.time = 512]}}
MCUptimes == {0, 10 * Word - 1, 10 * Word}
MCTrapOids == {<<1, 3, 40>>}
MCSysUpTime == <<1, 3, 0>>
MCSnmpTrapOid == <<1, 3, 1>>
MCReportCounters == {Vb(MCTag.Counter32, n) : n \in {0, 1023}}

Names == {"message", "header", "security", "usm", "engine", "user", "auth", "scoped", "pdu", "list", "varbind"}
MCPaddings == {{}, Names} \cup {{name} : name \in Names}
MCMacs == {<<4, 0>>, <<0, 31>>}
=============================================================================
