---------------------------- MODULE MCRequests ----------------------------
EXTENDS Requests

\* An OID, one it is a prefix of, one whose last arc takes five bytes, and one
\* of another subtree.
A == <<1, 3>>
B == <<1, 3, 2147483647>>
C == <<1, 3, 2147483647, 1>>
D == <<2, 5>>

WalkOids == {A, B, C, D}
SmallValue == [kind |-> "Counter32", len |-> 0, content |-> 5]
LongValue == [kind |-> "OctetString", len |-> 300, content |-> 300]
BothValues == {SmallValue, LongValue}

Columns == {<<<<1, 2>>>>, <<<<1, 2>>, B>>, <<<<1, 2>>, A, B>>}
\* Fields as they may come off the wire.
RepetitionFields == {-1, 0, 1, 2, 7}
RepeaterFields == {-1, 0, 1, 2, 9}
=============================================================================
