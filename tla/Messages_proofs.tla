--------------------------- MODULE Messages_proofs ---------------------------
(***************************************************************************)
(* For every width of octets, every message the types allow and every form *)
(* of lengths: the decoder's offset names the MAC, in whatever octets      *)
(* arrive; what the agent and its peers sign verifies; a message with one  *)
(* octet changed does not; and what is read of a message is what its       *)
(* sender meant, or it is refused where the sender may not mean it.        *)
(*                                                                         *)
(* What is written is read back TLV by TLV (Sound, Reached), so the place  *)
(* of the MAC is a sum of lengths (Offset) that encoder and decoders agree *)
(* on.  Two messages that differ in their MACs have the same octets around *)
(* them (Alike).  A MAC found elsewhere than where it was written makes    *)
(* two differences to the genuine message (TwoPlaces), one more than a     *)
(* changed octet.                                                          *)
(*                                                                         *)
(* Values, varbinds, lists of them, PDUs and scoped PDUs are read back in  *)
(* turn (ContentReads, VarbindReads, VarbindsRead, PduReads, ScopedReads), *)
(* a ciphertext is decrypted with the fields of the message around it      *)
(* (Decrypts), and so is the whole message (RequestReads, AnswerIsMeant).  *)
(***************************************************************************)
EXTENDS Messages, Codec_proofs

-----------------------------------------------------------------------------
(* Pieces of sequences *)

\* Concatenation, by its positions.
LEMMA Joined ==
    ASSUME NEW A, NEW a \in Seq(A), NEW b \in Seq(A)
    PROVE  /\ a \o b \in Seq(A) /\ Len(a \o b) = Len(a) + Len(b)
           /\ \A i \in 1..Len(a) : (a \o b)[i] = a[i]
           /\ \A i \in 1..Len(b) : (a \o b)[Len(a) + i] = b[i]
  OBVIOUS

\* Concatenation of octets is associative.
LEMMA Associative ==
    \A a, b, c \in Seq(Octets) : (a \o b) \o c = a \o (b \o c)
  BY ConcatAssociative

\* The same for three given ones, among many.
OctetPieces(a, b, c) == a \in Seq(Octets) /\ b \in Seq(Octets) /\ c \in Seq(Octets)
Regroup(a, b, c) == (a \o b) \o c = a \o (b \o c)

\* Regroup, of pieces.
LEMMA Regrouped ==
    \A a, b, c : OctetPieces(a, b, c) => Regroup(a, b, c)
  BY Associative DEF OctetPieces, Regroup

\* What stands between two sequences.
LEMMA Middle ==
    ASSUME NEW A, NEW a \in Seq(A), NEW b \in Seq(A), NEW c \in Seq(A)
    PROVE  SubSeq(a \o (b \o c), Len(a) + 1, Len(a) + Len(b)) = b
  <1> DEFINE s == a \o (b \o c)
             k == Len(a)
             n == Len(b)
             t == SubSeq(s, k + 1, k + n)
  <1>1. b \o c \in Seq(A) /\ Len(b \o c) = n + Len(c) /\ \A i \in 1..n : (b \o c)[i] = b[i]
    BY Joined
  <1>2. s \in Seq(A) /\ Len(s) = k + Len(b \o c) /\ \A i \in 1..Len(b \o c) : s[k + i] = (b \o c)[i]
    BY <1>1, Joined
  <1>3. k \in Nat /\ n \in Nat /\ Len(c) \in Nat
    OBVIOUS
  <1>4. \A i \in 1..n : s[k + i] = b[i] /\ i \in 1..Len(b \o c)
    BY <1>1, <1>2, <1>3
  <1> HIDE DEF s, k, n
  <1>5. t \in Seq(A) /\ Len(t) = n /\ \A i \in 1..n : t[i] = s[k + i]
    <2>1. \A i \in (k + 1)..(k + n) : i \in 1..Len(s)
      BY <1>1, <1>2, <1>3
    <2>2. \A i \in (k + 1)..(k + n) : s[i] \in A
      BY <1>2, <2>1
    <2>3. k + 1 \in Int /\ k + n \in Int /\ (k + n) - (k + 1) + 1 = n
          /\ (IF k + 1 <= k + n THEN (k + n) - (k + 1) + 1 ELSE 0) = n
      BY <1>3
    <2>4. t \in Seq(A) /\ Len(t) = n /\ \A i \in 1..n : t[i] = s[k + 1 + i - 1]
      BY <2>2, <2>3, SubSeqProperties
    <2>5. \A i \in 1..n : k + 1 + i - 1 = k + i
      BY <1>3
    <2> QED
      BY <2>4, <2>5
  <1>6. t = b
    <2>1. \A i \in 1..Len(t) : t[i] = b[i]
      BY <1>4, <1>5
    <2> HIDE DEF t
    <2> QED
      BY <1>5, <2>1, SeqEqual DEF n
  <1> QED
    BY <1>6 DEF t, s, k, n

\* What follows a sequence.
LEMMA Ending ==
    ASSUME NEW A, NEW a \in Seq(A), NEW b \in Seq(A)
    PROVE  From(a \o b, Len(a) + 1) = b
  <1>1. <<>> \in Seq(A) /\ b \o <<>> = b /\ Len(a \o b) = Len(a) + Len(b)
    OBVIOUS
  <1>2. SubSeq(a \o (b \o <<>>), Len(a) + 1, Len(a) + Len(b)) = b
    BY <1>1, Middle
  <1> QED
    BY <1>1, <1>2 DEF From

\* A sequence with an octet in front of it.
LEMMA OneThen ==
    ASSUME NEW A, NEW x \in A, NEW b \in Seq(A)
    PROVE  /\ <<x>> \o b \in Seq(A) /\ Len(<<x>> \o b) = 1 + Len(b) /\ <<x>> \o b # <<>>
           /\ (<<x>> \o b)[1] = x /\ Tail(<<x>> \o b) = b
  OBVIOUS

-----------------------------------------------------------------------------
(* Lengths *)

\* Octets that are read as a length, whatever follows them.
Lengthy(e, n) ==
    /\ e \in Seq(Octets) /\ Len(e) >= 1
    /\ \A q \in Seq(Octets) : ReadLength(e \o q) = Taking(n, Len(e))

\* A count of octets, and a number in that many.
LEMMA LongFormReads ==
    ASSUME NEW d \in Seq(Octets), Len(d) \in 1..DoubleOctets
    PROVE  Lengthy(<<Half + Len(d)>> \o d, FromBeBytes(d))
  <1> DEFINE x == Half + Len(d)
             e == <<x>> \o d
  <1>1. /\ DoubleOctets \in Nat \ {0} /\ DoubleOctets < Half - 1
        /\ Half \in Nat /\ Half >= 4 /\ Base = 2 * Half
    BY BerAssumption, Limits DEF BerAssumption
  <1>2. x \in Octets /\ HighBit(x) /\ x # Base - 1 /\ x - Half = Len(d) /\ Len(d) # 0 /\ ~(Len(d) > DoubleOctets)
        /\ Len(d) \in Nat
    BY <1>1 DEF Octets, HighBit
  <1> HIDE DEF x
  <1>3. e \in Seq(Octets) /\ Len(e) = 1 + Len(d) /\ e # <<>> /\ e[1] = x /\ <<x>> \in Seq(Octets) /\ Len(<<x>>) = 1
    BY <1>2, OneThen
  <1>4. ASSUME NEW q \in Seq(Octets) PROVE ReadLength(e \o q) = Taking(FromBeBytes(d), Len(e))
    <2> DEFINE s == e \o q
    <2>1. s = <<x>> \o (d \o q)
      BY <1>3, ConcatAssociative
    <2>2. d \o q \in Seq(Octets) /\ Len(d \o q) = Len(d) + Len(q)
      OBVIOUS
    <2>3. Len(s) = 1 + (Len(d) + Len(q)) /\ s # <<>> /\ s[1] = x
      BY <1>2, <2>1, <2>2, OneThen
    <2>4. SubSeq(s, 2, 1 + Len(d)) = d
      <3>1. SubSeq(<<x>> \o (d \o q), Len(<<x>>) + 1, Len(<<x>>) + Len(d)) = d
        BY <1>3, Middle
      <3> QED
        BY <1>3, <2>1, <3>1
    <2> HIDE DEF s
    <2>5. ~(Len(s) < 1 + Len(d))
      BY <1>2, <2>3
    <2>6. ReadLength(s) = Taking(FromBeBytes(SubSeq(s, 2, 1 + Len(d))), 1 + Len(d))
      BY <1>2, <2>3, <2>5 DEF ReadLength
    <2> QED
      BY <1>3, <2>4, <2>6 DEF s
  <1> QED
    BY <1>2, <1>3, <1>4 DEF Lengthy, x

\* A length below Half is an octet of its own.
LEMMA ShortFormReads ==
    ASSUME NEW n \in 0..(Half - 1)
    PROVE  Lengthy(<<n>>, n)
  <1>1. Half \in Nat /\ Half >= 4 /\ Base = 2 * Half
    BY Limits
  <1>2. n \in Octets /\ ~HighBit(n) /\ <<n>> \in Seq(Octets) /\ Len(<<n>>) = 1
    BY <1>1 DEF Octets, HighBit
  <1>3. ASSUME NEW q \in Seq(Octets) PROVE ReadLength(<<n>> \o q) = Taking(n, 1)
    <2> DEFINE s == <<n>> \o q
    <2>1. s # <<>> /\ s[1] = n
      BY <1>2, OneThen
    <2> HIDE DEF s
    <2>2. ReadLength(s) = Taking(n, 1)
      BY <1>2, <2>1 DEF ReadLength
    <2> QED
      BY <2>2 DEF s
  <1> QED
    BY <1>2, <1>3 DEF Lengthy

\* A zero in front of a number does not change it.
LEMMA LeadingZero ==
    ASSUME NEW t \in Seq(Octets)
    PROVE  FromBeBytes(<<0>> \o t) = FromBeBytes(t)
  <1> DEFINE z == <<0>> \o t
  <1>1. 0 \in Octets
    BY Limits DEF Octets
  <1>2. z \in Seq(Octets) /\ z # <<>> /\ z[1] = 0 /\ Len(<<0>>) = 1 /\ <<0>> \in Seq(Octets)
    BY <1>1, OneThen
  <1>3. From(z, 2) = t
    <2>1. From(<<0>> \o t, Len(<<0>>) + 1) = t
      BY <1>2, Ending
    <2> QED
      BY <1>2, <2>1
  <1> HIDE DEF z
  <1>4. PICK p \in Nat \ {0}, r \in Nat : r = FromBeBytes(From(z, 2)) /\ FromBeBytes(z) = z[1] * p + r
    BY <1>2, ByFirstOctet
  <1> QED
    BY <1>2, <1>3, <1>4 DEF z

\* A number below a power has no more significant octets than the power.
LEMMA FewSignificant ==
    ASSUME NEW n \in Nat, NEW w \in Nat \ {0}, NEW m \in Nat \ {0}, n < Power(Base, w), n < Power(Base, m)
    PROVE  LET raw == ToBeBytes(n, w) IN Len(From(raw, LeadingCount(raw, 0) + 1)) <= m
  <1> DEFINE raw == ToBeBytes(n, w)
             t == From(raw, LeadingCount(raw, 0) + 1)
  <1>1. t \in Seq(Octets) /\ Len(t) \in 1..w /\ FromBeBytes(t) = n /\ (Len(t) > 1 => t[1] # 0)
    BY SignificantIs
  <1> HIDE DEF t
  <1> SUFFICES ASSUME Len(t) > m PROVE FALSE
    BY <1>1 DEF t
  <1>2. t # <<>> /\ Len(t) - 1 \in Nat /\ m <= Len(t) - 1 /\ t[1] # 0
    BY <1>1
  <1>3. PICK p \in Nat \ {0}, r \in Nat :
              p = Power(Base, Len(t) - 1) /\ t[1] \in Octets /\ FromBeBytes(t) = t[1] * p + r
    BY <1>1, <1>2, ByFirstOctet
  <1>4. Power(Base, m) <= p
    BY <1>2, <1>3, PowersGrow, Limits
  <1>5. t[1] \in Nat /\ 1 <= t[1] /\ 1 \in Nat
    BY <1>2, <1>3, Limits DEF Octets
  <1>6. 1 * p <= t[1] * p
    BY <1>3, <1>5, Products
  <1> DEFINE tp == t[1] * p
  <1>7. tp >= p /\ tp \in Nat /\ n = tp + r
    BY <1>1, <1>3, <1>5, <1>6
  <1> HIDE DEF tp
  <1>8. Base \in Nat \ {0} /\ m \in Nat
    BY Limits
  <1>9. Power(Base, m) \in Nat
    BY <1>8, Powers
  <1> QED
    BY <1>3, <1>4, <1>7, <1>9

\* encode_length writes what read_length reads.
LEMMA LengthReads ==
    ASSUME NEW n \in 0..(Double - 1)
    PROVE  Lengthy(EncodeLength(n), n)
  <1> DEFINE raw == ToBeBytes(n, DoubleOctets)
             t == From(raw, LeadingCount(raw, 0) + 1)
  <1>1. DoubleOctets \in Nat \ {0} /\ Base \in Nat \ {0} /\ Half \in Nat
    BY BerAssumption, Limits DEF BerAssumption
  <1>2. n \in Nat /\ n < Power(Base, DoubleOctets)
    <2>1. Double \in Nat
      BY <1>1, Powers DEF Double
    <2> QED
      BY <2>1 DEF Double
  <1>3. t \in Seq(Octets) /\ Len(t) \in 1..DoubleOctets /\ FromBeBytes(t) = n
    BY <1>1, <1>2, SignificantIs
  <1>4. EncodeLength(n) = IF n <= Half - 1 THEN <<n>> ELSE <<Half + Len(t)>> \o t
    BY DEF EncodeLength
  <1> HIDE DEF t
  <1>5. CASE n <= Half - 1
    <2>1. n \in 0..(Half - 1)
      BY <1>1, <1>2, <1>5
    <2> QED
      BY <1>4, <1>5, <2>1, ShortFormReads
  <1>6. CASE ~(n <= Half - 1)
    BY <1>3, <1>4, <1>6, LongFormReads
  <1> QED
    BY <1>5, <1>6

\* The longer form of a length.
LEMMA LongLengthReads ==
    ASSUME NEW n \in Nat, n < Power(Base, DoubleOctets - 1)
    PROVE  Lengthy(LongLength(n), n)
  <1> DEFINE raw == ToBeBytes(n, DoubleOctets)
             t == From(raw, LeadingCount(raw, 0) + 1)
             d == IF n < Half THEN <<n>> ELSE Tail(EncodeLength(n))
             z == <<0>> \o d
  <1>1. /\ DoubleOctets \in Nat \ {0} /\ DoubleOctets - 1 \in Nat \ {0} /\ DoubleOctets - 1 <= DoubleOctets
        /\ Base \in Nat \ {0} /\ Half \in Nat /\ Base = 2 * Half /\ Half >= 4
    BY BerAssumption, Limits DEF BerAssumption
  <1>2. n < Power(Base, DoubleOctets)
    <2>1. Power(Base, DoubleOctets - 1) \in Nat /\ Power(Base, DoubleOctets) \in Nat
      BY <1>1, Powers
    <2>2. Power(Base, DoubleOctets - 1) <= Power(Base, DoubleOctets)
      BY <1>1, PowersGrow
    <2> QED
      BY <2>1, <2>2
  <1>3. t \in Seq(Octets) /\ Len(t) \in 1..DoubleOctets /\ FromBeBytes(t) = n
    BY <1>1, <1>2, SignificantIs
  <1>4. Len(t) <= DoubleOctets - 1
    BY <1>1, <1>2, FewSignificant
  <1>5. EncodeLength(n) = IF n <= Half - 1 THEN <<n>> ELSE <<Half + Len(t)>> \o t
    BY DEF EncodeLength
  <1> HIDE DEF t
  <1>6. d \in Seq(Octets) /\ Len(d) \in 1..(DoubleOctets - 1) /\ FromBeBytes(d) = n
    <2>1. CASE n < Half
      <3>1. n \in Octets /\ <<n>> \in Seq(Octets) /\ Len(<<n>>) = 1 /\ d = <<n>>
        BY <1>1, <2>1 DEF Octets
      <3>2. <<>> \in Seq(Nat) /\ Append(<<>>, n) = <<n>> /\ 0 * Base = 0
        BY <1>1
      <3>3. FromBeBytes(<<n>>) = n
        <4>1. FromBeBytes(<<>>) = 0 /\ FromBeBytes(Append(<<>>, n)) = FromBeBytes(<<>>) * Base + n
          BY <3>2, FromBeBytesAppend
        <4>2. FromBeBytes(Append(<<>>, n)) = n
          BY <1>1, <4>1
        <4> QED
          BY <3>2, <4>2
      <3> HIDE DEF d
      <3> QED
        BY <1>1, <3>1, <3>3
    <2>2. CASE ~(n < Half)
      <3>1. EncodeLength(n) = <<Half + Len(t)>> \o t
        BY <1>1, <1>5, <2>2
      <3>2. Half + Len(t) \in Nat
        BY <1>1, <1>3
      <3>3. Tail(<<Half + Len(t)>> \o t) = t
        BY <1>3
      <3>4. d = t
        BY <2>2, <3>1, <3>3
      <3> HIDE DEF d
      <3> QED
        BY <1>1, <1>3, <1>4, <3>4
    <2> QED
      BY <2>1, <2>2
  <1>7. LongLength(n) = <<Half + Len(d) + 1, 0>> \o d
    BY DEF LongLength
  <1> HIDE DEF d
  <1>8. 0 \in Octets /\ Len(d) \in Nat
    BY <1>1, <1>6 DEF Octets
  <1>9. z \in Seq(Octets) /\ Len(z) = 1 + Len(d) /\ Len(z) \in 1..DoubleOctets
    <2>1. z \in Seq(Octets) /\ Len(z) = 1 + Len(d)
      BY <1>6, <1>8, OneThen
    <2> HIDE DEF z
    <2> QED
      BY <1>1, <1>6, <2>1
  <1>10. FromBeBytes(z) = n
    BY <1>6, LeadingZero
  <1>11. <<Half + Len(d) + 1, 0>> \o d = <<Half + Len(z)>> \o z
    <2>1. Half + Len(d) + 1 = Half + Len(z)
      BY <1>1, <1>8, <1>9
    <2> DEFINE x == Half + Len(z)
    <2>2. x \in Nat /\ d \in Seq(Nat)
      BY <1>1, <1>6, <1>9, OctetSequences
    <2> HIDE DEF x
    <2>3. <<x, 0>> \o d = <<x>> \o (<<0>> \o d)
      BY <2>2
    <2> QED
      BY <2>1, <2>3 DEF x
  <1> HIDE DEF z
  <1>12. Lengthy(<<Half + Len(z)>> \o z, FromBeBytes(z))
    BY <1>9, LongFormReads
  <1> QED
    BY <1>7, <1>10, <1>11, <1>12

-----------------------------------------------------------------------------
(* TLVs *)

\* What stands before the content of a TLV.
Opening(long, name, tag, n) == <<tag>> \o (IF name \in long THEN LongLength(n) ELSE EncodeLength(n))

\* Octets that are read as a TLV, whatever follows them.
IsTlv(z, tag, content) ==
    /\ z \in Seq(Octets) /\ content \in Seq(Octets) /\ Len(content) <= Len(z)
    /\ Len(z) >= 1 /\ z[1] = tag
    /\ \A q \in Seq(Octets) : ReadTlv(z \o q) = Taking(content, Len(z))

\* A tag, a length and that many octets are a TLV.
LEMMA TlvReads ==
    ASSUME NEW tag \in Octets, NEW content \in Seq(Octets), NEW e, Lengthy(e, Len(content))
    PROVE  IsTlv((<<tag>> \o e) \o content, tag, content)
  <1> DEFINE o == <<tag>> \o e
             z == o \o content
             n == Len(content)
             k == Len(e)
  <1>1. e \in Seq(Octets) /\ k \in Nat /\ k >= 1 /\ n \in Nat
    BY DEF Lengthy
  <1>2. o \in Seq(Octets) /\ Len(o) = 1 + k /\ Len(<<tag>>) = 1 /\ <<tag>> \in Seq(Octets)
    BY <1>1, OneThen
  <1> HIDE DEF o
  <1>3. z \in Seq(Octets) /\ Len(z) = 1 + k + n
    BY <1>1, <1>2
  <1>4. z = <<tag>> \o (e \o content)
    BY <1>1, <1>2, ConcatAssociative DEF o
  <1>5. e \o content \in Seq(Octets)
    BY <1>1
  <1>6. z[1] = tag
    BY <1>4, <1>5, OneThen
  <1>7. ASSUME NEW q \in Seq(Octets) PROVE ReadTlv(z \o q) = Taking(content, Len(z))
    <2> DEFINE s == z \o q
               cq == content \o q
               length == ReadLength(Tail(s))
    <2>1. cq \in Seq(Octets) /\ Len(cq) = n + Len(q) /\ Len(q) \in Nat
      OBVIOUS
    <2>2. s = o \o cq
      BY <1>2, <2>1, ConcatAssociative
    <2>3. s = <<tag>> \o (e \o cq) /\ e \o cq \in Seq(Octets)
      <3> HIDE DEF cq
      <3>1. (<<tag>> \o e) \o cq = <<tag>> \o (e \o cq)
        <4> DEFINE first == <<tag>>
        <4>1. first \in Seq(Octets) /\ e \in Seq(Octets) /\ cq \in Seq(Octets)
          BY <1>1, <1>2, <2>1
        <4> HIDE DEF first, k
        <4>2. (first \o e) \o cq = first \o (e \o cq)
          BY <4>1, Associative
        <4> QED
          BY <4>2 DEF first
      <3>2. s = (<<tag>> \o e) \o cq
        BY <2>2 DEF o
      <3>3. e \o cq \in Seq(Octets)
        BY <1>1, <2>1
      <3> QED
        BY <3>1, <3>2, <3>3
    <2>4. s # <<>> /\ Tail(s) = e \o cq
      <3> DEFINE u == e \o cq
      <3> HIDE DEF s, u
      <3>1. s = <<tag>> \o u /\ u \in Seq(Octets)
        BY <2>3 DEF u
      <3>2. s # <<>> /\ Tail(s) = u
        BY <3>1, OneThen
      <3> QED
        BY <3>2 DEF u
    <2>5. length = Taking(n, k)
      BY <2>1, <2>4 DEF Lengthy
    <2>6. Len(s) = 1 + k + n + Len(q)
      <3>1. Len(s) = Len(z) + Len(q)
        <4> HIDE DEF z
        <4> QED
          BY <1>3
      <3> HIDE DEF s, z, n, k
      <3> QED
        BY <1>1, <1>3, <2>1, <3>1
    <2>7. SubSeq(s, k + 2, 1 + k + n) = content
      <3>1. SubSeq(o \o (content \o q), Len(o) + 1, Len(o) + n) = content
        BY <1>2, Middle
      <3>2. Len(o) + 1 = k + 2 /\ Len(o) + n = 1 + k + n
        BY <1>1, <1>2
      <3> QED
        BY <2>2, <3>1, <3>2
    <2> HIDE DEF s, length
    <2>8. length.ok /\ length.used = k /\ length.value = n
      BY <2>5 DEF Taking
    <2>9. ~(1 + k + n > Len(s))
      BY <1>1, <2>1, <2>6
    <2>10. ReadTlv(s) = Taking(SubSeq(s, k + 2, 1 + k + n), 1 + k + n)
      BY <2>4, <2>8, <2>9 DEF ReadTlv, length
    <2> QED
      BY <1>3, <2>7, <2>10 DEF s
  <1>8. Len(content) <= Len(z) /\ Len(z) >= 1
    BY <1>1, <1>3
  <1> QED
    BY <1>3, <1>6, <1>7, <1>8 DEF IsTlv, o

\* A length takes octets in either form.
LEMMA OpeningType ==
    ASSUME NEW tag \in Octets, NEW n \in Nat, NEW long, NEW name
    PROVE  /\ Opening(long, name, tag, n) \in Seq(Octets)
           /\ Len(Opening(long, name, tag, n)) >= 1 /\ Opening(long, name, tag, n)[1] = tag
  <1> DEFINE raw == ToBeBytes(n, DoubleOctets)
             t == From(raw, LeadingCount(raw, 0) + 1)
             d == IF n < Half THEN <<n>> ELSE Tail(EncodeLength(n))
             e == IF name \in long THEN LongLength(n) ELSE EncodeLength(n)
  <1>1. /\ DoubleOctets \in Nat \ {0} /\ DoubleOctets < Half - 1
        /\ Half \in Nat /\ Half >= 4 /\ Base = 2 * Half
    BY BerAssumption, Limits DEF BerAssumption
  <1>2. EncodeLength(n) \in Seq(Octets)
    BY EncodeLengthType
  <1>3. t \in Seq(Octets) /\ Len(t) \in 1..DoubleOctets
    BY <1>1, SignificantType
  <1>4. EncodeLength(n) = IF n <= Half - 1 THEN <<n>> ELSE <<Half + Len(t)>> \o t
    BY DEF EncodeLength
  <1> HIDE DEF t
  <1>5. d \in Seq(Octets) /\ Len(d) \in 1..DoubleOctets
    <2>1. CASE n < Half
      <3>1. n \in Octets /\ d = <<n>> /\ 1 \in 1..DoubleOctets
        BY <1>1, <2>1 DEF Octets
      <3> HIDE DEF d
      <3> QED
        BY <3>1
    <2>2. CASE ~(n < Half)
      <3>1. EncodeLength(n) = <<Half + Len(t)>> \o t
        BY <1>1, <1>4, <2>2
      <3>2. Half + Len(t) \in Nat
        BY <1>1, <1>3
      <3>3. Tail(<<Half + Len(t)>> \o t) = t
        BY <1>3
      <3>4. d = t
        BY <2>2, <3>1, <3>3
      <3> QED
        BY <1>3, <3>4
    <2> QED
      BY <2>1, <2>2
  <1>6. LongLength(n) = <<Half + Len(d) + 1, 0>> \o d
    BY DEF LongLength
  <1> HIDE DEF d
  <1>7. Half + Len(d) + 1 \in Octets /\ 0 \in Octets
    BY <1>1, <1>5 DEF Octets
  <1>8. LongLength(n) \in Seq(Octets)
    <2> DEFINE y == Half + Len(d) + 1
    <2>1. y \in Octets
      BY <1>7
    <2> HIDE DEF y
    <2>2. <<y, 0>> \in Seq(Octets)
      BY <1>7, <2>1
    <2>3. <<y, 0>> \o d \in Seq(Octets)
      BY <1>5, <2>2
    <2> QED
      BY <1>6, <2>3 DEF y
  <1>9. e \in Seq(Octets)
    BY <1>2, <1>8
  <1> HIDE DEF e
  <1>10. Len(<<tag>> \o e) >= 1 /\ <<tag>> \o e \in Seq(Octets) /\ (<<tag>> \o e)[1] = tag
    BY <1>9, OneThen
  <1> QED
    BY <1>10 DEF Opening, e

\* The octets of a TLV: its opening and its content.
LEMMA WriteIs ==
    ASSUME NEW tag \in Octets, NEW content \in Seq(Octets), NEW long, NEW name
    PROVE  /\ Write(long, name, tag, content) = Opening(long, name, tag, Len(content)) \o content
           /\ WriteTlv(tag, content) = Write({}, name, tag, content)
           /\ Write(long, name, tag, content) \in Seq(Octets)
           /\ Len(Write(long, name, tag, content)) = Len(Opening(long, name, tag, Len(content))) + Len(content)
           /\ Len(content) <= Len(Write(long, name, tag, content))
           /\ Len(Write(long, name, tag, content)) >= 1
           /\ Write(long, name, tag, content)[1] = tag
  <1> DEFINE o == Opening(long, name, tag, Len(content))
             w == Write(long, name, tag, content)
  <1>1. w = o \o content
    BY DEF Write, WriteTlv, Opening
  <1>2. WriteTlv(tag, content) = Write({}, name, tag, content)
    BY DEF Write
  <1>3. o \in Seq(Octets) /\ Len(o) >= 1 /\ o[1] = tag
    <2>1. Len(content) \in Nat
      OBVIOUS
    <2> QED
      BY <2>1, OpeningType
  <1> HIDE DEF o, w
  <1>4. w \in Seq(Octets) /\ Len(w) = Len(o) + Len(content) /\ Len(content) <= Len(w) /\ Len(w) >= 1 /\ w[1] = tag
    BY <1>1, <1>3
  <1> QED
    BY <1>1, <1>2, <1>4 DEF o, w

Room == Power(Base, DoubleOctets - 1)

\* Lengths below Room have a longer form that a usize still holds.
LEMMA RoomIs == Room \in Nat /\ Double \in Nat /\ Room <= Double
  <1>1. DoubleOctets \in Nat /\ DoubleOctets - 1 \in Nat /\ DoubleOctets - 1 <= DoubleOctets /\ Base \in Nat \ {0}
    BY BerAssumption, Limits DEF BerAssumption
  <1>2. Room <= Double
    BY <1>1, PowersGrow DEF Room, Double
  <1>3. Room \in Nat /\ Double \in Nat
    BY <1>1, Powers DEF Room, Double
  <1> QED
    BY <1>2, <1>3

\* What is written as a TLV, in either form of lengths, is read as one.
LEMMA WriteReads ==
    ASSUME NEW tag \in Octets, NEW content \in Seq(Octets), NEW long, NEW name, Len(content) < Room
    PROVE  IsTlv(Write(long, name, tag, content), tag, content)
  <1> DEFINE n == Len(content)
             e == IF name \in long THEN LongLength(n) ELSE EncodeLength(n)
  <1>1. n \in Nat /\ n \in 0..(Double - 1)
    BY RoomIs
  <1>2. Lengthy(e, n)
    <2>1. Lengthy(EncodeLength(n), n)
      BY <1>1, LengthReads
    <2>2. Lengthy(LongLength(n), n)
      BY <1>1, LongLengthReads DEF Room
    <2> QED
      BY <2>1, <2>2
  <1>3. Write(long, name, tag, content) = (<<tag>> \o e) \o content
    BY WriteIs DEF Opening
  <1> HIDE DEF e
  <1>4. IsTlv((<<tag>> \o e) \o content, tag, content)
    BY <1>2, TlvReads
  <1> QED
    BY <1>3, <1>4

-----------------------------------------------------------------------------
(* Reading fields *)

Progress(position, fields) == [ok |-> TRUE, position |-> position, fields |-> fields]
NextRead(s, base, r, tag) == IF r.ok THEN ReadField(s, base, r, tag) ELSE Error

\* What the recursive function in ReadFields computes.
LEMMA ReadFieldsIs ==
    ASSUME NEW s, NEW base, NEW tags, Len(tags) \in Nat
    PROVE  \E f : /\ f[0] = Progress(0, <<>>)
                  /\ \A n \in 1..Len(tags) : f[n] = NextRead(s, base, f[n - 1], tags[n])
                  /\ ReadFields(s, base, tags) = f[Len(tags)]
  <1> DEFINE L == Len(tags)
             Def(f) == f = [n \in 0..L |-> IF n = 0 THEN Progress(0, <<>>) ELSE NextRead(s, base, f[n - 1], tags[n])]
             read == CHOOSE f : Def(f)
             Good(f, n) == f[0] = Progress(0, <<>>) /\ \A m \in 1..n : f[m] = NextRead(s, base, f[m - 1], tags[m])
             S == {n \in 0..L : \E f : Good(f, n)}
  <1>1. 0 \in S
    <2> DEFINE f == [n \in 0..0 |-> Progress(0, <<>>)]
    <2>1. Good(f, 0)
      OBVIOUS
    <2> HIDE DEF Good, f
    <2> QED
      BY <2>1
  <1>2. ASSUME NEW n \in 1..L, n - 1 \in S PROVE n \in S
    <2>1. PICK f : Good(f, n - 1)
      BY <1>2
    <2> DEFINE g == [m \in 0..n |-> IF m = n THEN NextRead(s, base, f[n - 1], tags[n]) ELSE f[m]]
    <2>2. g[0] = Progress(0, <<>>)
      BY <2>1
    <2>3. ASSUME NEW m \in 1..n PROVE g[m] = NextRead(s, base, g[m - 1], tags[m])
      <3>1. m \in 0..n /\ m - 1 \in 0..n /\ m - 1 # n
        OBVIOUS
      <3>2. g[m - 1] = f[m - 1]
        BY <3>1
      <3>3. CASE m = n
        BY <3>1, <3>2, <3>3
      <3>4. CASE m # n
        <4>1. m \in 1..(n - 1) /\ g[m] = f[m]
          BY <3>1, <3>4
        <4> QED
          BY <2>1, <3>2, <4>1
      <3> QED
        BY <3>3, <3>4
    <2> HIDE DEF g
    <2>4. Good(g, n)
      BY <2>2, <2>3
    <2> HIDE DEF Good
    <2> QED
      BY <2>4
  <1>3. L \in S
    <2> HIDE DEF S
    <2>1. 0..L \subseteq S
      BY <1>1, <1>2, InductionUpTo
    <2> QED
      BY <2>1
  <1>4. PICK h : Good(h, L)
    BY <1>3
  <1> DEFINE f == [n \in 0..L |-> h[n]]
  <1>5. Def(f)
    <2>1. ASSUME NEW n \in 0..L
          PROVE  f[n] = IF n = 0 THEN Progress(0, <<>>) ELSE NextRead(s, base, f[n - 1], tags[n])
      <3>1. CASE n = 0
        BY <1>4, <3>1
      <3>2. CASE n # 0
        <4>1. n \in 1..L /\ n - 1 \in 0..L
          BY <3>2
        <4> QED
          BY <1>4, <3>2, <4>1
      <3> QED
        BY <3>1, <3>2
    <2> QED
      BY <2>1
  <1> HIDE DEF f
  <1>6. Def(read)
    BY <1>5
  <1>7. ReadFields(s, base, tags) = read[L]
    BY DEF ReadFields, Try, NextRead, Progress
  <1> HIDE DEF read
  <1>8. read[0] = Progress(0, <<>>) /\ \A n \in 1..L : read[n] = NextRead(s, base, read[n - 1], tags[n])
    BY <1>6
  <1> QED
    BY <1>7, <1>8

\* One field more is read after the others.
LEMMA ReadFieldsAppend ==
    ASSUME NEW s, NEW base, NEW tags \in Seq(Octets), NEW t \in Octets
    PROVE  /\ ReadFields(s, base, <<>>) = Progress(0, <<>>)
           /\ ReadFields(s, base, Append(tags, t)) = NextRead(s, base, ReadFields(s, base, tags), t)
  <1> DEFINE L == Len(tags)
             u == Append(tags, t)
  <1>1. L \in Nat /\ Len(u) = L + 1 /\ u[L + 1] = t /\ \A i \in 1..L : u[i] = tags[i]
    OBVIOUS
  <1>2. PICK f : /\ f[0] = Progress(0, <<>>)
                 /\ \A n \in 1..L : f[n] = NextRead(s, base, f[n - 1], tags[n])
                 /\ ReadFields(s, base, tags) = f[L]
    BY <1>1, ReadFieldsIs
  <1> HIDE DEF u, L
  <1>3. PICK g : /\ g[0] = Progress(0, <<>>)
                 /\ \A n \in 1..Len(u) : g[n] = NextRead(s, base, g[n - 1], u[n])
                 /\ ReadFields(s, base, u) = g[Len(u)]
    <2>1. \A v : Len(v) \in Nat =>
              \E g : /\ g[0] = Progress(0, <<>>)
                     /\ \A n \in 1..Len(v) : g[n] = NextRead(s, base, g[n - 1], v[n])
                     /\ ReadFields(s, base, v) = g[Len(v)]
      BY ReadFieldsIs
    <2>2. Len(u) \in Nat
      BY <1>1
    <2> QED
      BY <2>1, <2>2
  <1>4. ReadFields(s, base, <<>>) = Progress(0, <<>>)
    <2>1. Len(<<>>) = 0 /\ 0 \in Nat
      OBVIOUS
    <2> QED
      BY <2>1, ReadFieldsIs
  <1> DEFINE S == {n \in 0..L : f[n] = g[n]}
  <1>5. 0 \in S
    BY <1>1, <1>2, <1>3
  <1>6. ASSUME NEW n \in 1..L, n - 1 \in S PROVE n \in S
    <2>1. n \in 1..Len(u) /\ n \in 0..L /\ u[n] = tags[n]
      BY <1>1
    <2> QED
      BY <1>2, <1>3, <1>6, <2>1
  <1>7. 0..L \subseteq S
    <2> HIDE DEF S
    <2> QED
      BY <1>1, <1>5, <1>6, InductionUpTo
  <1>8. f[L] = g[L]
    BY <1>1, <1>7
  <1>9. L + 1 \in 1..Len(u) /\ (L + 1) - 1 = L
    BY <1>1
  <1>10. g[L + 1] = NextRead(s, base, g[L], t)
    BY <1>1, <1>3, <1>9
  <1> QED
    BY <1>1, <1>2, <1>3, <1>4, <1>8, <1>10 DEF u

\* A TLV whose content has a value.
IsField(z, tag, content, value) == IsTlv(z, tag, content) /\ DecodeContent(tag, content) = Ok(value)

Field(value, at) == [value |-> value, at |-> at]

-----------------------------------------------------------------------------
(* Slices *)

\* v stands in s, after the first a octets.
Slice(s, v, a) ==
    /\ v \in Seq(Octets) /\ a \in Nat /\ a + Len(v) <= Len(s)
    /\ \A i \in 1..Len(v) : v[i] = s[a + i]

\* A part of a part is a part.
LEMMA SliceOfSlice ==
    ASSUME NEW s \in Seq(Octets), NEW v, NEW u, NEW a, NEW b, Slice(s, v, a), Slice(v, u, b - a), b \in Int
    PROVE  Slice(s, u, b)
  <1>1. /\ v \in Seq(Octets) /\ u \in Seq(Octets) /\ a \in Nat /\ b - a \in Nat /\ Len(v) \in Nat /\ Len(u) \in Nat
        /\ a + Len(v) <= Len(s) /\ (b - a) + Len(u) <= Len(v) /\ Len(s) \in Nat
    BY DEF Slice
  <1>2. b \in Nat /\ b + Len(u) <= Len(s)
    BY <1>1
  <1>3. ASSUME NEW i \in 1..Len(u) PROVE u[i] = s[b + i]
    <2>1. (b - a) + i \in 1..Len(v) /\ a + ((b - a) + i) = b + i
      BY <1>1, <1>2
    <2>2. u[i] = v[(b - a) + i]
      BY DEF Slice
    <2>3. v[(b - a) + i] = s[a + ((b - a) + i)]
      BY <2>1 DEF Slice
    <2> QED
      BY <2>1, <2>2, <2>3
  <1> QED
    BY <1>1, <1>2, <1>3 DEF Slice

\* Whatever is read as a length is a number.
LEMMA ReadLengthType ==
    ASSUME NEW s \in Seq(Octets), ReadLength(s).ok
    PROVE  ReadLength(s).value \in Nat /\ ReadLength(s).used \in Nat \ {0} /\ s # <<>>
  <1>1. s # <<>>
    BY DEF ReadLength, Error
  <1>2. Len(s) \in Nat \ {0} /\ s[1] \in Nat /\ Half \in Nat /\ Half >= 4
    BY <1>1, Limits DEF Octets
  <1> DEFINE extra == s[1] - Half
  <1>3. CASE ~HighBit(s[1])
    <2>1. ReadLength(s) = Taking(s[1], 1)
      BY <1>1, <1>3 DEF ReadLength
    <2> QED
      BY <1>1, <1>2, <2>1 DEF Taking
  <1>4. CASE HighBit(s[1])
    <2>1. ~(\/ s[1] = Base - 1 \/ extra = 0 \/ extra > DoubleOctets \/ Len(s) < 1 + extra)
      BY <1>1, <1>4 DEF ReadLength, Error
    <2>2. ReadLength(s) = Taking(FromBeBytes(SubSeq(s, 2, 1 + extra)), 1 + extra)
      BY <1>1, <1>4, <2>1 DEF ReadLength
    <2>3. extra \in Nat \ {0} /\ 1 + extra <= Len(s)
      BY <1>2, <1>4, <2>1 DEF HighBit
    <2> HIDE DEF extra
    <2>4. SubSeq(s, 2, 1 + extra) \in Seq(Octets)
      BY <1>2, <2>3
    <2>5. FromBeBytes(SubSeq(s, 2, 1 + extra)) \in Nat
      BY <2>4, OctetSequences, FromBeBytesType
    <2> QED
      BY <1>1, <2>2, <2>3, <2>5 DEF Taking
  <1> QED
    BY <1>3, <1>4

\* The content of a TLV is a slice of it, at its end.
LEMMA ReadTlvSlice ==
    ASSUME NEW s \in Seq(Octets), ReadTlv(s).ok
    PROVE  LET tlv == ReadTlv(s)
           IN  /\ tlv.used \in Nat \ {0} /\ tlv.used <= Len(s) /\ s # <<>>
               /\ Slice(s, tlv.value, tlv.used - Len(tlv.value))
  <1>1. s # <<>>
    BY DEF ReadTlv, Error
  <1> DEFINE length == ReadLength(Tail(s))
             n == length.value
             k == length.used
  <1>2. length.ok
    BY <1>1 DEF ReadTlv, Error
  <1>3. Tail(s) \in Seq(Octets) /\ Len(s) \in Nat \ {0}
    BY <1>1
  <1>4. n \in Nat /\ k \in Nat \ {0}
    BY <1>2, <1>3, ReadLengthType
  <1>5. ~(1 + k + n > Len(s))
    BY <1>1, <1>2 DEF ReadTlv, Error
  <1>6. ReadTlv(s) = Taking(SubSeq(s, k + 2, 1 + k + n), 1 + k + n)
    BY <1>1, <1>2, <1>5 DEF ReadTlv
  <1> HIDE DEF n, k
  <1> DEFINE v == SubSeq(s, k + 2, 1 + k + n)
  <1>7. v \in Seq(Octets) /\ Len(v) = n /\ \A i \in 1..n : v[i] = s[(1 + k) + i]
    BY <1>3, <1>4, <1>5
  <1> HIDE DEF v
  <1>8. (1 + k + n) - Len(v) = 1 + k /\ 1 + k \in Nat /\ (1 + k) + Len(v) <= Len(s)
    BY <1>3, <1>4, <1>5, <1>7
  <1>9. Slice(s, v, 1 + k)
    BY <1>7, <1>8 DEF Slice
  <1>10. ReadTlv(s).value = v /\ ReadTlv(s).used = 1 + k + n
    <2>1. ReadTlv(s) = Taking(v, 1 + k + n)
      BY <1>6 DEF v
    <2> QED
      BY <2>1 DEF Taking
  <1> QED
    BY <1>1, <1>3, <1>4, <1>5, <1>8, <1>9, <1>10

PduNames == {"GetRequest", "GetNextRequest", "Response", "SetRequest", "GetBulkRequest", "Trap", "Report"}
RawTags == {Tag.Sequence, Tag.OctetString} \cup {Tag[k] : k \in PduNames}

\* Tags are octets.
LEMMA TagsAre ==
    /\ \A k \in TagNames : Tag[k] \in Octets
    /\ \A a, b \in TagNames : Tag[a] = Tag[b] => a = b
  <1>1. Tag \in [TagNames -> Octets] /\ \A a, b \in TagNames : Tag[a] = Tag[b] => a = b
    BY MessagesAssumption DEF MessagesAssumption
  <1> QED
    BY <1>1

\* These tags too.
LEMMA RawOctets == \A tag \in RawTags : tag \in Octets
  <1> DEFINE names == {"Sequence", "OctetString"} \cup PduNames
  <1>1. names \subseteq TagNames
    BY DEF PduNames, TagNames
  <1>2. \A tag \in RawTags : \E k \in names : tag = Tag[k]
    BY DEF RawTags
  <1> HIDE DEF names
  <1> QED
    BY <1>1, <1>2, TagsAre

\* The content of these is taken as it is.
LEMMA RawContent ==
    ASSUME NEW tag \in RawTags, NEW content
    PROVE  DecodeContent(tag, content) = Ok(content)
  <1>1. /\ tag # Tag.Integer /\ tag # Tag.Oid /\ tag # Tag.Counter64 /\ tag # Tag.IpAddress
        /\ tag \notin Unsigned32s /\ tag \notin Exceptions \cup {Tag.Null}
    <2> DEFINE names == {"Sequence", "OctetString"} \cup PduNames
               others == {"Integer", "Oid", "Counter64", "IpAddress", "Counter32", "Gauge32", "TimeTicks",
                          "NoSuchObject", "NoSuchInstance", "EndOfMibView", "Null"}
    <2>1. names \subseteq TagNames /\ others \subseteq TagNames /\ names \cap others = {}
      BY DEF PduNames, TagNames
    <2>2. \E k \in names : tag = Tag[k]
      BY DEF RawTags
    <2> HIDE DEF names
    <2>3. \A k \in others : tag # Tag[k]
      BY <2>1, <2>2, TagsAre
    <2> QED
      BY <2>3 DEF Unsigned32s, Exceptions
  <1> QED
    BY <1>1 DEF DecodeContent

\* Append, for fields of any kind.
LEMMA AppendAny ==
    ASSUME NEW n \in Nat, NEW F, F = [i \in 1..n |-> F[i]], NEW x
    PROVE  LET g == Append(F, x)
           IN  /\ g = [i \in 1..(n + 1) |-> g[i]] /\ Len(g) = n + 1 /\ Len(F) = n
               /\ \A i \in 1..n : g[i] = F[i]
               /\ g[n + 1] = x
  <1> DEFINE A == {F[i] : i \in 1..n} \cup {x}
  <1>1. (\A i \in 1..n : F[i] \in A) /\ x \in A
    OBVIOUS
  <1> HIDE DEF A
  <1>2. F \in Seq(A) /\ Len(F) = n
    BY <1>1, SequenceOf
  <1> QED
    BY <1>1, <1>2

\* What is left to read of octets is octets.
LEMMA RestIs ==
    ASSUME NEW s \in Seq(Octets), NEW p \in 0..Len(s)
    PROVE  /\ From(s, p + 1) \in Seq(Octets) /\ Len(From(s, p + 1)) = Len(s) - p
           /\ \A i \in 1..(Len(s) - p) : From(s, p + 1)[i] = s[p + i]
  BY DEF From

\* What a reader has read when it does not fail.
LEMMA ReadFieldOk ==
    ASSUME NEW s \in Seq(Octets), NEW base \in Nat, NEW r, r.position \in 0..Len(s), NEW tag,
           ReadField(s, base, r, tag).ok
    PROVE  \E v, a, k :
              /\ ReadField(s, base, r, tag) = Progress(r.position + k, Append(r.fields, Field(v, a)))
              /\ k \in Nat /\ r.position + k <= Len(s) /\ a \in Nat
              /\ tag \in RawTags => Slice(s, v, a - base)
  <1> DEFINE p == r.position
             q == From(s, p + 1)
             tlv == ReadTlv(q)
             c == DecodeContent(tag, tlv.value)
             a == ContentOffset(base + p, tlv)
  <1>1. p \in Nat /\ p <= Len(s) /\ Len(s) \in Nat /\ p + 1 \in 1..(Len(s) + 1)
    OBVIOUS
  <1>2. q \in Seq(Octets) /\ Len(q) = Len(s) - p /\ \A i \in 1..(Len(s) - p) : q[i] = s[p + i]
    BY RestIs
  <1>3. tlv.ok /\ s[p + 1] = tag /\ c.ok
        /\ ReadField(s, base, r, tag) = Progress(p + tlv.used, Append(r.fields, Field(c.value, a)))
    <2>1. q = Rest(s, r)
      BY DEF Rest
    <2> HIDE DEF q
    <2> QED
      BY <2>1 DEF ReadField, Try, Progress, Field, Error
  <1> HIDE DEF q
  <1>4. tlv.used \in Nat \ {0} /\ tlv.used <= Len(q) /\ Slice(q, tlv.value, tlv.used - Len(tlv.value))
    BY <1>2, <1>3, ReadTlvSlice
  <1>5. p + tlv.used <= Len(s)
    BY <1>1, <1>2, <1>4
  <1> DEFINE b == tlv.used - Len(tlv.value)
             v == tlv.value
  <1>6. /\ v \in Seq(Octets) /\ Len(v) \in Nat /\ b \in Nat /\ b + Len(v) <= Len(q)
        /\ \A i \in 1..Len(v) : v[i] = q[b + i]
    BY <1>4 DEF Slice
  <1>7. a = base + p + b /\ a - base = p + b /\ a \in Nat
    <2>1. a = base + p + tlv.used - Len(v) /\ b = tlv.used - Len(v)
      BY DEF ContentOffset
    <2>2. tlv.used \in Nat /\ Len(v) \in Nat /\ b \in Nat
      BY <1>4, <1>6
    <2> HIDE DEF a, b, v, tlv, p
    <2>3. ASSUME NEW u \in Nat, NEW l \in Nat, a = base + p + u - l, b = u - l
          PROVE  a = base + p + b /\ a - base = p + b /\ a \in Nat
      BY <1>1, <2>2, <2>3
    <2> QED
      BY <2>1, <2>2, <2>3
  <1>8. Slice(s, v, p + b)
    <2> HIDE DEF v, b
    <2>1. p + b \in Nat /\ (p + b) + Len(v) <= Len(s)
      BY <1>1, <1>2, <1>6
    <2>2. ASSUME NEW i \in 1..Len(v) PROVE v[i] = s[(p + b) + i]
      <3>1. b + i \in 1..(Len(s) - p) /\ p + (b + i) = (p + b) + i
        BY <1>1, <1>2, <1>6
      <3> QED
        BY <1>2, <1>6, <3>1
    <2> QED
      BY <1>6, <2>1, <2>2 DEF Slice
  <1>9. tag \in RawTags => c.value = v
    BY RawContent DEF Ok
  <1>10. tag \in RawTags => Slice(s, c.value, a - base)
    <2> HIDE DEF a, b, v, c
    <2> QED
      BY <1>7, <1>8, <1>9
  <1> HIDE DEF a, c, tlv
  <1> QED
    BY <1>3, <1>4, <1>5, <1>7, <1>10

\* The raw fields that a reader has read are slices of its input.
LEMMA ReadsSlices ==
    ASSUME NEW s \in Seq(Octets), NEW base \in Nat, NEW tags \in Seq(Octets), ReadFields(s, base, tags).ok
    PROVE  LET r == ReadFields(s, base, tags)
           IN  /\ r.position \in 0..Len(s)
               /\ \A i \in 1..Len(tags) :
                     tags[i] \in RawTags => Slice(s, Value(r, i), At(r, i) - base) /\ At(r, i) \in Nat
  <1> DEFINE L == Len(tags)
             Good(r, n) == /\ r.position \in 0..Len(s)
                           /\ r.fields = [i \in 1..n |-> r.fields[i]]
                           /\ \A i \in 1..n : tags[i] \in RawTags =>
                                  Slice(s, r.fields[i].value, r.fields[i].at - base) /\ r.fields[i].at \in Nat
  <1>1. L \in Nat
    OBVIOUS
  <1>2. PICK f : /\ f[0] = Progress(0, <<>>)
                 /\ \A n \in 1..L : f[n] = NextRead(s, base, f[n - 1], tags[n])
                 /\ ReadFields(s, base, tags) = f[L]
    BY <1>1, ReadFieldsIs
  <1> DEFINE S == {n \in 0..L : f[n].ok => Good(f[n], n)}
  <1> HIDE DEF L
  <1>3. 0 \in S
    <2>1. f[0].position = 0 /\ f[0].fields = <<>>
      BY <1>2 DEF Progress
    <2>2. f[0].fields = [i \in 1..0 |-> f[0].fields[i]]
      BY <2>1
    <2> QED
      BY <1>1, <2>1, <2>2
  <1>4. ASSUME NEW n \in 1..L, n - 1 \in S PROVE n \in S
    <2> SUFFICES ASSUME f[n].ok PROVE Good(f[n], n)
      BY <1>1
    <2> DEFINE r == f[n - 1]
    <2>1. f[n] = NextRead(s, base, r, tags[n])
      BY <1>2
    <2>2. r.ok /\ f[n] = ReadField(s, base, r, tags[n])
      BY <2>1 DEF NextRead, Error
    <2>3. Good(r, n - 1)
      BY <1>4, <2>2
    <2> HIDE DEF r
    <2>4. PICK v, a, k :
              /\ f[n] = Progress(r.position + k, Append(r.fields, Field(v, a)))
              /\ k \in Nat /\ r.position + k <= Len(s) /\ a \in Nat
              /\ tags[n] \in RawTags => Slice(s, v, a - base)
      <3> DEFINE tag == tags[n]
      <3>1. r.position \in 0..Len(s) /\ ReadField(s, base, r, tag).ok
        BY <2>2, <2>3
      <3> HIDE DEF tag, Good, S
      <3>2. \E v, a, k :
              /\ ReadField(s, base, r, tag) = Progress(r.position + k, Append(r.fields, Field(v, a)))
              /\ k \in Nat /\ r.position + k <= Len(s) /\ a \in Nat
              /\ tag \in RawTags => Slice(s, v, a - base)
        BY <3>1, ReadFieldOk
      <3> QED
        BY <2>2, <3>2 DEF tag
    <2> DEFINE g == Append(r.fields, Field(v, a))
    <2>5. g = [i \in 1..n |-> g[i]] /\ (\A i \in 1..(n - 1) : g[i] = r.fields[i]) /\ g[n] = Field(v, a)
      <3>1. n - 1 \in Nat /\ (n - 1) + 1 = n
        OBVIOUS
      <3> DEFINE m == n - 1
                 F == r.fields
                 x == Field(v, a)
      <3>2. F = [i \in 1..m |-> F[i]] /\ m \in Nat
        BY <2>3, <3>1
      <3> HIDE DEF m, F, x
      <3>3. LET h == Append(F, x)
            IN  h = [i \in 1..(m + 1) |-> h[i]] /\ (\A i \in 1..m : h[i] = F[i]) /\ h[m + 1] = x
        BY <3>2, AppendAny
      <3>4. m + 1 = n
        BY DEF m
      <3> QED
        BY <3>3, <3>4 DEF m, F, x
    <2> HIDE DEF g
    <2>6. f[n].position = r.position + k /\ f[n].fields = g
      BY <2>4 DEF Progress, g
    <2>7. f[n].position \in 0..Len(s)
      BY <2>3, <2>4, <2>6
    <2>8. ASSUME NEW i \in 1..n, tags[i] \in RawTags
          PROVE  Slice(s, g[i].value, g[i].at - base) /\ g[i].at \in Nat
      <3>1. CASE i = n
        BY <2>4, <2>5, <2>8, <3>1 DEF Field
      <3>2. CASE i # n
        <4>1. i \in 1..(n - 1)
          BY <3>2
        <4> QED
          BY <2>3, <2>5, <2>8, <4>1
      <3> QED
        BY <3>1, <3>2
    <2> QED
      BY <2>5, <2>6, <2>7, <2>8
  <1>5. L \in S
    <2> HIDE DEF S
    <2>1. 0..L \subseteq S
      BY <1>1, <1>3, <1>4, InductionUpTo
    <2> QED
      BY <1>1, <2>1
  <1>6. Good(f[L], L)
    BY <1>2, <1>5
  <1> QED
    BY <1>2, <1>6 DEF Value, At, L

-----------------------------------------------------------------------------
(* The octets of the MAC *)

SecurityTags == <<Tag.Integer, Tag.Sequence, Tag.OctetString>>
UsmTags ==
    <<Tag.OctetString, Tag.Integer, Tag.Integer, Tag.OctetString, Tag.OctetString, Tag.OctetString>>

\* DecodeUsm without its Try.
LEMMA DecodeUsmIs ==
    ASSUME NEW s, NEW base
    PROVE  LET outer == ReadFields(s, base, <<Tag.Sequence>>)
               r == ReadFields(Value(outer, 1), At(outer, 1), UsmTags)
           IN  /\ DecodeUsm(s, base).ok <=> outer.ok /\ r.ok /\ ~(Len(Value(r, 4)) > MaxUserName)
               /\ DecodeUsm(s, base).ok =>
                     /\ DecodeUsm(s, base).value.auth = Value(r, 5)
                     /\ DecodeUsm(s, base).value.offset = IF Value(r, 5) = <<>> THEN NoOffset ELSE At(r, 5)
  <1> DEFINE outer == ReadFields(s, base, <<Tag.Sequence>>)
             r == ReadFields(Value(outer, 1), At(outer, 1), UsmTags)
             good == Ok([engine |-> Value(r, 1), boots |-> Value(r, 2), time |-> Value(r, 3), user |-> Value(r, 4),
                         auth   |-> Value(r, 5),
                         offset |-> IF Value(r, 5) = <<>> THEN NoOffset ELSE At(r, 5),
                         salt   |-> Value(r, 6)])
  <1>1. DecodeUsm(s, base) = IF outer.ok
                             THEN IF r.ok THEN IF Len(Value(r, 4)) > MaxUserName THEN Error ELSE good ELSE Error
                             ELSE Error
    BY DEF DecodeUsm, Try, UsmTags
  <1> HIDE DEF outer, r
  <1>2. good.value.auth = Value(r, 5) /\ good.value.offset = (IF Value(r, 5) = <<>> THEN NoOffset ELSE At(r, 5))
        /\ good.ok
    BY DEF Ok
  <1> HIDE DEF good
  <1>3. ~Error.ok
    BY DEF Error
  <1>4. /\ DecodeUsm(s, base).ok <=> outer.ok /\ r.ok /\ ~(Len(Value(r, 4)) > MaxUserName)
        /\ DecodeUsm(s, base).ok =>
               /\ DecodeUsm(s, base).value.auth = Value(r, 5)
               /\ DecodeUsm(s, base).value.offset = IF Value(r, 5) = <<>> THEN NoOffset ELSE At(r, 5)
    BY <1>1, <1>2, <1>3
  <1> QED
    BY <1>4 DEF outer, r

\* DecodeV3Envelope without its Try.
LEMMA EnvelopeIs ==
    ASSUME NEW w, NEW message, message = ReadFields(w, 0, <<Tag.Sequence>>),
           NEW top, top = ReadFields(Value(message, 1), At(message, 1), SecurityTags)
    PROVE  LET header == DecodeHeaderData(Value(top, 2))
               usm == DecodeUsm(Value(top, 3), At(top, 3))
               scoped == ReadOneOf(Rest(Value(message, 1), top), {Tag.Sequence, Tag.OctetString})
           IN  /\ DecodeV3Envelope(w).ok =>
                     message.ok /\ top.ok /\ usm.ok /\ DecodeV3Envelope(w).value.usm = usm.value
               /\ message.ok /\ top.ok /\ header.ok /\ usm.ok /\ scoped.ok /\ Value(top, 1) = 3 =>
                     DecodeV3Envelope(w).ok
  <1> DEFINE header == DecodeHeaderData(Value(top, 2))
             usm == DecodeUsm(Value(top, 3), At(top, 3))
             scoped == ReadOneOf(Rest(Value(message, 1), top), {Tag.Sequence, Tag.OctetString})
             good == Ok([header |-> header.value, usm |-> usm.value, scoped |-> Value(scoped, 1),
                         encrypted |-> Head(Rest(Value(message, 1), top)) = Tag.OctetString])
  <1>1. DecodeV3Envelope(w) =
            IF message.ok
            THEN IF top.ok
                 THEN IF header.ok
                      THEN IF usm.ok
                           THEN IF scoped.ok THEN IF Value(top, 1) # 3 THEN Error ELSE good ELSE Error
                           ELSE Error
                      ELSE Error
                 ELSE Error
            ELSE Error
    BY DEF DecodeV3Envelope, Try, SecurityTags
  <1>2. good.value.usm = usm.value /\ good.ok
    BY DEF Ok
  <1> HIDE DEF good, header, usm, scoped
  <1>3. ~Error.ok
    BY DEF Error
  <1>4. DecodeV3Envelope(w).ok =>
            message.ok /\ top.ok /\ usm.ok /\ DecodeV3Envelope(w).value.usm = usm.value
    BY <1>1, <1>2, <1>3
  <1>5. message.ok /\ top.ok /\ header.ok /\ usm.ok /\ scoped.ok /\ Value(top, 1) = 3 => DecodeV3Envelope(w).ok
    BY <1>1, <1>2
  <1> QED
    BY <1>4, <1>5 DEF header, usm, scoped

\* The offset a decoder reports names the octets of the MAC, in any octets.
LEMMA OffsetInAnyOctets ==
    ASSUME NEW w \in Seq(Octets), DecodeV3Envelope(w).ok
    PROVE  LET usm == DecodeV3Envelope(w).value.usm
           IN  IF usm.auth = <<>> THEN usm.offset = NoOffset ELSE Slice(w, usm.auth, usm.offset)
  <1> DEFINE message == ReadFields(w, 0, <<Tag.Sequence>>)
             body == Value(message, 1)
             top == ReadFields(body, At(message, 1), SecurityTags)
             security == Value(top, 3)
             outer == ReadFields(security, At(top, 3), <<Tag.Sequence>>)
             params == Value(outer, 1)
             r == ReadFields(params, At(outer, 1), UsmTags)
             usm == DecodeUsm(security, At(top, 3))
  <1>1. Tag.Sequence \in Octets /\ Tag.Integer \in Octets /\ Tag.OctetString \in Octets
    BY TagsAre DEF TagNames
  <1>2. Tag.Sequence \in RawTags /\ Tag.OctetString \in RawTags
    BY DEF RawTags
  <1>3. message.ok /\ top.ok /\ usm.ok /\ DecodeV3Envelope(w).value.usm = usm.value
    BY EnvelopeIs
  <1>4. outer.ok /\ r.ok /\ usm.value.auth = Value(r, 5)
        /\ usm.value.offset = IF Value(r, 5) = <<>> THEN NoOffset ELSE At(r, 5)
    <2> DEFINE a == At(top, 3)
    <2> HIDE DEF a, security
    <2>1. usm.ok
      BY <1>3 DEF a, security
    <2> QED
      BY <2>1, DecodeUsmIs DEF a
  <1>5. <<Tag.Sequence>> \in Seq(Octets) /\ Len(<<Tag.Sequence>>) = 1 /\ <<Tag.Sequence>>[1] = Tag.Sequence
    BY <1>1
  <1>6. SecurityTags \in Seq(Octets) /\ Len(SecurityTags) = 3 /\ SecurityTags[3] = Tag.OctetString
    BY <1>1 DEF SecurityTags
  <1>7. UsmTags \in Seq(Octets) /\ Len(UsmTags) = 6 /\ UsmTags[5] = Tag.OctetString
    BY <1>1 DEF UsmTags
  <1>8. Slice(w, body, At(message, 1)) /\ At(message, 1) \in Nat
    <2>1. Slice(w, Value(message, 1), At(message, 1) - 0) /\ At(message, 1) \in Nat
      <3>1. 1 \in 1..Len(<<Tag.Sequence>>) /\ 0 \in Nat
        BY <1>5
      <3> QED
        BY <1>2, <1>3, <1>5, <3>1, ReadsSlices
    <2> HIDE DEF message
    <2> QED
      BY <2>1
  <1>9. body \in Seq(Octets)
    BY <1>8 DEF Slice
  <1>10. Slice(body, security, At(top, 3) - At(message, 1)) /\ At(top, 3) \in Nat
    <2>1. 3 \in 1..Len(SecurityTags)
      BY <1>6
    <2> HIDE DEF body, message
    <2> QED
      BY <1>2, <1>3, <1>6, <1>8, <1>9, <2>1, ReadsSlices
  <1>11. Slice(w, security, At(top, 3))
    <2> HIDE DEF body, message, top, security
    <2> QED
      BY <1>8, <1>10, SliceOfSlice
  <1>12. security \in Seq(Octets)
    BY <1>11 DEF Slice
  <1>13. Slice(security, params, At(outer, 1) - At(top, 3)) /\ At(outer, 1) \in Nat
    <2>1. 1 \in 1..Len(<<Tag.Sequence>>)
      BY <1>5
    <2> HIDE DEF security, top
    <2> QED
      BY <1>2, <1>4, <1>5, <1>10, <1>12, <2>1, ReadsSlices
  <1>14. Slice(w, params, At(outer, 1))
    <2> HIDE DEF top, security, outer, params
    <2> QED
      BY <1>11, <1>13, SliceOfSlice
  <1>15. params \in Seq(Octets)
    BY <1>14 DEF Slice
  <1>16. Slice(params, Value(r, 5), At(r, 5) - At(outer, 1)) /\ At(r, 5) \in Nat
    <2>1. 5 \in 1..Len(UsmTags)
      BY <1>7
    <2> HIDE DEF params, outer
    <2> QED
      BY <1>2, <1>4, <1>7, <1>13, <1>15, <2>1, ReadsSlices
  <1>17. Slice(w, Value(r, 5), At(r, 5))
    <2> HIDE DEF outer, params, r
    <2> QED
      BY <1>14, <1>16, SliceOfSlice
  <1> HIDE DEF r, usm
  <1> QED
    BY <1>3, <1>4, <1>17

-----------------------------------------------------------------------------
(* What the encoders write *)

\* The branches of encoders and decoders exclude each other.
LEMMA TagKinds ==
    ASSUME NEW tag
    PROVE  /\ tag = Tag.Integer => tag # Tag.Oid /\ tag \notin Unsigned32s /\ tag # Tag.Counter64
                                      /\ tag \notin Exceptions \cup {Tag.Null} /\ tag # Tag.IpAddress
           /\ tag = Tag.Oid => tag \notin Unsigned32s /\ tag # Tag.Counter64
                                  /\ tag \notin Exceptions \cup {Tag.Null} /\ tag # Tag.IpAddress
           /\ tag \in Unsigned32s => tag # Tag.Counter64 /\ tag \notin Exceptions \cup {Tag.Null}
                                       /\ tag # Tag.IpAddress
           /\ tag = Tag.Counter64 => tag \notin Exceptions \cup {Tag.Null} /\ tag # Tag.IpAddress
           /\ tag \in Exceptions \cup {Tag.Null} => tag # Tag.IpAddress
  BY TagsAre DEF TagNames, Unsigned32s, Exceptions

\* Values of every type are written as octets.
LEMMA ContentType ==
    ASSUME NEW tag, NEW data, ValidData(tag, data)
    PROVE  EncodeContent(tag, data) \in Seq(Octets)
  <1>1. CASE tag = Tag.Integer
    <2>1. data \in I32s /\ EncodeContent(tag, data) = EncodeSigned(data)
      BY <1>1, TagKinds DEF ValidData, EncodeContent
    <2> QED
      BY <2>1, SignedMeans DEF I32s
  <1>2. CASE tag = Tag.Oid /\ tag # Tag.Integer
    <2>1. ValidOid(data) /\ EncodeContent(tag, data) = EncodeOid(data)
      BY <1>2, TagKinds DEF ValidData, EncodeContent
    <2>2. data \in Seq(Nat) /\ Len(data) >= 2
      BY <2>1, WordsAre DEF ValidOid
    <2> QED
      BY <2>1, <2>2, EncodeOidType
  <1>3. CASE tag \in Unsigned32s /\ tag # Tag.Integer /\ tag # Tag.Oid
    <2>1. data \in 0..(Word - 1) /\ EncodeContent(tag, data) = EncodeUnsigned(data, WordOctets)
      BY <1>3, TagKinds DEF ValidData, EncodeContent
    <2>2. data \in Nat
      BY <2>1, WordsAre
    <2> QED
      BY <2>1, <2>2, EncodeUnsignedType, WordsAre
  <1>4. CASE tag = Tag.Counter64 /\ tag \notin Unsigned32s /\ tag # Tag.Integer /\ tag # Tag.Oid
    <2>1. data \in 0..(Double - 1) /\ EncodeContent(tag, data) = EncodeUnsigned(data, DoubleOctets)
      BY <1>4, TagKinds DEF ValidData, EncodeContent
    <2>2. data \in Nat
      BY <2>1, WordsAre
    <2> QED
      BY <2>1, <2>2, EncodeUnsignedType, WordsAre
  <1>5. CASE /\ tag \in Exceptions \cup {Tag.Null}
             /\ tag # Tag.Counter64 /\ tag \notin Unsigned32s /\ tag # Tag.Integer /\ tag # Tag.Oid
    <2>1. EncodeContent(tag, data) = <<>>
      BY <1>5 DEF EncodeContent
    <2> QED
      BY <2>1
  <1>6. CASE /\ tag \notin Exceptions \cup {Tag.Null}
             /\ tag # Tag.Counter64 /\ tag \notin Unsigned32s /\ tag # Tag.Integer /\ tag # Tag.Oid
    <2>1. EncodeContent(tag, data) = data
      BY <1>6 DEF EncodeContent
    <2>2. data \in Seq(Octets)
      BY <1>6 DEF ValidData
    <2> QED
      BY <2>1, <2>2
  <1> QED
    BY <1>1, <1>2, <1>3, <1>4, <1>5, <1>6

\* A TLV as the agent writes it.
LEMMA TlvType ==
    ASSUME NEW tag \in Octets, NEW content \in Seq(Octets)
    PROVE  WriteTlv(tag, content) \in Seq(Octets) /\ Len(content) <= Len(WriteTlv(tag, content))
           /\ Len(WriteTlv(tag, content)) >= 1 /\ WriteTlv(tag, content)[1] = tag
  BY WriteIs

\* An INTEGER is octets, and its content is read back.
LEMMA IntegerType ==
    ASSUME NEW n \in I32s
    PROVE  /\ WriteInteger(n) \in Seq(Octets)
           /\ EncodeSigned(n) \in Seq(Octets) /\ DecodeSigned(EncodeSigned(n)) = Ok(n)
           /\ Len(EncodeSigned(n)) <= Len(WriteInteger(n))
  <1>1. EncodeSigned(n) \in Seq(Octets) /\ EncodeSigned(n) # <<>> /\ TwosComplement(EncodeSigned(n)) = n
    BY SignedMeans DEF I32s
  <1>2. Tag.Integer \in Octets
    BY TagsAre DEF TagNames
  <1>3. DecodeSigned(EncodeSigned(n)) = Ok(n)
    BY <1>1, DecodeSignedExact DEF I32s
  <1> QED
    BY <1>1, <1>2, <1>3, TlvType DEF WriteInteger

\* An OCTET STRING is octets.
LEMMA OctetsType ==
    ASSUME NEW s \in Seq(Octets)
    PROVE  WriteOctets(s) \in Seq(Octets) /\ Len(s) <= Len(WriteOctets(s))
           /\ Len(WriteOctets(s)) >= 1 /\ WriteOctets(s)[1] = Tag.OctetString
  <1>1. Tag.OctetString \in Octets
    BY TagsAre DEF TagNames
  <1> QED
    BY <1>1, TlvType DEF WriteOctets

\* A varbind is octets.
LEMMA VarbindType ==
    ASSUME NEW vb, vb.tag \in Octets, ValidOid(vb.oid), ValidData(vb.tag, vb.data), NEW long
    PROVE  EncodeVarbind(vb, long) \in Seq(Octets)
  <1>1. Tag.Oid \in Octets /\ Tag.Sequence \in Octets
    BY TagsAre DEF TagNames
  <1>2. EncodeOid(vb.oid) \in Seq(Octets)
    <2>1. vb.oid \in Seq(Nat) /\ Len(vb.oid) >= 2
      BY WordsAre DEF ValidOid
    <2> QED
      BY <2>1, EncodeOidType
  <1>3. EncodeContent(vb.tag, vb.data) \in Seq(Octets)
    BY ContentType
  <1> DEFINE a == WriteTlv(Tag.Oid, EncodeOid(vb.oid))
             b == WriteTlv(vb.tag, EncodeContent(vb.tag, vb.data))
  <1>4. a \in Seq(Octets) /\ b \in Seq(Octets)
    BY <1>1, <1>2, <1>3, TlvType
  <1>5. EncodeVarbind(vb, long) = Write(long, "varbind", Tag.Sequence, a \o b)
    BY DEF EncodeVarbind
  <1> DEFINE c == a \o b
  <1> HIDE DEF a, b
  <1>6. c \in Seq(Octets)
    BY <1>4
  <1>7. EncodeVarbind(vb, long) = Write(long, "varbind", Tag.Sequence, c)
    BY <1>5
  <1> HIDE DEF c
  <1> QED
    BY <1>1, <1>6, <1>7, WriteIs

\* A PDU is octets.
LEMMA PduType ==
    ASSUME NEW pdu, ValidPdu(pdu), pdu.third \in I32s, NEW long
    PROVE  EncodePdu(pdu, long) \in Seq(Octets)
  <1>1. Tag.Sequence \in Octets /\ pdu.tag \in Octets
    BY TagsAre DEF TagNames, ValidPdu
  <1> DEFINE n == Len(pdu.varbinds)
             parts == [i \in DOMAIN pdu.varbinds |-> EncodeVarbind(pdu.varbinds[i], long)]
             vbs == EncodeVarbinds(pdu.varbinds, long)
             list == EncodeVarbindList(pdu.varbinds, long)
  <1>2. n \in Nat /\ DOMAIN pdu.varbinds = 1..n
    BY DEF ValidPdu
  <1>3. ASSUME NEW i \in 1..n PROVE EncodeVarbind(pdu.varbinds[i], long) \in Seq(Octets)
    BY <1>2, VarbindType DEF ValidPdu
  <1>4. parts \in Seq(Seq(Octets))
    <2>1. parts = [i \in 1..n |-> EncodeVarbind(pdu.varbinds[i], long)]
      BY <1>2
    <2>2. parts = [i \in 1..n |-> parts[i]] /\ \A i \in 1..n : parts[i] \in Seq(Octets)
      BY <1>3, <2>1
    <2> HIDE DEF parts, n
    <2> QED
      BY <1>2, <2>2, SequenceOf
  <1>5. vbs \in Seq(Octets)
    <2>1. <<>> \in Seq(Octets)
      OBVIOUS
    <2>2. FlattenSeq(parts) \in Seq(Octets)
      <3> HIDE DEF parts
      <3> QED
        BY <1>4, <2>1, FlattenAppend
    <2> QED
      BY <2>2 DEF EncodeVarbinds
  <1>6. list \in Seq(Octets)
    BY <1>1, <1>5, WriteIs DEF EncodeVarbindList
  <1> DEFINE a == WriteInteger(pdu.id)
             b == WriteInteger(pdu.second)
             c == WriteInteger(pdu.third)
  <1>7. a \in Seq(Octets) /\ b \in Seq(Octets) /\ c \in Seq(Octets)
    BY IntegerType DEF ValidPdu
  <1>8. EncodePdu(pdu, long) = Write(long, "pdu", pdu.tag, a \o b \o c \o list)
    BY DEF EncodePdu
  <1> DEFINE d == a \o b \o c \o list
             tag == pdu.tag
  <1> HIDE DEF a, b, c, list
  <1>9. d \in Seq(Octets)
    BY <1>6, <1>7
  <1>10. EncodePdu(pdu, long) = Write(long, "pdu", tag, d) /\ tag \in Octets
    BY <1>1, <1>8
  <1> HIDE DEF d, tag
  <1> QED
    BY <1>9, <1>10, WriteIs

\* The stand-in for the cipher turns octets into as many octets.
LEMMA KeystreamType ==
    ASSUME NEW iv \in Seq(Int), NEW i \in Nat
    PROVE  Keystream(iv, i) \in Octets
  <1> DEFINE L == Len(iv)
             Def(f) == f = [n \in 0..L |-> IF n = 0 THEN 7 * i ELSE 3 * f[n - 1] + iv[n]]
             sum == CHOOSE f : Def(f)
             step == [n \in 1..L |-> [v \in Int |-> 3 * v + iv[n]]]
  <1>1. L \in Nat /\ (\A n \in 1..L : iv[n] \in Int) /\ 7 * i \in Int
    OBVIOUS
  <1>2. \E f : Def(f)
    <2>1. step \in [1..L -> [Int -> Int]]
      BY <1>1
    <2> DEFINE first == 7 * i
    <2> HIDE DEF step, L, first
    <2>2. PICK f \in [0..L -> Int] : Iterates(f, L, first, step)
      BY <1>1, <2>1, RecursionUpTo DEF first
    <2>3. \A n \in 0..L : n # 0 => n \in 1..L /\ n - 1 \in 0..L
      BY <1>1
    <2>4. \A n \in 1..L : f[n] = 3 * f[n - 1] + iv[n]
      <3>1. \A n \in 1..L : f[n - 1] \in Int
        BY <1>1
      <3> QED
        BY <2>2, <3>1 DEF Iterates, step
    <2>5. Def(f)
      BY <2>2, <2>3, <2>4 DEF Iterates, first
    <2> QED
      BY <2>5
  <1>3. Def(sum)
    BY <1>2
  <1>4. Keystream(iv, i) = sum[L] % Base
    BY DEF Keystream
  <1> DEFINE S == {n \in 0..L : sum[n] \in Int}
  <1> HIDE DEF sum
  <1>5. 0 \in S
    BY <1>1, <1>3
  <1>6. ASSUME NEW n \in 1..L, n - 1 \in S PROVE n \in S
    <2>1. n \in 0..L /\ n # 0
      BY <1>1
    <2>2. sum[n] = 3 * sum[n - 1] + iv[n]
      BY <1>3, <2>1
    <2>3. sum[n - 1] \in Int /\ iv[n] \in Int
      BY <1>1, <1>6
    <2> QED
      BY <2>1, <2>2, <2>3
  <1>7. L \in S
    <2> HIDE DEF S, L
    <2>1. 0..L \subseteq S
      BY <1>1, <1>5, <1>6, InductionUpTo
    <2> QED
      BY <1>1, <2>1
  <1>8. sum[L] \in Int /\ Base \in Nat \ {0}
    BY <1>7, WordsAre
  <1> QED
    BY <1>4, <1>8 DEF Octets

\* A ciphertext is as many octets as its plaintext.
LEMMA EncryptType ==
    ASSUME NEW iv \in Seq(Int), NEW s \in Seq(Octets)
    PROVE  Encrypt(iv, s) \in Seq(Octets) /\ Len(Encrypt(iv, s)) = Len(s)
  <1> DEFINE n == Len(s)
             e == Encrypt(iv, s)
  <1>1. n \in Nat /\ DOMAIN s = 1..n /\ \A i \in 1..n : s[i] \in Nat
    BY OctetSequences
  <1>2. e = [i \in 1..n |-> (s[i] + Keystream(iv, i)) % Base]
    BY <1>1 DEF Encrypt
  <1>3. ASSUME NEW i \in 1..n PROVE e[i] \in Octets
    <2>1. Keystream(iv, i) \in Octets /\ i \in Nat
      BY KeystreamType
    <2> DEFINE k == Keystream(iv, i)
    <2>2. Base \in Nat \ {0} /\ Octets \subseteq Nat
      BY Limits
    <2>3. e[i] = (s[i] + k) % Base
      BY <1>2
    <2> HIDE DEF k, e
    <2>4. k \in Nat
      BY <2>1, <2>2 DEF k
    <2> QED
      BY <1>1, <2>2, <2>3, <2>4 DEF Octets
  <1>4. e = [i \in 1..n |-> e[i]]
    BY <1>2
  <1> HIDE DEF e, n
  <1>5. e \in Seq(Octets) /\ Len(e) = n
    BY <1>1, <1>3, <1>4, SequenceOf
  <1> QED
    BY <1>5 DEF e, n

\* Fields that fit the integers of a message.
Encodable(f) == ValidFields(f) /\ f.boots \in I32s /\ f.time \in I32s /\ f.pdu.third \in I32s

\* Encodable, field by field.
LEMMA EncodableIs ==
    ASSUME NEW f, Encodable(f)
    PROVE  /\ f.version \in I32s /\ f.id \in I32s /\ f.maxSize \in I32s /\ f.model \in I32s
           /\ f.boots \in I32s /\ f.time \in I32s /\ f.boots \in Int /\ f.time \in Int
           /\ f.flags \in Seq(Octets) /\ f.engine \in Seq(Octets) /\ f.user \in Seq(Octets)
           /\ f.salt \in Seq(Octets) /\ f.contextEngine \in Seq(Octets) /\ f.contextName \in Seq(Octets)
           /\ f.authenticated \in BOOLEAN /\ f.encrypted \in BOOLEAN
           /\ ValidPdu(f.pdu) /\ f.pdu.third \in I32s
  <1>1. \A k \in {"flags", "engine", "user", "salt", "contextEngine", "contextName"} : f[k] \in Seq(Octets)
    BY DEF Encodable, ValidFields
  <1> QED
    BY <1>1 DEF Encodable, ValidFields

\* What follows the security parameters.
ScopedContent(f, long) ==
    WriteOctets(f.contextEngine) \o WriteOctets(f.contextName) \o EncodePdu(f.pdu, long)
ScopedData(f, long) ==
    IF f.encrypted THEN WriteOctets(Encrypt(<<f.boots, f.time>> \o f.salt, EncodeScopedPdu(f, long)))
    ELSE EncodeScopedPdu(f, long)

\* The scoped data is one TLV with a tag that decoders expect.
LEMMA ScopedDataIs ==
    ASSUME NEW f, Encodable(f), NEW long
    PROVE  /\ ScopedData(f, long) \in Seq(Octets) /\ Len(ScopedData(f, long)) >= 1
           /\ Len(ScopedData(f, long)) < Room =>
                 \E tag \in {Tag.Sequence, Tag.OctetString}, content \in Seq(Octets) :
                    IsTlv(ScopedData(f, long), tag, content)
  <1>1. Tag.Sequence \in Octets /\ Tag.OctetString \in Octets
    BY TagsAre DEF TagNames
  <1> DEFINE a == WriteOctets(f.contextEngine)
             b == WriteOctets(f.contextName)
             p == EncodePdu(f.pdu, long)
             c == ScopedContent(f, long)
             s == EncodeScopedPdu(f, long)
             iv == <<f.boots, f.time>> \o f.salt
             e == Encrypt(iv, s)
             d == ScopedData(f, long)
  <1>2. a \in Seq(Octets) /\ b \in Seq(Octets) /\ p \in Seq(Octets)
    BY EncodableIs, OctetsType, PduType
  <1>3. c \in Seq(Octets)
    <2> HIDE DEF a, b, p
    <2>1. a \o b \o p \in Seq(Octets)
      BY <1>2
    <2> QED
      BY <2>1 DEF ScopedContent, a, b, p
  <1>4. s = Write(long, "scoped", Tag.Sequence, c)
    BY DEF EncodeScopedPdu, ScopedContent
  <1> HIDE DEF c, s
  <1>5. s \in Seq(Octets) /\ Len(s) >= 1 /\ Len(c) <= Len(s)
    BY <1>1, <1>3, <1>4, WriteIs
  <1>6. iv \in Seq(Int)
    <2> DEFINE x == f.boots
               y == f.time
               z == f.salt
    <2>1. x \in Int /\ y \in Int /\ z \in Seq(Octets)
      BY EncodableIs
    <2>2. z \in Seq(Int)
      <3>1. Octets \subseteq Int
        BY Limits
      <3> QED
        BY <2>1, <3>1, SeqMonotonic
    <2> HIDE DEF x, y, z
    <2>3. <<x, y>> \o z \in Seq(Int)
      BY <2>1, <2>2
    <2> QED
      BY <2>3 DEF x, y, z
  <1> HIDE DEF iv
  <1>7. e \in Seq(Octets)
    BY <1>5, <1>6, EncryptType
  <1>8. d = IF f.encrypted THEN WriteOctets(e) ELSE s
    BY DEF ScopedData, e, s, iv
  <1> HIDE DEF e, d
  <1>9. CASE f.encrypted
    <2>1. d = WriteTlv(Tag.OctetString, e)
      BY <1>8, <1>9 DEF WriteOctets
    <2>2. d = Write({}, "data", Tag.OctetString, e)
      BY <1>1, <1>7, <2>1, WriteIs
    <2>3. d \in Seq(Octets) /\ Len(d) >= 1 /\ Len(e) <= Len(d)
      BY <1>1, <1>7, <2>1, TlvType
    <2>4. ASSUME Len(d) < Room PROVE IsTlv(d, Tag.OctetString, e)
      <3>1. Len(e) < Room
        <4>1. Len(e) \in Nat /\ Len(d) \in Nat /\ Len(e) <= Len(d)
          BY <1>7, <2>3
        <4> QED
          BY <2>4, <4>1, RoomIs
      <3> QED
        BY <1>1, <1>7, <2>2, <3>1, WriteReads
    <2> QED
      BY <1>7, <2>3, <2>4 DEF d
  <1>10. CASE ~f.encrypted
    <2>1. d = s
      BY <1>8, <1>10
    <2>2. ASSUME Len(d) < Room PROVE IsTlv(d, Tag.Sequence, c)
      <3>1. Len(c) < Room
        <4>1. Len(c) \in Nat /\ Len(d) \in Nat /\ Len(c) <= Len(d)
          BY <1>3, <1>5, <2>1
        <4> QED
          BY <2>2, <4>1, RoomIs
      <3> QED
        BY <1>1, <1>3, <1>4, <2>1, <3>1, WriteReads
    <2> QED
      BY <1>3, <1>5, <2>1, <2>2 DEF d
  <1> QED
    BY <1>9, <1>10

-----------------------------------------------------------------------------
(* TLVs one after the other *)

\* x = [z, tag, content, value] is a TLV with a value.
Sound(x) == x.tag \in Octets /\ IsField(x.z, x.tag, x.content, x.value)
\* How a reader at offset `base' of the message reports x, after the octets p.
Seen(x, base, p) == Field(x.value, base + Len(p) + Len(x.z) - Len(x.content))

\* The parts of a TLV are octets.
LEMMA SoundIs ==
    ASSUME NEW x, Sound(x)
    PROVE  x.z \in Seq(Octets) /\ x.tag \in Octets /\ x.content \in Seq(Octets)
  BY DEF Sound, IsField, IsTlv

\* The fields that stand in p have been read.
Reached(s, base, tags, p, fields) == ReadFields(s, base, tags) = Progress(Len(p), fields)

\* A TLV is read after what has been read.
LEMMA FieldReads ==
    ASSUME NEW p \in Seq(Octets), NEW x, Sound(x), NEW q \in Seq(Octets), NEW base \in Nat, NEW fields
    PROVE  ReadField((p \o x.z) \o q, base, Progress(Len(p), fields), x.tag)
               = Progress(Len(p \o x.z), Append(fields, Seen(x, base, p)))
  <1> DEFINE z == x.z
             tag == x.tag
             content == x.content
             value == x.value
             s == (p \o z) \o q
             r == Progress(Len(p), fields)
             seen == Seen(x, base, p)
  <1>1. /\ z \in Seq(Octets) /\ tag \in Octets /\ content \in Seq(Octets) /\ Len(z) >= 1 /\ z[1] = tag
        /\ ReadTlv(z \o q) = Taking(content, Len(z)) /\ DecodeContent(tag, content) = Ok(value)
    BY DEF Sound, IsField, IsTlv
  <1>2. seen = Field(value, base + Len(p) + Len(z) - Len(content))
    BY DEF Seen
  <1> HIDE DEF z, tag, content, value, seen
  <1>3. z \o q \in Seq(Octets) /\ Len(z \o q) = Len(z) + Len(q) /\ (z \o q)[1] = tag /\ Len(z) \in Nat /\ Len(q) \in Nat
        /\ Len(p) \in Nat /\ Len(p \o z) = Len(p) + Len(z)
    BY <1>1
  <1>4. s = p \o (z \o q)
    BY <1>1, Associative
  <1>5. s[Len(p) + 1] = tag
    <2>1. 1 \in 1..Len(z \o q)
      BY <1>1, <1>3
    <2> QED
      BY <1>3, <1>4, <2>1, Joined
  <1>6. From(s, Len(p) + 1) = z \o q
    BY <1>3, <1>4, Ending
  <1>7. r.ok /\ r.position = Len(p) /\ r.fields = fields
    BY DEF Progress
  <1> HIDE DEF s, r
  <1>8. Rest(s, r) = z \o q
    BY <1>6, <1>7 DEF Rest
  <1> DEFINE tlv == Taking(content, Len(z))
             c == Ok(value)
  <1>9. tlv.ok /\ tlv.used = Len(z) /\ tlv.value = content /\ c.ok /\ c.value = value
    BY DEF Taking, Ok
  <1>10. ReadTlv(Rest(s, r)) = tlv /\ DecodeContent(tag, tlv.value) = c
    BY <1>1, <1>8, <1>9
  <1> HIDE DEF tlv, c
  <1>11. ReadField(s, base, r, tag)
             = Progress(Len(p) + Len(z), Append(fields, Field(value, ContentOffset(base + Len(p), tlv))))
    BY <1>5, <1>7, <1>9, <1>10 DEF ReadField, Try, Progress, Field
  <1>12. ContentOffset(base + Len(p), tlv) = base + Len(p) + Len(z) - Len(content)
    BY <1>9 DEF ContentOffset
  <1>13. ReadField(s, base, r, tag) = Progress(Len(p \o z), Append(fields, seen))
    BY <1>2, <1>3, <1>11, <1>12
  <1> QED
    BY <1>13 DEF s, r, z, tag, seen

\* One more TLV is read.
LEMMA ReadNext ==
    ASSUME NEW p \in Seq(Octets), NEW x, Sound(x), NEW q \in Seq(Octets), NEW base \in Nat, NEW fields,
           NEW tags \in Seq(Octets), Reached(p \o (x.z \o q), base, tags, p, fields)
    PROVE  Reached((p \o x.z) \o q, base, Append(tags, x.tag), p \o x.z, Append(fields, Seen(x, base, p)))
  <1> DEFINE s == (p \o x.z) \o q
             r == Progress(Len(p), fields)
  <1>1. x.z \in Seq(Octets) /\ x.tag \in Octets
    BY SoundIs
  <1>2. s = p \o (x.z \o q)
    BY <1>1, Associative
  <1>3. ReadFields(s, base, tags) = r
    BY <1>2 DEF Reached
  <1>4. ReadField(s, base, r, x.tag) = Progress(Len(p \o x.z), Append(fields, Seen(x, base, p)))
    BY FieldReads
  <1>5. r.ok
    BY DEF Progress
  <1> HIDE DEF s, r
  <1>6. ReadFields(s, base, Append(tags, x.tag)) = ReadField(s, base, r, x.tag)
    BY <1>1, <1>3, <1>5, ReadFieldsAppend DEF NextRead
  <1> QED
    BY <1>4, <1>6 DEF Reached, s

\* Append to tuples.
LEMMA Appends ==
    /\ \A a : Append(<<>>, a) = <<a>>
    /\ \A a, b : Append(<<a>>, b) = <<a, b>>
    /\ \A a, b, c : Append(<<a, b>>, c) = <<a, b, c>>
    /\ \A a, b, c, d : Append(<<a, b, c>>, d) = <<a, b, c, d>>
    /\ \A a, b, c, d, e : Append(<<a, b, c, d>>, e) = <<a, b, c, d, e>>
    /\ \A a, b, c, d, e, f : Append(<<a, b, c, d, e>>, f) = <<a, b, c, d, e, f>>
  <1>1. ASSUME NEW a PROVE Append(<<>>, a) = <<a>>
    OBVIOUS
  <1>2. ASSUME NEW a, NEW b PROVE Append(<<a>>, b) = <<a, b>>
    <2> DEFINE A == {a, b}
               s == <<a>>
               u == <<a, b>>
    <2>1. s \in Seq(A) /\ b \in A /\ u \in Seq(A) /\ Len(s) = 1 /\ Len(u) = 2
      OBVIOUS
    <2>2. (\A i \in 1..2 : Append(s, b)[i] = u[i]) /\ Append(s, b) \in Seq(A) /\ Len(Append(s, b)) = 2
      OBVIOUS
    <2> HIDE DEF A, s, u
    <2>3. Append(s, b) = u
      BY <2>1, <2>2, SeqEqual
    <2> QED
      BY <2>3 DEF s, u
  <1>3. ASSUME NEW a, NEW b, NEW c PROVE Append(<<a, b>>, c) = <<a, b, c>>
    <2> DEFINE A == {a, b, c}
               s == <<a, b>>
               u == <<a, b, c>>
    <2>1. s \in Seq(A) /\ c \in A /\ u \in Seq(A) /\ Len(s) = 2 /\ Len(u) = 3
      OBVIOUS
    <2>2. (\A i \in 1..3 : Append(s, c)[i] = u[i]) /\ Append(s, c) \in Seq(A) /\ Len(Append(s, c)) = 3
      OBVIOUS
    <2> HIDE DEF A, s, u
    <2>3. Append(s, c) = u
      BY <2>1, <2>2, SeqEqual
    <2> QED
      BY <2>3 DEF s, u
  <1>4. ASSUME NEW a, NEW b, NEW c, NEW d PROVE Append(<<a, b, c>>, d) = <<a, b, c, d>>
    <2> DEFINE A == {a, b, c, d}
               s == <<a, b, c>>
               u == <<a, b, c, d>>
    <2>1. s \in Seq(A) /\ d \in A /\ u \in Seq(A) /\ Len(s) = 3 /\ Len(u) = 4
      OBVIOUS
    <2>2. (\A i \in 1..4 : Append(s, d)[i] = u[i]) /\ Append(s, d) \in Seq(A) /\ Len(Append(s, d)) = 4
      OBVIOUS
    <2> HIDE DEF A, s, u
    <2>3. Append(s, d) = u
      BY <2>1, <2>2, SeqEqual
    <2> QED
      BY <2>3 DEF s, u
  <1>5. ASSUME NEW a, NEW b, NEW c, NEW d, NEW e PROVE Append(<<a, b, c, d>>, e) = <<a, b, c, d, e>>
    <2> DEFINE A == {a, b, c, d, e}
               s == <<a, b, c, d>>
               u == <<a, b, c, d, e>>
    <2>1. s \in Seq(A) /\ e \in A /\ u \in Seq(A) /\ Len(s) = 4 /\ Len(u) = 5
      OBVIOUS
    <2>2. (\A i \in 1..5 : Append(s, e)[i] = u[i]) /\ Append(s, e) \in Seq(A) /\ Len(Append(s, e)) = 5
      OBVIOUS
    <2> HIDE DEF A, s, u
    <2>3. Append(s, e) = u
      BY <2>1, <2>2, SeqEqual
    <2> QED
      BY <2>3 DEF s, u
  <1>6. ASSUME NEW a, NEW b, NEW c, NEW d, NEW e, NEW f PROVE Append(<<a, b, c, d, e>>, f) = <<a, b, c, d, e, f>>
    <2> DEFINE A == {a, b, c, d, e, f}
               s == <<a, b, c, d, e>>
               u == <<a, b, c, d, e, f>>
    <2>1. s \in Seq(A) /\ f \in A /\ u \in Seq(A) /\ Len(s) = 5 /\ Len(u) = 6
      OBVIOUS
    <2>2. (\A i \in 1..6 : Append(s, f)[i] = u[i]) /\ Append(s, f) \in Seq(A) /\ Len(Append(s, f)) = 6
      OBVIOUS
    <2> HIDE DEF A, s, u
    <2>3. Append(s, f) = u
      BY <2>1, <2>2, SeqEqual
    <2> QED
      BY <2>3 DEF s, u
  <1> QED
    BY <1>1, <1>2, <1>3, <1>4, <1>5, <1>6

\* One TLV is read.
LEMMA ReadOne ==
    ASSUME NEW x, Sound(x), NEW q \in Seq(Octets), NEW base \in Nat
    PROVE  Reached(x.z \o q, base, <<x.tag>>, x.z, <<Seen(x, base, <<>>)>>)
  <1> DEFINE z == x.z
             s == z \o q
             none == <<>>
  <1>1. z \in Seq(Octets) /\ x.tag \in Octets
    BY SoundIs
  <1>2. none \in Seq(Octets) /\ none \o s = s /\ none \o z = z /\ Len(none) = 0 /\ (none \o z) \o q = s
    BY <1>1
  <1>3. ReadFields(s, base, none) = Progress(Len(none), none)
    BY <1>1, <1>2, ReadFieldsAppend
  <1>4. Reached(none \o (x.z \o q), base, none, none, none)
    BY <1>2, <1>3 DEF Reached
  <1>5. Append(none, x.tag) = <<x.tag>> /\ Append(none, Seen(x, base, none)) = <<Seen(x, base, none)>>
    BY Appends
  <1> HIDE DEF none
  <1>6. Reached((none \o x.z) \o q, base, Append(none, x.tag), none \o x.z, Append(none, Seen(x, base, none)))
    BY <1>2, <1>4, ReadNext
  <1>7. Reached(s, base, <<x.tag>>, x.z, <<Seen(x, base, none)>>)
    BY <1>2, <1>5, <1>6
  <1> QED
    BY <1>7 DEF none

\* Two TLVs are read.
LEMMA ReadTwo ==
    ASSUME NEW x, NEW y, Sound(x), Sound(y), NEW q \in Seq(Octets), NEW base \in Nat
    PROVE  Reached((x.z \o y.z) \o q, base, <<x.tag, y.tag>>, x.z \o y.z, <<Seen(x, base, <<>>), Seen(y, base, x.z)>>)
  <1> DEFINE p == x.z
             tags == <<x.tag>>
             fields == <<Seen(x, base, <<>>)>>
  <1>1. p \in Seq(Octets) /\ y.z \in Seq(Octets) /\ tags \in Seq(Octets)
    BY SoundIs
  <1>2. y.z \o q \in Seq(Octets)
    BY <1>1
  <1>3. Reached(p \o (y.z \o q), base, tags, p, fields)
    BY <1>2, ReadOne
  <1>4. Append(tags, y.tag) = <<x.tag, y.tag>> /\ Append(fields, Seen(y, base, p)) = <<Seen(x, base, <<>>), Seen(y, base, p)>>
    BY Appends
  <1> HIDE DEF p, tags, fields
  <1>5. Reached((p \o y.z) \o q, base, Append(tags, y.tag), p \o y.z, Append(fields, Seen(y, base, p)))
    BY <1>1, <1>3, ReadNext
  <1> QED
    BY <1>4, <1>5 DEF p

\* Three TLVs are read.
LEMMA ReadThree ==
    ASSUME NEW x1, NEW x2, NEW x3,
           Sound(x1), Sound(x2), Sound(x3), NEW q \in Seq(Octets), NEW base \in Nat
    PROVE  Reached((x1.z \o x2.z \o x3.z) \o q, base, <<x1.tag, x2.tag, x3.tag>>, x1.z \o x2.z \o x3.z,
                   <<Seen(x1, base, <<>>), Seen(x2, base, x1.z), Seen(x3, base, x1.z \o x2.z)>>)
  <1> DEFINE p == x1.z \o x2.z
             x == x3
             tags == <<x1.tag, x2.tag>>
             fields == <<Seen(x1, base, <<>>), Seen(x2, base, x1.z)>>
  <1>1. x1.z \in Seq(Octets) /\ x2.z \in Seq(Octets) /\ x3.z \in Seq(Octets)
    BY SoundIs
  <1>2. x1.tag \in Octets /\ x2.tag \in Octets /\ x3.tag \in Octets
    BY SoundIs
  <1>3. p \in Seq(Octets) /\ x.z \o q \in Seq(Octets) /\ tags \in Seq(Octets)
    BY <1>1, <1>2
  <1>4. Reached(p \o (x.z \o q), base, tags, p, fields)
    BY <1>3, ReadTwo
  <1>5. Append(tags, x.tag) = <<x1.tag, x2.tag, x3.tag>>
    BY Appends
  <1>6. Append(fields, Seen(x, base, p)) = <<Seen(x1, base, <<>>), Seen(x2, base, x1.z), Seen(x3, base, x1.z \o x2.z)>>
    BY Appends
  <1> HIDE DEF p, tags, fields
  <1>7. Reached((p \o x.z) \o q, base, Append(tags, x.tag), p \o x.z, Append(fields, Seen(x, base, p)))
    BY <1>3, <1>4, ReadNext
  <1> QED
    BY <1>5, <1>6, <1>7 DEF p

\* Four TLVs are read.
LEMMA ReadFour ==
    ASSUME NEW x1, NEW x2, NEW x3, NEW x4,
           Sound(x1), Sound(x2), Sound(x3), Sound(x4), NEW q \in Seq(Octets), NEW base \in Nat
    PROVE  Reached((x1.z \o x2.z \o x3.z \o x4.z) \o q, base, <<x1.tag, x2.tag, x3.tag, x4.tag>>, x1.z \o x2.z \o x3.z \o x4.z,
                   <<Seen(x1, base, <<>>), Seen(x2, base, x1.z), Seen(x3, base, x1.z \o x2.z), Seen(x4, base, x1.z \o x2.z \o x3.z)>>)
  <1> DEFINE p == x1.z \o x2.z \o x3.z
             x == x4
             tags == <<x1.tag, x2.tag, x3.tag>>
             fields == <<Seen(x1, base, <<>>), Seen(x2, base, x1.z), Seen(x3, base, x1.z \o x2.z)>>
  <1>1. x1.z \in Seq(Octets) /\ x2.z \in Seq(Octets) /\ x3.z \in Seq(Octets) /\ x4.z \in Seq(Octets)
    BY SoundIs
  <1>2. x1.tag \in Octets /\ x2.tag \in Octets /\ x3.tag \in Octets /\ x4.tag \in Octets
    BY SoundIs
  <1>3. p \in Seq(Octets) /\ x.z \o q \in Seq(Octets) /\ tags \in Seq(Octets)
    BY <1>1, <1>2
  <1>4. Reached(p \o (x.z \o q), base, tags, p, fields)
    BY <1>3, ReadThree
  <1>5. Append(tags, x.tag) = <<x1.tag, x2.tag, x3.tag, x4.tag>>
    BY Appends
  <1>6. Append(fields, Seen(x, base, p)) = <<Seen(x1, base, <<>>), Seen(x2, base, x1.z), Seen(x3, base, x1.z \o x2.z), Seen(x4, base, x1.z \o x2.z \o x3.z)>>
    BY Appends
  <1> HIDE DEF p, tags, fields
  <1>7. Reached((p \o x.z) \o q, base, Append(tags, x.tag), p \o x.z, Append(fields, Seen(x, base, p)))
    BY <1>3, <1>4, ReadNext
  <1> QED
    BY <1>5, <1>6, <1>7 DEF p

\* Five TLVs are read.
LEMMA ReadFive ==
    ASSUME NEW x1, NEW x2, NEW x3, NEW x4, NEW x5,
           Sound(x1), Sound(x2), Sound(x3), Sound(x4), Sound(x5), NEW q \in Seq(Octets), NEW base \in Nat
    PROVE  Reached((x1.z \o x2.z \o x3.z \o x4.z \o x5.z) \o q, base, <<x1.tag, x2.tag, x3.tag, x4.tag, x5.tag>>, x1.z \o x2.z \o x3.z \o x4.z \o x5.z,
                   <<Seen(x1, base, <<>>), Seen(x2, base, x1.z), Seen(x3, base, x1.z \o x2.z), Seen(x4, base, x1.z \o x2.z \o x3.z), Seen(x5, base, x1.z \o x2.z \o x3.z \o x4.z)>>)
  <1> DEFINE p == x1.z \o x2.z \o x3.z \o x4.z
             x == x5
             tags == <<x1.tag, x2.tag, x3.tag, x4.tag>>
             fields == <<Seen(x1, base, <<>>), Seen(x2, base, x1.z), Seen(x3, base, x1.z \o x2.z), Seen(x4, base, x1.z \o x2.z \o x3.z)>>
  <1>1. x1.z \in Seq(Octets) /\ x2.z \in Seq(Octets) /\ x3.z \in Seq(Octets) /\ x4.z \in Seq(Octets) /\ x5.z \in Seq(Octets)
    BY SoundIs
  <1>2. x1.tag \in Octets /\ x2.tag \in Octets /\ x3.tag \in Octets /\ x4.tag \in Octets /\ x5.tag \in Octets
    BY SoundIs
  <1>3. p \in Seq(Octets) /\ x.z \o q \in Seq(Octets) /\ tags \in Seq(Octets)
    BY <1>1, <1>2
  <1>4. Reached(p \o (x.z \o q), base, tags, p, fields)
    BY <1>3, ReadFour
  <1>5. Append(tags, x.tag) = <<x1.tag, x2.tag, x3.tag, x4.tag, x5.tag>>
    BY Appends
  <1>6. Append(fields, Seen(x, base, p)) = <<Seen(x1, base, <<>>), Seen(x2, base, x1.z), Seen(x3, base, x1.z \o x2.z), Seen(x4, base, x1.z \o x2.z \o x3.z), Seen(x5, base, x1.z \o x2.z \o x3.z \o x4.z)>>
    BY Appends
  <1> HIDE DEF p, tags, fields
  <1>7. Reached((p \o x.z) \o q, base, Append(tags, x.tag), p \o x.z, Append(fields, Seen(x, base, p)))
    BY <1>3, <1>4, ReadNext
  <1> QED
    BY <1>5, <1>6, <1>7 DEF p

\* Six TLVs are read.
LEMMA ReadSix ==
    ASSUME NEW x1, NEW x2, NEW x3, NEW x4, NEW x5, NEW x6,
           Sound(x1), Sound(x2), Sound(x3), Sound(x4), Sound(x5), Sound(x6), NEW q \in Seq(Octets), NEW base \in Nat
    PROVE  Reached((x1.z \o x2.z \o x3.z \o x4.z \o x5.z \o x6.z) \o q, base, <<x1.tag, x2.tag, x3.tag, x4.tag, x5.tag, x6.tag>>, x1.z \o x2.z \o x3.z \o x4.z \o x5.z \o x6.z,
                   <<Seen(x1, base, <<>>), Seen(x2, base, x1.z), Seen(x3, base, x1.z \o x2.z), Seen(x4, base, x1.z \o x2.z \o x3.z), Seen(x5, base, x1.z \o x2.z \o x3.z \o x4.z), Seen(x6, base, x1.z \o x2.z \o x3.z \o x4.z \o x5.z)>>)
  <1> DEFINE p == x1.z \o x2.z \o x3.z \o x4.z \o x5.z
             x == x6
             tags == <<x1.tag, x2.tag, x3.tag, x4.tag, x5.tag>>
             fields == <<Seen(x1, base, <<>>), Seen(x2, base, x1.z), Seen(x3, base, x1.z \o x2.z), Seen(x4, base, x1.z \o x2.z \o x3.z), Seen(x5, base, x1.z \o x2.z \o x3.z \o x4.z)>>
  <1>1. x1.z \in Seq(Octets) /\ x2.z \in Seq(Octets) /\ x3.z \in Seq(Octets) /\ x4.z \in Seq(Octets) /\ x5.z \in Seq(Octets) /\ x6.z \in Seq(Octets)
    BY SoundIs
  <1>2. x1.tag \in Octets /\ x2.tag \in Octets /\ x3.tag \in Octets /\ x4.tag \in Octets /\ x5.tag \in Octets /\ x6.tag \in Octets
    BY SoundIs
  <1>3. p \in Seq(Octets) /\ x.z \o q \in Seq(Octets) /\ tags \in Seq(Octets)
    BY <1>1, <1>2
  <1>4. Reached(p \o (x.z \o q), base, tags, p, fields)
    BY <1>3, ReadFive
  <1>5. Append(tags, x.tag) = <<x1.tag, x2.tag, x3.tag, x4.tag, x5.tag, x6.tag>>
    BY Appends
  <1>6. Append(fields, Seen(x, base, p)) = <<Seen(x1, base, <<>>), Seen(x2, base, x1.z), Seen(x3, base, x1.z \o x2.z), Seen(x4, base, x1.z \o x2.z \o x3.z), Seen(x5, base, x1.z \o x2.z \o x3.z \o x4.z), Seen(x6, base, x1.z \o x2.z \o x3.z \o x4.z \o x5.z)>>
    BY Appends
  <1> HIDE DEF p, tags, fields
  <1>7. Reached((p \o x.z) \o q, base, Append(tags, x.tag), p \o x.z, Append(fields, Seen(x, base, p)))
    BY <1>3, <1>4, ReadNext
  <1> QED
    BY <1>5, <1>6, <1>7 DEF p

-----------------------------------------------------------------------------
(* The parts of a message *)

IntegerAs(n) == [z |-> WriteInteger(n), tag |-> Tag.Integer, content |-> EncodeSigned(n), value |-> n]
Raw(long, name, tag, content) ==
    [z |-> Write(long, name, tag, content), tag |-> tag, content |-> content, value |-> content]
OctetsAs(s) == Raw({}, "octets", Tag.OctetString, s)

\* An INTEGER is a TLV with its number as value.
LEMMA IntegerSound ==
    ASSUME NEW n \in I32s, Len(WriteInteger(n)) < Room
    PROVE  Sound(IntegerAs(n))
  <1> DEFINE z == WriteInteger(n)
             c == EncodeSigned(n)
             tag == Tag.Integer
  <1>1. z \in Seq(Octets) /\ c \in Seq(Octets) /\ DecodeSigned(c) = Ok(n) /\ Len(c) <= Len(z)
    BY IntegerType
  <1>2. tag \in Octets
    BY TagsAre DEF TagNames
  <1>3. DecodeContent(tag, c) = Ok(n)
    BY <1>1, TagKinds DEF DecodeContent
  <1>4. z = Write({}, "integer", tag, c)
    BY DEF WriteInteger, Write
  <1> HIDE DEF z, c, tag
  <1>5. Len(c) < Room
    <2>1. Len(c) \in Nat /\ Len(z) \in Nat /\ Len(z) < Room
      BY <1>1 DEF z
    <2> QED
      BY <1>1, <2>1, RoomIs
  <1>6. IsTlv(z, tag, c)
    BY <1>1, <1>2, <1>4, <1>5, WriteReads
  <1> QED
    BY <1>2, <1>3, <1>6 DEF Sound, IsField, IntegerAs, z, c, tag

\* A SEQUENCE or an OCTET STRING is a TLV with its content as value.
LEMMA RawSound ==
    ASSUME NEW tag \in RawTags, NEW content \in Seq(Octets), NEW long, NEW name,
           Len(Write(long, name, tag, content)) < Room
    PROVE  Sound(Raw(long, name, tag, content))
  <1> DEFINE z == Write(long, name, tag, content)
  <1>1. tag \in Octets
    BY RawOctets
  <1>2. z \in Seq(Octets) /\ Len(content) <= Len(z)
    BY <1>1, WriteIs
  <1>3. Len(content) < Room
    <2>1. Len(content) \in Nat /\ Len(z) \in Nat
      BY <1>2
    <2> HIDE DEF z
    <2>2. Len(z) < Room
      BY DEF z
    <2> QED
      BY <1>2, <2>1, <2>2, RoomIs
  <1>4. IsTlv(z, tag, content)
    BY <1>1, <1>3, WriteReads
  <1>5. DecodeContent(tag, content) = Ok(content)
    BY RawContent
  <1> QED
    BY <1>1, <1>4, <1>5 DEF Sound, IsField, Raw

\* The agent writes OCTET STRINGs with the shortest lengths.
LEMMA OctetsAre ==
    ASSUME NEW s \in Seq(Octets)
    PROVE  OctetsAs(s).z = WriteOctets(s)
  <1>1. Tag.OctetString \in Octets
    BY TagsAre DEF TagNames
  <1> QED
    BY <1>1, WriteIs DEF OctetsAs, Raw, WriteOctets

HeaderContent(f) == WriteInteger(f.id) \o WriteInteger(f.maxSize) \o WriteOctets(f.flags) \o WriteInteger(f.model)
MessageFront(f, long) == WriteInteger(f.version) \o EncodeHeaderData(f, long)
UsmFront(f, long) ==
    Write(long, "engine", Tag.OctetString, f.engine) \o WriteInteger(f.boots) \o WriteInteger(f.time)
        \o Write(long, "user", Tag.OctetString, f.user)
UsmContent(f, a, long) == UsmFront(f, long) \o Write(long, "auth", Tag.OctetString, a) \o WriteOctets(f.salt)
Security(f, a, long) == Write(long, "security", Tag.OctetString, EncodeUsmParams(f, a, long))
Body(f, a, long) == MessageFront(f, long) \o Security(f, a, long) \o ScopedData(f, long)

\* The encoders, by the parts they write.
LEMMA PartsAre ==
    ASSUME NEW f, NEW a, NEW long
    PROVE  /\ EncodeHeaderData(f, long) = Write(long, "header", Tag.Sequence, HeaderContent(f))
           /\ EncodeUsmParams(f, a, long) = Write(long, "usm", Tag.Sequence, UsmContent(f, a, long))
           /\ EncodeV3Message(f, a, long) = Write(long, "message", Tag.Sequence, Body(f, a, long))
  <1>1. EncodeHeaderData(f, long) = Write(long, "header", Tag.Sequence, HeaderContent(f))
    BY DEF EncodeHeaderData, HeaderContent
  <1>2. EncodeUsmParams(f, a, long) = Write(long, "usm", Tag.Sequence, UsmContent(f, a, long))
    BY DEF EncodeUsmParams, UsmContent, UsmFront
  <1>3. EncodeV3Message(f, a, long) = Write(long, "message", Tag.Sequence, Body(f, a, long))
    BY DEF EncodeV3Message, Body, MessageFront, Security, ScopedData
  <1> QED
    BY <1>1, <1>2, <1>3

\* The parts are octets, and none is longer than the message.
LEMMA PartsType ==
    ASSUME NEW f, Encodable(f), NEW a \in Seq(Octets), NEW long
    PROVE  /\ HeaderContent(f) \in Seq(Octets) /\ EncodeHeaderData(f, long) \in Seq(Octets)
           /\ MessageFront(f, long) \in Seq(Octets) /\ UsmFront(f, long) \in Seq(Octets)
           /\ UsmContent(f, a, long) \in Seq(Octets) /\ EncodeUsmParams(f, a, long) \in Seq(Octets)
           /\ Security(f, a, long) \in Seq(Octets) /\ Body(f, a, long) \in Seq(Octets)
           /\ EncodeV3Message(f, a, long) \in Seq(Octets)
  <1>1. Tag.Sequence \in Octets /\ Tag.OctetString \in Octets
    BY TagsAre DEF TagNames
  <1>2. HeaderContent(f) \in Seq(Octets)
    <2> DEFINE x1 == WriteInteger(f.id)
               x2 == WriteInteger(f.maxSize)
               x3 == WriteOctets(f.flags)
               x4 == WriteInteger(f.model)
    <2>1. x1 \in Seq(Octets) /\ x2 \in Seq(Octets) /\ x3 \in Seq(Octets) /\ x4 \in Seq(Octets)
      BY EncodableIs, IntegerType, OctetsType
    <2> HIDE DEF x1, x2, x3, x4
    <2>2. x1 \o x2 \o x3 \o x4 \in Seq(Octets)
      BY <2>1
    <2> QED
      BY <2>2 DEF HeaderContent, x1, x2, x3, x4
  <1>3. EncodeHeaderData(f, long) \in Seq(Octets)
    BY <1>1, <1>2, PartsAre, WriteIs
  <1>4. MessageFront(f, long) \in Seq(Octets)
    <2>1. WriteInteger(f.version) \in Seq(Octets)
      BY EncodableIs, IntegerType
    <2> QED
      BY <1>3, <2>1 DEF MessageFront
  <1>5. UsmFront(f, long) \in Seq(Octets)
    <2> DEFINE x1 == Write(long, "engine", Tag.OctetString, f.engine)
               x2 == WriteInteger(f.boots)
               x3 == WriteInteger(f.time)
               x4 == Write(long, "user", Tag.OctetString, f.user)
    <2>1. x1 \in Seq(Octets) /\ x4 \in Seq(Octets)
      BY <1>1, EncodableIs, WriteIs
    <2>2. x2 \in Seq(Octets) /\ x3 \in Seq(Octets)
      BY EncodableIs, IntegerType
    <2> HIDE DEF x1, x2, x3, x4
    <2>3. x1 \o x2 \o x3 \o x4 \in Seq(Octets)
      BY <2>1, <2>2
    <2> QED
      BY <2>3 DEF UsmFront, x1, x2, x3, x4
  <1>6. UsmContent(f, a, long) \in Seq(Octets)
    <2> DEFINE x1 == UsmFront(f, long)
               x2 == Write(long, "auth", Tag.OctetString, a)
               x3 == WriteOctets(f.salt)
    <2>1. x2 \in Seq(Octets) /\ x3 \in Seq(Octets)
      BY <1>1, EncodableIs, WriteIs, OctetsType
    <2> HIDE DEF x1, x2, x3
    <2>2. x1 \o x2 \o x3 \in Seq(Octets)
      BY <1>5, <2>1 DEF x1
    <2> QED
      BY <2>2 DEF UsmContent, x1, x2, x3
  <1>7. EncodeUsmParams(f, a, long) \in Seq(Octets)
    BY <1>1, <1>6, PartsAre, WriteIs
  <1>8. Security(f, a, long) \in Seq(Octets)
    BY <1>1, <1>7, WriteIs DEF Security
  <1>9. Body(f, a, long) \in Seq(Octets)
    BY <1>4, <1>8, ScopedDataIs DEF Body
  <1>10. EncodeV3Message(f, a, long) \in Seq(Octets)
    BY <1>1, <1>9, PartsAre, WriteIs
  <1> QED
    BY <1>2, <1>3, <1>4, <1>5, <1>6, <1>7, <1>8, <1>9, <1>10

-----------------------------------------------------------------------------
(* Reading a message *)

AuthTags == <<Tag.OctetString, Tag.Integer, Tag.Integer, Tag.OctetString, Tag.OctetString>>
AuthAt(f, a, long, base) ==
    base + Len(UsmFront(f, long)) + Len(Write(long, "auth", Tag.OctetString, a)) - Len(a)

\* The content of the security parameters is read, whole or up to the MAC.
LEMMA UsmReads ==
    ASSUME NEW f, Encodable(f), NEW a \in Seq(Octets), NEW long, NEW base \in Nat,
           Len(UsmContent(f, a, long)) < Room
    PROVE  LET c == UsmContent(f, a, long)
               r == ReadFields(c, base, UsmTags)
               t == ReadFields(c, base, AuthTags)
           IN  /\ r.ok /\ Value(r, 4) = f.user /\ Value(r, 5) = a /\ At(r, 5) = AuthAt(f, a, long, base)
               /\ Value(r, 1) = f.engine /\ Value(r, 2) = f.boots /\ Value(r, 3) = f.time /\ Value(r, 6) = f.salt
               /\ t.ok /\ At(t, 5) = AuthAt(f, a, long, base)
  <1> DEFINE x1 == Raw(long, "engine", Tag.OctetString, f.engine)
             x2 == IntegerAs(f.boots)
             x3 == IntegerAs(f.time)
             x4 == Raw(long, "user", Tag.OctetString, f.user)
             x5 == Raw(long, "auth", Tag.OctetString, a)
             x6 == OctetsAs(f.salt)
             p4 == x1.z \o x2.z \o x3.z \o x4.z
             p5 == p4 \o x5.z
             c == UsmContent(f, a, long)
             none == <<>>
  <1>1. Tag.OctetString \in Octets /\ Tag.OctetString \in RawTags
    BY TagsAre DEF TagNames, RawTags
  <1>2. x1.z \in Seq(Octets) /\ x2.z \in Seq(Octets) /\ x3.z \in Seq(Octets) /\ x4.z \in Seq(Octets)
        /\ x5.z \in Seq(Octets) /\ x6.z \in Seq(Octets)
    <2>1. x1.z \in Seq(Octets) /\ x4.z \in Seq(Octets) /\ x5.z \in Seq(Octets)
      BY <1>1, EncodableIs, WriteIs DEF Raw
    <2>2. x2.z \in Seq(Octets) /\ x3.z \in Seq(Octets)
      BY EncodableIs, IntegerType DEF IntegerAs
    <2>3. x6.z \in Seq(Octets)
      BY EncodableIs, OctetsType, OctetsAre
    <2> QED
      BY <2>1, <2>2, <2>3
  <1>3. UsmFront(f, long) = p4
    BY DEF UsmFront, Raw, IntegerAs
  <1>4. c = p5 \o x6.z
    BY <1>3, EncodableIs, OctetsAre DEF UsmContent, Raw
  <1>5. x1.tag = Tag.OctetString /\ x2.tag = Tag.Integer /\ x3.tag = Tag.Integer /\ x4.tag = Tag.OctetString
        /\ x5.tag = Tag.OctetString /\ x6.tag = Tag.OctetString
    BY DEF Raw, IntegerAs, OctetsAs
  <1>6. /\ x4.value = f.user /\ x5.value = a /\ x5.content = a /\ x5.z = Write(long, "auth", Tag.OctetString, a)
        /\ x1.value = f.engine /\ x2.value = f.boots /\ x3.value = f.time /\ x6.value = f.salt
    BY DEF Raw, IntegerAs, OctetsAs
  <1>7. /\ Len(x1.z) < Room /\ Len(x2.z) < Room /\ Len(x3.z) < Room /\ Len(x4.z) < Room
        /\ Len(x5.z) < Room /\ Len(x6.z) < Room
    <2>1. Len(c) < Room
      OBVIOUS
    <2> HIDE DEF x1, x2, x3, x4, x5, x6, c
    <2>2. Len(c) = Len(x1.z) + Len(x2.z) + Len(x3.z) + Len(x4.z) + Len(x5.z) + Len(x6.z)
      BY <1>2, <1>4
    <2> DEFINE n1 == Len(x1.z)
               n2 == Len(x2.z)
               n3 == Len(x3.z)
               n4 == Len(x4.z)
               n5 == Len(x5.z)
               n6 == Len(x6.z)
    <2>3. n1 \in Nat /\ n2 \in Nat /\ n3 \in Nat /\ n4 \in Nat /\ n5 \in Nat /\ n6 \in Nat
      BY <1>2
    <2>4. n1 + n2 + n3 + n4 + n5 + n6 < Room /\ Room \in Nat
      BY <2>1, <2>2, RoomIs
    <2> HIDE DEF n1, n2, n3, n4, n5, n6
    <2>5. n1 < Room /\ n2 < Room /\ n3 < Room /\ n4 < Room /\ n5 < Room /\ n6 < Room
      BY <2>3, <2>4
    <2> QED
      BY <2>5 DEF n1, n2, n3, n4, n5, n6
  <1>8. Sound(x1) /\ Sound(x2) /\ Sound(x3) /\ Sound(x4) /\ Sound(x5) /\ Sound(x6)
    <2>1. Sound(x1) /\ Sound(x4) /\ Sound(x5)
      BY <1>1, <1>7, EncodableIs, RawSound DEF Raw
    <2>2. Sound(x2) /\ Sound(x3)
      BY <1>7, EncodableIs, IntegerSound DEF IntegerAs
    <2>3. Sound(x6)
      BY <1>1, <1>7, EncodableIs, RawSound DEF Raw, OctetsAs
    <2> QED
      BY <2>1, <2>2, <2>3
  <1>9. /\ Seen(x4, base, x1.z \o x2.z \o x3.z).value = f.user
        /\ Seen(x5, base, p4).value = a /\ Seen(x5, base, p4).at = AuthAt(f, a, long, base)
        /\ Seen(x1, base, <<>>).value = f.engine /\ Seen(x2, base, x1.z).value = f.boots
        /\ Seen(x3, base, x1.z \o x2.z).value = f.time /\ Seen(x6, base, p5).value = f.salt
    BY <1>3, <1>6 DEF Seen, Field, AuthAt
  <1> HIDE DEF x1, x2, x3, x4, x5, x6, c
  <1>10. none \in Seq(Octets) /\ c \o none = c
    BY <1>2, <1>4
  <1> DEFINE s1 == Seen(x1, base, <<>>)
             s2 == Seen(x2, base, x1.z)
             s3 == Seen(x3, base, x1.z \o x2.z)
             s4 == Seen(x4, base, x1.z \o x2.z \o x3.z)
             s5 == Seen(x5, base, p4)
             s6 == Seen(x6, base, p5)
  <1>11. ReadFields(c, base, AuthTags) = Progress(Len(p5), <<s1, s2, s3, s4, s5>>)
    <2>1. Reached((x1.z \o x2.z \o x3.z \o x4.z \o x5.z) \o x6.z, base,
                  <<x1.tag, x2.tag, x3.tag, x4.tag, x5.tag>>, p5, <<s1, s2, s3, s4, s5>>)
      BY <1>2, <1>8, ReadFive
    <2> QED
      BY <1>4, <1>5, <2>1 DEF Reached, AuthTags
  <1>12. ReadFields(c, base, UsmTags) = Progress(Len(c), <<s1, s2, s3, s4, s5, s6>>)
    <2>1. Reached((x1.z \o x2.z \o x3.z \o x4.z \o x5.z \o x6.z) \o none, base,
                  <<x1.tag, x2.tag, x3.tag, x4.tag, x5.tag, x6.tag>>,
                  x1.z \o x2.z \o x3.z \o x4.z \o x5.z \o x6.z, <<s1, s2, s3, s4, s5, s6>>)
      BY <1>10, <1>8, ReadSix
    <2> HIDE DEF none
    <2> QED
      BY <1>4, <1>5, <1>10, <2>1 DEF Reached, UsmTags
  <1> HIDE DEF s1, s2, s3, s4, s5, s6, p4, p5
  <1>13. /\ s4.value = f.user /\ s5.value = a /\ s5.at = AuthAt(f, a, long, base)
         /\ s1.value = f.engine /\ s2.value = f.boots /\ s3.value = f.time /\ s6.value = f.salt
    BY <1>9 DEF s1, s2, s3, s4, s5, s6
  <1> DEFINE r == ReadFields(c, base, UsmTags)
             t == ReadFields(c, base, AuthTags)
  <1>14. t.ok /\ t.fields = <<s1, s2, s3, s4, s5>>
    BY <1>11 DEF Progress
  <1>15. r.ok /\ r.fields = <<s1, s2, s3, s4, s5, s6>>
    BY <1>12 DEF Progress
  <1> HIDE DEF r, t
  <1>16. At(t, 5) = AuthAt(f, a, long, base)
    BY <1>13, <1>14 DEF At
  <1>17. /\ Value(r, 4) = f.user /\ Value(r, 5) = a /\ At(r, 5) = AuthAt(f, a, long, base)
         /\ Value(r, 1) = f.engine /\ Value(r, 2) = f.boots /\ Value(r, 3) = f.time /\ Value(r, 6) = f.salt
    BY <1>13, <1>15 DEF Value, At
  <1> QED
    BY <1>14, <1>15, <1>16, <1>17 DEF c, r, t

\* A TLV on its own.
LEMMA ReadWhole ==
    ASSUME NEW tag \in RawTags, NEW content \in Seq(Octets), NEW long, NEW name, NEW base \in Nat,
           Len(Write(long, name, tag, content)) < Room
    PROVE  LET z == Write(long, name, tag, content)
               r == ReadFields(z, base, <<tag>>)
           IN  /\ r.ok /\ Value(r, 1) = content
               /\ At(r, 1) = base + Len(z) - Len(content) /\ At(r, 1) \in Nat
  <1> DEFINE x == Raw(long, name, tag, content)
             z == x.z
             none == <<>>
             r == ReadFields(z, base, <<tag>>)
             s == Seen(x, base, none)
  <1>1. Sound(x)
    BY RawSound
  <1>2. x.tag = tag /\ z = Write(long, name, tag, content) /\ x.value = content /\ x.content = content
    BY DEF Raw
  <1>3. z \in Seq(Octets) /\ none \in Seq(Octets) /\ z \o none = z /\ Len(none) = 0
    <2>1. z \in Seq(Octets)
      BY <1>1, SoundIs
    <2> HIDE DEF z
    <2> QED
      BY <2>1
  <1>4. Len(content) <= Len(z) /\ Len(content) \in Nat /\ Len(z) \in Nat
    <2>1. tag \in Octets
      BY RawOctets
    <2>2. Len(content) <= Len(z)
      BY <1>2, <2>1, WriteIs
    <2> HIDE DEF z
    <2> QED
      BY <1>3, <2>2
  <1>5. s.value = content /\ s.at = base + Len(none) + Len(z) - Len(content)
    BY <1>2 DEF Seen, Field
  <1> HIDE DEF x
  <1>6. Reached(x.z \o none, base, <<x.tag>>, x.z, <<s>>)
    BY <1>1, <1>3, ReadOne
  <1> HIDE DEF s, none, z
  <1>7. ReadFields(z, base, <<tag>>) = Progress(Len(z), <<s>>)
    <2>1. Reached(z \o none, base, <<tag>>, z, <<s>>)
      BY <1>2, <1>6 DEF z
    <2> QED
      BY <1>3, <2>1 DEF Reached
  <1>8. r.ok /\ r.fields[1] = s
    BY <1>7 DEF Progress
  <1>9. s.at = base + Len(z) - Len(content) /\ s.at \in Nat
    BY <1>3, <1>4, <1>5
  <1> HIDE DEF r
  <1>10. r.ok /\ Value(r, 1) = content /\ At(r, 1) = base + Len(z) - Len(content) /\ At(r, 1) \in Nat
    BY <1>5, <1>8, <1>9 DEF Value, At
  <1> QED
    BY <1>2, <1>10 DEF r

\* A header that RFC 3412 allows is read, and any other refused.
LEMMA HeaderReads ==
    ASSUME NEW f, Encodable(f), Len(HeaderContent(f)) < Room
    PROVE  DecodeHeaderData(HeaderContent(f)) =
               IF f.id < 0 \/ f.maxSize < MinMaxSize \/ Len(f.flags) # 1 THEN Error
               ELSE Ok([id |-> f.id, maxSize |-> f.maxSize, flags |-> f.flags, model |-> f.model])
  <1> DEFINE x1 == IntegerAs(f.id)
             x2 == IntegerAs(f.maxSize)
             x3 == OctetsAs(f.flags)
             x4 == IntegerAs(f.model)
             c == HeaderContent(f)
             none == <<>>
             tags == <<Tag.Integer, Tag.Integer, Tag.OctetString, Tag.Integer>>
  <1>1. Tag.OctetString \in Octets /\ Tag.OctetString \in RawTags
    BY TagsAre DEF TagNames, RawTags
  <1>2. x1.z \in Seq(Octets) /\ x2.z \in Seq(Octets) /\ x3.z \in Seq(Octets) /\ x4.z \in Seq(Octets)
    <2>1. x1.z \in Seq(Octets) /\ x2.z \in Seq(Octets) /\ x4.z \in Seq(Octets)
      BY EncodableIs, IntegerType DEF IntegerAs
    <2>2. x3.z \in Seq(Octets)
      BY EncodableIs, OctetsType, OctetsAre
    <2> QED
      BY <2>1, <2>2
  <1>3. c = x1.z \o x2.z \o x3.z \o x4.z
    BY EncodableIs, OctetsAre DEF HeaderContent, IntegerAs
  <1>4. x1.tag = Tag.Integer /\ x2.tag = Tag.Integer /\ x3.tag = Tag.OctetString /\ x4.tag = Tag.Integer
        /\ x1.value = f.id /\ x2.value = f.maxSize /\ x3.value = f.flags /\ x4.value = f.model
    BY DEF Raw, IntegerAs, OctetsAs
  <1>5. Len(x1.z) < Room /\ Len(x2.z) < Room /\ Len(x3.z) < Room /\ Len(x4.z) < Room
    <2>1. Len(c) < Room
      OBVIOUS
    <2> HIDE DEF x1, x2, x3, x4, c
    <2> DEFINE n1 == Len(x1.z)
               n2 == Len(x2.z)
               n3 == Len(x3.z)
               n4 == Len(x4.z)
    <2>2. Len(c) = n1 + n2 + n3 + n4
      BY <1>2, <1>3
    <2>3. n1 \in Nat /\ n2 \in Nat /\ n3 \in Nat /\ n4 \in Nat
      BY <1>2
    <2> HIDE DEF n1, n2, n3, n4
    <2>4. n1 + n2 + n3 + n4 < Room /\ Room \in Nat
      BY <2>1, <2>2, RoomIs
    <2>5. n1 < Room /\ n2 < Room /\ n3 < Room /\ n4 < Room
      BY <2>3, <2>4
    <2> QED
      BY <2>5 DEF n1, n2, n3, n4
  <1>6. Sound(x1) /\ Sound(x2) /\ Sound(x3) /\ Sound(x4)
    <2>1. Sound(x1) /\ Sound(x2) /\ Sound(x4)
      BY <1>5, EncodableIs, IntegerSound DEF IntegerAs
    <2>2. Sound(x3)
      BY <1>1, <1>5, EncodableIs, RawSound DEF Raw, OctetsAs
    <2> QED
      BY <2>1, <2>2
  <1> DEFINE s1 == Seen(x1, 0, <<>>)
             s2 == Seen(x2, 0, x1.z)
             s3 == Seen(x3, 0, x1.z \o x2.z)
             s4 == Seen(x4, 0, x1.z \o x2.z \o x3.z)
             r == ReadFields(c, 0, tags)
  <1>7. s1.value = f.id /\ s2.value = f.maxSize /\ s3.value = f.flags /\ s4.value = f.model
    BY <1>4 DEF Seen, Field
  <1> HIDE DEF x1, x2, x3, x4, c
  <1>8. none \in Seq(Octets) /\ c \o none = c /\ 0 \in Nat
    BY <1>2, <1>3
  <1>9. r = Progress(Len(c), <<s1, s2, s3, s4>>)
    <2>1. Reached((x1.z \o x2.z \o x3.z \o x4.z) \o none, 0, <<x1.tag, x2.tag, x3.tag, x4.tag>>,
                  x1.z \o x2.z \o x3.z \o x4.z, <<s1, s2, s3, s4>>)
      BY <1>6, <1>8, ReadFour
    <2> HIDE DEF none
    <2> QED
      BY <1>3, <1>4, <1>8, <2>1 DEF Reached
  <1> HIDE DEF s1, s2, s3, s4
  <1>10. r.ok /\ Value(r, 1) = f.id /\ Value(r, 2) = f.maxSize /\ Value(r, 3) = f.flags /\ Value(r, 4) = f.model
    <2>1. r.ok /\ r.fields = <<s1, s2, s3, s4>>
      BY <1>9 DEF Progress
    <2> HIDE DEF r
    <2> QED
      BY <1>7, <2>1 DEF Value
  <1>11. DecodeHeaderData(c) =
             IF r.ok THEN IF Value(r, 1) < 0 \/ Value(r, 2) < MinMaxSize \/ Len(Value(r, 3)) # 1 THEN Error
                          ELSE Ok([id |-> Value(r, 1), maxSize |-> Value(r, 2), flags |-> Value(r, 3),
                                   model |-> Value(r, 4)])
             ELSE Error
    BY DEF DecodeHeaderData, Try
  <1> HIDE DEF r
  <1> QED
    BY <1>10, <1>11 DEF c

BodyAt(f, a, long) == Len(EncodeV3Message(f, a, long)) - Len(Body(f, a, long))
SecurityAt(f, a, long) ==
    BodyAt(f, a, long) + Len(MessageFront(f, long)) + Len(Security(f, a, long)) - Len(EncodeUsmParams(f, a, long))
UsmAt(f, a, long) ==
    SecurityAt(f, a, long) + Len(EncodeUsmParams(f, a, long)) - Len(UsmContent(f, a, long))

\* A message is taken apart into its parts.
LEMMA MessageReads ==
    ASSUME NEW f, Encodable(f), NEW a \in Seq(Octets), NEW long, Len(EncodeV3Message(f, a, long)) < Room
    PROVE  LET message == ReadFields(EncodeV3Message(f, a, long), 0, <<Tag.Sequence>>)
               top == ReadFields(Body(f, a, long), BodyAt(f, a, long), SecurityTags)
               outer == ReadFields(EncodeUsmParams(f, a, long), SecurityAt(f, a, long), <<Tag.Sequence>>)
           IN  /\ message.ok /\ Value(message, 1) = Body(f, a, long) /\ At(message, 1) = BodyAt(f, a, long)
               /\ top.ok /\ Value(top, 1) = f.version /\ Value(top, 2) = HeaderContent(f)
               /\ Value(top, 3) = EncodeUsmParams(f, a, long) /\ At(top, 3) = SecurityAt(f, a, long)
               /\ Rest(Body(f, a, long), top) = ScopedData(f, long)
               /\ outer.ok /\ Value(outer, 1) = UsmContent(f, a, long) /\ At(outer, 1) = UsmAt(f, a, long)
               /\ UsmAt(f, a, long) \in Nat
               /\ Len(UsmContent(f, a, long)) < Room /\ Len(HeaderContent(f)) < Room /\ Len(ScopedData(f, long)) < Room
  <1> DEFINE w == EncodeV3Message(f, a, long)
             b == Body(f, a, long)
             h == EncodeHeaderData(f, long)
             sec == Security(f, a, long)
             u == EncodeUsmParams(f, a, long)
             c == UsmContent(f, a, long)
             d == ScopedData(f, long)
             x1 == IntegerAs(f.version)
             x2 == Raw(long, "header", Tag.Sequence, HeaderContent(f))
             x3 == Raw(long, "security", Tag.OctetString, u)
             fr == MessageFront(f, long)
  <1>1. /\ Tag.Sequence \in RawTags /\ Tag.OctetString \in RawTags
        /\ Tag.Sequence \in Octets /\ Tag.OctetString \in Octets
    BY TagsAre DEF TagNames, RawTags
  <1>2. /\ HeaderContent(f) \in Seq(Octets) /\ h \in Seq(Octets) /\ fr \in Seq(Octets)
        /\ c \in Seq(Octets) /\ u \in Seq(Octets) /\ sec \in Seq(Octets) /\ b \in Seq(Octets) /\ w \in Seq(Octets)
    BY PartsType
  <1>3. d \in Seq(Octets)
    BY ScopedDataIs
  <1>4. /\ h = Write(long, "header", Tag.Sequence, HeaderContent(f)) /\ u = Write(long, "usm", Tag.Sequence, c)
        /\ w = Write(long, "message", Tag.Sequence, b) /\ sec = Write(long, "security", Tag.OctetString, u)
    BY PartsAre DEF Security
  <1>5. x1.z = WriteInteger(f.version) /\ x2.z = h /\ x3.z = sec /\ fr = x1.z \o x2.z /\ b = (fr \o sec) \o d
    BY <1>4 DEF IntegerAs, Raw, MessageFront, Body
  <1>6. x1.z \in Seq(Octets)
    BY <1>5, EncodableIs, IntegerType
  <1>7. Len(b) <= Len(w) /\ Len(u) <= Len(sec) /\ Len(c) <= Len(u) /\ Len(HeaderContent(f)) <= Len(h)
    <2> HIDE DEF w, b, h, sec, u, c
    <2>1. Len(b) <= Len(w)
      BY <1>1, <1>2, <1>4, WriteIs
    <2>2. Len(u) <= Len(sec)
      BY <1>1, <1>2, <1>4, WriteIs
    <2>3. Len(c) <= Len(u)
      BY <1>1, <1>2, <1>4, WriteIs
    <2>4. Len(HeaderContent(f)) <= Len(h)
      BY <1>1, <1>2, <1>4, WriteIs
    <2> QED
      BY <2>1, <2>2, <2>3, <2>4
  <1>8. /\ Len(w) < Room /\ Len(sec) < Room /\ Len(u) < Room /\ Len(c) < Room /\ Len(d) < Room
        /\ Len(h) < Room /\ Len(HeaderContent(f)) < Room /\ Len(x1.z) < Room
    <2>1. Len(w) < Room
      OBVIOUS
    <2>2. Len(fr) = Len(x1.z) + Len(h)
      <3> HIDE DEF x1, x2, h, fr
      <3> QED
        BY <1>2, <1>5, <1>6
    <2>3. Len(b) = Len(fr) + Len(sec) + Len(d)
      <3> HIDE DEF b, fr, sec, d
      <3> QED
        BY <1>2, <1>3, <1>5
    <2> DEFINE nw == Len(w)
               nb == Len(b)
               ns == Len(sec)
               nu == Len(u)
               nc == Len(c)
               nd == Len(d)
               nh == Len(h)
               nk == Len(HeaderContent(f))
               nv == Len(x1.z)
               nf == Len(fr)
    <2>4. nw \in Nat /\ nb \in Nat /\ ns \in Nat /\ nu \in Nat /\ nc \in Nat /\ nd \in Nat /\ nh \in Nat /\ nk \in Nat
          /\ nv \in Nat /\ nf \in Nat
      BY <1>2, <1>3, <1>6
    <2>5. nw < Room /\ nb <= nw /\ nu <= ns /\ nc <= nu /\ nk <= nh /\ nf = nv + nh /\ nb = nf + ns + nd
      BY <1>7, <2>1, <2>2, <2>3
    <2> HIDE DEF nw, nb, ns, nu, nc, nd, nh, nk, nv, nf
    <2>6. nw < Room /\ ns < Room /\ nu < Room /\ nc < Room /\ nd < Room /\ nh < Room /\ nk < Room /\ nv < Room
      BY <2>4, <2>5, RoomIs
    <2> QED
      BY <2>6 DEF nw, nb, ns, nu, nc, nd, nh, nk, nv
  <1>9. Sound(x1) /\ Sound(x2) /\ Sound(x3)
    <2>1. Sound(x1)
      BY <1>5, <1>8, EncodableIs, IntegerSound
    <2>2. Sound(x2)
      BY <1>1, <1>2, <1>4, <1>8, RawSound
    <2>3. Sound(x3)
      BY <1>1, <1>2, <1>4, <1>8, RawSound
    <2> QED
      BY <2>1, <2>2, <2>3
  <1>10. LET message == ReadFields(w, 0, <<Tag.Sequence>>)
         IN  /\ message.ok /\ Value(message, 1) = b /\ At(message, 1) = Len(w) - Len(b)
             /\ Len(w) - Len(b) \in Nat
    <2> HIDE DEF w, b
    <2> DEFINE tag == Tag.Sequence
               z == Write(long, "message", tag, b)
               zero == 0
               r == ReadFields(z, zero, <<tag>>)
    <2>1. tag \in RawTags /\ w = z
      BY <1>1, <1>4
    <2>2. Len(z) < Room /\ zero \in Nat
      BY <1>8, <2>1
    <2> HIDE DEF tag, zero
    <2>3. b \in Seq(Octets) /\ tag \in RawTags
      BY <1>2, <2>1
    <2>4. r.ok /\ Value(r, 1) = b /\ At(r, 1) = zero + Len(z) - Len(b) /\ At(r, 1) \in Nat
      BY <2>2, <2>3, ReadWhole
    <2>5. Len(w) \in Nat /\ Len(b) \in Nat
      BY <1>2
    <2> HIDE DEF z, r
    <2>6. zero + Len(z) - Len(b) = Len(w) - Len(b)
      BY <2>1, <2>5 DEF zero
    <2>7. r.ok /\ Value(r, 1) = b /\ At(r, 1) = Len(w) - Len(b) /\ Len(w) - Len(b) \in Nat
      BY <2>4, <2>6
    <2> QED
      BY <2>1, <2>7 DEF r, tag, zero
  <1> DEFINE base == BodyAt(f, a, long)
  <1>11. base = Len(w) - Len(b) /\ base \in Nat
    BY <1>10 DEF BodyAt
  <1>12. LET top == ReadFields(b, base, SecurityTags)
         IN  /\ top.ok /\ Value(top, 1) = f.version /\ Value(top, 2) = HeaderContent(f)
             /\ Value(top, 3) = u /\ At(top, 3) = base + Len(fr) + Len(sec) - Len(u)
             /\ Rest(b, top) = d
    <2> DEFINE s1 == Seen(x1, base, <<>>)
               s2 == Seen(x2, base, x1.z)
               s3 == Seen(x3, base, x1.z \o x2.z)
               p == fr \o sec
               top == ReadFields(b, base, SecurityTags)
    <2>1. x1.tag = Tag.Integer /\ x2.tag = Tag.Sequence /\ x3.tag = Tag.OctetString
      BY DEF IntegerAs, Raw
    <2>2. s1.value = f.version /\ s2.value = HeaderContent(f) /\ s3.value = u
          /\ s3.at = base + Len(fr) + Len(sec) - Len(u)
      BY <1>5 DEF IntegerAs, Raw, Seen, Field
    <2> HIDE DEF x1, x2, x3, base, d, fr, sec, b
    <2>3. Reached((x1.z \o x2.z \o x3.z) \o d, base, <<x1.tag, x2.tag, x3.tag>>, x1.z \o x2.z \o x3.z, <<s1, s2, s3>>)
      BY <1>3, <1>9, <1>11, ReadThree
    <2>4. b = p \o d /\ x1.z \o x2.z \o x3.z = p
      BY <1>5
    <2> HIDE DEF s1, s2, s3, p
    <2>5. top = Progress(Len(p), <<s1, s2, s3>>)
      BY <2>1, <2>3, <2>4 DEF Reached, SecurityTags
    <2>6. top.ok /\ top.fields = <<s1, s2, s3>> /\ top.position = Len(p)
      BY <2>5 DEF Progress
    <2>7. p \in Seq(Octets)
      BY <1>2 DEF p
    <2>8. Rest(b, top) = d
      BY <1>3, <2>4, <2>6, <2>7, Ending DEF Rest
    <2> HIDE DEF top
    <2>9. top.ok /\ Value(top, 1) = f.version /\ Value(top, 2) = HeaderContent(f)
          /\ Value(top, 3) = u /\ At(top, 3) = base + Len(fr) + Len(sec) - Len(u)
      BY <2>2, <2>6 DEF Value, At
    <2> QED
      BY <2>8, <2>9 DEF top
  <1> DEFINE at == SecurityAt(f, a, long)
  <1>13. at = base + Len(fr) + Len(sec) - Len(u) /\ at \in Nat
    <2>1. at = base + Len(fr) + Len(sec) - Len(u)
      BY DEF SecurityAt
    <2> HIDE DEF at, base, fr, sec, u
    <2>2. Len(fr) \in Nat /\ Len(sec) \in Nat /\ Len(u) \in Nat /\ Len(u) <= Len(sec)
      BY <1>2, <1>7
    <2> QED
      BY <1>11, <2>1, <2>2
  <1>14. LET outer == ReadFields(u, at, <<Tag.Sequence>>)
         IN  /\ outer.ok /\ Value(outer, 1) = c /\ At(outer, 1) = at + Len(u) - Len(c)
             /\ at + Len(u) - Len(c) \in Nat
    <2> HIDE DEF u, c, at
    <2> DEFINE tag == Tag.Sequence
               z == Write(long, "usm", tag, c)
               r == ReadFields(z, at, <<tag>>)
    <2>1. tag \in RawTags /\ u = z
      BY <1>1, <1>4
    <2> HIDE DEF tag
    <2>2. Len(z) < Room
      BY <1>8, <2>1
    <2>3. r.ok /\ Value(r, 1) = c /\ At(r, 1) = at + Len(z) - Len(c) /\ At(r, 1) \in Nat
      BY <1>2, <1>13, <2>1, <2>2, ReadWhole
    <2> QED
      BY <2>1, <2>3 DEF tag
  <1>15. UsmAt(f, a, long) = at + Len(u) - Len(c)
    BY DEF UsmAt
  <1> QED
    BY <1>8, <1>10, <1>11, <1>12, <1>13, <1>14, <1>15

-----------------------------------------------------------------------------
(* Where the MAC is found *)

Offset(f, a, long) == AuthAt(f, a, long, UsmAt(f, a, long))

\* FindAuthParamsOffset without its Try.
LEMMA FindIs ==
    ASSUME NEW w
    PROVE  LET message == ReadFields(w, 0, <<Tag.Sequence>>)
               top == ReadFields(Value(message, 1), At(message, 1), SecurityTags)
               usm == ReadFields(Value(top, 3), At(top, 3), <<Tag.Sequence>>)
               r == ReadFields(Value(usm, 1), At(usm, 1), AuthTags)
           IN  message.ok /\ top.ok /\ usm.ok /\ r.ok => FindAuthParamsOffset(w) = At(r, 5)
  <1> DEFINE message == ReadFields(w, 0, <<Tag.Sequence>>)
             top == ReadFields(Value(message, 1), At(message, 1), SecurityTags)
             usm == ReadFields(Value(top, 3), At(top, 3), <<Tag.Sequence>>)
             r == ReadFields(Value(usm, 1), At(usm, 1), AuthTags)
             good == Ok(At(r, 5))
  <1>1. FindAuthParamsOffset(w) =
            (IF message.ok
             THEN IF top.ok THEN IF usm.ok THEN IF r.ok THEN good ELSE Error ELSE Error ELSE Error
             ELSE Error).value
    BY DEF FindAuthParamsOffset, Try, SecurityTags, AuthTags
  <1>2. good.value = At(r, 5)
    BY DEF Ok
  <1> HIDE DEF good, message, top, usm, r
  <1>3. message.ok /\ top.ok /\ usm.ok /\ r.ok => FindAuthParamsOffset(w) = At(r, 5)
    BY <1>1, <1>2
  <1> QED
    BY <1>3 DEF message, top, usm, r

-----------------------------------------------------------------------------
(* Reading values *)

\* decode_unsigned reads what encode_unsigned_bytes writes.
LEMMA UnsignedReadsBack ==
    ASSUME NEW width \in Nat \ {0}, NEW v \in 0..(Power(Base, width) - 1)
    PROVE  DecodeUnsigned(EncodeUnsigned(v, width), width) = Ok(v)
  <1> DEFINE z == EncodeUnsigned(v, width)
             room == Power(Base, width)
  <1>1. room \in Nat
    BY WordsAre, Powers
  <1>2. v \in Nat /\ v < room /\ v \in 0..(room - 1)
    <2> HIDE DEF room
    <2>1. v \in 0..(room - 1)
      BY DEF room
    <2> QED
      BY <1>1, <2>1
  <1>3. z \in Seq(Octets) /\ z # <<>> /\ TwosComplement(z) = v
    BY <1>2, UnsignedMeans, EncodeUnsignedType
  <1> HIDE DEF z
  <1>4. DecodeUnsigned(z, width) = Ok(v)
    BY <1>2, <1>3, DecodeUnsignedExact
  <1> QED
    BY <1>4 DEF z

\* A value of any type is read back.
LEMMA ContentReads ==
    ASSUME NEW tag, NEW data, ValidData(tag, data)
    PROVE  DecodeContent(tag, EncodeContent(tag, data)) = Ok(data)
  <1>1. CASE tag = Tag.Integer
    <2>1. data \in I32s /\ EncodeContent(tag, data) = EncodeSigned(data)
      BY <1>1, TagKinds DEF ValidData, EncodeContent
    <2>2. DecodeContent(tag, EncodeContent(tag, data)) = DecodeSigned(EncodeSigned(data))
      BY <1>1, <2>1, TagKinds DEF DecodeContent
    <2> QED
      BY <2>1, <2>2, IntegerType
  <1>2. CASE tag = Tag.Oid /\ tag # Tag.Integer
    <2>1. ValidOid(data) /\ EncodeContent(tag, data) = EncodeOid(data)
      BY <1>2, TagKinds DEF ValidData, EncodeContent
    <2>2. DecodeContent(tag, EncodeContent(tag, data)) = DecodeOid(EncodeOid(data))
      BY <1>2, <2>1, TagKinds DEF DecodeContent
    <2> QED
      BY <2>1, <2>2, OidReadsBack
  <1>3. CASE tag \in Unsigned32s /\ tag # Tag.Integer /\ tag # Tag.Oid
    <2>1. data \in 0..(Word - 1) /\ EncodeContent(tag, data) = EncodeUnsigned(data, WordOctets)
      BY <1>3, TagKinds DEF ValidData, EncodeContent
    <2>2. DecodeContent(tag, EncodeContent(tag, data)) = DecodeUnsigned(EncodeUnsigned(data, WordOctets), WordOctets)
      BY <1>3, <2>1, TagKinds DEF DecodeContent
    <2>3. WordOctets \in Nat \ {0} /\ Word = Power(Base, WordOctets)
      BY WordsAre DEF Word
    <2> QED
      BY <2>1, <2>2, <2>3, UnsignedReadsBack
  <1>4. CASE tag = Tag.Counter64 /\ tag \notin Unsigned32s /\ tag # Tag.Integer /\ tag # Tag.Oid
    <2>1. data \in 0..(Double - 1) /\ EncodeContent(tag, data) = EncodeUnsigned(data, DoubleOctets)
      BY <1>4, TagKinds DEF ValidData, EncodeContent
    <2>2. DecodeContent(tag, EncodeContent(tag, data)) = DecodeUnsigned(EncodeUnsigned(data, DoubleOctets), DoubleOctets)
      BY <1>4, <2>1, TagKinds DEF DecodeContent
    <2>3. DoubleOctets \in Nat \ {0} /\ Double = Power(Base, DoubleOctets)
      BY WordsAre DEF Double
    <2> QED
      BY <2>1, <2>2, <2>3, UnsignedReadsBack
  <1>5. CASE /\ tag \in Exceptions \cup {Tag.Null}
             /\ tag # Tag.Counter64 /\ tag \notin Unsigned32s /\ tag # Tag.Integer /\ tag # Tag.Oid
    <2>1. EncodeContent(tag, data) = <<>>
      BY <1>5 DEF EncodeContent
    <2>2. data = <<>>
      BY <1>5, TagKinds DEF ValidData
    <2>3. DecodeContent(tag, data) = IF data = <<>> THEN Ok(<<>>) ELSE Error
      BY <1>5, TagKinds DEF DecodeContent
    <2> QED
      BY <2>1, <2>2, <2>3
  <1>6. CASE /\ tag \notin Exceptions \cup {Tag.Null}
             /\ tag # Tag.Counter64 /\ tag \notin Unsigned32s /\ tag # Tag.Integer /\ tag # Tag.Oid
    <2>1. EncodeContent(tag, data) = data
      BY <1>6 DEF EncodeContent
    <2>2. tag = Tag.IpAddress => Len(data) = 4
      BY <1>6 DEF ValidData
    <2> QED
      BY <1>6, <2>1, <2>2 DEF DecodeContent
  <1> QED
    BY <1>1, <1>2, <1>3, <1>4, <1>5, <1>6

\* The parts of what fits fit.
LEMMA PartsFit ==
    ASSUME NEW a \in Seq(Octets), NEW b \in Seq(Octets), Len(a \o b) < Room
    PROVE  Len(a) < Room /\ Len(b) < Room
  <1> DEFINE m == Len(a)
             n == Len(b)
  <1>1. m \in Nat /\ n \in Nat /\ m + n < Room
    OBVIOUS
  <1> HIDE DEF m, n
  <1>2. m < Room /\ n < Room
    BY <1>1, RoomIs
  <1> QED
    BY <1>2 DEF m, n

\* The TLV x is read from s, at offset `base' of the message, and q is left.
FirstRead(s, x, q, base) ==
    LET r == ReadFields(s, base, <<x.tag>>)
    IN  /\ r.ok /\ Value(r, 1) = x.value /\ At(r, 1) = base + Len(x.z) - Len(x.content) /\ Rest(s, r) = q
        /\ s # <<>> /\ s[1] = x.tag /\ Head(s) = x.tag /\ s \in Seq(Octets)
        /\ \A tags : ReadOneOf(s, tags) = IF x.tag \in tags THEN ReadFields(s, 0, <<x.tag>>) ELSE Error

\* So is a TLV in front of others.
LEMMA ReadsFirst ==
    ASSUME NEW x, Sound(x), NEW q \in Seq(Octets), NEW base \in Nat
    PROVE  FirstRead(x.z \o q, x, q, base)
  <1> DEFINE z == x.z
             s == z \o q
             r == ReadFields(s, base, <<x.tag>>)
             seen == Seen(x, base, <<>>)
  <1>1. z \in Seq(Octets) /\ x.tag \in Octets /\ x.content \in Seq(Octets) /\ Len(z) >= 1 /\ z[1] = x.tag
    BY DEF Sound, IsField, IsTlv
  <1>2. Reached(s, base, <<x.tag>>, z, <<seen>>)
    BY ReadOne
  <1>3. r = Progress(Len(z), <<seen>>)
    BY <1>2 DEF Reached
  <1>4. seen.value = x.value /\ seen.at = base + Len(z) - Len(x.content)
    <2>1. Len(<<>>) = 0 /\ Len(z) \in Nat /\ Len(x.content) \in Nat
      BY <1>1
    <2>2. seen.value = x.value /\ seen.at = base + Len(<<>>) + Len(z) - Len(x.content)
      BY DEF Seen, Field
    <2> HIDE DEF seen, z
    <2> QED
      BY <2>1, <2>2
  <1> HIDE DEF seen, z
  <1>5. r.ok /\ r.position = Len(z) /\ r.fields[1] = seen
    BY <1>3 DEF Progress
  <1>6. s \in Seq(Octets) /\ s # <<>> /\ s[1] = x.tag /\ Head(s) = x.tag
    BY <1>1
  <1>7. From(s, Len(z) + 1) = q
    BY <1>1, Ending
  <1> HIDE DEF s
  <1>8. \A tags : ReadOneOf(s, tags) = IF x.tag \in tags THEN ReadFields(s, 0, <<x.tag>>) ELSE Error
    BY <1>6 DEF ReadOneOf
  <1> HIDE DEF r
  <1>9. Value(r, 1) = x.value /\ At(r, 1) = base + Len(z) - Len(x.content) /\ Rest(s, r) = q
    BY <1>4, <1>5, <1>7 DEF Value, At, Rest
  <1> QED
    BY <1>5, <1>6, <1>8, <1>9 DEF FirstRead, r, s, z

\* And a TLV on its own.
LEMMA ReadsAlone ==
    ASSUME NEW x, Sound(x), NEW base \in Nat
    PROVE  FirstRead(x.z, x, <<>>, base)
  <1> DEFINE none == <<>>
  <1>1. x.z \in Seq(Octets)
    BY SoundIs
  <1>2. none \in Seq(Octets) /\ x.z \o none = x.z
    BY <1>1
  <1> HIDE DEF none
  <1>3. FirstRead(x.z \o none, x, none, base)
    BY <1>2, ReadsFirst
  <1> QED
    BY <1>2, <1>3 DEF none

-----------------------------------------------------------------------------
(* Reading varbinds *)

\* A value as it is written.
ValueAs(tag, data) ==
    [z |-> WriteTlv(tag, EncodeContent(tag, data)), tag |-> tag, content |-> EncodeContent(tag, data), value |-> data]

\* It is a TLV with the value as value.
LEMMA ValueSound ==
    ASSUME NEW tag \in Octets, NEW data, ValidData(tag, data), Len(WriteTlv(tag, EncodeContent(tag, data))) < Room
    PROVE  Sound(ValueAs(tag, data))
  <1> DEFINE c == EncodeContent(tag, data)
             z == WriteTlv(tag, c)
  <1>1. c \in Seq(Octets) /\ DecodeContent(tag, c) = Ok(data)
    BY ContentType, ContentReads
  <1>2. Len(z) < Room
    OBVIOUS
  <1>3. ValueAs(tag, data) = [z |-> z, tag |-> tag, content |-> c, value |-> data]
    BY DEF ValueAs
  <1> HIDE DEF c
  <1>4. z \in Seq(Octets) /\ Len(c) <= Len(z)
    BY <1>1, TlvType
  <1>5. Len(c) < Room
    <2>1. Len(c) \in Nat /\ Len(z) \in Nat
      BY <1>1, <1>4
    <2> HIDE DEF z
    <2> QED
      BY <1>2, <1>4, <2>1, RoomIs
  <1>6. z = Write({}, "value", tag, c)
    BY DEF Write
  <1>7. IsTlv(z, tag, c)
    BY <1>1, <1>5, <1>6, WriteReads
  <1> HIDE DEF z
  <1>8. Sound([z |-> z, tag |-> tag, content |-> c, value |-> data])
    BY <1>1, <1>7 DEF Sound, IsField
  <1> QED
    BY <1>3, <1>8

VarbindContent(vb) == WriteTlv(Tag.Oid, EncodeOid(vb.oid)) \o WriteTlv(vb.tag, EncodeContent(vb.tag, vb.data))

ValidVarbind(vb) ==
    /\ vb = [oid |-> vb.oid, tag |-> vb.tag, data |-> vb.data]
    /\ vb.tag \in Octets /\ ValidOid(vb.oid) /\ ValidData(vb.tag, vb.data)

\* An OID is written as a value is.
LEMMA OidAs ==
    ASSUME NEW o, ValidOid(o)
    PROVE  Tag.Oid \in Octets /\ ValidData(Tag.Oid, o) /\ EncodeContent(Tag.Oid, o) = EncodeOid(o)
  <1>1. Tag.Oid \in Octets
    BY TagsAre DEF TagNames
  <1>2. ValidData(Tag.Oid, o)
    BY TagKinds DEF ValidData
  <1>3. EncodeContent(Tag.Oid, o) = EncodeOid(o)
    BY TagKinds DEF EncodeContent
  <1> QED
    BY <1>1, <1>2, <1>3

\* A varbind is read back if its value has a type of SNMP, and refused otherwise.
LEMMA VarbindReads ==
    ASSUME NEW vb, ValidVarbind(vb), Len(VarbindContent(vb)) < Room
    PROVE  DecodeVarbind(VarbindContent(vb)) = IF vb.tag \in ValueTags THEN Ok(vb) ELSE Error
  <1> DEFINE x == ValueAs(Tag.Oid, vb.oid)
             y == ValueAs(vb.tag, vb.data)
             s == VarbindContent(vb)
             tag == vb.tag
  <1>1. /\ vb = [oid |-> vb.oid, tag |-> vb.tag, data |-> vb.data]
        /\ vb.tag \in Octets /\ ValidOid(vb.oid) /\ ValidData(vb.tag, vb.data)
    BY DEF ValidVarbind
  <1>2. Tag.Oid \in Octets /\ ValidData(Tag.Oid, vb.oid) /\ EncodeContent(Tag.Oid, vb.oid) = EncodeOid(vb.oid)
    BY <1>1, OidAs
  <1>3. x.z \in Seq(Octets) /\ y.z \in Seq(Octets)
    BY <1>1, <1>2, ContentType, TlvType DEF ValueAs
  <1>4. s = x.z \o y.z
    BY <1>2 DEF VarbindContent, ValueAs
  <1>5. Len(x.z) < Room /\ Len(y.z) < Room
    <2>1. Len(s) < Room
      OBVIOUS
    <2> HIDE DEF s, x, y
    <2> QED
      BY <1>3, <1>4, <2>1, PartsFit
  <1>6. Sound(x) /\ Sound(y)
    <2>1. x.z = WriteTlv(Tag.Oid, EncodeContent(Tag.Oid, vb.oid)) /\ y.z = WriteTlv(vb.tag, EncodeContent(vb.tag, vb.data))
      BY DEF ValueAs
    <2> QED
      BY <1>1, <1>2, <1>5, <2>1, ValueSound
  <1>7. x.tag = Tag.Oid /\ y.tag = tag /\ x.value = vb.oid /\ y.value = vb.data
    BY DEF ValueAs
  <1> DEFINE name == ReadFields(s, 0, <<Tag.Oid>>)
             rest == y.z
             value == ReadFields(rest, 0, <<tag>>)
  <1> HIDE DEF x, y, s, tag
  <1>8. name.ok /\ Value(name, 1) = vb.oid /\ Rest(s, name) = rest
    <2>1. FirstRead(x.z \o y.z, x, y.z, 0)
      BY <1>3, <1>6, ReadsFirst
    <2>2. FirstRead(s, x, y.z, 0)
      BY <1>4, <2>1
    <2> QED
      BY <1>7, <2>2 DEF FirstRead
  <1>9. /\ value.ok /\ Value(value, 1) = vb.data /\ Rest(rest, value) = <<>> /\ Head(rest) = tag
        /\ ReadOneOf(rest, ValueTags) = IF tag \in ValueTags THEN value ELSE Error
    <2>1. FirstRead(y.z, y, <<>>, 0)
      BY <1>6, ReadsAlone
    <2> QED
      BY <1>7, <2>1 DEF FirstRead
  <1> DEFINE one == ReadOneOf(rest, ValueTags)
             good == [oid |-> Value(name, 1), tag |-> Head(rest), data |-> Value(one, 1)]
  <1>10. DecodeVarbind(s) =
             IF name.ok
             THEN IF ReadOneOf(Rest(s, name), ValueTags).ok
                  THEN IF Rest(Rest(s, name), ReadOneOf(Rest(s, name), ValueTags)) # <<>> THEN Error
                       ELSE Ok([oid |-> Value(name, 1), tag |-> Head(Rest(s, name)),
                                data |-> Value(ReadOneOf(Rest(s, name), ValueTags), 1)])
                  ELSE Error
             ELSE Error
    BY DEF DecodeVarbind, Try
  <1> HIDE DEF name, rest
  <1>11. DecodeVarbind(s) = IF one.ok THEN IF Rest(rest, one) # <<>> THEN Error ELSE Ok(good) ELSE Error
    BY <1>8, <1>10
  <1> HIDE DEF value
  <1>12. CASE tag \in ValueTags
    <2>1. one = value
      BY <1>9, <1>12
    <2>2. good = [oid |-> vb.oid, tag |-> tag, data |-> vb.data]
      BY <1>8, <1>9, <2>1
    <2>3. good = vb
      BY <1>1, <2>2 DEF tag
    <2> HIDE DEF good, one
    <2>4. DecodeVarbind(s) = Ok(vb)
      BY <1>9, <1>11, <2>1, <2>3
    <2> QED
      BY <1>12, <2>4 DEF s, tag
  <1>13. CASE tag \notin ValueTags
    <2>1. ~one.ok
      BY <1>9, <1>13 DEF Error
    <2> HIDE DEF good, one
    <2>2. DecodeVarbind(s) = Error
      BY <1>11, <2>1
    <2> QED
      BY <1>13, <2>2 DEF s, tag
  <1> QED
    BY <1>12, <1>13

-----------------------------------------------------------------------------
(* Reading lists of varbinds *)

\* One SEQUENCE more, or nothing is left.
NextElement(s, r) ==
    IF r.ok THEN IF r.position = Len(s) THEN r ELSE ReadField(s, 0, r, Tag.Sequence) ELSE Error
Loops(f, s) == f[0] = Progress(0, <<>>) /\ \A n \in 1..Len(s) : f[n] = NextElement(s, f[n - 1])
EndedAt(f, s, n) == f[n].ok => f[n].position = Len(s)

\* What the recursive function in Elements computes.
LEMMA ElementsIs ==
    ASSUME NEW s, Len(s) \in Nat
    PROVE  \E f : Loops(f, s) /\ Elements(s) = f[CHOOSE n \in 0..Len(s) : EndedAt(f, s, n)]
  <1> DEFINE L == Len(s)
             Def(f) == f = [n \in 0..L |-> IF n = 0 THEN Progress(0, <<>>) ELSE NextElement(s, f[n - 1])]
             read == CHOOSE f : Def(f)
             Good(f, n) == f[0] = Progress(0, <<>>) /\ \A m \in 1..n : f[m] = NextElement(s, f[m - 1])
             S == {n \in 0..L : \E f : Good(f, n)}
  <1>1. 0 \in S
    <2> DEFINE f == [n \in 0..0 |-> Progress(0, <<>>)]
    <2>1. Good(f, 0)
      OBVIOUS
    <2> HIDE DEF Good, f
    <2> QED
      BY <2>1
  <1>2. ASSUME NEW n \in 1..L, n - 1 \in S PROVE n \in S
    <2>1. PICK f : Good(f, n - 1)
      BY <1>2
    <2> DEFINE g == [m \in 0..n |-> IF m = n THEN NextElement(s, f[n - 1]) ELSE f[m]]
    <2>2. g[0] = Progress(0, <<>>)
      BY <2>1
    <2>3. ASSUME NEW m \in 1..n PROVE g[m] = NextElement(s, g[m - 1])
      <3>1. m \in 0..n /\ m - 1 \in 0..n /\ m - 1 # n
        OBVIOUS
      <3>2. g[m - 1] = f[m - 1]
        BY <3>1
      <3>3. CASE m = n
        BY <3>1, <3>2, <3>3
      <3>4. CASE m # n
        <4>1. m \in 1..(n - 1) /\ g[m] = f[m]
          BY <3>1, <3>4
        <4> QED
          BY <2>1, <3>2, <4>1
      <3> QED
        BY <3>3, <3>4
    <2> HIDE DEF g
    <2>4. Good(g, n)
      BY <2>2, <2>3
    <2> HIDE DEF Good
    <2> QED
      BY <2>4
  <1>3. L \in S
    <2> HIDE DEF S
    <2>1. 0..L \subseteq S
      BY <1>1, <1>2, InductionUpTo
    <2> QED
      BY <2>1
  <1>4. PICK h : Good(h, L)
    BY <1>3
  <1> DEFINE f == [n \in 0..L |-> h[n]]
  <1>5. Def(f)
    <2>1. ASSUME NEW n \in 0..L
          PROVE  f[n] = IF n = 0 THEN Progress(0, <<>>) ELSE NextElement(s, f[n - 1])
      <3>1. CASE n = 0
        BY <1>4, <3>1
      <3>2. CASE n # 0
        <4>1. n \in 1..L /\ n - 1 \in 0..L
          BY <3>2
        <4> QED
          BY <1>4, <3>2, <4>1
      <3> QED
        BY <3>1, <3>2
    <2> QED
      BY <2>1
  <1> HIDE DEF f
  <1>6. Def(read)
    BY <1>5
  <1>7. Elements(s) = read[CHOOSE n \in 0..L : EndedAt(read, s, n)]
    BY DEF Elements, Try, NextElement, Progress, EndedAt
  <1> HIDE DEF read
  <1>8. read[0] = Progress(0, <<>>) /\ \A n \in 1..L : read[n] = NextElement(s, read[n - 1])
    BY <1>6
  <1> QED
    BY <1>7, <1>8 DEF Loops

\* The octets of the first k TLVs of xs.
Written(xs, k) == FlattenSeq([i \in 1..k |-> xs[i].z])

Pieces(xs, n) == \A i \in 1..n : xs[i].z \in Seq(Octets) /\ Len(xs[i].z) >= 1
Soundness(xs, n) == \A i \in 1..n : Sound(xs[i]) /\ xs[i].tag = Tag.Sequence

\* One TLV more is written after the others.
LEMMA WrittenNext ==
    ASSUME NEW n \in Nat, NEW xs, Pieces(xs, n)
    PROVE  /\ Written(xs, 0) = <<>>
           /\ \A k \in 0..n : Written(xs, k) \in Seq(Octets)
           /\ \A k \in 1..n : Written(xs, k) = Written(xs, k - 1) \o xs[k].z
  <1> DEFINE Zs(k) == [i \in 1..k |-> xs[i].z]
  <1>1. \A i \in 1..n : xs[i].z \in Seq(Octets)
    BY DEF Pieces
  <1>2. ASSUME NEW k \in 0..n PROVE Zs(k) \in Seq(Seq(Octets)) /\ Len(Zs(k)) = k
    <2> DEFINE w == Zs(k)
    <2>1. w = [i \in 1..k |-> w[i]] /\ \A i \in 1..k : w[i] \in Seq(Octets)
      BY <1>1
    <2> HIDE DEF w
    <2>2. w \in Seq(Seq(Octets)) /\ Len(w) = k
      BY <2>1, SequenceOf
    <2> QED
      BY <2>2 DEF w
  <1>3. <<>> \in Seq(Octets) /\ <<>> \in Seq(Seq(Octets))
    OBVIOUS
  <1>4. Zs(0) = <<>>
    OBVIOUS
  <1>5. FlattenSeq(<<>>) = <<>>
    BY <1>3, FlattenAppend
  <1>6. ASSUME NEW k \in 0..n PROVE Written(xs, k) \in Seq(Octets)
    <2> DEFINE w == Zs(k)
    <2>1. w \in Seq(Seq(Octets))
      BY <1>2
    <2> HIDE DEF w
    <2>2. FlattenSeq(w) \in Seq(Octets)
      BY <1>3, <2>1, FlattenAppend
    <2> QED
      BY <2>2 DEF Written, w
  <1>7. ASSUME NEW k \in 1..n PROVE Written(xs, k) = Written(xs, k - 1) \o xs[k].z
    <2> DEFINE w == Zs(k - 1)
               v == Zs(k)
               t == xs[k].z
    <2>1. k - 1 \in 0..n /\ k \in 0..n /\ k \in 1..n
      OBVIOUS
    <2>2. w \in Seq(Seq(Octets)) /\ Len(w) = k - 1 /\ t \in Seq(Octets) /\ v \in Seq(Seq(Octets)) /\ Len(v) = k
      BY <1>1, <1>2, <2>1
    <2>3. v[k] = t /\ \A i \in 1..(k - 1) : v[i] = w[i]
      OBVIOUS
    <2>4. v = Append(w, t)
      <3> HIDE DEF v, w, t
      <3> DEFINE u == Append(w, t)
      <3>1. u \in Seq(Seq(Octets)) /\ Len(u) = k /\ u[k] = t /\ \A i \in 1..(k - 1) : u[i] = w[i]
        BY <2>2
      <3>2. Len(u) = Len(v) /\ \A i \in 1..Len(u) : u[i] = v[i]
        BY <2>2, <2>3, <3>1
      <3> HIDE DEF u
      <3>3. u = v
        BY <2>2, <3>1, <3>2, SeqEqual
      <3> QED
        BY <3>3 DEF u
    <2> HIDE DEF v, w, t
    <2>5. FlattenSeq(Append(w, t)) = FlattenSeq(w) \o t
      BY <2>2, FlattenAppend
    <2> QED
      BY <2>4, <2>5 DEF Written, v, w, t
  <1> QED
    BY <1>4, <1>5, <1>6, <1>7 DEF Written

\* What follows the first k TLVs.
LEMMA WrittenRest ==
    ASSUME NEW n \in Nat, NEW xs, Pieces(xs, n)
    PROVE  /\ n <= Len(Written(xs, n))
           /\ \A k \in 1..n : \E q \in Seq(Octets) :
                 /\ Written(xs, n) = (Written(xs, k - 1) \o xs[k].z) \o q
                 /\ Len(Written(xs, k - 1)) < Len(Written(xs, n))
  <1> DEFINE W(k) == Written(xs, k)
             s == W(n)
             Starts(v) == \E q \in Seq(Octets) : s = v \o q
             S == {j \in 0..n : Starts(W(n - j))}
             T == {k \in 0..n : k <= Len(W(k))}
  <1>1. /\ W(0) = <<>> /\ \A k \in 0..n : W(k) \in Seq(Octets)
        /\ \A k \in 1..n : W(k) = W(k - 1) \o xs[k].z
    BY WrittenNext
  <1>2. ASSUME NEW k \in 1..n PROVE xs[k].z \in Seq(Octets) /\ Len(xs[k].z) >= 1
    BY DEF Pieces
  <1> HIDE DEF W
  <1>3. 0 \in S
    <2>1. s \in Seq(Octets) /\ <<>> \in Seq(Octets) /\ n - 0 = n /\ 0 \in 0..n
      BY <1>1
    <2>2. Starts(s)
      <3> HIDE DEF s
      <3>1. s = s \o <<>>
        BY <2>1
      <3> QED
        BY <2>1, <3>1
    <2> HIDE DEF Starts
    <2> QED
      BY <2>1, <2>2
  <1>4. ASSUME NEW j \in 1..n, j - 1 \in S PROVE j \in S
    <2> DEFINE k == n - (j - 1)
               v == W(k - 1)
               z == xs[k].z
    <2>1. k \in 1..n /\ k - 1 \in 0..n /\ k - 1 = n - j /\ j \in 0..n
      OBVIOUS
    <2>2. PICK q \in Seq(Octets) : s = W(k) \o q
      BY <1>4
    <2> HIDE DEF k, s
    <2>3. W(k) = v \o z /\ v \in Seq(Octets) /\ z \in Seq(Octets)
      BY <1>1, <1>2, <2>1
    <2>4. Starts(v)
      <3> HIDE DEF v, z
      <3>1. s = v \o (z \o q) /\ z \o q \in Seq(Octets)
        BY <2>2, <2>3, Associative
      <3> QED
        BY <3>1
    <2> HIDE DEF Starts
    <2>5. v = W(n - j)
      BY <2>1
    <2> HIDE DEF v
    <2> QED
      BY <2>1, <2>4, <2>5
  <1>5. 0..n \subseteq S
    <2> HIDE DEF S
    <2> QED
      BY <1>3, <1>4, InductionUpTo
  <1>6. ASSUME NEW k \in 1..n
        PROVE  \E q \in Seq(Octets) : s = (W(k - 1) \o xs[k].z) \o q /\ Len(W(k - 1)) < Len(s)
    <2>1. n - k \in 0..n /\ n - (n - k) = k /\ k - 1 \in 0..n
      OBVIOUS
    <2>2. PICK q \in Seq(Octets) : s = W(k) \o q
      BY <1>5, <2>1
    <2> DEFINE v == W(k - 1)
               z == xs[k].z
    <2>3. W(k) = v \o z /\ v \in Seq(Octets) /\ z \in Seq(Octets) /\ Len(z) >= 1
      BY <1>1, <1>2, <2>1
    <2> HIDE DEF s, v, z
    <2>4. s = (v \o z) \o q
      BY <2>2, <2>3
    <2>5. Len(s) = Len(v) + Len(z) + Len(q) /\ Len(v) \in Nat /\ Len(z) \in Nat /\ Len(q) \in Nat
      BY <2>2, <2>3, <2>4
    <2>6. Len(v) < Len(s)
      BY <2>3, <2>5
    <2> QED
      BY <2>2, <2>4, <2>6 DEF v, z
  <1>7. 0 \in T
    BY <1>1
  <1>8. ASSUME NEW k \in 1..n, k - 1 \in T PROVE k \in T
    <2>1. k \in 0..n /\ k - 1 \in 0..n
      OBVIOUS
    <2> DEFINE v == W(k - 1)
               z == xs[k].z
    <2>2. W(k) = v \o z /\ v \in Seq(Octets) /\ z \in Seq(Octets) /\ Len(z) >= 1
      BY <1>1, <1>2, <2>1
    <2>3. k - 1 <= Len(v)
      BY <1>8
    <2> HIDE DEF v, z
    <2>4. Len(W(k)) = Len(v) + Len(z) /\ Len(v) \in Nat /\ Len(z) \in Nat
      BY <2>2
    <2>5. k <= Len(W(k))
      BY <2>1, <2>2, <2>3, <2>4
    <2> QED
      BY <2>1, <2>5
  <1>9. 0..n \subseteq T
    <2> HIDE DEF T
    <2> QED
      BY <1>7, <1>8, InductionUpTo
  <1>10. n <= Len(s)
    BY <1>9
  <1> QED
    BY <1>6, <1>10 DEF W

\* The fields are the values of the TLVs of xs.
ValuesOf(fields, xs, n) == fields = [i \in 1..n |-> fields[i]] /\ \A i \in 1..n : fields[i].value = xs[i].value

\* TLVs one after the other are all read.
LEMMA ElementsRead ==
    ASSUME NEW n \in Nat, NEW xs, Soundness(xs, n)
    PROVE  Elements(Written(xs, n)).ok /\ ValuesOf(Elements(Written(xs, n)).fields, xs, n)
  <1> DEFINE W(k) == Written(xs, k)
             s == W(n)
             L == Len(s)
  <1>0. Pieces(xs, n)
    BY DEF Pieces, Soundness, Sound, IsField, IsTlv
  <1>1. W(0) = <<>> /\ (\A k \in 0..n : W(k) \in Seq(Octets)) /\ \A k \in 1..n : W(k) = W(k - 1) \o xs[k].z
    BY <1>0, WrittenNext
  <1>2. /\ n <= L
        /\ \A k \in 1..n : \E q \in Seq(Octets) : s = (W(k - 1) \o xs[k].z) \o q /\ Len(W(k - 1)) < L
    BY <1>0, WrittenRest
  <1>3. L \in Nat
    BY <1>1
  <1>4. PICK f : Loops(f, s) /\ Elements(s) = f[CHOOSE m \in 0..L : EndedAt(f, s, m)]
    BY <1>3, ElementsIs
  <1> DEFINE Good(k) == \E fields : f[k] = Progress(Len(W(k)), fields) /\ ValuesOf(fields, xs, k)
             S == {k \in 0..n : Good(k)}
             T == {j \in 0..(L - n) : f[n + j] = f[n]}
  <1> HIDE DEF W, L
  <1>5. 0 \in S
    <2>1. f[0] = Progress(0, <<>>) /\ Len(W(0)) = 0
      BY <1>1, <1>4 DEF Loops
    <2>2. ValuesOf(<<>>, xs, 0)
      BY DEF ValuesOf
    <2> QED
      BY <2>1, <2>2
  <1>6. ASSUME NEW k \in 1..n, k - 1 \in S PROVE k \in S
    <2> DEFINE p == W(k - 1)
               x == xs[k]
               r == f[k - 1]
    <2>1. k - 1 \in 0..n /\ k - 1 \in Nat /\ k \in 1..L /\ (k - 1) + 1 = k
      BY <1>2, <1>3
    <2>2. PICK fields : r = Progress(Len(p), fields) /\ ValuesOf(fields, xs, k - 1)
      BY <1>6
    <2>3. PICK q \in Seq(Octets) : s = (p \o x.z) \o q /\ Len(p) < L
      BY <1>2
    <2>4. Sound(x) /\ x.tag = Tag.Sequence /\ p \in Seq(Octets)
      BY <1>1, <2>1 DEF Soundness
    <2>5. r.ok /\ r.position = Len(p)
      BY <2>2 DEF Progress
    <2>6. f[k] = NextElement(s, r)
      BY <1>4, <2>1 DEF Loops, L
    <2> HIDE DEF p, x, r, s
    <2>7. f[k] = ReadField(s, 0, r, Tag.Sequence)
      <3>1. Len(p) # Len(s)
        BY <1>3, <2>3, <2>4 DEF L
      <3> QED
        BY <2>5, <2>6, <3>1 DEF NextElement
    <2> DEFINE g == Append(fields, Seen(x, 0, p))
    <2>8. f[k] = Progress(Len(p \o x.z), g)
      <3>1. ReadField((p \o x.z) \o q, 0, Progress(Len(p), fields), x.tag) = Progress(Len(p \o x.z), g)
        BY <2>3, <2>4, FieldReads
      <3> QED
        BY <2>2, <2>3, <2>4, <2>7, <3>1
    <2>9. W(k) = p \o x.z
      BY <1>1 DEF p, x
    <2>10. ValuesOf(g, xs, k)
      <3> DEFINE seen == Seen(x, 0, p)
      <3>1. seen.value = xs[k].value
        BY DEF Seen, Field, x
      <3>2. fields = [i \in 1..(k - 1) |-> fields[i]] /\ \A i \in 1..(k - 1) : fields[i].value = xs[i].value
        BY <2>2 DEF ValuesOf
      <3> HIDE DEF seen
      <3>3. /\ g = [i \in 1..((k - 1) + 1) |-> g[i]] /\ (\A i \in 1..(k - 1) : g[i] = fields[i])
            /\ g[(k - 1) + 1] = seen
        BY <2>1, <3>2, AppendAny DEF seen
      <3> HIDE DEF g
      <3>4. \A i \in 1..k : g[i].value = xs[i].value
        <4> TAKE i \in 1..k
        <4>1. CASE i = k
          BY <2>1, <3>1, <3>3, <4>1
        <4>2. CASE i # k
          <5>1. i \in 1..(k - 1)
            BY <4>2
          <5> QED
            BY <3>2, <3>3, <5>1
        <4> QED
          BY <4>1, <4>2
      <3> QED
        BY <2>1, <3>3, <3>4 DEF ValuesOf
    <2> HIDE DEF g
    <2>11. f[k] = Progress(Len(W(k)), g)
      BY <2>8, <2>9
    <2>12. Good(k) /\ k \in 0..n
      BY <2>10, <2>11
    <2> QED
      BY <2>12
  <1>7. 0..n \subseteq S
    <2> HIDE DEF S
    <2> QED
      BY <1>5, <1>6, InductionUpTo
  <1>8. PICK fields : f[n] = Progress(L, fields) /\ ValuesOf(fields, xs, n)
    BY <1>7 DEF L
  <1>9. f[n].ok /\ f[n].position = L /\ f[n].fields = fields
    BY <1>8 DEF Progress
  <1>10. 0 \in T
    BY <1>2, <1>3
  <1>11. ASSUME NEW j \in 1..(L - n), j - 1 \in T PROVE j \in T
    <2>1. n + j \in 1..L /\ (n + j) - 1 = n + (j - 1) /\ j \in 0..(L - n)
      BY <1>2, <1>3
    <2>2. f[n + j] = NextElement(s, f[n])
      BY <1>4, <1>11, <2>1 DEF Loops, L
    <2>3. f[n + j] = f[n]
      BY <1>9, <2>2 DEF NextElement, L
    <2> QED
      BY <2>1, <2>3
  <1>12. 0..(L - n) \subseteq T
    <2> HIDE DEF T
    <2>1. L - n \in Nat
      BY <1>2, <1>3
    <2> QED
      BY <1>10, <1>11, <2>1, InductionUpTo
  <1> DEFINE c == CHOOSE m \in 0..L : EndedAt(f, s, m)
  <1>13. c \in 0..L /\ EndedAt(f, s, c)
    <2>1. n \in 0..L /\ EndedAt(f, s, n)
      BY <1>2, <1>3, <1>9 DEF EndedAt, L
    <2> QED
      BY <2>1
  <1>14. Elements(s) = f[c]
    BY <1>4
  <1> HIDE DEF c
  <1>15. f[c] = f[n]
    <2>1. CASE c >= n
      <3>1. c - n \in 0..(L - n) /\ n + (c - n) = c
        BY <1>2, <1>3, <1>13, <2>1
      <3> QED
        BY <1>12, <3>1
    <2>2. CASE c < n
      <3>1. c \in 0..n /\ c + 1 \in 1..n /\ (c + 1) - 1 = c
        BY <1>13, <2>2
      <3>2. Len(W(c)) < L
        BY <1>2, <3>1
      <3>3. \E g : f[c] = Progress(Len(W(c)), g)
        BY <1>7, <3>1
      <3>4. f[c].ok /\ f[c].position = Len(W(c))
        BY <3>3 DEF Progress
      <3>5. f[c].position = L
        BY <1>13, <3>4 DEF EndedAt, L
      <3>6. Len(W(c)) \in Nat
        BY <1>1, <3>1
      <3> QED
        BY <1>3, <3>2, <3>4, <3>5, <3>6
    <2> QED
      BY <1>3, <1>13, <2>1, <2>2
  <1> QED
    BY <1>8, <1>9, <1>14, <1>15 DEF W

ValidVarbinds(vbs) ==
    /\ Len(vbs) \in Nat /\ vbs = [i \in 1..Len(vbs) |-> vbs[i]]
    /\ \A i \in 1..Len(vbs) : ValidVarbind(vbs[i])
Known(vbs) == \A i \in DOMAIN vbs : vbs[i].tag \in ValueTags

\* Success and failure are told apart.
LEMMA Outcome ==
    ~Error.ok /\ \A v : Ok(v).ok /\ Ok(v).value = v
  BY DEF Error, Ok

\* A varbind is a SEQUENCE of its name and its value.
LEMMA VarbindIs ==
    ASSUME NEW vb, ValidVarbind(vb), NEW long
    PROVE  LET x == Raw(long, "varbind", Tag.Sequence, VarbindContent(vb))
           IN  /\ x.z = EncodeVarbind(vb, long) /\ x.tag = Tag.Sequence /\ x.value = VarbindContent(vb)
               /\ VarbindContent(vb) \in Seq(Octets) /\ x.z \in Seq(Octets) /\ Len(x.z) >= 1
               /\ Len(x.z) < Room => Sound(x) /\ Len(VarbindContent(vb)) < Room
  <1> DEFINE c == VarbindContent(vb)
             x == Raw(long, "varbind", Tag.Sequence, c)
             a == WriteTlv(Tag.Oid, EncodeOid(vb.oid))
             b == WriteTlv(vb.tag, EncodeContent(vb.tag, vb.data))
  <1>1. vb.tag \in Octets /\ ValidOid(vb.oid) /\ ValidData(vb.tag, vb.data) /\ Tag.Sequence \in Octets
        /\ Tag.Sequence \in RawTags
    BY TagsAre DEF ValidVarbind, TagNames, RawTags
  <1>2. a \in Seq(Octets) /\ b \in Seq(Octets)
    <2>1. Tag.Oid \in Octets /\ ValidData(Tag.Oid, vb.oid) /\ EncodeContent(Tag.Oid, vb.oid) = EncodeOid(vb.oid)
      BY <1>1, OidAs
    <2>2. EncodeOid(vb.oid) \in Seq(Octets) /\ EncodeContent(vb.tag, vb.data) \in Seq(Octets)
      BY <1>1, <2>1, ContentType
    <2> QED
      BY <1>1, <2>1, <2>2, TlvType
  <1>3. c = a \o b
    BY DEF VarbindContent
  <1>4. c \in Seq(Octets)
    <2> HIDE DEF a, b, c
    <2> QED
      BY <1>2, <1>3
  <1>5. x.z = Write(long, "varbind", Tag.Sequence, c) /\ x.tag = Tag.Sequence /\ x.value = c
    BY DEF Raw
  <1>6. x.z = EncodeVarbind(vb, long)
    BY <1>5 DEF EncodeVarbind, VarbindContent
  <1> HIDE DEF c
  <1>7. x.z \in Seq(Octets) /\ Len(x.z) >= 1 /\ Len(c) <= Len(x.z)
    BY <1>1, <1>4, <1>5, WriteIs
  <1>8. ASSUME Len(x.z) < Room PROVE Sound(x) /\ Len(c) < Room
    <2>1. Sound(x)
      BY <1>1, <1>4, <1>5, <1>8, RawSound
    <2>2. Len(c) < Room
      <3> DEFINE m == Len(c)
                 k == Len(x.z)
      <3>1. m \in Nat /\ k \in Nat /\ m <= k /\ k < Room
        BY <1>4, <1>7, <1>8
      <3> HIDE DEF m, k
      <3>2. m < Room
        BY <3>1, RoomIs
      <3> QED
        BY <3>2 DEF m
    <2> QED
      BY <2>1, <2>2
  <1> QED
    BY <1>4, <1>5, <1>6, <1>7, <1>8 DEF c

\* A list of varbinds is read back, or refused if one of them has a value of
\* another type.
LEMMA VarbindsRead ==
    ASSUME NEW vbs, ValidVarbinds(vbs), NEW long, Len(EncodeVarbinds(vbs, long)) < Room
    PROVE  DecodeVarbindList(EncodeVarbinds(vbs, long)) = IF Known(vbs) THEN Ok(vbs) ELSE Error
  <1> DEFINE n == Len(vbs)
             s == EncodeVarbinds(vbs, long)
             X(i) == Raw(long, "varbind", Tag.Sequence, VarbindContent(vbs[i]))
             xs == [i \in 1..n |-> X(i)]
  <1>1. n \in Nat /\ vbs = [i \in 1..n |-> vbs[i]] /\ DOMAIN vbs = 1..n /\ \A i \in 1..n : ValidVarbind(vbs[i])
    BY DEF ValidVarbinds
  <1>2. ASSUME NEW i \in 1..n
        PROVE  /\ xs[i].z = EncodeVarbind(vbs[i], long) /\ xs[i].tag = Tag.Sequence
               /\ xs[i].value = VarbindContent(vbs[i]) /\ VarbindContent(vbs[i]) \in Seq(Octets)
               /\ xs[i].z \in Seq(Octets) /\ Len(xs[i].z) >= 1
               /\ Len(xs[i].z) < Room => Sound(xs[i]) /\ Len(VarbindContent(vbs[i])) < Room
    <2>1. xs[i] = X(i)
      OBVIOUS
    <2>2. /\ X(i).z = EncodeVarbind(vbs[i], long) /\ X(i).tag = Tag.Sequence
          /\ X(i).value = VarbindContent(vbs[i]) /\ VarbindContent(vbs[i]) \in Seq(Octets)
          /\ X(i).z \in Seq(Octets) /\ Len(X(i).z) >= 1
          /\ Len(X(i).z) < Room => Sound(X(i)) /\ Len(VarbindContent(vbs[i])) < Room
      BY <1>1, VarbindIs
    <2> HIDE DEF xs, X
    <2> QED
      BY <2>1, <2>2
  <1>3. s = Written(xs, n)
    <2>1. [i \in DOMAIN vbs |-> EncodeVarbind(vbs[i], long)] = [i \in 1..n |-> xs[i].z]
      <3> HIDE DEF xs
      <3> QED
        BY <1>1, <1>2
    <2> HIDE DEF xs
    <2> QED
      BY <2>1 DEF EncodeVarbinds, Written
  <1>4. Pieces(xs, n)
    <2> HIDE DEF xs
    <2> QED
      BY <1>2 DEF Pieces
  <1>5. Len(s) < Room
    OBVIOUS
  <1> HIDE DEF xs, s, n
  <1>6. ASSUME NEW i \in 1..n PROVE Sound(xs[i]) /\ Len(VarbindContent(vbs[i])) < Room
    <2> DEFINE z == xs[i].z
               v == Written(xs, i - 1)
    <2>1. i - 1 \in 0..n
      BY <1>1
    <2>2. PICK q \in Seq(Octets) : s = (v \o z) \o q
      BY <1>1, <1>3, <1>4, WrittenRest
    <2>3. v \in Seq(Octets) /\ z \in Seq(Octets)
      BY <1>1, <1>2, <1>4, <2>1, WrittenNext
    <2> HIDE DEF v, z
    <2>4. v \o z \in Seq(Octets)
      BY <2>3
    <2>5. Len(v \o z) < Room
      BY <1>5, <2>2, <2>4, PartsFit
    <2>6. Len(z) < Room
      BY <2>3, <2>5, PartsFit
    <2> QED
      BY <1>2, <2>6 DEF z
  <1>7. Soundness(xs, n)
    BY <1>2, <1>6 DEF Soundness
  <1> DEFINE r == Elements(s)
             ds == [i \in DOMAIN r.fields |-> DecodeVarbind(Value(r, i))]
  <1>8. r.ok /\ ValuesOf(r.fields, xs, n)
    BY <1>1, <1>3, <1>7, ElementsRead
  <1>9. DecodeVarbindList(s) = AllOk(ds)
    BY <1>8 DEF DecodeVarbindList, Try
  <1> HIDE DEF r
  <1>10. r.fields = [i \in 1..n |-> r.fields[i]] /\ \A i \in 1..n : Value(r, i) = VarbindContent(vbs[i])
    BY <1>2, <1>8 DEF ValuesOf, Value
  <1>11. DOMAIN r.fields = 1..n
    <2> DEFINE fs == r.fields
    <2>1. fs = [i \in 1..n |-> fs[i]]
      BY <1>10
    <2> HIDE DEF fs
    <2>2. DOMAIN fs = 1..n
      BY <2>1
    <2> QED
      BY <2>2 DEF fs
  <1>12. DOMAIN ds = 1..n /\ \A i \in 1..n : ds[i] = IF vbs[i].tag \in ValueTags THEN Ok(vbs[i]) ELSE Error
    <2>1. ASSUME NEW i \in 1..n
          PROVE  DecodeVarbind(Value(r, i)) = IF vbs[i].tag \in ValueTags THEN Ok(vbs[i]) ELSE Error
      BY <1>1, <1>6, <1>10, VarbindReads
    <2> QED
      BY <1>11, <2>1
  <1> HIDE DEF ds
  <1>13. CASE Known(vbs)
    <2>1. \A i \in 1..n : ds[i] = Ok(vbs[i])
      BY <1>1, <1>12, <1>13 DEF Known
    <2>2. \A i \in 1..n : ds[i].ok /\ ds[i].value = vbs[i]
      BY <2>1, Outcome
    <2>3. [i \in DOMAIN ds |-> ds[i].value] = [i \in 1..n |-> vbs[i]]
      BY <1>12, <2>2
    <2>4. AllOk(ds) = Ok([i \in DOMAIN ds |-> ds[i].value])
      BY <1>12, <2>2 DEF AllOk
    <2> QED
      BY <1>1, <1>9, <1>13, <2>3, <2>4 DEF s
  <1>14. CASE ~Known(vbs)
    <2>1. PICK i \in 1..n : vbs[i].tag \notin ValueTags
      BY <1>1, <1>14 DEF Known
    <2>2. ~ds[i].ok
      BY <1>12, <2>1 DEF Error
    <2>3. AllOk(ds) = Error
      BY <1>12, <2>1, <2>2 DEF AllOk
    <2> QED
      BY <1>9, <1>14, <2>3 DEF s
  <1> QED
    BY <1>13, <1>14

-----------------------------------------------------------------------------
(* Reading PDUs *)

PduContent(pdu, long) ==
    WriteInteger(pdu.id) \o WriteInteger(pdu.second) \o WriteInteger(pdu.third)
        \o EncodeVarbindList(pdu.varbinds, long)
PduAs(pdu, long) == Raw(long, "pdu", pdu.tag, PduContent(pdu, long))
PduFieldTags == <<Tag.Integer, Tag.Integer, Tag.Integer, Tag.Sequence>>

\* The parts of a PDU are octets.
LEMMA PduIs ==
    ASSUME NEW pdu, ValidPdu(pdu), pdu.third \in I32s, NEW long
    PROVE  /\ EncodePdu(pdu, long) = Write(long, "pdu", pdu.tag, PduContent(pdu, long))
           /\ EncodePdu(pdu, long) = PduAs(pdu, long).z
           /\ ValidVarbinds(pdu.varbinds) /\ pdu.tag \in Octets /\ pdu.id \in I32s /\ pdu.second \in I32s
           /\ EncodeVarbinds(pdu.varbinds, long) \in Seq(Octets)
           /\ EncodeVarbindList(pdu.varbinds, long) \in Seq(Octets)
           /\ PduContent(pdu, long) \in Seq(Octets)
           /\ EncodePdu(pdu, long) \in Seq(Octets) /\ Len(PduContent(pdu, long)) <= Len(EncodePdu(pdu, long))
           /\ EncodePdu(pdu, long) # <<>> /\ EncodePdu(pdu, long)[1] = pdu.tag
  <1> DEFINE vbs == pdu.varbinds
             n == Len(vbs)
             parts == [i \in DOMAIN vbs |-> EncodeVarbind(vbs[i], long)]
             s == EncodeVarbinds(vbs, long)
             list == EncodeVarbindList(vbs, long)
             a == WriteInteger(pdu.id)
             b == WriteInteger(pdu.second)
             c == WriteInteger(pdu.third)
             d == PduContent(pdu, long)
             tag == pdu.tag
  <1>1. pdu.tag \in Octets /\ pdu.id \in I32s /\ pdu.second \in I32s /\ Tag.Sequence \in Octets
    BY TagsAre DEF ValidPdu, TagNames
  <1>2. n \in Nat /\ vbs = [i \in 1..n |-> vbs[i]]
    BY DEF ValidPdu
  <1>3. DOMAIN vbs = 1..n
    <2> HIDE DEF vbs, n
    <2> QED
      BY <1>2
  <1>4. ASSUME NEW i \in 1..n PROVE ValidVarbind(vbs[i])
    BY <1>3 DEF ValidPdu, ValidVarbind
  <1>5. ValidVarbinds(vbs)
    BY <1>2, <1>4 DEF ValidVarbinds
  <1>6. s \in Seq(Octets)
    <2> HIDE DEF vbs, n
    <2>1. \A i \in 1..n : EncodeVarbind(vbs[i], long) \in Seq(Octets)
      BY <1>4, VarbindIs
    <2>2. parts = [i \in 1..n |-> parts[i]] /\ \A i \in 1..n : parts[i] \in Seq(Octets)
      BY <1>3, <2>1
    <2> HIDE DEF parts
    <2>3. parts \in Seq(Seq(Octets)) /\ <<>> \in Seq(Octets)
      BY <1>2, <2>2, SequenceOf
    <2>4. FlattenSeq(parts) \in Seq(Octets)
      BY <2>3, FlattenAppend
    <2> QED
      BY <2>4 DEF EncodeVarbinds, parts
  <1>7. list \in Seq(Octets)
    BY <1>1, <1>6, WriteIs DEF EncodeVarbindList
  <1>8. a \in Seq(Octets) /\ b \in Seq(Octets) /\ c \in Seq(Octets)
    BY <1>1, IntegerType
  <1>9. d \in Seq(Octets)
    <2> HIDE DEF a, b, c, list
    <2>1. a \o b \o c \o list \in Seq(Octets)
      BY <1>7, <1>8
    <2> QED
      BY <2>1 DEF PduContent, a, b, c, list
  <1>10. EncodePdu(pdu, long) = Write(long, "pdu", tag, d) /\ EncodePdu(pdu, long) = PduAs(pdu, long).z
    BY DEF EncodePdu, PduContent, PduAs, Raw
  <1> DEFINE w == EncodePdu(pdu, long)
  <1> HIDE DEF d, tag
  <1>11. tag \in Octets
    BY <1>1 DEF tag
  <1>12. w \in Seq(Octets) /\ Len(d) <= Len(w) /\ Len(w) >= 1 /\ w[1] = tag
    BY <1>9, <1>10, <1>11, WriteIs
  <1>13. w # <<>>
    <2> HIDE DEF w
    <2> QED
      BY <1>12
  <1> QED
    BY <1>1, <1>5, <1>6, <1>7, <1>9, <1>10, <1>12, <1>13 DEF d, tag

\* The content of a PDU is read: three numbers and the varbinds.
LEMMA PduContentReads ==
    ASSUME NEW pdu, ValidPdu(pdu), pdu.third \in I32s, NEW long, Len(PduContent(pdu, long)) < Room
    PROVE  LET c == PduContent(pdu, long)
               r == ReadFields(c, 0, PduFieldTags)
           IN  /\ r.ok /\ Value(r, 1) = pdu.id /\ Value(r, 2) = pdu.second /\ Value(r, 3) = pdu.third
               /\ DecodeVarbindList(Value(r, 4)) = IF Known(pdu.varbinds) THEN Ok(pdu.varbinds) ELSE Error
               /\ Rest(c, r) = <<>>
  <1> DEFINE c == PduContent(pdu, long)
             vs == EncodeVarbinds(pdu.varbinds, long)
             x1 == IntegerAs(pdu.id)
             x2 == IntegerAs(pdu.second)
             x3 == IntegerAs(pdu.third)
             x4 == Raw(long, "list", Tag.Sequence, vs)
             none == <<>>
             r == ReadFields(c, 0, PduFieldTags)
  <1>1. /\ ValidVarbinds(pdu.varbinds) /\ pdu.id \in I32s /\ pdu.second \in I32s /\ vs \in Seq(Octets)
        /\ EncodeVarbindList(pdu.varbinds, long) \in Seq(Octets)
    BY PduIs
  <1>2. x1.z \in Seq(Octets) /\ x2.z \in Seq(Octets) /\ x3.z \in Seq(Octets) /\ x4.z \in Seq(Octets)
    <2>1. x1.z \in Seq(Octets) /\ x2.z \in Seq(Octets) /\ x3.z \in Seq(Octets)
      BY <1>1, IntegerType DEF IntegerAs
    <2>2. x4.z \in Seq(Octets)
      BY <1>1 DEF EncodeVarbindList, Raw
    <2> QED
      BY <2>1, <2>2
  <1>3. c = x1.z \o x2.z \o x3.z \o x4.z
    BY DEF PduContent, IntegerAs, Raw, EncodeVarbindList
  <1>4. /\ x1.tag = Tag.Integer /\ x2.tag = Tag.Integer /\ x3.tag = Tag.Integer /\ x4.tag = Tag.Sequence
        /\ x1.value = pdu.id /\ x2.value = pdu.second /\ x3.value = pdu.third /\ x4.value = vs
    BY DEF Raw, IntegerAs
  <1>5. Len(x1.z) < Room /\ Len(x2.z) < Room /\ Len(x3.z) < Room /\ Len(x4.z) < Room
    <2> DEFINE y1 == x1.z
               y2 == x2.z
               y3 == x3.z
               y4 == x4.z
    <2>1. Len(c) < Room
      OBVIOUS
    <2> HIDE DEF y1, y2, y3, y4, c
    <2>2. y1 \in Seq(Octets) /\ y2 \in Seq(Octets) /\ y3 \in Seq(Octets) /\ y4 \in Seq(Octets)
          /\ y1 \o y2 \in Seq(Octets) /\ (y1 \o y2) \o y3 \in Seq(Octets) /\ c = ((y1 \o y2) \o y3) \o y4
      BY <1>2, <1>3 DEF y1, y2, y3, y4
    <2>3. Len((y1 \o y2) \o y3) < Room /\ Len(y4) < Room
      BY <2>1, <2>2, PartsFit
    <2>4. Len(y1 \o y2) < Room /\ Len(y3) < Room
      BY <2>2, <2>3, PartsFit
    <2>5. Len(y1) < Room /\ Len(y2) < Room
      BY <2>2, <2>4, PartsFit
    <2> QED
      BY <2>3, <2>4, <2>5 DEF y1, y2, y3, y4
  <1>6. Sound(x1) /\ Sound(x2) /\ Sound(x3) /\ Sound(x4)
    <2>1. Sound(x1) /\ Sound(x2) /\ Sound(x3)
      BY <1>1, <1>5, IntegerSound DEF IntegerAs
    <2>2. Tag.Sequence \in RawTags
      BY DEF RawTags
    <2>3. Sound(x4)
      BY <1>1, <1>5, <2>2, RawSound DEF Raw
    <2> QED
      BY <2>1, <2>3
  <1>7. Len(vs) < Room
    <2>1. Tag.Sequence \in Octets
      BY TagsAre DEF TagNames
    <2>2. x4.z = Write(long, "list", Tag.Sequence, vs)
      BY DEF Raw
    <2>3. Len(vs) <= Len(x4.z)
      BY <1>1, <2>1, <2>2, WriteIs
    <2> DEFINE m == Len(vs)
               k == Len(x4.z)
    <2>4. m \in Nat /\ k \in Nat /\ m <= k /\ k < Room
      BY <1>1, <1>2, <1>5, <2>3
    <2> HIDE DEF m, k
    <2>5. m < Room
      BY <2>4, RoomIs
    <2> QED
      BY <2>5 DEF m
  <1>8. DecodeVarbindList(vs) = IF Known(pdu.varbinds) THEN Ok(pdu.varbinds) ELSE Error
    BY <1>1, <1>7, VarbindsRead
  <1> DEFINE s1 == Seen(x1, 0, <<>>)
             s2 == Seen(x2, 0, x1.z)
             s3 == Seen(x3, 0, x1.z \o x2.z)
             s4 == Seen(x4, 0, x1.z \o x2.z \o x3.z)
  <1>9. s1.value = pdu.id /\ s2.value = pdu.second /\ s3.value = pdu.third /\ s4.value = vs
    BY <1>4 DEF Seen, Field
  <1> HIDE DEF x1, x2, x3, x4, c
  <1>10. none \in Seq(Octets) /\ c \o none = c /\ c \in Seq(Octets)
    BY <1>2, <1>3
  <1>11. r = Progress(Len(c), <<s1, s2, s3, s4>>)
    <2>1. Reached((x1.z \o x2.z \o x3.z \o x4.z) \o none, 0, <<x1.tag, x2.tag, x3.tag, x4.tag>>,
                  x1.z \o x2.z \o x3.z \o x4.z, <<s1, s2, s3, s4>>)
      BY <1>6, <1>10, ReadFour
    <2> HIDE DEF none
    <2> QED
      BY <1>3, <1>4, <1>10, <2>1 DEF Reached, PduFieldTags
  <1> HIDE DEF s1, s2, s3, s4
  <1>12. r.ok /\ r.position = Len(c) /\ r.fields = <<s1, s2, s3, s4>>
    BY <1>11 DEF Progress
  <1> HIDE DEF r, vs
  <1>13. Value(r, 1) = pdu.id /\ Value(r, 2) = pdu.second /\ Value(r, 3) = pdu.third /\ Value(r, 4) = vs
    BY <1>9, <1>12 DEF Value
  <1>14. Rest(c, r) = <<>>
    <2>1. From(c \o none, Len(c) + 1) = none
      BY <1>10, Ending
    <2> HIDE DEF none
    <2>2. From(c, Len(c) + 1) = none
      BY <1>10, <2>1
    <2> QED
      BY <1>12, <2>2 DEF Rest, none
  <1> QED
    BY <1>8, <1>12, <1>13, <1>14 DEF r, c

\* A PDU for the agent, as the agent understands it.
Understood(pdu) ==
    [pdu EXCEPT !.second = Repetitions(pdu.tag, pdu.second), !.third = Repetitions(pdu.tag, pdu.third)]

\* A PDU is read back by the agent, if it is one for it, and by a manager.
LEMMA PduReads ==
    ASSUME NEW pdu, ValidPdu(pdu), pdu.third \in I32s, NEW long, Len(EncodePdu(pdu, long)) < Room
    PROVE  LET s == EncodePdu(pdu, long)
           IN  /\ DecodePdu(s) = IF pdu.tag \in InboundTags /\ Known(pdu.varbinds) THEN Ok(Understood(pdu)) ELSE Error
               /\ pdu.tag \in RawTags /\ Known(pdu.varbinds) => ManagerReadsPdu(s) = Ok(pdu)
  <1> DEFINE s == EncodePdu(pdu, long)
             c == PduContent(pdu, long)
             x == PduAs(pdu, long)
             tag == pdu.tag
             outer == ReadFields(s, 0, <<tag>>)
             r == ReadFields(c, 0, PduFieldTags)
             list == DecodeVarbindList(Value(r, 4))
             rec(a, b) == [tag |-> tag, id |-> pdu.id, second |-> a, third |-> b, varbinds |-> pdu.varbinds]
  <1>1. /\ s = Write(long, "pdu", tag, c) /\ s = x.z /\ tag \in Octets /\ c \in Seq(Octets) /\ s \in Seq(Octets)
        /\ Len(c) <= Len(s) /\ s # <<>> /\ s[1] = tag
    BY PduIs
  <1>2. Len(c) < Room
    <2> DEFINE m == Len(c)
               k == Len(s)
    <2>1. m \in Nat /\ k \in Nat /\ m <= k /\ k < Room
      BY <1>1
    <2> HIDE DEF m, k
    <2>2. m < Room
      BY <2>1, RoomIs
    <2> QED
      BY <2>2 DEF m
  <1>3. /\ r.ok /\ Value(r, 1) = pdu.id /\ Value(r, 2) = pdu.second /\ Value(r, 3) = pdu.third
        /\ list = (IF Known(pdu.varbinds) THEN Ok(pdu.varbinds) ELSE Error) /\ Rest(c, r) = <<>>
    BY <1>2, PduContentReads
  <1>4. x.tag = tag /\ x.value = c
    BY DEF PduAs, Raw
  <1>5. ASSUME tag \in RawTags
        PROVE  /\ outer.ok /\ Value(outer, 1) = c /\ Rest(s, outer) = <<>>
               /\ \A tags : ReadOneOf(s, tags) = IF tag \in tags THEN outer ELSE Error
    <2>1. Sound(x)
      BY <1>1, <1>5, RawSound DEF PduAs
    <2> HIDE DEF x
    <2>2. FirstRead(x.z, x, <<>>, 0)
      BY <2>1, ReadsAlone
    <2>3. FirstRead(s, x, <<>>, 0)
      BY <1>1, <2>2
    <2> HIDE DEF s
    <2> QED
      BY <1>4, <2>3 DEF FirstRead
  <1>6. /\ DecodePdu(s) =
               Try(ReadOneOf(s, InboundTags), LAMBDA o :
               Try(ReadFields(Value(o, 1), 0, PduFieldTags), LAMBDA t :
               Try(DecodeVarbindList(Value(t, 4)), LAMBDA v :
                   IF Rest(s, o) # <<>> \/ Rest(Value(o, 1), t) # <<>> THEN Error
                   ELSE Ok([tag |-> s[1], id |-> Value(t, 1), second |-> Repetitions(s[1], Value(t, 2)),
                            third |-> Repetitions(s[1], Value(t, 3)), varbinds |-> v.value]))))
        /\ ManagerReadsPdu(s) =
               Try(ReadFields(s, 0, <<s[1]>>), LAMBDA o :
               Try(ReadFields(Value(o, 1), 0, PduFieldTags), LAMBDA t :
               Try(DecodeVarbindList(Value(t, 4)), LAMBDA v :
                   Ok([tag |-> s[1], id |-> Value(t, 1), second |-> Value(t, 2), third |-> Value(t, 3),
                       varbinds |-> v.value]))))
    BY DEF DecodePdu, ManagerReadsPdu, PduFieldTags
  <1>7. /\ pdu = rec(pdu.second, pdu.third)
        /\ Understood(pdu) = rec(Repetitions(tag, pdu.second), Repetitions(tag, pdu.third))
    <2> DEFINE p == rec(pdu.second, pdu.third)
    <2>1. pdu = p
      BY DEF ValidPdu
    <2>2. Understood(pdu) = [p EXCEPT !.second = Repetitions(tag, pdu.second), !.third = Repetitions(tag, pdu.third)]
      BY <2>1 DEF Understood
    <2>3. Understood(pdu) = rec(Repetitions(tag, pdu.second), Repetitions(tag, pdu.third))
      BY <2>2
    <2> QED
      BY <2>1, <2>3
  <1> HIDE DEF s, c, outer, r
  <1>8. InboundTags \subseteq RawTags
    BY DEF InboundTags, RawTags, PduNames
  <1>9. ASSUME tag \notin InboundTags PROVE DecodePdu(s) = Error
    <2>1. ReadOneOf(s, InboundTags) = Error
      BY <1>1, <1>9 DEF ReadOneOf
    <2> QED
      BY <1>6, <2>1, Outcome DEF Try
  <1>10. ASSUME tag \in InboundTags
         PROVE  DecodePdu(s) = IF Known(pdu.varbinds) THEN Ok(Understood(pdu)) ELSE Error
    <2>1. ReadOneOf(s, InboundTags) = outer /\ outer.ok /\ Value(outer, 1) = c /\ Rest(s, outer) = <<>>
      BY <1>5, <1>8, <1>10
    <2>2. DecodePdu(s) =
              IF list.ok
              THEN Ok(rec(Repetitions(tag, pdu.second), Repetitions(tag, pdu.third)))
              ELSE Error
      <3>1. list.ok => list.value = pdu.varbinds
        BY <1>3, Outcome
      <3> HIDE DEF list
      <3>2. DecodePdu(s) =
                IF list.ok
                THEN Ok([tag |-> s[1], id |-> Value(r, 1), second |-> Repetitions(s[1], Value(r, 2)),
                         third |-> Repetitions(s[1], Value(r, 3)), varbinds |-> list.value])
                ELSE Error
        BY <1>3, <1>6, <2>1 DEF Try, r, list
      <3> QED
        BY <1>1, <1>3, <3>1, <3>2
    <2> HIDE DEF list, rec
    <2> QED
      BY <1>3, <1>7, <2>2, Outcome
  <1>11. ASSUME tag \in RawTags, Known(pdu.varbinds) PROVE ManagerReadsPdu(s) = Ok(pdu)
    <2>1. outer.ok /\ Value(outer, 1) = c /\ ReadFields(s, 0, <<s[1]>>) = outer
      BY <1>1, <1>5, <1>11 DEF outer
    <2>2. list.ok /\ list.value = pdu.varbinds
      BY <1>3, <1>11, Outcome
    <2> HIDE DEF list
    <2>3. ManagerReadsPdu(s) = Ok([tag |-> s[1], id |-> Value(r, 1), second |-> Value(r, 2), third |-> Value(r, 3),
                                   varbinds |-> list.value])
      BY <1>3, <1>6, <2>1, <2>2 DEF Try, r, list
    <2> QED
      BY <1>1, <1>3, <1>7, <2>2, <2>3
  <1> QED
    BY <1>9, <1>10, <1>11 DEF s

-----------------------------------------------------------------------------
(* Reading scoped PDUs *)

\* The TLVs x and y are read from s, and q is left.
TwoRead(s, x, y, q) ==
    LET r == ReadFields(s, 0, <<x.tag, y.tag>>)
    IN  r.ok /\ Value(r, 1) = x.value /\ Value(r, 2) = y.value /\ Rest(s, r) = q

\* So are two TLVs in front of others.
LEMMA ReadsTwo ==
    ASSUME NEW x, NEW y, Sound(x), Sound(y), NEW q \in Seq(Octets)
    PROVE  TwoRead((x.z \o y.z) \o q, x, y, q)
  <1> DEFINE v == x.z \o y.z
             s == v \o q
             r == ReadFields(s, 0, <<x.tag, y.tag>>)
             s1 == Seen(x, 0, <<>>)
             s2 == Seen(y, 0, x.z)
  <1>1. x.z \in Seq(Octets) /\ y.z \in Seq(Octets)
    BY SoundIs
  <1>2. v \in Seq(Octets)
    BY <1>1
  <1>3. Reached(s, 0, <<x.tag, y.tag>>, v, <<s1, s2>>)
    BY ReadTwo
  <1>4. s1.value = x.value /\ s2.value = y.value
    BY DEF Seen, Field
  <1> HIDE DEF s1, s2, v
  <1>5. r = Progress(Len(v), <<s1, s2>>)
    BY <1>3 DEF Reached
  <1>6. r.ok /\ r.position = Len(v) /\ r.fields = <<s1, s2>>
    BY <1>5 DEF Progress
  <1>7. From(s, Len(v) + 1) = q
    BY <1>2, Ending
  <1> HIDE DEF r, s
  <1>8. Value(r, 1) = x.value /\ Value(r, 2) = y.value /\ Rest(s, r) = q
    BY <1>4, <1>6, <1>7 DEF Value, Rest
  <1> QED
    BY <1>6, <1>8 DEF TwoRead, r, s, v

\* The content of a scoped PDU, as a manager reads it.
ManagerReads(s) ==
    Try(ReadFields(s, 0, <<Tag.OctetString, Tag.OctetString>>), LAMBDA r :
    Try(ManagerReadsPdu(Rest(s, r)), LAMBDA pdu :
        Ok([engine |-> Value(r, 1), name |-> Value(r, 2), pdu |-> pdu.value])))

\* The scoped PDU of a message, as the agent understands it.
ScopedUnderstood(f) ==
    [contextEngine |-> f.contextEngine, contextName |-> f.contextName, pdu |-> Understood(f.pdu)]

\* A scoped PDU is read back by the agent, if it is one for it, and by a manager.
LEMMA ScopedReads ==
    ASSUME NEW f, Encodable(f), NEW long, Len(ScopedContent(f, long)) < Room
    PROVE  LET c == ScopedContent(f, long)
           IN  /\ DecodeScoped(c) = IF f.pdu.tag \in InboundTags /\ Known(f.pdu.varbinds)
                                    THEN Ok(ScopedUnderstood(f)) ELSE Error
               /\ f.pdu.tag \in RawTags /\ Known(f.pdu.varbinds) =>
                     ManagerReads(c) = Ok([engine |-> f.contextEngine, name |-> f.contextName, pdu |-> f.pdu])
  <1> DEFINE x == OctetsAs(f.contextEngine)
             y == OctetsAs(f.contextName)
             q == EncodePdu(f.pdu, long)
             c == ScopedContent(f, long)
             tags == <<Tag.OctetString, Tag.OctetString>>
             r == ReadFields(c, 0, tags)
             good == f.pdu.tag \in InboundTags /\ Known(f.pdu.varbinds)
  <1>1. /\ f.contextEngine \in Seq(Octets) /\ f.contextName \in Seq(Octets) /\ ValidPdu(f.pdu) /\ f.pdu.third \in I32s
    BY EncodableIs
  <1>2. x.z = WriteOctets(f.contextEngine) /\ y.z = WriteOctets(f.contextName)
    BY <1>1, OctetsAre
  <1>3. c = (x.z \o y.z) \o q
    BY <1>2 DEF ScopedContent
  <1>4. x.z \in Seq(Octets) /\ y.z \in Seq(Octets) /\ q \in Seq(Octets)
    BY <1>1, <1>2, OctetsType, PduIs
  <1>5. Len(x.z) < Room /\ Len(y.z) < Room /\ Len(q) < Room
    <2> DEFINE y1 == x.z
               y2 == y.z
    <2>1. Len(c) < Room
      OBVIOUS
    <2> HIDE DEF y1, y2, c, q
    <2>2. y1 \in Seq(Octets) /\ y2 \in Seq(Octets) /\ y1 \o y2 \in Seq(Octets) /\ c = (y1 \o y2) \o q
      BY <1>3, <1>4 DEF y1, y2
    <2>3. Len(y1 \o y2) < Room /\ Len(q) < Room
      BY <1>4, <2>1, <2>2, PartsFit
    <2>4. Len(y1) < Room /\ Len(y2) < Room
      BY <2>2, <2>3, PartsFit
    <2> QED
      BY <2>3, <2>4 DEF y1, y2
  <1>6. Sound(x) /\ Sound(y)
    <2>1. Tag.OctetString \in RawTags
      BY DEF RawTags
    <2> QED
      BY <1>1, <1>5, <2>1, RawSound DEF Raw, OctetsAs
  <1>7. x.tag = Tag.OctetString /\ y.tag = Tag.OctetString /\ x.value = f.contextEngine /\ y.value = f.contextName
    BY DEF OctetsAs, Raw
  <1>8. /\ DecodePdu(q) = IF good THEN Ok(Understood(f.pdu)) ELSE Error
        /\ f.pdu.tag \in RawTags /\ Known(f.pdu.varbinds) => ManagerReadsPdu(q) = Ok(f.pdu)
    BY <1>1, <1>5, PduReads
  <1> HIDE DEF x, y, q
  <1>9. r.ok /\ Value(r, 1) = f.contextEngine /\ Value(r, 2) = f.contextName /\ Rest(c, r) = q
    <2>1. TwoRead((x.z \o y.z) \o q, x, y, q)
      BY <1>4, <1>6, ReadsTwo
    <2>2. TwoRead(c, x, y, q)
      BY <1>3, <2>1
    <2> HIDE DEF c
    <2> QED
      BY <1>7, <2>2 DEF TwoRead
  <1>10. /\ DecodeScoped(c) =
                IF r.ok
                THEN IF DecodePdu(Rest(c, r)).ok
                     THEN Ok([contextEngine |-> Value(r, 1), contextName |-> Value(r, 2),
                              pdu |-> DecodePdu(Rest(c, r)).value])
                     ELSE Error
                ELSE Error
         /\ ManagerReads(c) =
                IF r.ok
                THEN IF ManagerReadsPdu(Rest(c, r)).ok
                     THEN Ok([engine |-> Value(r, 1), name |-> Value(r, 2), pdu |-> ManagerReadsPdu(Rest(c, r)).value])
                     ELSE Error
                ELSE Error
    BY DEF DecodeScoped, ManagerReads, Try
  <1> HIDE DEF r, c
  <1> DEFINE d == DecodePdu(q)
             m == ManagerReadsPdu(q)
  <1>11. /\ DecodeScoped(c) =
                IF d.ok THEN Ok([contextEngine |-> f.contextEngine, contextName |-> f.contextName, pdu |-> d.value])
                ELSE Error
         /\ m.ok => ManagerReads(c) = Ok([engine |-> f.contextEngine, name |-> f.contextName, pdu |-> m.value])
    BY <1>9, <1>10
  <1> HIDE DEF d, m
  <1>12. DecodeScoped(c) = IF good THEN Ok(ScopedUnderstood(f)) ELSE Error
    <2>1. CASE good
      <3>1. d.ok /\ d.value = Understood(f.pdu)
        BY <1>8, <2>1, Outcome DEF d
      <3> QED
        BY <1>11, <2>1, <3>1 DEF ScopedUnderstood
    <2>2. CASE ~good
      <3>1. ~d.ok
        BY <1>8, <2>2, Outcome DEF d
      <3> QED
        BY <1>11, <2>2, <3>1
    <2> QED
      BY <2>1, <2>2
  <1>13. ASSUME f.pdu.tag \in RawTags, Known(f.pdu.varbinds)
         PROVE  ManagerReads(c) = Ok([engine |-> f.contextEngine, name |-> f.contextName, pdu |-> f.pdu])
    <2>1. m.ok /\ m.value = f.pdu
      BY <1>8, <1>13, Outcome DEF m
    <2> QED
      BY <1>11, <2>1
  <1> QED
    BY <1>12, <1>13 DEF c

\* So is a v2c message.
LEMMA V2cReads ==
    ASSUME NEW pdu, ValidPdu(pdu), pdu.third \in I32s, pdu.tag \in RawTags, Known(pdu.varbinds), 1 \in I32s,
           Len(EncodeV2cMessage(pdu)) < Room
    PROVE  ManagerReadsV2c(EncodeV2cMessage(pdu)) = Ok([version |-> 1, community |-> <<>>, pdu |-> pdu])
  <1> DEFINE none == <<>>
             x == IntegerAs(1)
             y == OctetsAs(none)
             q == EncodePdu(pdu, {})
             c == (x.z \o y.z) \o q
             w == EncodeV2cMessage(pdu)
             message == ReadFields(w, 0, <<Tag.Sequence>>)
             r == ReadFields(c, 0, <<Tag.Integer, Tag.OctetString>>)
  <1>1. none \in Seq(Octets) /\ q \in Seq(Octets) /\ Tag.Sequence \in Octets
    BY PduIs, TagsAre DEF TagNames
  <1>2. x.z = WriteInteger(1) /\ y.z = WriteOctets(none)
    BY <1>1, OctetsAre DEF IntegerAs
  <1>3. x.z \in Seq(Octets) /\ y.z \in Seq(Octets)
    BY <1>1, <1>2, OctetsType, IntegerType
  <1>4. w = WriteTlv(Tag.Sequence, c)
    BY <1>2 DEF EncodeV2cMessage
  <1>5. x.tag = Tag.Integer /\ y.tag = Tag.OctetString /\ x.value = 1 /\ y.value = none
    BY DEF OctetsAs, Raw, IntegerAs
  <1>6. c \in Seq(Octets)
    <2> HIDE DEF x, y, q
    <2> QED
      BY <1>1, <1>3
  <1>7. Len(w) < Room
    OBVIOUS
  <1> HIDE DEF c, w
  <1>8. w = Write({}, "v2c", Tag.Sequence, c) /\ Len(c) <= Len(w) /\ w \in Seq(Octets)
    BY <1>1, <1>4, <1>6, WriteIs
  <1>9. Len(c) < Room
    <2> DEFINE m == Len(c)
               k == Len(w)
    <2>1. m \in Nat /\ k \in Nat /\ m <= k /\ k < Room
      BY <1>6, <1>7, <1>8
    <2> HIDE DEF m, k
    <2>2. m < Room
      BY <2>1, RoomIs
    <2> QED
      BY <2>2 DEF m
  <1>10. message.ok /\ Value(message, 1) = c
    <2>1. Tag.Sequence \in RawTags /\ 0 \in Nat
      BY DEF RawTags
    <2> QED
      BY <1>6, <1>7, <1>8, <2>1, ReadWhole
  <1>11. Len(x.z) < Room /\ Len(y.z) < Room /\ Len(q) < Room
    <2> DEFINE y1 == x.z
               y2 == y.z
    <2> HIDE DEF y1, y2, q
    <2>1. y1 \in Seq(Octets) /\ y2 \in Seq(Octets) /\ y1 \o y2 \in Seq(Octets) /\ c = (y1 \o y2) \o q
      BY <1>3 DEF y1, y2, c
    <2>2. Len(y1 \o y2) < Room /\ Len(q) < Room
      BY <1>1, <1>9, <2>1, PartsFit
    <2>3. Len(y1) < Room /\ Len(y2) < Room
      BY <2>1, <2>2, PartsFit
    <2> QED
      BY <2>2, <2>3 DEF y1, y2
  <1>12. Sound(x) /\ Sound(y)
    <2>1. Tag.OctetString \in RawTags
      BY DEF RawTags
    <2>2. Sound(y)
      BY <1>1, <1>11, <2>1, RawSound DEF Raw, OctetsAs
    <2>3. Sound(x)
      BY <1>11, IntegerSound DEF IntegerAs
    <2> QED
      BY <2>2, <2>3
  <1>13. ManagerReadsPdu(q) = Ok(pdu)
    BY <1>11, PduReads
  <1> HIDE DEF x, y, q, none
  <1>14. r.ok /\ Value(r, 1) = 1 /\ Value(r, 2) = none /\ Rest(c, r) = q
    <2>1. TwoRead((x.z \o y.z) \o q, x, y, q)
      BY <1>1, <1>12, ReadsTwo
    <2>2. TwoRead(c, x, y, q)
      BY <2>1 DEF c
    <2> QED
      BY <1>5, <2>2 DEF TwoRead
  <1>15. ManagerReadsV2c(w) =
             IF message.ok
             THEN Try(ReadFields(Value(message, 1), 0, <<Tag.Integer, Tag.OctetString>>), LAMBDA t :
                  Try(ManagerReadsPdu(Rest(Value(message, 1), t)), LAMBDA p :
                      Ok([version |-> Value(t, 1), community |-> Value(t, 2), pdu |-> p.value])))
             ELSE Error
    BY DEF ManagerReadsV2c, Try
  <1> HIDE DEF message
  <1>16. ManagerReadsV2c(w) =
             IF r.ok
             THEN IF ManagerReadsPdu(Rest(c, r)).ok
                  THEN Ok([version |-> Value(r, 1), community |-> Value(r, 2), pdu |-> ManagerReadsPdu(Rest(c, r)).value])
                  ELSE Error
             ELSE Error
    BY <1>10, <1>15 DEF Try
  <1> HIDE DEF r
  <1>17. ManagerReadsPdu(q).ok /\ ManagerReadsPdu(q).value = pdu
    BY <1>13, Outcome
  <1>18. ManagerReadsV2c(w) = Ok([version |-> 1, community |-> none, pdu |-> pdu])
    BY <1>14, <1>16, <1>17
  <1> QED
    BY <1>18 DEF w, none

-----------------------------------------------------------------------------
(* Reading messages *)

\* Taking an octet of the key stream away gives back what it was added to.
LEMMA TakenAway ==
    ASSUME NEW b \in Nat \ {0}, NEW x \in 0..(b - 1), NEW k \in 0..(b - 1)
    PROVE  (((x + k) % b) - k) % b = x
  <1>1. CASE x + k < b
    <2>1. (x + k) % b = x + k
      BY <1>1, SMT
    <2>2. (x + k) - k = x /\ x % b = x
      BY SMT
    <2> QED
      BY <2>1, <2>2
  <1>2. CASE x + k >= b
    <2>1. (x + k) % b = x + k - b
      BY <1>2, SMT
    <2>2. (x + k - b) - k = x - b /\ (x - b) % b = x
      BY SMT
    <2> QED
      BY <2>1, <2>2
  <1> QED
    BY <1>1, <1>2

\* Decryption with the IV of the encryption gives back the plaintext.
LEMMA Decrypts ==
    ASSUME NEW iv \in Seq(Int), NEW s \in Seq(Octets)
    PROVE  Decrypt(iv, Encrypt(iv, s)) = s
  <1> DEFINE n == Len(s)
             e == Encrypt(iv, s)
             d == Decrypt(iv, e)
  <1>1. n \in Nat /\ DOMAIN s = 1..n /\ s = [i \in 1..n |-> s[i]] /\ \A i \in 1..n : s[i] \in Octets
    BY OctetSequences
  <1>2. e = [i \in 1..n |-> (s[i] + Keystream(iv, i)) % Base]
    BY <1>1 DEF Encrypt
  <1>3. d = [i \in 1..n |-> (e[i] - Keystream(iv, i)) % Base]
    BY <1>2 DEF Decrypt
  <1>4. ASSUME NEW i \in 1..n PROVE (e[i] - Keystream(iv, i)) % Base = s[i]
    <2> DEFINE k == Keystream(iv, i)
               x == s[i]
    <2>1. k \in Octets /\ x \in Octets
      BY <1>1, KeystreamType
    <2>2. e[i] = (x + k) % Base
      BY <1>2
    <2> HIDE DEF k, x, e
    <2>3. Base \in Nat \ {0} /\ k \in 0..(Base - 1) /\ x \in 0..(Base - 1)
      BY <2>1, WordsAre DEF Octets
    <2>4. (((x + k) % Base) - k) % Base = x
      BY <2>3, TakenAway
    <2> QED
      BY <2>2, <2>4 DEF k, x
  <1>5. d = [i \in 1..n |-> s[i]]
    BY <1>3, <1>4
  <1> QED
    BY <1>1, <1>5

\* The scoped data of a message as a TLV.
IvOf(f) == <<f.boots, f.time>> \o f.salt
Ciphertext(f, long) == Encrypt(IvOf(f), EncodeScopedPdu(f, long))
ScopedAs(f, long) ==
    IF f.encrypted THEN OctetsAs(Ciphertext(f, long))
    ELSE Raw(long, "scoped", Tag.Sequence, ScopedContent(f, long))

\* It is one, and so is the plaintext.
LEMMA ScopedAsIs ==
    ASSUME NEW f, Encodable(f), NEW long, Len(ScopedData(f, long)) < Room
    PROVE  LET x == ScopedAs(f, long)
               p == Raw(long, "scoped", Tag.Sequence, ScopedContent(f, long))
           IN  /\ x.z = ScopedData(f, long) /\ Sound(x)
               /\ x.tag = IF f.encrypted THEN Tag.OctetString ELSE Tag.Sequence
               /\ x.value = IF f.encrypted THEN Ciphertext(f, long) ELSE ScopedContent(f, long)
               /\ p.z = EncodeScopedPdu(f, long) /\ p.tag = Tag.Sequence /\ p.value = ScopedContent(f, long) /\ Sound(p)
               /\ Len(ScopedContent(f, long)) < Room
               /\ IvOf(f) \in Seq(Int) /\ EncodeScopedPdu(f, long) \in Seq(Octets)
  <1> DEFINE a == WriteOctets(f.contextEngine)
             b == WriteOctets(f.contextName)
             q == EncodePdu(f.pdu, long)
             c == ScopedContent(f, long)
             s == EncodeScopedPdu(f, long)
             iv == IvOf(f)
             e == Ciphertext(f, long)
             d == ScopedData(f, long)
             p == Raw(long, "scoped", Tag.Sequence, c)
             x == ScopedAs(f, long)
  <1>1. Tag.Sequence \in Octets /\ Tag.OctetString \in Octets /\ Tag.Sequence \in RawTags /\ Tag.OctetString \in RawTags
    BY TagsAre DEF TagNames, RawTags
  <1>2. a \in Seq(Octets) /\ b \in Seq(Octets) /\ q \in Seq(Octets)
    BY EncodableIs, OctetsType, PduType
  <1>3. c \in Seq(Octets)
    <2> HIDE DEF a, b, q
    <2>1. a \o b \o q \in Seq(Octets)
      BY <1>2
    <2> QED
      BY <2>1 DEF ScopedContent, a, b, q
  <1>4. s = Write(long, "scoped", Tag.Sequence, c) /\ p.z = s /\ p.tag = Tag.Sequence /\ p.value = c
    BY DEF EncodeScopedPdu, ScopedContent, Raw
  <1>5. iv \in Seq(Int)
    <2> DEFINE x0 == f.boots
               y0 == f.time
               z0 == f.salt
    <2>1. x0 \in Int /\ y0 \in Int /\ z0 \in Seq(Octets)
      BY EncodableIs
    <2>2. z0 \in Seq(Int)
      <3>1. Octets \subseteq Int
        BY Limits
      <3> QED
        BY <2>1, <3>1, SeqMonotonic
    <2> HIDE DEF x0, y0, z0
    <2>3. <<x0, y0>> \o z0 \in Seq(Int)
      BY <2>1, <2>2
    <2> QED
      BY <2>3 DEF x0, y0, z0, IvOf
  <1>6. d = IF f.encrypted THEN WriteOctets(e) ELSE s
    BY DEF ScopedData, Ciphertext, IvOf
  <1>7. e = Encrypt(iv, s) /\ Len(d) < Room
    BY DEF Ciphertext
  <1>8. x = IF f.encrypted THEN OctetsAs(e) ELSE p
    BY DEF ScopedAs
  <1> HIDE DEF c, s, iv, e, d
  <1>9. s \in Seq(Octets) /\ Len(c) <= Len(s)
    BY <1>1, <1>3, <1>4, WriteIs
  <1>10. e \in Seq(Octets) /\ Len(e) = Len(s)
    BY <1>5, <1>7, <1>9, EncryptType
  <1>11. OctetsAs(e).z = WriteOctets(e) /\ OctetsAs(e).tag = Tag.OctetString /\ OctetsAs(e).value = e
    BY <1>10, OctetsAre DEF OctetsAs, Raw
  <1>12. Len(s) < Room
    <2>1. CASE f.encrypted
      <3>1. d = WriteOctets(e) /\ Len(e) <= Len(WriteOctets(e)) /\ WriteOctets(e) \in Seq(Octets)
        BY <1>6, <1>10, <2>1, OctetsType
      <3> DEFINE m == Len(s)
                 k == Len(d)
      <3>2. m \in Nat /\ k \in Nat /\ m <= k /\ k < Room
        BY <1>7, <1>9, <1>10, <3>1
      <3> HIDE DEF m, k
      <3>3. m < Room
        BY <3>2, RoomIs
      <3> QED
        BY <3>3 DEF m
    <2>2. CASE ~f.encrypted
      BY <1>6, <1>7, <2>2
    <2> QED
      BY <2>1, <2>2
  <1>13. Len(c) < Room
    <2> DEFINE m == Len(c)
               k == Len(s)
    <2>1. m \in Nat /\ k \in Nat /\ m <= k /\ k < Room
      BY <1>3, <1>9, <1>12
    <2> HIDE DEF m, k
    <2>2. m < Room
      BY <2>1, RoomIs
    <2> QED
      BY <2>2 DEF m
  <1>14. Sound(p)
    BY <1>1, <1>3, <1>4, <1>12, RawSound
  <1>15. Sound(x) /\ x.z = d
    <2>1. CASE f.encrypted
      <3>1. x = OctetsAs(e) /\ d = WriteOctets(e)
        BY <1>6, <1>8, <2>1
      <3>2. Write({}, "octets", Tag.OctetString, e) = d
        BY <1>11, <3>1 DEF OctetsAs, Raw
      <3>3. Sound(OctetsAs(e))
        BY <1>1, <1>7, <1>10, <3>2, RawSound DEF OctetsAs
      <3> HIDE DEF x
      <3> QED
        BY <1>11, <3>1, <3>3
    <2>2. CASE ~f.encrypted
      <3>1. x = p /\ d = s
        BY <1>6, <1>8, <2>2
      <3> HIDE DEF x, p
      <3> QED
        BY <1>4, <1>14, <3>1
    <2> QED
      BY <2>1, <2>2
  <1>16. x.tag = (IF f.encrypted THEN Tag.OctetString ELSE Tag.Sequence) /\ x.value = IF f.encrypted THEN e ELSE c
    <2> HIDE DEF x, p
    <2>1. CASE f.encrypted
      BY <1>8, <1>11, <2>1
    <2>2. CASE ~f.encrypted
      BY <1>4, <1>8, <2>2
    <2> QED
      BY <2>1, <2>2
  <1> QED
    BY <1>4, <1>5, <1>9, <1>13, <1>14, <1>15, <1>16 DEF c, s, iv, e, d

\* What RFC 3412 and 3414 let an envelope be.
Allowed(f) ==
    /\ f.version = 3 /\ f.id >= 0 /\ f.maxSize >= MinMaxSize /\ Len(f.flags) = 1 /\ Len(f.user) <= MaxUserName

HeaderOf(f) == [id |-> f.id, maxSize |-> f.maxSize, flags |-> f.flags, model |-> f.model]
UsmOf(f, a, long) ==
    [engine |-> f.engine, boots |-> f.boots, time |-> f.time, user |-> f.user, auth |-> a,
     offset |-> IF a = <<>> THEN NoOffset ELSE Offset(f, a, long), salt |-> f.salt]
EnvelopeOf(f, a, long) ==
    [header |-> HeaderOf(f), usm |-> UsmOf(f, a, long),
     scoped |-> IF f.encrypted THEN Ciphertext(f, long) ELSE ScopedContent(f, long), encrypted |-> f.encrypted]

\* The security parameters are read back, but for names that are too long.
LEMMA UsmParamsRead ==
    ASSUME NEW f, Encodable(f), NEW a \in Seq(Octets), NEW long, Len(EncodeV3Message(f, a, long)) < Room
    PROVE  DecodeUsm(EncodeUsmParams(f, a, long), SecurityAt(f, a, long)) =
               IF Len(f.user) > MaxUserName THEN Error ELSE Ok(UsmOf(f, a, long))
  <1> DEFINE s == EncodeUsmParams(f, a, long)
             base == SecurityAt(f, a, long)
             c == UsmContent(f, a, long)
             outer == ReadFields(s, base, <<Tag.Sequence>>)
             r == ReadFields(c, UsmAt(f, a, long), UsmTags)
  <1>1. outer.ok /\ Value(outer, 1) = c /\ At(outer, 1) = UsmAt(f, a, long) /\ UsmAt(f, a, long) \in Nat
        /\ Len(c) < Room
    BY MessageReads
  <1>2. /\ r.ok /\ Value(r, 4) = f.user /\ Value(r, 5) = a /\ At(r, 5) = Offset(f, a, long)
        /\ Value(r, 1) = f.engine /\ Value(r, 2) = f.boots /\ Value(r, 3) = f.time /\ Value(r, 6) = f.salt
    BY <1>1, UsmReads DEF Offset
  <1>3. DecodeUsm(s, base) =
            IF outer.ok
            THEN Try(ReadFields(Value(outer, 1), At(outer, 1), UsmTags), LAMBDA t :
                     IF Len(Value(t, 4)) > MaxUserName THEN Error
                     ELSE Ok([engine |-> Value(t, 1), boots |-> Value(t, 2), time |-> Value(t, 3), user |-> Value(t, 4),
                              auth   |-> Value(t, 5),
                              offset |-> IF Value(t, 5) = <<>> THEN NoOffset ELSE At(t, 5),
                              salt   |-> Value(t, 6)]))
            ELSE Error
    BY DEF DecodeUsm, Try, UsmTags
  <1> HIDE DEF outer, s, base
  <1>4. DecodeUsm(s, base) =
            IF r.ok
            THEN IF Len(Value(r, 4)) > MaxUserName THEN Error
                 ELSE Ok([engine |-> Value(r, 1), boots |-> Value(r, 2), time |-> Value(r, 3), user |-> Value(r, 4),
                          auth   |-> Value(r, 5),
                          offset |-> IF Value(r, 5) = <<>> THEN NoOffset ELSE At(r, 5),
                          salt   |-> Value(r, 6)])
            ELSE Error
    BY <1>1, <1>3 DEF Try
  <1> HIDE DEF r
  <1> DEFINE o == Offset(f, a, long)
  <1>5. UsmOf(f, a, long) = [engine |-> f.engine, boots |-> f.boots, time |-> f.time, user |-> f.user, auth |-> a,
                             offset |-> IF a = <<>> THEN NoOffset ELSE o, salt |-> f.salt]
    BY DEF UsmOf
  <1> HIDE DEF o
  <1>6. At(r, 5) = o
    BY <1>2 DEF o
  <1>7. DecodeUsm(s, base) =
            IF Len(f.user) > MaxUserName THEN Error
            ELSE Ok([engine |-> f.engine, boots |-> f.boots, time |-> f.time, user |-> f.user, auth |-> a,
                             offset |-> IF a = <<>> THEN NoOffset ELSE o, salt |-> f.salt])
    BY <1>2, <1>4, <1>6
  <1> QED
    BY <1>5, <1>7 DEF s, base

\* A message is read back, if it is one that RFC 3412 and 3414 allow, and
\* refused otherwise; its scoped data is left as it is.
LEMMA EnvelopeReads ==
    ASSUME NEW f, Encodable(f), NEW a \in Seq(Octets), NEW long, Len(EncodeV3Message(f, a, long)) < Room
    PROVE  DecodeV3Envelope(EncodeV3Message(f, a, long)) =
               IF Allowed(f) THEN Ok(EnvelopeOf(f, a, long)) ELSE Error
  <1> DEFINE w == EncodeV3Message(f, a, long)
             b == Body(f, a, long)
             d == ScopedData(f, long)
             message == ReadFields(w, 0, <<Tag.Sequence>>)
             top == ReadFields(b, BodyAt(f, a, long), SecurityTags)
             header == DecodeHeaderData(HeaderContent(f))
             usm == DecodeUsm(EncodeUsmParams(f, a, long), SecurityAt(f, a, long))
             scoped == ReadOneOf(d, {Tag.Sequence, Tag.OctetString})
             x == ScopedAs(f, long)
  <1>1. message.ok /\ Value(message, 1) = b /\ At(message, 1) = BodyAt(f, a, long)
    BY MessageReads
  <1>2. top.ok /\ Value(top, 1) = f.version /\ Value(top, 2) = HeaderContent(f)
        /\ Value(top, 3) = EncodeUsmParams(f, a, long)
        /\ At(top, 3) = SecurityAt(f, a, long) /\ Rest(b, top) = d
    BY MessageReads
  <1>3. Len(HeaderContent(f)) < Room /\ Len(d) < Room
    BY MessageReads
  <1>4. header = IF f.id < 0 \/ f.maxSize < MinMaxSize \/ Len(f.flags) # 1 THEN Error ELSE Ok(HeaderOf(f))
    BY <1>3, HeaderReads DEF HeaderOf
  <1>5. usm = IF Len(f.user) > MaxUserName THEN Error ELSE Ok(UsmOf(f, a, long))
    BY UsmParamsRead
  <1>6. /\ x.z = d /\ Sound(x) /\ x.tag = (IF f.encrypted THEN Tag.OctetString ELSE Tag.Sequence)
        /\ x.value = IF f.encrypted THEN Ciphertext(f, long) ELSE ScopedContent(f, long)
    BY <1>3, ScopedAsIs
  <1>7. f.encrypted \in BOOLEAN /\ Tag.Sequence # Tag.OctetString
    BY EncodableIs, TagsAre DEF TagNames
  <1> HIDE DEF x
  <1>8. scoped.ok /\ Value(scoped, 1) = x.value /\ (Head(d) = Tag.OctetString) = f.encrypted
    <2>1. FirstRead(x.z, x, <<>>, 0)
      BY <1>6, ReadsAlone
    <2>2. FirstRead(d, x, <<>>, 0)
      BY <1>6, <2>1
    <2>3. x.tag \in {Tag.Sequence, Tag.OctetString}
      BY <1>6
    <2> HIDE DEF d
    <2>4. scoped.ok /\ Value(scoped, 1) = x.value /\ Head(d) = x.tag
      BY <2>2, <2>3 DEF FirstRead
    <2>5. (x.tag = Tag.OctetString) = f.encrypted
      BY <1>6, <1>7
    <2> QED
      BY <2>4, <2>5
  <1>9. DecodeV3Envelope(w) =
            IF message.ok
            THEN Try(ReadFields(Value(message, 1), At(message, 1), SecurityTags), LAMBDA t :
                 Try(DecodeHeaderData(Value(t, 2)), LAMBDA h :
                 Try(DecodeUsm(Value(t, 3), At(t, 3)), LAMBDA u :
                 Try(ReadOneOf(Rest(Value(message, 1), t), {Tag.Sequence, Tag.OctetString}), LAMBDA p :
                     IF Value(t, 1) # 3 THEN Error
                     ELSE Ok([header |-> h.value, usm |-> u.value, scoped |-> Value(p, 1),
                              encrypted |-> Head(Rest(Value(message, 1), t)) = Tag.OctetString])))))
            ELSE Error
    BY DEF DecodeV3Envelope, Try, SecurityTags
  <1> HIDE DEF message, w
  <1>10. DecodeV3Envelope(w) =
            IF top.ok
            THEN IF DecodeHeaderData(Value(top, 2)).ok
                 THEN IF DecodeUsm(Value(top, 3), At(top, 3)).ok
                      THEN IF ReadOneOf(Rest(b, top), {Tag.Sequence, Tag.OctetString}).ok
                           THEN IF Value(top, 1) # 3 THEN Error
                                ELSE Ok([header |-> DecodeHeaderData(Value(top, 2)).value,
                                         usm |-> DecodeUsm(Value(top, 3), At(top, 3)).value,
                                         scoped |-> Value(ReadOneOf(Rest(b, top), {Tag.Sequence, Tag.OctetString}), 1),
                                         encrypted |-> Head(Rest(b, top)) = Tag.OctetString])
                           ELSE Error
                      ELSE Error
                 ELSE Error
            ELSE Error
    BY <1>1, <1>9 DEF Try
  <1> HIDE DEF top, b
  <1>11. DecodeV3Envelope(w) =
            IF header.ok /\ usm.ok /\ f.version = 3
            THEN Ok([header |-> header.value, usm |-> usm.value, scoped |-> x.value, encrypted |-> f.encrypted])
            ELSE Error
    <2>1. DecodeV3Envelope(w) =
            IF header.ok
            THEN IF usm.ok
                 THEN IF scoped.ok
                      THEN IF f.version # 3 THEN Error
                           ELSE Ok([header |-> header.value, usm |-> usm.value, scoped |-> Value(scoped, 1),
                                    encrypted |-> Head(d) = Tag.OctetString])
                      ELSE Error
                 ELSE Error
            ELSE Error
      BY <1>2, <1>10
    <2> HIDE DEF header, usm, scoped, d
    <2> QED
      BY <1>8, <2>1
  <1> HIDE DEF header, usm
  <1>12. f.id \in Int /\ f.maxSize \in Int /\ MinMaxSize \in Nat /\ Len(f.user) \in Nat /\ MaxUserName \in Nat
    BY EncodableIs, WordsAre, MessagesAssumption DEF I32s, MessagesAssumption
  <1>13. CASE Allowed(f)
    <2>1. f.version = 3 /\ ~(f.id < 0 \/ f.maxSize < MinMaxSize \/ Len(f.flags) # 1) /\ ~(Len(f.user) > MaxUserName)
      BY <1>12, <1>13 DEF Allowed
    <2>2. header.ok /\ header.value = HeaderOf(f) /\ usm.ok /\ usm.value = UsmOf(f, a, long)
      BY <1>4, <1>5, <2>1, Outcome
    <2>3. [header |-> header.value, usm |-> usm.value, scoped |-> x.value, encrypted |-> f.encrypted]
              = EnvelopeOf(f, a, long)
      BY <1>6, <2>2 DEF EnvelopeOf
    <2> QED
      BY <1>11, <1>13, <2>1, <2>2, <2>3 DEF w
  <1>14. CASE ~Allowed(f)
    <2>1. ~(f.version = 3) \/ (f.id < 0 \/ f.maxSize < MinMaxSize \/ Len(f.flags) # 1) \/ (Len(f.user) > MaxUserName)
      BY <1>12, <1>14 DEF Allowed
    <2>2. ~(header.ok /\ usm.ok /\ f.version = 3)
      BY <1>4, <1>5, <2>1, Outcome
    <2> QED
      BY <1>11, <1>14, <2>2 DEF w
  <1> QED
    BY <1>13, <1>14

\* What a peer encrypted is decrypted with the fields of the message.
LEMMA PlaintextReads ==
    ASSUME NEW f, Encodable(f), NEW long, Len(ScopedData(f, long)) < Room
    PROVE  LET r == ReadFields(Decrypt(<<f.boots, f.time>> \o f.salt, Ciphertext(f, long)), 0, <<Tag.Sequence>>)
           IN  r.ok /\ Value(r, 1) = ScopedContent(f, long) /\ Len(ScopedContent(f, long)) < Room
  <1> DEFINE p == Raw(long, "scoped", Tag.Sequence, ScopedContent(f, long))
             s == EncodeScopedPdu(f, long)
             t == Decrypt(<<f.boots, f.time>> \o f.salt, Ciphertext(f, long))
  <1>1. /\ p.z = s /\ p.tag = Tag.Sequence /\ p.value = ScopedContent(f, long) /\ Sound(p)
        /\ Len(ScopedContent(f, long)) < Room /\ IvOf(f) \in Seq(Int) /\ s \in Seq(Octets)
    BY ScopedAsIs
  <1>2. t = Decrypt(IvOf(f), Encrypt(IvOf(f), s))
    BY DEF Ciphertext, IvOf
  <1> HIDE DEF s, t, p
  <1>3. t = s
    BY <1>1, <1>2, Decrypts
  <1>4. FirstRead(p.z, p, <<>>, 0)
    BY <1>1, ReadsAlone
  <1>5. FirstRead(t, p, <<>>, 0)
    BY <1>1, <1>3, <1>4
  <1>6. ReadFields(t, 0, <<Tag.Sequence>>).ok /\ Value(ReadFields(t, 0, <<Tag.Sequence>>), 1) = ScopedContent(f, long)
    BY <1>1, <1>5 DEF FirstRead
  <1> QED
    BY <1>1, <1>6 DEF t

\* The scoped PDU of a message, as a manager reads it.
LEMMA ManagerReadsMessage ==
    ASSUME NEW f, Encodable(f), NEW a, NEW long, Len(ScopedData(f, long)) < Room,
           f.pdu.tag \in RawTags, Known(f.pdu.varbinds)
    PROVE  ManagerReadsScoped(EnvelopeOf(f, a, long)) =
               Ok([engine |-> f.contextEngine, name |-> f.contextName, pdu |-> f.pdu])
  <1> DEFINE e == EnvelopeOf(f, a, long)
             c == ScopedContent(f, long)
             t == Decrypt(<<e.usm.boots, e.usm.time>> \o e.usm.salt, e.scoped)
             r == ReadFields(t, 0, <<Tag.Sequence>>)
  <1>1. e.encrypted = f.encrypted /\ e.usm.boots = f.boots /\ e.usm.time = f.time /\ e.usm.salt = f.salt
        /\ e.scoped = IF f.encrypted THEN Ciphertext(f, long) ELSE c
    BY DEF EnvelopeOf, UsmOf
  <1>2. ManagerReadsScoped(e) = IF e.encrypted THEN IF r.ok THEN ManagerReads(Value(r, 1)) ELSE Error
                                ELSE ManagerReads(e.scoped)
    BY DEF ManagerReadsScoped, ManagerReads, Try
  <1>3. Len(c) < Room
    BY ScopedAsIs
  <1>4. ManagerReads(c) = Ok([engine |-> f.contextEngine, name |-> f.contextName, pdu |-> f.pdu])
    BY <1>3, ScopedReads
  <1> HIDE DEF e
  <1>5. f.encrypted => r.ok /\ Value(r, 1) = c
    BY <1>1, PlaintextReads
  <1> HIDE DEF r, c
  <1>6. ManagerReadsScoped(e) = ManagerReads(c)
    <2>1. f.encrypted \in BOOLEAN
      BY EncodableIs
    <2>2. CASE f.encrypted
      BY <1>1, <1>2, <1>5, <2>2
    <2>3. CASE ~f.encrypted
      BY <1>1, <1>2, <2>3
    <2> QED
      BY <2>1, <2>2, <2>3
  <1> QED
    BY <1>4, <1>6 DEF e

\* The security parameters, as the agent understands them.
UsmUnderstood(f, a, long) == [UsmOf(f, a, long) EXCEPT !.boots = Unsigned(@), !.time = Unsigned(@)]

\* A request is read as it was meant, and refused if it is not well formed.
LEMMA RequestReads ==
    ASSUME NEW f, Encodable(f), f.encrypted => f.boots >= 0 /\ f.time >= 0,
           NEW a \in Seq(Octets), NEW long, Len(EncodeV3Message(f, a, long)) < Room
    PROVE  DecodeRequest(EncodeV3Message(f, a, long)) =
               IF WellFormed(f)
               THEN Ok([header |-> HeaderOf(f), scoped |-> ScopedUnderstood(f), usm |-> UsmUnderstood(f, a, long)])
               ELSE Error
  <1> DEFINE w == EncodeV3Message(f, a, long)
             c == ScopedContent(f, long)
             d == DecodeV3Envelope(w)
             e == EnvelopeOf(f, a, long)
             wanted == f.pdu.tag \in InboundTags /\ Known(f.pdu.varbinds)
             salted == f.encrypted => Len(f.salt) = SaltOctets
             usm == UsmOf(f, a, long)
  <1>1. d = IF Allowed(f) THEN Ok(e) ELSE Error
    BY EnvelopeReads
  <1>2. Len(ScopedData(f, long)) < Room
    BY MessageReads
  <1>3. Len(c) < Room
    BY <1>2, ScopedAsIs
  <1>4. DecodeScoped(c) = IF wanted THEN Ok(ScopedUnderstood(f)) ELSE Error
    BY <1>3, ScopedReads
  <1>5. /\ e.encrypted = f.encrypted /\ e.header = HeaderOf(f) /\ e.usm = usm
        /\ e.scoped = IF f.encrypted THEN Ciphertext(f, long) ELSE c
    BY DEF EnvelopeOf
  <1>6. usm.boots = f.boots /\ usm.time = f.time /\ usm.salt = f.salt
    BY DEF UsmOf
  <1>7. WellFormed(f) <=> Allowed(f) /\ salted /\ wanted
    BY DEF WellFormed, Allowed, ValuesOnly, Known
  <1>8. f.encrypted \in BOOLEAN /\ f.boots \in Int /\ f.time \in Int
    BY EncodableIs
  <1>9. ASSUME f.encrypted
        PROVE  DecryptScoped(usm, Ciphertext(f, long)) = IF salted THEN DecodeScoped(c) ELSE Error
    <2> DEFINE iv == Iv(Unsigned(usm.boots), Unsigned(usm.time), usm.salt)
               r == ReadFields(Decrypt(iv, Ciphertext(f, long)), 0, <<Tag.Sequence>>)
    <2>1. Unsigned(f.boots) = f.boots /\ Unsigned(f.time) = f.time
      BY <1>8, <1>9 DEF Unsigned
    <2>2. iv = <<f.boots, f.time>> \o f.salt
      BY <1>6, <2>1 DEF Iv
    <2> HIDE DEF iv
    <2>3. r.ok /\ Value(r, 1) = c
      BY <1>2, <2>2, PlaintextReads
    <2>4. DecryptScoped(usm, Ciphertext(f, long)) =
              IF ~ValidSalt(usm.salt) THEN Error ELSE IF r.ok THEN DecodeScoped(Value(r, 1)) ELSE Error
      BY DEF DecryptScoped, Try, iv
    <2>5. ValidSalt(usm.salt) <=> salted
      BY <1>6, <1>9 DEF ValidSalt
    <2> HIDE DEF r, c, usm
    <2> QED
      BY <2>3, <2>4, <2>5
  <1> DEFINE inner == IF d.value.encrypted THEN DecryptScoped(d.value.usm, d.value.scoped)
                      ELSE DecodeScoped(d.value.scoped)
  <1>10. DecodeRequest(w) =
             IF d.ok
             THEN IF inner.ok
                  THEN Ok([header |-> d.value.header, scoped |-> inner.value,
                           usm |-> [d.value.usm EXCEPT !.boots = Unsigned(@), !.time = Unsigned(@)]])
                  ELSE Error
             ELSE Error
    BY DEF DecodeRequest, Try
  <1>11. CASE ~Allowed(f)
    <2>1. ~d.ok
      BY <1>1, <1>11, Outcome
    <2> HIDE DEF d, inner
    <2> QED
      BY <1>7, <1>10, <1>11, <2>1
  <1>12. CASE Allowed(f)
    <2>1. d.ok /\ d.value = e
      BY <1>1, <1>12, Outcome
    <2> HIDE DEF d, e, c, usm, wanted, salted, w
    <2>2. inner = IF salted /\ wanted THEN Ok(ScopedUnderstood(f)) ELSE Error
      <3>1. CASE f.encrypted
        BY <1>4, <1>5, <1>9, <2>1, <3>1
      <3>2. CASE ~f.encrypted
        <4>1. salted
          BY <3>2 DEF salted
        <4> QED
          BY <1>4, <1>5, <2>1, <3>2, <4>1
      <3> QED
        BY <1>8, <3>1, <3>2
    <2> DEFINE u == [usm EXCEPT !.boots = Unsigned(@), !.time = Unsigned(@)]
    <2>3. DecodeRequest(w) =
             IF inner.ok THEN Ok([header |-> HeaderOf(f), scoped |-> inner.value, usm |-> u])
             ELSE Error
      <3> HIDE DEF inner
      <3> QED
        BY <1>5, <1>10, <2>1
    <2>4. u = UsmUnderstood(f, a, long)
      BY DEF UsmUnderstood, usm
    <2> HIDE DEF u, inner
    <2>5. CASE salted /\ wanted
      <3>1. inner.ok /\ inner.value = ScopedUnderstood(f) /\ WellFormed(f)
        BY <1>7, <1>12, <2>2, <2>5, Outcome
      <3> QED
        BY <2>3, <2>4, <3>1 DEF w
    <2>6. CASE ~(salted /\ wanted)
      <3>1. ~inner.ok /\ ~WellFormed(f)
        BY <1>7, <2>2, <2>6, Outcome
      <3> QED
        BY <2>3, <3>1 DEF w
    <2> QED
      BY <2>5, <2>6
  <1> QED
    BY <1>11, <1>12

-----------------------------------------------------------------------------
(* The place of the MAC *)

\* The encoder and the decoders agree on the place of the MAC, and what RFC
\* 3412 allows is read.
LEMMA Located ==
    ASSUME NEW f, Encodable(f), NEW a \in Seq(Octets), NEW long, Len(EncodeV3Message(f, a, long)) < Room
    PROVE  LET w == EncodeV3Message(f, a, long)
               envelope == DecodeV3Envelope(w)
           IN  /\ FindAuthParamsOffset(w) = Offset(f, a, long)
               /\ envelope.ok => /\ envelope.value.usm.auth = a
                                 /\ envelope.value.usm.offset = IF a = <<>> THEN NoOffset ELSE Offset(f, a, long)
               /\ f.version = 3 /\ f.id >= 0 /\ f.maxSize >= MinMaxSize /\ Len(f.flags) = 1
                     /\ Len(f.user) <= MaxUserName => envelope.ok
  <1> DEFINE w == EncodeV3Message(f, a, long)
             b == Body(f, a, long)
             u == EncodeUsmParams(f, a, long)
             c == UsmContent(f, a, long)
             d == ScopedData(f, long)
             message == ReadFields(w, 0, <<Tag.Sequence>>)
             top == ReadFields(Value(message, 1), At(message, 1), SecurityTags)
             outer == ReadFields(Value(top, 3), At(top, 3), <<Tag.Sequence>>)
             r == ReadFields(Value(outer, 1), At(outer, 1), UsmTags)
             t == ReadFields(Value(outer, 1), At(outer, 1), AuthTags)
             usm == DecodeUsm(Value(top, 3), At(top, 3))
             envelope == DecodeV3Envelope(w)
             o == Offset(f, a, long)
  <1>1. message.ok /\ Value(message, 1) = b /\ At(message, 1) = BodyAt(f, a, long)
    BY MessageReads
  <1>2. top = ReadFields(b, BodyAt(f, a, long), SecurityTags)
    BY <1>1
  <1>3. top.ok /\ Value(top, 1) = f.version /\ Value(top, 2) = HeaderContent(f) /\ Value(top, 3) = u
        /\ At(top, 3) = SecurityAt(f, a, long) /\ Rest(Value(message, 1), top) = d
    <2> HIDE DEF top, message
    <2> QED
      BY <1>1, <1>2, MessageReads
  <1>4. outer = ReadFields(u, SecurityAt(f, a, long), <<Tag.Sequence>>)
    BY <1>3
  <1>5. outer.ok /\ Value(outer, 1) = c /\ At(outer, 1) = UsmAt(f, a, long)
    <2> HIDE DEF outer
    <2> QED
      BY <1>4, MessageReads
  <1>6. UsmAt(f, a, long) \in Nat /\ Len(c) < Room /\ Len(HeaderContent(f)) < Room /\ Len(d) < Room
    BY MessageReads
  <1>7. r = ReadFields(c, UsmAt(f, a, long), UsmTags) /\ t = ReadFields(c, UsmAt(f, a, long), AuthTags)
    BY <1>5
  <1>8. r.ok /\ Value(r, 4) = f.user /\ Value(r, 5) = a /\ At(r, 5) = o /\ t.ok /\ At(t, 5) = o
    <2> HIDE DEF r, t
    <2> QED
      BY <1>6, <1>7, UsmReads DEF Offset
  <1>9. FindAuthParamsOffset(w) = o
    <2>1. message.ok /\ top.ok /\ outer.ok /\ t.ok => FindAuthParamsOffset(w) = At(t, 5)
      BY FindIs
    <2> HIDE DEF w, o, message, top, outer, t
    <2> QED
      BY <1>1, <1>3, <1>5, <1>8, <2>1
  <1>10. usm.ok <=> outer.ok /\ r.ok /\ ~(Len(Value(r, 4)) > MaxUserName)
    BY DecodeUsmIs
  <1>11. usm.ok => usm.value.auth = Value(r, 5)
                   /\ usm.value.offset = IF Value(r, 5) = <<>> THEN NoOffset ELSE At(r, 5)
    BY DecodeUsmIs
  <1>12. envelope.ok => usm.ok /\ envelope.value.usm = usm.value
    BY EnvelopeIs
  <1>13. envelope.ok => envelope.value.usm.auth = a
                        /\ envelope.value.usm.offset = IF a = <<>> THEN NoOffset ELSE o
    <2> HIDE DEF envelope, usm, r, o
    <2> QED
      BY <1>8, <1>11, <1>12
  <1>14. ASSUME f.version = 3, f.id >= 0, f.maxSize >= MinMaxSize, Len(f.flags) = 1, Len(f.user) <= MaxUserName
         PROVE  envelope.ok
    <2> DEFINE header == DecodeHeaderData(Value(top, 2))
               scoped == ReadOneOf(Rest(Value(message, 1), top), {Tag.Sequence, Tag.OctetString})
    <2>1. message.ok /\ top.ok /\ header.ok /\ usm.ok /\ scoped.ok /\ Value(top, 1) = 3 => envelope.ok
      BY EnvelopeIs
    <2>2. usm.ok
      <3>1. Len(f.user) \in Nat /\ MaxUserName \in Nat
        BY EncodableIs, MessagesAssumption DEF MessagesAssumption
      <3>2. ~(Len(f.user) > MaxUserName)
        BY <1>14, <3>1
      <3> HIDE DEF usm, outer, r
      <3> QED
        BY <1>5, <1>8, <1>10, <3>2
    <2>3. header.ok
      <3>1. ~(f.id < 0 \/ f.maxSize < MinMaxSize \/ Len(f.flags) # 1)
        <4>1. f.id \in Int /\ f.maxSize \in Int /\ MinMaxSize \in Nat
          BY EncodableIs, WordsAre, MessagesAssumption DEF I32s, MessagesAssumption
        <4> QED
          BY <1>14, <4>1
      <3>2. DecodeHeaderData(HeaderContent(f)).ok
        BY <1>6, <3>1, HeaderReads DEF Ok
      <3> HIDE DEF top
      <3> QED
        BY <1>3, <3>2
    <2>4. scoped.ok
      <3>1. PICK tag \in {Tag.Sequence, Tag.OctetString}, content \in Seq(Octets) : IsTlv(d, tag, content)
        BY <1>6, ScopedDataIs
      <3> DEFINE x == [z |-> d, tag |-> tag, content |-> content, value |-> content]
                 none == <<>>
      <3>2. tag \in RawTags
        BY DEF RawTags
      <3>3. Sound(x)
        <4>1. tag \in Octets
          BY <3>2, TagsAre DEF TagNames, RawTags
        <4> QED
          BY <3>1, <3>2, <4>1, RawContent DEF Sound, IsField
      <3>4. x.z = d /\ x.tag = tag
        OBVIOUS
      <3>5. none \in Seq(Octets) /\ 0 \in Nat
        OBVIOUS
      <3> HIDE DEF x, d
      <3>6. Reached(x.z \o none, 0, <<x.tag>>, x.z, <<Seen(x, 0, <<>>)>>)
        BY <3>3, <3>5, ReadOne
      <3>7. d \in Seq(Octets) /\ d \o none = d /\ d # <<>> /\ d[1] = tag
        BY <3>1 DEF IsTlv
      <3> HIDE DEF none
      <3>8. ReadFields(d, 0, <<tag>>) = Progress(Len(d), <<Seen(x, 0, <<>>)>>)
        BY <3>4, <3>6, <3>7 DEF Reached
      <3>9. ReadOneOf(d, {Tag.Sequence, Tag.OctetString}) = ReadFields(d, 0, <<tag>>)
        BY <3>7 DEF ReadOneOf
      <3>10. ReadOneOf(d, {Tag.Sequence, Tag.OctetString}).ok
        BY <3>8, <3>9 DEF Progress
      <3> HIDE DEF top, message
      <3> QED
        BY <1>3, <3>10
    <2> HIDE DEF message, top, usm, header, scoped, envelope
    <2> QED
      BY <1>1, <1>3, <1>14, <2>1, <2>2, <2>3, <2>4
  <1> QED
    BY <1>9, <1>13, <1>14

-----------------------------------------------------------------------------
(* The same message around another MAC *)

\* The two are alike, except that one has b where the other has a, k octets in.
Alike(s, a, t, b, k) ==
    \E p, q \in Seq(Octets) : s = p \o (a \o q) /\ t = p \o (b \o q) /\ Len(p) = k

\* Octets after octets are octets.
LEMMA Joins ==
    \A a, b \in Seq(Octets) : a \o b \in Seq(Octets) /\ Len(a \o b) = Len(a) + Len(b)
  OBVIOUS

\* The two stay alike behind something.
LEMMA AlikeAfter ==
    ASSUME NEW a \in Seq(Octets), NEW b \in Seq(Octets), NEW s, NEW t, NEW k, Alike(s, a, t, b, k),
           NEW x \in Seq(Octets)
    PROVE  Alike(x \o s, a, x \o t, b, Len(x) + k)
  <1>1. PICK p \in Seq(Octets), q \in Seq(Octets) : s = p \o (a \o q) /\ t = p \o (b \o q) /\ Len(p) = k
    BY DEF Alike
  <1> DEFINE g == a \o q
             h == b \o q
             e == x \o p
  <1>2. g \in Seq(Octets) /\ h \in Seq(Octets) /\ p \in Seq(Octets)
    BY <1>1, Joins
  <1>3. s = p \o g /\ t = p \o h
    BY <1>1
  <1> HIDE DEF g, h
  <1>4. OctetPieces(x, p, g) /\ OctetPieces(x, p, h)
    BY <1>2 DEF OctetPieces
  <1>5. Regroup(x, p, g) /\ Regroup(x, p, h)
    BY <1>4, Regrouped
  <1>6. e \in Seq(Octets) /\ Len(e) = Len(x) + k
    BY <1>1, Joins
  <1>7. x \o s = e \o g /\ x \o t = e \o h
    BY <1>3, <1>5 DEF Regroup
  <1> HIDE DEF e
  <1> QED
    BY <1>1, <1>6, <1>7 DEF Alike, g, h

\* The two stay alike before something.
LEMMA AlikeBefore ==
    ASSUME NEW a \in Seq(Octets), NEW b \in Seq(Octets), NEW s, NEW t, NEW k, Alike(s, a, t, b, k),
           NEW y \in Seq(Octets)
    PROVE  Alike(s \o y, a, t \o y, b, k)
  <1>1. PICK p \in Seq(Octets), q \in Seq(Octets) : s = p \o (a \o q) /\ t = p \o (b \o q) /\ Len(p) = k
    BY DEF Alike
  <1> DEFINE g == a \o q
             h == b \o q
             e == q \o y
  <1>2. g \in Seq(Octets) /\ h \in Seq(Octets)
    BY <1>1, Joins
  <1>3. s = p \o g /\ t = p \o h
    BY <1>1
  <1>4. OctetPieces(a, q, y) /\ OctetPieces(b, q, y)
    BY <1>1 DEF OctetPieces
  <1>5. Regroup(a, q, y) /\ Regroup(b, q, y)
    BY <1>4, Regrouped
  <1>6. e \in Seq(Octets) /\ g \o y = a \o e /\ h \o y = b \o e
    BY <1>1, <1>5, Joins DEF Regroup
  <1> HIDE DEF g, h, e
  <1>7. OctetPieces(p, g, y) /\ OctetPieces(p, h, y)
    BY <1>1, <1>2 DEF OctetPieces
  <1>8. Regroup(p, g, y) /\ Regroup(p, h, y)
    BY <1>7, Regrouped
  <1>9. s \o y = p \o (a \o e) /\ t \o y = p \o (b \o e)
    BY <1>3, <1>6, <1>8 DEF Regroup
  <1> QED
    BY <1>1, <1>6, <1>9 DEF Alike

\* The two stay alike between other octets.
LEMMA AlikeBetween ==
    ASSUME NEW a \in Seq(Octets), NEW b \in Seq(Octets), NEW s, NEW t, NEW k, Alike(s, a, t, b, k),
           NEW x \in Seq(Octets), NEW y \in Seq(Octets)
    PROVE  Alike(x \o s \o y, a, x \o t \o y, b, Len(x) + k)
  <1>1. Alike(x \o s, a, x \o t, b, Len(x) + k)
    BY AlikeAfter
  <1> QED
    BY <1>1, AlikeBefore

\* The two are octets, and as long.
LEMMA AlikeType ==
    ASSUME NEW a \in Seq(Octets), NEW b \in Seq(Octets), Len(a) = Len(b), NEW s, NEW t, NEW k, Alike(s, a, t, b, k)
    PROVE  s \in Seq(Octets) /\ t \in Seq(Octets) /\ Len(s) = Len(t) /\ k \in Nat /\ k + Len(a) <= Len(s)
  <1>1. PICK p \in Seq(Octets), q \in Seq(Octets) : s = p \o (a \o q) /\ t = p \o (b \o q) /\ Len(p) = k
    BY DEF Alike
  <1>2. a \o q \in Seq(Octets) /\ b \o q \in Seq(Octets) /\ Len(a \o q) = Len(a) + Len(q) /\ Len(b \o q) = Len(a) + Len(q)
    BY Joins
  <1>3. s \in Seq(Octets) /\ t \in Seq(Octets) /\ Len(s) = k + Len(a \o q) /\ Len(t) = k + Len(b \o q)
    BY <1>1, <1>2, Joins
  <1>4. k \in Nat /\ Len(a) \in Nat /\ Len(q) \in Nat
    BY <1>1
  <1> QED
    BY <1>2, <1>3, <1>4

\* The two stay alike as contents of a TLV: its length is the same.
LEMMA AlikeWrite ==
    ASSUME NEW a \in Seq(Octets), NEW b \in Seq(Octets), Len(a) = Len(b), NEW s, NEW t, NEW k, Alike(s, a, t, b, k),
           NEW tag \in Octets, NEW long, NEW name
    PROVE  LET z == Write(long, name, tag, s)
           IN  Alike(z, a, Write(long, name, tag, t), b, Len(z) - Len(s) + k)
  <1> DEFINE o == Opening(long, name, tag, Len(s))
             z == Write(long, name, tag, s)
             y == Write(long, name, tag, t)
             none == <<>>
  <1>1. s \in Seq(Octets) /\ t \in Seq(Octets) /\ Len(s) = Len(t) /\ k \in Nat
    BY AlikeType
  <1>2. z = o \o s /\ y = o \o t /\ Len(z) = Len(o) + Len(s)
    <2>1. z = o \o s /\ Len(z) = Len(o) + Len(s)
      BY <1>1, WriteIs
    <2>2. y = Opening(long, name, tag, Len(t)) \o t
      BY <1>1, WriteIs
    <2> QED
      BY <1>1, <2>1, <2>2
  <1>3. o \in Seq(Octets)
    BY <1>1, OpeningType
  <1>4. none \in Seq(Octets) /\ (o \o s) \o none = o \o s /\ (o \o t) \o none = o \o t
    <2> HIDE DEF o
    <2> QED
      BY <1>1, <1>3
  <1> HIDE DEF o, z, y, none
  <1>5. Alike(o \o s \o none, a, o \o t \o none, b, Len(o) + k)
    BY <1>3, <1>4, AlikeBetween
  <1>6. Len(o) + k = Len(z) - Len(s) + k
    BY <1>1, <1>2, <1>3
  <1>7. Alike(z, a, y, b, Len(z) - Len(s) + k)
    BY <1>2, <1>4, <1>5, <1>6
  <1> QED
    BY <1>7 DEF z, y

\* A message with another MAC of the same length differs in the MAC only.
LEMMA MessagesAlike ==
    ASSUME NEW f, Encodable(f), NEW a \in Seq(Octets), NEW b \in Seq(Octets), Len(a) = Len(b), NEW long
    PROVE  Alike(EncodeV3Message(f, a, long), a, EncodeV3Message(f, b, long), b, Offset(f, a, long))
  <1> DEFINE tag == Tag.OctetString
             sq == Tag.Sequence
             au(x) == Write(long, "auth", tag, x)
             uf == UsmFront(f, long)
             sa == WriteOctets(f.salt)
             c(x) == UsmContent(f, x, long)
             u(x) == EncodeUsmParams(f, x, long)
             se(x) == Security(f, x, long)
             fr == MessageFront(f, long)
             d == ScopedData(f, long)
             bo(x) == Body(f, x, long)
             w(x) == EncodeV3Message(f, x, long)
             none == <<>>
  <1>1. tag \in Octets /\ sq \in Octets
    BY TagsAre DEF TagNames
  <1>2. uf \in Seq(Octets) /\ sa \in Seq(Octets) /\ fr \in Seq(Octets) /\ d \in Seq(Octets)
    BY PartsType, ScopedDataIs, EncodableIs, OctetsType
  <1>3. \A x : /\ c(x) = uf \o au(x) \o sa /\ u(x) = Write(long, "usm", sq, c(x))
               /\ se(x) = Write(long, "security", tag, u(x)) /\ bo(x) = fr \o se(x) \o d
               /\ w(x) = Write(long, "message", sq, bo(x))
    BY PartsAre DEF UsmContent, Security, Body
  <1>4. Offset(f, a, long) =
            (Len(w(a)) - Len(bo(a))) + Len(fr) + Len(se(a)) - Len(u(a)) + Len(u(a)) - Len(c(a)) + Len(uf) + Len(au(a))
                - Len(a)
    BY DEF Offset, AuthAt, UsmAt, SecurityAt, BodyAt
  <1> DEFINE k1 == Len(au(a)) - Len(a) + 0
             k2 == Len(uf) + k1
             k3 == Len(u(a)) - Len(c(a)) + k2
             k4 == Len(se(a)) - Len(u(a)) + k3
             k5 == Len(fr) + k4
             k6 == Len(w(a)) - Len(bo(a)) + k5
  <1> HIDE DEF tag, sq, uf, sa, c, u, se, fr, d, bo, w
  <1>5. Alike(a, a, b, b, 0)
    <2>1. none \in Seq(Octets) /\ a = none \o (a \o none) /\ b = none \o (b \o none) /\ Len(none) = 0
      OBVIOUS
    <2> HIDE DEF none
    <2> QED
      BY <2>1 DEF Alike
  <1>6. Alike(au(a), a, au(b), b, k1)
    BY <1>1, <1>5, AlikeWrite
  <1> HIDE DEF au, k1
  <1>7. Alike(c(a), a, c(b), b, k2)
    BY <1>2, <1>3, <1>6, AlikeBetween
  <1> HIDE DEF k2
  <1>8. Alike(u(a), a, u(b), b, k3)
    <2>1. Alike(Write(long, "usm", sq, c(a)), a, Write(long, "usm", sq, c(b)), b,
                Len(Write(long, "usm", sq, c(a))) - Len(c(a)) + k2)
      BY <1>1, <1>7, AlikeWrite
    <2> QED
      BY <1>3, <2>1
  <1> HIDE DEF k3
  <1>9. Alike(se(a), a, se(b), b, k4)
    <2>1. Alike(Write(long, "security", tag, u(a)), a, Write(long, "security", tag, u(b)), b,
                Len(Write(long, "security", tag, u(a))) - Len(u(a)) + k3)
      BY <1>1, <1>8, AlikeWrite
    <2> QED
      BY <1>3, <2>1
  <1> HIDE DEF k4
  <1>10. Alike(bo(a), a, bo(b), b, k5)
    BY <1>2, <1>3, <1>9, AlikeBetween
  <1> HIDE DEF k5
  <1>11. Alike(w(a), a, w(b), b, k6)
    <2>1. Alike(Write(long, "message", sq, bo(a)), a, Write(long, "message", sq, bo(b)), b,
                Len(Write(long, "message", sq, bo(a))) - Len(bo(a)) + k5)
      BY <1>1, <1>10, AlikeWrite
    <2> QED
      BY <1>3, <2>1
  <1>12. k6 = Offset(f, a, long)
    <2> DEFINE n1 == Len(a)
               n2 == Len(au(a))
               n3 == Len(uf)
               n4 == Len(c(a))
               n5 == Len(u(a))
               n6 == Len(se(a))
               n7 == Len(fr)
               n8 == Len(bo(a))
               n9 == Len(w(a))
    <2>1. au(a) \in Seq(Octets) /\ c(a) \in Seq(Octets) /\ u(a) \in Seq(Octets) /\ se(a) \in Seq(Octets)
          /\ bo(a) \in Seq(Octets) /\ w(a) \in Seq(Octets)
      BY <1>6, <1>7, <1>8, <1>9, <1>10, <1>11, AlikeType
    <2>2. n1 \in Nat /\ n2 \in Nat /\ n3 \in Nat /\ n4 \in Nat /\ n5 \in Nat /\ n6 \in Nat /\ n7 \in Nat /\ n8 \in Nat
          /\ n9 \in Nat
      BY <1>2, <2>1
    <2>3. Offset(f, a, long) = (n9 - n8) + n7 + n6 - n5 + n5 - n4 + n3 + n2 - n1
      BY <1>4
    <2>4. k6 = (n9 - n8) + (n7 + ((n6 - n5) + ((n5 - n4) + (n3 + ((n2 - n1) + 0)))))
      BY DEF k1, k2, k3, k4, k5
    <2> HIDE DEF n1, n2, n3, n4, n5, n6, n7, n8, n9, k6
    <2> QED
      BY <2>2, <2>3, <2>4
  <1> QED
    BY <1>11, <1>12 DEF w

\* Overwrite, by its positions.
LEMMA OverwriteIs ==
    ASSUME NEW s \in Seq(Octets), NEW k \in Nat, NEW b \in Seq(Octets), k + Len(b) <= Len(s)
    PROVE  /\ Overwrite(s, k, b) \in Seq(Octets) /\ Len(Overwrite(s, k, b)) = Len(s)
           /\ \A i \in 1..Len(s) : Overwrite(s, k, b)[i] = IF k < i /\ i <= k + Len(b) THEN b[i - k] ELSE s[i]
  <1> DEFINE t == Overwrite(s, k, b)
             n == Len(s)
             m == Len(b)
  <1>1. n \in Nat /\ m \in Nat /\ DOMAIN s = 1..n
    OBVIOUS
  <1>2. t = [i \in 1..n |-> IF i \in (k + 1)..(k + m) THEN b[i - k] ELSE s[i]]
    BY <1>1 DEF Overwrite
  <1> HIDE DEF t, n, m
  <1>3. \A i \in 1..n : i \in (k + 1)..(k + m) <=> k < i /\ i <= k + m
    BY <1>1
  <1>4. \A i \in 1..n : t[i] = IF k < i /\ i <= k + m THEN b[i - k] ELSE s[i]
    BY <1>2, <1>3
  <1>5. \A i \in 1..n : t[i] \in Octets
    <2>1. \A i \in 1..n : k < i /\ i <= k + m => i - k \in 1..m
      BY <1>1
    <2>2. (\A i \in 1..n : s[i] \in Octets) /\ \A i \in 1..m : b[i] \in Octets
      BY DEF n, m
    <2> QED
      BY <1>4, <2>1, <2>2
  <1>6. DOMAIN t = 1..n
    BY <1>2
  <1>7. t = [i \in 1..n |-> t[i]]
    BY <1>2
  <1>8. t \in Seq(Octets) /\ Len(t) = n
    BY <1>1, <1>5, <1>7, SequenceOf
  <1> QED
    BY <1>4, <1>8 DEF t, n, m

\* Writing b over a.
LEMMA AlikeOverwrites ==
    ASSUME NEW a \in Seq(Octets), NEW b \in Seq(Octets), Len(a) = Len(b), NEW s, NEW t, NEW k, Alike(s, a, t, b, k)
    PROVE  t = Overwrite(s, k, b)
  <1>1. PICK p \in Seq(Octets), q \in Seq(Octets) : s = p \o (a \o q) /\ t = p \o (b \o q) /\ Len(p) = k
    BY DEF Alike
  <1> DEFINE m == Len(a)
             r == Len(q)
             v == Overwrite(s, k, b)
  <1>2. s \in Seq(Octets) /\ t \in Seq(Octets) /\ Len(s) = Len(t) /\ k \in Nat /\ k + m <= Len(s)
    BY AlikeType
  <1>3. v \in Seq(Octets) /\ Len(v) = Len(s)
        /\ \A i \in 1..Len(s) : v[i] = IF k < i /\ i <= k + m THEN b[i - k] ELSE s[i]
    BY <1>2, OverwriteIs
  <1>4. m \in Nat /\ r \in Nat
    OBVIOUS
  <1>5. ASSUME NEW e \in Seq(Octets), Len(e) = m
        PROVE  /\ Len(p \o (e \o q)) = k + m + r
               /\ \A i \in 1..k : (p \o (e \o q))[i] = p[i]
               /\ \A i \in 1..m : (p \o (e \o q))[k + i] = e[i]
               /\ \A i \in 1..r : (p \o (e \o q))[k + (m + i)] = q[i]
    <2> DEFINE g == e \o q
               h == p \o g
    <2>1. g \in Seq(Octets) /\ Len(g) = m + r /\ (\A i \in 1..m : g[i] = e[i]) /\ \A i \in 1..r : g[m + i] = q[i]
      <3>1. /\ g \in Seq(Octets) /\ Len(g) = Len(e) + r /\ (\A i \in 1..Len(e) : g[i] = e[i])
            /\ \A i \in 1..r : g[Len(e) + i] = q[i]
        BY Joined
      <3> HIDE DEF m, r, g
      <3> QED
        BY <1>5, <3>1
    <2> HIDE DEF g
    <2>2. Len(h) = k + Len(g) /\ (\A i \in 1..k : h[i] = p[i]) /\ \A i \in 1..Len(g) : h[k + i] = g[i]
      <3>0. p \in Seq(Octets) /\ g \in Seq(Octets)
        BY <1>1, <2>1
      <3>1. /\ Len(h) = Len(p) + Len(g) /\ (\A i \in 1..Len(p) : h[i] = p[i])
            /\ \A i \in 1..Len(g) : h[Len(p) + i] = g[i]
        BY <3>0, Joined
      <3> HIDE DEF h
      <3> QED
        BY <1>1, <3>1
    <2> HIDE DEF h
    <2>3. \A i \in 1..m : i \in 1..Len(g)
      BY <1>4, <2>1
    <2>4. \A i \in 1..r : m + i \in 1..Len(g)
      BY <1>4, <2>1
    <2>5. Len(h) = k + m + r
      BY <1>2, <1>4, <2>1, <2>2
    <2> QED
      BY <2>1, <2>2, <2>3, <2>4, <2>5 DEF g, h
  <1>6. /\ Len(s) = k + m + r /\ (\A i \in 1..k : s[i] = p[i]) /\ (\A i \in 1..r : s[k + (m + i)] = q[i])
        /\ (\A i \in 1..k : t[i] = p[i]) /\ (\A i \in 1..m : t[k + i] = b[i]) /\ \A i \in 1..r : t[k + (m + i)] = q[i]
    BY <1>1, <1>5
  <1> HIDE DEF m, r, v
  <1>7. ASSUME NEW i \in 1..Len(t) PROVE t[i] = v[i]
    <2>1. i \in 1..Len(s) /\ i \in Nat /\ i <= k + m + r
      BY <1>2, <1>6
    <2>2. CASE i <= k
      <3>1. i \in 1..k /\ ~(k < i)
        BY <1>2, <2>1, <2>2
      <3> QED
        BY <1>3, <1>6, <2>1, <3>1
    <2>3. CASE k < i /\ i <= k + m
      <3>1. i - k \in 1..m /\ k + (i - k) = i
        BY <1>2, <1>4, <2>1, <2>3
      <3>2. t[k + (i - k)] = b[i - k]
        BY <1>6, <3>1
      <3> QED
        BY <1>3, <2>1, <2>3, <3>1, <3>2
    <2>4. CASE k + m < i
      <3>1. i - k - m \in 1..r /\ k + (m + (i - k - m)) = i /\ ~(i <= k + m)
        BY <1>2, <1>4, <2>1, <2>4
      <3>2. t[k + (m + (i - k - m))] = q[i - k - m] /\ s[k + (m + (i - k - m))] = q[i - k - m]
        BY <1>6, <3>1
      <3> QED
        BY <1>3, <2>1, <3>1, <3>2
    <2> QED
      BY <1>2, <1>4, <2>1, <2>2, <2>3, <2>4
  <1>8. t = v
    BY <1>2, <1>3, <1>7, SeqEqual
  <1> QED
    BY <1>8 DEF v

-----------------------------------------------------------------------------
(* One changed octet *)

\* The first and the last octet other than zero.
LEMMA Ends ==
    ASSUME NEW m \in Seq(Octets), NEW x \in 1..Len(m), m[x] # 0
    PROVE  \E p, q \in 1..Len(m) :
              /\ p <= q /\ m[p] # 0 /\ m[q] # 0
              /\ \A i \in 1..Len(m) : (i < p => m[i] = 0) /\ (i > q => m[i] = 0)
  <1> DEFINE n == Len(m)
             S == {i \in 1..n : m[i] # 0}
             T == {n - i : i \in S}
  <1>1. n \in Nat
    OBVIOUS
  <1> HIDE DEF n
  <1>2. S \subseteq Nat /\ S # {} /\ T \subseteq Nat /\ T # {}
    BY <1>1 DEF n
  <1>3. PICK p \in S : \A i \in S : p <= i
    BY <1>2, LeastNatural
  <1>4. PICK d \in T : \A e \in T : d <= e
    <2> HIDE DEF T
    <2> QED
      BY <1>2, LeastNatural
  <1>5. PICK q \in S : d = n - q
    BY <1>4
  <1>6. \A i \in S : i <= q
    <2>1. \A i \in S : n - q <= n - i
      BY <1>4, <1>5
    <2> QED
      BY <1>1, <1>5, <2>1
  <1>7. p \in 1..n /\ q \in 1..n /\ p <= q /\ m[p] # 0 /\ m[q] # 0
    BY <1>3, <1>5, <1>6
  <1>8. \A i \in 1..n : (i < p => m[i] = 0) /\ (i > q => m[i] = 0)
    <2>1. \A i \in 1..n : m[i] # 0 => p <= i /\ i <= q
      BY <1>3, <1>6
    <2>2. \A i \in 1..n : (i < p => ~(p <= i)) /\ (i > q => ~(i <= q))
      BY <1>7
    <2> QED
      BY <2>1, <2>2
  <1> QED
    BY <1>7, <1>8 DEF n

TwoDifferences(s, t) == \E y, z \in 1..Len(s) : y # z /\ s[y] # t[y] /\ s[z] # t[z]

\* A MAC written at two places into zeros makes two differences.
LEMMA TwoPlaces ==
    ASSUME NEW s \in Seq(Octets), NEW m \in Seq(Octets), NEW a \in Nat, NEW b \in Nat, a < b,
           b + Len(m) <= Len(s), \A i \in 1..Len(m) : s[a + i] = 0 /\ s[b + i] = 0,
           NEW x \in 1..Len(m), m[x] # 0
    PROVE  TwoDifferences(Overwrite(s, a, m), Overwrite(s, b, m))
  <1> DEFINE n == Len(m)
             l == Len(s)
             A == Overwrite(s, a, m)
             B == Overwrite(s, b, m)
  <1>1. n \in Nat /\ l \in Nat /\ a + n <= l /\ b + n <= l
    OBVIOUS
  <1>2. PICK p, q \in 1..n :
              /\ p <= q /\ m[p] # 0 /\ m[q] # 0
              /\ \A i \in 1..n : (i < p => m[i] = 0) /\ (i > q => m[i] = 0)
    BY Ends
  <1>3. Len(A) = l /\ \A i \in 1..l : A[i] = IF a < i /\ i <= a + n THEN m[i - a] ELSE s[i]
    BY <1>1, OverwriteIs
  <1>4. \A i \in 1..l : B[i] = IF b < i /\ i <= b + n THEN m[i - b] ELSE s[i]
    BY <1>1, OverwriteIs
  <1>5. \A i \in 1..n : s[a + i] = 0 /\ s[b + i] = 0
    OBVIOUS
  <1> HIDE DEF n, l, A, B
  <1>6. a + p \in 1..l /\ b + q \in 1..l /\ a + p # b + q
    BY <1>1, <1>2
  <1>7. A[a + p] = m[p]
    <2>1. a < a + p /\ a + p <= a + n /\ (a + p) - a = p
      BY <1>1, <1>2
    <2> QED
      BY <1>3, <1>6, <2>1
  <1>8. B[a + p] = 0
    <2>1. CASE b < a + p /\ a + p <= b + n
      <3>1. (a + p) - b \in 1..n /\ (a + p) - b < p
        BY <1>1, <1>2, <2>1
      <3>2. m[(a + p) - b] = 0
        BY <1>2, <3>1
      <3> QED
        BY <1>4, <1>6, <2>1, <3>2
    <2>2. CASE ~(b < a + p /\ a + p <= b + n)
      <3>1. B[a + p] = s[a + p]
        BY <1>4, <1>6, <2>2
      <3> QED
        BY <1>2, <1>5, <3>1
    <2> QED
      BY <2>1, <2>2
  <1>9. B[b + q] = m[q]
    <2>1. b < b + q /\ b + q <= b + n /\ (b + q) - b = q
      BY <1>1, <1>2
    <2> QED
      BY <1>4, <1>6, <2>1
  <1>10. A[b + q] = 0
    <2>1. CASE a < b + q /\ b + q <= a + n
      <3>1. (b + q) - a \in 1..n /\ (b + q) - a > q
        BY <1>1, <1>2, <2>1
      <3>2. m[(b + q) - a] = 0
        BY <1>2, <3>1
      <3> QED
        BY <1>3, <1>6, <2>1, <3>2
    <2>2. CASE ~(a < b + q /\ b + q <= a + n)
      <3>1. A[b + q] = s[b + q]
        BY <1>3, <1>6, <2>2
      <3> QED
        BY <1>2, <1>5, <3>1
    <2> QED
      BY <2>1, <2>2
  <1>11. A[a + p] # B[a + p] /\ A[b + q] # B[b + q]
    BY <1>2, <1>7, <1>8, <1>9, <1>10
  <1> QED
    BY <1>3, <1>6, <1>11 DEF A, B, TwoDifferences

\* Zeros are octets.
LEMMA ZerosAre ==
    ASSUME NEW n \in Nat
    PROVE  Zeros(n) \in Seq(Octets) /\ Len(Zeros(n)) = n /\ \A i \in 1..n : Zeros(n)[i] = 0
  <1>1. 0 \in Octets
    BY Limits, BerAssumption DEF Octets, BerAssumption
  <1>2. Zeros(n) = [i \in 1..n |-> Zeros(n)[i]] /\ \A i \in 1..n : Zeros(n)[i] = 0
    BY DEF Zeros
  <1> QED
    BY <1>1, <1>2, SequenceOf

\* m stands k octets into w, and s is w with zeros in its place.
SignedBy(w, k, m, s) ==
    /\ w \in Seq(Octets) /\ m \in Seq(Octets) /\ k \in Nat /\ Len(m) = MacOctets /\ k + MacOctets <= Len(w)
    /\ s = Overwrite(w, k, Zeros(MacOctets)) /\ w = Overwrite(s, k, m)

\* v is w with one octet changed.
OneChange(v, w) ==
    /\ v \in Seq(Octets) /\ Len(v) = Len(w) /\ v # w
    /\ \E c \in DOMAIN w : \A i \in DOMAIN w : i # c => v[i] = w[i]

\* A message with one octet changed does not verify with its MAC, wherever the
\* MAC is found in it.
LEMMA OneChangeRefused ==
    ASSUME NEW w, NEW k, NEW m, NEW s, SignedBy(w, k, m, s), NEW v, OneChange(v, w), NEW j, Slice(v, m, j)
    PROVE  s # Overwrite(v, j, Zeros(MacOctets))
  <1> SUFFICES ASSUME w \in Seq(Octets), k \in Nat, m \in Seq(Octets), k + Len(m) <= Len(w),
                      s = Overwrite(w, k, Zeros(Len(m))), w = Overwrite(s, k, m),
                      v \in Seq(Octets), Len(v) = Len(w), s = Overwrite(v, j, Zeros(Len(m)))
               PROVE  v = w
    BY DEF SignedBy, OneChange
  <1> SUFFICES ASSUME NEW c, \A i \in 1..Len(w) : i # c => v[i] = w[i] PROVE v = w
    <2>1. PICK c \in DOMAIN w : \A i \in DOMAIN w : i # c => v[i] = w[i]
      BY DEF OneChange
    <2>2. DOMAIN w = 1..Len(w)
      OBVIOUS
    <2> QED
      BY <2>1, <2>2
  <1> DEFINE n == Len(m)
             l == Len(w)
             z == Zeros(n)
  <1>1. n \in Nat /\ l \in Nat /\ j \in Nat /\ j + n <= l /\ k + n <= l
    BY DEF Slice
  <1>2. z \in Seq(Octets) /\ Len(z) = n /\ \A i \in 1..n : z[i] = 0
    <2> HIDE DEF n
    <2> QED
      BY <1>1, ZerosAre
  <1> HIDE DEF z
  <1>3. s \in Seq(Octets) /\ Len(s) = l
        /\ \A i \in 1..l : s[i] = IF k < i /\ i <= k + n THEN z[i - k] ELSE w[i]
    <2>1. s = Overwrite(w, k, z) /\ k + Len(z) <= Len(w)
      BY <1>1, <1>2 DEF z
    <2> DEFINE t == Overwrite(w, k, z)
    <2>2. t \in Seq(Octets) /\ Len(t) = l /\ \A i \in 1..l : t[i] = IF k < i /\ i <= k + Len(z) THEN z[i - k] ELSE w[i]
      BY <1>2, <2>1, OverwriteIs
    <2> HIDE DEF t, n, l
    <2>3. s = t
      BY <2>1 DEF t
    <2> QED
      BY <1>2, <2>2, <2>3
  <1>4. \A i \in 1..l : s[i] = IF j < i /\ i <= j + n THEN z[i - j] ELSE v[i]
    <2>1. s = Overwrite(v, j, z) /\ j + Len(z) <= Len(v) /\ Len(v) = l
      BY <1>1, <1>2 DEF z
    <2> QED
      BY <1>1, <1>2, <2>1, OverwriteIs
  <1> HIDE DEF n, l
  <1>5. \A i \in 1..n : s[j + i] = 0 /\ s[k + i] = 0
    <2> SUFFICES ASSUME NEW i \in 1..n PROVE s[j + i] = 0 /\ s[k + i] = 0
      OBVIOUS
    <2>1. j + i \in 1..l /\ j < j + i /\ j + i <= j + n /\ (j + i) - j = i
      BY <1>1
    <2>2. k + i \in 1..l /\ k < k + i /\ k + i <= k + n /\ (k + i) - k = i
      BY <1>1
    <2> QED
      BY <1>2, <1>3, <1>4, <2>1, <2>2
  <1>6. v = Overwrite(s, j, m)
    <2> DEFINE t == Overwrite(s, j, m)
    <2>1. t \in Seq(Octets) /\ Len(t) = l
          /\ \A i \in 1..l : t[i] = IF j < i /\ i <= j + n THEN m[i - j] ELSE s[i]
      BY <1>1, <1>3, OverwriteIs DEF n
    <2> HIDE DEF t
    <2>2. ASSUME NEW i \in 1..l PROVE v[i] = t[i]
      <3>1. CASE j < i /\ i <= j + n
        <4>1. i - j \in 1..n /\ j + (i - j) = i
          BY <1>1, <3>1
        <4>2. m[i - j] = v[j + (i - j)]
          BY <4>1 DEF Slice, n
        <4> QED
          BY <2>1, <3>1, <4>1, <4>2
      <3>2. CASE ~(j < i /\ i <= j + n)
        BY <1>4, <2>1, <3>2
      <3> QED
        BY <3>1, <3>2
    <2>3. Len(v) = l /\ \A i \in 1..Len(v) : v[i] = t[i]
      BY <2>2 DEF l
    <2>4. v = t
      BY <2>1, <2>3, SeqEqual
    <2> QED
      BY <2>4 DEF t
  <1>7. CASE \A i \in 1..n : m[i] = 0
    <2>1. \A i \in 1..l : w[i] = s[i]
      <3>1. \A i \in 1..l : w[i] = IF k < i /\ i <= k + n THEN m[i - k] ELSE s[i]
        BY <1>1, <1>3, OverwriteIs DEF n
      <3>2. ASSUME NEW i \in 1..l, k < i /\ i <= k + n PROVE m[i - k] = s[i]
        <4>1. i - k \in 1..n /\ k + (i - k) = i
          BY <1>1, <3>2
        <4>2. s[k + (i - k)] = 0
          BY <1>5, <4>1
        <4> QED
          BY <1>7, <4>1, <4>2
      <3> QED
        BY <3>1, <3>2
    <2>2. \A i \in 1..l : v[i] = s[i]
      <3>1. ASSUME NEW i \in 1..l, j < i /\ i <= j + n PROVE v[i] = s[i]
        <4>1. i - j \in 1..n /\ j + (i - j) = i
          BY <1>1, <3>1
        <4>2. m[i - j] = v[j + (i - j)]
          BY <4>1 DEF Slice, n
        <4>3. s[j + (i - j)] = 0
          BY <1>5, <4>1
        <4> QED
          BY <1>7, <4>1, <4>2, <4>3
      <3> QED
        BY <1>4, <3>1
    <2>3. \A i \in 1..Len(v) : v[i] = w[i]
      BY <2>1, <2>2 DEF l
    <2> QED
      BY <2>3, SeqEqual
  <1>8. CASE \E x \in 1..n : m[x] # 0
    <2>1. PICK x \in 1..n : m[x] # 0
      BY <1>8
    <2>2. ~TwoDifferences(v, w) /\ ~TwoDifferences(w, v)
      BY DEF TwoDifferences
    <2>3. /\ s \in Seq(Octets) /\ j + Len(m) <= Len(s) /\ k + Len(m) <= Len(s) /\ x \in 1..Len(m) /\ m[x] # 0
          /\ \A i \in 1..Len(m) : s[j + i] = 0 /\ s[k + i] = 0
      BY <1>1, <1>3, <1>5, <2>1 DEF n
    <2>4. CASE j = k
      BY <1>6, <2>4
    <2>5. CASE j < k
      <3>1. TwoDifferences(Overwrite(s, j, m), Overwrite(s, k, m))
        BY <1>1, <2>3, <2>5, TwoPlaces
      <3> QED
        BY <1>6, <2>2, <3>1
    <2>6. CASE k < j
      <3>1. TwoDifferences(Overwrite(s, k, m), Overwrite(s, j, m))
        BY <1>1, <2>3, <2>6, TwoPlaces
      <3> QED
        BY <1>6, <2>2, <3>1
    <2> QED
      BY <1>1, <2>4, <2>5, <2>6
  <1> QED
    BY <1>7, <1>8

-----------------------------------------------------------------------------
(* What the agent fills in *)

\* What encode_v3_envelope fills in, and what it leaves alone.
LEMMA EnvelopeFields ==
    ASSUME NEW f, ValidFields(f)
    PROVE  LET g == Envelope(f)
           IN  /\ g.version = 3 /\ g.maxSize = MSG_MAX_SIZE /\ g.model = 3 /\ g.contextEngine = f.engine
               /\ g.flags = <<(IF f.authenticated THEN 1 ELSE 0) + (IF f.encrypted THEN 2 ELSE 0)>>
               /\ g.id = f.id /\ g.engine = f.engine /\ g.boots = f.boots /\ g.time = f.time /\ g.user = f.user
               /\ g.salt = f.salt /\ g.contextName = f.contextName /\ g.pdu = f.pdu
               /\ g.authenticated = f.authenticated /\ g.encrypted = f.encrypted /\ DOMAIN g = DOMAIN f
  <1> DEFINE g == Envelope(f)
  <1>1. DOMAIN f = {"version", "id", "maxSize", "flags", "model", "engine", "boots", "time", "user", "salt",
                    "contextEngine", "contextName", "pdu", "authenticated", "encrypted"}
    BY DEF ValidFields
  <1>2. g.version = 3 /\ g.maxSize = MSG_MAX_SIZE /\ g.model = 3 /\ g.contextEngine = f.engine
        /\ g.flags = <<(IF f.authenticated THEN 1 ELSE 0) + (IF f.encrypted THEN 2 ELSE 0)>>
    BY <1>1 DEF Envelope
  <1>3. g.id = f.id /\ g.engine = f.engine /\ g.boots = f.boots /\ g.time = f.time /\ g.user = f.user
    BY <1>1 DEF Envelope
  <1>4. g.salt = f.salt /\ g.contextName = f.contextName /\ g.pdu = f.pdu
        /\ g.authenticated = f.authenticated /\ g.encrypted = f.encrypted
    BY <1>1 DEF Envelope
  <1>5. DOMAIN g = DOMAIN f
    BY DEF Envelope
  <1> QED
    BY <1>2, <1>3, <1>4, <1>5

\* What the agent sends can be encoded, and is what RFC 3412 allows.
LEMMA EnvelopeEncodable ==
    ASSUME NEW f \in Sendable, f.boots < Word \div 2, f.time < Word \div 2, f.pdu.third < Word \div 2
    PROVE  LET g == Envelope(f)
           IN  /\ Encodable(g) /\ g.authenticated = f.authenticated
               /\ g.version = 3 /\ g.id >= 0 /\ g.maxSize >= MinMaxSize /\ Len(g.flags) = 1
               /\ Len(g.user) <= MaxUserName
  <1> DEFINE g == Envelope(f)
             keys == {"flags", "engine", "user", "salt", "contextEngine", "contextName"}
  <1>1. ValidFields(f) /\ f.id >= 0 /\ f.boots >= 0 /\ f.time >= 0 /\ f.pdu.third >= 0 /\ Len(f.user) <= MaxUserName
        /\ MSG_MAX_SIZE \in I32s /\ MSG_MAX_SIZE >= MinMaxSize /\ Word \div 2 > 3
    BY MessagesAssumption DEF MessagesAssumption
  <1>2. /\ g.version = 3 /\ g.maxSize = MSG_MAX_SIZE /\ g.model = 3 /\ g.contextEngine = f.engine
        /\ g.flags = <<(IF f.authenticated THEN 1 ELSE 0) + (IF f.encrypted THEN 2 ELSE 0)>>
        /\ g.id = f.id /\ g.engine = f.engine /\ g.boots = f.boots /\ g.time = f.time /\ g.user = f.user
        /\ g.salt = f.salt /\ g.contextName = f.contextName /\ g.pdu = f.pdu
        /\ g.authenticated = f.authenticated /\ g.encrypted = f.encrypted /\ DOMAIN g = DOMAIN f
    BY <1>1, EnvelopeFields
  <1> HIDE DEF g
  <1>3. Word \in Nat /\ Word \div 2 \in Nat
    BY WordsAre
  <1>4. f.boots \in Int /\ f.time \in Int /\ f.pdu.third \in Int /\ f.id \in I32s
    BY <1>1 DEF ValidFields, ValidPdu
  <1>5. f.boots \in I32s /\ f.time \in I32s /\ f.pdu.third \in I32s /\ 3 \in I32s
    <2>1. \A n \in Int : n >= 0 => (n \in I32s <=> n < Word \div 2)
      BY <1>3 DEF I32s
    <2>2. 3 \in I32s
      BY <1>1, <2>1
    <2> QED
      BY <1>1, <1>3, <1>4, <2>2 DEF I32s
  <1>6. g.flags \in Seq(Octets) /\ Len(g.flags) = 1
    <2> DEFINE x == (IF f.authenticated THEN 1 ELSE 0) + (IF f.encrypted THEN 2 ELSE 0)
    <2>1. x \in 0..3
      OBVIOUS
    <2>2. x \in Octets
      BY <2>1, Limits DEF Octets
    <2> HIDE DEF x
    <2>3. g.flags = <<x>>
      BY <1>2 DEF x
    <2> QED
      BY <2>2, <2>3
  <1>7. f.engine \in Seq(Octets) /\ f.user \in Seq(Octets) /\ f.salt \in Seq(Octets) /\ f.contextName \in Seq(Octets)
        /\ f.authenticated \in BOOLEAN /\ f.encrypted \in BOOLEAN /\ ValidPdu(f.pdu)
    <2>1. \A k \in keys : f[k] \in Seq(Octets)
      BY <1>1 DEF ValidFields
    <2>2. "engine" \in keys /\ "user" \in keys /\ "salt" \in keys /\ "contextName" \in keys
      OBVIOUS
    <2> HIDE DEF keys
    <2>3. f.engine \in Seq(Octets) /\ f.user \in Seq(Octets) /\ f.salt \in Seq(Octets) /\ f.contextName \in Seq(Octets)
      BY <2>1, <2>2
    <2> QED
      BY <1>1, <2>3 DEF ValidFields
  <1>8. \A k \in keys : g[k] \in Seq(Octets)
    BY <1>2, <1>6, <1>7
  <1>9. DOMAIN g = {"version", "id", "maxSize", "flags", "model", "engine", "boots", "time", "user", "salt",
                    "contextEngine", "contextName", "pdu", "authenticated", "encrypted"}
    BY <1>1, <1>2 DEF ValidFields
  <1>10. ValidFields(g)
    BY <1>1, <1>2, <1>4, <1>5, <1>7, <1>8, <1>9 DEF ValidFields
  <1>11. Encodable(g)
    BY <1>2, <1>5, <1>10 DEF Encodable
  <1>12. g.authenticated = f.authenticated /\ g.version = 3 /\ g.id >= 0 /\ g.maxSize >= MinMaxSize
         /\ Len(g.flags) = 1 /\ Len(g.user) <= MaxUserName
    BY <1>1, <1>2, <1>6
  <1> QED
    BY <1>11, <1>12 DEF g

-----------------------------------------------------------------------------
(* The inductive invariant *)

\* Where the decoder of a message looks for its MAC.
FoundAt(w, k, m) ==
    DecodeV3Envelope(w).ok => DecodeV3Envelope(w).value.usm.auth = m /\ DecodeV3Envelope(w).value.usm.offset = k

Unaltered(w, k) ==
    /\ wire = w /\ FoundAt(w, k, sent.mac)
    /\ sent.by # "peer" => DecodeV3Envelope(w).ok
    /\ sent.by = "agent" => w = Canonical(sent.fields, sent.mac)

\* An authenticated message is a signed one, or has one octet changed.
MessageInv ==
    /\ wire \in Seq(Octets) /\ altered \in BOOLEAN /\ (altered => wire # <<>>)
    /\ Authenticated =>
          \E k \in 0..Len(wire) :
             LET w == Overwrite(sent.signed, k, sent.mac)
             IN  /\ SignedBy(w, k, sent.mac, sent.signed)
                 /\ IF altered THEN OneChange(wire, w) ELSE Unaltered(w, k)

\* A message and what was signed of it.
LEMMA SignedMessage ==
    ASSUME NEW f, Encodable(f), NEW long, NEW mac \in Macs, Short(EncodeV3Message(f, Zeros(MacOctets), long))
    PROVE  LET w == EncodeV3Message(f, mac, long)
               s == EncodeV3Message(f, Zeros(MacOctets), long)
               k == Offset(f, mac, long)
           IN  /\ SignedBy(w, k, mac, s) /\ Sign(s, mac) = w /\ FoundAt(w, k, mac)
               /\ f.version = 3 /\ f.id >= 0 /\ f.maxSize >= MinMaxSize /\ Len(f.flags) = 1
                     /\ Len(f.user) <= MaxUserName => DecodeV3Envelope(w).ok
  <1> DEFINE z == Zeros(MacOctets)
             w == EncodeV3Message(f, mac, long)
             s == EncodeV3Message(f, z, long)
             k == Offset(f, mac, long)
             j == Offset(f, z, long)
  <1>1. mac \in Seq(Octets) /\ Len(mac) = MacOctets /\ MacOctets \in Nat /\ MacOctets # 0
    BY MessagesAssumption DEF MessagesAssumption
  <1>2. z \in Seq(Octets) /\ Len(z) = MacOctets
    BY <1>1, ZerosAre
  <1>3. Len(s) < Room
    BY DEF Short, Room
  <1> HIDE DEF z
  <1>4. Alike(w, mac, s, z, k)
    BY <1>1, <1>2, MessagesAlike
  <1>5. Alike(s, z, w, mac, j)
    BY <1>1, <1>2, MessagesAlike
  <1>6. FindAuthParamsOffset(s) = j
    BY <1>2, <1>3, Located
  <1> HIDE DEF j, k
  <1>7. w \in Seq(Octets) /\ s \in Seq(Octets) /\ Len(w) = Len(s) /\ k \in Nat /\ k + MacOctets <= Len(w)
    <2> HIDE DEF w, s
    <2> QED
      BY <1>1, <1>2, <1>4, AlikeType
  <1>8. s = Overwrite(w, k, z) /\ w = Overwrite(s, j, mac)
    <2> HIDE DEF w, s
    <2> QED
      BY <1>1, <1>2, <1>4, <1>5, AlikeOverwrites
  <1>9. Alike(s, z, w, mac, k)
    <2> HIDE DEF w, s
    <2> QED
      BY <1>4 DEF Alike
  <1>10. w = Overwrite(s, k, mac)
    <2> HIDE DEF w, s
    <2> QED
      BY <1>1, <1>2, <1>9, AlikeOverwrites
  <1>11. Sign(s, mac) = w
    <2> HIDE DEF w, s
    <2> QED
      BY <1>6, <1>8 DEF Sign
  <1>12. Len(w) < Room
    BY <1>3, <1>7
  <1>13. FoundAt(w, k, mac)
    <2>1. mac # <<>>
      BY <1>1
    <2>2. DecodeV3Envelope(w).ok =>
              /\ DecodeV3Envelope(w).value.usm.auth = mac
              /\ DecodeV3Envelope(w).value.usm.offset = IF mac = <<>> THEN NoOffset ELSE Offset(f, mac, long)
      BY <1>1, <1>12, Located
    <2> HIDE DEF w
    <2> QED
      BY <2>1, <2>2 DEF FoundAt, k
  <1>14. f.version = 3 /\ f.id >= 0 /\ f.maxSize >= MinMaxSize /\ Len(f.flags) = 1
             /\ Len(f.user) <= MaxUserName => DecodeV3Envelope(w).ok
    BY <1>1, <1>12, Located
  <1>15. SignedBy(w, k, mac, s)
    BY <1>1, <1>7, <1>8, <1>10 DEF SignedBy, z
  <1> QED
    BY <1>11, <1>13, <1>14, <1>15 DEF z, k

\* The agent's messages, but for v2c traps.
LEMMA AgentSendsStep ==
    ASSUME MessageInv, NEW f \in Sendable, f.pdu.third < Word \div 2, NEW mac, f.authenticated => mac \in Macs,
           NEW kind, NEW asked, AgentSends(f, mac, kind, asked)
    PROVE  MessageInv'
  <1> DEFINE g == Envelope(f)
             z == Zeros(MacOctets)
             a == IF f.authenticated THEN z ELSE <<>>
             blank == Canonical(g, a)
             s == Canonical(g, z)
             w == Canonical(g, mac)
             k == Offset(g, mac, {})
  <1>1. f.boots < Word \div 2 /\ f.time < Word \div 2 /\ Transmit(blank, f, mac, kind, asked)
    BY DEF AgentSends
  <1>2. /\ Encodable(g) /\ g.authenticated = f.authenticated
        /\ g.version = 3 /\ g.id >= 0 /\ g.maxSize >= MinMaxSize /\ Len(g.flags) = 1 /\ Len(g.user) <= MaxUserName
    BY <1>1, EnvelopeEncodable
  <1>3. g.authenticated \in BOOLEAN
    BY <1>2, EncodableIs
  <1>4. MacOctets \in Nat /\ Short(s)
    BY MessagesAssumption DEF MessagesAssumption
  <1>5. z \in Seq(Octets)
    BY <1>4, ZerosAre
  <1>6. /\ wire = <<>> /\ wire' = (IF f.authenticated THEN Sign(blank, mac) ELSE blank) /\ altered' = altered
        /\ sent' = [by |-> "agent", fields |-> g, signed |-> blank, mac |-> mac, kind |-> kind, asked |-> asked]
    BY <1>1 DEF Transmit
  <1>7. ~altered /\ ~altered' /\ altered' \in BOOLEAN
    BY <1>6 DEF MessageInv
  <1>8. sent'.by = "agent" /\ sent'.fields = g /\ sent'.signed = blank /\ sent'.mac = mac
    BY <1>6
  <1> HIDE DEF g, z
  <1>9. CASE ~f.authenticated
    <2>1. a = <<>> /\ <<>> \in Seq(Octets)
      BY <1>9
    <2>2. EncodeV3Message(g, <<>>, {}) \in Seq(Octets)
      BY <1>2, <2>1, PartsType
    <2>3. wire' \in Seq(Octets)
      BY <1>6, <1>9, <2>1, <2>2 DEF Canonical
    <2>4. ~Authenticated'
      BY <1>2, <1>8, <1>9 DEF Authenticated
    <2> QED
      BY <1>7, <2>3, <2>4 DEF MessageInv
  <1>10. CASE f.authenticated
    <2>1. a = z /\ blank = s /\ mac \in Macs
      BY <1>10
    <2>2. s = EncodeV3Message(g, z, {}) /\ w = EncodeV3Message(g, mac, {})
      BY DEF Canonical
    <2>3. SignedBy(w, k, mac, s) /\ Sign(s, mac) = w /\ FoundAt(w, k, mac) /\ DecodeV3Envelope(w).ok
      BY <1>2, <1>4, <2>1, <2>2, SignedMessage DEF z
    <2> HIDE DEF s, w, k, blank
    <2>4. wire' = w /\ sent'.signed = s
      BY <1>6, <1>8, <1>10, <2>1, <2>3
    <2>5. w \in Seq(Octets) /\ w = Overwrite(s, k, mac) /\ k \in 0..Len(w)
      <3>1. /\ w \in Seq(Octets) /\ w = Overwrite(s, k, mac) /\ k \in Nat /\ k + MacOctets <= Len(w)
        BY <2>3 DEF SignedBy
      <3> QED
        BY <1>4, <3>1
    <2>6. Unaltered(w, k)'
      <3>1. w = Canonical(g, mac)
        BY DEF w
      <3> QED
        BY <1>8, <2>3, <2>4, <3>1 DEF Unaltered, FoundAt
    <2>7. wire' \in Seq(Octets) /\ k \in 0..Len(wire') /\ Overwrite(sent'.signed, k, sent'.mac) = w
          /\ SignedBy(w, k, sent'.mac, sent'.signed)
      BY <1>8, <2>3, <2>4, <2>5
    <2> QED
      BY <1>7, <2>6, <2>7 DEF MessageInv
  <1> QED
    BY <1>2, <1>3, <1>9, <1>10

\* What the agent is asked to send has the fields of a message.
LEMMA AnswersAre ==
    ASSUME NEW f \in Answers
    PROVE  /\ Responded(f) \in Sendable
           /\ \A trapOid \in TrapOids, uptime \in Uptimes : Trapped(f, trapOid, uptime) \in Sendable
           /\ \A counter \in ReportCounters : Reported(f, counter) \in Sendable
           /\ DOMAIN f = {"version", "id", "maxSize", "flags", "model", "engine", "boots", "time", "user", "salt",
                          "contextEngine", "contextName", "pdu", "authenticated", "encrypted"}
           /\ DOMAIN f.pdu = {"tag", "id", "second", "third", "varbinds"}
  <1>1. Responded(f) \in Sendable
    BY DEF Sendable
  <1>2. \A trapOid \in TrapOids, uptime \in Uptimes : Trapped(f, trapOid, uptime) \in Sendable
    BY DEF Sendable
  <1>3. \A counter \in ReportCounters : Reported(f, counter) \in Sendable
    BY DEF Sendable
  <1>4. ValidFields(Responded(f))
    BY <1>1, MessagesAssumption DEF MessagesAssumption
  <1>5. DOMAIN f = {"version", "id", "maxSize", "flags", "model", "engine", "boots", "time", "user", "salt",
                    "contextEngine", "contextName", "pdu", "authenticated", "encrypted"}
    <2>1. DOMAIN Responded(f) = DOMAIN f
      BY DEF Responded
    <2> QED
      BY <1>4, <2>1 DEF ValidFields
  <1>6. Responded(f).pdu = [f.pdu EXCEPT !.tag = Tag.Response]
    BY <1>5 DEF Responded
  <1>7. DOMAIN f.pdu = {"tag", "id", "second", "third", "varbinds"}
    <2>1. DOMAIN [f.pdu EXCEPT !.tag = Tag.Response] = DOMAIN f.pdu
      OBVIOUS
    <2> QED
      BY <1>4, <1>6, <2>1 DEF ValidFields, ValidPdu
  <1> QED
    BY <1>1, <1>2, <1>3, <1>5, <1>7

\* A response keeps the invariant.
LEMMA RespondsStep ==
    ASSUME MessageInv, NEW f \in Answers, NEW mac \in Macs, AgentResponds(f, mac)
    PROVE  MessageInv'
  <1> DEFINE g == Responded(f)
  <1>1. g \in Sendable
    BY AnswersAre
  <1>2. f.pdu.third < Word \div 2 /\ AgentSends(g, mac, "Response", f)
    BY DEF AgentResponds
  <1>3. g.pdu.third = f.pdu.third
    <2> DEFINE pdu == f.pdu
    <2>1. DOMAIN pdu = {"tag", "id", "second", "third", "varbinds"}
      BY AnswersAre
    <2>2. g.pdu = [pdu EXCEPT !.tag = Tag.Response]
      BY AnswersAre DEF Responded
    <2> HIDE DEF g, pdu
    <2>3. g.pdu.third = pdu.third
      BY <2>1, <2>2
    <2> QED
      BY <2>3 DEF pdu
  <1> HIDE DEF g
  <1>4. g.pdu.third < Word \div 2
    BY <1>2, <1>3
  <1> QED
    BY <1>1, <1>2, <1>4, AgentSendsStep

\* A trap keeps the invariant.
LEMMA TrapsStep ==
    ASSUME MessageInv, NEW f \in Answers, NEW mac \in Macs, NEW trapOid \in TrapOids, NEW uptime \in Uptimes
    PROVE  /\ Trapped(f, trapOid, uptime).pdu = TrapPdu(f.pdu, trapOid, uptime)
           /\ AgentTraps(f, mac, trapOid, uptime) => MessageInv'
  <1> DEFINE g == Trapped(f, trapOid, uptime)
             told == Told(f, trapOid, uptime)
  <1>1. g \in Sendable
    BY AnswersAre
  <1>2. g.pdu = TrapPdu(f.pdu, trapOid, uptime)
    BY AnswersAre DEF Trapped
  <1>3. g.pdu.third = 0
    BY <1>2 DEF TrapPdu
  <1>4. 0 < Word \div 2
    BY WordsAre, MessagesAssumption DEF MessagesAssumption
  <1>5. AgentTraps(f, mac, trapOid, uptime) => AgentSends(g, mac, "Trap", told)
    BY DEF AgentTraps
  <1> HIDE DEF g, told
  <1>6. AgentTraps(f, mac, trapOid, uptime) => MessageInv'
    BY <1>1, <1>3, <1>4, <1>5, AgentSendsStep
  <1> QED
    BY <1>2, <1>6 DEF g

\* A Report keeps the invariant, and is not authenticated.
LEMMA ReportsStep ==
    ASSUME MessageInv, NEW f \in Answers, NEW counter \in ReportCounters, AgentReports(f, counter)
    PROVE  MessageInv'
  <1> DEFINE g == Reported(f, counter)
             none == <<>>
             asked == [f EXCEPT !.pdu.varbinds = <<counter>>]
  <1>1. g \in Sendable
    BY AnswersAre
  <1>2. g.pdu = ReportPdu(f.id, counter) /\ g.authenticated = FALSE
    BY AnswersAre DEF Reported
  <1>3. g.pdu.third = 0
    BY <1>2 DEF ReportPdu
  <1>4. 0 < Word \div 2
    BY WordsAre, MessagesAssumption DEF MessagesAssumption
  <1>5. AgentSends(g, none, "Report", asked)
    BY DEF AgentReports
  <1> HIDE DEF g, none, asked
  <1> QED
    BY <1>1, <1>2, <1>3, <1>4, <1>5, AgentSendsStep

\* A v2c trap keeps the invariant: it is octets, and not authenticated.
LEMMA TrapsV2cStep ==
    ASSUME MessageInv, NEW f \in Answers, NEW trapOid \in TrapOids, NEW uptime \in Uptimes, NEW mac \in Macs,
           AgentTrapsV2c(f, trapOid, uptime)
    PROVE  MessageInv'
  <1> DEFINE g == Trapped(f, trapOid, uptime)
             pdu == TrapPdu(f.pdu, trapOid, uptime)
             x1 == WriteInteger(1)
             x2 == WriteOctets(<<>>)
             x3 == EncodePdu(pdu, {})
             c == x1 \o x2 \o x3
             told == Told(f, trapOid, uptime)
  <1>1. g.pdu = pdu /\ g \in Sendable
    BY TrapsStep, AnswersAre
  <1>2. ValidPdu(g.pdu)
    BY <1>1, MessagesAssumption DEF MessagesAssumption, ValidFields
  <1>3. Word \in Nat /\ Word \div 2 > 3 /\ Word \div 2 \in Nat
    BY WordsAre, MessagesAssumption DEF MessagesAssumption
  <1>4. 0 \in I32s /\ 1 \in I32s
    BY <1>3 DEF I32s
  <1>5. pdu.third = 0
    BY DEF TrapPdu
  <1> HIDE DEF pdu, g
  <1>6. x1 \in Seq(Octets) /\ x2 \in Seq(Octets) /\ x3 \in Seq(Octets)
    <2>1. x1 \in Seq(Octets)
      BY <1>4, IntegerType
    <2>2. x2 \in Seq(Octets)
      <3>1. <<>> \in Seq(Octets)
        OBVIOUS
      <3> QED
        BY <3>1, OctetsType
    <2>3. x3 \in Seq(Octets)
      BY <1>1, <1>2, <1>4, <1>5, PduType
    <2> QED
      BY <2>1, <2>2, <2>3
  <1>7. /\ wire = <<>> /\ wire' = WriteTlv(Tag.Sequence, c) /\ altered' = altered
        /\ sent' = [by |-> "agent", fields |-> [authenticated |-> FALSE], kind |-> "v2cTrap", asked |-> told]
    BY DEF AgentTrapsV2c, EncodeV2cMessage, pdu
  <1> HIDE DEF x1, x2, x3, told
  <1>8. c \in Seq(Octets)
    BY <1>6
  <1>9. Tag.Sequence \in Octets
    BY TagsAre DEF TagNames
  <1> HIDE DEF c
  <1>10. WriteTlv(Tag.Sequence, c) \in Seq(Octets)
    BY <1>8, <1>9, WriteIs
  <1>11. ~altered /\ ~altered' /\ altered' \in BOOLEAN
    BY <1>7 DEF MessageInv
  <1>12. sent'.fields.authenticated = FALSE
    BY <1>7
  <1>13. ~Authenticated'
    BY <1>12 DEF Authenticated
  <1>14. wire' \in Seq(Octets)
    BY <1>7, <1>10
  <1> QED
    BY <1>11, <1>13, <1>14 DEF MessageInv

\* A message of a peer keeps the invariant, in any form of lengths.
LEMMA PeerSendsStep ==
    ASSUME MessageInv, NEW f \in Requests, NEW mac \in Macs, NEW padded \in Paddings, PeerSends(f, mac, padded)
    PROVE  MessageInv'
  <1> DEFINE z == Zeros(MacOctets)
             a == IF f.authenticated THEN mac ELSE <<>>
             b == IF f.authenticated THEN z ELSE <<>>
             w == EncodeV3Message(f, a, padded)
             s == EncodeV3Message(f, b, padded)
             k == Offset(f, mac, padded)
  <1>1. Encodable(f) /\ Short(EncodeV3Message(f, z, padded)) /\ mac \in Seq(Octets) /\ MacOctets \in Nat
    BY MessagesAssumption DEF MessagesAssumption, Encodable
  <1>2. f.authenticated \in BOOLEAN
    BY <1>1, EncodableIs
  <1>3. /\ wire = <<>> /\ wire' = w /\ altered' = altered
        /\ sent' = [by |-> "peer", fields |-> f, mac |-> mac, signed |-> s]
    BY DEF PeerSends
  <1>4. ~altered /\ ~altered' /\ altered' \in BOOLEAN
    BY <1>3 DEF MessageInv
  <1>5. sent'.by = "peer" /\ sent'.fields = f /\ sent'.mac = mac /\ sent'.signed = s
    BY <1>3
  <1>6. a \in Seq(Octets)
    BY <1>1
  <1>7. w \in Seq(Octets)
    <2> HIDE DEF a
    <2> QED
      BY <1>1, <1>6, PartsType
  <1>8. CASE ~f.authenticated
    <2>1. ~Authenticated'
      BY <1>5, <1>8 DEF Authenticated
    <2> HIDE DEF w
    <2> QED
      BY <1>3, <1>4, <1>7, <2>1 DEF MessageInv
  <1>9. CASE f.authenticated
    <2>1. a = mac /\ b = z
      BY <1>9
    <2>2. w = EncodeV3Message(f, mac, padded) /\ s = EncodeV3Message(f, z, padded)
      BY <2>1
    <2>3. SignedBy(EncodeV3Message(f, mac, padded), k, mac, EncodeV3Message(f, z, padded))
          /\ FoundAt(EncodeV3Message(f, mac, padded), k, mac)
      BY <1>1, SignedMessage
    <2> HIDE DEF w, s, k, z, a, b
    <2>4. SignedBy(w, k, mac, s) /\ FoundAt(w, k, mac)
      BY <2>2, <2>3
    <2>5. w = Overwrite(s, k, mac) /\ k \in 0..Len(w)
      <3>1. /\ w \in Seq(Octets) /\ w = Overwrite(s, k, mac) /\ k \in Nat /\ k + MacOctets <= Len(w)
        BY <2>4 DEF SignedBy
      <3> QED
        BY <1>1, <3>1
    <2>6. Unaltered(w, k)'
      BY <1>3, <1>5, <2>4 DEF Unaltered, FoundAt
    <2>7. wire' \in Seq(Octets) /\ k \in 0..Len(wire') /\ Overwrite(sent'.signed, k, sent'.mac) = w
          /\ SignedBy(w, k, sent'.mac, sent'.signed)
      BY <1>3, <1>5, <1>7, <2>4, <2>5
    <2> QED
      BY <1>4, <2>6, <2>7 DEF MessageInv
  <1> QED
    BY <1>2, <1>8, <1>9

\* A changed octet keeps the invariant.
LEMMA AlterStep ==
    ASSUME MessageInv, NEW i \in DOMAIN wire, NEW octet \in Alterations, Alter(i, octet)
    PROVE  MessageInv'
  <1>1. octet \in Octets
    BY MessagesAssumption DEF MessagesAssumption
  <1>2. wire \in Seq(Octets) /\ ~altered /\ wire[i] # octet /\ altered' = TRUE /\ sent' = sent
        /\ wire' = [wire EXCEPT ![i] = octet]
    BY DEF MessageInv, Alter
  <1>3. wire' \in Seq(Octets) /\ Len(wire') = Len(wire) /\ wire # <<>> /\ wire' # <<>>
    BY <1>1, <1>2
  <1>4. OneChange(wire', wire)
    <2>1. wire'[i] = octet /\ \A j \in DOMAIN wire : j # i => wire'[j] = wire[j]
      BY <1>2
    <2>2. wire' # wire
      BY <1>2, <2>1
    <2> QED
      BY <1>3, <2>1, <2>2 DEF OneChange
  <1>5. CASE Authenticated'
    <2>1. Authenticated
      BY <1>2, <1>3, <1>5 DEF Authenticated
    <2>2. PICK k \in 0..Len(wire) : /\ SignedBy(Overwrite(sent.signed, k, sent.mac), k, sent.mac, sent.signed)
                                    /\ Unaltered(Overwrite(sent.signed, k, sent.mac), k)
      BY <1>2, <2>1 DEF MessageInv
    <2> DEFINE w == Overwrite(sent.signed, k, sent.mac)
    <2>3. wire = w /\ SignedBy(w, k, sent.mac, sent.signed)
      BY <2>2 DEF Unaltered
    <2>4. Overwrite(sent'.signed, k, sent'.mac) = w /\ sent'.mac = sent.mac /\ sent'.signed = sent.signed
      BY <1>2
    <2> HIDE DEF w
    <2>5. OneChange(wire', w) /\ k \in 0..Len(wire')
      BY <1>3, <1>4, <2>2, <2>3
    <2>6. SignedBy(w, k, sent'.mac, sent'.signed)
      BY <2>3, <2>4
    <2> QED
      BY <1>2, <1>3, <2>4, <2>5, <2>6 DEF MessageInv
  <1>6. CASE ~Authenticated'
    BY <1>2, <1>3, <1>6 DEF MessageInv
  <1> QED
    BY <1>5, <1>6

\* A part is found with SubSeq.
LEMMA SliceIs ==
    ASSUME NEW s \in Seq(Octets), NEW v, NEW a, Slice(s, v, a)
    PROVE  a + Len(v) <= Len(s) /\ SubSeq(s, a + 1, a + Len(v)) = v
  <1> DEFINE n == Len(v)
             t == SubSeq(s, a + 1, a + n)
  <1>1. v \in Seq(Octets) /\ a \in Nat /\ a + n <= Len(s) /\ (\A i \in 1..n : v[i] = s[a + i]) /\ n \in Nat
    BY DEF Slice
  <1> HIDE DEF n
  <1>2. \A i \in (a + 1)..(a + n) : s[i] \in Octets
    <2>1. \A i \in (a + 1)..(a + n) : i \in 1..Len(s)
      BY <1>1
    <2> QED
      BY <2>1
  <1>3. a + 1 \in Int /\ a + n \in Int /\ (IF a + 1 <= a + n THEN (a + n) - (a + 1) + 1 ELSE 0) = n
    BY <1>1
  <1>4. t \in Seq(Octets) /\ Len(t) = n /\ \A i \in 1..n : t[i] = s[a + 1 + i - 1]
    BY <1>2, <1>3, SubSeqProperties
  <1>5. \A i \in 1..n : a + 1 + i - 1 = a + i
    BY <1>1
  <1>6. \A i \in 1..Len(t) : t[i] = v[i]
    BY <1>1, <1>4, <1>5
  <1> HIDE DEF t
  <1>7. t = v
    BY <1>1, <1>4, <1>6, SeqEqual DEF n
  <1> QED
    BY <1>1, <1>7 DEF t, n

-----------------------------------------------------------------------------
(* Messages as they were meant *)

\* What was read of a request is what was meant.
MeantBy(f, d) ==
    LET bulk(n) == IF f.pdu.tag = Tag.GetBulkRequest THEN NonNegative(n) ELSE 0
    IN  IF ~WellFormed(f) THEN ~d.ok
        ELSE /\ d.ok
             /\ d.value.header = [id |-> f.id, maxSize |-> f.maxSize, flags |-> f.flags, model |-> f.model]
             /\ \A k \in {"engine", "user", "salt"} : d.value.usm[k] = f[k]
             /\ \A k \in {"boots", "time"} : d.value.usm[k] = Unsigned(f[k])
             /\ d.value.scoped =
                    [contextEngine |-> f.contextEngine, contextName |-> f.contextName,
                     pdu |-> [f.pdu EXCEPT !.second = bulk(@), !.third = bulk(@)]]

\* A request is read as it was meant.
LEMMA RequestMeant ==
    ASSUME NEW f, Encodable(f), f.encrypted => f.boots >= 0 /\ f.time >= 0,
           NEW a \in Seq(Octets), NEW long, Len(EncodeV3Message(f, a, long)) < Room
    PROVE  MeantBy(f, DecodeRequest(EncodeV3Message(f, a, long)))
  <1> DEFINE d == DecodeRequest(EncodeV3Message(f, a, long))
             bulk(n) == IF f.pdu.tag = Tag.GetBulkRequest THEN NonNegative(n) ELSE 0
             seen == [header |-> HeaderOf(f), scoped |-> ScopedUnderstood(f), usm |-> UsmUnderstood(f, a, long)]
             u == UsmUnderstood(f, a, long)
  <1>1. d = IF WellFormed(f) THEN Ok(seen) ELSE Error
    BY RequestReads
  <1>2. /\ u.engine = f.engine /\ u.user = f.user /\ u.salt = f.salt
        /\ u.boots = Unsigned(f.boots) /\ u.time = Unsigned(f.time)
    BY DEF UsmUnderstood, UsmOf
  <1>3. Understood(f.pdu) = [f.pdu EXCEPT !.second = bulk(@), !.third = bulk(@)]
    <2> DEFINE pdu == f.pdu
    <2>1. pdu = [tag |-> pdu.tag, id |-> pdu.id, second |-> pdu.second, third |-> pdu.third, varbinds |-> pdu.varbinds]
      BY EncodableIs DEF ValidPdu
    <2> HIDE DEF pdu
    <2>2. Understood(pdu) = [pdu EXCEPT !.second = bulk(pdu.second), !.third = bulk(pdu.third)]
      BY DEF Understood, Repetitions, pdu
    <2>3. [pdu EXCEPT !.second = bulk(@), !.third = bulk(@)]
              = [pdu EXCEPT !.second = bulk(pdu.second), !.third = bulk(pdu.third)]
      BY <2>1
    <2> QED
      BY <2>2, <2>3 DEF pdu
  <1> HIDE DEF d, u
  <1>4. CASE ~WellFormed(f)
    <2>1. ~d.ok
      BY <1>1, <1>4, Outcome
    <2> QED
      BY <1>4, <2>1 DEF MeantBy, d
  <1>5. CASE WellFormed(f)
    <2>1. d.ok /\ d.value = seen
      BY <1>1, <1>5, Outcome
    <2>2. seen.header = HeaderOf(f) /\ seen.scoped = ScopedUnderstood(f) /\ seen.usm = u
      BY DEF u
    <2> HIDE DEF seen
    <2>3. d.value.header = [id |-> f.id, maxSize |-> f.maxSize, flags |-> f.flags, model |-> f.model]
      BY <2>1, <2>2 DEF HeaderOf
    <2>4. \A k \in {"engine", "user", "salt"} : d.value.usm[k] = f[k]
      BY <1>2, <2>1, <2>2
    <2>5. \A k \in {"boots", "time"} : d.value.usm[k] = Unsigned(f[k])
      BY <1>2, <2>1, <2>2
    <2>6. d.value.scoped =
              [contextEngine |-> f.contextEngine, contextName |-> f.contextName,
               pdu |-> [f.pdu EXCEPT !.second = bulk(@), !.third = bulk(@)]]
      <3> DEFINE v == [f.pdu EXCEPT !.second = bulk(@), !.third = bulk(@)]
      <3> HIDE DEF v
      <3>1. Understood(f.pdu) = v
        BY <1>3 DEF v
      <3>2. d.value.scoped = [contextEngine |-> f.contextEngine, contextName |-> f.contextName, pdu |-> v]
        BY <2>1, <2>2, <3>1 DEF ScopedUnderstood
      <3> QED
        BY <3>2 DEF v
    <2>7. MeantBy(f, d)
      BY <1>5, <2>1, <2>3, <2>4, <2>5, <2>6 DEF MeantBy
    <2> QED
      BY <2>7 DEF d
  <1> QED
    BY <1>4, <1>5

\* A message around a MAC fits if it does around zeros.
LEMMA SignedFits ==
    ASSUME NEW f, Encodable(f), NEW long, NEW mac \in Macs, Short(EncodeV3Message(f, Zeros(MacOctets), long))
    PROVE  /\ mac \in Seq(Octets) /\ mac # <<>> /\ Len(EncodeV3Message(f, mac, long)) < Room
  <1> DEFINE z == Zeros(MacOctets)
             w == EncodeV3Message(f, mac, long)
             s == EncodeV3Message(f, z, long)
             k == Offset(f, mac, long)
  <1>1. mac \in Seq(Octets) /\ Len(mac) = MacOctets /\ MacOctets \in Nat /\ MacOctets # 0
    BY MessagesAssumption DEF MessagesAssumption
  <1>2. z \in Seq(Octets) /\ Len(z) = MacOctets
    BY <1>1, ZerosAre
  <1>3. Len(s) < Room
    BY DEF Short, Room
  <1> HIDE DEF z
  <1>4. Alike(w, mac, s, z, k)
    BY <1>1, <1>2, MessagesAlike
  <1> HIDE DEF k, w, s
  <1>5. Len(w) = Len(s)
    BY <1>1, <1>2, <1>4, AlikeType
  <1>6. mac # <<>>
    BY <1>1
  <1> QED
    BY <1>1, <1>3, <1>5, <1>6 DEF w

\* What a peer sends is read as it was meant.
LEMMA PeerMeant ==
    ASSUME NEW f \in Requests, NEW mac \in Macs, NEW padded \in Paddings, PeerSends(f, mac, padded)
    PROVE  sent'.fields = f /\ MeantBy(f, DecodeRequest(wire'))
  <1> DEFINE a == IF f.authenticated THEN mac ELSE <<>>
             z == Zeros(MacOctets)
             w == EncodeV3Message(f, a, padded)
  <1>1. /\ Encodable(f) /\ (f.encrypted => f.boots >= 0 /\ f.time >= 0)
        /\ Short(EncodeV3Message(f, z, padded)) /\ Short(EncodeV3Message(f, <<>>, padded))
    BY MessagesAssumption DEF MessagesAssumption, Encodable
  <1>2. wire' = w /\ sent'.fields = f
    BY DEF PeerSends
  <1>3. f.authenticated \in BOOLEAN
    BY <1>1, EncodableIs
  <1>4. a \in Seq(Octets) /\ Len(w) < Room
    <2>1. CASE f.authenticated
      <3>1. a = mac
        BY <2>1
      <3>2. mac \in Seq(Octets) /\ Len(EncodeV3Message(f, mac, padded)) < Room
        BY <1>1, SignedFits
      <3> QED
        BY <3>1, <3>2
    <2>2. CASE ~f.authenticated
      <3>1. a = <<>> /\ <<>> \in Seq(Octets)
        BY <2>2
      <3>2. Len(EncodeV3Message(f, <<>>, padded)) < Room
        BY <1>1 DEF Short, Room
      <3> QED
        BY <3>1, <3>2
    <2> QED
      BY <1>3, <2>1, <2>2
  <1> HIDE DEF a
  <1>5. MeantBy(f, DecodeRequest(w))
    BY <1>1, <1>4, RequestMeant
  <1> QED
    BY <1>2, <1>5

\* Every other step ends with a message that no peer sent, or with an altered one.
LEMMA OtherSteps ==
    /\ \A f, mac : AgentResponds(f, mac) => sent'.by = "agent"
    /\ \A f, mac, trapOid, uptime : AgentTraps(f, mac, trapOid, uptime) => sent'.by = "agent"
    /\ \A f, trapOid, uptime : AgentTrapsV2c(f, trapOid, uptime) => sent'.by = "agent"
    /\ \A f, counter : AgentReports(f, counter) => sent'.by = "agent"
    /\ \A f, mac, padded : PeerSends(f, mac, padded) => sent'.by = "peer"
    /\ \A i, octet : Alter(i, octet) => altered'
  <1>1. \A f, mac, kind, asked : AgentSends(f, mac, kind, asked) => sent'.by = "agent"
    BY DEF AgentSends, Transmit
  <1>2. \A f, mac : AgentResponds(f, mac) => sent'.by = "agent"
    BY <1>1 DEF AgentResponds
  <1>3. \A f, mac, trapOid, uptime : AgentTraps(f, mac, trapOid, uptime) => sent'.by = "agent"
    BY <1>1 DEF AgentTraps
  <1>4. \A f, trapOid, uptime : AgentTrapsV2c(f, trapOid, uptime) => sent'.by = "agent"
    BY DEF AgentTrapsV2c
  <1>5. \A f, counter : AgentReports(f, counter) => sent'.by = "agent"
    BY <1>1 DEF AgentReports
  <1>6. \A f, mac, padded : PeerSends(f, mac, padded) => sent'.by = "peer"
    BY DEF PeerSends
  <1>7. \A i, octet : Alter(i, octet) => altered'
    BY DEF Alter
  <1> QED
    BY <1>2, <1>3, <1>4, <1>5, <1>6, <1>7

\* RequestsAsMeant in terms of MeantBy.
LEMMA RequestsAsMeantIs ==
    RequestsAsMeant <=> (wire # <<>> /\ ~altered /\ sent.by = "peer" => MeantBy(sent.fields, DecodeRequest(wire)))
  BY DEF RequestsAsMeant, MeantBy

\* EnvelopeAsMeant of a message of a kind.
EnvelopeMeant(envelope, kind, asked, report, auth, priv) ==
    /\ envelope.header = [id |-> asked.id, maxSize |-> MSG_MAX_SIZE, model |-> 3,
                          flags |-> <<(IF auth THEN 1 ELSE 0) + (IF priv THEN 2 ELSE 0)>>]
    /\ \A k \in {"engine", "boots", "time"} : envelope.usm[k] = asked[k]
    /\ envelope.usm.user = IF report THEN <<>> ELSE asked.user
    /\ (envelope.usm.auth # <<>>) = auth
    /\ envelope.encrypted = priv
    /\ ManagerReadsScoped(envelope) =
           Ok([engine |-> asked.engine, pdu |-> ExpectedPdu(kind, asked),
               name |-> IF report THEN <<>> ELSE asked.contextName])

\* A manager can use what the agent sends.
AnswerMeant(w, kind, asked) ==
    LET report == kind = "Report"
        r == DecodeV3Envelope(w)
    IN  IF kind = "v2cTrap"
        THEN ManagerReadsV2c(w) = Ok([version |-> 1, community |-> <<>>, pdu |-> ExpectedPdu("v2cTrap", asked)])
        ELSE r.ok /\ EnvelopeMeant(r.value, kind, asked, report, asked.authenticated /\ ~report,
                                   asked.encrypted /\ ~report)

\* AnswersAsMeant in terms of AnswerMeant.
LEMMA AnswersAsMeantIs ==
    AnswersAsMeant <=> (wire # <<>> /\ ~altered /\ sent.by = "agent" => AnswerMeant(wire, sent.kind, sent.asked))
  <1> DEFINE asked == sent.asked
             report == sent.kind = "Report"
             auth == asked.authenticated /\ ~report
             priv == asked.encrypted /\ ~report
             d == DecodeV3Envelope(wire)
             t == Try(d, LAMBDA r : [ok |-> EnvelopeAsMeant(r.value, asked, report, auth, priv)])
  <1>1. EnvelopeAsMeant(d.value, asked, report, auth, priv) <=>
            EnvelopeMeant(d.value, sent.kind, asked, report, auth, priv)
    BY DEF EnvelopeAsMeant, EnvelopeMeant
  <1>2. t.ok <=> d.ok /\ EnvelopeAsMeant(d.value, asked, report, auth, priv)
    <2> DEFINE e == EnvelopeAsMeant(d.value, asked, report, auth, priv)
    <2>1. t = IF d.ok THEN [ok |-> e] ELSE Error
      BY DEF Try
    <2> HIDE DEF t, e, d
    <2>2. [ok |-> e].ok = e
      OBVIOUS
    <2>3. t.ok <=> d.ok /\ e
      BY <2>1, <2>2, Outcome
    <2> QED
      BY <2>3 DEF e
  <1>3. AnswersAsMeant <=>
            (wire # <<>> /\ ~altered /\ sent.by = "agent" =>
                IF sent.kind = "v2cTrap"
                THEN ManagerReadsV2c(wire)
                         = Ok([version |-> 1, community |-> <<>>, pdu |-> ExpectedPdu("v2cTrap", asked)])
                ELSE t.ok)
    BY DEF AnswersAsMeant
  <1>4. AnswerMeant(wire, sent.kind, asked) <=>
            IF sent.kind = "v2cTrap"
            THEN ManagerReadsV2c(wire) = Ok([version |-> 1, community |-> <<>>, pdu |-> ExpectedPdu("v2cTrap", asked)])
            ELSE d.ok /\ EnvelopeMeant(d.value, sent.kind, asked, report, auth, priv)
    BY DEF AnswerMeant
  <1> HIDE DEF t, d, auth, priv, report
  <1> QED
    BY <1>1, <1>2, <1>3, <1>4

\* The message f of the agent is what it was asked for.
AnswersTo(f, kind, asked) ==
    /\ kind # "v2cTrap"
    /\ f.id = asked.id /\ f.engine = asked.engine /\ f.boots = asked.boots /\ f.time = asked.time
    /\ f.user = IF kind = "Report" THEN <<>> ELSE asked.user
    /\ f.contextName = IF kind = "Report" THEN <<>> ELSE asked.contextName
    /\ f.authenticated = (asked.authenticated /\ ~(kind = "Report"))
    /\ f.encrypted = (asked.encrypted /\ ~(kind = "Report"))
    /\ f.pdu = ExpectedPdu(kind, asked) /\ f.pdu.tag \in RawTags

\* Such a message is of use to a manager.
LEMMA AnswerIsMeant ==
    ASSUME NEW f \in Sendable, f.boots < Word \div 2, f.time < Word \div 2, f.pdu.third < Word \div 2,
           NEW kind, NEW asked, AnswersTo(f, kind, asked),
           NEW a \in Seq(Octets), (a # <<>>) = f.authenticated, Len(EncodeV3Message(Envelope(f), a, {})) < Room
    PROVE  AnswerMeant(EncodeV3Message(Envelope(f), a, {}), kind, asked)
  <1> DEFINE g == Envelope(f)
             none == {}
             w == EncodeV3Message(g, a, none)
             r == DecodeV3Envelope(w)
             e == EnvelopeOf(g, a, none)
             report == kind = "Report"
             auth == asked.authenticated /\ ~report
             priv == asked.encrypted /\ ~report
  <1>1. Encodable(g) /\ Allowed(g)
    BY EnvelopeEncodable DEF Allowed
  <1>2. ValidFields(f) /\ ValuesOnly(f.pdu)
    BY MessagesAssumption DEF MessagesAssumption
  <1>3. /\ g.version = 3 /\ g.maxSize = MSG_MAX_SIZE /\ g.model = 3 /\ g.contextEngine = f.engine
        /\ g.flags = <<(IF f.authenticated THEN 1 ELSE 0) + (IF f.encrypted THEN 2 ELSE 0)>>
        /\ g.id = f.id /\ g.engine = f.engine /\ g.boots = f.boots /\ g.time = f.time /\ g.user = f.user
        /\ g.salt = f.salt /\ g.contextName = f.contextName /\ g.pdu = f.pdu
        /\ g.authenticated = f.authenticated /\ g.encrypted = f.encrypted
    BY <1>2, EnvelopeFields
  <1>4. /\ kind # "v2cTrap"
        /\ f.id = asked.id /\ f.engine = asked.engine /\ f.boots = asked.boots /\ f.time = asked.time
        /\ f.user = (IF report THEN <<>> ELSE asked.user)
        /\ f.contextName = (IF report THEN <<>> ELSE asked.contextName)
        /\ f.authenticated = auth /\ f.encrypted = priv
        /\ f.pdu = ExpectedPdu(kind, asked) /\ f.pdu.tag \in RawTags
    BY DEF AnswersTo
  <1>5. Len(w) < Room
    OBVIOUS
  <1> HIDE DEF g, none
  <1>6. r = Ok(e)
    BY <1>1, <1>5, EnvelopeReads
  <1>7. Len(ScopedData(g, none)) < Room
    BY <1>1, <1>5, MessageReads
  <1>8. ManagerReadsScoped(e) = Ok([engine |-> g.contextEngine, name |-> g.contextName, pdu |-> g.pdu])
    <2>1. g.pdu.tag \in RawTags /\ Known(g.pdu.varbinds)
      BY <1>2, <1>3, <1>4 DEF ValuesOnly, Known
    <2> QED
      BY <1>1, <1>7, <2>1, ManagerReadsMessage
  <1>9. /\ e.header = HeaderOf(g) /\ e.usm = UsmOf(g, a, none) /\ e.encrypted = g.encrypted
    BY DEF EnvelopeOf
  <1>10. /\ e.usm.engine = g.engine /\ e.usm.boots = g.boots /\ e.usm.time = g.time /\ e.usm.user = g.user
         /\ e.usm.auth = a
    BY <1>9 DEF UsmOf
  <1> HIDE DEF e
  <1>11. e.header = [id |-> asked.id, maxSize |-> MSG_MAX_SIZE, model |-> 3,
                     flags |-> <<(IF auth THEN 1 ELSE 0) + (IF priv THEN 2 ELSE 0)>>]
    <2> DEFINE fl == <<(IF auth THEN 1 ELSE 0) + (IF priv THEN 2 ELSE 0)>>
    <2>1. g.flags = fl
      BY <1>3, <1>4
    <2> HIDE DEF fl, auth, priv
    <2>2. e.header = [id |-> asked.id, maxSize |-> MSG_MAX_SIZE, model |-> 3, flags |-> fl]
      BY <1>3, <1>4, <1>9, <2>1 DEF HeaderOf
    <2> QED
      BY <2>2 DEF fl
  <1>12. \A k \in {"engine", "boots", "time"} : e.usm[k] = asked[k]
    BY <1>3, <1>4, <1>10
  <1>13. e.usm.user = (IF report THEN <<>> ELSE asked.user) /\ e.encrypted = priv
    BY <1>3, <1>4, <1>9, <1>10
  <1>14. (e.usm.auth # <<>>) = auth
    <2>1. (a # <<>>) = auth
      BY <1>4
    <2> QED
      BY <1>10, <2>1
  <1>15. ManagerReadsScoped(e) =
             Ok([engine |-> asked.engine, pdu |-> ExpectedPdu(kind, asked),
                 name |-> IF report THEN <<>> ELSE asked.contextName])
    <2> DEFINE n == IF report THEN <<>> ELSE asked.contextName
               p == ExpectedPdu(kind, asked)
    <2>1. g.contextEngine = asked.engine /\ g.contextName = n /\ g.pdu = p
      BY <1>3, <1>4
    <2> HIDE DEF n, p
    <2>2. ManagerReadsScoped(e) = Ok([engine |-> asked.engine, pdu |-> p, name |-> n])
      BY <1>8, <2>1
    <2> QED
      BY <2>2 DEF n, p
  <1>16. EnvelopeMeant(e, kind, asked, report, auth, priv)
    <2> HIDE DEF auth, priv, report
    <2> QED
      BY <1>11, <1>12, <1>13, <1>14, <1>15 DEF EnvelopeMeant
  <1>17. r.ok /\ r.value = e
    BY <1>6, Outcome
  <1> HIDE DEF w
  <1>18. AnswerMeant(w, kind, asked)
    BY <1>4, <1>16, <1>17 DEF AnswerMeant
  <1> QED
    BY <1>18 DEF w, none, g

\* What the agent sends is of use to a manager.
LEMMA AgentMeant ==
    ASSUME NEW f \in Sendable, f.pdu.third < Word \div 2, NEW mac, f.authenticated => mac \in Macs,
           NEW kind, NEW asked, AgentSends(f, mac, kind, asked), AnswersTo(f, kind, asked)
    PROVE  AnswerMeant(wire', sent'.kind, sent'.asked)
  <1> DEFINE g == Envelope(f)
             z == Zeros(MacOctets)
             none == <<>>
             a == IF f.authenticated THEN mac ELSE none
             w == EncodeV3Message(g, a, {})
  <1>1. f.boots < Word \div 2 /\ f.time < Word \div 2
        /\ Transmit(Canonical(g, IF f.authenticated THEN z ELSE <<>>), f, mac, kind, asked)
    BY DEF AgentSends
  <1>2. Encodable(g) /\ f.authenticated \in BOOLEAN
    <2>1. Encodable(g) /\ g.authenticated = f.authenticated
      BY <1>1, EnvelopeEncodable
    <2> QED
      BY <2>1, EncodableIs
  <1>3. Short(Canonical(g, z)) /\ Short(Canonical(g, none))
    BY MessagesAssumption DEF MessagesAssumption
  <1>4. sent'.kind = kind /\ sent'.asked = asked
    BY <1>1 DEF Transmit
  <1>5. wire' = IF f.authenticated THEN Sign(Canonical(g, z), mac) ELSE Canonical(g, none)
    BY <1>1 DEF Transmit
  <1> HIDE DEF g, none
  <1>6. a \in Seq(Octets) /\ (a # <<>>) = f.authenticated /\ Len(w) < Room /\ wire' = w
    <2>1. CASE f.authenticated
      <3>1. a = mac /\ mac \in Macs
        BY <2>1
      <3>2. Short(EncodeV3Message(g, z, {}))
        BY <1>3 DEF Canonical
      <3>3. mac \in Seq(Octets) /\ mac # <<>> /\ Len(EncodeV3Message(g, mac, {})) < Room
        BY <1>2, <3>1, <3>2, SignedFits
      <3>4. Sign(Canonical(g, z), mac) = EncodeV3Message(g, mac, {})
        BY <1>2, <3>1, <3>2, SignedMessage DEF Canonical
      <3> QED
        BY <1>5, <2>1, <3>1, <3>3, <3>4
    <2>2. CASE ~f.authenticated
      <3>1. a = none /\ none \in Seq(Octets) /\ none = <<>>
        BY <2>2 DEF none
      <3>2. Len(EncodeV3Message(g, none, {})) < Room
        BY <1>3 DEF Short, Room, Canonical
      <3>3. (a # <<>>) = f.authenticated
        BY <1>2, <2>2, <3>1
      <3>4. wire' = w
        BY <1>5, <2>2, <3>1 DEF Canonical
      <3> HIDE DEF a
      <3> QED
        BY <3>1, <3>2, <3>3, <3>4
    <2> QED
      BY <1>2, <2>1, <2>2
  <1> HIDE DEF a
  <1>7. AnswerMeant(EncodeV3Message(g, a, {}), kind, asked)
    BY <1>1, <1>6, AnswerIsMeant DEF g
  <1> QED
    BY <1>4, <1>6, <1>7

FieldNames ==
    {"version", "id", "maxSize", "flags", "model", "engine", "boots", "time", "user", "salt",
     "contextEngine", "contextName", "pdu", "authenticated", "encrypted"}

\* The fields of what the agent is asked to send.
LEMMA AnswerFields ==
    ASSUME NEW f \in Answers
    PROVE  /\ DOMAIN f = FieldNames
           /\ f.authenticated \in BOOLEAN /\ f.encrypted \in BOOLEAN
           /\ DOMAIN f.pdu = {"tag", "id", "second", "third", "varbinds"}
           /\ Tag.Response \in RawTags /\ Tag.Trap \in RawTags /\ Tag.Report \in RawTags
  <1> DEFINE g == Responded(f)
  <1>1. DOMAIN f = FieldNames /\ g \in Sendable /\ DOMAIN f.pdu = {"tag", "id", "second", "third", "varbinds"}
    BY AnswersAre DEF FieldNames
  <1>2. ValidFields(g)
    BY <1>1, MessagesAssumption DEF MessagesAssumption
  <1>3. g.authenticated = f.authenticated /\ g.encrypted = f.encrypted
    BY <1>1 DEF Responded, FieldNames
  <1>4. f.authenticated \in BOOLEAN /\ f.encrypted \in BOOLEAN
    BY <1>2, <1>3 DEF ValidFields
  <1>5. Tag.Response \in RawTags /\ Tag.Trap \in RawTags /\ Tag.Report \in RawTags
    BY DEF RawTags, PduNames
  <1> QED
    BY <1>1, <1>4, <1>5

\* Booleans, and what a Report makes of them.
LEMMA Levels ==
    \A b \in BOOLEAN : b = (b /\ ~FALSE) /\ FALSE = (b /\ ~TRUE)
  OBVIOUS

\* A response is what the handler asked for.
LEMMA RespondsMeant ==
    ASSUME NEW f \in Answers, NEW mac \in Macs, AgentResponds(f, mac)
    PROVE  AnswerMeant(wire', sent'.kind, sent'.asked)
  <1> DEFINE g == Responded(f)
             kind == "Response"
             pdu == f.pdu
  <1>1. g \in Sendable
    BY AnswersAre
  <1>2. f.pdu.third < Word \div 2 /\ AgentSends(g, mac, kind, f)
    BY DEF AgentResponds
  <1>3. g.pdu = [pdu EXCEPT !.tag = Tag.Response]
    BY AnswerFields DEF Responded, FieldNames
  <1>4. g.id = f.id /\ g.engine = f.engine /\ g.boots = f.boots /\ g.time = f.time /\ g.user = f.user
        /\ g.contextName = f.contextName /\ g.authenticated = f.authenticated /\ g.encrypted = f.encrypted
    BY AnswerFields DEF Responded, FieldNames
  <1>5. ExpectedPdu(kind, f) = [pdu EXCEPT !.tag = Tag.Response]
    BY DEF ExpectedPdu
  <1>6. g.pdu.tag = Tag.Response /\ g.pdu.third = pdu.third
    <2>1. DOMAIN pdu = {"tag", "id", "second", "third", "varbinds"}
      BY AnswerFields
    <2> HIDE DEF pdu, g
    <2> QED
      BY <1>3, <2>1
  <1> HIDE DEF g
  <1>7. kind # "v2cTrap" /\ (kind = "Report") = FALSE
    OBVIOUS
  <1>8. g.pdu = ExpectedPdu(kind, f) /\ g.pdu.tag \in RawTags
    BY <1>3, <1>5, <1>6, AnswerFields
  <1> HIDE DEF kind
  <1>9. g.authenticated = (f.authenticated /\ ~(kind = "Report")) /\ g.encrypted = (f.encrypted /\ ~(kind = "Report"))
    BY <1>4, <1>7, AnswerFields, Levels
  <1>10. AnswersTo(g, kind, f)
    BY <1>4, <1>7, <1>8, <1>9 DEF AnswersTo
  <1> QED
    BY <1>1, <1>2, <1>6, <1>10, AgentMeant

\* What the agent is told about a trap.
LEMMA ToldIs ==
    ASSUME NEW f \in Answers, NEW trapOid, NEW uptime
    PROVE  LET t == Told(f, trapOid, uptime)
           IN  /\ \A k \in FieldNames : t[k] = f[k]
               /\ t.trapOid = trapOid /\ t.uptime = uptime
  <1> DEFINE t == Told(f, trapOid, uptime)
             g == [trapOid |-> trapOid, uptime |-> uptime]
  <1>1. DOMAIN f = FieldNames
    BY AnswerFields
  <1>2. t = [x \in DOMAIN f \cup DOMAIN g |-> IF x \in DOMAIN f THEN f[x] ELSE g[x]]
    BY DEF Told
  <1>3. DOMAIN g = {"trapOid", "uptime"} /\ g.trapOid = trapOid /\ g.uptime = uptime
    OBVIOUS
  <1> HIDE DEF g, t
  <1>4. "trapOid" \notin FieldNames /\ "uptime" \notin FieldNames
    BY DEF FieldNames
  <1>5. /\ \A k \in FieldNames : t[k] = f[k]
        /\ t.trapOid = trapOid /\ t.uptime = uptime
    BY <1>1, <1>2, <1>3, <1>4
  <1> QED
    BY <1>5 DEF t

\* A trap, with the uptime it was sent at.
LEMMA ExpectedTrap ==
    ASSUME NEW f \in Answers, NEW trapOid, NEW uptime \in Nat, NEW kind, kind # "Response", kind # "Report"
    PROVE  ExpectedPdu(kind, Told(f, trapOid, uptime)) = TrapPdu(f.pdu, trapOid, uptime)
  <1> DEFINE asked == Told(f, trapOid, uptime)
             n == uptime \div 10
             m == IF asked.uptime \div 10 < Word THEN asked.uptime \div 10 ELSE Word - 1
  <1>1. asked.pdu = f.pdu /\ asked.trapOid = trapOid /\ asked.uptime = uptime
    BY ToldIs DEF FieldNames
  <1>2. m = ElapsedHundredths(uptime)
    <2>1. Word \in Nat /\ n \in Nat
      BY WordsAre
    <2>2. m = IF n < Word THEN n ELSE Word - 1
      BY <1>1
    <2>3. ElapsedHundredths(uptime) = IF n >= Word THEN Word - 1 ELSE n
      BY DEF ElapsedHundredths
    <2> HIDE DEF n, m
    <2> QED
      BY <2>1, <2>2, <2>3
  <1>3. ExpectedPdu(kind, asked) =
            [tag |-> Tag.Trap, id |-> asked.pdu.id, second |-> 0, third |-> 0,
             varbinds |-> <<[oid |-> SYS_UP_TIME_OID, tag |-> Tag.TimeTicks, data |-> m],
                            [oid |-> SNMP_TRAP_OID_OID, tag |-> Tag.Oid, data |-> asked.trapOid]>> \o asked.pdu.varbinds]
    BY DEF ExpectedPdu
  <1> HIDE DEF m, asked
  <1>4. ExpectedPdu(kind, asked) =
            [tag |-> Tag.Trap, id |-> f.pdu.id, second |-> 0, third |-> 0,
             varbinds |-> <<[oid |-> SYS_UP_TIME_OID, tag |-> Tag.TimeTicks, data |-> ElapsedHundredths(uptime)],
                            [oid |-> SNMP_TRAP_OID_OID, tag |-> Tag.Oid, data |-> trapOid]>> \o f.pdu.varbinds]
    BY <1>1, <1>2, <1>3
  <1> QED
    BY <1>4 DEF TrapPdu, BuildWireTrap, asked

\* A trap is what the application asked for.
LEMMA TrapsMeant ==
    ASSUME NEW f \in Answers, NEW mac \in Macs, NEW trapOid \in TrapOids, NEW uptime \in Uptimes,
           AgentTraps(f, mac, trapOid, uptime)
    PROVE  AnswerMeant(wire', sent'.kind, sent'.asked)
  <1> DEFINE g == Trapped(f, trapOid, uptime)
             asked == Told(f, trapOid, uptime)
             kind == "Trap"
             pdu == TrapPdu(f.pdu, trapOid, uptime)
  <1>1. g \in Sendable /\ uptime \in Nat
    BY AnswersAre, MessagesAssumption DEF MessagesAssumption
  <1>2. AgentSends(g, mac, kind, asked)
    BY DEF AgentTraps
  <1>3. g.pdu = pdu
    BY AnswerFields DEF Trapped, FieldNames
  <1>4. g.id = f.id /\ g.engine = f.engine /\ g.boots = f.boots /\ g.time = f.time /\ g.user = f.user
        /\ g.contextName = f.contextName /\ g.authenticated = f.authenticated /\ g.encrypted = f.encrypted
    BY AnswerFields DEF Trapped, FieldNames
  <1>5. /\ asked.id = f.id /\ asked.engine = f.engine /\ asked.boots = f.boots /\ asked.time = f.time
        /\ asked.user = f.user /\ asked.contextName = f.contextName
        /\ asked.authenticated = f.authenticated /\ asked.encrypted = f.encrypted
    BY ToldIs DEF FieldNames
  <1>6. pdu.tag = Tag.Trap /\ pdu.third = 0
    BY DEF TrapPdu
  <1>7. kind # "v2cTrap" /\ (kind = "Report") = FALSE /\ kind # "Response" /\ kind # "Report"
    OBVIOUS
  <1>8. 0 < Word \div 2
    BY WordsAre, MessagesAssumption DEF MessagesAssumption
  <1> HIDE DEF g, asked, pdu, kind
  <1>9. g.pdu = ExpectedPdu(kind, asked) /\ g.pdu.tag \in RawTags
    BY <1>1, <1>3, <1>6, <1>7, ExpectedTrap, AnswerFields DEF asked, pdu
  <1>10. /\ g.authenticated = (asked.authenticated /\ ~(kind = "Report"))
         /\ g.encrypted = (asked.encrypted /\ ~(kind = "Report"))
    BY <1>4, <1>5, <1>7, AnswerFields, Levels
  <1>11. AnswersTo(g, kind, asked)
    BY <1>4, <1>5, <1>7, <1>9, <1>10 DEF AnswersTo
  <1>12. g.pdu.third < Word \div 2
    BY <1>3, <1>6, <1>8
  <1> QED
    BY <1>1, <1>2, <1>11, <1>12, AgentMeant

\* A Report can be matched to its request.
LEMMA ReportsMeant ==
    ASSUME NEW f \in Answers, NEW counter \in ReportCounters, AgentReports(f, counter)
    PROVE  AnswerMeant(wire', sent'.kind, sent'.asked)
  <1> DEFINE g == Reported(f, counter)
             p == f.pdu
             vbs == <<counter>>
             asked == [f EXCEPT !.pdu.varbinds = vbs]
             kind == "Report"
             pdu == ReportPdu(f.id, counter)
             none == <<>>
  <1>1. g \in Sendable /\ DOMAIN f = FieldNames
    BY AnswersAre, AnswerFields
  <1>2. AgentSends(g, none, kind, asked)
    BY DEF AgentReports
  <1>3. g.pdu = pdu /\ g.user = <<>> /\ g.contextName = <<>> /\ g.authenticated = FALSE /\ g.encrypted = FALSE
    BY <1>1 DEF Reported, FieldNames
  <1>4. g.id = f.id /\ g.engine = f.engine /\ g.boots = f.boots /\ g.time = f.time
    BY <1>1 DEF Reported, FieldNames
  <1>5. asked.id = f.id /\ asked.engine = f.engine /\ asked.boots = f.boots /\ asked.time = f.time
        /\ asked.authenticated = f.authenticated /\ asked.encrypted = f.encrypted
        /\ asked.pdu = [p EXCEPT !.varbinds = vbs]
    BY <1>1 DEF FieldNames
  <1>6. asked.pdu.varbinds = vbs
    <2>1. DOMAIN p = {"tag", "id", "second", "third", "varbinds"}
      BY AnswerFields
    <2> HIDE DEF p, asked, vbs
    <2> QED
      BY <1>5, <2>1
  <1>7. pdu = [tag |-> Tag.Report, id |-> f.id, second |-> 0, third |-> 0, varbinds |-> vbs]
    BY DEF ReportPdu
  <1>8. kind # "v2cTrap" /\ (kind = "Report") = TRUE /\ kind = "Report"
    OBVIOUS
  <1>9. 0 < Word \div 2
    BY WordsAre, MessagesAssumption DEF MessagesAssumption
  <1> HIDE DEF asked, vbs, g, pdu
  <1>10. ExpectedPdu(kind, asked) =
             [tag |-> Tag.Report, id |-> asked.id, second |-> 0, third |-> 0, varbinds |-> asked.pdu.varbinds]
    BY DEF ExpectedPdu
  <1>11. g.pdu = ExpectedPdu(kind, asked) /\ g.pdu.tag \in RawTags /\ g.pdu.third = 0
    BY <1>3, <1>5, <1>6, <1>7, <1>10, AnswerFields
  <1> HIDE DEF kind
  <1>12. /\ g.authenticated = (asked.authenticated /\ ~(kind = "Report"))
         /\ g.encrypted = (asked.encrypted /\ ~(kind = "Report"))
    BY <1>3, <1>5, <1>8, AnswerFields, Levels
  <1>13. AnswersTo(g, kind, asked)
    BY <1>3, <1>4, <1>5, <1>8, <1>11, <1>12 DEF AnswersTo
  <1>14. g.pdu.third < Word \div 2 /\ (g.authenticated => none \in Macs)
    BY <1>3, <1>9, <1>11
  <1> HIDE DEF none
  <1> QED
    BY <1>1, <1>2, <1>13, <1>14, AgentMeant

\* So is a v2c trap.
LEMMA TrapsV2cMeant ==
    ASSUME NEW f \in Answers, NEW trapOid \in TrapOids, NEW uptime \in Uptimes, AgentTrapsV2c(f, trapOid, uptime)
    PROVE  AnswerMeant(wire', sent'.kind, sent'.asked)
  <1> DEFINE g == Trapped(f, trapOid, uptime)
             asked == Told(f, trapOid, uptime)
             kind == "v2cTrap"
             pdu == TrapPdu(f.pdu, trapOid, uptime)
             w == EncodeV2cMessage(pdu)
  <1>1. g \in Sendable /\ uptime \in Nat /\ Short(w)
    BY AnswersAre, MessagesAssumption DEF MessagesAssumption
  <1>2. wire' = w /\ sent'.kind = kind /\ sent'.asked = asked
    BY DEF AgentTrapsV2c
  <1>3. g.pdu = pdu
    BY AnswerFields DEF Trapped, FieldNames
  <1>4. ValidPdu(pdu) /\ Known(pdu.varbinds)
    <2>1. ValidFields(g) /\ ValuesOnly(g.pdu)
      BY <1>1, MessagesAssumption DEF MessagesAssumption
    <2>2. ValidPdu(g.pdu)
      BY <2>1 DEF ValidFields
    <2> HIDE DEF g, pdu
    <2> QED
      BY <1>3, <2>1, <2>2 DEF ValuesOnly, Known
  <1>5. pdu.tag = Tag.Trap /\ pdu.third = 0
    BY DEF TrapPdu
  <1>6. 0 \in I32s /\ 1 \in I32s
    <2>1. Word \in Nat /\ Word \div 2 > 3 /\ Word \div 2 \in Nat
      BY WordsAre, MessagesAssumption DEF MessagesAssumption
    <2> QED
      BY <2>1 DEF I32s
  <1>7. kind # "Response" /\ kind # "Report" /\ kind = "v2cTrap"
    OBVIOUS
  <1>8. ExpectedPdu(kind, asked) = pdu
    BY <1>1, <1>7, ExpectedTrap
  <1>9. Len(w) < Room
    BY <1>1 DEF Short, Room
  <1> HIDE DEF pdu, asked
  <1>10. ManagerReadsV2c(w) = Ok([version |-> 1, community |-> <<>>, pdu |-> pdu])
    BY <1>4, <1>5, <1>6, <1>9, V2cReads, AnswerFields
  <1> HIDE DEF w
  <1>11. ManagerReadsV2c(w) = Ok([version |-> 1, community |-> <<>>, pdu |-> ExpectedPdu("v2cTrap", asked)])
    BY <1>8, <1>10
  <1>12. AnswerMeant(w, kind, asked)
    BY <1>11 DEF AnswerMeant
  <1> QED
    BY <1>2, <1>12

\* Every message on the wire is octets; an authenticated one carries its MAC
\* where the decoder looks for it and is what was signed around it, unless one
\* octet has changed since (encode_v3_envelope, find_auth_params_offset).
THEOREM MessageInvariant == MessageSpec => []MessageInv
  <1>1. MessageInit => MessageInv
    <2> SUFFICES ASSUME MessageInit PROVE MessageInv
      OBVIOUS
    <2>1. wire = <<>> /\ <<>> \in Seq(Octets) /\ altered = FALSE
      BY DEF MessageInit
    <2>2. ~Authenticated
      BY <2>1 DEF Authenticated
    <2> QED
      BY <2>1, <2>2 DEF MessageInv
  <1>2. MessageInv /\ [MessageNext]_messageVars => MessageInv'
    <2> SUFFICES ASSUME MessageInv, [MessageNext]_messageVars PROVE MessageInv'
      OBVIOUS
    <2>1. ASSUME NEW f \in Answers, NEW mac \in Macs, AgentResponds(f, mac) PROVE MessageInv'
      BY <2>1, RespondsStep
    <2>2. ASSUME NEW f \in Answers, NEW mac \in Macs, NEW trapOid \in TrapOids, NEW uptime \in Uptimes,
                 AgentTraps(f, mac, trapOid, uptime)
          PROVE  MessageInv'
      BY <2>2, TrapsStep
    <2>3. ASSUME NEW f \in Answers, NEW mac \in Macs, NEW trapOid \in TrapOids, NEW uptime \in Uptimes,
                 AgentTrapsV2c(f, trapOid, uptime)
          PROVE  MessageInv'
      BY <2>3, TrapsV2cStep
    <2>4. ASSUME NEW f \in Answers, NEW counter \in ReportCounters, AgentReports(f, counter) PROVE MessageInv'
      BY <2>4, ReportsStep
    <2>5. ASSUME NEW f \in Requests, NEW mac \in Macs, NEW padded \in Paddings, PeerSends(f, mac, padded)
          PROVE  MessageInv'
      BY <2>5, PeerSendsStep
    <2>6. ASSUME NEW i \in DOMAIN wire, NEW octet \in Alterations, Alter(i, octet) PROVE MessageInv'
      BY <2>6, AlterStep
    <2>7. CASE UNCHANGED messageVars
      <3>1. wire' = wire /\ sent' = sent /\ altered' = altered
        BY <2>7 DEF messageVars
      <3>2. Authenticated' = Authenticated
        BY <3>1 DEF Authenticated
      <3>3. \A w, k : Unaltered(w, k)' = Unaltered(w, k)
        BY <3>1 DEF Unaltered, FoundAt
      <3> QED
        BY <3>1, <3>2, <3>3 DEF MessageInv
    <2> QED
      BY <2>1, <2>2, <2>3, <2>4, <2>5, <2>6, <2>7 DEF MessageNext
  <1> QED
    BY <1>1, <1>2, PTL DEF MessageSpec

\* In whatever octets arrive, the offset the decoder reports names the octets
\* of the MAC it reports (decode_usm_security_parameters, auth_params_offset).
THEOREM OffsetNamesTheMacAlways == MessageSpec => []OffsetNamesTheMac
  <1>1. MessageInv => OffsetNamesTheMac
    <2> DEFINE usm == DecodeV3Envelope(wire).value.usm
    <2> SUFFICES ASSUME wire \in Seq(Octets), DecodeV3Envelope(wire).ok
                 PROVE  IF usm.auth = <<>> THEN usm.offset = NoOffset
                        ELSE usm.offset + Len(usm.auth) <= Len(wire)
                             /\ SubSeq(wire, usm.offset + 1, usm.offset + Len(usm.auth)) = usm.auth
      BY DEF MessageInv, OffsetNamesTheMac
    <2>1. IF usm.auth = <<>> THEN usm.offset = NoOffset ELSE Slice(wire, usm.auth, usm.offset)
      BY OffsetInAnyOctets
    <2> HIDE DEF usm
    <2>2. CASE usm.auth = <<>>
      BY <2>1, <2>2
    <2>3. CASE usm.auth # <<>>
      <3>1. Slice(wire, usm.auth, usm.offset)
        BY <2>1, <2>3
      <3> QED
        BY <2>3, <3>1, SliceIs
    <2> QED
      BY <2>2, <2>3
  <1> QED
    BY <1>1, MessageInvariant, PTL

\* A genuine message verifies, whatever stands in its fields and in whatever
\* form its lengths are written (encode_v3_envelope, verify_hmac).
THEOREM GenuineVerifiesAlways == MessageSpec => []GenuineVerifies
  <1>1. MessageInv => GenuineVerifies
    <2> DEFINE envelope == DecodeV3Envelope(wire)
               usm == envelope.value.usm
    <2> SUFFICES ASSUME MessageInv, Authenticated, ~altered, sent.by = "peer" => envelope.ok
                 PROVE  envelope.ok /\ VerifyHmac(wire, usm) /\ (sent.by = "agent" => wire = Canonical(sent.fields, sent.mac))
      BY DEF GenuineVerifies
    <2>1. PICK k \in 0..Len(wire) : /\ SignedBy(Overwrite(sent.signed, k, sent.mac), k, sent.mac, sent.signed)
                                    /\ Unaltered(Overwrite(sent.signed, k, sent.mac), k)
      BY DEF MessageInv
    <2> DEFINE w == Overwrite(sent.signed, k, sent.mac)
    <2>2. wire = w /\ FoundAt(w, k, sent.mac) /\ (sent.by # "peer" => DecodeV3Envelope(w).ok)
          /\ (sent.by = "agent" => w = Canonical(sent.fields, sent.mac))
      BY <2>1 DEF Unaltered
    <2>3. sent.signed = Overwrite(w, k, Zeros(MacOctets)) /\ Len(sent.mac) = MacOctets /\ k \in Nat
      BY <2>1 DEF SignedBy
    <2> HIDE DEF w
    <2>4. envelope.ok
      BY <2>2
    <2>5. usm.auth = sent.mac /\ usm.offset = k
      BY <2>2, <2>4 DEF FoundAt
    <2>6. usm.offset # NoOffset
      BY <2>3, <2>5 DEF NoOffset
    <2>7. VerifyHmac(wire, usm)
      BY <2>2, <2>3, <2>5, <2>6 DEF VerifyHmac
    <2> QED
      BY <2>2, <2>4, <2>7
  <1> QED
    BY <1>1, MessageInvariant, PTL

\* A message with a changed octet is refused, whichever octet it is and wherever
\* the decoder then finds the MAC (zero_auth_params_in_message, verify_hmac).
THEOREM AlterationDetectedAlways == MessageSpec => []AlterationDetected
  <1>1. MessageInv => AlterationDetected
    <2> DEFINE envelope == DecodeV3Envelope(wire)
               usm == envelope.value.usm
    <2> SUFFICES ASSUME MessageInv, Authenticated, altered, envelope.ok, VerifyHmac(wire, usm)
                 PROVE  FALSE
      BY DEF AlterationDetected
    <2>1. PICK k \in 0..Len(wire) : /\ SignedBy(Overwrite(sent.signed, k, sent.mac), k, sent.mac, sent.signed)
                                    /\ OneChange(wire, Overwrite(sent.signed, k, sent.mac))
      BY DEF MessageInv
    <2> DEFINE w == Overwrite(sent.signed, k, sent.mac)
               m == sent.mac
               s == sent.signed
               j == usm.offset
    <2>2. /\ w \in Seq(Octets) /\ m \in Seq(Octets) /\ k \in Nat /\ Len(m) = MacOctets /\ k + MacOctets <= Len(w)
          /\ s = Overwrite(w, k, Zeros(MacOctets)) /\ w = Overwrite(s, k, m)
      BY <2>1 DEF SignedBy
    <2>3. MacOctets \in Nat /\ MacOctets # 0
      BY MessagesAssumption DEF MessagesAssumption
    <2>4. usm.auth = m /\ s = Overwrite(wire, j, Zeros(Len(m)))
      BY DEF VerifyHmac
    <2>5. wire \in Seq(Octets)
      BY DEF MessageInv
    <2>6. IF usm.auth = <<>> THEN usm.offset = NoOffset ELSE Slice(wire, usm.auth, usm.offset)
      BY <2>5, OffsetInAnyOctets
    <2> HIDE DEF w, m, s, j
    <2>7. Slice(wire, m, j)
      BY <2>2, <2>3, <2>4, <2>6 DEF j
    <2>8. s # Overwrite(wire, j, Zeros(MacOctets))
      BY <2>1, <2>7, OneChangeRefused DEF w, m, s
    <2> QED
      BY <2>2, <2>4, <2>8
  <1> QED
    BY <1>1, MessageInvariant, PTL

\* The request handlers see what the peer meant, in any form of lengths and
\* encrypted or not, and a request that is not well formed is refused
\* (decode_v3_message, decrypt_scoped_pdu).
THEOREM RequestsAsMeantAlways == MessageSpec => []RequestsAsMeant
  <1>1. MessageInit => RequestsAsMeant
    BY RequestsAsMeantIs DEF MessageInit
  <1>2. RequestsAsMeant /\ [MessageNext]_messageVars => RequestsAsMeant'
    <2> SUFFICES ASSUME RequestsAsMeant, [MessageNext]_messageVars PROVE RequestsAsMeant'
      OBVIOUS
    <2> DEFINE P == wire # <<>> /\ ~altered /\ sent.by = "peer" => MeantBy(sent.fields, DecodeRequest(wire))
    <2>1. P
      BY RequestsAsMeantIs
    <2>2. sent'.by = "agent" => P'
      OBVIOUS
    <2>3. altered' => P'
      OBVIOUS
    <2>4. ASSUME NEW f \in Requests, NEW mac \in Macs, NEW padded \in Paddings, PeerSends(f, mac, padded) PROVE P'
      BY <2>4, PeerMeant
    <2>5. ASSUME UNCHANGED messageVars PROVE P'
      BY <2>1, <2>5 DEF messageVars
    <2>6. P'
      <3> HIDE DEF P
      <3> QED
        BY <2>2, <2>3, <2>4, <2>5, OtherSteps DEF MessageNext
    <2>7. (RequestsAsMeant <=> P)'
      BY RequestsAsMeantIs, PTL
    <2> QED
      BY <2>6, <2>7
  <1> QED
    BY <1>1, <1>2, PTL DEF MessageSpec

\* A manager can use what the agent sends it: the PDU and the stamp it was
\* asked to send, at the level and for the user of the request, decrypted with
\* the fields of the message itself; Reports and v2c traps too
\* (encode_v3_response, encode_v3_trap, encode_v3_report, encode_trap).
THEOREM AnswersAsMeantAlways == MessageSpec => []AnswersAsMeant
  <1>1. MessageInit => AnswersAsMeant
    BY AnswersAsMeantIs DEF MessageInit
  <1>2. AnswersAsMeant /\ [MessageNext]_messageVars => AnswersAsMeant'
    <2> SUFFICES ASSUME AnswersAsMeant, [MessageNext]_messageVars PROVE AnswersAsMeant'
      OBVIOUS
    <2> DEFINE P == wire # <<>> /\ ~altered /\ sent.by = "agent" => AnswerMeant(wire, sent.kind, sent.asked)
    <2>1. P
      BY AnswersAsMeantIs
    <2>2. AnswerMeant(wire', sent'.kind, sent'.asked) => P'
      OBVIOUS
    <2>3. altered' => P'
      OBVIOUS
    <2>4. sent'.by = "peer" => P'
      OBVIOUS
    <2>5. ASSUME UNCHANGED messageVars PROVE P'
      BY <2>1, <2>5 DEF messageVars
    <2>6. P'
      <3> HIDE DEF P
      <3> QED
        BY <2>2, <2>3, <2>4, <2>5, RespondsMeant, TrapsMeant, ReportsMeant, TrapsV2cMeant, OtherSteps DEF MessageNext
    <2>7. (AnswersAsMeant <=> P)'
      BY AnswersAsMeantIs, PTL
    <2> QED
      BY <2>6, <2>7
  <1> QED
    BY <1>1, <1>2, PTL DEF MessageSpec

==============================================================================
