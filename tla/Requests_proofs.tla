--------------------------- MODULE Requests_proofs ---------------------------
(***************************************************************************)
(* For every store, every sequence of inserts and every way of fetching:   *)
(* handle_get_bulk's estimate is an upper bound of what the encoder        *)
(* writes, so that a response of repeaters fits; a walk goes forward, and  *)
(* misses nothing that was there when it began.                            *)
(***************************************************************************)
EXTENDS Requests, InductionLemmas, FiniteSetTheorems

-----------------------------------------------------------------------------
(* Sizes *)

\* The estimate's length_of_length is the length encode_length writes.
LEMMA LengthsAgree ==
    ASSUME NEW n \in Nat
    PROVE  LengthOfLength(n) = EncodedLength(n)
  BY DEF LengthOfLength, EncodedLength

LEMMA LengthBounds ==
    ASSUME NEW n \in Nat
    PROVE  /\ EncodedLength(n) \in 1..5
           /\ n <= 127 => EncodedLength(n) = 1
  BY DEF EncodedLength, SignificantBytes

\* More content never takes fewer bytes.
LEMMA TlvMonotone ==
    ASSUME NEW m \in Nat, NEW n \in Nat, m <= n
    PROVE  Tlv(m) \in Nat /\ Tlv(n) \in Nat /\ Tlv(m) <= Tlv(n)
  BY DEF Tlv, EncodedLength, SignificantBytes

LEMMA TlvBounds ==
    ASSUME NEW n \in Nat
    PROVE  /\ Tlv(n) \in Nat /\ Tlv(n) <= n + 6
           /\ n <= 127 => Tlv(n) = n + 2
  BY LengthBounds DEF Tlv

\* estimated_varbind_wire_size never undercounts: whenever the name's content
\* is at most five bytes per arc and the value's content within its kind's
\* bound, the encoded varbind is at most as long as estimated.
THEOREM EstimateCovers ==
    ASSUME NEW arcs \in Nat, NEW oidContent \in Nat, oidContent <= arcs * 5,
           NEW kind \in ValueKinds, NEW len \in Nat,
           NEW valueContent \in Nat, valueContent <= ValueContentUpperBound(kind, len)
    PROVE  EncodedVarbind(oidContent, valueContent) <= EstimatedVarbind(arcs, kind, len)
  <1> DEFINE upper == ValueContentUpperBound(kind, len)
  <1>1. upper \in Nat
    BY DEF ValueContentUpperBound
  <1>2. arcs * 5 \in Nat
    OBVIOUS
  <1> HIDE DEF upper
  <1>3. Tlv(oidContent) \in Nat /\ Tlv(arcs * 5) \in Nat /\ Tlv(oidContent) <= Tlv(arcs * 5)
    BY <1>2, TlvMonotone
  <1>4. Tlv(valueContent) \in Nat /\ Tlv(upper) \in Nat /\ Tlv(valueContent) <= Tlv(upper)
    BY <1>1, TlvMonotone DEF upper
  <1>5. Tlv(Tlv(oidContent) + Tlv(valueContent)) <= Tlv(Tlv(arcs * 5) + Tlv(upper))
    BY <1>3, <1>4, TlvMonotone
  <1>6. EstimatedVarbind(arcs, kind, len) = Tlv(Tlv(arcs * 5) + Tlv(upper))
    <2>1. Tlv(arcs * 5) = 1 + LengthOfLength(arcs * 5) + arcs * 5
      BY <1>2, LengthsAgree DEF Tlv
    <2>2. Tlv(upper) = 1 + LengthOfLength(upper) + upper
      BY <1>1, LengthsAgree DEF Tlv
    <2>3. Tlv(Tlv(arcs * 5) + Tlv(upper)) =
              1 + LengthOfLength(Tlv(arcs * 5) + Tlv(upper)) + Tlv(arcs * 5) + Tlv(upper)
      <3> DEFINE both == Tlv(arcs * 5) + Tlv(upper)
      <3>1. both \in Nat /\ both = Tlv(arcs * 5) + Tlv(upper)
        BY <1>3, <1>4
      <3> HIDE DEF both
      <3>2. Tlv(both) = 1 + LengthOfLength(both) + both /\ LengthOfLength(both) \in Nat
        BY <3>1, LengthsAgree, LengthBounds DEF Tlv
      <3> QED
        BY <1>3, <1>4, <3>1, <3>2
    <2> QED
      BY <2>1, <2>2, <2>3 DEF EstimatedVarbind, upper
  <1> QED
    BY <1>5, <1>6 DEF EncodedVarbind

\* What the message adds to the varbinds, rounded up by a few bytes.
LEMMA EnvelopeSize ==
    ASSUME NEW engineId \in EngineIdSizes, NEW user \in UserNameSizes, NEW mac \in MacSizes,
           NEW encrypted \in BOOLEAN, NEW varbinds \in Nat
    PROVE  /\ ResponseMessage(engineId, user, mac, encrypted, varbinds) \in Nat
           /\ ResponseMessage(engineId, user, mac, encrypted, varbinds) <= varbinds + 259
  <1> DEFINE salt == IF encrypted THEN 8 ELSE 0
             pdu == ResponsePdu(varbinds)
             scoped == ScopedPdu(engineId, pdu)
             usm == UsmParams(engineId, user, mac, salt)
             data == IF encrypted THEN Tlv(scoped) ELSE scoped
             inner == Tlv(1) + HeaderData + Tlv(usm) + data
  <1>1. engineId \in 0..32 /\ user \in 0..32 /\ mac \in 0..48 /\ salt \in 0..8
    BY DEF EngineIdSizes, UserNameSizes, MacSizes
  <1>2. IntegerTlv = 6 /\ Tlv(0) = 2 /\ Tlv(1) = 3
    BY TlvBounds DEF IntegerTlv
  <1>3. HeaderData = 20
    BY <1>2, TlvBounds DEF HeaderData
  <1>4. pdu \in Nat /\ pdu <= varbinds + 30
    <2>1. Tlv(varbinds) \in Nat /\ Tlv(varbinds) <= varbinds + 6
      BY TlvBounds
    <2>2. 3 * IntegerTlv + Tlv(varbinds) \in Nat
      BY <1>2, <2>1
    <2>3. /\ Tlv(3 * IntegerTlv + Tlv(varbinds)) \in Nat
          /\ Tlv(3 * IntegerTlv + Tlv(varbinds)) <= 3 * IntegerTlv + Tlv(varbinds) + 6
      BY <2>2, TlvBounds
    <2> QED
      BY <1>2, <2>1, <2>3 DEF ResponsePdu
  <1> HIDE DEF pdu
  <1>5. Tlv(engineId) \in Nat /\ Tlv(engineId) <= 34
    BY <1>1, TlvBounds
  <1>6. scoped \in Nat /\ scoped <= pdu + 42
    <2>1. Tlv(engineId) + Tlv(0) + pdu \in Nat
      BY <1>2, <1>4, <1>5
    <2>2. /\ Tlv(Tlv(engineId) + Tlv(0) + pdu) \in Nat
          /\ Tlv(Tlv(engineId) + Tlv(0) + pdu) <= Tlv(engineId) + Tlv(0) + pdu + 6
      BY <2>1, TlvBounds
    <2> QED
      BY <1>2, <1>4, <1>5, <2>2 DEF ScopedPdu
  <1> HIDE DEF scoped, salt
  <1>7. usm \in Nat /\ usm <= 146
    <2>1. /\ Tlv(user) \in Nat /\ Tlv(user) <= 34
          /\ Tlv(mac) \in Nat /\ Tlv(mac) <= 50
          /\ Tlv(salt) \in Nat /\ Tlv(salt) <= 10
      BY <1>1, TlvBounds
    <2>2. Tlv(engineId) + 2 * IntegerTlv + Tlv(user) + Tlv(mac) + Tlv(salt) \in 0..140
      BY <1>2, <1>5, <2>1
    <2> QED
      BY <2>2, TlvBounds DEF UsmParams
  <1> HIDE DEF usm
  <1>8. Tlv(usm) \in Nat /\ Tlv(usm) <= 152
    BY <1>7, TlvBounds
  <1>9. data \in Nat /\ data <= scoped + 6
    BY <1>6, TlvBounds
  <1> HIDE DEF data
  <1>10. inner \in Nat /\ inner <= varbinds + 253
    BY <1>2, <1>3, <1>4, <1>6, <1>8, <1>9
  <1>11. ResponseMessage(engineId, user, mac, encrypted, varbinds) = Tlv(inner)
    BY DEF ResponseMessage, data, usm, scoped, pdu, salt
  <1> HIDE DEF inner
  <1>12. Tlv(inner) \in Nat /\ Tlv(inner) <= inner + 6
    BY <1>10, TlvBounds
  <1> QED
    BY <1>10, <1>11, <1>12

\* V3_ENVELOPE_OVERHEAD covers the message around the varbinds, encrypted or
\* not, for every engine ID, user name and MAC the configuration allows.
THEOREM OverheadCovers ==
    ASSUME NEW engineId \in EngineIdSizes, NEW user \in UserNameSizes, NEW mac \in MacSizes,
           NEW encrypted \in BOOLEAN, NEW varbinds \in Nat
    PROVE  /\ ResponseMessage(engineId, user, mac, encrypted, varbinds) \in Nat
           /\ ResponseMessage(engineId, user, mac, encrypted, varbinds)
                  <= varbinds + V3_ENVELOPE_OVERHEAD
  BY EnvelopeSize DEF V3_ENVELOPE_OVERHEAD

\* REQ-0133 for the repeating section: varbinds that were estimated within
\* budget leave in a message of at most the effective maximum size.
THEOREM BudgetedResponseFits ==
    ASSUME NEW engineId \in EngineIdSizes, NEW user \in UserNameSizes, NEW mac \in MacSizes,
           NEW encrypted \in BOOLEAN, NEW actual \in Nat, NEW estimated \in Nat,
           actual <= estimated,
           NEW maxSize \in Nat, estimated <= maxSize - V3_ENVELOPE_OVERHEAD
    PROVE  ResponseMessage(engineId, user, mac, encrypted, actual) <= maxSize
  <1>1. /\ ResponseMessage(engineId, user, mac, encrypted, actual) \in Nat
        /\ ResponseMessage(engineId, user, mac, encrypted, actual)
               <= actual + V3_ENVELOPE_OVERHEAD
    BY OverheadCovers
  <1> QED
    BY <1>1 DEF V3_ENVELOPE_OVERHEAD

-----------------------------------------------------------------------------
(* The order of object identifiers *)

\* a is before b because of position i: there a ends or has the smaller arc.
At(a, b, i) ==
    /\ i \in 1..Len(b) /\ i - 1 <= Len(a)
    /\ \A j \in 1..(i - 1) : a[j] = b[j]
    /\ i <= Len(a) => a[i] < b[i]

LEMMA BeforeAt ==
    ASSUME NEW a \in Seq(Nat), NEW b \in Seq(Nat)
    PROVE  Before(a, b) <=> \E i \in Nat : At(a, b, i)
  <1>1. /\ DOMAIN a = 1..Len(a) /\ DOMAIN b = 1..Len(b) /\ Len(a) \in Nat /\ Len(b) \in Nat
    OBVIOUS
  <1>2. ASSUME NEW i \in DOMAIN a \cap DOMAIN b, a[i] < b[i], \A j \in 1..(i - 1) : a[j] = b[j]
        PROVE  i \in Nat /\ At(a, b, i)
    BY <1>1, <1>2 DEF At
  <1>3. ASSUME Len(a) < Len(b), \A j \in DOMAIN a : a[j] = b[j]
        PROVE  Len(a) + 1 \in Nat /\ At(a, b, Len(a) + 1)
    <2> DEFINE m == Len(a) + 1
    <2>1. m \in Nat /\ m \in 1..Len(b) /\ m - 1 = Len(a) /\ ~(m <= Len(a))
      BY <1>1, <1>3
    <2>2. \A j \in 1..(m - 1) : a[j] = b[j]
      BY <1>1, <1>3, <2>1
    <2> HIDE DEF m
    <2>3. m \in Nat /\ At(a, b, m)
      BY <1>1, <2>1, <2>2 DEF At
    <2> QED
      BY <2>3 DEF m
  <1>4. ASSUME NEW i \in Nat, At(a, b, i) PROVE Before(a, b)
    <2>1. CASE i <= Len(a)
      <3>1. i \in DOMAIN a \cap DOMAIN b /\ a[i] < b[i] /\ \A j \in 1..(i - 1) : a[j] = b[j]
        BY <1>1, <1>4, <2>1 DEF At
      <3> QED
        BY <3>1 DEF Before
    <2>2. CASE ~(i <= Len(a))
      <3>1. i = Len(a) + 1
        BY <1>1, <1>4, <2>2 DEF At
      <3>2. Len(a) < Len(b) /\ \A j \in DOMAIN a : a[j] = b[j]
        BY <1>1, <1>4, <3>1 DEF At
      <3> QED
        BY <3>2 DEF Before
    <2> QED
      BY <2>1, <2>2
  <1> QED
    BY <1>2, <1>3, <1>4 DEF Before

LEMMA BeforeIrreflexive ==
    ASSUME NEW a \in Seq(Nat)
    PROVE  ~Before(a, a)
  <1>1. \A i \in DOMAIN a : a[i] \in Nat
    OBVIOUS
  <1> QED
    BY <1>1 DEF Before

LEMMA BeforeTransitive ==
    ASSUME NEW a \in Seq(Nat), NEW b \in Seq(Nat), NEW c \in Seq(Nat),
           Before(a, b), Before(b, c)
    PROVE  Before(a, c)
  <1>1. PICK i \in Nat : At(a, b, i)
    BY BeforeAt
  <1>2. PICK k \in Nat : At(b, c, k)
    BY BeforeAt
  <1>3. /\ Len(a) \in Nat /\ Len(b) \in Nat /\ Len(c) \in Nat
        /\ \A j \in 1..Len(a) : a[j] \in Nat
        /\ \A j \in 1..Len(b) : b[j] \in Nat
        /\ \A j \in 1..Len(c) : c[j] \in Nat
    OBVIOUS
  <1>4. CASE i < k
    <2>1. i \in 1..(k - 1) /\ i \in 1..Len(c) /\ i - 1 <= Len(a) /\ b[i] = c[i]
      BY <1>1, <1>2, <1>3, <1>4 DEF At
    <2>2. \A j \in 1..(i - 1) : a[j] = c[j]
      BY <1>1, <1>2, <1>4 DEF At
    <2>3. At(a, c, i)
      BY <1>1, <2>1, <2>2 DEF At
    <2> QED
      BY <2>3, BeforeAt
  <1>5. CASE k <= i
    <2>1. k \in 1..Len(c) /\ k - 1 <= Len(a) /\ k \in 1..Len(b) /\ b[k] < c[k]
      BY <1>1, <1>2, <1>3, <1>5 DEF At
    <2>2. \A j \in 1..(k - 1) : a[j] = c[j]
      BY <1>1, <1>2, <1>5 DEF At
    <2>3. k <= Len(a) => a[k] <= b[k]
      <3>1. CASE k = i
        BY <1>1, <1>3, <2>1, <3>1 DEF At
      <3>2. CASE k # i
        <4>1. k \in 1..(i - 1)
          BY <1>5, <2>1, <3>2
        <4>2. a[k] = b[k] /\ b[k] \in Nat
          BY <1>1, <1>3, <2>1, <4>1 DEF At
        <4> QED
          BY <4>2
      <3> QED
        BY <3>1, <3>2
    <2>4. k <= Len(a) => a[k] < c[k]
      BY <1>3, <2>1, <2>3
    <2>5. At(a, c, k)
      BY <2>1, <2>2, <2>4 DEF At
    <2> QED
      BY <2>5, BeforeAt
  <1> QED
    BY <1>4, <1>5

LEMMA BeforeTotal ==
    ASSUME NEW a \in Seq(Nat), NEW b \in Seq(Nat), a # b
    PROVE  Before(a, b) \/ Before(b, a)
  <1> DEFINE D == {i \in DOMAIN a \cap DOMAIN b : a[i] # b[i]}
  <1>1. /\ DOMAIN a = 1..Len(a) /\ DOMAIN b = 1..Len(b) /\ Len(a) \in Nat /\ Len(b) \in Nat
        /\ \A j \in DOMAIN a : a[j] \in Nat
        /\ \A j \in DOMAIN b : b[j] \in Nat
    OBVIOUS
  <1>2. CASE D = {}
    <2>1. Len(a) # Len(b)
      <3> SUFFICES ASSUME Len(a) = Len(b) PROVE a = b
        OBVIOUS
      <3>1. \A i \in 1..Len(a) : a[i] = b[i]
        BY <1>1, <1>2
      <3> QED
        BY <3>1, SeqEqual
    <2>2. CASE Len(a) < Len(b)
      <3>1. \A j \in DOMAIN a : a[j] = b[j]
        BY <1>1, <1>2, <2>2
      <3> QED
        BY <2>2, <3>1 DEF Before
    <2>3. CASE Len(b) < Len(a)
      <3>1. \A j \in DOMAIN b : b[j] = a[j]
        BY <1>1, <1>2, <2>3
      <3> QED
        BY <2>3, <3>1 DEF Before
    <2>4. \A m, n \in Nat : m # n => m < n \/ n < m
      OBVIOUS
    <2> QED
      BY <1>1, <2>1, <2>2, <2>3, <2>4
  <1>3. CASE D # {}
    <2>1. D \subseteq Nat
      BY <1>1
    <2>2. PICK i \in D : \A m \in D : i <= m
      <3> HIDE DEF D
      <3> QED
        BY <1>3, <2>1, LeastNatural
    <2>3. i \in DOMAIN a \cap DOMAIN b /\ (a[i] < b[i] \/ b[i] < a[i])
      BY <1>1
    <2>4. ASSUME NEW j \in 1..(i - 1) PROVE a[j] = b[j]
      <3>1. j \in DOMAIN a \cap DOMAIN b /\ ~(i <= j)
        BY <1>1, <2>3
      <3> QED
        BY <2>2, <3>1
    <2>5. \A j \in 1..(i - 1) : a[j] = b[j] /\ b[j] = a[j]
      BY <2>4
    <2> QED
      BY <2>3, <2>5 DEF Before
  <1> QED
    BY <1>2, <1>3

\* A finite set of object identifiers has a first one.
LEMMA FirstExists ==
    ASSUME NEW S \in SUBSET Seq(Nat), IsFiniteSet(S), S # {}
    PROVE  \E o \in S : \A p \in S \ {o} : Before(o, p)
  <1> DEFINE Has(T) == \E o \in T : \A p \in T \ {o} : Before(o, p)
             N == {n \in Nat : \A T \in SUBSET Seq(Nat) :
                      IsFiniteSet(T) /\ Cardinality(T) = n /\ T # {} => Has(T)}
  <1>1. 0 \in N
    <2>1. \A T : IsFiniteSet(T) /\ Cardinality(T) = 0 => T = {}
      BY FS_EmptySet
    <2> QED
      BY <2>1
  <1>2. ASSUME NEW n \in Nat, n \in N PROVE n + 1 \in N
    <2>0. n + 1 \in Nat
      OBVIOUS
    <2> SUFFICES ASSUME NEW T \in SUBSET Seq(Nat), IsFiniteSet(T), Cardinality(T) = n + 1, T # {}
                 PROVE  Has(T)
      BY <2>0
    <2>1. PICK x \in T : TRUE
      OBVIOUS
    <2> DEFINE R == T \ {x}
    <2>2. IsFiniteSet(R) /\ Cardinality(R) = n
      <3>1. IsFiniteSet(R) /\ Cardinality(R) = (n + 1) - 1
        BY <2>1, FS_RemoveElement
      <3> QED
        BY <3>1
    <2>3. CASE R = {}
      BY <2>1, <2>3
    <2>4. CASE R # {}
      <3>1. Has(R)
        <4>1. R \in SUBSET Seq(Nat)
          OBVIOUS
        <4> HIDE DEF R, Has
        <4> QED
          BY <1>2, <2>2, <2>4, <4>1
      <3>2. PICK o \in R : \A p \in R \ {o} : Before(o, p)
        BY <3>1
      <3>3. o \in Seq(Nat) /\ x \in Seq(Nat) /\ o # x /\ R \subseteq Seq(Nat)
        OBVIOUS
      <3>4. CASE Before(o, x)
        BY <3>2, <3>4
      <3>5. CASE Before(x, o)
        <4>1. ASSUME NEW p \in T \ {x} PROVE Before(x, p)
          BY <3>2, <3>3, <3>5, BeforeTransitive
        <4> QED
          BY <2>1, <4>1
      <3> QED
        BY <3>3, <3>4, <3>5, BeforeTotal
    <2> QED
      BY <2>3, <2>4
  <1>3. Nat \subseteq N
    <2> HIDE DEF N
    <2> QED
      BY <1>1, <1>2, NaturalInduction
  <1>4. Cardinality(S) \in N
    BY <1>3, FS_CardinalityType
  <1> QED
    BY <1>4

\* Least is the first one.
LEMMA LeastIsFirst ==
    ASSUME NEW S \in SUBSET Seq(Nat), IsFiniteSet(S), S # {}
    PROVE  Least(S) \in S /\ \A p \in S \ {Least(S)} : Before(Least(S), p)
  <1>1. \E o \in S : \A p \in S \ {o} : Before(o, p)
    BY FirstExists
  <1> QED
    BY <1>1 DEF Least

-----------------------------------------------------------------------------
(* Sums *)

\* The partial sums behind Total.
LEMMA TotalIs ==
    ASSUME NEW s \in Seq(Nat)
    PROVE  \E f \in [0..Len(s) -> Nat] :
               /\ f[0] = 0 /\ \A n \in 1..Len(s) : f[n] = f[n - 1] + s[n]
               /\ Total(s) = f[Len(s)]
  <1> DEFINE L == Len(s)
             Def(f) == f = [n \in 0..L |-> IF n = 0 THEN 0 ELSE f[n - 1] + s[n]]
             sum == CHOOSE f : Def(f)
             step == [n \in 1..L |-> [v \in Nat |-> v + s[n]]]
  <1>1. L \in Nat /\ \A n \in 1..L : s[n] \in Nat
    OBVIOUS
  <1>2. PICK f \in [0..L -> Nat] : f[0] = 0 /\ \A n \in 1..L : f[n] = f[n - 1] + s[n]
    <2>1. step \in [1..L -> [Nat -> Nat]] /\ 0 \in Nat
      BY <1>1
    <2> HIDE DEF step, L
    <2>2. PICK f \in [0..L -> Nat] : Iterates(f, L, 0, step)
      BY <1>1, <2>1, RecursionUpTo
    <2>3. \A n \in 1..L : f[n - 1] \in Nat
      BY <1>1
    <2> QED
      BY <2>2, <2>3 DEF Iterates, step
  <1>3. Def(f)
    <2>1. \A n \in 0..L : n # 0 => n \in 1..L
      BY <1>1
    <2> QED
      BY <1>2, <2>1
  <1>4. Def(sum)
    BY <1>3
  <1>5. Total(s) = sum[L]
    BY DEF Total
  <1> DEFINE S == {n \in 0..L : sum[n] \in Nat}
  <1> HIDE DEF sum
  <1>6. sum[0] = 0 /\ \A n \in 1..L : sum[n] = sum[n - 1] + s[n]
    <2>1. \A n \in 1..L : n \in 0..L /\ n # 0
      BY <1>1
    <2> QED
      BY <1>1, <1>4, <2>1
  <1>7. 0 \in S
    BY <1>1, <1>6
  <1>8. ASSUME NEW n \in 1..L, n - 1 \in S PROVE n \in S
    BY <1>1, <1>6, <1>8
  <1>9. 0..L \subseteq S
    <2> HIDE DEF S, L
    <2> QED
      BY <1>1, <1>7, <1>8, InductionUpTo
  <1>10. sum \in [0..L -> Nat]
    BY <1>4, <1>9
  <1> HIDE DEF L
  <1> QED
    BY <1>5, <1>6, <1>10 DEF L

LEMMA TotalType ==
    ASSUME NEW s \in Seq(Nat)
    PROVE  Total(s) \in Nat
  <1>1. Len(s) \in Nat
    OBVIOUS
  <1> QED
    BY <1>1, TotalIs

\* More of each is more in total.
LEMMA TotalMonotone ==
    ASSUME NEW s \in Seq(Nat), NEW t \in Seq(Nat), Len(s) = Len(t),
           \A i \in 1..Len(s) : s[i] <= t[i]
    PROVE  Total(s) <= Total(t)
  <1> DEFINE L == Len(s)
  <1>1. PICK f \in [0..L -> Nat] :
            /\ f[0] = 0 /\ \A n \in 1..L : f[n] = f[n - 1] + s[n]
            /\ Total(s) = f[L]
    BY TotalIs
  <1>2. PICK g \in [0..L -> Nat] :
            /\ g[0] = 0 /\ \A n \in 1..L : g[n] = g[n - 1] + t[n]
            /\ Total(t) = g[L]
    BY TotalIs
  <1>3. L \in Nat /\ \A n \in 1..L : s[n] \in Nat /\ t[n] \in Nat
    OBVIOUS
  <1> DEFINE S == {n \in 0..L : f[n] <= g[n]}
  <1>4. 0 \in S
    BY <1>1, <1>2, <1>3
  <1>5. ASSUME NEW n \in 1..L, n - 1 \in S PROVE n \in S
    <2>1. /\ f[n] = f[n - 1] + s[n] /\ g[n] = g[n - 1] + t[n] /\ s[n] <= t[n]
          /\ f[n - 1] \in Nat /\ g[n - 1] \in Nat /\ s[n] \in Nat /\ t[n] \in Nat
      <3>1. n - 1 \in 0..L
        BY <1>3
      <3>2. f[n - 1] \in Nat /\ g[n - 1] \in Nat
        BY <3>1
      <3> QED
        BY <1>1, <1>2, <1>3, <3>2
    <2> QED
      BY <1>5, <2>1
  <1>6. 0..L \subseteq S
    <2> HIDE DEF S, L
    <2> QED
      BY <1>3, <1>4, <1>5, InductionUpTo
  <1> QED
    BY <1>1, <1>2, <1>3, <1>6

LEMMA TotalConcat ==
    ASSUME NEW s \in Seq(Nat), NEW t \in Seq(Nat)
    PROVE  Total(s \o t) = Total(s) + Total(t)
  <1> DEFINE L == Len(s)
             M == Len(t)
             u == s \o t
  <1>1. L \in Nat /\ M \in Nat /\ \A i \in 1..L : s[i] \in Nat
    OBVIOUS
  <1>2. /\ u \in Seq(Nat) /\ Len(u) = L + M
        /\ \A i \in 1..L : u[i] = s[i]
        /\ \A i \in 1..M : u[L + i] = t[i]
    BY ConcatProperties
  <1>3. PICK f \in [0..L -> Nat] :
            /\ f[0] = 0 /\ \A n \in 1..L : f[n] = f[n - 1] + s[n]
            /\ Total(s) = f[L]
    BY TotalIs
  <1>4. PICK g \in [0..M -> Nat] :
            /\ g[0] = 0 /\ \A n \in 1..M : g[n] = g[n - 1] + t[n]
            /\ Total(t) = g[M]
    BY TotalIs
  <1>5. PICK h \in [0..(L + M) -> Nat] :
            /\ h[0] = 0 /\ \A n \in 1..(L + M) : h[n] = h[n - 1] + u[n]
            /\ Total(u) = h[L + M]
    BY <1>2, TotalIs
  <1> HIDE DEF u, L, M
  <1>6. h[L] = f[L]
    <2> DEFINE S == {n \in 0..L : h[n] = f[n]}
    <2>1. 0 \in S
      BY <1>1, <1>3, <1>5
    <2>2. ASSUME NEW n \in 1..L, n - 1 \in S PROVE n \in S
      <3>1. n \in 1..(L + M)
        BY <1>1
      <3>2. h[n] = h[n - 1] + u[n] /\ f[n] = f[n - 1] + s[n] /\ u[n] = s[n] /\ h[n - 1] = f[n - 1]
        BY <1>2, <1>3, <1>5, <2>2, <3>1
      <3> QED
        BY <3>2
    <2>3. 0..L \subseteq S
      <3> HIDE DEF S
      <3> QED
        BY <1>1, <2>1, <2>2, InductionUpTo
    <2> QED
      BY <1>1, <2>3
  <1>7. h[L + M] = f[L] + g[M]
    <2> DEFINE S == {n \in 0..M : h[L + n] = f[L] + g[n]}
    <2>1. 0 \in S
      BY <1>1, <1>3, <1>4, <1>6
    <2>2. ASSUME NEW n \in 1..M, n - 1 \in S PROVE n \in S
      <3>1. L + n \in 1..(L + M) /\ (L + n) - 1 = L + (n - 1)
        BY <1>1
      <3>2. /\ h[L + n] = h[L + (n - 1)] + u[L + n] /\ g[n] = g[n - 1] + t[n]
            /\ u[L + n] = t[n] /\ h[L + (n - 1)] = f[L] + g[n - 1]
        BY <1>2, <1>4, <1>5, <2>2, <3>1
      <3>3. f[L] \in Nat /\ g[n - 1] \in Nat /\ t[n] \in Nat
        <4>1. L \in 0..L /\ n - 1 \in 0..M
          BY <1>1
        <4>2. t[n] \in Nat
          BY DEF M
        <4> QED
          BY <4>1, <4>2
      <3>4. h[L + n] = f[L] + g[n]
        BY <3>2, <3>3
      <3> QED
        BY <3>4
    <2>3. 0..M \subseteq S
      <3> HIDE DEF S
      <3> QED
        BY <1>1, <2>1, <2>2, InductionUpTo
    <2> QED
      BY <1>1, <2>3
  <1> QED
    BY <1>3, <1>4, <1>5, <1>7 DEF u

-----------------------------------------------------------------------------
(* One step through the store *)

Oid == {o \in Seq(Nat) : Len(o) >= 2}
End == Exception("EndOfMibView")
VarbindType == [oid : Oid, value : ValueSpace \cup {End}]

\* A store the program can have: finitely many object identifiers, with values.
MibOk(mib) ==
    /\ IsFiniteSet(DOMAIN mib) /\ DOMAIN mib \subseteq Oid
    /\ \A o \in DOMAIN mib : mib[o] \in ValueSpace

LEMMA ValueFacts ==
    /\ \A v \in ValueSpace :
          /\ v.kind \in ValueKinds /\ v.kind \notin {"EndOfMibView", "NoSuchObject"}
          /\ v.len \in Nat /\ v.content \in Nat
          /\ v.content <= ValueContentUpperBound(v.kind, v.len)
    /\ End.kind = "EndOfMibView" /\ End.kind \in ValueKinds /\ End.len = 0 /\ End.content = 0
    /\ ValueContentUpperBound(End.kind, End.len) = 0
  <1>1. \A v \in ValueSpace :
          /\ v.kind \in ValueKinds /\ v.kind \notin {"EndOfMibView", "NoSuchObject"}
          /\ v.len \in Nat /\ v.content \in Nat
          /\ v.content <= ValueContentUpperBound(v.kind, v.len)
    BY RequestsAssumption
  <1>2. End.kind = "EndOfMibView" /\ End.kind \in ValueKinds /\ End.len = 0 /\ End.content = 0
    BY DEF End, Exception, ValueKinds
  <1>3. ValueContentUpperBound(End.kind, End.len) = 0
    BY <1>2 DEF ValueContentUpperBound
  <1> QED
    BY <1>1, <1>2, <1>3

\* resolve_get_next_varbind: the next object, with nothing of the store in
\* between, or the name itself with endOfMibView when there is none.
LEMMA GetNextStep ==
    ASSUME NEW mib, MibOk(mib), NEW o \in Oid
    PROVE  LET vb == ResolveGetNext(mib, o)
           IN  /\ vb \in VarbindType
               /\ IsException(vb) => vb.oid = o /\ \A p \in DOMAIN mib : ~Before(o, p)
               /\ ~IsException(vb) =>
                     /\ vb.oid \in DOMAIN mib /\ Before(o, vb.oid)
                     /\ \A p \in DOMAIN mib : Before(o, p) => p = vb.oid \/ Before(vb.oid, p)
  <1> DEFINE S == Successors(mib, o)
             vb == ResolveGetNext(mib, o)
             first == Least(S)
  <1>1. S \in SUBSET Seq(Nat) /\ IsFiniteSet(S) /\ S \subseteq DOMAIN mib
    <2>1. S \subseteq DOMAIN mib
      BY DEF Successors
    <2> QED
      BY <2>1, FS_Subset DEF MibOk, Oid
  <1>2. CASE S = {}
    <2>1. vb = [oid |-> o, value |-> End]
      BY <1>2 DEF ResolveGetNext, StoreNext, Varbind, End
    <2>2. vb \in VarbindType /\ vb.oid = o /\ vb.value = End
      BY <2>1 DEF VarbindType
    <2>3. IsException(vb)
      BY <2>2, ValueFacts DEF IsException
    <2>4. \A p \in DOMAIN mib : ~Before(o, p)
      BY <1>2 DEF Successors
    <2> QED
      BY <2>2, <2>3, <2>4
  <1>3. CASE S # {}
    <2>1. first \in S /\ \A p \in S \ {first} : Before(first, p)
      BY <1>1, <1>3, LeastIsFirst
    <2>2. vb = [oid |-> first, value |-> mib[first]]
      BY <1>3 DEF ResolveGetNext, StoreNext, Varbind
    <2>3. first \in DOMAIN mib /\ first \in Oid /\ mib[first] \in ValueSpace /\ Before(o, first)
      BY <1>1, <2>1 DEF MibOk, Successors
    <2> HIDE DEF first, vb
    <2>4. vb \in VarbindType /\ vb.oid = first /\ vb.value = mib[first]
      BY <2>2, <2>3 DEF VarbindType
    <2>5. ~IsException(vb)
      BY <2>3, <2>4, ValueFacts DEF IsException
    <2>6. \A p \in DOMAIN mib : Before(o, p) => p = first \/ Before(first, p)
      BY <2>1 DEF Successors
    <2> QED
      BY <2>3, <2>4, <2>5, <2>6 DEF vb
  <1> QED
    BY <1>2, <1>3

-----------------------------------------------------------------------------
(* Estimates *)

LEMMA EstimateOfVarbind ==
    ASSUME NEW vb \in VarbindType
    PROVE  VarbindEstimate(vb) \in Nat
  <1>1. Len(vb.oid) \in Nat /\ vb.value.kind \in ValueKinds /\ vb.value.len \in Nat
    BY ValueFacts DEF VarbindType, Oid
  <1> DEFINE upper == ValueContentUpperBound(vb.value.kind, vb.value.len)
             content == Len(vb.oid) * 5
  <1>2. upper \in Nat /\ content \in Nat
    BY <1>1 DEF ValueContentUpperBound
  <1>3. VarbindEstimate(vb) =
            1 + LengthOfLength(1 + LengthOfLength(content) + content + (1 + LengthOfLength(upper) + upper))
              + (1 + LengthOfLength(content) + content) + (1 + LengthOfLength(upper) + upper)
    BY <1>1 DEF VarbindEstimate, EstimatedVarbind
  <1>4. \A n \in Nat : LengthOfLength(n) \in Nat
    BY DEF LengthOfLength, SignificantBytes
  <1> HIDE DEF upper, content
  <1>5. LengthOfLength(content) \in Nat /\ LengthOfLength(upper) \in Nat
    BY <1>2, <1>4
  <1>6. 1 + LengthOfLength(content) + content + (1 + LengthOfLength(upper) + upper) \in Nat
    BY <1>2, <1>5
  <1>7. LengthOfLength(1 + LengthOfLength(content) + content + (1 + LengthOfLength(upper) + upper)) \in Nat
    BY <1>4, <1>6
  <1> QED
    BY <1>2, <1>3, <1>5, <1>7

Estimates(varbinds) == [i \in DOMAIN varbinds |-> VarbindEstimate(varbinds[i])]

LEMMA EstimatesType ==
    ASSUME NEW a \in Seq(VarbindType)
    PROVE  /\ Estimates(a) \in Seq(Nat) /\ Len(Estimates(a)) = Len(a)
           /\ \A i \in 1..Len(a) : Estimates(a)[i] = VarbindEstimate(a[i])
           /\ Estimate(a) = Total(Estimates(a)) /\ Estimate(a) \in Nat
  <1>1. DOMAIN a = 1..Len(a) /\ Len(a) \in Nat
    OBVIOUS
  <1>2. \A i \in 1..Len(a) : VarbindEstimate(a[i]) \in Nat
    <2>1. \A i \in 1..Len(a) : a[i] \in VarbindType
      BY ElementOfSeq
    <2> QED
      BY <2>1, EstimateOfVarbind
  <1>3. /\ Estimates(a) \in [1..Len(a) -> Nat]
        /\ \A i \in 1..Len(a) : Estimates(a)[i] = VarbindEstimate(a[i])
    BY <1>1, <1>2 DEF Estimates
  <1>4. Estimates(a) \in Seq(Nat) /\ Len(Estimates(a)) = Len(a)
    BY <1>1, <1>3
  <1>5. Estimate(a) = Total(Estimates(a))
    BY DEF Estimate, Estimates
  <1> QED
    BY <1>3, <1>4, <1>5, TotalType

LEMMA EstimateConcat ==
    ASSUME NEW a \in Seq(VarbindType), NEW b \in Seq(VarbindType)
    PROVE  Estimate(a \o b) = Estimate(a) + Estimate(b)
  <1> DEFINE c == a \o b
             ea == Estimates(a)
             eb == Estimates(b)
             ec == Estimates(c)
  <1>1. /\ c \in Seq(VarbindType) /\ Len(c) = Len(a) + Len(b)
        /\ \A i \in 1..(Len(a) + Len(b)) : c[i] = IF i <= Len(a) THEN a[i] ELSE b[i - Len(a)]
    BY ConcatProperties
  <1>2. Len(a) \in Nat /\ Len(b) \in Nat
    OBVIOUS
  <1>3. /\ ea \in Seq(Nat) /\ Len(ea) = Len(a)
        /\ \A i \in 1..Len(a) : ea[i] = VarbindEstimate(a[i])
    BY EstimatesType
  <1>4. /\ eb \in Seq(Nat) /\ Len(eb) = Len(b)
        /\ \A i \in 1..Len(b) : eb[i] = VarbindEstimate(b[i])
    BY EstimatesType
  <1> HIDE DEF c
  <1>5. /\ ec \in Seq(Nat) /\ Len(ec) = Len(a) + Len(b)
        /\ \A i \in 1..(Len(a) + Len(b)) : ec[i] = VarbindEstimate(c[i])
    BY <1>1, EstimatesType
  <1> HIDE DEF ea, eb, ec
  <1>6. /\ ea \o eb \in Seq(Nat) /\ Len(ea \o eb) = Len(a) + Len(b)
        /\ \A i \in 1..(Len(a) + Len(b)) : (ea \o eb)[i] = IF i <= Len(a) THEN ea[i] ELSE eb[i - Len(a)]
    <2>1. ea \in Seq(Nat) /\ eb \in Seq(Nat)
      BY <1>3, <1>4
    <2>2. /\ ea \o eb \in Seq(Nat) /\ Len(ea \o eb) = Len(ea) + Len(eb)
          /\ \A i \in 1..(Len(ea) + Len(eb)) :
                (ea \o eb)[i] = IF i <= Len(ea) THEN ea[i] ELSE eb[i - Len(ea)]
      BY <2>1, ConcatProperties
    <2> QED
      BY <1>3, <1>4, <2>2
  <1>7. ASSUME NEW i \in 1..(Len(a) + Len(b)) PROVE ec[i] = (ea \o eb)[i]
    <2>1. CASE i <= Len(a)
      <3>1. i \in 1..Len(a)
        BY <1>2, <2>1
      <3> QED
        BY <1>1, <1>3, <1>5, <1>6, <2>1, <3>1
    <2>2. CASE ~(i <= Len(a))
      <3>1. i - Len(a) \in 1..Len(b)
        BY <1>2, <2>2
      <3> QED
        BY <1>1, <1>4, <1>5, <1>6, <2>2, <3>1
    <2> QED
      BY <2>1, <2>2
  <1>8. ec = ea \o eb
    BY <1>5, <1>6, <1>7, SeqEqual
  <1>9. Total(ec) = Total(ea) + Total(eb)
    BY <1>3, <1>4, <1>8, TotalConcat
  <1> QED
    BY <1>1, <1>9, EstimatesType DEF ea, eb, ec, c

-----------------------------------------------------------------------------
(* Rows *)

\* The cell of row r and column i of w columns, and the name the column has
\* reached after row r, when it started from pos.
CellOf(response, w, r, i) == response[(r - 1) * w + i]
Reached(pos, w, response, r, i) == IF r = 0 THEN pos[i] ELSE CellOf(response, w, r, i).oid

\* A response of whole rows, each the step after the row before it.
Chained(mib, pos, w, response, rows) ==
    /\ Len(response) = rows * w
    /\ \A r \in 1..rows, i \in 1..w :
          CellOf(response, w, r, i) = ResolveGetNext(mib, Reached(pos, w, response, r - 1, i))

LEMMA CellIndex ==
    ASSUME NEW rows \in Nat, NEW w \in Nat, NEW r \in 1..rows, NEW i \in 1..w
    PROVE  (r - 1) * w + i \in 1..(rows * w)
  <1> DEFINE d == rows - r
  <1>1. d \in Nat /\ r - 1 \in Nat /\ rows = (r - 1) + 1 + d
    OBVIOUS
  <1>2. rows * w = (r - 1) * w + w + d * w
    BY <1>1
  <1>3. \A a, b \in Nat : a * b \in Nat
    OBVIOUS
  <1>4. (r - 1) * w \in Nat /\ d * w \in Nat
    BY <1>1, <1>3
  <1> HIDE DEF d
  <1> QED
    BY <1>2, <1>4

\* A further row behind whole rows.
RowAppended(c, a, b, w, rows) ==
    /\ Len(c) = (rows + 1) * w
    /\ \A r \in 1..rows, i \in 1..w : CellOf(c, w, r, i) = CellOf(a, w, r, i)
    /\ \A i \in 1..w : CellOf(c, w, rows + 1, i) = b[i]

LEMMA CellsOfConcat ==
    ASSUME NEW a \in Seq(VarbindType), NEW b \in Seq(VarbindType), NEW rows \in Nat, NEW w \in Nat,
           Len(a) = rows * w, Len(b) = w
    PROVE  RowAppended(a \o b, a, b, w, rows)
  <1>1. /\ Len(a \o b) = Len(a) + Len(b)
        /\ \A k \in 1..(Len(a) + Len(b)) : (a \o b)[k] = IF k <= Len(a) THEN a[k] ELSE b[k - Len(a)]
    BY ConcatProperties
  <1>2. rows * w \in Nat /\ (rows + 1) * w = rows * w + w
    OBVIOUS
  <1>3. Len(a \o b) = (rows + 1) * w
    BY <1>1, <1>2
  <1>4. ASSUME NEW r \in 1..rows, NEW i \in 1..w PROVE CellOf(a \o b, w, r, i) = CellOf(a, w, r, i)
    <2> DEFINE k == (r - 1) * w + i
    <2>1. k \in 1..(rows * w)
      BY CellIndex
    <2> HIDE DEF k
    <2>2. k \in 1..(Len(a) + Len(b)) /\ k <= Len(a)
      BY <1>2, <2>1
    <2>3. (a \o b)[k] = a[k]
      BY <1>1, <2>2
    <2> QED
      BY <2>3 DEF CellOf, k
  <1>5. ASSUME NEW i \in 1..w PROVE CellOf(a \o b, w, rows + 1, i) = b[i]
    <2> DEFINE k == (rows + 1 - 1) * w + i
               l == Len(a)
    <2>1. k = rows * w + i
      OBVIOUS
    <2>2. l = rows * w /\ l \in Nat
      BY <1>2
    <2>3. k = l + i
      BY <2>1, <2>2
    <2> HIDE DEF k, l
    <2>4. k \in 1..(l + w) /\ ~(k <= l) /\ k - l = i
      BY <2>2, <2>3
    <2>5. (a \o b)[k] = b[k - l]
      BY <1>1, <2>4 DEF l
    <2> QED
      BY <2>4, <2>5 DEF CellOf, k
  <1> QED
    BY <1>3, <1>4, <1>5 DEF RowAppended

\* The loop's state: varbinds, their estimate, and the name each column is at.
Bulks(w) == [varbinds : Seq(VarbindType), size : Nat, current : [1..w -> Oid], stop : BOOLEAN]

LEMMA RowStep ==
    ASSUME NEW mib, MibOk(mib), NEW w \in Nat, NEW current \in [1..w -> Oid]
    PROVE  LET row == RepeatingRow(mib, current)
           IN  /\ row \in [1..w -> VarbindType] /\ row \in Seq(VarbindType) /\ Len(row) = w
               /\ \A i \in 1..w : row[i] = ResolveGetNext(mib, current[i])
               /\ Advance(current, row) \in [1..w -> Oid]
               /\ \A i \in 1..w : Advance(current, row)[i] = row[i].oid
  <1> DEFINE row == RepeatingRow(mib, current)
  <1>1. ASSUME NEW i \in 1..w
        PROVE  /\ ResolveGetNext(mib, current[i]) \in VarbindType
               /\ IsException(ResolveGetNext(mib, current[i])) =>
                     ResolveGetNext(mib, current[i]).oid = current[i]
    <2>1. current[i] \in Oid
      OBVIOUS
    <2> QED
      BY <2>1, GetNextStep
  <1>2. DOMAIN current = 1..w
    OBVIOUS
  <1>3. row = [i \in 1..w |-> ResolveGetNext(mib, current[i])]
    BY <1>2 DEF RepeatingRow
  <1>4. row \in [1..w -> VarbindType] /\ \A i \in 1..w : row[i] = ResolveGetNext(mib, current[i])
    BY <1>1, <1>3
  <1>5. row \in Seq(VarbindType) /\ Len(row) = w
    BY <1>4
  <1> HIDE DEF row
  <1>6. \A i \in 1..w : row[i].oid \in Oid
    BY <1>4 DEF VarbindType
  <1>7. \A i \in 1..w : Advance(current, row)[i] = row[i].oid
    BY <1>1, <1>2, <1>4 DEF Advance
  <1>8. Advance(current, row) \in [1..w -> Oid]
    BY <1>2, <1>6 DEF Advance
  <1> QED
    BY <1>4, <1>5, <1>7, <1>8 DEF row

\* The row after `rows' rows.
NextRow(mib, pos, w, rep, rows) == [i \in 1..w |-> ResolveGetNext(mib, Reached(pos, w, rep, rows, i))]

\* After k iterations the response is what there was before the loop and
\* `rows' whole rows.  The loop has stopped for one of three reasons: there are
\* no columns, the last row was all endOfMibView, or the next is over budget.
LoopAt(mib, budget, pre, pos, w, k, bulk, rows, rep) ==
    /\ bulk.varbinds = pre \o rep /\ Chained(mib, pos, w, rep, rows)
    /\ rows > 0 => bulk.size <= budget
    /\ ~bulk.stop => /\ rows = k
                     /\ \A i \in 1..w : bulk.current[i] = Reached(pos, w, rep, rows, i)
    /\ bulk.stop => \/ w = 0
                    \/ rows > 0 /\ \A i \in 1..w : IsException(CellOf(rep, w, rows, i))
                    \/ Estimate(bulk.varbinds \o NextRow(mib, pos, w, rep, rows)) > budget

LoopInv(mib, budget, pre, pos, w, k, bulk) ==
    /\ bulk \in Bulks(w) /\ bulk.size = Estimate(bulk.varbinds)
    /\ \E rows \in 0..k, rep \in Seq(VarbindType) :
          LoopAt(mib, budget, pre, pos, w, k, bulk, rows, rep)

LEMMA RepetitionType ==
    ASSUME NEW mib, MibOk(mib), NEW w \in Nat, NEW budget \in Nat, NEW bulk \in Bulks(w)
    PROVE  Repetition(mib, budget, bulk) \in Bulks(w)
  <1> DEFINE row == RepeatingRow(mib, bulk.current)
             fits == bulk.size + Estimate(row) <= budget
             after == [varbinds |-> IF fits THEN bulk.varbinds \o row ELSE bulk.varbinds,
                       size     |-> IF fits THEN bulk.size + Estimate(row) ELSE bulk.size,
                       current  |-> Advance(bulk.current, row),
                       stop     |-> ~fits \/ AllEndOfMib(row)]
  <1>1. /\ bulk.varbinds \in Seq(VarbindType) /\ bulk.size \in Nat
        /\ bulk.current \in [1..w -> Oid]
    BY DEF Bulks
  <1>2. row \in Seq(VarbindType) /\ Advance(bulk.current, row) \in [1..w -> Oid]
    BY <1>1, RowStep
  <1>3. Repetition(mib, budget, bulk) = IF bulk.stop THEN bulk ELSE after
    BY DEF Repetition
  <1> HIDE DEF row
  <1>4. Estimate(row) \in Nat /\ bulk.varbinds \o row \in Seq(VarbindType)
    BY <1>1, <1>2, EstimatesType, ConcatProperties
  <1>5. bulk.size + Estimate(row) \in Nat
    BY <1>1, <1>4
  <1>6. after \in Bulks(w)
    BY <1>1, <1>2, <1>4, <1>5 DEF Bulks, AllEndOfMib
  <1> QED
    BY <1>3, <1>6

\* An iteration adds a whole row or nothing.
LEMMA RepetitionKeeps ==
    ASSUME NEW mib, MibOk(mib), NEW w \in Nat, NEW budget \in Nat, NEW pre \in Seq(VarbindType),
           NEW pos \in [1..w -> Oid], NEW k \in Nat, NEW bulk,
           LoopInv(mib, budget, pre, pos, w, k, bulk)
    PROVE  LoopInv(mib, budget, pre, pos, w, k + 1, Repetition(mib, budget, bulk))
  <1> DEFINE row == RepeatingRow(mib, bulk.current)
             next == Repetition(mib, budget, bulk)
             vs == bulk.varbinds
             fits == bulk.size + Estimate(row) <= budget
  <1>1. /\ bulk \in Bulks(w) /\ vs \in Seq(VarbindType) /\ bulk.size \in Nat
        /\ bulk.current \in [1..w -> Oid] /\ bulk.stop \in BOOLEAN
        /\ bulk.size = Estimate(vs)
    BY DEF LoopInv, Bulks
  <1>2. PICK rows \in 0..k, rep \in Seq(VarbindType) :
            LoopAt(mib, budget, pre, pos, w, k, bulk, rows, rep)
    BY DEF LoopInv
  <1>3. /\ row \in Seq(VarbindType) /\ Len(row) = w /\ DOMAIN row = 1..w
        /\ row = [i \in 1..w |-> ResolveGetNext(mib, bulk.current[i])]
        /\ \A i \in 1..w : row[i] = ResolveGetNext(mib, bulk.current[i])
        /\ \A i \in 1..w : Advance(bulk.current, row)[i] = row[i].oid
    <2>1. DOMAIN bulk.current = 1..w
      BY <1>1
    <2>2. row = [i \in 1..w |-> ResolveGetNext(mib, bulk.current[i])]
      BY <2>1 DEF RepeatingRow
    <2>3. DOMAIN row = 1..w
      BY <2>2
    <2>4. /\ row \in Seq(VarbindType) /\ Len(row) = w
          /\ \A i \in 1..w : row[i] = ResolveGetNext(mib, bulk.current[i])
          /\ \A i \in 1..w : Advance(bulk.current, row)[i] = row[i].oid
      BY <1>1, RowStep
    <2> QED
      BY <2>2, <2>3, <2>4
  <1>4. next \in Bulks(w)
    BY <1>1, RepetitionType
  <1>5. k + 1 \in Nat /\ rows \in Nat /\ rows \in 0..(k + 1)
    OBVIOUS
  <1>6. CASE bulk.stop
    <2>1. next = bulk
      BY <1>6 DEF Repetition
    <2>2. LoopAt(mib, budget, pre, pos, w, k + 1, bulk, rows, rep)
      BY <1>2, <1>6 DEF LoopAt
    <2> QED
      BY <1>1, <1>5, <2>1, <2>2 DEF LoopInv
  <1>7. CASE ~bulk.stop
    <2>1. /\ next.varbinds = IF fits THEN vs \o row ELSE vs
          /\ next.size = IF fits THEN bulk.size + Estimate(row) ELSE bulk.size
          /\ next.current = Advance(bulk.current, row)
          /\ next.stop = (~fits \/ AllEndOfMib(row))
      BY <1>7 DEF Repetition
    <2>2. /\ vs = pre \o rep /\ Chained(mib, pos, w, rep, rows) /\ rows = k
          /\ rows > 0 => bulk.size <= budget
          /\ \A i \in 1..w : bulk.current[i] = Reached(pos, w, rep, rows, i)
      BY <1>2, <1>7 DEF LoopAt
    <2>3. row = NextRow(mib, pos, w, rep, rows)
      BY <1>3, <2>2 DEF NextRow
    <2> HIDE DEF next, row, vs
    <2>4. Estimate(row) \in Nat /\ Estimate(vs \o row) = Estimate(vs) + Estimate(row)
      BY <1>1, <1>3, EstimateConcat, EstimatesType
    <2>5. CASE ~fits
      <3>1. next.varbinds = vs /\ next.size = bulk.size /\ next.stop
        BY <2>1, <2>5
      <3>2. Estimate(next.varbinds \o NextRow(mib, pos, w, rep, rows)) > budget
        BY <1>1, <2>3, <2>4, <2>5, <3>1
      <3>3. LoopAt(mib, budget, pre, pos, w, k + 1, next, rows, rep)
        BY <2>2, <3>1, <3>2 DEF LoopAt
      <3> QED
        BY <1>1, <1>4, <1>5, <3>1, <3>3 DEF LoopInv, next
    <2>6. CASE fits
      <3> DEFINE all == rep \o row
      <3>1. next.varbinds = vs \o row /\ next.size = bulk.size + Estimate(row)
            /\ next.stop = AllEndOfMib(row)
        BY <2>1, <2>6 DEF AllEndOfMib
      <3>2. next.size = Estimate(next.varbinds) /\ next.size <= budget
        BY <1>1, <2>4, <2>6, <3>1
      <3>3. all \in Seq(VarbindType) /\ next.varbinds = pre \o all
        <4>1. (pre \o rep) \o row = pre \o all
          BY <1>3, ConcatAssociative
        <4>2. all \in Seq(VarbindType)
          BY <1>3, ConcatProperties
        <4> HIDE DEF all
        <4> QED
          BY <2>2, <3>1, <4>1, <4>2
      <3>4. /\ Len(all) = (rows + 1) * w
            /\ \A r \in 1..rows, i \in 1..w : CellOf(all, w, r, i) = CellOf(rep, w, r, i)
            /\ \A i \in 1..w : CellOf(all, w, rows + 1, i) = row[i]
        <4>1. Len(rep) = rows * w
          BY <2>2 DEF Chained
        <4>2. RowAppended(all, rep, row, w, rows)
          BY <1>3, <1>5, <4>1, CellsOfConcat
        <4> QED
          BY <4>2 DEF RowAppended
      <3> HIDE DEF all
      <3>5. ASSUME NEW r \in 0..rows, NEW i \in 1..w
            PROVE  Reached(pos, w, all, r, i) = Reached(pos, w, rep, r, i)
        <4>1. r = 0 \/ r \in 1..rows
          OBVIOUS
        <4> QED
          BY <3>4, <4>1 DEF Reached
      <3>6. ASSUME NEW r \in 1..(rows + 1), NEW i \in 1..w
            PROVE  CellOf(all, w, r, i) = ResolveGetNext(mib, Reached(pos, w, all, r - 1, i))
        <4>1. r - 1 \in 0..rows
          OBVIOUS
        <4>2. Reached(pos, w, all, r - 1, i) = Reached(pos, w, rep, r - 1, i)
          BY <3>5, <4>1
        <4>3. CASE r = rows + 1
          <5>1. CellOf(all, w, r, i) = ResolveGetNext(mib, bulk.current[i])
            BY <1>3, <3>4, <4>3
          <5>2. bulk.current[i] = Reached(pos, w, rep, rows, i) /\ r - 1 = rows
            BY <2>2, <4>3
          <5> QED
            BY <4>2, <5>1, <5>2
        <4>4. CASE r # rows + 1
          <5>1. r \in 1..rows
            BY <4>4
          <5> QED
            BY <2>2, <3>4, <4>2, <5>1 DEF Chained
        <4> QED
          BY <4>3, <4>4
      <3>7. Chained(mib, pos, w, all, rows + 1)
        BY <3>4, <3>6 DEF Chained
      <3>8. ASSUME NEW i \in 1..w PROVE next.current[i] = Reached(pos, w, all, rows + 1, i)
        <4>1. rows + 1 # 0
          OBVIOUS
        <4> QED
          BY <1>3, <2>1, <3>4, <4>1 DEF Reached
      <3>9. next.stop => \A i \in 1..w : IsException(CellOf(all, w, rows + 1, i))
        BY <1>3, <3>1, <3>4 DEF AllEndOfMib
      <3>10. rows + 1 \in 0..(k + 1) /\ rows + 1 > 0 /\ rows + 1 = k + 1
        BY <2>2
      <3>11. LoopAt(mib, budget, pre, pos, w, k + 1, next, rows + 1, all)
        BY <3>2, <3>3, <3>7, <3>8, <3>9, <3>10 DEF LoopAt
      <3> QED
        BY <1>4, <3>2, <3>3, <3>10, <3>11 DEF LoopInv, next
    <2> QED
      BY <2>5, <2>6
  <1> QED
    BY <1>1, <1>6, <1>7

\* The `for' loop of handle_get_bulk: any number of iterations.
LEMMA LoopRuns ==
    ASSUME NEW mib, MibOk(mib), NEW w \in Nat, NEW budget \in Nat, NEW pre \in Seq(VarbindType),
           NEW pos \in [1..w -> Oid], NEW init, LoopInv(mib, budget, pre, pos, w, 0, init),
           NEW N \in Nat, NEW bulk,
           bulk = CHOOSE f : f = [k \in 0..N |-> IF k = 0 THEN init ELSE Repetition(mib, budget, f[k - 1])]
    PROVE  LoopInv(mib, budget, pre, pos, w, N, bulk[N])
  <1> DEFINE V == Bulks(w)
             Def(f) == f = [k \in 0..N |-> IF k = 0 THEN init ELSE Repetition(mib, budget, f[k - 1])]
             step == [k \in 1..N |-> [b \in V |-> Repetition(mib, budget, b)]]
  <1>1. init \in V
    BY DEF LoopInv
  <1>2. step \in [1..N -> [V -> V]]
    BY RepetitionType
  <1>3. PICK f \in [0..N -> V] : Iterates(f, N, init, step)
    <2> HIDE DEF V, step
    <2> QED
      BY <1>1, <1>2, RecursionUpTo
  <1>4. \A k \in 0..N : k # 0 => k \in 1..N /\ k - 1 \in 0..N
    OBVIOUS
  <1> HIDE DEF V
  <1>5. Def(f)
    <2>1. \A k \in 1..N : k - 1 \in 0..N
      OBVIOUS
    <2>2. \A k \in 1..N : f[k] = Repetition(mib, budget, f[k - 1])
      BY <1>3, <2>1 DEF Iterates
    <2>3. f[0] = init
      BY <1>3 DEF Iterates
    <2> QED
      BY <1>4, <2>2, <2>3
  <1>6. Def(bulk)
    <2>1. \E g : Def(g)
      BY <1>5
    <2> QED
      BY <2>1
  <1>7. bulk[0] = init /\ \A k \in 1..N : bulk[k] = Repetition(mib, budget, bulk[k - 1])
    <2>1. 0 \in 0..N /\ \A k \in 1..N : k \in 0..N /\ k # 0
      OBVIOUS
    <2> QED
      BY <1>6, <2>1
  <1> DEFINE S == {k \in 0..N : LoopInv(mib, budget, pre, pos, w, k, bulk[k])}
  <1>8. 0 \in S
    BY <1>7
  <1>9. ASSUME NEW k \in 1..N, k - 1 \in S PROVE k \in S
    <2>1. LoopInv(mib, budget, pre, pos, w, k - 1, bulk[k - 1]) /\ k \in 0..N
      BY <1>9
    <2>2. k - 1 \in Nat /\ (k - 1) + 1 = k
      OBVIOUS
    <2>3. LoopInv(mib, budget, pre, pos, w, (k - 1) + 1, Repetition(mib, budget, bulk[k - 1]))
      BY <2>1, <2>2, RepetitionKeeps
    <2>4. LoopInv(mib, budget, pre, pos, w, k, bulk[k])
      BY <1>7, <2>2, <2>3
    <2> QED
      BY <2>1, <2>4
  <1>10. 0..N \subseteq S
    <2> HIDE DEF S
    <2> QED
      BY <1>8, <1>9, InductionUpTo
  <1>11. N \in 0..N
    OBVIOUS
  <1> QED
    BY <1>10, <1>11

Budget(maxSize) == IF maxSize < V3_ENVELOPE_OVERHEAD THEN 0 ELSE maxSize - V3_ENVELOPE_OVERHEAD
Repetitions(field) == Lesser(Clamp(field), MAX_BULK_REPETITIONS)

\* The first f columns are answered with one step each, and the other w with
\* the loop's rows.
ShapedBy(mib, pos, f, pre, rest, w, budget, N, response) ==
    /\ f \in 0..Len(pos) /\ budget \in Nat /\ N \in Nat
    /\ rest \in [1..w -> Oid] /\ \A i \in 1..w : rest[i] = pos[f + i]
    /\ pre \in Seq(VarbindType) /\ Len(pre) = f
    /\ \A i \in 1..f : pre[i] = ResolveGetNext(mib, pos[i])
    /\ \E bulk : LoopInv(mib, budget, pre, rest, w, N, bulk) /\ response = bulk.varbinds

\* handle_get_bulk
LEMMA BulkShape ==
    ASSUME NEW mib, MibOk(mib), NEW pos \in Seq(Oid), NEW nr \in Int, NEW field \in Int,
           NEW maxSize \in Nat
    PROVE  LET f == NonRepeaters(pos, nr)
               pre == HandleGetNext(mib, SubSeq(pos, 1, f))
               rest == SubSeq(pos, f + 1, Len(pos))
           IN  ShapedBy(mib, pos, f, pre, rest, Len(pos) - f, Budget(maxSize), Repetitions(field),
                        HandleGetBulk(mib, pos, nr, field, maxSize))
  <1> DEFINE L == Len(pos)
             f == NonRepeaters(pos, nr)
             w == L - f
             N == Repetitions(field)
             budget == Budget(maxSize)
             first == SubSeq(pos, 1, f)
             pre == HandleGetNext(mib, first)
             rest == SubSeq(pos, f + 1, L)
             init == [varbinds |-> pre, size |-> Estimate(pre), current |-> rest,
                      stop |-> rest = <<>>]
             bulk == CHOOSE g : g = [k \in 0..N |-> IF k = 0 THEN init ELSE Repetition(mib, budget, g[k - 1])]
  <1>1. L \in Nat /\ \A i \in 1..L : pos[i] \in Oid
    BY LenProperties
  <1>2. budget \in Nat /\ N \in Nat
    BY RequestsAssumption DEF Budget, Repetitions, V3_ENVELOPE_OVERHEAD, Lesser, Clamp
  <1>3. f \in 0..L
    BY <1>1 DEF NonRepeaters, Lesser, Clamp
  <1>4. HandleGetBulk(mib, pos, nr, field, maxSize) = bulk[N].varbinds
    BY DEF HandleGetBulk, NonRepeaters, Budget, Repetitions
  <1> HIDE DEF L, f, N, budget
  <1>5. w \in Nat /\ f \in Nat
    BY <1>1, <1>3
  <1>6. first \in Seq(Oid) /\ Len(first) = f /\ \A i \in 1..f : first[i] = pos[i]
    <2>1. \A i \in 1..f : pos[i] \in Oid
      BY <1>1, <1>3
    <2>2. /\ first \in Seq(Oid) /\ Len(first) = IF 1 <= f THEN f - 1 + 1 ELSE 0
          /\ \A i \in 1..(f - 1 + 1) : first[i] = pos[1 + i - 1]
      BY <1>5, <2>1, SubSeqProperties
    <2>3. f - 1 + 1 = f /\ \A i \in 1..f : 1 + i - 1 = i
      BY <1>5
    <2> HIDE DEF first
    <2> QED
      BY <1>5, <2>2, <2>3
  <1>7. rest \in Seq(Oid) /\ Len(rest) = w /\ \A i \in 1..w : rest[i] = pos[f + i]
    <2>1. \A i \in (f + 1)..L : pos[i] \in Oid
      BY <1>1, <1>5
    <2>2. /\ rest \in Seq(Oid) /\ Len(rest) = IF f + 1 <= L THEN L - (f + 1) + 1 ELSE 0
          /\ \A i \in 1..(L - (f + 1) + 1) : rest[i] = pos[f + 1 + i - 1]
      <3>1. f + 1 \in Int /\ L \in Int
        BY <1>1, <1>5
      <3> QED
        BY <2>1, <3>1, SubSeqProperties
    <2>3. L - (f + 1) + 1 = w /\ \A i \in 1..w : f + 1 + i - 1 = f + i
      BY <1>1, <1>5
    <2> HIDE DEF rest
    <2> QED
      BY <1>1, <1>3, <1>5, <2>2, <2>3
  <1> HIDE DEF w, first, rest
  <1>8. rest \in [1..w -> Oid] /\ (rest = <<>> => w = 0)
    <2>1. rest \in [1..Len(rest) -> Oid]
      BY <1>7, LenProperties
    <2>2. Len(<<>>) = 0
      OBVIOUS
    <2> QED
      BY <1>7, <2>1, <2>2
  <1>9. pre \in Seq(VarbindType) /\ Len(pre) = f /\ \A i \in 1..f : pre[i] = ResolveGetNext(mib, pos[i])
    <2>1. first \in [1..f -> Oid]
      BY <1>6, LenProperties
    <2>2. pre = RepeatingRow(mib, first)
      BY DEF HandleGetNext, RepeatingRow
    <2>3. /\ pre \in Seq(VarbindType) /\ Len(pre) = f
          /\ \A i \in 1..f : pre[i] = ResolveGetNext(mib, first[i])
      BY <1>5, <2>1, <2>2, RowStep
    <2> QED
      BY <1>6, <2>3
  <1> HIDE DEF pre
  <1>10. LoopInv(mib, budget, pre, rest, w, 0, init)
    <2>1. Estimate(pre) \in Nat
      BY <1>9, EstimatesType
    <2>2. /\ init \in Bulks(w) /\ init.varbinds = pre /\ init.size = Estimate(pre)
          /\ init.current = rest /\ init.stop = (rest = <<>>)
      BY <1>8, <1>9, <2>1 DEF Bulks
    <2>3. Chained(mib, rest, w, <<>>, 0)
      <3>1. 0 * w = 0 /\ 1..0 = {} /\ Len(<<>>) = 0
        BY <1>5
      <3> QED
        BY <3>1 DEF Chained
    <2>4. \A i \in 1..w : rest[i] = Reached(rest, w, <<>>, 0, i)
      BY DEF Reached
    <2>5. <<>> \in Seq(VarbindType) /\ pre = pre \o <<>>
      BY <1>9, EmptySeq, ConcatEmptySeq
    <2> HIDE DEF init
    <2>6. LoopAt(mib, budget, pre, rest, w, 0, init, 0, <<>>)
      <3>1. ~(0 > 0)
        OBVIOUS
      <3>2. init.stop => w = 0
        <4>1. init.stop => rest = <<>>
          BY <2>2, Zenon
        <4> QED
          BY <1>8, <4>1
      <3>3. init.varbinds = pre \o <<>>
        BY <2>2, <2>5
      <3>4. \A i \in 1..w : init.current[i] = Reached(rest, w, <<>>, 0, i)
        BY <2>2, <2>4
      <3> QED
        BY <2>3, <3>1, <3>2, <3>3, <3>4 DEF LoopAt
    <2>7. 0 \in 0..0
      OBVIOUS
    <2> QED
      BY <2>2, <2>5, <2>6, <2>7 DEF LoopInv
  <1>11. LoopInv(mib, budget, pre, rest, w, N, bulk[N])
    <2> HIDE DEF init
    <2> QED
      BY <1>2, <1>5, <1>8, <1>9, <1>10, LoopRuns
  <1> HIDE DEF bulk
  <1>12. ShapedBy(mib, pos, f, pre, rest, w, budget, N, HandleGetBulk(mib, pos, nr, field, maxSize))
    BY <1>2, <1>3, <1>4, <1>7, <1>8, <1>9, <1>11 DEF ShapedBy, L
  <1> QED
    BY <1>12 DEF L, f, w, N, budget, first, rest, pre

\* A GETBULK without non-repeaters answers whole rows within the budget.
LEMMA BulkChained ==
    ASSUME NEW mib, MibOk(mib), NEW pos \in Seq(Oid), NEW field \in Int, NEW maxSize \in Nat
    PROVE  LET response == HandleGetBulk(mib, pos, 0, field, maxSize)
           IN  /\ response \in Seq(VarbindType) /\ Estimate(response) <= Budget(maxSize)
               /\ \E rows \in Nat : Chained(mib, pos, Len(pos), response, rows)
  <1> DEFINE w == Len(pos)
             response == HandleGetBulk(mib, pos, 0, field, maxSize)
             pre == HandleGetNext(mib, SubSeq(pos, 1, 0))
             rest == SubSeq(pos, 1, w)
  <1>1. w \in Nat /\ NonRepeaters(pos, 0) = 0 /\ 0 \in Int /\ w - 0 = w /\ 0 + 1 = 1
    BY LenProperties DEF NonRepeaters, Lesser, Clamp
  <1>2. /\ Budget(maxSize) \in Nat /\ Repetitions(field) \in Nat
        /\ pre \in Seq(VarbindType) /\ Len(pre) = 0
        /\ \E bulk : /\ LoopInv(mib, Budget(maxSize), pre, rest, w, Repetitions(field), bulk)
                     /\ response = bulk.varbinds
    <2>1. ShapedBy(mib, pos, 0, pre, rest, w, Budget(maxSize), Repetitions(field), response)
      BY <1>1, BulkShape
    <2> HIDE DEF pre, rest, w, response
    <2> QED
      BY <2>1 DEF ShapedBy
  <1>3. rest = pos
    BY SubSeqFull
  <1>4. pre = <<>>
    BY <1>2, EmptySeq
  <1> HIDE DEF w, pre, rest, response
  <1>5. PICK bulk : /\ LoopInv(mib, Budget(maxSize), <<>>, pos, w, Repetitions(field), bulk)
                    /\ response = bulk.varbinds
    BY <1>2, <1>3, <1>4
  <1>6. PICK rows \in 0..Repetitions(field), rep \in Seq(VarbindType) :
            LoopAt(mib, Budget(maxSize), <<>>, pos, w, Repetitions(field), bulk, rows, rep)
    BY <1>5 DEF LoopInv
  <1>7. response = rep
    <2>1. bulk.varbinds = <<>> \o rep
      BY <1>6 DEF LoopAt
    <2>2. <<>> \o rep = rep
      BY ConcatEmptySeq
    <2> QED
      BY <1>5, <2>1, <2>2
  <1>8. Chained(mib, pos, w, response, rows) /\ rows \in Nat
    BY <1>2, <1>6, <1>7 DEF LoopAt
  <1>9. Estimate(response) <= Budget(maxSize)
    <2>1. bulk.size = Estimate(response)
      BY <1>5 DEF LoopInv
    <2>2. CASE rows > 0
      BY <1>6, <2>1, <2>2 DEF LoopAt
    <2>3. CASE ~(rows > 0)
      <3>1. rows = 0 /\ 0 * w = 0
        BY <1>1, <1>8, <2>3
      <3>2. Len(response) = 0
        BY <1>8, <3>1 DEF Chained
      <3>3. /\ Estimates(response) \in Seq(Nat) /\ Len(Estimates(response)) = 0
            /\ Estimate(response) = Total(Estimates(response))
        BY <1>7, <3>2, EstimatesType
      <3>4. Estimate(response) = 0
        BY <3>3, TotalIs
      <3> QED
        BY <1>2, <3>4
    <2> QED
      BY <2>2, <2>3
  <1> QED
    BY <1>7, <1>8, <1>9 DEF response, w

-----------------------------------------------------------------------------
(* Columns *)

\* One column of a walk: the names it returned ascend from where it started,
\* the column is at the last of them, and of the objects there were when the
\* walk began none that the column has passed is missing.
Column(mib, old, from, s, at, done) ==
    /\ from \in Oid /\ at \in Oid /\ s \in Seq(Oid)
    /\ at = from \/ Before(from, at)
    /\ \A k \in 1..Len(s) : s[k] = at \/ Before(s[k], at)
    /\ \A j, k \in 1..Len(s) : j < k => Before(s[j], s[k])
    /\ \A k \in 1..Len(s) : Before(from, s[k]) /\ s[k] \in DOMAIN mib
    /\ \A o \in old : Before(from, o) /\ (done \/ ~Before(at, o)) => \E k \in 1..Len(s) : s[k] = o

\* A further name.
LEMMA ColumnGrows ==
    ASSUME NEW mib, MibOk(mib), NEW old, old \subseteq DOMAIN mib, NEW from, NEW s, NEW at,
           Column(mib, old, from, s, at, FALSE), NEW vb, vb = ResolveGetNext(mib, at),
           ~IsException(vb), NEW u \in Seq(Oid), Len(u) = Len(s) + 1,
           \A k \in 1..Len(s) : u[k] = s[k], u[Len(s) + 1] = vb.oid
    PROVE  Column(mib, old, from, u, vb.oid, FALSE)
  <1> DEFINE x == vb.oid
             L == Len(s)
  <1>1. /\ from \in Oid /\ at \in Oid /\ s \in Seq(Oid) /\ L \in Nat
        /\ at = from \/ Before(from, at)
        /\ \A k \in 1..L : s[k] \in Oid /\ (s[k] = at \/ Before(s[k], at))
        /\ \A j, k \in 1..L : j < k => Before(s[j], s[k])
        /\ \A k \in 1..L : Before(from, s[k]) /\ s[k] \in DOMAIN mib
        /\ \A o \in old : Before(from, o) /\ ~Before(at, o) => \E k \in 1..L : s[k] = o
    BY DEF Column
  <1>2. /\ x \in Oid /\ x \in DOMAIN mib /\ Before(at, x)
        /\ \A p \in DOMAIN mib : Before(at, p) => p = x \/ Before(x, p)
    BY <1>1, GetNextStep DEF VarbindType
  <1> HIDE DEF x, L
  <1>3. \A o \in Oid : o \in Seq(Nat)
    BY DEF Oid
  <1>4. Before(from, x)
    BY <1>1, <1>2, <1>3, BeforeTransitive
  <1>5. ASSUME NEW k \in 1..L PROVE Before(s[k], x)
    BY <1>1, <1>2, <1>3, BeforeTransitive
  <1>6. Len(u) = L + 1 /\ (\A k \in 1..L : u[k] = s[k]) /\ u[L + 1] = x
    BY DEF x, L
  <1>7. \A k \in 1..(L + 1) : k \in 1..L \/ k = L + 1
    BY <1>1
  <1>8. \A k \in 1..(L + 1) : u[k] = x \/ Before(u[k], x)
    BY <1>5, <1>6, <1>7
  <1>9. ASSUME NEW j \in 1..(L + 1), NEW k \in 1..(L + 1), j < k PROVE Before(u[j], u[k])
    <2>1. j \in 1..L
      BY <1>1, <1>9
    <2> QED
      BY <1>1, <1>5, <1>6, <1>7, <1>9, <2>1
  <1>10. \A k \in 1..(L + 1) : Before(from, u[k]) /\ u[k] \in DOMAIN mib
    BY <1>1, <1>2, <1>4, <1>6, <1>7
  <1>11. ASSUME NEW o \in old, Before(from, o), ~Before(x, o) PROVE \E k \in 1..(L + 1) : u[k] = o
    <2>1. L + 1 \in 1..(L + 1) /\ \A k \in 1..L : k \in 1..(L + 1)
      BY <1>1
    <2>2. CASE Before(at, o)
      <3>1. o = x
        BY <1>2, <1>11, <2>2
      <3> QED
        BY <1>6, <2>1, <3>1
    <2>3. CASE ~Before(at, o)
      <3>1. PICK k \in 1..L : s[k] = o
        BY <1>1, <1>11, <2>3
      <3> QED
        BY <1>6, <2>1, <3>1
    <2> QED
      BY <2>2, <2>3
  <1>12. /\ \A k \in 1..Len(u) : u[k] = x \/ Before(u[k], x)
         /\ \A j, k \in 1..Len(u) : j < k => Before(u[j], u[k])
         /\ \A k \in 1..Len(u) : Before(from, u[k]) /\ u[k] \in DOMAIN mib
         /\ \A o \in old : Before(from, o) /\ ~Before(x, o) => \E k \in 1..Len(u) : u[k] = o
    BY <1>6, <1>8, <1>9, <1>10, <1>11
  <1>13. Column(mib, old, from, u, x, FALSE)
    BY <1>1, <1>2, <1>4, <1>12 DEF Column
  <1> QED
    BY <1>13 DEF x

\* endOfMibView: there was nothing left to return.
LEMMA ColumnEnds ==
    ASSUME NEW mib, MibOk(mib), NEW old, old \subseteq DOMAIN mib, NEW from, NEW s, NEW at,
           Column(mib, old, from, s, at, FALSE), IsException(ResolveGetNext(mib, at))
    PROVE  Column(mib, old, from, s, at, TRUE)
  <1>1. at \in Oid
    BY DEF Column
  <1>2. \A p \in DOMAIN mib : ~Before(at, p)
    BY <1>1, GetNextStep
  <1>3. \A o \in old : ~Before(at, o)
    BY <1>2
  <1> QED
    BY <1>3 DEF Column

\* Whole rows: a column that was not done gets n names and then, if a row is
\* left, endOfMibView.
LEMMA ColumnReceives ==
    ASSUME NEW mib, MibOk(mib), NEW old, old \subseteq DOMAIN mib, NEW w \in Nat,
           NEW pos \in [1..w -> Oid], NEW i \in 1..w, NEW response, NEW rows \in Nat,
           Chained(mib, pos, w, response, rows), NEW from, NEW s,
           Column(mib, old, from, s, pos[i], FALSE), NEW n \in 0..rows,
           \A r \in 1..n : ~IsException(CellOf(response, w, r, i)),
           n < rows => IsException(CellOf(response, w, n + 1, i))
    PROVE  LET t == [r \in 1..n |-> CellOf(response, w, r, i).oid]
               at == IF n = 0 THEN pos[i] ELSE CellOf(response, w, n, i).oid
           IN  Column(mib, old, from, s \o t, at, n < rows)
  <1> DEFINE name(r) == CellOf(response, w, r, i).oid
             at(r) == Reached(pos, w, response, r, i)
             part(r) == s \o [q \in 1..r |-> name(q)]
             S == {r \in 0..n : Column(mib, old, from, part(r), at(r), FALSE)}
  <1>1. \A r \in 1..n : CellOf(response, w, r, i) = ResolveGetNext(mib, at(r - 1))
    BY DEF Chained
  <1>2. s \in Seq(Oid) /\ Len(s) \in Nat
    BY DEF Column
  <1>3. at(0) = pos[i] /\ \A r \in 1..n : at(r) = name(r)
    <2>1. \A r \in 1..n : r # 0
      OBVIOUS
    <2> QED
      BY <2>1 DEF Reached
  <1>4. n < rows => IsException(ResolveGetNext(mib, at(n)))
    <2>1. n < rows => n + 1 \in 1..rows /\ (n + 1) - 1 = n
      OBVIOUS
    <2>2. n < rows => CellOf(response, w, n + 1, i) = ResolveGetNext(mib, at(n))
      BY <2>1 DEF Chained
    <2> QED
      BY <2>2
  <1> HIDE DEF name, at
  <1>5. ASSUME NEW r \in 0..n, \A q \in 1..r : name(q) \in Oid
        PROVE  /\ part(r) \in Seq(Oid) /\ Len(part(r)) = Len(s) + r
               /\ \A k \in 1..Len(s) : part(r)[k] = s[k]
               /\ \A q \in 1..r : part(r)[Len(s) + q] = name(q)
    <2> DEFINE t == [q \in 1..r |-> name(q)]
    <2>1. t \in Seq(Oid) /\ Len(t) = r /\ \A q \in 1..r : t[q] = name(q)
      BY <1>5
    <2> HIDE DEF t
    <2>2. /\ s \o t \in Seq(Oid) /\ Len(s \o t) = Len(s) + Len(t)
          /\ \A k \in 1..(Len(s) + Len(t)) : (s \o t)[k] = IF k <= Len(s) THEN s[k] ELSE t[k - Len(s)]
      BY <1>2, <2>1, ConcatProperties
    <2>3. \A k \in 1..Len(s) : k \in 1..(Len(s) + r) /\ k <= Len(s)
      BY <1>2
    <2>4. \A q \in 1..r : Len(s) + q \in 1..(Len(s) + r) /\ ~(Len(s) + q <= Len(s)) /\ (Len(s) + q) - Len(s) = q
      BY <1>2
    <2>5. \A k \in 1..Len(s) : (s \o t)[k] = s[k]
      BY <2>1, <2>2, <2>3
    <2>6. \A q \in 1..r : (s \o t)[Len(s) + q] = name(q)
      BY <2>1, <2>2, <2>4
    <2> QED
      BY <2>1, <2>2, <2>5, <2>6 DEF t
  <1>6. \A r \in 0..n : at(r) \in Oid
    <2> DEFINE R == {r \in 0..n : at(r) \in Oid}
    <2>1. 0 \in R
      BY <1>3
    <2>2. ASSUME NEW r \in 1..n, r - 1 \in R PROVE r \in R
      <3>1. at(r - 1) \in Oid
        BY <2>2
      <3>2. ResolveGetNext(mib, at(r - 1)) \in VarbindType
        BY <3>1, GetNextStep
      <3>3. name(r) \in Oid
        BY <1>1, <3>2 DEF VarbindType, name
      <3> QED
        BY <1>3, <3>3
    <2>3. 0..n \subseteq R
      <3>1. n \in Nat
        OBVIOUS
      <3> HIDE DEF R
      <3> QED
        BY <2>1, <2>2, <3>1, InductionUpTo
    <2> QED
      BY <2>3
  <1>7. \A r \in 1..n : name(r) \in Oid
    <2>1. \A r \in 1..n : r \in 0..n
      OBVIOUS
    <2> QED
      BY <1>3, <1>6, <2>1
  <1>8. ASSUME NEW r \in 0..n
        PROVE  /\ part(r) \in Seq(Oid) /\ Len(part(r)) = Len(s) + r
               /\ \A k \in 1..Len(s) : part(r)[k] = s[k]
               /\ \A q \in 1..r : part(r)[Len(s) + q] = name(q)
    <2>1. \A q \in 1..r : q \in 1..n
      OBVIOUS
    <2> QED
      BY <1>5, <1>7, <2>1
  <1> HIDE DEF part
  <1>9. 0 \in S
    <2>1. 0 \in 0..n
      OBVIOUS
    <2>2. part(0) \in Seq(Oid) /\ Len(part(0)) = Len(s) /\ \A k \in 1..Len(s) : part(0)[k] = s[k]
      BY <1>2, <1>8, <2>1
    <2>3. part(0) = s
      BY <1>2, <2>2, SeqEqual
    <2> QED
      BY <1>3, <2>1, <2>3
  <1>10. ASSUME NEW r \in 1..n, r - 1 \in S PROVE r \in S
    <2> DEFINE before == part(r - 1)
               u == part(r)
               vb == CellOf(response, w, r, i)
    <2>1. Column(mib, old, from, before, at(r - 1), FALSE)
      BY <1>10
    <2>2. vb = ResolveGetNext(mib, at(r - 1)) /\ ~IsException(vb) /\ vb.oid = name(r)
      BY <1>1 DEF name
    <2>3. r \in 0..n /\ r - 1 \in 0..n /\ \A q \in 1..(r - 1) : q \in 1..r
      OBVIOUS
    <2>4. /\ u \in Seq(Oid) /\ Len(u) = Len(s) + r
          /\ \A k \in 1..Len(s) : u[k] = s[k]
          /\ \A q \in 1..r : u[Len(s) + q] = name(q)
      BY <1>8, <2>3
    <2>5. /\ before \in Seq(Oid) /\ Len(before) = Len(s) + (r - 1)
          /\ \A k \in 1..Len(s) : before[k] = s[k]
          /\ \A q \in 1..(r - 1) : before[Len(s) + q] = name(q)
      BY <1>8, <2>3
    <2> HIDE DEF before, u, vb
    <2>6. Len(u) = Len(before) + 1 /\ Len(before) + 1 = Len(s) + r
      BY <1>2, <2>4, <2>5
    <2>7. ASSUME NEW k \in 1..Len(before) PROVE u[k] = before[k]
      <3>1. CASE k <= Len(s)
        <4>1. k \in 1..Len(s)
          BY <1>2, <2>5, <3>1
        <4> QED
          BY <2>4, <2>5, <4>1
      <3>2. CASE ~(k <= Len(s))
        <4> DEFINE q == k - Len(s)
        <4>1. q \in 1..(r - 1) /\ k = Len(s) + q
          BY <1>2, <2>5, <3>2
        <4> HIDE DEF q
        <4> QED
          BY <2>3, <2>4, <2>5, <4>1
      <3> QED
        BY <3>1, <3>2
    <2>8. u[Len(before) + 1] = vb.oid
      <3>1. r \in 1..r
        OBVIOUS
      <3> QED
        BY <2>2, <2>4, <2>6, <3>1
    <2>9. Column(mib, old, from, u, vb.oid, FALSE)
      BY <2>1, <2>2, <2>4, <2>6, <2>7, <2>8, ColumnGrows
    <2> QED
      BY <1>3, <2>2, <2>3, <2>9 DEF u
  <1>11. Column(mib, old, from, part(n), at(n), FALSE)
    <2>1. 0..n \subseteq S
      <3>1. n \in Nat
        OBVIOUS
      <3> HIDE DEF S
      <3> QED
        BY <1>9, <1>10, <3>1, InductionUpTo
    <2>2. n \in 0..n
      OBVIOUS
    <2> QED
      BY <2>1, <2>2
  <1>12. Column(mib, old, from, part(n), at(n), n < rows)
    <2>1. CASE n < rows
      <3>1. Column(mib, old, from, part(n), at(n), TRUE)
        BY <1>4, <1>11, <2>1, ColumnEnds
      <3>2. (n < rows) = TRUE
        BY <2>1
      <3> QED
        BY <3>1, <3>2
    <2>2. CASE ~(n < rows)
      <3>1. (n < rows) = FALSE
        BY <2>2
      <3> QED
        BY <1>11, <3>1
    <2> QED
      BY <2>1, <2>2
  <1>13. part(n) = s \o [r \in 1..n |-> CellOf(response, w, r, i).oid]
    BY DEF part, name
  <1>14. at(n) = IF n = 0 THEN pos[i] ELSE CellOf(response, w, n, i).oid
    BY DEF at, Reached
  <1> QED
    BY <1>12, <1>13, <1>14

-----------------------------------------------------------------------------
(* The manager reads a response *)

LEMMA UpToCardinality ==
    ASSUME NEW n \in Nat
    PROVE  IsFiniteSet(1..n) /\ Cardinality(1..n) = n
  <1>1. 1 \in Int /\ n \in Int
    OBVIOUS
  <1>2. IsFiniteSet(1..n) /\ Cardinality(1..n) = IF 1 > n THEN 0 ELSE n - 1 + 1
    BY <1>1, FS_Interval
  <1> QED
    BY <1>2

\* The rows before the first that is not good are counted by their number.
LEMMA LiveRows ==
    ASSUME NEW rows \in Nat, NEW Bad \in SUBSET (1..rows), NEW live,
           live = {r \in 1..rows : \A q \in 1..r : q \notin Bad}
    PROVE  /\ Cardinality(live) \in 0..rows
           /\ \A r \in 1..Cardinality(live) : r \notin Bad
           /\ Cardinality(live) < rows => Cardinality(live) + 1 \in Bad
  <1>1. CASE Bad = {}
    <2>1. live = 1..rows
      BY <1>1
    <2>2. Cardinality(live) = rows
      BY <2>1, UpToCardinality
    <2> QED
      BY <1>1, <2>2
  <1>2. CASE Bad # {}
    <2>1. PICK m \in Bad : \A q \in Bad : m <= q
      <3>1. Bad \subseteq Nat
        OBVIOUS
      <3> QED
        BY <1>2, <3>1, LeastNatural
    <2>2. m \in 1..rows
      BY <2>1
    <2>3. live = 1..(m - 1)
      <3>1. ASSUME NEW r \in live PROVE r \in 1..(m - 1)
        <4>1. r \in 1..rows /\ (m \in 1..r => m \notin Bad)
          OBVIOUS
        <4> QED
          BY <2>1, <2>2, <4>1
      <3>2. ASSUME NEW r \in 1..(m - 1) PROVE r \in live
        <4>1. \A q \in 1..r : q \notin Bad
          BY <2>1, <2>2
        <4> QED
          BY <2>2, <4>1
      <3> QED
        BY <3>1, <3>2
    <2>4. Cardinality(live) = m - 1
      <3>1. m - 1 \in Nat
        BY <2>2
      <3> QED
        BY <2>3, <3>1, UpToCardinality
    <2> QED
      BY <2>1, <2>2, <2>4
  <1> QED
    BY <1>1, <1>2

LEMMA WholeRows ==
    ASSUME NEW rows \in Nat, NEW w \in Nat \ {0}
    PROVE  (rows * w) \div w = rows
  <1> DEFINE a == rows * w
             q == a \div w
             m == a % w
  <1>1. a \in Nat
    OBVIOUS
  <1>2. q \in Int /\ m \in 0..(w - 1) /\ a = w * q + m
    <2> HIDE DEF a
    <2> QED
      BY <1>1
  <1>3. rows * w = a
    OBVIOUS
  <1> HIDE DEF a, q, m
  <1>4. m = (rows - q) * w
    BY <1>2, <1>3
  <1> DEFINE d == rows - q
  <1>5. d \in Int /\ m = d * w
    BY <1>2, <1>4
  <1> HIDE DEF d
  <1>6. d >= 1 => d * w >= w
    BY <1>5
  <1>7. d <= -1 => d * w <= -w
    BY <1>5
  <1>8. d = 0
    BY <1>2, <1>5, <1>6, <1>7
  <1> QED
    BY <1>2, <1>8 DEF d, q, a

\* handle_get_next is one row.
LEMMA GetNextChained ==
    ASSUME NEW mib, MibOk(mib), NEW w \in Nat, NEW pos \in [1..w -> Oid]
    PROVE  /\ HandleGetNext(mib, pos) \in Seq(VarbindType)
           /\ Chained(mib, pos, w, HandleGetNext(mib, pos), 1)
  <1> DEFINE row == HandleGetNext(mib, pos)
  <1>1. row = RepeatingRow(mib, pos)
    BY DEF HandleGetNext, RepeatingRow
  <1>2. /\ row \in Seq(VarbindType) /\ Len(row) = w
        /\ \A i \in 1..w : row[i] = ResolveGetNext(mib, pos[i])
    BY <1>1, RowStep
  <1> HIDE DEF row
  <1>3. ASSUME NEW r \in 1..1, NEW i \in 1..w
        PROVE  CellOf(row, w, r, i) = ResolveGetNext(mib, Reached(pos, w, row, r - 1, i))
    <2>1. r = 1 /\ (r - 1) * w + i = i /\ r - 1 = 0
      OBVIOUS
    <2>2. CellOf(row, w, r, i) = row[i]
      BY <2>1 DEF CellOf
    <2> QED
      BY <1>2, <2>1, <2>2 DEF Reached
  <1>4. 1 * w = w
    OBVIOUS
  <1> QED
    BY <1>2, <1>3, <1>4 DEF Chained, row

-----------------------------------------------------------------------------
(* The walk *)

WalkInv ==
    /\ MibOk(store) /\ DOMAIN store \subseteq OidSpace
    /\ base \subseteq DOMAIN store
    /\ start = <<>> \/ start \in Starts
    /\ position \in [DOMAIN start -> Oid]
    /\ seen \in [DOMAIN start -> Seq(Oid)]
    /\ ended \in [DOMAIN start -> BOOLEAN]
    /\ \A i \in DOMAIN start : Column(store, base, start[i], seen[i], position[i], ended[i])

\* The columns a walk may start from are object identifiers.
LEMMA StartsAreOids ==
    ASSUME NEW s \in Starts
    PROVE  s \in Seq(Oid) /\ s # <<>> /\ Len(s) \in Nat \ {0} /\ DOMAIN s = 1..Len(s)
  <1>1. s \in Seq(Seq(Nat)) /\ s # <<>> /\ \A i \in DOMAIN s : IsOid(s[i])
    BY RequestsAssumption
  <1>2. Len(s) \in Nat \ {0} /\ DOMAIN s = 1..Len(s)
    BY <1>1
  <1>3. \A i \in 1..Len(s) : s[i] \in Oid
    BY <1>1, <1>2 DEF IsOid, Oid
  <1>4. s \in [1..Len(s) -> Oid]
    BY <1>1, <1>2, <1>3
  <1>5. s \in Seq(Oid)
    <2> DEFINE L == Len(s)
    <2>1. L \in Nat /\ s \in [1..L -> Oid]
      BY <1>2, <1>4
    <2> HIDE DEF L
    <2> QED
      BY <2>1
  <1> QED
    BY <1>1, <1>2, <1>5

\* Reading a response of whole rows keeps every column right.
LEMMA ReceiveKeeps ==
    ASSUME WalkInv, start # <<>>, NEW response, NEW rows \in Nat,
           Chained(store, position, Len(start), response, rows), Receive(response)
    PROVE  WalkInv'
  <1> DEFINE w == Len(start)
             live(i) == {r \in 1..rows : \A q \in 1..r : ~IsException(Cell(response, q, i))}
             count(i) == IF ended[i] THEN 0 ELSE Cardinality(live(i))
             names(i) == [r \in 1..count(i) |-> Cell(response, r, i).oid]
  <1>1. w \in Nat \ {0} /\ DOMAIN start = 1..w
    BY StartsAreOids DEF WalkInv
  <1>2. Len(response) \div Len(start) = rows
    <2>1. Len(response) = rows * w
      BY DEF Chained
    <2> QED
      BY <1>1, <2>1, WholeRows
  <1>3. /\ seen' = [i \in DOMAIN start |-> seen[i] \o names(i)]
        /\ position' = [i \in DOMAIN start |->
               IF count(i) = 0 THEN position[i] ELSE Cell(response, count(i), i).oid]
        /\ ended' = [i \in DOMAIN start |-> ended[i] \/ count(i) < rows]
        /\ UNCHANGED <<store, start, base>>
    BY <1>2 DEF Receive
  <1>4. \A r, i : Cell(response, r, i) = CellOf(response, w, r, i)
    BY DEF Cell, CellOf
  <1> HIDE DEF w
  <1>5. ASSUME NEW i \in 1..w
        PROVE  Column(store, base, start[i], seen'[i], position'[i], ended'[i])
    <2> DEFINE n == count(i)
               t == [r \in 1..n |-> CellOf(response, w, r, i).oid]
               at == IF n = 0 THEN position[i] ELSE CellOf(response, w, n, i).oid
    <2>1. Column(store, base, start[i], seen[i], position[i], ended[i]) /\ ended[i] \in BOOLEAN
      BY <1>1 DEF WalkInv
    <2>2. seen'[i] = seen[i] \o t /\ position'[i] = at /\ ended'[i] = (ended[i] \/ n < rows)
      BY <1>1, <1>3, <1>4
    <2>3. CASE ended[i]
      <3>1. n = 0
        BY <2>3
      <3>2. seen[i] \in Seq(Oid)
        BY <2>1 DEF Column
      <3>3. t = <<>>
        <4>1. t = [r \in 1..0 |-> CellOf(response, w, r, i).oid]
          BY <3>1
        <4> QED
          BY <4>1
      <3>4. seen[i] \o t = seen[i]
        <4>1. seen[i] \o <<>> = seen[i]
          BY <3>2
        <4> QED
          BY <3>3, <4>1
      <3>5. seen'[i] = seen[i] /\ position'[i] = position[i] /\ ended'[i] = ended[i]
        <4>1. ended[i] = TRUE /\ ended'[i] = TRUE
          BY <2>1, <2>2, <2>3
        <4> QED
          BY <2>2, <3>1, <3>4, <4>1
      <3> QED
        BY <2>1, <3>5
    <2>4. CASE ~ended[i]
      <3> DEFINE Bad == {r \in 1..rows : IsException(CellOf(response, w, r, i))}
      <3>1. live(i) = {r \in 1..rows : \A q \in 1..r : q \notin Bad}
        <4>1. \A r \in 1..rows : \A q \in 1..r : q \in 1..rows
          OBVIOUS
        <4>2. ASSUME NEW r \in 1..rows, NEW q \in 1..r
              PROVE  ~IsException(Cell(response, q, i)) <=> q \notin Bad
          BY <1>4, <4>1
        <4> HIDE DEF Bad
        <4> QED
          BY <4>2
      <3>2. n = Cardinality(live(i))
        BY <2>4
      <3> HIDE DEF live
      <3>3. n \in 0..rows /\ (\A r \in 1..n : r \notin Bad) /\ (n < rows => n + 1 \in Bad)
        <4>1. Bad \in SUBSET (1..rows)
          OBVIOUS
        <4> HIDE DEF Bad, n
        <4> QED
          BY <3>1, <3>2, <4>1, LiveRows
      <3> HIDE DEF n
      <3>4. /\ \A r \in 1..n : ~IsException(CellOf(response, w, r, i))
            /\ n < rows => IsException(CellOf(response, w, n + 1, i))
        <4>1. \A r \in 1..n : r \in 1..rows
          BY <3>3
        <4> QED
          BY <3>3, <4>1
      <3>5. /\ MibOk(store) /\ base \subseteq DOMAIN store /\ position \in [1..w -> Oid]
            /\ Chained(store, position, w, response, rows)
            /\ Column(store, base, start[i], seen[i], position[i], FALSE)
        <4>1. ended[i] = FALSE
          BY <2>1, <2>4
        <4> QED
          BY <1>1, <2>1, <4>1 DEF WalkInv, w
      <3>6. Column(store, base, start[i], seen[i] \o t, at, n < rows)
        BY <1>1, <3>3, <3>4, <3>5, ColumnReceives
      <3>7. ended'[i] = (n < rows)
        BY <2>1, <2>2, <2>4
      <3> QED
        BY <2>2, <3>6, <3>7
    <2> QED
      BY <2>3, <2>4
  <1>6. /\ position' \in [DOMAIN start -> Oid]
        /\ seen' \in [DOMAIN start -> Seq(Oid)]
        /\ ended' \in [DOMAIN start -> BOOLEAN]
    <2>1. \A i \in 1..w : position'[i] \in Oid /\ seen'[i] \in Seq(Oid)
      BY <1>5 DEF Column
    <2>2. DOMAIN position' = DOMAIN start /\ DOMAIN seen' = DOMAIN start
      BY <1>3
    <2> HIDE DEF names, count
    <2>3. position' \in [DOMAIN start -> Oid] /\ seen' \in [DOMAIN start -> Seq(Oid)]
      BY <1>1, <1>3, <2>1
    <2>4. \A i \in DOMAIN start : (ended[i] \/ count(i) < rows) \in BOOLEAN
      OBVIOUS
    <2> QED
      BY <1>3, <2>3, <2>4
  <1> QED
    BY <1>1, <1>3, <1>5, <1>6 DEF WalkInv

LEMMA WalkInit == Init => WalkInv
  <1> SUFFICES ASSUME Init PROVE WalkInv
    OBVIOUS
  <1>1. DOMAIN store = {} /\ base = {} /\ start = <<>> /\ DOMAIN start = {}
    BY DEF Init
  <1>2. MibOk(store)
    BY <1>1, FS_EmptySet DEF MibOk
  <1>3. position = <<>> /\ seen = <<>> /\ ended = <<>>
    BY DEF Init
  <1>4. \A T : <<>> \in [{} -> T]
    OBVIOUS
  <1> QED
    BY <1>1, <1>2, <1>3, <1>4 DEF WalkInv

\* A column does not depend on what the store holds besides.
LEMMA ColumnKept ==
    ASSUME NEW mib, NEW more, DOMAIN mib \subseteq DOMAIN more, NEW old, NEW from, NEW s, NEW at,
           NEW done, Column(mib, old, from, s, at, done)
    PROVE  Column(more, old, from, s, at, done)
  BY DEF Column

LEMMA SetKeeps ==
    ASSUME WalkInv, NEW o \in OidSpace, NEW v \in ValueSpace, ApplicationSet(o, v)
    PROVE  WalkInv'
  <1>1. /\ store' = [p \in DOMAIN store \cup {o} |-> IF p = o THEN v ELSE store[p]]
        /\ start' = start /\ base' = base /\ position' = position /\ seen' = seen /\ ended' = ended
    BY DEF ApplicationSet, StoreSet, walkVars
  <1>2. DOMAIN store' = DOMAIN store \cup {o}
    BY <1>1
  <1>3. MibOk(store')
    <2>1. o \in Oid
      BY RequestsAssumption DEF IsOid, Oid
    <2>2. IsFiniteSet(DOMAIN store')
      BY <1>2, FS_AddElement DEF WalkInv, MibOk
    <2>3. \A p \in DOMAIN store' : store'[p] \in ValueSpace
      BY <1>1, <1>2 DEF WalkInv, MibOk
    <2> QED
      BY <1>2, <2>1, <2>2, <2>3 DEF WalkInv, MibOk
  <1>4. ASSUME NEW i \in DOMAIN start
        PROVE  Column(store', base, start[i], seen[i], position[i], ended[i])
    BY <1>2, ColumnKept DEF WalkInv
  <1> QED
    BY <1>1, <1>2, <1>3, <1>4 DEF WalkInv

LEMMA StartKeeps ==
    ASSUME WalkInv, NEW columns \in Starts, StartWalk(columns)
    PROVE  WalkInv'
  <1>1. columns \in Seq(Oid) /\ DOMAIN columns = 1..Len(columns) /\ Len(columns) \in Nat
    BY StartsAreOids
  <1>2. \A i \in DOMAIN columns : columns[i] \in Oid
    BY <1>1
  <1>3. /\ store' = store /\ start' = columns /\ base' = DOMAIN store /\ position' = columns
        /\ seen' = [i \in DOMAIN columns |-> <<>>] /\ ended' = [i \in DOMAIN columns |-> FALSE]
    BY DEF StartWalk
  <1>4. ASSUME NEW i \in DOMAIN columns
        PROVE  Column(store, DOMAIN store, columns[i], <<>>, columns[i], FALSE)
    <2>1. <<>> \in Seq(Oid) /\ Len(<<>>) = 0 /\ 1..0 = {}
      BY EmptySeq
    <2> QED
      BY <1>2, <2>1 DEF Column
  <1>5. columns \in [DOMAIN columns -> Oid]
    BY <1>1
  <1>6. <<>> \in Seq(Oid)
    BY EmptySeq
  <1>7. \A i \in DOMAIN columns : seen'[i] = <<>> /\ ended'[i] = FALSE /\ position'[i] = columns[i]
    BY <1>3
  <1>8. /\ position' \in [DOMAIN start' -> Oid]
        /\ seen' \in [DOMAIN start' -> Seq(Oid)]
        /\ ended' \in [DOMAIN start' -> BOOLEAN]
    BY <1>3, <1>5, <1>6
  <1>9. \A i \in DOMAIN start' : Column(store', base', start'[i], seen'[i], position'[i], ended'[i])
    BY <1>3, <1>4, <1>7
  <1>10. /\ MibOk(store') /\ DOMAIN store' \subseteq OidSpace
         /\ base' \subseteq DOMAIN store' /\ start' \in Starts
    BY <1>3 DEF WalkInv
  <1> QED
    BY <1>8, <1>9, <1>10 DEF WalkInv

LEMMA WalkKeeps ==
    ASSUME WalkInv, [Next]_vars
    PROVE  WalkInv'
  <1>1. ASSUME NEW o \in OidSpace, NEW v \in ValueSpace, ApplicationSet(o, v) PROVE WalkInv'
    BY <1>1, SetKeeps
  <1>2. ASSUME NEW columns \in Starts, StartWalk(columns) PROVE WalkInv'
    BY <1>2, StartKeeps
  <1>3. start # <<>> => /\ Len(start) \in Nat /\ DOMAIN start = 1..Len(start)
                        /\ position \in [1..Len(start) -> Oid] /\ MibOk(store)
    BY StartsAreOids DEF WalkInv
  <1>4. CASE WalkNext
    <2>1. start # <<>> /\ Receive(HandleGetNext(store, position))
      BY <1>4 DEF WalkNext, Walking
    <2>2. Chained(store, position, Len(start), HandleGetNext(store, position), 1)
      BY <1>3, <2>1, GetNextChained
    <2>3. 1 \in Nat
      OBVIOUS
    <2> QED
      BY <2>1, <2>2, <2>3, ReceiveKeeps
  <1>5. ASSUME NEW n \in MaxRepetitionFields, NEW s \in MaxSizes, WalkBulk(n, s) PROVE WalkInv'
    <2> DEFINE response == HandleGetBulk(store, position, 0, n, EffectiveMaxSize(s))
    <2>1. start # <<>> /\ Receive(response)
      BY <1>5 DEF WalkBulk, Walking
    <2>2. n \in Int /\ EffectiveMaxSize(s) \in Nat
      BY RequestsAssumption DEF EffectiveMaxSize, Lesser
    <2>3. position \in Seq(Oid) /\ Len(position) = Len(start)
      <3> DEFINE L == Len(start)
      <3>1. L \in Nat /\ position \in [1..L -> Oid]
        BY <1>3, <2>1
      <3> HIDE DEF L
      <3>2. position \in Seq(Oid) /\ Len(position) = L
        BY <3>1
      <3> QED
        BY <3>2 DEF L
    <2>4. \E rows \in Nat : Chained(store, position, Len(position), response, rows)
      BY <1>3, <2>1, <2>2, <2>3, BulkChained
    <2> HIDE DEF response
    <2>5. PICK rows \in Nat : Chained(store, position, Len(start), response, rows)
      BY <2>3, <2>4
    <2> QED
      BY <2>1, <2>5, ReceiveKeeps
  <1>6. CASE EndWalk
    <2>1. /\ store' = store /\ start' = <<>> /\ base' = {} /\ position' = <<>> /\ seen' = <<>>
          /\ ended' = <<>>
      BY <1>6 DEF EndWalk
    <2>2. DOMAIN start' = {} /\ \A T : <<>> \in [{} -> T]
      BY <2>1
    <2> QED
      BY <2>1, <2>2 DEF WalkInv
  <1>7. CASE UNCHANGED vars
    BY <1>7 DEF vars, WalkInv
  <1> QED
    BY <1>1, <1>2, <1>4, <1>5, <1>6, <1>7 DEF Next

\* The invariant behind the theorems about walks.
LEMMA WalkInvariant == Spec => []WalkInv
  BY WalkInit, WalkKeeps, PTL DEF Spec

\* A walk never goes in circles, however many columns it has, whichever of
\* GETNEXT and GETBULK fetches each row, and whatever the application inserts
\* between two requests.
THEOREM WalksAdvance == Spec => []WalkAdvances
  <1>1. WalkInv => WalkAdvances
    <2> SUFFICES ASSUME WalkInv, NEW i \in DOMAIN start
                 PROVE  /\ IsSorted(seen[i], Before)
                        /\ \A k \in DOMAIN seen[i] : Before(start[i], seen[i][k])
      BY DEF WalkAdvances
    <2>1. Column(store, base, start[i], seen[i], position[i], ended[i])
      BY DEF WalkInv
    <2>2. DOMAIN seen[i] = 1..Len(seen[i])
      BY <2>1 DEF Column
    <2>3. IsSorted(seen[i], Before)
      BY <2>1 DEF Column, IsSorted
    <2> QED
      BY <2>1, <2>2, <2>3 DEF Column
  <1> QED
    BY <1>1, WalkInvariant, PTL

\* A walk misses nothing that was in the store when it began, and a GET still
\* finds everything the walk returned.
THEOREM WalksComplete == Spec => []WalkComplete
  <1>1. WalkInv => WalkComplete
    <2> SUFFICES ASSUME WalkInv, NEW i \in DOMAIN start
                 PROVE  /\ \A o \in base : Before(start[i], o) /\ (ended[i] \/ ~Before(position[i], o)) =>
                              Contains(seen[i], o)
                        /\ \A k \in DOMAIN seen[i] : ~IsException(HandleGet(store, <<seen[i][k]>>)[1])
      BY DEF WalkComplete
    <2>1. Column(store, base, start[i], seen[i], position[i], ended[i])
      BY DEF WalkInv
    <2>2. DOMAIN seen[i] = 1..Len(seen[i])
      BY <2>1 DEF Column
    <2>3. \A o \in base : Before(start[i], o) /\ (ended[i] \/ ~Before(position[i], o)) =>
              Contains(seen[i], o)
      BY <2>1 DEF Column, Contains
    <2>4. ASSUME NEW k \in DOMAIN seen[i] PROVE ~IsException(HandleGet(store, <<seen[i][k]>>)[1])
      <3> DEFINE o == seen[i][k]
      <3>1. o \in DOMAIN store
        BY <2>1, <2>2 DEF Column
      <3>2. store[o] \in ValueSpace
        BY <3>1 DEF WalkInv, MibOk
      <3> HIDE DEF o
      <3>3. HandleGet(store, <<o>>)[1] = Varbind(o, store[o])
        BY <3>1 DEF HandleGet
      <3>4. Varbind(o, store[o]).value = store[o]
        BY DEF Varbind
      <3>5. ~IsException(Varbind(o, store[o]))
        BY <3>2, <3>4, ValueFacts DEF IsException
      <3> QED
        BY <3>3, <3>5 DEF o
    <2> QED
      BY <2>3, <2>4
  <1> QED
    BY <1>1, WalkInvariant, PTL

-----------------------------------------------------------------------------
(* The response fits *)

\* Five of each is at most five times as many.
LEMMA TotalBound ==
    ASSUME NEW s \in Seq(Nat), \A i \in 1..Len(s) : s[i] <= 5
    PROVE  Total(s) <= 5 * Len(s)
  <1> DEFINE L == Len(s)
  <1>1. PICK f \in [0..L -> Nat] :
            /\ f[0] = 0 /\ \A n \in 1..L : f[n] = f[n - 1] + s[n]
            /\ Total(s) = f[L]
    BY TotalIs
  <1>2. L \in Nat /\ \A n \in 1..L : s[n] \in Nat
    OBVIOUS
  <1> DEFINE S == {n \in 0..L : f[n] <= 5 * n}
  <1>3. 0 \in S
    BY <1>1, <1>2
  <1>4. ASSUME NEW n \in 1..L, n - 1 \in S PROVE n \in S
    <2>1. n - 1 \in 0..L /\ n \in 0..L
      BY <1>2
    <2>2. f[n] = f[n - 1] + s[n] /\ f[n - 1] \in Nat /\ s[n] \in Nat /\ s[n] <= 5 /\ f[n - 1] <= 5 * (n - 1)
      BY <1>1, <1>2, <1>4, <2>1
    <2>3. f[n] <= 5 * n
      BY <2>2
    <2> QED
      BY <2>1, <2>3
  <1>5. 0..L \subseteq S
    <2> HIDE DEF S, L
    <2> QED
      BY <1>2, <1>3, <1>4, InductionUpTo
  <1> QED
    BY <1>1, <1>2, <1>5

\* encode_oid_content writes at most five bytes per arc.
LEMMA OidContentBound ==
    ASSUME NEW o \in Oid
    PROVE  OidContent(o) \in Nat /\ OidContent(o) <= Len(o) * 5
  <1> DEFINE L == Len(o)
             rest == [i \in 1..(L - 2) |-> Base128(o[i + 2])]
             first == Base128(40 * o[1] + o[2])
  <1>1. L \in Nat /\ L >= 2 /\ o \in Seq(Nat)
    BY DEF Oid
  <1>2. \A i \in 1..L : o[i] \in Nat
    BY <1>1
  <1>3. \A v \in Nat : Base128(v) \in Nat /\ Base128(v) <= 5
    BY DEF Base128
  <1>4. first \in Nat /\ first <= 5
    <2>1. o[1] \in Nat /\ o[2] \in Nat
      BY <1>1, <1>2
    <2>2. 40 * o[1] + o[2] \in Nat
      BY <2>1
    <2> QED
      BY <1>3, <2>2
  <1>5. rest \in Seq(Nat) /\ Len(rest) = L - 2 /\ \A i \in 1..(L - 2) : rest[i] <= 5
    <2>1. L - 2 \in Nat
      BY <1>1
    <2>2. \A i \in 1..(L - 2) : i + 2 \in 1..L
      BY <1>1
    <2>3. \A i \in 1..(L - 2) : Base128(o[i + 2]) \in Nat /\ Base128(o[i + 2]) <= 5
      BY <1>2, <1>3, <2>2
    <2> HIDE DEF L
    <2> QED
      BY <2>1, <2>3
  <1>6. OidContent(o) = first + Total(rest)
    BY DEF OidContent
  <1> HIDE DEF rest, first
  <1>7. Total(rest) \in Nat /\ Total(rest) <= 5 * Len(rest)
    BY <1>5, TotalType, TotalBound
  <1> HIDE DEF L
  <1>8. OidContent(o) \in Nat /\ OidContent(o) <= L * 5
    BY <1>1, <1>4, <1>5, <1>6, <1>7
  <1> QED
    BY <1>8 DEF L

\* handle_get_bulk's running estimate bounds what the encoder writes.
LEMMA EstimateBoundsWire ==
    ASSUME NEW a \in Seq(VarbindType)
    PROVE  WireSize(a) \in Nat /\ Estimate(a) \in Nat /\ WireSize(a) <= Estimate(a)
  <1> DEFINE L == Len(a)
             sizes == [i \in DOMAIN a |-> EncodedVarbind(OidContent(a[i].oid), a[i].value.content)]
  <1>1. L \in Nat /\ DOMAIN a = 1..L /\ \A i \in 1..L : a[i] \in VarbindType
    OBVIOUS
  <1>2. ASSUME NEW vb \in VarbindType
        PROVE  /\ EncodedVarbind(OidContent(vb.oid), vb.value.content) \in Nat
               /\ EncodedVarbind(OidContent(vb.oid), vb.value.content) <= VarbindEstimate(vb)
    <2>1. vb.oid \in Oid /\ vb.value \in ValueSpace \cup {End}
      BY DEF VarbindType
    <2>2. OidContent(vb.oid) \in Nat /\ OidContent(vb.oid) <= Len(vb.oid) * 5
      BY <2>1, OidContentBound
    <2>3. /\ vb.value.kind \in ValueKinds /\ vb.value.len \in Nat /\ vb.value.content \in Nat
          /\ vb.value.content <= ValueContentUpperBound(vb.value.kind, vb.value.len)
      BY <2>1, ValueFacts
    <2>4. Len(vb.oid) \in Nat
      BY <2>1 DEF Oid
    <2>5. EncodedVarbind(OidContent(vb.oid), vb.value.content) <= VarbindEstimate(vb)
      BY <2>2, <2>3, <2>4, EstimateCovers DEF VarbindEstimate
    <2>6. EncodedVarbind(OidContent(vb.oid), vb.value.content) \in Nat
      <3>1. Tlv(OidContent(vb.oid)) \in Nat /\ Tlv(vb.value.content) \in Nat
        BY <2>2, <2>3, TlvBounds
      <3>2. Tlv(OidContent(vb.oid)) + Tlv(vb.value.content) \in Nat
        BY <3>1
      <3> QED
        BY <3>2, TlvBounds DEF EncodedVarbind
    <2> QED
      BY <2>5, <2>6
  <1>3. /\ Estimates(a) \in Seq(Nat) /\ Len(Estimates(a)) = L /\ Estimate(a) = Total(Estimates(a))
        /\ \A i \in 1..L : Estimates(a)[i] = VarbindEstimate(a[i])
    BY EstimatesType
  <1>4. /\ sizes \in Seq(Nat) /\ Len(sizes) = L
        /\ \A i \in 1..L : sizes[i] = EncodedVarbind(OidContent(a[i].oid), a[i].value.content)
    <2>1. \A i \in 1..L : EncodedVarbind(OidContent(a[i].oid), a[i].value.content) \in Nat
      BY <1>1, <1>2
    <2>2. sizes = [i \in 1..L |-> EncodedVarbind(OidContent(a[i].oid), a[i].value.content)]
      BY <1>1
    <2> HIDE DEF L, sizes
    <2> QED
      BY <1>1, <2>1, <2>2
  <1>5. WireSize(a) = Total(sizes)
    BY DEF WireSize
  <1> HIDE DEF sizes, L
  <1>6. \A i \in 1..L : sizes[i] <= Estimates(a)[i]
    BY <1>1, <1>2, <1>3, <1>4
  <1>7. Total(sizes) <= Total(Estimates(a))
    BY <1>3, <1>4, <1>6, TotalMonotone
  <1> QED
    BY <1>3, <1>4, <1>5, <1>7, TotalType

\* REQ-0133: with whatever the application has stored, a GETBULK response to
\* any columns without non-repeaters fits both sides' message size.
THEOREM RepeatingResponsesFit == Spec => []RepeatersFit
  <1>1. WalkInv => RepeatersFit
    <2> SUFFICES ASSUME WalkInv, NEW columns \in Starts, NEW n \in MaxRepetitionFields, NEW s \in MaxSizes
                 PROVE  LargestMessage(Bulk(columns, 0, n, s)) <= EffectiveMaxSize(s)
      BY DEF RepeatersFit
    <2> DEFINE response == Bulk(columns, 0, n, s)
               M == EffectiveMaxSize(s)
               budget == Budget(M)
    <2>1. M \in Nat /\ M >= 484 /\ n \in Int
      BY RequestsAssumption DEF EffectiveMaxSize, Lesser
    <2>2. response \in Seq(VarbindType) /\ Estimate(response) <= budget
      <3>1. MibOk(store) /\ columns \in Seq(Oid)
        BY StartsAreOids DEF WalkInv
      <3>2. response = HandleGetBulk(store, columns, 0, n, M)
        BY DEF Bulk
      <3> HIDE DEF response, M
      <3> QED
        BY <2>1, <3>1, <3>2, BulkChained
    <2> HIDE DEF response, M
    <2>3. WireSize(response) \in Nat /\ WireSize(response) <= budget
      <3>1. budget \in Nat
        BY <2>1 DEF Budget, V3_ENVELOPE_OVERHEAD
      <3> HIDE DEF budget
      <3> QED
        BY <2>2, <3>1, EstimateBoundsWire
    <2>4. LargestMessage(response) \in Nat /\ LargestMessage(response) <= WireSize(response) + 259
      <3>1. 32 \in EngineIdSizes /\ 32 \in UserNameSizes /\ 48 \in MacSizes /\ TRUE \in BOOLEAN
        BY DEF EngineIdSizes, UserNameSizes, MacSizes
      <3> QED
        BY <2>3, <3>1, EnvelopeSize DEF LargestMessage
    <2>5. LargestMessage(response) <= M
      BY <2>1, <2>3, <2>4 DEF Budget, V3_ENVELOPE_OVERHEAD
    <2> QED
      BY <2>5 DEF response, M
  <1> QED
    BY <1>1, WalkInvariant, PTL

-----------------------------------------------------------------------------
(* Repetitions, counted *)

LEMMA GetNextForm ==
    ASSUME NEW mib, MibOk(mib), NEW o \in Oid
    PROVE  LET vb == ResolveGetNext(mib, o)
           IN  /\ IsException(vb) => vb = Varbind(o, End)
               /\ ~IsException(vb) => vb = Varbind(vb.oid, mib[vb.oid])
  <1> DEFINE vb == ResolveGetNext(mib, o)
             S == Successors(mib, o)
             first == Least(S)
  <1>1. CASE S = {}
    <2>1. vb = Varbind(o, End)
      BY <1>1 DEF ResolveGetNext, StoreNext, End
    <2>2. vb.value = End
      BY <2>1 DEF Varbind
    <2>3. IsException(vb)
      BY <2>2, ValueFacts DEF IsException
    <2> QED
      BY <2>1, <2>3
  <1>2. CASE S # {}
    <2>1. vb = Varbind(first, mib[first])
      BY <1>2 DEF ResolveGetNext, StoreNext
    <2>2. vb.oid = first
      BY <2>1 DEF Varbind
    <2>3. ~IsException(vb)
      <3>1. PICK p \in DOMAIN mib : Before(o, p)
        BY <1>2 DEF Successors
      <3> QED
        BY <3>1, GetNextStep
    <2> QED
      BY <2>1, <2>2, <2>3
  <1> QED
    BY <1>1, <1>2

\* What lies after o, up to and including p.
Passed(o, p) == {q \in Successors(store, o) : ~Before(p, q)}

\* Where r steps from o lead: to the r-th name after it, or the last.
NthAt(o, r, p) ==
    /\ p \in Oid /\ (p = o \/ p \in Successors(store, o))
    /\ Cardinality(Passed(o, p)) = Lesser(r, Cardinality(Successors(store, o)))

LEMMA PassedFacts ==
    ASSUME MibOk(store), NEW o, NEW p
    PROVE  /\ IsFiniteSet(Successors(store, o)) /\ Successors(store, o) \subseteq DOMAIN store
           /\ Cardinality(Successors(store, o)) \in Nat
           /\ IsFiniteSet(Passed(o, p)) /\ Passed(o, p) \subseteq Successors(store, o)
           /\ Cardinality(Passed(o, p)) \in Nat
           /\ Cardinality(Passed(o, p)) <= Cardinality(Successors(store, o))
           /\ Cardinality(Passed(o, p)) = Cardinality(Successors(store, o)) =>
                 Passed(o, p) = Successors(store, o)
  <1>1. Successors(store, o) \subseteq DOMAIN store /\ Passed(o, p) \subseteq Successors(store, o)
    BY DEF Successors, Passed
  <1>2. IsFiniteSet(Successors(store, o))
    BY <1>1, FS_Subset DEF MibOk
  <1>3. IsFiniteSet(Passed(o, p))
    BY <1>1, <1>2, FS_Subset
  <1> QED
    BY <1>1, <1>2, <1>3, FS_Subset, FS_CardinalityType

\* There is one n-th name.
LEMMA NthUnique ==
    ASSUME MibOk(store), NEW o, NEW n, NEW p, NEW q, IsNthAfter(o, n, p), IsNthAfter(o, n, q)
    PROVE  p = q
  <1> DEFINE S == Successors(store, o)
  <1>1. /\ p \in S /\ q \in S /\ Cardinality(Passed(o, p)) = n /\ Cardinality(Passed(o, q)) = n
    BY DEF IsNthAfter, Passed
  <1>2. \A a \in S : a \in Seq(Nat)
    BY DEF Successors, MibOk, Oid
  <1>3. ASSUME NEW a \in S, NEW b \in S, Cardinality(Passed(o, a)) = n, Cardinality(Passed(o, b)) = n,
               Before(a, b)
        PROVE  FALSE
    <2>1. b \in Passed(o, b) /\ b \notin Passed(o, a)
      BY <1>2, <1>3, BeforeIrreflexive DEF Passed
    <2>2. Passed(o, a) \subseteq Passed(o, b)
      <3>1. ASSUME NEW c \in Passed(o, a) PROVE c \in Passed(o, b)
        <4>1. c \in S /\ ~Before(a, c)
          BY DEF Passed
        <4>2. ~Before(b, c)
          BY <1>2, <1>3, <4>1, BeforeTransitive
        <4> QED
          BY <4>1, <4>2 DEF Passed
      <3> QED
        BY <3>1
    <2>3. IsFiniteSet(Passed(o, b))
      BY PassedFacts
    <2>4. Passed(o, b) = Passed(o, a)
      BY <1>3, <2>2, <2>3, FS_Subset
    <2> QED
      BY <2>1, <2>4
  <1>4. ~Before(p, q) /\ ~Before(q, p)
    BY <1>1, <1>3
  <1>5. p \in Seq(Nat) /\ q \in Seq(Nat)
    BY <1>1, <1>2
  <1> QED
    BY <1>4, <1>5, BeforeTotal

\* One more step from the r-th name is what RFC 3416 expects as repetition
\* r + 1.
LEMMA NthStep ==
    ASSUME MibOk(store), DOMAIN store \subseteq OidSpace, NEW o \in Oid, NEW r \in Nat, NEW p,
           NthAt(o, r, p)
    PROVE  /\ ResolveGetNext(store, p) = ExpectedCell(o, r + 1)
           /\ NthAt(o, r + 1, ResolveGetNext(store, p).oid)
  <1> DEFINE S == Successors(store, o)
             vb == ResolveGetNext(store, p)
             x == vb.oid
  <1>1. /\ p \in Oid /\ (p = o \/ p \in S)
        /\ Cardinality(Passed(o, p)) = Lesser(r, Cardinality(S))
    BY DEF NthAt
  <1>2. /\ IsFiniteSet(S) /\ S \subseteq DOMAIN store /\ Cardinality(S) \in Nat
        /\ IsFiniteSet(Passed(o, p)) /\ Passed(o, p) \subseteq S /\ Cardinality(Passed(o, p)) \in Nat
        /\ Cardinality(Passed(o, p)) = Cardinality(S) => Passed(o, p) = S
    BY PassedFacts
  <1>3. /\ vb \in VarbindType
        /\ IsException(vb) => x = p /\ \A q \in DOMAIN store : ~Before(p, q)
        /\ ~IsException(vb) =>
              /\ x \in DOMAIN store /\ Before(p, x)
              /\ \A q \in DOMAIN store : Before(p, q) => q = x \/ Before(x, q)
    BY <1>1, GetNextStep
  <1>4. /\ IsException(vb) => vb = Varbind(p, End)
        /\ ~IsException(vb) => vb = Varbind(x, store[x])
    BY <1>1, GetNextForm
  <1>5. x \in Oid /\ \A q \in S : q \in Seq(Nat) /\ q \in Oid /\ Before(o, q)
    BY <1>2, <1>3 DEF VarbindType, MibOk, Oid, Successors
  <1>6. o \in Seq(Nat) /\ p \in Seq(Nat) /\ x \in Seq(Nat)
    BY <1>1, <1>5 DEF Oid
  <1> HIDE DEF vb, x
  <1>7. CASE IsException(vb)
    <2>1. x = p /\ vb = Varbind(p, End) /\ \A q \in S : ~Before(p, q)
      BY <1>2, <1>3, <1>4, <1>7
    <2>2. Passed(o, p) = S
      BY <2>1 DEF Passed
    <2>3. Cardinality(S) <= r /\ ~(Cardinality(S) >= r + 1)
      BY <1>1, <1>2, <2>2 DEF Lesser
    <2>4. NthAt(o, r + 1, x)
      <3>1. Cardinality(Passed(o, p)) = Lesser(r + 1, Cardinality(S))
        BY <1>2, <2>2, <2>3 DEF Lesser
      <3> QED
        BY <1>1, <2>1, <3>1 DEF NthAt
    <2> DEFINE reached == {q \in S : \A t \in S : ~Before(q, t)}
    <2>5. ExpectedCell(o, r + 1) =
              Varbind(IF reached = {} THEN o ELSE CHOOSE q \in reached : TRUE, End)
      BY <2>3 DEF ExpectedCell, End
    <2>6. (IF reached = {} THEN o ELSE CHOOSE q \in reached : TRUE) = p
      <3>1. CASE p \in S
        <4>1. p \in reached
          BY <2>1, <3>1
        <4>2. ASSUME NEW q \in reached PROVE q = p
          <5>1. q \in S /\ ~Before(q, p) /\ ~Before(p, q)
            BY <2>1, <3>1
          <5> QED
            BY <1>5, <1>6, <5>1, BeforeTotal
        <4> HIDE DEF reached
        <4> QED
          BY <4>1, <4>2
      <3>2. CASE p \notin S
        <4>1. p = o
          BY <1>1, <3>2
        <4>2. S = {}
          BY <1>5, <2>1, <4>1
        <4> QED
          BY <4>1, <4>2
      <3> QED
        BY <3>1, <3>2
    <2> QED
      BY <2>1, <2>4, <2>5, <2>6 DEF vb, x
  <1>8. CASE ~IsException(vb)
    <2>1. /\ x \in DOMAIN store /\ Before(p, x) /\ vb = Varbind(x, store[x])
          /\ \A q \in DOMAIN store : Before(p, q) => q = x \/ Before(x, q)
      BY <1>3, <1>4, <1>8
    <2>2. x \in S
      <3>1. Before(o, x)
        BY <1>1, <1>5, <1>6, <2>1, BeforeTransitive
      <3> QED
        BY <2>1, <3>1 DEF Successors
    <2>3. x \notin Passed(o, p)
      BY <2>1 DEF Passed
    <2>4. Passed(o, x) = Passed(o, p) \cup {x}
      <3>1. ASSUME NEW q \in Passed(o, x) PROVE q \in Passed(o, p) \cup {x}
        <4>1. q \in S /\ ~Before(x, q)
          BY DEF Passed
        <4>2. Before(p, q) => q = x
          BY <1>2, <2>1, <4>1
        <4> QED
          BY <4>1, <4>2 DEF Passed
      <3>2. ASSUME NEW q \in Passed(o, p) PROVE q \in Passed(o, x)
        <4>1. q \in S /\ ~Before(p, q)
          BY DEF Passed
        <4>2. ~Before(x, q)
          BY <1>5, <1>6, <2>1, <4>1, BeforeTransitive
        <4> QED
          BY <4>1, <4>2 DEF Passed
      <3>3. x \in Passed(o, x)
        BY <1>6, <2>2, BeforeIrreflexive DEF Passed
      <3> QED
        BY <3>1, <3>2, <3>3
    <2>5. Cardinality(Passed(o, x)) = Cardinality(Passed(o, p)) + 1
      BY <1>2, <2>3, <2>4, FS_AddElement
    <2>6. Cardinality(Passed(o, p)) = r /\ Cardinality(S) >= r + 1
      <3>1. Cardinality(Passed(o, x)) <= Cardinality(S)
        BY PassedFacts
      <3> QED
        BY <1>1, <1>2, <2>5, <3>1 DEF Lesser
    <2>7. Cardinality(Passed(o, x)) = r + 1
      BY <2>5, <2>6
    <2>8. NthAt(o, r + 1, x)
      <3>1. Lesser(r + 1, Cardinality(S)) = r + 1
        BY <1>2, <2>6 DEF Lesser
      <3> QED
        BY <1>5, <2>2, <2>7, <3>1 DEF NthAt
    <2>9. ExpectedCell(o, r + 1) = vb
      <3> DEFINE n == r + 1
                 c == CHOOSE q \in OidSpace : IsNthAfter(o, n, q)
      <3>1. IsNthAfter(o, n, x) /\ x \in OidSpace
        BY <2>1, <2>2, <2>7 DEF IsNthAfter, Passed
      <3>2. IsNthAfter(o, n, c)
        BY <3>1
      <3>3. c = x
        <4> HIDE DEF c, n
        <4> QED
          BY <3>1, <3>2, NthUnique
      <3>4. ExpectedCell(o, n) = Varbind(c, store[c])
        BY <2>6 DEF ExpectedCell
      <3> QED
        BY <2>1, <3>3, <3>4
    <2> QED
      BY <2>8, <2>9 DEF vb, x
  <1> QED
    BY <1>7, <1>8

\* No step: nothing has been passed.
LEMMA NthStart ==
    ASSUME MibOk(store), NEW o \in Oid
    PROVE  NthAt(o, 0, o)
  <1>1. Passed(o, o) = {}
    BY DEF Passed, Successors
  <1>2. Cardinality(Passed(o, o)) = 0
    BY <1>1, FS_EmptySet
  <1>3. Cardinality(Successors(store, o)) \in Nat
    BY PassedFacts
  <1>4. Lesser(0, Cardinality(Successors(store, o))) = 0
    BY <1>3 DEF Lesser
  <1> QED
    BY <1>2, <1>4 DEF NthAt

\* Whole rows are the repetitions RFC 3416 asks for, and so is the next row.
AreRepetitions(pos, w, rep, rows, i) ==
    /\ \A r \in 1..rows : CellOf(rep, w, r, i) = ExpectedCell(pos[i], r)
    /\ ResolveGetNext(store, Reached(pos, w, rep, rows, i)) = ExpectedCell(pos[i], rows + 1)

LEMMA RowsAreRepetitions ==
    ASSUME MibOk(store), DOMAIN store \subseteq OidSpace, NEW w \in Nat, NEW pos \in [1..w -> Oid],
           NEW rep, NEW rows \in Nat, Chained(store, pos, w, rep, rows), NEW i \in 1..w
    PROVE  AreRepetitions(pos, w, rep, rows, i)
  <1> DEFINE o == pos[i]
             at(r) == Reached(pos, w, rep, r, i)
             S == {r \in 0..rows : NthAt(o, r, at(r))}
  <1>1. o \in Oid /\ at(0) = o
    BY DEF Reached
  <1>2. ASSUME NEW r \in 1..rows
        PROVE  CellOf(rep, w, r, i) = ResolveGetNext(store, at(r - 1)) /\ at(r) = CellOf(rep, w, r, i).oid
    <2>1. r # 0
      OBVIOUS
    <2> QED
      BY <2>1 DEF Chained, Reached
  <1> HIDE DEF o, at
  <1>3. 0 \in S
    BY <1>1, NthStart
  <1>4. ASSUME NEW r \in 1..rows, r - 1 \in S PROVE r \in S
    <2>1. NthAt(o, r - 1, at(r - 1)) /\ r - 1 \in Nat /\ (r - 1) + 1 = r /\ r \in 0..rows
      BY <1>4
    <2>2. NthAt(o, (r - 1) + 1, ResolveGetNext(store, at(r - 1)).oid)
      BY <1>1, <2>1, NthStep
    <2> QED
      BY <1>2, <2>1, <2>2
  <1>5. 0..rows \subseteq S
    <2> HIDE DEF S
    <2> QED
      BY <1>3, <1>4, InductionUpTo
  <1>6. ASSUME NEW r \in 0..rows PROVE ResolveGetNext(store, at(r)) = ExpectedCell(o, r + 1)
    <2>1. NthAt(o, r, at(r)) /\ r \in Nat
      BY <1>5
    <2> QED
      BY <1>1, <2>1, NthStep
  <1>7. ASSUME NEW r \in 1..rows PROVE CellOf(rep, w, r, i) = ExpectedCell(o, r)
    <2>1. r - 1 \in 0..rows /\ (r - 1) + 1 = r
      OBVIOUS
    <2>2. ResolveGetNext(store, at(r - 1)) = ExpectedCell(o, (r - 1) + 1)
      BY <1>6, <2>1
    <2> QED
      BY <1>2, <2>1, <2>2
  <1>8. rows \in 0..rows
    OBVIOUS
  <1>9. ResolveGetNext(store, at(rows)) = ExpectedCell(o, rows + 1)
    BY <1>6, <1>8
  <1> QED
    BY <1>7, <1>9 DEF AreRepetitions, o, at

\* REQ-0026 and REQ-0134: whatever the application has stored, a GETBULK
\* response is the non-repeaters' successors and then whole rows of the r-th
\* successors of the repeaters, and it ends early only for one of the two
\* reasons the RFC gives.
THEOREM BulkResponsesFollowRfc == Spec => []BulkFollowsRfc
  <1>1. WalkInv => BulkFollowsRfc
    <2> SUFFICES ASSUME WalkInv, NEW columns \in Starts, NEW nr \in NonRepeaterFields,
                        NEW n \in MaxRepetitionFields, NEW s \in MaxSizes
                 PROVE  LET response == Bulk(columns, nr, n, s)
                            fixed == NonRepeaters(columns, nr)
                            width == Len(columns) - fixed
                            rows == IF width = 0 THEN 0 ELSE (Len(response) - fixed) \div width
                            row(r) == [c \in 1..width |-> ExpectedCell(columns[fixed + c], r)]
                        IN  /\ Len(response) = fixed + rows * width
                            /\ \A c \in 1..fixed : response[c] = ExpectedCell(columns[c], 1)
                            /\ \A r \in 1..rows :
                                  SubSeq(response, fixed + (r - 1) * width + 1, fixed + r * width) = row(r)
                            /\ rows <= Clamp(n) /\ rows <= MAX_BULK_REPETITIONS
                            /\ width > 0 /\ rows < Lesser(Clamp(n), MAX_BULK_REPETITIONS) =>
                                  \/ rows > 0 /\ AllEndOfMib(row(rows))
                                  \/ Estimate(response \o row(rows + 1)) + V3_ENVELOPE_OVERHEAD
                                        > EffectiveMaxSize(s)
      BY DEF BulkFollowsRfc
    <2> DEFINE response == Bulk(columns, nr, n, s)
               f == NonRepeaters(columns, nr)
               w == Len(columns) - f
               R == IF w = 0 THEN 0 ELSE (Len(response) - f) \div w
               row(r) == [c \in 1..w |-> ExpectedCell(columns[f + c], r)]
               M == EffectiveMaxSize(s)
               N == Repetitions(n)
               pre == HandleGetNext(store, SubSeq(columns, 1, f))
               rest == SubSeq(columns, f + 1, Len(columns))
    <2>1. M \in Nat /\ n \in Int /\ nr \in Int
      BY RequestsAssumption DEF EffectiveMaxSize, Lesser
    <2>2. MibOk(store) /\ DOMAIN store \subseteq OidSpace /\ columns \in Seq(Oid)
      BY StartsAreOids DEF WalkInv
    <2>3. /\ f \in 0..Len(columns) /\ Budget(M) \in Nat /\ N \in Nat
          /\ rest \in [1..w -> Oid] /\ \A c \in 1..w : rest[c] = columns[f + c]
          /\ pre \in Seq(VarbindType) /\ Len(pre) = f
          /\ \A c \in 1..f : pre[c] = ResolveGetNext(store, columns[c])
          /\ \E bulk : /\ LoopInv(store, Budget(M), pre, rest, w, N, bulk)
                       /\ response = bulk.varbinds
      <3>1. response = HandleGetBulk(store, columns, nr, n, M)
        BY DEF Bulk
      <3> HIDE DEF response, M
      <3>2. ShapedBy(store, columns, f, pre, rest, w, Budget(M), N, response)
        BY <2>1, <2>2, <3>1, BulkShape
      <3> HIDE DEF f, pre, rest, w, N
      <3> QED
        BY <3>2 DEF ShapedBy
    <2>4. Len(columns) \in Nat /\ w \in Nat /\ f \in Nat
      BY <2>2, <2>3
    <2> HIDE DEF response, f, w, M, N, pre, rest
    <2>5. PICK bulk : /\ LoopInv(store, Budget(M), pre, rest, w, N, bulk)
                      /\ response = bulk.varbinds
      BY <2>3
    <2>6. PICK rows \in 0..N, rep \in Seq(VarbindType) :
              LoopAt(store, Budget(M), pre, rest, w, N, bulk, rows, rep)
      BY <2>5 DEF LoopInv
    <2>7. /\ response = pre \o rep /\ Chained(store, rest, w, rep, rows) /\ Len(rep) = rows * w
          /\ ~bulk.stop => rows = N
          /\ bulk.stop => \/ w = 0
                          \/ rows > 0 /\ \A i \in 1..w : IsException(CellOf(rep, w, rows, i))
                          \/ Estimate(response \o NextRow(store, rest, w, rep, rows)) > Budget(M)
      BY <2>5, <2>6 DEF LoopAt, Chained
    <2>8. /\ response \in Seq(VarbindType) /\ Len(response) = f + rows * w
          /\ \A i \in 1..f : response[i] = pre[i]
          /\ \A i \in 1..(rows * w) : response[f + i] = rep[i]
      <3> DEFINE l == rows * w
      <3>1. l \in Nat
        <4>1. \A a, b \in Nat : a * b \in Nat
          OBVIOUS
        <4>2. rows \in Nat
          BY <2>3
        <4> QED
          BY <2>4, <4>1, <4>2
      <3>2. Len(rep) = l
        BY <2>7
      <3>3. /\ pre \o rep \in Seq(VarbindType) /\ Len(pre \o rep) = Len(pre) + Len(rep)
            /\ \A i \in 1..(Len(pre) + Len(rep)) :
                  (pre \o rep)[i] = IF i <= Len(pre) THEN pre[i] ELSE rep[i - Len(pre)]
        BY <2>3, ConcatProperties
      <3>4. /\ response \in Seq(VarbindType) /\ Len(response) = f + l
            /\ \A i \in 1..(f + l) : response[i] = IF i <= f THEN pre[i] ELSE rep[i - f]
        BY <2>3, <2>7, <3>2, <3>3
      <3> HIDE DEF l
      <3>5. \A i \in 1..f : i \in 1..(f + l) /\ i <= f
        BY <2>4, <3>1
      <3>6. \A i \in 1..l : f + i \in 1..(f + l) /\ ~(f + i <= f) /\ (f + i) - f = i
        BY <2>4, <3>1
      <3>7. \A i \in 1..l : response[f + i] = rep[i]
        BY <3>4, <3>6
      <3>8. \A i \in 1..f : response[i] = pre[i]
        BY <3>4, <3>5
      <3> QED
        BY <3>4, <3>7, <3>8 DEF l
    <2>9. ASSUME NEW c \in 1..w
          PROVE  /\ \A r \in 1..rows : CellOf(rep, w, r, c) = ExpectedCell(columns[f + c], r)
                 /\ ResolveGetNext(store, Reached(rest, w, rep, rows, c)) =
                        ExpectedCell(columns[f + c], rows + 1)
      <3>1. rows \in Nat
        BY <2>3
      <3>2. /\ \A r \in 1..rows : CellOf(rep, w, r, c) = ExpectedCell(rest[c], r)
            /\ ResolveGetNext(store, Reached(rest, w, rep, rows, c)) = ExpectedCell(rest[c], rows + 1)
        <4>1. AreRepetitions(rest, w, rep, rows, c)
          BY <2>2, <2>3, <2>4, <2>7, <3>1, RowsAreRepetitions
        <4> QED
          BY <4>1 DEF AreRepetitions
      <3> QED
        BY <2>3, <3>2
    <2>10. rows \in Nat /\ rows <= N /\ R \in Nat /\ R <= rows /\ (w > 0 => R = rows)
      <3>1. rows \in Nat /\ rows <= N
        BY <2>3
      <3>2. CASE w = 0
        BY <2>4, <3>1, <3>2
      <3>3. CASE w # 0
        <4>1. w \in Nat \ {0} /\ rows * w \in Nat
          <5>1. \A a, b \in Nat : a * b \in Nat
            OBVIOUS
          <5> QED
            BY <2>4, <3>1, <3>3, <5>1
        <4>2. Len(response) - f = rows * w
          BY <2>4, <2>8, <4>1
        <4>3. R = rows
          BY <3>1, <3>3, <4>1, <4>2, WholeRows
        <4> QED
          BY <3>1, <4>3
      <3> QED
        BY <3>1, <3>2, <3>3
    <2> HIDE DEF R
    <2>11. Len(response) = f + R * w
      <3>1. CASE w = 0
        <4>1. rows * w = 0 /\ R * w = 0
          BY <2>10, <3>1
        <4> QED
          BY <2>8, <4>1
      <3>2. CASE w > 0
        BY <2>8, <2>10, <3>2
      <3> QED
        BY <2>4, <3>1, <3>2
    <2>12. ASSUME NEW c \in 1..f PROVE response[c] = ExpectedCell(columns[c], 1)
      <3>1. columns[c] \in Oid
        BY <2>2, <2>3, <2>4
      <3>2. NthAt(columns[c], 0, columns[c])
        BY <2>2, <3>1, NthStart
      <3>3. 0 \in Nat /\ 0 + 1 = 1
        OBVIOUS
      <3>4. ResolveGetNext(store, columns[c]) = ExpectedCell(columns[c], 0 + 1)
        BY <2>2, <3>1, <3>2, <3>3, NthStep
      <3> QED
        BY <2>3, <2>8, <3>3, <3>4
    <2>13. ASSUME NEW r \in 1..R
           PROVE  SubSeq(response, f + (r - 1) * w + 1, f + r * w) = row(r)
      <3> DEFINE a == (r - 1) * w
                 m == f + a + 1
                 z == f + r * w
                 part == SubSeq(response, m, z)
      <3>1. r \in 1..rows /\ r - 1 \in Nat /\ r \in Nat
        BY <2>10
      <3>2. a \in Nat /\ r * w = a + w
        <4>1. \A x, y \in Nat : x * y \in Nat
          OBVIOUS
        <4>2. r * w = (r - 1) * w + w
          BY <2>4, <3>1
        <4> QED
          BY <2>4, <3>1, <4>1, <4>2
      <3>3. ASSUME NEW c \in 1..w PROVE a + c \in 1..(rows * w) /\ response[f + (a + c)] = CellOf(rep, w, r, c)
        <4>1. a + c \in 1..(rows * w)
          BY <2>4, <2>10, <3>1, CellIndex
        <4>2. response[f + (a + c)] = rep[a + c]
          BY <2>8, <4>1
        <4> QED
          BY <4>1, <4>2 DEF CellOf
      <3> HIDE DEF a
      <3>4. z = f + a + w /\ z - m + 1 = w /\ m \in Int /\ z \in Int
        BY <2>4, <3>2
      <3> HIDE DEF z
      <3>5. \A c \in 1..w : m + c - 1 = f + (a + c)
        BY <2>4, <3>2
      <3>6. \A i \in m..z : i - (f + a) \in 1..w /\ f + (a + (i - (f + a))) = i
        BY <2>4, <3>2, <3>4
      <3>7. \A c \in 1..w : CellOf(rep, w, r, c) \in VarbindType /\ f + (a + c) \in 1..Len(response)
        <4>1. Len(response) = f + rows * w
          BY <2>8
        <4>2. \A c \in 1..w : f + (a + c) \in 1..Len(response)
          <5> DEFINE l == rows * w
          <5>1. l \in Int /\ \A c \in 1..w : a + c \in 1..l
            BY <2>4, <2>10, <3>3
          <5>2. Len(response) = f + l
            BY <4>1
          <5> HIDE DEF l
          <5> QED
            BY <2>4, <3>2, <5>1, <5>2
        <4>3. \A i \in 1..Len(response) : response[i] \in VarbindType
          BY <2>8
        <4> QED
          BY <3>3, <4>2, <4>3
      <3>8. \A i \in m..z : response[i] \in VarbindType
        BY <3>3, <3>6, <3>7
      <3>9. /\ part \in Seq(VarbindType) /\ Len(part) = IF m <= z THEN z - m + 1 ELSE 0
            /\ \A i \in 1..(z - m + 1) : part[i] = response[m + i - 1]
        <4> HIDE DEF m
        <4> QED
          BY <3>4, <3>8, SubSeqProperties
      <3>10. Len(part) = w
        BY <2>4, <3>2, <3>4, <3>9
      <3> HIDE DEF part, m
      <3>11. ASSUME NEW c \in 1..w PROVE part[c] = row(r)[c]
        <4>1. part[c] = CellOf(rep, w, r, c)
          BY <3>3, <3>4, <3>5, <3>9
        <4> QED
          BY <2>9, <3>1, <4>1
      <3>12. row(r) \in Seq(VarbindType) /\ Len(row(r)) = w
        <4>1. \A c \in 1..w : ExpectedCell(columns[f + c], r) \in VarbindType
          BY <2>9, <3>1, <3>7
        <4> QED
          BY <2>4, <4>1
      <3>13. part = row(r)
        <4> HIDE DEF row
        <4> QED
          BY <3>9, <3>10, <3>11, <3>12, SeqEqual
      <3> QED
        BY <3>13 DEF part, m, z, a
    <2>14. R <= Clamp(n) /\ R <= MAX_BULK_REPETITIONS
      <3>1. N <= Clamp(n) /\ N <= MAX_BULK_REPETITIONS /\ Clamp(n) \in Nat /\ MAX_BULK_REPETITIONS \in Nat
        BY <2>1, RequestsAssumption DEF N, Repetitions, Lesser, Clamp
      <3> QED
        BY <2>3, <2>10, <3>1
    <2>15. ASSUME w > 0, R < Lesser(Clamp(n), MAX_BULK_REPETITIONS)
           PROVE  \/ R > 0 /\ AllEndOfMib(row(R))
                  \/ Estimate(response \o row(R + 1)) + V3_ENVELOPE_OVERHEAD > M
      <3>1. rows < N /\ R = rows
        BY <2>10, <2>15 DEF N, Repetitions
      <3>2. bulk.stop
        BY <2>3, <2>7, <2>10, <3>1
      <3>3. CASE rows > 0 /\ \A i \in 1..w : IsException(CellOf(rep, w, rows, i))
        <4>1. rows \in 1..rows
          BY <2>10, <3>3
        <4>2. \A i \in 1..w : CellOf(rep, w, rows, i) = row(rows)[i]
          BY <2>9, <4>1
        <4>3. DOMAIN row(rows) = 1..w
          OBVIOUS
        <4> HIDE DEF row
        <4> QED
          BY <3>1, <3>3, <4>2, <4>3 DEF AllEndOfMib
      <3>4. CASE Estimate(response \o NextRow(store, rest, w, rep, rows)) > Budget(M)
        <4> DEFINE next == NextRow(store, rest, w, rep, rows)
        <4>1. next = row(rows + 1)
          BY <2>9 DEF NextRow
        <4>2. Estimate(response \o next) \in Nat
          <5>1. \A c \in 1..w : ResolveGetNext(store, Reached(rest, w, rep, rows, c)) \in VarbindType
            <6>1. ASSUME NEW c \in 1..w PROVE Reached(rest, w, rep, rows, c) \in Oid
              <7>1. CASE rows = 0
                BY <2>3, <7>1 DEF Reached
              <7>2. CASE rows # 0
                <8>1. rows \in 1..rows
                  BY <2>10, <7>2
                <8>2. (rows - 1) * w + c \in 1..Len(rep)
                  BY <2>4, <2>7, <2>10, <8>1, CellIndex
                <8>3. CellOf(rep, w, rows, c) \in VarbindType
                  BY <8>2 DEF CellOf
                <8> QED
                  BY <7>2, <8>3 DEF Reached, VarbindType
              <7> QED
                BY <7>1, <7>2
            <6> QED
              BY <2>2, <6>1, GetNextStep
          <5>2. next \in Seq(VarbindType)
            BY <2>4, <5>1 DEF NextRow
          <5>3. response \o next \in Seq(VarbindType)
            BY <2>8, <5>2, ConcatProperties
          <5> QED
            BY <5>3, EstimatesType
        <4> HIDE DEF next, row
        <4>3. Estimate(response \o next) + V3_ENVELOPE_OVERHEAD > M
          BY <2>1, <3>4, <4>2 DEF Budget, V3_ENVELOPE_OVERHEAD, next
        <4> QED
          BY <3>1, <4>1, <4>3
      <3> QED
        BY <2>7, <2>15, <3>2, <3>3, <3>4
    <2> HIDE DEF row
    <2> QED
      BY <2>11, <2>12, <2>13, <2>14, <2>15 DEF response, f, w, R, row, M
  <1> QED
    BY <1>1, WalkInvariant, PTL
=============================================================================
