---------------------------- MODULE Codec_proofs ----------------------------
(***************************************************************************)
(* For every width of octets and words: integers with any padding are read *)
(* as what they mean, and what the agent writes, it reads back.  For every *)
(* limit and every stream: the frames cut out of a connection are its      *)
(* octets, each of them one SEQUENCE; the buffer between two events is     *)
(* smaller than a frame; no connection is closed that could still have     *)
(* become a frame; and the decoder reads the same length as the parser.    *)
(* For every text and every OID: each stands for the other, plus signs     *)
(* aside.                                                                  *)
(***************************************************************************)
EXTENDS BerCodec, Framing, OidText, InductionLemmas, FiniteSetTheorems

LEMMA Limits ==
    /\ Half \in Nat /\ Half >= 4 /\ Base \in Nat /\ Base = 2 * Half
    /\ Octets \subseteq Nat
    /\ DoubleOctets \in Nat
  BY BerAssumption DEF BerAssumption, Base, Octets

LEMMA Numbers ==
    /\ \A n \in Nat : n # 0 /\ n # 1 => n >= 2
    /\ \A a, b \in Nat : 2 + a \in Nat /\ 2 + a + b \in Nat
    /\ \A a, b, c \in Nat : a * b + c \in Nat
  OBVIOUS

-----------------------------------------------------------------------------
(* Powers *)

\* The value a recursive function over 0..n with this step has: b^n.
LEMMA PowerIs ==
    ASSUME NEW b \in Nat \ {0}, NEW n \in Nat
    PROVE  \E f : /\ f[0] = 1 /\ \A k \in 1..n : f[k] = b * f[k - 1]
                  /\ \A k \in 0..n : f[k] \in Nat \ {0}
                  /\ Power(b, n) = f[n]
  <1> DEFINE V == Nat \ {0}
             Def(f) == f = [k \in 0..n |-> IF k = 0 THEN 1 ELSE b * f[k - 1]]
             power == CHOOSE f : Def(f)
             step == [k \in 1..n |-> [v \in V |-> b * v]]
  <1>1. \E f : Def(f)
    <2>1. \A v \in V : b * v \in V
      OBVIOUS
    <2>2. step \in [1..n -> [V -> V]] /\ 1 \in V
      BY <2>1
    <2> HIDE DEF step, V
    <2>3. PICK f \in [0..n -> V] : Iterates(f, n, 1, step)
      BY <2>2, RecursionUpTo
    <2>4. \A k \in 0..n : k # 0 => k \in 1..n /\ k - 1 \in 0..n
      OBVIOUS
    <2>5. \A k \in 1..n : f[k] = b * f[k - 1]
      <3>1. \A k \in 1..n : f[k - 1] \in V
        OBVIOUS
      <3> QED
        BY <2>3, <3>1 DEF Iterates, step
    <2>6. Def(f)
      BY <2>3, <2>4, <2>5 DEF Iterates
    <2> QED
      BY <2>6
  <1>2. Def(power)
    BY <1>1
  <1>3. Power(b, n) = power[n]
    BY DEF Power
  <1> HIDE DEF power
  <1>4. power[0] = 1 /\ \A k \in 1..n : power[k] = b * power[k - 1]
    BY <1>2
  <1> DEFINE S == {k \in 0..n : power[k] \in V}
  <1>5. 0 \in S
    BY <1>4
  <1>6. ASSUME NEW k \in 1..n, k - 1 \in S PROVE k \in S
    <2>1. power[k - 1] \in V /\ power[k] = b * power[k - 1]
      BY <1>4, <1>6
    <2>2. \A v \in V : b * v \in V
      OBVIOUS
    <2> QED
      BY <2>1, <2>2
  <1>7. 0..n \subseteq S
    <2> HIDE DEF S
    <2> QED
      BY <1>5, <1>6, InductionUpTo
  <1> QED
    BY <1>3, <1>4, <1>7

LEMMA Powers ==
    ASSUME NEW b \in Nat \ {0}, NEW n \in Nat
    PROVE  /\ Power(b, 0) = 1
           /\ Power(b, n) \in Nat \ {0}
           /\ Power(b, n + 1) = b * Power(b, n)
  <1>1. PICK f : /\ f[0] = 1 /\ \A k \in 1..n : f[k] = b * f[k - 1]
                 /\ \A k \in 0..n : f[k] \in Nat \ {0}
                 /\ Power(b, n) = f[n]
    BY PowerIs
  <1>2. PICK g : /\ g[0] = 1 /\ \A k \in 1..(n + 1) : g[k] = b * g[k - 1]
                 /\ \A k \in 0..(n + 1) : g[k] \in Nat \ {0}
                 /\ Power(b, n + 1) = g[n + 1]
    <2>1. n + 1 \in Nat
      OBVIOUS
    <2> QED
      BY <2>1, PowerIs
  <1>3. Power(b, 0) = 1
    <2>1. 0 \in Nat
      OBVIOUS
    <2> QED
      BY <2>1, PowerIs
  <1> DEFINE S == {k \in 0..n : f[k] = g[k]}
  <1>4. 0 \in S
    BY <1>1, <1>2
  <1>5. ASSUME NEW k \in 1..n, k - 1 \in S PROVE k \in S
    <2>1. k \in 1..(n + 1)
      OBVIOUS
    <2> QED
      BY <1>1, <1>2, <1>5, <2>1
  <1>6. 0..n \subseteq S
    <2> HIDE DEF S
    <2> QED
      BY <1>4, <1>5, InductionUpTo
  <1>7. g[n + 1] = b * g[n]
    <2>1. n + 1 \in 1..(n + 1) /\ (n + 1) - 1 = n
      OBVIOUS
    <2> QED
      BY <1>2, <2>1
  <1> QED
    BY <1>1, <1>2, <1>3, <1>6, <1>7

\* Powers grow.
LEMMA PowersGrow ==
    ASSUME NEW b \in Nat \ {0}, NEW m \in Nat, NEW n \in Nat, m <= n
    PROVE  Power(b, m) <= Power(b, n)
  <1> DEFINE S == {k \in Nat : Power(b, m) <= Power(b, m + k)}
  <1>1. 0 \in S
    BY Powers
  <1>2. ASSUME NEW k \in Nat, k \in S PROVE k + 1 \in S
    <2> DEFINE p == Power(b, m)
               q == Power(b, m + k)
               r == Power(b, m + k + 1)
    <2>1. m + k \in Nat /\ m + (k + 1) = m + k + 1
      OBVIOUS
    <2>2. r = b * q /\ q \in Nat \ {0} /\ p \in Nat
      BY <2>1, Powers
    <2>3. p <= q
      BY <1>2
    <2> HIDE DEF p, q, r
    <2>4. p <= r
      BY <2>2, <2>3
    <2> QED
      BY <2>1, <2>4 DEF p, r
  <1>3. Nat \subseteq S
    <2> HIDE DEF S
    <2> QED
      BY <1>1, <1>2, NaturalInduction
  <1>4. n - m \in Nat /\ m + (n - m) = n
    OBVIOUS
  <1> QED
    BY <1>3, <1>4

-----------------------------------------------------------------------------
(* Octets of a number *)

\* Octets are numbers.
LEMMA OctetSequences ==
    ASSUME NEW s \in Seq(Octets)
    PROVE  /\ s \in Seq(Nat) /\ Len(s) \in Nat /\ (Len(s) = 0 <=> s = <<>>)
           /\ \A i \in 1..Len(s) : s[i] \in Octets /\ s[i] \in Nat
  <1>1. Octets \subseteq Nat
    BY Limits
  <1>2. s \in Seq(Nat)
    BY <1>1, SeqMonotonic
  <1>3. \A i \in 1..Len(s) : s[i] \in Octets
    BY ElementOfSeq
  <1>4. Len(s) \in Nat /\ (Len(s) = 0 <=> s = <<>>)
    BY EmptySeq, LenProperties
  <1> QED
    BY <1>1, <1>2, <1>3, <1>4

\* What the recursive function in FromBeBytes computes.
LEMMA FromBeBytesIs ==
    ASSUME NEW s \in Seq(Nat)
    PROVE  \E f : /\ f[0] = 0 /\ \A n \in 1..Len(s) : f[n] = f[n - 1] * Base + s[n]
                  /\ \A n \in 0..Len(s) : f[n] \in Nat
                  /\ FromBeBytes(s) = f[Len(s)]
  <1> DEFINE L == Len(s)
             Def(f) == f = [n \in 0..L |-> IF n = 0 THEN 0 ELSE f[n - 1] * Base + s[n]]
             value == CHOOSE f : Def(f)
             step == [n \in 1..L |-> [v \in Nat |-> v * Base + s[n]]]
  <1>1. L \in Nat /\ (\A n \in 1..L : s[n] \in Nat) /\ Base \in Nat
    BY Limits
  <1>2. \E f \in [0..L -> Nat] : f[0] = 0 /\ \A n \in 1..L : f[n] = f[n - 1] * Base + s[n]
    <2>1. step \in [1..L -> [Nat -> Nat]] /\ 0 \in Nat
      BY <1>1
    <2> HIDE DEF step, L
    <2>2. PICK f \in [0..L -> Nat] : Iterates(f, L, 0, step)
      BY <1>1, <2>1, RecursionUpTo
    <2>3. \A n \in 1..L : f[n - 1] \in Nat
      BY <1>1
    <2> QED
      BY <2>2, <2>3 DEF Iterates, step
  <1>3. \E f : Def(f)
    <2>1. PICK f \in [0..L -> Nat] : f[0] = 0 /\ \A n \in 1..L : f[n] = f[n - 1] * Base + s[n]
      BY <1>2
    <2>2. \A n \in 0..L : n # 0 => n \in 1..L
      BY <1>1
    <2>3. Def(f)
      BY <2>1, <2>2
    <2> QED
      BY <2>3
  <1>4. Def(value)
    BY <1>3
  <1>5. FromBeBytes(s) = value[L]
    BY DEF FromBeBytes
  <1> DEFINE S == {n \in 0..L : value[n] \in Nat}
  <1> HIDE DEF value
  <1>6. 0 \in S
    BY <1>1, <1>4
  <1>7. ASSUME NEW n \in 1..L, n - 1 \in S PROVE n \in S
    <2>1. value[n - 1] \in Nat /\ n \in 0..L /\ n # 0
      BY <1>1, <1>7
    <2>2. value[n] = value[n - 1] * Base + s[n]
      BY <1>4, <2>1
    <2>4. value[n - 1] * Base + s[n] \in Nat
      BY <1>1, <2>1, Numbers
    <2> QED
      BY <2>1, <2>2, <2>4
  <1>8. 0..L \subseteq S
    <2> HIDE DEF S, L
    <2> QED
      BY <1>1, <1>6, <1>7, InductionUpTo
  <1>9. \A n \in 1..L : value[n] = value[n - 1] * Base + s[n]
    BY <1>1, <1>4
  <1>10. value[0] = 0
    BY <1>1, <1>4
  <1>11. \A n \in 0..L : value[n] \in Nat
    BY <1>8
  <1> QED
    BY <1>5, <1>9, <1>10, <1>11

\* One more octet.
LEMMA FromBeBytesAppend ==
    ASSUME NEW s \in Seq(Nat), NEW x \in Nat
    PROVE  /\ FromBeBytes(<<>>) = 0
           /\ FromBeBytes(s) \in Nat
           /\ FromBeBytes(Append(s, x)) = FromBeBytes(s) * Base + x
  <1> DEFINE L == Len(s)
             u == Append(s, x)
  <1>1. L \in Nat /\ u \in Seq(Nat) /\ Len(u) = L + 1 /\ u[L + 1] = x /\ \A i \in 1..L : u[i] = s[i]
    OBVIOUS
  <1>2. PICK f : /\ f[0] = 0 /\ \A n \in 1..L : f[n] = f[n - 1] * Base + s[n]
                 /\ \A n \in 0..L : f[n] \in Nat
                 /\ FromBeBytes(s) = f[L]
    BY FromBeBytesIs
  <1> HIDE DEF u, L
  <1>3. PICK g : /\ g[0] = 0 /\ \A n \in 1..Len(u) : g[n] = g[n - 1] * Base + u[n]
                 /\ FromBeBytes(u) = g[Len(u)]
    BY <1>1, FromBeBytesIs
  <1>4. FromBeBytes(<<>>) = 0
    <2>1. <<>> \in Seq(Nat) /\ Len(<<>>) = 0
      OBVIOUS
    <2> QED
      BY <2>1, FromBeBytesIs
  <1> DEFINE S == {n \in 0..L : f[n] = g[n]}
  <1>5. 0 \in S
    BY <1>1, <1>2, <1>3
  <1>6. ASSUME NEW n \in 1..L, n - 1 \in S PROVE n \in S
    <2>1. n \in 1..Len(u) /\ n \in 0..L /\ u[n] = s[n]
      BY <1>1
    <2> QED
      BY <1>2, <1>3, <1>6, <2>1
  <1>7. 0..L \subseteq S
    <2> HIDE DEF S
    <2> QED
      BY <1>1, <1>5, <1>6, InductionUpTo
  <1>8. f[L] = g[L]
    BY <1>1, <1>7
  <1>9. L + 1 \in 1..Len(u) /\ (L + 1) - 1 = L /\ L \in 0..L
    BY <1>1
  <1>10. g[L + 1] = g[L] * Base + x
    BY <1>1, <1>3, <1>9
  <1> QED
    BY <1>1, <1>2, <1>3, <1>4, <1>8, <1>9, <1>10 DEF u

\* A number is read from any octets.
LEMMA FromBeBytesType ==
    ASSUME NEW s \in Seq(Nat)
    PROVE  FromBeBytes(s) \in Nat
  <1>1. Len(s) \in Nat /\ Len(s) \in 0..Len(s)
    OBVIOUS
  <1> QED
    BY <1>1, FromBeBytesIs

\* What SubSeq gives from an index on.
LEMMA FromIs ==
    ASSUME NEW A, NEW s \in Seq(A), NEW j \in 1..(Len(s) + 1)
    PROVE  /\ From(s, j) \in Seq(A) /\ Len(From(s, j)) = Len(s) + 1 - j
           /\ \A i \in 1..(Len(s) + 1 - j) : From(s, j)[i] = s[j + i - 1]
  BY DEF From

LEMMA FromFirst ==
    ASSUME NEW A, NEW s \in Seq(A), NEW j \in 1..Len(s)
    PROVE  From(s, j) \in Seq(A) /\ Len(From(s, j)) = Len(s) + 1 - j /\ From(s, j)[1] = s[j]
  BY DEF From

LEMMA FromSecond ==
    ASSUME NEW A, NEW s \in Seq(A), Len(s) >= 2
    PROVE  From(s, 2) \in Seq(A) /\ Len(From(s, 2)) = Len(s) - 1 /\ From(s, 2)[1] = s[2]
  BY DEF From

\* The value of octets lies below the power of their number.
LEMMA FromBeBytesBound ==
    ASSUME NEW s \in Seq(Octets)
    PROVE  FromBeBytes(s) \in 0..(Power(Base, Len(s)) - 1)
  <1> DEFINE S == {n \in Nat : \A t \in Seq(Octets) :
                       Len(t) = n => FromBeBytes(t) \in 0..(Power(Base, n) - 1)}
  <1>0. Base \in Nat \ {0}
    BY Limits
  <1>1. 0 \in S
    <2>1. \A t \in Seq(Octets) : Len(t) = 0 => t = <<>>
      BY EmptySeq
    <2>2. FromBeBytes(<<>>) = 0
      <3>1. <<>> \in Seq(Nat) /\ 0 \in Nat
        OBVIOUS
      <3> QED
        BY <3>1, FromBeBytesAppend
    <2>3. Power(Base, 0) = 1
      BY <1>0, Powers
    <2> QED
      BY <2>1, <2>2, <2>3
  <1>2. ASSUME NEW n \in Nat, n \in S PROVE n + 1 \in S
    <2> SUFFICES ASSUME NEW t \in Seq(Octets), Len(t) = n + 1
                 PROVE  FromBeBytes(t) \in 0..(Power(Base, n + 1) - 1)
      OBVIOUS
    <2> DEFINE u == SubSeq(t, 1, n)
               x == t[n + 1]
    <2>1. u \in Seq(Octets) /\ Len(u) = n /\ x \in Octets /\ t = Append(u, x)
      <3>1. u \in Seq(Octets) /\ Len(u) = n /\ x \in Octets /\ \A i \in 1..n : u[i] = t[i]
        OBVIOUS
      <3> HIDE DEF u
      <3>2. t = Append(u, x)
        BY <3>1
      <3> QED
        BY <3>1, <3>2
    <2> HIDE DEF u, x
    <2>2. FromBeBytes(u) \in 0..(Power(Base, n) - 1)
      BY <1>2, <2>1
    <2>3. u \in Seq(Nat) /\ x \in Nat /\ x <= Base - 1
      BY <2>1, OctetSequences, Limits DEF Octets
    <2>4. FromBeBytes(t) = FromBeBytes(u) * Base + x
      BY <2>1, <2>3, FromBeBytesAppend
    <2>5. Power(Base, n + 1) = Base * Power(Base, n) /\ Power(Base, n) \in Nat \ {0}
      BY <1>0, Powers
    <2>6. ASSUME NEW v \in Nat, NEW p \in Nat \ {0}, v <= p - 1
          PROVE  v * Base + x \in 0..(Base * p - 1)
      <3>1. v * Base <= (p - 1) * Base
        BY <1>0, <2>6
      <3>2. (p - 1) * Base = Base * p - Base
        BY <1>0
      <3> QED
        BY <1>0, <2>3, <3>1, <3>2
    <2> QED
      BY <2>2, <2>4, <2>5, <2>6
  <1>3. Nat \subseteq S
    <2> HIDE DEF S
    <2> QED
      BY <1>1, <1>2, NaturalInduction
  <1> QED
    BY <1>3

\* The first octet counts for its power.
LEMMA FromBeBytesFront ==
    ASSUME NEW s \in Seq(Octets), s # <<>>
    PROVE  FromBeBytes(s) = s[1] * Power(Base, Len(s) - 1) + FromBeBytes(From(s, 2))
  <1> DEFINE S == {n \in Nat : \A t \in Seq(Octets) : Len(t) = n + 1 =>
                       FromBeBytes(t) = t[1] * Power(Base, n) + FromBeBytes(From(t, 2))}
  <1>0. Base \in Nat \ {0}
    BY Limits
  <1>1. 0 \in S
    <2> SUFFICES ASSUME NEW t \in Seq(Octets), Len(t) = 1
                 PROVE  FromBeBytes(t) = t[1] * Power(Base, 0) + FromBeBytes(From(t, 2))
      OBVIOUS
    <2>1. t = Append(<<>>, t[1]) /\ From(t, 2) = <<>>
      BY DEF From
    <2>2. t[1] \in Nat
      <3>1. 1 \in 1..Len(t)
        OBVIOUS
      <3> QED
        BY <3>1, OctetSequences
    <2>3. FromBeBytes(<<>>) = 0 /\ FromBeBytes(Append(<<>>, t[1])) = FromBeBytes(<<>>) * Base + t[1]
      <3>1. <<>> \in Seq(Nat)
        OBVIOUS
      <3> QED
        BY <2>2, <3>1, FromBeBytesAppend
    <2>4. Power(Base, 0) = 1
      BY <1>0, Powers
    <2> QED
      BY <1>0, <2>1, <2>2, <2>3, <2>4
  <1>2. ASSUME NEW n \in Nat, n \in S PROVE n + 1 \in S
    <2> SUFFICES ASSUME NEW t \in Seq(Octets), Len(t) = n + 2
                 PROVE  FromBeBytes(t) = t[1] * Power(Base, n + 1) + FromBeBytes(From(t, 2))
      OBVIOUS
    <2> DEFINE u == SubSeq(t, 1, n + 1)
               x == t[n + 2]
    <2>1. /\ u \in Seq(Octets) /\ Len(u) = n + 1 /\ x \in Octets /\ t = Append(u, x)
          /\ u[1] = t[1] /\ From(t, 2) = Append(From(u, 2), x) /\ From(u, 2) \in Seq(Octets)
      <3>1. u \in Seq(Octets) /\ Len(u) = n + 1 /\ x \in Octets /\ \A i \in 1..(n + 1) : u[i] = t[i]
        OBVIOUS
      <3> HIDE DEF u
      <3>2. t = Append(u, x)
        BY <3>1
      <3>3. From(u, 2) \in Seq(Octets) /\ Len(From(u, 2)) = n
            /\ \A i \in 1..n : From(u, 2)[i] = u[i + 1]
        BY <3>1 DEF From
      <3>4. From(t, 2) \in Seq(Octets) /\ Len(From(t, 2)) = n + 1
            /\ \A i \in 1..(n + 1) : From(t, 2)[i] = t[i + 1]
        BY DEF From
      <3>5. ASSUME NEW i \in 1..(n + 1) PROVE From(t, 2)[i] = Append(From(u, 2), x)[i]
        <4>1. CASE i = n + 1
          BY <3>3, <3>4, <4>1 DEF x
        <4>2. CASE i # n + 1
          <5>1. i \in 1..n /\ i + 1 \in 1..(n + 1)
            BY <4>2
          <5> QED
            BY <3>1, <3>3, <3>4, <5>1
        <4> QED
          BY <4>1, <4>2
      <3>6. From(t, 2) = Append(From(u, 2), x)
        BY <3>1, <3>3, <3>4, <3>5
      <3> QED
        BY <3>1, <3>2, <3>3, <3>6
    <2> HIDE DEF u, x
    <2>2. FromBeBytes(u) = t[1] * Power(Base, n) + FromBeBytes(From(u, 2))
      BY <1>2, <2>1
    <2>3. u \in Seq(Nat) /\ From(u, 2) \in Seq(Nat) /\ x \in Nat /\ t[1] \in Nat
      BY <2>1, OctetSequences, Limits
    <2>4. /\ FromBeBytes(t) = FromBeBytes(u) * Base + x
          /\ FromBeBytes(From(t, 2)) = FromBeBytes(From(u, 2)) * Base + x
          /\ FromBeBytes(From(u, 2)) \in Nat
      BY <2>1, <2>3, FromBeBytesAppend
    <2>5. Power(Base, n + 1) = Base * Power(Base, n) /\ Power(Base, n) \in Nat \ {0}
      BY <1>0, Powers
    <2>6. ASSUME NEW v \in Nat, NEW p \in Nat, NEW a \in Nat
          PROVE  (a * p + v) * Base + x = a * (Base * p) + (v * Base + x)
      BY <1>0, <2>3
    <2>7. (t[1] * Power(Base, n) + FromBeBytes(From(u, 2))) * Base + x
              = t[1] * (Base * Power(Base, n)) + (FromBeBytes(From(u, 2)) * Base + x)
      BY <2>3, <2>4, <2>5, <2>6
    <2> QED
      BY <2>2, <2>4, <2>5, <2>7
  <1>3. Nat \subseteq S
    <2> HIDE DEF S
    <2> QED
      BY <1>1, <1>2, NaturalInduction
  <1>4. Len(s) - 1 \in Nat /\ Len(s) = (Len(s) - 1) + 1
    OBVIOUS
  <1> HIDE DEF S
  <1>5. Len(s) - 1 \in S
    BY <1>3, <1>4
  <1> QED
    BY <1>4, <1>5 DEF S

-----------------------------------------------------------------------------
(* Two's complement *)

\* A value by its first octet, the power it counts for and the rest.
LEMMA ByFirstOctet ==
    ASSUME NEW s \in Seq(Octets), s # <<>>
    PROVE  \E p \in Nat \ {0}, r \in Nat :
              /\ p = Power(Base, Len(s) - 1) /\ Power(Base, Len(s)) = Base * p
              /\ r = FromBeBytes(From(s, 2)) /\ r < p
              /\ s[1] \in Octets /\ FromBeBytes(s) = s[1] * p + r
  <1> DEFINE n == Len(s) - 1
             p == Power(Base, n)
             r == FromBeBytes(From(s, 2))
  <1>1. n \in Nat /\ Len(s) = n + 1 /\ 1 \in 1..Len(s) /\ 2 \in 1..(Len(s) + 1) /\ Base \in Nat \ {0}
    BY Limits
  <1> HIDE DEF n
  <1>2. p \in Nat \ {0} /\ Power(Base, Len(s)) = Base * p
    BY <1>1, Powers
  <1>3. From(s, 2) \in Seq(Octets) /\ Len(From(s, 2)) = n
    BY <1>1, FromIs
  <1>4. r \in 0..(p - 1)
    BY <1>3, FromBeBytesBound
  <1>5. FromBeBytes(s) = s[1] * p + r
    BY FromBeBytesFront DEF n
  <1>6. s[1] \in Octets
    BY <1>1, OctetSequences
  <1> HIDE DEF p, r
  <1>7. r \in Nat /\ r < p
    BY <1>2, <1>4
  <1> QED
    BY <1>2, <1>5, <1>6, <1>7 DEF p, r, n

\* Products of small factors, for the provers.
LEMMA Products ==
    ASSUME NEW p \in Nat, NEW a \in Nat, NEW b \in Nat, a <= b
    PROVE  a * p \in Nat /\ a * p <= b * p
  BY SMT

\* A product is not below a factor.
LEMMA Multiple ==
    ASSUME NEW p \in Nat, NEW a \in Nat \ {0}
    PROVE  a * p \in Nat /\ p <= a * p
  <1>1. 1 * p = p /\ 1 <= a
    OBVIOUS
  <1> QED
    BY <1>1, Products

\* Two's complement of m octets, by its sign.
LEMMA TwosComplementRange ==
    ASSUME NEW s \in Seq(Octets), s # <<>>
    PROVE  /\ TwosComplement(s) \in -(Half * Power(Base, Len(s) - 1))..(Half * Power(Base, Len(s) - 1) - 1)
           /\ HighBit(s[1]) <=> TwosComplement(s) < 0
           /\ ~HighBit(s[1]) => TwosComplement(s) = FromBeBytes(s)
  <1>1. PICK p \in Nat \ {0}, r \in Nat :
              /\ p = Power(Base, Len(s) - 1) /\ Power(Base, Len(s)) = Base * p
              /\ r = FromBeBytes(From(s, 2)) /\ r < p
              /\ s[1] \in Octets /\ FromBeBytes(s) = s[1] * p + r
    BY ByFirstOctet
  <1> DEFINE x == s[1]
             F == FromBeBytes(s)
  <1>2. Half \in Nat /\ Half >= 4 /\ Base = 2 * Half /\ x \in 0..(Base - 1)
    BY <1>1, Limits DEF Octets
  <1>3. Base * p = Half * p + Half * p /\ Half * p \in Nat
    BY <1>1, <1>2
  <1>4. CASE ~HighBit(x)
    <2>1. x <= Half - 1 /\ Half - 1 \in Nat /\ x \in Nat
      BY <1>2, <1>4 DEF HighBit
    <2> HIDE DEF x
    <2>2. x * p \in Nat /\ x * p <= (Half - 1) * p
      BY <2>1, Products
    <2>3. (Half - 1) * p = Half * p - p
      BY <1>2
    <2>4. F \in 0..(Half * p - 1)
      BY <1>1, <1>3, <2>2, <2>3 DEF x
    <2>5. TwosComplement(s) = F
      BY <1>4 DEF TwosComplement, x
    <2> HIDE DEF F
    <2> QED
      BY <1>1, <1>3, <1>4, <2>4, <2>5 DEF x, F
  <1>5. CASE HighBit(x)
    <2>1. x >= Half /\ x <= Base - 1 /\ x \in Nat
      BY <1>2, <1>5 DEF HighBit
    <2> HIDE DEF x
    <2>2. x * p \in Nat /\ x * p <= (Base - 1) * p /\ Half * p <= x * p
      BY <1>2, <2>1, Products
    <2>3. (Base - 1) * p = Base * p - p
      BY <1>2
    <2>4. F \in (Half * p)..(Half * p + Half * p - 1)
      BY <1>1, <1>3, <2>2, <2>3 DEF x
    <2>5. TwosComplement(s) = F - (Half * p + Half * p)
      BY <1>1, <1>3, <1>5 DEF TwosComplement, x
    <2> HIDE DEF F
    <2> QED
      BY <1>1, <1>3, <1>5, <2>4, <2>5 DEF x
  <1> QED
    BY <1>4, <1>5

\* The octet a decoder may drop from a number of this sign.
Redundant(s) == IF HighBit(s[1]) THEN Base - 1 ELSE 0

\* Dropping a repetition of the sign changes nothing.
LEMMA DropSign ==
    ASSUME NEW s \in Seq(Octets), Len(s) >= 2, s[1] = Redundant(s), HighBit(s[2]) <=> HighBit(s[1])
    PROVE  TwosComplement(From(s, 2)) = TwosComplement(s)
  <1>1. s # <<>> /\ Len(s) \in Nat /\ 2 \in 1..(Len(s) + 1)
    OBVIOUS
  <1>2. PICK p \in Nat \ {0}, r \in Nat :
              /\ p = Power(Base, Len(s) - 1) /\ Power(Base, Len(s)) = Base * p
              /\ r = FromBeBytes(From(s, 2)) /\ r < p
              /\ s[1] \in Octets /\ FromBeBytes(s) = s[1] * p + r
    BY <1>1, ByFirstOctet
  <1>3. Len(From(s, 2)) = Len(s) - 1 /\ From(s, 2)[1] = s[2]
    BY FromSecond
  <1>4. Half \in Nat /\ Base = 2 * Half /\ Base \in Nat
    BY Limits
  <1>5. CASE HighBit(s[1])
    <2>1. TwosComplement(From(s, 2)) = r - p
      BY <1>2, <1>3, <1>5 DEF TwosComplement
    <2>2. s[1] = Base - 1
      BY <1>5 DEF Redundant
    <2>3. (Base - 1) * p = Base * p - p
      BY <1>4
    <2>4. TwosComplement(s) = ((Base - 1) * p + r) - Base * p
      BY <1>2, <1>5, <2>2 DEF TwosComplement
    <2> QED
      BY <1>2, <1>4, <2>1, <2>3, <2>4
  <1>6. CASE ~HighBit(s[1])
    <2>1. TwosComplement(From(s, 2)) = r
      BY <1>2, <1>3, <1>6 DEF TwosComplement
    <2>2. s[1] = 0
      BY <1>6 DEF Redundant
    <2>3. TwosComplement(s) = 0 * p + r
      BY <1>2, <1>6, <2>2 DEF TwosComplement
    <2> QED
      BY <1>2, <2>1, <2>3
  <1> QED
    BY <1>5, <1>6

LEMMA BelowHalf ==
    ASSUME NEW bp \in Nat, NEW p \in Nat, NEW hq \in Nat, NEW r \in Nat, p = hq + hq, r < hq,
           NEW xp, xp = bp - p, NEW t, t = (xp + r) - bp
    PROVE  t \notin -hq..(hq - 1)
  <1>1. t = r - p
    OBVIOUS
  <1> QED
    BY <1>1

\* A number without such a repetition does not fit fewer octets.
LEMMA NoSignToDrop ==
    ASSUME NEW s \in Seq(Octets), Len(s) >= 2, s[1] # Redundant(s) \/ ~(HighBit(s[2]) <=> HighBit(s[1]))
    PROVE  TwosComplement(s) \notin -(Half * Power(Base, Len(s) - 2))..(Half * Power(Base, Len(s) - 2) - 1)
  <1> DEFINE t == From(s, 2)
  <1>1. s # <<>> /\ Len(s) \in Nat /\ 2 \in 1..(Len(s) + 1)
    OBVIOUS
  <1>2. PICK p \in Nat \ {0}, r \in Nat :
              /\ p = Power(Base, Len(s) - 1) /\ Power(Base, Len(s)) = Base * p
              /\ r = FromBeBytes(t) /\ r < p
              /\ s[1] \in Octets /\ FromBeBytes(s) = s[1] * p + r
    BY <1>1, ByFirstOctet
  <1>3. t \in Seq(Octets) /\ Len(t) = Len(s) - 1 /\ t[1] = s[2] /\ t # <<>>
    <2>2. t \in Seq(Octets) /\ Len(t) = Len(s) - 1 /\ t[1] = s[2]
      BY FromSecond
    <2> HIDE DEF t
    <2> QED
      BY <2>2
  <1> HIDE DEF t
  <1>4. PICK q \in Nat \ {0}, w \in Nat :
              /\ q = Power(Base, Len(t) - 1) /\ Power(Base, Len(t)) = Base * q
              /\ w < q
              /\ t[1] \in Octets /\ FromBeBytes(t) = t[1] * q + w
    BY <1>3, ByFirstOctet
  <1> DEFINE x == s[1]
             y == s[2]
  <1>5. Half \in Nat /\ Half >= 4 /\ Base = 2 * Half /\ x \in 0..(Base - 1) /\ y \in 0..(Base - 1)
    BY <1>2, <1>3, <1>4, Limits DEF Octets
  <1>6. p = Half * q + Half * q /\ Half * q \in Nat /\ q <= Half * q /\ Len(t) - 1 = Len(s) - 2
    <2>1. p = Base * q
      BY <1>2, <1>3, <1>4
    <2>2. Base * q = Half * q + Half * q
      BY <1>4, <1>5
    <2>3. Half * q \in Nat /\ q <= Half * q
      <3>1. q \in Nat /\ Half \in Nat \ {0}
        BY <1>4, <1>5
      <3> QED
        BY <3>1, Multiple
    <2> QED
      BY <1>1, <1>3, <2>1, <2>2, <2>3
  <1>7. r = y * q + w /\ y * q \in Nat
    <2>1. r = y * q + w
      BY <1>2, <1>3, <1>4
    <2>2. y \in Nat
      BY <1>5
    <2> HIDE DEF y
    <2> QED
      BY <1>4, <2>1, <2>2
  <1>8. Half * q = Half * Power(Base, Len(s) - 2)
    BY <1>4, <1>6
  <1>9. CASE ~HighBit(x)
    <2>1. TwosComplement(s) = x * p + r
      BY <1>2, <1>9 DEF TwosComplement
    <2>2. CASE x # 0
      <3>1. x * p \in Nat /\ p <= x * p
        <4>1. x \in Nat \ {0}
          BY <1>5, <2>2
        <4> HIDE DEF x
        <4> QED
          BY <1>2, <4>1, Multiple
      <3>2. x * p + r >= Half * q
        BY <1>2, <1>6, <3>1
      <3> HIDE DEF x
      <3> QED
        BY <1>6, <1>8, <2>1, <3>1, <3>2
    <2>3. CASE x = 0
      <3>1. HighBit(y)
        BY <1>9, <2>3 DEF Redundant
      <3>2. Half * q <= y * q
        <4>1. Half <= y /\ y \in Nat
          BY <1>5, <3>1 DEF HighBit
        <4> HIDE DEF y
        <4> QED
          BY <1>4, <1>5, <4>1, Products
      <3>3. x * p = 0
        BY <1>2, <2>3
      <3>4. x * p + r >= Half * q
        BY <1>4, <1>6, <1>7, <3>2, <3>3
      <3> HIDE DEF x
      <3> QED
        BY <1>2, <1>6, <1>8, <2>1, <3>3, <3>4
    <2> QED
      BY <2>2, <2>3
  <1>10. CASE HighBit(x)
    <2>1. TwosComplement(s) = (x * p + r) - Base * p
      BY <1>2, <1>10 DEF TwosComplement
    <2>2. CASE x # Base - 1
      <3>1. x <= Base - 2 /\ Base - 2 \in Nat /\ x \in Nat
        BY <1>5, <2>2
      <3> HIDE DEF x
      <3>2. x * p \in Nat /\ x * p <= (Base - 2) * p
        BY <1>2, <3>1, Products
      <3>3. (Base - 2) * p = Base * p - p - p /\ Base * p \in Nat
        BY <1>2, <1>5
      <3> DEFINE xp == x * p
                 bp == Base * p
                 hq == Half * q
      <3>4. xp \in Nat /\ bp \in Nat /\ hq \in Nat /\ xp <= bp - p - p /\ p = hq + hq
            /\ TwosComplement(s) = (xp + r) - bp
        BY <1>6, <2>1, <3>2, <3>3
      <3> HIDE DEF xp, bp, hq
      <3>5. TwosComplement(s) < -hq /\ TwosComplement(s) \in Int
        BY <1>2, <3>4
      <3> QED
        <4>1. hq = Half * Power(Base, Len(s) - 2)
          BY <1>8 DEF hq
        <4>2. TwosComplement(s) \notin -hq..(hq - 1)
          BY <3>4, <3>5
        <4> QED
          BY <4>1, <4>2
    <2>3. CASE x = Base - 1
      <3>1. ~HighBit(y)
        BY <1>10, <2>3 DEF Redundant
      <3>2. y <= Half - 1 /\ Half - 1 \in Nat /\ y \in Nat
        BY <1>5, <3>1 DEF HighBit
      <3> HIDE DEF y
      <3>3. y * q <= (Half - 1) * q
        BY <1>4, <3>2, Products
      <3>4. (Half - 1) * q = Half * q - q
        BY <1>4, <1>5
      <3>5. r < Half * q
        BY <1>4, <1>6, <1>7, <3>3, <3>4
      <3>6. x * p = Base * p - p /\ Base * p \in Nat
        BY <1>2, <1>5, <2>3
      <3> DEFINE xp == x * p
                 bp == Base * p
                 hq == Half * q
      <3>7. xp = bp - p /\ bp \in Nat /\ hq \in Nat /\ p = hq + hq /\ r < hq
            /\ TwosComplement(s) = (xp + r) - bp
        BY <1>6, <2>1, <3>5, <3>6
      <3> HIDE DEF xp, bp, hq
      <3>8. TwosComplement(s) \notin -hq..(hq - 1)
        BY <3>7, BelowHalf
      <3>9. hq = Half * Power(Base, Len(s) - 2)
        BY <1>8 DEF hq
      <3> QED
        BY <3>8, <3>9
    <2> QED
      BY <2>2, <2>3
  <1> QED
    BY <1>9, <1>10

\* From an index on, and one further.
LEMMA FromNext ==
    ASSUME NEW A, NEW s \in Seq(A), NEW n \in 1..(Len(s) - 1)
    PROVE  /\ From(s, n) \in Seq(A) /\ Len(From(s, n)) = Len(s) + 1 - n /\ Len(From(s, n)) >= 2
           /\ From(s, n)[1] = s[n] /\ From(s, n)[2] = s[n + 1]
           /\ From(From(s, n), 2) = From(s, n + 1)
  <1> DEFINE t == From(s, n)
             u == From(s, n + 1)
  <1>1. t \in Seq(A) /\ Len(t) = Len(s) + 1 - n /\ \A i \in 1..(Len(s) + 1 - n) : t[i] = s[n + i - 1]
    BY DEF From
  <1>2. u \in Seq(A) /\ Len(u) = Len(s) - n /\ \A i \in 1..(Len(s) - n) : u[i] = s[n + i]
    BY DEF From
  <1> HIDE DEF t, u
  <1>3. Len(t) >= 2 /\ t[1] = s[n] /\ t[2] = s[n + 1]
    BY <1>1
  <1>4. From(t, 2) \in Seq(A) /\ Len(From(t, 2)) = Len(s) - n
        /\ \A i \in 1..(Len(s) - n) : From(t, 2)[i] = t[i + 1]
    BY <1>1, <1>3 DEF From
  <1>5. ASSUME NEW i \in 1..(Len(s) - n) PROVE From(t, 2)[i] = u[i]
    <2>1. i + 1 \in 1..(Len(s) + 1 - n) /\ n + (i + 1) - 1 = n + i
      OBVIOUS
    <2> QED
      BY <1>1, <1>2, <1>4, <2>1
  <1>6. From(t, 2) = u
    BY <1>2, <1>4, <1>5
  <1> QED
    BY <1>1, <1>3, <1>6 DEF t, u

\* Dropping any number of repetitions of the sign.
LEMMA DropSigns ==
    ASSUME NEW s \in Seq(Octets), s # <<>>, NEW k \in 1..Len(s),
           \A i \in 1..(k - 1) : s[i] = Redundant(s) /\ (HighBit(s[i + 1]) <=> HighBit(s[1]))
    PROVE  TwosComplement(From(s, k)) = TwosComplement(s) /\ (HighBit(s[k]) <=> HighBit(s[1]))
  <1> DEFINE S == {n \in 0..(k - 1) : /\ TwosComplement(From(s, n + 1)) = TwosComplement(s)
                                      /\ HighBit(s[n + 1]) <=> HighBit(s[1])}
  <1>1. 0 \in S
    <2>1. From(s, 1) = s
      BY DEF From
    <2> QED
      BY <2>1
  <1>2. ASSUME NEW n \in 1..(k - 1), n - 1 \in S PROVE n \in S
    <2> DEFINE t == From(s, n)
    <2>1. (n - 1) + 1 = n /\ n \in 1..(Len(s) - 1)
      OBVIOUS
    <2>2. TwosComplement(t) = TwosComplement(s) /\ (HighBit(s[n]) <=> HighBit(s[1]))
      BY <1>2, <2>1
    <2>3. /\ t \in Seq(Octets) /\ Len(t) >= 2 /\ t[1] = s[n] /\ t[2] = s[n + 1]
          /\ From(t, 2) = From(s, n + 1)
      BY <2>1, FromNext
    <2> HIDE DEF t
    <2>4. Redundant(t) = Redundant(s)
      BY <2>2, <2>3 DEF Redundant
    <2>5. TwosComplement(From(t, 2)) = TwosComplement(t)
      BY <2>2, <2>3, <2>4, DropSign
    <2> QED
      BY <2>2, <2>3, <2>5
  <1>3. 0..(k - 1) \subseteq S
    <2>1. k - 1 \in Nat
      OBVIOUS
    <2> HIDE DEF S
    <2> QED
      BY <1>1, <1>2, <2>1, InductionUpTo
  <1>4. k - 1 \in 0..(k - 1) /\ (k - 1) + 1 = k
    OBVIOUS
  <1> HIDE DEF S
  <1>5. k - 1 \in S
    BY <1>3, <1>4
  <1> QED
    BY <1>4, <1>5 DEF S

\* take_while stops at the first other octet, or at the last octet.
LEMMA LeadingCountIs ==
    ASSUME NEW A, NEW s \in Seq(A), s # <<>>, NEW o
    PROVE  /\ LeadingCount(s, o) \in 0..(Len(s) - 1)
           /\ \A j \in 1..LeadingCount(s, o) : s[j] = o
           /\ LeadingCount(s, o) < Len(s) - 1 => s[LeadingCount(s, o) + 1] # o
  <1> DEFINE n == Len(s) - 1
             Z == {k \in 1..n : \A j \in 1..k : s[j] = o}
             bad == {j \in 1..n : s[j] # o}
  <1>1. n \in Nat
    OBVIOUS
  <1>2. LeadingCount(s, o) = Cardinality(Z)
    BY DEF LeadingCount
  <1>3. \A k \in Nat : Cardinality(1..k) = k
    BY FS_Interval
  <1>4. CASE bad = {}
    <2>1. Z = 1..n
      BY <1>1, <1>4
    <2> HIDE DEF Z, n, bad
    <2>2. LeadingCount(s, o) = n
      BY <1>1, <1>2, <1>3, <2>1
    <2>3. \A j \in 1..n : s[j] = o
      BY <1>4 DEF bad
    <2> QED
      BY <1>1, <2>2, <2>3 DEF n
  <1>5. CASE bad # {}
    <2>1. PICK b \in bad : \A j \in bad : b <= j
      <3>1. bad \subseteq Nat
        OBVIOUS
      <3> HIDE DEF bad
      <3> QED
        BY <1>5, <3>1, LeastNatural
    <2>2. b \in 1..n /\ s[b] # o /\ \A j \in 1..(b - 1) : s[j] = o
      BY <1>1, <2>1
    <2>3. Z = 1..(b - 1)
      <3>1. ASSUME NEW k \in Z PROVE k \in 1..(b - 1)
        BY <1>1, <2>2, <3>1
      <3>2. ASSUME NEW k \in 1..(b - 1) PROVE k \in Z
        BY <1>1, <2>2
      <3> HIDE DEF Z
      <3> QED
        BY <3>1, <3>2
    <2> HIDE DEF Z, bad
    <2>4. LeadingCount(s, o) = b - 1
      <3>1. b - 1 \in Nat
        BY <2>2
      <3> QED
        BY <1>2, <1>3, <2>3, <3>1
    <2> QED
      BY <1>1, <2>2, <2>4
  <1> QED
    BY <1>4, <1>5

\* Half a word.
LEMMA WordIs ==
    ASSUME NEW n \in Nat \ {0}
    PROVE  /\ Power(Base, n) = 2 * (Half * Power(Base, n - 1))
           /\ Power(Base, n) \div 2 = Half * Power(Base, n - 1)
           /\ Half * Power(Base, n - 1) \in Nat \ {0}
           /\ Power(Base, n - 1) \in Nat \ {0}
  <1>1. Half \in Nat \ {0} /\ Base = 2 * Half /\ Base \in Nat \ {0}
    BY Limits
  <1>2. n - 1 \in Nat /\ (n - 1) + 1 = n
    OBVIOUS
  <1>3. Power(Base, n - 1) \in Nat \ {0} /\ Power(Base, (n - 1) + 1) = Base * Power(Base, n - 1)
    BY <1>1, <1>2, Powers
  <1>4. ASSUME NEW p \in Nat \ {0}
        PROVE  /\ Base * p = 2 * (Half * p) /\ Half * p \in Nat \ {0}
               /\ (2 * (Half * p)) \div 2 = Half * p
    BY <1>1
  <1> QED
    BY <1>2, <1>3, <1>4

\* decode_signed_i32 reads what the octets mean, or fails.
LEMMA DecodeSignedExact ==
    ASSUME NEW s \in Seq(Octets), s # <<>>
    PROVE  DecodeSigned(s) = IF TwosComplement(s) \in -(Word \div 2)..(Word \div 2 - 1)
                             THEN Ok(TwosComplement(s)) ELSE Error
  <1> DEFINE negative == HighBit(s[1])
             kept == {i \in 1..(Len(s) - 1) : s[i] # Redundant(s) \/ HighBit(s[i + 1]) # negative}
             k == IF kept = {} THEN Len(s) ELSE CHOOSE i \in kept : \A j \in kept : i <= j
             t == From(s, k)
  <1>1. Len(s) \in Nat \ {0}
    OBVIOUS
  <1>2. /\ k \in 1..Len(s)
        /\ \A i \in 1..(k - 1) : i \notin kept
        /\ k # Len(s) => k \in kept
    <2>1. CASE kept = {}
      <3> HIDE DEF kept
      <3>1. k = Len(s)
        BY <2>1
      <3> HIDE DEF k
      <3> QED
        BY <1>1, <2>1, <3>1
    <2>2. CASE kept # {}
      <3>1. kept \subseteq Nat
        OBVIOUS
      <3>2. kept \subseteq 1..Len(s)
        BY <1>1
      <3> HIDE DEF kept
      <3>3. \E i \in kept : \A j \in kept : i <= j
        BY <2>2, <3>1, LeastNatural
      <3>4. k \in kept /\ \A j \in kept : k <= j
        BY <2>2, <3>3
      <3> HIDE DEF k
      <3> QED
        BY <1>1, <3>2, <3>4
    <2> QED
      BY <2>1, <2>2
  <1> HIDE DEF k
  <1>3. \A i \in 1..(k - 1) : s[i] = Redundant(s) /\ (HighBit(s[i + 1]) <=> HighBit(s[1]))
    <2> SUFFICES ASSUME NEW i \in 1..(k - 1)
                 PROVE  s[i] = Redundant(s) /\ (HighBit(s[i + 1]) <=> HighBit(s[1]))
      OBVIOUS
    <2>1. i \in 1..(Len(s) - 1) /\ i \notin kept
      BY <1>1, <1>2
    <2> QED
      BY <2>1 DEF HighBit
  <1>4. TwosComplement(t) = TwosComplement(s) /\ (HighBit(s[k]) <=> HighBit(s[1]))
    BY <1>2, <1>3, DropSigns
  <1>5. t \in Seq(Octets) /\ Len(t) = Len(s) + 1 - k /\ t # <<>> /\ t[1] = s[k]
    <2>1. k \in 1..(Len(s) + 1) /\ 1 \in 1..(Len(s) + 1 - k) /\ k + 1 - 1 = k
      BY <1>1, <1>2
    <2>2. t \in Seq(Octets) /\ Len(t) = Len(s) + 1 - k /\ t[1] = s[k]
      BY <2>1, FromIs
    <2> HIDE DEF t
    <2> QED
      BY <1>1, <1>2, <2>2
  <1>6. DecodeSigned(s) = IF Len(t) > WordOctets THEN Error ELSE Ok(TwosComplement(t))
    BY DEF DecodeSigned, Redundant, TwosComplement, k
  <1> DEFINE n == TwosComplement(s)
             m == Len(t)
             h(j) == Half * Power(Base, j)
  <1>7. WordOctets \in Nat \ {0} /\ m \in Nat \ {0} /\ Word \div 2 = h(WordOctets - 1)
        /\ h(WordOctets - 1) \in Nat /\ Half \in Nat /\ Base \in Nat \ {0}
    <2>1. WordOctets \in Nat \ {0}
      BY BerAssumption DEF BerAssumption
    <2>2. m \in Nat \ {0}
      <3> HIDE DEF t
      <3> QED
        BY <1>5
    <2>3. Word \div 2 = h(WordOctets - 1) /\ h(WordOctets - 1) \in Nat
      BY <2>1, WordIs DEF Word
    <2>4. Half \in Nat /\ Base \in Nat \ {0}
      BY Limits
    <2> QED
      BY <2>1, <2>2, <2>3, <2>4
  <1>8. \A i, j \in Nat : i <= j => h(i) <= h(j) /\ h(i) \in Nat /\ h(j) \in Nat
    <2> SUFFICES ASSUME NEW i \in Nat, NEW j \in Nat, i <= j
                 PROVE  h(i) <= h(j) /\ h(i) \in Nat /\ h(j) \in Nat
      OBVIOUS
    <2>1. Power(Base, i) \in Nat /\ Power(Base, j) \in Nat /\ Power(Base, i) <= Power(Base, j)
      BY <1>7, Powers, PowersGrow
    <2>2. ASSUME NEW a \in Nat, NEW b \in Nat, a <= b
          PROVE  Half * a <= Half * b /\ Half * a \in Nat /\ Half * b \in Nat
      BY <1>7, <2>2
    <2> QED
      BY <2>1, <2>2
  <1>9. n \in -h(m - 1)..(h(m - 1) - 1)
    BY <1>4, <1>5, TwosComplementRange
  <1>10. CASE m <= WordOctets
    <2>1. h(m - 1) <= h(WordOctets - 1) /\ h(m - 1) \in Nat
      <3>1. m - 1 \in Nat /\ WordOctets - 1 \in Nat /\ m - 1 <= WordOctets - 1
        <4> HIDE DEF m
        <4> QED
          BY <1>7, <1>10
      <3> HIDE DEF m, h
      <3> QED
        BY <1>8, <3>1
    <2> HIDE DEF n, m, h
    <2>2. n \in -h(WordOctets - 1)..(h(WordOctets - 1) - 1)
      BY <1>7, <1>9, <2>1
    <2>3. DecodeSigned(s) = Ok(n)
      BY <1>4, <1>6, <1>7, <1>10 DEF n, m
    <2> QED
      BY <1>7, <2>2, <2>3 DEF n
  <1>11. CASE m > WordOctets
    <2>1. m >= 2 /\ k # Len(s) /\ m - 2 \in Nat /\ WordOctets - 1 <= m - 2 /\ WordOctets - 1 \in Nat
      BY <1>1, <1>2, <1>5, <1>7, <1>11
    <2>2. t[2] = s[k + 1] /\ Redundant(t) = Redundant(s)
      <3>1. k \in 1..(Len(s) - 1)
        BY <1>1, <1>2, <2>1
      <3> QED
        BY <1>4, <1>5, <3>1, FromNext DEF Redundant
    <2>3. t[1] # Redundant(t) \/ ~(HighBit(t[2]) <=> HighBit(t[1]))
      BY <1>2, <1>4, <1>5, <2>1, <2>2 DEF HighBit
    <2>4. n \notin -h(m - 2)..(h(m - 2) - 1)
      <3> HIDE DEF t
      <3> QED
        BY <1>4, <1>5, <2>1, <2>3, NoSignToDrop
    <2>5. h(WordOctets - 1) <= h(m - 2) /\ h(m - 2) \in Nat
      BY <1>8, <2>1
    <2>6. n \in Int
      BY <1>4, <1>5, TwosComplementRange
    <2> HIDE DEF n, m, h
    <2>7. n \notin -h(WordOctets - 1)..(h(WordOctets - 1) - 1)
      BY <1>7, <2>4, <2>5, <2>6
    <2>8. DecodeSigned(s) = Error
      BY <1>6, <1>11 DEF m
    <2> QED
      BY <1>7, <2>7, <2>8 DEF n
  <1> QED
    BY <1>7, <1>10, <1>11

\* Dropping leading zeros changes no unsigned value.
LEMMA DropZeros ==
    ASSUME NEW s \in Seq(Octets), s # <<>>, NEW k \in 1..Len(s), \A i \in 1..(k - 1) : s[i] = 0
    PROVE  FromBeBytes(From(s, k)) = FromBeBytes(s)
  <1> DEFINE S == {n \in 0..(k - 1) : FromBeBytes(From(s, n + 1)) = FromBeBytes(s)}
  <1>1. 0 \in S
    <2>1. From(s, 1) = s
      BY DEF From
    <2> QED
      BY <2>1
  <1>2. ASSUME NEW n \in 1..(k - 1), n - 1 \in S PROVE n \in S
    <2> DEFINE t == From(s, n)
    <2>1. (n - 1) + 1 = n /\ n \in 1..(Len(s) - 1)
      OBVIOUS
    <2>2. FromBeBytes(t) = FromBeBytes(s)
      BY <1>2, <2>1
    <2>3. t \in Seq(Octets) /\ Len(t) >= 2 /\ t[1] = 0 /\ From(t, 2) = From(s, n + 1)
      BY <2>1, FromNext
    <2> HIDE DEF t
    <2>4. t # <<>>
      BY <2>3
    <2>5. PICK p \in Nat \ {0}, r \in Nat : r = FromBeBytes(From(t, 2)) /\ FromBeBytes(t) = t[1] * p + r
      BY <2>3, <2>4, ByFirstOctet
    <2>6. FromBeBytes(From(t, 2)) = FromBeBytes(t)
      BY <2>3, <2>5
    <2> QED
      BY <2>2, <2>3, <2>6
  <1>3. 0..(k - 1) \subseteq S
    <2>1. k - 1 \in Nat
      OBVIOUS
    <2> HIDE DEF S
    <2> QED
      BY <1>1, <1>2, <2>1, InductionUpTo
  <1>4. k - 1 \in 0..(k - 1) /\ (k - 1) + 1 = k
    OBVIOUS
  <1> HIDE DEF S
  <1>5. k - 1 \in S
    BY <1>3, <1>4
  <1> QED
    BY <1>4, <1>5 DEF S

\* decode_unsigned reads what the octets mean, or fails.
LEMMA DecodeUnsignedExact ==
    ASSUME NEW s \in Seq(Octets), s # <<>>, NEW width \in Nat \ {0}
    PROVE  DecodeUnsigned(s, width) = IF TwosComplement(s) \in 0..(Power(Base, width) - 1)
                                      THEN Ok(TwosComplement(s)) ELSE Error
  <1> DEFINE c == LeadingCount(s, 0)
             t == From(s, c + 1)
             n == TwosComplement(s)
             room == Power(Base, width)
  <1>1. Len(s) \in Nat \ {0} /\ Base \in Nat \ {0}
    BY Limits
  <1>2. c \in 0..(Len(s) - 1) /\ (\A j \in 1..c : s[j] = 0) /\ (c < Len(s) - 1 => s[c + 1] # 0)
    BY LeadingCountIs
  <1> HIDE DEF c
  <1>3. c + 1 \in 1..Len(s) /\ c + 1 \in 1..(Len(s) + 1) /\ (c + 1) - 1 = c
    BY <1>1, <1>2
  <1>4. FromBeBytes(t) = FromBeBytes(s)
    BY <1>2, <1>3, DropZeros
  <1>5. t \in Seq(Octets) /\ Len(t) = Len(s) - c /\ t[1] = s[c + 1]
    <2>1. Len(s) + 1 - (c + 1) = Len(s) - c
      BY <1>1, <1>2
    <2> QED
      BY <1>3, <2>1, FromFirst
  <1>6. DecodeUnsigned(s, width)
            = IF HighBit(s[1]) \/ Len(t) > width THEN Error ELSE Ok(FromBeBytes(t))
    BY DEF DecodeUnsigned, c
  <1> HIDE DEF t
  <1>7. Len(t) \in Nat \ {0} /\ t # <<>> /\ room \in Nat \ {0}
    <2>1. Len(t) \in Nat \ {0}
      BY <1>1, <1>2, <1>5
    <2>2. room \in Nat \ {0}
      BY <1>1, Powers
    <2> QED
      BY <2>1, <2>2
  <1>8. CASE HighBit(s[1])
    <2>1. n < 0 /\ n \in Int
      BY <1>8, TwosComplementRange
    <2> HIDE DEF n
    <2>2. n \notin 0..(room - 1)
      BY <2>1
    <2> QED
      BY <1>6, <1>8, <2>2 DEF n
  <1>9. CASE ~HighBit(s[1])
    <2>1. n = FromBeBytes(t)
      BY <1>4, <1>9, TwosComplementRange
    <2>2. CASE Len(t) <= width
      <3>1. FromBeBytes(t) \in 0..(Power(Base, Len(t)) - 1)
        BY <1>5, FromBeBytesBound
      <3>2. Power(Base, Len(t)) <= room /\ Power(Base, Len(t)) \in Nat
        BY <1>1, <1>7, <2>2, Powers, PowersGrow
      <3> HIDE DEF n, room
      <3>3. n \in 0..(room - 1)
        BY <1>7, <2>1, <3>1, <3>2
      <3>4. ~(Len(t) > width)
        BY <1>7, <2>2
      <3> QED
        BY <1>6, <1>9, <2>1, <3>3, <3>4 DEF n, room
    <2>3. CASE Len(t) > width
      <3>1. PICK p \in Nat \ {0}, r \in Nat :
                /\ p = Power(Base, Len(t) - 1) /\ t[1] \in Octets /\ FromBeBytes(t) = t[1] * p + r
        BY <1>5, <1>7, ByFirstOctet
      <3>2. t[1] # 0 /\ t[1] \in Nat
        <4>1. c < Len(s) - 1
          BY <1>1, <1>2, <1>5, <2>3
        <4>2. t[1] \in Nat
          BY <3>1, Limits
        <4> QED
          BY <1>2, <1>5, <4>1, <4>2
      <3>3. room <= p
        <4>1. Len(t) - 1 \in Nat /\ width <= Len(t) - 1
          BY <1>7, <2>3
        <4> QED
          BY <1>1, <3>1, <4>1, PowersGrow
      <3>4. ASSUME NEW a \in Nat, a # 0 PROVE a * p + r >= p
        BY <3>4
      <3>5. FromBeBytes(t) >= p
        BY <3>1, <3>2, <3>4
      <3>6. FromBeBytes(t) \in Nat
        BY <1>5, OctetSequences, FromBeBytesType
      <3> HIDE DEF n, room
      <3>7. n \notin 0..(room - 1)
        BY <1>7, <2>1, <3>3, <3>5, <3>6
      <3> QED
        BY <1>6, <2>3, <3>7 DEF n, room
    <2> QED
      BY <1>7, <2>2, <2>3
  <1> QED
    BY <1>8, <1>9

-----------------------------------------------------------------------------
(* The encoder writes octets. *)

LEMMA ToBeBytesType ==
    ASSUME NEW n \in Nat, NEW width \in Nat
    PROVE  ToBeBytes(n, width) \in Seq(Octets) /\ Len(ToBeBytes(n, width)) = width
  <1>1. Base \in Nat \ {0}
    BY Limits
  <1>2. ASSUME NEW i \in 1..width PROVE (n \div Power(Base, width - i)) % Base \in Octets
    <2>1. Power(Base, width - i) \in Nat \ {0}
      <3>1. width - i \in Nat
        OBVIOUS
      <3> QED
        BY <1>1, <3>1, Powers
    <2>2. ASSUME NEW p \in Nat \ {0} PROVE (n \div p) % Base \in 0..(Base - 1)
      BY <1>1
    <2> QED
      BY <2>1, <2>2 DEF Octets
  <1> QED
    BY <1>2 DEF ToBeBytes

\* What is left of a number's octets without leading ones.
LEMMA SignificantType ==
    ASSUME NEW n \in Nat, NEW width \in Nat \ {0}, NEW o
    PROVE  LET raw == ToBeBytes(n, width)
               skip == LeadingCount(raw, o)
           IN  /\ skip \in 0..(width - 1)
               /\ From(raw, skip + 1) \in Seq(Octets)
               /\ Len(From(raw, skip + 1)) \in 1..width
               /\ skip > 0 => From(raw, skip) \in Seq(Octets)
  <1> DEFINE raw == ToBeBytes(n, width)
             skip == LeadingCount(raw, o)
  <1>1. raw \in Seq(Octets) /\ Len(raw) = width
    BY ToBeBytesType
  <1> HIDE DEF raw
  <1>2. skip \in 0..(width - 1)
    <2>1. raw # <<>>
      BY <1>1
    <2> QED
      BY <1>1, <2>1, LeadingCountIs
  <1> HIDE DEF skip
  <1>3. From(raw, skip + 1) \in Seq(Octets) /\ Len(From(raw, skip + 1)) = width - skip
    <2>1. skip + 1 \in 1..(Len(raw) + 1) /\ Len(raw) + 1 - (skip + 1) = width - skip
      BY <1>1, <1>2
    <2> QED
      BY <1>1, <2>1, FromIs
  <1>4. skip > 0 => From(raw, skip) \in Seq(Octets)
    <2>1. skip > 0 => skip \in 1..(Len(raw) + 1)
      BY <1>1, <1>2
    <2> QED
      BY <1>1, <2>1, FromIs
  <1>5. Len(From(raw, skip + 1)) \in 1..width
    BY <1>2, <1>3
  <1> QED
    BY <1>2, <1>3, <1>4, <1>5 DEF raw, skip

LEMMA EncodeSignedType ==
    ASSUME NEW v \in Int
    PROVE  EncodeSigned(v) \in Seq(Octets)
  <1> DEFINE n == v % Word
             raw == ToBeBytes(n, WordOctets)
             o == IF v >= 0 THEN 0 ELSE Base - 1
             skip == LeadingCount(raw, o)
             first == raw[skip + 1]
             keepsSign == (v > 0 /\ HighBit(first)) \/ (v < 0 /\ ~HighBit(first))
  <1>1. WordOctets \in Nat \ {0} /\ Word \in Nat \ {0}
    <2>1. WordOctets \in Nat \ {0} /\ Base \in Nat \ {0}
      BY BerAssumption, Limits DEF BerAssumption
    <2> QED
      BY <2>1, Powers DEF Word
  <1>2. n \in Nat
    BY <1>1
  <1> HIDE DEF n, o
  <1>3. /\ skip \in 0..(WordOctets - 1)
        /\ From(raw, skip + 1) \in Seq(Octets)
        /\ skip > 0 => From(raw, skip) \in Seq(Octets)
    BY <1>1, <1>2, SignificantType
  <1>4. EncodeSigned(v) = From(raw, IF keepsSign /\ skip > 0 THEN skip ELSE skip + 1)
    BY DEF EncodeSigned, n, o
  <1> HIDE DEF raw, skip, keepsSign
  <1> QED
    BY <1>3, <1>4

LEMMA EncodeUnsignedType ==
    ASSUME NEW n \in Nat, NEW width \in Nat \ {0}
    PROVE  EncodeUnsigned(n, width) \in Seq(Octets)
  <1> DEFINE raw == ToBeBytes(n, width)
             t == From(raw, LeadingCount(raw, 0) + 1)
  <1>1. t \in Seq(Octets)
    BY SignificantType
  <1>2. EncodeUnsigned(n, width) = IF HighBit(Head(t)) THEN <<0>> \o t ELSE t
    BY DEF EncodeUnsigned
  <1> HIDE DEF t
  <1>3. 0 \in Octets
    BY Limits DEF Octets
  <1>4. <<0>> \o t \in Seq(Octets)
    BY <1>1, <1>3
  <1> QED
    BY <1>1, <1>2, <1>4

LEMMA EncodeLengthType ==
    ASSUME NEW n \in Nat
    PROVE  EncodeLength(n) \in Seq(Octets)
  <1> DEFINE raw == ToBeBytes(n, DoubleOctets)
             t == From(raw, LeadingCount(raw, 0) + 1)
  <1>1. DoubleOctets \in Nat \ {0} /\ DoubleOctets < Half - 1 /\ Half \in Nat /\ Base = 2 * Half
    BY BerAssumption, Limits DEF BerAssumption
  <1>2. t \in Seq(Octets) /\ Len(t) \in 1..DoubleOctets
    BY <1>1, SignificantType
  <1>3. EncodeLength(n) = IF n <= Half - 1 THEN <<n>> ELSE <<Half + Len(t)>> \o t
    BY DEF EncodeLength
  <1> HIDE DEF t
  <1>4. Half + Len(t) \in Octets /\ (n <= Half - 1 => n \in Octets)
    BY <1>1, <1>2 DEF Octets
  <1> DEFINE long == Half + Len(t)
  <1>5. long \in Octets
    BY <1>4
  <1> HIDE DEF long
  <1>6. <<long>> \o t \in Seq(Octets)
    BY <1>2, <1>5
  <1> QED
    BY <1>3, <1>4, <1>6 DEF long

LEMMA EncodeBase128Type ==
    ASSUME NEW v \in Nat
    PROVE  EncodeBase128(v) \in Seq(Octets)
  <1> DEFINE big == {k \in 1..(DoubleOctets + WordOctets) : Power(Half, k) <= v}
             groups == 1 + Cardinality(big)
  <1>1. DoubleOctets + WordOctets \in Nat /\ Half \in Nat \ {0} /\ Base = 2 * Half
    BY BerAssumption, Limits DEF BerAssumption
  <1>2. groups \in Nat
    <2>1. IsFiniteSet(1..(DoubleOctets + WordOctets))
      BY <1>1, FS_Interval
    <2>2. Cardinality(big) \in Nat
      <3>1. big \subseteq 1..(DoubleOctets + WordOctets)
        OBVIOUS
      <3> HIDE DEF big
      <3> QED
        BY <2>1, <3>1, FS_Subset, FS_CardinalityType
    <2> QED
      BY <2>2
  <1>3. EncodeBase128(v) = [i \in 1..groups |-> ((v \div Power(Half, groups - i)) % Half)
                                                    + (IF i < groups THEN Half ELSE 0)]
    BY DEF EncodeBase128
  <1> HIDE DEF groups
  <1>4. ASSUME NEW i \in 1..groups
        PROVE  ((v \div Power(Half, groups - i)) % Half) + (IF i < groups THEN Half ELSE 0) \in Octets
    <2>1. groups - i \in Nat
      BY <1>2
    <2>2. Power(Half, groups - i) \in Nat \ {0}
      BY <1>1, <2>1, Powers
    <2>3. ASSUME NEW p \in Nat \ {0} PROVE (v \div p) % Half \in 0..(Half - 1)
      BY <1>1
    <2>4. (v \div Power(Half, groups - i)) % Half \in 0..(Half - 1)
      BY <2>2, <2>3
    <2> QED
      BY <1>1, <2>4 DEF Octets
  <1> QED
    BY <1>2, <1>3, <1>4

LEMMA EncodeOidType ==
    ASSUME NEW arcs \in Seq(Nat), Len(arcs) >= 2
    PROVE  EncodeOid(arcs) \in Seq(Octets)
  <1> DEFINE parts == [i \in 1..(Len(arcs) - 2) |-> EncodeBase128(arcs[i + 2])]
  <1>1. arcs[1] \in Nat /\ arcs[2] \in Nat /\ Len(arcs) - 2 \in Nat
        /\ \A i \in 1..(Len(arcs) - 2) : arcs[i + 2] \in Nat
    OBVIOUS
  <1>2. EncodeBase128(40 * arcs[1] + arcs[2]) \in Seq(Octets)
    <2>1. 40 * arcs[1] + arcs[2] \in Nat
      BY <1>1
    <2> QED
      BY <2>1, EncodeBase128Type
  <1>3. parts \in Seq(Seq(Octets))
    <2>1. \A i \in 1..(Len(arcs) - 2) : EncodeBase128(arcs[i + 2]) \in Seq(Octets)
      BY <1>1, EncodeBase128Type
    <2> QED
      BY <1>1, <2>1
  <1>4. FlattenSeq(parts) \in Seq(Octets)
    <2>1. <<>> \in Seq(Octets)
      OBVIOUS
    <2> HIDE DEF parts
    <2> QED
      BY <1>3, <2>1, FlattenAppend
  <1> HIDE DEF parts
  <1> QED
    BY <1>2, <1>4 DEF EncodeOid, parts

\* Whatever a peer sends and the agent writes is a sequence of octets.
ContentInv == octets \in Seq(Octets)

LEMMA SpecContentInv == CodecSpec => []ContentInv
  <1>1. CodecInit => ContentInv
    BY DEF CodecInit, ContentInv
  <1>2. ContentInv /\ [CodecNext]_codecVars => ContentInv'
    <2> SUFFICES ASSUME ContentInv, [CodecNext]_codecVars PROVE ContentInv'
      OBVIOUS
    <2>1. WordOctets \in Nat \ {0} /\ DoubleOctets \in Nat \ {0} /\ Word \in Nat /\ Double \in Nat
      <3>1. WordOctets \in Nat \ {0} /\ DoubleOctets \in Nat \ {0} /\ Base \in Nat \ {0}
        BY BerAssumption, Limits DEF BerAssumption
      <3> QED
        BY <3>1, Powers DEF Word, Double
    <2>2. ASSUME NEW octet \in PeerOctets, PeerContent(octet) PROVE ContentInv'
      <3>1. octet \in Octets
        BY BerCodecAssumption DEF BerCodecAssumption, Octets
      <3> QED
        BY <2>2, <3>1 DEF PeerContent, ContentInv
    <2>3. ASSUME NEW kind, NEW value, NEW content \in Seq(Octets), Encodes(kind, value, content)
          PROVE  ContentInv'
      BY <2>3 DEF Encodes, ContentInv
    <2>4. ASSUME NEW v \in -(Word \div 2)..(Word \div 2 - 1) PROVE EncodeSigned(v) \in Seq(Octets)
      <3>1. v \in Int
        BY <2>1
      <3> QED
        BY <3>1, EncodeSignedType
    <2>5. ASSUME NEW v \in 0..(Word - 1) PROVE EncodeUnsigned(v, WordOctets) \in Seq(Octets)
      BY <2>1, EncodeUnsignedType
    <2>6. ASSUME NEW v \in Unsigned64s PROVE EncodeUnsigned(v, DoubleOctets) \in Seq(Octets)
      <3>1. v \in Nat
        BY <2>1, BerCodecAssumption DEF BerCodecAssumption
      <3> QED
        BY <2>1, <3>1, EncodeUnsignedType
    <2>7. ASSUME NEW n \in Lengths PROVE EncodeLength(n) \in Seq(Octets)
      <3>1. n \in Nat
        BY <2>1, BerCodecAssumption DEF BerCodecAssumption
      <3> QED
        BY <3>1, EncodeLengthType
    <2>8. ASSUME NEW o \in Oids PROVE EncodeOid(o) \in Seq(Octets)
      <3>1. ValidOid(o)
        BY BerCodecAssumption DEF BerCodecAssumption
      <3>2. o \in Seq(Nat) /\ Len(o) >= 2
        BY <2>1, <3>1 DEF ValidOid
      <3> QED
        BY <3>2, EncodeOidType
    <2>9. CASE UNCHANGED codecVars
      BY <2>9 DEF codecVars, ContentInv
    <2> QED
      BY <2>2, <2>3, <2>4, <2>5, <2>6, <2>7, <2>8, <2>9 DEF CodecNext
  <1> QED
    BY <1>1, <1>2, PTL DEF CodecSpec

\* Integers of any padding are read as what they mean, and rejected exactly
\* when their type cannot hold them, whatever the widths of octets and words.
THEOREM IntegersReadExactly == CodecSpec => []IntegersExact
  <1>1. ContentInv => IntegersExact
    <2> SUFFICES ASSUME ContentInv, octets # <<>> PROVE IntegersExact
      BY DEF IntegersExact
    <2>1. octets \in Seq(Octets)
      BY DEF ContentInv
    <2>2. WordOctets \in Nat \ {0} /\ DoubleOctets \in Nat \ {0}
      BY BerAssumption DEF BerAssumption
    <2>3. DecodeSigned(octets) = IF TwosComplement(octets) \in -(Word \div 2)..(Word \div 2 - 1)
                                 THEN Ok(TwosComplement(octets)) ELSE Error
      BY <2>1, DecodeSignedExact
    <2>4. DecodeUnsigned(octets, WordOctets) = IF TwosComplement(octets) \in 0..(Word - 1)
                                               THEN Ok(TwosComplement(octets)) ELSE Error
      BY <2>1, <2>2, DecodeUnsignedExact DEF Word
    <2>5. DecodeUnsigned(octets, DoubleOctets) = IF TwosComplement(octets) \in 0..(Double - 1)
                                                 THEN Ok(TwosComplement(octets)) ELSE Error
      BY <2>1, <2>2, DecodeUnsignedExact DEF Double
    <2> QED
      BY <2>3, <2>4, <2>5 DEF IntegersExact
  <1> QED
    BY <1>1, SpecContentInv, PTL

-----------------------------------------------------------------------------
(* Quotients *)

LEMMA QuotientUnique ==
    ASSUME NEW m \in Nat \ {0}, NEW q \in Nat, NEW r \in 0..(m - 1)
    PROVE  (q * m + r) \div m = q /\ (q * m + r) % m = r
  <1>1. q * m + r \in Nat
    BY SMT
  <1> QED
    BY <1>1, SMT

LEMMA QuotientIs ==
    ASSUME NEW m \in Nat \ {0}, NEW a \in Nat
    PROVE  a \div m \in Nat /\ a % m \in 0..(m - 1) /\ a = (a \div m) * m + (a % m)
  BY SMT

\* Dividing twice.
LEMMA QuotientOfQuotient ==
    ASSUME NEW a \in Nat, NEW b \in Nat \ {0}, NEW p \in Nat \ {0}
    PROVE  a \div (b * p) = (a \div b) \div p
  <1> DEFINE c == a \div b
             s == a % b
             q == c \div p
             r == c % p
  <1>1. c \in Nat /\ s \in 0..(b - 1) /\ a = c * b + s
    BY QuotientIs
  <1> HIDE DEF c, s
  <1>2. q \in Nat /\ r \in 0..(p - 1) /\ c = q * p + r
    BY <1>1, QuotientIs
  <1> HIDE DEF q, r
  <1>3. a = q * (b * p) + (r * b + s)
    BY <1>1, <1>2
  <1>4. r * b + s \in 0..(b * p - 1) /\ b * p \in Nat \ {0}
    <2>1. r * b <= (p - 1) * b /\ r * b \in Nat
      BY <1>2, Products
    <2>2. (p - 1) * b = b * p - b
      OBVIOUS
    <2> QED
      BY <1>1, <2>1, <2>2
  <1> DEFINE m == b * p
             e == r * b + s
  <1> HIDE DEF m, e
  <1>5. (q * m + e) \div m = q
    BY <1>2, <1>4, QuotientUnique DEF m, e
  <1> QED
    BY <1>3, <1>5 DEF m, e, q, c

\* One more octet of a number.
LEMMA ToBeBytesAppend ==
    ASSUME NEW n \in Nat, NEW w \in Nat
    PROVE  ToBeBytes(n, w + 1) = Append(ToBeBytes(n \div Base, w), n % Base)
  <1> DEFINE u == ToBeBytes(n, w + 1)
             t == ToBeBytes(n \div Base, w)
  <1>1. Base \in Nat \ {0}
    BY Limits
  <1>2. n \div Base \in Nat /\ n % Base \in 0..(Base - 1)
    BY <1>1, QuotientIs
  <1>3. u \in Seq(Octets) /\ Len(u) = w + 1 /\ t \in Seq(Octets) /\ Len(t) = w
    <2>1. w + 1 \in Nat
      OBVIOUS
    <2> QED
      BY <1>2, <2>1, ToBeBytesType
  <1>4. ASSUME NEW i \in 1..w PROVE u[i] = t[i]
    <2> DEFINE p == Power(Base, w - i)
    <2>1. w - i \in Nat /\ (w - i) + 1 = (w + 1) - i /\ i \in 1..(w + 1)
      OBVIOUS
    <2>2. p \in Nat \ {0} /\ Power(Base, (w - i) + 1) = Base * p
      BY <1>1, <2>1, Powers
    <2>3. Power(Base, (w + 1) - i) = Base * p
      BY <2>1, <2>2
    <2> HIDE DEF p
    <2>4. n \div (Base * p) = (n \div Base) \div p
      BY <1>1, <2>2, QuotientOfQuotient
    <2>5. u[i] = (n \div Power(Base, (w + 1) - i)) % Base
      BY <2>1 DEF ToBeBytes
    <2>6. t[i] = ((n \div Base) \div p) % Base
      BY DEF ToBeBytes, p
    <2> QED
      BY <2>3, <2>4, <2>5, <2>6
  <1>5. u[w + 1] = n % Base
    <2>1. u[w + 1] = (n \div Power(Base, (w + 1) - (w + 1))) % Base
      BY DEF ToBeBytes
    <2>2. (w + 1) - (w + 1) = 0 /\ Power(Base, 0) = 1 /\ n \div 1 = n
      BY <1>1, Powers
    <2> QED
      BY <2>1, <2>2
  <1> HIDE DEF u, t
  <1>6. u = Append(t, n % Base)
    BY <1>3, <1>4, <1>5
  <1> QED
    BY <1>6 DEF u, t

\* from_be_bytes inverts to_be_bytes.
LEMMA FromToBeBytes ==
    ASSUME NEW n \in Nat, NEW w \in Nat, n < Power(Base, w)
    PROVE  FromBeBytes(ToBeBytes(n, w)) = n
  <1> DEFINE S == {k \in Nat : \A m \in Nat : m < Power(Base, k) => FromBeBytes(ToBeBytes(m, k)) = m}
  <1>0. Base \in Nat \ {0}
    BY Limits
  <1>1. 0 \in S
    <2> SUFFICES ASSUME NEW m \in Nat, m < Power(Base, 0) PROVE FromBeBytes(ToBeBytes(m, 0)) = m
      OBVIOUS
    <2>1. m = 0
      BY <1>0, Powers
    <2>2. ToBeBytes(m, 0) = <<>>
      BY DEF ToBeBytes
    <2>3. FromBeBytes(<<>>) = 0
      <3>1. <<>> \in Seq(Nat) /\ 0 \in Nat
        OBVIOUS
      <3> QED
        BY <3>1, FromBeBytesAppend
    <2> QED
      BY <2>1, <2>2, <2>3
  <1>2. ASSUME NEW k \in Nat, k \in S PROVE k + 1 \in S
    <2> SUFFICES ASSUME NEW m \in Nat, m < Power(Base, k + 1)
                 PROVE  FromBeBytes(ToBeBytes(m, k + 1)) = m
      OBVIOUS
    <2> DEFINE c == m \div Base
               x == m % Base
               p == Power(Base, k)
    <2>1. c \in Nat /\ x \in 0..(Base - 1) /\ m = c * Base + x
      BY <1>0, QuotientIs
    <2>2. p \in Nat \ {0} /\ Power(Base, k + 1) = Base * p
      BY <1>0, Powers
    <2>3. c < p
      <3> HIDE DEF c, x, p
      <3>1. m < Base * p
        BY <2>2
      <3>2. c * Base < Base * p
        BY <1>0, <2>1, <2>2, <3>1
      <3>3. CASE c >= p
        <4>1. p * Base <= c * Base
          BY <1>0, <2>1, <2>2, <3>3, Products
        <4> QED
          BY <1>0, <2>1, <2>2, <3>2, <4>1
      <3> QED
        BY <2>1, <2>2, <3>3
    <2>4. FromBeBytes(ToBeBytes(c, k)) = c
      BY <1>2, <2>1, <2>3
    <2>5. ToBeBytes(m, k + 1) = Append(ToBeBytes(c, k), x)
      BY ToBeBytesAppend
    <2>6. ToBeBytes(c, k) \in Seq(Nat)
      BY <2>1, ToBeBytesType, OctetSequences
    <2> HIDE DEF c, x
    <2>7. x \in Nat
      BY <1>0, <2>1
    <2> QED
      BY <2>1, <2>4, <2>5, <2>6, <2>7, FromBeBytesAppend
  <1>3. Nat \subseteq S
    <2> HIDE DEF S
    <2> QED
      BY <1>1, <1>2, NaturalInduction
  <1> QED
    BY <1>3

-----------------------------------------------------------------------------
(* What the encoder writes, means the number. *)

\* A number's octets without leading zeros.
LEMMA SignificantIs ==
    ASSUME NEW n \in Nat, NEW w \in Nat \ {0}, n < Power(Base, w)
    PROVE  LET raw == ToBeBytes(n, w)
               t == From(raw, LeadingCount(raw, 0) + 1)
           IN  /\ t \in Seq(Octets) /\ Len(t) \in 1..w
               /\ FromBeBytes(t) = n
               /\ Len(t) > 1 => t[1] # 0
  <1> DEFINE raw == ToBeBytes(n, w)
             c == LeadingCount(raw, 0)
             t == From(raw, c + 1)
  <1>1. raw \in Seq(Octets) /\ Len(raw) = w
    BY ToBeBytesType
  <1>2. FromBeBytes(raw) = n
    BY FromToBeBytes
  <1> HIDE DEF raw
  <1>3. raw # <<>>
    BY <1>1
  <1>4. c \in 0..(Len(raw) - 1) /\ (\A j \in 1..c : raw[j] = 0) /\ (c < Len(raw) - 1 => raw[c + 1] # 0)
    BY <1>1, <1>3, LeadingCountIs
  <1> HIDE DEF c
  <1>5. c + 1 \in 1..Len(raw) /\ (c + 1) - 1 = c
    BY <1>1, <1>4
  <1>6. FromBeBytes(t) = n
    BY <1>1, <1>2, <1>3, <1>4, <1>5, DropZeros
  <1>7. t \in Seq(Octets) /\ Len(t) = Len(raw) + 1 - (c + 1) /\ t[1] = raw[c + 1]
    BY <1>1, <1>5, FromFirst
  <1> HIDE DEF t
  <1>8. Len(t) \in 1..w /\ (Len(t) > 1 => c < Len(raw) - 1)
    BY <1>1, <1>4, <1>7
  <1> QED
    BY <1>4, <1>6, <1>7, <1>8 DEF t, c, raw

LEMMA UnsignedMeans ==
    ASSUME NEW n \in Nat, NEW w \in Nat \ {0}, n < Power(Base, w)
    PROVE  /\ EncodeUnsigned(n, w) # <<>>
           /\ TwosComplement(EncodeUnsigned(n, w)) = n
           /\ Shortest(EncodeUnsigned(n, w))
  <1> DEFINE raw == ToBeBytes(n, w)
             t == From(raw, LeadingCount(raw, 0) + 1)
             z == <<0>> \o t
  <1>1. /\ t \in Seq(Octets) /\ Len(t) \in 1..w
        /\ FromBeBytes(t) = n
        /\ Len(t) > 1 => t[1] # 0
    BY SignificantIs
  <1>2. EncodeUnsigned(n, w) = IF HighBit(Head(t)) THEN z ELSE t
    BY DEF EncodeUnsigned
  <1> HIDE DEF t
  <1>3. t # <<>> /\ Head(t) = t[1] /\ t[1] \in Octets
    BY <1>1
  <1>4. Half \in Nat /\ Half >= 4 /\ Base = 2 * Half /\ 0 \in Octets
    BY Limits DEF Octets
  <1>5. CASE HighBit(t[1])
    <2>1. z \in Seq(Octets) /\ Len(z) = Len(t) + 1 /\ z[1] = 0 /\ z[2] = t[1] /\ z # <<>>
          /\ \A i \in 1..Len(t) : z[i + 1] = t[i]
      BY <1>1, <1>4
    <2> HIDE DEF z
    <2>2. From(z, 2) = t
      <3>1. From(z, 2) \in Seq(Octets) /\ Len(From(z, 2)) = Len(t)
            /\ \A i \in 1..Len(t) : From(z, 2)[i] = z[i + 1]
        BY <1>1, <2>1 DEF From
      <3> QED
        BY <1>1, <2>1, <3>1
    <2>3. PICK p \in Nat \ {0}, r \in Nat :
              r = FromBeBytes(From(z, 2)) /\ FromBeBytes(z) = z[1] * p + r
      BY <2>1, ByFirstOctet
    <2>4. FromBeBytes(z) = n
      BY <1>1, <2>1, <2>2, <2>3
    <2>5. ~HighBit(z[1])
      BY <1>4, <2>1 DEF HighBit
    <2>6. TwosComplement(z) = n
      BY <2>1, <2>4, <2>5, TwosComplementRange
    <2>7. Shortest(z)
      BY <1>5, <2>1, <2>5 DEF Shortest, HighBit
    <2> QED
      BY <1>2, <1>3, <1>5, <2>1, <2>6, <2>7
  <1>6. CASE ~HighBit(t[1])
    <2>1. TwosComplement(t) = n
      BY <1>1, <1>3, <1>6, TwosComplementRange
    <2>2. t[1] # Base - 1
      BY <1>4, <1>6 DEF HighBit
    <2>3. Shortest(t)
      BY <1>1, <2>2 DEF Shortest
    <2> QED
      BY <1>2, <1>3, <1>6, <2>1, <2>3
  <1> QED
    BY <1>5, <1>6

LEMMA SignedRemainder ==
    ASSUME NEW m \in Nat \ {0}, NEW v \in Int
    PROVE  /\ v \in 0..(m - 1) => v % m = v
           /\ v \in -m..(-1) => v % m = v + m
  BY SMT

\* The word's octets mean the number in two's complement.
LEMMA WordMeans ==
    ASSUME NEW v \in -(Word \div 2)..(Word \div 2 - 1)
    PROVE  LET raw == ToBeBytes(v % Word, WordOctets)
           IN  /\ raw \in Seq(Octets) /\ Len(raw) = WordOctets
               /\ TwosComplement(raw) = v
               /\ HighBit(raw[1]) <=> v < 0
               /\ v = 0 => \A i \in 1..WordOctets : raw[i] = 0
  <1> DEFINE n == v % Word
             raw == ToBeBytes(n, WordOctets)
             h == Half * Power(Base, WordOctets - 1)
  <1>1. WordOctets \in Nat \ {0} /\ Base \in Nat \ {0}
    BY BerAssumption, Limits DEF BerAssumption
  <1>2. Word = 2 * h /\ Word \div 2 = h /\ h \in Nat \ {0} /\ Word \in Nat \ {0}
    BY <1>1, WordIs DEF Word
  <1>3. Power(Base, WordOctets) = Word
    BY DEF Word
  <1> HIDE DEF h
  <1>4. v \in Int /\ v \in -h..(h - 1)
    BY <1>2
  <1>5. n = (IF v < 0 THEN v + Word ELSE v) /\ n \in 0..(Word - 1)
    <2>1. v \in 0..(Word - 1) => n = v
      BY <1>2, <1>4, SignedRemainder
    <2>2. v \in -Word..(-1) => n = v + Word
      BY <1>2, <1>4, SignedRemainder
    <2> QED
      BY <1>2, <1>4, <2>1, <2>2
  <1> HIDE DEF n
  <1>6. raw \in Seq(Octets) /\ Len(raw) = WordOctets
    BY <1>1, <1>2, <1>5, ToBeBytesType
  <1>7. FromBeBytes(raw) = n
    BY <1>1, <1>2, <1>3, <1>5, FromToBeBytes
  <1>8. v = 0 => \A i \in 1..WordOctets : raw[i] = 0
    <2> SUFFICES ASSUME v = 0, NEW i \in 1..WordOctets PROVE raw[i] = 0
      OBVIOUS
    <2>1. n = 0 /\ WordOctets - i \in Nat
      BY <1>1, <1>5
    <2> DEFINE p == Power(Base, WordOctets - i)
    <2>2. p \in Nat \ {0}
      BY <1>1, <2>1, Powers
    <2>3. raw[i] = (0 \div p) % Base
      BY <2>1 DEF ToBeBytes
    <2> HIDE DEF p
    <2>4. 0 \div p = 0
      BY <2>2
    <2> QED
      BY <1>1, <2>3, <2>4
  <1> HIDE DEF raw
  <1>9. raw # <<>>
    BY <1>1, <1>6
  <1>10. /\ TwosComplement(raw) \in -h..(h - 1)
         /\ HighBit(raw[1]) <=> TwosComplement(raw) < 0
         /\ ~HighBit(raw[1]) => TwosComplement(raw) = n
    BY <1>6, <1>7, <1>9, TwosComplementRange DEF h
  <1>11. HighBit(raw[1]) => TwosComplement(raw) = n - Word
    BY <1>3, <1>6, <1>7 DEF TwosComplement
  <1>12. TwosComplement(raw) = v
    BY <1>2, <1>4, <1>5, <1>10, <1>11
  <1> QED
    BY <1>6, <1>8, <1>10, <1>12 DEF raw, n

LEMMA SignedMeans ==
    ASSUME NEW v \in -(Word \div 2)..(Word \div 2 - 1)
    PROVE  /\ EncodeSigned(v) \in Seq(Octets) /\ EncodeSigned(v) # <<>>
           /\ TwosComplement(EncodeSigned(v)) = v
           /\ Shortest(EncodeSigned(v))
  <1> DEFINE raw == ToBeBytes(v % Word, WordOctets)
             o == IF v >= 0 THEN 0 ELSE Base - 1
             c == LeadingCount(raw, o)
             first == raw[c + 1]
             keepsSign == (v > 0 /\ HighBit(first)) \/ (v < 0 /\ ~HighBit(first))
             k == IF keepsSign /\ c > 0 THEN c ELSE c + 1
             t == From(raw, k)
  <1>1. WordOctets \in Nat \ {0} /\ Half \in Nat /\ Half >= 4 /\ Base = 2 * Half
    BY BerAssumption, Limits DEF BerAssumption
  <1>2. v \in Int
    <2>1. Word \div 2 \in Nat
      BY <1>1, WordIs DEF Word
    <2> QED
      BY <2>1
  <1>3. /\ raw \in Seq(Octets) /\ Len(raw) = WordOctets
        /\ TwosComplement(raw) = v
        /\ HighBit(raw[1]) <=> v < 0
        /\ v = 0 => \A i \in 1..WordOctets : raw[i] = 0
    BY WordMeans
  <1>4. EncodeSigned(v) = t
    BY DEF EncodeSigned
  <1> HIDE DEF raw
  <1>5. raw # <<>>
    BY <1>1, <1>3
  <1>6. c \in 0..(Len(raw) - 1) /\ (\A j \in 1..c : raw[j] = o) /\ (c < Len(raw) - 1 => raw[c + 1] # o)
    BY <1>3, <1>5, LeadingCountIs
  <1> HIDE DEF c
  <1>7. Redundant(raw) = o /\ (HighBit(o) <=> v < 0) /\ o \in {0, Base - 1}
    BY <1>1, <1>2, <1>3 DEF Redundant, HighBit
  <1>8. c + 1 \in 1..Len(raw) /\ k \in 1..Len(raw) /\ k - 1 \in 0..c /\ first \in Octets
    BY <1>3, <1>6
  <1>9. v = 0 => first = 0
    BY <1>3, <1>8
  <1>10. c = 0 => ~keepsSign
    BY <1>2, <1>3
  <1>11. ASSUME NEW i \in 1..(k - 1) PROVE raw[i] = Redundant(raw) /\ (HighBit(raw[i + 1]) <=> HighBit(raw[1]))
    <2>1. i \in 1..c
      BY <1>6, <1>8
    <2>2. raw[i] = o
      BY <1>6, <2>1
    <2>3. CASE i + 1 <= c
      <3>1. i + 1 \in 1..c
        BY <1>6, <2>1, <2>3
      <3>2. raw[i + 1] = o
        BY <1>6, <3>1
      <3> QED
        BY <1>3, <1>7, <2>2, <3>2
    <2>4. CASE ~(i + 1 <= c)
      <3>1. i = c /\ ~keepsSign /\ c > 0
        BY <1>6, <2>1, <2>4
      <3>2. HighBit(first) <=> v < 0
        <4>1. CASE v = 0
          BY <1>1, <1>9, <4>1 DEF HighBit
        <4>2. CASE v # 0
          BY <1>2, <3>1, <4>2
        <4> QED
          BY <4>1, <4>2
      <3> QED
        BY <1>3, <1>7, <2>2, <3>1, <3>2
    <2> QED
      BY <2>3, <2>4
  <1>12. TwosComplement(t) = v
    <2> HIDE DEF k
    <2> QED
      BY <1>3, <1>5, <1>8, <1>11, DropSigns
  <1>13. t \in Seq(Octets) /\ Len(t) = Len(raw) + 1 - k /\ t[1] = raw[k]
    <2> HIDE DEF k
    <2> QED
      BY <1>3, <1>8, FromFirst
  <1>14. t # <<>>
    BY <1>3, <1>8, <1>13
  <1>15. Shortest(t)
    <2> SUFFICES ASSUME Len(t) > 1, t[1] \in {0, Base - 1}, HighBit(t[1]) = HighBit(t[2])
                 PROVE  FALSE
      BY DEF Shortest
    <2>1. CASE k = c + 1
      <3>1. c < Len(raw) - 1 /\ t[1] = first /\ first # o
        BY <1>3, <1>6, <1>13, <2>1
      <3>2. HighBit(first) <=> v >= 0
        BY <1>1, <1>2, <3>1 DEF HighBit
      <3>3. keepsSign
        BY <1>1, <1>2, <1>9, <3>2 DEF HighBit
      <3> QED
        BY <1>6, <1>10, <2>1, <3>3
    <2>2. CASE k # c + 1
      <3>1. k = c /\ keepsSign /\ c > 0 /\ c \in 1..c /\ k \in 1..(Len(raw) - 1)
        BY <1>3, <1>6, <2>2
      <3>2. t[1] = o
        BY <1>6, <1>13, <3>1
      <3>3. t[2] = first
        <4>1. From(raw, k)[2] = raw[k + 1]
          <5> HIDE DEF k
          <5> QED
            BY <1>3, <3>1, FromNext
        <4> QED
          BY <3>1, <4>1
      <3> QED
        BY <1>2, <1>7, <3>1, <3>2, <3>3
    <2> QED
      BY <2>1, <2>2
  <1> QED
    BY <1>4, <1>12, <1>13, <1>14, <1>15

\* A length is read back, and takes all of its octets.
LEMMA LengthReadsBack ==
    ASSUME NEW n \in 0..(Double - 1)
    PROVE  ReadLength(EncodeLength(n)) = Taking(n, Len(EncodeLength(n)))
  <1> DEFINE raw == ToBeBytes(n, DoubleOctets)
             t == From(raw, LeadingCount(raw, 0) + 1)
             x == Half + Len(t)
             z == <<x>> \o t
  <1>1. /\ DoubleOctets \in Nat \ {0} /\ DoubleOctets < Half - 1
        /\ Half \in Nat /\ Half >= 4 /\ Base = 2 * Half /\ Base \in Nat \ {0}
    BY BerAssumption, Limits DEF BerAssumption
  <1>2. n \in Nat /\ n < Power(Base, DoubleOctets)
    <2>1. Double \in Nat
      BY <1>1, Powers DEF Double
    <2> QED
      BY <2>1 DEF Double
  <1>3. t \in Seq(Octets) /\ Len(t) \in 1..DoubleOctets /\ FromBeBytes(t) = n
    BY <1>1, <1>2, SignificantIs
  <1>4. EncodeLength(n) = IF n <= Half - 1 THEN <<n>> ELSE z
    BY DEF EncodeLength
  <1> HIDE DEF t
  <1>5. CASE n <= Half - 1
    <2>1. EncodeLength(n) = <<n>> /\ <<n>> # <<>> /\ <<n>>[1] = n /\ Len(<<n>>) = 1
      BY <1>4, <1>5
    <2>2. ~HighBit(n)
      BY <1>1, <1>2, <1>5 DEF HighBit
    <2> QED
      BY <2>1, <2>2 DEF ReadLength
  <1>6. CASE ~(n <= Half - 1)
    <2>1. /\ Len(z) = 1 + Len(t) /\ z[1] = x /\ z # <<>>
          /\ \A i \in 1..Len(t) : z[i + 1] = t[i]
      BY <1>3
    <2>2. z \in Seq(Nat)
      BY <1>1, <1>3, OctetSequences
    <2> HIDE DEF z
    <2>3. SubSeq(z, 2, 1 + Len(t)) = t
      <3>1. SubSeq(z, 2, 1 + Len(t)) \in Seq(Nat) /\ Len(SubSeq(z, 2, 1 + Len(t))) = Len(t)
            /\ \A i \in 1..Len(t) : SubSeq(z, 2, 1 + Len(t))[i] = z[i + 1]
        BY <1>3, <2>1, <2>2
      <3>2. t \in Seq(Nat)
        BY <1>3, OctetSequences
      <3> QED
        BY <2>1, <3>1, <3>2
    <2>4. HighBit(z[1]) /\ z[1] # Base - 1 /\ z[1] - Half = Len(t) /\ Len(t) # 0 /\ ~(Len(t) > DoubleOctets)
          /\ ~(Len(z) < 1 + Len(t))
      BY <1>1, <1>3, <2>1 DEF HighBit
    <2>5. ReadLength(z) = Taking(FromBeBytes(SubSeq(z, 2, 1 + Len(t))), 1 + Len(t))
      BY <2>1, <2>4 DEF ReadLength
    <2> QED
      BY <1>3, <1>4, <1>6, <2>1, <2>3, <2>5
  <1> QED
    BY <1>5, <1>6

-----------------------------------------------------------------------------
(* Object identifiers *)

Reading == [sum : Nat, ids : Seq(Nat)]

LEMMA ReadOctetType ==
    ASSUME NEW st \in Reading, NEW octet \in Nat, NEW room \in Nat \ {0}
    PROVE  ReadOctet(st, octet, room) \in Reading
  <1>1. Half \in Nat \ {0} /\ st.sum \in Nat /\ st.ids \in Seq(Nat)
    BY Limits DEF Reading
  <1>2. Accumulate(st.sum, octet, room) \in Nat
    <2>1. st.sum * Half \in Nat
      BY <1>1
    <2>2. (st.sum * Half) % room \in Nat /\ octet % Half \in Nat
      BY <1>1, <2>1
    <2> QED
      BY <2>2 DEF Accumulate
  <1> QED
    BY <1>1, <1>2 DEF ReadOctet, Reading

\* What the recursive function in ReadOctets computes.
LEMMA ReadOctetsIs ==
    ASSUME NEW s \in Seq(Nat), NEW room \in Nat \ {0}
    PROVE  \E f : /\ f[0] = [sum |-> 0, ids |-> <<>>]
                  /\ \A n \in 1..Len(s) : f[n] = ReadOctet(f[n - 1], s[n], room)
                  /\ \A n \in 0..Len(s) : f[n] \in Reading
                  /\ ReadOctets(s, room) = f[Len(s)]
  <1> DEFINE L == Len(s)
             none == [sum |-> 0, ids |-> <<>>]
             Def(f) == f = [n \in 0..L |-> IF n = 0 THEN none ELSE ReadOctet(f[n - 1], s[n], room)]
             value == CHOOSE f : Def(f)
             step == [n \in 1..L |-> [v \in Reading |-> ReadOctet(v, s[n], room)]]
  <1>1. L \in Nat /\ (\A n \in 1..L : s[n] \in Nat) /\ none \in Reading
    BY DEF Reading
  <1>2. \E f \in [0..L -> Reading] : f[0] = none /\ \A n \in 1..L : f[n] = ReadOctet(f[n - 1], s[n], room)
    <2>1. step \in [1..L -> [Reading -> Reading]]
      BY <1>1, ReadOctetType
    <2> HIDE DEF step, L, none
    <2>2. PICK f \in [0..L -> Reading] : Iterates(f, L, none, step)
      BY <1>1, <2>1, RecursionUpTo
    <2>3. \A n \in 1..L : f[n - 1] \in Reading
      BY <1>1
    <2> QED
      BY <2>2, <2>3 DEF Iterates, step
  <1>3. \E f : Def(f)
    <2>1. PICK f \in [0..L -> Reading] : f[0] = none /\ \A n \in 1..L : f[n] = ReadOctet(f[n - 1], s[n], room)
      BY <1>2
    <2>2. \A n \in 0..L : n # 0 => n \in 1..L
      BY <1>1
    <2> HIDE DEF none
    <2>3. Def(f)
      BY <2>1, <2>2
    <2> QED
      BY <2>3
  <1>4. Def(value)
    BY <1>3
  <1>5. ReadOctets(s, room) = value[L]
    BY DEF ReadOctets
  <1> DEFINE S == {n \in 0..L : value[n] \in Reading}
  <1> HIDE DEF value
  <1>6. 0 \in S
    <2> HIDE DEF none
    <2> QED
      BY <1>1, <1>4
  <1>7. ASSUME NEW n \in 1..L, n - 1 \in S PROVE n \in S
    <2>1. value[n - 1] \in Reading /\ n \in 0..L /\ n # 0 /\ s[n] \in Nat
      BY <1>1, <1>7
    <2>2. value[n] = ReadOctet(value[n - 1], s[n], room)
      BY <1>4, <2>1
    <2> QED
      BY <2>1, <2>2, ReadOctetType
  <1>8. 0..L \subseteq S
    <2> HIDE DEF S, L
    <2> QED
      BY <1>1, <1>6, <1>7, InductionUpTo
  <1>9. ASSUME NEW n \in 1..L PROVE value[n] = ReadOctet(value[n - 1], s[n], room)
    <2>1. n \in 0..L /\ n # 0
      BY <1>1
    <2> QED
      BY <1>4, <2>1
  <1>10. value[0] = none
    BY <1>1, <1>4
  <1>11. \A n \in 0..L : value[n] \in Reading
    BY <1>8
  <1> QED
    BY <1>5, <1>9, <1>10, <1>11

\* One more octet.
LEMMA ReadOctetsAppend ==
    ASSUME NEW s \in Seq(Nat), NEW x \in Nat, NEW room \in Nat \ {0}
    PROVE  /\ ReadOctets(<<>>, room) = [sum |-> 0, ids |-> <<>>]
           /\ ReadOctets(s, room) \in Reading
           /\ ReadOctets(Append(s, x), room) = ReadOctet(ReadOctets(s, room), x, room)
  <1> DEFINE L == Len(s)
             u == Append(s, x)
             none == [sum |-> 0, ids |-> <<>>]
  <1>1. L \in Nat /\ u \in Seq(Nat) /\ Len(u) = L + 1 /\ u[L + 1] = x /\ \A i \in 1..L : u[i] = s[i]
    OBVIOUS
  <1>2. PICK f : /\ f[0] = none /\ \A n \in 1..L : f[n] = ReadOctet(f[n - 1], s[n], room)
                 /\ \A n \in 0..L : f[n] \in Reading
                 /\ ReadOctets(s, room) = f[L]
    BY ReadOctetsIs
  <1> HIDE DEF u, L
  <1>3. PICK g : /\ g[0] = none /\ \A n \in 1..Len(u) : g[n] = ReadOctet(g[n - 1], u[n], room)
                 /\ ReadOctets(u, room) = g[Len(u)]
    BY <1>1, ReadOctetsIs
  <1>4. ReadOctets(<<>>, room) = none
    <2> DEFINE e == <<>>
    <2>1. e \in Seq(Nat) /\ Len(e) = 0
      OBVIOUS
    <2> HIDE DEF e
    <2>2. PICK h : h[0] = none /\ ReadOctets(e, room) = h[Len(e)]
      BY <2>1, ReadOctetsIs
    <2> QED
      BY <2>1, <2>2 DEF e
  <1> DEFINE S == {n \in 0..L : f[n] = g[n]}
  <1>5. 0 \in S
    BY <1>1, <1>2, <1>3
  <1>6. ASSUME NEW n \in 1..L, n - 1 \in S PROVE n \in S
    <2>1. n \in 1..Len(u) /\ n \in 0..L /\ u[n] = s[n]
      BY <1>1
    <2> QED
      BY <1>2, <1>3, <1>6, <2>1
  <1>7. 0..L \subseteq S
    <2> HIDE DEF S
    <2> QED
      BY <1>1, <1>5, <1>6, InductionUpTo
  <1>8. f[L] = g[L]
    BY <1>1, <1>7
  <1>9. L + 1 \in 1..Len(u) /\ (L + 1) - 1 = L /\ L \in 0..L
    BY <1>1
  <1>10. g[L + 1] = ReadOctet(g[L], x, room)
    BY <1>1, <1>3, <1>9
  <1> QED
    BY <1>1, <1>2, <1>3, <1>4, <1>8, <1>9, <1>10 DEF u

-----------------------------------------------------------------------------
(* Groups of base 128 *)

LEMMA GroupsOutnumberOctets ==
    ASSUME NEW n \in Nat
    PROVE  Power(Base, 2 * n) <= Power(Half, 3 * n)
  <1> DEFINE S == {k \in Nat : Power(Base, 2 * k) <= Power(Half, 3 * k)}
  <1>1. Half \in Nat \ {0} /\ Half >= 4 /\ Base = 2 * Half /\ Base \in Nat \ {0}
    BY Limits
  <1>2. 0 \in S
    BY <1>1, Powers
  <1>3. ASSUME NEW k \in Nat, k \in S PROVE k + 1 \in S
    <2> DEFINE p == Power(Base, 2 * k)
               q == Power(Half, 3 * k)
    <2>1. 2 * k \in Nat /\ 2 * k + 1 \in Nat /\ 3 * k \in Nat /\ 3 * k + 1 \in Nat /\ (3 * k + 1) + 1 \in Nat
      OBVIOUS
    <2>2. p \in Nat \ {0} /\ Power(Base, 2 * k + 1) = Base * p
          /\ Power(Base, (2 * k + 1) + 1) = Base * Power(Base, 2 * k + 1)
      BY <1>1, <2>1, Powers
    <2>3. q \in Nat \ {0} /\ Power(Half, 3 * k + 1) = Half * q
          /\ Power(Half, (3 * k + 1) + 1) = Half * Power(Half, 3 * k + 1)
          /\ Power(Half, ((3 * k + 1) + 1) + 1) = Half * Power(Half, (3 * k + 1) + 1)
      BY <1>1, <2>1, Powers
    <2>4. (2 * k + 1) + 1 = 2 * (k + 1) /\ ((3 * k + 1) + 1) + 1 = 3 * (k + 1)
      OBVIOUS
    <2>5. p <= q
      BY <1>3
    <2> HIDE DEF p, q
    <2>6. Power(Base, 2 * (k + 1)) = Base * (Base * p) /\ Power(Half, 3 * (k + 1)) = Half * (Half * (Half * q))
      BY <2>2, <2>3, <2>4
    <2>7. Base * (Base * p) <= Half * (Half * (Half * q))
      <3> DEFINE h == Half * Half
      <3>1. Base * (Base * p) = (4 * p) * h /\ Half * (Half * (Half * q)) = (Half * q) * h
            /\ h \in Nat /\ Half * q \in Nat /\ 4 * p \in Nat
        BY <1>1, <2>2, <2>3
      <3>2. 4 * q <= Half * q
        BY <1>1, <2>3, Products
      <3>3. 4 * p <= Half * q
        BY <2>2, <2>3, <2>5, <3>1, <3>2
      <3> HIDE DEF h
      <3> QED
        BY <3>1, <3>3, Products
    <2> QED
      BY <2>6, <2>7
  <1>4. Nat \subseteq S
    <2> HIDE DEF S
    <2> QED
      BY <1>2, <1>3, NaturalInduction
  <1> QED
    BY <1>4

Groups(v) == 1 + Cardinality({k \in 1..(DoubleOctets + WordOctets) : Power(Half, k) <= v})

\* There are groups enough for the number.
LEMMA GroupsHold ==
    ASSUME NEW v \in 0..(Double - 1)
    PROVE  v \in Nat /\ Groups(v) \in Nat \ {0} /\ v < Power(Half, Groups(v))
  <1> DEFINE K == DoubleOctets + WordOctets
             big == {k \in 1..K : Power(Half, k) <= v}
             S == {k \in Nat : v < Power(Half, k + 1)}
  <1>1. /\ Half \in Nat \ {0} /\ Base \in Nat \ {0} /\ WordOctets \in Nat \ {0}
        /\ DoubleOctets = 2 * WordOctets /\ K = 3 * WordOctets /\ K \in Nat \ {0}
    BY BerAssumption, Limits DEF BerAssumption
  <1>2. Double \in Nat \ {0} /\ Double <= Power(Half, K)
    <2>1. Double \in Nat \ {0}
      BY <1>1, Powers DEF Double
    <2>2. Power(Base, 2 * WordOctets) <= Power(Half, 3 * WordOctets)
      BY <1>1, GroupsOutnumberOctets
    <2> QED
      BY <1>1, <2>1, <2>2 DEF Double
  <1>3. \A k \in Nat : Power(Half, k) \in Nat \ {0}
    BY <1>1, Powers
  <1>4. v \in Nat
    BY <1>2
  <1>5. K - 1 \in S
    <2>1. K - 1 \in Nat /\ (K - 1) + 1 = K
      BY <1>1
    <2>2. Power(Half, K) \in Nat
      BY <1>1, <1>3
    <2>3. v < Power(Half, K)
      BY <1>2, <1>4, <2>2
    <2> QED
      BY <2>1, <2>3
  <1>6. PICK m \in S : \A k \in S : m <= k
    <2>1. S # {} /\ S \subseteq Nat
      BY <1>5
    <2> HIDE DEF S
    <2> QED
      BY <2>1, LeastNatural
  <1>7. m \in Nat /\ m <= K - 1 /\ v < Power(Half, m + 1)
    BY <1>5, <1>6
  <1>8. big = 1..m
    <2>1. ASSUME NEW k \in 1..m PROVE k \in big
      <3>1. k - 1 \in Nat /\ ~(m <= k - 1) /\ (k - 1) + 1 = k /\ k \in 1..K /\ k \in Nat
        BY <1>1, <1>7
      <3>2. ~(v < Power(Half, k))
        BY <1>6, <3>1
      <3>3. Power(Half, k) \in Nat
        BY <1>3, <3>1
      <3>4. Power(Half, k) <= v
        BY <1>4, <3>2, <3>3
      <3> QED
        BY <3>1, <3>4
    <2>2. ASSUME NEW k \in big PROVE k \in 1..m
      <3>1. k \in 1..K /\ k \in Nat /\ Power(Half, k) <= v
        BY <1>1
      <3>2. CASE k > m
        <4>1. m + 1 \in Nat /\ m + 1 <= k
          BY <1>7, <3>1, <3>2
        <4>2. Power(Half, m + 1) <= Power(Half, k)
          BY <1>1, <3>1, <4>1, PowersGrow
        <4>3. Power(Half, m + 1) \in Nat /\ Power(Half, k) \in Nat
          BY <1>3, <3>1, <4>1
        <4> QED
          BY <1>4, <1>7, <3>1, <4>2, <4>3
      <3> QED
        BY <1>7, <3>1, <3>2
    <2> QED
      BY <2>1, <2>2
  <1>9. Cardinality(big) = m
    <2>1. Cardinality(1..m) = IF 1 > m THEN 0 ELSE m - 1 + 1
      BY <1>7, FS_Interval
    <2>2. (IF 1 > m THEN 0 ELSE m - 1 + 1) = m
      BY <1>7
    <2> HIDE DEF big
    <2> QED
      BY <1>8, <2>1, <2>2
  <1>10. Groups(v) = m + 1
    <2>1. Groups(v) = 1 + Cardinality(big)
      BY DEF Groups
    <2> QED
      BY <1>7, <1>9, <2>1
  <1> QED
    BY <1>4, <1>7, <1>10

\* Concatenation of numbers is associative.
LEMMA NumbersAssociative ==
    \A a, b, c \in Seq(Nat) : (a \o b) \o c = a \o (b \o c)
  BY ConcatAssociative

LEMMA PrefixAppend ==
    ASSUME NEW A, NEW s \in Seq(A), NEW u \in Seq(A), NEW i \in 1..Len(u)
    PROVE  /\ s \o SubSeq(u, 1, i) = Append(s \o SubSeq(u, 1, i - 1), u[i])
           /\ s \o SubSeq(u, 1, i - 1) \in Seq(A)
  <1> DEFINE a == SubSeq(u, 1, i)
             b == SubSeq(u, 1, i - 1)
  <1>1. /\ a \in Seq(A) /\ Len(a) = i /\ \A j \in 1..i : a[j] = u[j]
        /\ b \in Seq(A) /\ Len(b) = i - 1 /\ \A j \in 1..(i - 1) : b[j] = u[j]
        /\ u[i] \in A
    OBVIOUS
  <1> HIDE DEF a, b
  <1>2. a = Append(b, u[i])
    <2> DEFINE c == Append(b, u[i])
    <2>1. i \in Nat \ {0} /\ c \in Seq(A) /\ Len(c) = i /\ c[i] = u[i] /\ \A j \in 1..(i - 1) : c[j] = b[j]
      BY <1>1
    <2> HIDE DEF c
    <2>2. ASSUME NEW j \in 1..i PROVE a[j] = c[j]
      <3>1. CASE j = i
        BY <1>1, <2>1, <3>1
      <3>2. CASE j # i
        <4>1. j \in 1..(i - 1)
          BY <2>1, <3>2
        <4> QED
          BY <1>1, <2>1, <4>1
      <3> QED
        BY <3>1, <3>2
    <2>3. a = c
      BY <1>1, <2>1, <2>2
    <2> QED
      BY <2>3 DEF c
  <1>3. s \o Append(b, u[i]) = Append(s \o b, u[i])
    BY <1>1
  <1>4. s \o b \in Seq(A)
    BY <1>1
  <1> QED
    BY <1>2, <1>3, <1>4 DEF a, b

\* What the high bit leaves of an octet.
LEMMA GroupOctet ==
    ASSUME NEW x \in 0..(Half - 1)
    PROVE  /\ HighBit(x + Half) /\ ~HighBit(x + 0)
           /\ (x + Half) % Half = x /\ (x + 0) % Half = x
           /\ x + Half \in Nat /\ x + 0 \in Nat
  <1>1. Half \in Nat \ {0}
    BY Limits
  <1>2. (1 * Half + x) % Half = x /\ (0 * Half + x) % Half = x
    BY <1>1, QuotientUnique
  <1>3. 1 * Half + x = x + Half /\ 0 * Half + x = x + 0
    BY <1>1
  <1> QED
    BY <1>1, <1>2, <1>3 DEF HighBit

\* Accumulating the next group: no bit is lost while the number fits.
LEMMA AccumulateGroup ==
    ASSUME NEW a \in Nat, NEW room \in Nat, a < room, NEW octet \in Nat, octet % Half = a % Half
    PROVE  Accumulate(a \div Half, octet, room) = a
  <1> DEFINE q == a \div Half
             r == a % Half
  <1>1. Half \in Nat \ {0}
    BY Limits
  <1>2. q \in Nat /\ r \in 0..(Half - 1) /\ a = q * Half + r
    BY <1>1, QuotientIs
  <1> HIDE DEF q, r
  <1>3. q * Half \in 0..(room - 1) /\ room \in Nat \ {0} /\ q * Half \in Int
    <2>1. q * Half \in Nat
      BY <1>1, <1>2
    <2> QED
      BY <1>1, <1>2, <2>1
  <1>4. (q * Half) % room = q * Half
    BY <1>3, SignedRemainder
  <1> QED
    BY <1>2, <1>4 DEF Accumulate, q, r

\* Reading the octets of a number after others appends the number.
LEMMA Base128Reads ==
    ASSUME NEW s \in Seq(Nat), NEW v \in 0..(Double - 1), ReadOctets(s, Double).sum = 0
    PROVE  LET u == EncodeBase128(v)
           IN  /\ u \in Seq(Nat) /\ Len(u) \in Nat \ {0} /\ ~HighBit(u[Len(u)])
               /\ ReadOctets(s \o u, Double) = [sum |-> 0, ids |-> Append(ReadOctets(s, Double).ids, v)]
  <1> DEFINE g == Groups(v)
             u == EncodeBase128(v)
             part(i) == v \div Power(Half, g - i)
             ids == ReadOctets(s, Double).ids
             S == {i \in 0..(g - 1) : ReadOctets(s \o SubSeq(u, 1, i), Double) = [sum |-> part(i), ids |-> ids]}
  <1>1. Half \in Nat \ {0} /\ Base \in Nat \ {0} /\ DoubleOctets \in Nat
    BY BerAssumption, Limits DEF BerAssumption
  <1>2. v \in Nat /\ g \in Nat \ {0} /\ v < Power(Half, g)
    BY GroupsHold
  <1>3. Double \in Nat \ {0} /\ v < Double
    <2>1. Double \in Nat \ {0}
      BY <1>1, Powers DEF Double
    <2> QED
      BY <2>1
  <1>4. u = [i \in 1..g |-> (part(i) % Half) + (IF i < g THEN Half ELSE 0)]
    BY DEF EncodeBase128, Groups
  <1>5. ReadOctets(s, Double) = [sum |-> 0, ids |-> ids] /\ ids \in Seq(Nat)
    <2>1. 0 \in Nat
      OBVIOUS
    <2>2. ReadOctets(s, Double) \in Reading
      BY <1>3, <2>1, ReadOctetsAppend
    <2> QED
      BY <2>2 DEF Reading
  <1> HIDE DEF g, ids
  <1>6. ASSUME NEW i \in 0..g
        PROVE  Power(Half, g - i) \in Nat \ {0} /\ part(i) \in Nat /\ part(i) < Double
    <2> DEFINE p == Power(Half, g - i)
    <2>1. g - i \in Nat
      BY <1>2
    <2>2. p \in Nat \ {0}
      BY <1>1, <2>1, Powers
    <2> HIDE DEF p
    <2>3. v \div p \in Nat /\ v % p \in 0..(p - 1) /\ v = (v \div p) * p + (v % p)
      BY <1>2, <2>2, QuotientIs
    <2>4. v \div p <= v
      <3> DEFINE q == v \div p
                 r == v % p
      <3> HIDE DEF q, r
      <3>1. q \in Nat /\ r \in Nat /\ v = q * p + r
        BY <2>2, <2>3 DEF q, r
      <3>2. 1 <= p /\ 1 \in Nat /\ p \in Nat
        BY <2>2
      <3>3. 1 * q <= p * q
        BY <3>1, <3>2, Products
      <3>4. q <= v
        BY <1>2, <2>2, <3>1, <3>3
      <3> QED
        BY <3>4 DEF q
    <2>5. v \div p < Double
      BY <1>2, <1>3, <2>3, <2>4
    <2> QED
      BY <2>2, <2>3, <2>5 DEF p
  <1>7. ASSUME NEW i \in 1..g PROVE part(i - 1) = part(i) \div Half
    <2> DEFINE p == Power(Half, g - i)
    <2>1. g - i \in Nat /\ (g - i) + 1 = g - (i - 1)
      BY <1>2
    <2>2. p \in Nat \ {0} /\ Power(Half, (g - i) + 1) = Half * p
      BY <1>1, <2>1, Powers
    <2>3. Power(Half, g - (i - 1)) = p * Half
      BY <1>1, <2>1, <2>2
    <2> HIDE DEF p
    <2>4. v \div (p * Half) = (v \div p) \div Half
      BY <1>1, <1>2, <2>2, QuotientOfQuotient
    <2> QED
      BY <2>3, <2>4 DEF p
  <1>8. part(0) = 0 /\ part(g) = v
    <2>1. g - 0 = g /\ g - g = 0 /\ Power(Half, 0) = 1
      BY <1>1, <1>2, Powers
    <2>2. Power(Half, g) \in Nat \ {0}
      BY <1>1, <1>2, Powers
    <2>3. v \div Power(Half, g) = 0
      <3> DEFINE p == Power(Half, g)
      <3> HIDE DEF p
      <3>1. (0 * p + v) \div p = 0
        BY <1>2, <2>2, QuotientUnique DEF p
      <3>2. 0 * p + v = v
        BY <1>2, <2>2 DEF p
      <3> QED
        BY <3>1, <3>2 DEF p
    <2>4. v \div 1 = v
      BY <1>2
    <2> QED
      BY <2>1, <2>3, <2>4
  <1>9. ASSUME NEW i \in 1..g
        PROVE  /\ u[i] \in Nat /\ u[i] % Half = part(i) % Half
               /\ HighBit(u[i]) <=> i < g
    <2>1. part(i) \in Nat
      BY <1>2, <1>6
    <2> HIDE DEF part, u
    <2> DEFINE x == part(i) % Half
    <2>2. x \in 0..(Half - 1)
      BY <1>1, <2>1
    <2>3. u[i] = x + (IF i < g THEN Half ELSE 0)
      BY <1>4
    <2> HIDE DEF x
    <2>4. /\ HighBit(x + Half) /\ ~HighBit(x + 0)
          /\ (x + Half) % Half = x /\ (x + 0) % Half = x
          /\ x + Half \in Nat /\ x + 0 \in Nat
      BY <2>2, GroupOctet
    <2>5. u[i] \in Nat /\ u[i] % Half = x /\ (HighBit(u[i]) <=> i < g)
      BY <2>3, <2>4
    <2> QED
      BY <2>5 DEF x
  <1>10. u \in Seq(Nat) /\ Len(u) = g
    <2> HIDE DEF part
    <2>1. DOMAIN u = 1..g
      BY <1>4
    <2>2. u = [i \in 1..g |-> u[i]]
      BY <1>4
    <2> HIDE DEF u
    <2> QED
      BY <1>2, <1>9, <2>1, <2>2
  <1> HIDE DEF u
  <1>11. ASSUME NEW i \in 1..g, ReadOctets(s \o SubSeq(u, 1, i - 1), Double) = [sum |-> part(i - 1), ids |-> ids]
         PROVE  ReadOctets(s \o SubSeq(u, 1, i), Double) =
                    IF i < g THEN [sum |-> part(i), ids |-> ids]
                    ELSE [sum |-> 0, ids |-> Append(ids, part(i))]
    <2> DEFINE b == s \o SubSeq(u, 1, i - 1)
               st == [sum |-> part(i - 1), ids |-> ids]
    <2>1. s \o SubSeq(u, 1, i) = Append(b, u[i]) /\ b \in Seq(Nat)
      BY <1>10, PrefixAppend
    <2>2. u[i] \in Nat /\ u[i] % Half = part(i) % Half /\ (HighBit(u[i]) <=> i < g)
      BY <1>9
    <2>3. ReadOctets(b, Double) = st
      BY <1>11
    <2>4. part(i - 1) = part(i) \div Half /\ part(i) \in Nat /\ part(i) < Double
      BY <1>2, <1>6, <1>7
    <2> HIDE DEF b, part
    <2>5. ReadOctets(Append(b, u[i]), Double) = ReadOctet(st, u[i], Double)
      BY <1>3, <2>1, <2>2, <2>3, ReadOctetsAppend
    <2>6. Accumulate(part(i) \div Half, u[i], Double) = part(i)
      BY <1>3, <2>2, <2>4, AccumulateGroup
    <2>7. ReadOctet(st, u[i], Double) =
              IF i < g THEN [sum |-> part(i), ids |-> ids]
              ELSE [sum |-> 0, ids |-> Append(ids, part(i))]
      <3>1. st.sum = part(i) \div Half /\ st.ids = ids
        BY <2>4
      <3>2. Accumulate(st.sum, u[i], Double) = part(i)
        BY <2>6, <3>1
      <3>3. \A x : [st EXCEPT !.sum = x] = [sum |-> x, ids |-> ids]
        OBVIOUS
      <3> HIDE DEF st
      <3> QED
        BY <2>2, <3>1, <3>2, <3>3 DEF ReadOctet
    <2> QED
      BY <2>1, <2>5, <2>7
  <1>12. 0 \in S
    <2>1. SubSeq(u, 1, 0) = <<>> /\ s \o <<>> = s
      BY <1>10
    <2> HIDE DEF part
    <2>2. ReadOctets(s \o SubSeq(u, 1, 0), Double) = [sum |-> part(0), ids |-> ids]
      BY <1>5, <1>8, <2>1
    <2> QED
      BY <1>2, <2>2
  <1>13. ASSUME NEW i \in 1..(g - 1), i - 1 \in S PROVE i \in S
    <2>1. i \in 1..g /\ i < g /\ i \in 0..(g - 1)
      BY <1>2
    <2>2. ReadOctets(s \o SubSeq(u, 1, i), Double) = [sum |-> part(i), ids |-> ids]
      BY <1>11, <1>13, <2>1
    <2> QED
      BY <2>1, <2>2
  <1>14. 0..(g - 1) \subseteq S
    <2>1. g - 1 \in Nat
      BY <1>2
    <2> HIDE DEF S
    <2> QED
      BY <1>12, <1>13, <2>1, InductionUpTo
  <1>15. ReadOctets(s \o SubSeq(u, 1, g), Double) = [sum |-> 0, ids |-> Append(ids, v)]
    <2>1. g - 1 \in S /\ g \in 1..g /\ ~(g < g)
      BY <1>2, <1>14
    <2>2. ReadOctets(s \o SubSeq(u, 1, g), Double) = [sum |-> 0, ids |-> Append(ids, part(g))]
      BY <1>11, <2>1
    <2> QED
      BY <1>8, <2>2
  <1>16. SubSeq(u, 1, g) = u
    BY <1>10
  <1>17. ~HighBit(u[g])
    <2>1. g \in 1..g /\ ~(g < g)
      BY <1>2
    <2> QED
      BY <1>9, <2>1
  <1> QED
    BY <1>2, <1>10, <1>15, <1>16, <1>17 DEF u, ids

LEMMA SequenceOf ==
    ASSUME NEW A, NEW n \in Nat, NEW w, w = [i \in 1..n |-> w[i]], \A i \in 1..n : w[i] \in A
    PROVE  w \in Seq(A) /\ Len(w) = n
  <1>1. w \in [1..n -> A]
    OBVIOUS
  <1> QED
    BY <1>1

LEMMA FromThird ==
    ASSUME NEW A, NEW s \in Seq(A), Len(s) >= 2
    PROVE  /\ From(s, 3) \in Seq(A) /\ Len(From(s, 3)) = Len(s) - 2
           /\ \A i \in 1..(Len(s) - 2) : From(s, 3)[i] = s[i + 2]
  <1>1. 3 \in 1..(Len(s) + 1) /\ Len(s) + 1 - 3 = Len(s) - 2 /\ \A i \in 1..(Len(s) - 2) : 3 + i - 1 = i + 2
    OBVIOUS
  <1>2. /\ From(s, 3) \in Seq(A) /\ Len(From(s, 3)) = Len(s) + 1 - 3
        /\ \A i \in 1..(Len(s) + 1 - 3) : From(s, 3)[i] = s[3 + i - 1]
    BY <1>1, FromIs
  <1> QED
    BY <1>1, <1>2

\* The octets of an OID are read as its sub-identifiers.
LEMMA OidOctetsRead ==
    ASSUME NEW o, ValidOid(o)
    PROVE  LET z == EncodeOid(o)
           IN  /\ z \in Seq(Nat) /\ z # <<>> /\ ~HighBit(z[Len(z)])
               /\ SubIdentifiers(z, Double) = <<40 * o[1] + o[2]>> \o From(o, 3)
  <1> DEFINE L == Len(o) - 2
             c == 40 * o[1] + o[2]
             head == EncodeBase128(c)
             rest == From(o, 3)
             parts(n) == [i \in 1..n |-> EncodeBase128(o[i + 2])]
             z(n) == head \o FlattenSeq(parts(n))
             ids(n) == <<c>> \o SubSeq(rest, 1, n)
             Read(t, d) == /\ t \in Seq(Nat) /\ Len(t) \in Nat \ {0} /\ ~HighBit(t[Len(t)])
                           /\ ReadOctets(t, Double) = [sum |-> 0, ids |-> d]
             S == {n \in 0..L : parts(n) \in Seq(Seq(Nat)) /\ Read(z(n), ids(n))}
  <1>1. Word \in Nat \ {0} /\ Double \in Nat \ {0} /\ Word + 80 <= Double
    <2>1. Base \in Nat \ {0} /\ WordOctets \in Nat /\ DoubleOctets \in Nat
      BY BerAssumption, Limits DEF BerAssumption
    <2> QED
      BY <2>1, Powers, BerCodecAssumption DEF BerCodecAssumption, Word, Double
  <1>2. L \in Nat /\ o \in Seq(Nat) /\ \A i \in 1..Len(o) : o[i] \in 0..(Word - 1)
    BY <1>1 DEF ValidOid
  <1>3. c \in 0..(Double - 1) /\ c \in Nat
    <2>1. o[1] \in 0..(Word - 1) /\ o[2] \in 0..(Word - 1) /\ o[1] <= 2
      BY <1>2 DEF ValidOid
    <2> QED
      BY <1>1, <2>1
  <1>4. /\ rest \in Seq(Nat) /\ Len(rest) = L
        /\ \A i \in 1..L : rest[i] = o[i + 2] /\ o[i + 2] \in 0..(Double - 1) /\ o[i + 2] \in Nat
    <2>1. rest \in Seq(Nat) /\ Len(rest) = L /\ \A i \in 1..L : rest[i] = o[i + 2] /\ i + 2 \in 1..Len(o)
      BY <1>2, FromThird DEF ValidOid
    <2>2. \A i \in 1..L : o[i + 2] \in 0..(Word - 1)
      BY <1>2, <2>1
    <2> QED
      BY <1>1, <2>1, <2>2
  <1>5. ASSUME NEW t \in Seq(Nat), NEW v \in 0..(Double - 1), NEW d, ReadOctets(t, Double) = [sum |-> 0, ids |-> d]
        PROVE  EncodeBase128(v) \in Seq(Nat) /\ Read(t \o EncodeBase128(v), Append(d, v))
    <2> DEFINE u == EncodeBase128(v)
    <2>1. ReadOctets(t, Double).sum = 0 /\ ReadOctets(t, Double).ids = d
      BY <1>5
    <2>2. /\ u \in Seq(Nat) /\ Len(u) \in Nat \ {0} /\ ~HighBit(u[Len(u)])
          /\ ReadOctets(t \o u, Double) = [sum |-> 0, ids |-> Append(d, v)]
      BY <2>1, Base128Reads
    <2> HIDE DEF u
    <2>3. t \o u \in Seq(Nat) /\ Len(t \o u) = Len(t) + Len(u) /\ (t \o u)[Len(t) + Len(u)] = u[Len(u)]
          /\ Len(t) \in Nat
      BY <2>2
    <2>4. Read(t \o u, Append(d, v))
      BY <2>2, <2>3
    <2> QED
      BY <2>2, <2>4 DEF u
  <1> HIDE DEF Read, c, L, rest
  <1>6. 0 \in S
    <2>1. parts(0) = <<>> /\ parts(0) \in Seq(Seq(Nat)) /\ <<>> \in Seq(Nat) /\ 0 \in Nat
      OBVIOUS
    <2>2. FlattenSeq(parts(0)) = <<>>
      BY <2>1, FlattenAppend
    <2>3. ReadOctets(<<>>, Double) = [sum |-> 0, ids |-> <<>>]
      BY <1>1, <2>1, ReadOctetsAppend
    <2>4. head \in Seq(Nat) /\ Read(<<>> \o head, Append(<<>>, c))
      BY <1>3, <1>5, <2>1, <2>3
    <2> HIDE DEF head
    <2>5. <<>> \o head = head /\ head \o <<>> = head /\ Append(<<>>, c) = <<c>>
      BY <1>3, <2>4
    <2>6. ids(0) = <<c>>
      <3>1. SubSeq(rest, 1, 0) = <<>> /\ <<c>> \in Seq(Nat)
        BY <1>3, <1>4
      <3>2. <<c>> \o <<>> = <<c>>
        BY <3>1, ConcatEmptySeq
      <3> QED
        BY <3>1, <3>2
    <2>7. Read(z(0), ids(0))
      BY <2>2, <2>4, <2>5, <2>6
    <2> QED
      BY <1>2, <2>1, <2>7
  <1>7. ASSUME NEW n \in 1..L, n - 1 \in S PROVE n \in S
    <2> DEFINE p == parts(n - 1)
               e == EncodeBase128(o[n + 2])
               zp == z(n - 1)
    <2>0. p \in Seq(Seq(Nat)) /\ Read(zp, ids(n - 1))
      BY <1>7
    <2>1. /\ p \in Seq(Seq(Nat)) /\ Read(zp, ids(n - 1)) /\ n \in 0..L /\ n \in Nat
          /\ o[n + 2] \in 0..(Double - 1) /\ rest[n] = o[n + 2]
      <3>1. n \in 0..L /\ n \in Nat
        BY <1>2
      <3>2. o[n + 2] \in 0..(Double - 1) /\ rest[n] = o[n + 2]
        BY <1>4
      <3> QED
        BY <2>0, <3>1, <3>2
    <2>2. zp \in Seq(Nat) /\ ReadOctets(zp, Double) = [sum |-> 0, ids |-> ids(n - 1)]
      BY <2>1 DEF Read
    <2>3. e \in Seq(Nat) /\ Read(zp \o e, Append(ids(n - 1), o[n + 2]))
      <3> HIDE DEF zp, ids
      <3> QED
        BY <1>5, <2>1, <2>2
    <2>4. parts(n) = Append(p, e)
      <3>1. Len(p) = n - 1 /\ \A i \in 1..(n - 1) : p[i] = EncodeBase128(o[i + 2])
        BY <2>1
      <3>2. /\ \A i \in 1..n : parts(n)[i] = EncodeBase128(o[i + 2])
            /\ DOMAIN parts(n) = 1..n /\ parts(n) = [i \in 1..n |-> parts(n)[i]]
        OBVIOUS
      <3>3. \A i \in 1..(n - 1) : i \in 1..n /\ EncodeBase128(o[i + 2]) = p[i]
        BY <2>1, <3>1
      <3>4. \A i \in 1..n : i = n \/ i \in 1..(n - 1)
        BY <2>1
      <3>5. EncodeBase128(o[n + 2]) = e
        OBVIOUS
      <3> HIDE DEF p, e, parts
      <3>6. Append(p, e) \in Seq(Seq(Nat)) /\ Len(Append(p, e)) = n /\ Append(p, e)[n] = e
            /\ \A i \in 1..(n - 1) : Append(p, e)[i] = p[i]
        BY <2>1, <2>3, <3>1
      <3>7. \A i \in 1..n : parts(n)[i] = Append(p, e)[i]
        BY <3>2, <3>3, <3>4, <3>5, <3>6
      <3>8. \A i \in 1..n : parts(n)[i] \in Seq(Nat)
        <4>1. \A i \in 1..n : Append(p, e)[i] \in Seq(Nat)
          BY <3>6
        <4> QED
          BY <3>7, <4>1
      <3>9. parts(n) \in Seq(Seq(Nat)) /\ Len(parts(n)) = n
        BY <2>1, <3>2, <3>8, SequenceOf
      <3> QED
        BY <3>6, <3>7, <3>9, SeqEqual
    <2>5. parts(n) \in Seq(Seq(Nat))
      <3> HIDE DEF p, e, parts
      <3> QED
        BY <2>1, <2>3, <2>4
    <2>6. FlattenSeq(p) \in Seq(Nat) /\ FlattenSeq(Append(p, e)) = FlattenSeq(p) \o e
      <3> HIDE DEF p, e
      <3> QED
        BY <2>1, <2>3, FlattenAppend
    <2>7. head \in Seq(Nat)
      <3>1. <<>> \in Seq(Nat) /\ 0 \in Nat
        OBVIOUS
      <3>2. ReadOctets(<<>>, Double) = [sum |-> 0, ids |-> <<>>]
        BY <1>1, <3>1, ReadOctetsAppend
      <3> QED
        BY <1>3, <1>5, <3>1, <3>2
    <2>8. z(n) = zp \o e
      <3>1. zp = head \o FlattenSeq(p)
        OBVIOUS
      <3>2. z(n) = head \o FlattenSeq(Append(p, e))
        BY <2>4
      <3> HIDE DEF zp, p, e, head, z
      <3>3. head \o (FlattenSeq(p) \o e) = (head \o FlattenSeq(p)) \o e
        <4>1. head \in Seq(Nat) /\ FlattenSeq(p) \in Seq(Nat) /\ e \in Seq(Nat)
          BY <2>3, <2>6, <2>7
        <4> QED
          BY <4>1, NumbersAssociative, Zenon
      <3> QED
        BY <2>6, <3>1, <3>2, <3>3
    <2>9. ids(n) = Append(ids(n - 1), o[n + 2])
      <3> DEFINE first == <<c>>
      <3>1. first \in Seq(Nat) /\ n \in 1..Len(rest) /\ rest \in Seq(Nat)
        BY <1>3, <1>4
      <3> HIDE DEF first
      <3>2. first \o SubSeq(rest, 1, n) = Append(first \o SubSeq(rest, 1, n - 1), rest[n])
        BY <3>1, PrefixAppend
      <3> QED
        BY <2>1, <3>2 DEF first
    <2>10. Read(z(n), ids(n))
      <3> HIDE DEF z, zp, e, ids
      <3> QED
        BY <2>3, <2>8, <2>9
    <2> HIDE DEF parts, z, ids
    <2> QED
      BY <2>1, <2>5, <2>10
  <1>8. L \in S
    <2>1. 0..L \subseteq S
      <3> HIDE DEF S
      <3> QED
        BY <1>2, <1>6, <1>7, InductionUpTo
    <2> QED
      BY <1>2, <2>1
  <1>9. Read(z(L), ids(L))
    BY <1>8
  <1>10. EncodeOid(o) = z(L)
    BY DEF EncodeOid, c, L
  <1>11. ids(L) = <<c>> \o rest
    BY <1>4
  <1> HIDE DEF z, ids
  <1>12. z(L) \in Seq(Nat) /\ z(L) # <<>> /\ ~HighBit(z(L)[Len(z(L))]) /\ SubIdentifiers(z(L), Double) = ids(L)
    BY <1>9 DEF Read, SubIdentifiers
  <1> QED
    BY <1>10, <1>11, <1>12 DEF c, rest

LEMMA OidReadsBack ==
    ASSUME NEW o, ValidOid(o)
    PROVE  DecodeOid(EncodeOid(o)) = Ok(o)
  <1> DEFINE z == EncodeOid(o)
             c == 40 * o[1] + o[2]
             rest == From(o, 3)
             ids == <<c>> \o rest
  <1>1. z \in Seq(Nat) /\ z # <<>> /\ ~HighBit(z[Len(z)]) /\ SubIdentifiers(z, Double) = ids
    BY OidOctetsRead
  <1> HIDE DEF z
  <1>2. Word \in Nat \ {0}
    <2>1. Base \in Nat \ {0} /\ WordOctets \in Nat
      BY BerAssumption, Limits DEF BerAssumption
    <2> QED
      BY <2>1, Powers DEF Word
  <1>3. /\ o \in Seq(Nat) /\ Len(o) >= 2 /\ Len(o) <= MAX_OID_SUB_IDENTIFIERS
        /\ \A i \in 1..Len(o) : o[i] \in 0..(Word - 1)
        /\ o[1] \in 0..2 /\ o[2] \in Nat /\ (o[1] <= 1 => o[2] <= 39)
    BY <1>2 DEF ValidOid
  <1>4. /\ rest \in Seq(Nat) /\ Len(rest) = Len(o) - 2
        /\ \A i \in 1..(Len(o) - 2) : rest[i] = o[i + 2]
    BY <1>3, FromThird
  <1>5. c \in Nat
    BY <1>3
  <1>6. Arcs(ids) = o
    <2> DEFINE first == IF c < 40 THEN 0 ELSE IF c < 80 THEN 1 ELSE 2
               a == <<first, c - 40 * first>> \o rest
    <2>1. ids[1] = c /\ Tail(ids) = rest
      <3> HIDE DEF c, rest
      <3> QED
        BY <1>4, <1>5
    <2>2. first = o[1] /\ c - 40 * first = o[2]
      BY <1>3
    <2>3. Arcs(ids) = a
      <3> HIDE DEF ids, rest, c
      <3> QED
        BY <2>1 DEF Arcs
    <2>4. a = <<o[1], o[2]>> \o rest
      BY <2>2
    <2> HIDE DEF rest, c, a, first
    <2>5. <<o[1], o[2]>> \o rest = o
      <3> DEFINE y == <<o[1], o[2]>> \o rest
      <3>1. y \in Seq(Nat) /\ Len(y) = Len(o) /\ y[1] = o[1] /\ y[2] = o[2]
            /\ \A i \in 1..(Len(o) - 2) : y[i + 2] = rest[i]
        BY <1>3, <1>4
      <3> HIDE DEF y
      <3>2. ASSUME NEW i \in 1..Len(o) PROVE y[i] = o[i]
        <4>1. CASE i > 2
          <5>1. i - 2 \in 1..(Len(o) - 2) /\ (i - 2) + 2 = i
            BY <1>3, <4>1
          <5> QED
            BY <1>4, <3>1, <5>1
        <4>2. CASE ~(i > 2)
          BY <1>3, <3>1, <4>2
        <4> QED
          BY <4>1, <4>2
      <3>3. y = o
        BY <1>3, <3>1, <3>2, SeqEqual
      <3> QED
        BY <3>3 DEF y
    <2> QED
      BY <2>3, <2>4, <2>5
  <1> HIDE DEF ids
  <1>7. /\ ~\E i \in DOMAIN Arcs(ids) : Arcs(ids)[i] >= Word
        /\ ~(Len(Arcs(ids)) > MAX_OID_SUB_IDENTIFIERS)
    <2>1. \A i \in DOMAIN o : o[i] \in 0..(Word - 1)
      BY <1>3
    <2>2. ~\E i \in DOMAIN o : o[i] >= Word
      BY <1>2, <2>1
    <2>3. ~(Len(o) > MAX_OID_SUB_IDENTIFIERS)
      BY <1>3, BerAssumption DEF BerAssumption
    <2> QED
      BY <1>6, <2>2, <2>3
  <1>8. OidOf(z, ids) = Ok(o)
    BY <1>1, <1>6, <1>7 DEF OidOf
  <1> QED
    BY <1>1, <1>8 DEF DecodeOid, z

-----------------------------------------------------------------------------

\* Every integer, length and OID that the agent writes, it reads back, and its
\* integers take the shortest form, whatever the widths of octets and words.
THEOREM WritesReadBack == CodecSpec => []RoundTrip
  <1>1. CodecInit => RoundTrip
    BY DEF CodecInit, RoundTrip
  <1>2. RoundTrip /\ [CodecNext]_codecVars => RoundTrip'
    <2> SUFFICES ASSUME RoundTrip, [CodecNext]_codecVars PROVE RoundTrip'
      OBVIOUS
    <2>1. WordOctets \in Nat \ {0} /\ DoubleOctets \in Nat \ {0} /\ Base \in Nat \ {0}
      BY BerAssumption, Limits DEF BerAssumption
    <2>2. Word \in Nat \ {0} /\ Double \in Nat \ {0}
      BY <2>1, Powers DEF Word, Double
    <2>3. CASE UNCHANGED codecVars
      BY <2>3 DEF codecVars, RoundTrip, Shortest
    <2>4. ASSUME NEW octet \in PeerOctets, PeerContent(octet) PROVE RoundTrip'
      BY <2>4 DEF PeerContent, RoundTrip
    <2>5. ASSUME NEW v \in -(Word \div 2)..(Word \div 2 - 1), Encodes("i32", v, EncodeSigned(v))
          PROVE  RoundTrip'
      <3> DEFINE z == EncodeSigned(v)
      <3>1. z \in Seq(Octets) /\ z # <<>> /\ TwosComplement(z) = v /\ Shortest(z)
        BY SignedMeans
      <3>2. octets' = z /\ written'.kind = "i32" /\ written'.value = v
        BY <2>5 DEF Encodes
      <3> HIDE DEF z
      <3>3. DecodeSigned(z) = Ok(v)
        BY <3>1, DecodeSignedExact
      <3> QED
        BY <3>1, <3>2, <3>3 DEF RoundTrip, Shortest
    <2>6. ASSUME NEW v \in 0..(Word - 1), Encodes("u32", v, EncodeUnsigned(v, WordOctets))
          PROVE  RoundTrip'
      <3> DEFINE z == EncodeUnsigned(v, WordOctets)
      <3>1. v \in Nat /\ v < Power(Base, WordOctets) /\ v \in 0..(Power(Base, WordOctets) - 1)
        BY <2>2 DEF Word
      <3>2. z \in Seq(Octets) /\ z # <<>> /\ TwosComplement(z) = v /\ Shortest(z)
        BY <2>1, <3>1, UnsignedMeans, EncodeUnsignedType
      <3>3. octets' = z /\ written'.kind = "u32" /\ written'.value = v
        BY <2>6 DEF Encodes
      <3> HIDE DEF z
      <3>4. DecodeUnsigned(z, WordOctets) = Ok(v)
        BY <2>1, <3>1, <3>2, DecodeUnsignedExact
      <3> QED
        BY <3>2, <3>3, <3>4 DEF RoundTrip, Shortest
    <2>7. ASSUME NEW v \in Unsigned64s, Encodes("u64", v, EncodeUnsigned(v, DoubleOctets))
          PROVE  RoundTrip'
      <3> DEFINE z == EncodeUnsigned(v, DoubleOctets)
      <3>0. v \in 0..(Double - 1)
        BY BerCodecAssumption DEF BerCodecAssumption
      <3>1. v \in Nat /\ v < Power(Base, DoubleOctets) /\ v \in 0..(Power(Base, DoubleOctets) - 1)
        BY <2>2, <3>0 DEF Double
      <3>2. z \in Seq(Octets) /\ z # <<>> /\ TwosComplement(z) = v /\ Shortest(z)
        BY <2>1, <3>1, UnsignedMeans, EncodeUnsignedType
      <3>3. octets' = z /\ written'.kind = "u64" /\ written'.value = v
        BY <2>7 DEF Encodes
      <3> HIDE DEF z
      <3>4. DecodeUnsigned(z, DoubleOctets) = Ok(v)
        BY <2>1, <3>1, <3>2, DecodeUnsignedExact
      <3> QED
        BY <3>2, <3>3, <3>4 DEF RoundTrip, Shortest
    <2>8. ASSUME NEW n \in Lengths, Encodes("length", n, EncodeLength(n)) PROVE RoundTrip'
      <3> DEFINE z == EncodeLength(n)
      <3>0. n \in 0..(Double - 1)
        BY BerCodecAssumption DEF BerCodecAssumption
      <3>1. ReadLength(z) = Taking(n, Len(z))
        BY <3>0, LengthReadsBack
      <3>2. octets' = z /\ written'.kind = "length" /\ written'.value = n
        BY <2>8 DEF Encodes
      <3> HIDE DEF z
      <3> QED
        BY <3>1, <3>2 DEF RoundTrip
    <2>9. ASSUME NEW o \in Oids, Encodes("oid", o, EncodeOid(o)) PROVE RoundTrip'
      <3> DEFINE z == EncodeOid(o)
      <3>0. ValidOid(o)
        BY BerCodecAssumption DEF BerCodecAssumption
      <3>1. DecodeOid(z) = Ok(o)
        BY <3>0, OidReadsBack
      <3>2. octets' = z /\ written'.kind = "oid" /\ written'.value = o
        BY <2>9 DEF Encodes
      <3> HIDE DEF z
      <3> QED
        BY <3>1, <3>2 DEF RoundTrip
    <2> QED
      BY <2>3, <2>4, <2>5, <2>6, <2>7, <2>8, <2>9 DEF CodecNext
  <1> QED
    BY <1>1, <1>2, PTL DEF CodecSpec

-----------------------------------------------------------------------------
(* Frames *)

LEMMA FramingLimits ==
    /\ StreamOctets \subseteq Octets
    /\ MaxLengthOctets \in Nat /\ MaxLengthOctets <= DoubleOctets /\ MaxLengthOctets < Half - 1
    /\ MAX_FRAME_SIZE \in Nat /\ MAX_FRAME_SIZE >= MaxLengthOctets + 2
    /\ Usize \in Nat /\ MAX_FRAME_SIZE < Usize
  BY BerAssumption, FramingAssumption DEF BerAssumption, FramingAssumption, Base, Octets

-----------------------------------------------------------------------------
(* Length octets *)

\* The length octets of a sequence.
LEMMA LengthOctetsOf ==
    ASSUME NEW s \in Seq(Nat), NEW k \in Nat, 2 + k <= Len(s)
    PROVE  /\ SubSeq(s, 3, 2 + k) \in Seq(Nat) /\ Len(SubSeq(s, 3, 2 + k)) = k
           /\ \A i \in 1..k : SubSeq(s, 3, 2 + k)[i] = s[i + 2]
  <1>1. Len(s) \in Nat /\ \A i \in 1..Len(s) : s[i] \in Nat
    OBVIOUS
  <1>2. \A i \in 3..(2 + k) : i \in 1..Len(s)
    BY <1>1
  <1>3. \A i \in 3..(2 + k) : s[i] \in Nat
    BY <1>1, <1>2
  <1>4. 3 \in Int /\ 2 + k \in Int /\ (2 + k) - 3 + 1 = k
    OBVIOUS
  <1>5. (IF 3 <= 2 + k THEN (2 + k) - 3 + 1 ELSE 0) = k
    OBVIOUS
  <1>6. \A i \in 1..k : 3 + i - 1 = i + 2
    OBVIOUS
  <1>7. /\ SubSeq(s, 3, 2 + k) \in Seq(Nat) /\ Len(SubSeq(s, 3, 2 + k)) = k
        /\ \A i \in 1..k : SubSeq(s, 3, 2 + k)[i] = s[3 + i - 1]
    BY <1>3, <1>4, <1>5, SubSeqProperties
  <1> QED
    BY <1>6, <1>7

\* The length octets of two sequences that agree on them.
LEMMA SameOctets ==
    ASSUME NEW s \in Seq(Nat), NEW t \in Seq(Nat), NEW k \in Nat,
           2 + k <= Len(s), 2 + k <= Len(t),
           \A i \in 1..(2 + k) : s[i] = t[i]
    PROVE  /\ SubSeq(s, 3, 2 + k) = SubSeq(t, 3, 2 + k)
           /\ SubSeq(s, 3, 2 + k) \in Seq(Nat)
  <1> DEFINE u == SubSeq(s, 3, 2 + k)
             v == SubSeq(t, 3, 2 + k)
  <1>1. /\ u \in Seq(Nat) /\ Len(u) = k
        /\ \A i \in 1..k : u[i] = s[i + 2]
    BY LengthOctetsOf
  <1>2. /\ v \in Seq(Nat) /\ Len(v) = k
        /\ \A i \in 1..k : v[i] = t[i + 2]
    BY LengthOctetsOf
  <1>3. ASSUME NEW i \in 1..k PROVE u[i] = v[i]
    <2>1. i + 2 \in 1..(2 + k)
      OBVIOUS
    <2> HIDE DEF u, v
    <2> QED
      BY <1>1, <1>2, <2>1
  <1> HIDE DEF u, v
  <1>4. u = v
    BY <1>1, <1>2, <1>3, SeqEqual
  <1> QED
    BY <1>1, <1>4 DEF u, v
-----------------------------------------------------------------------------
(* The frame parser *)

\* What next_complete_frame makes of the size a frame announces.
Sized(total, available) ==
    IF total > MAX_FRAME_SIZE THEN Close
    ELSE IF total > available THEN Incomplete
    ELSE Complete(total)

\* The size the front of s announces with k length octets behind the first.
LongSize(s, k) == 2 + k + FromBeBytes(SubSeq(s, 3, 2 + k))

\* parse_ber_length behind the tag, in terms of the octets of the buffer.
LEMMA LengthBehindTag ==
    ASSUME NEW buf \in Seq(Octets), Len(buf) >= 2
    PROVE  ParseBerLength(Tail(buf)) =
               IF buf[2] < Half THEN Taking(buf[2], 1)
               ELSE IF buf[2] = Half \/ buf[2] - Half > MaxLengthOctets THEN Close
               ELSE IF Len(buf) < 2 + (buf[2] - Half) THEN Incomplete
               ELSE Taking(FromBeBytes(SubSeq(buf, 3, 2 + (buf[2] - Half))), 1 + (buf[2] - Half))
  <1> DEFINE t == Tail(buf)
             k == buf[2] - Half
  <1>1. /\ buf # <<>> /\ t \in Seq(Octets) /\ Len(t) = Len(buf) - 1
        /\ \A i \in 1..Len(t) : t[i] = buf[i + 1]
    BY HeadTailProperties
  <1>2. t # <<>> /\ t[1] = buf[2] /\ buf[2] \in Nat /\ Half \in Nat
    <2>1. buf[2] \in Nat /\ Half \in Nat /\ Len(buf) \in Nat
      BY Limits, FramingLimits, OctetSequences
    <2> HIDE DEF t
    <2>2. t # <<>> /\ t[1] = buf[1 + 1]
      BY <1>1, <2>1, OctetSequences
    <2> QED
      BY <2>1, <2>2
  <1>3. ASSUME k \in Nat, Len(buf) >= 2 + k
        PROVE  SubSeq(t, 2, 1 + k) = SubSeq(buf, 3, 2 + k)
    <2>1. t = SubSeq(buf, 2, Len(buf))
      BY <1>1, TailIsSubSeq
    <2> HIDE DEF t, k
    <2>2. CASE k = 0
      BY <2>2, SubSeqEmpty
    <2>3. CASE k # 0
      <3>1. /\ 2 \in 1..Len(buf) /\ Len(buf) \in 1..Len(buf)
            /\ 2 \in 1..(Len(buf) - 2 + 1) /\ 1 + k \in 1..(Len(buf) - 2 + 1)
        BY <1>3, <2>3
      <3>2. SubSeq(SubSeq(buf, 2, Len(buf)), 2, 1 + k) = SubSeq(buf, 2 + 2 - 1, 2 + (1 + k) - 1)
        BY <3>1, SubSeqOfSubSeq
      <3> QED
        BY <1>3, <2>1, <3>2
    <2> QED
      BY <2>2, <2>3
  <1> HIDE DEF t
  <1>4. ParseBerLength(t) =
            IF buf[2] < Half THEN Taking(buf[2], 1)
            ELSE IF k = 0 \/ k > MaxLengthOctets THEN Close
            ELSE IF Len(t) < 1 + k THEN Incomplete
            ELSE Taking(FromBeBytes(SubSeq(t, 2, 1 + k)), 1 + k)
    BY <1>2 DEF ParseBerLength, HighBit
  <1>5. CASE buf[2] < Half
    BY <1>4, <1>5 DEF t
  <1>6. CASE ~(buf[2] < Half)
    <2>1. k \in Nat /\ (k = 0 <=> buf[2] = Half) /\ (Len(t) < 1 + k <=> Len(buf) < 2 + k)
      BY <1>1, <1>2, <1>6
    <2>2. CASE Len(t) < 1 + k
      BY <1>4, <1>6, <2>1, <2>2 DEF t
    <2>3. CASE ~(Len(t) < 1 + k)
      <3>1. SubSeq(t, 2, 1 + k) = SubSeq(buf, 3, 2 + k)
        BY <1>1, <1>3, <2>1, <2>3
      <3> QED
        BY <1>4, <1>6, <2>1, <2>3, <3>1 DEF t
    <2> QED
      BY <2>2, <2>3
  <1> QED
    BY <1>5, <1>6

\* next_complete_frame in terms of the octets of the buffer.
LEMMA NextFrame ==
    ASSUME NEW buf \in Seq(Octets)
    PROVE  /\ Len(buf) = 0 => NextCompleteFrame(buf) = Incomplete
           /\ Len(buf) >= 1 /\ buf[1] # TAG_SEQUENCE => NextCompleteFrame(buf) = Close
           /\ Len(buf) = 1 /\ buf[1] = TAG_SEQUENCE => NextCompleteFrame(buf) = Incomplete
           /\ Len(buf) >= 2 /\ buf[1] = TAG_SEQUENCE =>
                 LET k == buf[2] - Half
                 IN  NextCompleteFrame(buf) =
                         IF buf[2] < Half THEN Sized(2 + buf[2], Len(buf))
                         ELSE IF k = 0 \/ k > MaxLengthOctets THEN Close
                         ELSE IF Len(buf) < 2 + k THEN Incomplete
                         ELSE Sized(LongSize(buf, k), Len(buf))
  <1>1. Len(buf) \in Nat /\ (Len(buf) = 0 <=> buf = <<>>)
    BY OctetSequences
  <1>2. CASE Len(buf) = 0
    BY <1>1, <1>2 DEF NextCompleteFrame
  <1>3. CASE Len(buf) >= 1 /\ buf[1] # TAG_SEQUENCE
    BY <1>1, <1>3 DEF NextCompleteFrame
  <1>4. CASE Len(buf) = 1 /\ buf[1] = TAG_SEQUENCE
    <2>1. Tail(buf) = <<>>
      <3>1. Tail(buf) \in Seq(Octets) /\ Len(Tail(buf)) = 0
        BY <1>1, <1>4, HeadTailProperties
      <3> QED
        BY <3>1, OctetSequences
    <2>2. ParseBerLength(Tail(buf)) = Incomplete /\ "outcome" \in DOMAIN Incomplete
      BY <2>1 DEF ParseBerLength, Incomplete
    <2> QED
      BY <1>1, <1>4, <2>2 DEF NextCompleteFrame
  <1>5. CASE Len(buf) >= 2 /\ buf[1] = TAG_SEQUENCE
    <2> DEFINE k == buf[2] - Half
               length == ParseBerLength(Tail(buf))
    <2>1. buf # <<>> /\ buf[2] \in Nat /\ Half \in Nat /\ MAX_FRAME_SIZE < Usize
          /\ MAX_FRAME_SIZE \in Nat /\ Usize \in Nat
      BY <1>1, <1>5, Limits, FramingLimits, OctetSequences
    <2>2. "outcome" \in DOMAIN Incomplete /\ "outcome" \in DOMAIN Close
      BY DEF Incomplete, Close
    <2>3. ASSUME NEW n \in Nat, NEW used \in Nat, length = Taking(n, used)
          PROVE  NextCompleteFrame(buf) = Sized(1 + used + n, Len(buf))
      <3>1. "outcome" \notin DOMAIN length /\ length.used = used /\ length.value = n
        BY <2>3 DEF Taking
      <3> DEFINE total == TotalFrameSize(length.used, length.value)
      <3>2. total >= Usize \/ total > MAX_FRAME_SIZE <=> 1 + used + n > MAX_FRAME_SIZE
        BY <2>1, <3>1 DEF TotalFrameSize
      <3>3. 1 + used + n <= MAX_FRAME_SIZE => total = 1 + used + n
        BY <2>1, <3>1 DEF TotalFrameSize
      <3>4. NextCompleteFrame(buf) =
                IF total >= Usize \/ total > MAX_FRAME_SIZE THEN Close
                ELSE IF total > Len(buf) THEN Incomplete
                ELSE Complete(total)
        BY <1>5, <2>1, <3>1 DEF NextCompleteFrame
      <3> HIDE DEF total
      <3> QED
        BY <2>1, <3>2, <3>3, <3>4 DEF Sized
    <2>4. CASE buf[2] < Half
      <3>1. length = Taking(buf[2], 1)
        BY <1>5, <2>4, LengthBehindTag
      <3>2. NextCompleteFrame(buf) = Sized(1 + 1 + buf[2], Len(buf))
        BY <2>1, <2>3, <3>1
      <3> QED
        BY <1>5, <2>1, <2>4, <3>2
    <2>5. CASE ~(buf[2] < Half) /\ (k = 0 \/ k > MaxLengthOctets)
      <3>1. length = Close
        BY <1>5, <2>1, <2>5, LengthBehindTag
      <3>2. NextCompleteFrame(buf) = Close
        BY <1>5, <2>1, <2>2, <3>1 DEF NextCompleteFrame
      <3> QED
        BY <1>5, <2>1, <2>5, <3>2
    <2>6. CASE ~(buf[2] < Half) /\ ~(k = 0 \/ k > MaxLengthOctets) /\ Len(buf) < 2 + k
      <3>1. length = Incomplete
        BY <1>5, <2>1, <2>6, LengthBehindTag
      <3>2. NextCompleteFrame(buf) = Incomplete
        BY <1>5, <2>1, <2>2, <3>1 DEF NextCompleteFrame
      <3> QED
        BY <1>5, <2>1, <2>6, <3>2
    <2>7. CASE ~(buf[2] < Half) /\ ~(k = 0 \/ k > MaxLengthOctets) /\ ~(Len(buf) < 2 + k)
      <3> DEFINE n == FromBeBytes(SubSeq(buf, 3, 2 + k))
      <3>1. length = Taking(n, 1 + k)
        BY <1>5, <2>1, <2>7, LengthBehindTag
      <3>2. k \in Nat /\ n \in Nat
        <4>1. k \in Nat /\ buf \in Seq(Nat)
          BY <2>1, <2>7, OctetSequences
        <4>2. SubSeq(buf, 3, 2 + k) \in Seq(Nat)
          BY <1>1, <2>7, <4>1, SameOctets
        <4> QED
          BY <4>1, <4>2, FromBeBytesType
      <3> HIDE DEF length
      <3>3. NextCompleteFrame(buf) = Sized(1 + (1 + k) + n, Len(buf))
        BY <2>3, <3>1, <3>2
      <3>4. 1 + (1 + k) + n = LongSize(buf, k)
        BY <3>2 DEF LongSize
      <3> QED
        BY <1>5, <2>1, <2>7, <3>3, <3>4
    <2> QED
      BY <2>4, <2>5, <2>6, <2>7
  <1> QED
    BY <1>1, <1>2, <1>3, <1>4, <1>5

\* The sizes a frame can have: k is the number of length octets behind the
\* first, 0 in short form.
SizeOf(s, k) == IF k = 0 THEN 2 + s[2] ELSE LongSize(s, k)
FormOf(s, k) == IF k = 0 THEN s[2] < Half ELSE s[2] = Half + k

\* A frame, in these terms.
LEMMA FrameForm ==
    ASSUME NEW s \in Seq(Octets)
    PROVE  IsFrame(s) <=>
               /\ Len(s) <= MAX_FRAME_SIZE /\ Len(s) >= 2 /\ s[1] = TAG_SEQUENCE
               /\ \E k \in 0..MaxLengthOctets :
                     FormOf(s, k) /\ Len(s) >= 2 + k /\ Len(s) = SizeOf(s, k)
  <1>1. Len(s) \in Nat /\ MaxLengthOctets \in Nat /\ Half \in Nat
    BY Limits, FramingLimits, OctetSequences
  <1>2. ASSUME NEW k \in 1..MaxLengthOctets, Len(s) >= 2 + k
        PROVE  FromBeBytes(SubSeq(s, 3, 2 + k)) = Len(s) - 2 - k <=> Len(s) = LongSize(s, k)
    <2>1. s \in Seq(Nat) /\ k \in Nat /\ 2 + k <= Len(s)
      BY <1>1, <1>2, OctetSequences
    <2>2. SubSeq(s, 3, 2 + k) \in Seq(Nat)
      BY <2>1, SameOctets
    <2>3. FromBeBytes(SubSeq(s, 3, 2 + k)) \in Nat
      BY <2>2, FromBeBytesType
    <2> QED
      BY <1>1, <2>1, <2>3 DEF LongSize
  <1>3. ASSUME NEW k \in 1..MaxLengthOctets
        PROVE  (s[2] = Half + k /\ Len(s) >= 2 + k
                    /\ FromBeBytes(SubSeq(s, 3, 2 + k)) = Len(s) - 2 - k)
               <=> (FormOf(s, k) /\ Len(s) >= 2 + k /\ Len(s) = SizeOf(s, k))
    BY <1>2, <1>3 DEF FormOf, SizeOf
  <1>4. ASSUME Len(s) >= 2
        PROVE  (s[2] < Half /\ Len(s) = 2 + s[2])
               <=> (FormOf(s, 0) /\ Len(s) >= 2 + 0 /\ Len(s) = SizeOf(s, 0))
    BY <1>1, <1>4 DEF FormOf, SizeOf
  <1>5. \A k \in 0..MaxLengthOctets : k = 0 \/ k \in 1..MaxLengthOctets
    BY <1>1
  <1>6. 0 \in 0..MaxLengthOctets /\ \A k \in 1..MaxLengthOctets : k \in 0..MaxLengthOctets
    BY <1>1
  <1> QED
    BY <1>3, <1>4, <1>5, <1>6 DEF IsFrame

\* Sequences that agree on the tag and the length octets have the same form.
LEMMA SameForm ==
    ASSUME NEW s \in Seq(Octets), NEW t \in Seq(Octets), NEW k \in Nat,
           2 + k <= Len(s), 2 + k <= Len(t),
           \A i \in 1..(2 + k) : s[i] = t[i]
    PROVE  /\ FormOf(s, k) <=> FormOf(t, k)
           /\ SizeOf(s, k) = SizeOf(t, k) /\ SizeOf(s, k) \in Nat
  <1>1. s[2] = t[2] /\ s \in Seq(Nat) /\ t \in Seq(Nat) /\ s[2] \in Nat
    BY OctetSequences
  <1>2. SubSeq(s, 3, 2 + k) = SubSeq(t, 3, 2 + k) /\ SubSeq(s, 3, 2 + k) \in Seq(Nat)
    BY <1>1, SameOctets
  <1>3. FromBeBytes(SubSeq(s, 3, 2 + k)) \in Nat
    BY <1>2, FromBeBytesType
  <1>4. FormOf(s, k) <=> FormOf(t, k)
    BY <1>1 DEF FormOf
  <1>5. SizeOf(s, k) = SizeOf(t, k)
    BY <1>1, <1>2 DEF SizeOf, LongSize
  <1>6. SizeOf(s, k) \in Nat
    <2> DEFINE v == FromBeBytes(SubSeq(s, 3, 2 + k))
    <2> HIDE DEF v
    <2>1. 2 + k + v \in Nat /\ 2 + s[2] \in Nat
      BY <1>1, <1>3, Numbers DEF v
    <2> QED
      BY <2>1 DEF SizeOf, LongSize, v
  <1> QED
    BY <1>4, <1>5, <1>6

\* next_complete_frame decides by form and size.
LEMMA NextByForm ==
    ASSUME NEW buf \in Seq(Octets), Len(buf) >= 2, buf[1] = TAG_SEQUENCE,
           NEW k \in 0..MaxLengthOctets, FormOf(buf, k)
    PROVE  NextCompleteFrame(buf) =
               IF Len(buf) < 2 + k THEN Incomplete ELSE Sized(SizeOf(buf, k), Len(buf))
  <1>1. buf[2] \in Nat /\ Half \in Nat /\ MaxLengthOctets \in Nat /\ Len(buf) \in Nat
    BY Limits, FramingLimits, OctetSequences
  <1>2. CASE k = 0
    BY <1>1, <1>2, NextFrame DEF FormOf, SizeOf
  <1>3. CASE k # 0
    <2>1. ~(buf[2] < Half) /\ buf[2] - Half = k /\ ~(k = 0 \/ k > MaxLengthOctets)
      BY <1>1, <1>3 DEF FormOf
    <2> QED
      BY <1>1, <1>3, <2>1, NextFrame DEF SizeOf
  <1> QED
    BY <1>2, <1>3

\* The buffer is of some form, or it is closed.
LEMMA SomeForm ==
    ASSUME NEW buf \in Seq(Octets), Len(buf) >= 2, buf[1] = TAG_SEQUENCE
    PROVE  \/ \E k \in 0..MaxLengthOctets : FormOf(buf, k)
           \/ /\ NextCompleteFrame(buf) = Close
              /\ \A k \in 0..MaxLengthOctets : ~FormOf(buf, k)
  <1> DEFINE k == buf[2] - Half
  <1>1. buf[2] \in Nat /\ Half \in Nat /\ MaxLengthOctets \in Nat /\ Len(buf) \in Nat
    BY Limits, FramingLimits, OctetSequences
  <1>2. CASE buf[2] < Half
    <2>1. 0 \in 0..MaxLengthOctets /\ FormOf(buf, 0)
      BY <1>1, <1>2 DEF FormOf
    <2> QED
      BY <2>1
  <1>3. CASE ~(buf[2] < Half) /\ ~(k = 0 \/ k > MaxLengthOctets)
    <2>1. k \in 0..MaxLengthOctets /\ FormOf(buf, k)
      BY <1>1, <1>3 DEF FormOf
    <2> QED
      BY <2>1
  <1>4. CASE ~(buf[2] < Half) /\ (k = 0 \/ k > MaxLengthOctets)
    <2>1. NextCompleteFrame(buf) = Close
      BY <1>1, <1>4, NextFrame
    <2>2. ASSUME NEW j \in 0..MaxLengthOctets PROVE ~FormOf(buf, j)
      BY <1>1, <1>4 DEF FormOf
    <2> QED
      BY <2>1, <2>2
  <1> QED
    BY <1>2, <1>3, <1>4

LEMMA Outcomes ==
    /\ Incomplete.outcome = "Incomplete" /\ Close.outcome = "Close"
    /\ Incomplete # Close
    /\ \A n : Complete(n).outcome = "Complete" /\ Complete(n).size = n
  BY DEF Incomplete, Close, Complete

\* A frame at the front of the buffer is found, whatever follows it.
LEMMA FrameFound ==
    ASSUME NEW buf \in Seq(Octets), NEW n \in 0..Len(buf), IsFrame(SubSeq(buf, 1, n))
    PROVE  NextCompleteFrame(buf) = Complete(n)
  <1> DEFINE p == SubSeq(buf, 1, n)
  <1>1. p \in Seq(Octets) /\ Len(p) = n /\ \A i \in 1..n : p[i] = buf[i]
    BY SubSeqProperties, OctetSequences
  <1> HIDE DEF p
  <1>2. PICK k \in 0..MaxLengthOctets : FormOf(p, k) /\ n >= 2 + k /\ n = SizeOf(p, k)
    BY <1>1, FrameForm DEF p
  <1>3. n <= MAX_FRAME_SIZE /\ n >= 2 /\ p[1] = TAG_SEQUENCE
    BY <1>1, FrameForm DEF p
  <1>4. Len(buf) \in Nat /\ k \in Nat /\ MAX_FRAME_SIZE \in Nat
    BY Limits, FramingLimits, OctetSequences
  <1>5. FormOf(buf, k) /\ SizeOf(buf, k) = n
    <2>1. 2 + k <= Len(p) /\ 2 + k <= Len(buf) /\ \A i \in 1..(2 + k) : p[i] = buf[i]
      BY <1>1, <1>2, <1>4
    <2> QED
      BY <1>1, <1>2, <1>4, <2>1, SameForm
  <1>6. NextCompleteFrame(buf) = Sized(n, Len(buf))
    BY <1>1, <1>2, <1>3, <1>4, <1>5, NextByForm
  <1> QED
    BY <1>3, <1>4, <1>6 DEF Sized

\* What is cut out is a frame.
LEMMA CutIsFrame ==
    ASSUME NEW buf \in Seq(Octets), NextCompleteFrame(buf).outcome = "Complete"
    PROVE  LET n == NextCompleteFrame(buf).size
           IN  n \in 2..Len(buf) /\ IsFrame(SubSeq(buf, 1, n))
  <1>1. Len(buf) \in Nat /\ MAX_FRAME_SIZE \in Nat /\ MaxLengthOctets \in Nat
    BY Limits, FramingLimits, OctetSequences
  <1>2. Len(buf) >= 2 /\ buf[1] = TAG_SEQUENCE
    <2>1. ~(Len(buf) = 0)
      BY NextFrame, Outcomes
    <2>2. Len(buf) >= 1
      BY <1>1, <2>1
    <2>3. buf[1] = TAG_SEQUENCE
      BY <2>2, NextFrame, Outcomes
    <2>4. ~(Len(buf) = 1)
      BY <2>3, NextFrame, Outcomes
    <2> QED
      BY <1>1, <2>1, <2>3, <2>4, Numbers
  <1>3. PICK k \in 0..MaxLengthOctets : FormOf(buf, k)
    BY <1>2, SomeForm, Outcomes
  <1> DEFINE n == SizeOf(buf, k)
             p == SubSeq(buf, 1, n)
  <1>4. Len(buf) >= 2 + k /\ NextCompleteFrame(buf) = Sized(n, Len(buf))
    BY <1>1, <1>2, <1>3, NextByForm, Outcomes
  <1>5. n \in Nat
    BY <1>4, SameForm
  <1>6. n >= 2 + k
    <2>1. CASE k = 0
      BY <1>1, <1>2, <2>1, OctetSequences DEF SizeOf
    <2>2. CASE k # 0
      <3>1. buf \in Seq(Nat) /\ k \in Nat /\ 2 + k <= Len(buf)
        BY <1>1, <1>4, OctetSequences
      <3>2. FromBeBytes(SubSeq(buf, 3, 2 + k)) \in Nat
        BY <3>1, SameOctets, FromBeBytesType
      <3> QED
        BY <2>2, <3>1, <3>2 DEF SizeOf, LongSize
    <2> QED
      BY <2>1, <2>2
  <1> HIDE DEF n
  <1>7. n <= MAX_FRAME_SIZE /\ n <= Len(buf) /\ NextCompleteFrame(buf) = Complete(n)
    BY <1>1, <1>4, <1>5, Outcomes DEF Sized
  <1>8. p \in Seq(Octets) /\ Len(p) = n /\ \A i \in 1..n : p[i] = buf[i]
    BY <1>1, <1>5, <1>7, SubSeqProperties, OctetSequences
  <1> HIDE DEF p
  <1>9. FormOf(p, k) /\ SizeOf(p, k) = n
    <2>1. k \in Nat /\ 2 + k <= Len(buf) /\ 2 + k <= Len(p)
          /\ \A i \in 1..(2 + k) : buf[i] = p[i]
      BY <1>1, <1>4, <1>5, <1>6, <1>8
    <2> QED
      BY <1>3, <1>8, <2>1, SameForm DEF n
  <1>10. IsFrame(p)
    BY <1>1, <1>2, <1>5, <1>6, <1>7, <1>8, <1>9, FrameForm
  <1> QED
    BY <1>1, <1>5, <1>6, <1>7, <1>10, Outcomes DEF p

\* A buffer that waits for more is smaller than the largest frame.
LEMMA WaitsWithLess ==
    ASSUME NEW buf \in Seq(Octets), NextCompleteFrame(buf).outcome = "Incomplete"
    PROVE  Len(buf) < MAX_FRAME_SIZE
  <1>1. /\ Len(buf) \in Nat /\ MAX_FRAME_SIZE \in Nat /\ MaxLengthOctets \in Nat
        /\ MAX_FRAME_SIZE >= MaxLengthOctets + 2
    BY Limits, FramingLimits, OctetSequences
  <1>2. CASE Len(buf) < 2
    BY <1>1, <1>2
  <1>3. CASE Len(buf) >= 2
    <2>1. buf[1] = TAG_SEQUENCE
      BY <1>1, <1>3, NextFrame, Outcomes
    <2>2. PICK k \in 0..MaxLengthOctets : FormOf(buf, k)
      BY <1>3, <2>1, SomeForm, Outcomes
    <2>3. NextCompleteFrame(buf) =
              IF Len(buf) < 2 + k THEN Incomplete ELSE Sized(SizeOf(buf, k), Len(buf))
      BY <1>3, <2>1, <2>2, NextByForm
    <2>4. CASE Len(buf) < 2 + k
      BY <1>1, <2>4
    <2>5. CASE ~(Len(buf) < 2 + k)
      <3>1. k \in Nat /\ 2 + k <= Len(buf)
        BY <1>1, <2>5
      <3>2. SizeOf(buf, k) \in Nat
        BY <3>1, SameForm
      <3> QED
        BY <1>1, <2>3, <2>5, <3>2, Outcomes DEF Sized
    <2> QED
      BY <2>4, <2>5
  <1> QED
    BY <1>1, <1>2, <1>3

\* A buffer that is closed is not the beginning of a frame.
LEMMA ClosedForGood ==
    ASSUME NEW buf \in Seq(Octets), NextCompleteFrame(buf).outcome = "Close",
           NEW more \in Seq(Octets)
    PROVE  ~IsFrame(buf \o more)
  <1> DEFINE s == buf \o more
  <1>1. /\ s \in Seq(Octets) /\ Len(s) = Len(buf) + Len(more)
        /\ \A i \in 1..Len(buf) : s[i] = buf[i]
    <2>1. \A i \in 1..Len(buf) : i \in 1..(Len(buf) + Len(more)) /\ i <= Len(buf)
      BY OctetSequences
    <2> QED
      BY <2>1, ConcatProperties
  <1>2. /\ Len(buf) \in Nat /\ Len(more) \in Nat
        /\ MAX_FRAME_SIZE \in Nat /\ MaxLengthOctets \in Nat
    BY Limits, FramingLimits, OctetSequences
  <1> HIDE DEF s
  <1> SUFFICES ASSUME IsFrame(s) PROVE FALSE
    BY DEF s
  <1>3. PICK k \in 0..MaxLengthOctets : FormOf(s, k) /\ Len(s) >= 2 + k /\ Len(s) = SizeOf(s, k)
    BY <1>1, FrameForm
  <1>4. Len(s) <= MAX_FRAME_SIZE /\ s[1] = TAG_SEQUENCE
    BY <1>1, FrameForm
  <1>5. Len(buf) >= 1
    BY <1>2, NextFrame, Outcomes
  <1>6. buf[1] = TAG_SEQUENCE
    BY <1>1, <1>2, <1>4, <1>5
  <1>7. Len(buf) >= 2
    <2>1. Len(buf) # 1
      BY <1>6, NextFrame, Outcomes
    <2>2. Len(buf) # 0
      BY <1>2, <1>5
    <2> QED
      BY <1>2, <2>1, <2>2, Numbers
  <1>8. FormOf(buf, k)
    <2>1. s[2] = buf[2]
      BY <1>1, <1>2, <1>7
    <2> QED
      BY <1>3, <2>1 DEF FormOf
  <1>9. NextCompleteFrame(buf) =
            IF Len(buf) < 2 + k THEN Incomplete ELSE Sized(SizeOf(buf, k), Len(buf))
    BY <1>6, <1>7, <1>8, NextByForm
  <1>10. CASE Len(buf) < 2 + k
    BY <1>9, <1>10, Outcomes
  <1>11. CASE ~(Len(buf) < 2 + k)
    <2>1. k \in Nat /\ 2 + k <= Len(buf) /\ 2 + k <= Len(s)
          /\ \A i \in 1..(2 + k) : s[i] = buf[i]
      <3>1. k \in Nat /\ 2 + k <= Len(buf)
        BY <1>2, <1>11
      <3>2. \A i \in 1..(2 + k) : i \in 1..Len(buf)
        BY <1>2, <3>1
      <3> QED
        BY <1>1, <1>3, <3>1, <3>2
    <2>2. SizeOf(buf, k) = Len(s) /\ SizeOf(buf, k) \in Nat
      BY <1>1, <1>3, <2>1, SameForm
    <2>3. ~(SizeOf(buf, k) > MAX_FRAME_SIZE)
      BY <1>2, <1>4, <2>2
    <2> QED
      BY <1>9, <1>11, <2>3, Outcomes DEF Sized
  <1> QED
    BY <1>10, <1>11

\* read_tlv takes the whole of a frame.
LEMMA FrameDecodes ==
    ASSUME NEW s \in Seq(Octets), IsFrame(s)
    PROVE  ReadTlv(s).ok /\ ReadTlv(s).used = Len(s)
  <1> DEFINE t == Tail(s)
             length == ReadLength(t)
  <1>1. PICK k \in 0..MaxLengthOctets : FormOf(s, k) /\ Len(s) >= 2 + k /\ Len(s) = SizeOf(s, k)
    BY FrameForm
  <1>2. /\ Len(s) \in Nat /\ s # <<>> /\ s[2] \in Nat /\ k \in Nat /\ Len(s) >= 2
    <2>1. Len(s) \in Nat /\ Len(s) >= 2
      BY FrameForm, OctetSequences
    <2> QED
      BY <2>1, Limits, FramingLimits, OctetSequences
  <1>3. /\ t \in Seq(Octets) /\ Len(t) = Len(s) - 1
        /\ \A i \in 1..Len(t) : t[i] = s[i + 1]
    BY <1>2, HeadTailProperties
  <1> HIDE DEF t
  <1>4. t # <<>> /\ t[1] = s[2]
    <2>1. 1 \in 1..Len(t)
      BY <1>2, <1>3
    <2> QED
      BY <1>3, <2>1, OctetSequences
  <1>5. length = Taking(Len(s) - 2 - k, 1 + k)
    <2>1. CASE k = 0
      <3>1. ~HighBit(t[1]) /\ t[1] = Len(s) - 2
        BY <1>1, <1>2, <1>4, <2>1, Limits, FramingLimits DEF FormOf, SizeOf, HighBit
      <3>2. length = Taking(t[1], 1)
        BY <1>4, <3>1 DEF ReadLength
      <3> QED
        BY <1>2, <2>1, <3>1, <3>2
    <2>2. CASE k # 0
      <3>1. s[2] = Half + k /\ Len(s) = 2 + k + FromBeBytes(SubSeq(s, 3, 2 + k))
        BY <1>1, <2>2 DEF FormOf, SizeOf, LongSize
      <3>2. /\ HighBit(t[1]) /\ t[1] # Base - 1 /\ t[1] - Half = k
            /\ ~(k = 0 \/ k > DoubleOctets) /\ ~(Len(t) < 1 + k)
        BY <1>1, <1>2, <1>3, <1>4, <2>2, <3>1, Limits, FramingLimits DEF HighBit
      <3>3. length = Taking(FromBeBytes(SubSeq(t, 2, 1 + k)), 1 + k)
        BY <1>4, <3>2 DEF ReadLength
      <3>4. SubSeq(t, 2, 1 + k) = SubSeq(s, 3, 2 + k)
        <4>1. t = SubSeq(s, 2, Len(s))
          BY <1>2, TailIsSubSeq DEF t
        <4>2. /\ 2 \in 1..Len(s) /\ Len(s) \in 1..Len(s)
              /\ 2 \in 1..(Len(s) - 2 + 1) /\ 1 + k \in 1..(Len(s) - 2 + 1)
          BY <1>1, <1>2, <2>2
        <4>3. SubSeq(SubSeq(s, 2, Len(s)), 2, 1 + k) = SubSeq(s, 2 + 2 - 1, 2 + (1 + k) - 1)
          BY <4>2, SubSeqOfSubSeq
        <4>4. 2 + 2 - 1 = 3 /\ 2 + (1 + k) - 1 = 2 + k
          BY <1>2
        <4> QED
          BY <4>1, <4>3, <4>4
      <3>5. FromBeBytes(SubSeq(s, 3, 2 + k)) \in Nat
        BY <1>1, <1>2, OctetSequences, SameOctets, FromBeBytesType
      <3>6. FromBeBytes(SubSeq(s, 3, 2 + k)) = Len(s) - 2 - k
        BY <1>2, <3>1, <3>5
      <3> QED
        BY <3>3, <3>4, <3>6
    <2> QED
      BY <2>1, <2>2
  <1> HIDE DEF length
  <1>6. length.ok /\ length.used = 1 + k /\ length.value = Len(s) - 2 - k
    BY <1>5 DEF Taking
  <1>7. 1 + length.used + length.value = Len(s)
    BY <1>2, <1>6
  <1>8. ReadTlv(s) = Taking(SubSeq(s, length.used + 2, Len(s)), Len(s))
    BY <1>2, <1>6, <1>7 DEF ReadTlv, length, t
  <1> QED
    BY <1>8 DEF Taking

\* There is no other outcome.
LEMMA OutcomeCases ==
    ASSUME NEW buf \in Seq(Octets)
    PROVE  NextCompleteFrame(buf).outcome \in {"Incomplete", "Close", "Complete"}
  <1>1. ASSUME NEW total, NEW available
        PROVE  Sized(total, available).outcome \in {"Incomplete", "Close", "Complete"}
    BY Outcomes DEF Sized
  <1>2. CASE Len(buf) = 0
    BY <1>2, NextFrame, Outcomes
  <1>3. CASE Len(buf) = 1
    BY <1>3, NextFrame, Outcomes
  <1>4. CASE Len(buf) >= 2 /\ buf[1] # TAG_SEQUENCE
    BY <1>4, NextFrame, Outcomes, OctetSequences
  <1>5. CASE Len(buf) >= 2 /\ buf[1] = TAG_SEQUENCE
    BY <1>1, <1>5, NextByForm, SomeForm, Outcomes
  <1> QED
    BY <1>2, <1>3, <1>4, <1>5, OctetSequences, Numbers

-----------------------------------------------------------------------------
(* The connection *)

FramingTypeOK ==
    /\ stream \in Seq(Octets) /\ received \in 0..Len(stream)
    /\ read_buf \in Seq(Octets) /\ frames \in Seq(Seq(Octets))
    /\ phase \in {"reading", "cutting", "closed"}

\* Nothing is lost, and what was cut out is a frame.
SplitInv ==
    /\ FlattenSeq(frames) \o read_buf = SubSeq(stream, 1, received)
    /\ \A i \in DOMAIN frames : IsFrame(frames[i])

\* The loop over the buffer ran to its end before the next event.
PhaseInv ==
    /\ phase = "reading" => NextCompleteFrame(read_buf).outcome = "Incomplete"
    /\ phase = "closed" => NextCompleteFrame(read_buf).outcome = "Close"

\* The inductive invariant.
FramingInv == FramingTypeOK /\ SplitInv /\ PhaseInv

LEMMA FramingInitInv == FramingInit => FramingInv
  <1> SUFFICES ASSUME FramingInit PROVE FramingInv
    OBVIOUS
  <1> USE DEF FramingInit
  <1>1. <<>> \in Seq(Octets) /\ <<>> \in Seq(Seq(Octets)) /\ Len(<<>>) = 0
    BY EmptySeq
  <1>2. FramingTypeOK
    BY <1>1 DEF FramingTypeOK
  <1>3. SplitInv
    <2>1. FlattenSeq(<<>>) = <<>>
      BY <1>1, FlattenAppend
    <2>2. <<>> \o <<>> = <<>>
      BY <1>1, ConcatEmptySeq
    <2>3. SubSeq(stream, 1, 0) = <<>>
      BY SubSeqEmpty
    <2>4. DOMAIN frames = {}
      BY <1>1, <1>2 DEF FramingTypeOK
    <2> QED
      BY <2>1, <2>2, <2>3, <2>4 DEF SplitInv
  <1>4. PhaseInv
    BY <1>1, NextFrame, Outcomes DEF PhaseInv
  <1> QED
    BY <1>2, <1>3, <1>4 DEF FramingInv

LEMMA WritesKeep ==
    ASSUME FramingInv, NEW octet \in StreamOctets, PeerWrites(octet)
    PROVE  FramingInv'
  <1>1. octet \in Octets /\ stream \in Seq(Octets)
    BY Limits, FramingLimits DEF FramingInv, FramingTypeOK
  <1>2. /\ stream' \in Seq(Octets) /\ Len(stream') = Len(stream) + 1
        /\ \A i \in 1..Len(stream) : stream'[i] = stream[i]
    BY <1>1, AppendProperties DEF PeerWrites
  <1>3. FramingTypeOK'
    BY <1>2, OctetSequences DEF PeerWrites, FramingInv, FramingTypeOK
  <1>4. SubSeq(stream', 1, received) = SubSeq(stream, 1, received)
    <2> DEFINE u == SubSeq(stream', 1, received)
               v == SubSeq(stream, 1, received)
    <2>1. received \in Nat /\ received <= Len(stream) /\ Len(stream) \in Nat
      BY OctetSequences DEF FramingInv, FramingTypeOK
    <2>2. \A i \in 1..received : i \in 1..Len(stream) /\ i \in 1..Len(stream')
      BY <1>2, <2>1
    <2>3. v \in Seq(Octets) /\ Len(v) = received /\ \A i \in 1..received : v[i] = stream[i]
      BY <1>1, <2>1, <2>2, OctetSequences, SubSeqProperties
    <2>4. u \in Seq(Octets) /\ Len(u) = received /\ \A i \in 1..received : u[i] = stream'[i]
      BY <1>2, <2>1, <2>2, OctetSequences, SubSeqProperties
    <2> HIDE DEF u, v
    <2>5. u = v
      BY <1>2, <2>2, <2>3, <2>4, SeqEqual
    <2> QED
      BY <2>5 DEF u, v
  <1>5. SplitInv' /\ PhaseInv'
    BY <1>4 DEF PeerWrites, FramingInv, SplitInv, PhaseInv
  <1> QED
    BY <1>3, <1>5 DEF FramingInv

LEMMA DrainKeeps ==
    ASSUME FramingInv, Drain
    PROVE  FramingInv'
  <1> DEFINE rest == From(stream, received + 1)
             cut == FlattenSeq(frames)
  <1>1. /\ stream \in Seq(Octets) /\ read_buf \in Seq(Octets) /\ frames \in Seq(Seq(Octets))
        /\ received \in Nat /\ received <= Len(stream) /\ Len(stream) \in Nat
    BY OctetSequences DEF FramingInv, FramingTypeOK
  <1>2. rest \in Seq(Octets)
    <2>1. \A i \in (received + 1)..Len(stream) : i \in 1..Len(stream)
      BY <1>1
    <2>2. received + 1 \in Int /\ \A i \in (received + 1)..Len(stream) : stream[i] \in Octets
      BY <1>1, <2>1, OctetSequences
    <2> QED
      BY <1>1, <2>2, SubSeqProperties DEF From
  <1>3. cut \in Seq(Octets)
    BY <1>1, <1>2, FlattenAppend
  <1> HIDE DEF rest, cut
  <1>4. read_buf' = read_buf \o rest /\ read_buf' \in Seq(Octets)
    BY <1>1, <1>2, ConcatProperties DEF Drain, rest
  <1>5. FramingTypeOK'
    BY <1>1, <1>4 DEF Drain, FramingInv, FramingTypeOK
  <1>6. cut \o (read_buf \o rest) = SubSeq(stream, 1, Len(stream))
    <2>1. (cut \o read_buf) \o rest = cut \o (read_buf \o rest)
      <3>1. cut \in Seq(Octets) /\ read_buf \in Seq(Octets) /\ rest \in Seq(Octets)
        BY <1>1, <1>2, <1>3
      <3> QED
        BY <3>1, ConcatAssociative
    <2>2. cut \o read_buf = SubSeq(stream, 1, received)
      BY DEF FramingInv, SplitInv, cut
    <2>3. SubSeq(stream, 1, received) \o SubSeq(stream, received + 1, Len(stream))
              = SubSeq(stream, 1, Len(stream))
      <3>1. /\ 1 \in 1..(Len(stream) + 1) /\ received \in (1 - 1)..Len(stream)
            /\ Len(stream) \in received..Len(stream)
        BY <1>1
      <3> QED
        BY <1>1, <3>1, ConcatAdjacentSubSeq
    <2> QED
      BY <2>1, <2>2, <2>3 DEF From, rest
  <1>7. SplitInv' /\ PhaseInv'
    BY <1>4, <1>6 DEF Drain, FramingInv, SplitInv, PhaseInv, cut
  <1> QED
    BY <1>5, <1>7 DEF FramingInv

LEMMA CutKeeps ==
    ASSUME FramingInv, CutFrame
    PROVE  FramingInv'
  <1> DEFINE n == NextCompleteFrame(read_buf).size
             p == SubSeq(read_buf, 1, n)
             rest == From(read_buf, n + 1)
             cut == FlattenSeq(frames)
  <1>1. read_buf \in Seq(Octets) /\ frames \in Seq(Seq(Octets)) /\ Len(read_buf) \in Nat
    BY OctetSequences DEF FramingInv, FramingTypeOK
  <1>2. n \in 2..Len(read_buf) /\ IsFrame(p)
    BY <1>1, CutIsFrame DEF CutFrame
  <1> HIDE DEF n
  <1>3. p \in Seq(Octets)
    <2>1. n \in Int /\ \A i \in 1..n : read_buf[i] \in Octets
      BY <1>1, <1>2, OctetSequences
    <2> QED
      BY <2>1, SubSeqProperties
  <1>4. rest \in Seq(Octets)
    <2>1. \A i \in (n + 1)..Len(read_buf) : i \in 1..Len(read_buf)
      BY <1>1, <1>2
    <2>2. n + 1 \in Int /\ \A i \in (n + 1)..Len(read_buf) : read_buf[i] \in Octets
      BY <1>1, <1>2, <2>1, OctetSequences
    <2> QED
      BY <1>1, <2>2, SubSeqProperties DEF From
  <1>5. p \o rest = read_buf
    <2>1. /\ 1 \in 1..(Len(read_buf) + 1) /\ n \in (1 - 1)..Len(read_buf)
          /\ Len(read_buf) \in n..Len(read_buf)
      BY <1>1, <1>2
    <2>2. p \o rest = SubSeq(read_buf, 1, Len(read_buf))
      BY <1>1, <2>1, ConcatAdjacentSubSeq DEF From
    <2> QED
      BY <1>1, <2>2, SubSeqFull
  <1>6. /\ frames' = Append(frames, p) /\ read_buf' = rest
        /\ UNCHANGED <<stream, received, phase>> /\ phase = "cutting"
    BY DEF CutFrame, n
  <1> HIDE DEF p, rest
  <1>7. /\ frames' \in Seq(Seq(Octets)) /\ Len(frames') = Len(frames) + 1
        /\ \A i \in 1..Len(frames) : frames'[i] = frames[i]
        /\ frames'[Len(frames) + 1] = p
    <2> DEFINE T == Seq(Octets)
    <2>1. frames \in Seq(T) /\ p \in T
      BY <1>1, <1>3
    <2> HIDE DEF T
    <2>2. /\ frames' \in Seq(T) /\ Len(frames') = Len(frames) + 1
          /\ \A i \in 1..Len(frames) : frames'[i] = frames[i]
          /\ frames'[Len(frames) + 1] = p
      BY <1>6, <2>1, AppendProperties
    <2> QED
      BY <2>2 DEF T
  <1>8. FramingTypeOK'
    BY <1>4, <1>6, <1>7 DEF FramingInv, FramingTypeOK
  <1>9. FlattenSeq(frames') \o rest = cut \o read_buf
    <2>1. cut \in Seq(Octets) /\ FlattenSeq(frames') = cut \o p
      BY <1>1, <1>3, <1>6, FlattenAppend
    <2> HIDE DEF cut
    <2>2. (cut \o p) \o rest = cut \o (p \o rest)
      BY <1>3, <1>4, <2>1, ConcatAssociative
    <2> QED
      BY <1>5, <2>1, <2>2
  <1>10. \A i \in DOMAIN frames' : IsFrame(frames'[i])
    <2>1. /\ DOMAIN frames' = 1..(Len(frames) + 1) /\ DOMAIN frames = 1..Len(frames)
          /\ Len(frames) \in Nat
      BY <1>1, <1>7
    <2>2. \A i \in 1..(Len(frames) + 1) : i \in 1..Len(frames) \/ i = Len(frames) + 1
      BY <2>1
    <2>3. \A i \in 1..Len(frames) : IsFrame(frames[i])
      BY <2>1 DEF FramingInv, SplitInv
    <2> QED
      BY <1>2, <1>7, <2>1, <2>2, <2>3 DEF p
  <1>11. SplitInv' /\ PhaseInv'
    BY <1>6, <1>9, <1>10 DEF FramingInv, SplitInv, PhaseInv
  <1> QED
    BY <1>8, <1>11 DEF FramingInv

LEMMA StopKeeps ==
    ASSUME FramingInv, StopCutting
    PROVE  FramingInv'
  <1>1. NextCompleteFrame(read_buf).outcome \in {"Incomplete", "Close", "Complete"}
    BY OutcomeCases DEF FramingInv, FramingTypeOK
  <1>2. FramingTypeOK' /\ SplitInv'
    BY DEF StopCutting, FramingInv, FramingTypeOK, SplitInv
  <1>3. PhaseInv'
    BY <1>1 DEF StopCutting, PhaseInv
  <1> QED
    BY <1>2, <1>3 DEF FramingInv

LEMMA SpecFramingInv == FramingSpec => []FramingInv
  <1>1. FramingInv /\ [FramingNext]_framingVars => FramingInv'
    <2> SUFFICES ASSUME FramingInv, [FramingNext]_framingVars PROVE FramingInv'
      OBVIOUS
    <2>1. CASE UNCHANGED framingVars
      BY <2>1 DEF framingVars, FramingInv, FramingTypeOK, SplitInv, PhaseInv
    <2> QED
      BY <2>1, WritesKeep, DrainKeeps, CutKeeps, StopKeeps DEF FramingNext
  <1> QED
    BY <1>1, FramingInitInv, PTL DEF FramingSpec

\* However the peer writes and the loop reads, the frames and the buffer are
\* the stream, every frame is one, and none is left in the buffer.
THEOREM FramesCutTheStream == FramingSpec => []FramesAreTheStream
  <1>1. FramingInv => FramesAreTheStream
    <2> SUFFICES ASSUME FramingInv PROVE FramesAreTheStream
      OBVIOUS
    <2>1. ASSUME phase = "reading", NEW l \in 0..Len(read_buf)
          PROVE  ~IsFrame(SubSeq(read_buf, 1, l))
      <3>1. NextCompleteFrame(read_buf).outcome = "Incomplete" /\ read_buf \in Seq(Octets)
        BY <2>1 DEF FramingInv, PhaseInv, FramingTypeOK
      <3> QED
        BY <2>1, <3>1, FrameFound, Outcomes
    <2> QED
      BY <2>1 DEF FramesAreTheStream, FramingInv, SplitInv, Prefixes
  <1> QED
    BY <1>1, SpecFramingInv, PTL

\* Between events a connection buffers less than one frame.
THEOREM BufferNeverExceedsFrame == FramingSpec => []BufferBounded
  <1>1. FramingInv => BufferBounded
    BY WaitsWithLess DEF FramingInv, FramingTypeOK, PhaseInv, BufferBounded
  <1> QED
    BY <1>1, SpecFramingInv, PTL

\* next_complete_frame closes no connection whose octets could still become a
\* frame.
THEOREM ClosedOnlyForGood == FramingSpec => []NoFrameGivenUp
  <1>1. FramingInv => NoFrameGivenUp
    <2> SUFFICES ASSUME FramingInv, phase = "closed",
                        NEW n \in 0..3, NEW more \in [1..n -> StreamOctets]
                 PROVE  ~IsFrame(read_buf \o more)
      BY DEF NoFrameGivenUp
    <2>1. more \in Seq(Octets)
      <3>1. StreamOctets \subseteq Octets
        BY Limits, FramingLimits
      <3>2. n \in Nat
        OBVIOUS
      <3>3. more \in Seq(StreamOctets)
        BY <3>2
      <3> QED
        BY <3>1, <3>3, SeqMonotonic
    <2> QED
      BY <2>1, ClosedForGood DEF FramingInv, FramingTypeOK, PhaseInv
  <1> QED
    BY <1>1, SpecFramingInv, PTL

\* The decoder, which parses the length again with other limits, takes exactly
\* what the frame parser cut out.
THEOREM DecoderTakesFrames == FramingSpec => []ParsersAgree
  <1>1. FramingInv => ParsersAgree
    <2> SUFFICES ASSUME FramingInv, NEW i \in DOMAIN frames
                 PROVE  ReadTlv(frames[i]).ok /\ ReadTlv(frames[i]).used = Len(frames[i])
      BY DEF ParsersAgree
    <2>1. frames[i] \in Seq(Octets) /\ IsFrame(frames[i])
      BY ElementOfSeq DEF FramingInv, FramingTypeOK, SplitInv
    <2> QED
      BY <2>1, FrameDecodes
  <1> QED
    BY <1>1, SpecFramingInv, PTL

-----------------------------------------------------------------------------
(* Decimal numbers *)

\* What the recursive function in Decimal computes.
LEMMA DecimalIs ==
    ASSUME NEW s \in Seq(Nat)
    PROVE  \E f : /\ f[0] = 0 /\ \A n \in 1..Len(s) : f[n] = f[n - 1] * 10 + s[n]
                  /\ \A n \in 0..Len(s) : f[n] \in Nat
                  /\ Decimal(s) = f[Len(s)]
  <1> DEFINE L == Len(s)
             Def(f) == f = [n \in 0..L |-> IF n = 0 THEN 0 ELSE f[n - 1] * 10 + s[n]]
             value == CHOOSE f : Def(f)
             step == [n \in 1..L |-> [v \in Nat |-> v * 10 + s[n]]]
  <1>1. L \in Nat /\ \A n \in 1..L : s[n] \in Nat
    OBVIOUS
  <1>2. \E f \in [0..L -> Nat] : f[0] = 0 /\ \A n \in 1..L : f[n] = f[n - 1] * 10 + s[n]
    <2>1. step \in [1..L -> [Nat -> Nat]] /\ 0 \in Nat
      BY <1>1
    <2> HIDE DEF step, L
    <2>2. PICK f \in [0..L -> Nat] : Iterates(f, L, 0, step)
      BY <1>1, <2>1, RecursionUpTo
    <2>3. \A n \in 1..L : f[n - 1] \in Nat
      BY <1>1
    <2> QED
      BY <2>2, <2>3 DEF Iterates, step
  <1>3. \E f : Def(f)
    <2>1. PICK f \in [0..L -> Nat] : f[0] = 0 /\ \A n \in 1..L : f[n] = f[n - 1] * 10 + s[n]
      BY <1>2
    <2>2. \A n \in 0..L : n # 0 => n \in 1..L
      BY <1>1
    <2>3. Def(f)
      BY <2>1, <2>2
    <2> QED
      BY <2>3
  <1>4. Def(value)
    BY <1>3
  <1>5. Decimal(s) = value[L]
    BY DEF Decimal
  <1> DEFINE S == {n \in 0..L : value[n] \in Nat}
  <1> HIDE DEF value
  <1>6. 0 \in S
    BY <1>1, <1>4
  <1>7. ASSUME NEW n \in 1..L, n - 1 \in S PROVE n \in S
    <2>1. value[n - 1] \in Nat /\ n \in 0..L /\ n # 0
      BY <1>1, <1>7
    <2>2. value[n] = value[n - 1] * 10 + s[n]
      BY <1>4, <2>1
    <2> QED
      BY <1>1, <2>1, <2>2
  <1>8. 0..L \subseteq S
    <2> HIDE DEF S, L
    <2> QED
      BY <1>1, <1>6, <1>7, InductionUpTo
  <1>9. ASSUME NEW n \in 1..L PROVE value[n] = value[n - 1] * 10 + s[n]
    <2>1. n \in 0..L /\ n # 0
      BY <1>1
    <2> QED
      BY <1>4, <2>1
  <1>10. value[0] = 0
    BY <1>1, <1>4
  <1>11. \A n \in 0..L : value[n] \in Nat
    BY <1>8
  <1> QED
    BY <1>5, <1>9, <1>10, <1>11

\* One more digit.
LEMMA DecimalAppend ==
    ASSUME NEW s \in Seq(Nat), NEW x \in Nat
    PROVE  /\ Decimal(<<>>) = 0
           /\ Decimal(s) \in Nat
           /\ Decimal(Append(s, x)) = Decimal(s) * 10 + x
  <1> DEFINE L == Len(s)
             u == Append(s, x)
  <1>1. L \in Nat /\ u \in Seq(Nat) /\ Len(u) = L + 1 /\ u[L + 1] = x /\ \A i \in 1..L : u[i] = s[i]
    OBVIOUS
  <1>2. PICK f : /\ f[0] = 0 /\ \A n \in 1..L : f[n] = f[n - 1] * 10 + s[n]
                 /\ \A n \in 0..L : f[n] \in Nat
                 /\ Decimal(s) = f[L]
    BY DecimalIs
  <1> HIDE DEF u, L
  <1>3. PICK g : /\ g[0] = 0 /\ \A n \in 1..Len(u) : g[n] = g[n - 1] * 10 + u[n]
                 /\ Decimal(u) = g[Len(u)]
    BY <1>1, DecimalIs
  <1>4. Decimal(<<>>) = 0
    <2>1. <<>> \in Seq(Nat) /\ Len(<<>>) = 0
      OBVIOUS
    <2> QED
      BY <2>1, DecimalIs
  <1> DEFINE S == {n \in 0..L : f[n] = g[n]}
  <1>5. 0 \in S
    BY <1>1, <1>2, <1>3
  <1>6. ASSUME NEW n \in 1..L, n - 1 \in S PROVE n \in S
    <2>1. n \in 1..Len(u) /\ n \in 0..L /\ u[n] = s[n]
      BY <1>1
    <2> QED
      BY <1>2, <1>3, <1>6, <2>1
  <1>7. 0..L \subseteq S
    <2> HIDE DEF S
    <2> QED
      BY <1>1, <1>5, <1>6, InductionUpTo
  <1>8. f[L] = g[L]
    BY <1>1, <1>7
  <1>9. L + 1 \in 1..Len(u) /\ (L + 1) - 1 = L /\ L \in 0..L
    BY <1>1
  <1>10. g[L + 1] = g[L] * 10 + x
    BY <1>1, <1>3, <1>9
  <1> QED
    BY <1>1, <1>2, <1>3, <1>4, <1>8, <1>9, <1>10 DEF u

\* Zeros in front count nothing.
LEMMA DropDecimalZeros ==
    ASSUME NEW s \in Seq(Nat), NEW k \in 1..Len(s), \A i \in 1..(k - 1) : s[i] = 0
    PROVE  Decimal(From(s, k)) = Decimal(s)
  <1> DEFINE t == From(s, k)
             L == Len(s)
             M == L + 1 - k
  <1>1. L \in Nat /\ M \in Nat /\ k \in 1..L
    OBVIOUS
  <1>2. t \in Seq(Nat) /\ Len(t) = M /\ \A i \in 1..M : t[i] = s[k + i - 1]
    BY FromIs
  <1> HIDE DEF t
  <1>3. PICK f : /\ f[0] = 0 /\ \A n \in 1..L : f[n] = f[n - 1] * 10 + s[n]
                 /\ Decimal(s) = f[L]
    BY DecimalIs
  <1>4. PICK g : /\ g[0] = 0 /\ \A n \in 1..M : g[n] = g[n - 1] * 10 + t[n]
                 /\ Decimal(t) = g[M]
    BY <1>2, DecimalIs
  <1> DEFINE S == {n \in 0..(k - 1) : f[n] = 0}
             T == {n \in 0..M : f[k - 1 + n] = g[n]}
  <1>5. k - 1 \in S
    <2>1. 0 \in S
      BY <1>1, <1>3
    <2>2. ASSUME NEW n \in 1..(k - 1), n - 1 \in S PROVE n \in S
      <3>1. n \in 1..L /\ s[n] = 0 /\ f[n - 1] = 0
        BY <1>1, <2>2
      <3>2. f[n] = 0
        BY <1>3, <3>1
      <3> QED
        BY <3>2
    <2>3. k - 1 \in Nat
      BY <1>1
    <2> HIDE DEF S
    <2>4. 0..(k - 1) \subseteq S
      BY <2>1, <2>2, <2>3, InductionUpTo
    <2> QED
      BY <2>3, <2>4
  <1>6. M \in T
    <2>1. 0 \in T
      BY <1>1, <1>4, <1>5
    <2>2. ASSUME NEW n \in 1..M, n - 1 \in T PROVE n \in T
      <3>1. k - 1 + n \in 1..L /\ (k - 1 + n) - 1 = k - 1 + (n - 1) /\ k - 1 + n = k + n - 1
        BY <1>1
      <3>2. f[k - 1 + n] = f[k - 1 + (n - 1)] * 10 + s[k + n - 1]
        BY <1>3, <3>1
      <3>3. f[k - 1 + (n - 1)] = g[n - 1]
        BY <2>2
      <3>4. f[k - 1 + n] = g[n]
        BY <1>2, <1>4, <3>2, <3>3
      <3> QED
        BY <3>4
    <2> HIDE DEF T, M
    <2>3. 0..M \subseteq T
      BY <1>1, <2>1, <2>2, InductionUpTo
    <2> QED
      BY <1>1, <2>3
  <1>7. k - 1 + M = L
    BY <1>1
  <1> QED
    BY <1>3, <1>4, <1>6, <1>7 DEF t

\* One digit more in front of the number.
NextDigits(f, m) == IF m < 10 THEN <<m>> ELSE Append(f[m \div 10], m % 10)
ShownUpTo(f, n) == f = [m \in 0..n |-> NextDigits(f, m)]

\* A tenth is less.
LEMMA Tenth ==
    ASSUME NEW m \in Nat
    PROVE  /\ m \div 10 \in Nat /\ m % 10 \in 0..9 /\ m = (m \div 10) * 10 + (m % 10)
           /\ m >= 10 => m \div 10 <= m - 1 /\ m \div 10 >= 1
  OBVIOUS

\* The recursive function in Digits exists.
LEMMA DigitsExist ==
    \A n \in Nat : \E f : ShownUpTo(f, n)
  <1> DEFINE S == {n \in Nat : \E f : ShownUpTo(f, n)}
  <1>1. 0 \in S
    <2> DEFINE f == [m \in 0..0 |-> <<m>>]
    <2>1. f = [m \in 0..0 |-> NextDigits(f, m)]
      BY DEF NextDigits
    <2> HIDE DEF f
    <2> QED
      BY <2>1 DEF ShownUpTo
  <1>2. ASSUME NEW n \in Nat, n \in S PROVE n + 1 \in S
    <2>1. PICK f : ShownUpTo(f, n)
      BY <1>2
    <2> DEFINE g == [m \in 0..(n + 1) |-> IF m = n + 1 THEN NextDigits(f, m) ELSE f[m]]
    <2>2. ASSUME NEW m \in 0..(n + 1) PROVE g[m] = NextDigits(g, m)
      <3>1. g[m] = NextDigits(f, m)
        BY <2>1 DEF ShownUpTo
      <3>2. m >= 10 => m \div 10 \in 0..n
        BY Tenth
      <3>3. m >= 10 => g[m \div 10] = f[m \div 10]
        BY <3>2
      <3> HIDE DEF g
      <3>4. NextDigits(g, m) = NextDigits(f, m)
        BY <3>3 DEF NextDigits
      <3> QED
        BY <3>1, <3>4
    <2>3. g = [m \in 0..(n + 1) |-> NextDigits(g, m)]
      <3>1. g = [m \in 0..(n + 1) |-> g[m]]
        OBVIOUS
      <3> HIDE DEF g
      <3> QED
        BY <2>2, <3>1
    <2> HIDE DEF g
    <2> QED
      BY <2>3 DEF ShownUpTo
  <1> HIDE DEF S
  <1>3. Nat \subseteq S
    BY <1>1, <1>2, NaturalInduction
  <1> QED
    BY <1>3 DEF S

\* What Digits computes: all digits but the last, then the last.
LEMMA DigitsIs ==
    ASSUME NEW n \in Nat
    PROVE  Digits(n) = IF n < 10 THEN <<n>> ELSE Append(Digits(n \div 10), n % 10)
  <1> DEFINE D(k) == CHOOSE f : ShownUpTo(f, k)
  <1>1. ASSUME NEW k \in Nat PROVE Digits(k) = D(k)[k]
    BY DEF Digits, ShownUpTo, NextDigits
  <1>2. ASSUME NEW k \in Nat PROVE ShownUpTo(D(k), k)
    BY DigitsExist
  <1> HIDE DEF D
  <1>3. ASSUME NEW k \in Nat, NEW m \in 0..k PROVE D(k)[m] = NextDigits(D(k), m)
    <2> DEFINE f == D(k)
    <2>1. f = [j \in 0..k |-> NextDigits(f, j)]
      BY <1>2 DEF ShownUpTo
    <2> HIDE DEF f
    <2>2. f[m] = NextDigits(f, m)
      BY <2>1
    <2> QED
      BY <2>2 DEF f
  <1> DEFINE S == {j \in Nat : \A k \in Nat : \A m \in 0..j : m <= k => D(k)[m] = Digits(m)}
  <1>4. 0 \in S
    <2>1. ASSUME NEW k \in Nat PROVE D(k)[0] = <<0>>
      <3>1. D(k)[0] = NextDigits(D(k), 0)
        BY <1>3
      <3> QED
        BY <3>1 DEF NextDigits
    <2>2. Digits(0) = <<0>>
      BY <1>1, <2>1
    <2> QED
      BY <2>1, <2>2
  <1>5. ASSUME NEW j \in Nat, j \in S PROVE j + 1 \in S
    <2> DEFINE m == j + 1
    <2>1. ASSUME NEW k \in Nat, m <= k PROVE D(k)[m] = IF m < 10 THEN <<m>> ELSE Append(Digits(m \div 10), m % 10)
      <3>1. m \in 0..k /\ m \in Nat
        BY <2>1
      <3>2. D(k)[m] = NextDigits(D(k), m)
        BY <1>3, <3>1
      <3>3. CASE m < 10
        BY <3>2, <3>3 DEF NextDigits
      <3>4. CASE ~(m < 10)
        <4>1. m \div 10 \in 0..j /\ m \div 10 <= k
          BY <2>1, <3>1, <3>4, Tenth
        <4>2. D(k)[m \div 10] = Digits(m \div 10)
          BY <1>5, <4>1
        <4> HIDE DEF m
        <4> QED
          BY <3>2, <3>4, <4>2 DEF NextDigits
      <3> QED
        BY <3>3, <3>4
    <2>2. m \in Nat /\ m <= m
      OBVIOUS
    <2>3. Digits(m) = IF m < 10 THEN <<m>> ELSE Append(Digits(m \div 10), m % 10)
      BY <1>1, <2>1, <2>2
    <2>4. ASSUME NEW k \in Nat, m <= k PROVE D(k)[m] = Digits(m)
      BY <2>1, <2>3, <2>4
    <2>5. \A i \in 0..m : i \in 0..j \/ i = m
      OBVIOUS
    <2>6. \A k \in Nat : \A i \in 0..m : i <= k => D(k)[i] = Digits(i)
      BY <1>5, <2>4, <2>5
    <2> QED
      BY <2>2, <2>6
  <1> HIDE DEF S
  <1>6. Nat \subseteq S
    BY <1>4, <1>5, NaturalInduction
  <1>7. ASSUME NEW k \in Nat, NEW m \in 0..k PROVE D(k)[m] = Digits(m)
    <2>1. m \in S /\ m \in 0..m /\ m <= k
      BY <1>6
    <2> QED
      BY <2>1 DEF S
  <1>8. Digits(n) = NextDigits(D(n), n)
    BY <1>1, <1>3
  <1>9. CASE n < 10
    BY <1>8, <1>9 DEF NextDigits
  <1>10. CASE ~(n < 10)
    <2>1. n \div 10 \in 0..n
      BY <1>10, Tenth
    <2>2. D(n)[n \div 10] = Digits(n \div 10)
      BY <1>7, <2>1
    <2> QED
      BY <1>8, <1>10, <2>2 DEF NextDigits
  <1> QED
    BY <1>9, <1>10

\* Digits that Display may show: no zero in front of another digit.
AsShown(d) == d \in Seq(0..9) /\ d # <<>> /\ (Len(d) > 1 => d[1] # 0)

\* The digits of a number mean the number.
LEMMA DigitsMean ==
    ASSUME NEW n \in Nat
    PROVE  AsShown(Digits(n)) /\ Decimal(Digits(n)) = n
  <1> DEFINE P(m) == /\ Digits(m) \in Seq(0..9) /\ Digits(m) # <<>> /\ Decimal(Digits(m)) = m
                     /\ m > 0 => Digits(m)[1] # 0
                     /\ Len(Digits(m)) > 1 => m > 0
             S == {k \in Nat : \A m \in 0..k : P(m)}
  <1>1. ASSUME NEW m \in Nat, m < 10 PROVE P(m)
    <2>1. Digits(m) = <<m>>
      BY <1>1, DigitsIs
    <2>2. <<m>> \in Seq(0..9) /\ <<m>> # <<>> /\ Len(<<m>>) = 1 /\ <<m>>[1] = m
      BY <1>1
    <2>3. Decimal(<<m>>) = m
      <3>1. <<>> \in Seq(Nat) /\ <<m>> = Append(<<>>, m)
        OBVIOUS
      <3>2. Decimal(<<m>>) = 0 * 10 + m
        BY <3>1, DecimalAppend
      <3> QED
        BY <3>2
    <2> QED
      BY <2>1, <2>2, <2>3
  <1>2. ASSUME NEW m \in Nat, m >= 10, P(m \div 10) PROVE P(m)
    <2> DEFINE q == m \div 10
               r == m % 10
               d == Digits(q)
    <2>1. q \in Nat /\ r \in 0..9 /\ m = q * 10 + r /\ q >= 1
      BY <1>2, Tenth
    <2>2. Digits(m) = Append(d, r)
      BY <1>2, DigitsIs
    <2>3. d \in Seq(0..9) /\ d # <<>> /\ Decimal(d) = q /\ d[1] # 0
      BY <1>2, <2>1
    <2> HIDE DEF q, r, d
    <2>4. Append(d, r) \in Seq(0..9) /\ Append(d, r) # <<>> /\ Append(d, r)[1] = d[1]
      BY <2>1, <2>3
    <2>5. Decimal(Append(d, r)) = q * 10 + r
      <3>1. d \in Seq(Nat) /\ r \in Nat
        BY <2>1, <2>3
      <3> QED
        BY <2>3, <3>1, DecimalAppend
    <2>6. Digits(m) \in Seq(0..9) /\ Digits(m) # <<>> /\ Digits(m)[1] # 0
      BY <2>2, <2>3, <2>4
    <2>7. Decimal(Digits(m)) = m
      BY <2>1, <2>2, <2>5
    <2>8. m > 0
      BY <1>2
    <2> QED
      BY <2>6, <2>7, <2>8
  <1> HIDE DEF P
  <1>3. 0 \in S
    <2>1. \A m \in 0..0 : m \in Nat /\ m < 10
      OBVIOUS
    <2> QED
      BY <1>1, <2>1
  <1>4. ASSUME NEW k \in Nat, k \in S PROVE k + 1 \in S
    <2> DEFINE m == k + 1
    <2>1. P(m)
      <3>1. m \in Nat
        OBVIOUS
      <3>2. m >= 10 => m \div 10 \in 0..k
        BY <3>1, Tenth
      <3>3. m >= 10 => P(m \div 10)
        BY <1>4, <3>2
      <3> HIDE DEF m
      <3> QED
        BY <1>1, <1>2, <3>1, <3>3
    <2>2. \A i \in 0..m : i \in 0..k \/ i = m
      OBVIOUS
    <2> QED
      BY <1>4, <2>1, <2>2
  <1>5. n \in S
    <2> HIDE DEF S
    <2>1. Nat \subseteq S
      BY <1>3, <1>4, NaturalInduction
    <2> QED
      BY <2>1
  <1>6. P(n)
    BY <1>5
  <1> QED
    BY <1>6 DEF P, AsShown

\* The last element, and those before it.
LEMMA LastApart ==
    ASSUME NEW A, NEW s \in Seq(A), s # <<>>
    PROVE  \E t \in Seq(A), x \in A : s = Append(t, x) /\ Len(s) = Len(t) + 1
  <1> DEFINE t == SubSeq(s, 1, Len(s) - 1)
             x == s[Len(s)]
  <1>1. Len(s) \in Nat \ {0} /\ x \in A
    OBVIOUS
  <1>2. t \in Seq(A) /\ Len(t) = Len(s) - 1 /\ \A i \in 1..(Len(s) - 1) : t[i] = s[i]
    <2> DEFINE m == Len(s) - 1
    <2>1. m \in Nat /\ 1 \in Int /\ m \in Int /\ \A i \in 1..m : s[i] \in A
      BY <1>1
    <2> HIDE DEF m
    <2>2. /\ SubSeq(s, 1, m) \in Seq(A) /\ Len(SubSeq(s, 1, m)) = IF 1 <= m THEN m - 1 + 1 ELSE 0
          /\ \A i \in 1..(m - 1 + 1) : SubSeq(s, 1, m)[i] = s[1 + i - 1]
      BY <2>1, SubSeqProperties
    <2>3. m - 1 + 1 = m /\ (IF 1 <= m THEN m - 1 + 1 ELSE 0) = m /\ \A i \in 1..m : 1 + i - 1 = i
      BY <2>1
    <2> QED
      BY <2>2, <2>3 DEF m
  <1> HIDE DEF t, x
  <1>3. Append(t, x) \in Seq(A) /\ Len(Append(t, x)) = Len(s)
        /\ (\A i \in 1..(Len(s) - 1) : Append(t, x)[i] = s[i]) /\ Append(t, x)[Len(s)] = x
    BY <1>1, <1>2
  <1>4. \A i \in 1..Len(s) : Append(t, x)[i] = s[i]
    <2>1. \A i \in 1..Len(s) : i \in 1..(Len(s) - 1) \/ i = Len(s)
      BY <1>1
    <2> QED
      BY <1>3, <2>1 DEF x
  <1>5. s = Append(t, x)
    BY <1>3, <1>4, SeqEqual
  <1> QED
    BY <1>1, <1>2, <1>5

\* No other digits without leading zeros mean it.
LEMMA MeansDigits ==
    ASSUME NEW d, AsShown(d)
    PROVE  Digits(Decimal(d)) = d
  <1> DEFINE P(s) == Digits(Decimal(s)) = s /\ Decimal(s) \in Nat /\ (s[1] # 0 => Decimal(s) > 0)
             S == {k \in Nat : \A s : AsShown(s) /\ Len(s) = k + 1 => P(s)}
  <1>1. 0 \in S
    <2> SUFFICES ASSUME NEW s, AsShown(s), Len(s) = 1 PROVE P(s)
      BY DEF AsShown
    <2> DEFINE x == s[1]
    <2>1. x \in 0..9 /\ s = <<x>>
      BY DEF AsShown
    <2> HIDE DEF x
    <2>2. <<>> \in Seq(Nat) /\ <<x>> = Append(<<>>, x) /\ x \in Nat
      BY <2>1
    <2>3. Decimal(<<x>>) = 0 * 10 + x
      BY <2>2, DecimalAppend
    <2>4. Decimal(s) = x
      BY <2>1, <2>2, <2>3
    <2>5. Digits(x) = <<x>>
      BY <2>1, <2>2, DigitsIs
    <2> QED
      BY <2>1, <2>2, <2>4, <2>5 DEF x
  <1>2. ASSUME NEW k \in Nat, k \in S PROVE k + 1 \in S
    <2> SUFFICES ASSUME NEW s, AsShown(s), Len(s) = k + 1 + 1 PROVE P(s)
      OBVIOUS
    <2>1. s \in Seq(0..9) /\ s # <<>> /\ s[1] # 0
      BY DEF AsShown
    <2>2. PICK t \in Seq(0..9), x \in 0..9 : s = Append(t, x) /\ Len(s) = Len(t) + 1
      BY <2>1, LastApart
    <2>3. Len(t) = k + 1 /\ t # <<>> /\ s[1] = t[1]
      BY <2>2
    <2>4. AsShown(t)
      BY <2>1, <2>3 DEF AsShown
    <2>5. P(t)
      BY <1>2, <2>3, <2>4
    <2> DEFINE q == Decimal(t)
    <2>6. Digits(q) = t /\ q \in Nat /\ q > 0
      BY <2>1, <2>3, <2>5
    <2> HIDE DEF q
    <2>7. Decimal(s) = q * 10 + x
      <3>1. t \in Seq(Nat) /\ x \in Nat
        OBVIOUS
      <3> QED
        BY <2>2, <3>1, DecimalAppend DEF q
    <2>8. q * 10 + x \in Nat /\ ~(q * 10 + x < 10) /\ (q * 10 + x) \div 10 = q /\ (q * 10 + x) % 10 = x
      BY <2>6
    <2>9. Digits(q * 10 + x) = Append(t, x)
      BY <2>6, <2>8, DigitsIs
    <2> DEFINE n == q * 10 + x
    <2>10. Decimal(s) = n /\ n \in Nat /\ n > 0 /\ Digits(n) = s
      <3>1. Decimal(s) = n /\ Digits(n) = s
        BY <2>2, <2>7, <2>9
      <3>2. n \in Nat /\ ~(n < 10)
        BY <2>8
      <3> HIDE DEF n
      <3> QED
        BY <3>1, <3>2
    <2> HIDE DEF n
    <2>11. Digits(Decimal(s)) = s /\ Decimal(s) \in Nat /\ Decimal(s) > 0
      BY <2>10
    <2> QED
      BY <2>11
  <1>3. Len(d) - 1 \in Nat /\ Len(d) = (Len(d) - 1) + 1
    BY DEF AsShown
  <1>4. Len(d) - 1 \in S
    <2> HIDE DEF S
    <2>1. Nat \subseteq S
      BY <1>1, <1>2, NaturalInduction
    <2> QED
      BY <1>3, <2>1
  <1>5. P(d)
    BY <1>3, <1>4
  <1> QED
    BY <1>5

-----------------------------------------------------------------------------
(* Components of a text *)

Chars == 0..Letter
Texts == Seq(Chars)

\* A character more, of the last part.
LEMMA SplitIs ==
    ASSUME NEW ps \in Seq(Texts), NEW u \in Texts, NEW c \in Chars
    PROVE  /\ Append(ps, u) \in Seq(Texts)
           /\ c = Dot => Split(Append(ps, u), c) = Append(Append(ps, u), <<>>)
           /\ c # Dot => Split(Append(ps, u), c) = Append(ps, Append(u, c))
  <1> DEFINE q == Append(ps, u)
             n == Len(ps)
             w == Append(ps, Append(u, c))
  <1>1. q \in Seq(Texts) /\ Len(q) = n + 1 /\ n \in Nat /\ q[n + 1] = u /\ \A i \in 1..n : q[i] = ps[i]
    BY AppendProperties, LenProperties
  <1>2. c = Dot => Split(q, c) = Append(q, <<>>)
    BY DEF Split
  <1>3. ASSUME c # Dot PROVE Split(q, c) = w
    <2>1. Append(u, c) \in Texts
      BY AppendProperties DEF Texts
    <2>2. w \in Seq(Texts) /\ Len(w) = n + 1 /\ w[n + 1] = Append(u, c) /\ \A i \in 1..n : w[i] = ps[i]
      BY <2>1, AppendProperties, LenProperties
    <2> HIDE DEF q, n, w
    <2>3. Split(q, c) = [q EXCEPT ![n + 1] = Append(u, c)]
      BY <1>1, <1>3 DEF Split
    <2> DEFINE v == [q EXCEPT ![n + 1] = Append(u, c)]
    <2>4. q = [i \in 1..(n + 1) |-> q[i]] /\ DOMAIN q = 1..(n + 1)
      BY <1>1
    <2>5. v = [i \in 1..(n + 1) |-> IF i = n + 1 THEN Append(u, c) ELSE q[i]]
      BY <2>4
    <2>6. w = [i \in 1..(n + 1) |-> w[i]]
      BY <2>2
    <2>7. \A i \in 1..(n + 1) : w[i] = IF i = n + 1 THEN Append(u, c) ELSE q[i]
      <3>1. \A i \in 1..(n + 1) : i \in 1..n \/ i = n + 1
        BY <1>1
      <3> QED
        BY <1>1, <2>2, <3>1
    <2> HIDE DEF v
    <2>8. v = w
      BY <2>5, <2>6, <2>7
    <2> QED
      BY <2>3, <2>8 DEF v
  <1> QED
    BY <1>1, <1>2, <1>3 DEF q

\* Parts are never none.
LEMMA SomeParts ==
    ASSUME NEW q \in Seq(Texts) \ {<<>>}, NEW c \in Chars
    PROVE  Split(q, c) \in Seq(Texts) \ {<<>>}
  <1>1. PICK ps \in Seq(Texts), u \in Texts : q = Append(ps, u)
    BY LastApart
  <1>2. <<>> \in Texts /\ Append(u, c) \in Texts
    BY AppendProperties DEF Texts
  <1>3. ASSUME NEW r \in Seq(Texts), NEW v \in Texts PROVE Append(r, v) \in Seq(Texts) \ {<<>>}
    BY AppendProperties
  <1>4. Split(q, c) = Append(q, <<>>) \/ Split(q, c) = Append(ps, Append(u, c))
    BY <1>1, SplitIs
  <1> QED
    BY <1>2, <1>3, <1>4

\* What the recursive function in Parts computes.
LEMMA PartsOfText ==
    ASSUME NEW s \in Texts
    PROVE  \E f : /\ f[0] = << <<>> >> /\ \A n \in 1..Len(s) : f[n] = Split(f[n - 1], s[n])
                  /\ \A n \in 0..Len(s) : f[n] \in Seq(Texts) \ {<<>>}
                  /\ Parts(s) = f[Len(s)]
  <1> DEFINE L == Len(s)
             V == Seq(Texts) \ {<<>>}
             first == << <<>> >>
             Def(f) == f = [n \in 0..L |-> IF n = 0 THEN first ELSE Split(f[n - 1], s[n])]
             parts == CHOOSE f : Def(f)
             step == [n \in 1..L |-> [v \in V |-> Split(v, s[n])]]
  <1>1. L \in Nat /\ \A n \in 1..L : s[n] \in Chars
    BY DEF Texts
  <1>2. first \in V
    <2>1. <<>> \in Texts
      BY DEF Texts
    <2> HIDE DEF V
    <2> QED
      BY <2>1 DEF V
  <1>3. PICK f \in [0..L -> V] : f[0] = first /\ \A n \in 1..L : f[n] = Split(f[n - 1], s[n])
    <2>1. \A n \in 1..L : \A v \in V : Split(v, s[n]) \in V
      BY <1>1, SomeParts
    <2> HIDE DEF V, first, L
    <2>2. step \in [1..L -> [V -> V]]
      BY <2>1
    <2> HIDE DEF step
    <2>3. PICK f \in [0..L -> V] : Iterates(f, L, first, step)
      BY <1>1, <1>2, <2>2, RecursionUpTo
    <2>4. \A n \in 1..L : f[n - 1] \in V
      BY <1>1
    <2> QED
      BY <2>3, <2>4 DEF Iterates, step
  <1>4. Def(f)
    <2> HIDE DEF V, first
    <2>1. \A n \in 0..L : n # 0 => n \in 1..L
      BY <1>1
    <2> QED
      BY <1>3, <2>1
  <1>5. Def(parts)
    BY <1>4
  <1>6. Parts(s) = parts[L]
    BY DEF Parts
  <1> HIDE DEF parts, V, first, L
  <1>7. parts[0] = first
    BY <1>1, <1>5
  <1>8. ASSUME NEW n \in 1..L PROVE parts[n] = Split(parts[n - 1], s[n])
    <2>1. n \in 0..L /\ n # 0
      BY <1>1
    <2> QED
      BY <1>5, <2>1
  <1> DEFINE S == {n \in 0..L : parts[n] \in V}
  <1>9. 0 \in S
    BY <1>1, <1>2, <1>7
  <1>10. ASSUME NEW n \in 1..L, n - 1 \in S PROVE n \in S
    <2>1. n \in 0..L /\ parts[n - 1] \in V
      BY <1>1, <1>10
    <2>2. parts[n] \in V
      BY <1>1, <1>8, <2>1, SomeParts DEF V
    <2> QED
      BY <2>1, <2>2
  <1> HIDE DEF S
  <1>11. 0..L \subseteq S
    BY <1>1, <1>9, <1>10, InductionUpTo
  <1>12. \A n \in 0..L : parts[n] \in V
    BY <1>11 DEF S
  <1> QED
    BY <1>6, <1>7, <1>8, <1>12 DEF V, first, L

\* One more character.
LEMMA PartsAppend ==
    ASSUME NEW s \in Texts, NEW c \in Chars
    PROVE  /\ Parts(<<>>) = << <<>> >>
           /\ Parts(s) \in Seq(Texts) \ {<<>>}
           /\ Parts(Append(s, c)) = Split(Parts(s), c)
  <1> DEFINE L == Len(s)
             u == Append(s, c)
  <1>1. L \in Nat /\ u \in Texts /\ Len(u) = L + 1 /\ u[L + 1] = c /\ \A i \in 1..L : u[i] = s[i]
    BY AppendProperties, LenProperties DEF Texts
  <1>2. PICK f : /\ f[0] = << <<>> >> /\ \A n \in 1..L : f[n] = Split(f[n - 1], s[n])
                 /\ \A n \in 0..L : f[n] \in Seq(Texts) \ {<<>>}
                 /\ Parts(s) = f[L]
    BY PartsOfText
  <1> HIDE DEF u, L
  <1>3. PICK g : /\ g[0] = << <<>> >> /\ \A n \in 1..Len(u) : g[n] = Split(g[n - 1], u[n])
                 /\ Parts(u) = g[Len(u)]
    BY <1>1, PartsOfText
  <1>4. Parts(<<>>) = << <<>> >>
    <2>1. <<>> \in Texts /\ Len(<<>>) = 0
      BY DEF Texts
    <2> QED
      BY <2>1, PartsOfText
  <1> DEFINE S == {n \in 0..L : f[n] = g[n]}
  <1>5. 0 \in S
    BY <1>1, <1>2, <1>3
  <1>6. ASSUME NEW n \in 1..L, n - 1 \in S PROVE n \in S
    <2>1. n \in 1..Len(u) /\ n \in 0..L /\ u[n] = s[n]
      BY <1>1
    <2> QED
      BY <1>2, <1>3, <1>6, <2>1
  <1>7. 0..L \subseteq S
    <2> HIDE DEF S
    <2> QED
      BY <1>1, <1>5, <1>6, InductionUpTo
  <1>8. f[L] = g[L]
    BY <1>1, <1>7
  <1>9. L + 1 \in 1..Len(u) /\ (L + 1) - 1 = L /\ L \in 0..L
    BY <1>1
  <1>10. g[L + 1] = Split(g[L], c)
    BY <1>1, <1>3, <1>9
  <1> QED
    BY <1>1, <1>2, <1>3, <1>4, <1>8, <1>9, <1>10 DEF u

\* Characters without a dot go on with the last part.
Dotless(t) == t \in Texts /\ \A i \in 1..Len(t) : t[i] # Dot

LEMMA PartGrows ==
    ASSUME NEW s \in Texts, NEW ps \in Seq(Texts), NEW u \in Texts, Parts(s) = Append(ps, u),
           NEW t, Dotless(t)
    PROVE  Parts(s \o t) = Append(ps, u \o t)
  <1> DEFINE P(v) == Parts(s \o v) = Append(ps, u \o v)
             S == {k \in Nat : \A v : Dotless(v) /\ Len(v) = k => P(v)}
  <1>1. 0 \in S
    <2>1. \A v : Dotless(v) /\ Len(v) = 0 => v = <<>>
      BY EmptySeq DEF Dotless, Texts
    <2>2. s \o <<>> = s /\ u \o <<>> = u
      BY DEF Texts
    <2>3. P(<<>>)
      BY <2>2
    <2> HIDE DEF P
    <2> QED
      BY <2>1, <2>3
  <1>2. ASSUME NEW k \in Nat, k \in S PROVE k + 1 \in S
    <2> SUFFICES ASSUME NEW v, Dotless(v), Len(v) = k + 1 PROVE P(v)
      OBVIOUS
    <2>1. v \in Seq(Chars) /\ v # <<>>
      BY DEF Dotless, Texts
    <2>2. PICK w \in Seq(Chars), c \in Chars : v = Append(w, c) /\ Len(v) = Len(w) + 1
      BY <2>1, LastApart
    <2>3. Len(w) = k /\ Len(w) \in Nat /\ (\A i \in 1..Len(w) : v[i] = w[i]) /\ v[k + 1] = c
      BY <2>2
    <2>4. Dotless(w) /\ c # Dot
      <3>1. (\A i \in 1..Len(w) : i \in 1..Len(v)) /\ k + 1 \in 1..Len(v)
        BY <2>2, <2>3
      <3> QED
        BY <2>3, <3>1 DEF Dotless, Texts
    <2>5. P(w)
      BY <1>2, <2>3, <2>4
    <2>6. s \in Seq(Chars) /\ u \in Seq(Chars)
      BY DEF Texts
    <2>7. s \o v = Append(s \o w, c) /\ u \o v = Append(u \o w, c) /\ s \o w \in Seq(Chars) /\ u \o w \in Seq(Chars)
      BY <2>2, <2>6
    <2>8. Parts(s \o v) = Split(Append(ps, u \o w), c)
      BY <2>5, <2>7, PartsAppend DEF Texts
    <2>9. Split(Append(ps, u \o w), c) = Append(ps, Append(u \o w, c))
      BY <2>4, <2>7, SplitIs DEF Texts
    <2> QED
      BY <2>7, <2>8, <2>9
  <1>3. Len(t) \in Nat
    BY DEF Dotless, Texts
  <1>4. Len(t) \in S
    <2> HIDE DEF S
    <2>1. Nat \subseteq S
      BY <1>1, <1>2, NaturalInduction
    <2> QED
      BY <1>3, <2>1
  <1> QED
    BY <1>4

\* Digits are characters, none of them a dot or a sign.
LEMMA DigitsType ==
    ASSUME NEW n \in Nat
    PROVE  /\ Digits(n) \in Seq(0..9) /\ Digits(n) # <<>> /\ Dotless(Digits(n))
           /\ Digits(n) \in Seq(Chars) /\ <<Dot>> \o Digits(n) \in Seq(Chars)
  <1> DEFINE d == Digits(n)
  <1>1. d \in Seq(0..9) /\ d # <<>>
    BY DigitsMean DEF AsShown
  <1> HIDE DEF d
  <1>2. \A x \in 0..9 : x \in Chars /\ x # Dot
    BY DEF Chars, Letter, Dot
  <1>3. (\A i \in 1..Len(d) : d[i] \in 0..9) /\ 0..9 \subseteq Chars
    BY <1>1, <1>2
  <1>4. d \in Seq(Chars)
    BY <1>1, <1>3, SeqMonotonic
  <1>5. Dot \in Chars
    BY DEF Chars, Letter, Dot
  <1>6. <<Dot>> \o d \in Seq(Chars)
    <2>1. <<Dot>> \in Seq(Chars)
      BY <1>5
    <2> QED
      BY <1>4, <2>1
  <1>7. Dotless(d)
    BY <1>2, <1>3, <1>4 DEF Dotless, Texts
  <1> QED
    BY <1>1, <1>4, <1>6, <1>7 DEF d

\* What Display writes behind the first component.
Others(arcs) == [i \in 1..(Len(arcs) - 1) |-> <<Dot>> \o Digits(arcs[i + 1])]

\* One more component is shown behind a dot.
LEMMA DisplayAppend ==
    ASSUME NEW arcs \in Seq(Nat), arcs # <<>>, NEW a \in Nat
    PROVE  /\ Display(<<a>>) = Digits(a)
           /\ Display(Append(arcs, a)) = Display(arcs) \o (<<Dot>> \o Digits(a))
  <1> DEFINE n == Len(arcs)
             new == Append(arcs, a)
             b == <<Dot>> \o Digits(a)
             old == Others(arcs)
  <1>1. Display(<<a>>) = Digits(a)
    <2>1. <<a>> # <<>> /\ <<a>>[1] = a /\ Len(<<a>>) = 1
      OBVIOUS
    <2>2. Others(<<a>>) = <<>>
      BY <2>1 DEF Others
    <2>3. FlattenSeq(<<>>) = <<>>
      BY DEF FlattenSeq
    <2>4. Display(<<a>>) = Digits(a) \o <<>>
      BY <2>1, <2>2, <2>3 DEF Display, Others
    <2>5. Digits(a) \in Seq(Chars)
      BY DigitsType
    <2> QED
      BY <2>4, <2>5
  <1>2. /\ n \in Nat \ {0} /\ new \in Seq(Nat) /\ Len(new) = n + 1 /\ new # <<>> /\ new[n + 1] = a
        /\ \A i \in 1..n : new[i] = arcs[i] /\ arcs[i] \in Nat
    BY AppendProperties, LenProperties, ElementOfSeq, EmptySeq
  <1> HIDE DEF n, new
  <1>3. old \in Seq(Seq(Chars)) /\ Len(old) = n - 1
    <2>1. n - 1 \in Nat /\ \A i \in 1..(n - 1) : i + 1 \in 1..n
      BY <1>2
    <2>2. \A i \in 1..(n - 1) : <<Dot>> \o Digits(arcs[i + 1]) \in Seq(Chars)
      BY <1>2, <2>1, DigitsType
    <2>3. old = [i \in 1..(n - 1) |-> <<Dot>> \o Digits(arcs[i + 1])]
      BY DEF Others, n
    <2>4. old = [i \in 1..(n - 1) |-> old[i]] /\ \A i \in 1..(n - 1) : old[i] \in Seq(Chars)
      BY <2>2, <2>3
    <2> HIDE DEF old
    <2> QED
      BY <2>1, <2>4, SequenceOf
  <1>4. b \in Seq(Chars) /\ Digits(arcs[1]) \in Seq(Chars)
    BY <1>2, DigitsType
  <1>5. Others(new) = Append(old, b)
    <2> DEFINE w == Others(new)
               v == Append(old, b)
    <2>1. w = [i \in 1..n |-> <<Dot>> \o Digits(new[i + 1])]
      <3>1. Len(new) - 1 = n
        BY <1>2
      <3> QED
        BY <3>1 DEF Others
    <2> HIDE DEF old, b
    <2>2. v \in Seq(Seq(Chars)) /\ Len(v) = n /\ v[n] = b /\ \A i \in 1..(n - 1) : v[i] = old[i]
      <3>1. Len(v) = (n - 1) + 1 /\ v \in Seq(Seq(Chars)) /\ v[(n - 1) + 1] = b /\ \A i \in 1..(n - 1) : v[i] = old[i]
        BY <1>3, <1>4, AppendProperties
      <3> QED
        BY <1>2, <3>1
    <2>3. \A i \in 1..(n - 1) : old[i] = <<Dot>> \o Digits(arcs[i + 1]) /\ new[i + 1] = arcs[i + 1]
      <3>1. \A i \in 1..(n - 1) : i + 1 \in 1..n
        BY <1>2
      <3> QED
        BY <1>2, <3>1 DEF old, Others, n
    <2>4. \A i \in 1..n : v[i] = <<Dot>> \o Digits(new[i + 1])
      <3>1. \A i \in 1..n : i \in 1..(n - 1) \/ i = n
        BY <1>2
      <3>2. v[n] = <<Dot>> \o Digits(new[n + 1])
        BY <1>2, <2>2 DEF b
      <3> QED
        BY <2>2, <2>3, <3>1, <3>2
    <2> HIDE DEF v, w
    <2>5. v = [i \in 1..n |-> v[i]]
      BY <2>2
    <2>6. w = v
      BY <2>1, <2>4, <2>5
    <2> QED
      BY <2>6 DEF v, w
  <1> HIDE DEF old, b
  <1>6. FlattenSeq(old) \in Seq(Chars) /\ FlattenSeq(Append(old, b)) = FlattenSeq(old) \o b
    BY <1>3, <1>4, FlattenAppend
  <1>7. Display(arcs) = Digits(arcs[1]) \o FlattenSeq(old)
    BY DEF Display, Others, old
  <1>8. Display(new) = Digits(arcs[1]) \o FlattenSeq(Append(old, b))
    <2>1. new[1] = arcs[1]
      BY <1>2
    <2>2. Display(new) = Digits(new[1]) \o FlattenSeq(Others(new))
      BY <1>2 DEF Display, Others
    <2> QED
      BY <1>5, <2>1, <2>2
  <1>9. Display(new) = Display(arcs) \o b
    <2> DEFINE d == Digits(arcs[1])
               e == FlattenSeq(old)
    <2>1. d \in Seq(Chars) /\ e \in Seq(Chars) /\ b \in Seq(Chars)
      BY <1>4, <1>6
    <2>2. Display(arcs) = d \o e /\ Display(new) = d \o (e \o b)
      BY <1>6, <1>7, <1>8
    <2> HIDE DEF d, e
    <2>3. (d \o e) \o b = d \o (e \o b)
      BY <2>1, ConcatAssociative
    <2> QED
      BY <2>2, <2>3
  <1> QED
    BY <1>1, <1>9 DEF new, b

\* What the checks for dots in from_str let pass.
WellDotted(s) ==
    /\ s \in Texts /\ s # <<>> /\ s[1] # Dot /\ s[Len(s)] # Dot
    /\ ~\E i \in 1..(Len(s) - 1) : s[i] = Dot /\ s[i + 1] = Dot

\* A dot and a component more.
LEMMA DottedJoin ==
    ASSUME NEW s, WellDotted(s), NEW t, Dotless(t), t # <<>>
    PROVE  WellDotted(t) /\ WellDotted(s \o (<<Dot>> \o t))
  <1> DEFINE u == s \o (<<Dot>> \o t)
             m == Len(s)
             n == Len(t)
  <1>1. /\ s \in Seq(Chars) /\ t \in Seq(Chars) /\ m \in Nat \ {0} /\ n \in Nat \ {0}
        /\ \A i \in 1..n : t[i] # Dot
    BY EmptySeq, LenProperties DEF WellDotted, Dotless, Texts
  <1>2. s[1] # Dot /\ s[m] # Dot /\ ~\E i \in 1..(m - 1) : s[i] = Dot /\ s[i + 1] = Dot
    BY DEF WellDotted
  <1>3. WellDotted(t)
    <2>1. 1 \in 1..n /\ n \in 1..n /\ \A i \in 1..(n - 1) : i \in 1..n
      BY <1>1
    <2> QED
      BY <1>1, <2>1 DEF WellDotted, Texts
  <1>4. Dot \in Chars
    BY DEF Chars, Letter, Dot
  <1>5. /\ u \in Seq(Chars) /\ Len(u) = m + 1 + n
        /\ \A i \in 1..(m + 1 + n) : u[i] = IF i <= m THEN s[i] ELSE IF i = m + 1 THEN Dot ELSE t[i - m - 1]
    <2> DEFINE b == <<Dot>> \o t
    <2>1. b \in Seq(Chars) /\ Len(b) = 1 + n /\ \A i \in 1..(1 + n) : b[i] = IF i = 1 THEN Dot ELSE t[i - 1]
      BY <1>1, <1>4
    <2> HIDE DEF b
    <2>2. s \o b \in Seq(Chars) /\ Len(s \o b) = m + (1 + n)
          /\ \A i \in 1..(m + (1 + n)) : (s \o b)[i] = IF i <= m THEN s[i] ELSE b[i - m]
      <3>1. s \o b \in Seq(Chars) /\ Len(s \o b) = Len(s) + Len(b)
            /\ \A i \in 1..(Len(s) + Len(b)) : (s \o b)[i] = IF i <= Len(s) THEN s[i] ELSE b[i - Len(s)]
        BY <1>1, <2>1, ConcatProperties
      <3> QED
        BY <2>1, <3>1
    <2>3. ASSUME NEW i \in 1..(m + 1 + n)
          PROVE  (s \o b)[i] = IF i <= m THEN s[i] ELSE IF i = m + 1 THEN Dot ELSE t[i - m - 1]
      <3>1. CASE i <= m
        BY <1>1, <2>2, <3>1
      <3>2. CASE ~(i <= m)
        <4>1. (s \o b)[i] = b[i - m] /\ i - m \in 1..(1 + n) /\ (i - m = 1 <=> i = m + 1) /\ (i - m) - 1 = i - m - 1
          BY <1>1, <2>2, <3>2
        <4> QED
          BY <2>1, <3>2, <4>1
      <3> QED
        BY <3>1, <3>2
    <2> QED
      BY <1>1, <2>2, <2>3 DEF b
  <1> HIDE DEF u, m, n
  <1>6. u # <<>> /\ u[1] # Dot /\ u[Len(u)] # Dot
    <2>1. u[1] = s[1]
      BY <1>1, <1>5
    <2>2. u[Len(u)] = t[n]
      <3>1. m + 1 + n \in 1..(m + 1 + n) /\ ~(m + 1 + n <= m) /\ m + 1 + n # m + 1 /\ (m + 1 + n) - m - 1 = n
        BY <1>1
      <3> QED
        BY <1>5, <3>1
    <2>3. n \in 1..n
      BY <1>1
    <2> QED
      BY <1>1, <1>2, <1>5, <2>1, <2>2, <2>3, EmptySeq
  <1>7. ASSUME NEW i \in 1..(Len(u) - 1), u[i] = Dot, u[i + 1] = Dot PROVE FALSE
    <2>1. i \in 1..(m + 1 + n) /\ i + 1 \in 1..(m + 1 + n)
      BY <1>1, <1>5
    <2>2. CASE i < m
      <3>1. u[i] = s[i] /\ u[i + 1] = s[i + 1] /\ i \in 1..(m - 1)
        BY <1>1, <1>5, <2>1, <2>2
      <3> QED
        BY <1>2, <1>7, <3>1
    <2>3. CASE i = m
      <3>1. u[i] = s[m]
        BY <1>1, <1>5, <2>1, <2>3
      <3> QED
        BY <1>2, <1>7, <3>1
    <2>4. CASE i > m
      <3> DEFINE j == i + 1
      <3>1. j - m - 1 \in 1..n /\ ~(j <= m) /\ j # m + 1 /\ j \in 1..(m + 1 + n) /\ u[j] = Dot
        BY <1>1, <1>7, <2>1, <2>4
      <3> HIDE DEF j
      <3>2. u[j] = t[j - m - 1]
        BY <1>5, <3>1
      <3> QED
        BY <1>1, <3>1, <3>2
    <2> QED
      BY <1>1, <2>2, <2>3, <2>4
  <1>8. WellDotted(u)
    BY <1>5, <1>6, <1>7 DEF WellDotted, Texts
  <1> QED
    BY <1>3, <1>8 DEF u

\* Concatenation of characters is associative.
LEMMA TextsAssociative ==
    \A a, b, c \in Seq(Chars) : (a \o b) \o c = a \o (b \o c)
  BY ConcatAssociative

\* The components as Display shows them.
ShownArcs(arcs) == [i \in 1..Len(arcs) |-> Digits(arcs[i])]

\* The text of an OID has its components for parts.
LEMMA DisplayParts ==
    ASSUME NEW arcs \in Seq(Nat), arcs # <<>>
    PROVE  WellDotted(Display(arcs)) /\ Parts(Display(arcs)) = ShownArcs(arcs)
  <1> DEFINE P(s) == /\ WellDotted(Display(s)) /\ Parts(Display(s)) = ShownArcs(s) /\ ShownArcs(s) \in Seq(Texts)
             S == {k \in Nat : \A s \in Seq(Nat) : Len(s) = k + 1 => P(s)}
  <1>1. 0 \in S
    <2> SUFFICES ASSUME NEW s \in Seq(Nat), Len(s) = 1 PROVE P(s)
      OBVIOUS
    <2> DEFINE a == s[1]
               d == Digits(a)
    <2>1. a \in Nat /\ s = <<a>>
      <3> HIDE DEF P, S, d
      <3>0. a \in Nat
        <4>1. 1 \in 1..Len(s)
          OBVIOUS
        <4> QED
          BY <4>1, ElementOfSeq
      <3> HIDE DEF a
      <3>1. Len(<<a>>) = 1 /\ <<a>>[1] = a /\ a \in Nat
        BY <3>0
      <3>2. <<a>> \in Seq(Nat) /\ \A i \in 1..Len(s) : s[i] = <<a>>[i]
        BY <3>1 DEF a
      <3>3. s = <<a>>
        BY <3>1, <3>2, SeqEqual
      <3> QED
        BY <3>1, <3>3
    <2> HIDE DEF a
    <2>2. Dotless(d) /\ d # <<>> /\ d \in Texts
      BY <2>1, DigitsType DEF Texts
    <2>3. Display(s) = d
      BY <2>1, DisplayAppend
    <2>4. ShownArcs(s) = <<d>>
      BY <2>1 DEF ShownArcs
    <2> HIDE DEF d
    <2>5. WellDotted(d)
      <3>1. d \in Seq(Chars) /\ Len(d) \in Nat \ {0} /\ \A i \in 1..Len(d) : d[i] # Dot
        BY <2>2, EmptySeq, LenProperties DEF Dotless, Texts
      <3>2. 1 \in 1..Len(d) /\ Len(d) \in 1..Len(d) /\ \A i \in 1..(Len(d) - 1) : i \in 1..Len(d)
        BY <3>1
      <3> QED
        BY <2>2, <3>1, <3>2 DEF WellDotted
    <2>6. <<>> \in Texts /\ <<>> \in Seq(Texts) /\ Parts(<<>>) = Append(<<>>, <<>>)
      <3>1. <<>> \in Texts /\ <<>> \in Seq(Texts) /\ << <<>> >> = Append(<<>>, <<>>) /\ Dot \in Chars
        BY DEF Texts, Chars, Dot, Letter
      <3> QED
        BY <3>1, PartsAppend
    <2>7. Parts(<<>> \o d) = Append(<<>>, <<>> \o d)
      BY <2>2, <2>6, PartGrows
    <2>8. <<>> \o d = d /\ Append(<<>>, d) = <<d>> /\ <<d>> \in Seq(Texts)
      BY <2>2 DEF Texts
    <2> QED
      BY <2>3, <2>4, <2>5, <2>7, <2>8
  <1>2. ASSUME NEW k \in Nat, k \in S PROVE k + 1 \in S
    <2> SUFFICES ASSUME NEW s \in Seq(Nat), Len(s) = k + 1 + 1 PROVE P(s)
      OBVIOUS
    <2>1. s # <<>>
      OBVIOUS
    <2>2. PICK r \in Seq(Nat), a \in Nat : s = Append(r, a) /\ Len(s) = Len(r) + 1
      BY <2>1, LastApart
    <2>3. Len(r) = k + 1 /\ r # <<>>
      BY <2>2
    <2> DEFINE x == Display(r)
               d == Digits(a)
               ps == ShownArcs(r)
    <2>4. WellDotted(x) /\ Parts(x) = ps /\ ps \in Seq(Texts)
      BY <1>2, <2>3
    <2>5. Dotless(d) /\ d # <<>> /\ d \in Seq(Chars)
      BY DigitsType
    <2>6. Display(s) = x \o (<<Dot>> \o d)
      BY <2>2, <2>3, DisplayAppend
    <2>7. ShownArcs(s) = Append(ps, d) /\ Append(ps, d) \in Seq(Texts)
      <3>1. Len(ps) = k + 1 /\ (\A i \in 1..(k + 1) : ps[i] = Digits(r[i])) /\ d \in Texts
        BY <2>3, <2>5 DEF ShownArcs, Texts
      <3>2. (\A i \in 1..(k + 1) : s[i] = r[i]) /\ s[k + 1 + 1] = a
        BY <2>2, <2>3
      <3> HIDE DEF ps
      <3> DEFINE v == Append(ps, d)
      <3>3. v \in Seq(Texts) /\ Len(v) = k + 1 + 1 /\ (\A i \in 1..(k + 1) : v[i] = ps[i]) /\ v[k + 1 + 1] = d
        BY <2>4, <3>1, AppendProperties
      <3> HIDE DEF v
      <3>4. \A i \in 1..(k + 1 + 1) : v[i] = Digits(s[i])
        <4>1. \A i \in 1..(k + 1 + 1) : i \in 1..(k + 1) \/ i = k + 1 + 1
          OBVIOUS
        <4> QED
          BY <3>1, <3>2, <3>3, <4>1
      <3>5. v = [i \in 1..(k + 1 + 1) |-> v[i]]
        BY <3>3
      <3>6. v = ShownArcs(s)
        BY <3>4, <3>5 DEF ShownArcs
      <3> QED
        BY <3>3, <3>6 DEF v
    <2> HIDE DEF x, d, ps
    <2>8. WellDotted(x \o (<<Dot>> \o d))
      BY <2>4, <2>5, DottedJoin
    <2>9. Parts(x \o (<<Dot>> \o d)) = Append(ps, d)
      <3>1. x \in Seq(Chars) /\ Dot \in Chars
        BY <2>4 DEF WellDotted, Texts, Chars, Dot, Letter
      <3>2. x \o (<<Dot>> \o d) = Append(x, Dot) \o d /\ Append(x, Dot) \in Seq(Chars)
        <4>1. <<Dot>> \in Seq(Chars) /\ Append(x, Dot) = x \o <<Dot>> /\ Append(x, Dot) \in Seq(Chars)
          BY <3>1
        <4>2. (x \o <<Dot>>) \o d = x \o (<<Dot>> \o d)
          <5> DEFINE y == <<Dot>>
          <5>1. y \in Seq(Chars)
            BY <4>1
          <5> HIDE DEF y
          <5>2. (x \o y) \o d = x \o (y \o d)
            BY <2>5, <3>1, <5>1, TextsAssociative
          <5> QED
            BY <5>2 DEF y
        <4> QED
          BY <4>1, <4>2
      <3>3. Parts(Append(x, Dot)) = Split(ps, Dot)
        BY <2>4, <3>1, PartsAppend DEF Texts
      <3>4. Split(ps, Dot) = Append(ps, <<>>)
        BY DEF Split
      <3>5. <<>> \in Texts /\ <<>> \o d = d
        BY <2>5 DEF Texts
      <3> DEFINE w == Append(x, Dot)
      <3> HIDE DEF w
      <3>6. w \in Texts /\ Parts(w) = Append(ps, <<>>)
        BY <3>2, <3>3, <3>4 DEF w, Texts
      <3>7. Parts(w \o d) = Append(ps, <<>> \o d)
        BY <2>4, <2>5, <3>5, <3>6, PartGrows
      <3> QED
        BY <3>2, <3>5, <3>7 DEF w
    <2> QED
      BY <2>6, <2>7, <2>8, <2>9
  <1>3. Len(arcs) - 1 \in Nat /\ Len(arcs) = (Len(arcs) - 1) + 1
    OBVIOUS
  <1>4. Len(arcs) - 1 \in S
    <2> HIDE DEF S
    <2>1. Nat \subseteq S
      BY <1>1, <1>2, NaturalInduction
    <2> QED
      BY <1>3, <2>1
  <1> QED
    BY <1>3, <1>4

-----------------------------------------------------------------------------
(* Components as numbers *)

\* The sizes of integers.
LEMMA WordsAre ==
    /\ WordOctets \in Nat \ {0} /\ DoubleOctets \in Nat \ {0} /\ Base \in Nat \ {0}
    /\ Word \in Nat \ {0} /\ Double \in Nat \ {0}
  <1>1. WordOctets \in Nat \ {0} /\ DoubleOctets \in Nat \ {0} /\ Base \in Nat \ {0}
    BY BerAssumption, Limits DEF BerAssumption
  <1> QED
    BY <1>1, Powers DEF Word, Double

\* The digits of a u32 are parsed as it.
LEMMA DigitsParsed ==
    ASSUME NEW n \in Nat, n < Word
    PROVE  ParseComponent(Digits(n)) = Ok(n)
  <1> DEFINE d == Digits(n)
  <1>1. d \in Seq(0..9) /\ d # <<>> /\ (Len(d) > 1 => d[1] # 0) /\ Decimal(d) = n
    BY DigitsMean DEF AsShown
  <1> HIDE DEF d
  <1>2. (\A i \in DOMAIN d : ~(d[i] > 9)) /\ d[1] # Plus
    BY <1>1 DEF Plus
  <1>3. Word \in Nat
    BY WordsAre
  <1>4. ~(n >= Word)
    BY <1>3
  <1>5. ParseU32(d) = Ok(n)
    BY <1>1, <1>2, <1>4 DEF ParseU32
  <1>6. ParseComponent(d) = Ok(n)
    BY <1>1, <1>5 DEF ParseComponent, Ok
  <1> QED
    BY <1>6 DEF d

\* A component that is parsed is the digits of its number, but for a plus sign
\* and the zeros behind it.
LEMMA ParsedDigits ==
    ASSUME NEW part \in Texts, ParseComponent(part).ok
    PROVE  Plain(part) = Digits(ParseComponent(part).value)
  <1> DEFINE digits == IF part # <<>> /\ part[1] = Plus THEN Tail(part) ELSE part
             n == Decimal(digits)
  <1>1. ParseU32(part).ok /\ ParseComponent(part) = ParseU32(part) /\ ~(Len(part) > 1 /\ part[1] = 0)
    BY DEF ParseComponent, Refused
  <1>2. digits # <<>> /\ (\A i \in DOMAIN digits : ~(digits[i] > 9)) /\ ParseU32(part) = Ok(n)
    BY <1>1 DEF ParseU32, Error
  <1>3. ParseComponent(part).value = n
    BY <1>1, <1>2 DEF Ok
  <1>4. part \in Seq(Chars)
    BY DEF Texts
  <1>5. part # <<>>
    BY <1>2
  <1>6. digits \in Seq(Chars)
    BY <1>4, <1>5
  <1> HIDE DEF digits
  <1>7. digits \in Seq(0..9) /\ digits \in Seq(Nat)
    <2>1. \A i \in 1..Len(digits) : digits[i] \in 0..9
      <3>1. \A i \in 1..Len(digits) : digits[i] \in Chars /\ ~(digits[i] > 9)
        BY <1>2, <1>6
      <3> QED
        BY <3>1 DEF Chars, Letter
    <2>2. Len(digits) \in Nat /\ digits = [i \in 1..Len(digits) |-> digits[i]]
      BY <1>6
    <2>3. digits \in Seq(0..9)
      BY <2>1, <2>2, SequenceOf
    <2> QED
      BY <2>3, SeqMonotonic
  <1>8. CASE part[1] = Plus
    <2> DEFINE k == LeadingCount(digits, 0)
               d == From(digits, k + 1)
    <2>1. digits = Tail(part)
      BY <1>5, <1>8 DEF digits
    <2>2. Plain(part) = d
      BY <1>8, <2>1 DEF Plain
    <2>3. /\ k \in 0..(Len(digits) - 1) /\ (\A j \in 1..k : digits[j] = 0)
          /\ k < Len(digits) - 1 => digits[k + 1] # 0
      BY <1>2, <1>7, LeadingCountIs
    <2> HIDE DEF k
    <2>4. k + 1 \in 1..Len(digits) /\ (k + 1) - 1 = k
      BY <1>7, <2>3
    <2>5. Decimal(d) = n
      BY <1>7, <2>3, <2>4, DropDecimalZeros
    <2>6. d \in Seq(0..9) /\ Len(d) = Len(digits) + 1 - (k + 1) /\ d[1] = digits[k + 1]
      BY <1>7, <2>4, FromFirst
    <2> HIDE DEF d
    <2>7. AsShown(d)
      BY <1>7, <2>3, <2>4, <2>6 DEF AsShown
    <2>8. Digits(n) = d
      BY <2>5, <2>7, MeansDigits
    <2> QED
      BY <1>3, <2>2, <2>8
  <1>9. CASE part[1] # Plus
    <2>1. digits = part /\ Plain(part) = part
      BY <1>9 DEF digits, Plain
    <2>2. AsShown(part)
      BY <1>1, <1>5, <1>7, <2>1 DEF AsShown
    <2> QED
      BY <1>3, <2>1, <2>2, MeansDigits
  <1> QED
    BY <1>8, <1>9

\* All components are parsed, or the first error is returned.
LEMMA Collected ==
    ASSUME NEW n \in Nat, NEW components, DOMAIN components = 1..n
    PROVE  /\ (\A i \in 1..n : components[i].ok) =>
                   Collect(components) = TryFrom([i \in 1..n |-> components[i].value])
           /\ Collect(components).ok => \A i \in 1..n : components[i].ok
  <1> DEFINE failed == {i \in DOMAIN components : ~components[i].ok}
  <1>1. CASE failed = {}
    <2>1. Collect(components) = TryFrom([i \in DOMAIN components |-> components[i].value])
      BY <1>1 DEF Collect
    <2>2. \A i \in 1..n : components[i].ok
      BY <1>1
    <2> QED
      BY <2>1, <2>2
  <1>2. CASE failed # {}
    <2> DEFINE first == CHOOSE i \in failed : \A j \in failed : i <= j
    <2>1. Collect(components) = components[first]
      BY <1>2 DEF Collect
    <2>2. failed \subseteq Nat
      OBVIOUS
    <2>3. first \in failed
      <3> HIDE DEF failed
      <3>1. \E i \in failed : \A j \in failed : i <= j
        BY <1>2, <2>2, LeastNatural
      <3> QED
        BY <3>1
    <2> HIDE DEF first
    <2>4. ~Collect(components).ok
      BY <2>1, <2>3
    <2>5. \E i \in 1..n : ~components[i].ok
      BY <1>2
    <2> QED
      BY <2>4, <2>5
  <1> QED
    BY <1>1, <1>2

-----------------------------------------------------------------------------
(* Texts and OIDs *)

\* Arcs are u32.
LEMMA ArcsAre ==
    ASSUME NEW arcs \in Components
    PROVE  /\ arcs \in Seq(Nat) /\ Len(arcs) \in Nat /\ arcs = [i \in 1..Len(arcs) |-> arcs[i]]
           /\ \A i \in 1..Len(arcs) : arcs[i] \in Nat /\ arcs[i] < Word
  <1> DEFINE U == 0..(Word - 1)
  <1>1. arcs \in Seq(U)
    BY TextAssumption DEF TextAssumption
  <1>2. Word \in Nat
    BY WordsAre
  <1>3. U \subseteq Nat /\ \A x \in U : x < Word
    BY <1>2
  <1> HIDE DEF U
  <1>4. arcs \in Seq(Nat)
    BY <1>1, <1>3, SeqMonotonic
  <1>5. \A i \in 1..Len(arcs) : arcs[i] \in U
    BY <1>1
  <1> QED
    BY <1>3, <1>4, <1>5

\* The text is what was typed, or what Display gave for the arcs.
TextInv ==
    /\ text \in Texts
    /\ shown # Typed => shown \in Components /\ text = Display(shown)

LEMMA SpecTextInv == TextSpec => []TextInv
  <1>1. TextInit => TextInv
    BY DEF TextInit, TextInv, Texts
  <1>2. TextInv /\ [TextNext]_textVars => TextInv'
    <2> SUFFICES ASSUME TextInv, [TextNext]_textVars PROVE TextInv'
      OBVIOUS
    <2>1. ASSUME NEW c \in Characters, Types(c) PROVE TextInv'
      <3>1. c \in Chars
        BY TextAssumption DEF TextAssumption, Chars
      <3> QED
        BY <2>1, <3>1 DEF Types, TextInv, Texts
    <2>2. ASSUME NEW arcs \in Components, Shows(arcs) PROVE TextInv'
      <3>1. Display(arcs) \in Texts
        <4>1. CASE arcs = <<>>
          BY <4>1 DEF Display, Texts
        <4>2. CASE arcs # <<>>
          <5>1. arcs \in Seq(Nat)
            BY ArcsAre
          <5> QED
            BY <4>2, <5>1, DisplayParts DEF WellDotted
        <4> QED
          BY <4>1, <4>2
      <3> QED
        BY <2>2, <3>1 DEF Shows, TextInv
    <2>3. CASE UNCHANGED textVars
      BY <2>3 DEF textVars, TextInv
    <2> QED
      BY <2>1, <2>2, <2>3 DEF TextNext
  <1> QED
    BY <1>1, <1>2, PTL DEF TextSpec

\* What from_str does with a text that has its dots right.
LEMMA FromStrIs ==
    ASSUME NEW s \in Texts
    PROVE  /\ FromStr(s).ok => WellDotted(s)
           /\ WellDotted(s) =>
                  FromStr(s) = Collect([i \in 1..Len(Parts(s)) |-> ParseComponent(Parts(s)[i])])
           /\ Parts(s) \in Seq(Texts) /\ Len(Parts(s)) \in Nat /\ DOMAIN Parts(s) = 1..Len(Parts(s))
  <1>1. Parts(s) \in Seq(Texts)
    <2>1. Dot \in Chars
      BY DEF Chars, Letter, Dot
    <2> QED
      BY <2>1, PartsAppend
  <1>2. Len(Parts(s)) \in Nat /\ DOMAIN Parts(s) = 1..Len(Parts(s))
    BY <1>1
  <1>3. FromStr(s).ok => WellDotted(s)
    BY DEF FromStr, WellDotted, Refused
  <1>4. WellDotted(s) => FromStr(s) = Collect([i \in 1..Len(Parts(s)) |-> ParseComponent(Parts(s)[i])])
    BY <1>2 DEF FromStr, WellDotted
  <1> QED
    BY <1>1, <1>2, <1>3, <1>4

\* The text of an OID is read as try_from takes the OID.
LEMMA ShownReads ==
    ASSUME NEW arcs \in Components, arcs # <<>>
    PROVE  FromStr(Display(arcs)) = TryFrom(arcs)
  <1> DEFINE s == Display(arcs)
             n == Len(arcs)
             c == [i \in 1..n |-> ParseComponent(Parts(s)[i])]
  <1>1. arcs \in Seq(Nat) /\ n \in Nat /\ (\A i \in 1..n : arcs[i] \in Nat /\ arcs[i] < Word) /\ arcs = [i \in 1..n |-> arcs[i]]
    BY ArcsAre
  <1>2. WellDotted(s) /\ Parts(s) = ShownArcs(arcs)
    BY <1>1, DisplayParts
  <1>3. s \in Texts
    BY <1>2 DEF WellDotted
  <1> HIDE DEF s
  <1>4. Len(Parts(s)) = n /\ \A i \in 1..n : Parts(s)[i] = Digits(arcs[i])
    BY <1>1, <1>2 DEF ShownArcs
  <1>5. FromStr(s) = Collect(c)
    BY <1>2, <1>3, <1>4, FromStrIs
  <1>6. \A i \in 1..n : ParseComponent(Parts(s)[i]) = Ok(arcs[i])
    BY <1>1, <1>4, DigitsParsed
  <1>7. DOMAIN c = 1..n /\ \A i \in 1..n : c[i].ok /\ c[i].value = arcs[i]
    <2>1. DOMAIN c = 1..n /\ \A i \in 1..n : c[i] = Ok(arcs[i])
      BY <1>6
    <2> HIDE DEF c
    <2> QED
      BY <2>1 DEF Ok
  <1> HIDE DEF c, n
  <1>8. Collect(c) = TryFrom([i \in 1..n |-> c[i].value])
    BY <1>1, <1>7, Collected
  <1>9. [i \in 1..n |-> c[i].value] = arcs
    BY <1>1, <1>7
  <1> QED
    BY <1>5, <1>8, <1>9 DEF s

\* An accepted text is the text of its OID, plus signs aside.
LEMMA AcceptedIsShown ==
    ASSUME NEW s \in Texts, FromStr(s).ok
    PROVE  [i \in DOMAIN Parts(s) |-> Plain(Parts(s)[i])] = [i \in DOMAIN FromStr(s).value |-> Digits(FromStr(s).value[i])]
  <1> DEFINE q == Parts(s)
             n == Len(q)
             c == [i \in 1..n |-> ParseComponent(q[i])]
             v == [i \in 1..n |-> c[i].value]
  <1>1. q \in Seq(Texts) /\ n \in Nat /\ DOMAIN q = 1..n /\ FromStr(s) = Collect(c)
    BY FromStrIs
  <1> HIDE DEF q
  <1>2. \A i \in 1..n : q[i] \in Texts /\ c[i] = ParseComponent(q[i])
    BY <1>1
  <1>3. DOMAIN c = 1..n
    OBVIOUS
  <1> HIDE DEF c, n
  <1>4. Collect(c).ok
    BY <1>1
  <1>5. (\A i \in 1..n : c[i].ok) /\ Collect(c) = TryFrom(v)
    BY <1>1, <1>3, <1>4, Collected
  <1>6. Collect(c).value = v
    <2> HIDE DEF v
    <2>1. TryFrom(v).ok
      BY <1>4, <1>5
    <2>2. TryFrom(v) = Ok(v)
      BY <2>1 DEF TryFrom, Refused
    <2> QED
      BY <1>5, <2>2 DEF Ok
  <1>7. \A i \in 1..n : Plain(q[i]) = Digits(v[i])
    BY <1>2, <1>5, ParsedDigits
  <1>8. DOMAIN v = 1..n
    OBVIOUS
  <1> HIDE DEF v
  <1>9. [i \in DOMAIN q |-> Plain(q[i])] = [i \in DOMAIN v |-> Digits(v[i])]
    BY <1>1, <1>7, <1>8
  <1> QED
    BY <1>1, <1>6, <1>9 DEF q

\* For every word: the text of an OID is read back as it, text with arcs an OID
\* cannot have is refused for the reason try_from gives, and an accepted text
\* is the one Display gives for the result, plus signs aside (from_str,
\* Display, validate_oid_components).
THEOREM TextsStandForOids == TextSpec => []OidTextsExact
  <1>1. TextInv => OidTextsExact
    <2> SUFFICES ASSUME TextInv PROVE OidTextsExact
      OBVIOUS
    <2>1. text \in Texts /\ (shown # Typed => shown \in Components /\ text = Display(shown))
      BY DEF TextInv
    <2>2. ASSUME shown # Typed PROVE IF text = <<>> THEN ~FromStr(text).ok ELSE FromStr(text) = TryFrom(shown)
      <3>1. CASE text = <<>>
        BY <3>1 DEF FromStr, Refused
      <3>2. CASE text # <<>>
        <4>1. shown # <<>>
          BY <2>1, <2>2, <3>2 DEF Display
        <4> QED
          BY <2>1, <2>2, <3>2, <4>1, ShownReads
      <3> QED
        BY <3>1, <3>2
    <2>3. FromStr(text).ok => [i \in DOMAIN Parts(text) |-> Plain(Parts(text)[i])]
                                  = [i \in DOMAIN FromStr(text).value |-> Digits(FromStr(text).value[i])]
      BY <2>1, AcceptedIsShown
    <2> QED
      BY <2>2, <2>3 DEF OidTextsExact
  <1> QED
    BY <1>1, SpecTextInv, PTL
=============================================================================
