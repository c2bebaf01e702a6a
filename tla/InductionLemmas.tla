--------------------------- MODULE InductionLemmas ---------------------------
(***************************************************************************)
(* Induction and recursion over numbers, stated with sets and functions in *)
(* place of operators, and what follows for the sequences that the models  *)
(* flatten.  A property is proved for all numbers by forming the set of    *)
(* those that have it.                                                     *)
(***************************************************************************)
EXTENDS Integers, Sequences, SequencesExt, WellFoundedInduction, SequenceTheorems, TLAPS

\* A set of natural numbers has a least element.
LEMMA LeastNatural ==
    ASSUME NEW S, S \subseteq Nat, S # {}
    PROVE  \E n \in S : \A m \in S : n <= m
  <1>1. PICK n \in S : \A m \in S : ~(<<m, n>> \in OpToRel(<, Nat))
    BY WFMin, NatLessThanWellFounded
  <1>2. \A m \in S : ~(m < n)
    BY <1>1 DEF OpToRel
  <1> QED
    BY <1>2

\* Induction from 0 up to N.
LEMMA InductionUpTo ==
    ASSUME NEW N \in Nat, NEW S, 0 \in S,
           \A n \in 1..N : n - 1 \in S => n \in S
    PROVE  0..N \subseteq S
  <1> SUFFICES ASSUME (0..N) \ S # {} PROVE FALSE
    OBVIOUS
  <1> DEFINE Left == (0..N) \ S
  <1>1. PICK n \in Left : \A m \in Left : n <= m
    <2>1. Left \subseteq Nat /\ Left # {}
      OBVIOUS
    <2> HIDE DEF Left
    <2> QED
      BY <2>1, LeastNatural
  <1>2. n # 0 /\ n - 1 \in 0..N
    BY <1>1
  <1>3. n - 1 \in S
    BY <1>1, <1>2
  <1> QED
    BY <1>1, <1>2, <1>3

\* Induction over the natural numbers.
LEMMA NaturalInduction ==
    ASSUME NEW S, 0 \in S, \A n \in Nat : n \in S => n + 1 \in S
    PROVE  Nat \subseteq S
  <1> SUFFICES ASSUME NEW n \in Nat PROVE n \in S
    OBVIOUS
  <1>1. ASSUME NEW m \in 1..n, m - 1 \in S PROVE m \in S
    BY <1>1
  <1>2. 0..n \subseteq S
    BY <1>1, InductionUpTo
  <1> QED
    BY <1>2

\* f is defined by recursion on 0..N: its value at n is a function of its value
\* at n - 1.
Iterates(f, N, first, step) ==
    f[0] = first /\ \A n \in 1..N : f[n] = step[n][f[n - 1]]

\* There is such a function.
LEMMA RecursionUpTo ==
    ASSUME NEW N \in Nat, NEW V, NEW first \in V, NEW step \in [1..N -> [V -> V]]
    PROVE  \E f \in [0..N -> V] : Iterates(f, N, first, step)
  <1> DEFINE Good(n, f) == f[0] = first /\ \A m \in 1..n : f[m] = step[m][f[m - 1]]
             S == {n \in 0..N : \E f \in [0..n -> V] : Good(n, f)}
  <1>1. 0 \in S
    <2> DEFINE f == [n \in 0..0 |-> first]
    <2>1. f \in [0..0 -> V] /\ Good(0, f)
      OBVIOUS
    <2> HIDE DEF f
    <2> QED
      BY <2>1
  <1>2. ASSUME NEW n \in 1..N, n - 1 \in S PROVE n \in S
    <2>1. PICK f \in [0..(n - 1) -> V] : Good(n - 1, f)
      BY <1>2
    <2> DEFINE g == [m \in 0..n |-> IF m = n THEN step[n][f[n - 1]] ELSE f[m]]
    <2>2. f[n - 1] \in V /\ step[n] \in [V -> V]
      OBVIOUS
    <2>3. g \in [0..n -> V]
      BY <2>2
    <2>4. g[0] = first
      BY <2>1
    <2>5. ASSUME NEW m \in 1..n PROVE g[m] = step[m][g[m - 1]]
      <3>1. CASE m = n
        BY <3>1
      <3>2. CASE m # n
        <4>1. m \in 1..(n - 1) /\ m \in 0..n /\ m - 1 \in 0..n /\ m - 1 # n
          BY <3>2
        <4> QED
          BY <2>1, <3>2, <4>1
      <3> QED
        BY <3>1, <3>2
    <2> HIDE DEF g
    <2> QED
      BY <2>3, <2>4, <2>5
  <1>3. N \in S
    <2> HIDE DEF S
    <2>1. 0..N \subseteq S
      BY <1>1, <1>2, InductionUpTo
    <2> QED
      BY <2>1
  <1> QED
    BY <1>3 DEF Iterates

-----------------------------------------------------------------------------
(* FlattenSeq *)

\* What the recursive function in FlattenSeq satisfies.
Flattens(f, s) == f = [i \in 1..Len(s) |-> IF i = 1 THEN s[i] ELSE f[i - 1] \o s[i]]

\* There is such a function.
LEMMA FlattenExists ==
    ASSUME NEW A, NEW s \in Seq(Seq(A)), s # <<>>
    PROVE  \E f : Flattens(f, s)
  <1> DEFINE L == Len(s)
             step == [n \in 1..(L - 1) |-> [t \in Seq(A) |-> t \o s[n + 1]]]
  <1>1. L \in Nat \ {0} /\ \A i \in 1..L : s[i] \in Seq(A)
    OBVIOUS
  <1>2. step \in [1..(L - 1) -> [Seq(A) -> Seq(A)]]
    BY <1>1
  <1>3. PICK r \in [0..(L - 1) -> Seq(A)] :
            r[0] = s[1] /\ \A n \in 1..(L - 1) : r[n] = step[n][r[n - 1]]
    <2> DEFINE N == L - 1
               V == Seq(A)
               first == s[1]
    <2>1. N \in Nat /\ first \in V /\ step \in [1..N -> [V -> V]]
      BY <1>1, <1>2
    <2> HIDE DEF step, N, V, first
    <2>2. \E r \in [0..N -> V] : Iterates(r, N, first, step)
      BY <2>1, RecursionUpTo
    <2> QED
      BY <2>2 DEF Iterates, N, V, first
  <1> DEFINE f == [i \in 1..L |-> r[i - 1]]
  <1>4. ASSUME NEW i \in 1..L, i # 1 PROVE f[i] = f[i - 1] \o s[i]
    <2>1. i - 1 \in 1..(L - 1) /\ i - 1 \in 1..L /\ i - 1 - 1 \in 0..(L - 1) /\ (i - 1) + 1 = i
      BY <1>1, <1>4
    <2>2. r[i - 1] = step[i - 1][r[i - 1 - 1]]
      BY <1>3, <2>1
    <2>3. step[i - 1][r[i - 1 - 1]] = r[i - 1 - 1] \o s[i]
      BY <2>1
    <2> QED
      BY <2>1, <2>2, <2>3
  <1>5. f[1] = s[1]
    BY <1>1, <1>3
  <1> HIDE DEF step
  <1>6. Flattens(f, s)
    BY <1>4, <1>5 DEF Flattens
  <1> HIDE DEF f
  <1> QED
    BY <1>6

\* Its values are sequences.
LEMMA FlattenType ==
    ASSUME NEW A, NEW s \in Seq(Seq(A)), s # <<>>, NEW f, Flattens(f, s)
    PROVE  \A i \in 1..Len(s) : f[i] \in Seq(A)
  <1> DEFINE L == Len(s)
             S == {n \in 0..(L - 1) : f[n + 1] \in Seq(A)}
  <1>1. L \in Nat \ {0} /\ L - 1 \in Nat /\ \A i \in 1..L : s[i] \in Seq(A)
    OBVIOUS
  <1>2. 0 \in S
    BY <1>1 DEF Flattens
  <1>3. ASSUME NEW n \in 1..(L - 1), n - 1 \in S PROVE n \in S
    <2>1. f[n] \in Seq(A)
      BY <1>3
    <2>2. n + 1 \in 1..L /\ n + 1 # 1 /\ (n + 1) - 1 = n
      BY <1>1
    <2>3. f[n + 1] = f[n] \o s[n + 1]
      BY <2>2 DEF Flattens
    <2>4. f[n + 1] \in Seq(A)
      BY <1>1, <2>1, <2>2, <2>3
    <2> QED
      BY <2>4
  <1>4. 0..(L - 1) \subseteq S
    <2> HIDE DEF S, L
    <2> QED
      BY <1>1, <1>2, <1>3, InductionUpTo
  <1>5. ASSUME NEW i \in 1..L PROVE f[i] \in Seq(A)
    <2>1. i - 1 \in 0..(L - 1) /\ (i - 1) + 1 = i
      BY <1>1
    <2>2. i - 1 \in S
      BY <1>4, <2>1
    <2> QED
      BY <2>1, <2>2
  <1> QED
    BY <1>5

\* FlattenSeq is such a function's last value.
LEMMA FlattenIs ==
    ASSUME NEW A, NEW s \in Seq(Seq(A)), s # <<>>
    PROVE  \E f : Flattens(f, s) /\ FlattenSeq(s) = f[Len(s)]
  <1> DEFINE f == CHOOSE f : Flattens(f, s)
  <1>1. Flattens(f, s)
    BY FlattenExists
  <1>2. FlattenSeq(s) = f[Len(s)]
    BY DEF FlattenSeq, Flattens
  <1> QED
    BY <1>1, <1>2

\* Appending a sequence to the list appends it to the flattened list.
LEMMA FlattenAppend ==
    ASSUME NEW A, NEW s \in Seq(Seq(A)), NEW t \in Seq(A)
    PROVE  /\ FlattenSeq(<<>>) = <<>>
           /\ FlattenSeq(s) \in Seq(A)
           /\ FlattenSeq(Append(s, t)) = FlattenSeq(s) \o t
  <1>1. FlattenSeq(<<>>) = <<>>
    BY DEF FlattenSeq
  <1>2. FlattenSeq(s) \in Seq(A)
    BY <1>1, FlattenIs, FlattenType
  <1> DEFINE u == Append(s, t)
  <1>3. u \in Seq(Seq(A)) /\ u # <<>> /\ Len(u) = Len(s) + 1 /\ u[Len(s) + 1] = t
        /\ \A i \in 1..Len(s) : u[i] = s[i]
    BY AppendProperties, LenProperties
  <1>4. PICK g : Flattens(g, u) /\ FlattenSeq(u) = g[Len(u)]
    BY <1>3, FlattenIs
  <1>5. CASE s = <<>>
    <2>1. Len(u) = 1 /\ g[1] = t
      BY <1>3, <1>4, <1>5 DEF Flattens
    <2>2. FlattenSeq(s) \o t = t
      BY <1>1, <1>5
    <2> QED
      BY <1>1, <1>2, <1>4, <2>1, <2>2
  <1>6. CASE s # <<>>
    <2>1. PICK f : Flattens(f, s) /\ FlattenSeq(s) = f[Len(s)]
      BY <1>6, FlattenIs
    <2> DEFINE S == {n \in 0..(Len(s) - 1) : f[n + 1] = g[n + 1]}
    <2>2. Len(s) \in Nat \ {0} /\ Len(s) - 1 \in Nat
      BY <1>6
    <2>3. 0 \in S
      BY <1>3, <1>4, <2>1, <2>2 DEF Flattens
    <2>4. ASSUME NEW n \in 1..(Len(s) - 1), n - 1 \in S PROVE n \in S
      <3>1. f[n] = g[n]
        BY <2>4
      <3>2. n + 1 \in 1..Len(s) /\ n + 1 \in 1..Len(u) /\ n + 1 # 1 /\ (n + 1) - 1 = n
        BY <1>3, <2>2
      <3>3. f[n + 1] = f[n] \o s[n + 1]
        BY <2>1, <3>2 DEF Flattens
      <3>4. g[n + 1] = g[n] \o u[n + 1]
        BY <1>4, <3>2 DEF Flattens
      <3>5. f[n + 1] = g[n + 1]
        BY <1>3, <3>1, <3>2, <3>3, <3>4
      <3> QED
        BY <3>5
    <2>5. 0..(Len(s) - 1) \subseteq S
      <3> HIDE DEF S
      <3> QED
        BY <2>2, <2>3, <2>4, InductionUpTo
    <2>6. f[Len(s)] = g[Len(s)]
      <3>1. Len(s) - 1 \in 0..(Len(s) - 1) /\ (Len(s) - 1) + 1 = Len(s)
        BY <2>2
      <3>2. Len(s) - 1 \in S
        BY <2>5, <3>1
      <3> QED
        BY <3>1, <3>2
    <2>7. g[Len(u)] = g[Len(s)] \o t
      <3>1. Len(u) \in 1..Len(u) /\ Len(u) # 1 /\ Len(u) - 1 = Len(s) /\ u[Len(u)] = t
        BY <1>3, <2>2
      <3> HIDE DEF u
      <3> QED
        BY <1>4, <3>1 DEF Flattens
    <2> QED
      BY <1>1, <1>2, <1>4, <2>1, <2>6, <2>7
  <1> QED
    BY <1>1, <1>2, <1>5, <1>6
=============================================================================
