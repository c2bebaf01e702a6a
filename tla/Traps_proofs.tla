---------------------------- MODULE Traps_proofs ----------------------------
(***************************************************************************)
(* What send_trap returns, its message IDs and the IVs of encrypted        *)
(* messages are right for any number of threads, destinations, IDs and     *)
(* salts.  Numbers that wrap are compared without remainders: a later one  *)
(* is an earlier one plus the distance, or that less the size of the space.*)
(***************************************************************************)
EXTENDS Traps, FiniteSetTheorems, SequenceTheorems, TLAPS

Destinations == UNION {Range(d) : d \in SendTo}
Outcome == [destination : Destinations, ok : BOOLEAN]
Call == [size : PduSizes \cup {0}, dests : SendTo \cup {<<>>}, time : Nat,
         results : Seq(Outcome), sent : SUBSET Nat]
Places == {"idle", "encode", "salt", "seeding", "send", "return"}

\* Every variable stays in its type.
TrapsTypeOK ==
    /\ level \in Levels
    /\ boots \in Nat /\ elapsed \in Nat
    /\ nextId \in (-IdSpace)..(IdSpace - 1)
    /\ once \in {"new", "running", "done"}
    /\ salt \in 0..(SaltSpace - 1)
    /\ pc \in [Callers -> Places]
    /\ call \in [Callers -> Call]
    /\ recentIds \in Seq(0..(IdSpace - 1))
    /\ ivs \in Seq(Nat \X Nat \X (0..(SaltSpace - 1)))

\* b comes d places after a, counting modulo n.
After(a, b, d, n) == b = a + d \/ b = a + d - n

\* The results so far tell what was sent.
Tells(c) ==
    \A i \in 1..Len(c.results) :
        /\ c.results[i].destination = c.dests[i]
        /\ c.results[i].ok <=> i \in c.sent

\* A call c of send_trap that has reached place p.
CallSoFar(p, c) ==
    /\ p # "idle" => c.dests \in SendTo
    /\ p \in {"encode", "salt", "seeding"} => c.results = <<>> /\ c.sent = {}
    /\ p = "send" =>
          /\ ~TooLarge(c) /\ Tells(c)
          /\ Len(c.results) < Len(c.dests)
          /\ c.sent \subseteq 1..Len(c.results)
    /\ p = "return" =>
          /\ Tells(c)
          /\ Len(c.results) = Len(c.dests)
          /\ TooLarge(c) => c.sent = {}

CallsInv ==
    /\ \A t \in Threads : CallSoFar(pc[t], call[t])
    /\ pc[Loop] \in {"idle", "salt", "seeding"}

\* The latest IDs count up to the one that is next.
IdsInv ==
    /\ Len(recentIds) <= IdSpace
    /\ \A i, j \in 1..Len(recentIds) : i < j =>
          After(recentIds[i], recentIds[j], j - i, IdSpace)
    /\ \A i \in 1..Len(recentIds) :
          After(recentIds[i], NextSequential(nextId), Len(recentIds) + 1 - i, IdSpace)

\* Callers that may still take a salt.
Pending == {t \in Callers : pc[t] \in {"encode", "salt", "seeding"}}

\* One thread seeds, and no message of this incarnation is encrypted before.
OnceInv ==
    /\ \A t \in Callers : pc[t] = "seeding" => once = "running"
    /\ \A t, u \in Callers : pc[t] = "seeding" /\ pc[u] = "seeding" => t = u
    /\ \A i \in 1..Len(ivs) : ivs[i][1] = boots => once = "done"

\* The salts of one incarnation count up to the one that is next.
SaltsInv ==
    /\ Len(ivs) + Cardinality(Pending) <= MaxMessages
    /\ \A i \in 1..Len(ivs) : ivs[i][1] <= boots
    /\ \A i, j \in 1..Len(ivs) : i < j /\ ivs[i][1] = ivs[j][1] =>
          After(ivs[i][3], ivs[j][3], j - i, SaltSpace)
    /\ \A i \in 1..Len(ivs) : ivs[i][1] = boots =>
          After(ivs[i][3], salt, Len(ivs) + 1 - i, SaltSpace)

-----------------------------------------------------------------------------
(* Remainders *)

LEMMA Remainder ==
    ASSUME NEW n \in Nat \ {0}, NEW x \in Int
    PROVE  /\ x % n \in 0..(n - 1)
           /\ x \in 0..(n - 1) => x % n = x
           /\ x \in (-n)..(-1) => x % n = x + n
           /\ x = n => x % n = 0
  <1>1. x % n \in 0..(n - 1)
    OBVIOUS
  <1>2. x \in 0..(n - 1) => x % n = x
    OBVIOUS
  <1>3. x \in (-n)..(-1) => x % n = x + n
    OBVIOUS
  <1>4. x = n => x % n = 0
    OBVIOUS
  <1> QED
    BY <1>1, <1>2, <1>3, <1>4

\* One step further, and what that cannot be.
LEMMA AfterNext ==
    ASSUME NEW n \in Nat \ {0}, NEW a \in 0..(n - 1), NEW b \in 0..(n - 1), NEW d \in 1..(n - 1),
           After(a, b, d, n)
    PROVE  After(a, IF b = n - 1 THEN 0 ELSE b + 1, d + 1, n) /\ a # b
  BY DEF After

LEMMA SpacesNonempty ==
    /\ IdSpace \in Nat \ {0} /\ IdSpace >= 2 /\ SaltSpace \in Nat \ {0}
    /\ MaxMessages \in Nat /\ MaxMessages <= SaltSpace
  BY TrapsAssumption DEF TrapsAssumption

-----------------------------------------------------------------------------
(* Types *)

LEMMA DestinationLists ==
    ASSUME NEW d \in SendTo
    PROVE  d \in Seq(Destinations) /\ Len(d) \in Nat \ {0}
  <1>1. d \in Seq(Range(d)) /\ d # <<>>
    BY TrapsAssumption DEF TrapsAssumption
  <1>2. Range(d) \subseteq Destinations
    BY DEF Destinations
  <1>3. d \in Seq(Destinations)
    <2>1. \A i \in 1..Len(d) : d[i] \in Destinations
      BY <1>1, <1>2
    <2> QED
      BY <1>1, <2>1, IsASeq
  <1> QED
    BY <1>1, <1>3, EmptySeq

LEMMA NoCallType == NoCall \in Call
  BY EmptySeq DEF NoCall, Call

LEMMA ErrorForAllType ==
    ASSUME NEW c \in Call
    PROVE  /\ ErrorForAll(c) \in Call
           /\ ErrorForAll(c).dests = c.dests
           /\ ErrorForAll(c).sent = c.sent
           /\ ErrorForAll(c).size = c.size
           /\ ErrorForAll(c).results = [i \in DOMAIN c.dests |-> [destination |-> c.dests[i], ok |-> FALSE]]
  <1> DEFINE r == [i \in DOMAIN c.dests |-> [destination |-> c.dests[i], ok |-> FALSE]]
  <1>1. c.dests \in Seq(Destinations)
    BY DestinationLists, EmptySeq DEF Call
  <1>2. r \in Seq(Outcome)
    <2>1. DOMAIN c.dests = 1..Len(c.dests) /\ Len(c.dests) \in Nat
      BY <1>1
    <2>2. r = [i \in 1..Len(c.dests) |-> [destination |-> c.dests[i], ok |-> FALSE]]
      BY <2>1
    <2>3. \A i \in 1..Len(c.dests) : [destination |-> c.dests[i], ok |-> FALSE] \in Outcome
      BY <1>1 DEF Outcome
    <2> QED
      BY <2>1, <2>2, <2>3, IsASeq
  <1> HIDE DEF r
  <1>3. ErrorForAll(c) = [c EXCEPT !.results = r]
    BY DEF ErrorForAll, r
  <1>4. [c EXCEPT !.results = r] \in Call /\ [c EXCEPT !.results = r].results = r
    BY <1>2 DEF Call
  <1> QED
    BY <1>3, <1>4 DEF Call, r

\* The outcome of one send is added to a call that is not through its list.
LEMMA ResultType ==
    ASSUME NEW c \in Call, NEW ok \in BOOLEAN, Len(c.results) < Len(c.dests)
    PROVE  LET n == Len(c.results) + 1
               r == Result(c, ok)
           IN  /\ r \in Call
               /\ r.dests = c.dests /\ r.size = c.size
               /\ Len(r.results) = n
               /\ r.results[n] = [destination |-> c.dests[n], ok |-> ok]
               /\ \A i \in 1..Len(c.results) : r.results[i] = c.results[i]
               /\ r.sent = IF ok THEN c.sent \cup {n} ELSE c.sent
  <1> DEFINE n == Len(c.results) + 1
             o == [destination |-> c.dests[n], ok |-> ok]
             sent == IF ok THEN c.sent \cup {n} ELSE c.sent
  <1>1. c.dests \in Seq(Destinations) /\ c.results \in Seq(Outcome) /\ c.sent \subseteq Nat
    BY DestinationLists, EmptySeq DEF Call
  <1>2. n \in 1..Len(c.dests) /\ n \in Nat
    BY <1>1
  <1>3. o \in Outcome
    BY <1>1, <1>2 DEF Outcome
  <1>4. sent \subseteq Nat
    BY <1>1, <1>2
  <1>5. /\ Append(c.results, o) \in Seq(Outcome) /\ Len(Append(c.results, o)) = n
        /\ Append(c.results, o)[n] = o
        /\ \A i \in 1..Len(c.results) : Append(c.results, o)[i] = c.results[i]
    <2> HIDE DEF o
    <2> QED
      BY <1>1, <1>3, AppendProperties
  <1> HIDE DEF o, sent
  <1>6. Result(c, ok) = [c EXCEPT !.results = Append(c.results, o), !.sent = sent]
    BY DEF Result, Call, o, sent
  <1> HIDE DEF n
  <1>7. /\ [c EXCEPT !.results = Append(c.results, o), !.sent = sent] \in Call
        /\ [c EXCEPT !.results = Append(c.results, o), !.sent = sent].results = Append(c.results, o)
        /\ [c EXCEPT !.results = Append(c.results, o), !.sent = sent].sent = sent
        /\ [c EXCEPT !.results = Append(c.results, o), !.sent = sent].dests = c.dests
        /\ [c EXCEPT !.results = Append(c.results, o), !.sent = sent].size = c.size
    BY <1>4, <1>5 DEF Call
  <1> QED
    BY <1>5, <1>6, <1>7 DEF n, o, sent

LEMMA TypeInit == Init => TrapsTypeOK
  BY SpacesNonempty, NoCallType, EmptySeq DEF Init, TrapsTypeOK, Places

LEMMA CounterTypes ==
    ASSUME TrapsTypeOK
    PROVE  /\ Incremented(nextId) \in (-IdSpace)..(IdSpace - 1)
           /\ NextSequential(nextId) \in 0..(IdSpace - 1)
           /\ (salt + 1) % SaltSpace \in 0..(SaltSpace - 1)
           /\ \A random \in 0..(SaltSpace - 1) : Odd(random) % SaltSpace \in 0..(SaltSpace - 1)
  <1> USE SpacesNonempty DEF TrapsTypeOK
  <1>1. Incremented(nextId) \in (-IdSpace)..(IdSpace - 1)
    BY DEF Incremented
  <1>2. NextSequential(nextId) \in 0..(IdSpace - 1)
    BY Remainder DEF NextSequential
  <1>3. salt + 1 \in Int /\ \A random \in 0..(SaltSpace - 1) : Odd(random) \in Int
    BY DEF Odd
  <1> QED
    BY <1>1, <1>2, <1>3, Remainder

\* The latest n elements of a sequence.
LEMMA LatestOf ==
    ASSUME NEW S, NEW s \in Seq(S), NEW n \in Nat \ {0}
    PROVE  LET l == Latest(s, n)
               gone == Len(s) - Len(l)
           IN  /\ l \in Seq(S)
               /\ Len(l) <= n /\ gone \in Nat
               /\ gone = 0 \/ Len(l) = n
               /\ \A i \in 1..Len(l) : l[i] = s[gone + i]
  <1>1. CASE Len(s) <= n
    BY <1>1 DEF Latest
  <1>2. CASE Len(s) > n
    <2> DEFINE first == Len(s) - n + 1
               l == SubSeq(s, first, Len(s))
    <2>1. first \in 1..Len(s) /\ first \in 1..(Len(s) + 1) /\ Len(s) \in first..Len(s) /\ Len(s) \in Nat
      BY <1>2
    <2>2. l \in Seq(S) /\ Len(l) = n /\ \A i \in 1..n : l[i] = s[first + i - 1]
      BY <2>1, SubSeqProperties
    <2>3. Latest(s, n) = l
      BY <1>2 DEF Latest
    <2>4. Len(s) - Len(l) = Len(s) - n
      BY <2>2
    <2>5. \A i \in 1..n : first + i - 1 = (Len(s) - n) + i
      BY <2>1
    <2>6. Len(s) - n \in Nat
      BY <1>2
    <2> HIDE DEF l
    <2>7. \A i \in 1..Len(l) : l[i] = s[(Len(s) - Len(l)) + i]
      <3> TAKE i \in 1..Len(l)
      <3>1. i \in 1..n
        BY <2>2
      <3>2. l[i] = s[first + i - 1]
        BY <2>2, <3>1
      <3> QED
        BY <2>4, <2>5, <3>1, <3>2
    <2> QED
      BY <2>2, <2>3, <2>4, <2>6, <2>7
  <1> QED
    BY <1>1, <1>2

\* What EncodeV3 does with the message built, or with the error.
LEMMA EncodedType ==
    ASSUME TrapsTypeOK, NEW t \in Callers, NEW c \in Call, Encoded(t, c)
    PROVE  pc' \in [Callers -> Places] /\ call' \in [Callers -> Call]
  BY ErrorForAllType DEF TrapsTypeOK, Encoded, Goto, Places

\* A send is the next of a call with destinations left.
LEMMA SendOf ==
    ASSUME TrapsTypeOK, CallsInv, NEW t \in Callers, NEW ok \in BOOLEAN, SendToNext(t, ok)
    PROVE  /\ t \in Threads /\ call[t] \in Call
           /\ CallSoFar("send", call[t])
           /\ Len(call[t].results) < Len(call[t].dests)
  BY DEF TrapsTypeOK, CallsInv, CallSoFar, SendToNext, Callers

LEMMA TypeStep == TrapsTypeOK /\ CallsInv /\ [Next]_vars => TrapsTypeOK'
  <1> SUFFICES ASSUME TrapsTypeOK, CallsInv, [Next]_vars PROVE TrapsTypeOK'
    OBVIOUS
  <1>1. ASSUME NEW t \in Threads, NEW size \in PduSizes, NEW dests \in SendTo, SendTrap(t, size, dests)
        PROVE  TrapsTypeOK'
    <2>1. [NoCall EXCEPT !.size = size, !.dests = dests] \in Call
      BY EmptySeq DEF NoCall, Call
    <2>2. t \in Callers
      BY DEF Callers
    <2> QED
      BY <1>1, <2>1, <2>2 DEF SendTrap, TrapsTypeOK, Goto, Places, shared
  <1>2. ASSUME NEW time \in 0..(EngineTime + 1), Respond(time) PROVE TrapsTypeOK'
    <2>0. time \in Nat
      BY DEF EngineTime, TrapsTypeOK
    <2>1. [NoCall EXCEPT !.time = time] \in Call
      BY <2>0, EmptySeq DEF NoCall, Call
    <2> QED
      BY <1>2, <2>1 DEF Respond, TrapsTypeOK, Goto, Places, Callers, shared
  <1>3. ASSUME NEW t \in Callers, EncodeV2c(t) PROVE TrapsTypeOK'
    <2>1. call[t] \in Call
      BY DEF TrapsTypeOK
    <2> QED
      BY <1>3, <2>1, EncodedType DEF EncodeV2c, TrapsTypeOK, shared
  <1>4. ASSUME NEW t \in Callers, EncodeV3(t) PROVE TrapsTypeOK'
    <2> DEFINE c == [call[t] EXCEPT !.time = EngineTime]
    <2>1. c \in Call
      BY DEF TrapsTypeOK, Call, EngineTime
    <2>2. nextId' \in (-IdSpace)..(IdSpace - 1)
      BY <1>4, CounterTypes DEF EncodeV3
    <2>3. recentIds' \in Seq(0..(IdSpace - 1))
      <3>1. Append(recentIds, NextSequential(nextId)) \in Seq(0..(IdSpace - 1))
        BY CounterTypes, AppendProperties DEF TrapsTypeOK
      <3>2. recentIds' = Latest(Append(recentIds, NextSequential(nextId)), IdSpace)
        BY <1>4 DEF EncodeV3
      <3> QED
        BY <3>1, <3>2, LatestOf, SpacesNonempty
    <2>4. pc' \in [Callers -> Places] /\ call' \in [Callers -> Call]
      <3>1. CASE call' = [call EXCEPT ![t] = ErrorForAll(c)] /\ Goto(t, "return")
        BY <2>1, <3>1, ErrorForAllType DEF TrapsTypeOK, Goto, Places
      <3>2. CASE call' = [call EXCEPT ![t] = c] /\ Goto(t, "salt")
        BY <2>1, <3>2 DEF TrapsTypeOK, Goto, Places
      <3>3. CASE Encoded(t, c)
        BY <2>1, <3>3, EncodedType
      <3> QED
        BY <1>4, <3>1, <3>2, <3>3 DEF EncodeV3
    <2> QED
      BY <1>4, <2>2, <2>3, <2>4 DEF EncodeV3, TrapsTypeOK
  <1>5. ASSUME NEW t \in Callers, EnterOnce(t) PROVE TrapsTypeOK'
    BY <1>5 DEF EnterOnce, TrapsTypeOK, Goto, Places
  <1>6. ASSUME NEW t \in Callers, NEW random \in 0..(SaltSpace - 1), Seed(t, random) PROVE TrapsTypeOK'
    BY <1>6, CounterTypes DEF Seed, TrapsTypeOK, Goto, Places
  <1>7. ASSUME NEW t \in Callers, TakeSalt(t) PROVE TrapsTypeOK'
    <2>1. call[t] \in Call /\ call[t].time \in Nat
      BY DEF TrapsTypeOK, Call
    <2>2. ivs' \in Seq(Nat \X Nat \X (0..(SaltSpace - 1)))
      <3>1. <<boots, call[t].time, salt>> \in Nat \X Nat \X (0..(SaltSpace - 1))
        BY <2>1 DEF TrapsTypeOK
      <3> QED
        BY <1>7, <3>1, AppendProperties DEF TakeSalt, TrapsTypeOK
    <2>3. pc' \in [Callers -> Places] /\ call' \in [Callers -> Call]
      BY <1>7, <2>1, EncodedType DEF TakeSalt, TrapsTypeOK, Goto, Places
    <2> QED
      BY <1>7, <2>2, <2>3, CounterTypes DEF TakeSalt, TrapsTypeOK
  <1>8. ASSUME NEW t \in Callers, Return(t) PROVE TrapsTypeOK'
    BY <1>8 DEF Return, TrapsTypeOK, Goto, Places, shared
  <1>9. ASSUME NEW t \in Callers, NEW ok \in BOOLEAN, SendToNext(t, ok) PROVE TrapsTypeOK'
    <2>1. Result(call[t], ok) \in Call
      BY <1>9, SendOf, ResultType
    <2> QED
      BY <1>9, <2>1 DEF SendToNext, TrapsTypeOK, Goto, Places, shared
  <1>10. CASE Tick
    BY <1>10 DEF Tick, TrapsTypeOK, shared
  <1>11. CASE Rebuild
    BY <1>11, NoCallType DEF Rebuild, NewIncarnation, TrapsTypeOK, shared, Places
  <1>12. CASE Restart
    BY <1>12, NoCallType, SpacesNonempty, EmptySeq DEF Restart, NewIncarnation, TrapsTypeOK, Places
  <1>13. CASE UNCHANGED vars
    BY <1>13 DEF vars, TrapsTypeOK
  <1> QED
    BY <1>1, <1>2, <1>3, <1>4, <1>5, <1>6, <1>7, <1>8, <1>9, <1>10, <1>11, <1>12, <1>13
       DEF Next, Step

-----------------------------------------------------------------------------
(* Calls *)

\* A step of one caller concerns its own call only.
LEMMA OneCall ==
    ASSUME TrapsTypeOK, CallsInv, UNCHANGED level, NEW t \in Callers, NEW p, NEW c,
           Goto(t, p), call' = [call EXCEPT ![t] = c],
           t \in Threads => CallSoFar(p, c),
           t = Loop => p \in {"idle", "salt", "seeding"}
    PROVE  CallsInv'
  <1>1. \A u \in Callers : /\ pc'[u] = IF u = t THEN p ELSE pc[u]
                           /\ call'[u] = IF u = t THEN c ELSE call[u]
    BY DEF Goto, TrapsTypeOK
  <1>2. ASSUME NEW u \in Threads PROVE CallSoFar(pc[u], call[u])'
    <2>1. CallSoFar(pc'[u], call'[u])
      BY <1>1 DEF CallsInv, Callers
    <2> QED
      BY <2>1 DEF CallSoFar, TooLarge, Tells
  <1>3. pc'[Loop] \in {"idle", "salt", "seeding"}
    BY <1>1 DEF CallsInv, Callers
  <1> QED
    BY <1>2, <1>3 DEF CallsInv

\* The error for all destinations, and a message that was built.
LEMMA CallEncoded ==
    ASSUME NEW c \in Call, c.dests \in SendTo, c.results = <<>>, c.sent = {}
    PROVE  /\ CallSoFar("return", ErrorForAll(c))
           /\ ~TooLarge(c) => CallSoFar("send", c)
  <1>1. c.dests \in Seq(Destinations) /\ Len(c.dests) \in Nat \ {0}
    BY DestinationLists
  <1>2. Len(c.results) = 0
    OBVIOUS
  <1>3. ~TooLarge(c) => CallSoFar("send", c)
    BY <1>1, <1>2 DEF CallSoFar, Tells
  <1> DEFINE e == ErrorForAll(c)
             r == [i \in 1..Len(c.dests) |-> [destination |-> c.dests[i], ok |-> FALSE]]
  <1>4. e.dests = c.dests /\ e.sent = {} /\ e.results = r
    <2>1. DOMAIN c.dests = 1..Len(c.dests)
      BY <1>1
    <2> QED
      BY <2>1, ErrorForAllType
  <1>5. Len(r) = Len(c.dests)
    BY <1>1
  <1>6. Tells(e)
    <2> HIDE DEF e
    <2>1. \A i \in 1..Len(r) : r[i].destination = c.dests[i] /\ r[i].ok = FALSE
      BY <1>5
    <2> HIDE DEF r
    <2> QED
      BY <1>4, <2>1 DEF Tells
  <1>7. CallSoFar("return", e)
    <2> HIDE DEF e, r
    <2> QED
      BY <1>4, <1>5, <1>6 DEF CallSoFar
  <1> QED
    BY <1>3, <1>7

LEMMA EncodedCall ==
    ASSUME TrapsTypeOK, CallsInv, UNCHANGED level, NEW t \in Threads, NEW c \in Call,
           c.dests \in SendTo, c.results = <<>>, c.sent = {}, Encoded(t, c)
    PROVE  CallsInv'
  <1>1. t \in Callers /\ t # Loop
    BY TrapsAssumption DEF Callers, TrapsAssumption
  <1>2. CASE TooLarge(c)
    BY <1>1, <1>2, OneCall, CallEncoded DEF Encoded
  <1>3. CASE ~TooLarge(c)
    BY <1>1, <1>3, OneCall, CallEncoded DEF Encoded
  <1> QED
    BY <1>2, <1>3

\* The next result, whatever it is.
LEMMA ResultSoFar ==
    ASSUME NEW c \in Call, NEW ok \in BOOLEAN, CallSoFar("send", c)
    PROVE  LET r == Result(c, ok)
           IN  CallSoFar(IF Len(r.results) = Len(r.dests) THEN "return" ELSE "send", r)
  <1> DEFINE r == Result(c, ok)
             n == Len(c.results) + 1
  <1>1. /\ c.results \in Seq(Outcome) /\ Len(c.results) \in Nat /\ c.dests \in SendTo
        /\ Len(c.results) < Len(c.dests) /\ Tells(c) /\ ~TooLarge(c)
        /\ c.sent \subseteq 1..Len(c.results)
    BY DEF Call, CallSoFar
  <1>2. Len(c.dests) \in Nat
    BY <1>1, DestinationLists
  <1>3. /\ r \in Call /\ r.dests = c.dests /\ r.size = c.size
        /\ Len(r.results) = n
        /\ r.results[n] = [destination |-> c.dests[n], ok |-> ok]
        /\ \A i \in 1..Len(c.results) : r.results[i] = c.results[i]
        /\ r.sent = IF ok THEN c.sent \cup {n} ELSE c.sent
    BY <1>1, ResultType
  <1> HIDE DEF r
  <1>4. ~TooLarge(r)
    BY <1>1, <1>3 DEF TooLarge
  <1>5. Tells(r)
    <2> SUFFICES ASSUME NEW i \in 1..n
                 PROVE  /\ r.results[i].destination = r.dests[i]
                        /\ r.results[i].ok <=> i \in r.sent
      BY <1>3 DEF Tells
    <2>1. CASE i = n
      <3>1. n \notin c.sent
        BY <1>1
      <3> QED
        BY <1>3, <2>1, <3>1
    <2>2. CASE i # n
      <3>1. i \in 1..Len(c.results)
        BY <1>1, <2>2
      <3> QED
        BY <1>1, <1>3, <2>2, <3>1 DEF Tells
    <2> QED
      BY <2>1, <2>2
  <1>6. r.sent \subseteq 1..n
    BY <1>1, <1>3
  <1>7. Len(r.results) # Len(r.dests) => Len(r.results) < Len(r.dests)
    BY <1>1, <1>2, <1>3
  <1>8. CallSoFar(IF Len(r.results) = Len(r.dests) THEN "return" ELSE "send", r)
    BY <1>1, <1>3, <1>4, <1>5, <1>6, <1>7 DEF CallSoFar
  <1> QED
    BY <1>8 DEF r

LEMMA CallsStep == TrapsTypeOK /\ CallsInv /\ [Next]_vars => CallsInv'
  <1> SUFFICES ASSUME TrapsTypeOK, CallsInv, [Next]_vars PROVE CallsInv'
    OBVIOUS
  <1> USE DEF shared
  <1>0. Loop \notin Threads /\ Callers = Threads \cup {Loop}
    BY TrapsAssumption DEF TrapsAssumption, Callers
  <1>1. ASSUME NEW t \in Threads, NEW size \in PduSizes, NEW dests \in SendTo, SendTrap(t, size, dests)
        PROVE  CallsInv'
    <2>1. CallSoFar("encode", [NoCall EXCEPT !.size = size, !.dests = dests])
      BY DEF CallSoFar, NoCall
    <2> QED
      BY <1>0, <1>1, <2>1, OneCall DEF SendTrap
  <1>2. ASSUME NEW time, Respond(time) PROVE CallsInv'
    BY <1>0, <1>2, OneCall DEF Respond
  <1>3. ASSUME NEW t \in Callers, EncodeV2c(t) PROVE CallsInv'
    <2>1. /\ t \in Threads /\ call[t] \in Call /\ call[t].dests \in SendTo
          /\ call[t].results = <<>> /\ call[t].sent = {}
      BY <1>0, <1>3 DEF EncodeV2c, CallsInv, CallSoFar, TrapsTypeOK
    <2> QED
      BY <1>3, <2>1, EncodedCall DEF EncodeV2c
  <1>4. ASSUME NEW t \in Callers, EncodeV3(t) PROVE CallsInv'
    <2>1. /\ t \in Threads /\ call[t] \in Call /\ call[t].dests \in SendTo
          /\ call[t].results = <<>> /\ call[t].sent = {}
      BY <1>0, <1>4 DEF EncodeV3, CallsInv, CallSoFar, TrapsTypeOK
    <2> DEFINE c == [call[t] EXCEPT !.time = EngineTime]
    <2>2. c \in Call /\ c.dests \in SendTo /\ c.results = <<>> /\ c.sent = {}
      BY <2>1 DEF TrapsTypeOK, Call, EngineTime
    <2>3. UNCHANGED level /\ t # Loop
      BY <1>0, <1>4, <2>1 DEF EncodeV3
    <2> HIDE DEF c
    <2>4. CASE call' = [call EXCEPT ![t] = ErrorForAll(c)] /\ Goto(t, "return")
      BY <2>1, <2>2, <2>3, <2>4, CallEncoded, OneCall
    <2>5. CASE call' = [call EXCEPT ![t] = c] /\ Goto(t, "salt")
      BY <2>2, <2>3, <2>5, OneCall DEF CallSoFar
    <2>6. CASE Encoded(t, c)
      BY <2>1, <2>2, <2>3, <2>6, EncodedCall
    <2> QED
      BY <1>4, <2>4, <2>5, <2>6 DEF EncodeV3, c
  <1>5. ASSUME NEW t \in Callers, NEW p, pc[t] \in {"salt", "seeding"}, p \in {"salt", "seeding"},
               Goto(t, p), UNCHANGED <<level, call>>
        PROVE  CallsInv'
    <2>1. call' = [call EXCEPT ![t] = call[t]]
      BY <1>5 DEF TrapsTypeOK
    <2>2. t \in Threads => CallSoFar(p, call[t])
      BY <1>5 DEF CallsInv, CallSoFar
    <2> QED
      BY <1>5, <2>1, <2>2, OneCall
  <1>6. ASSUME NEW t \in Callers, EnterOnce(t) PROVE CallsInv'
    BY <1>5, <1>6 DEF EnterOnce
  <1>7. ASSUME NEW t \in Callers, NEW random, Seed(t, random) PROVE CallsInv'
    BY <1>5, <1>7 DEF Seed
  <1>8. ASSUME NEW t \in Callers, TakeSalt(t) PROVE CallsInv'
    <2>1. CASE t = Loop
      <3>1. call' = [call EXCEPT ![t] = call[t]]
        BY <1>8, <2>1 DEF TakeSalt, TrapsTypeOK
      <3> QED
        BY <1>0, <1>8, <2>1, <3>1, OneCall DEF TakeSalt
    <2>2. CASE t # Loop
      <3>1. /\ t \in Threads /\ call[t] \in Call /\ call[t].dests \in SendTo
            /\ call[t].results = <<>> /\ call[t].sent = {}
        BY <1>0, <1>8, <2>2 DEF TakeSalt, CallsInv, CallSoFar, TrapsTypeOK
      <3> QED
        BY <1>8, <2>2, <3>1, EncodedCall DEF TakeSalt
    <2> QED
      BY <2>1, <2>2
  <1>9. ASSUME NEW t \in Callers, NEW ok \in BOOLEAN, SendToNext(t, ok) PROVE CallsInv'
    <2>1. t \in Threads /\ call[t] \in Call /\ CallSoFar("send", call[t])
      BY <1>9, SendOf
    <2> DEFINE c == Result(call[t], ok)
               p == IF Len(c.results) = Len(c.dests) THEN "return" ELSE "send"
    <2>2. CallSoFar(p, c)
      BY <2>1, ResultSoFar
    <2>3. call' = [call EXCEPT ![t] = c] /\ Goto(t, p) /\ UNCHANGED level
      BY <1>9 DEF SendToNext
    <2> HIDE DEF c, p
    <2> QED
      BY <1>0, <2>1, <2>2, <2>3, OneCall
  <1>10. ASSUME NEW t \in Callers, Return(t) PROVE CallsInv'
    <2>1. call' = [call EXCEPT ![t] = call[t]] /\ Goto(t, "idle") /\ UNCHANGED level
      BY <1>10 DEF Return, TrapsTypeOK
    <2>2. CallSoFar("idle", call[t])
      BY DEF CallSoFar
    <2> QED
      BY <2>1, <2>2, OneCall
  <1>11. CASE UNCHANGED <<level, pc, call>>
    BY <1>11 DEF CallsInv, CallSoFar, Tells, TooLarge
  <1>12. CASE NewIncarnation
    BY <1>0, <1>12 DEF NewIncarnation, CallsInv, CallSoFar
  <1> QED
    BY <1>1, <1>2, <1>3, <1>4, <1>6, <1>7, <1>8, <1>9, <1>10, <1>11, <1>12
       DEF Next, Step, Tick, Rebuild, Restart, vars

\* What send_trap returns tells what was sent, for any number of threads and
\* any lists of destinations (transport/trap.rs).
THEOREM TrapResultsTellDelivery == Spec => []ResultsTellDelivery
  <1>1. Init => TrapsTypeOK /\ CallsInv
    BY TypeInit, TrapsAssumption DEF Init, CallsInv, CallSoFar, Callers
  <1>2. TrapsTypeOK /\ CallsInv /\ [Next]_vars => (TrapsTypeOK /\ CallsInv)'
    BY TypeStep, CallsStep
  <1>3. TrapsTypeOK /\ CallsInv => ResultsTellDelivery
    <2> SUFFICES ASSUME TrapsTypeOK, CallsInv, NEW t \in Threads, pc[t] = "return"
                 PROVE  /\ DOMAIN call[t].results = DOMAIN call[t].dests
                        /\ \A i \in DOMAIN call[t].dests :
                              /\ call[t].results[i].destination = call[t].dests[i]
                              /\ call[t].results[i].ok <=> i \in call[t].sent
                        /\ TooLarge(call[t]) => call[t].sent = {}
      BY DEF ResultsTellDelivery
    <2>1. CallSoFar("return", call[t]) /\ call[t] \in Call
      BY DEF CallsInv, TrapsTypeOK, Callers
    <2>2. DOMAIN call[t].results = 1..Len(call[t].results)
      BY <2>1 DEF Call
    <2>3. DOMAIN call[t].dests = 1..Len(call[t].dests)
      BY <2>1, DestinationLists DEF CallSoFar
    <2> QED
      BY <2>1, <2>2, <2>3 DEF CallSoFar, Tells
  <1> QED
    BY <1>1, <1>2, <1>3, PTL DEF Spec

-----------------------------------------------------------------------------
(* Message IDs *)

\* The counter's successor has the next ID, also where it wraps.
LEMMA NextIdFollows ==
    ASSUME TrapsTypeOK
    PROVE  LET id == NextSequential(nextId)
           IN  NextSequential(Incremented(nextId)) = IF id = IdSpace - 1 THEN 0 ELSE id + 1
  <1>1. nextId \in (-IdSpace)..(IdSpace - 1) /\ IdSpace \in Nat /\ IdSpace >= 2
    BY SpacesNonempty DEF TrapsTypeOK
  <1>2. ASSUME NEW x \in (-IdSpace)..(IdSpace - 1)
        PROVE  NextSequential(x) = IF x >= 0 THEN x ELSE x + IdSpace
    <2>1. x \in Int /\ IdSpace \in Nat \ {0} /\ (x \in 0..(IdSpace - 1) \/ x \in (-IdSpace)..(-1))
      BY <1>1, <1>2
    <2>2. CASE x \in 0..(IdSpace - 1)
      BY <1>1, <2>1, <2>2, Remainder DEF NextSequential
    <2>3. CASE x \in (-IdSpace)..(-1)
      <3>1. x % IdSpace = x + IdSpace
        BY <2>1, <2>3, Remainder
      <3> QED
        BY <1>1, <2>3, <3>1 DEF NextSequential
    <2> QED
      BY <2>1, <2>2, <2>3
  <1>3. Incremented(nextId) \in (-IdSpace)..(IdSpace - 1)
    BY CounterTypes
  <1>4. CASE nextId = IdSpace - 1
    BY <1>1, <1>2, <1>3, <1>4 DEF Incremented
  <1>5. CASE nextId # IdSpace - 1
    BY <1>1, <1>2, <1>3, <1>5 DEF Incremented
  <1> QED
    BY <1>4, <1>5

LEMMA IdsStep == TrapsTypeOK /\ IdsInv /\ [Next]_vars => IdsInv'
  <1> SUFFICES ASSUME TrapsTypeOK, IdsInv, [Next]_vars PROVE IdsInv'
    OBVIOUS
  <1>1. ASSUME NEW t \in Callers, EncodeV3(t) PROVE IdsInv'
    <2> DEFINE M    == IdSpace
               id   == NextSequential(nextId)
               all  == Append(recentIds, id)
               l    == Len(recentIds)
               gone == Len(all) - Len(recentIds')
    <2>1. M \in Nat /\ M >= 2 /\ id \in 0..(M - 1) /\ l \in Nat
      BY SpacesNonempty, CounterTypes DEF TrapsTypeOK
    <2>2. /\ all \in Seq(0..(M - 1)) /\ Len(all) = l + 1 /\ all[l + 1] = id
          /\ \A i \in 1..l : all[i] = recentIds[i]
      BY <2>1, AppendProperties DEF TrapsTypeOK
    <2>3. recentIds' = Latest(all, M)
      BY <1>1 DEF EncodeV3
    <2>4. /\ Len(recentIds') <= M /\ gone \in Nat /\ (gone = 0 \/ Len(recentIds') = M)
          /\ Len(recentIds') \in Nat
          /\ \A i \in 1..Len(recentIds') : recentIds'[i] = all[gone + i]
      <3>1. M \in Nat \ {0}
        BY <2>1
      <3> DEFINE S == 0..(M - 1)
                 new == Latest(all, M)
      <3> HIDE DEF all, M, S
      <3>2. all \in Seq(S)
        BY <2>2 DEF S
      <3>3. /\ new \in Seq(S) /\ Len(new) <= M /\ Len(all) - Len(new) \in Nat
            /\ Len(all) - Len(new) = 0 \/ Len(new) = M
            /\ \A i \in 1..Len(new) : new[i] = all[(Len(all) - Len(new)) + i]
        BY <3>1, <3>2, LatestOf
      <3>4. new = recentIds' /\ Len(new) \in Nat
        BY <2>3, <3>3, LenProperties
      <3> QED
        BY <3>3, <3>4
    <2>5. NextSequential(nextId') = IF id = M - 1 THEN 0 ELSE id + 1
      BY <1>1, NextIdFollows DEF EncodeV3
    <2>6. NextSequential(nextId)' = NextSequential(nextId')
      BY DEF NextSequential
    <2> HIDE DEF all, id, M
    <2>7. ASSUME NEW i \in 1..Len(all), NEW j \in 1..Len(all), i < j
          PROVE  After(all[i], all[j], j - i, M)
      <3>1. i \in 1..l
        BY <2>1, <2>2, <2>7
      <3>2. CASE j = l + 1
        BY <2>2, <3>1, <3>2 DEF IdsInv, id, M
      <3>3. CASE j # l + 1
        <4>1. j \in 1..l
          BY <2>1, <2>2, <3>3
        <4> QED
          BY <2>2, <2>7, <3>1, <4>1 DEF IdsInv, M
      <3> QED
        BY <3>2, <3>3
    <2>8. ASSUME NEW i \in 1..Len(all), Len(all) + 1 - i <= M
          PROVE  After(all[i], NextSequential(nextId'), Len(all) + 1 - i, M)
      <3>1. CASE i = Len(all)
        BY <2>1, <2>2, <2>5, <3>1 DEF After
      <3>2. CASE i # Len(all)
        <4>1. Len(all) \in 1..Len(all) /\ i < Len(all)
          BY <2>1, <2>2, <3>2
        <4>2. After(all[i], id, Len(all) - i, M)
          BY <2>2, <2>7, <4>1
        <4>3. all[i] \in 0..(M - 1)
          BY <2>2, ElementOfSeq
        <4>4. Len(all) - i \in 1..(M - 1) /\ (Len(all) - i) + 1 = Len(all) + 1 - i
          BY <2>1, <2>2, <2>8, <4>1
        <4>5. M \in Nat \ {0}
          BY <2>1
        <4> QED
          BY <2>1, <2>5, <4>2, <4>3, <4>4, <4>5, AfterNext
      <3> QED
        BY <3>1, <3>2
    <2>9. ASSUME NEW i \in 1..Len(recentIds')
          PROVE  /\ gone + i \in 1..Len(all)
                 /\ Len(all) + 1 - (gone + i) = Len(recentIds') + 1 - i
      BY <2>1, <2>2, <2>4
    <2>10. ASSUME NEW i \in 1..Len(recentIds'), NEW j \in 1..Len(recentIds'), i < j
           PROVE  After(recentIds'[i], recentIds'[j], j - i, M)
      <3>1. (gone + j) - (gone + i) = j - i /\ gone + i < gone + j
        BY <2>4, <2>10
      <3> QED
        BY <2>4, <2>7, <2>9, <3>1
    <2>11. ASSUME NEW i \in 1..Len(recentIds')
           PROVE  After(recentIds'[i], NextSequential(nextId'), Len(recentIds') + 1 - i, M)
      <3>1. Len(recentIds') + 1 - i <= M
        BY <2>1, <2>4
      <3> QED
        BY <2>4, <2>8, <2>9, <3>1
    <2> QED
      BY <2>4, <2>6, <2>10, <2>11 DEF IdsInv, After, M
  <1>2. CASE Restart
    BY <1>2, SpacesNonempty DEF Restart, IdsInv
  <1>3. CASE UNCHANGED <<nextId, recentIds>>
    BY <1>3 DEF IdsInv, After, NextSequential
  <1> QED
    BY <1>1, <1>2, <1>3
       DEF Next, Step, vars, shared, SendTrap, Respond, EncodeV2c, EnterOnce, Seed, TakeSalt,
           SendToNext, Return, Tick, Rebuild

\* Message IDs of a process are distinct as long as the space of IDs allows,
\* whichever threads and agents take them and wherever the counter wraps
\* (MessageId::next_sequential).
THEOREM TrapIdsDistinct == Spec => []MessageIdsDistinct
  <1> DEFINE Inv == TrapsTypeOK /\ CallsInv /\ IdsInv
  <1>1. Init => Inv
    BY TypeInit, TrapsAssumption, SpacesNonempty
       DEF Init, CallsInv, CallSoFar, Callers, IdsInv
  <1>2. Inv /\ [Next]_vars => Inv'
    BY TypeStep, CallsStep, IdsStep
  <1>3. Inv => MessageIdsDistinct
    <2> SUFFICES ASSUME Inv PROVE MessageIdsDistinct
      OBVIOUS
    <2>1. DOMAIN recentIds = 1..Len(recentIds) /\ \A i \in 1..Len(recentIds) : recentIds[i] \in 0..(IdSpace - 1)
      BY ElementOfSeq, LenProperties DEF TrapsTypeOK
    <2>2. ASSUME NEW i \in 1..Len(recentIds), NEW j \in 1..Len(recentIds), i < j
          PROVE  recentIds[i] # recentIds[j]
      <3>1. After(recentIds[i], recentIds[j], j - i, IdSpace) /\ Len(recentIds) <= IdSpace
        BY <2>2 DEF IdsInv
      <3>2. Len(recentIds) \in Nat
        BY DEF TrapsTypeOK
      <3>3. j - i \in 1..(IdSpace - 1)
        BY <2>2, <3>1, <3>2, SpacesNonempty
      <3> QED
        BY <2>1, <3>1, <3>3, SpacesNonempty, AfterNext
    <2>3. \A i, j \in 1..Len(recentIds) : i = j \/ i < j \/ j < i
      OBVIOUS
    <2> QED
      BY <2>1, <2>2, <2>3 DEF MessageIdsDistinct, IsInjective
  <1> QED
    BY <1>1, <1>2, <1>3, PTL DEF Spec

-----------------------------------------------------------------------------
(* Salts *)

\* No message has been encrypted with a boots value still to come.
LEMMA NoFutureBoots ==
    ASSUME TrapsTypeOK, SaltsInv
    PROVE  \A i \in 1..Len(ivs) : ivs[i][1] # boots + 1
  <1>1. \A i \in 1..Len(ivs) : ivs[i] \in Nat \X Nat \X (0..(SaltSpace - 1))
    BY ElementOfSeq DEF TrapsTypeOK
  <1>2. \A i \in 1..Len(ivs) : ivs[i][1] \in Nat /\ ivs[i][1] <= boots
    BY <1>1 DEF SaltsInv
  <1>3. boots \in Nat
    BY DEF TrapsTypeOK
  <1> QED
    BY <1>2, <1>3

LEMMA OnceStep == TrapsTypeOK /\ SaltsInv /\ OnceInv /\ [Next]_vars => OnceInv'
  <1> SUFFICES ASSUME TrapsTypeOK, SaltsInv, OnceInv, [Next]_vars PROVE OnceInv'
    OBVIOUS
  <1>1. ASSUME NEW t \in Callers, NEW p, Goto(t, p), p # "seeding",
               UNCHANGED <<once, boots, ivs>>
        PROVE  OnceInv'
    <2>1. \A u \in Callers : pc'[u] = IF u = t THEN p ELSE pc[u]
      BY <1>1 DEF Goto, TrapsTypeOK
    <2> QED
      BY <1>1, <2>1 DEF OnceInv
  <1>2. ASSUME NEW t \in Callers, NEW c, Encoded(t, c), UNCHANGED <<once, boots, ivs>> PROVE OnceInv'
    BY <1>1, <1>2 DEF Encoded
  <1>3. ASSUME NEW t \in Callers, EncodeV3(t) PROVE OnceInv'
    BY <1>1, <1>2, <1>3 DEF EncodeV3
  <1>4. ASSUME NEW t \in Callers, EnterOnce(t) PROVE OnceInv'
    <2>1. \A u \in Callers : pc'[u] = IF u = t THEN "seeding" ELSE pc[u]
      BY <1>4 DEF EnterOnce, Goto, TrapsTypeOK
    <2>2. once = "new" /\ once' = "running" /\ UNCHANGED <<boots, ivs>>
      BY <1>4 DEF EnterOnce
    <2> QED
      BY <2>1, <2>2 DEF OnceInv
  <1>5. ASSUME NEW t \in Callers, NEW random, Seed(t, random) PROVE OnceInv'
    <2>1. \A u \in Callers : pc'[u] = IF u = t THEN "salt" ELSE pc[u]
      BY <1>5 DEF Seed, Goto, TrapsTypeOK
    <2>2. pc[t] = "seeding" /\ once' = "done" /\ UNCHANGED <<boots, ivs>>
      BY <1>5 DEF Seed
    <2> QED
      BY <2>1, <2>2 DEF OnceInv
  <1>6. ASSUME NEW t \in Callers, TakeSalt(t) PROVE OnceInv'
    <2>1. once = "done" /\ UNCHANGED <<once, boots>>
      BY <1>6 DEF TakeSalt
    <2>2. \A u \in Callers : pc'[u] = "seeding" => pc[u] = "seeding"
      BY <1>6 DEF TakeSalt, Encoded, Goto, TrapsTypeOK
    <2> QED
      BY <2>1, <2>2 DEF OnceInv
  <1>7. CASE NewIncarnation
    BY <1>7, NoFutureBoots DEF NewIncarnation, OnceInv
  <1>8. CASE UNCHANGED <<once, boots, ivs, pc>>
    BY <1>8 DEF OnceInv
  <1>9. ASSUME NEW t \in Threads, NEW size, NEW dests, SendTrap(t, size, dests) PROVE OnceInv'
    BY <1>1, <1>9 DEF SendTrap, Callers, shared
  <1>10. ASSUME NEW time, Respond(time) PROVE OnceInv'
    BY <1>1, <1>10 DEF Respond, Callers, shared
  <1>11. ASSUME NEW t \in Callers, NEW ok, SendToNext(t, ok) PROVE OnceInv'
    BY <1>1, <1>11 DEF SendToNext, shared
  <1> QED
    BY <1>1, <1>2, <1>3, <1>4, <1>5, <1>6, <1>7, <1>8, <1>9, <1>10, <1>11
       DEF Next, Step, vars, shared, EncodeV2c, Return, Tick, Rebuild, Restart

\* A caller joins those that may take a salt, or leaves them.
LEMMA PendingCount ==
    ASSUME TrapsTypeOK
    PROVE  /\ IsFiniteSet(Pending) /\ Cardinality(Pending) \in Nat
           /\ Cardinality(Pending) <= InFlight /\ InFlight \in Nat
           /\ \A t \in Callers : Cardinality(Pending \cup {t}) <= Cardinality(Pending) + 1
           /\ \A t \in Pending : Cardinality(Pending \ {t}) = Cardinality(Pending) - 1
           /\ \A P : P \subseteq Pending => Cardinality(P) <= Cardinality(Pending) /\ Cardinality(P) \in Nat
  <1> DEFINE Busy == {t \in Callers : pc[t] # "idle"}
  <1>1. IsFiniteSet(Callers)
    BY TrapsAssumption, FS_AddElement DEF TrapsAssumption, Callers
  <1>2. IsFiniteSet(Busy) /\ IsFiniteSet(Pending)
    BY <1>1, FS_Subset DEF Pending
  <1>3. Pending \subseteq Busy
    BY DEF Pending
  <1>4. Cardinality(Pending) <= Cardinality(Busy) /\ Cardinality(Busy) \in Nat /\ Cardinality(Pending) \in Nat
    BY <1>2, <1>3, FS_Subset, FS_CardinalityType
  <1>5. \A t \in Callers : Cardinality(Pending \cup {t}) <= Cardinality(Pending) + 1
    <2> TAKE t \in Callers
    <2>1. Cardinality(Pending \cup {t}) = Cardinality(Pending) \/ Cardinality(Pending \cup {t}) = Cardinality(Pending) + 1
      BY <1>2, FS_AddElement
    <2> QED
      BY <1>4, <2>1
  <1>6. \A t \in Pending : Cardinality(Pending \ {t}) = Cardinality(Pending) - 1
    BY <1>2, FS_RemoveElement
  <1>7. \A P : P \subseteq Pending => Cardinality(P) <= Cardinality(Pending) /\ Cardinality(P) \in Nat
    BY <1>2, FS_Subset, FS_CardinalityType
  <1> QED
    BY <1>2, <1>4, <1>5, <1>6, <1>7 DEF InFlight

\* Between incarnations, and where no salt is taken, the salts stay in order as
\* long as no more callers are in flight than there is room for.
LEMMA SaltsKept ==
    ASSUME TrapsTypeOK, SaltsInv, UNCHANGED <<ivs, boots>>,
           UNCHANGED salt \/ \A i \in 1..Len(ivs) : ivs[i][1] # boots,
           Pending' \subseteq Pending
    PROVE  SaltsInv'
  <1>1. Cardinality(Pending') <= Cardinality(Pending) /\ Cardinality(Pending') \in Nat /\ Cardinality(Pending) \in Nat
    BY PendingCount
  <1>2. Len(ivs) \in Nat
    BY DEF TrapsTypeOK
  <1>3. (Len(ivs) + Cardinality(Pending) <= MaxMessages)'
    BY <1>1, <1>2, SpacesNonempty DEF SaltsInv
  <1> QED
    BY <1>3 DEF SaltsInv, After

\* A new caller has found room.
LEMMA SaltsRoom ==
    ASSUME TrapsTypeOK, SaltsInv, RoomForMessage, UNCHANGED <<ivs, boots, salt>>,
           NEW t \in Callers, NEW p, Goto(t, p)
    PROVE  SaltsInv'
  <1>1. Pending' \subseteq Pending \cup {t}
    BY DEF Pending, Goto, TrapsTypeOK
  <1>2. IsFiniteSet(Pending \cup {t})
    BY PendingCount, FS_AddElement
  <1>3. Cardinality(Pending') <= Cardinality(Pending \cup {t}) /\ Cardinality(Pending') \in Nat
        /\ Cardinality(Pending \cup {t}) \in Nat
    BY <1>1, <1>2, FS_Subset, FS_CardinalityType
  <1>4. Len(ivs) \in Nat
    BY DEF TrapsTypeOK
  <1>5. (Len(ivs) + Cardinality(Pending) <= MaxMessages)'
    BY <1>3, <1>4, PendingCount, SpacesNonempty DEF RoomForMessage
  <1> QED
    BY <1>5 DEF SaltsInv, After

\* fetch_add: the salt taken is the one that was next.
LEMMA SaltsTaken ==
    ASSUME TrapsTypeOK, SaltsInv, NEW t \in Callers, TakeSalt(t)
    PROVE  SaltsInv'
  <1> DEFINE l == Len(ivs)
             S == SaltSpace
             iv == <<boots, call[t].time, salt>>
  <1>1. S \in Nat \ {0} /\ l \in Nat /\ salt \in 0..(S - 1) /\ boots \in Nat
    BY SpacesNonempty DEF TrapsTypeOK
  <1>2. /\ ivs' \in Seq(Nat \X Nat \X (0..(S - 1)))
        /\ Len(ivs') = l + 1 /\ ivs'[l + 1] = iv
        /\ \A i \in 1..l : ivs'[i] = ivs[i]
    <2>1. iv \in Nat \X Nat \X (0..(S - 1))
      <3>1. call[t].time \in Nat
        BY DEF TrapsTypeOK, Call
      <3> QED
        BY <1>1, <3>1
    <2>2. ivs \in Seq(Nat \X Nat \X (0..(S - 1))) /\ ivs' = Append(ivs, iv)
      BY DEF TakeSalt, TrapsTypeOK
    <2> HIDE DEF iv
    <2> QED
      BY <2>1, <2>2, AppendProperties
  <1>3. /\ UNCHANGED boots
        /\ salt' = IF salt = S - 1 THEN 0 ELSE salt + 1
    <2>1. salt' = (salt + 1) % S /\ UNCHANGED boots
      BY DEF TakeSalt
    <2>2. CASE salt = S - 1
      BY <1>1, <2>1, <2>2, Remainder
    <2>3. CASE salt # S - 1
      <3>1. salt + 1 \in 0..(S - 1)
        BY <1>1, <2>3
      <3>2. (salt + 1) % S = salt + 1
        <4> DEFINE x == salt + 1
        <4>1. x \in Int /\ x \in 0..(S - 1)
          BY <3>1
        <4> HIDE DEF x, S
        <4>2. x % S = x
          BY <1>1, <4>1, Remainder
        <4> QED
          BY <4>2 DEF x
      <3> QED
        BY <2>1, <2>3, <3>2
    <2> QED
      BY <2>1, <2>2, <2>3
  <1>4. \A i \in 1..l : ivs[i][3] \in 0..(S - 1) /\ ivs[i][1] \in Nat
    <2>1. \A i \in 1..l : ivs[i] \in Nat \X Nat \X (0..(S - 1))
      BY ElementOfSeq DEF TrapsTypeOK
    <2> QED
      BY <2>1
  <1>5. Pending' \subseteq Pending \ {t} /\ t \in Pending
    <2>1. pc'[t] \in {"idle", "send", "return"} /\ \A u \in Callers : u # t => pc'[u] = pc[u]
      BY DEF TakeSalt, Encoded, Goto, TrapsTypeOK
    <2> QED
      BY <2>1 DEF Pending, TakeSalt
  <1>6. (Len(ivs) + Cardinality(Pending) <= MaxMessages)' /\ l + 1 <= MaxMessages
    <2>1. IsFiniteSet(Pending \ {t}) /\ Cardinality(Pending \ {t}) = Cardinality(Pending) - 1
      BY <1>5, PendingCount, FS_Subset
    <2>2. Cardinality(Pending') <= Cardinality(Pending \ {t}) /\ Cardinality(Pending') \in Nat
          /\ Cardinality(Pending) \in Nat
      BY <1>5, <2>1, PendingCount, FS_Subset, FS_CardinalityType
    <2>3. l + Cardinality(Pending) <= MaxMessages /\ MaxMessages \in Nat
      BY SpacesNonempty DEF SaltsInv
    <2>4. Len(ivs') + Cardinality(Pending') <= MaxMessages /\ l + 1 <= MaxMessages
      <3> DEFINE before == Cardinality(Pending)
                 after == Cardinality(Pending')
      <3>1. /\ before \in Nat /\ after \in Nat /\ after <= before - 1
            /\ l + before <= MaxMessages /\ Len(ivs') = l + 1
        BY <1>2, <2>1, <2>2, <2>3
      <3> HIDE DEF before, after, l
      <3>2. l + 1 + after <= MaxMessages /\ l + 1 <= MaxMessages
        BY <1>1, <2>3, <3>1
      <3> QED
        BY <3>1, <3>2 DEF after
    <2> QED
      BY <2>4
  <1> HIDE DEF iv, S
  <1>7. ASSUME NEW i \in 1..(l + 1) PROVE ivs'[i][1] <= boots
    <2>1. CASE i = l + 1
      BY <1>1, <1>2, <2>1 DEF iv
    <2>2. CASE i # l + 1
      <3>1. i \in 1..l
        BY <1>1, <2>2
      <3>2. ivs'[i] = ivs[i] /\ ivs[i][1] <= boots
        BY <1>2, <3>1 DEF SaltsInv
      <3> QED
        BY <3>2
    <2> QED
      BY <2>1, <2>2
  <1>8. ASSUME NEW i \in 1..(l + 1), NEW j \in 1..(l + 1), i < j, ivs'[i][1] = ivs'[j][1]
        PROVE  After(ivs'[i][3], ivs'[j][3], j - i, S)
    <2>1. i \in 1..l
      BY <1>1, <1>8
    <2>2. CASE j = l + 1
      <3>1. ivs'[i] = ivs[i] /\ ivs'[j] = iv
        BY <1>2, <2>1, <2>2
      <3>2. iv[1] = boots /\ iv[3] = salt
        BY DEF iv
      <3>3. ivs[i][1] = boots
        BY <1>8, <3>1, <3>2
      <3>4. After(ivs[i][3], salt, j - i, S)
        BY <2>1, <2>2, <3>3 DEF SaltsInv, S
      <3> QED
        BY <3>1, <3>2, <3>4
    <2>3. CASE j # l + 1
      <3>1. j \in 1..l
        BY <1>1, <2>3
      <3> QED
        BY <1>2, <1>8, <2>1, <3>1 DEF SaltsInv, S
    <2> QED
      BY <2>2, <2>3
  <1>9. ASSUME NEW i \in 1..(l + 1), ivs'[i][1] = boots
        PROVE  After(ivs'[i][3], salt', l + 2 - i, S)
    <2>1. CASE i = l + 1
      BY <1>1, <1>2, <1>3, <2>1 DEF After, iv
    <2>2. CASE i # l + 1
      <3>1. i \in 1..l
        BY <1>1, <2>2
      <3>2. After(ivs[i][3], salt, l + 1 - i, S)
        BY <1>2, <1>9, <3>1 DEF SaltsInv, S
      <3>3. l + 1 - i \in 1..(S - 1) /\ (l + 1 - i) + 1 = l + 2 - i
        BY <1>1, <1>6, <3>1, SpacesNonempty DEF S
      <3>4. After(ivs[i][3], salt', l + 2 - i, S)
        BY <1>1, <1>3, <1>4, <3>1, <3>2, <3>3, AfterNext
      <3>5. ivs'[i] = ivs[i]
        BY <1>2, <3>1
      <3> QED
        BY <3>4, <3>5
    <2> QED
      BY <2>1, <2>2
  <1> QED
    BY <1>1, <1>2, <1>3, <1>6, <1>7, <1>8, <1>9 DEF SaltsInv, After, S

LEMMA SaltsStep == TrapsTypeOK /\ OnceInv /\ SaltsInv /\ [Next]_vars => SaltsInv'
  <1> SUFFICES ASSUME TrapsTypeOK, OnceInv, SaltsInv, [Next]_vars PROVE SaltsInv'
    OBVIOUS
  <1>1. ASSUME NEW t \in Callers, NEW p, Goto(t, p), t \in Pending \/ p \in {"idle", "send", "return"},
               UNCHANGED <<ivs, boots>>,
               UNCHANGED salt \/ \A i \in 1..Len(ivs) : ivs[i][1] # boots
        PROVE  SaltsInv'
    <2>1. Pending' \subseteq Pending
      BY <1>1 DEF Goto, Pending, TrapsTypeOK
    <2> QED
      BY <1>1, <2>1, SaltsKept
  <1>2. ASSUME NEW t \in Callers, NEW c, Encoded(t, c), UNCHANGED <<ivs, boots, salt>> PROVE SaltsInv'
    BY <1>1, <1>2 DEF Encoded
  <1>3. ASSUME NEW t \in Callers, EncodeV3(t) PROVE SaltsInv'
    BY <1>1, <1>2, <1>3 DEF EncodeV3, Pending
  <1>4. ASSUME NEW t \in Callers, EnterOnce(t) PROVE SaltsInv'
    BY <1>1, <1>4 DEF EnterOnce, Pending
  <1>5. ASSUME NEW t \in Callers, NEW random, Seed(t, random) PROVE SaltsInv'
    BY <1>1, <1>5 DEF Seed, Pending, OnceInv
  <1>6. ASSUME NEW t \in Callers, TakeSalt(t) PROVE SaltsInv'
    BY <1>6, SaltsTaken
  <1>7. CASE NewIncarnation
    <2>1. Pending' = {} /\ UNCHANGED ivs /\ boots' = boots + 1 /\ boots \in Nat
      BY <1>7 DEF NewIncarnation, Pending, TrapsTypeOK
    <2>2. \A i \in 1..Len(ivs) : ivs[i] \in Nat \X Nat \X (0..(SaltSpace - 1))
      BY ElementOfSeq DEF TrapsTypeOK
    <2>3. \A i \in 1..Len(ivs) : ivs[i][1] \in Nat /\ ivs[i][1] <= boots + 1
      BY <2>1, <2>2 DEF SaltsInv
    <2>4. (Len(ivs) + Cardinality(Pending) <= MaxMessages)'
      <3>1. Cardinality(Pending) \in Nat /\ Len(ivs) \in Nat /\ Cardinality({}) = 0
        BY PendingCount, FS_EmptySet DEF TrapsTypeOK
      <3> QED
        BY <2>1, <3>1, SpacesNonempty DEF SaltsInv
    <2> QED
      BY <2>1, <2>3, <2>4, NoFutureBoots DEF SaltsInv, After
  <1>8. CASE UNCHANGED <<salt, boots, ivs, pc>>
    BY <1>8 DEF SaltsInv, After, Pending
  <1>9. ASSUME NEW t \in Threads, NEW size, NEW dests, SendTrap(t, size, dests) PROVE SaltsInv'
    BY <1>9, SaltsRoom DEF SendTrap, Callers, shared
  <1>10. ASSUME NEW time, Respond(time) PROVE SaltsInv'
    BY <1>10, SaltsRoom DEF Respond, Callers, shared
  <1>11. ASSUME NEW t \in Callers, NEW ok, SendToNext(t, ok) PROVE SaltsInv'
    BY <1>1, <1>11 DEF SendToNext, shared
  <1> QED
    BY <1>1, <1>2, <1>3, <1>4, <1>5, <1>6, <1>7, <1>8, <1>9, <1>10, <1>11
       DEF Next, Step, vars, shared, EncodeV2c, Return, Tick, Rebuild, Restart

\* No two messages of the engine are encrypted under one IV, for any number of
\* threads, incarnations and seeds, as long as one incarnation does not use up
\* the salts (next_privacy_salt).
THEOREM TrapIvsUnique == Spec => []IvNeverReused
  <1> DEFINE Inv == TrapsTypeOK /\ CallsInv /\ OnceInv /\ SaltsInv
  <1>1. Init => Inv
    <2> SUFFICES ASSUME Init PROVE Inv
      OBVIOUS
    <2>1. TrapsTypeOK /\ CallsInv
      BY TypeInit, TrapsAssumption DEF Init, CallsInv, CallSoFar, Callers
    <2>2. OnceInv
      BY DEF Init, OnceInv
    <2>3. Pending = {} /\ Cardinality({}) = 0
      BY FS_EmptySet DEF Init, Pending
    <2>4. SaltsInv
      BY <2>3, SpacesNonempty DEF Init, SaltsInv
    <2> QED
      BY <2>1, <2>2, <2>4
  <1>2. Inv /\ [Next]_vars => Inv'
    BY TypeStep, CallsStep, OnceStep, SaltsStep
  <1>3. Inv => IvNeverReused
    <2> SUFFICES ASSUME Inv PROVE IvNeverReused
      OBVIOUS
    <2>1. DOMAIN ivs = 1..Len(ivs) /\ Len(ivs) \in Nat
      BY LenProperties DEF TrapsTypeOK
    <2>2. \A i \in 1..Len(ivs) : ivs[i] \in Nat \X Nat \X (0..(SaltSpace - 1))
      BY ElementOfSeq DEF TrapsTypeOK
    <2>3. \A i \in 1..Len(ivs) : ivs[i][3] \in 0..(SaltSpace - 1)
      BY <2>2
    <2>4. Len(ivs) <= SaltSpace
      BY <2>1, PendingCount, SpacesNonempty DEF SaltsInv
    <2>5. ASSUME NEW i \in 1..Len(ivs), NEW j \in 1..Len(ivs), i < j PROVE ivs[i] # ivs[j]
      <3> SUFFICES ASSUME ivs[i] = ivs[j] PROVE FALSE
        OBVIOUS
      <3>1. After(ivs[i][3], ivs[j][3], j - i, SaltSpace)
        BY <2>5 DEF SaltsInv
      <3>2. j - i \in 1..(SaltSpace - 1)
        BY <2>1, <2>4, <2>5, SpacesNonempty
      <3> QED
        BY <2>3, <3>1, <3>2, SpacesNonempty, AfterNext
    <2>6. \A i, j \in 1..Len(ivs) : i = j \/ i < j \/ j < i
      OBVIOUS
    <2> QED
      BY <2>1, <2>5, <2>6 DEF IvNeverReused, IsInjective
  <1> QED
    BY <1>1, <1>2, <1>3, PTL DEF Spec

=============================================================================
