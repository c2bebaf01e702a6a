--------------------------- MODULE Startup_proofs ---------------------------
(***************************************************************************)
(* For every set of engine IDs and every ceiling: the boots file is never  *)
(* torn, the epoch served is durable, and the start-up of EngineBoots      *)
(* implements EngineEpochs.  The start-up with its keys implements that of *)
(* EngineBoots, so all this holds with keys as well; and no memory is      *)
(* given back with key octets in it, for every password, key length and    *)
(* protocol.                                                               *)
(***************************************************************************)
EXTENDS Startup, InductionLemmas, TLAPS

-----------------------------------------------------------------------------
(* The boots counter *)

AfterLoad == {"create", "write", "sync", "rename", "syncdir", "launch", "serving"}

\* From WriteTmp on the temporary file holds this incarnation's record, and
\* from SyncTmp on its data is on disk.
TmpInv ==
    /\ pc \in {"sync", "rename", "syncdir"} => tmp = Record(engine_id, boots)
    /\ pc \in {"rename", "syncdir"} => tmp_synced

\* What the file is, and may be after a power loss, as the save proceeds.
FileInv ==
    /\ path \in survivors
    /\ Torn \notin survivors
    /\ pc = "syncdir" => path = Record(engine_id, boots)
    /\ pc \in {"launch", "serving"} => survivors = {Record(engine_id, boots)}

\* Once a value was served under the configured engine ID, every version of
\* the file a power loss could bring back holds at least that value, and the
\* value computed from it is larger.
EpochInv ==
    /\ served > 0 => \A c \in survivors :
          c \in Records /\ c.engine_id = engine_id /\ c.boots >= served
    /\ pc \in AfterLoad => boots >= 1
    /\ pc \in AfterLoad \ {"serving"} => boots > served
    /\ pc = "serving" => boots = served

\* The inductive invariant.
IInv == TypeOK /\ TmpInv /\ FileInv /\ EpochInv

LEMMA RecordInRecords ==
    ASSUME NEW id \in EngineIds, NEW n \in 1..MaxBoots
    PROVE  /\ Record(id, n) \in Records
           /\ Record(id, n) # Torn
           /\ Record(id, n) # NoFile
           /\ Record(id, n).engine_id = id
           /\ Record(id, n).boots = n
  BY BootsAssumption DEF Record, Records

LEMMA InitIInv == Init => IInv
  <1> SUFFICES ASSUME Init PROVE IInv
    OBVIOUS
  <1>1. TypeOK
    <2>1. tmp_synced \in BOOLEAN
      BY Zenon DEF Init
    <2>2. 0 \in 0..MaxBoots
      BY BootsAssumption
    <2> QED
      BY <2>1, <2>2, Zenon DEF Init, TypeOK
  <1>2. TmpInv
    BY DEF Init, TmpInv
  <1>3. FileInv
    BY BootsAssumption DEF Init, FileInv
  <1>4. EpochInv
    BY DEF Init, EpochInv, AfterLoad
  <1> QED
    BY <1>1, <1>2, <1>3, <1>4 DEF IInv

LEMMA NextIInv == IInv /\ [Next]_vars => IInv'
  <1> SUFFICES ASSUME IInv, [Next]_vars PROVE IInv'
    OBVIOUS
  <1> USE BootsAssumption DEF IInv, TypeOK, AfterLoad
  <1>1. ASSUME NEW id \in EngineIds, Build(id) PROVE IInv'
    BY <1>1 DEF Build, diskVars, TmpInv, FileInv, EpochInv
  <1>2. CASE FirstBoot
    BY <1>2 DEF FirstBoot, diskVars, SameEngine, TmpInv, FileInv, EpochInv
  <1>3. CASE NextBoot
    BY <1>3 DEF NextBoot, diskVars, SameEngine, TmpInv, FileInv, EpochInv, Records
  <1>4. CASE AtCeiling
    BY <1>4 DEF AtCeiling, diskVars, TmpInv, FileInv, EpochInv
  <1>5. CASE CreateTmp
    BY <1>5 DEF CreateTmp, TmpInv, FileInv, EpochInv
  <1>6. CASE WriteTmp
    <2>1. Record(engine_id, boots) \in Records
      BY <1>6, RecordInRecords DEF WriteTmp, EpochInv
    <2> QED
      BY <1>6, <2>1 DEF WriteTmp, TmpInv, FileInv, EpochInv
  <1>7. CASE SyncTmp
    BY <1>7 DEF SyncTmp, TmpInv, FileInv, EpochInv
  <1>8. CASE RenameTmp
    <2>1. /\ Record(engine_id, boots) \in Records
          /\ Record(engine_id, boots).engine_id = engine_id
          /\ Record(engine_id, boots).boots = boots
      BY <1>8, RecordInRecords DEF RenameTmp, EpochInv
    <2>2. /\ path' = Record(engine_id, boots)
          /\ survivors' = survivors \cup {Record(engine_id, boots)}
      BY <1>8 DEF RenameTmp, Remains, TmpInv
    <2>3. TypeOK' /\ TmpInv'
      BY <1>8, <2>1, <2>2 DEF RenameTmp, TmpInv
    <2>4. FileInv'
      BY <1>8, <2>1, <2>2 DEF RenameTmp, FileInv
    <2>5. EpochInv'
      BY <1>8, <2>1, <2>2 DEF RenameTmp, EpochInv
    <2> QED
      BY <2>3, <2>4, <2>5
  <1>9. CASE SyncDir
    <2>1. /\ Record(engine_id, boots) \in Records
          /\ Record(engine_id, boots).engine_id = engine_id
          /\ Record(engine_id, boots).boots = boots
      BY <1>9, RecordInRecords DEF SyncDir, EpochInv
    <2>2. survivors' = {Record(engine_id, boots)} /\ path = Record(engine_id, boots)
      BY <1>9 DEF SyncDir, Remains, TmpInv, FileInv
    <2> QED
      BY <1>9, <2>1, <2>2 DEF SyncDir, TmpInv, FileInv, EpochInv
  <1>10. CASE Launch
    <2>1. /\ Record(engine_id, boots) \in Records
          /\ Record(engine_id, boots).engine_id = engine_id
          /\ Record(engine_id, boots).boots = boots
      BY <1>10, RecordInRecords DEF Launch, EpochInv
    <2> QED
      BY <1>10, <2>1 DEF Launch, diskVars, TmpInv, FileInv, EpochInv
  <1>11. CASE StartupFails
    BY <1>11 DEF StartupFails, diskVars, TmpInv, FileInv, EpochInv
  <1>12. CASE Stop
    BY <1>12 DEF Stop, diskVars, TmpInv, FileInv, EpochInv
  <1>13. CASE PowerLoss
    BY <1>13 DEF PowerLoss, TmpInv, FileInv, EpochInv
  <1>14. CASE UNCHANGED vars
    BY <1>14 DEF vars, TmpInv, FileInv, EpochInv
  <1> QED
    BY <1>1, <1>2, <1>3, <1>4, <1>5, <1>6, <1>7, <1>8, <1>9, <1>10, <1>11,
       <1>12, <1>13, <1>14 DEF Next

LEMMA SpecIInv == Spec => []IInv
  BY InitIInv, NextIInv, PTL DEF Spec

\* No interleaving of saves, crashes, power losses and I/O errors leaves a
\* boots file that load() would reject.
THEOREM BootsFileNeverTorn == Spec => []NeverTorn
  <1>1. IInv => NeverTorn
    BY DEF IInv, FileInv, NeverTorn
  <1> QED
    BY <1>1, SpecIInv, PTL

\* Whatever boots value messages are served under is what a power loss leaves.
THEOREM ServedEpochDurable == Spec => []EpochDurable
  <1>1. IInv => EpochDurable
    BY DEF IInv, FileInv, EpochDurable
  <1> QED
    BY <1>1, SpecIInv, PTL

\* Every variable stays in its type; in particular boots never passes the
\* ceiling.
THEOREM BootsTypeOK == Spec => []TypeOK
  <1>1. IInv => TypeOK
    BY DEF IInv
  <1> QED
    BY <1>1, SpecIInv, PTL

\* The start-up with its crashes implements the abstract epoch counter: the
\* boots values of the serving incarnations of one engine ID increase.
THEOREM BootsImplementEpochs == Spec => ImplementsEpochs
  <1>1. Init => Epochs!Init
    BY DEF Init, Epochs!Init
  <1>2. IInv /\ [Next]_vars => [Epochs!Next]_(Epochs!vars)
    <2> SUFFICES ASSUME IInv, [Next]_vars PROVE [Epochs!Next]_(Epochs!vars)
      OBVIOUS
    <2> USE DEF Epochs!vars
    <2>1. ASSUME NEW id \in EngineIds, Build(id)
          PROVE  [Epochs!Next]_(Epochs!vars)
      <3>1. CASE id = engine_id
        BY <2>1, <3>1 DEF Build
      <3>2. CASE id # engine_id
        BY <2>1, <3>2 DEF Build, Epochs!Next, Epochs!Reconfigure
      <3> QED
        BY <3>1, <3>2
    <2>2. CASE Launch
      <3>1. boots \in 1..MaxBoots /\ boots > served
        BY <2>2 DEF Launch, IInv, TypeOK, EpochInv, AfterLoad
      <3> QED
        BY <2>2, <3>1 DEF Launch, Epochs!Next, Epochs!Serve
    <2>3. CASE Stop
      BY <2>3 DEF Stop, Epochs!Next, Epochs!Halt
    <2>4. CASE PowerLoss
      BY <2>4 DEF PowerLoss, Epochs!Next, Epochs!Halt
    <2>5. CASE \/ FirstBoot \/ NextBoot \/ AtCeiling
               \/ CreateTmp \/ WriteTmp \/ SyncTmp \/ RenameTmp \/ SyncDir
               \/ StartupFails
      BY <2>5 DEF FirstBoot, NextBoot, AtCeiling, CreateTmp, WriteTmp, SyncTmp,
                  RenameTmp, SyncDir, StartupFails
    <2>6. CASE UNCHANGED vars
      BY <2>6 DEF vars
    <2> QED
      BY <2>1, <2>2, <2>3, <2>4, <2>5, <2>6 DEF Next
  <1> QED
    BY <1>1, <1>2, SpecIInv, PTL DEF Spec, ImplementsEpochs, Epochs!Spec

-----------------------------------------------------------------------------
(* The start-up with keys *)

\* The keys' steps leave the boots counter alone; the others are its steps.
THEOREM StartupImplementsBoots == StartupSpec => Spec
  <1>1. StartupInit => Init
    BY DEF StartupInit
  <1>2. [StartupNext]_<<vars, keyVars>> => [Next]_vars
    BY DEF StartupNext, DeriveKey, SupplyKey, NewUser, Discard, BuildAgent, NewEventLoop,
       NewTrapSender, Spawn, BuildFails, LoopEnds, DropAgent, Crash, LosePower, Next
  <1> QED
    BY <1>1, <1>2, PTL DEF StartupSpec, Spec

\* The agent is never locked out by an interrupted save.
THEOREM StartupNeverTorn == StartupSpec => []NeverTorn
  BY StartupImplementsBoots, BootsFileNeverTorn, PTL

\* Serving incarnations of one engine ID have increasing boots values.
THEOREM StartupImplementsEpochs == StartupSpec => ImplementsEpochs
  BY StartupImplementsBoots, BootsImplementEpochs

-----------------------------------------------------------------------------

\* Zeroised memory holds zeros.
LEMMA ZeroisedRange ==
    ASSUME NEW s
    PROVE  Range(ZeroizeSlice(s)) \subseteq {Zero}
  BY DEF Range, ZeroizeSlice

\* Truncating a digest to the protocol's key length shrinks nothing.
LEMMA TruncateDigest ==
    ASSUME NEW protocol \in AuthProtocol, NEW input
    PROVE  Truncate(Digest(protocol, input), key_len[protocol]).released \subseteq {Zero}
  <1> DEFINE d == Digest(protocol, input)
  <1>1. key_len[protocol] \in Nat
    BY CredentialsAssumption DEF CredentialsAssumption
  <1>2. Len(d) = key_len[protocol]
    BY <1>1 DEF Digest
  <1>3. Shrink(d, key_len[protocol]) = {}
    BY <1>1, <1>2 DEF Shrink
  <1> QED
    BY <1>3, ZeroisedRange DEF Truncate, Leaving

\* Finalising a hasher leaves zeros and the hasher's own state.
LEMMA FinalisedLeaves ==
    ASSUME NEW protocol \in AuthProtocol, NEW input
    PROVE  /\ FinaliseIntoSecretKey(protocol, input).value = Digest(protocol, input)
           /\ FinaliseIntoSecretKey(protocol, input).released \subseteq {Zero} \cup HasherStates
  <1>1. HasherState(protocol) \subseteq HasherStates
    BY DEF HasherStates
  <1> QED
    BY <1>1, ZeroisedRange DEF FinaliseIntoSecretKey, Leaving

\* Deriving a key leaves no octet of it, nor of the password's own digest, but
\* for the states of the two hashers.
LEMMA DerivationZeroised ==
    ASSUME NEW password, NEW id, NEW protocol \in AuthProtocol,
           PasswordToLocalisedKey(password, id, protocol).ok
    PROVE  PasswordToLocalisedKey(password, id, protocol).value.released \subseteq {Zero} \cup HasherStates
  <1> DEFINE master == FinaliseIntoSecretKey(protocol, Stream(password))
             full   == LocaliseKey(master.value, id, protocol)
             key    == Truncate(full.value, key_len[protocol])
  <1>1. PasswordToLocalisedKey(password, id, protocol)
            = Ok(Leaving(key.value, master.released \cup full.released \cup key.released
                                        \cup DropKey(master.value)))
    BY DEF PasswordToLocalisedKey, Err
  <1>2. master.released \subseteq {Zero} \cup HasherStates
    BY FinalisedLeaves
  <1>3. /\ full.released \subseteq {Zero} \cup HasherStates
        /\ full.value = Digest(protocol, master.value \o <<id>> \o master.value)
    BY FinalisedLeaves DEF LocaliseKey
  <1>4. key.released \subseteq {Zero}
    BY <1>3, TruncateDigest
  <1>5. DropKey(master.value) \subseteq {Zero}
    BY ZeroisedRange DEF DropKey
  <1> HIDE DEF master, full, key
  <1> QED
    BY <1>1, <1>2, <1>3, <1>4, <1>5 DEF Ok, Leaving

\* Memory that was given back holds zeros and, after a derivation, the states
\* of its hashers: no octet of a key or of a digest the library copied,
\* whichever of the steps fails and whoever lets go of the keys last.
THEOREM KeyMemoryNeverLeaks == StartupSpec => []KeyMemoryZeroed
  <1>1. StartupInit => KeyMemoryZeroed
    BY DEF StartupInit, KeyMemoryZeroed
  <1>2. KeyMemoryZeroed /\ [StartupNext]_<<vars, keyVars>> => KeyMemoryZeroed'
    <2> SUFFICES ASSUME KeyMemoryZeroed, [StartupNext]_<<vars, keyVars>> PROVE KeyMemoryZeroed'
      OBVIOUS
    <2> USE DEF KeyMemoryZeroed
    <2>1. ReleaseKeys => KeyMemoryZeroed'
      BY ZeroisedRange DEF ReleaseKeys, DropKey
    <2>2. ASSUME NEW password \in Passwords, NEW id \in EngineIds, NEW a \in AuthProtocol,
                 DeriveKey(password, id, a)
          PROVE  KeyMemoryZeroed'
      BY <2>2, DerivationZeroised DEF DeriveKey
    <2>3. ASSUME UNCHANGED keyVars PROVE KeyMemoryZeroed'
      BY <2>3 DEF keyVars
    <2>4. ASSUME NEW a \in AuthProtocol, NEW p \in PrivProtocol \cup {"none"}, NewUser(a, p)
          PROVE  KeyMemoryZeroed'
      BY <2>1, <2>4 DEF NewUser
    <2>5. CASE Discard \/ BuildFails \/ DropAgent
      BY <2>1, <2>5 DEF Discard, BuildFails, DropAgent
    <2>6. CASE Crash \/ LosePower
      BY <2>6 DEF Crash, LosePower, Forget
    <2>7. CASE NewEventLoop \/ NewTrapSender \/ LoopEnds \/ (\E id \in EngineIds : BuildAgent(id))
               \/ (\E n \in OwnLengths : SupplyKey(n))
      BY <2>7 DEF NewEventLoop, NewTrapSender, LoopEnds, BuildAgent, SupplyKey
    <2> QED
      BY <2>2, <2>3, <2>4, <2>5, <2>6, <2>7 DEF StartupNext, Spawn
  <1> QED
    BY <1>1, <1>2, PTL DEF StartupSpec

-----------------------------------------------------------------------------
(* Key derivation computes RFC 3414's key *)

\* Position a of repeated copies of length L, by its copy and its place in it.
LEMMA PlaceInCopy ==
    ASSUME NEW L \in Nat \ {0}, NEW q \in Nat, NEW r \in 0..(L - 1)
    PROVE  (q * L + r) % L = r
  <1>1. q * L + r \in Nat
    BY SMT
  <1> QED
    BY <1>1, SMT

LEMMA QuotientAndRemainder ==
    ASSUME NEW L \in Nat \ {0}, NEW a \in Nat
    PROVE  /\ a = (a \div L) * L + (a % L)
           /\ a % L \in 0..(L - 1)
           /\ a \div L \in Nat
  BY SMT

LEMMA OneMoreCopy ==
    ASSUME NEW L \in Nat \ {0}, NEW q \in Nat
    PROVE  q * L \in Nat /\ (q + 1) * L = q * L + L
  BY SMT

\* The first n characters of the password repeated for ever.
Cyclic(password, n) == [i \in 1..n |-> password[((i - 1) % Len(password)) + 1]]

\* Another copy of the password, or a part of one, continues the cycle.
LEMMA CyclicContinues ==
    ASSUME NEW S, NEW password \in Seq(S), password # <<>>,
           NEW q \in Nat, NEW m \in 0..Len(password)
    PROVE  Cyclic(password, q * Len(password)) \o SubSeq(password, 1, m)
               = Cyclic(password, q * Len(password) + m)
  <1> DEFINE L == Len(password)
             front == Cyclic(password, q * L)
             part  == SubSeq(password, 1, m)
             whole == Cyclic(password, q * L + m)
  <1>1. L \in Nat \ {0} /\ q * L \in Nat /\ m \in Nat /\ m <= L
    BY OneMoreCopy
  <1>2. part \in Seq(S) /\ Len(part) = m /\ \A i \in 1..m : part[i] = password[i]
    BY <1>1
  <1>3. \A i \in Nat \ {0} : ((i - 1) % L) + 1 \in 1..L
    <2> SUFFICES ASSUME NEW i \in Nat \ {0} PROVE ((i - 1) % L) + 1 \in 1..L
      OBVIOUS
    <2>1. i - 1 \in Nat
      OBVIOUS
    <2> HIDE DEF L
    <2>2. (i - 1) % L \in 0..(L - 1)
      BY <1>1, <2>1, QuotientAndRemainder
    <2> QED
      BY <1>1, <2>2
  <1>4. front \in Seq(S) /\ Len(front) = q * L
    <2>1. \A i \in 1..(q * L) : password[((i - 1) % L) + 1] \in S
      BY <1>1, <1>3
    <2> QED
      BY <1>1, <2>1 DEF Cyclic
  <1>5. Len(front \o part) = q * L + m /\ front \o part \in Seq(S)
    BY <1>1, <1>2, <1>4
  <1>6. whole \in Seq(S) /\ Len(whole) = q * L + m
    <2>1. \A i \in 1..(q * L + m) : password[((i - 1) % L) + 1] \in S
      BY <1>1, <1>3
    <2> QED
      BY <1>1, <2>1 DEF Cyclic
  <1>7. ASSUME NEW i \in 1..(q * L + m) PROVE (front \o part)[i] = whole[i]
    <2>1. CASE i <= q * L
      BY <1>1, <1>2, <1>4, <2>1 DEF Cyclic
    <2>2. CASE i > q * L
      <3> DEFINE r == i - q * L - 1
      <3>1. r \in 0..(L - 1) /\ i - 1 = q * L + r /\ r + 1 \in 1..m /\ i - q * L = r + 1
        BY <1>1, <2>2
      <3>2. (i - 1) % L = r
        BY <1>1, <3>1, PlaceInCopy
      <3>3. whole[i] = password[r + 1]
        BY <3>2 DEF Cyclic
      <3>4. (front \o part)[i] = part[r + 1]
        BY <1>1, <1>2, <1>4, <2>2, <3>1
      <3> QED
        BY <1>2, <3>1, <3>3, <3>4
    <2>3. i <= q * L \/ i > q * L
      BY <1>1
    <2> QED
      BY <2>1, <2>2, <2>3
  <1> HIDE DEF front, part, whole
  <1>8. front \o part = whole
    BY <1>5, <1>6, <1>7
  <1> QED
    BY <1>8 DEF front, part, whole, L

\* Whole copies of the password.
LEMMA CopiesAreCyclic ==
    ASSUME NEW S, NEW password \in Seq(S), password # <<>>, NEW n \in Nat
    PROVE  FlattenSeq([copy \in 1..n |-> password]) = Cyclic(password, n * Len(password))
  <1> DEFINE copies(k) == [copy \in 1..k |-> password]
             T == {k \in Nat : FlattenSeq(copies(k)) = Cyclic(password, k * Len(password))}
  <1>1. Len(password) \in Nat \ {0} /\ SubSeq(password, 1, Len(password)) = password
    OBVIOUS
  <1>2. 0 \in T
    <2>1. copies(0) = <<>> /\ Cyclic(password, 0 * Len(password)) = <<>>
      BY <1>1 DEF Cyclic
    <2>2. FlattenSeq(<<>>) = <<>>
      BY DEF FlattenSeq
    <2> QED
      BY <2>1, <2>2
  <1>3. ASSUME NEW k \in Nat, k \in T PROVE k + 1 \in T
    <2>1. copies(k) \in Seq(Seq(S)) /\ copies(k + 1) = Append(copies(k), password)
      OBVIOUS
    <2>2. FlattenSeq(copies(k + 1)) = FlattenSeq(copies(k)) \o password
      BY <2>1, FlattenAppend
    <2>3. FlattenSeq(copies(k)) = Cyclic(password, k * Len(password))
      BY <1>3
    <2>4. Cyclic(password, k * Len(password)) \o SubSeq(password, 1, Len(password))
              = Cyclic(password, k * Len(password) + Len(password))
      <3>1. Len(password) \in 0..Len(password)
        BY <1>1
      <3> QED
        BY <1>1, <3>1, CyclicContinues
    <2>5. (k + 1) * Len(password) = k * Len(password) + Len(password)
      BY <1>1, OneMoreCopy
    <2>6. FlattenSeq(copies(k + 1)) = Cyclic(password, (k + 1) * Len(password))
      BY <1>1, <2>2, <2>3, <2>4, <2>5
    <2> QED
      BY <2>6
  <1>4. Nat \subseteq T
    <2> HIDE DEF T
    <2> QED
      BY <1>2, <1>3, NaturalInduction
  <1> QED
    BY <1>4

\* Hashing whole copies and a part of one feeds the hasher the cyclic
\* repetition of the password, whatever its length.
LEMMA StreamIsCyclic ==
    ASSUME NEW S, NEW password \in Seq(S), password # <<>>
    PROVE  Stream(password) = Cyclic(password, KDF_STREAM_LEN)
  <1> DEFINE L == Len(password)
             q == KDF_STREAM_LEN \div L
             r == KDF_STREAM_LEN % L
  <1>1. KDF_STREAM_LEN \in Nat /\ L \in Nat \ {0}
    BY CredentialsAssumption DEF CredentialsAssumption
  <1>2. KDF_STREAM_LEN = q * L + r /\ r \in 0..(L - 1) /\ q \in Nat
    BY <1>1, QuotientAndRemainder
  <1>3. r \in 0..L
    BY <1>1, <1>2
  <1> HIDE DEF q, r
  <1>4. FlattenSeq([copy \in 1..q |-> password]) = Cyclic(password, q * L)
    BY <1>2, CopiesAreCyclic
  <1>5. Cyclic(password, q * L) \o SubSeq(password, 1, r) = Cyclic(password, q * L + r)
    BY <1>2, <1>3, CyclicContinues
  <1> QED
    BY <1>2, <1>4, <1>5 DEF Stream, q, r

\* A digest is a sequence as long as the protocol's key.
LEMMA DigestIsKey ==
    ASSUME NEW protocol \in AuthProtocol, NEW input
    PROVE  /\ Digest(protocol, input) \in Seq(Range(Digest(protocol, input)))
           /\ Len(Digest(protocol, input)) = key_len[protocol]
           /\ SubSeq(Digest(protocol, input), 1, key_len[protocol]) = Digest(protocol, input)
  <1> DEFINE d == Digest(protocol, input)
  <1>1. key_len[protocol] \in Nat
    BY CredentialsAssumption DEF CredentialsAssumption
  <1>2. d = [i \in 1..key_len[protocol] |-> <<protocol, input, i>>]
    BY DEF Digest
  <1> HIDE DEF d
  <1>3. d \in Seq(Range(d)) /\ Len(d) = key_len[protocol]
    <2>1. DOMAIN d = 1..key_len[protocol]
      BY <1>2
    <2>2. \A i \in 1..key_len[protocol] : d[i] \in Range(d)
      BY <2>1 DEF Range
    <2>3. d = [i \in 1..key_len[protocol] |-> d[i]]
      BY <1>2
    <2> QED
      BY <1>1, <2>2, <2>3
  <1>4. SubSeq(d, 1, key_len[protocol]) = d
    BY <1>1, <1>3
  <1> QED
    BY <1>3, <1>4 DEF d

\* password_to_localised_key returns the key of RFC 3414 A.2, for every
\* password it accepts.
LEMMA DerivationFollowsRfc ==
    ASSUME NEW password \in Passwords, NEW id, NEW protocol \in AuthProtocol,
           PasswordToLocalisedKey(password, id, protocol).ok
    PROVE  PasswordToLocalisedKey(password, id, protocol).value.value = RfcKey(password, id, protocol)
  <1> DEFINE ku   == Digest(protocol, Stream(password))
             full == Digest(protocol, ku \o <<id>> \o ku)
  <1>1. password # <<>>
    BY DEF PasswordToLocalisedKey, Err
  <1>2. PasswordToLocalisedKey(password, id, protocol).value.value
            = SubSeq(full, 1, key_len[protocol])
    BY <1>1 DEF PasswordToLocalisedKey, Err, Ok, Leaving, Truncate, LocaliseKey, FinaliseIntoSecretKey
  <1>3. SubSeq(full, 1, key_len[protocol]) = full
    BY DigestIsKey
  <1>4. Stream(password) = Cyclic(password, KDF_STREAM_LEN)
    BY <1>1, StreamIsCyclic, StartupAssumption DEF StartupAssumption
  <1> QED
    BY <1>2, <1>3, <1>4 DEF RfcKey, Cyclic

-----------------------------------------------------------------------------
(* The keys of the running agent *)

\* A key there is was supplied by the embedder, or is RFC 3414's for the
\* password and one of the protocols.
KeyInv ==
    stage # "none" =>
        /\ auth_key \in Seq(Range(auth_key))
        /\ \/ origin.kind = "own"
           \/ /\ origin.kind = "password"
              /\ \E a \in AuthProtocol :
                    /\ auth_key = RfcKey(origin.password, origin.id, a)
                    /\ Len(auth_key) = key_len[a]

\* A user's key has the length of the user's protocol.
UserInv ==
    stage \in {"user", "agent"} =>
        /\ auth_protocol \in AuthProtocol
        /\ priv_protocol \in PrivProtocol \cup {"none"}
        /\ Len(auth_key) = key_len[auth_protocol]

\* Only a build, and what it has made, shares a user; by then the privacy key
\* has been copied.
SharedInv ==
    /\ owners # {} => stage = "agent"
    /\ stage = "agent" /\ priv_protocol # "none" => priv_key = PrivKeyOf(auth_key, priv_protocol)

KeysInv == KeyInv /\ UserInv /\ SharedInv

LEMMA DerivedKeyInv ==
    ASSUME NEW password \in Passwords, NEW id \in EngineIds, NEW a \in AuthProtocol,
           DeriveKey(password, id, a)
    PROVE  KeyInv'
  <1>1. auth_key' = RfcKey(password, id, a) /\ origin' = Derived(password, id)
    BY DerivationFollowsRfc DEF DeriveKey
  <1>2. auth_key' \in Seq(Range(auth_key')) /\ Len(auth_key') = key_len[a]
    <2>1. PICK input : auth_key' = Digest(a, input)
      BY <1>1 DEF RfcKey
    <2> QED
      BY <2>1, DigestIsKey
  <1>3. origin'.kind = "password" /\ origin'.password = password /\ origin'.id = id
    BY <1>1 DEF Derived
  <1> QED
    BY <1>1, <1>2, <1>3 DEF KeyInv

LEMMA KeysInvKept == KeysInv /\ [StartupNext]_<<vars, keyVars>> => KeysInv'
  <1> SUFFICES ASSUME KeysInv, [StartupNext]_<<vars, keyVars>> PROVE KeysInv'
    OBVIOUS
  <1> USE DEF KeysInv
  <1>1. KeysGone => KeysInv'
    BY DEF KeysGone, KeyInv, UserInv, SharedInv
  <1>2. ASSUME NEW password \in Passwords, NEW id \in EngineIds, NEW a \in AuthProtocol,
               DeriveKey(password, id, a)
        PROVE  KeysInv'
    <2>1. KeyInv'
      BY <1>2, DerivedKeyInv
    <2>2. UserInv' /\ SharedInv'
      BY <1>2 DEF DeriveKey, UserInv, SharedInv
    <2> QED
      BY <2>1, <2>2
  <1>3. ASSUME NEW n \in OwnLengths, SupplyKey(n) PROVE KeysInv'
    <2>1. auth_key' \in Seq(Range(auth_key'))
      <3>1. n \in Nat
        BY StartupAssumption DEF StartupAssumption
      <3> QED
        BY <1>3, <3>1 DEF SupplyKey, Range
    <2>2. origin'.kind = "own"
      BY <1>3 DEF SupplyKey, Own
    <2>3. UserInv' /\ SharedInv'
      BY <1>3 DEF SupplyKey, UserInv, SharedInv
    <2> QED
      BY <2>1, <2>2, <2>3 DEF KeyInv
  <1>4. ASSUME NEW a \in AuthProtocol, NEW p \in PrivProtocol \cup {"none"}, NewUser(a, p)
        PROVE  KeysInv'
    <2>1. CASE FitsProtocol(a, auth_key)
      BY <1>4, <2>1 DEF NewUser, FitsProtocol, KeyInv, UserInv, SharedInv
    <2>2. CASE ~FitsProtocol(a, auth_key)
      BY <1>1, <1>4, <2>2 DEF NewUser, ReleaseKeys
    <2> QED
      BY <2>1, <2>2
  <1>5. CASE Discard \/ BuildFails \/ DropAgent \/ Crash \/ LosePower
    BY <1>1, <1>5 DEF Discard, BuildFails, DropAgent, Crash, LosePower, ReleaseKeys, Forget
  <1>6. ASSUME NEW id \in EngineIds, BuildAgent(id) PROVE KeysInv'
    BY <1>6 DEF BuildAgent, KeyInv, UserInv, SharedInv
  <1>7. CASE NewEventLoop \/ NewTrapSender \/ LoopEnds
    BY <1>7 DEF NewEventLoop, NewTrapSender, LoopEnds, KeyInv, UserInv, SharedInv
  <1>8. ASSUME UNCHANGED keyVars PROVE KeysInv'
    BY <1>8 DEF keyVars, KeyInv, UserInv, SharedInv
  <1> QED
    BY <1>2, <1>3, <1>4, <1>5, <1>6, <1>7, <1>8 DEF StartupNext, Spawn

LEMMA SpecKeysInv == StartupSpec => []KeysInv
  <1>1. StartupInit => KeysInv
    BY DEF StartupInit, NoKeys, KeysInv, KeyInv, UserInv, SharedInv
  <1> QED
    BY <1>1, KeysInvKept, PTL DEF StartupSpec

\* A user in use has the manager's key, and its privacy key is that key's
\* front.
LEMMA KeysInvAgree ==
    ASSUME KeysInv, owners # {}
    PROVE  /\ auth_protocol \in AuthProtocol
           /\ auth_key \in Seq(Range(auth_key))
           /\ Len(auth_key) = key_len[auth_protocol]
           /\ auth_key = ManagerKey
           /\ priv_protocol # "none" =>
                 /\ priv_protocol \in PrivProtocol
                 /\ priv_key = PrivKeyOf(auth_key, priv_protocol)
                 /\ Len(priv_key) = priv_key_len[priv_protocol]
                 /\ \A i \in DOMAIN priv_key : priv_key[i] = auth_key[i]
  <1>1. stage = "agent"
    BY DEF KeysInv, SharedInv
  <1>2. /\ auth_protocol \in AuthProtocol
        /\ priv_protocol \in PrivProtocol \cup {"none"}
        /\ Len(auth_key) = key_len[auth_protocol]
    BY <1>1 DEF KeysInv, UserInv
  <1>3. auth_key \in Seq(Range(auth_key))
    BY <1>1 DEF KeysInv, KeyInv
  <1>4. auth_key = ManagerKey
    <2>1. CASE origin.kind = "own"
      BY <2>1 DEF ManagerKey
    <2>2. CASE origin.kind # "own"
      <3>1. PICK a \in AuthProtocol : /\ auth_key = RfcKey(origin.password, origin.id, a)
                                      /\ Len(auth_key) = key_len[a]
        BY <1>1, <2>2 DEF KeysInv, KeyInv
      <3>2. a = auth_protocol
        BY <1>2, <3>1, CredentialsAssumption DEF CredentialsAssumption, AuthProtocol
      <3> QED
        BY <2>2, <3>1, <3>2 DEF ManagerKey
    <2> QED
      BY <2>1, <2>2
  <1>5. ASSUME priv_protocol # "none"
        PROVE  /\ priv_protocol \in PrivProtocol
               /\ priv_key = PrivKeyOf(auth_key, priv_protocol)
               /\ Len(priv_key) = priv_key_len[priv_protocol]
               /\ \A i \in DOMAIN priv_key : priv_key[i] = auth_key[i]
    <2>1. priv_protocol \in PrivProtocol /\ priv_key = PrivKeyOf(auth_key, priv_protocol)
      BY <1>1, <1>2, <1>5 DEF KeysInv, SharedInv
    <2>2. /\ priv_key_len[priv_protocol] \in Nat
          /\ priv_key_len[priv_protocol] <= Len(auth_key)
      BY <1>2, <2>1, CredentialsAssumption DEF CredentialsAssumption
    <2> QED
      BY <1>3, <2>1, <2>2 DEF PrivKeyOf
  <1> QED
    BY <1>2, <1>3, <1>4, <1>5

\* However the key came about and whichever steps failed on the way, the user
\* the loop and the trap sender share has the keys its manager computes.
THEOREM AgentKeysAgree == StartupSpec => []KeysAgree
  <1>1. KeysInv => KeysAgree
    BY KeysInvAgree DEF KeysAgree
  <1> QED
    BY <1>1, SpecKeysInv, PTL

\* With those keys the agent accepts the manager's MAC for a message and no
\* other one, and reads what the manager encrypts.
THEOREM AgentMacsExact == StartupSpec => []MacsExact
  <1>1. ASSUME KeysInv PROVE MacsExact
    <2> SUFFICES ASSUME owners # {}, NEW text \in Texts
                 PROVE  LET genuine == SubSeq(Hmac(auth_protocol, ManagerKey, text), 1, mac_len[auth_protocol])
                        IN  /\ ComputeMac(auth_protocol, auth_key, text) = Ok(genuine)
                            /\ \A mac \in Candidates :
                                  VerifyMac(auth_protocol, auth_key, text, mac).ok <=> mac = genuine
                            /\ priv_protocol # "none" =>
                                  LET c == Encrypt(priv_protocol,
                                                   SubSeq(ManagerKey, 1, priv_key_len[priv_protocol]),
                                                   <<boots>>, <<text>>)
                                  IN  c.ok /\ Decrypt(priv_protocol, priv_key, <<boots>>, c.value)
                                                = Ok(<<text>>)
      BY DEF MacsExact
    <2> DEFINE hmac == Hmac(auth_protocol, auth_key, text)
               genuine == SubSeq(hmac, 1, mac_len[auth_protocol])
    <2>1. /\ auth_protocol \in AuthProtocol
          /\ Len(auth_key) = key_len[auth_protocol]
          /\ auth_key = ManagerKey
      BY <1>1, KeysInvAgree
    <2>2. mac_len[auth_protocol] \in 1..(key_len[auth_protocol] - 1)
          /\ key_len[auth_protocol] \in Nat
      BY <2>1, CredentialsAssumption DEF CredentialsAssumption
    <2>3. hmac \in Seq(Range(hmac)) /\ Len(hmac) = key_len[auth_protocol]
      BY <2>1, DigestIsKey DEF Hmac
    <2>4. Len(genuine) = mac_len[auth_protocol]
      <3> HIDE DEF hmac
      <3> QED
        BY <2>2, <2>3
    <2>5. ComputeMac(auth_protocol, auth_key, text) = Ok(genuine)
      BY <2>1 DEF ComputeMac
    <2>6. ASSUME NEW mac PROVE VerifyMac(auth_protocol, auth_key, text, mac).ok <=> mac = genuine
      <3>1. CASE Len(mac) # mac_len[auth_protocol]
        BY <2>1, <2>4, <3>1 DEF VerifyMac, Err
      <3>2. CASE Len(mac) = mac_len[auth_protocol]
        <4>1. VerifyTruncatedLeft(mac, hmac) <=> mac = genuine
          <5> HIDE DEF hmac
          <5> QED
            BY <2>2, <2>3, <3>2 DEF VerifyTruncatedLeft
        <4> HIDE DEF genuine
        <4> QED
          BY <2>1, <3>2, <4>1 DEF VerifyMac, Err, Ok
      <3> QED
        BY <3>1, <3>2
    <2>7. ASSUME priv_protocol # "none"
          PROVE  LET c == Encrypt(priv_protocol,
                                  SubSeq(auth_key, 1, priv_key_len[priv_protocol]),
                                  <<boots>>, <<text>>)
                 IN  c.ok /\ Decrypt(priv_protocol, priv_key, <<boots>>, c.value) = Ok(<<text>>)
      <3>1. /\ priv_key = SubSeq(auth_key, 1, priv_key_len[priv_protocol])
            /\ Len(priv_key) = priv_key_len[priv_protocol]
        BY <1>1, <2>7, KeysInvAgree DEF PrivKeyOf
      <3>2. Encrypt(priv_protocol, priv_key, <<boots>>, <<text>>)
                = Ok(Cfb(priv_protocol, priv_key, <<boots>>, <<text>>))
        BY <3>1 DEF Encrypt
      <3>3. CfbInverse(priv_protocol, priv_key, <<boots>>,
                       Cfb(priv_protocol, priv_key, <<boots>>, <<text>>)) = <<text>>
        BY DEF Cfb, CfbInverse
      <3>4. Decrypt(priv_protocol, priv_key, <<boots>>,
                    Cfb(priv_protocol, priv_key, <<boots>>, <<text>>)) = Ok(<<text>>)
        BY <3>1, <3>3 DEF Decrypt
      <3> QED
        BY <3>1, <3>2, <3>4 DEF Ok
    <2> QED
      BY <2>1, <2>5, <2>6, <2>7
  <1> QED
    BY <1>1, SpecKeysInv, PTL
=============================================================================
