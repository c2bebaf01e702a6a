------------------------------ MODULE Startup ------------------------------
(***************************************************************************)
(* The life of the user's keys (Credentials) around the start-up of the    *)
(* agent (EngineBoots): the embedder derives or supplies a key, makes a    *)
(* user of it, and hands it to AgentBuilder::build (src/lib.rs), which     *)
(* shares the user between the event loop and the trap sender.  Any of     *)
(* these steps may fail, and keys are given back on every path.            *)
(***************************************************************************)
EXTENDS EngineBoots, Credentials

CONSTANTS
    Passwords,   \* passwords the embedder may use
    OwnLengths,  \* lengths of keys it may supply itself
    Texts        \* messages signed and encrypted with the keys

ASSUME StartupAssumption ==
    /\ \A password \in Passwords : password \in Seq(Range(password))
    /\ OwnLengths \subseteq Nat

VARIABLES
    stage,           \* what the embedder has: "none", "key", "user"; "agent" once built
    origin,          \* where the key comes from
    auth_protocol, auth_key,
    priv_protocol, priv_key,   \* "none" and <<>> for an AuthNoPrivUser
    owners,          \* who holds the Arc<UsmUser>
    residue          \* octets in memory the process has given back

keyVars == <<stage, origin, auth_protocol, auth_key, priv_protocol, priv_key, owners, residue>>

Own == [kind |-> "own"]
Derived(password, id) == [kind |-> "password", password |-> password, id |-> id]

\* There is no key in memory.
NoKeys ==
    /\ stage = "none"
    /\ origin = Own
    /\ auth_protocol = "HmacSha256" /\ auth_key = <<>>
    /\ priv_protocol = "none" /\ priv_key = <<>>
    /\ owners = {}

KeysGone ==
    /\ stage' = "none"
    /\ origin' = Own
    /\ auth_protocol' = "HmacSha256" /\ auth_key' = <<>>
    /\ priv_protocol' = "none" /\ priv_key' = <<>>
    /\ owners' = {}

StartupInit == Init /\ NoKeys /\ residue = {}

-----------------------------------------------------------------------------
(* The embedder *)

\* password_to_localised_key; its errors leave nothing behind.
DeriveKey(password, id, protocol) ==
    LET derived == PasswordToLocalisedKey(password, id, protocol)
    IN  /\ pc = "down" /\ stage = "none"
        /\ derived.ok
        /\ auth_key' = derived.value.value
        /\ residue' = residue \cup derived.value.released
        /\ origin' = Derived(password, id)
        /\ stage' = "key"
        /\ UNCHANGED <<vars, auth_protocol, priv_protocol, priv_key, owners>>

\* SecretKey::new_from_exposed_slice
SupplyKey(n) ==
    /\ pc = "down" /\ stage = "none"
    /\ auth_key' = [i \in 1..n |-> <<"own", i>>]
    /\ origin' = Own
    /\ stage' = "key"
    /\ UNCHANGED <<vars, auth_protocol, priv_protocol, priv_key, owners, residue>>

\* The last owner of the keys lets go of them.
ReleaseKeys ==
    /\ KeysGone
    /\ residue' = residue \cup DropKey(auth_key) \cup DropKey(priv_key)

\* AuthNoPrivUser::new and AuthPrivUser::new take the key, or drop it.
NewUser(auth, priv) ==
    /\ pc = "down" /\ stage = "key"
    /\ IF FitsProtocol(auth, auth_key)
       THEN /\ stage' = "user"
            /\ auth_protocol' = auth
            /\ priv_protocol' = priv
            /\ UNCHANGED <<origin, auth_key, priv_key, owners, residue>>
       ELSE ReleaseKeys
    /\ UNCHANGED vars

\* A key, a user or a builder is dropped unused.
Discard ==
    /\ pc = "down" /\ stage \in {"key", "user"}
    /\ ReleaseKeys
    /\ UNCHANGED vars

-----------------------------------------------------------------------------
(* AgentBuilder::build *)

\* UsmUser::from, before the boots store is read.
BuildAgent(id) ==
    /\ stage = "user"
    /\ Build(id)
    /\ stage' = "agent"
    /\ priv_key' = IF priv_protocol = "none" THEN <<>> ELSE PrivKeyOf(auth_key, priv_protocol)
    /\ owners' = {"build"}
    /\ UNCHANGED <<origin, auth_protocol, auth_key, priv_protocol, residue>>

NewEventLoop ==
    /\ pc = "launch" /\ owners = {"build"}
    /\ owners' = {"build", "loop"}
    /\ UNCHANGED <<vars, stage, origin, auth_protocol, auth_key, priv_protocol, priv_key, residue>>

\* TrapSender::new takes build's own reference.
NewTrapSender ==
    /\ pc = "launch" /\ owners = {"build", "loop"}
    /\ owners' = {"loop", "traps"}
    /\ UNCHANGED <<vars, stage, origin, auth_protocol, auth_key, priv_protocol, priv_key, residue>>

Spawn ==
    /\ owners = {"loop", "traps"}
    /\ Launch
    /\ UNCHANGED keyVars

\* build returns an error; what it had made so far is dropped.
BuildFails ==
    /\ AtCeiling \/ StartupFails
    /\ ReleaseKeys

\* The loop thread is gone, after Shutdown or because poll() failed: the trap
\* sender goes on.
LoopEnds ==
    /\ pc = "serving" /\ "loop" \in owners
    /\ owners' = owners \ {"loop"}
    /\ UNCHANGED <<vars, stage, origin, auth_protocol, auth_key, priv_protocol, priv_key, residue>>

\* AgentInner is dropped: it has joined the loop thread, and its fields follow.
DropAgent ==
    /\ "loop" \notin owners
    /\ Stop
    /\ ReleaseKeys

\* The process dies, and its memory with it.
Forget == KeysGone /\ residue' = {}
Crash == (StartupFails \/ Stop) /\ Forget
LosePower == PowerLoss /\ Forget

StartupNext ==
    \/ \E password \in Passwords, id \in EngineIds, a \in AuthProtocol : DeriveKey(password, id, a)
    \/ \E n \in OwnLengths : SupplyKey(n)
    \/ \E a \in AuthProtocol, p \in PrivProtocol \cup {"none"} : NewUser(a, p)
    \/ Discard
    \/ \E id \in EngineIds : BuildAgent(id)
    \/ FirstBoot /\ UNCHANGED keyVars
    \/ NextBoot /\ UNCHANGED keyVars
    \/ CreateTmp /\ UNCHANGED keyVars
    \/ WriteTmp /\ UNCHANGED keyVars
    \/ SyncTmp /\ UNCHANGED keyVars
    \/ RenameTmp /\ UNCHANGED keyVars
    \/ SyncDir /\ UNCHANGED keyVars
    \/ NewEventLoop \/ NewTrapSender \/ Spawn
    \/ BuildFails \/ LoopEnds \/ DropAgent
    \/ Crash \/ LosePower

StartupSpec == StartupInit /\ [][StartupNext]_<<vars, keyVars>>

-----------------------------------------------------------------------------
(* Properties *)

\* What key derivation is known to leave: the states of its hashers.
HasherStates == UNION {HasherState(a) : a \in AuthProtocol}

\* No path through key derivation, user construction, a failing build or the
\* end of the agent gives memory back with an octet of a key or of a copied
\* digest in it: every buffer the library fills itself is zeroised (REQ-0085).
\* All that is left besides are the states of the derivation's hashers, which
\* finalise_into_secret_key cannot clear (kdf.rs:139-144): the code does not
\* keep the whole of REQ-0108, and this does not claim that it does.
KeyMemoryZeroed == residue \subseteq {Zero} \cup HasherStates

\* RFC 3414 A.2: the key a manager computes from the password.
RfcKey(password, id, protocol) ==
    LET cyclic == [i \in 1..KDF_STREAM_LEN |-> password[((i - 1) % Len(password)) + 1]]
        ku     == Digest(protocol, cyclic)
    IN  Digest(protocol, ku \o <<id>> \o ku)

\* The key the manager's side of this user has.
ManagerKey == IF origin.kind = "own" THEN auth_key ELSE RfcKey(origin.password, origin.id, auth_protocol)

\* As long as anyone holds the user, its keys are the manager's: of the right
\* length for the protocols it was made with, derived by RFC 3414 whatever the
\* password's length, with the privacy key in front (REQ-0081 to REQ-0084).
KeysAgree ==
    owners # {} =>
        /\ Len(auth_key) = key_len[auth_protocol]
        /\ auth_key = ManagerKey
        /\ priv_protocol # "none" =>
              /\ Len(priv_key) = priv_key_len[priv_protocol]
              /\ \A i \in DOMAIN priv_key : priv_key[i] = auth_key[i]

\* MACs a message may arrive with: everything up to the whole HMAC of this or
\* another message, under this or another key, and one octet more.
Candidates ==
    UNION {LET hmac == Hmac(auth_protocol, key, text)
           IN  {SubSeq(hmac, 1, n) : n \in 0..Len(hmac)} \cup {Append(hmac, Zero)} :
           text \in Texts, key \in {auth_key, ZeroizeSlice(auth_key)}}

\* verify_mac accepts one MAC for a message and no other, not even a part of
\* the right one; compute_mac makes it; and what one side encrypts the other
\* decrypts (REQ-0086 to REQ-0089, REQ-0112, REQ-0113).
MacsExact ==
    owners # {} => \A text \in Texts :
        LET genuine == SubSeq(Hmac(auth_protocol, ManagerKey, text), 1, mac_len[auth_protocol])
        IN  /\ ComputeMac(auth_protocol, auth_key, text) = Ok(genuine)
            /\ \A mac \in Candidates :
                  VerifyMac(auth_protocol, auth_key, text, mac).ok <=> mac = genuine
            /\ priv_protocol # "none" =>
                  LET c == Encrypt(priv_protocol, SubSeq(ManagerKey, 1, priv_key_len[priv_protocol]),
                                   <<boots>>, <<text>>)
                  IN  c.ok /\ Decrypt(priv_protocol, priv_key, <<boots>>, c.value) = Ok(<<text>>)
=============================================================================
