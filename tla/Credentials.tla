---------------------------- MODULE Credentials ----------------------------
(***************************************************************************)
(* Keys and what is computed with them (src/usm/keys.rs, kdf.rs, auth.rs,  *)
(* privacy.rs, user.rs).  Hashes, HMACs and ciphers are symbolic: an octet *)
(* of a digest names the algorithm, the whole input and its position, so   *)
(* two digests agree exactly when their inputs do.  The functions that     *)
(* make a key or give one back also say what the memory they leave holds,  *)
(* the hashers of key derivation included.                                 *)
(***************************************************************************)
EXTENDS Naturals, Sequences, SequencesExt

CONSTANTS
    key_len,          \* AuthProtocol::key_len, the digest's length: 32 and 64
    mac_len,          \* AuthProtocol::mac_len: 24 and 48
    priv_key_len,     \* PrivProtocol::key_len: 16 and 32
    KDF_STREAM_LEN,   \* 2^20
    MinPassword,      \* the least length of a password: 8
    Zero              \* the octet 0

AuthProtocol == {"HmacSha256", "HmacSha512"}
PrivProtocol == {"Aes128", "Aes256"}

ASSUME CredentialsAssumption ==
    /\ key_len \in [AuthProtocol -> Nat]
    /\ key_len["HmacSha256"] # key_len["HmacSha512"]
    /\ mac_len \in [AuthProtocol -> Nat]
    /\ priv_key_len \in [PrivProtocol -> Nat]
    /\ \A a \in AuthProtocol : mac_len[a] \in 1..(key_len[a] - 1)
    /\ \A a \in AuthProtocol, p \in PrivProtocol : priv_key_len[p] <= key_len[a]
    /\ KDF_STREAM_LEN \in Nat \ {0}
    /\ MinPassword \in Nat \ {0}

Ok(value) == [ok |-> TRUE, value |-> value]
Err(reason) == [ok |-> FALSE, reason |-> reason]

\* Octets a function leaves in memory it gives back, besides its result.
Leaving(value, released) == [value |-> value, released |-> released]

-----------------------------------------------------------------------------
(* External: the sha2, hmac, cfb-mode and allocator crates. *)

Digest(protocol, input) == [i \in 1..key_len[protocol] |-> <<protocol, input, i>>]

\* What a hasher leaves on the stack when it has been finalised: its chaining
\* value and the end of its input, key material both, as one symbol.  sha2
\* offers no way to clear it; later frames may overwrite it or not.
HasherState(protocol) == {<<"hasher", protocol>>}

Hmac(protocol, key, message) == Digest(protocol, <<"hmac", key, message>>)

\* verify_truncated_left: a non-empty prefix of the HMAC.
VerifyTruncatedLeft(tag, hmac) ==
    /\ Len(tag) \in 1..Len(hmac)
    /\ tag = SubSeq(hmac, 1, Len(tag))

Cfb(protocol, key, iv, text) == [cipher |-> <<protocol, key, iv>>, text |-> text]
CfbInverse(protocol, key, iv, c) == IF c.cipher = <<protocol, key, iv>> THEN c.text ELSE <<"garbage">>

\* Shrinking an allocation may move it: the old block is then given back
\* with the octets that were kept.
Shrink(s, n) == IF n < Len(s) THEN Range(SubSeq(s, 1, n)) ELSE {}

-----------------------------------------------------------------------------
(* SecretKey *)

ZeroizeSlice(s) == [i \in DOMAIN s |-> Zero]

\* Drop for SecretKey: what the freed buffer holds.
DropKey(key) == Range(ZeroizeSlice(key))

Truncate(key, n) ==
    Leaving(SubSeq(key, 1, n),
            Range(ZeroizeSlice(SubSeq(key, n + 1, Len(key)))) \cup Shrink(key, n))

-----------------------------------------------------------------------------
(* Key derivation *)

\* Faulty variant: the digest stays on the stack.
FinaliseIntoSecretKey_Bare(protocol, input) ==
    LET digest == Digest(protocol, input)
    IN  Leaving(digest, Range(digest) \cup HasherState(protocol))

\* The hasher, given by its algorithm and what it was fed, is consumed: the
\* digest is zeroised, the hasher's own state is not.
FinaliseIntoSecretKey(protocol, input) ==
    LET digest == Digest(protocol, input)
    IN  Leaving(digest, Range(ZeroizeSlice(digest)) \cup HasherState(protocol))

\* Faulty variant: only whole copies of the password are hashed.
Stream_WholeCopies(password) ==
    FlattenSeq([copy \in 1..(KDF_STREAM_LEN \div Len(password)) |-> password])

\* What the hasher is fed: whole copies of the password, then a part of one.
Stream(password) ==
    FlattenSeq([copy \in 1..(KDF_STREAM_LEN \div Len(password)) |-> password])
        \o SubSeq(password, 1, KDF_STREAM_LEN % Len(password))

LocaliseKey(key, engine_id, protocol) ==
    FinaliseIntoSecretKey(protocol, key \o <<engine_id>> \o key)

PasswordToLocalisedKey(password, engine_id, protocol) ==
    IF password = <<>> THEN Err("EmptyPassword")
    ELSE IF Len(password) < MinPassword THEN Err("PasswordTooShort")
    ELSE LET master == FinaliseIntoSecretKey(protocol, Stream(password))
             full   == LocaliseKey(master.value, engine_id, protocol)
             key    == Truncate(full.value, key_len[protocol])
         IN  Ok(Leaving(key.value, master.released \cup full.released \cup key.released
                                       \cup DropKey(master.value)))

-----------------------------------------------------------------------------
(* Users *)

\* AuthNoPrivUser::new and AuthPrivUser::new, by validate_auth_key_length.
FitsProtocol(protocol, key) == Len(key) = key_len[protocol]

\* UsmUser::from: the leading octets of the authentication key, copied.
PrivKeyOf(auth_key, priv_protocol) == SubSeq(auth_key, 1, priv_key_len[priv_protocol])

-----------------------------------------------------------------------------
(* AuthProtocol and PrivProtocol *)

ComputeMac(protocol, key, message) ==
    IF Len(key) # key_len[protocol] THEN Err("InvalidKeyLength")
    ELSE Ok(SubSeq(Hmac(protocol, key, message), 1, mac_len[protocol]))

\* Faulty variant: a MAC of any length is compared as far as it goes.
VerifyMac_AnyLength(protocol, key, message, expected) ==
    IF Len(key) # key_len[protocol] THEN Err("InvalidKeyLength")
    ELSE IF ~VerifyTruncatedLeft(expected, Hmac(protocol, key, message)) THEN Err("MacMismatch")
    ELSE Ok(<<>>)

VerifyMac(protocol, key, message, expected) ==
    IF Len(key) # key_len[protocol] THEN Err("InvalidKeyLength")
    ELSE IF Len(expected) # mac_len[protocol] THEN Err("InvalidMacLength")
    ELSE IF ~VerifyTruncatedLeft(expected, Hmac(protocol, key, message)) THEN Err("MacMismatch")
    ELSE Ok(<<>>)

Encrypt(protocol, key, iv, plaintext) ==
    IF Len(key) # priv_key_len[protocol] THEN Err("InvalidKeyLength")
    ELSE Ok(Cfb(protocol, key, iv, plaintext))

Decrypt(protocol, key, iv, ciphertext) ==
    IF Len(key) # priv_key_len[protocol] THEN Err("InvalidKeyLength")
    ELSE Ok(CfbInverse(protocol, key, iv, ciphertext))
=============================================================================
