------------------------------ MODULE MCStartup ------------------------------
(* Startup for TLC, with lengths an eighth or a sixteenth of the code's. *)
EXTENDS Startup

CONSTANTS LetterA, LetterB

MCKeyLen == [HmacSha256 |-> 4, HmacSha512 |-> 8]
MCMacLen == [HmacSha256 |-> 3, HmacSha512 |-> 6]
MCPrivKeyLen == [Aes128 |-> 2, Aes256 |-> 4]

\* Shorter than allowed, dividing the stream or not, and longer than it.
Word(s) == [i \in DOMAIN s |-> IF s[i] = 0 THEN LetterA ELSE LetterB]
MCPasswords ==
    {Word(s) : s \in {<<>>, <<0>>, <<0, 1>>, <<0, 0, 1, 1>>, <<0, 1, 0, 1, 1, 1, 0>>}}
=============================================================================
