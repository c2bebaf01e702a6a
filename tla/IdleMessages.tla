---------------------------- MODULE IdleMessages ----------------------------
(***************************************************************************)
(* The event loop with a history of complete messages, to compare the idle *)
(* sweep with REQ-0122 (gov/rfc/RFC-0005/clauses/C-TCP-LIMITS.toml:16),    *)
(* which counts the time since the last complete SNMP message, not since   *)
(* the last byte.                                                          *)
(***************************************************************************)
EXTENDS EventLoop

VARIABLE silent   \* token -> ticks since accept or the last complete message

OneMore(n) == IF n < NormalTimeout THEN n + 1 ELSE n

HInit == LoopInit /\ silent = [t \in ConnTokens |-> 0]

HNext ==
    \/ /\ ConnectionNext
       /\ silent' = [t \in ConnTokens |->
              IF t \notin DOMAIN connections \/ (t = current /\ DispatchFrame) THEN 0
              ELSE IF Tick THEN OneMore(silent[t]) ELSE silent[t]]
    \/ LoopDone /\ UNCHANGED silent

HSpec == HInit /\ [][HNext]_<<loopVars, silent>>

\* "A connection that has received no complete SNMP message within the
\* timeout period MUST be closed" (REQ-0122): what a sweep leaves open has
\* completed a message within the normal timeout.
SilentConnectionsClosed ==
    [][Sweep => \A t \in DOMAIN connections' : silent[t] < NormalTimeout]_<<loopVars, silent>>
=============================================================================
