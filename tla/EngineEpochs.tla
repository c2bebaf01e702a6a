---------------------------- MODULE EngineEpochs ----------------------------
(***************************************************************************)
(* What persisting snmpEngineBoots promises: while the engine keeps its    *)
(* ID, every incarnation that gets to serve messages does so under a boots *)
(* value larger than that of every incarnation before it.  This is what    *)
(* makes an authenticated message of an earlier incarnation fall out of    *)
(* the time window of a later one.                                         *)
(***************************************************************************)
EXTENDS Naturals

CONSTANTS EngineIds, MaxBoots

VARIABLES
    id,     \* the configured engine ID
    epoch,  \* the largest boots value served under it, 0 if none
    up      \* an incarnation is serving

vars == <<id, epoch, up>>

Init ==
    /\ id \in EngineIds
    /\ epoch = 0
    /\ up = FALSE

\* The embedder gives the engine another ID: the counter starts over.
Reconfigure ==
    /\ ~up
    /\ id' \in EngineIds \ {id}
    /\ epoch' = 0
    /\ UNCHANGED up

Serve ==
    /\ ~up
    /\ \E boots \in 1..MaxBoots : boots > epoch /\ epoch' = boots
    /\ up' = TRUE
    /\ UNCHANGED id

Halt ==
    /\ up
    /\ up' = FALSE
    /\ UNCHANGED <<id, epoch>>

Next == Reconfigure \/ Serve \/ Halt

Spec == Init /\ [][Next]_vars
=============================================================================
