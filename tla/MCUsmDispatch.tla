--------------------------- MODULE MCUsmDispatch ---------------------------
(* Instances of UsmDispatch for TLC: the frames the network delivers. *)
EXTENDS UsmDispatch

Flags == SUBSET {"auth", "priv", "reportable"}

Undecodable ==
    [decodes |-> FALSE, usm |-> FALSE, auth_engine_id |-> "empty", user |-> FALSE,
     flags |-> {}, mac |-> FALSE, boots |-> 0, time |-> 0, encrypted |-> FALSE,
     salt |-> FALSE, opens |-> FALSE, context_engine_id |-> "mine",
     context_name |-> "default"]

\* Every combination of attributes, with a few time stamps; the attributes of
\* a ciphertext are fixed where there is none.
EveryFrame == {Undecodable} \cup
    {f \in [decodes : {TRUE}, usm : BOOLEAN,
            auth_engine_id : {"empty", "mine", "other"}, user : BOOLEAN,
            flags : Flags, mac : BOOLEAN, boots : {1}, time : {-1, 0, 1},
            encrypted : BOOLEAN, salt : BOOLEAN, opens : BOOLEAN,
            context_engine_id : {"mine", "other"},
            context_name : {"default", "named"}] :
        f.encrypted \/ (f.salt /\ f.opens)}

\* Frames of a manager that knows the user, with every time stamp, some of
\* them tampered with.
StampedFrames ==
    {f \in [decodes : {TRUE}, usm : {TRUE}, auth_engine_id : {"mine"}, user : {TRUE},
            flags : {{"reportable"}, {"auth", "reportable"}, {"auth", "priv", "reportable"}},
            mac : BOOLEAN, boots : -1..MaxBoots, time : -1..MaxInt,
            encrypted : BOOLEAN, salt : {TRUE}, opens : {TRUE},
            context_engine_id : {"mine"}, context_name : {"default"}] :
        f.encrypted = ("priv" \in f.flags)}

AllFrames == EveryFrame \cup StampedFrames
=============================================================================
