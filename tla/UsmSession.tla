----------------------------- MODULE UsmSession -----------------------------
(***************************************************************************)
(* A manager and the agent's USM pipeline (UsmDispatch) over a network     *)
(* that loses messages, while time passes and the agent restarts: engine   *)
(* discovery and time synchronisation (REQ-0080, REQ-0093, REQ-0098,       *)
(* REQ-0099) by Reports, and the request itself, retried until answered.   *)
(* The manager is external: it takes its notion of the engine's boots and  *)
(* time from the Report of each failed attempt, as net-snmp does.          *)
(***************************************************************************)
EXTENDS UsmDispatch

CONSTANTS
    Unknown,     \* the manager has no notion of the engine's boots and time
    NoAnswer     \* no answer is on its way

VARIABLES
    manager,     \* "waiting" for an answer, or "done"
    notion,      \* the engine's boots and time as the manager believes
    request,     \* where the request is: "none", "sent", "handled" by an event
    answer       \* the Report or response on its way, with its time stamp

sessionVars == <<manager, notion, request, answer>>

-----------------------------------------------------------------------------
(* What the manager sends: a probe, or the request at the agent's level.   *)

Probe ==
    [decodes |-> TRUE, usm |-> TRUE, auth_engine_id |-> "empty", user |-> FALSE,
     flags |-> {"reportable"}, mac |-> FALSE, boots |-> 0, time |-> 0, encrypted |-> FALSE,
     salt |-> TRUE, opens |-> TRUE, context_engine_id |-> "other", context_name |-> "default"]

LevelFlags(l) ==
    {"reportable"} \cup (IF l >= AuthNoPriv THEN {"auth"} ELSE {})
                   \cup (IF l = AuthPriv THEN {"priv"} ELSE {})

Stamped(l, boots, time) ==
    [decodes |-> TRUE, usm |-> TRUE, auth_engine_id |-> "mine", user |-> TRUE,
     flags |-> LevelFlags(l), mac |-> l >= AuthNoPriv, boots |-> boots, time |-> time,
     encrypted |-> l = AuthPriv, salt |-> TRUE, opens |-> TRUE,
     context_engine_id |-> "mine", context_name |-> "default"]

SessionFrames ==
    {Probe} \cup {Stamped(l, boots, time) : l \in Levels, boots \in 1..MaxBoots, time \in 0..MaxInt}

Send ==
    /\ manager = "waiting" /\ request = "none" /\ answer = NoAnswer
    /\ frame' = IF notion = Unknown THEN Probe ELSE Stamped(level, notion.boots, notion.time)
    /\ request' = "sent"
    /\ UNCHANGED <<level, engine_boots, clock, engine_time, counters, reply, first, last,
                   manager, notion, answer>>

\* The request reaches the agent, whose handler reads the time first.
Arrive ==
    /\ request = "sent"
    /\ HandleEvent
    /\ request' = "handled"
    /\ UNCHANGED <<manager, notion, answer>>

\* Faulty variant: Reports carry a time of zero.
StampOf_Zero(boots, time) == [boots |-> boots, time |-> 0]

\* The time stamp of a Report or response: the engine's boots and the time the
\* event's handler read (encode_v3_report, encode_v3_envelope).
StampOf(boots, time) == [boots |-> boots, time |-> time]

Process ==
    /\ request = "handled"
    /\ ProcessSnmpv3Request(frame)
    /\ request' = "none"
    /\ answer' = IF reply' = NoReply THEN NoAnswer
                 ELSE [reply |-> reply', stamp |-> StampOf(engine_boots, engine_time)]
    /\ UNCHANGED <<manager, notion>>

\* A Report brings the manager's notion of the engine up to date.
Receive ==
    /\ answer # NoAnswer
    /\ answer' = NoAnswer
    /\ IF answer.reply.type = "response"
       THEN manager' = "done" /\ UNCHANGED notion
       ELSE notion' = answer.stamp /\ UNCHANGED manager
    /\ UNCHANGED <<vars, request>>

\* A message is lost, or comes later than the manager waits for it.
LoseRequest ==
    /\ request = "sent"
    /\ request' = "none"
    /\ UNCHANGED <<vars, manager, notion, answer>>

LoseAnswer ==
    /\ answer # NoAnswer
    /\ answer' = NoAnswer
    /\ UNCHANGED <<vars, manager, notion, request>>

\* Both clocks advance.
TimePasses ==
    /\ Second
    /\ notion' = IF notion # Unknown /\ notion.time < MaxInt
                 THEN [notion EXCEPT !.time = @ + 1] ELSE notion
    /\ UNCHANGED <<manager, request, answer>>

\* A restart closes the connection and what is on it.
AgentRestarts ==
    /\ Restart
    /\ request' = "none" /\ answer' = NoAnswer
    /\ UNCHANGED <<manager, notion>>

SessionInit ==
    /\ Init
    /\ frame = Probe
    /\ manager = "waiting"
    /\ notion \in {Unknown} \cup [boots : 1..MaxBoots, time : 0..MaxInt]
    /\ request = "none"
    /\ answer = NoAnswer

\* The manager has its answer.
Finished == manager = "done" /\ UNCHANGED <<vars, sessionVars>>

SessionNext ==
    \/ Send \/ Arrive \/ Process \/ Receive
    \/ LoseRequest \/ LoseAnswer
    \/ TimePasses \/ AgentRestarts
    \/ Finished

\* The manager and the loop thread keep running; of messages sent again and
\* again some arrive.  Nothing is assumed of time and of restarts.
SessionSpec ==
    /\ SessionInit
    /\ [][SessionNext]_<<vars, sessionVars>>
    /\ WF_<<vars, sessionVars>>(Send)
    /\ WF_<<vars, sessionVars>>(Process)
    /\ SF_<<vars, sessionVars>>(Arrive)
    /\ SF_<<vars, sessionVars>>(Receive)

-----------------------------------------------------------------------------
(* Properties *)

\* The manager is served at every level, whatever it believes of the engine,
\* however many messages were lost and whenever the agent restarted in the
\* meantime: each Report leaves it with stamps the agent accepts once a round
\* trip fits the window.  The exceptions are an agent that keeps restarting,
\* and one whose time has outgrown the i32 it would have to encode it in.
ManagerServed ==
    \/ []<><<AgentRestarts>>_<<vars, sessionVars>>
    \/ <>(manager = "done" \/ clock > MaxInt)
=============================================================================
