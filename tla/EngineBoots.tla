---------------------------- MODULE EngineBoots ----------------------------
(***************************************************************************)
(* The start-up of an agent with a USM user: initialise_engine_boots over  *)
(* FileEngineBootsStore (src/usm/boots.rs), as AgentBuilder::build         *)
(* (src/lib.rs) runs it before it binds the sockets and spawns the loop.   *)
(* The file system is modelled by what survives a power loss: the data of  *)
(* a file not synced may be torn, and a rename may be undone until its     *)
(* directory is synced.  Process crashes, power losses and I/O errors can  *)
(* strike between any two system calls.                                    *)
(***************************************************************************)
EXTENDS Naturals

CONSTANTS
    EngineIds,   \* engine IDs the embedder may configure
    MaxBoots,    \* MAX_ENGINE_BOOTS (2^31 - 1 in the code)
    NoFile,      \* the path names no file
    Torn         \* a file whose content is not a whole record

Record(id, n) == [engine_id |-> id, boots |-> n]
Records == [engine_id : EngineIds, boots : 1..MaxBoots]

ASSUME BootsAssumption ==
    /\ MaxBoots \in Nat \ {0}
    /\ NoFile \notin Records
    /\ Torn \notin Records
    /\ NoFile # Torn

VARIABLES
    pc,           \* where the start-up is; "down": no process
    engine_id,    \* the engine ID configured for this incarnation
    boots,        \* new_boots
    path,         \* content of the boots file, as a running process reads it
    survivors,    \* contents the file may have after a power loss
    tmp,          \* content of the temporary file
    tmp_synced,   \* its data is on disk
    served        \* history: the largest boots value this engine ID served
                  \* under since it was configured, 0 if none

vars == <<pc, engine_id, boots, path, survivors, tmp, tmp_synced, served>>
diskVars == <<path, survivors, tmp, tmp_synced>>

Init ==
    /\ pc = "down"
    /\ engine_id \in EngineIds
    /\ boots = 0
    /\ path = NoFile
    /\ survivors = {NoFile}
    /\ tmp = NoFile
    /\ tmp_synced = FALSE
    /\ served = 0

-----------------------------------------------------------------------------

\* AgentBuilder::build is called, under the same engine ID or another one.
Build(id) ==
    /\ pc = "down"
    /\ pc' = "load"
    /\ engine_id' = id
    /\ boots' = 0
    /\ served' = IF id = engine_id THEN served ELSE 0
    /\ UNCHANGED diskVars

(* initialise_engine_boots: load() and the counter logic. *)

SameEngine == path \in Records /\ path.engine_id = engine_id

\* No state yet, or that of another engine ID: start at 1.
FirstBoot ==
    /\ pc = "load"
    /\ path # Torn
    /\ ~SameEngine
    /\ boots' = 1
    /\ pc' = "create"
    /\ UNCHANGED <<engine_id, diskVars, served>>

\* Faulty variant: no increment.
NextBoot_Same ==
    /\ pc = "load"
    /\ SameEngine
    /\ path.boots < MaxBoots
    /\ boots' = path.boots
    /\ pc' = "create"
    /\ UNCHANGED <<engine_id, diskVars, served>>

NextBoot ==
    /\ pc = "load"
    /\ SameEngine
    /\ path.boots < MaxBoots
    /\ boots' = path.boots + 1
    /\ pc' = "create"
    /\ UNCHANGED <<engine_id, diskVars, served>>

\* InitBootsError::BootsAtCeiling: build returns an error.
AtCeiling ==
    /\ pc = "load"
    /\ SameEngine
    /\ path.boots >= MaxBoots
    /\ pc' = "down"
    /\ UNCHANGED <<engine_id, boots, diskVars, served>>

(* FileEngineBootsStore::save, one action per system call. *)

\* File::create truncates what an interrupted save left.
CreateTmp ==
    /\ pc = "create"
    /\ tmp' = Torn
    /\ tmp_synced' = FALSE
    /\ pc' = "write"
    /\ UNCHANGED <<engine_id, boots, path, survivors, served>>

WriteTmp ==
    /\ pc = "write"
    /\ tmp' = Record(engine_id, boots)
    /\ pc' = "sync"
    /\ UNCHANGED <<engine_id, boots, path, survivors, tmp_synced, served>>

\* Faulty variant: the data is flushed to the kernel but not synced.
SyncTmp_Skipped ==
    /\ pc = "sync"
    /\ pc' = "rename"
    /\ UNCHANGED <<engine_id, boots, diskVars, served>>

SyncTmp ==
    /\ pc = "sync"
    /\ tmp_synced' = TRUE
    /\ pc' = "rename"
    /\ UNCHANGED <<engine_id, boots, path, survivors, tmp, served>>

\* What a power loss leaves of a file written with content c.
Remains(c, synced) == IF synced THEN {c} ELSE {c, Torn}

RenameTmp ==
    /\ pc = "rename"
    /\ path' = tmp
    /\ survivors' = survivors \cup Remains(tmp, tmp_synced)
    /\ pc' = "syncdir"
    /\ UNCHANGED <<engine_id, boots, tmp, tmp_synced, served>>

SyncDir ==
    /\ pc = "syncdir"
    /\ survivors' = Remains(path, tmp_synced)
    /\ pc' = "launch"
    /\ UNCHANGED <<engine_id, boots, path, tmp, tmp_synced, served>>

\* EventLoop::new, TrapSender::new and the spawn succeed: messages are
\* served under `boots' from here on.
Launch ==
    /\ pc = "launch"
    /\ pc' = "serving"
    /\ served' = boots
    /\ UNCHANGED <<engine_id, boots, diskVars>>

-----------------------------------------------------------------------------

\* A system call of the start-up fails and build returns the error.
StartupFails ==
    /\ pc \notin {"down", "serving"}
    /\ pc' = "down"
    /\ UNCHANGED <<engine_id, boots, diskVars, served>>

\* The agent is dropped, or its process dies.
Stop ==
    /\ pc = "serving"
    /\ pc' = "down"
    /\ UNCHANGED <<engine_id, boots, diskVars, served>>

\* Power is lost: the file is what the disk kept.
PowerLoss ==
    /\ pc' = "down"
    /\ path' \in survivors
    /\ survivors' = {path'}
    /\ tmp' = Torn
    /\ tmp_synced' = FALSE
    /\ UNCHANGED <<engine_id, boots, served>>

Next ==
    \/ \E id \in EngineIds : Build(id)
    \/ FirstBoot \/ NextBoot \/ AtCeiling
    \/ CreateTmp \/ WriteTmp \/ SyncTmp \/ RenameTmp \/ SyncDir
    \/ Launch
    \/ StartupFails \/ Stop \/ PowerLoss

Spec == Init /\ [][Next]_vars

-----------------------------------------------------------------------------
(* Properties *)

\* Every variable stays in its type; boots never exceeds the ceiling, so
\* new_boots never overflows the INTEGER it is encoded in.
TypeOK ==
    /\ pc \in {"down", "load", "create", "write", "sync", "rename", "syncdir",
               "launch", "serving"}
    /\ engine_id \in EngineIds
    /\ boots \in 0..MaxBoots
    /\ path \in Records \cup {NoFile, Torn}
    /\ survivors \subseteq Records \cup {NoFile, Torn}
    /\ tmp \in Records \cup {NoFile, Torn}
    /\ tmp_synced \in BOOLEAN
    /\ served \in 0..MaxBoots

\* A power loss at any moment leaves a file load() can parse: the agent is
\* never locked out by its own interrupted save (REQ-0096).
NeverTorn == path # Torn /\ Torn \notin survivors

\* While messages are served, the boots value they are served under is what
\* every power loss would leave on disk.
EpochDurable ==
    pc = "serving" => survivors = {Record(engine_id, boots)}

\* The engine's counter implements EngineEpochs: boots values of successive
\* serving incarnations of one engine ID increase strictly, whatever crashes
\* and failed start-ups lie between them.
Epochs == INSTANCE EngineEpochs WITH
    id <- engine_id, epoch <- served, up <- (pc = "serving")
ImplementsEpochs == Epochs!Spec
=============================================================================
