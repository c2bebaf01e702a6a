---------------------------- MODULE MibService ----------------------------
(***************************************************************************)
(* What the library promises to the threads that share an Agent handle     *)
(* (docs of Agent, src/lib.rs), without sockets, polls or wakeups: a set   *)
(* is accepted into one queue, accepted sets take effect one at a time in  *)
(* the order they were accepted, and the service stops only when nothing   *)
(* is left to apply.  Only a failure of poll() may leave accepted sets     *)
(* behind.                                                                 *)
(***************************************************************************)
EXTENDS Naturals, Sequences

CONSTANTS Oids, Values, NoValue

VARIABLES
    store,    \* the MIB: the current value of every object
    pending,  \* sets accepted and not yet applied, oldest first
    status    \* "running", "stopped" or "failed"

serviceVars == <<store, pending, status>>

Updates == [op : {"SetValue"}, oid : Oids, value : Values]

ServiceInit ==
    /\ store = [o \in Oids |-> NoValue]
    /\ pending = <<>>
    /\ status = "running"

Accept(u) ==
    /\ status = "running"
    /\ pending' = Append(pending, u)
    /\ UNCHANGED <<store, status>>

Apply ==
    /\ status = "running"
    /\ pending # <<>>
    /\ store' = [store EXCEPT ![Head(pending).oid] = Head(pending).value]
    /\ pending' = Tail(pending)
    /\ UNCHANGED status

Stop ==
    /\ status = "running"
    /\ pending = <<>>
    /\ status' = "stopped"
    /\ UNCHANGED <<store, pending>>

Fail ==
    /\ status = "running"
    /\ status' = "failed"
    /\ UNCHANGED <<store, pending>>

ServiceNext == (\E u \in Updates : Accept(u)) \/ Apply \/ Stop \/ Fail

ServiceSpec == ServiceInit /\ [][ServiceNext]_serviceVars
=============================================================================
