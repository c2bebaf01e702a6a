------------------------------ MODULE MCTraps ------------------------------
(* Two destinations; sizes and overheads are in arbitrary units around the *)
(* limit: size 2 does not fit once the message is encrypted.               *)
EXTENDS Traps

MCSendTo == {<<"d1", "d2">>}
MCOverhead == [noAuthNoPriv |-> 0, authNoPriv |-> 1, authPriv |-> 2]
=============================================================================
