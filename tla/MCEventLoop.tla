---------------------------- MODULE MCEventLoop ----------------------------
(* Instances of the event loop without an application, for TLC: clients are *)
(* interchangeable, so safety runs may use symmetry.                        *)
EXTENDS EventLoop, TLC

ClientSymmetry == Permutations(Clients)
=============================================================================
