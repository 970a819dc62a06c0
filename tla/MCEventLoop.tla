----------------------------- MODULE MCEventLoop -----------------------------
(* Symmetry for the runs of EventLoop.                                     *)
EXTENDS EventLoop, TLC

Symmetry == Permutations(Connections)
=============================================================================
