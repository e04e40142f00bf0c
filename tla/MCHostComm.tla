----------------------------- MODULE MCHostComm ------------------------------
(* HostComm for TLC: two tasks that differ in nothing.                     *)
EXTENDS HostComm

TaskSymmetry == Permutations(Tasks)
=============================================================================
