---------------------------- MODULE MCDisplayPower ----------------------------
(* Bounds for DisplayPower: both kinds of idle mode, timeouts of a few     *)
(* ticks with and without Never.                                           *)
EXTENDS DisplayPower
=============================================================================
