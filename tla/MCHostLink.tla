----------------------------- MODULE MCHostLink ------------------------------
(* HostLink for TLC: the window of detection scaled to six tries, the      *)
(* backoff with the times of the code up to its third step.                *)
EXTENDS HostLink

MCWindow == 3000
MCExclusive == 1500
MCRetry == 500
MCMin == 1000
MCMax == 3000
=============================================================================
