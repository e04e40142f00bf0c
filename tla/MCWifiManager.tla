---------------------------- MODULE MCWifiManager ----------------------------
(* Bounds for WifiManager: one network, asked for with its password and    *)
(* without; three requests, one retry, one power failure.  A second one,   *)
(* for the migration, is what another blob may name.                       *)
EXTENDS WifiManager
=============================================================================
