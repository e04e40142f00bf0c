-------------------------- MODULE MCFirmwareUpdate --------------------------
(* Bounds for FirmwareUpdate: two chunks, so that one may be in flash and  *)
(* the other missing; two tries of a chunk; two sessions, so that one may  *)
(* begin over the other.                                                   *)
EXTENDS FirmwareUpdate

MCProducts == {<<"bluescsi", {"panel"}>>, <<"bluescsi", {"main"}>>,
               <<"picoide", {"panel", "main"}>>}
=============================================================================
