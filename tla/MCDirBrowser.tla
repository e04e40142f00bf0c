----------------------------- MODULE MCDirBrowser ----------------------------
(* DirBrowser for TLC.                                                     *)
EXTENDS DirBrowser

(* A root directory, a subdirectory with the board's own "..", and a       *)
(* directory with nothing in it.                                           *)
MCListings == <<<<"file", "dir">>, <<"up", "file", "file">>, <<>>>>
=============================================================================
