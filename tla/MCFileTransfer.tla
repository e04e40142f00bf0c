--------------------------- MODULE MCFileTransfer ---------------------------
(* Bounds for FileTransfer: two names, so that a rename has where to go; a *)
(* piece of five holds the header, one byte and the boundary; a file of    *)
(* six needs more than one piece.  Two requests and one kind of mishap.    *)
EXTENDS FileTransfer
=============================================================================
