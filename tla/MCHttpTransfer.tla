--------------------------- MODULE MCHttpTransfer ---------------------------
(* The HTTP measurement in a standalone process, and in a parent with two  *)
(* children.                                                               *)
EXTENDS HttpTransfer

MCNumTransfers == 2

=============================================================================
