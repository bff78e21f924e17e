--------------------------- MODULE MCRequestPath ---------------------------
(* A small instance of RequestPath for TLC.                                *)
EXTENDS RequestPath
=============================================================================
