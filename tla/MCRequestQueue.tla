--------------------------- MODULE MCRequestQueue ---------------------------
(* An instance of RequestQueue for TLC. *)
EXTENDS RequestQueue
CONSTANTS column, file
=============================================================================
