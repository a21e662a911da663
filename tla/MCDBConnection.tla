---------------------------- MODULE MCDBConnection ----------------------------
(* The database connection on a small instance. *)
EXTENDS DBConnection
=============================================================================
