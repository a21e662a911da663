------------------------------- MODULE MCCombat -------------------------------
(* Combat and rewards on a small instance. *)
EXTENDS Combat
=============================================================================
