------------------------------- MODULE MCParty -------------------------------
(* The party system on a small instance. *)
EXTENDS Party, TLC

Symmetry == Permutations(CharUids)
=============================================================================
