------------------------------- MODULE MCQuest -------------------------------
(* Quests on a small instance. *)
EXTENDS Quest, TLC

Symmetry == Permutations(CharUids) \cup Permutations(Quests)
=============================================================================
