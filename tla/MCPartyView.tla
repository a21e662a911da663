----------------------------- MODULE MCPartyView -----------------------------
(* Each player has a character of its own. *)
EXTENDS PartyView

Symmetry == Permutations(CharUids)

\* States in which a session came to be listed twice are not followed further.
ListedOnce == ~mixed
=============================================================================
