------------------------------ MODULE MCAccount ------------------------------
(* Accounts and attendance on a small instance: two texts for one account. *)
EXTENDS Account, TLC

MCChannelId == ("7" :> 7) @@ ("07" :> 7) @@ ("8" :> 8)
Symmetry == Permutations(Names)

\* Bound: two days booked by one character, or one each by two, and then a third.
FewBookings == Cardinality(attendance) <= 2
=============================================================================
