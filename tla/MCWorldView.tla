----------------------------- MODULE MCWorldView -----------------------------
EXTENDS WorldView, TLC

MCStartPlaces == {1}

\* Nothing tells the accounts apart.
AccountSymmetry == Permutations(Accounts)
=============================================================================
