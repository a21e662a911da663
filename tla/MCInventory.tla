----------------------------- MODULE MCInventory -----------------------------
(* Items on a small instance. *)
EXTENDS Inventory

\* The name of a player decides nothing about its items: logins whose statement
\* for the name fails are not followed further.
NameLoaded == \A s \in SessionId : name[s] = charUid[s]
=============================================================================
