------------------------------ MODULE MCAccess ------------------------------
(* Access for TLC: one user, for whom two keys of one name are created.    *)
EXTENDS Access, TLC

MCOwner == [k \in Keys |-> CHOOSE u \in Users : TRUE]
MCName == [k \in Keys |-> "name"]

(* No definition tells one handler, request or key from another.           *)
Alike == Permutations(Handlers) \union Permutations(Requests) \union Permutations(Keys)
=============================================================================
