---------------------------- MODULE MCNewsRefresh ----------------------------
(* Small instances of NewsRefresh, up to the names of replicas and accounts. *)
EXTENDS NewsRefresh, TLC

Symmetry == Permutations(Replicas) \cup Permutations(Accounts)
=============================================================================
