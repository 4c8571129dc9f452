------------------------------- MODULE MCMatch -------------------------------
(* Matchmaking on small instances.  With every pair of people suited, no    *)
(* action tells two people, instances, requests or calls apart.             *)
EXTENDS Matchmaking, TLC

Interchangeable == Permutations(User) \cup Permutations(Instance)
                     \cup Permutations(Proc) \cup Permutations(Call)
=============================================================================
