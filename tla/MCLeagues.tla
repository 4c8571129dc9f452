------------------------------ MODULE MCLeagues ------------------------------
(* Leagues on small instances.  No action tells two people, two handlers or  *)
(* two instances apart.                                                      *)
EXTENDS Leagues, TLC

Alike == Permutations(User) \cup Permutations(Joiner) \cup Permutations(Settler)
=============================================================================
