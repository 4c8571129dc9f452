------------------------------ MODULE MCRewards ------------------------------
(* PracticeRewards on small instances.  No action tells two handlers, or two *)
(* quests, apart.                                                            *)
EXTENDS PracticeRewards, TLC

Alike == Permutations(Proc)
Interchangeable == Alike \cup Permutations(Quest)
=============================================================================
