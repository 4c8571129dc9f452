-------------------------------- MODULE MCCall --------------------------------
(* CallLifecycle on small instances.  No action tells the two people, or two *)
(* handlers, apart.                                                          *)
EXTENDS CallLifecycle, TLC

Interchangeable == Permutations(Side) \cup Permutations(Proc)
=============================================================================
