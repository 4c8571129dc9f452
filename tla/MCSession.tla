------------------------------ MODULE MCSession ------------------------------
(* SessionRotation on small instances.  No action tells two ids, families,  *)
(* requests or client contexts apart, so each of these sets is symmetric.   *)
EXTENDS SessionRotation, TLC

Interchangeable == Permutations(Sid) \cup Permutations(Family)
                     \cup Permutations(Proc) \cup Permutations(Ctx)
=============================================================================
