------------------------------ MODULE MCBilling ------------------------------
(* AiPartner on small instances: a month is one day long, a year two.        *)
EXTENDS AiPartner, TLC

Periods == [i \in Interval |-> IF i = "YEARLY" THEN 2 ELSE 1]
Alike == Permutations(Payment) \cup Permutations(Talker)
=============================================================================
