----------------------------- MODULE CallPromise -----------------------------
(***************************************************************************)
(* What a random call promises the two people in it, without handlers,     *)
(* stale reads or failures: each agrees to more time for themselves, an    *)
(* extension takes both agreements and uses them up, the call ends once    *)
(* and for one reason, and then each is paid, counted and told once.       *)
(***************************************************************************)
EXTENDS Naturals

CONSTANTS Side, CallTime, ExtendTime, Reason, Open

VARIABLES endsAt,      \* when the call is over
          extensions,  \* how often it was extended
          agreed,      \* who wants more time
          ended,       \* Open, or the reason it ended for
          settled      \* settled[s]: how often s was paid, counted and told

vars == <<endsAt, extensions, agreed, ended, settled>>

Init == /\ endsAt = CallTime
        /\ extensions = 0
        /\ agreed = {}
        /\ ended = Open
        /\ settled = [s \in Side |-> 0]

Agree(s) == /\ ended = Open
            /\ agreed' = agreed \cup {s}
            /\ UNCHANGED <<endsAt, extensions, ended, settled>>

Extend == /\ ended = Open
          /\ agreed = Side
          /\ endsAt' = endsAt + ExtendTime
          /\ extensions' = extensions + 1
          /\ agreed' = {}
          /\ UNCHANGED <<ended, settled>>

End(reason) == /\ ended = Open
               /\ ended' = reason
               /\ UNCHANGED <<endsAt, extensions, agreed, settled>>

Settle(s) == /\ ended # Open
             /\ settled[s] = 0
             /\ settled' = [settled EXCEPT ![s] = 1]
             /\ UNCHANGED <<endsAt, extensions, agreed, ended>>

Next == \/ \E s \in Side : Agree(s) \/ Settle(s)
        \/ Extend
        \/ \E reason \in Reason : End(reason)

Spec == Init /\ [][Next]_vars
=============================================================================
