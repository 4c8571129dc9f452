---------------------------- MODULE LoginFamilies ----------------------------
(***************************************************************************)
(* What the authentication service promises about a login, without rows,   *)
(* locks, clocks or requests: a login (a token family) begins once, is     *)
(* renewed with fresh tokens while it is live, and once it has ended it    *)
(* never mints another token and never comes back.                         *)
(***************************************************************************)
CONSTANTS Family, Token

VARIABLES status,   \* status[f]: has the login begun, is it live, has it ended
          minted    \* minted[f]: every refresh token ever issued in f

vars == <<status, minted>>

Status == {"unused", "live", "ended"}

Used == UNION {minted[f] : f \in Family}

TypeOK == /\ status \in [Family -> Status]
          /\ minted \in [Family -> SUBSET Token]

Init == /\ status = [f \in Family |-> "unused"]
        /\ minted = [f \in Family |-> {}]

Begin(f, t) == /\ status[f] = "unused"
               /\ t \in Token \ Used
               /\ status' = [status EXCEPT ![f] = "live"]
               /\ minted' = [minted EXCEPT ![f] = {t}]

Renew(f, t) == /\ status[f] = "live"
               /\ t \in Token \ Used
               /\ minted' = [minted EXCEPT ![f] = @ \cup {t}]
               /\ UNCHANGED status

\* Several logins may end in one step: a sweep or a deleted account.
End(F) == /\ F \subseteq {f \in Family : status[f] = "live"}
          /\ F # {}
          /\ status' = [f \in Family |-> IF f \in F THEN "ended" ELSE status[f]]
          /\ UNCHANGED minted

Next == \/ \E f \in Family, t \in Token : Begin(f, t) \/ Renew(f, t)
        \/ \E F \in SUBSET Family : End(F)

Spec == Init /\ [][Next]_vars
=============================================================================
