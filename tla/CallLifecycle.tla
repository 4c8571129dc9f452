---------------------------- MODULE CallLifecycle ----------------------------
(***************************************************************************)
(* One random call between two people, from the moment its row is created: *)
(* agreeing to more time, hanging up, being reported, dropping out and the *)
(* sweep of calls whose time ran out (random-call.service.ts).  Handlers   *)
(* run concurrently on any instance and interleave at every await; each    *)
(* database statement is atomic, a handler is not.                         *)
(***************************************************************************)
EXTENDS Integers, FiniteSets

CONSTANTS Side,          \* the two people in the call
          Proc,          \* handlers in flight
          CallTime,      \* CALL_SECONDS
          ExtendTime,    \* EXTEND_SECONDS
          MaxExtensions, \* MAX_EXTENSIONS
          Window,        \* extending opens this long before the end
          Slack,         \* the sweep waits this long after the end
          MaxTime,       \* bound on the clock, for model checking
          MaxAgrees,    \* bound on how often one person starts to agree
          MaxFails       \* bound on handlers that fail half way

ASSUME CallAssumption == /\ IsFiniteSet(Side) /\ Cardinality(Side) = 2
                         /\ IsFiniteSet(Proc) /\ Proc # {}
                         /\ CallTime \in Nat \ {0}
                         /\ ExtendTime \in Nat \ {0}
                         /\ {MaxExtensions, Window, Slack} \subseteq Nat
                         /\ {MaxTime, MaxAgrees, MaxFails} \subseteq Nat

VARIABLES now,      \* the clock
          call,     \* the RandomCall row
          settled,  \* settled[s]: how often s was paid, counted and told "ended"
          req,      \* req[p]: the state of handler p
          agrees,   \* ghost: agrees[s] counts how often s's agreement was sent
          fails     \* handlers that failed so far

vars == <<now, call, settled, req, agrees, fails>>

Reason == {"COMPLETED", "LEFT", "REPORTED", "DISCONNECTED"}
Open == "OPEN"     \* endedAt IS NULL

Row == [endsAt : Nat, extensions : Nat, agreed : SUBSET Side,
        ended : Reason \cup {Open}]

\* What a handler keeps between two awaits: the person or the reason it acts
\* for, the row as it last read it, and the people endCall has yet to settle.
Idle == [pc |-> "idle", side |-> {}, reason |-> Open, endsAt |-> 0,
         extensions |-> 0, left |-> {}]

Request == [pc : {"idle", "agree", "reread", "bump", "ending", "settling"},
            side : SUBSET Side, reason : Reason \cup {Open}, endsAt : Nat,
            extensions : Nat, left : SUBSET Side]

TypeOK == /\ now \in Nat
          /\ call \in Row
          /\ settled \in [Side -> Nat]
          /\ req \in [Proc -> Request]
          /\ agrees \in [Side -> Nat]
          /\ fails \in Nat

\* createCall has just inserted the row.
Init == /\ now = 0
        /\ call = [endsAt |-> CallTime, extensions |-> 0, agreed |-> {},
                   ended |-> Open]
        /\ settled = [s \in Side |-> 0]
        /\ req = [p \in Proc |-> Idle]
        /\ agrees = [s \in Side |-> 0]
        /\ fails = 0

IsOpen == call.ended = Open

Return(p) == req' = [req EXCEPT ![p] = Idle]

Tick == /\ now < MaxTime
        /\ now' = now + 1
        /\ UNCHANGED <<call, settled, req, agrees, fails>>

\* The database is unreachable, a listener throws, the instance stops.
Fail(p) == /\ fails < MaxFails
           /\ req[p].pc # "idle"
           /\ fails' = fails + 1
           /\ Return(p)
           /\ UNCHANGED <<now, call, settled, agrees>>

-----------------------------------------------------------------------------
(* requestExtend: read and check; agree; read again; add the time *)

\* Seeded bug: the limit is not checked.
BeginExtendAlways(p, s) ==
    /\ req[p].pc = "idle"
    /\ agrees[s] < MaxAgrees
    /\ IsOpen
    /\ call.endsAt - now <= Window
    /\ req' = [req EXCEPT ![p] = [Idle EXCEPT !.pc = "agree", !.side = {s}]]
    /\ UNCHANGED <<now, call, settled, agrees, fails>>
BeginExtend(p, s) ==
    /\ req[p].pc = "idle"
    /\ agrees[s] < MaxAgrees
    /\ IsOpen
    /\ call.extensions < MaxExtensions
    /\ call.endsAt - now <= Window
    /\ req' = [req EXCEPT ![p] = [Idle EXCEPT !.pc = "agree", !.side = {s}]]
    /\ UNCHANGED <<now, call, settled, agrees, fails>>

\* Seeded bug: the update does not check that the call is still on.
AgreeAnyway(p) ==
    /\ req[p].pc = "agree"
    /\ call' = [call EXCEPT !.agreed = @ \cup req[p].side]
    /\ req' = [req EXCEPT ![p].pc = "reread"]
    /\ agrees' = [t \in Side |-> agrees[t] + IF t \in req[p].side THEN 1 ELSE 0]
    /\ UNCHANGED <<now, settled, fails>>
Agree(p) ==
    /\ req[p].pc = "agree"
    /\ call' = IF IsOpen THEN [call EXCEPT !.agreed = @ \cup req[p].side]
                         ELSE call
    /\ req' = [req EXCEPT ![p].pc = "reread"]
    /\ agrees' = [t \in Side |-> agrees[t] + IF t \in req[p].side THEN 1 ELSE 0]
    /\ UNCHANGED <<now, settled, fails>>

Reread(p) ==
    /\ req[p].pc = "reread"
    /\ \/ /\ IsOpen
          /\ call.agreed = Side
          /\ req' = [req EXCEPT ![p].pc = "bump", ![p].endsAt = call.endsAt,
                                ![p].extensions = call.extensions]
       \/ /\ ~(IsOpen /\ call.agreed = Side)
          /\ Return(p)
    /\ UNCHANGED <<now, call, settled, agrees, fails>>

\* The conditional update that adds the time: nothing moved since the read.
\* Seeded bug: the number of extensions is not part of the condition.
SameAgreement(p) == IsOpen /\ call.agreed = Side
StillAsRead(p) == /\ IsOpen
                  /\ call.extensions = req[p].extensions
                  /\ call.agreed = Side

\* Seeded bugs: the two agreements are not used up; the count goes down.
ExtendedAndAgreed(p) == [call EXCEPT !.endsAt = req[p].endsAt + ExtendTime,
                                     !.extensions = @ + 1]
ExtendedDown(p) == [call EXCEPT !.endsAt = req[p].endsAt + ExtendTime,
                                !.extensions = @ - 1,
                                !.agreed = {}]
Extended(p) == [call EXCEPT !.endsAt = req[p].endsAt + ExtendTime,
                            !.extensions = @ + 1,
                            !.agreed = {}]

Bump(p) ==
    /\ req[p].pc = "bump"
    /\ call' = IF StillAsRead(p) THEN Extended(p) ELSE call
    /\ Return(p)
    /\ UNCHANGED <<now, settled, agrees, fails>>

-----------------------------------------------------------------------------
(* endCall and its callers *)

\* rc:end, block, report, a grace period that ran out, a restriction, tokens
\* that could not be handed out: each has the call's id and ends it.
BeginEnd(p, reason) ==
    /\ req[p].pc = "idle"
    /\ reason # "COMPLETED"
    /\ req' = [req EXCEPT ![p] = [Idle EXCEPT !.pc = "ending", !.reason = reason]]
    /\ UNCHANGED <<now, call, settled, agrees, fails>>

\* Seeded bug: the sweep only catches the very moment a call runs out.
OverdueNow == IsOpen /\ call.endsAt + Slack + 1 = now
Overdue == IsOpen /\ call.endsAt + Slack < now

\* endOverdueCalls: one query lists the overdue calls, then each is ended.
BeginSweep(p) ==
    /\ req[p].pc = "idle"
    /\ Overdue
    /\ req' = [req EXCEPT ![p] = [Idle EXCEPT !.pc = "ending", !.reason = "COMPLETED"]]
    /\ UNCHANGED <<now, call, settled, agrees, fails>>

\* Seeded bug: endCall goes on although someone else ended the call.
EndAgain(p) ==
    /\ req[p].pc = "ending"
    /\ call' = IF IsOpen THEN [call EXCEPT !.ended = req[p].reason] ELSE call
    /\ req' = [req EXCEPT ![p].pc = "settling", ![p].left = Side]
    /\ UNCHANGED <<now, settled, agrees, fails>>
End(p) ==
    /\ req[p].pc = "ending"
    /\ \/ /\ IsOpen
          /\ call' = [call EXCEPT !.ended = req[p].reason]
          /\ req' = [req EXCEPT ![p].pc = "settling", ![p].left = Side]
       \/ /\ ~IsOpen
          /\ Return(p)
          /\ UNCHANGED call
    /\ UNCHANGED <<now, settled, agrees, fails>>

\* Each person in turn: XP, rc:ended, and one more call in their profile.
Settle(p) ==
    /\ req[p].pc = "settling"
    /\ \/ \E s \in req[p].left :
             /\ settled' = [settled EXCEPT ![s] = @ + 1]
             /\ req' = [req EXCEPT ![p].left = @ \ {s}]
       \/ /\ req[p].left = {}
          /\ Return(p)
          /\ UNCHANGED settled
    /\ UNCHANGED <<now, call, agrees, fails>>

-----------------------------------------------------------------------------
Begin(p) == \/ \E s \in Side : BeginExtend(p, s)
            \/ \E reason \in Reason : BeginEnd(p, reason)

Step(p) == Agree(p) \/ Reread(p) \/ Bump(p) \/ End(p) \/ Settle(p)

Next == Tick \/ \E p \in Proc : Begin(p) \/ BeginSweep(p) \/ Step(p) \/ Fail(p)

Spec == Init /\ [][Next]_vars

\* Time passes, handlers that run keep running, and the matchmaking timer
\* keeps starting sweeps (every third tick of every instance).
LiveSpec == /\ Spec
            /\ WF_vars(Tick)
            /\ \A p \in Proc : WF_vars(Step(p)) /\ SF_vars(BeginSweep(p))

-----------------------------------------------------------------------------
(* Properties *)

\* However many handlers end the call at once, each person is paid, counted
\* and told once at most.
SettledOnce == \A s \in Side : settled[s] <= 1

\* No extension is lost and none is counted twice: the end of the call always
\* is the agreed time plus the extensions on record.
TimeMatchesExtensions == call.endsAt = CallTime + call.extensions * ExtendTime

\* Nobody is kept longer than they asked for: each extension took a new
\* agreement of each person.
AgreedEachTime == \A s \in Side : call.extensions <= agrees[s]

\* Nothing that is still under way changes a call that has ended.
EndedIsFinal == [][~IsOpen => UNCHANGED call]_vars

\* Every call ends, extended or not, even if whoever was ending it crashed.
CallsEnd == <>(~IsOpen)

\* The limit of extensions (random-call.service.spec.ts:289, 'allows only two
\* extensions') is checked on a read that is stale when the agreement is
\* written.  It is passed only by what is in flight then: each further extension
\* takes two agreements of handlers that had checked before.
ExtensionsNearlyBounded ==
    call.extensions <= MaxExtensions + (Cardinality(Proc) - 1) \div 2

\* The handlers, each of several statements, some of them stale and some cut
\* short, act on the call as one person after the other would: they implement
\* what the call promises.  So a promise may be broken by no interleaving of
\* requestExtend and endCall (random-call.service.ts:361-397, 447-494).
Promise == INSTANCE CallPromise
             WITH endsAt <- call.endsAt, extensions <- call.extensions,
                  agreed <- call.agreed, ended <- call.ended

CallKept == Promise!Spec

-----------------------------------------------------------------------------
(* The inductive invariant behind the safety properties *)

\* Nobody settles an open call; one handler at most settles an ended one, and
\* the people it has left were not settled before.
SettlesAlone ==
    /\ IsOpen => \A s \in Side : settled[s] = 0
    /\ \A p \in Proc : req[p].pc = "settling" => ~IsOpen
    /\ \A p, q \in Proc :
          req[p].pc = "settling" /\ req[q].pc = "settling" => p = q
    /\ \A p \in Proc : req[p].pc = "settling" =>
          \A s \in req[p].left : settled[s] = 0

\* Whoever ends the call has a reason to give.
EndsForReason == \A p \in Proc : req[p].pc = "ending" => req[p].reason # Open

\* An agreement on record is not yet used up by an extension.
AgreedAhead ==
    \A s \in Side :
        call.extensions + (IF s \in call.agreed THEN 1 ELSE 0) <= agrees[s]

\* What an extending handler read matched then, and goes together.
ReadMatches ==
    \A p \in Proc : req[p].pc = "bump" =>
        req[p].endsAt = CallTime + req[p].extensions * ExtendTime

\* Whoever has passed the check of the limit and has yet to agree acts for one
\* person.
Checked == {p \in Proc : req[p].pc = "agree"}

AgreesForOne == \A p \in Checked : \E s \in Side : req[p].side = {s}

\* Once the limit is reached the check lets nobody pass any more.  What a further
\* extension takes, two agreements, is on record by then or with a handler that
\* has passed; the handler that reached the limit is none of these.
OnlyInFlight ==
    call.extensions >= MaxExtensions =>
        2 * (call.extensions - MaxExtensions) + Cardinality(call.agreed)
            + Cardinality(Checked) <= Cardinality(Proc) - 1

LimitInv == TypeOK /\ AgreesForOne /\ OnlyInFlight

IInv == /\ TypeOK
        /\ EndsForReason
        /\ SettlesAlone
        /\ SettledOnce
        /\ AgreedAhead
        /\ ReadMatches
        /\ TimeMatchesExtensions
=============================================================================
