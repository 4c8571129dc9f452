------------------------- MODULE CallLifecycle_proofs -------------------------
(***************************************************************************)
(* Proofs about CallLifecycle, for any number of handlers, any call and    *)
(* extension length and any interleaving.                                  *)
(***************************************************************************)
EXTENDS CallLifecycle, FiniteSetTheorems, TLAPS

USE DEF Open, Reason

LEMMA InitInv == Init => IInv
<1> SUFFICES ASSUME Init PROVE IInv
  OBVIOUS
<1>1. TypeOK
  BY CallAssumption DEF Init, TypeOK, Row, Idle, Request
<1>2. EndsForReason /\ SettlesAlone /\ SettledOnce /\ AgreedAhead /\ ReadMatches
  BY DEF Init, EndsForReason, SettlesAlone, SettledOnce, AgreedAhead, ReadMatches, Idle
<1>3. TimeMatchesExtensions
  BY CallAssumption DEF Init, TimeMatchesExtensions
<1>4. QED
  BY <1>1, <1>2, <1>3 DEF IInv

\* A handler that answers, fails or waits for its next statement leaves the
\* call to the others.
LEMMA QuietStep ==
  ASSUME IInv, UNCHANGED <<call, settled, agrees>>,
         now' \in Nat, fails' \in Nat,
         NEW p \in Proc, NEW r \in Request, req' = [req EXCEPT ![p] = r],
         r.pc # "settling",
         r.pc = "ending" => r.reason # Open,
         r.pc = "bump" => r.endsAt = CallTime + r.extensions * ExtendTime
  PROVE  IInv'
<1>1. TypeOK'
  BY DEF IInv, TypeOK
<1>2. \A q \in Proc : req'[q] = IF q = p THEN r ELSE req[q]
  BY DEF IInv, TypeOK
<1>3. SettlesAlone' /\ EndsForReason'
  BY <1>2 DEF IInv, SettlesAlone, EndsForReason, IsOpen
<1>4. ReadMatches'
  BY <1>2 DEF IInv, ReadMatches
<1>5. SettledOnce' /\ AgreedAhead' /\ TimeMatchesExtensions'
  BY DEF IInv, SettledOnce, AgreedAhead, TimeMatchesExtensions
<1>6. QED
  BY <1>1, <1>3, <1>4, <1>5 DEF IInv

LEMMA IdleRequest == Idle \in Request
BY DEF Idle, Request

LEMMA TickInv == IInv /\ Tick => IInv'
BY DEF IInv, Tick, TypeOK, EndsForReason, SettlesAlone, SettledOnce, AgreedAhead, ReadMatches,
       TimeMatchesExtensions, IsOpen

LEMMA BeginInv ==
  ASSUME IInv, NEW p \in Proc, Begin(p) \/ BeginSweep(p) \/ Fail(p)
  PROVE  IInv'
<1>0. now \in Nat /\ fails \in Nat /\ req \in [Proc -> Request]
  BY DEF IInv, TypeOK
<1>1. ASSUME NEW s \in Side, BeginExtend(p, s) PROVE IInv'
  <2> DEFINE r == [Idle EXCEPT !.pc = "agree", !.side = {s}]
  <2>1. r \in Request /\ r.pc = "agree"
    BY DEF Idle, Request
  <2>2. req' = [req EXCEPT ![p] = r] /\ UNCHANGED <<now, call, settled, agrees, fails>>
    BY <1>1 DEF BeginExtend
  <2> HIDE DEF r
  <2>3. QED
    BY <1>0, <2>1, <2>2, QuietStep
<1>2. ASSUME NEW reason \in Reason,
             req' = [req EXCEPT ![p] = [Idle EXCEPT !.pc = "ending", !.reason = reason]],
             UNCHANGED <<now, call, settled, agrees, fails>>
      PROVE  IInv'
  <2> DEFINE r == [Idle EXCEPT !.pc = "ending", !.reason = reason]
  <2>1. r \in Request /\ r.pc = "ending" /\ r.reason # Open
    BY DEF Idle, Request
  <2>2. req' = [req EXCEPT ![p] = r]
    BY <1>2
  <2> HIDE DEF r
  <2>3. QED
    BY <1>0, <1>2, <2>1, <2>2, QuietStep
<1>3. CASE Fail(p)
  <2>1. Idle \in Request /\ Idle.pc = "idle"
    BY IdleRequest DEF Idle
  <2>2. /\ fails' \in Nat /\ now' \in Nat
        /\ req' = [req EXCEPT ![p] = Idle] /\ UNCHANGED <<call, settled, agrees>>
    BY <1>0, <1>3 DEF Fail, Return
  <2>3. QED
    BY <1>0, <2>1, <2>2, QuietStep
<1>4. ASSUME NEW reason \in Reason, BeginEnd(p, reason) PROVE IInv'
  BY <1>2, <1>4 DEF BeginEnd
<1>5. CASE BeginSweep(p)
  BY <1>2, <1>5 DEF BeginSweep
<1>6. QED
  BY <1>1, <1>3, <1>4, <1>5 DEF Begin

\* Agreeing: the flag and the count of agreements grow together.
LEMMA AgreeInv ==
  ASSUME IInv, NEW p \in Proc, Agree(p)
  PROVE  IInv'
<1>0. /\ req \in [Proc -> Request] /\ req[p] \in Request /\ call \in Row
      /\ settled \in [Side -> Nat] /\ agrees \in [Side -> Nat]
  BY DEF IInv, TypeOK
<1>1. /\ call' \in Row
      /\ call'.endsAt = call.endsAt /\ call'.extensions = call.extensions
      /\ call'.ended = call.ended
      /\ call'.agreed \subseteq call.agreed \cup req[p].side
  BY <1>0 DEF Agree, Row, Request
<1>2. \A q \in Proc : /\ req'[q].pc = IF q = p THEN "reread" ELSE req[q].pc
                      /\ q # p => req'[q] = req[q]
  BY <1>0 DEF Agree, Request
<1>3. \A s \in Side : /\ agrees'[s] \in Nat
                      /\ agrees'[s] = agrees[s] + IF s \in req[p].side THEN 1 ELSE 0
  BY <1>0 DEF Agree
<1>4. TypeOK'
  BY <1>0, <1>1 DEF IInv, TypeOK, Agree, Request
<1>5. EndsForReason' /\ SettlesAlone' /\ SettledOnce'
  BY <1>1, <1>2 DEF IInv, EndsForReason, SettlesAlone, SettledOnce, IsOpen, Agree
<1>6. AgreedAhead'
  BY <1>0, <1>1, <1>3 DEF IInv, AgreedAhead, Row
<1>7. ReadMatches' /\ TimeMatchesExtensions'
  BY <1>1, <1>2 DEF IInv, ReadMatches, TimeMatchesExtensions
<1>8. QED
  BY <1>4, <1>5, <1>6, <1>7 DEF IInv

LEMMA RereadInv ==
  ASSUME IInv, NEW p \in Proc, Reread(p)
  PROVE  IInv'
<1>0. /\ now \in Nat /\ fails \in Nat /\ req \in [Proc -> Request]
      /\ req[p] \in Request /\ call \in Row
  BY DEF IInv, TypeOK
<1>1. CASE Return(p)
  BY <1>0, <1>1, IdleRequest, QuietStep DEF Reread, Return, Idle
<1>2. CASE ~Return(p)
  <2> DEFINE r == [req[p] EXCEPT !.pc = "bump", !.endsAt = call.endsAt,
                                 !.extensions = call.extensions]
  <2>1. r \in Request /\ r.pc = "bump" /\ r.endsAt = call.endsAt
        /\ r.extensions = call.extensions
    BY <1>0 DEF Request, Row
  <2>2. req' = [req EXCEPT ![p] = r] /\ UNCHANGED <<now, call, settled, agrees, fails>>
    BY <1>0, <1>2 DEF Reread, Request
  <2>3. call.endsAt = CallTime + call.extensions * ExtendTime
    BY DEF IInv, TimeMatchesExtensions
  <2> HIDE DEF r
  <2>4. QED
    BY <1>0, <2>1, <2>2, <2>3, QuietStep
<1>3. QED
  BY <1>1, <1>2

\* The bump: what was read is what the row still holds, so one extension is
\* added on either side of the equation, and both agreements are used up.
LEMMA BumpInv ==
  ASSUME IInv, NEW p \in Proc, Bump(p)
  PROVE  IInv'
<1>0. /\ now \in Nat /\ fails \in Nat /\ req \in [Proc -> Request]
      /\ req[p] \in Request /\ call \in Row /\ agrees \in [Side -> Nat]
      /\ CallTime \in Nat /\ ExtendTime \in Nat
  BY CallAssumption DEF IInv, TypeOK
<1>1. CASE ~StillAsRead(p)
  BY <1>0, <1>1, IdleRequest, QuietStep DEF Bump, Return, Idle
<1>2. CASE StillAsRead(p)
  <2>1. /\ call.agreed = Side /\ call.extensions = req[p].extensions
        /\ call' = Extended(p) /\ IsOpen
    BY <1>2 DEF Bump, StillAsRead
  <2>a. /\ req[p].endsAt + ExtendTime \in Nat
        /\ call.extensions + 1 \in Nat
    BY <1>0 DEF Row, Request
  <2>b. call' = [call EXCEPT !.endsAt = req[p].endsAt + ExtendTime,
                             !.extensions = call.extensions + 1,
                             !.agreed = {}]
    BY <2>1 DEF Extended
  <2>2. /\ call' \in Row /\ call'.agreed = {} /\ call'.ended = call.ended
        /\ call'.extensions = call.extensions + 1
        /\ call'.endsAt = req[p].endsAt + ExtendTime
    BY <1>0, <2>a, <2>b DEF Row
  <2>3. \A q \in Proc : req'[q] = IF q = p THEN Idle ELSE req[q]
    BY <1>0 DEF Bump, Return
  <2>4. TypeOK'
    BY <1>0, <2>2, IdleRequest DEF IInv, TypeOK, Bump, Return
  <2>5. EndsForReason' /\ SettlesAlone' /\ SettledOnce'
    BY <2>2, <2>3 DEF IInv, EndsForReason, SettlesAlone, SettledOnce, IsOpen, Bump, Idle
  <2>6. AgreedAhead'
    BY <1>0, <2>1, <2>2 DEF IInv, AgreedAhead, Bump, Row
  <2>7. ReadMatches'
    BY <2>3 DEF IInv, ReadMatches, Idle
  <2>8. TimeMatchesExtensions'
    <3>1. req[p].endsAt = CallTime + call.extensions * ExtendTime
      BY <2>1 DEF IInv, ReadMatches, Bump
    <3>2. call.extensions \in Nat
      BY <1>0 DEF Row
    <3>3. (call.extensions + 1) * ExtendTime = call.extensions * ExtendTime + ExtendTime
      BY <1>0, <3>2
    <3>4. call.extensions * ExtendTime \in Nat
      BY <1>0, <3>2
    <3>5. QED
      BY <1>0, <2>2, <3>1, <3>3, <3>4 DEF TimeMatchesExtensions
  <2>9. QED
    BY <2>4, <2>5, <2>6, <2>7, <2>8 DEF IInv
<1>3. QED
  BY <1>1, <1>2

\* Only the handler that closed the row settles, and an open row has nobody
\* settling.
LEMMA EndInv ==
  ASSUME IInv, NEW p \in Proc, End(p)
  PROVE  IInv'
<1>0. /\ now \in Nat /\ fails \in Nat /\ req \in [Proc -> Request]
      /\ req[p] \in Request /\ call \in Row
  BY DEF IInv, TypeOK
<1>1. CASE ~IsOpen
  BY <1>0, <1>1, IdleRequest, QuietStep DEF End, Return, Idle
<1>2. CASE IsOpen
  <2>1. /\ call' = [call EXCEPT !.ended = req[p].reason]
        /\ req' = [req EXCEPT ![p].pc = "settling", ![p].left = Side]
        /\ UNCHANGED <<now, settled, agrees, fails>>
    BY <1>2 DEF End
  <2>2. /\ call' \in Row /\ call'.agreed = call.agreed
        /\ call'.extensions = call.extensions /\ call'.endsAt = call.endsAt
    BY <1>0, <2>1 DEF Row, Request
  <2>3. \A q \in Proc : q # p => req'[q] = req[q] /\ req[q].pc # "settling"
    BY <1>0, <1>2, <2>1 DEF IInv, SettlesAlone
  <2>4. req'[p].pc = "settling" /\ req'[p].left = Side
    BY <1>0, <2>1 DEF Request
  <2>5. /\ call'.ended = req[p].reason /\ call'.ended # Open
        /\ \A s \in Side : settled'[s] = 0
    BY <1>0, <1>2, <2>1 DEF IInv, EndsForReason, SettlesAlone, Row, End
  <2>6. TypeOK'
    BY <1>0, <2>1, <2>2 DEF IInv, TypeOK, Request
  <2>7. EndsForReason' /\ SettlesAlone' /\ SettledOnce'
    BY <2>3, <2>4, <2>5 DEF IInv, EndsForReason, SettlesAlone, SettledOnce, IsOpen
  <2>8. ReadMatches'
    BY <2>3, <2>4 DEF IInv, ReadMatches
  <2>9. AgreedAhead' /\ TimeMatchesExtensions'
    BY <2>1, <2>2 DEF IInv, AgreedAhead, TimeMatchesExtensions
  <2>10. QED
    BY <2>6, <2>7, <2>8, <2>9 DEF IInv
<1>3. QED
  BY <1>1, <1>2

LEMMA SettleInv ==
  ASSUME IInv, NEW p \in Proc, Settle(p)
  PROVE  IInv'
<1>0. /\ now \in Nat /\ fails \in Nat /\ req \in [Proc -> Request]
      /\ req[p] \in Request /\ req[p].pc = "settling" /\ settled \in [Side -> Nat]
  BY DEF IInv, TypeOK, Settle
<1>1. CASE Return(p) /\ UNCHANGED settled
  BY <1>0, <1>1, IdleRequest, QuietStep DEF Settle, Return, Idle
<1>2. ASSUME NEW s \in req[p].left,
             settled' = [settled EXCEPT ![s] = @ + 1],
             req' = [req EXCEPT ![p].left = @ \ {s}]
      PROVE  IInv'
  <2>1. UNCHANGED <<now, call, agrees, fails>> /\ s \in Side
    BY <1>0 DEF Settle, Request
  <2>2. /\ \A q \in Proc \ {p} : req'[q] = req[q] /\ req[q].pc # "settling"
        /\ req'[p].pc = "settling" /\ req'[p].left = req[p].left \ {s}
    BY <1>0, <1>2 DEF IInv, SettlesAlone, Request
  <2>3. settled[s] = 0 /\ settled'[s] = 1 /\ \A t \in Side \ {s} : settled'[t] = settled[t]
    BY <1>0, <1>2, <2>1 DEF IInv, SettlesAlone
  <2>4. TypeOK'
    BY <1>0, <1>2, <2>1 DEF IInv, TypeOK, Request
  <2>5. ~IsOpen'
    BY <1>0, <2>1 DEF IInv, SettlesAlone, IsOpen
  <2>6. EndsForReason' /\ SettlesAlone' /\ SettledOnce'
    BY <1>0, <2>2, <2>3, <2>5 DEF IInv, EndsForReason, SettlesAlone, SettledOnce, Request
  <2>7. ReadMatches' /\ AgreedAhead' /\ TimeMatchesExtensions'
    BY <2>1, <2>2 DEF IInv, ReadMatches, AgreedAhead, TimeMatchesExtensions
  <2>8. QED
    BY <2>4, <2>6, <2>7 DEF IInv
<1>3. QED
  BY <1>1, <1>2 DEF Settle

\* The inductive invariant holds throughout, for any number of handlers.
THEOREM CallInvariance == Spec => []IInv
<1>1. IInv /\ [Next]_vars => IInv'
  <2> SUFFICES ASSUME IInv, [Next]_vars PROVE IInv'
    OBVIOUS
  <2>1. CASE UNCHANGED vars
    BY <2>1 DEF vars, IInv, TypeOK, EndsForReason, SettlesAlone, SettledOnce,
       AgreedAhead, ReadMatches, TimeMatchesExtensions, IsOpen
  <2>2. QED
    BY <2>1, TickInv, BeginInv, AgreeInv, RereadInv, BumpInv, EndInv, SettleInv
       DEF Next, Step
<1>2. QED
  BY <1>1, InitInv, PTL DEF Spec

\* The row, the handlers and the counts keep their types.
THEOREM CallTypeCorrect == Spec => []TypeOK
<1>1. IInv => TypeOK
  BY DEF IInv
<1>2. QED
  BY <1>1, CallInvariance, PTL

\* "Ends a call once (a second end is a no-op)" (random-call.service.ts:360):
\* each person is paid, counted and told at most once.
THEOREM EndsOnce == Spec => []SettledOnce
<1>1. IInv => SettledOnce
  BY DEF IInv
<1>2. QED
  BY <1>1, CallInvariance, PTL

\* Racing extensions are neither lost nor counted twice
\* (random-call.service.ts:466-480).
THEOREM TimeIsAccounted == Spec => []TimeMatchesExtensions
<1>1. IInv => TimeMatchesExtensions
  BY DEF IInv
<1>2. QED
  BY <1>1, CallInvariance, PTL

\* "Both people agree to keep talking" (random-call.service.ts:446), each time.
THEOREM ExtendedByConsent == Spec => []AgreedEachTime
<1>1. IInv => AgreedEachTime
  BY DEF IInv, AgreedAhead, AgreedEachTime, TypeOK, Row
<1>2. QED
  BY <1>1, CallInvariance, PTL

\* No handler that is still under way touches a call that has ended.
THEOREM EndIsFinal == Spec => EndedIsFinal
<1>1. [Next]_vars => [~IsOpen => UNCHANGED call]_vars
  <2> SUFFICES ASSUME [Next]_vars, ~IsOpen PROVE UNCHANGED call
    OBVIOUS
  <2>1. ASSUME NEW p \in Proc, Begin(p) \/ BeginSweep(p) \/ Fail(p)
        PROVE  UNCHANGED call
    BY <2>1 DEF Begin, BeginExtend, BeginEnd, BeginSweep, Fail
  <2>2. ASSUME NEW p \in Proc, Step(p) PROVE UNCHANGED call
    BY <2>2 DEF Step, Agree, Reread, Bump, StillAsRead, End, Settle
  <2>3. QED
    BY <2>1, <2>2 DEF Next, Tick, vars
<1>2. QED
  BY <1>1, PTL DEF Spec, EndedIsFinal
-----------------------------------------------------------------------------
(* The limit of extensions *)

InFlight == AgreesForOne /\ OnlyInFlight

LEMMA CheckedFinite ==
  /\ IsFiniteSet(Checked) /\ Cardinality(Checked) \in Nat
  /\ \A p \in Proc : p \notin Checked => Cardinality(Checked) <= Cardinality(Proc) - 1
  /\ Cardinality(Proc) \in Nat \ {0}
<1>1. IsFiniteSet(Proc) /\ Cardinality(Proc) \in Nat \ {0}
  BY CallAssumption, FS_CardinalityType, FS_EmptySet
<1>2. IsFiniteSet(Checked) /\ Cardinality(Checked) \in Nat
  BY <1>1, FS_Subset, FS_CardinalityType DEF Checked
<1>3. ASSUME NEW p \in Proc, p \notin Checked
      PROVE  Cardinality(Checked) <= Cardinality(Proc) - 1
  <2>1. /\ IsFiniteSet(Proc \ {p})
        /\ Cardinality(Proc \ {p}) = Cardinality(Proc) - 1
    BY <1>1, FS_RemoveElement
  <2>2. Checked \subseteq Proc \ {p}
    BY <1>3 DEF Checked
  <2>3. QED
    BY <2>1, <2>2, FS_Subset
<1>4. QED
  BY <1>1, <1>2, <1>3

\* A handler that leaves the row alone and passes no check.
LEMMA PassesNoCheck ==
  ASSUME IInv, InFlight, NEW p \in Proc, NEW r, req' = [req EXCEPT ![p] = r],
         r.pc # "agree", UNCHANGED call
  PROVE  InFlight'
<1>1. \A q \in Proc : req'[q] = IF q = p THEN r ELSE req[q]
  BY DEF IInv, TypeOK
<1>2. Checked' \subseteq Checked
  BY <1>1 DEF Checked
<1>3. Cardinality(Checked') <= Cardinality(Checked) /\ Cardinality(Checked') \in Nat
  BY <1>2, CheckedFinite, FS_Subset, FS_CardinalityType
<1>4. AgreesForOne'
  BY <1>1, <1>2 DEF InFlight, AgreesForOne, Checked
<1>5. call \in Row /\ IsFiniteSet(call.agreed) /\ Cardinality(call.agreed) \in Nat
  BY CallAssumption, FS_Subset, FS_CardinalityType DEF IInv, TypeOK, Row
<1>6. OnlyInFlight'
  BY <1>3, <1>5, CheckedFinite, CallAssumption DEF InFlight, OnlyInFlight, Row
<1>7. QED
  BY <1>4, <1>6 DEF InFlight

\* One that answers.
LEMMA ReturnInFlight ==
  ASSUME IInv, InFlight, NEW p \in Proc, Return(p), UNCHANGED call
  PROVE  InFlight'
<1>1. req' = [req EXCEPT ![p] = Idle] /\ Idle.pc # "agree"
  BY DEF Return, Idle
<1>2. QED
  BY <1>1, PassesNoCheck

LEMMA BeginExtendInFlight ==
  ASSUME IInv, InFlight, NEW p \in Proc, NEW s \in Side, BeginExtend(p, s)
  PROVE  InFlight'
<1>1. \A q \in Proc : req'[q] = IF q = p THEN [Idle EXCEPT !.pc = "agree", !.side = {s}]
                                ELSE req[q]
  BY DEF IInv, TypeOK, BeginExtend
<1>2. AgreesForOne'
  BY <1>1 DEF InFlight, AgreesForOne, Checked, Idle
<1>3. OnlyInFlight'
  BY CallAssumption DEF BeginExtend, OnlyInFlight, IInv, TypeOK, Row
<1>4. QED
  BY <1>2, <1>3 DEF InFlight

\* An agreement moves from the handler to the row, or is not written any more.
LEMMA AgreeInFlight ==
  ASSUME IInv, InFlight, NEW p \in Proc, Agree(p)
  PROVE  InFlight'
<1>1. /\ req \in [Proc -> Request] /\ call \in Row /\ req[p].pc = "agree" /\ p \in Checked
  BY DEF IInv, TypeOK, Agree, Checked
<1>2. \A q \in Proc : /\ req'[q].pc = IF q = p THEN "reread" ELSE req[q].pc
                      /\ req'[q].side = req[q].side
  BY <1>1 DEF Agree, Request
<1>3. Checked' = Checked \ {p}
  BY <1>1, <1>2 DEF Checked
<1>4. Cardinality(Checked') = Cardinality(Checked) - 1
  BY <1>1, <1>3, CheckedFinite, FS_RemoveElement
<1>5. PICK s \in Side : req[p].side = {s}
  BY <1>1 DEF InFlight, AgreesForOne
<1>6. /\ call'.extensions = call.extensions
      /\ call'.agreed = call.agreed \/ call'.agreed = call.agreed \cup {s}
  BY <1>1, <1>5 DEF Agree, Row
<1>7. IsFiniteSet(call.agreed) /\ Cardinality(call.agreed) \in Nat
  BY <1>1, CallAssumption, FS_Subset, FS_CardinalityType DEF Row
<1>8. Cardinality(call'.agreed) \in {Cardinality(call.agreed), Cardinality(call.agreed) + 1}
  BY <1>6, <1>7, FS_AddElement
<1>9. AgreesForOne'
  BY <1>2, <1>3 DEF InFlight, AgreesForOne, Checked
<1>10. OnlyInFlight'
  BY <1>1, <1>4, <1>6, <1>7, <1>8, CheckedFinite, CallAssumption
     DEF InFlight, OnlyInFlight, Row
<1>11. QED
  BY <1>9, <1>10 DEF InFlight

\* Two agreements on record become one extension; at the limit everybody but the
\* handler that extends may still be about to agree.
LEMMA BumpInFlight ==
  ASSUME IInv, InFlight, NEW p \in Proc, Bump(p)
  PROVE  InFlight'
<1>1. CASE ~StillAsRead(p)
  BY <1>1, ReturnInFlight DEF Bump
<1>2. CASE StillAsRead(p)
  <2>1. /\ req \in [Proc -> Request] /\ call \in Row /\ req[p].pc = "bump"
        /\ p \notin Checked
    BY DEF IInv, TypeOK, Bump, Checked
  <2>2. /\ call.agreed = Side /\ call'.agreed = {}
        /\ call'.extensions = call.extensions + 1
    BY <1>2, <2>1 DEF Bump, StillAsRead, Extended, Row
  <2>3. \A q \in Proc : req'[q] = IF q = p THEN Idle ELSE req[q]
    BY <2>1 DEF Bump, Return
  <2>4. Checked' = Checked
    BY <2>1, <2>3 DEF Checked, Idle
  <2>5. AgreesForOne'
    BY <2>1, <2>3, <2>4 DEF InFlight, AgreesForOne, Checked
  <2>6. Cardinality(call.agreed) = 2 /\ Cardinality(call'.agreed) = 0
    BY <2>2, CallAssumption, FS_EmptySet
  <2>7. Cardinality(Checked) <= Cardinality(Proc) - 1
    BY <2>1, CheckedFinite
  <2>8. OnlyInFlight'
    BY <2>1, <2>2, <2>4, <2>6, <2>7, CheckedFinite, CallAssumption
       DEF InFlight, OnlyInFlight, Row
  <2>9. QED
    BY <2>5, <2>8 DEF InFlight
<1>3. QED
  BY <1>1, <1>2

LEMMA EndInFlight ==
  ASSUME IInv, InFlight, NEW p \in Proc, End(p)
  PROVE  InFlight'
<1>1. CASE ~IsOpen
  BY <1>1, ReturnInFlight DEF End
<1>2. CASE IsOpen
  <2>1. req \in [Proc -> Request] /\ call \in Row /\ req[p].pc = "ending"
    BY DEF IInv, TypeOK, End
  <2>2. call'.agreed = call.agreed /\ call'.extensions = call.extensions
    BY <1>2, <2>1 DEF End, Row
  <2>3. \A q \in Proc : /\ req'[q].pc = IF q = p THEN "settling" ELSE req[q].pc
                        /\ req'[q].side = req[q].side
    BY <1>2, <2>1 DEF End, Request
  <2>4. Checked' = Checked
    BY <2>1, <2>3 DEF Checked
  <2>5. QED
    BY <2>2, <2>3, <2>4 DEF InFlight, AgreesForOne, OnlyInFlight, Checked
<1>3. QED
  BY <1>1, <1>2

LEMMA SettleInFlight ==
  ASSUME IInv, InFlight, NEW p \in Proc, Settle(p)
  PROVE  InFlight'
<1>1. req \in [Proc -> Request] /\ req[p].pc = "settling" /\ UNCHANGED call
  BY DEF IInv, TypeOK, Settle
<1>2. CASE Return(p)
  BY <1>1, <1>2, ReturnInFlight
<1>3. ASSUME NEW s, req' = [req EXCEPT ![p].left = @ \ {s}] PROVE InFlight'
  <2> DEFINE r == [req[p] EXCEPT !.left = @ \ {s}]
  <2>1. req' = [req EXCEPT ![p] = r] /\ r.pc = "settling"
    BY <1>1, <1>3 DEF Request
  <2> HIDE DEF r
  <2>2. QED
    BY <1>1, <2>1, PassesNoCheck
<1>4. QED
  BY <1>2, <1>3 DEF Settle

LEMMA RereadInFlight ==
  ASSUME IInv, InFlight, NEW p \in Proc, Reread(p)
  PROVE  InFlight'
<1>1. req \in [Proc -> Request] /\ req[p].pc = "reread" /\ UNCHANGED call
  BY DEF IInv, TypeOK, Reread
<1>2. CASE Return(p)
  BY <1>1, <1>2, ReturnInFlight
<1>3. CASE ~Return(p)
  <2> DEFINE r == [req[p] EXCEPT !.pc = "bump", !.endsAt = call.endsAt,
                                 !.extensions = call.extensions]
  <2>1. req' = [req EXCEPT ![p] = r] /\ r.pc = "bump"
    BY <1>1, <1>3 DEF Reread, Request
  <2> HIDE DEF r
  <2>2. QED
    BY <1>1, <2>1, PassesNoCheck
<1>4. QED
  BY <1>2, <1>3

LEMMA LimitInit == Init => InFlight
<1> SUFFICES ASSUME Init PROVE InFlight
  OBVIOUS
<1>1. Checked = {} /\ call.agreed = {} /\ call.extensions = 0
  BY DEF Init, Checked, Idle
<1>2. Cardinality({}) = 0
  BY FS_EmptySet
<1>3. OnlyInFlight
  BY <1>1, <1>2, CheckedFinite, CallAssumption DEF OnlyInFlight
<1>4. QED
  BY <1>1, <1>3 DEF InFlight, AgreesForOne

LEMMA LimitNext == IInv /\ InFlight /\ [Next]_vars => InFlight'
<1> SUFFICES ASSUME IInv, InFlight, [Next]_vars PROVE InFlight'
  OBVIOUS
<1>1. CASE UNCHANGED <<req, call>>
  BY <1>1 DEF InFlight, AgreesForOne, OnlyInFlight, Checked
<1>2. ASSUME NEW p \in Proc, Begin(p) \/ BeginSweep(p) \/ Fail(p) PROVE InFlight'
  <2>1. ASSUME NEW reason,
               req' = [req EXCEPT ![p] = [Idle EXCEPT !.pc = "ending", !.reason = reason]],
               UNCHANGED call
        PROVE  InFlight'
    <3> DEFINE r == [Idle EXCEPT !.pc = "ending", !.reason = reason]
    <3>1. r.pc = "ending"
      BY DEF Idle
    <3> HIDE DEF r
    <3>2. QED
      BY <2>1, <3>1, PassesNoCheck DEF r
  <2>2. CASE BeginSweep(p)
    BY <2>1, <2>2 DEF BeginSweep
  <2>3. CASE Fail(p)
    BY <2>3, ReturnInFlight DEF Fail
  <2>4. ASSUME NEW reason, BeginEnd(p, reason) PROVE InFlight'
    BY <2>1, <2>4 DEF BeginEnd
  <2>5. QED
    BY <1>2, <2>2, <2>3, <2>4, BeginExtendInFlight DEF Begin
<1>3. ASSUME NEW p \in Proc, Step(p) PROVE InFlight'
  BY <1>3, AgreeInFlight, RereadInFlight, BumpInFlight, EndInFlight, SettleInFlight DEF Step
<1>4. QED
  BY <1>1, <1>2, <1>3 DEF Next, Tick, vars

\* The limit of extensions (random-call.service.ts:452) is passed only by what was
\* in flight when it was reached: by one extension for each two of the other
\* handlers, since each takes two agreements.
THEOREM ExtensionsAreBounded == Spec => []ExtensionsNearlyBounded
<1>1. IInv /\ InFlight => ExtensionsNearlyBounded
  <2> SUFFICES ASSUME IInv, InFlight PROVE ExtensionsNearlyBounded
    OBVIOUS
  <2> DEFINE n == Cardinality(Proc)
             over == call.extensions - MaxExtensions
  <2>1. n \in Nat \ {0} /\ over \in Int /\ Cardinality(Checked) \in Nat
    BY CheckedFinite, CallAssumption DEF IInv, TypeOK, Row
  <2>2. Cardinality(call.agreed) \in Nat
    BY CallAssumption, FS_Subset, FS_CardinalityType DEF IInv, TypeOK, Row
  <2>3. over >= 0 => 2 * over <= n - 1
    BY <2>1, <2>2, CallAssumption DEF InFlight, OnlyInFlight, IInv, TypeOK, Row
  <2> HIDE DEF n
  <2>4. over <= (n - 1) \div 2
    BY <2>1, <2>3
  <2>5. QED
    <3>1. (n - 1) \div 2 \in Int /\ call.extensions \in Nat /\ MaxExtensions \in Nat
      BY <2>1, CallAssumption DEF IInv, TypeOK, Row
    <3>2. call.extensions <= MaxExtensions + (n - 1) \div 2
      BY <2>4, <3>1
    <3>3. QED
      BY <3>2 DEF ExtensionsNearlyBounded, n
<1>2. QED
  BY <1>1, LimitInit, LimitNext, CallInvariance, PTL DEF Spec

-----------------------------------------------------------------------------
(* The call keeps its promise *)

LEMMA PromiseInit == Init => Promise!Init
BY DEF Init, Promise!Init

\* What the promise speaks of, left alone.
Untouched == UNCHANGED <<call, settled>>

LEMMA UntouchedStutters == Untouched => UNCHANGED Promise!vars
BY DEF Untouched, Promise!vars

\* An agreement counts for the one person it was asked by, if the call is on.
LEMMA AgreePromised ==
  ASSUME IInv, InFlight, NEW p \in Proc, Agree(p)
  PROVE  [Promise!Next]_(Promise!vars)
<1>1. CASE ~IsOpen
  BY <1>1, UntouchedStutters DEF Agree, Untouched
<1>2. CASE IsOpen
  <2>1. p \in Checked
    BY DEF Agree, Checked
  <2>2. PICK s \in Side : req[p].side = {s}
    BY <2>1 DEF InFlight, AgreesForOne
  <2>3. /\ call \in Row /\ settled' = settled
        /\ call' = [call EXCEPT !.agreed = @ \cup {s}]
    BY <1>2, <2>2 DEF Agree, IInv, TypeOK
  <2>4. /\ call'.agreed = call.agreed \cup {s} /\ call'.endsAt = call.endsAt
        /\ call'.extensions = call.extensions /\ call'.ended = call.ended
    BY <2>3 DEF Row
  <2>5. Promise!Agree(s)
    BY <1>2, <2>3, <2>4 DEF IsOpen, Promise!Agree
  <2>6. QED
    BY <2>5 DEF Promise!Next
<1>3. QED
  BY <1>1, <1>2

\* The end that was read is the end of the call whenever the update goes through.
LEMMA BumpPromised ==
  ASSUME IInv, NEW p \in Proc, Bump(p)
  PROVE  [Promise!Next]_(Promise!vars)
<1>1. CASE ~StillAsRead(p)
  BY <1>1, UntouchedStutters DEF Bump, Untouched
<1>2. CASE StillAsRead(p)
  <2>1. /\ call \in Row /\ settled' = settled /\ call' = Extended(p)
        /\ IsOpen /\ call.agreed = Side
    BY <1>2 DEF Bump, StillAsRead, IInv, TypeOK
  <2>2. req[p].endsAt = call.endsAt
    <3>1. req[p].endsAt = CallTime + req[p].extensions * ExtendTime
      BY DEF IInv, ReadMatches, Bump
    <3>2. call.endsAt = CallTime + call.extensions * ExtendTime
      BY DEF IInv, TimeMatchesExtensions
    <3>3. QED
      BY <1>2, <3>1, <3>2 DEF StillAsRead
  <2>3. /\ call'.endsAt = call.endsAt + ExtendTime /\ call'.agreed = {}
        /\ call'.extensions = call.extensions + 1 /\ call'.ended = call.ended
    BY <2>1, <2>2 DEF Extended, Row
  <2>4. Promise!Extend
    BY <2>1, <2>3 DEF IsOpen, Promise!Extend
  <2>5. QED
    BY <2>4 DEF Promise!Next
<1>3. QED
  BY <1>1, <1>2

\* Whoever finds the call ended changes nothing.
LEMMA EndPromised ==
  ASSUME IInv, NEW p \in Proc, End(p)
  PROVE  [Promise!Next]_(Promise!vars)
<1>1. CASE ~IsOpen
  BY <1>1, UntouchedStutters DEF End, Untouched
<1>2. CASE IsOpen
  <2>1. /\ call \in Row /\ req[p] \in Request /\ settled' = settled
        /\ call' = [call EXCEPT !.ended = req[p].reason]
    BY <1>2 DEF End, IInv, TypeOK
  <2>2. req[p].reason \in Reason
    BY <2>1 DEF IInv, EndsForReason, End, Request
  <2>3. /\ call'.ended = req[p].reason /\ call'.agreed = call.agreed
        /\ call'.endsAt = call.endsAt /\ call'.extensions = call.extensions
    BY <2>1 DEF Row
  <2>4. Promise!End(req[p].reason)
    BY <1>2, <2>1, <2>3 DEF IsOpen, Promise!End
  <2>5. QED
    BY <2>2, <2>4 DEF Promise!Next
<1>3. QED
  BY <1>1, <1>2

\* The one handler that ended the call settles people it has not settled.
LEMMA SettlePromised ==
  ASSUME IInv, NEW p \in Proc, Settle(p)
  PROVE  [Promise!Next]_(Promise!vars)
<1>1. /\ req[p] \in Request /\ req[p].pc = "settling" /\ call' = call
      /\ settled \in [Side -> Nat] /\ ~IsOpen
  BY DEF Settle, IInv, TypeOK, SettlesAlone
<1>2. CASE UNCHANGED settled
  BY <1>1, <1>2, UntouchedStutters DEF Untouched
<1>3. ASSUME NEW s \in req[p].left, settled' = [settled EXCEPT ![s] = @ + 1]
      PROVE  [Promise!Next]_(Promise!vars)
  <2>1. s \in Side /\ settled[s] = 0
    BY <1>1, <1>3 DEF Request, IInv, SettlesAlone
  <2>2. Promise!Settle(s)
    BY <1>1, <1>3, <2>1 DEF IsOpen, Promise!Settle
  <2>3. QED
    BY <2>1, <2>2 DEF Promise!Next
<1>4. QED
  BY <1>2, <1>3 DEF Settle

\* The handlers of requestExtend and endCall, spread over several statements,
\* stale and cut short as they may be, act on the call as one person after the
\* other would (random-call.service.ts:361-397, 447-494).
THEOREM PromiseKept == Spec => CallKept
<1>1. IInv /\ InFlight /\ [Next]_vars => [Promise!Next]_(Promise!vars)
  <2> SUFFICES ASSUME IInv, InFlight, [Next]_vars PROVE [Promise!Next]_(Promise!vars)
    OBVIOUS
  <2>1. ASSUME NEW p \in Proc, Begin(p) \/ BeginSweep(p) \/ Fail(p) \/ Reread(p)
        PROVE  Untouched
    BY <2>1 DEF Begin, BeginExtend, BeginEnd, BeginSweep, Fail, Reread, Untouched
  <2>2. ASSUME NEW p \in Proc, Step(p), ~Reread(p) PROVE [Promise!Next]_(Promise!vars)
    BY <2>2, AgreePromised, BumpPromised, EndPromised, SettlePromised DEF Step
  <2>3. QED
    BY <2>1, <2>2, UntouchedStutters DEF Next, Tick, vars, Step, Untouched
<1>2. QED
  BY <1>1, PromiseInit, LimitInit, LimitNext, CallInvariance, PTL
     DEF Spec, CallKept, Promise!Spec
=============================================================================
