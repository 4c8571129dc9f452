----------------------- MODULE PracticeRewards_proofs -----------------------
(***************************************************************************)
(* Proofs about PracticeRewards, for any number of tabs, quests, prices    *)
(* and days: the streak counts days that were practised, the shop never    *)
(* takes XP that was not earned, a quest pays for work of its week,       *)
(* and what is claimed is paid once.  The argument: what a handler has     *)
(* read before an await can only have become an understatement, because    *)
(* XP, practised days and finished quests only grow.                       *)
(***************************************************************************)
EXTENDS PracticeRewards, FiniteSetTheorems, TLAPS

\* Sound, of a handler r at step pc, with the values it speaks of as arguments.
By(pr, d) == Cardinality({e \in pr : e <= d})

Base(r, pr, dn) ==
  /\ r.seen.current <= By(pr, r.seen.last)
  /\ r.fresh \subseteq dn[r.w]
  /\ r.all => dn[r.w] = Quest

AtStep(r, pc, e, pr) ==
  /\ pc = "buy" => r.seen.spent + FREEZE_PRICE <= e
  /\ pc = "spend" => Missed(r) >= 1
  /\ pc = "write" => r.today \in pr
  /\ pc = "claim" => r.fresh \cap r.quests.mask = {}
  /\ pc = "cap" => r.pays = {}

LEMMA SoundParts ==
  /\ \A r : Sound(r) <=> Base(r, practised, done) /\ AtStep(r, r.pc, earned, practised)
  /\ \A p \in Proc : Sound(req[p])' <=> /\ Base(req'[p], practised', done')
                                        /\ AtStep(req'[p], req'[p].pc, earned', practised')
BY DEF Sound, Base, AtStep, PractisedBy, By, Missed

\* XP, practised days and finished quests only grow.
Grows == /\ earned' \in Nat /\ earned <= earned'
         /\ practised \subseteq practised' /\ practised' \subseteq Day
         /\ done' \in [Week -> SUBSET Quest]
         /\ \A w \in Week : done[w] \subseteq done'[w]

LEMMA ByGrows ==
  ASSUME NEW pr \in SUBSET Day, NEW qr \in SUBSET Day, pr \subseteq qr,
         NEW c \in Day, NEW d \in Day, c <= d
  PROVE  By(pr, c) \in Nat /\ By(qr, d) \in Nat /\ By(pr, c) <= By(qr, d)
<1>1. MaxDay \in Nat
  BY RewardsAssumption
<1>2. IsFiniteSet(0..MaxDay)
  BY <1>1, FS_Interval
<1>3. /\ {e \in qr : e <= d} \subseteq 0..MaxDay
      /\ {e \in pr : e <= c} \subseteq {e \in qr : e <= d}
  <2>1. qr \subseteq 0..MaxDay /\ c \in Int /\ d \in Int
    BY <1>1 DEF Day
  <2>2. ASSUME NEW e \in pr, e <= c PROVE e \in qr /\ e <= d
    BY <2>1, <2>2
  <2>3. QED
    BY <2>1, <2>2
<1>4. IsFiniteSet({e \in qr : e <= d})
  BY <1>2, <1>3, FS_Subset
<1>5. /\ IsFiniteSet({e \in pr : e <= c})
      /\ Cardinality({e \in pr : e <= c}) <= Cardinality({e \in qr : e <= d})
  BY <1>3, <1>4, FS_Subset
<1>6. QED
  BY <1>4, <1>5, FS_CardinalityType DEF By

\* A further day counts one more.
LEMMA ByNext ==
  ASSUME NEW pr \in SUBSET Day, NEW c \in Day, NEW d \in pr, c < d
  PROVE  By(pr, c) + 1 <= By(pr, d)
<1> DEFINE A == {e \in pr : e <= c}
           B == {e \in pr : e <= d}
<1>1. MaxDay \in Nat /\ d \in Day
  BY RewardsAssumption
<1>2. IsFiniteSet(0..MaxDay)
  BY <1>1, FS_Interval
<1>3. A \subseteq 0..MaxDay /\ B \subseteq 0..MaxDay /\ A \cup {d} \subseteq B /\ d \notin A
  <2>1. pr \subseteq 0..MaxDay /\ c \in Int /\ d \in Int
    BY <1>1 DEF Day
  <2>2. ASSUME NEW e \in pr, e <= c PROVE e <= d
    BY <2>1, <2>2
  <2>3. d <= d /\ ~(d <= c)
    BY <2>1
  <2>4. A \subseteq 0..MaxDay /\ B \subseteq 0..MaxDay
    BY <2>1
  <2>5. A \subseteq B /\ d \in B /\ d \notin A
    BY <2>2, <2>3
  <2> HIDE DEF A, B
  <2>6. QED
    BY <2>4, <2>5
<1>4. IsFiniteSet(A) /\ IsFiniteSet(B)
  BY <1>2, <1>3, FS_Subset
<1>5. Cardinality(A \cup {d}) = Cardinality(A) + 1 /\ IsFiniteSet(A \cup {d})
  BY <1>3, <1>4, FS_AddElement
<1>6. Cardinality(A \cup {d}) <= Cardinality(B)
  BY <1>3, <1>4, FS_Subset
<1>7. QED
  BY <1>5, <1>6 DEF By

LEMMA BaseGrows ==
  ASSUME StreakInv, Grows, NEW r \in Request, Base(r, practised, done)
  PROVE  Base(r, practised', done')
<1>1. r.seen.last \in Day /\ practised \in SUBSET Day /\ practised' \in SUBSET Day
      /\ r.seen.current \in Nat /\ r.w \in Week
  BY DEF StreakInv, TypeOK, Grows, Request, StreakRow
<1>2. /\ By(practised, r.seen.last) <= By(practised', r.seen.last)
      /\ By(practised, r.seen.last) \in Nat /\ By(practised', r.seen.last) \in Nat
  <2>1. r.seen.last <= r.seen.last
    BY <1>1, RewardsAssumption DEF Day
  <2>2. QED
    BY <1>1, <2>1, ByGrows DEF Grows
<1>3. r.seen.current <= By(practised', r.seen.last)
  BY <1>1, <1>2 DEF Base
<1>4. r.fresh \subseteq done'[r.w] /\ (r.all => done'[r.w] = Quest)
  BY <1>1 DEF Base, Grows
<1>5. QED
  BY <1>3, <1>4 DEF Base

LEMMA SoundGrows ==
  ASSUME StreakInv, Grows, NEW p \in Proc, req'[p] = req[p]
  PROVE  Sound(req[p])'
<1>1. req[p] \in Request /\ earned \in Nat
  BY DEF StreakInv, TypeOK
<1>2. Base(req[p], practised, done) /\ AtStep(req[p], req[p].pc, earned, practised)
  BY SoundParts DEF StreakInv
<1>3. Base(req[p], practised', done')
  BY <1>1, <1>2, BaseGrows
<1>4. AtStep(req[p], req[p].pc, earned', practised')
  <2>1. req[p].seen.spent \in Nat /\ FREEZE_PRICE \in Nat
    BY <1>1, RewardsAssumption DEF Request, StreakRow
  <2>2. QED
    BY <1>1, <1>2, <2>1 DEF AtStep, Grows
<1>5. QED
  BY <1>3, <1>4, SoundParts

LEMMA IdleSound ==
  ASSUME StreakInv, Grows
  PROVE  /\ Idle \in Request /\ Idle.pc = "idle" /\ Base(Idle, practised', done')
<1>1. 0 \in Day /\ MaxDay \in Nat
  BY RewardsAssumption DEF Day
<1>2. NoRow \in StreakRow /\ NoWeek \in QuestRow
  BY <1>1, RewardsAssumption DEF NoRow, StreakRow, NoWeek, QuestRow
<1>3. Idle \in Request
  BY <1>1, <1>2 DEF Idle, Request, Pc, Activity, Kinds, Week
<1>4. 0 <= By(practised', 0)
  BY <1>1, ByGrows DEF Grows
<1>5. QED
  BY <1>3, <1>4 DEF Idle, Base, NoRow

-----------------------------------------------------------------------------
(* The shape of a step: handler p becomes new, and the rows fit *)

Becomes(p, new) == /\ new \in Request
                   /\ req' = [req EXCEPT ![p] = new]
                   /\ Base(new, practised', done')
                   /\ AtStep(new, new.pc, earned', practised')

RowFits == /\ row' \in StreakRow
           /\ row'.spent <= earned'
           /\ row'.current <= By(practised', row'.last)

WeeksFit == /\ week' \in [Week -> QuestRow]
            /\ \A w \in Week : /\ week'[w].mask \subseteq done'[w]
                               /\ week'[w].completed => done'[w] = Quest

Typed == /\ day' \in Day /\ shown' \in Nat /\ frozen' \subseteq Day
         /\ capped' \in [Day -> Nat]
         /\ paid' \in [Week -> [Reward -> Nat]]
         /\ lost' \subseteq Week \X Reward
         /\ sent' \in Nat /\ fails' \in Nat

LEMMA Keep ==
  ASSUME StreakInv, Grows, RowFits, WeeksFit, Typed,
         (\E p \in Proc, new \in Request : Becomes(p, new)) \/ UNCHANGED req
  PROVE  StreakInv'
<1>1. req \in [Proc -> Request]
  BY DEF StreakInv, TypeOK
<1>2. CASE UNCHANGED req
  <2>1. TypeOK'
    BY <1>1, <1>2 DEF TypeOK, Grows, RowFits, WeeksFit, Typed
  <2>2. \A p \in Proc : Sound(req[p])'
    BY <1>2, SoundGrows
  <2>3. StreakIsEarned' /\ NeverOverspent' /\ PaysForWork'
    BY DEF StreakIsEarned, NeverOverspent, PaysForWork, RowFits, WeeksFit, By
  <2>4. QED
    BY <2>1, <2>2, <2>3 DEF StreakInv
<1>3. ASSUME NEW p \in Proc, NEW new \in Request, Becomes(p, new)
      PROVE  StreakInv'
  <2>1. req' \in [Proc -> Request] /\ req'[p] = new /\ \A q \in Proc \ {p} : req'[q] = req[q]
    BY <1>1, <1>3 DEF Becomes
  <2>2. TypeOK'
    BY <2>1 DEF TypeOK, Grows, RowFits, WeeksFit, Typed
  <2>3. Sound(req[p])'
    BY <1>3, <2>1, SoundParts DEF Becomes
  <2>4. \A q \in Proc : Sound(req[q])'
    BY <2>1, <2>3, SoundGrows
  <2>5. StreakIsEarned' /\ NeverOverspent' /\ PaysForWork'
    BY DEF StreakIsEarned, NeverOverspent, PaysForWork, RowFits, WeeksFit, By
  <2>6. QED
    BY <2>2, <2>4, <2>5 DEF StreakInv
<1>4. QED
  BY <1>2, <1>3

\* A handler that goes on with r at pc.
LEMMA Going ==
  ASSUME StreakInv, Grows, NEW p \in Proc, NEW r \in Request, NEW pc \in Pc, Goto(p, r, pc),
         Base(r, practised, done),
         pc # "idle" => AtStep(r, pc, earned', practised')
  PROVE  \E new \in Request : Becomes(p, new)
<1>1. CASE pc = "idle"
  <2>1. Idle \in Request /\ Base(Idle, practised', done') /\ Idle.pc = "idle"
    BY IdleSound
  <2>2. AtStep(Idle, Idle.pc, earned', practised')
    BY <2>1 DEF AtStep
  <2>3. req' = [req EXCEPT ![p] = Idle]
    BY <1>1 DEF Goto
  <2>4. QED
    BY <2>1, <2>2, <2>3 DEF Becomes
<1>2. CASE pc # "idle"
  <2> DEFINE new == [r EXCEPT !.pc = pc]
  <2>1. /\ new \in Request /\ new.pc = pc /\ new.seen = r.seen /\ new.today = r.today
        /\ new.w = r.w /\ new.fresh = r.fresh /\ new.quests = r.quests /\ new.pays = r.pays
        /\ new.all = r.all
    BY DEF Request
  <2>2. req' = [req EXCEPT ![p] = new]
    BY <1>2 DEF Goto
  <2> HIDE DEF new
  <2>3. Base(r, practised', done')
    BY BaseGrows
  <2>4. Base(new, practised', done')
    BY <2>1, <2>3 DEF Base
  <2>5. AtStep(new, new.pc, earned', practised')
    BY <1>2, <2>1 DEF AtStep, Missed
  <2>6. QED
    BY <2>1, <2>2, <2>4, <2>5 DEF Becomes
<1>3. QED
  BY <1>1, <1>2

\* A step of one handler that writes nothing.
LEMMA Quiet ==
  ASSUME StreakInv, NEW p \in Proc, NEW r \in Request, NEW pc \in Pc, Goto(p, r, pc),
         Base(r, practised, done),
         pc # "idle" => AtStep(r, pc, earned, practised),
         UNCHANGED <<day, streakVars, questVars, xpVars, sent>>,
         lost' \subseteq Week \X Reward, fails' \in Nat
  PROVE  StreakInv'
<1>1. TypeOK /\ StreakIsEarned /\ NeverOverspent /\ PaysForWork
  BY DEF StreakInv
<1>2. Grows
  BY <1>1 DEF Grows, TypeOK, streakVars, questVars, xpVars
<1>3. RowFits /\ WeeksFit /\ Typed
  BY <1>1 DEF RowFits, WeeksFit, Typed, TypeOK, streakVars, questVars, xpVars, StreakIsEarned,
              NeverOverspent, PaysForWork, By
<1>4. earned' = earned /\ practised' = practised
  BY DEF streakVars, xpVars
<1>5. \E new \in Request : Becomes(p, new)
  BY <1>2, <1>4, Going
<1>6. QED
  BY <1>2, <1>3, <1>5, Keep

\* What is known of a handler before its step.
LEMMA Known ==
  ASSUME StreakInv, NEW p \in Proc
  PROVE  /\ TypeOK /\ StreakIsEarned /\ NeverOverspent /\ PaysForWork
         /\ req[p] \in Request
         /\ Base(req[p], practised, done)
         /\ AtStep(req[p], req[p].pc, earned, practised)
BY SoundParts DEF StreakInv, TypeOK

LEMMA RowRead ==
  ASSUME StreakInv, NEW r \in Request, Base(r, practised, done)
  PROVE  [r EXCEPT !.seen = row] \in Request /\ Base([r EXCEPT !.seen = row], practised, done)
<1> DEFINE s == [r EXCEPT !.seen = row]
<1>1. row \in StreakRow /\ row.current <= By(practised, row.last)
  BY DEF StreakInv, TypeOK, StreakIsEarned, By
<1>2. s \in Request /\ s.seen = row /\ s.fresh = r.fresh /\ s.w = r.w /\ s.all = r.all
  BY <1>1 DEF Request
<1> HIDE DEF s
<1>3. Base(s, practised, done)
  BY <1>1, <1>2 DEF Base
<1>4. QED
  BY <1>2, <1>3 DEF s

-----------------------------------------------------------------------------
(* Requests and reads *)

\* A handler as it begins.
Fresh(r) == /\ r \in Request
            /\ r.pc \in {"pay", "cap", "week", "shop", "freeze"}
            /\ r.seen = NoRow /\ r.fresh = {} /\ r.all = FALSE /\ r.pays = {}

LEMMA BeginKeeps ==
  ASSUME StreakInv, NEW p \in Proc, NEW kind, NEW first, Fresh(first), Begin(p, kind, first)
  PROVE  StreakInv'
<1> DEFINE new == [first EXCEPT !.kind = kind]
<1>1. TypeOK /\ StreakIsEarned /\ NeverOverspent /\ PaysForWork
  BY DEF StreakInv
<1>2. /\ kind \in Kinds /\ req' = [req EXCEPT ![p] = new] /\ sent' = sent + 1
      /\ UNCHANGED <<day, streakVars, questVars, xpVars, lost, fails>>
  BY RewardsAssumption DEF Begin
<1>3. Grows
  BY <1>1, <1>2 DEF Grows, TypeOK, streakVars, questVars, xpVars
<1>4. RowFits /\ WeeksFit
  BY <1>1, <1>2 DEF RowFits, WeeksFit, TypeOK, streakVars, questVars, xpVars, StreakIsEarned,
              NeverOverspent, PaysForWork, By
<1>5. Typed
  BY <1>1, <1>2 DEF Typed, TypeOK, streakVars, xpVars
<1>6. Idle \in Request /\ Base(Idle, practised', done')
  BY <1>3, IdleSound
<1>7. /\ new \in Request /\ new.pc = first.pc /\ new.seen = NoRow /\ new.fresh = {}
      /\ new.all = FALSE /\ new.pays = {} /\ Idle.seen = NoRow
  BY <1>2 DEF Request, Fresh, Idle
<1> HIDE DEF new
<1>8. Base(new, practised', done')
  BY <1>6, <1>7 DEF Base
<1>9. AtStep(new, new.pc, earned', practised')
  BY <1>7 DEF AtStep, Fresh
<1>10. Becomes(p, new)
  BY <1>2, <1>7, <1>8, <1>9 DEF Becomes
<1>11. QED
  BY <1>3, <1>4, <1>5, <1>7, <1>10, Keep

LEMMA WeekOfType == ASSUME NEW d \in Day PROVE WeekOf(d) \in Week
<1>1. d \in Nat /\ d <= MaxDay /\ WeekDays \in Nat \ {0} /\ MaxDay \in Nat
  BY RewardsAssumption DEF Day
<1>2. d \div WeekDays \in Nat /\ d \div WeekDays <= d
  BY <1>1
<1>3. QED
  BY <1>1, <1>2 DEF WeekOf, Week, Day

LEMMA SendKeeps == ASSUME StreakInv, NEW p \in Proc, Send(p) PROVE StreakInv'
<1>1. day \in Day /\ 0 \in Day /\ REWARD \in Nat
  BY RewardsAssumption DEF StreakInv, TypeOK, Day
<1>2. WeekOf(day) \in Week /\ 0 \in Week
  BY <1>1, WeekOfType DEF Week
<1>3. NoRow \in StreakRow /\ NoWeek \in QuestRow
  BY <1>1, RewardsAssumption DEF NoRow, StreakRow, NoWeek, QuestRow
<1> USE <1>1, <1>2, <1>3 DEF Fresh, Request, Idle, Pc, Activity
<1>4. CASE Practise(p)
  <2>1. Fresh([Idle EXCEPT !.pc = "pay", !.amount = REWARD])
    OBVIOUS
  <2>2. QED
    BY <1>4, <2>1, BeginKeeps DEF Practise
<1>5. CASE PractiseCapped(p)
  <2>1. Fresh([Idle EXCEPT !.pc = "cap", !.today = day])
    OBVIOUS
  <2>2. QED
    BY <1>5, <2>1, BeginKeeps DEF PractiseCapped
<1>6. CASE Look(p)
  <2>1. Fresh([Idle EXCEPT !.pc = "week", !.w = WeekOf(day)])
    OBVIOUS
  <2>2. QED
    BY <1>6, <2>1, BeginKeeps DEF Look
<1>7. CASE BuyFreeze(p)
  <2>1. Fresh([Idle EXCEPT !.pc = "shop"])
    OBVIOUS
  <2>2. QED
    BY <1>7, <2>1, BeginKeeps DEF BuyFreeze
<1>8. CASE SeeStreak(p)
  <2>1. Fresh([Idle EXCEPT !.pc = "freeze", !.today = day])
    OBVIOUS
  <2>2. QED
    BY <1>8, <2>1, BeginKeeps DEF SeeStreak
<1>9. QED
  BY <1>4, <1>5, <1>6, <1>7, <1>8 DEF Send

LEMMA ReadCapKeeps == ASSUME StreakInv, NEW p \in Proc, ReadCap(p) PROVE StreakInv'
<1> DEFINE amount == Most(0, Least(REWARD, DailyCap - capped[req[p].today]))
           r == [req[p] EXCEPT !.amount = amount]
<1>1. /\ TypeOK /\ req[p] \in Request /\ Base(req[p], practised, done)
  BY Known
<1>2. amount \in Nat
  <2>1. capped[req[p].today] \in Nat /\ REWARD \in Nat /\ DailyCap \in Nat
    BY <1>1, RewardsAssumption DEF TypeOK, Request
  <2>2. QED
    BY <2>1 DEF Most, Least
<1>3. /\ Goto(p, r, "pay")
      /\ UNCHANGED <<day, streakVars, questVars, xpVars, lost, sent, fails>>
  BY DEF ReadCap
<1> HIDE DEF amount
<1>4. r \in Request /\ r.seen = req[p].seen /\ r.fresh = req[p].fresh /\ r.w = req[p].w
      /\ r.all = req[p].all
  BY <1>1, <1>2 DEF Request
<1>5. Base(r, practised, done)
  BY <1>1, <1>4 DEF Base
<1>6. "pay" \in Pc /\ AtStep(r, "pay", earned, practised)
  BY DEF Pc, Activity, AtStep
<1>7. lost' \subseteq Week \X Reward /\ fails' \in Nat
  BY <1>1, <1>3 DEF TypeOK
<1> HIDE DEF r
<1>8. QED
  BY <1>3, <1>4, <1>5, <1>6, <1>7, Quiet

LEMMA ReadFreezesKeeps == ASSUME StreakInv, NEW p \in Proc, ReadFreezes(p) PROVE StreakInv'
<1> DEFINE r == [req[p] EXCEPT !.seen = row]
           covers == /\ row.exists
                     /\ row.current > 0
                     /\ row.freezes > 0
                     /\ Missed(r) \in 1..row.freezes
           pc == IF covers THEN "spend" ELSE AfterFreezes(r)
<1>1. /\ TypeOK /\ req[p] \in Request /\ Base(req[p], practised, done)
  BY Known
<1>2. r \in Request /\ Base(r, practised, done)
  BY <1>1, RowRead
<1>3. /\ Goto(p, r, pc)
      /\ UNCHANGED <<day, streakVars, questVars, xpVars, lost, sent, fails>>
  BY DEF ReadFreezes
<1>4. pc \in {"spend", "idle", "read"} /\ (pc = "spend" => covers)
  BY DEF AfterFreezes
<1>5. covers => Missed(r) >= 1
  <2>1. row.freezes \in Int
    BY <1>1, RewardsAssumption DEF TypeOK, StreakRow
  <2>2. QED
    BY <2>1
<1> HIDE DEF pc, covers, r
<1>6. pc \in Pc /\ AtStep(r, pc, earned, practised)
  BY <1>4, <1>5 DEF Pc, Activity, AtStep
<1>7. lost' \subseteq Week \X Reward /\ fails' \in Nat
  BY <1>1, <1>3 DEF TypeOK
<1>8. QED
  BY <1>2, <1>3, <1>6, <1>7, Quiet

LEMMA ReadWeekKeeps == ASSUME StreakInv, NEW p \in Proc, ReadWeek(p) PROVE StreakInv'
<1> DEFINE r == [req[p] EXCEPT !.quests = week[req[p].w]]
           pc == IF week[req[p].w].made THEN "measure" ELSE "make"
<1>1. /\ TypeOK /\ req[p] \in Request /\ Base(req[p], practised, done)
  BY Known
<1>2. week[req[p].w] \in QuestRow
  BY <1>1 DEF TypeOK, Request
<1>3. /\ Goto(p, r, pc)
      /\ UNCHANGED <<day, streakVars, questVars, xpVars, lost, sent, fails>>
  BY DEF ReadWeek
<1>4. r \in Request /\ r.seen = req[p].seen /\ r.fresh = req[p].fresh /\ r.w = req[p].w
      /\ r.all = req[p].all
  BY <1>1, <1>2 DEF Request
<1>5. Base(r, practised, done)
  BY <1>1, <1>4 DEF Base
<1>6. pc \in Pc /\ AtStep(r, pc, earned, practised)
  BY DEF Pc, Activity, AtStep
<1>7. lost' \subseteq Week \X Reward /\ fails' \in Nat
  BY <1>1, <1>3 DEF TypeOK
<1> HIDE DEF r, pc
<1>8. QED
  BY <1>3, <1>4, <1>5, <1>6, <1>7, Quiet

LEMMA MeasureKeeps == ASSUME StreakInv, NEW p \in Proc, Measure(p) PROVE StreakInv'
<1> DEFINE fresh == done[req[p].w] \ req[p].quests.mask
           all == done[req[p].w] = Quest
           r == [req[p] EXCEPT !.fresh = fresh, !.all = all]
           pc == IF fresh # {} THEN "claim" ELSE "chest"
<1>1. /\ TypeOK /\ req[p] \in Request /\ Base(req[p], practised, done)
  BY Known
<1>2. fresh \subseteq Quest /\ all \in BOOLEAN
  BY <1>1 DEF TypeOK, Request
<1>3. /\ Goto(p, r, pc)
      /\ UNCHANGED <<day, streakVars, questVars, xpVars, lost, sent, fails>>
  BY DEF Measure
<1>4. /\ fresh \subseteq done[req[p].w] /\ fresh \cap req[p].quests.mask = {}
      /\ all => done[req[p].w] = Quest
  OBVIOUS
<1>5. pc \in {"claim", "chest"}
  OBVIOUS
<1> HIDE DEF fresh, all, pc
<1>6. r \in Request /\ r.seen = req[p].seen /\ r.fresh = fresh /\ r.w = req[p].w /\ r.all = all
      /\ r.quests = req[p].quests
  BY <1>1, <1>2 DEF Request
<1> HIDE DEF r
<1>7. Base(r, practised, done)
  BY <1>1, <1>4, <1>6 DEF Base
<1>8. pc \in Pc /\ AtStep(r, pc, earned, practised)
  BY <1>4, <1>5, <1>6 DEF Pc, Activity, AtStep
<1>9. lost' \subseteq Week \X Reward /\ fails' \in Nat
  BY <1>1, <1>3 DEF TypeOK
<1>10. QED
  BY <1>3, <1>6, <1>7, <1>8, <1>9, Quiet

LEMMA ReadShopKeeps == ASSUME StreakInv, NEW p \in Proc, ReadShop(p) PROVE StreakInv'
<1> DEFINE r == [req[p] EXCEPT !.seen = row]
           pc == IF row.exists /\ row.freezes < MAX_FREEZES THEN "balance" ELSE "idle"
<1>1. /\ TypeOK /\ req[p] \in Request /\ Base(req[p], practised, done)
  BY Known
<1>2. r \in Request /\ Base(r, practised, done)
  BY <1>1, RowRead
<1>3. /\ Goto(p, r, pc)
      /\ UNCHANGED <<day, streakVars, questVars, xpVars, lost, sent, fails>>
  BY DEF ReadShop
<1>4. pc \in Pc /\ AtStep(r, pc, earned, practised)
  BY DEF Pc, Activity, AtStep
<1>5. lost' \subseteq Week \X Reward /\ fails' \in Nat
  BY <1>1, <1>3 DEF TypeOK
<1> HIDE DEF r, pc
<1>6. QED
  BY <1>2, <1>3, <1>4, <1>5, Quiet

LEMMA ReadBalanceKeeps == ASSUME StreakInv, NEW p \in Proc, ReadBalance(p) PROVE StreakInv'
<1> DEFINE r == req[p]
           pc == IF earned - r.seen.spent >= FREEZE_PRICE THEN "buy" ELSE "idle"
<1>1. /\ TypeOK /\ r \in Request /\ Base(r, practised, done)
  BY Known
<1>2. /\ Goto(p, r, pc)
      /\ UNCHANGED <<day, streakVars, questVars, xpVars, lost, sent, fails>>
  BY DEF ReadBalance
<1>3. pc = "buy" => r.seen.spent + FREEZE_PRICE <= earned
  <2>1. r.seen.spent \in Nat /\ earned \in Nat /\ FREEZE_PRICE \in Nat
    BY <1>1, RewardsAssumption DEF TypeOK, Request, StreakRow
  <2>2. QED
    BY <2>1
<1>4. pc \in {"buy", "idle"}
  OBVIOUS
<1> HIDE DEF pc
<1>5. pc \in Pc /\ AtStep(r, pc, earned, practised)
  BY <1>3, <1>4 DEF Pc, Activity, AtStep
<1>6. lost' \subseteq Week \X Reward /\ fails' \in Nat
  BY <1>1, <1>2 DEF TypeOK
<1> HIDE DEF r
<1>7. QED
  BY <1>1, <1>2, <1>5, <1>6, Quiet

LEMMA FailKeeps == ASSUME StreakInv, NEW p \in Proc, Fail(p) PROVE StreakInv'
<1> DEFINE r == req[p]
<1>1. /\ TypeOK /\ r \in Request /\ Base(r, practised, done)
  BY Known
<1>2. PICK pc \in {"idle", "give", "chest"} : Goto(p, r, pc)
  BY DEF Fail, AfterActivity
<1>3. UNCHANGED <<day, streakVars, questVars, xpVars, sent>>
  BY DEF Fail
<1>4. pc \in Pc /\ AtStep(r, pc, earned, practised)
  BY DEF Pc, Activity, AtStep
<1>5. lost' \subseteq Week \X Reward
  <2>1. lost \subseteq Week \X Reward /\ r.w \in Week /\ r.pays \subseteq Reward
    BY <1>1 DEF TypeOK, Request
  <2>2. lost' = IF r.pc = "pay" THEN lost \cup ({r.w} \X r.pays) ELSE lost
    BY DEF Fail
  <2>3. QED
    BY <2>1, <2>2
<1>6. fails' \in Nat
  BY <1>1 DEF Fail, TypeOK
<1> HIDE DEF r
<1>7. QED
  BY <1>1, <1>2, <1>3, <1>4, <1>5, <1>6, Quiet

-----------------------------------------------------------------------------
(* Writes *)

LEMMA SameGrows ==
  ASSUME StreakInv, UNCHANGED <<earned, practised, done>> PROVE Grows
BY DEF StreakInv, TypeOK, Grows

LEMMA SameRow ==
  ASSUME StreakInv, Grows, UNCHANGED row PROVE RowFits
<1>1. /\ row \in StreakRow /\ row.spent \in Nat /\ row.last \in Day /\ row.current \in Nat
      /\ practised \in SUBSET Day /\ practised' \in SUBSET Day /\ earned \in Nat
      /\ row.spent <= earned /\ row.current <= By(practised, row.last)
  BY DEF StreakInv, TypeOK, StreakRow, Grows, NeverOverspent, StreakIsEarned, By
<1>2. row.last <= row.last
  BY <1>1, RewardsAssumption DEF Day
<1>3. /\ By(practised, row.last) <= By(practised', row.last)
      /\ By(practised, row.last) \in Nat /\ By(practised', row.last) \in Nat
  BY <1>1, <1>2, ByGrows DEF Grows
<1>4. row.current <= By(practised', row.last) /\ row.spent <= earned'
  BY <1>1, <1>3 DEF Grows
<1>5. QED
  BY <1>1, <1>4 DEF RowFits

LEMMA SameWeeks ==
  ASSUME StreakInv, Grows, UNCHANGED week PROVE WeeksFit
BY DEF StreakInv, TypeOK, PaysForWork, Grows, WeeksFit

LEMMA PayKeeps == ASSUME StreakInv, NEW p \in Proc, Pay(p) PROVE StreakInv'
<1> DEFINE r == [req[p] EXCEPT !.today = day]
           o == req[p]
<1>1. /\ TypeOK /\ o \in Request /\ Base(o, practised, done)
  BY Known
<1>2. /\ Goto(p, r, "freeze")
      /\ earned' = earned + o.amount
      /\ capped' = IF o.kind = "capped"
                   THEN [d \in Day |-> IF d <= day THEN capped[d] + o.amount ELSE capped[d]]
                   ELSE capped
      /\ paid' = [paid EXCEPT ![o.w] = [x \in Reward |-> @[x] + IF x \in o.pays THEN 1 ELSE 0]]
      /\ UNCHANGED <<day, row, shown, frozen, practised, week, done, lost, sent, fails>>
  BY DEF Pay, streakVars, questVars
<1>3. o.amount \in Nat /\ earned \in Nat /\ o.w \in Week /\ day \in Day
  BY <1>1 DEF TypeOK, Request
<1>4. Grows
  BY <1>1, <1>2, <1>3 DEF Grows, TypeOK
<1>5. Typed
  <2>1. paid' \in [Week -> [Reward -> Nat]]
    <3>1. paid \in [Week -> [Reward -> Nat]]
      BY <1>1 DEF TypeOK
    <3>2. \A x \in Reward : paid[o.w][x] + (IF x \in o.pays THEN 1 ELSE 0) \in Nat
      BY <1>3, <3>1
    <3>3. QED
      BY <1>2, <1>3, <3>1, <3>2
  <2>2. capped' \in [Day -> Nat]
    <3>1. capped \in [Day -> Nat]
      BY <1>1 DEF TypeOK
    <3>2. \A d \in Day : capped[d] + o.amount \in Nat
      BY <1>3, <3>1
    <3>3. QED
      BY <1>2, <3>1, <3>2
  <2>3. QED
    BY <1>1, <1>2, <2>1, <2>2 DEF Typed, TypeOK
<1>6. r \in Request /\ r.seen = o.seen /\ r.fresh = o.fresh /\ r.w = o.w /\ r.all = o.all
  BY <1>1, <1>3 DEF Request
<1>7. Base(r, practised, done)
  BY <1>1, <1>6 DEF Base
<1>8. "freeze" \in Pc /\ AtStep(r, "freeze", earned', practised')
  BY DEF Pc, Activity, AtStep
<1> HIDE DEF r, o
<1>9. \E new \in Request : Becomes(p, new)
  BY <1>2, <1>4, <1>6, <1>7, <1>8, Going
<1>10. RowFits /\ WeeksFit
  BY <1>2, <1>4, SameRow, SameWeeks
<1>11. QED
  BY <1>4, <1>5, <1>9, <1>10, Keep

\* A step that changes the row only, for a handler that goes on with r.
LEMMA RowStep ==
  ASSUME StreakInv, NEW p \in Proc, NEW r \in Request, NEW pc \in Pc, Goto(p, r, pc),
         Base(r, practised, done), pc \notin {"buy", "spend", "write", "claim", "cap"},
         UNCHANGED <<day, shown, frozen, practised, questVars, xpVars, lost, sent, fails>>,
         row' \in StreakRow, row'.spent <= earned, row'.current <= By(practised, row'.last)
  PROVE  StreakInv'
<1>1. TypeOK /\ UNCHANGED <<earned, capped, paid, week, done>>
  BY DEF StreakInv, questVars, xpVars
<1>2. Grows /\ WeeksFit
  BY <1>1, SameGrows, SameWeeks
<1>3. RowFits /\ Typed
  BY <1>1 DEF RowFits, Typed, TypeOK
<1>4. AtStep(r, pc, earned', practised')
  BY DEF AtStep
<1>5. \E new \in Request : Becomes(p, new)
  BY <1>2, <1>4, Going
<1>6. QED
  BY <1>2, <1>3, <1>5, Keep

LEMMA SpendFreezesKeeps == ASSUME StreakInv, NEW p \in Proc, SpendFreezes(p) PROVE StreakInv'
<1> DEFINE r == req[p]
           hit == row.last = r.seen.last /\ row.freezes >= Missed(r)
           pc == IF hit THEN "cover" ELSE AfterFreezes(r)
<1>1. /\ TypeOK /\ r \in Request /\ Base(r, practised, done)
      /\ AtStep(r, r.pc, earned, practised) /\ r.pc = "spend"
  BY Known DEF SpendFreezes
<1>2. /\ Goto(p, r, pc)
      /\ row' = IF hit THEN [row EXCEPT !.freezes = @ - Missed(r), !.last = r.today - 1] ELSE row
      /\ UNCHANGED <<day, shown, frozen, practised, questVars, xpVars, lost, sent, fails>>
  BY DEF SpendFreezes
<1>3. pc \in {"cover", "idle", "read"}
  BY DEF AfterFreezes
<1>4. /\ row \in StreakRow /\ row.spent <= earned /\ row.current <= By(practised, row.last)
      /\ practised \in SUBSET Day
  BY DEF StreakInv, TypeOK, NeverOverspent, StreakIsEarned, By
<1>5. row' \in StreakRow /\ row'.spent <= earned /\ row'.current <= By(practised, row'.last)
  <2>1. CASE ~hit
    BY <1>2, <1>4, <2>1
  <2>2. CASE hit
    <3>1. /\ r.today \in Nat /\ r.today <= MaxDay /\ r.seen.last \in Nat /\ row.freezes \in Nat
          /\ row.freezes <= MAX_FREEZES /\ MaxDay \in Nat /\ MAX_FREEZES \in Nat
          /\ Missed(r) = r.today - r.seen.last - 1 /\ Missed(r) >= 1
      BY <1>1, <1>4, RewardsAssumption DEF Request, StreakRow, Day, AtStep, Missed
    <3>2. /\ r.today - 1 \in Day /\ row.freezes - Missed(r) \in 0..MAX_FREEZES
          /\ row.last <= r.today - 1
      BY <2>2, <3>1 DEF Day
    <3>3. /\ row' \in StreakRow /\ row'.spent = row.spent /\ row'.current = row.current
          /\ row'.last = r.today - 1
      BY <1>2, <1>4, <2>2, <3>2 DEF StreakRow
    <3>4. row.last \in Day /\ row.current \in Nat
      BY <1>4 DEF StreakRow
    <3>5. /\ By(practised, row.last) <= By(practised, r.today - 1)
          /\ By(practised, row.last) \in Nat /\ By(practised, r.today - 1) \in Nat
      BY <1>4, <3>2, <3>4, ByGrows
    <3>6. QED
      BY <1>4, <3>3, <3>4, <3>5
  <2>3. QED
    BY <2>1, <2>2
<1> HIDE DEF r, pc, hit
<1>6. pc \in Pc /\ pc \notin {"buy", "spend", "write", "claim", "cap"}
  BY <1>3 DEF Pc, Activity
<1>7. QED
  BY <1>1, <1>2, <1>5, <1>6, RowStep

LEMMA WriteStreakKeeps == ASSUME StreakInv, NEW p \in Proc, WriteStreak(p) PROVE StreakInv'
<1> DEFINE r == req[p]
<1>1. /\ TypeOK /\ r \in Request /\ Base(r, practised, done)
      /\ AtStep(r, r.pc, earned, practised) /\ r.pc = "write"
  BY Known DEF WriteStreak
<1>2. /\ Goto(p, r, "show")
      /\ row' = [row EXCEPT !.exists = TRUE, !.current = NewCurrent(r),
                            !.longest = Most(r.seen.longest, NewCurrent(r)), !.last = r.today]
      /\ UNCHANGED <<day, shown, frozen, practised, questVars, xpVars, lost, sent, fails>>
  BY DEF WriteStreak
<1>3. /\ row \in StreakRow /\ row.spent <= earned /\ practised \in SUBSET Day
      /\ r.today \in practised /\ r.today \in Day
      /\ r.seen.current <= By(practised, r.seen.last)
      /\ r.seen \in StreakRow /\ r.seen.current \in Nat /\ r.seen.last \in Day /\ r.seen.longest \in Nat
  BY <1>1 DEF StreakInv, TypeOK, NeverOverspent, AtStep, Base, Request, StreakRow
<1>4. NewCurrent(r) \in Nat /\ NewCurrent(r) <= By(practised, r.today)
  <2>1. By(practised, r.today) \in Nat /\ By(practised, r.seen.last) \in Nat
    <3>1. r.today <= r.today /\ r.seen.last <= r.seen.last
      BY <1>3, RewardsAssumption DEF Day
    <3>2. QED
      BY <1>3, <3>1, ByGrows
  <2>2. CASE r.seen.exists /\ r.today - r.seen.last = 1
    <3>1. r.seen.last < r.today
      BY <1>3, <2>2, RewardsAssumption DEF Day
    <3>2. By(practised, r.seen.last) + 1 <= By(practised, r.today)
      BY <1>3, <3>1, ByNext
    <3>3. NewCurrent(r) = r.seen.current + 1
      BY <2>2 DEF NewCurrent
    <3>4. QED
      BY <1>3, <2>1, <3>2, <3>3
  <2>3. CASE ~(r.seen.exists /\ r.today - r.seen.last = 1)
    <3>1. r.today \in {e \in practised : e <= r.today}
      BY <1>3, RewardsAssumption DEF Day
    <3>2. {r.today} \subseteq {e \in practised : e <= r.today}
      BY <3>1
    <3>3. IsFiniteSet({e \in practised : e <= r.today})
      <4>1. MaxDay \in Nat
        BY RewardsAssumption
      <4>2. IsFiniteSet(0..MaxDay)
        BY <4>1, FS_Interval
      <4>3. {e \in practised : e <= r.today} \subseteq 0..MaxDay
        BY <1>3 DEF Day
      <4>4. QED
        BY <4>2, <4>3, FS_Subset
    <3>4. Cardinality({r.today}) = 1 /\ Cardinality({r.today}) <= By(practised, r.today)
      BY <3>2, <3>3, FS_Singleton, FS_Subset DEF By
    <3>5. NewCurrent(r) = 1
      BY <2>3 DEF NewCurrent
    <3>6. QED
      BY <3>4, <3>5
  <2>4. QED
    BY <2>2, <2>3
<1>5. Most(r.seen.longest, NewCurrent(r)) \in Nat
  BY <1>3, <1>4 DEF Most
<1>6. /\ row' \in StreakRow /\ row'.spent = row.spent /\ row'.current = NewCurrent(r)
      /\ row'.last = r.today
  BY <1>2, <1>3, <1>4, <1>5 DEF StreakRow
<1>7. "show" \in Pc
  BY DEF Pc, Activity
<1> HIDE DEF r
<1>8. QED
  BY <1>1, <1>2, <1>3, <1>4, <1>6, <1>7, RowStep

LEMMA CoverDaysKeeps == ASSUME StreakInv, NEW p \in Proc, CoverDays(p) PROVE StreakInv'
<1> DEFINE r == req[p]
           pc == AfterFreezes(r)
<1>1. TypeOK /\ r \in Request /\ Base(r, practised, done)
  BY Known
<1>2. /\ Goto(p, r, pc)
      /\ frozen' = frozen \cup ((r.seen.last + 1)..(r.today - 1))
      /\ UNCHANGED <<day, row, shown, practised, week, done, earned, capped, paid, lost, sent, fails>>
  BY DEF CoverDays, questVars, xpVars
<1>3. frozen' \subseteq Day
  <2>1. frozen \subseteq Day /\ r.seen.last \in 0..MaxDay /\ r.today \in 0..MaxDay /\ MaxDay \in Nat
    BY <1>1, RewardsAssumption DEF TypeOK, Request, StreakRow, Day
  <2>2. (r.seen.last + 1)..(r.today - 1) \subseteq 0..MaxDay
    BY <2>1
  <2>3. QED
    BY <1>2, <2>1, <2>2 DEF Day
<1>4. Grows /\ RowFits /\ WeeksFit
  BY <1>2, SameGrows, SameRow, SameWeeks
<1>5. Typed
  BY <1>1, <1>2, <1>3 DEF Typed, TypeOK
<1>6. pc \in {"idle", "read"}
  BY DEF AfterFreezes
<1> HIDE DEF r, pc
<1>7. pc \in Pc /\ AtStep(r, pc, earned', practised')
  BY <1>6 DEF Pc, Activity, AtStep
<1>8. \E new \in Request : Becomes(p, new)
  BY <1>1, <1>2, <1>4, <1>7, Going
<1>9. QED
  BY <1>4, <1>5, <1>8, Keep

LEMMA ReadStreakKeeps == ASSUME StreakInv, NEW p \in Proc, ReadStreak(p) PROVE StreakInv'
<1> DEFINE r == [req[p] EXCEPT !.seen = row]
           pc == IF row.exists /\ r.today <= row.last THEN AfterActivity(r) ELSE "write"
<1>1. TypeOK /\ req[p] \in Request /\ Base(req[p], practised, done)
  BY Known
<1>2. r \in Request /\ Base(r, practised, done)
  BY <1>1, RowRead
<1>3. /\ Goto(p, r, pc)
      /\ practised' = practised \cup {r.today}
      /\ UNCHANGED <<day, row, shown, frozen, week, done, earned, capped, paid, lost, sent, fails>>
  BY DEF ReadStreak, questVars, xpVars
<1>4. r.today \in Day
  BY <1>2 DEF Request
<1>5. pc \in {"idle", "give", "chest", "write"}
  BY DEF AfterActivity
<1> HIDE DEF r, pc
<1>6. Grows
  BY <1>1, <1>3, <1>4 DEF Grows, TypeOK
<1>7. RowFits /\ WeeksFit
  BY <1>3, <1>6, SameRow, SameWeeks
<1>8. Typed
  BY <1>1, <1>3 DEF Typed, TypeOK
<1>9. pc \in Pc /\ AtStep(r, pc, earned', practised')
  BY <1>3, <1>5 DEF Pc, Activity, AtStep
<1>10. \E new \in Request : Becomes(p, new)
  BY <1>2, <1>3, <1>6, <1>9, Going
<1>11. QED
  BY <1>6, <1>7, <1>8, <1>10, Keep

LEMMA ShowStreakKeeps == ASSUME StreakInv, NEW p \in Proc, ShowStreak(p) PROVE StreakInv'
<1> DEFINE r == req[p]
           pc == AfterActivity(r)
<1>1. TypeOK /\ r \in Request /\ Base(r, practised, done)
  BY Known
<1>2. /\ Goto(p, r, pc) /\ shown' = NewCurrent(r)
      /\ UNCHANGED <<day, row, frozen, practised, week, done, earned, capped, paid, lost, sent, fails>>
  BY DEF ShowStreak, questVars, xpVars
<1>3. NewCurrent(r) \in Nat
  BY <1>1 DEF NewCurrent, Request, StreakRow
<1>4. pc \in {"idle", "give", "chest"}
  BY DEF AfterActivity
<1> HIDE DEF r, pc
<1>5. Grows /\ RowFits /\ WeeksFit
  BY <1>2, SameGrows, SameRow, SameWeeks
<1>6. Typed
  BY <1>1, <1>2, <1>3 DEF Typed, TypeOK
<1>7. pc \in Pc /\ AtStep(r, pc, earned', practised')
  BY <1>4 DEF Pc, Activity, AtStep
<1>8. \E new \in Request : Becomes(p, new)
  BY <1>1, <1>2, <1>5, <1>7, Going
<1>9. QED
  BY <1>5, <1>6, <1>8, Keep

\* A step that writes the week's row only.
LEMMA WeekStep ==
  ASSUME StreakInv, NEW p \in Proc, NEW r \in Request, NEW pc \in Pc, Goto(p, r, pc),
         Base(r, practised, done), pc \notin {"buy", "spend", "write", "claim", "cap"},
         UNCHANGED <<day, streakVars, done, xpVars, lost, sent, fails>>,
         WeeksFit
  PROVE  StreakInv'
<1>1. TypeOK /\ UNCHANGED <<earned, capped, paid, row, shown, frozen, practised>>
  BY DEF StreakInv, streakVars, xpVars
<1>2. Grows /\ RowFits
  BY <1>1, SameGrows, SameRow
<1>3. Typed
  BY <1>1 DEF Typed, TypeOK
<1>4. AtStep(r, pc, earned', practised')
  BY DEF AtStep
<1>5. \E new \in Request : Becomes(p, new)
  BY <1>2, <1>4, Going
<1>6. QED
  BY <1>2, <1>3, <1>5, Keep

\* The row of one week is replaced by one that fits.
LEMMA WeekWritten ==
  ASSUME StreakInv, UNCHANGED done, NEW w \in Week, NEW q \in QuestRow,
         week' = [week EXCEPT ![w] = q],
         q.mask \subseteq done[w], q.completed => done[w] = Quest
  PROVE  WeeksFit
BY DEF StreakInv, TypeOK, PaysForWork, WeeksFit

LEMMA MakeWeekKeeps == ASSUME StreakInv, NEW p \in Proc, MakeWeek(p) PROVE StreakInv'
<1> DEFINE o == req[p]
           q == [week[o.w] EXCEPT !.made = TRUE]
           r == [o EXCEPT !.quests = q]
<1>1. TypeOK /\ PaysForWork /\ o \in Request /\ Base(o, practised, done)
  BY Known
<1>2. o.w \in Week /\ week[o.w] \in QuestRow /\ week \in [Week -> QuestRow]
  BY <1>1 DEF TypeOK, Request
<1>3. /\ q \in QuestRow /\ q.mask = week[o.w].mask /\ q.completed = week[o.w].completed
  BY <1>2 DEF QuestRow
<1>4. week' = [week EXCEPT ![o.w] = q] /\ week'[o.w] = q
  BY <1>2 DEF MakeWeek
<1>5. /\ Goto(p, r, "measure")
      /\ UNCHANGED <<day, streakVars, done, xpVars, lost, sent, fails>>
  BY <1>4 DEF MakeWeek
<1>6. WeeksFit
  BY <1>1, <1>2, <1>3, <1>4, <1>5, WeekWritten DEF PaysForWork
<1>7. r \in Request /\ r.seen = o.seen /\ r.fresh = o.fresh /\ r.w = o.w /\ r.all = o.all
  BY <1>1, <1>3 DEF Request
<1> HIDE DEF o, q, r
<1>8. Base(r, practised, done)
  BY <1>1, <1>7 DEF Base
<1>9. "measure" \in Pc
  BY DEF Pc
<1>10. QED
  BY <1>5, <1>6, <1>7, <1>8, <1>9, WeekStep

LEMMA ClaimQuestsKeeps == ASSUME StreakInv, NEW p \in Proc, ClaimQuests(p) PROVE StreakInv'
<1> DEFINE o == req[p]
           hit == week[o.w].mask = o.quests.mask
           q == [week[o.w] EXCEPT !.mask = @ \cup o.fresh]
           r == [o EXCEPT !.pays = o.fresh, !.amount = QUEST_XP * Cardinality(o.fresh)]
<1>1. TypeOK /\ PaysForWork /\ o \in Request /\ Base(o, practised, done)
  BY Known
<1>2. /\ o.w \in Week /\ week[o.w] \in QuestRow /\ week \in [Week -> QuestRow]
      /\ o.fresh \subseteq Quest /\ o.fresh \subseteq done[o.w]
  BY <1>1 DEF TypeOK, Request, Base
<1>3. UNCHANGED <<day, streakVars, done, xpVars, lost, sent, fails>>
  BY DEF ClaimQuests
<1>4. CASE ~hit
  <2>1. Goto(p, o, "chest") /\ UNCHANGED week /\ UNCHANGED <<earned, practised>>
    BY <1>3, <1>4 DEF ClaimQuests, streakVars, xpVars
  <2>2. WeeksFit /\ "chest" \in Pc
    BY <1>3, <2>1, SameGrows, SameWeeks DEF Pc
  <2>3. QED
    BY <1>1, <1>3, <2>1, <2>2, WeekStep
<1>5. CASE hit
  <2>1. Goto(p, r, "pay") /\ week' = [week EXCEPT ![o.w] = q]
    BY <1>2, <1>5 DEF ClaimQuests
  <2>2. /\ q \in QuestRow /\ q.mask = week[o.w].mask \cup o.fresh
        /\ q.completed = week[o.w].completed
    BY <1>2 DEF QuestRow
  <2>3. q.mask \subseteq done[o.w] /\ (q.completed => done[o.w] = Quest)
    BY <1>1, <1>2, <2>2 DEF PaysForWork
  <2>4. WeeksFit
    BY <1>2, <1>3, <2>1, <2>2, <2>3, WeekWritten
  <2>5. QUEST_XP * Cardinality(o.fresh) \in Nat
    <3>1. IsFiniteSet(o.fresh)
      BY <1>2, RewardsAssumption, FS_Subset
    <3>2. Cardinality(o.fresh) \in Nat /\ QUEST_XP \in Nat
      BY <3>1, RewardsAssumption, FS_CardinalityType
    <3>3. QED
      BY <3>2
  <2>6. o.fresh \subseteq Reward
    BY <1>2 DEF Reward
  <2> DEFINE amount == QUEST_XP * Cardinality(o.fresh)
  <2> HIDE DEF amount
  <2>7. r = [o EXCEPT !.pays = o.fresh, !.amount = amount] /\ amount \in Nat
    BY <2>5 DEF amount
  <2> HIDE DEF r
  <2>8. r \in Request /\ r.seen = o.seen /\ r.fresh = o.fresh /\ r.w = o.w /\ r.all = o.all
    BY <1>1, <2>6, <2>7 DEF Request
  <2> HIDE DEF o, q, hit
  <2>9. Base(r, practised, done) /\ "pay" \in Pc
    BY <1>1, <2>8 DEF Base, Pc, Activity
  <2>10. QED
    BY <1>3, <2>1, <2>4, <2>8, <2>9, WeekStep
<1>6. QED
  BY <1>4, <1>5

LEMMA OpenChestKeeps == ASSUME StreakInv, NEW p \in Proc, OpenChest(p) PROVE StreakInv'
<1> DEFINE o == req[p]
           hit == o.all /\ ~o.quests.completed /\ ~week[o.w].completed
           q == [week[o.w] EXCEPT !.completed = TRUE]
           r == [o EXCEPT !.pays = {Chest}, !.amount = CHEST_XP]
<1>1. TypeOK /\ PaysForWork /\ o \in Request /\ Base(o, practised, done)
  BY Known
<1>2. o.w \in Week /\ week[o.w] \in QuestRow /\ week \in [Week -> QuestRow]
  BY <1>1 DEF TypeOK, Request
<1>3. UNCHANGED <<day, streakVars, done, xpVars, lost, sent, fails>>
  BY DEF OpenChest
<1>4. CASE ~hit
  <2>1. Goto(p, o, "idle") /\ UNCHANGED week /\ UNCHANGED <<earned, practised>>
    BY <1>3, <1>4 DEF OpenChest, streakVars, xpVars
  <2>2. WeeksFit /\ "idle" \in Pc
    BY <1>3, <2>1, SameGrows, SameWeeks DEF Pc
  <2>3. QED
    BY <1>1, <1>3, <2>1, <2>2, WeekStep
<1>5. CASE hit
  <2>1. Goto(p, r, "pay") /\ week' = [week EXCEPT ![o.w] = q]
    BY <1>2, <1>5 DEF OpenChest
  <2>2. q \in QuestRow /\ q.mask = week[o.w].mask
    BY <1>2 DEF QuestRow
  <2>3. q.mask \subseteq done[o.w] /\ done[o.w] = Quest
    BY <1>1, <1>2, <1>5, <2>2 DEF PaysForWork, Base
  <2>4. WeeksFit
    BY <1>2, <1>3, <2>1, <2>2, <2>3, WeekWritten
  <2>5. {Chest} \subseteq Reward /\ CHEST_XP \in Nat
    BY RewardsAssumption DEF Reward
  <2>6. r \in Request /\ r.seen = o.seen /\ r.fresh = o.fresh /\ r.w = o.w /\ r.all = o.all
    BY <1>1, <2>5 DEF Request
  <2> HIDE DEF o, q, r, hit
  <2>7. Base(r, practised, done) /\ "pay" \in Pc
    BY <1>1, <2>6 DEF Base, Pc, Activity
  <2>8. QED
    BY <1>3, <2>1, <2>4, <2>6, <2>7, WeekStep
<1>6. QED
  BY <1>4, <1>5

LEMMA GiveFreezeKeeps == ASSUME StreakInv, NEW p \in Proc, GiveFreeze(p) PROVE StreakInv'
<1> DEFINE r == req[p]
           hit == row.exists /\ row.freezes < MAX_FREEZES
           pc == IF hit THEN "mark" ELSE "idle"
<1>1. TypeOK /\ r \in Request /\ Base(r, practised, done)
  BY Known
<1>2. /\ Goto(p, r, pc)
      /\ row' = IF hit THEN [row EXCEPT !.freezes = @ + 1] ELSE row
      /\ UNCHANGED <<day, shown, frozen, practised, questVars, xpVars, lost, sent, fails>>
  BY DEF GiveFreeze
<1>3. row \in StreakRow /\ row.spent <= earned /\ row.current <= By(practised, row.last)
  BY DEF StreakInv, TypeOK, NeverOverspent, StreakIsEarned, By
<1>4. row' \in StreakRow /\ row'.spent <= earned /\ row'.current <= By(practised, row'.last)
  <2>1. hit => row.freezes + 1 \in 0..MAX_FREEZES
    BY <1>3, RewardsAssumption DEF StreakRow
  <2>2. hit => /\ row' \in StreakRow /\ row'.spent = row.spent /\ row'.current = row.current
               /\ row'.last = row.last
    BY <1>2, <1>3, <2>1 DEF StreakRow
  <2> HIDE DEF hit
  <2>3. QED
    BY <1>2, <1>3, <2>2
<1>5. pc \in {"mark", "idle"}
  OBVIOUS
<1> HIDE DEF r, pc, hit
<1>6. pc \in Pc /\ pc \notin {"buy", "spend", "write", "claim", "cap"}
  BY <1>5 DEF Pc, Activity
<1>7. QED
  BY <1>1, <1>2, <1>4, <1>6, RowStep

LEMMA MarkGivenKeeps == ASSUME StreakInv, NEW p \in Proc, MarkGiven(p) PROVE StreakInv'
<1> DEFINE o == req[p]
           q == [week[o.w] EXCEPT !.given = TRUE]
<1>1. TypeOK /\ PaysForWork /\ o \in Request /\ Base(o, practised, done)
  BY Known
<1>2. o.w \in Week /\ week[o.w] \in QuestRow /\ week \in [Week -> QuestRow]
  BY <1>1 DEF TypeOK, Request
<1>3. q \in QuestRow /\ q.mask = week[o.w].mask /\ q.completed = week[o.w].completed
  BY <1>2 DEF QuestRow
<1>4. /\ Goto(p, o, "idle") /\ week' = [week EXCEPT ![o.w] = q]
      /\ UNCHANGED <<day, streakVars, done, xpVars, lost, sent, fails>>
  BY <1>2 DEF MarkGiven
<1>5. WeeksFit
  BY <1>1, <1>2, <1>3, <1>4, WeekWritten DEF PaysForWork
<1>6. "idle" \in Pc
  BY DEF Pc
<1> HIDE DEF o, q
<1>7. QED
  BY <1>1, <1>4, <1>5, <1>6, WeekStep

LEMMA BuyKeeps == ASSUME StreakInv, NEW p \in Proc, Buy(p) PROVE StreakInv'
<1> DEFINE o == req[p]
           r == [o EXCEPT !.today = day]
           hit == row.spent = o.seen.spent /\ row.freezes < MAX_FREEZES
           pc == IF hit THEN "freeze" ELSE "idle"
<1>1. /\ TypeOK /\ o \in Request /\ Base(o, practised, done)
      /\ AtStep(o, o.pc, earned, practised) /\ o.pc = "buy"
  BY Known DEF Buy
<1>2. /\ Goto(p, r, pc)
      /\ row' = IF hit THEN [row EXCEPT !.freezes = @ + 1, !.spent = @ + FREEZE_PRICE] ELSE row
      /\ UNCHANGED <<day, shown, frozen, practised, questVars, xpVars, lost, sent, fails>>
  BY DEF Buy
<1>3. row \in StreakRow /\ row.spent <= earned /\ row.current <= By(practised, row.last)
  BY DEF StreakInv, TypeOK, NeverOverspent, StreakIsEarned, By
<1>4. row' \in StreakRow /\ row'.spent <= earned /\ row'.current <= By(practised, row'.last)
  <2>1. hit => /\ row.freezes + 1 \in 0..MAX_FREEZES /\ row.spent + FREEZE_PRICE \in Nat
               /\ row.spent + FREEZE_PRICE <= earned
    BY <1>1, <1>3, RewardsAssumption DEF StreakRow, AtStep
  <2>2. hit => /\ row' \in StreakRow /\ row'.spent = row.spent + FREEZE_PRICE
               /\ row'.current = row.current /\ row'.last = row.last
    BY <1>2, <1>3, <2>1 DEF StreakRow
  <2> HIDE DEF hit
  <2>3. QED
    BY <1>2, <1>3, <2>1, <2>2
<1>5. pc \in {"freeze", "idle"}
  OBVIOUS
<1>6. day \in Day
  BY <1>1 DEF TypeOK
<1>7. r \in Request /\ r.seen = o.seen /\ r.fresh = o.fresh /\ r.w = o.w /\ r.all = o.all
  BY <1>1, <1>6 DEF Request
<1> HIDE DEF o, r, pc, hit
<1>8. Base(r, practised, done)
  BY <1>1, <1>7 DEF Base
<1>9. pc \in Pc /\ pc \notin {"buy", "spend", "write", "claim", "cap"}
  BY <1>5 DEF Pc, Activity
<1>10. QED
  BY <1>2, <1>4, <1>7, <1>8, <1>9, RowStep

-----------------------------------------------------------------------------
(* The world *)

LEMMA FinishQuestKeeps ==
  ASSUME StreakInv, NEW w \in Week, NEW q \in Quest, FinishQuest(w, q) PROVE StreakInv'
<1>1. TypeOK
  BY DEF StreakInv
<1>2. /\ done' = [done EXCEPT ![w] = @ \cup {q}]
      /\ UNCHANGED <<day, row, shown, frozen, practised, week, earned, capped, paid, req, lost,
                     sent, fails>>
  BY DEF FinishQuest, streakVars, xpVars
<1>3. Grows
  BY <1>1, <1>2 DEF Grows, TypeOK
<1>4. RowFits /\ WeeksFit
  BY <1>2, <1>3, SameRow, SameWeeks
<1>5. Typed
  BY <1>1, <1>2 DEF Typed, TypeOK
<1>6. QED
  BY <1>2, <1>3, <1>4, <1>5, Keep

LEMMA MidnightKeeps == ASSUME StreakInv, Midnight PROVE StreakInv'
<1>1. TypeOK
  BY DEF StreakInv
<1>2. /\ UNCHANGED <<row, shown, frozen, practised, week, done, earned, capped, paid, req, lost,
                     sent, fails>>
      /\ day < MaxDay /\ day' = day + 1
  BY DEF Midnight, streakVars, questVars, xpVars
<1>3. day' \in Day
  BY <1>1, <1>2, RewardsAssumption DEF TypeOK, Day
<1>4. Grows /\ RowFits /\ WeeksFit
  BY <1>2, SameGrows, SameRow, SameWeeks
<1>5. Typed
  BY <1>1, <1>2, <1>3 DEF Typed, TypeOK
<1>6. QED
  BY <1>2, <1>4, <1>5, Keep

-----------------------------------------------------------------------------
(* The theorems *)

LEMMA StreakInit == Init => StreakInv
<1> SUFFICES ASSUME Init PROVE StreakInv
  OBVIOUS
<1>1. /\ MaxDay \in Nat /\ 0 \in Day /\ MAX_FREEZES \in Nat /\ FREEZE_PRICE \in Nat
  BY RewardsAssumption DEF Day
<1>2. NoRow \in StreakRow /\ NoWeek \in QuestRow
  BY <1>1 DEF NoRow, StreakRow, NoWeek, QuestRow
<1>3. row \in StreakRow /\ row.last = 0 /\ row.current = IF row.exists THEN 1 ELSE 0
  <2>1. CASE row = NoRow
    BY <1>2, <2>1 DEF NoRow
  <2>2. CASE \E f \in 0..MAX_FREEZES :
               row = [exists |-> TRUE, current |-> 1, longest |-> 1, last |-> 0,
                      freezes |-> f, spent |-> f * FREEZE_PRICE]
    <3>1. PICK f \in 0..MAX_FREEZES :
               row = [exists |-> TRUE, current |-> 1, longest |-> 1, last |-> 0,
                      freezes |-> f, spent |-> f * FREEZE_PRICE]
      BY <2>2
    <3>2. f * FREEZE_PRICE \in Nat
      BY <1>1
    <3>3. QED
      BY <1>1, <3>1, <3>2 DEF StreakRow
  <2>3. QED
    BY <2>1, <2>2 DEF Init
<1>4. /\ day = 0 /\ shown = row.current /\ frozen = {} /\ earned = row.spent
      /\ capped = [d \in Day |-> 0] /\ week = [w \in Week |-> NoWeek]
      /\ done = [w \in Week |-> {}] /\ req = [p \in Proc |-> Idle]
      /\ paid = [w \in Week |-> [x \in Reward |-> 0]] /\ lost = {}
      /\ practised = (IF row.exists THEN {0} ELSE {}) /\ sent = 0 /\ fails = 0
  BY DEF Init
<1>5. Idle \in Request
  BY <1>1, <1>2 DEF Idle, Request, Pc, Activity, Kinds, Week
<1>6. TypeOK
  <2>1. row.spent \in Nat /\ row.current \in Nat /\ practised \subseteq Day
    BY <1>1, <1>3, <1>4 DEF StreakRow
  <2>2. QED
    BY <1>1, <1>2, <1>3, <1>4, <1>5, <2>1 DEF TypeOK
<1>7. row.current <= By(practised, row.last)
  <2>1. CASE row.exists
    <3>1. {e \in practised : e <= row.last} = {0}
      BY <1>3, <1>4, <2>1
    <3>2. By(practised, row.last) = 1
      BY <3>1, FS_Singleton DEF By
    <3>3. QED
      BY <1>3, <2>1, <3>2
  <2>2. CASE ~row.exists
    <3>1. {e \in practised : e <= row.last} = {}
      BY <1>4, <2>2
    <3>2. By(practised, row.last) = 0
      BY <3>1, FS_EmptySet DEF By
    <3>3. QED
      BY <1>3, <2>2, <3>2
  <2>3. QED
    BY <2>1, <2>2
<1>8. NeverOverspent
  BY <1>3, <1>4 DEF NeverOverspent, StreakRow
<1>9. PaysForWork
  BY <1>4 DEF PaysForWork, NoWeek
<1>10. \A p \in Proc : Sound(req[p])
  <2>1. By(practised, 0) \in Nat
    BY <1>3, <1>6, <1>7, <1>1, ByGrows DEF TypeOK
  <2>2. Base(Idle, practised, done) /\ AtStep(Idle, Idle.pc, earned, practised)
    BY <1>1, <1>4, <2>1 DEF Idle, Base, AtStep, NoRow, Week
  <2>3. QED
    BY <1>4, <2>2, SoundParts
<1>11. QED
  BY <1>6, <1>7, <1>8, <1>9, <1>10 DEF StreakInv, StreakIsEarned, By

LEMMA ServeKeeps == ASSUME StreakInv, NEW p \in Proc, Serve(p) PROVE StreakInv'
BY ReadCapKeeps, PayKeeps, ReadFreezesKeeps, SpendFreezesKeeps, CoverDaysKeeps, ReadStreakKeeps,
   WriteStreakKeeps, ShowStreakKeeps, ReadWeekKeeps, MakeWeekKeeps, MeasureKeeps,
   ClaimQuestsKeeps, OpenChestKeeps, GiveFreezeKeeps, MarkGivenKeeps, ReadShopKeeps,
   ReadBalanceKeeps, BuyKeeps DEF Serve

LEMMA StreakNext == StreakInv /\ [Next]_vars => StreakInv'
<1> SUFFICES ASSUME StreakInv, [Next]_vars PROVE StreakInv'
  OBVIOUS
<1>1. CASE UNCHANGED vars
  <2>1. /\ UNCHANGED <<day, row, shown, frozen, practised, week, done, earned, capped, paid, req,
                       lost, sent, fails>>
    BY <1>1 DEF vars, streakVars, questVars, xpVars
  <2>2. Grows /\ RowFits /\ WeeksFit
    BY <2>1, SameGrows, SameRow, SameWeeks
  <2>3. Typed
    BY <2>1 DEF StreakInv, Typed, TypeOK
  <2>4. QED
    BY <2>1, <2>2, <2>3, Keep
<1>2. CASE Midnight
  BY <1>2, MidnightKeeps
<1>3. ASSUME NEW w \in Week, NEW q \in Quest, FinishQuest(w, q) PROVE StreakInv'
  BY <1>3, FinishQuestKeeps
<1>4. ASSUME NEW p \in Proc, Send(p) \/ Serve(p) \/ Fail(p) PROVE StreakInv'
  BY <1>4, SendKeeps, ServeKeeps, FailKeeps
<1>5. QED
  BY <1>1, <1>2, <1>3, <1>4 DEF Next

\* What a handler has read still bounds what it is about to write, in every
\* reachable state.
THEOREM StreakInvariance == Spec => []StreakInv
<1>1. Init => StreakInv
  BY StreakInit
<1>2. StreakInv /\ [Next]_vars => StreakInv'
  BY StreakNext
<1>3. QED
  BY <1>1, <1>2, PTL DEF Spec

\* The rows and the handlers keep their types: a learner never holds more than
\* MAX_FREEZES freezes or fewer than none, though no handler checks it when it
\* spends them (activity.service.ts:96-113, quests.service.ts:112-122).
THEOREM RewardsTypeCorrect == Spec => []TypeOK
<1>1. StreakInv => TypeOK
  BY DEF StreakInv
<1>2. QED
  BY <1>1, StreakInvariance, PTL

\* The streak never counts more days than were practised up to its last day
\* (activity.service.ts:116-137).
THEOREM StreaksAreEarned == Spec => []StreakIsEarned
<1>1. StreakInv => StreakIsEarned
  BY DEF StreakInv
<1>2. QED
  BY <1>1, StreakInvariance, PTL

\* The shop never takes XP that was not earned (quests.service.ts:204-219).
THEOREM ShopNeverOverspends == Spec => []NeverOverspent
<1>1. StreakInv => NeverOverspent
  BY DEF StreakInv
<1>2. QED
  BY <1>1, StreakInvariance, PTL

\* A quest is claimed for work since its own week began, and the chest when all quests
\* of its week are done (quests.service.ts:43-81).
THEOREM QuestsPayForWork == Spec => []PaysForWork
<1>1. StreakInv => PaysForWork
  BY DEF StreakInv
<1>2. QED
  BY <1>1, StreakInvariance, PTL

-----------------------------------------------------------------------------
(* Each claim is paid once *)

Holding(r, w, x) == r.pc = "pay" /\ r.w = w /\ x \in r.pays

LEMMA HoldersAre ==
  /\ \A w, x : Holders(w, x) = {p \in Proc : Holding(req[p], w, x)}
  /\ \A w, x : Holders(w, x)' = {p \in Proc : Holding(req'[p], w, x)}
BY DEF Holders, Holding

LEMMA LostCount ==
  ASSUME NEW w, NEW x
  PROVE  /\ Cardinality({<<w, x>>} \cap lost) = IF <<w, x>> \in lost THEN 1 ELSE 0
         /\ Cardinality({<<w, x>>} \cap lost') = IF <<w, x>> \in lost' THEN 1 ELSE 0
<1>1. ASSUME NEW L PROVE Cardinality({<<w, x>>} \cap L) = IF <<w, x>> \in L THEN 1 ELSE 0
  <2>1. CASE <<w, x>> \in L
    <3>1. {<<w, x>>} \cap L = {<<w, x>>}
      BY <2>1
    <3>2. QED
      BY <2>1, <3>1, FS_Singleton
  <2>2. CASE <<w, x>> \notin L
    <3>1. {<<w, x>>} \cap L = {}
      BY <2>2
    <3>2. QED
      BY <2>2, <3>1, FS_EmptySet
  <2>3. QED
    BY <2>1, <2>2
<1>2. QED
  BY <1>1

\* The count that EachClaimPaidOnce is about, with what it depends on as arguments.
Count(pays, holders, failed) == pays + Cardinality(holders) + IF failed THEN 1 ELSE 0

LEMMA CountsAre ==
  /\ EachClaimPaidOnce <=>
       \A w \in Week, x \in Reward :
         Count(paid[w][x], Holders(w, x), <<w, x>> \in lost)
           = IF x \in Claimed(w) THEN 1 ELSE 0
  /\ EachClaimPaidOnce' <=>
       \A w \in Week, x \in Reward :
         Count(paid'[w][x], Holders(w, x)', <<w, x>> \in lost')
           = IF x \in Claimed(w)' THEN 1 ELSE 0
BY LostCount DEF EachClaimPaidOnce, Count

\* A step of handler p to new that leaves the claim of x of week w as it was.
LEMMA SameCount ==
  ASSUME NEW p \in Proc, NEW new, req \in [Proc -> Request], req' = [req EXCEPT ![p] = new],
         NEW w \in Week, NEW x \in Reward, Holding(new, w, x) <=> Holding(req[p], w, x)
  PROVE  Holders(w, x)' = Holders(w, x)
<1>1. \A q \in Proc : Holding(req'[q], w, x) <=> Holding(req[q], w, x)
  <2>1. req'[p] = new /\ \A q \in Proc \ {p} : req'[q] = req[q]
    OBVIOUS
  <2>2. QED
    BY <2>1
<1>2. QED
  BY <1>1, HoldersAre

LEMMA AddedHolder ==
  ASSUME NEW p \in Proc, NEW new, req \in [Proc -> Request], req' = [req EXCEPT ![p] = new],
         NEW w \in Week, NEW x \in Reward, Holding(new, w, x), ~Holding(req[p], w, x)
  PROVE  /\ Cardinality(Holders(w, x)) \in Nat
         /\ Cardinality(Holders(w, x)') = Cardinality(Holders(w, x)) + 1
<1>1. Holders(w, x)' = Holders(w, x) \cup {p} /\ p \notin Holders(w, x)
  <2>1. req'[p] = new /\ \A q \in Proc \ {p} : req'[q] = req[q]
    OBVIOUS
  <2>2. \A q \in Proc : Holding(req'[q], w, x) <=> Holding(req[q], w, x) \/ q = p
    BY <2>1
  <2>3. QED
    BY <2>2, HoldersAre
<1>2. IsFiniteSet(Holders(w, x))
  BY RewardsAssumption, HoldersAre, FS_Subset
<1>3. QED
  BY <1>1, <1>2, FS_AddElement, FS_CardinalityType

LEMMA RemovedHolder ==
  ASSUME NEW p \in Proc, NEW new, req \in [Proc -> Request], req' = [req EXCEPT ![p] = new],
         NEW w \in Week, NEW x \in Reward, ~Holding(new, w, x), Holding(req[p], w, x)
  PROVE  /\ Cardinality(Holders(w, x)) \in Nat /\ Cardinality(Holders(w, x)') \in Nat
         /\ Cardinality(Holders(w, x)) = Cardinality(Holders(w, x)') + 1
<1>1. Holders(w, x) = Holders(w, x)' \cup {p} /\ p \notin Holders(w, x)'
  <2>1. req'[p] = new /\ \A q \in Proc \ {p} : req'[q] = req[q]
    OBVIOUS
  <2>2. \A q \in Proc : Holding(req[q], w, x) <=> Holding(req'[q], w, x) \/ q = p
    BY <2>1
  <2>3. QED
    BY <2>1, <2>2, HoldersAre
<1>2. IsFiniteSet(Holders(w, x)')
  BY RewardsAssumption, HoldersAre, FS_Subset
<1>3. QED
  BY <1>1, <1>2, FS_AddElement, FS_CardinalityType

\* Handler p neither is about to pay nor becomes so.
LEMMA NoClaim ==
  ASSUME StreakInv, EachClaimPaidOnce, NEW p \in Proc, NEW new, req' = [req EXCEPT ![p] = new],
         \A w \in Week, x \in Reward : ~Holding(new, w, x) /\ ~Holding(req[p], w, x),
         paid' = paid, lost' = lost, \A w \in Week : Claimed(w)' = Claimed(w)
  PROVE  EachClaimPaidOnce'
<1>1. req \in [Proc -> Request]
  BY DEF StreakInv, TypeOK
<1>2. \A w \in Week, x \in Reward : Holders(w, x)' = Holders(w, x)
  BY <1>1, SameCount
<1>3. QED
  BY <1>2, CountsAre

LEMMA NoPay ==
  ASSUME StreakInv, EachClaimPaidOnce, NEW p \in Proc, NEW r \in Request, NEW pc, Goto(p, r, pc),
         pc # "pay" \/ r.pays = {}, req[p].pc # "pay",
         paid' = paid, lost' = lost, \A w \in Week : Claimed(w)' = Claimed(w)
  PROVE  EachClaimPaidOnce'
<1> DEFINE new == IF pc = "idle" THEN Idle ELSE [r EXCEPT !.pc = pc]
<1>1. req' = [req EXCEPT ![p] = new]
  BY DEF Goto
<1>2. \A w \in Week, x \in Reward : ~Holding(new, w, x)
  BY DEF Holding, Idle, Request
<1>3. \A w \in Week, x \in Reward : ~Holding(req[p], w, x)
  BY DEF Holding
<1> HIDE DEF new
<1>4. QED
  BY <1>1, <1>2, <1>3, NoClaim

LEMMA SameClaimed ==
  ASSUME StreakInv, NEW w0 \in Week, NEW q, week' = [week EXCEPT ![w0] = q],
         q.mask = week[w0].mask, q.completed = week[w0].completed
  PROVE  \A w \in Week : Claimed(w)' = Claimed(w)
BY DEF StreakInv, TypeOK, Claimed

LEMMA PayCounts ==
  ASSUME StreakInv, EachClaimPaidOnce, NEW p \in Proc, Pay(p) PROVE EachClaimPaidOnce'
<1> DEFINE o == req[p]
           new == [[o EXCEPT !.today = day] EXCEPT !.pc = "freeze"]
<1>1. TypeOK /\ o \in Request /\ o.pc = "pay"
  BY Known DEF Pay
<1>2. /\ req' = [req EXCEPT ![p] = new]
      /\ paid' = [paid EXCEPT ![o.w] = [x \in Reward |-> @[x] + IF x \in o.pays THEN 1 ELSE 0]]
      /\ week' = week /\ lost' = lost
  BY DEF Pay, Goto, questVars
<1>3. \A w, x : ~Holding(new, w, x)
  BY <1>1 DEF Holding, Request
<1> HIDE DEF new
<1>4. \A w \in Week : Claimed(w)' = Claimed(w)
  BY <1>2 DEF Claimed
<1>5. ASSUME NEW w \in Week, NEW x \in Reward
      PROVE  Count(paid'[w][x], Holders(w, x)', <<w, x>> \in lost')
               = Count(paid[w][x], Holders(w, x), <<w, x>> \in lost)
  <2>1. paid[w][x] \in Nat /\ o.w \in Week /\ paid \in [Week -> [Reward -> Nat]]
    BY <1>1 DEF TypeOK, Request
  <2>2. CASE Holding(o, w, x)
    <3>1. /\ Cardinality(Holders(w, x)) \in Nat /\ Cardinality(Holders(w, x)') \in Nat
          /\ Cardinality(Holders(w, x)) = Cardinality(Holders(w, x)') + 1
      BY <1>1, <1>2, <1>3, <2>2, RemovedHolder DEF TypeOK
    <3>2. paid'[w][x] = paid[w][x] + 1
      <4>1. w = o.w /\ x \in o.pays
        BY <2>2 DEF Holding
      <4>2. paid'[w] = [y \in Reward |-> paid[w][y] + IF y \in o.pays THEN 1 ELSE 0]
        BY <1>2, <2>1, <4>1
      <4>3. QED
        BY <4>1, <4>2
    <3>3. (<<w, x>> \in lost') = (<<w, x>> \in lost)
      BY <1>2
    <3> DEFINE failed == IF <<w, x>> \in lost THEN 1 ELSE 0
    <3>4. failed \in Nat
      OBVIOUS
    <3>5. /\ Count(paid'[w][x], Holders(w, x)', <<w, x>> \in lost')
               = paid'[w][x] + Cardinality(Holders(w, x)') + failed
          /\ Count(paid[w][x], Holders(w, x), <<w, x>> \in lost)
               = paid[w][x] + Cardinality(Holders(w, x)) + failed
      BY <3>3 DEF Count
    <3> HIDE DEF failed
    <3>6. QED
      BY <2>1, <3>1, <3>2, <3>4, <3>5
  <2>3. CASE ~Holding(o, w, x)
    <3>1. Holders(w, x)' = Holders(w, x)
      BY <1>1, <1>2, <1>3, <2>3, SameCount DEF TypeOK
    <3>2. paid'[w][x] = paid[w][x]
      BY <1>1, <1>2, <2>1, <2>3 DEF Holding
    <3>3. QED
      BY <1>2, <3>1, <3>2 DEF Count
  <2>4. QED
    BY <2>2, <2>3
<1>6. QED
  BY <1>4, <1>5, CountsAre

LEMMA FailCounts ==
  ASSUME StreakInv, EachClaimPaidOnce, NEW p \in Proc, Fail(p) PROVE EachClaimPaidOnce'
<1> DEFINE o == req[p]
<1>1. TypeOK /\ o \in Request
  BY Known
<1>2. PICK pc \in {"idle", "give", "chest"} : Goto(p, o, pc)
  BY DEF Fail, AfterActivity
<1>3. /\ paid' = paid /\ week' = week
      /\ lost' = IF o.pc = "pay" THEN lost \cup ({o.w} \X o.pays) ELSE lost
  BY DEF Fail, xpVars, questVars
<1>4. \A w \in Week : Claimed(w)' = Claimed(w)
  BY <1>3 DEF Claimed
<1>5. CASE o.pc # "pay"
  BY <1>1, <1>2, <1>3, <1>4, <1>5, NoPay
<1>6. CASE o.pc = "pay"
  <2> DEFINE new == IF pc = "idle" THEN Idle ELSE [o EXCEPT !.pc = pc]
  <2>1. req' = [req EXCEPT ![p] = new] /\ \A w, x : ~Holding(new, w, x)
    BY <1>1, <1>2 DEF Goto, Holding, Idle, Request
  <2> HIDE DEF new
  <2>2. ASSUME NEW w \in Week, NEW x \in Reward
        PROVE  Count(paid'[w][x], Holders(w, x)', <<w, x>> \in lost')
                 = Count(paid[w][x], Holders(w, x), <<w, x>> \in lost)
    <3>1. paid[w][x] \in Nat
      BY <1>1 DEF TypeOK
    <3>2. <<w, x>> \in lost' <=> <<w, x>> \in lost \/ Holding(o, w, x)
      BY <1>3, <1>6 DEF Holding
    <3>3. CASE Holding(o, w, x)
      <4>1. /\ Cardinality(Holders(w, x)) \in Nat /\ Cardinality(Holders(w, x)') \in Nat
            /\ Cardinality(Holders(w, x)) = Cardinality(Holders(w, x)') + 1
        BY <1>1, <2>1, <3>3, RemovedHolder DEF TypeOK
      <4>2. Count(paid[w][x], Holders(w, x), <<w, x>> \in lost) \in {0, 1}
        BY CountsAre
      <4>3. <<w, x>> \notin lost
        BY <3>1, <4>1, <4>2 DEF Count
      <4>4. QED
        BY <1>3, <3>1, <3>2, <3>3, <4>1, <4>3 DEF Count
    <3>4. CASE ~Holding(o, w, x)
      <4>1. Holders(w, x)' = Holders(w, x)
        BY <1>1, <2>1, <3>4, SameCount DEF TypeOK
      <4>2. QED
        BY <1>3, <3>2, <3>4, <4>1 DEF Count
    <3>5. QED
      BY <3>3, <3>4
  <2>3. QED
    BY <1>4, <2>2, CountsAre
<1>7. QED
  BY <1>5, <1>6

\* Handler p claims what new is about to pay for.
LEMMA ClaimCounts ==
  ASSUME StreakInv, EachClaimPaidOnce, NEW p \in Proc, NEW new, req' = [req EXCEPT ![p] = new],
         req[p].pc # "pay", paid' = paid, lost' = lost,
         \A w \in Week, x \in Reward :
           /\ Holding(new, w, x) => x \notin Claimed(w)
           /\ x \in Claimed(w)' <=> x \in Claimed(w) \/ Holding(new, w, x)
  PROVE  EachClaimPaidOnce'
<1>1. TypeOK /\ \A w, x : ~Holding(req[p], w, x)
  BY Known DEF Holding
<1>2. ASSUME NEW w \in Week, NEW x \in Reward
      PROVE  Count(paid'[w][x], Holders(w, x)', <<w, x>> \in lost')
               = IF x \in Claimed(w)' THEN 1 ELSE 0
  <2>1. paid[w][x] \in Nat
    BY <1>1 DEF TypeOK
  <2>2. CASE Holding(new, w, x)
    <3>1. /\ Cardinality(Holders(w, x)) \in Nat
          /\ Cardinality(Holders(w, x)') = Cardinality(Holders(w, x)) + 1
      BY <1>1, <2>2, AddedHolder DEF TypeOK
    <3>2. Count(paid[w][x], Holders(w, x), <<w, x>> \in lost) = 0
      BY <2>2, CountsAre
    <3>3. Count(paid'[w][x], Holders(w, x)', <<w, x>> \in lost') = 1
      BY <2>1, <3>1, <3>2 DEF Count
    <3>4. QED
      BY <2>2, <3>3
  <2>3. CASE ~Holding(new, w, x)
    <3>1. Holders(w, x)' = Holders(w, x)
      BY <1>1, <2>3, SameCount DEF TypeOK
    <3>2. QED
      BY <2>3, <3>1, CountsAre
  <2>4. QED
    BY <2>2, <2>3
<1>3. QED
  BY <1>2, CountsAre

LEMMA ClaimQuestsCounts ==
  ASSUME StreakInv, EachClaimPaidOnce, NEW p \in Proc, ClaimQuests(p) PROVE EachClaimPaidOnce'
<1> DEFINE o == req[p]
           hit == week[o.w].mask = o.quests.mask
           amount == QUEST_XP * Cardinality(o.fresh)
           new == [[o EXCEPT !.pays = o.fresh, !.amount = amount] EXCEPT !.pc = "pay"]
<1>1. TypeOK /\ o \in Request /\ AtStep(o, o.pc, earned, practised) /\ o.pc = "claim"
  BY Known DEF ClaimQuests
<1>2. /\ o.w \in Week /\ week[o.w] \in QuestRow /\ week \in [Week -> QuestRow]
      /\ o.fresh \subseteq Quest /\ o.fresh \cap o.quests.mask = {}
  BY <1>1 DEF TypeOK, Request, AtStep
<1>3. paid' = paid /\ lost' = lost
  BY DEF ClaimQuests, xpVars
<1>4. CASE ~hit
  <2>1. Goto(p, o, "chest") /\ week' = week
    BY <1>4 DEF ClaimQuests
  <2>2. \A w \in Week : Claimed(w)' = Claimed(w)
    BY <2>1 DEF Claimed
  <2>3. QED
    BY <1>1, <1>3, <2>1, <2>2, NoPay
<1>5. CASE hit
  <2>1. /\ req' = [req EXCEPT ![p] = new]
        /\ week' = [week EXCEPT ![o.w].mask = @ \cup o.fresh]
    BY <1>5 DEF ClaimQuests, Goto
  <2> HIDE DEF amount
  <2>2. \A w, x : Holding(new, w, x) <=> w = o.w /\ x \in o.fresh
    BY <1>1 DEF Holding, Request
  <2> HIDE DEF new
  <2>3. ASSUME NEW w \in Week, NEW x \in Reward
        PROVE  /\ Holding(new, w, x) => x \notin Claimed(w)
               /\ x \in Claimed(w)' <=> x \in Claimed(w) \/ Holding(new, w, x)
    <3>1. Holding(new, w, x) => x \in Quest /\ x # Chest
      BY <1>2, <2>2, RewardsAssumption
    <3>2. Holding(new, w, x) => x \notin week[w].mask
      BY <1>2, <1>5, <2>2
    <3>3. /\ week'[w].completed = week[w].completed
          /\ x \in week'[w].mask <=> x \in week[w].mask \/ Holding(new, w, x)
      <4>1. CASE w = o.w
        BY <1>2, <2>1, <2>2, <4>1 DEF QuestRow
      <4>2. CASE w # o.w
        BY <1>2, <2>1, <2>2, <4>2
      <4>3. QED
        BY <4>1, <4>2
    <3>4. QED
      BY <3>1, <3>2, <3>3 DEF Claimed
  <2>4. QED
    BY <1>1, <1>3, <2>1, <2>3, ClaimCounts
<1>6. QED
  BY <1>4, <1>5

LEMMA OpenChestCounts ==
  ASSUME StreakInv, EachClaimPaidOnce, NEW p \in Proc, OpenChest(p) PROVE EachClaimPaidOnce'
<1> DEFINE o == req[p]
           hit == o.all /\ ~o.quests.completed /\ ~week[o.w].completed
           new == [[o EXCEPT !.pays = {Chest}, !.amount = CHEST_XP] EXCEPT !.pc = "pay"]
<1>1. TypeOK /\ o \in Request /\ o.pc = "chest"
  BY Known DEF OpenChest
<1>2. /\ o.w \in Week /\ week[o.w] \in QuestRow /\ week \in [Week -> QuestRow]
  BY <1>1 DEF TypeOK, Request
<1>3. paid' = paid /\ lost' = lost
  BY DEF OpenChest, xpVars
<1>4. CASE ~hit
  <2>1. Goto(p, o, "idle") /\ week' = week
    BY <1>4 DEF OpenChest
  <2>2. \A w \in Week : Claimed(w)' = Claimed(w)
    BY <2>1 DEF Claimed
  <2>3. QED
    BY <1>1, <1>3, <2>1, <2>2, NoPay
<1>5. CASE hit
  <2>1. /\ req' = [req EXCEPT ![p] = new]
        /\ week' = [week EXCEPT ![o.w].completed = TRUE]
    BY <1>5 DEF OpenChest, Goto
  <2>2. \A w, x : Holding(new, w, x) <=> w = o.w /\ x = Chest
    BY <1>1 DEF Holding, Request
  <2> HIDE DEF new
  <2>3. ASSUME NEW w \in Week, NEW x \in Reward
        PROVE  /\ Holding(new, w, x) => x \notin Claimed(w)
               /\ x \in Claimed(w)' <=> x \in Claimed(w) \/ Holding(new, w, x)
    <3>1. week[w].mask \subseteq Quest /\ Chest \notin Quest
      BY <1>2, RewardsAssumption DEF QuestRow
    <3>2. /\ week'[w].mask = week[w].mask
          /\ week'[w].completed <=> week[w].completed \/ w = o.w
      <4>1. CASE w = o.w
        BY <1>2, <2>1, <4>1 DEF QuestRow
      <4>2. CASE w # o.w
        BY <1>2, <2>1, <4>2
      <4>3. QED
        BY <4>1, <4>2
    <3>3. QED
      BY <1>5, <2>2, <3>1, <3>2 DEF Claimed
  <2>4. QED
    BY <1>1, <1>3, <2>1, <2>3, ClaimCounts
<1>6. QED
  BY <1>4, <1>5

LEMMA BeginCounts ==
  ASSUME StreakInv, EachClaimPaidOnce, NEW p \in Proc, NEW kind, NEW first, Fresh(first),
         Begin(p, kind, first)
  PROVE  EachClaimPaidOnce'
<1> DEFINE new == [first EXCEPT !.kind = kind]
<1>1. /\ req' = [req EXCEPT ![p] = new] /\ req[p] = Idle
      /\ paid' = paid /\ lost' = lost /\ week' = week
  BY DEF Begin, xpVars, questVars
<1>2. \A w \in Week, x \in Reward : ~Holding(new, w, x) /\ ~Holding(req[p], w, x)
  BY <1>1 DEF Holding, Fresh, Request, Idle
<1>3. \A w \in Week : Claimed(w)' = Claimed(w)
  BY <1>1 DEF Claimed
<1> HIDE DEF new
<1>4. QED
  BY <1>1, <1>2, <1>3, NoClaim

LEMMA SendCounts ==
  ASSUME StreakInv, EachClaimPaidOnce, NEW p \in Proc, Send(p) PROVE EachClaimPaidOnce'
<1>1. day \in Day /\ 0 \in Day /\ REWARD \in Nat
  BY RewardsAssumption DEF StreakInv, TypeOK, Day
<1>2. WeekOf(day) \in Week /\ 0 \in Week
  BY <1>1, WeekOfType DEF Week
<1>3. NoRow \in StreakRow /\ NoWeek \in QuestRow
  BY <1>1, RewardsAssumption DEF NoRow, StreakRow, NoWeek, QuestRow
<1>4. /\ Fresh([Idle EXCEPT !.pc = "pay", !.amount = REWARD])
      /\ Fresh([Idle EXCEPT !.pc = "cap", !.today = day])
      /\ Fresh([Idle EXCEPT !.pc = "week", !.w = WeekOf(day)])
      /\ Fresh([Idle EXCEPT !.pc = "shop"])
      /\ Fresh([Idle EXCEPT !.pc = "freeze", !.today = day])
  BY <1>1, <1>2, <1>3 DEF Fresh, Request, Idle, Pc, Activity
<1>5. QED
  BY <1>4, BeginCounts DEF Send, Practise, PractiseCapped, Look, BuyFreeze, SeeStreak

\* The steps of a handler that pay nothing and claim nothing.
LEMMA OtherCounts ==
  ASSUME StreakInv, EachClaimPaidOnce, NEW p \in Proc,
         \/ ReadCap(p) \/ ReadFreezes(p) \/ SpendFreezes(p) \/ CoverDays(p) \/ ReadStreak(p)
         \/ WriteStreak(p) \/ ShowStreak(p) \/ ReadWeek(p) \/ Measure(p) \/ GiveFreeze(p)
         \/ ReadShop(p) \/ ReadBalance(p) \/ Buy(p)
  PROVE  EachClaimPaidOnce'
<1> DEFINE o == req[p]
<1>1. /\ o \in Request /\ AtStep(o, o.pc, earned, practised)
  BY Known
<1>2. paid' = paid /\ lost' = lost /\ week' = week
  BY DEF ReadCap, ReadFreezes, SpendFreezes, CoverDays, ReadStreak, WriteStreak, ShowStreak,
         ReadWeek, Measure, GiveFreeze, ReadShop, ReadBalance, Buy, xpVars, questVars
<1>3. \A w \in Week : Claimed(w)' = Claimed(w)
  BY <1>2 DEF Claimed
<1>4. o.pc # "pay"
  BY DEF ReadCap, ReadFreezes, SpendFreezes, CoverDays, ReadStreak, WriteStreak, ShowStreak,
         ReadWeek, Measure, GiveFreeze, ReadShop, ReadBalance, Buy
<1>5. PICK new : /\ req' = [req EXCEPT ![p] = new]
                 /\ new.pc # "pay" \/ new.pays = {}
  <2>1. CASE ReadCap(p)
    <3> DEFINE amount == Most(0, Least(REWARD, DailyCap - capped[o.today]))
               new == [[o EXCEPT !.amount = amount] EXCEPT !.pc = "pay"]
    <3>1. req' = [req EXCEPT ![p] = new]
      BY <2>1 DEF ReadCap, Goto
    <3>2. o.pays = {}
      BY <1>1, <2>1 DEF ReadCap, AtStep
    <3> HIDE DEF amount
    <3>3. new.pays = {}
      BY <1>1, <3>2 DEF Request
    <3>4. QED
      BY <3>1, <3>3
  <2>2. CASE ~ReadCap(p)
    <3>1. PICK r, pc : /\ Goto(p, r, pc) /\ pc # "pay"
                       /\ r \in {[o EXCEPT !.seen = row], o, [o EXCEPT !.quests = week[o.w]],
                                 [o EXCEPT !.today = day],
                                 [o EXCEPT !.fresh = done[o.w] \ o.quests.mask,
                                           !.all = (done[o.w] = Quest)]}
      BY <2>2 DEF ReadFreezes, SpendFreezes, CoverDays, ReadStreak, WriteStreak, ShowStreak,
                  ReadWeek, Measure, GiveFreeze, ReadShop, ReadBalance, Buy, AfterActivity,
                  AfterFreezes
    <3> DEFINE new == IF pc = "idle" THEN Idle ELSE [r EXCEPT !.pc = pc]
    <3>2. req' = [req EXCEPT ![p] = new]
      BY <3>1 DEF Goto
    <3>3. new.pc # "pay"
      BY <1>1, <3>1 DEF Idle, Request
    <3>4. QED
      BY <3>2, <3>3
  <2>3. QED
    BY <2>1, <2>2
<1>6. \A w \in Week, x \in Reward : ~Holding(new, w, x) /\ ~Holding(o, w, x)
  BY <1>4, <1>5 DEF Holding
<1>7. QED
  BY <1>2, <1>3, <1>5, <1>6, NoClaim

\* Two fields of the week's row that no claim depends on.
LEMMA MarkCounts ==
  ASSUME StreakInv, EachClaimPaidOnce, NEW p \in Proc, MakeWeek(p) \/ MarkGiven(p)
  PROVE  EachClaimPaidOnce'
<1> DEFINE o == req[p]
<1>1. TypeOK /\ o \in Request /\ o.pc # "pay"
  BY Known DEF MakeWeek, MarkGiven
<1>2. o.w \in Week /\ week[o.w] \in QuestRow /\ week \in [Week -> QuestRow]
  BY <1>1 DEF TypeOK, Request
<1>3. paid' = paid /\ lost' = lost
  BY DEF MakeWeek, MarkGiven, xpVars
<1>4. CASE MakeWeek(p)
  <2> DEFINE q == [week[o.w] EXCEPT !.made = TRUE]
             r == [o EXCEPT !.quests = q]
  <2>1. week' = [week EXCEPT ![o.w] = q] /\ week'[o.w] = q
    BY <1>2, <1>4 DEF MakeWeek
  <2>2. q \in QuestRow /\ q.mask = week[o.w].mask /\ q.completed = week[o.w].completed
    BY <1>2 DEF QuestRow
  <2>3. r \in Request
    BY <1>1, <2>2 DEF Request
  <2>4. Goto(p, r, "measure")
    BY <1>4, <2>1 DEF MakeWeek
  <2> HIDE DEF q, r
  <2>5. \A w \in Week : Claimed(w)' = Claimed(w)
    BY <1>2, <2>1, <2>2, SameClaimed
  <2>6. QED
    BY <1>1, <1>3, <2>3, <2>4, <2>5, NoPay
<1>5. CASE MarkGiven(p)
  <2> DEFINE q == [week[o.w] EXCEPT !.given = TRUE]
  <2>1. week' = [week EXCEPT ![o.w] = q]
    BY <1>2, <1>5 DEF MarkGiven
  <2>2. q.mask = week[o.w].mask /\ q.completed = week[o.w].completed
    BY <1>2 DEF QuestRow
  <2>3. Goto(p, o, "idle")
    BY <1>5 DEF MarkGiven
  <2> HIDE DEF q
  <2>4. \A w \in Week : Claimed(w)' = Claimed(w)
    BY <1>2, <2>1, <2>2, SameClaimed
  <2>5. QED
    BY <1>1, <1>3, <2>3, <2>4, NoPay
<1>6. QED
  BY <1>4, <1>5

LEMMA ServeCounts ==
  ASSUME StreakInv, EachClaimPaidOnce, NEW p \in Proc, Serve(p) PROVE EachClaimPaidOnce'
BY PayCounts, ClaimQuestsCounts, OpenChestCounts, MarkCounts, OtherCounts DEF Serve

LEMMA NextCounts == StreakInv /\ EachClaimPaidOnce /\ [Next]_vars => EachClaimPaidOnce'
<1> SUFFICES ASSUME StreakInv, EachClaimPaidOnce, [Next]_vars PROVE EachClaimPaidOnce'
  OBVIOUS
<1>1. CASE UNCHANGED <<week, req, paid, lost>>
  <2>1. \A w \in Week, x \in Reward :
          Holders(w, x)' = Holders(w, x) /\ Claimed(w)' = Claimed(w)
    BY <1>1 DEF Holders, Claimed
  <2>2. QED
    BY <1>1, <2>1, CountsAre
<1>2. ASSUME NEW p \in Proc, Send(p) \/ Serve(p) \/ Fail(p) PROVE EachClaimPaidOnce'
  BY <1>2, SendCounts, ServeCounts, FailCounts
<1>3. CASE UNCHANGED vars
  BY <1>1, <1>3 DEF vars, questVars, xpVars
<1>4. CASE Midnight \/ \E w \in Week, q \in Quest : FinishQuest(w, q)
  BY <1>1, <1>4 DEF Midnight, FinishQuest, questVars, xpVars
<1>5. QED
  BY <1>2, <1>3, <1>4 DEF Next

LEMMA InitCounts == Init => EachClaimPaidOnce
<1> SUFFICES ASSUME Init PROVE EachClaimPaidOnce
  OBVIOUS
<1>1. ASSUME NEW w \in Week, NEW x \in Reward
      PROVE  Count(paid[w][x], Holders(w, x), <<w, x>> \in lost)
               = IF x \in Claimed(w) THEN 1 ELSE 0
  <2>1. paid[w][x] = 0 /\ lost = {}
    BY DEF Init
  <2>2. x \notin Claimed(w)
    BY DEF Init, Claimed, NoWeek
  <2>3. Holders(w, x) = {}
    BY DEF Init, Holders, Idle
  <2>4. Cardinality(Holders(w, x)) = 0
    BY <2>3, FS_EmptySet
  <2>5. QED
    BY <2>1, <2>2, <2>4 DEF Count
<1>2. QED
  BY <1>1, CountsAre

\* The two parts of the invariant hold together.
THEOREM RewardsInvariance == Spec => []IInv
<1>1. Init => IInv
  BY StreakInit, InitCounts DEF IInv
<1>2. IInv /\ [Next]_vars => IInv'
  BY StreakNext, NextCounts DEF IInv
<1>3. QED
  BY <1>1, <1>2, PTL DEF Spec

\* Every quest and every chest is paid once (quests.service.ts:51-81), whatever
\* the learner's tabs do at once.
THEOREM ClaimsArePaidOnce == Spec => []EachClaimPaidOnce
<1>1. IInv => EachClaimPaidOnce
  BY DEF IInv
<1>2. QED
  BY <1>1, RewardsInvariance, PTL

-----------------------------------------------------------------------------
(* The daily cap *)

\* A handler about to pay XP that a cap counts, as Rewarding has it.
Counted(r) == r.pc = "pay" /\ r.kind = "capped" /\ r.amount > 0

\* CapReads, of one handler on day d.
Reads(r, d) == /\ r.kind = "capped" => r.pc \in Activity \cup {"cap"}
               /\ r.pc = "cap" => r.kind = "capped" /\ r.today <= d
               /\ Counted(r) => r.amount <= REWARD /\ r.amount <= DailyCap

LEMMA CapReadsAre ==
  /\ CapReads <=> \A p \in Proc : Reads(req[p], day)
  /\ CapReads' <=> \A p \in Proc : Reads(req'[p], day')
BY DEF CapReads, Reads, Rewarding, Counted

LEMMA RewardingAre ==
  /\ Rewarding = {p \in Proc : Counted(req[p])}
  /\ Rewarding' = {p \in Proc : Counted(req'[p])}
BY DEF Rewarding, Counted

\* A reward for each of the n handlers but k.
LEMMA RoomFor ==
  ASSUME NEW n \in Nat, NEW k \in Nat, k <= n, NEW x \in Nat
  PROVE  /\ (n - k) * x \in Nat
         /\ k >= 1 => /\ (n - k) * x <= (n - 1) * x
                      /\ (n - (k - 1)) * x = (n - k) * x + x
<1>1. PICK m \in Nat : m = n - k
  OBVIOUS
<1>2. m * x \in Nat
  OBVIOUS
<1>3. k >= 1 => m * x <= (n - 1) * x
  <2>1. SUFFICES ASSUME k >= 1 PROVE m * x <= (n - 1) * x
    OBVIOUS
  <2>2. PICK j \in Nat : j = k - 1
    BY <2>1
  <2>3. n - 1 = m + j /\ j * x \in Nat
    BY <1>1, <2>2
  <2>4. (m + j) * x = m * x + j * x
    OBVIOUS
  <2>5. QED
    BY <1>2, <2>3, <2>4
<1>4. (m + 1) * x = m * x + x
  OBVIOUS
<1>5. k >= 1 => n - (k - 1) = m + 1
  BY <1>1
<1>6. QED
  BY <1>1, <1>2, <1>3, <1>4, <1>5

\* How many they are, and how much room is left for the others.
LEMMA RewardingCount ==
  /\ IsFiniteSet(Rewarding) /\ IsFiniteSet(Rewarding')
  /\ Cardinality(Rewarding) \in Nat /\ Cardinality(Rewarding') \in Nat
  /\ Cardinality(Rewarding) <= Cardinality(Proc) /\ Cardinality(Rewarding') <= Cardinality(Proc)
  /\ Rewarding # {} => Cardinality(Rewarding) >= 1
  /\ Rewarding' # {} => Cardinality(Rewarding') >= 1
  /\ Cardinality(Proc) \in Nat /\ Cardinality(Proc) >= 1
<1>1. Rewarding \subseteq Proc /\ Rewarding' \subseteq Proc /\ IsFiniteSet(Proc) /\ Proc # {}
  BY RewardsAssumption DEF Rewarding
<1>2. ASSUME NEW S, S \subseteq Proc
      PROVE  /\ IsFiniteSet(S) /\ Cardinality(S) \in Nat /\ Cardinality(S) <= Cardinality(Proc)
             /\ S # {} => Cardinality(S) >= 1
  <2>1. IsFiniteSet(S) /\ Cardinality(S) \in Nat /\ Cardinality(S) <= Cardinality(Proc)
    BY <1>1, <1>2, FS_Subset, FS_CardinalityType
  <2>2. S # {} => Cardinality(S) # 0
    BY <2>1, FS_EmptySet
  <2>3. QED
    BY <2>1, <2>2
<1>3. QED
  BY <1>1, <1>2

\* The XP of a day fits when what was earned since its beginning does.
Fits(c, H, r) ==
  IF H = {}
  THEN c <= DailyCap + (Cardinality(Proc) - 1) * REWARD
  ELSE \E p \in H : c + r[p].amount
                      <= DailyCap + (Cardinality(Proc) - Cardinality(H)) * REWARD

LEMMA CapFitsAre ==
  /\ CapFits <=> Fits(capped[day], Rewarding, req)
  /\ CapFits' <=> Fits(capped'[day'], Rewarding', req')
BY DEF CapFits, Fits

\* Today has not passed the cap by more than CapNearlyHolds allows.
LEMMA FitsToday ==
  ASSUME TypeOK', Fits(capped'[day'], Rewarding', req')
  PROVE  capped'[day'] <= DailyCap + (Cardinality(Proc) - 1) * REWARD
<1>1. /\ capped'[day'] \in Nat /\ DailyCap \in Nat /\ REWARD \in Nat
      /\ \A p \in Proc : req'[p].amount \in Nat
  BY RewardsAssumption DEF TypeOK, Request
<1>2. CASE Rewarding' = {}
  BY <1>2 DEF Fits
<1>3. CASE Rewarding' # {}
  <2>1. PICK p \in Rewarding' :
          capped'[day'] + req'[p].amount
            <= DailyCap + (Cardinality(Proc) - Cardinality(Rewarding')) * REWARD
    BY <1>3 DEF Fits
  <2>2. p \in Proc
    BY <2>1, RewardingAre
  <2>3. PICK n \in Nat : n = Cardinality(Proc) /\ n >= 1
    BY RewardingCount
  <2>4. PICK k \in Nat : k = Cardinality(Rewarding') /\ k >= 1 /\ k <= n
    BY <1>3, <2>3, RewardingCount
  <2>5. (n - k) * REWARD \in Nat /\ (n - k) * REWARD <= (n - 1) * REWARD
    BY <1>1, <2>4, RoomFor
  <2>6. (n - 1) * REWARD \in Nat
    BY <1>1, <2>3, RoomFor
  <2>7. QED
    BY <1>1, <2>1, <2>2, <2>3, <2>4, <2>5, <2>6
<1>4. QED
  BY <1>2, <1>3

\* Handler p becomes new, and a is paid.
CapStep(p, new, a) == /\ new \in Request
                      /\ req' = [req EXCEPT ![p] = new]
                      /\ Reads(new, day)
                      /\ day' = day
                      /\ capped' = [d \in Day |-> IF d <= day THEN capped[d] + a ELSE capped[d]]

\* What any such step keeps: only the XP up to today grows.
LEMMA CapKeeps ==
  ASSUME StreakInv, CapInv, TypeOK', NEW p \in Proc, NEW new, NEW a \in Nat,
         CapStep(p, new, a), Fits(capped'[day], Rewarding', req')
  PROVE  CapInv'
<1>1. /\ TypeOK /\ CapReads /\ DaysFit /\ CapNearlyHolds /\ day' = day
  BY DEF StreakInv, CapInv, CapStep
<1>2. /\ day \in Int /\ MaxDay \in Nat /\ Day \subseteq Int /\ day \in Day
      /\ \A d \in Day : capped[d] \in Nat /\ capped'[d] \in Nat
      /\ \A d \in Day : d < MaxDay => d + 1 \in Day
      /\ \A d \in Day : ~(d < MaxDay) => ~(d < day)
  <2>1. /\ MaxDay \in Nat /\ day \in 0..MaxDay
        /\ capped \in [Day -> Nat] /\ capped' \in [Day -> Nat]
    BY <1>1, RewardsAssumption DEF TypeOK, Day
  <2>2. \A d \in Day : capped[d] \in Nat /\ capped'[d] \in Nat
    BY <2>1
  <2>3. \A d \in 0..MaxDay : (d < MaxDay => d + 1 \in 0..MaxDay) /\ (~(d < MaxDay) => ~(d < day))
    BY <2>1
  <2>4. QED
    BY <2>1, <2>2, <2>3 DEF Day
<1>3. \A d \in Day : capped'[d] = IF d <= day THEN capped[d] + a ELSE capped[d]
  BY <1>1 DEF CapStep
<1>4. DaysFit'
  BY <1>1, <1>2, <1>3 DEF DaysFit
<1>5. CapReads'
  <2>1. \A q \in Proc : req'[q] = IF q = p THEN new ELSE req[q]
    BY <1>1 DEF CapStep, TypeOK
  <2>2. QED
    BY <1>1, <2>1, CapReadsAre DEF CapStep
<1>6. CapFits'
  BY <1>1, CapFitsAre
<1>7. CapNearlyHolds'
  <2>1. capped'[day] <= DailyCap + (Cardinality(Proc) - 1) * REWARD
    BY <1>1, FitsToday
  <2>2. PICK m \in Int : m = DailyCap + (Cardinality(Proc) - 1) * REWARD /\ m >= 0
    <3>1. PICK n \in Nat : n = Cardinality(Proc) /\ n >= 1
      BY RewardingCount
    <3>2. DailyCap \in Nat /\ REWARD \in Nat
      BY RewardsAssumption
    <3>3. (n - 1) * REWARD \in Nat
      BY <3>1, <3>2, RoomFor
    <3>4. QED
      BY <3>1, <3>2, <3>3
  <2>3. SUFFICES ASSUME NEW d \in Day PROVE CappedOf(d)' <= m
    BY <2>2 DEF CapNearlyHolds
  <2>4. CappedOf(d) <= m
    BY <1>1, <2>2 DEF CapNearlyHolds
  <2>5. CASE d < day
    BY <1>2, <1>3, <2>2, <2>4, <2>5 DEF CappedOf
  <2>6. CASE d = day
    <3>1. capped'[d] <= m
      BY <2>1, <2>2, <2>6
    <3>2. QED
      BY <1>2, <2>2, <3>1 DEF CappedOf
  <2>7. CASE d > day
    <3>1. capped'[d] = 0
      BY <1>1, <1>2, <1>3, <2>7 DEF DaysFit
    <3>2. QED
      BY <1>2, <2>2, <3>1 DEF CappedOf
  <2>8. QED
    BY <1>2, <2>5, <2>6, <2>7
<1>8. QED
  BY <1>4, <1>5, <1>6, <1>7 DEF CapInv

\* Nobody starts paying, and nobody who was paying stops.
LEMMA CapSame ==
  ASSUME StreakInv, CapInv, TypeOK', NEW p \in Proc, NEW new, CapStep(p, new, 0),
         ~Counted(new), ~Counted(req[p])
  PROVE  CapInv'
<1>1. TypeOK /\ CapFits /\ day \in Day /\ capped[day] \in Nat
  BY DEF StreakInv, CapInv, TypeOK
<1>2. capped'[day] = capped[day]
  BY <1>1 DEF CapStep
<1>3. \A q \in Proc : req'[q] = IF q = p THEN new ELSE req[q]
  BY <1>1 DEF CapStep, TypeOK
<1>4. Rewarding' = Rewarding /\ \A q \in Rewarding : req'[q] = req[q]
  BY <1>3, RewardingAre
<1>5. Fits(capped'[day], Rewarding', req')
  BY <1>1, <1>2, <1>4, CapFitsAre DEF Fits
<1>6. QED
  BY <1>5, CapKeeps

\* Handler p has read the room for what it is about to pay.
LEMMA CapAdded ==
  ASSUME StreakInv, CapInv, TypeOK', NEW p \in Proc, NEW new, CapStep(p, new, 0),
         Counted(new), capped[day] + new.amount <= DailyCap
  PROVE  CapInv'
<1>1. TypeOK /\ day \in Day /\ capped[day] \in Nat /\ new.amount \in Nat
  BY DEF StreakInv, CapInv, TypeOK, CapStep, Request
<1>2. capped'[day] = capped[day]
  BY <1>1 DEF CapStep
<1>3. req'[p] = new
  BY <1>1 DEF CapStep, TypeOK
<1>4. p \in Rewarding'
  BY <1>3, RewardingAre
<1>5. PICK n \in Nat : n = Cardinality(Proc) /\ n >= 1
  BY RewardingCount
<1>6. PICK k \in Nat : k = Cardinality(Rewarding') /\ k <= n
  BY <1>5, RewardingCount
<1>7. DailyCap \in Nat /\ REWARD \in Nat
  BY RewardsAssumption
<1>8. (n - k) * REWARD \in Nat
  BY <1>6, <1>7, RoomFor
<1>9. capped'[day] + req'[p].amount <= DailyCap + (n - k) * REWARD
  BY <1>1, <1>2, <1>3, <1>7, <1>8
<1>10. Fits(capped'[day], Rewarding', req')
  BY <1>4, <1>5, <1>6, <1>9 DEF Fits
<1>11. QED
  BY <1>10, CapKeeps

\* Handler p has paid, or its payment has failed: it is one of the others now.
LEMMA CapRemoved ==
  ASSUME StreakInv, CapInv, TypeOK', NEW p \in Proc, NEW new, NEW a \in Nat,
         CapStep(p, new, a), ~Counted(new), Counted(req[p]), a <= req[p].amount
  PROVE  CapInv'
<1>1. TypeOK /\ CapFits /\ CapReads /\ day \in Day /\ capped[day] \in Nat
      /\ \A q \in Proc : req[q].amount \in Nat
  BY DEF StreakInv, CapInv, TypeOK, Request
<1>2. capped'[day] = capped[day] + a
  BY <1>1, RewardsAssumption DEF CapStep, Day
<1>3. \A q \in Proc : req'[q] = IF q = p THEN new ELSE req[q]
  BY <1>1 DEF CapStep, TypeOK
<1>4. Rewarding' = Rewarding \ {p} /\ p \in Rewarding /\ Rewarding \subseteq Proc
  BY <1>3, RewardingAre
<1>5. DailyCap \in Nat /\ REWARD \in Nat
  BY RewardsAssumption
<1>6. PICK n \in Nat : n = Cardinality(Proc) /\ n >= 1
  BY RewardingCount
<1>7. PICK k \in Nat : k = Cardinality(Rewarding) /\ k >= 1 /\ k <= n
  BY <1>4, <1>6, RewardingCount
<1>8. Cardinality(Rewarding') = k - 1
  BY <1>4, <1>7, RewardingCount, FS_RemoveElement
<1>9. PICK w \in Rewarding : capped[day] + req[w].amount <= DailyCap + (n - k) * REWARD
  BY <1>1, <1>4, <1>6, <1>7, CapFitsAre DEF Fits
<1>10. /\ (n - k) * REWARD \in Nat
       /\ (n - (k - 1)) * REWARD = (n - k) * REWARD + REWARD
       /\ (n - k) * REWARD <= (n - 1) * REWARD
  BY <1>5, <1>7, RoomFor
<1>11. CASE Rewarding' = {}
  <2>1. w = p
    BY <1>4, <1>11
  <2>2. (n - 1) * REWARD \in Nat
    BY <1>5, <1>6, RoomFor
  <2>3. capped'[day] <= DailyCap + (n - 1) * REWARD
    BY <1>1, <1>2, <1>5, <1>9, <1>10, <2>1, <2>2
  <2>4. Fits(capped'[day], Rewarding', req')
    BY <1>6, <1>11, <2>3 DEF Fits
  <2>5. QED
    BY <2>4, CapKeeps
<1>12. CASE Rewarding' # {}
  <2>1. PICK q \in Rewarding' :
          capped'[day] + req[q].amount <= DailyCap + (n - (k - 1)) * REWARD
    <3>1. req[p].amount <= REWARD /\ \A q \in Rewarding : req[q].amount <= REWARD
      BY <1>1, <1>4 DEF CapReads
    <3>2. CASE w # p
      BY <1>1, <1>2, <1>4, <1>5, <1>9, <1>10, <3>1, <3>2
    <3>3. CASE w = p
      <4>1. PICK q \in Rewarding' : q \in Rewarding
        BY <1>4, <1>12
      <4>2. capped'[day] + req[q].amount <= DailyCap + (n - (k - 1)) * REWARD
        BY <1>1, <1>2, <1>4, <1>5, <1>9, <1>10, <3>1, <3>3, <4>1
      <4>3. QED
        BY <4>1, <4>2
    <3>4. QED
      BY <3>2, <3>3
  <2>2. req'[q] = req[q]
    BY <1>3, <1>4, <2>1
  <2>3. Fits(capped'[day], Rewarding', req')
    BY <1>6, <1>8, <2>1, <2>2 DEF Fits
  <2>4. QED
    BY <2>3, CapKeeps
<1>13. QED
  BY <1>11, <1>12

\* What is known of the cap before a step of handler p.
LEMMA CapKnown ==
  ASSUME StreakInv, CapInv, NEW p \in Proc
  PROVE  /\ TypeOK /\ req[p] \in Request /\ Reads(req[p], day)
         /\ day \in Day /\ capped \in [Day -> Nat]
BY CapReadsAre DEF StreakInv, CapInv, TypeOK

\* Nothing paid is nothing added.
LEMMA NothingPaid ==
  ASSUME TypeOK, UNCHANGED capped
  PROVE  capped' = [d \in Day |-> IF d <= day THEN capped[d] + 0 ELSE capped[d]]
<1>1. capped \in [Day -> Nat]
  BY DEF TypeOK
<1>2. \A d \in Day : (IF d <= day THEN capped[d] + 0 ELSE capped[d]) = capped[d]
  BY <1>1
<1>3. QED
  BY <1>1, <1>2

\* A handler goes on, and its step neither reads the cap nor pays.
LEMMA CapGoing ==
  ASSUME StreakInv, CapInv, TypeOK', NEW p \in Proc, NEW r \in Request, NEW pc \in Pc,
         Goto(p, r, pc), UNCHANGED <<day, capped>>, req[p].pc # "pay", pc # "cap",
         r.kind = "capped" => pc \in (Activity \cup {"idle"}) \ {"pay"}
  PROVE  CapInv'
<1> DEFINE new == IF pc = "idle" THEN Idle ELSE [r EXCEPT !.pc = pc]
<1>1. TypeOK /\ req \in [Proc -> Request] /\ Proc # {}
  BY CapKnown DEF TypeOK
<1>2. req' = [req EXCEPT ![p] = new]
  BY DEF Goto
<1>3. new \in Request /\ Reads(new, day) /\ ~Counted(new)
  <2>1. CASE pc = "idle"
    <3>1. req' [p] = Idle
      BY <1>1, <1>2, <2>1
    <3>2. Idle \in Request
      BY <3>1 DEF TypeOK
    <3>3. QED
      BY <2>1, <3>2 DEF Reads, Counted, Idle
  <2>2. CASE pc # "idle"
    BY <2>2 DEF Request, Reads, Counted
  <2>3. QED
    BY <2>1, <2>2
<1> HIDE DEF new
<1>4. CapStep(p, new, 0)
  BY <1>1, <1>2, <1>3, NothingPaid DEF CapStep
<1>5. ~Counted(req[p])
  BY DEF Counted
<1>6. QED
  BY <1>3, <1>4, <1>5, CapSame

LEMMA ReadCapFits ==
  ASSUME StreakInv, CapInv, TypeOK', NEW p \in Proc, ReadCap(p) PROVE CapInv'
<1> DEFINE o == req[p]
           amount == Most(0, Least(REWARD, DailyCap - capped[o.today]))
           new == [[o EXCEPT !.amount = amount] EXCEPT !.pc = "pay"]
<1>1. /\ TypeOK /\ o \in Request /\ Reads(o, day) /\ day \in Day /\ capped \in [Day -> Nat]
      /\ o.pc = "cap"
  BY CapKnown DEF ReadCap
<1>2. o.kind = "capped" /\ o.today <= day /\ o.today \in Day
  BY <1>1 DEF Reads, Request
<1>3. capped[day] <= capped[o.today]
  BY <1>1, <1>2 DEF CapInv, DaysFit
<1>4. /\ REWARD \in Nat /\ DailyCap \in Nat /\ capped[day] \in Nat /\ capped[o.today] \in Nat
  BY <1>1, <1>2, RewardsAssumption
<1>5. /\ amount \in Nat /\ amount <= REWARD /\ amount <= DailyCap
      /\ amount > 0 => capped[day] + amount <= DailyCap
  BY <1>3, <1>4 DEF Most, Least
<1>6. req' = [req EXCEPT ![p] = new] /\ day' = day /\ capped' = capped
  BY DEF ReadCap, Goto, xpVars
<1> HIDE DEF amount
<1>7. new \in Request /\ new.pc = "pay" /\ new.kind = "capped" /\ new.amount = amount
  BY <1>1, <1>2, <1>5 DEF Request, Pc, Activity
<1> HIDE DEF new
<1>8. CapStep(p, new, 0)
  BY <1>1, <1>5, <1>6, <1>7, NothingPaid DEF CapStep, Reads, Activity
<1>9. ~Counted(o)
  BY <1>1 DEF Counted
<1>10. CASE amount > 0
  BY <1>5, <1>7, <1>8, <1>10, CapAdded DEF Counted
<1>11. CASE ~(amount > 0)
  BY <1>7, <1>8, <1>9, <1>11, CapSame DEF Counted
<1>12. QED
  BY <1>10, <1>11

LEMMA PayFits ==
  ASSUME StreakInv, CapInv, TypeOK', NEW p \in Proc, Pay(p) PROVE CapInv'
<1> DEFINE o == req[p]
           new == [[o EXCEPT !.today = day] EXCEPT !.pc = "freeze"]
<1>1. /\ TypeOK /\ o \in Request /\ day \in Day /\ capped \in [Day -> Nat] /\ o.pc = "pay"
      /\ o.amount \in Nat
  BY CapKnown DEF Pay, Request
<1>2. req' = [req EXCEPT ![p] = new] /\ day' = day
  BY DEF Pay, Goto
<1>3. new \in Request /\ Reads(new, day) /\ ~Counted(new)
  BY <1>1 DEF Request, Reads, Counted, Pc, Activity
<1> HIDE DEF new
<1>4. CASE Counted(o)
  <2>1. capped' = [d \in Day |-> IF d <= day THEN capped[d] + o.amount ELSE capped[d]]
    BY <1>4 DEF Pay, Counted
  <2>2. CapStep(p, new, o.amount)
    BY <1>2, <1>3, <2>1 DEF CapStep
  <2>3. o.amount <= req[p].amount
    BY <1>1
  <2>4. QED
    BY <1>1, <1>3, <1>4, <2>2, <2>3, CapRemoved
<1>5. CASE ~Counted(o)
  <2>1. capped' = [d \in Day |-> IF d <= day THEN capped[d] + 0 ELSE capped[d]]
    <3>1. CASE o.kind = "capped"
      <4>1. o.amount = 0
        BY <1>1, <1>5, <3>1 DEF Counted
      <4>2. QED
        BY <3>1, <4>1 DEF Pay
    <3>2. CASE o.kind # "capped"
      BY <1>1, <3>2, NothingPaid DEF Pay
    <3>3. QED
      BY <3>1, <3>2
  <2>2. CapStep(p, new, 0)
    BY <1>2, <1>3, <2>1 DEF CapStep
  <2>3. QED
    BY <1>3, <1>5, <2>2, CapSame
<1>6. QED
  BY <1>4, <1>5

LEMMA FailFits ==
  ASSUME StreakInv, CapInv, TypeOK', NEW p \in Proc, Fail(p) PROVE CapInv'
<1> DEFINE o == req[p]
<1>1. /\ TypeOK /\ o \in Request /\ Reads(o, day) /\ req \in [Proc -> Request]
  BY CapKnown DEF TypeOK
<1>2. PICK pc \in {"idle", "give", "chest"} :
        /\ Goto(p, o, pc)
        /\ o.kind = "capped" => pc = "idle"
  <2>1. /\ AfterActivity(o) \in {"idle", "give", "chest"}
        /\ o.kind = "capped" => AfterActivity(o) = "idle"
    BY DEF AfterActivity
  <2>2. Goto(p, o, "idle") \/ Goto(p, o, AfterActivity(o))
    BY DEF Fail
  <2>3. QED
    BY <2>1, <2>2
<1>3. UNCHANGED <<day, capped>>
  BY DEF Fail, xpVars
<1>4. CASE o.pc # "pay"
  BY <1>1, <1>2, <1>3, <1>4, CapGoing DEF Pc
<1>5. CASE o.pc = "pay"
  <2> DEFINE new == IF pc = "idle" THEN Idle ELSE [o EXCEPT !.pc = pc]
  <2>1. req' = [req EXCEPT ![p] = new]
    BY <1>2 DEF Goto
  <2>2. new \in Request
    BY <1>1, <2>1 DEF TypeOK
  <2>3. Reads(new, day) /\ ~Counted(new)
    BY <1>1, <1>2 DEF Reads, Counted, Idle, Request
  <2> HIDE DEF new
  <2>4. CapStep(p, new, 0)
    BY <1>1, <1>3, <2>1, <2>2, <2>3, NothingPaid DEF CapStep
  <2>5. 0 <= o.amount
    BY <1>1 DEF Request
  <2>6. QED
    BY <2>3, <2>4, <2>5, CapRemoved, CapSame
<1>6. QED
  BY <1>4, <1>5

LEMMA SendFits ==
  ASSUME StreakInv, CapInv, TypeOK', NEW p \in Proc, Send(p) PROVE CapInv'
<1>1. TypeOK /\ day \in Day /\ req \in [Proc -> Request]
  BY CapKnown DEF TypeOK
<1>2. PICK kind, first :
        /\ Begin(p, kind, first)
        /\ \/ kind = "practice" /\ first = [Idle EXCEPT !.pc = "pay", !.amount = REWARD]
           \/ kind = "capped" /\ first = [Idle EXCEPT !.pc = "cap", !.today = day]
           \/ kind = "look" /\ first = [Idle EXCEPT !.pc = "week", !.w = WeekOf(day)]
           \/ kind = "buy" /\ first = [Idle EXCEPT !.pc = "shop"]
           \/ kind = "streak" /\ first = [Idle EXCEPT !.pc = "freeze", !.today = day]
  BY DEF Send, Practise, PractiseCapped, Look, BuyFreeze, SeeStreak
<1> DEFINE new == [first EXCEPT !.kind = kind]
<1>3. req' = [req EXCEPT ![p] = new] /\ req[p] = Idle /\ UNCHANGED <<day, capped>>
  BY <1>2 DEF Begin, xpVars
<1>4. new \in Request
  BY <1>1, <1>3 DEF TypeOK
<1>5. Reads(new, day) /\ ~Counted(new)
  <2>1. day <= day
    BY <1>1, RewardsAssumption DEF Day
  <2>2. QED
    BY <1>2, <2>1 DEF Reads, Counted, Idle
<1>6. ~Counted(req[p])
  BY <1>3 DEF Counted, Idle
<1> HIDE DEF new
<1>7. CapStep(p, new, 0)
  BY <1>1, <1>3, <1>4, <1>5, NothingPaid DEF CapStep
<1>8. QED
  BY <1>5, <1>6, <1>7, CapSame

\* The other steps of a handler; only those of recordActivity() are steps of one
\* that a cap counts.
LEMMA OtherFits ==
  ASSUME StreakInv, CapInv, TypeOK', NEW p \in Proc,
         \/ ReadFreezes(p) \/ SpendFreezes(p) \/ CoverDays(p) \/ ReadStreak(p)
         \/ WriteStreak(p) \/ ShowStreak(p) \/ ReadWeek(p) \/ MakeWeek(p) \/ Measure(p)
         \/ ClaimQuests(p) \/ OpenChest(p) \/ GiveFreeze(p) \/ MarkGiven(p)
         \/ ReadShop(p) \/ ReadBalance(p) \/ Buy(p)
  PROVE  CapInv'
<1> DEFINE o == req[p]
<1>1. TypeOK /\ o \in Request /\ Reads(o, day) /\ req \in [Proc -> Request]
  BY CapKnown DEF TypeOK
<1>2. /\ o.pc # "pay" /\ UNCHANGED <<day, capped>>
  BY DEF ReadFreezes, SpendFreezes, CoverDays, ReadStreak, WriteStreak, ShowStreak, ReadWeek,
         MakeWeek, Measure, ClaimQuests, OpenChest, GiveFreeze, MarkGiven, ReadShop,
         ReadBalance, Buy, xpVars
<1>3. CASE o.pc \in Activity
  <2>1. PICK r, pc : /\ Goto(p, r, pc) /\ r \in {o, [o EXCEPT !.seen = row]}
                     /\ pc \in {"idle", "spend", "cover", "read", "write", "show", "give",
                                "chest"}
                     /\ o.kind = "capped" => pc \notin {"give", "chest"}
    <3>1. ASSUME NEW r, r.kind = o.kind
          PROVE  /\ AfterActivity(r) \in {"idle", "give", "chest"}
                 /\ o.kind = "capped" => AfterActivity(r) = "idle"
                 /\ AfterFreezes(r) \in {"idle", "read"}
      BY <3>1 DEF AfterActivity, AfterFreezes
    <3> DEFINE s == [o EXCEPT !.seen = row]
    <3>2. s.kind = o.kind
      BY <1>1 DEF Request
    <3>3. /\ AfterActivity(o) \in {"idle", "give", "chest"}
          /\ o.kind = "capped" => AfterActivity(o) = "idle"
          /\ AfterFreezes(o) \in {"idle", "read"}
          /\ AfterActivity(s) \in {"idle", "give", "chest"}
          /\ o.kind = "capped" => AfterActivity(s) = "idle"
          /\ AfterFreezes(s) \in {"idle", "read"}
      BY <3>1, <3>2
    <3>4. \/ Goto(p, s, "spend") \/ Goto(p, s, AfterFreezes(s)) \/ Goto(p, o, "cover")
          \/ Goto(p, o, AfterFreezes(o)) \/ Goto(p, s, AfterActivity(s))
          \/ Goto(p, s, "write") \/ Goto(p, o, "show") \/ Goto(p, o, AfterActivity(o))
      <4> HIDE DEF s
      <4>1. CASE ReadFreezes(p)
        BY <4>1 DEF ReadFreezes, s
      <4>2. CASE SpendFreezes(p) \/ CoverDays(p)
        BY <4>2 DEF SpendFreezes, CoverDays
      <4>3. CASE ReadStreak(p)
        BY <4>3 DEF ReadStreak, s
      <4>4. CASE WriteStreak(p) \/ ShowStreak(p)
        BY <4>4 DEF WriteStreak, ShowStreak
      <4>5. QED
        BY <1>3, <4>1, <4>2, <4>3, <4>4
           DEF ReadWeek, MakeWeek, Measure, ClaimQuests, OpenChest, GiveFreeze, MarkGiven,
               ReadShop, ReadBalance, Buy, Activity
    <3> HIDE DEF s
    <3>5. QED
      BY <3>3, <3>4 DEF s
  <2>2. r \in Request /\ r.kind = o.kind
    BY <1>1, <2>1 DEF TypeOK, Request
  <2>3. QED
    BY <1>2, <2>1, <2>2, CapGoing DEF Pc, Activity
<1>4. CASE o.pc \notin Activity
  <2>1. o.kind # "capped"
    <3>1. o.pc # "cap"
      BY DEF ReadFreezes, SpendFreezes, CoverDays, ReadStreak, WriteStreak, ShowStreak, ReadWeek,
             MakeWeek, Measure, ClaimQuests, OpenChest, GiveFreeze, MarkGiven, ReadShop,
             ReadBalance, Buy
    <3>2. QED
      BY <1>1, <1>4, <3>1 DEF Reads
  <2>2. PICK r, pc : Goto(p, r, pc) /\ r.kind = o.kind /\ pc # "cap"
    <3> USE <1>1 DEF Request
    <3>1. CASE ReadWeek(p)
      <4>1. [o EXCEPT !.quests = week[o.w]].kind = o.kind
        OBVIOUS
      <4>2. QED
        BY <3>1, <4>1 DEF ReadWeek
    <3>2. CASE MakeWeek(p)
      <4>1. [o EXCEPT !.quests = week'[o.w]].kind = o.kind
        OBVIOUS
      <4>2. QED
        BY <3>2, <4>1 DEF MakeWeek
    <3>3. CASE Measure(p)
      <4>1. [o EXCEPT !.fresh = done[o.w] \ o.quests.mask, !.all = (done[o.w] = Quest)].kind
              = o.kind
        OBVIOUS
      <4>2. QED
        BY <3>3, <4>1 DEF Measure
    <3>4. CASE ClaimQuests(p)
      <4>1. [o EXCEPT !.pays = o.fresh, !.amount = QUEST_XP * Cardinality(o.fresh)].kind = o.kind
        OBVIOUS
      <4>2. QED
        BY <3>4, <4>1 DEF ClaimQuests
    <3>5. CASE OpenChest(p)
      <4>1. [o EXCEPT !.pays = {Chest}, !.amount = CHEST_XP].kind = o.kind
        OBVIOUS
      <4>2. QED
        BY <3>5, <4>1 DEF OpenChest
    <3>6. CASE GiveFreeze(p) \/ MarkGiven(p) \/ ReadBalance(p)
      BY <3>6 DEF GiveFreeze, MarkGiven, ReadBalance
    <3>7. CASE ReadShop(p)
      <4>1. [o EXCEPT !.seen = row].kind = o.kind
        OBVIOUS
      <4>2. QED
        BY <3>7, <4>1 DEF ReadShop
    <3>8. CASE Buy(p)
      <4>1. [o EXCEPT !.today = day].kind = o.kind
        OBVIOUS
      <4>2. QED
        BY <3>8, <4>1 DEF Buy
    <3>9. QED
      BY <1>4, <3>1, <3>2, <3>3, <3>4, <3>5, <3>6, <3>7, <3>8
         DEF ReadFreezes, SpendFreezes, CoverDays, ReadStreak, WriteStreak, ShowStreak, Activity
  <2> DEFINE new == IF pc = "idle" THEN Idle ELSE [r EXCEPT !.pc = pc]
  <2>3. req' = [req EXCEPT ![p] = new]
    BY <2>2 DEF Goto
  <2>4. new \in Request
    BY <1>1, <2>3 DEF TypeOK
  <2>5. Reads(new, day) /\ ~Counted(new)
    <3>1. CASE pc = "idle"
      BY <3>1 DEF Reads, Counted, Idle
    <3>2. CASE pc # "idle"
      <4>1. new = [r EXCEPT !.pc = pc]
        BY <3>2
      <4>2. new.kind = r.kind /\ new.pc # "cap"
        BY <2>2, <2>4, <3>2, <4>1 DEF Request
      <4>3. QED
        BY <2>1, <2>2, <4>2 DEF Reads, Counted
    <3>3. QED
      BY <3>1, <3>2
  <2> HIDE DEF new
  <2>6. CapStep(p, new, 0)
    BY <1>1, <1>2, <2>3, <2>4, <2>5, NothingPaid DEF CapStep
  <2>7. QED
    BY <1>2, <2>5, <2>6, CapSame DEF Counted
<1>5. QED
  BY <1>3, <1>4

\* Midnight begins a day on which nothing was earned: every reward fits it.
LEMMA MidnightFits ==
  ASSUME StreakInv, CapInv, TypeOK', Midnight PROVE CapInv'
<1>1. TypeOK /\ CapReads /\ DaysFit /\ CapNearlyHolds
  BY DEF StreakInv, CapInv
<1>2. day' = day + 1 /\ day < MaxDay /\ UNCHANGED <<req, capped>>
  BY DEF Midnight, xpVars
<1>3. /\ MaxDay \in Nat /\ day \in 0..MaxDay /\ day' \in Day
      /\ \A d \in Day : d \in 0..MaxDay /\ capped[d] \in Nat
  BY <1>1, RewardsAssumption DEF TypeOK, Day
<1>4. DailyCap \in Nat /\ REWARD \in Nat
  BY RewardsAssumption
<1>5. PICK n \in Nat : n = Cardinality(Proc) /\ n >= 1
  BY RewardingCount
<1>6. capped'[day'] = 0
  BY <1>1, <1>2, <1>3 DEF DaysFit
<1>7. Rewarding' = Rewarding
  BY <1>2 DEF Rewarding
<1>8. CapFits'
  <2>1. (n - 1) * REWARD \in Nat
    BY <1>4, <1>5, RoomFor
  <2>2. CASE Rewarding' = {}
    BY <1>4, <1>5, <1>6, <2>1, <2>2, CapFitsAre DEF Fits
  <2>3. CASE Rewarding' # {}
    <3>1. PICK p \in Rewarding' : p \in Proc /\ req'[p].amount <= DailyCap
      BY <1>1, <1>2, <1>7, <2>3, RewardingAre DEF CapReads
    <3>2. req'[p].amount \in Nat
      BY <3>1 DEF TypeOK, Request
    <3>3. PICK k \in Nat : k = Cardinality(Rewarding') /\ k <= n
      BY <1>5, RewardingCount
    <3>4. (n - k) * REWARD \in Nat
      BY <1>4, <3>3, RoomFor
    <3>5. capped'[day'] + req'[p].amount <= DailyCap + (n - k) * REWARD
      BY <1>4, <1>6, <3>1, <3>2, <3>4
    <3>6. QED
      BY <1>5, <2>3, <3>1, <3>3, <3>5, CapFitsAre DEF Fits
  <2>4. QED
    BY <2>2, <2>3
<1>9. CapReads'
  BY <1>1, <1>2, <1>3, <1>7 DEF CapReads, TypeOK, Request, Day
<1>10. DaysFit'
  BY <1>1, <1>2, <1>3 DEF DaysFit
<1>11. CapNearlyHolds'
  BY <1>1, <1>2 DEF CapNearlyHolds, CappedOf
<1>12. QED
  BY <1>8, <1>9, <1>10, <1>11 DEF CapInv

LEMMA CapNext == StreakInv /\ CapInv /\ TypeOK' /\ [Next]_vars => CapInv'
<1> SUFFICES ASSUME StreakInv, CapInv, TypeOK', [Next]_vars PROVE CapInv'
  OBVIOUS
<1>1. CASE UNCHANGED <<day, req, capped>>
  BY <1>1 DEF CapInv, CapFits, CapReads, DaysFit, CapNearlyHolds, CappedOf, Rewarding
<1>2. ASSUME NEW p \in Proc, Send(p) \/ Serve(p) \/ Fail(p) PROVE CapInv'
  BY <1>2, SendFits, ReadCapFits, PayFits, FailFits, OtherFits DEF Serve
<1>3. CASE UNCHANGED vars
  BY <1>1, <1>3 DEF vars, xpVars
<1>4. ASSUME NEW w \in Week, NEW q \in Quest, FinishQuest(w, q) PROVE CapInv'
  BY <1>1, <1>4 DEF FinishQuest, xpVars
<1>5. QED
  BY <1>2, <1>3, <1>4, MidnightFits DEF Next

LEMMA CapInit == Init => CapInv
<1> SUFFICES ASSUME Init PROVE CapInv
  OBVIOUS
<1>1. /\ DailyCap \in Nat /\ REWARD \in Nat /\ MaxDay \in Nat
  BY RewardsAssumption
<1>2. /\ day \in Day /\ \A d \in Day : capped[d] = 0
      /\ \A d \in Day : d < MaxDay => d + 1 \in Day
  BY <1>1 DEF Init, Day
<1>3. \A p \in Proc : req[p] = Idle
  BY DEF Init
<1>4. PICK n \in Nat : n = Cardinality(Proc) /\ n >= 1
  BY RewardingCount
<1>5. (n - 1) * REWARD \in Nat
  BY <1>1, <1>4, RoomFor
<1>6. Rewarding = {}
  BY <1>3 DEF Rewarding, Idle
<1>7. CapFits
  BY <1>1, <1>2, <1>4, <1>5, <1>6 DEF CapFits
<1>8. CapReads
  BY <1>3, <1>6 DEF CapReads, Idle
<1>9. DaysFit
  BY <1>2 DEF DaysFit
<1>10. CapNearlyHolds
  BY <1>1, <1>2, <1>4, <1>5 DEF CapNearlyHolds, CappedOf
<1>11. QED
  BY <1>7, <1>8, <1>9, <1>10 DEF CapInv

\* A daily cap is passed by at most one reward for each other handler in flight
\* (activity.service.ts:66-80), however many tabs and chats earn at once.
THEOREM CapIsNearlyKept == Spec => []CapNearlyHolds
<1>1. Init => StreakInv /\ CapInv
  BY StreakInit, CapInit
<1>2. (StreakInv /\ CapInv) /\ [Next]_vars => (StreakInv /\ CapInv)'
  <2>1. StreakInv /\ [Next]_vars => StreakInv' /\ TypeOK'
    BY StreakNext DEF StreakInv
  <2>2. QED
    BY <2>1, CapNext
<1>3. StreakInv /\ CapInv => CapNearlyHolds
  BY DEF CapInv
<1>4. QED
  BY <1>1, <1>2, <1>3, PTL DEF Spec
=============================================================================
