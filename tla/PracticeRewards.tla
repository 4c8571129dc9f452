--------------------------- MODULE PracticeRewards ---------------------------
(***************************************************************************)
(* What one learner is paid for practising: XP, the daily streak with its  *)
(* freezes (learning/activity.service.ts), the weekly quests with their    *)
(* chest and the freeze shop (quests/quests.service.ts).  The handlers of  *)
(* the learner's tabs, calls and chats run concurrently and interleave at  *)
(* every await; each database statement is atomic, a handler is not.  Time *)
(* is the day; a handler takes it from the clock where the code does and   *)
(* may be overtaken by midnight.                                           *)
(***************************************************************************)
EXTENDS Integers, FiniteSets

CONSTANTS Proc,          \* handlers in flight
          Kind,          \* which requests the learner sends
          Quest,         \* the quests of a week
          MAX_FREEZES,   \* freezes a learner can hold
          FREEZE_PRICE,  \* XP a freeze costs
          QUEST_XP,      \* XP of one quest
          CHEST_XP,      \* XP of the chest
          REWARD,        \* XP of one rewarded activity
          DailyCap,      \* CHAT_XP_DAILY_CAP and its like
          WeekDays,      \* days in a week
          MaxDay,        \* bound on the clock, for model checking
          MaxRequests,   \* bound on the requests sent
          MaxFails       \* bound on statements that fail

Chest == "chest"
Kinds == {"practice", "capped", "look", "buy", "streak"}

ASSUME RewardsAssumption ==
  /\ Kind \subseteq Kinds
  /\ IsFiniteSet(Quest) /\ Chest \notin Quest
  /\ IsFiniteSet(Proc) /\ Proc # {}
  /\ {MAX_FREEZES, FREEZE_PRICE, QUEST_XP, CHEST_XP, REWARD, DailyCap} \subseteq Nat
  /\ WeekDays \in Nat \ {0}
  /\ {MaxDay, MaxRequests, MaxFails} \subseteq Nat

VARIABLES day,       \* the server's date
          row,       \* the Streak row
          shown,     \* Profile.streak
          frozen,    \* StreakFreezeUse: the days freezes covered
          earned,    \* the sum of the XpTransaction rows
          capped,    \* capped[d]: the part of it since day d began that a cap counts
          week,      \* week[w]: the QuestWeek row of week w
          done,      \* done[w]: the quests of week w done since it began
          req,       \* req[p]: the state of handler p
          paid,      \* ghost: paid[w][x] counts the payments for x
          lost,      \* ghost: the payments that failed, <<w, x>>
          practised, \* ghost: the days on which practice was counted
          sent,      \* requests sent so far
          fails      \* statements that failed so far

streakVars == <<row, shown, frozen, practised>>
questVars == <<week, done>>
xpVars == <<earned, capped, paid>>
vars == <<day, streakVars, questVars, xpVars, req, lost, sent, fails>>

Day == 0..MaxDay
Week == Day       \* weeks are numbered by weekOf(day) <= day
Reward == Quest \cup {Chest}

StreakRow == [exists : BOOLEAN, current : Nat, longest : Nat, last : Day,
              freezes : 0..MAX_FREEZES, spent : Nat]
QuestRow == [made : BOOLEAN, mask : SUBSET Quest, completed : BOOLEAN,
             given : BOOLEAN]

NoRow == [exists |-> FALSE, current |-> 0, longest |-> 0, last |-> 0,
          freezes |-> 0, spent |-> 0]
NoWeek == [made |-> FALSE, mask |-> {}, completed |-> FALSE, given |-> FALSE]

\* The statements of recordActivity; a handler that is not in one of them is
\* in get(), buyFreeze() or recordCappedActivity().
Activity == {"pay", "freeze", "spend", "cover", "read", "write", "show"}
Pc == Activity \cup {"idle", "cap", "week", "make", "measure", "claim",
                     "chest", "give", "mark", "shop", "balance", "buy"}

\* What a handler keeps between two awaits: the day it works for, the streak
\* row as it last read it, the streak it writes, the XP and the rewards it is
\* about to pay and, for get(), the week, its row as read, the quests to claim
\* and whether all are done.
Idle == [pc |-> "idle", kind |-> "none", today |-> 0, seen |-> NoRow,
         amount |-> 0, pays |-> {}, w |-> 0, quests |-> NoWeek, fresh |-> {},
         all |-> FALSE]

Request == [pc : Pc, kind : Kinds \cup {"none"}, today : Day, seen : StreakRow,
            amount : Nat, pays : SUBSET Reward, w : Week, quests : QuestRow,
            fresh : SUBSET Quest, all : BOOLEAN]

TypeOK == /\ day \in Day
          /\ row \in StreakRow
          /\ shown \in Nat
          /\ frozen \subseteq Day
          /\ earned \in Nat
          /\ capped \in [Day -> Nat]
          /\ week \in [Week -> QuestRow]
          /\ done \in [Week -> SUBSET Quest]
          /\ req \in [Proc -> Request]
          /\ paid \in [Week -> [Reward -> Nat]]
          /\ lost \subseteq Week \X Reward
          /\ practised \subseteq Day
          /\ sent \in Nat
          /\ fails \in Nat

\* A learner who never practised, or who practised on day 0 and has bought
\* freezes with all the XP earned before.
Init == /\ day = 0
        /\ \/ row = NoRow
           \/ \E f \in 0..MAX_FREEZES :
                row = [exists |-> TRUE, current |-> 1, longest |-> 1, last |-> 0,
                       freezes |-> f, spent |-> f * FREEZE_PRICE]
        /\ shown = row.current
        /\ frozen = {}
        /\ earned = row.spent
        /\ capped = [d \in Day |-> 0]
        /\ week = [w \in Week |-> NoWeek]
        /\ done = [w \in Week |-> {}]
        /\ req = [p \in Proc |-> Idle]
        /\ paid = [w \in Week |-> [x \in Reward |-> 0]]
        /\ lost = {}
        /\ practised = IF row.exists THEN {0} ELSE {}
        /\ sent = 0
        /\ fails = 0

-----------------------------------------------------------------------------

WeekOf(d) == d \div WeekDays

Least(a, b) == IF a <= b THEN a ELSE b
Most(a, b) == IF a >= b THEN a ELSE b

\* Handler p goes on with the values r at pc; one that is done forgets them.
Goto(p, r, pc) ==
  req' = [req EXCEPT ![p] = IF pc = "idle" THEN Idle ELSE [r EXCEPT !.pc = pc]]

\* Where the caller of recordActivity() goes on, whether it succeeded or not.
AfterActivity(r) == IF r.kind # "look" THEN "idle"
                    ELSE IF r.pays = {Chest} THEN "give" ELSE "chest"

\* useFreezes() is over: touchStreak() reads the row again, streak() answers.
AfterFreezes(r) == IF r.kind \in {"buy", "streak"} THEN "idle" ELSE "read"

-----------------------------------------------------------------------------
(* The requests *)

Begin(p, kind, new) == /\ kind \in Kind
                       /\ req[p] = Idle
                       /\ sent < MaxRequests
                       /\ req' = [req EXCEPT ![p] = [new EXCEPT !.kind = kind]]
                       /\ sent' = sent + 1
                       /\ UNCHANGED <<day, streakVars, questVars, xpVars, lost, fails>>

\* A rewarded activity: recordActivity(userId, REWARD, reason).
Practise(p) == Begin(p, "practice", [Idle EXCEPT !.pc = "pay", !.amount = REWARD])

\* A chat message or another activity with a daily cap: recordCappedActivity().
PractiseCapped(p) == Begin(p, "capped", [Idle EXCEPT !.pc = "cap", !.today = day])

\* The learner opens the quests, for the week of that moment.
Look(p) == Begin(p, "look", [Idle EXCEPT !.pc = "week", !.w = WeekOf(day)])

BuyFreeze(p) == Begin(p, "buy", [Idle EXCEPT !.pc = "shop"])

\* The streak page: useFreezes(), then reads.
SeeStreak(p) == Begin(p, "streak", [Idle EXCEPT !.pc = "freeze", !.today = day])

-----------------------------------------------------------------------------
(* recordCappedActivity and recordActivity *)

\* Seeded bug: the amount is not cut to what is left of the cap.
WholeReward(p) ==
  LET r == req[p] IN
  /\ r.pc = "cap"
  /\ Goto(p, [r EXCEPT !.amount = IF capped[r.today] < DailyCap + REWARD
                                  THEN REWARD ELSE 0], "pay")
  /\ UNCHANGED <<day, streakVars, questVars, xpVars, lost, sent, fails>>

ReadCap(p) ==
  LET r == req[p] IN
  /\ r.pc = "cap"
  /\ Goto(p, [r EXCEPT !.amount = Most(0, Least(REWARD, DailyCap - capped[r.today]))],
          "pay")
  /\ UNCHANGED <<day, streakVars, questVars, xpVars, lost, sent, fails>>

\* The XP row and the profile's total, in one transaction; touchStreak() then
\* takes the time.
Pay(p) ==
  LET r == req[p] IN
  /\ r.pc = "pay"
  /\ earned' = earned + r.amount
  /\ capped' = IF r.kind = "capped"
               THEN [d \in Day |-> IF d <= day THEN capped[d] + r.amount ELSE capped[d]]
               ELSE capped
  /\ paid' = [paid EXCEPT ![r.w] = [x \in Reward |->
                                      @[x] + IF x \in r.pays THEN 1 ELSE 0]]
  /\ Goto(p, [r EXCEPT !.today = day], "freeze")
  /\ UNCHANGED <<day, streakVars, questVars, lost, sent, fails>>

-----------------------------------------------------------------------------
(* useFreezes and touchStreak *)

Missed(r) == r.today - r.seen.last - 1

\* The row as useFreezes() reads it: are there days to cover, and can it?
ReadFreezes(p) ==
  LET r == [req[p] EXCEPT !.seen = row]
      covers == /\ row.exists
                /\ row.current > 0
                /\ row.freezes > 0
                /\ Missed(r) \in 1..row.freezes IN
  /\ r.pc = "freeze"
  /\ Goto(p, r, IF covers THEN "spend" ELSE AfterFreezes(r))
  /\ UNCHANGED <<day, streakVars, questVars, xpVars, lost, sent, fails>>

\* Seeded bug: the update is not conditional.
SpendAnyway(p) ==
  LET r == req[p] IN
  /\ r.pc = "spend"
  /\ row' = [row EXCEPT !.freezes = @ - Missed(r), !.last = r.today - 1]
  /\ Goto(p, r, "cover")
  /\ UNCHANGED <<day, shown, frozen, practised, questVars, xpVars, lost, sent, fails>>

\* The conditional update on the date that was read.
SpendFreezes(p) ==
  LET r == req[p]
      hit == row.last = r.seen.last /\ row.freezes >= Missed(r) IN
  /\ r.pc = "spend"
  /\ row' = IF hit THEN [row EXCEPT !.freezes = @ - Missed(r), !.last = r.today - 1]
            ELSE row
  /\ Goto(p, r, IF hit THEN "cover" ELSE AfterFreezes(r))
  /\ UNCHANGED <<day, shown, frozen, practised, questVars, xpVars, lost, sent, fails>>

CoverDays(p) ==
  LET r == req[p] IN
  /\ r.pc = "cover"
  /\ frozen' = frozen \cup ((r.seen.last + 1)..(r.today - 1))
  /\ Goto(p, r, AfterFreezes(r))
  /\ UNCHANGED <<day, row, shown, practised, questVars, xpVars, lost, sent, fails>>

\* The row as touchStreak() reads it, after the freezes.
ReadStreak(p) ==
  LET r == [req[p] EXCEPT !.seen = row] IN
  /\ r.pc = "read"
  /\ Goto(p, r, IF row.exists /\ r.today <= row.last THEN AfterActivity(r) ELSE "write")
  /\ practised' = practised \cup {r.today}
  /\ UNCHANGED <<day, row, shown, frozen, questVars, xpVars, lost, sent, fails>>

\* The streak a handler writes, from the row it read.
NewCurrent(r) == IF r.seen.exists /\ r.today - r.seen.last = 1
                 THEN r.seen.current + 1 ELSE 1

\* Seeded bug: the streak is incremented in the database.
BumpStreak(p) ==
  LET r == req[p] IN
  /\ r.pc = "write"
  /\ row' = [row EXCEPT !.exists = TRUE, !.last = r.today,
                        !.current = IF NewCurrent(r) > 1 THEN @ + 1 ELSE 1,
                        !.longest = Most(r.seen.longest, row.current + 1)]
  /\ Goto(p, r, "show")
  /\ UNCHANGED <<day, shown, frozen, practised, questVars, xpVars, lost, sent, fails>>

\* The upsert: nothing checks that the row is still the one that was read.
WriteStreak(p) ==
  LET r == req[p] IN
  /\ r.pc = "write"
  /\ row' = [row EXCEPT !.exists = TRUE, !.current = NewCurrent(r),
                        !.longest = Most(r.seen.longest, NewCurrent(r)),
                        !.last = r.today]
  /\ Goto(p, r, "show")
  /\ UNCHANGED <<day, shown, frozen, practised, questVars, xpVars, lost, sent, fails>>

ShowStreak(p) ==
  LET r == req[p] IN
  /\ r.pc = "show"
  /\ shown' = NewCurrent(r)
  /\ Goto(p, r, AfterActivity(r))
  /\ UNCHANGED <<day, row, frozen, practised, questVars, xpVars, lost, sent, fails>>

-----------------------------------------------------------------------------
(* QuestsService.get *)

\* The week's row is there, or it is made next.
ReadWeek(p) ==
  LET r == req[p] IN
  /\ r.pc = "week"
  /\ Goto(p, [r EXCEPT !.quests = week[r.w]],
          IF week[r.w].made THEN "measure" ELSE "make")
  /\ UNCHANGED <<day, streakVars, questVars, xpVars, lost, sent, fails>>

\* The insert, or, when another request was first, that request's row.
MakeWeek(p) ==
  LET r == req[p] IN
  /\ r.pc = "make"
  /\ week' = [week EXCEPT ![r.w].made = TRUE]
  /\ Goto(p, [r EXCEPT !.quests = week'[r.w]], "measure")
  /\ UNCHANGED <<day, streakVars, done, xpVars, lost, sent, fails>>

\* Seeded bug: what is done is counted from the start of the running week.
MeasureThisWeek(p) ==
  LET r == req[p]
      now == done[WeekOf(day)]
      fresh == now \ r.quests.mask IN
  /\ r.pc = "measure"
  /\ Goto(p, [r EXCEPT !.fresh = fresh, !.all = (now = Quest)],
          IF fresh # {} THEN "claim" ELSE "chest")
  /\ UNCHANGED <<day, streakVars, questVars, xpVars, lost, sent, fails>>

\* measure() and newlyDone(), against the mask as read.
Measure(p) ==
  LET r == req[p]
      fresh == done[r.w] \ r.quests.mask IN
  /\ r.pc = "measure"
  /\ Goto(p, [r EXCEPT !.fresh = fresh, !.all = (done[r.w] = Quest)],
          IF fresh # {} THEN "claim" ELSE "chest")
  /\ UNCHANGED <<day, streakVars, questVars, xpVars, lost, sent, fails>>

\* Seeded bug: the mask is written whatever it is by now.
ClaimAnyway(p) ==
  LET r == req[p] IN
  /\ r.pc = "claim"
  /\ week' = [week EXCEPT ![r.w].mask = r.quests.mask \cup r.fresh]
  /\ Goto(p, [r EXCEPT !.pays = r.fresh,
                       !.amount = QUEST_XP * Cardinality(r.fresh)], "pay")
  /\ UNCHANGED <<day, streakVars, done, xpVars, lost, sent, fails>>

\* The mask is set if it is still the one that was read; then the XP is paid.
ClaimQuests(p) ==
  LET r == req[p]
      hit == week[r.w].mask = r.quests.mask IN
  /\ r.pc = "claim"
  /\ week' = IF hit THEN [week EXCEPT ![r.w].mask = @ \cup r.fresh] ELSE week
  /\ IF hit
     THEN Goto(p, [r EXCEPT !.pays = r.fresh,
                            !.amount = QUEST_XP * Cardinality(r.fresh)], "pay")
     ELSE Goto(p, r, "chest")
  /\ UNCHANGED <<day, streakVars, done, xpVars, lost, sent, fails>>

\* The chest opens if all quests were measured as done, it was closed when the
\* row was read, and it still is.
OpenChest(p) ==
  LET r == req[p]
      hit == r.all /\ ~r.quests.completed /\ ~week[r.w].completed IN
  /\ r.pc = "chest"
  /\ week' = IF hit THEN [week EXCEPT ![r.w].completed = TRUE] ELSE week
  /\ IF hit
     THEN Goto(p, [r EXCEPT !.pays = {Chest}, !.amount = CHEST_XP], "pay")
     ELSE Goto(p, r, "idle")
  /\ UNCHANGED <<day, streakVars, done, xpVars, lost, sent, fails>>

\* Seeded bug: the chest's freeze is given to whoever has a streak.
GiveAlways(p) ==
  /\ req[p].pc = "give"
  /\ row' = IF row.exists THEN [row EXCEPT !.freezes = @ + 1] ELSE row
  /\ Goto(p, req[p], IF row.exists THEN "mark" ELSE "idle")
  /\ UNCHANGED <<day, shown, frozen, practised, questVars, xpVars, lost, sent, fails>>

\* The chest's freeze, unless the learner holds the most.
GiveFreeze(p) ==
  LET hit == row.exists /\ row.freezes < MAX_FREEZES IN
  /\ req[p].pc = "give"
  /\ row' = IF hit THEN [row EXCEPT !.freezes = @ + 1] ELSE row
  /\ Goto(p, req[p], IF hit THEN "mark" ELSE "idle")
  /\ UNCHANGED <<day, shown, frozen, practised, questVars, xpVars, lost, sent, fails>>

MarkGiven(p) ==
  /\ req[p].pc = "mark"
  /\ week' = [week EXCEPT ![req[p].w].given = TRUE]
  /\ Goto(p, req[p], "idle")
  /\ UNCHANGED <<day, streakVars, done, xpVars, lost, sent, fails>>

-----------------------------------------------------------------------------
(* QuestsService.buyFreeze *)

ReadShop(p) ==
  LET r == [req[p] EXCEPT !.seen = row] IN
  /\ r.pc = "shop"
  /\ Goto(p, r, IF row.exists /\ row.freezes < MAX_FREEZES THEN "balance" ELSE "idle")
  /\ UNCHANGED <<day, streakVars, questVars, xpVars, lost, sent, fails>>

ReadBalance(p) ==
  LET r == req[p] IN
  /\ r.pc = "balance"
  /\ Goto(p, r, IF earned - r.seen.spent >= FREEZE_PRICE THEN "buy" ELSE "idle")
  /\ UNCHANGED <<day, streakVars, questVars, xpVars, lost, sent, fails>>

\* Seeded bug: the purchase does not check what was spent meanwhile.
BuyTwice(p) ==
  LET r == req[p]
      hit == row.freezes < MAX_FREEZES IN
  /\ r.pc = "buy"
  /\ row' = IF hit THEN [row EXCEPT !.freezes = @ + 1, !.spent = @ + FREEZE_PRICE]
            ELSE row
  /\ Goto(p, [r EXCEPT !.today = day], IF hit THEN "freeze" ELSE "idle")
  /\ UNCHANGED <<day, shown, frozen, practised, questVars, xpVars, lost, sent, fails>>

\* The conditional update on what had been spent; streak() answers.
Buy(p) ==
  LET r == req[p]
      hit == row.spent = r.seen.spent /\ row.freezes < MAX_FREEZES IN
  /\ r.pc = "buy"
  /\ row' = IF hit THEN [row EXCEPT !.freezes = @ + 1, !.spent = @ + FREEZE_PRICE]
            ELSE row
  /\ Goto(p, [r EXCEPT !.today = day], IF hit THEN "freeze" ELSE "idle")
  /\ UNCHANGED <<day, shown, frozen, practised, questVars, xpVars, lost, sent, fails>>

-----------------------------------------------------------------------------
(* The world *)

\* Elsewhere in the app the learner does what a quest of week w asks for.  What
\* is done after the week counts as well, as measure() has a start and no end:
\* to a request of the week that midnight has overtaken.
FinishQuest(w, q) ==
  /\ "look" \in Kind
  /\ w <= WeekOf(day)
  /\ q \notin done[w]
  /\ done' = [done EXCEPT ![w] = @ \cup {q}]
  /\ UNCHANGED <<day, streakVars, week, xpVars, req, lost, sent, fails>>

Midnight == /\ day < MaxDay
            /\ day' = day + 1
            /\ UNCHANGED <<streakVars, questVars, xpVars, req, lost, sent, fails>>

\* A statement fails.  recordActivity() logs the error and its caller goes on;
\* any other handler gives up, as does one whose process stops.
Fail(p) ==
  LET r == req[p] IN
  /\ r.pc # "idle"
  /\ fails < MaxFails
  /\ fails' = fails + 1
  /\ lost' = IF r.pc = "pay" THEN lost \cup ({r.w} \X r.pays) ELSE lost
  /\ \/ Goto(p, r, "idle")
     \/ r.pc \in Activity /\ Goto(p, r, AfterActivity(r))
  /\ UNCHANGED <<day, streakVars, questVars, xpVars, sent>>

Serve(p) == \/ ReadCap(p) \/ Pay(p) \/ ReadFreezes(p) \/ SpendFreezes(p)
            \/ CoverDays(p) \/ ReadStreak(p) \/ WriteStreak(p) \/ ShowStreak(p)
            \/ ReadWeek(p) \/ MakeWeek(p) \/ Measure(p) \/ ClaimQuests(p)
            \/ OpenChest(p) \/ GiveFreeze(p) \/ MarkGiven(p)
            \/ ReadShop(p) \/ ReadBalance(p) \/ Buy(p)

Send(p) == \/ Practise(p) \/ PractiseCapped(p) \/ Look(p) \/ BuyFreeze(p)
           \/ SeeStreak(p)

Next == \/ Midnight
        \/ \E w \in Week, q \in Quest : FinishQuest(w, q)
        \/ \E p \in Proc : Send(p) \/ Serve(p) \/ Fail(p)

Spec == Init /\ [][Next]_vars

-----------------------------------------------------------------------------
(* What must hold *)

\* Who is about to pay for x of week w.
Holders(w, x) == {p \in Proc : req[p].pc = "pay" /\ req[p].w = w /\ x \in req[p].pays}

\* The XP of day d that a cap counts.
CappedOf(d) == capped[d] - IF d < MaxDay THEN capped[d + 1] ELSE 0

Claimed(w) == week[w].mask \cup IF week[w].completed THEN {Chest} ELSE {}

\* Every quest and every chest is paid once (quests.service.ts:51-81): what was
\* claimed has been paid once, is being paid by one handler, or its payment
\* failed; what was not claimed is not paid.  So two tabs never pay twice, and
\* only a failure between the claim and the payment leaves a quest unpaid.
EachClaimPaidOnce ==
  \A w \in Week, x \in Reward :
    paid[w][x] + Cardinality(Holders(w, x)) + Cardinality({<<w, x>>} \cap lost)
      = IF x \in Claimed(w) THEN 1 ELSE 0

\* A quest pays only for what was done since its own week began, and the chest
\* only when all quests of its week are done, whenever midnight overtakes a tab
\* (quests.service.ts:46-72).
PaysForWork ==
  \A w \in Week : /\ week[w].mask \subseteq done[w]
                  /\ week[w].completed => done[w] = Quest

\* The streak never counts more days than the learner practised on up to its
\* last day, whatever was frozen, bought or written late
\* (activity.service.ts:116-137).
StreakIsEarned ==
  row.current <= Cardinality({d \in practised : d <= row.last})

\* The shop never takes XP that was not earned: not on a double click, not while
\* rewards come in (quests.service.ts:204-219).
NeverOverspent == row.spent <= earned

\* A daily cap is passed by at most one reward for each other handler in flight
\* (activity.service.ts:66-80): the rest of the cap is read before the XP is
\* written.
CapNearlyHolds ==
  \A d \in Day : CappedOf(d) <= DailyCap + (Cardinality(Proc) - 1) * REWARD

-----------------------------------------------------------------------------
(* What a comment promises and the code does not keep: see the README *)

\* activity.service.ts:84-86: a freeze is not "wasted on a streak that is lost
\* anyway".  A handler that read the row before the freezes were spent restarts
\* a streak whose missed yesterday they have covered.
FreezeSavesStreak ==
  [][ \A p \in Proc : WriteStreak(p) /\ (req[p].today - 1) \in frozen
                        => row'.current > 1 ]_vars

-----------------------------------------------------------------------------
(* The inductive invariant behind these *)

\* The days practised up to d.
PractisedBy(d) == Cardinality({e \in practised : e <= d})

\* What a handler relies on at its step still holds.
Sound(r) ==
  /\ r.pc = "buy" => r.seen.spent + FREEZE_PRICE <= earned
  /\ r.pc = "spend" => Missed(r) >= 1
  /\ r.pc = "write" => r.today \in practised
  /\ r.seen.current <= PractisedBy(r.seen.last)
  /\ r.fresh \subseteq done[r.w]
  /\ r.pc = "claim" => r.fresh \cap r.quests.mask = {}
  /\ r.pc = "cap" => r.pays = {}
  /\ r.all => done[r.w] = Quest

StreakInv == /\ TypeOK /\ StreakIsEarned /\ NeverOverspent /\ PaysForWork
             /\ \A p \in Proc : Sound(req[p])

IInv == StreakInv /\ EachClaimPaidOnce

\* The handlers about to pay XP that a cap counts.
Rewarding == {p \in Proc : req[p].pc = "pay" /\ req[p].kind = "capped" /\ req[p].amount > 0}

\* The XP of today has room for one of them below the cap and a reward for each
\* handler that is not among them: who reads the cap has just seen the room for
\* its own, and who pays becomes one of the others.
CapFits ==
  IF Rewarding = {}
  THEN capped[day] <= DailyCap + (Cardinality(Proc) - 1) * REWARD
  ELSE \E p \in Rewarding :
         capped[day] + req[p].amount
           <= DailyCap + (Cardinality(Proc) - Cardinality(Rewarding)) * REWARD

\* Such a handler comes from the cap, which it reads for a day that has begun.
CapReads ==
  /\ \A p \in Proc : req[p].kind = "capped" => req[p].pc \in Activity \cup {"cap"}
  /\ \A p \in Proc : req[p].pc = "cap" => req[p].kind = "capped" /\ req[p].today <= day
  /\ \A p \in Rewarding : req[p].amount <= REWARD /\ req[p].amount <= DailyCap

\* What was earned since a day is no less than since a later one.
DaysFit == /\ \A d \in Day : d > day => capped[d] = 0
           /\ \A d, e \in Day : d <= e => capped[e] <= capped[d]

CapInv == CapFits /\ CapReads /\ DaysFit /\ CapNearlyHolds
=============================================================================
