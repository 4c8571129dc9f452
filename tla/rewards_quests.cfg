\* Two tabs and a chat: two quests in each of two weeks, the chest, and a cap of
\* one reward a day.  A week of one day lets midnight end it while a tab looks.
SPECIFICATION Spec
CONSTANTS
  Proc = {p1, p2}
  Kind = {"look", "capped"}
  Quest = {q1, q2}
  MAX_FREEZES = 1
  FREEZE_PRICE = 1
  QUEST_XP = 1
  CHEST_XP = 2
  REWARD = 1
  DailyCap = 1
  WeekDays = 1
  MaxDay = 1
  MaxRequests = 3
  MaxFails = 1
SYMMETRY Interchangeable
INVARIANTS
  TypeOK
  EachClaimPaidOnce
  PaysForWork
  CapNearlyHolds
\* The requests are bounded.
CHECK_DEADLOCK FALSE
