\* Practice, freezes and the shop over four days: long enough to miss a day,
\* to freeze it and to be overtaken by midnight.
SPECIFICATION Spec
CONSTANTS
  Proc = {p1, p2}
  Kind = {"practice", "buy", "streak"}
  Quest = {}
  MAX_FREEZES = 2
  FREEZE_PRICE = 1
  QUEST_XP = 1
  CHEST_XP = 1
  REWARD = 1
  DailyCap = 1
  WeekDays = 7
  MaxDay = 3
  MaxRequests = 4
  MaxFails = 1
SYMMETRY Alike
INVARIANTS
  StreakIsEarned
  NeverOverspent
\* The requests are bounded.
CHECK_DEADLOCK FALSE
