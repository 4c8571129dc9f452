\* The host with one tab, a guest with a tab on each of two instances, and a
\* room for one.
SPECIFICATION Spec
CONSTANTS
  User = {h, g}
  CREATOR = h
  Instance = {i1, i2}
  Socket <- Tabs
  maxParticipants = 1
  MaxAtOnce = 3
  MaxRequests = 4
  MaxFails = 1
INVARIANTS
  TypeOK
  BanHolds
  NoGhosts
\* The requests are bounded.
CHECK_DEADLOCK FALSE
