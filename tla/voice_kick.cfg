\* The smallest room in which a kick meets a join.
SPECIFICATION Spec
CONSTANTS
  User = {h, g}
  CREATOR = h
  Instance = {i1, i2}
  Socket <- Tabs
  maxParticipants = 1
  MaxAtOnce = 2
  MaxRequests = 3
  MaxFails = 0
INVARIANT
  KickedStaysOut
CHECK_DEADLOCK FALSE
