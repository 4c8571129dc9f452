\* Without failures everyone who asked for a call is told the outcome.
SPECIFICATION LiveSpec
CONSTANTS
  User = {u1, u2}
  Suited = {{u1, u2}}
  Instance = {i1, i2}
  Proc = {p1}
  Call = {c1, c2}
  Nobody = Nobody
  MaxJoins = 1
  MaxBlocks = 1
  MaxFails = 0
PROPERTIES
  WaitersAreTold
\* Everyone has joined, waited and called as often as the bounds allow.
CHECK_DEADLOCK FALSE
