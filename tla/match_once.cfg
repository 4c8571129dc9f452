\* Two instances, three people who join once each, one block, one failing command.
SPECIFICATION Spec
CONSTANTS
  User = {u1, u2, u3}
  Suited = {{u1, u2}, {u1, u3}, {u2, u3}}
  Instance = {i1, i2}
  Proc = {p1}
  Call = {c1, c2}
  Nobody = Nobody
  MaxJoins = 1
  MaxBlocks = 1
  MaxFails = 1
SYMMETRY Interchangeable
INVARIANTS
  TypeOK
  OneCallPerJoin
  PlacesHaveEntries
  NobodyForgotten
\* Everyone has joined, waited and called as often as the bounds allow.
CHECK_DEADLOCK FALSE
