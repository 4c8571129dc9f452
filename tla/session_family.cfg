\* One login under two requests at a time: rotation, replay, reuse detection,
\* logout, expiry, pruning and failed transactions.
SPECIFICATION Spec
CONSTANTS
  Sid = {s1, s2, s3}
  Family = {f1}
  Proc = {p1, p2}
  User = {u1}
  Ctx = {c1}
  None = None
  TTL = 2
  Grace = 1
  MaxRaceHits = 1
  MaxTime = 3
SYMMETRY Interchangeable
INVARIANTS
  TypeOK
  FamilyEndsWhole
  OneCurrentToken
  RevocationTakesHold
  AnnouncedAfterCommit
PROPERTIES
  TokenPaysOnce
\* The bounds run out: every id used and expired, the clock at its limit.
CHECK_DEADLOCK FALSE
