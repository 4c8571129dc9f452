\* Two handlers around the first and the second extension and the end; the
\* clock runs past every deadline an extension can set.
SPECIFICATION LiveSpec
CONSTANTS
  Side = {a, b}
  Proc = {p1, p2}
  CallTime = 1
  ExtendTime = 1
  MaxExtensions = 2
  Window = 1
  Slack = 0
  MaxTime = 5
  MaxAgrees = 3
  MaxFails = 1
INVARIANTS
  TypeOK
  SettledOnce
  TimeMatchesExtensions
  ExtensionsNearlyBounded
PROPERTIES
  EndedIsFinal
  CallsEnd
  CallKept
\* A call that ended and settled, with the clock at its bound, is at rest.
CHECK_DEADLOCK FALSE
