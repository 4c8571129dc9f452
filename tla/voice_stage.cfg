\* The host, two others and four requests, two of them at once; one failure.
SPECIFICATION Spec
CONSTANTS
  User = {h, a, b}
  CREATOR = h
  MaxAtOnce = 2
  MaxRequests = 4
  MaxFails = 1
SYMMETRY Alike
INVARIANTS
  MicWithinRight
\* The requests are bounded.
CHECK_DEADLOCK FALSE
