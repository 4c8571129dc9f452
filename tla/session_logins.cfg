\* Two logins of one account under two requests: logoutAll beside refreshes,
\* logouts and new logins, the refinement of the abstract life of a login, and
\* every request answered.  The clock stands still: session_family lets it pass.
SPECIFICATION LiveSpec
CONSTANTS
  Sid = {s1, s2}
  Family = {f1, f2}
  Proc = {p1, p2}
  User = {u1}
  Ctx = {c1}
  None = None
  TTL = 1
  Grace = 0
  MaxRaceHits = 1
  MaxTime = 0
INVARIANTS
  LogoutAllEndsListed
PROPERTIES
  LoginsEndForGood
  RequestsFinish
\* The bounds run out: every token id is used.
CHECK_DEADLOCK FALSE
