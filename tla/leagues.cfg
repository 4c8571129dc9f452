\* Two people, two joins at once and two instances that settle the first week
\* while the second has begun.  A group takes one person; of two
\* who got into one the better moves up.
SPECIFICATION Spec
CONSTANTS
  User = {u1, u2}
  Joiner = {p1, p2}
  Settler = {s1, s2}
  GROUP_SIZE = 1
  UP = 0
  DOWN = 0
  SPARED = 2
  TOP_TIER = 1
  MaxWeek = 1
  MaxXp = 1
  MaxGroups = 2
  MaxFails = 1
SYMMETRY Alike
INVARIANTS
  TypeOK
  MovedOnce
  EachMemberMoves
\* The weeks and the groups are bounded.
CHECK_DEADLOCK FALSE
