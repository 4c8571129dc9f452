------------------------------- MODULE Leagues -------------------------------
(***************************************************************************)
(* The weekly leagues (gamification/leagues.service.ts, leagues.engine.ts):*)
(* whoever earns XP joins a group of their tier, and when the week is over *)
(* a background pass of each instance settles the groups and moves their   *)
(* members up or down.  Joins come from the league page and from the       *)
(* background pass; all of them interleave at every await.                 *)
(***************************************************************************)
EXTENDS Integers, FiniteSets

CONSTANTS User,
          Joiner,       \* handlers that put someone in a group
          Settler,      \* background passes, one per instance
          GROUP_SIZE,   \* people in a group
          UP, DOWN,     \* how many of a full group move up and down
          SPARED,       \* nobody is demoted from a group smaller than this
          TOP_TIER,
          MaxWeek,      \* bound on the clock, for model checking
          MaxXp,        \* bound on the XP of one week
          MaxGroups,    \* bound on the groups that are made
          MaxFails      \* bound on statements that fail

ASSUME LeaguesAssumption ==
  /\ IsFiniteSet(User)
  /\ GROUP_SIZE \in Nat \ {0}
  /\ {UP, DOWN, SPARED, TOP_TIER, MaxWeek, MaxXp, MaxGroups, MaxFails} \subseteq Nat

VARIABLES week,     \* the week of the clock
          xp,       \* xp[u][w]: what u earned in week w
          profile,  \* profile[u]: the LeagueProfile row
          group,    \* group[g]: the LeagueGroup rows, in the order of createdAt
          member,   \* member[u][w]: the LeagueMember row
          join,     \* join[p]: the state of joiner p
          pass,     \* pass[s]: the state of settler s
          moves,    \* ghost: moves[u][w] counts how often week w moved u
          fails     \* passes that failed so far

vars == <<week, xp, profile, group, member, join, pass, moves, fails>>

Week == 0..MaxWeek
Tier == 0..TOP_TIER
Group == 1..MaxGroups
Zone == {"promote", "stay", "demote"}
None == 0   \* no group yet

ProfileRow == [tier : Tier, bestTier : Tier]
\* made: whether the row exists; open: finalizedAt IS NULL
GroupRow == [made : BOOLEAN, open : BOOLEAN, week : Week, tier : Tier]
NoGroup == [made |-> FALSE, open |-> TRUE, week |-> 0, tier |-> 0]
\* at orders the members of a group by createdAt; late tells those who entered
\* after their week was over (a ghost).
NoMember == [group |-> None, tier |-> 0, at |-> 0, late |-> FALSE, result |-> "none"]
MemberRow == {NoMember} \cup [group : Group, tier : Tier, at : Nat, late : BOOLEAN,
                              result : Zone \cup {"none"}]

Away == [pc |-> "idle", user |-> "none", week |-> 0, tier |-> 0, group |-> None]
JoinState == [pc : {"idle", "tier", "find", "new", "enter"}, user : User \cup {"none"},
              week : Week, tier : Tier, group : Group \cup {None}]

\* A pass keeps the groups that were due with their members as it read them,
\* the group it has claimed, the members still to move and the one it is at.
Rest == [pc |-> "idle", due |-> {}, seen |-> [g \in Group |-> {}], group |-> None,
         todo |-> {}, user |-> "none", best |-> 0]
PassState == [pc : {"idle", "claim", "result", "read", "move"}, due : SUBSET Group,
              seen : [Group -> SUBSET User], group : Group \cup {None},
              todo : SUBSET User, user : User \cup {"none"}, best : Tier]

TypeOK == /\ week \in Week
          /\ xp \in [User -> [Week -> 0..MaxXp]]
          /\ profile \in [User -> ProfileRow]
          /\ group \in [Group -> GroupRow]
          /\ member \in [User -> [Week -> MemberRow]]
          /\ join \in [Joiner -> JoinState]
          /\ pass \in [Settler -> PassState]
          /\ moves \in [User -> [Week -> Nat]]
          /\ fails \in Nat

Init == /\ week = 0
        /\ xp = [u \in User |-> [w \in Week |-> 0]]
        /\ profile = [u \in User |-> [tier |-> 0, bestTier |-> 0]]
        /\ group = [g \in Group |-> NoGroup]
        /\ member = [u \in User |-> [w \in Week |-> NoMember]]
        /\ join = [p \in Joiner |-> Away]
        /\ pass = [s \in Settler |-> Rest]
        /\ moves = [u \in User |-> [w \in Week |-> 0]]
        /\ fails = 0

-----------------------------------------------------------------------------
(* leagues.engine.ts *)

Least(a, b) == IF a <= b THEN a ELSE b
Most(a, b) == IF a >= b THEN a ELSE b

\* Math.round(size * part / GROUP_SIZE)
Share(size, part) == (2 * size * part + GROUP_SIZE) \div (2 * GROUP_SIZE)

\* zoneSizes
Promoted(size, tier) == IF tier = TOP_TIER THEN 0
                        ELSE IF size <= 1 THEN size ELSE Most(1, Share(size, UP))
Demoted(size, tier) ==
  IF size <= 1 \/ tier = 0 \/ size < SPARED THEN 0
  ELSE Least(Most(1, Share(size, DOWN)), Most(0, size - Promoted(size, tier) - 1))

\* rankGroup: by XP, ties by who joined first.
Rank(u, us, w) == Cardinality({v \in us : \/ xp[v][w] > xp[u][w]
                                          \/ /\ xp[v][w] = xp[u][w]
                                             /\ member[v][w].at <= member[u][w].at})

ZoneOf(u, us, w, tier) ==
  LET r == Rank(u, us, w)
      n == Cardinality(us) IN
  IF r <= Promoted(n, tier) /\ xp[u][w] > 0 THEN "promote"
  ELSE IF tier > 0 /\ (r > n - Demoted(n, tier) \/ xp[u][w] = 0) THEN "demote"
  ELSE "stay"

NextTier(tier, zone) == CASE zone = "promote" -> Least(TOP_TIER, tier + 1)
                          [] zone = "demote"  -> Most(0, tier - 1)
                          [] OTHER            -> tier

Members(g) == {u \in User : \E w \in Week : member[u][w].group = g}

-----------------------------------------------------------------------------
(* join: from the league page (current) and the background pass (syncWeek) *)

Step(p, r) == join' = [join EXCEPT ![p] = r]

\* Somebody who earned XP has no group yet.  A pass that began in the week
\* before asks for XP since then, which may all be of the new week.
BeginJoin(p) == \E u \in User, w \in Week :
  /\ join[p] = Away
  /\ w \in {week, week - 1}
  /\ \E v \in w..week : xp[u][v] > 0
  /\ member[u][w] = NoMember
  /\ Step(p, [Away EXCEPT !.pc = "tier", !.user = u, !.week = w])
  /\ UNCHANGED <<week, xp, profile, group, member, pass, moves, fails>>

ReadTier(p) ==
  /\ join[p].pc = "tier"
  /\ Step(p, [join[p] EXCEPT !.pc = "find", !.tier = profile[join[p].user].tier])
  /\ UNCHANGED <<week, xp, profile, group, member, pass, moves, fails>>

\* The oldest open group of the week and tier with room, or a new one.
FindGroup(p) ==
  LET r == join[p]
      fits == {g \in Group : /\ group[g] = [made |-> TRUE, open |-> TRUE,
                                            week |-> r.week, tier |-> r.tier]
                             /\ Cardinality(Members(g)) < GROUP_SIZE} IN
  /\ r.pc = "find"
  /\ \/ /\ fits = {}
        /\ Step(p, [r EXCEPT !.pc = "new"])
     \/ \E g \in fits : /\ \A h \in fits : g <= h
                        /\ Step(p, [r EXCEPT !.pc = "enter", !.group = g])
  /\ UNCHANGED <<week, xp, profile, group, member, pass, moves, fails>>

\* Seeded bug: the group that was made is not the one that is entered.
NewGroupLost(p) == \E g \in Group :
  /\ join[p].pc = "new"
  /\ ~group[g].made
  /\ \A h \in Group : h < g => group[h].made
  /\ group' = [group EXCEPT ![g] = [made |-> TRUE, open |-> TRUE,
                                    week |-> join[p].week, tier |-> join[p].tier]]
  /\ Step(p, [join[p] EXCEPT !.pc = "enter"])
  /\ UNCHANGED <<week, xp, profile, member, pass, moves, fails>>

NewGroup(p) == \E g \in Group :
  /\ join[p].pc = "new"
  /\ ~group[g].made
  /\ \A h \in Group : h < g => group[h].made
  /\ group' = [group EXCEPT ![g] = [made |-> TRUE, open |-> TRUE,
                                    week |-> join[p].week, tier |-> join[p].tier]]
  /\ Step(p, [join[p] EXCEPT !.pc = "enter", !.group = g])
  /\ UNCHANGED <<week, xp, profile, member, pass, moves, fails>>

\* The insert, unless another request has put them in a group of the week.
Enter(p) ==
  LET r == join[p]
      row == [group |-> r.group, tier |-> r.tier, at |-> Cardinality(Members(r.group)),
              late |-> week > r.week, result |-> "none"] IN
  /\ r.pc = "enter"
  /\ member' = IF member[r.user][r.week] = NoMember
               THEN [member EXCEPT ![r.user][r.week] = row] ELSE member
  /\ Step(p, Away)
  /\ UNCHANGED <<week, xp, profile, group, pass, moves, fails>>

-----------------------------------------------------------------------------
(* finalizeDue *)

Pass(s, r) == pass' = [pass EXCEPT ![s] = r]

Due == {g \in Group : group[g].made /\ group[g].open /\ group[g].week < week}

ListDue(s) ==
  /\ pass[s] = Rest
  /\ Due # {}
  /\ Pass(s, [Rest EXCEPT !.pc = "claim", !.due = Due,
                          !.seen = [g \in Group |-> IF g \in Due THEN Members(g) ELSE {}]])
  /\ UNCHANGED <<week, xp, profile, group, member, join, moves, fails>>

\* What a pass does after the last member of a group, or after a lost claim.
NextGroup(r) == IF r.due = {} THEN Rest
                ELSE [Rest EXCEPT !.pc = "claim", !.due = r.due, !.seen = r.seen]

\* Seeded bug: a pass settles what it listed without claiming it.
ClaimAnyway(s) == \E g \in pass[s].due :
  LET r == [pass[s] EXCEPT !.due = @ \ {g}] IN
  /\ r.pc = "claim"
  /\ group' = [group EXCEPT ![g].open = FALSE]
  /\ Pass(s, IF r.seen[g] # {}
             THEN [r EXCEPT !.pc = "result", !.group = g, !.todo = r.seen[g]]
             ELSE NextGroup(r))
  /\ UNCHANGED <<week, xp, profile, member, join, moves, fails>>

\* The conditional update; the groups come in no particular order.
ClaimGroup(s) == \E g \in pass[s].due :
  LET r == [pass[s] EXCEPT !.due = @ \ {g}] IN
  /\ r.pc = "claim"
  /\ group' = [group EXCEPT ![g].open = FALSE]
  /\ Pass(s, IF group[g].open /\ r.seen[g] # {}
             THEN [r EXCEPT !.pc = "result", !.group = g, !.todo = r.seen[g]]
             ELSE NextGroup(r))
  /\ UNCHANGED <<week, xp, profile, member, join, moves, fails>>

\* Members are moved in the order of their rank.
GoesFirst(u, r) == LET w == group[r.group].week
                       us == r.seen[r.group] IN
                   \A v \in r.todo : Rank(u, us, w) <= Rank(v, us, w)
ItsZone(u, r) == ZoneOf(u, r.seen[r.group], group[r.group].week, group[r.group].tier)

WriteResult(s) == \E u \in pass[s].todo :
  LET r == pass[s] IN
  /\ r.pc = "result"
  /\ GoesFirst(u, r)
  /\ member' = [member EXCEPT ![u][group[r.group].week].result = ItsZone(u, r)]
  /\ Pass(s, [r EXCEPT !.pc = "read", !.user = u])
  /\ UNCHANGED <<week, xp, profile, group, join, moves, fails>>

ReadProfile(s) ==
  /\ pass[s].pc = "read"
  /\ Pass(s, [pass[s] EXCEPT !.pc = "move", !.best = profile[pass[s].user].bestTier])
  /\ UNCHANGED <<week, xp, profile, group, member, join, moves, fails>>

\* Seeded bug: only the first member of a group is moved.
MoveFirst(s) ==
  LET r == pass[s]
      next == NextTier(group[r.group].tier, ItsZone(r.user, r)) IN
  /\ r.pc = "move"
  /\ profile' = [profile EXCEPT ![r.user] = [tier |-> next, bestTier |-> Most(r.best, next)]]
  /\ moves' = [moves EXCEPT ![r.user][group[r.group].week] = @ + 1]
  /\ Pass(s, NextGroup(r))
  /\ UNCHANGED <<week, xp, group, member, join, fails>>

\* The tier follows from the group's tier, not from the profile's.
MoveMember(s) ==
  LET r == pass[s]
      next == NextTier(group[r.group].tier, ItsZone(r.user, r))
      todo == r.todo \ {r.user} IN
  /\ r.pc = "move"
  /\ profile' = [profile EXCEPT ![r.user] = [tier |-> next, bestTier |-> Most(r.best, next)]]
  /\ moves' = [moves EXCEPT ![r.user][group[r.group].week] = @ + 1]
  /\ Pass(s, IF todo = {} THEN NextGroup(r) ELSE [r EXCEPT !.pc = "result", !.todo = todo])
  /\ UNCHANGED <<week, xp, group, member, join, fails>>

\* A statement fails or the instance stops: the pass is given up.
GiveUp(s) == /\ pass[s] # Rest
             /\ fails < MaxFails
             /\ fails' = fails + 1
             /\ Pass(s, Rest)
             /\ UNCHANGED <<week, xp, profile, group, member, join, moves>>

-----------------------------------------------------------------------------

Earn(u) == /\ xp[u][week] < MaxXp
           /\ xp' = [xp EXCEPT ![u][week] = @ + 1]
           /\ UNCHANGED <<week, profile, group, member, join, pass, moves, fails>>

Monday == /\ week < MaxWeek
          /\ week' = week + 1
          /\ UNCHANGED <<xp, profile, group, member, join, pass, moves, fails>>

JoinStep(p) == \/ BeginJoin(p) \/ ReadTier(p) \/ FindGroup(p) \/ NewGroup(p) \/ Enter(p)
PassStep(s) == \/ ListDue(s) \/ ClaimGroup(s) \/ WriteResult(s) \/ ReadProfile(s)
               \/ MoveMember(s)

Next == \/ Monday
        \/ \E u \in User : Earn(u)
        \/ \E p \in Joiner : JoinStep(p)
        \/ \E s \in Settler : PassStep(s) \/ GiveUp(s)

Spec == Init /\ [][Next]_vars

-----------------------------------------------------------------------------
(* What must hold *)

\* A week moves its members once, however many instances settle it
\* (leagues.service.ts:136-138), and only who has a result.
MovedOnce ==
  \A u \in User, w \in Week :
    /\ moves[u][w] <= 1
    /\ moves[u][w] = 1 => member[u][w].result # "none"

\* Once a group is settled everybody who entered it in its week has been moved,
\* unless a pass failed (leagues.service.ts:126-171).
EachMemberMoves ==
  fails = 0 =>
    \A u \in User, w \in Week :
      LET m == member[u][w] IN
      /\ m.group # None
      /\ ~m.late
      /\ ~group[m.group].open
      /\ \A s \in Settler : u \in pass[s].todo => pass[s].group # m.group
      => moves[u][w] = 1

-----------------------------------------------------------------------------
(* What a comment promises and the code does not keep: see the README *)

\* leagues.engine.ts:89: where each member plays next week.  Whoever joins the
\* next week's group before the last week is settled stays in the old tier.
PlaysInNextTier ==
  \A u \in User, w \in Week \ {MaxWeek} :
    /\ member[u][w].result # "none"
    /\ member[u][w + 1].group # None
    => member[u][w + 1].tier = NextTier(member[u][w].tier, member[u][w].result)

-----------------------------------------------------------------------------
(* The inductive invariant behind these *)

Working(s) == pass[s].pc \in {"result", "read", "move"}
Busy(s) == pass[s].due \cup (IF Working(s) THEN {pass[s].group} ELSE {})

JoinsFit == \A p \in Joiner :
  LET r == join[p] IN
  /\ r.pc # "idle" => r.user \in User
  /\ r.pc = "enter" => /\ r.group \in Group
                       /\ group[r.group].made
                       /\ group[r.group].week = r.week

\* A group is closed when its week is over; its members are of that week.
GroupsFit ==
  /\ \A g \in Group : ~group[g].open => group[g].made /\ group[g].week < week
  /\ \A u \in User, w \in Week : member[u][w].group # None =>
       LET g == member[u][w].group IN group[g].made /\ group[g].week = w

\* A pass knows every member its groups had when their week was over; whom it
\* still has to move nobody has moved.
PassFits(s) ==
  LET r == pass[s] IN
  /\ \A g \in Busy(s) : /\ g \in Group
                        /\ group[g].made /\ group[g].week < week
                        /\ r.seen[g] \subseteq Members(g)
                        /\ \A u \in Members(g) \ r.seen[g] : member[u][group[g].week].late
  /\ Working(s) => /\ ~group[r.group].open
                   /\ r.todo \subseteq r.seen[r.group]
                   /\ \A u \in r.todo : moves[u][group[r.group].week] = 0
  /\ r.pc \in {"read", "move"} => /\ r.user \in r.todo
                                  /\ member[r.user][group[r.group].week].result # "none"
  /\ ~Working(s) => r.todo = {}

PassesApart == \A s, t \in Settler :
  Working(s) /\ Working(t) /\ pass[s].group = pass[t].group => s = t

MovesFit == \A u \in User, w \in Week :
  LET m == member[u][w] IN
  /\ moves[u][w] = 0 \/ (moves[u][w] = 1 /\ m.result # "none")
  /\ m.group = None \/ group[m.group].open => moves[u][w] = 0

SettledFit == fails = 0 =>
  \A u \in User, w \in Week :
    LET m == member[u][w] IN
    m.group # None /\ ~m.late /\ ~group[m.group].open =>
      \/ moves[u][w] = 1
      \/ \E s \in Settler : Working(s) /\ pass[s].group = m.group /\ u \in pass[s].todo

IInv == /\ TypeOK
        /\ JoinsFit
        /\ GroupsFit
        /\ \A s \in Settler : PassFits(s)
        /\ PassesApart
        /\ MovesFit
        /\ SettledFit
=============================================================================
