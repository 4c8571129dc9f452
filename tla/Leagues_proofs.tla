---------------------------- MODULE Leagues_proofs ----------------------------
(***************************************************************************)
(* Proofs about Leagues, for any people, handlers and instances: a week    *)
(* moves nobody twice, and while no statement fails everybody who entered  *)
(* a group in its week is moved when the group is settled.  The argument:  *)
(* a group is claimed by one pass, which knows everybody who entered it    *)
(* before its week was over; whom it still has to move nobody has moved.   *)
(***************************************************************************)
EXTENDS Leagues, FiniteSetTheorems, TLAPS

-----------------------------------------------------------------------------
(* What the rows hold *)

LEMMA RowFacts ==
  ASSUME NEW m \in MemberRow
  PROVE  /\ m.group \in Group \cup {None}
         /\ m.result \in Zone \cup {"none"}
         /\ m.late \in BOOLEAN
         /\ m = NoMember <=> m.group = None
         /\ m = NoMember => m.result = "none" /\ ~m.late
<1>1. CASE m = NoMember
  BY <1>1 DEF NoMember, None
<1>2. CASE m \in [group : Group, tier : Tier, at : Nat, late : BOOLEAN,
                  result : Zone \cup {"none"}]
  <2>1. m.group \in Group /\ m.group # None
    BY <1>2 DEF Group, None
  <2>2. m # NoMember
    BY <2>1 DEF NoMember
  <2>3. QED
    BY <1>2, <2>1, <2>2
<1>3. QED
  BY <1>1, <1>2 DEF MemberRow

LEMMA GroupFacts ==
  ASSUME TypeOK, NEW g \in Group
  PROVE  /\ group[g] \in GroupRow /\ group[g].made \in BOOLEAN
         /\ group[g].open \in BOOLEAN /\ group[g].week \in Week /\ group[g].tier \in Tier
BY DEF TypeOK, GroupRow

LEMMA PassFacts ==
  ASSUME TypeOK, NEW s \in Settler
  PROVE  /\ pass[s] \in PassState
         /\ pass[s].pc \in {"idle", "claim", "result", "read", "move"}
         /\ pass[s].due \subseteq Group /\ pass[s].seen \in [Group -> SUBSET User]
         /\ pass[s].group \in Group \cup {None} /\ pass[s].todo \subseteq User
         /\ pass[s].user \in User \cup {"none"} /\ pass[s].best \in Tier
BY DEF TypeOK, PassState

LEMMA MemberFacts ==
  ASSUME TypeOK, NEW u \in User, NEW w \in Week
  PROVE  member[u][w] \in MemberRow /\ moves[u][w] \in Nat
BY DEF TypeOK

\* Somebody is a member of a group in its week and in no other.
LEMMA MemberOfItsWeek ==
  ASSUME TypeOK, GroupsFit, NEW g \in Group, NEW u \in Members(g)
  PROVE  u \in User /\ member[u][group[g].week].group = g
<1>1. PICK w \in Week : member[u][w].group = g
  BY DEF Members
<1>2. u \in User
  BY DEF Members
<1>3. g # None
  BY DEF Group, None
<1>4. group[g].week = w
  BY <1>1, <1>2, <1>3 DEF GroupsFit
<1>5. QED
  BY <1>1, <1>2, <1>4

LEMMA MemberIsMember ==
  ASSUME NEW u \in User, NEW w \in Week, NEW g, member[u][w].group = g
  PROVE  u \in Members(g)
BY DEF Members

LEMMA SizeIsNat ==
  ASSUME NEW g
  PROVE  Cardinality(Members(g)) \in Nat
<1>1. IsFiniteSet(User)
  BY LeaguesAssumption
<1>2. Members(g) \subseteq User
  BY DEF Members
<1>3. IsFiniteSet(Members(g))
  BY <1>1, <1>2, FS_Subset
<1>4. QED
  BY <1>3, FS_CardinalityType

LEMMA NextTierTyped ==
  ASSUME NEW tier \in Tier, NEW zone
  PROVE  NextTier(tier, zone) \in Tier
BY LeaguesAssumption DEF NextTier, Tier, Least, Most

LEMMA ItsZoneTyped ==
  ASSUME NEW u, NEW r
  PROVE  ItsZone(u, r) \in Zone
BY DEF ItsZone, ZoneOf, Zone

LEMMA TypedAtRest == Rest \in PassState /\ Away \in JoinState
BY LeaguesAssumption DEF Rest, Away, PassState, JoinState, Tier, Week, None

-----------------------------------------------------------------------------
(* The zones of a group *)

\* Whatever part of a full group is asked for, its share of a group is at most
\* the group.
LEMMA ShareFits ==
  ASSUME NEW size \in Nat, NEW part \in 0..GROUP_SIZE
  PROVE  Share(size, part) \in 0..size
<1> DEFINE G == GROUP_SIZE
           q == Share(size, part)
<1>1. G \in Nat /\ G > 0
  BY LeaguesAssumption
<1>2. size * part \in Nat /\ size * G \in Nat /\ size * part <= size * G
  BY <1>1
<1>3. q = (2 * (size * part) + G) \div (2 * G)
  BY <1>1 DEF Share
<1>4. q \in Nat /\ (2 * G) * q <= 2 * (size * part) + G
  BY <1>1, <1>2, <1>3
<1> HIDE DEF G, q
<1>5. CASE q > size
  <2>1. G * q >= G * (size + 1)
    BY <1>1, <1>4, <1>5
  <2>2. G * (size + 1) = size * G + G /\ (2 * G) * q = 2 * (G * q)
    BY <1>1, <1>4
  <2>3. QED
    BY <1>1, <1>2, <1>4, <2>1, <2>2
<1>6. QED
  BY <1>4, <1>5 DEF q

\* However small the group, the two zones of its ranking have no place in common
\* (leagues.engine.ts:56), and who is demoted leaves somebody above who is not.
THEOREM ZonesApart ==
  ASSUME NEW size \in Nat, NEW tier \in Tier, UP <= GROUP_SIZE, DOWN <= GROUP_SIZE
  PROVE  /\ Promoted(size, tier) \in 0..size
         /\ Demoted(size, tier) \in Nat
         /\ Promoted(size, tier) + Demoted(size, tier) <= size
         /\ Demoted(size, tier) > 0 => Promoted(size, tier) + Demoted(size, tier) < size
<1>1. Share(size, UP) \in 0..size /\ Share(size, DOWN) \in 0..size
  <2>1. UP \in 0..GROUP_SIZE /\ DOWN \in 0..GROUP_SIZE
    BY LeaguesAssumption
  <2>2. QED
    BY <2>1, ShareFits
<1>2. Promoted(size, tier) \in 0..size
  BY <1>1 DEF Promoted, Most
<1>3. CASE size <= 1 \/ tier = 0 \/ size < SPARED
  <2>1. Demoted(size, tier) = 0
    BY <1>3 DEF Demoted
  <2>2. QED
    BY <1>2, <2>1
<1>4. CASE ~(size <= 1 \/ tier = 0 \/ size < SPARED)
  <2> DEFINE p == Promoted(size, tier)
             d == Demoted(size, tier)
  <2>1. d = Least(Most(1, Share(size, DOWN)), Most(0, size - p - 1))
    BY <1>4 DEF Demoted
  <2> HIDE DEF p, d
  <2>2. p \in 0..size
    BY <1>2 DEF p
  <2>3. d \in Nat /\ d <= Most(0, size - p - 1)
    BY <1>1, <2>1, <2>2 DEF Least, Most
  <2>4. p + d <= size /\ (d > 0 => p + d < size)
    BY <2>2, <2>3 DEF Most
  <2>5. QED
    BY <1>2, <2>3, <2>4 DEF p, d
<1>5. QED
  BY <1>3, <1>4

-----------------------------------------------------------------------------
(* What a step leaves of the invariant when it does not touch it *)

LEMMA PassFitsKept ==
  ASSUME TypeOK, TypeOK', week' >= week, NEW s \in Settler, PassFits(s),
         pass'[s] = pass[s], group' = group, member' = member, moves' = moves
  PROVE  PassFits(s)'
<1> DEFINE r == pass[s]
<1>1. Busy(s)' = Busy(s) /\ Working(s)' = Working(s)
  BY DEF Busy, Working
<1>2. ASSUME NEW g \in Busy(s)
      PROVE  /\ g \in Group
             /\ group'[g].made /\ group'[g].week < week'
             /\ r.seen[g] \subseteq Members(g)'
             /\ \A u \in Members(g)' \ r.seen[g] : member'[u][group'[g].week].late
  <2>1. /\ g \in Group /\ group[g].made /\ group[g].week < week
        /\ r.seen[g] \subseteq Members(g)
        /\ \A u \in Members(g) \ r.seen[g] : member[u][group[g].week].late
    BY DEF PassFits
  <2>2. group[g].week < week'
    BY <2>1, GroupFacts DEF TypeOK, Week
  <2>3. Members(g)' = Members(g)
    BY DEF Members
  <2>4. QED
    BY <2>1, <2>2, <2>3
<1>3. QED
  BY <1>1, <1>2 DEF PassFits

\* All but TypeOK and JoinsFit, when only the joiners and the clock move.
LEMMA RowsKept ==
  ASSUME IInv, TypeOK', week' >= week,
         UNCHANGED <<group, member, pass, moves, fails>>
  PROVE  /\ GroupsFit'
         /\ \A s \in Settler : PassFits(s)'
         /\ PassesApart' /\ MovesFit' /\ SettledFit'
<1>1. GroupsFit'
  <2>1. \A g \in Group : ~group'[g].open => group'[g].made /\ group'[g].week < week'
    BY GroupFacts DEF IInv, GroupsFit, TypeOK, Week
  <2>2. QED
    BY <2>1 DEF IInv, GroupsFit
<1>2. \A s \in Settler : PassFits(s)'
  BY PassFitsKept DEF IInv
<1>3. PassesApart' /\ MovesFit' /\ SettledFit'
  BY DEF IInv, PassesApart, MovesFit, SettledFit, Working
<1>4. QED
  BY <1>1, <1>2, <1>3

\* The same when pass s alone moves, to one that fits.
LEMMA PassMoves ==
  ASSUME IInv, TypeOK', NEW s \in Settler,
         \A t \in Settler \ {s} : pass'[t] = pass[t],
         UNCHANGED <<week, join, group, member, moves>>,
         PassFits(s)',
         Working(s)' => Working(s) /\ pass'[s].group = pass[s].group,
         SettledFit'
  PROVE  IInv'
<1>1. \A t \in Settler \ {s} : PassFits(t)'
  <2>1. week' >= week
    BY DEF IInv, TypeOK, Week
  <2>2. QED
    BY <2>1, PassFitsKept DEF IInv
<1>2. \A t \in Settler \ {s} : Working(t)' <=> Working(t)
  BY DEF Working
<1>3. PassesApart'
  BY <1>2 DEF IInv, PassesApart
<1>4. JoinsFit' /\ GroupsFit' /\ MovesFit'
  BY DEF IInv, JoinsFit, GroupsFit, MovesFit
<1>5. QED
  BY <1>1, <1>3, <1>4 DEF IInv

-----------------------------------------------------------------------------
(* The joiners *)

LEMMA InitFits == Init => IInv
<1> SUFFICES ASSUME Init PROVE IInv
  OBVIOUS
<1>1. TypeOK
  <2>1. NoGroup \in GroupRow /\ NoMember \in MemberRow
    BY LeaguesAssumption DEF NoGroup, GroupRow, NoMember, MemberRow, Week, Tier
  <2>2. [tier |-> 0, bestTier |-> 0] \in ProfileRow
    BY LeaguesAssumption DEF ProfileRow, Tier
  <2>3. 0 \in 0..MaxXp /\ 0 \in Week
    BY LeaguesAssumption DEF Week
  <2>4. QED
    BY <2>1, <2>2, <2>3, TypedAtRest DEF Init, TypeOK
<1>2. JoinsFit
  BY DEF Init, JoinsFit, Away
<1>3. GroupsFit
  BY DEF Init, GroupsFit, NoGroup, NoMember
<1>4. \A s \in Settler : ~Working(s) /\ pass[s].todo = {} /\ Busy(s) = {}
  BY DEF Init, Working, Busy, Rest
<1>5. (\A s \in Settler : PassFits(s)) /\ PassesApart
  <2>1. \A s \in Settler : pass[s].pc = "idle"
    BY DEF Init, Rest
  <2>2. QED
    BY <1>4, <2>1 DEF PassFits, PassesApart
<1>6. MovesFit /\ SettledFit
  BY DEF Init, MovesFit, SettledFit, NoMember
<1>7. QED
  BY <1>1, <1>2, <1>3, <1>5, <1>6 DEF IInv

LEMMA JoinStepTyped ==
  ASSUME TypeOK, NEW p \in Joiner, NEW r \in JoinState, Step(p, r),
         UNCHANGED <<week, xp, profile, group, member, pass, moves, fails>>
  PROVE  TypeOK'
BY DEF TypeOK, Step

LEMMA JoinMoves ==
  ASSUME IInv, NEW p \in Joiner, NEW r \in JoinState, Step(p, r),
         UNCHANGED <<week, xp, profile, group, member, pass, moves, fails>>,
         r.pc # "idle" => r.user \in User,
         r.pc = "enter" => /\ r.group \in Group
                           /\ group[r.group].made
                           /\ group[r.group].week = r.week
  PROVE  IInv'
<1>1. TypeOK'
  BY JoinStepTyped DEF IInv
<1>2. JoinsFit'
  <2>1. join'[p] = r /\ \A q \in Joiner \ {p} : join'[q] = join[q]
    BY DEF IInv, TypeOK, Step
  <2>2. QED
    BY <2>1 DEF IInv, JoinsFit
<1>3. week' >= week
  BY DEF IInv, TypeOK, Week
<1>4. QED
  BY <1>1, <1>2, <1>3, RowsKept DEF IInv

LEMMA BeginJoinKeeps ==
  ASSUME IInv, NEW p \in Joiner, BeginJoin(p)
  PROVE  IInv'
<1>1. PICK u \in User, w \in Week :
        /\ Step(p, [Away EXCEPT !.pc = "tier", !.user = u, !.week = w])
        /\ UNCHANGED <<week, xp, profile, group, member, pass, moves, fails>>
  BY DEF BeginJoin
<1> DEFINE r == [Away EXCEPT !.pc = "tier", !.user = u, !.week = w]
<1>2. r \in JoinState /\ r.pc = "tier" /\ r.user = u
  BY TypedAtRest DEF IInv, TypeOK, JoinState, Away
<1> HIDE DEF r
<1>3. Step(p, r)
  BY <1>1 DEF r
<1>4. QED
  BY <1>1, <1>2, <1>3, JoinMoves

LEMMA ReadTierKeeps ==
  ASSUME IInv, NEW p \in Joiner, ReadTier(p)
  PROVE  IInv'
<1> DEFINE r == [join[p] EXCEPT !.pc = "find", !.tier = profile[join[p].user].tier]
<1>1. join[p] \in JoinState /\ join[p].pc = "tier" /\ join[p].user \in User
  BY DEF IInv, TypeOK, JoinsFit, ReadTier
<1>2. profile[join[p].user].tier \in Tier
  BY <1>1 DEF IInv, TypeOK, ProfileRow
<1>3. r \in JoinState /\ r.pc = "find" /\ r.user \in User
  BY <1>1, <1>2 DEF JoinState
<1> HIDE DEF r
<1>4. Step(p, r) /\ UNCHANGED <<week, xp, profile, group, member, pass, moves, fails>>
  BY DEF ReadTier, r
<1>5. QED
  BY <1>3, <1>4, JoinMoves

LEMMA FindGroupKeeps ==
  ASSUME IInv, NEW p \in Joiner, FindGroup(p)
  PROVE  IInv'
<1> DEFINE r == join[p]
<1>1. r \in JoinState /\ r.pc = "find" /\ r.user \in User
  BY DEF IInv, TypeOK, JoinsFit, FindGroup
<1>2. UNCHANGED <<week, xp, profile, group, member, pass, moves, fails>>
  BY DEF FindGroup
<1>3. CASE Step(p, [r EXCEPT !.pc = "new"])
  <2> DEFINE new == [r EXCEPT !.pc = "new"]
  <2>1. new \in JoinState /\ new.pc = "new" /\ new.user \in User
    BY <1>1 DEF JoinState
  <2>2. Step(p, new)
    BY <1>3
  <2> HIDE DEF new
  <2>3. QED
    BY <1>2, <2>1, <2>2, JoinMoves
<1>4. ASSUME NEW g \in Group, Step(p, [r EXCEPT !.pc = "enter", !.group = g]),
             group[g] = [made |-> TRUE, open |-> TRUE, week |-> r.week, tier |-> r.tier]
      PROVE  IInv'
  <2> DEFINE new == [r EXCEPT !.pc = "enter", !.group = g]
  <2>1. /\ new \in JoinState /\ new.pc = "enter" /\ new.user \in User
        /\ new.group = g /\ new.week = r.week
    BY <1>1 DEF JoinState
  <2>2. Step(p, new) /\ group[g].made /\ group[g].week = r.week
    BY <1>4
  <2> HIDE DEF new
  <2>3. QED
    BY <1>2, <2>1, <2>2, JoinMoves
<1>5. QED
  BY <1>3, <1>4 DEF FindGroup

\* A new group has no members, and no pass knows it.
LEMMA NewGroupKeeps ==
  ASSUME IInv, NEW p \in Joiner, NewGroup(p)
  PROVE  IInv'
<1>1. PICK g \in Group :
        /\ ~group[g].made
        /\ group' = [group EXCEPT ![g] = [made |-> TRUE, open |-> TRUE,
                                          week |-> join[p].week, tier |-> join[p].tier]]
        /\ Step(p, [join[p] EXCEPT !.pc = "enter", !.group = g])
  BY DEF NewGroup
<1> DEFINE row == [made |-> TRUE, open |-> TRUE, week |-> join[p].week, tier |-> join[p].tier]
           new == [join[p] EXCEPT !.pc = "enter", !.group = g]
<1>2. UNCHANGED <<week, xp, profile, member, pass, moves, fails>>
  BY DEF NewGroup
<1>3. join[p] \in JoinState /\ join[p].user \in User
  BY DEF IInv, TypeOK, JoinsFit, NewGroup
<1>4. /\ new \in JoinState /\ new.pc = "enter" /\ new.user \in User
      /\ new.group = g /\ new.week = join[p].week
  BY <1>3 DEF JoinState
<1>5. /\ row \in GroupRow /\ row.made /\ row.open
      /\ row.week = join[p].week
  BY <1>3 DEF JoinState, GroupRow
<1>6. /\ group' = [group EXCEPT ![g] = row]
      /\ join' = [join EXCEPT ![p] = new]
  BY <1>1 DEF Step
<1> HIDE DEF row, new
<1>7. TypeOK'
  BY <1>2, <1>4, <1>5, <1>6 DEF IInv, TypeOK
<1>8. /\ group'[g] = row
      /\ \A h \in Group : h # g => group'[h] = group[h]
      /\ join'[p] = new
      /\ \A q \in Joiner : q # p => join'[q] = join[q]
  BY <1>6 DEF IInv, TypeOK
<1>9. JoinsFit'
  BY <1>1, <1>4, <1>5, <1>8 DEF IInv, JoinsFit
<1>10. \A u \in User, w \in Week : member[u][w].group # None =>
         /\ member[u][w].group \in Group
         /\ group'[member[u][w].group] = group[member[u][w].group]
  <2> SUFFICES ASSUME NEW u \in User, NEW w \in Week, member[u][w].group # None
               PROVE  /\ member[u][w].group \in Group
                      /\ group'[member[u][w].group] = group[member[u][w].group]
    OBVIOUS
  <2>1. member[u][w].group \in Group
    BY MemberFacts, RowFacts DEF IInv
  <2>2. group[member[u][w].group].made
    BY DEF IInv, GroupsFit
  <2>3. QED
    BY <1>1, <1>8, <2>1, <2>2
<1>11. GroupsFit'
  <2>1. \A h \in Group : ~group'[h].open => group'[h].made /\ group'[h].week < week'
    BY <1>2, <1>5, <1>8 DEF IInv, GroupsFit
  <2>2. QED
    BY <1>2, <1>10, <2>1 DEF IInv, GroupsFit
<1>12. ASSUME NEW s \in Settler PROVE PassFits(s)'
  <2>1. Busy(s)' = Busy(s) /\ Working(s)' = Working(s)
    BY <1>2 DEF Busy, Working
  <2>2. \A h \in Busy(s) : h \in Group /\ group'[h] = group[h]
    BY <1>1, <1>8 DEF IInv, PassFits
  <2>3. \A h : Members(h)' = Members(h)
    BY <1>2 DEF Members
  <2>4. Working(s) => pass[s].group \in Busy(s)
    BY DEF Busy
  <2>5. pass[s].pc \in {"read", "move"} => Working(s)
    BY DEF Working
  <2>6. QED
    BY <1>2, <2>1, <2>2, <2>3, <2>4, <2>5 DEF IInv, PassFits
<1>13. PassesApart'
  BY <1>2 DEF IInv, PassesApart, Working
<1>14. MovesFit' /\ SettledFit'
  BY <1>2, <1>10 DEF IInv, MovesFit, SettledFit, Working
<1>15. QED
  BY <1>7, <1>9, <1>11, <1>12, <1>13, <1>14 DEF IInv

\* Who enters a group whose week is over is late; everybody else is in time for
\* the pass that will settle it.
LEMMA EnterKeeps ==
  ASSUME IInv, NEW p \in Joiner, Enter(p)
  PROVE  IInv'
<1> DEFINE r == join[p]
           row == [group |-> r.group, tier |-> r.tier, at |-> Cardinality(Members(r.group)),
                   late |-> week > r.week, result |-> "none"]
<1>1. /\ r \in JoinState /\ r.pc = "enter" /\ r.user \in User /\ r.week \in Week
      /\ r.group \in Group /\ group[r.group].made /\ group[r.group].week = r.week
  BY DEF IInv, TypeOK, JoinsFit, Enter, JoinState
<1>2. UNCHANGED <<week, xp, profile, group, pass, moves, fails>> /\ Step(p, Away)
  BY DEF Enter
<1>3. week' >= week
  BY <1>2 DEF IInv, TypeOK, Week
<1>4. CASE member[r.user][r.week] # NoMember
  <2>1. member' = member
    BY <1>4 DEF Enter
  <2>2. Away.pc = "idle"
    BY DEF Away
  <2>3. QED
    BY <1>2, <2>1, <2>2, TypedAtRest, JoinMoves
<1>5. CASE member[r.user][r.week] = NoMember
  <2>1. /\ row \in MemberRow /\ row.group = r.group /\ row.result = "none"
        /\ row.late = (week > r.week)
    <3>1. Cardinality(Members(r.group)) \in Nat
      BY SizeIsNat
    <3>2. r.tier \in Tier
      BY <1>1 DEF JoinState
    <3>3. (week > r.week) \in BOOLEAN
      OBVIOUS
    <3>4. QED
      BY <1>1, <3>1, <3>2, <3>3 DEF MemberRow
  <2>2. member' = [member EXCEPT ![r.user][r.week] = row]
    BY <1>5 DEF Enter
  <2> HIDE DEF row
  <2>3. /\ member'[r.user][r.week] = row
        /\ \A v \in User, w \in Week :
             ~(v = r.user /\ w = r.week) => member'[v][w] = member[v][w]
    BY <1>1, <2>2 DEF IInv, TypeOK
  <2>4. TypeOK'
    <3>1. member' \in [User -> [Week -> MemberRow]]
      BY <1>1, <2>1, <2>2 DEF IInv, TypeOK
    <3>2. join' \in [Joiner -> JoinState]
      BY <1>2, TypedAtRest DEF IInv, TypeOK, Step
    <3>3. QED
      BY <1>2, <3>1, <3>2 DEF IInv, TypeOK
  <2>5. JoinsFit'
    <3>1. /\ join'[p].pc = "idle"
          /\ \A q \in Joiner : q # p => join'[q] = join[q]
      BY <1>2 DEF IInv, TypeOK, Step, Away
    <3>2. QED
      BY <1>2, <3>1 DEF IInv, JoinsFit
  <2>6. GroupsFit'
    BY <1>1, <1>2, <2>1, <2>3 DEF IInv, GroupsFit
  <2>7. ASSUME NEW g \in Group
        PROVE  /\ Members(g) \subseteq Members(g)'
               /\ \A u \in Members(g) : member'[u][group[g].week] = member[u][group[g].week]
               /\ \A u \in Members(g)' \ Members(g) : u = r.user /\ g = r.group
    <3>1. ASSUME NEW u \in Members(g)
          PROVE  u \in Members(g)' /\ member'[u][group[g].week] = member[u][group[g].week]
      <4>1. u \in User /\ member[u][group[g].week].group = g
        BY MemberOfItsWeek DEF IInv
      <4>2. group[g].week \in Week
        BY GroupFacts DEF IInv
      <4>3. member[u][group[g].week] # NoMember
        BY <4>1 DEF NoMember, Group, None
      <4>4. member'[u][group[g].week] = member[u][group[g].week]
        BY <1>5, <2>3, <4>1, <4>2, <4>3
      <4>5. QED
        BY <4>1, <4>2, <4>4 DEF Members
    <3>2. ASSUME NEW u \in Members(g)', u \notin Members(g)
          PROVE  u = r.user /\ g = r.group
      BY <2>1, <2>3, <3>2 DEF Members
    <3>3. QED
      BY <3>1, <3>2
  <2>8. ASSUME NEW s \in Settler PROVE PassFits(s)'
    <3>1. Busy(s)' = Busy(s) /\ Working(s)' = Working(s)
      BY <1>2 DEF Busy, Working
    <3>2. ASSUME NEW g \in Busy(s)
          PROVE  /\ g \in Group /\ group[g].made /\ group[g].week < week
                 /\ pass[s].seen[g] \subseteq Members(g)'
                 /\ \A u \in Members(g)' \ pass[s].seen[g] : member'[u][group[g].week].late
      <4>1. /\ g \in Group /\ group[g].made /\ group[g].week < week
            /\ pass[s].seen[g] \subseteq Members(g)
            /\ \A u \in Members(g) \ pass[s].seen[g] : member[u][group[g].week].late
        BY DEF IInv, PassFits
      <4>2. ASSUME NEW u \in Members(g)', u \notin Members(g)
            PROVE  member'[u][group[g].week].late
        <5>1. u = r.user /\ g = r.group
          BY <2>7, <4>1, <4>2
        <5>2. week > r.week
          BY <1>1, <4>1, <5>1 DEF IInv, TypeOK, Week
        <5>3. QED
          BY <1>1, <2>1, <2>3, <5>1, <5>2
      <4>3. QED
        BY <2>7, <4>1, <4>2
    <3>3. Working(s) => /\ ~group[pass[s].group].open
                        /\ pass[s].todo \subseteq pass[s].seen[pass[s].group]
                        /\ \A u \in pass[s].todo : moves[u][group[pass[s].group].week] = 0
      BY DEF IInv, PassFits
    <3>4. pass[s].pc \in {"read", "move"} =>
            /\ pass[s].user \in pass[s].todo
            /\ member'[pass[s].user][group[pass[s].group].week].result # "none"
      <4> SUFFICES ASSUME pass[s].pc \in {"read", "move"}
                   PROVE  /\ pass[s].user \in pass[s].todo
                          /\ member'[pass[s].user][group[pass[s].group].week].result # "none"
        OBVIOUS
      <4>1. Working(s) /\ pass[s].group \in Busy(s)
        BY DEF Working, Busy
      <4>2. /\ pass[s].user \in pass[s].todo
            /\ member[pass[s].user][group[pass[s].group].week].result # "none"
        BY DEF IInv, PassFits
      <4>3. pass[s].group \in Group /\ pass[s].user \in Members(pass[s].group)
        BY <4>1, <4>2 DEF IInv, PassFits
      <4>4. QED
        BY <2>7, <4>2, <4>3
    <3>5. ~Working(s) => pass[s].todo = {}
      BY DEF IInv, PassFits
    <3>6. QED
      BY <1>2, <3>1, <3>2, <3>3, <3>4, <3>5 DEF PassFits
  <2>9. PassesApart'
    BY <1>2 DEF IInv, PassesApart, Working
  <2>10. moves[r.user][r.week] = 0
    BY <1>1, <1>5 DEF IInv, MovesFit, NoMember
  <2>11. MovesFit'
    BY <1>2, <2>3, <2>10 DEF IInv, MovesFit
  <2>12. SettledFit'
    <3>1. ~group[r.group].open => row.late
      BY <1>1, <2>1 DEF IInv, GroupsFit, TypeOK, Week
    <3>2. QED
      BY <1>2, <2>1, <2>3, <3>1 DEF IInv, SettledFit, Working
  <2>13. QED
    BY <2>4, <2>5, <2>6, <2>8, <2>9, <2>11, <2>12 DEF IInv
<1>6. QED
  BY <1>4, <1>5

-----------------------------------------------------------------------------
(* The passes *)

LEMMA PassOfStep ==
  ASSUME TypeOK, NEW s \in Settler, NEW r, Pass(s, r)
  PROVE  pass'[s] = r /\ \A t \in Settler \ {s} : pass'[t] = pass[t]
BY DEF TypeOK, Pass

LEMMA RestFits ==
  ASSUME NEW s \in Settler, pass'[s] = Rest
  PROVE  PassFits(s)' /\ ~Working(s)'
<1>1. ~Working(s)' /\ Busy(s)' = {} /\ pass'[s].pc = "idle" /\ pass'[s].todo = {}
  BY DEF Working, Busy, Rest
<1>2. QED
  BY <1>1 DEF PassFits

LEMMA ListDueKeeps ==
  ASSUME IInv, NEW s \in Settler, ListDue(s)
  PROVE  IInv'
<1> DEFINE seen == [g \in Group |-> IF g \in Due THEN Members(g) ELSE {}]
           r == [Rest EXCEPT !.pc = "claim", !.due = Due, !.seen = seen]
<1>1. Due \subseteq Group /\ seen \in [Group -> SUBSET User]
  BY DEF Due, Members
<1>2. \A g \in Due : seen[g] = Members(g) /\ group[g].made /\ group[g].week < week
  BY <1>1 DEF Due
<1>3. Pass(s, r) /\ UNCHANGED <<week, xp, profile, group, member, join, moves, fails>>
  BY DEF ListDue
<1> HIDE DEF seen
<1>4. /\ r \in PassState /\ r.pc = "claim" /\ r.due = Due /\ r.seen = seen /\ r.todo = {}
  BY <1>1, TypedAtRest DEF PassState, Rest
<1> HIDE DEF r
<1>5. pass'[s] = r /\ \A t \in Settler \ {s} : pass'[t] = pass[t]
  BY <1>3, PassOfStep DEF IInv
<1>6. TypeOK'
  BY <1>3, <1>4 DEF IInv, TypeOK, Pass
<1>7. ~Working(s)' /\ ~Working(s)
  BY <1>4, <1>5 DEF Working, ListDue, Rest
<1>8. PassFits(s)'
  <2>1. Busy(s)' = Due
    BY <1>4, <1>5, <1>7 DEF Busy
  <2>2. \A g \in Due : Members(g)' = Members(g)
    BY <1>3 DEF Members
  <2>3. \A g \in Busy(s)' :
          /\ g \in Group /\ group'[g].made /\ group'[g].week < week'
          /\ pass'[s].seen[g] \subseteq Members(g)'
          /\ \A u \in Members(g)' \ pass'[s].seen[g] : member'[u][group'[g].week].late
    BY <1>1, <1>2, <1>3, <1>4, <1>5, <2>1, <2>2
  <2>4. pass'[s].pc = "claim" /\ pass'[s].todo = {}
    BY <1>4, <1>5
  <2>5. QED
    BY <1>7, <2>3, <2>4 DEF PassFits
<1>9. SettledFit'
  <2>1. \A t \in Settler : Working(t) => Working(t)' /\ pass'[t] = pass[t]
    BY <1>5, <1>7 DEF Working
  <2>2. QED
    BY <1>3, <2>1 DEF IInv, SettledFit
<1>10. QED
  BY <1>3, <1>5, <1>6, <1>7, <1>8, <1>9, PassMoves

\* Where a pass goes when it is done with a group.
LEMMA NextGroupFacts ==
  ASSUME NEW r \in PassState
  PROVE  /\ NextGroup(r) \in PassState
         /\ NextGroup(r).pc \in {"idle", "claim"}
         /\ NextGroup(r).todo = {}
         /\ NextGroup(r).due = r.due
         /\ r.due # {} => NextGroup(r).seen = r.seen
<1>1. CASE r.due = {}
  BY <1>1, TypedAtRest DEF NextGroup, Rest
<1>2. CASE r.due # {}
  <2> DEFINE n == [Rest EXCEPT !.pc = "claim", !.due = r.due, !.seen = r.seen]
  <2>1. NextGroup(r) = n
    BY <1>2 DEF NextGroup
  <2>2. r.due \in SUBSET Group /\ r.seen \in [Group -> SUBSET User]
    BY DEF PassState
  <2>3. n \in PassState /\ n.pc = "claim" /\ n.todo = {} /\ n.due = r.due /\ n.seen = r.seen
    BY <2>2, TypedAtRest DEF PassState, Rest
  <2>4. QED
    BY <2>1, <2>3
<1>3. QED
  BY <1>1, <1>2

\* A pass that is done with a group knows what it knew of the others.
LEMMA NextGroupFits ==
  ASSUME IInv, TypeOK', NEW s \in Settler, NEW r \in PassState,
         pass'[s] = NextGroup(r),
         r.due \subseteq Busy(s), r.seen = pass[s].seen,
         week' = week, member' = member,
         \A g \in Group : group'[g].made = group[g].made /\ group'[g].week = group[g].week
  PROVE  PassFits(s)' /\ ~Working(s)'
<1>1. /\ pass'[s].pc \in {"idle", "claim"} /\ pass'[s].todo = {} /\ pass'[s].due = r.due
      /\ r.due # {} => pass'[s].seen = r.seen
  BY NextGroupFacts
<1>2. ~Working(s)' /\ Busy(s)' = r.due
  BY <1>1 DEF Working, Busy
<1>3. \A g : Members(g)' = Members(g)
  BY DEF Members
<1>4. \A g \in Busy(s)' :
        /\ g \in Group /\ group'[g].made /\ group'[g].week < week'
        /\ pass'[s].seen[g] \subseteq Members(g)'
        /\ \A u \in Members(g)' \ pass'[s].seen[g] : member'[u][group'[g].week].late
  <2>1. \A g \in r.due : /\ g \in Group /\ group[g].made /\ group[g].week < week
                         /\ r.seen[g] \subseteq Members(g)
                         /\ \A u \in Members(g) \ r.seen[g] : member[u][group[g].week].late
    BY DEF IInv, PassFits
  <2>2. QED
    BY <1>1, <1>2, <1>3, <2>1
<1>5. QED
  BY <1>1, <1>2, <1>4 DEF PassFits

LEMMA ReadProfileKeeps ==
  ASSUME IInv, NEW s \in Settler, ReadProfile(s)
  PROVE  IInv'
<1> DEFINE o == pass[s]
           r == [o EXCEPT !.pc = "move", !.best = profile[o.user].bestTier]
<1>1. Pass(s, r) /\ UNCHANGED <<week, xp, profile, group, member, join, moves, fails>>
  BY DEF ReadProfile
<1>2. /\ o \in PassState /\ o.pc = "read" /\ Working(s)
      /\ o.user \in o.todo /\ o.todo \subseteq User
  BY PassFacts DEF IInv, ReadProfile, PassFits, Working
<1>3. profile[o.user].bestTier \in Tier
  BY <1>2 DEF IInv, TypeOK, ProfileRow
<1>4. /\ r \in PassState /\ r.pc = "move" /\ r.user = o.user /\ r.todo = o.todo
      /\ r.group = o.group /\ r.due = o.due /\ r.seen = o.seen
  BY <1>2, <1>3 DEF PassState
<1> HIDE DEF r
<1>5. pass'[s] = r /\ \A t \in Settler \ {s} : pass'[t] = pass[t]
  BY <1>1, PassOfStep DEF IInv
<1>6. TypeOK'
  BY <1>1, <1>4 DEF IInv, TypeOK, Pass
<1>7. \A t \in Settler : /\ Working(t)' <=> Working(t)
                         /\ pass'[t].group = pass[t].group /\ pass'[t].todo = pass[t].todo
  BY <1>2, <1>4, <1>5 DEF Working
<1>8. PassFits(s)'
  <2>1. Busy(s)' = Busy(s)
    BY <1>4, <1>5, <1>7 DEF Busy
  <2>2. \A g : Members(g)' = Members(g)
    BY <1>1 DEF Members
  <2>3. QED
    BY <1>1, <1>2, <1>4, <1>5, <1>7, <2>1, <2>2 DEF IInv, PassFits
<1>9. SettledFit'
  BY <1>1, <1>7 DEF IInv, SettledFit
<1>10. QED
  BY <1>1, <1>5, <1>6, <1>7, <1>8, <1>9, PassMoves

\* From then on nothing is promised of the groups that were not settled.
LEMMA GiveUpKeeps ==
  ASSUME IInv, NEW s \in Settler, GiveUp(s)
  PROVE  IInv'
<1>1. /\ Pass(s, Rest) /\ fails' = fails + 1
      /\ UNCHANGED <<week, xp, profile, group, member, join, moves>>
  BY DEF GiveUp
<1>2. pass'[s] = Rest /\ \A t \in Settler \ {s} : pass'[t] = pass[t]
  BY <1>1, PassOfStep DEF IInv
<1>3. TypeOK'
  BY <1>1, TypedAtRest DEF IInv, TypeOK, Pass
<1>4. fails' # 0
  BY <1>1 DEF IInv, TypeOK
<1>5. SettledFit'
  BY <1>4 DEF SettledFit
<1>6. PassFits(s)' /\ ~Working(s)'
  BY <1>2, RestFits
<1>7. QED
  BY <1>1, <1>2, <1>3, <1>5, <1>6, PassMoves

\* The claim: at most one pass gets a group that was open, and none of its
\* members has been moved.
LEMMA ClaimGroupKeeps ==
  ASSUME IInv, NEW s \in Settler, ClaimGroup(s)
  PROVE  IInv'
<1>1. PICK g \in pass[s].due :
        LET r == [pass[s] EXCEPT !.due = @ \ {g}] IN
        /\ r.pc = "claim"
        /\ group' = [group EXCEPT ![g].open = FALSE]
        /\ Pass(s, IF group[g].open /\ r.seen[g] # {}
                   THEN [r EXCEPT !.pc = "result", !.group = g, !.todo = r.seen[g]]
                   ELSE NextGroup(r))
        /\ UNCHANGED <<week, xp, profile, member, join, moves, fails>>
  BY DEF ClaimGroup
<1> DEFINE o == pass[s]
           r == [o EXCEPT !.due = @ \ {g}]
           won == [r EXCEPT !.pc = "result", !.group = g, !.todo = r.seen[g]]
<1>2. UNCHANGED <<week, xp, profile, member, join, moves, fails>>
  BY <1>1
<1>3. /\ o \in PassState /\ g \in Group /\ o.due \subseteq Group
      /\ o.seen \in [Group -> SUBSET User]
  BY PassFacts DEF IInv
<1>4. /\ r \in PassState /\ r.pc = o.pc /\ r.due = o.due \ {g} /\ r.seen = o.seen
  BY <1>3 DEF PassState
<1>5. o.pc = "claim" /\ ~Working(s)
  BY <1>1, <1>4 DEF Working
<1>6. g \in Busy(s) /\ r.due \subseteq Busy(s)
  BY <1>4 DEF Busy
<1>7. /\ group[g].made /\ group[g].week < week /\ o.seen[g] \subseteq Members(g)
      /\ \A u \in Members(g) \ o.seen[g] : member[u][group[g].week].late
  BY <1>6 DEF IInv, PassFits
<1>8. group' \in [Group -> GroupRow]
  BY <1>1, <1>3 DEF IInv, TypeOK, GroupRow
<1>9. /\ ~group'[g].open
      /\ \A h \in Group : /\ group'[h].made = group[h].made
                          /\ group'[h].week = group[h].week
                          /\ h # g => group'[h].open = group[h].open
  BY <1>1, <1>3 DEF IInv, TypeOK, GroupRow
<1>10. Pass(s, IF group[g].open /\ o.seen[g] # {} THEN won ELSE NextGroup(r))
  BY <1>1, <1>4
<1>11. /\ won \in PassState /\ won.pc = "result" /\ won.group = g
       /\ won.todo = o.seen[g] /\ won.due = o.due \ {g} /\ won.seen = o.seen
  BY <1>3, <1>4 DEF PassState
<1> HIDE DEF r, won
<1>12. JoinsFit'
  BY <1>2, <1>9 DEF IInv, JoinsFit
<1>13. GroupsFit'
  <2>1. \A u \in User, w \in Week : member[u][w].group # None => member[u][w].group \in Group
    BY MemberFacts, RowFacts DEF IInv
  <2>2. \A h \in Group : ~group'[h].open => group'[h].made /\ group'[h].week < week'
    BY <1>2, <1>7, <1>9 DEF IInv, GroupsFit
  <2>3. QED
    BY <1>2, <1>9, <2>1, <2>2 DEF IInv, GroupsFit
<1>14. MovesFit'
  <2>1. \A u \in User, w \in Week :
          \/ member[u][w].group = None
          \/ /\ member[u][w].group \in Group
             /\ group'[member[u][w].group].open => group[member[u][w].group].open
    BY <1>9, MemberFacts, RowFacts DEF IInv
  <2>2. QED
    BY <1>2, <2>1 DEF IInv, MovesFit
<1>15. ASSUME NEW t \in Settler, t # s, pass'[t] = pass[t]
       PROVE  PassFits(t)' /\ (Working(t)' <=> Working(t))
  <2>1. Busy(t)' = Busy(t) /\ Working(t)' = Working(t)
    BY <1>15 DEF Busy, Working
  <2>2. \A h : Members(h)' = Members(h)
    BY <1>2 DEF Members
  <2>3. Working(t) => pass[t].group \in Busy(t) /\ ~group[pass[t].group].open
    BY DEF Busy, IInv, PassFits
  <2>4. \A h \in Busy(t) : h \in Group
    BY DEF IInv, PassFits
  <2>5. Working(t) => ~group'[pass[t].group].open
    BY <1>9, <2>3, <2>4
  <2>6. pass[t].pc \in {"read", "move"} => Working(t)
    BY DEF Working
  <2>7. QED
    BY <1>2, <1>9, <1>15, <2>1, <2>2, <2>3, <2>4, <2>5, <2>6 DEF IInv, PassFits
<1>16. CASE group[g].open /\ o.seen[g] # {}
  <2>1. pass'[s] = won /\ \A t \in Settler \ {s} : pass'[t] = pass[t]
    BY <1>10, <1>16, PassOfStep DEF IInv
  <2>2. TypeOK'
    BY <1>2, <1>8, <1>10, <1>11, <1>16 DEF IInv, TypeOK, Pass
  <2>3. Working(s)' /\ Busy(s)' = o.due
    BY <1>11, <2>1 DEF Working, Busy
  <2>4. PassFits(s)'
    <3>1. \A h \in Busy(s)' :
            /\ h \in Group /\ group'[h].made /\ group'[h].week < week'
            /\ pass'[s].seen[h] \subseteq Members(h)'
            /\ \A u \in Members(h)' \ pass'[s].seen[h] : member'[u][group'[h].week].late
      <4>1. \A h : Members(h)' = Members(h)
        BY <1>2 DEF Members
      <4>2. \A h \in o.due : h \in Busy(s)
        BY DEF Busy
      <4>3. \A h \in o.due :
              /\ h \in Group /\ group[h].made /\ group[h].week < week
              /\ o.seen[h] \subseteq Members(h)
              /\ \A u \in Members(h) \ o.seen[h] : member[u][group[h].week].late
        BY <4>2 DEF IInv, PassFits
      <4>4. QED
        BY <1>2, <1>9, <1>11, <2>1, <2>3, <4>1, <4>3
    <3>2. \A u \in o.seen[g] : moves[u][group[g].week] = 0
      <4>1. \A u \in o.seen[g] : u \in User /\ member[u][group[g].week].group = g
        BY <1>3, <1>7, MemberOfItsWeek DEF IInv
      <4>2. group[g].week \in Week
        BY <1>3, GroupFacts DEF IInv
      <4>3. QED
        BY <1>16, <4>1, <4>2 DEF IInv, MovesFit
    <3>3. /\ ~group'[pass'[s].group].open
          /\ pass'[s].todo \subseteq pass'[s].seen[pass'[s].group]
          /\ \A u \in pass'[s].todo : moves'[u][group'[pass'[s].group].week] = 0
      BY <1>2, <1>3, <1>9, <1>11, <2>1, <3>2
    <3>4. pass'[s].pc = "result"
      BY <1>11, <2>1
    <3>5. QED
      BY <2>3, <3>1, <3>3, <3>4 DEF PassFits
  <2>5. \A t \in Settler : Working(t) => pass[t].group # g
    BY <1>16 DEF IInv, PassFits
  <2>6. PassesApart'
    <3>1. pass'[s].group = g
      BY <1>11, <2>1
    <3>2. \A t \in Settler \ {s} : (Working(t)' <=> Working(t)) /\ pass'[t].group = pass[t].group
      BY <1>15, <2>1
    <3>3. QED
      BY <2>5, <3>1, <3>2 DEF IInv, PassesApart
  <2>7. SettledFit'
    <3> SUFFICES ASSUME fails = 0, NEW u \in User, NEW w \in Week,
                        member[u][w].group # None, ~member[u][w].late,
                        ~group'[member[u][w].group].open
                 PROVE  \/ moves[u][w] = 1
                        \/ \E t \in Settler : /\ Working(t)' /\ pass'[t].group = member[u][w].group
                                              /\ u \in pass'[t].todo
      BY <1>2 DEF SettledFit
    <3>1. CASE member[u][w].group = g
      <4>1. u \in Members(g)
        BY <3>1, MemberIsMember
      <4>2. group[g].week = w
        BY <3>1, <1>3 DEF IInv, GroupsFit, Group, None
      <4>3. u \in o.seen[g]
        BY <1>7, <4>1, <4>2
      <4>4. QED
        BY <1>11, <2>1, <2>3, <3>1, <4>3
    <3>2. CASE member[u][w].group # g
      <4>1. ~group[member[u][w].group].open
        BY <1>9, <3>2, MemberFacts, RowFacts DEF IInv
      <4>2. \/ moves[u][w] = 1
            \/ \E t \in Settler : /\ Working(t) /\ pass[t].group = member[u][w].group
                                  /\ u \in pass[t].todo
        BY <4>1 DEF IInv, SettledFit
      <4>3. QED
        BY <1>5, <1>15, <2>1, <4>2
    <3>3. QED
      BY <3>1, <3>2
  <2>8. \A t \in Settler : PassFits(t)'
    BY <1>15, <2>1, <2>4
  <2>9. QED
    BY <1>12, <1>13, <1>14, <2>2, <2>6, <2>7, <2>8 DEF IInv
<1>17. CASE ~(group[g].open /\ o.seen[g] # {})
  <2>1. pass'[s] = NextGroup(r) /\ \A t \in Settler \ {s} : pass'[t] = pass[t]
    BY <1>10, <1>17, PassOfStep DEF IInv
  <2>2. TypeOK'
    BY <1>2, <1>4, <1>8, <1>10, <1>17, NextGroupFacts DEF IInv, TypeOK, Pass
  <2>3. PassFits(s)' /\ ~Working(s)'
    BY <1>2, <1>4, <1>6, <1>9, <2>1, <2>2, NextGroupFits
  <2>4. \A t \in Settler : PassFits(t)'
    BY <1>15, <2>1, <2>3
  <2>5. PassesApart'
    BY <1>15, <2>1, <2>3 DEF IInv, PassesApart
  <2>6. SettledFit'
    <3> SUFFICES ASSUME fails = 0, NEW u \in User, NEW w \in Week,
                        member[u][w].group # None, ~member[u][w].late,
                        ~group'[member[u][w].group].open
                 PROVE  \/ moves[u][w] = 1
                        \/ \E t \in Settler : /\ Working(t)' /\ pass'[t].group = member[u][w].group
                                              /\ u \in pass'[t].todo
      BY <1>2 DEF SettledFit
    <3>1. ~group[member[u][w].group].open
      <4>1. CASE member[u][w].group = g /\ group[g].open
        <5>1. u \in Members(g)
          BY <4>1, MemberIsMember
        <5>2. group[g].week = w
          BY <4>1, <1>3 DEF IInv, GroupsFit, Group, None
        <5>3. u \in o.seen[g]
          BY <1>7, <5>1, <5>2
        <5>4. QED
          BY <1>17, <4>1, <5>3
      <4>2. CASE member[u][w].group = g /\ ~group[g].open
        BY <4>2
      <4>3. CASE member[u][w].group # g
        BY <1>9, <4>3, MemberFacts, RowFacts DEF IInv
      <4>4. QED
        BY <4>1, <4>2, <4>3
    <3>2. \/ moves[u][w] = 1
          \/ \E t \in Settler : /\ Working(t) /\ pass[t].group = member[u][w].group
                                /\ u \in pass[t].todo
      BY <3>1 DEF IInv, SettledFit
    <3>3. QED
      BY <1>5, <1>15, <2>1, <3>2
  <2>7. QED
    BY <1>12, <1>13, <1>14, <2>2, <2>4, <2>5, <2>6 DEF IInv
<1>18. QED
  BY <1>16, <1>17

\* The result of the member a pass is at: nothing else of a row changes.
LEMMA WriteResultKeeps ==
  ASSUME IInv, NEW s \in Settler, WriteResult(s)
  PROVE  IInv'
<1> DEFINE o == pass[s]
           wk == group[o.group].week
<1>1. PICK u \in o.todo :
        /\ member' = [member EXCEPT ![u][wk].result = ItsZone(u, o)]
        /\ Pass(s, [o EXCEPT !.pc = "read", !.user = u])
  BY DEF WriteResult
<1> DEFINE r == [o EXCEPT !.pc = "read", !.user = u]
           zone == ItsZone(u, o)
<1>2. UNCHANGED <<week, xp, profile, group, join, moves, fails>> /\ o.pc = "result"
  BY DEF WriteResult
<1>3. /\ o \in PassState /\ Working(s) /\ o.group \in Busy(s)
      /\ o.todo \subseteq User /\ o.seen \in [Group -> SUBSET User]
  BY <1>2, PassFacts DEF IInv, Working, Busy
<1>4. /\ o.group \in Group /\ group[o.group].made /\ wk < week
      /\ o.seen[o.group] \subseteq Members(o.group)
      /\ ~group[o.group].open /\ o.todo \subseteq o.seen[o.group]
      /\ \A v \in o.todo : moves[v][wk] = 0
  BY <1>3 DEF IInv, PassFits
<1>5. u \in User /\ wk \in Week /\ u \in Members(o.group)
  BY <1>3, <1>4, GroupFacts DEF IInv
<1>6. member[u][wk].group = o.group /\ o.group # None
  BY <1>4, <1>5, MemberOfItsWeek DEF IInv, Group, None
<1>7. zone \in Zone
  BY ItsZoneTyped
<1>8. /\ r \in PassState /\ r.pc = "read" /\ r.user = u /\ r.todo = o.todo
      /\ r.group = o.group /\ r.due = o.due /\ r.seen = o.seen
  BY <1>3, <1>5 DEF PassState
<1> DEFINE old == member[u][wk]
           row == [old EXCEPT !.result = zone]
<1>9. /\ old \in [group : Group, tier : Tier, at : Nat, late : BOOLEAN,
                  result : Zone \cup {"none"}]
  BY <1>5, <1>6, MemberFacts, RowFacts DEF IInv, MemberRow
<1>10. /\ row \in MemberRow /\ row.group = old.group /\ row.late = old.late
       /\ row.result = zone
  BY <1>7, <1>9 DEF MemberRow
<1>11. member' = [member EXCEPT ![u][wk] = row]
  BY <1>1, <1>5 DEF IInv, TypeOK
<1> HIDE DEF r, zone, row
<1>12. /\ member'[u][wk] = row
       /\ \A v \in User, w \in Week : ~(v = u /\ w = wk) => member'[v][w] = member[v][w]
  BY <1>5, <1>11 DEF IInv, TypeOK
<1>13. \A v \in User, w \in Week : /\ member'[v][w].group = member[v][w].group
                                   /\ member'[v][w].late = member[v][w].late
                                   /\ member[v][w].result # "none"
                                        => member'[v][w].result # "none"
  BY <1>7, <1>10, <1>12 DEF Zone
<1>14. Pass(s, r)
  BY <1>1 DEF r
<1>15. pass'[s] = r /\ \A t \in Settler \ {s} : pass'[t] = pass[t]
  BY <1>14, PassOfStep DEF IInv
<1>16. TypeOK'
  <2>1. member' \in [User -> [Week -> MemberRow]]
    BY <1>5, <1>10, <1>11 DEF IInv, TypeOK
  <2>2. QED
    BY <1>2, <1>8, <1>14, <2>1 DEF IInv, TypeOK, Pass
<1>17. JoinsFit' /\ GroupsFit'
  <2>1. JoinsFit'
    BY <1>2 DEF IInv, JoinsFit
  <2>2. QED
    BY <1>2, <1>13, <2>1 DEF IInv, GroupsFit
<1>18. \A t \in Settler : /\ Working(t)' <=> Working(t)
                          /\ pass'[t].group = pass[t].group /\ pass'[t].todo = pass[t].todo
                          /\ pass'[t].due = pass[t].due /\ pass'[t].seen = pass[t].seen
  BY <1>3, <1>8, <1>15 DEF Working
<1>19. \A g : Members(g)' = Members(g)
  BY <1>13 DEF Members
<1>20. ASSUME NEW t \in Settler PROVE PassFits(t)'
  <2>1. Busy(t)' = Busy(t)
    BY <1>18 DEF Busy
  <2>2. \A g \in Busy(t)' :
          /\ g \in Group /\ group'[g].made /\ group'[g].week < week'
          /\ pass'[t].seen[g] \subseteq Members(g)'
          /\ \A v \in Members(g)' \ pass'[t].seen[g] : member'[v][group'[g].week].late
    <3> SUFFICES ASSUME NEW g \in Busy(t)
                 PROVE  /\ g \in Group /\ group[g].made /\ group[g].week < week
                        /\ pass[t].seen[g] \subseteq Members(g)
                        /\ \A v \in Members(g) \ pass[t].seen[g] : member'[v][group[g].week].late
      BY <1>2, <1>18, <1>19, <2>1
    <3>1. /\ g \in Group /\ group[g].made /\ group[g].week < week
          /\ pass[t].seen[g] \subseteq Members(g)
          /\ \A v \in Members(g) \ pass[t].seen[g] : member[v][group[g].week].late
      BY DEF IInv, PassFits
    <3>2. group[g].week \in Week /\ Members(g) \subseteq User
      BY <3>1, GroupFacts DEF IInv, Members
    <3>3. QED
      BY <1>13, <3>1, <3>2
  <2>3. Working(t)' => /\ ~group'[pass'[t].group].open
                       /\ pass'[t].todo \subseteq pass'[t].seen[pass'[t].group]
                       /\ \A v \in pass'[t].todo : moves'[v][group'[pass'[t].group].week] = 0
    BY <1>2, <1>18 DEF IInv, PassFits
  <2>4. ~Working(t)' => pass'[t].todo = {}
    BY <1>18 DEF IInv, PassFits
  <2>5. pass'[t].pc \in {"read", "move"} =>
          /\ pass'[t].user \in pass'[t].todo
          /\ member'[pass'[t].user][group'[pass'[t].group].week].result # "none"
    <3>1. CASE t = s
      BY <1>2, <1>7, <1>8, <1>10, <1>12, <1>15, <3>1 DEF Zone
    <3>2. CASE t # s
      <4>1. pass'[t] = pass[t]
        BY <1>15, <3>2
      <4> SUFFICES ASSUME pass[t].pc \in {"read", "move"}
                   PROVE  /\ pass[t].user \in pass[t].todo
                          /\ member'[pass[t].user][group[pass[t].group].week].result # "none"
        BY <1>2, <4>1
      <4>2. Working(t) /\ pass[t].group \in Busy(t)
        BY DEF Working, Busy
      <4>3. /\ pass[t].user \in pass[t].todo
            /\ member[pass[t].user][group[pass[t].group].week].result # "none"
        BY DEF IInv, PassFits
      <4>4. pass[t].user \in User /\ pass[t].group \in Group
        BY <4>2, <4>3, PassFacts DEF IInv, PassFits
      <4>5. group[pass[t].group].week \in Week
        BY <4>4, GroupFacts DEF IInv
      <4>6. QED
        BY <1>13, <4>3, <4>4, <4>5
    <3>3. QED
      BY <3>1, <3>2
  <2>6. QED
    BY <2>2, <2>3, <2>4, <2>5 DEF PassFits
<1>21. PassesApart'
  BY <1>18 DEF IInv, PassesApart
<1>22. MovesFit'
  BY <1>2, <1>13 DEF IInv, MovesFit
<1>23. SettledFit'
  BY <1>2, <1>13, <1>18 DEF IInv, SettledFit
<1>24. QED
  BY <1>16, <1>17, <1>20, <1>21, <1>22, <1>23 DEF IInv

\* Moving a member counts for no other group, as they are in one for the week.
LEMMA MoveMemberKeeps ==
  ASSUME IInv, NEW s \in Settler, MoveMember(s)
  PROVE  IInv'
<1> DEFINE o == pass[s]
           u == o.user
           wk == group[o.group].week
           next == NextTier(group[o.group].tier, ItsZone(u, o))
           todo == o.todo \ {u}
           on == [o EXCEPT !.pc = "result", !.todo = todo]
<1>1. /\ o.pc = "move"
      /\ profile' = [profile EXCEPT ![u] = [tier |-> next, bestTier |-> Most(o.best, next)]]
      /\ moves' = [moves EXCEPT ![u][wk] = @ + 1]
      /\ Pass(s, IF todo = {} THEN NextGroup(o) ELSE on)
      /\ UNCHANGED <<week, xp, group, member, join, fails>>
  BY DEF MoveMember
<1>2. /\ o \in PassState /\ Working(s) /\ o.group \in Busy(s) /\ o.due \subseteq Busy(s)
      /\ o.todo \subseteq User /\ o.seen \in [Group -> SUBSET User] /\ o.best \in Tier
  BY <1>1, PassFacts DEF IInv, Working, Busy
<1>3. /\ o.group \in Group /\ group[o.group].made /\ wk < week
      /\ o.seen[o.group] \subseteq Members(o.group)
      /\ ~group[o.group].open /\ o.todo \subseteq o.seen[o.group]
      /\ \A v \in o.todo : moves[v][wk] = 0
      /\ u \in o.todo /\ member[u][wk].result # "none"
  BY <1>1, <1>2 DEF IInv, PassFits
<1>4. u \in User /\ wk \in Week /\ u \in Members(o.group)
  BY <1>2, <1>3, GroupFacts DEF IInv
<1>5. member[u][wk].group = o.group /\ o.group # None
  BY <1>3, <1>4, MemberOfItsWeek DEF IInv, Group, None
<1>6. /\ moves'[u][wk] = 1
      /\ \A v \in User, w \in Week : ~(v = u /\ w = wk) => moves'[v][w] = moves[v][w]
  <2>1. moves \in [User -> [Week -> Nat]] /\ moves[u][wk] = 0
    BY <1>3 DEF IInv, TypeOK
  <2>2. moves' = [moves EXCEPT ![u][wk] = @ + 1]
    BY <1>1
  <2> HIDE DEF u, wk
  <2>3. QED
    BY <1>4, <2>1, <2>2
<1>7. next \in Tier /\ Most(o.best, next) \in Tier
  <2>1. next \in Tier
    BY <1>3, GroupFacts, NextTierTyped DEF IInv
  <2>2. QED
    BY <1>2, <2>1 DEF Most
<1>8. /\ on \in PassState /\ on.pc = "result" /\ on.todo = todo
      /\ on.group = o.group /\ on.due = o.due /\ on.seen = o.seen
  BY <1>2 DEF PassState
<1> HIDE DEF next, on
<1>9. /\ pass'[s] = IF todo = {} THEN NextGroup(o) ELSE on
      /\ \A t \in Settler \ {s} : pass'[t] = pass[t]
  BY <1>1, PassOfStep DEF IInv
<1>10. TypeOK'
  <2>1. profile' \in [User -> ProfileRow]
    BY <1>1, <1>4, <1>7 DEF IInv, TypeOK, ProfileRow
  <2>2. moves' \in [User -> [Week -> Nat]]
    BY <1>1, <1>4 DEF IInv, TypeOK
  <2>3. pass' \in [Settler -> PassState]
    BY <1>1, <1>2, <1>8, NextGroupFacts DEF IInv, TypeOK, Pass
  <2>4. QED
    BY <1>1, <2>1, <2>2, <2>3 DEF IInv, TypeOK
<1>11. JoinsFit' /\ GroupsFit'
  BY <1>1 DEF IInv, JoinsFit, GroupsFit
<1>12. \A g : Members(g)' = Members(g)
  BY <1>1 DEF Members
<1>13. ASSUME NEW t \in Settler, t # s
       PROVE  PassFits(t)' /\ (Working(t)' <=> Working(t)) /\ pass'[t] = pass[t]
  <2>1. pass'[t] = pass[t]
    BY <1>9, <1>13
  <2>2. Busy(t)' = Busy(t) /\ (Working(t)' <=> Working(t))
    BY <2>1 DEF Busy, Working
  <2>3. Working(t) => \A v \in pass[t].todo :
          moves'[v][group[pass[t].group].week] = moves[v][group[pass[t].group].week]
    <3> SUFFICES ASSUME Working(t), NEW v \in pass[t].todo
                 PROVE  moves'[v][group[pass[t].group].week] = moves[v][group[pass[t].group].week]
      OBVIOUS
    <3>1. pass[t].group \in Busy(t)
      BY DEF Busy
    <3>2. pass[t].group \in Group /\ v \in Members(pass[t].group)
      BY <3>1 DEF IInv, PassFits
    <3>3. v \in User /\ member[v][group[pass[t].group].week].group = pass[t].group
      BY <3>2, MemberOfItsWeek DEF IInv
    <3>4. pass[t].group # o.group
      BY <1>2, <1>13 DEF IInv, PassesApart
    <3>5. ~(v = u /\ group[pass[t].group].week = wk)
      BY <1>5, <3>3, <3>4
    <3>6. group[pass[t].group].week \in Week
      BY <3>2, GroupFacts DEF IInv
    <3>7. QED
      BY <1>6, <3>3, <3>5, <3>6
  <2>4. pass[t].pc \in {"read", "move"} => Working(t)
    BY DEF Working
  <2>5. QED
    BY <1>1, <1>12, <2>1, <2>2, <2>3, <2>4 DEF IInv, PassFits
<1>14. MovesFit'
  <2>1. \A v \in User, w \in Week :
          ~(v = u /\ w = wk) =>
            /\ moves'[v][w] = 0 \/ (moves'[v][w] = 1 /\ member[v][w].result # "none")
            /\ member[v][w].group = None \/ group[member[v][w].group].open => moves'[v][w] = 0
    BY <1>6 DEF IInv, MovesFit
  <2>2. /\ moves'[u][wk] = 1 /\ member[u][wk].result # "none"
        /\ ~(member[u][wk].group = None \/ group[member[u][wk].group].open)
    BY <1>3, <1>5, <1>6
  <2>3. QED
    BY <1>1, <2>1, <2>2 DEF MovesFit
<1>15. PassFits(s)'
  <2>1. CASE todo = {}
    <3>1. pass'[s] = NextGroup(o)
      BY <1>9, <2>1
    <3>2. QED
      BY <1>1, <1>2, <1>10, <3>1, NextGroupFits
  <2>2. CASE todo # {}
    <3>1. pass'[s] = on
      BY <1>9, <2>2
    <3>2. Working(s)' /\ Busy(s)' = Busy(s)
      BY <1>2, <1>8, <3>1 DEF Working, Busy
    <3>3. \A v \in todo : moves'[v][wk] = 0
      BY <1>2, <1>3, <1>4, <1>6
    <3>4. \A g \in Busy(s) : /\ g \in Group /\ group[g].made /\ group[g].week < week
                             /\ o.seen[g] \subseteq Members(g)
                             /\ \A v \in Members(g) \ o.seen[g] : member[v][group[g].week].late
      BY DEF IInv, PassFits
    <3>5. QED
      BY <1>1, <1>3, <1>8, <1>12, <3>1, <3>2, <3>3, <3>4 DEF PassFits
  <2>3. QED
    BY <2>1, <2>2
<1>16. PassesApart'
  <2>1. Working(s)' => pass'[s].group = o.group
    <3>1. CASE todo = {}
      <4>1. pass'[s].pc \in {"idle", "claim"}
        BY <1>2, <1>9, <3>1, NextGroupFacts
      <4>2. QED
        BY <4>1 DEF Working
    <3>2. CASE todo # {}
      BY <1>8, <1>9, <3>2
    <3>3. QED
      BY <3>1, <3>2
  <2>2. QED
    BY <1>2, <1>13, <2>1 DEF IInv, PassesApart
<1>17. SettledFit'
  <2> SUFFICES ASSUME fails = 0, NEW v \in User, NEW w \in Week,
                      member[v][w].group # None, ~member[v][w].late,
                      ~group[member[v][w].group].open
               PROVE  \/ moves'[v][w] = 1
                      \/ \E t \in Settler : /\ Working(t)' /\ pass'[t].group = member[v][w].group
                                            /\ v \in pass'[t].todo
    BY <1>1 DEF SettledFit
  <2>1. CASE v = u /\ w = wk
    BY <1>6, <2>1
  <2>2. CASE ~(v = u /\ w = wk)
    <3>1. CASE moves[v][w] = 1
      BY <1>6, <2>2, <3>1
    <3>2. ASSUME NEW t \in Settler, Working(t), pass[t].group = member[v][w].group,
                 v \in pass[t].todo
          PROVE  \E q \in Settler : /\ Working(q)' /\ pass'[q].group = member[v][w].group
                                    /\ v \in pass'[q].todo
      <4>1. CASE t # s
        BY <1>13, <3>2, <4>1
      <4>2. CASE t = s
        <5>1. w = wk
          BY <1>3, <3>2, <4>2 DEF IInv, GroupsFit
        <5>2. v \in todo
          BY <2>2, <3>2, <4>2, <5>1
        <5>3. pass'[s] = on
          BY <1>9, <5>2
        <5>4. Working(s)'
          BY <1>8, <5>3 DEF Working
        <5>5. QED
          BY <1>8, <3>2, <4>2, <5>2, <5>3, <5>4
      <4>3. QED
        BY <4>1, <4>2
    <3>3. QED
      BY <3>1, <3>2 DEF IInv, SettledFit
  <2>3. QED
    BY <2>1, <2>2
<1>18. \A t \in Settler : PassFits(t)'
  BY <1>13, <1>15
<1>19. QED
  BY <1>10, <1>11, <1>14, <1>16, <1>17, <1>18 DEF IInv

-----------------------------------------------------------------------------
(* The theorems *)

LEMMA NextKeeps ==
  ASSUME IInv, [Next]_vars
  PROVE  IInv'
<1>1. ASSUME NEW p \in Joiner, JoinStep(p) PROVE IInv'
  BY <1>1, BeginJoinKeeps, ReadTierKeeps, FindGroupKeeps, NewGroupKeeps, EnterKeeps DEF JoinStep
<1>2. ASSUME NEW s \in Settler, PassStep(s) PROVE IInv'
  BY <1>2, ListDueKeeps, ClaimGroupKeeps, WriteResultKeeps, ReadProfileKeeps, MoveMemberKeeps
  DEF PassStep
<1>3. CASE Monday \/ (\E u \in User : Earn(u)) \/ UNCHANGED vars
  <2>1. /\ UNCHANGED <<profile, group, member, join, pass, moves, fails>>
        /\ week' >= week
    BY <1>3, LeaguesAssumption DEF Monday, Earn, vars, IInv, TypeOK, Week
  <2>2. week' \in Week
    BY <1>3, LeaguesAssumption DEF Monday, Earn, vars, IInv, TypeOK, Week
  <2>3. xp' \in [User -> [Week -> 0..MaxXp]]
    <3>1. CASE xp' = xp
      BY <3>1 DEF IInv, TypeOK
    <3>2. ASSUME NEW u \in User, xp[u][week] < MaxXp,
                 xp' = [xp EXCEPT ![u][week] = @ + 1]
          PROVE  xp' \in [User -> [Week -> 0..MaxXp]]
      <4>1. xp \in [User -> [Week -> 0..MaxXp]] /\ week \in Week
        BY DEF IInv, TypeOK
      <4>2. xp[u][week] + 1 \in 0..MaxXp
        BY <3>2, <4>1, LeaguesAssumption
      <4>3. QED
        BY <3>2, <4>1, <4>2
    <3>3. QED
      BY <1>3, <3>1, <3>2 DEF Monday, Earn, vars
  <2>4. TypeOK'
    BY <2>1, <2>2, <2>3 DEF IInv, TypeOK
  <2>5. JoinsFit'
    BY <2>1 DEF IInv, JoinsFit
  <2>6. QED
    BY <2>1, <2>4, <2>5, RowsKept DEF IInv
<1>4. ASSUME NEW s \in Settler, GiveUp(s) PROVE IInv'
  BY <1>4, GiveUpKeeps
<1>5. QED
  BY <1>1, <1>2, <1>3, <1>4 DEF Next

\* The invariant behind the leagues (leagues.service.ts:71-171).
THEOREM LeagueInvariance == Spec => []IInv
<1>1. Init => IInv
  BY InitFits
<1>2. IInv /\ [Next]_vars => IInv'
  BY NextKeeps
<1>3. QED
  BY <1>1, <1>2, PTL DEF Spec

\* The rows, the joiners and the passes keep their types.
THEOREM LeaguesTypeCorrect == Spec => []TypeOK
<1>1. IInv => TypeOK
  BY DEF IInv
<1>2. QED
  BY <1>1, LeagueInvariance, PTL

\* However many instances settle it, a week moves nobody twice, and only whom it
\* has a result for (leagues.service.ts:136-138).
THEOREM WeeksMoveOnce == Spec => []MovedOnce
<1>1. IInv => MovedOnce
  BY DEF IInv, MovesFit, MovedOnce
<1>2. QED
  BY <1>1, LeagueInvariance, PTL

\* While no pass fails, whoever entered a group in its week is moved by the time
\* its pass is done with it (leagues.service.ts:126-171).
THEOREM SettledGroupsMove == Spec => []EachMemberMoves
<1>1. IInv => EachMemberMoves
  <2> SUFFICES ASSUME IInv, fails = 0, NEW u \in User, NEW w \in Week,
                      member[u][w].group # None, ~member[u][w].late,
                      ~group[member[u][w].group].open,
                      \A s \in Settler : u \in pass[s].todo => pass[s].group # member[u][w].group
               PROVE  moves[u][w] = 1
    BY DEF EachMemberMoves
  <2>1. QED
    BY DEF IInv, SettledFit
<1>2. QED
  BY <1>1, LeagueInvariance, PTL
=============================================================================
