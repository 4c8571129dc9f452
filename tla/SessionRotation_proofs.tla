------------------------ MODULE SessionRotation_proofs ------------------------
EXTENDS SessionRotation, TLAPS

USE DEF Stored, Never

LEMMA InsertIsTable ==
  ASSUME NEW tb, IsTable(tb), NEW s \in Sid, NEW r \in Row
  PROVE  /\ IsTable(Insert(tb, s, r))
         /\ DOMAIN Insert(tb, s, r) = DOMAIN tb \cup {s}
         /\ Insert(tb, s, r)[s] = r
         /\ \A x \in DOMAIN tb \ {s} : Insert(tb, s, r)[x] = tb[x]
BY DEF IsTable, Insert

LEMMA DeleteIsTable ==
  ASSUME IsTable(row), NEW S
  PROVE  /\ IsTable(Delete(S))
         /\ DOMAIN Delete(S) = DOMAIN row \ S
         /\ \A x \in DOMAIN row \ S : Delete(S)[x] = row[x]
BY DEF IsTable, Delete

LEMMA RevokedIsTable ==
  ASSUME IsTable(row), NEW S
  PROVE  /\ IsTable(Revoked(S))
         /\ DOMAIN Revoked(S) = DOMAIN row
         /\ \A x \in DOMAIN row : 
              /\ Revoked(S)[x].revoked <=> (row[x].revoked \/ x \in S)
              /\ Revoked(S)[x].user = row[x].user
              /\ Revoked(S)[x].family = row[x].family
              /\ Revoked(S)[x].rotatedAt = row[x].rotatedAt
              /\ Revoked(S)[x].child = row[x].child
              /\ Revoked(S)[x].hits = row[x].hits
              /\ x \notin S => Revoked(S)[x] = row[x]
<1>1. \A x \in DOMAIN row : row[x] \in Row
  BY DEF IsTable
<1>2. /\ DOMAIN Revoked(S) = DOMAIN row
      /\ \A x \in DOMAIN row :
           Revoked(S)[x] = IF x \in S THEN [row[x] EXCEPT !.revoked = TRUE] ELSE row[x]
  BY DEF Revoked
<1>3. ASSUME NEW q \in Row
      PROVE  /\ [q EXCEPT !.revoked = TRUE] \in Row
             /\ [q EXCEPT !.revoked = TRUE].revoked = TRUE
             /\ [q EXCEPT !.revoked = TRUE].user = q.user
             /\ [q EXCEPT !.revoked = TRUE].family = q.family
             /\ [q EXCEPT !.revoked = TRUE].rotatedAt = q.rotatedAt
             /\ [q EXCEPT !.revoked = TRUE].child = q.child
             /\ [q EXCEPT !.revoked = TRUE].hits = q.hits
  BY DEF Row
<1>4. \A x \in DOMAIN row : Revoked(S)[x] \in Row
  BY <1>1, <1>2, <1>3
<1>5. IsTable(Revoked(S))
  <2>1. Revoked(S) = [x \in DOMAIN row |-> Revoked(S)[x]]
    BY DEF Revoked
  <2>2. QED
    BY <1>2, <1>4, <2>1 DEF IsTable
<1>6. QED
  BY <1>1, <1>2, <1>3, <1>5

LEMMA NoRowsIsTable == IsTable(NoRows) /\ DOMAIN NoRows = {}
BY DEF IsTable, NoRows

LEMMA IdleIsRequest == IsRequest(Idle)
BY NoRowsIsTable DEF IsRequest, Idle

\* A request that moves to another stage is still a request.
LEMMA StageTyped ==
  ASSUME NEW q, IsRequest(q),
         NEW pc \in {"wait", "locked", "read", "notify", "next", "done", "failed"}
  PROVE  IsRequest([q EXCEPT !.pc = pc])
BY DEF IsRequest

\* A request that keeps the rows it read, or forgets them, is still one.
LEMMA ReadTyped ==
  ASSUME NEW q, IsRequest(q), NEW t, IsTable(t),
         NEW pc \in {"wait", "locked", "read", "notify", "next", "done", "failed"}
  PROVE  /\ IsRequest([q EXCEPT !.pc = pc, !.seen = t])
         /\ \A n \in Nat : IsRequest([q EXCEPT !.pc = pc, !.seen = t, !.at = n])
<1>1. IsRequest([q EXCEPT !.pc = pc, !.seen = t])
  BY DEF IsRequest
<1>2. \A n \in Nat : IsRequest([q EXCEPT !.pc = pc, !.seen = t, !.at = n])
  BY DEF IsRequest
<1>3. QED
  BY <1>1, <1>2

TypedReq == req = [p \in Proc |-> req[p]] /\ \A p \in Proc : IsRequest(req[p])

LEMMA ReqStep ==
  ASSUME TypedReq, NEW p \in Proc, NEW r, IsRequest(r), req' = [req EXCEPT ![p] = r]
  PROVE  TypedReq' /\ req'[p] = r /\ \A q \in Proc \ {p} : req'[q] = req[q]
BY DEF TypedReq

LEMMA LeaveStep ==
  ASSUME TypeOK, NEW p \in Proc, NEW pc \in {"done", "failed", "notify"}, Leave(p, pc)
  PROVE  /\ TypedReq'
         /\ lock' \in [Family -> Proc \cup {None}]
         /\ \A f \in Family : lock'[f] = IF lock[f] = p THEN None ELSE lock[f]
         /\ req'[p].pc = pc /\ req'[p].op = req[p].op /\ req'[p].fam = req[p].fam
         /\ req'[p].todo = req[p].todo /\ req'[p].listed = req[p].listed
         /\ \A q \in Proc \ {p} : req'[q] = req[q]
<1> DEFINE r == [req[p] EXCEPT !.pc = pc, !.seen = NoRows, !.at = 0]
<1>1. TypedReq
  BY DEF TypeOK, TypedReq
<1>2. IsRequest(r)
  <2>1. IsRequest(req[p])
    BY <1>1 DEF TypedReq
  <2>2. QED
    BY <2>1, NoRowsIsTable, ReadTyped
<1>3. req' = [req EXCEPT ![p] = r]
  BY DEF Leave
<1>4. /\ r.pc = pc /\ r.op = req[p].op /\ r.fam = req[p].fam
      /\ r.todo = req[p].todo /\ r.listed = req[p].listed
  BY <1>1 DEF TypedReq, IsRequest
<1> HIDE DEF r
<1>5. QED
  BY <1>1, <1>2, <1>3, <1>4, ReqStep DEF TypeOK, Leave, Release

LEMMA NewRowTyped ==
  ASSUME TypeOK, NEW u \in User, NEW f \in Family, NEW c \in Ctx \cup {None}
  PROVE  /\ NewRow(u, f, c) \in Row
         /\ NewRow(u, f, c).family = f
         /\ NewRow(u, f, c).revoked = FALSE
         /\ NewRow(u, f, c).rotatedAt = -1
         /\ NewRow(u, f, c).child = None
         /\ NewRow(u, f, c).hits = 0
BY TimeAssumption DEF TypeOK, NewRow, Row

LEMMA SpentTyped ==
  ASSUME TypeOK, NEW p \in Proc, NEW t \in Sid, req[p].sid \in Stored
  PROVE  /\ Spent(p, t) \in Row
         /\ Spent(p, t).family = row[req[p].sid].family
         /\ Spent(p, t).revoked = row[req[p].sid].revoked
         /\ Spent(p, t).rotatedAt \in Nat
         /\ Spent(p, t).child = t
<1>1. row[req[p].sid] \in Row /\ req[p].at \in Nat
  BY DEF TypeOK, IsTable, IsRequest
<1>2. QED
  BY <1>1 DEF Spent, Row

\* Every step that only moves one request on keeps the types.
LEMMA MoveTyped ==
  ASSUME TypeOK, NEW p \in Proc, NEW r, IsRequest(r), req' = [req EXCEPT ![p] = r],
         UNCHANGED <<now, users, row, issued, told>>,
         lock' \in [Family -> Proc \cup {None}]
  PROVE  TypeOK'
BY DEF TypeOK, IsTable

LEMMA TypeStep ==
  ASSUME TypeOK, \A p \in Proc : ReadIsCurrent(p) /\ HoldsLock(p), [Next]_vars
  PROVE  TypeOK'
<1> USE DEF ReadIsCurrent
<1>1. ASSUME NEW u \in User, NEW f \in Family, NEW s \in Sid, NEW c \in Ctx \cup {None},
             StartSession(u, f, s, c)
      PROVE  TypeOK'
  BY <1>1, NewRowTyped, InsertIsTable DEF StartSession, TypeOK
<1>2. CASE Tick
  BY <1>2 DEF Tick, TypeOK, IsTable
<1>3. ASSUME NEW u \in User, RemoveUser(u) PROVE TypeOK'
  BY <1>3, DeleteIsTable DEF RemoveUser, TypeOK
<1>4. ASSUME NEW S \in SUBSET Sid, PruneSessions(S) PROVE TypeOK'
  BY <1>4, DeleteIsTable DEF PruneSessions, TypeOK
<1>5. ASSUME NEW p \in Proc, NEW s \in Sid, NEW c \in Ctx \cup {None}, BeginRefresh(p, s, c)
      PROVE  TypeOK'
  <2> DEFINE r == [Idle EXCEPT !.pc = "wait", !.op = "refresh",
                      !.fam = row[s].family, !.sid = s, !.ctx = c]
  <2>1. IsRequest(r)
    BY <1>5, NoRowsIsTable DEF BeginRefresh, IsRequest, Idle, TypeOK, IsTable, Row
  <2>2. QED
    BY <1>5, <2>1, MoveTyped DEF BeginRefresh, TypeOK
<1>6. ASSUME NEW p \in Proc, NEW s \in Sid, BeginLogout(p, s) PROVE TypeOK'
  <2> DEFINE r == [Idle EXCEPT !.pc = "wait", !.op = "logout", !.fam = row[s].family]
  <2>1. IsRequest(r)
    BY <1>6, NoRowsIsTable DEF BeginLogout, IsRequest, Idle, TypeOK, IsTable, Row
  <2>2. QED
    BY <1>6, <2>1, MoveTyped DEF BeginLogout, TypeOK
<1>7. ASSUME NEW p \in Proc, NEW u \in User, BeginLogoutAll(p, u) PROVE TypeOK'
  <2> DEFINE r == [Idle EXCEPT !.pc = "next", !.op = "logoutAll",
                 !.todo = LiveFamilies(u), !.listed = LiveFamilies(u),
                 !.known = {row[s].family : s \in {t \in Stored : row[t].user = u}}]
  <2>0. /\ LiveFamilies(u) \in SUBSET Family
        /\ {row[s].family : s \in {t \in Stored : row[t].user = u}} \in SUBSET Family
    BY DEF TypeOK, IsTable, Row, LiveFamilies
  <2>1. IsRequest(r)
    BY <2>0, NoRowsIsTable DEF IsRequest, Idle
  <2>2. QED
    BY <1>7, <2>1, MoveTyped DEF BeginLogoutAll, TypeOK
<1>8. ASSUME NEW p \in Proc, LockFamily(p) PROVE TypeOK'
  <2> DEFINE r == [req[p] EXCEPT !.pc = "locked"]
  <2>1. IsRequest(req[p])
    BY DEF TypeOK
  <2>2. IsRequest(r)
    BY <2>1, StageTyped
  <2>3. QED
    BY <1>8, <2>2, MoveTyped DEF LockFamily, TypeOK
<1>9. ASSUME NEW p \in Proc, ReadSession(p) PROVE TypeOK'
  <2> DEFINE r == [req[p] EXCEPT !.pc = "read",
                          !.seen = [s \in {req[p].sid} |-> row[s]], !.at = now]
  <2>0. IsTable([s \in {req[p].sid} |-> row[s]])
    BY <1>9 DEF ReadSession, Rotatable, TypeOK, IsTable
  <2>1. IsRequest(req[p]) /\ now \in Nat
    BY TimeAssumption DEF TypeOK
  <2>2. IsRequest(r)
    BY <2>0, <2>1, ReadTyped
  <2>3. QED
    BY <1>9, <2>2, MoveTyped DEF ReadSession, TypeOK
<1>10. ASSUME NEW p \in Proc, ReadFamily(p) PROVE TypeOK'
  <2> DEFINE r == [req[p] EXCEPT !.pc = "read",
                 !.seen = [s \in {t \in Rows(req[p].fam) : ~row[t].revoked} |-> row[s]]]
  <2>0. IsTable([s \in {t \in Rows(req[p].fam) : ~row[t].revoked} |-> row[s]])
    BY DEF Rows, TypeOK, IsTable
  <2>1. IsRequest(req[p])
    BY DEF TypeOK
  <2>2. IsRequest(r)
    BY <2>0, <2>1, ReadTyped
  <2>3. QED
    BY <1>10, <2>2, MoveTyped DEF ReadFamily, TypeOK
<1>11. ASSUME NEW p \in Proc, NextFamily(p) PROVE TypeOK'
  <2>1. CASE req[p].todo = {} /\ req' = [req EXCEPT ![p].pc = "done", ![p].fam = None]
    <3> DEFINE r == [req[p] EXCEPT !.pc = "done", !.fam = None]
    <3>0. IsRequest(req[p])
      BY DEF TypeOK
    <3>1. IsRequest(r)
      BY <3>0 DEF IsRequest
    <3>2. QED
      BY <1>11, <2>1, <3>1, MoveTyped DEF NextFamily, TypeOK
  <2>2. ASSUME NEW f \in req[p].todo,
               req' = [req EXCEPT ![p].pc = "wait", ![p].fam = f, ![p].todo = @ \ {f}]
        PROVE TypeOK'
    <3> DEFINE r == [req[p] EXCEPT !.pc = "wait", !.fam = f, !.todo = @ \ {f}]
    <3>0. IsRequest(req[p]) /\ f \in Family /\ req[p].todo \ {f} \in SUBSET Family
      BY DEF IsRequest, TypeOK
    <3>1. IsRequest(r)
      BY <3>0 DEF IsRequest
    <3>2. QED
      BY <1>11, <2>2, <3>1, MoveTyped DEF NextFamily, TypeOK
  <2>3. QED
    BY <1>11, <2>1, <2>2 DEF NextFamily
<1>12. ASSUME NEW p \in Proc, Respond(p) PROVE TypeOK'
  BY <1>12, IdleIsRequest, MoveTyped DEF Respond, TypeOK
<1>13. ASSUME NEW p \in Proc, Notify(p) PROVE TypeOK'
  <2> DEFINE r == [req[p] EXCEPT !.pc = IF req[p].op = "logoutAll" THEN "next" ELSE "done"]
  <2>1. IsRequest(r)
    BY DEF IsRequest, TypeOK
  <2>2. req[p].fam \in Family
    BY <1>13 DEF Notify, HoldsLock
  <2>3. QED
    BY <1>13, <2>1, <2>2 DEF Notify, TypeOK, IsTable
<1>14. ASSUME NEW p \in Proc, NEW pc \in {"done", "failed", "notify"}, Leave(p, pc),
              UNCHANGED <<now, users, issued, told>>, IsTable(row')
       PROVE  TypeOK'
  BY <1>14, LeaveStep DEF TypeOK, TypedReq
<1>15. ASSUME NEW p \in Proc, NEW t \in Sid, Rotate(p, t) PROVE TypeOK'
  <2>1. /\ Seen(p).user \in User /\ req[p].ctx \in Ctx \cup {None}
        /\ req[p].fam \in Family /\ req[p].sid \in Stored /\ req[p].sid \in Sid
    BY <1>15 DEF Rotate, Deciding, TypeOK, IsRequest, HoldsLock, Claimable, IsTable
  <2>2. IsTable(row')
    BY <1>15, <2>1, SpentTyped, NewRowTyped, InsertIsTable DEF Rotate, TypeOK
  <2>3. issued' \in [Family -> SUBSET Sid]
    BY <1>15, <2>1 DEF Rotate, TypeOK
  <2>4. QED
    BY <1>15, <2>2, <2>3, LeaveStep DEF Rotate, TypeOK, TypedReq
<1>16. ASSUME NEW p \in Proc, TolerateReplay(p) PROVE TypeOK'
  <2>1. /\ row[req[p].sid].hits < MaxRaceHits
        /\ row[req[p].sid] \in Row
        /\ req[p].sid \in Stored
    BY <1>16 DEF TolerateReplay, Deciding, Tolerable, Seen, TypeOK, IsTable
  <2>2. IsTable(row')
    BY <1>16, <2>1, TimeAssumption DEF TolerateReplay, TypeOK, IsTable, Row
  <2>3. QED
    BY <1>14, <1>16, <2>2 DEF TolerateReplay
<1>17. ASSUME NEW p \in Proc, LoseUser(p) \/ PunishReplay(p) \/ RevokeFamily(p) PROVE TypeOK'
  BY <1>14, <1>17, RevokedIsTable DEF LoseUser, PunishReplay, RevokeFamily, TypeOK
<1>18. ASSUME NEW p \in Proc, RefuseSession(p) \/ LoseClaim(p) \/ MissReplay(p) \/ Fail(p)
       PROVE  TypeOK'
  BY <1>14, <1>18 DEF RefuseSession, LoseClaim, MissReplay, Fail, TypeOK, IsTable
<1>19. CASE UNCHANGED vars
  BY <1>19 DEF vars, TypeOK, IsTable
<1>20. QED
  BY <1>1, <1>2, <1>3, <1>4, <1>5, <1>6, <1>7, <1>8, <1>9, <1>10, <1>11, <1>12,
     <1>13, <1>15, <1>16, <1>17, <1>18, <1>19
     DEF Next, Environment, Begin, Step

-----------------------------------------------------------------------------
(* The table: what one step does to the rows, and what it may not undo *)

TableInv == IdsBelong /\ RotatedHasChild /\ FamilyEndsWhole /\ OneCurrentToken

\* Families only gain ids, and a login that is over stays over.
NothingRevives == /\ \A f \in Family : issued[f] \subseteq issued'[f]
                  /\ \A f \in Family : Ended(f) => Ended(f)'

LEMMA TableUnchanged ==
  ASSUME TableInv, UNCHANGED <<row, issued>>
  PROVE  TableInv' /\ NothingRevives
BY DEF TableInv, NothingRevives, IdsBelong, RotatedHasChild, FamilyEndsWhole,
       OneCurrentToken, Ended, Rows

LEMMA TableDeleted ==
  ASSUME TypeOK, TableInv, NEW S, row' = Delete(S), UNCHANGED issued
  PROVE  TableInv' /\ NothingRevives
<1>1. Stored' \subseteq Stored /\ \A x \in Stored' : row'[x] = row[x]
  BY DeleteIsTable DEF TypeOK
<1>2. TableInv'
  BY <1>1 DEF TableInv, IdsBelong, RotatedHasChild, FamilyEndsWhole, OneCurrentToken
<1>3. NothingRevives
  BY <1>1 DEF NothingRevives, Ended, Rows
<1>4. QED
  BY <1>2, <1>3

\* A revocation that covers what is left of one family ends it.
LEMMA TableRevoked ==
  ASSUME TypeOK, TableInv, NEW f \in Family, NEW S, issued[f] # {},
         S \subseteq issued[f],
         \A s \in Rows(f) : row[s].revoked \/ s \in S,
         row' = Revoked(S), UNCHANGED issued
  PROVE  TableInv' /\ NothingRevives /\ Ended(f)'
<1>0. /\ Stored' = Stored
      /\ \A x \in Stored : /\ row'[x].revoked <=> (row[x].revoked \/ x \in S)
                           /\ row'[x].family = row[x].family
                           /\ row'[x].rotatedAt = row[x].rotatedAt
                           /\ row'[x].child = row[x].child
  BY RevokedIsTable DEF TypeOK
<1>1. \A s \in Stored : row[s].family \in Family
  BY DEF TypeOK, IsTable, Row
<1>2. \A s \in S : s \in Stored => row[s].family = f
  BY <1>1 DEF TableInv, IdsBelong
<1>3. IdsBelong' /\ RotatedHasChild' /\ OneCurrentToken'
  BY <1>0 DEF TableInv, IdsBelong, RotatedHasChild, OneCurrentToken
<1>4. Ended(f)'
  BY <1>0 DEF Ended, Rows
<1>5. \A g \in Family : Ended(g) => Ended(g)'
  BY <1>0 DEF Ended, Rows
<1>6. FamilyEndsWhole'
  BY <1>0, <1>2, <1>4 DEF TableInv, FamilyEndsWhole, Ended, Rows
<1>7. QED
  BY <1>3, <1>4, <1>5, <1>6 DEF TableInv, NothingRevives

LEMMA TableStarted ==
  ASSUME TypeOK, TableInv, NEW u \in User, NEW f \in Family, NEW s \in Sid,
         NEW c \in Ctx \cup {None}, StartSession(u, f, s, c)
  PROVE  TableInv' /\ NothingRevives
<1>1. \A x \in Stored : x \in issued[row[x].family] /\ row[x].family \in Family
  BY DEF TableInv, IdsBelong, TypeOK, IsTable, Row
<1>2. s \notin Stored /\ \A x \in Stored : row[x].family # f
  BY <1>1 DEF StartSession, Issued
<1>3. /\ Stored' = Stored \cup {s}
      /\ \A x \in Stored : row'[x] = row[x]
      /\ row'[s] = NewRow(u, f, c)
  <2>1. IsTable(row) /\ NewRow(u, f, c) \in Row /\ row' = Insert(row, s, NewRow(u, f, c))
    BY NewRowTyped DEF StartSession, TypeOK
  <2>2. QED
    BY <1>2, <2>1 DEF Insert
<1>4. issued' = [issued EXCEPT ![f] = {s}] /\ issued[f] = {} /\ s \notin Issued
  BY DEF StartSession
<1> DEFINE new == NewRow(u, f, c)
<1>a. new.family = f /\ new.child = None
  BY NewRowTyped
<1> HIDE DEF new
<1>5. IdsBelong'
  BY <1>1, <1>2, <1>3, <1>4, <1>a DEF TableInv, IdsBelong, Issued, TypeOK, new
<1>6. RotatedHasChild' /\ FamilyEndsWhole' /\ OneCurrentToken'
  BY <1>2, <1>3, <1>a
     DEF TableInv, RotatedHasChild, FamilyEndsWhole, OneCurrentToken, new
<1>7. NothingRevives
  BY <1>2, <1>3, <1>4, <1>a DEF NothingRevives, Ended, Rows, TypeOK, new
<1>8. QED
  BY <1>5, <1>6, <1>7 DEF TableInv

LEMMA TableRotated ==
  ASSUME TypeOK, TableInv, NEW p \in Proc, NEW t \in Sid, Rotate(p, t),
         ReadIsCurrent(p), HoldsLock(p)
  PROVE  /\ TableInv' /\ NothingRevives
         /\ \A x \in Stored' : x \notin {req[p].sid, t} => x \in Stored /\ row'[x] = row[x]
         /\ t \notin Stored /\ t # req[p].sid
         /\ \A x \in Stored' : x \in {req[p].sid, t} => row'[x].family = req[p].fam
<1> DEFINE s == req[p].sid
           f == req[p].fam
           new == NewRow(Seen(p).user, f, req[p].ctx)
<1>1. /\ f \in Family /\ s \in issued[f] /\ s \in Stored /\ s \in Sid
      /\ row[s].rotatedAt = Never /\ ~row[s].revoked
  BY DEF Rotate, Deciding, Claimable, ReadIsCurrent, HoldsLock
<1>2. \A x \in Stored : x \in issued[row[x].family] /\ row[x].family \in Family
  BY DEF TableInv, IdsBelong, TypeOK, IsTable, Row
<1>3. row[s].family = f
  BY <1>1, <1>2 DEF TableInv, IdsBelong
<1>4. t \notin Stored /\ t # s
  BY <1>1, <1>2 DEF Rotate, Issued
<1>5. new \in Row /\ new.family = f /\ new.revoked = FALSE /\ new.rotatedAt = Never
      /\ new.child = None
  <2>1. Seen(p).user \in User
    BY DEF Rotate, TypeOK
  <2>2. req[p].ctx \in Ctx \cup {None}
    BY DEF TypeOK, IsRequest
  <2>3. QED
    BY <1>1, <2>1, <2>2, NewRowTyped
<1>6. /\ Stored' = Stored \cup {t}
      /\ row'[s] = Spent(p, t)
      /\ row'[t] = new
      /\ \A x \in Stored \ {s} : row'[x] = row[x]
  <2>1. Spent(p, t) \in Row
    BY <1>1, SpentTyped
  <2> DEFINE mid == Insert(row, s, Spent(p, t))
  <2>2. /\ DOMAIN mid = Stored /\ mid[s] = Spent(p, t)
        /\ \A x \in Stored \ {s} : mid[x] = row[x]
    BY <1>1 DEF Insert
  <2>3. row' = Insert(mid, t, new)
    BY DEF Rotate
  <2> HIDE DEF mid, new
  <2>4. QED
    BY <1>1, <1>4, <1>5, <2>2, <2>3 DEF Insert
<1>7. /\ Spent(p, t).family = f /\ Spent(p, t).revoked = FALSE
      /\ Spent(p, t).rotatedAt # Never /\ Spent(p, t).child = t
      /\ row[s].revoked = FALSE
  <2>1. row[s].revoked \in BOOLEAN
    BY <1>1 DEF TypeOK, IsTable, Row
  <2>2. QED
    BY <1>1, <1>3, <2>1, SpentTyped
<1>8. issued' = [issued EXCEPT ![f] = @ \cup {t}] /\ t \notin Issued
  BY DEF Rotate
<1> HIDE DEF s, f, new
<1>9. IdsBelong'
  BY <1>1, <1>2, <1>3, <1>4, <1>5, <1>6, <1>7, <1>8 DEF TableInv, IdsBelong, Issued, TypeOK
<1>10. RotatedHasChild'
  BY <1>1, <1>4, <1>5, <1>6, <1>7 DEF TableInv, RotatedHasChild
<1>11. FamilyEndsWhole'
  <2>1. \A x \in Stored' : row'[x].family = f => ~row'[x].revoked
    BY <1>1, <1>3, <1>5, <1>6, <1>7 DEF TableInv, FamilyEndsWhole
  <2>2. \A x \in Stored' : row'[x].family # f => x \in Stored /\ row'[x] = row[x]
    BY <1>3, <1>5, <1>6, <1>7
  <2>3. QED
    BY <2>1, <2>2 DEF TableInv, FamilyEndsWhole
<1>12. OneCurrentToken'
  BY <1>1, <1>3, <1>4, <1>5, <1>6, <1>7 DEF TableInv, OneCurrentToken
<1>13. NothingRevives
  BY <1>1, <1>3, <1>4, <1>5, <1>6, <1>7, <1>8 DEF NothingRevives, Ended, Rows, TypeOK
<1>14. QED
  BY <1>1, <1>4, <1>5, <1>6, <1>7, <1>9, <1>10, <1>11, <1>12, <1>13 DEF TableInv, s, f

LEMMA TableTolerated ==
  ASSUME TypeOK, TableInv, NEW p \in Proc, TolerateReplay(p)
  PROVE  /\ TableInv' /\ NothingRevives
         /\ Stored' = Stored
         /\ \A x \in Stored \ {req[p].sid} : row'[x] = row[x]
<1>1. /\ Stored' = Stored
      /\ \A x \in Stored \ {req[p].sid} : row'[x] = row[x]
      /\ \A x \in Stored : /\ row'[x].family = row[x].family
                           /\ row'[x].revoked = row[x].revoked
                           /\ row'[x].rotatedAt = row[x].rotatedAt
                           /\ row'[x].child = row[x].child
  BY DEF TolerateReplay, TypeOK, IsTable, Row
<1>2. issued' = issued
  BY DEF TolerateReplay
<1>3. QED
  BY <1>1, <1>2 DEF TableInv, NothingRevives, IdsBelong, RotatedHasChild,
       FamilyEndsWhole, OneCurrentToken, Ended, Rows

-----------------------------------------------------------------------------
(* The requests *)

RequestInv(q) == /\ HoldsLock(q)
                 /\ ReadIsCurrent(q)
                 /\ ReadIsComplete(q)
                 /\ ListedIsHandled(q)
                 /\ CommittedEnds(q)

\* A step leaves request q alone when it keeps q's lock and the rows q's lock
\* covers, but for rows that disappear.
LeavesAlone(q) ==
    /\ req'[q] = req[q]
    /\ req[q].pc \in {"locked", "read"} =>
          /\ lock'[req[q].fam] = q
          /\ \A s \in Stored' :
                row'[s].family = req[q].fam => s \in Stored /\ row'[s] = row[s]

LEMMA AloneKeeps ==
  ASSUME TypeOK, TypeOK', TableInv', NothingRevives, NEW q \in Proc, RequestInv(q), LeavesAlone(q)
  PROVE  RequestInv(q)'
<1> USE DEF NothingRevives, LeavesAlone
<1>1. HoldsLock(q)'
  BY DEF RequestInv, HoldsLock
<1>2. ReadIsCurrent(q)'
  <2>1. ASSUME req[q].op = "refresh", req[q].pc = "read", req[q].sid \in Stored'
        PROVE  req[q].sid \in Stored /\ row'[req[q].sid] = row[req[q].sid]
    <3>1. /\ req[q].fam \in Family /\ lock[req[q].fam] = q
          /\ req[q].sid \in issued'[req[q].fam]
      BY <2>1 DEF RequestInv, HoldsLock, ReadIsCurrent
    <3>2. row'[req[q].sid].family \in Family
      BY <2>1 DEF TypeOK, IsTable, Row
    <3>3. row'[req[q].sid].family = req[q].fam
      BY <2>1, <3>1, <3>2 DEF TableInv, IdsBelong
    <3>4. QED
      BY <2>1, <3>1, <3>3
  <2>2. QED
    BY <2>1 DEF RequestInv, HoldsLock, ReadIsCurrent, Seen
<1>3. ReadIsComplete(q)'
  BY DEF RequestInv, HoldsLock, ReadIsComplete, Rows
<1>4. ListedIsHandled(q)'
  BY DEF RequestInv, ListedIsHandled, TypeOK, IsRequest
<1>5. CommittedEnds(q)'
  BY DEF RequestInv, CommittedEnds
<1>6. QED
  BY <1>1, <1>2, <1>3, <1>4, <1>5 DEF RequestInv

\* The end of p's transaction leaves every other request alone if its writes
\* stayed in p's family.
LEMMA LeaveAlone ==
  ASSUME TypeOK, TableInv, \A q \in Proc : HoldsLock(q), NEW p \in Proc, NEW pc \in {"done", "failed", "notify"},
         Leave(p, pc),
         \/ row' = row
         \/ /\ req[p].fam \in Family /\ lock[req[p].fam] = p
            /\ \A s \in Stored' : \/ row'[s].family = req[p].fam
                                  \/ s \in Stored /\ row'[s] = row[s]
  PROVE  \A q \in Proc \ {p} : LeavesAlone(q)
<1>1. SUFFICES ASSUME NEW q \in Proc \ {p}, req[q].pc \in {"locked", "read"}
               PROVE  /\ lock'[req[q].fam] = q
                      /\ \A s \in Stored' : row'[s].family = req[q].fam
                            => s \in Stored /\ row'[s] = row[s]
  BY LeaveStep DEF LeavesAlone
<1>2. req[q].fam \in Family /\ lock[req[q].fam] = q
  BY <1>1 DEF HoldsLock
<1>3. lock'[req[q].fam] = q
  BY <1>1, <1>2, LeaveStep
<1>4. ASSUME NEW s \in Stored', row'[s].family = req[q].fam
      PROVE  s \in Stored /\ row'[s] = row[s]
  BY <1>1, <1>2, <1>4
<1>5. QED
  BY <1>3, <1>4

-----------------------------------------------------------------------------
(* The inductive step, action by action *)

Inv == TypeOK /\ TableInv /\ AnnouncedAfterCommit /\ \A p \in Proc : RequestInv(p)

LEMMA InvIsIInv == Inv <=> IInv
BY DEF Inv, IInv, TableInv, RequestInv

\* A step that touches neither rows nor ids, and moves at most request p.
LEMMA QuietStep ==
  ASSUME Inv, TypeOK', UNCHANGED <<row, issued>>, NEW p \in Proc,
         \A q \in Proc \ {p} : LeavesAlone(q), RequestInv(p)',
         told' \subseteq told \cup {f \in Family : Ended(f)}
  PROVE  Inv'
<1>1. TableInv' /\ NothingRevives
  BY TableUnchanged DEF Inv
<1>2. \A q \in Proc : RequestInv(q)'
  BY <1>1, AloneKeeps DEF Inv
<1>3. AnnouncedAfterCommit'
  BY <1>1 DEF Inv, TypeOK, AnnouncedAfterCommit, NothingRevives
<1>4. QED
  BY <1>1, <1>2, <1>3 DEF Inv

\* A step of nobody's: the environment only adds new families and removes rows.
LEMMA EnvironmentStep ==
  ASSUME Inv, TypeOK', TableInv', NothingRevives, UNCHANGED <<lock, req, told>>,
         \A s \in Stored' : \/ s \in Stored /\ row'[s] = row[s]
                            \/ issued[row'[s].family] = {}
  PROVE  Inv'
<1>1. \A q \in Proc : LeavesAlone(q)
  BY DEF Inv, RequestInv, HoldsLock, LeavesAlone
<1>2. \A q \in Proc : RequestInv(q)'
  BY <1>1, AloneKeeps DEF Inv
<1>3. AnnouncedAfterCommit'
  BY DEF Inv, TypeOK, AnnouncedAfterCommit, NothingRevives
<1>4. QED
  BY <1>2, <1>3 DEF Inv

\* The end of p's transaction.
LEMMA CommitStep ==
  ASSUME Inv, TypeOK', TableInv', NothingRevives, told' = told, NEW p \in Proc,
         NEW pc \in {"done", "failed", "notify"}, Leave(p, pc), RequestInv(p)',
         \/ row' = row
         \/ /\ req[p].fam \in Family /\ lock[req[p].fam] = p
            /\ \A s \in Stored' : \/ row'[s].family = req[p].fam
                                  \/ s \in Stored /\ row'[s] = row[s]
  PROVE  Inv'
<1>1. \A q \in Proc \ {p} : LeavesAlone(q)
  BY LeaveAlone DEF Inv, RequestInv
<1>2. \A q \in Proc : RequestInv(q)'
  BY <1>1, AloneKeeps DEF Inv
<1>3. AnnouncedAfterCommit'
  BY DEF Inv, TypeOK, AnnouncedAfterCommit, NothingRevives
<1>4. QED
  BY <1>2, <1>3 DEF Inv

LEMMA InvStep == Inv /\ [Next]_vars => Inv'
<1> SUFFICES ASSUME Inv, [Next]_vars PROVE Inv'
  OBVIOUS
<1>0. TypeOK /\ TypeOK' /\ TableInv /\ \A p \in Proc : RequestInv(p)
  BY TypeStep DEF Inv, RequestInv
<1>1. ASSUME NEW u \in User, NEW f \in Family, NEW s \in Sid, NEW c \in Ctx \cup {None},
             StartSession(u, f, s, c)
      PROVE  Inv'
  <2>1. TableInv' /\ NothingRevives
    BY <1>0, <1>1, TableStarted
  <2>2. NewRow(u, f, c) \in Row /\ NewRow(u, f, c).family = f
    BY <1>0, NewRowTyped
  <2>3. \A x \in Stored' : \/ x \in Stored /\ row'[x] = row[x]
                           \/ issued[row'[x].family] = {}
    BY <1>1, <2>2 DEF StartSession, Insert
  <2>4. QED
    BY <1>0, <1>1, <2>1, <2>3, EnvironmentStep DEF StartSession
<1>2. CASE Tick
  BY <1>0, <1>2, TableUnchanged, EnvironmentStep DEF Tick
<1>3. ASSUME NEW S, row' = Delete(S), UNCHANGED <<issued, lock, req, told>>
      PROVE  Inv'
  <2>1. TableInv' /\ NothingRevives
    BY <1>0, <1>3, TableDeleted
  <2>2. \A x \in Stored' : x \in Stored /\ row'[x] = row[x]
    BY <1>3 DEF Delete
  <2>3. QED
    BY <1>0, <1>3, <2>1, <2>2, EnvironmentStep
<1>4. ASSUME NEW p \in Proc, NEW s \in Sid, NEW c \in Ctx \cup {None}, BeginRefresh(p, s, c)
      PROVE  Inv'
  <2>1. /\ req'[p].op = "refresh" /\ req'[p].pc = "wait"
        /\ req'[p].fam = row[s].family /\ req'[p].sid = s
        /\ s \in Stored /\ row[s].family \in Family /\ s \in issued[row[s].family]
    BY <1>0, <1>4 DEF BeginRefresh, TypeOK, IsTable, Row, TableInv, IdsBelong, Idle
  <2>2. RequestInv(p)'
    BY <1>4, <2>1 DEF BeginRefresh, RequestInv, HoldsLock, ReadIsCurrent,
         ReadIsComplete, ListedIsHandled, CommittedEnds
  <2>3. \A q \in Proc \ {p} : LeavesAlone(q)
    BY <1>0, <1>4 DEF BeginRefresh, LeavesAlone, TypeOK, RequestInv, HoldsLock
  <2>4. QED
    BY <1>0, <1>4, <2>2, <2>3, QuietStep DEF BeginRefresh
<1>5. ASSUME NEW p \in Proc, NEW s \in Sid, BeginLogout(p, s) PROVE Inv'
  <2>1. /\ req'[p].op = "logout" /\ req'[p].pc = "wait"
        /\ req'[p].fam = row[s].family
        /\ s \in Stored /\ row[s].family \in Family /\ s \in issued[row[s].family]
    BY <1>0, <1>5 DEF BeginLogout, TypeOK, IsTable, Row, TableInv, IdsBelong, Idle
  <2>2. RequestInv(p)'
    BY <1>5, <2>1 DEF BeginLogout, RequestInv, HoldsLock, ReadIsCurrent,
         ReadIsComplete, ListedIsHandled, CommittedEnds
  <2>3. \A q \in Proc \ {p} : LeavesAlone(q)
    BY <1>0, <1>5 DEF BeginLogout, LeavesAlone, TypeOK, RequestInv, HoldsLock
  <2>4. QED
    BY <1>0, <1>5, <2>2, <2>3, QuietStep DEF BeginLogout
<1>6. ASSUME NEW p \in Proc, NEW u \in User, BeginLogoutAll(p, u) PROVE Inv'
  <2>1. /\ req'[p].op = "logoutAll" /\ req'[p].pc = "next"
        /\ req'[p].todo = LiveFamilies(u) /\ req'[p].listed = LiveFamilies(u)
    BY <1>0, <1>6 DEF BeginLogoutAll, TypeOK, Idle
  <2>2. \A f \in LiveFamilies(u) : issued[f] # {}
    BY <1>0 DEF LiveFamilies, TableInv, IdsBelong
  <2>3. RequestInv(p)'
    BY <1>6, <2>1, <2>2 DEF BeginLogoutAll, RequestInv, HoldsLock, ReadIsCurrent,
         ReadIsComplete, ListedIsHandled, CommittedEnds
  <2>4. \A q \in Proc \ {p} : LeavesAlone(q)
    BY <1>0, <1>6 DEF BeginLogoutAll, LeavesAlone, TypeOK, RequestInv, HoldsLock
  <2>5. QED
    BY <1>0, <1>6, <2>3, <2>4, QuietStep DEF BeginLogoutAll
<1>7. ASSUME NEW p \in Proc, LockFamily(p) PROVE Inv'
  <2>1. /\ req'[p] = [req[p] EXCEPT !.pc = "locked"] /\ req[p].pc = "wait"
        /\ req[p].fam \in Family /\ lock[req[p].fam] = None
        /\ lock' = [lock EXCEPT ![req[p].fam] = p]
    BY <1>0, <1>7 DEF LockFamily, LockFree, TypeOK, RequestInv, HoldsLock
  <2>2. /\ req'[p].pc = "locked" /\ req'[p].fam = req[p].fam /\ req'[p].op = req[p].op
        /\ req'[p].sid = req[p].sid /\ req'[p].todo = req[p].todo
        /\ req'[p].listed = req[p].listed /\ lock'[req[p].fam] = p
    BY <1>0, <2>1 DEF TypeOK, IsRequest
  <2>3. RequestInv(p)'
    BY <1>0, <1>7, <2>1, <2>2 DEF LockFamily, RequestInv, HoldsLock, ReadIsCurrent,
         ReadIsComplete, ListedIsHandled, CommittedEnds, Ended, Rows
  <2>4. \A q \in Proc \ {p} : LeavesAlone(q)
    BY <1>0, <1>7, <2>1, NoneAssumption
       DEF LockFamily, LeavesAlone, TypeOK, RequestInv, HoldsLock
  <2>5. QED
    BY <1>0, <1>7, <2>3, <2>4, QuietStep DEF LockFamily
<1>8. ASSUME NEW p \in Proc, ReadSession(p) PROVE Inv'
  <2>1. /\ req'[p].pc = "read" /\ req'[p].op = "refresh" /\ req'[p].fam = req[p].fam
        /\ req'[p].sid = req[p].sid
        /\ req'[p].seen = [s \in {req[p].sid} |-> row[s]]
        /\ req[p].pc = "locked" /\ req[p].op = "refresh"
    <3>1. IsRequest(req[p]) /\ req = [q \in Proc |-> req[q]]
      BY <1>0 DEF TypeOK
    <3>2. req'[p] = [req[p] EXCEPT !.pc = "read", !.at = now,
                        !.seen = [s \in {req[p].sid} |-> row[s]]]
      BY <1>8, <3>1 DEF ReadSession
    <3>3. QED
      BY <1>8, <3>1, <3>2 DEF ReadSession, IsRequest
  <2>2. RequestInv(p)'
    <3>1. HoldsLock(p)'
      BY <1>0, <1>8, <2>1 DEF ReadSession, RequestInv, HoldsLock
    <3>2. ReadIsCurrent(p)'
      BY <1>0, <1>8, <2>1 DEF ReadSession, RequestInv, ReadIsCurrent, Seen
    <3>3. ReadIsComplete(p)' /\ ListedIsHandled(p)' /\ CommittedEnds(p)'
      BY <2>1 DEF ReadIsComplete, ListedIsHandled, CommittedEnds
    <3>4. QED
      BY <3>1, <3>2, <3>3 DEF RequestInv
  <2>3. \A q \in Proc \ {p} : LeavesAlone(q)
    BY <1>0, <1>8 DEF ReadSession, LeavesAlone, TypeOK, RequestInv, HoldsLock
  <2>4. QED
    BY <1>0, <1>8, <2>2, <2>3, QuietStep DEF ReadSession
<1>9. ASSUME NEW p \in Proc, ReadFamily(p) PROVE Inv'
  <2>1. /\ req'[p].pc = "read" /\ req'[p].op = req[p].op /\ req'[p].fam = req[p].fam
        /\ req'[p].todo = req[p].todo /\ req'[p].listed = req[p].listed
        /\ DOMAIN req'[p].seen = {t \in Rows(req[p].fam) : ~row[t].revoked}
        /\ req[p].pc = "locked" /\ req[p].op \in {"logout", "logoutAll"}
    BY <1>0, <1>9 DEF ReadFamily, TypeOK, IsRequest
  <2>2. \A t \in Rows(req[p].fam) : t \in issued[req[p].fam]
    BY <1>0 DEF Rows, TableInv, IdsBelong
  <2>3. RequestInv(p)'
    <3>0. UNCHANGED <<row, issued, lock>>
      BY <1>9 DEF ReadFamily
    <3>1. HoldsLock(p)' /\ ReadIsCurrent(p)' /\ CommittedEnds(p)'
      BY <1>0, <2>1, <3>0 DEF RequestInv, HoldsLock, ReadIsCurrent, CommittedEnds
    <3>2. ReadIsComplete(p)'
      BY <1>0, <2>1, <2>2, <3>0 DEF ReadIsComplete, Rows
    <3>3. ListedIsHandled(p)'
      BY <1>0, <2>1, <3>0 DEF RequestInv, ListedIsHandled, Ended, Rows
    <3>4. QED
      BY <3>1, <3>2, <3>3 DEF RequestInv
  <2>4. \A q \in Proc \ {p} : LeavesAlone(q)
    BY <1>0, <1>9 DEF ReadFamily, LeavesAlone, TypeOK, RequestInv, HoldsLock
  <2>5. QED
    BY <1>0, <1>9, <2>3, <2>4, QuietStep DEF ReadFamily
<1>10. ASSUME NEW p \in Proc, NextFamily(p) PROVE Inv'
  <2>1. req[p].pc = "next" /\ UNCHANGED <<now, users, row, issued, lock, told>>
    BY <1>10 DEF NextFamily
  <2>2. \A q \in Proc \ {p} : LeavesAlone(q)
    BY <1>0, <1>10 DEF NextFamily, LeavesAlone, TypeOK, RequestInv, HoldsLock
  <2>3. CASE req[p].todo = {} /\ req' = [req EXCEPT ![p].pc = "done", ![p].fam = None]
    <3>1. /\ req'[p].pc = "done" /\ req'[p].op = "logoutAll" /\ req[p].op = "logoutAll"
          /\ req'[p].todo = {} /\ req'[p].listed = req[p].listed
      BY <1>0, <2>1, <2>3 DEF TypeOK, IsRequest, RequestInv, HoldsLock
    <3>2. RequestInv(p)'
      <4>1. HoldsLock(p)' /\ ReadIsCurrent(p)' /\ ReadIsComplete(p)' /\ CommittedEnds(p)'
        BY <1>0, <2>1, <3>1 DEF NextFamily, RequestInv, HoldsLock, ReadIsCurrent,
             ReadIsComplete, CommittedEnds, ListedIsHandled
      <4>2. ListedIsHandled(p)'
        BY <1>0, <2>1, <2>3, <3>1 DEF RequestInv, ListedIsHandled, Ended, Rows
      <4>3. QED
        BY <4>1, <4>2 DEF RequestInv
    <3>3. QED
      BY <1>0, <2>1, <2>2, <3>2, QuietStep
  <2>4. ASSUME NEW f \in req[p].todo,
               req' = [req EXCEPT ![p].pc = "wait", ![p].fam = f, ![p].todo = @ \ {f}]
        PROVE  Inv'
    <3>1. /\ req'[p].pc = "wait" /\ req'[p].op = "logoutAll" /\ req'[p].fam = f
          /\ req[p].op = "logoutAll"
          /\ req'[p].todo = req[p].todo \ {f} /\ req'[p].listed = req[p].listed
          /\ f \in Family /\ req[p].listed \subseteq Family
      BY <1>0, <2>1, <2>4 DEF TypeOK, IsRequest, RequestInv, HoldsLock
    <3>2. RequestInv(p)'
      <4>1. HoldsLock(p)' /\ ReadIsCurrent(p)' /\ ReadIsComplete(p)' /\ CommittedEnds(p)'
        BY <1>0, <2>1, <3>1 DEF NextFamily, RequestInv, HoldsLock, ReadIsCurrent,
             ReadIsComplete, CommittedEnds, ListedIsHandled
      <4>2. ListedIsHandled(p)'
        BY <1>0, <2>1, <3>1 DEF RequestInv, ListedIsHandled, Ended, Rows
      <4>3. QED
        BY <4>1, <4>2 DEF RequestInv
    <3>3. QED
      BY <1>0, <2>1, <2>2, <3>2, QuietStep
  <2>5. QED
    BY <1>10, <2>3, <2>4 DEF NextFamily
<1>11. ASSUME NEW p \in Proc, Respond(p) PROVE Inv'
  <2>1. req'[p].pc = "idle" /\ req'[p].op = "none"
    BY <1>0, <1>11 DEF Respond, TypeOK, Idle
  <2>2. RequestInv(p)'
    BY <2>1 DEF RequestInv, HoldsLock, ReadIsCurrent,
         ReadIsComplete, ListedIsHandled, CommittedEnds
  <2>3. \A q \in Proc \ {p} : LeavesAlone(q)
    BY <1>0, <1>11 DEF Respond, LeavesAlone, TypeOK, RequestInv, HoldsLock
  <2>4. QED
    BY <1>0, <1>11, <2>2, <2>3, QuietStep DEF Respond
<1>12. ASSUME NEW p \in Proc, Notify(p) PROVE Inv'
  <2>1. /\ req'[p].pc \in {"next", "done"} /\ req'[p].op = req[p].op
        /\ req'[p].fam = req[p].fam /\ req'[p].sid = req[p].sid
        /\ req'[p].todo = req[p].todo /\ req'[p].listed = req[p].listed
        /\ req[p].pc = "notify" /\ req[p].fam \in Family /\ Ended(req[p].fam)
        /\ req'[p].op = "logoutAll" => req'[p].pc = "next"
    BY <1>0, <1>12 DEF Notify, TypeOK, IsRequest, RequestInv, CommittedEnds
  <2>2. RequestInv(p)'
    BY <1>0, <1>12, <2>1 DEF Notify, RequestInv, HoldsLock, ReadIsCurrent,
         ReadIsComplete, ListedIsHandled, CommittedEnds, Rows, Ended
  <2>3. \A q \in Proc \ {p} : LeavesAlone(q)
    BY <1>0, <1>12 DEF Notify, LeavesAlone, TypeOK, RequestInv, HoldsLock
  <2>4. QED
    BY <1>0, <1>12, <2>1, <2>2, <2>3, QuietStep DEF Notify
<1>13. ASSUME NEW p \in Proc,
              RefuseSession(p) \/ LoseClaim(p) \/ MissReplay(p) \/ Fail(p)
       PROVE  Inv'
  <2>1. PICK pc \in {"done", "failed"} :
           /\ Leave(p, pc) /\ row' = row /\ issued' = issued /\ told' = told
           /\ pc = "failed" \/ req[p].op = "refresh"
    BY <1>13 DEF RefuseSession, LoseClaim, MissReplay, Fail, Deciding
  <2>2. req'[p].pc = pc /\ req'[p].op = req[p].op
    BY <1>0, <2>1, LeaveStep
  <2>3. RequestInv(p)'
    BY <2>1, <2>2 DEF RequestInv, HoldsLock, ReadIsCurrent,
         ReadIsComplete, ListedIsHandled, CommittedEnds
  <2>4. QED
    BY <1>0, <2>1, <2>3, CommitStep, TableUnchanged
<1>14. ASSUME NEW p \in Proc, NEW t \in Sid, Rotate(p, t) PROVE Inv'
  <2>1. Leave(p, "done") /\ told' = told /\ req[p].op = "refresh" /\ req[p].pc = "read"
    BY <1>14 DEF Rotate, Deciding
  <2>2. req'[p].pc = "done" /\ req'[p].op = "refresh"
    BY <1>0, <2>1, LeaveStep
  <2>3. RequestInv(p)'
    BY <2>2 DEF RequestInv, HoldsLock, ReadIsCurrent,
         ReadIsComplete, ListedIsHandled, CommittedEnds
  <2>4. TableInv' /\ NothingRevives
        /\ \A x \in Stored' : \/ row'[x].family = req[p].fam
                              \/ x \in Stored /\ row'[x] = row[x]
    BY <1>0, <1>14, TableRotated DEF RequestInv
  <2>5. req[p].fam \in Family /\ lock[req[p].fam] = p
    BY <1>0, <2>1 DEF RequestInv, HoldsLock
  <2>6. QED
    BY <1>0, <2>1, <2>3, <2>4, <2>5, CommitStep
<1>15. ASSUME NEW p \in Proc, TolerateReplay(p) PROVE Inv'
  <2>1. /\ Leave(p, "done") /\ told' = told /\ req[p].op = "refresh"
        /\ req[p].pc = "read" /\ req[p].sid \in Stored
    BY <1>15 DEF TolerateReplay, Deciding
  <2>2. req'[p].pc = "done" /\ req'[p].op = "refresh"
    BY <1>0, <2>1, LeaveStep
  <2>3. RequestInv(p)'
    BY <2>2 DEF RequestInv, HoldsLock, ReadIsCurrent,
         ReadIsComplete, ListedIsHandled, CommittedEnds
  <2>4. /\ TableInv' /\ NothingRevives /\ Stored' = Stored
        /\ \A x \in Stored \ {req[p].sid} : row'[x] = row[x]
    BY <1>0, <1>15, TableTolerated
  <2>5. req[p].fam \in Family /\ lock[req[p].fam] = p /\ req[p].sid \in issued[req[p].fam]
    BY <1>0, <2>1 DEF RequestInv, HoldsLock, ReadIsCurrent
  <2>6. row'[req[p].sid].family \in Family /\ issued' = issued
    BY <1>0, <1>15, <2>1, <2>4 DEF TypeOK, IsTable, Row, TolerateReplay
  <2>7. row'[req[p].sid].family = req[p].fam
    BY <2>1, <2>4, <2>5, <2>6 DEF TableInv, IdsBelong
  <2>8. QED
    BY <1>0, <2>1, <2>3, <2>4, <2>5, <2>7, CommitStep
<1>16. ASSUME NEW p \in Proc, NEW S, row' = Revoked(S), S \subseteq issued[req[p].fam],
              \A s \in Rows(req[p].fam) : row[s].revoked \/ s \in S,
              req[p].pc = "read", Leave(p, "notify"), UNCHANGED <<issued, told>>
       PROVE  Inv'
  <2>1. PICK f \in Family : f = req[p].fam
    BY <1>0, <1>16 DEF RequestInv, HoldsLock
  <2>0. issued[f] # {} /\ lock[f] = p
    BY <1>0, <1>16, <2>1 DEF RequestInv, HoldsLock
  <2>2. TableInv' /\ NothingRevives /\ Ended(f)'
    BY <1>0, <1>16, <2>0, <2>1, TableRevoked
  <2>3. /\ req'[p].pc = "notify" /\ req'[p].op = req[p].op /\ req'[p].fam = req[p].fam
        /\ req'[p].todo = req[p].todo /\ req'[p].listed = req[p].listed
        /\ req[p].listed \subseteq Family
    BY <1>0, <1>16, LeaveStep DEF TypeOK, IsRequest
  <2>5. RequestInv(p)'
    <3>1. HoldsLock(p)' /\ ReadIsCurrent(p)' /\ ReadIsComplete(p)'
      BY <1>16, <2>0, <2>1, <2>3 DEF HoldsLock, ReadIsCurrent, ReadIsComplete
    <3>2. CommittedEnds(p)'
      BY <2>1, <2>2, <2>3 DEF CommittedEnds, Ended, Rows
    <3>3. ListedIsHandled(p)'
      BY <1>0, <1>16, <2>1, <2>2, <2>3 DEF RequestInv, ListedIsHandled, NothingRevives
    <3>4. QED
      BY <3>1, <3>2, <3>3 DEF RequestInv
  <2>6. \A s \in Stored' : \/ row'[s].family = req[p].fam
                           \/ s \in Stored /\ row'[s] = row[s]
    <3>1. Stored' = Stored /\ \A s \in Stored : s \notin S => row'[s] = row[s]
      BY <1>0, <1>16, RevokedIsTable DEF TypeOK
    <3>2. \A s \in Stored' : row'[s].family \in Family
      BY <1>0 DEF TypeOK, IsTable, Row
    <3>3. \A s \in Stored' : s \in S => row'[s].family = req[p].fam
      BY <1>16, <2>1, <2>2, <3>2 DEF TableInv, IdsBelong
    <3>4. QED
      BY <3>1, <3>3
  <2>7. QED
    BY <1>0, <1>16, <2>0, <2>1, <2>2, <2>5, <2>6, CommitStep
<1>17. ASSUME NEW p \in Proc, LoseUser(p) \/ PunishReplay(p) PROVE Inv'
  <2>1. Rows(req[p].fam) \subseteq issued[req[p].fam]
    BY <1>0 DEF Rows, TableInv, IdsBelong
  <2>2. QED
    BY <1>16, <1>17, <2>1 DEF LoseUser, PunishReplay, Deciding
<1>18. ASSUME NEW p \in Proc, RevokeFamily(p) PROVE Inv'
  BY <1>0, <1>16, <1>18 DEF RevokeFamily, RequestInv, ReadIsComplete
<1>19. CASE UNCHANGED vars
  BY <1>0, <1>19, TableUnchanged, EnvironmentStep DEF vars
<1>20. QED
  BY <1>1, <1>2, <1>3, <1>4, <1>5, <1>6, <1>7, <1>8, <1>9, <1>10, <1>11, <1>12,
     <1>13, <1>14, <1>15, <1>17, <1>18, <1>19
     DEF Next, Environment, Begin, Step, RemoveUser, PruneSessions

LEMMA InvInit == Init => Inv
<1> SUFFICES ASSUME Init PROVE Inv
  OBVIOUS
<1>1. TypeOK
  BY NoRowsIsTable, IdleIsRequest DEF Init, TypeOK
<1>2. TableInv /\ AnnouncedAfterCommit
  BY NoRowsIsTable DEF Init, TableInv, IdsBelong, RotatedHasChild, FamilyEndsWhole,
       OneCurrentToken, AnnouncedAfterCommit
<1>3. \A p \in Proc : req[p].pc = "idle" /\ req[p].op = "none"
  BY DEF Init, Idle
<1>4. \A p \in Proc : RequestInv(p)
  BY <1>3 DEF RequestInv, HoldsLock, ReadIsCurrent, ReadIsComplete,
       ListedIsHandled, CommittedEnds
<1>5. QED
  BY <1>1, <1>2, <1>4 DEF Inv

\* The inductive invariant holds throughout, for any number of logins,
\* requests and server instances (auth.service.ts:245-470).
THEOREM Invariance == Spec => []IInv
<1>1. Init => IInv
  BY InvInit, InvIsIInv
<1>2. IInv /\ [Next]_vars => IInv'
  <2>1. Inv <=> IInv
    BY InvIsIInv
  <2>2. Inv' => IInv'
    BY DEF Inv, IInv, TableInv, RequestInv
  <2>3. QED
    BY <2>1, <2>2, InvStep
<1>3. QED
  BY <1>1, <1>2, PTL DEF Spec

\* Rows, locks and requests keep their types.
THEOREM TypeCorrect == Spec => []TypeOK
<1>1. IInv => TypeOK
  BY DEF IInv
<1>2. QED
  BY <1>1, Invariance, PTL

\* Revocation is all or nothing: no refresh that races a logout leaves a row
\* of the family unrevoked (auth.service.ts:67-68).
THEOREM FamiliesEndWhole == Spec => []FamilyEndsWhole
<1>1. IInv => FamilyEndsWhole
  BY DEF IInv
<1>2. QED
  BY <1>1, Invariance, PTL

\* A login never has two unused refresh tokens (auth.service.ts:340-352).
THEOREM TokensAreSingle == Spec => []OneCurrentToken
<1>1. IInv => OneCurrentToken
  BY DEF IInv
<1>2. QED
  BY <1>1, Invariance, PTL

\* Once a logout, a detected reuse or a missing account has committed, no token
\* of the login is accepted any more (auth.service.ts:62-74, 517-548).
THEOREM RevocationHolds == Spec => []RevocationTakesHold
<1>1. IInv => RevocationTakesHold
  <2> SUFFICES ASSUME IInv, NEW p \in Proc,
                      \/ req[p].pc = "notify"
                      \/ req[p].op = "logout" /\ req[p].pc = "done",
                      NEW s \in issued[req[p].fam]
               PROVE  Ended(req[p].fam) /\ ~Authenticates(s)
    BY DEF RevocationTakesHold, IInv, CommittedEnds
  <2>1. req[p].fam \in Family /\ Ended(req[p].fam)
    BY DEF IInv, CommittedEnds
  <2>2. ASSUME s \in Stored PROVE row[s].revoked
    <3>1. row[s].family \in Family
      BY <2>2 DEF IInv, TypeOK, IsTable, Row
    <3>2. row[s].family = req[p].fam
      BY <2>1, <2>2, <3>1 DEF IInv, IdsBelong
    <3>3. QED
      BY <2>1, <2>2, <3>2 DEF Ended, Rows
  <2>3. QED
    BY <2>1, <2>2 DEF Authenticates
<1>2. QED
  BY <1>1, Invariance, PTL

\* When logoutAll answers, every login it listed is over (auth.service.ts:455-470).
THEOREM ListedEnd == Spec => []LogoutAllEndsListed
<1>1. IInv => LogoutAllEndsListed
  BY DEF IInv, ListedIsHandled, LogoutAllEndsListed
<1>2. QED
  BY <1>1, Invariance, PTL

\* Listeners only hear of committed revocations (auth.service.ts:711-712).
THEOREM AnnouncementsAreTrue == Spec => []AnnouncedAfterCommit
<1>1. IInv => AnnouncedAfterCommit
  BY DEF IInv
<1>2. QED
  BY <1>1, Invariance, PTL

-----------------------------------------------------------------------------
(* Steps: tokens are exchanged once, and logins live as LoginFamilies has it *)

\* What a step may do to the table: nothing, delete, revoke, count a replay,
\* start a family or rotate.
LEMMA TableSteps ==
  ASSUME Inv, [Next]_vars
  PROVE  \/ UNCHANGED <<row, issued>>
         \/ issued' = issued /\ \E S : row' = Delete(S)
         \/ issued' = issued /\ \E S : row' = Revoked(S)
         \/ \E p \in Proc : TolerateReplay(p)
         \/ \E u \in User, f \in Family, s \in Sid, c \in Ctx \cup {None} :
               StartSession(u, f, s, c)
         \/ \E p \in Proc, t \in Sid : Rotate(p, t)
<1>1. CASE Environment
  BY <1>1 DEF Environment, Tick, RemoveUser, PruneSessions
<1>2. ASSUME NEW p \in Proc, Begin(p) \/ Fail(p) PROVE UNCHANGED <<row, issued>>
  BY <1>2 DEF Begin, BeginRefresh, BeginLogout, BeginLogoutAll, Fail
<1>3. ASSUME NEW p \in Proc, Step(p)
      PROVE  \/ UNCHANGED <<row, issued>>
             \/ issued' = issued /\ \E S : row' = Revoked(S)
             \/ TolerateReplay(p)
             \/ \E t \in Sid : Rotate(p, t)
  BY <1>3 DEF Step, LockFamily, ReadSession, RefuseSession, LoseClaim, LoseUser,
       MissReplay, PunishReplay, NextFamily, ReadFamily, RevokeFamily, Notify, Respond
<1>4. CASE UNCHANGED vars
  BY <1>4 DEF vars
<1>5. QED
  BY <1>1, <1>2, <1>3, <1>4 DEF Next

\* A token is exchanged at most once, whatever is replayed (auth.service.ts:340-352).
THEOREM PaysOnce == Spec => TokenPaysOnce
<1>1. Inv /\ [Next]_vars => [\A s \in Stored : row[s].child # None /\ s \in Stored'
                                => row'[s].child = row[s].child]_vars
  <2> SUFFICES ASSUME Inv, [Next]_vars, NEW s \in Stored, row[s].child # None, s \in Stored'
               PROVE  row'[s].child = row[s].child
    OBVIOUS
  <2>0. TypeOK /\ TableInv /\ s \in Sid
    BY DEF Inv, TypeOK, IsTable
  <2>1. CASE UNCHANGED <<row, issued>>
    BY <2>1
  <2>2. ASSUME NEW S, row' = Delete(S) PROVE row'[s].child = row[s].child
    BY <2>2 DEF Delete
  <2>3. ASSUME NEW S, row' = Revoked(S) PROVE row'[s].child = row[s].child
    BY <2>0, <2>3, RevokedIsTable DEF TypeOK
  <2>4. ASSUME NEW p \in Proc, TolerateReplay(p) PROVE row'[s].child = row[s].child
    BY <2>0, <2>4 DEF TolerateReplay, TypeOK, IsTable, Row
  <2>5. ASSUME NEW u \in User, NEW f \in Family, NEW t \in Sid, NEW c \in Ctx \cup {None},
               StartSession(u, f, t, c)
        PROVE  row'[s].child = row[s].child
    <3>1. t # s
      BY <2>0, <2>5 DEF StartSession, Issued, TableInv, IdsBelong, TypeOK, IsTable, Row
    <3>2. QED
      BY <2>5, <3>1 DEF StartSession, Insert
  <2>6. ASSUME NEW p \in Proc, NEW t \in Sid, Rotate(p, t)
        PROVE  row'[s].child = row[s].child
    <3>1. row[req[p].sid].rotatedAt = Never /\ req[p].sid \in Stored
      BY <2>6 DEF Rotate, Claimable
    <3>2. s # req[p].sid
      BY <2>0, <3>1 DEF TableInv, RotatedHasChild
    <3>3. ReadIsCurrent(p) /\ HoldsLock(p)
      BY DEF Inv, RequestInv
    <3>4. t \notin Stored /\ \A x \in Stored' : x \notin {req[p].sid, t} => row'[x] = row[x]
      BY <2>0, <2>6, <3>3, TableRotated
    <3>5. QED
      BY <3>2, <3>4
  <2>7. QED
    BY <2>1, <2>2, <2>3, <2>4, <2>5, <2>6, TableSteps
<1>2. IInv => Inv
  BY InvIsIInv
<1>3. QED
  BY <1>1, <1>2, Invariance, PTL DEF Spec, TokenPaysOnce

\* A step that issues nothing and revives nothing ends some logins, or none.
LEMMA EndsOrStutters ==
  ASSUME TypeOK, NothingRevives, issued' = issued
  PROVE  [Login!Next]_(Login!vars)
<1> DEFINE F == {f \in Family : issued[f] # {} /\ ~Ended(f) /\ Ended(f)'}
<1>1. \A f \in Family : LoginStatus'[f] = IF f \in F THEN "ended" ELSE LoginStatus[f]
  BY DEF LoginStatus, NothingRevives, Ended
<1>2. CASE F = {}
  <2>1. LoginStatus' = LoginStatus
    BY <1>1, <1>2 DEF LoginStatus
  <2>2. QED
    BY <2>1 DEF Login!vars
<1>3. CASE F # {}
  <2>1. LoginStatus' = [f \in Family |-> IF f \in F THEN "ended" ELSE LoginStatus[f]]
    BY <1>1 DEF LoginStatus
  <2>2. F \subseteq {f \in Family : LoginStatus[f] = "live"}
    BY DEF LoginStatus
  <2>3. Login!End(F)
    BY <1>3, <2>1, <2>2 DEF Login!End
  <2>4. QED
    BY <2>3 DEF Login!Next
<1>4. QED
  BY <1>2, <1>3

LEMMA StartBegins ==
  ASSUME Inv, NEW u \in User, NEW f \in Family, NEW s \in Sid, NEW c \in Ctx \cup {None},
         StartSession(u, f, s, c)
  PROVE  Login!Begin(f, s)
<1>0. TypeOK /\ TableInv
  BY DEF Inv
<1> DEFINE new == NewRow(u, f, c)
<1>1. new.family = f /\ ~new.revoked
  BY <1>0, NewRowTyped
<1> HIDE DEF new
<1>2. /\ Stored' = Stored \cup {s} /\ row'[s] = new /\ s \notin Issued
      /\ \A x \in Stored \ {s} : row'[x] = row[x]
      /\ issued[f] = {} /\ issued' = [issued EXCEPT ![f] = {s}]
  BY DEF StartSession, Insert, new
<1>3. s \notin Stored
  BY <1>0, <1>2 DEF Issued, TableInv, IdsBelong, TypeOK, IsTable, Row
<1>4. \A g \in Family \ {f} : issued'[g] = issued[g] /\ (Ended(g)' <=> Ended(g))
  BY <1>0, <1>1, <1>2, <1>3 DEF Ended, Rows, TypeOK
<1>5. issued'[f] = {s} /\ ~Ended(f)'
  BY <1>0, <1>1, <1>2 DEF Ended, Rows, TypeOK
<1>6. LoginStatus[f] = "unused" /\ LoginStatus' = [LoginStatus EXCEPT ![f] = "live"]
  <2>1. LoginStatus[f] = "unused"
    BY <1>2 DEF LoginStatus, Ended
  <2>2. LoginStatus'[f] = "live"
    BY <1>5 DEF LoginStatus
  <2>3. \A g \in Family \ {f} : LoginStatus'[g] = LoginStatus[g]
    BY <1>4 DEF LoginStatus
  <2>4. /\ LoginStatus = [g \in Family |-> LoginStatus[g]]
        /\ LoginStatus' = [g \in Family |-> LoginStatus'[g]]
    BY DEF LoginStatus
  <2> HIDE DEF LoginStatus
  <2>5. QED
    BY <2>1, <2>2, <2>3, <2>4
<1>7. QED
  BY <1>2, <1>6 DEF Login!Begin, Login!Used, Issued

LEMMA RotateRenews ==
  ASSUME Inv, NEW p \in Proc, NEW t \in Sid, Rotate(p, t)
  PROVE  Login!Renew(req[p].fam, t) /\ req[p].fam \in Family
<1>0. TypeOK /\ TableInv /\ ReadIsCurrent(p) /\ HoldsLock(p)
  BY DEF Inv, RequestInv
<1> DEFINE s == req[p].sid
<1>a. PICK f \in Family : f = req[p].fam
  BY <1>0 DEF Rotate, Deciding, HoldsLock
<1>1. /\ f \in Family /\ issued[f] # {} /\ s \in issued[f] /\ s \in Stored
      /\ ~row[s].revoked /\ row[s].family \in Family
  BY <1>0, <1>a DEF Rotate, Deciding, Claimable, ReadIsCurrent, HoldsLock, TypeOK, IsTable, Row
<1>2. row[s].family = f
  BY <1>0, <1>1 DEF TableInv, IdsBelong
<1>3. issued' = [issued EXCEPT ![f] = @ \cup {t}] /\ t \notin Issued
  BY <1>a DEF Rotate
<1>4. /\ NothingRevives
      /\ \A x \in Stored' : x \notin {s, t} => x \in Stored /\ row'[x] = row[x]
      /\ \A x \in Stored' : x \in {s, t} => row'[x].family = f
  BY <1>0, <1>a, TableRotated
<1>5. Stored' = Stored \cup {t} /\ row'[t] = NewRow(Seen(p).user, f, req[p].ctx)
  BY <1>1, <1>a DEF Rotate, Insert
<1>6. ~row'[t].revoked /\ row'[t].family = f
  BY <1>5 DEF NewRow
<1>7. ~Ended(f) /\ ~Ended(f)'
  <2>1. ~Ended(f)
    BY <1>1, <1>2 DEF Ended, Rows
  <2>2. ~Ended(f)'
    BY <1>5, <1>6 DEF Ended, Rows
  <2>3. QED
    BY <2>1, <2>2
<1>8. \A g \in Family \ {f} : issued'[g] = issued[g] /\ (Ended(g)' <=> Ended(g))
  <2> SUFFICES ASSUME NEW g \in Family \ {f}
               PROVE  issued'[g] = issued[g] /\ (Ended(g)' <=> Ended(g))
    OBVIOUS
  <2>1. issued'[g] = issued[g]
    BY <1>0, <1>3 DEF TypeOK
  <2>2. \A x \in Stored : x \notin {s, t} => x \in Stored' /\ row'[x] = row[x]
    BY <1>4, <1>5
  <2>3. t \notin Stored
    BY <1>0, <1>3 DEF Issued, TableInv, IdsBelong, TypeOK, IsTable, Row
  <2>4. \A x \in Stored : x \in {s, t} => row[x].family = f
    BY <1>2, <2>3
  <2>5. QED
    BY <1>4, <2>1, <2>2, <2>4 DEF Ended, Rows
<1>9. LoginStatus[f] = "live" /\ LoginStatus' = LoginStatus
  <2>1. issued'[f] # {}
    BY <1>0, <1>1, <1>3 DEF TypeOK
  <2>2. LoginStatus[f] = "live" /\ LoginStatus'[f] = "live"
    BY <1>1, <1>7, <2>1 DEF LoginStatus
  <2>3. \A g \in Family \ {f} : LoginStatus'[g] = LoginStatus[g]
    BY <1>8 DEF LoginStatus
  <2>4. /\ LoginStatus = [g \in Family |-> LoginStatus[g]]
        /\ LoginStatus' = [g \in Family |-> LoginStatus'[g]]
    BY DEF LoginStatus
  <2> HIDE DEF LoginStatus
  <2>5. QED
    BY <2>2, <2>3, <2>4
<1>10. QED
  BY <1>1, <1>3, <1>9, <1>a DEF Login!Renew, Login!Used, Issued

\* Sessions implement the abstract life of a login: it begins once, is renewed
\* only while it is live, and never comes back once it has ended.
THEOREM LoginsImplemented == Spec => LoginsEndForGood
<1>1. Init => Login!Init
  <2> SUFFICES ASSUME Init PROVE Login!Init
    OBVIOUS
  <2>1. \A f \in Family : issued[f] = {}
    BY DEF Init
  <2>2. LoginStatus = [f \in Family |-> "unused"]
    BY <2>1 DEF LoginStatus, Ended
  <2>3. QED
    BY <2>2 DEF Login!Init, Init
<1>2. Inv /\ [Next]_vars => [Login!Next]_(Login!vars)
  <2> SUFFICES ASSUME Inv, [Next]_vars PROVE [Login!Next]_(Login!vars)
    OBVIOUS
  <2>0. TypeOK /\ TableInv
    BY DEF Inv
  <2>1. CASE UNCHANGED <<row, issued>>
    BY <2>1 DEF Login!vars, LoginStatus, Ended, Rows
  <2>2. ASSUME issued' = issued, NEW S, row' = Delete(S)
        PROVE  [Login!Next]_(Login!vars)
    <3>1. NothingRevives
      BY <2>2, <2>0, TableDeleted
    <3>2. QED
      BY <2>0, <2>2, <3>1, EndsOrStutters
  <2>3. ASSUME issued' = issued, NEW S, row' = Revoked(S)
        PROVE  [Login!Next]_(Login!vars)
    <3>1. /\ Stored' = Stored
          /\ \A x \in Stored : /\ row'[x].family = row[x].family
                               /\ row[x].revoked => row'[x].revoked
      BY <2>0, <2>3, RevokedIsTable DEF TypeOK
    <3>2. NothingRevives
      BY <2>3, <3>1 DEF NothingRevives, Ended, Rows
    <3>3. QED
      BY <2>0, <2>3, <3>2, EndsOrStutters
  <2>4. ASSUME NEW p \in Proc, TolerateReplay(p) PROVE [Login!Next]_(Login!vars)
    <3>1. NothingRevives /\ issued' = issued
      BY <2>0, <2>4, TableTolerated DEF TolerateReplay
    <3>2. QED
      BY <2>0, <3>1, EndsOrStutters
  <2>5. ASSUME NEW u \in User, NEW f \in Family, NEW s \in Sid, NEW c \in Ctx \cup {None},
               StartSession(u, f, s, c)
        PROVE  [Login!Next]_(Login!vars)
    <3>1. Login!Begin(f, s)
      BY <2>5, StartBegins
    <3>2. QED
      BY <3>1 DEF Login!Next
  <2>6. ASSUME NEW p \in Proc, NEW t \in Sid, Rotate(p, t)
        PROVE  [Login!Next]_(Login!vars)
    <3>1. Login!Renew(req[p].fam, t) /\ req[p].fam \in Family
      BY <2>6, RotateRenews
    <3>2. QED
      BY <3>1 DEF Login!Next
  <2>7. QED
    BY <2>1, <2>2, <2>3, <2>4, <2>5, <2>6, TableSteps
<1>3. IInv => Inv
  BY InvIsIInv
<1>4. QED
  BY <1>1, <1>2, <1>3, Invariance, PTL DEF Spec, Login!Spec, LoginsEndForGood
=============================================================================
