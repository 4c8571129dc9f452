--------------------------- MODULE SessionRotation ---------------------------
(***************************************************************************)
(* Refresh-token sessions of the authentication service (auth.service.ts). *)
(* One Session row per refresh token, rows grouped in families (a login).  *)
(* Requests run concurrently on any number of server instances; a refresh  *)
(* or a revocation is a database transaction under the family's advisory   *)
(* lock, read-committed: its reads happen when the statement runs, its     *)
(* writes appear when it commits.  Each request is a process with a        *)
(* program counter:                                                        *)
(*                                                                         *)
(*   idle -> wait -> locked -> read -> (notify ->) done -> idle            *)
(*           the lock   the rows   the commit   revocation listeners       *)
(*                                                                         *)
(* Any active request may fail instead (transaction timeout, crash): its   *)
(* transaction rolls back and its lock is released.                        *)
(***************************************************************************)
EXTENDS Integers, FiniteSets

CONSTANTS Sid,         \* session ids; the id stands for its refresh token
          Family,      \* login families
          Proc,        \* requests in flight
          User,        \* accounts
          Ctx,         \* client contexts (user agent and ip)
          None,        \* a null column
          TTL,         \* life of a refresh token
          Grace,       \* REFRESH_REUSE_GRACE_SECONDS
          MaxRaceHits, \* AuthService.MAX_RACE_HITS
          MaxTime      \* bound on the clock, for model checking

ASSUME NoneAssumption == None \notin Sid \cup Family \cup Proc \cup User \cup Ctx
ASSUME TimeAssumption == /\ TTL \in Nat \ {0}
                         /\ Grace \in Nat
                         /\ MaxRaceHits \in Nat
                         /\ MaxTime \in Nat

VARIABLES now,      \* the clock all instances share
          users,    \* accounts that exist
          row,      \* the Session table: a function on the ids stored in it
          issued,   \* issued[f]: ids ever inserted in family f, pruned ones too
          lock,     \* lock[f]: the request whose transaction holds f's lock
          req,      \* req[p]: the state of request p
          told      \* families whose revocation the listeners were told of

vars == <<now, users, row, issued, lock, req, told>>

Never == -1         \* rotatedAt IS NULL

Row == [user : User, family : Family, expires : Nat, ctx : Ctx \cup {None},
        rotatedAt : Nat \cup {Never}, child : Sid \cup {None},
        hits : 0..MaxRaceHits, revoked : BOOLEAN]

IsTable(t) == DOMAIN t \subseteq Sid /\ t \in [DOMAIN t -> Row]

Stored == DOMAIN row
Issued == UNION {issued[f] : f \in Family}
Rows(f) == {s \in Stored : row[s].family = f}

IsRequest(r) ==
    /\ r \in [pc : {"idle", "wait", "locked", "read", "notify", "next", "done",
                    "failed"},
              op : {"none", "refresh", "logout", "logoutAll"},
              fam : Family \cup {None}, sid : Sid \cup {None},
              ctx : Ctx \cup {None},
              seen : {r.seen},          \* the rows the transaction has read
              at : Nat,                 \* the `now` captured with them
              todo : SUBSET Family,     \* logoutAll: families still to revoke
              listed : SUBSET Family,   \* logoutAll: the families it listed
              known : SUBSET Family]    \* ghost: all of the user's families
    /\ IsTable(r.seen)

NoRows == [s \in {} |-> None]

Idle == [pc |-> "idle", op |-> "none", fam |-> None, sid |-> None, ctx |-> None,
         seen |-> NoRows, at |-> 0, todo |-> {}, listed |-> {}, known |-> {}]

TypeOK == /\ now \in Nat
          /\ users \subseteq User
          /\ IsTable(row)
          /\ issued \in [Family -> SUBSET Sid]
          /\ lock \in [Family -> Proc \cup {None}]
          /\ req = [p \in Proc |-> req[p]]
          /\ \A p \in Proc : IsRequest(req[p])
          /\ told \subseteq Family

Init == /\ now = 0
        /\ users = User
        /\ row = NoRows
        /\ issued = [f \in Family |-> {}]
        /\ lock = [f \in Family |-> None]
        /\ req = [p \in Proc |-> Idle]
        /\ told = {}

-----------------------------------------------------------------------------
(* Reading the table *)

\* A login is over when no row of it is left unrevoked.
Ended(f) == issued[f] # {} /\ \A s \in Rows(f) : row[s].revoked

\* resolveSession: what lets an access token of session s in.
Authenticates(s) == /\ s \in Stored
                    /\ ~row[s].revoked
                    /\ row[s].expires > now
                    /\ row[s].user \in users

\* contextMismatch: a missing value on either side is unknown, not a mismatch.
Mismatch(a, b) == a # None /\ b # None /\ a # b

Refreshing == {p \in Proc : req[p].op = "refresh" /\ req[p].pc \notin {"done", "failed"}}

\* Bound: ids are finite, so a refresh or login starts only with an id to spare.
IdToSpare == Cardinality(Sid \ Issued) > Cardinality(Refreshing)

-----------------------------------------------------------------------------
(* Writing the table *)

NewRow(u, f, c) == [user |-> u, family |-> f, expires |-> now + TTL, ctx |-> c,
                    rotatedAt |-> Never, child |-> None, hits |-> 0,
                    revoked |-> FALSE]

\* issueSession: a row under an id no one has had.
Insert(table, s, r) == [x \in DOMAIN table \cup {s} |->
                           IF x = s THEN r ELSE table[x]]

Delete(S) == [x \in Stored \ S |-> row[x]]

Revoked(S) == [x \in Stored |-> IF x \in S THEN [row[x] EXCEPT !.revoked = TRUE]
                                           ELSE row[x]]

-----------------------------------------------------------------------------
(* Logins, the clock, accounts, the sweep *)

\* register, login and googleLogin all end in startSession: a new family.
\* Seeded bug: a login may land in a family that was used before.
StartInOldFamily(u, f, s, c) ==
    /\ u \in users
    /\ IdToSpare
    /\ s \in Sid \ Issued
    /\ row' = Insert(row, s, NewRow(u, f, c))
    /\ issued' = [issued EXCEPT ![f] = @ \cup {s}]
    /\ UNCHANGED <<now, users, lock, req, told>>
StartSession(u, f, s, c) ==
    /\ u \in users
    /\ IdToSpare
    /\ issued[f] = {}
    /\ s \in Sid \ Issued
    /\ row' = Insert(row, s, NewRow(u, f, c))
    /\ issued' = [issued EXCEPT ![f] = {s}]
    /\ UNCHANGED <<now, users, lock, req, told>>

Tick == /\ now < MaxTime
        /\ now' = now + 1
        /\ UNCHANGED <<users, row, issued, lock, req, told>>

\* An account is deleted outside this service; its rows cascade.
RemoveUser(u) ==
    /\ u \in users
    /\ users' = users \ {u}
    /\ row' = Delete({s \in Stored : row[s].user = u})
    /\ UNCHANGED <<now, issued, lock, req, told>>

Expired == {s \in Stored : row[s].expires < now}

\* pruneSessions: oldest first and in batches, so a pass may stop anywhere.
PruneSessions(S) ==
    /\ S \subseteq Expired
    /\ S # {}
    /\ \A s \in S, t \in Expired \ S : row[s].expires <= row[t].expires
    /\ row' = Delete(S)
    /\ UNCHANGED <<now, users, issued, lock, req, told>>

-----------------------------------------------------------------------------
(* The transaction every refresh and revocation runs in *)

\* Seeded bug: the transaction does not wait for the family's lock.
LockIgnored(f) == TRUE
LockFree(f) == lock[f] = None

LockFamily(p) ==
    /\ req[p].pc = "wait"
    /\ LockFree(req[p].fam)
    /\ lock' = [lock EXCEPT ![req[p].fam] = p]
    /\ req' = [req EXCEPT ![p].pc = "locked"]
    /\ UNCHANGED <<now, users, row, issued, told>>

Release(p) == [f \in Family |-> IF lock[f] = p THEN None ELSE lock[f]]

\* The transaction of p commits: its lock goes, and p moves on to pc.
Leave(p, pc) ==
    /\ lock' = Release(p)
    /\ req' = [req EXCEPT ![p].pc = pc, ![p].seen = NoRows, ![p].at = 0]

\* A timeout, a lost connection or a crash: nothing was written.
Fail(p) ==
    /\ req[p].pc \in {"wait", "locked", "read", "notify", "next"}
    /\ Leave(p, "failed")
    /\ UNCHANGED <<now, users, row, issued, told>>

Respond(p) ==
    /\ req[p].pc \in {"done", "failed"}
    /\ req' = [req EXCEPT ![p] = Idle]
    /\ UNCHANGED <<now, users, row, issued, lock, told>>

\* notifyRevoked, after the commit; logoutAll goes on to its next family.
\* Seeded bug: logoutAll answers after the first family it revoked.
NotifyAndStop(p) ==
    /\ req[p].pc = "notify"
    /\ told' = told \cup {req[p].fam}
    /\ req' = [req EXCEPT ![p].pc = "done"]
    /\ UNCHANGED <<now, users, row, issued, lock>>
Notify(p) ==
    /\ req[p].pc = "notify"
    /\ told' = told \cup {req[p].fam}
    /\ req' = [req EXCEPT ![p].pc = IF req[p].op = "logoutAll" THEN "next"
                                                               ELSE "done"]
    /\ UNCHANGED <<now, users, row, issued, lock>>

-----------------------------------------------------------------------------
(* Refresh *)

\* refreshToken: the token is genuine and unexpired, and the unlocked probe
\* finds its row.  Tokens are replayed at will, so any issued id may be shown.
BeginRefresh(p, s, c) ==
    /\ req[p].pc = "idle"
    /\ IdToSpare
    /\ s \in Stored
    /\ row[s].expires > now
    /\ req' = [req EXCEPT ![p] = [Idle EXCEPT !.pc = "wait", !.op = "refresh",
                 !.fam = row[s].family, !.sid = s, !.ctx = c]]
    /\ UNCHANGED <<now, users, row, issued, lock, told>>

Rotatable(s) == s \in Stored /\ ~row[s].revoked /\ row[s].expires > now

\* rotate, first half: re-read the row under the lock.
ReadSession(p) ==
    /\ req[p].pc = "locked"
    /\ req[p].op = "refresh"
    /\ Rotatable(req[p].sid)
    /\ req' = [req EXCEPT ![p].pc = "read", ![p].at = now,
                          ![p].seen = [s \in {req[p].sid} |-> row[s]]]
    /\ UNCHANGED <<now, users, row, issued, lock, told>>

\* The row is gone, revoked or expired: the transaction ends empty-handed.
\* Seeded bug: a refused refresh leaves its transaction open.
RefuseAndHold(p) ==
    /\ req[p].pc = "locked"
    /\ req[p].op = "refresh"
    /\ ~Rotatable(req[p].sid)
    /\ req' = [req EXCEPT ![p].pc = "done"]
    /\ UNCHANGED <<now, users, row, issued, lock, told>>
RefuseSession(p) ==
    /\ req[p].pc = "locked"
    /\ req[p].op = "refresh"
    /\ ~Rotatable(req[p].sid)
    /\ Leave(p, "done")
    /\ UNCHANGED <<now, users, row, issued, told>>

Deciding(p) == req[p].pc = "read" /\ req[p].op = "refresh"
Seen(p) == req[p].seen[req[p].sid]
Claimed(p) == Seen(p).rotatedAt # Never

\* The conditional update that takes the token: it still has to be unrotated.
Claimable(s) == s \in Stored /\ row[s].rotatedAt = Never /\ ~row[s].revoked

\* Seeded bug: the token is linked to its replacement but not marked rotated.
Unspent(p, t) == [row[req[p].sid] EXCEPT !.child = t]
Spent(p, t) == [row[req[p].sid] EXCEPT !.rotatedAt = req[p].at, !.child = t]

\* rotate, second half: claim the token and issue its only replacement.
Rotate(p, t) ==
    /\ Deciding(p) /\ ~Claimed(p)
    /\ Seen(p).user \in users
    /\ Claimable(req[p].sid)
    /\ t \in Sid \ Issued
    /\ row' = Insert(Insert(row, req[p].sid, Spent(p, t)), t,
                     NewRow(Seen(p).user, req[p].fam, req[p].ctx))
    /\ issued' = [issued EXCEPT ![req[p].fam] = @ \cup {t}]
    /\ Leave(p, "done")
    /\ UNCHANGED <<now, users, told>>

\* The claim found nothing to update.
LoseClaim(p) ==
    /\ Deciding(p) /\ ~Claimed(p)
    /\ Seen(p).user \in users
    /\ ~Claimable(req[p].sid)
    /\ Leave(p, "done")
    /\ UNCHANGED <<now, users, row, issued, told>>

\* The account is gone: the family is revoked.
LoseUser(p) ==
    /\ Deciding(p) /\ ~Claimed(p)
    /\ Seen(p).user \notin users
    /\ row' = Revoked(Rows(req[p].fam))
    /\ Leave(p, "notify")
    /\ UNCHANGED <<now, users, issued, told>>

\* handleReplay: the only replays tolerated are recent, from the same client,
\* before the replacement was used, and few.
\* Seeded bug: the bound on replays is off by one.
TolerableOnceMore(p) ==
    LET r == Seen(p)
    IN /\ req[p].at - r.rotatedAt <= Grace
       /\ r.child \in Stored
       /\ row[r.child].rotatedAt = Never
       /\ ~row[r.child].revoked
       /\ r.hits <= MaxRaceHits
       /\ ~Mismatch(r.ctx, req[p].ctx)
Tolerable(p) ==
    LET r == Seen(p)
    IN /\ req[p].at - r.rotatedAt <= Grace
       /\ r.child \in Stored
       /\ row[r.child].rotatedAt = Never
       /\ ~row[r.child].revoked
       /\ r.hits < MaxRaceHits
       /\ ~Mismatch(r.ctx, req[p].ctx)

TolerateReplay(p) ==
    /\ Deciding(p) /\ Claimed(p)
    /\ Tolerable(p)
    /\ req[p].sid \in Stored
    /\ row' = [row EXCEPT ![req[p].sid].hits = @ + 1]
    /\ Leave(p, "done")
    /\ UNCHANGED <<now, users, issued, told>>

\* The row was pruned under the reader: counting the replay fails.
MissReplay(p) ==
    /\ Deciding(p) /\ Claimed(p)
    /\ Tolerable(p)
    /\ req[p].sid \notin Stored
    /\ Leave(p, "failed")
    /\ UNCHANGED <<now, users, row, issued, told>>

PunishReplay(p) ==
    /\ Deciding(p) /\ Claimed(p)
    /\ ~Tolerable(p)
    /\ row' = Revoked(Rows(req[p].fam))
    /\ Leave(p, "notify")
    /\ UNCHANGED <<now, users, issued, told>>

-----------------------------------------------------------------------------
(* Revocation: logout and logoutAll *)

\* logoutByRefreshToken, logoutSession and logoutByAccessToken: the row of the
\* token names the family, whatever became of the token since.
BeginLogout(p, s) ==
    /\ req[p].pc = "idle"
    /\ s \in Stored
    /\ req' = [req EXCEPT ![p] = [Idle EXCEPT !.pc = "wait", !.op = "logout",
                                              !.fam = row[s].family]]
    /\ UNCHANGED <<now, users, row, issued, lock, told>>

\* logoutAll lists the user's live families, outside any lock.
LiveFamilies(u) == {row[s].family : s \in {t \in Stored :
                       row[t].user = u /\ ~row[t].revoked /\ row[t].expires > now}}

BeginLogoutAll(p, u) ==
    /\ req[p].pc = "idle"
    /\ u \in users
    /\ req' = [req EXCEPT ![p] = [Idle EXCEPT !.pc = "next", !.op = "logoutAll",
                 !.todo = LiveFamilies(u), !.listed = LiveFamilies(u),
                 !.known = {row[s].family : s \in {t \in Stored : row[t].user = u}}]]
    /\ UNCHANGED <<now, users, row, issued, lock, told>>

NextFamily(p) ==
    /\ req[p].pc = "next"
    /\ \/ /\ req[p].todo = {}
          /\ req' = [req EXCEPT ![p].pc = "done", ![p].fam = None]
       \/ \E f \in req[p].todo :
             req' = [req EXCEPT ![p].pc = "wait", ![p].fam = f,
                                ![p].todo = @ \ {f}]
    /\ UNCHANGED <<now, users, row, issued, lock, told>>

\* revokeFamilyInTx: the update's snapshot holds the unrevoked rows of now.
\* Seeded bug: the listeners are told before the revocation commits.
ReadAndNotify(p) ==
    /\ req[p].pc = "locked"
    /\ req[p].op \in {"logout", "logoutAll"}
    /\ req' = [req EXCEPT ![p].pc = "read",
                 ![p].seen = [s \in {t \in Rows(req[p].fam) : ~row[t].revoked}
                                |-> row[s]]]
    /\ told' = told \cup {req[p].fam}
    /\ UNCHANGED <<now, users, row, issued, lock>>
ReadFamily(p) ==
    /\ req[p].pc = "locked"
    /\ req[p].op \in {"logout", "logoutAll"}
    /\ req' = [req EXCEPT ![p].pc = "read",
                 ![p].seen = [s \in {t \in Rows(req[p].fam) : ~row[t].revoked}
                                |-> row[s]]]
    /\ UNCHANGED <<now, users, row, issued, lock, told>>

RevokeFamily(p) ==
    /\ req[p].pc = "read"
    /\ req[p].op \in {"logout", "logoutAll"}
    /\ row' = Revoked(DOMAIN req[p].seen)
    /\ Leave(p, "notify")
    /\ UNCHANGED <<now, users, issued, told>>

-----------------------------------------------------------------------------
Begin(p) == \/ \E s \in Sid, c \in Ctx \cup {None} : BeginRefresh(p, s, c)
            \/ \E s \in Sid : BeginLogout(p, s)
            \/ \E u \in User : BeginLogoutAll(p, u)

\* The steps a running request takes by itself.
Step(p) == \/ LockFamily(p)
           \/ ReadSession(p) \/ RefuseSession(p)
           \/ \E t \in Sid : Rotate(p, t)
           \/ LoseClaim(p) \/ LoseUser(p)
           \/ TolerateReplay(p) \/ MissReplay(p) \/ PunishReplay(p)
           \/ NextFamily(p) \/ ReadFamily(p) \/ RevokeFamily(p)
           \/ Notify(p)
           \/ Respond(p)

Environment == \/ \E u \in User, f \in Family, s \in Sid, c \in Ctx \cup {None} :
                     StartSession(u, f, s, c)
               \/ Tick
               \/ \E u \in User : RemoveUser(u)
               \/ \E S \in SUBSET Sid : PruneSessions(S)

Next == \/ Environment
        \/ \E p \in Proc : Begin(p) \/ Step(p) \/ Fail(p)

Spec == Init /\ [][Next]_vars

\* A request that is running keeps running until it answers or fails.  Lock
\* waits are queued by the database, so a waiter is not overtaken for ever.
LiveSpec == Spec /\ \A p \in Proc : WF_vars(Step(p)) /\ SF_vars(LockFamily(p))

-----------------------------------------------------------------------------
(* Properties *)

\* A family is revoked as a whole: a refresh that runs beside a logout leaves
\* no row behind that the logout missed.
FamilyEndsWhole ==
    \A s, t \in Stored :
        row[s].family = row[t].family => (row[s].revoked <=> row[t].revoked)

\* However many refreshes race, at most one token of a login is still unused.
OneCurrentToken ==
    \A s, t \in Stored :
        /\ row[s].family = row[t].family
        /\ row[s].rotatedAt = Never
        /\ row[t].rotatedAt = Never
        => s = t

\* From the moment a logout, a detected reuse or a missing account has
\* committed, no token of the login works, and it stays so until the answer.
RevocationTakesHold ==
    \A p \in Proc :
        \/ req[p].pc = "notify"
        \/ req[p].op = "logout" /\ req[p].pc = "done"
        => /\ Ended(req[p].fam)
           /\ \A s \in issued[req[p].fam] : ~Authenticates(s)

\* When logoutAll answers, every login it listed is over, including those
\* that were refreshed between the listing and their turn.
LogoutAllEndsListed ==
    \A p \in Proc : req[p].op = "logoutAll" /\ req[p].pc = "done" =>
        \A f \in req[p].listed : Ended(f)

\* Listeners only ever hear of logins whose revocation was committed.
AnnouncedAfterCommit == \A f \in told : Ended(f)

\* A token is exchanged at most once: what replaced it never changes.
TokenPaysOnce ==
    [][\A s \in Stored : row[s].child # None /\ s \in Stored' =>
          row'[s].child = row[s].child]_vars

\* The rows, locks and requests implement the abstract life of a login.
LoginStatus == [f \in Family |-> CASE issued[f] = {} -> "unused"
                                   [] Ended(f) -> "ended"
                                   [] OTHER -> "live"]

Login == INSTANCE LoginFamilies
            WITH Token <- Sid, status <- LoginStatus, minted <- issued

LoginsEndForGood == Login!Spec

\* Every request is answered, or fails: no lock is left held for good.
RequestsFinish ==
    \A p \in Proc : req[p].pc = "wait" ~> req[p].pc \in {"done", "failed"}

-----------------------------------------------------------------------------
(* What a comment promises and the code does not keep: see the README *)

\* auth.service.ts:455 has logoutAll end every login of the user.  A login
\* whose only unexpired token lapses while its rotation is under way is not
\* listed, and the rotation then brings it back.
LogoutAllEndsEveryLogin ==
    \A p \in Proc : req[p].op = "logoutAll" /\ req[p].pc = "done" =>
        \A f \in req[p].known, s \in Sid : s \in Rows(f) => ~Authenticates(s)

-----------------------------------------------------------------------------
(* The inductive invariant behind the safety properties *)

\* Ids are never shared between families, and a row is filed under its own.
IdsBelong ==
    /\ \A f, g \in Family : f # g => issued[f] \cap issued[g] = {}
    /\ \A s \in Stored : s \in issued[row[s].family]

\* A row has a replacement exactly when it was rotated.
RotatedHasChild == \A s \in Stored : row[s].child # None => row[s].rotatedAt # Never

\* A request works on a family that was begun, and holds its lock while it has
\* a transaction open.
HoldsLock(p) ==
    /\ req[p].pc \in {"wait", "locked", "read", "notify"} =>
          req[p].fam \in Family /\ issued[req[p].fam] # {}
    /\ req[p].pc \in {"locked", "read"} => lock[req[p].fam] = p
    /\ req[p].pc = "next" => req[p].op = "logoutAll"

\* What a refresh read of its row is still what the row holds.
ReadIsCurrent(p) ==
    /\ req[p].op = "refresh" /\ req[p].pc \in {"wait", "locked", "read"} =>
          req[p].sid \in Sid /\ req[p].sid \in issued[req[p].fam]
    /\ req[p].op = "refresh" /\ req[p].pc = "read" =>
          /\ req[p].sid \in DOMAIN req[p].seen
          /\ req[p].sid \in Stored => row[req[p].sid] = Seen(p)

\* What a revocation read is every row of the family it has left to revoke.
ReadIsComplete(p) ==
    req[p].op \in {"logout", "logoutAll"} /\ req[p].pc = "read" =>
        /\ DOMAIN req[p].seen \subseteq issued[req[p].fam]
        /\ \A s \in Rows(req[p].fam) : row[s].revoked \/ s \in DOMAIN req[p].seen

\* logoutAll has ended what it listed, but for what is still to do.
ListedIsHandled(p) ==
    req[p].op = "logoutAll" /\ req[p].pc # "failed" =>
        /\ \A f \in req[p].listed : issued[f] # {}
        /\ req[p].todo \subseteq req[p].listed
        /\ req[p].pc = "done" => req[p].todo = {}
        /\ \A f \in req[p].listed :
              \/ f \in req[p].todo
              \/ f = req[p].fam /\ req[p].pc \in {"wait", "locked", "read"}
              \/ Ended(f)

CommittedEnds(p) ==
    req[p].pc = "notify" \/ (req[p].op = "logout" /\ req[p].pc = "done")
        => req[p].fam \in Family /\ Ended(req[p].fam)

IInv == /\ TypeOK
        /\ IdsBelong
        /\ RotatedHasChild
        /\ FamilyEndsWhole
        /\ OneCurrentToken
        /\ AnnouncedAfterCommit
        /\ \A p \in Proc : /\ HoldsLock(p)
                           /\ ReadIsCurrent(p)
                           /\ ReadIsComplete(p)
                           /\ ListedIsHandled(p)
                           /\ CommittedEnds(p)
=============================================================================
