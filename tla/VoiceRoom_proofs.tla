-------------------------- MODULE VoiceRoom_proofs --------------------------
(***************************************************************************)
(* Proofs about VoiceRoom, for any number of people, tabs, instances,      *)
(* handlers at once and failures: a ban holds, and nobody stays listed     *)
(* whose connection is gone, outside the cases the properties name.  The   *)
(* argument: whoever a join may still bring back, a kick has not reached   *)
(* or a failure has left behind is marked (slipped, halfway, cut); for all *)
(* others each trace of them is matched by a socket, a timer, a word on    *)
(* its way or a handler that is about to see to it.                        *)
(***************************************************************************)
EXTENDS VoiceRoom, TLAPS

\* r is handler t at another step.
Later(r, t) == /\ r \in Handler
               /\ r.op = t.op /\ r.who = t.who /\ r.at = t.at /\ r.alive = t.alive

LEMMA LaterPc ==
  ASSUME NEW t \in Handler, NEW pc \in Pc
  PROVE  Later([t EXCEPT !.pc = pc], t) /\ [t EXCEPT !.pc = pc].pc = pc
BY DEF Later, Handler

LEMMA BegunHandler ==
  ASSUME NEW op \in Op, NEW u \in User, NEW i \in Instance, NEW pc \in Pc
  PROVE  LET n == Begun(op, u, i, pc) IN
         /\ n \in Handler
         /\ n.op = op /\ n.who = u /\ n.at = i /\ n.alive /\ n.pc = pc
BY DEF Begun, Handler, RowState

LEMMA InitInv == Init => IInv
<1> SUFFICES ASSUME Init PROVE IInv
  OBVIOUS
<1>1. TypeOK
  BY VoiceRoomAssumption DEF Init, TypeOK, RowState
<1>2. QED
  BY <1>1 DEF Init, IInv, InStep, AliveOnline, CutKnown, BanClears, TabsNoted, NoGhosts

-----------------------------------------------------------------------------
(* Handlers that move on, end or begin without touching anybody's place *)

\* Who is banned stays without a row.
RowsKept == /\ row' \in [User -> RowState]
            /\ \A u \in banned \ slipped : row'[u] = "none"

\* A step of t after which it runs on as one of new, or ends.
LEMMA MoveInv ==
  ASSUME IInv, NEW t \in todo, NEW new,
         todo' = (todo \ {t}) \cup new,
         \A r \in new : Later(r, t) /\ r.pc \in Steps[r.op],
         UNCHANGED <<banned, members, sockets, fails, ghosts>>, RowsKept,
         requests' \in Nat, host' \in User \cup {NoHost},
         t.op \in {"enter", "join"} => /\ t.pc \in {"look", "count", "row", "first"}
                                       /\ t.pc = "first" => new = {},
         t.op \in {"leave", "expire"} => t.pc # "rem",
         t.op = "drop" /\ new = {} => t.who \notin members \/ \E s \in channel : s[1] = t.who,
         t.op = "kick" => /\ t.pc \in {"list", "del"} /\ new # {}
                          /\ \A r \in new : r.pc \in {"del", "out"}
  PROVE  IInv'
<1> USE DEF Later
<1>0. TypeOK /\ t \in Handler
  BY DEF IInv, TypeOK
<1>1. TypeOK'
  BY <1>0 DEF TypeOK, sockets, ghosts, RowsKept
<1>2. InStep' /\ AliveOnline'
  BY DEF IInv, InStep, AliveOnline, sockets
<1>3. ASSUME NEW u, NEW pcs, pcs = {"rem"} \/ pcs = {"rem", "list", "del", "out"}
      PROVE  Kicking(u, pcs) => Kicking(u, pcs)'
  BY <1>3 DEF Kicking
<1>4. \A u : Joining(u)' => Joining(u)
  BY DEF Joining
<1>5. BanClears'
  BY <1>3, <1>4 DEF IInv, BanClears, sockets, ghosts, RowsKept
<1>6. CutKnown'
  BY DEF IInv, CutKnown, ghosts
<1>7. TabsNoted'
  BY DEF IInv, TabsNoted, sockets, ghosts
<1>8. ASSUME NEW u \in members \ cut PROVE Held(u)'
  <2>1. CASE t.who = u /\ t.op = "drop" /\ new = {}
    <3>1. PICK s \in channel : s[1] = u
      BY <1>8, <2>1
    <3>2. CASE s \in tracked
      BY <3>1, <3>2 DEF Held, sockets
    <3>3. CASE s \notin tracked
      <4>1. PICK q \in todo : q.op = "join" /\ q.who = u /\ q.alive /\ q.pc \in {"add", "cancel"}
        BY <1>8, <3>1, <3>3 DEF IInv, TabsNoted
      <4>2. QED
        BY <2>1, <4>1 DEF Held, Minds
    <3>4. QED
      BY <3>2, <3>3
  <2>2. CASE t.who = u /\ t.op = "drop" /\ new # {}
    BY <2>2 DEF Held, Minds
  <2>3. CASE ~(t.who = u /\ t.op = "drop")
    <3>1. t.who = u => ~Minds(t)
      BY <2>3 DEF Minds
    <3>2. QED
      BY <1>8, <3>1 DEF IInv, NoGhosts, Held, sockets
  <2>4. QED
    BY <2>1, <2>2, <2>3
<1>9. NoGhosts'
  BY <1>8 DEF NoGhosts, ghosts
<1>10. QED
  BY <1>1, <1>2, <1>5, <1>6, <1>7, <1>9 DEF IInv

\* A new handler n.
LEMMA BeginInv ==
  ASSUME IInv, NEW n \in Handler, n.alive, n.pc \in Steps[n.op],
         todo' = todo \cup {n},
         UNCHANGED <<banned, members, host, sockets, fails, ghosts>>, RowsKept,
         requests' \in Nat,
         n.op \in {"enter", "join"} => n.who \notin banned,
         n.op = "join" => <<n.who, n.at>> \in online,
         n.op # "drop"
  PROVE  IInv'
<1>1. TypeOK'
  BY DEF IInv, TypeOK, sockets, ghosts, RowsKept
<1>2. InStep' /\ AliveOnline'
  BY DEF IInv, InStep, AliveOnline, sockets
<1>3. \A v, pcs : Kicking(v, pcs) => Kicking(v, pcs)'
  BY DEF Kicking
<1>4. \A v : Joining(v)' => Joining(v) \/ v \notin banned
  BY DEF Joining
<1>5. BanClears'
  BY <1>3, <1>4 DEF IInv, BanClears, sockets, ghosts, RowsKept
<1>6. CutKnown'
  BY DEF IInv, CutKnown, ghosts
<1>7. TabsNoted'
  BY DEF IInv, TabsNoted, sockets, ghosts
<1>8. NoGhosts'
  BY DEF IInv, NoGhosts, Held, sockets, ghosts
<1>9. QED
  BY <1>1, <1>2, <1>5, <1>6, <1>7, <1>8 DEF IInv

LEMMA KeptRows == ASSUME IInv, UNCHANGED row PROVE RowsKept
BY DEF IInv, TypeOK, BanClears, RowsKept

LEMMA BeginSteps ==
  ASSUME IInv, NEW u \in User, NEW i \in Instance,
         BeginEnter(u, i) \/ BeginJoin(u, i) \/ BeginLeave(u, i)
  PROVE  IInv'
<1>1. CASE BeginEnter(u, i) \/ BeginJoin(u, i)
  <2>1. PICK op \in {"enter", "join"} :
          Begin(op, u, i, "look") /\ (op = "join" => <<u, i>> \in online)
    BY <1>1 DEF BeginEnter, BeginJoin
  <2> DEFINE n == Begun(op, u, i, "look")
  <2>2. n \in Handler /\ n.op = op /\ n.who = u /\ n.at = i /\ n.alive /\ n.pc = "look"
    BY BegunHandler DEF Op, Pc
  <2>3. todo' = todo \cup {n} /\ requests' \in Nat
    BY <2>1 DEF Begin, IInv, TypeOK
  <2>4. u \notin banned /\ UNCHANGED <<row, banned, members, host, sockets, fails, ghosts>>
    BY <1>1 DEF BeginEnter, BeginJoin, db
  <2>5. n.pc \in Steps[n.op]
    BY <2>2 DEF Steps
  <2>6. RowsKept
    BY <2>4, KeptRows
  <2> HIDE DEF n
  <2>7. QED
    BY <2>1, <2>2, <2>3, <2>4, <2>5, <2>6, BeginInv
<1>2. CASE BeginLeave(u, i)
  <2> DEFINE n == Begun("leave", u, i, "quit")
  <2>1. n \in Handler /\ n.op = "leave" /\ n.who = u /\ n.at = i /\ n.alive /\ n.pc = "quit"
    BY BegunHandler DEF Op, Pc
  <2>2. /\ todo' = todo \cup {n} /\ requests' \in Nat
        /\ row[u] # "none" /\ row' = [row EXCEPT ![u] = "left"]
        /\ UNCHANGED <<banned, members, host, sockets, fails, ghosts>>
    BY <1>2 DEF BeginLeave, Begin, IInv, TypeOK
  <2>3. RowsKept
    BY <2>2 DEF RowsKept, IInv, TypeOK, BanClears, RowState
  <2>4. n.pc \in Steps[n.op]
    BY <2>1 DEF Steps
  <2> HIDE DEF n
  <2>5. QED
    BY <2>1, <2>2, <2>3, <2>4, BeginInv
<1>3. QED
  BY <1>1, <1>2

LEMMA BeginKickInv == ASSUME IInv, NEW u \in User, BeginKick(u) PROVE IInv'
<1>1. PICK s \in online : Begin("kick", u, s[2], "ban")
  BY DEF BeginKick
<1>2. s[2] \in Instance
  BY VoiceRoomAssumption DEF IInv, TypeOK
<1> DEFINE n == Begun("kick", u, s[2], "ban")
<1>3. n \in Handler /\ n.op = "kick" /\ n.alive /\ n.pc = "ban"
  BY <1>2, BegunHandler DEF Op, Pc
<1>4. /\ todo' = todo \cup {n} /\ requests' \in Nat
      /\ UNCHANGED <<row, banned, members, host, sockets, fails, ghosts>>
  BY <1>1 DEF BeginKick, Begin, IInv, TypeOK, db
<1>5. n.pc \in Steps[n.op]
  BY <1>3 DEF Steps
<1>6. RowsKept
  BY <1>4, KeptRows
<1> HIDE DEF n
<1>7. QED
  BY <1>3, <1>4, <1>5, <1>6, BeginInv

-----------------------------------------------------------------------------
(* Steps that only move handlers *)

\* r stands for t in a step that leaves everybody's place alone.
LEMMA QuietMove ==
  ASSUME IInv, NEW t \in todo, NEW r, Later(r, t), r.pc \in Steps[r.op],
         todo' = (todo \ {t}) \cup {r},
         UNCHANGED <<db, members, sockets, fails, ghosts, requests>>,
         host' \in User \cup {NoHost},
         t.op \in {"enter", "join"} => t.pc \in {"look", "count", "row"},
         t.op \in {"leave", "expire"} => t.pc # "rem",
         t.op = "kick" => t.pc \in {"list", "del"} /\ r.pc \in {"del", "out"}
  PROVE  IInv'
<1>1. RowsKept
  BY KeptRows DEF db
<1>2. requests' \in Nat
  BY DEF IInv, TypeOK
<1> DEFINE new == {r}
<1>3. todo' = (todo \ {t}) \cup new /\ new # {} /\ \A q \in new : q = r
  OBVIOUS
<1> HIDE DEF new
<1>4. QED
  BY <1>1, <1>2, <1>3, MoveInv DEF db

LEMMA QuietEnd ==
  ASSUME IInv, NEW t \in todo,
         todo' = todo \ {t},
         UNCHANGED <<db, members, sockets, fails, ghosts, requests>>,
         host' \in User \cup {NoHost},
         t.op \in {"enter", "join"} => t.pc \in {"look", "count", "row", "first"},
         t.op \in {"leave", "expire"} => t.pc # "rem",
         t.op = "drop" => t.who \notin members \/ \E s \in channel : s[1] = t.who,
         t.op # "kick"
  PROVE  IInv'
<1>1. RowsKept
  BY KeptRows DEF db
<1>2. requests' \in Nat
  BY DEF IInv, TypeOK
<1> DEFINE new == {}
<1>3. todo' = (todo \ {t}) \cup new /\ new = {} /\ \A q \in new : FALSE
  OBVIOUS
<1> HIDE DEF new
<1>4. QED
  BY <1>1, <1>2, <1>3, MoveInv DEF db

LEMMA JoiningSteps ==
  ASSUME IInv, NEW t \in todo, LookUp(t) \/ CountPeople(t) \/ SetHostIfAbsent(t)
  PROVE  IInv'
<1>0. t \in Handler /\ host \in User \cup {NoHost} /\ t.pc \in Steps[t.op] /\ t.op \in Op
  BY DEF IInv, TypeOK, InStep, Handler
<1> USE DEF Goes, Becomes, Ends
<1>1. CASE LookUp(t)
  <2>1. CASE t.op = "enter" /\ row[t.who] = "in"
    BY <1>0, <1>1, <2>1, QuietEnd DEF LookUp
  <2>2. CASE ~(t.op = "enter" /\ row[t.who] = "in")
    <3> DEFINE at == CASE t.op = "join" /\ row[t.who] = "in"    -> "channel"
                       [] t.op = "enter" /\ row[t.who] = "none" -> "count"
                       [] OTHER                                 -> "row"
               read == IF at = "channel" THEN "none" ELSE row[t.who]
               r == [t EXCEPT !.pc = at, !.seen = read]
    <3>1. at \in {"channel", "count", "row"} /\ (at = "channel" => t.op = "join")
          /\ (at = "count" => t.op = "enter")
      OBVIOUS
    <3>2. t.op \in {"enter", "join"} /\ read \in RowState /\ t.pc = "look"
      BY <1>0, <1>1 DEF LookUp, Steps, Op, IInv, TypeOK, Handler, RowState
    <3>3. todo' = (todo \ {t}) \cup {r}
          /\ UNCHANGED <<db, members, host, sockets, fails, ghosts, requests>>
      BY <1>1, <2>2 DEF LookUp
    <3> HIDE DEF at, read
    <3>4. Later(r, t) /\ r.pc = at
      BY <1>0, <3>1, <3>2 DEF Later, Handler, Pc
    <3> HIDE DEF r
    <3>5. r.pc \in Steps[r.op]
      BY <3>1, <3>2, <3>4 DEF Steps, Later
    <3>6. QED
      BY <1>0, <3>2, <3>3, <3>4, <3>5, QuietMove
  <2>3. QED
    BY <2>1, <2>2
<1>2. CASE CountPeople(t)
  <2>1. t.op = "enter" /\ t.pc = "count"
    BY <1>0, <1>2 DEF CountPeople, Steps, Op
  <2>2. CASE todo' = todo \ {t}
    BY <1>0, <1>2, <2>1, <2>2, QuietEnd DEF CountPeople
  <2>3. CASE Goes(t, "row")
    <3> DEFINE r == [t EXCEPT !.pc = "row"]
    <3>1. Later(r, t) /\ r.pc = "row"
      BY <1>0, LaterPc DEF Pc
    <3>2. r.pc \in Steps[r.op]
      BY <3>1, <2>1 DEF Steps, Later
    <3>3. todo' = (todo \ {t}) \cup {r}
          /\ UNCHANGED <<db, members, host, sockets, fails, ghosts, requests>>
      BY <1>2, <2>3 DEF CountPeople
    <3> HIDE DEF r
    <3>4. QED
      BY <1>0, <2>1, <3>1, <3>2, <3>3, QuietMove
  <2>4. QED
    BY <1>2, <2>2, <2>3 DEF CountPeople
<1>3. CASE SetHostIfAbsent(t)
  <2>1. t.op = "join" /\ t.pc = "first"
    BY <1>0, <1>3 DEF SetHostIfAbsent, Steps, Op
  <2>2. QED
    BY <1>0, <1>3, <2>1, QuietEnd, VoiceRoomAssumption DEF SetHostIfAbsent
<1>4. QED
  BY <1>1, <1>2, <1>3

LEMMA DroppingSteps ==
  ASSUME IInv, NEW t \in todo, IsStillThere(t) \/ OtherTabs(t)
  PROVE  IInv'
<1>0. t \in Handler /\ host \in User \cup {NoHost} /\ t.op = "drop"
  BY DEF IInv, TypeOK, IsStillThere, OtherTabs
<1> USE DEF Goes, Becomes, Ends
<1>1. ASSUME NEW pc \in {"tabs", "set"}, Goes(t, pc)
      PROVE  IInv'
  <2> DEFINE r == [t EXCEPT !.pc = pc]
  <2>0. pc \in Pc
    BY DEF Pc
  <2>1. Later(r, t) /\ r.pc = pc
    BY <1>0, <2>0, LaterPc
  <2>2. r.pc \in Steps[r.op]
    BY <1>0, <2>1 DEF Steps, Later
  <2>3. todo' = (todo \ {t}) \cup {r}
        /\ UNCHANGED <<db, members, host, sockets, fails, ghosts, requests>>
    BY <1>1 DEF IsStillThere, OtherTabs
  <2> HIDE DEF r
  <2>4. QED
    BY <1>0, <2>1, <2>2, <2>3, QuietMove
<1>2. CASE IsStillThere(t) /\ t.who \notin members
  BY <1>0, <1>2, QuietEnd DEF IsStillThere
<1>3. CASE OtherTabs(t) /\ \E s \in channel : s[1] = t.who
  BY <1>0, <1>3, QuietEnd DEF OtherTabs
<1>4. QED
  BY <1>1, <1>2, <1>3 DEF IsStillThere, OtherTabs

LEMMA RemovedInv ==
  ASSUME IInv, NEW t \in todo, NEW rest \in SUBSET User,
         t.pc \in {"list", "del"}, Removed(t, rest),
         UNCHANGED <<db, members, sockets, fails, ghosts>>, host' \in User \cup {NoHost}
  PROVE  IInv'
<1>0. t \in Handler /\ t.op \in {"leave", "expire", "kick"}
  BY DEF IInv, TypeOK, InStep, Handler, Steps, Op
<1> USE DEF Goes, Becomes, Ends
<1>1. CASE t.op = "kick"
  <2> DEFINE r == [t EXCEPT !.pc = "out"]
  <2>1. Later(r, t) /\ r.pc = "out"
    BY <1>0, LaterPc DEF Pc
  <2>2. r.pc \in Steps[r.op]
    BY <1>1, <2>1 DEF Steps, Later
  <2>3. todo' = (todo \ {t}) \cup {r} /\ UNCHANGED requests
    BY <1>1 DEF Removed
  <2> HIDE DEF r
  <2>4. QED
    BY <1>1, <2>1, <2>2, <2>3, QuietMove
<1>2. CASE t.op # "kick" /\ t.present /\ rest # {}
  <2> DEFINE r == [t EXCEPT !.pc = "host", !.rest = rest]
  <2>1. Later(r, t) /\ r.pc = "host"
    BY <1>0 DEF Later, Handler, Pc
  <2>2. r.pc \in Steps[r.op]
    BY <1>0, <1>2, <2>1 DEF Steps, Later
  <2>3. todo' = (todo \ {t}) \cup {r} /\ UNCHANGED requests
    BY <1>2 DEF Removed
  <2> HIDE DEF r
  <2>4. QED
    BY <1>0, <1>2, <2>1, <2>2, <2>3, QuietMove
<1>3. CASE t.op # "kick" /\ ~(t.present /\ rest # {})
  BY <1>0, <1>3, QuietEnd DEF Removed
<1>4. QED
  BY <1>1, <1>2, <1>3

LEMMA LeavingSteps ==
  ASSUME IInv, NEW t \in todo, ListMembers(t) \/ DropHost(t) \/ AmHost(t) \/ GiveHost(t)
  PROVE  IInv'
<1>0. /\ t \in Handler /\ host \in User \cup {NoHost} /\ members \subseteq User
      /\ t.pc \in Steps[t.op] /\ t.op \in Op
  BY DEF IInv, TypeOK, InStep, Handler
<1> USE DEF Goes, Becomes, Ends
<1>1. CASE ListMembers(t)
  <2>1. CASE members # {}
    BY <1>0, <1>1, <2>1, RemovedInv DEF ListMembers
  <2>2. CASE members = {}
    <3> DEFINE r == [t EXCEPT !.pc = "del"]
    <3>1. Later(r, t) /\ r.pc = "del"
      BY <1>0, LaterPc DEF Pc
    <3>2. t.op \in {"leave", "expire", "kick"} /\ t.pc = "list"
      BY <1>0, <1>1 DEF Steps, Op, ListMembers
    <3>3. r.pc \in Steps[r.op]
      BY <3>1, <3>2 DEF Steps, Later
    <3>4. todo' = (todo \ {t}) \cup {r}
          /\ UNCHANGED <<db, members, host, sockets, fails, ghosts, requests>>
      BY <1>1, <2>2 DEF ListMembers
    <3> HIDE DEF r
    <3>5. QED
      BY <1>0, <3>1, <3>2, <3>3, <3>4, QuietMove
  <2>3. QED
    BY <2>1, <2>2
<1>2. CASE DropHost(t)
  BY <1>0, <1>2, RemovedInv DEF DropHost
<1>3. CASE AmHost(t)
  <2>1. t.op \in {"leave", "expire"} /\ t.pc = "host"
    BY <1>0, <1>3 DEF Steps, Op, AmHost
  <2>2. CASE todo' = todo \ {t}
    BY <1>0, <1>3, <2>1, <2>2, QuietEnd DEF AmHost
  <2>3. CASE Goes(t, "give")
    <3> DEFINE r == [t EXCEPT !.pc = "give"]
    <3>1. Later(r, t) /\ r.pc = "give"
      BY <1>0, LaterPc DEF Pc
    <3>2. r.pc \in Steps[r.op]
      BY <3>1, <2>1 DEF Steps, Later
    <3>3. todo' = (todo \ {t}) \cup {r}
          /\ UNCHANGED <<db, members, host, sockets, fails, ghosts, requests>>
      BY <1>3, <2>3 DEF AmHost
    <3> HIDE DEF r
    <3>4. QED
      BY <1>0, <2>1, <3>1, <3>2, <3>3, QuietMove
  <2>4. QED
    BY <1>3, <2>2, <2>3 DEF AmHost
<1>4. CASE GiveHost(t)
  <2>1. t.op \in {"leave", "expire"} /\ t.pc = "give" /\ t.rest \subseteq User
    BY <1>0, <1>4 DEF Steps, Op, GiveHost, Handler
  <2>2. QED
    BY <1>0, <1>4, <2>1, QuietEnd DEF GiveHost
<1>5. QED
  BY <1>1, <1>2, <1>3, <1>4

-----------------------------------------------------------------------------
(* Sockets *)

LEMMA ConnectInv == ASSUME IInv, NEW u, NEW i, <<u, i>> \in Socket, Connect(u, i) PROVE IInv'
<1> USE DEF Connect, db, ghosts
<1>1. TypeOK'
  BY DEF IInv, TypeOK
<1>2. InStep' /\ AliveOnline'
  BY DEF IInv, InStep, AliveOnline
<1>3. BanClears' /\ CutKnown' /\ TabsNoted'
  BY DEF IInv, CutKnown, BanClears, TabsNoted, Kicking, Joining
<1>4. NoGhosts'
  BY DEF IInv, NoGhosts, Held
<1>5. QED
  BY <1>1, <1>2, <1>3, <1>4 DEF IInv

LEMMA DisconnectInv ==
  ASSUME IInv, NEW u \in User, NEW i \in Instance, Disconnect(u, i)
  PROVE  IInv'
<1> DEFINE s == <<u, i>>
           Mine(t) == t.op \in {"join", "leave"} /\ t.who = u /\ t.at = i
           orphan(t) == IF Mine(t) THEN [t EXCEPT !.alive = FALSE] ELSE t
           n == Begun("drop", u, i, "there")
           half == IF \E t \in todo : /\ t.op = "join" /\ t.who = u /\ t.at = i
                                      /\ t.alive /\ t.pc # "first" THEN {u} ELSE {}
<1>0. TypeOK /\ s \in online /\ s \in Socket /\ s[1] = u /\ s[2] = i
  BY DEF IInv, TypeOK, Disconnect
<1>1. /\ online' = online \ {s} /\ channel' = channel \ {s} /\ tracked' = tracked \ {s}
      /\ todo' = {orphan(t) : t \in todo} \cup (IF s \in tracked THEN {n} ELSE {})
      /\ cut' = cut \cup half
      /\ UNCHANGED <<row, banned, members, host, grace, leaving, requests, fails, slipped, halfway>>
  BY Zenon DEF Disconnect, Cut, db
<1>2. n \in Handler /\ n.op = "drop" /\ n.who = u /\ n.at = i /\ n.pc = "there"
  BY BegunHandler DEF Op, Pc
<1>3. ASSUME NEW t \in todo
      PROVE  /\ orphan(t) \in todo' /\ orphan(t) \in Handler
             /\ orphan(t).op = t.op /\ orphan(t).who = t.who /\ orphan(t).at = t.at
             /\ orphan(t).pc = t.pc
             /\ orphan(t).alive => t.alive /\ ~Mine(t)
             /\ ~Mine(t) => orphan(t) = t
  <2>1. orphan(t) \in todo'
    BY <1>1
  <2>2. t \in Handler
    BY <1>0 DEF TypeOK
  <2>3. QED
    BY <2>1, <2>2 DEF Handler
<1>4. \A t \in todo' : (\E q \in todo : t = orphan(q)) \/ (t = n /\ s \in tracked)
  BY <1>1
<1>5. s \in tracked => n \in todo'
  BY <1>1
<1>6. \A t \in todo : t.op = "join" /\ Mine(t) /\ t.alive /\ t.pc # "first" => u \in cut'
  BY <1>1
<1>7. cut \subseteq cut' /\ cut' \subseteq User
  BY <1>0, <1>1 DEF TypeOK
<1> HIDE DEF n, orphan, half, s
<1>8. TypeOK'
  BY <1>0, <1>1, <1>2, <1>3, <1>4, <1>7 DEF TypeOK
<1>9. InStep'
  BY <1>2, <1>3, <1>4 DEF IInv, InStep, Steps
<1>10. AliveOnline'
  <2> SUFFICES ASSUME NEW t \in todo'
               PROVE  /\ t.op = "join" /\ t.alive => <<t.who, t.at>> \in online'
                      /\ t.op = "drop" => <<t.who, t.at>> \in Socket
    BY DEF AliveOnline
  <2>1. CASE t = n
    BY <1>0, <1>2, <2>1 DEF s
  <2>2. ASSUME NEW q \in todo, t = orphan(q)
        PROVE  /\ t.op = "join" /\ t.alive => <<t.who, t.at>> \in online'
               /\ t.op = "drop" => <<t.who, t.at>> \in Socket
    <3>1. /\ t.op = q.op /\ t.who = q.who /\ t.at = q.at
          /\ t.alive => q.alive /\ ~Mine(q)
      BY <1>3, <2>2
    <3>2. t.op = "join" /\ t.alive => <<t.who, t.at>> # s
      BY <3>1 DEF s
    <3>3. QED
      BY <1>1, <3>1, <3>2 DEF IInv, AliveOnline
  <2>3. QED
    BY <1>4, <2>1, <2>2
<1>11. \A v, pcs : Kicking(v, pcs) => Kicking(v, pcs)'
  BY <1>3 DEF Kicking
<1>12. \A v : Joining(v)' => Joining(v)
  BY <1>2, <1>3, <1>4 DEF Joining
<1>13. BanClears'
  BY <1>1, <1>11, <1>12 DEF IInv, BanClears
<1>14. CutKnown'
  <2> SUFFICES ASSUME NEW t \in todo', t.op = "join", t.pc # "first"
               PROVE  t.alive \/ t.who \in cut'
    BY DEF CutKnown
  <2>1. PICK q \in todo : t = orphan(q)
    BY <1>2, <1>4
  <2>2. /\ q.op = "join" /\ q.who = t.who /\ q.pc = t.pc
        /\ Mine(q) \/ t = q
    BY <1>3, <2>1
  <2>3. q.alive \/ q.who \in cut
    BY <2>2 DEF IInv, CutKnown
  <2>4. QED
    BY <1>6, <1>7, <2>2, <2>3
<1>15. TabsNoted'
  <2> SUFFICES ASSUME NEW z \in channel' \ tracked', z[1] \notin cut'
               PROVE  \E t \in todo' : /\ t.op = "join" /\ t.who = z[1] /\ t.at = z[2]
                                       /\ t.alive /\ t.pc \in {"add", "cancel"}
    BY DEF TabsNoted
  <2>1. z \in channel \ tracked /\ z # s /\ z[1] \notin cut /\ z = <<z[1], z[2]>>
    BY <1>0, <1>1, <1>7, VoiceRoomAssumption DEF TypeOK
  <2>2. PICK q \in todo : /\ q.op = "join" /\ q.who = z[1] /\ q.at = z[2]
                          /\ q.alive /\ q.pc \in {"add", "cancel"}
    BY <2>1 DEF IInv, TabsNoted
  <2>3. ~Mine(q)
    BY <2>1, <2>2 DEF s
  <2>4. QED
    BY <1>3, <2>2, <2>3
<1>16. ASSUME NEW v \in members \ cut' PROVE Held(v)'
  <2>1. Held(v)
    BY <1>7, <1>16 DEF IInv, NoGhosts
  <2>2. CASE \E z \in tracked \cup grace : z[1] = v
    <3>1. PICK z \in tracked \cup grace : z[1] = v
      BY <2>2
    <3>2. CASE z \in grace \/ z # s
      BY <1>1, <3>1, <3>2 DEF Held
    <3>3. CASE z = s /\ z \in tracked
      BY <1>0, <1>2, <1>5, <3>1, <3>3 DEF Held, Minds
    <3>4. QED
      BY <3>1, <3>2, <3>3
  <2>3. CASE \E t \in todo : t.who = v /\ Minds(t)
    <3>1. PICK t \in todo : t.who = v /\ Minds(t)
      BY <2>3
    <3>2. ~(t.op = "join" /\ Mine(t))
      BY <1>6, <1>16, <3>1 DEF Minds
    <3>3. Minds(orphan(t))
      BY <1>3, <3>1, <3>2 DEF Minds
    <3>4. QED
      BY <1>3, <3>1, <3>3 DEF Held, Minds
  <2>4. QED
    BY <2>1, <2>2, <2>3 DEF Held
<1>17. NoGhosts'
  BY <1>1, <1>16 DEF NoGhosts
<1>18. QED
  BY <1>8, <1>9, <1>10, <1>13, <1>14, <1>15, <1>17 DEF IInv

LEMMA StartGraceInv == ASSUME IInv, NEW t \in todo, StartGrace(t) PROVE IInv'
<1> DEFINE s == <<t.who, t.at>>
<1>0. /\ TypeOK /\ s \in Socket /\ t.op = "drop" /\ s[1] = t.who
      /\ todo' = todo \ {t} /\ grace' = grace \cup {s}
      /\ UNCHANGED <<row, banned, members, host, online, channel, tracked, leaving, requests,
                     fails, slipped, halfway, cut>>
  BY DEF IInv, AliveOnline, StartGrace, Ends, db, ghosts
<1> HIDE DEF s
<1>1. TypeOK'
  BY <1>0 DEF TypeOK
<1>2. InStep' /\ AliveOnline'
  BY <1>0 DEF IInv, InStep, AliveOnline
<1>3. BanClears' /\ CutKnown' /\ TabsNoted'
  BY <1>0 DEF IInv, CutKnown, BanClears, TabsNoted, Kicking, Joining
<1>4. NoGhosts'
  BY <1>0 DEF IInv, NoGhosts, Held
<1>5. QED
  BY <1>1, <1>2, <1>3, <1>4 DEF IInv

LEMMA ExpireInv ==
  ASSUME IInv, NEW u \in User, NEW i \in Instance, Expire(u, i)
  PROVE  IInv'
<1> DEFINE n == Begun("expire", u, i, "rem")
           s == <<u, i>>
<1>0. /\ TypeOK /\ todo' = todo \cup {n} /\ grace' = grace \ {s} /\ s[1] = u
      /\ UNCHANGED <<row, banned, members, host, online, channel, tracked, leaving, requests,
                     fails, slipped, halfway, cut>>
  BY DEF IInv, Expire, db, ghosts
<1>n. n \in Handler /\ n.op = "expire" /\ n.who = u /\ n.pc = "rem"
  BY BegunHandler DEF Op, Pc
<1> HIDE DEF n, s
<1>1. TypeOK'
  BY <1>0, <1>n DEF TypeOK
<1>2. InStep' /\ AliveOnline'
  BY <1>0, <1>n DEF IInv, InStep, AliveOnline, Steps
<1>3. \A v, pcs : Kicking(v, pcs) => Kicking(v, pcs)'
  BY <1>0 DEF Kicking
<1>4. \A v : Joining(v)' => Joining(v)
  BY <1>0, <1>n DEF Joining
<1>5. BanClears' /\ CutKnown' /\ TabsNoted'
  BY <1>0, <1>n, <1>3, <1>4 DEF IInv, CutKnown, BanClears, TabsNoted
<1>6. ASSUME NEW v \in members \ cut PROVE Held(v)'
  <2>1. CASE v = u
    BY <1>0, <1>n, <2>1 DEF Held, Minds
  <2>2. CASE v # u
    BY <1>0, <1>6, <2>2 DEF IInv, NoGhosts, Held
  <2>3. QED
    BY <2>1, <2>2
<1>7. NoGhosts'
  BY <1>0, <1>6 DEF NoGhosts
<1>8. QED
  BY <1>1, <1>2, <1>5, <1>7 DEF IInv

-----------------------------------------------------------------------------
(* Joining *)

LEMMA WriteRowInv == ASSUME IInv, NEW t \in todo, WriteRow(t) PROVE IInv'
<1>0. /\ TypeOK /\ t \in Handler /\ t.op \in {"enter", "join"} /\ t.pc = "row"
      /\ UNCHANGED <<banned, members, host, sockets, fails, ghosts, requests>>
      /\ requests' \in Nat /\ host' \in User \cup {NoHost}
  BY DEF IInv, InStep, Steps, Handler, Op, TypeOK, WriteRow, Becomes, Ends
<1>1. RowsKept
  <2>1. Joining(t.who) /\ t.who \in User /\ row \in [User -> RowState]
    BY <1>0 DEF Joining, Handler, TypeOK
  <2>2. CASE row' = [row EXCEPT ![t.who] = "in"]
    BY <2>1, <2>2 DEF IInv, BanClears, RowState, RowsKept
  <2>3. CASE UNCHANGED row
    BY <2>3, KeptRows
  <2>4. QED
    BY <2>2, <2>3 DEF WriteRow
<1> DEFINE r == [t EXCEPT !.pc = "channel", !.seen = "none"]
<1>2. Later(r, t) /\ r.pc = "channel"
  BY <1>0 DEF Later, Handler, Pc, RowState
<1>3. \/ todo' = (todo \ {t}) \cup {r} /\ t.op = "join"
      \/ todo' = (todo \ {t}) \cup {}
  BY <1>0 DEF WriteRow, Becomes, Ends
<1> HIDE DEF r
<1>4. CASE todo' = (todo \ {t}) \cup {r} /\ t.op = "join"
  <2> DEFINE new == {r}
  <2>1. r.pc \in Steps[r.op]
    BY <1>2, <1>4 DEF Later, Steps
  <2>2. todo' = (todo \ {t}) \cup new /\ \A q \in new : Later(q, t) /\ q.pc \in Steps[q.op]
    BY <1>2, <1>4, <2>1
  <2> HIDE DEF new
  <2>3. QED
    BY <1>0, <1>1, <2>2, MoveInv
<1>5. CASE todo' = (todo \ {t}) \cup {}
  <2> DEFINE new == {}
  <2>1. todo' = (todo \ {t}) \cup new /\ new = {} /\ \A q \in new : FALSE
    BY <1>5
  <2> HIDE DEF new
  <2>2. QED
    BY <1>0, <1>1, <2>1, MoveInv
<1>6. QED
  BY <1>3, <1>4, <1>5

LEMMA JoinChannelInv == ASSUME IInv, NEW t \in todo, JoinChannel(t) PROVE IInv'
<1> DEFINE r == [t EXCEPT !.pc = "add"]
           s == <<t.who, t.at>>
<1>0. /\ TypeOK /\ t \in Handler /\ t.op = "join" /\ t.pc = "channel"
      /\ t.alive => s \in online
      /\ s[1] = t.who /\ s[2] = t.at
      /\ todo' = (todo \ {t}) \cup {r}
      /\ channel' = IF t.alive THEN channel \cup {s} ELSE channel
      /\ UNCHANGED <<row, banned, members, host, online, tracked, grace, leaving, requests,
                     fails, slipped, halfway, cut>>
  BY DEF IInv, InStep, AliveOnline, Steps, Handler, Op, TypeOK, JoinChannel, Goes, Becomes, db, ghosts
<1>r. Later(r, t) /\ r.pc = "add"
  BY <1>0, LaterPc DEF Pc
<1> HIDE DEF r, s
<1> USE DEF Later
<1>1. TypeOK'
  BY <1>0, <1>r DEF TypeOK
<1>2. InStep' /\ AliveOnline'
  BY <1>0, <1>r DEF IInv, InStep, AliveOnline, Steps
<1>3. \A v, pcs : Kicking(v, pcs) => Kicking(v, pcs)'
  BY <1>0 DEF Kicking
<1>4. Joining(t.who) /\ \A v : Joining(v)' => Joining(v)
  BY <1>0, <1>r DEF Joining
<1>5. BanClears'
  BY <1>0, <1>3, <1>4 DEF IInv, BanClears
<1>6. CutKnown'
  BY <1>0, <1>r DEF IInv, CutKnown
<1>7. TabsNoted'
  BY <1>0, <1>r DEF IInv, TabsNoted
<1>8. NoGhosts'
  BY <1>0 DEF IInv, NoGhosts, Held, Minds
<1>9. QED
  BY <1>1, <1>2, <1>5, <1>6, <1>7, <1>8 DEF IInv

LEMMA AddMemberInv == ASSUME IInv, NEW t \in todo, AddMember(t) PROVE IInv'
<1> DEFINE r == [t EXCEPT !.pc = "cancel"]
<1>0. /\ TypeOK /\ t \in Handler /\ t.op = "join" /\ t.pc = "add"
      /\ todo' = (todo \ {t}) \cup {r}
      /\ members' = members \cup {t.who}
      /\ UNCHANGED <<row, banned, host, online, channel, tracked, grace, leaving, requests,
                     fails, slipped, halfway, cut>>
  BY DEF IInv, InStep, Steps, Handler, Op, TypeOK, AddMember, Goes, Becomes, db, sockets, ghosts
<1>r. Later(r, t) /\ r.pc = "cancel"
  BY <1>0, LaterPc DEF Pc
<1> HIDE DEF r
<1> USE DEF Later
<1>1. TypeOK'
  BY <1>0, <1>r DEF TypeOK, Handler
<1>2. InStep' /\ AliveOnline'
  BY <1>0, <1>r DEF IInv, InStep, AliveOnline, Steps
<1>3. \A v, pcs : Kicking(v, pcs) => Kicking(v, pcs)'
  BY <1>0 DEF Kicking
<1>4. Joining(t.who) /\ \A v : Joining(v)' => Joining(v)
  BY <1>0, <1>r DEF Joining
<1>5. BanClears'
  BY <1>0, <1>3, <1>4 DEF IInv, BanClears
<1>6. CutKnown'
  BY <1>0, <1>r DEF IInv, CutKnown
<1>7. TabsNoted'
  BY <1>0, <1>r DEF IInv, TabsNoted
<1>8. ASSUME NEW v \in members' \ cut PROVE Held(v)'
  <2>1. CASE v = t.who
    BY <1>0, <1>r, <1>8, <2>1 DEF IInv, CutKnown, Held, Minds
  <2>2. CASE v # t.who
    BY <1>0, <1>8, <2>2 DEF IInv, NoGhosts, Held
  <2>3. QED
    BY <2>1, <2>2
<1>9. NoGhosts'
  BY <1>0, <1>8 DEF NoGhosts
<1>10. QED
  BY <1>1, <1>2, <1>5, <1>6, <1>7, <1>9 DEF IInv

LEMMA CancelGraceInv == ASSUME IInv, NEW t \in todo, CancelGrace(t) PROVE IInv'
<1> DEFINE r == [t EXCEPT !.pc = "first"]
           s == <<t.who, t.at>>
<1>0. /\ TypeOK /\ t \in Handler /\ t.op = "join" /\ t.pc = "cancel"
      /\ t.alive => s \in online
      /\ s[1] = t.who
      /\ todo' = (todo \ {t}) \cup {r}
      /\ tracked' = IF t.alive THEN tracked \cup {s} ELSE tracked
      /\ grace' = grace \ {s}
      /\ UNCHANGED <<row, banned, members, host, online, channel, leaving, requests,
                     fails, slipped, halfway, cut>>
  BY DEF IInv, InStep, AliveOnline, Steps, Handler, Op, TypeOK, CancelGrace, Goes, Becomes, db, ghosts
<1>r. Later(r, t) /\ r.pc = "first"
  BY <1>0, LaterPc DEF Pc
<1>s. s = <<t.who, t.at>>
  OBVIOUS
<1> HIDE DEF r, s
<1> USE DEF Later
<1>1. TypeOK'
  BY <1>0, <1>r DEF TypeOK
<1>2. InStep' /\ AliveOnline'
  BY <1>0, <1>r DEF IInv, InStep, AliveOnline, Steps
<1>3. \A v, pcs : Kicking(v, pcs) => Kicking(v, pcs)'
  BY <1>0 DEF Kicking
<1>4. \A v : Joining(v)' => Joining(v)
  BY <1>0, <1>r DEF Joining
<1>5. BanClears' /\ CutKnown'
  BY <1>0, <1>r, <1>3, <1>4 DEF IInv, CutKnown, BanClears
<1>6. TabsNoted'
  <2> SUFFICES ASSUME NEW z \in channel \ tracked', z[1] \notin cut
               PROVE  \E q \in todo' : /\ q.op = "join" /\ q.who = z[1] /\ q.at = z[2]
                                       /\ q.alive /\ q.pc \in {"add", "cancel"}
    BY <1>0 DEF TabsNoted
  <2>1. PICK q \in todo : /\ q.op = "join" /\ q.who = z[1] /\ q.at = z[2]
                          /\ q.alive /\ q.pc \in {"add", "cancel"}
    BY <1>0 DEF IInv, TabsNoted
  <2>2. z = <<z[1], z[2]>>
    BY <1>0, VoiceRoomAssumption DEF TypeOK
  <2>3. q # t
    BY <1>0, <1>s, <2>1, <2>2
  <2>4. QED
    BY <1>0, <2>1, <2>3
<1>7. ASSUME NEW v \in members \ cut PROVE Held(v)'
  <2>1. CASE v = t.who
    <3>1. t.alive
      BY <1>0, <1>7, <2>1 DEF IInv, CutKnown
    <3>2. QED
      BY <1>0, <2>1, <3>1 DEF Held
  <2>2. CASE v # t.who
    BY <1>0, <1>7, <2>2 DEF IInv, NoGhosts, Held
  <2>3. QED
    BY <2>1, <2>2
<1>8. NoGhosts'
  BY <1>0, <1>7 DEF NoGhosts
<1>9. QED
  BY <1>1, <1>2, <1>5, <1>6, <1>8 DEF IInv

-----------------------------------------------------------------------------
(* Leaving and kicking *)

LEMMA LeaveChannelInv == ASSUME IInv, NEW t \in todo, LeaveChannel(t) PROVE IInv'
<1> DEFINE r == [t EXCEPT !.pc = "rem"]
           gone == IF t.alive THEN {<<t.who, t.at>>} ELSE {}
<1>0. /\ TypeOK /\ t \in Handler /\ t.op = "leave" /\ t.pc = "quit"
      /\ \A s \in gone : s[1] = t.who
      /\ todo' = (todo \ {t}) \cup {r}
      /\ channel' = channel \ gone /\ tracked' = tracked \ gone
      /\ UNCHANGED <<row, banned, members, host, online, grace, leaving, requests,
                     fails, slipped, halfway, cut>>
  BY DEF IInv, InStep, Steps, Handler, Op, TypeOK, LeaveChannel, Goes, Becomes, db, ghosts
<1>r. Later(r, t) /\ r.pc = "rem"
  BY <1>0, LaterPc DEF Pc
<1> HIDE DEF r, gone
<1> USE DEF Later
<1>1. TypeOK'
  BY <1>0, <1>r DEF TypeOK
<1>2. InStep' /\ AliveOnline'
  BY <1>0, <1>r DEF IInv, InStep, AliveOnline, Steps
<1>3. \A v, pcs : Kicking(v, pcs) => Kicking(v, pcs)'
  BY <1>0 DEF Kicking
<1>4. \A v : Joining(v)' => Joining(v)
  BY <1>0, <1>r DEF Joining
<1>5. BanClears' /\ CutKnown' /\ TabsNoted'
  BY <1>0, <1>r, <1>3, <1>4 DEF IInv, CutKnown, BanClears, TabsNoted
<1>6. ASSUME NEW v \in members \ cut PROVE Held(v)'
  <2>1. CASE v = t.who
    BY <1>0, <1>r, <2>1 DEF Held, Minds
  <2>2. CASE v # t.who
    BY <1>0, <1>6, <2>2 DEF IInv, NoGhosts, Held
  <2>3. QED
    BY <2>1, <2>2
<1>7. NoGhosts'
  BY <1>0, <1>6 DEF NoGhosts
<1>8. QED
  BY <1>1, <1>2, <1>5, <1>7 DEF IInv

LEMMA BanInv == ASSUME IInv, NEW t \in todo, Ban(t) PROVE IInv'
<1> DEFINE r == [t EXCEPT !.pc = "rem"]
<1>0. /\ TypeOK /\ t \in Handler /\ t.op = "kick" /\ t.pc = "ban"
      /\ todo' = (todo \ {t}) \cup {r}
      /\ banned' = banned \cup {t.who}
      /\ row' = [row EXCEPT ![t.who] = "none"]
      /\ slipped' = IF Joining(t.who) THEN slipped \cup {t.who} ELSE slipped \ {t.who}
      /\ halfway' = halfway \ {t.who}
      /\ UNCHANGED <<members, host, online, channel, tracked, grace, leaving, requests, fails, cut>>
  BY DEF IInv, InStep, Steps, Handler, Op, TypeOK, Ban, Goes, Becomes, sockets
<1>r. Later(r, t) /\ r.pc = "rem"
  BY <1>0, LaterPc DEF Pc
<1> HIDE DEF r
<1> USE DEF Later
<1>1. TypeOK'
  <2>1. /\ slipped' \subseteq User /\ banned' \subseteq User /\ halfway' \subseteq User
        /\ row' \in [User -> RowState]
    BY <1>0 DEF TypeOK, RowState, Handler
  <2>2. QED
    BY <1>0, <1>r, <2>1 DEF TypeOK
<1>2. InStep' /\ AliveOnline'
  BY <1>0, <1>r DEF IInv, InStep, AliveOnline, Steps
<1>3. \A v : Joining(v)' => Joining(v)
  BY <1>0, <1>r DEF Joining
<1>4. \A v, pcs : v # t.who => (Kicking(v, pcs) => Kicking(v, pcs)')
  BY <1>0 DEF Kicking
<1>5. Kicking(t.who, {"rem"})' /\ Kicking(t.who, {"rem", "list", "del", "out"})'
  BY <1>0, <1>r DEF Kicking
<1>6. BanClears'
  <2> SUFFICES ASSUME NEW v \in banned' \ slipped'
               PROVE  /\ ~Joining(v)
                      /\ row'[v] = "none"
                      /\ v \in members \ halfway' => Kicking(v, {"rem"})'
                      /\ v \notin halfway' => \A s \in channel \ leaving :
                           s[1] = v => Kicking(v, {"rem", "list", "del", "out"})'
    BY <1>0, <1>3 DEF BanClears
  <2>1. CASE v = t.who
    BY <1>0, <1>5, <2>1 DEF TypeOK, Handler
  <2>2. CASE v # t.who
    BY <1>0, <1>4, <2>2 DEF IInv, BanClears, TypeOK
  <2>3. QED
    BY <2>1, <2>2
<1>7. CutKnown' /\ TabsNoted'
  BY <1>0, <1>r DEF IInv, CutKnown, TabsNoted
<1>8. NoGhosts'
  BY <1>0 DEF IInv, NoGhosts, Held, Minds
<1>9. QED
  BY <1>1, <1>2, <1>6, <1>7, <1>8 DEF IInv

LEMMA UnbanInv == ASSUME IInv, NEW u, Unban(u) PROVE IInv'
<1> USE DEF Unban, sockets, ghosts
<1>1. TypeOK'
  BY DEF IInv, TypeOK
<1>2. InStep' /\ AliveOnline' /\ CutKnown' /\ TabsNoted'
  BY DEF IInv, InStep, AliveOnline, CutKnown, TabsNoted
<1>3. BanClears'
  BY DEF IInv, BanClears, Kicking, Joining
<1>4. NoGhosts'
  BY DEF IInv, NoGhosts, Held
<1>5. QED
  BY <1>1, <1>2, <1>3, <1>4 DEF IInv

\* Mending forgets nobody about whom CutKnown or TabsNoted has still to know.
LEMMA Mended ==
  ASSUME IInv, NEW us \in SUBSET User, Mend(us), UNCHANGED <<channel, tracked>>,
         \A t \in todo' : t.op = "join" => t \in todo,
         \A t \in todo : t.op = "join" => t \in todo'
  PROVE  /\ cut' \subseteq cut
         /\ \A v \in cut \ cut' : v \in us
         /\ CutKnown' /\ TabsNoted'
<1>1. cut' = cut \ {u \in us : ~HalfIn(u)}
  BY DEF Mend
<1>2. CutKnown'
  <2> SUFFICES ASSUME NEW t \in todo', t.op = "join", t.pc # "first"
               PROVE  t.alive \/ t.who \in cut'
    BY DEF CutKnown
  <2>1. HalfIn(t.who) /\ (t.alive \/ t.who \in cut)
    BY DEF HalfIn, IInv, CutKnown
  <2>2. QED
    BY <1>1, <2>1
<1>3. TabsNoted'
  <2> SUFFICES ASSUME NEW z \in channel \ tracked
               PROVE  z[1] \in cut' \/ \E q \in todo' : /\ q.op = "join" /\ q.who = z[1]
                                        /\ q.at = z[2] /\ q.alive /\ q.pc \in {"add", "cancel"}
    BY DEF TabsNoted
  <2>1. HalfIn(z[1])
    BY DEF HalfIn
  <2>2. z[1] \in cut => z[1] \in cut'
    BY <1>1, <2>1
  <2>3. QED
    BY <2>2 DEF IInv, TabsNoted
<1>4. QED
  BY <1>1, <1>2, <1>3

LEMMA RemoveMemberInv == ASSUME IInv, NEW t \in todo, RemoveMember(t) PROVE IInv'
<1> DEFINE there == t.who \in members
           r == [t EXCEPT !.pc = "list", !.present = there]
<1>0. /\ TypeOK /\ t \in Handler /\ t.op \in {"leave", "expire", "kick"} /\ t.pc = "rem"
      /\ todo' = (todo \ {t}) \cup {r}
      /\ members' = members \ {t.who}
      /\ Mend({t.who})
      /\ UNCHANGED <<row, banned, host, online, channel, tracked, grace, leaving, requests,
                     fails, slipped, halfway>>
  <2>1. TypeOK /\ t \in Handler /\ t.pc = "rem" /\ t.pc \in Steps[t.op]
    BY DEF IInv, InStep, TypeOK, RemoveMember
  <2>2. t.op \in {"leave", "expire", "kick"}
    BY <2>1 DEF Steps, Handler, Op
  <2>3. QED
    BY <2>1, <2>2 DEF RemoveMember, Becomes, db, sockets
<1>r. Later(r, t) /\ r.pc = "list"
  <2>1. there \in BOOLEAN
    OBVIOUS
  <2> HIDE DEF there
  <2>2. QED
    BY <1>0, <2>1 DEF Later, Handler, Pc
<1> HIDE DEF r
<1> USE DEF Later
<1>1. /\ cut' \subseteq cut /\ \A v \in cut \ cut' : v = t.who
      /\ CutKnown' /\ TabsNoted'
  BY <1>0, <1>r, Mended DEF Handler
<1>2. TypeOK'
  BY <1>0, <1>1, <1>r DEF TypeOK
<1>3. InStep' /\ AliveOnline'
  BY <1>0, <1>r DEF IInv, InStep, AliveOnline, Steps
<1>4. \A v : Joining(v)' => Joining(v)
  BY <1>0, <1>r DEF Joining
<1>5. \A v, pcs : v # t.who => (Kicking(v, pcs) => Kicking(v, pcs)')
  BY <1>0, <1>r DEF Kicking
<1>6. \A v : Kicking(v, {"rem", "list", "del", "out"}) => Kicking(v, {"rem", "list", "del", "out"})'
  BY <1>0, <1>r DEF Kicking
<1>7. BanClears'
  BY <1>0, <1>4, <1>5, <1>6 DEF IInv, BanClears
<1>8. ASSUME NEW v \in members' \ cut' PROVE Held(v)'
  <2>1. v # t.who /\ v \in members \ cut
    BY <1>0, <1>1, <1>8
  <2>2. QED
    BY <1>0, <2>1 DEF IInv, NoGhosts, Held
<1>9. NoGhosts'
  BY <1>8 DEF NoGhosts
<1>10. QED
  BY <1>1, <1>2, <1>3, <1>7, <1>9 DEF IInv

LEMMA TakeOutInv == ASSUME IInv, NEW t \in todo, TakeOut(t) PROVE IInv'
<1> DEFINE his == {s \in Socket : s[1] = t.who}
<1>0. /\ TypeOK /\ t \in Handler /\ t.op = "kick" /\ t.pc = "out"
      /\ todo' = todo \ {t}
      /\ leaving' = leaving \cup his /\ his \subseteq Socket
      /\ \A s \in Socket : s[1] = t.who => s \in his
      /\ UNCHANGED <<row, banned, members, host, online, channel, tracked, grace, requests,
                     fails, slipped, halfway, cut>>
  BY DEF IInv, InStep, Steps, Handler, Op, TypeOK, TakeOut, Ends, db, ghosts
<1> HIDE DEF his
<1>1. TypeOK'
  BY <1>0 DEF TypeOK
<1>2. InStep' /\ AliveOnline'
  BY <1>0 DEF IInv, InStep, AliveOnline
<1>3. \A v : Joining(v)' => Joining(v)
  BY <1>0 DEF Joining
<1>4. /\ \A v, pcs : v # t.who => (Kicking(v, pcs) => Kicking(v, pcs)')
      /\ \A v : Kicking(v, {"rem"}) => Kicking(v, {"rem"})'
  BY <1>0 DEF Kicking
<1>5. BanClears'
  BY <1>0, <1>3, <1>4 DEF IInv, BanClears, TypeOK
<1>6. CutKnown' /\ TabsNoted'
  BY <1>0 DEF IInv, CutKnown, TabsNoted
<1>7. NoGhosts'
  BY <1>0 DEF IInv, NoGhosts, Held, Minds
<1>8. QED
  BY <1>1, <1>2, <1>5, <1>6, <1>7 DEF IInv

LEMMA HearLeaveInv == ASSUME IInv, NEW s, HearLeave(s) PROVE IInv'
<1> USE DEF HearLeave, db, ghosts
<1>1. TypeOK'
  BY DEF IInv, TypeOK
<1>2. InStep' /\ AliveOnline' /\ CutKnown' /\ TabsNoted'
  BY DEF IInv, InStep, AliveOnline, CutKnown, TabsNoted
<1>3. BanClears'
  BY DEF IInv, BanClears, Kicking, Joining
<1>4. NoGhosts'
  BY DEF IInv, NoGhosts, Held
<1>5. QED
  BY <1>1, <1>2, <1>3, <1>4 DEF IInv

-----------------------------------------------------------------------------
(* What goes wrong *)

LEMMA FailInv == ASSUME IInv, NEW t \in todo, Fail(t) PROVE IInv'
<1>0. /\ TypeOK /\ t \in Handler /\ todo' = todo \ {t} /\ fails' = fails + 1
      /\ cut \subseteq cut' /\ cut' \subseteq User
      /\ Minds(t) => t.who \in cut'
      /\ halfway \subseteq halfway' /\ halfway' \subseteq User
      /\ t.op = "kick" /\ t.pc # "ban" => t.who \in halfway'
      /\ UNCHANGED <<row, banned, members, host, online, channel, tracked, grace, leaving,
                     requests, slipped>>
  BY DEF Fail, Ends, Cut, IInv, TypeOK, Handler, db, sockets
<1>1. TypeOK'
  BY <1>0 DEF TypeOK
<1>2. InStep' /\ AliveOnline' /\ CutKnown'
  BY <1>0 DEF IInv, InStep, AliveOnline, CutKnown
<1>3. \A v : Joining(v)' => Joining(v)
  BY <1>0 DEF Joining
<1>4. ASSUME NEW v, v \notin halfway', NEW pcs, "ban" \notin pcs, Kicking(v, pcs)
      PROVE  Kicking(v, pcs)'
  BY <1>0, <1>4 DEF Kicking
<1>5. BanClears'
  BY <1>0, <1>3, <1>4 DEF IInv, BanClears
<1>6. TabsNoted'
  BY <1>0 DEF IInv, TabsNoted, Minds
<1>7. NoGhosts'
  BY <1>0 DEF IInv, NoGhosts, Held
<1>8. QED
  BY <1>1, <1>2, <1>5, <1>6, <1>7 DEF IInv

LEMMA LoseLeaveInv == ASSUME IInv, NEW s \in Socket, LoseLeave(s) PROVE IInv'
<1> USE DEF LoseLeave, db
<1>0. s[1] \in User
  BY VoiceRoomAssumption
<1>1. TypeOK'
  BY <1>0 DEF IInv, TypeOK
<1>2. InStep' /\ AliveOnline' /\ CutKnown' /\ TabsNoted'
  BY DEF IInv, InStep, AliveOnline, CutKnown, TabsNoted
<1>3. BanClears'
  BY DEF IInv, BanClears, Kicking, Joining
<1>4. NoGhosts'
  BY DEF IInv, NoGhosts, Held
<1>5. QED
  BY <1>1, <1>2, <1>3, <1>4 DEF IInv

LEMMA StopInv == ASSUME IInv, NEW i \in Instance, Stop(i) PROVE IInv'
<1> DEFINE here == {t \in todo : t.at = i}
           lost == {u \in User : \/ <<u, i>> \in tracked \cup grace
                                 \/ \E t \in here : t.who = u /\ Minds(t)}
           unsaid == {t.who : t \in {k \in here : k.op = "kick" /\ k.pc # "ban"}}
           Elsewhere(ss) == {s \in ss : s[2] # i}
<1>0. /\ TypeOK /\ todo' = todo \ here /\ fails' = fails + 1
      /\ online' = Elsewhere(online) /\ channel' = Elsewhere(channel)
      /\ tracked' = Elsewhere(tracked) /\ grace' = Elsewhere(grace)
      /\ leaving' = Elsewhere(leaving)
      /\ cut' = cut \cup lost /\ halfway' = halfway \cup unsaid
      /\ UNCHANGED <<row, banned, members, host, requests, slipped>>
  BY DEF Stop, Cut, IInv, db
<1>1. \A t \in todo : t.at # i => t \in todo'
  BY <1>0
<1>2. lost \subseteq User /\ unsaid \subseteq User
  BY <1>0 DEF TypeOK, Handler
<1>3. TypeOK'
  BY <1>0, <1>2 DEF TypeOK
<1>4. InStep' /\ CutKnown'
  BY <1>0 DEF IInv, InStep, CutKnown
<1>5. AliveOnline'
  <2> SUFFICES ASSUME NEW t \in todo'
               PROVE  /\ t.op = "join" /\ t.alive => <<t.who, t.at>> \in online'
                      /\ t.op = "drop" => <<t.who, t.at>> \in Socket
    BY DEF AliveOnline
  <2>1. t \in todo /\ <<t.who, t.at>>[2] # i
    BY <1>0
  <2>2. QED
    BY <1>0, <2>1 DEF IInv, AliveOnline
<1>6. \A v : Joining(v)' => Joining(v)
  BY <1>0 DEF Joining
<1>7. ASSUME NEW v, v \notin halfway', NEW pcs, "ban" \notin pcs, Kicking(v, pcs)
      PROVE  Kicking(v, pcs)'
  <2>1. PICK t \in todo : t.op = "kick" /\ t.who = v /\ t.pc \in pcs
    BY <1>7 DEF Kicking
  <2>2. t \notin here
    BY <1>0, <1>7, <2>1
  <2>3. QED
    BY <1>0, <2>1, <2>2 DEF Kicking
<1>8. channel' \ leaving' \subseteq channel \ leaving
  BY <1>0
<1>9. BanClears'
  BY <1>0, <1>6, <1>7, <1>8 DEF IInv, BanClears
<1>10. TabsNoted'
  <2> SUFFICES ASSUME NEW z \in channel' \ tracked', z[1] \notin cut'
               PROVE  \E q \in todo' : /\ q.op = "join" /\ q.who = z[1] /\ q.at = z[2]
                                       /\ q.alive /\ q.pc \in {"add", "cancel"}
    BY DEF TabsNoted
  <2>1. z \in channel \ tracked /\ z[2] # i /\ z[1] \notin cut
    BY <1>0
  <2>2. QED
    BY <1>1, <2>1 DEF IInv, TabsNoted
<1>11. ASSUME NEW v \in members \ cut' PROVE Held(v)'
  <2>1. Held(v) /\ v \in User /\ v \notin lost
    BY <1>0, <1>11 DEF IInv, NoGhosts, TypeOK
  <2>2. CASE \E z \in tracked \cup grace : z[1] = v
    <3>1. PICK z \in tracked \cup grace : z[1] = v
      BY <2>2
    <3>2. z = <<z[1], z[2]>>
      BY <1>0, <3>1, VoiceRoomAssumption DEF TypeOK
    <3>3. z[2] # i
      BY <2>1, <3>1, <3>2
    <3>4. QED
      BY <1>0, <3>1, <3>3 DEF Held
  <2>3. CASE \E t \in todo : t.who = v /\ Minds(t)
    <3>1. PICK t \in todo : t.who = v /\ Minds(t)
      BY <2>3
    <3>2. t \notin here
      BY <2>1, <3>1
    <3>3. QED
      BY <1>0, <3>1, <3>2 DEF Held, Minds
  <2>4. QED
    BY <2>1, <2>2, <2>3 DEF Held
<1>12. NoGhosts'
  BY <1>0, <1>11 DEF NoGhosts
<1>13. QED
  BY <1>3, <1>4, <1>5, <1>9, <1>10, <1>12 DEF IInv

LEMMA ForgetInv == ASSUME IInv, ForgetMembers \/ ForgetHost PROVE IInv'
<1>1. CASE ForgetMembers
  <2> USE <1>1 DEF ForgetMembers, db, sockets
  <2>1. cut' \subseteq cut /\ CutKnown' /\ TabsNoted'
    BY Mended
  <2>2. TypeOK' /\ InStep' /\ AliveOnline'
    BY <2>1 DEF IInv, TypeOK, InStep, AliveOnline
  <2>3. BanClears' /\ NoGhosts'
    BY DEF IInv, BanClears, NoGhosts, Kicking, Joining
  <2>4. QED
    BY <2>1, <2>2, <2>3 DEF IInv
<1>2. CASE ForgetHost
  <2> USE <1>2 DEF ForgetHost, db, sockets, ghosts
  <2>1. TypeOK' /\ InStep' /\ AliveOnline' /\ CutKnown' /\ TabsNoted'
    BY DEF IInv, TypeOK, InStep, AliveOnline, CutKnown, TabsNoted
  <2>2. BanClears' /\ NoGhosts'
    BY DEF IInv, BanClears, NoGhosts, Held, Kicking, Joining
  <2>3. QED
    BY <2>1, <2>2 DEF IInv
<1>3. QED
  BY <1>1, <1>2

-----------------------------------------------------------------------------
(* Theorems *)

LEMMA NextInv == IInv /\ [Next]_vars => IInv'
<1> SUFFICES ASSUME IInv, [Next]_vars PROVE IInv'
  OBVIOUS
<1>1. CASE UNCHANGED vars
  <2> USE <1>1 DEF vars, db, sockets, ghosts
  <2>1. TypeOK' /\ InStep' /\ AliveOnline' /\ CutKnown' /\ TabsNoted'
    BY DEF IInv, TypeOK, InStep, AliveOnline, CutKnown, TabsNoted
  <2>2. BanClears' /\ NoGhosts'
    BY DEF IInv, BanClears, NoGhosts, Held, Kicking, Joining
  <2>3. QED
    BY <2>1, <2>2 DEF IInv
<1>2. ASSUME NEW s \in Socket,
             \/ Connect(s[1], s[2]) \/ Disconnect(s[1], s[2]) \/ Expire(s[1], s[2])
             \/ BeginEnter(s[1], s[2]) \/ BeginJoin(s[1], s[2]) \/ BeginLeave(s[1], s[2])
             \/ HearLeave(s) \/ LoseLeave(s)
      PROVE  IInv'
  <2>1. s[1] \in User /\ s[2] \in Instance /\ <<s[1], s[2]>> \in Socket
    BY VoiceRoomAssumption
  <2>2. QED
    BY <1>2, <2>1, ConnectInv, DisconnectInv, ExpireInv, BeginSteps, HearLeaveInv, LoseLeaveInv
<1>3. ASSUME NEW u \in User, BeginKick(u) \/ Unban(u)
      PROVE  IInv'
  BY <1>3, BeginKickInv, UnbanInv
<1>4. ASSUME NEW t \in todo,
             \/ LookUp(t) \/ CountPeople(t) \/ WriteRow(t) \/ JoinChannel(t)
             \/ AddMember(t) \/ CancelGrace(t) \/ SetHostIfAbsent(t)
             \/ IsStillThere(t) \/ OtherTabs(t) \/ StartGrace(t)
             \/ Ban(t) \/ LeaveChannel(t) \/ RemoveMember(t) \/ ListMembers(t)
             \/ DropHost(t) \/ AmHost(t) \/ GiveHost(t) \/ TakeOut(t) \/ Fail(t)
      PROVE  IInv'
  BY <1>4, JoiningSteps, DroppingSteps, LeavingSteps, WriteRowInv, JoinChannelInv, AddMemberInv,
     CancelGraceInv, StartGraceInv, BanInv, LeaveChannelInv, RemoveMemberInv, TakeOutInv, FailInv
<1>5. ASSUME NEW i \in Instance, Stop(i)
      PROVE  IInv'
  BY <1>5, StopInv
<1>6. QED
  BY <1>1, <1>2, <1>3, <1>4, <1>5, ForgetInv DEF Next

\* The inductive invariant of a voice room: rows, members, sockets, timers,
\* words on their way and running handlers fit together in every reachable
\* state, whatever has failed.
THEOREM RoomInvariance == Spec => []IInv
BY InitInv, NextInv, PTL DEF Spec

\* Every reachable state has the types of the model.
THEOREM RoomTypeCorrect == Spec => []TypeOK
<1>1. IInv => TypeOK
  BY DEF IInv
<1>2. QED
  BY <1>1, RoomInvariance, PTL

\* After a kick has been carried through, a banned person has no row, is no
\* member and has no socket in the room that has not yet been told, unless a
\* join was already past the check of the ban.
THEOREM BansHold == Spec => []BanHolds
<1>1. ASSUME IInv, NEW u \in banned \ slipped
      PROVE  /\ row[u] = "none"
             /\ u \notin halfway /\ ~Kicking(u, Pc)
                  => u \notin members /\ \A s \in channel \ leaving : s[1] # u
  <2>1. \A pcs \in SUBSET Pc : Kicking(u, pcs) => Kicking(u, Pc)
    BY DEF Kicking
  <2>2. {"rem"} \in SUBSET Pc /\ {"rem", "list", "del", "out"} \in SUBSET Pc
    BY DEF Pc
  <2>3. QED
    BY <1>1, <2>1, <2>2 DEF IInv, BanClears
<1>2. IInv => BanHolds
  BY <1>1 DEF BanHolds
<1>3. QED
  BY <1>2, RoomInvariance, PTL

\* A member has a socket that will say when it goes, a grace timer or a handler
\* at work, unless their place was cut off in the middle and nobody has taken
\* them out since.
THEOREM GhostsAreAccounted == Spec => []NoGhosts
<1>1. IInv => NoGhosts
  BY DEF IInv
<1>2. QED
  BY <1>1, RoomInvariance, PTL
=============================================================================
