------------------------------ MODULE VoiceRoom ------------------------------
(***************************************************************************)
(* Who is in a voice room (voice.service.ts, voice.gateway.ts,             *)
(* voice-room-state.ts, voice-moderation.gateway.ts).  A person's place is *)
(* written down three times: the VoiceParticipant row in Postgres, the set *)
(* of members in Redis that all server instances share, and the socket.io  *)
(* channel their sockets are in.  Every handler writes them one after the  *)
(* other, and a dropped connection is forgiven for a while by a timer that *)
(* lives in one instance.  A handler can fail at every await, an instance  *)
(* can stop and come back empty, and a word from one instance to the       *)
(* others arrives late or never.  The room is open to everyone and         *)
(* running, and stays with the host who made it.                           *)
(***************************************************************************)
EXTENDS Integers, FiniteSets

CONSTANTS User,
          Instance,         \* server instances
          Socket,           \* the tabs people may have: a person and an instance
          CREATOR,          \* the host; handing over is in VoiceStage
          maxParticipants,
          MaxAtOnce,        \* bound on the handlers that run at once, for model checking
          MaxRequests,      \* bound on the connections and requests people make
          MaxFails          \* bound on failing handlers, lost words and stopping instances

ASSUME VoiceRoomAssumption == /\ CREATOR \in User
                              /\ Socket \subseteq User \X Instance
                              /\ maxParticipants \in Nat
                              /\ {MaxAtOnce, MaxRequests, MaxFails} \subseteq Nat

VARIABLES row,      \* row[u]: the VoiceParticipant row; "left" has a leftAt
          banned,   \* who has a VoiceRoomBan row
          members,  \* sb:voice:room:<id>:members
          host,     \* sb:voice:room:<id>:host
          online,   \* connected sockets, a person and an instance each
          channel,  \* the sockets in the socket.io room
          tracked,  \* the sockets whose voiceRoomIds name the room
          grace,    \* pendingLeaves: a person and the instance with the timer
          leaving,  \* the sockets that socketsLeave has still to take out
          todo,     \* the handlers that run
          requests, \* connections and requests so far
          fails,    \* failures so far
          slipped,  \* ghost: a join had passed the check of the ban when it was written
          halfway,  \* ghost: a kick failed after the ban, or its word was lost
          cut       \* ghost: their connection or a handler on which their place hung
                    \* went in the middle, or the instance did

vars == <<row, banned, members, host, online, channel, tracked, grace, leaving,
          todo, requests, fails, slipped, halfway, cut>>
db == <<row, banned>>
sockets == <<online, channel, tracked, grace, leaving>>
ghosts == <<slipped, halfway, cut>>

NoHost == "nobody"
RowState == {"none", "in", "left"}

Op == {"enter", "join", "leave", "drop", "expire", "kick"}
Pc == {"look", "count", "row", "channel", "add", "cancel", "first", "there", "tabs",
       "set", "ban", "quit", "rem", "list", "del", "host", "give", "out"}

\* A handler for somebody's place: on the socket of an instance while it is
\* alive; seen is the row it read, present whether it removed a member, rest
\* the members it read.
Handler == [op : Op, who : User, at : Instance, alive : BOOLEAN, pc : Pc,
            seen : RowState, present : BOOLEAN, rest : SUBSET User]

TypeOK == /\ row \in [User -> RowState]
          /\ {banned, members, slipped, halfway, cut} \subseteq SUBSET User
          /\ host \in User \cup {NoHost}
          /\ {online, channel, tracked, grace, leaving} \subseteq SUBSET Socket
          /\ channel \subseteq online /\ tracked \subseteq online
          /\ todo \subseteq Handler
          /\ {requests, fails} \subseteq Nat

\* The host has made the room and is connected.
Init == /\ row = [u \in User |-> IF u = CREATOR THEN "left" ELSE "none"]
        /\ host = NoHost
        /\ banned = {} /\ members = {} /\ channel = {} /\ tracked = {}
        /\ online = {s \in Socket : s[1] = CREATOR}
        /\ grace = {} /\ leaving = {} /\ todo = {} /\ requests = 0 /\ fails = 0
        /\ slipped = {} /\ halfway = {} /\ cut = {}

-----------------------------------------------------------------------------
(* Running handlers *)

Begun(op, u, i, pc) == [op |-> op, who |-> u, at |-> i, alive |-> TRUE, pc |-> pc,
                        seen |-> "none", present |-> FALSE, rest |-> {}]

\* A client waits for the answer to a request before it repeats it on a socket.
Runs(op, u, i) == \E t \in todo : t.op = op /\ t.who = u /\ t.at = i /\ t.alive

Begin(op, u, i, pc) == /\ requests < MaxRequests
                       /\ Cardinality(todo) < MaxAtOnce
                       /\ ~Runs(op, u, i)
                       /\ todo' = todo \cup {Begun(op, u, i, pc)}
                       /\ requests' = requests + 1
Becomes(t, r) == todo' = (todo \ {t}) \cup {r} /\ UNCHANGED requests
Goes(t, pc) == Becomes(t, [t EXCEPT !.pc = pc])
Ends(t) == todo' = todo \ {t} /\ UNCHANGED requests

\* A join that has passed the check of the ban and has still to write something.
Joining(u) == \E t \in todo : /\ t.op \in {"enter", "join"} /\ t.who = u
                             /\ t.pc \in {"look", "count", "row", "channel", "add"}

\* A place hangs on handler t: it is about to note the socket, to look after a
\* dropped one, or to take the member out.
Minds(t) == \/ t.op = "join" /\ t.alive /\ t.pc \in {"add", "cancel"}
            \/ t.op = "drop"
            \/ t.op \in {"leave", "expire"} /\ t.pc = "rem"

\* A join is under way, or has left a socket in the room that it did not note.
HalfIn(u) == \/ \E t \in todo : t.op = "join" /\ t.who = u /\ t.pc # "first"
             \/ \E s \in channel \ tracked : s[1] = u

Cut(us) == cut' = cut \cup us

\* Who is taken out of the members has no place left that could be cut.
Mend(us) == cut' = cut \ {u \in us : ~HalfIn(u)}

-----------------------------------------------------------------------------
(* Sockets *)

Connect(u, i) ==
  /\ <<u, i>> \notin online
  /\ requests < MaxRequests
  /\ requests' = requests + 1
  /\ online' = online \cup {<<u, i>>}
  /\ UNCHANGED <<db, members, host, channel, tracked, grace, leaving, todo, fails, ghosts>>

\* socket.io takes the socket out of its rooms; handleDisconnect runs for the
\* rooms in voiceRoomIds.  Handlers of the socket run on without it.
Disconnect(u, i) ==
  LET s == <<u, i>>
      orphan(t) == IF t.op \in {"join", "leave"} /\ t.who = u /\ t.at = i
                   THEN [t EXCEPT !.alive = FALSE] ELSE t IN
  /\ s \in online
  /\ online' = online \ {s} /\ channel' = channel \ {s} /\ tracked' = tracked \ {s}
  /\ todo' = {orphan(t) : t \in todo}
             \cup (IF s \in tracked THEN {Begun("drop", u, i, "there")} ELSE {})
  /\ Cut(IF \E t \in todo : /\ t.op = "join" /\ t.who = u /\ t.at = i
                            /\ t.alive /\ t.pc # "first" THEN {u} ELSE {})
  /\ UNCHANGED <<db, members, host, grace, leaving, requests, fails, slipped, halfway>>

IsStillThere(t) ==
  /\ t.op = "drop" /\ t.pc = "there"
  /\ IF t.who \in members THEN Goes(t, "tabs") ELSE Ends(t)
  /\ UNCHANGED <<db, members, host, sockets, fails, ghosts>>

\* Seeded bug: anybody's socket in the room counts as another tab.
AnyTabs(t) ==
  /\ t.op = "drop" /\ t.pc = "tabs"
  /\ IF channel # {} THEN Ends(t) ELSE Goes(t, "set")
  /\ UNCHANGED <<db, members, host, sockets, fails, ghosts>>

\* Not while another tab or device is in the room.
OtherTabs(t) ==
  /\ t.op = "drop" /\ t.pc = "tabs"
  /\ IF \E s \in channel : s[1] = t.who THEN Ends(t) ELSE Goes(t, "set")
  /\ UNCHANGED <<db, members, host, sockets, fails, ghosts>>

StartGrace(t) ==
  /\ t.op = "drop" /\ t.pc = "set"
  /\ grace' = grace \cup {<<t.who, t.at>>}
  /\ Ends(t)
  /\ UNCHANGED <<db, members, host, online, channel, tracked, leaving, fails, ghosts>>

Expire(u, i) ==
  /\ <<u, i>> \in grace
  /\ ~Runs("expire", u, i)
  /\ grace' = grace \ {<<u, i>>}
  /\ todo' = todo \cup {Begun("expire", u, i, "rem")}
  /\ UNCHANGED requests
  /\ UNCHANGED <<db, members, host, online, channel, tracked, leaving, fails, ghosts>>

-----------------------------------------------------------------------------
(* Joining: over REST (enter: only the row) and over the socket (join) *)

BeginEnter(u, i) ==
  /\ u \notin banned
  /\ Begin("enter", u, i, "look")
  /\ UNCHANGED <<db, members, host, sockets, fails, ghosts>>

BeginJoin(u, i) ==
  /\ <<u, i>> \in online
  /\ u \notin banned
  /\ Begin("join", u, i, "look")
  /\ UNCHANGED <<db, members, host, sockets, fails, ghosts>>

LookUp(t) ==
  LET at == CASE t.op = "join" /\ row[t.who] = "in"    -> "channel"
              [] t.op = "enter" /\ row[t.who] = "none" -> "count"
              [] OTHER                                 -> "row" IN
  /\ t.pc = "look"
  /\ IF t.op = "enter" /\ row[t.who] = "in" THEN Ends(t)
     ELSE Becomes(t, [t EXCEPT !.pc = at, !.seen = IF at = "channel" THEN "none" ELSE row[t.who]])
  /\ UNCHANGED <<db, members, host, sockets, fails, ghosts>>

CountPeople(t) ==
  /\ t.pc = "count"
  /\ IF Cardinality({u \in User : row[u] = "in"}) >= maxParticipants
     THEN Ends(t) ELSE Goes(t, "row")
  /\ UNCHANGED <<db, members, host, sockets, fails, ghosts>>

\* create fails when the row is there by now, update when it is gone.
WriteRow(t) ==
  /\ t.pc = "row"
  /\ IF (t.seen = "none") = (row[t.who] = "none")
     THEN /\ row' = [row EXCEPT ![t.who] = "in"]
          /\ IF t.op = "join"
             THEN Becomes(t, [t EXCEPT !.pc = "channel", !.seen = "none"]) ELSE Ends(t)
     ELSE Ends(t) /\ UNCHANGED row
  /\ UNCHANGED <<banned, members, host, sockets, fails, ghosts>>

\* Seeded bug: the socket is put in the channel even after it disconnected.
JoinChannelAnyway(t) ==
  /\ t.pc = "channel"
  /\ channel' = channel \cup {<<t.who, t.at>>}
  /\ Goes(t, "add")
  /\ UNCHANGED <<db, members, host, online, tracked, grace, leaving, fails, ghosts>>

JoinChannel(t) ==
  /\ t.pc = "channel"
  /\ channel' = IF t.alive THEN channel \cup {<<t.who, t.at>>} ELSE channel
  /\ Goes(t, "add")
  /\ UNCHANGED <<db, members, host, online, tracked, grace, leaving, fails, ghosts>>

AddMember(t) ==
  /\ t.pc = "add"
  /\ members' = members \cup {t.who}
  /\ Goes(t, "cancel")
  /\ UNCHANGED <<db, host, sockets, fails, ghosts>>

\* cancelPendingLeave knows the timers of its own instance only.
CancelGrace(t) ==
  /\ t.pc = "cancel"
  /\ tracked' = IF t.alive THEN tracked \cup {<<t.who, t.at>>} ELSE tracked
  /\ grace' = grace \ {<<t.who, t.at>>}
  /\ Goes(t, "first")
  /\ UNCHANGED <<db, members, host, online, channel, leaving, fails, ghosts>>

SetHostIfAbsent(t) ==
  /\ t.pc = "first"
  /\ host' = IF host = NoHost THEN CREATOR ELSE host
  /\ Ends(t)
  /\ UNCHANGED <<db, members, sockets, fails, ghosts>>

-----------------------------------------------------------------------------
(* Leaving: voice:leave, the end of the grace period, and a kick *)

\* voice:leave of somebody without a row fails on the update.
BeginLeave(u, i) ==
  /\ <<u, i>> \in online
  /\ row[u] # "none"
  /\ row' = [row EXCEPT ![u] = "left"]
  /\ Begin("leave", u, i, "quit")
  /\ UNCHANGED <<banned, members, host, sockets, fails, ghosts>>

\* The socket leaves the room and forgets it.
LeaveChannel(t) ==
  LET gone == IF t.alive THEN {<<t.who, t.at>>} ELSE {} IN
  /\ t.pc = "quit"
  /\ channel' = channel \ gone /\ tracked' = tracked \ gone
  /\ Goes(t, "rem")
  /\ UNCHANGED <<db, members, host, online, grace, leaving, fails, ghosts>>

BeginKick(u) ==
  /\ u # CREATOR
  /\ \E s \in online : s[1] = CREATOR /\ Begin("kick", u, s[2], "ban")
  /\ UNCHANGED <<db, members, host, sockets, fails, ghosts>>

\* One transaction writes the ban and deletes the row.
Ban(t) ==
  /\ t.pc = "ban"
  /\ banned' = banned \cup {t.who}
  /\ row' = [row EXCEPT ![t.who] = "none"]
  /\ slipped' = IF Joining(t.who) THEN slipped \cup {t.who} ELSE slipped \ {t.who}
  /\ halfway' = halfway \ {t.who}
  /\ Goes(t, "rem")
  /\ UNCHANGED <<members, host, sockets, fails, cut>>

Unban(u) ==
  /\ u \in banned
  /\ banned' = banned \ {u}
  /\ UNCHANGED <<row, members, host, sockets, todo, requests, fails, ghosts>>

\* removeParticipant: three commands to Redis; only someone who was present
\* has a host entry to give up.
RemoveMember(t) ==
  /\ t.pc = "rem"
  /\ members' = members \ {t.who}
  /\ Becomes(t, [t EXCEPT !.pc = "list", !.present = t.who \in members])
  /\ Mend({t.who})
  /\ UNCHANGED <<db, host, sockets, fails, slipped, halfway>>

\* What a handler does after removeParticipant.
Removed(t, rest) ==
  IF t.op = "kick" THEN Goes(t, "out")
  ELSE IF t.present /\ rest # {} THEN Becomes(t, [t EXCEPT !.pc = "host", !.rest = rest])
  ELSE Ends(t)

ListMembers(t) ==
  /\ t.pc = "list"
  /\ IF members = {} THEN Goes(t, "del") ELSE Removed(t, members)
  /\ UNCHANGED <<db, members, host, sockets, fails, ghosts>>

DropHost(t) ==
  /\ t.pc = "del"
  /\ host' = NoHost
  /\ Removed(t, {})
  /\ UNCHANGED <<db, members, sockets, fails, ghosts>>

\* The creator hands the room to somebody who was still there a moment ago.
AmHost(t) ==
  /\ t.pc = "host"
  /\ IF host = t.who /\ t.who = CREATOR THEN Goes(t, "give") ELSE Ends(t)
  /\ UNCHANGED <<db, members, host, sockets, fails, ghosts>>

GiveHost(t) ==
  /\ t.pc = "give"
  /\ host' \in t.rest
  /\ Ends(t)
  /\ UNCHANGED <<db, members, sockets, fails, ghosts>>

\* Seeded bug: only the sockets of the instance that handles the kick.
TakeOutHere(t) ==
  /\ t.pc = "out"
  /\ leaving' = leaving \cup ({<<t.who, t.at>>} \cap Socket)
  /\ Ends(t)
  /\ UNCHANGED <<db, members, host, online, channel, tracked, grace, fails, ghosts>>

\* socketsLeave: a word to every instance, for which nobody waits.
TakeOut(t) ==
  /\ t.pc = "out"
  /\ leaving' = leaving \cup {s \in Socket : s[1] = t.who}
  /\ Ends(t)
  /\ UNCHANGED <<db, members, host, online, channel, tracked, grace, fails, ghosts>>

HearLeave(s) ==
  /\ s \in leaving
  /\ leaving' = leaving \ {s}
  /\ channel' = channel \ {s}
  /\ UNCHANGED <<db, members, host, online, tracked, grace, todo, requests, fails, ghosts>>

-----------------------------------------------------------------------------
(* What goes wrong *)

\* A statement, a Redis command or fetchSockets fails: the handler's catch ends
\* it (handleDisconnect and the timer have none, and end as well).
Fail(t) ==
  /\ fails < MaxFails
  /\ fails' = fails + 1
  /\ Ends(t)
  /\ Cut(IF Minds(t) THEN {t.who} ELSE {})
  /\ halfway' = IF t.op = "kick" /\ t.pc # "ban" THEN halfway \cup {t.who} ELSE halfway
  /\ UNCHANGED <<db, members, host, sockets, slipped>>

\* Nobody hears the word: published while an instance had no connection.
LoseLeave(s) ==
  /\ s \in leaving
  /\ fails < MaxFails
  /\ fails' = fails + 1
  /\ leaving' = leaving \ {s}
  /\ halfway' = halfway \cup {s[1]}
  /\ UNCHANGED <<db, members, host, online, channel, tracked, grace, todo, requests, slipped, cut>>

\* An instance stops, with its sockets, timers and handlers; what starts in its
\* place knows nothing.
Stop(i) ==
  LET here == {t \in todo : t.at = i}
      Elsewhere(ss) == {s \in ss : s[2] # i} IN
  /\ fails < MaxFails
  /\ fails' = fails + 1
  /\ online' = Elsewhere(online) /\ channel' = Elsewhere(channel)
  /\ tracked' = Elsewhere(tracked) /\ grace' = Elsewhere(grace)
  /\ leaving' = Elsewhere(leaving)
  /\ todo' = todo \ here
  /\ Cut({u \in User : \/ <<u, i>> \in tracked \cup grace
                       \/ \E t \in here : t.who = u /\ Minds(t)})
  /\ halfway' = halfway \cup {t.who : t \in {k \in here : k.op = "kick" /\ k.pc # "ban"}}
  /\ UNCHANGED <<db, members, host, requests, slipped>>

\* ROOM_TTL_SECONDS: twelve hours after the last join, or the last host; what
\* takes seconds is over then.
Still == todo = {} /\ grace = {} /\ leaving = {}

ForgetMembers ==
  /\ Still
  /\ members # {}
  /\ members' = {}
  /\ Mend(User)
  /\ UNCHANGED <<db, host, sockets, todo, requests, fails, slipped, halfway>>

ForgetHost ==
  /\ Still
  /\ host # NoHost
  /\ host' = NoHost
  /\ UNCHANGED <<db, members, sockets, todo, requests, fails, ghosts>>

-----------------------------------------------------------------------------

Next == \/ \E s \in Socket :
             \/ Connect(s[1], s[2]) \/ Disconnect(s[1], s[2]) \/ Expire(s[1], s[2])
             \/ BeginEnter(s[1], s[2]) \/ BeginJoin(s[1], s[2]) \/ BeginLeave(s[1], s[2])
             \/ HearLeave(s) \/ LoseLeave(s)
        \/ \E u \in User : BeginKick(u) \/ Unban(u)
        \/ \E t \in todo :
             \/ LookUp(t) \/ CountPeople(t) \/ WriteRow(t) \/ JoinChannel(t)
             \/ AddMember(t) \/ CancelGrace(t) \/ SetHostIfAbsent(t)
             \/ IsStillThere(t) \/ OtherTabs(t) \/ StartGrace(t)
             \/ Ban(t) \/ LeaveChannel(t) \/ RemoveMember(t) \/ ListMembers(t)
             \/ DropHost(t) \/ AmHost(t) \/ GiveHost(t) \/ TakeOut(t) \/ Fail(t)
        \/ \E i \in Instance : Stop(i)
        \/ ForgetMembers \/ ForgetHost

Spec == Init /\ [][Next]_vars

-----------------------------------------------------------------------------
(* Properties *)

Kicking(u, pcs) == \E t \in todo : t.op = "kick" /\ t.who = u /\ t.pc \in pcs

\* Unless a join had already passed its check when the ban was written, a banned
\* person has no row until the ban is lifted; and once a kick has been carried
\* through, they are among no members and in no socket room that has not yet
\* been told, whatever their other tabs, reconnections and grace timers do, and
\* whatever other handlers fail (voice-moderation.gateway.ts:48-75).
BanHolds ==
  \A u \in banned \ slipped :
    /\ row[u] = "none"
    /\ u \notin halfway /\ ~Kicking(u, Pc)
         => u \notin members /\ \A s \in channel \ leaving : s[1] # u

\* Who holds a member's place: a connected socket that will say when it goes, a
\* grace timer, or a handler that is about to see to it.
Held(u) == \/ \E s \in tracked \cup grace : s[1] = u
           \/ \E t \in todo : t.who = u /\ Minds(t)

\* Nobody stays listed as a member after their connection is gone, whatever
\* tabs, timers and handlers of several instances do, with two exceptions: the
\* connection went in the middle of a join, or a handler on which the place hung
\* failed or an instance stopped, and they have not been taken out of the
\* members since (voice.gateway.ts:130-160, voice-room-state.ts:5).
NoGhosts == \A u \in members \ cut : Held(u)

\* voice.service.ts:130: "there is no moment in which they could slip back in".
KickedStaysOut ==
  \A u \in banned : row[u] # "none" => \E t \in todo : t.op = "kick" /\ t.who = u

-----------------------------------------------------------------------------
(* The inductive invariant behind BanHolds and NoGhosts *)

\* A handler is at a step of its operation.
Steps == [enter  |-> {"look", "count", "row"},
          join   |-> {"look", "row", "channel", "add", "cancel", "first"},
          leave  |-> {"quit", "rem", "list", "del", "host", "give"},
          drop   |-> {"there", "tabs", "set"},
          expire |-> {"rem", "list", "del", "host", "give"},
          kick   |-> {"ban", "rem", "list", "del", "out"}]
InStep == \A t \in todo : t.pc \in Steps[t.op]

\* The joins of a socket that has gone know, and only sockets are dropped.
AliveOnline ==
  \A t \in todo :
    /\ t.op = "join" /\ t.alive => <<t.who, t.at>> \in online
    /\ t.op = "drop" => <<t.who, t.at>> \in Socket

\* Somebody banned has no join under way, and what is left of them the kick
\* has still to take away.
BanClears ==
  \A u \in banned \ slipped :
    /\ ~Joining(u)
    /\ row[u] = "none"
    /\ u \in members \ halfway => Kicking(u, {"rem"})
    /\ u \notin halfway => \A s \in channel \ leaving :
         s[1] = u => Kicking(u, {"rem", "list", "del", "out"})

\* A join whose socket has gone is known.
CutKnown == \A t \in todo : t.op = "join" /\ t.pc # "first" => t.alive \/ t.who \in cut

\* A socket in the room that has not noted it belongs to a join that will.
TabsNoted ==
  \A s \in channel \ tracked :
    s[1] \in cut \/ \E t \in todo : /\ t.op = "join" /\ t.who = s[1] /\ t.at = s[2]
                                   /\ t.alive /\ t.pc \in {"add", "cancel"}

IInv == /\ TypeOK
        /\ InStep
        /\ AliveOnline
        /\ BanClears
        /\ CutKnown
        /\ TabsNoted
        /\ NoGhosts
=============================================================================
