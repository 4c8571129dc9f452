------------------------------ MODULE VoiceStage ------------------------------
(***************************************************************************)
(* Who may speak in a stage room (voice.service.ts, livekit.service.ts,    *)
(* voice-moderation.gateway.ts).  The right follows from the creator of    *)
(* the room, the role and the host's mute in Postgres, but what counts is  *)
(* the permission the LiveKit server holds: it comes with the token a      *)
(* person connects with, as often as they like, and is changed afterwards  *)
(* by a word of every handler that changes the role or the mute.  No two   *)
(* of these writes are one step, a handler can stop between them, and a    *)
(* word that fails is only logged.  Everybody has a row, and the room is   *)
(* live in LiveKit.                                                        *)
(***************************************************************************)
EXTENDS Integers, FiniteSets

CONSTANTS User, CREATOR,
          MaxAtOnce,        \* bound on the handlers that run at once, for model checking
          MaxRequests,      \* bound on the requests people make
          MaxFails          \* bound on handlers that stop and words that are lost

ASSUME VoiceStageAssumption == /\ CREATOR \in User /\ "none" \notin User
                               /\ {MaxAtOnce, MaxRequests, MaxFails} \subseteq Nat

VARIABLES creator,  \* VoiceRoom.creatorId
          role,     \* role[u]: VoiceParticipant.role
          muted,    \* who has mutedByHost
          tokens,   \* the tokens handed out; none expires as long as we look
          mic,      \* mic[u]: what LiveKit allows while connected
          todo,     \* the handlers that run
          requests, \* requests so far
          fails,    \* failures so far
          astray    \* ghost: whose permission was last given by a stale word or
                    \* token, or about whom a word was lost

db == <<creator, role, muted>>
audio == <<tokens, mic>>
vars == <<db, audio, todo, requests, fails, astray>>

Role == {"LISTENER", "SPEAKER", "MODERATOR"}   \* nothing tells STAGE_SPEAKER from SPEAKER
Right == {"speak", "listen"}

\* stale is a ghost: what the token was signed for has been written since.
Token == [who : User, right : Right, stale : BOOLEAN]

\* A handler for who: boss is the creator as it read the room, role the role it
\* writes or got back, quiet mutedByHost as its update returned it, and after
\* the old host whose role a hand-over changes next.  stale is a ghost: another
\* handler has written what this one read.
Handler == [op : {"token", "mute", "unmute", "role", "hand", "rest"},
            pc : {"row", "flag", "mute", "unmute", "room", "role", "mic", "own"},
            who : User, boss : User, role : Role, quiet : BOOLEAN,
            after : User \cup {"none"}, stale : BOOLEAN]

TypeOK == /\ creator \in User
          /\ role \in [User -> Role]
          /\ {muted, astray} \subseteq SUBSET User
          /\ tokens \subseteq Token
          /\ mic \in [User -> Right \cup {"out"}]
          /\ todo \subseteq Handler
          /\ {requests, fails} \subseteq Nat

Init == /\ creator = CREATOR
        /\ role = [u \in User |-> IF u = CREATOR THEN "MODERATOR" ELSE "LISTENER"]
        /\ muted = {} /\ astray = {}
        /\ tokens = {}
        /\ mic = [u \in User |-> "out"]
        /\ todo = {} /\ requests = 0 /\ fails = 0

-----------------------------------------------------------------------------

\* canSpeakInRoom
CanSpeak(boss, u, r) == u = boss \/ r # "LISTENER"

RightOf(allowed) == IF allowed THEN "speak" ELSE "listen"

Give(u, right, stale) ==
  /\ mic' = [mic EXCEPT ![u] = right]
  /\ astray' = IF stale /\ right = "speak" THEN astray \cup {u} ELSE astray \ {u}

\* setCanPublish: nothing happens to somebody who is not connected; an error is
\* swallowed, as is a server that is not available.
SetCanPublish(t, allowed) ==
  \/ /\ mic[t.who] # "out"
     /\ Give(t.who, RightOf(allowed), t.stale)
     /\ UNCHANGED fails
  \/ /\ mic[t.who] = "out"
     /\ UNCHANGED <<mic, astray, fails>>
  \/ /\ mic[t.who] # "out"
     /\ fails < MaxFails
     /\ fails' = fails + 1
     /\ astray' = astray \cup {t.who}
     /\ UNCHANGED mic

Begin(op, pc, u, r, after) ==
  /\ requests < MaxRequests /\ Cardinality(todo) < MaxAtOnce
  /\ ~\E t \in todo : t.op = op /\ t.who = u
  /\ requests' = requests + 1
  /\ todo' = todo \cup {[op |-> op, pc |-> pc, who |-> u, boss |-> creator, role |-> r,
                         quiet |-> FALSE, after |-> after, stale |-> FALSE]}
Becomes(t, new) == todo' = (todo \ {t}) \cup new /\ UNCHANGED requests

\* A handler has read its row, or the room, for its next word or token.
HasRow(t) == t.pc \in {"unmute", "mic"}
HasRoom(t) == \/ t.op \in {"token", "unmute"}
              \/ t.op \in {"role", "hand"} /\ t.pc \in {"role", "mic"}

\* t writes something about u, which tokens and the handlers readers have read,
\* and goes on as new.
Overtakes(t, u, readers, new) ==
  LET older(k) == IF k.who = u THEN [k EXCEPT !.stale = TRUE] ELSE k
      behind(o) == IF o.who = u /\ o \in readers THEN [o EXCEPT !.stale = TRUE] ELSE o IN
  /\ tokens' = {older(k) : k \in tokens}
  /\ todo' = {behind(o) : o \in todo \ {t}} \cup new
  /\ UNCHANGED requests

-----------------------------------------------------------------------------
(* Connecting to the audio *)

BeginToken(u) ==
  /\ Begin("token", "row", u, role[u], "none")
  /\ UNCHANGED <<db, audio, fails, astray>>

\* joinRoom signs a token with what the row says, for the room it read before.
SignToken(t) ==
  /\ t.op = "token"
  /\ LET right == RightOf(CanSpeak(t.boss, t.who, role[t.who]) /\ t.who \notin muted) IN
     tokens' = tokens \cup {[who |-> t.who, right |-> right, stale |-> t.stale]}
  /\ Becomes(t, {})
  /\ UNCHANGED <<db, mic, fails, astray>>

\* The client connects with a token it has, for the first time or again.
ConnectAudio(k) ==
  /\ Give(k.who, k.right, k.stale)
  /\ UNCHANGED <<db, tokens, todo, requests, fails>>

DisconnectAudio(u) ==
  /\ mic[u] # "out"
  /\ mic' = [mic EXCEPT ![u] = "out"]
  /\ astray' = astray \ {u}
  /\ UNCHANGED <<db, tokens, todo, requests, fails>>

-----------------------------------------------------------------------------
(* Muting.  A manager, such as the host, asks for it. *)

BeginMute(u) ==
  /\ u # creator
  /\ Begin("mute", "flag", u, role[u], "none")
  /\ UNCHANGED <<db, audio, fails, astray>>

BeginUnmute(u) ==
  /\ Begin("unmute", "flag", u, role[u], "none")
  /\ UNCHANGED <<db, audio, fails, astray>>

WriteMute(t) ==
  /\ t.pc = "flag"
  /\ muted' = IF t.op = "mute" THEN muted \cup {t.who} ELSE muted \ {t.who}
  /\ Overtakes(t, t.who, {o \in todo : HasRow(o)}, {[t EXCEPT !.pc = t.op, !.role = role[t.who]]})
  /\ UNCHANGED <<creator, role, mic, fails, astray>>

SetMute(t) ==
  /\ t.pc \in {"mute", "unmute"}
  /\ SetCanPublish(t, t.op = "unmute" /\ CanSpeak(t.boss, t.who, t.role))
  /\ Becomes(t, {})
  /\ UNCHANGED <<db, tokens>>

-----------------------------------------------------------------------------
(* Roles *)

\* promote, demote, promote-speaker and the REST call, by the host or a manager.
BeginRole(u, r) ==
  /\ Begin("role", "room", u, r, "none")
  /\ UNCHANGED <<db, audio, fails, astray>>

\* Two ways to hand over the host: the event and the REST call, which does not
\* look whether it is the same person.
BeginHandOver(op, u) ==
  /\ op \in {"hand", "rest"}
  /\ op = "hand" => u # creator
  /\ Begin(op, "own", u, "MODERATOR", creator)
  /\ UNCHANGED <<db, audio, fails, astray>>

\* A creator of a hand-over in between loses the room without a word.
WriteCreator(t) ==
  /\ t.pc = "own"
  /\ creator' = t.who
  /\ Overtakes(t, creator, {o \in todo : HasRoom(o)},
               {[t EXCEPT !.pc = IF t.op = "rest" THEN "role" ELSE "room"]})
  /\ astray' = astray \cup ({creator} \ {t.who, t.after})
  /\ UNCHANGED <<role, muted, mic, fails>>

\* applyParticipantRole: reads the room, ...
ReadRoom(t) ==
  /\ t.pc = "room"
  /\ Becomes(t, {[t EXCEPT !.pc = "role", !.boss = creator, !.stale = FALSE]})
  /\ UNCHANGED <<db, audio, fails, astray>>

\* The event leaves the old host a speaker, the REST call a moderator.
OldHostNext(t) ==
  IF t.after = "none" THEN {}
  ELSE {[t EXCEPT !.who = t.after, !.after = "none", !.quiet = FALSE,
                  !.pc = IF t.op = "rest" THEN "role" ELSE "room",
                  !.role = IF t.op = "rest" THEN "MODERATOR" ELSE "SPEAKER"]}

\* ... writes the role, which returns the mute of that moment ...  The REST call
\* writes the roles and leaves the audio alone.
WriteRole(t) ==
  /\ t.pc = "role"
  /\ role' = [role EXCEPT ![t.who] = t.role]
  /\ Overtakes(t, t.who, {o \in todo : HasRow(o)},
               IF t.op = "rest" THEN OldHostNext(t)
               ELSE {[t EXCEPT !.pc = "mic", !.quiet = t.who \in muted]})
  /\ UNCHANGED <<creator, muted, mic, fails, astray>>

\* Seeded bug: the mute is forgotten.
SetMicAlways(t) ==
  /\ t.pc = "mic"
  /\ SetCanPublish(t, CanSpeak(t.boss, t.who, t.role))
  /\ Becomes(t, OldHostNext(t))
  /\ UNCHANGED <<db, tokens>>

\* ... and tells LiveKit.
SetMic(t) ==
  /\ t.pc = "mic"
  /\ SetCanPublish(t, CanSpeak(t.boss, t.who, t.role) /\ ~t.quiet)
  /\ Becomes(t, OldHostNext(t))
  /\ UNCHANGED <<db, tokens>>

-----------------------------------------------------------------------------
(* What goes wrong *)

OldHost(t) == IF t.after = "none" THEN t.who ELSE t.after

\* t has written something that lowers u, and has not told LiveKit yet.
Owes(t, u) == \/ t.pc = "mute" /\ u = t.who
              \/ t.op = "role" /\ t.pc = "mic" /\ u = t.who
              \/ t.op \in {"hand", "rest"} /\ t.pc # "own" /\ u = OldHost(t)

\* A handler stops where it is: a statement fails, or its instance.
Fail(t) ==
  /\ fails < MaxFails
  /\ fails' = fails + 1
  /\ Becomes(t, {})
  /\ astray' = astray \cup {u \in User : Owes(t, u)}
  /\ UNCHANGED <<db, audio>>

-----------------------------------------------------------------------------

Next == \/ \E u \in User : \/ BeginToken(u) \/ DisconnectAudio(u)
                           \/ BeginMute(u) \/ BeginUnmute(u)
                           \/ \E r \in Role : BeginRole(u, r)
                           \/ \E op \in {"hand", "rest"} : BeginHandOver(op, u)
        \/ \E k \in tokens : ConnectAudio(k)
        \/ \E t \in todo : \/ SignToken(t) \/ WriteMute(t) \/ SetMute(t) \/ WriteCreator(t)
                           \/ ReadRoom(t) \/ WriteRole(t) \/ SetMic(t) \/ Fail(t)

Spec == Init /\ [][Next]_vars

-----------------------------------------------------------------------------
(* Properties *)

\* Whatever mutes, role changes, hand-overs and reconnections overlap or stop
\* half-way: once the handler that lowered them has told LiveKit, whoever can
\* publish is on stage and not muted, unless the last they got was a word or a
\* token that somebody else's write had overtaken, or the word of the handler
\* that lowered them never arrived (voice.service.ts:743-750, 925-933).
MicWithinRight ==
  \A u \in User \ astray :
    mic[u] = "speak" /\ ~(\E t \in todo : Owes(t, u))
      => CanSpeak(creator, u, role[u]) /\ u \notin muted

-----------------------------------------------------------------------------
(* What a comment promises and the code does not keep: see the README *)

\* voice.service.ts:930: "a person the host muted stays unable to publish
\* whatever their role".  A token signed before the mute still lets them speak,
\* and so does a role whose word overtakes that of the mute.
MutedCannotPublish ==
  \A u \in muted : mic[u] = "speak" => \E t \in todo : t.who = u \/ t.after = u

-----------------------------------------------------------------------------
(* The inductive invariant behind MicWithinRight *)

\* The right a person has by the rows.
Entitled(u) == CanSpeak(creator, u, role[u])

Steps == [token  |-> {"row"},
          mute   |-> {"flag", "mute"},
          unmute |-> {"flag", "unmute"},
          role   |-> {"room", "role", "mic"},
          hand   |-> {"own", "room", "role", "mic"},
          rest   |-> {"own", "role"}]
InStep == \A t \in todo : /\ t.pc \in Steps[t.op]
                          /\ t.op \in {"hand", "rest"} => t.role # "LISTENER"

\* What a handler that is not stale has read is still so.
Fresh == \A t \in todo : ~t.stale =>
  /\ HasRoom(t) /\ t.who = t.boss => t.who = creator
  /\ t.pc = "unmute" => t.who \notin muted /\ t.role = role[t.who]
  /\ t.pc = "mic" => t.role = role[t.who] /\ (t.quiet <=> t.who \in muted)

TokensRight == \A k \in tokens :
  k.right = "speak" /\ ~k.stale => Entitled(k.who) /\ k.who \notin muted

\* Whoever can publish and may not is about to be told.
MicsRight == \A u \in User \ astray : mic[u] = "speak" =>
  /\ u \in muted => \E t \in todo : t.who = u /\ t.pc = "mute"
  /\ Entitled(u) \/ \E t \in todo : Owes(t, u)

IInv == TypeOK /\ InStep /\ Fresh /\ TokensRight /\ MicsRight
=============================================================================
