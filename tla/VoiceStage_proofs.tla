-------------------------- MODULE VoiceStage_proofs --------------------------
(***************************************************************************)
(* Proofs about VoiceStage, for any number of people, of handlers at once  *)
(* and of failures: who can publish is on stage and not muted.  The        *)
(* argument: what a handler or a token was told is still so unless somebody *)
(* else's write overtook it (stale), so its next word is the right one; and *)
(* whoever holds a right that the rows no longer give is about to lose it  *)
(* by a handler that owes LiveKit a word, or has gone astray.              *)
(***************************************************************************)
EXTENDS VoiceStage, TLAPS

Op == {"token", "mute", "unmute", "role", "hand", "rest"}

\* What a handler's step says of its operation.
LEMMA StepOf ==
  ASSUME IInv, NEW t \in todo
  PROVE  /\ TypeOK /\ t \in Handler /\ t.op \in Op /\ t.pc \in Steps[t.op]
         /\ t.op = "token" => t.pc = "row"
         /\ t.pc = "flag" => t.op \in {"mute", "unmute"}
         /\ t.pc \in {"mute", "unmute"} => t.op = t.pc
         /\ t.pc = "room" => t.op \in {"role", "hand"}
         /\ t.pc = "mic" => t.op \in {"role", "hand"}
         /\ t.pc = "role" => t.op \in {"role", "hand", "rest"}
         /\ t.pc = "own" => t.op \in {"hand", "rest"}
         /\ t.op \in {"hand", "rest"} => t.role # "LISTENER"
<1>1. TypeOK /\ t \in Handler /\ t.pc \in Steps[t.op]
      /\ (t.op \in {"hand", "rest"} => t.role # "LISTENER")
  <2>1. TypeOK /\ InStep
    BY DEF IInv
  <2>2. t \in Handler
    BY <2>1 DEF TypeOK
  <2>3. QED
    BY <2>1, <2>2 DEF InStep
<1>2. t.op \in Op
  BY <1>1 DEF Handler, Op
<1>3. CASE t.op \in {"token", "mute", "unmute"}
  BY <1>1, <1>2, <1>3 DEF Steps
<1>4. CASE t.op \in {"role", "hand", "rest"}
  BY <1>1, <1>2, <1>4 DEF Steps
<1>5. QED
  BY <1>2, <1>3, <1>4 DEF Op

LEMMA StageInit == Init => IInv
<1> SUFFICES ASSUME Init PROVE IInv
  OBVIOUS
<1>1. TypeOK
  BY VoiceStageAssumption DEF Init, TypeOK, Role, Right
<1>2. InStep /\ Fresh /\ TokensRight /\ MicsRight
  BY DEF Init, InStep, Fresh, TokensRight, MicsRight
<1>3. QED
  BY <1>1, <1>2 DEF IInv

\* q is o, or o overtaken.
Same(q, o) == /\ q \in Handler
              /\ q.op = o.op /\ q.pc = o.pc /\ q.who = o.who /\ q.boss = o.boss
              /\ q.role = o.role /\ q.quiet = o.quiet /\ q.after = o.after

LEMMA SameOwes == \A q, o, u : Same(q, o) => (Owes(q, u) <=> Owes(o, u))
BY DEF Same, Owes, OldHost

\* Whom a write overtakes is stale; nobody else is changed.
LEMMA OvertakesWho ==
  ASSUME TypeOK, NEW t \in todo, NEW u, NEW readers, NEW new \in SUBSET Handler,
         Overtakes(t, u, readers, new)
  PROVE  /\ requests' = requests
         /\ tokens' \subseteq Token /\ todo' \subseteq Handler /\ new \subseteq todo'
         /\ \A q \in tokens' : \E k \in tokens :
              /\ q.who = k.who /\ q.right = k.right
              /\ ~q.stale => ~k.stale /\ k.who # u
         /\ \A q \in todo' : q \notin new => \E o \in todo \ {t} :
              /\ Same(q, o)
              /\ ~q.stale => ~o.stale /\ ~(o.who = u /\ o \in readers)
         /\ \A o \in todo \ {t} : \E q \in todo' : Same(q, o)
<1> DEFINE older(k) == IF k.who = u THEN [k EXCEPT !.stale = TRUE] ELSE k
           behind(o) == IF o.who = u /\ o \in readers THEN [o EXCEPT !.stale = TRUE] ELSE o
<1>1. /\ tokens' = {older(k) : k \in tokens}
      /\ todo' = {behind(o) : o \in todo \ {t}} \cup new
      /\ requests' = requests
  BY DEF Overtakes
<1>2. ASSUME NEW k \in tokens
      PROVE  /\ older(k) \in Token /\ older(k).who = k.who /\ older(k).right = k.right
             /\ ~older(k).stale => ~k.stale /\ k.who # u
  <2>1. k \in Token
    BY DEF TypeOK
  <2>2. QED
    BY <2>1 DEF Token
<1>3. ASSUME NEW o \in todo
      PROVE  /\ behind(o) \in Handler /\ Same(behind(o), o)
             /\ ~behind(o).stale => ~o.stale /\ ~(o.who = u /\ o \in readers)
  <2>1. o \in Handler
    BY DEF TypeOK
  <2>2. QED
    BY <2>1 DEF Handler, Same
<1> HIDE DEF older, behind
<1>4. QED
  BY <1>1, <1>2, <1>3

-----------------------------------------------------------------------------
(* Steps that leave the rows alone *)

\* A handler begins.
LEMMA StageBegin ==
  ASSUME IInv, NEW op \in Op, NEW pc, pc \in Steps[op], pc \notin {"mute", "unmute", "mic"},
         op \in {"hand", "rest"} => pc = "own",
         NEW u \in User, NEW r \in Role, op \in {"hand", "rest"} => r # "LISTENER",
         NEW after \in User \cup {"none"},
         Begin(op, pc, u, r, after), UNCHANGED <<db, audio, fails, astray>>
  PROVE  IInv'
<1> DEFINE n == [op |-> op, pc |-> pc, who |-> u, boss |-> creator, role |-> r,
                 quiet |-> FALSE, after |-> after, stale |-> FALSE]
<1>0. /\ TypeOK /\ todo' = todo \cup {n} /\ requests' = requests + 1
      /\ UNCHANGED <<creator, role, muted, tokens, mic, fails, astray>>
  BY DEF IInv, Begin, db, audio
<1>1. pc \in {"row", "flag", "mute", "unmute", "room", "role", "mic", "own"}
  BY DEF Steps, Op
<1>2. /\ n \in Handler /\ n.op = op /\ n.pc = pc /\ n.boss = creator /\ n.role = r
  BY <1>0, <1>1 DEF Handler, TypeOK, Op
<1> HIDE DEF n
<1>3. TypeOK'
  <2>1. requests' \in Nat
    BY <1>0 DEF TypeOK
  <2>2. QED
    BY <1>0, <1>2, <2>1 DEF TypeOK
<1>4. InStep'
  BY <1>0, <1>2 DEF IInv, InStep
<1>5. Fresh'
  BY <1>0, <1>2 DEF IInv, Fresh, HasRoom
<1>6. TokensRight'
  BY <1>0 DEF IInv, TokensRight, Entitled
<1>7. MicsRight'
  BY <1>0 DEF IInv, MicsRight, Entitled, Owes, OldHost
<1>8. QED
  BY <1>3, <1>4, <1>5, <1>6, <1>7 DEF IInv

LEMMA ReadRoomInv == ASSUME IInv, NEW t \in todo, ReadRoom(t) PROVE IInv'
<1> DEFINE r == [t EXCEPT !.pc = "role", !.boss = creator, !.stale = FALSE]
<1>0. /\ TypeOK /\ t \in Handler /\ t.op \in {"role", "hand"} /\ t.pc = "room"
      /\ todo' = (todo \ {t}) \cup {r}
      /\ UNCHANGED <<creator, role, muted, tokens, mic, requests, fails, astray>>
  <2>1. t.pc = "room" /\ UNCHANGED <<creator, role, muted, tokens, mic, requests, fails, astray>>
    BY DEF ReadRoom, Becomes, db, audio
  <2>2. todo' = (todo \ {t}) \cup {r}
    BY DEF ReadRoom, Becomes
  <2>3. QED
    BY <2>1, <2>2, StepOf
<1>r. /\ r \in Handler /\ r.op = t.op /\ r.pc = "role" /\ r.boss = creator
      /\ r.who = t.who /\ r.after = t.after /\ r.role = t.role
  BY <1>0 DEF Handler, TypeOK
<1> HIDE DEF r
<1>1. TypeOK'
  BY <1>0, <1>r DEF TypeOK
<1>2. InStep'
  BY <1>0, <1>r DEF IInv, InStep, Steps
<1>3. Fresh'
  BY <1>0, <1>r DEF IInv, Fresh, HasRoom
<1>4. TokensRight'
  BY <1>0 DEF IInv, TokensRight, Entitled
<1>5. MicsRight'
  BY <1>0, <1>r DEF IInv, MicsRight, Entitled, Owes, OldHost
<1>6. QED
  BY <1>1, <1>2, <1>3, <1>4, <1>5 DEF IInv

LEMMA FailInv == ASSUME IInv, NEW t \in todo, Fail(t) PROVE IInv'
<1>0. /\ TypeOK /\ todo' = todo \ {t} /\ fails' = fails + 1
      /\ astray \subseteq astray' /\ astray' \subseteq User
      /\ \A u \in User : Owes(t, u) => u \in astray'
      /\ UNCHANGED <<creator, role, muted, tokens, mic, requests>>
  BY DEF Fail, Becomes, IInv, TypeOK, db, audio
<1>1. TypeOK'
  BY <1>0 DEF TypeOK
<1>2. InStep' /\ Fresh' /\ TokensRight'
  BY <1>0 DEF IInv, InStep, Fresh, HasRoom, TokensRight, Entitled
<1>3. MicsRight'
  <2> SUFFICES ASSUME NEW u \in User \ astray', mic[u] = "speak"
               PROVE  /\ u \in muted => \E q \in todo' : q.who = u /\ q.pc = "mute"
                      /\ Entitled(u) \/ \E q \in todo' : Owes(q, u)
    BY <1>0 DEF MicsRight, Entitled, Owes, OldHost
  <2>1. /\ u \in muted => \E q \in todo : q.who = u /\ q.pc = "mute"
        /\ Entitled(u) \/ \E q \in todo : Owes(q, u)
    BY <1>0 DEF IInv, MicsRight
  <2>2. ~Owes(t, u)
    BY <1>0
  <2>3. ~(t.who = u /\ t.pc = "mute")
    BY <2>2 DEF Owes
  <2>4. QED
    BY <1>0, <2>1, <2>2, <2>3
<1>4. QED
  BY <1>1, <1>2, <1>3 DEF IInv

-----------------------------------------------------------------------------
(* Steps of the audio *)

\* What a permission given to u leaves of the others', and what it needs.
LEMMA Given ==
  ASSUME TypeOK, NEW u \in User, NEW right \in Right, NEW stale \in BOOLEAN,
         Give(u, right, stale)
  PROVE  /\ mic' \in [User -> Right \cup {"out"}] /\ astray' \subseteq User
         /\ \A v \in User : v # u => mic'[v] = mic[v] /\ (v \in astray' <=> v \in astray)
         /\ mic'[u] = "speak" /\ u \notin astray' => right = "speak" /\ ~stale
BY DEF Give, TypeOK, Right

LEMMA ConnectInv == ASSUME IInv, NEW k \in tokens, ConnectAudio(k) PROVE IInv'
<1>0. /\ TypeOK /\ k \in Token /\ k.who \in User /\ k.right \in Right /\ k.stale \in BOOLEAN
      /\ UNCHANGED <<creator, role, muted, tokens, todo, requests, fails>>
  BY DEF IInv, TypeOK, Token, ConnectAudio, db
<1>1. /\ mic' \in [User -> Right \cup {"out"}] /\ astray' \subseteq User
      /\ \A v \in User : v # k.who => mic'[v] = mic[v] /\ (v \in astray' <=> v \in astray)
      /\ mic'[k.who] = "speak" /\ k.who \notin astray' => k.right = "speak" /\ ~k.stale
  BY <1>0, Given DEF ConnectAudio
<1>2. TypeOK' /\ InStep' /\ Fresh' /\ TokensRight'
  BY <1>0, <1>1 DEF IInv, TypeOK, InStep, Fresh, HasRoom, TokensRight, Entitled
<1>3. MicsRight'
  <2> SUFFICES ASSUME NEW v \in User \ astray', mic'[v] = "speak"
               PROVE  /\ v \in muted => \E t \in todo : t.who = v /\ t.pc = "mute"
                      /\ Entitled(v) \/ \E t \in todo : Owes(t, v)
    BY <1>0 DEF MicsRight, Entitled, Owes, OldHost
  <2>1. CASE v = k.who
    BY <1>1, <2>1 DEF IInv, TokensRight
  <2>2. CASE v # k.who
    BY <1>1, <2>2 DEF IInv, MicsRight
  <2>3. QED
    BY <2>1, <2>2
<1>4. QED
  BY <1>2, <1>3 DEF IInv

LEMMA DisconnectInv == ASSUME IInv, NEW u \in User, DisconnectAudio(u) PROVE IInv'
<1>0. /\ TypeOK /\ mic' = [mic EXCEPT ![u] = "out"] /\ astray' = astray \ {u}
      /\ UNCHANGED <<creator, role, muted, tokens, todo, requests, fails>>
  BY DEF IInv, DisconnectAudio, db
<1>1. TypeOK' /\ InStep' /\ Fresh' /\ TokensRight'
  BY <1>0 DEF IInv, TypeOK, InStep, Fresh, HasRoom, TokensRight, Entitled
<1>2. MicsRight'
  <2> SUFFICES ASSUME NEW v \in User \ astray', mic'[v] = "speak"
               PROVE  /\ v \in muted => \E t \in todo : t.who = v /\ t.pc = "mute"
                      /\ Entitled(v) \/ \E t \in todo : Owes(t, v)
    BY <1>0 DEF MicsRight, Entitled, Owes, OldHost
  <2>1. mic[v] = "speak" /\ v \notin astray
    BY <1>0 DEF TypeOK
  <2>2. QED
    BY <2>1 DEF IInv, MicsRight
<1>3. QED
  BY <1>1, <1>2 DEF IInv

LEMMA SignTokenInv == ASSUME IInv, NEW t \in todo, SignToken(t) PROVE IInv'
<1> DEFINE right == RightOf(CanSpeak(t.boss, t.who, role[t.who]) /\ t.who \notin muted)
           k == [who |-> t.who, right |-> right, stale |-> t.stale]
<1>0. /\ TypeOK /\ t \in Handler /\ t.op = "token" /\ t.pc = "row"
      /\ tokens' = tokens \cup {k}
      /\ todo' = todo \ {t}
      /\ UNCHANGED <<creator, role, muted, mic, requests, fails, astray>>
  <2>1. t.op = "token" /\ todo' = todo \ {t}
        /\ UNCHANGED <<creator, role, muted, mic, requests, fails, astray>>
    BY DEF SignToken, Becomes, db
  <2>2. tokens' = tokens \cup {k}
    BY DEF SignToken
  <2>3. QED
    BY <2>1, <2>2, StepOf
<1>1. right \in Right /\ (right = "speak" => CanSpeak(t.boss, t.who, role[t.who]) /\ t.who \notin muted)
  <2>1. CASE CanSpeak(t.boss, t.who, role[t.who]) /\ t.who \notin muted
    BY <2>1 DEF RightOf, Right
  <2>2. CASE ~(CanSpeak(t.boss, t.who, role[t.who]) /\ t.who \notin muted)
    BY <2>2 DEF RightOf, Right
  <2>3. QED
    BY <2>1, <2>2
<1> HIDE DEF right
<1>2. k \in Token /\ k.who = t.who /\ k.right = right /\ k.stale = t.stale
  BY <1>0, <1>1 DEF Token, Handler
<1> HIDE DEF k
<1>3. TypeOK' /\ InStep' /\ Fresh'
  BY <1>0, <1>2 DEF IInv, TypeOK, InStep, Fresh, HasRoom
<1>4. TokensRight'
  <2>1. ASSUME right = "speak", ~t.stale PROVE Entitled(t.who) /\ t.who \notin muted
    <3>1. t.who = t.boss => t.who = creator
      BY <1>0, <2>1 DEF IInv, Fresh, HasRoom
    <3>2. QED
      BY <1>1, <2>1, <3>1 DEF Entitled, CanSpeak
  <2>2. QED
    BY <1>0, <1>2, <2>1 DEF IInv, TokensRight, Entitled
<1>5. MicsRight'
  BY <1>0 DEF IInv, MicsRight, Entitled, Owes, OldHost
<1>6. QED
  BY <1>3, <1>4, <1>5 DEF IInv

\* A word about t.who: it arrives, there is nobody to hear it, or it is lost.
LEMMA Said ==
  ASSUME TypeOK, NEW t \in todo, NEW allowed \in BOOLEAN, SetCanPublish(t, allowed)
  PROVE  /\ mic' \in [User -> Right \cup {"out"}] /\ astray' \subseteq User /\ fails' \in Nat
         /\ \A v \in User : v # t.who => mic'[v] = mic[v] /\ (v \in astray' <=> v \in astray)
         /\ mic'[t.who] = "speak" /\ t.who \notin astray' => allowed /\ ~t.stale
<1>0. t \in Handler /\ t.who \in User /\ t.stale \in BOOLEAN
  BY DEF TypeOK, Handler
<1>1. CASE mic[t.who] # "out" /\ Give(t.who, RightOf(allowed), t.stale) /\ UNCHANGED fails
  <2>1. RightOf(allowed) \in Right /\ (RightOf(allowed) = "speak" => allowed)
    BY DEF RightOf, Right
  <2>2. QED
    BY <1>0, <1>1, <2>1, Given DEF TypeOK
<1>2. CASE mic[t.who] = "out" /\ UNCHANGED <<mic, astray, fails>>
  BY <1>2 DEF TypeOK
<1>3. CASE fails' = fails + 1 /\ astray' = astray \cup {t.who} /\ UNCHANGED mic
  BY <1>0, <1>3 DEF TypeOK
<1>4. QED
  BY <1>1, <1>2, <1>3 DEF SetCanPublish

LEMMA SetMuteInv == ASSUME IInv, NEW t \in todo, SetMute(t) PROVE IInv'
<1> DEFINE allowed == t.op = "unmute" /\ CanSpeak(t.boss, t.who, t.role)
<1>0. /\ TypeOK /\ t \in Handler /\ t.who \in User /\ t.op \in {"mute", "unmute"} /\ t.pc = t.op
      /\ todo' = todo \ {t}
      /\ UNCHANGED <<creator, role, muted, tokens, requests>>
  <2>1. t.pc \in {"mute", "unmute"} /\ todo' = todo \ {t}
        /\ UNCHANGED <<creator, role, muted, tokens, requests>>
    BY DEF SetMute, Becomes, db
  <2>2. QED
    BY <2>1, StepOf DEF Handler
<1>1. /\ mic' \in [User -> Right \cup {"out"}] /\ astray' \subseteq User /\ fails' \in Nat
      /\ \A v \in User : v # t.who => mic'[v] = mic[v] /\ (v \in astray' <=> v \in astray)
      /\ mic'[t.who] = "speak" /\ t.who \notin astray' => allowed /\ ~t.stale
  <2>1. allowed \in BOOLEAN /\ SetCanPublish(t, allowed)
    BY DEF SetMute, CanSpeak
  <2> HIDE DEF allowed
  <2>2. QED
    BY <1>0, <2>1, Said
<1>2. TypeOK' /\ InStep' /\ Fresh' /\ TokensRight'
  BY <1>0, <1>1 DEF IInv, TypeOK, InStep, Fresh, HasRoom, TokensRight, Entitled
<1>3. MicsRight'
  <2> SUFFICES ASSUME NEW v \in User \ astray', mic'[v] = "speak"
               PROVE  /\ v \in muted => \E q \in todo' : q.who = v /\ q.pc = "mute"
                      /\ Entitled(v) \/ \E q \in todo' : Owes(q, v)
    BY <1>0 DEF MicsRight, Entitled, Owes, OldHost
  <2>1. CASE v = t.who
    <3>1. t.op = "unmute" /\ CanSpeak(t.boss, v, t.role) /\ ~t.stale
      BY <1>1, <2>1
    <3>2. /\ v \notin muted /\ t.role = role[v]
          /\ v = t.boss => v = creator
      BY <1>0, <2>1, <3>1 DEF IInv, Fresh, HasRoom
    <3>3. QED
      BY <3>1, <3>2 DEF Entitled, CanSpeak
  <2>2. CASE v # t.who
    <3>1. ~Owes(t, v)
      BY <1>0, <2>2 DEF Owes
    <3>2. QED
      BY <1>0, <1>1, <2>2, <3>1 DEF IInv, MicsRight
  <2>3. QED
    BY <2>1, <2>2
<1>4. QED
  BY <1>2, <1>3 DEF IInv

-----------------------------------------------------------------------------
(* Steps that write the rows *)

LEMMA WriteMuteInv == ASSUME IInv, NEW t \in todo, WriteMute(t) PROVE IInv'
<1> DEFINE r == [t EXCEPT !.pc = t.op, !.role = role[t.who]]
           readers == {o \in todo : HasRow(o)}
<1>0. /\ TypeOK /\ t \in Handler /\ t.who \in User /\ t.op \in {"mute", "unmute"} /\ t.pc = "flag"
      /\ muted' = IF t.op = "mute" THEN muted \cup {t.who} ELSE muted \ {t.who}
      /\ Overtakes(t, t.who, readers, {r})
      /\ UNCHANGED <<creator, role, mic, fails, astray>>
  <2>1. t.pc = "flag"
    BY DEF WriteMute
  <2>2. QED
    BY <2>1, StepOf DEF WriteMute, Handler
<1>r. /\ r \in Handler /\ r.op = t.op /\ r.pc = t.op /\ r.who = t.who /\ r.boss = t.boss
      /\ r.role = role[t.who] /\ r.stale = t.stale
  BY <1>0 DEF Handler, TypeOK
<1> HIDE DEF r
<1>1. /\ requests' = requests
      /\ tokens' \subseteq Token /\ todo' \subseteq Handler /\ r \in todo'
      /\ \A q \in tokens' : \E k \in tokens :
              /\ q.who = k.who /\ q.right = k.right
              /\ ~q.stale => ~k.stale /\ k.who # t.who
      /\ \A q \in todo' : q # r => \E o \in todo \ {t} :
              /\ Same(q, o)
              /\ ~q.stale => ~o.stale /\ ~(o.who = t.who /\ o \in readers)
      /\ \A o \in todo \ {t} : \E q \in todo' : Same(q, o)
  <2>1. {r} \in SUBSET Handler
    BY <1>r
  <2> HIDE DEF readers
  <2>2. QED
    BY <1>0, <2>1, OvertakesWho
<1>2. TypeOK'
  BY <1>0, <1>1 DEF TypeOK
<1>3. InStep'
  BY <1>0, <1>r, <1>1 DEF IInv, InStep, Same, Steps
<1>4. Fresh'
  <2> SUFFICES ASSUME NEW q \in todo', ~q.stale
               PROVE  /\ HasRoom(q) /\ q.who = q.boss => q.who = creator
                      /\ q.pc = "unmute" => q.who \notin muted' /\ q.role = role[q.who]
                      /\ q.pc = "mic" => q.role = role[q.who] /\ (q.quiet <=> q.who \in muted')
    BY <1>0 DEF Fresh, HasRoom
  <2>1. CASE q = r
    BY <1>0, <1>r, <2>1 DEF IInv, Fresh, HasRoom
  <2>2. CASE q # r
    <3>1. PICK o \in todo \ {t} : Same(q, o) /\ ~o.stale /\ ~(o.who = t.who /\ o \in readers)
      BY <1>1, <2>2
    <3>2. HasRow(o) => o.who # t.who
      BY <3>1
    <3>3. /\ HasRoom(o) /\ o.who = o.boss => o.who = creator
          /\ o.pc = "unmute" => o.who \notin muted /\ o.role = role[o.who]
          /\ o.pc = "mic" => o.role = role[o.who] /\ (o.quiet <=> o.who \in muted)
      BY <3>1 DEF IInv, Fresh
    <3>4. o.who # t.who => (o.who \in muted' <=> o.who \in muted)
      BY <1>0
    <3>5. QED
      BY <3>1, <3>2, <3>3, <3>4 DEF Same, HasRoom, HasRow
  <2>3. QED
    BY <2>1, <2>2
<1>5. TokensRight'
  BY <1>0, <1>1 DEF IInv, TokensRight, Entitled
<1>6. MicsRight'
  <2> SUFFICES ASSUME NEW v \in User \ astray, mic[v] = "speak"
               PROVE  /\ v \in muted' => \E q \in todo' : q.who = v /\ q.pc = "mute"
                      /\ Entitled(v) \/ \E q \in todo' : Owes(q, v)
    BY <1>0 DEF MicsRight, Entitled, Owes, OldHost
  <2>1. /\ v \in muted => \E q \in todo : q.who = v /\ q.pc = "mute"
        /\ Entitled(v) \/ \E q \in todo : Owes(q, v)
    BY DEF IInv, MicsRight
  <2>2. ~Owes(t, v)
    BY <1>0 DEF Owes
  <2>3. Entitled(v) \/ \E q \in todo' : Owes(q, v)
    BY <1>1, <2>1, <2>2, SameOwes
  <2>4. v \in muted' => \E q \in todo' : q.who = v /\ q.pc = "mute"
    <3>1. CASE v = t.who
      BY <1>0, <1>r, <1>1, <3>1
    <3>2. CASE v # t.who
      BY <1>0, <1>1, <2>1, <3>2 DEF Same
    <3>3. QED
      BY <3>1, <3>2
  <2>5. QED
    BY <2>3, <2>4
<1>7. QED
  BY <1>2, <1>3, <1>4, <1>5, <1>6 DEF IInv

LEMMA WriteCreatorInv == ASSUME IInv, NEW t \in todo, WriteCreator(t) PROVE IInv'
<1> DEFINE r == [t EXCEPT !.pc = IF t.op = "rest" THEN "role" ELSE "room"]
           readers == {o \in todo : HasRoom(o)}
<1>0. /\ TypeOK /\ t \in Handler /\ t.who \in User /\ t.op \in {"hand", "rest"} /\ t.pc = "own"
      /\ t.role # "LISTENER"
      /\ creator' = t.who
      /\ Overtakes(t, creator, readers, {r})
      /\ astray' = astray \cup ({creator} \ {t.who, t.after})
      /\ UNCHANGED <<role, muted, mic, fails>>
  <2>1. t.pc = "own"
    BY DEF WriteCreator
  <2>2. QED
    BY <2>1, StepOf DEF WriteCreator, Handler
<1>r. /\ r \in Handler /\ r.op = t.op /\ r.who = t.who /\ r.role = t.role /\ r.after = t.after
      /\ t.op = "rest" => r.pc = "role"
      /\ t.op = "hand" => r.pc = "room"
  BY <1>0 DEF Handler
<1> HIDE DEF r
<1>1. /\ requests' = requests
      /\ tokens' \subseteq Token /\ todo' \subseteq Handler /\ r \in todo'
      /\ \A q \in tokens' : \E k \in tokens :
              /\ q.who = k.who /\ q.right = k.right
              /\ ~q.stale => ~k.stale /\ k.who # creator
      /\ \A q \in todo' : q # r => \E o \in todo \ {t} :
              /\ Same(q, o)
              /\ ~q.stale => ~o.stale /\ ~(o.who = creator /\ o \in readers)
      /\ \A o \in todo \ {t} : \E q \in todo' : Same(q, o)
  <2>1. {r} \in SUBSET Handler
    BY <1>r
  <2> HIDE DEF readers
  <2>2. QED
    BY <1>0, <2>1, OvertakesWho
<1>2. TypeOK'
  BY <1>0, <1>1 DEF TypeOK
<1>3. InStep'
  BY <1>0, <1>r, <1>1 DEF IInv, InStep, Same, Steps
<1>4. Fresh'
  <2> SUFFICES ASSUME NEW q \in todo', ~q.stale
               PROVE  /\ HasRoom(q) /\ q.who = q.boss => q.who = t.who
                      /\ q.pc = "unmute" => q.who \notin muted /\ q.role = role[q.who]
                      /\ q.pc = "mic" => q.role = role[q.who] /\ (q.quiet <=> q.who \in muted)
    BY <1>0 DEF Fresh, HasRoom
  <2>1. CASE q = r
    BY <1>0, <1>r, <2>1 DEF HasRoom
  <2>2. CASE q # r
    <3>1. PICK o \in todo \ {t} : Same(q, o) /\ ~o.stale /\ ~(o.who = creator /\ o \in readers)
      BY <1>1, <2>2
    <3>2. HasRoom(o) => o.who # creator
      BY <3>1
    <3>3. /\ HasRoom(o) /\ o.who = o.boss => o.who = creator
          /\ o.pc = "unmute" => o.who \notin muted /\ o.role = role[o.who]
          /\ o.pc = "mic" => o.role = role[o.who] /\ (o.quiet <=> o.who \in muted)
      BY <3>1 DEF IInv, Fresh
    <3>4. QED
      BY <3>1, <3>2, <3>3 DEF Same, HasRoom
  <2>3. QED
    BY <2>1, <2>2
<1>5. TokensRight'
  BY <1>0, <1>1 DEF IInv, TokensRight, Entitled, CanSpeak
<1>6. MicsRight'
  <2> SUFFICES ASSUME NEW v \in User \ astray', mic[v] = "speak"
               PROVE  /\ v \in muted => \E q \in todo' : q.who = v /\ q.pc = "mute"
                      /\ CanSpeak(t.who, v, role[v]) \/ \E q \in todo' : Owes(q, v)
    BY <1>0 DEF MicsRight, Entitled, CanSpeak, Owes, OldHost
  <2>1. /\ v \in muted => \E q \in todo : q.who = v /\ q.pc = "mute"
        /\ Entitled(v) \/ \E q \in todo : Owes(q, v)
    BY <1>0 DEF IInv, MicsRight
  <2>2. ~Owes(t, v)
    BY <1>0 DEF Owes
  <2>3. v \in muted => \E q \in todo' : q.who = v /\ q.pc = "mute"
    BY <1>0, <1>1, <2>1 DEF Same
  <2>4. CASE v = creator /\ v = t.after /\ v # t.who
    <3>1. Owes(r, v)
      BY <1>0, <1>r, <2>4, VoiceStageAssumption DEF Owes, OldHost
    <3>2. QED
      BY <1>1, <2>3, <3>1
  <2>5. CASE v = t.who
    BY <2>3, <2>5 DEF CanSpeak
  <2>6. CASE v # creator
    BY <1>1, <2>1, <2>2, <2>3, <2>6, SameOwes DEF Entitled, CanSpeak
  <2>7. QED
    BY <1>0, <2>4, <2>5, <2>6
<1>7. QED
  BY <1>2, <1>3, <1>4, <1>5, <1>6 DEF IInv

\* What a hand-over does about the old host, if it has one left.
LEMMA OldHostIsNext ==
  ASSUME TypeOK, NEW t \in todo
  PROVE  /\ OldHostNext(t) \in SUBSET Handler
         /\ \A x \in OldHostNext(t) :
              /\ x.op = t.op /\ x.role # "LISTENER" /\ OldHost(x) = OldHost(t)
              /\ t.op = "rest" => x.pc = "role"
              /\ t.op # "rest" => x.pc = "room"
         /\ t.after # "none" => \E x \in OldHostNext(t) : TRUE
<1> DEFINE x == [t EXCEPT !.who = t.after, !.after = "none", !.quiet = FALSE,
                          !.pc = IF t.op = "rest" THEN "role" ELSE "room",
                          !.role = IF t.op = "rest" THEN "MODERATOR" ELSE "SPEAKER"]
<1>1. t \in Handler
  BY DEF TypeOK
<1>2. CASE t.after = "none"
  BY <1>2 DEF OldHostNext
<1>3. CASE t.after # "none"
  <2>1. t.after \in User
    BY <1>1, <1>3 DEF Handler
  <2>2. /\ x \in Handler /\ x.op = t.op /\ x.who = t.after /\ x.after = "none"
        /\ x.role # "LISTENER"
        /\ t.op = "rest" => x.pc = "role"
        /\ t.op # "rest" => x.pc = "room"
    BY <1>1, <2>1 DEF Handler, Role
  <2>3. OldHostNext(t) = {x}
    BY <1>3 DEF OldHostNext
  <2> HIDE DEF x
  <2>4. OldHost(x) = OldHost(t)
    BY <1>3, <2>2 DEF OldHost
  <2>5. QED
    BY <2>2, <2>3, <2>4
<1>4. QED
  BY <1>2, <1>3

LEMMA WriteRoleInv == ASSUME IInv, NEW t \in todo, WriteRole(t) PROVE IInv'
<1> DEFINE r == [t EXCEPT !.pc = "mic", !.quiet = t.who \in muted]
           new == IF t.op = "rest" THEN OldHostNext(t) ELSE {r}
           readers == {o \in todo : HasRow(o)}
<1>0. /\ TypeOK /\ t \in Handler /\ t.who \in User /\ t.op \in {"role", "hand", "rest"}
      /\ t.pc = "role" /\ (t.op \in {"hand", "rest"} => t.role # "LISTENER")
      /\ role' = [role EXCEPT ![t.who] = t.role]
      /\ Overtakes(t, t.who, readers, new)
      /\ UNCHANGED <<creator, muted, mic, fails, astray>>
  <2>1. t.pc = "role"
    BY DEF WriteRole
  <2>2. QED
    BY <2>1, StepOf DEF WriteRole, Handler
<1>h. /\ OldHostNext(t) \in SUBSET Handler
      /\ \A x \in OldHostNext(t) :
           /\ x.op = t.op /\ x.role # "LISTENER" /\ OldHost(x) = OldHost(t)
           /\ t.op = "rest" => x.pc = "role"
      /\ t.after # "none" => \E x \in OldHostNext(t) : TRUE
  BY <1>0, OldHostIsNext
<1>r. /\ r \in Handler /\ r.op = t.op /\ r.who = t.who /\ r.role = t.role /\ r.after = t.after
      /\ r.boss = t.boss /\ r.stale = t.stale /\ r.pc = "mic"
      /\ r.quiet <=> t.who \in muted
  <2> DEFINE b == t.who \in muted
             q == [t EXCEPT !.pc = "mic", !.quiet = b]
  <2>1. b \in BOOLEAN
    OBVIOUS
  <2>2. r = q
    OBVIOUS
  <2> HIDE DEF b, r
  <2>3. /\ q \in Handler /\ q.op = t.op /\ q.who = t.who /\ q.role = t.role /\ q.after = t.after
        /\ q.boss = t.boss /\ q.stale = t.stale /\ q.pc = "mic"
        /\ q.quiet = b
    BY <1>0, <2>1 DEF Handler
  <2> HIDE DEF q
  <2>4. r.quiet <=> b
    BY <2>1, <2>2, <2>3
  <2>5. QED
    BY <2>2, <2>3, <2>4 DEF b
<1> HIDE DEF r
<1>n. new \in SUBSET Handler
  BY <1>h, <1>r
<1>1. /\ requests' = requests
      /\ tokens' \subseteq Token /\ todo' \subseteq Handler /\ new \subseteq todo'
      /\ \A q \in tokens' : \E k \in tokens :
              /\ q.who = k.who /\ q.right = k.right
              /\ ~q.stale => ~k.stale /\ k.who # t.who
      /\ \A q \in todo' : q \notin new => \E o \in todo \ {t} :
              /\ Same(q, o)
              /\ ~q.stale => ~o.stale /\ ~(o.who = t.who /\ o \in readers)
      /\ \A o \in todo \ {t} : \E q \in todo' : Same(q, o)
  <2> HIDE DEF readers, new
  <2>2. QED
    BY <1>0, <1>n, OvertakesWho
<1>2. TypeOK'
  <2>1. role' \in [User -> Role]
    BY <1>0 DEF TypeOK, Handler
  <2>2. QED
    BY <1>0, <1>1, <2>1 DEF TypeOK
<1>3. InStep'
  <2> SUFFICES ASSUME NEW q \in todo'
               PROVE  q.pc \in Steps[q.op] /\ (q.op \in {"hand", "rest"} => q.role # "LISTENER")
    BY DEF InStep
  <2>1. CASE q \in new
    BY <1>0, <1>h, <1>r, <2>1 DEF Steps
  <2>2. CASE q \notin new
    BY <1>1, <2>2 DEF IInv, InStep, Same
  <2>3. QED
    BY <2>1, <2>2
<1>4. Fresh'
  <2> SUFFICES ASSUME NEW q \in todo', ~q.stale
               PROVE  /\ HasRoom(q) /\ q.who = q.boss => q.who = creator
                      /\ q.pc = "unmute" => q.who \notin muted /\ q.role = role'[q.who]
                      /\ q.pc = "mic" => q.role = role'[q.who] /\ (q.quiet <=> q.who \in muted)
    BY <1>0 DEF Fresh, HasRoom
  <2>1. CASE q \in new /\ t.op = "rest"
    BY <1>h, <2>1 DEF HasRoom
  <2>2. CASE q \in new /\ t.op # "rest"
    <3>1. q = r /\ HasRoom(t) /\ ~t.stale
      BY <1>0, <1>r, <2>2 DEF HasRoom
    <3>2. t.who = t.boss => t.who = creator
      BY <3>1 DEF IInv, Fresh
    <3>3. role'[t.who] = t.role
      BY <1>0 DEF TypeOK
    <3>4. QED
      BY <1>r, <3>1, <3>2, <3>3
  <2>3. CASE q \notin new
    <3>1. PICK o \in todo \ {t} : Same(q, o) /\ ~o.stale /\ ~(o.who = t.who /\ o \in readers)
      BY <1>1, <2>3
    <3>2. HasRow(o) => o.who # t.who
      BY <3>1
    <3>3. /\ HasRoom(o) /\ o.who = o.boss => o.who = creator
          /\ o.pc = "unmute" => o.who \notin muted /\ o.role = role[o.who]
          /\ o.pc = "mic" => o.role = role[o.who] /\ (o.quiet <=> o.who \in muted)
      BY <3>1 DEF IInv, Fresh
    <3>4. o.who \in User /\ (o.who # t.who => role'[o.who] = role[o.who])
      BY <1>0 DEF TypeOK, Handler
    <3>5. QED
      BY <3>1, <3>2, <3>3, <3>4 DEF Same, HasRoom, HasRow
  <2>4. QED
    BY <2>1, <2>2, <2>3
<1>5. TokensRight'
  <2>1. \A u \in User : u # t.who => role'[u] = role[u]
    BY <1>0 DEF TypeOK
  <2>2. QED
    BY <1>0, <1>1, <2>1 DEF IInv, TokensRight, Entitled, CanSpeak, TypeOK, Token
<1>6. MicsRight'
  <2> SUFFICES ASSUME NEW v \in User \ astray, mic[v] = "speak"
               PROVE  /\ v \in muted => \E q \in todo' : q.who = v /\ q.pc = "mute"
                      /\ CanSpeak(creator, v, role'[v]) \/ \E q \in todo' : Owes(q, v)
    BY <1>0 DEF MicsRight, Entitled, Owes, OldHost
  <2>1. /\ v \in muted => \E q \in todo : q.who = v /\ q.pc = "mute"
        /\ CanSpeak(creator, v, role[v]) \/ \E q \in todo : Owes(q, v)
    BY DEF IInv, MicsRight, Entitled
  <2>2. v \in muted => \E q \in todo' : q.who = v /\ q.pc = "mute"
    BY <1>0, <1>1, <2>1 DEF Same
  <2>3. CASE v = t.who /\ t.op = "role"
    BY <1>1, <1>r, <2>2, <2>3 DEF Owes
  <2>4. CASE v = t.who /\ t.op # "role"
    BY <1>0, <2>2, <2>4 DEF CanSpeak, TypeOK
  <2>5. CASE v # t.who
    <3>1. role'[v] = role[v]
      BY <1>0, <2>5 DEF TypeOK
    <3>2. ASSUME Owes(t, v) PROVE \E q \in new : Owes(q, v)
      <4>1. t.op \in {"hand", "rest"} /\ v = OldHost(t) /\ t.after # "none"
        BY <1>0, <2>5, <3>2 DEF Owes, OldHost
      <4>2. CASE t.op = "hand"
        BY <1>r, <4>1, <4>2 DEF Owes, OldHost
      <4>3. CASE t.op = "rest"
        BY <1>h, <4>1, <4>3 DEF Owes
      <4>4. QED
        BY <4>1, <4>2, <4>3
    <3> HIDE DEF new
    <3>3. QED
      BY <1>1, <2>1, <2>2, <3>1, <3>2, SameOwes
  <2>6. QED
    BY <1>0, <2>3, <2>4, <2>5
<1>7. QED
  BY <1>2, <1>3, <1>4, <1>5, <1>6 DEF IInv

LEMMA SetMicInv == ASSUME IInv, NEW t \in todo, SetMic(t) PROVE IInv'
<1> DEFINE allowed == CanSpeak(t.boss, t.who, t.role) /\ ~t.quiet
<1>0. /\ TypeOK /\ t \in Handler /\ t.who \in User /\ t.op \in {"role", "hand"} /\ t.pc = "mic"
      /\ todo' = (todo \ {t}) \cup OldHostNext(t)
      /\ UNCHANGED <<creator, role, muted, tokens, requests>>
  <2>1. t.pc = "mic" /\ todo' = (todo \ {t}) \cup OldHostNext(t)
        /\ UNCHANGED <<creator, role, muted, tokens, requests>>
    BY DEF SetMic, Becomes, db
  <2>2. QED
    BY <2>1, StepOf DEF Handler
<1>h. /\ OldHostNext(t) \in SUBSET Handler
      /\ \A x \in OldHostNext(t) : x.op = t.op /\ x.role # "LISTENER" /\ x.pc = "room"
                                   /\ OldHost(x) = OldHost(t)
      /\ t.after # "none" => \E x \in OldHostNext(t) : TRUE
  BY <1>0, OldHostIsNext
<1>1. /\ mic' \in [User -> Right \cup {"out"}] /\ astray' \subseteq User /\ fails' \in Nat
      /\ \A v \in User : v # t.who => mic'[v] = mic[v] /\ (v \in astray' <=> v \in astray)
      /\ mic'[t.who] = "speak" /\ t.who \notin astray' => allowed /\ ~t.stale
  <2>1. allowed \in BOOLEAN /\ SetCanPublish(t, allowed)
    BY DEF SetMic, CanSpeak
  <2> HIDE DEF allowed
  <2>2. QED
    BY <1>0, <2>1, Said
<1>2. TypeOK'
  BY <1>0, <1>h, <1>1 DEF TypeOK
<1>3. InStep'
  BY <1>0, <1>h DEF IInv, InStep, Steps
<1>4. Fresh'
  BY <1>0, <1>h DEF IInv, Fresh, HasRoom
<1>5. TokensRight'
  BY <1>0 DEF IInv, TokensRight, Entitled
<1>6. MicsRight'
  <2> SUFFICES ASSUME NEW v \in User \ astray', mic'[v] = "speak"
               PROVE  /\ v \in muted => \E q \in todo' : q.who = v /\ q.pc = "mute"
                      /\ Entitled(v) \/ \E q \in todo' : Owes(q, v)
    BY <1>0 DEF MicsRight, Entitled, Owes, OldHost
  <2>1. CASE v = t.who
    <3>1. CanSpeak(t.boss, v, t.role) /\ ~t.quiet /\ ~t.stale
      BY <1>1, <2>1
    <3>2. /\ v \notin muted /\ t.role = role[v]
          /\ v = t.boss => v = creator
      BY <1>0, <2>1, <3>1 DEF IInv, Fresh, HasRoom
    <3>3. QED
      BY <3>1, <3>2 DEF Entitled, CanSpeak
  <2>2. CASE v # t.who
    <3>1. /\ v \in muted => \E q \in todo : q.who = v /\ q.pc = "mute"
          /\ Entitled(v) \/ \E q \in todo : Owes(q, v)
      BY <1>1, <2>2 DEF IInv, MicsRight
    <3>2. ASSUME Owes(t, v) PROVE \E q \in OldHostNext(t) : Owes(q, v)
      <4>1. t.op = "hand" /\ v = OldHost(t) /\ t.after # "none"
        BY <1>0, <2>2, <3>2 DEF Owes, OldHost
      <4>2. QED
        BY <1>h, <4>1 DEF Owes
    <3>3. QED
      BY <1>0, <2>2, <3>1, <3>2
  <2>3. QED
    BY <2>1, <2>2
<1>7. QED
  BY <1>2, <1>3, <1>4, <1>5, <1>6 DEF IInv

-----------------------------------------------------------------------------
(* Every step, and what follows *)

LEMMA StageStutter == IInv /\ UNCHANGED vars => IInv'
<1> SUFFICES ASSUME IInv, UNCHANGED vars PROVE IInv'
  OBVIOUS
<1>1. UNCHANGED <<creator, role, muted, tokens, mic, todo, requests, fails, astray>>
  BY DEF vars, db, audio
<1>2. TypeOK' /\ InStep' /\ Fresh' /\ TokensRight' /\ MicsRight'
  BY <1>1 DEF IInv, TypeOK, InStep, Fresh, HasRoom, TokensRight, Entitled, MicsRight, Owes, OldHost
<1>3. QED
  BY <1>2 DEF IInv

LEMMA StageNext == IInv /\ [Next]_vars => IInv'
<1> SUFFICES ASSUME IInv, [Next]_vars PROVE IInv'
  OBVIOUS
<1>0. TypeOK
  BY DEF IInv
<1>1. ASSUME NEW u \in User, BeginToken(u) PROVE IInv'
  <2>1. role[u] \in Role
    BY <1>0 DEF TypeOK
  <2>2. QED
    BY <1>1, <2>1, StageBegin DEF BeginToken, Op, Steps
<1>2. ASSUME NEW u \in User, BeginMute(u) PROVE IInv'
  <2>1. role[u] \in Role
    BY <1>0 DEF TypeOK
  <2>2. QED
    BY <1>2, <2>1, StageBegin DEF BeginMute, Op, Steps
<1>3. ASSUME NEW u \in User, BeginUnmute(u) PROVE IInv'
  <2>1. role[u] \in Role
    BY <1>0 DEF TypeOK
  <2>2. QED
    BY <1>3, <2>1, StageBegin DEF BeginUnmute, Op, Steps
<1>4. ASSUME NEW u \in User, NEW r \in Role, BeginRole(u, r) PROVE IInv'
  BY <1>4, StageBegin DEF BeginRole, Op, Steps
<1>5. ASSUME NEW u \in User, NEW op \in {"hand", "rest"}, BeginHandOver(op, u) PROVE IInv'
  <2>1. creator \in User \cup {"none"} /\ "MODERATOR" \in Role
    BY <1>0 DEF TypeOK, Role
  <2>2. op \in Op /\ "own" \in Steps[op]
    BY DEF Op, Steps
  <2>3. QED
    BY <1>5, <2>1, <2>2, StageBegin DEF BeginHandOver
<1>6. ASSUME NEW t \in todo,
             SignToken(t) \/ WriteMute(t) \/ SetMute(t) \/ WriteCreator(t)
             \/ ReadRoom(t) \/ WriteRole(t) \/ SetMic(t) \/ Fail(t)
      PROVE  IInv'
  BY <1>6, SignTokenInv, WriteMuteInv, SetMuteInv, WriteCreatorInv, ReadRoomInv,
     WriteRoleInv, SetMicInv, FailInv
<1>7. QED
  BY <1>1, <1>2, <1>3, <1>4, <1>5, <1>6, DisconnectInv, ConnectInv, StageStutter DEF Next

\* What MicWithinRight rests on: whoever holds a right the rows no longer give
\* either has a handler on its way to take it, or went astray
\* (voice.service.ts:743-750, 925-933).
THEOREM StageInvariance == Spec => []IInv
BY StageInit, StageNext, PTL DEF Spec

\* Every variable stays within its type.
THEOREM StageTypeCorrect == Spec => []TypeOK
<1>1. IInv => TypeOK
  BY DEF IInv
<1>2. QED
  BY StageInvariance, <1>1, PTL

\* Once the handler that lowered them has told LiveKit, whoever can publish is on
\* stage and not muted; what can go wrong is a word or a token that another
\* write had overtaken, or a word that never arrived (voice.service.ts:743-750,
\* 925-933, livekit.service.ts:343-374).
THEOREM MicsWithinRight == Spec => []MicWithinRight
<1>1. IInv => MicWithinRight
  <2> SUFFICES ASSUME IInv, NEW u \in User \ astray, mic[u] = "speak",
                      ~(\E t \in todo : Owes(t, u))
               PROVE  CanSpeak(creator, u, role[u]) /\ u \notin muted
    BY DEF MicWithinRight
  <2>1. /\ u \in muted => \E t \in todo : t.who = u /\ t.pc = "mute"
        /\ Entitled(u)
    BY DEF IInv, MicsRight
  <2>2. QED
    BY <2>1 DEF Entitled, Owes
<1>2. QED
  BY StageInvariance, <1>1, PTL

=============================================================================
