-------------------------- MODULE Matchmaking_proofs --------------------------
(***************************************************************************)
(* Proofs about Matchmaking, for any people, instances, requests and       *)
(* bounds: types; at most one call per join; an entry for every place of   *)
(* those who asked once; but for two people per failure, nobody who waits  *)
(* is forgotten.  The argument: a join puts its user into one pair of      *)
(* hands, and each step that takes a person out of one pair of hands puts  *)
(* them into another, or lets go.                                          *)
(***************************************************************************)
EXTENDS Matchmaking, FiniteSetTheorems, TLAPS

TickPc == {"off", "fetch", "expire", "dropLate", "pair", "dropA", "claimB",
           "putBack", "dropB", "room", "tell"}

-----------------------------------------------------------------------------
(* The states of a tick *)

LEMMA TickParts ==
  ASSUME NEW t, IsTick(t)
  PROVE  /\ t.pc \in TickPc /\ t.ids \subseteq User /\ IsQueue(t.seen)
         /\ t.todo \subseteq User /\ t.pairs \subseteq User \X User
         /\ t.a \in User \cup {Nobody} /\ t.b \in User \cup {Nobody}
         /\ t.call \in Call \cup {Nobody}
BY DEF IsTick, TickPc

LEMMA TickMade ==
  ASSUME NEW pc \in TickPc, NEW ids \in SUBSET User, NEW seen, IsQueue(seen),
         NEW todo \in SUBSET User, NEW P \in SUBSET (User \X User),
         NEW a \in User \cup {Nobody}, NEW b \in User \cup {Nobody},
         NEW call \in Call \cup {Nobody}
  PROVE  IsTick([pc |-> pc, ids |-> ids, seen |-> seen, todo |-> todo, pairs |-> P,
                 a |-> a, b |-> b, call |-> call])
BY DEF IsTick, TickPc

LEMMA EmptyQueue == IsQueue(Empty)
BY DEF IsQueue, Empty

LEMMA NoTickFits == IsTick(NoTick) /\ TickFits(NoTick)
<1>1. IsTick(NoTick)
  BY EmptyQueue, TickMade DEF NoTick, TickPc
<1>2. QED
  BY <1>1 DEF NoTick, TickFits

\* A tick on its way to the next pair.
LEMMA PairingFits ==
  ASSUME NEW seen, IsQueue(seen), NEW P \in SUBSET (User \X User),
         \A c \in P : {c[1], c[2]} \in Suited /\ c[1] \in DOMAIN seen
  PROVE  /\ IsTick(Pairing(seen, P)) /\ TickFits(Pairing(seen, P))
         /\ Pairing(seen, P).pc \in {"off", "pair"}
         /\ Pairing(seen, P).a = Nobody /\ Pairing(seen, P).b = Nobody
<1>1. CASE P = {}
  BY <1>1, NoTickFits DEF Pairing, NoTick
<1>2. CASE P # {}
  <2> DEFINE firsts == {c[1] : c \in P}
             kept == [u \in firsts |-> seen[u]]
             t == [pc |-> "pair", ids |-> {}, seen |-> kept, todo |-> {}, pairs |-> P,
                   a |-> Nobody, b |-> Nobody, call |-> Nobody]
  <2>1. Pairing(seen, P) = t
    BY <1>2 DEF Pairing, NoTick
  <2>2. IsQueue(kept)
    BY DEF IsQueue
  <2>3. IsTick(t)
    <3> HIDE DEF kept
    <3>1. QED
      BY <2>2, TickMade DEF TickPc
  <2>4. TickFits(t)
    BY DEF TickFits
  <2>5. QED
    BY <2>1, <2>3, <2>4
<1>3. QED
  BY <1>1, <1>2

LEMMA PairingsFit ==
  ASSUME NEW seen, IsQueue(seen), NEW P \in Pairings(seen)
  PROVE  /\ P \in SUBSET (User \X User)
         /\ \A c \in P : {c[1], c[2]} \in Suited /\ c[1] \in DOMAIN seen
<1>1. DOMAIN seen \subseteq User
  BY DEF IsQueue
<1> DEFINE people == DOMAIN seen
<1>2. P \subseteq {c \in people \X people : /\ Compatible(seen, c[1], c[2])
                                            /\ WaitedLonger(seen, c[1], c[2])}
  BY DEF Pairings
<1>3. \A c \in P : c \in people \X people /\ Compatible(seen, c[1], c[2])
  BY <1>2
<1> HIDE DEF people
<1>4. people \X people \subseteq User \X User
  BY <1>1 DEF people
<1>5. \A c \in people \X people : c[1] \in people
  OBVIOUS
<1>6. P \in SUBSET (User \X User)
  BY <1>3, <1>4
<1>7. QED
  BY <1>3, <1>5, <1>6 DEF Compatible, people

\* Tick i becomes t.
Becomes(i, t) == /\ Set(i, t) /\ IsTick(t) /\ TickFits(t)'

\* Tick i goes on with nobody in hand.
Rests(i) == \E t : /\ Becomes(i, t)
                   /\ t.pc \in {"off", "fetch", "expire", "pair"}
                   /\ t.a = Nobody /\ t.b = Nobody

LEMMA ProceedRests ==
  ASSUME NEW i \in Instance, NEW todo \in SUBSET User, NEW seen, IsQueue(seen),
         Proceed(i, todo, seen)
  PROVE  Rests(i)
<1>1. CASE todo # {}
  <2> DEFINE t == [NoTick EXCEPT !.pc = "expire", !.todo = todo, !.seen = seen]
  <2>1. /\ t.pc = "expire" /\ t.pairs = {} /\ t.a = Nobody /\ t.b = Nobody
    BY DEF NoTick
  <2>2. IsTick(t)
    BY DEF IsTick, NoTick
  <2>3. Set(i, t)
    BY <1>1 DEF Proceed
  <2> HIDE DEF t
  <2>4. TickFits(t)'
    BY <2>1 DEF TickFits
  <2>5. QED
    BY <2>1, <2>2, <2>3, <2>4 DEF Rests, Becomes
<1>2. CASE todo = {}
  <2>1. PICK P \in Pairings(seen) : Set(i, Pairing(seen, P))
    BY <1>2 DEF Proceed
  <2>2. /\ IsTick(Pairing(seen, P)) /\ TickFits(Pairing(seen, P))
        /\ Pairing(seen, P).pc \in {"off", "pair"}
        /\ Pairing(seen, P).a = Nobody /\ Pairing(seen, P).b = Nobody
    BY PairingsFit, PairingFits
  <2>3. TickFits(Pairing(seen, P))'
    BY <2>2 DEF TickFits
  <2>4. QED
    BY <2>1, <2>2, <2>3 DEF Rests, Becomes
<1>3. QED
  BY <1>1, <1>2

-----------------------------------------------------------------------------
(* What a step leaves well-formed *)

\* Calls are only added, and keep their two people.
CallsGrow ==
  /\ DOMAIN calls' \subseteq Call /\ DOMAIN calls \subseteq DOMAIN calls'
  /\ calls' \in [DOMAIN calls' -> [who : Pair, open : BOOLEAN]]
  /\ \A c \in DOMAIN calls : calls'[c].who = calls[c].who

WorldTyped ==
  /\ order' \subseteq User /\ IsQueue(entries') /\ blocks' \subseteq Pair
  /\ built' \in Nat /\ joins' \in [User -> 0..MaxJoins]
  /\ owed' \subseteq User /\ fails' \in 0..MaxFails

LEMMA CallsStay ==
  ASSUME ShapeInv, UNCHANGED calls PROVE CallsGrow
BY DEF ShapeInv, TypeOK, CallsGrow

LEMMA FitsStay ==
  ASSUME CallsGrow,
         NEW i \in Instance, TickFits(tick[i]), tick'[i] = tick[i]
  PROVE  TickFits(tick[i])'
BY DEF CallsGrow, TickFits

LEMMA RequestFitsStay ==
  ASSUME CallsGrow,
         NEW p \in Proc, RequestFits(req[p]), req'[p] = req[p]
  PROVE  RequestFits(req[p])'
BY DEF CallsGrow, RequestFits

LEMMA ShapeKept ==
  ASSUME ShapeInv, CallsGrow, WorldTyped,
         tick' = [i \in Instance |-> tick'[i]],
         \A i \in Instance : tick'[i] = tick[i] \/ (IsTick(tick[i]) /\ TickFits(tick[i]))',
         req' \in [Proc -> Request],
         \A p \in Proc : req'[p] = req[p] \/ RequestFits(req[p])'
  PROVE  ShapeInv'
<1>1. \A i \in Instance : (IsTick(tick[i]) /\ TickFits(tick[i]))'
  <2> TAKE i \in Instance
  <2>1. IsTick(tick[i]) /\ TickFits(tick[i])
    BY DEF ShapeInv, TypeOK
  <2>2. CASE tick'[i] = tick[i]
    BY <2>1, <2>2, FitsStay
  <2>3. QED
    BY <2>2
<1>2. \A p \in Proc : RequestFits(req[p])'
  BY RequestFitsStay DEF ShapeInv
<1>3. TypeOK'
  BY <1>1 DEF TypeOK, CallsGrow, WorldTyped
<1>4. QED
  BY <1>1, <1>2, <1>3 DEF ShapeInv

LEMMA TickShape ==
  ASSUME ShapeInv, CallsGrow, WorldTyped, NEW i \in Instance, NEW t, Becomes(i, t),
         UNCHANGED req
  PROVE  /\ ShapeInv' /\ tick'[i] = t
         /\ \A j \in Instance \ {i} : tick'[j] = tick[j]
<1>1. tick = [j \in Instance |-> tick[j]] /\ req \in [Proc -> Request]
  BY DEF ShapeInv, TypeOK
<1>2. /\ tick' = [j \in Instance |-> tick'[j]] /\ tick'[i] = t
      /\ \A j \in Instance \ {i} : tick'[j] = tick[j]
  BY <1>1 DEF Becomes, Set
<1>3. (IsTick(tick[i]) /\ TickFits(tick[i]))'
  BY <1>2 DEF Becomes
<1>4. \A j \in Instance : tick'[j] = tick[j] \/ (IsTick(tick[j]) /\ TickFits(tick[j]))'
  BY <1>2, <1>3
<1>5. ShapeInv'
  BY <1>1, <1>2, <1>4, ShapeKept
<1>6. QED
  BY <1>2, <1>5

LEMMA RequestShape ==
  ASSUME ShapeInv, CallsGrow, WorldTyped, NEW p \in Proc, NEW r \in Request,
         req' = [req EXCEPT ![p] = r], RequestFits(r)', UNCHANGED tick
  PROVE  /\ ShapeInv' /\ req'[p] = r
         /\ \A q \in Proc \ {p} : req'[q] = req[q]
<1>1. tick = [j \in Instance |-> tick[j]] /\ req \in [Proc -> Request]
  BY DEF ShapeInv, TypeOK
<1>2. /\ req' \in [Proc -> Request] /\ req'[p] = r
      /\ \A q \in Proc \ {p} : req'[q] = req[q]
  BY <1>1
<1>3. RequestFits(req[p])'
  BY <1>2
<1>4. \A q \in Proc : req'[q] = req[q] \/ RequestFits(req[q])'
  BY <1>2, <1>3
<1>5. ShapeInv'
  BY <1>1, <1>2, <1>4, ShapeKept
<1>6. QED
  BY <1>2, <1>5

-----------------------------------------------------------------------------
(* The commands *)

LEMMA HdelTyped ==
  ASSUME IsQueue(entries), NEW u, Hdel(u)
  PROVE  IsQueue(entries') /\ DOMAIN entries' = DOMAIN entries \ {u}
BY DEF Hdel, IsQueue

LEMMA AddTyped ==
  ASSUME IsQueue(entries), order \subseteq User, NEW u \in User, NEW e \in Entry, Add(u, e)
  PROVE  /\ IsQueue(entries') /\ DOMAIN entries' = DOMAIN entries \cup {u}
         /\ order' = order \cup {u} /\ order' \subseteq User
<1>1. entries' = [v \in DOMAIN entries \cup {u} |-> IF v = u THEN e ELSE entries[v]]
  BY DEF Add
<1>2. DOMAIN entries \subseteq User /\ entries \in [DOMAIN entries -> Entry]
  BY DEF IsQueue
<1>3. DOMAIN entries' = DOMAIN entries \cup {u}
  BY <1>1
<1>4. entries' \in [DOMAIN entries \cup {u} -> Entry]
  BY <1>1, <1>2
<1>5. QED
  BY <1>2, <1>3, <1>4 DEF Add, IsQueue

LEMMA EndCallTyped ==
  ASSUME ShapeInv, NEW c \in DOMAIN calls, EndCall(c)
  PROVE  /\ CallsGrow /\ DOMAIN calls' = DOMAIN calls
         /\ owed' = IF calls[c].open THEN owed \ calls[c].who ELSE owed
         /\ owed' \subseteq User /\ ~calls'[c].open
         /\ \A d \in DOMAIN calls \ {c} : calls'[d] = calls[d]
<1>1. /\ calls \in [DOMAIN calls -> [who : Pair, open : BOOLEAN]]
      /\ DOMAIN calls \subseteq Call /\ owed \subseteq User
  BY DEF ShapeInv, TypeOK
<1>2. calls' = [calls EXCEPT ![c].open = FALSE]
  BY DEF EndCall
<1>3. /\ DOMAIN calls' = DOMAIN calls
      /\ calls'[c] = [calls[c] EXCEPT !.open = FALSE]
      /\ \A d \in DOMAIN calls \ {c} : calls'[d] = calls[d]
  BY <1>1, <1>2
<1>4. /\ calls'[c] \in [who : Pair, open : BOOLEAN]
      /\ calls'[c].who = calls[c].who /\ ~calls'[c].open
  BY <1>1, <1>3
<1>5. CallsGrow
  <2>1. calls' \in [DOMAIN calls -> [who : Pair, open : BOOLEAN]]
    BY <1>1, <1>2, <1>4
  <2>2. QED
    BY <1>1, <1>3, <1>4, <2>1 DEF CallsGrow
<1>6. QED
  BY <1>1, <1>3, <1>4, <1>5 DEF EndCall

LEMMA Typed ==
  ASSUME ShapeInv
  PROVE  /\ order \subseteq User /\ IsQueue(entries) /\ blocks \subseteq Pair
         /\ built \in Nat /\ joins \in [User -> 0..MaxJoins]
         /\ owed \subseteq User /\ fails \in 0..MaxFails
         /\ req \in [Proc -> Request]
         /\ \A i \in Instance : IsTick(tick[i]) /\ TickFits(tick[i])
         /\ \A p \in Proc : req[p] \in Request /\ RequestFits(req[p])
BY DEF ShapeInv, TypeOK

LEMMA NextPairRests ==
  ASSUME ShapeInv, NEW i \in Instance, NextPair(i) PROVE Rests(i)
<1>1. PICK seen, P : seen = tick[i].seen /\ P = tick[i].pairs
  OBVIOUS
<1>2. IsQueue(seen) /\ P \in SUBSET (User \X User)
  BY <1>1, Typed, TickParts
<1>3. \A c \in P : {c[1], c[2]} \in Suited /\ c[1] \in DOMAIN seen
  BY <1>1, Typed DEF TickFits
<1>4. PICK t : t = Pairing(seen, P)
  OBVIOUS
<1>5. IsTick(t) /\ t.pc \in {"off", "pair"} /\ t.a = Nobody /\ t.b = Nobody /\ TickFits(t)
  BY <1>2, <1>3, <1>4, PairingFits
<1>6. TickFits(t)'
  BY <1>5 DEF TickFits
<1>7. Set(i, t)
  BY <1>1, <1>4 DEF NextPair
<1>8. QED
  BY <1>5, <1>6, <1>7 DEF Rests, Becomes

\* Tick i goes on to pc with the same people.
LEMMA MovesOn ==
  ASSUME ShapeInv, NEW i \in Instance,
         NEW pc \in {"claimB", "putBack", "dropB", "room"}, Moves(i, pc),
         tick[i].pc \in {"dropA", "claimB", "dropB"},
         pc \in {"claimB", "putBack"} => tick[i].pc \in {"dropA", "claimB"}
  PROVE  \E t : /\ Becomes(i, t) /\ t.pc = pc /\ t.a = tick[i].a /\ t.b = tick[i].b
<1>1. IsTick(tick[i]) /\ TickFits(tick[i])
  BY Typed
<1>2. PICK t : t = [tick[i] EXCEPT !.pc = pc]
  OBVIOUS
<1>3. /\ t.pc = pc /\ t.a = tick[i].a /\ t.b = tick[i].b /\ t.seen = tick[i].seen
      /\ t.pairs = tick[i].pairs /\ IsTick(t)
  BY <1>1, <1>2 DEF IsTick
<1>4. TickFits(t)'
  BY <1>1, <1>3 DEF TickFits
<1>5. QED
  BY <1>2, <1>3, <1>4 DEF Becomes, Moves
-----------------------------------------------------------------------------
(* What each step of a tick does *)

\* The steps after which a tick has nobody in hand.
LEMMA RestSteps ==
  ASSUME ShapeInv, NEW i \in Instance,
         \/ StartTick(i) \/ FetchEntries(i) \/ DropLate(i) \/ NoRoom(i) \/ Tell(i)
         \/ CannotTell(i) \/ FailInsert(i) \/ FailTick(i)
  PROVE  /\ Rests(i) /\ CallsGrow /\ WorldTyped /\ DOMAIN calls' = DOMAIN calls
         /\ UNCHANGED <<req, joins, order>>
<1>1. /\ order \subseteq User /\ IsQueue(entries) /\ blocks \subseteq Pair
      /\ built \in Nat /\ joins \in [User -> 0..MaxJoins]
      /\ owed \subseteq User /\ fails \in 0..MaxFails
      /\ IsTick(tick[i]) /\ TickFits(tick[i])
  BY Typed
<1>2. MaxFails \in Nat
  BY MatchAssumption
<1>3. CASE StartTick(i)
  <2>1. PICK t : t = [NoTick EXCEPT !.pc = "fetch", !.ids = order]
    OBVIOUS
  <2>2. /\ IsTick(t) /\ t.pc = "fetch" /\ t.a = Nobody /\ t.b = Nobody /\ t.pairs = {}
    BY <1>1, <2>1, EmptyQueue DEF NoTick, IsTick
  <2>3. TickFits(t)'
    BY <2>2 DEF TickFits
  <2>4. Rests(i)
    BY <1>3, <2>1, <2>2, <2>3 DEF StartTick, Rests, Becomes
  <2>5. QED
    BY <1>1, <1>3, <2>4, CallsStay DEF StartTick, WorldTyped, queue, world
<1>4. CASE FetchEntries(i)
  <2>1. PICK over, seen :
           /\ over = {u \in tick[i].ids \cap DOMAIN entries : entries[u].late}
           /\ seen = [u \in (tick[i].ids \cap DOMAIN entries) \ over |-> entries[u]]
    OBVIOUS
  <2>2. Proceed(i, over, seen)
    BY <1>4, <2>1 DEF FetchEntries
  <2>3. over \in SUBSET User /\ IsQueue(seen)
    BY <1>1, <2>1 DEF IsQueue
  <2>4. Rests(i)
    BY <2>2, <2>3, ProceedRests
  <2>5. QED
    BY <1>1, <1>4, <2>4, CallsStay DEF FetchEntries, WorldTyped, queue, world
<1>5. CASE DropLate(i)
  <2>1. Rests(i)
    <3>1. PICK todo, seen : todo = tick[i].todo /\ seen = tick[i].seen
      OBVIOUS
    <3>2. Proceed(i, todo, seen) /\ todo \in SUBSET User /\ IsQueue(seen)
      BY <1>1, <1>5, <3>1, TickParts DEF DropLate
    <3>3. QED
      BY <3>2, ProceedRests
  <2>2. IsQueue(entries')
    BY <1>1, <1>5, HdelTyped DEF DropLate
  <2>3. QED
    BY <1>1, <1>5, <2>1, <2>2, CallsStay DEF DropLate, WorldTyped, world
<1>6. CASE NoRoom(i) \/ Tell(i) \/ FailInsert(i)
  <2>1. Rests(i)
    BY <1>6, NextPairRests DEF NoRoom, Tell, FailInsert
  <2>2. fails' \in 0..MaxFails
    BY <1>1, <1>2, <1>6 DEF NoRoom, Tell, FailInsert
  <2>3. QED
    BY <1>1, <1>6, <2>1, <2>2, CallsStay
       DEF NoRoom, Tell, FailInsert, WorldTyped, queue, world
<1>7. CASE CannotTell(i)
  <2>1. EndCall(tick[i].call) /\ tick[i].call \in DOMAIN calls
    BY <1>1, <1>7 DEF CannotTell, TickFits, At
  <2>2. CallsGrow /\ DOMAIN calls' = DOMAIN calls /\ owed' \subseteq User
    BY <2>1, EndCallTyped
  <2>3. Rests(i)
    BY <1>7, NextPairRests DEF CannotTell
  <2>4. QED
    BY <1>1, <1>7, <2>2, <2>3 DEF CannotTell, WorldTyped, queue, world
<1>8. CASE FailTick(i)
  <2>1. PICK t : t = NoTick
    OBVIOUS
  <2>2. /\ IsTick(t) /\ t.pc = "off" /\ t.a = Nobody /\ t.b = Nobody /\ t.pairs = {}
    BY <2>1, NoTickFits DEF NoTick
  <2>3. TickFits(t)'
    BY <2>2 DEF TickFits
  <2>4. Rests(i)
    BY <1>8, <2>1, <2>2, <2>3 DEF FailTick, Rests, Becomes
  <2>5. fails' \in 0..MaxFails
    BY <1>1, <1>2, <1>8 DEF FailTick
  <2>6. QED
    BY <1>1, <1>8, <2>4, <2>5, CallsStay DEF FailTick, WorldTyped, queue, world
<1>9. QED
  BY <1>3, <1>4, <1>5, <1>6, <1>7, <1>8

\* The steps that take a place out of the queue.
Takes(i, u, t) == /\ u \in order /\ order' = order \ {u} /\ Becomes(i, t)
                  /\ UNCHANGED <<entries, calls, owed>>

LEMMA ClaimLateTakes ==
  ASSUME ShapeInv, NEW i \in Instance, ClaimLate(i)
  PROVE  /\ UNCHANGED <<entries, world, calls, req, owed, fails>> /\ tick[i].pc = "expire"
         /\ \/ Rests(i) /\ UNCHANGED order
            \/ \E u, t : u \in User /\ Takes(i, u, t) /\ t.pc = "dropLate" /\ t.a = u /\ t.b = Nobody
<1>1. IsTick(tick[i]) /\ TickFits(tick[i]) /\ order \subseteq User
  BY Typed
<1>2. PICK u \in tick[i].todo :
         IF u \in order
         THEN /\ Zrem(u)
              /\ Set(i, [tick[i] EXCEPT !.pc = "dropLate", !.todo = @ \ {u}, !.a = u])
         ELSE /\ Proceed(i, tick[i].todo \ {u}, tick[i].seen)
              /\ UNCHANGED order
  BY DEF ClaimLate
<1>3. /\ tick[i].pc = "expire" /\ UNCHANGED <<entries, world, calls, req, owed, fails>>
  BY DEF ClaimLate, At
<1>4. u \in User
  BY <1>1, <1>2, TickParts
<1>5. CASE u \in order
  <2>1. PICK t : t = [tick[i] EXCEPT !.pc = "dropLate", !.todo = @ \ {u}, !.a = u]
    OBVIOUS
  <2>2. /\ IsTick(t) /\ t.pc = "dropLate" /\ t.a = u /\ t.b = tick[i].b
        /\ t.pairs = tick[i].pairs /\ t.seen = tick[i].seen
    BY <1>1, <1>4, <2>1 DEF IsTick
  <2>3. t.b = Nobody /\ TickFits(t)'
    BY <1>1, <1>3, <2>2 DEF TickFits
  <2>4. Takes(i, u, t)
    BY <1>2, <1>3, <1>5, <2>1, <2>2, <2>3 DEF Takes, Becomes, Zrem
  <2>5. QED
    BY <1>3, <1>4, <2>2, <2>3, <2>4
<1>6. CASE u \notin order
  <2>1. PICK todo, seen : todo = tick[i].todo \ {u} /\ seen = tick[i].seen
    OBVIOUS
  <2>2. Proceed(i, todo, seen) /\ todo \in SUBSET User /\ IsQueue(seen)
    BY <1>1, <1>2, <1>6, <2>1, TickParts
  <2>3. QED
    BY <1>2, <1>3, <1>6, <2>2, ProceedRests
<1>7. QED
  BY <1>5, <1>6

LEMMA ClaimATakes ==
  ASSUME ShapeInv, NEW i \in Instance, ClaimA(i)
  PROVE  /\ UNCHANGED <<entries, world, calls, req, owed, fails>> /\ tick[i].pc = "pair"
         /\ \/ Rests(i) /\ UNCHANGED order
            \/ \E u, t : u \in User /\ Takes(i, u, t) /\ t.pc = "dropA" /\ t.a = u
<1>1. IsTick(tick[i]) /\ TickFits(tick[i]) /\ order \subseteq User
  BY Typed
<1>2. PICK c \in tick[i].pairs :
         IF Claimed(c[1])
         THEN /\ Zrem(c[1])
              /\ Set(i, [tick[i] EXCEPT !.pc = "dropA", !.pairs = @ \ {c},
                                        !.a = c[1], !.b = c[2]])
         ELSE /\ Set(i, Pairing(tick[i].seen, tick[i].pairs \ {c}))
              /\ UNCHANGED order
  BY DEF ClaimA
<1>3. /\ tick[i].pc = "pair" /\ UNCHANGED <<entries, world, calls, req, owed, fails>>
  BY DEF ClaimA, At
<1>4. /\ {c[1], c[2]} \in Suited /\ c[1] \in DOMAIN tick[i].seen
      /\ c[1] \in User /\ c[2] \in User /\ tick[i].pairs \in SUBSET (User \X User)
      /\ IsQueue(tick[i].seen)
  BY <1>1, TickParts DEF TickFits
<1>5. CASE Claimed(c[1])
  <2>1. PICK t : t = [tick[i] EXCEPT !.pc = "dropA", !.pairs = @ \ {c},
                                     !.a = c[1], !.b = c[2]]
    OBVIOUS
  <2>2. /\ IsTick(t) /\ t.pc = "dropA" /\ t.a = c[1] /\ t.b = c[2]
        /\ t.pairs = tick[i].pairs \ {c} /\ t.seen = tick[i].seen
    BY <1>1, <1>4, <2>1 DEF IsTick
  <2>3. TickFits(t)'
    BY <1>1, <1>4, <2>2 DEF TickFits
  <2>4. Takes(i, c[1], t)
    BY <1>2, <1>3, <1>5, <2>1, <2>2, <2>3 DEF Takes, Becomes, Zrem, Claimed
  <2>5. QED
    BY <1>3, <1>4, <2>2, <2>4
<1>6. CASE ~Claimed(c[1])
  <2>1. PICK P, seen : P = tick[i].pairs \ {c} /\ seen = tick[i].seen
    OBVIOUS
  <2>2. /\ P \in SUBSET (User \X User) /\ IsQueue(seen)
        /\ \A d \in P : {d[1], d[2]} \in Suited /\ d[1] \in DOMAIN seen
    BY <1>1, <1>4, <2>1 DEF TickFits
  <2>3. PICK t : t = Pairing(seen, P)
    OBVIOUS
  <2>4. IsTick(t) /\ t.pc \in {"off", "pair"} /\ t.a = Nobody /\ t.b = Nobody /\ TickFits(t)
    BY <2>2, <2>3, PairingFits
  <2>5. TickFits(t)' /\ Set(i, t)
    BY <1>2, <1>6, <2>1, <2>3, <2>4 DEF TickFits
  <2>6. QED
    BY <1>2, <1>3, <1>6, <2>4, <2>5 DEF Rests, Becomes
<1>7. QED
  BY <1>5, <1>6

LEMMA ClaimBTakes ==
  ASSUME ShapeInv, NEW i \in Instance, ClaimB(i)
  PROVE  /\ UNCHANGED <<entries, world, calls, req, owed, fails>> /\ tick[i].pc = "claimB"
         /\ \E t : /\ t.a = tick[i].a /\ t.b = tick[i].b
                   /\ \/ t.pc = "putBack" /\ Becomes(i, t) /\ UNCHANGED order
                         /\ tick[i].b \notin order
                      \/ t.pc = "dropB" /\ Takes(i, tick[i].b, t)
<1>1. tick[i].pc = "claimB" /\ UNCHANGED <<entries, world, calls, req, owed, fails>>
  BY DEF ClaimB, At
<1>2. CASE Claimed(tick[i].b)
  <2>1. Zrem(tick[i].b) /\ Moves(i, "dropB")
    BY <1>2 DEF ClaimB
  <2>2. PICK t : Becomes(i, t) /\ t.pc = "dropB" /\ t.a = tick[i].a /\ t.b = tick[i].b
    BY <1>1, <2>1, MovesOn
  <2>3. QED
    BY <1>1, <1>2, <2>1, <2>2 DEF Takes, Zrem, Claimed
<1>3. CASE ~Claimed(tick[i].b)
  <2>1. UNCHANGED order /\ Moves(i, "putBack") /\ tick[i].b \notin order
    BY <1>3 DEF ClaimB, Claimed
  <2>2. PICK t : Becomes(i, t) /\ t.pc = "putBack" /\ t.a = tick[i].a /\ t.b = tick[i].b
    BY <1>1, <2>1, MovesOn
  <2>3. QED
    BY <1>1, <2>1, <2>2
<1>4. QED
  BY <1>2, <1>3

LEMMA DropsMoveOn ==
  ASSUME ShapeInv, NEW i \in Instance, DropA(i) \/ DropB(i)
  PROVE  /\ UNCHANGED <<order, world, calls, req, owed, fails>>
         /\ \E t : /\ Becomes(i, t) /\ t.a = tick[i].a /\ t.b = tick[i].b
                   /\ \/ /\ tick[i].pc = "dropA" /\ t.pc = "claimB"
                         /\ DOMAIN entries' = DOMAIN entries \ {tick[i].a}
                      \/ /\ tick[i].pc = "dropB" /\ t.pc = "room"
                         /\ DOMAIN entries' = DOMAIN entries \ {tick[i].b}
         /\ IsQueue(entries')
<1>1. IsQueue(entries)
  BY Typed
<1>2. CASE DropA(i)
  <2>1. tick[i].pc = "dropA" /\ Hdel(tick[i].a) /\ Moves(i, "claimB")
        /\ UNCHANGED <<order, world, calls, req, owed, fails>>
    BY <1>2 DEF DropA, At
  <2>2. IsQueue(entries') /\ DOMAIN entries' = DOMAIN entries \ {tick[i].a}
    BY <1>1, <2>1, HdelTyped
  <2>3. PICK t : Becomes(i, t) /\ t.pc = "claimB" /\ t.a = tick[i].a /\ t.b = tick[i].b
    BY <2>1, MovesOn
  <2>4. QED
    BY <2>1, <2>2, <2>3
<1>3. CASE DropB(i)
  <2>1. tick[i].pc = "dropB" /\ Hdel(tick[i].b) /\ Moves(i, "room")
        /\ UNCHANGED <<order, world, calls, req, owed, fails>>
    BY <1>3 DEF DropB, At
  <2>2. IsQueue(entries') /\ DOMAIN entries' = DOMAIN entries \ {tick[i].b}
    BY <1>1, <2>1, HdelTyped
  <2>3. PICK t : Becomes(i, t) /\ t.pc = "room" /\ t.a = tick[i].a /\ t.b = tick[i].b
    BY <2>1, MovesOn
  <2>4. QED
    BY <2>1, <2>2, <2>3
<1>4. QED
  BY <1>2, <1>3

LEMMA PutBackRests ==
  ASSUME ShapeInv, NEW i \in Instance, PutBack(i)
  PROVE  /\ tick[i].pc = "putBack" /\ tick[i].a \in User /\ Rests(i)
         /\ order' = order \cup {tick[i].a} /\ order' \subseteq User
         /\ IsQueue(entries') /\ DOMAIN entries' = DOMAIN entries \cup {tick[i].a}
         /\ UNCHANGED <<world, calls, req, owed, fails>>
<1>1. /\ tick[i].pc = "putBack" /\ Add(tick[i].a, tick[i].seen[tick[i].a]) /\ NextPair(i)
      /\ UNCHANGED <<world, calls, req, owed, fails>>
  BY DEF PutBack, At
<1>2. IsTick(tick[i]) /\ TickFits(tick[i]) /\ order \subseteq User /\ IsQueue(entries)
  BY Typed
<1>3. tick[i].a \in DOMAIN tick[i].seen /\ IsQueue(tick[i].seen)
  BY <1>1, <1>2, TickParts DEF TickFits
<1>4. tick[i].a \in User /\ tick[i].seen[tick[i].a] \in Entry
  BY <1>3 DEF IsQueue
<1>5. QED
  BY <1>1, <1>2, <1>4, AddTyped, NextPairRests

LEMMA CreateCallAdds ==
  ASSUME ShapeInv, NEW i \in Instance, NEW c \in Call, CreateCall(i, c)
  PROVE  /\ CallsGrow /\ UNCHANGED <<queue, world, req, owed, fails>> /\ tick[i].pc = "room"
         /\ c \notin DOMAIN calls /\ DOMAIN calls' = DOMAIN calls \cup {c}
         /\ calls'[c].who = {tick[i].a, tick[i].b} /\ calls'[c].open
         /\ \A d \in DOMAIN calls : calls'[d] = calls[d]
         /\ \E t : /\ Becomes(i, t) /\ t.pc = "tell" /\ t.call = c
                   /\ t.a = tick[i].a /\ t.b = tick[i].b
<1> DEFINE new == [who |-> {tick[i].a, tick[i].b}, open |-> TRUE]
<1>1. /\ tick[i].pc = "room" /\ c \notin DOMAIN calls
      /\ calls' = [d \in DOMAIN calls \cup {c} |-> IF d = c THEN new ELSE calls[d]]
      /\ Set(i, [tick[i] EXCEPT !.pc = "tell", !.call = c])
      /\ UNCHANGED <<queue, world, req, owed, fails>>
  BY DEF CreateCall, At
<1>2. /\ IsTick(tick[i]) /\ TickFits(tick[i])
      /\ DOMAIN calls \subseteq Call /\ calls \in [DOMAIN calls -> [who : Pair, open : BOOLEAN]]
  BY Typed DEF ShapeInv, TypeOK
<1>3. {tick[i].a, tick[i].b} \in Pair
  <2>1. {tick[i].a, tick[i].b} \in Suited
    BY <1>1, <1>2 DEF TickFits
  <2>2. QED
    BY <2>1, MatchAssumption DEF Pair
<1>4. new \in [who : Pair, open : BOOLEAN] /\ new.who = {tick[i].a, tick[i].b} /\ new.open
  BY <1>3
<1> HIDE DEF new
<1>5. /\ DOMAIN calls' = DOMAIN calls \cup {c} /\ calls'[c] = new
      /\ \A d \in DOMAIN calls : calls'[d] = calls[d]
      /\ calls' \in [DOMAIN calls \cup {c} -> [who : Pair, open : BOOLEAN]]
  BY <1>1, <1>2, <1>4
<1>6. CallsGrow
  BY <1>2, <1>5 DEF CallsGrow
<1>7. PICK t : t = [tick[i] EXCEPT !.pc = "tell", !.call = c]
  OBVIOUS
<1>8. /\ IsTick(t) /\ t.pc = "tell" /\ t.a = tick[i].a /\ t.b = tick[i].b /\ t.call = c
      /\ t.pairs = tick[i].pairs /\ t.seen = tick[i].seen
  BY <1>2, <1>7 DEF IsTick
<1>9. TickFits(t)'
  BY <1>1, <1>2, <1>4, <1>5, <1>8 DEF TickFits
<1>10. QED
  BY <1>1, <1>4, <1>5, <1>6, <1>7, <1>8, <1>9 DEF Becomes

-----------------------------------------------------------------------------
(* What each step of a request does *)

RequestPc == {"idle", "check", "build", "unqueue", "drop", "enqueue", "claim", "hangup"}

\* Request p becomes r.
Turns(p, r) == /\ req' = [req EXCEPT ![p] = r] /\ r \in Request /\ RequestFits(r)'
               /\ UNCHANGED tick

LEMMA AnswersTurn ==
  ASSUME ShapeInv, NEW p \in Proc, Answers(p), UNCHANGED tick
  PROVE  \E r : Turns(p, r) /\ r.pc = "idle" /\ r.op = "none" /\ r.user = Nobody
<1>1. PICK r : r = NoRequest
  OBVIOUS
<1>2. r \in Request /\ r.pc = "idle" /\ r.op = "none" /\ r.user = Nobody
  BY <1>1 DEF NoRequest, Request
<1>3. RequestFits(r)'
  BY <1>2 DEF RequestFits
<1>4. QED
  BY <1>1, <1>2, <1>3 DEF Turns, Answers

\* Request p of its user goes on to pc.
LEMMA GoesOn ==
  ASSUME ShapeInv, NEW p \in Proc, UNCHANGED tick,
         NEW pc \in {"build", "drop", "enqueue"}, Goes(p, pc),
         pc = "build" => req[p].pc = "check",
         pc \in {"drop", "enqueue"} => req[p].pc \in {"unqueue", "drop"},
         pc = "enqueue" => req[p].op = "join"
  PROVE  \E r : Turns(p, r) /\ r.pc = pc /\ r.op = req[p].op /\ r.user = req[p].user
<1>1. req[p] \in Request /\ RequestFits(req[p])
  BY Typed
<1>2. PICK r : r = [req[p] EXCEPT !.pc = pc]
  OBVIOUS
<1>3. /\ r \in Request /\ r.pc = pc /\ r.op = req[p].op /\ r.user = req[p].user
      /\ r.entry = req[p].entry
  BY <1>1, <1>2 DEF Request
<1>4. RequestFits(r)'
  BY <1>1, <1>3 DEF RequestFits
<1>5. req' = [req EXCEPT ![p] = r]
  BY <1>2 DEF Goes
<1>6. QED
  BY <1>3, <1>4, <1>5 DEF Turns

\* A request starts for u.
LEMMA Starts ==
  ASSUME ShapeInv, NEW p \in Proc, NEW u \in User, BeginJoin(p, u) \/ BeginLeave(p, u)
  PROVE  /\ req[p].pc = "idle" /\ UNCHANGED <<queue, blocks, built, calls, owed, fails>>
         /\ \E r : /\ Turns(p, r) /\ r.user = u
                   /\ \/ /\ BeginJoin(p, u) /\ r.op = "join" /\ joins[u] < MaxJoins
                         /\ joins' = [joins EXCEPT ![u] = @ + 1]
                      \/ r.op = "leave" /\ r.pc = "unqueue" /\ UNCHANGED joins
<1>1. /\ req[p].pc = "idle" /\ UNCHANGED <<queue, blocks, built, calls, owed, fails, tick>>
  BY DEF BeginJoin, BeginLeave, world
<1>2. CASE BeginJoin(p, u)
  <2>1. PICK r : r = [NoRequest EXCEPT !.pc = "check", !.op = "join", !.user = u]
    OBVIOUS
  <2>2. r \in Request /\ r.pc = "check" /\ r.op = "join" /\ r.user = u
    BY <2>1 DEF NoRequest, Request
  <2>3. RequestFits(r)'
    BY <2>2 DEF RequestFits
  <2>4. Turns(p, r)
    BY <1>1, <1>2, <2>1, <2>2, <2>3 DEF Turns, BeginJoin
  <2>5. QED
    BY <1>1, <1>2, <2>2, <2>4 DEF BeginJoin
<1>3. CASE BeginLeave(p, u)
  <2>1. PICK r : r = [NoRequest EXCEPT !.pc = "unqueue", !.op = "leave", !.user = u]
    OBVIOUS
  <2>2. r \in Request /\ r.pc = "unqueue" /\ r.op = "leave" /\ r.user = u
    BY <2>1 DEF NoRequest, Request
  <2>3. RequestFits(r)'
    BY <2>2 DEF RequestFits
  <2>4. Turns(p, r)
    BY <1>1, <1>3, <2>1, <2>2, <2>3 DEF Turns, BeginLeave
  <2>5. QED
    BY <1>1, <1>3, <2>2, <2>4 DEF BeginLeave, world
<1>4. QED
  BY <1>2, <1>3

\* The steps that leave the queue alone.
LEMMA QuietRequests ==
  ASSUME ShapeInv, NEW p \in Proc,
         \/ CheckCall(p) \/ BuildEntry(p) \/ HangUp(p) \/ FailRequest(p)
         \/ \E c \in Call : BeginBlock(p, c)
  PROVE  /\ CallsGrow /\ WorldTyped /\ UNCHANGED <<queue, joins>>
         /\ DOMAIN calls' = DOMAIN calls
         /\ \E r : Turns(p, r) /\ \/ /\ r.op = req[p].op /\ r.user = req[p].user
                                     /\ req[p].pc \in {"check", "build"}
                                     /\ r.pc \in {"build", "unqueue"}
                                  \/ r.op \in {"none", "block"}
<1>1. /\ order \subseteq User /\ IsQueue(entries) /\ blocks \subseteq Pair
      /\ built \in Nat /\ joins \in [User -> 0..MaxJoins]
      /\ owed \subseteq User /\ fails \in 0..MaxFails
      /\ req[p] \in Request /\ RequestFits(req[p])
  BY Typed
<1>2. CASE CheckCall(p)
  <2>1. \E r : Turns(p, r) /\ \/ /\ r.op = req[p].op /\ r.user = req[p].user /\ r.pc = "build"
                              \/ r.op = "none"
    BY <1>2, AnswersTurn, GoesOn DEF CheckCall
  <2>2. QED
    BY <1>1, <1>2, <2>1, CallsStay DEF CheckCall, WorldTyped, queue, world
<1>3. CASE BuildEntry(p)
  <2>1. PICK r, e : /\ e = [joinedAt |-> built + 1,
                            blocked |-> {v \in User : {req[p].user, v} \in blocks},
                            late |-> FALSE]
                    /\ r = [req[p] EXCEPT !.pc = "unqueue", !.entry = e]
    OBVIOUS
  <2>2. e \in Entry
    BY <1>1, <2>1 DEF Entry
  <2>3. /\ r \in Request /\ r.pc = "unqueue" /\ r.op = req[p].op /\ r.user = req[p].user
        /\ r.entry = e
    BY <1>1, <2>1, <2>2 DEF Request
  <2>4. RequestFits(r)'
    BY <1>1, <1>3, <2>2, <2>3 DEF RequestFits, BuildEntry
  <2>5. req' = [req EXCEPT ![p] = r]
    BY <1>3, <2>1 DEF BuildEntry
  <2>6. Turns(p, r)
    BY <1>3, <2>3, <2>4, <2>5 DEF Turns, BuildEntry
  <2>7. WorldTyped
    BY <1>1, <1>3 DEF WorldTyped, BuildEntry, queue
  <2>8. QED
    BY <1>3, <2>3, <2>6, <2>7, CallsStay DEF BuildEntry, queue
<1>4. CASE HangUp(p)
  <2>1. EndCall(req[p].call) /\ req[p].call \in DOMAIN calls
    BY <1>1, <1>4 DEF HangUp, RequestFits
  <2>2. CallsGrow /\ DOMAIN calls' = DOMAIN calls /\ owed' \subseteq User
    BY <2>1, EndCallTyped
  <2>3. \E r : Turns(p, r) /\ r.op = "none"
    BY <1>4, AnswersTurn DEF HangUp
  <2>4. QED
    BY <1>1, <1>4, <2>2, <2>3 DEF HangUp, WorldTyped, queue, world
<1>5. CASE FailRequest(p)
  <2>1. \E r : Turns(p, r) /\ r.op = "none"
    BY <1>5, AnswersTurn DEF FailRequest
  <2>2. fails' \in 0..MaxFails
    BY <1>1, <1>5, MatchAssumption DEF FailRequest
  <2>3. QED
    BY <1>1, <1>5, <2>1, <2>2, CallsStay DEF FailRequest, WorldTyped, queue, world
<1>6. CASE \E c \in Call : BeginBlock(p, c)
  <2>1. PICK c \in Call : BeginBlock(p, c)
    BY <1>6
  <2>2. PICK r : r = [NoRequest EXCEPT !.pc = "hangup", !.op = "block", !.call = c]
    OBVIOUS
  <2>3. r \in Request /\ r.pc = "hangup" /\ r.op = "block" /\ r.call = c
    BY <2>2 DEF NoRequest, Request
  <2>4. c \in DOMAIN calls /\ calls' = calls /\ calls[c].who \in Pair
    BY <2>1 DEF BeginBlock, ShapeInv, TypeOK
  <2>5. RequestFits(r)'
    BY <2>3, <2>4 DEF RequestFits
  <2>6. Turns(p, r) /\ WorldTyped /\ UNCHANGED <<queue, joins>>
    BY <1>1, <2>1, <2>2, <2>3, <2>4, <2>5 DEF BeginBlock, Turns, WorldTyped, queue
  <2>7. QED
    BY <2>3, <2>4, <2>6, CallsStay
<1>7. QED
  BY <1>2, <1>3, <1>4, <1>5, <1>6

\* What claiming one's own place ends with.
LEMMA AfterClaimTurns ==
  ASSUME ShapeInv, NEW p \in Proc, AfterClaim(p), UNCHANGED tick,
         req[p].pc \in {"unqueue", "drop"}
  PROVE  /\ owed' \subseteq User
         /\ \/ req[p].op = "join" /\ owed' = owed
            \/ req[p].op = "leave" /\ owed' = owed \ {req[p].user}
         /\ \E r : /\ Turns(p, r)
                   /\ \/ /\ req[p].op = "join" /\ r.pc = "enqueue"
                         /\ r.op = "join" /\ r.user = req[p].user
                      \/ req[p].op = "leave" /\ r.op = "none" /\ r.user = Nobody
<1>1. owed \subseteq User /\ RequestFits(req[p])
  BY Typed
<1>2. req[p].op \in {"join", "leave"}
  BY <1>1 DEF RequestFits
<1>3. CASE req[p].op = "join"
  BY <1>1, <1>3, GoesOn DEF AfterClaim
<1>4. CASE req[p].op = "leave"
  BY <1>1, <1>4, AnswersTurn DEF AfterClaim
<1>5. QED
  BY <1>2, <1>3, <1>4

LEMMA ClaimOwnTurns ==
  ASSUME ShapeInv, NEW p \in Proc, ClaimOwn(p)
  PROVE  /\ req[p].pc = "unqueue" /\ UNCHANGED <<entries, world, calls, tick, fails>>
         /\ owed' \subseteq User /\ order' \subseteq User
         /\ \/ /\ req[p].user \in order /\ order' = order \ {req[p].user} /\ owed' = owed
               /\ \E r : /\ Turns(p, r) /\ r.pc = "drop"
                         /\ r.op = req[p].op /\ r.user = req[p].user
            \/ /\ req[p].user \notin order /\ UNCHANGED order
               /\ owed' = IF req[p].op = "leave" THEN owed \ {req[p].user} ELSE owed
               /\ \E r : /\ Turns(p, r)
                         /\ \/ /\ req[p].op = "join" /\ r.pc = "enqueue"
                               /\ r.op = "join" /\ r.user = req[p].user
                            \/ req[p].op = "leave" /\ r.op = "none" /\ r.user = Nobody
<1>1. /\ req[p].pc = "unqueue" /\ UNCHANGED <<world, calls, tick, fails>>
      /\ order \subseteq User /\ owed \subseteq User
  BY Typed DEF ClaimOwn
<1>2. CASE req[p].user \in order
  <2>1. Zrem(req[p].user) /\ Goes(p, "drop") /\ UNCHANGED <<entries, owed>>
    BY <1>2 DEF ClaimOwn
  <2>2. \E r : Turns(p, r) /\ r.pc = "drop" /\ r.op = req[p].op /\ r.user = req[p].user
    BY <1>1, <2>1, GoesOn
  <2>3. QED
    BY <1>1, <1>2, <2>1, <2>2 DEF Zrem
<1>3. CASE req[p].user \notin order
  <2>1. AfterClaim(p) /\ UNCHANGED queue
    BY <1>3 DEF ClaimOwn
  <2>2. QED
    BY <1>1, <1>3, <2>1, AfterClaimTurns DEF queue
<1>4. QED
  BY <1>2, <1>3

LEMMA DropOwnTurns ==
  ASSUME ShapeInv, NEW p \in Proc, DropOwn(p)
  PROVE  /\ req[p].pc = "drop" /\ UNCHANGED <<order, world, calls, tick, fails>>
         /\ IsQueue(entries') /\ DOMAIN entries' = DOMAIN entries \ {req[p].user}
         /\ owed' \subseteq User
         /\ \/ req[p].op = "join" /\ owed' = owed
            \/ req[p].op = "leave" /\ owed' = owed \ {req[p].user}
         /\ \E r : /\ Turns(p, r)
                   /\ \/ /\ req[p].op = "join" /\ r.pc = "enqueue"
                         /\ r.op = "join" /\ r.user = req[p].user
                      \/ req[p].op = "leave" /\ r.op = "none" /\ r.user = Nobody
<1>1. /\ req[p].pc = "drop" /\ UNCHANGED <<order, world, calls, tick, fails>>
      /\ Hdel(req[p].user) /\ AfterClaim(p) /\ IsQueue(entries)
  BY Typed DEF DropOwn
<1>2. QED
  BY <1>1, AfterClaimTurns, HdelTyped

LEMMA EnqueueTurns ==
  ASSUME ShapeInv, NEW p \in Proc, Enqueue(p)
  PROVE  /\ req[p].pc = "enqueue" /\ req[p].op = "join" /\ req[p].user \in User
         /\ UNCHANGED <<world, calls, tick, fails>>
         /\ order' = order \cup {req[p].user} /\ order' \subseteq User
         /\ IsQueue(entries') /\ DOMAIN entries' = DOMAIN entries \cup {req[p].user}
         /\ owed' = owed \cup {req[p].user} /\ owed' \subseteq User
         /\ \E r : Turns(p, r) /\ r.op = "none" /\ r.user = Nobody
<1>1. /\ req[p].pc = "enqueue" /\ UNCHANGED <<world, calls, tick, fails>>
      /\ Add(req[p].user, req[p].entry) /\ Answers(p) /\ owed' = owed \cup {req[p].user}
  BY DEF Enqueue
<1>2. order \subseteq User /\ owed \subseteq User /\ IsQueue(entries) /\ RequestFits(req[p])
  BY Typed
<1>3. req[p].op = "join" /\ req[p].user \in User /\ req[p].entry \in Entry
  BY <1>1, <1>2 DEF RequestFits
<1>4. QED
  BY <1>1, <1>2, <1>3, AddTyped, AnswersTurn

-----------------------------------------------------------------------------
(* Types and shapes *)

LEMMA ShapeInit == Init => ShapeInv
<1> SUFFICES ASSUME Init PROVE ShapeInv
  OBVIOUS
<1>1. \A i \in Instance : IsTick(tick[i]) /\ TickFits(tick[i])
  BY NoTickFits DEF Init
<1>2. \A p \in Proc : req[p] \in Request /\ RequestFits(req[p])
  BY DEF Init, NoRequest, Request, RequestFits
<1>3. calls = Empty /\ DOMAIN calls = {}
  BY DEF Init, Empty
<1>4. calls \in [DOMAIN calls -> [who : Pair, open : BOOLEAN]]
  BY <1>3 DEF Empty
<1>5. 0 \in 0..MaxJoins /\ 0 \in 0..MaxFails
  BY MatchAssumption
<1>6. TypeOK
  BY <1>1, <1>2, <1>3, <1>4, <1>5, EmptyQueue DEF TypeOK, Init
<1>7. QED
  BY <1>1, <1>2, <1>6 DEF ShapeInv

\* The steps outside ticks and requests.
LEMMA OtherSteps ==
  ASSUME ShapeInv, \/ \E c \in Call : CallEnds(c)
                   \/ \E u \in User : Age(u)
                   \/ UNCHANGED vars
  PROVE  /\ CallsGrow /\ WorldTyped /\ UNCHANGED <<order, joins, tick, req>>
         /\ DOMAIN calls' = DOMAIN calls /\ DOMAIN entries' = DOMAIN entries
<1>1. /\ order \subseteq User /\ IsQueue(entries) /\ blocks \subseteq Pair
      /\ built \in Nat /\ joins \in [User -> 0..MaxJoins]
      /\ owed \subseteq User /\ fails \in 0..MaxFails
  BY Typed
<1>2. CASE \E c \in Call : CallEnds(c)
  <2>1. PICK c \in DOMAIN calls : EndCall(c) /\ UNCHANGED <<queue, world, tick, req, fails>>
    BY <1>2 DEF CallEnds
  <2>2. CallsGrow /\ DOMAIN calls' = DOMAIN calls /\ owed' \subseteq User
    BY <2>1, EndCallTyped
  <2>3. QED
    BY <1>1, <2>1, <2>2 DEF WorldTyped, queue, world
<1>3. CASE \E u \in User : Age(u)
  <2>1. PICK u \in DOMAIN entries : /\ entries' = [entries EXCEPT ![u].late = TRUE]
                                    /\ UNCHANGED <<order, world, calls, tick, req, owed, fails>>
    BY <1>3 DEF Age
  <2>2. [entries[u] EXCEPT !.late = TRUE] \in Entry
    BY <1>1 DEF IsQueue, Entry
  <2>3. IsQueue(entries') /\ DOMAIN entries' = DOMAIN entries
    BY <1>1, <2>1, <2>2 DEF IsQueue
  <2>4. QED
    BY <1>1, <2>1, <2>3, CallsStay DEF WorldTyped, world
<1>4. CASE UNCHANGED vars
  BY <1>1, <1>4, CallsStay DEF vars, WorldTyped
<1>5. QED
  BY <1>2, <1>3, <1>4

\* Any step: calls are only added, the world stays typed, and a tick, a request
\* or neither moves.
LEMMA TickStepShape ==
  ASSUME ShapeInv, NEW i \in Instance,
         StartTick(i) \/ TickStep(i) \/ FailInsert(i) \/ FailTick(i)
  PROVE  CallsGrow /\ WorldTyped /\ UNCHANGED req /\ \E t : Becomes(i, t)
<1>1. /\ order \subseteq User /\ IsQueue(entries) /\ blocks \subseteq Pair
      /\ built \in Nat /\ joins \in [User -> 0..MaxJoins]
      /\ owed \subseteq User /\ fails \in 0..MaxFails
  BY Typed
<1>2. CASE \/ StartTick(i) \/ FetchEntries(i) \/ DropLate(i) \/ NoRoom(i) \/ Tell(i)
           \/ CannotTell(i) \/ FailInsert(i) \/ FailTick(i)
  BY <1>2, RestSteps DEF Rests
<1>3. CASE ClaimLate(i) \/ ClaimA(i) \/ ClaimB(i)
  <2>1. /\ UNCHANGED <<entries, world, calls, req, owed, fails>> /\ order' \subseteq User
        /\ \E t : Becomes(i, t)
    BY <1>1, <1>3, ClaimLateTakes, ClaimATakes, ClaimBTakes DEF Rests, Takes
  <2>2. QED
    BY <1>1, <2>1, CallsStay DEF WorldTyped, world
<1>4. CASE DropA(i) \/ DropB(i)
  <2>1. /\ UNCHANGED <<order, world, calls, req, owed, fails>> /\ IsQueue(entries')
        /\ \E t : Becomes(i, t)
    BY <1>4, DropsMoveOn
  <2>2. QED
    BY <1>1, <2>1, CallsStay DEF WorldTyped, world
<1>5. CASE PutBack(i)
  <2>1. /\ UNCHANGED <<world, calls, req, owed, fails>> /\ IsQueue(entries')
        /\ order' \subseteq User /\ \E t : Becomes(i, t)
    BY <1>5, PutBackRests DEF Rests
  <2>2. QED
    BY <1>1, <2>1, CallsStay DEF WorldTyped, world
<1>6. CASE \E c \in Call : CreateCall(i, c)
  <2>1. /\ CallsGrow /\ UNCHANGED <<queue, world, req, owed, fails>> /\ \E t : Becomes(i, t)
    BY <1>6, CreateCallAdds
  <2>2. QED
    BY <1>1, <2>1 DEF WorldTyped, world, queue
<1>7. QED
  BY <1>2, <1>3, <1>4, <1>5, <1>6 DEF TickStep

LEMMA RequestStepShape ==
  ASSUME ShapeInv, NEW p \in Proc, BeginRequest(p) \/ RequestStep(p) \/ FailRequest(p)
  PROVE  CallsGrow /\ WorldTyped /\ \E r : Turns(p, r)
<1>1. /\ order \subseteq User /\ IsQueue(entries) /\ blocks \subseteq Pair
      /\ built \in Nat /\ joins \in [User -> 0..MaxJoins]
      /\ owed \subseteq User /\ fails \in 0..MaxFails
  BY Typed
<1>2. CASE \/ CheckCall(p) \/ BuildEntry(p) \/ HangUp(p) \/ FailRequest(p)
           \/ \E c \in Call : BeginBlock(p, c)
  BY <1>2, QuietRequests
<1>3. CASE \E u \in User : BeginJoin(p, u) \/ BeginLeave(p, u)
  <2>1. PICK u \in User : BeginJoin(p, u) \/ BeginLeave(p, u)
    BY <1>3
  <2>2. /\ UNCHANGED <<queue, blocks, built, calls, owed, fails>> /\ \E r : Turns(p, r)
        /\ \/ joins[u] < MaxJoins /\ joins' = [joins EXCEPT ![u] = @ + 1]
           \/ UNCHANGED joins
    BY <2>1, Starts
  <2>3. joins' \in [User -> 0..MaxJoins]
    BY <1>1, <2>2, MatchAssumption
  <2>4. QED
    BY <1>1, <2>2, <2>3, CallsStay DEF WorldTyped, queue
<1>4. CASE ClaimOwn(p)
  <2>1. /\ UNCHANGED <<entries, world, calls, fails>> /\ \E r : Turns(p, r)
        /\ order' \subseteq User /\ owed' \subseteq User
    BY <1>4, ClaimOwnTurns
  <2>2. QED
    BY <1>1, <2>1, CallsStay DEF WorldTyped, world
<1>5. CASE DropOwn(p)
  <2>1. /\ UNCHANGED <<order, world, calls, fails>> /\ \E r : Turns(p, r)
        /\ IsQueue(entries') /\ owed' \subseteq User
    BY <1>5, DropOwnTurns
  <2>2. QED
    BY <1>1, <2>1, CallsStay DEF WorldTyped, world
<1>6. CASE Enqueue(p)
  <2>1. /\ UNCHANGED <<world, calls, fails>> /\ \E r : Turns(p, r)
        /\ IsQueue(entries') /\ order' \subseteq User /\ owed' \subseteq User
    BY <1>6, EnqueueTurns
  <2>2. QED
    BY <1>1, <2>1, CallsStay DEF WorldTyped, world
<1>7. QED
  BY <1>2, <1>3, <1>4, <1>5, <1>6 DEF BeginRequest, RequestStep

LEMMA ShapeNext == ShapeInv /\ [Next]_vars => ShapeInv'
<1> SUFFICES ASSUME ShapeInv, [Next]_vars PROVE ShapeInv'
  OBVIOUS
<1>1. ASSUME NEW i \in Instance,
             StartTick(i) \/ TickStep(i) \/ FailInsert(i) \/ FailTick(i)
      PROVE  ShapeInv'
  BY <1>1, TickStepShape, TickShape
<1>2. ASSUME NEW p \in Proc, BeginRequest(p) \/ RequestStep(p) \/ FailRequest(p)
      PROVE  ShapeInv'
  BY <1>2, RequestStepShape, RequestShape DEF Turns
<1>3. CASE \/ \E c \in Call : CallEnds(c)
           \/ \E u \in User : Age(u)
           \/ UNCHANGED vars
  <2>1. CallsGrow /\ WorldTyped /\ UNCHANGED <<tick, req>>
    BY <1>3, OtherSteps
  <2>2. tick = [i \in Instance |-> tick[i]] /\ req \in [Proc -> Request]
    BY DEF ShapeInv, TypeOK
  <2>3. QED
    BY <2>1, <2>2, ShapeKept
<1>4. QED
  BY <1>1, <1>2, <1>3 DEF Next

\* Every queue, tick, request and call keeps the shape its code expects.
THEOREM ShapeInvariance == Spec => []ShapeInv
<1>1. Init => ShapeInv
  BY ShapeInit
<1>2. ShapeInv /\ [Next]_vars => ShapeInv'
  BY ShapeNext
<1>3. QED
  BY <1>1, <1>2, PTL DEF Spec

\* Types, for any number of people, instances, requests and calls.
THEOREM MatchTypeCorrect == Spec => []TypeOK
<1>1. ShapeInv => TypeOK
  BY DEF ShapeInv
<1>2. QED
  BY <1>1, ShapeInvariance, PTL

-----------------------------------------------------------------------------
(* A join puts its user into one pair of hands *)

HasOf(t) == IF t.pc \in {"dropLate", "dropA", "claimB", "putBack"} THEN {t.a}
            ELSE IF t.pc \in {"dropB", "room"} THEN {t.a, t.b} ELSE {}

KeepsOf(r, u) == /\ r.user = u
                 /\ \/ r.op = "join" /\ r.pc # "idle"
                    \/ r.op = "leave" /\ r.pc = "drop"

Fits(u) == IsFiniteSet(Hands(u)) /\ Cardinality(Hands(u)) <= joins[u]

LEMMA FewerFit ==
  ASSUME NEW S, NEW T, NEW n \in Nat, IsFiniteSet(S), Cardinality(S) <= n, T \subseteq S
  PROVE  IsFiniteSet(T) /\ Cardinality(T) <= n
<1>1. IsFiniteSet(T) /\ Cardinality(T) <= Cardinality(S)
  BY FS_Subset
<1>2. Cardinality(S) \in Nat /\ Cardinality(T) \in Nat
  BY <1>1, FS_CardinalityType
<1>3. QED
  BY <1>1, <1>2

LEMMA OneMoreFits ==
  ASSUME NEW S, NEW T, NEW x, NEW n \in Nat, IsFiniteSet(S), Cardinality(S) <= n,
         T \subseteq S \cup {x}
  PROVE  IsFiniteSet(T) /\ Cardinality(T) <= n + 1
<1>1. /\ IsFiniteSet(S \cup {x}) /\ Cardinality(S) \in Nat
      /\ Cardinality(S \cup {x}) = IF x \in S THEN Cardinality(S) ELSE Cardinality(S) + 1
  BY FS_AddElement, FS_CardinalityType
<1>2. Cardinality(S \cup {x}) <= n + 1
  BY <1>1
<1>3. QED
  BY <1>1, <1>2, FewerFit

LEMMA OneForAnotherFits ==
  ASSUME NEW S, NEW T, NEW x \in S, NEW y, NEW n \in Nat,
         IsFiniteSet(S), Cardinality(S) <= n, T \subseteq (S \ {x}) \cup {y}
  PROVE  IsFiniteSet(T) /\ Cardinality(T) <= n
<1>1. PICK R : R = S \ {x}
  OBVIOUS
<1>2. IsFiniteSet(R) /\ Cardinality(R) = Cardinality(S) - 1
  BY <1>1, FS_RemoveElement
<1>3. Cardinality(S) \in Nat /\ Cardinality(R) \in Nat
  BY <1>2, FS_CardinalityType
<1>4. n - 1 \in Nat /\ Cardinality(R) <= n - 1
  BY <1>2, <1>3
<1>5. T \subseteq R \cup {y}
  BY <1>1
<1>6. IsFiniteSet(T) /\ Cardinality(T) <= (n - 1) + 1
  BY <1>2, <1>4, <1>5, OneMoreFits
<1>7. QED
  BY <1>6

LEMMA OnlyOneFits ==
  ASSUME NEW S, NEW x \in S, NEW y \in S, IsFiniteSet(S), Cardinality(S) <= 1
  PROVE  x = y
<1>1. Cardinality(S) \in Nat /\ Cardinality(S) # 0
  BY FS_CardinalityType, FS_EmptySet
<1>2. Cardinality(S) = 1
  BY <1>1
<1>3. QED
  BY <1>2, FS_Singleton

LEMMA HandsHold ==
  ASSUME NEW u
  PROVE  /\ u \in order => <<"queue", u>> \in Hands(u)
         /\ \A i \in Instance : u \in Has(i) => <<"tick", i>> \in Hands(u)
         /\ \A p \in Proc : Keeps(p, u) => <<"request", p>> \in Hands(u)
         /\ \A c \in DOMAIN calls : u \in calls[c].who => <<"call", c>> \in Hands(u)
BY DEF Hands, CallsOf

LEMMA HandsWithin ==
  ASSUME NEW u, NEW S,
         u \in order' => <<"queue", u>> \in S,
         \A i \in Instance : u \in Has(i)' => <<"tick", i>> \in S,
         \A p \in Proc : Keeps(p, u)' => <<"request", p>> \in S,
         \A c \in DOMAIN calls' : u \in calls'[c].who => <<"call", c>> \in S
  PROVE  Hands(u)' \subseteq S
BY DEF Hands, CallsOf

LEMMA HandsLeft ==
  ASSUME NEW u
  PROVE  /\ u \notin order' => <<"queue", u>> \notin Hands(u)'
         /\ \A i \in Instance : u \notin Has(i)' => <<"tick", i>> \notin Hands(u)'
         /\ \A p \in Proc : ~Keeps(p, u)' => <<"request", p>> \notin Hands(u)'
BY DEF Hands, CallsOf

\* u is in no hands that it was not in before, but for those of ticks in I, of
\* requests in P and of calls in C.
QueueKeeps(u) == u \in order' => u \in order
TicksKeep(u, I) == \A i \in Instance \ I : u \in Has(i)' => u \in Has(i)
RequestsKeep(u, P) == \A p \in Proc \ P : Keeps(p, u)' => Keeps(p, u)
CallsKeep(u, C) ==
  \A c \in DOMAIN calls' \ C : u \in calls'[c].who => c \in DOMAIN calls /\ u \in calls[c].who

Loses(u) == /\ QueueKeeps(u) /\ TicksKeep(u, {}) /\ RequestsKeep(u, {}) /\ CallsKeep(u, {})
            /\ joins'[u] = joins[u]

LEMMA HandsGrow ==
  ASSUME NEW u, NEW y, QueueKeeps(u) \/ y = <<"queue", u>>,
         \A i \in Instance : u \in Has(i)' => u \in Has(i) \/ y = <<"tick", i>>,
         \A p \in Proc : Keeps(p, u)' => Keeps(p, u) \/ y = <<"request", p>>,
         \A c \in DOMAIN calls' : u \in calls'[c].who
            => (c \in DOMAIN calls /\ u \in calls[c].who) \/ y = <<"call", c>>
  PROVE  Hands(u)' \subseteq Hands(u) \cup {y}
<1>1. PICK S : S = Hands(u) \cup {y}
  OBVIOUS
<1>2. /\ u \in order' => <<"queue", u>> \in S
      /\ \A i \in Instance : u \in Has(i)' => <<"tick", i>> \in S
      /\ \A p \in Proc : Keeps(p, u)' => <<"request", p>> \in S
      /\ \A c \in DOMAIN calls' : u \in calls'[c].who => <<"call", c>> \in S
  BY <1>1, HandsHold DEF QueueKeeps
<1>3. QED
  BY <1>1, <1>2, HandsWithin

LEMMA FitsNow ==
  ASSUME OnceInv, NEW u \in User
  PROVE  IsFiniteSet(Hands(u)) /\ Cardinality(Hands(u)) <= joins[u] /\ joins[u] \in Nat
BY Typed, MatchAssumption DEF OnceInv, HandsFit

LEMMA LosesKeeps ==
  ASSUME OnceInv, NEW u \in User, Loses(u) PROVE Fits(u)'
<1>1. Hands(u)' \subseteq Hands(u)
  BY HandsHold, HandsWithin DEF Loses, QueueKeeps, TicksKeep, RequestsKeep, CallsKeep
<1>2. IsFiniteSet(Hands(u)') /\ Cardinality(Hands(u)') <= joins[u]
  BY <1>1, FitsNow, FewerFit
<1>3. QED
  BY <1>2 DEF Fits, Loses

LEMMA SwapKeeps ==
  ASSUME OnceInv, NEW u \in User, NEW x, x \in Hands(u), x \notin Hands(u)', NEW y,
         Hands(u)' \subseteq Hands(u) \cup {y}, joins'[u] = joins[u]
  PROVE  Fits(u)'
<1>1. Hands(u)' \subseteq (Hands(u) \ {x}) \cup {y}
  OBVIOUS
<1>2. IsFiniteSet(Hands(u)') /\ Cardinality(Hands(u)') <= joins[u]
  BY <1>1, FitsNow, OneForAnotherFits
<1>3. QED
  BY <1>2 DEF Fits

\* From the queue to a tick or a request.
LEMMA QueueToTick ==
  ASSUME OnceInv, NEW u \in User, NEW i \in Instance,
         u \in order, u \notin order',
         TicksKeep(u, {i}), RequestsKeep(u, {}), CallsKeep(u, {}), joins'[u] = joins[u]
  PROVE  Fits(u)'
<1>1. <<"queue", u>> \in Hands(u) /\ <<"queue", u>> \notin Hands(u)'
  BY HandsHold, HandsLeft
<1>2. Hands(u)' \subseteq Hands(u) \cup {<<"tick", i>>}
  BY HandsGrow DEF QueueKeeps, TicksKeep, RequestsKeep, CallsKeep
<1>3. QED
  BY <1>1, <1>2, SwapKeeps

LEMMA QueueToRequest ==
  ASSUME OnceInv, NEW u \in User, NEW p \in Proc,
         u \in order, u \notin order',
         TicksKeep(u, {}), RequestsKeep(u, {p}), CallsKeep(u, {}), joins'[u] = joins[u]
  PROVE  Fits(u)'
<1>1. <<"queue", u>> \in Hands(u) /\ <<"queue", u>> \notin Hands(u)'
  BY HandsHold, HandsLeft
<1>2. Hands(u)' \subseteq Hands(u) \cup {<<"request", p>>}
  BY HandsGrow DEF QueueKeeps, TicksKeep, RequestsKeep, CallsKeep
<1>3. QED
  BY <1>1, <1>2, SwapKeeps

\* From a tick or a request to the queue.
LEMMA TickToQueue ==
  ASSUME OnceInv, NEW u \in User, NEW i \in Instance,
         u \in Has(i), u \notin Has(i)',
         TicksKeep(u, {}), RequestsKeep(u, {}), CallsKeep(u, {}), joins'[u] = joins[u]
  PROVE  Fits(u)'
<1>1. <<"tick", i>> \in Hands(u) /\ <<"tick", i>> \notin Hands(u)'
  BY HandsHold, HandsLeft
<1>2. Hands(u)' \subseteq Hands(u) \cup {<<"queue", u>>}
  BY HandsGrow DEF QueueKeeps, TicksKeep, RequestsKeep, CallsKeep
<1>3. QED
  BY <1>1, <1>2, SwapKeeps

LEMMA RequestToQueue ==
  ASSUME OnceInv, NEW u \in User, NEW p \in Proc,
         Keeps(p, u), ~Keeps(p, u)',
         TicksKeep(u, {}), RequestsKeep(u, {}), CallsKeep(u, {}), joins'[u] = joins[u]
  PROVE  Fits(u)'
<1>1. <<"request", p>> \in Hands(u) /\ <<"request", p>> \notin Hands(u)'
  BY HandsHold, HandsLeft
<1>2. Hands(u)' \subseteq Hands(u) \cup {<<"queue", u>>}
  BY HandsGrow DEF QueueKeeps, TicksKeep, RequestsKeep, CallsKeep
<1>3. QED
  BY <1>1, <1>2, SwapKeeps

\* From a tick to a call.
LEMMA TickToCall ==
  ASSUME OnceInv, NEW u \in User, NEW i \in Instance, NEW c,
         u \in Has(i), u \notin Has(i)', QueueKeeps(u),
         TicksKeep(u, {}), RequestsKeep(u, {}), CallsKeep(u, {c}), joins'[u] = joins[u]
  PROVE  Fits(u)'
<1>1. <<"tick", i>> \in Hands(u) /\ <<"tick", i>> \notin Hands(u)'
  BY HandsHold, HandsLeft
<1>2. Hands(u)' \subseteq Hands(u) \cup {<<"call", c>>}
  BY HandsGrow DEF QueueKeeps, TicksKeep, RequestsKeep, CallsKeep
<1>3. QED
  BY <1>1, <1>2, SwapKeeps

\* A join takes its user in hand.
LEMMA JoinAddsOne ==
  ASSUME OnceInv, NEW u \in User, NEW p \in Proc, QueueKeeps(u),
         TicksKeep(u, {}), RequestsKeep(u, {p}), CallsKeep(u, {}), joins'[u] = joins[u] + 1
  PROVE  Fits(u)'
<1>1. Hands(u)' \subseteq Hands(u) \cup {<<"request", p>>}
  BY HandsGrow DEF TicksKeep, RequestsKeep, CallsKeep
<1>2. IsFiniteSet(Hands(u)') /\ Cardinality(Hands(u)') <= joins[u] + 1
  BY <1>1, FitsNow, OneMoreFits
<1>3. QED
  BY <1>2 DEF Fits

\* Who asked once and has a place is in no other hands.
LEMMA OnlyQueued ==
  ASSUME OnceInv, NEW u \in order, joins[u] <= 1
  PROVE  /\ \A i \in Instance : u \notin Has(i)
         /\ \A p \in Proc : ~Keeps(p, u)
<1>1. u \in User
  BY Typed DEF OnceInv
<1>2. IsFiniteSet(Hands(u)) /\ Cardinality(Hands(u)) <= 1 /\ <<"queue", u>> \in Hands(u)
  <2>1. IsFiniteSet(Hands(u)) /\ Cardinality(Hands(u)) \in Nat
    BY <1>1, FitsNow, FS_CardinalityType
  <2>2. Cardinality(Hands(u)) <= joins[u] /\ joins[u] \in Nat
    BY <1>1, FitsNow
  <2>3. QED
    BY <2>1, <2>2, HandsHold
<1>3. \A h \in Hands(u) : h = <<"queue", u>>
  BY <1>2, OnlyOneFits
<1>4. QED
  BY <1>3, HandsHold

LEMMA TickPlaces ==
  ASSUME ShapeInv, NEW i \in Instance, NEW t, Becomes(i, t), UNCHANGED req
  PROVE  /\ Has(i) = HasOf(tick[i]) /\ Has(i)' = HasOf(t)
         /\ \A j \in Instance \ {i} : Has(j)' = Has(j)
         /\ \A p \in Proc, u \in User : Keeps(p, u)' <=> Keeps(p, u)
<1>1. tick = [j \in Instance |-> tick[j]]
  BY DEF ShapeInv, TypeOK
<1>2. tick'[i] = t /\ \A j \in Instance \ {i} : tick'[j] = tick[j]
  BY <1>1 DEF Becomes, Set
<1>3. QED
  BY <1>2 DEF Has, HasOf, Keeps

LEMMA RequestPlaces ==
  ASSUME ShapeInv, NEW p \in Proc, NEW r, Turns(p, r)
  PROVE  /\ \A i \in Instance : Has(i)' = Has(i)
         /\ \A u \in User : /\ Keeps(p, u) <=> KeepsOf(req[p], u)
                            /\ Keeps(p, u)' <=> KeepsOf(r, u)
         /\ \A q \in Proc \ {p}, u \in User : Keeps(q, u)' <=> Keeps(q, u)
<1>1. req \in [Proc -> Request]
  BY DEF ShapeInv, TypeOK
<1>2. req'[p] = r /\ \A q \in Proc \ {p} : req'[q] = req[q]
  BY <1>1 DEF Turns
<1>3. QED
  BY <1>2 DEF Has, Turns, Keeps, KeepsOf

\* Nobody gets a place: the tick keeps at most those it had.
LEMMA TickLoses ==
  ASSUME ShapeInv, NEW i \in Instance, NEW t, Becomes(i, t), UNCHANGED <<req, joins>>,
         HasOf(t) \subseteq HasOf(tick[i]), order' \subseteq order,
         CallsGrow, DOMAIN calls' = DOMAIN calls
  PROVE  \A u \in User : Loses(u)
<1> TAKE u \in User
<1>1. TicksKeep(u, {}) /\ RequestsKeep(u, {})
  BY TickPlaces DEF TicksKeep, RequestsKeep
<1>2. QueueKeeps(u) /\ CallsKeep(u, {})
  BY DEF QueueKeeps, CallsKeep, CallsGrow
<1>3. QED
  BY <1>1, <1>2 DEF Loses

LEMMA RestingLoses ==
  ASSUME ShapeInv, NEW i \in Instance, Rests(i), UNCHANGED <<req, joins>>,
         order' \subseteq order, CallsGrow, DOMAIN calls' = DOMAIN calls
  PROVE  \A u \in User : Loses(u)
<1>1. PICK t : Becomes(i, t) /\ t.pc \in {"off", "fetch", "expire", "pair"}
  BY DEF Rests
<1>2. HasOf(t) = {}
  BY <1>1 DEF HasOf
<1>3. QED
  BY <1>1, <1>2, TickLoses

\* A tick takes the place of u.
LEMMA TakesOnce ==
  ASSUME OnceInv, NEW i \in Instance, NEW u \in User, NEW t, Takes(i, u, t),
         UNCHANGED <<req, joins>>, HasOf(t) \subseteq HasOf(tick[i]) \cup {u}
  PROVE  \A v \in User : Fits(v)'
<1>1. ShapeInv
  BY DEF OnceInv
<1>2. Becomes(i, t) /\ u \in order /\ order' = order \ {u} /\ UNCHANGED calls
  BY DEF Takes
<1>3. /\ Has(i)' \subseteq Has(i) \cup {u}
      /\ \A j \in Instance \ {i} : Has(j)' = Has(j)
      /\ \A p \in Proc, v \in User : Keeps(p, v)' <=> Keeps(p, v)
  BY <1>1, <1>2, TickPlaces
<1>4. ASSUME NEW v \in User PROVE Fits(v)'
  <2>1. /\ QueueKeeps(v) /\ TicksKeep(v, {i}) /\ RequestsKeep(v, {}) /\ CallsKeep(v, {})
        /\ v # u => TicksKeep(v, {})
    BY <1>2, <1>3 DEF QueueKeeps, TicksKeep, RequestsKeep, CallsKeep
  <2>2. CASE v # u
    BY <2>1, <2>2, LosesKeeps DEF Loses
  <2>3. CASE v = u
    BY <1>2, <2>1, <2>3, QueueToTick
  <2>4. QED
    BY <2>2, <2>3
<1>5. QED
  BY <1>4

LEMMA PutBackOnce ==
  ASSUME OnceInv, NEW i \in Instance, PutBack(i)
  PROVE  \A v \in User : Fits(v)'
<1>1. ShapeInv
  BY DEF OnceInv
<1>2. /\ tick[i].pc = "putBack" /\ tick[i].a \in User /\ Rests(i)
      /\ order' = order \cup {tick[i].a} /\ UNCHANGED <<world, calls, req>>
  BY <1>1, PutBackRests
<1>3. PICK a : a = tick[i].a
  OBVIOUS
<1>4. PICK t : Becomes(i, t) /\ HasOf(t) = {}
  BY <1>2 DEF Rests, HasOf
<1>5. /\ Has(i)' = {} /\ Has(i) = {a}
      /\ \A j \in Instance \ {i} : Has(j)' = Has(j)
      /\ \A p \in Proc, v \in User : Keeps(p, v)' <=> Keeps(p, v)
  BY <1>1, <1>2, <1>3, <1>4, TickPlaces DEF HasOf
<1>6. ASSUME NEW v \in User PROVE Fits(v)'
  <2>1. /\ TicksKeep(v, {}) /\ RequestsKeep(v, {}) /\ CallsKeep(v, {}) /\ joins'[v] = joins[v]
        /\ v # a => QueueKeeps(v)
    BY <1>2, <1>3, <1>5 DEF QueueKeeps, TicksKeep, RequestsKeep, CallsKeep, world
  <2>2. CASE v # a
    BY <2>1, <2>2, LosesKeeps DEF Loses
  <2>3. CASE v = a
    BY <1>5, <2>1, <2>3, TickToQueue
  <2>4. QED
    BY <2>2, <2>3
<1>7. QED
  BY <1>6

LEMMA CreateCallOnce ==
  ASSUME OnceInv, NEW i \in Instance, NEW c \in Call, CreateCall(i, c)
  PROVE  \A v \in User : Fits(v)'
<1>1. ShapeInv
  BY DEF OnceInv
<1>2. /\ UNCHANGED <<queue, world, req>> /\ tick[i].pc = "room"
      /\ c \notin DOMAIN calls /\ DOMAIN calls' = DOMAIN calls \cup {c}
      /\ \A d \in DOMAIN calls : calls'[d] = calls[d]
  BY <1>1, CreateCallAdds
<1>3. PICK a, b : a = tick[i].a /\ b = tick[i].b /\ calls'[c].who = {a, b}
  <2>1. PICK a, b : a = tick[i].a /\ b = tick[i].b
    OBVIOUS
  <2>2. calls'[c].who = {a, b}
    BY <1>1, <2>1, CreateCallAdds
  <2>3. QED
    BY <2>1, <2>2
<1>4. PICK t : Becomes(i, t) /\ t.pc = "tell"
  BY <1>1, CreateCallAdds
<1>5. HasOf(t) = {} /\ HasOf(tick[i]) = {a, b}
  BY <1>2, <1>3, <1>4 DEF HasOf
<1>6. /\ Has(i)' = {} /\ Has(i) = {a, b}
      /\ \A j \in Instance \ {i} : Has(j)' = Has(j)
      /\ \A p \in Proc, v \in User : Keeps(p, v)' <=> Keeps(p, v)
  BY <1>1, <1>2, <1>4, <1>5, TickPlaces
<1>7. ASSUME NEW v \in User PROVE Fits(v)'
  <2>1. /\ QueueKeeps(v) /\ TicksKeep(v, {}) /\ RequestsKeep(v, {}) /\ CallsKeep(v, {c})
        /\ joins'[v] = joins[v]
        /\ v \notin {a, b} => CallsKeep(v, {})
    BY <1>2, <1>3, <1>6 DEF QueueKeeps, TicksKeep, RequestsKeep, CallsKeep, world, queue
  <2>2. CASE v \notin {a, b}
    BY <2>1, <2>2, LosesKeeps DEF Loses
  <2>3. CASE v \in {a, b}
    BY <1>6, <2>1, <2>3, TickToCall
  <2>4. QED
    BY <2>2, <2>3
<1>8. QED
  BY <1>7

\* The places of others do not change when request p goes on.
LEMMA RequestOthers ==
  ASSUME OnceInv, NEW p \in Proc, NEW r, Turns(p, r), NEW v \in User,
         QueueKeeps(v), CallsGrow, DOMAIN calls' = DOMAIN calls,
         joins'[v] = joins[v], KeepsOf(r, v) => KeepsOf(req[p], v)
  PROVE  Fits(v)'
<1>1. ShapeInv
  BY DEF OnceInv
<1>2. TicksKeep(v, {}) /\ RequestsKeep(v, {})
  BY <1>1, RequestPlaces DEF TicksKeep, RequestsKeep
<1>3. CallsKeep(v, {})
  BY DEF CallsKeep, CallsGrow
<1>4. QED
  BY <1>2, <1>3, LosesKeeps DEF Loses

\* What a request of u may change besides its own hold on u.
LEMMA RequestOwn ==
  ASSUME ShapeInv, NEW p \in Proc, NEW r, Turns(p, r), NEW u \in User, UNCHANGED calls
  PROVE  TicksKeep(u, {}) /\ RequestsKeep(u, {p}) /\ CallsKeep(u, {})
BY RequestPlaces DEF TicksKeep, RequestsKeep, CallsKeep

LEMMA StartOnce ==
  ASSUME OnceInv, NEW p \in Proc, NEW u \in User, BeginJoin(p, u) \/ BeginLeave(p, u)
  PROVE  \A v \in User : Fits(v)'
<1>1. ShapeInv
  BY DEF OnceInv
<1>2. /\ UNCHANGED <<queue, blocks, built, calls, owed, fails>>
      /\ joins \in [User -> 0..MaxJoins] /\ MaxJoins \in Nat
  BY <1>1, Starts, Typed, MatchAssumption
<1>3. PICK r : /\ Turns(p, r) /\ r.user = u
               /\ \/ /\ BeginJoin(p, u) /\ r.op = "join" /\ joins[u] < MaxJoins
                     /\ joins' = [joins EXCEPT ![u] = @ + 1]
                  \/ r.op = "leave" /\ r.pc = "unqueue" /\ UNCHANGED joins
  BY <1>1, Starts
<1>4. CallsGrow /\ DOMAIN calls' = DOMAIN calls /\ \A v \in User : QueueKeeps(v)
  BY <1>1, <1>2, CallsStay DEF queue, QueueKeeps
<1>5. ASSUME NEW v \in User PROVE Fits(v)'
  <2>1. CASE v = u /\ r.op = "join"
    <3>1. joins'[v] = joins[v] + 1
      BY <1>2, <1>3, <2>1
    <3>2. TicksKeep(v, {}) /\ RequestsKeep(v, {p}) /\ CallsKeep(v, {})
      BY <1>1, <1>2, <1>3, RequestOwn
    <3>3. QED
      BY <1>4, <3>1, <3>2, JoinAddsOne
  <2>2. CASE ~(v = u /\ r.op = "join")
    <3>1. ~KeepsOf(r, v)
      BY <1>3, <2>2 DEF KeepsOf
    <3>2. joins'[v] = joins[v]
      BY <1>2, <1>3, <2>2
    <3>3. QED
      BY <1>3, <1>4, <3>1, <3>2, RequestOthers
  <2>3. QED
    BY <2>1, <2>2
<1>6. QED
  BY <1>5

LEMMA ClaimOwnOnce ==
  ASSUME OnceInv, NEW p \in Proc, ClaimOwn(p)
  PROVE  \A v \in User : Fits(v)'
<1>1. ShapeInv
  BY DEF OnceInv
<1>2. /\ req[p].pc = "unqueue" /\ UNCHANGED <<world, calls>>
      /\ RequestFits(req[p]) /\ CallsGrow
  BY <1>1, ClaimOwnTurns, Typed, CallsStay
<1>3. PICK u : u = req[p].user
  OBVIOUS
<1>4. u \in User /\ joins' = joins /\ req[p].op \in {"join", "leave"}
  BY <1>2, <1>3 DEF RequestFits, world
<1>5. CASE u \in order
  <2>1. PICK r : /\ Turns(p, r) /\ r.pc = "drop" /\ r.op = req[p].op /\ r.user = u
                 /\ order' = order \ {u}
    BY <1>1, <1>3, <1>5, ClaimOwnTurns
  <2>2. ASSUME NEW v \in User PROVE Fits(v)'
    <3>1. CASE v = u
      <4>1. TicksKeep(v, {}) /\ RequestsKeep(v, {p}) /\ CallsKeep(v, {})
        BY <1>1, <1>2, <2>1, RequestOwn
      <4>2. QED
        BY <1>4, <1>5, <2>1, <3>1, <4>1, QueueToRequest
    <3>2. CASE v # u
      <4>1. ~KeepsOf(r, v) /\ QueueKeeps(v)
        BY <2>1, <3>2 DEF KeepsOf, QueueKeeps
      <4>2. QED
        BY <1>2, <1>4, <2>1, <4>1, RequestOthers
    <3>3. QED
      BY <3>1, <3>2
  <2>3. QED
    BY <2>2
<1>6. CASE u \notin order
  <2>1. PICK r : /\ Turns(p, r) /\ order' = order
                 /\ \/ /\ req[p].op = "join" /\ r.pc = "enqueue" /\ r.op = "join"
                       /\ r.user = req[p].user
                    \/ r.op = "none"
    BY <1>1, <1>3, <1>6, ClaimOwnTurns
  <2>2. \A v \in User : (KeepsOf(r, v) => KeepsOf(req[p], v)) /\ QueueKeeps(v)
    BY <1>2, <2>1 DEF KeepsOf, QueueKeeps
  <2>3. QED
    BY <1>2, <1>4, <2>1, <2>2, RequestOthers
<1>7. QED
  BY <1>5, <1>6

LEMMA DropOwnOnce ==
  ASSUME OnceInv, NEW p \in Proc, DropOwn(p)
  PROVE  \A v \in User : Fits(v)'
<1>1. ShapeInv
  BY DEF OnceInv
<1>2. req[p].pc = "drop" /\ UNCHANGED <<order, world, calls>> /\ CallsGrow
  BY <1>1, DropOwnTurns, CallsStay
<1>3. PICK r : /\ Turns(p, r)
               /\ \/ /\ req[p].op = "join" /\ r.pc = "enqueue" /\ r.op = "join"
                     /\ r.user = req[p].user
                  \/ r.op = "none"
  BY <1>1, DropOwnTurns
<1>4. \A v \in User : (KeepsOf(r, v) => KeepsOf(req[p], v)) /\ QueueKeeps(v)
  BY <1>2, <1>3 DEF KeepsOf, QueueKeeps
<1>5. joins' = joins
  BY <1>2 DEF world
<1>6. QED
  BY <1>2, <1>3, <1>4, <1>5, RequestOthers

LEMMA EnqueueOnce ==
  ASSUME OnceInv, NEW p \in Proc, Enqueue(p)
  PROVE  (\A v \in User : Fits(v)') /\ PlacesHaveEntries'
<1>1. ShapeInv /\ PlacesHaveEntries
  BY DEF OnceInv
<1>2. PICK u : u = req[p].user
  OBVIOUS
<1>3. /\ req[p].pc = "enqueue" /\ req[p].op = "join" /\ u \in User
      /\ UNCHANGED <<world, calls>>
      /\ order' = order \cup {u} /\ DOMAIN entries' = DOMAIN entries \cup {u}
      /\ CallsGrow
  BY <1>1, <1>2, EnqueueTurns, CallsStay
<1>4. PICK r : Turns(p, r) /\ r.op = "none"
  BY <1>1, EnqueueTurns
<1>5. joins' = joins /\ \A v : ~KeepsOf(r, v)
  BY <1>3, <1>4 DEF world, KeepsOf
<1>6. ASSUME NEW v \in User PROVE Fits(v)'
  <2>1. CASE v = u
    <3>1. Keeps(p, v) /\ ~Keeps(p, v)'
      BY <1>1, <1>2, <1>3, <1>4, <1>5, <2>1, RequestPlaces DEF Keeps
    <3>2. TicksKeep(v, {}) /\ RequestsKeep(v, {p}) /\ CallsKeep(v, {})
      BY <1>1, <1>3, <1>4, RequestOwn
    <3>3. RequestsKeep(v, {})
      BY <3>1, <3>2 DEF RequestsKeep
    <3>4. QED
      BY <1>5, <3>1, <3>2, <3>3, RequestToQueue
  <2>2. CASE v # u
    <3>1. QueueKeeps(v)
      BY <1>3, <2>2 DEF QueueKeeps
    <3>2. QED
      BY <1>3, <1>4, <1>5, <3>1, RequestOthers
  <2>3. QED
    BY <2>1, <2>2
<1>7. PlacesHaveEntries'
  BY <1>1, <1>3, <1>5 DEF PlacesHaveEntries
<1>8. QED
  BY <1>6, <1>7

\* A step of a tick counts no join.
LEMMA TickJoins ==
  ASSUME NEW i \in Instance, StartTick(i) \/ TickStep(i) \/ FailInsert(i) \/ FailTick(i)
  PROVE  joins' = joins
BY DEF StartTick, TickStep, FailInsert, FailTick, FetchEntries, ClaimLate, DropLate, ClaimA,
       DropA, ClaimB, PutBack, DropB, NoRoom, Tell, CannotTell, CreateCall, world

\* Of those who asked once, only the entry of someone without a place is cleared.
LEMMA TickKeepsEntries ==
  ASSUME OnceInv, NEW i \in Instance,
         StartTick(i) \/ TickStep(i) \/ FailInsert(i) \/ FailTick(i)
  PROVE  PlacesHaveEntries'
<1>1. /\ ShapeInv /\ PlacesHaveEntries
      /\ order \subseteq User /\ IsQueue(entries)
  BY Typed DEF OnceInv
<1>2. /\ \A v \in order : joins[v] <= 1 => v \notin Has(i)
      /\ joins' = joins
  BY OnlyQueued, TickJoins
<1>3. CASE \/ StartTick(i) \/ FetchEntries(i) \/ NoRoom(i) \/ Tell(i)
           \/ CannotTell(i) \/ FailInsert(i) \/ FailTick(i) \/ \E c \in Call : CreateCall(i, c)
  <2>1. UNCHANGED <<order, entries>>
    BY <1>3 DEF StartTick, FetchEntries, NoRoom, Tell, CannotTell, FailInsert, FailTick,
                CreateCall, queue
  <2>2. QED
    BY <1>1, <1>2, <2>1 DEF PlacesHaveEntries
<1>4. CASE DropLate(i)
  <2>1. /\ tick[i].pc = "dropLate" /\ Hdel(tick[i].a) /\ UNCHANGED order
    BY <1>4 DEF DropLate, At
  <2>2. DOMAIN entries' = DOMAIN entries \ {tick[i].a}
    BY <1>1, <2>1, HdelTyped
  <2>3. tick[i].a \in order => ~(joins[tick[i].a] <= 1)
    BY <1>2, <2>1 DEF Has
  <2>4. QED
    BY <1>1, <1>2, <2>1, <2>2, <2>3 DEF PlacesHaveEntries
<1>5. CASE ClaimLate(i) \/ ClaimA(i) \/ ClaimB(i)
  <2>1. UNCHANGED entries /\ order' \subseteq order
    BY <1>1, <1>5, ClaimLateTakes, ClaimATakes, ClaimBTakes DEF Takes
  <2>2. QED
    BY <1>1, <1>2, <2>1 DEF PlacesHaveEntries
<1>6. CASE DropA(i) \/ DropB(i)
  <2>1. /\ UNCHANGED order
        /\ \/ tick[i].pc = "dropA" /\ DOMAIN entries' = DOMAIN entries \ {tick[i].a}
           \/ tick[i].pc = "dropB" /\ DOMAIN entries' = DOMAIN entries \ {tick[i].b}
    BY <1>1, <1>6, DropsMoveOn
  <2>2. /\ tick[i].pc = "dropA" => (tick[i].a \in order => ~(joins[tick[i].a] <= 1))
        /\ tick[i].pc = "dropB" => (tick[i].b \in order => ~(joins[tick[i].b] <= 1))
    BY <1>2 DEF Has
  <2>3. QED
    BY <1>1, <1>2, <2>1, <2>2 DEF PlacesHaveEntries
<1>7. CASE PutBack(i)
  <2>1. order' = order \cup {tick[i].a} /\ DOMAIN entries' = DOMAIN entries \cup {tick[i].a}
    BY <1>1, <1>7, PutBackRests
  <2>2. QED
    BY <1>1, <1>2, <2>1 DEF PlacesHaveEntries
<1>8. QED
  BY <1>3, <1>4, <1>5, <1>6, <1>7 DEF TickStep

LEMMA RequestKeepsEntries ==
  ASSUME OnceInv, NEW p \in Proc, BeginRequest(p) \/ RequestStep(p) \/ FailRequest(p)
  PROVE  PlacesHaveEntries'
<1>1. /\ ShapeInv /\ PlacesHaveEntries
      /\ RequestFits(req[p])
  BY Typed DEF OnceInv
<1>2. CASE \/ CheckCall(p) \/ BuildEntry(p) \/ HangUp(p) \/ FailRequest(p)
           \/ \E c \in Call : BeginBlock(p, c)
           \/ \E u \in User : BeginJoin(p, u) \/ BeginLeave(p, u)
  <2>1. UNCHANGED queue
    BY <1>2 DEF CheckCall, BuildEntry, HangUp, FailRequest, BeginBlock, BeginJoin, BeginLeave
  <2>2. \A v \in User : joins'[v] <= 1 => joins[v] <= 1
    <3>1. UNCHANGED joins \/ \E u \in User : joins' = [joins EXCEPT ![u] = @ + 1]
      BY <1>2 DEF CheckCall, BuildEntry, HangUp, FailRequest, BeginBlock, BeginJoin,
                  BeginLeave, world
    <3>2. joins \in [User -> Nat]
      BY <1>1, Typed, MatchAssumption
    <3>3. QED
      BY <3>1, <3>2
  <2>3. QED
    BY <1>1, <2>1, <2>2, Typed DEF PlacesHaveEntries, queue
<1>3. CASE ClaimOwn(p)
  <2>1. UNCHANGED <<entries, joins>> /\ order' \subseteq order
    BY <1>1, <1>3, ClaimOwnTurns DEF world
  <2>2. QED
    BY <1>1, <2>1 DEF PlacesHaveEntries
<1>4. CASE DropOwn(p)
  <2>1. /\ req[p].pc = "drop" /\ UNCHANGED <<order, joins>>
        /\ DOMAIN entries' = DOMAIN entries \ {req[p].user}
    BY <1>1, <1>4, DropOwnTurns DEF world
  <2>2. Keeps(p, req[p].user) /\ req[p].user \in User
    BY <1>1, <2>1 DEF Keeps, RequestFits
  <2>3. req[p].user \in order => ~(joins[req[p].user] <= 1)
    BY <2>2, OnlyQueued
  <2>4. QED
    BY <1>1, <2>1, <2>3 DEF PlacesHaveEntries
<1>5. CASE Enqueue(p)
  BY <1>5, EnqueueOnce
<1>6. QED
  BY <1>2, <1>3, <1>4, <1>5 DEF BeginRequest, RequestStep

LEMMA TickOnce ==
  ASSUME OnceInv, NEW i \in Instance,
         StartTick(i) \/ TickStep(i) \/ FailInsert(i) \/ FailTick(i)
  PROVE  \A v \in User : Fits(v)'
<1>1. ShapeInv
  BY DEF OnceInv
<1>2. CASE \/ StartTick(i) \/ FetchEntries(i) \/ DropLate(i) \/ NoRoom(i) \/ Tell(i)
           \/ CannotTell(i) \/ FailInsert(i) \/ FailTick(i)
  <2>1. /\ Rests(i) /\ CallsGrow /\ DOMAIN calls' = DOMAIN calls
        /\ UNCHANGED <<req, joins, order>>
    BY <1>1, <1>2, RestSteps
  <2>2. \A v \in User : Loses(v)
    BY <1>1, <2>1, RestingLoses
  <2>3. QED
    BY <1>1, <2>2, LosesKeeps
<1>3. CASE ClaimLate(i) \/ ClaimA(i)
  <2>1. UNCHANGED <<calls, req, world>>
    BY <1>1, <1>3, ClaimLateTakes, ClaimATakes
  <2>2. \/ Rests(i) /\ UNCHANGED order
        \/ \E u, t : u \in User /\ Takes(i, u, t) /\ t.pc \in {"dropLate", "dropA"} /\ t.a = u
    BY <1>1, <1>3, ClaimLateTakes, ClaimATakes
  <2>3. UNCHANGED <<req, joins>> /\ CallsGrow /\ DOMAIN calls' = DOMAIN calls
    BY <1>1, <2>1, CallsStay DEF world
  <2>4. CASE Rests(i) /\ UNCHANGED order
    <3>1. \A v \in User : Loses(v)
      BY <1>1, <2>3, <2>4, RestingLoses
    <3>2. QED
      BY <1>1, <3>1, LosesKeeps
  <2>5. CASE \E u, t : u \in User /\ Takes(i, u, t) /\ t.pc \in {"dropLate", "dropA"} /\ t.a = u
    <3>1. PICK u, t : u \in User /\ Takes(i, u, t) /\ t.pc \in {"dropLate", "dropA"} /\ t.a = u
      BY <2>5
    <3>2. HasOf(t) = {u}
      BY <3>1 DEF HasOf
    <3>3. QED
      BY <2>3, <3>1, <3>2, TakesOnce
  <2>6. QED
    BY <2>2, <2>4, <2>5
<1>4. CASE ClaimB(i)
  <2>1. UNCHANGED <<calls, req, world>> /\ tick[i].pc = "claimB"
    BY <1>1, <1>4, ClaimBTakes
  <2>2. UNCHANGED <<req, joins>> /\ CallsGrow /\ DOMAIN calls' = DOMAIN calls
    BY <1>1, <2>1, CallsStay DEF world
  <2>3. PICK t : /\ t.a = tick[i].a /\ t.b = tick[i].b
                 /\ \/ t.pc = "putBack" /\ Becomes(i, t) /\ UNCHANGED order
                    \/ t.pc = "dropB" /\ Takes(i, tick[i].b, t)
    BY <1>1, <1>4, ClaimBTakes
  <2>4. HasOf(tick[i]) = {tick[i].a}
    BY <2>1 DEF HasOf
  <2>5. CASE t.pc = "putBack"
    <3>1. HasOf(t) = {tick[i].a} /\ Becomes(i, t) /\ UNCHANGED order
      BY <2>3, <2>5 DEF HasOf
    <3>2. \A v \in User : Loses(v)
      BY <1>1, <2>2, <2>4, <3>1, TickLoses
    <3>3. QED
      BY <1>1, <3>2, LosesKeeps
  <2>6. CASE t.pc = "dropB"
    <3>1. PICK b : b = tick[i].b
      OBVIOUS
    <3>2. Takes(i, b, t) /\ HasOf(t) \subseteq HasOf(tick[i]) \cup {b} /\ b \in User
      BY <1>1, <2>3, <2>4, <2>6, <3>1, Typed DEF HasOf, Takes
    <3>3. QED
      BY <2>2, <3>2, TakesOnce
  <2>7. QED
    BY <2>3, <2>5, <2>6
<1>5. CASE DropA(i) \/ DropB(i)
  <2>1. UNCHANGED <<order, world, calls, req>>
    BY <1>1, <1>5, DropsMoveOn
  <2>2. UNCHANGED <<req, joins>> /\ CallsGrow /\ DOMAIN calls' = DOMAIN calls
    BY <1>1, <2>1, CallsStay DEF world
  <2>3. PICK t : /\ Becomes(i, t) /\ t.a = tick[i].a /\ t.b = tick[i].b
                 /\ \/ tick[i].pc = "dropA" /\ t.pc = "claimB"
                    \/ tick[i].pc = "dropB" /\ t.pc = "room"
    BY <1>1, <1>5, DropsMoveOn
  <2>4. HasOf(t) \subseteq HasOf(tick[i])
    BY <2>3 DEF HasOf
  <2>5. \A v \in User : Loses(v)
    BY <1>1, <2>1, <2>2, <2>3, <2>4, TickLoses
  <2>6. QED
    BY <1>1, <2>5, LosesKeeps
<1>6. CASE PutBack(i)
  BY <1>6, PutBackOnce
<1>7. CASE \E c \in Call : CreateCall(i, c)
  BY <1>7, CreateCallOnce
<1>8. QED
  BY <1>2, <1>3, <1>4, <1>5, <1>6, <1>7 DEF TickStep

LEMMA RequestOnce ==
  ASSUME OnceInv, NEW p \in Proc,
         BeginRequest(p) \/ RequestStep(p) \/ FailRequest(p)
  PROVE  \A v \in User : Fits(v)'
<1>1. ShapeInv
  BY DEF OnceInv
<1>2. CASE \/ CheckCall(p) \/ BuildEntry(p) \/ HangUp(p) \/ FailRequest(p)
           \/ \E c \in Call : BeginBlock(p, c)
  <2>1. CallsGrow /\ UNCHANGED <<queue, joins>> /\ DOMAIN calls' = DOMAIN calls
    BY <1>1, <1>2, QuietRequests
  <2>2. PICK r : Turns(p, r) /\ \/ /\ r.op = req[p].op /\ r.user = req[p].user
                                   /\ req[p].pc \in {"check", "build"}
                                   /\ r.pc \in {"build", "unqueue"}
                                \/ r.op \in {"none", "block"}
    BY <1>1, <1>2, QuietRequests
  <2>3. \A v \in User : KeepsOf(r, v) => KeepsOf(req[p], v)
    BY <2>2 DEF KeepsOf
  <2>4. \A v \in User : QueueKeeps(v) /\ joins'[v] = joins[v]
    BY <2>1 DEF queue, QueueKeeps
  <2>5. QED
    BY <2>1, <2>2, <2>3, <2>4, RequestOthers
<1>3. CASE \E u \in User : BeginJoin(p, u) \/ BeginLeave(p, u)
  BY <1>3, StartOnce
<1>4. CASE ClaimOwn(p) \/ DropOwn(p) \/ Enqueue(p)
  BY <1>4, ClaimOwnOnce, DropOwnOnce, EnqueueOnce
<1>5. QED
  BY <1>2, <1>3, <1>4 DEF BeginRequest, RequestStep

LEMMA HandsFitNext ==
  ASSUME \A v \in User : Fits(v)' PROVE HandsFit'
BY DEF HandsFit, Fits

LEMMA OnceNext == OnceInv /\ [Next]_vars => OnceInv'
<1> SUFFICES ASSUME OnceInv, [Next]_vars PROVE OnceInv'
  OBVIOUS
<1>1. ShapeInv /\ ShapeInv'
  BY ShapeNext DEF OnceInv
<1>2. ASSUME NEW i \in Instance,
             StartTick(i) \/ TickStep(i) \/ FailInsert(i) \/ FailTick(i)
      PROVE  OnceInv'
  BY <1>1, <1>2, TickOnce, TickKeepsEntries, HandsFitNext DEF OnceInv
<1>3. ASSUME NEW p \in Proc, BeginRequest(p) \/ RequestStep(p) \/ FailRequest(p)
      PROVE  OnceInv'
  BY <1>1, <1>3, RequestOnce, RequestKeepsEntries, HandsFitNext DEF OnceInv
<1>4. CASE \/ \E c \in Call : CallEnds(c)
           \/ \E u \in User : Age(u)
           \/ UNCHANGED vars
  <2>1. /\ CallsGrow /\ UNCHANGED <<order, joins, tick, req>>
        /\ DOMAIN calls' = DOMAIN calls /\ DOMAIN entries' = DOMAIN entries
    BY <1>1, <1>4, OtherSteps
  <2>2. \A v \in User : TicksKeep(v, {}) /\ RequestsKeep(v, {})
    BY <2>1 DEF TicksKeep, RequestsKeep, Has, Keeps
  <2>3. \A v \in User : QueueKeeps(v) /\ CallsKeep(v, {}) /\ joins'[v] = joins[v]
    BY <2>1 DEF QueueKeeps, CallsKeep, CallsGrow
  <2>4. \A v \in User : Fits(v)'
    BY <2>2, <2>3, LosesKeeps DEF Loses
  <2>5. PlacesHaveEntries'
    BY <2>1 DEF OnceInv, PlacesHaveEntries
  <2>6. QED
    BY <1>1, <2>4, <2>5, HandsFitNext DEF OnceInv
<1>5. QED
  BY <1>2, <1>3, <1>4 DEF Next

\* However often people join: a person is in the hands of at most one queue
\* place, tick, request or call for each time they asked.
THEOREM OnceInvariance == Spec => []OnceInv
<1>1. Init => OnceInv
  <2> SUFFICES ASSUME Init PROVE OnceInv
    OBVIOUS
  <2>1. \A u \in User : Hands(u) = {}
    BY DEF Init, Hands, CallsOf, Has, Keeps, NoTick, NoRequest, Empty
  <2>2. \A u \in User : joins[u] = 0
    BY DEF Init
  <2>3. HandsFit
    BY <2>1, <2>2, FS_EmptySet DEF HandsFit
  <2>4. QED
    BY <2>3, ShapeInit DEF OnceInv, PlacesHaveEntries, Init
<1>2. OnceInv /\ [Next]_vars => OnceInv'
  BY OnceNext
<1>3. QED
  BY <1>1, <1>2, PTL DEF Spec

\* Racing instances never make two calls of one search: a person is put into at
\* most one call for each time they asked (matchmaker.service.ts:71-77).
THEOREM NoMoreCallsThanJoins == Spec => []OneCallPerJoin
<1>1. OnceInv => OneCallPerJoin
  <2> SUFFICES ASSUME OnceInv, NEW u \in User
               PROVE  Cardinality(CallsOf(u)) <= joins[u]
    BY DEF OneCallPerJoin
  <2>1. PICK S : S = {<<"call", c>> : c \in CallsOf(u)}
    OBVIOUS
  <2>2. IsFiniteSet(S) /\ Cardinality(S) <= joins[u]
    <3>1. S \subseteq Hands(u)
      BY <2>1 DEF Hands
    <3>2. QED
      BY <3>1, FitsNow, FewerFit
  <2>3. Cardinality(CallsOf(u)) <= Cardinality(S) /\ Cardinality(CallsOf(u)) \in Nat
    <3>1. PICK T, f : T = CallsOf(u) /\ f = [h \in S |-> h[2]]
      OBVIOUS
    <3>2. f \in [S -> T] /\ \A c \in T : \E h \in S : f[h] = c
      <4>1. \A h \in S : \E c \in T : h = <<"call", c>>
        BY <2>1, <3>1
      <4>2. \A h \in S : h[2] \in T
        BY <4>1
      <4>3. \A c \in T : <<"call", c>> \in S
        BY <2>1, <3>1
      <4>4. \A c \in T : f[<<"call", c>>] = c
        BY <3>1, <4>3
      <4>5. QED
        BY <3>1, <4>2, <4>3, <4>4
    <3>3. f \in Surjection(S, T)
      BY <3>2 DEF Surjection
    <3>4. IsFiniteSet(T) /\ Cardinality(T) <= Cardinality(S)
      BY <2>2, <3>3, FS_Surjection
    <3>5. QED
      BY <3>1, <3>4, FS_CardinalityType
  <2>4. Cardinality(S) \in Nat /\ joins[u] \in Nat
    BY <2>2, FitsNow, FS_CardinalityType
  <2>5. QED
    BY <2>2, <2>3, <2>4
<1>2. QED
  BY <1>1, OnceInvariance, PTL

\* A claim that still clears its entry never clears that of a place given since
\* to someone who asked once (match-queue.ts, claim).
THEOREM EveryPlaceHasEntry == Spec => []PlacesHaveEntries
<1>1. OnceInv => PlacesHaveEntries
  BY DEF OnceInv
<1>2. QED
  BY <1>1, OnceInvariance, PTL

-----------------------------------------------------------------------------
(* Whoever is owed an answer is cared for, or lost by a failure *)

HeldOf(t) == {t.a, t.b} \ (IF t.pc \in {"dropA", "claimB", "putBack"}
                           THEN {t.b, Nobody} ELSE {Nobody})

LEMMA HandParts ==
  ASSUME NEW i \in Instance, NEW u \in User, TickFits(tick[i])
  PROVE  /\ InHand(i, u) <=> /\ u \in HeldOf(tick[i])
                             /\ tick[i].pc = "tell" => calls[tick[i].call].open
         /\ InHand(i, u) => /\ u \in {tick[i].a, tick[i].b}
                            /\ tick[i].pc \notin {"off", "fetch", "expire", "pair"}
                            /\ tick[i].pc \in {"dropLate", "dropA", "claimB", "putBack"}
                                 => u = tick[i].a
BY MatchAssumption DEF InHand, Held, HeldOf, At, TickFits

\* Calls stay as they are, or one is ended and its people are told.
CallsCare == \/ \A c \in DOMAIN calls : calls'[c] = calls[c]
             \/ \E c \in DOMAIN calls : EndCall(c)

LEMMA HandStays ==
  ASSUME ShapeInv, NEW j \in Instance, NEW u \in User, CallsCare, u \in owed',
         tick'[j] = tick[j], InHand(j, u)
  PROVE  InHand(j, u)'
<1>1. TickFits(tick[j])
  BY Typed
<1>2. /\ u \in HeldOf(tick[j]) /\ u \in {tick[j].a, tick[j].b}
      /\ tick[j].pc = "tell" => calls[tick[j].call].open
  BY <1>1, HandParts
<1>3. u \in Held(j)'
  BY <1>2, MatchAssumption DEF Held, HeldOf, At
<1>4. ASSUME tick[j].pc = "tell" PROVE calls'[tick[j].call].open
  <2>1. /\ tick[j].call \in DOMAIN calls /\ u \in calls[tick[j].call].who
        /\ calls[tick[j].call].open
    BY <1>1, <1>2, <1>4 DEF TickFits
  <2>2. CASE \A c \in DOMAIN calls : calls'[c] = calls[c]
    BY <2>1, <2>2
  <2>3. CASE \E c \in DOMAIN calls : EndCall(c)
    <3>1. PICK c \in DOMAIN calls : EndCall(c)
      BY <2>3
    <3>2. /\ owed' = IF calls[c].open THEN owed \ calls[c].who ELSE owed
          /\ \A d \in DOMAIN calls \ {c} : calls'[d] = calls[d]
      BY <3>1, EndCallTyped
    <3>3. tick[j].call # c
      BY <2>1, <3>2
    <3>4. QED
      BY <2>1, <3>2, <3>3
  <2>4. QED
    BY <2>2, <2>3 DEF CallsCare
<1>5. QED
  BY <1>3, <1>4 DEF InHand, At

\* A step of tick i: what others have in hand stays there.
LEMMA TickCaresFor ==
  ASSUME ShapeInv, NEW i \in Instance, NEW t, Becomes(i, t), UNCHANGED req, CallsCare,
         NEW u \in User, u \in owed', Cared(u),
         InHand(i, u) => Cared(u)', u \in order => Cared(u)'
  PROVE  Cared(u)'
<1>1. tick = [j \in Instance |-> tick[j]]
  BY DEF ShapeInv, TypeOK
<1>2. \A j \in Instance \ {i} : tick'[j] = tick[j]
  BY <1>1 DEF Becomes, Set
<1>3. CASE u \in order \/ InHand(i, u)
  BY <1>3
<1>4. CASE \E j \in Instance \ {i} : InHand(j, u)
  <2>1. \E j \in Instance : InHand(j, u)'
    BY <1>2, <1>4, HandStays
  <2>2. QED
    BY <2>1 DEF Cared
<1>5. CASE \E p \in Proc : Returns(p, u)
  BY <1>5 DEF Cared, Returns
<1>6. QED
  BY <1>3, <1>4, <1>5 DEF Cared

LEMMA TickCares ==
  ASSUME ShapeInv, NEW i \in Instance, NEW t, Becomes(i, t), UNCHANGED req, CallsCare,
         owed' \subseteq owed,
         \A u \in owed' : /\ InHand(i, u) => Cared(u)'
                          /\ u \in order => Cared(u)'
  PROVE  Lost' \subseteq Lost
<1>1. owed \subseteq User
  BY Typed
<1>2. \A u \in owed' : Cared(u) => Cared(u)'
  BY <1>1, TickCaresFor
<1>3. QED
  BY <1>2 DEF Lost

\* Tick i now has u in hand.
LEMMA NowInHand ==
  ASSUME ShapeInv, NEW i \in Instance, NEW t, Becomes(i, t), NEW u \in User,
         u \in HeldOf(t), t.pc # "tell" \/ calls'[t.call].open
  PROVE  Cared(u)'
<1>1. tick = [j \in Instance |-> tick[j]]
  BY DEF ShapeInv, TypeOK
<1>2. tick'[i] = t
  BY <1>1 DEF Becomes, Set
<1>3. InHand(i, u)'
  BY <1>2 DEF InHand, Held, HeldOf, At
<1>4. QED
  BY <1>3 DEF Cared

LEMMA TickLosesNobody ==
  ASSUME ShapeInv, NEW i \in Instance, StartTick(i) \/ TickStep(i)
  PROVE  Lost' \subseteq Lost
<1>1. /\ ShapeInv /\ IsTick(tick[i]) /\ TickFits(tick[i])
      /\ owed \subseteq User /\ order \subseteq User
  BY Typed
<1>2. \A u \in order' : Cared(u)'
  BY DEF Cared
<1>3. CASE StartTick(i) \/ FetchEntries(i)
  <2>1. Rests(i) /\ UNCHANGED <<req, order, owed, calls>>
    BY <1>1, <1>3, RestSteps DEF StartTick, FetchEntries
  <2>2. \A u \in owed' : ~InHand(i, u)
    BY <1>1, <1>3, <2>1, HandParts DEF StartTick, FetchEntries, At
  <2>3. QED
    BY <1>2, <2>1, <2>2, TickCares DEF Rests, CallsCare
<1>4. CASE DropLate(i) \/ NoRoom(i) \/ Tell(i)
  <2>1. Rests(i) /\ UNCHANGED <<req, order, calls>>
    BY <1>1, <1>4, RestSteps DEF DropLate, NoRoom, Tell
  <2>2. /\ owed' \subseteq owed
        /\ \A u \in owed' : ~InHand(i, u)
    BY <1>1, <1>4, HandParts DEF DropLate, NoRoom, Tell, At
  <2>3. QED
    BY <1>2, <2>1, <2>2, TickCares DEF Rests, CallsCare
<1>5. CASE CannotTell(i)
  <2>1. Rests(i) /\ UNCHANGED <<req, order>>
    BY <1>1, <1>5, RestSteps
  <2>2. /\ tick[i].pc = "tell" /\ EndCall(tick[i].call) /\ tick[i].call \in DOMAIN calls
        /\ calls[tick[i].call].who = {tick[i].a, tick[i].b}
    BY <1>1, <1>5 DEF CannotTell, At, TickFits
  <2>3. owed' = IF calls[tick[i].call].open THEN owed \ {tick[i].a, tick[i].b} ELSE owed
    BY <2>2 DEF EndCall
  <2>4. /\ owed' \subseteq owed
        /\ \A u \in owed' : ~InHand(i, u)
    BY <1>1, <2>2, <2>3, HandParts
  <2>5. CallsCare
    BY <2>2 DEF CallsCare
  <2>6. QED
    BY <1>2, <2>1, <2>4, <2>5, TickCares DEF Rests
<1>6. CASE ClaimLate(i) \/ ClaimA(i)
  <2>1. /\ UNCHANGED <<calls, req, owed>> /\ tick[i].pc \in {"expire", "pair"}
        /\ \/ Rests(i) /\ UNCHANGED order
           \/ \E u, t : /\ u \in User
                        /\ Takes(i, u, t) /\ t.a = u
                        /\ \/ t.pc = "dropLate" /\ t.b = Nobody
                           \/ t.pc = "dropA"
    BY <1>1, <1>6, ClaimLateTakes, ClaimATakes
  <2>2. \A u \in owed' : ~InHand(i, u)
    BY <1>1, <2>1, HandParts
  <2>3. CASE Rests(i) /\ UNCHANGED order
    BY <1>2, <2>1, <2>2, <2>3, TickCares DEF Rests, CallsCare
  <2>4. CASE \E u, t : /\ u \in User
                       /\ Takes(i, u, t) /\ t.a = u
                       /\ \/ t.pc = "dropLate" /\ t.b = Nobody
                          \/ t.pc = "dropA"
    <3>1. PICK u, t : /\ u \in User
                      /\ Takes(i, u, t) /\ t.a = u
                      /\ \/ t.pc = "dropLate" /\ t.b = Nobody
                         \/ t.pc = "dropA"
      BY <2>4
    <3>2. Becomes(i, t) /\ order' = order \ {u}
      BY <3>1 DEF Takes
    <3>3. u \in HeldOf(t) /\ t.pc # "tell"
      <4>1. CASE t.pc = "dropLate"
        BY <3>1, <4>1, MatchAssumption DEF HeldOf
      <4>2. CASE t.pc = "dropA"
        <5>1. tick' = [tick EXCEPT ![i] = t] /\ TickFits(t)'
          BY <3>2 DEF Becomes, Set
        <5>2. {u, t.b} \in Suited
          BY <3>1, <4>2, <5>1 DEF TickFits
        <5>3. u # t.b
          <6>1. ASSUME u = t.b PROVE FALSE
            <7>1. Cardinality({u}) = 2
              BY <5>2, <6>1, MatchAssumption
            <7>2. Cardinality({u}) = 1
              BY FS_Singleton
            <7>3. QED
              BY <7>1, <7>2
          <6>2. QED
            BY <6>1
        <5>4. QED
          BY <3>1, <4>2, <5>3, MatchAssumption DEF HeldOf
      <4>3. QED
        BY <3>1, <4>1, <4>2
    <3>4. Cared(u)'
      BY <1>1, <3>1, <3>2, <3>3, NowInHand
    <3>5. \A v \in owed' : v \in order => Cared(v)'
      BY <1>2, <3>2, <3>4
    <3>6. QED
      BY <2>1, <2>2, <3>2, <3>5, TickCares DEF CallsCare
  <2>5. QED
    BY <2>1, <2>3, <2>4
<1>7. CASE ClaimB(i)
  <2>1. UNCHANGED <<calls, req, owed>> /\ tick[i].pc = "claimB"
    BY <1>1, <1>7, ClaimBTakes
  <2>2. PICK t : /\ t.a = tick[i].a /\ t.b = tick[i].b
                 /\ \/ t.pc = "putBack" /\ Becomes(i, t) /\ UNCHANGED order
                    \/ t.pc = "dropB" /\ Takes(i, tick[i].b, t)
    BY <1>1, <1>7, ClaimBTakes
  <2>3. /\ Becomes(i, t) /\ t.pc \in {"putBack", "dropB"}
        /\ \A u \in order : u \in order' \/ (t.pc = "dropB" /\ u = t.b)
    BY <2>2 DEF Takes
  <2>4. \A u \in User : InHand(i, u) => u \in HeldOf(t)
    BY <1>1, <2>1, <2>2, <2>3, HandParts DEF HeldOf
  <2>5. \A u \in User : t.pc = "dropB" /\ u = t.b => u \in HeldOf(t)
    BY MatchAssumption DEF HeldOf
  <2>6. \A u \in User : u \in HeldOf(t) => Cared(u)'
    BY <1>1, <2>3, NowInHand
  <2>7. QED
    BY <1>1, <1>2, <2>1, <2>3, <2>4, <2>5, <2>6, TickCares DEF CallsCare
<1>8. CASE DropA(i) \/ DropB(i)
  <2>1. UNCHANGED <<order, calls, req, owed>>
    BY <1>1, <1>8, DropsMoveOn
  <2>2. PICK t : /\ Becomes(i, t) /\ t.a = tick[i].a /\ t.b = tick[i].b
                 /\ \/ tick[i].pc = "dropA" /\ t.pc = "claimB"
                    \/ tick[i].pc = "dropB" /\ t.pc = "room"
    BY <1>1, <1>8, DropsMoveOn
  <2>3. \A u \in User : InHand(i, u) => u \in HeldOf(t)
    BY <1>1, <2>2, HandParts DEF HeldOf
  <2>4. \A u \in User : u \in HeldOf(t) => Cared(u)'
    BY <1>1, <2>2, NowInHand
  <2>5. QED
    BY <1>1, <1>2, <2>1, <2>2, <2>3, <2>4, TickCares DEF CallsCare
<1>9. CASE PutBack(i)
  <2>1. /\ tick[i].pc = "putBack" /\ Rests(i) /\ order' = order \cup {tick[i].a}
        /\ UNCHANGED <<calls, req, owed>>
    BY <1>1, <1>9, PutBackRests
  <2>2. \A u \in User : InHand(i, u) => u \in order'
    BY <1>1, <2>1, HandParts
  <2>3. QED
    BY <1>1, <1>2, <2>1, <2>2, TickCares DEF Rests, CallsCare
<1>10. CASE \E c \in Call : CreateCall(i, c)
  <2>1. PICK c \in Call : CreateCall(i, c)
    BY <1>10
  <2>2. /\ UNCHANGED <<queue, req, owed>> /\ tick[i].pc = "room" /\ calls'[c].open
        /\ \A d \in DOMAIN calls : calls'[d] = calls[d]
    BY <1>1, <2>1, CreateCallAdds
  <2>3. PICK t : /\ Becomes(i, t) /\ t.pc = "tell" /\ t.call = c
                 /\ t.a = tick[i].a /\ t.b = tick[i].b
    <3>1. ShapeInv /\ CreateCall(i, c)
      BY <1>1, <2>1
    <3>2. QED
      BY <3>1, CreateCallAdds
  <2>4. \A u \in User : InHand(i, u) => u \in HeldOf(t)
    BY <1>1, <2>2, <2>3, HandParts DEF HeldOf
  <2>5. \A u \in User : u \in HeldOf(t) => Cared(u)'
    BY <1>1, <2>2, <2>3, NowInHand
  <2>6. QED
    BY <1>1, <1>2, <2>2, <2>3, <2>4, <2>5, TickCares DEF CallsCare, queue
<1>11. QED
  BY <1>3, <1>4, <1>5, <1>6, <1>7, <1>8, <1>9, <1>10 DEF TickStep

\* A failing tick loses the two people at most whom it has in hand.
LEMMA FailingTickLoses ==
  ASSUME ShapeInv, NEW i \in Instance, FailInsert(i) \/ FailTick(i)
  PROVE  Lost' \subseteq Lost \cup {tick[i].a} \cup {tick[i].b}
<1>1. /\ UNCHANGED <<req, order, owed, calls>> /\ owed \subseteq User
      /\ TickFits(tick[i])
  BY Typed DEF FailInsert, FailTick, queue
<1>2. PICK t : Becomes(i, t)
  BY RestSteps DEF Rests
<1>3. CallsCare
  BY <1>1 DEF CallsCare
<1>4. ASSUME NEW u \in owed', u # tick[i].a, u # tick[i].b, Cared(u) PROVE Cared(u)'
  <2>1. u \in User /\ ~InHand(i, u)
    BY <1>1, <1>4, HandParts
  <2>2. u \in order => Cared(u)'
    BY <1>1 DEF Cared
  <2>3. QED
    BY <1>1, <1>2, <1>3, <1>4, <2>1, <2>2, TickCaresFor
<1>5. QED
  BY <1>1, <1>4 DEF Lost

-----------------------------------------------------------------------------

\* A step of request p: what others care for is cared for.
LEMMA RequestCares ==
  ASSUME ShapeInv, NEW p \in Proc, NEW r, Turns(p, r), CallsCare, NEW u \in User, Cared(u),
         u \in owed', u \in order => u \in order' \/ Cared(u)',
         Returns(p, u) => Cared(u)'
  PROVE  Cared(u)'
<1>1. ShapeInv /\ req \in [Proc -> Request]
  BY DEF ShapeInv, TypeOK
<1>2. tick' = tick /\ \A q \in Proc \ {p} : req'[q] = req[q]
  BY <1>1 DEF Turns
<1>3. CASE u \in order \/ Returns(p, u)
  BY <1>3 DEF Cared
<1>4. CASE \E q \in Proc \ {p} : Returns(q, u)
  BY <1>2, <1>4 DEF Returns, Cared
<1>5. CASE \E i \in Instance : InHand(i, u)
  <2>1. \E i \in Instance : InHand(i, u)'
    BY <1>1, <1>2, <1>5, HandStays
  <2>2. QED
    BY <2>1 DEF Cared
<1>6. QED
  BY <1>3, <1>4, <1>5 DEF Cared

\* Whoever is owed an answer after a step of request p was lost before, or is
\* cared for.
LEMMA RequestLosesNobody ==
  ASSUME ShapeInv, NEW p \in Proc, BeginRequest(p) \/ RequestStep(p)
  PROVE  \A u \in owed' : (u \in owed => Cared(u)) => Cared(u)'
<1>1. /\ ShapeInv /\ RequestFits(req[p]) /\ owed \subseteq User
      /\ req \in [Proc -> Request]
  BY Typed
<1>2. \A u \in order' : Cared(u)'
  BY DEF Cared
<1>3. CASE \/ CheckCall(p) \/ BuildEntry(p) \/ \E c \in Call : BeginBlock(p, c)
           \/ \E u \in User : BeginJoin(p, u) \/ BeginLeave(p, u)
  <2>1. UNCHANGED <<order, owed, calls>> /\ req[p].pc \in {"check", "build", "idle"}
    BY <1>3 DEF CheckCall, BuildEntry, BeginBlock, BeginJoin, BeginLeave, queue
  <2>2. \E r : Turns(p, r)
    BY <1>1, <1>3, RequestStepShape DEF BeginRequest, RequestStep
  <2>3. \A u \in User : ~Returns(p, u)
    BY <2>1 DEF Returns
  <2>4. QED
    BY <1>1, <2>1, <2>2, <2>3, RequestCares DEF CallsCare
<1>4. CASE HangUp(p)
  <2>1. EndCall(req[p].call) /\ req[p].call \in DOMAIN calls /\ req[p].pc = "hangup"
        /\ UNCHANGED order
    BY <1>1, <1>4 DEF HangUp, RequestFits, queue
  <2>2. owed' \subseteq owed
    BY <2>1 DEF EndCall
  <2>3. \E r : Turns(p, r)
    BY <1>1, <1>4, RequestStepShape DEF RequestStep
  <2>4. \A u \in User : ~Returns(p, u)
    BY <2>1 DEF Returns
  <2>5. QED
    BY <1>1, <2>1, <2>2, <2>3, <2>4, RequestCares DEF CallsCare
<1>5. CASE ClaimOwn(p)
  <2>1. /\ req[p].pc = "unqueue" /\ UNCHANGED calls
        /\ req[p].op \in {"join", "leave"} /\ owed' \subseteq owed
    BY <1>1, <1>5, ClaimOwnTurns DEF RequestFits
  <2>2. \A u \in User : ~Returns(p, u)
    BY <2>1 DEF Returns
  <2>3. PICK v : v = req[p].user
    OBVIOUS
  <2>4. CASE v \in order
    <3>1. order' = order \ {v}
      BY <1>1, <1>5, <2>3, <2>4, ClaimOwnTurns
    <3>2. PICK r : Turns(p, r) /\ r.pc = "drop" /\ r.op = req[p].op /\ r.user = v
      BY <1>1, <1>5, <2>3, <2>4, ClaimOwnTurns
    <3>3. req'[p] = r
      BY <1>1, <3>2 DEF Turns
    <3>4. Cared(v)'
      BY <2>1, <3>2, <3>3 DEF Returns, Cared
    <3>5. QED
      BY <1>1, <2>1, <2>2, <3>1, <3>2, <3>4, RequestCares DEF CallsCare
  <2>5. CASE v \notin order
    <3>1. order' = order /\ \E r : Turns(p, r)
      BY <1>1, <1>5, <2>3, <2>5, ClaimOwnTurns
    <3>2. QED
      BY <1>1, <2>1, <2>2, <3>1, RequestCares DEF CallsCare
  <2>6. QED
    BY <2>4, <2>5
<1>6. CASE DropOwn(p)
  <2>1. /\ req[p].pc = "drop" /\ UNCHANGED <<order, calls>>
        /\ \/ req[p].op = "join" /\ owed' = owed
           \/ req[p].op = "leave" /\ owed' = owed \ {req[p].user}
    BY <1>1, <1>6, DropOwnTurns
  <2>2. PICK r : /\ Turns(p, r)
                 /\ \/ /\ req[p].op = "join" /\ r.pc = "enqueue"
                       /\ r.op = "join" /\ r.user = req[p].user
                    \/ req[p].op = "leave" /\ r.op = "none" /\ r.user = Nobody
    BY <1>1, <1>6, DropOwnTurns
  <2>3. req'[p] = r
    BY <1>1, <2>2 DEF Turns
  <2>4. \A u \in owed' : Returns(p, u) => Returns(p, u)'
    BY <2>1, <2>2, <2>3 DEF Returns
  <2>5. QED
    BY <1>1, <2>1, <2>2, <2>4, RequestCares DEF CallsCare, Cared
<1>7. CASE Enqueue(p)
  <2>1. /\ UNCHANGED calls /\ order' = order \cup {req[p].user}
        /\ owed' = owed \cup {req[p].user}
    BY <1>1, <1>7, EnqueueTurns
  <2>2. PICK r : Turns(p, r)
    BY <1>1, <1>7, EnqueueTurns
  <2>3. \A u : Returns(p, u) => u \in order'
    BY <2>1 DEF Returns
  <2>4. ASSUME NEW u \in owed', u \in owed => Cared(u) PROVE Cared(u)'
    <3>1. CASE u \in order'
      BY <1>2, <3>1
    <3>2. CASE u \notin order'
      BY <1>1, <2>1, <2>2, <2>3, <2>4, <3>2, RequestCares DEF CallsCare
    <3>3. QED
      BY <3>1, <3>2
  <2>5. QED
    BY <2>4
<1>8. QED
  BY <1>3, <1>4, <1>5, <1>6, <1>7 DEF BeginRequest, RequestStep

LEMMA FailingRequestLoses ==
  ASSUME ShapeInv, NEW p \in Proc, FailRequest(p)
  PROVE  Lost' \subseteq Lost \cup {req[p].user}
<1>1. UNCHANGED <<order, owed, calls>> /\ owed \subseteq User
  BY Typed DEF FailRequest, queue
<1>2. PICK r : Turns(p, r)
  BY QuietRequests
<1>3. CallsCare
  BY <1>1 DEF CallsCare
<1>4. ASSUME NEW u \in owed', u # req[p].user, Cared(u) PROVE Cared(u)'
  <2>1. u \in User /\ ~Returns(p, u)
    BY <1>1, <1>4 DEF Returns
  <2>2. u \in order => u \in order'
    BY <1>1
  <2>3. QED
    BY <1>2, <1>3, <1>4, <2>1, <2>2, RequestCares
<1>5. QED
  BY <1>1, <1>4 DEF Lost

LEMMA OthersLoseNobody ==
  ASSUME ShapeInv, \/ \E c \in Call : CallEnds(c)
                   \/ \E u \in User : Age(u)
                   \/ UNCHANGED vars
  PROVE  Lost' \subseteq Lost
<1>1. UNCHANGED <<order, tick, req>> /\ owed \subseteq User
  BY OtherSteps, Typed
<1>2. CallsCare /\ owed' \subseteq owed
  BY DEF CallEnds, EndCall, Age, vars, CallsCare
<1>3. ASSUME NEW u \in owed', Cared(u) PROVE Cared(u)'
  <2>1. \A i \in Instance : InHand(i, u) => InHand(i, u)'
    BY <1>1, <1>2, HandStays
  <2>2. QED
    BY <1>1, <1>3, <2>1 DEF Cared, Returns
<1>4. QED
  BY <1>2, <1>3 DEF Lost

LEMMA LostFewStays ==
  ASSUME ShapeInv, LostFew, Lost' \subseteq Lost, fails' = fails
  PROVE  LostFew'
<1>1. 2 * fails \in Nat
  BY Typed, MatchAssumption
<1>2. IsFiniteSet(Lost') /\ Cardinality(Lost') <= 2 * fails
  BY <1>1, FewerFit DEF LostFew
<1>3. QED
  BY <1>2 DEF LostFew

LEMMA LostFewMore ==
  ASSUME ShapeInv, LostFew, NEW a, NEW b, Lost' \subseteq Lost \cup {a} \cup {b},
         fails' = fails + 1
  PROVE  LostFew'
<1>1. fails \in Nat /\ 2 * fails \in Nat /\ 2 * fails + 1 \in Nat
  BY Typed, MatchAssumption
<1>2. PICK S : S = Lost \cup {a}
  OBVIOUS
<1>3. IsFiniteSet(S) /\ Cardinality(S) <= 2 * fails + 1
  BY <1>1, <1>2, OneMoreFits DEF LostFew
<1>4. IsFiniteSet(Lost') /\ Cardinality(Lost') <= (2 * fails + 1) + 1
  <2>1. PICK T, n : T = Lost' /\ n = 2 * fails + 1
    OBVIOUS
  <2>2. n \in Nat /\ IsFiniteSet(S) /\ Cardinality(S) <= n /\ T \subseteq S \cup {b}
    BY <1>1, <1>2, <1>3, <2>1
  <2>3. IsFiniteSet(T) /\ Cardinality(T) <= n + 1
    BY <2>2, OneMoreFits
  <2>4. QED
    BY <2>1, <2>3
<1>5. QED
  BY <1>1, <1>4 DEF LostFew

LEMMA OwedNext == OwedInv /\ [Next]_vars => OwedInv'
<1> SUFFICES ASSUME OwedInv, [Next]_vars PROVE OwedInv'
  OBVIOUS
<1>1. ShapeInv /\ ShapeInv' /\ LostFew
  BY ShapeNext DEF OwedInv
<1>2. CASE \E i \in Instance : StartTick(i) \/ TickStep(i)
  <2>1. Lost' \subseteq Lost
    BY <1>1, <1>2, TickLosesNobody
  <2>2. fails' = fails
    BY <1>2 DEF StartTick, TickStep, FetchEntries, ClaimLate, DropLate, ClaimA, DropA,
                ClaimB, PutBack, DropB, NoRoom, Tell, CannotTell, CreateCall
  <2>3. QED
    BY <1>1, <2>1, <2>2, LostFewStays DEF OwedInv
<1>3. CASE \E i \in Instance : FailInsert(i) \/ FailTick(i)
  <2>1. PICK i \in Instance : FailInsert(i) \/ FailTick(i)
    BY <1>3
  <2>2. Lost' \subseteq Lost \cup {tick[i].a} \cup {tick[i].b} /\ fails' = fails + 1
    BY <1>1, <2>1, FailingTickLoses DEF FailInsert, FailTick
  <2>3. QED
    BY <1>1, <2>2, LostFewMore DEF OwedInv
<1>4. CASE \E p \in Proc : BeginRequest(p) \/ RequestStep(p)
  <2>1. Lost' \subseteq Lost
    BY <1>1, <1>4, RequestLosesNobody DEF Lost
  <2>2. fails' = fails
    BY <1>4 DEF BeginRequest, RequestStep, BeginJoin, BeginLeave, BeginBlock, CheckCall,
                BuildEntry, ClaimOwn, DropOwn, Enqueue, HangUp
  <2>3. QED
    BY <1>1, <2>1, <2>2, LostFewStays DEF OwedInv
<1>5. CASE \E p \in Proc : FailRequest(p)
  <2>1. PICK p \in Proc : FailRequest(p)
    BY <1>5
  <2>2. Lost' \subseteq Lost \cup {req[p].user} \cup {req[p].user} /\ fails' = fails + 1
    BY <1>1, <2>1, FailingRequestLoses DEF FailRequest
  <2>3. QED
    BY <1>1, <2>2, LostFewMore DEF OwedInv
<1>6. CASE \/ \E c \in Call : CallEnds(c)
           \/ \E u \in User : Age(u)
           \/ UNCHANGED vars
  <2>1. Lost' \subseteq Lost
    BY <1>1, <1>6, OthersLoseNobody
  <2>2. fails' = fails
    BY <1>6 DEF CallEnds, Age, vars
  <2>3. QED
    BY <1>1, <2>1, <2>2, LostFewStays DEF OwedInv
<1>7. QED
  BY <1>2, <1>3, <1>4, <1>5, <1>6 DEF Next

\* Whoever asked for a call and was not told its outcome waits in the queue or is
\* in the hands of a tick or of a request of their own, however joins, leaves,
\* blocks and ticks interleave, but for the two people at most whom each failing
\* command costs their answer (matchmaker.service.ts:40-87).
THEOREM NobodyIsForgotten == Spec => []NobodyForgotten
<1>1. Init => OwedInv
  <2> SUFFICES ASSUME Init PROVE OwedInv
    OBVIOUS
  <2>1. Lost = {} /\ fails = 0
    BY DEF Init, Lost
  <2>2. QED
    BY <2>1, ShapeInit, FS_EmptySet DEF OwedInv, LostFew
<1>2. OwedInv /\ [Next]_vars => OwedInv'
  BY OwedNext
<1>3. OwedInv => NobodyForgotten
  <2> SUFFICES ASSUME OwedInv PROVE NobodyForgotten
    OBVIOUS
  <2>1. Forgotten \subseteq Lost
    BY DEF Forgotten, Lost, Cared, InHand, Returns
  <2>2. LostFew /\ 2 * fails \in Nat
    BY Typed, MatchAssumption DEF OwedInv
  <2>3. QED
    BY <2>1, <2>2, FewerFit DEF LostFew, NobodyForgotten
<1>4. QED
  BY <1>1, <1>2, <1>3, PTL DEF Spec
=============================================================================
