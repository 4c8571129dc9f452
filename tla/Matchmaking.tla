----------------------------- MODULE Matchmaking -----------------------------
(***************************************************************************)
(* The queue for random calls and the matchmakers that empty it            *)
(* (match-queue.ts, matchmaker.service.ts, createCall of                   *)
(* random-call.service.ts).  The queue lives in Redis: a sorted set of the *)
(* people who have a place and a hash with their entries, which every      *)
(* server instance shares.  On each instance a timer runs tick(), which    *)
(* reads the queue once and then claims people one command at a time,      *)
(* while people join and leave through any instance.                       *)
(*                                                                         *)
(* The in-memory queue of a single server shows a part of these            *)
(* behaviours: there a claim clears place and entry at once.               *)
(***************************************************************************)
EXTENDS Integers, FiniteSets

CONSTANTS User,
          Suited,    \* {u, v}: language, level and history allow a call
          Instance,  \* server instances, each with one matchmaking loop
          Proc,      \* join, leave and block requests in flight
          Call,      \* call ids
          Nobody,
          MaxJoins,  \* bound on how often one person joins
          MaxBlocks, \* bound on the pairs that block each other
          MaxFails   \* bound on the commands that fail

ASSUME MatchAssumption == /\ \A c \in Suited : c \subseteq User /\ Cardinality(c) = 2
                          /\ Nobody \notin User
                          /\ {MaxJoins, MaxBlocks, MaxFails} \subseteq Nat

VARIABLES order,   \* sb:rc:queue, the people who have a place
          entries, \* sb:rc:entries, a function on the people in it
          blocks,  \* pairs of people one of whom blocked the other
          calls,   \* RandomCall rows: a function on the ids used so far
          tick,    \* tick[i]: the tick running on instance i
          req,     \* req[p]: the state of request p
          built,   \* entries built so far: a clock for joinedAt
          joins,   \* ghost: joins[u] counts the times u asked for a call
          owed,    \* ghost: people with a place who were not told its outcome
          fails    \* commands that failed so far

vars == <<order, entries, blocks, calls, tick, req, built, joins, owed, fails>>
queue == <<order, entries>>
world == <<blocks, built, joins>>

\* joinedAt: the how manieth entry it is; late: QUEUE_TIMEOUT_MS have passed.
Entry == [joinedAt : Nat, blocked : SUBSET User, late : BOOLEAN]

IsQueue(q) == DOMAIN q \subseteq User /\ q \in [DOMAIN q -> Entry]

Pair == {c \in SUBSET User : Cardinality(c) = 2}

Empty == [u \in {} |-> Nobody]

NoTick == [pc |-> "off", ids |-> {}, seen |-> Empty, todo |-> {}, pairs |-> {},
           a |-> Nobody, b |-> Nobody, call |-> Nobody]

IsTick(t) ==
    /\ t \in [pc : {"off", "fetch", "expire", "dropLate", "pair", "dropA", "claimB",
                    "putBack", "dropB", "room", "tell"},
              ids : SUBSET User, seen : {t.seen}, todo : SUBSET User,
              pairs : SUBSET (User \X User), a : User \cup {Nobody},
              b : User \cup {Nobody}, call : Call \cup {Nobody}]
    /\ IsQueue(t.seen)

NoRequest == [pc |-> "idle", op |-> "none", user |-> Nobody, entry |-> Nobody,
              call |-> Nobody]

Request == [pc : {"idle", "check", "build", "unqueue", "drop", "enqueue",
                  "claim", "hangup"},
            op : {"none", "join", "leave", "block"}, user : User \cup {Nobody},
            entry : Entry \cup {Nobody}, call : Call \cup {Nobody}]

TypeOK == /\ order \subseteq User
          /\ IsQueue(entries)
          /\ blocks \subseteq Pair
          /\ DOMAIN calls \subseteq Call
          /\ calls \in [DOMAIN calls -> [who : Pair, open : BOOLEAN]]
          /\ tick = [i \in Instance |-> tick[i]]
          /\ \A i \in Instance : IsTick(tick[i])
          /\ req \in [Proc -> Request]
          /\ built \in Nat
          /\ joins \in [User -> 0..MaxJoins]
          /\ owed \subseteq User
          /\ fails \in 0..MaxFails

Init == /\ order = {}
        /\ entries = Empty
        /\ blocks = {}
        /\ calls = Empty
        /\ tick = [i \in Instance |-> NoTick]
        /\ req = [p \in Proc |-> NoRequest]
        /\ built = 0
        /\ joins = [u \in User |-> 0]
        /\ owed = {}
        /\ fails = 0

-----------------------------------------------------------------------------
(* The queue's commands and the calls *)

Zrem(u) == order' = order \ {u}
Hdel(u) == entries' = [v \in DOMAIN entries \ {u} |-> entries[v]]
Add(u, e) == /\ order' = order \cup {u}
             /\ entries' = [v \in DOMAIN entries \cup {u} |->
                               IF v = u THEN e ELSE entries[v]]

InCall(u) == \E c \in DOMAIN calls : calls[c].open /\ u \in calls[c].who

\* endCall: a second end is a no-op; both people are told.
EndCall(c) ==
    /\ calls' = [calls EXCEPT ![c].open = FALSE]
    /\ owed' = IF calls[c].open THEN owed \ calls[c].who ELSE owed

\* Hanging up, a grace period that ran out, the sweep of overdue calls.
CallEnds(c) ==
    /\ c \in DOMAIN calls
    /\ calls[c].open
    /\ EndCall(c)
    /\ UNCHANGED <<queue, world, tick, req, fails>>

\* An entry of the queue grows older than QUEUE_TIMEOUT_MS.
Age(u) ==
    /\ u \in DOMAIN entries
    /\ ~entries[u].late
    /\ entries' = [entries EXCEPT ![u].late = TRUE]
    /\ UNCHANGED <<order, world, calls, tick, req, owed, fails>>

-----------------------------------------------------------------------------
(* join, leave and block: one step between two awaits *)

Goes(p, pc) == req' = [req EXCEPT ![p].pc = pc]
Answers(p) == req' = [req EXCEPT ![p] = NoRequest]

\* join: denialFor let the person in.
BeginJoin(p, u) ==
    /\ req[p].pc = "idle"
    /\ joins[u] < MaxJoins
    /\ joins' = [joins EXCEPT ![u] = @ + 1]
    /\ req' = [req EXCEPT ![p] = [NoRequest EXCEPT !.pc = "check", !.op = "join",
                                                   !.user = u]]
    /\ UNCHANGED <<queue, blocks, built, calls, tick, owed, fails>>

\* assertEligible, its second half: no one joins from a call.
\* Seeded bug: the entry is not built anew.
CheckOnly(p) ==
    /\ req[p].pc = "check"
    /\ IF InCall(req[p].user) THEN Answers(p) ELSE Goes(p, "unqueue")
    /\ UNCHANGED <<queue, world, calls, tick, owed, fails>>
CheckCall(p) ==
    /\ req[p].pc = "check"
    /\ IF InCall(req[p].user) THEN Answers(p) ELSE Goes(p, "build")
    /\ UNCHANGED <<queue, world, calls, tick, owed, fails>>

BuildEntry(p) ==
    /\ req[p].pc = "build"
    /\ req' = [req EXCEPT ![p].pc = "unqueue", ![p].entry =
                 [joinedAt |-> built + 1,
                  blocked |-> {v \in User : {req[p].user, v} \in blocks},
                  late |-> FALSE]]
    /\ built' = built + 1
    /\ UNCHANGED <<queue, blocks, joins, calls, tick, owed, fails>>

\* leave: asked for, or because the last connection of u is gone.
BeginLeave(p, u) ==
    /\ req[p].pc = "idle"
    /\ req' = [req EXCEPT ![p] = [NoRequest EXCEPT !.pc = "unqueue", !.op = "leave",
                                                   !.user = u]]
    /\ UNCHANGED <<queue, world, calls, tick, owed, fails>>

\* Joining again replaces the old place; leaving gives it up.
AfterClaim(p) == /\ IF req[p].op = "join" THEN Goes(p, "enqueue") ELSE Answers(p)
                 /\ owed' = IF req[p].op = "leave" THEN owed \ {req[p].user} ELSE owed

ClaimOwn(p) ==
    /\ req[p].pc = "unqueue"
    /\ \/ /\ req[p].user \in order
          /\ Zrem(req[p].user)
          /\ Goes(p, "drop")
          /\ UNCHANGED <<entries, owed>>
       \/ /\ req[p].user \notin order
          /\ AfterClaim(p)
          /\ UNCHANGED queue
    /\ UNCHANGED <<world, calls, tick, fails>>

DropOwn(p) ==
    /\ req[p].pc = "drop"
    /\ Hdel(req[p].user)
    /\ AfterClaim(p)
    /\ UNCHANGED <<order, world, calls, tick, fails>>

Enqueue(p) ==
    /\ req[p].pc = "enqueue"
    /\ Add(req[p].user, req[p].entry)
    /\ owed' = owed \cup {req[p].user}
    /\ Answers(p)
    /\ UNCHANGED <<world, calls, tick, fails>>

\* block and report: the block is written, then the call they share is ended.
BeginBlock(p, c) ==
    /\ req[p].pc = "idle"
    /\ c \in DOMAIN calls
    /\ calls[c].who \notin blocks
    /\ Cardinality(blocks) < MaxBlocks
    /\ blocks' = blocks \cup {calls[c].who}
    /\ req' = [req EXCEPT ![p] = [NoRequest EXCEPT !.pc = "hangup", !.op = "block",
                                                   !.call = c]]
    /\ UNCHANGED <<queue, built, joins, calls, tick, owed, fails>>

HangUp(p) ==
    /\ req[p].pc = "hangup"
    /\ EndCall(req[p].call)
    /\ Answers(p)
    /\ UNCHANGED <<queue, world, tick, fails>>

-----------------------------------------------------------------------------
(* tick: one step between two awaits *)

At(i, pc) == tick[i].pc = pc
Set(i, t) == tick' = [tick EXCEPT ![i] = t]
Moves(i, pc) == Set(i, [tick[i] EXCEPT !.pc = pc])

Compatible(seen, u, v) == /\ {u, v} \in Suited
                          /\ u \notin seen[v].blocked
                          /\ v \notin seen[u].blocked

\* Seeded bug: the queue is not sorted, and who picks first is left to chance.
Anyone(seen, u, v) == u # v
WaitedLonger(seen, u, v) == seen[u].joinedAt < seen[v].joinedAt

\* findPairs: whoever waited longest picks first among those not yet taken.
\* Which of the compatible partners scores best is left open.
Pairings(seen) ==
    LET people == DOMAIN seen
        fits == {c \in people \X people : /\ Compatible(seen, c[1], c[2])
                                          /\ WaitedLonger(seen, c[1], c[2])}
        In(P) == {c[1] : c \in P} \cup {c[2] : c \in P}
    IN  {P \in SUBSET fits :
            /\ \A c, d \in P : c # d => {c[1], c[2]} \cap {d[1], d[2]} = {}
            /\ \A c \in fits :
                  \/ c[1] \in In(P)
                  \/ \E d \in P : d[2] = c[2] /\ WaitedLonger(seen, d[1], c[1])}

\* Before its next pair, tick i has the pairs P and the entries of those who
\* may have to go back; without a pair left it ends.
Pairing(seen, P) ==
    IF P = {} THEN NoTick
    ELSE [NoTick EXCEPT !.pc = "pair", !.pairs = P,
                        !.seen = [u \in {c[1] : c \in P} |-> seen[u]]]

\* The pair is dealt with; on to the next.
NextPair(i) == Set(i, Pairing(tick[i].seen, tick[i].pairs))

\* Late people first; then whoever is left is paired.
Proceed(i, todo, seen) ==
    IF todo # {}
    THEN Set(i, [NoTick EXCEPT !.pc = "expire", !.todo = todo, !.seen = seen])
    ELSE \E P \in Pairings(seen) : Set(i, Pairing(seen, P))

\* The timer fires (or a join calls tick), and no tick runs on this instance.
\* list: first the places, then their entries.
StartTick(i) ==
    /\ At(i, "off")
    /\ order # {}
    /\ Set(i, [NoTick EXCEPT !.pc = "fetch", !.ids = order])
    /\ UNCHANGED <<queue, world, calls, req, owed, fails>>

FetchEntries(i) ==
    /\ At(i, "fetch")
    /\ LET here == tick[i].ids \cap DOMAIN entries
           over == {u \in here : entries[u].late}
       IN  Proceed(i, over, [u \in here \ over |-> entries[u]])
    /\ UNCHANGED <<queue, world, calls, req, owed, fails>>

\* Nobody found in time: the place is freed and its holder told so.
ClaimLate(i) ==
    /\ At(i, "expire")
    /\ \E u \in tick[i].todo :
          IF u \in order
          THEN /\ Zrem(u)
               /\ Set(i, [tick[i] EXCEPT !.pc = "dropLate", !.todo = @ \ {u}, !.a = u])
          ELSE /\ Proceed(i, tick[i].todo \ {u}, tick[i].seen)
               /\ UNCHANGED order
    /\ UNCHANGED <<entries, world, calls, req, owed, fails>>

\* Seeded bug: the place is freed, its holder is not told.
DropLateQuietly(i) ==
    /\ At(i, "dropLate")
    /\ Hdel(tick[i].a)
    /\ Proceed(i, tick[i].todo, tick[i].seen)
    /\ UNCHANGED <<order, world, calls, req, owed, fails>>
DropLate(i) ==
    /\ At(i, "dropLate")
    /\ Hdel(tick[i].a)
    /\ owed' = owed \ {tick[i].a}
    /\ Proceed(i, tick[i].todo, tick[i].seen)
    /\ UNCHANGED <<order, world, calls, req, fails>>

\* Seeded bug: a claim succeeds whoever removed the place.
AlwaysClaimed(u) == TRUE
Claimed(u) == u \in order

ClaimA(i) ==
    /\ At(i, "pair")
    /\ \E c \in tick[i].pairs :
          IF Claimed(c[1])
          THEN /\ Zrem(c[1])
               /\ Set(i, [tick[i] EXCEPT !.pc = "dropA", !.pairs = @ \ {c},
                                         !.a = c[1], !.b = c[2]])
          ELSE /\ Set(i, Pairing(tick[i].seen, tick[i].pairs \ {c}))
               /\ UNCHANGED order
    /\ UNCHANGED <<entries, world, calls, req, owed, fails>>

DropA(i) ==
    /\ At(i, "dropA")
    /\ Hdel(tick[i].a)
    /\ Moves(i, "claimB")
    /\ UNCHANGED <<order, world, calls, req, owed, fails>>

\* Seeded bug: whoever was claimed first is forgotten when the second is gone.
ClaimBOrForget(i) ==
    /\ At(i, "claimB")
    /\ IF Claimed(tick[i].b)
       THEN Zrem(tick[i].b) /\ Moves(i, "dropB")
       ELSE UNCHANGED order /\ NextPair(i)
    /\ UNCHANGED <<entries, world, calls, req, owed, fails>>
ClaimB(i) ==
    /\ At(i, "claimB")
    /\ IF Claimed(tick[i].b)
       THEN Zrem(tick[i].b) /\ Moves(i, "dropB")
       ELSE UNCHANGED order /\ Moves(i, "putBack")
    /\ UNCHANGED <<entries, world, calls, req, owed, fails>>

\* Someone else took b: a goes back, with the entry of the list.
\* Seeded bug: only the place is given back.
PutBackPlace(i) ==
    /\ At(i, "putBack")
    /\ order' = order \cup {tick[i].a}
    /\ NextPair(i)
    /\ UNCHANGED <<entries, world, calls, req, owed, fails>>
PutBack(i) ==
    /\ At(i, "putBack")
    /\ Add(tick[i].a, tick[i].seen[tick[i].a])
    /\ NextPair(i)
    /\ UNCHANGED <<world, calls, req, owed, fails>>

DropB(i) ==
    /\ At(i, "dropB")
    /\ Hdel(tick[i].b)
    /\ Moves(i, "room")
    /\ UNCHANGED <<order, world, calls, req, owed, fails>>

\* createCall opens the LiveKit room first.  Voice is unavailable: both are
\* told, neither is put back.
NoRoom(i) ==
    /\ At(i, "room")
    /\ NextPair(i)
    /\ owed' = owed \ {tick[i].a, tick[i].b}
    /\ UNCHANGED <<queue, world, calls, req, fails>>

\* The room is open, and the row is written.
CreateCall(i, c) ==
    /\ At(i, "room")
    /\ c \in Call \ DOMAIN calls
    /\ calls' = [d \in DOMAIN calls \cup {c} |->
                    IF d = c THEN [who |-> {tick[i].a, tick[i].b}, open |-> TRUE]
                             ELSE calls[d]]
    /\ Set(i, [tick[i] EXCEPT !.pc = "tell", !.call = c])
    /\ UNCHANGED <<queue, world, req, owed, fails>>

Tell(i) ==
    /\ At(i, "tell")
    /\ owed' = owed \ {tick[i].a, tick[i].b}
    /\ NextPair(i)
    /\ UNCHANGED <<queue, world, calls, req, fails>>

\* The tokens cannot be made: the call is ended again.
CannotTell(i) ==
    /\ At(i, "tell")
    /\ EndCall(tick[i].call)
    /\ NextPair(i)
    /\ UNCHANGED <<queue, world, req, fails>>

-----------------------------------------------------------------------------
(* A row that cannot be written costs the pair.  A failing queue command,   *)
(* or an instance that stops, costs the whole tick, or the request.         *)

FailInsert(i) ==
    /\ fails < MaxFails
    /\ At(i, "room")
    /\ fails' = fails + 1
    /\ NextPair(i)
    /\ UNCHANGED <<queue, world, calls, req, owed>>

FailTick(i) ==
    /\ fails < MaxFails
    /\ ~At(i, "off")
    /\ fails' = fails + 1
    /\ Set(i, NoTick)
    /\ UNCHANGED <<queue, world, calls, req, owed>>

FailRequest(p) ==
    /\ fails < MaxFails
    /\ req[p].pc # "idle"
    /\ fails' = fails + 1
    /\ Answers(p)
    /\ UNCHANGED <<queue, world, calls, tick, owed>>

-----------------------------------------------------------------------------
TickStep(i) == \/ FetchEntries(i) \/ ClaimLate(i) \/ DropLate(i)
               \/ ClaimA(i) \/ DropA(i) \/ ClaimB(i) \/ PutBack(i)
               \/ DropB(i) \/ NoRoom(i) \/ Tell(i) \/ CannotTell(i)
               \/ \E c \in Call : CreateCall(i, c)

RequestStep(p) == \/ CheckCall(p) \/ BuildEntry(p) \/ ClaimOwn(p) \/ DropOwn(p)
                  \/ Enqueue(p) \/ HangUp(p)

BeginRequest(p) == \/ \E u \in User : BeginJoin(p, u) \/ BeginLeave(p, u)
                   \/ \E c \in Call : BeginBlock(p, c)

Next == \/ \E i \in Instance : StartTick(i) \/ TickStep(i) \/ FailInsert(i) \/ FailTick(i)
        \/ \E p \in Proc : BeginRequest(p) \/ RequestStep(p) \/ FailRequest(p)
        \/ \E c \in Call : CallEnds(c)
        \/ \E u \in User : Age(u)

Spec == Init /\ [][Next]_vars

\* The timer of every instance keeps firing, what runs keeps running, and
\* time passes for whoever waits.
LiveSpec == /\ Spec
            /\ \A i \in Instance : WF_vars(StartTick(i)) /\ WF_vars(TickStep(i))
            /\ \A p \in Proc : WF_vars(RequestStep(p))
            /\ \A u \in User : SF_vars(Age(u))

-----------------------------------------------------------------------------
(* Properties *)

\* People a tick has claimed and neither put back nor told anything.
Held(i) == {tick[i].a, tick[i].b} \ (IF At(i, "dropA") \/ At(i, "claimB") \/ At(i, "putBack")
                                     THEN {tick[i].b, Nobody} ELSE {Nobody})

\* Racing instances never make two calls of one search: a person is put into at
\* most one call for each time they asked for one (matchmaker.service.ts:71-77).
CallsOf(u) == {c \in DOMAIN calls : u \in calls[c].who}

OneCallPerJoin == \A u \in User : Cardinality(CallsOf(u)) <= joins[u]

\* Until they are told what became of it, whoever asked for a call has a place
\* in the queue, or is in the hands of a tick or of a request of their own; a
\* failing command, or a stopping instance, costs at most the two people it had
\* claimed their answer (matchmaker.service.ts:71-87).
Forgotten == {u \in owed : /\ u \notin order
                           /\ \A i \in Instance : u \notin Held(i)
                           /\ \A p \in Proc : req[p].user # u}

NobodyForgotten == Cardinality(Forgotten) <= 2 * fails

\* The place of someone who asked once can be found: no claim that is still
\* clearing an entry ever clears the entry of a place that was given since.
PlacesHaveEntries == \A u \in order : joins[u] <= 1 => u \in DOMAIN entries

\* Everyone who waits is told the outcome: a call, no one in time, no voice.
WaitersAreTold == \A u \in User : u \in owed ~> u \notin owed

-----------------------------------------------------------------------------
(* What comments promise and the code does not keep: see the README *)

\* matchmaker.service.ts:13 "the queue's atomic `claim` makes sure a person is
\* only ever paired once".  Someone who joins again while a tick holds them
\* passes the check for a call, whose row is not written yet.
PairedOnce ==
    \A c, d \in DOMAIN calls :
        c # d /\ calls[c].open /\ calls[d].open => calls[c].who \cap calls[d].who = {}

\* matchmaker.service.ts:61 "Nobody found in time: free the place".  A claim
\* removes the place and then the entry; someone who joins again in between
\* keeps a place without an entry, which no tick ever sees.
PlacesAreFreed == \A u \in User : u \in order ~> u \notin order

\* random-call.service.ts:615 "Reporting also blocks: they never meet again".
\* Entries keep the blocks of the moment they were built.
NeverMeetAgain ==
    [][\A c \in DOMAIN calls' \ DOMAIN calls : calls'[c].who \notin blocks]_vars

\* matchmaker.service.ts:74 "someone else took b: a keeps waiting".  Whoever
\* left in the meantime is put back as well.
PutBackKeepsWaiting ==
    [][\A i \in Instance : PutBack(i) => tick[i].a \in owed]_vars

-----------------------------------------------------------------------------
(* The inductive invariants behind these *)

\* The people a tick has taken a place from, and not yet put back or into a call.
Has(i) == IF tick[i].pc \in {"dropLate", "dropA", "claimB", "putBack"} THEN {tick[i].a}
          ELSE IF tick[i].pc \in {"dropB", "room"} THEN {tick[i].a, tick[i].b} ELSE {}

\* A request has the place of its user: a join from its start, a leave once it
\* has claimed it.
Keeps(p, u) == /\ req[p].user = u
               /\ \/ req[p].op = "join" /\ req[p].pc # "idle"
                  \/ req[p].op = "leave" /\ req[p].pc = "drop"

\* What a tick works on, and the call it has created.
TickFits(t) ==
    /\ \A c \in t.pairs : {c[1], c[2]} \in Suited /\ c[1] \in DOMAIN t.seen
    /\ t.pc \in {"dropA", "claimB", "putBack"} => t.a \in DOMAIN t.seen
    /\ t.pc \in {"dropA", "claimB", "putBack", "dropB", "room", "tell"}
         => {t.a, t.b} \in Suited
    /\ t.pc = "dropLate" => t.b = Nobody
    /\ t.pc \in {"off", "fetch", "expire", "pair"} => t.a = Nobody /\ t.b = Nobody
    /\ t.pc = "tell" => t.call \in DOMAIN calls /\ calls[t.call].who = {t.a, t.b}

RequestFits(r) ==
    /\ r.pc \in {"check", "build", "enqueue"} => r.op = "join"
    /\ r.pc \in {"unqueue", "drop"} => r.op \in {"join", "leave"}
    /\ r.pc \in {"check", "build", "unqueue", "drop", "enqueue"} => r.user \in User
    /\ r.op = "join" /\ r.pc \in {"unqueue", "drop", "enqueue"} => r.entry \in Entry
    /\ r.pc = "hangup" => r.op = "block" /\ r.call \in DOMAIN calls

ShapeInv == /\ TypeOK
            /\ \A i \in Instance : TickFits(tick[i])
            /\ \A p \in Proc : RequestFits(req[p])

\* The hands u is in: the queue's, those of ticks, of requests and of calls.
Hands(u) ==
    {<<"queue", v>> : v \in order \cap {u}}
      \cup {<<"tick", i>> : i \in {i \in Instance : u \in Has(i)}}
      \cup {<<"request", p>> : p \in {p \in Proc : Keeps(p, u)}}
      \cup {<<"call", c>> : c \in CallsOf(u)}

\* A join puts its user into one pair of hands, and each step passes them from
\* one to another, or lets go.
HandsFit == \A u \in User : IsFiniteSet(Hands(u)) /\ Cardinality(Hands(u)) <= joins[u]

OnceInv == ShapeInv /\ HandsFit /\ PlacesHaveEntries

\* Who is owed an answer waits, or somebody will give it; the others are the
\* two people at most whom each failure had in hand.
InHand(i, u) == u \in Held(i) /\ (At(i, "tell") => calls[tick[i].call].open)
Returns(p, u) == /\ req[p].user = u
                 /\ \/ req[p].op = "join" /\ req[p].pc \in {"drop", "enqueue"}
                    \/ req[p].op = "leave" /\ req[p].pc = "drop"
Cared(u) == \/ u \in order
            \/ \E i \in Instance : InHand(i, u)
            \/ \E p \in Proc : Returns(p, u)
Lost == {u \in owed : ~Cared(u)}
LostFew == IsFiniteSet(Lost) /\ Cardinality(Lost) <= 2 * fails

OwedInv == ShapeInv /\ LostFew
=============================================================================
