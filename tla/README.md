# SpeakBetter in TLA+

Specifications of the parts of SpeakBetter whose correctness depends on the
order of events: login sessions, random calls and the queue that makes them,
voice rooms and who may speak in them, what practice pays, billing with the
limits of the AI partner, and the weekly leagues. Each module is written from
the server's code (`src/server/src`, a NestJS application over Postgres, Redis
and LiveKit); TLC checks small instances, and TLAPS proves the safety properties
for every value of the constants.

Paths below are relative to `src/server/src` unless they start with `src/`.

## The system

The server runs as any number of instances. They share Postgres (every
`await this.prisma...` is a statement of its own unless it is inside
`$transaction`), optionally Redis (`REALTIME_REDIS_URL`) and a LiveKit server
for audio. Within an instance handlers interleave at every `await`; between
instances they interleave at every database statement and Redis command. The
web client talks HTTP and socket.io to any instance.

| Component | State | Operations | Talks to | What is hard |
|---|---|---|---|---|
| Login sessions (`auth`) | `Session` rows: one per refresh token, grouped in families (a login); advisory lock per family | login, refresh (rotation), replay and reuse detection, four kinds of logout, pruning | every gateway, through `onSessionRevoked` | refresh racing logout, replayed tokens, stale reads before the lock, rollbacks |
| Random calls: queue and matchmaker (`random-call`) | Redis sorted set of places and hash of entries; one `ticking` flag per instance | join, leave, tick (time out, pair, claim, put back, create) | call service, LiveKit, sockets | two matchmakers on one queue, claims of several commands, joins and blocks during a tick |
| Random calls: the call | `RandomCall` row | extend (both must agree), hang up, report, disconnect, overdue sweep, settling | XP, profiles, sockets | concurrent endings, concurrent agreements, stale checks, failing half way |
| Random calls: presence | sockets, a grace timer per person and instance | connect, disconnect, relay | queue, call service | reconnection to another instance |
| After a call | ratings, reports, restrictions, friendships | rate, report, restrict | queue, friends, blocks | double submits, restriction racing a join |
| Voice rooms (`voice`) | `VoiceRoom`, `VoiceParticipant`, bans; Redis members and host; grace timers | join, leave, kick, roles, host handover, end | LiveKit, coach, sockets | row, Redis and audio can disagree; host of an emptying room; ban racing join |
| Voice coach | missions, airtime in one process | start, check, stop, timers | activity | a round ending while a word is being checked |
| Activity, quests, shop (`learning`, `quests`) | XP ledger, streak with freezes, week of quests | record, freeze, touch, pay out, buy | almost every component | caps read before written, paying once |
| Leagues, badges (`gamification`) | groups, members, tiers | join a group, settle a week | notifications | settling once, small groups |
| Billing | payments, subscription | checkout, settle, cancel, resume | AI limits | one payable checkout, paying once |
| Friends, challenges, notifications | rows | request, accept, block, challenge, notify | each other | check then create |
| Chat, AI tutor, exercises, content | rows | CRUD, scoring, broadcast | activity, review | daily limits |
| Web client (`src/apps/web`) | token refresh, React state | one refresh per 401 burst | auth | several tabs |

What makes each correct, in one line: a login is live or over as a whole and
never comes back; a person is in one call at most and whoever waits hears the
outcome; a call ends once, for both; a voice room's rows, members, host and
audio agree in the end; XP, quests, weeks and payments pay once; limits hold.

`PROJECT.json` lists all components with their state of modelling, the hazards
of the code at the lines where they bite, and for each definition of the models
the lines it was written from.

## Modules

| Module | What it is |
|---|---|
| `LoginFamilies` | abstract specification of a login: begins once, is renewed while live, ends for good |
| `SessionRotation` | the session table, the family locks and the requests of `auth/auth.service.ts` |
| `Matchmaking` | Redis queue, matchmaking ticks of all instances, requests to join, leave and block |
| `CallPromise` | abstract specification of a call: agreed extensions, one end, each person settled once |
| `CallLifecycle` | one call from its row to both people being settled |
| `VoiceRoom` | who is in a voice room: rows, bans, Redis members, sockets and grace timers on several instances |
| `VoiceStage` | who may speak in a stage room: roles, mutes, the host, and the permission LiveKit holds |
| `PracticeRewards` | XP, daily caps, streak and freezes, weekly quests with their chest, the freeze shop |
| `Billing` | checkouts, payments and the Pro subscription of one learner |
| `AiPartner` | extends `Billing` with the AI partner, whose daily turns follow the plan |
| `Leagues` | weekly groups, joining them, and their settlement by several instances |
| `*_proofs` | for each of `SessionRotation`, `CallLifecycle`, `Matchmaking`, `VoiceRoom`, `VoiceStage`, `PracticeRewards`, `Billing` (with `AiPartner`) and `Leagues`: the inductive invariants and the theorems |
| `MCSession`, `MCMatch`, `MCCall`, `MCVoiceRoom`, `MCVoiceStage`, `MCRewards`, `MCBilling`, `MCLeagues` | symmetry sets and values for model checking |

`Matchmaking` contains a coarse call (open or closed) because the queue's
behaviour depends on it; `CallLifecycle` is that call in detail. `SessionRotation`
is shown to implement `LoginFamilies`, and `CallLifecycle` to implement
`CallPromise`. `AiPartner` runs on the state of `Billing`, so that a subscription
may change while a turn is under way.

In every module a request is a process whose program counter stops where the
code awaits: one action per statement, with its condition evaluated on the state
of that moment and everything read earlier taken from the handler's own record.
Ghost variables and fields are marked so where they are declared; an action reads
one at most to write another.

### SessionRotation

State: `row` is the `Session` table (a function on the ids stored in it; an id
stands for its refresh token, so a token can be presented long after its row is
gone), `issued` the ids ever inserted per family, `lock` the holder of each
family's advisory lock, `users` the accounts that exist, `now` the clock, `req`
the requests in flight and `told` the families listeners were notified of.

A request is a process with a program counter that stops where the code awaits:
`BeginRefresh` (token verification and the unlocked probe), `LockFamily`,
`ReadSession` (the re-read under the lock), then one of `RefuseSession`,
`Rotate`, `LoseClaim`, `LoseUser`, `TolerateReplay`, `MissReplay`,
`PunishReplay`, the commit and, after it, `Notify` and `Respond`. Logouts go
`BeginLogout`, `LockFamily`, `ReadFamily`, `RevokeFamily`, `Notify`;
`BeginLogoutAll` lists families without a lock and `NextFamily` takes them one
by one. `PruneSessions` deletes any set of expired rows without a family lock
and `RemoveUser` deletes an account with its rows (external: the cascade of the
schema). `Fail` rolls a request back anywhere: the transaction timeout, a
database error, a stopped process.

A transaction is read-committed: the model reads when the statement runs
(`seen`) and writes at the commit, with the conditions of the conditional
updates evaluated on the table as it is then.

### Matchmaking

State: `order` (the sorted set `sb:rc:queue`) and `entries` (the hash
`sb:rc:entries`), which a claim clears in two commands and an add sets in one
`MULTI`; `blocks`, `calls`; `tick` (one loop per instance, which the `ticking`
flag keeps to one run at a time) and `req` (join, leave and block requests).
`joins` counts how often someone asked (it bounds them), and `owed` (history)
says who has a place and was not yet told what became of it. `CallsOf`,
`Forgotten` and `Hands` (where a person is just now) serve the properties.

A tick reads the places, then their entries (`StartTick`, `FetchEntries`), takes
the late ones out (`ClaimLate`, `DropLate`), chooses the pairs (`Pairings`), and
for each claims both people (`ClaimA`, `DropA`, `ClaimB`, `DropB`), puts the
first back when the second is gone (`PutBack`), and creates the call (`NoRoom`,
`CreateCall`, `Tell`, `CannotTell`). `FailInsert`, `FailTick` and `FailRequest`
are the failures the code catches, and the stop of an instance.

`Pairings` leaves the score open: it is every result of "whoever waited longest
picks first among the compatible people left" (`findPairs`). Compatibility is
the constant `Suited` (language, level, history) and the blocks that the two
entries carry, which are those of the moment they were built. `built` counts
entries and so gives `joinedAt`. The in-memory queue of a single server removes
place and entry in one step, which is one of the behaviours of the model.

### CallLifecycle

State: `call` (`endsAt`, `extensions`, who agreed, why it ended or `OPEN`), the
handlers `req`, `now`; `settled` counts how often each person was paid, counted
and told, and `agrees` (history) how often their agreement was sent.

`requestExtend` is `BeginExtend` (read and checks), `Agree` (flag update),
`Reread` and `Bump` (conditional update); `endCall` is `End` and then `Settle`
for each person; it starts from `BeginEnd` (hang up, block, report, a grace
period that ran out, a restriction, tokens that could not be made) or
`BeginSweep` (a call the sweep listed as overdue). `Fail` drops a handler
anywhere. The two people are settled in any order.

`CallPromise` is the same call as the two people see it: `Agree`, `Extend` (both
agreements, used up together with the time they buy), `End` and `Settle` in one
step each, no handlers, no stale reads. Its limit on extensions is left out,
because the code keeps it only nearly (`ExtensionsNearlyBounded`).

### VoiceRoom

A person's place is written down three times: `row` (and `banned`) in Postgres,
`members` and `host` in Redis, `channel` in socket.io; `online` are the connected
sockets (a person and an instance), `tracked` those that have noted the room in
`voiceRoomIds`, `grace` the timers of dropped connections, each in one instance,
`leaving` the sockets that the word of a kick (`socketsLeave`) has still to reach.
`todo` holds the running handlers.

Entering over REST is `BeginEnter`, `LookUp`, `CountPeople`, `WriteRow`; joining
over the socket `BeginJoin`, `LookUp`, `WriteRow`, `JoinChannel`, `AddMember`,
`CancelGrace`, `SetHostIfAbsent`; leaving `BeginLeave`, `LeaveChannel` and then, as
after a grace period (`Disconnect`, `IsStillThere`, `OtherTabs`, `StartGrace`,
`Expire`), the three Redis commands `RemoveMember`, `ListMembers`, `DropHost`, and
`AmHost`, `GiveHost`; a kick is `BeginKick`, `Ban`, the three commands and `TakeOut`,
which sends a word to every instance (`HearLeave`). A handler of a socket that has
gone runs on without it (`alive`).

What goes wrong: `Fail` ends a handler at any await, whether its catch does or,
as in `handleDisconnect` and the grace timer, there is none; `LoseLeave` loses a
word between instances; `Stop` takes an instance away with its sockets, timers and
handlers, while rows and Redis stay; `ForgetMembers` and `ForgetHost` are the
twelve hours after which Redis drops what a stop has left behind. Three ghosts say
whom the properties cannot speak for: `slipped`, whose join had passed the check
of the ban when it was written; `halfway`, whose kick failed after the ban
(`voice-moderation.gateway.ts:76-84`) or whose word was lost; `cut`, whose connection
went in the middle of a join, or for whom a handler or an instance on which their
place hung went. Coarser than the code: `fetchSockets` answers for one moment.

### VoiceStage

`creator`, `role` and `muted` are Postgres; `tokens` are the LiveKit tokens handed
out, `mic` what LiveKit allows while connected. Connecting is `BeginToken`,
`SignToken`, `ConnectAudio`, the last as often as somebody likes with a token they
have: it is good for six hours (`livekit.service.ts:293`), which in the model do not
end. Muting is `BeginMute` or `BeginUnmute`, `WriteMute`, `SetMute`; a role change
`BeginRole`, `ReadRoom`, `WriteRole`, `SetMic`. The host is handed over in two ways:
the socket event goes through `WriteCreator` and then two role changes, the REST
call writes the rows only. `SetCanPublish` says nothing to somebody who is not
connected, and its errors are swallowed: the word is lost. `Fail` stops a handler
between any two statements.

A token and a handler know (`stale`, a ghost) whether another handler has written
since what they were told, which `Overtakes` keeps. `astray` (ghost) collects those
whose permission was last *given* by such a stale word or token, and those about
whom a word was lost or never sent. An overlap alone puts nobody there: that
the writes of several handlers end in the right permission is what is checked.

### PracticeRewards

`row`, `shown` and `frozen` are the streak, `earned` and `capped` the XP ledger,
`week` the weekly quest rows, `done` what a measurement finds done; `day` is the
clock, which `Midnight` moves between any two statements. `recordActivity` is
`Pay`, then `ReadFreezes`, `SpendFreezes`, `CoverDays`, `ReadStreak`,
`WriteStreak`, `ShowStreak`, and it swallows its errors, so that `Fail` may end
the activity or the whole handler; `recordCappedActivity` starts with `ReadCap`.
`get` is `ReadWeek`, `MakeWeek`, `Measure`, `ClaimQuests`, `OpenChest`,
`GiveFreeze`, `MarkGiven`, with an activity inside each payment; the shop is
`ReadShop`, `ReadBalance`, `Buy`. `measure()` has a start and no end: what is
done after the week counts for a request that midnight has overtaken, and
`FinishQuest` says so. `paid`, `lost` and `practised` are ghosts.

### Billing and AiPartner

`payment` and `sub` are the rows. Starting a checkout is `CancelPending`,
`OpenCheckout`; a button of the checkout page `LoadPayment` and then
`ExpireCheckout`, `RefusePayment`, or the transaction `ClaimPayment` (which locks
the row, `Locked`), `ReadSub`, `CommitAccess` (which rolls back when the
subscription row was inserted meanwhile), and `Notify`. `cancel` and `resume` are
`ReadPlan`, `WriteStatus`. `granted`, `bought` and `lost` are ghosts: the last
counts what others bought while a transaction was open that had read the
subscription before, and then writes over theirs. A turn of the AI partner is `AskTurn`, `CountTurns` (turns and plan of that moment), `Answer`
(stored after the model has answered, on the day of then and in its conversation);
ending a conversation is `ReadChat`, `WriteRecap`. `turns` counts the stored
messages per day and `said` per conversation, each against its own limit.

### Leagues

`profile`, `group` and `member` are the rows, `xp[u][w]` the sum of the ledger.
Joining is `BeginJoin`, `ReadTier`, `FindGroup`, `NewGroup`, `Enter`, from the
league page and the background pass (which may still put somebody into the group of
the week in which it began); settling is `ListDue`, `ClaimGroup`, and for
each member `WriteResult`, `ReadProfile`, `MoveMember`, by one pass per instance,
which `GiveUp` may stop anywhere. `Rank`, `ZoneOf` and `NextTier` are
`leagues.engine.ts`. `moves` and `late` are ghosts.

## Runs

Every property has a mutant: a change of one definition, the way a plausible
bug would change the code, that makes TLC find the property violated. The
mutated forms stand beside the definitions, marked "Seeded bug".

| Run | Instance | Question and answer | Properties |
|---|---|---|---|
| `session_family` | 1 login, 3 tokens, 2 requests, 1 client context (or an unknown one), clock to 3, lifetime 2, grace 1 | Is a login revoked as a whole, has it one current token, does a token pay once, does a revocation hold, is it announced only after its commit? Yes. | `TypeOK`, `FamilyEndsWhole`, `OneCurrentToken`, `RevocationTakesHold`, `AnnouncedAfterCommit`, `TokenPaysOnce` |
| `session_logins` | 2 logins, 2 tokens, 2 requests, the clock stands still | Does `logoutAll` end every login it listed, do rows, locks and requests implement `LoginFamilies`, is every request that waits for a lock answered or failed? Yes. | `LogoutAllEndsListed`, `LoginsEndForGood`, `RequestsFinish` |
| `match_once` | 3 people who join once, 2 instances, 1 request at a time, 1 block, 1 failing command | Is anyone put in two calls of one search by racing matchmakers, does a place lose its entry, does a failure cost more than the two people in hand their answer? No. | `TypeOK`, `OneCallPerJoin`, `PlacesHaveEntries`, `NobodyForgotten` |
| `match_served` | 2 people who join once, 2 instances, 1 block | Is whoever asked told the outcome in the end? Yes, without failing commands. | `WaitersAreTold` |
| `call` | 2 people, 2 handlers, limit of 2 extensions, 1 failing handler | Is each person settled once at most, is every extension accounted for, is the limit passed only by what is in flight, is an ended call final, do the handlers implement `CallPromise` (each extension uses up both agreements), does every call end? Yes. | `TypeOK`, `SettledOnce`, `TimeMatchesExtensions`, `ExtensionsNearlyBounded`, `EndedIsFinal`, `CallsEnd`, `CallKept` |
| `voice_room` | host with 1 tab, guest with a tab on each of 2 instances, room for 1, 3 handlers at once, 4 requests, 1 failure of any kind | Does a ban hold once its kick was carried through, and does nobody stay listed whose connection is gone? Yes, with the exceptions the properties name. | `TypeOK`, `BanHolds`, `NoGhosts` |
| `voice_kick` | the same people, 2 handlers at once, 3 requests | Is there no moment in which a kicked person slips back in (`voice/voice.service.ts:130`)? There is: the finding of `PROJECT.json`. | `KickedStaysOut` |
| `voice_stage` | host and 2 others, 2 handlers at once, 4 requests, 1 handler that stops or word that is lost | Can nobody publish who is muted or in the audience, once the handler that lowered them has told LiveKit? Yes, unless the last they got was a word or a token that another write had overtaken. | `MicWithinRight` |
| `rewards_streak` | 2 handlers, 4 days, 2 freezes, 4 requests, 1 failure | Does a streak count only days practised, does the shop never overspend? Yes. | `StreakIsEarned`, `NeverOverspent` |
| `rewards_quests` | 2 handlers, 2 quests in each of 2 weeks of one day, cap of one reward, 3 requests, 1 failure | Do quests and chests pay once and for their own week, is a cap passed by one reward per other handler at most? Yes. | `TypeOK`, `EachClaimPaidOnce`, `PaysForWork`, `CapNearlyHolds` |
| `billing` | 2 payments, 2 handlers that start checkouts and pay, 2 turns at once, 2 days, 1 failure | Is access given once per payment, is no paid day missing but those bought behind an open transaction's back, has each tab one payable checkout at most, are settlements final, do the turns of a day and of a conversation stay within their limits and what is in flight? Yes. | `TypeOK`, `PaidIsGranted`, `PaidTimeGiven`, `OnePayablePerTab`, `TurnsNearlyLimited`, `SettledIsFinal` |
| `leagues` | 2 people, 2 joins at once, 2 passes, 2 groups, 2 weeks, 1 failure | Does a week move everybody once, and nobody twice? Yes. | `TypeOK`, `MovedOnce`, `EachMemberMoves` |

Bounds. `MaxTime` lets tokens expire, lapse out of the grace period and be
pruned, and lets a call pass every deadline its extensions can set (so that
`CallsEnd` is not true for want of time). `IdToSpare` starts a refresh or a
login only while an id is left for it; it stands for ids that never run out.
Three tokens are a login, its rotation and the rotation of that; two requests or
handlers are what a race takes. Three people are needed for one matchmaker to
take a person another one needs. Four days miss one, freeze one and are overtaken
by midnight. A week of one day, a checkout that expires at once and a group of
one person bring the boundary of each within reach: two joins that overlap still
put two people in a group of one, which has a rank and a tie. Two instances with
a tab each are what a grace timer on the wrong instance takes. `MaxJoins`,
`MaxBlocks`, `MaxFails`, `MaxAgrees`, `MaxRequests`, `MaxAtOnce`, `MaxDay`,
`MaxWeek`, `MaxXp` and `MaxGroups` bound requests, failures and clocks. Deadlock
is not checked: with the bounds used up and everyone served the system really is
at rest.

`match_once` lets each person join once, for the size of the instance: its
properties are proved for any number of joins, and TLC finds them true of two
people who join twice as well (`User = {u1, u2}`, `Suited` their pair,
`MaxJoins = 2`). `match_served` does so on purpose: with more, its property does not
hold (below).
`match_served` has no failing commands, because a row that cannot be written costs
both people their place (`random-call/matchmaker.service.ts:77-81`).

Symmetry is used only in runs without liveness properties, over sets whose
members no action tells apart.

Fairness is assumed in `session_logins`, `match_served` and `call` (`LiveSpec`).
A request or tick that runs keeps running (weak fairness of its steps): the code
has no step that waits for another actor except the family lock. Lock waiters
are queued by Postgres, hence strong fairness of `LockFamily`. The matchmaking
timer is an interval on every instance, so ticks start again and again (weak
fairness of `StartTick`), and the sweep of overdue calls with them (strong
fairness of `BeginSweep`: every third tick, whatever else the instance did). Time
passes for a call and for whoever waits (`Tick`, `Age`). Nobody is assumed to
join, leave, press or hang up, and no failure is ever assumed to happen.

## Known disagreements

What a comment or a test of the repository says and the code does not keep. The
first is the run `voice_kick`. For the others the module states the property
(under "What a comment promises"), and TLC refutes it within seconds on the
instance named: put the property in that cfg, with the changes listed.

| Stated at | Property | Instance | What happens |
|---|---|---|---|
| `voice/voice.service.ts:130` | `KickedStaysOut` | `voice_kick` | a join that has passed the ban check creates its row after the kick |
| `auth/auth.service.ts:455` | `LogoutAllEndsEveryLogin` | `session_family`, two tokens | a login whose only unexpired token lapses while its rotation is under way is not listed, and the rotation brings it back |
| `random-call/matchmaker.service.ts:13` | `PairedOnce` | `match_once`, two joins, one instance, no failure | joining again while a tick holds the person passes the check for a call whose row is not written yet |
| `random-call/matchmaker.service.ts:61` | `PlacesAreFreed` | `match_served`, two joins, one instance | a join between the two commands of a claim leaves a place without an entry, which no tick sees |
| `random-call/matchmaker.service.ts:74` | `PutBackKeepsWaiting` | `match_once`, no failure, no symmetry | someone who left during the tick is put back as well |
| `random-call/random-call.service.ts:615` | `NeverMeetAgain` | `match_served`, two joins, `Spec` | entries keep the blocks of the moment they were built |
| `random-call/random-call.service.spec.ts:289` | the limit `MaxExtensions` itself, where `ExtensionsNearlyBounded` has room for what is in flight | `call`, three handlers, limit 1 | the limit is checked on a read that is stale when the agreement is written |
| `voice/voice.service.ts:930` | `MutedCannotPublish` | `voice_stage` | a token signed before the mute still lets the person speak, and so does a lost word |
| `learning/activity.service.ts:84` | `FreezeSavesStreak` | `rewards_streak`, no symmetry | a handler that read the row before the freezes were spent restarts the streak they have saved |
| `learning/activity.service.ts:20` | the daily cap itself, where `CapNearlyHolds` has room for what is in flight | `rewards_quests` | two requests read the day's XP before either writes its own |
| `billing/billing.service.ts:99` | `OnePayable` | `billing` | two tabs cancel first and create afterwards, so both checkouts can be paid |
| `billing/plans.ts:54` | `NoDayWasted`, where `PaidTimeGiven` leaves out what is lost this way | `billing` | both are paid at once: each transaction locks its own payment, reads the same subscription and writes its own end date, and one period is lost |
| `gamification/leagues.engine.ts:89` | `PlaysInNextTier` | `leagues` | whoever joins the next week's group before the last week is settled stays in the old tier |

## Proofs

TLAPS proves the following for any sets of people, tokens, payments, handlers,
instances and quests and any bounds that satisfy the assumptions of the modules
(`NoneAssumption`, `TimeAssumption`, `CallAssumption`, `MatchAssumption`,
`RewardsAssumption`, `BillingAssumption`, `AiAssumption`, `LeaguesAssumption`,
`VoiceRoomAssumption`, `VoiceStageAssumption`: null is no id, limits are
naturals, sets that are counted are finite, a call has two people, some handler
can run). Conditions beyond these stand in the theorem.

| Module | Theorems |
|---|---|
| `SessionRotation_proofs` | `TypeCorrect`, `FamiliesEndWhole`, `TokensAreSingle`, `RevocationHolds`, `ListedEnd`, `AnnouncementsAreTrue`, the action property `PaysOnce`, the refinement `LoginsImplemented` |
| `CallLifecycle_proofs` | `CallTypeCorrect`, `EndsOnce`, `TimeIsAccounted`, `ExtendedByConsent`, `ExtensionsAreBounded`, the action property `EndIsFinal`, the refinement `PromiseKept` |
| `Matchmaking_proofs` | `MatchTypeCorrect`, `NoMoreCallsThanJoins`, `EveryPlaceHasEntry`, `NobodyIsForgotten` |
| `VoiceRoom_proofs` | `RoomTypeCorrect`, `BansHold`, `GhostsAreAccounted` |
| `VoiceStage_proofs` | `StageTypeCorrect`, `MicsWithinRight` |
| `PracticeRewards_proofs` | `RewardsTypeCorrect`, `StreaksAreEarned`, `ShopNeverOverspends`, `QuestsPayForWork`, `ClaimsArePaidOnce`, `CapIsNearlyKept` |
| `Billing_proofs` | `BillingTypeCorrect`, `PaymentsAreGranted`, `PaidTimeIsGiven`, `OneCheckoutPerTab`, `TurnsAreLimited` (of `AiPartner`), the action property `SettlementsAreFinal` |
| `Leagues_proofs` | `LeaguesTypeCorrect`, `WeeksMoveOnce`, `SettledGroupsMove`, and `ZonesApart` about the zones of a group if `UP` and `DOWN` are at most `GROUP_SIZE` |

Each module ends with its inductive invariant, and the proof shows that `Init`
implies it, that every action keeps it, and that it implies the properties.

*Sessions.* That a family ends as a whole does not follow from itself: a refresh
that has read its row could insert a successor next to revoked rows. `IInv` adds
what the lock buys: whoever is between locking and committing holds the lock
(`HoldsLock`), so what a refresh has read of its row is what the row still holds
(`ReadIsCurrent`), and what a revocation has read is all there is to revoke
(`ReadIsComplete`). `IdsBelong` keeps families apart, `RotatedHasChild` ties a
replacement to a rotation, `ListedIsHandled` says that of the families
`logoutAll` listed, those no longer to do are over, and `CommittedEnds` that an
ended login stays so. The proof first reduces a step to what it does to the
table (`Table...` lemmas), then shows that everybody else's reads survive it. The
refinement splits on the same cases: a login begins, is renewed, ends, or
nothing changes.

*Calls.* `SettledOnce` needs `SettlesAlone`: nobody settles an open call, one
handler at most settles an ended one, and those it has left were not settled.
`TimeMatchesExtensions` needs `ReadMatches` (what an extending handler read
matched then, and its conditional update makes sure that it still does), and
`AgreedEachTime` needs `AgreedAhead` (an agreement on record is not yet used up).
For the limit, `OnlyInFlight` counts what is left to spend once it is reached: the
agreements on record and those of handlers that had passed the check
(`Checked`), where each further extension takes two and nobody passes any more.
The refinement splits on the steps: `Agree`, `Bump`, `End` and `Settle` are steps
of `CallPromise` or change nothing of it, the latter because of `SettlesAlone`
(who is about to be settled was not) and the former because `ReadMatches` makes
the end written from an old read the end of now plus the time agreed.

*Matchmaking.* `ShapeInv` says what a tick works on at each step. `OnceInv` adds
`HandsFit`: counting the hands a person is in (`Hands`: the queue's, those of
ticks that hold their place, of requests that keep it, of calls), there are no
more than the times they asked. A join adds one pair of hands; every other step
lets go or swaps one pair for another (`QueueToTick`, `TickToQueue`,
`TickToCall`, ...), so no two ticks can put a person into two calls of one
search. That bounds calls by joins for any number of joins, and for whoever
asked once it leaves a single pair of hands: a claim, which holds the place,
then never clears the entry of one that is in the queue. `OwedInv` is the other
half: of those owed an answer who are in nobody's hands (`Lost`) there are two at
most per failure, because a tick has at most two people in hand and a request
one, and no other step adds to them.

*Voice rooms.* For everybody not marked `slipped`, `halfway` or `cut`, each trace is
matched by whoever will remove it: `BanClears` (what is left of a banned person a
kick, or a word on its way, has still to take away), `TabsNoted` and `NoGhosts` (a socket in the room that has not noted it belongs to a
join that will; a member has a socket, a timer or a handler that will act), with
`CutKnown`, `AliveOnline` and `InStep` about the handlers. `NoGhosts` is inductive
together with these: a failure or a stop takes a holder away and marks the person
in the same step, and the mark goes when they are taken out of the members.

*Stage.* `Fresh`: what a handler has read is still so unless it is stale, because
every write marks the readers it overtakes. `TokensRight`: a token that is not
stale gives no more than the rows. So a word or a reconnection gives what the rows
say, or leads astray. `MicsRight`: a right that the rows no longer give is about to
be taken by a handler that owes LiveKit a word (`Owes`), or the person is astray; a
hand-over owes the old host two words in a row, which `OldHost` follows.

*Rewards.* What a handler has read before an await can only have become an
understatement, because XP, practised days and finished quests only grow
(`Sound`, `StreakInv`); `EachClaimPaidOnce` counts payments, handlers that are
about to pay, and failures, and is itself inductive on top of that (`IInv`). The
cap rests on `CapInv`: while handlers are about to pay, today has room below the
cap for one of them and a reward for each handler that is not (`CapFits`). Who
reads the cap has just seen the room for its own reward, and who pays becomes one
of the others.

*Billing.* `TransactionsAlone`: between claim and commit nobody else touches the
payment. `EndCovers`: what a transaction is about to write covers what had been
bought when it read the subscription and the period it sells, and what others have
bought since is what its commit adds to `lost`. `OnePayablePerTab` is inductive once
`TransactionsAlone` says that only tabs open checkouts (`TabsInv`): a start empties
what can be paid and takes one place of what is about to be (`Opening`), a new row
passes from the second to the first.

*Turns of the AI partner.* `RoomToAnswer`: what is stored and the turns that have
passed the checks (`Waiting`, of a conversation `WaitingIn`) fit together; a turn
that passes found the stored ones below the limit, and the others are at most all
talkers but itself. `DaysInOrder` gives a new day an empty count.

*Leagues.* `PassFits` and `PassesApart`: a claimed group belongs to one pass, which
knows everybody who entered it in its week (`late` tells the others) and has moved
none of those it still has to move; `MovesFit` and `SettledFit` follow the moves,
`JoinsFit` and `GroupsFit` the rows.

Only model-checked: all liveness (`RequestsFinish`, `WaitersAreTold`, `CallsEnd`),
which rests on fairness and `ENABLED` and is out of the prover's reach. Every
other property of a passing run is a theorem.

## Not modelled

* Of the modelled components: JWT contents, cookies and the legacy token column;
  amounts of XP per reason; the wording and the order of messages; the score that
  chooses between compatible partners; account restrictions; the removal of an
  account during a call; the relaying of captions, cards and notes; creating,
  scheduling and ending voice rooms, passwords and raised hands; the choice of a
  week's quests; badges; the language model's prompts and answers.
* The memory that stands in for Redis when one server runs alone (queue and voice
  rooms): it does in one step what Redis does in several.
* Waiting times that widen compatibility (`maxLevelGap`, recent partners): they
  only make more pairs suited, and `Suited` is any set of pairs.
* Chat, content and exercises, notifications, communities, profiles, the coach of
  voice rooms: single-row reads and writes and their broadcast, or text
  processing. The web client's pages and hooks show the server's state and hold
  most of the repository's lines; of the client only the token refresh has a
  protocol of its own, which is planned.
* The remaining components of the table above, with the reason for each in
  `PROJECT.json`.

## Plan

1. `Contacts`: friend requests, friendships and blocks, keep-in-touch and ratings
   after a call, friend challenges: checks before creates, in both directions of
   a pair, and restrictions against joins.
2. `CallPresence`: sockets and grace timers of a person on several instances,
   composed with the endings of `CallLifecycle`; the sockets of a revoked login,
   which joins `SessionRotation` to `VoiceRoom`.
3. `RefreshCoordinator` of the web client over `SessionRotation`: tabs with and
   without a shared lock never lose a login to their own replays.
4. The rounds and timers of the voice coach.
5. Pure algorithms against reference definitions: `findPairs` against `Pairings`.
