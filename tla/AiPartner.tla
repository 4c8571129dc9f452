------------------------------ MODULE AiPartner ------------------------------
(***************************************************************************)
(* The AI speaking partner (ai-tutor/ai-tutor.service.ts) on top of the    *)
(* learner's plan (Billing): how many turns a day may be taken follows the *)
(* subscription of the moment a turn is asked for, the turn is stored      *)
(* after the language model has answered.  The clock of Billing counts the *)
(* days.                                                                   *)
(***************************************************************************)
EXTENDS Billing

CONSTANTS Talker,                 \* handlers of conversations in flight
          Chat,                   \* conversations the learner has opened
          FREE_TURNS, PRO_TURNS,  \* PLAN_LIMITS: turns a day
          MAX_TURNS_PER_SESSION   \* turns in one conversation

\* plans.ts:14-17; ai-tutor.service.ts:30
ASSUME AiAssumption ==
  /\ {FREE_TURNS, PRO_TURNS, MAX_TURNS_PER_SESSION} \subseteq Nat \ {0}
  /\ FREE_TURNS <= PRO_TURNS
  /\ IsFiniteSet(Talker)

VARIABLES turns,  \* turns[d]: the learner's messages of day d
          said,   \* said[c]: the learner's messages in chat c
          ended,  \* the conversations that have their recap
          talk    \* talk[t]: the state of handler t

aiVars == <<turns, said, ended, talk>>
vars == <<billingVars, aiVars>>

Days == 0..MaxTime

Quiet == [pc |-> "idle", chat |-> "none"]
Talk == [pc : {"idle", "count", "answer", "recap"}, chat : Chat \cup {"none"}]

Today == turns[now]
InChat(c) == said[c]

TypeOK == /\ BillingTypeOK
          /\ turns \in [Days -> Nat]
          /\ said \in [Chat -> Nat]
          /\ ended \subseteq Chat
          /\ talk \in [Talker -> Talk]

Init == /\ BillingInit
        /\ turns = [d \in Days |-> 0]
        /\ said = [c \in Chat |-> 0]
        /\ ended = {}
        /\ talk = [t \in Talker |-> Quiet]

-----------------------------------------------------------------------------

\* limitsFor(effectivePlan(subscription))
Limit == IF Pro(sub, now) THEN PRO_TURNS ELSE FREE_TURNS

\* turn(): the conversation is read and still open.
AskTurn(t) == \E c \in Chat :
  /\ talk[t] = Quiet
  /\ c \notin ended
  /\ talk' = [talk EXCEPT ![t] = [Quiet EXCEPT !.pc = "count", !.chat = c]]
  /\ UNCHANGED <<billingVars, turns, said, ended>>

\* Seeded bug: the last turn is counted as one too few.
CountLoosely(t) ==
  LET free == Today <= Limit /\ InChat(talk[t].chat) < MAX_TURNS_PER_SESSION IN
  /\ talk[t].pc = "count"
  /\ talk' = [talk EXCEPT ![t] = IF free THEN [@ EXCEPT !.pc = "answer"] ELSE Quiet]
  /\ UNCHANGED <<billingVars, turns, said, ended>>

\* The turns so far and the plan are read; one too many is refused.
CountTurns(t) ==
  LET free == Today < Limit /\ InChat(talk[t].chat) < MAX_TURNS_PER_SESSION IN
  /\ talk[t].pc = "count"
  /\ talk' = [talk EXCEPT ![t] = IF free THEN [@ EXCEPT !.pc = "answer"] ELSE Quiet]
  /\ UNCHANGED <<billingVars, turns, said, ended>>

\* The model answers, and the turn is stored; or it does not answer.
Answer(t) ==
  /\ talk[t].pc = "answer"
  /\ \/ /\ turns' = [turns EXCEPT ![now] = @ + 1]
        /\ said' = [said EXCEPT ![talk[t].chat] = @ + 1]
     \/ UNCHANGED <<turns, said>>
  /\ talk' = [talk EXCEPT ![t] = Quiet]
  /\ UNCHANGED <<billingVars, ended>>

\* endSession(): the messages are read, unless the recap is there already.
ReadChat(t) == \E c \in Chat :
  /\ talk[t] = Quiet
  /\ c \notin ended
  /\ talk' = [talk EXCEPT ![t] = [pc |-> "recap", chat |-> c]]
  /\ UNCHANGED <<billingVars, turns, said, ended>>

WriteRecap(t) ==
  /\ talk[t].pc = "recap"
  /\ ended' = ended \cup {talk[t].chat}
  /\ talk' = [talk EXCEPT ![t] = Quiet]
  /\ UNCHANGED <<billingVars, turns, said>>

Tick == /\ now < MaxTime
        /\ now' = now + 1
        /\ UNCHANGED <<payment, sub, req, told, granted, bought, lost, fails, aiVars>>

TalkStep(t) == \/ AskTurn(t) \/ CountTurns(t) \/ Answer(t) \/ ReadChat(t)
               \/ WriteRecap(t)

Next == \/ Tick
        \/ \E p \in Proc : BillingStep(p) /\ UNCHANGED aiVars
        \/ \E t \in Talker : TalkStep(t)

Spec == Init /\ [][Next]_vars

-----------------------------------------------------------------------------
(* What must hold *)

Slack == Cardinality(Talker) - 1

\* The most turns a day the learner ever had: who never paid has the free ones.
Allowance == IF bought = 0 THEN FREE_TURNS ELSE PRO_TURNS

\* The turns of a day pass the limit of the plan, and those of a conversation its
\* limit, by at most one for each other turn in flight: they are counted before
\* the model is called and stored after it (ai-tutor.service.ts:134-154,
\* :188-205).
TurnsNearlyLimited == /\ \A d \in Days : turns[d] <= Allowance + Slack
                      /\ \A c \in Chat : said[c] <= MAX_TURNS_PER_SESSION + Slack

-----------------------------------------------------------------------------
(* The inductive invariant behind it *)

\* The turns that have passed the checks and are not stored yet.
Waiting == {t \in Talker : talk[t].pc = "answer"}
WaitingIn(c) == {t \in Waiting : talk[t].chat = c}

\* Nothing is stored for a day to come; who never paid has no paid plan.
DaysInOrder == /\ now \in Days
               /\ \A d \in Days : d > now => turns[d] = 0
               /\ bought = 0 => sub.endDate = 0

\* Whatever is waiting can still be stored, today and in each conversation.
RoomToAnswer ==
  /\ turns[now] + Cardinality(Waiting) <= Allowance + Slack
  /\ \A c \in Chat :
       said[c] + Cardinality(WaitingIn(c)) <= MAX_TURNS_PER_SESSION + Slack

TurnsInv == DaysInOrder /\ RoomToAnswer /\ TurnsNearlyLimited
=============================================================================
