------------------------------- MODULE Billing -------------------------------
(***************************************************************************)
(* One learner's checkouts, payments and Pro subscription                  *)
(* (billing/billing.service.ts, billing/plans.ts).  The learner's tabs     *)
(* send requests that interleave at every await.  activate() is a database *)
(* transaction (read committed): its claim locks the payment's row, what   *)
(* it writes is seen by others when it commits, and a statement on a row   *)
(* that another transaction has locked waits.                              *)
(***************************************************************************)
EXTENDS Integers, FiniteSets

CONSTANTS Proc,          \* handlers in flight
          CheckoutProc,  \* those of them that may start a checkout
          Payment,       \* payments
          Interval,      \* MONTHLY, YEARLY
          PERIOD_DAYS,   \* PERIOD_DAYS[i]: the access one payment buys
          CHECKOUT_TTL,  \* a checkout can be paid this long
          MaxTime,       \* bound on the clock, for model checking
          MaxFails,      \* bound on statements that fail
          NoPayment, NoInterval

ASSUME BillingAssumption ==
  /\ CheckoutProc \subseteq Proc /\ IsFiniteSet(CheckoutProc)
  /\ PERIOD_DAYS \in [Interval -> Nat \ {0}]
  /\ {CHECKOUT_TTL, MaxTime, MaxFails} \subseteq Nat
  /\ NoPayment \notin Payment
  /\ NoInterval \notin Interval

VARIABLES now,      \* the clock
          payment,  \* payment[x]: the Payment row of x
          sub,      \* the Subscription row
          req,      \* req[p]: the state of handler p
          told,     \* the payments a "Welcome to Pro" notification tells of
          granted,  \* ghost: granted[x] counts the access given for x
          bought,   \* ghost: the days of access all payments bought
          lost,     \* ghost: days bought by others while a transaction was open
                    \* that had read the subscription before
          fails     \* statements that failed so far

billingVars == <<now, payment, sub, req, told, granted, bought, lost, fails>>

Settled == {"SUCCEEDED", "FAILED", "CANCELLED"}
NoCheckout == [status |-> "none", created |-> 0, interval |-> NoInterval]
PaymentRow == {NoCheckout} \cup
              [status : Settled \cup {"PENDING"}, created : Nat, interval : Interval]

\* plan is PRO from the first payment on; status ACTIVE or CANCELLED
\* (cancelAtPeriodEnd goes with it).
Subscription == [exists : BOOLEAN, status : {"ACTIVE", "CANCELLED"}, endDate : Nat]
NoSub == [exists |-> FALSE, status |-> "ACTIVE", endDate |-> 0]

\* What a handler keeps between two awaits: the payment, the outcome or
\* interval asked for, and the subscription as its transaction read it; seen is
\* a ghost: what had been bought then.
Idle == [pc |-> "idle", payment |-> NoPayment, outcome |-> "none",
         interval |-> NoInterval, endDate |-> 0, current |-> FALSE, seen |-> 0]
Outcome == {"success", "fail", "cancel"}
Request == [pc : {"idle", "open", "load", "expire", "refuse", "claim", "extend",
                  "commit", "notify", "stop", "resume"},
            payment : Payment \cup {NoPayment}, outcome : Outcome \cup {"none"},
            interval : Interval \cup {NoInterval}, endDate : Nat,
            current : BOOLEAN, seen : Nat]

BillingTypeOK == /\ now \in Nat
                 /\ payment \in [Payment -> PaymentRow]
                 /\ sub \in Subscription
                 /\ req \in [Proc -> Request]
                 /\ told \subseteq Payment
                 /\ granted \in [Payment -> Nat]
                 /\ bought \in Nat /\ lost \in Int
                 /\ fails \in Nat

\* A learner who never subscribed, or whose subscription has run out.
BillingInit == /\ now = 0
               /\ payment = [x \in Payment |-> NoCheckout]
               /\ sub \in {NoSub, [NoSub EXCEPT !.exists = TRUE]}
               /\ req = [p \in Proc |-> Idle]
               /\ told = {}
               /\ granted = [x \in Payment |-> 0]
               /\ bought = 0 /\ lost = 0
               /\ fails = 0

-----------------------------------------------------------------------------

\* effectivePlan: PRO while paid up, cancelled or not.
Pro(s, t) == s.exists /\ t < s.endDate

\* Seeded bug: every period starts now.
EndFromNow(s, i, t) == t + PERIOD_DAYS[i]

\* extendedEnd: paying early adds to the time left.
ExtendedEnd(s, i, t) == (IF Pro(s, t) THEN s.endDate ELSE t) + PERIOD_DAYS[i]

Locked(x) == \E p \in Proc : req[p].pc \in {"extend", "commit"} /\ req[p].payment = x

Goto(p, r, pc) ==
  req' = [req EXCEPT ![p] = IF pc = "idle" THEN Idle ELSE [r EXCEPT !.pc = pc]]

\* Seeded bug: the update does not look at the status.
CloseAnyway(x, status) == /\ ~Locked(x)
                          /\ payment' = [payment EXCEPT ![x].status = status]

\* A pending payment that nobody is paying right now gets another status.
Close(x, status) ==
  /\ ~Locked(x)
  /\ payment' = IF payment[x].status = "PENDING"
                THEN [payment EXCEPT ![x].status = status] ELSE payment

-----------------------------------------------------------------------------
(* startCheckout *)

\* Seeded bug: earlier checkouts stay payable.
KeepPending(p) == \E i \in Interval :
  /\ req[p] = Idle
  /\ p \in CheckoutProc
  /\ \E x \in Payment : payment[x].status = "none"
  /\ Goto(p, [Idle EXCEPT !.interval = i], "open")
  /\ UNCHANGED <<now, payment, sub, told, granted, bought, lost, fails>>

\* Every checkout that can still be paid is cancelled.
CancelPending(p) == \E i \in Interval :
  /\ req[p] = Idle
  /\ p \in CheckoutProc
  /\ \E x \in Payment : payment[x].status = "none"
  /\ \A x \in Payment : payment[x].status = "PENDING" => ~Locked(x)
  /\ payment' = [x \in Payment |->
                   IF payment[x].status = "PENDING"
                   THEN [payment[x] EXCEPT !.status = "CANCELLED"] ELSE payment[x]]
  /\ Goto(p, [Idle EXCEPT !.interval = i], "open")
  /\ UNCHANGED <<now, sub, told, granted, bought, lost, fails>>

\* Seeded bug: the row does not say what it buys.
OpenBlank(p) == \E x \in Payment :
  /\ req[p].pc = "open"
  /\ payment[x].status = "none"
  /\ payment' = [payment EXCEPT ![x].status = "PENDING", ![x].created = now]
  /\ Goto(p, req[p], "idle")
  /\ UNCHANGED <<now, sub, told, granted, bought, lost, fails>>

\* Then the new one is created.
OpenCheckout(p) == \E x \in Payment :
  /\ req[p].pc = "open"
  /\ payment[x].status = "none"
  /\ payment' = [payment EXCEPT ![x] = [status |-> "PENDING", created |-> now,
                                        interval |-> req[p].interval]]
  /\ Goto(p, req[p], "idle")
  /\ UNCHANGED <<now, sub, told, granted, bought, lost, fails>>

-----------------------------------------------------------------------------
(* settleSandbox and activate *)

\* The learner presses a button of the checkout page: the payment is read.
\* An unsettled one goes on, to be expired, refused or paid.
LoadPayment(p) == \E x \in Payment, o \in Outcome :
  /\ req[p] = Idle
  /\ payment[x].status = "PENDING"
  /\ Goto(p, [Idle EXCEPT !.payment = x, !.outcome = o],
          IF now - payment[x].created > CHECKOUT_TTL THEN "expire"
          ELSE IF o = "success" THEN "claim" ELSE "refuse")
  /\ UNCHANGED <<now, payment, sub, told, granted, bought, lost, fails>>

ExpireCheckout(p) == /\ req[p].pc = "expire"
                     /\ Close(req[p].payment, "CANCELLED")
                     /\ Goto(p, req[p], "idle")
                     /\ UNCHANGED <<now, sub, told, granted, bought, lost, fails>>

RefusePayment(p) ==
  /\ req[p].pc = "refuse"
  /\ Close(req[p].payment, IF req[p].outcome = "fail" THEN "FAILED" ELSE "CANCELLED")
  /\ Goto(p, req[p], "idle")
  /\ UNCHANGED <<now, sub, told, granted, bought, lost, fails>>

\* Seeded bug: the status is read, and the claim does not check it again.
ClaimUnlocked(p) ==
  LET x == req[p].payment IN
  /\ req[p].pc = "claim"
  /\ Goto(p, req[p], IF payment[x].status = "PENDING" THEN "extend" ELSE "idle")
  /\ UNCHANGED <<now, payment, sub, told, granted, bought, lost, fails>>

\* The conditional update that marks the payment as paid, and its lock.
ClaimPayment(p) ==
  LET x == req[p].payment IN
  /\ req[p].pc = "claim"
  /\ ~Locked(x)
  /\ Goto(p, req[p], IF payment[x].status = "PENDING" THEN "extend" ELSE "idle")
  /\ UNCHANGED <<now, payment, sub, told, granted, bought, lost, fails>>

ReadSub(p) ==
  LET r == req[p] IN
  /\ r.pc = "extend"
  /\ Goto(p, [r EXCEPT !.current = sub.exists,
                       !.seen = bought,
                       !.endDate = ExtendedEnd(sub, payment[r.payment].interval, now)],
          "commit")
  /\ UNCHANGED <<now, payment, sub, told, granted, bought, lost, fails>>

\* The subscription is written, over what others committed since it was read,
\* and the transaction commits.  A second insert of the row fails, and
\* everything is rolled back.
CommitAccess(p) ==
  LET r == req[p]
      x == r.payment IN
  /\ r.pc = "commit"
  /\ IF r.current = sub.exists
     THEN /\ payment' = [payment EXCEPT ![x].status = "SUCCEEDED"]
          /\ sub' = [exists |-> TRUE, status |-> "ACTIVE", endDate |-> r.endDate]
          /\ granted' = [granted EXCEPT ![x] = @ + 1]
          /\ bought' = bought + PERIOD_DAYS[payment[x].interval]
          /\ lost' = lost + (bought - r.seen)
          /\ Goto(p, r, "notify")
     ELSE /\ Goto(p, r, "idle")
          /\ UNCHANGED <<payment, sub, granted, bought, lost>>
  /\ UNCHANGED <<now, told, fails>>

Notify(p) == /\ req[p].pc = "notify"
             /\ told' = told \cup {req[p].payment}
             /\ Goto(p, req[p], "idle")
             /\ UNCHANGED <<now, payment, sub, granted, bought, lost, fails>>

-----------------------------------------------------------------------------
(* cancel and resume: read the plan, then write, whatever was paid since *)

ReadPlan(p) == \E pc \in {"stop", "resume"} :
  /\ req[p] = Idle
  /\ Pro(sub, now)
  /\ Goto(p, Idle, pc)
  /\ UNCHANGED <<now, payment, sub, told, granted, bought, lost, fails>>

WriteStatus(p) ==
  /\ req[p].pc \in {"stop", "resume"}
  /\ sub' = [sub EXCEPT !.status = IF req[p].pc = "stop" THEN "CANCELLED" ELSE "ACTIVE"]
  /\ Goto(p, req[p], "idle")
  /\ UNCHANGED <<now, payment, told, granted, bought, lost, fails>>

-----------------------------------------------------------------------------

\* A statement fails or the process stops: an open transaction is rolled back.
BillingFail(p) == /\ req[p].pc # "idle"
                  /\ fails < MaxFails
                  /\ fails' = fails + 1
                  /\ Goto(p, req[p], "idle")
                  /\ UNCHANGED <<now, payment, sub, told, granted, bought, lost>>

BillingStep(p) == \/ CancelPending(p) \/ OpenCheckout(p) \/ LoadPayment(p)
                  \/ ExpireCheckout(p) \/ RefusePayment(p) \/ ClaimPayment(p)
                  \/ ReadSub(p) \/ CommitAccess(p) \/ Notify(p)
                  \/ ReadPlan(p) \/ WriteStatus(p) \/ BillingFail(p)

-----------------------------------------------------------------------------
(* What must hold *)

\* A settled payment stays as it was settled, whatever late buttons, expiries
\* and new checkouts arrive (billing.service.ts:133-143, :204-208).
SettledIsFinal ==
  [][ \A x \in Payment : payment[x].status \in Settled
                           => payment'[x] = payment[x] ]_billingVars

\* Access is given exactly once for each payment that succeeded, and never for
\* another: a payment cannot succeed without the access, nor the other way round
\* (billing.service.ts:200-230).
PaidIsGranted ==
  \A x \in Payment : granted[x] = IF payment[x].status = "SUCCEEDED" THEN 1 ELSE 0

\* Paying adds to the time left instead of wasting it, early or late: of the days
\* bought none is missing, except those another payment bought while this one's
\* transaction had already read the subscription (plans.ts:54-60,
\* billing.service.ts:210-222).
PaidTimeGiven == sub.endDate + lost >= bought

Payable == {x \in Payment : payment[x].status = "PENDING"}
Opening == {p \in Proc : req[p].pc = "open"}

\* Starting a checkout cancels every earlier one, so of tabs that start checkouts
\* at once each has one that can be paid, or is about to be created, and no more
\* (billing.service.ts:97-101).
OnePayablePerTab ==
  Cardinality(Payable) + Cardinality(Opening) <= Cardinality(CheckoutProc)

-----------------------------------------------------------------------------
(* What comments promise and two tabs break: see the README *)

\* billing.service.ts:99: "Only the latest checkout can be paid, so old tabs
\* cannot charge twice".
OnePayable == Cardinality(Payable) <= 1

\* plans.ts:54: "Paying while still subscribed adds to the time left instead of
\* wasting it".
NoDayWasted == sub.endDate >= bought

-----------------------------------------------------------------------------
(* The inductive invariants behind these *)

Paying(p) == req[p].pc \in {"extend", "commit"}

\* A handler works on a payment; while its transaction is open nobody else's
\* touches that payment, which is still pending.
TransactionsAlone ==
  /\ \A p \in Proc :
       /\ req[p].pc \in {"expire", "refuse", "claim", "extend", "commit", "notify"}
            => req[p].payment \in Payment
       /\ req[p].pc = "open" => req[p].interval \in Interval /\ p \in CheckoutProc
       /\ Paying(p) => payment[req[p].payment].status = "PENDING"
  /\ \A p, q \in Proc :
       Paying(p) /\ Paying(q) /\ req[p].payment = req[q].payment => p = q

PaymentInv == BillingTypeOK /\ PaidIsGranted /\ TransactionsAlone

\* What a transaction is about to write covers what it had read and what it sells.
EndCovers ==
  /\ PaidTimeGiven
  /\ \A p \in Proc : req[p].pc = "commit" =>
       /\ req[p].seen <= bought
       /\ req[p].endDate + lost
            >= req[p].seen + PERIOD_DAYS[payment[req[p].payment].interval]
  /\ ~sub.exists => sub.endDate = 0

TimeInv == PaymentInv /\ EndCovers

TabsInv == PaymentInv /\ IsFiniteSet(Payable) /\ OnePayablePerTab
=============================================================================
