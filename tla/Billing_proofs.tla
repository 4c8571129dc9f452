---------------------------- MODULE Billing_proofs ----------------------------
(***************************************************************************)
(* Proofs about Billing, as part of AiPartner, for any payments, periods   *)
(* and handlers: access is given once for each payment that succeeded, a   *)
(* settled payment stays settled, each tab leaves one payable checkout at  *)
(* most, and no day bought is missing but what others bought meanwhile.    *)
(* The argument: the claim of a payment locks its row, so what a           *)
(* transaction has read of it still holds when it commits.                 *)
(***************************************************************************)
EXTENDS AiPartner, FiniteSetTheorems, TLAPS

Pcs == {"idle", "open", "load", "expire", "refuse", "claim", "extend",
        "commit", "notify", "stop", "resume"}

LEMMA IdleTyped == Idle \in Request
BY DEF Idle, Request

\* Where a handler goes on.
LEMMA GotoNew ==
  ASSUME NEW p \in Proc, NEW r \in Request, NEW pc \in Pcs, Goto(p, r, pc)
  PROVE  \E new \in Request :
           /\ req' = [req EXCEPT ![p] = new]
           /\ new.pc = pc
           /\ pc # "idle" => /\ new.payment = r.payment /\ new.interval = r.interval
                             /\ new.endDate = r.endDate /\ new.seen = r.seen
<1>1. CASE pc = "idle"
  <2>1. req' = [req EXCEPT ![p] = Idle] /\ Idle.pc = "idle"
    BY <1>1 DEF Goto, Idle
  <2>2. QED
    BY <1>1, <2>1, IdleTyped
<1>2. CASE pc # "idle"
  <2> DEFINE new == [r EXCEPT !.pc = pc]
  <2>1. req' = [req EXCEPT ![p] = new]
    BY <1>2 DEF Goto
  <2>2. /\ new \in Request /\ new.pc = pc /\ new.payment = r.payment
        /\ new.interval = r.interval /\ new.endDate = r.endDate /\ new.seen = r.seen
    BY DEF Request, Pcs
  <2> HIDE DEF new
  <2>3. QED
    BY <2>1, <2>2
<1>3. QED
  BY <1>1, <1>2

-----------------------------------------------------------------------------
(* The shape of a step of handler p, which becomes new *)

InTransaction == {"extend", "commit"}

\* What TransactionsAlone asks of the handler that moved, and of the others.
NewFits(p, new) ==
  /\ new.pc \in {"expire", "refuse", "claim", "extend", "commit", "notify"}
       => new.payment \in Payment
  /\ new.pc = "open" => new.interval \in Interval /\ p \in CheckoutProc
  /\ new.pc \in InTransaction =>
       /\ payment'[new.payment].status = "PENDING"
       /\ \A q \in Proc \ {p} : Paying(q) => req[q].payment # new.payment

OthersFit(p) ==
  \A q \in Proc \ {p} : Paying(q) => payment'[req[q].payment].status = "PENDING"

RowsTyped == /\ now' \in Nat
             /\ payment' \in [Payment -> PaymentRow]
             /\ sub' \in Subscription
             /\ told' \subseteq Payment
             /\ granted' \in [Payment -> Nat]
             /\ bought' \in Nat /\ lost' \in Int
             /\ fails' \in Nat

LEMMA Moves ==
  ASSUME PaymentInv, NEW p \in Proc, NEW new \in Request, req' = [req EXCEPT ![p] = new],
         NewFits(p, new), OthersFit(p), RowsTyped, PaidIsGranted'
  PROVE  PaymentInv'
<1>1. /\ req \in [Proc -> Request]
      /\ req' \in [Proc -> Request] /\ req'[p] = new
      /\ \A q \in Proc \ {p} : req'[q] = req[q]
  BY DEF PaymentInv, BillingTypeOK
<1>2. BillingTypeOK'
  BY <1>1 DEF BillingTypeOK, RowsTyped
<1>3. ASSUME NEW q \in Proc
      PROVE  /\ req'[q].pc \in {"expire", "refuse", "claim", "extend", "commit", "notify"}
                  => req'[q].payment \in Payment
             /\ req'[q].pc = "open" => req'[q].interval \in Interval /\ q \in CheckoutProc
             /\ Paying(q)' => payment'[req'[q].payment].status = "PENDING"
  <2>1. CASE q = p
    BY <1>1, <2>1 DEF NewFits, Paying, InTransaction
  <2>2. CASE q # p
    BY <1>1, <2>2 DEF OthersFit, Paying, PaymentInv, TransactionsAlone
  <2>3. QED
    BY <2>1, <2>2
<1>4. ASSUME NEW q1 \in Proc, NEW q2 \in Proc, Paying(q1)', Paying(q2)',
             req'[q1].payment = req'[q2].payment
      PROVE  q1 = q2
  <2>1. CASE q1 # p /\ q2 # p
    BY <1>1, <1>4, <2>1 DEF Paying, PaymentInv, TransactionsAlone
  <2>2. CASE q1 = p \/ q2 = p
    BY <1>1, <1>4, <2>2 DEF NewFits, Paying, InTransaction
  <2>3. QED
    BY <2>1, <2>2
<1>5. TransactionsAlone'
  BY <1>3, <1>4 DEF TransactionsAlone
<1>6. QED
  BY <1>2, <1>5 DEF PaymentInv

LEMMA Known ==
  ASSUME PaymentInv, NEW p \in Proc
  PROVE  /\ req[p] \in Request /\ BillingTypeOK /\ PaidIsGranted
         /\ req[p].pc \in {"expire", "refuse", "claim", "extend", "commit", "notify"}
              => req[p].payment \in Payment
         /\ req[p].pc = "open" => req[p].interval \in Interval /\ p \in CheckoutProc
         /\ Paying(p) => payment[req[p].payment].status = "PENDING"
         /\ \A q \in Proc \ {p} : Paying(q) /\ Paying(p) => req[q].payment # req[p].payment
BY DEF PaymentInv, BillingTypeOK, TransactionsAlone

\* A step that writes none of the rows PaidIsGranted and the locks are about.
LEMMA NoPaymentStep ==
  ASSUME PaymentInv, NEW p \in Proc, NEW r \in Request, NEW pc \in Pcs, Goto(p, r, pc),
         UNCHANGED <<now, payment, granted, bought, lost>>, sub' \in Subscription,
         told' \subseteq Payment, fails' \in Nat,
         pc \in {"expire", "refuse", "claim", "extend", "commit", "notify"}
           => r.payment \in Payment,
         pc = "open" => r.interval \in Interval /\ p \in CheckoutProc,
         pc \in InTransaction =>
           /\ payment[r.payment].status = "PENDING"
           /\ \A q \in Proc \ {p} : Paying(q) => req[q].payment # r.payment
  PROVE  PaymentInv'
<1>1. PICK new \in Request :
           /\ req' = [req EXCEPT ![p] = new]
           /\ new.pc = pc
           /\ pc # "idle" => /\ new.payment = r.payment /\ new.interval = r.interval
                             /\ new.endDate = r.endDate /\ new.seen = r.seen
  BY GotoNew
<1>2. NewFits(p, new)
  BY <1>1 DEF NewFits, InTransaction
<1>3. OthersFit(p)
  BY Known DEF OthersFit
<1>4. RowsTyped /\ PaidIsGranted'
  BY DEF PaymentInv, BillingTypeOK, RowsTyped, PaidIsGranted
<1>5. QED
  BY <1>1, <1>2, <1>3, <1>4, Moves

-----------------------------------------------------------------------------
(* Payments *)

LEMMA Unlocked ==
  ASSUME NEW x, ~Locked(x)
  PROVE  \A q \in Proc : Paying(q) => req[q].payment # x
BY DEF Locked, Paying

LEMMA RowKinds ==
  ASSUME NEW s \in Settled \cup {"PENDING"}, NEW c \in Nat, NEW i \in Interval
  PROVE  [status |-> s, created |-> c, interval |-> i] \in PaymentRow
BY DEF PaymentRow

LEMMA RowParts ==
  ASSUME NEW z \in PaymentRow, z.status # "none"
  PROVE  /\ z.status \in Settled \cup {"PENDING"} /\ z.created \in Nat /\ z.interval \in Interval
         /\ \A s \in Settled : [z EXCEPT !.status = s] \in PaymentRow
                               /\ [z EXCEPT !.status = s].status = s
                               /\ [z EXCEPT !.status = s].interval = z.interval
BY DEF PaymentRow, NoCheckout

\* Payments that are not SUCCEEDED stay so, and those that are do not change.
NoneSucceeds ==
  \A x \in Payment : payment'[x].status = "SUCCEEDED" <=> payment[x].status = "SUCCEEDED"

\* A step that writes the payments only, and none that is being paid.
LEMMA PaymentStep ==
  ASSUME PaymentInv, NEW p \in Proc, NEW r \in Request, NEW pc \in Pcs, Goto(p, r, pc),
         UNCHANGED <<now, sub, told, granted, bought, lost, fails>>,
         payment' \in [Payment -> PaymentRow], NoneSucceeds, OthersFit(p),
         pc \in {"idle", "open"}, pc = "open" => r.interval \in Interval /\ p \in CheckoutProc
  PROVE  PaymentInv'
<1>1. PICK new \in Request :
           /\ req' = [req EXCEPT ![p] = new]
           /\ new.pc = pc
           /\ pc # "idle" => /\ new.payment = r.payment /\ new.interval = r.interval
                             /\ new.endDate = r.endDate /\ new.seen = r.seen
  BY GotoNew
<1>2. NewFits(p, new)
  BY <1>1 DEF NewFits, InTransaction
<1>3. RowsTyped /\ PaidIsGranted'
  BY DEF PaymentInv, BillingTypeOK, RowsTyped, PaidIsGranted, NoneSucceeds
<1>4. QED
  BY <1>1, <1>2, <1>3, Moves

LEMMA Closes ==
  ASSUME PaymentInv, NEW x \in Payment, NEW s \in Settled \ {"SUCCEEDED"}, Close(x, s)
  PROVE  /\ payment' \in [Payment -> PaymentRow] /\ NoneSucceeds
         /\ \A p \in Proc : OthersFit(p)
         /\ \A y \in Payment : /\ payment'[y].status = "PENDING" => payment[y].status = "PENDING"
                               /\ payment[y].status # "PENDING" => payment'[y] = payment[y]
                               /\ payment'[y].interval = payment[y].interval
<1>1. payment \in [Payment -> PaymentRow]
  BY DEF PaymentInv, BillingTypeOK
<1>2. CASE payment[x].status # "PENDING"
  <2>1. payment' = payment
    BY <1>2 DEF Close
  <2>2. QED
    BY <1>1, <2>1, Known DEF NoneSucceeds, OthersFit
<1>3. CASE payment[x].status = "PENDING"
  <2> DEFINE z == [payment[x] EXCEPT !.status = s]
  <2>1. z \in PaymentRow /\ z.status = s /\ z.interval = payment[x].interval
    BY <1>1, <1>3, RowParts
  <2>2. payment' = [payment EXCEPT ![x] = z]
    BY <1>1, <1>3 DEF Close
  <2>3. \A q \in Proc : Paying(q) => req[q].payment # x
    BY Unlocked DEF Close
  <2> HIDE DEF z
  <2>4. payment' \in [Payment -> PaymentRow] /\ payment'[x] = z
        /\ \A y \in Payment \ {x} : payment'[y] = payment[y]
    BY <1>1, <2>1, <2>2
  <2>5. NoneSucceeds
    BY <1>3, <2>1, <2>4 DEF NoneSucceeds
  <2>6. \A p \in Proc : OthersFit(p)
    BY <2>3, <2>4, Known DEF OthersFit, Paying
  <2>7. s # "PENDING"
    BY DEF Settled
  <2>8. QED
    BY <1>3, <2>1, <2>4, <2>5, <2>6, <2>7
<1>4. QED
  BY <1>2, <1>3

LEMMA CancelPendingKeeps ==
  ASSUME PaymentInv, NEW p \in Proc, CancelPending(p)
  PROVE  /\ PaymentInv'
         /\ \A y \in Payment : /\ payment'[y].status # "PENDING"
                               /\ payment[y].status # "PENDING" => payment'[y] = payment[y]
         /\ UNCHANGED <<now, sub, told, granted, bought, lost, fails>>
         /\ \A q \in Proc : ~Paying(q)
<1>1. PICK i \in Interval : Goto(p, [Idle EXCEPT !.interval = i], "open")
  BY DEF CancelPending
<1>2. /\ p \in CheckoutProc
      /\ \A x \in Payment : payment[x].status = "PENDING" => ~Locked(x)
      /\ payment' = [x \in Payment |->
                       IF payment[x].status = "PENDING"
                       THEN [payment[x] EXCEPT !.status = "CANCELLED"] ELSE payment[x]]
      /\ UNCHANGED <<now, sub, told, granted, bought, lost, fails>>
  BY DEF CancelPending
<1>3. payment \in [Payment -> PaymentRow] /\ "CANCELLED" \in Settled
  BY DEF PaymentInv, BillingTypeOK, Settled
<1>4. ASSUME NEW x \in Payment
      PROVE  /\ payment'[x] \in PaymentRow
             /\ payment'[x].status = "SUCCEEDED" <=> payment[x].status = "SUCCEEDED"
             /\ payment'[x].status # "PENDING"
             /\ payment[x].status # "PENDING" => payment'[x] = payment[x]
  <2>1. CASE payment[x].status = "PENDING"
    <3>1. payment'[x] = [payment[x] EXCEPT !.status = "CANCELLED"]
      BY <1>2, <2>1
    <3>2. payment[x] \in PaymentRow /\ payment[x].status # "none"
      BY <1>3, <2>1
    <3>3. payment'[x] \in PaymentRow /\ payment'[x].status = "CANCELLED"
      BY <1>3, <3>1, <3>2, RowParts
    <3>4. QED
      BY <2>1, <3>3
  <2>2. CASE payment[x].status # "PENDING"
    BY <1>2, <1>3, <2>2
  <2>3. QED
    BY <2>1, <2>2
<1>5. payment' \in [Payment -> PaymentRow] /\ NoneSucceeds
  BY <1>2, <1>4 DEF NoneSucceeds
<1>6. \A q \in Proc : ~Paying(q)
  BY <1>2, Known, Unlocked DEF Paying
<1>7. OthersFit(p)
  BY <1>6 DEF OthersFit
<1>8. [Idle EXCEPT !.interval = i] \in Request /\ [Idle EXCEPT !.interval = i].interval = i
  BY DEF Idle, Request
<1>9. "open" \in Pcs
  BY DEF Pcs
<1>10. PaymentInv'
  BY <1>1, <1>2, <1>5, <1>7, <1>8, <1>9, PaymentStep
<1>11. QED
  BY <1>2, <1>4, <1>6, <1>10

LEMMA OpenCheckoutKeeps ==
  ASSUME PaymentInv, NEW p \in Proc, OpenCheckout(p)
  PROVE  /\ PaymentInv' /\ UNCHANGED <<now, sub, told, granted, bought, lost, fails>>
         /\ \E x \in Payment : /\ payment[x].status = "none"
                               /\ payment'[x].status = "PENDING"
                               /\ \A y \in Payment \ {x} : payment'[y] = payment[y]
<1>1. PICK x \in Payment :
        /\ req[p].pc = "open"
        /\ payment[x].status = "none"
        /\ payment' = [payment EXCEPT ![x] = [status |-> "PENDING", created |-> now,
                                              interval |-> req[p].interval]]
        /\ Goto(p, req[p], "idle")
        /\ UNCHANGED <<now, sub, told, granted, bought, lost, fails>>
  BY DEF OpenCheckout
<1>2. req[p] \in Request /\ req[p].interval \in Interval /\ now \in Nat
      /\ payment \in [Payment -> PaymentRow] /\ "idle" \in Pcs
  BY <1>1, Known DEF BillingTypeOK, Pcs
<1> DEFINE z == [status |-> "PENDING", created |-> now, interval |-> req[p].interval]
<1>3. z \in PaymentRow /\ z.status = "PENDING"
  BY <1>2, RowKinds
<1> HIDE DEF z
<1>4. /\ payment' \in [Payment -> PaymentRow] /\ payment'[x] = z
      /\ \A y \in Payment \ {x} : payment'[y] = payment[y]
  BY <1>1, <1>2, <1>3 DEF z
<1>5. NoneSucceeds
  BY <1>1, <1>3, <1>4 DEF NoneSucceeds
<1>6. OthersFit(p)
  BY <1>1, <1>4, Known DEF OthersFit, Paying
<1>7. PaymentInv'
  BY <1>1, <1>2, <1>4, <1>5, <1>6, PaymentStep
<1>8. QED
  BY <1>1, <1>3, <1>4, <1>7

LEMMA CloseKeeps ==
  ASSUME PaymentInv, NEW p \in Proc, ExpireCheckout(p) \/ RefusePayment(p)
  PROVE  /\ PaymentInv' /\ UNCHANGED <<now, sub, told, granted, bought, lost, fails>>
         /\ \A y \in Payment : /\ payment'[y].status = "PENDING" => payment[y].status = "PENDING"
                               /\ payment[y].status # "PENDING" => payment'[y] = payment[y]
                               /\ payment'[y].interval = payment[y].interval
         /\ Goto(p, req[p], "idle")
<1>1. PICK s \in Settled \ {"SUCCEEDED"} : Close(req[p].payment, s)
  BY DEF ExpireCheckout, RefusePayment, Settled
<1>2. /\ Goto(p, req[p], "idle") /\ UNCHANGED <<now, sub, told, granted, bought, lost, fails>>
      /\ req[p].pc \in {"expire", "refuse"}
  BY DEF ExpireCheckout, RefusePayment
<1>3. req[p] \in Request /\ req[p].payment \in Payment /\ "idle" \in Pcs
  BY <1>2, Known DEF Pcs
<1>4. /\ payment' \in [Payment -> PaymentRow] /\ NoneSucceeds /\ OthersFit(p)
      /\ \A y \in Payment : /\ payment'[y].status = "PENDING" => payment[y].status = "PENDING"
                            /\ payment[y].status # "PENDING" => payment'[y] = payment[y]
                            /\ payment'[y].interval = payment[y].interval
  BY <1>1, <1>3, Closes
<1>5. PaymentInv'
  BY <1>2, <1>3, <1>4, PaymentStep
<1>6. QED
  BY <1>2, <1>4, <1>5

-----------------------------------------------------------------------------
(* The other steps *)

LEMMA LoadPaymentKeeps ==
  ASSUME PaymentInv, NEW p \in Proc, LoadPayment(p) PROVE PaymentInv'
<1>1. PICK x \in Payment, o \in Outcome, pc \in {"expire", "claim", "refuse"} :
        Goto(p, [Idle EXCEPT !.payment = x, !.outcome = o], pc)
  BY DEF LoadPayment
<1> DEFINE r == [Idle EXCEPT !.payment = x, !.outcome = o]
<1>2. r \in Request /\ r.payment = x
  BY DEF Idle, Request
<1>3. UNCHANGED <<now, payment, sub, told, granted, bought, lost, fails>>
  BY DEF LoadPayment
<1>4. sub' \in Subscription /\ told' \subseteq Payment /\ fails' \in Nat /\ pc \in Pcs
  BY <1>3 DEF PaymentInv, BillingTypeOK, Pcs
<1> HIDE DEF r
<1>5. Goto(p, r, pc)
  BY <1>1 DEF r
<1>6. QED
  BY <1>1, <1>2, <1>3, <1>4, <1>5, NoPaymentStep DEF InTransaction

LEMMA ClaimPaymentKeeps ==
  ASSUME PaymentInv, NEW p \in Proc, ClaimPayment(p) PROVE PaymentInv'
<1> DEFINE x == req[p].payment
           pc == IF payment[x].status = "PENDING" THEN "extend" ELSE "idle"
<1>1. /\ req[p].pc = "claim" /\ ~Locked(x) /\ Goto(p, req[p], pc)
      /\ UNCHANGED <<now, payment, sub, told, granted, bought, lost, fails>>
  BY DEF ClaimPayment
<1>2. req[p] \in Request /\ x \in Payment /\ pc \in Pcs
  BY <1>1, Known DEF Pcs
<1>3. sub' \in Subscription /\ told' \subseteq Payment /\ fails' \in Nat
  BY <1>1 DEF PaymentInv, BillingTypeOK
<1>4. \A q \in Proc : Paying(q) => req[q].payment # x
  BY <1>1, Unlocked
<1>5. QED
  BY <1>1, <1>2, <1>3, <1>4, NoPaymentStep DEF InTransaction

LEMMA ReadSubKeeps ==
  ASSUME PaymentInv, NEW p \in Proc, ReadSub(p)
  PROVE  /\ PaymentInv'
         /\ ExtendedEnd(sub, payment[req[p].payment].interval, now) \in Nat
<1> DEFINE o == req[p]
           end == ExtendedEnd(sub, payment[o.payment].interval, now)
           r == [o EXCEPT !.current = sub.exists, !.seen = bought, !.endDate = end]
<1>1. /\ o.pc = "extend" /\ Goto(p, r, "commit")
      /\ UNCHANGED <<now, payment, sub, told, granted, bought, lost, fails>>
  BY DEF ReadSub
<1>2. /\ o \in Request /\ o.payment \in Payment /\ payment[o.payment].status = "PENDING"
      /\ \A q \in Proc \ {p} : Paying(q) => req[q].payment # o.payment
      /\ BillingTypeOK
  BY <1>1, Known DEF Paying
<1>3. payment[o.payment].interval \in Interval
  BY <1>2, RowParts DEF BillingTypeOK
<1>4. end \in Nat /\ sub.exists \in BOOLEAN /\ bought \in Nat
  <2>1. PERIOD_DAYS[payment[o.payment].interval] \in Nat
    BY <1>3, BillingAssumption
  <2>2. sub.endDate \in Nat /\ now \in Nat /\ sub.exists \in BOOLEAN /\ bought \in Nat
    BY <1>2 DEF BillingTypeOK, Subscription
  <2>3. QED
    BY <2>1, <2>2 DEF ExtendedEnd
<1> HIDE DEF end
<1>5. r \in Request /\ r.payment = o.payment
  BY <1>2, <1>4 DEF Request
<1>6. sub' \in Subscription /\ told' \subseteq Payment /\ fails' \in Nat /\ "commit" \in Pcs
  BY <1>1, <1>2 DEF BillingTypeOK, Pcs
<1>7. PaymentInv'
  <2> HIDE DEF o, r
  <2>1. QED
    BY <1>1, <1>2, <1>5, <1>6, NoPaymentStep DEF InTransaction
<1>8. QED
  BY <1>4, <1>7 DEF end

LEMMA CommitAccessKeeps ==
  ASSUME PaymentInv, NEW p \in Proc, CommitAccess(p)
  PROVE  /\ PaymentInv'
         /\ \A y \in Payment :
              /\ payment'[y].status = "PENDING" => payment[y].status = "PENDING"
              /\ payment[y].status # "PENDING" => payment'[y] = payment[y]
              /\ payment'[y].interval = payment[y].interval
<1> DEFINE r == req[p]
           x == r.payment
<1>1. /\ r.pc = "commit" /\ r \in Request /\ x \in Payment /\ payment[x].status = "PENDING"
      /\ \A q \in Proc \ {p} : Paying(q) => req[q].payment # x
      /\ BillingTypeOK /\ PaidIsGranted
  BY Known DEF CommitAccess, Paying
<1>2. UNCHANGED <<now, told, fails>>
  BY DEF CommitAccess
<1>3. CASE r.current = sub.exists
  <2> DEFINE z == [payment[x] EXCEPT !.status = "SUCCEEDED"]
             days == PERIOD_DAYS[payment[x].interval]
  <2>1. /\ payment' = [payment EXCEPT ![x].status = "SUCCEEDED"]
        /\ sub' = [exists |-> TRUE, status |-> "ACTIVE", endDate |-> r.endDate]
        /\ granted' = [granted EXCEPT ![x] = @ + 1]
        /\ bought' = bought + days /\ lost' = lost + (bought - r.seen)
        /\ Goto(p, r, "notify")
    BY <1>3 DEF CommitAccess
  <2>2. payment \in [Payment -> PaymentRow] /\ "SUCCEEDED" \in Settled
    BY <1>1 DEF BillingTypeOK, Settled
  <2>3. /\ z \in PaymentRow /\ z.status = "SUCCEEDED" /\ z.interval = payment[x].interval
        /\ payment[x].interval \in Interval
    BY <1>1, <2>2, RowParts
  <2>4. payment' = [payment EXCEPT ![x] = z]
    BY <2>1, <2>2
  <2> HIDE DEF z, x
  <2>5. /\ payment' \in [Payment -> PaymentRow] /\ payment'[x] = z
        /\ \A y \in Payment \ {x} : payment'[y] = payment[y]
    BY <1>1, <2>2, <2>3, <2>4
  <2>6. RowsTyped
    <3>1. days \in Nat
      BY <2>3, BillingAssumption
    <3>2. sub' \in Subscription
      BY <1>1, <2>1 DEF Subscription, Request
    <3>3. bought' \in Nat /\ lost' \in Int /\ granted' \in [Payment -> Nat]
      <4>1. r.seen \in Nat
        BY <1>1 DEF Request
      <4>2. QED
        BY <1>1, <2>1, <3>1, <4>1 DEF BillingTypeOK
    <3>4. QED
      BY <1>1, <1>2, <2>5, <3>2, <3>3 DEF RowsTyped, BillingTypeOK
  <2>7. PaidIsGranted'
    <3>1. ASSUME NEW y \in Payment
          PROVE  granted'[y] = IF payment'[y].status = "SUCCEEDED" THEN 1 ELSE 0
      <4>1. CASE y = x
        BY <1>1, <2>1, <2>3, <2>5, <4>1 DEF PaidIsGranted, BillingTypeOK
      <4>2. CASE y # x
        BY <1>1, <2>1, <2>5, <4>2 DEF PaidIsGranted, BillingTypeOK
      <4>3. QED
        BY <4>1, <4>2
    <3>2. QED
      BY <3>1 DEF PaidIsGranted
  <2>8. OthersFit(p)
    BY <1>1, <2>5, Known DEF OthersFit, Paying
  <2>9. PICK new \in Request :
           /\ req' = [req EXCEPT ![p] = new]
           /\ new.pc = "notify" /\ new.payment = r.payment
    <3>1. "notify" \in Pcs
      BY DEF Pcs
    <3>2. QED
      BY <1>1, <2>1, <3>1, GotoNew
  <2>10. NewFits(p, new)
    BY <1>1, <2>9 DEF NewFits, InTransaction, x
  <2>11. PaymentInv'
    BY <2>6, <2>7, <2>8, <2>9, <2>10, Moves
  <2>12. QED
    BY <1>1, <2>3, <2>5, <2>11
<1>4. CASE r.current # sub.exists
  <2>1. Goto(p, r, "idle") /\ UNCHANGED <<payment, sub, granted, bought, lost>>
    BY <1>4 DEF CommitAccess
  <2>2. sub' \in Subscription /\ told' \subseteq Payment /\ fails' \in Nat /\ "idle" \in Pcs
    BY <1>1, <1>2, <2>1 DEF BillingTypeOK, Pcs
  <2>3. PaymentInv'
    <3> HIDE DEF r
    <3>1. QED
      BY <1>1, <1>2, <2>1, <2>2, NoPaymentStep DEF InTransaction
  <2>4. QED
    BY <2>1, <2>3
<1>5. QED
  BY <1>3, <1>4

\* The steps that leave the payments alone and end, or begin, a request.
LEMMA OtherStepKeeps ==
  ASSUME PaymentInv, NEW p \in Proc,
         Notify(p) \/ ReadPlan(p) \/ WriteStatus(p) \/ BillingFail(p)
  PROVE  /\ PaymentInv' /\ UNCHANGED <<now, payment, granted, bought, lost>>
         /\ sub'.endDate = sub.endDate /\ (sub'.exists <=> sub.exists)
         /\ \E r \in Request, pc \in {"idle", "stop", "resume"} : Goto(p, r, pc)
<1>1. BillingTypeOK /\ req[p] \in Request /\ Idle \in Request
  BY Known, IdleTyped
<1>2. PICK r \in Request, pc \in {"idle", "stop", "resume"} : Goto(p, r, pc)
  BY <1>1 DEF Notify, ReadPlan, WriteStatus, BillingFail
<1>3. UNCHANGED <<now, payment, granted, bought, lost>>
  BY DEF Notify, ReadPlan, WriteStatus, BillingFail
<1>4. sub' \in Subscription /\ sub'.endDate = sub.endDate /\ (sub'.exists <=> sub.exists)
  BY <1>1 DEF Notify, ReadPlan, WriteStatus, BillingFail, BillingTypeOK, Subscription
<1>5. told' \subseteq Payment
  <2>1. CASE Notify(p)
    BY <1>1, <2>1, Known DEF Notify, BillingTypeOK
  <2>2. CASE ~Notify(p)
    BY <1>1, <2>2 DEF ReadPlan, WriteStatus, BillingFail, BillingTypeOK
  <2>3. QED
    BY <2>1, <2>2
<1>6. fails' \in Nat /\ pc \in Pcs
  BY <1>1 DEF Notify, ReadPlan, WriteStatus, BillingFail, BillingTypeOK, Pcs
<1>7. PaymentInv'
  BY <1>2, <1>3, <1>4, <1>5, <1>6, NoPaymentStep DEF InTransaction
<1>8. QED
  BY <1>2, <1>3, <1>4, <1>7

-----------------------------------------------------------------------------
(* Access is given once for each payment that succeeded *)

LEMMA BillingStepKeeps ==
  ASSUME PaymentInv, NEW p \in Proc, BillingStep(p) PROVE PaymentInv'
BY CancelPendingKeeps, OpenCheckoutKeeps, CloseKeeps, LoadPaymentKeeps, ClaimPaymentKeeps,
   ReadSubKeeps, CommitAccessKeeps, OtherStepKeeps DEF BillingStep

LEMMA PaymentInit == Init => PaymentInv
<1> SUFFICES ASSUME Init PROVE PaymentInv
  OBVIOUS
<1>1. /\ now = 0 /\ payment = [x \in Payment |-> NoCheckout]
      /\ sub \in {NoSub, [NoSub EXCEPT !.exists = TRUE]}
      /\ req = [p \in Proc |-> Idle] /\ told = {} /\ granted = [x \in Payment |-> 0]
      /\ bought = 0 /\ lost = 0 /\ fails = 0
  BY DEF Init, BillingInit
<1>2. BillingTypeOK
  <2>1. sub \in Subscription
    <3>1. NoSub \in Subscription /\ [NoSub EXCEPT !.exists = TRUE] \in Subscription
      BY DEF Subscription, NoSub
    <3>2. QED
      BY <1>1, <3>1
  <2>2. payment \in [Payment -> PaymentRow]
    BY <1>1 DEF PaymentRow
  <2>3. QED
    BY <1>1, <2>1, <2>2, IdleTyped DEF BillingTypeOK
<1>3. PaidIsGranted
  BY <1>1 DEF PaidIsGranted, NoCheckout
<1>4. TransactionsAlone
  BY <1>1 DEF TransactionsAlone, Paying, Idle
<1>5. QED
  BY <1>2, <1>3, <1>4 DEF PaymentInv

\* Steps of the clock and of conversations.
LEMMA ElsewhereKeeps ==
  ASSUME PaymentInv,
         UNCHANGED <<payment, sub, req, told, granted, bought, lost, fails>>, now' \in Nat
  PROVE  PaymentInv'
<1>1. BillingTypeOK' /\ PaidIsGranted'
  BY DEF PaymentInv, BillingTypeOK, PaidIsGranted
<1>2. TransactionsAlone'
  BY DEF PaymentInv, TransactionsAlone, Paying
<1>3. QED
  BY <1>1, <1>2 DEF PaymentInv

LEMMA Elsewhere ==
  ASSUME PaymentInv, [Next]_vars, \A p \in Proc : ~BillingStep(p)
  PROVE  /\ UNCHANGED <<payment, sub, req, told, granted, bought, lost, fails>>
         /\ now' \in Nat /\ now <= now'
<1>1. now \in Nat
  BY DEF PaymentInv, BillingTypeOK
<1>2. CASE UNCHANGED vars
  BY <1>1, <1>2 DEF vars, billingVars
<1>3. CASE Tick
  BY <1>1, <1>3 DEF Tick
<1>4. ASSUME NEW t \in Talker, TalkStep(t)
      PROVE  UNCHANGED <<now, payment, sub, req, told, granted, bought, lost, fails>>
  BY <1>4 DEF TalkStep, AskTurn, CountTurns, Answer, ReadChat, WriteRecap, billingVars
<1>5. CASE Next
  BY <1>1, <1>3, <1>4, <1>5 DEF Next
<1>6. QED
  BY <1>2, <1>5

LEMMA PaymentNext == PaymentInv /\ [Next]_vars => PaymentInv'
<1> SUFFICES ASSUME PaymentInv, [Next]_vars PROVE PaymentInv'
  OBVIOUS
<1>1. CASE \E p \in Proc : BillingStep(p)
  BY <1>1, BillingStepKeeps
<1>2. CASE \A p \in Proc : ~BillingStep(p)
  BY <1>2, Elsewhere, ElsewhereKeeps
<1>3. QED
  BY <1>1, <1>2

\* A payment's row belongs to its transaction, in every reachable state.
THEOREM PaymentInvariance == Spec => []PaymentInv
<1>1. Init => PaymentInv
  BY PaymentInit
<1>2. PaymentInv /\ [Next]_vars => PaymentInv'
  BY PaymentNext
<1>3. QED
  BY <1>1, <1>2, PTL DEF Spec

\* Access is given exactly once for each payment that succeeded, and for no
\* other (billing.service.ts:200-230), whatever buttons are pressed at once.
THEOREM PaymentsAreGranted == Spec => []PaidIsGranted
<1>1. PaymentInv => PaidIsGranted
  BY DEF PaymentInv
<1>2. QED
  BY <1>1, PaymentInvariance, PTL

LEMMA SettledStays ==
  ASSUME PaymentInv, [Next]_vars, NEW x \in Payment, payment[x].status \in Settled
  PROVE  payment'[x] = payment[x]
<1>1. payment[x].status # "PENDING" /\ payment[x].status # "none"
  BY DEF Settled
<1>2. ASSUME NEW p \in Proc, BillingStep(p) PROVE payment'[x] = payment[x]
  <2>1. CASE CancelPending(p)
    BY <1>1, <2>1, CancelPendingKeeps
  <2>2. CASE OpenCheckout(p)
    BY <1>1, <2>2, OpenCheckoutKeeps
  <2>3. CASE ExpireCheckout(p) \/ RefusePayment(p)
    BY <1>1, <2>3, CloseKeeps
  <2>4. CASE CommitAccess(p)
    BY <1>1, <2>4, CommitAccessKeeps
  <2>5. CASE LoadPayment(p) \/ ClaimPayment(p) \/ ReadSub(p)
    BY <2>5 DEF LoadPayment, ClaimPayment, ReadSub
  <2>6. CASE Notify(p) \/ ReadPlan(p) \/ WriteStatus(p) \/ BillingFail(p)
    BY <2>6, OtherStepKeeps
  <2>7. QED
    BY <1>2, <2>1, <2>2, <2>3, <2>4, <2>5, <2>6 DEF BillingStep
<1>3. CASE \A p \in Proc : ~BillingStep(p)
  BY <1>3, Elsewhere
<1>4. QED
  BY <1>2, <1>3

\* A settled payment stays as it was settled (billing.service.ts:133-143,
\* :204-208).
THEOREM SettlementsAreFinal == Spec => SettledIsFinal
<1>1. PaymentInv /\ [Next]_vars =>
        [\A x \in Payment : payment[x].status \in Settled
                              => payment'[x] = payment[x]]_billingVars
  BY SettledStays
<1>2. QED
  BY <1>1, PaymentInvariance, PTL DEF Spec, SettledIsFinal

-----------------------------------------------------------------------------
(* No day bought is missing, but what was bought meanwhile *)

\* Handler p becomes one with control state pc, the others stay.
Turn(p, pc) == /\ req'[p].pc = pc
               /\ \A q \in Proc \ {p} : req'[q] = req[q]

LEMMA GotoTurns ==
  ASSUME PaymentInv, NEW p \in Proc, NEW r \in Request, NEW pc \in Pcs, Goto(p, r, pc)
  PROVE  Turn(p, pc)
<1>1. PICK new \in Request : req' = [req EXCEPT ![p] = new] /\ new.pc = pc
  BY GotoNew
<1>2. req \in [Proc -> Request]
  BY DEF PaymentInv, BillingTypeOK
<1>3. QED
  BY <1>1, <1>2 DEF Turn

\* What keeps it: nothing more bought, no new transaction.
LEMMA CalmStep ==
  ASSUME TimeInv, NEW p \in Proc, NEW pc \in Pcs \ {"commit"}, Turn(p, pc),
         UNCHANGED <<bought, lost>>, sub'.endDate = sub.endDate, sub'.exists <=> sub.exists,
         \A y \in Payment : payment[y].status = "PENDING"
                              => payment'[y].interval = payment[y].interval
  PROVE  EndCovers'
<1>1. \A q \in Proc : req'[q].pc = "commit" => req'[q] = req[q]
  BY DEF Turn
<1>2. \A q \in Proc : req[q].pc = "commit" =>
        req[q].payment \in Payment /\ payment[req[q].payment].status = "PENDING"
  BY DEF TimeInv, PaymentInv, TransactionsAlone, Paying
<1>3. QED
  BY <1>1, <1>2 DEF TimeInv, EndCovers, PaidTimeGiven

LEMMA CancelPendingCalm ==
  ASSUME TimeInv, NEW p \in Proc, CancelPending(p) PROVE EndCovers'
<1>1. /\ PaymentInv /\ UNCHANGED <<now, sub, bought, lost>> /\ \A q \in Proc : ~Paying(q)
  BY CancelPendingKeeps DEF TimeInv
<1>2. PICK i \in Interval : Goto(p, [Idle EXCEPT !.interval = i], "open")
  BY DEF CancelPending
<1>3. [Idle EXCEPT !.interval = i] \in Request /\ "open" \in Pcs
  BY DEF Idle, Request, Pcs
<1>4. Turn(p, "open")
  BY <1>1, <1>2, <1>3, GotoTurns
<1>5. \A q \in Proc : req'[q].pc # "commit"
  BY <1>1, <1>4 DEF Turn, Paying
<1>6. QED
  BY <1>1, <1>5 DEF TimeInv, EndCovers, PaidTimeGiven

LEMMA OpenCheckoutCalm ==
  ASSUME TimeInv, NEW p \in Proc, OpenCheckout(p) PROVE EndCovers'
<1>1. PaymentInv /\ UNCHANGED <<now, sub, told, granted, bought, lost, fails>>
  BY OpenCheckoutKeeps DEF TimeInv
<1>2. PICK x \in Payment : /\ payment[x].status = "none"
                           /\ \A y \in Payment \ {x} : payment'[y] = payment[y]
  BY <1>1, OpenCheckoutKeeps
<1>3. Goto(p, req[p], "idle") /\ req[p] \in Request /\ "idle" \in Pcs \ {"commit"}
  BY <1>1, Known DEF OpenCheckout, Pcs
<1>4. Turn(p, "idle")
  BY <1>1, <1>3, GotoTurns
<1>5. QED
  BY <1>1, <1>2, <1>3, <1>4, CalmStep

LEMMA LoadClaimCalm ==
  ASSUME TimeInv, NEW p \in Proc, LoadPayment(p) \/ ClaimPayment(p) PROVE EndCovers'
<1>1. PaymentInv /\ req[p] \in Request
  BY Known DEF TimeInv
<1>2. UNCHANGED <<payment, sub, bought, lost>>
  BY DEF LoadPayment, ClaimPayment
<1>3. \E r \in Request, pc \in {"idle", "expire", "refuse", "claim", "extend"} : Goto(p, r, pc)
  <2>1. CASE LoadPayment(p)
    <3>1. PICK x \in Payment, o \in Outcome, pc \in {"expire", "claim", "refuse"} :
            Goto(p, [Idle EXCEPT !.payment = x, !.outcome = o], pc)
      BY <2>1 DEF LoadPayment
    <3>2. [Idle EXCEPT !.payment = x, !.outcome = o] \in Request
      BY DEF Idle, Request
    <3>3. QED
      BY <3>1, <3>2
  <2>2. CASE ClaimPayment(p)
    BY <1>1, <2>2 DEF ClaimPayment
  <2>3. QED
    BY <2>1, <2>2
<1>4. PICK pc \in {"idle", "expire", "refuse", "claim", "extend"} : Turn(p, pc)
  BY <1>1, <1>3, GotoTurns DEF Pcs
<1>5. pc \in Pcs \ {"commit"}
  BY DEF Pcs
<1>6. QED
  BY <1>2, <1>4, <1>5, CalmStep

LEMMA CloseCalm ==
  ASSUME TimeInv, NEW p \in Proc, ExpireCheckout(p) \/ RefusePayment(p) PROVE EndCovers'
<1>1. PaymentInv /\ req[p] \in Request /\ "idle" \in Pcs \ {"commit"}
  BY Known DEF TimeInv, Pcs
<1>2. /\ UNCHANGED <<sub, bought, lost>> /\ Goto(p, req[p], "idle")
      /\ \A y \in Payment : payment'[y].interval = payment[y].interval
  BY <1>1, CloseKeeps
<1>3. Turn(p, "idle")
  BY <1>1, <1>2, GotoTurns
<1>4. QED
  BY <1>1, <1>2, <1>3, CalmStep

LEMMA OtherStepCalm ==
  ASSUME TimeInv, NEW p \in Proc,
         Notify(p) \/ ReadPlan(p) \/ WriteStatus(p) \/ BillingFail(p)
  PROVE  EndCovers'
<1>1. PaymentInv
  BY DEF TimeInv
<1>2. /\ UNCHANGED <<now, payment, granted, bought, lost>>
      /\ sub'.endDate = sub.endDate /\ (sub'.exists <=> sub.exists)
  BY <1>1, OtherStepKeeps
<1>3. PICK r \in Request, pc \in {"idle", "stop", "resume"} : Goto(p, r, pc)
  BY <1>1, OtherStepKeeps
<1>4. pc \in Pcs \ {"commit"}
  BY DEF Pcs
<1>5. Turn(p, pc)
  BY <1>1, <1>3, <1>4, GotoTurns
<1>6. QED
  BY <1>2, <1>4, <1>5, CalmStep

\* What is read of the subscription ends late enough for what is paid: one
\* period after what the subscription gave so far.
LEMMA ReadSubCalm ==
  ASSUME TimeInv, NEW p \in Proc, ReadSub(p) PROVE EndCovers'
<1> DEFINE o == req[p]
           i == payment[o.payment].interval
           end == ExtendedEnd(sub, i, now)
           r == [o EXCEPT !.current = sub.exists, !.seen = bought, !.endDate = end]
<1>1. /\ o.pc = "extend" /\ Goto(p, r, "commit")
      /\ UNCHANGED <<now, payment, sub, told, granted, bought, lost, fails>>
  BY DEF ReadSub
<1>2. /\ PaymentInv /\ BillingTypeOK /\ o \in Request /\ o.payment \in Payment
      /\ payment[o.payment].status = "PENDING"
  BY <1>1, Known DEF TimeInv, Paying
<1>3. i \in Interval
  BY <1>2, RowParts DEF BillingTypeOK
<1>4. end \in Nat
  <2>1. ExtendedEnd(sub, payment[req[p].payment].interval, now) \in Nat
    BY <1>2, ReadSubKeeps
  <2>2. QED
    BY <2>1
<1>5. r \in Request /\ r.endDate = end /\ r.payment = o.payment /\ r.seen = bought
  <2>1. sub.exists \in BOOLEAN /\ bought \in Nat
    BY <1>2 DEF BillingTypeOK, Subscription
  <2> HIDE DEF end
  <2>2. QED
    BY <1>2, <1>4, <2>1 DEF Request
<1>6. PICK new \in Request : /\ req' = [req EXCEPT ![p] = new] /\ new.pc = "commit"
                             /\ new.payment = o.payment /\ new.endDate = end
                             /\ new.seen = bought
  <2> HIDE DEF r
  <2>1. QED
    BY <1>1, <1>5, GotoNew DEF Pcs
<1>7. \A q \in Proc : req'[q] = IF q = p THEN new ELSE req[q]
  BY <1>2, <1>6 DEF BillingTypeOK
<1>8. bought \in Nat /\ end + lost >= bought + PERIOD_DAYS[i]
  <2>1. /\ now \in Nat /\ bought \in Nat /\ lost \in Int /\ sub.endDate \in Nat
        /\ PERIOD_DAYS[i] \in Nat /\ sub.exists \in BOOLEAN
    BY <1>2, <1>3, BillingAssumption DEF BillingTypeOK, Subscription
  <2>2. sub.endDate + lost >= bought /\ (~sub.exists => sub.endDate = 0)
    BY DEF TimeInv, EndCovers, PaidTimeGiven
  <2>3. CASE Pro(sub, now)
    BY <2>1, <2>2, <2>3 DEF ExtendedEnd
  <2>4. CASE ~Pro(sub, now)
    <3>1. now >= sub.endDate
      BY <2>1, <2>2, <2>4 DEF Pro
    <3>2. QED
      BY <2>1, <2>2, <2>4, <3>1 DEF ExtendedEnd
  <2>5. QED
    BY <2>1, <2>3, <2>4
<1>9. QED
  <2> HIDE DEF end
  <2>1. ASSUME NEW q \in Proc, req'[q].pc = "commit"
        PROVE  /\ req'[q].seen <= bought'
               /\ req'[q].endDate + lost'
                    >= req'[q].seen + PERIOD_DAYS[payment'[req'[q].payment].interval]
    <3>1. CASE q = p
      BY <1>1, <1>6, <1>7, <1>8, <3>1
    <3>2. CASE q # p
      BY <1>1, <1>7, <2>1, <3>2 DEF TimeInv, EndCovers
    <3>3. QED
      BY <3>1, <3>2
  <2>2. QED
    BY <1>1, <2>1 DEF TimeInv, EndCovers, PaidTimeGiven

\* Another transaction that is open now loses what this one bought: it has seen
\* less of it.
LEMMA CommitAccessCalm ==
  ASSUME TimeInv, NEW p \in Proc, CommitAccess(p) PROVE EndCovers'
<1> DEFINE o == req[p]
           x == o.payment
           days == PERIOD_DAYS[payment[x].interval]
<1>1. /\ PaymentInv /\ BillingTypeOK /\ o \in Request /\ o.pc = "commit"
      /\ x \in Payment /\ payment[x].status = "PENDING"
  BY Known DEF CommitAccess, TimeInv, Paying
<1>2. \A y \in Payment : payment'[y].interval = payment[y].interval
  BY <1>1, CommitAccessKeeps
<1>3. PICK pc \in {"idle", "notify"} : Goto(p, o, pc)
  BY DEF CommitAccess
<1>4. Turn(p, pc) /\ pc \in Pcs \ {"commit"}
  BY <1>1, <1>3, GotoTurns DEF Pcs
<1>5. CASE o.current = sub.exists
  <2>1. /\ sub' = [exists |-> TRUE, status |-> "ACTIVE", endDate |-> o.endDate]
        /\ bought' = bought + days /\ lost' = lost + (bought - o.seen)
    BY <1>5 DEF CommitAccess
  <2>2. /\ o.seen \in Nat /\ o.endDate \in Nat /\ bought \in Nat /\ lost \in Int
        /\ days \in Nat
    <3>1. payment[x].interval \in Interval
      BY <1>1, RowParts DEF BillingTypeOK
    <3>2. QED
      BY <1>1, <3>1, BillingAssumption DEF BillingTypeOK, Request
  <2>3. o.seen <= bought /\ o.endDate + lost >= o.seen + days
    BY <1>1 DEF TimeInv, EndCovers
  <2> HIDE DEF days
  <2>4. PaidTimeGiven' /\ sub'.exists /\ bought <= bought' /\ lost <= lost' /\ lost' \in Int
    BY <2>1, <2>2, <2>3 DEF PaidTimeGiven
  <2>5. ASSUME NEW q \in Proc, req'[q].pc = "commit"
        PROVE  /\ req'[q].seen <= bought'
               /\ req'[q].endDate + lost'
                    >= req'[q].seen + PERIOD_DAYS[payment'[req'[q].payment].interval]
    <3> DEFINE n == PERIOD_DAYS[payment[req[q].payment].interval]
    <3>1. req'[q] = req[q] /\ req[q].pc = "commit"
      BY <1>4, <2>5 DEF Turn
    <3>2. /\ req[q] \in Request /\ req[q].payment \in Payment
          /\ payment[req[q].payment].status = "PENDING"
      BY <1>1, <3>1, Known DEF Paying
    <3>3. n \in Nat
      <4>1. payment[req[q].payment].interval \in Interval
        BY <1>1, <3>2, RowParts DEF BillingTypeOK
      <4>2. QED
        BY <4>1, BillingAssumption
    <3>4. req[q].seen \in Nat /\ req[q].endDate \in Nat /\ bought' \in Nat
      BY <2>1, <2>2, <3>2 DEF Request
    <3>5. req[q].seen <= bought /\ req[q].endDate + lost >= req[q].seen + n
      BY <3>1 DEF TimeInv, EndCovers
    <3>6. PERIOD_DAYS[payment'[req'[q].payment].interval] = n
      BY <1>2, <3>1, <3>2
    <3> HIDE DEF n
    <3>7. QED
      BY <2>2, <2>4, <3>1, <3>3, <3>4, <3>5, <3>6
  <2>6. QED
    BY <2>4, <2>5 DEF EndCovers
<1>6. CASE o.current # sub.exists
  <2>1. UNCHANGED <<sub, bought, lost>>
    BY <1>6 DEF CommitAccess
  <2>2. QED
    BY <1>2, <1>4, <2>1, CalmStep
<1>7. QED
  BY <1>5, <1>6

LEMMA TimeNext == TimeInv /\ [Next]_vars => TimeInv'
<1> SUFFICES ASSUME TimeInv, [Next]_vars PROVE TimeInv'
  OBVIOUS
<1>1. PaymentInv'
  BY PaymentNext DEF TimeInv
<1>2. EndCovers'
  <2>1. CASE \E p \in Proc : BillingStep(p)
    BY <2>1, CancelPendingCalm, OpenCheckoutCalm, LoadClaimCalm, CloseCalm, ReadSubCalm,
       CommitAccessCalm, OtherStepCalm DEF BillingStep
  <2>2. CASE \A p \in Proc : ~BillingStep(p)
    <3>1. UNCHANGED <<payment, sub, req, bought, lost>>
      BY <2>2, Elsewhere DEF TimeInv
    <3>2. QED
      BY <3>1 DEF TimeInv, EndCovers, PaidTimeGiven
  <2>3. QED
    BY <2>1, <2>2
<1>3. QED
  BY <1>1, <1>2 DEF TimeInv

LEMMA TimeInit == Init => TimeInv
<1> SUFFICES ASSUME Init PROVE TimeInv
  OBVIOUS
<1>1. PaymentInv
  BY PaymentInit
<1>2. /\ sub \in {NoSub, [NoSub EXCEPT !.exists = TRUE]} /\ bought = 0 /\ lost = 0
      /\ \A p \in Proc : req[p].pc = "idle"
  BY DEF Init, BillingInit, Idle
<1>3. sub.endDate = 0
  BY <1>2 DEF NoSub
<1>4. QED
  BY <1>1, <1>2, <1>3 DEF TimeInv, EndCovers, PaidTimeGiven

\* Of the days bought none is missing, whether paid early or late, in one tab or
\* many, with failures and roll-backs in between, except those that were bought
\* while a transaction was open that had read the subscription before
\* (plans.ts:54-60, billing.service.ts:210-222).
THEOREM PaidTimeIsGiven == Spec => []PaidTimeGiven
<1>1. TimeInv => PaidTimeGiven
  BY DEF TimeInv, EndCovers
<1>2. QED
  BY TimeInit, TimeNext, <1>1, PTL DEF Spec

-----------------------------------------------------------------------------
(* With checkouts from any number of tabs *)

\* Every other step opens no checkout and makes nothing payable.
LEMMA NothingOpened ==
  ASSUME PaymentInv, NEW p \in Proc, BillingStep(p), ~CancelPending(p), ~OpenCheckout(p)
  PROVE  /\ \A y \in Payment : payment'[y].status = "PENDING" => payment[y].status = "PENDING"
         /\ \E pc \in Pcs \ {"open"} : Turn(p, pc)
<1>1. req[p] \in Request /\ Pcs \ {"open"} = {"idle", "load", "expire", "refuse", "claim",
                                               "extend", "commit", "notify", "stop", "resume"}
  BY Known DEF Pcs
<1>2. CASE LoadPayment(p)
  <2>1. PICK x \in Payment, o \in Outcome, pc \in {"expire", "claim", "refuse"} :
          Goto(p, [Idle EXCEPT !.payment = x, !.outcome = o], pc)
    BY <1>2 DEF LoadPayment
  <2>2. [Idle EXCEPT !.payment = x, !.outcome = o] \in Request
    BY DEF Idle, Request
  <2>3. Turn(p, pc)
    BY <1>1, <2>1, <2>2, GotoTurns
  <2>4. QED
    BY <1>1, <1>2, <2>3 DEF LoadPayment
<1>3. CASE ClaimPayment(p)
  <2>1. PICK pc \in {"extend", "idle"} : Goto(p, req[p], pc)
    BY <1>3 DEF ClaimPayment
  <2>2. QED
    BY <1>1, <1>3, <2>1, GotoTurns DEF ClaimPayment
<1>4. CASE ExpireCheckout(p) \/ RefusePayment(p)
  BY <1>1, <1>4, CloseKeeps, GotoTurns
<1>5. CASE ReadSub(p)
  <2> DEFINE end == ExtendedEnd(sub, payment[req[p].payment].interval, now)
             r == [req[p] EXCEPT !.current = sub.exists, !.seen = bought, !.endDate = end]
  <2>1. Goto(p, r, "commit") /\ UNCHANGED payment
    BY <1>5 DEF ReadSub
  <2>2. end \in Nat /\ sub.exists \in BOOLEAN /\ bought \in Nat
    BY <1>5, ReadSubKeeps DEF PaymentInv, BillingTypeOK, Subscription
  <2>3. r \in Request
    <3> HIDE DEF end
    <3>1. QED
      BY <1>1, <2>2 DEF Request
  <2>4. Turn(p, "commit")
    <3> HIDE DEF r
    <3>1. QED
      BY <1>1, <2>1, <2>3, GotoTurns
  <2>5. QED
    BY <1>1, <2>1, <2>4
<1>6. CASE CommitAccess(p)
  <2>1. PICK pc \in {"idle", "notify"} : Goto(p, req[p], pc)
    BY <1>6 DEF CommitAccess
  <2>2. QED
    BY <1>1, <1>6, <2>1, GotoTurns, CommitAccessKeeps
<1>7. CASE Notify(p) \/ ReadPlan(p) \/ WriteStatus(p) \/ BillingFail(p)
  <2>1. UNCHANGED payment /\ \E r \in Request, pc \in {"idle", "stop", "resume"} : Goto(p, r, pc)
    BY <1>7, OtherStepKeeps
  <2>2. QED
    BY <1>1, <2>1, GotoTurns
<1>8. QED
  BY <1>2, <1>3, <1>4, <1>5, <1>6, <1>7 DEF BillingStep

\* The handlers that are opening a checkout are among those that may.
LEMMA OpeningFew ==
  ASSUME TransactionsAlone
  PROVE  /\ Opening \subseteq CheckoutProc /\ IsFiniteSet(Opening)
         /\ Cardinality(Opening) \in Nat /\ Cardinality(CheckoutProc) \in Nat
         /\ Cardinality(Opening) <= Cardinality(CheckoutProc)
<1>1. Opening \subseteq CheckoutProc
  BY DEF Opening, TransactionsAlone
<1>2. QED
  BY <1>1, FS_Subset, FS_CardinalityType, BillingAssumption

\* Fewer to pay and fewer being opened: the bound stays.
LEMMA FewerFit ==
  ASSUME TabsInv, PaymentInv',
         Payable' \subseteq Payable, Opening' \subseteq Opening
  PROVE  TabsInv'
<1>1. IsFiniteSet(Payable') /\ Cardinality(Payable') <= Cardinality(Payable)
  BY FS_Subset DEF TabsInv, OnePayablePerTab
<1>2. IsFiniteSet(Opening) /\ Cardinality(Opening) \in Nat
  BY OpeningFew DEF TabsInv, OnePayablePerTab, PaymentInv
<1>3. IsFiniteSet(Opening') /\ Cardinality(Opening') <= Cardinality(Opening)
  BY <1>2, FS_Subset
<1>4. /\ Cardinality(Payable) \in Nat /\ Cardinality(Payable') \in Nat
      /\ Cardinality(Opening') \in Nat /\ Cardinality(CheckoutProc) \in Nat
  BY <1>1, <1>3, FS_CardinalityType, BillingAssumption DEF TabsInv, OnePayablePerTab
<1>5. QED
  BY <1>1, <1>2, <1>3, <1>4 DEF TabsInv, OnePayablePerTab

\* A checkout that starts leaves nothing to pay, and takes one place of the tabs.
LEMMA CancelPendingFits ==
  ASSUME TabsInv, NEW p \in Proc, CancelPending(p)
  PROVE  TabsInv'
<1>1. PaymentInv' /\ Payable' = {}
  BY CancelPendingKeeps DEF TabsInv, OnePayablePerTab, Payable
<1>2. IsFiniteSet(Payable') /\ Cardinality(Payable') = 0
  BY <1>1, FS_EmptySet
<1>3. /\ Cardinality(Opening') \in Nat /\ Cardinality(CheckoutProc) \in Nat
      /\ Cardinality(Opening') <= Cardinality(CheckoutProc)
  <2>1. (Opening \subseteq CheckoutProc)'
    BY <1>1 DEF PaymentInv, TransactionsAlone, Opening
  <2>2. QED
    BY <2>1, FS_Subset, FS_CardinalityType, BillingAssumption
<1>4. QED
  BY <1>1, <1>2, <1>3 DEF TabsInv, OnePayablePerTab

\* The row that is created takes the place of the handler that created it.
LEMMA OpenCheckoutFits ==
  ASSUME TabsInv, NEW p \in Proc, OpenCheckout(p)
  PROVE  TabsInv'
<1>1. PaymentInv /\ PaymentInv' /\ req[p] \in Request /\ "idle" \in Pcs
  BY OpenCheckoutKeeps, Known DEF TabsInv, OnePayablePerTab, Pcs
<1>2. PICK x \in Payment : /\ payment[x].status = "none" /\ payment'[x].status = "PENDING"
                           /\ \A y \in Payment \ {x} : payment'[y] = payment[y]
  BY <1>1, OpenCheckoutKeeps
<1>3. req[p].pc = "open" /\ Goto(p, req[p], "idle")
  BY DEF OpenCheckout
<1>4. Turn(p, "idle")
  BY <1>1, <1>3, GotoTurns
<1>5. Payable' = Payable \cup {x} /\ x \notin Payable
  BY <1>2 DEF Payable
<1>6. IsFiniteSet(Payable') /\ Cardinality(Payable') = Cardinality(Payable) + 1
  BY <1>5, FS_AddElement DEF TabsInv, OnePayablePerTab
<1>7. Opening' = Opening \ {p} /\ p \in Opening
  BY <1>3, <1>4 DEF Opening, Turn
<1>8. IsFiniteSet(Opening) /\ Cardinality(Opening) \in Nat
  BY <1>1, OpeningFew DEF PaymentInv
<1>9. Cardinality(Opening') = Cardinality(Opening) - 1
  BY <1>7, <1>8, FS_RemoveElement
<1>10. Cardinality(Payable) \in Nat /\ Cardinality(CheckoutProc) \in Nat
  BY FS_CardinalityType, BillingAssumption DEF TabsInv, OnePayablePerTab
<1>11. QED
  BY <1>1, <1>6, <1>8, <1>9, <1>10 DEF TabsInv, OnePayablePerTab

LEMMA TabsNext == TabsInv /\ [Next]_vars => TabsInv'
<1> SUFFICES ASSUME TabsInv, [Next]_vars PROVE TabsInv'
  OBVIOUS
<1>1. PaymentInv /\ PaymentInv'
  BY PaymentNext DEF TabsInv, OnePayablePerTab
<1>2. CASE \E p \in Proc : BillingStep(p)
  <2>1. PICK p \in Proc : BillingStep(p)
    BY <1>2
  <2>2. CASE CancelPending(p) \/ OpenCheckout(p)
    BY <2>2, CancelPendingFits, OpenCheckoutFits
  <2>3. CASE ~CancelPending(p) /\ ~OpenCheckout(p)
    <3>1. /\ \A y \in Payment : payment'[y].status = "PENDING" => payment[y].status = "PENDING"
          /\ \E pc \in Pcs \ {"open"} : Turn(p, pc)
      BY <1>1, <2>1, <2>3, NothingOpened
    <3>2. Payable' \subseteq Payable /\ Opening' \subseteq Opening
      BY <3>1 DEF Payable, Opening, Turn
    <3>3. QED
      BY <1>1, <3>2, FewerFit
  <2>4. QED
    BY <2>2, <2>3
<1>3. CASE \A p \in Proc : ~BillingStep(p)
  <2>1. UNCHANGED <<payment, req>>
    BY <1>1, <1>3, Elsewhere
  <2>2. Payable' = Payable /\ Opening' = Opening
    BY <2>1 DEF Payable, Opening
  <2>3. QED
    BY <1>1, <2>2, FewerFit
<1>4. QED
  BY <1>2, <1>3

\* Starting a checkout cancels every earlier one, so that of any number of tabs
\* that start checkouts at once each has one at most that can be paid, or is
\* about to be created (billing.service.ts:97-101).
THEOREM OneCheckoutPerTab == Spec => []OnePayablePerTab
<1>1. Init => TabsInv
  <2> SUFFICES ASSUME Init PROVE TabsInv
    OBVIOUS
  <2>1. PaymentInv
    BY PaymentInit
  <2>2. Payable = {} /\ Opening = {}
    BY DEF Init, BillingInit, NoCheckout, Idle, Payable, Opening
  <2>3. IsFiniteSet({}) /\ Cardinality({}) = 0 /\ Cardinality(CheckoutProc) \in Nat
    BY FS_EmptySet, FS_CardinalityType, BillingAssumption
  <2>4. QED
    BY <2>1, <2>2, <2>3 DEF TabsInv, OnePayablePerTab
<1>2. TabsInv /\ [Next]_vars => TabsInv'
  BY TabsNext
<1>3. TabsInv => OnePayablePerTab
  <2> SUFFICES ASSUME TabsInv PROVE OnePayablePerTab
    OBVIOUS
  <2>1. Cardinality(Payable) \in Nat /\ Cardinality(Opening) \in Nat
        /\ Cardinality(CheckoutProc) \in Nat
    BY OpeningFew, FS_CardinalityType, BillingAssumption DEF TabsInv, OnePayablePerTab, PaymentInv
  <2>2. QED
    BY <2>1 DEF TabsInv, OnePayablePerTab, Payable
<1>4. QED
  BY <1>1, <1>2, <1>3, PTL DEF Spec

-----------------------------------------------------------------------------
(* The conversations *)

TalkTypeOK == /\ turns \in [Days -> Nat]
              /\ said \in [Chat -> Nat]
              /\ ended \subseteq Chat
              /\ talk \in [Talker -> Talk]
              /\ \A t \in Talker : talk[t].pc # "idle" => talk[t].chat \in Chat

LEMMA QuietTyped == Quiet \in Talk /\ Quiet.pc = "idle"
BY DEF Quiet, Talk

\* What handler t of a conversation becomes.
LEMMA TalkBecomes ==
  ASSUME TalkTypeOK, NEW t \in Talker, TalkStep(t)
  PROVE  \E new \in Talk :
           /\ talk' = [talk EXCEPT ![t] = new]
           /\ new.pc # "idle" => new.chat \in Chat
           /\ new.pc = "answer" => CountTurns(t)
<1>1. /\ talk[t] \in Talk /\ Quiet \in Talk /\ Quiet.pc = "idle"
      /\ talk[t].pc # "idle" => talk[t].chat \in Chat
  BY QuietTyped DEF TalkTypeOK
<1>2. CASE AskTurn(t)
  <2>1. PICK c \in Chat : talk' = [talk EXCEPT ![t] = [Quiet EXCEPT !.pc = "count", !.chat = c]]
    BY <1>2 DEF AskTurn
  <2> DEFINE new == [Quiet EXCEPT !.pc = "count", !.chat = c]
  <2>2. new \in Talk /\ new.chat \in Chat /\ new.pc = "count"
    BY DEF Quiet, Talk
  <2> HIDE DEF new
  <2>3. QED
    BY <2>1, <2>2 DEF new
<1>3. CASE ReadChat(t)
  <2>1. PICK c \in Chat : talk' = [talk EXCEPT ![t] = [pc |-> "recap", chat |-> c]]
    BY <1>3 DEF ReadChat
  <2> DEFINE new == [pc |-> "recap", chat |-> c]
  <2>2. new \in Talk /\ new.chat \in Chat /\ new.pc = "recap"
    BY DEF Talk
  <2> HIDE DEF new
  <2>3. QED
    BY <2>1, <2>2 DEF new
<1>4. CASE CountTurns(t)
  <2> DEFINE new == [talk[t] EXCEPT !.pc = "answer"]
  <2>1. new \in Talk /\ new.chat = talk[t].chat
    BY <1>1 DEF Talk
  <2>2. talk' = [talk EXCEPT ![t] = new] \/ talk' = [talk EXCEPT ![t] = Quiet]
    BY <1>4 DEF CountTurns
  <2> HIDE DEF new
  <2>3. QED
    BY <1>1, <1>4, <2>1, <2>2 DEF CountTurns
<1>5. CASE Answer(t) \/ WriteRecap(t)
  BY <1>1, <1>5 DEF Answer, WriteRecap
<1>6. QED
  BY <1>2, <1>3, <1>4, <1>5 DEF TalkStep

LEMMA TalkStepTyped ==
  ASSUME TalkTypeOK, NEW t \in Talker, TalkStep(t) PROVE TalkTypeOK'
<1>1. /\ turns \in [Days -> Nat] /\ said \in [Chat -> Nat] /\ ended \subseteq Chat
      /\ talk \in [Talker -> Talk]
      /\ talk[t].pc # "idle" => talk[t].chat \in Chat
  BY DEF TalkTypeOK
<1>2. /\ talk' \in [Talker -> Talk]
      /\ \A u \in Talker : talk'[u].pc # "idle" => talk'[u].chat \in Chat
  BY TalkBecomes DEF TalkTypeOK
<1>3. turns' \in [Days -> Nat] /\ said' \in [Chat -> Nat]
  <2>1. CASE Answer(t)
    BY <1>1, <2>1 DEF Answer
  <2>2. CASE ~Answer(t)
    BY <1>1, <2>2 DEF TalkStep, AskTurn, CountTurns, ReadChat, WriteRecap
  <2>3. QED
    BY <2>1, <2>2
<1>4. ended' \subseteq Chat
  <2>1. CASE WriteRecap(t)
    <3>1. talk[t].chat \in Chat /\ ended' = ended \cup {talk[t].chat}
      BY <1>1, <2>1 DEF WriteRecap
    <3>2. QED
      BY <1>1, <3>1
  <2>2. CASE ~WriteRecap(t)
    BY <1>1, <2>2 DEF TalkStep, AskTurn, CountTurns, Answer, ReadChat
  <2>3. QED
    BY <2>1, <2>2
<1>5. QED
  BY <1>2, <1>3, <1>4 DEF TalkTypeOK

LEMMA TalkTypeInit == Init => TalkTypeOK
BY QuietTyped DEF Init, TalkTypeOK

LEMMA TalkTypeNext == TalkTypeOK /\ [Next]_vars => TalkTypeOK'
<1> SUFFICES ASSUME TalkTypeOK, [Next]_vars PROVE TalkTypeOK'
  OBVIOUS
<1>1. CASE UNCHANGED aiVars
  BY <1>1 DEF TalkTypeOK, aiVars
<1>2. CASE \E t \in Talker : TalkStep(t)
  BY <1>2, TalkStepTyped
<1>3. QED
  BY <1>1, <1>2 DEF Next, Tick, vars

THEOREM TalkTypeInvariance == Spec => []TalkTypeOK
BY TalkTypeInit, TalkTypeNext, PTL DEF Spec

\* Payments, subscription, conversations and their handlers stay well-typed.
THEOREM BillingTypeCorrect == Spec => []TypeOK
<1>1. PaymentInv /\ TalkTypeOK => TypeOK
  BY DEF PaymentInv, TalkTypeOK, TypeOK
<1>2. QED
  BY <1>1, PaymentInvariance, TalkTypeInvariance, PTL

-----------------------------------------------------------------------------
(* The limits on turns *)

\* Access comes with payments, and what was ever paid only grows.
LEMMA PaidGrows ==
  ASSUME PaymentInv, NEW p \in Proc, BillingStep(p)
  PROVE  /\ bought' \in Nat /\ bought <= bought' /\ now' = now
         /\ bought' = 0 => bought = 0 /\ sub'.endDate = sub.endDate
<1>1. bought \in Nat
  BY DEF PaymentInv, BillingTypeOK
<1>2. CASE CommitAccess(p)
  <2> DEFINE r == req[p]
  <2>1. CASE r.current = sub.exists
    <3>1. r.payment \in Payment /\ payment[r.payment].status = "PENDING"
      BY <1>2, Known DEF CommitAccess, Paying
    <3>2. payment[r.payment].interval \in Interval
      BY <3>1, RowParts, Known DEF BillingTypeOK
    <3>3. PERIOD_DAYS[payment[r.payment].interval] \in Nat \ {0}
      BY <3>2, BillingAssumption
    <3>4. bought' = bought + PERIOD_DAYS[payment[r.payment].interval] /\ now' = now
      BY <1>2, <2>1 DEF CommitAccess
    <3>5. QED
      BY <1>1, <3>3, <3>4
  <2>2. CASE r.current # sub.exists
    BY <1>1, <1>2, <2>2 DEF CommitAccess
  <2>3. QED
    BY <2>1, <2>2
<1>3. CASE ~CommitAccess(p)
  <2>1. UNCHANGED <<now, bought>> /\ sub'.endDate = sub.endDate
    <3>1. CASE CancelPending(p) \/ OpenCheckout(p) \/ ExpireCheckout(p) \/ RefusePayment(p)
      BY <3>1, CancelPendingKeeps, OpenCheckoutKeeps, CloseKeeps
    <3>2. CASE LoadPayment(p) \/ ClaimPayment(p) \/ ReadSub(p)
      BY <3>2 DEF LoadPayment, ClaimPayment, ReadSub
    <3>3. CASE Notify(p) \/ ReadPlan(p) \/ WriteStatus(p) \/ BillingFail(p)
      BY <3>3, OtherStepKeeps
    <3>4. QED
      BY <1>3, <3>1, <3>2, <3>3 DEF BillingStep
  <2>2. QED
    BY <1>1, <2>1
<1>4. QED
  BY <1>2, <1>3

LEMMA AllowanceGrows ==
  ASSUME bought \in Nat, bought' \in Nat, bought <= bought'
  PROVE  Allowance \in Nat \ {0} /\ Allowance' \in Nat \ {0} /\ Allowance <= Allowance'
BY AiAssumption DEF Allowance

\* Whoever is waiting for an answer is a handler.
LEMMA WaitingCount ==
  /\ Cardinality(Talker) \in Nat /\ Slack \in Int
  /\ IsFiniteSet(Waiting) /\ Cardinality(Waiting) \in 0..Cardinality(Talker)
  /\ \A c : /\ IsFiniteSet(WaitingIn(c))
            /\ Cardinality(WaitingIn(c)) \in 0..Cardinality(Talker)
<1>1. IsFiniteSet(Talker) /\ Cardinality(Talker) \in Nat
  BY AiAssumption, FS_CardinalityType
<1>2. \A S \in SUBSET Talker :
        IsFiniteSet(S) /\ Cardinality(S) \in 0..Cardinality(Talker)
  BY <1>1, FS_Subset, FS_CardinalityType
<1>3. Waiting \subseteq Talker /\ \A c : WaitingIn(c) \subseteq Talker
  BY DEF Waiting, WaitingIn
<1>4. QED
  BY <1>1, <1>2, <1>3 DEF Slack

\* Steps that store no turn and let nobody pass the checks.
LEMMA NoTurn ==
  ASSUME TalkTypeOK, TurnsInv, UNCHANGED <<now, turns, said, Waiting>>,
         \A c \in Chat : UNCHANGED WaitingIn(c),
         bought \in Nat, bought' \in Nat, bought <= bought',
         bought' = 0 => bought = 0 /\ sub'.endDate = sub.endDate
  PROVE  TurnsInv'
<1>1. DaysInOrder'
  BY DEF TurnsInv, DaysInOrder
<1>2. UNCHANGED Slack
  BY DEF Slack
<1>3. /\ Allowance \in Nat /\ Allowance' \in Nat /\ Allowance <= Allowance'
      /\ \A d \in Days : turns[d] \in Nat
      /\ Cardinality(Waiting) \in Nat /\ Slack \in Int
  BY AllowanceGrows, WaitingCount DEF TalkTypeOK
<1>4. RoomToAnswer'
  BY <1>2, <1>3 DEF TurnsInv, DaysInOrder, RoomToAnswer
<1>5. TurnsNearlyLimited'
  BY <1>2, <1>3 DEF TurnsInv, TurnsNearlyLimited
<1>6. QED
  BY <1>1, <1>4, <1>5 DEF TurnsInv

\* Passing the checks: there was room for one more, and every other handler may
\* be waiting as well.
LEMMA CountTurnsLimited ==
  ASSUME PaymentInv, TalkTypeOK, TurnsInv, NEW t \in Talker, CountTurns(t), talk'[t].pc = "answer"
  PROVE  TurnsInv'
<1>1. /\ talk[t].pc = "count" /\ turns[now] < Limit
      /\ said[talk[t].chat] < MAX_TURNS_PER_SESSION
      /\ talk' = [talk EXCEPT ![t] = [talk[t] EXCEPT !.pc = "answer"]]
      /\ UNCHANGED <<now, sub, bought, turns, said>>
  BY QuietTyped DEF CountTurns, Today, InChat, TalkTypeOK, billingVars
<1>2. /\ talk \in [Talker -> Talk] /\ talk[t].chat \in Chat /\ turns \in [Days -> Nat]
      /\ said \in [Chat -> Nat] /\ now \in Days
  BY <1>1 DEF TalkTypeOK, TurnsInv, DaysInOrder
<1>3. UNCHANGED <<Slack, Allowance>>
  BY <1>1 DEF Slack, Allowance
<1>4. DaysInOrder' /\ TurnsNearlyLimited'
  BY <1>1, <1>3 DEF TurnsInv, DaysInOrder, TurnsNearlyLimited
<1>5. Limit \in Nat /\ Allowance \in Nat /\ Limit <= Allowance
  <2>1. bought = 0 => ~Pro(sub, now)
    BY <1>2 DEF TurnsInv, DaysInOrder, Pro, Days
  <2>2. QED
    BY <2>1, AiAssumption DEF Limit, Allowance
<1>6. /\ Cardinality(Waiting') \in 0..Cardinality(Talker) /\ Cardinality(Talker) \in Nat
      /\ \A c : Cardinality(WaitingIn(c)') \in 0..Cardinality(Talker)
  <2>1. Waiting' \subseteq Talker /\ \A c : WaitingIn(c)' \subseteq Talker
    BY DEF Waiting, WaitingIn
  <2>2. QED
    BY <2>1, AiAssumption, FS_Subset, FS_CardinalityType
<1>7. turns'[now'] + Cardinality(Waiting') <= Allowance' + Slack'
  BY <1>1, <1>2, <1>3, <1>5, <1>6 DEF Slack
<1>8. ASSUME NEW c \in Chat
      PROVE  said'[c] + Cardinality(WaitingIn(c)') <= MAX_TURNS_PER_SESSION + Slack'
  <2>1. CASE c = talk[t].chat
    BY <1>1, <1>2, <1>3, <1>6, <2>1, AiAssumption DEF Slack
  <2>2. CASE c # talk[t].chat
    <3>1. \A u \in Talker : talk'[u] = IF u = t THEN [talk[t] EXCEPT !.pc = "answer"] ELSE talk[u]
      BY <1>1, <1>2
    <3>2. WaitingIn(c)' = WaitingIn(c)
      BY <1>1, <1>2, <2>2, <3>1 DEF Waiting, WaitingIn, Talk
    <3>3. QED
      BY <1>1, <1>3, <3>2 DEF TurnsInv, RoomToAnswer
  <2>3. QED
    BY <2>1, <2>2
<1>9. QED
  BY <1>4, <1>7, <1>8 DEF TurnsInv, RoomToAnswer

\* Storing a turn: the handler no longer waits.
LEMMA AnswerLimited ==
  ASSUME PaymentInv, TalkTypeOK, TurnsInv, NEW t \in Talker, Answer(t)
  PROVE  TurnsInv'
<1>0. PICK c \in Chat : c = talk[t].chat
  BY DEF TalkTypeOK, Answer
<1>1. /\ talk \in [Talker -> Talk] /\ c \in Chat /\ turns \in [Days -> Nat]
      /\ said \in [Chat -> Nat] /\ now \in Days /\ t \in Waiting /\ t \in WaitingIn(c)
  BY <1>0 DEF TalkTypeOK, TurnsInv, DaysInOrder, Answer, Waiting, WaitingIn
<1>2. \A u \in Talker : talk'[u] = IF u = t THEN Quiet ELSE talk[u]
  BY <1>1 DEF Answer
<1>3. /\ Waiting' = Waiting \ {t}
      /\ \A e \in Chat : WaitingIn(e)' = IF e = c THEN WaitingIn(e) \ {t} ELSE WaitingIn(e)
  BY <1>0, <1>1, <1>2, QuietTyped DEF Waiting, WaitingIn
<1>4. /\ Cardinality(Waiting') = Cardinality(Waiting) - 1
      /\ Cardinality(WaitingIn(c)') = Cardinality(WaitingIn(c)) - 1
  <2>1. /\ IsFiniteSet(Waiting) /\ Waiting' = Waiting \ {t}
        /\ IsFiniteSet(WaitingIn(c)) /\ WaitingIn(c)' = WaitingIn(c) \ {t}
    BY <1>3, WaitingCount
  <2>2. Cardinality(Waiting \ {t}) = Cardinality(Waiting) - 1
    BY <1>1, <2>1, FS_RemoveElement
  <2>3. Cardinality(WaitingIn(c) \ {t}) = Cardinality(WaitingIn(c)) - 1
    BY <1>1, <2>1, FS_RemoveElement
  <2>4. QED
    BY <2>1, <2>2, <2>3
<1>5. /\ Cardinality(Waiting) \in Nat \ {0} /\ Slack \in Int
      /\ \A e \in Chat : Cardinality(WaitingIn(e)) \in Nat
      /\ Cardinality(WaitingIn(c)) \in Nat \ {0}
  BY <1>1, WaitingCount, FS_EmptySet
<1>6. UNCHANGED <<Slack, Allowance, now, sub, bought>> /\ Allowance \in Nat
  BY AllowanceGrows DEF Answer, billingVars, Slack, Allowance, PaymentInv, BillingTypeOK
<1>7. /\ \A d \in Days : turns'[d] = turns[d] \/ (d = now /\ turns'[d] = turns[d] + 1)
      /\ \A e \in Chat : said'[e] = said[e] \/ (e = c /\ said'[e] = said[e] + 1)
  BY <1>0, <1>1 DEF Answer
<1>8. DaysInOrder'
  BY <1>6, <1>7 DEF TurnsInv, DaysInOrder, Days
<1>9. RoomToAnswer'
  <2>1. turns'[now] + Cardinality(Waiting') <= Allowance + Slack
    BY <1>1, <1>4, <1>5, <1>6, <1>7 DEF TurnsInv, RoomToAnswer
  <2>2. ASSUME NEW e \in Chat
        PROVE  said'[e] + Cardinality(WaitingIn(e)') <= MAX_TURNS_PER_SESSION + Slack
    BY <1>1, <1>3, <1>4, <1>5, <1>7, AiAssumption DEF TurnsInv, RoomToAnswer
  <2>3. QED
    BY <1>6, <2>1, <2>2 DEF RoomToAnswer
<1>10. TurnsNearlyLimited'
  <2>1. \A d \in Days : turns'[d] <= Allowance + Slack
    BY <1>1, <1>5, <1>6, <1>7 DEF TurnsInv, TurnsNearlyLimited, RoomToAnswer
  <2>2. \A e \in Chat : said'[e] <= MAX_TURNS_PER_SESSION + Slack
    BY <1>1, <1>5, <1>7, AiAssumption DEF TurnsInv, TurnsNearlyLimited, RoomToAnswer
  <2>3. QED
    BY <1>6, <2>1, <2>2 DEF TurnsNearlyLimited
<1>11. QED
  BY <1>8, <1>9, <1>10 DEF TurnsInv

\* A new day begins with no turn stored and, at most, every handler waiting.
LEMMA TickLimited ==
  ASSUME PaymentInv, TalkTypeOK, TurnsInv, Tick PROVE TurnsInv'
<1>1. /\ now \in Days /\ now' = now + 1 /\ now' \in Days
      /\ UNCHANGED <<sub, bought, turns, said, talk>>
  BY AiAssumption, BillingAssumption DEF Tick, aiVars, TurnsInv, DaysInOrder, Days
<1>2. UNCHANGED <<Slack, Allowance, Waiting>> /\ \A c \in Chat : UNCHANGED WaitingIn(c)
  BY <1>1 DEF Slack, Allowance, Waiting, WaitingIn
<1>3. DaysInOrder' /\ turns[now'] = 0
  BY <1>1 DEF TurnsInv, DaysInOrder, Days
<1>4. Allowance \in Nat \ {0}
  BY AiAssumption DEF Allowance
<1>5. RoomToAnswer'
  BY <1>1, <1>2, <1>3, <1>4, WaitingCount DEF TurnsInv, RoomToAnswer, Slack
<1>6. TurnsNearlyLimited'
  BY <1>1, <1>2 DEF TurnsInv, TurnsNearlyLimited
<1>7. QED
  BY <1>3, <1>5, <1>6 DEF TurnsInv

LEMMA TalkStepLimited ==
  ASSUME PaymentInv, TalkTypeOK, TurnsInv, NEW t \in Talker, TalkStep(t) PROVE TurnsInv'
<1>1. PICK new \in Talk : /\ talk' = [talk EXCEPT ![t] = new]
                          /\ new.pc = "answer" => CountTurns(t)
  BY TalkBecomes
<1>2. talk'[t] = new /\ \A u \in Talker \ {t} : talk'[u] = talk[u]
  BY <1>1 DEF TalkTypeOK
<1>3. CASE new.pc = "answer"
  BY <1>1, <1>2, <1>3, CountTurnsLimited
<1>4. CASE Answer(t)
  BY <1>4, AnswerLimited
<1>5. CASE new.pc # "answer" /\ ~Answer(t)
  <2>1. /\ talk[t].pc # "answer"
        /\ UNCHANGED <<now, bought, sub, turns, said>>
    BY <1>5, QuietTyped
       DEF TalkStep, AskTurn, CountTurns, ReadChat, WriteRecap, billingVars
  <2>2. Waiting' = Waiting /\ \A c \in Chat : WaitingIn(c)' = WaitingIn(c)
    BY <1>2, <1>5, <2>1 DEF Waiting, WaitingIn
  <2>3. bought \in Nat
    BY DEF PaymentInv, BillingTypeOK
  <2>4. QED
    BY <2>1, <2>2, <2>3, NoTurn
<1>6. QED
  BY <1>3, <1>4, <1>5

LEMMA TurnsInit == Init => TurnsInv
<1> SUFFICES ASSUME Init PROVE TurnsInv
  OBVIOUS
<1>1. /\ now = 0 /\ turns = [d \in Days |-> 0] /\ said = [c \in Chat |-> 0]
      /\ \A t \in Talker : talk[t].pc = "idle"
      /\ bought = 0 /\ sub.endDate = 0 /\ now \in Days
  BY QuietTyped, BillingAssumption DEF Init, BillingInit, NoSub, Days
<1>2. Waiting = {} /\ \A c \in Chat : WaitingIn(c) = {}
  BY <1>1 DEF Waiting, WaitingIn
<1>3. Cardinality({}) = 0 /\ Allowance \in Nat \ {0} /\ Slack >= -1 /\ Slack \in Int
  BY FS_EmptySet, WaitingCount, AiAssumption DEF Allowance, Slack
<1>4. DaysInOrder
  BY <1>1 DEF DaysInOrder
<1>5. RoomToAnswer
  <2>1. turns[now] + Cardinality(Waiting) <= Allowance + Slack
    BY <1>1, <1>2, <1>3
  <2>2. ASSUME NEW c \in Chat
        PROVE  said[c] + Cardinality(WaitingIn(c)) <= MAX_TURNS_PER_SESSION + Slack
    <3>1. said[c] = 0 /\ Cardinality(WaitingIn(c)) = 0
      BY <1>1, <1>2, <1>3
    <3>2. QED
      BY <1>3, <3>1, AiAssumption
  <2>3. QED
    BY <2>1, <2>2 DEF RoomToAnswer
<1>6. TurnsNearlyLimited
  BY <1>1, <1>3, AiAssumption DEF TurnsNearlyLimited
<1>7. QED
  BY <1>4, <1>5, <1>6 DEF TurnsInv

LEMMA TurnsNext == PaymentInv /\ TalkTypeOK /\ TurnsInv /\ [Next]_vars => TurnsInv'
<1> SUFFICES ASSUME PaymentInv, TalkTypeOK, TurnsInv, [Next]_vars PROVE TurnsInv'
  OBVIOUS
<1>1. bought \in Nat
  BY DEF PaymentInv, BillingTypeOK
<1>2. ASSUME NEW p \in Proc, BillingStep(p), UNCHANGED aiVars PROVE TurnsInv'
  <2>1. UNCHANGED <<turns, said, Waiting>> /\ \A c \in Chat : UNCHANGED WaitingIn(c)
    BY <1>2 DEF aiVars, Waiting, WaitingIn
  <2>2. QED
    BY <1>1, <1>2, <2>1, PaidGrows, NoTurn
<1>3. CASE UNCHANGED vars
  <2>1. /\ UNCHANGED <<turns, said, Waiting, now, bought, sub>>
        /\ \A c \in Chat : UNCHANGED WaitingIn(c)
    BY <1>3 DEF vars, billingVars, aiVars, Waiting, WaitingIn
  <2>2. QED
    BY <1>1, <2>1, NoTurn
<1>4. QED
  BY <1>2, <1>3, TickLimited, TalkStepLimited DEF Next

\* The turns of a day and of a conversation pass their limits by at most one for
\* each other turn in flight, whatever is paid or runs out meanwhile
\* (ai-tutor.service.ts:134-154); who never paid has the free turns.
THEOREM TurnsAreLimited == Spec => []TurnsNearlyLimited
<1>1. TurnsInv => TurnsNearlyLimited
  BY DEF TurnsInv
<1>2. QED
  BY <1>1, TurnsInit, TurnsNext, PaymentInvariance, TalkTypeInvariance, PTL DEF Spec
=============================================================================
