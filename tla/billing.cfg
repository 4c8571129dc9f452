\* Two payments, of which the second may come while subscribed or after the plan
\* lapsed, started by two tabs.  Two handlers of conversations ask for turns.
SPECIFICATION Spec
CONSTANTS
  Proc = {p1, p2}
  CheckoutProc = {p1, p2}
  Payment = {x1, x2}
  Interval = {"MONTHLY"}
  PERIOD_DAYS <- Periods
  CHECKOUT_TTL = 0
  MaxTime = 1
  MaxFails = 1
  NoPayment = NoPayment
  NoInterval = NoInterval
  Talker = {t1, t2}
  Chat = {c1}
  FREE_TURNS = 1
  PRO_TURNS = 2
  MAX_TURNS_PER_SESSION = 3
SYMMETRY Alike
INVARIANTS
  TypeOK
  PaidIsGranted
  PaidTimeGiven
  OnePayablePerTab
  TurnsNearlyLimited
PROPERTIES
  SettledIsFinal
\* Payments, conversations and time are bounded.
CHECK_DEADLOCK FALSE
