------------------------- MODULE PaymentOrdersProofs -------------------------
(***************************************************************************)
(* Theorems about PaymentOrders, for every number of orders, plans and     *)
(* requests and any number of failures.                                    *)
(*                                                                         *)
(* Neither safety property is inductive: that a callback answered SUCCESS  *)
(* belongs to a paid order needs to know that only orders that exist can   *)
(* be paid for, and that a payment grants the plan of an order needs the   *)
(* same of the orders being worked on.  KnownOrders says both.             *)
(***************************************************************************)
EXTENDS PaymentOrders, TLAPS

\* Only orders that were created are paid at the provider or worked on.
KnownOrders ==
    \A o \in Orders :
        o \in online \/ (\E h \in Handlers : PaysFor(h, o)) => orders[o].status # "absent"

OrdersInv == TypeOK /\ KnownOrders /\ PaidIffGranted /\ AnsweredIsPaid

LEMMA InitOrdersInv == Init => OrdersInv
BY PaymentAssumption
   DEF Init, OrdersInv, TypeOK, KnownOrders, PaidIffGranted, AnsweredIsPaid, Statuses,
       Tasks, Idle, Busy, PaysFor

\* The shape of a task, by what it does.
LEMMA TaskShape ==
    ASSUME TypeOK, NEW h \in Handlers, Busy(h)
    PROVE  /\ task[h].step \in Steps
           /\ task[h].kind \in Kinds
           /\ task[h].kind # "upgrade" =>
                /\ task[h].order \in Orders
                /\ task[h] \in [step : Steps, kind : {"callback", "simulated"}, order : Orders]
           /\ task[h].kind = "upgrade" =>
                /\ task[h].plan \in Plans
                /\ task[h] \in [step : {"loaded", "plan_written"}, kind : {"upgrade"},
                                plan : Plans]
<1>1. task[h] \in Tasks \ {Idle}
  BY DEF TypeOK, Busy
<1>2. CASE task[h] \in [step : Steps, kind : {"callback", "simulated"}, order : Orders]
  BY <1>2 DEF Kinds
<1>3. CASE task[h] \in [step : {"loaded", "plan_written"}, kind : {"upgrade"}, plan : Plans]
  BY <1>3 DEF Kinds, Steps
<1> QED
  BY <1>1, <1>2, <1>3 DEF Tasks

LEMMA NextOrdersInv == OrdersInv /\ [Next]_vars => OrdersInv'
<1> SUFFICES ASSUME OrdersInv, [Next]_vars
             PROVE  OrdersInv'
  OBVIOUS
<1> USE PaymentAssumption DEF OrdersInv
<1>1. ASSUME NEW o \in Orders, CreateOrder(o)
      PROVE  OrdersInv'
  BY <1>1 DEF CreateOrder, TypeOK, KnownOrders, PaidIffGranted, AnsweredIsPaid, Statuses,
              PaysFor, Busy
<1>2. ASSUME NEW o \in Orders, Charge(o)
      PROVE  OrdersInv'
  BY <1>2 DEF Charge, TypeOK, KnownOrders, PaidIffGranted, AnsweredIsPaid, PaysFor, Busy
<1>3. ASSUME NEW h \in Handlers, NEW o \in Orders, HandlePaymentSuccess(h, o)
      PROVE  OrdersInv'
  <2>1. TypeOK'
    BY <1>3 DEF HandlePaymentSuccess, Answer, TypeOK, Tasks, Steps
  <2>2. KnownOrders'
    BY <1>3 DEF HandlePaymentSuccess, TypeOK, KnownOrders, PaysFor, Busy
  <2>3. AnsweredIsPaid'
    BY <1>3 DEF HandlePaymentSuccess, Answer, TypeOK, KnownOrders, AnsweredIsPaid, Statuses
  <2> QED
    BY <1>3, <2>1, <2>2, <2>3 DEF HandlePaymentSuccess, PaidIffGranted
<1>4. ASSUME NEW h \in Handlers, NEW o \in Orders, ProcessPayment(h, o)
      PROVE  OrdersInv'
  <2>1. TypeOK'
    BY <1>4 DEF ProcessPayment, TypeOK, Tasks, Steps
  <2>2. KnownOrders'
    BY <1>4 DEF ProcessPayment, TypeOK, KnownOrders, PaysFor, Busy
  <2> QED
    BY <1>4, <2>1, <2>2 DEF ProcessPayment, PaidIffGranted, AnsweredIsPaid
<1>5. ASSUME NEW h \in Handlers, NEW p \in Plans, UpgradePlan(h, p)
      PROVE  OrdersInv'
  <2>1. TypeOK'
    BY <1>5 DEF UpgradePlan, TypeOK, Tasks
  <2>2. KnownOrders'
    BY <1>5 DEF UpgradePlan, TypeOK, KnownOrders, PaysFor, Busy
  <2> QED
    BY <1>5, <2>1, <2>2 DEF UpgradePlan, PaidIffGranted, AnsweredIsPaid
<1>6. ASSUME NEW h \in Handlers, WriteOrder(h)
      PROVE  OrdersInv'
  <2>1. TypeOK'
    BY <1>6, TaskShape DEF WriteOrder, TypeOK, Tasks, Steps
  <2>2. \A g \in Handlers, o \in Orders : PaysFor(g, o)' => PaysFor(g, o)
    BY <1>6, TaskShape DEF WriteOrder, TypeOK, PaysFor, Busy, Idle
  <2> QED
    BY <1>6, <2>1, <2>2 DEF WriteOrder, KnownOrders, PaidIffGranted, AnsweredIsPaid
<1>7. ASSUME NEW h \in Handlers, WritePlan(h)
      PROVE  OrdersInv'
  <2>1. TypeOK'
    BY <1>7, TaskShape DEF WritePlan, TypeOK, Tasks, Steps
  <2>2. \A g \in Handlers, o \in Orders : PaysFor(g, o)' => PaysFor(g, o)
    BY <1>7, TaskShape DEF WritePlan, TypeOK, PaysFor, Busy, Idle
  <2> QED
    BY <1>7, <2>1, <2>2 DEF WritePlan, KnownOrders, PaidIffGranted, AnsweredIsPaid
<1>8. ASSUME NEW h \in Handlers, CommitPayment(h)
      PROVE  OrdersInv'
  <2> DEFINE o == task[h].order
  <2>1. o \in Orders /\ PaysFor(h, o)
    BY <1>8, TaskShape DEF CommitPayment, PaysFor
  <2>2. /\ orders' = [orders EXCEPT ![o] = Paid(@, task[h].kind)]
        /\ acked' \in {acked, acked \cup {o}}
        /\ task[h].kind # "callback" => acked' = acked
        /\ granted' = granted \cup {o}
        /\ plan' = PlanOf[o]
        /\ task' = [task EXCEPT ![h] = Idle]
        /\ UNCHANGED <<online, charged, faults>>
    BY <1>8 DEF CommitPayment, Answer
  <2>3. \A q \in Orders :
          /\ orders'[q].status = IF q = o THEN "paid" ELSE orders[q].status
          /\ orders'[q] \in [status : Statuses, transaction : BOOLEAN]
    BY <2>1, <2>2 DEF Paid, TypeOK, Statuses
  <2>4. \A g \in Handlers, q \in Orders : PaysFor(g, q)' => PaysFor(g, q)
    BY <2>2 DEF TypeOK, PaysFor, Busy, Idle
  <2> HIDE DEF o
  <2>5. TypeOK'
    <3>1. orders' \in [Orders -> [status : Statuses, transaction : BOOLEAN]]
      BY <2>2, <2>3 DEF TypeOK
    <3>2. task' \in [Handlers -> Tasks]
      BY <2>2 DEF TypeOK, Tasks
    <3> QED
      BY <2>1, <2>2, <3>1, <3>2 DEF TypeOK
  <2>6. KnownOrders'
    BY <2>2, <2>3, <2>4 DEF KnownOrders
  <2>7. PaidIffGranted'
    BY <2>1, <2>2, <2>3 DEF PaidIffGranted
  <2>8. AnsweredIsPaid'
    BY <2>1, <2>2, <2>3 DEF AnsweredIsPaid, TypeOK
  <2> QED
    BY <2>5, <2>6, <2>7, <2>8
<1>9. ASSUME NEW h \in Handlers, CommitUpgrade(h)
      PROVE  OrdersInv'
  <2>1. TypeOK'
    BY <1>9, TaskShape DEF CommitUpgrade, TypeOK, Tasks
  <2>2. \A g \in Handlers, o \in Orders : PaysFor(g, o)' => PaysFor(g, o)
    BY <1>9 DEF CommitUpgrade, TypeOK, PaysFor, Busy, Idle
  <2> QED
    BY <1>9, <2>1, <2>2 DEF CommitUpgrade, KnownOrders, PaidIffGranted, AnsweredIsPaid
<1>10. ASSUME NEW h \in Handlers, Fail(h)
       PROVE  OrdersInv'
  <2>1. TypeOK'
    BY <1>10 DEF Fail, TypeOK, Tasks
  <2>2. \A g \in Handlers, o \in Orders : PaysFor(g, o)' => PaysFor(g, o)
    BY <1>10 DEF Fail, TypeOK, PaysFor, Busy, Idle
  <2> QED
    BY <1>10, <2>1, <2>2 DEF Fail, KnownOrders, PaidIffGranted, AnsweredIsPaid
<1>11. CASE UNCHANGED vars
  BY <1>11 DEF vars, TypeOK, KnownOrders, PaidIffGranted, AnsweredIsPaid, PaysFor, Busy
<1> QED
  BY <1>1, <1>2, <1>3, <1>4, <1>5, <1>6, <1>7, <1>8, <1>9, <1>10, <1>11 DEF Next, Work

\* The inductive invariant holds in every reachable state.
THEOREM OrdersInvariant == Spec => []OrdersInv
<1> QED
  BY InitOrdersInv, NextOrdersInv, PTL DEF Spec

\* Type correctness.
THEOREM OrdersTypeCorrect == Spec => []TypeOK
<1>1. OrdersInv => TypeOK
  BY DEF OrdersInv
<1> QED
  BY <1>1, OrdersInvariant, PTL

\* An order is paid exactly when its plan was granted: handle_payment_success
\* and process_payment are atomic, whatever fails in them.
THEOREM PaymentsAreAtomic == Spec => []PaidIffGranted
<1>1. OrdersInv => PaidIffGranted
  BY DEF OrdersInv
<1> QED
  BY <1>1, OrdersInvariant, PTL

\* A callback is answered SUCCESS only for an order that is paid, although the
\* endpoints answer SUCCESS whatever handle_payment_success returned.
THEOREM NoPaymentIsDropped == Spec => []AnsweredIsPaid
<1>1. OrdersInv => AnsweredIsPaid
  BY DEF OrdersInv
<1> QED
  BY <1>1, OrdersInvariant, PTL

-----------------------------------------------------------------------------
\* Each step of PaymentOrders is a step of OrderLedger or leaves its state alone.
LEMMA InitLedger == Init => Ledger!Init
BY DEF Init, Ledger!Init

LEMMA StepLedger == OrdersInv /\ [Next]_vars => [Ledger!Next]_(Ledger!ledger)
<1> SUFFICES ASSUME OrdersInv, [Next]_vars
             PROVE  [Ledger!Next]_(Ledger!ledger)
  OBVIOUS
<1> USE DEF OrdersInv, Ledger!ledger
<1>1. ASSUME NEW o \in Orders, CreateOrder(o)
      PROVE  Ledger!Open(o)
  <2>1. [q \in Orders |-> orders[q].status]'
          = [[q \in Orders |-> orders[q].status] EXCEPT ![o] = "pending"]
    BY <1>1 DEF CreateOrder, TypeOK
  <2> QED
    BY <1>1, <2>1 DEF CreateOrder, Ledger!Open
<1>2. ASSUME NEW h \in Handlers, CommitPayment(h)
      PROVE  \E o \in Orders : Ledger!Settle(o)
  <2> DEFINE o == task[h].order
  <2>1. o \in Orders /\ PaysFor(h, o)
    BY <1>2, TaskShape DEF CommitPayment, PaysFor
  <2>2. orders[o].status # "absent"
    BY <2>1 DEF KnownOrders
  <2>3. [q \in Orders |-> orders[q].status]'
          = [[q \in Orders |-> orders[q].status] EXCEPT ![o] = "paid"]
    BY <1>2, <2>1 DEF CommitPayment, TypeOK, Paid
  <2>4. plan' = PlanOf[o]
    BY <1>2 DEF CommitPayment
  <2> QED
    BY <2>1, <2>2, <2>3, <2>4 DEF Ledger!Settle
<1>3. ASSUME NEW h \in Handlers, CommitUpgrade(h)
      PROVE  \E p \in Plans : Ledger!Grant(p)
  BY <1>3, TaskShape DEF CommitUpgrade, Ledger!Grant
<1>4. CASE UNCHANGED <<orders, plan>>
  BY <1>4
<1>5. ASSUME NEW h \in Handlers, NEW o \in Orders,
             HandlePaymentSuccess(h, o) \/ ProcessPayment(h, o)
      PROVE  UNCHANGED <<orders, plan>>
  BY <1>5 DEF HandlePaymentSuccess, ProcessPayment
<1>6. ASSUME NEW h \in Handlers, WriteOrder(h) \/ WritePlan(h) \/ Fail(h)
      PROVE  UNCHANGED <<orders, plan>>
  BY <1>6 DEF WriteOrder, WritePlan, Fail
<1>7. ASSUME NEW h \in Handlers, NEW p \in Plans, UpgradePlan(h, p)
      PROVE  UNCHANGED <<orders, plan>>
  BY <1>7 DEF UpgradePlan
<1>8. ASSUME NEW o \in Orders, Charge(o)
      PROVE  UNCHANGED <<orders, plan>>
  BY <1>8 DEF Charge
<1> QED
  BY <1>1, <1>2, <1>3, <1>4, <1>5, <1>6, <1>7, <1>8 DEF Next, Work, vars, Ledger!Next

\* Paying an order and granting its plan are one step of the tenant's ledger.
THEOREM OrdersImplementLedger == Spec => ImplementsOrderLedger
<1> QED
  BY InitLedger, StepLedger, OrdersInvariant, PTL DEF Spec, ImplementsOrderLedger, Ledger!Spec

=============================================================================
