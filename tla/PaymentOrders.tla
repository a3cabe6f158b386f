---------------------------- MODULE PaymentOrders ----------------------------
(***************************************************************************)
(* The orders and the plan of one tenant: payment_service.py behind the    *)
(* endpoints of api/v1/payment.py, with the payment provider that charges  *)
(* the user and then calls back until it is answered SUCCESS.              *)
(*                                                                         *)
(* A request is one database transaction under PostgreSQL's default READ   *)
(* COMMITTED: its SELECT sees committed rows, its UPDATE (WHERE id = ...,  *)
(* whatever the row holds by then) waits for the row's lock, and what it   *)
(* wrote appears with its COMMIT or not at all.  A statement that fails    *)
(* aborts the transaction, so that the commit get_db still issues after a  *)
(* swallowed exception rolls back.                                         *)
(*                                                                         *)
(* Left out: amounts, months (nothing reads them), the payment method, and *)
(* signatures.  "granted" is a history variable; MaxFaults bounds the       *)
(* failures of a run.                                                      *)
(***************************************************************************)
EXTENDS Naturals

CONSTANTS
    Orders,    \* orders of one tenant
    Plans,     \* the keys of PLAN_PRICES
    PlanOf,    \* PlanOf[o]: the plan order o buys
    Free,      \* the plan a tenant starts with
    Handlers,  \* HTTP requests the service works on at a time
    MaxFaults  \* bound: requests that may fail after their SELECT

ASSUME PaymentAssumption ==
    /\ PlanOf \in [Orders -> Plans]
    /\ Free \in Plans
    /\ MaxFaults \in Nat

VARIABLES
    orders,    \* committed rows: status, and whether a transaction_id is recorded
    plan,      \* committed Tenant.plan
    online,    \* orders whose code_url or payment_url the user was given
    charged,   \* orders the user paid at the provider
    acked,     \* orders whose callback was answered SUCCESS
    task,      \* what each handler is doing
    granted,   \* history: the orders whose plan was granted
    faults     \* failures so far

vars == <<orders, plan, online, charged, acked, task, granted, faults>>

Statuses == {"absent", "pending", "paid"}  \* "cancelled", "refunded": never written
Kinds == {"callback", "simulated", "upgrade"}

\* "loaded": the SELECT is done; "order_written", "plan_written": flushed, and
\* so holding the row's lock.
Steps == {"loaded", "order_written", "plan_written"}

\* An upgrade has no order, a handler at rest has no request at all.
Idle == [step |-> "idle"]
Tasks ==
    {Idle}
        \cup [step : Steps, kind : {"callback", "simulated"}, order : Orders]
        \cup [step : {"loaded", "plan_written"}, kind : {"upgrade"}, plan : Plans]

TypeOK ==
    /\ orders \in [Orders -> [status : Statuses, transaction : BOOLEAN]]
    /\ plan \in Plans
    /\ online \subseteq Orders
    /\ charged \subseteq online
    /\ acked \subseteq Orders
    /\ task \in [Handlers -> Tasks]
    /\ granted \subseteq Orders
    /\ faults \in 0..MaxFaults

Init ==
    /\ orders = [o \in Orders |-> [status |-> "absent", transaction |-> FALSE]]
    /\ plan = Free
    /\ online = {}
    /\ charged = {}
    /\ acked = {}
    /\ task = [h \in Handlers |-> Idle]
    /\ granted = {}
    /\ faults = 0

-----------------------------------------------------------------------------
Busy(h) == task[h] # Idle
PaysFor(h, o) == Busy(h) /\ task[h].kind # "upgrade" /\ task[h].order = o

\* The row locks a transaction holds until it ends.
OrderLocked(o) ==
    \E h \in Handlers : PaysFor(h, o) /\ task[h].step \in {"order_written", "plan_written"}
PlanLocked == \E h \in Handlers : Busy(h) /\ task[h].step = "plan_written"

\* create_order and _initiate_payment: the row is flushed, the provider asked,
\* and the row committed.  A provider that is not configured, or fails, leaves
\* an order that can only be paid by simulation.  The user has no way to pay
\* before the commit, which returns the order's number and code_url.
CreateOrder(o) ==
    /\ orders[o].status = "absent"
    /\ orders' = [orders EXCEPT ![o].status = "pending"]
    /\ online' \in {online, online \cup {o}}
    /\ UNCHANGED <<plan, charged, acked, task, granted, faults>>

\* The user pays: the provider's step, not the service's.
Charge(o) ==
    /\ o \in online \ charged
    /\ charged' = charged \cup {o}
    /\ UNCHANGED <<orders, plan, online, acked, task, granted, faults>>

\* Answering SUCCESS, unless the answer is lost on the way.
Answer(o) == acked' \in {acked, acked \cup {o}}

\* The provider calls back, again and again while it is not answered SUCCESS,
\* without waiting for an earlier callback to end.  handle_payment_success
\* loads the order: a pending one is worked on, any other outcome ("paid": True,
\* no order or another status: False) is answered SUCCESS by the endpoint.
HandlePaymentSuccess(h, o) ==
    /\ ~Busy(h)
    /\ o \in charged \ acked
    /\ \/ /\ orders[o].status = "pending"
          /\ task' = [task EXCEPT ![h] =
                        [step |-> "loaded", kind |-> "callback", order |-> o]]
          /\ UNCHANGED acked
       \/ /\ orders[o].status # "pending"
          /\ Answer(o)
          /\ UNCHANGED task
    /\ UNCHANGED <<orders, plan, online, charged, granted, faults>>

\* process_payment, on POST /orders/{id}/pay.  An order that is not pending is
\* answered without a change, which is no step.
ProcessPayment(h, o) ==
    /\ ~Busy(h)
    /\ orders[o].status = "pending"
    /\ task' = [task EXCEPT ![h] = [step |-> "loaded", kind |-> "simulated", order |-> o]]
    /\ UNCHANGED <<orders, plan, online, charged, acked, granted, faults>>

\* upgrade_plan, on POST /upgrade.
UpgradePlan(h, p) ==
    /\ ~Busy(h)
    /\ task' = [task EXCEPT ![h] = [step |-> "loaded", kind |-> "upgrade", plan |-> p]]
    /\ UNCHANGED <<orders, plan, online, charged, acked, granted, faults>>

\* Mutant of WriteOrder: an upgrade, too, goes through the order it has not, and
\* no lock is waited for.
WriteOrderAlways(h) ==
    /\ Busy(h)
    /\ task[h].step = "loaded"
    /\ task' = [task EXCEPT ![h].step = "order_written"]
    /\ UNCHANGED <<orders, plan, online, charged, acked, granted, faults>>

\* The status is set and flushed: nothing in the UPDATE looks at the status the
\* row has by then.
WriteOrder(h) ==
    /\ Busy(h)
    /\ task[h].step = "loaded"
    /\ task[h].kind # "upgrade"
    /\ ~OrderLocked(task[h].order)
    /\ task' = [task EXCEPT ![h].step = "order_written"]
    /\ UNCHANGED <<orders, plan, online, charged, acked, granted, faults>>

\* _upgrade_tenant_plan
WritePlan(h) ==
    /\ Busy(h)
    /\ task[h].step = IF task[h].kind = "upgrade" THEN "loaded" ELSE "order_written"
    /\ ~PlanLocked
    /\ task' = [task EXCEPT ![h].step = "plan_written"]
    /\ UNCHANGED <<orders, plan, online, charged, acked, granted, faults>>

\* The row a payment leaves: the simulated one has no transaction_id to store,
\* and does not touch the one that may be there.
Paid(row, kind) ==
    [status |-> "paid", transaction |-> row.transaction \/ kind = "callback"]

\* Mutants of CommitPayment: the endpoint commits what the service flushed
\* before it upgraded the plan; it answers SUCCESS and leaves the commit to
\* get_db, which may still fail.
CommitPaymentEarly(h) ==
    /\ Busy(h)
    /\ task[h].step = "order_written"
    /\ task[h].kind # "upgrade"
    /\ LET o == task[h].order
       IN  /\ orders' = [orders EXCEPT ![o] = Paid(@, task[h].kind)]
           /\ UNCHANGED <<plan, granted>>
           /\ IF task[h].kind = "callback" THEN Answer(o) ELSE UNCHANGED acked
    /\ task' = [task EXCEPT ![h] = Idle]
    /\ UNCHANGED <<online, charged, faults>>

CommitPaymentLate(h) ==
    /\ Busy(h)
    /\ task[h].step = "plan_written"
    /\ task[h].kind = "callback"
    /\ Answer(task[h].order)
    /\ task' = [task EXCEPT ![h] = Idle]
    /\ UNCHANGED <<orders, plan, online, charged, granted, faults>>

\* The endpoint commits, and a callback is answered SUCCESS.
CommitPayment(h) ==
    /\ Busy(h)
    /\ task[h].step = "plan_written"
    /\ task[h].kind # "upgrade"
    /\ LET o == task[h].order
       IN  /\ orders' = [orders EXCEPT ![o] = Paid(@, task[h].kind)]
           /\ plan' = PlanOf[o]
           /\ granted' = granted \cup {o}
           /\ IF task[h].kind = "callback" THEN Answer(o) ELSE UNCHANGED acked
    /\ task' = [task EXCEPT ![h] = Idle]
    /\ UNCHANGED <<online, charged, faults>>

CommitUpgrade(h) ==
    /\ Busy(h)
    /\ task[h].step = "plan_written"
    /\ task[h].kind = "upgrade"
    /\ plan' = task[h].plan
    /\ task' = [task EXCEPT ![h] = Idle]
    /\ UNCHANGED <<orders, online, charged, acked, granted, faults>>

\* Mutant of Fail: the exception handler of the callback answers SUCCESS.
FailAnswersSuccess(h) ==
    /\ Busy(h)
    /\ faults < MaxFaults
    /\ faults' = faults + 1
    /\ task' = [task EXCEPT ![h] = Idle]
    /\ IF task[h].kind = "callback" THEN Answer(task[h].order) ELSE UNCHANGED acked
    /\ UNCHANGED <<orders, plan, online, charged, granted>>

\* The request fails or the process dies: the transaction is rolled back, and
\* a callback is answered FAIL or not at all.
Fail(h) ==
    /\ Busy(h)
    /\ faults < MaxFaults
    /\ faults' = faults + 1
    /\ task' = [task EXCEPT ![h] = Idle]
    /\ UNCHANGED <<orders, plan, online, charged, acked, granted>>

Work(h) == WriteOrder(h) \/ WritePlan(h) \/ CommitPayment(h) \/ CommitUpgrade(h)

Next ==
    \/ \E o \in Orders : CreateOrder(o) \/ Charge(o)
    \/ \E h \in Handlers :
         \/ \E o \in Orders : HandlePaymentSuccess(h, o) \/ ProcessPayment(h, o)
         \/ \E p \in Plans : UpgradePlan(h, p)
         \/ Work(h) \/ Fail(h)

\* A request that waits for a row lock gets it in the end, however many others
\* want it (PostgreSQL queues them); the provider's retries get through, however
\* busy the service is.
Fairness ==
    /\ \A h \in Handlers : SF_vars(WriteOrder(h)) /\ SF_vars(WritePlan(h))
                           /\ WF_vars(CommitPayment(h)) /\ WF_vars(CommitUpgrade(h))
    /\ \A o \in Orders : SF_vars(\E h \in Handlers : HandlePaymentSuccess(h, o))

Spec == Init /\ [][Next]_vars /\ Fairness

-----------------------------------------------------------------------------
(* Properties *)

\* No order is paid without its plan having been granted, and no plan is granted
\* for an order that is not paid, whatever fails between the two writes of
\* handle_payment_success and process_payment.
PaidIffGranted ==
    \A o \in Orders : orders[o].status = "paid" <=> o \in granted

\* The provider is told to stop calling back only when the order is paid: a
\* payment the service has not recorded will be called back again.  The
\* endpoints answer SUCCESS even when handle_payment_success returned False.
AnsweredIsPaid ==
    \A o \in acked : orders[o].status = "paid"

\* Money taken is a plan granted: every order charged at the provider becomes
\* paid, through failures, lost answers and repeated callbacks.
ChargedBecomesPaid ==
    \A o \in Orders : o \in charged ~> orders[o].status = "paid"

\* Row locks are taken in the same order by every request, so that no request
\* waits for ever.
RequestEnds ==
    \A h \in Handlers : Busy(h) ~> ~Busy(h)

\* Orders and plan move as OrderLedger says: a paid order stays paid, and the
\* step that pays it grants its plan.
Ledger == INSTANCE OrderLedger WITH status <- [o \in Orders |-> orders[o].status]

ImplementsOrderLedger == Ledger!Spec

\* payment_service.py:241, the branch that skips a paid order, is commented
\* "idempotent handling": a callback for an order that is paid does not change
\* the tenant's plan.  Violated: a callback that loaded the order while it was
\* pending grants the plan again, over whatever plan was set since another
\* callback, or a simulated payment, paid the order.
RepeatedCallbackIsIgnored ==
    [][\A h \in Handlers, o \in Orders :
         PaysFor(h, o) /\ task[h].kind = "callback" /\ orders[o].status = "paid"
             /\ task'[h] # task[h]
           => UNCHANGED plan]_vars

=============================================================================
