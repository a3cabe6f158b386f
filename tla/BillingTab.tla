------------------------------ MODULE BillingTab ------------------------------
(***************************************************************************)
(* The billing tab of the settings page: the plan and the orders of the    *)
(* tenant as the page shows them, the dialog that buys a better plan, and  *)
(* handlePay, which makes an order and pays it in two requests.  Each      *)
(* request is sent, served and answered, and may fail before or after it   *)
(* is served.  Other users of the tenant may change its plan meanwhile.    *)
(*                                                                         *)
(* Plans are ranked as in PLAN_DEFS, 0 being the free one.  Usage and the  *)
(* method of payment are left out: the server simulates every payment.     *)
(* MaxPayClicks bounds what the user does, MaxOthers what others do.       *)
(***************************************************************************)
EXTENDS Naturals, FiniteSets

CONSTANTS ShownPrice, ServerPrice, NoPlan, Durations, MaxPayClicks, MaxOthers

\* A plan's rank is its place in the price lists, which begin with the free plan.
Plans == DOMAIN ShownPrice

ASSUME BillingTabAssumption ==
    /\ Plans \subseteq Nat
    /\ NoPlan \notin Plans
    /\ ShownPrice \in [Plans -> Nat]
    /\ ServerPrice \in [Plans -> Nat]
    /\ Durations \subseteq Nat
    /\ 1 \in Durations
    /\ {MaxPayClicks, MaxOthers} \subseteq Nat

VARIABLES
    planShown,    \* plan, and whether the tab shows a spinner (loading)
    ordersShown,  \* orders
    payModal,     \* the dialog: open, payingPlan and payMonths
    payment,      \* handlePay: the order it makes, then pays
    billAsked,    \* loadData and loadOrders: the requests in flight
    tenantPlan,   \* the server: the tenant's plan
    billOrders,   \* and orders
    payClicks,    \* what the user has done so far
    others        \* and what other users have

billPage == <<planShown, ordersShown, payModal>>
billServer == <<tenantPlan, billOrders>>
billVars == <<billPage, payment, billAsked, billServer, payClicks, others>>

\* DURATION_OPTIONS: tenths of the price that are left to pay.
Tenths(months) == CASE months = 3 -> 9 [] months = 6 -> 8 [] months = 12 -> 7 [] OTHER -> 10

\* calcTotal, rounded as Math.round does.
CalcTotal(plan, months) == (ShownPrice[plan] * months * Tenths(months) + 5) \div 10

\* create_order
OrderAmount(plan, months) == ServerPrice[plan] * months

PayPhases == {"none", "ordering", "ordered", "paying", "paid"}
NoPayment == [phase |-> "none", plan |-> NoPlan, months |-> 1, order |-> 0]
-----------------------------------------------------------------------------
(* What the tab offers: nothing while it loads or knows no plan; plans     *)
(* above the current one; in the dialog a duration, and to pay unless a    *)
(* payment is in progress.                                                 *)

TabShown == ~planShown.loading /\ planShown.plan # NoPlan

\* A mutant: the current plan is offered, too.
PlansOfferedAgain ==
    {p \in Plans : TabShown /\ ~payModal.open /\ p >= planShown.plan}

PlansOffered ==
    {p \in Plans : TabShown /\ ~payModal.open /\ p > planShown.plan}
DialogShown == TabShown /\ payModal.open

PayClick == payClicks < MaxPayClicks /\ payClicks' = payClicks + 1

BillRequest(kind) == [n |-> payClicks, kind |-> kind, phase |-> "sent",
                      plan |-> NoPlan, orders |-> {}]

OpenUpgradeModal(p) ==
    /\ PayClick
    /\ p \in PlansOffered
    /\ payModal' = [open |-> TRUE, plan |-> p, months |-> 1]
    /\ UNCHANGED <<planShown, ordersShown, payment, billAsked, billServer, others>>

SetPayMonths(m) ==
    /\ PayClick
    /\ DialogShown /\ m # payModal.months
    /\ payModal' = [payModal EXCEPT !.months = m]
    /\ UNCHANGED <<planShown, ordersShown, payment, billAsked, billServer, others>>

ClosePayModal ==
    /\ PayClick
    /\ DialogShown
    /\ payModal' = [payModal EXCEPT !.open = FALSE]
    /\ UNCHANGED <<planShown, ordersShown, payment, billAsked, billServer, others>>
-----------------------------------------------------------------------------
(* handlePay                                                               *)

HandlePay ==
    /\ PayClick
    /\ DialogShown
    /\ payment.phase = "none"
    /\ payment' = [NoPayment EXCEPT !.phase = "ordering", !.plan = payModal.plan,
                                    !.months = payModal.months]
    /\ UNCHANGED <<billPage, billAsked, billServer, others>>

\* total is history: what the dialog showed when it was asked to pay.
ServeOrder ==
    /\ payment.phase = "ordering"
    /\ LET n == Cardinality(billOrders) + 1 IN
        /\ billOrders' = billOrders \cup
              {[n |-> n, plan |-> payment.plan, paid |-> FALSE,
                amount |-> OrderAmount(payment.plan, payment.months),
                total |-> CalcTotal(payment.plan, payment.months)]}
        /\ payment' = [payment EXCEPT !.phase = "ordered", !.order = n]
    /\ UNCHANGED <<billPage, billAsked, tenantPlan, payClicks, others>>

PayTheOrder ==
    /\ payment.phase = "ordered"
    /\ payment' = [payment EXCEPT !.phase = "paying"]
    /\ UNCHANGED <<billPage, billAsked, billServer, payClicks, others>>

ServePayment ==
    /\ payment.phase = "paying"
    /\ billOrders' = {IF o.n = payment.order THEN [o EXCEPT !.paid = TRUE] ELSE o :
                          o \in billOrders}
    /\ tenantPlan' = payment.plan
    /\ payment' = [payment EXCEPT !.phase = "paid"]
    /\ UNCHANGED <<billPage, billAsked, payClicks, others>>

\* Closes whatever dialog is open by now.  The server answers "paid" or fails.
FinishPay ==
    /\ payment.phase = "paid"
    /\ payment' = NoPayment
    /\ payModal' = [payModal EXCEPT !.open = FALSE]
    /\ planShown' = [planShown EXCEPT !.loading = TRUE]
    /\ billAsked' = billAsked \cup {BillRequest("data"), BillRequest("orders")}
    /\ UNCHANGED <<ordersShown, billServer, payClicks, others>>

FailPay ==
    /\ payment.phase # "none"
    /\ payment' = NoPayment
    /\ UNCHANGED <<billPage, billAsked, billServer, payClicks, others>>
-----------------------------------------------------------------------------
(* loadData and loadOrders, when the tab is mounted and after a payment.   *)

BillServe(r) ==
    /\ r.phase = "sent"
    /\ billAsked' = (billAsked \ {r}) \cup
            {[r EXCEPT !.phase = "served", !.plan = tenantPlan, !.orders = billOrders]}
    /\ UNCHANGED <<billPage, payment, billServer, payClicks, others>>

BillOver(r, kind) ==
    /\ r.kind = kind
    /\ billAsked' = billAsked \ {r}
    /\ UNCHANGED <<payModal, payment, billServer, payClicks, others>>

FinishData(r) ==
    /\ r.phase = "served"
    /\ BillOver(r, "data")
    /\ planShown' = [plan |-> r.plan, loading |-> FALSE]
    /\ UNCHANGED ordersShown

FailData(r) ==
    /\ BillOver(r, "data")
    /\ planShown' = [planShown EXCEPT !.loading = FALSE]
    /\ UNCHANGED ordersShown

FinishOrders(r) ==
    /\ r.phase = "served"
    /\ BillOver(r, "orders")
    /\ ordersShown' = r.orders
    /\ UNCHANGED planShown

FailOrders(r) == BillOver(r, "orders") /\ UNCHANGED <<planShown, ordersShown>>

\* Another user upgrades, or a payment made elsewhere is reported.
OthersUpgrade(p) ==
    /\ others < MaxOthers
    /\ others' = others + 1
    /\ tenantPlan' = p
    /\ UNCHANGED <<billPage, payment, billAsked, billOrders, payClicks>>
-----------------------------------------------------------------------------
BillingTabInit ==
    /\ planShown = [plan |-> NoPlan, loading |-> TRUE]
    /\ ordersShown = {}
    /\ payModal = [open |-> FALSE, plan |-> NoPlan, months |-> 1]
    /\ payment = NoPayment
    /\ tenantPlan \in Plans
    /\ billOrders = {}
    /\ payClicks = 0
    /\ billAsked = {BillRequest("data"), BillRequest("orders")}
    /\ others = 0

BillingTabNext ==
    \/ \E p \in Plans : OpenUpgradeModal(p) \/ OthersUpgrade(p)
    \/ \E m \in Durations : SetPayMonths(m)
    \/ ClosePayModal
    \/ HandlePay \/ ServeOrder \/ PayTheOrder \/ ServePayment \/ FinishPay \/ FailPay
    \/ \E r \in billAsked :
          \/ BillServe(r)
          \/ FinishData(r) \/ FailData(r) \/ FinishOrders(r) \/ FailOrders(r)

BillingTabSpec == BillingTabInit /\ [][BillingTabNext]_billVars
-----------------------------------------------------------------------------
PaidOrders == {o.n : o \in {x \in billOrders : x.paid}}

(* A payment raises the tenant's plan, unless the plan on the page is not  *)
(* the tenant's: nobody pays for what the tenant has, or to lose it, after *)
(* any sequence of payments, failures and reloads the page knows of.       *)
PaymentsRaisePlans ==
    [][PaidOrders' # PaidOrders
          => tenantPlan' > tenantPlan \/ planShown.plan # tenantPlan]_billVars

(* An order is for the total that the button showed: the page promises     *)
(* prices and discounts that the server makes the order with.              *)
ChargedAsShown == \A o \in billOrders : o.amount = o.total
=============================================================================
