----------------------------- MODULE OrderLedger -----------------------------
(***************************************************************************)
(* What the payment service promises of one tenant's orders and plan,      *)
(* without requests, transactions or payment providers: an order becomes   *)
(* paid in the step that grants its plan, and never stops being paid.      *)
(* PaymentOrders implements this module.                                   *)
(*                                                                         *)
(* Settle may be taken again for an order that is paid already.  The code  *)
(* means it not to be (see RepeatedCallbackIsIgnored in PaymentOrders).    *)
(***************************************************************************)
CONSTANTS
    Orders,  \* the tenant's orders
    Plans,   \* the keys of PLAN_PRICES
    PlanOf,  \* the plan each order buys
    Free     \* the plan a tenant starts with

VARIABLES
    status,  \* status[o] \in {"absent", "pending", "paid"}
    plan     \* the tenant's plan

ledger == <<status, plan>>

Init ==
    /\ status = [o \in Orders |-> "absent"]
    /\ plan = Free

Open(o) ==
    /\ status[o] = "absent"
    /\ status' = [status EXCEPT ![o] = "pending"]
    /\ UNCHANGED plan

\* Paying and granting the plan are one step.
Settle(o) ==
    /\ status[o] # "absent"
    /\ status' = [status EXCEPT ![o] = "paid"]
    /\ plan' = PlanOf[o]

\* The plan is set without an order.
Grant(p) ==
    /\ plan' = p
    /\ UNCHANGED status

Next ==
    \/ \E o \in Orders : Open(o) \/ Settle(o)
    \/ \E p \in Plans : Grant(p)

Spec == Init /\ [][Next]_ledger

=============================================================================
