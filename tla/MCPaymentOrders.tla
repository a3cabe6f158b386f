--------------------------- MODULE MCPaymentOrders ---------------------------
(* PaymentOrders with two of the three plans and one order for each:        *)
(* create_order takes an order for the free plan too, and such an order,    *)
(* paid, takes a tenant back to it.                                         *)
EXTENDS PaymentOrders, TLC

CONSTANTS upgrade, downgrade

MCPlans == {"free", "pro"}
MCPlanOf == (upgrade :> "pro") @@ (downgrade :> "free")

=============================================================================
