\* Two requests at a time, one failure.
CONSTANTS
    upgrade = upgrade
    downgrade = downgrade
    Orders = {upgrade, downgrade}
    Plans <- MCPlans
    PlanOf <- MCPlanOf
    Free = "free"
    Handlers = {h1, h2}
    MaxFaults = 1

SPECIFICATION Spec

INVARIANTS
    TypeOK
    PaidIffGranted
    AnsweredIsPaid

PROPERTIES
    ImplementsOrderLedger
    ChargedBecomesPaid
    RequestEnds
