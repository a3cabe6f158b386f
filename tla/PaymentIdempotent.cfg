\* Two requests at a time, no failure.
CONSTANTS
    upgrade = upgrade
    downgrade = downgrade
    Orders = {upgrade, downgrade}
    Plans <- MCPlans
    PlanOf <- MCPlanOf
    Free = "free"
    Handlers = {h1, h2}
    MaxFaults = 0

SPECIFICATION Spec

PROPERTY RepeatedCallbackIsIgnored
