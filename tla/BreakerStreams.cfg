\* Two concurrent streaming chats.
CONSTANTS
    deepseek = deepseek
    Requests = {r1, r2}
    Models <- MCModels
    Configured <- MCModels
    Chains <- MCChains
    StreamModes = {TRUE}
    MaxFailures = 3
    Cooldown = 2

SPECIFICATION HSpec

INVARIANT ConsecutiveFailuresOpen
