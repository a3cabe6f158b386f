\* Two concurrent non-streaming chats.
CONSTANTS
    deepseek = deepseek
    Requests = {r1, r2}
    Models <- MCModels
    Configured <- MCModels
    Chains <- MCChains
    StreamModes = {FALSE}
    MaxFailures = 3
    Cooldown = 2

SPECIFICATION HSpec

INVARIANT HalfOpenAdmitsOne
