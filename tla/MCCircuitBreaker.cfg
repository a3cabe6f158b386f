\* Two concurrent chats, both argument values of "stream".
CONSTANTS
    deepseek = deepseek
    qwen = qwen
    anthropic = anthropic
    Requests = {r1, r2}
    Models <- MCModels
    Configured <- MCConfigured
    Chains <- MCChains
    StreamModes = {TRUE, FALSE}
    MaxFailures = 3
    Cooldown = 2

SPECIFICATION Spec

INVARIANTS
    TypeOK
    OpenAtThreshold
    ReliableCandidateAnswers

PROPERTIES
    CoolingModelIsLeftAlone
    ImplementsBreakerStates
    BreakerRecovers
