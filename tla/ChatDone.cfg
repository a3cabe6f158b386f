\* One chat, one database failure.
CONSTANTS
    Chats = {c1}
    CallLimit = 2
    TokenLimit = 2
    MaxToolRounds = 1
    MaxTools = 1
    MaxTokens = 1
    MaxFaults = 1

SPECIFICATION Spec

INVARIANT NothingFollowsDone
