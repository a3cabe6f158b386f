\* Two chats at a time, two rounds each.
CONSTANTS
    Chats = {c1, c2}
    CallLimit = 1
    TokenLimit = 2
    MaxToolRounds = 1
    MaxTools = 1
    MaxTokens = 1
    MaxFaults = 1

SPECIFICATION Spec

INVARIANTS
    TypeOK
    QuotaOvershootBounded
    RepliesAreBilled
    UnansweredIsReported
    EndedStreamsAreDone

PROPERTIES
    ChatEnds
