\* One page to a behaviour, every page.
CONSTANTS
    Visits = {"chat", "workflows", "knowledge", "agents", "mcp", "billing", "keys",
              "team", "forms", "bell", "search", "session", "plugins", "audit"}

    \* Chat: two questions, one conversation made by the page, one click beside them.
    MaxSends = 2
    MaxChats = 1
    MaxClicks = 1
    MaxLoads = 1
    MaxQueue = 1

    \* Workflows
    Workflows = {w1, w2}
    Nodes = {n1, n2}
    Existing = {w1}
    None = None
    MaxEdits = 6

    \* Knowledge
    Bases = {b1, b2}
    Docs = {d1, d2}
    NoBase = NoBase
    ExistingBases = {b1}
    MaxKbClicks = 5

    \* Agents
    Agents = {a1, a2, a3}
    ExistingAgents = {a1, a2}
    NoAgent = NoAgent
    MaxAgentClicks = 5

    \* MCP
    Connectors = {c1, c2}
    ExistingConnectors = {c1}
    NoConnector = NoConnector
    MaxMcpClicks = 5

    \* Settings: billing, keys, team, forms
    ShownPrice <- ShownPrices
    ServerPrice <- ServerPrices
    NoPlan = NoPlan
    Durations = {1, 3}
    MaxPayClicks = 4
    MaxOthers = 1
    Keys = {k1, k2, k3}
    ExistingKeys = {k1}
    NoKey = NoKey
    MaxKeyClicks = 4
    Users = {me, u1}
    Me = me
    NoUser = NoUser
    MaxTeamClicks = 5
    ModelFields = {"default_temperature"}
    GeneralFields = {"platform_name"}
    MaxFormClicks = 2
    MaxOtherSaves = 1

    \* Top bar
    Notices = {i1, i2}
    NoNotice = NoNotice
    MaxPolls = 2
    MaxBellClicks = 2
    MaxLost = 1
    Texts = {"ops", "law"}
    NoText = "none"
    Hits <- SomeHits
    MaxSearchSteps = 5

    \* Session
    MaxTokens = 2
    MaxPolling = 2
    MaxSessionSteps = 5
    MaxSessionLost = 1

    \* Plugins and audit log
    Plugins = {p1, p2}
    NoPlugin = NoPlugin
    MaxPluginClicks = 4
    ExistingPlugins = {p1}
    Filters = {"all", "errors"}
    NoFilter = "all"
    PagesOf <- SomePages
    MaxAuditSteps = 5

SPECIFICATION WebAppSpec

INVARIANTS
    ShownTogetherStoredTogether
    RepliesArrive
    SavesAreOwn
    ListsAreStored
    AnswersBelong

PROPERTIES
    InputComesBack
    PaymentsRaisePlans
    SavesKeepSettings
    UnreadCountSettles
    PagesAreSignedIn

\* A user may leave a page alone.
CHECK_DEADLOCK FALSE
