\* One part to a behaviour; of the gateway three requests and one update, of the
\* others two or three requests at a time, and every workflow of up to three nodes.
CONSTANTS
    Parts = {"mcp", "rate", "pool", "login", "executor"}
    Requests = {r1, r2, r3}
    Instances = {i1, i2}
    None = None
    MaxUpdates = 1
    Arrivals = {a1, a2}
    Unit = 2
    Capacity = 4
    Rate = 1
    Ttl = 5
    MaxClock = 6
    MaxDelay = 1
    Raters = {f1, f2, f3}
    Cap = 7
    MaxPool = 11
    Logins = {c1, c2, c3}
    QrStates = {s1, s2}
    ann = ann
    ben = ben
    cleo = cleo
    Openids = {ann, ben, cleo}
    PrefixOf <- SomePrefixes
    MaxNodes = 3
    MaxIterations = 1

SPECIFICATION ServicesSpec
CHECK_DEADLOCK FALSE

INVARIANTS
    ServicesTypeOK
    RegistryIsSound
    RacesAlone
    AdmittedWithinRate
    PoolSettlesAtCap
    LoginsHold
    RunsWhatIsReached

PROPERTIES
    ServicesEnd
