CONSTANTS
    p1 = p1
    m0 = m0
    m1 = m1
    Paths <- MCPaths
    Sizes <- MCSizes
    MemConfigs <- MCMemConfigs
    MemDefault = m0
    NoLimit = NoLimit
    NoResolution = NoResolution
SPECIFICATION Spec
INVARIANTS TypeOK DegradationObservable
CHECK_DEADLOCK FALSE
