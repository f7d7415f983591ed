\* An engine with an error, then one that misses.
CONSTANTS
    Engines = {"kv", "pattern", "redis", "bad"}
    Levels = {"level1", "level2", "level9"}
    m_level_pool <- MCLevelPool
    LoadOrder <- MCLoadOrder
    Specs <- MCOneSpec
    Frozen = {"pattern"}
    Remote = {"redis"}
    BadKeyType = {"bad"}
    blacklist <- MCBlacklist
    Keys = {"k", ""}
    EmptyKey = ""
    Callers = {c1}
    NULL = NULL
    MaxHits = 1
    MaxEdits = 0
SPECIFICATION Spec
INVARIANTS
    ErrorIsNegative
\* A crash ends a behaviour.
CHECK_DEADLOCK FALSE
