\* Two callers beside edits and reloads.
CONSTANTS
    Engines = {"kv", "pattern", "redis", "bad"}
    Levels = {"level1", "level2", "level9"}
    m_level_pool <- MCLevelPool
    LoadOrder <- MCLoadOrder
    Specs <- MCSpecs
    Frozen = {"pattern"}
    Remote = {"redis"}
    BadKeyType = {"bad"}
    blacklist <- MCBlacklist
    Keys = {"k", ""}
    EmptyKey = ""
    Callers = {c1, c2}
    NULL = NULL
    MaxHits = 1
    MaxEdits = 2
SPECIFICATION Spec
INVARIANTS
    TypeOK
    ReturnCode
\* A crash ends a behaviour.
CHECK_DEADLOCK FALSE
