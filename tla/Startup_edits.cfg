CONSTANTS
    NoString = NoString
    LINE_BUF_SIZE = 16
    Versions <- MCVersions
    Rewrites <- MCRewrites
    Dicts <- MCDicts
    BUFSIZ = 32
    MaxChanges = 4
SPECIFICATION Spec
INVARIANTS
    TypeOK
    LevelsFromFile
PROPERTY
    UnitsFromFile
\* Changes and calls are bounded, and the process may have crashed.
CHECK_DEADLOCK FALSE
