CONSTANTS
    Threads = {t1, t2}
    Rolls <- MCRolls
    MaxTime = 3
    MaxLines = 3
    PIECES = 2
    NoThread = NoThread
    Stderr = Stderr
SPECIFICATION Spec
INVARIANTS
    TypeOK
    LinesWhole
    LineInItsFile
PROPERTIES
    AppendKeepsLines
    LossNeedsLateThread
    CallsReturn
\* The clock and the lines are bounded.
CHECK_DEADLOCK FALSE
