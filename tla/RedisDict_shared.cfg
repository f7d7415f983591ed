CONSTANTS
    p1 = p1
    p2 = p2
    k = k
    v = v
    Processes = {p1, p2}
    Keys = {k}
    Values = {v}
    Files <- MCFiles
    Texts <- MCTexts
    TabsOnly = TabsOnly
    Nil = Nil
    blacklist <- MCBlacklist
    MaxRequests = 3
SPECIFICATION Spec
INVARIANTS
    TypeOK
    WritesToldDone
    AnswerWasStored
\* A process may have crashed, and requests are bounded.
CHECK_DEADLOCK FALSE
