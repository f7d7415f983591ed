\* Every file of at most two lines, edits, dumps and reloads.
CONSTANTS
    Texts <- MCTexts
    Keys <- MCKeys
    Values = {"v1", "v2"}
    QueryKey <- MCQueryKey
    Tokens <- MCTokens
    Malformed = Malformed
    Files <- MCFiles
    SizeRange = 8
    None = None
    Absent = Absent
    Deleted = Deleted
    MaxCalls = 3
SPECIFICATION Spec
INVARIANTS
    TypeOK
    RecordsIndexed
PROPERTIES
    ReloadKeeps
    ImplementsStore
\* The bound on calls, and a load that fails, end a behaviour.
CHECK_DEADLOCK FALSE
