\* Files of two and three lines, two Gets beside an edit or a reload.
CONSTANTS
    Texts <- MCTexts
    Values = {"v1"}
    Queries <- MCQueries
    Prefixes <- MCPrefixes
    EmptyPrefix = ""
    Readers = {r1, r2}
    Files <- MCFiles
    BuildKey <- MCBuildKey
    QueryKey <- MCQueryKey
    Malformed = "malformed"
    Legal <- MCLegal
    PrefixOf <- MCPrefixOf
    PrefixRank <- MCPrefixRank
    Accepted <- MCAccepted
    PrefixHits <- MCPrefixHits
    DfaMatches <- MCDfaMatches
    FullMatches <- MCFullMatches
    NULL = NULL
    MaxEdits = 1
SPECIFICATION Spec
SYMMETRY MCSymmetry
INVARIANTS
    TypeOK
    CrashesOnlyAtDfa
    SnapshotConsistent
    SnapshotComplete
    AnswerSize
\* A load that fails leaves a unit that nobody can call.
CHECK_DEADLOCK FALSE
