\* A reload after the first load.
CONSTANTS
    Texts <- MCEditTexts
    Values = {"v1"}
    Queries <- MCQueries
    Prefixes <- MCPrefixes
    EmptyPrefix = ""
    Readers = {r1}
    Files <- MCTwoFiles
    BuildKey <- MCBuildKey
    QueryKey <- MCQueryKey
    Malformed = "malformed"
    Legal <- MCLegal
    PrefixOf <- MCPrefixOf
    PrefixRank <- MCPrefixRank
    Accepted <- MCAccepted
    PrefixHits <- MCPrefixHits
    DfaMatches <- MCDfaMatches
    FullMatches <- MCFullMatches
    NULL = NULL
    MaxEdits = 1
SPECIFICATION Spec
PROPERTIES
    ReloadBuilds
\* A load that fails leaves a unit that nobody can call.
CHECK_DEADLOCK FALSE
