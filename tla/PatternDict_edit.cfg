\* Two readers beside a writer that edits and reloads a published dictionary.
CONSTANTS
    Texts <- MCEditTexts
    Values = {"v1"}
    Queries <- MCQueries
    Prefixes <- MCPrefixes
    EmptyPrefix = ""
    Readers = {r1, r2}
    Files <- MCTwoFiles
    BuildKey <- MCBuildKey
    QueryKey <- MCQueryKey
    Malformed = "malformed"
    Legal <- MCLegal
    PrefixOf <- MCPrefixOf
    PrefixRank <- MCPrefixRank
    Accepted <- MCAccepted
    PrefixHits <- MCPrefixHits
    DfaMatches <- MCDfaMatches
    FullMatches <- MCFullMatches
    NULL = NULL
    MaxEdits = 2
SPECIFICATION Spec
PROPERTIES
    ReadSideFrozen
    ImplementsMatcher
    LoadEnds
    GetReturns
\* A load that fails leaves a unit that nobody can call.
CHECK_DEADLOCK FALSE
