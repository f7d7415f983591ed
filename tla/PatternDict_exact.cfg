\* A Get whose DFA matched the second of two patterns.
CONSTANTS
    Texts <- MCEditTexts
    Values = {"v1"}
    Queries <- MCQueries
    Prefixes <- MCPrefixes
    EmptyPrefix = ""
    Readers = {r1}
    Files <- MCOneFile
    BuildKey <- MCBuildKey
    QueryKey <- MCQueryKey
    Malformed = "malformed"
    Legal <- MCLegal
    PrefixOf <- MCPrefixOf
    PrefixRank <- MCPrefixRank
    Accepted <- MCAccepted
    PrefixHits <- MCPrefixHits
    DfaMatches <- MCDfaMatches
    FullMatches <- MCFullMatches
    NULL = NULL
    MaxEdits = 0
SPECIFICATION Spec
INVARIANTS
    AnswerExact
\* A load that fails leaves a unit that nobody can call.
CHECK_DEADLOCK FALSE
