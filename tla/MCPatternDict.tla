--------------------------- MODULE MCPatternDict ---------------------------
(***************************************************************************)
(* Small instances of PatternDict.  The names stand for these patterns:    *)
(*   "A"  http://a\.com/[a-z]+     "a"  http://com\.a/[a-z]+               *)
(*   "A'" http://com.a\/[a-z]+     "a'" http://a.com\/[a-z]+               *)
(*   "U1" http://a.com/[0-9]+      "u1" http://com.a/[0-9]+                *)
(*   "U2" http://a.com/[a-z]+      "u2" http://com.a/[a-z]+                *)
(*   "B"  http://b/1, refused by RE2::Set   "E"  [a-z]+://b/               *)
(*   "X"  http://b/(, no regex     "M"  b, without a host                  *)
(* GetKey of a file line turns the host round at each "\.", GetKey of a    *)
(* call's key at each ".".                                                 *)
(***************************************************************************)
EXTENDS PatternDict, TLC

MCTexts == {"A", "a", "A'", "a'", "U2", "u2", "B", "E", "X", "M"}

MCEditTexts == {"U1", "U2", "u1", "u2"}

MCBuildKey ==
    [t \in Texts |->
        CASE t = "A" -> "a" [] t = "a" -> "A" [] t = "M" -> Malformed
          [] OTHER -> t]

MCQueryKey ==
    [t \in Texts |->
        CASE t = "A"  -> "A'" [] t = "A'" -> "A"
          [] t = "a"  -> "a'" [] t = "a'" -> "a"
          [] t = "U1" -> "u1" [] t = "u1" -> "U1"
          [] t = "U2" -> "u2" [] t = "u2" -> "U2"
          [] t = "M"  -> Malformed
          [] OTHER -> t]

MCLegal == Texts \ {"X", "M"}

MCAccepted == Texts \ {"B", "X", "M"}

\* A prefix ends before the first character that is special in a regex.
MCPrefixes ==
    {"", "http://a", "http://a.com/", "http://b/1", "http://com", "http://com.a/"}

MCPrefixOf ==
    [t \in Texts |->
        CASE t \in {"E", "M"} -> ""
          [] t \in {"B", "X"} -> "http://b/1"
          [] t = "A" -> "http://a.com/" [] t = "a" -> "http://com.a/"
          [] t \in {"A'", "u1", "u2"} -> "http://com"
          [] OTHER -> "http://a"]

MCPrefixRank ==
    [p \in Prefixes |->
        CASE p = "" -> 0 [] p = "http://a" -> 1 [] p = "http://a.com/" -> 2
          [] p = "http://b/1" -> 3 [] p = "http://com" -> 4
          [] p = "http://com.a/" -> 5]

\* The url http://a.com/x as GetKey gives it, and http://b/1.
MCQueries == {"http://com.a/x", "http://b/1"}

MCPrefixHits ==
    [q \in Queries |-> IF q = "http://b/1" THEN {"http://b/1"}
                                           ELSE {"http://com", "http://com.a/"}]

MCFullMatches ==
    [q \in Queries |-> Texts \intersect
        (IF q = "http://b/1" THEN {"B", "E"} ELSE {"a", "A'", "u2"})]

MCDfaMatches == [q \in Queries |-> MCFullMatches[q] \intersect Accepted]

\* Every file of at most two of these lines, and some of three: two prefixes
\* that a query begins with, in either order, and a prefix with two records.
MCLines == [text : {"A", "u2", "B", "E", "X", "M"}, value : Values]

\* The readers are interchangeable: no property of that run is a liveness one.
MCSymmetry == Permutations(Readers)

LineOf(t) == [text |-> t, value |-> CHOOSE v \in Values : TRUE]

MCFiles ==
    UNION {[1 .. n -> MCLines] : n \in 0 .. 2}
      \union {<<LineOf("A"), LineOf("u2"), LineOf("B")>>,
              <<LineOf("u2"), LineOf("A"), LineOf("u2")>>,
              <<LineOf("B"), LineOf("B"), LineOf("A")>>}

\* A file of two patterns with one prefix, which a query tells apart, and an
\* empty one.
MCTwoFiles == {<<LineOf("u1"), LineOf("u2")>>, <<>>}

MCOneFile == {<<LineOf("u1"), LineOf("u2")>>}
=============================================================================
