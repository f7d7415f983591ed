------------------------------ MODULE MCKvDict ------------------------------
(***************************************************************************)
(* A url, its host and its domain; a file has at most two lines, and may   *)
(* name a record twice.                                                    *)
(***************************************************************************)
EXTENDS KvDict

MCTexts == {"http://x.y.z/1", "x.y.z", "y.z"}

MCJoined == "http://x.y.z/1\tx.y.z\ty.z"

MCKeys == MCTexts \union {MCJoined}

MCQueryKey == [t \in MCTexts |-> IF t = "http://x.y.z/1" THEN MCJoined ELSE t]

MCTokens ==
    [k \in MCKeys |-> IF k = MCJoined THEN <<"http://x.y.z/1", "x.y.z", "y.z">>
                                      ELSE <<k>>]

MCLines == [text : MCTexts, value : Values] \union {Malformed}

MCFiles == UNION {[1 .. n -> MCLines] : n \in 0 .. 2}

=============================================================================
