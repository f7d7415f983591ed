--------------------------- MODULE MCMatchEngine ---------------------------
(***************************************************************************)
(* One engine of each kind, one of them a whitelist, and one whose key     *)
(* type is unknown.                                                        *)
(***************************************************************************)
EXTENDS MatchEngine

MCLevelPool ==
    [l \in Levels |-> CASE l = "level1" -> <<"kv", "pattern">>
                        [] l = "level2" -> <<"redis", "bad">>
                        [] OTHER        -> <<>>]

MCLoadOrder == <<"kv", "pattern", "redis", "bad">>

MCSpecs == {<<"redis", "bad", "pattern", "kv">>, <<"pattern", "redis", "bad">>}

MCOneSpec == {<<"bad", "kv">>}

MCBlacklist == [e \in Engines |-> e # "pattern"]
=============================================================================
