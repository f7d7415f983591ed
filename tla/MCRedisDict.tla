----------------------------- MODULE MCRedisDict ----------------------------
(***************************************************************************)
(* Two processes, one of them with a blacklist, and a handful of requests: *)
(* enough for one that comes late over a later one, and for two processes  *)
(* that write one key.  Keys do not interact: every request names one.     *)
(***************************************************************************)
EXTENDS RedisDict, TLC

CONSTANTS p1, p2, k, v

MCBlacklist == (p1 :> TRUE) @@ (p2 :> FALSE)
MCFiles == {<<<<k>>, <<k, v>>>>}
MCTexts == {<<>>, <<v>>, <<v, v>>, TabsOnly}
=============================================================================
