---------------------------- MODULE MCHashDict -----------------------------
(***************************************************************************)
(* Small tables: two, three and five buckets.  The list of sizes is not    *)
(* sorted, as PRIMES is not (hash_dict.h:22): the last is never used, and  *)
(* after five none is left.  Most keys share a home bucket.                *)
(***************************************************************************)
EXTENDS HashDict

MCKeys == {0, 4, 5, 10, 14}

MCSizes == <<2, 3, 5, 3>>
=============================================================================
