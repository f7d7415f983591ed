--------------------------- MODULE MCDoubleArray ----------------------------
(***************************************************************************)
(* Blocks of four units and extras for two of them, so that blocks are     *)
(* fixed and slots used again; large offsets from 8 on and none from 32    *)
(* on; a hash table of two buckets that is expanded.  Every list of at     *)
(* most two keys, and of three short ones, in any order; every set of at   *)
(* most MaxKeys in order; and long lists, until the offsets run out.       *)
(***************************************************************************)
EXTENDS DoubleArray

CONSTANTS MaxKeys, MaxLength, MaxValue

MCLabels == 1 .. 2

Words == BoundedSeq(MCLabels, MaxLength)

KeyLess(k, l) == k # l /\ InOrder(k, l)

Pairs(keys) ==
    {[i \in DOMAIN keys |-> [key |-> keys[i], value |-> v[i]]] :
       v \in [DOMAIN keys -> 0 .. MaxValue]}

\* The first words of length at most MaxLength + 1, more than the offsets of a
\* unit reach.
ManyWords ==
    LET words == BoundedSeq(MCLabels, MaxLength + 1) \ {<<>>}
        all   == [n \in 1 .. Cardinality(words) |->
                    CHOOSE k \in words : Cardinality({l \in words : KeyLess(l, k)}) = n - 1]
    IN  {[i \in 1 .. n |-> [key |-> all[i], value |-> i % m]] :
           n \in MaxKeys + 1 .. Len(all), m \in {2, Len(all) + 1}}

MCKeysets ==
    UNION {Pairs(SetToSortSeq(K, KeyLess)) : K \in UNION {kSubset(n, Words \ {<<>>}) : n \in 0 .. MaxKeys}}
      \union {<<[key |-> k, value |-> -1]>> : k \in Words}
      \union UNION {Pairs(keys) : keys \in BoundedSeq(Words, 2)}
      \union {[i \in 1 .. 3 |-> [key |-> keys[i], value |-> 0]] :
                keys \in [1 .. 3 -> BoundedSeq(MCLabels, 2)]}
      \union ManyWords

MCQueries == BoundedSeq(MCLabels, MaxLength + 1)
=============================================================================
