------------------------- MODULE DoubleArrayProofs -------------------------
(***************************************************************************)
(* Proofs about Dawg and DoubleArray, for every list of keys, every size   *)
(* of block, number of extra blocks and size of the hash table.            *)
(***************************************************************************)
EXTENDS DoubleArray, SequenceTheorems, FiniteSetTheorems, FunctionTheorems,
        NaturalsInduction, WellFoundedInduction, TLAPS

\* A set of numbers that is not empty has a least one.
LEMMA LeastNumber ==
    ASSUME NEW S \in SUBSET Nat, S # {}
    PROVE  \E m \in S : \A n \in S : ~ (n < m)
<1>1. PICK m \in S : \A n \in S : ~ (<<n, m>> \in OpToRel(<, Nat))
  BY WFMin, NatLessThanWellFounded
<1>2. \A n \in S : ~ (n < m)
  BY <1>1 DEF OpToRel
<1> QED
  BY <1>2

\* A bounded set of numbers that is not empty has a greatest one.
LEMMA GreatestNumber ==
    ASSUME NEW S \in SUBSET Nat, S # {}, NEW b \in Nat, \A n \in S : n <= b
    PROVE  \E m \in S : \A n \in S : n <= m
<1>1. PICK T : T = {b - n : n \in S}
  OBVIOUS
<1> T \in SUBSET Nat
  BY <1>1
<1>2. T # {}
  BY <1>1
<1>3. PICK t \in T : \A n \in T : ~ (n < t)
  BY <1>2, LeastNumber
<1>4. PICK m \in S : t = b - m
  BY <1>1, <1>3
<1>5. ASSUME NEW n \in S PROVE n <= m
  <2>1. b - n \in T
    BY <1>1
  <2> QED
    BY <1>3, <1>4, <2>1
<1> QED
  BY <1>5

\* A function on 1..n is a sequence of length n.
LEMMA FunctionIsSeq ==
    ASSUME NEW S, NEW n \in Nat, NEW f \in [1 .. n -> S]
    PROVE  f \in Seq(S) /\ Len(f) = n
<1>1. f \in Seq(S)
  BY SeqDef
<1>2. DOMAIN f = 1 .. n /\ DOMAIN f = 1 .. Len(f) /\ Len(f) \in Nat
  BY <1>1, LenProperties
<1> QED
  BY <1>1, <1>2

--------
(***************************************************************************)
(* Sets of numbers in order, and the calls for the children.               *)
(***************************************************************************)

\* How many numbers of a set are below one of it.
Rank(S, x) == Cardinality({y \in S : y < x})

\* Ranks are below the size of the set and grow with the numbers.
LEMMA RanksGrow ==
    ASSUME NEW S \in SUBSET Int, IsFiniteSet(S)
    PROVE  /\ Cardinality(S) \in Nat
           /\ \A x \in S : Rank(S, x) \in 0 .. Cardinality(S) - 1
           /\ \A x, z \in S : x < z => Rank(S, x) < Rank(S, z)
<1>1. Cardinality(S) \in Nat
  BY FS_CardinalityType
<1>2. ASSUME NEW x \in S
      PROVE  /\ IsFiniteSet({y \in S : y < x})
             /\ Cardinality({y \in S : y < x}) \in 0 .. Cardinality(S) - 1
  <2>1. PICK B : B = {y \in S : y < x}
    OBVIOUS
  <2>2. B \in SUBSET S /\ x \notin B
    BY <2>1
  <2>3. IsFiniteSet(B) /\ Cardinality(B) <= Cardinality(S)
        /\ (Cardinality(S) = Cardinality(B) => S = B)
    BY <2>2, FS_Subset
  <2>4. Cardinality(B) \in Nat
    BY <2>3, FS_CardinalityType
  <2>5. Cardinality(B) # Cardinality(S)
    BY <2>2, <2>3
  <2> QED
    BY <1>1, <2>1, <2>3, <2>4, <2>5
<1>3. ASSUME NEW x \in S, NEW z \in S, x < z
      PROVE  Cardinality({y \in S : y < x}) < Cardinality({y \in S : y < z})
  <2>1. PICK B : B = {y \in S : y < x}
    OBVIOUS
  <2>2. PICK C : C = {y \in S : y < z}
    OBVIOUS
  <2> x \in Int /\ z \in Int
    OBVIOUS
  <2>6. \A y \in S : y \in Int
    OBVIOUS
  <2>7. \A y \in S : y < x => y < z
    BY <1>3, <2>6
  <2>3. B \in SUBSET C /\ x \in C /\ x \notin B
    <3>1. \A y \in B : y \in C
      BY <2>1, <2>2, <2>7
    <3>2. x \in C
      BY <1>3, <2>2
    <3>3. x \notin B
      BY <2>1
    <3> QED
      BY <3>1, <3>2, <3>3
  <2>4. IsFiniteSet(C) /\ Cardinality(C) \in Nat /\ Cardinality(B) \in Nat
    BY <1>1, <1>2, <2>1, <2>2
  <2>5. Cardinality(B) <= Cardinality(C) /\ (Cardinality(C) = Cardinality(B) => C = B)
    BY <2>3, <2>4, FS_Subset
  <2> QED
    BY <2>1, <2>2, <2>3, <2>4, <2>5
<1> QED
  BY <1>1, <1>2, <1>3 DEF Rank

\* Sorted lists the numbers of a finite set, each once, the smallest first.
LEMMA SortedIs ==
    ASSUME NEW S \in SUBSET Int, IsFiniteSet(S)
    PROVE  /\ Cardinality(S) \in Nat
           /\ Sorted(S) \in Seq(S)
           /\ Len(Sorted(S)) = Cardinality(S)
           /\ DOMAIN Sorted(S) = 1 .. Cardinality(S)
           /\ \A n \in 1 .. Cardinality(S) : Sorted(S)[n] \in S
           /\ \A m, n \in 1 .. Cardinality(S) : m < n => Sorted(S)[m] < Sorted(S)[n]
           /\ \A x \in S : \E n \in 1 .. Cardinality(S) : Sorted(S)[n] = x
<1>1. PICK c \in Nat : c = Cardinality(S)
  BY RanksGrow
<1>2. \A x \in S : Rank(S, x) \in 0 .. c - 1
  BY <1>1, RanksGrow
<1>3. \A x, z \in S : x < z => Rank(S, x) < Rank(S, z)
  BY RanksGrow
<1>4. \A x, z \in S : Rank(S, x) = Rank(S, z) => x = z
  <2> SUFFICES ASSUME NEW x \in S, NEW z \in S, Rank(S, x) = Rank(S, z), x # z PROVE FALSE
    OBVIOUS
  <2>1. x < z \/ z < x
    OBVIOUS
  <2>2. Rank(S, x) \in Int /\ Rank(S, z) \in Int
    BY <1>2
  <2> QED
    BY <1>3, <2>1, <2>2
<1>5. PICK f : f = [x \in S |-> Rank(S, x) + 1]
  OBVIOUS
<1>6. f \in Injection(S, 1 .. c)
  <2>1. f \in [S -> 1 .. c]
    BY <1>2, <1>5
  <2>2. \A x, z \in S : f[x] = f[z] => x = z
    <3> SUFFICES ASSUME NEW x \in S, NEW z \in S, f[x] = f[z] PROVE x = z
      OBVIOUS
    <3>1. Rank(S, x) + 1 = Rank(S, z) + 1 /\ Rank(S, x) \in Int /\ Rank(S, z) \in Int
      BY <1>2, <1>5
    <3> QED
      BY <1>4, <3>1
  <2> QED
    BY <2>1, <2>2 DEF Injection, IsInjective
<1>7. IsFiniteSet(1 .. c) /\ Cardinality(1 .. c) = c
  BY FS_Interval
<1>8. f \in Surjection(S, 1 .. c)
  BY <1>1, <1>6, <1>7, FS_Injection
<1>9. \A n \in 1 .. c : \E x \in S : Rank(S, x) = n - 1
  <2> SUFFICES ASSUME NEW n \in 1 .. c PROVE \E x \in S : Rank(S, x) = n - 1
    OBVIOUS
  <2>1. PICK x \in S : f[x] = n
    BY <1>8 DEF Surjection
  <2>2. Rank(S, x) + 1 = n /\ Rank(S, x) \in Int
    BY <1>2, <1>5, <2>1
  <2> QED
    BY <2>2
<1>10. PICK s : s = [n \in 1 .. c |-> CHOOSE x \in S : Rank(S, x) = n - 1]
  OBVIOUS
<1>11. s = Sorted(S)
  BY <1>1, <1>10 DEF Sorted, Rank
<1>12. \A n \in 1 .. c : s[n] \in S /\ Rank(S, s[n]) = n - 1
  BY <1>9, <1>10
<1>13. s \in [1 .. c -> S]
  BY <1>10, <1>12
<1>14. s \in Seq(S) /\ Len(s) = c
  BY <1>13, FunctionIsSeq
<1>15. ASSUME NEW m \in 1 .. c, NEW n \in 1 .. c, m < n PROVE s[m] < s[n]
  <2>1. s[m] \in Int /\ s[n] \in Int /\ s[m] \in S /\ s[n] \in S
    BY <1>12
  <2>3. ~ (Rank(S, s[n]) < Rank(S, s[m])) /\ Rank(S, s[m]) # Rank(S, s[n])
    BY <1>12, <1>15
  <2>4. CASE s[m] = s[n]
    BY <2>3, <2>4
  <2>5. CASE s[n] < s[m]
    BY <1>3, <2>1, <2>3, <2>5
  <2> QED
    BY <2>1, <2>4, <2>5
<1>16. ASSUME NEW x \in S PROVE \E n \in 1 .. c : s[n] = x
  <2>1. PICK n : n = Rank(S, x) + 1
    OBVIOUS
  <2>2. n \in 1 .. c /\ Rank(S, x) = n - 1
    BY <1>2, <2>1
  <2>3. s[n] \in S /\ Rank(S, s[n]) = n - 1
    BY <1>12, <2>2
  <2> QED
    BY <1>4, <2>2, <2>3
<1> QED
  BY <1>1, <1>11, <1>12, <1>13, <1>14, <1>15, <1>16

\* The positions of the children that do not end a key.
Inner(kids) == {i \in DOMAIN kids : kids[i].label # 0}

\* The m calls for children are those at these positions.
CallsAt(kids, m, at) ==
    /\ at \in [1 .. m -> Inner(kids)]
    /\ Calls(kids) = [c \in 1 .. m |-> kids[at[c]]]
    /\ \A b, c \in 1 .. m : at[b] = at[c] => b = c
    /\ \A i \in Inner(kids) : \E c \in 1 .. m : at[c] = i

\* Calls has each child that does not end a key once.
LEMMA CallsAre ==
    ASSUME NEW kids, NEW n \in Nat, DOMAIN kids = 1 .. n
    PROVE  \E m \in Nat : \E at : CallsAt(kids, m, at)
<1>1. PICK S : S = Inner(kids)
  OBVIOUS
<1>2. S \in SUBSET (1 .. n) /\ S \in SUBSET Int
  BY <1>1 DEF Inner
<1>3. IsFiniteSet(1 .. n)
  BY FS_Interval
<1>4. IsFiniteSet(S)
  BY <1>2, <1>3, FS_Subset
<1>5. PICK s : s = Sorted(S)
  OBVIOUS
<1>6. PICK m \in Nat : m = Cardinality(S)
  BY <1>2, <1>4, SortedIs
<1>7. s \in Seq(S) /\ Len(s) = m /\ DOMAIN s = 1 .. m /\ \A i \in 1 .. m : s[i] \in S
  BY <1>2, <1>4, <1>5, <1>6, SortedIs
<1>8. \A i, j \in 1 .. m : i < j => s[i] < s[j]
  BY <1>2, <1>4, <1>5, <1>6, SortedIs
<1>9. \A x \in S : \E i \in 1 .. m : s[i] = x
  BY <1>2, <1>4, <1>5, <1>6, SortedIs
<1>10. PICK at : at = [c \in 1 .. m |-> s[m - c + 1]]
  OBVIOUS
<1>11. \A c \in 1 .. m : m - c + 1 \in 1 .. m
  OBVIOUS
<1>12. at \in [1 .. m -> S]
  BY <1>7, <1>10, <1>11
<1>13. at = Reverse(s)
  BY <1>7, <1>10 DEF Reverse
<1>14. Calls(kids) = [c \in DOMAIN Reverse(s) |-> kids[Reverse(s)[c]]]
  BY <1>1, <1>5 DEF Calls, Inner
<1>15. Calls(kids) = [c \in 1 .. m |-> kids[at[c]]]
  BY <1>12, <1>13, <1>14
<1>16. ASSUME NEW b \in 1 .. m, NEW c \in 1 .. m, at[b] = at[c] PROVE b = c
  <2>1. s[m - b + 1] = s[m - c + 1] /\ m - b + 1 \in 1 .. m /\ m - c + 1 \in 1 .. m
    BY <1>10, <1>11, <1>16
  <2>2. s[m - b + 1] \in Int /\ s[m - c + 1] \in Int
    BY <1>2, <1>7, <2>1
  <2>3. ~ (m - b + 1 < m - c + 1) /\ ~ (m - c + 1 < m - b + 1)
    BY <1>8, <2>1, <2>2
  <2> QED
    BY <2>3
<1>17. ASSUME NEW i \in S PROVE \E c \in 1 .. m : at[c] = i
  <2>1. PICK j \in 1 .. m : s[j] = i
    BY <1>9
  <2>2. m - j + 1 \in 1 .. m /\ m - (m - j + 1) + 1 = j
    OBVIOUS
  <2> QED
    BY <1>10, <2>1, <2>2
<1>18. CallsAt(kids, m, at)
  BY <1>1, <1>12, <1>15, <1>16, <1>17 DEF CallsAt
<1> QED
  BY <1>6, <1>18

\* The sequence s has g in the place of the last element of t.
Replaced(s, t, g) ==
    /\ Len(s) = Len(t) - 1 + Len(g)
    /\ \A i \in 1 .. Len(t) - 1 : s[i] = t[i]
    /\ \A i \in 1 .. Len(g) : s[Len(t) - 1 + i] = g[i]

\* What is left of a stack of calls when its last one is replaced.
LEMMA StackAfter ==
    ASSUME NEW S, NEW T, NEW t \in Seq(S), t # <<>>, NEW g \in Seq(T)
    PROVE  Front(t) \o g \in Seq(S \union T) /\ Replaced(Front(t) \o g, t, g)
<1>1. Len(t) \in Nat \ {0} /\ Len(g) \in Nat
  BY LenProperties, EmptySeq
<1>2. Front(t) \in Seq(S) /\ Len(Front(t)) = Len(t) - 1
      /\ \A i \in 1 .. Len(t) - 1 : Front(t)[i] = t[i]
  <2>1. \A i \in 1 .. Len(t) - 1 : t[i] \in S
    BY <1>1, ElementOfSeq
  <2>2. Len(t) - 1 \in Int /\ 1 \in Int
    BY <1>1
  <2>3. /\ SubSeq(t, 1, Len(t) - 1) \in Seq(S)
        /\ Len(SubSeq(t, 1, Len(t) - 1))
              = IF 1 <= Len(t) - 1 THEN Len(t) - 1 - 1 + 1 ELSE 0
        /\ \A i \in 1 .. Len(t) - 1 - 1 + 1 : SubSeq(t, 1, Len(t) - 1)[i] = t[1 + i - 1]
    BY <2>1, <2>2, SubSeqProperties
  <2>4. \A i \in 1 .. Len(t) - 1 : i \in 1 .. Len(t) - 1 - 1 + 1 /\ 1 + i - 1 = i
    BY <1>1
  <2>5. PICK a \in Nat \ {0} : a = Len(t)
    BY <1>1
  <2>6. PICK f : f = SubSeq(t, 1, Len(t) - 1)
    OBVIOUS
  <2>7. Len(f) = a - 1
    BY <2>3, <2>5, <2>6
  <2>8. \A i \in 1 .. Len(t) - 1 : f[i] = t[i]
    BY <2>3, <2>4, <2>6
  <2>9. f = Front(t)
    BY <2>6 DEF Front
  <2> QED
    BY <2>3, <2>5, <2>6, <2>7, <2>8, <2>9
<1>3. Front(t) \in Seq(S \union T) /\ g \in Seq(S \union T)
  BY <1>2
<1>4. PICK f \in Seq(S \union T) : f = Front(t)
  BY <1>3
<1>5. PICK h \in Seq(S \union T) : h = g
  BY <1>3
<1>6. f \o h \in Seq(S \union T) /\ Len(f \o h) = Len(f) + Len(h)
      /\ \A i \in 1 .. Len(f) + Len(h) :
            (f \o h)[i] = IF i <= Len(f) THEN f[i] ELSE h[i - Len(f)]
  BY ConcatProperties
<1>7. \A i \in 1 .. Len(t) - 1 : (f \o h)[i] = t[i]
  BY <1>1, <1>2, <1>4, <1>5, <1>6
<1>8. \A i \in 1 .. Len(g) : (f \o h)[Len(t) - 1 + i] = g[i]
  <2> SUFFICES ASSUME NEW i \in 1 .. Len(g) PROVE (f \o h)[Len(t) - 1 + i] = g[i]
    OBVIOUS
  <2>1. Len(t) - 1 + i \in 1 .. Len(f) + Len(h) /\ ~ (Len(t) - 1 + i <= Len(f))
        /\ Len(t) - 1 + i - Len(f) = i
    <3>1. PICK a \in Nat \ {0} : a = Len(t)
      BY <1>1
    <3>2. PICK d \in Nat : d = Len(g)
      BY <1>1
    <3>3. Len(f) = a - 1 /\ Len(h) = d
      BY <1>2, <1>4, <1>5, <3>1, <3>2
    <3> QED
      BY <3>1, <3>2, <3>3
  <2> QED
    BY <1>5, <1>6, <2>1
<1> QED
  BY <1>1, <1>2, <1>4, <1>5, <1>6, <1>7, <1>8 DEF Replaced

--------
(***************************************************************************)
(* The order of keys.                                                      *)
(***************************************************************************)

\* What IsPrefix says, character by character.
LEMMA PrefixIs ==
    ASSUME NEW S, NEW k \in Seq(S), NEW l \in Seq(S)
    PROVE  IsPrefix(k, l) <=> Len(k) <= Len(l) /\ \A i \in 1 .. Len(k) : k[i] = l[i]
<1>1. PICK a \in Nat : a = Len(k)
  BY LenProperties
<1>2. PICK b \in Nat : b = Len(l)
  BY LenProperties
<1>3. k \in [1 .. a -> S] /\ l \in [1 .. b -> S]
  BY <1>1, <1>2, LenProperties
<1>4. ASSUME a <= b PROVE SubSeq(k, 1, a) = SubSeq(l, 1, a) <=> \A i \in 1 .. a : k[i] = l[i]
  <2>1. PICK f : f = SubSeq(k, 1, a)
    OBVIOUS
  <2>2. PICK g : g = SubSeq(l, 1, a)
    OBVIOUS
  <2>3. \A i \in 1 .. a : k[i] \in S
    BY <1>3
  <2>4. \A i \in 1 .. a : l[i] \in S
    BY <1>3, <1>4
  <2>5. f \in Seq(S) /\ Len(f) = a /\ \A i \in 1 .. a : f[i] = k[i]
    BY <2>1, <2>3, SubSeqProperties
  <2>6. g \in Seq(S) /\ Len(g) = a /\ \A i \in 1 .. a : g[i] = l[i]
    BY <2>2, <2>4, SubSeqProperties
  <2>7. f \in [1 .. a -> S] /\ g \in [1 .. a -> S]
    BY <2>5, <2>6, LenProperties
  <2>8. f = g <=> \A i \in 1 .. a : f[i] = g[i]
    BY <2>7
  <2> QED
    BY <2>1, <2>2, <2>5, <2>6, <2>8
<1>5. IsPrefix(k, l) <=> a <= b /\ SubSeq(k, 1, a) = SubSeq(l, 1, a)
  BY <1>1, <1>2 DEF IsPrefix
<1> QED
  BY <1>1, <1>2, <1>4, <1>5

\* CharAt is a label inside the key and 0 behind it.
LEMMA CharIs ==
    ASSUME NEW k \in Seq(Labels), NEW p \in Nat \ {0}
    PROVE  /\ Len(k) \in Nat
           /\ CharAt(k, p) \in Nat
           /\ p <= Len(k) => CharAt(k, p) = k[p] /\ CharAt(k, p) \in Labels /\ CharAt(k, p) > 0
           /\ ~ (p <= Len(k)) => CharAt(k, p) = 0
<1>1. Len(k) \in Nat
  BY LenProperties
<1>2. p <= Len(k) => k[p] \in Labels
  BY <1>1, ElementOfSeq
<1>3. \A l \in Labels : l \in Nat /\ l > 0
  BY LabelsAssumption
<1> QED
  BY <1>1, <1>2, <1>3 DEF CharAt

\* Two keys that agree up to position d, where neither ends before, are in
\* order or not as their characters there are.
LEMMA OrderAt ==
    ASSUME NEW k \in Seq(Labels), NEW l \in Seq(Labels), NEW d \in Nat \ {0},
           \A p \in 1 .. d - 1 : CharAt(k, p) = CharAt(l, p) /\ CharAt(k, p) # 0
    PROVE  /\ CharAt(k, d) < CharAt(l, d) => InOrder(k, l)
           /\ CharAt(k, d) > CharAt(l, d) => ~ InOrder(k, l)
           /\ CharAt(k, d) = 0 /\ CharAt(l, d) = 0 => k = l /\ InOrder(k, l)
<1>1. PICK a \in Nat : a = Len(k)
  BY LenProperties
<1>2. PICK b \in Nat : b = Len(l)
  BY LenProperties
<1>3. DOMAIN k = 1 .. a /\ DOMAIN l = 1 .. b
  BY <1>1, <1>2, LenProperties
<1>4. d - 1 <= a /\ d - 1 <= b
  <2>1. CASE d = 1
    BY <2>1
  <2>2. CASE d # 1
    <3>1. d - 1 \in 1 .. d - 1 /\ d - 1 \in Nat \ {0}
      BY <2>2
    <3>2. CharAt(k, d - 1) # 0 /\ CharAt(l, d - 1) # 0
      BY <3>1
    <3> QED
      BY <1>1, <1>2, <3>1, <3>2, CharIs
  <2> QED
    BY <2>1, <2>2
<1>5. \A p \in 1 .. d - 1 : k[p] = l[p]
  <2> SUFFICES ASSUME NEW p \in 1 .. d - 1 PROVE k[p] = l[p]
    OBVIOUS
  <2>1. p \in Nat \ {0} /\ p <= a /\ p <= b
    BY <1>4
  <2>2. CharAt(k, p) = k[p] /\ CharAt(l, p) = l[p]
    BY <1>1, <1>2, <2>1, CharIs
  <2> QED
    BY <2>2
<1>6. IsPrefix(k, l) <=> a <= b /\ \A i \in 1 .. a : k[i] = l[i]
  BY <1>1, <1>2, PrefixIs
<1>7. ASSUME CharAt(k, d) < CharAt(l, d) PROVE InOrder(k, l)
  <2>1. CharAt(l, d) # 0
    BY <1>7, CharIs
  <2>2. d <= b
    BY <1>2, <2>1, CharIs
  <2>3. CASE d <= a
    <3>1. k[d] < l[d] /\ d \in DOMAIN k \cap DOMAIN l
      <4>1. CharAt(k, d) = k[d]
        BY <1>1, <2>3, CharIs
      <4>2. CharAt(l, d) = l[d]
        BY <1>2, <2>2, CharIs
      <4>3. d \in 1 .. a /\ d \in 1 .. b
        BY <2>2, <2>3
      <4> QED
        BY <1>3, <1>7, <4>1, <4>2, <4>3
    <3> QED
      BY <1>5, <3>1 DEF InOrder
  <2>4. CASE ~ (d <= a)
    <3>1. a = d - 1
      BY <1>4, <2>4
    <3>2. IsPrefix(k, l)
      BY <1>4, <1>5, <1>6, <3>1
    <3> QED
      BY <3>2 DEF InOrder
  <2> QED
    BY <2>3, <2>4
<1>8. ASSUME CharAt(k, d) > CharAt(l, d), InOrder(k, l) PROVE FALSE
  <2>1. CharAt(k, d) # 0 /\ CharAt(k, d) \in Nat /\ CharAt(l, d) \in Nat
    BY <1>8, CharIs
  <2>2. d <= a /\ CharAt(k, d) = k[d]
    BY <1>1, <2>1, CharIs
  <2>3. d <= b => CharAt(l, d) = l[d]
    BY <1>2, CharIs
  <2>4. CASE IsPrefix(k, l)
    <3>1. d <= b /\ k[d] = l[d]
      BY <1>6, <2>2, <2>4
    <3> QED
      BY <1>8, <2>1, <2>2, <2>3, <3>1
  <2>5. CASE ~ IsPrefix(k, l)
    <3>1. PICK i \in DOMAIN k \cap DOMAIN l :
            k[i] < l[i] /\ \A j \in 1 .. i - 1 : k[j] = l[j]
      BY <1>8, <2>5 DEF InOrder
    <3>2. i \in 1 .. a /\ i \in 1 .. b
      BY <1>3, <3>1
    <3>3. k[i] \in Int /\ l[i] \in Int /\ k[i] # l[i]
      <4>1. k[i] \in Labels /\ l[i] \in Labels
        BY <1>1, <1>2, <3>2, ElementOfSeq
      <4> QED
        <5>3. \A x \in Labels : x \in Int
          BY LabelsAssumption
        <5>1. k[i] \in Int /\ l[i] \in Int
          BY <4>1, <5>3
        <5>2. k[i] < l[i]
          BY <3>1
        <5> QED
          BY <5>1, <5>2
    <3>4. ~ (i \in 1 .. d - 1)
      BY <1>5, <3>3
    <3>5. CASE i = d
      <4>1. d <= b /\ k[d] < l[d]
        BY <3>1, <3>2, <3>5
      <4> QED
        BY <1>8, <2>1, <2>2, <2>3, <4>1
    <3>6. CASE i > d
      <4>1. d \in 1 .. i - 1 /\ d <= b
        BY <3>2, <3>6
      <4> QED
        BY <1>8, <2>1, <2>2, <2>3, <3>1, <4>1
    <3> QED
      BY <3>2, <3>4, <3>5, <3>6
  <2> QED
    BY <2>4, <2>5
<1>9. ASSUME CharAt(k, d) = 0, CharAt(l, d) = 0 PROVE k = l /\ InOrder(k, l)
  <2>1. ~ (d <= a) /\ ~ (d <= b)
    BY <1>1, <1>2, <1>9, CharIs
  <2>2. a = d - 1 /\ b = d - 1
    BY <1>4, <2>1
  <2>3. IsPrefix(k, l)
    BY <1>5, <1>6, <2>2
  <2>4. k = l
    <3>1. k \in [1 .. a -> Labels] /\ l \in [1 .. a -> Labels]
      BY <1>1, <1>2, <2>2, LenProperties
    <3> QED
      BY <1>5, <2>2, <3>1
  <2> QED
    BY <2>3, <2>4 DEF InOrder
<1> QED
  BY <1>7, <1>8, <1>9

--------
(***************************************************************************)
(* The calls of a build without values.                                    *)
(***************************************************************************)

\* The keys of a call share the characters in front of its depth.
Shares(f) ==
    /\ f.begin \in 1 .. Len(keyset)
    /\ f.end \in f.begin + 1 .. Len(keyset) + 1
    /\ f.depth \in Nat \ {0}
    /\ \A i \in f.begin .. f.end - 1 : \A p \in 1 .. f.depth - 1 :
          KeyChar(i, p) = KeyChar(f.begin, p) /\ KeyChar(i, p) # 0

\* The keys of a list are sequences of labels.
LEMMA KeysTyped ==
    ASSUME keyset \in Keysets
    PROVE  /\ Len(keyset) \in Nat
           /\ DOMAIN keyset = 1 .. Len(keyset)
           /\ \A i \in 1 .. Len(keyset) : keyset[i].key \in Seq(Labels)
           /\ \A i \in 1 .. Len(keyset) : keyset[i].value \in Int
<1> DEFINE R == [key : Seq(Labels), value : Int]
<1>1. keyset \in Seq(R)
  BY KeysetAssumption
<1>2. Len(keyset) \in Nat /\ DOMAIN keyset = 1 .. Len(keyset)
      /\ \A i \in 1 .. Len(keyset) : keyset[i] \in R
  BY <1>1, LenProperties, ElementOfSeq
<1> QED
  BY <1>2

\* The child of a call for the keys that start at one of starts.
RunFrom(f, starts, n) ==
    [label |-> KeyChar(starts[n], f.depth), value |-> Value(starts[n]), begin |-> starts[n],
     end |-> IF n = Len(starts) THEN f.end ELSE starts[n + 1]]

\* The children of a call are runs of keys with one character at its depth,
\* one after the other.
KidRuns(f, kids, n) ==
    /\ DOMAIN kids = 1 .. n
    /\ kids \in [1 .. n -> {kids[c] : c \in 1 .. n}]
    /\ Len(kids) = n
    /\ \A c \in 1 .. n :
         /\ kids[c].begin \in f.begin .. f.end - 1
         /\ kids[c].end \in kids[c].begin + 1 .. f.end
         /\ kids[c].value = Value(kids[c].begin)
         /\ \A i \in kids[c].begin .. kids[c].end - 1 : KeyChar(i, f.depth) = kids[c].label
         /\ kids[c].end # f.end =>
               KeyChar(kids[c].end - 1, f.depth) # KeyChar(kids[c].end, f.depth)
         /\ c = n => kids[c].end = f.end
         /\ c < n => kids[c + 1].begin = kids[c].end
    /\ \A i \in f.begin .. f.end - 1 :
         \E c \in 1 .. n : kids[c].begin <= i /\ i < kids[c].end

\* KeysetKids gives those runs.
LEMMA KidsAre ==
    ASSUME NEW f, f.begin \in Nat \ {0}, f.end \in Nat, f.begin < f.end
    PROVE  \E n \in Nat \ {0} : KidRuns(f, KeysetKids(f), n)
<1>1. PICK S : S = {i \in f.begin .. f.end - 1 :
                      \/ i = f.begin
                      \/ KeyChar(i - 1, f.depth) # KeyChar(i, f.depth)}
  OBVIOUS
<1>2. S \in SUBSET (f.begin .. f.end - 1) /\ S \in SUBSET Int /\ f.begin \in S
  BY <1>1
<1>3. IsFiniteSet(S)
  <2>1. IsFiniteSet(f.begin .. f.end - 1)
    <3>1. f.begin \in Int /\ f.end - 1 \in Int
      OBVIOUS
    <3> QED
      BY <3>1, FS_Interval
  <2> QED
    BY <1>2, <2>1, FS_Subset
<1>4. PICK s : s = Sorted(S)
  OBVIOUS
<1>5. PICK n \in Nat : n = Cardinality(S)
  BY <1>2, <1>3, SortedIs
<1>6. Len(s) = n /\ DOMAIN s = 1 .. n /\ \A c \in 1 .. n : s[c] \in S
  BY <1>2, <1>3, <1>4, <1>5, SortedIs
<1>7. \A b, c \in 1 .. n : b < c => s[b] < s[c]
  BY <1>2, <1>3, <1>4, <1>5, SortedIs
<1>8. \A x \in S : \E c \in 1 .. n : s[c] = x
  BY <1>2, <1>3, <1>4, <1>5, SortedIs
<1>9. n # 0
  BY <1>2, <1>8
<1>10. PICK kids : kids = KeysetKids(f)
  OBVIOUS
<1>11. kids = [c \in 1 .. n |-> RunFrom(f, s, c)]
  <2>1. kids = [c \in DOMAIN s |-> RunFrom(f, s, c)]
    BY <1>1, <1>4, <1>10 DEF KeysetKids, RunFrom
  <2> QED
    BY <1>6, <2>1
<1>12. \A c \in 1 .. n :
          /\ kids[c].label = KeyChar(s[c], f.depth)
          /\ kids[c].value = Value(s[c])
          /\ kids[c].begin = s[c]
          /\ kids[c].end = IF c = n THEN f.end ELSE s[c + 1]
  BY <1>6, <1>11 DEF RunFrom
<1>13. \A c \in 1 .. n : s[c] \in Int /\ s[c] >= f.begin /\ s[c] <= f.end - 1
  <2>1. \A x \in S : x \in Int /\ x >= f.begin /\ x <= f.end - 1
    BY <1>2
  <2> QED
    BY <1>6, <2>1
<1>14. ASSUME NEW x \in S, NEW c \in 1 .. n, s[c] < x PROVE c < n /\ s[c + 1] <= x
  <2>1. PICK d \in 1 .. n : s[d] = x
    BY <1>8
  <2>2. ~ (d < c) /\ d # c
    BY <1>7, <1>13, <1>14, <2>1
  <2>3. c + 1 \in 1 .. n /\ c + 1 <= d
    BY <2>2
  <2>4. s[c + 1] <= s[d]
    BY <1>7, <1>13, <2>3
  <2> QED
    BY <2>1, <2>3, <2>4
<1>15. ASSUME NEW c \in 1 .. n
       PROVE  /\ kids[c].begin \in f.begin .. f.end - 1
              /\ kids[c].end \in kids[c].begin + 1 .. f.end
              /\ kids[c].end # f.end =>
                   /\ kids[c].end \in S
                   /\ KeyChar(kids[c].end - 1, f.depth) # KeyChar(kids[c].end, f.depth)
              /\ c = n => kids[c].end = f.end
              /\ c < n => kids[c + 1].begin = kids[c].end
  <2>1. CASE c = n
    BY <1>12, <1>13, <2>1
  <2>2. CASE c # n
    <3>1. c + 1 \in 1 .. n /\ c < c + 1
      BY <2>2
    <3>2. kids[c].end = s[c + 1] /\ s[c] < s[c + 1] /\ s[c + 1] \in S /\ kids[c + 1].begin = s[c + 1]
      BY <1>6, <1>7, <1>12, <2>2, <3>1
    <3>3. s[c + 1] # f.begin /\ s[c] \in Int /\ s[c + 1] \in Int
      BY <1>13, <3>1, <3>2
    <3>4. KeyChar(s[c + 1] - 1, f.depth) # KeyChar(s[c + 1], f.depth)
      BY <1>1, <3>2, <3>3
    <3> QED
      BY <1>12, <1>13, <2>2, <3>1, <3>2, <3>3, <3>4
  <2> QED
    BY <2>1, <2>2
<1>16. ASSUME NEW c \in 1 .. n, NEW i \in kids[c].begin .. kids[c].end - 1
       PROVE  KeyChar(i, f.depth) = kids[c].label
  <2> DEFINE Wrong == {j \in kids[c].begin .. kids[c].end - 1 : KeyChar(j, f.depth) # kids[c].label}
  <2>1. kids[c].begin = s[c] /\ s[c] \in Nat /\ kids[c].end \in Nat /\ kids[c].end <= f.end
    BY <1>12, <1>13, <1>15
  <2> Wrong \in SUBSET Nat
    BY <2>1
  <2>2. Wrong = {}
    <3> SUFFICES ASSUME Wrong # {} PROVE FALSE
      OBVIOUS
    <3>1. PICK j \in Wrong : \A m \in Wrong : ~ (m < j)
      BY LeastNumber
    <3>2. j \in s[c] .. kids[c].end - 1 /\ KeyChar(j, f.depth) # kids[c].label
      BY <2>1, <3>1
    <3>3. j # s[c]
      BY <1>12, <3>2
    <3>4. j - 1 \in s[c] .. kids[c].end - 1 /\ j - 1 < j
      BY <2>1, <3>2, <3>3
    <3>5. KeyChar(j - 1, f.depth) = kids[c].label
      BY <2>1, <3>1, <3>4
    <3>6. j \in f.begin .. f.end - 1
      BY <1>13, <2>1, <3>2
    <3>7. j \in S
      BY <1>1, <3>2, <3>5, <3>6
    <3>8. c < n /\ s[c + 1] <= j
      BY <1>14, <2>1, <3>2, <3>3, <3>7
    <3>9. kids[c].end = s[c + 1]
      BY <1>12, <3>8
    <3> QED
      BY <2>1, <3>2, <3>8, <3>9
  <2> QED
    BY <2>2
<1>17. ASSUME NEW i \in f.begin .. f.end - 1
       PROVE  \E c \in 1 .. n : kids[c].begin <= i /\ i < kids[c].end
  <2>1. PICK B : B = {c \in 1 .. n : s[c] <= i}
    OBVIOUS
  <2>2. B \in SUBSET Nat /\ \A c \in B : c <= n
    BY <2>1
  <2>3. B # {}
    BY <1>2, <1>8, <2>1
  <2>4. PICK c \in B : \A b \in B : b <= c
    BY <2>2, <2>3, GreatestNumber
  <2>5. c \in 1 .. n /\ s[c] <= i
    BY <2>1, <2>4
  <2>6. i < kids[c].end
    <3>1. CASE c = n
      BY <1>12, <2>5, <3>1
    <3>2. CASE c # n
      <4>1. c + 1 \in 1 .. n /\ ~ (c + 1 <= c)
        BY <2>5, <3>2
      <4>2. c + 1 \notin B
        BY <2>4, <4>1
      <4>3. ~ (s[c + 1] <= i) /\ s[c + 1] \in Int
        BY <1>13, <2>1, <4>1, <4>2
      <4> QED
        BY <1>12, <2>5, <3>2, <4>3
    <3> QED
      BY <3>1, <3>2
  <2> QED
    BY <1>12, <2>5, <2>6
<1>18. DOMAIN kids = 1 .. n /\ kids \in [1 .. n -> {kids[c] : c \in 1 .. n}] /\ Len(kids) = n
  <2>1. kids \in [1 .. n -> {kids[c] : c \in 1 .. n}]
    BY <1>11
  <2> QED
    BY <2>1, FunctionIsSeq
<1>19. \A c \in 1 .. n :
          /\ kids[c].begin \in f.begin .. f.end - 1
          /\ kids[c].end \in kids[c].begin + 1 .. f.end
          /\ kids[c].value = Value(kids[c].begin)
          /\ \A i \in kids[c].begin .. kids[c].end - 1 : KeyChar(i, f.depth) = kids[c].label
          /\ kids[c].end # f.end =>
                KeyChar(kids[c].end - 1, f.depth) # KeyChar(kids[c].end, f.depth)
          /\ c = n => kids[c].end = f.end
          /\ c < n => kids[c + 1].begin = kids[c].end
  BY <1>12, <1>15, <1>16
<1> n \in Nat \ {0}
  BY <1>9
<1> WITNESS n \in Nat \ {0}
<1> QED
  BY <1>10, <1>17, <1>18, <1>19 DEF KidRuns

\* A call of build_from_keyset, under any ids.
KeysetFrames(Ids) == [begin : Nat, end : Nat, depth : Nat, id : Ids]

\* Two keys that follow each other are in order, or both belong to a call to
\* come, whose keys share what is in front of its depth.
KeysetCalls ==
    /\ \E Ids : todo \in Seq(KeysetFrames(Ids))
    /\ \A n \in 1 .. Len(todo) : Shares(todo[n])
    /\ \A i \in 1 .. Len(keyset) - 1 :
          \/ InOrder(keyset[i].key, keyset[i + 1].key)
          \/ \E n \in 1 .. Len(todo) : todo[n].begin <= i /\ i + 1 < todo[n].end

\* The children of a call whose keys are in order at its depth share one
\* character more.
LEMMA KidShares ==
    ASSUME keyset \in Keysets, NEW f, Shares(f), NEW g,
           g.begin \in f.begin .. f.end - 1, g.end \in g.begin + 1 .. f.end,
           g.depth = f.depth + 1, NEW label, label # 0,
           \A i \in g.begin .. g.end - 1 : KeyChar(i, f.depth) = label
    PROVE  Shares(g)
<1>1. Len(keyset) \in Nat
  BY KeysTyped
<1>2. /\ f.begin \in 1 .. Len(keyset) /\ f.end \in f.begin + 1 .. Len(keyset) + 1
      /\ f.depth \in Nat \ {0}
  BY DEF Shares
<1>3. g.begin \in 1 .. Len(keyset) /\ g.end \in g.begin + 1 .. Len(keyset) + 1
      /\ g.depth \in Nat \ {0}
  <2>1. g.begin \in 1 .. Len(keyset)
    BY <1>1, <1>2
  <2>2. g.end \in g.begin + 1 .. Len(keyset) + 1
    BY <1>1, <1>2, <2>1
  <2>3. g.depth \in Nat \ {0}
    BY <1>2
  <2> QED
    BY <2>1, <2>2, <2>3
<1>4. ASSUME NEW i \in g.begin .. g.end - 1, NEW p \in 1 .. g.depth - 1
      PROVE  KeyChar(i, p) = KeyChar(g.begin, p) /\ KeyChar(i, p) # 0
  <2>4. f.begin \in Nat /\ f.end \in Nat /\ g.begin \in Nat /\ g.end \in Nat
    <3>1. f.begin \in Nat /\ f.end \in Nat
      BY <1>1, <1>2
    <3>2. g.begin \in Nat
      BY <3>1
    <3> QED
      BY <3>1, <3>2
  <2>5. i \in f.begin .. f.end - 1
    BY <2>4
  <2>1. i \in f.begin .. f.end - 1 /\ g.begin \in f.begin .. f.end - 1
        /\ g.begin \in g.begin .. g.end - 1
    BY <2>4, <2>5
  <2>2. CASE p = f.depth
    BY <1>4, <2>1, <2>2
  <2>3. CASE p # f.depth
    <3>1. p \in 1 .. f.depth - 1
      BY <1>2, <2>3
    <3> QED
      BY <2>1, <3>1 DEF Shares
  <2> QED
    BY <2>2, <2>3
<1> QED
  BY <1>3, <1>4 DEF Shares

\* Two neighbours of a call that are in order at its depth are in order, or go
\* on with the same character.
LEMMA Neighbours ==
    ASSUME keyset \in Keysets, NEW f, Shares(f), NEW i \in f.begin .. f.end - 2
    PROVE  /\ i \in 1 .. Len(keyset) - 1
           /\ KeyChar(i, f.depth) > KeyChar(i + 1, f.depth) =>
                 ~ InOrder(keyset[i].key, keyset[i + 1].key)
           /\ ~ (KeyChar(i, f.depth) > KeyChar(i + 1, f.depth)) =>
                 \/ InOrder(keyset[i].key, keyset[i + 1].key)
                 \/ KeyChar(i, f.depth) = KeyChar(i + 1, f.depth) /\ KeyChar(i, f.depth) # 0
<1>1. Len(keyset) \in Nat
  BY KeysTyped
<1>2. /\ f.begin \in 1 .. Len(keyset) /\ f.end \in f.begin + 1 .. Len(keyset) + 1
      /\ f.depth \in Nat \ {0}
  BY DEF Shares
<1>3. i \in 1 .. Len(keyset) - 1 /\ i + 1 \in 1 .. Len(keyset)
      /\ i \in f.begin .. f.end - 1 /\ i + 1 \in f.begin .. f.end - 1
  BY <1>1, <1>2
<1>4. PICK k \in Seq(Labels) : k = keyset[i].key
  BY <1>3, KeysTyped
<1>5. PICK l \in Seq(Labels) : l = keyset[i + 1].key
  BY <1>3, KeysTyped
<1>6. PICK d \in Nat \ {0} : d = f.depth
  BY <1>2
<1>7. \A p \in 1 .. d - 1 : CharAt(k, p) = CharAt(l, p) /\ CharAt(k, p) # 0
  BY <1>3, <1>4, <1>5, <1>6 DEF Shares, KeyChar
<1>8. CharAt(k, d) \in Nat /\ CharAt(l, d) \in Nat
  BY CharIs
<1>9. /\ CharAt(k, d) < CharAt(l, d) => InOrder(k, l)
      /\ CharAt(k, d) > CharAt(l, d) => ~ InOrder(k, l)
      /\ CharAt(k, d) = 0 /\ CharAt(l, d) = 0 => InOrder(k, l)
  BY <1>7, OrderAt
<1>10. KeyChar(i, f.depth) = CharAt(k, d) /\ KeyChar(i + 1, f.depth) = CharAt(l, d)
  BY <1>4, <1>5, <1>6 DEF KeyChar
<1> QED
  BY <1>3, <1>4, <1>5, <1>8, <1>9, <1>10

\* A call finds keys that are not in order or an offset that is too large, or
\* leaves to its children's calls what it did not compare.
LEMMA KeysetStep ==
    ASSUME keyset \in Keysets, KeysetCalls, ArrangeFromKeyset
    PROVE  \/ phase' = "failed" /\ ~ has_values
              /\ \E i \in 1 .. Len(keyset) - 1 : ~ InOrder(keyset[i].key, keyset[i + 1].key)
           \/ phase' = "too_large" /\ ~ has_values
           \/ phase' = "arrange" /\ KeysetCalls'
<1>1. PICK Ids : todo \in Seq(KeysetFrames(Ids))
  BY DEF KeysetCalls
<1>2. todo # <<>> /\ phase = "arrange" /\ ~ has_values /\ keyset' = keyset /\ has_values' = has_values
  BY DEF ArrangeFromKeyset
<1>3. PICK m \in Nat \ {0} : m = Len(todo)
  BY <1>1, <1>2, EmptySeq
<1>4. PICK f : f = Last(todo)
  OBVIOUS
<1>5. f = todo[m] /\ m \in 1 .. Len(todo)
  BY <1>3, <1>4 DEF Last
<1>6. Shares(f)
  BY <1>5 DEF KeysetCalls
<1>7. Len(keyset) \in Nat
  BY KeysTyped
<1>8. /\ f.begin \in Nat \ {0} /\ f.end \in Nat /\ f.begin < f.end /\ f.end <= Len(keyset) + 1
      /\ f.depth \in Nat \ {0}
  BY <1>6, <1>7 DEF Shares
<1>9. PICK offset :
         IF WrongOrder(f) THEN phase' = "failed" /\ UNCHANGED todo
         ELSE IF TooLarge(f.id ^^ offset) THEN phase' = "too_large" /\ UNCHANGED todo
         ELSE /\ phase' = phase
              /\ todo' = Front(todo)
                   \o [i \in DOMAIN Calls(KeysetKids(f)) |->
                         [begin |-> Calls(KeysetKids(f))[i].begin,
                          end |-> Calls(KeysetKids(f))[i].end,
                          depth |-> f.depth + 1,
                          id |-> offset ^^ Calls(KeysetKids(f))[i].label]]
  BY <1>4 DEF ArrangeFromKeyset
<1>10. CASE WrongOrder(f)
  <2>1. PICK i \in f.begin .. f.end - 2 : KeyChar(i, f.depth) > KeyChar(i + 1, f.depth)
    BY <1>10 DEF WrongOrder
  <2>2. i \in 1 .. Len(keyset) - 1 /\ ~ InOrder(keyset[i].key, keyset[i + 1].key)
    BY <1>6, <2>1, Neighbours
  <2> QED
    BY <1>2, <1>9, <1>10, <2>2
<1>12. CASE ~ WrongOrder(f) /\ TooLarge(f.id ^^ offset)
  BY <1>2, <1>9, <1>12
<1>11. CASE ~ WrongOrder(f) /\ ~ TooLarge(f.id ^^ offset)
  <2>1. PICK kids : kids = KeysetKids(f)
    OBVIOUS
  <2>17. PICK n \in Nat \ {0} : KidRuns(f, kids, n)
    BY <1>8, <2>1, KidsAre
  <2>2. /\ DOMAIN kids = 1 .. n
        /\ \A c \in 1 .. n :
             /\ kids[c].begin \in f.begin .. f.end - 1
             /\ kids[c].end \in kids[c].begin + 1 .. f.end
             /\ \A i \in kids[c].begin .. kids[c].end - 1 : KeyChar(i, f.depth) = kids[c].label
             /\ kids[c].end # f.end =>
                   KeyChar(kids[c].end - 1, f.depth) # KeyChar(kids[c].end, f.depth)
        /\ \A i \in f.begin .. f.end - 1 :
             \E c \in 1 .. n : kids[c].begin <= i /\ i < kids[c].end
    BY <2>17 DEF KidRuns
  <2>16. PICK q \in Nat : \E at : CallsAt(kids, q, at)
    <3>1. DOMAIN kids = 1 .. n /\ n \in Nat
      BY <2>2
    <3> QED
      BY <3>1, CallsAre
  <2>18. PICK at : CallsAt(kids, q, at)
    BY <2>16
  <2>3. /\ at \in [1 .. q -> Inner(kids)]
        /\ Calls(kids) = [c \in 1 .. q |-> kids[at[c]]]
        /\ \A i \in Inner(kids) : \E c \in 1 .. q : at[c] = i
    BY <2>18 DEF CallsAt
  <2>4. PICK Jds : Jds = {offset ^^ kids[i].label : i \in 1 .. n}
    OBVIOUS
  <2>5. PICK g : g = [c \in 1 .. q |-> [begin |-> kids[at[c]].begin, end |-> kids[at[c]].end,
                                        depth |-> f.depth + 1, id |-> offset ^^ kids[at[c]].label]]
    OBVIOUS
  <2>6. todo' = Front(todo) \o g
    <3>1. PICK h : h = [i \in DOMAIN Calls(kids) |->
                         [begin |-> Calls(kids)[i].begin, end |-> Calls(kids)[i].end,
                          depth |-> f.depth + 1, id |-> offset ^^ Calls(kids)[i].label]]
      OBVIOUS
    <3>2. todo' = Front(todo) \o h
      BY <1>9, <1>11, <2>1, <3>1
    <3>3. h = g
      BY <2>3, <2>5, <3>1
    <3> QED
      BY <3>2, <3>3
  <2>7. \A c \in 1 .. q : at[c] \in 1 .. n /\ kids[at[c]].label # 0
    BY <2>2, <2>3 DEF Inner
  <2>8. \A c \in 1 .. q : g[c] \in KeysetFrames(Jds)
    <3> SUFFICES ASSUME NEW c \in 1 .. q PROVE g[c] \in KeysetFrames(Jds)
      OBVIOUS
    <3>1. PICK i \in 1 .. n : i = at[c]
      BY <2>7
    <3>2. kids[i].begin \in Nat /\ kids[i].end \in Nat /\ f.depth + 1 \in Nat
      <4>1. f.begin \in Nat /\ f.end \in Nat /\ f.depth + 1 \in Nat
        BY <1>8
      <4>2. kids[i].begin \in f.begin .. f.end - 1 /\ kids[i].end \in kids[i].begin + 1 .. f.end
        BY <2>2
      <4>3. kids[i].begin \in Nat
        BY <4>1, <4>2
      <4> QED
        BY <4>1, <4>2, <4>3
    <3>3. offset ^^ kids[i].label \in Jds
      BY <2>4
    <3> QED
      BY <2>5, <3>1, <3>2, <3>3 DEF KeysetFrames
  <2>9. g \in Seq(KeysetFrames(Jds)) /\ Len(g) = q
    <3>1. g \in [1 .. q -> KeysetFrames(Jds)]
      BY <2>5, <2>8
    <3> QED
      BY <3>1, FunctionIsSeq
  <2>10. /\ todo' \in Seq(KeysetFrames(Ids) \union KeysetFrames(Jds))
         /\ Len(todo') = m - 1 + q
         /\ \A i \in 1 .. m - 1 : todo'[i] = todo[i]
         /\ \A i \in 1 .. q : todo'[m - 1 + i] = g[i]
    <3>1. PICK S : S = KeysetFrames(Ids)
      OBVIOUS
    <3>2. PICK T : T = KeysetFrames(Jds)
      OBVIOUS
    <3>3. PICK t \in Seq(S) : t = todo
      BY <1>1, <3>1
    <3>4. Front(t) \o g \in Seq(S \union T) /\ Replaced(Front(t) \o g, t, g)
      <4>1. t # <<>> /\ g \in Seq(T)
        BY <1>2, <2>9, <3>2, <3>3
      <4> QED
        BY <4>1, StackAfter
    <3> QED
      BY <1>3, <2>6, <2>9, <3>1, <3>2, <3>3, <3>4 DEF Replaced
  <2>11. \E Kds : todo' \in Seq(KeysetFrames(Kds))
    <3>1. PICK Kds : Kds = Ids \union Jds
      OBVIOUS
    <3>2. KeysetFrames(Ids) \union KeysetFrames(Jds) \subseteq KeysetFrames(Kds)
      BY <3>1 DEF KeysetFrames
    <3>3. todo' \in Seq(KeysetFrames(Kds))
      BY <2>10, <3>2, SeqMonotonic
    <3> QED
      BY <3>3
  <2>12. ASSUME NEW c \in 1 .. q PROVE Shares(g[c])
    <3>1. PICK i \in 1 .. n : i = at[c] /\ kids[i].label # 0
      BY <2>7
    <3>2. PICK h : h = g[c]
      OBVIOUS
    <3>3. h.begin = kids[i].begin /\ h.end = kids[i].end /\ h.depth = f.depth + 1
      BY <2>5, <3>1, <3>2
    <3>4. /\ h.begin \in f.begin .. f.end - 1 /\ h.end \in h.begin + 1 .. f.end
          /\ \A j \in h.begin .. h.end - 1 : KeyChar(j, f.depth) = kids[i].label
      BY <2>2, <3>3
    <3>5. Shares(h)
      BY <1>6, <3>1, <3>3, <3>4, KidShares
    <3> QED
      BY <3>2, <3>5
  <2>13. ASSUME NEW i \in 1 .. Len(todo') PROVE Shares(todo'[i])
    <3>1. CASE i <= m - 1
      <4>1. i \in 1 .. m - 1 /\ i \in 1 .. Len(todo)
        BY <1>3, <2>10, <2>13, <3>1
      <4> QED
        BY <2>10, <4>1 DEF KeysetCalls
    <3>2. CASE ~ (i <= m - 1)
      <4>1. PICK j \in 1 .. q : m - 1 + j = i
        <5>1. i - (m - 1) \in 1 .. q /\ m - 1 + (i - (m - 1)) = i
          BY <2>10, <2>13, <3>2
        <5> QED
          BY <5>1
      <4> QED
        BY <2>10, <2>12, <4>1
    <3> QED
      BY <3>1, <3>2
  <2>14. ASSUME NEW i \in 1 .. Len(keyset) - 1, ~ InOrder(keyset[i].key, keyset[i + 1].key)
         PROVE  \E j \in 1 .. Len(todo') : todo'[j].begin <= i /\ i + 1 < todo'[j].end
    <3>1. PICK j \in 1 .. m : todo[j].begin <= i /\ i + 1 < todo[j].end
      BY <1>3, <2>14 DEF KeysetCalls
    <3>2. CASE j # m
      <4>1. j \in 1 .. m - 1 /\ j \in 1 .. Len(todo')
        BY <2>10, <3>2
      <4> QED
        BY <2>10, <3>1, <4>1
    <3>3. CASE j = m
      <4>1. i \in f.begin .. f.end - 2
        BY <1>5, <1>8, <3>1, <3>3
      <4>2. ~ (KeyChar(i, f.depth) > KeyChar(i + 1, f.depth))
        BY <1>11, <4>1 DEF WrongOrder
      <4>3. KeyChar(i, f.depth) = KeyChar(i + 1, f.depth) /\ KeyChar(i, f.depth) # 0
        BY <1>6, <2>14, <4>1, <4>2, Neighbours
      <4>4. PICK c \in 1 .. n : kids[c].begin <= i /\ i < kids[c].end
        <5>1. i \in f.begin .. f.end - 1
          BY <1>8, <4>1
        <5> QED
          BY <2>2, <5>1
      <4>5. kids[c].begin \in Nat /\ kids[c].end \in Nat /\ kids[c].end <= f.end
        BY <1>8, <2>2
      <4>6. i + 1 < kids[c].end
        <5>1. CASE kids[c].end = f.end
          BY <1>8, <4>1, <5>1
        <5>2. CASE kids[c].end # f.end
          <6>1. KeyChar(kids[c].end - 1, f.depth) # KeyChar(kids[c].end, f.depth)
            BY <2>2, <5>2
          <6>2. i + 1 # kids[c].end
            <7> SUFFICES ASSUME i + 1 = kids[c].end PROVE FALSE
              OBVIOUS
            <7>1. kids[c].end - 1 = i
              BY <4>5
            <7> QED
              BY <4>3, <6>1, <7>1
          <6> QED
            BY <4>4, <4>5, <6>2
        <5> QED
          BY <5>1, <5>2
      <4>7. kids[c].label # 0
        <5>1. i \in kids[c].begin .. kids[c].end - 1
          BY <4>4, <4>5
        <5> QED
          BY <2>2, <4>3, <5>1
      <4>8. PICK b \in 1 .. q : at[b] = c
        <5>1. c \in Inner(kids)
          BY <2>2, <4>7 DEF Inner
        <5> QED
          BY <2>3, <5>1
      <4>9. g[b].begin = kids[c].begin /\ g[b].end = kids[c].end
        BY <2>5, <4>8
      <4>10. m - 1 + b \in 1 .. Len(todo') /\ todo'[m - 1 + b] = g[b]
        BY <2>10
      <4> QED
        BY <4>4, <4>6, <4>9, <4>10
    <3> QED
      BY <3>2, <3>3
  <2>15. KeysetCalls'
    BY <1>2, <2>11, <2>13, <2>14 DEF KeysetCalls, Shares, KeyChar
  <2> QED
    BY <1>2, <1>9, <1>11, <2>15
<1> QED
  BY <1>10, <1>11, <1>12

--------
(***************************************************************************)
(* Chains of ids.                                                          *)
(***************************************************************************)

\* The n-th value on the way from x along f, when x is the lo-th.
ChainTurn(f, x, lo, h, n) == IF n = lo THEN x ELSE f[h[n - 1]]

IsChain(f, x, lo, hi, h) == h = [n \in lo .. hi |-> ChainTurn(f, x, lo, h, n)]

\* The recursion that follows a chain has a solution.
LEMMA ChainRuns ==
    ASSUME NEW f, NEW x, NEW lo \in Nat, NEW hi \in Nat, lo <= hi
    PROVE  \E h : IsChain(f, x, lo, hi, h)
<1> DEFINE Runs(m) == \E h : h = [n \in lo .. m |-> ChainTurn(f, x, lo, h, n)]
           Stuck == {m \in lo .. hi : ~ Runs(m)}
<1>1. Runs(lo)
  <2>1. PICK h : h = [n \in lo .. lo |-> x]
    OBVIOUS
  <2>2. \A n \in lo .. lo : ChainTurn(f, x, lo, h, n) = x
    BY DEF ChainTurn
  <2> QED
    BY <2>1, <2>2
<1>2. ASSUME NEW m \in lo + 1 .. hi, Runs(m - 1) PROVE Runs(m)
  <2>1. PICK h : h = [n \in lo .. m - 1 |-> ChainTurn(f, x, lo, h, n)]
    BY <1>2
  <2>2. PICK g : g = [n \in lo .. m |-> IF n < m THEN h[n] ELSE ChainTurn(f, x, lo, h, m)]
    OBVIOUS
  <2>3. ASSUME NEW n \in lo .. m PROVE g[n] = ChainTurn(f, x, lo, g, n)
    <3>1. n # lo => n - 1 \in lo .. m - 1 /\ g[n - 1] = h[n - 1]
      BY <2>2
    <3>2. ChainTurn(f, x, lo, g, n) = ChainTurn(f, x, lo, h, n)
      BY <3>1 DEF ChainTurn
    <3>3. CASE n < m
      <4>1. n \in lo .. m - 1
        BY <3>3
      <4> QED
        BY <2>1, <2>2, <3>2, <3>3, <4>1
    <3>4. CASE n = m
      BY <2>2, <3>2, <3>4
    <3> QED
      BY <3>3, <3>4
  <2>4. g = [n \in lo .. m |-> ChainTurn(f, x, lo, g, n)]
    BY <2>2, <2>3
  <2> QED
    BY <2>4
<1> HIDE DEF Runs
<1>3. Stuck = {}
  <2> SUFFICES ASSUME Stuck # {} PROVE FALSE
    OBVIOUS
  <2> Stuck \in SUBSET Nat
    OBVIOUS
  <2>1. PICK m \in Stuck : \A n \in Stuck : ~ (n < m)
    BY LeastNumber
  <2>2. m \in lo + 1 .. hi /\ m - 1 \in lo .. hi /\ m - 1 < m
    BY <1>1, <2>1
  <2>3. Runs(m - 1)
    BY <2>1, <2>2
  <2> QED
    BY <1>2, <2>1, <2>2, <2>3
<1>4. Runs(hi)
  BY <1>3
<1> QED
  BY <1>4 DEF Runs, IsChain

\* From every element of S, f leads to end or, further down by r, back into S.
Descends(f, S, r, end) ==
    /\ end \notin S
    /\ \A y \in S : f[y] = end \/ (f[y] \in S /\ r[f[y]] < r[y])

\* The first values of h are elements of S, no two of them equal.
StaysIn(S, h, M) ==
    /\ \A n \in 0 .. M : h[n] \in S
    /\ \A m, n \in 0 .. M : h[m] = h[n] => m = n

\* As long as such a chain has not met its end it stays in S and never meets
\* an element again.
LEMMA ChainDescends ==
    ASSUME NEW S, NEW f, NEW r \in [S -> Nat], NEW end, Descends(f, S, r, end),
           NEW x \in S, NEW size \in Nat, NEW M \in 0 .. size,
           NEW h, IsChain(f, x, 0, size, h),
           \A n \in 1 .. M : h[n] # end
    PROVE  StaysIn(S, h, M)
<1> DEFINE Good(n) == h[n] \in S /\ \A m \in 0 .. n - 1 : r[h[n]] < r[h[m]]
           Bad == {n \in 0 .. M : ~ Good(n)}
<1>0. \A y \in S : r[y] \in Nat
  OBVIOUS
<1>1. h[0] = x
  BY DEF ChainTurn, IsChain
<1>2. \A n \in 1 .. M : h[n] = f[h[n - 1]]
  BY DEF ChainTurn, IsChain
<1>3. ASSUME NEW n \in 1 .. M, \A m \in 0 .. n - 1 : Good(m) PROVE Good(n)
  <2>1. n - 1 \in 0 .. n - 1 /\ n - 1 - 1 = n - 2
    OBVIOUS
  <2>2. h[n - 1] \in S /\ \A m \in 0 .. n - 2 : r[h[n - 1]] < r[h[m]]
    BY <1>3, <2>1
  <2>3. h[n] \in S /\ r[h[n]] < r[h[n - 1]]
    BY <1>2, <2>2 DEF Descends
  <2>4. ASSUME NEW m \in 0 .. n - 1 PROVE r[h[n]] < r[h[m]]
    <3>1. CASE m = n - 1
      BY <2>3, <3>1
    <3>2. CASE m # n - 1
      <4>3. m \in 0 .. n - 2
        BY <3>2
      <4>1. m \in 0 .. n - 2 /\ h[m] \in S
        BY <1>3, <4>3
      <4>2. r[h[n - 1]] < r[h[m]]
        BY <2>2, <4>1
      <4> QED
        BY <1>0, <2>2, <2>3, <4>1, <4>2
    <3> QED
      BY <3>1, <3>2
  <2> QED
    BY <2>3, <2>4
<1>4. Good(0)
  BY <1>1
<1> HIDE DEF Good
<1>5. Bad = {}
  <2> SUFFICES ASSUME Bad # {} PROVE FALSE
    OBVIOUS
  <2> Bad \in SUBSET Nat
    OBVIOUS
  <2>1. PICK n \in Bad : \A m \in Bad : ~ (m < n)
    BY LeastNumber
  <2>2. n \in 1 .. M
    BY <1>4, <2>1
  <2>3. \A m \in 0 .. n - 1 : Good(m)
    BY <2>1, <2>2
  <2> QED
    BY <1>3, <2>1, <2>2, <2>3
<1>6. \A n \in 0 .. M : h[n] \in S /\ \A m \in 0 .. n - 1 : r[h[n]] < r[h[m]]
  BY <1>5 DEF Good
<1>7. ASSUME NEW m \in 0 .. M, NEW n \in 0 .. M, h[m] = h[n] PROVE m = n
  <2>1. r[h[m]] \in Nat /\ r[h[m]] = r[h[n]]
    BY <1>0, <1>6, <1>7
  <2>2. ~ (r[h[m]] < r[h[m]])
    BY <2>1
  <2>3. ~ (m \in 0 .. n - 1)
    BY <1>6, <2>1, <2>2
  <2>4. ~ (n \in 0 .. m - 1)
    BY <1>6, <2>1, <2>2
  <2> QED
    BY <2>3, <2>4
<1> QED
  BY <1>6, <1>7 DEF StaysIn

\* A list without repetition.
Distinct(s) == \A i, j \in 1 .. Len(s) : s[i] = s[j] => i = j

\* The list starts with x and goes on along f, and not with the end.
Leads(f, s, x, end) ==
    /\ s # <<>> /\ s[1] = x
    /\ \A i \in 1 .. Len(s) - 1 : s[i + 1] = f[s[i]] /\ f[s[i]] # end

\* Walk lists the elements of such a chain, each once.
LEMMA WalkDown ==
    ASSUME NEW S, NEW f, IsFiniteSet(DOMAIN f), S \subseteq DOMAIN f,
           NEW r \in [S -> Nat], NEW end, Descends(f, S, r, end), NEW x \in S
    PROVE  /\ Walk(f, x, end) \in Seq(S) /\ Distinct(Walk(f, x, end))
           /\ Leads(f, Walk(f, x, end), x, end)
<1>1. PICK size \in Nat : size = Cardinality(DOMAIN f)
  BY FS_CardinalityType
<1>2. PICK h : h = CHOOSE g : IsChain(f, x, 0, size, g)
  OBVIOUS
<1>3. IsChain(f, x, 0, size, h)
  <2>1. \E g : IsChain(f, x, 0, size, g)
    <3>1. 0 \in Nat /\ size \in Nat /\ 0 <= size
      BY <1>1
    <3> QED
      BY <3>1, ChainRuns, Zenon
  <2> QED
    BY <1>2, <2>1
<1>4. PICK Ends : Ends = {n \in 1 .. size : h[n] = end}
  OBVIOUS
<1>5. Ends # {}
  <2> SUFFICES ASSUME Ends = {} PROVE FALSE
    OBVIOUS
  <2>1. \A n \in 1 .. size : h[n] # end
    BY <1>4
  <2>2. size \in 0 .. size
    OBVIOUS
  <2>8. StaysIn(S, h, size)
    BY <1>1, <1>3, <2>1, <2>2, ChainDescends
  <2>3. /\ \A n \in 0 .. size : h[n] \in S
        /\ \A m, n \in 0 .. size : h[m] = h[n] => m = n
    BY <2>8 DEF StaysIn
  <2>4. h \in [0 .. size -> DOMAIN f]
    BY <1>3, <2>3 DEF IsChain
  <2>5. IsFiniteSet(0 .. size) /\ Cardinality(0 .. size) = size + 1
    BY FS_Interval
  <2>6. Cardinality(DOMAIN f) < Cardinality(0 .. size)
    BY <1>1, <2>5
  <2>7. \E m, n \in 0 .. size : m # n /\ h[m] = h[n]
    BY <2>4, <2>5, <2>6, FS_PigeonHole
  <2> QED
    BY <2>3, <2>7
<1> Ends \in SUBSET Nat
  BY <1>4
<1>6. PICK steps \in Ends : \A n \in Ends : ~ (n < steps)
  BY <1>5, LeastNumber
<1>7. steps \in 1 .. size /\ h[steps] = end /\ \A m \in 1 .. steps - 1 : h[m] # end
  BY <1>4, <1>6
<1>8. \A n \in 1 .. size : h[n] = end /\ (\A m \in 1 .. n - 1 : h[m] # end) => n = steps
  <2> SUFFICES ASSUME NEW n \in 1 .. size, h[n] = end, \A m \in 1 .. n - 1 : h[m] # end
               PROVE  n = steps
    OBVIOUS
  <2>1. ~ (n < steps) /\ ~ (steps < n)
    BY <1>4, <1>6, <1>7
  <2> QED
    BY <1>7, <2>1
<1>9. steps = CHOOSE n \in 1 .. size : h[n] = end /\ \A m \in 1 .. n - 1 : h[m] # end
  BY <1>7, <1>8
<1>10. Walk(f, x, end) = [i \in 1 .. steps |-> h[i - 1]]
  BY <1>1, <1>2, <1>9 DEF Walk, ChainTurn, IsChain
<1>11. /\ \A n \in 0 .. steps - 1 : h[n] \in S
       /\ \A m, n \in 0 .. steps - 1 : h[m] = h[n] => m = n
  <2>1. PICK M \in 0 .. size : M = steps - 1
    BY <1>7
  <2>2. \A n \in 1 .. M : h[n] # end
    BY <1>7, <2>1
  <2>3. StaysIn(S, h, M)
    BY <1>1, <1>3, <2>1, <2>2, ChainDescends
  <2> QED
    BY <2>1, <2>3 DEF StaysIn
<1>12. PICK s : s = [i \in 1 .. steps |-> h[i - 1]]
  OBVIOUS
<1>13. \A i \in 1 .. steps : i - 1 \in 0 .. steps - 1
  BY <1>7
<1>14. s \in [1 .. steps -> S] /\ steps \in Nat
  BY <1>7, <1>11, <1>12, <1>13
<1>15. s \in Seq(S) /\ Len(s) = steps
  BY <1>14, FunctionIsSeq
<1>16. ASSUME NEW i \in 1 .. steps, NEW j \in 1 .. steps, s[i] = s[j] PROVE i = j
  <2>1. h[i - 1] = h[j - 1]
    BY <1>12, <1>16
  <2>2. i - 1 = j - 1
    BY <1>11, <1>13, <2>1
  <2> QED
    BY <1>7, <2>2
<1>17. h[0] = x /\ \A n \in 1 .. steps - 1 : h[n] = f[h[n - 1]]
  <2>1. \A n \in 0 .. size : h[n] = ChainTurn(f, x, 0, h, n)
    BY <1>3 DEF IsChain
  <2>2. 0 \in 0 .. size /\ \A n \in 1 .. steps - 1 : n \in 0 .. size /\ n # 0
    BY <1>7
  <2> QED
    BY <2>1, <2>2 DEF ChainTurn
<1>18. Leads(f, s, x, end)
  <2>1. s # <<>>
    BY <1>7, <1>15, EmptySeq
  <2>2. 1 \in 1 .. steps /\ 1 - 1 = 0
    BY <1>7
  <2>3. s[1] = x
    BY <1>12, <1>17, <2>2
  <2>4. ASSUME NEW i \in 1 .. steps - 1 PROVE s[i + 1] = f[s[i]] /\ f[s[i]] # end
    <3>1. i \in 1 .. steps /\ i + 1 \in 1 .. steps /\ i + 1 - 1 = i
      BY <1>7
    <3>2. s[i + 1] = h[i] /\ s[i] = h[i - 1]
      BY <1>12, <3>1
    <3>3. h[i] = f[h[i - 1]] /\ h[i] # end
      BY <1>7, <1>17
    <3> QED
      BY <3>2, <3>3
  <2> QED
    BY <1>15, <2>1, <2>3, <2>4 DEF Leads
<1> QED
  BY <1>10, <1>12, <1>15, <1>16, <1>18 DEF Distinct

--------
(***************************************************************************)
(* The nodes of a builder, whatever their children are.                    *)
(***************************************************************************)

NodeSet(V) ==
    [child : V, sibling : Nat, label : Nat, is_state : BOOLEAN, has_sibling : BOOLEAN]

\* A record with the fields of a builder.
Builder(b) ==
    b = [nodes |-> b.nodes, units |-> b.units, table |-> b.table,
         node_stack |-> b.node_stack, recycle_bin |-> b.recycle_bin,
         is_intersection |-> b.is_intersection, num_states |-> b.num_states]

\* Of the nodes only the k-th has changed, and of it only the child.
ChildGiven(s, t, k, x) ==
    /\ Len(t) = Len(s)
    /\ \A i \in 1 .. Len(s) : t[i].sibling = s[i].sibling /\ t[i].label = s[i].label
    /\ \A i \in 1 .. Len(s) : i # k => t[i].child = s[i].child
    /\ t[k].child = x

\* A node may be given any child.
LEMMA ChildSet ==
    ASSUME NEW V, NEW s \in Seq(NodeSet(V)), NEW k \in 1 .. Len(s), NEW x,
           NEW t, t = [s EXCEPT ![k].child = x]
    PROVE  t \in Seq(NodeSet(V \union {x})) /\ ChildGiven(s, t, k, x)
<1>1. PICK n \in Nat : n = Len(s)
  BY LenProperties
<1>2. DOMAIN s = 1 .. n /\ \A i \in 1 .. n : s[i] \in NodeSet(V)
  BY <1>1, LenProperties, ElementOfSeq
<1>4. PICK y : y = [s[k] EXCEPT !.child = x]
  OBVIOUS
<1>5. s[k] \in NodeSet(V) /\ k \in 1 .. n
  BY <1>1, <1>2
<1>6. /\ y \in NodeSet(V \union {x}) /\ y.child = x
      /\ y.sibling = s[k].sibling /\ y.label = s[k].label
  BY <1>4, <1>5 DEF NodeSet
<1>7. t = [i \in 1 .. n |-> IF i = k THEN y ELSE s[i]]
  BY <1>2, <1>4
<1>8. \A i \in 1 .. n : s[i] \in NodeSet(V \union {x})
  BY <1>2 DEF NodeSet
<1>9. t \in [1 .. n -> NodeSet(V \union {x})]
  BY <1>6, <1>7, <1>8
<1>10. t \in Seq(NodeSet(V \union {x})) /\ Len(t) = n
  BY <1>9, FunctionIsSeq
<1>11. ChildGiven(s, t, k, x)
  BY <1>1, <1>5, <1>6, <1>7, <1>10 DEF ChildGiven
<1> QED
  BY <1>10, <1>11

\* What flushing the last state of the stack does to the nodes.
Flushed(b, c) ==
    /\ Builder(c)
    /\ c.node_stack = Front(b.node_stack)
    /\ c.recycle_bin = b.recycle_bin \o Siblings(b, Last(b.node_stack))
    /\ \E x : c.nodes = [b.nodes EXCEPT ![Last(Front(b.node_stack)) + 1].child = x]

\* FlushState does that, whatever it finds in the hash table.
LEMMA FlushStateIs ==
    ASSUME NEW b, Builder(b)
    PROVE  Flushed(b, FlushState(b))
<1>1. PICK id : id = Last(b.node_stack)
  OBVIOUS
<1>2. PICK table : table = IF 4 * b.num_states >= 3 * Cardinality(DOMAIN b.table)
                           THEN ExpandTable(b) ELSE b.table
  OBVIOUS
<1>3. PICK group : group = NodeGroup(b, id)
  OBVIOUS
<1>4. PICK slot : slot = FindNode(b, table, group)
  OBVIOUS
<1>5. PICK under : under = Front(b.node_stack)
  OBVIOUS
<1>6. PICK popped : popped = [b EXCEPT !.table = table, !.node_stack = under,
                                       !.recycle_bin = @ \o Siblings(b, id)]
  OBVIOUS
<1>7. /\ Builder(popped) /\ popped.nodes = b.nodes /\ popped.node_stack = under
      /\ popped.recycle_bin = b.recycle_bin \o Siblings(b, id)
  BY <1>6 DEF Builder
<1>8. PICK c : c = FlushState(b)
  OBVIOUS
<1>9. CASE table[slot] # 0
  <2>1. c = [popped EXCEPT !.is_intersection = @ \union {table[slot]},
                           !.nodes[Last(under) + 1].child = table[slot]]
    BY <1>1, <1>2, <1>3, <1>4, <1>5, <1>6, <1>8, <1>9 DEF FlushState
  <2>2. /\ Builder(c) /\ c.node_stack = under
        /\ c.recycle_bin = b.recycle_bin \o Siblings(b, id)
        /\ c.nodes = [b.nodes EXCEPT ![Last(under) + 1].child = table[slot]]
    BY <1>7, <2>1 DEF Builder
  <2> QED
    BY <1>1, <1>5, <1>8, <2>2 DEF Flushed
<1>10. CASE ~ (table[slot] # 0)
  <2>1. c = [popped EXCEPT !.units = @ \o group,
                           !.table[slot] = Len(b.units),
                           !.num_states = @ + 1,
                           !.nodes[Last(under) + 1].child = Len(b.units)]
    BY <1>1, <1>2, <1>3, <1>4, <1>5, <1>6, <1>8, <1>10 DEF FlushState
  <2>2. /\ Builder(c) /\ c.node_stack = under
        /\ c.recycle_bin = b.recycle_bin \o Siblings(b, id)
        /\ c.nodes = [b.nodes EXCEPT ![Last(under) + 1].child = Len(b.units)]
    BY <1>7, <2>1 DEF Builder
  <2> QED
    BY <1>1, <1>5, <1>8, <2>2 DEF Flushed
<1> QED
  BY <1>9, <1>10

\* The list without its last element.
LEMMA FrontIs ==
    ASSUME NEW S, NEW s \in Seq(S), s # <<>>
    PROVE  /\ Len(s) \in Nat \ {0}
           /\ Front(s) \in Seq(S)
           /\ Len(Front(s)) = Len(s) - 1
           /\ \A i \in 1 .. Len(s) - 1 : Front(s)[i] = s[i]
           /\ Last(s) = s[Len(s)]
<1>1. PICK n \in Nat \ {0} : n = Len(s)
  BY LenProperties, EmptySeq
<1>2. \A i \in 1 .. n - 1 : s[i] \in S
  BY <1>1, ElementOfSeq
<1>3. n - 1 \in Int /\ 1 \in Int
  OBVIOUS
<1>4. /\ SubSeq(s, 1, n - 1) \in Seq(S)
      /\ Len(SubSeq(s, 1, n - 1)) = IF 1 <= n - 1 THEN n - 1 - 1 + 1 ELSE 0
      /\ \A i \in 1 .. n - 1 - 1 + 1 : SubSeq(s, 1, n - 1)[i] = s[1 + i - 1]
  BY <1>2, <1>3, SubSeqProperties
<1>5. PICK f : f = SubSeq(s, 1, n - 1)
  OBVIOUS
<1>6. Len(f) = n - 1 /\ f \in Seq(S)
  BY <1>4, <1>5
<1>7. \A i \in 1 .. n - 1 : i \in 1 .. n - 1 - 1 + 1 /\ 1 + i - 1 = i
  OBVIOUS
<1>8. \A i \in 1 .. n - 1 : f[i] = s[i]
  BY <1>4, <1>5, <1>7
<1>9. f = Front(s)
  BY <1>1, <1>5 DEF Front
<1>10. Last(s) = s[Len(s)]
  BY DEF Last
<1> QED
  BY <1>1, <1>6, <1>8, <1>9, <1>10

--------
(***************************************************************************)
(* The nodes of a builder belong to levels: the p-th node of the stack and *)
(* its siblings to level p, what may be used again to level 0.             *)
(***************************************************************************)

Ids(b) == 0 .. Len(b.nodes) - 1

\* Siblings stay on a level and have smaller and smaller labels.
TidySiblings(b, level) ==
    \A id \in Ids(b) :
       level[id] # 0 /\ Node(b, id).sibling # 0 =>
         /\ Node(b, id).sibling \in Ids(b) \ {0}
         /\ level[Node(b, id).sibling] = level[id]
         /\ Node(b, Node(b, id).sibling).label < Node(b, id).label

TidyStack(b, level) ==
    /\ b.node_stack \in Seq(Ids(b)) /\ b.node_stack # <<>> /\ b.node_stack[1] = Root
    /\ \A p \in 1 .. Len(b.node_stack) : level[b.node_stack[p]] = p

TidyBin(b, level) ==
    /\ b.recycle_bin \in Seq(Ids(b) \ {0}) /\ Distinct(b.recycle_bin)
    /\ \A i \in 1 .. Len(b.recycle_bin) : level[b.recycle_bin[i]] = 0

Tidy(b, level) ==
    /\ Builder(b)
    /\ \E V : b.nodes \in Seq(NodeSet(V))
    /\ level \in [Ids(b) -> Nat]
    /\ TidyStack(b, level) /\ TidyBin(b, level) /\ TidySiblings(b, level)

\* Ids are places of nodes, and nodes have the types of their fields.
LEMMA NodesTyped ==
    ASSUME NEW b, NEW V, b.nodes \in Seq(NodeSet(V))
    PROVE  /\ Len(b.nodes) \in Nat
           /\ \A id \in Ids(b) :
                /\ id \in Nat /\ id + 1 \in 1 .. Len(b.nodes)
                /\ Node(b, id).sibling \in Nat /\ Node(b, id).label \in Nat
<1>1. PICK n \in Nat : n = Len(b.nodes)
  BY LenProperties
<1>2. \A i \in 1 .. n : b.nodes[i] \in NodeSet(V)
  BY <1>1, ElementOfSeq
<1>3. ASSUME NEW id \in 0 .. n - 1 PROVE id \in Nat /\ id + 1 \in 1 .. n
  OBVIOUS
<1>4. ASSUME NEW id \in 0 .. n - 1
      PROVE  Node(b, id).sibling \in Nat /\ Node(b, id).label \in Nat
  <2>1. b.nodes[id + 1] \in NodeSet(V)
    BY <1>2, <1>3
  <2> QED
    BY <2>1 DEF Node, NodeSet
<1> QED
  BY <1>1, <1>3, <1>4 DEF Ids

\* The nodes of a node's level.
Peers(b, level, id) == {i \in Ids(b) \ {0} : level[i] = level[id]}

\* Where the siblings lead.
Besides(b) == [i \in 0 .. Len(b.nodes) - 1 |-> Node(b, i).sibling]

\* The siblings of a node are nodes of its level, each once.
LEMMA SiblingsAre ==
    ASSUME NEW b, NEW level, Tidy(b, level), NEW id \in Ids(b) \ {0}, level[id] # 0
    PROVE  /\ Siblings(b, id) \in Seq(Peers(b, level, id))
           /\ Distinct(Siblings(b, id))
           /\ Leads(Besides(b), Siblings(b, id), id, 0)
<1>1. PICK S : S = {i \in Ids(b) \ {0} : level[i] = level[id]}
  OBVIOUS
<1>2. PICK V : b.nodes \in Seq(NodeSet(V))
  BY DEF Tidy
<1>3. Len(b.nodes) \in Nat /\ \A i \in Ids(b) : Node(b, i).sibling \in Nat /\ Node(b, i).label \in Nat
  BY <1>2, NodesTyped
<1>4. PICK f : f = [i \in 0 .. Len(b.nodes) - 1 |-> Node(b, i).sibling]
  OBVIOUS
<1>5. PICK r : r = [i \in S |-> Node(b, i).label]
  OBVIOUS
<1>6. r \in [S -> Nat] /\ S \subseteq DOMAIN f
  BY <1>1, <1>3, <1>4, <1>5 DEF Ids
<1>7. IsFiniteSet(DOMAIN f)
  <2>1. IsFiniteSet(0 .. Len(b.nodes) - 1)
    BY <1>3, FS_Interval
  <2> QED
    BY <1>4, <2>1
<1>8. Descends(f, S, r, 0)
  <2>1. 0 \notin S
    BY <1>1
  <2>2. ASSUME NEW y \in S, f[y] # 0 PROVE f[y] \in S /\ r[f[y]] < r[y]
    <3>1. y \in Ids(b) \ {0} /\ level[y] = level[id] /\ f[y] = Node(b, y).sibling
      BY <1>1, <1>4 DEF Ids
    <3>2. /\ f[y] \in Ids(b) \ {0} /\ level[f[y]] = level[y]
          /\ Node(b, f[y]).label < Node(b, y).label
      BY <2>2, <3>1 DEF Tidy, TidySiblings
    <3>3. f[y] \in S
      BY <1>1, <3>1, <3>2
    <3> QED
      BY <1>5, <3>2, <3>3
  <2> QED
    BY <2>1, <2>2 DEF Descends
<1>9. id \in S
  BY <1>1
<1>10. Walk(f, id, 0) \in Seq(S) /\ Distinct(Walk(f, id, 0)) /\ Leads(f, Walk(f, id, 0), id, 0)
  BY <1>6, <1>7, <1>8, <1>9, WalkDown
<1> QED
  BY <1>1, <1>4, <1>10 DEF Siblings, Peers, Besides

--------
(***************************************************************************)
(* Flushing.                                                               *)
(***************************************************************************)

\* The first m nodes of the stack are as they were, but for the last one's
\* child, and so are all labels.
Unwound(b, c, m) ==
    /\ Len(c.node_stack) = m
    /\ \A p \in 1 .. m : c.node_stack[p] = b.node_stack[p]
    /\ Ids(c) = Ids(b)
    /\ \A id \in Ids(b) : Node(c, id).label = Node(b, id).label
    /\ \A p \in 1 .. m - 1 :
          Node(c, b.node_stack[p]).child = Node(b, b.node_stack[p]).child

\* What the stack of a tidy builder holds.
LEMMA StackTyped ==
    ASSUME NEW b, NEW level, Tidy(b, level)
    PROVE  /\ Len(b.node_stack) \in Nat \ {0}
           /\ Len(b.nodes) \in Nat
           /\ \A p \in 1 .. Len(b.node_stack) :
                b.node_stack[p] \in Ids(b) /\ b.node_stack[p] \in Nat /\ level[b.node_stack[p]] = p
           /\ \A p, q \in 1 .. Len(b.node_stack) : b.node_stack[p] = b.node_stack[q] => p = q
           /\ \A p \in 2 .. Len(b.node_stack) : b.node_stack[p] # 0
<1>1. PICK n \in Nat \ {0} : n = Len(b.node_stack)
  BY EmptySeq DEF Tidy, TidyStack
<1>2. \A p \in 1 .. n : b.node_stack[p] \in Ids(b) /\ level[b.node_stack[p]] = p
  BY <1>1, ElementOfSeq DEF Tidy, TidyStack
<1>3. Len(b.nodes) \in Nat
  BY NodesTyped DEF Tidy
<1>4. \A p \in 1 .. n : b.node_stack[p] \in Nat
  BY <1>2, <1>3 DEF Ids
<1>5. \A p, q \in 1 .. n : b.node_stack[p] = b.node_stack[q] => p = q
  BY <1>2
<1>6. ASSUME NEW p \in 2 .. n, b.node_stack[p] = 0 PROVE FALSE
  <2>1. 1 \in 1 .. n /\ p \in 1 .. n /\ p # 1
    OBVIOUS
  <2>2. b.node_stack[1] = 0
    BY DEF Tidy, TidyStack, Root
  <2> QED
    BY <1>5, <1>6, <2>1, <2>2
<1> QED
  BY <1>1, <1>2, <1>3, <1>4, <1>5, <1>6

\* When a state is flushed, its level becomes level 0.
LEMMA FlushTidy ==
    ASSUME NEW b, NEW level, Tidy(b, level), NEW n \in Nat, n = Len(b.node_stack), n >= 2,
           NEW c, Flushed(b, c)
    PROVE  (\E l : Tidy(c, l)) /\ Unwound(b, c, n - 1)
<1>1. PICK s : s = b.node_stack
  OBVIOUS
<1>2. /\ s \in Seq(Ids(b)) /\ s # <<>> /\ s[1] = 0
      /\ \A p \in 1 .. n : s[p] \in Ids(b) /\ s[p] \in Nat /\ level[s[p]] = p
      /\ \A p, q \in 1 .. n : s[p] = s[q] => p = q
      /\ \A p \in 2 .. n : s[p] # 0
  BY <1>1, StackTyped DEF Tidy, TidyStack, Root
<1>3. /\ Front(s) \in Seq(Ids(b)) /\ Len(Front(s)) = n - 1
      /\ \A p \in 1 .. n - 1 : Front(s)[p] = s[p]
      /\ Last(s) = s[n]
  <2>1. s \in Seq(Ids(b)) /\ s # <<>> /\ Len(s) = n
    BY <1>1, <1>2
  <2> QED
    BY <2>1, FrontIs
<1>4. n - 1 \in 1 .. n - 1 /\ n \in 1 .. n /\ n \in 2 .. n
  OBVIOUS
<1>5. Last(Front(s)) = s[n - 1]
  BY <1>3, <1>4 DEF Last
<1>6. PICK k : k = s[n - 1] + 1
  OBVIOUS
<1>7. PICK V : b.nodes \in Seq(NodeSet(V))
  BY DEF Tidy
<1>8. Len(b.nodes) \in Nat /\ \A id \in Ids(b) : id \in Nat /\ id + 1 \in 1 .. Len(b.nodes)
  BY <1>7, NodesTyped
<1>9. k \in 1 .. Len(b.nodes)
  <2>1. n - 1 \in 1 .. n
    OBVIOUS
  <2> QED
    BY <1>2, <1>6, <1>8, <2>1
<1>10. PICK x : c.nodes = [b.nodes EXCEPT ![k].child = x]
  <2>1. Last(Front(b.node_stack)) + 1 = k
    BY <1>1, <1>5, <1>6
  <2> QED
    BY <2>1 DEF Flushed
<1>11. c.nodes \in Seq(NodeSet(V \union {x})) /\ ChildGiven(b.nodes, c.nodes, k, x)
  BY <1>7, <1>9, <1>10, ChildSet
<1>12. Ids(c) = Ids(b)
  BY <1>11 DEF Ids, ChildGiven
<1>13. \A id \in Ids(b) :
          /\ Node(c, id).sibling = Node(b, id).sibling
          /\ Node(c, id).label = Node(b, id).label
          /\ id + 1 # k => Node(c, id).child = Node(b, id).child
  BY <1>8, <1>11 DEF ChildGiven, Node
<1>14. c.node_stack = Front(s) /\ c.recycle_bin = b.recycle_bin \o Siblings(b, s[n])
  BY <1>1, <1>3 DEF Flushed
<1>15. PICK l : l = [id \in Ids(b) |-> IF level[id] = n THEN 0 ELSE level[id]]
  OBVIOUS
<1>16. level \in [Ids(b) -> Nat] /\ l \in [Ids(b) -> Nat]
  BY <1>15 DEF Tidy
<1>17. TidyStack(c, l)
  <2>1. c.node_stack \in Seq(Ids(c)) /\ Len(c.node_stack) = n - 1
    BY <1>3, <1>12, <1>14
  <2>2. c.node_stack # <<>>
    BY <2>1, EmptySeq
  <2>3. c.node_stack[1] = 0
    <3>1. 1 \in 1 .. n - 1
      OBVIOUS
    <3> QED
      BY <1>2, <1>3, <1>14, <3>1
  <2>4. ASSUME NEW p \in 1 .. n - 1 PROVE l[c.node_stack[p]] = p
    <3>1. p \in 1 .. n /\ p # n
      OBVIOUS
    <3>2. c.node_stack[p] = s[p] /\ s[p] \in Ids(b) /\ level[s[p]] = p
      BY <1>2, <1>3, <1>14, <3>1
    <3> QED
      BY <1>15, <3>1, <3>2
  <2> QED
    BY <2>1, <2>2, <2>3, <2>4 DEF TidyStack, Root
<1>18. PICK S : S = {i \in Ids(b) \ {0} : level[i] = n}
  OBVIOUS
<1>19. Siblings(b, s[n]) \in Seq(S) /\ Distinct(Siblings(b, s[n]))
  <2>1. s[n] \in Ids(b) \ {0} /\ level[s[n]] = n /\ n # 0
    BY <1>2, <1>4
  <2>2. PICK y : y = s[n]
    OBVIOUS
  <2>3. Siblings(b, y) \in Seq(Peers(b, level, y)) /\ Distinct(Siblings(b, y))
    BY <2>1, <2>2, SiblingsAre
  <2>4. Peers(b, level, y) = S
    BY <1>18, <2>1, <2>2 DEF Peers
  <2> QED
    BY <2>2, <2>3, <2>4
<1>20. TidyBin(c, l)
  <2>1. PICK y \in Seq(S) : y = Siblings(b, s[n])
    BY <1>19
  <2>2. PICK B : B = {i \in Ids(b) \ {0} : level[i] = 0}
    OBVIOUS
  <2>3. b.recycle_bin \in Seq(B) /\ Distinct(b.recycle_bin)
    <3>1. b.recycle_bin \in Seq(Ids(b) \ {0})
      BY DEF Tidy, TidyBin
    <3>2. \A i \in 1 .. Len(b.recycle_bin) : b.recycle_bin[i] \in B
      BY <2>2, <3>1, ElementOfSeq DEF Tidy, TidyBin
    <3>3. b.recycle_bin \in Seq(B)
      BY <3>1, <3>2, SeqDef, LenProperties
    <3> QED
      BY <3>3 DEF Tidy, TidyBin
  <2>4. PICK u \in Seq(B) : u = b.recycle_bin
    BY <2>3
  <2>5. PICK v : v = u \o y
    OBVIOUS
  <2>6. PICK i \in Nat : i = Len(u)
    BY <2>4, LenProperties
  <2>7. PICK j \in Nat : j = Len(y)
    BY <2>1, LenProperties
  <2>8. PICK T : T = B \union S
    OBVIOUS
  <2>9. u \in Seq(T) /\ y \in Seq(T)
    BY <2>1, <2>4, <2>8
  <2>10. v \in Seq(T) /\ Len(v) = i + j
         /\ \A m \in 1 .. i + j : v[m] = IF m <= i THEN u[m] ELSE y[m - i]
    BY <2>5, <2>6, <2>7, <2>9, ConcatProperties
  <2>11. (\A m \in 1 .. i : u[m] \in B) /\ \A m \in 1 .. j : y[m] \in S
    BY <2>1, <2>4, <2>6, <2>7, ElementOfSeq
  <2>12. B \intersect S = {}
    BY <1>18, <2>2
  <2>13. ASSUME NEW p \in 1 .. i + j, NEW q \in 1 .. i + j, v[p] = v[q] PROVE p = q
    <3>1. CASE p <= i /\ q <= i
      <4>1. p \in 1 .. i /\ q \in 1 .. i /\ u[p] = u[q]
        BY <2>10, <2>13, <3>1
      <4> QED
        BY <2>3, <2>4, <2>6, <4>1 DEF Distinct
    <3>2. CASE ~ (p <= i) /\ ~ (q <= i)
      <4>1. p - i \in 1 .. j /\ q - i \in 1 .. j /\ y[p - i] = y[q - i]
        BY <2>10, <2>13, <3>2
      <4>2. p - i = q - i
        BY <1>19, <2>1, <2>7, <4>1 DEF Distinct
      <4> QED
        BY <4>2
    <3>3. CASE p <= i /\ ~ (q <= i)
      <4>1. p \in 1 .. i /\ q - i \in 1 .. j /\ u[p] = y[q - i]
        BY <2>10, <2>13, <3>3
      <4> QED
        BY <2>11, <2>12, <4>1
    <3>4. CASE ~ (p <= i) /\ q <= i
      <4>1. q \in 1 .. i /\ p - i \in 1 .. j /\ u[q] = y[p - i]
        BY <2>10, <2>13, <3>4
      <4> QED
        BY <2>11, <2>12, <4>1
    <3> QED
      BY <3>1, <3>2, <3>3, <3>4
  <2>14. v = c.recycle_bin
    BY <1>14, <2>1, <2>4, <2>5
  <2>15. Distinct(v)
    BY <2>10, <2>13 DEF Distinct
  <2>16. T \subseteq Ids(c) \ {0} /\ \A id \in T : l[id] = 0
    BY <1>12, <1>15, <1>18, <2>2, <2>8
  <2>17. v \in Seq(Ids(c) \ {0})
    BY <2>10, <2>16, SeqMonotonic
  <2>18. \A m \in 1 .. Len(v) : l[v[m]] = 0
    BY <2>10, <2>16, ElementOfSeq
  <2> QED
    BY <2>14, <2>15, <2>17, <2>18 DEF TidyBin
<1>21. TidySiblings(c, l)
  <2> SUFFICES ASSUME NEW id \in Ids(b), l[id] # 0, Node(c, id).sibling # 0
               PROVE  /\ Node(c, id).sibling \in Ids(b) \ {0}
                      /\ l[Node(c, id).sibling] = l[id]
                      /\ Node(c, Node(c, id).sibling).label < Node(c, id).label
    BY <1>12 DEF TidySiblings
  <2>1. PICK y : y = Node(c, id).sibling
    OBVIOUS
  <2>2. level[id] # 0 /\ level[id] # n /\ Node(b, id).sibling = y /\ y # 0
    BY <1>13, <1>15, <2>1
  <2>3. y \in Ids(b) \ {0} /\ level[y] = level[id] /\ Node(b, y).label < Node(b, id).label
    BY <2>2 DEF Tidy, TidySiblings
  <2> QED
    BY <1>13, <1>15, <2>1, <2>2, <2>3
<1>22. Tidy(c, l)
  BY <1>11, <1>12, <1>16, <1>17, <1>20, <1>21 DEF Tidy, Flushed
<1>23. Unwound(b, c, n - 1)
  <2>1. Len(c.node_stack) = n - 1 /\ \A p \in 1 .. n - 1 : c.node_stack[p] = s[p]
    BY <1>3, <1>14
  <2>2. ASSUME NEW p \in 1 .. n - 1 - 1 PROVE Node(c, s[p]).child = Node(b, s[p]).child
    <3>1. p \in 1 .. n /\ n - 1 \in 1 .. n /\ p # n - 1
      OBVIOUS
    <3>2. s[p] # s[n - 1] /\ s[p] \in Ids(b) /\ s[p] \in Nat /\ s[n - 1] \in Nat
      BY <1>2, <3>1
    <3>3. s[p] + 1 # k
      BY <1>6, <3>2
    <3> QED
      BY <1>13, <3>2, <3>3
  <2> QED
    BY <1>1, <1>12, <1>13, <2>1, <2>2 DEF Unwound
<1> QED
  BY <1>22, <1>23

\* What is left as it was by two steps is left so by both.
LEMMA UnwoundTwice ==
    ASSUME NEW b, NEW c, NEW d, NEW m \in Int, NEW n \in Int, n <= m,
           Unwound(b, c, m), Unwound(c, d, n)
    PROVE  Unwound(b, d, n)
<1>1. \A p \in 1 .. n : p \in 1 .. m /\ d.node_stack[p] = b.node_stack[p]
  BY DEF Unwound
<1>2. \A id \in Ids(b) : Node(d, id).label = Node(b, id).label
  BY DEF Unwound
<1>3. ASSUME NEW p \in 1 .. n - 1
      PROVE  Node(d, b.node_stack[p]).child = Node(b, b.node_stack[p]).child
  <2>1. p \in 1 .. m - 1 /\ p \in 1 .. m
    OBVIOUS
  <2>2. c.node_stack[p] = b.node_stack[p]
    BY <2>1 DEF Unwound
  <2>3. Node(d, c.node_stack[p]).child = Node(c, c.node_stack[p]).child
    BY DEF Unwound
  <2>4. Node(c, b.node_stack[p]).child = Node(b, b.node_stack[p]).child
    BY <2>1 DEF Unwound
  <2> QED
    BY <2>2, <2>3, <2>4
<1>4. Len(d.node_stack) = n /\ Ids(d) = Ids(b)
  BY DEF Unwound
<1> QED
  BY <1>1, <1>2, <1>3, <1>4 DEF Unwound

\* The n-th turn of the loop of flush.
FlushTurn(b, h, n) == IF n = 0 THEN b ELSE FlushState(h[n - 1])

IsFlushRun(b, K, h) == h = [n \in 0 .. K |-> FlushTurn(b, h, n)]

\* The recursion that stands for that loop has a solution.
LEMMA FlushRuns ==
    ASSUME NEW b, NEW K \in Nat
    PROVE  \E h : IsFlushRun(b, K, h)
<1> DEFINE Runs(m) == \E h : h = [n \in 0 .. m |-> FlushTurn(b, h, n)]
           Stuck == {m \in 0 .. K : ~ Runs(m)}
<1>1. Runs(0)
  <2>1. PICK h : h = [n \in 0 .. 0 |-> b]
    OBVIOUS
  <2>2. \A n \in 0 .. 0 : FlushTurn(b, h, n) = b
    BY DEF FlushTurn
  <2> QED
    BY <2>1, <2>2
<1>2. ASSUME NEW m \in 1 .. K, Runs(m - 1) PROVE Runs(m)
  <2>1. PICK h : h = [n \in 0 .. m - 1 |-> FlushTurn(b, h, n)]
    BY <1>2
  <2>2. PICK g : g = [n \in 0 .. m |-> IF n < m THEN h[n] ELSE FlushTurn(b, h, m)]
    OBVIOUS
  <2>3. ASSUME NEW n \in 0 .. m PROVE g[n] = FlushTurn(b, g, n)
    <3>1. n # 0 => n - 1 \in 0 .. m - 1 /\ g[n - 1] = h[n - 1]
      BY <2>2
    <3>2. FlushTurn(b, g, n) = FlushTurn(b, h, n)
      BY <3>1 DEF FlushTurn
    <3>3. CASE n < m
      <4>1. n \in 0 .. m - 1
        BY <3>3
      <4> QED
        BY <2>1, <2>2, <3>2, <3>3, <4>1
    <3>4. CASE n = m
      BY <2>2, <3>2, <3>4
    <3> QED
      BY <3>3, <3>4
  <2>4. g = [n \in 0 .. m |-> FlushTurn(b, g, n)]
    BY <2>2, <2>3
  <2> QED
    BY <2>4
<1> HIDE DEF Runs
<1>3. Stuck = {}
  <2> SUFFICES ASSUME Stuck # {} PROVE FALSE
    OBVIOUS
  <2> Stuck \in SUBSET Nat
    OBVIOUS
  <2>1. PICK m \in Stuck : \A n \in Stuck : ~ (n < m)
    BY LeastNumber
  <2>2. m \in 1 .. K /\ m - 1 \in 0 .. K /\ m - 1 < m
    BY <1>1, <2>1
  <2>3. Runs(m - 1)
    BY <2>1, <2>2
  <2> QED
    BY <1>2, <2>1, <2>2, <2>3
<1>4. Runs(K)
  BY <1>3
<1> QED
  BY <1>4 DEF Runs, IsFlushRun

\* After m turns the stack of b is m states shorter, and all is tidy.
LEMMA FlushedTurns ==
    ASSUME NEW b, NEW level, Tidy(b, level), NEW L \in Nat, L = Len(b.node_stack),
           NEW K \in Nat, K <= L - 1, NEW h, IsFlushRun(b, K, h)
    PROVE  (\E l : Tidy(h[K], l)) /\ Unwound(b, h[K], L - K)
<1> DEFINE Good(m) == (\E l : Tidy(h[m], l)) /\ Unwound(b, h[m], L - m)
           Bad == {m \in 0 .. K : ~ Good(m)}
<1>1. \A m \in 0 .. K : h[m] = FlushTurn(b, h, m)
  BY DEF IsFlushRun
<1>2. Good(0)
  <2>1. h[0] = b
    BY <1>1 DEF FlushTurn
  <2>2. Unwound(b, b, L)
    BY DEF Unwound
  <2>3. L - 0 = L
    OBVIOUS
  <2> QED
    BY <2>1, <2>2, <2>3
<1>3. ASSUME NEW m \in 1 .. K, Good(m - 1) PROVE Good(m)
  <2>1. h[m] = FlushState(h[m - 1])
    BY <1>1 DEF FlushTurn
  <2>2. PICK c : c = h[m - 1]
    OBVIOUS
  <2>3. PICK d : d = h[m]
    OBVIOUS
  <2>4. PICK n \in Nat : n = L - m + 1 /\ n >= 2
    <3>1. L - m + 1 \in Nat /\ L - m + 1 >= 2
      OBVIOUS
    <3> QED
      BY <3>1
  <2>5. PICK l : Tidy(c, l)
    BY <1>3, <2>2
  <2>6. Unwound(b, c, n)
    <3>1. L - (m - 1) = n
      BY <2>4
    <3> QED
      BY <1>3, <2>2, <3>1
  <2>7. Flushed(c, d)
    BY <2>1, <2>2, <2>3, <2>5, FlushStateIs DEF Tidy
  <2>8. n = Len(c.node_stack)
    BY <2>6 DEF Unwound
  <2>9. (\E e : Tidy(d, e)) /\ Unwound(c, d, n - 1)
    BY <2>4, <2>5, <2>7, <2>8, FlushTidy
  <2>10. n \in Int /\ n - 1 \in Int /\ n - 1 <= n /\ n - 1 = L - m
    BY <2>4
  <2>11. Unwound(b, d, n - 1)
    BY <2>6, <2>9, <2>10, UnwoundTwice
  <2> QED
    BY <2>3, <2>9, <2>10, <2>11
<1> HIDE DEF Good
<1>4. Bad = {}
  <2> SUFFICES ASSUME Bad # {} PROVE FALSE
    OBVIOUS
  <2> Bad \in SUBSET Nat
    OBVIOUS
  <2>1. PICK m \in Bad : \A n \in Bad : ~ (n < m)
    BY LeastNumber
  <2>2. m \in 1 .. K /\ m - 1 \in 0 .. K /\ m - 1 < m
    BY <1>2, <2>1
  <2>3. Good(m - 1)
    BY <2>1, <2>2
  <2> QED
    BY <1>3, <2>1, <2>2, <2>3
<1>5. Good(K)
  BY <1>4
<1> QED
  BY <1>5 DEF Good

\* The last node has left the stack, and nothing else has changed.
Popped(a, c) == c = [a EXCEPT !.node_stack = Front(@)]

\* Flush is that many turns, and then the node itself leaves the stack.
LEMMA FlushSteps ==
    ASSUME NEW b, NEW level, Tidy(b, level), NEW L \in Nat, L = Len(b.node_stack),
           NEW e \in 1 .. L, NEW K \in Nat, K = L - e
    PROVE  \E h : IsFlushRun(b, K, h) /\ Popped(h[K], Flush(b, b.node_stack[e]))
<1>1. PICK s : s = b.node_stack
  OBVIOUS
<1>2. DOMAIN s = 1 .. L /\ \A p, q \in 1 .. L : s[p] = s[q] => p = q
  <2>1. s \in Seq(Ids(b))
    BY <1>1 DEF Tidy, TidyStack
  <2> QED
    BY <1>1, <2>1, StackTyped, LenProperties
<1>3. e = CHOOSE d \in DOMAIN s : s[d] = s[e] /\ \A f \in d + 1 .. Len(s) : s[f] # s[e]
  <2>1. e \in 1 .. L /\ Len(s) = L
    BY <1>1
  <2>2. \A f \in e + 1 .. L : s[f] # s[e]
    <3> SUFFICES ASSUME NEW f \in e + 1 .. L, s[f] = s[e] PROVE FALSE
      OBVIOUS
    <3>1. f \in 1 .. L /\ f # e
      OBVIOUS
    <3> QED
      BY <1>2, <2>1, <3>1
  <2>3. \A d \in 1 .. L : s[d] = s[e] => d = e
    BY <1>2, <2>1
  <2> QED
    BY <1>2, <2>1, <2>2, <2>3
<1>4. PICK h : h = CHOOSE g : IsFlushRun(b, K, g)
  OBVIOUS
<1>5. IsFlushRun(b, K, h)
  BY <1>4, FlushRuns
<1>6. Flush(b, b.node_stack[e]) = [h[K] EXCEPT !.node_stack = Front(@)]
  <2>1. PICK depth : depth = CHOOSE d \in DOMAIN b.node_stack :
                               /\ b.node_stack[d] = s[e]
                               /\ \A f \in d + 1 .. Len(b.node_stack) : b.node_stack[f] # s[e]
    OBVIOUS
  <2>2. PICK M : M = Len(b.node_stack) - depth
    OBVIOUS
  <2>3. M = K
    BY <1>1, <1>3, <2>1, <2>2
  <2>4. Flush(b, s[e]) = [(CHOOSE g : IsFlushRun(b, M, g))[M] EXCEPT !.node_stack = Front(@)]
    BY <2>1, <2>2 DEF Flush, IsFlushRun, FlushTurn
  <2> QED
    BY <1>1, <1>4, <2>3, <2>4
<1> QED
  BY <1>5, <1>6 DEF Popped

\* What flushing the node at depth e leaves.
FlushLeaves(b, c, e) ==
    /\ \E l : Tidy(c, l) /\ l[b.node_stack[e]] = e
    /\ Unwound(b, c, e - 1)
    /\ Node(c, b.node_stack[e - 1]).child = Node(b, b.node_stack[e - 1]).child

\* Flush leaves the nodes in front of the one at depth e, with their children,
\* and that one on its level.
LEMMA FlushIs ==
    ASSUME NEW b, NEW level, Tidy(b, level), NEW L \in Nat, L = Len(b.node_stack),
           NEW e \in 2 .. L, NEW c, c = Flush(b, b.node_stack[e])
    PROVE  FlushLeaves(b, c, e)
<1>1. PICK s : s = b.node_stack
  OBVIOUS
<1>2. PICK K \in Nat : K = L - e
  <2>1. L - e \in Nat
    OBVIOUS
  <2> QED
    BY <2>1
<1>3. e \in 1 .. L
  OBVIOUS
<1>4. PICK h : IsFlushRun(b, K, h) /\ c = [h[K] EXCEPT !.node_stack = Front(@)]
  <2>1. PICK h : IsFlushRun(b, K, h) /\ Popped(h[K], Flush(b, b.node_stack[e]))
    BY <1>2, <1>3, FlushSteps
  <2> QED
    BY <2>1 DEF Popped
<1>5. (\E l : Tidy(h[K], l)) /\ Unwound(b, h[K], e)
  <2>1. K <= L - 1 /\ L - K = e
    BY <1>2
  <2>2. IsFlushRun(b, K, h)
    BY <1>4
  <2> QED
    BY <2>1, <2>2, FlushedTurns
<1>6. PICK a : a = h[K]
  OBVIOUS
<1>7. PICK l : Tidy(a, l)
  BY <1>5, <1>6
<1>8. /\ Builder(c) /\ c.node_stack = Front(a.node_stack) /\ c.nodes = a.nodes
      /\ c.recycle_bin = a.recycle_bin
  <2>1. Builder(a) /\ c = [a EXCEPT !.node_stack = Front(@)]
    BY <1>4, <1>6, <1>7 DEF Tidy
  <2> QED
    BY <2>1 DEF Builder
<1>9. /\ Len(a.node_stack) = e /\ Ids(a) = Ids(b)
      /\ \A p \in 1 .. e : a.node_stack[p] = s[p]
      /\ \A id \in Ids(b) : Node(a, id).label = Node(b, id).label
      /\ \A p \in 1 .. e - 1 : Node(a, s[p]).child = Node(b, s[p]).child
  BY <1>1, <1>5, <1>6 DEF Unwound
<1>10. Ids(c) = Ids(a) /\ \A id : Node(c, id) = Node(a, id)
  BY <1>8 DEF Ids, Node
<1>11. /\ a.node_stack \in Seq(Ids(a)) /\ a.node_stack # <<>> /\ a.node_stack[1] = 0
       /\ \A p \in 1 .. e : l[a.node_stack[p]] = p
  BY <1>7, <1>9 DEF Tidy, TidyStack, Root
<1>12. /\ c.node_stack \in Seq(Ids(a)) /\ Len(c.node_stack) = e - 1
       /\ \A p \in 1 .. e - 1 : c.node_stack[p] = a.node_stack[p]
  <2>1. PICK I : I = Ids(a)
    OBVIOUS
  <2>2. PICK t \in Seq(I) : t = a.node_stack /\ t # <<>>
    BY <1>11, <2>1
  <2>3. /\ Front(t) \in Seq(I) /\ Len(Front(t)) = Len(t) - 1
        /\ \A p \in 1 .. Len(t) - 1 : Front(t)[p] = t[p]
    BY <2>2, FrontIs
  <2>4. Len(t) = e /\ c.node_stack = Front(t)
    BY <1>8, <1>9, <2>2
  <2> QED
    BY <2>1, <2>2, <2>3, <2>4
<1>13. Tidy(c, l)
  <2>1. TidyStack(c, l)
    <3>1. c.node_stack # <<>>
      BY <1>12, EmptySeq
    <3>2. 1 \in 1 .. e - 1 /\ \A p \in 1 .. e - 1 : p \in 1 .. e
      OBVIOUS
    <3>3. c.node_stack[1] = 0
      BY <1>11, <1>12, <3>2
    <3>4. \A p \in 1 .. e - 1 : l[c.node_stack[p]] = p
      BY <1>11, <1>12, <3>2
    <3> QED
      BY <1>10, <1>12, <3>1, <3>3, <3>4 DEF TidyStack, Root
  <2>2. TidyBin(c, l)
    BY <1>7, <1>8, <1>10 DEF Tidy, TidyBin
  <2>3. TidySiblings(c, l)
    <3>1. TidySiblings(a, l)
      BY <1>7 DEF Tidy
    <3> QED
      BY <1>10, <3>1 DEF TidySiblings
  <2>4. (\E V : c.nodes \in Seq(NodeSet(V))) /\ l \in [Ids(c) -> Nat]
    BY <1>7, <1>8, <1>10 DEF Tidy
  <2> QED
    BY <1>8, <2>1, <2>2, <2>3, <2>4 DEF Tidy
<1>14. l[s[e]] = e
  <2>1. e \in 1 .. e
    OBVIOUS
  <2> QED
    BY <1>9, <1>11, <2>1
<1>15. \A p \in 1 .. e - 1 : c.node_stack[p] = s[p]
  <2>1. \A p \in 1 .. e - 1 : p \in 1 .. e
    OBVIOUS
  <2> QED
    BY <1>9, <1>12, <2>1
<1>16. \A p \in 1 .. e - 1 : Node(c, s[p]).child = Node(b, s[p]).child
  BY <1>9, <1>10
<1>17. Unwound(b, c, e - 1)
  <2>1. \A p \in 1 .. e - 1 - 1 : p \in 1 .. e - 1
    OBVIOUS
  <2> QED
    BY <1>1, <1>9, <1>10, <1>12, <1>15, <1>16, <2>1 DEF Unwound
<1>18. Node(c, s[e - 1]).child = Node(b, s[e - 1]).child
  <2>1. e - 1 \in 1 .. e - 1
    OBVIOUS
  <2> QED
    BY <1>16, <2>1
<1> QED
  BY <1>1, <1>13, <1>14, <1>17, <1>18 DEF FlushLeaves

--------
(***************************************************************************)
(* Adding nodes.                                                           *)
(***************************************************************************)

\* The node has got an id that was in the recycle bin or is new, and is on the
\* stack.
Appended(b, level, a, id, node) ==
    /\ Builder(a)
    /\ \E V : a.nodes \in Seq(NodeSet(V))
    /\ id # 0 /\ Ids(a) = Ids(b) \union {id}
    /\ id \in Ids(b) => level[id] = 0
    /\ Node(a, id) = node
    /\ \A i \in Ids(b) : i # id => Node(a, i) = Node(b, i)
    /\ a.node_stack = Append(b.node_stack, id)
    /\ a.recycle_bin \in Seq(Ids(b) \ {0}) /\ Distinct(a.recycle_bin)
    /\ \A i \in 1 .. Len(a.recycle_bin) :
          a.recycle_bin[i] # id /\ level[a.recycle_bin[i]] = 0

\* AppendNode does that.
LEMMA AppendIs ==
    ASSUME NEW b, NEW level, Tidy(b, level), NEW W, NEW node \in NodeSet(W)
    PROVE  \E id : Appended(b, level, AppendNode(b, node), id, node)
<1>1. PICK V : b.nodes \in Seq(NodeSet(V))
  BY DEF Tidy
<1>2. PICK T : T = NodeSet(V \union W)
  OBVIOUS
<1>3. b.nodes \in Seq(T) /\ node \in T
  <2>1. NodeSet(V) \subseteq T /\ NodeSet(W) \subseteq T
    BY <1>2 DEF NodeSet
  <2> QED
    BY <1>1, <2>1, SeqMonotonic
<1>4. PICK n \in Nat : n = Len(b.nodes)
  BY <1>3, LenProperties
<1>5. Ids(b) = 0 .. n - 1 /\ n # 0
  <2>1. b.node_stack[1] \in Ids(b)
    BY StackTyped
  <2> QED
    BY <1>4, <2>1 DEF Ids
<1>6. Builder(b) /\ TidyBin(b, level)
  BY DEF Tidy
<1>7. PICK a : a = AppendNode(b, node)
  OBVIOUS
<1>8. CASE b.recycle_bin = <<>>
  <2>1. a = [b EXCEPT !.nodes = Append(@, node), !.node_stack = Append(@, n)]
    BY <1>4, <1>7, <1>8 DEF AppendNode
  <2>2. /\ Builder(a) /\ a.nodes = Append(b.nodes, node) /\ a.node_stack = Append(b.node_stack, n)
        /\ a.recycle_bin = b.recycle_bin
    BY <1>6, <2>1 DEF Builder
  <2>3. /\ a.nodes \in Seq(T) /\ Len(a.nodes) = n + 1 /\ a.nodes[n + 1] = node
        /\ \A i \in 1 .. n : a.nodes[i] = b.nodes[i]
    BY <1>3, <1>4, <2>2, AppendProperties
  <2>4. Ids(a) = Ids(b) \union {n} /\ n \notin Ids(b)
    BY <1>4, <1>5, <2>3 DEF Ids
  <2>5. \A i \in Ids(b) : Node(a, i) = Node(b, i)
    <3>1. \A i \in Ids(b) : i + 1 \in 1 .. n
      BY <1>5
    <3> QED
      BY <2>3, <3>1 DEF Node
  <2>6. Node(a, n) = node
    BY <2>3 DEF Node
  <2>7. /\ a.recycle_bin \in Seq(Ids(b) \ {0}) /\ Distinct(a.recycle_bin)
        /\ \A i \in 1 .. Len(a.recycle_bin) :
              a.recycle_bin[i] # n /\ level[a.recycle_bin[i]] = 0
    <3>1. Len(a.recycle_bin) = 0
      BY <1>8, <2>2, EmptySeq
    <3> QED
      BY <1>6, <2>2, <3>1 DEF TidyBin
  <2>8. Appended(b, level, a, n, node)
    BY <1>2, <1>5, <2>2, <2>3, <2>4, <2>5, <2>6, <2>7 DEF Appended
  <2> QED
    BY <1>7, <2>8
<1>9. CASE b.recycle_bin # <<>>
  <2>1. PICK bin : bin = b.recycle_bin
    OBVIOUS
  <2>2. PICK id : id = Last(bin)
    OBVIOUS
  <2>3. bin \in Seq(Ids(b) \ {0}) /\ bin # <<>> /\ Distinct(bin)
        /\ \A i \in 1 .. Len(bin) : level[bin[i]] = 0
    BY <1>6, <1>9, <2>1 DEF TidyBin
  <2>4. /\ Len(bin) \in Nat \ {0} /\ Front(bin) \in Seq(Ids(b) \ {0})
        /\ Len(Front(bin)) = Len(bin) - 1
        /\ \A i \in 1 .. Len(bin) - 1 : Front(bin)[i] = bin[i]
        /\ Last(bin) = bin[Len(bin)]
    BY <2>3, FrontIs
  <2>5. PICK m \in Nat \ {0} : m = Len(bin)
    BY <2>4
  <2>6. id = bin[m] /\ id \in Ids(b) \ {0} /\ level[id] = 0
    <3>1. m \in 1 .. Len(bin)
      BY <2>5
    <3> QED
      BY <2>2, <2>3, <2>4, <2>5, <3>1, ElementOfSeq
  <2>7. a = [b EXCEPT !.nodes[id + 1] = node, !.node_stack = Append(@, id),
                      !.recycle_bin = Front(@)]
    BY <1>7, <1>9, <2>1, <2>2 DEF AppendNode
  <2>8. /\ Builder(a) /\ a.nodes = [b.nodes EXCEPT ![id + 1] = node]
        /\ a.node_stack = Append(b.node_stack, id) /\ a.recycle_bin = Front(bin)
    BY <1>6, <2>1, <2>7 DEF Builder
  <2>9. id \in 0 .. n - 1 /\ id + 1 \in 1 .. n
    BY <1>5, <2>6
  <2>10. DOMAIN b.nodes = 1 .. n /\ \A i \in 1 .. n : b.nodes[i] \in T
    BY <1>3, <1>4, LenProperties, ElementOfSeq
  <2>11. /\ a.nodes \in [1 .. n -> T] /\ a.nodes[id + 1] = node
         /\ \A i \in 1 .. n : i # id + 1 => a.nodes[i] = b.nodes[i]
    BY <1>3, <2>8, <2>9, <2>10
  <2>12. a.nodes \in Seq(T) /\ Len(a.nodes) = n
    BY <2>11, FunctionIsSeq
  <2>13. Ids(a) = Ids(b) \union {id}
    BY <1>4, <2>6, <2>12 DEF Ids
  <2>14. \A i \in Ids(b) : i # id => Node(a, i) = Node(b, i)
    <3>1. \A i \in Ids(b) : i # id => i + 1 \in 1 .. n /\ i + 1 # id + 1
      BY <1>5, <2>9
    <3> QED
      BY <2>11, <3>1 DEF Node
  <2>15. Node(a, id) = node
    BY <2>11 DEF Node
  <2>16. Len(Front(bin)) = m - 1 /\ \A i \in 1 .. m - 1 : Front(bin)[i] = bin[i]
    BY <2>4, <2>5
  <2>17. Distinct(Front(bin))
    <3>1. \A i \in 1 .. m - 1 : i \in 1 .. m
      OBVIOUS
    <3> QED
      BY <2>3, <2>5, <2>16, <3>1 DEF Distinct
  <2>18. \A i \in 1 .. m - 1 : Front(bin)[i] # id /\ level[Front(bin)[i]] = 0
    <3> SUFFICES ASSUME NEW i \in 1 .. m - 1
                 PROVE  Front(bin)[i] # id /\ level[Front(bin)[i]] = 0
      OBVIOUS
    <3>1. i \in 1 .. m /\ m \in 1 .. m /\ i # m
      OBVIOUS
    <3>2. bin[i] # bin[m] /\ level[bin[i]] = 0
      BY <2>3, <2>5, <3>1 DEF Distinct
    <3> QED
      BY <2>6, <2>16, <3>2
  <2>19. Appended(b, level, a, id, node)
    BY <1>2, <2>4, <2>6, <2>8, <2>12, <2>13, <2>14, <2>15, <2>16, <2>17, <2>18 DEF Appended
  <2> QED
    BY <1>7, <2>19
<1> QED
  BY <1>8, <1>9

\* What hangs below the last node of the stack goes before a node with this
\* label.
Hangs(b, level, label) ==
    LET first == Node(b, Last(b.node_stack)).child
    IN  \/ first = 0
        \/ /\ first \in Ids(b) /\ level[first] = Len(b.node_stack) + 1
           /\ Node(b, first).label < label

\* The stack of c is that of b and the new node.
Grown(b, c, id, label) ==
    /\ Len(c.node_stack) = Len(b.node_stack) + 1
    /\ \A p \in 1 .. Len(b.node_stack) :
         /\ c.node_stack[p] = b.node_stack[p]
         /\ Node(c, b.node_stack[p]).label = Node(b, b.node_stack[p]).label
         /\ Node(c, b.node_stack[p]).child =
              IF p = Len(b.node_stack) THEN id ELSE Node(b, b.node_stack[p]).child
    /\ c.node_stack[Len(b.node_stack) + 1] = id
    /\ Node(c, id).label = label /\ Node(c, id).child = 0

\* AddNode keeps a builder tidy.
LEMMA AddNodeIs ==
    ASSUME NEW b, NEW level, Tidy(b, level), NEW label \in Nat, Hangs(b, level, label),
           NEW at, at = [dawg |-> b, id |-> Last(b.node_stack)],
           NEW r, r = AddNode(at, label)
    PROVE  /\ r = [dawg |-> r.dawg, id |-> Last(r.dawg.node_stack)]
           /\ \E l : Tidy(r.dawg, l)
           /\ Grown(b, r.dawg, r.id, label)
<1>1. PICK n \in Nat \ {0} : n = Len(b.node_stack)
  BY StackTyped
<1>2. PICK s : s = b.node_stack
  OBVIOUS
<1>3. /\ s \in Seq(Ids(b)) /\ s # <<>> /\ s[1] = 0 /\ Len(s) = n
      /\ \A p \in 1 .. n : s[p] \in Ids(b) /\ s[p] \in Nat /\ level[s[p]] = p
      /\ \A p, q \in 1 .. n : s[p] = s[q] => p = q
  BY <1>1, <1>2, StackTyped DEF Tidy, TidyStack, Root
<1>4. PICK top : top = s[n]
  OBVIOUS
<1>5. Last(b.node_stack) = top /\ top \in Ids(b) /\ level[top] = n
  BY <1>1, <1>2, <1>3, <1>4 DEF Last
<1>6. PICK first : first = Node(b, top).child
  OBVIOUS
<1>7. \/ first = 0
      \/ first \in Ids(b) /\ level[first] = n + 1 /\ Node(b, first).label < label
  BY <1>1, <1>5, <1>6 DEF Hangs
<1>8. PICK node : node = [DawgNode(label) EXCEPT !.sibling = first, !.is_state = first = 0]
  OBVIOUS
<1>9. /\ node \in NodeSet({0})
      /\ node.child = 0 /\ node.sibling = first /\ node.label = label
  <2>1. first \in Nat
    <3>1. \A id \in Ids(b) : id \in Nat
      BY NodesTyped DEF Tidy
    <3> QED
      BY <1>7, <3>1
  <2>2. node = [child |-> 0, sibling |-> first, label |-> label, is_state |-> first = 0,
                has_sibling |-> FALSE]
    BY <1>8 DEF DawgNode
  <2>3. (first = 0) \in BOOLEAN
    OBVIOUS
  <2>4. PICK z \in BOOLEAN : z = (first = 0)
    BY <2>3
  <2> QED
    BY <2>1, <2>2, <2>4 DEF NodeSet
<1>10. PICK a : a = AppendNode(b, node)
  OBVIOUS
<1>11. PICK id : Appended(b, level, a, id, node)
  BY <1>9, <1>10, AppendIs
<1>12. /\ Builder(a) /\ id # 0 /\ Ids(a) = Ids(b) \union {id}
       /\ id \in Ids(b) => level[id] = 0
       /\ Node(a, id) = node
       /\ \A i \in Ids(b) : i # id => Node(a, i) = Node(b, i)
       /\ a.node_stack = Append(s, id)
       /\ a.recycle_bin \in Seq(Ids(b) \ {0}) /\ Distinct(a.recycle_bin)
       /\ \A i \in 1 .. Len(a.recycle_bin) :
             a.recycle_bin[i] # id /\ level[a.recycle_bin[i]] = 0
  BY <1>2, <1>11 DEF Appended
<1>13. PICK V : a.nodes \in Seq(NodeSet(V))
  BY <1>11 DEF Appended
<1>14. PICK S : S = Ids(a)
  OBVIOUS
<1>15. /\ a.node_stack \in Seq(S) /\ Len(a.node_stack) = n + 1
       /\ a.node_stack[n + 1] = id
       /\ \A p \in 1 .. n : a.node_stack[p] = s[p]
  <2>1. s \in Seq(S) /\ id \in S
    <3>1. Ids(b) \subseteq S /\ id \in S
      BY <1>12, <1>14
    <3> QED
      BY <1>3, <3>1, SeqMonotonic
  <2> QED
    BY <1>3, <1>12, <2>1, AppendProperties
<1>16. Last(a.node_stack) = id
  BY <1>15 DEF Last
<1>17. PICK c : c = [a EXCEPT !.nodes[top + 1].child = id]
  OBVIOUS
<1>18. r = [dawg |-> c, id |-> id]
  <2>1. at.dawg = b /\ at.id = top
    BY <1>5
  <2> QED
    BY <1>6, <1>8, <1>10, <1>16, <1>17, <2>1 DEF AddNode
<1>19. /\ Builder(c) /\ c.nodes = [a.nodes EXCEPT ![top + 1].child = id]
       /\ c.node_stack = a.node_stack /\ c.recycle_bin = a.recycle_bin
  BY <1>12, <1>17 DEF Builder
<1>20. /\ Len(a.nodes) \in Nat
       /\ \A i \in Ids(a) : i \in Nat /\ i + 1 \in 1 .. Len(a.nodes)
  BY <1>13, NodesTyped
<1>21. top \in Ids(a) /\ top # id
  <2>1. level[top] # 0
    BY <1>5
  <2> QED
    BY <1>5, <1>12, <2>1
<1>22. c.nodes \in Seq(NodeSet(V \union {id})) /\ ChildGiven(a.nodes, c.nodes, top + 1, id)
  BY <1>13, <1>19, <1>20, <1>21, ChildSet
<1>23. Ids(c) = Ids(a)
  BY <1>22 DEF Ids, ChildGiven
<1>24. \A i \in Ids(a) :
          /\ Node(c, i).sibling = Node(a, i).sibling
          /\ Node(c, i).label = Node(a, i).label
          /\ i # top => Node(c, i).child = Node(a, i).child
  <2> SUFFICES ASSUME NEW i \in Ids(a)
               PROVE  /\ Node(c, i).sibling = Node(a, i).sibling
                      /\ Node(c, i).label = Node(a, i).label
                      /\ i # top => Node(c, i).child = Node(a, i).child
    OBVIOUS
  <2>1. i + 1 \in 1 .. Len(a.nodes) /\ (i # top => i + 1 # top + 1)
    BY <1>20, <1>21
  <2> QED
    BY <1>22, <2>1 DEF ChildGiven, Node
<1>25. Node(c, top).child = id
  BY <1>22 DEF ChildGiven, Node
<1>26. PICK l : l = [i \in Ids(a) |-> IF i = id THEN n + 1 ELSE level[i]]
  OBVIOUS
<1>27. l \in [Ids(c) -> Nat]
  <2>1. level \in [Ids(b) -> Nat]
    BY DEF Tidy
  <2>2. \A i \in Ids(a) : i # id => i \in Ids(b) /\ level[i] \in Nat
    BY <1>12, <2>1
  <2> QED
    BY <1>23, <1>26, <2>2
<1>28. \A i \in Ids(b) : l[i] = (IF i = id THEN n + 1 ELSE level[i]) /\ i \in Ids(a)
  BY <1>12, <1>26
<1>29. \A p \in 1 .. n : s[p] # id
  BY <1>3, <1>12
<1>30. TidyStack(c, l)
  <2>1. c.node_stack \in Seq(Ids(c)) /\ Len(c.node_stack) = n + 1
    BY <1>14, <1>15, <1>19, <1>23
  <2>2. c.node_stack # <<>>
    BY <2>1, EmptySeq
  <2>3. c.node_stack[1] = 0
    <3>1. 1 \in 1 .. n
      OBVIOUS
    <3> QED
      BY <1>3, <1>15, <1>19, <3>1
  <2>4. ASSUME NEW p \in 1 .. n + 1 PROVE l[c.node_stack[p]] = p
    <3>1. CASE p = n + 1
      <4>1. c.node_stack[p] = id /\ id \in Ids(a)
        BY <1>12, <1>15, <1>19, <3>1
      <4> QED
        BY <1>26, <3>1, <4>1
    <3>2. CASE p # n + 1
      <4>1. p \in 1 .. n
        BY <3>2
      <4>2. c.node_stack[p] = s[p] /\ s[p] # id /\ s[p] \in Ids(b) /\ level[s[p]] = p
        BY <1>3, <1>15, <1>19, <1>29, <4>1
      <4> QED
        BY <1>28, <4>2
    <3> QED
      BY <3>1, <3>2
  <2> QED
    BY <2>1, <2>2, <2>3, <2>4 DEF TidyStack, Root
<1>31. TidyBin(c, l)
  <2>1. PICK bin : bin = a.recycle_bin
    OBVIOUS
  <2>2. bin \in Seq(Ids(b) \ {0}) /\ Distinct(bin)
    BY <1>12, <2>1
  <2>3. \A i \in 1 .. Len(bin) : bin[i] \in Ids(b)
    BY <2>2, ElementOfSeq
  <2>4. \A i \in 1 .. Len(bin) : l[bin[i]] = 0
    BY <1>12, <1>28, <2>1, <2>3
  <2>5. bin \in Seq(Ids(c) \ {0})
    <3>1. Ids(b) \ {0} \subseteq Ids(c) \ {0}
      BY <1>12, <1>23
    <3> QED
      BY <2>2, <3>1, SeqMonotonic
  <2> QED
    BY <1>19, <2>1, <2>2, <2>4, <2>5 DEF TidyBin
<1>32. TidySiblings(c, l)
  <2> SUFFICES ASSUME NEW i \in Ids(a), l[i] # 0, Node(c, i).sibling # 0
               PROVE  /\ Node(c, i).sibling \in Ids(a) \ {0}
                      /\ l[Node(c, i).sibling] = l[i]
                      /\ Node(c, Node(c, i).sibling).label < Node(c, i).label
    BY <1>23 DEF TidySiblings
  <2>1. PICK y : y = Node(c, i).sibling
    OBVIOUS
  <2>2. y # 0 /\ y = Node(a, i).sibling
    BY <1>24, <2>1
  <2>3. CASE i = id
    <3>1. y = first /\ l[i] = n + 1
      BY <1>9, <1>12, <1>26, <2>2, <2>3
    <3>2. y \in Ids(b) /\ level[y] = n + 1 /\ Node(b, y).label < label
      BY <1>7, <2>2, <3>1
    <3>3. y # id
      <4>1. level[y] # 0
        BY <3>2
      <4> QED
        BY <1>12, <3>2, <4>1
    <3>4. l[y] = n + 1 /\ y \in Ids(a) /\ Node(c, y).label = Node(b, y).label
      BY <1>12, <1>24, <1>28, <3>2, <3>3
    <3>5. Node(c, i).label = label
      BY <1>9, <1>12, <1>24, <2>3
    <3> QED
      BY <2>1, <2>2, <3>1, <3>2, <3>4, <3>5
  <2>4. CASE i # id
    <3>1. i \in Ids(b) /\ l[i] = level[i] /\ Node(a, i) = Node(b, i)
      BY <1>12, <1>28, <2>4
    <3>2. y = Node(b, i).sibling /\ level[i] # 0
      BY <2>2, <3>1
    <3>3. y \in Ids(b) \ {0} /\ level[y] = level[i] /\ Node(b, y).label < Node(b, i).label
      BY <2>2, <3>1, <3>2 DEF Tidy, TidySiblings
    <3>4. y # id
      BY <1>12, <3>2, <3>3
    <3>5. l[y] = level[y] /\ y \in Ids(a) /\ Node(c, y).label = Node(b, y).label
      BY <1>12, <1>24, <1>28, <3>3, <3>4
    <3>6. Node(c, i).label = Node(b, i).label
      BY <1>24, <3>1
    <3> QED
      BY <2>1, <2>2, <3>1, <3>3, <3>5, <3>6
  <2> QED
    BY <2>3, <2>4
<1>33. Tidy(c, l)
  BY <1>19, <1>22, <1>27, <1>30, <1>31, <1>32 DEF Tidy
<1>34. Grown(b, c, id, label)
  <2>1. ASSUME NEW p \in 1 .. n
        PROVE  /\ c.node_stack[p] = s[p]
               /\ Node(c, s[p]).label = Node(b, s[p]).label
               /\ Node(c, s[p]).child = IF p = n THEN id ELSE Node(b, s[p]).child
    <3>1. s[p] \in Ids(b) /\ s[p] # id /\ s[p] \in Ids(a)
      BY <1>3, <1>12, <1>29
    <3>2. Node(a, s[p]) = Node(b, s[p])
      BY <1>12, <3>1
    <3>3. p # n => s[p] # top
      BY <1>3, <1>4
    <3>4. Node(c, s[p]).label = Node(b, s[p]).label
      BY <1>24, <3>1, <3>2
    <3>5. CASE p = n
      BY <1>4, <1>15, <1>19, <1>25, <3>4, <3>5
    <3>6. CASE p # n
      BY <1>15, <1>19, <1>24, <3>1, <3>2, <3>3, <3>4, <3>6
    <3> QED
      BY <3>5, <3>6
  <2>2. id \in Ids(a) /\ id # top
    BY <1>12, <1>21
  <2>3. Node(c, id).label = label /\ Node(c, id).child = 0
    BY <1>9, <1>12, <1>24, <2>2
  <2>4. Len(c.node_stack) = n + 1 /\ c.node_stack[n + 1] = id
    BY <1>15, <1>19
  <2> QED
    BY <1>1, <1>2, <2>1, <2>3, <2>4 DEF Grown
<1>35. r.dawg = c /\ r.id = id /\ Last(c.node_stack) = id
  BY <1>16, <1>18, <1>19
<1> QED
  BY <1>18, <1>33, <1>34, <1>35

\* The stack of b spells the first m characters of the key.
PathTo(b, key, m) ==
    /\ Len(b.node_stack) = m + 1
    /\ \A p \in 1 .. m :
         /\ Node(b, b.node_stack[p]).child = b.node_stack[p + 1]
         /\ Node(b, b.node_stack[p + 1]).label = CharAt(key, p)

\* A node more, a character more.
LEMMA GrownPath ==
    ASSUME NEW b, NEW c, NEW key, NEW m \in Nat, NEW id, PathTo(b, key, m),
           Grown(b, c, id, CharAt(key, m + 1))
    PROVE  PathTo(c, key, m + 1)
<1>1. Len(b.node_stack) = m + 1
  BY DEF PathTo
<1>2. Len(c.node_stack) = m + 1 + 1 /\ c.node_stack[m + 1 + 1] = id
      /\ Node(c, id).label = CharAt(key, m + 1)
  BY <1>1 DEF Grown
<1>3. \A p \in 1 .. m + 1 :
        /\ c.node_stack[p] = b.node_stack[p]
        /\ Node(c, b.node_stack[p]).label = Node(b, b.node_stack[p]).label
        /\ Node(c, b.node_stack[p]).child =
             IF p = m + 1 THEN id ELSE Node(b, b.node_stack[p]).child
  BY <1>1 DEF Grown
<1>4. ASSUME NEW p \in 1 .. m + 1
      PROVE  /\ Node(c, c.node_stack[p]).child = c.node_stack[p + 1]
             /\ Node(c, c.node_stack[p + 1]).label = CharAt(key, p)
  <2>1. CASE p = m + 1
    BY <1>2, <1>3, <2>1
  <2>2. CASE p # m + 1
    <3>1. p \in 1 .. m /\ p + 1 \in 1 .. m + 1
      BY <2>2
    <3>2. Node(b, b.node_stack[p]).child = b.node_stack[p + 1]
          /\ Node(b, b.node_stack[p + 1]).label = CharAt(key, p)
      BY <3>1 DEF PathTo
    <3> QED
      BY <1>3, <2>2, <3>1, <3>2
  <2> QED
    BY <2>1, <2>2
<1> QED
  BY <1>2, <1>4 DEF PathTo

\* The n-th turn of the loop of insert that adds nodes.
ExtendTurn(b, key, id, pos, h, n) ==
    IF n = 0 THEN [dawg |-> b, id |-> id] ELSE AddNode(h[n - 1], CharAt(key, pos + n - 1))

IsExtendRun(b, key, id, pos, K, h) == h = [n \in 0 .. K |-> ExtendTurn(b, key, id, pos, h, n)]

\* The recursion that stands for that loop has a solution.
LEMMA ExtendRuns ==
    ASSUME NEW b, NEW key, NEW id, NEW pos, NEW K \in Nat
    PROVE  \E h : IsExtendRun(b, key, id, pos, K, h)
<1> DEFINE Runs(m) == \E h : h = [n \in 0 .. m |-> ExtendTurn(b, key, id, pos, h, n)]
           Stuck == {m \in 0 .. K : ~ Runs(m)}
<1>1. Runs(0)
  <2>1. PICK h : h = [n \in 0 .. 0 |-> [dawg |-> b, id |-> id]]
    OBVIOUS
  <2>2. \A n \in 0 .. 0 : ExtendTurn(b, key, id, pos, h, n) = [dawg |-> b, id |-> id]
    BY DEF ExtendTurn
  <2> QED
    BY <2>1, <2>2
<1>2. ASSUME NEW m \in 1 .. K, Runs(m - 1) PROVE Runs(m)
  <2>1. PICK h : h = [n \in 0 .. m - 1 |-> ExtendTurn(b, key, id, pos, h, n)]
    BY <1>2
  <2>2. PICK g : g = [n \in 0 .. m |->
                        IF n < m THEN h[n] ELSE ExtendTurn(b, key, id, pos, h, m)]
    OBVIOUS
  <2>3. ASSUME NEW n \in 0 .. m PROVE g[n] = ExtendTurn(b, key, id, pos, g, n)
    <3>1. n # 0 => n - 1 \in 0 .. m - 1 /\ g[n - 1] = h[n - 1]
      BY <2>2
    <3>2. ExtendTurn(b, key, id, pos, g, n) = ExtendTurn(b, key, id, pos, h, n)
      BY <3>1 DEF ExtendTurn
    <3>3. CASE n < m
      <4>1. n \in 0 .. m - 1
        BY <3>3
      <4> QED
        BY <2>1, <2>2, <3>2, <3>3, <4>1
    <3>4. CASE n = m
      BY <2>2, <3>2, <3>4
    <3> QED
      BY <3>3, <3>4
  <2>4. g = [n \in 0 .. m |-> ExtendTurn(b, key, id, pos, g, n)]
    BY <2>2, <2>3
  <2> QED
    BY <2>4
<1> HIDE DEF Runs
<1>3. Stuck = {}
  <2> SUFFICES ASSUME Stuck # {} PROVE FALSE
    OBVIOUS
  <2> Stuck \in SUBSET Nat
    OBVIOUS
  <2>1. PICK m \in Stuck : \A n \in Stuck : ~ (n < m)
    BY LeastNumber
  <2>2. m \in 1 .. K /\ m - 1 \in 0 .. K /\ m - 1 < m
    BY <1>1, <2>1
  <2>3. Runs(m - 1)
    BY <2>1, <2>2
  <2> QED
    BY <1>2, <2>1, <2>2, <2>3
<1>4. Runs(K)
  BY <1>3
<1> QED
  BY <1>4 DEF Runs, IsExtendRun

\* Where the loop is: at the last node of the stack, in front of the next
\* character.
ExtendedTo(r, key, m) ==
    /\ r = [dawg |-> r.dawg, id |-> Last(r.dawg.node_stack)]
    /\ PathTo(r.dawg, key, m)
    /\ \E l : Tidy(r.dawg, l) /\ Hangs(r.dawg, l, CharAt(key, m + 1))

\* A turn of the loop.
LEMMA ExtendStep ==
    ASSUME NEW key \in Seq(Labels), NEW m \in Nat, NEW r, ExtendedTo(r, key, m),
           NEW q, q = AddNode(r, CharAt(key, m + 1))
    PROVE  ExtendedTo(q, key, m + 1)
<1>1. PICK b : b = r.dawg
  OBVIOUS
<1>2. PICK l : Tidy(b, l) /\ Hangs(b, l, CharAt(key, m + 1))
  BY <1>1 DEF ExtendedTo
<1>3. PICK label \in Nat : label = CharAt(key, m + 1)
  <2>1. m + 1 \in Nat \ {0}
    OBVIOUS
  <2>2. CharAt(key, m + 1) \in Nat
    BY <2>1, CharIs
  <2> QED
    BY <2>2
<1>4. r = [dawg |-> b, id |-> Last(b.node_stack)]
  BY <1>1 DEF ExtendedTo
<1>5. /\ q = [dawg |-> q.dawg, id |-> Last(q.dawg.node_stack)]
      /\ \E k : Tidy(q.dawg, k)
      /\ Grown(b, q.dawg, q.id, label)
  BY <1>2, <1>3, <1>4, AddNodeIs
<1>6. PathTo(q.dawg, key, m + 1)
  <2>1. PathTo(b, key, m)
    BY <1>1 DEF ExtendedTo
  <2> QED
    BY <1>3, <1>5, <2>1, GrownPath
<1>7. Node(q.dawg, Last(q.dawg.node_stack)).child = 0
  <2>1. q.id = Last(q.dawg.node_stack)
    BY <1>5
  <2>2. Node(q.dawg, q.id).child = 0
    BY <1>5 DEF Grown
  <2> QED
    BY <2>1, <2>2
<1>8. PICK k : Tidy(q.dawg, k)
  BY <1>5
<1>9. Hangs(q.dawg, k, CharAt(key, m + 1 + 1))
  BY <1>7 DEF Hangs
<1> QED
  BY <1>5, <1>6, <1>8, <1>9 DEF ExtendedTo

\* A tidy builder whose stack spells the key and its end.
Spelt(b, key) == (\E l : Tidy(b, l)) /\ PathTo(b, key, Len(key) + 1)

\* The node has been given its child, and nothing else has changed.
ValueGiven(a, id, x, c) == c = [a EXCEPT !.nodes[id + 1].child = x]

\* Extend is a turn for each character that is left, and then the value.
LEMMA ExtendSteps ==
    ASSUME NEW b, NEW key \in Seq(Labels), NEW n \in Nat, n = Len(key), NEW pos \in 1 .. n + 1,
           NEW id, NEW value, ExtendedTo([dawg |-> b, id |-> id], key, pos - 1),
           NEW K \in Nat, K = n + 2 - pos
    PROVE  \E h : /\ IsExtendRun(b, key, id, pos, K, h)
                  /\ \A m \in 0 .. K : ExtendedTo(h[m], key, pos - 1 + m)
                  /\ ValueGiven(h[K].dawg, h[K].id, value, Extend(b, key, value, id, pos))
<1>1. PICK h : h = CHOOSE g : IsExtendRun(b, key, id, pos, K, g)
  OBVIOUS
<1>2. IsExtendRun(b, key, id, pos, K, h)
  BY <1>1, ExtendRuns
<1>3. Extend(b, key, value, id, pos) = [h[K].dawg EXCEPT !.nodes[h[K].id + 1].child = value]
  <2>1. PICK M : M = Len(key) + 2 - pos
    OBVIOUS
  <2>2. M = K
    BY <2>1
  <2>3. PICK done : done = (CHOOSE g : IsExtendRun(b, key, id, pos, M, g))[M]
    OBVIOUS
  <2>4. Extend(b, key, value, id, pos) = [done.dawg EXCEPT !.nodes[done.id + 1].child = value]
    BY <2>1, <2>3 DEF Extend, IsExtendRun, ExtendTurn
  <2> QED
    BY <1>1, <2>2, <2>3, <2>4
<1>4. \A m \in 0 .. K : h[m] = ExtendTurn(b, key, id, pos, h, m)
  BY <1>2 DEF IsExtendRun
<1> DEFINE Bad == {m \in 0 .. K : ~ ExtendedTo(h[m], key, pos - 1 + m)}
<1>5. Bad = {}
  <2> SUFFICES ASSUME Bad # {} PROVE FALSE
    OBVIOUS
  <2> Bad \in SUBSET Nat
    OBVIOUS
  <2>1. PICK m \in Bad : \A i \in Bad : ~ (i < m)
    BY LeastNumber
  <2>2. m \in 0 .. K /\ ~ ExtendedTo(h[m], key, pos - 1 + m)
    BY <2>1
  <2>3. m # 0
    <3> SUFFICES ASSUME m = 0 PROVE FALSE
      OBVIOUS
    <3>1. h[0] = [dawg |-> b, id |-> id] /\ pos - 1 + 0 = pos - 1
      BY <1>4 DEF ExtendTurn
    <3> QED
      BY <2>2, <3>1
  <2>4. m - 1 \in 0 .. K /\ m - 1 < m
    BY <2>2, <2>3
  <2>5. ExtendedTo(h[m - 1], key, pos - 1 + (m - 1))
    BY <2>1, <2>4
  <2>6. PICK i \in Nat : i = pos - 1 + (m - 1)
    <3>1. pos - 1 + (m - 1) \in Nat
      BY <2>2, <2>3
    <3> QED
      BY <3>1
  <2>7. h[m] = AddNode(h[m - 1], CharAt(key, i + 1))
    <3>1. pos + m - 1 = i + 1
      BY <2>2, <2>6
    <3> QED
      BY <1>4, <2>2, <2>3, <3>1 DEF ExtendTurn
  <2>8. ExtendedTo(h[m], key, i + 1)
    BY <2>5, <2>6, <2>7, ExtendStep
  <2>9. i + 1 = pos - 1 + m
    BY <2>2, <2>6
  <2> QED
    BY <2>2, <2>8, <2>9
<1> QED
  BY <1>2, <1>3, <1>5 DEF ValueGiven

\* Extend spells the rest of the key.
LEMMA ExtendIs ==
    ASSUME NEW b, NEW key \in Seq(Labels), NEW pos \in 1 .. Len(key) + 1, NEW id, NEW value,
           ExtendedTo([dawg |-> b, id |-> id], key, pos - 1),
           NEW c, c = Extend(b, key, value, id, pos)
    PROVE  Spelt(c, key)
<1>1. PICK n \in Nat : n = Len(key)
  BY LenProperties
<1>2. PICK K \in Nat : K = n + 2 - pos /\ K # 0
  <2>1. n + 2 - pos \in Nat /\ n + 2 - pos # 0
    BY <1>1
  <2> QED
    BY <2>1
<1>3. pos \in 1 .. n + 1
  BY <1>1
<1>4. PICK h : /\ IsExtendRun(b, key, id, pos, K, h)
               /\ \A m \in 0 .. K : ExtendedTo(h[m], key, pos - 1 + m)
               /\ ValueGiven(h[K].dawg, h[K].id, value, Extend(b, key, value, id, pos))
  BY <1>1, <1>2, <1>3, ExtendSteps
<1>5. c = [h[K].dawg EXCEPT !.nodes[h[K].id + 1].child = value]
  BY <1>4 DEF ValueGiven
<1>6. ExtendedTo(h[K], key, n + 1)
  <2>1. pos - 1 + K = n + 1 /\ K \in 0 .. K
    BY <1>1, <1>2
  <2> QED
    BY <1>4, <2>1
<1>7. PICK a : a = h[K].dawg
  OBVIOUS
<1>8. PICK l : Tidy(a, l)
  BY <1>6, <1>7 DEF ExtendedTo
<1>9. PathTo(a, key, n + 1) /\ h[K].id = Last(a.node_stack)
  BY <1>6, <1>7 DEF ExtendedTo
<1>10. PICK s : s = a.node_stack
  OBVIOUS
<1>11. /\ Len(s) = n + 2
       /\ \A p \in 1 .. n + 1 : /\ Node(a, s[p]).child = s[p + 1]
                               /\ Node(a, s[p + 1]).label = CharAt(key, p)
  BY <1>9, <1>10 DEF PathTo
<1>12. /\ \A p \in 1 .. n + 2 : s[p] \in Ids(a) /\ s[p] \in Nat
       /\ \A p, q \in 1 .. n + 2 : s[p] = s[q] => p = q
  BY <1>8, <1>10, <1>11, StackTyped
<1>13. h[K].id = s[n + 2]
  BY <1>9, <1>10, <1>11 DEF Last
<1>14. Builder(a) /\ c = [a EXCEPT !.nodes[s[n + 2] + 1].child = value]
  BY <1>5, <1>7, <1>8, <1>13 DEF Tidy
<1>15. /\ Builder(c) /\ c.nodes = [a.nodes EXCEPT ![s[n + 2] + 1].child = value]
       /\ c.node_stack = s /\ c.recycle_bin = a.recycle_bin
  BY <1>10, <1>14 DEF Builder
<1>16. PICK V : a.nodes \in Seq(NodeSet(V))
  BY <1>8 DEF Tidy
<1>17. \A i \in Ids(a) : i \in Nat /\ i + 1 \in 1 .. Len(a.nodes)
  BY <1>16, NodesTyped
<1>18. PICK k \in 1 .. Len(a.nodes) : k = s[n + 2] + 1
  <2>1. n + 2 \in 1 .. n + 2
    OBVIOUS
  <2> QED
    BY <1>12, <1>17, <2>1
<1>19. c.nodes \in Seq(NodeSet(V \union {value})) /\ ChildGiven(a.nodes, c.nodes, k, value)
  <2>1. c.nodes = [a.nodes EXCEPT ![k].child = value]
    BY <1>15, <1>18
  <2>2. k \in 1 .. Len(a.nodes)
    OBVIOUS
  <2> QED
    BY <1>16, <2>1, <2>2, ChildSet, Zenon
<1>20. Ids(c) = Ids(a)
  BY <1>19 DEF Ids, ChildGiven
<1>21. \A i \in Ids(a) :
          /\ Node(c, i).sibling = Node(a, i).sibling
          /\ Node(c, i).label = Node(a, i).label
          /\ i + 1 # k => Node(c, i).child = Node(a, i).child
  BY <1>17, <1>19 DEF ChildGiven, Node
<1>22. Tidy(c, l)
  <2>1. TidyStack(c, l) /\ TidyBin(c, l)
    BY <1>8, <1>10, <1>15, <1>20 DEF Tidy, TidyStack, TidyBin
  <2>2. TidySiblings(c, l)
    <3>1. TidySiblings(a, l)
      BY <1>8 DEF Tidy
    <3> SUFFICES ASSUME NEW i \in Ids(a), l[i] # 0, Node(c, i).sibling # 0
                 PROVE  /\ Node(c, i).sibling \in Ids(a) \ {0}
                        /\ l[Node(c, i).sibling] = l[i]
                        /\ Node(c, Node(c, i).sibling).label < Node(c, i).label
      BY <1>20 DEF TidySiblings
    <3>2. PICK y : y = Node(a, i).sibling
      OBVIOUS
    <3>3. Node(c, i).sibling = y /\ y # 0
      BY <1>21, <3>2
    <3>4. y \in Ids(a) \ {0} /\ l[y] = l[i] /\ Node(a, y).label < Node(a, i).label
      BY <3>1, <3>2, <3>3 DEF TidySiblings
    <3> QED
      BY <1>21, <3>3, <3>4
  <2>3. l \in [Ids(c) -> Nat]
    BY <1>8, <1>20 DEF Tidy
  <2> QED
    BY <1>15, <1>19, <2>1, <2>2, <2>3 DEF Tidy
<1>23. PathTo(c, key, n + 1)
  <2>1. ASSUME NEW p \in 1 .. n + 1
        PROVE  Node(c, s[p]).child = s[p + 1] /\ Node(c, s[p + 1]).label = CharAt(key, p)
    <3>1. p \in 1 .. n + 2 /\ p + 1 \in 1 .. n + 2 /\ n + 2 \in 1 .. n + 2 /\ p # n + 2
      OBVIOUS
    <3>2. s[p] # s[n + 2] /\ s[p] \in Ids(a) /\ s[p + 1] \in Ids(a)
          /\ s[p] \in Nat /\ s[n + 2] \in Nat
      BY <1>12, <3>1
    <3>3. s[p] + 1 # k
      BY <1>18, <3>2
    <3> QED
      BY <1>11, <1>21, <3>2, <3>3
  <2>2. Len(s) = n + 1 + 1
    BY <1>11
  <2> QED
    BY <1>15, <2>1, <2>2 DEF PathTo
<1> QED
  BY <1>1, <1>22, <1>23 DEF Spelt

--------
(***************************************************************************)
(* Following the last key.                                                 *)
(***************************************************************************)

\* Two keys that differ do so first at a place where neither has ended before.
LEMMA FirstDifference ==
    ASSUME NEW k \in Seq(Labels), NEW l \in Seq(Labels), k # l
    PROVE  \E d \in Nat \ {0} :
              /\ d <= Len(k) + 1 /\ d <= Len(l) + 1
              /\ CharAt(k, d) # CharAt(l, d)
              /\ \A p \in 1 .. d - 1 : CharAt(k, p) = CharAt(l, p) /\ CharAt(k, p) # 0
<1>1. PICK a \in Nat : a = Len(k)
  BY LenProperties
<1>2. PICK b \in Nat : b = Len(l)
  BY LenProperties
<1>3. PICK Diff : Diff = {p \in Nat \ {0} : CharAt(k, p) # CharAt(l, p)}
  OBVIOUS
<1>4. Diff # {}
  <2> SUFFICES ASSUME Diff = {} PROVE FALSE
    OBVIOUS
  <2>1. \A p \in Nat \ {0} : CharAt(k, p) = CharAt(l, p)
    BY <1>3
  <2>2. PICK d \in Nat \ {0} : d = IF a <= b THEN a + 1 ELSE b + 1
    OBVIOUS
  <2>3. \A p \in 1 .. d - 1 : CharAt(k, p) = CharAt(l, p) /\ CharAt(k, p) # 0
    <3> SUFFICES ASSUME NEW p \in 1 .. d - 1
                 PROVE  CharAt(k, p) = CharAt(l, p) /\ CharAt(k, p) # 0
      OBVIOUS
    <3>1. p \in Nat \ {0} /\ p <= a
      BY <2>2
    <3>2. CharAt(k, p) # 0
      BY <1>1, <3>1, CharIs
    <3> QED
      BY <2>1, <3>1, <3>2
  <2>4. CharAt(k, d) = 0 \/ CharAt(l, d) = 0
    <3>1. ~ (d <= a) \/ ~ (d <= b)
      BY <2>2
    <3> QED
      BY <1>1, <1>2, <3>1, CharIs
  <2>5. CharAt(k, d) = 0 /\ CharAt(l, d) = 0
    BY <2>1, <2>4
  <2>6. k = l
    BY <2>3, <2>5, OrderAt
  <2> QED
    BY <2>6
<1> Diff \in SUBSET Nat
  BY <1>3
<1>5. PICK d \in Diff : \A p \in Diff : ~ (p < d)
  BY <1>4, LeastNumber
<1>6. d \in Nat \ {0} /\ CharAt(k, d) # CharAt(l, d)
  BY <1>3, <1>5
<1>7. ASSUME NEW p \in 1 .. d - 1 PROVE CharAt(k, p) = CharAt(l, p) /\ CharAt(k, p) # 0
  <2>1. p \in Nat \ {0} /\ p < d
    BY <1>6
  <2>2. CharAt(k, p) = CharAt(l, p)
    BY <1>3, <1>5, <2>1
  <2>3. CharAt(k, p) # 0
    <3> SUFFICES ASSUME CharAt(k, p) = 0 PROVE FALSE
      OBVIOUS
    <3>1. CharAt(l, p) = 0
      BY <2>2
    <3>2. ~ (p <= a) /\ ~ (p <= b)
      <4>2. p <= a => CharAt(k, p) > 0
        BY <1>1, <2>1, CharIs
      <4>3. p <= b => CharAt(l, p) > 0
        BY <1>2, <2>1, CharIs
      <4> QED
        BY <3>1, <4>2, <4>3
    <3>3. ~ (d <= a) /\ ~ (d <= b)
      BY <1>6, <2>1, <3>2
    <3>4. CharAt(k, d) = 0 /\ CharAt(l, d) = 0
      BY <1>1, <1>2, <1>6, <3>3, CharIs
    <3> QED
      BY <1>6, <3>4
  <2> QED
    BY <2>2, <2>3
<1>8. d <= a + 1 /\ d <= b + 1
  <2>1. CASE d = 1
    BY <2>1
  <2>2. CASE d # 1
    <3>1. d - 1 \in 1 .. d - 1 /\ d - 1 \in Nat \ {0}
      BY <1>6, <2>2
    <3>2. CharAt(k, d - 1) # 0 /\ CharAt(l, d - 1) # 0
      BY <1>7, <3>1
    <3>3. d - 1 <= a /\ d - 1 <= b
      BY <1>1, <1>2, <3>1, <3>2, CharIs
    <3> QED
      BY <1>6, <3>3
  <2> QED
    BY <2>1, <2>2
<1> d \in Nat \ {0}
  BY <1>6
<1> WITNESS d \in Nat \ {0}
<1> QED
  BY <1>1, <1>2, <1>6, <1>7, <1>8

\* Following the children from the root leads down the stack.
LEMMA ChainIsStack ==
    ASSUME NEW b, NEW level, Tidy(b, level), NEW last, NEW n \in Nat, PathTo(b, last, n),
           NEW hi \in Nat, 1 <= hi, NEW at, IsChain(Below(b), Root, 1, hi, at),
           NEW p \in 1 .. n + 1, p <= hi
    PROVE  at[p] = b.node_stack[p]
<1>1. PICK s : s = b.node_stack
  OBVIOUS
<1>2. /\ Len(s) = n + 1 /\ s[1] = Root
      /\ \A i \in 1 .. n + 1 : s[i] \in Ids(b)
      /\ \A i \in 1 .. n : Node(b, s[i]).child = s[i + 1]
  <2>1. Len(s) = n + 1 /\ \A i \in 1 .. n : Node(b, s[i]).child = s[i + 1]
    BY <1>1 DEF PathTo
  <2>2. \A i \in 1 .. n + 1 : s[i] \in Ids(b)
    BY <1>1, <2>1, StackTyped
  <2> QED
    BY <1>1, <2>1, <2>2 DEF Tidy, TidyStack
<1>3. \A i \in 1 .. hi : at[i] = IF i = 1 THEN Root ELSE Below(b)[at[i - 1]]
  BY DEF IsChain, ChainTurn
<1> DEFINE Bad == {i \in 1 .. n + 1 : i <= hi /\ at[i] # s[i]}
<1>4. Bad = {}
  <2> SUFFICES ASSUME Bad # {} PROVE FALSE
    OBVIOUS
  <2> Bad \in SUBSET Nat
    OBVIOUS
  <2>1. PICK i \in Bad : \A j \in Bad : ~ (j < i)
    BY LeastNumber
  <2>2. i \in 1 .. n + 1 /\ i <= hi /\ at[i] # s[i] /\ i \in 1 .. hi
    BY <2>1
  <2>3. i # 1
    BY <1>2, <1>3, <2>2
  <2>4. i - 1 \in 1 .. n /\ i - 1 \in 1 .. n + 1 /\ i - 1 <= hi /\ i - 1 < i /\ i - 1 + 1 = i
    BY <2>2, <2>3
  <2>5. at[i - 1] = s[i - 1]
    BY <2>1, <2>4
  <2>6. at[i] = Below(b)[s[i - 1]]
    BY <1>3, <2>2, <2>3, <2>5
  <2>7. Below(b)[s[i - 1]] = Node(b, s[i - 1]).child
    BY <1>2, <2>4 DEF Below, Ids
  <2>8. Node(b, s[i - 1]).child = s[i]
    BY <1>2, <2>4
  <2> QED
    BY <2>2, <2>6, <2>7, <2>8
<1> QED
  BY <1>1, <1>4

\* Follow stops at the first place where it may.
LEMMA FollowIs ==
    ASSUME NEW b, NEW key \in Seq(Labels)
    PROVE  \E at : /\ IsChain(Below(b), Root, 1, Len(key) + 2, at)
                   /\ \A pos \in 1 .. Len(key) + 2 :
                        FollowEnds(b, key, at, pos)
                          /\ (\A q \in 1 .. pos - 1 : ~ FollowEnds(b, key, at, q))
                        => Follow(b, key) = FollowAt(b, key, at[pos], pos)
<1>1. PICK n \in Nat : n = Len(key)
  BY LenProperties
<1>2. PICK at : at = CHOOSE g : IsChain(Below(b), Root, 1, n + 2, g)
  OBVIOUS
<1>3. IsChain(Below(b), Root, 1, n + 2, at)
  <2>1. \E g : IsChain(Below(b), Root, 1, n + 2, g)
    <3>1. 1 \in Nat /\ n + 2 \in Nat /\ 1 <= n + 2
      BY <1>1
    <3> QED
      BY <3>1, ChainRuns, Zenon
  <2> QED
    BY <1>2, <2>1
<1>4. PICK pos : pos = CHOOSE p \in 1 .. n + 2 :
                          FollowEnds(b, key, at, p)
                            /\ \A q \in 1 .. p - 1 : ~ FollowEnds(b, key, at, q)
  OBVIOUS
<1>5. Follow(b, key) = FollowAt(b, key, at[pos], pos)
  <2>1. at = CHOOSE g : g = [p \in 1 .. Len(key) + 2 |->
                               IF p = 1 THEN Root ELSE Below(b)[g[p - 1]]]
    BY <1>1, <1>2 DEF IsChain, ChainTurn
  <2>2. pos = CHOOSE p \in 1 .. Len(key) + 2 :
                FollowEnds(b, key, at, p) /\ \A q \in 1 .. p - 1 : ~ FollowEnds(b, key, at, q)
    BY <1>1, <1>4
  <2> QED
    BY <2>1, <2>2, Zenon DEF Follow
<1>6. ASSUME NEW p \in 1 .. n + 2, FollowEnds(b, key, at, p),
             \A q \in 1 .. p - 1 : ~ FollowEnds(b, key, at, q)
      PROVE  p = pos
  <2>1. \A o \in 1 .. n + 2 :
          FollowEnds(b, key, at, o) /\ (\A q \in 1 .. o - 1 : ~ FollowEnds(b, key, at, q))
          => o = p
    <3> SUFFICES ASSUME NEW o \in 1 .. n + 2, FollowEnds(b, key, at, o),
                        \A q \in 1 .. o - 1 : ~ FollowEnds(b, key, at, q)
                 PROVE  o = p
      OBVIOUS
    <3>1. ~ (o \in 1 .. p - 1) /\ ~ (p \in 1 .. o - 1)
      BY <1>6
    <3> QED
      BY <1>1, <3>1
  <2> QED
    BY <1>4, <1>6, <2>1
<1> QED
  BY <1>1, <1>3, <1>5, <1>6

\* Both have the same stack, and nodes with the same labels and children.
SameNodes(b, c) ==
    /\ c.node_stack = b.node_stack /\ Ids(c) = Ids(b)
    /\ \A i \in Ids(b) :
         Node(c, i).child = Node(b, i).child /\ Node(c, i).label = Node(b, i).label

\* Marking a node's siblings changes nothing else.
LEMMA MarkedTidy ==
    ASSUME NEW b, NEW level, Tidy(b, level), NEW x \in Ids(b),
           NEW c, c = [b EXCEPT !.nodes[x + 1].has_sibling = TRUE]
    PROVE  Tidy(c, level) /\ SameNodes(b, c)
<1>1. PICK V : b.nodes \in Seq(NodeSet(V))
  BY DEF Tidy
<1>2. PICK n \in Nat : n = Len(b.nodes)
  BY <1>1, LenProperties
<1>3. PICK k \in 1 .. n : k = x + 1
  BY <1>1, <1>2, NodesTyped
<1>4. Builder(b)
  BY DEF Tidy
<1>5. /\ Builder(c) /\ c.nodes = [b.nodes EXCEPT ![k].has_sibling = TRUE]
      /\ c.node_stack = b.node_stack /\ c.recycle_bin = b.recycle_bin
  BY <1>3, <1>4 DEF Builder
<1>6. DOMAIN b.nodes = 1 .. n /\ \A i \in 1 .. n : b.nodes[i] \in NodeSet(V)
  BY <1>1, <1>2, LenProperties, ElementOfSeq
<1>7. PICK y : y = [b.nodes[k] EXCEPT !.has_sibling = TRUE]
  OBVIOUS
<1>8. /\ y \in NodeSet(V) /\ y.child = b.nodes[k].child
      /\ y.sibling = b.nodes[k].sibling /\ y.label = b.nodes[k].label
  BY <1>6, <1>7 DEF NodeSet
<1>9. c.nodes = [i \in 1 .. n |-> IF i = k THEN y ELSE b.nodes[i]]
  BY <1>5, <1>6, <1>7
<1>10. c.nodes \in [1 .. n -> NodeSet(V)]
  <2>1. \A i \in 1 .. n : (IF i = k THEN y ELSE b.nodes[i]) \in NodeSet(V)
    BY <1>6, <1>8
  <2> QED
    BY <1>9, <2>1
<1>11. c.nodes \in Seq(NodeSet(V)) /\ Len(c.nodes) = n
  BY <1>10, FunctionIsSeq
<1>12. Ids(c) = Ids(b)
  BY <1>2, <1>11 DEF Ids
<1>13. \A i \in Ids(b) :
          /\ Node(c, i).child = Node(b, i).child
          /\ Node(c, i).sibling = Node(b, i).sibling
          /\ Node(c, i).label = Node(b, i).label
  <2>1. \A i \in Ids(b) : i + 1 \in 1 .. n
    BY <1>1, <1>2, NodesTyped
  <2> QED
    BY <1>8, <1>9, <2>1 DEF Node
<1>14. TidyStack(c, level) /\ TidyBin(c, level) /\ level \in [Ids(c) -> Nat]
  BY <1>5, <1>12 DEF Tidy, TidyStack, TidyBin
<1>15. TidySiblings(c, level)
  <2>1. TidySiblings(b, level)
    BY DEF Tidy
  <2> SUFFICES ASSUME NEW i \in Ids(b), level[i] # 0, Node(c, i).sibling # 0
               PROVE  /\ Node(c, i).sibling \in Ids(b) \ {0}
                      /\ level[Node(c, i).sibling] = level[i]
                      /\ Node(c, Node(c, i).sibling).label < Node(c, i).label
    BY <1>12 DEF TidySiblings
  <2>2. PICK z : z = Node(b, i).sibling
    OBVIOUS
  <2>3. Node(c, i).sibling = z /\ z # 0
    BY <1>13, <2>2
  <2>4. z \in Ids(b) \ {0} /\ level[z] = level[i] /\ Node(b, z).label < Node(b, i).label
    BY <2>1, <2>2, <2>3 DEF TidySiblings
  <2> QED
    BY <1>13, <2>3, <2>4
<1>16. Tidy(c, level)
  BY <1>5, <1>11, <1>14, <1>15 DEF Tidy
<1> QED
  BY <1>5, <1>12, <1>13, <1>16 DEF SameNodes

\* When only the root is on the stack and has no child, every key may follow.
Blank(b) ==
    /\ \E l : Tidy(b, l)
    /\ Len(b.node_stack) = 1 /\ Node(b, Root).child = 0

\* Insert goes on from b when only its root is on the stack, and otherwise from
\* what the flush of a node leaves that got a sibling.
GoesFrom(b, c) ==
    \/ c = b /\ Len(b.node_stack) = 1
    \/ \E e \in 2 .. Len(b.node_stack) :
          c = Flush([b EXCEPT !.nodes[b.node_stack[e] + 1].has_sibling = TRUE], b.node_stack[e])

\* The key is there already, or Extend spells what of it is not.
Inserted(b, key, value, d) ==
    \/ d = b
    \/ \E c : \E pos \in 1 .. Len(key) + 1 :
         /\ GoesFrom(b, c)
         /\ ExtendedTo([dawg |-> c, id |-> Last(c.node_stack)], key, pos - 1)
         /\ d = Extend(c, key, value, Last(c.node_stack), pos)

\* The first key goes in unless it is empty or its value is negative.
LEMMA InsertFirst ==
    ASSUME NEW b, Blank(b), NEW key \in Seq(Labels), NEW value \in Int,
           NEW r, r = Insert(b, key, value)
    PROVE  /\ r.ok <=> value >= 0 /\ key # <<>>
           /\ r.ok => Spelt(r.dawg, key) /\ Inserted(b, key, value, r.dawg)
<1>1. PICK n \in Nat : n = Len(key)
  BY LenProperties
<1>2. PICK level : Tidy(b, level)
  BY DEF Blank
<1>3. PICK at : /\ IsChain(Below(b), Root, 1, Len(key) + 2, at)
                /\ \A pos \in 1 .. Len(key) + 2 :
                     FollowEnds(b, key, at, pos)
                       /\ (\A q \in 1 .. pos - 1 : ~ FollowEnds(b, key, at, q))
                     => Follow(b, key) = FollowAt(b, key, at[pos], pos)
  BY FollowIs
<1>4. at[1] = Root
  <2>1. 1 \in 1 .. Len(key) + 2
    BY <1>1
  <2> QED
    BY <1>3, <2>1 DEF IsChain, ChainTurn
<1>5. Follow(b, key) = FollowAt(b, key, Root, 1)
  <2>1. 1 \in 1 .. Len(key) + 2 /\ \A q \in 1 .. 1 - 1 : FALSE
    BY <1>1
  <2>2. FollowEnds(b, key, at, 1)
    BY <1>4 DEF FollowEnds, Blank
  <2> QED
    BY <1>3, <1>4, <2>1, <2>2
<1>6. Follow(b, key) = Stop(b, Root, 1, TRUE)
  BY <1>5 DEF FollowAt, Blank
<1>7. PICK f : f = Follow(b, key)
  OBVIOUS
<1>8. f.dawg = b /\ f.id = Root /\ f.pos = 1 /\ f.ok = TRUE /\ f.pos # Len(key) + 2
  BY <1>1, <1>6, <1>7 DEF Stop
<1>9. r = IF value < 0 \/ key = <<>> \/ ~ f.ok THEN [ok |-> FALSE, dawg |-> b]
          ELSE [ok |-> TRUE,
                dawg |-> IF f.pos = Len(key) + 2 THEN b
                         ELSE Extend(f.dawg, key, value, f.id, f.pos)]
  BY <1>7 DEF Insert
<1>10. r.ok <=> value >= 0 /\ key # <<>>
  <2>1. CASE value < 0 \/ key = <<>>
    BY <1>9, <2>1
  <2>2. CASE ~ (value < 0 \/ key = <<>>)
    BY <1>8, <1>9, <2>2
  <2> QED
    BY <2>1, <2>2
<1>11. r.ok => r.dawg = Extend(b, key, value, Root, 1)
  BY <1>8, <1>9
<1>12. ExtendedTo([dawg |-> b, id |-> Root], key, 0)
  <2>1. Last(b.node_stack) = Root
    BY <1>2 DEF Last, Blank, Tidy, TidyStack
  <2>2. PathTo(b, key, 0)
    BY DEF PathTo, Blank
  <2>3. Hangs(b, level, CharAt(key, 0 + 1))
    BY <2>1 DEF Hangs, Blank
  <2>4. PICK q : q = [dawg |-> b, id |-> Root]
    OBVIOUS
  <2>5. q.dawg = b /\ q = [dawg |-> q.dawg, id |-> Last(q.dawg.node_stack)]
    BY <2>1, <2>4
  <2>6. ExtendedTo(q, key, 0)
    BY <1>2, <2>2, <2>3, <2>5 DEF ExtendedTo
  <2> QED
    BY <2>4, <2>6
<1>13. Spelt(Extend(b, key, value, Root, 1), key)
  <2>1. 1 \in 1 .. Len(key) + 1 /\ 1 - 1 = 0
    BY <1>1
  <2> QED
    BY <1>12, <2>1, ExtendIs
<1>14. Inserted(b, key, value, Extend(b, key, value, Root, 1))
  <2>1. 1 \in 1 .. Len(key) + 1 /\ 1 - 1 = 0
    BY <1>1
  <2>2. GoesFrom(b, b)
    BY DEF GoesFrom, Blank
  <2>3. Last(b.node_stack) = Root
    BY <1>2 DEF Last, Blank, Tidy, TidyStack
  <2>4. PICK d : d = Extend(b, key, value, Root, 1)
    OBVIOUS
  <2>5. /\ ExtendedTo([dawg |-> b, id |-> Last(b.node_stack)], key, 1 - 1)
        /\ d = Extend(b, key, value, Last(b.node_stack), 1)
    BY <1>12, <2>1, <2>3, <2>4
  <2>6. Inserted(b, key, value, d)
    BY <2>1, <2>2, <2>5 DEF Inserted
  <2> QED
    BY <2>4, <2>6
<1> QED
  BY <1>10, <1>11, <1>13, <1>14

\* After a key, one goes in that is in order, is not empty and has no negative
\* value.
LEMMA InsertNext ==
    ASSUME NEW b, NEW last \in Seq(Labels), Spelt(b, last), NEW key \in Seq(Labels),
           NEW value \in Int, NEW r, r = Insert(b, key, value)
    PROVE  /\ r.ok <=> value >= 0 /\ key # <<>> /\ InOrder(last, key)
           /\ r.ok => Spelt(r.dawg, key) /\ Inserted(b, key, value, r.dawg)
<1>1. PICK n \in Nat : n = Len(key)
  BY LenProperties
<1>2. PICK m \in Nat : m = Len(last)
  BY LenProperties
<1>3. PICK level : Tidy(b, level)
  BY DEF Spelt
<1>4. PICK s : s = b.node_stack
  OBVIOUS
<1>5. PathTo(b, last, m + 1)
  BY <1>2 DEF Spelt
<1>6. /\ Len(s) = m + 2
      /\ \A p \in 1 .. m + 1 :
           Node(b, s[p]).child = s[p + 1] /\ Node(b, s[p + 1]).label = CharAt(last, p)
  BY <1>4, <1>5 DEF PathTo
<1>7. (\A p \in 1 .. m + 2 : s[p] \in Ids(b)) /\ \A p \in 2 .. m + 2 : s[p] # 0
  BY <1>3, <1>4, <1>6, StackTyped
<1>8. PICK at : /\ IsChain(Below(b), Root, 1, Len(key) + 2, at)
                /\ \A pos \in 1 .. Len(key) + 2 :
                     FollowEnds(b, key, at, pos)
                       /\ (\A q \in 1 .. pos - 1 : ~ FollowEnds(b, key, at, q))
                     => Follow(b, key) = FollowAt(b, key, at[pos], pos)
  BY FollowIs
<1>9. \A p \in 1 .. m + 2 : p <= n + 2 => at[p] = s[p]
  <2>1. n + 2 \in Nat /\ 1 <= n + 2 /\ m + 1 \in Nat /\ m + 1 + 1 = m + 2
    OBVIOUS
  <2>2. IsChain(Below(b), Root, 1, n + 2, at)
    BY <1>1, <1>8
  <2> QED
    BY <1>3, <1>4, <1>5, <2>1, <2>2, ChainIsStack
<1>10. \A p \in 1 .. m + 1 : p <= n + 1 /\ CharAt(key, p) = CharAt(last, p)
                             => ~ FollowEnds(b, key, at, p)
  <2> SUFFICES ASSUME NEW p \in 1 .. m + 1, p <= n + 1, CharAt(key, p) = CharAt(last, p)
               PROVE  ~ FollowEnds(b, key, at, p)
    OBVIOUS
  <2>1. at[p] = s[p] /\ p # n + 2 /\ p + 1 \in 2 .. m + 2
    BY <1>9
  <2>2. Node(b, at[p]).child = s[p + 1] /\ s[p + 1] # 0
        /\ Node(b, s[p + 1]).label = CharAt(key, p)
    BY <1>6, <1>7, <2>1
  <2> QED
    BY <1>1, <2>1, <2>2 DEF FollowEnds
<1>11. PICK f : f = Follow(b, key)
  OBVIOUS
<1>12. r = IF value < 0 \/ key = <<>> \/ ~ f.ok THEN [ok |-> FALSE, dawg |-> b]
           ELSE [ok |-> TRUE,
                 dawg |-> IF f.pos = Len(key) + 2 THEN b
                          ELSE Extend(f.dawg, key, value, f.id, f.pos)]
  BY <1>11 DEF Insert
<1>13. CASE key = last
  <2>1. n = m
    BY <1>1, <1>2, <1>13
  <2>2. \A q \in 1 .. n + 2 - 1 : ~ FollowEnds(b, key, at, q)
    <3>1. \A q \in 1 .. n + 2 - 1 : q \in 1 .. m + 1 /\ q <= n + 1
      BY <2>1
    <3> QED
      BY <1>10, <1>13, <3>1
  <2>3. FollowEnds(b, key, at, n + 2)
    BY <1>1 DEF FollowEnds
  <2>4. Follow(b, key) = FollowAt(b, key, at[n + 2], n + 2)
    <3>1. n + 2 \in 1 .. n + 2
      OBVIOUS
    <3> QED
      BY <1>1, <1>8, <2>2, <2>3, <3>1
  <2>5. f = Stop(b, at[n + 2], n + 2, TRUE)
    BY <1>1, <1>11, <2>4 DEF FollowAt
  <2>6. f.pos = Len(key) + 2 /\ f.ok = TRUE
    BY <1>1, <2>5 DEF Stop
  <2>7. InOrder(last, key)
    <3>1. IsPrefix(last, key) <=>
            Len(last) <= Len(key) /\ \A i \in 1 .. Len(last) : last[i] = key[i]
      BY PrefixIs
    <3>2. IsPrefix(last, key)
      BY <1>1, <1>2, <1>13, <2>1, <3>1
    <3> QED
      BY <3>2 DEF InOrder
  <2>8. CASE value < 0 \/ key = <<>>
    <3>1. r.ok = FALSE
      BY <1>12, <2>8
    <3> QED
      BY <2>8, <3>1
  <2>9. CASE ~ (value < 0 \/ key = <<>>)
    <3>1. r.ok = TRUE /\ r.dawg = b
      BY <1>12, <2>6, <2>9
    <3>2. Inserted(b, key, value, b)
      BY DEF Inserted
    <3> QED
      BY <1>13, <2>7, <2>9, <3>1, <3>2
  <2> QED
    BY <2>8, <2>9
<1>14. CASE key # last
  <2>1. PICK d \in Nat \ {0} :
           /\ d <= Len(key) + 1 /\ d <= Len(last) + 1
           /\ CharAt(key, d) # CharAt(last, d)
           /\ \A p \in 1 .. d - 1 : CharAt(key, p) = CharAt(last, p) /\ CharAt(key, p) # 0
    BY <1>14, FirstDifference
  <2>2. d \in 1 .. n + 1 /\ d \in 1 .. m + 1 /\ d # n + 2
    BY <1>1, <1>2, <2>1
  <2>3. PICK x : x = s[d + 1]
    OBVIOUS
  <2>4. /\ at[d] = s[d] /\ Node(b, s[d]).child = x /\ x # 0 /\ x \in Ids(b)
        /\ Node(b, x).label = CharAt(last, d)
    <3>1. d \in 1 .. m + 2 /\ d <= n + 2 /\ d + 1 \in 2 .. m + 2 /\ d + 1 \in 1 .. m + 2
      BY <2>2
    <3> QED
      BY <1>6, <1>7, <1>9, <2>2, <2>3, <3>1
  <2>5. Follow(b, key) = FollowAt(b, key, s[d], d)
    <3>1. \A q \in 1 .. d - 1 : ~ FollowEnds(b, key, at, q)
      <4>1. \A q \in 1 .. d - 1 : q \in 1 .. m + 1 /\ q <= n + 1
        BY <2>2
      <4> QED
        BY <1>10, <2>1, <4>1
    <3>2. FollowEnds(b, key, at, d)
      BY <2>1, <2>4 DEF FollowEnds
    <3>3. d \in 1 .. Len(key) + 2
      BY <1>1, <2>2
    <3> QED
      BY <1>8, <2>4, <3>1, <3>2, <3>3
  <2>6. CharAt(key, d) \in Nat /\ CharAt(last, d) \in Nat
    BY <2>1, CharIs
  <2>7. /\ CharAt(last, d) < CharAt(key, d) => InOrder(last, key)
        /\ CharAt(last, d) > CharAt(key, d) => ~ InOrder(last, key)
    <3>1. \A p \in 1 .. d - 1 : CharAt(last, p) = CharAt(key, p) /\ CharAt(last, p) # 0
      BY <2>1
    <3> QED
      BY <2>1, <3>1, OrderAt
  <2>8. CASE CharAt(key, d) < CharAt(last, d)
    <3>1. f = Stop(b, s[d], d, FALSE)
      BY <1>1, <1>11, <2>2, <2>4, <2>5, <2>8 DEF FollowAt
    <3>2. f.ok = FALSE
      BY <3>1 DEF Stop
    <3>3. r.ok = FALSE
      BY <1>12, <3>2
    <3>4. ~ InOrder(last, key)
      BY <2>6, <2>7, <2>8
    <3> QED
      BY <3>3, <3>4
  <2>9. CASE ~ (CharAt(key, d) < CharAt(last, d))
    <3>1. CharAt(last, d) < CharAt(key, d) /\ InOrder(last, key)
      BY <2>1, <2>6, <2>7, <2>9
    <3>2. PICK e : e = [b EXCEPT !.nodes[x + 1].has_sibling = TRUE]
      OBVIOUS
    <3>19. Tidy(e, level) /\ SameNodes(b, e)
      BY <1>3, <2>4, <3>2, MarkedTidy
    <3>3. /\ Tidy(e, level) /\ e.node_stack = s /\ Ids(e) = Ids(b)
          /\ \A i \in Ids(b) :
               Node(e, i).child = Node(b, i).child /\ Node(e, i).label = Node(b, i).label
      BY <1>4, <3>19 DEF SameNodes
    <3>4. PICK c : c = Flush(e, x)
      OBVIOUS
    <3>5. f = Stop(c, s[d], d, TRUE)
      BY <1>1, <1>11, <2>2, <2>4, <2>5, <2>9, <3>2, <3>4 DEF FollowAt
    <3>6. f.dawg = c /\ f.id = s[d] /\ f.pos = d /\ f.ok = TRUE /\ f.pos # Len(key) + 2
      BY <1>1, <2>2, <3>5 DEF Stop
    <3>7. /\ \E l : Tidy(c, l) /\ l[e.node_stack[d + 1]] = d + 1
          /\ Unwound(e, c, d + 1 - 1)
          /\ Node(c, e.node_stack[d + 1 - 1]).child = Node(e, e.node_stack[d + 1 - 1]).child
      <4>1. m + 2 \in Nat /\ m + 2 = Len(e.node_stack)
        BY <1>6, <3>3
      <4>2. d + 1 \in 2 .. m + 2
        BY <2>2
      <4>3. c = Flush(e, e.node_stack[d + 1])
        BY <2>3, <3>3, <3>4
      <4>4. FlushLeaves(e, c, d + 1)
        BY <3>3, <4>1, <4>2, <4>3, FlushIs
      <4> QED
        BY <4>4 DEF FlushLeaves
    <3>8. d + 1 - 1 = d
      BY <2>2
    <3>9. PICK l : Tidy(c, l) /\ l[x] = d + 1
      BY <2>3, <3>3, <3>7
    <3>10. /\ Len(c.node_stack) = d /\ Ids(c) = Ids(b)
           /\ \A p \in 1 .. d : c.node_stack[p] = s[p]
           /\ \A id \in Ids(b) : Node(c, id).label = Node(b, id).label
           /\ \A p \in 1 .. d - 1 : Node(c, s[p]).child = Node(e, s[p]).child
      BY <3>3, <3>7, <3>8 DEF Unwound
    <3>11. Node(c, s[d]).child = x
      <4>1. s[d] \in Ids(b)
        <5>1. d \in 1 .. m + 2
          BY <2>2
        <5> QED
          BY <1>7, <5>1
      <4> QED
        BY <2>4, <3>3, <3>7, <3>8, <4>1
    <3>12. PathTo(c, key, d - 1)
      <4>1. ASSUME NEW p \in 1 .. d - 1
            PROVE  /\ Node(c, c.node_stack[p]).child = c.node_stack[p + 1]
                   /\ Node(c, c.node_stack[p + 1]).label = CharAt(key, p)
        <5>1. /\ p \in 1 .. d /\ p + 1 \in 1 .. d /\ p \in 1 .. m + 1
              /\ p \in 1 .. m + 2 /\ p + 1 \in 1 .. m + 2
          BY <2>2
        <5>2. c.node_stack[p] = s[p] /\ c.node_stack[p + 1] = s[p + 1]
          BY <3>10, <5>1
        <5>3. s[p] \in Ids(b) /\ s[p + 1] \in Ids(b)
          BY <1>7, <5>1
        <5>4. Node(c, s[p]).child = s[p + 1]
          BY <1>6, <3>3, <3>10, <5>1, <5>3
        <5>5. Node(c, s[p + 1]).label = CharAt(last, p)
          BY <1>6, <3>10, <5>1, <5>3
        <5> QED
          BY <2>1, <5>2, <5>4, <5>5
      <4>2. Len(c.node_stack) = d - 1 + 1
        BY <2>2, <3>10
      <4> QED
        BY <4>1, <4>2 DEF PathTo
    <3>13. Last(c.node_stack) = s[d]
      <4>1. d \in 1 .. d
        BY <2>2
      <4> QED
        BY <3>10, <4>1 DEF Last
    <3>14. Hangs(c, l, CharAt(key, d))
      <4>1. x \in Ids(c) /\ Node(c, x).label = CharAt(last, d)
        BY <2>4, <3>10
      <4> QED
        BY <3>1, <3>9, <3>10, <3>11, <3>13, <4>1 DEF Hangs
    <3>15. ExtendedTo([dawg |-> c, id |-> s[d]], key, d - 1)
      <4>1. PICK q : q = [dawg |-> c, id |-> s[d]]
        OBVIOUS
      <4>2. q.dawg = c /\ q = [dawg |-> q.dawg, id |-> Last(q.dawg.node_stack)]
        BY <3>13, <4>1
      <4>3. d - 1 + 1 = d
        BY <2>2
      <4>4. ExtendedTo(q, key, d - 1)
        BY <3>9, <3>12, <3>14, <4>2, <4>3 DEF ExtendedTo
      <4> QED
        BY <4>1, <4>4
    <3>16. Spelt(Extend(c, key, value, s[d], d), key)
      <4>1. d \in 1 .. Len(key) + 1
        BY <1>1, <2>2
      <4> QED
        BY <3>15, <4>1, ExtendIs
    <3>20. Inserted(b, key, value, Extend(c, key, value, s[d], d))
      <4>1. d \in 1 .. Len(key) + 1
        BY <1>1, <2>2
      <4>2. d + 1 \in 2 .. Len(b.node_stack) /\ b.node_stack[d + 1] = x
        BY <1>4, <1>6, <2>2, <2>3
      <4>3. GoesFrom(b, c)
        BY <3>2, <3>4, <4>2 DEF GoesFrom
      <4>4. PICK y : y = Extend(c, key, value, s[d], d)
        OBVIOUS
      <4>5. /\ ExtendedTo([dawg |-> c, id |-> Last(c.node_stack)], key, d - 1)
            /\ y = Extend(c, key, value, Last(c.node_stack), d)
        BY <3>13, <3>15, <4>4
      <4>6. Inserted(b, key, value, y)
        BY <4>1, <4>3, <4>5 DEF Inserted
      <4> QED
        BY <4>4, <4>6
    <3>17. CASE value < 0 \/ key = <<>>
      <4>1. r.ok = FALSE
        BY <1>12, <3>17
      <4> QED
        BY <3>17, <4>1
    <3>18. CASE ~ (value < 0 \/ key = <<>>)
      <4>1. r.ok = TRUE /\ r.dawg = Extend(c, key, value, s[d], d)
        BY <1>12, <3>6, <3>18
      <4> QED
        BY <3>1, <3>16, <3>18, <3>20, <4>1
    <3> QED
      BY <3>17, <3>18
  <2> QED
    BY <2>8, <2>9
<1> QED
  BY <1>13, <1>14

--------
(***************************************************************************)
(* What a build throws at.                                                 *)
(***************************************************************************)

\* The first n keys may go into a word graph one after the other.
Accepted(n) ==
    /\ \A i \in 1 .. n : keyset[i].key # <<>> /\ keyset[i].value >= 0
    /\ \A i \in 1 .. n - 1 : InOrder(keyset[i].key, keyset[i + 1].key)

\* The builder has the first n keys, the last one on its stack.
Holds(b, n) == IF n = 0 THEN Blank(b) ELSE Spelt(b, keyset[n].key)

\* With values, the keys in the graph are in order; without, those that no
\* call is to come for.
ThrowInv ==
    /\ keyset \in Keysets /\ has_values \in BOOLEAN /\ inserted \in 0 .. Len(keyset)
    /\ phase # "built" => array = <<>>
    /\ phase = "failed" => ~ Acceptable
    /\ phase = "built" => Acceptable
    /\ has_values /\ phase = "insert" => Accepted(inserted) /\ Holds(dawg, inserted)
    /\ has_values /\ phase = "arrange" => Acceptable
    /\ ~ has_values /\ phase = "arrange" => KeysetCalls

\* A new builder has only a root.
LEMMA NewIsBlank == Blank(DawgInit)
<1>1. PICK b : b = DawgInit
  OBVIOUS
<1>2. /\ b.nodes = <<DawgNode(RootLabel)>> /\ b.node_stack = <<0>> /\ b.recycle_bin = <<>>
      /\ Builder(b)
  BY <1>1 DEF DawgInit, Builder, Root
<1>3. PICK node : node = DawgNode(RootLabel)
  OBVIOUS
<1>4. node \in NodeSet({0}) /\ node.child = 0 /\ node.sibling = 0
  BY <1>3 DEF DawgNode, NodeSet, RootLabel
<1>5. b.nodes \in Seq(NodeSet({0})) /\ Len(b.nodes) = 1 /\ b.nodes[1] = node
  BY <1>2, <1>3, <1>4
<1>6. Ids(b) = {0}
  BY <1>5 DEF Ids
<1>7. Node(b, 0) = node
  BY <1>5 DEF Node
<1>8. PICK level : level = [i \in {0} |-> 1]
  OBVIOUS
<1>9. b.node_stack \in Seq({0}) /\ b.node_stack # <<>> /\ Len(b.node_stack) = 1
      /\ b.node_stack[1] = 0
  BY <1>2
<1>10. TidyStack(b, level)
  BY <1>6, <1>8, <1>9 DEF TidyStack, Root
<1>11. TidyBin(b, level)
  BY <1>2 DEF TidyBin, Distinct
<1>12. TidySiblings(b, level)
  BY <1>4, <1>6, <1>7 DEF TidySiblings
<1>13. level \in [Ids(b) -> Nat]
  BY <1>6, <1>8
<1>14. Tidy(b, level)
  BY <1>2, <1>5, <1>10, <1>11, <1>12, <1>13 DEF Tidy
<1> QED
  BY <1>1, <1>4, <1>7, <1>9, <1>14 DEF Blank, Root

\* A build with values fails at the first key that may not follow.
LEMMA ThrowInsert ==
    ASSUME ThrowInv, InsertKey
    PROVE  ThrowInv'
<1>1. /\ phase = "insert" /\ has_values /\ inserted < Len(keyset) /\ inserted' = inserted + 1
      /\ keyset' = keyset /\ has_values' = has_values /\ array' = array /\ todo' = todo
  BY DEF InsertKey
<1>2. PICK n \in Nat : n = inserted
  BY KeysTyped DEF ThrowInv
<1>3. Len(keyset) \in Nat /\ n + 1 \in 1 .. Len(keyset)
  BY <1>1, <1>2, KeysTyped DEF ThrowInv
<1>4. PICK key \in Seq(Labels) : key = keyset[n + 1].key
  BY <1>3, KeysTyped DEF ThrowInv
<1>5. PICK value \in Int : value = keyset[n + 1].value
  BY <1>3, KeysTyped DEF ThrowInv
<1>6. PICK r : r = Insert(dawg, key, value)
  OBVIOUS
<1>7. phase' = (IF r.ok THEN "insert" ELSE "failed") /\ dawg' = r.dawg
  <2>1. Value(n + 1) = value
    BY <1>1, <1>5 DEF Value
  <2> QED
    BY <1>2, <1>4, <1>6, <2>1 DEF InsertKey
<1>8. Accepted(n) /\ Holds(dawg, n)
  BY <1>1, <1>2 DEF ThrowInv
<1>9. /\ r.ok <=> /\ value >= 0 /\ key # <<>>
                  /\ n # 0 => InOrder(keyset[n].key, key)
      /\ r.ok => Spelt(r.dawg, key)
  <2>1. CASE n = 0
    <3>1. Blank(dawg)
      BY <1>8, <2>1 DEF Holds
    <3>2. (r.ok <=> value >= 0 /\ key # <<>>) /\ (r.ok => Spelt(r.dawg, key))
      BY <1>6, <3>1, InsertFirst
    <3> QED
      BY <2>1, <3>2
  <2>2. CASE n # 0
    <3>1. PICK last \in Seq(Labels) : last = keyset[n].key
      <4>1. n \in 1 .. Len(keyset)
        BY <1>2, <1>3, <2>2
      <4> QED
        BY <4>1, KeysTyped DEF ThrowInv
    <3>2. Spelt(dawg, last)
      BY <1>8, <2>2, <3>1 DEF Holds
    <3>3. /\ r.ok <=> value >= 0 /\ key # <<>> /\ InOrder(last, key)
          /\ r.ok => Spelt(r.dawg, key)
      BY <1>6, <3>2, InsertNext
    <3> QED
      BY <2>2, <3>1, <3>3
  <2> QED
    BY <2>1, <2>2
<1>10. Acceptable' <=> Acceptable
  BY <1>1 DEF Acceptable, InOrder
<1>11. CASE r.ok
  <2>1. phase' = "insert"
    BY <1>7, <1>11
  <2>2. Accepted(n + 1)
    <3>1. \A i \in 1 .. n + 1 : keyset[i].key # <<>> /\ keyset[i].value >= 0
      <4> SUFFICES ASSUME NEW i \in 1 .. n + 1
                   PROVE  keyset[i].key # <<>> /\ keyset[i].value >= 0
        OBVIOUS
      <4>1. CASE i = n + 1
        BY <1>4, <1>5, <1>9, <1>11, <4>1
      <4>2. CASE i # n + 1
        <5>1. i \in 1 .. n
          BY <1>2, <4>2
        <5> QED
          BY <1>8, <5>1 DEF Accepted
      <4> QED
        BY <4>1, <4>2
    <3>2. \A i \in 1 .. n + 1 - 1 : InOrder(keyset[i].key, keyset[i + 1].key)
      <4> SUFFICES ASSUME NEW i \in 1 .. n + 1 - 1
                   PROVE  InOrder(keyset[i].key, keyset[i + 1].key)
        OBVIOUS
      <4>1. CASE i = n
        <5>1. n # 0
          BY <4>1
        <5> QED
          BY <1>4, <1>9, <1>11, <4>1, <5>1
      <4>2. CASE i # n
        <5>1. i \in 1 .. n - 1
          BY <1>2, <4>2
        <5> QED
          BY <1>8, <5>1 DEF Accepted
      <4> QED
        BY <4>1, <4>2
    <3> QED
      BY <3>1, <3>2 DEF Accepted
  <2>3. Holds(r.dawg, n + 1)
    <3>1. n + 1 # 0
      BY <1>2
    <3> QED
      BY <1>4, <1>9, <1>11, <3>1 DEF Holds
  <2>4. Accepted(n + 1)' /\ Holds(r.dawg, n + 1)'
    <3>1. Accepted(n + 1)'
      BY <1>1, <2>2 DEF Accepted, InOrder
    <3>2. Holds(r.dawg, n + 1)'
      BY <1>1, <2>3 DEF Holds
    <3> QED
      BY <3>1, <3>2
  <2>5. Accepted(inserted)' /\ Holds(dawg, inserted)'
    <3>1. inserted' = n + 1 /\ dawg' = r.dawg
      BY <1>1, <1>2, <1>7
    <3>2. Accepted(inserted)'
      BY <2>4, <3>1 DEF Accepted
    <3>3. Holds(dawg, inserted)'
      BY <2>4, <3>1 DEF Holds
    <3> QED
      BY <3>2, <3>3
  <2>6. inserted' \in 0 .. Len(keyset')
    BY <1>1, <1>2, <1>3
  <2>7. keyset' \in Keysets /\ has_values' \in BOOLEAN /\ array' = <<>>
    BY <1>1 DEF ThrowInv
  <2> QED
    BY <1>1, <2>1, <2>5, <2>6, <2>7 DEF ThrowInv
<1>12. CASE ~ r.ok
  <2>1. phase' = "failed"
    BY <1>7, <1>12
  <2>2. ~ Acceptable
    <3>1. ~ (value >= 0 /\ key # <<>> /\ (n # 0 => InOrder(keyset[n].key, key)))
      BY <1>9, <1>12
    <3>2. CASE ~ (value >= 0 /\ key # <<>>)
      <4>1. n + 1 \in DOMAIN keyset
        BY <1>3, KeysTyped DEF ThrowInv
      <4> QED
        BY <1>1, <1>4, <1>5, <3>2, <4>1 DEF Acceptable
    <3>3. CASE n # 0 /\ ~ InOrder(keyset[n].key, key)
      <4>1. n \in 1 .. Len(keyset) - 1
        BY <1>2, <1>3, <3>3
      <4> QED
        BY <1>4, <3>3, <4>1 DEF Acceptable
    <3> QED
      BY <3>1, <3>2, <3>3
  <2>3. inserted' \in 0 .. Len(keyset')
    BY <1>1, <1>2, <1>3
  <2>4. keyset' \in Keysets /\ has_values' \in BOOLEAN /\ array' = <<>>
    BY <1>1 DEF ThrowInv
  <2> QED
    BY <1>10, <2>1, <2>2, <2>3, <2>4 DEF ThrowInv
<1> QED
  BY <1>11, <1>12

\* With all keys in the graph there is nothing left to throw at.
LEMMA ThrowFinish ==
    ASSUME ThrowInv, FinishDawg
    PROVE  ThrowInv'
<1>1. /\ phase = "insert" /\ has_values /\ inserted = Len(keyset) /\ phase' = "arrange"
      /\ UNCHANGED <<keyset, has_values, inserted, array>>
  BY DEF FinishDawg
<1>2. Accepted(Len(keyset))
  BY <1>1 DEF ThrowInv
<1>3. DOMAIN keyset = 1 .. Len(keyset)
  BY KeysTyped DEF ThrowInv
<1>4. Acceptable
  BY <1>2, <1>3 DEF Accepted, Acceptable
<1>5. Acceptable'
  BY <1>1, <1>4 DEF Acceptable, InOrder
<1> QED
  BY <1>1, <1>5 DEF ThrowInv

\* Without values the first call is for all keys.
LEMMA ThrowStart ==
    ASSUME ThrowInv, StartFromKeyset
    PROVE  ThrowInv'
<1>1. /\ phase = "insert" /\ ~ has_values /\ phase' = "arrange"
      /\ UNCHANGED <<keyset, has_values, inserted, array>>
      /\ todo' = IF keyset = <<>> THEN <<>>
                 ELSE <<[begin |-> 1, end |-> Len(keyset) + 1, depth |-> 1, id |-> 0]>>
  BY DEF StartFromKeyset
<1>2. Len(keyset) \in Nat
  BY KeysTyped DEF ThrowInv
<1>3. KeysetCalls'
  <2>1. CASE keyset = <<>>
    <3>1. todo' = <<>> /\ Len(keyset) = 0
      BY <1>1, <2>1, EmptySeq
    <3>2. todo' \in Seq(KeysetFrames({0})) /\ Len(todo') = 0
      BY <3>1, EmptySeq
    <3> QED
      BY <1>1, <3>1, <3>2 DEF KeysetCalls
  <2>2. CASE keyset # <<>>
    <3>1. PICK f : f = [begin |-> 1, end |-> Len(keyset) + 1, depth |-> 1, id |-> 0]
      OBVIOUS
    <3>2. todo' = <<f>>
      BY <1>1, <2>2, <3>1
    <3>3. Len(keyset) # 0
      <4>1. keyset \in Seq([key : Seq(Labels), value : Int])
        BY KeysetAssumption DEF ThrowInv
      <4> QED
        BY <2>2, <4>1, EmptySeq
    <3>4. f \in KeysetFrames({0}) /\ f.begin = 1 /\ f.end = Len(keyset) + 1 /\ f.depth = 1
      BY <1>2, <3>1 DEF KeysetFrames
    <3>5. todo' \in Seq(KeysetFrames({0})) /\ Len(todo') = 1 /\ todo'[1] = f
      BY <3>2, <3>4
    <3>6. Shares(f)
      BY <1>2, <3>3, <3>4 DEF Shares
    <3>8. \A i \in 1 .. Len(keyset) - 1 : f.begin <= i /\ i + 1 < f.end
      BY <1>2, <3>4
    <3>9. 1 \in 1 .. Len(todo') /\ \A n \in 1 .. Len(todo') : n = 1
      BY <3>5
    <3>10. \A n \in 1 .. Len(todo') : Shares(todo'[n])
      BY <3>5, <3>6, <3>9
    <3>11. \A i \in 1 .. Len(keyset) - 1 : \E n \in 1 .. Len(todo') :
              todo'[n].begin <= i /\ i + 1 < todo'[n].end
      BY <3>5, <3>8, <3>9
    <3>12. \E Set : todo' \in Seq(KeysetFrames(Set))
      BY <3>5
    <3>13. keyset' = keyset
      BY <1>1
    <3> QED
      BY <3>10, <3>11, <3>12, <3>13 DEF KeysetCalls, Shares, KeyChar
  <2> QED
    BY <2>1, <2>2
<1> QED
  BY <1>1, <1>3 DEF ThrowInv

\* A call for a part of the keys leaves the rest to others, or fails.
LEMMA ThrowArrange ==
    ASSUME ThrowInv, ArrangeFromKeyset
    PROVE  ThrowInv'
<1>1. /\ phase = "arrange" /\ ~ has_values /\ UNCHANGED <<keyset, has_values, inserted, array>>
  BY DEF ArrangeFromKeyset
<1>2. \/ phase' = "failed"
         /\ \E i \in 1 .. Len(keyset) - 1 : ~ InOrder(keyset[i].key, keyset[i + 1].key)
      \/ phase' = "too_large"
      \/ phase' = "arrange" /\ KeysetCalls'
  BY <1>1, KeysetStep DEF ThrowInv
<1>3. CASE phase' = "failed" /\ ~ Acceptable
  <2>1. ~ Acceptable'
    BY <1>1, <1>3 DEF Acceptable, InOrder
  <2> QED
    BY <1>1, <1>3, <2>1 DEF ThrowInv
<1>4. CASE phase' = "arrange" /\ KeysetCalls'
  BY <1>1, <1>4 DEF ThrowInv
<1>5. CASE phase' = "too_large"
  BY <1>1, <1>5 DEF ThrowInv
<1> QED
  BY <1>2, <1>3, <1>4, <1>5 DEF Acceptable

\* When no call is left the keys are in order.
LEMMA ThrowEnd ==
    ASSUME ThrowInv, EndBuild
    PROVE  ThrowInv'
<1>1. /\ phase = "arrange" /\ todo = <<>> /\ phase' = "built"
      /\ UNCHANGED <<keyset, has_values, inserted, dawg, todo>>
  BY DEF EndBuild
<1>2. Acceptable
  <2>1. CASE has_values
    BY <1>1, <2>1 DEF ThrowInv
  <2>2. CASE ~ has_values
    <3>1. KeysetCalls /\ Len(todo) = 0
      BY <1>1, <2>2, EmptySeq DEF ThrowInv
    <3> QED
      BY <2>2, <3>1 DEF KeysetCalls, Acceptable
  <2> QED
    BY <2>1, <2>2
<1>3. Acceptable'
  BY <1>1, <1>2 DEF Acceptable, InOrder
<1> QED
  BY <1>1, <1>3 DEF ThrowInv

\* Every step keeps ThrowInv.
LEMMA ThrowNext == ThrowInv /\ [Next]_vars => ThrowInv'
<1> SUFFICES ASSUME ThrowInv, [Next]_vars PROVE ThrowInv'
  OBVIOUS
<1>1. CASE InsertKey
  BY <1>1, ThrowInsert
<1>2. CASE FinishDawg
  BY <1>2, ThrowFinish
<1>3. CASE ArrangeFromDawg
  <2>1. UNCHANGED <<keyset, has_values, inserted, dawg, array>>
        /\ has_values /\ phase = "arrange" /\ phase' \in {phase, "too_large"}
    BY <1>3 DEF ArrangeFromDawg
  <2>2. Acceptable
    BY <2>1 DEF ThrowInv
  <2>3. Acceptable'
    BY <2>1, <2>2 DEF Acceptable, InOrder
  <2> QED
    BY <2>1, <2>3 DEF ThrowInv
<1>4. CASE StartFromKeyset
  BY <1>4, ThrowStart
<1>5. CASE ArrangeFromKeyset
  BY <1>5, ThrowArrange
<1>6. CASE EndBuild
  BY <1>6, ThrowEnd
<1>7. CASE UNCHANGED vars
  <2>1. /\ keyset' = keyset /\ has_values' = has_values /\ phase' = phase
        /\ inserted' = inserted /\ dawg' = dawg /\ todo' = todo /\ array' = array
    BY <1>7 DEF vars
  <2>2. Acceptable' <=> Acceptable
    BY <2>1 DEF Acceptable, InOrder
  <2>3. KeysetCalls' <=> KeysetCalls
    BY <2>1 DEF KeysetCalls, Shares, KeyChar
  <2>4. (Accepted(inserted) /\ Holds(dawg, inserted))' <=> Accepted(inserted) /\ Holds(dawg, inserted)
    BY <2>1 DEF Accepted, Holds
  <2> QED
    BY <2>1, <2>2, <2>3, <2>4 DEF ThrowInv
<1> QED
  BY <1>1, <1>2, <1>3, <1>4, <1>5, <1>6, <1>7 DEF Next

\* A build begins with no key.
LEMMA ThrowInit == Init => ThrowInv
<1> SUFFICES ASSUME Init PROVE ThrowInv
  OBVIOUS
<1>1. /\ keyset \in Keysets /\ has_values \in BOOLEAN /\ phase = "insert" /\ inserted = 0
      /\ dawg = DawgInit /\ array = <<>>
  BY DEF Init
<1>2. Len(keyset) \in Nat
  BY <1>1, KeysTyped
<1>3. Accepted(0) /\ Holds(dawg, 0)
  BY <1>1, NewIsBlank DEF Accepted, Holds
<1> QED
  BY <1>1, <1>2, <1>3 DEF ThrowInv

--------
(***************************************************************************)
(* Exclusive or: it is symmetric, undoes itself and stays in a block.      *)
(***************************************************************************)

\* The rows of the table of exclusive ors: row a, from the rows before it.
XorRow(h, a) ==
    [b \in Nat |-> IF a = 0 THEN b ELSE IF b = 0 THEN a
                   ELSE ((a + b) % 2) + 2 * h[a \div 2][b \div 2]]

XorRows(h, n) == h = [a \in 0 .. n |-> XorRow(h, a)]

\* Half of a number that is not zero is less.
LEMMA Halves ==
    ASSUME NEW a \in Nat, a # 0
    PROVE  a \div 2 \in Nat /\ a \div 2 < a /\ a \div 2 \in 0 .. a - 1
OBVIOUS

\* Two tables agree in the rows both have.
LEMMA XorRowsAgree ==
    ASSUME NEW m \in Nat, NEW n \in Nat, NEW g, XorRows(g, m), NEW h, XorRows(h, n)
    PROVE  \A a \in Nat : a <= m /\ a <= n => g[a] = h[a]
<1> DEFINE Bad == {a \in Nat : a <= m /\ a <= n /\ g[a] # h[a]}
<1>1. Bad = {}
  <2> SUFFICES ASSUME Bad # {} PROVE FALSE
    OBVIOUS
  <2> Bad \in SUBSET Nat
    OBVIOUS
  <2>1. PICK a \in Bad : \A j \in Bad : ~ (j < a)
    BY LeastNumber
  <2>2. a \in Nat /\ a \in 0 .. m /\ a \in 0 .. n /\ g[a] # h[a]
    BY <2>1
  <2>3. g[a] = XorRow(g, a) /\ h[a] = XorRow(h, a)
    BY <2>2 DEF XorRows
  <2>4. CASE a = 0
    BY <2>2, <2>3, <2>4 DEF XorRow
  <2>5. CASE a # 0
    <3>1. a \div 2 \in Nat /\ a \div 2 < a /\ a \div 2 <= m /\ a \div 2 <= n
      BY <2>2, <2>5, Halves
    <3>2. g[a \div 2] = h[a \div 2]
      BY <2>1, <3>1
    <3> QED
      BY <2>2, <2>3, <3>2 DEF XorRow
  <2> QED
    BY <2>4, <2>5
<1> QED
  BY <1>1

\* A table of any number of rows exists.
LEMMA XorRowsExist ==
    ASSUME NEW n \in Nat
    PROVE  \E h : XorRows(h, n)
<1> DEFINE Bad == {m \in Nat : ~ \E h : XorRows(h, m)}
<1>1. Bad = {}
  <2> SUFFICES ASSUME Bad # {} PROVE FALSE
    OBVIOUS
  <2> Bad \in SUBSET Nat
    OBVIOUS
  <2>1. PICK m \in Bad : \A j \in Bad : ~ (j < m)
    BY LeastNumber
  <2>2. m \in Nat /\ ~ \E h : XorRows(h, m)
    BY <2>1
  <2>3. CASE m = 0
    <3>1. PICK h : h = [a \in 0 .. 0 |-> [b \in Nat |-> b]]
      OBVIOUS
    <3>2. \A a \in 0 .. 0 : [b \in Nat |-> b] = XorRow(h, a)
      BY DEF XorRow
    <3>3. h = [a \in 0 .. 0 |-> XorRow(h, a)]
      BY <3>1, <3>2
    <3> QED
      BY <2>2, <2>3, <3>3 DEF XorRows
  <2>4. CASE m # 0
    <3>1. m - 1 \in Nat /\ m - 1 < m
      BY <2>2, <2>4
    <3>2. PICK g : XorRows(g, m - 1)
      BY <2>1, <3>1
    <3>3. PICK h : h = [a \in 0 .. m |-> XorRow(g, a)]
      OBVIOUS
    <3>4. \A a \in 0 .. m - 1 : h[a] = g[a]
      BY <2>2, <3>2, <3>3 DEF XorRows
    <3>5. ASSUME NEW a \in 0 .. m PROVE XorRow(g, a) = XorRow(h, a)
      <4>1. CASE a = 0
        BY <4>1 DEF XorRow
      <4>2. CASE a # 0
        <5>1. a \in Nat /\ a \div 2 \in Nat /\ a \div 2 < a
          BY <2>2, <4>2, Halves
        <5>2. a \div 2 \in 0 .. m - 1
          BY <2>2, <5>1
        <5>3. h[a \div 2] = g[a \div 2]
          BY <3>4, <5>2
        <5> QED
          BY <5>3 DEF XorRow
      <4> QED
        BY <4>1, <4>2
    <3>6. h = [a \in 0 .. m |-> XorRow(h, a)]
      BY <3>3, <3>5
    <3> QED
      BY <2>2, <3>6 DEF XorRows
  <2> QED
    BY <2>3, <2>4
<1> QED
  BY <1>1

\* The recursion that xor is defined by has a solution.
LEMMA XorIs ==
    \A a, b \in Nat : a ^^ b = IF a = 0 THEN b ELSE IF b = 0 THEN a
                               ELSE ((a + b) % 2) + 2 * ((a \div 2) ^^ (b \div 2))
<1>1. PICK t : t = [n \in Nat |-> CHOOSE h : XorRows(h, n)]
  OBVIOUS
<1>2. \A n \in Nat : XorRows(t[n], n)
  <2> SUFFICES ASSUME NEW n \in Nat PROVE XorRows(t[n], n)
    OBVIOUS
  <2>1. \E h : XorRows(h, n)
    BY XorRowsExist
  <2>2. t[n] = CHOOSE h : XorRows(h, n)
    BY <1>1
  <2> QED
    BY <2>1, <2>2
<1>3. PICK x : x = [n \in Nat |-> t[n][n]]
  OBVIOUS
<1>4. ASSUME NEW a \in Nat PROVE x[a] = XorRow(x, a)
  <2>1. x[a] = XorRow(t[a], a)
    <3>1. a \in 0 .. a
      OBVIOUS
    <3> QED
      BY <1>2, <1>3, <3>1 DEF XorRows
  <2>2. CASE a = 0
    BY <2>1, <2>2 DEF XorRow
  <2>3. CASE a # 0
    <3>1. PICK c \in Nat : c = a \div 2 /\ c < a
      BY <2>3, Halves
    <3>2. XorRows(t[a], a) /\ XorRows(t[c], c) /\ c <= a /\ c <= c
      BY <1>2, <3>1
    <3>3. t[a][c] = t[c][c]
      BY <3>2, XorRowsAgree
    <3>4. x[c] = t[a][a \div 2] /\ x[c] = x[a \div 2]
      BY <1>3, <3>1, <3>3
    <3> QED
      BY <2>1, <3>4 DEF XorRow
  <2> QED
    BY <2>2, <2>3
<1>5. x = [a \in Nat |-> XorRow(x, a)]
  BY <1>3, <1>4
<1>6. xor = [a \in Nat |-> XorRow(xor, a)]
  <2>1. xor = CHOOSE h : h = [a \in Nat |-> XorRow(h, a)]
    BY DEF xor, XorRow
  <2> QED
    BY <1>5, <2>1
<1> SUFFICES ASSUME NEW a \in Nat, NEW b \in Nat
             PROVE  a ^^ b = IF a = 0 THEN b ELSE IF b = 0 THEN a
                             ELSE ((a + b) % 2) + 2 * ((a \div 2) ^^ (b \div 2))
  OBVIOUS
<1>7. xor[a] = XorRow(xor, a)
  BY <1>6
<1>8. xor[a][b] = IF a = 0 THEN b ELSE IF b = 0 THEN a
                  ELSE ((a + b) % 2) + 2 * xor[a \div 2][b \div 2]
  BY <1>7 DEF XorRow
<1> QED
  BY <1>8 DEF ^^

\* What is left of the numbers when their lowest bits go.
LEMMA XorBits ==
    ASSUME NEW a \in Nat, NEW b \in Nat, a # 0, b # 0, NEW y \in Nat,
           y = (a \div 2) ^^ (b \div 2)
    PROVE  /\ a ^^ b = ((a + b) % 2) + 2 * y /\ a ^^ b \in Nat
           /\ (a ^^ b) \div 2 = y /\ (a ^^ b) % 2 = (a + b) % 2
<1>1. a ^^ b = ((a + b) % 2) + 2 * y
  BY XorIs
<1>2. PICK r \in 0 .. 1 : r = (a + b) % 2
  OBVIOUS
<1>3. (r + 2 * y) \div 2 = y /\ (r + 2 * y) % 2 = r /\ r + 2 * y \in Nat
  OBVIOUS
<1> QED
  BY <1>1, <1>2, <1>3

\* Zero is neutral.
LEMMA XorZero ==
    ASSUME NEW a \in Nat
    PROVE  a ^^ 0 = a /\ 0 ^^ a = a
BY XorIs

\* The exclusive or of numbers is a number.
LEMMA XorNat ==
    \A a, b \in Nat : a ^^ b \in Nat
<1> DEFINE Bad == {a \in Nat : ~ \A b \in Nat : a ^^ b \in Nat}
<1>1. Bad = {}
  <2> SUFFICES ASSUME Bad # {} PROVE FALSE
    OBVIOUS
  <2> Bad \in SUBSET Nat
    OBVIOUS
  <2>1. PICK a \in Bad : \A j \in Bad : ~ (j < a)
    BY LeastNumber
  <2>2. PICK b \in Nat : ~ (a ^^ b \in Nat)
    BY <2>1
  <2>3. a # 0 /\ b # 0 /\ a \in Nat
    BY <2>1, <2>2, XorZero
  <2>4. a \div 2 \in Nat /\ a \div 2 < a /\ b \div 2 \in Nat
    BY <2>3, Halves
  <2>5. PICK y \in Nat : y = (a \div 2) ^^ (b \div 2)
    BY <2>1, <2>4
  <2> QED
    BY <2>2, <2>3, <2>5, XorBits
<1> QED
  BY <1>1

\* The order does not matter.
LEMMA XorSymmetric ==
    \A a, b \in Nat : a ^^ b = b ^^ a
<1> DEFINE Bad == {a \in Nat : ~ \A b \in Nat : a ^^ b = b ^^ a}
<1>1. Bad = {}
  <2> SUFFICES ASSUME Bad # {} PROVE FALSE
    OBVIOUS
  <2> Bad \in SUBSET Nat
    OBVIOUS
  <2>1. PICK a \in Bad : \A j \in Bad : ~ (j < a)
    BY LeastNumber
  <2>2. PICK b \in Nat : a ^^ b # b ^^ a
    BY <2>1
  <2>3. a # 0 /\ b # 0 /\ a \in Nat
    BY <2>1, <2>2, XorZero
  <2>4. a \div 2 \in Nat /\ a \div 2 < a /\ b \div 2 \in Nat
    BY <2>3, Halves
  <2>5. (a \div 2) ^^ (b \div 2) = (b \div 2) ^^ (a \div 2)
    BY <2>1, <2>4
  <2>6. a ^^ b = ((a + b) % 2) + 2 * ((a \div 2) ^^ (b \div 2))
    BY <2>3, XorIs
  <2>7. b ^^ a = ((b + a) % 2) + 2 * ((b \div 2) ^^ (a \div 2))
    BY <2>3, XorIs
  <2>8. a + b = b + a
    BY <2>3
  <2> QED
    BY <2>2, <2>5, <2>6, <2>7, <2>8
<1> QED
  BY <1>1

\* Doing it twice undoes it.
LEMMA XorTwice ==
    \A a, b \in Nat : (a ^^ b) ^^ b = a
<1> DEFINE Bad == {a \in Nat : ~ \A b \in Nat : (a ^^ b) ^^ b = a}
<1>1. Bad = {}
  <2> SUFFICES ASSUME Bad # {} PROVE FALSE
    OBVIOUS
  <2> Bad \in SUBSET Nat
    OBVIOUS
  <2>1. PICK a \in Bad : \A j \in Bad : ~ (j < a)
    BY LeastNumber
  <2>2. PICK b \in Nat : (a ^^ b) ^^ b # a
    BY <2>1
  <2>3. b # 0 /\ a \in Nat
    BY <2>1, <2>2, XorZero
  <2>4. CASE a = 0
    <3>1. b ^^ b = 0
      <4> DEFINE Odd == {n \in Nat : n ^^ n # 0}
      <4> SUFFICES ASSUME Odd # {} PROVE FALSE
        BY <2>2
      <4> Odd \in SUBSET Nat
        OBVIOUS
      <4>1. PICK n \in Odd : \A j \in Odd : ~ (j < n)
        BY LeastNumber
      <4>2. n \in Nat /\ n # 0
        BY <4>1, XorZero
      <4>3. n \div 2 \in Nat /\ n \div 2 < n
        BY <4>2, Halves
      <4>4. (n \div 2) ^^ (n \div 2) = 0
        BY <4>1, <4>3
      <4>5. n ^^ n = ((n + n) % 2) + 2 * 0
        BY <4>2, <4>4, XorBits
      <4>6. (n + n) % 2 = 0
        BY <4>2
      <4> QED
        BY <4>1, <4>5, <4>6
    <3> QED
      BY <2>2, <2>4, <3>1, XorZero
  <2>5. CASE a # 0
    <3>1. a \div 2 \in Nat /\ a \div 2 < a /\ b \div 2 \in Nat
      BY <2>3, <2>5, Halves
    <3>2. PICK y \in Nat : y = (a \div 2) ^^ (b \div 2)
      BY <3>1, XorNat
    <3>3. y ^^ (b \div 2) = a \div 2
      BY <2>1, <3>1, <3>2
    <3>4. PICK c \in Nat : c = a ^^ b
      BY <2>3, XorNat
    <3>5. c = ((a + b) % 2) + 2 * y /\ c \div 2 = y /\ c % 2 = (a + b) % 2
      BY <2>3, <2>5, <3>2, <3>4, XorBits
    <3>6. CASE c = 0
      <4>1. y = 0 /\ (a + b) % 2 = 0
        BY <2>3, <3>5, <3>6
      <4>2. b \div 2 = a \div 2
        BY <3>1, <3>3, <4>1, XorZero
      <4>3. a = b
        BY <2>3, <4>1, <4>2
      <4> QED
        BY <2>2, <3>4, <3>6, <4>3, XorZero
    <3>7. CASE c # 0
      <4>1. PICK z \in Nat : z = a \div 2
        BY <3>1
      <4>2. c ^^ b = ((c + b) % 2) + 2 * z
        <5>1. z = (c \div 2) ^^ (b \div 2)
          BY <3>3, <3>5, <4>1
        <5>2. PICK bb \in Nat : bb = b /\ bb # 0
          BY <2>2, <2>3
        <5>3. c ^^ bb = ((c + bb) % 2) + 2 * z
          BY <3>7, <5>1, <5>2, XorBits
        <5> QED
          BY <5>2, <5>3
      <4>3. (c + b) % 2 = a % 2
        BY <2>3, <3>5
      <4>4. a = (a % 2) + 2 * z
        <5>1. a = (a % 2) + 2 * (a \div 2)
          BY <2>3
        <5> QED
          BY <4>1, <5>1
      <4> QED
        BY <2>2, <3>4, <4>2, <4>3, <4>4
    <3> QED
      BY <3>6, <3>7
  <2> QED
    BY <2>4, <2>5
<1> QED
  BY <1>1

\* Different numbers stay different.
LEMMA XorApart ==
    ASSUME NEW a \in Nat, NEW b \in Nat, NEW c \in Nat, a ^^ b = a ^^ c
    PROVE  b = c
<1>1. (b ^^ a) ^^ a = b /\ (c ^^ a) ^^ a = c
  BY XorTwice
<1>2. b ^^ a = c ^^ a
  BY XorSymmetric
<1> QED
  BY <1>1, <1>2

\* The only odd divisor of n is 1.
TwoPower(n) == n \in Nat \ {0} /\ \A d, q \in 1 .. n : n = d * q => d = 1 \/ d % 2 = 0

\* Half of such a number is one.
LEMMA HalfPower ==
    ASSUME NEW n, TwoPower(n), n # 1
    PROVE  \E m \in Nat : n = 2 * m /\ m < n /\ TwoPower(m)
<1>1. n \in Nat \ {0} /\ n \in 1 .. n /\ 1 \in 1 .. n /\ n = n * 1
  BY DEF TwoPower
<1>2. n % 2 = 0
  BY <1>1 DEF TwoPower
<1>3. PICK m \in Nat \ {0} : n = 2 * m /\ m < n
  <2>1. n \div 2 \in Nat \ {0} /\ n = 2 * (n \div 2) /\ n \div 2 < n
    BY <1>1, <1>2
  <2> QED
    BY <2>1
<1>4. ASSUME NEW d \in 1 .. m, NEW q \in 1 .. m, m = d * q PROVE d = 1 \/ d % 2 = 0
  <2>1. n = d * (2 * q)
    BY <1>3, <1>4
  <2>2. d \in 1 .. n /\ 2 * q \in 1 .. n
    BY <1>3
  <2> QED
    BY <2>1, <2>2 DEF TwoPower
<1> QED
  BY <1>3, <1>4 DEF TwoPower

\* A number less than n does not lead out of a stretch of n that begins at a
\* multiple of n.
LEMMA XorStays ==
    ASSUME NEW n, TwoPower(n), NEW q \in Nat, NEW a \in Nat, q * n <= a, a < q * n + n,
           NEW c \in Nat, c < n
    PROVE  q * n <= a ^^ c /\ a ^^ c < q * n + n
<1> DEFINE Stays(m) == \A b, d \in Nat : q * m <= b /\ b < q * m + m /\ d < m
                         => q * m <= b ^^ d /\ b ^^ d < q * m + m
<1> DEFINE Bad == {m \in Nat : TwoPower(m) /\ ~ Stays(m)}
<1>1. Bad = {}
  <2> SUFFICES ASSUME Bad # {} PROVE FALSE
    OBVIOUS
  <2> Bad \in SUBSET Nat
    OBVIOUS
  <2>1. PICK m \in Bad : \A j \in Bad : ~ (j < m)
    BY LeastNumber
  <2>2. m \in Nat \ {0} /\ TwoPower(m)
    BY <2>1 DEF TwoPower
  <2>3. PICK b \in Nat, d \in Nat : q * m <= b /\ b < q * m + m /\ d < m
                                    /\ ~ (q * m <= b ^^ d /\ b ^^ d < q * m + m)
    BY <2>1
  <2>4. d # 0
    BY <2>3, XorZero
  <2>5. m # 1
    BY <2>3, <2>4
  <2>6. PICK k \in Nat : m = 2 * k /\ k < m /\ TwoPower(k)
    BY <2>2, <2>5, HalfPower
  <2>7. Stays(k)
    BY <2>1, <2>6
  <2>8. PICK r \in Nat : r = q * k
    OBVIOUS
  <2>9. q * m = 2 * r
    <3>1. q * (2 * k) = 2 * (q * k)
      OBVIOUS
    <3> QED
      BY <2>6, <2>8, <3>1
  <2>10. b # 0 \/ r = 0
    BY <2>3, <2>9
  <2>11. CASE b = 0
    BY <2>3, <2>9, <2>10, <2>11, XorZero
  <2>12. CASE b # 0
    <3>1. PICK h \in Nat : h = b \div 2
      OBVIOUS
    <3>2. PICK e \in Nat : e = d \div 2
      OBVIOUS
    <3>3. r <= h /\ h < r + k /\ e < k
      BY <2>3, <2>6, <2>9, <3>1, <3>2
    <3>4. PICK y \in Nat : y = h ^^ e
      BY XorNat
    <3>5. r <= y /\ y < r + k
      BY <2>7, <2>8, <3>3, <3>4
    <3>6. b ^^ d = ((b + d) % 2) + 2 * y
      BY <2>4, <2>12, <3>1, <3>2, <3>4, XorBits
    <3>7. PICK s \in 0 .. 1 : s = (b + d) % 2
      OBVIOUS
    <3> QED
      BY <2>3, <2>6, <2>9, <3>5, <3>6, <3>7
  <2> QED
    BY <2>11, <2>12
<1>2. n \in Nat /\ Stays(n)
  BY <1>1 DEF TwoPower
<1> QED
  BY <1>2

--------
(***************************************************************************)
(* Blocks, and the slots of the extras of their units.                     *)
(***************************************************************************)

\* A number is what its quotient and its rest make it.
LEMMA Division ==
    ASSUME NEW a \in Nat, NEW n \in Nat \ {0}
    PROVE  \E q \in Int : \E r \in 0 .. n - 1 : q = a \div n /\ r = a % n /\ a = n * q + r
<1> n \in Int /\ n > 0 /\ a \in Int
  OBVIOUS
<1>1. a - (a % n) = n * (a \div n)
  BY SMT
<1>2. PICK q \in Int : q = a \div n
  OBVIOUS
<1>3. PICK r \in 0 .. n - 1 : r = a % n
  OBVIOUS
<1>4. a - r = n * q
  BY <1>1, <1>2, <1>3
<1>5. a = n * q + r
  BY <1>3, <1>4
<1> QED
  BY <1>2, <1>3, <1>5

\* Quotient and rest are unique.
LEMMA DivisionUnique ==
    ASSUME NEW n \in Nat \ {0}, NEW q \in Int, NEW p \in Int, NEW r \in 0 .. n - 1,
           NEW s \in 0 .. n - 1, n * q + r = n * p + s
    PROVE  q = p /\ r = s
<1>1. ASSUME NEW k \in Int, k >= 1 PROVE n * k >= n
  BY <1>1
<1>2. n * (q - p) = n * q - n * p /\ n * (p - q) = n * p - n * q
  OBVIOUS
<1>3. ~ (q - p >= 1)
  BY <1>1, <1>2
<1>4. ~ (p - q >= 1)
  BY <1>1, <1>2
<1> QED
  BY <1>3, <1>4

\* The sizes as the other proofs use them.
LEMMA Sizes ==
    /\ BLOCK_SIZE \in Nat \ {0} /\ NUM_EXTRA_BLOCKS \in Nat \ {0}
    /\ NUM_EXTRAS \in Nat \ {0} /\ NUM_EXTRAS = BLOCK_SIZE * NUM_EXTRA_BLOCKS
    /\ BLOCK_SIZE <= NUM_EXTRAS
    /\ TwoPower(BLOCK_SIZE)
<1>1. BLOCK_SIZE \in Nat \ {0} /\ NUM_EXTRA_BLOCKS \in Nat \ {0}
  BY SizeAssumption, BlockAssumption
<1>2. \A m, k \in Nat \ {0} : m * k \in Nat \ {0} /\ m <= m * k
  OBVIOUS
<1>3. NUM_EXTRAS \in Nat \ {0} /\ BLOCK_SIZE <= NUM_EXTRAS
  BY <1>1, <1>2 DEF NUM_EXTRAS
<1> QED
  BY <1>1, <1>3, BlockAssumption DEF NUM_EXTRAS, TwoPower

\* Ids less than NUM_EXTRAS apart have slots of their own.
LEMMA SlotApart ==
    ASSUME NEW a \in Nat, NEW b \in Nat, a - b < NUM_EXTRAS, b - a < NUM_EXTRAS,
           Slot(a) = Slot(b)
    PROVE  a = b
<1>1. PICK n \in Nat \ {0} : n = NUM_EXTRAS
  BY Sizes
<1>2. PICK q \in Int : \E r \in 0 .. n - 1 : r = a % n /\ a = n * q + r
  BY Division
<1>3. PICK r \in 0 .. n - 1 : q \in Int /\ r = a % n /\ a = n * q + r
  BY <1>2
<1>4. PICK p \in Int : \E s \in 0 .. n - 1 : s = b % n /\ b = n * p + s
  BY Division
<1>5. PICK s \in 0 .. n - 1 : p \in Int /\ s = b % n /\ b = n * p + s
  BY <1>4
<1>6. a = n * q + r /\ b = n * p + r
  BY <1>1, <1>3, <1>5 DEF Slot
<1>7. r \in 0 .. n - 1
  BY <1>3
<1>8. ASSUME NEW k \in Int, k >= 1 PROVE n * k >= n
  BY <1>8
<1>9. n * (q - p) = n * q - n * p /\ n * (p - q) = n * p - n * q
  OBVIOUS
<1>10. ~ (q - p >= 1) /\ ~ (p - q >= 1)
  BY <1>1, <1>6, <1>7, <1>8, <1>9
<1>11. q = p
  BY <1>10
<1> QED
  BY <1>6, <1>11

\* Every id has a slot.
LEMMA SlotRange ==
    ASSUME NEW a \in Nat
    PROVE  Slot(a) \in 0 .. NUM_EXTRAS - 1 /\ (a < NUM_EXTRAS => Slot(a) = a)
<1>1. PICK n \in Nat \ {0} : n = NUM_EXTRAS
  BY Sizes
<1>2. a % n \in 0 .. n - 1
  OBVIOUS
<1>3. a < n => a % n = a
  OBVIOUS
<1> QED
  BY <1>1, <1>2, <1>3 DEF Slot

\* The slots of a block follow each other.
LEMMA SlotInBlock ==
    ASSUME NEW k \in Nat, NEW i \in 0 .. BLOCK_SIZE - 1
    PROVE  /\ Slot(BLOCK_SIZE * k) + i \in 0 .. NUM_EXTRAS - 1
           /\ Slot(BLOCK_SIZE * k + i) = Slot(BLOCK_SIZE * k) + i
<1>1. PICK m \in Nat \ {0}, l \in Nat \ {0}, n \in Nat \ {0} :
        m = BLOCK_SIZE /\ l = NUM_EXTRA_BLOCKS /\ n = NUM_EXTRAS /\ n = m * l
  BY Sizes
<1>2. PICK q \in Int : \E r \in 0 .. l - 1 : r = k % l /\ k = l * q + r
  BY Division, ZenonT(60)
<1>3. PICK r \in 0 .. l - 1 : q \in Int /\ r = k % l /\ k = l * q + r
  BY <1>2
<1>4. r \in Int /\ r \in 0 .. l - 1
  BY <1>3
<1>5. m * k = n * q + m * r
  <2>1. m * (l * q + r) = (m * l) * q + m * r
    BY <1>4
  <2>2. k = l * q + r
    BY <1>3, <1>4
  <2> QED
    BY <1>1, <2>1, <2>2
<1>6. m * r + i \in 0 .. n - 1 /\ m * r \in 0 .. n - 1
  <2>1. m * r <= m * (l - 1) /\ m * (l - 1) = m * l - m /\ m * r \in Nat
    <3>1. l - 1 - r \in Nat /\ m * (l - 1 - r) \in Nat
      BY <1>4
    <3>2. m * (l - 1 - r) = m * l - m - m * r
      BY <1>4
    <3>3. m * r \in Nat
      BY <1>4
    <3>4. m * (l - 1) = m * l - m
      OBVIOUS
    <3> QED
      BY <3>1, <3>2, <3>3, <3>4
  <2>2. i \in 0 .. m - 1
    BY <1>1
  <2> QED
    BY <1>1, <2>1, <2>2
<1>7. ASSUME NEW s \in 0 .. n - 1, NEW a \in Nat, a = n * q + s PROVE a % n = s
  <2>1. PICK p \in Int : \E t \in 0 .. n - 1 : t = a % n /\ a = n * p + t
    BY <1>7, Division, ZenonT(60)
  <2>2. PICK t \in 0 .. n - 1 : p \in Int /\ t = a % n /\ a = n * p + t
    BY <2>1
  <2>3. n * q + s = n * p + t
    BY <1>7, <2>2
  <2>4. s = t
    BY <2>3, DivisionUnique
  <2> QED
    BY <2>2, <2>4
<1>8. (m * k) % n = m * r
  BY <1>5, <1>6, <1>7
<1>9. (m * k + i) % n = m * r + i
  <2>1. i \in Nat /\ m * k \in Nat /\ m * r \in Int
    BY <1>1, <1>4
  <2>2. PICK a \in Nat : a = m * k + i
    BY <2>1
  <2>3. a = n * q + (m * r + i)
    <3>1. PICK x \in Int, y \in Int, z \in Int : x = m * k /\ y = n * q /\ z = m * r
      BY <2>1
    <3>2. x = y + z /\ a = x + i
      BY <1>5, <2>2, <3>1
    <3>3. a = y + (z + i)
      BY <2>1, <3>2
    <3> QED
      BY <3>1, <3>3
  <2>4. a % n = m * r + i
    BY <1>6, <1>7, <2>3
  <2> QED
    BY <2>2, <2>4
<1> QED
  BY <1>1, <1>6, <1>8, <1>9 DEF Slot

--------
(***************************************************************************)
(* Circles of numbers: each one's next is the next greater, the greatest   *)
(* one's the least.                                                        *)
(***************************************************************************)

\* y comes after x in the circle of the numbers of S, the greatest being
\* followed by the least.
After(S, x, y) ==
    /\ y \in S
    /\ \/ x < y /\ \A z \in S : ~ (x < z /\ z < y)
       \/ \A z \in S : z <= x /\ y <= z

\* nx and pv lead round the circle, in either direction.
Circle(S, nx, pv) ==
    \A x \in S : /\ After(S, x, nx[x])
                 /\ pv[x] \in S /\ nx[pv[x]] = x /\ pv[nx[x]] = x

\* A circle that a number leaves.
LEMMA CircleLess ==
    ASSUME NEW S \in SUBSET Nat, NEW nx, NEW pv, Circle(S, nx, pv), NEW id \in S,
           NEW my, NEW mp,
           \A x \in S \ {id} : my[x] = IF x = pv[id] THEN nx[id] ELSE nx[x],
           \A x \in S \ {id} : mp[x] = IF x = nx[id] THEN pv[id] ELSE pv[x]
    PROVE  Circle(S \ {id}, my, mp)
<1> SUFFICES ASSUME NEW x \in S \ {id}
             PROVE  /\ After(S \ {id}, x, my[x])
                    /\ mp[x] \in S \ {id} /\ my[mp[x]] = x /\ mp[my[x]] = x
  BY DEF Circle
<1>1. x \in S /\ id \in S /\ x # id /\ x \in Nat /\ id \in Nat
  OBVIOUS
<1>2. /\ After(S, x, nx[x]) /\ After(S, id, nx[id])
      /\ pv[x] \in S /\ nx[pv[x]] = x /\ pv[nx[x]] = x
      /\ pv[id] \in S /\ nx[pv[id]] = id /\ pv[nx[id]] = id
  BY <1>1 DEF Circle
<1>3. PICK y : y = nx[x]
  OBVIOUS
<1>4. PICK w : w = nx[id]
  OBVIOUS
<1>5. PICK p : p = pv[id]
  OBVIOUS
<1>6. PICK o : o = pv[x]
  OBVIOUS
<1>7. /\ y \in S /\ w \in S /\ p \in S /\ o \in S
      /\ y \in Nat /\ w \in Nat /\ p \in Nat /\ o \in Nat
      /\ pv[y] = x /\ pv[w] = id /\ nx[p] = id /\ nx[o] = x
  BY <1>2, <1>3, <1>4, <1>5, <1>6 DEF After
<1>8. w # id /\ p # id
  <2>1. w = id => x <= id /\ id <= x
    BY <1>1, <1>2, <1>4 DEF After
  <2>2. p = id => w = id
    BY <1>4, <1>7
  <2> QED
    BY <1>1, <2>1, <2>2
<1>9. my[x] \in S \ {id} /\ mp[x] \in S \ {id}
  <2>1. y = id <=> x = p
    BY <1>3, <1>5, <1>7
  <2>2. o = id <=> x = w
    BY <1>4, <1>6, <1>7
  <2> QED
    BY <1>1, <1>3, <1>4, <1>5, <1>6, <1>7, <1>8, <2>1, <2>2
<1>10. After(S \ {id}, x, my[x])
  <2>1. CASE x = p
    <3>1. my[x] = w /\ y = id
      BY <1>3, <1>4, <1>5, <1>7, <2>1
    <3>2. \A z \in S : z \in Nat
      OBVIOUS
    <3> QED
      BY <1>1, <1>2, <1>3, <1>4, <1>7, <1>8, <3>1, <3>2 DEF After
  <2>2. CASE x # p
    <3>1. my[x] = y
      BY <1>3, <1>5, <2>2
    <3> QED
      BY <1>2, <1>3, <1>9, <3>1 DEF After
  <2> QED
    BY <2>1, <2>2
<1>11. my[mp[x]] = x
  <2>1. CASE x = w
    <3>1. mp[x] = p
      BY <1>4, <1>5, <2>1
    <3>2. my[p] = w
      BY <1>4, <1>5, <1>7, <1>8
    <3> QED
      BY <2>1, <3>1, <3>2
  <2>2. CASE x # w
    <3>1. mp[x] = o /\ o # p
      BY <1>1, <1>4, <1>6, <1>7, <2>2
    <3>2. my[o] = nx[o]
      BY <1>5, <1>9, <3>1
    <3> QED
      BY <1>7, <3>1, <3>2
  <2> QED
    BY <2>1, <2>2
<1>12. mp[my[x]] = x
  <2>1. CASE x = p
    <3>1. my[x] = w
      BY <1>4, <1>5, <2>1
    <3>2. mp[w] = p
      BY <1>4, <1>5, <1>7, <1>8
    <3> QED
      BY <2>1, <3>1, <3>2
  <2>2. CASE x # p
    <3>1. my[x] = y /\ y # w
      BY <1>1, <1>3, <1>5, <1>7, <2>2
    <3>2. mp[y] = pv[y]
      BY <1>4, <1>9, <3>1
    <3> QED
      BY <1>7, <3>1, <3>2
  <2> QED
    BY <2>1, <2>2
<1> QED
  BY <1>9, <1>10, <1>11, <1>12

\* The least number of S, or where the next one will be.
FirstOf(S, end, h) ==
    IF S = {} THEN h = end ELSE h \in S /\ \A x \in S : h <= x

\* A circle that a stretch of greater numbers joins.
LEMMA CircleMore ==
    ASSUME NEW S \in SUBSET Nat, NEW nx, NEW pv, Circle(S, nx, pv), NEW lo \in Nat,
           NEW hi \in Nat, lo <= hi, \A x \in S : x < lo, NEW h, FirstOf(S, lo, h),
           NEW my, NEW mp,
           \A x \in S : my[x] = IF x = pv[h] THEN lo ELSE nx[x],
           \A x \in S : mp[x] = IF x = h THEN hi ELSE pv[x],
           \A x \in lo .. hi : my[x] = IF x = hi THEN h ELSE x + 1,
           \A x \in lo .. hi : mp[x] = IF x = lo THEN IF S = {} THEN hi ELSE pv[h] ELSE x - 1
    PROVE  Circle(S \union lo .. hi, my, mp)
<1> DEFINE T == S \union lo .. hi
<1>1. CASE S = {}
  <2>1. h = lo
    BY <1>1 DEF FirstOf
  <2> SUFFICES ASSUME NEW x \in lo .. hi
               PROVE  /\ After(lo .. hi, x, my[x])
                      /\ mp[x] \in lo .. hi /\ my[mp[x]] = x /\ mp[my[x]] = x
    BY <1>1 DEF Circle
  <2>2. After(lo .. hi, x, my[x])
    BY <2>1 DEF After
  <2>3. mp[x] \in lo .. hi /\ my[mp[x]] = x
    BY <1>1, <2>1
  <2>4. mp[my[x]] = x
    BY <1>1, <2>1
  <2> QED
    BY <2>2, <2>3, <2>4
<1>2. CASE S # {}
  <2>1. h \in S /\ \A x \in S : h <= x
    BY <1>2 DEF FirstOf
  <2>2. PICK t : t = pv[h]
    OBVIOUS
  <2>3. t \in S /\ nx[t] = h /\ pv[h] = t
    BY <2>1, <2>2 DEF Circle
  <2>4. \A z \in S : z <= t
    <3>1. After(S, t, h)
      BY <2>3 DEF Circle
    <3>2. h <= t /\ h \in Nat /\ t \in Nat
      BY <2>1, <2>3
    <3> QED
      BY <3>1, <3>2 DEF After
  <2>5. ASSUME NEW x \in S PROVE After(T, x, my[x])
    <3>1. CASE x = t
      <4>1. my[x] = lo /\ x < lo
        BY <2>2, <3>1
      <4> QED
        BY <2>4, <3>1, <4>1 DEF After
    <3>2. CASE x # t
      <4>1. my[x] = nx[x] /\ After(S, x, nx[x]) /\ x < t /\ t \in S /\ x \in Nat /\ t \in Nat
        BY <2>2, <2>3, <2>4, <3>2 DEF Circle
      <4>2. PICK y : y = nx[x]
        OBVIOUS
      <4>3. y \in S /\ x < y /\ \A z \in S : ~ (x < z /\ z < y)
        BY <4>1, <4>2 DEF After
      <4>4. \A z \in lo .. hi : ~ (z < y)
        BY <4>3
      <4> QED
        BY <4>1, <4>2, <4>3, <4>4 DEF After
    <3> QED
      BY <3>1, <3>2
  <2>6. ASSUME NEW x \in lo .. hi PROVE After(T, x, my[x])
    <3>1. CASE x = hi
      BY <2>1, <3>1 DEF After
    <3>2. CASE x # hi
      BY <3>2 DEF After
    <3> QED
      BY <3>1, <3>2
  <2>7. ASSUME NEW x \in S PROVE mp[x] \in T /\ my[mp[x]] = x /\ mp[my[x]] = x
    <3>2. mp[x] \in T /\ my[mp[x]] = x
      <4>1. CASE x = h
        BY <4>1
      <4>2. CASE x # h
        <5>1. mp[x] = pv[x] /\ pv[x] \in S /\ nx[pv[x]] = x
          BY <4>2 DEF Circle
        <5>2. pv[x] # t
          BY <2>3, <4>2, <5>1
        <5> QED
          BY <2>2, <5>1, <5>2
      <4> QED
        BY <4>1, <4>2
    <3>3. mp[my[x]] = x
      <4>1. CASE x = t
        BY <1>2, <2>2, <4>1
      <4>2. CASE x # t
        <5>1. my[x] = nx[x] /\ nx[x] \in S /\ pv[nx[x]] = x
          BY <2>2, <4>2 DEF Circle, After
        <5>2. nx[x] # h
          BY <2>3, <4>2, <5>1
        <5> QED
          BY <5>1, <5>2
      <4> QED
        BY <4>1, <4>2
    <3> QED
      BY <3>2, <3>3
  <2>8. ASSUME NEW x \in lo .. hi PROVE mp[x] \in T /\ my[mp[x]] = x /\ mp[my[x]] = x
    <3>1. CASE x = lo
      <4>1. mp[x] = t /\ my[t] = lo
        BY <1>2, <2>2, <2>3, <3>1
      <4>2. mp[my[x]] = x
        BY <2>1, <3>1
      <4> QED
        BY <2>3, <3>1, <4>1, <4>2
    <3>2. CASE x # lo
      <4>1. mp[x] = x - 1 /\ x - 1 \in lo .. hi /\ x - 1 # hi
        BY <3>2
      <4>2. my[x - 1] = x
        BY <4>1
      <4>3. mp[my[x]] = x
        <5>1. CASE x = hi
          BY <2>1, <5>1
        <5>2. CASE x # hi
          <6>1. my[x] = x + 1 /\ x + 1 \in lo .. hi /\ x + 1 # lo
            BY <5>2
          <6>2. mp[x + 1] = (x + 1) - 1
            BY <6>1
          <6> QED
            BY <6>1, <6>2
        <5> QED
          BY <5>1, <5>2
      <4> QED
        BY <4>1, <4>2, <4>3
    <3> QED
      BY <3>1, <3>2
  <2> QED
    BY <2>5, <2>6, <2>7, <2>8 DEF Circle
<1> QED
  BY <1>1, <1>2

--------
(***************************************************************************)
(* The list of free units is the circle of those that are not fixed, from  *)
(* the least on.                                                           *)
(***************************************************************************)

\* Of n units the first whose extras have not been given to a newer one.
Oldest(n) == IF n > NUM_EXTRAS THEN n - NUM_EXTRAS ELSE 0

\* The units that have extras, and those of them that are free.
First(b) == Oldest(Size(b))

Open(b) == {id \in First(b) .. Size(b) - 1 : ~ Extra(b, id).is_fixed}

\* Units whose values are from V, and extras when there are n units.
UnitSet(V) ==
    [label : 0 .. BLOCK_SIZE - 1 \union {NoLabel}, offset : Nat, has_leaf : BOOLEAN, value : V]

ExtraSet(n) == [prev : Nat, next : 0 .. n, is_fixed : BOOLEAN, is_used : BOOLEAN]

\* The builder's types; slots that no unit has are free.
Typed(b, V) ==
    /\ b = [units |-> b.units, extras_head |-> b.extras_head, table |-> b.table,
            extras |-> b.extras]
    /\ b.units \in Seq(UnitSet(V))
    /\ \E k \in Nat : Size(b) = BLOCK_SIZE * k
    /\ b.extras \in [0 .. NUM_EXTRAS - 1 -> ExtraSet(Size(b))]
    /\ \A s \in 0 .. NUM_EXTRAS - 1 : s >= Size(b) => ~ b.extras[s].is_fixed

\* The list as functions of ids.
Nexts(b) == [id \in 0 .. Size(b) - 1 |-> Extra(b, id).next]
Prevs(b) == [id \in 0 .. Size(b) - 1 |-> Extra(b, id).prev]

\* The free units form a circle, in the order of their ids.
Ring(b, V) ==
    /\ Typed(b, V)
    /\ Circle(Open(b), Nexts(b), Prevs(b))
    /\ FirstOf(Open(b), Size(b), b.extras_head)

\* Facts about typed builders.
LEMMA TypedIs ==
    ASSUME NEW b, NEW V, Typed(b, V)
    PROVE  /\ Size(b) \in Nat /\ First(b) \in Nat
           /\ Open(b) \in SUBSET Nat
           /\ \A id \in Nat : Slot(id) \in 0 .. NUM_EXTRAS - 1 /\ Extra(b, id) \in ExtraSet(Size(b))
           /\ \A x, y \in First(b) .. Size(b) - 1 : Slot(x) = Slot(y) => x = y
           /\ \A id \in Open(b) : id \in First(b) .. Size(b) - 1 /\ id \in 0 .. Size(b) - 1
<1>1. Size(b) \in Nat
  BY DEF Typed, Size
<1>2. NUM_EXTRAS \in Nat \ {0}
  BY Sizes
<1>3. First(b) \in Nat /\ Size(b) - First(b) <= NUM_EXTRAS
  BY <1>1, <1>2 DEF First, Oldest
<1>4. Open(b) \in SUBSET Nat
  BY <1>1, <1>3 DEF Open
<1>5. ASSUME NEW id \in Nat PROVE Slot(id) \in 0 .. NUM_EXTRAS - 1 /\ Extra(b, id) \in ExtraSet(Size(b))
  <2>1. Slot(id) \in 0 .. NUM_EXTRAS - 1
    BY SlotRange
  <2> QED
    BY <2>1 DEF Typed, Extra
<1>6. ASSUME NEW x \in First(b) .. Size(b) - 1, NEW y \in First(b) .. Size(b) - 1, Slot(x) = Slot(y)
      PROVE x = y
  <2>1. x \in Nat /\ y \in Nat /\ x - y < NUM_EXTRAS /\ y - x < NUM_EXTRAS
    BY <1>1, <1>2, <1>3
  <2> QED
    BY <1>6, <2>1, SlotApart
<1>7. \A id \in Open(b) : id \in First(b) .. Size(b) - 1 /\ id \in 0 .. Size(b) - 1
  BY <1>1, <1>3 DEF Open
<1> QED
  BY <1>1, <1>3, <1>4, <1>5, <1>6, <1>7

\* What Take does to the extras of the last blocks.
Taken(b, c, id) ==
    LET p == Extra(b, id).prev
        w == Extra(b, id).next
    IN  \A x \in First(b) .. Size(b) - 1 :
           Extra(c, x) = [prev |-> IF x = w THEN p ELSE Extra(b, x).prev,
                          next |-> IF x = p THEN w ELSE Extra(b, x).next,
                          is_fixed |-> IF x = id THEN TRUE ELSE Extra(b, x).is_fixed,
                          is_used |-> Extra(b, x).is_used]

\* One unit leaves a list.
LEMMA UnlinkIs ==
    ASSUME NEW b, NEW V, Ring(b, V), NEW id \in Open(b), NEW e, e = Unlink(b.extras, id)
    PROVE  /\ e \in [0 .. NUM_EXTRAS - 1 -> ExtraSet(Size(b))]
           /\ \A s \in 0 .. NUM_EXTRAS - 1 : s # Slot(id) => e[s].is_fixed = b.extras[s].is_fixed
           /\ \A c : c.extras = e => Taken(b, c, id)
<1> DEFINE N == NUM_EXTRAS - 1
           E == ExtraSet(Size(b))
<1>1. Typed(b, V)
  BY DEF Ring
<1>2. PICK p : p = Extra(b, id).prev
  OBVIOUS
<1>3. PICK w : w = Extra(b, id).next
  OBVIOUS
<1>4. id \in First(b) .. Size(b) - 1 /\ id \in 0 .. Size(b) - 1 /\ Size(b) \in Nat
  BY <1>1, TypedIs
<1>5. Nexts(b)[id] = w /\ Prevs(b)[id] = p
  BY <1>2, <1>3, <1>4 DEF Nexts, Prevs
<1>6. p \in Open(b) /\ w \in Open(b)
  BY <1>5 DEF Ring, Circle, After
<1>8. PICK f : f = b.extras
  OBVIOUS
<1>9. f \in [0 .. N -> E] /\ \A x \in Nat : Extra(b, x) = f[Slot(x)]
  BY <1>1, <1>8 DEF Typed, Extra
<1>10. PICK i \in 0 .. N : i = Slot(id)
  BY <1>1, <1>4, TypedIs
<1>11. PICK j \in 0 .. N : j = Slot(p)
  BY <1>1, <1>6, TypedIs
<1>12. PICK k \in 0 .. N : k = Slot(w)
  BY <1>1, <1>6, TypedIs
<1>13. f[i].next = w /\ f[i].prev = p
  BY <1>2, <1>3, <1>4, <1>9, <1>10
<1>14. PICK g : g = [f EXCEPT ![j].next = w]
  OBVIOUS
<1>15. w \in 0 .. Size(b) /\ p \in Nat
  BY <1>1, <1>4, <1>6, TypedIs
<1>16. /\ g \in [0 .. N -> E]
       /\ \A s \in 0 .. N : g[s] = IF s = j THEN [f[s] EXCEPT !.next = w] ELSE f[s]
  BY <1>9, <1>14, <1>15 DEF ExtraSet
<1>17. g[i].next = w
  BY <1>9, <1>13, <1>16 DEF ExtraSet
<1>18. PICK h : h = [g EXCEPT ![k].prev = p]
  OBVIOUS
<1>19. /\ h \in [0 .. N -> E]
       /\ \A s \in 0 .. N : h[s] = IF s = k THEN [g[s] EXCEPT !.prev = p] ELSE g[s]
  BY <1>15, <1>16, <1>18 DEF ExtraSet
<1>20. e = [h EXCEPT ![i].is_fixed = TRUE]
  BY <1>8, <1>10, <1>11, <1>12, <1>13, <1>14, <1>17, <1>18 DEF Unlink
<1>21. /\ e \in [0 .. N -> E]
       /\ \A s \in 0 .. N : e[s] = IF s = i THEN [h[s] EXCEPT !.is_fixed = TRUE] ELSE h[s]
  BY <1>19, <1>20 DEF ExtraSet
<1>22. \A s \in 0 .. N :
          e[s] = [prev |-> IF s = k THEN p ELSE f[s].prev,
                  next |-> IF s = j THEN w ELSE f[s].next,
                  is_fixed |-> IF s = i THEN TRUE ELSE f[s].is_fixed,
                  is_used |-> f[s].is_used]
  <2> SUFFICES ASSUME NEW s \in 0 .. N
               PROVE  e[s] = [prev |-> IF s = k THEN p ELSE f[s].prev,
                              next |-> IF s = j THEN w ELSE f[s].next,
                              is_fixed |-> IF s = i THEN TRUE ELSE f[s].is_fixed,
                              is_used |-> f[s].is_used]
    OBVIOUS
  <2>1. /\ f[s] = [prev |-> f[s].prev, next |-> f[s].next, is_fixed |-> f[s].is_fixed,
                is_used |-> f[s].is_used]
        /\ f[s].is_fixed \in BOOLEAN
    BY <1>9 DEF ExtraSet
  <2>2. g[s] = [prev |-> f[s].prev, next |-> IF s = j THEN w ELSE f[s].next,
                is_fixed |-> f[s].is_fixed, is_used |-> f[s].is_used]
    BY <1>16, <2>1
  <2>3. h[s] = [prev |-> IF s = k THEN p ELSE f[s].prev,
                next |-> IF s = j THEN w ELSE f[s].next,
                is_fixed |-> f[s].is_fixed, is_used |-> f[s].is_used]
    BY <1>19, <2>2
  <2>4. CASE s = i
    <3>1. PICK yes : yes = TRUE
      OBVIOUS
    <3>2. e[s] = [h[s] EXCEPT !.is_fixed = yes]
      BY <1>21, <2>4, <3>1
    <3>3. PICK pr, ne : pr = (IF s = k THEN p ELSE f[s].prev) /\ ne = (IF s = j THEN w ELSE f[s].next)
      OBVIOUS
    <3>4. PICK us : us = f[s].is_used
      OBVIOUS
    <3>5. PICK fx : fx = f[s].is_fixed
      OBVIOUS
    <3>6. h[s] = [prev |-> pr, next |-> ne, is_fixed |-> fx, is_used |-> us]
      BY <2>3, <3>3, <3>4, <3>5
    <3>7. e[s] = [prev |-> pr, next |-> ne, is_fixed |-> yes, is_used |-> us]
      BY <3>2, <3>6
    <3>8. (IF s = i THEN TRUE ELSE f[s].is_fixed) = yes
      BY <2>4, <3>1
    <3> QED
      BY <3>3, <3>4, <3>7, <3>8
  <2>5. CASE s # i
    <3>1. e[s] = h[s]
      BY <1>21, <2>5
    <3> QED
      BY <2>3, <2>5, <3>1
  <2> QED
    BY <2>4, <2>5
<1>23. ASSUME NEW c, c.extras = e PROVE Taken(b, c, id)
  <2> SUFFICES ASSUME NEW x \in First(b) .. Size(b) - 1
               PROVE  Extra(c, x) = [prev |-> IF x = w THEN p ELSE Extra(b, x).prev,
                          next |-> IF x = p THEN w ELSE Extra(b, x).next,
                          is_fixed |-> IF x = id THEN TRUE ELSE Extra(b, x).is_fixed,
                          is_used |-> Extra(b, x).is_used]
    BY <1>2, <1>3 DEF Taken
  <2>1. x \in Nat
    BY <1>1, TypedIs
  <2>2. PICK s \in 0 .. N : s = Slot(x)
    BY <1>1, <2>1, TypedIs
  <2>3. Extra(b, x) = f[s] /\ Extra(c, x) = e[s]
    BY <1>9, <1>23, <2>1, <2>2 DEF Extra
  <2>4. (s = i <=> x = id) /\ (s = j <=> x = p) /\ (s = k <=> x = w)
    BY <1>1, <1>4, <1>6, <1>10, <1>11, <1>12, <2>2, TypedIs
  <2> QED
    BY <1>22, <2>3, <2>4
<1>24. \A s \in 0 .. N : s # i => e[s].is_fixed = f[s].is_fixed
  <2> SUFFICES ASSUME NEW s \in 0 .. N, s # i PROVE e[s].is_fixed = f[s].is_fixed
    OBVIOUS
  <2>1. e[s] = h[s] /\ h[s].is_fixed = g[s].is_fixed /\ g[s].is_fixed = f[s].is_fixed
    <3>1. e[s] = h[s]
      BY <1>21
    <3>2. h[s].is_fixed = g[s].is_fixed
      BY <1>16, <1>19 DEF ExtraSet
    <3>3. g[s].is_fixed = f[s].is_fixed
      BY <1>9, <1>16 DEF ExtraSet
    <3> QED
      BY <3>1, <3>2, <3>3
  <2> QED
    BY <2>1
<1> QED
  BY <1>8, <1>10, <1>21, <1>23, <1>24

\* The least number leaves a circle.
LEMMA HeadLess ==
    ASSUME NEW S \in SUBSET Nat, NEW nx, NEW pv, Circle(S, nx, pv), NEW end, NEW h,
           FirstOf(S, end, h), NEW id \in S,
           NEW g, g = IF id # h THEN h ELSE IF nx[id] = id THEN end ELSE nx[id]
    PROVE  FirstOf(S \ {id}, end, g)
<1>1. h \in S /\ (\A x \in S : h <= x) /\ h \in Nat /\ id \in Nat
  BY DEF FirstOf
<1>2. CASE id # h
  BY <1>1, <1>2 DEF FirstOf
<1>3. CASE id = h
  <2>1. PICK w : w = nx[id]
    OBVIOUS
  <2>2. After(S, id, w) /\ w \in S /\ w \in Nat
    BY <2>1 DEF Circle, After
  <2>3. CASE w = id
    <3>1. \A z \in S : z <= id
      BY <1>1, <2>2, <2>3 DEF After
    <3>2. \A z \in S : z = id
      <4>1. \A z \in S : z \in Nat /\ id <= z
        BY <1>1, <1>3
      <4> QED
        BY <1>1, <3>1, <4>1
    <3>3. S \ {id} = {}
      BY <3>2
    <3> QED
      BY <1>3, <2>1, <2>3, <3>3 DEF FirstOf
  <2>4. CASE w # id
    <3>1. \A z \in S : z \in Nat /\ id <= z
      BY <1>1, <1>3
    <3>2. id < w /\ \A z \in S : ~ (id < z /\ z < w)
      BY <1>1, <2>2, <2>4, <3>1 DEF After
    <3>3. \A z \in S \ {id} : w <= z
      BY <1>1, <2>2, <3>1, <3>2
    <3>4. w \in S \ {id} /\ g = w
      BY <1>3, <2>1, <2>2, <2>4
    <3> QED
      BY <3>3, <3>4 DEF FirstOf
  <2> QED
    BY <2>3, <2>4
<1> QED
  BY <1>2, <1>3

\* The same field by field.
LEMMA TakenIs ==
    ASSUME NEW b, NEW c, NEW id, Taken(b, c, id)
    PROVE  \A x \in First(b) .. Size(b) - 1 :
              /\ Extra(c, x).prev = IF x = Extra(b, id).next THEN Extra(b, id).prev
                                    ELSE Extra(b, x).prev
              /\ Extra(c, x).next = IF x = Extra(b, id).prev THEN Extra(b, id).next
                                    ELSE Extra(b, x).next
              /\ Extra(c, x).is_fixed <=> x = id \/ Extra(b, x).is_fixed
<1> SUFFICES ASSUME NEW x \in First(b) .. Size(b) - 1
             PROVE  /\ Extra(c, x).prev = IF x = Extra(b, id).next THEN Extra(b, id).prev
                                          ELSE Extra(b, x).prev
                    /\ Extra(c, x).next = IF x = Extra(b, id).prev THEN Extra(b, id).next
                                          ELSE Extra(b, x).next
                    /\ Extra(c, x).is_fixed <=> x = id \/ Extra(b, x).is_fixed
  OBVIOUS
<1>1. PICK p : p = Extra(b, id).prev
  OBVIOUS
<1>2. PICK w : w = Extra(b, id).next
  OBVIOUS
<1>3. Extra(c, x) = [prev |-> IF x = w THEN p ELSE Extra(b, x).prev,
                     next |-> IF x = p THEN w ELSE Extra(b, x).next,
                     is_fixed |-> IF x = id THEN TRUE ELSE Extra(b, x).is_fixed,
                     is_used |-> Extra(b, x).is_used]
  BY <1>1, <1>2 DEF Taken
<1>4. PICK y : y = IF x = id THEN TRUE ELSE Extra(b, x).is_fixed
  OBVIOUS
<1>5. PICK u : u = Extra(b, x).is_used
  OBVIOUS
<1>6. Extra(c, x) = [prev |-> IF x = w THEN p ELSE Extra(b, x).prev,
                     next |-> IF x = p THEN w ELSE Extra(b, x).next,
                     is_fixed |-> y, is_used |-> u]
  BY <1>3, <1>4, <1>5, Zenon
<1> QED
  BY <1>1, <1>2, <1>4, <1>5, <1>6

\* Taking a free unit off the list leaves the others on it.
LEMMA TakeIs ==
    ASSUME NEW b, NEW V, Ring(b, V), NEW id \in Open(b), NEW c, c = Take(b, id)
    PROVE  Ring(c, V) /\ c.units = b.units /\ c.table = b.table /\ Open(c) = Open(b) \ {id}
<1>1. Typed(b, V)
  BY DEF Ring
<1>2. PICK e : e = Unlink(b.extras, id)
  OBVIOUS
<1>3. /\ e \in [0 .. NUM_EXTRAS - 1 -> ExtraSet(Size(b))]
      /\ \A s \in 0 .. NUM_EXTRAS - 1 : s # Slot(id) => e[s].is_fixed = b.extras[s].is_fixed
      /\ \A d : d.extras = e => Taken(b, d, id)
  BY <1>2, UnlinkIs
<1>4. PICK h : h = IF id # b.extras_head THEN b.extras_head
                   ELSE IF Extra(b, id).next = id THEN Size(b) ELSE Extra(b, id).next
  OBVIOUS
<1>5. c = [units |-> b.units, extras_head |-> h, table |-> b.table, extras |-> e]
  <2>1. b = [units |-> b.units, extras_head |-> b.extras_head, table |-> b.table,
             extras |-> b.extras]
    BY <1>1 DEF Typed
  <2>2. c = [b EXCEPT !.extras = e, !.extras_head = h]
    BY <1>2, <1>4 DEF Take
  <2> QED
    BY <2>1, <2>2
<1>6. c.units = b.units /\ c.table = b.table /\ c.extras_head = h /\ c.extras = e
  BY <1>5
<1>7. Size(c) = Size(b) /\ First(c) = First(b)
  BY <1>6 DEF Size, First
<1>8. Taken(b, c, id)
  BY <1>3, <1>6
<1>9. id \in First(b) .. Size(b) - 1 /\ id \in 0 .. Size(b) - 1 /\ Size(b) \in Nat /\ id \in Nat
  BY <1>1, TypedIs
<1>10. Open(c) = Open(b) \ {id}
  <2>1. \A x \in First(b) .. Size(b) - 1 :
           Extra(c, x).is_fixed <=> x = id \/ Extra(b, x).is_fixed
    BY <1>8, TakenIs
  <2> QED
    BY <1>7, <2>1 DEF Open
<1>11. Typed(c, V)
  <2>1. \A s \in 0 .. NUM_EXTRAS - 1 : s >= Size(b) => ~ e[s].is_fixed
    <3> SUFFICES ASSUME NEW s \in 0 .. NUM_EXTRAS - 1, s >= Size(b) PROVE ~ e[s].is_fixed
      OBVIOUS
    <3>1. id < NUM_EXTRAS /\ id < Size(b)
      BY <1>9, Sizes
    <3>2. Slot(id) = id
      BY <1>9, <3>1, SlotRange
    <3>3. s # Slot(id)
      BY <1>9, <3>1, <3>2
    <3>4. ~ b.extras[s].is_fixed
      BY <1>1 DEF Typed
    <3> QED
      BY <1>3, <3>3, <3>4
  <2> QED
    BY <1>1, <1>3, <1>5, <1>6, <1>7, <2>1 DEF Typed
<1>12. PICK S : S = Open(b)
  OBVIOUS
<1>13. /\ S \in SUBSET Nat /\ id \in S
       /\ \A x \in S : x \in First(b) .. Size(b) - 1 /\ x \in 0 .. Size(b) - 1
  BY <1>1, <1>12, TypedIs
<1>14. Nexts(b)[id] = Extra(b, id).next /\ Prevs(b)[id] = Extra(b, id).prev
  BY <1>9 DEF Nexts, Prevs
<1>15. ASSUME NEW x \in S \ {id}
       PROVE  /\ Nexts(c)[x] = IF x = Prevs(b)[id] THEN Nexts(b)[id] ELSE Nexts(b)[x]
              /\ Prevs(c)[x] = IF x = Nexts(b)[id] THEN Prevs(b)[id] ELSE Prevs(b)[x]
  <2>1. x \in First(b) .. Size(b) - 1 /\ x \in 0 .. Size(b) - 1
    BY <1>13
  <2>2. /\ Nexts(c)[x] = Extra(c, x).next /\ Prevs(c)[x] = Extra(c, x).prev
        /\ Nexts(b)[x] = Extra(b, x).next /\ Prevs(b)[x] = Extra(b, x).prev
    BY <1>7, <2>1 DEF Nexts, Prevs
  <2>3. PICK p : p = Extra(b, id).prev
    OBVIOUS
  <2>4. PICK w : w = Extra(b, id).next
    OBVIOUS
  <2>5. /\ Extra(c, x).prev = IF x = w THEN p ELSE Extra(b, x).prev
        /\ Extra(c, x).next = IF x = p THEN w ELSE Extra(b, x).next
    BY <1>8, <2>1, <2>3, <2>4, TakenIs
  <2> QED
    BY <1>14, <2>2, <2>3, <2>4, <2>5
<1>16. Circle(S, Nexts(b), Prevs(b)) /\ FirstOf(S, Size(b), b.extras_head)
  BY <1>12 DEF Ring
<1>17. Circle(S \ {id}, Nexts(c), Prevs(c))
  BY <1>13, <1>15, <1>16, CircleLess
<1>18. FirstOf(S \ {id}, Size(b), h)
  <2>1. h = IF id # b.extras_head THEN b.extras_head
            ELSE IF Nexts(b)[id] = id THEN Size(b) ELSE Nexts(b)[id]
    BY <1>4, <1>14
  <2> QED
    BY <1>13, <1>16, <2>1, HeadLess
<1> QED
  BY <1>6, <1>7, <1>10, <1>11, <1>12, <1>17, <1>18 DEF Ring

--------
(***************************************************************************)
(* Fixing a block.                                                         *)
(***************************************************************************)

\* Builders whose lists are the same.
Alike(b, c, V) ==
    /\ c = [units |-> c.units, extras_head |-> c.extras_head, table |-> c.table,
            extras |-> c.extras]
    /\ c.extras_head = b.extras_head
    /\ c.units \in Seq(UnitSet(V)) /\ Len(c.units) = Len(b.units)
    /\ c.extras \in [0 .. NUM_EXTRAS - 1 -> ExtraSet(Size(b))]
    /\ \A s \in 0 .. NUM_EXTRAS - 1 :
          /\ c.extras[s].prev = b.extras[s].prev /\ c.extras[s].next = b.extras[s].next
          /\ c.extras[s].is_fixed <=> b.extras[s].is_fixed

\* Marking extras as used and changing units leaves the list alone.
LEMMA SameList ==
    ASSUME NEW b, NEW c, NEW V, Ring(b, V), Alike(b, c, V)
    PROVE  Ring(c, V) /\ Open(c) = Open(b) /\ Size(c) = Size(b)
<1>1. /\ c.extras_head = b.extras_head /\ Len(c.units) = Len(b.units)
      /\ \A s \in 0 .. NUM_EXTRAS - 1 :
            /\ c.extras[s].prev = b.extras[s].prev /\ c.extras[s].next = b.extras[s].next
            /\ c.extras[s].is_fixed <=> b.extras[s].is_fixed
  BY DEF Alike
<1>2. Size(c) = Size(b) /\ First(c) = First(b)
  BY <1>1 DEF Size, First
<1>3. Typed(b, V)
  BY DEF Ring
<1>4. \A x \in Nat : /\ Extra(c, x).prev = Extra(b, x).prev /\ Extra(c, x).next = Extra(b, x).next
                     /\ (Extra(c, x).is_fixed <=> Extra(b, x).is_fixed)
  <2>1. \A x \in Nat : Slot(x) \in 0 .. NUM_EXTRAS - 1
    BY SlotRange
  <2> QED
    BY <1>1, <2>1 DEF Extra
<1>5. Open(c) = Open(b)
  <2>1. First(b) \in Nat /\ Size(b) \in Nat
    BY <1>3, TypedIs
  <2>2. \A x \in First(b) .. Size(b) - 1 : x \in Nat
    BY <2>1
  <2> QED
    BY <1>2, <1>4, <2>2 DEF Open
<1>6. Nexts(c) = Nexts(b) /\ Prevs(c) = Prevs(b)
  <2>1. \A x \in 0 .. Size(b) - 1 : x \in Nat
    BY <1>3, TypedIs
  <2> QED
    BY <1>2, <1>4, <2>1 DEF Nexts, Prevs
<1>7. Typed(c, V)
  <2>1. \A s \in 0 .. NUM_EXTRAS - 1 : s >= Size(b) => ~ c.extras[s].is_fixed
    BY <1>1, <1>3 DEF Typed
  <2> QED
    BY <1>1, <1>2, <1>3, <2>1 DEF Typed, Alike
<1> QED
  BY <1>1, <1>2, <1>5, <1>6, <1>7 DEF Ring

\* The exclusive or of two ids leaves a rest that is a label.
LEMMA RestIsLabel ==
    ASSUME NEW a \in Nat, NEW b \in Nat
    PROVE  (a ^^ b) % BLOCK_SIZE \in 0 .. BLOCK_SIZE - 1
<1>1. PICK x \in Nat : x = a ^^ b
  BY XorNat
<1>2. PICK m \in Nat \ {0} : m = BLOCK_SIZE
  BY Sizes
<1>3. x % m \in 0 .. m - 1
  OBVIOUS
<1> QED
  BY <1>1, <1>2, <1>3

\* Unit i with that label.
Relabelled(b, i, label) == [b EXCEPT !.units[i].label = label]

\* The label of a unit is set.
LEMMA LabelSet ==
    ASSUME NEW b, NEW V, Ring(b, V), NEW i, NEW label \in 0 .. BLOCK_SIZE - 1,
           NEW c, c = Relabelled(b, i, label)
    PROVE  Ring(c, V) /\ Open(c) = Open(b) /\ Size(c) = Size(b) /\ c.table = b.table
<1>1. Typed(b, V)
  BY DEF Ring
<1>2. PICK u : u = [b.units EXCEPT ![i].label = label]
  OBVIOUS
<1>3. PICK v \in Seq(UnitSet(V)) : v = b.units
  BY <1>1 DEF Typed
<1>4. u \in Seq(UnitSet(V)) /\ Len(u) = Len(b.units)
  <2>1. u = [v EXCEPT ![i].label = label]
    BY <1>2, <1>3
  <2>2. \A x \in UnitSet(V) : [x EXCEPT !.label = label] \in UnitSet(V)
    BY DEF UnitSet
  <2>3. PICK n \in Nat : n = Len(v)
    OBVIOUS
  <2>4. v \in [1 .. n -> UnitSet(V)]
    BY <2>3
  <2>5. u \in [1 .. n -> UnitSet(V)]
    BY <2>1, <2>2, <2>4
  <2>6. u \in Seq(UnitSet(V)) /\ Len(u) = n
    BY <2>5, FunctionIsSeq
  <2> QED
    BY <1>3, <2>3, <2>6
<1>5. c = [units |-> u, extras_head |-> b.extras_head, table |-> b.table, extras |-> b.extras]
  <2>1. b = [units |-> b.units, extras_head |-> b.extras_head, table |-> b.table,
             extras |-> b.extras]
    BY <1>1 DEF Typed
  <2>2. c = [b EXCEPT !.units = u]
    BY <1>2 DEF Relabelled
  <2> QED
    BY <2>1, <2>2
<1>6. b.extras \in [0 .. NUM_EXTRAS - 1 -> ExtraSet(Size(b))]
  BY <1>1 DEF Typed
<1>7. c.table = b.table
  BY <1>5
<1>8. Alike(b, c, V)
  BY <1>4, <1>5, <1>6 DEF Alike
<1> QED
  BY <1>7, <1>8, SameList

\* The loop of fix_block: one unit, and the n-th turn.
FixOne(b, id, base) ==
    IF Extra(b, id).is_fixed THEN b
    ELSE [Take(b, id) EXCEPT !.units[id + 1].label = (id ^^ base) % BLOCK_SIZE]

FixTurn(b, begin, base, h, n) == IF n = 0 THEN b ELSE FixOne(h[n - 1], begin + n - 1, base)

IsFixRun(b, begin, base, K, h) == h = [n \in 0 .. K |-> FixTurn(b, begin, base, h, n)]

\* The recursion that stands for that loop has a solution.
LEMMA FixRuns ==
    ASSUME NEW b, NEW begin, NEW base, NEW K \in Nat
    PROVE  \E h : IsFixRun(b, begin, base, K, h)
<1> DEFINE Runs(m) == \E h : h = [n \in 0 .. m |-> FixTurn(b, begin, base, h, n)]
           Stuck == {m \in 0 .. K : ~ Runs(m)}
<1>1. Runs(0)
  <2>1. PICK x : x = FixTurn(b, begin, base, <<>>, 0)
    OBVIOUS
  <2>2. PICK h : h = [n \in 0 .. 0 |-> x]
    OBVIOUS
  <2>3. \A n \in 0 .. 0 : FixTurn(b, begin, base, h, n) = x
    BY <2>1 DEF FixTurn
  <2> QED
    BY <2>2, <2>3
<1>2. ASSUME NEW m \in 1 .. K, Runs(m - 1) PROVE Runs(m)
  <2>1. PICK h : h = [n \in 0 .. m - 1 |-> FixTurn(b, begin, base, h, n)]
    BY <1>2
  <2>2. PICK g : g = [n \in 0 .. m |-> IF n < m THEN h[n] ELSE FixTurn(b, begin, base, h, m)]
    OBVIOUS
  <2>3. ASSUME NEW n \in 0 .. m PROVE g[n] = FixTurn(b, begin, base, g, n)
    <3>1. n # 0 => n - 1 \in 0 .. m - 1 /\ g[n - 1] = h[n - 1]
      BY <2>2
    <3>2. FixTurn(b, begin, base, g, n) = FixTurn(b, begin, base, h, n)
      BY <3>1 DEF FixTurn
    <3>3. CASE n < m
      <4>1. n \in 0 .. m - 1
        BY <3>3
      <4> QED
        BY <2>1, <2>2, <3>2, <3>3, <4>1
    <3>4. CASE n = m
      BY <2>2, <3>2, <3>4
    <3> QED
      BY <3>3, <3>4
  <2>4. g = [n \in 0 .. m |-> FixTurn(b, begin, base, g, n)]
    BY <2>2, <2>3
  <2> QED
    BY <2>4
<1> HIDE DEF Runs
<1>3. Stuck = {}
  <2> SUFFICES ASSUME Stuck # {} PROVE FALSE
    OBVIOUS
  <2> Stuck \in SUBSET Nat
    OBVIOUS
  <2>1. PICK m \in Stuck : \A n \in Stuck : ~ (n < m)
    BY LeastNumber
  <2>2. m \in 1 .. K /\ m - 1 \in 0 .. K /\ m - 1 < m
    BY <1>1, <2>1
  <2>3. Runs(m - 1)
    BY <2>1, <2>2
  <2> QED
    BY <1>2, <2>1, <2>2, <2>3
<1>4. Runs(K)
  BY <1>3
<1> QED
  BY <1>4 DEF Runs, IsFixRun

\* What a turn leaves, and whether the list is whole then.
LeftOpen(b, c, V, taken) ==
    Ring(c, V) /\ Size(c) = Size(b) /\ c.table = b.table /\ Open(c) = Open(b) \ taken

\* One turn takes its unit, if that is free.
LEMMA FixTurnIs ==
    ASSUME NEW b, NEW V, Ring(b, V), NEW id \in First(b) .. Size(b) - 1, NEW base \in Nat,
           NEW c, c = FixOne(b, id, base)
    PROVE  LeftOpen(b, c, V, {id})
<1>1. CASE Extra(b, id).is_fixed
  <2>1. c = b /\ id \notin Open(b)
    BY <1>1 DEF Open, FixOne
  <2> QED
    BY <2>1 DEF LeftOpen
<1>2. CASE ~ Extra(b, id).is_fixed
  <2>1. id \in Open(b)
    BY <1>2 DEF Open
  <2>2. PICK d : d = Take(b, id)
    OBVIOUS
  <2>3. Ring(d, V) /\ d.units = b.units /\ d.table = b.table /\ Open(d) = Open(b) \ {id}
    BY <2>1, <2>2, TakeIs
  <2>4. Typed(b, V)
    BY DEF Ring
  <2>5. id \in Nat
    BY <2>4, TypedIs
  <2>6. PICK label \in 0 .. BLOCK_SIZE - 1 : label = (id ^^ base) % BLOCK_SIZE
    BY <2>5, RestIsLabel
  <2>7. PICK i : i = id + 1
    OBVIOUS
  <2>8. c = Relabelled(d, i, label)
    BY <1>2, <2>2, <2>6, <2>7 DEF Relabelled, FixOne
  <2>9. Ring(c, V) /\ Open(c) = Open(d) /\ Size(c) = Size(d) /\ c.table = d.table
    BY <2>3, <2>6, <2>8, LabelSet
  <2>10. Size(d) = Size(b)
    BY <2>3 DEF Size
  <2> QED
    BY <2>3, <2>9, <2>10 DEF LeftOpen
<1> QED
  BY <1>1, <1>2

\* fix_block takes what is free of its block.
LEMMA FixUnitsIs ==
    ASSUME NEW b, NEW V, Ring(b, V), NEW block, NEW begin \in Nat, begin = block * BLOCK_SIZE,
           First(b) <= begin, begin + BLOCK_SIZE <= Size(b), NEW base \in Nat,
           NEW c, c = FixUnits(b, block, base)
    PROVE  LeftOpen(b, c, V, begin .. begin + BLOCK_SIZE - 1)
<1>1. PICK K \in Nat : K = BLOCK_SIZE
  BY Sizes
<1>2. Typed(b, V)
  BY DEF Ring
<1>3. First(b) \in Nat /\ Size(b) \in Nat
  BY <1>2, TypedIs
<1>4. PICK h : h = CHOOSE g : IsFixRun(b, begin, base, K, g)
  OBVIOUS
<1>5. IsFixRun(b, begin, base, K, h)
  BY <1>4, FixRuns
<1>6. c = h[K]
  BY <1>1, <1>4 DEF FixUnits, IsFixRun, FixTurn, FixOne
<1> DEFINE Good(m) == LeftOpen(b, h[m], V, begin .. begin + m - 1)
           Bad == {m \in 0 .. K : ~ Good(m)}
<1>7. \A m \in 0 .. K : h[m] = FixTurn(b, begin, base, h, m)
  BY <1>5 DEF IsFixRun
<1>8. Good(0)
  <2>1. h[0] = b
    <3>1. 0 \in 0 .. K
      OBVIOUS
    <3>2. h[0] = FixTurn(b, begin, base, h, 0)
      BY <1>7, <3>1
    <3> QED
      BY <3>2 DEF FixTurn
  <2>2. begin .. begin + 0 - 1 = {}
    OBVIOUS
  <2> QED
    BY <2>1, <2>2 DEF LeftOpen
<1>9. ASSUME NEW m \in 1 .. K, Good(m - 1) PROVE Good(m)
  <2>1. PICK d : d = h[m - 1]
    OBVIOUS
  <2>2. PICK id \in Nat : id = begin + m - 1
    OBVIOUS
  <2>3. LeftOpen(b, d, V, begin .. id - 1)
    BY <1>9, <2>1, <2>2
  <2>4. Ring(d, V) /\ Size(d) = Size(b) /\ First(d) = First(b)
    BY <2>3 DEF LeftOpen, First
  <2>5. id \in First(d) .. Size(d) - 1
    BY <1>1, <1>3, <2>2, <2>4
  <2>6. PICK e : e = h[m]
    OBVIOUS
  <2>7. e = FixOne(d, id, base)
    BY <1>7, <2>1, <2>2, <2>6 DEF FixTurn
  <2>8. LeftOpen(d, e, V, {id})
    BY <2>4, <2>5, <2>7, FixTurnIs
  <2>9. begin .. begin + m - 1 = (begin .. id - 1) \union {id}
    BY <2>2
  <2> QED
    BY <2>3, <2>6, <2>8, <2>9 DEF LeftOpen
<1> HIDE DEF Good
<1>10. Bad = {}
  <2> SUFFICES ASSUME Bad # {} PROVE FALSE
    OBVIOUS
  <2> Bad \in SUBSET Nat
    OBVIOUS
  <2>1. PICK m \in Bad : \A n \in Bad : ~ (n < m)
    BY LeastNumber
  <2>2. m \in 1 .. K /\ m - 1 \in 0 .. K /\ m - 1 < m
    BY <1>8, <2>1
  <2>3. Good(m - 1)
    BY <2>1, <2>2
  <2> QED
    BY <1>9, <2>1, <2>2, <2>3
<1>11. Good(K)
  BY <1>10
<1> QED
  BY <1>1, <1>6, <1>11 DEF Good

\* fix_block fixes its block, whatever base it finds.
LEMMA FixBlockIs ==
    ASSUME NEW b, NEW V, Ring(b, V), NEW block \in Nat, NEW begin \in Nat,
           begin = block * BLOCK_SIZE, First(b) <= begin, begin + BLOCK_SIZE <= Size(b),
           NEW c, c = FixBlock(b, block)
    PROVE  LeftOpen(b, c, V, begin .. begin + BLOCK_SIZE - 1)
<1>1. PICK m \in Nat \ {0} : m = BLOCK_SIZE
  BY Sizes
<1>2. PICK unused : unused = {id \in block * BLOCK_SIZE .. (block + 1) * BLOCK_SIZE - 1 :
                                ~ Extra(b, id).is_used}
  OBVIOUS
<1>3. unused \in SUBSET Nat
  <2>1. \A id \in block * m .. (block + 1) * m - 1 : id \in Nat
    OBVIOUS
  <2> QED
    BY <1>1, <1>2, <2>1
<1>4. PICK base : base = IF unused = {} THEN 0
                         ELSE CHOOSE id \in unused : \A i \in unused : id <= i
  OBVIOUS
<1>5. base \in Nat
  <2>1. CASE unused = {}
    BY <1>4, <2>1
  <2>2. CASE unused # {}
    <3>1. PICK id \in unused : \A i \in unused : ~ (i < id)
      BY <1>3, <2>2, LeastNumber
    <3>2. \E x \in unused : \A i \in unused : x <= i
      <4>1. \A i \in unused : i \in Nat /\ id \in Nat
        BY <1>3, <3>1
      <4> QED
        BY <3>1, <4>1
    <3> QED
      BY <1>3, <1>4, <2>2, <3>2
  <2> QED
    BY <2>1, <2>2
<1>6. c = FixUnits(b, block, base)
  BY <1>2, <1>4 DEF FixBlock
<1> QED
  BY <1>5, <1>6, FixUnitsIs

\* What LinkBlock makes of the extras: the new block's, and the others.
LinkedNew(b, e, fresh, t) ==
    \A x \in Size(b) .. Size(b) + BLOCK_SIZE - 1 :
       /\ e[Slot(x)].next = IF x = Size(b) + BLOCK_SIZE - 1 THEN b.extras_head ELSE x + 1
       /\ e[Slot(x)].prev = IF x = Size(b) THEN t ELSE x - 1
       /\ e[Slot(x)].is_fixed <=> Extra(b, x).is_fixed /\ ~ fresh

LinkedOld(b, e, t) ==
    \A x \in Oldest(Size(b) + BLOCK_SIZE) .. Size(b) - 1 :
       /\ e[Slot(x)].next = IF x = t THEN Size(b) ELSE Extra(b, x).next
       /\ e[Slot(x)].prev = IF x = b.extras_head THEN Size(b) + BLOCK_SIZE - 1
                            ELSE Extra(b, x).prev
       /\ e[Slot(x)].is_fixed <=> Extra(b, x).is_fixed

\* The slots of a new block, and which others are those of older units.
LEMMA NewSlots ==
    ASSUME NEW b, NEW V, Typed(b, V)
    PROVE  /\ Slot(Size(b)) \in Nat
           /\ Slot(Size(b)) + BLOCK_SIZE - 1 \in 0 .. NUM_EXTRAS - 1
           /\ \A i \in 0 .. BLOCK_SIZE - 1 : Slot(Size(b) + i) = Slot(Size(b)) + i
           /\ \A x \in Oldest(Size(b) + BLOCK_SIZE) .. Size(b) - 1 :
                 /\ x \in Nat
                 /\ Slot(x) \notin Slot(Size(b)) .. Slot(Size(b)) + BLOCK_SIZE - 1
           /\ \A x, y \in Oldest(Size(b) + BLOCK_SIZE) .. Size(b) + BLOCK_SIZE - 1 :
                 Slot(x) = Slot(y) => x = y
<1>1. PICK k \in Nat : Size(b) = BLOCK_SIZE * k
  BY DEF Typed
<1>2. PICK m \in Nat \ {0}, n \in Nat \ {0} : m = BLOCK_SIZE /\ n = NUM_EXTRAS /\ m <= n
  BY Sizes
<1>3. PICK src \in Nat : src = Size(b)
  BY TypedIs
<1>4. \A i \in 0 .. m - 1 : Slot(src) + i \in 0 .. n - 1 /\ Slot(src + i) = Slot(src) + i
  BY <1>1, <1>2, <1>3, SlotInBlock
<1>5. Slot(src) \in 0 .. n - 1
  BY <1>2, <1>3, SlotRange
<1>6. Slot(src) + m - 1 \in 0 .. n - 1
  <2>1. m - 1 \in 0 .. m - 1
    BY <1>2
  <2>2. Slot(src) + (m - 1) \in 0 .. n - 1
    BY <1>4, <2>1
  <2> QED
    BY <1>2, <1>5, <2>2
<1>7. PICK lo \in Nat : lo = Oldest(Size(b) + BLOCK_SIZE) /\ src + m - lo <= n
  <2>1. Oldest(src + m) \in Nat /\ src + m - Oldest(src + m) <= n
    BY <1>2 DEF Oldest
  <2> QED
    BY <1>2, <1>3, <2>1
<1>8. ASSUME NEW x \in lo .. src + m - 1, NEW y \in lo .. src + m - 1, Slot(x) = Slot(y)
      PROVE x = y
  <2>1. x \in Nat /\ y \in Nat /\ x - y < n /\ y - x < n
    BY <1>2, <1>7
  <2> QED
    BY <1>2, <1>8, <2>1, SlotApart
<1>9. ASSUME NEW x \in lo .. src - 1
      PROVE  x \in Nat /\ Slot(x) \notin Slot(src) .. Slot(src) + m - 1
  <2>1. x \in Nat
    BY <1>7
  <2>2. ASSUME Slot(x) \in Slot(src) .. Slot(src) + m - 1 PROVE FALSE
    <3>1. PICK i \in 0 .. m - 1 : Slot(x) = Slot(src) + i
      <4>1. PICK p \in Nat : p = Slot(src)
        BY <1>5
      <4>2. PICK q \in p .. p + m - 1 : q = Slot(x)
        BY <2>2, <4>1
      <4>3. q - p \in 0 .. m - 1 /\ q = p + (q - p)
        BY <4>1, <4>2
      <4> QED
        BY <4>1, <4>2, <4>3
    <3>2. Slot(x) = Slot(src + i)
      BY <1>4, <3>1
    <3>3. src + i \in lo .. src + m - 1 /\ x \in lo .. src + m - 1 /\ x # src + i
      BY <1>2, <1>7, <3>1
    <3> QED
      BY <1>8, <3>2, <3>3
  <2> QED
    BY <2>1, <2>2
<1>10. \A x \in lo .. src - 1 : x \in Nat /\ Slot(x) \notin Slot(src) .. Slot(src) + m - 1
  BY <1>9
<1>11. \A x, y \in lo .. src + m - 1 : Slot(x) = Slot(y) => x = y
  BY <1>8
<1> QED
  BY <1>2, <1>3, <1>4, <1>5, <1>6, <1>7, <1>10, <1>11

--------
(***************************************************************************)
(* A new block joins the list.                                             *)
(***************************************************************************)

\* The records of a builder's extras when a unit more may be next.
LEMMA WiderExtras ==
    ASSUME NEW n \in Nat, NEW m \in Nat, NEW e \in ExtraSet(n)
    PROVE  e \in ExtraSet(n + m)
<1>1. 0 .. n \subseteq 0 .. n + m
  OBVIOUS
<1> QED
  BY <1>1 DEF ExtraSet

\* The new block's circle, before it is tied to the list: ring in LinkBlock.
OwnCircle(extras, src, g, fresh) ==
    /\ \A i \in 0 .. BLOCK_SIZE - 1 :
          /\ g[Slot(src) + i].prev = IF i = 0 THEN src + BLOCK_SIZE - 1 ELSE src + i - 1
          /\ g[Slot(src) + i].next = IF i = BLOCK_SIZE - 1 THEN src ELSE src + i + 1
          /\ g[Slot(src) + i].is_fixed <=> extras[Slot(src) + i].is_fixed /\ ~ fresh
    /\ \A s \in 0 .. NUM_EXTRAS - 1 :
          s \notin Slot(src) .. Slot(src) + BLOCK_SIZE - 1 => g[s] = extras[s]

OwnRing(extras, src, last, fresh) ==
    [s \in DOMAIN extras |->
       LET id == src + s - Slot(src)
       IN  IF id \in src .. last
           THEN [extras[s] EXCEPT
                   !.prev = IF id = src THEN last ELSE id - 1,
                   !.next = IF id = last THEN src ELSE id + 1,
                   !.is_fixed = @ /\ ~ fresh,
                   !.is_used = @ /\ ~ fresh]
           ELSE extras[s]]

\* The first step of LinkBlock.
LEMMA OwnCircleIs ==
    ASSUME NEW n \in Nat, NEW extras \in [0 .. NUM_EXTRAS - 1 -> ExtraSet(n)],
           NEW src \in Nat, src = n, Slot(src) + BLOCK_SIZE - 1 \in 0 .. NUM_EXTRAS - 1,
           NEW fresh \in BOOLEAN, NEW last, last = src + BLOCK_SIZE - 1,
           NEW g, g = OwnRing(extras, src, last, fresh)
    PROVE  /\ g \in [0 .. NUM_EXTRAS - 1 -> ExtraSet(n + BLOCK_SIZE)]
           /\ OwnCircle(extras, src, g, fresh)
<1>1. PICK m \in Nat \ {0}, N \in Nat \ {0} : m = BLOCK_SIZE /\ N = NUM_EXTRAS
  BY Sizes
<1>2. PICK p \in Nat : p = Slot(src)
  <2>1. Slot(src) \in 0 .. N - 1
    BY <1>1, SlotRange
  <2> QED
    BY <1>1, <2>1
<1>3. DOMAIN extras = 0 .. N - 1
  BY <1>1
<1>4. ASSUME NEW s \in 0 .. N - 1
      PROVE  /\ g[s] \in ExtraSet(n + m)
             /\ s \in p .. p + m - 1 =>
                  /\ g[s].prev = IF src + s - p = src THEN last ELSE src + s - p - 1
                  /\ g[s].next = IF src + s - p = last THEN src ELSE src + s - p + 1
                  /\ g[s].is_fixed <=> extras[s].is_fixed /\ ~ fresh
             /\ s \notin p .. p + m - 1 => g[s] = extras[s]
  <2>1. PICK id \in Int : id = src + s - p
    <3>1. src + s - p \in Int
      BY <1>1, <1>2, s \in Int
    <3> QED
      BY <3>1
  <2>2. PICK x \in ExtraSet(n) : x = extras[s]
    BY <1>1
  <2>3. PICK v : v = (x.is_fixed /\ ~ fresh)
    OBVIOUS
  <2>4. PICK u : u = (x.is_used /\ ~ fresh)
    OBVIOUS
  <2>5. g[s] = IF id \in src .. last
               THEN [x EXCEPT !.prev = IF id = src THEN last ELSE id - 1,
                              !.next = IF id = last THEN src ELSE id + 1,
                              !.is_fixed = v, !.is_used = u]
               ELSE x
    BY <1>1, <1>2, <1>3, <2>1, <2>2, <2>3, <2>4 DEF OwnRing
  <2>6. v \in BOOLEAN /\ u \in BOOLEAN
    BY <2>3, <2>4
  <2>7. id \in src .. last <=> s \in p .. p + m - 1
    BY <1>1, <1>2, <2>1
  <2>8. CASE s \in p .. p + m - 1
    <3>1. PICK pr \in Nat : pr = IF id = src THEN last ELSE id - 1
      <4>1. id \in src .. last /\ last \in Nat
        BY <1>1, <2>1, <2>7, <2>8
      <4> QED
        BY <4>1
    <3>2. PICK ne \in 0 .. n + m : ne = IF id = last THEN src ELSE id + 1
      <4>1. id \in src .. last /\ last \in Nat /\ last = src + m - 1
        BY <1>1, <2>1, <2>7, <2>8
      <4> QED
        BY <1>1, <4>1
    <3>3. x = [prev |-> x.prev, next |-> x.next, is_fixed |-> x.is_fixed, is_used |-> x.is_used]
      BY DEF ExtraSet
    <3>4. g[s] = [x EXCEPT !.prev = pr, !.next = ne, !.is_fixed = v, !.is_used = u]
      BY <2>5, <2>7, <2>8, <3>1, <3>2
    <3>5. g[s] = [prev |-> pr, next |-> ne, is_fixed |-> v, is_used |-> u]
      BY <3>3, <3>4
    <3>6. g[s] \in ExtraSet(n + m)
      BY <2>6, <3>1, <3>2, <3>5 DEF ExtraSet
    <3>7. g[s].prev = pr /\ g[s].next = ne /\ g[s].is_fixed = v
      BY <3>5
    <3>8. g[s].is_fixed <=> extras[s].is_fixed /\ ~ fresh
      BY <2>2, <2>3, <3>7
    <3> QED
      BY <2>1, <2>8, <3>1, <3>2, <3>6, <3>7, <3>8
  <2>9. CASE s \notin p .. p + m - 1
    <3>1. g[s] = x
      BY <2>5, <2>7, <2>9
    <3>2. x \in ExtraSet(n + m)
      BY <1>1, <2>2, WiderExtras
    <3> QED
      BY <2>2, <2>9, <3>1, <3>2
  <2> QED
    BY <2>8, <2>9
<1>5. g \in [0 .. N - 1 -> ExtraSet(n + m)]
  <2>1. DOMAIN g = 0 .. N - 1 /\ g = [s \in 0 .. N - 1 |-> g[s]]
    BY <1>3 DEF OwnRing
  <2> QED
    BY <1>4, <2>1
<1>6. ASSUME NEW i \in 0 .. m - 1
      PROVE  /\ g[p + i].prev = IF i = 0 THEN src + m - 1 ELSE src + i - 1
             /\ g[p + i].next = IF i = m - 1 THEN src ELSE src + i + 1
             /\ g[p + i].is_fixed <=> extras[p + i].is_fixed /\ ~ fresh
  <2>1. PICK s \in 0 .. N - 1 : s = p + i /\ s \in p .. p + m - 1
    BY <1>1, <1>2
  <2>2. src + s - p = src + i /\ src + i \in Nat /\ last = src + m - 1
    BY <1>1, <1>2, <2>1
  <2>3. (src + i = src <=> i = 0) /\ (src + i = last <=> i = m - 1)
    BY <1>1, <2>2
  <2> QED
    BY <1>4, <2>1, <2>2, <2>3
<1>7. OwnCircle(extras, src, g, fresh)
  BY <1>1, <1>2, <1>4, <1>6 DEF OwnCircle
<1> QED
  BY <1>1, <1>5, <1>7

\* The other steps of LinkBlock: its block's circle and the list become one.
Tie(g, s0, s1, sh, src, last, head) ==
    LET open == [g EXCEPT ![s0].prev = g[sh].prev, ![s1].next = head]
        tied == [open EXCEPT ![Slot(open[sh].prev)].next = src]
    IN  [tied EXCEPT ![sh].prev = last]

\* What they change, slot by slot.
Tied(g, e, s0, s1, sh, src, last, head, t) ==
    \A s \in 0 .. NUM_EXTRAS - 1 :
       /\ e[s].prev = IF s = sh THEN last ELSE IF s = s0 THEN t ELSE g[s].prev
       /\ e[s].next = IF s = Slot(t) THEN src ELSE IF s = s1 THEN head ELSE g[s].next
       /\ e[s].is_fixed <=> g[s].is_fixed

TieTyped(n, g, s0, s1, sh, src, last, head) ==
    /\ n \in Nat /\ g \in [0 .. NUM_EXTRAS - 1 -> ExtraSet(n)]
    /\ s0 \in 0 .. NUM_EXTRAS - 1 /\ s1 \in 0 .. NUM_EXTRAS - 1 /\ sh \in 0 .. NUM_EXTRAS - 1
    /\ src \in 0 .. n /\ last \in Nat /\ head \in 0 .. n

\* That is what it makes of them.
LEMMA TieIs ==
    ASSUME NEW n, NEW g, NEW s0, NEW s1, NEW sh, NEW src, NEW last, NEW head,
           TieTyped(n, g, s0, s1, sh, src, last, head), NEW t, t = g[sh].prev,
           NEW e, e = Tie(g, s0, s1, sh, src, last, head)
    PROVE  /\ t \in Nat /\ Slot(t) \in 0 .. NUM_EXTRAS - 1
           /\ e \in [0 .. NUM_EXTRAS - 1 -> ExtraSet(n)]
           /\ Tied(g, e, s0, s1, sh, src, last, head, t)
<1> /\ n \in Nat /\ g \in [0 .. NUM_EXTRAS - 1 -> ExtraSet(n)]
    /\ s0 \in 0 .. NUM_EXTRAS - 1 /\ s1 \in 0 .. NUM_EXTRAS - 1 /\ sh \in 0 .. NUM_EXTRAS - 1
    /\ src \in 0 .. n /\ last \in Nat /\ head \in 0 .. n
  BY DEF TieTyped
<1> DEFINE N == NUM_EXTRAS - 1
<1>1. t \in Nat
  BY DEF ExtraSet
<1>2. PICK st \in 0 .. N : st = Slot(t)
  BY <1>1, SlotRange
<1>3. PICK f : f = [g EXCEPT ![s0].prev = t]
  OBVIOUS
<1>4. /\ f \in [0 .. N -> ExtraSet(n)]
      /\ \A s \in 0 .. N : /\ f[s].prev = IF s = s0 THEN t ELSE g[s].prev
                           /\ f[s].next = g[s].next
                           /\ f[s].is_fixed = g[s].is_fixed
  BY <1>1, <1>3 DEF ExtraSet
<1>5. PICK o : o = [f EXCEPT ![s1].next = head]
  OBVIOUS
<1>6. /\ o \in [0 .. N -> ExtraSet(n)]
      /\ \A s \in 0 .. N : o[s] = IF s = s1 THEN [f[s] EXCEPT !.next = head] ELSE f[s]
  <2>1. \A x \in ExtraSet(n) : [x EXCEPT !.next = head] \in ExtraSet(n)
    BY DEF ExtraSet
  <2> QED
    BY <1>4, <1>5, <2>1
<1>7. ASSUME NEW s \in 0 .. N
       PROVE  /\ o[s].prev = f[s].prev /\ o[s].is_fixed = f[s].is_fixed
              /\ o[s].next = IF s = s1 THEN head ELSE f[s].next
  <2>1. f[s] \in ExtraSet(n)
    BY <1>4
  <2>2. CASE s = s1
    <3>1. PICK x \in ExtraSet(n) : x = f[s]
      BY <2>1
    <3>2. o[s] = [x EXCEPT !.next = head]
      BY <1>6, <2>2, <3>1
    <3> QED
      BY <2>2, <3>1, <3>2 DEF ExtraSet
  <2>3. CASE s # s1
    BY <1>6, <2>3
  <2> QED
    BY <2>2, <2>3
<1>8. o = [g EXCEPT ![s0].prev = g[sh].prev, ![s1].next = head]
  BY <1>3, <1>5
<1>9. o[sh].prev = t
  BY <1>4, <1>7
<1>10. PICK w : w = [o EXCEPT ![st].next = src]
  OBVIOUS
<1>11. /\ w \in [0 .. N -> ExtraSet(n)]
       /\ \A s \in 0 .. N : w[s] = IF s = st THEN [o[s] EXCEPT !.next = src] ELSE o[s]
  <2>1. \A x \in ExtraSet(n) : [x EXCEPT !.next = src] \in ExtraSet(n)
    BY DEF ExtraSet
  <2> QED
    BY <1>2, <1>6, <1>10, <2>1
<1>12. ASSUME NEW s \in 0 .. N
       PROVE  /\ w[s].prev = o[s].prev /\ w[s].is_fixed = o[s].is_fixed
              /\ w[s].next = IF s = st THEN src ELSE o[s].next
  <2>1. o[s] \in ExtraSet(n)
    BY <1>6
  <2>2. CASE s = st
    <3>1. PICK x \in ExtraSet(n) : x = o[s]
      BY <2>1
    <3>2. w[s] = [x EXCEPT !.next = src]
      BY <1>11, <2>2, <3>1
    <3> QED
      BY <2>2, <3>1, <3>2 DEF ExtraSet
  <2>3. CASE s # st
    BY <1>11, <2>3
  <2> QED
    BY <2>2, <2>3
<1>13. e = [w EXCEPT ![sh].prev = last]
  BY <1>2, <1>8, <1>9, <1>10, ZenonT(40) DEF Tie
<1>14. /\ e \in [0 .. N -> ExtraSet(n)]
       /\ \A s \in 0 .. N : e[s] = IF s = sh THEN [w[s] EXCEPT !.prev = last] ELSE w[s]
  <2>1. \A x \in ExtraSet(n) : [x EXCEPT !.prev = last] \in ExtraSet(n)
    BY DEF ExtraSet
  <2> QED
    BY <1>11, <1>13, <2>1
<1>15. ASSUME NEW s \in 0 .. N
       PROVE  /\ e[s].next = w[s].next /\ e[s].is_fixed = w[s].is_fixed
              /\ e[s].prev = IF s = sh THEN last ELSE w[s].prev
  <2>1. w[s] \in ExtraSet(n)
    BY <1>11
  <2>2. CASE s = sh
    <3>1. PICK x \in ExtraSet(n) : x = w[s]
      BY <2>1
    <3>2. e[s] = [x EXCEPT !.prev = last]
      BY <1>14, <2>2, <3>1
    <3> QED
      BY <2>2, <3>1, <3>2 DEF ExtraSet
  <2>3. CASE s # sh
    BY <1>14, <2>3
  <2> QED
    BY <2>2, <2>3
<1>16. ASSUME NEW s \in 0 .. N
       PROVE  /\ e[s].prev = IF s = sh THEN last ELSE IF s = s0 THEN t ELSE g[s].prev
              /\ e[s].next = IF s = st THEN src ELSE IF s = s1 THEN head ELSE g[s].next
  BY <1>4, <1>7, <1>12, <1>15
<1>17. ASSUME NEW s \in 0 .. N PROVE e[s].is_fixed = g[s].is_fixed
  BY <1>4, <1>7, <1>12, <1>15
<1> QED
  BY <1>1, <1>2, <1>14, <1>16, <1>17 DEF Tied

\* LinkBlock in these two steps.
LEMMA LinkIsTie ==
    ASSUME NEW extras, NEW src, NEW head, NEW fresh, NEW last, last = src + BLOCK_SIZE - 1
    PROVE  LinkBlock(extras, src, head, fresh)
             = Tie(OwnRing(extras, src, last, fresh), Slot(src), Slot(last), Slot(head), src, last,
                   head)
BY DEF LinkBlock, Tie, OwnRing

\* LinkBlock puts the new block between the last free unit and the first.
LEMMA LinkIs ==
    ASSUME NEW b, NEW V, Ring(b, V), Open(b) \subseteq Oldest(Size(b) + BLOCK_SIZE) .. Size(b) - 1,
           NEW fresh \in BOOLEAN,
           NEW e, e = LinkBlock(b.extras, Size(b), b.extras_head, fresh)
    PROVE  \E t : /\ e \in [0 .. NUM_EXTRAS - 1 -> ExtraSet(Size(b) + BLOCK_SIZE)]
                  /\ t = IF Open(b) = {} THEN Size(b) + BLOCK_SIZE - 1
                         ELSE Extra(b, b.extras_head).prev
                  /\ LinkedNew(b, e, fresh, t) /\ LinkedOld(b, e, t)
                  /\ \A s \in 0 .. NUM_EXTRAS - 1 :
                        s \notin Slot(Size(b)) .. Slot(Size(b)) + BLOCK_SIZE - 1 =>
                          (e[s].is_fixed <=> b.extras[s].is_fixed)
<1>1. Typed(b, V)
  BY DEF Ring
<1>2. PICK m \in Nat \ {0}, N \in Nat \ {0} : m = BLOCK_SIZE /\ N = NUM_EXTRAS
  BY Sizes
<1>3. PICK src \in Nat : src = Size(b)
  BY <1>1, TypedIs
<1>4. PICK p \in Nat : p = Slot(src)
  BY <1>1, <1>3, NewSlots
<1>5. p + m - 1 \in 0 .. N - 1 /\ \A i \in 0 .. m - 1 : Slot(src + i) = p + i
  BY <1>1, <1>2, <1>3, <1>4, NewSlots
<1>6. PICK lo : lo = Oldest(src + m)
  OBVIOUS
<1>7. \A x \in lo .. src - 1 : x \in Nat /\ Slot(x) \notin p .. p + m - 1
  BY <1>1, <1>2, <1>3, <1>4, <1>6, NewSlots
<1>8. \A x, y \in lo .. src + m - 1 : Slot(x) = Slot(y) => x = y
  BY <1>1, <1>2, <1>3, <1>6, NewSlots
<1>9. PICK f : f = b.extras
  OBVIOUS
<1>10. f \in [0 .. N - 1 -> ExtraSet(src)] /\ \A x \in Nat : Extra(b, x) = f[Slot(x)]
  BY <1>1, <1>2, <1>3, <1>9 DEF Typed, Extra
<1>11. PICK last \in Nat : last = src + m - 1
  BY <1>2
<1>12. PICK g : g = OwnRing(f, src, last, fresh)
  OBVIOUS
<1>13. g \in [0 .. N - 1 -> ExtraSet(src + m)] /\ OwnCircle(f, src, g, fresh)
  <2>1. Slot(src) + BLOCK_SIZE - 1 \in 0 .. NUM_EXTRAS - 1
    BY <1>2, <1>4, <1>5
  <2>2. f \in [0 .. NUM_EXTRAS - 1 -> ExtraSet(src)]
    BY <1>2, <1>10
  <2>3. last = src + BLOCK_SIZE - 1
    BY <1>2, <1>11
  <2>4. /\ g \in [0 .. NUM_EXTRAS - 1 -> ExtraSet(src + BLOCK_SIZE)]
        /\ OwnCircle(f, src, g, fresh)
    BY <1>3, <1>11, <1>12, <2>1, <2>2, <2>3, OwnCircleIs
  <2> QED
    BY <1>2, <2>4
<1>14. PICK head : head = b.extras_head
  OBVIOUS
<1>15. PICK S : S = Open(b) /\ S \subseteq lo .. src - 1
  BY <1>2, <1>3, <1>6
<1>16. FirstOf(S, src, head)
  BY <1>3, <1>14, <1>15 DEF Ring
<1>17. head \in 0 .. src + m /\ head \in Nat
  BY <1>2, <1>7, <1>15, <1>16 DEF FirstOf
<1>18. PICK sh \in 0 .. N - 1 : sh = Slot(head)
  BY <1>2, <1>17, SlotRange
<1>19. Slot(last) = p + m - 1
  <2>1. m - 1 \in 0 .. m - 1 /\ src + (m - 1) = last /\ p + (m - 1) = p + m - 1
    BY <1>2, <1>4, <1>11
  <2> QED
    BY <1>5, <2>1
<1>20. PICK s1 \in 0 .. N - 1 : s1 = p + m - 1
  BY <1>5
<1>21. e = Tie(g, p, s1, sh, src, last, head)
  BY <1>2, <1>3, <1>4, <1>9, <1>11, <1>12, <1>14, <1>18, <1>19, <1>20, LinkIsTie
<1>22. PICK t : t = g[sh].prev
  OBVIOUS
<1>23. /\ t \in Nat /\ Slot(t) \in 0 .. N - 1
       /\ e \in [0 .. N - 1 -> ExtraSet(src + m)]
       /\ \A s \in 0 .. N - 1 :
             /\ e[s].prev = IF s = sh THEN last ELSE IF s = p THEN t ELSE g[s].prev
             /\ e[s].next = IF s = Slot(t) THEN src ELSE IF s = s1 THEN head ELSE g[s].next
             /\ e[s].is_fixed <=> g[s].is_fixed
  <2>1. p \in 0 .. N - 1 /\ src \in 0 .. src + m
    BY <1>2, <1>4, <1>5
  <2>2. PICK n \in Nat : n = src + m
    BY <1>2
  <2>3. TieTyped(n, g, p, s1, sh, src, last, head)
    BY <1>2, <1>11, <1>13, <1>17, <1>18, <1>20, <2>1, <2>2 DEF TieTyped
  <2>4. /\ t \in Nat /\ Slot(t) \in 0 .. NUM_EXTRAS - 1
        /\ e \in [0 .. NUM_EXTRAS - 1 -> ExtraSet(n)]
        /\ Tied(g, e, p, s1, sh, src, last, head, t)
    BY <1>21, <1>22, <2>3, TieIs
  <2> QED
    BY <1>2, <2>2, <2>4 DEF Tied
<1>24. /\ \A i \in 0 .. m - 1 :
             /\ g[p + i].prev = IF i = 0 THEN src + m - 1 ELSE src + i - 1
             /\ g[p + i].next = IF i = m - 1 THEN src ELSE src + i + 1
             /\ g[p + i].is_fixed <=> f[p + i].is_fixed /\ ~ fresh
       /\ \A s \in 0 .. N - 1 : s \notin p .. p + m - 1 => g[s] = f[s]
  BY <1>2, <1>4, <1>13 DEF OwnCircle
<1>25. ASSUME NEW s \in 0 .. N - 1, s \notin p .. p + m - 1
       PROVE  e[s].is_fixed <=> f[s].is_fixed
  BY <1>23, <1>25, <1>24
<1>26. CASE S = {}
  <2>1. head = src /\ sh = p
    BY <1>4, <1>16, <1>18, <1>26 DEF FirstOf
  <2>2. t = last /\ Slot(t) = s1
    <3>1. 0 \in 0 .. m - 1 /\ p + 0 = p
      BY <1>2, <1>4
    <3>2. g[p].prev = src + m - 1
      BY <1>24, <3>1
    <3> QED
      BY <1>11, <1>19, <1>20, <1>22, <2>1, <3>2
  <2>3. ASSUME NEW x \in src .. src + m - 1
        PROVE  /\ e[Slot(x)].next = IF x = src + m - 1 THEN head ELSE x + 1
               /\ e[Slot(x)].prev = IF x = src THEN t ELSE x - 1
               /\ e[Slot(x)].is_fixed <=> Extra(b, x).is_fixed /\ ~ fresh
    <3>1. PICK i \in 0 .. m - 1 : x = src + i
      <4>1. x - src \in 0 .. m - 1 /\ x = src + (x - src)
        BY <1>2, <1>3
      <4> QED
        BY <4>1
    <3>2. PICK s \in 0 .. N - 1 : s = Slot(x) /\ s = p + i
      BY <1>2, <1>4, <1>5, <3>1
    <3>3. (s = p <=> i = 0) /\ (s = s1 <=> i = m - 1) /\ x \in Nat
      BY <1>2, <1>3, <1>4, <1>20, <3>1, <3>2
    <3>4. /\ e[s].prev = IF s = p THEN last ELSE g[s].prev
          /\ e[s].next = IF s = s1 THEN src ELSE g[s].next
          /\ e[s].is_fixed <=> g[s].is_fixed
      BY <1>23, <2>1, <2>2, <3>2
    <3>5. /\ g[s].prev = IF i = 0 THEN src + m - 1 ELSE src + i - 1
          /\ g[s].next = IF i = m - 1 THEN src ELSE src + i + 1
          /\ g[s].is_fixed <=> f[s].is_fixed /\ ~ fresh
      BY <1>24, <3>1, <3>2
    <3>6. Extra(b, x) = f[s]
      BY <1>10, <3>2, <3>3
    <3>7. (x = src <=> i = 0) /\ (x = src + m - 1 <=> i = m - 1)
      BY <1>2, <1>3, <3>1
    <3>8. e[s].prev = IF x = src THEN t ELSE x - 1
      BY <2>2, <3>1, <3>3, <3>4, <3>5, <3>7
    <3>9. e[s].next = IF x = src + m - 1 THEN head ELSE x + 1
      BY <2>1, <3>1, <3>3, <3>4, <3>5, <3>7
    <3> QED
      BY <3>2, <3>4, <3>5, <3>6, <3>8, <3>9
  <2>4. ASSUME NEW x \in lo .. src - 1
        PROVE  /\ e[Slot(x)].next = IF x = t THEN src ELSE Extra(b, x).next
               /\ e[Slot(x)].prev = IF x = head THEN last ELSE Extra(b, x).prev
               /\ e[Slot(x)].is_fixed <=> Extra(b, x).is_fixed
    <3>1. x \in Nat /\ x < src /\ Slot(x) \notin p .. p + m - 1
      BY <1>3, <1>7
    <3>2. PICK s \in 0 .. N - 1 : s = Slot(x)
      BY <1>2, <3>1, SlotRange
    <3>3. s # p /\ s # s1 /\ s \notin p .. p + m - 1
      BY <1>2, <1>4, <1>20, <3>1, <3>2
    <3>4. e[s].prev = g[s].prev /\ e[s].next = g[s].next /\ (e[s].is_fixed <=> g[s].is_fixed)
      BY <1>23, <2>1, <2>2, <3>2, <3>3
    <3>5. Extra(b, x) = f[s] /\ g[s] = f[s]
      BY <1>10, <1>24, <3>1, <3>2, <3>3
    <3>6. x # t /\ x # head
      BY <1>2, <1>3, <1>11, <2>1, <2>2, <3>1
    <3> QED
      BY <3>2, <3>4, <3>5, <3>6
  <2>5. LinkedNew(b, e, fresh, t)
    BY <1>2, <1>3, <1>14, <2>3 DEF LinkedNew
  <2>6. LinkedOld(b, e, t)
    BY <1>2, <1>3, <1>6, <1>11, <1>14, <2>4 DEF LinkedOld
  <2> QED
    BY <1>2, <1>3, <1>4, <1>9, <1>11, <1>15, <1>23, <1>26, <1>25, <2>2, <2>5, <2>6
<1>27. CASE S # {}
  <2>1. head \in S
    BY <1>16, <1>27 DEF FirstOf
  <2>2. sh \notin p .. p + m - 1
    BY <1>7, <1>15, <1>18, <2>1
  <2>3. t = Extra(b, head).prev
    BY <1>10, <1>17, <1>18, <1>22, <1>24, <2>2
  <2>4. t \in S
    <3>1. Prevs(b)[head] \in S
      BY <1>15, <2>1 DEF Ring, Circle
    <3>2. head \in 0 .. Size(b) - 1
      BY <1>1, <1>15, <2>1, TypedIs
    <3> QED
      BY <2>3, <3>1, <3>2 DEF Prevs
  <2>5. Slot(t) \notin p .. p + m - 1
    BY <1>7, <1>15, <2>4
  <2>6. ASSUME NEW x \in src .. src + m - 1
        PROVE  /\ e[Slot(x)].next = IF x = src + m - 1 THEN head ELSE x + 1
               /\ e[Slot(x)].prev = IF x = src THEN t ELSE x - 1
               /\ e[Slot(x)].is_fixed <=> Extra(b, x).is_fixed /\ ~ fresh
    <3>1. PICK i \in 0 .. m - 1 : x = src + i
      <4>1. x - src \in 0 .. m - 1 /\ x = src + (x - src)
        BY <1>2, <1>3
      <4> QED
        BY <4>1
    <3>2. PICK s \in 0 .. N - 1 : s = Slot(x) /\ s = p + i /\ s \in p .. p + m - 1
      BY <1>2, <1>4, <1>5, <3>1
    <3>3. (s = p <=> i = 0) /\ (s = s1 <=> i = m - 1) /\ x \in Nat /\ s # sh /\ s # Slot(t)
      BY <1>2, <1>3, <1>4, <1>20, <2>2, <2>5, <3>1, <3>2
    <3>4. /\ e[s].prev = IF s = p THEN t ELSE g[s].prev
          /\ e[s].next = IF s = s1 THEN head ELSE g[s].next
          /\ e[s].is_fixed <=> g[s].is_fixed
      BY <1>23, <3>2, <3>3
    <3>5. /\ g[s].prev = IF i = 0 THEN src + m - 1 ELSE src + i - 1
          /\ g[s].next = IF i = m - 1 THEN src ELSE src + i + 1
          /\ g[s].is_fixed <=> f[s].is_fixed /\ ~ fresh
      BY <1>24, <3>1, <3>2
    <3>6. Extra(b, x) = f[s]
      BY <1>10, <3>2, <3>3
    <3>7. (x = src <=> i = 0) /\ (x = src + m - 1 <=> i = m - 1)
      BY <1>2, <1>3, <3>1
    <3>8. e[s].prev = IF x = src THEN t ELSE x - 1
      BY <3>1, <3>3, <3>4, <3>5, <3>7
    <3>9. e[s].next = IF x = src + m - 1 THEN head ELSE x + 1
      BY <3>1, <3>3, <3>4, <3>5, <3>7
    <3> QED
      BY <3>2, <3>4, <3>5, <3>6, <3>8, <3>9
  <2>7. ASSUME NEW x \in lo .. src - 1
        PROVE  /\ e[Slot(x)].next = IF x = t THEN src ELSE Extra(b, x).next
               /\ e[Slot(x)].prev = IF x = head THEN last ELSE Extra(b, x).prev
               /\ e[Slot(x)].is_fixed <=> Extra(b, x).is_fixed
    <3>1. x \in Nat /\ x < src /\ Slot(x) \notin p .. p + m - 1
      BY <1>3, <1>7
    <3>2. PICK s \in 0 .. N - 1 : s = Slot(x)
      BY <1>2, <3>1, SlotRange
    <3>3. s # p /\ s # s1 /\ s \notin p .. p + m - 1
      BY <1>2, <1>4, <1>20, <3>1, <3>2
    <3>4. x \in lo .. src + m - 1 /\ t \in lo .. src + m - 1 /\ head \in lo .. src + m - 1
      BY <1>2, <1>3, <1>7, <1>15, <2>1, <2>4, <3>1
    <3>5. (s = sh <=> x = head) /\ (s = Slot(t) <=> x = t)
      BY <1>8, <1>18, <3>2, <3>4
    <3>6. /\ e[s].prev = IF s = sh THEN last ELSE g[s].prev
          /\ e[s].next = IF s = Slot(t) THEN src ELSE g[s].next
          /\ e[s].is_fixed <=> g[s].is_fixed
      BY <1>23, <3>2, <3>3
    <3>7. Extra(b, x) = f[s] /\ g[s] = f[s]
      BY <1>10, <1>24, <3>1, <3>2, <3>3
    <3> QED
      BY <3>2, <3>5, <3>6, <3>7
  <2>8. LinkedNew(b, e, fresh, t)
    BY <1>2, <1>3, <1>14, <2>6 DEF LinkedNew
  <2>9. LinkedOld(b, e, t)
    BY <1>2, <1>3, <1>6, <1>11, <1>14, <2>7 DEF LinkedOld
  <2> QED
    BY <1>2, <1>3, <1>4, <1>9, <1>14, <1>15, <1>23, <1>27, <1>25, <2>3, <2>8, <2>9
<1> QED
  BY <1>26, <1>27

\* The number of blocks, and what it says of the number of units.
LEMMA BlocksAre ==
    ASSUME NEW b, NEW V, Typed(b, V)
    PROVE  \E k \in Nat :
             /\ NumBlocks(b) = k /\ Size(b) = k * BLOCK_SIZE
             /\ k + 1 > NUM_EXTRA_BLOCKS =>
                  /\ k - NUM_EXTRA_BLOCKS \in Nat
                  /\ (k - NUM_EXTRA_BLOCKS) * BLOCK_SIZE = Size(b) - NUM_EXTRAS
                  /\ Size(b) >= NUM_EXTRAS
             /\ ~ (k + 1 > NUM_EXTRA_BLOCKS) => Size(b) + BLOCK_SIZE <= NUM_EXTRAS
<1>1. PICK k \in Nat : Size(b) = BLOCK_SIZE * k
  BY DEF Typed
<1>2. PICK m \in Nat \ {0}, l \in Nat \ {0}, n \in Nat \ {0} :
        m = BLOCK_SIZE /\ l = NUM_EXTRA_BLOCKS /\ n = NUM_EXTRAS /\ n = m * l
  BY Sizes
<1>3. PICK a \in Nat : a = m * k /\ a = Size(b) /\ a = k * m
  BY <1>1, <1>2
<1>4. a \div m = k
  <2>1. PICK q \in Int : \E r \in 0 .. m - 1 : q = a \div m /\ r = a % m /\ a = m * q + r
    BY Division
  <2>2. PICK r \in 0 .. m - 1 : q \in Int /\ q = a \div m /\ r = a % m /\ a = m * q + r
    BY <2>1
  <2>3. m * k + 0 = m * q + r /\ 0 \in 0 .. m - 1
    BY <1>3, <2>2
  <2> QED
    BY <2>2, <2>3, DivisionUnique
<1>5. CASE k + 1 > l
  <2>1. PICK d \in Nat : d = k - l
    BY <1>5
  <2>2. d * m = k * m - l * m /\ l * m = m * l /\ d * m \in Nat
    BY <2>1
  <2> QED
    BY <1>2, <1>3, <1>4, <1>5, <2>1, <2>2 DEF NumBlocks
<1>6. CASE ~ (k + 1 > l)
  <2>1. PICK d \in Nat : d = l - (k + 1)
    BY <1>6
  <2>2. m * d = m * l - m * k - m /\ m * d \in Nat
    BY <2>1
  <2> QED
    BY <1>2, <1>3, <1>4, <1>6, <2>2 DEF NumBlocks
<1> QED
  BY <1>2, <1>5, <1>6

\* A builder after expand_units.
GrownTo(b, c, V) ==
    /\ Ring(c, V) /\ Size(c) = Size(b) + BLOCK_SIZE /\ c.table = b.table
    /\ Size(b) .. Size(b) + BLOCK_SIZE - 1 \subseteq Open(c)

\* Two sequences of a set, one behind the other.
LEMMA JoinedSeq ==
    ASSUME NEW S, NEW u \in Seq(S), NEW w \in Seq(S)
    PROVE  u \o w \in Seq(S) /\ Len(u \o w) = Len(u) + Len(w)
OBVIOUS

\* Units are added behind others.
LEMMA UnitsAdded ==
    ASSUME NEW V, -1 \in V, NEW u \in Seq(UnitSet(V)),
           NEW v, v = u \o [i \in 1 .. BLOCK_SIZE |-> FreeUnit]
    PROVE  v \in Seq(UnitSet(V)) /\ Len(v) = Len(u) + BLOCK_SIZE
<1>1. PICK m \in Nat \ {0} : m = BLOCK_SIZE
  BY Sizes
<1>2. FreeUnit \in UnitSet(V)
  <2>1. 0 \in 0 .. m - 1
    OBVIOUS
  <2> QED
    BY <1>1, <2>1 DEF FreeUnit, UnitSet
<1>3. PICK w : w = [i \in 1 .. m |-> FreeUnit]
  OBVIOUS
<1>4. w \in [1 .. m -> UnitSet(V)]
  BY <1>2, <1>3
<1>5. w \in Seq(UnitSet(V)) /\ Len(w) = m
  BY <1>4, FunctionIsSeq
<1>6. v = u \o w
  BY <1>1, <1>3
<1>7. u \o w \in Seq(UnitSet(V)) /\ Len(u \o w) = Len(u) + Len(w)
  BY <1>5, JoinedSeq
<1> QED
  BY <1>1, <1>5, <1>6, <1>7

\* The last step of expand_units: the new block of a builder of n units.
Joined(f, n, fresh) ==
    [f EXCEPT !.units = @ \o [i \in 1 .. BLOCK_SIZE |-> FreeUnit],
              !.extras = LinkBlock(@, n, f.extras_head, fresh)]

\* expand_units, when it is known whether there are NUM_EXTRA_BLOCKS blocks.
LEMMA GrowSteps ==
    ASSUME NEW b, NEW full \in BOOLEAN, full <=> NumBlocks(b) + 1 > NUM_EXTRA_BLOCKS
    PROVE  ExpandUnits(b) =
             Joined(IF full THEN FixBlock(b, NumBlocks(b) - NUM_EXTRA_BLOCKS) ELSE b,
                    Size(b), full)
<1>1. full = (NumBlocks(b) + 1 > NUM_EXTRA_BLOCKS)
  OBVIOUS
<1>2. (full /\ TRUE) = full
  OBVIOUS
<1> QED
  BY <1>1, <1>2, Zenon DEF ExpandUnits, Grow, Joined

\* A block whose extras are free joins the list.
LEMMA BlockJoins ==
    ASSUME NEW f, NEW V, Ring(f, V), -1 \in V, NEW fresh \in BOOLEAN,
           Open(f) \subseteq Oldest(Size(f) + BLOCK_SIZE) .. Size(f) - 1,
           ~ fresh => Size(f) + BLOCK_SIZE <= NUM_EXTRAS,
           NEW c, c = Joined(f, Size(f), fresh)
    PROVE  GrownTo(f, c, V)
<1>1. Typed(f, V)
  BY DEF Ring
<1>2. PICK m \in Nat \ {0}, N \in Nat \ {0} : m = BLOCK_SIZE /\ N = NUM_EXTRAS
  BY Sizes
<1>3. PICK src \in Nat : src = Size(f)
  BY <1>1, TypedIs
<1>4. PICK e : e = LinkBlock(f.extras, Size(f), f.extras_head, fresh)
  OBVIOUS
<1>5. PICK t :
         /\ e \in [0 .. NUM_EXTRAS - 1 -> ExtraSet(Size(f) + BLOCK_SIZE)]
         /\ t = IF Open(f) = {} THEN Size(f) + BLOCK_SIZE - 1 ELSE Extra(f, f.extras_head).prev
         /\ LinkedNew(f, e, fresh, t) /\ LinkedOld(f, e, t)
         /\ \A s \in 0 .. NUM_EXTRAS - 1 :
               s \notin Slot(Size(f)) .. Slot(Size(f)) + BLOCK_SIZE - 1 =>
                 (e[s].is_fixed <=> f.extras[s].is_fixed)
  BY <1>4, LinkIs
<1>6. PICK u : u = f.units \o [i \in 1 .. BLOCK_SIZE |-> FreeUnit]
  OBVIOUS
<1>7. u \in Seq(UnitSet(V)) /\ Len(u) = src + m
  <2>1. PICK w \in Seq(UnitSet(V)) : w = f.units
    BY <1>1 DEF Typed
  <2>2. u \in Seq(UnitSet(V)) /\ Len(u) = Len(w) + BLOCK_SIZE
    BY <1>6, <2>1, UnitsAdded
  <2> QED
    BY <1>2, <1>3, <2>1, <2>2 DEF Size
<1>8. c = [units |-> u, extras_head |-> f.extras_head, table |-> f.table, extras |-> e]
  <2>1. f = [units |-> f.units, extras_head |-> f.extras_head, table |-> f.table,
             extras |-> f.extras]
    BY <1>1 DEF Typed
  <2>2. c = [f EXCEPT !.units = u, !.extras = e]
    BY <1>4, <1>6 DEF Joined
  <2> QED
    BY <2>1, <2>2
<1>9. c.units = u /\ c.table = f.table /\ c.extras_head = f.extras_head /\ c.extras = e
  BY <1>8
<1>10. Size(c) = src + m
  BY <1>7, <1>9 DEF Size
<1>11. \A x \in Nat : Extra(c, x) = e[Slot(x)]
  BY <1>9 DEF Extra
<1>12. PICK lo \in Nat : lo = Oldest(src + m) /\ lo = First(c)
  <2>1. Oldest(src + m) \in Nat
    BY <1>2 DEF Oldest
  <2> QED
    BY <1>10, <2>1 DEF First
<1>13. PICK S : S = Open(f) /\ S \subseteq lo .. src - 1
  BY <1>2, <1>3, <1>12
<1>14. PICK last \in Nat : last = src + m - 1
  BY <1>2
<1>15. PICK h : h = f.extras_head /\ FirstOf(S, src, h)
  BY <1>3, <1>13 DEF Ring
<1>16. ASSUME NEW x \in src .. last
       PROVE  /\ Extra(c, x).next = IF x = last THEN h ELSE x + 1
              /\ Extra(c, x).prev = IF x = src THEN t ELSE x - 1
              /\ ~ Extra(c, x).is_fixed
  <2>1. x \in Nat /\ x \in Size(f) .. Size(f) + BLOCK_SIZE - 1
    BY <1>2, <1>3, <1>14
  <2>2. /\ e[Slot(x)].next = IF x = Size(f) + BLOCK_SIZE - 1 THEN f.extras_head ELSE x + 1
        /\ e[Slot(x)].prev = IF x = Size(f) THEN t ELSE x - 1
        /\ e[Slot(x)].is_fixed <=> Extra(f, x).is_fixed /\ ~ fresh
    BY <1>5, <2>1 DEF LinkedNew
  <2>3. ~ e[Slot(x)].is_fixed
    <3>1. CASE fresh
      BY <2>2, <3>1
    <3>2. CASE ~ fresh
      <4>1. x < N /\ x >= src
        BY <1>2, <1>3, <1>14, <2>1, <3>2
      <4>2. Slot(x) = x /\ x \in 0 .. NUM_EXTRAS - 1 /\ x >= Size(f)
        BY <1>2, <1>3, <2>1, <4>1, SlotRange
      <4>3. ~ f.extras[x].is_fixed
        BY <1>1, <4>2 DEF Typed
      <4>4. ~ Extra(f, x).is_fixed
        BY <4>2, <4>3 DEF Extra
      <4> QED
        BY <2>2, <4>4
    <3> QED
      BY <3>1, <3>2
  <2> QED
    BY <1>2, <1>3, <1>11, <1>14, <1>15, <2>1, <2>2, <2>3
<1>17. ASSUME NEW x \in lo .. src - 1
       PROVE  /\ Extra(c, x).next = IF x = t THEN src ELSE Extra(f, x).next
              /\ Extra(c, x).prev = IF x = h THEN last ELSE Extra(f, x).prev
              /\ Extra(c, x).is_fixed <=> Extra(f, x).is_fixed
  <2>1. x \in Nat /\ x \in Oldest(Size(f) + BLOCK_SIZE) .. Size(f) - 1
    BY <1>2, <1>3, <1>12
  <2>2. /\ e[Slot(x)].next = IF x = t THEN Size(f) ELSE Extra(f, x).next
        /\ e[Slot(x)].prev = IF x = f.extras_head THEN Size(f) + BLOCK_SIZE - 1
                             ELSE Extra(f, x).prev
        /\ e[Slot(x)].is_fixed <=> Extra(f, x).is_fixed
    BY <1>5, <2>1 DEF LinkedOld
  <2> QED
    BY <1>2, <1>3, <1>11, <1>14, <1>15, <2>1, <2>2
<1>18. Open(c) = S \union src .. last
  <2>1. \A x \in lo .. src - 1 : x \in S <=> ~ Extra(f, x).is_fixed
    <3>1. First(f) <= lo /\ First(f) \in Nat
      BY <1>2, <1>3, <1>12 DEF First, Oldest
    <3>2. \A x \in lo .. src - 1 : x \in First(f) .. Size(f) - 1
      BY <1>3, <1>12, <3>1
    <3> QED
      BY <1>13, <3>2 DEF Open
  <2>2. \A x \in lo .. src - 1 : x \in S <=> ~ Extra(c, x).is_fixed
    BY <1>17, <2>1
  <2>3. lo .. src + m - 1 = (lo .. src - 1) \union (src .. last)
    <3>1. lo <= src
      BY <1>2, <1>12, Sizes DEF Oldest
    <3> QED
      BY <1>2, <1>12, <1>14, <3>1
  <2>4. Open(c) = {x \in lo .. src + m - 1 : ~ Extra(c, x).is_fixed}
    BY <1>10, <1>12 DEF Open
  <2> QED
    BY <1>13, <1>16, <2>2, <2>3, <2>4
<1>19. /\ S \in SUBSET Nat /\ \A x \in S : x < src
  BY <1>3, <1>12, <1>13
<1>20. \A x \in S \union src .. last : x \in 0 .. src + m - 1
  BY <1>2, <1>3, <1>12, <1>13, <1>14
<1>21. \A x \in S : x \in 0 .. Size(f) - 1
  BY <1>3, <1>12, <1>13
<1>22. \A x \in 0 .. src + m - 1 : Nexts(c)[x] = Extra(c, x).next /\ Prevs(c)[x] = Extra(c, x).prev
  BY <1>10 DEF Nexts, Prevs
<1>23. \A x \in 0 .. Size(f) - 1 : Nexts(f)[x] = Extra(f, x).next /\ Prevs(f)[x] = Extra(f, x).prev
  BY DEF Nexts, Prevs
<1>24. t = IF S = {} THEN last ELSE Prevs(f)[h]
  <2>1. CASE S = {}
    BY <1>2, <1>3, <1>5, <1>13, <1>14, <2>1
  <2>2. CASE S # {}
    <3>1. h \in S
      BY <1>15, <2>2 DEF FirstOf
    <3> QED
      BY <1>5, <1>13, <1>15, <1>21, <1>23, <2>2, <3>1
  <2> QED
    BY <2>1, <2>2
<1>25. Circle(S \union src .. last, Nexts(c), Prevs(c))
  <2>1. Circle(S, Nexts(f), Prevs(f))
    BY <1>13 DEF Ring
  <2>2. ASSUME NEW x \in S
        PROVE  /\ Nexts(c)[x] = IF x = Prevs(f)[h] THEN src ELSE Nexts(f)[x]
               /\ Prevs(c)[x] = IF x = h THEN last ELSE Prevs(f)[x]
    <3>1. x \in lo .. src - 1 /\ x \in 0 .. Size(f) - 1 /\ x \in 0 .. src + m - 1
      BY <1>13, <1>20, <1>21
    <3>2. t = Prevs(f)[h]
      BY <1>24
    <3> QED
      BY <1>17, <1>22, <1>23, <3>1, <3>2
  <2>3. ASSUME NEW x \in src .. last
        PROVE  /\ Nexts(c)[x] = IF x = last THEN h ELSE x + 1
               /\ Prevs(c)[x] = IF x = src THEN IF S = {} THEN last ELSE Prevs(f)[h] ELSE x - 1
    BY <1>16, <1>20, <1>22, <1>24
  <2>4. src <= last
    BY <1>2, <1>14
  <2> QED
    BY <1>14, <1>15, <1>19, <2>1, <2>2, <2>3, <2>4, CircleMore
<1>26. FirstOf(S \union src .. last, src + m, h)
  <2>1. src \in src .. last /\ \A x \in src .. last : src <= x
    BY <1>2, <1>14
  <2>2. CASE S = {}
    <3>1. h = src
      BY <1>15, <2>2 DEF FirstOf
    <3> QED
      BY <2>1, <2>2, <3>1 DEF FirstOf
  <2>3. CASE S # {}
    <3>1. h \in S /\ \A x \in S : h <= x
      BY <1>15, <2>3 DEF FirstOf
    <3>2. \A x \in src .. last : h <= x
      BY <1>14, <1>19, <3>1
    <3> QED
      BY <3>1, <3>2 DEF FirstOf
  <2> QED
    BY <2>2, <2>3
<1>27. Typed(c, V)
  <2>1. \E k \in Nat : src + m = BLOCK_SIZE * k
    <3>1. PICK k \in Nat : src = BLOCK_SIZE * k
      BY <1>1, <1>3 DEF Typed
    <3>2. m * (k + 1) = m * k + m
      BY <1>2
    <3> QED
      BY <1>2, <3>1, <3>2
  <2>2. ASSUME NEW s \in 0 .. NUM_EXTRAS - 1, s >= src + m PROVE ~ e[s].is_fixed
    <3>1. src < N /\ s \notin src .. src + m - 1 /\ s >= Size(f)
      BY <1>2, <1>3, <2>2
    <3>2. Slot(src) = src
      BY <1>2, <3>1, SlotRange
    <3>3. e[s].is_fixed <=> f.extras[s].is_fixed
      BY <1>2, <1>3, <1>5, <3>1, <3>2
    <3>4. ~ f.extras[s].is_fixed
      BY <1>1, <3>1 DEF Typed
    <3> QED
      BY <3>3, <3>4
  <2> QED
    BY <1>2, <1>3, <1>5, <1>7, <1>8, <1>9, <1>10, <2>1, <2>2 DEF Typed
<1>28. Ring(c, V)
  BY <1>9, <1>10, <1>15, <1>18, <1>25, <1>26, <1>27 DEF Ring
<1>29. Size(f) .. Size(f) + BLOCK_SIZE - 1 \subseteq Open(c)
  BY <1>2, <1>3, <1>14, <1>18
<1> QED
  BY <1>2, <1>3, <1>9, <1>10, <1>28, <1>29 DEF GrownTo

\* expand_units adds a block to the list, and gives up the oldest.
LEMMA GrowIs ==
    ASSUME NEW b, NEW V, Ring(b, V), -1 \in V, NEW c, c = ExpandUnits(b)
    PROVE  GrownTo(b, c, V)
<1>1. Typed(b, V)
  BY DEF Ring
<1>2. PICK k \in Nat :
        /\ NumBlocks(b) = k /\ Size(b) = k * BLOCK_SIZE
        /\ k + 1 > NUM_EXTRA_BLOCKS =>
             /\ k - NUM_EXTRA_BLOCKS \in Nat
             /\ (k - NUM_EXTRA_BLOCKS) * BLOCK_SIZE = Size(b) - NUM_EXTRAS
             /\ Size(b) >= NUM_EXTRAS
        /\ ~ (k + 1 > NUM_EXTRA_BLOCKS) => Size(b) + BLOCK_SIZE <= NUM_EXTRAS
  BY <1>1, BlocksAre
<1>3. PICK m \in Nat \ {0}, N \in Nat \ {0} : m = BLOCK_SIZE /\ N = NUM_EXTRAS /\ m <= N
  BY Sizes
<1>4. PICK src \in Nat : src = Size(b)
  BY <1>1, TypedIs
<1>5. PICK full \in BOOLEAN : full <=> k + 1 > NUM_EXTRA_BLOCKS
  OBVIOUS
<1>6. PICK f : f = IF full THEN FixBlock(b, k - NUM_EXTRA_BLOCKS) ELSE b
  OBVIOUS
<1>7. /\ Ring(f, V) /\ Size(f) = src /\ f.table = b.table
      /\ Open(f) \subseteq Oldest(src + m) .. src - 1
  <2>1. CASE full
    <3>1. PICK begin \in Nat : begin = src - N /\ begin = (k - NUM_EXTRA_BLOCKS) * BLOCK_SIZE
      BY <1>2, <1>3, <1>4, <1>5, <2>1
    <3>2. begin + N = src
      BY <3>1
    <3>3. First(b) = begin
      BY <1>3, <1>4, <3>2 DEF First, Oldest
    <3>4. PICK block \in Nat : block = k - NUM_EXTRA_BLOCKS
      BY <1>2, <1>5, <2>1
    <3>5. LeftOpen(b, f, V, begin .. begin + m - 1)
      <4>1. First(b) <= begin /\ begin + BLOCK_SIZE <= Size(b)
        BY <1>3, <1>4, <3>2, <3>3
      <4>2. f = FixBlock(b, block) /\ begin = block * BLOCK_SIZE
        BY <1>6, <2>1, <3>1, <3>4
      <4>3. LeftOpen(b, f, V, begin .. begin + BLOCK_SIZE - 1)
        BY <3>1, <3>4, <4>1, <4>2, FixBlockIs
      <4> QED
        BY <1>3, <4>3
    <3>6. Oldest(src + m) = begin + m
      BY <1>3, <1>4, <3>1, <3>2 DEF Oldest
    <3>7. \A x \in Open(b) : x \in begin .. src - 1
      BY <1>1, <1>4, <3>3, TypedIs
    <3>8. \A x \in begin .. src - 1 : x \notin begin .. begin + m - 1 => x \in begin + m .. src - 1
      BY <1>3, <3>1
    <3> QED
      BY <1>4, <3>5, <3>6, <3>7, <3>8 DEF LeftOpen
  <2>2. CASE ~ full
    <3>1. Oldest(src + m) = 0
      BY <1>2, <1>3, <1>4, <1>5, <2>2 DEF Oldest
    <3>2. \A x \in Open(b) : x \in 0 .. src - 1
      BY <1>1, <1>4, TypedIs
    <3> QED
      BY <1>4, <1>6, <2>2, <3>1, <3>2
  <2> QED
    BY <2>1, <2>2
<1>8. ~ full => Size(f) + BLOCK_SIZE <= NUM_EXTRAS
  BY <1>2, <1>4, <1>5, <1>7
<1>9. c = Joined(f, Size(f), full)
  BY <1>2, <1>4, <1>5, <1>6, <1>7, GrowSteps
<1>10. GrownTo(f, c, V)
  <2>1. Open(f) \subseteq Oldest(Size(f) + BLOCK_SIZE) .. Size(f) - 1
    BY <1>3, <1>7
  <2> QED
    BY <1>5, <1>7, <1>8, <1>9, <2>1, BlockJoins
<1> QED
  BY <1>4, <1>7, <1>10 DEF GrownTo

--------
(***************************************************************************)
(* Reserving a unit.                                                       *)
(***************************************************************************)

\* A builder with other units or marks, but the same list.
Kept(b, c, V) ==
    Ring(c, V) /\ Open(c) = Open(b) /\ Size(c) = Size(b) /\ c.table = b.table

\* A sequence is a function on 1..its length.
LEMMA SeqIsFunction ==
    ASSUME NEW S, NEW v \in Seq(S)
    PROVE  Len(v) \in Nat /\ v \in [1 .. Len(v) -> S]
OBVIOUS

\* One unit is replaced.
LEMMA UnitSetTo ==
    ASSUME NEW b, NEW V, Ring(b, V), NEW i, NEW x,
           i \in 1 .. Size(b) => x \in UnitSet(V),
           NEW c, c = [b EXCEPT !.units = [@ EXCEPT ![i] = x]]
    PROVE  Kept(b, c, V)
<1>1. Typed(b, V)
  BY DEF Ring
<1>2. PICK u : u = [b.units EXCEPT ![i] = x]
  OBVIOUS
<1>3. PICK v \in Seq(UnitSet(V)) : v = b.units
  BY <1>1 DEF Typed
<1>4. u \in Seq(UnitSet(V)) /\ Len(u) = Len(b.units)
  <2>1. PICK n \in Nat : n = Len(v) /\ n = Size(b)
    BY <1>3, SeqIsFunction DEF Size
  <2>2. v \in [1 .. n -> UnitSet(V)]
    BY <1>3, <2>1, SeqIsFunction
  <2>3. u \in [1 .. n -> UnitSet(V)]
    BY <1>2, <1>3, <2>1, <2>2
  <2>4. u \in Seq(UnitSet(V)) /\ Len(u) = n
    BY <2>3, FunctionIsSeq
  <2> QED
    BY <1>3, <2>1, <2>4
<1>5. c = [units |-> u, extras_head |-> b.extras_head, table |-> b.table, extras |-> b.extras]
  <2>1. b = [units |-> b.units, extras_head |-> b.extras_head, table |-> b.table,
             extras |-> b.extras]
    BY <1>1 DEF Typed
  <2>2. c = [b EXCEPT !.units = u]
    BY <1>2
  <2> QED
    BY <2>1, <2>2
<1>6. b.extras \in [0 .. NUM_EXTRAS - 1 -> ExtraSet(Size(b))]
  BY <1>1 DEF Typed
<1>7. c.table = b.table /\ c.units = u /\ c.extras = b.extras /\ c.extras_head = b.extras_head
  BY <1>5
<1>8. Alike(b, c, V)
  BY <1>4, <1>5, <1>6, <1>7 DEF Alike
<1> QED
  BY <1>7, <1>8, SameList DEF Kept

\* The base of a slot is marked as used.
LEMMA MarkSet ==
    ASSUME NEW b, NEW V, Ring(b, V), NEW s,
           NEW c, c = [b EXCEPT !.extras = [@ EXCEPT ![s].is_used = TRUE]]
    PROVE  Kept(b, c, V)
<1>1. Typed(b, V)
  BY DEF Ring
<1>2. PICK e : e = [b.extras EXCEPT ![s].is_used = TRUE]
  OBVIOUS
<1>3. PICK n \in Nat : n = Size(b)
  BY <1>1, TypedIs
<1>4. PICK v \in [0 .. NUM_EXTRAS - 1 -> ExtraSet(n)] : v = b.extras
  BY <1>1, <1>3 DEF Typed
<1>5. \A x \in ExtraSet(n) : /\ [x EXCEPT !.is_used = TRUE] \in ExtraSet(n)
                             /\ [x EXCEPT !.is_used = TRUE].prev = x.prev
                             /\ [x EXCEPT !.is_used = TRUE].next = x.next
                             /\ [x EXCEPT !.is_used = TRUE].is_fixed = x.is_fixed
  BY DEF ExtraSet
<1>6. e \in [0 .. NUM_EXTRAS - 1 -> ExtraSet(n)]
  BY <1>2, <1>4, <1>5
<1>7. ASSUME NEW r \in 0 .. NUM_EXTRAS - 1
      PROVE  /\ e[r].prev = b.extras[r].prev /\ e[r].next = b.extras[r].next
             /\ e[r].is_fixed <=> b.extras[r].is_fixed
  <2>1. v[r] \in ExtraSet(n)
    BY <1>4
  <2>2. e[r] = IF r = s THEN [v[r] EXCEPT !.is_used = TRUE] ELSE v[r]
    BY <1>2, <1>4
  <2> QED
    BY <1>4, <1>5, <2>1, <2>2
<1>8. c = [units |-> b.units, extras_head |-> b.extras_head, table |-> b.table, extras |-> e]
  <2>1. b = [units |-> b.units, extras_head |-> b.extras_head, table |-> b.table,
             extras |-> b.extras]
    BY <1>1 DEF Typed
  <2>2. c = [b EXCEPT !.extras = e]
    BY <1>2
  <2> QED
    BY <2>1, <2>2
<1>9. c.table = b.table /\ c.units = b.units /\ c.extras = e /\ c.extras_head = b.extras_head
  BY <1>8
<1>10. b.units \in Seq(UnitSet(V))
  BY <1>1 DEF Typed
<1>11. Alike(b, c, V)
  BY <1>3, <1>6, <1>7, <1>8, <1>9, <1>10 DEF Alike
<1> QED
  BY <1>9, <1>11, SameList DEF Kept

\* Units that can be reserved: free ones, or some of the next block.
Ready(b, T) == T \subseteq Open(b) \/ T \subseteq Size(b) .. Size(b) + BLOCK_SIZE - 1

\* reserve_id takes such a unit and leaves the others free.
LEMMA ReserveIs ==
    ASSUME NEW b, NEW V, Ring(b, V), -1 \in V, NEW T, Ready(b, T), NEW id \in T,
           NEW c, c = Reserve(b, id)
    PROVE  /\ Ring(c, V) /\ T \ {id} \subseteq Open(c) /\ c.table = b.table
           /\ id \in 0 .. Size(c) - 1
<1>1. Typed(b, V)
  BY DEF Ring
<1>2. PICK n \in Nat : n = Size(b)
  BY <1>1, TypedIs
<1>3. PICK m \in Nat \ {0} : m = BLOCK_SIZE
  BY Sizes
<1>4. PICK d : d = IF id >= Size(b) THEN ExpandUnits(b) ELSE b
  OBVIOUS
<1>5. Ring(d, V) /\ T \subseteq Open(d) /\ d.table = b.table
  <2>1. CASE T \subseteq Open(b)
    <3>1. id \in 0 .. n - 1
      BY <1>1, <1>2, <2>1, TypedIs
    <3> QED
      BY <1>2, <1>4, <2>1, <3>1
  <2>2. CASE T \subseteq Size(b) .. Size(b) + BLOCK_SIZE - 1
    <3>1. id >= n /\ id \in Nat
      BY <1>2, <1>3, <2>2
    <3>2. d = ExpandUnits(b)
      BY <1>2, <1>4, <3>1
    <3>3. GrownTo(b, d, V)
      BY <3>2, GrowIs
    <3> QED
      BY <2>2, <3>3 DEF GrownTo
  <2> QED
    BY <2>1, <2>2 DEF Ready
<1>6. c = Take(d, id)
  BY <1>4 DEF Reserve
<1>7. id \in Open(d)
  BY <1>5
<1>8. Ring(c, V) /\ c.units = d.units /\ c.table = d.table /\ Open(c) = Open(d) \ {id}
  BY <1>5, <1>6, <1>7, TakeIs
<1>9. id \in 0 .. Size(d) - 1 /\ Size(c) = Size(d)
  <2>1. Typed(d, V)
    BY <1>5 DEF Ring
  <2> QED
    BY <1>7, <1>8, <2>1, TypedIs DEF Size
<1> QED
  BY <1>5, <1>8, <1>9

--------
(***************************************************************************)
(* What a walk along the list finds.                                       *)
(***************************************************************************)

\* s lists the c numbers of a set in order.
Lists(S, c, s) ==
    /\ c \in Nat /\ s \in [1 .. c -> S]
    /\ \A i, j \in 1 .. c : i < j => s[i] < s[j]
    /\ \A x \in S : \E i \in 1 .. c : s[i] = x

\* nx leads from each of them to the next, and from the last to the first.
Rounds(nx, h, c, s) ==
    /\ c > 0 /\ s[1] = h
    /\ \A k \in 1 .. c - 1 : nx[s[k]] = s[k + 1] /\ s[k + 1] # h
    /\ nx[s[c]] = h

\* The circle leads from each number of the set in order to the next one, and
\* from the last to the first.
LEMMA CircleInOrder ==
    ASSUME NEW S \in SUBSET Nat, NEW nx, NEW pv, Circle(S, nx, pv), NEW end, NEW h,
           FirstOf(S, end, h), S # {}, NEW c, NEW s, Lists(S, c, s)
    PROVE  Rounds(nx, h, c, s)
<1>1. /\ c \in Nat /\ s \in [1 .. c -> S]
      /\ \A i, j \in 1 .. c : i < j => s[i] < s[j]
      /\ \A x \in S : \E i \in 1 .. c : s[i] = x
  BY DEF Lists
<1> USE <1>1
<1>2. h \in S /\ \A x \in S : h <= x
  BY DEF FirstOf
<1>3. PICK k \in 1 .. c : s[k] = h
  BY <1>2
<1>4. \A i \in 1 .. c : s[i] \in S /\ s[i] \in Nat
  OBVIOUS
<1>5. c > 0 /\ 1 \in 1 .. c /\ c \in 1 .. c
  BY <1>3
<1>6. s[1] = h
  <2>1. h <= s[1] /\ s[1] \in Nat /\ h \in Nat
    BY <1>2, <1>4, <1>5
  <2>2. k # 1 => s[1] < s[k]
    BY <1>3, <1>5
  <2> QED
    BY <1>3, <2>1, <2>2
<1>7. ASSUME NEW i \in 1 .. c - 1 PROVE nx[s[i]] = s[i + 1] /\ s[i + 1] # h
  <2>1. i \in 1 .. c /\ i + 1 \in 1 .. c
    OBVIOUS
  <2>2. After(S, s[i], nx[s[i]])
    BY <1>4, <2>1 DEF Circle
  <2>3. PICK j \in 1 .. c : s[j] = nx[s[i]]
    BY <2>2 DEF After
  <2>4. s[i] < s[i + 1]
    BY <2>1
  <2>5. ~ (\A z \in S : z <= s[i])
    BY <1>4, <2>1, <2>4
  <2>6. s[i] < s[j] /\ \A z \in S : ~ (s[i] < z /\ z < s[j])
    BY <2>2, <2>3, <2>5 DEF After
  <2>7. ~ (j < i) /\ j # i
    BY <1>4, <2>1, <2>3, <2>6
  <2>8. ~ (i + 1 < j)
    BY <1>4, <2>1, <2>4, <2>6
  <2>9. s[1] < s[i + 1]
    BY <1>5, <2>1
  <2> QED
    BY <1>4, <1>5, <1>6, <2>1, <2>3, <2>7, <2>8, <2>9
<1>8. nx[s[c]] = h
  <2>1. After(S, s[c], nx[s[c]])
    BY <1>4, <1>5 DEF Circle
  <2>2. PICK j \in 1 .. c : s[j] = nx[s[c]]
    BY <2>1 DEF After
  <2>3. ~ (s[c] < s[j])
    BY <1>4, <1>5, <2>2
  <2>4. \A z \in S : s[j] <= z
    BY <2>1, <2>2, <2>3 DEF After
  <2> QED
    BY <1>2, <1>4, <2>2, <2>4
<1> QED
  BY <1>5, <1>6, <1>7, <1>8 DEF Rounds

\* The chain that Walk follows, and how far.
ChainOf(f, x, size) == CHOOSE g : IsChain(f, x, 0, size, g)

StepsOf(h, size, end) ==
    CHOOSE n \in 1 .. size : h[n] = end /\ \A m \in 1 .. n - 1 : h[m] # end

\* Walk in these terms.
LEMMA WalkIs ==
    ASSUME NEW f, NEW x, NEW end, NEW size, size = Cardinality(DOMAIN f),
           NEW h, h = ChainOf(f, x, size), NEW steps, steps = StepsOf(h, size, end)
    PROVE  Walk(f, x, end) = [i \in 1 .. steps |-> h[i - 1]]
BY DEF Walk, ChainTurn, IsChain, ChainOf, StepsOf

\* Walk round the circle lists the set in order.
LEMMA CircleWalk ==
    ASSUME NEW S \in SUBSET Nat, S # {}, NEW size \in Nat, S \subseteq 0 .. size - 1,
           NEW nx, DOMAIN nx = 0 .. size - 1, NEW pv, Circle(S, nx, pv), NEW h, FirstOf(S, size, h)
    PROVE  Walk(nx, h, h) = Sorted(S)
<1>1. IsFiniteSet(0 .. size - 1) /\ Cardinality(0 .. size - 1) = size
  BY FS_Interval
<1>2. IsFiniteSet(S) /\ Cardinality(S) <= size
  <2>1. PICK T : T = 0 .. size - 1
    OBVIOUS
  <2>2. IsFiniteSet(T) /\ Cardinality(T) = size /\ S \subseteq T
    BY <1>1, <2>1
  <2> QED
    BY <2>2, FS_Subset
<1>3. PICK c \in Nat : c = Cardinality(S)
  BY <1>2, FS_CardinalityType
<1>4. S \in SUBSET Int
  OBVIOUS
<1>5. PICK s \in [1 .. c -> S] :
         /\ s = Sorted(S)
         /\ \A i, j \in 1 .. c : i < j => s[i] < s[j]
         /\ \A x \in S : \E i \in 1 .. c : s[i] = x
  <2>1. Sorted(S) \in [1 .. c -> S]
    <3>1. Sorted(S) \in Seq(S) /\ Len(Sorted(S)) = c
      BY <1>2, <1>3, <1>4, SortedIs
    <3> QED
      BY <3>1, SeqIsFunction
  <2>2. \A i, j \in 1 .. c : i < j => Sorted(S)[i] < Sorted(S)[j]
    BY <1>2, <1>3, <1>4, SortedIs
  <2>3. \A x \in S : \E i \in 1 .. c : Sorted(S)[i] = x
    BY <1>2, <1>3, <1>4, SortedIs
  <2> QED
    BY <2>1, <2>2, <2>3
<1>6. Lists(S, c, s)
  BY <1>3, <1>5 DEF Lists
<1>7. Rounds(nx, h, c, s)
  BY <1>6, CircleInOrder
<1>8. /\ c > 0 /\ s[1] = h
      /\ \A k \in 1 .. c - 1 : nx[s[k]] = s[k + 1] /\ s[k + 1] # h
      /\ nx[s[c]] = h
  BY <1>7 DEF Rounds
<1>9. size = Cardinality(DOMAIN nx) /\ c <= size
  BY <1>1, <1>2, <1>3
<1>10. PICK g : g = ChainOf(nx, h, size)
  OBVIOUS
<1>11. IsChain(nx, h, 0, size, g)
  <2>1. 0 \in Nat /\ size \in Nat /\ 0 <= size
    OBVIOUS
  <2>2. \E f : IsChain(nx, h, 0, size, f)
    BY <2>1, ChainRuns, Zenon
  <2> QED
    BY <1>10, <2>2 DEF ChainOf
<1>12. g[0] = h /\ \A n \in 1 .. size : g[n] = nx[g[n - 1]]
  BY <1>11 DEF ChainTurn, IsChain
<1>13. \A n \in 0 .. c - 1 : g[n] = s[n + 1]
  <2> DEFINE Bad == {n \in 0 .. c - 1 : g[n] # s[n + 1]}
  <2>1. Bad = {}
    <3> SUFFICES ASSUME Bad # {} PROVE FALSE
      OBVIOUS
    <3> Bad \in SUBSET Nat
      OBVIOUS
    <3>1. PICK n \in Bad : \A k \in Bad : ~ (k < n)
      BY LeastNumber
    <3>2. n # 0
      BY <1>8, <1>12, <3>1
    <3>3. n - 1 \in 0 .. c - 1 /\ n - 1 \notin Bad /\ n \in 1 .. c - 1
      BY <3>1, <3>2
    <3>4. g[n - 1] = s[n]
      BY <3>3
    <3>5. g[n] = nx[s[n]]
      BY <1>9, <1>12, <3>3, <3>4
    <3> QED
      BY <1>8, <3>1, <3>3, <3>5
  <2> QED
    BY <2>1
<1>14. g[c] = h
  <2>1. c \in 1 .. size /\ c - 1 \in 0 .. c - 1 /\ c - 1 + 1 = c
    BY <1>8, <1>9
  <2> QED
    BY <1>8, <1>12, <1>13, <2>1
<1>15. \A m \in 1 .. c - 1 : g[m] # h
  BY <1>8, <1>13
<1>16. c = StepsOf(g, size, h)
  <2>1. c \in 1 .. size
    BY <1>8, <1>9
  <2>2. ASSUME NEW n \in 1 .. size, g[n] = h, \A m \in 1 .. n - 1 : g[m] # h PROVE n = c
    <3>1. ~ (n < c)
      BY <1>15, <2>2
    <3>2. ~ (c < n)
      BY <1>14, <2>1, <2>2
    <3> QED
      BY <3>1, <3>2
  <2> QED
    BY <1>14, <1>15, <2>1, <2>2 DEF StepsOf
<1>17. Walk(nx, h, h) = [i \in 1 .. c |-> g[i - 1]]
  BY <1>9, <1>10, <1>16, WalkIs
<1>18. \A i \in 1 .. c : g[i - 1] = s[i]
  <2> SUFFICES ASSUME NEW i \in 1 .. c PROVE g[i - 1] = s[i]
    OBVIOUS
  <2>1. i - 1 \in 0 .. c - 1 /\ i - 1 + 1 = i
    OBVIOUS
  <2> QED
    BY <1>13, <2>1
<1> QED
  BY <1>5, <1>17, <1>18

\* The list of free units has them all, in order.
LEMMA FreeListIs ==
    ASSUME NEW b, NEW V, Ring(b, V)
    PROVE  FreeList(b) = Sorted(Open(b))
<1>1. Typed(b, V)
  BY DEF Ring
<1>2. PICK n \in Nat : n = Size(b)
  BY <1>1, TypedIs
<1>3. PICK S : S = Open(b)
  OBVIOUS
<1>4. S \in SUBSET Nat /\ S \subseteq 0 .. n - 1
  BY <1>1, <1>2, <1>3, TypedIs
<1>5. Circle(S, Nexts(b), Prevs(b)) /\ FirstOf(S, n, b.extras_head)
  BY <1>2, <1>3 DEF Ring
<1>6. CASE S = {}
  <2>1. FreeList(b) = <<>>
    BY <1>2, <1>5, <1>6 DEF FreeList, FirstOf
  <2>2. Cardinality(S) = 0
    BY <1>6, FS_EmptySet
  <2>3. Sorted(S) = <<>>
    BY <2>2 DEF Sorted
  <2> QED
    BY <1>3, <2>1, <2>3
<1>7. CASE S # {}
  <2>1. b.extras_head \in S
    BY <1>5, <1>7 DEF FirstOf
  <2>2. PICK h \in 0 .. n - 1 : h = b.extras_head
    BY <1>4, <2>1
  <2>3. ~ (b.extras_head >= Size(b))
    BY <1>2, <2>2
  <2>4. FreeList(b) = Walk(Nexts(b), b.extras_head, b.extras_head)
    BY <2>3 DEF FreeList, Nexts
  <2>5. DOMAIN Nexts(b) = 0 .. n - 1
    BY <1>2 DEF Nexts
  <2>6. Walk(Nexts(b), b.extras_head, b.extras_head) = Sorted(S)
    BY <1>4, <1>5, <1>7, <2>5, CircleWalk
  <2> QED
    BY <1>3, <2>4, <2>6
<1> QED
  BY <1>6, <1>7

\* So it is what FreeListExact says.
LEMMA ListExact ==
    ASSUME NEW V, Ring(builder, V)
    PROVE  FreeListExact
<1>1. Typed(builder, V)
  BY DEF Ring
<1>2. PICK S : S = Open(builder)
  OBVIOUS
<1>3. S \in SUBSET Nat /\ S \subseteq 0 .. Size(builder) - 1 /\ Size(builder) \in Nat
  BY <1>1, <1>2, TypedIs
<1>4. IsFiniteSet(S) /\ S \in SUBSET Int
  <2>1. 0 \in Int /\ Size(builder) - 1 \in Int
    BY <1>3
  <2>2. IsFiniteSet(0 .. Size(builder) - 1)
    BY <2>1, FS_Interval
  <2>3. IsFiniteSet(S)
    BY <1>3, <2>2, FS_Subset
  <2>4. S \in SUBSET Int
    BY <1>3
  <2> QED
    BY <2>3, <2>4
<1>5. FreeList(builder) = Sorted(S)
  BY <1>2, FreeListIs
<1>6. Len(Sorted(S)) = Cardinality(S)
  BY <1>4, SortedIs
<1>7. ToSet(Sorted(S)) = S
  <2>1. /\ DOMAIN Sorted(S) = 1 .. Cardinality(S)
        /\ \A n \in 1 .. Cardinality(S) : Sorted(S)[n] \in S
        /\ \A x \in S : \E n \in 1 .. Cardinality(S) : Sorted(S)[n] = x
    BY <1>4, SortedIs
  <2> QED
    BY <2>1 DEF ToSet
<1>8. \A id \in S : Extra(builder, Extra(builder, id).next).prev = id
  <2> SUFFICES ASSUME NEW id \in S PROVE Extra(builder, Extra(builder, id).next).prev = id
    OBVIOUS
  <2>1. After(S, id, Nexts(builder)[id]) /\ Prevs(builder)[Nexts(builder)[id]] = id
    BY <1>2 DEF Ring, Circle
  <2>2. Nexts(builder)[id] = Extra(builder, id).next
    BY <1>3 DEF Nexts
  <2>3. Extra(builder, id).next \in 0 .. Size(builder) - 1
    BY <1>3, <2>1, <2>2 DEF After
  <2> QED
    BY <2>1, <2>2, <2>3 DEF Prevs
<1>9. S = {id \in (IF Size(builder) > NUM_EXTRAS THEN Size(builder) - NUM_EXTRAS ELSE 0)
                     .. Size(builder) - 1 : ~ Extra(builder, id).is_fixed}
  BY <1>2 DEF Open, First, Oldest
<1> QED
  BY <1>5, <1>6, <1>7, <1>8, <1>9 DEF FreeListExact

--------
(***************************************************************************)
(* Bases for children.                                                     *)
(***************************************************************************)

\* A number between two multiples of m lies in a stretch between two multiples
\* that does not reach over them.
LEMMA StretchBounds ==
    ASSUME NEW m \in Nat \ {0}, NEW f \in Int, NEW k \in Int, NEW q \in Int,
           NEW r \in 0 .. m - 1, m * f <= m * q + r, m * q + r < m * k
    PROVE  m * f <= m * q /\ m * q + m <= m * k
<1>1. f <= q
  <2> SUFFICES ASSUME f > q PROVE FALSE
    OBVIOUS
  <2>1. PICK d \in Nat : f = q + 1 + d
    <3>1. f - q - 1 \in Nat /\ f = q + 1 + (f - q - 1)
      OBVIOUS
    <3> QED
      BY <3>1
  <2>2. m * (q + 1 + d) = m * q + m + m * d /\ m * d \in Nat
    BY <2>1
  <2> QED
    BY <2>1, <2>2
<1>2. q < k
  <2> SUFFICES ASSUME q >= k PROVE FALSE
    OBVIOUS
  <2>1. PICK d \in Nat : q = k + d
    <3>1. q - k \in Nat /\ q = k + (q - k)
      OBVIOUS
    <3> QED
      BY <3>1
  <2>2. m * (k + d) = m * k + m * d /\ m * d \in Nat
    BY <2>1
  <2> QED
    BY <2>1, <2>2
<1>3. PICK d \in Nat : q = f + d
  <2>1. q - f \in Nat /\ q = f + (q - f)
    BY <1>1
  <2> QED
    BY <2>1
<1>4. PICK e \in Nat : k = q + 1 + e
  <2>1. k - q - 1 \in Nat /\ k = q + 1 + (k - q - 1)
    BY <1>2
  <2> QED
    BY <2>1
<1>5. m * (f + d) = m * f + m * d /\ m * d \in Nat
  BY <1>3
<1>6. m * (q + 1 + e) = m * q + m + m * e /\ m * e \in Nat
  BY <1>4
<1> QED
  BY <1>3, <1>4, <1>5, <1>6

\* A label does not lead out of the last blocks.
LEMMA StaysLast ==
    ASSUME NEW b, NEW V, Typed(b, V), NEW id \in First(b) .. Size(b) - 1,
           NEW label \in 0 .. BLOCK_SIZE - 1
    PROVE  id ^^ label \in First(b) .. Size(b) - 1
<1>1. PICK m \in Nat \ {0}, l \in Nat \ {0} :
        m = BLOCK_SIZE /\ l = NUM_EXTRA_BLOCKS /\ NUM_EXTRAS = m * l /\ TwoPower(m)
  BY Sizes
<1>2. PICK k \in Nat : Size(b) = m * k
  BY <1>1 DEF Typed
<1>3. PICK f \in Int : First(b) = m * f /\ m * f \in Nat
  <2>1. CASE Size(b) > NUM_EXTRAS
    <3>1. PICK d \in Int : d = k - l
      OBVIOUS
    <3>2. m * (k - l) = m * k - m * l
      OBVIOUS
    <3>3. First(b) = m * d /\ m * d \in Nat
      BY <1>1, <1>2, <2>1, <3>1, <3>2 DEF First, Oldest
    <3> QED
      BY <3>3
  <2>2. CASE ~ (Size(b) > NUM_EXTRAS)
    <3>1. First(b) = 0 /\ m * 0 = 0
      BY <2>2 DEF First, Oldest
    <3> QED
      BY <3>1
  <2> QED
    BY <2>1, <2>2
<1>4. id \in Nat /\ m * k \in Nat /\ m * f <= id /\ id < m * k
  BY <1>2, <1>3
<1>5. PICK q \in Int : \E r \in 0 .. m - 1 : id = m * q + r
  BY <1>4, Division, ZenonT(60)
<1>6. PICK r \in 0 .. m - 1 : q \in Int /\ id = m * q + r
  BY <1>5
<1>7. m * f <= m * q /\ m * q + m <= m * k
  BY <1>4, <1>6, StretchBounds
<1>8. q \in Nat
  <2> SUFFICES ASSUME q < 0 PROVE FALSE
    OBVIOUS
  <2>1. PICK d \in Nat : q = -1 - d
    <3>1. -1 - q \in Nat /\ q = -1 - (-1 - q)
      OBVIOUS
    <3> QED
      BY <3>1
  <2>2. m * (-1 - d) = -m - m * d /\ m * d \in Nat
    OBVIOUS
  <2> QED
    BY <1>3, <1>7, <2>1, <2>2
<1>9. PICK a \in Nat : a = m * q /\ a = q * m
  BY <1>8
<1>10. q * m <= id /\ id < q * m + m
  BY <1>6, <1>9
<1>11. label \in Nat /\ label < m
  BY <1>1
<1>12. q * m <= id ^^ label /\ id ^^ label < q * m + m
  BY <1>1, <1>4, <1>8, <1>10, <1>11, XorStays
<1>13. id ^^ label \in Nat
  BY <1>4, <1>11, XorNat
<1> QED
  BY <1>2, <1>3, <1>4, <1>7, <1>9, <1>12, <1>13

\* Nor out of the block that would be the next.
LEMMA StaysNext ==
    ASSUME NEW b, NEW V, Typed(b, V), NEW id \in Size(b) .. Size(b) + BLOCK_SIZE - 1,
           NEW label \in 0 .. BLOCK_SIZE - 1
    PROVE  id ^^ label \in Size(b) .. Size(b) + BLOCK_SIZE - 1
<1>1. PICK m \in Nat \ {0} : m = BLOCK_SIZE /\ TwoPower(m)
  BY Sizes
<1>2. PICK k \in Nat : Size(b) = m * k
  BY <1>1 DEF Typed
<1>3. PICK a \in Nat : a = m * k /\ a = k * m
  BY <1>2
<1>4. id \in Nat /\ label \in Nat /\ label < m /\ k * m <= id /\ id < k * m + m
  BY <1>1, <1>2, <1>3
<1>5. k * m <= id ^^ label /\ id ^^ label < k * m + m
  BY <1>1, <1>4, XorStays
<1>6. id ^^ label \in Nat
  BY <1>4, XorNat
<1> QED
  BY <1>1, <1>2, <1>3, <1>5, <1>6

\* The units and bases that set_offset can join.
Within == 0 .. MaxOffset - 1

\* Two of them are at a distance that is one.
LEMMA XorWithin ==
    ASSUME NEW a \in Within, NEW b \in Within
    PROVE  a ^^ b \in Within
<1>1. PICK n \in Nat \ {0} : n = MaxOffset
  BY LimitAssumption
<1>2. TwoPower(n)
  BY <1>1, LimitAssumption DEF TwoPower
<1>3. a \in Nat /\ b \in Nat /\ a < n /\ b < n
  BY <1>1 DEF Within
<1>4. PICK q \in Nat : q = 0 /\ q * n = 0
  OBVIOUS
<1>5. q * n <= a ^^ b /\ a ^^ b < q * n + n
  BY <1>2, <1>3, <1>4, XorStays
<1>6. a ^^ b \in Nat
  BY <1>3, XorNat
<1> QED
  BY <1>1, <1>4, <1>5, <1>6 DEF Within

\* Labels are among them.
LEMMA LabelWithin == 0 \in Within /\ 0 .. BLOCK_SIZE - 1 \subseteq Within
BY SizeAssumption, LimitAssumption DEF Within

\* A base at a distance from such a unit that is not too large is one.
LEMMA BaseWithin ==
    ASSUME NEW id \in Within, NEW offset \in Nat
    PROVE  offset \in Within <=> ~ TooLarge(id ^^ offset)
<1>1. id \in Nat /\ MaxOffset \in Nat
  BY LimitAssumption DEF Within
<1>2. PICK rel \in Nat : rel = id ^^ offset
  BY <1>1, XorNat
<1>3. rel \in Within <=> ~ TooLarge(rel)
  BY <1>1, <1>2 DEF Within, TooLarge
<1>4. ASSUME rel \in Within PROVE offset \in Within
  <2>1. id ^^ rel = offset
    BY <1>1, <1>2, XorTwice, XorSymmetric
  <2> QED
    BY <1>4, <2>1, XorWithin
<1>5. ASSUME offset \in Within PROVE rel \in Within
  BY <1>2, <1>5, XorWithin
<1> QED
  BY <1>2, <1>3, <1>4, <1>5

\* The units of the children at a base.
Targets(offset, labels, lo, n) == {offset ^^ labels[i] : i \in lo .. n}

\* find_valid_offset finds a base whose units can be reserved.
LEMMA OffsetIs ==
    ASSUME NEW b, NEW V, Ring(b, V), NEW id \in Nat, NEW n \in Nat \ {0},
           NEW labels \in [1 .. n -> 0 .. BLOCK_SIZE - 1],
           NEW offset, offset = FindValidOffset(b, id, labels)
    PROVE  /\ offset \in Nat /\ offset < Size(b) + BLOCK_SIZE
           /\ Ready(b, Targets(offset, labels, 1, n))
<1>1. Typed(b, V)
  BY DEF Ring
<1>2. PICK size \in Nat : size = Size(b)
  BY <1>1, TypedIs
<1>3. PICK m \in Nat \ {0} : m = BLOCK_SIZE
  BY Sizes
<1>4. \A i \in 1 .. n : labels[i] \in 0 .. m - 1 /\ labels[i] \in Nat
  BY <1>3
<1>5. Len(labels) = n
  BY FunctionIsSeq
<1>6. PICK free : free = FreeList(b)
  OBVIOUS
<1>7. PICK S : S = Open(b)
  OBVIOUS
<1>8. S \in SUBSET Nat /\ S \subseteq 0 .. size - 1
  BY <1>1, <1>2, <1>7, TypedIs
<1>9. PICK c \in Nat : DOMAIN free = 1 .. c /\ \A i \in 1 .. c : free[i] \in S
  <2>1. IsFiniteSet(S)
    <3>1. IsFiniteSet(0 .. size - 1)
      BY FS_Interval
    <3> QED
      BY <1>8, <3>1, FS_Subset
  <2>2. S \in SUBSET Int
    BY <1>8
  <2>3. free = Sorted(S)
    BY <1>6, <1>7, FreeListIs
  <2> QED
    BY <2>1, <2>2, <2>3, SortedIs
<1>10. PICK valid : valid = {i \in DOMAIN free : IsValidOffset(b, id, labels, free[i] ^^ labels[1])}
  OBVIOUS
<1>11. offset = IF valid = {} THEN Size(b) + (id % BLOCK_SIZE)
                ELSE free[CHOOSE i \in valid : \A j \in valid : i <= j] ^^ labels[1]
  BY <1>6, <1>10 DEF FindValidOffset
<1>12. CASE valid = {}
  <2>1. id % m \in 0 .. m - 1
    BY <1>3
  <2>2. offset = size + (id % m)
    BY <1>2, <1>3, <1>11, <1>12
  <2>3. offset \in Size(b) .. Size(b) + BLOCK_SIZE - 1 /\ offset \in Nat
    BY <1>2, <1>3, <2>1, <2>2
  <2>4. \A i \in 1 .. n : offset ^^ labels[i] \in Size(b) .. Size(b) + BLOCK_SIZE - 1
    BY <1>1, <2>3, StaysNext
  <2> QED
    BY <1>2, <1>3, <2>3, <2>4 DEF Ready, Targets
<1>13. CASE valid # {}
  <2>1. valid \in SUBSET Nat /\ valid \subseteq 1 .. c
    BY <1>9, <1>10
  <2>2. \E i \in valid : \A j \in valid : ~ (j < i)
    BY <1>13, <2>1, LeastNumber
  <2>3. \E i \in valid : \A j \in valid : i <= j
    BY <2>1, <2>2
  <2>4. PICK i \in valid : i = CHOOSE k \in valid : \A j \in valid : k <= j
    BY <2>3
  <2>5. PICK x : x = free[i]
    OBVIOUS
  <2>6. x \in S /\ x \in Nat
    BY <1>8, <1>9, <2>1, <2>5
  <2>7. offset = x ^^ labels[1]
    BY <1>11, <1>13, <2>4, <2>5
  <2>8. IsValidOffset(b, id, labels, offset)
    BY <1>10, <2>4, <2>5, <2>7
  <2>9. 1 \in 1 .. n
    OBVIOUS
  <2>10. x \in First(b) .. Size(b) - 1
    BY <1>1, <1>7, <2>6, TypedIs
  <2>11. offset \in First(b) .. Size(b) - 1
    BY <1>1, <2>7, <2>9, <2>10, StaysLast
  <2>12. offset \in Nat /\ offset < Size(b) + BLOCK_SIZE
    <3>1. offset \in Nat
      BY <1>4, <2>6, <2>7, <2>9, XorNat
    <3> QED
      BY <1>2, <1>3, <2>11, <3>1
  <2>13. offset ^^ labels[1] = x
    BY <1>4, <2>6, <2>7, <2>9, XorTwice
  <2>14. ASSUME NEW j \in 1 .. n PROVE offset ^^ labels[j] \in S
    <3>1. CASE j = 1
      BY <2>6, <2>13, <3>1
    <3>2. CASE j # 1
      <4>1. j \in 2 .. Len(labels)
        BY <1>5, <3>2
      <4>2. ~ Extra(b, offset ^^ labels[j]).is_fixed
        BY <2>8, <4>1 DEF IsValidOffset
      <4>3. offset ^^ labels[j] \in First(b) .. Size(b) - 1
        BY <1>1, <2>11, StaysLast
      <4> QED
        BY <1>7, <4>2, <4>3 DEF Open
    <3> QED
      BY <3>1, <3>2
  <2> QED
    BY <1>7, <2>12, <2>14 DEF Ready, Targets
<1> QED
  BY <1>12, <1>13

--------
(***************************************************************************)
(* Arranging a node.                                                       *)
(***************************************************************************)

\* The two fields of a node with a base are set.
LEMMA BaseSet ==
    ASSUME NEW b, NEW V, Ring(b, V), NEW i, NEW o \in Nat, NEW l \in BOOLEAN,
           NEW c, c = [b EXCEPT !.units[i].offset = o, !.units[i].has_leaf = l]
    PROVE  Kept(b, c, V)
<1>1. Typed(b, V)
  BY DEF Ring
<1>2. PICK v \in Seq(UnitSet(V)) : v = b.units /\ Len(v) = Size(b)
  BY <1>1 DEF Typed, Size
<1>3. v \in [1 .. Size(b) -> UnitSet(V)]
  BY <1>2, SeqIsFunction
<1>4. PICK x : x = [v[i] EXCEPT !.offset = o]
  OBVIOUS
<1>5. PICK y : y = [x EXCEPT !.has_leaf = l]
  OBVIOUS
<1>6. i \in 1 .. Size(b) => x \in UnitSet(V) /\ y \in UnitSet(V)
  <2> SUFFICES ASSUME i \in 1 .. Size(b) PROVE x \in UnitSet(V) /\ y \in UnitSet(V)
    OBVIOUS
  <2>1. PICK z \in UnitSet(V) : z = v[i]
    BY <1>3
  <2>2. x \in UnitSet(V)
    BY <1>4, <2>1 DEF UnitSet
  <2> QED
    BY <1>5, <2>2 DEF UnitSet
<1>7. c = [b EXCEPT !.units = [@ EXCEPT ![i] = y]]
  <2>1. PICK w : w = [v EXCEPT ![i].offset = o]
    OBVIOUS
  <2>2. PICK u : u = [w EXCEPT ![i].has_leaf = l]
    OBVIOUS
  <2>3. c = [b EXCEPT !.units = u]
    BY <1>2, <2>1, <2>2
  <2>5. w = [j \in DOMAIN v |-> IF j = i THEN x ELSE v[j]]
    BY <1>3, <1>4, <2>1
  <2>6. u = [j \in DOMAIN v |-> IF j = i THEN y ELSE v[j]]
    BY <1>5, <2>2, <2>5
  <2>7. u = [v EXCEPT ![i] = y]
    BY <1>3, <2>6
  <2> QED
    BY <1>2, <2>3, <2>7
<1> QED
  BY <1>6, <1>7, UnitSetTo

\* An offset as it is stored is a number.
LEMMA StoredIs ==
    ASSUME NEW offset \in Nat
    PROVE  StoredOffset(offset) \in Nat
<1>1. PICK m \in Nat \ {0} : m = BLOCK_SIZE
  BY Sizes
<1>2. PICK q \in Int : \E r \in 0 .. m - 1 : q = offset \div m /\ r = offset % m /\ offset = m * q + r
  BY Division
<1>3. PICK r \in 0 .. m - 1 : q \in Int /\ q = offset \div m /\ r = offset % m /\ offset = m * q + r
  BY <1>2
<1>4. q >= 0
  <2> SUFFICES ASSUME q < 0 PROVE FALSE
    OBVIOUS
  <2>1. PICK d \in Nat : q = -1 - d
    <3>1. -1 - q \in Nat /\ q = -1 - (-1 - q)
      OBVIOUS
    <3> QED
      BY <3>1
  <2>2. m * (-1 - d) = -m - m * d /\ m * d \in Nat
    OBVIOUS
  <2> QED
    BY <1>3, <2>1, <2>2
<1>5. m * q \in Nat /\ offset - r = m * q
  BY <1>3, <1>4
<1> QED
  BY <1>1, <1>3, <1>5 DEF StoredOffset

\* The unit of a leaf, field by field.
LEMMA ValueUnitIs ==
    ASSUME NEW value
    PROVE  ValueUnit(value) = [label |-> NoLabel, offset |-> 0, has_leaf |-> FALSE, value |-> value]
<1>1. PICK l, a, o, v : l = FALSE /\ a = 0 /\ o = 0 /\ v = -1
  OBVIOUS
<1>2. PICK x : x = [label |-> a, offset |-> o, has_leaf |-> l, value |-> v]
  OBVIOUS
<1>3. FreeUnit = x
  BY <1>1, <1>2 DEF FreeUnit
<1>4. PICK n : n = NoLabel
  OBVIOUS
<1>5. PICK y : y = [x EXCEPT !.label = n]
  OBVIOUS
<1>6. y = [label |-> n, offset |-> o, has_leaf |-> l, value |-> v]
  BY <1>2, <1>5
<1>7. [y EXCEPT !.value = value]
        = [label |-> n, offset |-> o, has_leaf |-> l, value |-> value]
  BY <1>6
<1>8. ValueUnit(value) = [y EXCEPT !.value = value]
  BY <1>3, <1>4, <1>5 DEF ValueUnit
<1> QED
  BY <1>1, <1>4, <1>7, <1>8

\* A child of a node gets its unit.
PlacedAt(c, offset, kid) ==
    [Reserve(c, offset ^^ kid.label) EXCEPT
       !.units[(offset ^^ kid.label) + 1] =
         IF kid.label = 0 THEN ValueUnit(kid.value)
         ELSE [@ EXCEPT !.label = kid.label]]

\* It leaves the units of the other children as they were.
LEMMA PlacedIs ==
    ASSUME NEW b, NEW V, Ring(b, V), -1 \in V, NEW T, Ready(b, T), NEW offset, NEW kid,
           offset ^^ kid.label \in T, kid.label \in 0 .. BLOCK_SIZE - 1,
           kid.label = 0 => kid.value \in V, NEW c, c = PlacedAt(b, offset, kid)
    PROVE  Ring(c, V) /\ T \ {offset ^^ kid.label} \subseteq Open(c) /\ c.table = b.table
<1>1. PICK id \in T : id = offset ^^ kid.label
  OBVIOUS
<1>2. PICK r : r = Reserve(b, id)
  OBVIOUS
<1>3. Ring(r, V) /\ T \ {id} \subseteq Open(r) /\ r.table = b.table
  BY <1>2, ReserveIs
<1>4. PICK label \in 0 .. BLOCK_SIZE - 1 : label = kid.label
  OBVIOUS
<1>5. Typed(r, V)
  BY <1>3 DEF Ring
<1>6. PICK v \in Seq(UnitSet(V)) : v = r.units /\ Len(v) = Size(r)
  BY <1>5 DEF Typed, Size
<1>7. v \in [1 .. Size(r) -> UnitSet(V)]
  BY <1>6, SeqIsFunction
<1>8. PICK x : x = IF label = 0 THEN ValueUnit(kid.value) ELSE [v[id + 1] EXCEPT !.label = label]
  OBVIOUS
<1>9. id + 1 \in 1 .. Size(r) => x \in UnitSet(V)
  <2>1. CASE label = 0
    <3>1. ValueUnit(kid.value) = [label |-> NoLabel, offset |-> 0, has_leaf |-> FALSE,
                                  value |-> kid.value]
      BY ValueUnitIs
    <3>2. kid.value \in V
      BY <1>4, <2>1
    <3>3. x = [label |-> NoLabel, offset |-> 0, has_leaf |-> FALSE, value |-> kid.value]
      BY <1>8, <2>1, <3>1
    <3> QED
      BY <3>2, <3>3 DEF UnitSet
  <2>2. CASE label # 0
    <3> SUFFICES ASSUME id + 1 \in 1 .. Size(r) PROVE x \in UnitSet(V)
      OBVIOUS
    <3>1. PICK z \in UnitSet(V) : z = v[id + 1]
      BY <1>7
    <3>2. x = [z EXCEPT !.label = label]
      BY <1>8, <2>2, <3>1
    <3> QED
      BY <1>4, <3>1, <3>2 DEF UnitSet
  <2> QED
    BY <2>1, <2>2
<1>10. c = [r EXCEPT !.units = [@ EXCEPT ![id + 1] = x]]
  BY <1>1, <1>2, <1>4, <1>6, <1>8 DEF PlacedAt
<1>11. Kept(r, c, V)
  BY <1>3, <1>9, <1>10, UnitSetTo
<1> QED
  BY <1>1, <1>3, <1>11 DEF Kept

\* The loop over the children: the n-th turn.
PlaceTurn(b, offset, kids, h, n) == IF n = 0 THEN b ELSE PlacedAt(h[n - 1], offset, kids[n])

IsPlaceRun(b, offset, kids, K, h) == h = [n \in 0 .. K |-> PlaceTurn(b, offset, kids, h, n)]

\* The recursion that stands for that loop has a solution.
LEMMA PlaceRuns ==
    ASSUME NEW b, NEW offset, NEW kids, NEW K \in Nat
    PROVE  \E h : IsPlaceRun(b, offset, kids, K, h)
<1> DEFINE Runs(m) == \E h : h = [n \in 0 .. m |-> PlaceTurn(b, offset, kids, h, n)]
           Stuck == {m \in 0 .. K : ~ Runs(m)}
<1>1. Runs(0)
  <2>1. PICK x : x = PlaceTurn(b, offset, kids, <<>>, 0)
    OBVIOUS
  <2>2. PICK h : h = [n \in 0 .. 0 |-> x]
    OBVIOUS
  <2>3. \A n \in 0 .. 0 : PlaceTurn(b, offset, kids, h, n) = x
    BY <2>1 DEF PlaceTurn
  <2> QED
    BY <2>2, <2>3
<1>2. ASSUME NEW m \in 1 .. K, Runs(m - 1) PROVE Runs(m)
  <2>1. PICK h : h = [n \in 0 .. m - 1 |-> PlaceTurn(b, offset, kids, h, n)]
    BY <1>2
  <2>2. PICK g : g = [n \in 0 .. m |-> IF n < m THEN h[n] ELSE PlaceTurn(b, offset, kids, h, m)]
    OBVIOUS
  <2>3. ASSUME NEW n \in 0 .. m PROVE g[n] = PlaceTurn(b, offset, kids, g, n)
    <3>1. n # 0 => n - 1 \in 0 .. m - 1 /\ g[n - 1] = h[n - 1]
      BY <2>2
    <3>2. PlaceTurn(b, offset, kids, g, n) = PlaceTurn(b, offset, kids, h, n)
      BY <3>1 DEF PlaceTurn
    <3>3. CASE n < m
      <4>1. n \in 0 .. m - 1
        BY <3>3
      <4> QED
        BY <2>1, <2>2, <3>2, <3>3, <4>1
    <3>4. CASE n = m
      BY <2>2, <3>2, <3>4
    <3> QED
      BY <3>3, <3>4
  <2>4. g = [n \in 0 .. m |-> PlaceTurn(b, offset, kids, g, n)]
    BY <2>2, <2>3
  <2> QED
    BY <2>4
<1> HIDE DEF Runs
<1>3. Stuck = {}
  <2> SUFFICES ASSUME Stuck # {} PROVE FALSE
    OBVIOUS
  <2> Stuck \in SUBSET Nat
    OBVIOUS
  <2>1. PICK m \in Stuck : \A n \in Stuck : ~ (n < m)
    BY LeastNumber
  <2>2. m \in 1 .. K /\ m - 1 \in 0 .. K /\ m - 1 < m
    BY <1>1, <2>1
  <2>3. Runs(m - 1)
    BY <2>1, <2>2
  <2> QED
    BY <1>2, <2>1, <2>2, <2>3
<1>4. Runs(K)
  BY <1>3
<1> QED
  BY <1>4 DEF Runs, IsPlaceRun

\* Children with labels of their own, and values from V.
KidsFit(kids, n, V) ==
    /\ n \in Nat \ {0} /\ DOMAIN kids = 1 .. n /\ Len(kids) = n
    /\ \A i \in 1 .. n : /\ kids[i].label \in 0 .. BLOCK_SIZE - 1
                         /\ kids[i].label = 0 => kids[i].value \in V
    /\ \A i, j \in 1 .. n : kids[i].label = kids[j].label => i = j

\* Every child finds its unit free.
LEMMA PlaceRunIs ==
    ASSUME NEW b, NEW V, Ring(b, V), -1 \in V, NEW offset \in Nat, NEW kids, NEW n,
           KidsFit(kids, n, V), Ready(b, {offset ^^ kids[i].label : i \in 1 .. n}),
           NEW h, IsPlaceRun(b, offset, kids, n, h)
    PROVE  Ring(h[n], V) /\ h[n].table = b.table
<1>1. /\ n \in Nat \ {0}
      /\ \A i \in 1 .. n : /\ kids[i].label \in 0 .. BLOCK_SIZE - 1
                           /\ kids[i].label = 0 => kids[i].value \in V
      /\ \A i, j \in 1 .. n : kids[i].label = kids[j].label => i = j
  BY DEF KidsFit
<1>2. h[0] = b /\ \A k \in 1 .. n : h[k] = PlacedAt(h[k - 1], offset, kids[k])
  BY <1>1 DEF IsPlaceRun, PlaceTurn
<1>3. PICK m \in Nat \ {0} : m = BLOCK_SIZE
  BY Sizes
<1>4. \A i \in 1 .. n : kids[i].label \in Nat
  BY <1>1, <1>3
<1>5. \A i, j \in 1 .. n : offset ^^ kids[i].label = offset ^^ kids[j].label => i = j
  BY <1>1, <1>4, XorApart
<1>6. PICK T : T = [k \in 0 .. n |-> {offset ^^ kids[i].label : i \in k + 1 .. n}]
  OBVIOUS
<1> DEFINE Good(k) == Ring(h[k], V) /\ Ready(h[k], T[k]) /\ h[k].table = b.table
           Bad == {k \in 0 .. n : ~ Good(k)}
<1>7. Good(0)
  BY <1>1, <1>2, <1>6
<1>8. ASSUME NEW k \in 1 .. n, Good(k - 1) PROVE Good(k)
  <2>1. k - 1 \in 0 .. n /\ k \in 0 .. n /\ k \in k .. n /\ k \in 1 .. n
    BY <1>1
  <2>2. PICK label \in Nat : label = kids[k].label
    BY <1>4
  <2>3. T[k - 1] = {offset ^^ kids[i].label : i \in k .. n}
    BY <1>1, <1>6, <2>1
  <2>4. offset ^^ kids[k].label \in T[k - 1]
    BY <2>1, <2>3
  <2>5. PICK t : t = T[k - 1]
    OBVIOUS
  <2>6. PICK d : d = h[k - 1]
    OBVIOUS
  <2>7. PICK kid : kid = kids[k]
    OBVIOUS
  <2>8. Ring(d, V) /\ Ready(d, t) /\ d.table = b.table
    BY <1>8, <2>5, <2>6
  <2>9. /\ offset ^^ kid.label \in t /\ kid.label \in 0 .. BLOCK_SIZE - 1
        /\ kid.label = 0 => kid.value \in V
        /\ h[k] = PlacedAt(d, offset, kid)
    BY <1>1, <1>2, <2>4, <2>5, <2>6, <2>7
  <2>10. /\ Ring(h[k], V) /\ t \ {offset ^^ kid.label} \subseteq Open(h[k])
         /\ h[k].table = d.table
    BY <2>8, <2>9, PlacedIs
  <2>11. T[k] \subseteq t \ {offset ^^ kid.label}
    <3>1. T[k] = {offset ^^ kids[i].label : i \in k + 1 .. n}
      BY <1>6, <2>1
    <3>2. \A i \in k + 1 .. n : i \in k .. n /\ i \in 1 .. n /\ i # k
      BY <1>1
    <3> QED
      BY <1>5, <2>1, <2>3, <2>5, <2>7, <3>1, <3>2
  <2> QED
    BY <2>8, <2>10, <2>11 DEF Ready
<1> HIDE DEF Good
<1>9. Bad = {}
  <2> SUFFICES ASSUME Bad # {} PROVE FALSE
    OBVIOUS
  <2> Bad \in SUBSET Nat
    BY <1>1
  <2>1. PICK k \in Bad : \A j \in Bad : ~ (j < k)
    BY LeastNumber
  <2>2. k \in 1 .. n /\ k - 1 \in 0 .. n /\ k - 1 < k
    BY <1>1, <1>7, <2>1
  <2>3. Good(k - 1)
    BY <2>1, <2>2
  <2> QED
    BY <1>8, <2>1, <2>2, <2>3
<1>10. Good(n)
  BY <1>1, <1>9
<1> QED
  BY <1>10 DEF Good

\* Arrange in these terms.
LabelsOf(kids) == [i \in DOMAIN kids |-> kids[i].label]

Based(b, id, offset, labels) ==
    [b EXCEPT !.units[id + 1].offset = StoredOffset(id ^^ offset),
              !.units[id + 1].has_leaf = labels[1] = 0]

PlaceRun(b, offset, kids) == CHOOSE g : IsPlaceRun(b, offset, kids, Len(kids), g)

AllPlaced(b, offset, kids) ==
    [PlaceRun(b, offset, kids)[Len(kids)] EXCEPT !.extras[Slot(offset)].is_used = TRUE]

\* arrange_from_keyset and arrange_from_dawg in these terms.
LEMMA ArrangeSteps ==
    ASSUME NEW b, NEW id, NEW kids
    PROVE  Arrange(b, id, kids) =
             [offset |-> FindValidOffset(b, id, LabelsOf(kids)),
              builder |-> AllPlaced(Based(b, id, FindValidOffset(b, id, LabelsOf(kids)),
                                          LabelsOf(kids)),
                                    FindValidOffset(b, id, LabelsOf(kids)), kids)]
BY Zenon DEF Arrange, LabelsOf, Based, AllPlaced, PlaceRun, IsPlaceRun, PlaceTurn, PlacedAt

\* arrange_from_keyset and arrange_from_dawg keep the list.
LEMMA ArrangeIs ==
    ASSUME NEW b, NEW V, Ring(b, V), -1 \in V, NEW id \in Nat, NEW kids, NEW n,
           KidsFit(kids, n, V), NEW a, a = Arrange(b, id, kids)
    PROVE  /\ Ring(a.builder, V) /\ a.builder.table = b.table
           /\ a.offset \in Nat /\ a.offset < Size(b) + BLOCK_SIZE
<1>1. n \in Nat \ {0} /\ DOMAIN kids = 1 .. n /\ Len(kids) = n
  BY DEF KidsFit
<1>2. PICK labels : labels = LabelsOf(kids)
  OBVIOUS
<1>3. labels \in [1 .. n -> 0 .. BLOCK_SIZE - 1]
  BY <1>1, <1>2 DEF KidsFit, LabelsOf
<1>4. PICK offset : offset = FindValidOffset(b, id, labels)
  OBVIOUS
<1>5. /\ offset \in Nat /\ offset < Size(b) + BLOCK_SIZE
      /\ Ready(b, Targets(offset, labels, 1, n))
  BY <1>1, <1>3, <1>4, OffsetIs
<1>6. PICK o \in Nat : o = StoredOffset(id ^^ offset)
  BY <1>5, XorNat, StoredIs
<1>7. PICK l \in BOOLEAN : l = (labels[1] = 0)
  OBVIOUS
<1>8. PICK based : based = Based(b, id, offset, labels)
  OBVIOUS
<1>9. Kept(b, based, V)
  <2>1. based = [b EXCEPT !.units[id + 1].offset = o, !.units[id + 1].has_leaf = l]
    BY <1>6, <1>7, <1>8 DEF Based
  <2> QED
    BY <2>1, BaseSet
<1>10. Ready(based, {offset ^^ kids[i].label : i \in 1 .. n})
  <2>1. Targets(offset, labels, 1, n) = {offset ^^ kids[i].label : i \in 1 .. n}
    BY <1>1, <1>2 DEF Targets, LabelsOf
  <2> QED
    BY <1>5, <1>9, <2>1 DEF Kept, Ready
<1>11. PICK h : h = PlaceRun(based, offset, kids)
  OBVIOUS
<1>12. IsPlaceRun(based, offset, kids, n, h)
  <2>1. \E g : IsPlaceRun(based, offset, kids, n, g)
    BY <1>1, PlaceRuns
  <2> QED
    BY <1>1, <1>11, <2>1 DEF PlaceRun
<1>13. Ring(h[n], V) /\ h[n].table = b.table
  <2>1. Ring(based, V) /\ based.table = b.table
    BY <1>9 DEF Kept
  <2>2. Ring(h[n], V) /\ h[n].table = based.table
    BY <1>5, <1>10, <1>12, <2>1, PlaceRunIs
  <2> QED
    BY <2>1, <2>2
<1>14. PICK c : c = AllPlaced(based, offset, kids)
  OBVIOUS
<1>15. a = [offset |-> offset, builder |-> c]
  BY <1>2, <1>4, <1>8, <1>14, ArrangeSteps
<1>16. Kept(h[n], c, V)
  <2>1. c = [h[n] EXCEPT !.extras = [@ EXCEPT ![Slot(offset)].is_used = TRUE]]
    BY <1>1, <1>11, <1>14 DEF AllPlaced
  <2> QED
    BY <1>13, <2>1, MarkSet
<1> QED
  BY <1>5, <1>13, <1>15, <1>16 DEF Kept

--------
(***************************************************************************)
(* The beginning and the end of a build.                                   *)
(***************************************************************************)

\* The loop of fix_all_blocks.
BlockTurn(b, first, h, n) == IF n = 0 THEN b ELSE FixBlock(h[n - 1], first + n - 1)

IsBlockRun(b, first, K, h) == h = [n \in 0 .. K |-> BlockTurn(b, first, h, n)]

\* The recursion that stands for that loop has a solution.
LEMMA BlockRuns ==
    ASSUME NEW b, NEW first, NEW K \in Nat
    PROVE  \E h : IsBlockRun(b, first, K, h)
<1> DEFINE Runs(m) == \E h : h = [n \in 0 .. m |-> BlockTurn(b, first, h, n)]
           Stuck == {m \in 0 .. K : ~ Runs(m)}
<1>1. Runs(0)
  <2>1. PICK x : x = BlockTurn(b, first, <<>>, 0)
    OBVIOUS
  <2>2. PICK h : h = [n \in 0 .. 0 |-> x]
    OBVIOUS
  <2>3. \A n \in 0 .. 0 : BlockTurn(b, first, h, n) = x
    BY <2>1 DEF BlockTurn
  <2> QED
    BY <2>2, <2>3
<1>2. ASSUME NEW m \in 1 .. K, Runs(m - 1) PROVE Runs(m)
  <2>1. PICK h : h = [n \in 0 .. m - 1 |-> BlockTurn(b, first, h, n)]
    BY <1>2
  <2>2. PICK g : g = [n \in 0 .. m |-> IF n < m THEN h[n] ELSE BlockTurn(b, first, h, m)]
    OBVIOUS
  <2>3. ASSUME NEW n \in 0 .. m PROVE g[n] = BlockTurn(b, first, g, n)
    <3>1. n # 0 => n - 1 \in 0 .. m - 1 /\ g[n - 1] = h[n - 1]
      BY <2>2
    <3>2. BlockTurn(b, first, g, n) = BlockTurn(b, first, h, n)
      BY <3>1 DEF BlockTurn
    <3>3. CASE n < m
      <4>1. n \in 0 .. m - 1
        BY <3>3
      <4> QED
        BY <2>1, <2>2, <3>2, <3>3, <4>1
    <3>4. CASE n = m
      BY <2>2, <3>2, <3>4
    <3> QED
      BY <3>3, <3>4
  <2>4. g = [n \in 0 .. m |-> BlockTurn(b, first, g, n)]
    BY <2>2, <2>3
  <2> QED
    BY <2>4
<1> HIDE DEF Runs
<1>3. Stuck = {}
  <2> SUFFICES ASSUME Stuck # {} PROVE FALSE
    OBVIOUS
  <2> Stuck \in SUBSET Nat
    OBVIOUS
  <2>1. PICK m \in Stuck : \A n \in Stuck : ~ (n < m)
    BY LeastNumber
  <2>2. m \in 1 .. K /\ m - 1 \in 0 .. K /\ m - 1 < m
    BY <1>1, <2>1
  <2>3. Runs(m - 1)
    BY <2>1, <2>2
  <2> QED
    BY <1>2, <2>1, <2>2, <2>3
<1>4. Runs(K)
  BY <1>3
<1> QED
  BY <1>4 DEF Runs, IsBlockRun

\* The oldest block that has extras.
FirstBlock(b) ==
    IF NumBlocks(b) > NUM_EXTRA_BLOCKS THEN NumBlocks(b) - NUM_EXTRA_BLOCKS ELSE 0

BlockRun(b, first, K) == CHOOSE h : IsBlockRun(b, first, K, h)

\* fix_all_blocks in these terms.
LEMMA FixAllSteps ==
    ASSUME NEW b
    PROVE  FixAllBlocks(b) =
             BlockRun(b, FirstBlock(b), NumBlocks(b) - FirstBlock(b))[NumBlocks(b) - FirstBlock(b)]
BY Zenon DEF FixAllBlocks, BlockRun, IsBlockRun, BlockTurn, FirstBlock

\* fix_all_blocks keeps the list.
LEMMA FixAllIs ==
    ASSUME NEW b, NEW V, Ring(b, V), NEW c, c = FixAllBlocks(b)
    PROVE  Ring(c, V)
<1>1. Typed(b, V)
  BY DEF Ring
<1>2. PICK m \in Nat \ {0}, l \in Nat \ {0}, x \in Nat \ {0} :
        m = BLOCK_SIZE /\ l = NUM_EXTRA_BLOCKS /\ x = NUM_EXTRAS
  BY Sizes
<1>3. PICK k \in Nat :
             /\ NumBlocks(b) = k /\ Size(b) = k * BLOCK_SIZE
             /\ k + 1 > NUM_EXTRA_BLOCKS =>
                  /\ k - NUM_EXTRA_BLOCKS \in Nat
                  /\ (k - NUM_EXTRA_BLOCKS) * BLOCK_SIZE = Size(b) - NUM_EXTRAS
                  /\ Size(b) >= NUM_EXTRAS
             /\ ~ (k + 1 > NUM_EXTRA_BLOCKS) => Size(b) + BLOCK_SIZE <= NUM_EXTRAS
  BY <1>1, BlocksAre
<1>4. PICK n \in Nat : n = Size(b) /\ n = k * m
  BY <1>1, <1>2, <1>3, TypedIs
<1>5. PICK f : f = FirstBlock(b)
  OBVIOUS
<1>6. f \in Nat /\ f <= k /\ First(b) <= f * m
  <2>1. CASE k > l
    <3>1. f = k - l /\ f \in Nat /\ f * m = n - x /\ n >= x
      BY <1>2, <1>3, <1>4, <1>5, <2>1 DEF FirstBlock
    <3> QED
      BY <1>2, <1>4, <2>1, <3>1 DEF First, Oldest
  <2>2. CASE ~ (k > l)
    <3>1. f = 0 /\ f * m = 0
      BY <1>2, <1>3, <1>5, <2>2 DEF FirstBlock
    <3>2. n <= x
      <4>1. CASE k = l
        <5>1. (k - l) * m = 0
          BY <4>1
        <5>2. k + 1 > l
          BY <4>1
        <5> QED
          BY <1>2, <1>3, <1>4, <5>1, <5>2
      <4>2. CASE k # l
        <5>1. ~ (k + 1 > l)
          BY <2>2, <4>2
        <5> QED
          BY <1>2, <1>3, <1>4, <5>1
      <4> QED
        BY <4>1, <4>2
    <3> QED
      BY <1>2, <1>4, <3>1, <3>2 DEF First, Oldest
  <2> QED
    BY <2>1, <2>2
<1>7. PICK K \in Nat : K = k - f
  BY <1>6
<1>8. PICK h : h = BlockRun(b, f, K)
  OBVIOUS
<1>9. IsBlockRun(b, f, K, h)
  <2>1. \E g : IsBlockRun(b, f, K, g)
    BY BlockRuns
  <2> QED
    BY <1>8, <2>1 DEF BlockRun
<1>10. c = h[K]
  BY <1>3, <1>5, <1>7, <1>8, FixAllSteps
<1>11. \A i \in 0 .. K : h[i] = BlockTurn(b, f, h, i)
  BY <1>9 DEF IsBlockRun
<1> DEFINE Good(i) == Ring(h[i], V) /\ Size(h[i]) = n
           Bad == {i \in 0 .. K : ~ Good(i)}
<1>12. Good(0)
  <2>1. h[0] = b
    BY <1>11 DEF BlockTurn
  <2> QED
    BY <1>4, <2>1
<1>13. ASSUME NEW i \in 1 .. K, Good(i - 1) PROVE Good(i)
  <2>1. PICK d : d = h[i - 1]
    OBVIOUS
  <2>2. PICK block \in Nat : block = f + i - 1
    BY <1>6
  <2>3. h[i] = FixBlock(d, block)
    BY <1>11, <2>1, <2>2 DEF BlockTurn
  <2>4. PICK begin \in Nat : begin = block * m
    OBVIOUS
  <2>5. First(d) <= begin
    <3>1. First(d) = First(b)
      BY <1>4, <1>13, <2>1 DEF First
    <3>2. First(b) \in Nat
      BY <1>1, TypedIs
    <3>3. block * m = f * m + (i - 1) * m /\ (i - 1) * m \in Nat /\ f * m \in Nat
      <4>1. PICK j \in Nat : j = i - 1
        OBVIOUS
      <4>2. (f + j) * m = f * m + j * m /\ j * m \in Nat /\ f * m \in Nat
        BY <1>6
      <4> QED
        BY <1>6, <2>2, <4>1, <4>2
    <3> QED
      BY <1>6, <2>4, <3>1, <3>2, <3>3
  <2>6. begin + BLOCK_SIZE <= Size(d)
    <3>1. PICK j \in Nat : j = k - (block + 1)
      BY <1>6, <1>7, <2>2
    <3>2. k = block + 1 + j
      BY <3>1
    <3>3. (block + 1 + j) * m = block * m + m + j * m /\ j * m \in Nat
      OBVIOUS
    <3>4. n = begin + m + j * m
      BY <1>4, <2>4, <3>2, <3>3
    <3> QED
      BY <1>2, <1>13, <2>1, <3>3, <3>4
  <2>7. LeftOpen(d, h[i], V, begin .. begin + BLOCK_SIZE - 1)
    BY <1>2, <1>13, <2>1, <2>3, <2>4, <2>5, <2>6, FixBlockIs
  <2> QED
    BY <1>13, <2>1, <2>7 DEF LeftOpen
<1> HIDE DEF Good
<1>14. Bad = {}
  <2> SUFFICES ASSUME Bad # {} PROVE FALSE
    OBVIOUS
  <2> Bad \in SUBSET Nat
    OBVIOUS
  <2>1. PICK i \in Bad : \A j \in Bad : ~ (j < i)
    BY LeastNumber
  <2>2. i \in 1 .. K /\ i - 1 \in 0 .. K /\ i - 1 < i
    BY <1>12, <2>1
  <2>3. Good(i - 1)
    BY <2>1, <2>2
  <2> QED
    BY <1>13, <2>1, <2>2, <2>3
<1>15. Good(K)
  BY <1>14
<1> QED
  BY <1>10, <1>15 DEF Good

\* What a builder starts with.
LEMMA EmptyRing ==
    ASSUME NEW V, NEW b,
           b = [units |-> <<>>, extras_head |-> 0, table |-> <<>>,
                extras |-> [i \in 0 .. NUM_EXTRAS - 1 |-> FreeExtra]]
    PROVE  Ring(b, V) /\ Size(b) = 0
<1>1. Size(b) = 0 /\ b.units = <<>> /\ b.extras_head = 0
      /\ b.extras = [i \in 0 .. NUM_EXTRAS - 1 |-> FreeExtra]
  BY DEF Size
<1>2. Open(b) = {}
  <2>1. First(b) .. Size(b) - 1 = {}
    <3>1. First(b) = 0
      BY <1>1, Sizes DEF First, Oldest
    <3> QED
      BY <1>1, <3>1
  <2> QED
    BY <2>1 DEF Open
<1>3. Typed(b, V)
  <2>1. <<>> \in Seq(UnitSet(V))
    OBVIOUS
  <2>2. FreeExtra \in ExtraSet(0) /\ FreeExtra.is_fixed = FALSE
    BY DEF FreeExtra, ExtraSet
  <2>3. b.extras \in [0 .. NUM_EXTRAS - 1 -> ExtraSet(Size(b))]
    BY <1>1, <2>2
  <2>4. \A s \in 0 .. NUM_EXTRAS - 1 : ~ b.extras[s].is_fixed
    BY <1>1, <2>2
  <2>5. Size(b) = BLOCK_SIZE * 0
    BY <1>1, Sizes
  <2>6. \E k \in Nat : Size(b) = BLOCK_SIZE * k
    BY <2>5
  <2>7. b = [units |-> b.units, extras_head |-> b.extras_head, table |-> b.table,
             extras |-> b.extras]
    OBVIOUS
  <2> QED
    BY <1>1, <2>1, <2>3, <2>4, <2>6, <2>7 DEF Typed
<1>4. Circle({}, Nexts(b), Prevs(b))
  BY DEF Circle
<1>5. FirstOf({}, 0, 0)
  BY DEF FirstOf
<1> QED
  BY <1>1, <1>2, <1>3, <1>4, <1>5 DEF Ring

\* The root is reserved in the first block.
LEMMA RootIs ==
    ASSUME NEW V, -1 \in V, NEW b, Ring(b, V), Size(b) = 0, NEW c, c = RootReserved(b)
    PROVE  Ring(c, V)
<1>1. PICK r : r = Reserve(b, 0)
  OBVIOUS
<1>2. PICK m \in Nat \ {0} : m = BLOCK_SIZE
  BY Sizes
<1>3. Ready(b, {0})
  BY <1>2 DEF Ready
<1>4. Ring(r, V) /\ 0 \in 0 .. Size(r) - 1
  <2>1. 0 \in {0}
    OBVIOUS
  <2> QED
    BY <1>1, <1>3, <2>1, ReserveIs
<1>5. PICK d : d = [r EXCEPT !.extras = [@ EXCEPT ![0].is_used = TRUE]]
  OBVIOUS
<1>6. Kept(r, d, V)
  BY <1>4, <1>5, MarkSet
<1>7. Ring(d, V)
  BY <1>6 DEF Kept
<1>8. PICK v \in Seq(UnitSet(V)) : v = d.units /\ Len(v) = Size(d)
  BY <1>7 DEF Ring, Typed, Size
<1>9. PICK x : x = [v[1] EXCEPT !.offset = 1]
  OBVIOUS
<1>10. 1 \in 1 .. Size(d) => x \in UnitSet(V)
  <2> SUFFICES ASSUME 1 \in 1 .. Size(d) PROVE x \in UnitSet(V)
    OBVIOUS
  <2>1. v \in [1 .. Size(d) -> UnitSet(V)]
    BY <1>8, SeqIsFunction
  <2>2. PICK z \in UnitSet(V) : z = v[1]
    BY <2>1
  <2> QED
    BY <1>9, <2>2 DEF UnitSet
<1>11. c = [d EXCEPT !.units = [@ EXCEPT ![1] = x]]
  <2>1. c = [d EXCEPT !.units[1].offset = 1]
    BY <1>1, <1>5 DEF RootReserved
  <2>2. c = [d EXCEPT !.units = [v EXCEPT ![1] = x]]
    BY <1>8, <1>9, <2>1
  <2> QED
    BY <1>8, <2>2
<1>12. Kept(d, c, V)
  BY <1>7, <1>10, <1>11, UnitSetTo
<1> QED
  BY <1>12 DEF Kept

--------
(***************************************************************************)
(* The children of a call for keys.                                        *)
(***************************************************************************)

\* Numbers that rise from each to the next rise from any to a later one.
LEMMA Rises ==
    ASSUME NEW n \in Nat, NEW L \in [1 .. n -> Int], \A c \in 1 .. n - 1 : L[c] < L[c + 1]
    PROVE  \A i, j \in 1 .. n : i < j => L[i] < L[j]
<1> SUFFICES ASSUME NEW i \in 1 .. n, NEW k \in 1 .. n, i < k, ~ (L[i] < L[k]) PROVE FALSE
  OBVIOUS
<1>1. PICK Bad : Bad = {j \in 1 .. n : i < j /\ ~ (L[i] < L[j])}
  OBVIOUS
<1> Bad \in SUBSET Nat
  BY <1>1
<1>2. Bad # {}
  BY <1>1
<1>3. PICK j \in Bad : \A c \in Bad : ~ (c < j)
  BY <1>2, LeastNumber
<1>4. j \in 1 .. n /\ i < j /\ ~ (L[i] < L[j])
  BY <1>1, <1>3
<1>5. PICK p \in 1 .. n - 1 : p = j - 1 /\ p + 1 = j
  BY <1>4
<1>6. L[p] < L[p + 1] /\ L[p] \in Int /\ L[p + 1] \in Int /\ L[i] \in Int
  BY <1>5
<1>7. CASE p = i
  BY <1>4, <1>5, <1>6, <1>7
<1>8. CASE p # i
  <2>1. p \in 1 .. n /\ i < p /\ p < j
    BY <1>4, <1>5, <1>8
  <2>2. p \notin Bad
    BY <1>3, <2>1
  <2>3. L[i] < L[p]
    BY <1>1, <2>1, <2>2
  <2> QED
    BY <1>4, <1>5, <1>6, <2>3
<1> QED
  BY <1>7, <1>8

\* The values a unit may have.
Values ==
    {-1} \union {keyset[i].value : i \in DOMAIN keyset} \union 0 .. Len(keyset) - 1

\* The children of a call whose keys are in order at its depth fit.
LEMMA KeysetKidsFit ==
    ASSUME keyset \in Keysets, NEW f, Shares(f), ~ has_values, ~ WrongOrder(f),
           NEW n \in Nat \ {0}, NEW kids, KidRuns(f, kids, n)
    PROVE  KidsFit(kids, n, Values)
<1>1. PICK size \in Nat : size = Len(keyset)
  BY KeysTyped
<1>2. PICK d \in Nat \ {0} : d = f.depth
  BY DEF Shares
<1>3. PICK lo \in Nat, hi \in Nat :
        lo = f.begin /\ hi = f.end - 1 /\ lo <= hi /\ 1 <= lo /\ hi <= size
  BY <1>1 DEF Shares
<1>4. PICK L : L = [i \in lo .. hi |-> KeyChar(i, d)]
  OBVIOUS
<1>5. ASSUME NEW i \in lo .. hi PROVE L[i] \in 0 .. BLOCK_SIZE - 1
  <2>1. i \in 1 .. Len(keyset)
    BY <1>1, <1>3
  <2>2. PICK k \in Seq(Labels) : k = keyset[i].key
    BY <2>1, KeysTyped
  <2>3. CharAt(k, d) = 0 \/ CharAt(k, d) \in Labels
    BY CharIs
  <2>4. L[i] = CharAt(k, d)
    BY <1>4, <2>2 DEF KeyChar
  <2>5. PICK m \in Nat \ {0} : m = BLOCK_SIZE
    BY Sizes
  <2>6. Labels \subseteq 1 .. m - 1
    BY <2>5, SizeAssumption
  <2>7. CharAt(k, d) \in 0 .. m - 1
    <3>1. PICK x : x = CharAt(k, d)
      OBVIOUS
    <3>2. x \in Labels => x \in 1 .. m - 1
      BY <2>6
    <3>3. x = 0 \/ x \in Labels
      BY <2>3, <3>1
    <3>4. x \in 0 .. m - 1
      BY <3>2, <3>3
    <3> QED
      BY <3>1, <3>4
  <2> QED
    BY <2>4, <2>5, <2>7
<1>6. \A i \in lo .. hi : L[i] \in Nat
  BY <1>5
<1>7. ASSUME NEW i \in lo .. hi - 1 PROVE L[i] <= L[i + 1]
  <2>1. i \in f.begin .. f.end - 2 /\ i \in lo .. hi /\ i + 1 \in lo .. hi
    <3>1. f.begin = lo /\ f.end - 2 = hi - 1
      BY <1>3 DEF Shares
    <3> QED
      BY <3>1
  <2>2. ~ (KeyChar(i, d) > KeyChar(i + 1, d))
    BY <1>2, <2>1 DEF WrongOrder
  <2>3. L[i] = KeyChar(i, d) /\ L[i + 1] = KeyChar(i + 1, d) /\ L[i] \in Nat /\ L[i + 1] \in Nat
    BY <1>4, <1>6, <2>1
  <2> QED
    BY <2>2, <2>3
<1>8. ASSUME NEW c \in 1 .. n
      PROVE  /\ kids[c].begin \in lo .. hi /\ kids[c].end - 1 \in kids[c].begin .. hi
             /\ kids[c].end \in Nat
             /\ L[kids[c].begin] = kids[c].label /\ L[kids[c].end - 1] = kids[c].label
  <2>1. /\ kids[c].begin \in f.begin .. f.end - 1
        /\ kids[c].end \in kids[c].begin + 1 .. f.end
        /\ \A i \in kids[c].begin .. kids[c].end - 1 : KeyChar(i, f.depth) = kids[c].label
    BY DEF KidRuns
  <2>2. PICK b \in lo .. hi : b = kids[c].begin
    BY <1>3, <2>1
  <2>3. f.end = hi + 1
    BY <1>3 DEF Shares
  <2>4. PICK e \in b + 1 .. hi + 1 : e = kids[c].end
    BY <1>3, <2>1, <2>2, <2>3
  <2>5. b \in b .. e - 1 /\ e - 1 \in b .. e - 1 /\ e - 1 \in lo .. hi
    BY <2>2, <2>4
  <2>6. L[b] = kids[c].label /\ L[e - 1] = kids[c].label
    BY <1>2, <1>4, <2>1, <2>2, <2>4, <2>5
  <2> QED
    BY <2>2, <2>4, <2>5, <2>6
<1>9. PICK M : M = [c \in 1 .. n |-> kids[c].label]
  OBVIOUS
<1>10. M \in [1 .. n -> Int] /\ \A c \in 1 .. n : M[c] \in 0 .. BLOCK_SIZE - 1
  <2>1. \A c \in 1 .. n : kids[c].label \in 0 .. BLOCK_SIZE - 1
    BY <1>5, <1>8
  <2>2. \A c \in 1 .. n : kids[c].label \in Int
    BY <2>1
  <2> QED
    BY <1>9, <2>1, <2>2
<1>11. ASSUME NEW c \in 1 .. n - 1 PROVE M[c] < M[c + 1]
  <2>1. c \in 1 .. n /\ c + 1 \in 1 .. n /\ c < n
    OBVIOUS
  <2>2. kids[c + 1].begin = kids[c].end
    BY <2>1 DEF KidRuns
  <2>3. PICK x \in lo .. hi : x = kids[c].end - 1 /\ L[x] = kids[c].label
    BY <1>8, <2>1
  <2>4. PICK y \in lo .. hi : y = kids[c + 1].begin /\ L[y] = kids[c + 1].label
    BY <1>8, <2>1
  <2>5. y = x + 1
    BY <1>8, <2>1, <2>2, <2>3, <2>4
  <2>6. kids[c].end # f.end
    <3>1. f.end = hi + 1
      BY <1>3 DEF Shares
    <3> QED
      BY <2>2, <2>4, <3>1
  <2>7. KeyChar(kids[c].end - 1, f.depth) # KeyChar(kids[c].end, f.depth)
    BY <2>1, <2>6 DEF KidRuns
  <2>8. L[x] # L[y]
    BY <1>2, <1>4, <2>2, <2>3, <2>4, <2>7
  <2>9. x \in lo .. hi - 1
    BY <2>3, <2>4, <2>5
  <2>10. L[x] <= L[x + 1] /\ L[x] \in Nat /\ L[y] \in Nat
    BY <1>6, <1>7, <2>9
  <2>11. M[c] = L[x] /\ M[c + 1] = L[y]
    BY <1>9, <2>1, <2>3, <2>4
  <2> QED
    BY <2>5, <2>8, <2>10, <2>11
<1>12. \A i, j \in 1 .. n : i < j => M[i] < M[j]
  BY <1>10, <1>11, Rises
<1>13. ASSUME NEW i \in 1 .. n, NEW j \in 1 .. n, kids[i].label = kids[j].label PROVE i = j
  <2>1. M[i] = M[j] /\ M[i] \in Int /\ M[j] \in Int
    BY <1>9, <1>10, <1>13
  <2>2. ~ (i < j) /\ ~ (j < i)
    BY <1>12, <2>1
  <2> QED
    BY <2>2
<1>14. \A i \in 1 .. n : kids[i].label \in 0 .. BLOCK_SIZE - 1
  BY <1>9, <1>10
<1>15. ASSUME NEW i \in 1 .. n PROVE kids[i].value \in Values
  <2>1. kids[i].value = kids[i].begin - 1
    BY DEF KidRuns, Value
  <2>2. kids[i].begin - 1 \in 0 .. size - 1
    BY <1>3, <1>8
  <2> QED
    BY <1>1, <2>1, <2>2 DEF Values
<1>16. DOMAIN kids = 1 .. n /\ Len(kids) = n
  BY DEF KidRuns
<1> QED
  BY <1>13, <1>14, <1>15, <1>16 DEF KidsFit

--------
(***************************************************************************)
(* The hash table of the word graph.                                       *)
(***************************************************************************)

\* The n-th sum of group_hash.
SumTurn(group, h, n) == IF n = 0 THEN 0 ELSE h[n - 1] + group[n].label + group[n].child

IsSumRun(group, K, h) == h = [n \in 0 .. K |-> SumTurn(group, h, n)]

\* The recursion that stands for that loop has a solution.
LEMMA SumRuns ==
    ASSUME NEW group, NEW K \in Nat
    PROVE  \E h : IsSumRun(group, K, h)
<1> DEFINE Runs(m) == \E h : h = [n \in 0 .. m |-> SumTurn(group, h, n)]
           Stuck == {m \in 0 .. K : ~ Runs(m)}
<1>1. Runs(0)
  <2>1. PICK x : x = SumTurn(group, <<>>, 0)
    OBVIOUS
  <2>2. PICK h : h = [n \in 0 .. 0 |-> x]
    OBVIOUS
  <2>3. \A n \in 0 .. 0 : SumTurn(group, h, n) = x
    BY <2>1 DEF SumTurn
  <2> QED
    BY <2>2, <2>3
<1>2. ASSUME NEW m \in 1 .. K, Runs(m - 1) PROVE Runs(m)
  <2>1. PICK h : h = [n \in 0 .. m - 1 |-> SumTurn(group, h, n)]
    BY <1>2
  <2>2. PICK g : g = [n \in 0 .. m |-> IF n < m THEN h[n] ELSE SumTurn(group, h, m)]
    OBVIOUS
  <2>3. ASSUME NEW n \in 0 .. m PROVE g[n] = SumTurn(group, g, n)
    <3>1. n # 0 => n - 1 \in 0 .. m - 1 /\ g[n - 1] = h[n - 1]
      BY <2>2
    <3>2. SumTurn(group, g, n) = SumTurn(group, h, n)
      BY <3>1 DEF SumTurn
    <3>3. CASE n < m
      <4>1. n \in 0 .. m - 1
        BY <3>3
      <4> QED
        BY <2>1, <2>2, <3>2, <3>3, <4>1
    <3>4. CASE n = m
      BY <2>2, <3>2, <3>4
    <3> QED
      BY <3>3, <3>4
  <2>4. g = [n \in 0 .. m |-> SumTurn(group, g, n)]
    BY <2>2, <2>3
  <2> QED
    BY <2>4
<1> HIDE DEF Runs
<1>3. Stuck = {}
  <2> SUFFICES ASSUME Stuck # {} PROVE FALSE
    OBVIOUS
  <2> Stuck \in SUBSET Nat
    OBVIOUS
  <2>1. PICK m \in Stuck : \A n \in Stuck : ~ (n < m)
    BY LeastNumber
  <2>2. m \in 1 .. K /\ m - 1 \in 0 .. K /\ m - 1 < m
    BY <1>1, <2>1
  <2>3. Runs(m - 1)
    BY <2>1, <2>2
  <2> QED
    BY <1>2, <2>1, <2>2, <2>3
<1>4. Runs(K)
  BY <1>3
<1> QED
  BY <1>4 DEF Runs, IsSumRun

SumRun(group) == CHOOSE h : IsSumRun(group, Len(group), h)

\* The hash in these terms.
LEMMA HashSteps ==
    ASSUME NEW group
    PROVE  GroupHash(group) = SumRun(group)[Len(group)]
BY Zenon DEF GroupHash, SumRun, IsSumRun, SumTurn

\* The hash of a group whose units have numbers is a number.
LEMMA HashIs ==
    ASSUME NEW g, Len(g) \in Nat,
           \A i \in 1 .. Len(g) : g[i].label \in Nat /\ g[i].child \in Nat
    PROVE  GroupHash(g) \in Nat
<1>1. PICK n \in Nat : n = Len(g)
  OBVIOUS
<1>2. PICK h : h = SumRun(g)
  OBVIOUS
<1>3. IsSumRun(g, n, h)
  <2>1. \E f : IsSumRun(g, n, f)
    BY SumRuns
  <2> QED
    BY <1>1, <1>2, <2>1 DEF SumRun
<1>4. \A i \in 0 .. n : h[i] = SumTurn(g, h, i)
  BY <1>3 DEF IsSumRun
<1>5. PICK Bad : Bad = {i \in 0 .. n : h[i] \notin Nat}
  OBVIOUS
<1>6. Bad = {}
  <2> SUFFICES ASSUME Bad # {} PROVE FALSE
    OBVIOUS
  <2> Bad \in SUBSET Nat
    BY <1>5
  <2>1. PICK i \in Bad : \A j \in Bad : ~ (j < i)
    BY LeastNumber
  <2>2. i \in 0 .. n /\ h[i] \notin Nat
    BY <1>5, <2>1
  <2>3. i # 0
    BY <1>4, <2>2 DEF SumTurn
  <2>4. i \in 1 .. n /\ i - 1 \in 0 .. n /\ i - 1 < i
    BY <2>2, <2>3
  <2>5. h[i - 1] \in Nat
    BY <1>5, <2>1, <2>4
  <2>6. h[i] = h[i - 1] + g[i].label + g[i].child
    BY <1>4, <2>2, <2>3 DEF SumTurn
  <2>7. g[i].label \in Nat /\ g[i].child \in Nat
    BY <1>1, <2>4
  <2> QED
    BY <2>2, <2>5, <2>6, <2>7
<1>7. h[n] \in Nat
  BY <1>5, <1>6
<1> QED
  BY <1>1, <1>2, <1>7, HashSteps

\* A search of a table ends where it may, when there is such a place.
LEMMA ProbeIs ==
    ASSUME NEW size \in Nat \ {0}, NEW stops, DOMAIN stops = 0 .. size - 1, NEW h \in Nat,
           NEW z \in 0 .. size - 1, stops[z]
    PROVE  Probe(stops, h) \in 0 .. size - 1 /\ stops[Probe(stops, h)]
<1>1. Cardinality(DOMAIN stops) = size
  <2>1. 0 \in Int /\ size - 1 \in Int /\ size - 1 - 0 + 1 = size /\ ~ (0 > size - 1)
    OBVIOUS
  <2>2. Cardinality(0 .. size - 1) = IF 0 > size - 1 THEN 0 ELSE size - 1 - 0 + 1
    BY <2>1, FS_Interval
  <2> QED
    BY <2>1, <2>2
<1>2. PICK q \in Int : \E r \in 0 .. size - 1 : r = h % size /\ h = size * q + r
  BY Division
<1>3. PICK r \in 0 .. size - 1 : q \in Int /\ r = h % size /\ h = size * q + r
  BY <1>2
<1>4. PICK Ok : Ok = {n \in 0 .. size - 1 : stops[(h + n) % size]}
  OBVIOUS
<1>5. Ok # {}
  <2>1. CASE z >= r
    <3>1. PICK n \in 0 .. size - 1 : n = z - r
      BY <2>1
    <3>2. h + n = size * q + z
      <4>1. PICK a \in Int : a = size * q
        OBVIOUS
      <4>2. h = a + r
        BY <1>3, <4>1
      <4>3. h + n = a + z
        BY <3>1, <4>2
      <4> QED
        BY <4>1, <4>3
    <3>3. PICK p \in Int, s \in 0 .. size - 1 : s = (h + n) % size /\ h + n = size * p + s
      <4>1. h + n \in Nat
        OBVIOUS
      <4> QED
        BY <4>1, Division
    <3>4. s = z
      <4>1. size * q + z = size * p + s
        BY <3>2, <3>3
      <4> QED
        BY <4>1, DivisionUnique
    <3> QED
      BY <1>4, <3>1, <3>3, <3>4
  <2>2. CASE ~ (z >= r)
    <3>1. PICK n \in 0 .. size - 1 : n = z - r + size
      BY <2>2
    <3>2. h + n = size * (q + 1) + z
      <4>1. PICK a \in Int : a = size * q
        OBVIOUS
      <4>2. size * (q + 1) = a + size
        BY <4>1
      <4>3. h = a + r
        BY <1>3, <4>1
      <4>4. h + n = a + size + z
        BY <3>1, <4>3
      <4> QED
        BY <4>2, <4>4
    <3>3. PICK p \in Int, s \in 0 .. size - 1 : s = (h + n) % size /\ h + n = size * p + s
      <4>1. h + n \in Nat
        OBVIOUS
      <4> QED
        BY <4>1, Division
    <3>4. s = z
      <4>1. size * (q + 1) + z = size * p + s /\ q + 1 \in Int
        BY <3>2, <3>3
      <4> QED
        BY <4>1, DivisionUnique
    <3> QED
      BY <1>4, <3>1, <3>3, <3>4
  <2> QED
    BY <2>1, <2>2
<1>6. PICK n \in Ok : \A m \in Ok : ~ (m < n)
  <2> Ok \in SUBSET Nat
    BY <1>4
  <2> QED
    BY <1>5, LeastNumber
<1>7. n \in 0 .. size - 1 /\ stops[(h + n) % size] /\ \A m \in 0 .. n - 1 : ~ stops[(h + m) % size]
  <2>1. n \in 0 .. size - 1 /\ stops[(h + n) % size]
    BY <1>4, <1>6
  <2>2. ASSUME NEW m \in 0 .. n - 1, stops[(h + m) % size] PROVE FALSE
    <3>1. m \in 0 .. size - 1 /\ m < n
      BY <2>1
    <3>2. m \in Ok
      BY <1>4, <2>2, <3>1
    <3> QED
      BY <1>6, <3>1, <3>2
  <2> QED
    BY <2>1, <2>2
<1>8. PICK tries : tries = CHOOSE k \in 0 .. size - 1 :
                             /\ stops[(h + k) % size]
                             /\ \A m \in 0 .. k - 1 : ~ stops[(h + m) % size]
  OBVIOUS
<1>9. tries \in 0 .. size - 1 /\ stops[(h + tries) % size]
  BY <1>7, <1>8
<1>10. (h + tries) % size \in 0 .. size - 1
  <2>1. h + tries \in Nat
    BY <1>9
  <2> QED
    BY <2>1, Division
<1>11. Probe(stops, h) = (h + tries) % size
  BY <1>1, <1>8 DEF Probe
<1> QED
  BY <1>9, <1>10, <1>11

\* A hash table of units whose ids are below m, not more than k of them.
Filled(t) == {h \in DOMAIN t : t[h] # 0}

TableFits(t, size, m, k) ==
    /\ t \in [0 .. size - 1 -> 0 .. m - 1]
    /\ Cardinality(Filled(t)) <= k

\* One entry more.
LEMMA EntrySet ==
    ASSUME NEW size \in Nat \ {0}, NEW m \in Nat \ {0}, NEW k \in Nat, NEW t,
           TableFits(t, size, m, k), NEW at, NEW x \in 0 .. m - 1,
           NEW e, e = [t EXCEPT ![at] = x]
    PROVE  TableFits(e, size, m, k + 1)
<1>1. t \in [0 .. size - 1 -> 0 .. m - 1] /\ Cardinality(Filled(t)) <= k
  BY DEF TableFits
<1>2. e \in [0 .. size - 1 -> 0 .. m - 1] /\ \A h \in 0 .. size - 1 : h # at => e[h] = t[h]
  BY <1>1
<1>3. IsFiniteSet(Filled(t))
  <2>1. 0 \in Int /\ size - 1 \in Int
    OBVIOUS
  <2>2. IsFiniteSet(0 .. size - 1)
    BY <2>1, FS_Interval
  <2>3. Filled(t) \in SUBSET (0 .. size - 1)
    BY <1>1 DEF Filled
  <2> QED
    BY <2>2, <2>3, FS_Subset
<1>4. PICK c \in Nat : c = Cardinality(Filled(t))
  BY <1>3, FS_CardinalityType
<1>5. PICK A : A = Filled(t) \union {at}
  OBVIOUS
<1>6. IsFiniteSet(A) /\ Cardinality(A) <= c + 1 /\ Cardinality(A) \in Nat
  <2>1. /\ IsFiniteSet(A)
        /\ Cardinality(A) = IF at \in Filled(t) THEN Cardinality(Filled(t))
                            ELSE Cardinality(Filled(t)) + 1
    BY <1>3, <1>5, FS_AddElement
  <2> QED
    BY <1>4, <2>1
<1>7. Filled(e) \in SUBSET A
  BY <1>1, <1>2, <1>5 DEF Filled
<1>8. Cardinality(Filled(e)) <= Cardinality(A) /\ Cardinality(Filled(e)) \in Nat
  <2>1. IsFiniteSet(Filled(e)) /\ Cardinality(Filled(e)) <= Cardinality(A)
    BY <1>6, <1>7, FS_Subset
  <2> QED
    BY <2>1, FS_CardinalityType
<1> QED
  BY <1>1, <1>2, <1>4, <1>6, <1>8 DEF TableFits

\* A table that is not full has an empty place.
LEMMA EmptyPlace ==
    ASSUME NEW size \in Nat \ {0}, NEW m \in Nat \ {0}, NEW k \in Nat, NEW t,
           TableFits(t, size, m, k), k < size
    PROVE  \E z \in 0 .. size - 1 : t[z] = 0
<1> SUFFICES ASSUME \A z \in 0 .. size - 1 : t[z] # 0 PROVE FALSE
  OBVIOUS
<1>1. DOMAIN t = 0 .. size - 1 /\ Cardinality(Filled(t)) <= k
  BY DEF TableFits
<1>2. Filled(t) = 0 .. size - 1
  BY <1>1 DEF Filled
<1>3. Cardinality(0 .. size - 1) = size
  <2>1. 0 \in Int /\ size - 1 \in Int /\ size - 1 - 0 + 1 = size /\ ~ (0 > size - 1)
    OBVIOUS
  <2>2. Cardinality(0 .. size - 1) = IF 0 > size - 1 THEN 0 ELSE size - 1 - 0 + 1
    BY <2>1, FS_Interval
  <2> QED
    BY <2>1, <2>2
<1> QED
  BY <1>1, <1>2, <1>3

\* The units that a hash table has: the first ones of states.
StateUnits(u) == {i \in 2 .. Len(u) : u[i].label = 0 \/ u[i].is_state}

\* The turn of the loop of expand_table for a unit.
FillTurn(b, h, n) ==
    IF n = 0 THEN [x \in 0 .. 2 * Cardinality(DOMAIN b.table) - 1 |-> 0]
    ELSE IF IsLeaf(b, n) \/ b.units[n + 1].is_state
         THEN [h[n - 1] EXCEPT ![FindUnit(h[n - 1], UnitGroup(b, n))] = n]
         ELSE h[n - 1]

IsFillRun(b, K, h) == h = [n \in 0 .. K |-> FillTurn(b, h, n)]

\* The recursion that stands for that loop has a solution.
LEMMA FillRuns ==
    ASSUME NEW b, NEW K \in Nat
    PROVE  \E h : IsFillRun(b, K, h)
<1> DEFINE Runs(m) == \E h : h = [n \in 0 .. m |-> FillTurn(b, h, n)]
           Stuck == {m \in 0 .. K : ~ Runs(m)}
<1>1. Runs(0)
  <2>1. PICK x : x = FillTurn(b, <<>>, 0)
    OBVIOUS
  <2>2. PICK h : h = [n \in 0 .. 0 |-> x]
    OBVIOUS
  <2>3. \A n \in 0 .. 0 : FillTurn(b, h, n) = x
    BY <2>1 DEF FillTurn
  <2> QED
    BY <2>2, <2>3
<1>2. ASSUME NEW m \in 1 .. K, Runs(m - 1) PROVE Runs(m)
  <2>1. PICK h : h = [n \in 0 .. m - 1 |-> FillTurn(b, h, n)]
    BY <1>2
  <2>2. PICK g : g = [n \in 0 .. m |-> IF n < m THEN h[n] ELSE FillTurn(b, h, m)]
    OBVIOUS
  <2>3. ASSUME NEW n \in 0 .. m PROVE g[n] = FillTurn(b, g, n)
    <3>1. n # 0 => n - 1 \in 0 .. m - 1 /\ g[n - 1] = h[n - 1]
      BY <2>2
    <3>2. FillTurn(b, g, n) = FillTurn(b, h, n)
      BY <3>1 DEF FillTurn
    <3>3. CASE n < m
      <4>1. n \in 0 .. m - 1
        BY <3>3
      <4> QED
        BY <2>1, <2>2, <3>2, <3>3, <4>1
    <3>4. CASE n = m
      BY <2>2, <3>2, <3>4
    <3> QED
      BY <3>3, <3>4
  <2>4. g = [n \in 0 .. m |-> FillTurn(b, g, n)]
    BY <2>2, <2>3
  <2> QED
    BY <2>4
<1> HIDE DEF Runs
<1>3. Stuck = {}
  <2> SUFFICES ASSUME Stuck # {} PROVE FALSE
    OBVIOUS
  <2> Stuck \in SUBSET Nat
    OBVIOUS
  <2>1. PICK m \in Stuck : \A n \in Stuck : ~ (n < m)
    BY LeastNumber
  <2>2. m \in 1 .. K /\ m - 1 \in 0 .. K /\ m - 1 < m
    BY <1>1, <2>1
  <2>3. Runs(m - 1)
    BY <2>1, <2>2
  <2> QED
    BY <1>2, <2>1, <2>2, <2>3
<1>4. Runs(K)
  BY <1>3
<1> QED
  BY <1>4 DEF Runs, IsFillRun

FillRun(b, K) == CHOOSE h : IsFillRun(b, K, h)

\* expand_table in these terms.
LEMMA ExpandSteps ==
    ASSUME NEW b
    PROVE  ExpandTable(b) = FillRun(b, Len(b.units) - 1)[Len(b.units) - 1]
BY Zenon DEF ExpandTable, FillRun, IsFillRun, FillTurn

\* A sequence has finitely many first units.
LEMMA StateUnitsFinite ==
    ASSUME NEW u, Len(u) \in Nat
    PROVE  IsFiniteSet(StateUnits(u)) /\ Cardinality(StateUnits(u)) \in Nat
<1>1. IsFiniteSet(2 .. Len(u))
  BY FS_Interval
<1>2. StateUnits(u) \in SUBSET (2 .. Len(u))
  BY DEF StateUnits
<1> QED
  BY <1>1, <1>2, FS_Subset, FS_CardinalityType

\* The table of twice the size has at most the first units.
LEMMA ExpandIs ==
    ASSUME NEW b, NEW m \in Nat \ {0}, m = Len(b.units), NEW size \in Nat \ {0},
           Cardinality(DOMAIN b.table) = size
    PROVE  TableFits(ExpandTable(b), 2 * size, m, Cardinality(StateUnits(b.units)))
<1>1. PICK u : u = b.units
  OBVIOUS
<1>2. PICK K \in Nat : K = m - 1
  OBVIOUS
<1>3. PICK h : h = FillRun(b, K)
  OBVIOUS
<1>4. IsFillRun(b, K, h)
  <2>1. \E g : IsFillRun(b, K, g)
    BY FillRuns
  <2> QED
    BY <1>3, <2>1 DEF FillRun
<1>5. ExpandTable(b) = h[K]
  BY <1>2, <1>3, ExpandSteps
<1>6. \A n \in 0 .. K : h[n] = FillTurn(b, h, n)
  BY <1>4 DEF IsFillRun
<1>7. PICK S : S = StateUnits(u)
  OBVIOUS
<1>8. IsFiniteSet(S) /\ S \in SUBSET Nat
  BY <1>1, <1>7, StateUnitsFinite DEF StateUnits
<1> DEFINE Upto(n) == {i \in S : i <= n + 1}
           Good(n) == TableFits(h[n], 2 * size, m, Cardinality(Upto(n)))
           Bad == {n \in 0 .. K : ~ Good(n)}
<1>9. \A n \in 0 .. K : IsFiniteSet(Upto(n)) /\ Cardinality(Upto(n)) \in Nat
  <2> SUFFICES ASSUME NEW n \in 0 .. K PROVE IsFiniteSet(Upto(n)) /\ Cardinality(Upto(n)) \in Nat
    OBVIOUS
  <2>1. Upto(n) \in SUBSET S
    OBVIOUS
  <2> QED
    BY <1>8, <2>1, FS_Subset, FS_CardinalityType
<1>10. Good(0)
  <2>1. 0 \in 0 .. K
    OBVIOUS
  <2>2. h[0] = FillTurn(b, h, 0)
    BY <1>6, <2>1
  <2>3. h[0] = [x \in 0 .. 2 * size - 1 |-> 0]
    BY <2>2 DEF FillTurn
  <2>4. Filled(h[0]) = {}
    BY <2>3 DEF Filled
  <2>5. Cardinality(Filled(h[0])) = 0
    BY <2>4, FS_EmptySet
  <2>6. h[0] \in [0 .. 2 * size - 1 -> 0 .. m - 1]
    BY <2>3
  <2>7. Cardinality(Upto(0)) \in Nat
    BY <1>9, <2>1
  <2> QED
    BY <2>5, <2>6, <2>7 DEF TableFits
<1>11. ASSUME NEW n \in 1 .. K, Good(n - 1) PROVE Good(n)
  <2>1. PICK k \in Nat : k = Cardinality(Upto(n - 1))
    <3>1. n - 1 \in 0 .. K
      OBVIOUS
    <3> QED
      BY <1>9, <3>1
  <2>2. TableFits(h[n - 1], 2 * size, m, k)
    BY <1>11, <2>1
  <2>3. n + 1 \in 2 .. Len(u)
    BY <1>1, <1>2
  <2>4. h[n] = FillTurn(b, h, n)
    <3>1. n \in 0 .. K
      OBVIOUS
    <3> QED
      BY <1>6, <3>1
  <2>5. n # 0
    OBVIOUS
  <2>6. \A i \in S : (i <= n + 1) = (i <= n - 1 + 1 \/ i = n + 1)
    <3>1. \A i \in S : i \in Nat
      BY <1>8
    <3> QED
      BY <3>1
  <2>7. ~ (n + 1 <= n - 1 + 1)
    OBVIOUS
  <2>8. CASE IsLeaf(b, n) \/ b.units[n + 1].is_state
    <3>1. h[n] = [h[n - 1] EXCEPT ![FindUnit(h[n - 1], UnitGroup(b, n))] = n]
      BY <2>8, <2>4, <2>5 DEF FillTurn
    <3>2. n \in 0 .. m - 1 /\ 2 * size \in Nat \ {0}
      BY <1>2
    <3>3. TableFits(h[n], 2 * size, m, k + 1)
      BY <2>2, <3>1, <3>2, EntrySet
    <3>4. n + 1 \in S
      BY <1>1, <1>7, <2>3, <2>8 DEF StateUnits, IsLeaf, Label
    <3>5. Upto(n) = Upto(n - 1) \union {n + 1} /\ n + 1 \notin Upto(n - 1)
      BY <2>6, <2>7, <3>4
    <3>6. IsFiniteSet(Upto(n - 1))
      <4>1. n - 1 \in 0 .. K
        OBVIOUS
      <4> QED
        BY <1>9, <4>1
    <3>7. PICK A : A = Upto(n - 1)
      OBVIOUS
    <3>8. Cardinality(A \union {n + 1}) = Cardinality(A) + 1
      BY <3>5, <3>6, <3>7, FS_AddElement
    <3>9. Cardinality(Upto(n)) = k + 1
      BY <2>1, <3>5, <3>7, <3>8
    <3> QED
      BY <3>3, <3>9
  <2>9. CASE ~ (IsLeaf(b, n) \/ b.units[n + 1].is_state)
    <3>1. h[n] = h[n - 1]
      BY <2>9, <2>4, <2>5 DEF FillTurn
    <3>2. n + 1 \notin S
      BY <1>1, <1>7, <2>9 DEF StateUnits, IsLeaf, Label
    <3>3. Upto(n) = Upto(n - 1)
      BY <2>6, <3>2
    <3> QED
      BY <2>1, <2>2, <3>1, <3>3
  <2> QED
    BY <2>8, <2>9
<1> HIDE DEF Good
<1>12. Bad = {}
  <2> SUFFICES ASSUME Bad # {} PROVE FALSE
    OBVIOUS
  <2> Bad \in SUBSET Nat
    OBVIOUS
  <2>1. PICK n \in Bad : \A j \in Bad : ~ (j < n)
    BY LeastNumber
  <2>2. n \in 1 .. K /\ n - 1 \in 0 .. K /\ n - 1 < n
    BY <1>10, <2>1
  <2>3. Good(n - 1)
    BY <2>1, <2>2
  <2> QED
    BY <1>11, <2>1, <2>2, <2>3
<1>13. Good(K)
  BY <1>12
<1>14. Upto(K) = S
  BY <1>1, <1>2, <1>7 DEF StateUnits
<1> QED
  BY <1>1, <1>5, <1>7, <1>13, <1>14 DEF Good

--------
(***************************************************************************)
(* The units of a word graph.                                              *)
(***************************************************************************)

\* A unit with a value from V or a child among m units, the root apart.
UnitFits(x, V, m) ==
    /\ x.label \in 0 .. BLOCK_SIZE - 1
    /\ x.label = 0 => x.child \in V
    /\ x.label # 0 => x.child \in 1 .. m - 1

\* Units one after the other; siblings have larger and larger labels.
Linked(u, V) ==
    /\ \E T : u \in Seq(T)
    /\ u # <<>>
    /\ \A i \in 2 .. Len(u) :
         /\ UnitFits(u[i], V, Len(u))
         /\ u[i].has_sibling => i + 1 <= Len(u) /\ u[i].label < u[i + 1].label

\* The group g is the n units from id on.
GroupAt(g, u, id, n) ==
    /\ n \in Nat \ {0} /\ DOMAIN g = 1 .. n /\ Len(g) = n /\ id + n <= Len(u)
    /\ \A i \in 1 .. n : g[i] = u[id + i]
    /\ \A i \in 1 .. n - 1 : g[i].label < g[i + 1].label

\* What UnitGroup finds.
LEMMA UnitGroupIs ==
    ASSUME NEW b, NEW V, Linked(b.units, V), NEW id \in 1 .. Len(b.units) - 1
    PROVE  \E n : GroupAt(UnitGroup(b, id), b.units, id, n)
<1>1. PICK T : b.units \in Seq(T)
  BY DEF Linked
<1>2. PICK u \in Seq(T) : u = b.units
  BY <1>1
<1>3. PICK m \in Nat : m = Len(u)
  BY LenProperties
<1>4. id \in 1 .. m - 1 /\ m >= 2
  BY <1>2, <1>3
<1>5. \A i \in 2 .. m : u[i].has_sibling => i + 1 <= m /\ u[i].label < u[i + 1].label
  BY <1>2, <1>3 DEF Linked
<1>6. PICK S : S = {j \in id .. m - 1 : ~ u[j + 1].has_sibling}
  OBVIOUS
<1>7. S # {}
  <2>1. m \in 2 .. m /\ ~ (m + 1 <= m) /\ m - 1 \in id .. m - 1 /\ m - 1 + 1 = m
    BY <1>4
  <2> QED
    BY <1>5, <1>6, <2>1
<1>8. PICK last \in S : \A j \in S : ~ (j < last)
  <2> S \in SUBSET Nat
    BY <1>6
  <2> QED
    BY <1>7, LeastNumber
<1>9. last \in id .. m - 1 /\ ~ u[last + 1].has_sibling
      /\ \A i \in id .. last - 1 : u[i + 1].has_sibling
  <2>1. last \in id .. m - 1 /\ ~ u[last + 1].has_sibling
    BY <1>6, <1>8
  <2>2. ASSUME NEW i \in id .. last - 1, ~ u[i + 1].has_sibling PROVE FALSE
    <3>1. i \in id .. m - 1 /\ i < last
      BY <2>1
    <3>2. i \in S
      BY <1>6, <2>2, <3>1
    <3> QED
      BY <1>8, <3>1, <3>2
  <2> QED
    BY <2>1, <2>2
<1>10. PICK l : l = CHOOSE j \in id .. Len(b.units) - 1 :
                      /\ ~ b.units[j + 1].has_sibling
                      /\ \A i \in id .. j - 1 : b.units[i + 1].has_sibling
  OBVIOUS
<1>11. l \in id .. m - 1 /\ \A i \in id .. l - 1 : u[i + 1].has_sibling
  BY <1>2, <1>3, <1>9, <1>10
<1>12. PICK g : g = UnitGroup(b, id)
  OBVIOUS
<1>13. g = SubSeq(u, id + 1, l + 1)
  BY <1>2, <1>10, <1>12 DEF UnitGroup
<1>14. PICK n \in Nat \ {0} : n = l + 1 - id
  BY <1>4, <1>11
<1>15. id + n <= m /\ l + 1 = id + n
  BY <1>4, <1>11, <1>14
<1>16. /\ g \in Seq(T) /\ Len(g) = n
       /\ \A i \in 1 .. n : g[i] = u[id + i]
  <2>1. \A i \in id + 1 .. l + 1 : u[i] \in T
    <3>1. \A i \in id + 1 .. l + 1 : i \in 1 .. m
      BY <1>4, <1>15
    <3> QED
      BY <1>3, <3>1, ElementOfSeq
  <2>2. id + 1 \in Int /\ l + 1 \in Int
    BY <1>4, <1>11
  <2>3. PICK x \in Int : x = id + 1
    BY <2>2
  <2>4. PICK y \in Int : y = l + 1
    BY <2>2
  <2>5. \A i \in x .. y : u[i] \in T
    BY <2>1, <2>3, <2>4
  <2>6. /\ SubSeq(u, x, y) \in Seq(T)
        /\ Len(SubSeq(u, x, y)) = IF x <= y THEN y - x + 1 ELSE 0
        /\ \A i \in 1 .. y - x + 1 : SubSeq(u, x, y)[i] = u[x + i - 1]
    BY ONLY <2>5, SubSeqProperties
  <2>7. x <= y /\ y - x + 1 = n
    BY <1>4, <1>11, <1>14, <2>3, <2>4
  <2>8. \A i \in 1 .. n : x + i - 1 = id + i
    BY <1>4, <2>3
  <2>9. g = SubSeq(u, x, y)
    BY <1>13, <2>3, <2>4
  <2>10. \A i \in 1 .. n : g[i] = u[id + i]
    BY <2>6, <2>7, <2>8, <2>9
  <2> QED
    BY <2>6, <2>7, <2>10, <2>9
<1>17. DOMAIN g = 1 .. n
  BY <1>16, LenProperties
<1>18. ASSUME NEW i \in 1 .. n - 1 PROVE g[i].label < g[i + 1].label
  <2>1. i \in 1 .. n /\ i + 1 \in 1 .. n
    BY <1>14
  <2>2. g[i] = u[id + i] /\ g[i + 1] = u[id + i + 1]
    <3>1. id + (i + 1) = id + i + 1
      BY <1>4
    <3> QED
      BY <1>16, <2>1, <3>1
  <2>3. l \in Int /\ id \in Int /\ id >= 1 /\ n = l + 1 - id /\ i >= 1 /\ i <= n - 1
        /\ i \in Int /\ m \in Int
    BY <1>4, <1>11, <1>14
  <2>4. id + i - 1 \in id .. l - 1 /\ id + i - 1 + 1 = id + i /\ id + i \in 2 .. m
    BY <1>15, <2>3
  <2>5. u[id + i].has_sibling
    BY <1>11, <2>4
  <2> QED
    BY <1>5, <2>2, <2>4, <2>5
<1> QED
  BY <1>2, <1>3, <1>12, <1>14, <1>15, <1>16, <1>17, <1>18 DEF GroupAt

\* A state as flush puts it behind m units.
GroupFits(g, V, m) ==
    /\ (\E T : g \in Seq(T)) /\ g # <<>>
    /\ \A i \in 1 .. Len(g) : UnitFits(g[i], V, m)
    /\ \A i \in 1 .. Len(g) - 1 : g[i].label < g[i + 1].label
    /\ ~ g[Len(g)].has_sibling
    /\ \A i \in 2 .. Len(g) : g[i].label # 0 /\ ~ g[i].is_state

\* Such a state has at most one first unit.
LEMMA GroupAdded ==
    ASSUME NEW u, NEW V, Linked(u, V), NEW g, GroupFits(g, V, Len(u)), NEW w, w = u \o g
    PROVE  /\ Linked(w, V)
           /\ Cardinality(StateUnits(w)) <= Cardinality(StateUnits(u)) + 1
           /\ Len(w) \in Nat /\ Len(u) < Len(w)
           /\ \A i \in 1 .. Len(u) : w[i] = u[i]
<1>1. PICK T : u \in Seq(T)
  BY DEF Linked
<1>2. PICK R : g \in Seq(R)
  BY DEF GroupFits
<1>3. PICK A : A = T \union R
  OBVIOUS
<1>4. u \in Seq(A) /\ g \in Seq(A)
  BY <1>1, <1>2, <1>3, SeqMonotonic
<1>5. PICK m \in Nat \ {0} : m = Len(u)
  BY <1>1, LenProperties, EmptySeq DEF Linked
<1>6. PICK n \in Nat \ {0} : n = Len(g)
  BY <1>2, LenProperties, EmptySeq DEF GroupFits
<1>7. /\ w \in Seq(A) /\ Len(w) = m + n
      /\ \A i \in 1 .. m + n : w[i] = IF i <= m THEN u[i] ELSE g[i - m]
  BY <1>4, <1>5, <1>6, ConcatProperties
<1>8. \A i \in 1 .. m : w[i] = u[i]
  BY <1>7
<1>9. \A i \in 1 .. n : w[m + i] = g[i]
  <2> SUFFICES ASSUME NEW i \in 1 .. n PROVE w[m + i] = g[i]
    OBVIOUS
  <2>1. m + i \in 1 .. m + n /\ ~ (m + i <= m) /\ m + i - m = i
    OBVIOUS
  <2> QED
    BY <1>7, <2>1
<1>10. ASSUME NEW x, UnitFits(x, V, m) PROVE UnitFits(x, V, m + n)
  BY <1>10 DEF UnitFits
<1>11. ASSUME NEW i \in 2 .. m + n
       PROVE  /\ UnitFits(w[i], V, m + n)
              /\ w[i].has_sibling => i + 1 <= m + n /\ w[i].label < w[i + 1].label
  <2>1. CASE i <= m
    <3>1. i \in 2 .. m /\ i \in 1 .. m
      BY <2>1
    <3>2. UnitFits(u[i], V, m) /\ (u[i].has_sibling => i + 1 <= m /\ u[i].label < u[i + 1].label)
      BY <1>5, <3>1 DEF Linked
    <3>3. u[i].has_sibling => i + 1 \in 1 .. m
      BY <3>1, <3>2
    <3>4. w[i] = u[i]
      BY <1>8, <3>1
    <3>5. UnitFits(w[i], V, m + n)
      BY <1>10, <3>2, <3>4
    <3>6. ASSUME u[i].has_sibling
          PROVE  i + 1 <= m + n /\ u[i].label < w[i + 1].label
      <4>1. w[i + 1] = u[i + 1]
        BY <1>8, <3>3, <3>6
      <4> QED
        BY <3>1, <3>2, <3>6, <4>1
    <3> QED
      BY <3>4, <3>5, <3>6
  <2>2. CASE ~ (i <= m)
    <3>1. PICK j \in 1 .. n : i = m + j
      <4>1. i - m \in 1 .. n /\ i = m + (i - m)
        BY <2>2
      <4> QED
        BY <4>1
    <3>2. w[i] = g[j]
      BY <1>9, <3>1
    <3>3. UnitFits(g[j], V, m)
      BY <1>5, <1>6 DEF GroupFits
    <3>4. CASE j = n
      <4>1. ~ g[j].has_sibling
        BY <1>6, <3>4 DEF GroupFits
      <4> QED
        BY <1>10, <3>2, <3>3, <4>1
    <3>5. CASE j # n
      <4>1. j \in 1 .. n - 1 /\ j + 1 \in 1 .. n /\ i + 1 = m + (j + 1)
        BY <3>1, <3>5
      <4>2. w[i + 1] = g[j + 1]
        BY <1>9, <4>1
      <4>3. g[j].label < g[j + 1].label
        BY <1>6, <4>1 DEF GroupFits
      <4>4. i + 1 <= m + n
        BY <4>1
      <4> QED
        BY <1>10, <3>2, <3>3, <4>2, <4>3, <4>4
    <3> QED
      BY <3>4, <3>5
  <2> QED
    BY <2>1, <2>2
<1>12. Linked(w, V)
  <2>1. w # <<>>
    BY <1>5, <1>6, <1>7, EmptySeq
  <2> QED
    BY <1>7, <1>11, <2>1 DEF Linked
<1>13. StateUnits(w) \in SUBSET (StateUnits(u) \union {m + 1})
  <2> SUFFICES ASSUME NEW i \in 2 .. m + n, w[i].label = 0 \/ w[i].is_state, i # m + 1
               PROVE  i \in StateUnits(u)
    BY <1>7 DEF StateUnits
  <2>1. i <= m
    <3> SUFFICES ASSUME ~ (i <= m) PROVE FALSE
      OBVIOUS
    <3>1. PICK j \in 2 .. n : i = m + j
      <4>1. i - m \in 2 .. n /\ i = m + (i - m)
        OBVIOUS
      <4> QED
        BY <4>1
    <3>2. j \in 1 .. n
      OBVIOUS
    <3>3. w[i] = g[j]
      BY <1>9, <3>1, <3>2
    <3>4. g[j].label # 0 /\ ~ g[j].is_state
      BY <1>6 DEF GroupFits
    <3> QED
      BY <3>3, <3>4
  <2>2. i \in 2 .. m /\ i \in 1 .. m
    BY <2>1
  <2>3. w[i] = u[i]
    BY <1>8, <2>2
  <2> QED
    BY <1>5, <2>2, <2>3 DEF StateUnits
<1>14. Cardinality(StateUnits(w)) <= Cardinality(StateUnits(u)) + 1
  <2>1. PICK c \in Nat : c = Cardinality(StateUnits(u)) /\ IsFiniteSet(StateUnits(u))
    BY <1>5, StateUnitsFinite
  <2>2. PICK D : D = StateUnits(u) \union {m + 1}
    OBVIOUS
  <2>3. /\ IsFiniteSet(D)
        /\ Cardinality(D) = IF m + 1 \in StateUnits(u) THEN Cardinality(StateUnits(u))
                            ELSE Cardinality(StateUnits(u)) + 1
    BY <2>1, <2>2, FS_AddElement
  <2>4. Cardinality(StateUnits(w)) <= Cardinality(D)
    BY <1>13, <2>2, <2>3, FS_Subset
  <2>5. Cardinality(StateUnits(w)) \in Nat
    BY <1>7, StateUnitsFinite
  <2> QED
    BY <2>1, <2>3, <2>4, <2>5
<1> QED
  BY <1>5, <1>6, <1>7, <1>8, <1>12, <1>14

--------
(***************************************************************************)
(* A builder whose units make a graph.                                     *)
(***************************************************************************)

\* The units are linked, the table has them, and there are as many states.
GraphFits(b, V) ==
    /\ Linked(b.units, V)
    /\ b.is_intersection \subseteq 1 .. Len(b.units) - 1
    /\ b.num_states \in Nat \ {0}
    /\ Cardinality(StateUnits(b.units)) <= b.num_states - 1
    /\ \E size \in Nat \ {0} : /\ b.num_states <= size
                               /\ TableFits(b.table, size, Len(b.units), b.num_states - 1)

\* A leaf with a value, or a node with a unit below it.
Ended(b, V, id) ==
    /\ Node(b, id).label = 0 => Node(b, id).child \in V
    /\ Node(b, id).label # 0 => Node(b, id).child \in 1 .. Len(b.units) - 1

OnStack(b) == {b.node_stack[p] : p \in 1 .. Len(b.node_stack)}

\* The nodes behind the stack may become units, and so may the stack's, from the
\* last one on, but that the one at depth e has a sibling already.
NodesFit(b, V, e) ==
    /\ Node(b, Root).label # 0
    /\ \A id \in Ids(b) \ {0} :
         /\ Node(b, id).label \in 0 .. BLOCK_SIZE - 1
         /\ Node(b, id).is_state => Node(b, id).sibling = 0
         /\ id \notin OnStack(b) => Ended(b, V, id)
    /\ \A p \in 1 .. Len(b.node_stack) - 1 : Node(b, b.node_stack[p]).label # 0
    /\ \A p \in 2 .. Len(b.node_stack) :
         p # e => ~ Node(b, b.node_stack[p]).has_sibling

\* The group of a node is a state when all of its level may become units.
LEMMA NodeGroupIs ==
    ASSUME NEW b, NEW level, Tidy(b, level), NEW V, NEW e, NodesFit(b, V, e),
           NEW id \in Ids(b) \ {0}, level[id] # 0, ~ Node(b, id).has_sibling,
           \A i \in Ids(b) \ {0} : level[i] = level[id] => Ended(b, V, i)
    PROVE  GroupFits(NodeGroup(b, id), V, Len(b.units))
<1>1. PICK S : S = {i \in Ids(b) \ {0} : level[i] = level[id]}
  OBVIOUS
<1>2. PICK f : f = [i \in 0 .. Len(b.nodes) - 1 |-> Node(b, i).sibling]
  OBVIOUS
<1>3. PICK s : s = Siblings(b, id)
  OBVIOUS
<1>4. s \in Seq(S) /\ Leads(f, s, id, 0)
  <2>1. Siblings(b, id) \in Seq(Peers(b, level, id)) /\ Leads(Besides(b), Siblings(b, id), id, 0)
    BY SiblingsAre
  <2>2. Peers(b, level, id) = S /\ Besides(b) = f
    BY <1>1, <1>2 DEF Peers, Besides
  <2> QED
    BY <1>3, <2>1, <2>2
<1>5. PICK n \in Nat \ {0} : n = Len(s) /\ DOMAIN s = 1 .. n
  BY <1>4, LenProperties, EmptySeq DEF Leads
<1>6. \A j \in 1 .. n : s[j] \in S
  BY <1>4, <1>5, ElementOfSeq
<1>7. s[1] = id /\ \A j \in 1 .. n - 1 : s[j + 1] = f[s[j]] /\ f[s[j]] # 0
  BY <1>4, <1>5 DEF Leads
<1>8. PICK A : b.nodes \in Seq(NodeSet(A))
  BY DEF Tidy
<1>9. \A i \in Ids(b) : Node(b, i).label \in Nat /\ f[i] = Node(b, i).sibling
  BY <1>2, <1>8, NodesTyped DEF Ids
<1>10. ASSUME NEW j \in 1 .. n - 1
       PROVE  /\ Node(b, s[j]).sibling # 0
              /\ Node(b, s[j + 1]).label < Node(b, s[j]).label
  <2>1. j \in 1 .. n
    OBVIOUS
  <2>2. s[j] \in Ids(b) \ {0} /\ level[s[j]] # 0
    BY <1>1, <1>6, <2>1
  <2>3. Node(b, s[j]).sibling # 0 /\ s[j + 1] = Node(b, s[j]).sibling
    BY <1>7, <1>9, <2>2
  <2>4. TidySiblings(b, level)
    BY DEF Tidy
  <2> QED
    BY <2>2, <2>3, <2>4 DEF TidySiblings
<1>11. PICK g : g = NodeGroup(b, id)
  OBVIOUS
<1>12. g = [i \in 1 .. n |-> DawgUnit(Node(b, s[(n - i) + 1]))]
  <2>1. PICK t : t = Reverse(s)
    OBVIOUS
  <2>2. t = [i \in 1 .. n |-> s[(n - i) + 1]]
    BY <1>5, <2>1 DEF Reverse
  <2>3. g = [i \in DOMAIN t |-> DawgUnit(Node(b, t[i]))]
    BY <1>3, <1>11, <2>1 DEF NodeGroup
  <2> QED
    BY <2>2, <2>3
<1>13. \A j \in 1 .. n : (n - j) + 1 \in 1 .. n /\ (n - ((n - j) + 1)) + 1 = j
  BY <1>5
<1>14. ASSUME NEW i \in 1 .. n, NEW j \in 1 .. n, j = (n - i) + 1
       PROVE  /\ g[i].label = Node(b, s[j]).label /\ g[i].child = Node(b, s[j]).child
              /\ g[i].has_sibling = Node(b, s[j]).has_sibling
              /\ g[i].is_state <=> Node(b, s[j]).is_state /\ Node(b, s[j]).label # 0
  <2>1. PICK x : x = Node(b, s[j])
    OBVIOUS
  <2>2. g[i] = DawgUnit(x)
    BY <1>12, <1>14, <2>1
  <2>3. DawgUnit(x).label = x.label /\ DawgUnit(x).child = x.child
        /\ DawgUnit(x).has_sibling = x.has_sibling
        /\ (DawgUnit(x).is_state <=> x.is_state /\ x.label # 0)
    BY DEF DawgUnit
  <2> QED
    BY <2>1, <2>2, <2>3
<1>15. /\ \E T : g \in Seq(T)
       /\ Len(g) = n
  <2>1. PICK T : T = {g[i] : i \in 1 .. n}
    OBVIOUS
  <2>2. g \in [1 .. n -> T]
    BY <1>12, <2>1
  <2> QED
    BY <2>2, FunctionIsSeq
<1>16. \A i \in 1 .. n : UnitFits(g[i], V, Len(b.units))
  <2> SUFFICES ASSUME NEW i \in 1 .. n PROVE UnitFits(g[i], V, Len(b.units))
    OBVIOUS
  <2>1. PICK j \in 1 .. n : j = (n - i) + 1
    BY <1>13
  <2>2. s[j] \in Ids(b) \ {0} /\ Ended(b, V, s[j])
    BY <1>1, <1>6
  <2>3. Node(b, s[j]).label \in 0 .. BLOCK_SIZE - 1
    BY <2>2 DEF NodesFit
  <2> QED
    BY <1>14, <2>1, <2>2, <2>3 DEF UnitFits, Ended
<1>17. \A i \in 1 .. n - 1 : g[i].label < g[i + 1].label
  <2> SUFFICES ASSUME NEW i \in 1 .. n - 1 PROVE g[i].label < g[i + 1].label
    OBVIOUS
  <2>1. PICK j \in 1 .. n - 1 : j = n - i
    <3>1. n - i \in 1 .. n - 1
      OBVIOUS
    <3> QED
      BY <3>1
  <2>2. j \in 1 .. n /\ j + 1 \in 1 .. n /\ j + 1 = (n - i) + 1 /\ j = (n - (i + 1)) + 1
        /\ i \in 1 .. n /\ i + 1 \in 1 .. n
    BY <2>1
  <2>3. g[i].label = Node(b, s[j + 1]).label
    BY <1>14, <2>2
  <2>4. g[i + 1].label = Node(b, s[j]).label
    BY <1>14, <2>2
  <2> QED
    BY <1>10, <2>3, <2>4
<1>18. ~ g[n].has_sibling
  <2>1. n \in 1 .. n /\ 1 \in 1 .. n /\ 1 = (n - n) + 1
    OBVIOUS
  <2> QED
    BY <1>7, <1>14, <2>1
<1>19. ASSUME NEW i \in 2 .. n PROVE g[i].label # 0 /\ ~ g[i].is_state
  <2>1. PICK j \in 1 .. n - 1 : j = (n - i) + 1
    <3>1. (n - i) + 1 \in 1 .. n - 1
      OBVIOUS
    <3> QED
      BY <3>1
  <2>2. i \in 1 .. n /\ j \in 1 .. n /\ j + 1 \in 1 .. n
    BY <2>1
  <2>3. s[j] \in Ids(b) \ {0} /\ s[j + 1] \in Ids(b) \ {0}
    BY <1>1, <1>6, <2>2
  <2>4. Node(b, s[j]).sibling # 0 /\ Node(b, s[j + 1]).label < Node(b, s[j]).label
    BY <1>10
  <2>5. ~ Node(b, s[j]).is_state
    BY <2>3, <2>4 DEF NodesFit
  <2>6. Node(b, s[j]).label # 0
    BY <1>9, <2>3, <2>4
  <2> QED
    BY <1>14, <2>1, <2>2, <2>5, <2>6
<1>20. g # <<>>
  BY <1>5, <1>15, EmptySeq
<1>21. GroupFits(g, V, Len(b.units))
  BY <1>15, <1>16, <1>17, <1>18, <1>19, <1>20 DEF GroupFits
<1> QED
  BY <1>11, <1>21

\* What FlushState does to the graph.
LEMMA FlushGraph ==
    ASSUME NEW b, Builder(b), NEW V \in SUBSET Nat, GraphFits(b, V),
           GroupFits(NodeGroup(b, Last(b.node_stack)), V, Len(b.units)),
           NEW c, c = FlushState(b)
    PROVE  /\ GraphFits(c, V) /\ Len(b.units) \in Nat \ {0} /\ Len(c.units) \in Nat
           /\ Len(b.units) <= Len(c.units)
           /\ \E x \in 1 .. Len(c.units) - 1 :
                c.nodes = [b.nodes EXCEPT ![Last(Front(b.node_stack)) + 1].child = x]
<1>1. PICK id : id = Last(b.node_stack)
  OBVIOUS
<1>2. PICK table : table = IF 4 * b.num_states >= 3 * Cardinality(DOMAIN b.table)
                           THEN ExpandTable(b) ELSE b.table
  OBVIOUS
<1>3. PICK group : group = NodeGroup(b, id)
  OBVIOUS
<1>4. PICK slot : slot = FindNode(b, table, group)
  OBVIOUS
<1>5. PICK under : under = Front(b.node_stack)
  OBVIOUS
<1>6. PICK popped : popped = [b EXCEPT !.table = table, !.node_stack = under,
                                       !.recycle_bin = @ \o Siblings(b, id)]
  OBVIOUS
<1>7. /\ Builder(popped) /\ popped.nodes = b.nodes /\ popped.node_stack = under
      /\ popped.units = b.units /\ popped.is_intersection = b.is_intersection
      /\ popped.num_states = b.num_states /\ popped.table = table
  BY <1>6 DEF Builder
<1>8. PICK m \in Nat \ {0} : m = Len(b.units)
  <2>1. PICK T : b.units \in Seq(T)
    BY DEF GraphFits, Linked
  <2>2. b.units # <<>>
    BY DEF GraphFits, Linked
  <2> QED
    BY <2>1, <2>2, LenProperties, EmptySeq
<1>9. PICK k \in Nat \ {0} : k = b.num_states /\ Cardinality(StateUnits(b.units)) <= k - 1
  BY DEF GraphFits
<1>10. PICK size \in Nat \ {0} : k <= size /\ TableFits(b.table, size, m, k - 1)
  BY <1>8, <1>9 DEF GraphFits
<1>11. Cardinality(DOMAIN b.table) = size
  <2>1. DOMAIN b.table = 0 .. size - 1
    BY <1>10 DEF TableFits
  <2>2. Cardinality(0 .. size - 1) = size
    BY FS_Interval
  <2> QED
    BY <2>1, <2>2
<1>12. PICK room \in Nat \ {0} : k < room /\ TableFits(table, room, m, k - 1)
  <2>1. CASE 4 * k >= 3 * size
    <3>1. table = ExpandTable(b)
      BY <1>2, <1>9, <1>11, <2>1
    <3>2. TableFits(table, 2 * size, m, Cardinality(StateUnits(b.units)))
      BY <1>8, <1>11, <3>1, ExpandIs
    <3>3. Cardinality(StateUnits(b.units)) \in Nat
      BY <1>8, StateUnitsFinite
    <3>4. TableFits(table, 2 * size, m, k - 1)
      <4>1. Cardinality(Filled(table)) \in Nat
        <5>1. table \in [0 .. 2 * size - 1 -> 0 .. m - 1]
          BY <3>2 DEF TableFits
        <5>2. IsFiniteSet(0 .. 2 * size - 1)
          BY FS_Interval
        <5>3. Filled(table) \in SUBSET (0 .. 2 * size - 1)
          BY <5>1 DEF Filled
        <5> QED
          BY <5>2, <5>3, FS_Subset, FS_CardinalityType
      <4> QED
        BY <1>9, <3>2, <3>3, <4>1 DEF TableFits
    <3>5. k < 2 * size /\ 2 * size \in Nat \ {0}
      BY <1>10
    <3> QED
      BY <3>4, <3>5
  <2>2. CASE ~ (4 * k >= 3 * size)
    <3>1. table = b.table
      BY <1>2, <1>9, <1>11, <2>2
    <3>2. k < size
      BY <2>2
    <3> QED
      BY <1>10, <3>1, <3>2
  <2> QED
    BY <2>1, <2>2
<1>13. table \in [0 .. room - 1 -> 0 .. m - 1]
  BY <1>12 DEF TableFits
<1>14. GroupFits(group, V, m)
  BY <1>1, <1>3, <1>8
<1>15. slot \in 0 .. room - 1
  <2>1. PICK stops : stops = [h \in DOMAIN table |->
                                table[h] = 0 \/ UnitGroup(b, table[h]) = group]
    OBVIOUS
  <2>2. DOMAIN stops = 0 .. room - 1
    BY <1>13, <2>1
  <2>3. k - 1 \in Nat /\ k - 1 < room
    BY <1>12
  <2>4. PICK z \in 0 .. room - 1 : table[z] = 0
    BY <1>12, <2>3, EmptyPlace
  <2>5. stops[z]
    BY <1>13, <2>1, <2>4
  <2>6. GroupHash(group) \in Nat
    <3>1. Len(group) \in Nat
      BY <1>14, LenProperties DEF GroupFits
    <3>2. \A i \in 1 .. Len(group) : group[i].label \in Nat /\ group[i].child \in Nat
      <4> SUFFICES ASSUME NEW i \in 1 .. Len(group)
                   PROVE  group[i].label \in Nat /\ group[i].child \in Nat
        OBVIOUS
      <4>1. UnitFits(group[i], V, m)
        BY <1>14 DEF GroupFits
      <4>2. group[i].label \in 0 .. BLOCK_SIZE - 1
        BY <4>1 DEF UnitFits
      <4>3. group[i].label \in Nat
        BY <4>2
      <4>4. group[i].child \in V \/ group[i].child \in 1 .. m - 1
        BY <4>1 DEF UnitFits
      <4>5. \A y \in 1 .. m - 1 : y \in Nat
        OBVIOUS
      <4>6. \A y \in V : y \in Nat
        OBVIOUS
      <4> QED
        BY <4>3, <4>4, <4>5, <4>6
    <3> QED
      BY <3>1, <3>2, HashIs
  <2>7. PICK h \in Nat : h = GroupHash(group)
    BY <2>6
  <2>8. Probe(stops, h) \in 0 .. room - 1
    BY <2>2, <2>4, <2>5, ProbeIs
  <2> QED
    BY <1>4, <2>1, <2>7, <2>8 DEF FindNode
<1>16. CASE table[slot] # 0
  <2>1. c = [popped EXCEPT !.is_intersection = @ \union {table[slot]},
                           !.nodes[Last(under) + 1].child = table[slot]]
    BY <1>1, <1>2, <1>3, <1>4, <1>5, <1>6, <1>16 DEF FlushState
  <2>2. /\ c.nodes = [b.nodes EXCEPT ![Last(under) + 1].child = table[slot]]
        /\ c.units = b.units /\ c.num_states = k /\ c.table = table
        /\ c.is_intersection = b.is_intersection \union {table[slot]}
    BY <1>7, <1>9, <2>1 DEF Builder
  <2>3. table[slot] \in 1 .. m - 1
    <3>1. table[slot] \in 0 .. m - 1
      BY <1>13, <1>15
    <3> QED
      BY <1>16, <3>1
  <2>4. GraphFits(c, V)
    BY <1>8, <1>9, <1>12, <2>2, <2>3 DEF GraphFits
  <2> QED
    BY <1>5, <1>8, <2>2, <2>3, <2>4
<1>17. CASE ~ (table[slot] # 0)
  <2>1. c = [popped EXCEPT !.units = @ \o group,
                           !.table[slot] = Len(b.units),
                           !.num_states = @ + 1,
                           !.nodes[Last(under) + 1].child = Len(b.units)]
    BY <1>1, <1>2, <1>3, <1>4, <1>5, <1>6, <1>17 DEF FlushState
  <2>2. /\ c.nodes = [b.nodes EXCEPT ![Last(under) + 1].child = m]
        /\ c.units = b.units \o group /\ c.num_states = k + 1
        /\ c.table = [table EXCEPT ![slot] = m]
        /\ c.is_intersection = b.is_intersection
    BY <1>7, <1>8, <1>9, <2>1 DEF Builder
  <2>3. PICK w : w = b.units \o group
    OBVIOUS
  <2>4. Linked(b.units, V)
    BY DEF GraphFits
  <2>5. /\ Linked(w, V)
        /\ Cardinality(StateUnits(w)) <= Cardinality(StateUnits(b.units)) + 1
        /\ Len(w) \in Nat /\ m < Len(w)
    BY <1>8, <1>14, <2>3, <2>4, GroupAdded
  <2>6. PICK n \in Nat : n = Len(w) /\ m < n
    BY <2>5
  <2>7. Cardinality(StateUnits(w)) <= k + 1 - 1
    <3>1. Cardinality(StateUnits(b.units)) \in Nat /\ Cardinality(StateUnits(w)) \in Nat
      BY <1>8, <2>6, StateUnitsFinite
    <3> QED
      BY <1>9, <2>5, <3>1
  <2>8. TableFits(c.table, room, n, k)
    <3>1. TableFits(table, room, n, k - 1)
      <4>1. \A y \in 0 .. m - 1 : y \in 0 .. n - 1
        BY <2>6
      <4>2. table \in [0 .. room - 1 -> 0 .. n - 1]
        BY <1>13, <4>1
      <4> QED
        BY <1>12, <4>2 DEF TableFits
    <3>2. k - 1 \in Nat /\ k - 1 + 1 = k /\ m \in 0 .. n - 1 /\ n \in Nat \ {0}
      BY <2>6
    <3>3. TableFits([table EXCEPT ![slot] = m], room, n, k - 1 + 1)
      BY <3>1, <3>2, EntrySet
    <3> QED
      BY <2>2, <3>2, <3>3
  <2>9. b.is_intersection \subseteq 1 .. n - 1
    <3>1. b.is_intersection \subseteq 1 .. m - 1
      BY <1>8 DEF GraphFits
    <3> QED
      BY <2>6, <3>1
  <2>10. GraphFits(c, V)
    <3>1. k + 1 \in Nat \ {0} /\ k + 1 <= room /\ k + 1 - 1 = k
      BY <1>12
    <3> QED
      BY <2>2, <2>3, <2>5, <2>6, <2>7, <2>8, <2>9, <3>1 DEF GraphFits
  <2>11. m \in 1 .. Len(c.units) - 1 /\ Len(b.units) <= Len(c.units) /\ Len(c.units) \in Nat
    BY <1>8, <2>2, <2>3, <2>6
  <2> QED
    BY <1>5, <1>8, <2>2, <2>10, <2>11
<1> QED
  BY <1>16, <1>17

\* Of the nodes only y has changed, and of it only the child.
ChildOnly(b, c, y, x) ==
    /\ Ids(c) = Ids(b)
    /\ \A i \in Ids(b) :
         /\ Node(c, i).label = Node(b, i).label /\ Node(c, i).sibling = Node(b, i).sibling
         /\ Node(c, i).is_state = Node(b, i).is_state
         /\ Node(c, i).has_sibling = Node(b, i).has_sibling
         /\ Node(c, i).child = IF i = y THEN x ELSE Node(b, i).child

\* That is what giving it a child does.
LEMMA NodeGiven ==
    ASSUME NEW b, NEW A, b.nodes \in Seq(NodeSet(A)), NEW y \in Ids(b), NEW x,
           NEW c, c.nodes = [b.nodes EXCEPT ![y + 1].child = x]
    PROVE  ChildOnly(b, c, y, x)
<1>1. PICK n \in Nat : n = Len(b.nodes)
  BY LenProperties
<1>2. DOMAIN b.nodes = 1 .. n /\ \A i \in 1 .. n : b.nodes[i] \in NodeSet(A)
  BY <1>1, LenProperties, ElementOfSeq
<1>3. y \in Nat /\ y + 1 \in 1 .. n /\ \A i \in Ids(b) : i \in Nat /\ i + 1 \in 1 .. n
  BY <1>1, NodesTyped
<1>4. PICK z : z = [b.nodes[y + 1] EXCEPT !.child = x]
  OBVIOUS
<1>5. PICK o : o = b.nodes[y + 1]
  OBVIOUS
<1>6. o \in NodeSet(A)
  BY <1>2, <1>3, <1>5
<1>7. /\ z.child = x /\ z.label = o.label /\ z.sibling = o.sibling
      /\ z.is_state = o.is_state /\ z.has_sibling = o.has_sibling
  BY <1>4, <1>5, <1>6 DEF NodeSet
<1>8. c.nodes = [i \in 1 .. n |-> IF i = y + 1 THEN z ELSE b.nodes[i]]
  BY <1>2, <1>4
<1>9. Len(c.nodes) = n
  <2>1. PICK T : T = {c.nodes[i] : i \in 1 .. n}
    OBVIOUS
  <2>2. c.nodes \in [1 .. n -> T]
    BY <1>8, <2>1
  <2> QED
    BY <2>2, FunctionIsSeq
<1>10. Ids(c) = Ids(b)
  BY <1>1, <1>9 DEF Ids
<1>11. ASSUME NEW i \in Ids(b), i # y PROVE Node(c, i) = Node(b, i)
  <2>1. i + 1 \in 1 .. n /\ i + 1 # y + 1
    BY <1>3, <1>11
  <2> QED
    BY <1>8, <2>1 DEF Node
<1>12. Node(c, y) = z /\ Node(b, y) = o
  BY <1>3, <1>5, <1>8 DEF Node
<1> QED
  BY <1>7, <1>10, <1>11, <1>12 DEF ChildOnly

\* FlushState leaves a graph and nodes that may go on to be flushed.
LEMMA FlushFits ==
    ASSUME NEW b, NEW level, Tidy(b, level), NEW V \in SUBSET Nat, NEW e, GraphFits(b, V),
           NodesFit(b, V, e), NEW n \in Nat, n = Len(b.node_stack), n >= 2, n # e,
           Ended(b, V, Last(b.node_stack)), NEW c, c = FlushState(b)
    PROVE  GraphFits(c, V) /\ NodesFit(c, V, e) /\ Ended(c, V, Last(c.node_stack))
<1>1. PICK s : s = b.node_stack
  OBVIOUS
<1>2. /\ s \in Seq(Ids(b)) /\ s # <<>>
      /\ \A p \in 1 .. n : s[p] \in Ids(b) /\ s[p] \in Nat /\ level[s[p]] = p
      /\ \A p, q \in 1 .. n : s[p] = s[q] => p = q
      /\ \A p \in 2 .. n : s[p] # 0
  BY <1>1, StackTyped DEF Tidy, TidyStack
<1>3. /\ Len(Front(s)) = n - 1 /\ Last(s) = s[n]
      /\ \A p \in 1 .. n - 1 : Front(s)[p] = s[p]
  <2>1. s \in Seq(Ids(b)) /\ s # <<>> /\ Len(s) = n
    BY <1>1, <1>2
  <2> QED
    BY <2>1, FrontIs
<1>4. n - 1 \in 1 .. n - 1 /\ n - 1 \in 1 .. n /\ n \in 1 .. n /\ n \in 2 .. n
  OBVIOUS
<1>5. Last(Front(s)) = s[n - 1]
  BY <1>3, <1>4 DEF Last
<1>6. PICK id : id = s[n]
  OBVIOUS
<1>7. id \in Ids(b) \ {0} /\ level[id] = n /\ level[id] # 0
  BY <1>2, <1>4, <1>6
<1>8. \A i \in OnStack(b) : \E p \in 1 .. n : i = s[p]
  BY <1>1 DEF OnStack
<1>9. ASSUME NEW i \in Ids(b) \ {0}, level[i] = level[id] PROVE Ended(b, V, i)
  <2>1. CASE i \in OnStack(b)
    <3>1. PICK p \in 1 .. n : i = s[p]
      BY <1>8, <2>1
    <3>2. p = n
      BY <1>2, <1>7, <1>9, <3>1
    <3> QED
      BY <1>1, <1>3, <3>1, <3>2
  <2>2. CASE i \notin OnStack(b)
    BY <2>2 DEF NodesFit
  <2> QED
    BY <2>1, <2>2
<1>10. ~ Node(b, id).has_sibling
  BY <1>1, <1>4, <1>6 DEF NodesFit
<1>11. GroupFits(NodeGroup(b, Last(b.node_stack)), V, Len(b.units))
  <2>1. GroupFits(NodeGroup(b, id), V, Len(b.units))
    BY <1>7, <1>9, <1>10, NodeGroupIs
  <2> QED
    BY <1>1, <1>3, <1>6, <2>1
<1>12. Builder(b)
  BY DEF Tidy
<1>13. /\ GraphFits(c, V) /\ Len(b.units) \in Nat \ {0} /\ Len(c.units) \in Nat
       /\ Len(b.units) <= Len(c.units)
       /\ \E x \in 1 .. Len(c.units) - 1 :
            c.nodes = [b.nodes EXCEPT ![Last(Front(b.node_stack)) + 1].child = x]
  BY <1>11, <1>12, FlushGraph
<1>14. PICK x \in 1 .. Len(c.units) - 1 : c.nodes = [b.nodes EXCEPT ![s[n - 1] + 1].child = x]
  BY <1>1, <1>5, <1>13
<1>15. c.node_stack = Front(s)
  BY <1>1, <1>12, FlushStateIs DEF Flushed
<1>16. PICK A : b.nodes \in Seq(NodeSet(A))
  BY DEF Tidy
<1>17. PICK y \in Ids(b) : y = s[n - 1]
  BY <1>2, <1>4
<1>18. ChildOnly(b, c, y, x)
  BY <1>14, <1>16, <1>17, NodeGiven
<1>19. /\ Len(c.node_stack) = n - 1
       /\ \A p \in 1 .. n - 1 : c.node_stack[p] = s[p]
  BY <1>3, <1>15
<1>20. OnStack(c) = {s[p] : p \in 1 .. n - 1}
  BY <1>19 DEF OnStack
<1>21. ASSUME NEW i \in Ids(b), i # y, Ended(b, V, i) PROVE Ended(c, V, i)
  BY <1>13, <1>18, <1>21 DEF Ended, ChildOnly
<1>22. ASSUME NEW i \in Ids(b) \ {0}, i \notin OnStack(c) PROVE Ended(c, V, i)
  <2>1. i # y
    BY <1>4, <1>17, <1>20, <1>22
  <2>2. CASE i = id
    BY <1>1, <1>3, <1>6, <1>21, <2>1, <2>2
  <2>3. CASE i # id
    <3>1. i \notin OnStack(b)
      <4> SUFFICES ASSUME i \in OnStack(b) PROVE FALSE
        OBVIOUS
      <4>1. PICK p \in 1 .. n : i = s[p]
        BY <1>8
      <4>2. p # n
        BY <1>6, <2>3, <4>1
      <4>3. p \in 1 .. n - 1
        BY <4>2
      <4> QED
        BY <1>20, <1>22, <4>1, <4>3
    <3>2. Ended(b, V, i)
      BY <3>1 DEF NodesFit
    <3> QED
      BY <1>21, <2>1, <3>2
  <2> QED
    BY <2>2, <2>3
<1>23. \A p \in 1 .. n - 1 : p \in 1 .. n /\ s[p] \in Ids(b) /\ Node(b, s[p]).label # 0
  <2>1. \A p \in 1 .. n - 1 : p \in 1 .. n
    OBVIOUS
  <2> QED
    BY <1>1, <1>2, <2>1 DEF NodesFit
<1>24. NodesFit(c, V, e)
  <2>1. Node(c, Root).label # 0
    <3>1. 0 \in Ids(b)
      <4>1. 1 \in 1 .. n
        OBVIOUS
      <4>2. s[1] = 0
        BY <1>1 DEF Tidy, TidyStack, Root
      <4> QED
        BY <1>2, <4>1, <4>2
    <3> QED
      BY <1>18, <3>1 DEF ChildOnly, NodesFit, Root
  <2>2. ASSUME NEW i \in Ids(c) \ {0}
        PROVE  /\ Node(c, i).label \in 0 .. BLOCK_SIZE - 1
               /\ Node(c, i).is_state => Node(c, i).sibling = 0
               /\ i \notin OnStack(c) => Ended(c, V, i)
    <3>1. i \in Ids(b) \ {0}
      BY <1>18 DEF ChildOnly
    <3>2. /\ Node(b, i).label \in 0 .. BLOCK_SIZE - 1
          /\ Node(b, i).is_state => Node(b, i).sibling = 0
      BY <3>1 DEF NodesFit
    <3> QED
      BY <1>18, <1>22, <3>1, <3>2 DEF ChildOnly
  <2>3. ASSUME NEW p \in 1 .. n - 1 - 1 PROVE Node(c, s[p]).label # 0 /\ c.node_stack[p] = s[p]
    <3>1. p \in 1 .. n - 1
      OBVIOUS
    <3> QED
      BY <1>18, <1>19, <1>23, <3>1 DEF ChildOnly
  <2>4. ASSUME NEW p \in 2 .. n - 1, p # e
        PROVE  ~ Node(c, s[p]).has_sibling /\ c.node_stack[p] = s[p]
    <3>1. p \in 1 .. n - 1 /\ p \in 2 .. n
      OBVIOUS
    <3>2. ~ Node(b, s[p]).has_sibling
      BY <1>1, <2>4, <3>1 DEF NodesFit
    <3> QED
      BY <1>18, <1>19, <1>23, <3>1, <3>2 DEF ChildOnly
  <2> QED
    BY <1>19, <2>1, <2>2, <2>3, <2>4 DEF NodesFit
<1>25. Ended(c, V, Last(c.node_stack))
  <2>1. Last(c.node_stack) = y
    BY <1>5, <1>15, <1>17
  <2>2. Node(c, y).label # 0 /\ Node(c, y).child = x
    BY <1>4, <1>17, <1>18, <1>23 DEF ChildOnly
  <2> QED
    BY <2>1, <2>2 DEF Ended
<1> QED
  BY <1>13, <1>24, <1>25

\* What the turns of flush leave of the stack down to depth e.
FlushedTo(b, c, V, m, e) ==
    /\ \E l : Tidy(c, l)
    /\ Unwound(b, c, m)
    /\ GraphFits(c, V) /\ NodesFit(c, V, e) /\ Ended(c, V, Last(c.node_stack))

\* That the states above depth e may be flushed.
LEMMA FlushedFits ==
    ASSUME NEW b, NEW level, Tidy(b, level), NEW V \in SUBSET Nat, NEW L \in Nat,
           L = Len(b.node_stack), NEW e \in 1 .. L, GraphFits(b, V), NodesFit(b, V, e),
           Ended(b, V, Last(b.node_stack)), NEW K \in Nat, K = L - e,
           NEW h, IsFlushRun(b, K, h)
    PROVE  FlushedTo(b, h[K], V, e, e)
<1> DEFINE Good(m) == FlushedTo(b, h[m], V, L - m, e)
           Bad == {m \in 0 .. K : ~ Good(m)}
<1>1. \A m \in 0 .. K : h[m] = FlushTurn(b, h, m)
  BY DEF IsFlushRun
<1>2. Good(0)
  <2>1. h[0] = b
    BY <1>1 DEF FlushTurn
  <2>2. Unwound(b, b, L)
    BY DEF Unwound
  <2>3. L - 0 = L
    OBVIOUS
  <2> QED
    BY <2>1, <2>2, <2>3 DEF FlushedTo
<1>3. ASSUME NEW m \in 1 .. K, Good(m - 1) PROVE Good(m)
  <2>1. h[m] = FlushState(h[m - 1])
    BY <1>1 DEF FlushTurn
  <2>2. PICK c : c = h[m - 1]
    OBVIOUS
  <2>3. PICK d : d = h[m]
    OBVIOUS
  <2>4. PICK n \in Nat : n = L - m + 1 /\ n >= 2 /\ n # e
    <3>1. L - m + 1 \in Nat /\ L - m + 1 >= 2 /\ L - m + 1 # e
      OBVIOUS
    <3> QED
      BY <3>1
  <2>5. FlushedTo(b, c, V, n, e)
    <3>1. L - (m - 1) = n
      BY <2>4
    <3> QED
      BY <1>3, <2>2, <3>1
  <2>6. PICK l : Tidy(c, l)
    BY <2>5 DEF FlushedTo
  <2>7. Flushed(c, d)
    BY <2>1, <2>2, <2>3, <2>6, FlushStateIs DEF Tidy
  <2>8. n = Len(c.node_stack)
    BY <2>5 DEF FlushedTo, Unwound
  <2>9. (\E k : Tidy(d, k)) /\ Unwound(c, d, n - 1)
    BY <2>4, <2>6, <2>7, <2>8, FlushTidy
  <2>10. n \in Int /\ n - 1 \in Int /\ n - 1 <= n /\ n - 1 = L - m
    BY <2>4
  <2>11. Unwound(b, c, n)
    BY <2>5 DEF FlushedTo
  <2>12. Unwound(b, d, n - 1)
    BY <2>9, <2>10, <2>11, UnwoundTwice
  <2>13. d = FlushState(c)
    BY <2>1, <2>2, <2>3
  <2>14. GraphFits(d, V) /\ NodesFit(d, V, e) /\ Ended(d, V, Last(d.node_stack))
    BY <2>4, <2>5, <2>6, <2>8, <2>13, FlushFits DEF FlushedTo
  <2> QED
    BY <2>3, <2>9, <2>10, <2>12, <2>14 DEF FlushedTo
<1> HIDE DEF Good
<1>4. Bad = {}
  <2> SUFFICES ASSUME Bad # {} PROVE FALSE
    OBVIOUS
  <2> Bad \in SUBSET Nat
    OBVIOUS
  <2>1. PICK m \in Bad : \A n \in Bad : ~ (n < m)
    BY LeastNumber
  <2>2. m \in 1 .. K /\ m - 1 \in 0 .. K /\ m - 1 < m
    BY <1>2, <2>1
  <2>3. Good(m - 1)
    BY <2>1, <2>2
  <2> QED
    BY <1>3, <2>1, <2>2, <2>3
<1>5. Good(K)
  BY <1>4
<1>6. L - K = e
  OBVIOUS
<1> QED
  BY <1>5, <1>6 DEF Good

\* Of the nodes only y has changed, and of it only the mark.
MarkOnly(b, c, y) ==
    /\ Ids(c) = Ids(b)
    /\ \A i \in Ids(b) :
         /\ Node(c, i).label = Node(b, i).label
         /\ Node(c, i).sibling = Node(b, i).sibling
         /\ Node(c, i).is_state = Node(b, i).is_state
         /\ Node(c, i).child = Node(b, i).child
         /\ i # y => Node(c, i).has_sibling = Node(b, i).has_sibling

\* That is what marking it does.
LEMMA NodeMarked ==
    ASSUME NEW b, NEW A, b.nodes \in Seq(NodeSet(A)), NEW y \in Ids(b),
           NEW c, c.nodes = [b.nodes EXCEPT ![y + 1].has_sibling = TRUE]
    PROVE  MarkOnly(b, c, y)
<1>1. PICK n \in Nat : n = Len(b.nodes)
  BY LenProperties
<1>2. DOMAIN b.nodes = 1 .. n /\ \A i \in 1 .. n : b.nodes[i] \in NodeSet(A)
  BY <1>1, LenProperties, ElementOfSeq
<1>3. y \in Nat /\ y + 1 \in 1 .. n /\ \A i \in Ids(b) : i \in Nat /\ i + 1 \in 1 .. n
  BY <1>1, NodesTyped
<1>4. PICK z : z = [b.nodes[y + 1] EXCEPT !.has_sibling = TRUE]
  OBVIOUS
<1>5. PICK o : o = b.nodes[y + 1]
  OBVIOUS
<1>6. o \in NodeSet(A)
  BY <1>2, <1>3, <1>5
<1>7. z.child = o.child /\ z.label = o.label /\ z.sibling = o.sibling /\ z.is_state = o.is_state
  BY <1>4, <1>5, <1>6 DEF NodeSet
<1>8. c.nodes = [i \in 1 .. n |-> IF i = y + 1 THEN z ELSE b.nodes[i]]
  BY <1>2, <1>4
<1>9. Len(c.nodes) = n
  <2>1. PICK T : T = {c.nodes[i] : i \in 1 .. n}
    OBVIOUS
  <2>2. c.nodes \in [1 .. n -> T]
    BY <1>8, <2>1
  <2> QED
    BY <2>2, FunctionIsSeq
<1>10. Ids(c) = Ids(b)
  BY <1>1, <1>9 DEF Ids
<1>11. ASSUME NEW i \in Ids(b), i # y PROVE Node(c, i) = Node(b, i)
  <2>1. i + 1 \in 1 .. n /\ i + 1 # y + 1
    BY <1>3, <1>11
  <2> QED
    BY <1>8, <2>1 DEF Node
<1>12. Node(c, y) = z /\ Node(b, y) = o
  BY <1>3, <1>5, <1>8 DEF Node
<1> QED
  BY <1>7, <1>10, <1>11, <1>12 DEF MarkOnly

\* With a node of the stack marked the states above it may be flushed.
LEMMA MarkedFits ==
    ASSUME NEW b, NEW level, Tidy(b, level), NEW V, GraphFits(b, V), NodesFit(b, V, 1),
           Ended(b, V, Last(b.node_stack)), NEW L \in Nat, L = Len(b.node_stack),
           NEW e \in 2 .. L,
           NEW d, d = [b EXCEPT !.nodes[b.node_stack[e] + 1].has_sibling = TRUE]
    PROVE  /\ Tidy(d, level) /\ d.node_stack = b.node_stack
           /\ GraphFits(d, V) /\ NodesFit(d, V, e) /\ Ended(d, V, Last(d.node_stack))
<1>1. PICK s : s = b.node_stack
  OBVIOUS
<1>2. /\ \A p \in 1 .. L : s[p] \in Ids(b)
      /\ \A p, q \in 1 .. L : s[p] = s[q] => p = q
  BY <1>1, StackTyped
<1>3. e \in 1 .. L /\ L \in 1 .. L
  OBVIOUS
<1>4. PICK y \in Ids(b) : y = s[e]
  BY <1>2, <1>3
<1>5. d = [b EXCEPT !.nodes[y + 1].has_sibling = TRUE]
  BY <1>1, <1>4
<1>6. Tidy(d, level) /\ SameNodes(b, d)
  BY <1>5, MarkedTidy
<1>7. Builder(b)
  BY DEF Tidy
<1>8. /\ d.nodes = [b.nodes EXCEPT ![y + 1].has_sibling = TRUE]
      /\ d.units = b.units /\ d.table = b.table /\ d.node_stack = s
      /\ d.is_intersection = b.is_intersection /\ d.num_states = b.num_states
  BY <1>1, <1>5, <1>7 DEF Builder
<1>9. PICK A : b.nodes \in Seq(NodeSet(A))
  BY DEF Tidy
<1>10. /\ Ids(d) = Ids(b)
       /\ \A i \in Ids(b) :
            /\ Node(d, i).label = Node(b, i).label
            /\ Node(d, i).sibling = Node(b, i).sibling
            /\ Node(d, i).is_state = Node(b, i).is_state
            /\ Node(d, i).child = Node(b, i).child
            /\ i # y => Node(d, i).has_sibling = Node(b, i).has_sibling
  <2>1. MarkOnly(b, d, y)
    BY <1>8, <1>9, NodeMarked
  <2> QED
    BY <2>1 DEF MarkOnly
<1>11. GraphFits(d, V)
  BY <1>8 DEF GraphFits
<1>12. OnStack(d) = OnStack(b)
  BY <1>1, <1>8 DEF OnStack
<1>13. \A i \in Ids(b) : Ended(b, V, i) => Ended(d, V, i)
  BY <1>8, <1>10 DEF Ended
<1>14. 0 \in Ids(b)
  <2>1. 1 \in 1 .. L
    OBVIOUS
  <2>2. s[1] = 0
    BY <1>1 DEF Tidy, TidyStack, Root
  <2> QED
    BY <1>2, <2>1, <2>2
<1>15. NodesFit(d, V, e)
  <2>1. Node(d, Root).label # 0
    BY <1>10, <1>14 DEF NodesFit, Root
  <2>2. ASSUME NEW i \in Ids(d) \ {0}
        PROVE  /\ Node(d, i).label \in 0 .. BLOCK_SIZE - 1
               /\ Node(d, i).is_state => Node(d, i).sibling = 0
               /\ i \notin OnStack(d) => Ended(d, V, i)
    BY <1>10, <1>12, <1>13 DEF NodesFit
  <2>3. ASSUME NEW p \in 1 .. L - 1 PROVE Node(d, s[p]).label # 0
    <3>1. p \in 1 .. L /\ Node(b, s[p]).label # 0
      BY <1>1 DEF NodesFit
    <3> QED
      BY <1>2, <1>10, <3>1
  <2>4. ASSUME NEW p \in 2 .. L, p # e PROVE ~ Node(d, s[p]).has_sibling
    <3>1. p \in 1 .. L /\ p # 1
      OBVIOUS
    <3>2. ~ Node(b, s[p]).has_sibling
      BY <1>1, <3>1 DEF NodesFit
    <3>3. s[p] # y
      BY <1>2, <1>3, <1>4, <2>4, <3>1
    <3> QED
      BY <1>2, <1>10, <3>1, <3>2, <3>3
  <2> QED
    BY <1>1, <1>8, <2>1, <2>2, <2>3, <2>4 DEF NodesFit
<1>16. Ended(d, V, Last(d.node_stack))
  <2>1. Last(s) = s[L]
    BY <1>1 DEF Last
  <2> QED
    BY <1>1, <1>2, <1>3, <1>8, <1>13, <2>1
<1> QED
  BY <1>1, <1>6, <1>8, <1>11, <1>15, <1>16

\* The last node may leave the stack.
LEMMA PoppedFits ==
    ASSUME NEW a, NEW level, Tidy(a, level), NEW V, NEW e \in Nat \ {0},
           e = Len(a.node_stack), GraphFits(a, V), NodesFit(a, V, e),
           Ended(a, V, Last(a.node_stack)), NEW c, c = [a EXCEPT !.node_stack = Front(@)]
    PROVE  GraphFits(c, V) /\ NodesFit(c, V, 1)
<1>1. PICK s : s = a.node_stack
  OBVIOUS
<1>2. /\ s \in Seq(Ids(a)) /\ s # <<>>
      /\ \A p \in 1 .. e : s[p] \in Ids(a)
  BY <1>1, StackTyped DEF Tidy, TidyStack
<1>3. /\ Len(Front(s)) = e - 1 /\ Last(s) = s[e]
      /\ \A p \in 1 .. e - 1 : Front(s)[p] = s[p]
  <2>1. s \in Seq(Ids(a)) /\ s # <<>> /\ Len(s) = e
    BY <1>1, <1>2
  <2> QED
    BY <2>1, FrontIs
<1>4. Builder(a)
  BY DEF Tidy
<1>5. /\ c.nodes = a.nodes /\ c.units = a.units /\ c.table = a.table
      /\ c.node_stack = Front(s)
      /\ c.is_intersection = a.is_intersection /\ c.num_states = a.num_states
  BY <1>1, <1>4 DEF Builder
<1>6. Ids(c) = Ids(a) /\ \A i : Node(c, i) = Node(a, i)
  BY <1>5 DEF Ids, Node
<1>7. GraphFits(c, V)
  BY <1>5 DEF GraphFits
<1>8. \A i : Ended(a, V, i) => Ended(c, V, i)
  BY <1>5, <1>6 DEF Ended
<1>9. OnStack(a) = {s[p] : p \in 1 .. e} /\ OnStack(c) = {s[p] : p \in 1 .. e - 1}
  BY <1>1, <1>3, <1>5 DEF OnStack
<1>10. \A i \in OnStack(a) : i \in OnStack(c) \/ i = s[e]
  <2>1. \A p \in 1 .. e : p \in 1 .. e - 1 \/ p = e
    OBVIOUS
  <2> QED
    BY <1>9, <2>1
<1>11. ASSUME NEW i \in Ids(c) \ {0}
       PROVE  /\ Node(c, i).label \in 0 .. BLOCK_SIZE - 1
              /\ Node(c, i).is_state => Node(c, i).sibling = 0
              /\ i \notin OnStack(c) => Ended(c, V, i)
  <2>1. i \in Ids(a) \ {0}
    BY <1>6
  <2>2. /\ Node(a, i).label \in 0 .. BLOCK_SIZE - 1
        /\ Node(a, i).is_state => Node(a, i).sibling = 0
        /\ i \notin OnStack(a) => Ended(a, V, i)
    BY <2>1 DEF NodesFit
  <2>3. i \notin OnStack(c) => Ended(a, V, i)
    BY <1>1, <1>3, <1>10, <2>2
  <2> QED
    BY <1>6, <1>8, <2>2, <2>3
<1>12. NodesFit(c, V, 1)
  <2>1. Node(c, Root).label # 0
    BY <1>6 DEF NodesFit
  <2>2. ASSUME NEW p \in 1 .. e - 1 - 1
        PROVE  Node(c, s[p]).label # 0 /\ c.node_stack[p] = s[p]
    <3>1. p \in 1 .. e - 1
      OBVIOUS
    <3> QED
      BY <1>1, <1>3, <1>5, <1>6, <3>1 DEF NodesFit
  <2>3. ASSUME NEW p \in 2 .. e - 1
        PROVE  ~ Node(c, s[p]).has_sibling /\ c.node_stack[p] = s[p]
    <3>1. p \in 1 .. e - 1 /\ p \in 2 .. e /\ p # e
      OBVIOUS
    <3> QED
      BY <1>1, <1>3, <1>5, <1>6, <3>1 DEF NodesFit
  <2> QED
    BY <1>3, <1>5, <1>11, <2>1, <2>2, <2>3 DEF NodesFit
<1> QED
  BY <1>7, <1>12

\* What flush leaves when a node has got a sibling.
LEMMA FlushMarked ==
    ASSUME NEW b, NEW level, Tidy(b, level), NEW V \in SUBSET Nat, GraphFits(b, V),
           NodesFit(b, V, 1), Ended(b, V, Last(b.node_stack)),
           NEW L \in Nat, L = Len(b.node_stack), NEW e \in 2 .. L,
           NEW c, c = Flush([b EXCEPT !.nodes[b.node_stack[e] + 1].has_sibling = TRUE],
                            b.node_stack[e])
    PROVE  GraphFits(c, V) /\ NodesFit(c, V, 1)
<1>1. PICK d : d = [b EXCEPT !.nodes[b.node_stack[e] + 1].has_sibling = TRUE]
  OBVIOUS
<1>2. /\ Tidy(d, level) /\ d.node_stack = b.node_stack
      /\ GraphFits(d, V) /\ NodesFit(d, V, e) /\ Ended(d, V, Last(d.node_stack))
  BY <1>1, MarkedFits
<1>3. PICK K \in Nat : K = L - e
  <2>1. L - e \in Nat
    OBVIOUS
  <2> QED
    BY <2>1
<1>4. e \in 1 .. L /\ L = Len(d.node_stack)
  BY <1>2
<1>5. PICK h : IsFlushRun(d, K, h) /\ Popped(h[K], Flush(d, d.node_stack[e]))
  BY <1>2, <1>3, <1>4, FlushSteps
<1>6. FlushedTo(d, h[K], V, e, e)
  BY <1>2, <1>3, <1>4, <1>5, FlushedFits
<1>7. PICK a : a = h[K]
  OBVIOUS
<1>8. c = [a EXCEPT !.node_stack = Front(@)]
  BY <1>1, <1>2, <1>5, <1>7 DEF Popped
<1>9. PICK l : Tidy(a, l)
  BY <1>6, <1>7 DEF FlushedTo
<1>10. /\ e = Len(a.node_stack) /\ GraphFits(a, V) /\ NodesFit(a, V, e)
       /\ Ended(a, V, Last(a.node_stack))
  BY <1>6, <1>7 DEF FlushedTo, Unwound
<1>11. e \in Nat \ {0}
  OBVIOUS
<1> QED
  BY <1>8, <1>9, <1>10, <1>11, PoppedFits

\* A graph: its units, and among them the one below the root.
Graph(g, V) ==
    /\ Linked(g.units, V)
    /\ g.is_intersection \subseteq 1 .. Len(g.units) - 1
    /\ Child(g, Root) \in 0 .. Len(g.units) - 1

\* All that is put in may be flushed.
Complete(b, V) ==
    /\ \E l : Tidy(b, l)
    /\ GraphFits(b, V) /\ NodesFit(b, V, 1)
    /\ \/ Len(b.node_stack) = 1 /\ Node(b, Root).child = 0
       \/ Ended(b, V, Last(b.node_stack))

\* Finish makes a graph.
LEMMA FinishIs ==
    ASSUME NEW b, NEW V \in SUBSET Nat, Complete(b, V), NEW g, g = Finish(b)
    PROVE  Graph(g, V)
<1>1. PICK level : Tidy(b, level)
  BY DEF Complete
<1>2. PICK L \in Nat \ {0} : L = Len(b.node_stack)
  BY <1>1, StackTyped
<1>3. PICK K \in Nat : K = L - 1
  OBVIOUS
<1>4. 1 \in 1 .. L /\ b.node_stack[1] = Root
  BY <1>1 DEF Tidy, TidyStack
<1>5. PICK h : IsFlushRun(b, K, h) /\ Popped(h[K], Flush(b, b.node_stack[1]))
  BY <1>1, <1>2, <1>3, <1>4, FlushSteps
<1>6. PICK a : a = h[K]
  OBVIOUS
<1>7. PICK c : c = Flush(b, Root)
  OBVIOUS
<1>8. c = [a EXCEPT !.node_stack = Front(@)]
  BY <1>4, <1>5, <1>6, <1>7 DEF Popped
<1>9. /\ Builder(a) /\ GraphFits(a, V)
      /\ Node(a, Root).child \in 0 .. Len(a.units) - 1
  <2>1. CASE Ended(b, V, Last(b.node_stack))
    <3>1. FlushedTo(b, h[K], V, 1, 1)
      BY <1>1, <1>2, <1>3, <1>4, <1>5, <2>1, FlushedFits DEF Complete
    <3>2. PICK l : Tidy(a, l)
      BY <1>6, <3>1 DEF FlushedTo
    <3>3. /\ Len(a.node_stack) = 1 /\ GraphFits(a, V) /\ NodesFit(a, V, 1)
          /\ Ended(a, V, Last(a.node_stack))
      BY <1>6, <3>1 DEF FlushedTo, Unwound
    <3>4. Last(a.node_stack) = Root
      BY <3>2, <3>3 DEF Last, Tidy, TidyStack
    <3>5. Node(a, Root).child \in 1 .. Len(a.units) - 1
      BY <3>3, <3>4 DEF Ended, NodesFit
    <3>6. Len(a.units) \in Nat
      BY <3>3, LenProperties DEF GraphFits, Linked
    <3>7. \A x \in 1 .. Len(a.units) - 1 : x \in 0 .. Len(a.units) - 1
      BY <3>6
    <3> QED
      BY <3>2, <3>3, <3>5, <3>7 DEF Tidy
  <2>2. CASE Len(b.node_stack) = 1 /\ Node(b, Root).child = 0
    <3>1. K = 0
      BY <1>2, <1>3, <2>2
    <3>2. a = b
      BY <1>5, <1>6, <3>1 DEF IsFlushRun, FlushTurn
    <3>3. Len(b.units) \in Nat \ {0}
      BY LenProperties, EmptySeq DEF Complete, GraphFits, Linked
    <3>4. 0 \in 0 .. Len(b.units) - 1
      BY <3>3
    <3> QED
      BY <1>1, <2>2, <3>2, <3>4 DEF Complete, Tidy
  <2> QED
    BY <2>1, <2>2 DEF Complete
<1>10. c.nodes = a.nodes /\ c.units = a.units /\ c.is_intersection = a.is_intersection
  BY <1>8, <1>9 DEF Builder
<1>11. PICK w : w = [c.units EXCEPT ![1] = DawgUnit(Node(c, Root))]
  OBVIOUS
<1>12. g.units = w /\ g.is_intersection = c.is_intersection
  BY <1>7, <1>11 DEF Finish, DawgInit
<1>13. PICK u : u = a.units
  OBVIOUS
<1>14. Linked(u, V)
  BY <1>9, <1>13 DEF GraphFits
<1>15. PICK T : u \in Seq(T)
  BY <1>14 DEF Linked
<1>16. PICK m \in Nat \ {0} : m = Len(u)
  BY <1>14, <1>15, LenProperties, EmptySeq DEF Linked
<1>17. PICK x : x = DawgUnit(Node(c, Root))
  OBVIOUS
<1>18. x.child = Node(a, Root).child
  BY <1>10, <1>17 DEF DawgUnit, Node
<1>19. w = [i \in 1 .. m |-> IF i = 1 THEN x ELSE u[i]]
  <2>1. DOMAIN u = 1 .. m
    BY <1>15, <1>16, LenProperties
  <2> QED
    BY <1>10, <1>11, <1>13, <1>17, <2>1
<1>20. /\ w \in Seq({w[i] : i \in 1 .. m})
       /\ Len(w) = m
  <2>1. PICK R : R = {w[i] : i \in 1 .. m}
    OBVIOUS
  <2>2. w \in [1 .. m -> R]
    BY <1>19, <2>1
  <2> QED
    BY <2>1, <2>2, FunctionIsSeq
<1>21. w[1] = x /\ \A i \in 2 .. m : w[i] = u[i]
  BY <1>19
<1>22. Linked(w, V)
  <2>1. w # <<>>
    BY <1>16, <1>20, EmptySeq
  <2>2. ASSUME NEW i \in 2 .. m
        PROVE  /\ UnitFits(w[i], V, m)
               /\ w[i].has_sibling => i + 1 <= m /\ w[i].label < w[i + 1].label
    <3>1. UnitFits(u[i], V, m) /\ (u[i].has_sibling => i + 1 <= m /\ u[i].label < u[i + 1].label)
      BY <1>14, <1>16 DEF Linked
    <3>2. i + 1 <= m => i + 1 \in 2 .. m
      OBVIOUS
    <3> QED
      BY <1>21, <3>1, <3>2
  <2> QED
    BY <1>20, <2>1, <2>2 DEF Linked
<1>23. Child(g, Root) = Node(a, Root).child
  BY <1>12, <1>18, <1>21 DEF Child, Root
<1>24. g.is_intersection \subseteq 1 .. m - 1
  BY <1>9, <1>10, <1>12, <1>13, <1>16 DEF GraphFits
<1> QED
  BY <1>9, <1>12, <1>13, <1>16, <1>20, <1>22, <1>23, <1>24 DEF Graph

--------
(***************************************************************************)
(* A key more.                                                             *)
(***************************************************************************)

\* AppendNode leaves the graph as it is.
LEMMA AppendGraph ==
    ASSUME NEW b, Builder(b), NEW node, NEW a, a = AppendNode(b, node)
    PROVE  /\ a.units = b.units /\ a.table = b.table
           /\ a.is_intersection = b.is_intersection /\ a.num_states = b.num_states
<1>1. CASE b.recycle_bin = <<>>
  BY <1>1 DEF AppendNode, Builder
<1>2. CASE b.recycle_bin # <<>>
  BY <1>2 DEF AppendNode, Builder
<1> QED
  BY <1>1, <1>2

\* A node more on the stack, of which nothing is said yet.
LEMMA AddNodeFits ==
    ASSUME NEW b, NEW level, Tidy(b, level), NEW label \in 0 .. BLOCK_SIZE - 1, label \in Nat,
           Hangs(b, level, label), NEW V, GraphFits(b, V), NodesFit(b, V, 1),
           Node(b, Last(b.node_stack)).label # 0,
           NEW at, at = [dawg |-> b, id |-> Last(b.node_stack)],
           NEW r, r = AddNode(at, label)
    PROVE  GraphFits(r.dawg, V) /\ NodesFit(r.dawg, V, 1)
<1>1. PICK n \in Nat \ {0} : n = Len(b.node_stack)
  BY StackTyped
<1>2. PICK s : s = b.node_stack
  OBVIOUS
<1>3. /\ s \in Seq(Ids(b)) /\ s # <<>> /\ s[1] = 0 /\ Len(s) = n
      /\ \A p \in 1 .. n : s[p] \in Ids(b) /\ s[p] \in Nat /\ level[s[p]] = p
      /\ \A p, q \in 1 .. n : s[p] = s[q] => p = q
  BY <1>1, <1>2, StackTyped DEF Tidy, TidyStack, Root
<1>4. PICK top : top = s[n]
  OBVIOUS
<1>5. Last(b.node_stack) = top /\ top \in Ids(b) /\ level[top] = n
  BY <1>1, <1>2, <1>3, <1>4 DEF Last
<1>6. PICK first : first = Node(b, top).child
  OBVIOUS
<1>7. first \in Nat
  <2>1. first = 0 \/ first \in Ids(b)
    BY <1>1, <1>5, <1>6 DEF Hangs
  <2>2. \A id \in Ids(b) : id \in Nat
    BY NodesTyped DEF Tidy
  <2> QED
    BY <2>1, <2>2
<1>8. PICK node : node = [DawgNode(label) EXCEPT !.sibling = first, !.is_state = first = 0]
  OBVIOUS
<1>9. /\ node \in NodeSet({0})
      /\ node.sibling = first /\ node.label = label
      /\ node.is_state <=> first = 0
      /\ ~ node.has_sibling
  <2>1. PICK z \in BOOLEAN : z = (first = 0)
    OBVIOUS
  <2>2. node = [child |-> 0, sibling |-> first, label |-> label, is_state |-> z,
                has_sibling |-> FALSE]
    BY <1>8, <2>1 DEF DawgNode
  <2>3. node \in NodeSet({0})
    BY <1>7, <2>2 DEF NodeSet
  <2>4. node.sibling = first /\ node.label = label /\ node.is_state = z /\ node.has_sibling = FALSE
    BY <2>2
  <2> QED
    BY <2>1, <2>3, <2>4
<1>10. PICK a : a = AppendNode(b, node)
  OBVIOUS
<1>11. PICK id : Appended(b, level, a, id, node)
  BY <1>9, <1>10, AppendIs
<1>12. /\ Builder(a) /\ id # 0 /\ Ids(a) = Ids(b) \union {id}
       /\ id \in Ids(b) => level[id] = 0
       /\ Node(a, id) = node
       /\ \A i \in Ids(b) : i # id => Node(a, i) = Node(b, i)
       /\ a.node_stack = Append(s, id)
  BY <1>2, <1>11 DEF Appended
<1>13. PICK A : a.nodes \in Seq(NodeSet(A))
  BY <1>11 DEF Appended
<1>14. PICK S : S = Ids(a)
  OBVIOUS
<1>15. /\ Len(a.node_stack) = n + 1
       /\ a.node_stack[n + 1] = id
       /\ \A p \in 1 .. n : a.node_stack[p] = s[p]
  <2>1. s \in Seq(S) /\ id \in S
    <3>1. Ids(b) \subseteq S /\ id \in S
      BY <1>12, <1>14
    <3> QED
      BY <1>3, <3>1, SeqMonotonic
  <2> QED
    BY <1>3, <1>12, <2>1, AppendProperties
<1>16. Last(a.node_stack) = id
  BY <1>15 DEF Last
<1>17. PICK c : c = [a EXCEPT !.nodes[top + 1].child = id]
  OBVIOUS
<1>18. r.dawg = c
  <2>1. at.dawg = b /\ at.id = top
    BY <1>5
  <2>2. r = [dawg |-> c, id |-> id]
    BY <1>6, <1>8, <1>10, <1>16, <1>17, <2>1 DEF AddNode
  <2> QED
    BY <2>2
<1>19. /\ c.nodes = [a.nodes EXCEPT ![top + 1].child = id] /\ c.node_stack = a.node_stack
       /\ c.units = a.units /\ c.table = a.table
       /\ c.is_intersection = a.is_intersection /\ c.num_states = a.num_states
  BY <1>12, <1>17 DEF Builder
<1>20. c.units = b.units /\ GraphFits(c, V)
  <2>1. /\ a.units = b.units /\ a.table = b.table
        /\ a.is_intersection = b.is_intersection /\ a.num_states = b.num_states
    BY <1>10, AppendGraph DEF Tidy
  <2> QED
    BY <1>19, <2>1 DEF GraphFits
<1>21. top \in Ids(a) /\ top # id
  <2>1. level[top] # 0
    BY <1>5
  <2> QED
    BY <1>5, <1>12, <2>1
<1>22. ChildOnly(a, c, top, id)
  BY <1>13, <1>19, <1>21, NodeGiven
<1>23. OnStack(c) = {s[p] : p \in 1 .. n} \union {id}
  <2>1. OnStack(c) = {a.node_stack[p] : p \in 1 .. n + 1}
    BY <1>15, <1>19 DEF OnStack
  <2>2. \A p \in 1 .. n + 1 : p \in 1 .. n \/ p = n + 1
    OBVIOUS
  <2>3. n + 1 \in 1 .. n + 1 /\ \A p \in 1 .. n : p \in 1 .. n + 1
    OBVIOUS
  <2>4. \A x \in OnStack(c) : x \in {s[p] : p \in 1 .. n} \union {id}
    BY <1>15, <2>1, <2>2
  <2>5. \A p \in 1 .. n : s[p] \in OnStack(c)
    BY <1>15, <2>1, <2>3
  <2>6. id \in OnStack(c)
    BY <1>15, <2>1, <2>3
  <2> QED
    BY <2>4, <2>5, <2>6
<1>24. OnStack(b) = {s[p] : p \in 1 .. n}
  BY <1>1, <1>2 DEF OnStack
<1>25. top \in OnStack(b)
  <2>1. n \in 1 .. n
    OBVIOUS
  <2> QED
    BY <1>4, <1>24, <2>1
<1>26. ASSUME NEW i \in Ids(c) \ {0}
       PROVE  /\ Node(c, i).label \in 0 .. BLOCK_SIZE - 1
              /\ Node(c, i).is_state => Node(c, i).sibling = 0
              /\ i \notin OnStack(c) => Ended(c, V, i)
  <2>1. CASE i = id
    BY <1>9, <1>12, <1>22, <1>23, <2>1 DEF ChildOnly
  <2>2. CASE i # id
    <3>1. i \in Ids(b) \ {0} /\ i \in Ids(a) /\ Node(a, i) = Node(b, i)
      BY <1>12, <1>22, <2>2 DEF ChildOnly
    <3>2. /\ Node(b, i).label \in 0 .. BLOCK_SIZE - 1
          /\ Node(b, i).is_state => Node(b, i).sibling = 0
          /\ i \notin OnStack(b) => Ended(b, V, i)
      BY <3>1 DEF NodesFit
    <3>3. ASSUME i \notin OnStack(c) PROVE Ended(c, V, i)
      <4>1. i \notin OnStack(b)
        BY <1>23, <1>24, <3>3
      <4>2. Ended(b, V, i) /\ i # top
        BY <1>25, <3>2, <4>1
      <4> QED
        BY <1>20, <1>22, <3>1, <4>2 DEF ChildOnly, Ended
    <3> QED
      BY <1>22, <3>1, <3>2, <3>3 DEF ChildOnly
  <2> QED
    BY <2>1, <2>2
<1>27. \A i \in Ids(b) : i # id => i \in Ids(a) /\ Node(c, i).label = Node(b, i).label
                                   /\ Node(c, i).has_sibling = Node(b, i).has_sibling
  BY <1>12, <1>22 DEF ChildOnly
<1>28. \A p \in 1 .. n : s[p] # id
  <2> SUFFICES ASSUME NEW p \in 1 .. n, s[p] = id PROVE FALSE
    OBVIOUS
  <2>1. p # 0 /\ s[p] \in Ids(b) /\ level[s[p]] = p
    BY <1>3
  <2> QED
    BY <1>12, <2>1
<1>29. NodesFit(c, V, 1)
  <2>1. Node(c, Root).label # 0
    <3>1. 1 \in 1 .. n
      OBVIOUS
    <3>2. 0 \in Ids(b)
      BY <1>3, <3>1
    <3> QED
      BY <1>12, <1>27, <3>2 DEF NodesFit, Root
  <2>2. ASSUME NEW p \in 1 .. n PROVE Node(c, s[p]).label # 0
    <3>1. Node(b, s[p]).label # 0
      <4>1. CASE p = n
        BY <1>4, <1>5, <4>1
      <4>2. CASE p # n
        <5>1. p \in 1 .. n - 1
          BY <4>2
        <5> QED
          BY <1>1, <1>2, <5>1 DEF NodesFit
      <4> QED
        BY <4>1, <4>2
    <3> QED
      BY <1>3, <1>27, <1>28, <3>1
  <2>3. ASSUME NEW p \in 2 .. n + 1 PROVE ~ Node(c, c.node_stack[p]).has_sibling
    <3>1. CASE p = n + 1
      <4>1. id \in Ids(a) /\ c.node_stack[p] = id
        BY <1>12, <1>15, <1>19, <3>1
      <4> QED
        BY <1>9, <1>12, <1>22, <4>1 DEF ChildOnly
    <3>2. CASE p # n + 1
      <4>1. p \in 1 .. n /\ p \in 2 .. n /\ p # 1
        BY <3>2
      <4>2. ~ Node(b, s[p]).has_sibling
        BY <1>1, <1>2, <4>1 DEF NodesFit
      <4>3. c.node_stack[p] = s[p]
        BY <1>15, <1>19, <4>1
      <4> QED
        BY <1>3, <1>27, <1>28, <4>1, <4>2, <4>3
    <3> QED
      BY <3>1, <3>2
  <2>4. \A p \in 1 .. n : c.node_stack[p] = s[p]
    BY <1>15, <1>19
  <2>5. Len(c.node_stack) = n + 1 /\ n + 1 - 1 = n
    BY <1>15, <1>19
  <2> QED
    BY <1>26, <2>1, <2>2, <2>3, <2>4, <2>5 DEF NodesFit
<1> QED
  BY <1>18, <1>20, <1>29

\* The characters of a key are below BLOCK_SIZE.
LEMMA CharBelow ==
    ASSUME NEW k \in Seq(Labels), NEW p \in Nat \ {0}
    PROVE  CharAt(k, p) \in 0 .. BLOCK_SIZE - 1 /\ CharAt(k, p) \in Nat
<1>1. CharAt(k, p) \in Labels \/ CharAt(k, p) = 0
  BY CharIs
<1>2. BLOCK_SIZE \in Nat \ {0} /\ Labels \subseteq 1 .. BLOCK_SIZE - 1
  BY Sizes, SizeAssumption
<1>3. CASE CharAt(k, p) \in Labels
  <2>1. PICK label \in 1 .. BLOCK_SIZE - 1 : label = CharAt(k, p)
    BY <1>2, <1>3, Zenon
  <2> QED
    BY <1>2, <2>1
<1>4. CASE CharAt(k, p) = 0
  BY <1>2, <1>4
<1> QED
  BY <1>1, <1>3, <1>4

\* Extend leaves what may be flushed, when the value may be.
LEMMA ExtendFits ==
    ASSUME NEW b, NEW key \in Seq(Labels), NEW pos \in 1 .. Len(key) + 1, NEW id,
           NEW V, NEW value \in V, ExtendedTo([dawg |-> b, id |-> id], key, pos - 1),
           GraphFits(b, V), NodesFit(b, V, 1), NEW c, c = Extend(b, key, value, id, pos)
    PROVE  GraphFits(c, V) /\ NodesFit(c, V, 1) /\ Ended(c, V, Last(c.node_stack))
<1>1. PICK n \in Nat : n = Len(key)
  BY LenProperties
<1>2. PICK K \in Nat : K = n + 2 - pos /\ K # 0
  <2>1. n + 2 - pos \in Nat /\ n + 2 - pos # 0
    BY <1>1
  <2> QED
    BY <2>1
<1>3. pos \in 1 .. n + 1
  BY <1>1
<1>4. PICK h : /\ IsExtendRun(b, key, id, pos, K, h)
               /\ \A m \in 0 .. K : ExtendedTo(h[m], key, pos - 1 + m)
               /\ ValueGiven(h[K].dawg, h[K].id, value, Extend(b, key, value, id, pos))
  BY <1>1, <1>2, <1>3, ExtendSteps
<1>5. \A m \in 0 .. K : h[m] = ExtendTurn(b, key, id, pos, h, m)
  BY <1>4 DEF IsExtendRun
<1> DEFINE Good(m) == GraphFits(h[m].dawg, V) /\ NodesFit(h[m].dawg, V, 1)
           Bad == {m \in 0 .. K : ~ Good(m)}
<1>6. Good(0)
  <2>1. h[0] = [dawg |-> b, id |-> id]
    BY <1>5 DEF ExtendTurn
  <2>2. h[0].dawg = b
    BY <2>1
  <2> QED
    BY <2>2
<1>7. ASSUME NEW m \in 1 .. K, Good(m - 1) PROVE Good(m)
  <2>1. PICK i \in Nat : i = pos - 1 + (m - 1) /\ i <= n
    <3>1. pos - 1 + (m - 1) \in Nat /\ pos - 1 + (m - 1) <= n
      BY <1>2, <1>3
    <3> QED
      BY <3>1
  <2>2. m \in 0 .. K /\ m - 1 \in 0 .. K /\ m # 0
    OBVIOUS
  <2>3. h[m] = AddNode(h[m - 1], CharAt(key, i + 1))
    <3>1. pos + m - 1 = i + 1
      BY <1>3, <2>1
    <3> QED
      BY <1>5, <2>2, <3>1 DEF ExtendTurn
  <2>4. PICK at : at = h[m - 1]
    OBVIOUS
  <2>5. ExtendedTo(at, key, i)
    BY <1>4, <2>1, <2>2, <2>4
  <2>6. PICK d : d = at.dawg
    OBVIOUS
  <2>7. at = [dawg |-> d, id |-> Last(d.node_stack)] /\ PathTo(d, key, i)
    BY <2>5, <2>6 DEF ExtendedTo
  <2>8. PICK l : Tidy(d, l) /\ Hangs(d, l, CharAt(key, i + 1))
    BY <2>5, <2>6 DEF ExtendedTo
  <2>9. GraphFits(d, V) /\ NodesFit(d, V, 1)
    BY <1>7, <2>4, <2>6
  <2>10. Node(d, Last(d.node_stack)).label # 0
    <3>1. Last(d.node_stack) = d.node_stack[i + 1]
      BY <2>7 DEF Last, PathTo
    <3>2. CASE i = 0
      <4>1. d.node_stack[1] = Root
        BY <2>8 DEF Tidy, TidyStack
      <4> QED
        BY <2>9, <3>1, <3>2, <4>1 DEF NodesFit
    <3>3. CASE i # 0
      <4>1. i \in 1 .. i
        BY <3>3
      <4>2. Node(d, d.node_stack[i + 1]).label = CharAt(key, i)
        BY <2>7, <4>1 DEF PathTo
      <4>3. i \in Nat \ {0} /\ i <= Len(key)
        BY <1>1, <2>1, <3>3
      <4>4. CharAt(key, i) > 0 /\ CharAt(key, i) \in Nat
        BY <4>3, CharIs
      <4> QED
        BY <3>1, <4>2, <4>4
    <3> QED
      BY <3>2, <3>3
  <2>11. PICK label \in 0 .. BLOCK_SIZE - 1 : label = CharAt(key, i + 1) /\ label \in Nat
    <3>1. i + 1 \in Nat \ {0}
      OBVIOUS
    <3> QED
      BY <3>1, CharBelow
  <2>12. h[m] = AddNode(at, label)
    BY <2>3, <2>4, <2>11
  <2>13. GraphFits(h[m].dawg, V) /\ NodesFit(h[m].dawg, V, 1)
    BY <2>7, <2>8, <2>9, <2>10, <2>11, <2>12, AddNodeFits
  <2> QED
    BY <2>13
<1> HIDE DEF Good
<1>8. Bad = {}
  <2> SUFFICES ASSUME Bad # {} PROVE FALSE
    OBVIOUS
  <2> Bad \in SUBSET Nat
    OBVIOUS
  <2>1. PICK m \in Bad : \A i \in Bad : ~ (i < m)
    BY LeastNumber
  <2>2. m \in 1 .. K /\ m - 1 \in 0 .. K /\ m - 1 < m
    BY <1>6, <2>1
  <2>3. Good(m - 1)
    BY <2>1, <2>2
  <2> QED
    BY <1>7, <2>1, <2>2, <2>3
<1>9. PICK a : a = h[K].dawg
  OBVIOUS
<1>10. GraphFits(a, V) /\ NodesFit(a, V, 1)
  BY <1>8, <1>9 DEF Good
<1>11. ExtendedTo(h[K], key, n + 1)
  <2>1. pos - 1 + K = n + 1 /\ K \in 0 .. K
    BY <1>2, <1>3
  <2> QED
    BY <1>4, <2>1
<1>12. PICK l : Tidy(a, l)
  BY <1>9, <1>11 DEF ExtendedTo
<1>13. PathTo(a, key, n + 1) /\ h[K].id = Last(a.node_stack)
  BY <1>9, <1>11 DEF ExtendedTo
<1>14. PICK s : s = a.node_stack
  OBVIOUS
<1>15. /\ Len(s) = n + 2 /\ s[n + 2] \in Ids(a)
       /\ Node(a, s[n + 2]).label = CharAt(key, n + 1)
  <2>1. Len(s) = n + 2
    BY <1>13, <1>14 DEF PathTo
  <2>2. n + 2 \in 1 .. n + 2 /\ n + 1 \in 1 .. n + 1 /\ n + 1 + 1 = n + 2
    OBVIOUS
  <2>3. s[n + 2] \in Ids(a)
    BY <1>12, <1>14, <2>1, <2>2, StackTyped
  <2> QED
    BY <1>13, <1>14, <2>1, <2>2, <2>3 DEF PathTo
<1>16. CharAt(key, n + 1) = 0
  <2>1. n + 1 \in Nat \ {0} /\ ~ (n + 1 <= Len(key))
    BY <1>1
  <2> QED
    BY <2>1, CharIs
<1>17. PICK y \in Ids(a) : y = s[n + 2]
  BY <1>15
<1>18. h[K].id = y
  BY <1>13, <1>14, <1>15, <1>17 DEF Last
<1>19. c = [a EXCEPT !.nodes[y + 1].child = value]
  BY <1>4, <1>9, <1>18 DEF ValueGiven
<1>20. Builder(a)
  BY <1>12 DEF Tidy
<1>21. /\ c.nodes = [a.nodes EXCEPT ![y + 1].child = value] /\ c.node_stack = s
       /\ c.units = a.units /\ c.table = a.table
       /\ c.is_intersection = a.is_intersection /\ c.num_states = a.num_states
  BY <1>14, <1>19, <1>20 DEF Builder
<1>22. PICK A : a.nodes \in Seq(NodeSet(A))
  BY <1>12 DEF Tidy
<1>23. ChildOnly(a, c, y, value)
  BY <1>21, <1>22, NodeGiven
<1>24. GraphFits(c, V)
  BY <1>10, <1>21 DEF GraphFits
<1>25. OnStack(c) = OnStack(a) /\ y \in OnStack(a)
  <2>1. n + 2 \in 1 .. n + 2
    OBVIOUS
  <2> QED
    BY <1>14, <1>15, <1>17, <1>21, <2>1 DEF OnStack
<1>26. \A p \in 1 .. n + 2 : s[p] \in Ids(a)
  BY <1>12, <1>14, <1>15, StackTyped
<1>27. NodesFit(c, V, 1)
  <2>1. Node(c, Root).label # 0
    <3>1. 1 \in 1 .. n + 2
      OBVIOUS
    <3>2. s[1] = 0
      BY <1>12, <1>14 DEF Tidy, TidyStack, Root
    <3>3. 0 \in Ids(a)
      BY <1>26, <3>1, <3>2
    <3> QED
      BY <1>10, <1>23, <3>3 DEF ChildOnly, NodesFit, Root
  <2>2. ASSUME NEW i \in Ids(c) \ {0}
        PROVE  /\ Node(c, i).label \in 0 .. BLOCK_SIZE - 1
               /\ Node(c, i).is_state => Node(c, i).sibling = 0
               /\ i \notin OnStack(c) => Ended(c, V, i)
    <3>1. i \in Ids(a) \ {0}
      BY <1>23 DEF ChildOnly
    <3>2. /\ Node(a, i).label \in 0 .. BLOCK_SIZE - 1
          /\ Node(a, i).is_state => Node(a, i).sibling = 0
          /\ i \notin OnStack(a) => Ended(a, V, i)
      BY <1>10, <3>1 DEF NodesFit
    <3>3. ASSUME i \notin OnStack(c) PROVE Ended(c, V, i)
      <4>1. i # y /\ Ended(a, V, i)
        BY <1>25, <3>2, <3>3
      <4> QED
        BY <1>21, <1>23, <3>1, <4>1 DEF ChildOnly, Ended
    <3> QED
      BY <1>23, <3>1, <3>2, <3>3 DEF ChildOnly
  <2>3. ASSUME NEW p \in 1 .. n + 2 - 1 PROVE Node(c, s[p]).label # 0
    <3>1. p \in 1 .. n + 2
      OBVIOUS
    <3>2. Node(a, s[p]).label # 0
      BY <1>10, <1>14, <1>15 DEF NodesFit
    <3> QED
      BY <1>23, <1>26, <3>1, <3>2 DEF ChildOnly
  <2>4. ASSUME NEW p \in 2 .. n + 2 PROVE ~ Node(c, s[p]).has_sibling
    <3>1. p \in 1 .. n + 2 /\ p # 1
      OBVIOUS
    <3>2. ~ Node(a, s[p]).has_sibling
      BY <1>10, <1>14, <1>15, <3>1 DEF NodesFit
    <3> QED
      BY <1>23, <1>26, <3>1, <3>2 DEF ChildOnly
  <2> QED
    BY <1>15, <1>21, <2>1, <2>2, <2>3, <2>4 DEF NodesFit
<1>28. Ended(c, V, Last(c.node_stack))
  <2>1. Last(c.node_stack) = y
    BY <1>13, <1>14, <1>18, <1>21
  <2>2. Node(c, y).label = 0 /\ Node(c, y).child = value
    BY <1>15, <1>16, <1>17, <1>23 DEF ChildOnly
  <2> QED
    BY <2>1, <2>2 DEF Ended
<1> QED
  BY <1>24, <1>27, <1>28

\* Insert leaves what may be flushed.
LEMMA InsertFits ==
    ASSUME NEW b, NEW V \in SUBSET Nat, Complete(b, V), NEW key \in Seq(Labels), NEW value \in V,
           NEW d, Inserted(b, key, value, d), Spelt(d, key)
    PROVE  Complete(d, V)
<1>1. PICK level : Tidy(b, level)
  BY DEF Complete
<1>2. CASE d = b
  BY <1>2
<1>3. CASE d # b
  <2>1. PICK c : \E pos \in 1 .. Len(key) + 1 :
           /\ GoesFrom(b, c)
           /\ ExtendedTo([dawg |-> c, id |-> Last(c.node_stack)], key, pos - 1)
           /\ d = Extend(c, key, value, Last(c.node_stack), pos)
    BY <1>3, Zenon DEF Inserted
  <2>2. PICK pos \in 1 .. Len(key) + 1 :
           /\ GoesFrom(b, c)
           /\ ExtendedTo([dawg |-> c, id |-> Last(c.node_stack)], key, pos - 1)
           /\ d = Extend(c, key, value, Last(c.node_stack), pos)
    BY <2>1
  <2>3. GraphFits(c, V) /\ NodesFit(c, V, 1)
    <3>1. CASE c = b
      BY <3>1 DEF Complete
    <3>2. CASE c # b
      <4>1. PICK L \in Nat \ {0} : L = Len(b.node_stack)
        BY <1>1, StackTyped
      <4>2. PICK e \in 2 .. L :
               c = Flush([b EXCEPT !.nodes[b.node_stack[e] + 1].has_sibling = TRUE],
                         b.node_stack[e])
        BY <2>2, <3>2, <4>1 DEF GoesFrom
      <4>3. L # 1
        BY <4>2
      <4>4. GraphFits(b, V) /\ NodesFit(b, V, 1) /\ Ended(b, V, Last(b.node_stack))
        BY <4>1, <4>3 DEF Complete
      <4> QED
        BY <1>1, <4>1, <4>2, <4>4, FlushMarked
    <3> QED
      BY <3>1, <3>2
  <2>4. GraphFits(d, V) /\ NodesFit(d, V, 1) /\ Ended(d, V, Last(d.node_stack))
    BY <2>2, <2>3, ExtendFits
  <2> QED
    BY <2>4 DEF Complete, Spelt
<1> QED
  BY <1>2, <1>3

--------
(***************************************************************************)
(* A build.                                                                *)
(***************************************************************************)

\* A new builder is complete.
LEMMA NewComplete ==
    ASSUME NEW V
    PROVE  Complete(DawgInit, V)
<1>1. PICK b : b = DawgInit
  OBVIOUS
<1>2. PICK unit : unit = DawgUnit(DawgNode(RootLabel))
  OBVIOUS
<1>3. /\ b.nodes = <<DawgNode(RootLabel)>> /\ b.node_stack = <<0>> /\ b.units = <<unit>>
      /\ b.table = [h \in 0 .. INITIAL_TABLE_SIZE - 1 |-> 0]
      /\ b.is_intersection = {} /\ b.num_states = 1
  BY <1>1, <1>2 DEF DawgInit, Root
<1>4. (\E l : Tidy(b, l)) /\ Len(b.node_stack) = 1 /\ Node(b, Root).child = 0
  BY <1>1, NewIsBlank DEF Blank
<1>5. b.units \in Seq({unit}) /\ Len(b.units) = 1 /\ 2 .. 1 = {}
  BY <1>3
<1>6. Linked(b.units, V)
  <2>1. PICK u : u = b.units
    OBVIOUS
  <2>2. u \in Seq({unit}) /\ Len(u) = 1
    BY <1>5, <2>1
  <2>3. u # <<>>
    <3>1. Len(<<>>) = 0
      OBVIOUS
    <3> QED
      BY <2>2, <3>1, SMTT(30)
  <2>4. \E T : u \in Seq(T)
    BY <2>2
  <2>5. 2 .. Len(u) = {}
    BY <1>5, <2>2
  <2>6. Linked(u, V)
    BY <2>3, <2>4, <2>5 DEF Linked
  <2> QED
    BY <2>1, <2>6
<1>7. StateUnits(b.units) = {} /\ Cardinality({}) = 0
  BY <1>5, FS_EmptySet DEF StateUnits
<1>8. PICK size \in Nat \ {0} : size = INITIAL_TABLE_SIZE /\ 1 <= size
  BY TableAssumption
<1>9. TableFits(b.table, size, 1, 0)
  <2>1. b.table \in [0 .. size - 1 -> 0 .. 1 - 1]
    BY <1>3, <1>8
  <2>2. Filled(b.table) = {}
    BY <1>3 DEF Filled
  <2> QED
    BY <1>7, <2>1, <2>2 DEF TableFits
<1>10. GraphFits(b, V)
  <2>1. b.is_intersection \subseteq 1 .. Len(b.units) - 1
    BY <1>3
  <2>2. b.num_states \in Nat \ {0} /\ b.num_states - 1 = 0 /\ b.num_states <= size
    BY <1>3, <1>8
  <2>3. TableFits(b.table, size, Len(b.units), b.num_states - 1)
    BY <1>5, <1>9, <2>2
  <2>4. Cardinality(StateUnits(b.units)) <= b.num_states - 1
    BY <1>7, <2>2
  <2> QED
    BY <1>6, <2>1, <2>2, <2>3, <2>4 DEF GraphFits
<1>11. NodesFit(b, V, 1)
  <2>1. Ids(b) = {0} /\ Node(b, Root).label # 0
    <3>1. PICK node : node = DawgNode(RootLabel)
      OBVIOUS
    <3>2. node.label = 255
      BY <3>1 DEF DawgNode, RootLabel
    <3>3. b.nodes = <<node>> /\ Len(b.nodes) = 1 /\ b.nodes[1] = node
      BY <1>3, <3>1
    <3> QED
      BY <3>2, <3>3 DEF Ids, Node, Root
  <2> QED
    BY <1>4, <1>5, <2>1 DEF NodesFit
<1>12. Complete(b, V)
  BY <1>4, <1>10, <1>11 DEF Complete
<1> QED
  BY <1>1, <1>12

\* A call of build_from_dawg is for a node with children.
DawgFrame(f) ==
    /\ f.dawg_id \in 0 .. Len(dawg.units) - 1
    /\ Child(dawg, f.dawg_id) \in 1 .. Len(dawg.units) - 1
    /\ f.id \in Within

\* A child that is not a leaf has children.
InnerKid(kid) ==
    /\ kid.dawg_id \in 0 .. Len(dawg.units) - 1
    /\ Child(dawg, kid.dawg_id) \in 1 .. Len(dawg.units) - 1

\* The children of such a call fit.
LEMMA DawgKidsFit ==
    ASSUME NEW V, NEW W, V \subseteq W, Graph(dawg, V), NEW f, DawgFrame(f),
           NEW kids, kids = DawgKids(f)
    PROVE  \E n : /\ KidsFit(kids, n, W)
                  /\ \A i \in 1 .. n : kids[i].label # 0 => InnerKid(kids[i])
<1>1. PICK u : u = dawg.units
  OBVIOUS
<1>2. Linked(u, V)
  BY <1>1 DEF Graph
<1>3. PICK m \in Nat : m = Len(u)
  BY <1>2, LenProperties DEF Linked
<1>4. PICK c \in 1 .. m - 1 : c = Child(dawg, f.dawg_id)
  BY <1>1, <1>3 DEF DawgFrame
<1>5. PICK g : g = UnitGroup(dawg, c)
  OBVIOUS
<1>6. PICK n : GroupAt(g, u, c, n)
  BY <1>1, <1>2, <1>3, <1>4, <1>5, UnitGroupIs
<1>7. /\ n \in Nat \ {0} /\ DOMAIN g = 1 .. n /\ c + n <= m
      /\ \A i \in 1 .. n : g[i] = u[c + i]
      /\ \A i \in 1 .. n - 1 : g[i].label < g[i + 1].label
  BY <1>3, <1>6 DEF GroupAt
<1>8. kids = [i \in 1 .. n |->
                [label |-> g[i].label, value |-> g[i].child, dawg_id |-> c + i - 1]]
  BY <1>4, <1>5, <1>7 DEF DawgKids
<1>9. ASSUME NEW i \in 1 .. n
      PROVE  /\ kids[i].label = u[c + i].label /\ kids[i].value = u[c + i].child
             /\ kids[i].dawg_id = c + i - 1 /\ c + i - 1 \in 0 .. m - 1
             /\ UnitFits(u[c + i], V, m)
  <2>1. c + i \in 2 .. m /\ c + i - 1 \in 0 .. m - 1
    BY <1>7
  <2>2. UnitFits(u[c + i], V, m)
    BY <1>2, <1>3, <2>1 DEF Linked
  <2> QED
    BY <1>7, <1>8, <2>1, <2>2
<1>10. kids \in [1 .. n -> {kids[i] : i \in 1 .. n}]
  BY <1>8
<1>11. Len(kids) = n /\ DOMAIN kids = 1 .. n
  BY <1>7, <1>10, FunctionIsSeq
<1>12. \A i \in 1 .. n : kids[i].label \in 0 .. BLOCK_SIZE - 1
  BY <1>9 DEF UnitFits
<1>13. \A i \in 1 .. n : kids[i].label = 0 => kids[i].value \in W
  BY <1>9 DEF UnitFits
<1>14. PICK M : M = [i \in 1 .. n |-> kids[i].label]
  OBVIOUS
<1>15. M \in [1 .. n -> Int]
  BY <1>12, <1>14
<1>16. \A i \in 1 .. n - 1 : M[i] < M[i + 1]
  <2> SUFFICES ASSUME NEW i \in 1 .. n - 1 PROVE M[i] < M[i + 1]
    OBVIOUS
  <2>1. i \in 1 .. n /\ i + 1 \in 1 .. n
    BY <1>7
  <2>2. g[i].label < g[i + 1].label
    BY <1>7
  <2>3. M[i] = g[i].label /\ M[i + 1] = g[i + 1].label
    BY <1>8, <1>14, <2>1
  <2> QED
    BY <2>2, <2>3
<1>17. \A i, j \in 1 .. n : i < j => M[i] < M[j]
  BY <1>7, <1>15, <1>16, Rises
<1>18. ASSUME NEW i \in 1 .. n, NEW j \in 1 .. n, kids[i].label = kids[j].label PROVE i = j
  <2>1. M[i] = M[j] /\ M[i] \in Int /\ M[j] \in Int
    BY <1>14, <1>15, <1>18
  <2>2. ~ (i < j) /\ ~ (j < i)
    BY <1>17, <2>1
  <2> QED
    BY <1>7, <2>2
<1>19. KidsFit(kids, n, W)
  BY <1>7, <1>11, <1>12, <1>13, <1>18 DEF KidsFit
<1>20. ASSUME NEW i \in 1 .. n, kids[i].label # 0 PROVE InnerKid(kids[i])
  <2>1. PICK x \in 0 .. m - 1 : x = c + i - 1
    BY <1>9
  <2>2. kids[i].dawg_id = x /\ x + 1 = c + i
    BY <1>7, <1>9, <2>1
  <2>3. Child(dawg, x) = u[c + i].child
    BY <1>1, <2>2 DEF Child
  <2>4. u[c + i].child \in 1 .. m - 1
    BY <1>9, <1>20 DEF UnitFits
  <2> QED
    BY <1>1, <1>3, <2>1, <2>2, <2>3, <2>4 DEF InnerKid
<1> QED
  BY <1>19, <1>20

\* The place of an intersection in the table of offsets.
LEMMA PlaceIs ==
    ASSUME NEW g, NEW m \in Nat, g.is_intersection \subseteq 1 .. m, NEW x \in g.is_intersection
    PROVE  IntersectionId(g, x) \in 0 .. Cardinality(g.is_intersection) - 1
<1>1. PICK S : S = g.is_intersection
  OBVIOUS
<1>2. PICK T : T = {i \in S : i < x}
  OBVIOUS
<1>3. IsFiniteSet(S)
  <2>1. IsFiniteSet(1 .. m)
    BY FS_Interval
  <2> QED
    BY <1>1, <2>1, FS_Subset
<1>4. IsFiniteSet(S \ {x}) /\ Cardinality(S \ {x}) = Cardinality(S) - 1
  BY <1>1, <1>3, FS_RemoveElement
<1>5. T \subseteq S \ {x}
  <2>1. x \in Int
    OBVIOUS
  <2> QED
    BY <1>2, <2>1
<1>6. IsFiniteSet(T) /\ Cardinality(T) <= Cardinality(S \ {x})
  BY <1>4, <1>5, FS_Subset
<1>7. Cardinality(T) \in Nat /\ Cardinality(S) \in Nat
  BY <1>3, <1>6, FS_CardinalityType
<1>8. IntersectionId(g, x) = Cardinality(T)
  BY <1>1, <1>2 DEF IntersectionId
<1> QED
  BY <1>1, <1>4, <1>6, <1>7, <1>8

\* The list does not depend on the table of offsets.
LEMMA TableSet ==
    ASSUME NEW b, NEW V, Ring(b, V), NEW x, NEW c, c = [b EXCEPT !.table = x]
    PROVE  Ring(c, V) /\ c.table = x
<1>1. b = [units |-> b.units, extras_head |-> b.extras_head, table |-> b.table,
           extras |-> b.extras]
  BY DEF Ring, Typed
<1>2. /\ c = [units |-> c.units, extras_head |-> c.extras_head, table |-> c.table,
              extras |-> c.extras]
      /\ c.units = b.units /\ c.extras_head = b.extras_head /\ c.extras = b.extras
      /\ c.table = x
  BY <1>1
<1>3. Size(c) = Size(b) /\ First(c) = First(b) /\ \A id : Extra(c, id) = Extra(b, id)
  BY <1>2 DEF Size, First, Extra
<1>4. Open(c) = Open(b) /\ Nexts(c) = Nexts(b) /\ Prevs(c) = Prevs(b)
  BY <1>3 DEF Open, Nexts, Prevs
<1>5. Typed(c, V)
  BY <1>2, <1>3 DEF Ring, Typed
<1> QED
  BY <1>2, <1>3, <1>4, <1>5 DEF Ring

\* Taking over a base keeps the list.
LEMMA SharedIs ==
    ASSUME NEW V, Ring(builder, V), NEW f, NEW offset \in Nat, NEW c, c = Shared(f, offset)
    PROVE  Ring(c, V) /\ c.table = builder.table
<1>1. PICK b : b = builder
  OBVIOUS
<1>2. PICK o \in Nat : o = StoredOffset(offset)
  BY StoredIs
<1>3. PICK i : i = f.id + 1
  OBVIOUS
<1>4. PICK l \in BOOLEAN :
         l = ([b EXCEPT !.units[i].offset = o].units[i].has_leaf
                \/ IsLeaf(dawg, Child(dawg, f.dawg_id)))
  OBVIOUS
<1>5. c = [b EXCEPT !.units[i].offset = o, !.units[i].has_leaf = l]
  BY <1>1, <1>2, <1>3, <1>4 DEF Shared
<1>6. Kept(b, c, V)
  BY <1>1, <1>5, BaseSet
<1> QED
  BY <1>1, <1>6 DEF Kept

\* The values that keys of a word graph may have.
GraphValues == {x \in Nat : \E i \in DOMAIN keyset : keyset[i].value = x}

\* The calls of build_from_dawg.
DawgCalls ==
    /\ \E S : todo \in Seq(S)
    /\ \A n \in 1 .. Len(todo) : DawgFrame(todo[n])

\* The calls of a build without values are for units.
KeysetIds == \A n \in 1 .. Len(todo) : todo[n].id \in Within

\* The graph, its calls and the table of offsets.
DawgArranged ==
    /\ Graph(dawg, GraphValues) /\ DawgCalls
    /\ builder.table \in [0 .. Cardinality(dawg.is_intersection) - 1 -> Within]

\* The list holds from the first block to the last, and before what makes the
\* children that are arranged fit; offsets stay those that set_offset can store.
BuildInv ==
    /\ ThrowInv
    /\ phase \in {"insert", "arrange", "built", "failed", "too_large"}
    /\ phase = "too_large" => Size(builder) + BLOCK_SIZE > MaxOffset
    /\ Ring(builder, Values)
    /\ phase = "insert" => Size(builder) = 0
    /\ phase = "insert" /\ has_values => Complete(dawg, GraphValues)
    /\ phase = "arrange" /\ has_values => DawgArranged
    /\ phase = "arrange" /\ ~ has_values => KeysetIds

\* The values of a graph are values of units.
LEMMA GraphValuesIn == GraphValues \subseteq Values /\ GraphValues \in SUBSET Nat /\ -1 \in Values
BY DEF GraphValues, Values

\* A step that leaves the keys leaves the values.
LEMMA SameValues ==
    ASSUME keyset' = keyset
    PROVE  Values' = Values /\ GraphValues' = GraphValues
BY DEF Values, GraphValues

\* Inserting a key.
LEMMA BuildInsert ==
    ASSUME BuildInv, InsertKey
    PROVE  BuildInv'
<1>1. /\ phase = "insert" /\ has_values /\ inserted < Len(keyset) /\ keyset' = keyset
      /\ has_values' = has_values /\ builder' = builder
  BY DEF InsertKey
<1>2. ThrowInv /\ ThrowInv'
  BY ThrowInsert DEF BuildInv
<1>3. PICK n \in Nat : n = inserted
  BY KeysTyped DEF ThrowInv, BuildInv
<1>4. Len(keyset) \in Nat /\ n + 1 \in 1 .. Len(keyset) /\ DOMAIN keyset = 1 .. Len(keyset)
  BY <1>1, <1>2, <1>3, KeysTyped DEF ThrowInv
<1>5. PICK key \in Seq(Labels) : key = keyset[n + 1].key
  BY <1>2, <1>4, KeysTyped DEF ThrowInv
<1>6. PICK value \in Int : value = keyset[n + 1].value
  BY <1>2, <1>4, KeysTyped DEF ThrowInv
<1>7. PICK r : r = Insert(dawg, key, value)
  OBVIOUS
<1>8. phase' = (IF r.ok THEN "insert" ELSE "failed") /\ dawg' = r.dawg
  <2>1. Value(n + 1) = value
    BY <1>1, <1>6 DEF Value
  <2> QED
    BY <1>3, <1>5, <1>7, <2>1 DEF InsertKey
<1>9. Accepted(n) /\ Holds(dawg, n)
  BY <1>1, <1>2, <1>3 DEF ThrowInv
<1>10. r.ok => value >= 0 /\ Spelt(r.dawg, key) /\ Inserted(dawg, key, value, r.dawg)
  <2>1. CASE n = 0
    <3>1. Blank(dawg)
      BY <1>9, <2>1 DEF Holds
    <3> QED
      BY <1>7, <3>1, InsertFirst
  <2>2. CASE n # 0
    <3>1. PICK last \in Seq(Labels) : last = keyset[n].key
      <4>1. n \in 1 .. Len(keyset)
        BY <1>3, <1>4, <2>2
      <4> QED
        BY <1>2, <4>1, KeysTyped DEF ThrowInv
    <3>2. Spelt(dawg, last)
      BY <1>9, <2>2, <3>1 DEF Holds
    <3> QED
      BY <1>7, <3>2, InsertNext
  <2> QED
    BY <2>1, <2>2
<1>11. r.ok => Complete(r.dawg, GraphValues)
  <2> SUFFICES ASSUME r.ok PROVE Complete(r.dawg, GraphValues)
    OBVIOUS
  <2>1. value \in GraphValues
    BY <1>4, <1>6, <1>10 DEF GraphValues
  <2>2. Complete(dawg, GraphValues) /\ GraphValues \in SUBSET Nat
    BY <1>1, GraphValuesIn DEF BuildInv
  <2>3. Spelt(r.dawg, key) /\ Inserted(dawg, key, value, r.dawg)
    BY <1>10
  <2> QED
    BY <2>1, <2>2, <2>3, InsertFits
<1>12. phase' \in {"insert", "failed"} /\ (phase' = "insert" => r.ok)
  BY <1>8
<1>13. Ring(builder', Values') /\ Size(builder') = 0
  BY <1>1, SameValues DEF BuildInv
<1>14. phase' = "insert" => Complete(dawg', GraphValues')
  BY <1>1, <1>8, <1>11, <1>12, SameValues
<1> QED
  BY <1>2, <1>12, <1>13, <1>14 DEF BuildInv

\* The graph is finished and the root of the array reserved.
LEMMA BuildFinish ==
    ASSUME BuildInv, FinishDawg
    PROVE  BuildInv'
<1>1. /\ phase = "insert" /\ has_values /\ keyset' = keyset /\ has_values' = has_values
      /\ phase' = "arrange" /\ dawg' = Finish(dawg)
      /\ builder' = [RootReserved(builder) EXCEPT
                       !.table = [i \in 0 .. Cardinality(dawg'.is_intersection) - 1 |-> 0]]
      /\ todo' = IF Child(dawg', Root) # 0 THEN <<[dawg_id |-> Root, id |-> 0]>> ELSE <<>>
  BY DEF FinishDawg
<1>2. ThrowInv'
  BY ThrowFinish DEF BuildInv
<1>3. PICK g : g = dawg'
  OBVIOUS
<1>4. Graph(g, GraphValues)
  <2>1. Complete(dawg, GraphValues) /\ GraphValues \in SUBSET Nat
    BY <1>1, GraphValuesIn DEF BuildInv
  <2> QED
    BY <1>1, <1>3, <2>1, FinishIs
<1>5. PICK r : r = RootReserved(builder)
  OBVIOUS
<1>6. Ring(r, Values)
  BY <1>1, <1>5, RootIs, GraphValuesIn DEF BuildInv
<1>7. PICK table : table = [i \in 0 .. Cardinality(g.is_intersection) - 1 |-> 0]
  OBVIOUS
<1>8. Ring(builder', Values) /\ builder'.table = table
  <2>1. builder' = [r EXCEPT !.table = table]
    BY <1>1, <1>3, <1>5, <1>7
  <2> QED
    BY <1>6, <2>1, TableSet
<1>9. table \in [0 .. Cardinality(g.is_intersection) - 1 -> Within]
  BY <1>7, LabelWithin
<1>10. PICK m \in Nat \ {0} : m = Len(g.units)
  <2>1. (\E T : g.units \in Seq(T)) /\ g.units # <<>>
    BY <1>4 DEF Graph, Linked
  <2> QED
    BY <2>1, LenProperties, EmptySeq
<1>11. Child(g, Root) \in 0 .. m - 1
  BY <1>4, <1>10 DEF Graph
<1>12. DawgCalls'
  <2>1. CASE Child(g, Root) # 0
    <3>1. PICK f : f = [dawg_id |-> Root, id |-> 0]
      OBVIOUS
    <3>2. todo' = <<f>>
      BY <1>1, <1>3, <2>1, <3>1
    <3>3. f.dawg_id = 0 /\ f.id = 0
      BY <3>1 DEF Root
    <3>4. f.dawg_id \in 0 .. m - 1 /\ Child(g, f.dawg_id) \in 1 .. m - 1 /\ f.id \in Within
      BY <1>10, <1>11, <2>1, <3>3, LabelWithin DEF Root
    <3>5. todo' \in Seq({f}) /\ Len(todo') = 1 /\ todo'[1] = f
      BY <3>2
    <3>6. \A n \in 1 .. Len(todo') : n = 1
      BY <3>5
    <3>7. DawgFrame(f)'
      BY <1>3, <1>10, <3>4 DEF DawgFrame, Child
    <3>8. \A n \in 1 .. Len(todo') : DawgFrame(todo[n])'
      BY <3>5, <3>6, <3>7 DEF DawgFrame
    <3> QED
      BY <3>5, <3>8 DEF DawgCalls
  <2>2. CASE Child(g, Root) = 0
    <3>1. todo' = <<>> /\ todo' \in Seq({0}) /\ Len(todo') = 0
      BY <1>1, <1>3, <2>2, EmptySeq
    <3>2. 1 .. Len(todo') = {}
      BY <3>1
    <3> QED
      BY <3>1, <3>2 DEF DawgCalls
  <2> QED
    BY <2>1, <2>2
<1>13. Ring(builder', Values') /\ Graph(dawg', GraphValues')
  BY <1>1, <1>3, <1>4, <1>8, SameValues
<1>14. DawgArranged'
  BY <1>3, <1>8, <1>9, <1>12, <1>13 DEF DawgArranged
<1> QED
  BY <1>1, <1>2, <1>13, <1>14 DEF BuildInv

\* Without values the root is reserved at once.
LEMMA BuildStart ==
    ASSUME BuildInv, StartFromKeyset
    PROVE  BuildInv'
<1>1. /\ phase = "insert" /\ ~ has_values /\ keyset' = keyset /\ has_values' = has_values
      /\ phase' = "arrange" /\ builder' = RootReserved(builder)
      /\ todo' = IF keyset = <<>> THEN <<>>
                 ELSE <<[begin |-> 1, end |-> Len(keyset) + 1, depth |-> 1, id |-> 0]>>
  BY DEF StartFromKeyset
<1>2. ThrowInv'
  BY ThrowStart DEF BuildInv
<1>3. Ring(builder', Values)
  <2>1. PICK c : c = RootReserved(builder)
    OBVIOUS
  <2>2. Ring(c, Values)
    BY <1>1, <2>1, RootIs, GraphValuesIn DEF BuildInv
  <2> QED
    BY <1>1, <2>1, <2>2
<1>4. Ring(builder', Values')
  BY <1>1, <1>3, SameValues
<1>5. KeysetIds'
  <2>1. CASE keyset = <<>>
    <3>1. Len(todo') = 0
      BY <1>1, <2>1, EmptySeq
    <3>2. 1 .. Len(todo') = {}
      BY <3>1
    <3> QED
      BY <3>2 DEF KeysetIds
  <2>2. CASE keyset # <<>>
    <3>1. PICK f : f = [begin |-> 1, end |-> Len(keyset) + 1, depth |-> 1, id |-> 0]
      OBVIOUS
    <3>2. todo' = <<f>> /\ f.id = 0
      BY <1>1, <2>2, <3>1
    <3>3. Len(todo') = 1 /\ todo'[1] = f
      BY <3>2
    <3>4. \A n \in 1 .. Len(todo') : n = 1
      BY <3>3
    <3> QED
      BY <3>2, <3>3, <3>4, LabelWithin DEF KeysetIds
  <2> QED
    BY <2>1, <2>2
<1> QED
  BY <1>1, <1>2, <1>4, <1>5 DEF BuildInv

\* The last call gives way to those for its children.
LEMMA CallsReplaced ==
    ASSUME NEW S, NEW t \in Seq(S), t # <<>>, NEW q \in Nat, NEW g, DOMAIN g = 1 .. q,
           g = [c \in 1 .. q |-> g[c]], NEW P, \A i \in 1 .. Len(t) : t[i] \in P,
           \A c \in 1 .. q : g[c] \in P, NEW s, s = Front(t) \o g
    PROVE  (\E T : s \in Seq(T)) /\ \A i \in 1 .. Len(s) : s[i] \in P
<1>1. PICK T : T = {g[c] : c \in 1 .. q}
  OBVIOUS
<1>2. g \in [1 .. q -> T]
  BY <1>1
<1>3. g \in Seq(T) /\ Len(g) = q
  BY <1>2, FunctionIsSeq
<1>4. s \in Seq(S \union T) /\ Replaced(s, t, g)
  BY <1>3, StackAfter
<1>5. PICK m \in Nat \ {0} : m = Len(t)
  BY LenProperties, EmptySeq
<1>6. /\ Len(s) = m - 1 + q
      /\ \A i \in 1 .. m - 1 : s[i] = t[i]
      /\ \A i \in 1 .. q : s[m - 1 + i] = g[i]
  BY <1>3, <1>4, <1>5 DEF Replaced
<1>7. ASSUME NEW i \in 1 .. Len(s) PROVE s[i] \in P
  <2>1. CASE i <= m - 1
    <3>1. i \in 1 .. m - 1 /\ i \in 1 .. Len(t)
      BY <1>5, <1>6, <2>1
    <3> QED
      BY <1>6, <3>1
  <2>2. CASE ~ (i <= m - 1)
    <3>1. PICK j \in 1 .. q : m - 1 + j = i
      <4>1. i - (m - 1) \in 1 .. q /\ m - 1 + (i - (m - 1)) = i
        BY <1>6, <2>2
      <4> QED
        BY <4>1
    <3> QED
      BY <1>6, <3>1
  <2> QED
    BY <2>1, <2>2
<1> QED
  BY <1>4, <1>7

\* The calls for the children of kids, under a base offset, when fields gives
\* what they have beside their unit.
LEMMA CallIds ==
    ASSUME NEW kids, NEW n, NEW V, KidsFit(kids, n, V), NEW offset \in Within, NEW q,
           NEW at, CallsAt(kids, q, at), NEW c \in 1 .. q
    PROVE  /\ at[c] \in 1 .. n /\ kids[at[c]].label # 0
           /\ Calls(kids)[c] = kids[at[c]]
           /\ offset ^^ kids[at[c]].label \in Within
<1>1. PICK i \in 1 .. n : i = at[c] /\ kids[i].label # 0
  BY DEF CallsAt, Inner, KidsFit
<1>2. kids[i].label \in Within
  BY LabelWithin DEF KidsFit
<1>3. offset ^^ kids[i].label \in Within
  BY <1>2, XorWithin
<1>4. Calls(kids)[c] = kids[at[c]]
  BY DEF CallsAt
<1> QED
  BY <1>1, <1>3, <1>4

\* The offset of an equal state that is taken over has room in a unit.
LEMMA SharedOffsetIs ==
    ASSUME DawgArranged, NEW f, DawgFrame(f), TakesOver(f)
    PROVE  SharedOffset(f) \in Within
<1>1. PICK x : x = Child(dawg, f.dawg_id) /\ x \in dawg.is_intersection
  BY DEF TakesOver
<1>2. PICK m \in Nat : m = Len(dawg.units) - 1
  <2>1. (\E T : dawg.units \in Seq(T)) /\ dawg.units # <<>>
    BY DEF DawgArranged, Graph, Linked
  <2>2. PICK l \in Nat \ {0} : l = Len(dawg.units)
    BY <2>1, LenProperties, EmptySeq
  <2>3. l - 1 \in Nat
    OBVIOUS
  <2> QED
    BY <2>2, <2>3
<1>3. IntersectionId(dawg, x) \in 0 .. Cardinality(dawg.is_intersection) - 1
  BY <1>1, <1>2, PlaceIs DEF DawgArranged, Graph
<1>4. PICK base \in Within : base = builder.table[IntersectionId(dawg, x)]
  BY <1>3 DEF DawgArranged
<1>5. base ^^ f.id \in Within
  BY XorWithin DEF DawgFrame
<1> QED
  BY <1>1, <1>4, <1>5 DEF SharedOffset

\* A base out of reach is one of the next block, or beyond.
LEMMA NoneInReach ==
    ASSUME NEW b, NEW V, Ring(b, V), NEW id \in Within,
           NEW offset \in Nat, offset < Size(b) + BLOCK_SIZE, TooLarge(id ^^ offset)
    PROVE  Size(b) + BLOCK_SIZE > MaxOffset
<1>1. PICK size \in Nat : size = Size(b)
  BY TypedIs DEF Ring
<1>2. PICK m \in Nat \ {0} : m = BLOCK_SIZE
  BY Sizes
<1>3. PICK n \in Nat : n = MaxOffset
  BY LimitAssumption
<1>4. offset \notin Within
  BY BaseWithin
<1>5. offset >= n
  BY <1>3, <1>4 DEF Within
<1> QED
  BY <1>1, <1>2, <1>3, <1>5

\* Arranging a node of the graph.
LEMMA BuildDawg ==
    ASSUME BuildInv, ArrangeFromDawg
    PROVE  BuildInv'
<1>1. /\ phase = "arrange" /\ has_values /\ todo # <<>> /\ keyset' = keyset
      /\ has_values' = has_values /\ dawg' = dawg /\ inserted' = inserted
      /\ array' = array
  BY DEF ArrangeFromDawg
<1>2. ThrowInv'
  <2>1. ThrowInv /\ [Next]_vars
    BY DEF BuildInv, Next
  <2> QED
    BY <2>1, ThrowNext
<1>3. DawgArranged /\ Ring(builder, Values)
  BY <1>1 DEF BuildInv
<1>4. PICK S : todo \in Seq(S)
  BY <1>3 DEF DawgArranged, DawgCalls
<1>5. PICK t \in Seq(S) : t = todo
  BY <1>4
<1>6. PICK m \in Nat \ {0} : m = Len(t)
  BY <1>1, <1>5, LenProperties, EmptySeq
<1>7. PICK f : f = Last(todo) /\ f = t[m] /\ DawgFrame(f)
  BY <1>3, <1>5, <1>6 DEF DawgArranged, DawgCalls, Last
<1>8. PICK kids : kids = DawgKids(f)
  OBVIOUS
<1>9. PICK n : /\ KidsFit(kids, n, Values)
               /\ \A i \in 1 .. n : kids[i].label # 0 => InnerKid(kids[i])
  BY <1>3, <1>7, <1>8, DawgKidsFit, GraphValuesIn DEF DawgArranged
<1>10. PICK a : a = Arrange(builder, f.id, kids)
  OBVIOUS
<1>11. PICK x : x = Child(dawg, f.dawg_id)
  OBVIOUS
<1>12. PICK P : P = {z \in {t[i] : i \in 1 .. m} : DawgFrame(z)}
  OBVIOUS
<1>13. \A i \in 1 .. m : DawgFrame(t[i])
  BY <1>3, <1>5, <1>6 DEF DawgArranged, DawgCalls
<1>14. CASE TakesOver(f)
  <2>1. builder' = Shared(f, SharedOffset(f)) /\ todo' = Front(todo) /\ phase' = phase
    <3>1. ~ TooLarge(SharedOffset(f))
      BY <1>3, <1>7, <1>14, SharedOffsetIs, LimitAssumption DEF Within, TooLarge
    <3>2. PICK o : o = SharedOffset(f)
      OBVIOUS
    <3> QED
      BY <1>7, <1>14, <3>1 DEF ArrangeFromDawg
  <2>2. Ring(builder', Values) /\ builder'.table = builder.table
    <3>1. PICK o \in Nat : o = SharedOffset(f)
      BY <1>3, <1>7, <1>14, SharedOffsetIs, LimitAssumption DEF Within
    <3>2. PICK c : c = Shared(f, o)
      OBVIOUS
    <3>3. Ring(c, Values) /\ c.table = builder.table
      BY <1>3, <3>2, SharedIs
    <3> QED
      BY <2>1, <3>1, <3>2, <3>3
  <2>3. /\ Front(t) \in Seq(S) /\ Len(Front(t)) = m - 1
        /\ \A i \in 1 .. m - 1 : Front(t)[i] = t[i]
    BY <1>1, <1>5, <1>6, FrontIs
  <2>4. \A i \in 1 .. m - 1 : i \in 1 .. m
    OBVIOUS
  <2>5. \A i \in 1 .. Len(todo') : DawgFrame(todo'[i])
    BY <1>5, <1>13, <2>1, <2>3, <2>4
  <2>6. \A i \in 1 .. Len(todo') : DawgFrame(todo[i])'
    BY <1>1, <2>5 DEF DawgFrame
  <2>7. DawgCalls'
    BY <1>5, <2>1, <2>3, <2>6 DEF DawgCalls
  <2>8. Graph(dawg', GraphValues') /\ Ring(builder', Values')
    BY <1>1, <1>3, <2>2, SameValues DEF DawgArranged
  <2>9. DawgArranged'
    BY <1>1, <1>3, <2>2, <2>7, <2>8 DEF DawgArranged
  <2> QED
    BY <1>1, <1>2, <2>1, <2>8, <2>9 DEF BuildInv
<1>15. /\ Ring(a.builder, Values) /\ a.builder.table = builder.table
       /\ a.offset \in Nat /\ a.offset < Size(builder) + BLOCK_SIZE
  <2>1. f.id \in Nat /\ -1 \in Values
    BY <1>7, GraphValuesIn, LimitAssumption DEF DawgFrame, Within
  <2> QED
    BY <1>3, <1>9, <1>10, <2>1, ArrangeIs
<1>16. CASE ~ TakesOver(f) /\ TooLarge(f.id ^^ a.offset)
  <2>1. phase' = "too_large" /\ builder' = builder
    BY <1>7, <1>8, <1>10, <1>16 DEF ArrangeFromDawg
  <2>2. Size(builder) + BLOCK_SIZE > MaxOffset
    <3>1. PICK o \in Nat : o = a.offset
      BY <1>15
    <3>2. f.id \in Within
      BY <1>7 DEF DawgFrame
    <3>3. PICK i \in Within : i = f.id
      BY <3>2
    <3> QED
      BY <1>3, <1>15, <1>16, <3>1, <3>3, NoneInReach
  <2>3. Ring(builder', Values')
    BY <1>1, <1>3, <2>1, SameValues
  <2> QED
    BY <1>2, <2>1, <2>2, <2>3 DEF BuildInv
<1>17. CASE ~ TakesOver(f) /\ ~ TooLarge(f.id ^^ a.offset)
  <2>1. /\ builder' = IF x \notin dawg.is_intersection THEN a.builder
                      ELSE [a.builder EXCEPT !.table[IntersectionId(dawg, x)] = a.offset]
        /\ todo' = Front(todo)
             \o [i \in DOMAIN Calls(kids) |->
                   [dawg_id |-> Calls(kids)[i].dawg_id, id |-> a.offset ^^ Calls(kids)[i].label]]
        /\ phase' = phase
    BY <1>7, <1>8, <1>10, <1>11, <1>17 DEF ArrangeFromDawg
  <2>2. Ring(a.builder, Values) /\ a.builder.table = builder.table /\ a.offset \in Within
    <3>1. PICK o \in Nat : o = a.offset
      BY <1>15
    <3>2. f.id \in Within
      BY <1>7 DEF DawgFrame
    <3>3. PICK i \in Within : i = f.id
      BY <3>2
    <3> QED
      BY <1>15, <1>17, <3>1, <3>3, BaseWithin
  <2>3. /\ Ring(builder', Values)
        /\ builder'.table \in [0 .. Cardinality(dawg.is_intersection) - 1 -> Within]
    <3>1. CASE x \notin dawg.is_intersection
      BY <1>3, <2>1, <2>2, <3>1 DEF DawgArranged
    <3>2. CASE x \in dawg.is_intersection
      <4>1. PICK b : b = a.builder
        OBVIOUS
      <4>2. PICK table : table = [b.table EXCEPT ![IntersectionId(dawg, x)] = a.offset]
        OBVIOUS
      <4>3. builder' = [b EXCEPT !.table = table]
        BY <2>1, <3>2, <4>1, <4>2
      <4>4. PICK c : c = [b EXCEPT !.table = table]
        OBVIOUS
      <4>5. Ring(b, Values)
        BY <2>2, <4>1
      <4>6. PICK V : V = Values
        OBVIOUS
      <4>7. Ring(c, V) /\ c.table = table
        BY <4>4, <4>5, <4>6, TableSet
      <4>8. Ring(builder', Values) /\ builder'.table = table
        BY <4>3, <4>4, <4>6, <4>7
      <4>9. table \in [0 .. Cardinality(dawg.is_intersection) - 1 -> Within]
        BY <1>3, <2>2, <4>1, <4>2 DEF DawgArranged
      <4> QED
        BY <4>8, <4>9
    <3> QED
      BY <3>1, <3>2
  <2>4. PICK q \in Nat : \E at : CallsAt(kids, q, at)
    <3>1. DOMAIN kids = 1 .. n /\ n \in Nat
      BY <1>9 DEF KidsFit
    <3> QED
      BY <3>1, CallsAre
  <2>5. PICK at : CallsAt(kids, q, at)
    BY <2>4
  <2>6. PICK g : g = [c \in 1 .. q |->
                        [dawg_id |-> kids[at[c]].dawg_id, id |-> a.offset ^^ kids[at[c]].label]]
    OBVIOUS
  <2>7. todo' = Front(t) \o g
    <3>1. PICK h : h = [i \in DOMAIN Calls(kids) |->
                         [dawg_id |-> Calls(kids)[i].dawg_id,
                          id |-> a.offset ^^ Calls(kids)[i].label]]
      OBVIOUS
    <3>2. Calls(kids) = [c \in 1 .. q |-> kids[at[c]]]
      BY <2>5 DEF CallsAt
    <3>3. h = g
      BY <2>6, <3>1, <3>2
    <3> QED
      BY <1>5, <2>1, <3>1, <3>3
  <2>8. ASSUME NEW c \in 1 .. q PROVE DawgFrame(g[c])
    <3>1. PICK i \in 1 .. n :
             i = at[c] /\ kids[i].label # 0 /\ a.offset ^^ kids[i].label \in Within
      <4>1. KidsFit(kids, n, Values) /\ a.offset \in Within
        BY <1>9, <2>2
      <4>2. PICK o \in Within : o = a.offset
        BY <4>1
      <4>3. at[c] \in 1 .. n /\ kids[at[c]].label # 0 /\ o ^^ kids[at[c]].label \in Within
        BY <2>5, <4>1, CallIds
      <4> QED
        BY <4>2, <4>3
    <3>2. InnerKid(kids[i])
      BY <1>9, <3>1
    <3>3. g[c].dawg_id = kids[i].dawg_id /\ g[c].id = a.offset ^^ kids[i].label
      BY <2>6, <3>1
    <3> QED
      BY <3>1, <3>2, <3>3 DEF InnerKid, DawgFrame
  <2>9. PICK Q : Q = {t[i] : i \in 1 .. m} \union {g[c] : c \in 1 .. q}
    OBVIOUS
  <2>10. PICK F : F = {z \in Q : DawgFrame(z)}
    OBVIOUS
  <2>11. (\A i \in 1 .. Len(t) : t[i] \in F) /\ \A c \in 1 .. q : g[c] \in F
    BY <1>6, <1>13, <2>8, <2>9, <2>10
  <2>12. (\E T : todo' \in Seq(T)) /\ \A i \in 1 .. Len(todo') : todo'[i] \in F
    <3>1. DOMAIN g = 1 .. q /\ g = [c \in 1 .. q |-> g[c]]
      BY <2>6
    <3>2. t # <<>>
      BY <1>1, <1>5
    <3>3. PICK s : s = Front(t) \o g
      OBVIOUS
    <3>4. (\E T : s \in Seq(T)) /\ \A i \in 1 .. Len(s) : s[i] \in F
      BY <2>11, <3>1, <3>2, <3>3, CallsReplaced
    <3> QED
      BY <2>7, <3>3, <3>4
  <2>13. \A i \in 1 .. Len(todo') : DawgFrame(todo'[i])
    BY <2>10, <2>12
  <2>14. \A i \in 1 .. Len(todo') : DawgFrame(todo[i])'
    BY <1>1, <2>13 DEF DawgFrame
  <2>15. DawgCalls'
    BY <2>12, <2>14 DEF DawgCalls
  <2>16. Graph(dawg', GraphValues') /\ Ring(builder', Values')
    BY <1>1, <1>3, <2>3, SameValues DEF DawgArranged
  <2>17. DawgArranged'
    BY <1>1, <2>3, <2>15, <2>16 DEF DawgArranged
  <2> QED
    BY <1>1, <1>2, <2>1, <2>16, <2>17 DEF BuildInv
<1> QED
  BY <1>14, <1>16, <1>17

\* Arranging the keys of a call.
LEMMA BuildKeyset ==
    ASSUME BuildInv, ArrangeFromKeyset
    PROVE  BuildInv'
<1>1. /\ phase = "arrange" /\ ~ has_values /\ todo # <<>> /\ keyset' = keyset
      /\ has_values' = has_values /\ dawg' = dawg
  BY DEF ArrangeFromKeyset
<1>2. ThrowInv /\ ThrowInv'
  BY ThrowArrange DEF BuildInv
<1>3. KeysetIds /\ Ring(builder, Values) /\ KeysetCalls /\ keyset \in Keysets
  BY <1>1, <1>2 DEF BuildInv, ThrowInv
<1>4. PICK S : todo \in Seq(S)
  BY <1>3 DEF KeysetCalls
<1>5. PICK t \in Seq(S) : t = todo
  BY <1>4
<1>6. PICK m \in Nat \ {0} : m = Len(t)
  BY <1>1, <1>5, LenProperties, EmptySeq
<1>7. PICK f : f = Last(todo) /\ f = t[m] /\ Shares(f) /\ f.id \in Within
  <2>1. m \in 1 .. Len(todo) /\ Last(todo) = todo[m]
    BY <1>5, <1>6 DEF Last
  <2> QED
    BY <1>3, <1>5, <2>1 DEF KeysetCalls, KeysetIds
<1>8. PICK kids : kids = KeysetKids(f)
  OBVIOUS
<1>9. PICK a : a = Arrange(builder, f.id, kids)
  OBVIOUS
<1>10. IF WrongOrder(f) THEN phase' = "failed" /\ builder' = builder /\ todo' = todo
       ELSE IF TooLarge(f.id ^^ a.offset)
       THEN phase' = "too_large" /\ builder' = builder /\ todo' = todo
       ELSE /\ builder' = a.builder
            /\ todo' = Front(todo)
                 \o [i \in DOMAIN Calls(kids) |->
                       [begin |-> Calls(kids)[i].begin, end |-> Calls(kids)[i].end,
                        depth |-> f.depth + 1, id |-> a.offset ^^ Calls(kids)[i].label]]
            /\ phase' = phase
  BY <1>7, <1>8, <1>9 DEF ArrangeFromKeyset
<1>11. CASE WrongOrder(f)
  <2>1. Ring(builder', Values') /\ phase' = "failed"
    BY <1>1, <1>3, <1>10, <1>11, SameValues
  <2> QED
    BY <1>2, <2>1 DEF BuildInv
<1>12. PICK n \in Nat \ {0} : KidRuns(f, kids, n)
  <2>1. f.begin \in Nat \ {0} /\ f.end \in Nat /\ f.begin < f.end
    <3>1. Len(keyset) \in Nat
      BY <1>3, KeysTyped
    <3> QED
      BY <1>7, <3>1 DEF Shares
  <2> QED
    BY <1>8, <2>1, KidsAre
<1>13. ASSUME ~ WrongOrder(f)
       PROVE  /\ KidsFit(kids, n, Values) /\ Ring(a.builder, Values)
              /\ a.offset \in Nat /\ a.offset < Size(builder) + BLOCK_SIZE
  <2>1. KidsFit(kids, n, Values)
    BY <1>1, <1>3, <1>7, <1>12, <1>13, KeysetKidsFit
  <2>2. f.id \in Nat
    BY <1>7, LimitAssumption DEF Within
  <2> QED
    BY <1>3, <1>9, <2>1, <2>2, ArrangeIs, GraphValuesIn
<1>14. CASE ~ WrongOrder(f) /\ TooLarge(f.id ^^ a.offset)
  <2>1. phase' = "too_large" /\ builder' = builder
    BY <1>10, <1>14
  <2>2. Size(builder) + BLOCK_SIZE > MaxOffset
    <3>1. PICK o \in Nat : o = a.offset
      BY <1>13, <1>14
    <3>2. PICK i \in Within : i = f.id
      BY <1>7
    <3> QED
      BY <1>3, <1>13, <1>14, <3>1, <3>2, NoneInReach
  <2>3. Ring(builder', Values')
    BY <1>1, <1>3, <2>1, SameValues
  <2> QED
    BY <1>2, <2>1, <2>2, <2>3 DEF BuildInv
<1>15. CASE ~ WrongOrder(f) /\ ~ TooLarge(f.id ^^ a.offset)
  <2>1. KidsFit(kids, n, Values)
    BY <1>13, <1>15
  <2>2. Ring(a.builder, Values) /\ a.offset \in Within
    <3>1. PICK o \in Nat : o = a.offset
      BY <1>13, <1>15
    <3>2. PICK i \in Within : i = f.id
      BY <1>7
    <3> QED
      BY <1>13, <1>15, <3>1, <3>2, BaseWithin
  <2>3. PICK q \in Nat : \E at : CallsAt(kids, q, at)
    <3>1. DOMAIN kids = 1 .. n /\ n \in Nat
      BY <2>1 DEF KidsFit
    <3> QED
      BY <3>1, CallsAre
  <2>4. PICK at : CallsAt(kids, q, at)
    BY <2>3
  <2>5. PICK g : g = [c \in 1 .. q |->
                        [begin |-> kids[at[c]].begin, end |-> kids[at[c]].end,
                         depth |-> f.depth + 1, id |-> a.offset ^^ kids[at[c]].label]]
    OBVIOUS
  <2>6. todo' = Front(t) \o g
    <3>1. PICK h : h = [i \in DOMAIN Calls(kids) |->
                         [begin |-> Calls(kids)[i].begin, end |-> Calls(kids)[i].end,
                          depth |-> f.depth + 1, id |-> a.offset ^^ Calls(kids)[i].label]]
      OBVIOUS
    <3>2. Calls(kids) = [c \in 1 .. q |-> kids[at[c]]]
      BY <2>4 DEF CallsAt
    <3>3. h = g
      BY <2>5, <3>1, <3>2
    <3> QED
      BY <1>5, <1>10, <1>15, <3>1, <3>3
  <2>7. ASSUME NEW c \in 1 .. q PROVE g[c].id \in Within
    <3>1. PICK i \in 1 .. n : i = at[c] /\ a.offset ^^ kids[i].label \in Within
      <4>1. PICK o \in Within : o = a.offset
        BY <2>2
      <4> QED
        BY <2>1, <2>4, <4>1, CallIds
    <3> QED
      BY <2>5, <3>1
  <2>8. PICK Q : Q = {t[i] : i \in 1 .. m} \union {g[c] : c \in 1 .. q}
    OBVIOUS
  <2>9. PICK F : F = {z \in Q : z.id \in Within}
    OBVIOUS
  <2>10. (\A i \in 1 .. Len(t) : t[i] \in F) /\ \A c \in 1 .. q : g[c] \in F
    BY <1>3, <1>5, <1>6, <2>7, <2>8, <2>9 DEF KeysetIds
  <2>11. \A i \in 1 .. Len(todo') : todo'[i] \in F
    <3>1. DOMAIN g = 1 .. q /\ g = [c \in 1 .. q |-> g[c]]
      BY <2>5
    <3>2. t # <<>>
      BY <1>1, <1>5
    <3>3. PICK s : s = Front(t) \o g
      OBVIOUS
    <3>4. \A i \in 1 .. Len(s) : s[i] \in F
      BY <2>10, <3>1, <3>2, <3>3, CallsReplaced
    <3> QED
      BY <2>6, <3>3, <3>4
  <2>12. KeysetIds'
    BY <2>9, <2>11 DEF KeysetIds
  <2>13. Ring(builder', Values') /\ phase' = "arrange"
    BY <1>1, <1>10, <1>15, <2>2, SameValues
  <2> QED
    BY <1>1, <1>2, <2>12, <2>13 DEF BuildInv
<1> QED
  BY <1>11, <1>14, <1>15

\* The last blocks are fixed.
LEMMA BuildEnd ==
    ASSUME BuildInv, EndBuild
    PROVE  BuildInv'
<1>1. keyset' = keyset /\ phase' = "built" /\ builder' = FixAllBlocks(builder)
  BY DEF EndBuild
<1>2. ThrowInv'
  BY ThrowEnd DEF BuildInv
<1>3. Ring(builder', Values)
  <2>1. PICK c : c = FixAllBlocks(builder)
    OBVIOUS
  <2>2. Ring(c, Values)
    BY <2>1, FixAllIs DEF BuildInv
  <2> QED
    BY <1>1, <2>1, <2>2
<1>4. Ring(builder', Values')
  BY <1>1, <1>3, SameValues
<1> QED
  BY <1>1, <1>2, <1>4 DEF BuildInv

\* A step of nothing.
LEMMA BuildStutter ==
    ASSUME BuildInv, UNCHANGED vars
    PROVE  BuildInv'
<1>1. /\ keyset' = keyset /\ has_values' = has_values /\ phase' = phase
      /\ inserted' = inserted /\ dawg' = dawg /\ builder' = builder /\ todo' = todo
  BY DEF vars
<1>2. ThrowInv'
  <2>1. ThrowInv /\ [Next]_vars
    BY DEF BuildInv
  <2> QED
    BY <2>1, ThrowNext
<1>3. /\ Ring(builder', Values') /\ (phase' = "insert" => Size(builder') = 0)
      /\ phase' = "too_large" => Size(builder') + BLOCK_SIZE > MaxOffset
  BY <1>1, SameValues DEF BuildInv
<1>4. phase' = "insert" /\ has_values' => Complete(dawg', GraphValues')
  BY <1>1, SameValues DEF BuildInv
<1>5. DawgArranged' <=> DawgArranged
  <2>1. DawgCalls' <=> DawgCalls
    BY <1>1 DEF DawgCalls, DawgFrame
  <2>2. Graph(dawg', GraphValues') <=> Graph(dawg, GraphValues)
    BY <1>1, SameValues
  <2> QED
    BY <1>1, <2>1, <2>2 DEF DawgArranged
<1>6. KeysetIds' <=> KeysetIds
  BY <1>1 DEF KeysetIds
<1> QED
  BY <1>1, <1>2, <1>3, <1>4, <1>5, <1>6 DEF BuildInv

\* Every step keeps BuildInv.
LEMMA BuildNext == BuildInv /\ [Next]_vars => BuildInv'
<1> SUFFICES ASSUME BuildInv, [Next]_vars PROVE BuildInv'
  OBVIOUS
<1>1. CASE InsertKey
  BY <1>1, BuildInsert
<1>2. CASE FinishDawg
  BY <1>2, BuildFinish
<1>3. CASE ArrangeFromDawg
  BY <1>3, BuildDawg
<1>4. CASE StartFromKeyset
  BY <1>4, BuildStart
<1>5. CASE ArrangeFromKeyset
  BY <1>5, BuildKeyset
<1>6. CASE EndBuild
  BY <1>6, BuildEnd
<1>7. CASE UNCHANGED vars
  BY <1>7, BuildStutter
<1> QED
  BY <1>1, <1>2, <1>3, <1>4, <1>5, <1>6, <1>7 DEF Next

\* A build begins with an empty list and an empty graph.
LEMMA BuildInit == Init => BuildInv
<1> SUFFICES ASSUME Init PROVE BuildInv
  OBVIOUS
<1>1. /\ phase = "insert" /\ dawg = DawgInit
      /\ builder = [units |-> <<>>, extras_head |-> 0, table |-> <<>>,
                    extras |-> [i \in 0 .. NUM_EXTRAS - 1 |-> FreeExtra]]
  BY DEF Init
<1>2. ThrowInv
  BY ThrowInit
<1>3. Ring(builder, Values) /\ Size(builder) = 0
  BY <1>1, EmptyRing
<1>4. Complete(dawg, GraphValues)
  BY <1>1, NewComplete
<1> QED
  BY <1>1, <1>2, <1>3, <1>4 DEF BuildInv

\* DoubleArray: build throws for keys that are out of order, empty or of
\* negative value (darts.h:1191, :1212, :1793), otherwise 'too large offset'
\* only, when there is no room for one block more below MaxOffset
\* (:1429-1431), and for no other lists; no throw leaves an array.
THEOREM WrongKeysThrow == Spec => []ThrowsOnWrongKeys
<1>1. BuildInv => ThrowsOnWrongKeys
  BY DEF BuildInv, ThrowInv, ThrowsOnWrongKeys
<1> QED
  BY BuildInit, BuildNext, <1>1, PTL DEF Spec

\* DoubleArray: the list of free units holds each unit of the last blocks that
\* is not fixed, once and in a ring, and nothing else (darts.h:1854-1903).
THEOREM FreeUnitsListed == Spec => []FreeListExact
<1>1. BuildInv => FreeListExact
  BY ListExact DEF BuildInv
<1> QED
  BY BuildInit, BuildNext, <1>1, PTL DEF Spec

\* DoubleArray: blocks are whole, units have the labels and values of keys,
\* and the links of the list stay in the array (darts.h:1854-1903).
THEOREM ArrayTyped == Spec => []TypeOK
<1>1. BuildInv => TypeOK
  <2> SUFFICES ASSUME BuildInv PROVE TypeOK
    OBVIOUS
  <2>1. Typed(builder, Values)
    BY DEF BuildInv, Ring
  <2>2. has_values \in BOOLEAN /\ inserted \in 0 .. Len(keyset)
        /\ phase \in {"insert", "arrange", "built", "failed", "too_large"}
    BY DEF BuildInv, ThrowInv
  <2>3. Size(builder) % BLOCK_SIZE = 0
    <3>1. PICK k \in Nat : Size(builder) = BLOCK_SIZE * k
      BY <2>1 DEF Typed
    <3>2. PICK size \in Nat : size = Size(builder)
      BY <2>1, TypedIs
    <3>3. PICK n \in Nat \ {0} : n = BLOCK_SIZE
      BY Sizes
    <3>4. PICK d \in Int : \E r \in 0 .. n - 1 : r = size % n /\ size = n * d + r
      BY <3>2, <3>3, Division
    <3>5. PICK r \in 0 .. n - 1 : r = size % n /\ size = n * d + r
      BY <3>4
    <3>6. PICK z \in 0 .. n - 1 : z = 0 /\ n * d + r = n * k + z
      BY <3>1, <3>2, <3>3, <3>5
    <3>7. k \in Int /\ n \in Nat \ {0}
      OBVIOUS
    <3>8. r = 0
      BY <3>6, <3>7, DivisionUnique
    <3> QED
      BY <3>2, <3>3, <3>5, <3>8
  <2>4. ASSUME NEW id \in 1 .. Size(builder)
        PROVE  /\ builder.units[id].label \in 0 .. BLOCK_SIZE - 1 \union {NoLabel}
               /\ builder.units[id].value \in Values
    <3>1. builder.units[id] \in UnitSet(Values)
      BY <2>1, ElementOfSeq DEF Typed, Size
    <3> QED
      BY <3>1 DEF UnitSet
  <2>5. \A s \in 0 .. NUM_EXTRAS - 1 :
           builder.extras[s].next \in 0 .. Size(builder) /\ builder.extras[s].prev \in Nat
    BY <2>1 DEF Typed, ExtraSet
  <2> QED
    BY <2>2, <2>3, <2>4, <2>5 DEF TypeOK, Values
<1> QED
  BY BuildInit, BuildNext, <1>1, PTL DEF Spec
=============================================================================
