--------------------------- MODULE HashDictProofs ---------------------------
(***************************************************************************)
(* Proofs about HashDict, for every set of keys, every list of odd sizes,  *)
(* every initial size and any number of calls.                             *)
(***************************************************************************)
EXTENDS HashDict, FiniteSetTheorems, TLAPS

\* The i-th bucket from the home of key k on, in a table of n.
Nth(k, n, i) == ((k % n) + i) % n

Tables(n) == [0 .. n - 1 -> Buckets]

Empties(d) == {b \in DOMAIN d : d[b] = None}

-----------------------------------------------------------------------------
(***************************************************************************)
(* Going round the table.                                                  *)
(***************************************************************************)

\* Adding less than n to a remainder goes round at most once.
LEMMA ModSum ==
    ASSUME NEW n \in Nat \ {0}, NEW h \in 0 .. n - 1, NEW i \in 0 .. n
    PROVE  (h + i) % n = IF h + i < n THEN h + i ELSE h + i - n
<1>1. h + i \in Nat /\ (h + i) % n \in 0 .. n - 1
  OBVIOUS
<1>0. (h + i) \div n \in Int /\ h + i = n * ((h + i) \div n) + ((h + i) % n)
  OBVIOUS
<1>2. PICK q \in Int : h + i = n * q + ((h + i) % n)
  BY <1>0
<1>3. h + i - n * q \in 0 .. n - 1
  BY <1>1, <1>2
<1>4. q = 0 \/ q = 1
  <2>1. CASE q >= 2
    <3>1. n * q >= n * 2
      BY <2>1
    <3> QED
      BY <1>3, <3>1
  <2>2. CASE q <= -1
    <3>1. n * q <= n * (-1)
      BY <2>2
    <3> QED
      BY <1>3, <3>1
  <2> QED
    BY <2>1, <2>2
<1> QED
  BY <1>1, <1>2, <1>4

\* A remainder is a bucket.
LEMMA HomeInTable ==
    ASSUME NEW n \in Nat \ {0}, NEW k \in Nat
    PROVE  k % n \in 0 .. n - 1
OBVIOUS

\* Every bucket is reached within n steps, the home first.
LEMMA NthBucket ==
    ASSUME NEW n \in Nat \ {0}, NEW k \in Nat
    PROVE  /\ Nth(k, n, 0) = k % n
           /\ \A i \in 0 .. n - 1 : Nth(k, n, i) \in 0 .. n - 1
           /\ \A i \in 0 .. n - 2 : (Nth(k, n, i) + 1) % n = Nth(k, n, i + 1)
           /\ \A b \in 0 .. n - 1 : \E i \in 0 .. n - 1 : b = Nth(k, n, i)
<1> DEFINE h == k % n
<1>1. h \in 0 .. n - 1
  BY HomeInTable
<1> HIDE DEF h
<1>2. \A i \in 0 .. n : (h + i) % n = IF h + i < n THEN h + i ELSE h + i - n
  BY <1>1, ModSum
<1>3. \A i : Nth(k, n, i) = (h + i) % n
  BY DEF Nth, h
<1>4. Nth(k, n, 0) = h
  BY <1>1, <1>2, <1>3
<1>5. \A i \in 0 .. n - 1 : Nth(k, n, i) \in 0 .. n - 1
  BY <1>1, <1>2, <1>3
<1>6. ASSUME NEW i \in 0 .. n - 2
      PROVE  (Nth(k, n, i) + 1) % n = Nth(k, n, i + 1)
  <2>1. /\ Nth(k, n, i) = IF h + i < n THEN h + i ELSE h + i - n
        /\ Nth(k, n, i + 1) = IF h + (i + 1) < n THEN h + (i + 1) ELSE h + (i + 1) - n
    BY <1>2, <1>3
  <2>2. Nth(k, n, i) \in 0 .. n - 1
    BY <1>5
  <2>3. 1 \in 0 .. n
    OBVIOUS
  <2>4. (Nth(k, n, i) + 1) % n = IF Nth(k, n, i) + 1 < n THEN Nth(k, n, i) + 1
                                  ELSE Nth(k, n, i) + 1 - n
    BY <2>2, <2>3, ModSum
  <2> QED
    BY <1>1, <2>1, <2>2, <2>4
<1>7. ASSUME NEW b \in 0 .. n - 1
      PROVE  \E i \in 0 .. n - 1 : b = Nth(k, n, i)
  <2>1. CASE b >= h
    <3>1. b - h \in 0 .. n - 1 /\ b = Nth(k, n, b - h)
      BY <1>1, <1>2, <1>3, <2>1
    <3> QED
      BY <3>1
  <2>2. CASE b < h
    <3>1. b - h + n \in 0 .. n - 1 /\ b = Nth(k, n, b - h + n)
      BY <1>1, <1>2, <1>3, <2>2
    <3> QED
      BY <3>1
  <2> QED
    BY <1>1, <2>1, <2>2
<1> QED
  BY <1>4, <1>5, <1>6, <1>7 DEF h

-----------------------------------------------------------------------------
(***************************************************************************)
(* Sizes.                                                                  *)
(***************************************************************************)

\* The next size, if there is one, is above the old one and in the list.
LEMMA NextSize ==
    ASSUME NEW n \in Nat, SizeAbove(n) # 0
    PROVE  /\ SizeAbove(n) \in Nat /\ SizeAbove(n) > n
           /\ \E i \in 1 .. Len(PRIMES) : SizeAbove(n) = PRIMES[i]
<1> DEFINE above == {i \in 1 .. Len(PRIMES) : PRIMES[i] > n}
           First(i) == PRIMES[i] > n /\ \A j \in 1 .. i - 1 : PRIMES[j] <= n
<1>1. PRIMES \in Seq(Nat \ {0}) /\ Len(PRIMES) \in Nat
  BY SizeAssumption
<1>2. \A i \in 1 .. Len(PRIMES) : PRIMES[i] \in Nat
  BY <1>1
<1>3. above # {} /\ above \subseteq Nat
  BY <1>1 DEF SizeAbove
<1>4. PICK m \in above : \A j \in above : ~ (<<j, m>> \in OpToRel(<, Nat))
  BY <1>3, WFMin, NatLessThanWellFounded
<1>5. \A j \in above : ~ (j < m)
  BY <1>3, <1>4 DEF OpToRel
<1>6. m \in 1 .. Len(PRIMES) /\ First(m)
  <2>1. m \in 1 .. Len(PRIMES) /\ PRIMES[m] > n
    BY <1>4
  <2>2. ASSUME NEW j \in 1 .. m - 1 PROVE PRIMES[j] <= n
    <3>1. j \in 1 .. Len(PRIMES) /\ j < m
      BY <1>1, <2>1
    <3>2. ~ (PRIMES[j] > n)
      BY <1>5, <3>1
    <3> QED
      BY <1>2, <3>1, <3>2
  <2> QED
    BY <2>1, <2>2
<1> DEFINE c == CHOOSE i \in 1 .. Len(PRIMES) : First(i)
<1>7. c \in 1 .. Len(PRIMES) /\ First(c)
  BY <1>6
<1>8. SizeAbove(n) = PRIMES[c]
  BY <1>6 DEF SizeAbove
<1> QED
  BY <1>2, <1>7, <1>8

\* The domain of a table of n has n buckets.
LEMMA TableSize ==
    ASSUME NEW n \in Nat \ {0}, NEW d \in Tables(n)
    PROVE  /\ DOMAIN d = 0 .. n - 1
           /\ IsFiniteSet(DOMAIN d)
           /\ Cardinality(DOMAIN d) = n
<1>1. DOMAIN d = 0 .. n - 1
  BY DEF Tables
<1>2. IsFiniteSet(0 .. n - 1) /\ Cardinality(0 .. n - 1) = n
  BY FS_Interval
<1> QED
  BY <1>1, <1>2

-----------------------------------------------------------------------------
(***************************************************************************)
(* Tables.                                                                 *)
(***************************************************************************)

\* Two buckets with one key are one bucket.
Unique(d) ==
    \A b, c \in DOMAIN d : d[b] # None /\ d[c] # None /\ d[b].key = d[c].key => b = c

\* The first i buckets from the home of k on are taken.
Way(d, n, k, i) == \A j \in 0 .. i - 1 : d[Nth(k, n, j)] # None

\* What is in a bucket and is not None has a key and a value.
LEMMA ItemType ==
    /\ Keys \subseteq Nat
    /\ None \notin Items
    /\ \A x \in Buckets : x # None => x \in Items /\ x.key \in Keys /\ x.value \in Values
BY KeyAssumption, NoneAssumption DEF Items, Buckets

\* Reachable, in terms of the way from a key's home.
LEMMA ReachableBy ==
    ASSUME NEW n \in Nat \ {0}, NEW d \in Tables(n)
    PROVE  Reachable(d) <=>
             \A b \in 0 .. n - 1 : d[b] # None =>
                \E i \in 0 .. n - 1 : b = Nth(d[b].key, n, i) /\ Way(d, n, d[b].key, i)
<1>1. DOMAIN d = 0 .. n - 1 /\ Cardinality(DOMAIN d) = n
  BY TableSize
<1> QED
  BY <1>1 DEF Reachable, Nth, Way

\* A way of taken buckets stays one where taken buckets stay taken.
LEMMA WayKept ==
    ASSUME NEW n \in Nat \ {0}, NEW d, NEW e, NEW k \in Nat, NEW m \in 0 .. n - 1,
           Way(d, n, k, m), \A c \in 0 .. n - 1 : d[c] # None => e[c] # None
    PROVE  Way(e, n, k, m)
<1> SUFFICES ASSUME NEW j \in 0 .. m - 1 PROVE e[Nth(k, n, j)] # None
  BY DEF Way
<1>1. j \in 0 .. n - 1
  OBVIOUS
<1>2. Nth(k, n, j) \in 0 .. n - 1
  BY <1>1, NthBucket
<1> QED
  BY <1>2 DEF Way

\* In an empty table nothing is out of reach or doubled.
LEMMA EmptyReachable ==
    ASSUME NEW n \in Nat \ {0}
    PROVE  /\ EmptyTable(n) \in Tables(n)
           /\ Reachable(EmptyTable(n)) /\ Unique(EmptyTable(n))
           /\ \A k \in Keys : Holds(EmptyTable(n), k) = {}
           /\ Cardinality(Empties(EmptyTable(n))) = n
<1>1. EmptyTable(n) \in Tables(n)
  BY DEF EmptyTable, Tables, Buckets
<1>2. \A b \in DOMAIN EmptyTable(n) : EmptyTable(n)[b] = None
  BY DEF EmptyTable
<1>3. DOMAIN EmptyTable(n) = 0 .. n - 1
  BY DEF EmptyTable
<1>4. Empties(EmptyTable(n)) = DOMAIN EmptyTable(n)
  BY <1>2 DEF Empties
<1>5. Reachable(EmptyTable(n))
  BY <1>1, <1>2, <1>3, ReachableBy
<1> QED
  BY <1>1, <1>2, <1>4, <1>5, TableSize DEF Unique, Holds

\* An item put into the first empty bucket from its home is found there, and
\* those that were found still are.
LEMMA PutReachable ==
    ASSUME NEW n \in Nat \ {0}, NEW d \in Tables(n), Reachable(d), NEW x \in Items,
           NEW i \in 0 .. n - 1, Way(d, n, x.key, i), d[Nth(x.key, n, i)] = None
    PROVE  /\ [d EXCEPT ![Nth(x.key, n, i)] = x] \in Tables(n)
           /\ Reachable([d EXCEPT ![Nth(x.key, n, i)] = x])
<1> DEFINE b == Nth(x.key, n, i)
           e == [d EXCEPT ![b] = x]
<1>1. x.key \in Keys /\ x.key \in Nat /\ x # None /\ x \in Buckets
  BY ItemType DEF Items, Buckets
<1>2. b \in 0 .. n - 1
  BY <1>1, NthBucket
<1> HIDE DEF b
<1>3. e \in Tables(n) /\ e[b] = x /\ \A c \in 0 .. n - 1 : c # b => e[c] = d[c]
  BY <1>1, <1>2 DEF Tables
<1> HIDE DEF e
<1>4. \A c \in 0 .. n - 1 : d[c] # None => e[c] # None
  BY <1>1, <1>3
<1>5. ASSUME NEW k \in Nat, NEW m \in 0 .. n - 1, Way(d, n, k, m) PROVE Way(e, n, k, m)
  BY <1>4, <1>5, WayKept
<1>6. ASSUME NEW c \in 0 .. n - 1, e[c] # None
      PROVE  \E m \in 0 .. n - 1 : c = Nth(e[c].key, n, m) /\ Way(e, n, e[c].key, m)
  <2>1. CASE c = b
    BY <1>1, <1>3, <1>5, <2>1 DEF b
  <2>2. CASE c # b
    <3>1. e[c] = d[c] /\ d[c] # None
      BY <1>3, <1>6, <2>2
    <3>2. d[c].key \in Nat
      BY <3>1, ItemType DEF Tables
    <3>3. PICK m \in 0 .. n - 1 : c = Nth(d[c].key, n, m) /\ Way(d, n, d[c].key, m)
      BY <3>1, ReachableBy
    <3> QED
      BY <1>5, <3>1, <3>2, <3>3
  <2> QED
    BY <2>1, <2>2
<1>7. Reachable(e)
  BY <1>3, <1>6, ReachableBy
<1> QED
  BY <1>3, <1>7 DEF e, b

\* The search for a key that comes to an empty bucket has missed nothing.
LEMMA AbsentAtEmpty ==
    ASSUME NEW n \in Nat \ {0}, NEW d \in Tables(n), Reachable(d), NEW k \in Keys,
           NEW i \in 0 .. n - 1, d[Nth(k, n, i)] = None,
           \A j \in 0 .. i - 1 : Nth(k, n, j) \notin Holds(d, k)
    PROVE  Holds(d, k) = {}
<1> SUFFICES ASSUME NEW b \in Holds(d, k) PROVE FALSE
  OBVIOUS
<1>1. b \in 0 .. n - 1 /\ d[b] # None /\ d[b].key = k
  BY TableSize DEF Holds
<1>2. PICK m \in 0 .. n - 1 : b = Nth(k, n, m) /\ Way(d, n, k, m)
  BY <1>1, ReachableBy
<1>3. CASE m < i
  BY <1>2, <1>3
<1>4. CASE i < m
  BY <1>2, <1>4 DEF Way
<1>5. CASE i = m
  BY <1>1, <1>2, <1>5
<1> QED
  BY <1>3, <1>4, <1>5

\* With an empty bucket anywhere no search goes all the way round.
LEMMA NeverRound ==
    ASSUME NEW n \in Nat \ {0}, NEW d \in Tables(n), Empties(d) # {},
           NEW k \in Keys, Way(d, n, k, n)
    PROVE  FALSE
<1>1. PICK b \in 0 .. n - 1 : d[b] = None
  BY TableSize DEF Empties
<1>2. k \in Nat
  BY ItemType
<1>3. PICK i \in 0 .. n - 1 : b = Nth(k, n, i)
  BY <1>2, NthBucket
<1> QED
  BY <1>1, <1>3 DEF Way

\* Putting a new key into an empty bucket leaves keys unique and takes one of
\* the empty buckets.
LEMMA PutUnique ==
    ASSUME NEW n \in Nat \ {0}, NEW d \in Tables(n), Unique(d), NEW x \in Items,
           NEW b \in 0 .. n - 1, d[b] = None, Holds(d, x.key) = {}
    PROVE  /\ Unique([d EXCEPT ![b] = x])
           /\ Empties(d) # {} /\ IsFiniteSet(Empties(d))
           /\ Cardinality(Empties([d EXCEPT ![b] = x])) = Cardinality(Empties(d)) - 1
<1> DEFINE e == [d EXCEPT ![b] = x]
<1>1. x # None
  BY ItemType
<1>2. DOMAIN d = 0 .. n - 1 /\ IsFiniteSet(DOMAIN d)
  BY TableSize
<1>3. /\ DOMAIN e = DOMAIN d /\ e[b] = x
      /\ \A c \in DOMAIN d : c # b => e[c] = d[c]
  BY <1>2
<1> HIDE DEF e
<1>4. \A c \in DOMAIN d : d[c] # None => d[c].key # x.key
  BY DEF Holds
<1>5. Unique(e)
  BY <1>3, <1>4 DEF Unique
<1>6. Empties(e) = Empties(d) \ {b} /\ b \in Empties(d)
  BY <1>1, <1>2, <1>3 DEF Empties
<1>7. IsFiniteSet(Empties(d))
  BY <1>2, FS_Subset DEF Empties
<1>8. Cardinality(Empties(e)) = Cardinality(Empties(d)) - 1
  BY <1>6, <1>7, FS_RemoveElement
<1> QED
  BY <1>5, <1>6, <1>7, <1>8 DEF e

\* Writing another value changes neither where items are found nor what is
\* empty.
LEMMA OverwriteTable ==
    ASSUME NEW n \in Nat \ {0}, NEW d \in Tables(n), Reachable(d), Unique(d),
           NEW b \in 0 .. n - 1, d[b] # None, NEW x \in Items, x.key = d[b].key
    PROVE  /\ [d EXCEPT ![b] = x] \in Tables(n)
           /\ Reachable([d EXCEPT ![b] = x]) /\ Unique([d EXCEPT ![b] = x])
           /\ Empties([d EXCEPT ![b] = x]) = Empties(d)
<1> DEFINE e == [d EXCEPT ![b] = x]
<1>1. DOMAIN d = 0 .. n - 1
  BY DEF Tables
<1>2. /\ e \in Tables(n) /\ DOMAIN e = 0 .. n - 1
      /\ e[b] \in Items /\ e[b].key = d[b].key
      /\ \A c \in 0 .. n - 1 : c # b => e[c] = d[c]
  BY <1>1 DEF Tables, Buckets
<1> HIDE DEF e
<1>3. \A c \in 0 .. n - 1 :
         /\ e[c] # None <=> d[c] # None
         /\ d[c] # None => e[c].key = d[c].key
  BY <1>2, ItemType
<1>4. ASSUME NEW c \in 0 .. n - 1, e[c] # None
      PROVE  \E m \in 0 .. n - 1 : c = Nth(e[c].key, n, m) /\ Way(e, n, e[c].key, m)
  <2>1. d[c] # None /\ e[c].key = d[c].key
    BY <1>3, <1>4
  <2>2. d[c].key \in Nat
    BY <2>1, ItemType DEF Tables
  <2>3. PICK m \in 0 .. n - 1 : c = Nth(d[c].key, n, m) /\ Way(d, n, d[c].key, m)
    BY <2>1, ReachableBy
  <2>4. Way(e, n, d[c].key, m)
    BY <1>3, <2>2, <2>3, WayKept
  <2> QED
    BY <2>1, <2>3, <2>4
<1>5. Reachable(e)
  BY <1>2, <1>4, ReachableBy
<1>6. Unique(e)
  BY <1>1, <1>2, <1>3 DEF Unique
<1>7. Empties(e) = Empties(d)
  BY <1>1, <1>2, <1>3 DEF Empties
<1> QED
  BY <1>2, <1>5, <1>6, <1>7 DEF e

-----------------------------------------------------------------------------
(***************************************************************************)
(* The inductive invariant.  Searching ends and finds because the items    *)
(* are reachable and unique and there is room; there is room because       *)
(* free_buckets is exact; it is exact after a resize because the new table *)
(* takes as many items as the old one has given.                           *)
(***************************************************************************)

TableInv ==
    /\ dict_size \in Nat \ {0} /\ dict \in Tables(dict_size)
    /\ SizeAbove(dict_size) = 0 \/ dict_size % 4 # 0
    /\ Reachable(dict) /\ Unique(dict)

CallInv ==
    /\ pc \in {"idle", "probe", "resize", "move", "return", "aborted"}
    /\ calls \in 0 .. MaxCalls
    /\ bucket \in 0 .. dict_size - 1
    /\ moved \in 0 .. dict_size
    /\ pc = "idle" => call = None /\ result = None
    /\ pc # "idle" => call \in Calls
    /\ pc = "probe" => result = None
    /\ pc \in {"resize", "move", "return", "aborted"} => result \in Answers

\* The buckets before the one a call looks at are taken by other keys.
ProbeInv ==
    pc = "probe" =>
        /\ \E i \in 0 .. dict_size - 1 :
              /\ bucket = Nth(call.key, dict_size, i)
              /\ Way(dict, dict_size, call.key, i)
              /\ \A j \in 0 .. i - 1 : Nth(call.key, dict_size, j) \notin Holds(dict, call.key)
        /\ call.op = "ModifyItem" => Holds(dict, call.key) # {}

ItemsOf(d) == {d[b] : b \in DOMAIN d} \ {None}

Given == {b \in 0 .. moved - 1 : dict[b] # None}

MoveInv ==
    pc = "move" =>
        /\ SizeAbove(dict_size) # 0
        /\ new_dict \in Tables(SizeAbove(dict_size))
        /\ Reachable(new_dict) /\ Unique(new_dict)
        /\ ItemsOf(new_dict) = {dict[b] : b \in 0 .. moved - 1} \ {None}
        /\ Cardinality(Empties(new_dict)) + Cardinality(Given) = SizeAbove(dict_size)

CountInv ==
    /\ free_buckets = IF pc = "move"
                      THEN Cardinality(Empties(dict)) + (SizeAbove(dict_size) - dict_size)
                      ELSE Cardinality(Empties(dict))
    /\ pc \in {"idle", "probe", "return"} => 4 * Cardinality(Empties(dict)) >= dict_size
    /\ pc \in {"resize", "move"} => 4 * (Cardinality(Empties(dict)) + 1) >= dict_size

IInv == TableInv /\ CallInv /\ ProbeInv /\ MoveInv /\ CountInv

\* The first table is empty and of a listed size, or there is no larger one.
LEMMA InvInit == Init => IInv
<1> SUFFICES ASSUME Init PROVE IInv
  OBVIOUS
<1>1. /\ dict_size \in Nat \ {0}
      /\ SizeAbove(dict_size) = 0 \/ dict_size % 4 # 0
  <2>1. InitialSize \in Nat \ {0}
    BY SizeAssumption
  <2>2. CASE SizeAbove(InitialSize) = 0
    BY <2>1, <2>2 DEF Init, SizeAtFirst
  <2>3. CASE SizeAbove(InitialSize) # 0
    <3>1. dict_size = SizeAbove(InitialSize)
      BY <2>3 DEF Init, SizeAtFirst
    <3>2. /\ dict_size \in Nat /\ dict_size > InitialSize
          /\ \E i \in 1 .. Len(PRIMES) : dict_size = PRIMES[i]
      BY <2>1, <2>3, <3>1, NextSize
    <3> QED
      BY <2>1, <3>2, OddAssumption
  <2> QED
    BY <2>2, <2>3
<1>2. dict = EmptyTable(dict_size)
  BY DEF Init
<1>3. TableInv
  BY <1>1, <1>2, EmptyReachable DEF TableInv
<1>4. CallInv
  BY <1>1, BoundAssumption DEF Init, CallInv
<1>5. CountInv
  <2>1. Cardinality(Empties(dict)) = dict_size
    BY <1>1, <1>2, EmptyReachable
  <2> QED
    BY <1>1, <2>1 DEF Init, CountInv
<1>6. ProbeInv /\ MoveInv
  BY DEF Init, ProbeInv, MoveInv
<1> QED
  BY <1>3, <1>4, <1>5, <1>6 DEF IInv

\* What a step keeps that leaves the table and its resizing alone.
LEMMA TableKept ==
    ASSUME IInv, UNCHANGED table, pc # "move", pc' # "move"
    PROVE  TableInv' /\ MoveInv' /\ free_buckets' = Cardinality(Empties(dict'))
<1>1. dict' = dict /\ dict_size' = dict_size /\ free_buckets' = free_buckets
  BY DEF table
<1>2. TableInv'
  BY <1>1 DEF IInv, TableInv
<1>3. MoveInv'
  BY DEF MoveInv
<1> QED
  BY <1>1, <1>2, <1>3 DEF IInv, CountInv

\* The count of empty buckets is a number, and not zero when a call begins.
LEMMA CountType ==
    ASSUME IInv
    PROVE  /\ IsFiniteSet(Empties(dict)) /\ Cardinality(Empties(dict)) \in 0 .. dict_size
           /\ pc \in {"idle", "probe", "return"} => Empties(dict) # {}
<1>1. dict_size \in Nat \ {0} /\ dict \in Tables(dict_size)
  BY DEF IInv, TableInv
<1>2. IsFiniteSet(DOMAIN dict) /\ Cardinality(DOMAIN dict) = dict_size
  BY <1>1, TableSize
<1>3. Empties(dict) \in SUBSET DOMAIN dict
  BY DEF Empties
<1>4. IsFiniteSet(Empties(dict)) /\ Cardinality(Empties(dict)) <= dict_size
  BY <1>2, <1>3, FS_Subset
<1>5. Cardinality(Empties(dict)) \in Nat
  BY <1>4, FS_CardinalityType
<1>6. Cardinality({}) = 0
  BY FS_EmptySet
<1>7. ASSUME pc \in {"idle", "probe", "return"} PROVE Empties(dict) # {}
  <2>1. 4 * Cardinality(Empties(dict)) >= dict_size
    BY <1>7 DEF IInv, CountInv
  <2> QED
    BY <1>1, <1>5, <1>6, <2>1
<1> QED
  BY <1>1, <1>4, <1>5, <1>7

-----------------------------------------------------------------------------
(***************************************************************************)
(* The steps.                                                              *)
(***************************************************************************)

\* A call begins at its key's home: the way there has no bucket.
LEMMA BeginInv ==
    ASSUME IInv, NEW c \in Calls, Begin(c)
    PROVE  IInv'
<1>1. /\ pc = "idle" /\ pc' = "probe" /\ call' = c /\ UNCHANGED <<table, resize, result>>
      /\ bucket' = c.key % dict_size /\ calls < MaxCalls /\ calls' = calls + 1
      /\ c.op = "ModifyItem" => Holds(dict, c.key) # {}
  BY DEF Begin
<1>2. dict_size \in Nat \ {0} /\ c.key \in Nat
  BY ItemType DEF IInv, TableInv, Calls
<1>3. TableInv' /\ MoveInv' /\ free_buckets' = Cardinality(Empties(dict'))
  BY <1>1, TableKept
<1>4. dict' = dict /\ dict_size' = dict_size /\ moved' = moved /\ result' = result
  BY <1>1 DEF table, resize
<1>5. bucket' \in 0 .. dict_size - 1
  BY <1>1, <1>2, HomeInTable
<1>6. CallInv'
  BY <1>1, <1>4, <1>5, BoundAssumption DEF IInv, CallInv
<1>7. ProbeInv'
  <2>1. bucket' = Nth(c.key, dict_size, 0)
    BY <1>1, <1>2, NthBucket
  <2>2. 0 \in 0 .. dict_size - 1 /\ 0 .. 0 - 1 = {}
    BY <1>2
  <2>3. Way(dict, dict_size, c.key, 0)
    BY <2>2 DEF Way
  <2> QED
    BY <1>1, <1>4, <2>1, <2>2, <2>3 DEF ProbeInv
<1>8. CountInv'
  BY <1>1, <1>3, <1>4 DEF IInv, CountInv
<1> QED
  BY <1>3, <1>6, <1>7, <1>8 DEF IInv

\* The next bucket is not past the first one again, for a bucket is empty.
LEMMA ProbeStepInv ==
    ASSUME IInv, Probe
    PROVE  IInv'
<1>1. /\ pc = "probe" /\ pc' = "probe" /\ call' = call
      /\ UNCHANGED <<table, resize, result, calls>>
      /\ dict[bucket] # None /\ bucket \notin Holds(dict, call.key)
      /\ bucket' = (bucket + 1) % dict_size
  BY DEF Probe
<1>2. /\ dict_size \in Nat \ {0} /\ dict \in Tables(dict_size)
      /\ call.key \in Nat /\ call.key \in Keys
  BY <1>1, ItemType DEF IInv, TableInv, CallInv, Calls
<1>3. TableInv' /\ MoveInv' /\ free_buckets' = Cardinality(Empties(dict'))
  BY <1>1, TableKept
<1>4. dict' = dict /\ dict_size' = dict_size /\ moved' = moved
  BY <1>1 DEF table, resize
<1>5. PICK i \in 0 .. dict_size - 1 :
         /\ bucket = Nth(call.key, dict_size, i)
         /\ Way(dict, dict_size, call.key, i)
         /\ \A j \in 0 .. i - 1 : Nth(call.key, dict_size, j) \notin Holds(dict, call.key)
  BY <1>1 DEF IInv, ProbeInv
<1>6. 0 .. (i + 1) - 1 = (0 .. i - 1) \union {i}
  OBVIOUS
<1>7. Way(dict, dict_size, call.key, i + 1)
  BY <1>1, <1>5, <1>6 DEF Way
<1>8. i + 1 \in 0 .. dict_size - 1
  <2>1. CASE i + 1 = dict_size
    BY <1>1, <1>2, <1>7, <2>1, CountType, NeverRound
  <2> QED
    BY <1>2, <2>1
<1>9. bucket' = Nth(call.key, dict_size, i + 1)
  <2>1. i \in 0 .. dict_size - 2
    BY <1>2, <1>8
  <2> QED
    BY <1>1, <1>2, <1>5, <2>1, NthBucket
<1>10. bucket' \in 0 .. dict_size - 1
  BY <1>2, <1>8, <1>9, NthBucket
<1>11. CallInv'
  BY <1>1, <1>4, <1>10 DEF IInv, CallInv
<1>12. ProbeInv'
  <2>1. \A j \in 0 .. (i + 1) - 1 : Nth(call.key, dict_size, j) \notin Holds(dict, call.key)
    BY <1>1, <1>5, <1>6
  <2>2. call.op = "ModifyItem" => Holds(dict, call.key) # {}
    BY <1>1 DEF IInv, ProbeInv
  <2> QED
    BY <1>1, <1>4, <1>7, <1>8, <1>9, <2>1, <2>2 DEF ProbeInv
<1>13. CountInv'
  BY <1>1, <1>3, <1>4 DEF IInv, CountInv
<1> QED
  BY <1>3, <1>11, <1>12, <1>13 DEF IInv

\* GetItem changes nothing but what it will return.
LEMMA GetItemInv ==
    ASSUME IInv, GetItem
    PROVE  IInv'
<1>1. /\ pc = "probe" /\ pc' = "return" /\ call' = call /\ bucket' = bucket
      /\ UNCHANGED <<table, resize, calls>>
  BY DEF GetItem
<1>2. dict' = dict /\ dict_size' = dict_size /\ moved' = moved
  BY <1>1 DEF table, resize
<1>3. TableInv' /\ MoveInv' /\ free_buckets' = Cardinality(Empties(dict'))
  BY <1>1, TableKept
<1>4. result' \in Answers
  <2>1. CASE dict[bucket] = None /\ result' = [hit |-> FALSE, value |-> None]
    BY <2>1 DEF Answers
  <2>2. CASE bucket \in Holds(dict, call.key)
             /\ result' = [hit |-> TRUE, value |-> dict[bucket].value]
    <3>1. dict[bucket] \in Buckets /\ dict[bucket] # None
      BY <2>2, TableSize DEF Holds, IInv, TableInv, Tables
    <3> QED
      BY <2>2, <3>1, ItemType DEF Answers
  <2> QED
    BY <2>1, <2>2 DEF GetItem
<1>5. CallInv'
  BY <1>1, <1>2, <1>4 DEF IInv, CallInv
<1>6. ProbeInv' /\ CountInv'
  BY <1>1, <1>2, <1>3 DEF IInv, CountInv, ProbeInv
<1> QED
  BY <1>3, <1>5, <1>6 DEF IInv

\* Overwrite puts the call's key and value into the key's bucket.
LEMMA OverwriteIs ==
    ASSUME IInv, Overwrite
    PROVE  LET x == [key |-> call.key, value |-> call.value]
           IN  /\ x \in Items /\ dict' = [dict EXCEPT ![bucket] = x]
               /\ bucket \in Holds(dict, call.key)
               /\ bucket \in 0 .. dict_size - 1 /\ dict[bucket] # None
               /\ dict[bucket].key = call.key
<1> DEFINE x == [key |-> call.key, value |-> call.value]
           y == [dict[bucket] EXCEPT !.value = call.value]
<1>1. dict' = [dict EXCEPT ![bucket] = y]
  BY DEF Overwrite
<1>2. bucket \in Holds(dict, call.key)
  BY DEF Overwrite
<1>3. bucket \in 0 .. dict_size - 1 /\ dict[bucket] # None /\ dict[bucket].key = call.key
  BY <1>2, TableSize DEF Holds, IInv, TableInv
<1>4. dict[bucket] \in Items
  BY <1>3, ItemType DEF IInv, TableInv, Tables
<1>5. y = x
  BY <1>3, <1>4 DEF Items
<1>6. pc = "probe" /\ call.op \in {"AddItem", "ModifyItem"}
  BY DEF Overwrite
<1>7. x \in Items
  BY <1>6 DEF IInv, CallInv, Calls, Items
<1> QED
  BY <1>1, <1>2, <1>3, <1>5, <1>7

\* Overwrite changes a value.
LEMMA OverwriteInv ==
    ASSUME IInv, Overwrite
    PROVE  IInv'
<1>1. /\ pc = "probe" /\ pc' = "return"
      /\ result' = [hit |-> call.op = "ModifyItem", value |-> None]
      /\ UNCHANGED <<dict_size, free_buckets, call, bucket, calls>>
      /\ new_dict' = new_dict /\ moved' = moved
  BY DEF Overwrite, resize
<1>2. /\ dict_size \in Nat \ {0} /\ dict \in Tables(dict_size)
      /\ Reachable(dict) /\ Unique(dict)
  BY DEF IInv, TableInv
<1>5. /\ dict' \in Tables(dict_size) /\ Reachable(dict') /\ Unique(dict')
      /\ Empties(dict') = Empties(dict)
  <2> DEFINE x == [key |-> call.key, value |-> call.value]
  <2>1. /\ x \in Items /\ dict' = [dict EXCEPT ![bucket] = x]
        /\ bucket \in 0 .. dict_size - 1 /\ dict[bucket] # None
        /\ x.key = dict[bucket].key
    BY OverwriteIs
  <2> HIDE DEF x
  <2> QED
    BY <1>2, <2>1, OverwriteTable
<1>6. TableInv'
  BY <1>1, <1>2, <1>5 DEF IInv, TableInv
<1>7. CallInv'
  <2>1. result' \in Answers
    BY <1>1 DEF Answers
  <2> QED
    BY <1>1, <2>1 DEF IInv, CallInv
<1>8. ProbeInv' /\ MoveInv'
  BY <1>1 DEF ProbeInv, MoveInv
<1>9. CountInv'
  BY <1>1, <1>5 DEF IInv, CountInv
<1> QED
  BY <1>6, <1>7, <1>8, <1>9 DEF IInv

\* The bucket Fill takes is the first empty one from the key's home, and the
\* key is nowhere else.
LEMMA FillTable ==
    ASSUME IInv, Fill
    PROVE  LET x == [key |-> call.key, value |-> call.value]
           IN  /\ x \in Items /\ dict' = [dict EXCEPT ![bucket] = x]
               /\ bucket \in 0 .. dict_size - 1 /\ dict[bucket] = None
               /\ Holds(dict, call.key) = {}
               /\ dict' \in Tables(dict_size) /\ Reachable(dict') /\ Unique(dict')
               /\ Cardinality(Empties(dict')) = Cardinality(Empties(dict)) - 1
<1> DEFINE x == [key |-> call.key, value |-> call.value]
<1>1. pc = "probe" /\ call.op = "AddItem" /\ dict[bucket] = None
      /\ dict' = [dict EXCEPT ![bucket] = x]
  BY DEF Fill
<1>2. /\ dict_size \in Nat \ {0} /\ dict \in Tables(dict_size)
      /\ Reachable(dict) /\ Unique(dict)
  BY DEF IInv, TableInv
<1>3. x \in Items /\ x.key = call.key /\ call.key \in Keys
  BY <1>1 DEF IInv, CallInv, Calls, Items
<1> HIDE DEF x
<1>4. bucket \in 0 .. dict_size - 1
  BY DEF IInv, CallInv
<1>5. PICK i \in 0 .. dict_size - 1 :
         /\ bucket = Nth(call.key, dict_size, i)
         /\ Way(dict, dict_size, call.key, i)
         /\ \A j \in 0 .. i - 1 : Nth(call.key, dict_size, j) \notin Holds(dict, call.key)
  BY <1>1 DEF IInv, ProbeInv
<1>6. Holds(dict, call.key) = {}
  BY <1>1, <1>2, <1>3, <1>5, AbsentAtEmpty
<1>7. dict' \in Tables(dict_size) /\ Reachable(dict')
  BY <1>1, <1>2, <1>3, <1>5, PutReachable
<1>8. Unique(dict') /\ Cardinality(Empties(dict')) = Cardinality(Empties(dict)) - 1
  <2>1. PICK d : d = dict
    OBVIOUS
  <2>2. /\ d \in Tables(dict_size) /\ Unique(d) /\ d[bucket] = None
        /\ Holds(d, x.key) = {}
    BY <1>1, <1>2, <1>3, <1>6, <2>1
  <2>3. LET e == [d EXCEPT ![bucket] = x]
        IN  Unique(e) /\ Cardinality(Empties(e)) = Cardinality(Empties(d)) - 1
    BY <1>2, <1>3, <1>4, <2>2, PutUnique
  <2> QED
    BY <1>1, <2>1, <2>3
<1> QED
  BY <1>1, <1>3, <1>4, <1>6, <1>7, <1>8 DEF x

\* Fill takes one of at least a quarter of the buckets; when less than a
\* quarter is left it is one bucket less.
LEMMA FillInv ==
    ASSUME IInv, Fill
    PROVE  IInv'
<1>1. /\ pc = "probe" /\ free_buckets' = free_buckets - 1
      /\ result' = [hit |-> TRUE, value |-> None]
      /\ pc' = IF 4 * (free_buckets - 1) < dict_size THEN "resize" ELSE "return"
      /\ UNCHANGED <<dict_size, call, bucket, calls>>
      /\ new_dict' = new_dict /\ moved' = moved
  BY DEF Fill, resize
<1>2. /\ dict' \in Tables(dict_size) /\ Reachable(dict') /\ Unique(dict')
      /\ Cardinality(Empties(dict')) = Cardinality(Empties(dict)) - 1
  BY FillTable
<1>3. TableInv'
  BY <1>1, <1>2 DEF IInv, TableInv
<1>4. CallInv'
  <2>1. result' \in Answers
    BY <1>1 DEF Answers
  <2> QED
    BY <1>1, <2>1 DEF IInv, CallInv
<1>5. ProbeInv' /\ MoveInv'
  BY <1>1 DEF ProbeInv, MoveInv
<1>6. CountInv'
  <2>1. /\ dict_size \in Nat \ {0} /\ Cardinality(Empties(dict)) \in Nat
        /\ free_buckets = Cardinality(Empties(dict))
        /\ 4 * Cardinality(Empties(dict)) >= dict_size
    BY <1>1, CountType DEF IInv, TableInv, CountInv
  <2> QED
    BY <1>1, <1>2, <2>1 DEF CountInv
<1> QED
  BY <1>3, <1>4, <1>5, <1>6 DEF IInv

\* The table that is allocated is empty, and nothing has been moved.
LEMMA ResizeInv ==
    ASSUME IInv, Resize
    PROVE  IInv'
<1>1. /\ pc = "resize" /\ UNCHANGED <<dict, dict_size, call, bucket, result, calls>>
  BY DEF Resize
<1>2. /\ dict_size \in Nat \ {0} /\ free_buckets = Cardinality(Empties(dict))
      /\ 4 * (Cardinality(Empties(dict)) + 1) >= dict_size
  BY <1>1 DEF IInv, TableInv, CountInv
<1>3. TableInv'
  BY <1>1 DEF IInv, TableInv
<1>4. CASE SizeAbove(dict_size) = 0
  <2>1. pc' = "aborted" /\ UNCHANGED <<free_buckets, new_dict, moved>>
    BY <1>4 DEF Resize
  <2>2. CallInv'
    BY <1>1, <2>1 DEF IInv, CallInv
  <2>3. ProbeInv' /\ MoveInv' /\ CountInv'
    BY <1>1, <1>2, <2>1 DEF ProbeInv, MoveInv, CountInv
  <2> QED
    BY <1>3, <2>2, <2>3 DEF IInv
<1>5. CASE SizeAbove(dict_size) # 0
  <2> DEFINE n == SizeAbove(dict_size)
  <2>1. /\ pc' = "move" /\ moved' = 0 /\ new_dict' = EmptyTable(n)
        /\ free_buckets' = free_buckets + (n - dict_size)
    BY <1>5 DEF Resize
  <2>2. n \in Nat \ {0}
    BY <1>2, <1>5, NextSize
  <2> HIDE DEF n
  <2>3. SizeAbove(dict_size') = n
    BY <1>1 DEF n
  <2>4. CallInv'
    BY <1>1, <1>2, <2>1 DEF IInv, CallInv
  <2>5. MoveInv'
    <3>1. /\ new_dict' \in Tables(n) /\ Reachable(new_dict') /\ Unique(new_dict')
          /\ Cardinality(Empties(new_dict')) = n
      BY <2>1, <2>2, EmptyReachable
    <3>2. 0 .. moved' - 1 = {}
      BY <2>1
    <3>3. ItemsOf(new_dict') = {} /\ {dict'[b] : b \in 0 .. moved' - 1} \ {None} = {}
      BY <2>1, <3>2 DEF ItemsOf, EmptyTable
    <3>4. Given' = {} /\ Cardinality({}) = 0
      BY <3>2, FS_EmptySet DEF Given
    <3> QED
      BY <2>2, <2>3, <3>1, <3>3, <3>4 DEF MoveInv
  <2>6. ProbeInv'
    BY <2>1 DEF ProbeInv
  <2>7. CountInv'
    BY <1>1, <1>2, <2>1, <2>3 DEF CountInv
  <2> QED
    BY <1>3, <2>4, <2>5, <2>6, <2>7 DEF IInv
<1> QED
  BY <1>4, <1>5

\* An old bucket that is moved has an item of a key that the new table does
\* not have yet.
LEMMA MoveInvStep ==
    ASSUME IInv, Move
    PROVE  IInv'
<1> DEFINE n == SizeAbove(dict_size)
<1>1. /\ pc = "move" /\ pc' = "move" /\ moved < dict_size /\ moved' = moved + 1
      /\ dict' = dict /\ dict_size' = dict_size /\ free_buckets' = free_buckets
      /\ UNCHANGED <<call, bucket, result, calls>>
  BY DEF Move, table
<1>2. /\ dict_size \in Nat \ {0} /\ dict \in Tables(dict_size) /\ Unique(dict)
      /\ moved \in 0 .. dict_size - 1
  BY <1>1 DEF IInv, TableInv, CallInv
<1>3. n \in Nat \ {0}
  BY <1>1, <1>2, NextSize DEF IInv, MoveInv
<1> HIDE DEF n
<1>4. SizeAbove(dict_size') = n
  BY <1>1 DEF n
<1>5. /\ new_dict \in Tables(n) /\ Reachable(new_dict) /\ Unique(new_dict)
      /\ ItemsOf(new_dict) = {dict[b] : b \in 0 .. moved - 1} \ {None}
      /\ Cardinality(Empties(new_dict)) + Cardinality(Given) = n
  BY <1>1 DEF IInv, MoveInv, n
<1>6. 0 .. moved' - 1 = (0 .. moved - 1) \union {moved} /\ moved \notin 0 .. moved - 1
  BY <1>1, <1>2
<1>7. {dict'[b] : b \in 0 .. moved' - 1} = {dict[b] : b \in 0 .. moved - 1} \union {dict[moved]}
  BY <1>1, <1>6
<1>8. TableInv'
  BY <1>1 DEF IInv, TableInv
<1>9. CallInv'
  BY <1>1, <1>2 DEF IInv, CallInv
<1>10. ProbeInv' /\ CountInv'
  BY <1>1, <1>4 DEF IInv, ProbeInv, CountInv, n
<1>11. MoveInv'
  <2>1. CASE dict[moved] = None /\ UNCHANGED new_dict
    <3>1. Given' = Given
      BY <1>1, <1>6, <2>1 DEF Given
    <3>2. ItemsOf(new_dict') = {dict'[b] : b \in 0 .. moved' - 1} \ {None}
      BY <1>5, <1>7, <2>1
    <3> QED
      BY <1>3, <1>4, <1>5, <2>1, <3>1, <3>2 DEF MoveInv
  <2>2. CASE /\ dict[moved] # None
             /\ \E b \in DOMAIN new_dict :
                   /\ FirstEmpty(new_dict, dict[moved].key % Cardinality(DOMAIN new_dict), b)
                   /\ new_dict' = [new_dict EXCEPT ![b] = dict[moved]]
    <3>1. PICK x \in Items : x = dict[moved]
      BY <1>2, <2>2, ItemType DEF Tables
    <3>2. x.key \in Keys /\ x.key \in Nat /\ x # None
      BY <3>1, ItemType DEF Items
    <3>3. DOMAIN new_dict = 0 .. n - 1 /\ Cardinality(DOMAIN new_dict) = n
      BY <1>3, <1>5, TableSize
    <3>4. PICK b \in 0 .. n - 1 :
             FirstEmpty(new_dict, x.key % n, b) /\ new_dict' = [new_dict EXCEPT ![b] = x]
      BY <2>2, <3>1, <3>3
    <3>5. PICK i \in 0 .. n - 1 :
             b = Nth(x.key, n, i) /\ Way(new_dict, n, x.key, i) /\ new_dict[b] = None
      BY <3>3, <3>4 DEF FirstEmpty, Nth, Way
    <3>6. new_dict' \in Tables(n) /\ Reachable(new_dict')
      BY <1>3, <1>5, <3>4, <3>5, PutReachable
    <3>7. Holds(new_dict, x.key) = {}
      <4> SUFFICES ASSUME NEW c \in Holds(new_dict, x.key) PROVE FALSE
        OBVIOUS
      <4>1. new_dict[c] \in ItemsOf(new_dict) /\ new_dict[c].key = x.key
        BY DEF Holds, ItemsOf
      <4>2. PICK o \in 0 .. moved - 1 : dict[o] = new_dict[c] /\ dict[o] # None
        BY <1>5, <4>1
      <4>3. o \in DOMAIN dict /\ moved \in DOMAIN dict /\ o # moved
        BY <1>2, <4>2 DEF Tables
      <4> QED
        BY <1>2, <2>2, <3>1, <4>1, <4>2, <4>3 DEF Unique
    <3>8. /\ Unique(new_dict')
          /\ Cardinality(Empties(new_dict')) = Cardinality(Empties(new_dict)) - 1
          /\ IsFiniteSet(Empties(new_dict))
      <4>1. PICK d : d = new_dict
        OBVIOUS
      <4>2. /\ n \in Nat \ {0} /\ d \in Tables(n) /\ Unique(d) /\ d[b] = None
            /\ Holds(d, x.key) = {} /\ x \in Items
        BY <1>3, <1>5, <3>1, <3>5, <3>7, <4>1
      <4>3. LET e == [d EXCEPT ![b] = x]
            IN  /\ Unique(e) /\ Cardinality(Empties(e)) = Cardinality(Empties(d)) - 1
                /\ IsFiniteSet(Empties(d))
        BY <4>2, PutUnique
      <4> QED
        BY <3>4, <4>1, <4>3
    <3>9. ItemsOf(new_dict') = {dict'[c] : c \in 0 .. moved' - 1} \ {None}
      <4>1. /\ DOMAIN new_dict' = DOMAIN new_dict /\ new_dict'[b] = x
            /\ \A c \in DOMAIN new_dict : c # b => new_dict'[c] = new_dict[c]
        BY <3>3, <3>4
      <4>2. ItemsOf(new_dict') = ItemsOf(new_dict) \union {x}
        BY <3>2, <3>3, <3>5, <4>1 DEF ItemsOf
      <4> QED
        BY <1>5, <1>7, <3>1, <3>2, <4>2
    <3>10. Cardinality(Given') = Cardinality(Given) + 1 /\ Cardinality(Given) \in Nat
      <4>1. Given' = Given \union {moved} /\ moved \notin Given
        BY <1>1, <1>6, <2>2 DEF Given
      <4>2. IsFiniteSet(0 .. moved - 1)
        BY <1>2, FS_Interval
      <4>3. IsFiniteSet(Given)
        BY <4>2, FS_Subset DEF Given
      <4> QED
        BY <4>1, <4>3, FS_AddElement, FS_CardinalityType
    <3>11. Cardinality(Empties(new_dict)) \in Nat
      BY <3>8, FS_CardinalityType
    <3> QED
      BY <1>3, <1>4, <1>5, <3>6, <3>8, <3>9, <3>10, <3>11 DEF MoveInv
  <2> QED
    BY <2>1, <2>2 DEF Move
<1> QED
  BY <1>8, <1>9, <1>10, <1>11 DEF IInv

\* What the new table holds when all buckets are moved.
LEMMA AllMoved ==
    ASSUME IInv, Replace
    PROVE  LET n == SizeAbove(dict_size)
           IN  /\ n \in Nat \ {0} /\ n > dict_size /\ n % 4 # 0
               /\ dict' = new_dict /\ dict' \in Tables(n) /\ dict_size' = n
               /\ Reachable(dict') /\ Unique(dict')
               /\ ItemsOf(dict') = ItemsOf(dict)
               /\ Cardinality(Empties(dict')) = free_buckets
<1> DEFINE n == SizeAbove(dict_size)
<1>1. /\ pc = "move" /\ moved = dict_size /\ dict' = new_dict
      /\ dict_size' = Cardinality(DOMAIN new_dict)
  BY DEF Replace
<1>2. /\ dict_size \in Nat \ {0} /\ dict \in Tables(dict_size)
  BY DEF IInv, TableInv
<1>3. /\ n # 0 /\ new_dict \in Tables(n) /\ Reachable(new_dict) /\ Unique(new_dict)
      /\ ItemsOf(new_dict) = {dict[b] : b \in 0 .. moved - 1} \ {None}
      /\ Cardinality(Empties(new_dict)) + Cardinality(Given) = n
  BY <1>1 DEF IInv, MoveInv
<1>4. n \in Nat \ {0} /\ n > dict_size /\ n % 4 # 0
  <2>1. /\ n \in Nat /\ n > dict_size /\ \E i \in 1 .. Len(PRIMES) : n = PRIMES[i]
    BY <1>2, <1>3, NextSize
  <2> QED
    BY <1>3, <2>1, OddAssumption
<1>5. Cardinality(DOMAIN new_dict) = n /\ IsFiniteSet(DOMAIN new_dict)
  BY <1>3, <1>4, TableSize
<1>6. /\ DOMAIN dict = 0 .. dict_size - 1 /\ IsFiniteSet(DOMAIN dict)
      /\ Cardinality(DOMAIN dict) = dict_size
  BY <1>2, TableSize
<1>7. ItemsOf(new_dict) = ItemsOf(dict)
  BY <1>1, <1>3, <1>6 DEF ItemsOf
<1>8. Cardinality(Given) = dict_size - Cardinality(Empties(dict))
  <2>1. /\ Given = DOMAIN dict \ Empties(dict)
        /\ DOMAIN dict \intersect Empties(dict) = Empties(dict)
    BY <1>1, <1>6 DEF Given, Empties
  <2>2. Cardinality(DOMAIN dict \ Empties(dict))
          = Cardinality(DOMAIN dict) - Cardinality(DOMAIN dict \intersect Empties(dict))
    BY <1>6, FS_Difference
  <2> QED
    BY <1>6, <2>1, <2>2
<1>9. Cardinality(Empties(dict)) \in 0 .. dict_size
  BY CountType
<1>10. Cardinality(Empties(new_dict)) \in Nat
  <2>1. IsFiniteSet(Empties(new_dict))
    BY <1>5, FS_Subset DEF Empties
  <2> QED
    BY <2>1, FS_CardinalityType
<1>11. free_buckets = Cardinality(Empties(dict)) + (n - dict_size)
  BY <1>1 DEF IInv, CountInv
<1>12. Cardinality(Empties(new_dict)) = free_buckets
  BY <1>2, <1>3, <1>4, <1>8, <1>9, <1>10, <1>11
<1> QED
  BY <1>1, <1>3, <1>4, <1>5, <1>7, <1>12

\* After the resize a quarter of the table is free again.
LEMMA ReplaceInv ==
    ASSUME IInv, Replace
    PROVE  IInv'
<1> DEFINE n == SizeAbove(dict_size)
<1>1. /\ pc = "move" /\ pc' = "return" /\ moved' = 0
      /\ UNCHANGED <<free_buckets, call, bucket, result, calls>>
  BY DEF Replace
<1>2. /\ n \in Nat \ {0} /\ n > dict_size /\ n % 4 # 0
      /\ dict' \in Tables(n) /\ dict_size' = n /\ Reachable(dict') /\ Unique(dict')
      /\ Cardinality(Empties(dict')) = free_buckets
  BY AllMoved
<1>3. /\ dict_size \in Nat \ {0}
      /\ dict_size % 4 # 0 \/ n = 0
      /\ free_buckets = Cardinality(Empties(dict)) + (n - dict_size)
      /\ 4 * (Cardinality(Empties(dict)) + 1) >= dict_size
  BY <1>1 DEF IInv, TableInv, CountInv
<1> HIDE DEF n
<1>4. TableInv'
  BY <1>2 DEF TableInv
<1>5. CallInv'
  BY <1>1, <1>2, <1>3 DEF IInv, CallInv
<1>6. 4 * free_buckets >= n
  <2>1. Cardinality(Empties(dict)) \in Nat
    BY CountType, <1>3
  <2> QED
    BY <1>2, <1>3, <2>1
<1>7. CountInv' /\ ProbeInv' /\ MoveInv'
  BY <1>1, <1>2, <1>6 DEF CountInv, ProbeInv, MoveInv
<1> QED
  BY <1>4, <1>5, <1>7 DEF IInv

\* Return ends the call.
LEMMA ReturnInv ==
    ASSUME IInv, Return
    PROVE  IInv'
<1>1. /\ pc = "return" /\ pc' = "idle" /\ call' = None /\ result' = None /\ bucket' = 0
      /\ UNCHANGED <<table, resize, calls>>
  BY DEF Return
<1>2. dict' = dict /\ dict_size' = dict_size /\ moved' = moved
  BY <1>1 DEF table, resize
<1>3. TableInv' /\ MoveInv' /\ free_buckets' = Cardinality(Empties(dict'))
  BY <1>1, TableKept
<1>4. CallInv'
  BY <1>1, <1>2 DEF IInv, TableInv, CallInv
<1>5. ProbeInv' /\ CountInv'
  BY <1>1, <1>2, <1>3 DEF IInv, CountInv, ProbeInv
<1> QED
  BY <1>3, <1>4, <1>5 DEF IInv

\* An empty table of the same size.
LEMMA ClearInv ==
    ASSUME IInv, Clear
    PROVE  IInv'
<1>1. /\ pc = "idle" /\ pc' = "idle" /\ calls < MaxCalls /\ calls' = calls + 1
      /\ dict' = EmptyTable(dict_size) /\ free_buckets' = dict_size
      /\ UNCHANGED <<dict_size, call, bucket, new_dict, moved, result>>
  BY DEF Clear, resize
<1>2. dict_size \in Nat \ {0}
  BY DEF IInv, TableInv
<1>3. /\ dict' \in Tables(dict_size) /\ Reachable(dict') /\ Unique(dict')
      /\ Cardinality(Empties(dict')) = dict_size
  BY <1>1, <1>2, EmptyReachable
<1>4. TableInv'
  BY <1>1, <1>3 DEF IInv, TableInv
<1>5. CallInv'
  BY <1>1, BoundAssumption DEF IInv, CallInv
<1>6. ProbeInv' /\ MoveInv' /\ CountInv'
  BY <1>1, <1>2, <1>3 DEF ProbeInv, MoveInv, CountInv
<1> QED
  BY <1>4, <1>5, <1>6 DEF IInv

\* The invariant is inductive.
LEMMA InvStep == IInv /\ [Next]_vars => IInv'
<1> SUFFICES ASSUME IInv, [Next]_vars PROVE IInv'
  OBVIOUS
<1>1. CASE Step
  BY <1>1, ProbeStepInv, GetItemInv, OverwriteInv, FillInv, ResizeInv, MoveInvStep,
     ReplaceInv, ReturnInv DEF Step
<1>2. CASE Clear \/ \E c \in Calls : Begin(c)
  BY <1>2, ClearInv, BeginInv
<1>3. CASE UNCHANGED vars
  <2>1. UNCHANGED <<dict, dict_size, free_buckets, call, bucket, pc, new_dict, moved,
                    result, calls>>
    BY <1>3 DEF vars, table, resize
  <2>2. TableInv' /\ CallInv'
    BY <2>1 DEF IInv, TableInv, CallInv
  <2>3. ProbeInv'
    BY <2>1 DEF IInv, ProbeInv
  <2>4. MoveInv'
    BY <2>1 DEF IInv, MoveInv, Given
  <2>5. CountInv'
    BY <2>1 DEF IInv, CountInv
  <2> QED
    BY <2>2, <2>3, <2>4, <2>5 DEF IInv
<1> QED
  BY <1>1, <1>2, <1>3 DEF Next

\* The invariant holds throughout.
THEOREM Invariance == Spec => []IInv
<1>1. Init => IInv
  BY InvInit
<1>2. IInv /\ [Next]_vars => IInv'
  BY InvStep
<1> QED
  BY <1>1, <1>2, PTL DEF Spec

-----------------------------------------------------------------------------
(***************************************************************************)
(* The safety properties.                                                  *)
(***************************************************************************)

\* The invariant types every variable.
LEMMA TypeByInv == IInv => TypeOK
<1> SUFFICES ASSUME IInv PROVE TypeOK
  OBVIOUS
<1>1. /\ dict_size \in Nat \ {0} /\ dict \in [0 .. dict_size - 1 -> Buckets]
  BY DEF IInv, TableInv, Tables
<1>2. free_buckets \in Nat
  <2>1. Cardinality(Empties(dict)) \in Nat
    BY <1>1, CountType
  <2>2. CASE pc = "move"
    <3>1. SizeAbove(dict_size) \in Nat /\ SizeAbove(dict_size) > dict_size
      BY <1>1, <2>2, NextSize DEF IInv, MoveInv
    <3> QED
      BY <1>1, <2>1, <2>2, <3>1 DEF IInv, CountInv
  <2>3. CASE pc # "move"
    BY <2>1, <2>3 DEF IInv, CountInv
  <2> QED
    BY <2>2, <2>3
<1>3. pc = "move" => DOMAIN new_dict = 0 .. SizeAbove(dict_size) - 1
  BY DEF IInv, MoveInv, Tables
<1>4. call \in Calls \union {None} /\ result \in Answers \union {None}
  BY DEF IInv, CallInv
<1>5. /\ bucket \in 0 .. dict_size - 1 /\ moved \in 0 .. dict_size
      /\ pc \in {"idle", "probe", "resize", "move", "return", "aborted"}
      /\ calls \in 0 .. MaxCalls
  BY DEF IInv, CallInv
<1> QED
  BY <1>1, <1>2, <1>3, <1>4, <1>5 DEF TypeOK

\* Every variable has its type: no probe leaves the table, and the count of
\* free buckets does not fall below zero (hash_dict.h:391-480).
THEOREM TypeCorrect == Spec => []TypeOK
BY Invariance, TypeByInv, PTL

\* An item can be found from its key's home, also in a table that a resize is
\* filling (hash_dict.h:211-252, 391-419).
THEOREM AlwaysReachable == Spec => []ItemsReachable
<1>1. IInv => ItemsReachable
  BY DEF IInv, TableInv, MoveInv, ItemsReachable
<1> QED
  BY <1>1, Invariance, PTL

\* A key has one item: what AddItem and ModifyItem change is what GetItem finds
\* (hash_dict.h:391-480).
THEOREM AlwaysUnique == Spec => []KeysUnique
<1>1. IInv => KeysUnique
  <2> SUFFICES ASSUME IInv, NEW k \in Keys PROVE Cardinality(Holds(dict, k)) <= 1
    BY DEF KeysUnique
  <2>1. Unique(dict)
    BY DEF IInv, TableInv
  <2>2. CASE Holds(dict, k) = {}
    <3>1. Cardinality(Holds(dict, k)) = 0
      BY <2>2, FS_EmptySet
    <3> QED
      BY <3>1
  <2>3. CASE Holds(dict, k) # {}
    <3>1. PICK b \in Holds(dict, k) : TRUE
      BY <2>3
    <3>2. Holds(dict, k) = {b}
      BY <2>1, <3>1 DEF Holds, Unique
    <3>3. Cardinality({b}) = 1
      BY FS_Singleton
    <3> QED
      BY <3>2, <3>3
  <2> QED
    BY <2>2, <2>3
<1> QED
  BY <1>1, Invariance, PTL

\* The count of free buckets is exact, and every call begins with a quarter of
\* the table free: no search goes round for ever (hash_dict.h:391-480).
THEOREM AlwaysRoom == Spec => []RoomToProbe
<1>1. IInv => RoomToProbe
  BY DEF IInv, CountInv, RoomToProbe, Empties
<1> QED
  BY <1>1, Invariance, PTL

\* A resize loses no item on the way (hash_dict.h:211-252).
THEOREM ResizeKeepsItems == Spec => []ResizeLosesNothing
<1>1. IInv => ResizeLosesNothing
  BY DEF IInv, MoveInv, ItemsOf, ResizeLosesNothing
<1> QED
  BY <1>1, Invariance, PTL

-----------------------------------------------------------------------------
(***************************************************************************)
(* HashDict is a map.                                                      *)
(***************************************************************************)

\* The map a table stands for.
MapOf(d) ==
    [k \in Keys |-> IF Holds(d, k) = {} THEN None
                    ELSE d[CHOOSE b \in Holds(d, k) : TRUE].value]

\* It gives a key the value of the one bucket that holds it.
LEMMA MapAt ==
    ASSUME NEW d, Unique(d), NEW k \in Keys, NEW b \in Holds(d, k)
    PROVE  MapOf(d)[k] = d[b].value
<1>1. (CHOOSE c \in Holds(d, k) : TRUE) \in Holds(d, k)
  OBVIOUS
<1>2. (CHOOSE c \in Holds(d, k) : TRUE) = b
  BY <1>1 DEF Holds, Unique
<1> QED
  BY <1>2 DEF MapOf

Put(d, b, x) == [d EXCEPT ![b] = x]

SetKey(m, k, v) == [m EXCEPT ![k] = v]

\* Putting an item into the bucket of its key, or an empty one if it has none,
\* sets the value of its key alone.
LEMMA MapPut ==
    ASSUME NEW n \in Nat \ {0}, NEW d \in Tables(n), NEW x \in Items,
           NEW b \in 0 .. n - 1, d[b] # None => d[b].key = x.key,
           Unique(d), NEW e, e = Put(d, b, x), Unique(e)
    PROVE  MapOf(e) = SetKey(MapOf(d), x.key, x.value)
<1>1. x # None /\ x.key \in Keys
  BY ItemType DEF Items
<1>2. /\ DOMAIN d = 0 .. n - 1 /\ DOMAIN e = 0 .. n - 1 /\ e[b] = x
      /\ \A c \in 0 .. n - 1 : c # b => e[c] = d[c]
  BY DEF Tables, Put
<1>3. MapOf(e)[x.key] = x.value
  <2>1. b \in Holds(e, x.key)
    BY <1>1, <1>2 DEF Holds
  <2>2. MapOf(e)[x.key] = e[b].value
    BY <1>1, <2>1, MapAt
  <2> QED
    BY <1>2, <2>2
<1>4. ASSUME NEW k \in Keys, k # x.key PROVE MapOf(e)[k] = MapOf(d)[k]
  <2>1. Holds(e, k) = Holds(d, k) /\ b \notin Holds(d, k)
    BY <1>2, <1>4 DEF Holds
  <2>2. \A c \in Holds(d, k) : e[c] = d[c]
    BY <1>2, <2>1 DEF Holds
  <2>3. CASE Holds(d, k) = {}
    BY <2>1, <2>3 DEF MapOf
  <2>4. CASE Holds(d, k) # {}
    <3>1. PICK c \in Holds(d, k) : TRUE
      BY <2>4
    <3>2. MapOf(d)[k] = d[c].value
      BY <3>1, MapAt
    <3>3. MapOf(e)[k] = e[c].value
      BY <2>1, <3>1, MapAt
    <3> QED
      BY <2>2, <3>1, <3>2, <3>3
  <2> QED
    BY <2>3, <2>4
<1>5. DOMAIN MapOf(e) = Keys /\ DOMAIN MapOf(d) = Keys
  BY DEF MapOf
<1>6. MapOf(e) = [k \in Keys |-> MapOf(e)[k]] /\ MapOf(d) = [k \in Keys |-> MapOf(d)[k]]
  BY DEF MapOf
<1> QED
  BY <1>1, <1>3, <1>4, <1>5, <1>6 DEF SetKey

\* Two tables of the same items are one map.
LEMMA MapOfItems ==
    ASSUME NEW d, NEW e, Unique(d), Unique(e), ItemsOf(d) = ItemsOf(e)
    PROVE  MapOf(d) = MapOf(e)
<1>1. ASSUME NEW k \in Keys PROVE MapOf(d)[k] = MapOf(e)[k]
  <2>1. ASSUME NEW b \in Holds(d, k) PROVE \E c \in Holds(e, k) : e[c] = d[b]
    <3>1. d[b] \in ItemsOf(e) /\ d[b].key = k
      BY DEF Holds, ItemsOf
    <3> QED
      BY <3>1 DEF Holds, ItemsOf
  <2>2. ASSUME NEW c \in Holds(e, k) PROVE \E b \in Holds(d, k) : d[b] = e[c]
    <3>1. e[c] \in ItemsOf(d) /\ e[c].key = k
      BY DEF Holds, ItemsOf
    <3> QED
      BY <3>1 DEF Holds, ItemsOf
  <2>3. CASE Holds(d, k) = {}
    <3>1. Holds(e, k) = {}
      BY <2>2, <2>3
    <3> QED
      BY <2>3, <3>1 DEF MapOf
  <2>4. CASE Holds(d, k) # {}
    <3>1. PICK b \in Holds(d, k) : TRUE
      BY <2>4
    <3>2. PICK c \in Holds(e, k) : e[c] = d[b]
      BY <2>1, <3>1
    <3>3. MapOf(d)[k] = d[b].value /\ MapOf(e)[k] = e[c].value
      BY <3>1, <3>2, MapAt
    <3> QED
      BY <3>2, <3>3
  <2> QED
    BY <2>3, <2>4
<1>2. MapOf(d) = [k \in Keys |-> MapOf(d)[k]] /\ MapOf(e) = [k \in Keys |-> MapOf(e)[k]]
  BY DEF MapOf
<1> QED
  BY <1>1, <1>2

\* An empty table is the empty map.
LEMMA MapOfEmpty ==
    ASSUME NEW n \in Nat \ {0}
    PROVE  MapOf(EmptyTable(n)) = [k \in Keys |-> None]
BY EmptyReachable DEF MapOf

\* The initial table is the initial map.
LEMMA RefineInit == IInv /\ Init => Map!Init
<1> SUFFICES ASSUME IInv, Init PROVE Map!Init
  OBVIOUS
<1>1. dict = EmptyTable(dict_size) /\ dict_size \in Nat \ {0}
  BY DEF Init, IInv, TableInv
<1>2. MapOf(dict) = [k \in Keys |-> None]
  BY <1>1, MapOfEmpty
<1> QED
  BY <1>2 DEF Init, Map!Init, MapOf

\* The calls and the answer are not None.
LEMMA NotNone ==
    /\ \A c \in Calls : c # None /\ c.key \in Keys
    /\ \A a \in Answers : a # None
BY NoneAssumption DEF Calls, Answers

\* GetItem takes effect where it ends: at the bucket of its key, or at an empty
\* one, and then no bucket has it.
LEMMA RefineGet == IInv /\ GetItem => Map!TakeEffect
<1> SUFFICES ASSUME IInv, GetItem PROVE Map!TakeEffect
  OBVIOUS
<1> DEFINE k == call.key
<1>1. /\ pc = "probe" /\ call.op = "GetItem" /\ dict' = dict /\ call' = call
      /\ call \in Calls /\ result = None
  BY DEF GetItem, table, IInv, CallInv
<1>2. call # None /\ k \in Keys
  BY <1>1, NotNone
<1>3. dict_size \in Nat \ {0} /\ dict \in Tables(dict_size) /\ Reachable(dict) /\ Unique(dict)
  BY DEF IInv, TableInv
<1>4. result' = [hit |-> MapOf(dict)[k] # None, value |-> MapOf(dict)[k]]
  <2>1. CASE dict[bucket] = None /\ result' = [hit |-> FALSE, value |-> None]
    <3>1. PICK i \in 0 .. dict_size - 1 :
             /\ bucket = Nth(k, dict_size, i)
             /\ \A j \in 0 .. i - 1 : Nth(k, dict_size, j) \notin Holds(dict, k)
      BY <1>1 DEF IInv, ProbeInv
    <3>2. Holds(dict, k) = {}
      BY <1>2, <1>3, <2>1, <3>1, AbsentAtEmpty
    <3>3. MapOf(dict)[k] = None
      BY <1>2, <3>2 DEF MapOf
    <3> QED
      BY <2>1, <3>3
  <2>2. CASE bucket \in Holds(dict, k) /\ result' = [hit |-> TRUE, value |-> dict[bucket].value]
    <3>1. MapOf(dict)[k] = dict[bucket].value
      BY <1>2, <1>3, <2>2, MapAt
    <3>2. dict[bucket] \in Buckets /\ dict[bucket] # None
      BY <1>3, <2>2, TableSize DEF Holds, Tables
    <3>3. dict[bucket].value # None
      BY <3>2, ItemType, NoneAssumption
    <3> QED
      BY <2>2, <3>1, <3>3
  <2> QED
    BY <2>1, <2>2 DEF GetItem
<1>5. MapOf(dict') = MapOf(dict)
  BY <1>1
<1>6. Map!GetItem
  BY <1>1, <1>4, <1>5 DEF Map!GetItem, MapOf
<1> QED
  BY <1>1, <1>2, <1>6 DEF Map!TakeEffect

\* Overwrite and Fill set the value of the call's key.
LEMMA RefineOverwrite == IInv /\ Overwrite => Map!TakeEffect
<1> SUFFICES ASSUME IInv, Overwrite PROVE Map!TakeEffect
  OBVIOUS
<1> DEFINE x == [key |-> call.key, value |-> call.value]
<1>1. /\ pc = "probe" /\ call.op \in {"AddItem", "ModifyItem"} /\ call' = call
      /\ call \in Calls /\ result = None
      /\ result' = [hit |-> call.op = "ModifyItem", value |-> None]
  BY DEF Overwrite, IInv, CallInv
<1>2. call # None /\ call.key \in Keys
  BY <1>1, NotNone
<1>3. dict_size \in Nat \ {0} /\ dict \in Tables(dict_size) /\ Reachable(dict) /\ Unique(dict)
  BY DEF IInv, TableInv
<1>4. /\ x \in Items /\ dict' = [dict EXCEPT ![bucket] = x]
      /\ bucket \in Holds(dict, call.key) /\ bucket \in 0 .. dict_size - 1
      /\ dict[bucket] # None /\ dict[bucket].key = x.key
      /\ x.key = call.key /\ x.value = call.value
  BY OverwriteIs
<1> HIDE DEF x
<1>5. Unique(dict')
  BY OverwriteInv DEF IInv, TableInv
<1>6. MapOf(dict') = [MapOf(dict) EXCEPT ![call.key] = call.value]
  <2>1. /\ dict_size \in Nat \ {0} /\ dict \in Tables(dict_size) /\ x \in Items
        /\ bucket \in 0 .. dict_size - 1
        /\ dict[bucket] # None => dict[bucket].key = x.key
        /\ Unique(dict) /\ dict' = Put(dict, bucket, x) /\ Unique(dict')
    BY <1>3, <1>4, <1>5 DEF Put
  <2>2. MapOf(dict') = SetKey(MapOf(dict), x.key, x.value)
    BY <2>1, MapPut
  <2> QED
    BY <1>4, <2>2 DEF SetKey
<1>7. MapOf(dict)[call.key] # None
  <2>1. MapOf(dict)[call.key] = dict[bucket].value
    BY <1>2, <1>3, <1>4, MapAt
  <2>2. dict[bucket] \in Buckets
    BY <1>3, <1>4 DEF Tables
  <2> QED
    BY <1>4, <2>1, <2>2, ItemType, NoneAssumption
<1>8. CASE call.op = "AddItem"
  <2>1. result' = [hit |-> FALSE, value |-> None]
    BY <1>1, <1>8
  <2>2. Map!AddItem
    BY <1>6, <1>7, <1>8, <2>1 DEF Map!AddItem, MapOf
  <2> QED
    BY <1>1, <1>2, <2>2 DEF Map!TakeEffect
<1>9. CASE call.op = "ModifyItem"
  <2>1. result' = [hit |-> TRUE, value |-> None]
    BY <1>1, <1>9
  <2>2. Map!ModifyItem
    BY <1>6, <1>7, <1>9, <2>1 DEF Map!ModifyItem, MapOf
  <2> QED
    BY <1>1, <1>2, <2>2 DEF Map!TakeEffect
<1> QED
  BY <1>1, <1>8, <1>9

\* Fill is an AddItem of a key that is new.
LEMMA RefineFill == IInv /\ Fill => Map!TakeEffect
<1> SUFFICES ASSUME IInv, Fill PROVE Map!TakeEffect
  OBVIOUS
<1> DEFINE x == [key |-> call.key, value |-> call.value]
<1>1. /\ pc = "probe" /\ call.op = "AddItem" /\ call' = call
      /\ call \in Calls /\ result = None /\ result' = [hit |-> TRUE, value |-> None]
  BY DEF Fill, IInv, CallInv
<1>2. call # None /\ call.key \in Keys
  BY <1>1, NotNone
<1>3. dict_size \in Nat \ {0} /\ dict \in Tables(dict_size) /\ Unique(dict)
  BY DEF IInv, TableInv
<1>4. /\ x \in Items /\ dict' = [dict EXCEPT ![bucket] = x]
      /\ bucket \in 0 .. dict_size - 1 /\ dict[bucket] = None
      /\ Holds(dict, x.key) = {} /\ Unique(dict')
      /\ x.key = call.key /\ x.value = call.value
  BY FillTable
<1> HIDE DEF x
<1>5. MapOf(dict') = [MapOf(dict) EXCEPT ![call.key] = call.value]
  <2>1. /\ dict_size \in Nat \ {0} /\ dict \in Tables(dict_size) /\ x \in Items
        /\ bucket \in 0 .. dict_size - 1
        /\ dict[bucket] # None => dict[bucket].key = x.key
        /\ Unique(dict) /\ dict' = Put(dict, bucket, x) /\ Unique(dict')
    BY <1>3, <1>4 DEF Put
  <2>2. MapOf(dict') = SetKey(MapOf(dict), x.key, x.value)
    BY <2>1, MapPut
  <2> QED
    BY <1>4, <2>2 DEF SetKey
<1>6. MapOf(dict)[call.key] = None
  BY <1>2, <1>4 DEF MapOf
<1>7. Map!AddItem
  BY <1>1, <1>5, <1>6 DEF Map!AddItem, MapOf
<1> QED
  BY <1>1, <1>2, <1>7 DEF Map!TakeEffect

\* Probing and resizing leave the map alone.
LEMMA RefineStutter ==
    IInv /\ (Probe \/ Resize \/ Move \/ Replace) => UNCHANGED <<MapOf(dict), call, result>>
<1> SUFFICES ASSUME IInv, Probe \/ Resize \/ Move \/ Replace
             PROVE  MapOf(dict') = MapOf(dict) /\ call' = call /\ result' = result
  OBVIOUS
<1>1. CASE Probe \/ Resize \/ Move
  BY <1>1 DEF Probe, Resize, Move, table
<1>2. CASE Replace
  <2>1. Unique(dict') /\ ItemsOf(dict') = ItemsOf(dict)
    BY <1>2, AllMoved
  <2>2. Unique(dict)
    BY DEF IInv, TableInv
  <2>3. MapOf(dict') = MapOf(dict)
    BY <2>1, <2>2, MapOfItems
  <2> QED
    BY <1>2, <2>3 DEF Replace
<1> QED
  BY <1>1, <1>2

\* Every step is one of the map, or none.
LEMMA RefineStep == IInv /\ [Next]_vars => [Map!Next]_Map!vars
<1> SUFFICES ASSUME IInv, [Next]_vars PROVE [Map!Next]_Map!vars
  OBVIOUS
<1>1. CASE GetItem \/ Overwrite \/ Fill
  BY <1>1, RefineGet, RefineOverwrite, RefineFill DEF Map!Next
<1>2. CASE Probe \/ Resize \/ Move \/ Replace
  BY <1>2, RefineStutter DEF Map!vars, MapOf
<1>3. CASE Return
  <2>1. /\ result \in Answers /\ dict' = dict /\ call' = None /\ result' = None
    BY <1>3 DEF IInv, CallInv, Return, table
  <2>2. result # None
    BY <2>1, NotNone
  <2>3. Map!Return
    BY <2>1, <2>2 DEF Map!Return
  <2> QED
    BY <2>3 DEF Map!Next
<1>4. CASE Clear
  <2>1. /\ pc = "idle" /\ call = None /\ dict' = EmptyTable(dict_size)
        /\ call' = call /\ result' = result /\ dict_size \in Nat \ {0}
    BY <1>4 DEF IInv, TableInv, CallInv, Clear
  <2>2. MapOf(dict') = [k \in Keys |-> None]
    BY <2>1, MapOfEmpty
  <2>3. Map!Clear
    BY <2>1, <2>2 DEF Map!Clear, MapOf
  <2> QED
    BY <2>3 DEF Map!Next
<1>5. CASE \E c \in Calls : Begin(c)
  <2>1. /\ call = None /\ call' \in Calls /\ dict' = dict /\ result' = result
    BY <1>5 DEF IInv, CallInv, Begin, table
  <2>2. Map!Call
    BY <2>1 DEF Map!Call
  <2> QED
    BY <2>2 DEF Map!Next
<1>6. CASE UNCHANGED vars
  BY <1>6 DEF vars, table, Map!vars
<1> QED
  BY <1>1, <1>2, <1>3, <1>4, <1>5, <1>6 DEF Next, Step

\* Through probing, overwriting, filling and resizing HashDict does what a map
\* does, for its one caller (hash_dict.h:211-480).
THEOREM ImplementsTheMap == Spec => ImplementsMap
<1>1. Init => IInv
  BY InvInit
<1>2. Init => Map!Init
  BY <1>1, RefineInit
<1>3. IInv /\ [Next]_vars => [Map!Next]_Map!vars
  BY RefineStep
<1> QED
  BY <1>2, <1>3, Invariance, PTL DEF Spec, ImplementsMap, Map!Spec

=============================================================================
