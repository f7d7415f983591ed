---------------------------- MODULE KvDictProofs ----------------------------
(***************************************************************************)
(* Proofs about KvDict, for every set of keys, every file and any number   *)
(* of calls.                                                               *)
(***************************************************************************)
EXTENDS KvDict, SequenceTheorems, NaturalsInduction, WellFoundedInduction, TLAPS

\* The part of the type invariant that the records rest on.
RecordsType ==
    /\ m_hash_dict_engine \in [Keys -> Positions]
    /\ m_record_repo \in Seq(Records)
    /\ lines \in Seq(Lines \union {Malformed})

IInv == RecordsType /\ RecordsIndexed

-----------------------------------------------------------------------------
\* Nothing is loaded.
LEMMA InvInit == Init => IInv
<1> SUFFICES ASSUME Init PROVE IInv
  OBVIOUS
<1>1. RecordsType
  BY DEF Init, RecordsType, Positions
<1>2. DOMAIN m_record_repo = {}
  BY DEF Init
<1>3. RecordsIndexed
  BY <1>2 DEF Init, RecordsIndexed
<1> QED
  BY <1>1, <1>3 DEF IInv

\* A record for a new key goes behind those there are, and no other record has
\* its key: one would have left the key a position.
LEMMA InsertInv ==
    ASSUME IInv, NEW t \in Texts, NEW k \in Keys, NEW v \in Values,
           ~ Exists(k), Insert(t, k, v)
    PROVE  /\ m_hash_dict_engine' \in [Keys -> Positions]
           /\ m_record_repo' \in Seq(Records)
           /\ RecordsIndexed'
           /\ \A j \in Keys : Exists(j) =>
                 /\ m_hash_dict_engine'[j] = m_hash_dict_engine[j]
                 /\ m_hash_dict_engine[j] # NegativeOne =>
                       m_record_repo'[m_hash_dict_engine[j]]
                           = m_record_repo[m_hash_dict_engine[j]]
<1> DEFINE n == Len(m_record_repo)
           r == [text |-> t, key |-> k, value |-> v]
<1>1. r \in Records
  BY DEF Records
<1>2. /\ m_record_repo' \in Seq(Records)
      /\ Len(m_record_repo') = n + 1
      /\ \A i \in 1 .. n : m_record_repo'[i] = m_record_repo[i]
      /\ m_record_repo'[n + 1] = r
  BY <1>1, AppendProperties DEF IInv, RecordsType, Insert
<1>3. n \in Nat /\ DOMAIN m_record_repo = 1 .. n
      /\ DOMAIN m_record_repo' = 1 .. n + 1
  BY <1>2, LenProperties DEF IInv, RecordsType
<1>4. m_hash_dict_engine' = [m_hash_dict_engine EXCEPT ![k] = n + 1]
  BY DEF Insert
<1>5. m_hash_dict_engine' \in [Keys -> Positions]
  BY <1>3, <1>4 DEF IInv, RecordsType, Positions
<1>6. /\ m_hash_dict_engine'[k] = n + 1
      /\ \A j \in Keys \ {k} : m_hash_dict_engine'[j] = m_hash_dict_engine[j]
  BY <1>4 DEF IInv, RecordsType
<1>7. \A i \in 1 .. n : m_record_repo[i].key \in Keys \ {k}
  <2> SUFFICES ASSUME NEW i \in 1 .. n PROVE m_record_repo[i].key \in Keys \ {k}
    OBVIOUS
  <2>1. m_record_repo[i] \in Records
    BY <1>3, ElementOfSeq DEF IInv, RecordsType
  <2>2. m_hash_dict_engine[m_record_repo[i].key] \in {i, NegativeOne}
    BY <1>3 DEF IInv, RecordsIndexed
  <2>3. m_hash_dict_engine[k] = None
    BY DEF Exists
  <2>4. None \notin {i, NegativeOne}
    BY NoneAssumption DEF NegativeOne
  <2> QED
    BY <2>1, <2>2, <2>3, <2>4 DEF Records
<1>8. ASSUME NEW j \in Keys, m_hash_dict_engine'[j] \notin {None, NegativeOne}
      PROVE  /\ m_hash_dict_engine'[j] \in DOMAIN m_record_repo'
             /\ m_record_repo'[m_hash_dict_engine'[j]].key = j
  <2>1. CASE j = k
    BY <1>2, <1>3, <1>6, <2>1
  <2>2. CASE j # k
    <3>1. m_hash_dict_engine[j] \in 1 .. n /\ m_record_repo[m_hash_dict_engine[j]].key = j
      BY <1>3, <1>6, <1>8, <2>2 DEF IInv, RecordsIndexed
    <3> QED
      BY <1>2, <1>3, <1>6, <2>2, <3>1
  <2> QED
    BY <2>1, <2>2
<1>9. ASSUME NEW i \in DOMAIN m_record_repo'
      PROVE  m_hash_dict_engine'[m_record_repo'[i].key] \in {i, NegativeOne}
  <2>1. CASE i = n + 1
    BY <1>2, <1>6, <2>1
  <2>2. CASE i \in 1 .. n
    <3>1. m_hash_dict_engine[m_record_repo[i].key] \in {i, NegativeOne}
      BY <1>3, <2>2 DEF IInv, RecordsIndexed
    <3> QED
      BY <1>2, <1>6, <1>7, <2>2, <3>1
  <2> QED
    BY <1>3, <1>9, <2>1, <2>2
<1>10. RecordsIndexed'
  BY <1>8, <1>9 DEF RecordsIndexed, NegativeOne
<1>11. ASSUME NEW j \in Keys, Exists(j)
       PROVE  /\ m_hash_dict_engine'[j] = m_hash_dict_engine[j]
              /\ m_hash_dict_engine[j] # NegativeOne =>
                    m_record_repo'[m_hash_dict_engine[j]]
                        = m_record_repo[m_hash_dict_engine[j]]
  <2>1. m_hash_dict_engine'[j] = m_hash_dict_engine[j]
    BY <1>6, <1>11
  <2>2. m_hash_dict_engine[j] # NegativeOne => m_hash_dict_engine[j] \in 1 .. n
    BY <1>3, <1>11 DEF IInv, RecordsIndexed, Exists
  <2> QED
    BY <1>2, <2>1, <2>2
<1> QED
  BY <1>2, <1>5, <1>10, <1>11

\* A line of the file adds a record, or none, and leaves those there are.
LEMMA LineInv ==
    ASSUME IInv, ReadLine
    PROVE  /\ IInv'
           /\ \A j \in Keys : Exists(j) =>
                 /\ m_hash_dict_engine'[j] = m_hash_dict_engine[j]
                 /\ m_hash_dict_engine[j] # NegativeOne =>
                       m_record_repo'[m_hash_dict_engine[j]]
                           = m_record_repo[m_hash_dict_engine[j]]
<1> DEFINE line == Head(lines)
<1>1. line \in Lines \union {Malformed} /\ lines' \in Seq(Lines \union {Malformed})
  BY HeadTailProperties DEF IInv, RecordsType, ReadLine
<1>2. CASE UNCHANGED dict
  BY <1>1, <1>2 DEF IInv, RecordsType, RecordsIndexed, dict
<1>3. CASE /\ line \in Lines /\ ~ Exists(line.text)
           /\ Insert(line.text, line.text, line.value)
  <2>1. line.text \in Texts /\ line.text \in Keys /\ line.value \in Values
    BY <1>3, KeyAssumption DEF Lines
  <2> QED
    BY <1>1, <1>3, <2>1, InsertInv DEF IInv, RecordsType
<1> QED
  BY <1>1, <1>2, <1>3 DEF ReadLine, Add

\* Set of a key that is there writes a value and moves nothing; of another it
\* is an Add.
LEMMA SetInv ==
    ASSUME IInv, NEW t \in Texts, NEW v \in Values, Set(t, v)
    PROVE  IInv'
<1> DEFINE k == QueryKey[t]
           i == m_hash_dict_engine[k]
<1>1. k \in Keys
  BY KeyAssumption
<1>2. UNCHANGED lines
  BY DEF Set
<1>3. CASE ~ Exists(k) /\ Insert(t, k, v)
  BY <1>1, <1>2, <1>3, InsertInv DEF IInv, RecordsType
<1>4. CASE /\ Exists(k) /\ i # NegativeOne
           /\ m_record_repo' = [m_record_repo EXCEPT ![i].value = v]
           /\ UNCHANGED m_hash_dict_engine
  <2> DEFINE n == Len(m_record_repo)
             r == [m_record_repo[i] EXCEPT !.value = v]
  <2>1. n \in Nat /\ DOMAIN m_record_repo = 1 .. n
    BY LenProperties DEF IInv, RecordsType
  <2>2. i \in 1 .. n
    BY <1>1, <1>4, <2>1 DEF IInv, RecordsIndexed, Exists
  <2>3. m_record_repo[i] \in Records
    BY <2>2, ElementOfSeq DEF IInv, RecordsType
  <2>4. r \in Records /\ r.key = m_record_repo[i].key
    BY <2>3 DEF Records
  <2>5. m_record_repo' = [m_record_repo EXCEPT ![i] = r]
    BY <1>4
  <2>6. m_record_repo' \in Seq(Records) /\ Len(m_record_repo') = n
    BY <2>2, <2>4, <2>5, ExceptSeq DEF IInv, RecordsType
  <2>7. DOMAIN m_record_repo' = 1 .. n
    BY <2>1, <2>5
  <2>8. \A j \in 1 .. n : m_record_repo'[j].key = m_record_repo[j].key
    BY <2>1, <2>4, <2>5
  <2>9. RecordsIndexed'
    BY <1>4, <2>1, <2>7, <2>8 DEF IInv, RecordsIndexed, NegativeOne
  <2> QED
    BY <1>2, <1>4, <2>6, <2>9 DEF IInv, RecordsType
<1>5. CASE UNCHANGED dict
  BY <1>2, <1>5 DEF IInv, RecordsType, RecordsIndexed, dict
<1> QED
  BY <1>3, <1>4, <1>5 DEF Set

\* Del takes the position of a key away and leaves its record.
LEMMA DelInv ==
    ASSUME IInv, NEW t \in Texts, Del(t)
    PROVE  IInv'
<1> DEFINE k == QueryKey[t]
<1>1. k \in Keys
  BY KeyAssumption
<1>2. UNCHANGED lines
  BY DEF Del
<1>3. CASE /\ m_hash_dict_engine' = [m_hash_dict_engine EXCEPT ![k] = NegativeOne]
           /\ UNCHANGED m_record_repo
  <2>1. /\ m_hash_dict_engine' \in [Keys -> Positions]
        /\ m_hash_dict_engine'[k] = NegativeOne
        /\ \A j \in Keys \ {k} : m_hash_dict_engine'[j] = m_hash_dict_engine[j]
    BY <1>1, <1>3 DEF IInv, RecordsType, Positions, NegativeOne
  <2>2. ASSUME NEW i \in DOMAIN m_record_repo PROVE m_record_repo[i].key \in Keys
    <3>1. DOMAIN m_record_repo = 1 .. Len(m_record_repo)
      BY LenProperties DEF IInv, RecordsType
    <3>2. m_record_repo[i] \in Records
      BY <3>1, ElementOfSeq DEF IInv, RecordsType
    <3> QED
      BY <3>2 DEF Records
  <2>3. RecordsIndexed'
    BY <1>3, <2>1, <2>2 DEF IInv, RecordsIndexed, NegativeOne
  <2> QED
    BY <1>2, <1>3, <2>1, <2>3 DEF IInv, RecordsType
<1>4. CASE UNCHANGED dict
  BY <1>2, <1>4 DEF IInv, RecordsType, RecordsIndexed, dict
<1> QED
  BY <1>3, <1>4 DEF Del

\* The other calls leave map and vector alone, or are an Add.
LEMMA OtherInv ==
    ASSUME IInv,
           \/ LoadOpenFails \/ EndOfFile \/ Dump \/ UNCHANGED vars
           \/ \E f \in Files : Load(f) \/ Reload(f)
           \/ \E t \in Texts : Get(t)
           \/ \E t \in Texts, v \in Values : AddCall(t, v)
    PROVE  IInv'
<1>1. CASE UNCHANGED <<dict, lines>>
  BY <1>1 DEF IInv, RecordsType, RecordsIndexed, dict
<1>2. CASE LoadOpenFails \/ EndOfFile \/ Dump \/ UNCHANGED vars \/ \E t \in Texts : Get(t)
  BY <1>1, <1>2 DEF LoadOpenFails, EndOfFile, Dump, Get, vars
<1>3. ASSUME NEW f \in Files, Load(f) \/ Reload(f) PROVE IInv'
  <2>1. lines' \in Seq(Lines \union {Malformed}) /\ UNCHANGED dict
    BY <1>3, LoadAssumption DEF Load, Reload
  <2> QED
    BY <2>1 DEF IInv, RecordsType, RecordsIndexed, dict
<1>4. ASSUME NEW t \in Texts, NEW v \in Values, AddCall(t, v) PROVE IInv'
  <2>1. QueryKey[t] \in Keys
    BY KeyAssumption
  <2>2. CASE Exists(QueryKey[t])
    BY <1>1, <1>4, <2>2 DEF AddCall, Add
  <2>3. CASE ~ Exists(QueryKey[t])
    <3>1. Insert(t, QueryKey[t], v) /\ UNCHANGED lines
      BY <1>4, <2>3 DEF AddCall, Add
    <3> QED
      BY <2>1, <2>3, <3>1, InsertInv DEF IInv, RecordsType
  <2> QED
    BY <2>2, <2>3
<1> QED
  BY <1>2, <1>3, <1>4

-----------------------------------------------------------------------------
\* The invariant holds in every state that can be reached.
THEOREM InvariantHolds == Spec => []IInv
<1>1. IInv /\ [Next]_vars => IInv'
  BY LineInv, SetInv, DelInv, OtherInv DEF Next
<1> QED
  BY <1>1, InvInit, PTL DEF Spec

\* The position map and the record vector of CKvDict agree, whatever is
\* loaded, set, added, deleted and reloaded, in any order.
THEOREM MapAndVectorAgree == Spec => []RecordsIndexed
<1>1. IInv => RecordsIndexed
  BY DEF IInv
<1> QED
  BY <1>1, InvariantHolds, PTL

\* Reading the file again (CMatchEngineUnit::Reload) changes no key that is
\* there: what was set or added keeps its value, what was deleted stays so.
THEOREM ReloadsKeep == Spec => ReloadKeeps
<1> DEFINE Keeps ==
       unit = "read" =>
          \A k \in Keys : Exists(k) =>
              /\ m_hash_dict_engine'[k] = m_hash_dict_engine[k]
              /\ m_hash_dict_engine[k] # NegativeOne =>
                    m_record_repo'[m_hash_dict_engine[k]]
                        = m_record_repo[m_hash_dict_engine[k]]
<1>1. IInv /\ [Next]_vars => [Keeps]_vars
  <2> SUFFICES ASSUME IInv, Next, unit = "read" PROVE Keeps
    OBVIOUS
  <2>1. CASE ReadLine
    BY <2>1, LineInv
  <2>2. CASE EndOfFile
    BY <2>2 DEF EndOfFile, dict
  <2> QED
    BY <2>1, <2>2
       DEF Next, LoadOpenFails, Dump, Load, Reload, Del, Get, Set, AddCall, Call
<1> QED
  BY <1>1, InvariantHolds, PTL DEF Spec, ReloadKeeps
-----------------------------------------------------------------------------
\* A function on 1..n is a sequence of length n.
LEMMA FunctionIsSeq ==
    ASSUME NEW S, NEW n \in Nat, NEW f \in [1 .. n -> S]
    PROVE  f \in Seq(S) /\ Len(f) = n
<1>1. f \in Seq(S)
  BY SeqDef
<1>2. DOMAIN f = 1 .. n /\ DOMAIN f = 1 .. Len(f) /\ Len(f) \in Nat
  BY <1>1, LenProperties
<1> QED
  BY <1>1, <1>2

-----------------------------------------------------------------------------
(***************************************************************************)
(* The loop of Get.                                                        *)
(***************************************************************************)

\* Where a key leads to a record.
Leads(k) == Exists(k) /\ m_hash_dict_engine[k] # NegativeOne

\* The n-th turn of the loop, when h[n - 1] are the hits before it.
Turn(keys, h, n) ==
    IF n = 0 THEN <<>>
    ELSE IF Leads(keys[n]) THEN Append(h[n - 1], keys[n]) ELSE h[n - 1]

\* h are those of the first m keys that lead to a record, by rising position.
Selects(keys, m, h) ==
    \E n \in 0 .. m : \E at \in [1 .. n -> 1 .. m] :
        /\ \A i, j \in 1 .. n : i < j => at[i] < at[j]
        /\ \A i \in 1 .. n : Leads(keys[at[i]])
        /\ \A p \in 1 .. m : Leads(keys[p]) => \E i \in 1 .. n : at[i] = p
        /\ h = [i \in 1 .. n |-> keys[at[i]]]

\* A set of numbers that is not empty has a least one.
LEMMA LeastNumber ==
    ASSUME NEW S \in SUBSET Nat, S # {}
    PROVE  \E m \in S : \A n \in S : ~ (n < m)
<1>1. PICK m \in S : \A n \in S : ~ (<<n, m>> \in OpToRel(<, Nat))
  BY WFMin, NatLessThanWellFounded
<1>2. \A n \in S : ~ (n < m)
  BY <1>1 DEF OpToRel
<1> QED
  BY <1>2

\* The recursion that stands for the loop has a solution.
LEMMA LoopRuns ==
    ASSUME NEW keys \in Seq(Keys)
    PROVE  \E h : h = [n \in 0 .. Len(keys) |-> Turn(keys, h, n)]
<1> DEFINE Runs(m) == \E h : h = [n \in 0 .. m |-> Turn(keys, h, n)]
           Stuck == {m \in 0 .. Len(keys) : ~ Runs(m)}
<1>1. Len(keys) \in Nat
  BY LenProperties
<1>2. Runs(0)
  <2>1. PICK h : h = [n \in 0 .. 0 |-> <<>>]
    OBVIOUS
  <2>2. \A n \in 0 .. 0 : Turn(keys, h, n) = <<>>
    BY DEF Turn
  <2> QED
    BY <2>1, <2>2
<1>3. ASSUME NEW m \in 1 .. Len(keys), Runs(m - 1) PROVE Runs(m)
  <2>1. PICK h : h = [n \in 0 .. m - 1 |-> Turn(keys, h, n)]
    BY <1>3
  <2>2. PICK g : g = [n \in 0 .. m |-> IF n < m THEN h[n] ELSE Turn(keys, h, m)]
    OBVIOUS
  <2>3. ASSUME NEW n \in 0 .. m PROVE g[n] = Turn(keys, g, n)
    <3>1. n # 0 => n - 1 \in 0 .. m - 1 /\ g[n - 1] = h[n - 1]
      BY <2>2
    <3>2. Turn(keys, g, n) = Turn(keys, h, n)
      BY <3>1 DEF Turn
    <3>3. CASE n < m
      <4>1. n \in 0 .. m - 1
        BY <3>3
      <4> QED
        BY <2>1, <2>2, <3>2, <3>3, <4>1
    <3>4. CASE n = m
      BY <2>2, <3>2, <3>4
    <3> QED
      BY <3>3, <3>4
  <2>4. g = [n \in 0 .. m |-> Turn(keys, g, n)]
    BY <2>2, <2>3
  <2> QED
    BY <2>4
<1> HIDE DEF Runs
<1>4. Stuck = {}
  <2> SUFFICES ASSUME Stuck # {} PROVE FALSE
    OBVIOUS
  <2>1. Stuck \in SUBSET Nat
    BY <1>1
  <2>2. PICK m \in Stuck : \A n \in Stuck : ~ (n < m)
    BY <2>1, LeastNumber
  <2>3. m \in 1 .. Len(keys) /\ m - 1 \in 0 .. Len(keys) /\ m - 1 < m
    BY <1>1, <1>2, <2>2
  <2>4. Runs(m - 1)
    BY <2>2, <2>3
  <2> QED
    BY <1>3, <2>2, <2>3, <2>4
<1>5. Runs(Len(keys))
  BY <1>1, <1>4
<1> QED
  BY <1>5 DEF Runs

\* One turn adds its key to the hits if that leads to a record.
LEMMA TurnSelects ==
    ASSUME NEW keys \in Seq(Keys), NEW m \in 1 .. Len(keys), NEW h,
           Selects(keys, m - 1, h)
    PROVE  Selects(keys, m, IF Leads(keys[m]) THEN Append(h, keys[m]) ELSE h)
<1>1. m \in Nat /\ m - 1 \in Nat
  BY LenProperties
<1>2. PICK n \in 0 .. m - 1 : \E at \in [1 .. n -> 1 .. m - 1] :
        /\ \A i, j \in 1 .. n : i < j => at[i] < at[j]
        /\ \A i \in 1 .. n : Leads(keys[at[i]])
        /\ \A p \in 1 .. m - 1 : Leads(keys[p]) => \E i \in 1 .. n : at[i] = p
        /\ h = [i \in 1 .. n |-> keys[at[i]]]
  BY DEF Selects
<1>3. PICK at \in [1 .. n -> 1 .. m - 1] :
        /\ \A i, j \in 1 .. n : i < j => at[i] < at[j]
        /\ \A i \in 1 .. n : Leads(keys[at[i]])
        /\ \A p \in 1 .. m - 1 : Leads(keys[p]) => \E i \in 1 .. n : at[i] = p
        /\ h = [i \in 1 .. n |-> keys[at[i]]]
  BY <1>2
<1>4. \A i \in 1 .. n : at[i] \in 1 .. m - 1 /\ at[i] \in 1 .. m
  BY <1>1
<1>5. \A p \in 1 .. m : p \in 1 .. m - 1 \/ p = m
  BY <1>1
<1>6. CASE ~ Leads(keys[m])
  <2>1. n \in 0 .. m /\ at \in [1 .. n -> 1 .. m]
    BY <1>1, <1>4
  <2>2. \A p \in 1 .. m : Leads(keys[p]) => \E i \in 1 .. n : at[i] = p
    BY <1>3, <1>5, <1>6
  <2> QED
    BY <1>3, <1>6, <2>1, <2>2 DEF Selects
<1>7. CASE Leads(keys[m])
  <2>1. PICK bt : bt = [i \in 1 .. n + 1 |-> IF i = n + 1 THEN m ELSE at[i]]
    OBVIOUS
  <2>2. n + 1 \in 0 .. m /\ n + 1 \in 1 .. n + 1
        /\ \A i \in 1 .. n + 1 : i \in 1 .. n \/ i = n + 1
    BY <1>1
  <2>3. bt[n + 1] = m /\ \A i \in 1 .. n : bt[i] = at[i]
    BY <1>1, <2>1
  <2>4. bt \in [1 .. n + 1 -> 1 .. m]
    BY <1>1, <1>4, <2>1, <2>2, <2>3
  <2>5. ASSUME NEW i \in 1 .. n + 1, NEW j \in 1 .. n + 1, i < j PROVE bt[i] < bt[j]
    <3>1. i \in 1 .. n
      BY <2>5
    <3>2. CASE j = n + 1
      BY <1>1, <1>4, <2>3, <3>1, <3>2
    <3>3. CASE j \in 1 .. n
      BY <1>3, <2>3, <2>5, <3>1, <3>3
    <3> QED
      BY <2>2, <3>2, <3>3
  <2>6. \A i \in 1 .. n + 1 : Leads(keys[bt[i]])
    BY <1>3, <1>7, <2>2, <2>3
  <2>7. ASSUME NEW p \in 1 .. m, Leads(keys[p]) PROVE \E i \in 1 .. n + 1 : bt[i] = p
    <3>1. CASE p = m
      BY <2>2, <2>3, <3>1
    <3>2. CASE p \in 1 .. m - 1
      <4>1. PICK i \in 1 .. n : at[i] = p
        BY <1>3, <2>7, <3>2
      <4> QED
        BY <2>3, <4>1
    <3> QED
      BY <1>5, <3>1, <3>2
  <2>8. Append(h, keys[m]) = [i \in 1 .. n + 1 |-> keys[bt[i]]]
    <3>1. m \in 1 .. Len(keys) /\ keys[m] \in Keys
      BY ElementOfSeq
    <3>2. \A i \in 1 .. n : at[i] \in 1 .. Len(keys)
      BY <1>1, <1>4, LenProperties
    <3>3. h \in [1 .. n -> Keys]
      BY <1>3, <3>2, ElementOfSeq
    <3>4. h \in Seq(Keys) /\ Len(h) = n
      BY <3>3, FunctionIsSeq
    <3>5. PICK g : g = Append(h, keys[m])
      OBVIOUS
    <3>6. /\ g \in Seq(Keys) /\ Len(g) = n + 1 /\ g[n + 1] = keys[m]
          /\ \A i \in 1 .. n : g[i] = h[i]
      BY <3>1, <3>4, <3>5, AppendProperties
    <3>7. g \in [1 .. n + 1 -> Keys]
      BY <3>6, LenProperties
    <3>8. \A i \in 1 .. n + 1 : g[i] = keys[bt[i]]
      BY <1>3, <2>2, <2>3, <3>6
    <3>9. g = [i \in 1 .. n + 1 |-> keys[bt[i]]]
      BY <3>7, <3>8
    <3> QED
      BY <3>5, <3>9
  <2> QED
    BY <1>7, <2>2, <2>4, <2>5, <2>6, <2>7, <2>8 DEF Selects
<1> QED
  BY <1>6, <1>7

\* Get finds the keys it asks for that lead to a record, all of them, once, in
\* the order it asks for them.
LEMMA HitsSelect ==
    ASSUME NEW t \in Texts
    PROVE  Selects(Tokens[QueryKey[t]], Len(Tokens[QueryKey[t]]), Hits(t))
<1>1. PICK keys : keys = Tokens[QueryKey[t]]
  OBVIOUS
<1>2. keys \in Seq(Keys) /\ Len(keys) \in Nat
  BY <1>1, KeyAssumption, LenProperties
<1>3. PICK h : h = CHOOSE g : g = [n \in 0 .. Len(keys) |-> Turn(keys, g, n)]
  OBVIOUS
<1>4. h = [n \in 0 .. Len(keys) |-> Turn(keys, h, n)]
  BY <1>2, <1>3, LoopRuns
<1>5. Hits(t) = h[Len(keys)]
  BY <1>1, <1>3 DEF Hits, Turn, Leads
<1> DEFINE Stuck == {m \in 0 .. Len(keys) : ~ Selects(keys, m, h[m])}
<1>6. Selects(keys, 0, h[0])
  <2>1. h[0] = <<>>
    BY <1>2, <1>4 DEF Turn
  <2>2. PICK at : at = [i \in 1 .. 0 |-> i]
    OBVIOUS
  <2>3. at \in [1 .. 0 -> 1 .. 0] /\ h[0] = [i \in 1 .. 0 |-> keys[at[i]]]
    BY <2>1, <2>2
  <2>4. PICK none : none = 1 .. 0
    OBVIOUS
  <2>5. none = {}
    BY <2>4
  <2>6. \E n \in 0 .. 0 : \E a \in [1 .. n -> 1 .. 0] :
           /\ \A i, j \in 1 .. n : i < j => a[i] < a[j]
           /\ \A i \in 1 .. n : Leads(keys[a[i]])
           /\ \A p \in 1 .. 0 : Leads(keys[p]) => \E i \in 1 .. n : a[i] = p
           /\ h[0] = [i \in 1 .. n |-> keys[a[i]]]
    <3> 0 \in 0 .. 0 /\ at \in [1 .. 0 -> 1 .. 0]
      BY <2>3
    <3> WITNESS 0 \in 0 .. 0
    <3> WITNESS at \in [1 .. 0 -> 1 .. 0]
    <3> QED
      BY <2>3, <2>4, <2>5
  <2> QED
    BY <2>6 DEF Selects
<1>7. ASSUME NEW m \in 1 .. Len(keys), Selects(keys, m - 1, h[m - 1])
      PROVE  Selects(keys, m, h[m])
  <2>1. m \in 0 .. Len(keys) /\ m # 0
    BY <1>2
  <2>2. h[m] = Turn(keys, h, m)
    BY <1>4, <2>1
  <2>3. h[m] = IF Leads(keys[m]) THEN Append(h[m - 1], keys[m]) ELSE h[m - 1]
    BY <2>1, <2>2 DEF Turn
  <2>4. PICK g : g = h[m - 1]
    OBVIOUS
  <2>5. Selects(keys, m, IF Leads(keys[m]) THEN Append(g, keys[m]) ELSE g)
    BY <1>2, <1>7, <2>4, TurnSelects
  <2> QED
    BY <2>3, <2>4, <2>5
<1>8. Stuck = {}
  <2> SUFFICES ASSUME Stuck # {} PROVE FALSE
    OBVIOUS
  <2>1. Stuck \in SUBSET Nat
    BY <1>2
  <2>2. PICK m \in Stuck : \A n \in Stuck : ~ (n < m)
    BY <2>1, LeastNumber
  <2>3. m \in 1 .. Len(keys) /\ m - 1 \in 0 .. Len(keys) /\ m - 1 < m
    BY <1>2, <1>6, <2>2
  <2>4. Selects(keys, m - 1, h[m - 1])
    BY <2>2, <2>3
  <2> QED
    BY <1>7, <2>2, <2>3, <2>4
<1> QED
  BY <1>1, <1>2, <1>5, <1>8
\* A Get answers with values, one for every key that leads to a record.
LEMMA AnswerTyped ==
    ASSUME IInv, NEW t \in Texts
    PROVE  Answer(t) \in Seq(Values)
<1>1. PICK keys : keys = Tokens[QueryKey[t]]
  OBVIOUS
<1>2. keys \in Seq(Keys) /\ Len(keys) \in Nat
  BY <1>1, KeyAssumption, LenProperties
<1>3. PICK n \in 0 .. Len(keys) : \E at \in [1 .. n -> 1 .. Len(keys)] :
        /\ \A i \in 1 .. n : Leads(keys[at[i]])
        /\ Hits(t) = [i \in 1 .. n |-> keys[at[i]]]
  <2>1. PICK h : h = Hits(t)
    OBVIOUS
  <2>2. Selects(keys, Len(keys), h)
    BY <1>1, <2>1, HitsSelect
  <2>3. \E n \in 0 .. Len(keys) : \E at \in [1 .. n -> 1 .. Len(keys)] :
           /\ \A i \in 1 .. n : Leads(keys[at[i]])
           /\ h = [i \in 1 .. n |-> keys[at[i]]]
    BY <2>2, Zenon DEF Selects
  <2> QED
    BY <2>1, <2>3
<1>4. PICK at \in [1 .. n -> 1 .. Len(keys)] :
        /\ \A i \in 1 .. n : Leads(keys[at[i]])
        /\ Hits(t) = [i \in 1 .. n |-> keys[at[i]]]
  BY <1>3
<1>5. \A i \in 1 .. n : keys[at[i]] \in Keys /\ Hits(t)[i] = keys[at[i]]
  BY <1>2, <1>4, ElementOfSeq
<1>6. Hits(t) \in [1 .. n -> Keys]
  BY <1>4, <1>5
<1>7. n \in Nat /\ Len(Hits(t)) = n
  BY <1>2, <1>6, FunctionIsSeq
<1>8. ASSUME NEW i \in 1 .. n
      PROVE  m_record_repo[m_hash_dict_engine[Hits(t)[i]]].value \in Values
  <2>1. PICK k \in Keys : k = Hits(t)[i] /\ Leads(k)
    BY <1>4, <1>5
  <2>2. m_hash_dict_engine[k] \in DOMAIN m_record_repo
    BY <2>1 DEF Leads, Exists, IInv, RecordsIndexed
  <2>3. DOMAIN m_record_repo = 1 .. Len(m_record_repo)
    BY LenProperties DEF IInv, RecordsType
  <2>4. m_record_repo[m_hash_dict_engine[k]] \in Records
    BY <2>2, <2>3, ElementOfSeq DEF IInv, RecordsType
  <2> QED
    BY <2>1, <2>4 DEF Records
<1>9. Answer(t) \in [1 .. n -> Values]
  BY <1>7, <1>8 DEF Answer
<1> QED
  BY <1>7, <1>9, FunctionIsSeq

-----------------------------------------------------------------------------
(***************************************************************************)
(* The types.                                                              *)
(***************************************************************************)

\* The count wraps round and so stays a size_t.
LEMMA CountWraps ==
    ASSUME NEW c \in 0 .. SizeRange - 1
    PROVE  /\ (c + 1) % SizeRange \in 0 .. SizeRange - 1
           /\ (c + SizeRange - 1) % SizeRange \in 0 .. SizeRange - 1
<1>1. SizeRange \in Nat \ {0}
  BY BoundAssumption
<1> QED
  BY <1>1

\* The parts of TypeOK that are no concern of the records.
CallsType ==
    /\ m_item_count \in 0 .. SizeRange - 1
    /\ unit \in {"new", "read", "idle", "failed", "crashed"}
    /\ file \in Seq(Lines)
    /\ result \in Results \union {None}
    /\ calls \in 0 .. MaxCalls

\* What a call returns is a result.
LEMMA ReturnTyped ==
    ASSUME NEW rc \in {0, 1, 2}, NEW keys \in Seq(Keys), Return(rc, keys)
    PROVE  result' \in Results
BY DEF Return, Results

\* An Add counts its record, if it makes one.
LEMMA AddTyped ==
    ASSUME CallsType, NEW t, NEW k, NEW v, Add(t, k, v)
    PROVE  m_item_count' \in 0 .. SizeRange - 1
<1>1. CASE UNCHANGED dict
  BY <1>1 DEF CallsType, dict
<1>2. CASE Insert(t, k, v)
  BY <1>2, CountWraps DEF CallsType, Insert
<1> QED
  BY <1>1, <1>2 DEF Add

\* Every step keeps the types.
LEMMA CallsTypeStep == IInv /\ CallsType /\ [Next]_vars => CallsType'
<1> SUFFICES ASSUME IInv, CallsType, [Next]_vars PROVE CallsType'
  OBVIOUS
<1>1. Call => calls' \in 0 .. MaxCalls
  BY BoundAssumption DEF Call, CallsType
<1>2. ASSUME NEW k \in Keys PROVE <<k>> \in Seq(Keys)
  OBVIOUS
<1>3. <<>> \in Seq(Keys)
  OBVIOUS
<1>4. \A t \in Texts : QueryKey[t] \in Keys /\ Tokens[QueryKey[t]] \in Seq(Keys)
  BY KeyAssumption
<1>5. CASE LoadOpenFails \/ EndOfFile \/ UNCHANGED vars
  BY <1>5 DEF LoadOpenFails, EndOfFile, CallsType, dict, vars
<1>6. CASE ReadLine
  <2>1. m_item_count' \in 0 .. SizeRange - 1
    <3>1. CASE UNCHANGED dict
      BY <3>1 DEF CallsType, dict
    <3>2. CASE Add(Head(lines).text, Head(lines).text, Head(lines).value)
      BY <3>2, AddTyped
    <3> QED
      BY <1>6, <3>1, <3>2 DEF ReadLine
  <2> QED
    BY <1>6, <2>1 DEF ReadLine, CallsType
<1>7. CASE Dump
  <2>1. result' \in Results
    BY <1>3, <1>7, ReturnTyped DEF Dump
  <2>2. file' \in Seq(Lines)
    <3>1. CASE UNCHANGED file
      BY <3>1 DEF CallsType
    <3>2. CASE file' = [i \in 1 .. Len(m_record_repo) |->
                          [text |-> m_record_repo[i].text, value |-> m_record_repo[i].value]]
      <4>1. Len(m_record_repo) \in Nat
        BY LenProperties DEF IInv, RecordsType
      <4>2. \A i \in 1 .. Len(m_record_repo) : m_record_repo[i] \in Records
        BY ElementOfSeq DEF IInv, RecordsType
      <4>3. file' \in [1 .. Len(m_record_repo) -> Lines]
        BY <3>2, <4>2 DEF Records, Lines
      <4> QED
        BY <4>1, <4>3, FunctionIsSeq
    <3> QED
      BY <1>7, <3>1, <3>2 DEF Dump
  <2> QED
    BY <1>1, <1>7, <2>1, <2>2 DEF Dump, CallsType, dict
<1>8. ASSUME NEW f \in Files, Load(f) \/ Reload(f) PROVE CallsType'
  BY <1>1, <1>8 DEF Load, Reload, CallsType, dict
<1>9. ASSUME NEW t \in Texts, Del(t) PROVE CallsType'
  <2>1. result' \in Results
    BY <1>2, <1>4, <1>9, ReturnTyped DEF Del
  <2>2. m_item_count' \in 0 .. SizeRange - 1
    BY <1>9, CountWraps DEF Del, CallsType, dict
  <2> QED
    BY <1>1, <1>9, <2>1, <2>2 DEF Del, CallsType
<1>10. ASSUME NEW t \in Texts, Get(t) PROVE CallsType'
  <2>1. result' \in Results
    BY <1>4, <1>10, AnswerTyped DEF Get, Results
  <2> QED
    BY <1>10, <2>1 DEF Get, CallsType, dict
<1>11. ASSUME NEW t \in Texts, NEW v \in Values, Set(t, v) PROVE CallsType'
  <2>1. result' \in Results \union {None}
    BY <1>2, <1>4, <1>11, ReturnTyped DEF Set
  <2>2. m_item_count' \in 0 .. SizeRange - 1
    BY <1>11, CountWraps DEF Set, Insert, CallsType, dict
  <2>3. unit' \in {unit, "crashed"}
    BY <1>11 DEF Set
  <2> QED
    BY <1>1, <1>11, <2>1, <2>2, <2>3 DEF Set, CallsType
<1>12. ASSUME NEW t \in Texts, NEW v \in Values, AddCall(t, v) PROVE CallsType'
  <2>1. result' \in Results
    BY <1>2, <1>4, <1>12, ReturnTyped DEF AddCall
  <2>2. m_item_count' \in 0 .. SizeRange - 1
    BY <1>12, AddTyped DEF AddCall
  <2> QED
    BY <1>1, <1>12, <2>1, <2>2 DEF AddCall, CallsType
<1> QED
  BY <1>5, <1>6, <1>7, <1>8, <1>9, <1>10, <1>11, <1>12 DEF Next

\* Every variable has its type: the count of CKvDict stays in the range of
\* size_t, and Get, which reads without a check of the map against the vector,
\* finds a record at every position that is not that of a deleted key.
THEOREM VariablesTyped == Spec => []TypeOK
<1>1. Init => CallsType
  BY BoundAssumption DEF Init, CallsType
<1>2. CallsType /\ [Next]_vars /\ IInv => CallsType'
  BY CallsTypeStep
<1>3. IInv /\ CallsType => TypeOK
  BY DEF IInv, RecordsType, CallsType, TypeOK
<1> QED
  BY <1>1, <1>2, <1>3, InvariantHolds, PTL DEF Spec
-----------------------------------------------------------------------------
(***************************************************************************)
(* The dictionary implements KvStore.                                      *)
(***************************************************************************)
StoreOf ==
    [k \in Keys |->
        CASE m_hash_dict_engine[k] = None        -> Absent
          [] m_hash_dict_engine[k] = NegativeOne -> Deleted
          [] OTHER -> m_record_repo[m_hash_dict_engine[k]].value]

AnswerOf ==
    IF result = None \/ result.keys = <<>> THEN None
    ELSE [keys |-> result.keys, values |-> result.values]

\* While a file is read the result of no call is left.
LoadInv == unit \in {"new", "read"} => result = None

\* The variables of KvStore are these.
LEMMA StoreVars ==
    /\ Store!vars = <<StoreOf, AnswerOf>>
    /\ Store!vars' = <<StoreOf', AnswerOf'>>
BY DEF Store!vars, StoreOf, AnswerOf

\* Before the first load no key has a value.
LEMMA RefineInit == Init => Store!Init
<1> SUFFICES ASSUME Init PROVE Store!Init
  OBVIOUS
<1>1. \A k \in Keys : m_hash_dict_engine[k] = None
  BY DEF Init
<1>2. StoreOf = [k \in Keys |-> Absent]
  BY <1>1, NoneAssumption DEF StoreOf, NegativeOne
<1>3. AnswerOf = None
  BY DEF Init, AnswerOf
<1> QED
  BY <1>2, <1>3 DEF Store!Init, StoreOf, AnswerOf

\* The store is a function on the keys.
LEMMA StoreFunction ==
    /\ StoreOf = [k \in Keys |-> StoreOf[k]]
    /\ StoreOf' = [k \in Keys |-> StoreOf'[k]]
BY DEF StoreOf

\* A file is read after the first load or a reload, and neither leaves a result.
LEMMA LoadStep == LoadInv /\ [Next]_vars => LoadInv'
<1> SUFFICES ASSUME LoadInv, [Next]_vars PROVE LoadInv'
  OBVIOUS
<1>1. CASE UNCHANGED <<unit, result>>
  BY <1>1 DEF LoadInv
<1>2. CASE Call
  <2>1. CASE \E f \in Files : Reload(f)
    BY <2>1 DEF Reload, LoadInv
  <2>2. CASE \/ Dump
             \/ \E t \in Texts : Del(t)
             \/ \E t \in Texts, v \in Values : Set(t, v) \/ AddCall(t, v)
    BY <1>2, <2>2 DEF Dump, Del, Set, AddCall, Call, LoadInv
  <2> QED
    BY <1>1, <1>2, <2>1, <2>2 DEF Next, Load, LoadOpenFails, ReadLine, EndOfFile, Get, Call, vars,
       LoadInv
<1> QED
  BY <1>1, <1>2 DEF Next, Load, LoadOpenFails, ReadLine, EndOfFile, Get, Dump, Del, Reload,
     Set, AddCall, vars, LoadInv

\* What the store holds for a key.
LEMMA StoreAt ==
    ASSUME IInv, NEW k \in Keys
    PROVE  /\ StoreOf[k] = Absent <=> ~ Exists(k)
           /\ StoreOf[k] = Deleted <=> m_hash_dict_engine[k] = NegativeOne
           /\ Leads(k) => StoreOf[k] = m_record_repo[m_hash_dict_engine[k]].value
<1>1. None # NegativeOne
  BY NoneAssumption DEF NegativeOne
<1>2. CASE ~ Leads(k)
  BY <1>1, <1>2, ValueAssumption DEF StoreOf, Exists, Leads
<1>3. CASE Leads(k)
  <2>1. StoreOf[k] = m_record_repo[m_hash_dict_engine[k]].value
    BY <1>3 DEF StoreOf, Leads, Exists
  <2>2. m_hash_dict_engine[k] \in DOMAIN m_record_repo
    BY <1>3 DEF Leads, Exists, IInv, RecordsIndexed
  <2>3. m_record_repo[m_hash_dict_engine[k]] \in Records
    BY <2>2, LenProperties, ElementOfSeq DEF IInv, RecordsType
  <2>4. StoreOf[k] \in Values
    BY <2>1, <2>3 DEF Records
  <2> QED
    BY <1>3, <2>1, <2>4, ValueAssumption DEF Leads, Exists
<1> QED
  BY <1>2, <1>3

\* A record that is added gives its key its value, and no other key another.
LEMMA StoreInsert ==
    ASSUME IInv, NEW t \in Texts, NEW k \in Keys, NEW v \in Values,
           ~ Exists(k), Insert(t, k, v)
    PROVE  StoreOf' = [StoreOf EXCEPT ![k] = v]
<1> DEFINE n == Len(m_record_repo)
<1>1. n \in Nat
  BY LenProperties DEF IInv, RecordsType
<1>2. m_hash_dict_engine'[k] = n + 1 /\ m_record_repo'[n + 1].value = v
  <2>1. [text |-> t, key |-> k, value |-> v] \in Records
    BY DEF Records
  <2>2. m_record_repo'[n + 1] = [text |-> t, key |-> k, value |-> v]
    BY <2>1, AppendProperties DEF IInv, RecordsType, Insert
  <2> QED
    BY <2>2 DEF Insert, IInv, RecordsType
<1>3. n + 1 # None /\ n + 1 # NegativeOne
  BY <1>1, NoneAssumption DEF NegativeOne
<1>4. StoreOf'[k] = v
  BY <1>2, <1>3 DEF StoreOf
<1>5. ASSUME NEW j \in Keys, j # k PROVE StoreOf'[j] = StoreOf[j]
  <2>1. m_hash_dict_engine'[j] = m_hash_dict_engine[j]
    BY <1>5 DEF Insert, IInv, RecordsType
  <2>2. Exists(j) /\ m_hash_dict_engine[j] # NegativeOne =>
           m_record_repo'[m_hash_dict_engine[j]] = m_record_repo[m_hash_dict_engine[j]]
    BY InsertInv
  <2> QED
    BY <2>1, <2>2 DEF StoreOf, Exists, NegativeOne
<1> QED
  BY <1>4, <1>5, StoreFunction

\* Set of a key that has a record changes its value and no other key's.
LEMMA StoreWrite ==
    ASSUME IInv, NEW k \in Keys, NEW v \in Values, Leads(k),
           m_record_repo' = [m_record_repo EXCEPT ![m_hash_dict_engine[k]].value = v],
           UNCHANGED m_hash_dict_engine
    PROVE  StoreOf' = [StoreOf EXCEPT ![k] = v]
<1> DEFINE i == m_hash_dict_engine[k]
<1>1. i \in DOMAIN m_record_repo /\ m_record_repo[i].key = k
  BY DEF Leads, Exists, IInv, RecordsIndexed
<1>2. m_record_repo[i] \in Records
  BY <1>1, LenProperties, ElementOfSeq DEF IInv, RecordsType
<1>3. m_record_repo'[i].value = v
  BY <1>1, <1>2 DEF Records, IInv, RecordsType
<1>4. StoreOf'[k] = v
  BY <1>3 DEF StoreOf, Leads, Exists
<1>5. ASSUME NEW j \in Keys, j # k PROVE StoreOf'[j] = StoreOf[j]
  <2>1. Leads(j) => /\ m_hash_dict_engine[j] \in DOMAIN m_record_repo
                    /\ m_record_repo[m_hash_dict_engine[j]].key = j
    BY DEF Leads, Exists, IInv, RecordsIndexed
  <2>2. Leads(j) => m_record_repo'[m_hash_dict_engine[j]] = m_record_repo[m_hash_dict_engine[j]]
    BY <1>1, <1>5, <2>1 DEF IInv, RecordsType
  <2>3. CASE Leads(j)
    <3>1. StoreOf[j] = m_record_repo[m_hash_dict_engine[j]].value
      BY <2>3, StoreAt
    <3>2. m_hash_dict_engine'[j] \notin {None, NegativeOne}
      BY <2>3 DEF Leads, Exists
    <3>3. StoreOf'[j] = m_record_repo'[m_hash_dict_engine'[j]].value
      BY <3>2 DEF StoreOf, NegativeOne
    <3> QED
      BY <2>2, <2>3, <3>1, <3>3
  <2>4. CASE ~ Leads(j)
    BY <2>4 DEF StoreOf, Leads, Exists, NegativeOne
  <2> QED
    BY <2>3, <2>4
<1> QED
  BY <1>4, <1>5, StoreFunction

\* Del takes the value of its key and of no other.
LEMMA StoreDelete ==
    ASSUME IInv, NEW k \in Keys,
           m_hash_dict_engine' = [m_hash_dict_engine EXCEPT ![k] = NegativeOne],
           UNCHANGED m_record_repo
    PROVE  StoreOf' = [StoreOf EXCEPT ![k] = Deleted]
<1>1. /\ m_hash_dict_engine'[k] = NegativeOne
      /\ \A j \in Keys \ {k} : m_hash_dict_engine'[j] = m_hash_dict_engine[j]
  BY DEF IInv, RecordsType
<1>2. NegativeOne # None
  BY NoneAssumption DEF NegativeOne
<1>3. StoreOf'[k] = Deleted
  BY <1>1, <1>2 DEF StoreOf, NegativeOne
<1>4. \A j \in Keys \ {k} : StoreOf'[j] = StoreOf[j]
  BY <1>1 DEF StoreOf, NegativeOne
<1> QED
  BY <1>3, <1>4, StoreFunction

\* Without a change to map and vector the store stays.
LEMMA StoreKept == UNCHANGED dict => UNCHANGED StoreOf
BY DEF dict, StoreOf

\* The result of a call on one key is its answer.
LEMMA ReturnAnswers ==
    ASSUME NEW rc \in {0, 1, 2}, NEW k \in Keys, Return(rc, <<k>>)
    PROVE  AnswerOf' = [keys |-> <<k>>, values |-> None]
<1>1. <<k>> \in Seq(Keys) /\ <<k>> # <<>>
  OBVIOUS
<1>2. result' # None
  BY <1>1, ReturnTyped, NoneAssumption
<1>3. result'.keys = <<k>> /\ result'.values = None
  BY DEF Return
<1> QED
  BY <1>1, <1>2, <1>3 DEF AnswerOf

\* A Get answers as the store does.
LEMMA RefineGet ==
    ASSUME IInv, NEW t \in Texts, Get(t)
    PROVE  [Store!Next]_(Store!vars)
<1>1. PICK keys : keys = Tokens[QueryKey[t]]
  OBVIOUS
<1>2. keys \in Seq(Keys) /\ Len(keys) \in Nat
  BY <1>1, KeyAssumption, LenProperties
<1>3. UNCHANGED StoreOf
  BY StoreKept DEF Get
<1>4. result' = [rc |-> 0, keys |-> keys, values |-> Answer(t)]
  BY <1>1 DEF Get
<1>5. result' # None
  BY <1>2, <1>4, AnswerTyped, NoneAssumption DEF Results
<1>6. AnswerOf' = IF keys = <<>> THEN None ELSE [keys |-> keys, values |-> Answer(t)]
  BY <1>4, <1>5 DEF AnswerOf
<1>7. CASE keys = <<>>
  BY <1>3, <1>6, <1>7 DEF Store!Next, StoreOf, AnswerOf
<1>8. CASE keys # <<>>
  <2>1. PICK live : live = {i \in 1 .. Len(keys) : StoreOf[keys[i]] \notin {Absent, Deleted}}
    OBVIOUS
  <2>2. \A i \in 1 .. Len(keys) : i \in live <=> Leads(keys[i])
    <3>1. \A i \in 1 .. Len(keys) : keys[i] \in Keys
      BY <1>2, ElementOfSeq
    <3> QED
      BY <2>1, <3>1, StoreAt DEF Leads
  <2>3. PICK n \in 0 .. Len(keys) : \E at \in [1 .. n -> 1 .. Len(keys)] :
          /\ \A i, j \in 1 .. n : i < j => at[i] < at[j]
          /\ \A i \in 1 .. n : Leads(keys[at[i]])
          /\ \A p \in 1 .. Len(keys) : Leads(keys[p]) => \E i \in 1 .. n : at[i] = p
          /\ Hits(t) = [i \in 1 .. n |-> keys[at[i]]]
    BY <1>1, HitsSelect DEF Selects
  <2>4. PICK at \in [1 .. n -> 1 .. Len(keys)] :
          /\ \A i, j \in 1 .. n : i < j => at[i] < at[j]
          /\ \A i \in 1 .. n : Leads(keys[at[i]])
          /\ \A p \in 1 .. Len(keys) : Leads(keys[p]) => \E i \in 1 .. n : at[i] = p
          /\ Hits(t) = [i \in 1 .. n |-> keys[at[i]]]
    BY <2>3
  <2>5. at \in [1 .. n -> live]
    BY <2>2, <2>4
  <2>6. \A p \in live : \E i \in 1 .. n : at[i] = p
    BY <2>1, <2>2, <2>4
  <2>7. Answer(t) = [i \in 1 .. n |-> StoreOf[keys[at[i]]]]
    <3>1. \A i \in 1 .. n : keys[at[i]] \in Keys /\ Hits(t)[i] = keys[at[i]]
      BY <1>2, <2>4, ElementOfSeq
    <3>2. Hits(t) \in [1 .. n -> Keys] /\ n \in Nat
      BY <1>2, <2>4, <3>1
    <3>3. Len(Hits(t)) = n
      BY <3>2, FunctionIsSeq
    <3>4. \A i \in 1 .. n : StoreOf[keys[at[i]]] = m_record_repo[m_hash_dict_engine[Hits(t)[i]]].value
      BY <2>4, <3>1, StoreAt
    <3> QED
      BY <3>3, <3>4 DEF Answer
  <2>8. AnswerOf' = [keys |-> keys, values |-> [i \in 1 .. n |-> StoreOf[keys[at[i]]]]]
    BY <1>6, <1>8, <2>7
  <2>9. Store!Get(keys)
    BY <1>3, <2>1, <2>4, <2>5, <2>6, <2>8 DEF Store!Get, StoreOf, AnswerOf
  <2> QED
    BY <1>1, <2>9 DEF Store!Next
<1> QED
  BY <1>7, <1>8
\* A line of the file adds the value of a key that has none, or nothing.
LEMMA RefineLine ==
    ASSUME IInv, LoadInv, ReadLine
    PROVE  [Store!Next]_(Store!vars)
<1> DEFINE line == Head(lines)
<1>1. result = None /\ UNCHANGED result
  BY DEF LoadInv, ReadLine
<1>2. AnswerOf = None /\ AnswerOf' = None
  BY <1>1 DEF AnswerOf
<1>3. line \in Lines \union {Malformed}
  BY HeadTailProperties DEF IInv, RecordsType, ReadLine
<1>4. CASE UNCHANGED dict
  BY <1>2, <1>4, StoreKept, StoreVars
<1>5. CASE line \in Lines /\ ~ Exists(line.text) /\ Insert(line.text, line.text, line.value)
  <2>1. PICK k, v : k = line.text /\ v = line.value
    OBVIOUS
  <2>2. k \in Texts /\ k \in Keys /\ v \in Values
    BY <1>5, <2>1, KeyAssumption DEF Lines
  <2>3. ~ Exists(k) /\ Insert(k, k, v)
    BY <1>5, <2>1
  <2>4. StoreOf' = [StoreOf EXCEPT ![k] = v]
    BY <2>2, <2>3, StoreInsert
  <2>5. StoreOf[k] = Absent
    BY <2>2, <2>3, StoreAt
  <2>6. Store!Add(k, v)
    BY <2>4, <2>5 DEF Store!Add, StoreOf
  <2> QED
    BY <1>2, <2>2, <2>6 DEF Store!Next, AnswerOf
<1> QED
  BY <1>3, <1>4, <1>5 DEF ReadLine, Add

\* A call that edits the value of one key does so in the store.
LEMMA RefineEdit ==
    ASSUME IInv, NEW t \in Texts,
           Del(t) \/ \E v \in Values : Set(t, v) \/ AddCall(t, v)
    PROVE  [Store!Next]_(Store!vars)
<1>1. PICK k \in Keys : k = QueryKey[t]
  BY KeyAssumption
<1>2. CASE UNCHANGED dict /\ AnswerOf' \in {None, [keys |-> <<k>>, values |-> None]}
  <2>1. UNCHANGED StoreOf
    BY <1>2, StoreKept
  <2> QED
    BY <1>2, <2>1 DEF Store!Next, StoreOf, AnswerOf
<1>3. CASE Del(t)
  <2>1. CASE ~ Exists(k)
    <3>1. UNCHANGED dict /\ Return(2, <<k>>)
      BY <1>1, <1>3, <2>1 DEF Del
    <3> QED
      BY <1>2, <3>1, ReturnAnswers
  <2>2. CASE Exists(k)
    <3>1. /\ m_hash_dict_engine' = [m_hash_dict_engine EXCEPT ![k] = NegativeOne]
          /\ Return(0, <<k>>) /\ UNCHANGED m_record_repo
      BY <1>1, <1>3, <2>2 DEF Del
    <3>2. StoreOf' = [StoreOf EXCEPT ![k] = Deleted] /\ StoreOf[k] # Absent
      BY <2>2, <3>1, StoreDelete, StoreAt
    <3>3. AnswerOf' = [keys |-> <<k>>, values |-> None]
      BY <3>1, ReturnAnswers
    <3>4. Store!Del(k)
      BY <3>2 DEF Store!Del, StoreOf
    <3> QED
      BY <3>3, <3>4 DEF Store!Next, Store!Edit, AnswerOf
  <2> QED
    BY <2>1, <2>2
<1>4. ASSUME NEW v \in Values, ~ Exists(k), Insert(t, k, v), Return(0, <<k>>)
      PROVE  [Store!Next]_(Store!vars)
  <2>1. StoreOf' = [StoreOf EXCEPT ![k] = v] /\ StoreOf[k] = Absent
    BY <1>4, StoreInsert, StoreAt
  <2>2. AnswerOf' = [keys |-> <<k>>, values |-> None]
    BY <1>4, ReturnAnswers
  <2>3. Store!Add(k, v)
    BY <2>1 DEF Store!Add, StoreOf
  <2> QED
    BY <2>2, <2>3 DEF Store!Next, Store!Edit, AnswerOf
<1>5. ASSUME NEW v \in Values, Set(t, v) PROVE [Store!Next]_(Store!vars)
  <2>1. CASE ~ Exists(k) /\ Insert(t, k, v) /\ Return(0, <<k>>)
    BY <1>4, <2>1
  <2>2. CASE /\ Leads(k)
             /\ m_record_repo' = [m_record_repo EXCEPT ![m_hash_dict_engine[k]].value = v]
             /\ Return(0, <<k>>) /\ UNCHANGED m_hash_dict_engine
    <3>1. StoreOf' = [StoreOf EXCEPT ![k] = v]
      BY <2>2, StoreWrite
    <3>2. StoreOf[k] # Deleted
      BY <2>2, StoreAt DEF Leads
    <3>3. AnswerOf' = [keys |-> <<k>>, values |-> None]
      BY <2>2, ReturnAnswers
    <3>4. Store!Set(k, v)
      BY <3>1, <3>2 DEF Store!Set, StoreOf
    <3> QED
      BY <3>3, <3>4 DEF Store!Next, Store!Edit, AnswerOf
  <2>3. CASE UNCHANGED dict /\ result' = None
    BY <1>2, <2>3 DEF AnswerOf
  <2> QED
    BY <1>1, <1>5, <2>1, <2>2, <2>3 DEF Set, Leads
<1>6. ASSUME NEW v \in Values, AddCall(t, v) PROVE [Store!Next]_(Store!vars)
  <2>1. CASE Exists(k)
    <3>1. UNCHANGED dict /\ Return(2, <<k>>)
      BY <1>1, <1>6, <2>1 DEF AddCall, Add
    <3> QED
      BY <1>2, <3>1, ReturnAnswers
  <2>2. CASE ~ Exists(k)
    <3>1. Insert(t, k, v) /\ Return(0, <<k>>)
      BY <1>1, <1>6, <2>2 DEF AddCall, Add
    <3> QED
      BY <1>4, <2>2, <3>1
  <2> QED
    BY <2>1, <2>2
<1> QED
  BY <1>3, <1>5, <1>6

\* Every step of the dictionary is a step of KvStore or is not seen.
LEMMA RefineStep == IInv /\ LoadInv /\ [Next]_vars => [Store!Next]_(Store!vars)
<1> SUFFICES ASSUME IInv, LoadInv, [Next]_vars PROVE [Store!Next]_(Store!vars)
  OBVIOUS
<1>1. CASE UNCHANGED <<dict, result>>
  <2>1. UNCHANGED StoreOf /\ UNCHANGED AnswerOf
    BY <1>1, StoreKept DEF AnswerOf
  <2> QED
    BY <2>1, StoreVars
<1>2. CASE UNCHANGED dict /\ AnswerOf' = None
  <2>1. UNCHANGED StoreOf
    BY <1>2, StoreKept
  <2> QED
    BY <1>2, <2>1 DEF Store!Next, StoreOf, AnswerOf
<1>3. CASE \E f \in Files : Reload(f)
  BY <1>2, <1>3 DEF Reload, AnswerOf
<1>4. CASE Dump
  <2>1. UNCHANGED dict /\ result'.keys = <<>>
    BY <1>4 DEF Dump, Return
  <2> QED
    BY <1>2, <2>1 DEF AnswerOf
<1>5. CASE LoadOpenFails \/ EndOfFile \/ UNCHANGED vars \/ \E f \in Files : Load(f)
  BY <1>1, <1>5 DEF LoadOpenFails, EndOfFile, Load, vars
<1> QED
  BY <1>3, <1>4, <1>5, RefineLine, RefineGet, RefineEdit DEF Next

\* CKvDict is a store of values by key: through loads, reloads and edits a key
\* has the value last set or first added, a deleted one stays deleted, and Get
\* answers with the values of the keys it asks for, in that order.
THEOREM ImplementsKvStore == Spec => ImplementsStore
<1>1. Init => LoadInv
  BY DEF Init, LoadInv
<1>2. Spec => []LoadInv
  BY <1>1, LoadStep, PTL DEF Spec
<1> QED
  BY <1>2, InvariantHolds, RefineInit, RefineStep, PTL DEF Spec, ImplementsStore, Store!Spec
=============================================================================
