------------------------- MODULE PatternDictProofs -------------------------
(***************************************************************************)
(* Proofs about PatternDict, for every set of readers, every file, every   *)
(* key class and any number of edits.  The first part is about the read    *)
(* side: it is typed, consistent and frozen once published.  The second is *)
(* about the answer of a Get: the read side holds every record once, the   *)
(* answer is the one it gives, and has a value for each record that        *)
(* matches.                                                                *)
(***************************************************************************)
EXTENDS PatternDict, SequenceTheorems, FiniteSetTheorems, FunctionTheorems, TLAPS

Loading  == {"new", "read", "collect", "build"}
Building == {"dfa", "enter", "swap_dict"}
Swapped  == {"exit", "copy", "free"}

\* Every regex in the repos of ps is the one the record of its index in ds
\* names, filed under its prefix, and the positions a DFA or the list beside
\* it holds are positions of the repo.
Linked(ps, ds) ==
    \A i \in 1 .. Len(ps) :
        /\ ps[i].online \subseteq 1 .. Len(ps[i].repo)
        /\ ps[i].offline \subseteq 1 .. Len(ps[i].repo)
        /\ \A j \in 1 .. Len(ps[i].repo) :
              /\ ps[i].repo[j].index \in 1 .. Len(ds)
              /\ ps[i].repo[j].regex = GetKey(ds[ps[i].repo[j].index].key)
              /\ PrefixOf[ps[i].repo[j].regex] = ps[i].prefix

\* Trie t can be searched and its indexes lead to the infos of ps.
Leads(t, ps) ==
    /\ Searchable(t)
    /\ \A p \in Prefixes : darts[t].index[p] # 0 =>
          /\ darts[t].index[p] \in 1 .. Len(ps)
          /\ ps[darts[t].index[p]].prefix = p

\* Every record passed Add or Set.
Accepts(ds) == \A n \in 1 .. Len(ds) : Acceptable(ds[n].key)

\* Before publication only the loader is at work, and step by step the write
\* side becomes the read side.
LoaderInv ==
    ~published =>
        /\ wpc # "idle"
        /\ \A r \in Readers : rpc[r] = "idle"
        /\ wpc \in {"new", "read"} => prefix_info_write = <<>>
        /\ wpc \in Loading \union Building =>
              /\ darts_write = "second" /\ darts_read = "first"
              /\ darts["second"].live
              /\ Linked(prefix_info_write, dict_info_write)
        /\ wpc \in Building => Leads(darts_write, prefix_info_write)
        /\ wpc = "swap_prefix" =>
              /\ darts_write = "second" /\ darts_read = "first"
              /\ Linked(prefix_info_write, dict_info_read)
              /\ Leads(darts_write, prefix_info_write)
        /\ wpc = "swap_darts" =>
              /\ darts_write = "second" /\ darts_read = "first"
              /\ Linked(prefix_info_read, dict_info_read)
              /\ Leads(darts_write, prefix_info_read)
        /\ wpc \in Swapped =>
              /\ darts_write = "first" /\ darts_read = "second"
              /\ Linked(prefix_info_read, dict_info_read)
              /\ Leads(darts_read, prefix_info_read)

\* After it the write trie is gone for good, so no Finalize gets past
\* BuildTrie and nothing reaches the read side.
PublishedInv ==
    published =>
        /\ wpc \in {"idle", "read", "collect", "build"}
        /\ darts_write = NULL
        /\ Linked(prefix_info_read, dict_info_read)
        /\ Leads(darts_read, prefix_info_read)

\* What a reader has copied is still what the read side holds.
ReaderInv ==
    \A r \in Readers :
        /\ rpc[r] = "crashed" => \E info \in infos[r] : ~ info.dfa
        /\ rpc[r] \notin {"idle", "done"} => query[r] \in Queries
        /\ rpc[r] = "search" => trie[r] = darts_read
        /\ rpc[r] = "copy" => hits[r] \subseteq 1 .. Len(prefix_info_read)
        /\ rpc[r] = "match" =>
              \A x \in infos[r] : \E i \in 1 .. Len(prefix_info_read) : x = prefix_info_read[i]
        /\ rpc[r] = "fetch" =>
              \A x \in regexes[r] : x.index \in 1 .. Len(dict_info_read)

AcceptInv == Accepts(dict_info_read) /\ Accepts(dict_info_write)

IInv == TypeOK /\ AcceptInv /\ LoaderInv /\ PublishedInv /\ ReaderInv

-----------------------------------------------------------------------------
(***************************************************************************)
(* Sequences.                                                              *)
(***************************************************************************)

\* A function on 1..n is a sequence of length n.
LEMMA FunctionIsSeq ==
    ASSUME NEW S, NEW n \in Nat, NEW f \in [1 .. n -> S]
    PROVE  f \in Seq(S) /\ Len(f) = n
<1>1. f \in Seq(S)
  BY SeqDef
<1>2. DOMAIN f = 1 .. n /\ DOMAIN f = 1 .. Len(f) /\ Len(f) \in Nat
  BY <1>1, LenProperties
<1> QED
  BY <1>1, <1>2

\* Erasing a record leaves a shorter sequence of the old records.
LEMMA RemoveIndexProperties ==
    ASSUME NEW S, NEW s \in Seq(S), NEW i \in 1 .. Len(s)
    PROVE  /\ RemoveIndex(s, i) \in Seq(S)
           /\ Len(RemoveIndex(s, i)) = Len(s) - 1
           /\ \A j \in 1 .. Len(s) - 1 :
                 RemoveIndex(s, i)[j] \in {s[k] : k \in 1 .. Len(s)}
<1>1. Len(s) \in Nat /\ Len(s) - 1 \in Nat
  BY LenProperties
<1>2. \A j \in 1 .. Len(s) - 1 :
         RemoveIndex(s, i)[j] \in {s[k] : k \in 1 .. Len(s)}
  BY <1>1 DEF RemoveIndex
<1>3. \A k \in 1 .. Len(s) : s[k] \in S
  BY ElementOfSeq
<1>4. RemoveIndex(s, i) \in [1 .. Len(s) - 1 -> S]
  BY <1>1, <1>3 DEF RemoveIndex
<1> QED
  BY <1>1, <1>2, <1>4, FunctionIsSeq

-----------------------------------------------------------------------------
(***************************************************************************)
(* Types.                                                                  *)
(***************************************************************************)

\* An accepted key gives a text that has a prefix.
LEMMA AcceptedText ==
    ASSUME NEW key \in IKeys, Acceptable(key)
    PROVE  GetKey(key) \in Texts /\ PrefixOf[GetKey(key)] \in Prefixes
BY TextAssumption DEF Acceptable

\* Appending an accepted record keeps a vector well typed and accepted.
LEMMA AppendAccepted ==
    ASSUME NEW ds \in Seq(DictInfo), Accepts(ds),
           NEW key \in IKeys, Acceptable(key), NEW v \in Values
    PROVE  LET es == Append(ds, [key |-> key, value |-> v])
           IN  es \in Seq(DictInfo) /\ Accepts(es)
<1> DEFINE d == [key |-> key, value |-> v]
<1>1. d \in DictInfo
  BY DEF DictInfo
<1>2. /\ Append(ds, d) \in Seq(DictInfo)
      /\ Len(Append(ds, d)) = Len(ds) + 1
      /\ \A i \in 1 .. Len(ds) : Append(ds, d)[i] = ds[i]
      /\ Append(ds, d)[Len(ds) + 1] = d
  BY <1>1, AppendProperties
<1>3. Len(ds) \in Nat
  BY LenProperties
<1> QED
  BY <1>2, <1>3 DEF Accepts

\* Removing a record keeps it so.
LEMMA RemoveAccepted ==
    ASSUME NEW ds \in Seq(DictInfo), Accepts(ds), NEW i \in 1 .. Len(ds)
    PROVE  RemoveIndex(ds, i) \in Seq(DictInfo) /\ Accepts(RemoveIndex(ds, i))
<1> DEFINE es == RemoveIndex(ds, i)
<1>1. es \in Seq(DictInfo) /\ Len(es) = Len(ds) - 1
  BY RemoveIndexProperties
<1>2. ASSUME NEW j \in 1 .. Len(es) PROVE Acceptable(es[j].key)
  <2>1. es[j] \in {ds[k] : k \in 1 .. Len(ds)}
    BY <1>1, RemoveIndexProperties
  <2> QED
    BY <2>1 DEF Accepts
<1> QED
  BY <1>1, <1>2 DEF Accepts

\* The result of collecting a record, as one case or the other.
LEMMA CollectTypes ==
    ASSUME NEW ps \in Seq(PrefixInfo), NEW r \in RegexInfo
    PROVE  /\ \A i \in 1 .. Len(ps) :
                 [ps EXCEPT ![i].repo = Append(@, r)] \in Seq(PrefixInfo)
           /\ \A p \in Prefixes : Append(ps, NewPrefixInfo(p, r)) \in Seq(PrefixInfo)
<1>1. ASSUME NEW i \in 1 .. Len(ps)
      PROVE  [ps EXCEPT ![i].repo = Append(@, r)] \in Seq(PrefixInfo)
  <2> DEFINE e == [ps[i] EXCEPT !.repo = Append(@, r)]
  <2>1. ps[i] \in PrefixInfo
    BY ElementOfSeq
  <2>2. Append(ps[i].repo, r) \in Seq(RegexInfo)
    BY <2>1, AppendProperties DEF PrefixInfo
  <2>3. e \in PrefixInfo
    BY <2>1, <2>2 DEF PrefixInfo
  <2>4. [ps EXCEPT ![i].repo = Append(@, r)] = [ps EXCEPT ![i] = e]
    OBVIOUS
  <2> QED
    BY <2>3, <2>4, ExceptSeq
<1>2. ASSUME NEW p \in Prefixes
      PROVE  Append(ps, NewPrefixInfo(p, r)) \in Seq(PrefixInfo)
  <2>1. <<r>> \in Seq(RegexInfo)
    OBVIOUS
  <2>2. NewPrefixInfo(p, r) \in PrefixInfo
    BY <2>1 DEF NewPrefixInfo, PrefixInfo
  <2> QED
    BY <2>2, AppendProperties
<1> QED
  BY <1>1, <1>2

\* Sorting permutes, so the sorted vector is a sequence of the same length.
LEMMA SortedTypes ==
    ASSUME NEW ps \in Seq(PrefixInfo), NEW pi \in SortOrders(ps)
    PROVE  LET qs == [i \in 1 .. Len(ps) |-> ps[pi[i]]]
           IN  /\ qs \in Seq(PrefixInfo)
               /\ Len(qs) = Len(ps)
               /\ pi \in [1 .. Len(ps) -> 1 .. Len(ps)]
<1> DEFINE qs == [i \in 1 .. Len(ps) |-> ps[pi[i]]]
<1>1. Len(ps) \in Nat /\ \A i \in 1 .. Len(ps) : ps[i] \in PrefixInfo
  BY LenProperties, ElementOfSeq
<1>2. pi \in [1 .. Len(ps) -> 1 .. Len(ps)]
  BY DEF SortOrders
<1>3. qs \in [1 .. Len(ps) -> PrefixInfo]
  BY <1>1, <1>2
<1> HIDE DEF qs
<1>4. qs \in Seq(PrefixInfo) /\ Len(qs) = Len(ps)
  BY <1>1, <1>3, FunctionIsSeq
<1> QED
  BY <1>2, <1>4 DEF qs

\* The info BuildDfa leaves for position i of ps.
DfaInfo(ps, bad, i) ==
    LET ok == {j \in 1 .. Len(ps[i].repo) : ps[i].repo[j].regex \in Accepted}
    IN  [ps[i] EXCEPT !.online = @ \union ok,
                      !.offline = @ \union ((1 .. Len(ps[i].repo)) \ ok),
                      !.dfa = i \notin bad]

\* BuildDfa leaves a sequence of prefix infos, one for each it was given.
LEMMA DfaTypes ==
    ASSUME NEW ps \in Seq(PrefixInfo), NEW bad
    PROVE  LET qs == [i \in 1 .. Len(ps) |-> DfaInfo(ps, bad, i)]
           IN  qs \in Seq(PrefixInfo) /\ Len(qs) = Len(ps)
<1> DEFINE qs == [i \in 1 .. Len(ps) |-> DfaInfo(ps, bad, i)]
<1>1. Len(ps) \in Nat
  BY LenProperties
<1>2. ASSUME NEW i \in 1 .. Len(ps)
      PROVE  DfaInfo(ps, bad, i) \in PrefixInfo
  <2> DEFINE ok == {j \in 1 .. Len(ps[i].repo) : ps[i].repo[j].regex \in Accepted}
  <2>1. ps[i] \in PrefixInfo
    BY ElementOfSeq
  <2>2. ps[i].repo \in Seq(RegexInfo) /\ Len(ps[i].repo) \in Nat
    BY <2>1, LenProperties DEF PrefixInfo
  <2>3. ok \subseteq Nat /\ (1 .. Len(ps[i].repo)) \ ok \subseteq Nat
    BY <2>2
  <2>4. (i \notin bad) \in BOOLEAN
    OBVIOUS
  <2> QED
    BY <2>1, <2>3, <2>4 DEF DfaInfo, PrefixInfo
<1>3. qs \in [1 .. Len(ps) -> PrefixInfo]
  BY <1>2
<1> HIDE DEF qs
<1>4. qs \in Seq(PrefixInfo) /\ Len(qs) = Len(ps)
  BY <1>1, <1>3, FunctionIsSeq
<1> QED
  BY <1>4 DEF qs

-----------------------------------------------------------------------------
(***************************************************************************)
(* The invariant holds at the start and through every step of a reader.    *)
(***************************************************************************)
LEMMA InvInit == Init => IInv
<1> SUFFICES ASSUME Init PROVE IInv
  OBVIOUS
<1>1. SidesOK
  <2>1. EmptyTrie \in DartsDatrie
    BY DEF EmptyTrie, DartsDatrie
  <2> QED
    BY <2>1 DEF Init, SidesOK, Pointers, Tries
<1>2. WriterOK
  <2>1. lines \in Seq(Lines)
    BY DEF Init
  <2>2. wpc \in WriterStates
    BY DEF Init, WriterStates
  <2>3. next \in Nat \ {0} /\ counter \in Nat /\ edits \in Nat
    BY DEF Init
  <2>4. published \in BOOLEAN /\ dumped = NULL
    BY DEF Init
  <2> QED
    BY <2>1, <2>2, <2>3, <2>4 DEF WriterOK
<1>3. ReadersOK
  BY DEF Init, ReadersOK, ReaderStates, Pointers
<1>4. AcceptInv
  BY DEF Init, AcceptInv, Accepts
<1>5. LoaderInv /\ PublishedInv /\ ReaderInv
  BY DEF Init, LoaderInv, PublishedInv, ReaderInv, Linked, Loading, Building,
     Swapped, EmptyTrie, Tries
<1> QED
  BY <1>1, <1>2, <1>3, <1>4, <1>5 DEF IInv, TypeOK

\* A search in the published trie gives positions of the read side.
LEMMA HitsInRange ==
    ASSUME IInv, published, NEW q \in Queries
    PROVE  /\ Searchable(darts_read)
           /\ TrieHits(darts_read, q) \subseteq 1 .. Len(prefix_info_read)
<1>1. Leads(darts_read, prefix_info_read)
  BY DEF IInv, PublishedInv
<1>2. PrefixHits[q] \subseteq Prefixes
  BY QueryAssumption
<1> QED
  BY <1>1, <1>2 DEF Leads, TrieHits

\* The regexes that match in an info of the read side lead to its records.
LEMMA MatchesInRange ==
    ASSUME IInv, published, NEW q, NEW i \in 1 .. Len(prefix_info_read),
           NEW j \in MatchedPositions(prefix_info_read[i], q)
    PROVE  LET x == prefix_info_read[i].repo[j]
           IN  x \in RegexInfo /\ x.index \in 1 .. Len(dict_info_read)
<1>1. Linked(prefix_info_read, dict_info_read)
  BY DEF IInv, PublishedInv
<1>2. j \in prefix_info_read[i].online \union prefix_info_read[i].offline
  BY DEF MatchedPositions, FirstOnline
<1>3. j \in 1 .. Len(prefix_info_read[i].repo)
  BY <1>1, <1>2 DEF Linked
<1>4. prefix_info_read[i] \in PrefixInfo
  BY ElementOfSeq DEF IInv, TypeOK, SidesOK
<1>5. prefix_info_read[i].repo \in Seq(RegexInfo)
  BY <1>4 DEF PrefixInfo
<1> QED
  BY <1>1, <1>3, <1>5, ElementOfSeq DEF Linked

\* No step of a Get breaks the invariant: it writes only its own locals, and
\* what it puts there comes from a read side that hangs together.
LEMMA ReaderStepInv ==
    ASSUME IInv, NEW r \in Readers,
           ReaderStep(r) \/ \E q \in Queries : Get(r, q)
    PROVE  IInv'
<1>1. published /\ UNCHANGED <<readSide, writeSide, darts, wpc, control>>
  <2>1. rpc[r] # "idle" \/ published
    BY DEF ReaderStep, Get, SearchTrie, CopyPrefixInfo, MatchRegexes, FetchRecords, Return
  <2> QED
    BY <2>1 DEF IInv, LoaderInv, TypeOK, WriterOK, ReaderStep, Get, SearchTrie,
                CopyPrefixInfo, MatchRegexes, FetchRecords, Return, unchangedByGet
<1>2. SidesOK' /\ WriterOK' /\ AcceptInv' /\ LoaderInv' /\ PublishedInv'
  <2>1. SidesOK' /\ WriterOK'
    BY <1>1 DEF IInv, TypeOK, SidesOK, WriterOK, readSide, writeSide, control
  <2>2. AcceptInv'
    BY <1>1 DEF IInv, AcceptInv, Accepts, readSide, writeSide
  <2>3. LoaderInv'
    BY <1>1 DEF LoaderInv, control
  <2>4. PublishedInv'
    BY <1>1 DEF IInv, PublishedInv, Linked, Leads, Searchable, readSide, writeSide
  <2> QED
    BY <2>1, <2>2, <2>3, <2>4
<1>3. ReadersOK' /\ ReaderInv'
  <2> USE DEF readSide
  <2>1. CASE \E q \in Queries : Get(r, q)
    BY <1>1, <2>1 DEF Get, IInv, TypeOK, SidesOK, ReadersOK, ReaderInv, ReaderStates
  <2>2. CASE SearchTrie(r)
    <3>1. query[r] \in Queries /\ trie[r] = darts_read
      BY <2>2 DEF SearchTrie, IInv, ReaderInv
    <3>2. /\ Searchable(trie[r])
          /\ TrieHits(trie[r], query[r]) \subseteq 1 .. Len(prefix_info_read)
      BY <1>1, <3>1, HitsInRange
    <3>3. Len(prefix_info_read) \in Nat
      BY LenProperties DEF IInv, TypeOK, SidesOK
    <3> QED
      BY <1>1, <2>2, <3>2, <3>3
      DEF SearchTrie, IInv, TypeOK, ReadersOK, ReaderInv, ReaderStates
  <2>3. CASE CopyPrefixInfo(r)
    <3>1. \A i \in 1 .. Len(prefix_info_read) : prefix_info_read[i] \in PrefixInfo
      BY ElementOfSeq DEF IInv, TypeOK, SidesOK
    <3>2. hits[r] \subseteq 1 .. Len(prefix_info_read)
      BY <2>3 DEF CopyPrefixInfo, IInv, ReaderInv
    <3> QED
      BY <1>1, <2>3, <3>1, <3>2
      DEF CopyPrefixInfo, IInv, TypeOK, ReadersOK, ReaderInv, ReaderStates
  <2>4. CASE MatchRegexes(r)
    <3> DEFINE matched ==
          UNION {{info.repo[j] : j \in MatchedPositions(info, query[r])} :
                    info \in infos[r]}
    <3>1. ASSUME NEW x \in matched
          PROVE  x \in RegexInfo /\ x.index \in 1 .. Len(dict_info_read)
      <4>1. PICK info \in infos[r] :
              \E j \in MatchedPositions(info, query[r]) : x = info.repo[j]
        OBVIOUS
      <4>2. PICK i \in 1 .. Len(prefix_info_read) : info = prefix_info_read[i]
        BY <2>4, <4>1 DEF MatchRegexes, IInv, ReaderInv
      <4> QED
        BY <1>1, <4>1, <4>2, MatchesInRange
    <3> HIDE DEF matched
    <3>2. rpc[r] = "match" /\ UNCHANGED <<query, trie, hits, infos, found>>
      BY <2>4 DEF MatchRegexes
    <3>3. CASE \A info \in infos[r] : info.dfa
      <4>1. /\ regexes' = [regexes EXCEPT ![r] = matched]
            /\ rpc' = [rpc EXCEPT ![r] = "fetch"]
        BY <2>4, <3>3 DEF MatchRegexes, matched
      <4> QED
        BY <1>1, <3>1, <3>2, <4>1
        DEF IInv, TypeOK, ReadersOK, ReaderInv, ReaderStates
    <3>4. CASE ~ \A info \in infos[r] : info.dfa
      <4>1. rpc' = [rpc EXCEPT ![r] = "crashed"] /\ UNCHANGED regexes
        BY <2>4, <3>4 DEF MatchRegexes
      <4> QED
        BY <1>1, <3>2, <3>4, <4>1
        DEF IInv, TypeOK, ReadersOK, ReaderInv, ReaderStates
    <3> QED
      BY <3>3, <3>4
  <2>5. CASE FetchRecords(r)
    <3> DEFINE fetched ==
          {[regex |-> x, record |-> dict_info_read[x.index]] : x \in regexes[r]}
    <3>1. \A x \in regexes[r] : x \in RegexInfo /\ x.index \in 1 .. Len(dict_info_read)
      BY <2>5 DEF FetchRecords, IInv, ReaderInv, TypeOK, ReadersOK
    <3>2. \A i \in 1 .. Len(dict_info_read) : dict_info_read[i] \in DictInfo
      BY ElementOfSeq DEF IInv, TypeOK, SidesOK
    <3>3. fetched \subseteq Found
      BY <3>1, <3>2 DEF Found
    <3> HIDE DEF fetched
    <3>4. /\ found' = [found EXCEPT ![r] = fetched]
          /\ rpc' = [rpc EXCEPT ![r] = "done"]
          /\ UNCHANGED <<query, trie, hits, infos, regexes>>
      BY <2>5, <3>1 DEF FetchRecords, fetched
    <3> QED
      BY <1>1, <3>3, <3>4
      DEF IInv, TypeOK, ReadersOK, ReaderInv, ReaderStates
  <2>6. CASE Return(r)
    BY <1>1, <2>6 DEF Return, IInv, TypeOK, ReadersOK, ReaderInv, ReaderStates, Pointers
  <2> QED
    BY <2>1, <2>2, <2>3, <2>4, <2>5, <2>6 DEF ReaderStep
<1> QED
  BY <1>2, <1>3 DEF IInv, TypeOK

-----------------------------------------------------------------------------
(***************************************************************************)
(* What Finalize's steps do to the links between vectors and trie.         *)
(***************************************************************************)
LEMMA CollectLinked ==
    ASSUME NEW ps \in Seq(PrefixInfo), NEW ds \in Seq(DictInfo),
           Linked(ps, ds), NEW n \in 1 .. Len(ds),
           NEW r \in RegexInfo, r.index = n, r.regex = GetKey(ds[n].key)
    PROVE  LET p == PrefixOf[r.regex]
           IN  /\ \A i \in 1 .. Len(ps) : ps[i].prefix = p =>
                     Linked([ps EXCEPT ![i].repo = Append(@, r)], ds)
               /\ Linked(Append(ps, NewPrefixInfo(p, r)), ds)
<1> DEFINE p == PrefixOf[r.regex]
<1>0. Len(ps) \in Nat /\ Len(ds) \in Nat
  BY LenProperties
<1>a. p \in Prefixes
  BY TextAssumption DEF RegexInfo
<1>1. ASSUME NEW i \in 1 .. Len(ps), ps[i].prefix = p
      PROVE  Linked([ps EXCEPT ![i].repo = Append(@, r)], ds)
  <2> DEFINE qs == [ps EXCEPT ![i].repo = Append(@, r)]
  <2>0. ps[i] \in PrefixInfo
    BY ElementOfSeq
  <2>1. ps[i].repo \in Seq(RegexInfo)
    BY <2>0 DEF PrefixInfo
  <2>2. /\ Len(Append(ps[i].repo, r)) = Len(ps[i].repo) + 1
        /\ \A j \in 1 .. Len(ps[i].repo) : Append(ps[i].repo, r)[j] = ps[i].repo[j]
        /\ Append(ps[i].repo, r)[Len(ps[i].repo) + 1] = r
        /\ Len(ps[i].repo) \in Nat
    BY <2>1, AppendProperties, LenProperties
  <2>3. /\ Len(qs) = Len(ps)
        /\ \A k \in 1 .. Len(ps) : k # i => qs[k] = ps[k]
        /\ qs[i] = [ps[i] EXCEPT !.repo = Append(@, r)]
    <3> DEFINE e == [ps[i] EXCEPT !.repo = Append(@, r)]
    <3>1. Append(ps[i].repo, r) \in Seq(RegexInfo)
      BY <2>1, AppendProperties
    <3>2. e \in PrefixInfo
      BY <2>0, <3>1 DEF PrefixInfo
    <3>3. qs = [ps EXCEPT ![i] = e]
      OBVIOUS
    <3> HIDE DEF e, qs
    <3>4. Len(qs) = Len(ps) /\ \A k \in 1 .. Len(ps) : qs[k] = IF k = i THEN e ELSE ps[k]
      BY <3>2, <3>3, ExceptSeq
    <3> QED
      BY <3>4 DEF e
  <2>4. /\ qs[i].repo = Append(ps[i].repo, r)
        /\ qs[i].online = ps[i].online
        /\ qs[i].offline = ps[i].offline
        /\ qs[i].prefix = p
    BY <1>1, <2>0, <2>3 DEF PrefixInfo
  <2> HIDE DEF qs, p
  <2>5. ASSUME NEW k \in 1 .. Len(qs)
        PROVE  /\ qs[k].online \subseteq 1 .. Len(qs[k].repo)
               /\ qs[k].offline \subseteq 1 .. Len(qs[k].repo)
               /\ \A j \in 1 .. Len(qs[k].repo) :
                     /\ qs[k].repo[j].index \in 1 .. Len(ds)
                     /\ qs[k].repo[j].regex = GetKey(ds[qs[k].repo[j].index].key)
                     /\ PrefixOf[qs[k].repo[j].regex] = qs[k].prefix
    <3>1. CASE k # i
      <4>1. k \in 1 .. Len(ps) /\ qs[k] = ps[k]
        BY <2>3, <3>1
      <4> QED
        BY <4>1 DEF Linked
    <3>2. CASE k = i
      <4>1. ASSUME NEW j \in 1 .. Len(ps[i].repo) + 1
            PROVE  /\ qs[i].repo[j].index \in 1 .. Len(ds)
                   /\ qs[i].repo[j].regex = GetKey(ds[qs[i].repo[j].index].key)
                   /\ PrefixOf[qs[i].repo[j].regex] = p
        <5>1. CASE j = Len(ps[i].repo) + 1
          BY <2>2, <2>4, <5>1 DEF p
        <5>2. CASE j # Len(ps[i].repo) + 1
          <6>1. j \in 1 .. Len(ps[i].repo)
            BY <2>2, <5>2
          <6>2. qs[i].repo[j] = ps[i].repo[j]
            BY <2>2, <2>4, <6>1
          <6> QED
            BY <1>1, <6>1, <6>2 DEF Linked
        <5> QED
          BY <5>1, <5>2
      <4>2. /\ ps[i].online \subseteq 1 .. Len(ps[i].repo)
            /\ ps[i].offline \subseteq 1 .. Len(ps[i].repo)
        BY DEF Linked
      <4>3. 1 .. Len(ps[i].repo) \subseteq 1 .. Len(qs[i].repo)
        BY <2>2, <2>4
      <4>4. 1 .. Len(qs[i].repo) = 1 .. Len(ps[i].repo) + 1
        BY <2>2, <2>4
      <4>5. /\ qs[i].online \subseteq 1 .. Len(qs[i].repo)
            /\ qs[i].offline \subseteq 1 .. Len(qs[i].repo)
        BY <2>4, <4>2, <4>3
      <4> QED
        BY <2>4, <3>2, <4>1, <4>4, <4>5
    <3> QED
      BY <3>1, <3>2
  <2> QED
    BY <2>5 DEF Linked, qs
<1>2. Linked(Append(ps, NewPrefixInfo(p, r)), ds)
  <2> DEFINE e == NewPrefixInfo(p, r)
             qs == Append(ps, e)
  <2>1. /\ Len(qs) = Len(ps) + 1
        /\ \A i \in 1 .. Len(ps) : qs[i] = ps[i]
        /\ qs[Len(ps) + 1] = e
    <3>1. <<r>> \in Seq(RegexInfo)
      OBVIOUS
    <3>2. e \in PrefixInfo
      BY <1>a, <3>1 DEF NewPrefixInfo, PrefixInfo
    <3> HIDE DEF e
    <3> QED
      BY <3>2, AppendProperties
  <2>2. /\ e.online = {} /\ e.offline = {} /\ e.prefix = p
        /\ e.repo = <<r>> /\ Len(e.repo) = 1 /\ e.repo[1] = r
    BY DEF NewPrefixInfo
  <2> HIDE DEF qs, e
  <2>3. ASSUME NEW k \in 1 .. Len(qs)
        PROVE  /\ qs[k].online \subseteq 1 .. Len(qs[k].repo)
               /\ qs[k].offline \subseteq 1 .. Len(qs[k].repo)
               /\ \A j \in 1 .. Len(qs[k].repo) :
                     /\ qs[k].repo[j].index \in 1 .. Len(ds)
                     /\ qs[k].repo[j].regex = GetKey(ds[qs[k].repo[j].index].key)
                     /\ PrefixOf[qs[k].repo[j].regex] = qs[k].prefix
    <3>1. CASE k = Len(ps) + 1
      <4>1. qs[k] = e
        BY <2>1, <3>1
      <4> QED
        BY <2>2, <4>1
    <3>2. CASE k # Len(ps) + 1
      <4>1. k \in 1 .. Len(ps) /\ qs[k] = ps[k]
        BY <1>0, <2>1, <3>2
      <4> QED
        BY <4>1 DEF Linked
    <3> QED
      BY <3>1, <3>2
  <2> QED
    BY <2>3 DEF Linked, qs, e
<1> QED
  BY <1>1, <1>2

\* Sorting the infos keeps every repo linked to the records.
LEMMA SortedLinked ==
    ASSUME NEW ps \in Seq(PrefixInfo), NEW ds, Linked(ps, ds), NEW pi \in SortOrders(ps)
    PROVE  Linked([i \in 1 .. Len(ps) |-> ps[pi[i]]], ds)
<1> DEFINE qs == [i \in 1 .. Len(ps) |-> ps[pi[i]]]
<1>1. Len(qs) = Len(ps) /\ pi \in [1 .. Len(ps) -> 1 .. Len(ps)]
  BY SortedTypes
<1>2. \A i \in 1 .. Len(ps) : qs[i] = ps[pi[i]] /\ pi[i] \in 1 .. Len(ps)
  BY <1>1
<1> HIDE DEF qs
<1>3. ASSUME NEW i \in 1 .. Len(qs)
      PROVE  /\ qs[i].online \subseteq 1 .. Len(qs[i].repo)
             /\ qs[i].offline \subseteq 1 .. Len(qs[i].repo)
             /\ \A j \in 1 .. Len(qs[i].repo) :
                   /\ qs[i].repo[j].index \in 1 .. Len(ds)
                   /\ qs[i].repo[j].regex = GetKey(ds[qs[i].repo[j].index].key)
                   /\ PrefixOf[qs[i].repo[j].regex] = qs[i].prefix
  <2>1. PICK k \in 1 .. Len(ps) : qs[i] = ps[k]
    BY <1>1, <1>2
  <2> QED
    BY <2>1 DEF Linked
<1>4. Linked(qs, ds)
  BY <1>3 DEF Linked
<1> QED
  BY <1>4 DEF qs

\* So does BuildDfa, and it changes no prefix.
LEMMA DfaLinked ==
    ASSUME NEW ps \in Seq(PrefixInfo), NEW ds, Linked(ps, ds), NEW bad
    PROVE  LET qs == [i \in 1 .. Len(ps) |-> DfaInfo(ps, bad, i)]
           IN  /\ Linked(qs, ds)
               /\ \A i \in 1 .. Len(ps) : qs[i].prefix = ps[i].prefix
<1> DEFINE qs == [i \in 1 .. Len(ps) |-> DfaInfo(ps, bad, i)]
<1>1. Len(qs) = Len(ps)
  BY DfaTypes
<1>2. ASSUME NEW i \in 1 .. Len(ps)
      PROVE  /\ qs[i].prefix = ps[i].prefix /\ qs[i].repo = ps[i].repo
             /\ qs[i].online \subseteq 1 .. Len(ps[i].repo)
             /\ qs[i].offline \subseteq 1 .. Len(ps[i].repo)
  <2>1. ps[i] \in PrefixInfo
    BY ElementOfSeq
  <2>2. qs[i] = DfaInfo(ps, bad, i)
    OBVIOUS
  <2>3. /\ ps[i].online \subseteq 1 .. Len(ps[i].repo)
        /\ ps[i].offline \subseteq 1 .. Len(ps[i].repo)
    BY DEF Linked
  <2> QED
    BY <2>1, <2>2, <2>3 DEF DfaInfo, PrefixInfo
<1> HIDE DEF qs
<1>3. Linked(qs, ds)
  BY <1>1, <1>2 DEF Linked
<1> QED
  BY <1>2, <1>3 DEF qs

\* The index of a trie leads to the infos it was built from.
LEMMA TrieIndexLeads ==
    ASSUME NEW ps \in Seq(PrefixInfo)
    PROVE  /\ TrieIndex(ps) \in [Prefixes -> Nat]
           /\ \A p \in Prefixes : TrieIndex(ps)[p] # 0 =>
                 TrieIndex(ps)[p] \in 1 .. Len(ps) /\ ps[TrieIndex(ps)[p]].prefix = p
<1>1. Len(ps) \in Nat
  BY LenProperties
<1>2. ASSUME NEW p \in Prefixes
      PROVE  /\ TrieIndex(ps)[p] \in Nat
             /\ TrieIndex(ps)[p] # 0 =>
                 TrieIndex(ps)[p] \in 1 .. Len(ps) /\ ps[TrieIndex(ps)[p]].prefix = p
  <2>1. CASE p # EmptyPrefix /\ \E i \in 1 .. Len(ps) : ps[i].prefix = p
    <3>1. TrieIndex(ps)[p] = CHOOSE i \in 1 .. Len(ps) : ps[i].prefix = p
      BY <2>1 DEF TrieIndex
    <3> QED
      BY <1>1, <2>1, <3>1
  <2>2. CASE ~(p # EmptyPrefix /\ \E i \in 1 .. Len(ps) : ps[i].prefix = p)
    <3>1. TrieIndex(ps)[p] = 0
      BY <2>2 DEF TrieIndex
    <3> QED
      BY <3>1
  <2> QED
    BY <2>1, <2>2
<1>3. \E S : TrieIndex(ps) = [p \in Prefixes |-> TrieIndex(ps)[p]]
  BY DEF TrieIndex
<1> QED
  BY <1>2, <1>3

-----------------------------------------------------------------------------
(***************************************************************************)
(* The invariant holds through every step of the writer.                   *)
(***************************************************************************)

\* After publication no writer step touches the read side or the tries.
LEMMA PublishedStep ==
    ASSUME IInv, published, WriterStep \/ WriterCall
    PROVE  /\ UNCHANGED <<readSide, darts, darts_write, published, readers>>
           /\ wpc' \in {"idle", "read", "collect", "build"}
<1>1. wpc \in {"idle", "read", "collect", "build"} /\ darts_write = NULL
  BY DEF IInv, PublishedInv
<1> QED
  BY <1>1 DEF WriterStep, WriterCall, ReadLine, EndOfFile, CollectRecord, CollectAs, SortPrefixes,
     BuildTrie, BuildTrieFails, FinalizeFails, BuildDfa, EntryWrite, SwapDictInfo,
     SwapPrefixInfo, SwapDarts, ExitWrite, CopyBack, FreeTrie, LoadOpenFails, Clear,
     Dump, Load, Reload, Del, Set, Add, Edit, readSide, writeSide, control

\* Readers do not notice the writer: before publication there are none, after
\* it what they read stays.
LEMMA WriterKeepsReaders ==
    ASSUME IInv, WriterStep \/ WriterCall
    PROVE  ReadersOK' /\ ReaderInv'
<1>1. UNCHANGED <<rpc, query, trie, hits, infos, regexes, found>>
  BY DEF WriterStep, WriterCall, ReadLine, EndOfFile, CollectRecord, CollectAs,
     SortPrefixes, BuildTrie, BuildTrieFails, FinalizeFails, BuildDfa, EntryWrite,
     SwapDictInfo, SwapPrefixInfo, SwapDarts, ExitWrite, CopyBack, FreeTrie,
     LoadOpenFails, Clear, Dump, Load, Reload, Del, Set, Add, Edit, readers
<1>2. ReadersOK /\ ReaderInv /\ LoaderInv
  BY DEF IInv, TypeOK
<1>3. ReadersOK'
  BY <1>1, <1>2 DEF ReadersOK
<1>4. CASE published
  <2>1. UNCHANGED <<dict_info_read, prefix_info_read, darts_read>>
    BY <1>4, PublishedStep DEF readSide
  <2> QED
    BY <1>1, <1>2, <1>3, <2>1 DEF ReaderInv
<1>5. CASE ~published
  <2>1. \A r \in Readers : rpc'[r] = "idle"
    BY <1>1, <1>2, <1>5 DEF LoaderInv
  <2> QED
    BY <1>3, <2>1 DEF ReaderInv
<1> QED
  BY <1>4, <1>5

\* Reading the file and editing: the records stay typed and accepted, and
\* before publication the infos are still empty.
LEMMA ReadingInv ==
    ASSUME IInv,
           \/ LoadOpenFails \/ ReadLine \/ EndOfFile
           \/ \E f \in Files : Load(f) \/ Reload(f)
    PROVE  SidesOK' /\ WriterOK' /\ AcceptInv' /\ LoaderInv' /\ PublishedInv'
<1> USE DEF IInv, TypeOK, readSide, writeSide, control, readers
<1>1. CASE LoadOpenFails
  <2>1. SidesOK' /\ WriterOK' /\ AcceptInv'
    BY <1>1 DEF LoadOpenFails, SidesOK, WriterOK, WriterStates, AcceptInv, Accepts
  <2>2. LoaderInv'
    BY <1>1 DEF LoadOpenFails, LoaderInv, Linked, Leads, Searchable, Loading, Building, Swapped
  <2>3. PublishedInv'
    BY <1>1 DEF LoadOpenFails, PublishedInv, Linked, Leads, Searchable
  <2> QED
    BY <2>1, <2>2, <2>3
<1>2. CASE \E f \in Files : Load(f)
  <2>1. PICK f \in Files : Load(f)
    BY <1>2
  <2>2. f \in Seq(Lines)
    BY LoadAssumption
  <2>3. SidesOK' /\ WriterOK' /\ AcceptInv'
    BY <2>1, <2>2 DEF Load, SidesOK, WriterOK, WriterStates, AcceptInv, Accepts
  <2>4. LoaderInv'
    BY <2>1 DEF Load, LoaderInv, Linked, Leads, Searchable, Loading, Building, Swapped
  <2>5. PublishedInv'
    BY <2>1 DEF Load, PublishedInv, Linked, Leads, Searchable
  <2> QED
    BY <2>3, <2>4, <2>5
<1>3. CASE \E f \in Files : Reload(f)
  <2>1. PICK f \in Files : Reload(f)
    BY <1>3
  <2>2. f \in Seq(Lines)
    BY LoadAssumption
  <2>3. SidesOK' /\ WriterOK' /\ AcceptInv'
    BY <2>1, <2>2 DEF Reload, SidesOK, WriterOK, WriterStates, AcceptInv, Accepts
  <2>4. LoaderInv'
    BY <2>1 DEF Reload, LoaderInv, Linked, Leads, Searchable, Loading, Building, Swapped
  <2>5. PublishedInv'
    BY <2>1 DEF Reload, PublishedInv, Linked, Leads, Searchable
  <2> QED
    BY <2>3, <2>4, <2>5
<1>4. CASE ReadLine
  <2> DEFINE key == [text |-> Head(lines).text, build |-> TRUE]
  <2>1. Head(lines) \in Lines /\ Tail(lines) \in Seq(Lines)
    BY <1>4, HeadTailProperties DEF ReadLine, WriterOK
  <2>2. key \in IKeys /\ Head(lines).value \in Values
    BY <2>1 DEF IKeys, Lines
  <2>3. dict_info_write' \in Seq(DictInfo) /\ Accepts(dict_info_write)'
    <3>1. CASE Acceptable(key)
      BY <1>4, <2>2, <3>1, AppendAccepted
      DEF ReadLine, AppendRecord, SidesOK, AcceptInv, Accepts
    <3>2. CASE ~Acceptable(key)
      BY <1>4, <3>2 DEF ReadLine, SidesOK, AcceptInv, Accepts
    <3> QED
      BY <3>1, <3>2
  <2>4. /\ UNCHANGED <<readSide, prefix_info_write, darts_write, darts, wpc, next,
                       counter, published, edits, dumped, readers>>
        /\ lines' = Tail(lines)
        /\ wpc = "read"
    BY <1>4 DEF ReadLine
  <2>5. SidesOK' /\ WriterOK' /\ AcceptInv'
    BY <2>1, <2>3, <2>4 DEF SidesOK, WriterOK, AcceptInv, Accepts
  <2>6. PublishedInv'
    BY <2>4 DEF PublishedInv, Linked, Leads, Searchable
  <2>7. LoaderInv'
    <3>1. prefix_info_write = <<>> => Linked(prefix_info_write, dict_info_write)'
      BY <2>4 DEF Linked
    <3> QED
      BY <2>4, <3>1 DEF LoaderInv, Loading, Building, Swapped
  <2> QED
    BY <2>5, <2>6, <2>7
<1>5. CASE EndOfFile
  <2>1. SidesOK' /\ WriterOK' /\ AcceptInv'
    BY <1>5 DEF EndOfFile, SidesOK, WriterOK, WriterStates, AcceptInv, Accepts
  <2>2. LoaderInv'
    BY <1>5 DEF EndOfFile, LoaderInv, Linked, Leads, Searchable, Loading, Building, Swapped
  <2>3. PublishedInv'
    BY <1>5 DEF EndOfFile, PublishedInv, Linked, Leads, Searchable
  <2> QED
    BY <2>1, <2>2, <2>3
<1> QED
  BY <1>1, <1>2, <1>3, <1>4, <1>5

\* A turn of the loop: an accepted record has a text and a prefix, and joins
\* or starts an info that stays linked.
LEMMA CollectInv ==
    ASSUME IInv, CollectRecord
    PROVE  SidesOK' /\ WriterOK' /\ AcceptInv' /\ LoaderInv' /\ PublishedInv'
<1> USE DEF readSide, readers
<1> DEFINE info == dict_info_write[next]
           r == [regex |-> GetKey(info.key), index |-> next]
           p == PrefixOfRecord(info)
<1>1. SidesOK /\ WriterOK /\ AcceptInv /\ LoaderInv /\ PublishedInv
  BY DEF IInv, TypeOK
<1>2. /\ wpc = "collect" /\ next <= Len(dict_info_write) /\ next' = next + 1
      /\ \/ \E i \in 1 .. Len(prefix_info_write) :
              /\ prefix_info_write[i].prefix = p
              /\ prefix_info_write' =
                    [prefix_info_write EXCEPT ![i].repo = Append(@, r)]
         \/ prefix_info_write' = Append(prefix_info_write, NewPrefixInfo(p, r))
      /\ UNCHANGED <<dict_info_read, prefix_info_read, darts_read, dict_info_write,
                     darts_write, darts, wpc, lines, counter, published, edits, dumped>>
  BY DEF CollectRecord, CollectAs
<1>3. next \in 1 .. Len(dict_info_write)
  BY <1>1, <1>2, LenProperties DEF SidesOK, WriterOK
<1>4. info \in DictInfo /\ Acceptable(info.key)
  BY <1>1, <1>3, ElementOfSeq DEF SidesOK, AcceptInv, Accepts
<1>5. GetKey(info.key) \in Texts /\ PrefixOf[GetKey(info.key)] \in Prefixes
  BY <1>4, AcceptedText DEF DictInfo
<1>6. /\ r \in RegexInfo /\ r.index = next
      /\ r.regex = GetKey(dict_info_write[next].key) /\ p = PrefixOf[r.regex]
      /\ p \in Prefixes
  BY <1>1, <1>5 DEF RegexInfo, PrefixOfRecord, WriterOK
<1> HIDE DEF r, p, info
<1>7. prefix_info_write' \in Seq(PrefixInfo)
  <2>1. prefix_info_write \in Seq(PrefixInfo)
    BY <1>1 DEF SidesOK
  <2>2. /\ \A i \in 1 .. Len(prefix_info_write) :
              [prefix_info_write EXCEPT ![i].repo = Append(@, r)] \in Seq(PrefixInfo)
        /\ Append(prefix_info_write, NewPrefixInfo(p, r)) \in Seq(PrefixInfo)
    BY <1>6, <2>1, CollectTypes
  <2> QED
    BY <1>2, <2>2
<1>8. ~published => Linked(prefix_info_write', dict_info_write)
  <2> SUFFICES ASSUME ~published PROVE Linked(prefix_info_write', dict_info_write)
    OBVIOUS
  <2>1. /\ prefix_info_write \in Seq(PrefixInfo) /\ dict_info_write \in Seq(DictInfo)
        /\ Linked(prefix_info_write, dict_info_write)
    BY <1>1, <1>2 DEF SidesOK, LoaderInv, Loading
  <2>2. /\ \A i \in 1 .. Len(prefix_info_write) :
              prefix_info_write[i].prefix = PrefixOf[r.regex] =>
                 Linked([prefix_info_write EXCEPT ![i].repo = Append(@, r)], dict_info_write)
        /\ Linked(Append(prefix_info_write, NewPrefixInfo(PrefixOf[r.regex], r)),
                  dict_info_write)
    BY <1>3, <1>6, <2>1, CollectLinked
  <2> QED
    BY <1>2, <1>6, <2>2
<1>9. SidesOK' /\ WriterOK' /\ AcceptInv'
  BY <1>1, <1>2, <1>7 DEF SidesOK, WriterOK, AcceptInv, Accepts
<1>10. PublishedInv'
  BY <1>1, <1>2 DEF PublishedInv, Linked, Leads, Searchable
<1>11. LoaderInv'
  <2> SUFFICES ASSUME ~published PROVE LoaderInv'
    BY <1>2 DEF LoaderInv
  <2>1. Linked(prefix_info_write, dict_info_write)'
    BY <1>2, <1>8 DEF Linked
  <2>2. \A q \in Readers : rpc'[q] = "idle"
    BY <1>1 DEF LoaderInv, CollectRecord, CollectAs
  <2> QED
    BY <1>1, <1>2, <2>1, <2>2 DEF LoaderInv, Loading, Building, Swapped
<1> QED
  BY <1>9, <1>10, <1>11

\* BuildTrie and BuildDfa: only a loader that is not published gets past the
\* first, and it leaves a trie that leads to the infos.
LEMMA BuildInv ==
    ASSUME IInv, SortPrefixes \/ BuildTrie \/ BuildTrieFails \/ BuildDfa
    PROVE  SidesOK' /\ WriterOK' /\ AcceptInv' /\ LoaderInv' /\ PublishedInv'
<1> USE DEF readSide, writeSide, control, readers
<1>0. SidesOK /\ WriterOK /\ AcceptInv /\ LoaderInv /\ PublishedInv
  BY DEF IInv, TypeOK
<1>1. CASE SortPrefixes
  <2>1. /\ wpc = "collect" /\ wpc' = "build"
        /\ UNCHANGED <<readSide, dict_info_write, darts_write, darts, control, readers>>
    BY <1>1 DEF SortPrefixes
  <2>2. PICK pi \in SortOrders(prefix_info_write) :
          prefix_info_write' =
             [i \in 1 .. Len(prefix_info_write) |-> prefix_info_write[pi[i]]]
    BY <1>1 DEF SortPrefixes
  <2>3. prefix_info_write \in Seq(PrefixInfo)
    BY <1>0 DEF SidesOK
  <2>4. prefix_info_write' \in Seq(PrefixInfo)
    BY <2>2, <2>3, SortedTypes
  <2>5. Linked(prefix_info_write, dict_info_write)
          => Linked(prefix_info_write', dict_info_write)
    BY <2>2, <2>3, SortedLinked
  <2>6. SidesOK' /\ WriterOK' /\ AcceptInv'
    BY <1>0, <2>1, <2>4 DEF SidesOK, WriterOK, WriterStates, AcceptInv, Accepts
  <2>7. PublishedInv'
    BY <1>0, <2>1 DEF PublishedInv, Linked, Leads, Searchable
  <2>8. ~published => Linked(prefix_info_write, dict_info_write)'
    BY <1>0, <2>1, <2>5 DEF LoaderInv, Loading, Linked
  <2>9. LoaderInv'
    BY <1>0, <2>1, <2>8 DEF LoaderInv, Loading, Building, Swapped
  <2> QED
    BY <2>6, <2>7, <2>9
<1>2. CASE BuildTrie
  <2>1. /\ wpc = "build" /\ wpc' = "dfa" /\ darts_write # NULL
        /\ darts' = [darts EXCEPT ![darts_write].built = TRUE,
                                  ![darts_write].index = TrieIndex(prefix_info_write)]
        /\ UNCHANGED <<readSide, writeSide, control, readers>>
    BY <1>2 DEF BuildTrie
  <2>2. ~published /\ darts_write = "second" /\ darts_read = "first"
    BY <1>0, <2>1 DEF PublishedInv, LoaderInv, Loading
  <2>3. prefix_info_write \in Seq(PrefixInfo) /\ darts \in [Tries -> DartsDatrie]
    BY <1>0 DEF SidesOK
  <2>4. PICK ix : ix = TrieIndex(prefix_info_write)
    OBVIOUS
  <2>5. /\ ix \in [Prefixes -> Nat]
        /\ \A p \in Prefixes : ix[p] # 0 =>
              ix[p] \in 1 .. Len(prefix_info_write) /\ prefix_info_write[ix[p]].prefix = p
    BY <2>3, <2>4, TrieIndexLeads
  <2>6. /\ darts' \in [Tries -> DartsDatrie]
        /\ darts'["second"].index = ix /\ darts'["second"].built
        /\ darts'["second"].live = darts["second"].live
    <3>1. PICK d : d = [darts["second"] EXCEPT !.built = TRUE, !.index = ix]
      OBVIOUS
    <3>2. darts' = [darts EXCEPT !["second"] = d]
      BY <2>1, <2>2, <2>3, <2>4, <3>1 DEF Tries, DartsDatrie
    <3>3. "second" \in Tries /\ darts["second"] \in DartsDatrie
      BY <2>3 DEF Tries
    <3>4. /\ d \in DartsDatrie /\ d.index = ix /\ d.built
          /\ d.live = darts["second"].live
      BY <2>5, <3>1, <3>3 DEF DartsDatrie
    <3> QED
      BY <2>3, <3>2, <3>3, <3>4
  <2>7. SidesOK' /\ WriterOK' /\ AcceptInv' /\ PublishedInv'
    BY <1>0, <2>1, <2>2, <2>6
    DEF SidesOK, WriterOK, WriterStates, AcceptInv, Accepts, PublishedInv
  <2>8. LoaderInv'
    <3>1. darts["second"].live
      BY <1>0, <2>1, <2>2 DEF LoaderInv, Loading
    <3>2. Leads(darts_write, prefix_info_write)'
      BY <2>1, <2>2, <2>5, <2>6, <3>1, NullAssumption DEF Leads, Searchable
    <3>3. Linked(prefix_info_write, dict_info_write)'
      BY <1>0, <2>1, <2>2 DEF LoaderInv, Loading, Linked
    <3> QED
      BY <1>0, <2>1, <2>2, <2>6, <3>1, <3>2, <3>3
      DEF LoaderInv, Loading, Building, Swapped
  <2> QED
    BY <2>7, <2>8
<1>3. CASE BuildTrieFails
  BY <1>0, <1>3 DEF BuildTrieFails, FinalizeFails, SidesOK, WriterOK, WriterStates,
     AcceptInv, LoaderInv, PublishedInv, Accepts, Linked, Leads, Searchable, Loading,
     Building, Swapped
<1>4. CASE BuildDfa
  <2>1. /\ wpc = "dfa" /\ wpc' = "enter"
        /\ UNCHANGED <<readSide, dict_info_write, darts_write, darts, control, readers>>
    BY <1>4 DEF BuildDfa
  <2>2. PICK bad : prefix_info_write' =
          [i \in 1 .. Len(prefix_info_write) |-> DfaInfo(prefix_info_write, bad, i)]
    BY <1>4 DEF BuildDfa, DfaInfo
  <2>3. prefix_info_write \in Seq(PrefixInfo)
    BY <1>0 DEF SidesOK
  <2>4. /\ ~published /\ darts_write = "second" /\ darts_read = "first"
        /\ Linked(prefix_info_write, dict_info_write)
        /\ Leads(darts_write, prefix_info_write)
    BY <1>0, <2>1 DEF PublishedInv, LoaderInv, Building
  <2>5. prefix_info_write' \in Seq(PrefixInfo)
        /\ Len(prefix_info_write') = Len(prefix_info_write)
    BY <2>2, <2>3, DfaTypes
  <2>6. /\ Linked(prefix_info_write', dict_info_write)
        /\ \A i \in 1 .. Len(prefix_info_write) :
              prefix_info_write'[i].prefix = prefix_info_write[i].prefix
    BY <2>2, <2>3, <2>4, DfaLinked
  <2>7. Linked(prefix_info_write, dict_info_write)'
    BY <2>1, <2>6 DEF Linked
  <2>8. Leads(darts_write, prefix_info_write)'
    BY <2>1, <2>4, <2>5, <2>6 DEF Leads, Searchable
  <2>9. SidesOK' /\ WriterOK' /\ AcceptInv' /\ PublishedInv'
    BY <1>0, <2>1, <2>4, <2>5
    DEF SidesOK, WriterOK, WriterStates, AcceptInv, Accepts, PublishedInv
  <2>10. LoaderInv'
    BY <1>0, <2>1, <2>4, <2>7, <2>8 DEF LoaderInv, Loading, Building, Swapped
  <2> QED
    BY <2>9, <2>10
<1> QED
  BY <1>1, <1>2, <1>3, <1>4

\* Separation runs once, before publication; each of its steps carries the
\* links of the write side over to the read side.
LEMMA SeparationInv ==
    ASSUME IInv,
           \/ EntryWrite \/ SwapDictInfo \/ SwapPrefixInfo \/ SwapDarts
           \/ ExitWrite \/ CopyBack \/ FreeTrie
    PROVE  SidesOK' /\ WriterOK' /\ AcceptInv' /\ LoaderInv' /\ PublishedInv'
<1> USE DEF readSide, writeSide, control, readers
<1>0. SidesOK /\ WriterOK /\ AcceptInv /\ LoaderInv /\ PublishedInv
  BY DEF IInv, TypeOK
<1>1. ~published
  BY <1>0 DEF PublishedInv, EntryWrite, SwapDictInfo, SwapPrefixInfo, SwapDarts,
     ExitWrite, CopyBack, FreeTrie
<1> USE DEF SidesOK, WriterOK, WriterStates, AcceptInv, Accepts, LoaderInv,
     PublishedInv, Loading, Building, Swapped
<1>2. CASE EntryWrite
  <2>1. /\ wpc = "enter" /\ wpc' = "swap_dict" /\ counter' = counter + 1
        /\ UNCHANGED <<readSide, writeSide, darts, lines, next, published, edits,
                       dumped, readers>>
    BY <1>2 DEF EntryWrite
  <2>2. /\ Linked(prefix_info_write, dict_info_write)
        /\ Leads(darts_write, prefix_info_write)
    BY <1>0, <1>1, <2>1
  <2>3. /\ Linked(prefix_info_write, dict_info_write)'
        /\ Leads(darts_write, prefix_info_write)'
    BY <2>1, <2>2 DEF Linked, Leads, Searchable
  <2> QED
    BY <1>0, <1>1, <2>1, <2>3
<1>3. CASE SwapDictInfo
  BY <1>0, <1>1, <1>3 DEF SwapDictInfo, Linked, Leads, Searchable
<1>4. CASE SwapPrefixInfo
  BY <1>0, <1>1, <1>4 DEF SwapPrefixInfo, Linked, Leads, Searchable
<1>5. CASE SwapDarts
  BY <1>0, <1>1, <1>5 DEF SwapDarts, Linked, Leads, Searchable
<1>6. CASE ExitWrite
  BY <1>0, <1>1, <1>6 DEF ExitWrite, Linked, Leads, Searchable
<1>7. CASE CopyBack
  BY <1>0, <1>1, <1>7 DEF CopyBack, Linked, Leads, Searchable
<1>8. CASE FreeTrie
  <2>1. /\ darts_write = "first" /\ darts_read = "second"
        /\ Linked(prefix_info_read, dict_info_read)
        /\ Leads(darts_read, prefix_info_read)
    BY <1>0, <1>1, <1>8 DEF FreeTrie
  <2>2. /\ darts' = [darts EXCEPT !["first"].live = FALSE]
        /\ darts_write' = NULL /\ published' /\ wpc' = "idle"
        /\ UNCHANGED <<readSide, dict_info_write, prefix_info_write, lines, next,
                       counter, edits, dumped>>
    BY <1>8, <2>1 DEF FreeTrie
  <2>3. darts' \in [Tries -> DartsDatrie] /\ darts'["second"] = darts["second"]
    BY <1>0, <2>2 DEF Tries, DartsDatrie
  <2>4. Leads(darts_read, prefix_info_read)' /\ Linked(prefix_info_read, dict_info_read)'
    BY <2>1, <2>2, <2>3 DEF Leads, Searchable, Linked
  <2> QED
    BY <1>0, <2>2, <2>3, <2>4 DEF Pointers
<1> QED
  BY <1>2, <1>3, <1>4, <1>5, <1>6, <1>7, <1>8

\* An edit is of a published dictionary and touches the write side alone.
LEMMA EditInv ==
    ASSUME IInv,
           \/ Clear \/ Dump
           \/ \E t \in Texts : Del(t)
           \/ \E t \in Texts, v \in Values : Set(t, v) \/ Add(t, v)
    PROVE  SidesOK' /\ WriterOK' /\ AcceptInv' /\ LoaderInv' /\ PublishedInv'
<1>0. SidesOK /\ WriterOK /\ AcceptInv /\ LoaderInv /\ PublishedInv
  BY DEF IInv, TypeOK
<1>1. Edit
  BY DEF Clear, Dump, Del, Set, Add
<1>2. /\ wpc = "idle" /\ edits' = edits + 1
      /\ UNCHANGED <<dict_info_read, prefix_info_read, darts_read, darts_write, darts,
                     wpc, lines, next, counter, published, rpc>>
  BY <1>1 DEF Edit, readSide, readers
<1>3. published
  BY <1>0, <1>2 DEF LoaderInv, WriterOK
<1>4. dumped' \in {NULL} \union [opened : BOOLEAN, rc : {0, 1}, records : {0}]
  <2>1. UNCHANGED dumped \/ Dump
    BY DEF Clear, Del, Set, Add
  <2>2. Dump => dumped' \in [opened : BOOLEAN, rc : {0, 1}, records : {0}]
    BY DEF Dump
  <2> QED
    BY <1>0, <2>1, <2>2 DEF WriterOK
<1>5. /\ dict_info_write \in Seq(DictInfo) /\ prefix_info_write \in Seq(PrefixInfo)
      /\ Accepts(dict_info_write)
  BY <1>0 DEF SidesOK, AcceptInv
<1>6. prefix_info_write' \in Seq(PrefixInfo)
  <2>1. prefix_info_write' = prefix_info_write \/ prefix_info_write' = <<>>
    BY DEF Clear, Dump, Del, Set, Add
  <2>2. <<>> \in Seq(PrefixInfo)
    OBVIOUS
  <2>3. CASE prefix_info_write' = prefix_info_write
    BY <1>5, <2>3
  <2>4. CASE prefix_info_write' = <<>>
    BY <2>2, <2>4
  <2> QED
    BY <2>1, <2>3, <2>4
<1>7. dict_info_write' \in Seq(DictInfo) /\ Accepts(dict_info_write')
  <2>1. CASE Clear
    BY <2>1 DEF Clear, Accepts
  <2>2. CASE Dump
    BY <1>5, <2>2 DEF Dump
  <2>3. CASE \E t \in Texts : Del(t)
    <3>1. PICK i \in 1 .. Len(dict_info_write) :
            dict_info_write' = RemoveIndex(dict_info_write, i)
      BY <2>3 DEF Del
    <3> QED
      BY <1>5, <3>1, RemoveAccepted
  <2>4. CASE \E t \in Texts, v \in Values : Set(t, v) \/ Add(t, v)
    <3>1. PICK t \in Texts, v \in Values : Set(t, v) \/ Add(t, v)
      BY <2>4
    <3> DEFINE key == [text |-> t, build |-> FALSE]
               d   == [key |-> key, value |-> v]
    <3>2. key \in IKeys /\ Acceptable(key)
      BY <3>1 DEF Set, Add, IKeys
    <3>3. \/ dict_info_write' = Append(dict_info_write, d)
          \/ \E i \in 1 .. Len(dict_info_write) :
                dict_info_write' = Append(RemoveIndex(dict_info_write, i), d)
      BY <3>1 DEF Set, Add, AppendRecord
    <3>4. CASE dict_info_write' = Append(dict_info_write, d)
      BY <1>5, <3>2, <3>4, AppendAccepted
    <3>5. CASE \E i \in 1 .. Len(dict_info_write) :
                 dict_info_write' = Append(RemoveIndex(dict_info_write, i), d)
      <4>1. PICK i \in 1 .. Len(dict_info_write) :
              dict_info_write' = Append(RemoveIndex(dict_info_write, i), d)
        BY <3>5
      <4>2. /\ RemoveIndex(dict_info_write, i) \in Seq(DictInfo)
            /\ Accepts(RemoveIndex(dict_info_write, i))
        BY <1>5, RemoveAccepted
      <4> QED
        BY <3>2, <4>1, <4>2, AppendAccepted
    <3> QED
      BY <3>3, <3>4, <3>5
  <2> QED
    BY <2>1, <2>2, <2>3, <2>4
<1>8. SidesOK' /\ WriterOK' /\ AcceptInv' /\ PublishedInv'
  BY <1>0, <1>2, <1>4, <1>6, <1>7
  DEF SidesOK, WriterOK, AcceptInv, Accepts, PublishedInv, Linked, Leads, Searchable
<1>9. LoaderInv'
  BY <1>2, <1>3 DEF LoaderInv
<1> QED
  BY <1>8, <1>9

\* The invariant is inductive.
LEMMA InvStep == IInv /\ [Next]_vars => IInv'
<1> SUFFICES ASSUME IInv, [Next]_vars PROVE IInv'
  OBVIOUS
<1>1. CASE WriterStep \/ WriterCall
  <2>1. ReadersOK' /\ ReaderInv'
    BY <1>1, WriterKeepsReaders
  <2>2. SidesOK' /\ WriterOK' /\ AcceptInv' /\ LoaderInv' /\ PublishedInv'
    BY <1>1, ReadingInv, CollectInv, BuildInv, SeparationInv, EditInv
    DEF WriterStep, WriterCall
  <2> QED
    BY <2>1, <2>2 DEF IInv, TypeOK
<1>2. CASE \E r \in Readers : ReaderStep(r) \/ \E q \in Queries : Get(r, q)
  BY <1>2, ReaderStepInv
<1>3. CASE UNCHANGED vars
  <2>1. UNCHANGED <<dict_info_read, prefix_info_read, darts_read, dict_info_write,
                    prefix_info_write, darts_write, darts, wpc>>
    BY <1>3 DEF vars, readSide, writeSide
  <2>2. UNCHANGED <<lines, next, counter, published, edits, dumped>>
    BY <1>3 DEF vars, control
  <2>3. UNCHANGED <<rpc, query, trie, hits, infos, regexes, found>>
    BY <1>3 DEF vars, readers
  <2>4. SidesOK' /\ AcceptInv'
    BY <2>1 DEF IInv, TypeOK, SidesOK, AcceptInv, Accepts
  <2>5. WriterOK'
    BY <2>1, <2>2 DEF IInv, TypeOK, WriterOK
  <2>6. ReadersOK'
    BY <2>3 DEF IInv, TypeOK, ReadersOK
  <2>7. LoaderInv'
    <3>1. CASE published
      BY <2>2, <3>1 DEF LoaderInv
    <3>2. CASE ~published
      <4>1. /\ Linked(prefix_info_write, dict_info_write)'
               = Linked(prefix_info_write, dict_info_write)
            /\ Linked(prefix_info_write, dict_info_read)'
               = Linked(prefix_info_write, dict_info_read)
            /\ Linked(prefix_info_read, dict_info_read)'
               = Linked(prefix_info_read, dict_info_read)
        BY <2>1
      <4>2. /\ Leads(darts_write, prefix_info_write)'
               = Leads(darts_write, prefix_info_write)
            /\ Leads(darts_write, prefix_info_read)'
               = Leads(darts_write, prefix_info_read)
            /\ Leads(darts_read, prefix_info_read)'
               = Leads(darts_read, prefix_info_read)
        BY <2>1 DEF Leads, Searchable
      <4> QED
        BY <2>1, <2>2, <2>3, <4>1, <4>2 DEF IInv, LoaderInv
    <3> QED
      BY <3>1, <3>2
  <2>8. PublishedInv'
    BY <2>1, <2>2 DEF IInv, PublishedInv, Linked, Leads, Searchable
  <2>9. ReaderInv'
    BY <2>1, <2>3 DEF IInv, ReaderInv
  <2> QED
    BY <2>4, <2>5, <2>6, <2>7, <2>8, <2>9 DEF IInv, TypeOK
<1> QED
  BY <1>1, <1>2, <1>3 DEF Next

\* What Get reads stays as it is: no step after publication writes it.
LEMMA FrozenStep ==
    IInv /\ [Next]_vars => (published => UNCHANGED <<readSide, darts>>)
<1> SUFFICES ASSUME IInv, [Next]_vars, published PROVE UNCHANGED <<readSide, darts>>
  OBVIOUS
<1>1. CASE WriterStep \/ WriterCall
  BY <1>1, PublishedStep
<1>2. CASE \E r \in Readers : ReaderStep(r) \/ \E q \in Queries : Get(r, q)
  BY <1>2 DEF ReaderStep, Get, SearchTrie, CopyPrefixInfo, MatchRegexes, FetchRecords,
     Return, unchangedByGet
<1>3. CASE UNCHANGED vars
  BY <1>3 DEF vars
<1> QED
  BY <1>1, <1>2, <1>3 DEF Next

-----------------------------------------------------------------------------
(***************************************************************************)
(* Theorems.                                                               *)
(***************************************************************************)

\* IInv holds throughout every behaviour.
THEOREM InvariantHolds == Spec => []IInv
BY InvInit, InvStep, PTL DEF Spec

\* Every variable of the dictionary and of its callers keeps its type.
THEOREM TypeCorrect == Spec => []TypeOK
<1>1. IInv => TypeOK
  BY DEF IInv
<1> QED
  BY <1>1, InvariantHolds, PTL

\* Get never touches a trie that is unbuilt or freed and never runs past the
\* end of a vector, with any number of readers beside loads and edits: a DFA
\* that was not compiled is all it can crash at (pattern_dict.cpp:199).
THEOREM ReadersCrashOnlyAtDfa == Spec => []CrashesOnlyAtDfa
<1>1. IInv => CrashesOnlyAtDfa
  BY DEF IInv, ReaderInv, CrashesOnlyAtDfa
<1> QED
  BY <1>1, InvariantHolds, PTL

\* What a published unit's trie, infos and records say of each other agrees.
THEOREM SnapshotIsConsistent == Spec => []SnapshotConsistent
<1>1. IInv => SnapshotConsistent
  <2> SUFFICES ASSUME IInv, published PROVE SnapshotConsistent
    BY DEF SnapshotConsistent
  <2>1. /\ Linked(prefix_info_read, dict_info_read)
        /\ Leads(darts_read, prefix_info_read)
    BY DEF IInv, PublishedInv
  <2>2. Len(prefix_info_read) \in Nat /\ Len(dict_info_read) \in Nat
    BY LenProperties DEF IInv, TypeOK, SidesOK
  <2> QED
    BY <2>1, <2>2 DEF SnapshotConsistent, Linked, Leads
<1> QED
  BY <1>1, InvariantHolds, PTL

\* After publication nothing Get reads is ever written, so that a Get works on
\* one snapshot although it takes no lock.
THEOREM ReadSideStaysFrozen == Spec => ReadSideFrozen
<1>1. IInv /\ [Next]_vars => [published => UNCHANGED <<readSide, darts>>]_vars
  BY FrozenStep
<1> QED
  BY <1>1, InvariantHolds, PTL DEF Spec, ReadSideFrozen

-----------------------------------------------------------------------------
(***************************************************************************)
(* What a Get answers.                                                     *)
(***************************************************************************)

\* The first n - 1 records of ds are filed in the repos of ps, each once, and
\* no prefix has two infos.
Filed(ps, ds, n) ==
    /\ \A i, k \in 1 .. Len(ps) : ps[i].prefix = ps[k].prefix => i = k
    /\ \A i \in 1 .. Len(ps) : \A j \in 1 .. Len(ps[i].repo) : ps[i].repo[j].index < n
    /\ \A i \in 1 .. Len(ps) : \A j, k \in 1 .. Len(ps[i].repo) :
          ps[i].repo[j].index = ps[i].repo[k].index => j = k
    /\ \A m \in 1 .. Len(ds) : m < n =>
          \E i \in 1 .. Len(ps) : \E j \in 1 .. Len(ps[i].repo) : ps[i].repo[j].index = m

\* No pattern has gone to a DFA or to the list beside it yet.
Undivided(ps) == \A i \in 1 .. Len(ps) : ps[i].online = {} /\ ps[i].offline = {}

\* Every pattern of a repo is in the DFA or, if RE2::Set refused it, in the
\* list beside it.
Divided(ps) ==
    \A i \in 1 .. Len(ps) :
        /\ ps[i].online =
              {j \in 1 .. Len(ps[i].repo) : ps[i].repo[j].regex \in Accepted}
        /\ ps[i].offline = (1 .. Len(ps[i].repo)) \ ps[i].online

\* Trie t has an index for the prefix of every info but the empty one.
Indexed(t, ps) ==
    /\ darts[t].index[EmptyPrefix] = 0
    /\ \A i \in 1 .. Len(ps) : ps[i].prefix # EmptyPrefix => darts[t].index[ps[i].prefix] # 0

Complete(t, ps, ds) ==
    Filed(ps, ds, Len(ds) + 1) /\ Indexed(t, ps) /\ Divided(ps)

\* Finalize files one record after the other, divides the patterns when all
\* are filed, and Separation takes the result to the read side.
CompleteInv ==
    /\ ~published =>
        /\ wpc \in Loading \union {"dfa"} => Undivided(prefix_info_write)
        /\ wpc = "collect" => Filed(prefix_info_write, dict_info_write, next)
        /\ wpc \in {"build", "dfa"} =>
              Filed(prefix_info_write, dict_info_write, Len(dict_info_write) + 1)
        /\ wpc = "dfa" => Indexed(darts_write, prefix_info_write)
        /\ wpc \in {"enter", "swap_dict"} =>
              Complete(darts_write, prefix_info_write, dict_info_write)
        /\ wpc = "swap_prefix" => Complete(darts_write, prefix_info_write, dict_info_read)
        /\ wpc = "swap_darts" => Complete(darts_write, prefix_info_read, dict_info_read)
        /\ wpc \in Swapped => Complete(darts_read, prefix_info_read, dict_info_read)
    /\ published => Complete(darts_read, prefix_info_read, dict_info_read)

\* The infos a Get of q meets, and the regexes of theirs it finds to match.
InfosOf(q) == {prefix_info_read[i] : i \in TrieHits(darts_read, q)}

RegexesOf(q) ==
    UNION {{info.repo[j] : j \in MatchedPositions(info, q)} : info \in InfosOf(q)}

\* At every step of a Get its locals hold what the read side gives for its
\* query, and nothing of an earlier call.
AnswerInv ==
    \A r \in Readers :
        /\ rpc[r] = "idle" => query[r] = NULL
        /\ rpc[r] # "idle" => query[r] \in Queries
        /\ rpc[r] \notin {"done", "crashed"} => found[r] = {}
        /\ rpc[r] = "copy" => hits[r] = TrieHits(darts_read, query[r])
        /\ rpc[r] = "match" => infos[r] = InfosOf(query[r])
        /\ rpc[r] = "fetch" => regexes[r] = RegexesOf(query[r])
        /\ rpc[r] = "done" => found[r] = AnswerTo(query[r])

-----------------------------------------------------------------------------
(***************************************************************************)
(* What a Get answers.                                                     *)
(***************************************************************************)

\* A search without a hit leaves nothing to answer.
LEMMA NoHitNoAnswer ==
    ASSUME NEW q, TrieHits(darts_read, q) = {}
    PROVE  AnswerTo(q) = {}
BY DEF AnswerTo

\* An answer is the records the matching regexes lead to.
LEMMA AnswerFetched ==
    ASSUME NEW q
    PROVE  AnswerTo(q) =
              {[regex |-> x, record |-> dict_info_read[x.index]] : x \in RegexesOf(q)}
BY DEF AnswerTo, RegexesOf, InfosOf

\* What a Get is to answer depends on the read side and the tries alone.
LEMMA AnswerKept ==
    ASSUME UNCHANGED <<readSide, darts>>, NEW q
    PROVE  /\ TrieHits(darts_read, q)' = TrieHits(darts_read, q)
           /\ InfosOf(q)' = InfosOf(q)
           /\ RegexesOf(q)' = RegexesOf(q)
           /\ AnswerTo(q)' = AnswerTo(q)
<1>1. UNCHANGED <<dict_info_read, prefix_info_read, darts_read, darts>>
  BY DEF readSide
<1>2. TrieHits(darts_read, q)' = TrieHits(darts_read, q)
  BY <1>1 DEF TrieHits
<1>3. InfosOf(q)' = InfosOf(q)
  BY <1>1, <1>2 DEF InfosOf
<1>4. RegexesOf(q)' = RegexesOf(q)
  BY <1>3 DEF RegexesOf
<1>5. AnswerTo(q)' = AnswerTo(q)
  BY <1>1, <1>2 DEF AnswerTo
<1> QED
  BY <1>2, <1>3, <1>4, <1>5

\* No step of a Get leaves anything but the read side's answer in its locals.
LEMMA ReaderStepAnswers ==
    ASSUME IInv, AnswerInv, UNCHANGED <<readSide, darts>>, NEW r \in Readers,
           ReaderStep(r) \/ \E q \in Queries : Get(r, q)
    PROVE  AnswerInv'
<1>1. /\ \A q : TrieHits(darts_read, q)' = TrieHits(darts_read, q)
      /\ \A q : InfosOf(q)' = InfosOf(q)
      /\ \A q : RegexesOf(q)' = RegexesOf(q)
      /\ \A q : AnswerTo(q)' = AnswerTo(q)
  BY AnswerKept
<1>2. ReadersOK /\ ReaderInv
  BY DEF IInv, TypeOK
<1>3. CASE \E q \in Queries : Get(r, q)
  <2>1. PICK q \in Queries : Get(r, q)
    BY <1>3
  <2>2. /\ query' = [query EXCEPT ![r] = q] /\ rpc' = [rpc EXCEPT ![r] = "search"]
        /\ rpc[r] = "idle" /\ UNCHANGED <<hits, infos, regexes, found>>
    BY <2>1 DEF Get
  <2> QED
    BY <1>1, <1>2, <2>2 DEF AnswerInv, ReadersOK
<1>4. CASE SearchTrie(r)
  <2>0. PICK hit : hit = TrieHits(darts_read, query[r])
    OBVIOUS
  <2>1. trie[r] = darts_read /\ rpc[r] = "search" /\ found[r] = {}
    BY <1>2, <1>4 DEF SearchTrie, ReaderInv, AnswerInv
  <2>a. Searchable(darts_read)
    <3>1. published
      BY <2>1 DEF IInv, LoaderInv
    <3> QED
      BY <3>1 DEF IInv, PublishedInv, Leads
  <2>2. /\ hits' = [hits EXCEPT ![r] = hit]
        /\ rpc' = [rpc EXCEPT ![r] = IF hit = {} THEN "done" ELSE "copy"]
        /\ UNCHANGED <<query, infos, regexes, found>>
    BY <1>4, <2>0, <2>1, <2>a DEF SearchTrie
  <2>3. hit = {} => AnswerTo(query[r]) = {}
    BY <2>0, NoHitNoAnswer
  <2>4. CASE hit = {}
    <3>1. /\ hits' = [hits EXCEPT ![r] = hit]
          /\ rpc' = [rpc EXCEPT ![r] = "done"]
          /\ UNCHANGED <<query, infos, regexes, found>>
      BY <2>2, <2>4
    <3> QED
      BY <1>1, <1>2, <2>1, <2>3, <2>4, <3>1 DEF AnswerInv, ReadersOK
  <2>5. CASE hit # {}
    <3>1. /\ hits' = [hits EXCEPT ![r] = hit]
          /\ rpc' = [rpc EXCEPT ![r] = "copy"] /\ UNCHANGED <<query, infos, regexes, found>>
      BY <2>2, <2>5
    <3> QED
      BY <1>1, <1>2, <2>0, <2>1, <3>1 DEF AnswerInv, ReadersOK
  <2> QED
    BY <2>4, <2>5
<1>5. CASE CopyPrefixInfo(r)
  <2>1. /\ rpc[r] = "copy" /\ hits[r] = TrieHits(darts_read, query[r])
        /\ hits[r] \subseteq 1 .. Len(prefix_info_read)
    BY <1>2, <1>5 DEF CopyPrefixInfo, AnswerInv, ReaderInv
  <2>2. {prefix_info_read[i] : i \in hits[r]} = InfosOf(query[r])
    BY <2>1 DEF InfosOf
  <2>3. /\ infos' = [infos EXCEPT ![r] = InfosOf(query[r])]
        /\ rpc' = [rpc EXCEPT ![r] = "match"]
        /\ UNCHANGED <<query, trie, hits, regexes, found>>
    BY <1>5, <2>1, <2>2 DEF CopyPrefixInfo
  <2> QED
    BY <1>1, <1>2, <2>1, <2>3 DEF AnswerInv, ReadersOK
<1>6. CASE MatchRegexes(r)
  <2>1. rpc[r] = "match" /\ infos[r] = InfosOf(query[r])
    BY <1>6 DEF MatchRegexes, AnswerInv
  <2>2. UNCHANGED <<query, trie, hits, infos, found>>
    BY <1>6 DEF MatchRegexes
  <2>3. CASE rpc' = [rpc EXCEPT ![r] = "fetch"]
    <3>1. regexes' = [regexes EXCEPT ![r] = RegexesOf(query[r])]
      <4>1. rpc'[r] = "fetch"
        BY <1>2, <2>3 DEF ReadersOK
      <4>2. rpc'[r] # "crashed"
        BY <4>1
      <4>3. \A info \in infos[r] : info.dfa
        BY <1>2, <1>6, <4>2 DEF MatchRegexes, ReadersOK
      <4> QED
        BY <1>6, <2>1, <4>3 DEF MatchRegexes, RegexesOf
    <3> QED
      BY <1>1, <1>2, <2>1, <2>2, <2>3, <3>1 DEF AnswerInv, ReadersOK
  <2>4. CASE rpc' = [rpc EXCEPT ![r] = "crashed"] /\ UNCHANGED regexes
    BY <1>1, <1>2, <2>1, <2>2, <2>4 DEF AnswerInv, ReadersOK
  <2> QED
    BY <1>6, <2>3, <2>4 DEF MatchRegexes
<1>7. CASE FetchRecords(r)
  <2>1. rpc[r] = "fetch" /\ regexes[r] = RegexesOf(query[r])
    BY <1>7 DEF FetchRecords, AnswerInv
  <2>2. {[regex |-> x, record |-> dict_info_read[x.index]] : x \in regexes[r]}
           = AnswerTo(query[r])
    BY <2>1, AnswerFetched
  <2>3. \A x \in regexes[r] : x.index \in 1 .. Len(dict_info_read)
    BY <1>2, <2>1 DEF ReaderInv
  <2>4. /\ found' = [found EXCEPT ![r] = AnswerTo(query[r])]
        /\ rpc' = [rpc EXCEPT ![r] = "done"]
        /\ UNCHANGED <<query, trie, hits, infos, regexes>>
    BY <1>7, <2>2, <2>3 DEF FetchRecords
  <2> QED
    BY <1>1, <1>2, <2>1, <2>4 DEF AnswerInv, ReadersOK
<1>8. CASE Return(r)
  BY <1>1, <1>2, <1>8 DEF Return, AnswerInv, ReadersOK, ReaderInv
<1> QED
  BY <1>3, <1>4, <1>5, <1>6, <1>7, <1>8 DEF ReaderStep

\* The writer changes neither a reader's locals nor, once there are readers,
\* the read side.
LEMMA WriterStepAnswers ==
    ASSUME IInv, AnswerInv, UNCHANGED readers,
           published => UNCHANGED <<readSide, darts>>
    PROVE  AnswerInv'
<1>1. UNCHANGED <<rpc, query, trie, hits, infos, regexes, found>>
  BY DEF readers
<1>2. CASE published
  <2>1. /\ \A q : TrieHits(darts_read, q)' = TrieHits(darts_read, q)
        /\ \A q : InfosOf(q)' = InfosOf(q)
        /\ \A q : RegexesOf(q)' = RegexesOf(q)
        /\ \A q : AnswerTo(q)' = AnswerTo(q)
    BY <1>2, AnswerKept
  <2> QED
    BY <1>1, <2>1 DEF AnswerInv
<1>3. CASE ~published
  BY <1>1, <1>3 DEF AnswerInv, IInv, LoaderInv
<1> QED
  BY <1>2, <1>3

\* AnswerInv is inductive beside IInv.
LEMMA AnswerStep == IInv /\ AnswerInv /\ [Next]_vars => AnswerInv'
<1> SUFFICES ASSUME IInv, AnswerInv, [Next]_vars PROVE AnswerInv'
  OBVIOUS
<1>1. published => UNCHANGED <<readSide, darts>>
  BY FrozenStep
<1>2. CASE WriterStep \/ WriterCall
  <2>1. UNCHANGED readers
    BY <1>2 DEF WriterStep, WriterCall, ReadLine, EndOfFile, CollectRecord, CollectAs,
       SortPrefixes, BuildTrie, BuildTrieFails, FinalizeFails, BuildDfa, EntryWrite,
       SwapDictInfo, SwapPrefixInfo, SwapDarts, ExitWrite, CopyBack, FreeTrie,
       LoadOpenFails, Clear, Dump, Load, Reload, Del, Set, Add, Edit
  <2> QED
    BY <1>1, <2>1, WriterStepAnswers
<1>3. CASE \E r \in Readers : ReaderStep(r) \/ \E q \in Queries : Get(r, q)
  <2>1. UNCHANGED <<readSide, darts>>
    BY <1>3 DEF ReaderStep, Get, SearchTrie, CopyPrefixInfo, MatchRegexes, FetchRecords,
       Return, unchangedByGet
  <2> QED
    BY <1>3, <2>1, ReaderStepAnswers
<1>4. CASE UNCHANGED vars
  <2>1. UNCHANGED readers
    BY <1>4 DEF vars
  <2> QED
    BY <1>1, <2>1, WriterStepAnswers
<1> QED
  BY <1>2, <1>3, <1>4 DEF Next

\* AnswerInv holds throughout every behaviour.
THEOREM AnswersAreTheReadSides == Spec => [](IInv /\ AnswerInv)
<1>1. Init => AnswerInv
  BY DEF Init, AnswerInv
<1>2. IInv /\ AnswerInv /\ [Next]_vars => (IInv /\ AnswerInv)'
  BY InvStep, AnswerStep
<1> QED
  BY <1>1, <1>2, InvInit, PTL DEF Spec

\* What a published dictionary answers are regexes with the records they lead to.
LEMMA AnswersTyped == IInv /\ published => \A q \in Queries : AnswerTo(q) \in SUBSET Found
<1> SUFFICES ASSUME IInv, published, NEW q \in Queries
             PROVE  AnswerTo(q) \in SUBSET Found
  OBVIOUS
<1>1. ASSUME NEW i \in TrieHits(darts_read, q),
             NEW j \in MatchedPositions(prefix_info_read[i], q)
      PROVE  [regex |-> prefix_info_read[i].repo[j],
              record |-> dict_info_read[prefix_info_read[i].repo[j].index]] \in Found
  <2>1. i \in 1 .. Len(prefix_info_read)
    BY HitsInRange
  <2>2. /\ prefix_info_read[i].repo[j] \in RegexInfo
        /\ prefix_info_read[i].repo[j].index \in 1 .. Len(dict_info_read)
    BY <2>1, MatchesInRange
  <2>3. dict_info_read[prefix_info_read[i].repo[j].index] \in DictInfo
    BY <2>2, ElementOfSeq DEF IInv, TypeOK, SidesOK
  <2> QED
    BY <2>2, <2>3 DEF Found
<1> QED
  BY <1>1 DEF AnswerTo

-----------------------------------------------------------------------------
(***************************************************************************)
(* The dictionary implements PublishedMatcher.                             *)
(***************************************************************************)
BookOf == [q \in Queries |-> IF published THEN AnswerTo(q) ELSE {}]

DoneOf == [r \in Readers |-> rpc[r] = "done"]

\* The variables of PublishedMatcher are these.
LEMMA MatcherVars ==
    /\ Matcher!vars = <<published, BookOf, query, DoneOf, found>>
    /\ Matcher!vars' = <<published', BookOf', query', DoneOf', found'>>
BY DEF Matcher!vars, BookOf, DoneOf

\* Before the first load nothing is published, asked or answered.
LEMMA RefineInit == Init => Matcher!Init
BY DEF Init, Matcher!Init

\* While published does not change, neither does the book.
LEMMA BookKept ==
    ASSUME UNCHANGED published, published => UNCHANGED <<readSide, darts>>
    PROVE  UNCHANGED BookOf
<1>1. CASE published
  <2>1. \A q : AnswerTo(q)' = AnswerTo(q)
    BY <1>1, AnswerKept
  <2> QED
    BY <2>1 DEF BookOf
<1>2. CASE ~published
  BY <1>2 DEF BookOf
<1> QED
  BY <1>1, <1>2

\* A writer's step publishes the book or is not seen.
LEMMA RefineWriter ==
    ASSUME IInv, IInv', WriterStep \/ WriterCall
    PROVE  Matcher!Publish \/ UNCHANGED Matcher!vars
<1>1. UNCHANGED <<query, rpc, found>>
  BY DEF WriterStep, WriterCall, ReadLine, EndOfFile, CollectRecord, CollectAs,
     SortPrefixes, BuildTrie, BuildTrieFails, FinalizeFails, BuildDfa, EntryWrite,
     SwapDictInfo, SwapPrefixInfo, SwapDarts, ExitWrite, CopyBack, FreeTrie,
     LoadOpenFails, Clear, Dump, Load, Reload, Del, Set, Add, Edit, readers
<1>2. UNCHANGED DoneOf
  BY <1>1 DEF DoneOf
<1>3. published => UNCHANGED <<readSide, darts, published>>
  BY PublishedStep
<1>4. CASE UNCHANGED published
  <2>1. UNCHANGED BookOf
    BY <1>3, <1>4, BookKept
  <2> QED
    BY <1>1, <1>2, <1>4, <2>1, MatcherVars
<1>5. CASE published' # published
  <2>1. published = FALSE /\ published' = TRUE
    BY <1>3, <1>5 DEF IInv, TypeOK, WriterOK
  <2>2. (\A q \in Queries : AnswerTo(q) \in SUBSET Found)'
    <3>1. (IInv /\ published => \A q \in Queries : AnswerTo(q) \in SUBSET Found)'
      BY AnswersTyped, PTL
    <3> QED
      BY <2>1, <3>1
  <2>3. [q \in Queries |-> IF published THEN AnswerTo(q) ELSE {}]'
           \in [Queries -> SUBSET Found]
    BY <2>1, <2>2
  <2> QED
    BY <1>1, <1>2, <2>1, <2>3 DEF Matcher!Publish, DoneOf
<1> QED
  BY <1>4, <1>5

\* A Get asks when it starts, is answered when it has fetched the records or
\* found no prefix, and its answer is forgotten when it returns.
LEMMA RefineReader ==
    ASSUME IInv, AnswerInv, UNCHANGED <<readSide, darts, published>>,
           NEW r \in Readers, ReaderStep(r) \/ \E q \in Queries : Get(r, q)
    PROVE  \/ Matcher!Ask(r) \/ Matcher!Reply(r) \/ Matcher!Forget(r)
           \/ UNCHANGED Matcher!vars
<1>1. UNCHANGED BookOf
  BY BookKept
<1>2. ReadersOK /\ ReaderInv /\ published \in BOOLEAN
  BY DEF IInv, TypeOK, WriterOK
<1>3. \A q \in Queries : q # NULL
  BY NullAssumption
<1>4. ASSUME NEW c, rpc' = [rpc EXCEPT ![r] = c], c # "done", rpc[r] # "done"
      PROVE  UNCHANGED DoneOf
  BY <1>2, <1>4 DEF DoneOf, ReadersOK
<1>5. ASSUME rpc' = [rpc EXCEPT ![r] = "done"], rpc[r] \in {"search", "fetch"},
             UNCHANGED query,
             found' = [found EXCEPT ![r] = AnswerTo(query[r])]
      PROVE  Matcher!Reply(r)
  <2>1. published /\ query[r] \in Queries
    BY <1>5 DEF IInv, LoaderInv, AnswerInv
  <2>2. BookOf[query[r]] = AnswerTo(query[r])
    BY <2>1 DEF BookOf
  <2>3. DoneOf' = [DoneOf EXCEPT ![r] = TRUE] /\ ~DoneOf[r]
    BY <1>2, <1>5 DEF DoneOf, ReadersOK
  <2> QED
    BY <1>1, <1>3, <1>5, <2>1, <2>2, <2>3 DEF Matcher!Reply, BookOf, DoneOf
<1>6. CASE \E q \in Queries : Get(r, q)
  <2>1. PICK q \in Queries : Get(r, q)
    BY <1>6
  <2>2. /\ published /\ rpc[r] = "idle" /\ query[r] = NULL
        /\ query' = [query EXCEPT ![r] = q] /\ rpc' = [rpc EXCEPT ![r] = "search"]
        /\ UNCHANGED found
    BY <2>1 DEF Get, AnswerInv
  <2>3. UNCHANGED DoneOf
    BY <1>4, <2>2
  <2> QED
    BY <1>1, <2>2, <2>3 DEF Matcher!Ask, BookOf, DoneOf
<1>7. CASE SearchTrie(r)
  <2>1. rpc[r] = "search" /\ UNCHANGED <<query, found>> /\ found[r] = {}
    BY <1>7 DEF SearchTrie, AnswerInv
  <2>2. CASE rpc' = [rpc EXCEPT ![r] = "done"]
    <3>1. rpc'[r] = "done"
      BY <1>2, <2>2 DEF ReadersOK
    <3>2. TrieHits(trie[r], query[r]) = {} /\ trie[r] = darts_read
      BY <1>2, <1>7, <2>1, <3>1 DEF SearchTrie, ReadersOK, ReaderInv
    <3>3. found' = [found EXCEPT ![r] = AnswerTo(query[r])]
      BY <1>2, <2>1, <3>2, NoHitNoAnswer DEF ReadersOK
    <3> QED
      BY <1>5, <2>1, <2>2, <3>3
  <2>3. CASE rpc' # [rpc EXCEPT ![r] = "done"]
    <3>1. \E c : c # "done" /\ rpc' = [rpc EXCEPT ![r] = c]
      BY <1>7, <2>3 DEF SearchTrie
    <3>2. UNCHANGED DoneOf
      BY <1>4, <2>1, <3>1
    <3> QED
      BY <1>1, <2>1, <3>2, MatcherVars
  <2> QED
    BY <2>2, <2>3
<1>8. CASE CopyPrefixInfo(r) \/ MatchRegexes(r)
  <2>1. UNCHANGED <<query, found>> /\ rpc[r] # "done"
    BY <1>8 DEF CopyPrefixInfo, MatchRegexes
  <2>2. \E c : c # "done" /\ rpc' = [rpc EXCEPT ![r] = c]
    BY <1>8 DEF CopyPrefixInfo, MatchRegexes
  <2>3. UNCHANGED DoneOf
    BY <1>4, <2>1, <2>2
  <2> QED
    BY <1>1, <2>1, <2>3, MatcherVars
<1>9. CASE FetchRecords(r)
  <2>1. /\ rpc[r] = "fetch" /\ UNCHANGED query
        /\ regexes[r] = RegexesOf(query[r])
        /\ \A x \in regexes[r] : x.index \in 1 .. Len(dict_info_read)
    BY <1>2, <1>9 DEF FetchRecords, AnswerInv, ReaderInv
  <2>2. {[regex |-> x, record |-> dict_info_read[x.index]] : x \in regexes[r]}
           = AnswerTo(query[r])
    BY <2>1, AnswerFetched
  <2>3. /\ found' = [found EXCEPT ![r] = AnswerTo(query[r])]
        /\ rpc' = [rpc EXCEPT ![r] = "done"]
    BY <1>9, <2>1, <2>2 DEF FetchRecords
  <2> QED
    BY <1>5, <2>1, <2>3
<1>10. CASE Return(r)
  <2>1. /\ rpc[r] = "done" /\ rpc' = [rpc EXCEPT ![r] = "idle"]
        /\ query' = [query EXCEPT ![r] = NULL] /\ found' = [found EXCEPT ![r] = {}]
    BY <1>10 DEF Return
  <2>2. DoneOf' = [DoneOf EXCEPT ![r] = FALSE] /\ DoneOf[r]
    BY <1>2, <2>1 DEF DoneOf, ReadersOK
  <2> QED
    BY <1>1, <2>1, <2>2 DEF Matcher!Forget, BookOf, DoneOf
<1> QED
  BY <1>6, <1>7, <1>8, <1>9, <1>10 DEF ReaderStep

\* Every step of the dictionary is a step of PublishedMatcher or is not seen.
LEMMA RefineStep ==
    IInv /\ AnswerInv /\ (IInv /\ AnswerInv)' /\ [Next]_vars
      => [Matcher!Next]_(Matcher!vars)
<1> SUFFICES ASSUME IInv, AnswerInv, IInv', AnswerInv', [Next]_vars
             PROVE  [Matcher!Next]_(Matcher!vars)
  OBVIOUS
<1>1. CASE WriterStep \/ WriterCall
  BY <1>1, RefineWriter DEF Matcher!Next
<1>2. CASE \E r \in Readers : ReaderStep(r) \/ \E q \in Queries : Get(r, q)
  <2>1. PICK r \in Readers : ReaderStep(r) \/ \E q \in Queries : Get(r, q)
    BY <1>2
  <2>2. UNCHANGED <<readSide, darts, published>>
    BY <2>1 DEF ReaderStep, Get, SearchTrie, CopyPrefixInfo, MatchRegexes, FetchRecords,
       Return, unchangedByGet, control
  <2>3. \/ Matcher!Ask(r) \/ Matcher!Reply(r) \/ Matcher!Forget(r)
        \/ UNCHANGED Matcher!vars
    BY <2>1, <2>2, RefineReader
  <2> QED
    BY <2>3 DEF Matcher!Next
<1>3. CASE UNCHANGED vars
  <2>1. UNCHANGED <<readSide, darts, published, query, rpc, found>>
    BY <1>3 DEF vars, control, readers
  <2>2. UNCHANGED BookOf
    BY <2>1, BookKept
  <2>3. UNCHANGED DoneOf
    BY <2>1 DEF DoneOf
  <2> QED
    BY <2>1, <2>2, <2>3, MatcherVars
<1> QED
  BY <1>1, <1>2, <1>3 DEF Next

\* Concurrent Gets are answered from one unchanging snapshot: the dictionary
\* implements PublishedMatcher.
THEOREM ImplementsPublishedMatcher == Spec => ImplementsMatcher
<1>1. Spec => [](IInv /\ AnswerInv)
  BY AnswersAreTheReadSides
<1> QED
  BY <1>1, RefineInit, RefineStep, PTL DEF Spec, ImplementsMatcher, Matcher!Spec

-----------------------------------------------------------------------------
(***************************************************************************)
(* What Finalize's steps do to the filing of the records.                  *)
(***************************************************************************)

\* The parts of an info have their types.
LEMMA InfoTypes ==
    ASSUME NEW ps \in Seq(PrefixInfo), NEW k \in 1 .. Len(ps)
    PROVE  /\ ps[k] \in PrefixInfo /\ ps[k].prefix \in Prefixes
           /\ ps[k].repo \in Seq(RegexInfo) /\ Len(ps[k].repo) \in Nat
           /\ \A j \in 1 .. Len(ps[k].repo) :
                 /\ ps[k].repo[j] \in RegexInfo
                 /\ ps[k].repo[j].index \in Nat /\ ps[k].repo[j].regex \in Texts
<1>1. ps[k] \in PrefixInfo
  BY ElementOfSeq
<1>2. ps[k].prefix \in Prefixes /\ ps[k].repo \in Seq(RegexInfo)
  BY <1>1 DEF PrefixInfo
<1>3. Len(ps[k].repo) \in Nat
  BY <1>2, LenProperties
<1>4. \A j \in 1 .. Len(ps[k].repo) : ps[k].repo[j] \in RegexInfo
  BY <1>2, ElementOfSeq
<1> QED
  BY <1>1, <1>2, <1>3, <1>4 DEF RegexInfo

\* A record that joins an info grows its repo by one and changes nothing else.
LEMMA JoinFields ==
    ASSUME NEW ps \in Seq(PrefixInfo), NEW r \in RegexInfo, NEW i \in 1 .. Len(ps)
    PROVE  LET qs == [ps EXCEPT ![i].repo = Append(@, r)]
           IN  /\ Len(qs) = Len(ps)
               /\ \A k \in 1 .. Len(ps) :
                     /\ qs[k].prefix = ps[k].prefix
                     /\ qs[k].online = ps[k].online /\ qs[k].offline = ps[k].offline
                     /\ k # i => qs[k].repo = ps[k].repo
               /\ Len(ps[i].repo) \in Nat
               /\ Len(qs[i].repo) = Len(ps[i].repo) + 1
               /\ \A j \in 1 .. Len(ps[i].repo) : qs[i].repo[j] = ps[i].repo[j]
               /\ qs[i].repo[Len(ps[i].repo) + 1] = r
<1> DEFINE e == [ps[i] EXCEPT !.repo = Append(@, r)]
           qs == [ps EXCEPT ![i].repo = Append(@, r)]
<1>1. ps[i] \in PrefixInfo
  BY ElementOfSeq
<1>2. ps[i].repo \in Seq(RegexInfo)
  BY <1>1 DEF PrefixInfo
<1>3. /\ Append(ps[i].repo, r) \in Seq(RegexInfo)
      /\ Len(Append(ps[i].repo, r)) = Len(ps[i].repo) + 1
      /\ \A j \in 1 .. Len(ps[i].repo) : Append(ps[i].repo, r)[j] = ps[i].repo[j]
      /\ Append(ps[i].repo, r)[Len(ps[i].repo) + 1] = r
      /\ Len(ps[i].repo) \in Nat
  BY <1>2, AppendProperties, LenProperties
<1>4. /\ e \in PrefixInfo /\ e.repo = Append(ps[i].repo, r) /\ e.prefix = ps[i].prefix
      /\ e.online = ps[i].online /\ e.offline = ps[i].offline
  BY <1>1, <1>3 DEF PrefixInfo
<1>5. qs = [ps EXCEPT ![i] = e]
  OBVIOUS
<1> HIDE DEF e, qs
<1>6. Len(qs) = Len(ps) /\ \A k \in 1 .. Len(ps) : qs[k] = IF k = i THEN e ELSE ps[k]
  BY <1>4, <1>5, ExceptSeq
<1>7. qs[i] = e /\ \A k \in 1 .. Len(ps) : k # i => qs[k] = ps[k]
  BY <1>6
<1>8. \A k \in 1 .. Len(ps) :
         /\ qs[k].prefix = ps[k].prefix
         /\ qs[k].online = ps[k].online /\ qs[k].offline = ps[k].offline
         /\ k # i => qs[k].repo = ps[k].repo
  BY <1>4, <1>7
<1> QED
  BY <1>3, <1>4, <1>6, <1>7, <1>8 DEF qs

\* A record with a new prefix starts an info of its own, behind the others.
LEMMA StartFields ==
    ASSUME NEW ps \in Seq(PrefixInfo), NEW r \in RegexInfo, NEW p \in Prefixes
    PROVE  LET qs == Append(ps, NewPrefixInfo(p, r))
               n  == Len(ps) + 1
           IN  /\ Len(ps) \in Nat /\ Len(qs) = n
               /\ \A k \in 1 .. Len(ps) : qs[k] = ps[k]
               /\ qs[n].prefix = p /\ qs[n].online = {} /\ qs[n].offline = {}
               /\ Len(qs[n].repo) = 1 /\ qs[n].repo[1] = r
<1> DEFINE e == NewPrefixInfo(p, r)
<1>1. <<r>> \in Seq(RegexInfo)
  OBVIOUS
<1>2. /\ e \in PrefixInfo /\ e.prefix = p /\ e.online = {} /\ e.offline = {}
      /\ Len(e.repo) = 1 /\ e.repo[1] = r
  BY <1>1 DEF NewPrefixInfo, PrefixInfo
<1> HIDE DEF e
<1>3. /\ Len(Append(ps, e)) = Len(ps) + 1 /\ Len(ps) \in Nat
      /\ \A k \in 1 .. Len(ps) : Append(ps, e)[k] = ps[k]
      /\ Append(ps, e)[Len(ps) + 1] = e
  BY <1>2, AppendProperties, LenProperties
<1> QED
  BY <1>2, <1>3 DEF e

\* The record that joins an info of its prefix is filed after those before it.
LEMMA JoinFiled ==
    ASSUME NEW ps \in Seq(PrefixInfo), NEW ds, NEW n \in Nat, Filed(ps, ds, n),
           NEW r \in RegexInfo, r.index = n, NEW i \in 1 .. Len(ps)
    PROVE  Filed([ps EXCEPT ![i].repo = Append(@, r)], ds, n + 1)
<1>1. PICK qs : qs = [ps EXCEPT ![i].repo = Append(@, r)]
  OBVIOUS
<1>2. /\ Len(qs) = Len(ps)
      /\ \A k \in 1 .. Len(ps) :
            qs[k].prefix = ps[k].prefix /\ (k # i => qs[k].repo = ps[k].repo)
      /\ Len(ps[i].repo) \in Nat
      /\ Len(qs[i].repo) = Len(ps[i].repo) + 1
      /\ \A j \in 1 .. Len(ps[i].repo) : qs[i].repo[j] = ps[i].repo[j]
      /\ qs[i].repo[Len(ps[i].repo) + 1] = r
  BY <1>1, JoinFields
<1>3. \A k \in 1 .. Len(ps) : Len(ps[k].repo) \in Nat
  BY InfoTypes
<1>4. \A k \in 1 .. Len(ps) : \A j \in 1 .. Len(ps[k].repo) :
         ps[k].repo[j].index \in Nat /\ ps[k].repo[j].index < n
  BY InfoTypes DEF Filed
<1>5. \A k, l \in 1 .. Len(qs) : qs[k].prefix = qs[l].prefix => k = l
  BY <1>2 DEF Filed
<1>6. \A k \in 1 .. Len(qs) : \A j \in 1 .. Len(qs[k].repo) :
         \/ k = i /\ j = Len(ps[i].repo) + 1 /\ qs[k].repo[j] = r
         \/ j \in 1 .. Len(ps[k].repo) /\ qs[k].repo[j] = ps[k].repo[j]
  <2> SUFFICES ASSUME NEW k \in 1 .. Len(qs), NEW j \in 1 .. Len(qs[k].repo)
               PROVE  \/ k = i /\ j = Len(ps[i].repo) + 1 /\ qs[k].repo[j] = r
                      \/ j \in 1 .. Len(ps[k].repo) /\ qs[k].repo[j] = ps[k].repo[j]
    OBVIOUS
  <2>1. CASE k = i
    BY <1>2, <2>1
  <2>2. CASE k # i
    BY <1>2, <2>2
  <2> QED
    BY <2>1, <2>2
<1>7. \A k \in 1 .. Len(qs) : \A j \in 1 .. Len(qs[k].repo) : qs[k].repo[j].index < n + 1
  <2> SUFFICES ASSUME NEW k \in 1 .. Len(qs), NEW j \in 1 .. Len(qs[k].repo)
               PROVE  qs[k].repo[j].index < n + 1
    OBVIOUS
  <2>1. CASE qs[k].repo[j] = r
    BY <2>1
  <2>2. CASE j \in 1 .. Len(ps[k].repo) /\ qs[k].repo[j] = ps[k].repo[j]
    <3>1. qs[k].repo[j].index \in Nat /\ qs[k].repo[j].index < n
      BY <1>2, <1>4, <2>2
    <3> QED
      BY <3>1
  <2> QED
    BY <1>6, <2>1, <2>2
<1>8. \A k \in 1 .. Len(qs) : \A j, l \in 1 .. Len(qs[k].repo) :
         qs[k].repo[j].index = qs[k].repo[l].index => j = l
  <2> SUFFICES ASSUME NEW k \in 1 .. Len(qs), NEW j \in 1 .. Len(qs[k].repo),
                      NEW l \in 1 .. Len(qs[k].repo),
                      qs[k].repo[j].index = qs[k].repo[l].index
               PROVE  j = l
    OBVIOUS
  <2>1. k \in 1 .. Len(ps)
    BY <1>2
  <2>2. CASE j \in 1 .. Len(ps[k].repo) /\ l \in 1 .. Len(ps[k].repo)
             /\ qs[k].repo[j] = ps[k].repo[j] /\ qs[k].repo[l] = ps[k].repo[l]
    <3>1. ps[k].repo[j].index = ps[k].repo[l].index
      BY <2>2
    <3> QED
      BY <2>1, <2>2, <3>1 DEF Filed
  <2>3. CASE j \in 1 .. Len(ps[k].repo) /\ qs[k].repo[j] = ps[k].repo[j] /\ qs[k].repo[l] = r
    <3>1. qs[k].repo[j].index \in Nat /\ qs[k].repo[j].index < n
      BY <1>4, <2>1, <2>3
    <3> QED
      BY <2>3, <3>1
  <2>4. CASE l \in 1 .. Len(ps[k].repo) /\ qs[k].repo[l] = ps[k].repo[l] /\ qs[k].repo[j] = r
    <3>1. ps[k].repo[l].index \in Nat /\ ps[k].repo[l].index < n
      <4>1. l \in 1 .. Len(ps[k].repo)
        BY <2>4
      <4> QED
        BY <1>4, <2>1, <4>1
    <3>2. qs[k].repo[l].index # n /\ qs[k].repo[j].index = n
      BY <2>4, <3>1
    <3> QED
      BY <3>2
  <2>5. CASE j = Len(ps[i].repo) + 1 /\ l = Len(ps[i].repo) + 1
    BY <2>5
  <2>6. /\ \/ j = Len(ps[i].repo) + 1 /\ qs[k].repo[j] = r
           \/ j \in 1 .. Len(ps[k].repo) /\ qs[k].repo[j] = ps[k].repo[j]
        /\ \/ l = Len(ps[i].repo) + 1 /\ qs[k].repo[l] = r
           \/ l \in 1 .. Len(ps[k].repo) /\ qs[k].repo[l] = ps[k].repo[l]
    BY <1>6
  <2> QED
    BY <2>2, <2>3, <2>4, <2>5, <2>6
<1>9. \A m \in 1 .. Len(ds) : m < n + 1 =>
         \E k \in 1 .. Len(qs) : \E j \in 1 .. Len(qs[k].repo) : qs[k].repo[j].index = m
  <2> SUFFICES ASSUME NEW m \in 1 .. Len(ds), m < n + 1
               PROVE  \E k \in 1 .. Len(qs) : \E j \in 1 .. Len(qs[k].repo) :
                         qs[k].repo[j].index = m
    OBVIOUS
  <2>1. CASE m = n
    <3>1. i \in 1 .. Len(qs) /\ Len(ps[i].repo) + 1 \in 1 .. Len(qs[i].repo)
      BY <1>2
    <3> QED
      BY <1>2, <2>1, <3>1
  <2>2. CASE m # n
    <3>1. m < n
      BY <2>2
    <3>2. PICK k \in 1 .. Len(ps) : \E j \in 1 .. Len(ps[k].repo) : ps[k].repo[j].index = m
      BY <3>1 DEF Filed
    <3>3. PICK j \in 1 .. Len(ps[k].repo) : ps[k].repo[j].index = m
      BY <3>2
    <3>4. k \in 1 .. Len(qs)
      BY <1>2
    <3>5. j \in 1 .. Len(qs[k].repo) /\ qs[k].repo[j] = ps[k].repo[j]
      <4>1. CASE k = i
        <5>1. Len(qs[i].repo) = Len(ps[i].repo) + 1 /\ Len(ps[i].repo) \in Nat
          BY <1>2
        <5>2. qs[i].repo[j] = ps[i].repo[j]
          BY <1>2, <4>1
        <5> QED
          BY <4>1, <5>1, <5>2
      <4>2. CASE k # i
        <5>1. qs[k].repo = ps[k].repo
          BY <1>2, <4>2
        <5> QED
          BY <5>1
      <4> QED
        BY <4>1, <4>2
    <3>6. qs[k].repo[j].index = m
      BY <3>3, <3>5
    <3> QED
      BY <3>4, <3>5, <3>6
  <2> QED
    BY <2>1, <2>2
<1>10. Filed(qs, ds, n + 1)
  BY <1>5, <1>7, <1>8, <1>9 DEF Filed
<1> QED
  BY <1>1, <1>10

\* So is one that starts an info, if no info has its prefix.
LEMMA StartFiled ==
    ASSUME NEW ps \in Seq(PrefixInfo), NEW ds, NEW n \in Nat, Filed(ps, ds, n),
           NEW r \in RegexInfo, r.index = n, NEW p \in Prefixes,
           \A i \in 1 .. Len(ps) : ps[i].prefix # p
    PROVE  Filed(Append(ps, NewPrefixInfo(p, r)), ds, n + 1)
<1>1. PICK qs : qs = Append(ps, NewPrefixInfo(p, r))
  OBVIOUS
<1>2. PICK z \in Nat : z = Len(ps) + 1
  BY LenProperties
<1>3. /\ Len(ps) \in Nat /\ Len(qs) = z
      /\ \A k \in 1 .. Len(ps) : qs[k] = ps[k]
      /\ qs[z].prefix = p /\ Len(qs[z].repo) = 1 /\ qs[z].repo[1] = r
  BY <1>1, <1>2, StartFields
<1>4. \A k \in 1 .. Len(qs) : k = z \/ k \in 1 .. Len(ps)
  BY <1>2, <1>3
<1>5. \A k \in 1 .. Len(ps) : \A j \in 1 .. Len(ps[k].repo) :
         ps[k].repo[j].index \in Nat /\ ps[k].repo[j].index < n
  BY InfoTypes DEF Filed
<1>6. \A k, l \in 1 .. Len(qs) : qs[k].prefix = qs[l].prefix => k = l
  BY <1>3, <1>4 DEF Filed
<1>7. \A k \in 1 .. Len(qs) : \A j \in 1 .. Len(qs[k].repo) : qs[k].repo[j].index < n + 1
  <2> SUFFICES ASSUME NEW k \in 1 .. Len(qs), NEW j \in 1 .. Len(qs[k].repo)
               PROVE  qs[k].repo[j].index < n + 1
    OBVIOUS
  <2>1. CASE k = z
    <3>1. j \in 1 .. 1
      BY <1>3, <2>1
    <3> QED
      BY <1>3, <2>1, <3>1
  <2>2. CASE k \in 1 .. Len(ps)
    BY <1>3, <1>5, <2>2
  <2> QED
    BY <1>4, <2>1, <2>2
<1>8. \A k \in 1 .. Len(qs) : \A j, l \in 1 .. Len(qs[k].repo) :
         qs[k].repo[j].index = qs[k].repo[l].index => j = l
  <2> SUFFICES ASSUME NEW k \in 1 .. Len(qs), NEW j \in 1 .. Len(qs[k].repo),
                      NEW l \in 1 .. Len(qs[k].repo),
                      qs[k].repo[j].index = qs[k].repo[l].index
               PROVE  j = l
    OBVIOUS
  <2>1. CASE k = z
    <3>1. j \in 1 .. 1 /\ l \in 1 .. 1
      BY <1>3, <2>1
    <3> QED
      BY <3>1
  <2>2. CASE k \in 1 .. Len(ps)
    <3>1. qs[k] = ps[k]
      BY <1>3, <2>2
    <3> QED
      BY <2>2, <3>1 DEF Filed
  <2> QED
    BY <1>4, <2>1, <2>2
<1>9. \A m \in 1 .. Len(ds) : m < n + 1 =>
         \E k \in 1 .. Len(qs) : \E j \in 1 .. Len(qs[k].repo) : qs[k].repo[j].index = m
  <2> SUFFICES ASSUME NEW m \in 1 .. Len(ds), m < n + 1
               PROVE  \E k \in 1 .. Len(qs) : \E j \in 1 .. Len(qs[k].repo) :
                         qs[k].repo[j].index = m
    OBVIOUS
  <2>1. CASE m = n
    <3>1. z \in 1 .. Len(qs) /\ 1 \in 1 .. Len(qs[z].repo)
      BY <1>2, <1>3
    <3> QED
      BY <1>3, <2>1, <3>1
  <2>2. CASE m # n
    <3>1. PICK k \in 1 .. Len(ps) : \E j \in 1 .. Len(ps[k].repo) : ps[k].repo[j].index = m
      BY <2>2 DEF Filed
    <3>2. k \in 1 .. Len(qs) /\ qs[k] = ps[k]
      BY <1>2, <1>3
    <3> QED
      BY <3>1, <3>2
  <2> QED
    BY <2>1, <2>2
<1>10. Filed(qs, ds, n + 1)
  BY <1>6, <1>7, <1>8, <1>9 DEF Filed
<1> QED
  BY <1>1, <1>10

\* A collected record is undivided like those before it.
LEMMA CollectUndivided ==
    ASSUME NEW ps \in Seq(PrefixInfo), Undivided(ps), NEW r \in RegexInfo,
           NEW p \in Prefixes
    PROVE  /\ \A i \in 1 .. Len(ps) : Undivided([ps EXCEPT ![i].repo = Append(@, r)])
           /\ Undivided(Append(ps, NewPrefixInfo(p, r)))
<1>1. ASSUME NEW i \in 1 .. Len(ps)
      PROVE  Undivided([ps EXCEPT ![i].repo = Append(@, r)])
  <2>1. PICK qs : qs = [ps EXCEPT ![i].repo = Append(@, r)]
    OBVIOUS
  <2>2. /\ Len(qs) = Len(ps)
        /\ \A k \in 1 .. Len(ps) :
              qs[k].online = ps[k].online /\ qs[k].offline = ps[k].offline
    BY <2>1, JoinFields
  <2>3. Undivided(qs)
    BY <2>2 DEF Undivided
  <2> QED
    BY <2>1, <2>3
<1>2. PICK qs : qs = Append(ps, NewPrefixInfo(p, r))
  OBVIOUS
<1>3. /\ Len(ps) \in Nat /\ Len(qs) = Len(ps) + 1
      /\ \A k \in 1 .. Len(ps) : qs[k] = ps[k]
      /\ qs[Len(ps) + 1].online = {} /\ qs[Len(ps) + 1].offline = {}
  BY <1>2, StartFields
<1>4. Undivided(qs)
  BY <1>3 DEF Undivided
<1> QED
  BY <1>1, <1>2, <1>4

\* Sorting permutes the infos: each is somewhere in the result, once.
LEMMA SortPermutes ==
    ASSUME NEW ps \in Seq(PrefixInfo), NEW pi \in SortOrders(ps)
    PROVE  /\ pi \in [1 .. Len(ps) -> 1 .. Len(ps)]
           /\ \A i, j \in 1 .. Len(ps) : pi[i] = pi[j] => i = j
           /\ \A k \in 1 .. Len(ps) : \E i \in 1 .. Len(ps) : pi[i] = k
<1>1. /\ pi \in [1 .. Len(ps) -> 1 .. Len(ps)]
      /\ \A i, j \in 1 .. Len(ps) : pi[i] = pi[j] => i = j
  BY DEF SortOrders
<1>2. pi \in Injection(1 .. Len(ps), 1 .. Len(ps))
  BY <1>1, Fun_IsInj
<1>3. IsFiniteSet(1 .. Len(ps))
  BY FS_Interval, LenProperties
<1>4. pi \in Surjection(1 .. Len(ps), 1 .. Len(ps))
  BY <1>2, <1>3, FS_Injection
<1>5. \A k \in 1 .. Len(ps) : \E i \in 1 .. Len(ps) : pi[i] = k
  BY <1>4, Fun_SurjectionProperties
<1> QED
  BY <1>1, <1>5

\* Sorting keeps the records filed and undivided.
LEMMA SortedFiled ==
    ASSUME NEW ps \in Seq(PrefixInfo), NEW pi \in SortOrders(ps)
    PROVE  LET qs == [i \in 1 .. Len(ps) |-> ps[pi[i]]]
           IN  /\ \A ds, n : Filed(ps, ds, n) => Filed(qs, ds, n)
               /\ Undivided(ps) => Undivided(qs)
<1>1. PICK qs : qs = [i \in 1 .. Len(ps) |-> ps[pi[i]]]
  OBVIOUS
<1>2. Len(qs) = Len(ps) /\ \A i \in 1 .. Len(ps) : qs[i] = ps[pi[i]]
  BY <1>1, SortedTypes
<1>3. /\ pi \in [1 .. Len(ps) -> 1 .. Len(ps)]
      /\ \A i, j \in 1 .. Len(ps) : pi[i] = pi[j] => i = j
      /\ \A k \in 1 .. Len(ps) : \E i \in 1 .. Len(ps) : pi[i] = k
  BY SortPermutes
<1>a. \A i \in 1 .. Len(qs) :
         i \in 1 .. Len(ps) /\ qs[i] = ps[pi[i]] /\ pi[i] \in 1 .. Len(ps)
  BY <1>2, <1>3
<1>4. ASSUME NEW ds, NEW n, Filed(ps, ds, n) PROVE Filed(qs, ds, n)
  <2>1. ASSUME NEW i \in 1 .. Len(qs), NEW k \in 1 .. Len(qs), qs[i].prefix = qs[k].prefix
        PROVE  i = k
    <3>1. pi[i] = pi[k]
      BY <1>4, <1>a, <2>1 DEF Filed
    <3> QED
      BY <1>3, <1>a, <3>1
  <2>2. ASSUME NEW i \in 1 .. Len(qs)
        PROVE  /\ \A j \in 1 .. Len(qs[i].repo) : qs[i].repo[j].index < n
               /\ \A j, k \in 1 .. Len(qs[i].repo) :
                     qs[i].repo[j].index = qs[i].repo[k].index => j = k
    <3>1. PICK l \in 1 .. Len(ps) : qs[i] = ps[l]
      BY <1>a
    <3> QED
      BY <1>4, <3>1 DEF Filed
  <2>4. \A m \in 1 .. Len(ds) : m < n =>
           \E i \in 1 .. Len(qs) : \E j \in 1 .. Len(qs[i].repo) : qs[i].repo[j].index = m
    <3> SUFFICES ASSUME NEW m \in 1 .. Len(ds), m < n
                 PROVE  \E i \in 1 .. Len(qs) : \E j \in 1 .. Len(qs[i].repo) :
                           qs[i].repo[j].index = m
      OBVIOUS
    <3>1. PICK k \in 1 .. Len(ps) : \E j \in 1 .. Len(ps[k].repo) : ps[k].repo[j].index = m
      BY <1>4 DEF Filed
    <3>2. PICK i \in 1 .. Len(ps) : pi[i] = k
      BY <1>3
    <3>3. i \in 1 .. Len(qs) /\ qs[i] = ps[k]
      BY <1>2, <3>2
    <3> QED
      BY <3>1, <3>3
  <2> QED
    BY <2>1, <2>2, <2>4 DEF Filed
<1>5. Undivided(ps) => Undivided(qs)
  BY <1>a DEF Undivided
<1> QED
  BY <1>1, <1>4, <1>5

\* BuildDfa keeps the records filed and divides them.
LEMMA DfaDivides ==
    ASSUME NEW ps \in Seq(PrefixInfo), Undivided(ps), NEW bad
    PROVE  LET qs == [i \in 1 .. Len(ps) |-> DfaInfo(ps, bad, i)]
           IN  /\ \A ds, n : Filed(ps, ds, n) => Filed(qs, ds, n)
               /\ Divided(qs)
               /\ \A t : Indexed(t, ps) => Indexed(t, qs)
<1>1. PICK qs : qs = [i \in 1 .. Len(ps) |-> DfaInfo(ps, bad, i)]
  OBVIOUS
<1>2. Len(qs) = Len(ps) /\ \A i \in 1 .. Len(ps) : qs[i] = DfaInfo(ps, bad, i)
  BY <1>1, DfaTypes
<1>3. ASSUME NEW i \in 1 .. Len(ps)
      PROVE  /\ qs[i].prefix = ps[i].prefix /\ qs[i].repo = ps[i].repo
             /\ qs[i].online =
                   {j \in 1 .. Len(ps[i].repo) : ps[i].repo[j].regex \in Accepted}
             /\ qs[i].offline = (1 .. Len(ps[i].repo)) \ qs[i].online
  <2>1. ps[i] \in PrefixInfo /\ ps[i].online = {} /\ ps[i].offline = {}
    BY InfoTypes DEF Undivided
  <2>2. qs[i] = DfaInfo(ps, bad, i)
    BY <1>2
  <2> QED
    BY <2>1, <2>2 DEF DfaInfo, PrefixInfo
<1>4. ASSUME NEW ds, NEW n, Filed(ps, ds, n) PROVE Filed(qs, ds, n)
  <2>1. \A i, k \in 1 .. Len(qs) : qs[i].prefix = qs[k].prefix => i = k
    BY <1>2, <1>3, <1>4 DEF Filed
  <2>2. \A i \in 1 .. Len(qs) : qs[i].repo = ps[i].repo /\ i \in 1 .. Len(ps)
    BY <1>2, <1>3
  <2>3. \A i \in 1 .. Len(qs) : \A j \in 1 .. Len(qs[i].repo) : qs[i].repo[j].index < n
    BY <1>4, <2>2 DEF Filed
  <2>4. \A i \in 1 .. Len(qs) : \A j, k \in 1 .. Len(qs[i].repo) :
           qs[i].repo[j].index = qs[i].repo[k].index => j = k
    BY <1>4, <2>2 DEF Filed
  <2>5. \A m \in 1 .. Len(ds) : m < n =>
           \E i \in 1 .. Len(qs) : \E j \in 1 .. Len(qs[i].repo) : qs[i].repo[j].index = m
    BY <1>2, <1>4, <2>2 DEF Filed
  <2> QED
    BY <2>1, <2>3, <2>4, <2>5 DEF Filed
<1>5. Divided(qs)
  BY <1>2, <1>3 DEF Divided
<1>6. \A t : Indexed(t, ps) => Indexed(t, qs)
  BY <1>2, <1>3 DEF Indexed
<1> QED
  BY <1>1, <1>4, <1>5, <1>6

\* A trie built from ps has an index for every prefix but the empty one.
LEMMA TrieIndexes ==
    ASSUME NEW ps \in Seq(PrefixInfo)
    PROVE  /\ TrieIndex(ps)[EmptyPrefix] = 0
           /\ \A i \in 1 .. Len(ps) : ps[i].prefix # EmptyPrefix =>
                 TrieIndex(ps)[ps[i].prefix] # 0
<1>1. TrieIndex(ps)[EmptyPrefix] = 0
  BY PrefixAssumption DEF TrieIndex
<1>2. ASSUME NEW i \in 1 .. Len(ps), ps[i].prefix # EmptyPrefix
      PROVE  TrieIndex(ps)[ps[i].prefix] # 0
  <2>1. ps[i].prefix \in Prefixes /\ Len(ps) \in Nat
    BY InfoTypes, LenProperties
  <2>2. TrieIndex(ps)[ps[i].prefix]
           = CHOOSE k \in 1 .. Len(ps) : ps[k].prefix = ps[i].prefix
    BY <1>2, <2>1 DEF TrieIndex
  <2> QED
    BY <2>1, <2>2
<1> QED
  BY <1>1, <1>2

-----------------------------------------------------------------------------
(***************************************************************************)
(* CompleteInv is inductive beside IInv.                                   *)
(***************************************************************************)

\* After publication nothing it speaks of is written.
LEMMA CompletePublished ==
    ASSUME CompleteInv, published, UNCHANGED <<readSide, darts, published>>
    PROVE  CompleteInv'
<1>1. UNCHANGED <<dict_info_read, prefix_info_read, darts_read, darts>>
  BY DEF readSide
<1>2. Complete(darts_read, prefix_info_read, dict_info_read)
  BY DEF CompleteInv
<1>3. Complete(darts_read, prefix_info_read, dict_info_read)'
  <2>1. Filed(prefix_info_read, dict_info_read, Len(dict_info_read) + 1)'
    BY <1>1, <1>2 DEF Complete, Filed
  <2>2. Indexed(darts_read, prefix_info_read)'
    BY <1>1, <1>2 DEF Complete, Indexed
  <2>3. Divided(prefix_info_read)'
    BY <1>1, <1>2 DEF Complete, Divided
  <2> QED
    BY <2>1, <2>2, <2>3 DEF Complete
<1> QED
  BY <1>3 DEF CompleteInv

\* Until the records are read there are no infos.
LEMMA CompleteReading ==
    ASSUME IInv, CompleteInv, ~published,
           \/ LoadOpenFails \/ ReadLine \/ EndOfFile \/ BuildTrieFails
           \/ \E f \in Files : Load(f)
    PROVE  CompleteInv'
<1> USE DEF readSide, writeSide, control, readers
<1>1. /\ wpc \in {"new", "read"} => prefix_info_write = <<>>
      /\ wpc # "idle"
  BY DEF IInv, LoaderInv
<1>2. CASE LoadOpenFails \/ BuildTrieFails
  <2>1. wpc' = "failed" /\ ~published'
    BY <1>2 DEF LoadOpenFails, BuildTrieFails, FinalizeFails
  <2> QED
    BY <2>1 DEF CompleteInv, Loading, Swapped
<1>3. CASE ReadLine \/ \E f \in Files : Load(f)
  <2>1. wpc' = "read" /\ ~published' /\ prefix_info_write' = <<>>
    BY <1>1, <1>3 DEF ReadLine, Load
  <2> QED
    BY <2>1 DEF CompleteInv, Loading, Swapped, Undivided
<1>4. CASE EndOfFile
  <2>1. wpc' = "collect" /\ ~published' /\ prefix_info_write' = <<>> /\ next' = 1
    BY <1>1, <1>4 DEF EndOfFile
  <2>2. Undivided(prefix_info_write)' /\ Filed(prefix_info_write, dict_info_write, next)'
    BY <2>1 DEF Undivided, Filed
  <2> QED
    BY <2>1, <2>2 DEF CompleteInv, Loading, Swapped
<1> QED
  BY <1>2, <1>3, <1>4

\* A turn of the loop files the record it is at.
LEMMA CompleteCollect ==
    ASSUME IInv, CompleteInv, ~published, CollectRecord
    PROVE  CompleteInv'
<1>1. PICK info, r, p :
         /\ info = dict_info_write[next]
         /\ r = [regex |-> GetKey(info.key), index |-> next]
         /\ p = PrefixOfRecord(info)
  OBVIOUS
<1>2. /\ wpc = "collect" /\ wpc' = "collect" /\ next <= Len(dict_info_write)
      /\ next' = next + 1 /\ ~published' /\ dict_info_write' = dict_info_write
      /\ \/ \E i \in 1 .. Len(prefix_info_write) :
              /\ prefix_info_write[i].prefix = p
              /\ prefix_info_write' =
                    [prefix_info_write EXCEPT ![i].repo = Append(@, r)]
         \/ /\ \A i \in 1 .. Len(prefix_info_write) : prefix_info_write[i].prefix # p
            /\ prefix_info_write' = Append(prefix_info_write, NewPrefixInfo(p, r))
  BY <1>1 DEF CollectRecord, CollectAs
<1>3. /\ next \in Nat /\ next \in 1 .. Len(dict_info_write)
      /\ prefix_info_write \in Seq(PrefixInfo)
  BY <1>2, LenProperties DEF IInv, TypeOK, SidesOK, WriterOK
<1>4. info \in DictInfo /\ Acceptable(info.key)
  BY <1>1, <1>3, ElementOfSeq DEF IInv, TypeOK, SidesOK, AcceptInv, Accepts
<1>5. GetKey(info.key) \in Texts /\ PrefixOf[GetKey(info.key)] \in Prefixes
  BY <1>4, AcceptedText DEF DictInfo
<1>6. r \in RegexInfo /\ r.index = next /\ p \in Prefixes
  BY <1>1, <1>3, <1>5 DEF RegexInfo, PrefixOfRecord
<1>7. /\ Undivided(prefix_info_write)
      /\ Filed(prefix_info_write, dict_info_write, next)
  BY <1>2 DEF CompleteInv, Loading
<1>8. Undivided(prefix_info_write')
  <2>1. /\ \A i \in 1 .. Len(prefix_info_write) :
              Undivided([prefix_info_write EXCEPT ![i].repo = Append(@, r)])
        /\ Undivided(Append(prefix_info_write, NewPrefixInfo(p, r)))
    BY <1>3, <1>6, <1>7, CollectUndivided
  <2> QED
    BY <1>2, <2>1
<1>9. Filed(prefix_info_write', dict_info_write, next + 1)
  <2>1. \A i \in 1 .. Len(prefix_info_write) :
           Filed([prefix_info_write EXCEPT ![i].repo = Append(@, r)], dict_info_write, next + 1)
    BY <1>3, <1>6, <1>7, JoinFiled
  <2>2. (\A i \in 1 .. Len(prefix_info_write) : prefix_info_write[i].prefix # p)
          => Filed(Append(prefix_info_write, NewPrefixInfo(p, r)), dict_info_write, next + 1)
    BY <1>3, <1>6, <1>7, StartFiled
  <2>3. CASE \E i \in 1 .. Len(prefix_info_write) :
               prefix_info_write' = [prefix_info_write EXCEPT ![i].repo = Append(@, r)]
    BY <2>1, <2>3
  <2>4. CASE /\ \A i \in 1 .. Len(prefix_info_write) : prefix_info_write[i].prefix # p
             /\ prefix_info_write' = Append(prefix_info_write, NewPrefixInfo(p, r))
    BY <2>2, <2>4
  <2> QED
    BY <1>2, <2>3, <2>4
<1>10. Undivided(prefix_info_write)' /\ Filed(prefix_info_write, dict_info_write, next)'
  BY <1>2, <1>8, <1>9 DEF Undivided, Filed
<1> QED
  BY <1>2, <1>10 DEF CompleteInv, Loading, Swapped

\* When all records are filed, sorting, BuildTrie and BuildDfa complete them.
LEMMA CompleteBuild ==
    ASSUME IInv, CompleteInv, ~published, SortPrefixes \/ BuildTrie \/ BuildDfa
    PROVE  CompleteInv'
<1> USE DEF readSide, writeSide, control
<1>1. /\ prefix_info_write \in Seq(PrefixInfo) /\ dict_info_write \in Seq(DictInfo)
      /\ darts \in [Tries -> DartsDatrie]
      /\ Len(dict_info_write) \in Nat /\ next \in Nat
  BY LenProperties DEF IInv, TypeOK, SidesOK, WriterOK
<1>2. CASE SortPrefixes
  <2>1. /\ wpc = "collect" /\ wpc' = "build" /\ next > Len(dict_info_write)
        /\ ~published' /\ dict_info_write' = dict_info_write
    BY <1>2 DEF SortPrefixes
  <2>2. PICK pi \in SortOrders(prefix_info_write) :
          prefix_info_write' =
             [i \in 1 .. Len(prefix_info_write) |-> prefix_info_write[pi[i]]]
    BY <1>2 DEF SortPrefixes
  <2>3. /\ Undivided(prefix_info_write)
        /\ Filed(prefix_info_write, dict_info_write, next)
        /\ Linked(prefix_info_write, dict_info_write)
    BY <2>1 DEF CompleteInv, IInv, LoaderInv, Loading
  <2>4. Filed(prefix_info_write, dict_info_write, Len(dict_info_write) + 1)
    <3>1. \A i \in 1 .. Len(prefix_info_write) :
             \A j \in 1 .. Len(prefix_info_write[i].repo) :
                prefix_info_write[i].repo[j].index < Len(dict_info_write) + 1
      <4>1. \A i \in 1 .. Len(prefix_info_write) :
               \A j \in 1 .. Len(prefix_info_write[i].repo) :
                  prefix_info_write[i].repo[j].index \in 1 .. Len(dict_info_write)
        BY <2>3 DEF Linked
      <4> QED
        BY <1>1, <4>1
    <3>2. \A m \in 1 .. Len(dict_info_write) : m < next
      BY <1>1, <2>1
    <3> QED
      BY <2>3, <3>1, <3>2 DEF Filed
  <2>5. /\ Undivided(prefix_info_write')
        /\ Filed(prefix_info_write', dict_info_write, Len(dict_info_write) + 1)
    BY <1>1, <2>2, <2>3, <2>4, SortedFiled
  <2>6. /\ Undivided(prefix_info_write)'
        /\ Filed(prefix_info_write, dict_info_write, Len(dict_info_write) + 1)'
    BY <2>1, <2>5 DEF Undivided, Filed
  <2> QED
    BY <2>1, <2>6 DEF CompleteInv, Loading, Swapped
<1>3. CASE BuildTrie
  <2>1. /\ wpc = "build" /\ wpc' = "dfa" /\ ~published'
        /\ darts' = [darts EXCEPT ![darts_write].built = TRUE,
                                  ![darts_write].index = TrieIndex(prefix_info_write)]
        /\ UNCHANGED <<prefix_info_write, dict_info_write, darts_write>>
    BY <1>3 DEF BuildTrie
  <2>2. /\ Undivided(prefix_info_write)
        /\ Filed(prefix_info_write, dict_info_write, Len(dict_info_write) + 1)
        /\ darts_write = "second"
    BY <2>1 DEF CompleteInv, IInv, LoaderInv, Loading
  <2>3. PICK ix : ix = TrieIndex(prefix_info_write)
    OBVIOUS
  <2>4. /\ ix[EmptyPrefix] = 0
        /\ \A i \in 1 .. Len(prefix_info_write) :
              prefix_info_write[i].prefix # EmptyPrefix =>
                 ix[prefix_info_write[i].prefix] # 0
    BY <1>1, <2>3, TrieIndexes
  <2>5. darts'["second"].index = ix
    BY <1>1, <2>1, <2>2, <2>3 DEF Tries, DartsDatrie
  <2>6. Indexed(darts_write, prefix_info_write)'
    BY <2>1, <2>2, <2>4, <2>5 DEF Indexed
  <2>7. /\ Undivided(prefix_info_write)'
        /\ Filed(prefix_info_write, dict_info_write, Len(dict_info_write) + 1)'
    BY <2>1, <2>2 DEF Undivided, Filed
  <2> QED
    BY <2>1, <2>6, <2>7 DEF CompleteInv, Loading, Swapped
<1>4. CASE BuildDfa
  <2>1. /\ wpc = "dfa" /\ wpc' = "enter" /\ ~published'
        /\ UNCHANGED <<dict_info_write, darts_write, darts>>
    BY <1>4 DEF BuildDfa
  <2>2. PICK bad : prefix_info_write' =
          [i \in 1 .. Len(prefix_info_write) |-> DfaInfo(prefix_info_write, bad, i)]
    BY <1>4 DEF BuildDfa, DfaInfo
  <2>3. /\ Undivided(prefix_info_write)
        /\ Filed(prefix_info_write, dict_info_write, Len(dict_info_write) + 1)
        /\ Indexed(darts_write, prefix_info_write)
    BY <2>1 DEF CompleteInv, Loading
  <2>4. /\ Filed(prefix_info_write', dict_info_write, Len(dict_info_write) + 1)
        /\ Divided(prefix_info_write')
        /\ Indexed(darts_write, prefix_info_write')
    BY <1>1, <2>2, <2>3, DfaDivides
  <2>5. /\ Filed(prefix_info_write, dict_info_write, Len(dict_info_write) + 1)'
        /\ Divided(prefix_info_write)'
    BY <2>1, <2>4 DEF Filed, Divided
  <2>6. Indexed(darts_write, prefix_info_write)'
    BY <2>1, <2>4 DEF Indexed
  <2> QED
    BY <2>1, <2>5, <2>6 DEF CompleteInv, Complete, Loading, Swapped
<1> QED
  BY <1>2, <1>3, <1>4

\* Separation carries the completed vectors and the trie to the read side.
LEMMA CompleteSeparation ==
    ASSUME IInv, CompleteInv, ~published,
           \/ EntryWrite \/ SwapDictInfo \/ SwapPrefixInfo \/ SwapDarts
           \/ ExitWrite \/ CopyBack \/ FreeTrie
    PROVE  CompleteInv'
<1> USE DEF readSide, writeSide, control
<1>1. darts \in [Tries -> DartsDatrie]
  BY DEF IInv, TypeOK, SidesOK
<1>2. CASE EntryWrite
  <2>1. /\ wpc = "enter" /\ wpc' = "swap_dict" /\ ~published'
        /\ UNCHANGED <<prefix_info_write, dict_info_write, darts_write, darts>>
    BY <1>2 DEF EntryWrite
  <2>2. Complete(darts_write, prefix_info_write, dict_info_write)'
    BY <2>1 DEF CompleteInv, Complete, Filed, Indexed, Divided
  <2> QED
    BY <2>1, <2>2 DEF CompleteInv, Loading, Swapped
<1>3. CASE SwapDictInfo
  <2>1. /\ wpc = "swap_dict" /\ wpc' = "swap_prefix" /\ ~published'
        /\ dict_info_read' = dict_info_write
        /\ UNCHANGED <<prefix_info_write, darts_write, darts>>
    BY <1>3 DEF SwapDictInfo
  <2>2. Complete(darts_write, prefix_info_write, dict_info_read)'
    BY <2>1 DEF CompleteInv, Complete, Filed, Indexed, Divided
  <2> QED
    BY <2>1, <2>2 DEF CompleteInv, Loading, Swapped
<1>4. CASE SwapPrefixInfo
  <2>1. /\ wpc = "swap_prefix" /\ wpc' = "swap_darts" /\ ~published'
        /\ prefix_info_read' = prefix_info_write
        /\ UNCHANGED <<dict_info_read, darts_write, darts>>
    BY <1>4 DEF SwapPrefixInfo
  <2>2. Complete(darts_write, prefix_info_read, dict_info_read)'
    BY <2>1 DEF CompleteInv, Complete, Filed, Indexed, Divided
  <2> QED
    BY <2>1, <2>2 DEF CompleteInv, Loading, Swapped
<1>5. CASE SwapDarts
  <2>1. /\ wpc = "swap_darts" /\ wpc' = "exit" /\ ~published'
        /\ darts_read' = darts_write
        /\ UNCHANGED <<dict_info_read, prefix_info_read, darts>>
    BY <1>5 DEF SwapDarts
  <2>2. Complete(darts_read, prefix_info_read, dict_info_read)'
    BY <2>1 DEF CompleteInv, Complete, Filed, Indexed, Divided
  <2> QED
    BY <2>1, <2>2 DEF CompleteInv, Loading, Swapped
<1>6. CASE ExitWrite \/ CopyBack
  <2>1. /\ wpc \in Swapped /\ wpc' \in {"copy", "free"} /\ ~published'
        /\ UNCHANGED <<dict_info_read, prefix_info_read, darts_read, darts>>
    BY <1>6 DEF ExitWrite, CopyBack, Swapped
  <2>2. Complete(darts_read, prefix_info_read, dict_info_read)'
    BY <2>1 DEF CompleteInv, Complete, Filed, Indexed, Divided
  <2> QED
    BY <2>1, <2>2 DEF CompleteInv, Loading, Swapped
<1>7. CASE FreeTrie
  <2>1. /\ wpc = "free" /\ published'
        /\ darts' = [darts EXCEPT ![darts_write].live = FALSE]
        /\ UNCHANGED <<dict_info_read, prefix_info_read, darts_read>>
    BY <1>7 DEF FreeTrie
  <2>2. /\ Complete(darts_read, prefix_info_read, dict_info_read)
        /\ darts_write = "first" /\ darts_read = "second"
    BY <2>1 DEF CompleteInv, IInv, LoaderInv, Swapped
  <2>3. darts'["second"] = darts["second"]
    BY <1>1, <2>1, <2>2 DEF Tries
  <2>4. Complete(darts_read, prefix_info_read, dict_info_read)'
    BY <2>1, <2>2, <2>3 DEF Complete, Filed, Indexed, Divided
  <2> QED
    BY <2>1, <2>4 DEF CompleteInv
<1> QED
  BY <1>2, <1>3, <1>4, <1>5, <1>6, <1>7

\* Finalize loses no record, whatever readers and the writer's callers do.
LEMMA CompleteStep == IInv /\ CompleteInv /\ [Next]_vars => CompleteInv'
<1> SUFFICES ASSUME IInv, CompleteInv, [Next]_vars PROVE CompleteInv'
  OBVIOUS
<1>1. CASE UNCHANGED vars
  <2>1. UNCHANGED <<dict_info_read, prefix_info_read, darts_read, dict_info_write,
                    prefix_info_write, darts_write, darts, wpc, next, published>>
    BY <1>1 DEF vars, readSide, writeSide, control
  <2>2. /\ Undivided(prefix_info_write)' = Undivided(prefix_info_write)
        /\ Filed(prefix_info_write, dict_info_write, next)'
              = Filed(prefix_info_write, dict_info_write, next)
        /\ Filed(prefix_info_write, dict_info_write, Len(dict_info_write) + 1)'
              = Filed(prefix_info_write, dict_info_write, Len(dict_info_write) + 1)
        /\ Indexed(darts_write, prefix_info_write)' = Indexed(darts_write, prefix_info_write)
    BY <2>1 DEF Undivided, Indexed
  <2>3. /\ Complete(darts_write, prefix_info_write, dict_info_write)'
              = Complete(darts_write, prefix_info_write, dict_info_write)
        /\ Complete(darts_write, prefix_info_write, dict_info_read)'
              = Complete(darts_write, prefix_info_write, dict_info_read)
    BY <2>1 DEF Complete, Divided, Indexed
  <2>4. /\ Complete(darts_write, prefix_info_read, dict_info_read)'
              = Complete(darts_write, prefix_info_read, dict_info_read)
        /\ Complete(darts_read, prefix_info_read, dict_info_read)'
              = Complete(darts_read, prefix_info_read, dict_info_read)
    BY <2>1 DEF Complete, Divided, Indexed
  <2> QED
    BY <2>1, <2>2, <2>3, <2>4 DEF CompleteInv
<1>2. CASE published
  <2>1. CASE WriterStep \/ WriterCall
    BY <1>2, <2>1, PublishedStep, CompletePublished
  <2>2. CASE \E r \in Readers : ReaderStep(r) \/ \E q \in Queries : Get(r, q)
    <3>1. UNCHANGED <<readSide, darts, published>>
      BY <2>2 DEF ReaderStep, Get, SearchTrie, CopyPrefixInfo, MatchRegexes,
         FetchRecords, Return, unchangedByGet, control
    <3> QED
      BY <1>2, <3>1, CompletePublished
  <2> QED
    BY <1>1, <2>1, <2>2 DEF Next
<1>3. CASE ~published
  <2>1. ~ \E r \in Readers : ReaderStep(r) \/ \E q \in Queries : Get(r, q)
    BY <1>3 DEF IInv, LoaderInv, ReaderStep, Get, SearchTrie, CopyPrefixInfo,
       MatchRegexes, FetchRecords, Return
  <2>2. wpc # "idle"
    BY <1>3 DEF IInv, LoaderInv
  <2>3. CASE WriterStep
    BY <1>3, <2>3, CompleteReading, CompleteCollect, CompleteBuild, CompleteSeparation
    DEF WriterStep
  <2>4. CASE WriterCall
    <3>1. LoadOpenFails \/ \E f \in Files : Load(f)
      BY <2>2, <2>4 DEF WriterCall, Clear, Dump, Reload, Del, Set, Add, Edit
    <3> QED
      BY <1>3, <3>1, CompleteReading
  <2> QED
    BY <1>1, <2>1, <2>3, <2>4 DEF Next
<1> QED
  BY <1>2, <1>3

\* CompleteInv holds throughout every behaviour.
THEOREM ReadSideIsComplete == Spec => [](IInv /\ CompleteInv)
<1>1. Init => CompleteInv
  BY DEF Init, CompleteInv, Loading, Swapped, Undivided
<1>2. IInv /\ CompleteInv /\ [Next]_vars => (IInv /\ CompleteInv)'
  BY InvStep, CompleteStep
<1> QED
  BY <1>1, <1>2, InvInit, PTL DEF Spec

-----------------------------------------------------------------------------
(***************************************************************************)
(* Every record has one place in the published read side.                  *)
(***************************************************************************)

\* A record is filed under its prefix, where the trie leads.
LEMMA RecordPlace ==
    ASSUME IInv, CompleteInv, published, NEW n \in 1 .. Len(dict_info_read)
    PROVE  LET p == PrefixOfRecord(dict_info_read[n])
           IN  \E i \in 1 .. Len(prefix_info_read) :
                  /\ \E j \in 1 .. Len(prefix_info_read[i].repo) :
                        prefix_info_read[i].repo[j].index = n
                  /\ prefix_info_read[i].prefix = p
                  /\ p # EmptyPrefix => darts[darts_read].index[p] = i
<1>1. /\ Linked(prefix_info_read, dict_info_read) /\ Leads(darts_read, prefix_info_read)
      /\ Filed(prefix_info_read, dict_info_read, Len(dict_info_read) + 1)
      /\ Indexed(darts_read, prefix_info_read)
  BY DEF IInv, PublishedInv, CompleteInv, Complete
<1>2. prefix_info_read \in Seq(PrefixInfo) /\ Len(dict_info_read) \in Nat
  BY LenProperties DEF IInv, TypeOK, SidesOK
<1>3. n < Len(dict_info_read) + 1
  BY <1>2
<1>4. PICK i \in 1 .. Len(prefix_info_read) :
        \E j \in 1 .. Len(prefix_info_read[i].repo) : prefix_info_read[i].repo[j].index = n
  BY <1>1, <1>3 DEF Filed
<1>5. PICK j \in 1 .. Len(prefix_info_read[i].repo) : prefix_info_read[i].repo[j].index = n
  BY <1>4
<1>6. prefix_info_read[i].prefix = PrefixOfRecord(dict_info_read[n])
  BY <1>1, <1>5 DEF Linked, PrefixOfRecord
<1>7. prefix_info_read[i].prefix \in Prefixes
  BY <1>2, InfoTypes
<1>8. ASSUME prefix_info_read[i].prefix # EmptyPrefix
      PROVE  darts[darts_read].index[prefix_info_read[i].prefix] = i
  <2>1. PICK k : k = darts[darts_read].index[prefix_info_read[i].prefix]
    OBVIOUS
  <2>2. k # 0
    BY <1>1, <1>8, <2>1 DEF Indexed
  <2>3. /\ k \in 1 .. Len(prefix_info_read)
        /\ prefix_info_read[k].prefix = prefix_info_read[i].prefix
    BY <1>1, <1>7, <2>1, <2>2 DEF Leads
  <2> QED
    BY <1>1, <2>1, <2>3 DEF Filed
<1> QED
  BY <1>4, <1>6, <1>8

\* No two places hold the same record.
LEMMA OnePlace ==
    ASSUME IInv, CompleteInv, published,
           NEW i \in 1 .. Len(prefix_info_read), NEW k \in 1 .. Len(prefix_info_read),
           NEW j \in 1 .. Len(prefix_info_read[i].repo),
           NEW l \in 1 .. Len(prefix_info_read[k].repo),
           prefix_info_read[i].repo[j].index = prefix_info_read[k].repo[l].index
    PROVE  i = k /\ j = l
<1>1. /\ Linked(prefix_info_read, dict_info_read)
      /\ Filed(prefix_info_read, dict_info_read, Len(dict_info_read) + 1)
  BY DEF IInv, PublishedInv, CompleteInv, Complete
<1>2. prefix_info_read[i].prefix = prefix_info_read[k].prefix
  <2>1. /\ prefix_info_read[i].repo[j].regex
              = GetKey(dict_info_read[prefix_info_read[i].repo[j].index].key)
        /\ prefix_info_read[k].repo[l].regex
              = GetKey(dict_info_read[prefix_info_read[k].repo[l].index].key)
    BY <1>1 DEF Linked
  <2>2. prefix_info_read[i].repo[j].regex = prefix_info_read[k].repo[l].regex
    BY <2>1
  <2>3. /\ PrefixOf[prefix_info_read[i].repo[j].regex] = prefix_info_read[i].prefix
        /\ PrefixOf[prefix_info_read[k].repo[l].regex] = prefix_info_read[k].prefix
    BY <1>1 DEF Linked
  <2> QED
    BY <2>2, <2>3
<1>3. i = k
  BY <1>1, <1>2 DEF Filed
<1> QED
  BY <1>1, <1>3 DEF Filed

\* No record is lost on the way into the trie.
THEOREM NoRecordIsLost == Spec => []SnapshotComplete
<1>1. IInv /\ CompleteInv => SnapshotComplete
  <2> SUFFICES ASSUME IInv, CompleteInv, published, NEW n \in 1 .. Len(dict_info_read),
                      PrefixOfRecord(dict_info_read[n]) # EmptyPrefix
               PROVE  LET i == darts[darts_read].index[PrefixOfRecord(dict_info_read[n])]
                      IN  /\ i # 0
                          /\ LET info == prefix_info_read[i]
                                 at == {j \in 1 .. Len(info.repo) : info.repo[j].index = n}
                             IN  /\ Cardinality(at) = 1
                                 /\ at \subseteq (info.online \union info.offline)
                                 /\ at \intersect info.online \intersect info.offline = {}
    BY DEF SnapshotComplete
  <2>1. PICK i \in 1 .. Len(prefix_info_read) :
          /\ \E j \in 1 .. Len(prefix_info_read[i].repo) :
                prefix_info_read[i].repo[j].index = n
          /\ darts[darts_read].index[PrefixOfRecord(dict_info_read[n])] = i
    BY RecordPlace
  <2>2. PICK j \in 1 .. Len(prefix_info_read[i].repo) :
          prefix_info_read[i].repo[j].index = n
    BY <2>1
  <2>3. {l \in 1 .. Len(prefix_info_read[i].repo) :
            prefix_info_read[i].repo[l].index = n} = {j}
    BY <2>2, OnePlace
  <2>4. Cardinality({j}) = 1
    BY FS_Singleton
  <2>5. /\ prefix_info_read[i].online \subseteq 1 .. Len(prefix_info_read[i].repo)
        /\ prefix_info_read[i].offline
              = (1 .. Len(prefix_info_read[i].repo)) \ prefix_info_read[i].online
    BY DEF CompleteInv, Complete, Divided
  <2>6. i # 0
    OBVIOUS
  <2> QED
    BY <2>1, <2>3, <2>4, <2>5, <2>6
<1> QED
  BY <1>1, ReadSideIsComplete, PTL

-----------------------------------------------------------------------------
(***************************************************************************)
(* Get answers with as many values as there are records that match.        *)
(***************************************************************************)

\* Of a finite set of numbers, n have fewer than n below them.
LEMMA FirstOfSize ==
    ASSUME NEW S \in SUBSET Nat, IsFiniteSet(S), NEW n \in Nat, n <= Cardinality(S)
    PROVE  LET T == {j \in S : Cardinality({k \in S : k < j}) < n}
           IN  IsFiniteSet(T) /\ Cardinality(T) = n
<1> DEFINE Below(j) == {k \in S : k < j}
<1>1. PICK c \in Nat : c = Cardinality(S)
  BY FS_CardinalityType
<1>2. ASSUME NEW j \in S
      PROVE  /\ IsFiniteSet(Below(j)) /\ Cardinality(Below(j)) \in Nat
             /\ Cardinality(Below(j)) < c
  <2>1. Below(j) \in SUBSET S /\ Below(j) # S
    OBVIOUS
  <2>2. /\ IsFiniteSet(Below(j)) /\ Cardinality(Below(j)) <= Cardinality(S)
        /\ Cardinality(Below(j)) # Cardinality(S)
    BY <2>1, FS_Subset
  <2>3. Cardinality(Below(j)) \in Nat
    BY <2>2, FS_CardinalityType
  <2> QED
    BY <1>1, <2>2, <2>3
<1>3. ASSUME NEW j \in S, NEW l \in S, j < l
      PROVE  Cardinality(Below(j)) < Cardinality(Below(l))
  <2>1. j \in Nat /\ l \in Nat /\ \A k \in S : k \in Nat
    OBVIOUS
  <2>2. \A k \in S : k < j => k < l
    BY <1>3, <2>1
  <2>3. Below(j) \in SUBSET Below(l)
    BY <2>2
  <2>4. j \in Below(l) /\ j \notin Below(j)
    BY <1>3, <2>1
  <2>5. /\ IsFiniteSet(Below(j)) /\ Cardinality(Below(j)) \in Nat
        /\ IsFiniteSet(Below(l)) /\ Cardinality(Below(l)) \in Nat
    BY <1>2
  <2> HIDE DEF Below
  <2>6. /\ Cardinality(Below(j)) <= Cardinality(Below(l))
        /\ Cardinality(Below(l)) # Cardinality(Below(j))
    BY <2>3, <2>4, <2>5, FS_Subset
  <2> QED
    BY <2>5, <2>6
<1> HIDE DEF Below
<1>a. PICK rank : rank = [j \in S |-> Cardinality(Below(j))]
  OBVIOUS
<1>4. rank \in [S -> 0 .. c - 1] /\ \A j \in S : rank[j] = Cardinality(Below(j))
  BY <1>2, <1>a
<1>5. \A j, l \in S : rank[j] = rank[l] => j = l
  <2> SUFFICES ASSUME NEW j \in S, NEW l \in S, j # l PROVE rank[j] # rank[l]
    OBVIOUS
  <2>1. j < l \/ l < j
    OBVIOUS
  <2> QED
    BY <1>2, <1>3, <1>4, <2>1
<1>6. \A m \in 0 .. c - 1 : \E j \in S : rank[j] = m
  <2>0. PICK R : R = 0 .. c - 1
    OBVIOUS
  <2>1. rank \in Injection(S, R)
    BY <1>4, <1>5, <2>0, Fun_IsInj
  <2>2. IsFiniteSet(R) /\ Cardinality(R) = c
    BY <2>0, FS_Interval
  <2>3. rank \in Surjection(S, R)
    BY <1>1, <2>1, <2>2, FS_Injection
  <2>4. \A m \in R : \E j \in S : rank[j] = m
    BY <2>3, Fun_SurjectionProperties
  <2> QED
    BY <2>0, <2>4
<1>7. PICK T : T = {j \in S : Cardinality({k \in S : k < j}) < n}
  OBVIOUS
<1>8. /\ T \in SUBSET S
      /\ \A j \in S : j \in T <=> rank[j] < n
  BY <1>4, <1>7 DEF Below
<1>9. IsFiniteSet(T)
  BY <1>8, FS_Subset
<1>10. PICK g : g = [j \in T |-> rank[j]]
  OBVIOUS
<1>11. g \in [T -> 0 .. n - 1]
  <2>1. \A j \in T : rank[j] \in 0 .. n - 1
    BY <1>4, <1>8
  <2> QED
    BY <1>10, <2>1
<1>12. \A j, l \in T : g[j] = g[l] => j = l
  BY <1>5, <1>8, <1>10
<1>13. \A m \in 0 .. n - 1 : \E j \in T : g[j] = m
  <2> SUFFICES ASSUME NEW m \in 0 .. n - 1 PROVE \E j \in T : g[j] = m
    OBVIOUS
  <2>1. m \in 0 .. c - 1 /\ m < n
    BY <1>1
  <2>2. PICK j \in S : rank[j] = m
    BY <1>6, <2>1
  <2> QED
    BY <1>8, <1>10, <2>1, <2>2
<1>14. g \in Bijection(T, 0 .. n - 1)
  BY <1>11, <1>12, <1>13, Fun_IsBij
<1>15. ExistsBijection(T, 0 .. n - 1)
  BY <1>14, Fun_ExistsBij
<1>16. Cardinality(0 .. n - 1) = Cardinality(T)
  BY <1>9, <1>15, FS_Bijection
<1>17. Cardinality(0 .. n - 1) = n
  BY FS_Interval
<1> QED
  BY <1>7, <1>9, <1>16, <1>17

\* The positions of an info whose pattern matches q.
Exact(info, q) ==
    {j \in 1 .. Len(info.repo) :
        IF info.repo[j].regex \in Accepted
        THEN info.repo[j].regex \in DfaMatches[q]
        ELSE info.repo[j].regex \in FullMatches[q]}

\* Get takes the wrong positions of the DFA, but as many as match.
LEMMA MatchedSize ==
    ASSUME NEW info \in PrefixInfo, NEW q,
           info.online = {j \in 1 .. Len(info.repo) : info.repo[j].regex \in Accepted},
           info.offline = (1 .. Len(info.repo)) \ info.online
    PROVE  /\ MatchedPositions(info, q) \subseteq 1 .. Len(info.repo)
           /\ IsFiniteSet(MatchedPositions(info, q)) /\ IsFiniteSet(Exact(info, q))
           /\ Cardinality(MatchedPositions(info, q)) = Cardinality(Exact(info, q))
<1> DEFINE D     == {j \in info.online : info.repo[j].regex \in DfaMatches[q]}
           F     == {j \in info.offline : info.repo[j].regex \in FullMatches[q]}
           First == FirstOnline(info, DfaHits(info, q))
<1>1. info.repo \in Seq(RegexInfo)
  BY DEF PrefixInfo
<1>2. Len(info.repo) \in Nat
  BY <1>1, LenProperties
<1>3. IsFiniteSet(1 .. Len(info.repo))
  BY <1>2, FS_Interval
<1>4. /\ info.online \in SUBSET (1 .. Len(info.repo)) /\ IsFiniteSet(info.online)
      /\ info.online \in SUBSET Nat
  <2>1. info.online \in SUBSET (1 .. Len(info.repo))
    OBVIOUS
  <2> QED
    BY <1>2, <1>3, <2>1, FS_Subset
<1>5. F \in SUBSET (1 .. Len(info.repo)) /\ IsFiniteSet(F)
  <2>1. F \in SUBSET (1 .. Len(info.repo))
    OBVIOUS
  <2> QED
    BY <1>3, <2>1, FS_Subset
<1>6. /\ D \in SUBSET info.online /\ IsFiniteSet(D)
      /\ Cardinality(D) \in Nat /\ Cardinality(D) <= Cardinality(info.online)
  <2>1. D \in SUBSET info.online
    OBVIOUS
  <2> HIDE DEF D
  <2>2. IsFiniteSet(D) /\ Cardinality(D) <= Cardinality(info.online)
    BY <1>4, <2>1, FS_Subset
  <2> QED
    BY <2>1, <2>2, FS_CardinalityType
<1>7. DfaHits(info, q) = Cardinality(D)
  BY DEF DfaHits
<1>8. First \in SUBSET info.online /\ IsFiniteSet(First) /\ Cardinality(First) = Cardinality(D)
  <2>1. First = {j \in info.online :
                    Cardinality({k \in info.online : k < j}) < Cardinality(D)}
    BY <1>7 DEF FirstOnline
  <2> HIDE DEF First, D
  <2> QED
    BY <1>4, <1>6, <2>1, FirstOfSize
<1>9. Exact(info, q) = D \union F
  BY <1>1 DEF Exact
<1>10. MatchedPositions(info, q) = First \union F
  BY DEF MatchedPositions
<1>11. D \intersect F = {} /\ First \intersect F = {}
  BY <1>6, <1>8
<1> HIDE DEF D, F, First
<1>12. /\ IsFiniteSet(D \union F) /\ IsFiniteSet(First \union F)
       /\ Cardinality(D \union F) = Cardinality(D) + Cardinality(F) - Cardinality({})
       /\ Cardinality(First \union F) = Cardinality(First) + Cardinality(F) - Cardinality({})
  BY <1>5, <1>6, <1>8, <1>11, FS_Union
<1> QED
  BY <1>4, <1>5, <1>8, <1>9, <1>10, <1>12

\* Pairs of an index and one of its numbers.
PairsOf(H, A) == {x \in H \X Nat : x[2] \in A[x[1]]}

\* Of two families of sets of numbers with the same sizes there are as many
\* pairs of an index and a number of its set.
LEMMA SamePairs ==
    ASSUME NEW H, NEW A \in [H -> SUBSET Nat], NEW B \in [H -> SUBSET Nat],
           \A i \in H : /\ IsFiniteSet(A[i]) /\ IsFiniteSet(B[i])
                        /\ Cardinality(A[i]) = Cardinality(B[i]),
           IsFiniteSet(PairsOf(H, A))
    PROVE  Cardinality(PairsOf(H, A)) = Cardinality(PairsOf(H, B))
<1>1. PICK b : b = [i \in H |-> CHOOSE f : f \in Bijection(A[i], B[i])]
  OBVIOUS
<1>2. ASSUME NEW i \in H PROVE b[i] \in Bijection(A[i], B[i])
  <2>1. ExistsBijection(A[i], B[i])
    BY FS_SameCardinalityBij
  <2>2. \E f : f \in Bijection(A[i], B[i])
    BY <2>1, Fun_ExistsBij
  <2> QED
    BY <1>1, <2>2
<1>3. ASSUME NEW i \in H
      PROVE  /\ \A j \in A[i] : b[i][j] \in B[i]
             /\ \A j, l \in A[i] : b[i][j] = b[i][l] => j = l
             /\ \A k \in B[i] : \E j \in A[i] : b[i][j] = k
  <2>1. PICK f : f = b[i]
    OBVIOUS
  <2>2. f \in Bijection(A[i], B[i])
    BY <1>2, <2>1
  <2>3. /\ f \in [A[i] -> B[i]]
        /\ \A j, l \in A[i] : f[j] = f[l] => j = l
        /\ \A k \in B[i] : \E j \in A[i] : f[j] = k
    BY <2>2, Fun_BijectionProperties
  <2> QED
    BY <2>1, <2>3
<1>4. /\ \A i \in H : \A j \in A[i] : j \in Nat
      /\ \A i \in H : \A j \in B[i] : j \in Nat
  OBVIOUS
<1>5. PICK P, Q : P = PairsOf(H, A) /\ Q = PairsOf(H, B)
  OBVIOUS
<1>6. /\ \A x \in P : /\ x[1] \in H /\ x[2] \in A[x[1]] /\ x = <<x[1], x[2]>>
      /\ \A i \in H : \A j \in A[i] : <<i, j>> \in P
      /\ \A i \in H : \A j \in B[i] : <<i, j>> \in Q
      /\ \A x \in Q : /\ x[1] \in H /\ x[2] \in B[x[1]] /\ x = <<x[1], x[2]>>
  BY <1>4, <1>5 DEF PairsOf
<1>7. PICK g : g = [x \in P |-> <<x[1], b[x[1]][x[2]]>>]
  OBVIOUS
<1>8. g \in [P -> Q]
  BY <1>3, <1>6, <1>7
<1>9. ASSUME NEW x \in P, NEW y \in P, g[x] = g[y] PROVE x = y
  <2>1. x[1] = y[1] /\ b[x[1]][x[2]] = b[y[1]][y[2]]
    BY <1>7, <1>9
  <2>2. x[2] = y[2]
    BY <1>3, <1>6, <2>1
  <2> QED
    BY <1>6, <2>1, <2>2
<1>10. ASSUME NEW y \in Q PROVE \E x \in P : g[x] = y
  <2>1. y[1] \in H /\ y[2] \in B[y[1]] /\ y = <<y[1], y[2]>>
    BY <1>6
  <2>2. PICK j \in A[y[1]] : b[y[1]][j] = y[2]
    BY <1>3, <2>1
  <2>3. <<y[1], j>> \in P /\ g[<<y[1], j>>] = <<y[1], b[y[1]][j]>>
    BY <1>6, <1>7, <2>1
  <2> QED
    BY <2>1, <2>2, <2>3
<1>11. g \in Bijection(P, Q)
  BY <1>8, <1>9, <1>10, Fun_IsBij
<1>12. ExistsBijection(P, Q)
  BY <1>11, Fun_ExistsBij
<1> QED
  BY <1>5, <1>12, FS_Bijection

\* A search hits the infos whose prefix the query begins with.
LEMMA HitsAre ==
    ASSUME IInv, CompleteInv, published, NEW q \in Queries
    PROVE  TrieHits(darts_read, q) =
              {i \in 1 .. Len(prefix_info_read) :
                  prefix_info_read[i].prefix \in PrefixHits[q] \ {EmptyPrefix}}
<1>1. /\ Leads(darts_read, prefix_info_read) /\ Indexed(darts_read, prefix_info_read)
      /\ Filed(prefix_info_read, dict_info_read, Len(dict_info_read) + 1)
  BY DEF IInv, PublishedInv, CompleteInv, Complete
<1>2. PrefixHits[q] \subseteq Prefixes
  BY QueryAssumption
<1>3. ASSUME NEW i \in TrieHits(darts_read, q)
      PROVE  /\ i \in 1 .. Len(prefix_info_read)
             /\ prefix_info_read[i].prefix \in PrefixHits[q] \ {EmptyPrefix}
  <2>1. PICK p \in PrefixHits[q] :
          darts[darts_read].index[p] # 0 /\ i = darts[darts_read].index[p]
    BY DEF TrieHits
  <2>2. p # EmptyPrefix
    BY <1>1, <2>1 DEF Indexed
  <2> QED
    BY <1>1, <1>2, <2>1, <2>2 DEF Leads
<1>4. ASSUME NEW i \in 1 .. Len(prefix_info_read),
             prefix_info_read[i].prefix \in PrefixHits[q] \ {EmptyPrefix}
      PROVE  i \in TrieHits(darts_read, q)
  <2>1. PICK p \in PrefixHits[q] : p = prefix_info_read[i].prefix /\ p # EmptyPrefix
    BY <1>4
  <2>2. PICK k : k = darts[darts_read].index[p]
    OBVIOUS
  <2>3. k # 0
    BY <1>1, <2>1, <2>2 DEF Indexed
  <2>4. k \in 1 .. Len(prefix_info_read) /\ prefix_info_read[k].prefix = p
    BY <1>1, <1>2, <2>2, <2>3 DEF Leads
  <2>5. k = i
    BY <1>1, <2>1, <2>4 DEF Filed
  <2> QED
    BY <2>2, <2>3, <2>5 DEF TrieHits
<1> QED
  BY <1>3, <1>4

\* The records that match are those at the positions that match of the infos hit.
LEMMA MatchingAre ==
    ASSUME IInv, CompleteInv, published, NEW q \in Queries
    PROVE  /\ \A i \in TrieHits(darts_read, q) : \A j \in Exact(prefix_info_read[i], q) :
                 prefix_info_read[i].repo[j].index \in Matching(q)
           /\ \A n \in Matching(q) : \E i \in TrieHits(darts_read, q) :
                 \E j \in Exact(prefix_info_read[i], q) : prefix_info_read[i].repo[j].index = n
<1>1. /\ Linked(prefix_info_read, dict_info_read)
      /\ Filed(prefix_info_read, dict_info_read, Len(dict_info_read) + 1)
  BY DEF IInv, PublishedInv, CompleteInv, Complete
<1>2. \A i \in TrieHits(darts_read, q) :
         /\ i \in 1 .. Len(prefix_info_read)
         /\ prefix_info_read[i].prefix \in PrefixHits[q] \ {EmptyPrefix}
  BY HitsAre
<1>3. ASSUME NEW i \in TrieHits(darts_read, q), NEW j \in Exact(prefix_info_read[i], q)
      PROVE  prefix_info_read[i].repo[j].index \in Matching(q)
  <2>1. i \in 1 .. Len(prefix_info_read) /\ j \in 1 .. Len(prefix_info_read[i].repo)
    BY <1>2 DEF Exact
  <2>2. PICK n, x : n = prefix_info_read[i].repo[j].index /\ x = prefix_info_read[i].repo[j].regex
    OBVIOUS
  <2>3. /\ n \in 1 .. Len(dict_info_read) /\ x = GetKey(dict_info_read[n].key)
        /\ PrefixOf[x] = prefix_info_read[i].prefix
    BY <1>1, <2>1, <2>2 DEF Linked
  <2>4. IF x \in Accepted THEN x \in DfaMatches[q] ELSE x \in FullMatches[q]
    BY <2>2 DEF Exact
  <2> QED
    BY <1>2, <2>1, <2>2, <2>3, <2>4 DEF Matching
<1>4. ASSUME NEW n \in Matching(q)
      PROVE  \E i \in TrieHits(darts_read, q) : \E j \in Exact(prefix_info_read[i], q) :
                prefix_info_read[i].repo[j].index = n
  <2>1. PICK x : x = GetKey(dict_info_read[n].key)
    OBVIOUS
  <2>2. /\ n \in 1 .. Len(dict_info_read)
        /\ PrefixOf[x] \in PrefixHits[q] \ {EmptyPrefix}
        /\ IF x \in Accepted THEN x \in DfaMatches[q] ELSE x \in FullMatches[q]
    BY <2>1 DEF Matching
  <2>3. PICK i \in 1 .. Len(prefix_info_read) :
          /\ \E j \in 1 .. Len(prefix_info_read[i].repo) :
                prefix_info_read[i].repo[j].index = n
          /\ prefix_info_read[i].prefix = PrefixOf[x]
    BY <2>1, <2>2, RecordPlace DEF PrefixOfRecord
  <2>4. PICK j \in 1 .. Len(prefix_info_read[i].repo) : prefix_info_read[i].repo[j].index = n
    BY <2>3
  <2>5. prefix_info_read[i].repo[j].regex = x
    BY <1>1, <2>1, <2>4 DEF Linked
  <2>6. i \in TrieHits(darts_read, q)
    BY <2>2, <2>3, HitsAre
  <2>7. j \in Exact(prefix_info_read[i], q)
    BY <2>2, <2>5 DEF Exact
  <2> QED
    BY <2>4, <2>6, <2>7
<1> QED
  BY <1>3, <1>4

\* There are as many answers as records that match, and every answer is of a
\* record whose prefix the query begins with.
LEMMA AnswerCount ==
    ASSUME IInv, CompleteInv, published, NEW q \in Queries
    PROVE  /\ Cardinality(AnswerTo(q)) = Cardinality(Matching(q))
           /\ \A f \in AnswerTo(q) : PrefixOfRecord(f.record) \in PrefixHits[q]
<1>1. /\ Linked(prefix_info_read, dict_info_read) /\ Divided(prefix_info_read)
      /\ prefix_info_read \in Seq(PrefixInfo) /\ Len(dict_info_read) \in Nat
  BY LenProperties DEF IInv, TypeOK, SidesOK, PublishedInv, CompleteInv, Complete
<1>2. PICK H : H = TrieHits(darts_read, q)
  OBVIOUS
<1>3. PICK A, B : /\ A = [i \in H |-> MatchedPositions(prefix_info_read[i], q)]
                  /\ B = [i \in H |-> Exact(prefix_info_read[i], q)]
  OBVIOUS
<1>4. \A i \in H : /\ i \in 1 .. Len(prefix_info_read)
                   /\ prefix_info_read[i].prefix \in PrefixHits[q] \ {EmptyPrefix}
  BY <1>2, HitsAre
<1>5. ASSUME NEW i \in H
      PROVE  /\ A[i] \in SUBSET (1 .. Len(prefix_info_read[i].repo))
             /\ B[i] \in SUBSET (1 .. Len(prefix_info_read[i].repo))
             /\ IsFiniteSet(A[i]) /\ IsFiniteSet(B[i])
             /\ Cardinality(A[i]) = Cardinality(B[i])
  <2>1. PICK info : info = prefix_info_read[i]
    OBVIOUS
  <2>2. info \in PrefixInfo
    BY <1>1, <1>4, <2>1, InfoTypes
  <2>3. /\ info.online = {j \in 1 .. Len(info.repo) : info.repo[j].regex \in Accepted}
        /\ info.offline = (1 .. Len(info.repo)) \ info.online
    BY <1>1, <1>4, <2>1 DEF Divided
  <2>4. /\ MatchedPositions(info, q) \subseteq 1 .. Len(info.repo)
        /\ IsFiniteSet(MatchedPositions(info, q)) /\ IsFiniteSet(Exact(info, q))
        /\ Cardinality(MatchedPositions(info, q)) = Cardinality(Exact(info, q))
    BY <2>2, <2>3, MatchedSize
  <2>5. Exact(info, q) \subseteq 1 .. Len(info.repo)
    BY DEF Exact
  <2>6. A[i] = MatchedPositions(info, q) /\ B[i] = Exact(info, q)
    BY <1>3, <2>1
  <2> QED
    BY <2>1, <2>4, <2>5, <2>6
<1>6. A \in [H -> SUBSET Nat] /\ B \in [H -> SUBSET Nat]
  <2>1. \A i \in H : Len(prefix_info_read[i].repo) \in Nat
    BY <1>1, <1>4, InfoTypes
  <2>2. \A i \in H : A[i] \in SUBSET Nat /\ B[i] \in SUBSET Nat
    BY <1>5, <2>1
  <2> QED
    BY <1>3, <2>2
<1>7. PICK P, Q : P = PairsOf(H, A) /\ Q = PairsOf(H, B)
  OBVIOUS
<1>8. /\ \A x \in P : x[1] \in H /\ x[2] \in A[x[1]] /\ x = <<x[1], x[2]>>
      /\ \A x \in Q : x[1] \in H /\ x[2] \in B[x[1]] /\ x = <<x[1], x[2]>>
      /\ \A i \in H : \A j \in A[i] : <<i, j>> \in P
      /\ \A i \in H : \A j \in B[i] : <<i, j>> \in Q
  BY <1>6, <1>7 DEF PairsOf
<1>9. \A x \in P \union Q :
         /\ x[1] \in 1 .. Len(prefix_info_read)
         /\ x[2] \in 1 .. Len(prefix_info_read[x[1]].repo)
         /\ x = <<x[1], x[2]>>
  BY <1>4, <1>5, <1>8
<1>10. PICK at : at = [x \in P \union Q |-> prefix_info_read[x[1]].repo[x[2]].index]
  OBVIOUS
<1>11. ASSUME NEW x \in P \union Q, NEW y \in P \union Q, at[x] = at[y]
       PROVE  x = y
  <2>1. x[1] = y[1] /\ x[2] = y[2]
    BY <1>9, <1>10, <1>11, OnePlace
  <2> QED
    BY <1>9, <2>1
<1>12. IsFiniteSet(P) /\ IsFiniteSet(Q)
  <2>1. at \in [P \union Q -> 1 .. Len(dict_info_read)]
    BY <1>1, <1>9, <1>10 DEF Linked
  <2>2. at \in Injection(P \union Q, 1 .. Len(dict_info_read))
    BY <1>11, <2>1, Fun_IsInj
  <2>3. IsFiniteSet(1 .. Len(dict_info_read))
    BY <1>1, FS_Interval
  <2>4. IsFiniteSet(P \union Q)
    BY <2>2, <2>3, FS_Injection
  <2>5. P \in SUBSET (P \union Q) /\ Q \in SUBSET (P \union Q)
    OBVIOUS
  <2> QED
    BY <2>4, <2>5, FS_Subset
<1>13. Cardinality(P) = Cardinality(Q)
  BY <1>5, <1>6, <1>7, <1>12, SamePairs
<1>14. Cardinality(Matching(q)) = Cardinality(Q)
  <2>1. PICK m : m = [x \in Q |-> at[x]]
    OBVIOUS
  <2>2. \A x \in Q : m[x] = prefix_info_read[x[1]].repo[x[2]].index
    BY <1>10, <2>1
  <2>3. \A i \in H : B[i] = Exact(prefix_info_read[i], q)
    BY <1>3
  <2>4. \A x \in Q : m[x] \in Matching(q)
    BY <1>2, <1>8, <2>2, <2>3, MatchingAre
  <2>5. m \in [Q -> Matching(q)]
    BY <2>1, <2>4
  <2>6. \A x, y \in Q : m[x] = m[y] => x = y
    BY <1>11, <2>1
  <2>7. ASSUME NEW n \in Matching(q) PROVE \E x \in Q : m[x] = n
    <3>1. PICK i \in H : \E j \in B[i] : prefix_info_read[i].repo[j].index = n
      BY <1>2, <2>3, MatchingAre
    <3>2. PICK j \in B[i] : prefix_info_read[i].repo[j].index = n
      BY <3>1
    <3>3. <<i, j>> \in Q /\ m[<<i, j>>] = n
      BY <1>8, <2>2, <3>2
    <3> QED
      BY <3>3
  <2>8. m \in Bijection(Q, Matching(q))
    BY <2>5, <2>6, <2>7, Fun_IsBij
  <2>9. ExistsBijection(Q, Matching(q))
    BY <2>8, Fun_ExistsBij
  <2> QED
    BY <1>12, <2>9, FS_Bijection
<1>15. PICK a : a = [x \in P |-> [regex  |-> prefix_info_read[x[1]].repo[x[2]],
                                  record |-> dict_info_read[at[x]]]]
  OBVIOUS
<1>16. \A i \in H : A[i] = MatchedPositions(prefix_info_read[i], q)
  BY <1>3
<1>17. ASSUME NEW x \in P
       PROVE  /\ a[x].regex = prefix_info_read[x[1]].repo[x[2]]
              /\ a[x].record = dict_info_read[at[x]]
              /\ at[x] = prefix_info_read[x[1]].repo[x[2]].index
  BY <1>10, <1>15
<1>18. a \in [P -> AnswerTo(q)] /\ \A f \in AnswerTo(q) : \E x \in P : a[x] = f
  <2>1. \A x \in P :
           a[x] = [regex  |-> prefix_info_read[x[1]].repo[x[2]],
                   record |-> dict_info_read[prefix_info_read[x[1]].repo[x[2]].index]]
    BY <1>10, <1>15
  <2>2. ASSUME NEW x \in P PROVE a[x] \in AnswerTo(q)
    <3>1. x[1] \in TrieHits(darts_read, q)
      BY <1>2, <1>8
    <3>2. x[2] \in MatchedPositions(prefix_info_read[x[1]], q)
      BY <1>8, <1>16
    <3>3. PICK i, j : i = x[1] /\ j = x[2]
      OBVIOUS
    <3>4. a[x] = [regex  |-> prefix_info_read[i].repo[j],
                  record |-> dict_info_read[prefix_info_read[i].repo[j].index]]
      BY <2>1, <3>3
    <3>5. i \in TrieHits(darts_read, q) /\ j \in MatchedPositions(prefix_info_read[i], q)
      BY <3>1, <3>2, <3>3
    <3> QED
      BY <3>4, <3>5 DEF AnswerTo
  <2>3. ASSUME NEW f \in AnswerTo(q) PROVE \E x \in P : a[x] = f
    <3>1. PICK i \in H : \E j \in MatchedPositions(prefix_info_read[i], q) :
            f = [regex  |-> prefix_info_read[i].repo[j],
                 record |-> dict_info_read[prefix_info_read[i].repo[j].index]]
      BY <1>2 DEF AnswerTo
    <3>2. PICK j \in A[i] :
            f = [regex  |-> prefix_info_read[i].repo[j],
                 record |-> dict_info_read[prefix_info_read[i].repo[j].index]]
      BY <1>16, <3>1
    <3>3. <<i, j>> \in P /\ a[<<i, j>>] = f
      BY <1>8, <2>1, <3>2
    <3> QED
      BY <3>3
  <2> QED
    BY <1>15, <2>2, <2>3
<1>19. Cardinality(AnswerTo(q)) = Cardinality(P)
  <2>1. ASSUME NEW x \in P, NEW y \in P, a[x] = a[y] PROVE x = y
    <3>1. /\ at[x] = prefix_info_read[x[1]].repo[x[2]].index
          /\ at[y] = prefix_info_read[y[1]].repo[y[2]].index
          /\ a[x].regex = prefix_info_read[x[1]].repo[x[2]]
          /\ a[y].regex = prefix_info_read[y[1]].repo[y[2]]
      BY <1>17
    <3>2. at[x] = at[y]
      BY <2>1, <3>1
    <3> QED
      BY <1>11, <3>2
  <2>2. a \in Bijection(P, AnswerTo(q))
    BY <1>18, <2>1, Fun_IsBij
  <2>3. ExistsBijection(P, AnswerTo(q))
    BY <2>2, Fun_ExistsBij
  <2> QED
    BY <1>12, <2>3, FS_Bijection
<1>20. ASSUME NEW f \in AnswerTo(q) PROVE PrefixOfRecord(f.record) \in PrefixHits[q]
  <2>1. PICK x \in P : a[x] = f
    BY <1>18
  <2>2. PICK i, j : i = x[1] /\ j = x[2]
    OBVIOUS
  <2>3. i \in H /\ i \in 1 .. Len(prefix_info_read) /\ j \in 1 .. Len(prefix_info_read[i].repo)
    BY <1>8, <1>9, <2>2
  <2>4. f.record = dict_info_read[prefix_info_read[i].repo[j].index]
    BY <1>17, <2>1, <2>2
  <2>5. PrefixOf[GetKey(dict_info_read[prefix_info_read[i].repo[j].index].key)]
           = prefix_info_read[i].prefix
    BY <1>1, <2>3 DEF Linked
  <2> QED
    BY <1>4, <2>3, <2>4, <2>5 DEF PrefixOfRecord
<1> QED
  BY <1>13, <1>14, <1>19, <1>20

\* A Get that returns gives as many values as there are records that match,
\* each of a record whose prefix the query begins with, whatever the writer
\* does beside it.
THEOREM AnswersHaveTheRightSize == Spec => []AnswerSize
<1>1. IInv /\ CompleteInv /\ AnswerInv => AnswerSize
  <2> SUFFICES ASSUME IInv, CompleteInv, AnswerInv, NEW r \in Readers, rpc[r] = "done"
               PROVE  /\ Cardinality(found[r]) = Cardinality(Matching(query[r]))
                      /\ \A f \in found[r] : PrefixOfRecord(f.record) \in PrefixHits[query[r]]
    BY DEF AnswerSize
  <2>1. published
    BY DEF IInv, TypeOK, WriterOK, LoaderInv
  <2>2. query[r] \in Queries /\ found[r] = AnswerTo(query[r])
    BY DEF AnswerInv
  <2> QED
    BY <2>1, <2>2, AnswerCount
<1> QED
  BY <1>1, AnswersAreTheReadSides, ReadSideIsComplete, PTL
=============================================================================
