---------------------------- MODULE PatternDict ----------------------------
(***************************************************************************)
(* CPatternDict (src/pattern_dict.cpp) inside its CMatchEngineUnit: one    *)
(* writer thread loads, publishes, edits and reloads the dictionary while  *)
(* readers run Get, which takes no lock.  The dictionary keeps a read side *)
(* and a write side (include/pattern_dict.h:127-135); Finalize builds the  *)
(* write side and Separation swaps the two, statement by statement.        *)
(*                                                                         *)
(* Regular expressions, urls and the key conversions are abstract: the     *)
(* constants below say of each text what RE2 and the key class compute.    *)
(* Assumed of the callers: Set, Add, Del, Clear, Reload and Dump of one    *)
(* engine are called by one thread at a time, since the write side has no  *)
(* lock at all; any number of threads call Get.                            *)
(***************************************************************************)
EXTENDS Naturals, Sequences, FiniteSets

CONSTANTS
    Texts,          \* the strings that name a pattern, in a file or a call
    Values,         \* the IValue objects
    Queries,        \* the urls looked up, in the form GetKey gives a query
    Prefixes,       \* the literal prefixes RePrefix cuts from patterns
    EmptyPrefix,    \* the prefix of length zero
    Readers,        \* the threads that call Get
    Files,          \* the contents load_path may have: sequences of lines
    BuildKey,       \* GetKey of a key initialised from a file line
    QueryKey,       \* GetKey of a key set by a call
    Malformed,      \* stands for a failing GetKey
    Legal,          \* the texts RE2 compiles (ReLegal)
    PrefixOf,       \* RePrefix
    PrefixRank,     \* the position of a prefix in string order
    Accepted,       \* the texts RE2::Set::Add accepts
    PrefixHits,     \* the prefixes a query begins with
    DfaMatches,     \* the patterns of an RE2::Set a query matches
    FullMatches,    \* the patterns RE2::FullMatch matches a query against
    NULL,           \* the null pointer, and no value in general
    MaxEdits        \* bound: calls of the writer after the first load

Lines == [text : Texts, value : Values]

ASSUME TextAssumption ==
    /\ BuildKey \in [Texts -> Texts \union {Malformed}]
    /\ QueryKey \in [Texts -> Texts \union {Malformed}]
    /\ Malformed \notin Texts
    /\ Legal \subseteq Texts
    /\ Accepted \subseteq Texts
    /\ PrefixOf \in [Texts -> Prefixes]

ASSUME PrefixAssumption ==
    /\ EmptyPrefix \in Prefixes
    /\ PrefixRank \in [Prefixes -> Nat]
    /\ \A p, q \in Prefixes : PrefixRank[p] = PrefixRank[q] => p = q

ASSUME QueryAssumption ==
    /\ PrefixHits \in [Queries -> SUBSET Prefixes]
    /\ DfaMatches \in [Queries -> SUBSET Texts]
    /\ FullMatches \in [Queries -> SUBSET Texts]

ASSUME NullAssumption == NULL \notin Queries \union {"first", "second"}

ASSUME LoadAssumption ==
    /\ Files \subseteq Seq(Lines)
    /\ MaxEdits \in Nat

VARIABLES
    dict_info_read, prefix_info_read, darts_read,       \* the read side
    dict_info_write, prefix_info_write, darts_write,    \* the write side
    darts,          \* the trie objects the two pointers point to
    wpc,            \* where the writer is
    lines,          \* the lines of load_path not read yet
    next,           \* the record Finalize collects next
    counter,        \* CounterMutex::counter
    published,      \* the unit is in CMatchEngineLevel's m_engine_pool
    edits,          \* writer calls since then, bounded by MaxEdits
    dumped,         \* what the last Dump did: the file opened, its result
    rpc,            \* where each reader is
    query,          \* the key it looks up
    trie,           \* the trie it is searching
    hits,           \* the prefix indexes the search returned
    infos,          \* its copies of the PrefixInfoMeta it hit
    regexes,        \* the RegexInfoMeta that matched
    found           \* the RegexInfoMeta with the DictInfoMeta they lead to

readSide  == <<dict_info_read, prefix_info_read, darts_read>>
writeSide == <<dict_info_write, prefix_info_write, darts_write>>
control   == <<lines, next, counter, published, edits, dumped>>
readers   == <<rpc, query, trie, hits, infos, regexes, found>>
vars      == <<readSide, writeSide, darts, wpc, control, readers>>

(***************************************************************************)
(* Data.  Vectors are sequences counted from 1; a trie maps a prefix to    *)
(* its index in prefix_info, 0 standing for absent.  An info's online and  *)
(* offline vectors are sets of positions in its repo: BuildDfa fills both  *)
(* in repo order.                                                          *)
(***************************************************************************)
Tries == {"first", "second"}

IKeys        == [text : Texts, build : BOOLEAN]
DictInfo     == [key : IKeys, value : Values]
RegexInfo    == [regex : Texts, index : Nat]
PrefixInfo   == [prefix : Prefixes, repo : Seq(RegexInfo),
                 online : SUBSET Nat, offline : SUBSET Nat, dfa : BOOLEAN]
DartsDatrie  == [live : BOOLEAN, built : BOOLEAN, index : [Prefixes -> Nat]]

GetKey(key) == IF key.build THEN BuildKey[key.text] ELSE QueryKey[key.text]

\* Compare sets the text of the key given against GetKey of the stored one.
SameKey(info, key) == key.text = GetKey(info.key)

\* Add and Set refuse a key that GetKey or RE2 refuses.
Acceptable(key) == GetKey(key) \in Legal

PrefixOfRecord(info) == PrefixOf[GetKey(info.key)]

NewPrefixInfo(p, r) ==
    [prefix |-> p, repo |-> <<r>>, online |-> {}, offline |-> {}, dfa |-> FALSE]

RemoveIndex(s, i) ==
    [j \in 1 .. Len(s) - 1 |-> IF j < i THEN s[j] ELSE s[j + 1]]

\* The orders std::sort may give a vector of prefix infos.
SortOrders(s) ==
    {pi \in [1 .. Len(s) -> 1 .. Len(s)] :
        /\ \A i, j \in 1 .. Len(s) : pi[i] = pi[j] => i = j
        /\ \A i, j \in 1 .. Len(s) :
              i < j => PrefixRank[s[pi[i]].prefix] <= PrefixRank[s[pi[j]].prefix]}

\* The index a trie built from s gives each prefix; an empty one is skipped.
TrieIndex(s) ==
    [p \in Prefixes |->
        IF p # EmptyPrefix /\ \E i \in 1 .. Len(s) : s[i].prefix = p
        THEN CHOOSE i \in 1 .. Len(s) : s[i].prefix = p
        ELSE 0]

EmptyTrie == [live |-> TRUE, built |-> FALSE, index |-> [p \in Prefixes |-> 0]]

Init ==
    /\ dict_info_read = <<>> /\ prefix_info_read = <<>> /\ darts_read = "first"
    /\ dict_info_write = <<>> /\ prefix_info_write = <<>> /\ darts_write = "second"
    /\ darts = [t \in Tries |-> EmptyTrie]
    /\ wpc = "new" /\ lines = <<>> /\ next = 1 /\ counter = 0
    /\ published = FALSE /\ edits = 0 /\ dumped = NULL
    /\ rpc = [r \in Readers |-> "idle"]
    /\ query = [r \in Readers |-> NULL]
    /\ trie = [r \in Readers |-> NULL]
    /\ hits = [r \in Readers |-> {}]
    /\ infos = [r \in Readers |-> {}]
    /\ regexes = [r \in Readers |-> {}]
    /\ found = [r \in Readers |-> {}]

-----------------------------------------------------------------------------
(***************************************************************************)
(* The writer: reading load_path (CMatchEngineUnit::Load and Reload).      *)
(***************************************************************************)

\* The first load finds load_path and goes on to read it.
Load(f) ==
    /\ wpc = "new"
    /\ lines' = f
    /\ wpc' = "read"
    /\ UNCHANGED <<readSide, writeSide, darts, next, counter, published, edits,
                   dumped, readers>>

\* The first load cannot open load_path: the unit never reaches the pool.
LoadOpenFails ==
    /\ wpc = "new"
    /\ wpc' = "failed"
    /\ UNCHANGED <<readSide, writeSide, darts, control, readers>>

\* A reload of a published unit reads the file again, whatever it now holds.
Reload(f) ==
    /\ wpc = "idle" /\ edits < MaxEdits
    /\ edits' = edits + 1
    /\ lines' = f
    /\ wpc' = "read"
    /\ UNCHANGED <<readSide, writeSide, darts, next, counter, published,
                   dumped, readers>>

\* Add: the record goes to the end of the vector, even when its key is there.
AppendRecord(key, value) ==
    dict_info_write' = Append(dict_info_write, [key |-> key, value |-> value])

\* One line of the file: key and value objects are made and added.
ReadLine ==
    /\ wpc = "read" /\ lines # <<>>
    /\ LET key == [text |-> Head(lines).text, build |-> TRUE]
       IN  IF Acceptable(key)
           THEN AppendRecord(key, Head(lines).value)
           ELSE UNCHANGED dict_info_write
    /\ lines' = Tail(lines)
    /\ UNCHANGED <<readSide, prefix_info_write, darts_write, darts, wpc, next,
                   counter, published, edits, dumped, readers>>

\* Mutant: Finalize starts counting one too low.
EndOfFileFromZero ==
    /\ wpc = "read" /\ lines = <<>>
    /\ next' = 0
    /\ wpc' = "collect"
    /\ UNCHANGED <<readSide, writeSide, darts, lines, counter, published, edits,
                   dumped, readers>>

EndOfFile ==
    /\ wpc = "read" /\ lines = <<>>
    /\ next' = 1
    /\ wpc' = "collect"
    /\ UNCHANGED <<readSide, writeSide, darts, lines, counter, published, edits,
                   dumped, readers>>

-----------------------------------------------------------------------------
(***************************************************************************)
(* The writer: Finalize.                                                   *)
(***************************************************************************)

\* The record the loop is at joins the repo of its prefix, with index n.
CollectAs(n) ==
    /\ wpc = "collect" /\ next <= Len(dict_info_write)
    /\ LET info == dict_info_write[next]
           p == PrefixOfRecord(info)
           r == [regex |-> GetKey(info.key), index |-> n]
       IN  \/ \E i \in 1 .. Len(prefix_info_write) :
                /\ prefix_info_write[i].prefix = p
                /\ prefix_info_write' =
                      [prefix_info_write EXCEPT ![i].repo = Append(@, r)]
           \/ /\ \A i \in 1 .. Len(prefix_info_write) : prefix_info_write[i].prefix # p
              /\ prefix_info_write' = Append(prefix_info_write, NewPrefixInfo(p, r))
    /\ next' = next + 1
    /\ UNCHANGED <<readSide, dict_info_write, darts_write, darts, wpc, lines,
                   counter, published, edits, dumped, readers>>

\* Mutants: the index is taken after the counter moved on; the loop never
\* moves on.
CollectShifted == CollectAs(next + 1)

CollectForever ==
    /\ wpc = "collect" /\ next <= Len(dict_info_write)
    /\ UNCHANGED vars

\* One turn of Finalize's first loop.
CollectRecord == CollectAs(next)

\* Mutant: the loop over the records stops one record early.
SortPrefixesEarly ==
    /\ wpc = "collect" /\ next >= Len(dict_info_write)
    /\ \E pi \in SortOrders(prefix_info_write) :
          prefix_info_write' =
             [i \in 1 .. Len(prefix_info_write) |-> prefix_info_write[pi[i]]]
    /\ wpc' = "build"
    /\ UNCHANGED <<readSide, dict_info_write, darts_write, darts, control, readers>>

\* The first statement of BuildTrie sorts; the keys are then taken in order.
SortPrefixes ==
    /\ wpc = "collect" /\ next > Len(dict_info_write)
    /\ \E pi \in SortOrders(prefix_info_write) :
          prefix_info_write' =
             [i \in 1 .. Len(prefix_info_write) |-> prefix_info_write[pi[i]]]
    /\ wpc' = "build"
    /\ UNCHANGED <<readSide, dict_info_write, darts_write, darts, control, readers>>

\* Mutant: a new trie is allocated when there is none, so that reloads work.
BuildTrieFresh ==
    /\ wpc = "build"
    /\ LET t == IF darts_write = NULL
                THEN CHOOSE t \in Tries : t # darts_read
                ELSE darts_write
       IN  /\ darts_write' = t
           /\ darts' = [darts EXCEPT ![t] = [live |-> TRUE, built |-> TRUE,
                                             index |-> TrieIndex(prefix_info_write)]]
    /\ wpc' = "dfa"
    /\ UNCHANGED <<readSide, dict_info_write, prefix_info_write, control, readers>>

BuildTrie ==
    /\ wpc = "build" /\ darts_write # NULL
    /\ darts' = [darts EXCEPT ![darts_write].built = TRUE,
                              ![darts_write].index = TrieIndex(prefix_info_write)]
    /\ wpc' = "dfa"
    /\ UNCHANGED <<readSide, writeSide, control, readers>>

\* Finalize returns 1: the load fails for good, a reload leaves the unit as is.
FinalizeFails == wpc' = IF published THEN "idle" ELSE "failed"

\* BuildTrie has no trie to build, or the build throws.
BuildTrieFails ==
    /\ wpc = "build"
    /\ FinalizeFails
    /\ UNCHANGED <<readSide, writeSide, darts, control, readers>>

\* BuildDfa for every prefix; the prefixes in bad fail to compile, unnoticed.
BuildDfa ==
    /\ wpc = "dfa"
    /\ \E bad \in SUBSET (1 .. Len(prefix_info_write)) :
          prefix_info_write' =
             [i \in 1 .. Len(prefix_info_write) |->
                LET info == prefix_info_write[i]
                    ok == {j \in 1 .. Len(info.repo) : info.repo[j].regex \in Accepted}
                IN  [info EXCEPT !.online = @ \union ok,
                                 !.offline = @ \union ((1 .. Len(info.repo)) \ ok),
                                 !.dfa = i \notin bad]]
    /\ wpc' = "enter"
    /\ UNCHANGED <<readSide, dict_info_write, darts_write, darts, control, readers>>

-----------------------------------------------------------------------------
(***************************************************************************)
(* The writer: Separation.                                                 *)
(***************************************************************************)
EntryWrite ==
    /\ wpc = "enter" /\ darts_write # NULL
    /\ counter' = counter + 1
    /\ wpc' = "swap_dict"
    /\ UNCHANGED <<readSide, writeSide, darts, lines, next, published, edits,
                   dumped, readers>>

SwapDictInfo ==
    /\ wpc = "swap_dict"
    /\ dict_info_read' = dict_info_write
    /\ dict_info_write' = dict_info_read
    /\ wpc' = "swap_prefix"
    /\ UNCHANGED <<prefix_info_read, darts_read, prefix_info_write, darts_write,
                   darts, control, readers>>

SwapPrefixInfo ==
    /\ wpc = "swap_prefix"
    /\ prefix_info_read' = prefix_info_write
    /\ prefix_info_write' = prefix_info_read
    /\ wpc' = "swap_darts"
    /\ UNCHANGED <<dict_info_read, darts_read, dict_info_write, darts_write,
                   darts, control, readers>>

SwapDarts ==
    /\ wpc = "swap_darts"
    /\ darts_read' = darts_write
    /\ darts_write' = darts_read
    /\ wpc' = "exit"
    /\ UNCHANGED <<dict_info_read, prefix_info_read, dict_info_write,
                   prefix_info_write, darts, control, readers>>

ExitWrite ==
    /\ wpc = "exit"
    /\ counter' = IF counter = 0 THEN 0 ELSE counter - 1
    /\ wpc' = "copy"
    /\ UNCHANGED <<readSide, writeSide, darts, lines, next, published, edits,
                   dumped, readers>>

\* The write side becomes a copy of the read side; no five minutes are waited.
CopyBack ==
    /\ wpc = "copy"
    /\ dict_info_write' = dict_info_read
    /\ prefix_info_write' = prefix_info_read
    /\ wpc' = "free"
    /\ UNCHANGED <<readSide, darts_write, darts, control, readers>>

\* Mutant: the old trie is kept for the next build.
FreeTrieKept ==
    /\ wpc = "free"
    /\ published' = TRUE
    /\ wpc' = "idle"
    /\ UNCHANGED <<readSide, writeSide, darts, lines, next, counter, edits,
                   dumped, readers>>

\* The old trie is deleted and its pointer cleared; Finalize returns 0, the
\* load succeeds and the level puts the unit into its pool.
FreeTrie ==
    /\ wpc = "free"
    /\ darts' = [darts EXCEPT ![darts_write].live = FALSE]
    /\ darts_write' = NULL
    /\ published' = TRUE
    /\ wpc' = "idle"
    /\ UNCHANGED <<readSide, dict_info_write, prefix_info_write, lines, next,
                   counter, edits, dumped, readers>>

-----------------------------------------------------------------------------
(***************************************************************************)
(* The writer: the calls that edit a published dictionary.  A call that    *)
(* is refused changes nothing and has no action.                           *)
(***************************************************************************)
Edit ==
    /\ wpc = "idle" /\ edits < MaxEdits
    /\ edits' = edits + 1
    /\ UNCHANGED <<readSide, darts_write, darts, wpc, lines, next, counter,
                   published, readers>>

\* Set drops the first record with the key, then appends the new one.
Set(text, value) ==
    LET key  == [text |-> text, build |-> FALSE]
        same == {i \in 1 .. Len(dict_info_write) : SameKey(dict_info_write[i], key)}
    IN  /\ Edit
        /\ Acceptable(key)
        /\ \/ /\ same = {}
              /\ AppendRecord(key, value)
           \/ \E i \in same :
                /\ \A j \in same : i <= j
                /\ dict_info_write' = Append(RemoveIndex(dict_info_write, i),
                                             [key |-> key, value |-> value])
        /\ UNCHANGED <<prefix_info_write, dumped>>

Add(text, value) ==
    LET key == [text |-> text, build |-> FALSE]
    IN  /\ Edit
        /\ Acceptable(key)
        /\ AppendRecord(key, value)
        /\ UNCHANGED <<prefix_info_write, dumped>>

\* Del drops the last record with the key; with none it returns 1.
Del(text) ==
    LET key  == [text |-> text, build |-> FALSE]
        same == {i \in 1 .. Len(dict_info_write) : SameKey(dict_info_write[i], key)}
    IN  /\ Edit
        /\ \E i \in same :
              /\ \A j \in same : j <= i
              /\ dict_info_write' = RemoveIndex(dict_info_write, i)
        /\ UNCHANGED <<prefix_info_write, dumped>>

Clear ==
    /\ Edit
    /\ dict_info_write' = <<>>
    /\ prefix_info_write' = <<>>
    /\ UNCHANGED dumped

\* Dump opens the file, which empties it, and takes that for a failure.
Dump ==
    /\ Edit
    /\ \E opened \in BOOLEAN :
          dumped' = [opened |-> opened, rc |-> IF opened THEN 1 ELSE 0, records |-> 0]
    /\ UNCHANGED <<dict_info_write, prefix_info_write>>

-----------------------------------------------------------------------------
(***************************************************************************)
(* The readers: Get, without a lock, step by step.                         *)
(***************************************************************************)
unchangedByGet == <<readSide, writeSide, darts, wpc, control>>

\* The caller finds the unit in the pool; the read pointer is loaded.
Get(r, q) ==
    /\ rpc[r] = "idle" /\ published
    /\ query' = [query EXCEPT ![r] = q]
    /\ trie' = [trie EXCEPT ![r] = darts_read]
    /\ rpc' = [rpc EXCEPT ![r] = "search"]
    /\ UNCHANGED <<hits, infos, regexes, found, unchangedByGet>>

\* Only a trie that was built and not yet freed can be searched; searching
\* another, like an index past the end of a vector, is undefined: a crash.
Searchable(t) == t # NULL /\ darts[t].live /\ darts[t].built

TrieHits(t, q) ==
    {darts[t].index[p] : p \in {p \in PrefixHits[q] : darts[t].index[p] # 0}}

\* Mutant: a search without a hit is tried again.
SearchTrieAgain(r) ==
    /\ rpc[r] = "search"
    /\ LET hit == TrieHits(trie[r], query[r])
       IN  /\ hits' = [hits EXCEPT ![r] = hit]
           /\ rpc' = [rpc EXCEPT ![r] = IF hit = {} THEN "search" ELSE "copy"]
    /\ UNCHANGED <<query, trie, infos, regexes, found, unchangedByGet>>

\* commonPrefixSearch in the trie the pointer led to; no hit ends the call.
SearchTrie(r) ==
    /\ rpc[r] = "search"
    /\ IF Searchable(trie[r])
       THEN LET hit == TrieHits(trie[r], query[r])
            IN  /\ hits' = [hits EXCEPT ![r] = hit]
                /\ rpc' = [rpc EXCEPT ![r] = IF hit = {} THEN "done" ELSE "copy"]
       ELSE /\ rpc' = [rpc EXCEPT ![r] = "crashed"]
            /\ UNCHANGED hits
    /\ UNCHANGED <<query, trie, infos, regexes, found, unchangedByGet>>

\* m_prefix_info_read[index] for every hit.
CopyPrefixInfo(r) ==
    /\ rpc[r] = "copy"
    /\ IF hits[r] \subseteq 1 .. Len(prefix_info_read)
       THEN /\ infos' = [infos EXCEPT ![r] = {prefix_info_read[i] : i \in hits[r]}]
            /\ rpc' = [rpc EXCEPT ![r] = "match"]
       ELSE /\ rpc' = [rpc EXCEPT ![r] = "crashed"]
            /\ UNCHANGED infos
    /\ UNCHANGED <<query, trie, hits, regexes, found, unchangedByGet>>

\* How many patterns of the prefix's DFA match: dfa->Match fills a vector.
DfaHits(info, q) ==
    Cardinality({j \in info.online : info.repo[j].regex \in DfaMatches[q]})

\* regex_info_online[0] .. regex_info_online[n-1]: the loop's own counter is
\* the index used, not the indexes the DFA returned.
FirstOnline(info, n) ==
    {j \in info.online : Cardinality({k \in info.online : k < j}) < n}

MatchedPositions(info, q) ==
    FirstOnline(info, DfaHits(info, q))
      \union {j \in info.offline : info.repo[j].regex \in FullMatches[q]}

\* Get calls Match on the DFA of every prefix it hit.  One that did not compile
\* has no program to run: a crash.
MatchRegexes(r) ==
    /\ rpc[r] = "match"
    /\ IF \A info \in infos[r] : info.dfa
       THEN /\ regexes' = [regexes EXCEPT ![r] =
                  UNION {{info.repo[j] : j \in MatchedPositions(info, query[r])} :
                            info \in infos[r]}]
            /\ rpc' = [rpc EXCEPT ![r] = "fetch"]
       ELSE /\ rpc' = [rpc EXCEPT ![r] = "crashed"]
            /\ UNCHANGED regexes
    /\ UNCHANGED <<query, trie, hits, infos, found, unchangedByGet>>

\* Mutant: the records are taken from the write side.
FetchWritten(r) ==
    /\ rpc[r] = "fetch"
    /\ found' = [found EXCEPT ![r] =
          {[regex |-> x, record |-> dict_info_write[x.index]] :
              x \in {x \in regexes[r] : x.index <= Len(dict_info_write)}}]
    /\ rpc' = [rpc EXCEPT ![r] = "done"]
    /\ UNCHANGED <<query, trie, hits, infos, regexes, unchangedByGet>>

\* m_dict_info_read[index] for every regex that matched, and its value.
FetchRecords(r) ==
    /\ rpc[r] = "fetch"
    /\ IF \A x \in regexes[r] : x.index \in 1 .. Len(dict_info_read)
       THEN /\ found' = [found EXCEPT ![r] =
                  {[regex |-> x, record |-> dict_info_read[x.index]] : x \in regexes[r]}]
            /\ rpc' = [rpc EXCEPT ![r] = "done"]
       ELSE /\ rpc' = [rpc EXCEPT ![r] = "crashed"]
            /\ UNCHANGED found
    /\ UNCHANGED <<query, trie, hits, infos, regexes, unchangedByGet>>

\* The call returns and its locals are gone.
Return(r) ==
    /\ rpc[r] = "done"
    /\ query' = [query EXCEPT ![r] = NULL]
    /\ trie' = [trie EXCEPT ![r] = NULL]
    /\ hits' = [hits EXCEPT ![r] = {}]
    /\ infos' = [infos EXCEPT ![r] = {}]
    /\ regexes' = [regexes EXCEPT ![r] = {}]
    /\ found' = [found EXCEPT ![r] = {}]
    /\ rpc' = [rpc EXCEPT ![r] = "idle"]
    /\ UNCHANGED unchangedByGet

-----------------------------------------------------------------------------
WriterStep ==
    \/ ReadLine \/ EndOfFile
    \/ CollectRecord \/ SortPrefixes \/ BuildTrie \/ BuildTrieFails \/ BuildDfa
    \/ EntryWrite \/ SwapDictInfo \/ SwapPrefixInfo \/ SwapDarts \/ ExitWrite
    \/ CopyBack \/ FreeTrie

WriterCall ==
    \/ LoadOpenFails \/ Clear \/ Dump
    \/ \E f \in Files : Load(f) \/ Reload(f)
    \/ \E t \in Texts : Del(t)
    \/ \E t \in Texts, v \in Values : Set(t, v) \/ Add(t, v)

ReaderStep(r) ==
    \/ SearchTrie(r) \/ CopyPrefixInfo(r) \/ MatchRegexes(r) \/ FetchRecords(r)
    \/ Return(r)

Next ==
    \/ WriterStep
    \/ WriterCall
    \/ \E r \in Readers : ReaderStep(r) \/ \E q \in Queries : Get(r, q)

\* The scheduler runs every thread that has a step of a call to take; nothing
\* makes a caller call.
Fairness ==
    /\ WF_vars(WriterStep)
    /\ \A r \in Readers : WF_vars(ReaderStep(r))

Spec == Init /\ [][Next]_vars /\ Fairness

-----------------------------------------------------------------------------
(***************************************************************************)
(* Properties.                                                             *)
(***************************************************************************)
WriterStates == {"new", "read", "collect", "build", "dfa", "enter", "swap_dict",
                 "swap_prefix", "swap_darts", "exit", "copy", "free", "idle", "failed"}
ReaderStates == {"idle", "search", "copy", "match", "fetch", "done", "crashed"}
Pointers     == Tries \union {NULL}
Found        == [regex : RegexInfo, record : DictInfo]

SidesOK ==
    /\ dict_info_read \in Seq(DictInfo) /\ dict_info_write \in Seq(DictInfo)
    /\ prefix_info_read \in Seq(PrefixInfo) /\ prefix_info_write \in Seq(PrefixInfo)
    /\ darts_read \in Pointers /\ darts_write \in Pointers
    /\ darts \in [Tries -> DartsDatrie]

WriterOK ==
    /\ wpc \in WriterStates
    /\ lines \in Seq(Lines)
    /\ next \in Nat \ {0}
    /\ counter \in Nat
    /\ published \in BOOLEAN
    /\ edits \in Nat
    /\ dumped \in {NULL} \union [opened : BOOLEAN, rc : {0, 1}, records : {0}]

ReadersOK ==
    /\ rpc \in [Readers -> ReaderStates]
    /\ query \in [Readers -> Queries \union {NULL}]
    /\ trie \in [Readers -> Pointers]
    /\ hits \in [Readers -> SUBSET Nat]
    /\ infos \in [Readers -> SUBSET PrefixInfo]
    /\ regexes \in [Readers -> SUBSET RegexInfo]
    /\ found \in [Readers -> SUBSET Found]

\* Every variable has its type.
TypeOK == SidesOK /\ WriterOK /\ ReadersOK

\* Get crashes at nothing but a DFA that Compile gave up (pattern_dict.cpp:199,
\* :352): whatever the writer does beside it, it never searches a trie that is
\* freed or was never built, and never indexes past the end of
\* m_prefix_info_read or m_dict_info_read, although it takes no lock and
\* Separation deletes the old trie without waiting.
CrashesOnlyAtDfa ==
    \A r \in Readers : rpc[r] = "crashed" => \E info \in infos[r] : ~ info.dfa

\* The read side hangs together once it is published: an index the trie gives
\* leads to the info of that prefix, and an index in its repo to the record
\* the regex came from (pattern_dict.h:94).
SnapshotConsistent ==
    published =>
        /\ \A p \in Prefixes : LET i == darts[darts_read].index[p] IN
              i # 0 => i <= Len(prefix_info_read) /\ prefix_info_read[i].prefix = p
        /\ \A i \in 1 .. Len(prefix_info_read) :
              \A j \in 1 .. Len(prefix_info_read[i].repo) :
                 LET x == prefix_info_read[i].repo[j] IN
                    /\ x.index <= Len(dict_info_read)
                    /\ x.regex = GetKey(dict_info_read[x.index].key)
                    /\ PrefixOf[x.regex] = prefix_info_read[i].prefix

\* No record is lost on the way into the trie: every loaded record whose
\* pattern has a literal prefix is in the repo its prefix leads to, once, and
\* is matched either by the prefix's DFA or on its own, not both.
SnapshotComplete ==
    published =>
        \A n \in 1 .. Len(dict_info_read) :
            LET p == PrefixOfRecord(dict_info_read[n])
                i == darts[darts_read].index[p]
            IN  p # EmptyPrefix =>
                  /\ i # 0
                  /\ LET info == prefix_info_read[i]
                         at == {j \in 1 .. Len(info.repo) : info.repo[j].index = n}
                     IN  /\ Cardinality(at) = 1
                         /\ at \subseteq (info.online \union info.offline)
                         /\ at \intersect info.online \intersect info.offline = {}

\* The records that match a query under the prefixes it begins with: as one
\* of a set of patterns, when RE2::Set takes the pattern, or by FullMatch.
Matching(q) ==
    {n \in 1 .. Len(dict_info_read) :
        LET x == GetKey(dict_info_read[n].key)
        IN  /\ PrefixOf[x] \in PrefixHits[q] \ {EmptyPrefix}
            /\ IF x \in Accepted THEN x \in DfaMatches[q] ELSE x \in FullMatches[q]}

\* A Get that returns gives as many values as there are records that match,
\* each of a record whose prefix the query begins with, whatever the writer
\* edits, clears and reloads while it runs (pattern_dict.cpp:179-256).
AnswerSize ==
    \A r \in Readers : rpc[r] = "done" =>
        /\ Cardinality(found[r]) = Cardinality(Matching(query[r]))
        /\ \A f \in found[r] : PrefixOfRecord(f.record) \in PrefixHits[query[r]]

\* pattern_dict.cpp:196 says Get collects the regexes that the DFA hit; so
\* the values it returns should be those of the records that match.
AnswerExact ==
    \A r \in Readers : rpc[r] = "done" =>
        {f.regex.index : f \in found[r]} = Matching(query[r])

\* Once a unit is published no step writes anything Get reads without a lock.
ReadSideFrozen == [][published => UNCHANGED <<readSide, darts>>]_vars

\* dict.h:19 says Finalize builds the dict from the records added: when the
\* Finalize of a reload is over, the records added are the ones Get reads.
ReloadBuilds ==
    [][wpc = "build" /\ wpc' = "idle" => dict_info_read' = dict_info_write']_vars

\* Every load and every reload returns.
LoadEnds == wpc = "read" ~> wpc \in {"idle", "failed"}

\* The DFAs of all prefixes a query hits have compiled.
Compiled(q) ==
    \A i \in 1 .. Len(prefix_info_read) :
       prefix_info_read[i].prefix \in PrefixHits[q] \ {EmptyPrefix} => prefix_info_read[i].dfa

\* Every Get returns, however many edits and reloads run beside it, if no DFA
\* it hits was given up.
GetReturns ==
    \A r \in Readers : rpc[r] = "search" /\ Compiled(query[r]) ~> rpc[r] = "idle"

-----------------------------------------------------------------------------
\* What Get computes if nothing changes under it, and no DFA is missing.
AnswerTo(q) ==
    UNION {{[regex |-> prefix_info_read[i].repo[j],
             record |-> dict_info_read[prefix_info_read[i].repo[j].index]] :
               j \in MatchedPositions(prefix_info_read[i], q)} :
           i \in TrieHits(darts_read, q)}

Matcher == INSTANCE PublishedMatcher WITH
    Answers  <- Found,
    None     <- NULL,
    open     <- published,
    book     <- [q \in Queries |-> IF published THEN AnswerTo(q) ELSE {}],
    asked    <- query,
    answered <- [r \in Readers |-> rpc[r] = "done"],
    answer   <- found

\* The dictionary implements PublishedMatcher: concurrent Gets are answered
\* from one unchanging snapshot.
ImplementsMatcher == Matcher!Spec
=============================================================================
