------------------------------- MODULE KvDict -------------------------------
(***************************************************************************)
(* CKvDict (src/kv_dict.cpp) inside its CMatchEngineUnit: a hash map from  *)
(* keys to positions in a vector of records.  Edits act on the dictionary  *)
(* that is read, so there is no Finalize to wait for; there is no lock     *)
(* either, and one caller at a time is assumed.  The hash map is the one   *)
(* HashDict implements; hashes of different keys are taken to differ.      *)
(*                                                                         *)
(* A key made from a line of the file gives its text as it is.  A key made *)
(* from a call's text gives, for a url, url, host and domain in one string *)
(* with tabs between: Get takes it apart, Set, Add and Del do not.         *)
(***************************************************************************)
EXTENDS Integers, Sequences

CONSTANTS
    Texts,          \* what a line or a call names a record by
    Keys,           \* what GetKey gives, and the tokens of that
    Values,         \* the IValue objects
    QueryKey,       \* GetKey of a key set by a call
    Tokens,         \* StringToTokens(key, false, '\t')
    Malformed,      \* a line from which no key or no value can be made
    Files,          \* the contents load_path may have: sequences of lines
    SizeRange,      \* the range of size_t
    None,           \* no position, no result
    Absent, Deleted,    \* for the abstract store: a key without a value
    MaxCalls        \* bound: calls that change something, after the first load

Lines == [text : Texts, value : Values]

ASSUME KeyAssumption ==
    /\ Texts \subseteq Keys
    /\ QueryKey \in [Texts -> Keys]
    /\ Tokens \in [Keys -> Seq(Keys)]

ASSUME ValueAssumption == Absent # Deleted /\ {Absent, Deleted} \intersect Values = {}

ASSUME LoadAssumption ==
    /\ Malformed \notin Lines
    /\ Files \subseteq Seq(Lines \union {Malformed})

Positions == Nat \union {None}
Results   == [rc : {0, 1, 2}, keys : Seq(Keys), values : Seq(Values) \union {None}]

ASSUME NoneAssumption == None \notin Nat \union Results

ASSUME BoundAssumption ==
    /\ SizeRange \in Nat \ {0}
    /\ MaxCalls \in Nat

VARIABLES
    m_hash_dict_engine, \* the position of every key, counted from 1; 0 is -1
    m_record_repo,      \* the records
    m_item_count,
    unit,               \* where the unit is
    lines,              \* the lines of load_path not read yet
    file,               \* what the last Dump wrote
    result,             \* of the last call: its code, its keys, what it found
    calls               \* calls made, bounded by MaxCalls

dict == <<m_hash_dict_engine, m_record_repo, m_item_count>>
vars == <<dict, unit, lines, file, result, calls>>

NegativeOne == 0

Records == [text : Texts, key : Keys, value : Values]

Init ==
    /\ m_hash_dict_engine = [k \in Keys |-> None]
    /\ m_record_repo = <<>>
    /\ m_item_count = 0
    /\ unit = "new"
    /\ lines = <<>> /\ file = <<>>
    /\ result = None
    /\ calls = 0

Exists(k) == m_hash_dict_engine[k] # None

\* Mutant: the position is taken before the record is pushed.
InsertBefore(t, k, v) ==
    /\ m_record_repo' = Append(m_record_repo, [text |-> t, key |-> k, value |-> v])
    /\ m_hash_dict_engine' = [m_hash_dict_engine EXCEPT ![k] = Len(m_record_repo)]
    /\ m_item_count' = (m_item_count + 1) % SizeRange

\* The record goes to the end and its position into the map.
Insert(t, k, v) ==
    /\ m_record_repo' = Append(m_record_repo, [text |-> t, key |-> k, value |-> v])
    /\ m_hash_dict_engine' = [m_hash_dict_engine EXCEPT ![k] = Len(m_record_repo) + 1]
    /\ m_item_count' = (m_item_count + 1) % SizeRange

\* Mutant: a key that exists is given a record anyway.
AddAlways(t, k, v) == Insert(t, k, v)

\* Add drops a record whose key exists, deleted or not.
Add(t, k, v) ==
    IF Exists(k) THEN UNCHANGED dict ELSE Insert(t, k, v)

-----------------------------------------------------------------------------
(***************************************************************************)
(* CMatchEngineUnit::Load and Reload.  Finalize does nothing.              *)
(***************************************************************************)
Load(f) ==
    /\ unit = "new"
    /\ unit' = "read" /\ lines' = f
    /\ UNCHANGED <<dict, file, result, calls>>

\* load_path cannot be opened: the first load fails for good, and a reload
\* leaves everything as it is.
LoadOpenFails ==
    /\ unit = "new"
    /\ unit' = "failed"
    /\ UNCHANGED <<dict, lines, file, result, calls>>

ReadLine ==
    /\ unit = "read" /\ lines # <<>>
    /\ LET line == Head(lines)
       IN  IF line = Malformed THEN UNCHANGED dict
           ELSE Add(line.text, line.text, line.value)
    /\ lines' = Tail(lines)
    /\ UNCHANGED <<unit, file, result, calls>>

EndOfFile ==
    /\ unit = "read" /\ lines = <<>>
    /\ unit' = "idle"
    /\ UNCHANGED <<dict, lines, file, result, calls>>

-----------------------------------------------------------------------------
(***************************************************************************)
(* The calls on a unit that is loaded.                                     *)
(***************************************************************************)
Call ==
    /\ unit = "idle" /\ calls < MaxCalls
    /\ calls' = calls + 1

Return(rc, keys) == result' = [rc |-> rc, keys |-> keys, values |-> None]

Reload(f) ==
    /\ Call
    /\ unit' = "read" /\ lines' = f
    /\ result' = None
    /\ UNCHANGED <<dict, file>>

AddCall(t, v) ==
    LET k == QueryKey[t]
    IN  /\ Call
        /\ Add(t, k, v)
        /\ Return(IF Exists(k) THEN 2 ELSE 0, <<k>>)
        /\ UNCHANGED <<unit, lines, file>>

\* Mutant: the value goes to the last record.
SetLast(t, v) ==
    LET k == QueryKey[t]
    IN  /\ Call
        /\ Exists(k) /\ m_hash_dict_engine[k] # NegativeOne
        /\ m_record_repo' = [m_record_repo EXCEPT ![Len(m_record_repo)].value = v]
        /\ Return(0, <<k>>)
        /\ UNCHANGED <<m_hash_dict_engine, m_item_count, unit, lines, file>>

\* Set of a key that exists writes to the record at its position.  Position
\* -1, that of a deleted key, is outside the vector: undefined, a crash.
Set(t, v) ==
    LET k == QueryKey[t]
        i == m_hash_dict_engine[k]
    IN  /\ Call
        /\ \/ /\ ~ Exists(k)
              /\ Insert(t, k, v)
              /\ Return(0, <<k>>)
              /\ UNCHANGED unit
           \/ /\ Exists(k) /\ i # NegativeOne
              /\ m_record_repo' = [m_record_repo EXCEPT ![i].value = v]
              /\ Return(0, <<k>>)
              /\ UNCHANGED <<m_hash_dict_engine, m_item_count, unit>>
           \/ /\ i = NegativeOne
              /\ unit' = "crashed"
              /\ result' = None
              /\ UNCHANGED dict
        /\ UNCHANGED <<lines, file>>

\* Mutant: the count goes below zero.
DelUnwrapped(t) ==
    LET k == QueryKey[t]
    IN  /\ Call
        /\ Exists(k)
        /\ m_hash_dict_engine' = [m_hash_dict_engine EXCEPT ![k] = NegativeOne]
        /\ m_item_count' = m_item_count - 1
        /\ Return(0, <<k>>)
        /\ UNCHANGED <<m_record_repo, unit, lines, file>>

\* Del of a key that exists, deleted or not: its position becomes -1 and the
\* count goes down; the record stays.
Del(t) ==
    LET k == QueryKey[t]
    IN  /\ Call
        /\ \/ /\ Exists(k)
              /\ m_hash_dict_engine' = [m_hash_dict_engine EXCEPT ![k] = NegativeOne]
              /\ m_item_count' = (m_item_count + SizeRange - 1) % SizeRange
              /\ Return(0, <<k>>)
              /\ UNCHANGED m_record_repo
           \/ /\ ~ Exists(k)
              /\ Return(2, <<k>>)
              /\ UNCHANGED dict
        /\ UNCHANGED <<unit, lines, file>>

\* The loop of Get: the tokens among the first n that lead to a record; -1,
\* compared as unsigned, is past the end of the vector.
Hits(t) ==
    LET tokens == Tokens[QueryKey[t]]
        hits[n \in 0 .. Len(tokens)] ==
           IF n = 0 THEN <<>>
           ELSE IF Exists(tokens[n]) /\ m_hash_dict_engine[tokens[n]] # NegativeOne
                THEN Append(hits[n - 1], tokens[n])
                ELSE hits[n - 1]
    IN  hits[Len(tokens)]

Answer(t) ==
    [i \in 1 .. Len(Hits(t)) |-> m_record_repo[m_hash_dict_engine[Hits(t)[i]]].value]

Get(t) ==
    /\ unit = "idle"
    /\ result' = [rc |-> 0, keys |-> Tokens[QueryKey[t]], values |-> Answer(t)]
    /\ UNCHANGED <<dict, unit, lines, file, calls>>

\* Dump writes text and value of every record, or fails to open the file.
Dump ==
    /\ Call
    /\ \/ /\ file' = [i \in 1 .. Len(m_record_repo) |->
                        [text |-> m_record_repo[i].text, value |-> m_record_repo[i].value]]
          /\ Return(0, <<>>)
       \/ /\ Return(1, <<>>)
          /\ UNCHANGED file
    /\ UNCHANGED <<dict, unit, lines>>

Next ==
    \/ LoadOpenFails \/ ReadLine \/ EndOfFile \/ Dump
    \/ \E f \in Files : Load(f) \/ Reload(f)
    \/ \E t \in Texts : Del(t) \/ Get(t)
    \/ \E t \in Texts, v \in Values : Set(t, v) \/ AddCall(t, v)

Spec == Init /\ [][Next]_vars

-----------------------------------------------------------------------------
\* Every variable has its type, and m_item_count stays in the range of size_t.
TypeOK ==
    /\ m_hash_dict_engine \in [Keys -> Positions]
    /\ m_record_repo \in Seq(Records)
    /\ m_item_count \in 0 .. SizeRange - 1
    /\ unit \in {"new", "read", "idle", "failed", "crashed"}
    /\ lines \in Seq(Lines \union {Malformed})
    /\ file \in Seq(Lines)
    /\ result \in Results \union {None}
    /\ calls \in 0 .. MaxCalls

\* Map and vector agree: the position of a key is that of a record made with
\* this key, and every record is at its key's position unless that key was
\* deleted.  So Set writes, and Get reads, the one record of the key.
RecordsIndexed ==
    /\ \A k \in Keys : m_hash_dict_engine[k] \notin {None, NegativeOne} =>
          /\ m_hash_dict_engine[k] \in DOMAIN m_record_repo
          /\ m_record_repo[m_hash_dict_engine[k]].key = k
    /\ \A i \in DOMAIN m_record_repo :
          m_hash_dict_engine[m_record_repo[i].key] \in {i, NegativeOne}

\* Loading the file again adds records and changes none: whatever was set,
\* added or deleted before stays so, whatever the file now says of its key.
ReloadKeeps ==
    [][unit = "read" =>
          \A k \in Keys : Exists(k) =>
              /\ m_hash_dict_engine'[k] = m_hash_dict_engine[k]
              /\ m_hash_dict_engine[k] # NegativeOne =>
                    m_record_repo'[m_hash_dict_engine[k]]
                        = m_record_repo[m_hash_dict_engine[k]]]_vars

Store == INSTANCE KvStore WITH
    Lookups <- {Tokens[QueryKey[t]] : t \in Texts},
    store   <- [k \in Keys |->
                  CASE m_hash_dict_engine[k] = None        -> Absent
                    [] m_hash_dict_engine[k] = NegativeOne -> Deleted
                    [] OTHER -> m_record_repo[m_hash_dict_engine[k]].value],
    answer  <- IF result = None \/ result.keys = <<>> THEN None
               ELSE [keys |-> result.keys, values |-> result.values]

\* CKvDict is a store of values by key, from one load to any number of edits
\* and reloads.
ImplementsStore == Store!Spec
=============================================================================
