# A TLA+ specification of dicts

`dicts` is a C++ library that looks strings (urls, mostly) up in dictionaries.
A configuration file names *engines*, each with a dictionary, a kind of key
and a kind of value, and groups engines into *levels*. A process loads all of
them once, then looks keys up from any number of threads, and may edit, reload
and dump engines meanwhile. Line numbers below are those of the repository.

1. [Inventory](#inventory)
2. [Plan](#plan)
3. [PatternDict](#patterndict)
4. [HashDict](#hashdict)
5. [KvDict](#kvdict)
6. [MatchEngine](#matchengine)
7. [Dawg and DoubleArray](#dawg-and-doublearray)
8. [Log](#log)
9. [RedisDict](#redisdict)
10. [Ini and Startup](#ini-and-startup)
11. [Runs](#runs)
12. [Where code and documentation disagree](#where-code-and-documentation-disagree)
13. [Proofs](#proofs)
14. [Assumptions](#assumptions)
15. [What is left out](#what-is-left-out)

## Inventory

What the Makefile compiles into the library and its test driver:

| component | state | operations | correct when |
|---|---|---|---|
| `CMatchEngineSingleton` (`match_engine_singleton.cpp`) | the one `CMatchEngineLevel` | hands every call on | there is one instance, made before the first call |
| `CMatchEngineLevel` (`match_engine_level.cpp`) | `m_level_pool`: engines of a level; `m_engine_pool`: units by name | `Init`, `Load`, `Reload`, `Set`, `Add`, `Del`, `Dump`, `GetEngine`, `GetLevel`, `GetSpec` | a unit is in the pool only after its load succeeded; the return code tells hit, miss and error apart over a list of engines |
| `CMatchEngineUnit` (`match_engine_unit.cpp`) | one dictionary, paths, types, `m_blacklist` | `Init`, `Load`, `Reload`, edits, `Dump`, `Get` | every well-formed line becomes one record; `Get` returns the colour of the list exactly on a hit |
| `CPatternDict` (`pattern_dict.cpp`) | a read side and a write side, each a vector of records, a vector of prefix infos (with an RE2 DFA) and a Darts trie; a `CounterMutex` | `Add`, `Set`, `Del`, `Clear`, `Finalize` (`BuildTrie`, `BuildDfa`, `Separation`), `Get`, `Dump` | lock-free readers see one consistent snapshot; indexes from trie to infos to records agree |
| `CKvDict` (`kv_dict.cpp`) | `m_hash_dict_engine`: position by key; `m_record_repo`; `m_item_count` | the same interface; `Finalize` does nothing | map and vector agree; it behaves as a store by key |
| `HashDict` (`include/hash_dict.h`) | open-addressing table, its size, free buckets | `AddItem`, `GetItem`, `ModifyItem`, `Clear`, resizing | it is a map, whatever collides and whenever it grows; probing ends |
| Darts (`include/darts.h`) | a word graph, then a double array of units | `build`, `commonPrefixSearch`, `exactMatchSearch`, `traverse` | searches find the keys given and nothing else; wrong keys are refused |
| `CRedisDict` (`redis_dict.cpp`) | a connection | commands to a redis server | what a caller is told was done is done; a value found was there |
| keys and values (`spider_filter_*`, `redis_common_*`) | the text they were made from | `Init`/`SetKey`, `GetKey`, `Compare` | the key a record is stored under is the one it is looked up by |
| factories (`dict_`, `key_`, `value_factory.cpp`) | none | an object for a type name | an unknown name gives `NULL`, which the caller must notice |
| configuration reader (`ini.cpp`) | a list of settings | `ini_init`, `ini_read` | the last definition of a name in a section wins |
| log (`log.cpp`) | file, period, lock | `log`, rotation | a line goes to the file of its period, nothing is lost at rotation |
| `MmapReader` (`mmap_reader.cpp`) | a mapped file, a position | `NextLine`, `Reset` | every line once, again after `Reset` |
| util (`util.cpp`) | none | string helpers, lock wrappers | |

Not compiled: `ac_valid_tool.cpp`, `ac_matcher.cpp`, the `busi_dict` headers of
an earlier design, `code_back_up/`. Third-party: RE2, the redis client, gtest,
and `include/darts.h`, which the authors changed (`///ADD NB`, line 510) and on
which every lookup of a pattern stands; `darts_pattern.h` is a variant of it
that nothing includes.

How they interact. A call goes singleton → level → unit → dictionary, on the
caller's thread; there are no worker threads, queues or callbacks. Two things
are shared beyond the process: the redis server, and the configuration file,
which the levels and every single engine read for themselves. A load goes
the same way: the level makes a unit, the unit reads `load_path` line by line,
makes a key and a value object of each line, calls `Add`, and calls `Finalize`
at the end of the file. State is shared between threads without any lock on the
way in: `m_engine_pool` is a plain `std::map`, and each dictionary has only what
it brings along.

What is hard:

* **Concurrency.** `CPatternDict::Get` takes no lock, while `Separation` swaps
  two vectors and a pointer one statement after the other, copies, and deletes
  the old trie at once (its wait for readers is a TODO). `CKvDict`, `HashDict`
  and the write side of `CPatternDict` have no protection at all.
* **Order.** A unit is published in `m_engine_pool` after its load; `BuildTrie`
  sorts the infos between their making and the taking of their positions.
* **Failure.** An engine that fails to load is skipped; a `Finalize` that fails
  leaves its half-built infos; a DFA that does not compile goes unnoticed; a
  reload can fail for ever after.
* **Two pieces of state that must agree.** Trie, infos and records; position
  map and record vector; the folded return code and the shared value vector.
* **Time.** A log line gets its time before it gets the lock, and the file of
  that time after it.
* **A remote store.** A request that was given up is still on its way.
* **Limits.** A ring of free units that blocks use again, an offset that is too
  large for its bits, a table that runs full, a list of sizes that ends, a count
  below zero.
* **Files.** Somebody rewrites the configuration while it is read; a line of the
  log reaches its file in pieces.

`PROJECT.json` lists each hazard at its line with the properties aimed at it.

## Plan

In the order of importance:

1. `PatternDict` over `PublishedMatcher` (done): the one component where
   threads really meet without a lock.
2. `PatternDictProofs` (done): its safety for any number of readers and edits.
3. `HashDict` over `HashMap` (done): probing and resizing.
4. `KvDict` over `KvStore` (done): the two-part state of the kv engine, on top
   of the map that `HashDict` implements.
5. `MatchEngine` (done): level and units over dictionaries reduced to what the
   two modules above show of them.
6. `KvDictProofs`, `MatchEngineProofs` (done): map and vector for any files and
   calls, the return code for any engines and callers.
7. `Dawg` and `DoubleArray` (done): the trie that `PatternDict` takes as an
   index of its keys.
8. `Log` and `LogProofs` (done): rotation under a lock with a time from before.
9. `RedisDict` and `RedisDictProofs` (done): the dictionary that is shared and
   can fail.
10. `Ini` and `Startup` (done): from the configuration file to levels and units.
11. `HashDictProofs` (done): the table is a map for any keys, sizes and calls.
12. More of `PatternDictProofs` (done): `PatternDict` implements
    `PublishedMatcher`; nothing is lost on the way from the file to the trie;
    answers have the right size.
13. `StartupProofs` (done): levels and units are what the file means.
14. `DoubleArrayProofs` (done): `build` refuses the lists of keys that it should,
    and besides these none but for their size; its list of free units is exact,
    and the array keeps its types.

| module | extends | role |
|---|---|---|
| `PublishedMatcher` | | what a reader of `CPatternDict` may count on |
| `PatternDict` | | `CPatternDict` in its unit, statement by statement |
| `PatternDictProofs` | `PatternDict` | theorems on the safety of readers and on what they are answered |
| `MCPatternDict` | `PatternDict` | small instances |
| `HashMap` | | what `HashDict` promises |
| `HashDict` | | one bucket a step |
| `HashDictProofs` | `HashDict` | theorems |
| `MCHashDict` | `HashDict` | small instance |
| `KvStore` | | what `CKvDict` promises |
| `KvDict` | | `CKvDict` in its unit, one call a step |
| `KvDictProofs` | `KvDict` | theorems |
| `MCKvDict` | `KvDict` | small instance |
| `MatchEngine` | | `CMatchEngineLevel` over its units |
| `MatchEngineProofs` | `MatchEngine` | theorems |
| `MCMatchEngine` | `MatchEngine` | small instance |
| `Dawg` | | the word graph of Darts, as operators on a builder |
| `DoubleArray` | `Dawg` | the double array built from it or from the keys |
| `DoubleArrayProofs` | `DoubleArray` | theorems on the keys it refuses, the free list and the types |
| `MCDoubleArray` | `DoubleArray` | small instance |
| `Log` | | `log_init` and `log` of many threads |
| `LogProofs` | `Log` | theorems |
| `MCLog` | `Log` | small instance |
| `RedisDict` | | `CRedisDict` in its unit, several processes and a server |
| `RedisDictProofs` | `RedisDict` | theorems |
| `MCRedisDict` | `RedisDict` | small instance |
| `Ini` | | the configuration reader, as operators |
| `Startup` | `Ini` | `SetConfig` and `Load` beside edits of the file |
| `StartupProofs` | `Startup` | theorems |
| `MCStartup` | `Startup` | small instance |

Each detailed module states the abstract one with `INSTANCE ... WITH` and a
refinement mapping at its end. `KvDict` takes `HashDict` as the function from
keys to positions that `HashMap` is; `MatchEngine` takes a `Get` of a unit as
one step because `PatternDict` implements `PublishedMatcher` (a `Get` is
answered as if at one instant, from a snapshot that never changes), and
`KvDict` is atomic for callers that take turns. A redis engine of `MatchEngine`
gives any of the outcomes that `RedisDict` shows a `Get` to have.

## PatternDict

One engine with a `CPatternDict`: a writer thread that loads, publishes, edits
and reloads it, and `Readers` that call `Get`.

*State.* `dict_info_*`, `prefix_info_*` and `darts_*` are `m_dict_info_*`,
`m_prefix_info_*` and the two trie pointers, `read` and `write`; `darts` holds
the two trie objects, each live or deleted, built or not, with the index it
gives each prefix. `counter` is `CounterMutex::counter`. `published` says that
`CMatchEngineLevel::Load` has put the unit into its pool
(`match_engine_level.cpp:118-127`). A reader's locals are `trie`, `hits`,
`infos`, `regexes`, `found`: the variables of `Get` from the pointer it loads
to the values it returns.

*Actions.* `Load`, `ReadLine`, `EndOfFile` are `CMatchEngineUnit::Reload`;
`CollectRecord`, `SortPrefixes`, `BuildTrie`, `BuildDfa` are `Finalize`;
`EntryWrite`, `SwapDictInfo`, `SwapPrefixInfo`, `SwapDarts`, `ExitWrite`,
`CopyBack`, `FreeTrie` are `Separation`, one action for each statement a
reader could fall between. `Set`, `Add`, `Del`, `Clear`, `Dump` are the calls
on a published dictionary. `Get`, `SearchTrie`, `CopyPrefixInfo`,
`MatchRegexes`, `FetchRecords`, `Return` are a lookup, one action for each
read of shared state. Searching a trie that is deleted or was never built,
indexing past a vector's end, and `Match` on an `RE2::Set` that did not compile
are undefined in C++ or end the process, and lead to `"crashed"`.

*Data.* Urls and regular expressions are names. What RE2, Darts and the key
class compute of them are constants: `GetKey` of a key from the file
(`BuildKey`) and from a call (`QueryKey`) differ because one turns the host
round at `\.` and the other at `.`; `PrefixOf` is `RePrefix`; `PrefixHits`,
`DfaMatches` and `FullMatches` say what a query begins with and matches. An
RE2 set may fail to compile for any prefix (lines 640-646). `Finalize` drops the
result of `BuildDfa` (352), so that such an info is published like any other, and
the first `Get` that begins with its prefix calls `Match` on a set without a
program (198-199). The models show this crash, and the properties say what they
say beside it.

*Properties.* `CrashesOnlyAtDfa`, `SnapshotConsistent` and `ReadSideFrozen` are
what makes a lock-free `Get` safe: nothing that the writer does can make a reader
crash, a DFA that did not compile can; `SnapshotComplete` says that no record gets
lost between file and trie, and `AnswerSize` that a `Get` that comes to its
records has as many values as there are records that match; `ImplementsMatcher`
that concurrent calls look atomic, a reader that crashed being one that has no
answer; `LoadEnds` that loads and reloads end, and `GetReturns` that every `Get`
does whose DFAs have compiled.

Why it is safe, which the code does not say: not because of `CounterMutex`,
whose counter no reader looks at, and not because of a grace period, but
because readers come only after `Load` has returned, and because `Separation`
leaves `m_darts_datrie_write` `NULL` (line 428), which `BuildTrie` refuses
(482-489). So there is no second `Separation`, ever. The price is that a reload
or an edit is never visible to a reader. Two repairs of the reload that suggest
themselves break this: with a new trie for it (the mutant `BuildTrieFresh`) a
`Get` that runs beside the reload searches the trie that is deleted, against
`CrashesOnlyAtDfa`; with the old one kept for it (`FreeTrieKept`) the read side
changes under readers, against `ReadSideFrozen`.

*Fairness.* Weak fairness of the writer's steps and of each reader's: a thread
that has begun a call is scheduled. Beginning a call is never fair.

## HashDict

The table of `include/hash_dict.h`, one caller, one probe a step.

*State.* `dict` is the array of buckets, `dict_size` and `free_buckets` their
counts; `call`, `bucket`, `pc` and `result` are the call under way; `new_dict`
and `moved` are the locals of `ResizeHashDict`.

*Actions.* `Begin` takes the home bucket; `Probe` goes to the next, from the
last round to the first; `GetItem`, `Overwrite`, `Fill` end the loops of
`GetItem`, `ModifyItem` and `AddItem`. `Fill` resizes when less than a quarter
of the table is free; `Resize`, `Move`, `Replace` are `ResizeHashDict`, one old
bucket a step; with no larger size in `PRIMES` its assertion aborts.

*Properties.* `ItemsReachable` (no empty bucket between home and item, in both
tables while a resize is under way), `KeysUnique`, `RoomToProbe` (why the
endless loops end), `ResizeLosesNothing`, `CallsReturn`, and `ImplementsMap`:
all of this is invisible to the caller, who sees a map.

*Fairness.* Weak fairness of `Step`: a call that has begun goes on.

## KvDict

One engine with a `CKvDict`, one caller at a time, one call a step.

*State.* `m_hash_dict_engine` gives every key a position in `m_record_repo`,
`None` for a key that was never there and `NegativeOne` (the code's -1) for one
that was deleted. `result` is what the last call returned, `file` what the last
dump wrote. `m_item_count` is a `size_t` and wraps at `SizeRange`.

*Actions.* `Load`, `ReadLine`, `EndOfFile`, `Reload` as in the unit; `AddCall`,
`Set`, `Del`, `Get`, `Dump` on the loaded unit. `GetKey` of a url that a call
gives is url, host and domain in one string (`spider_filter_kv_key.cpp:184`);
only `Get` takes it apart, and asks for one token after the other (`Hits`). `Set` of a deleted key writes to
`m_record_repo[-1]`: the model ends in `"crashed"`.

*Properties.* `RecordsIndexed` relates map and vector; `ReloadKeeps` says a
reload brings nothing back and overwrites nothing; `ImplementsStore` says that
edits change the value of their own key only, a deleted key stays deleted, and
a lookup answers with the live values of its tokens, in order.

There is no fairness: nothing here is claimed to happen eventually.

## MatchEngine

`CMatchEngineLevel` over engines of all kinds, one loading thread and `Callers`.

*State.* `m_engine_pool` gives each engine no entry, a `NULL` entry or a unit:
`m_engine_pool[engine]` of an unknown name adds the `NULL` that the next
statement dereferences. `holds` reduces a dictionary to the number of values it
has for each key. `key`, `todo`, `rc`, `value`, `rc_engine` are the locals of
`GetLevel` and `GetSpec`.

*Actions.* `LoadEngine`, `LoadEngineFails`, `Loaded` are `Load`, which goes on
past engines that fail and returns 0 all the same; `Command` is what
`CMatchEngineSingleton` hands on to one thread, `Reload`, `ReloadEngine`,
`Dump`, `DumpEngine` and `Edit`; `Lookup` what it hands on for callers: `Get`, `GetEngine` (one turn of the loop), `Return`. `UnitCode` is what
a unit returns: by the size of the *caller's* vector, to which the engines
before it have already added. A redis engine may answer, miss or fail at every
call.

*Properties.* `ReturnCode`: the code of the whole call is a hit exactly when
there is a value, and then it is the colour of the engine that found the first
one. This holds in spite of units that take the values of others for their own,
because the fold keeps the first positive code (line 263).

There is no fairness.

## Dawg and DoubleArray

`build` and the searches of `include/darts.h`. `PatternDict` takes a trie as a
set of prefixes with an index for each; these modules are why it may.

*State.* `keyset` is what `build` was given, `dawg` the `DawgBuilder` (its
nodes, units, hash table, stack and recycle bin), `builder` the
`DoubleArrayBuilder` (units, extras, the head of the free list, the table of
shared bases), `todo` the calls of the recursive `build_from_...` still to come,
`array` what a search reads. Packed bits are fields; a unit with a value has no
label (`NoLabel`), where the code sets bit 31.

*Actions.* `InsertKey` puts one key into the DAWG: `Follow` goes along the last
key, `Flush` sends finished states to the units, or joins them to equal ones
through the hash table, which `ExpandTable` may rebuild in the middle, and
`Extend` adds the new nodes. `FinishDawg`, then one `ArrangeFromDawg` for each
call of `build_from_dawg`: it takes over the base of a state that was arranged
before, or finds a free one (`FindValidOffset`). Which it does (`TakesOver`) the
code decides by two tests: that the table has a base for the state, before the
exclusive or, and that the offset after it (`SharedOffset`) fits into the bits of
a unit, where 0 fits like any other. An offset of `MaxOffset` or more has no bits
to be stored in (`Storable`), and `set_offset` throws. Keys without
values go another way, `StartFromKeyset` and `ArrangeFromKeyset`. `EndBuild`
fixes the blocks that are left and copies the units. An exception leaves the
array as it was; the phase is `"failed"` after one that complains of the keys,
and `"too_large"` after that of `set_offset` (lines 83-87, 1429-1431).

*Properties.* `PrefixSearchExact` and `WalksExact` say that the three searches
find the keys, with the values they were first given, and nothing else;
`ThrowsOnWrongKeys` that `build` complains of the lists its messages name and
of no others, that it throws `too large offset` only when its units come within a
block of the limit, and that no exception leaves an array behind; `DawgExact` that the graph holds the keys and no state twice;
`FreeListExact` that the ring of extras, whose slots each serve many blocks,
lists the free units of the last blocks. One thing was met on the way: an array
built of no keys keeps labels of base 1, the root's own, in its free units, so
`traverse` of one character answers -1 there, as for a prefix, where -2 would be
right. `WalksExact` speaks of arrays with keys; `PrefixSearchExact` holds
without.

There is no fairness: a build is a loop of one thread.

## Log

`log.cpp`: threads that write to the file of a day or an hour.

*State.* `g_logfile`, `g_logday`, `g_logappend`, `g_log_mutex` are the globals;
`g_logroll` is after how many periods a file name comes again (7 for
`LOG_WEEK_DAY`); `files` is what is on disk, `buffer` what the stream holds and
has not written; `p` is the time a thread took, `line` its line and `printed` how
many of the `PIECES` of the line it has printed. A piece is what no write
divides; how many a line has depends on its length and the buffer's size.
`newest`, `turned_back` and `cut` are history.

*Actions.* `TakeTime`, `Lock`, `Rotate`, `fprintf`, `Write`, `Unlock` are the
parts of `log()`. `fprintf` puts the next piece of the line into the buffer.
`Write` is stdio's: it writes the first piece the buffer holds, in `fflush` and at
any time before, as it does when a line is longer than the buffer. `Unlock` comes
after `fflush` has written all. `Tick` is the clock, `log_init` the start. `Crash`
ends the process at any point, also at the assertion behind a rotation's `fopen`;
the next process finds the files.

*Properties.* `LinesWhole`: lines are never mixed, and every line is whole but the
one that is being printed and, for each death of the process in the middle of a
line, that line (`cut`). A death can leave the beginning of a line in the file,
and the next process goes on behind it. `LineInItsFile`: every line is in the file of its time, because a late thread turns the log back.
`AppendKeepsLines`: with append nothing that was written is lost.
`LossNeedsLateThread` says when lines are lost without append: a file that was
written is opened with `"w"` again only after a late thread turned the log back,
or a whole roll later. Turning back is a loss the code does allow: a thread that is
suspended between lines 97 and 107 across midnight empties the file of the day
before, and the thread behind it that of the new day. `function_test.cpp` runs
with append off. `CallsReturn`: who waits for the lock gets through.

*Fairness.* Weak fairness of each thread inside `log()`. That is enough for a
mutex that is not fair because calls are bounded here; with calls without end it
would need the mutex to be fair, which `pthread` does not promise.

Lines 63, 134: `sprintf` of a buffer onto itself, undefined in C, does what it
should with the Makefile's flags; the model takes it so. Before `log_init` the
log goes to `stderr` and there is nothing to keep.

## RedisDict

Processes with one `CRedisDict` each and the server they share.

*State.* `store` is what the server holds; `requests` every request ever sent,
with its state (`sent`, `done`, `lost`), the server's reply and what the caller
was told; per process the call, the request it waits for, the lines still to
load, the code and values to return. `seen` is history: the values the key of
the call had since it began.

*Actions.* `InitDict`, `Set` (which is also `Add`), `Del`, `Get`, `Load` and
`LoadLine` are the code's up to the command; `Send`, `Serve`, `LoseRequest`,
`Receive`, `GiveUp` are the client library, the network and the server: a request
can be done long after its caller gave up. `Finish` is the way back through
dictionary and unit, `Return` to the caller.

*Properties.* `WritesToldDone`: who was told that a write succeeded can rely on
it, and only a write reported as failed can come late. `AnswerWasStored`: a value
found was there during the call, and the code says whether there is one.

What the code does besides, as modelled: `Del` returns 0 whether or not it was
done, and logs a failure when the client said ok (line 150); a `Get` that failed
is a miss (line 179); a load returns 0 even if no line could be added, and, unlike
that of a `CKvDict`, overwrites what was set since; `param_vec.size() < 0` (line
26) is never true, so that a configuration without a port, or with three fields
(line 40), reads behind the vector's end; the password is never sent; a value of
tabs only is read at `m_fields[0]`, which is not there.

There is no fairness: nothing obliges the server or the network.

## Ini and Startup

How a process comes by its levels and units, while somebody may write the file.

*State.* A line is a sequence of words, blanks and the characters the reader
looks for; an entry adds what the author meant by it (`kind`, `name`, `val`),
which only properties read. `FileAssumption` says what relates the two: exactly
one of the pieces that `fgets` makes of a line says what is meant by it and the
others say nothing (`Clear`), or none says anything for a comment or an empty
line. `m_level_pool` and `m_engine_pool` are those of the level, a unit being its
settings; `left` are the engines `Load` has not come to.
`fd` is the file as a reader has it open: the lines it gets (`lines`), up to which
byte the buffer had been filled when the file last changed under it (`at`), whether
the file still has its name (`linked`), and, as history, the version those lines
are (`of`), none when they are no version's.

*Actions.* `SetConfig` and `ReadLevels` open the file and read the levels; `Load`
begins, and `OpenConfig` and `LoadEngine` open and read the whole file again for
one engine. `EditFile` writes another file, at any time. It may put it in the
place of the old one, as editors and `mv` do: who has the old one open reads that
to its end. Or it rewrites the file where it is (`Rewrite`): `ini_init` reads
line by line, `fgets` takes lines from stdio's buffer, which holds `BUFSIZ` bytes
at a time, and so the reader goes on in the new text at the byte up to which its
buffer was filled, in the middle of a line perhaps. That gives it any piece of the
old text with any end of the new one, and a second rewrite under the same reader
a third text behind these. What `fgets` has returned depends on the lines only, so
the reading itself is one step at the end of the file, of the lines it got.
`ConfigRc` and `UnitRc` are the error returns. In `Ini` `ini_init` goes over the
lines and `ReadAll` over the pieces `fgets` makes of one (`Reads`); `ReadLine`
puts a piece through `ini_trim`, `ini_sect` and `ini_format`, and a setting in
front of the list in which `ini_read` takes the first match. `StringToTokens`
takes the lists of names apart. The loops are recursive functions of the turn.

*Properties.* `LevelsFromFile`: after `SetConfig` every level has the engines the
file says. `UnitsFromFile`: a unit's settings are complete, those of the version
its engine opened, the last of those given twice. Both speak of files that are
replaced, in any way, before, between and during the reads. Of a file that is
rewritten under the reader they say nothing, and nothing could be said: the model
has units there with settings of two versions, and of keys that no version has.
Nothing in the code notices. Who operates the process has to replace the file and
not to write into it. The engines of one `Load` may be of different versions in
either case.

`Ini` goes down to the symbols of a line, because what is claimed hangs on them:
a comment cuts a line anywhere, blanks are cut at ends but not in a list, a line
longer than `LINE_BUF_SIZE` is several, a rewrite cuts lines in the middle, and
the reader finds sections and settings by position of a character. A reader that
was given entries would be right by definition.

What the reader makes of unusual files: a `#` or `//` inside a value cuts it; any
line with a `[...]` in it is a section; names in a list keep their blanks, so that
`matchine1; matchine2` names an engine with a blank, which no section has, and
the lookup that uses the level crashes; levels of an earlier file stay. A path
that is a directory makes `ini_init` loop for ever (`feof` is never true), and a
level without a setting is logged with an argument too few
(`match_engine_level.cpp:87`), which may crash; `ReadLevels` has that choice.

There is no fairness.

## Runs

| run | what it asks | bounds |
|---|---|---|
| `PatternDict_load` | Is the read side complete and consistent after loading, whatever the file, and does a `Get` answer rightly beside an edit or a reload? | every file of at most 2 of 6 lines, and 3 of three lines: two patterns of one prefix or of two, one that `RE2::Set` refuses, one without a literal prefix, one that is no regex, one without a host; 2 readers; 1 edit or reload |
| `PatternDict_edit` | Do readers see one snapshot while the writer edits and reloads? Do all calls return? | 2 readers, 2 edits or reloads, 2 files |
| `HashDict_calls` | Is the table a map, and does every probe end? | 5 keys, most with one home, 2 values, sizes 2, 3, 5 and then none, 6 calls |
| `KvDict_edit` | Do map and vector agree, and is it a store? | files of at most 2 of 7 lines, a url with its host and domain, 2 values, 3 calls, `SizeRange` 8 |
| `DoubleArray_build` | Do the searches find the keys and nothing else, and are wrong keys refused? | keys of at most 3 of 2 characters: all lists of 2 in any order, all sets of 3 in order, all lists of 3 short ones; 2 values; blocks of 4 units with extras for 2 of them; a table of 2; large offsets from 8 on, too large ones from 32; lists of words that share prefixes, long enough for both; all queries of at most 4 characters |
| `Log_rotation` | Are lines whole, in their file, and kept? | 2 threads, 4 periods, 3 lines of 2 pieces, rolls of 2 and of 5 periods, append on and off, crashes |
| `RedisDict_shared` | Can a caller rely on what it is told? | 2 processes with and without blacklist, 1 key, 1 value, 3 requests |
| `Startup_edits` | Do levels and units have what the file says? | 33 files that differ from a base in one line, 5 of them to write again, by replacement or in place; 4 edits and calls; lines of 16, a buffer of 32 |
| `MatchEngine_levels` | Is the returned code that of the first hit? | 4 engines, one of each kind and one with a bad key type; 2 levels, an unknown one, 2 specs; 2 callers; 2 edits or reloads |
| `PatternDict_exact`, `PatternDict_reload`, `MatchEngine_error` | see the next section | just large enough |

Why the bounds are enough. In `PatternDict` two lines give every shape of a
prefix info (alone, two records of one prefix, two prefixes that sorting moves)
and the files of three lines mix them; two readers are all that can matter to each
other, since neither writes what the other reads; one edit or reload runs beside
any point of either `Get` in `PatternDict_load`, and `PatternDict_edit` has two, a
second edit being one after a failed reload; the
theorems below remove all these bounds for safety. In `HashDict` six calls
fill, overwrite and grow the table twice and reach the abort; probes go round
the end of tables of each size. In `KvDict` three calls are enough for the
longest chains that matter, such as delete, reload, look up. In `MatchEngine`
the two specs hold hits, misses and errors in both orders. In `DoubleArray`
blocks of four make three keys spread over more blocks than the ring has, so
that slots are used again, states are shared at small and at large distances and
the table is expanded several times; the real sizes are the same code with
larger numbers. In `Log` four periods are enough for a name to come again and
for a thread to sleep through a rotation, and two threads for one to turn the
log back under the other. In `RedisDict` a third request lets a late write meet
a later one and a `Get`; keys do not interact, and with one value a missing key
and a present one are told apart already. In `Startup` `SetConfig` and a load
of two engines leave two edits, which can fall before, between and into the reads;
the base file fills the reader's buffer several times, so that a rewrite finds it
filled up to the middle of lines of either engine.

`CHECK_DEADLOCK FALSE` stands where the system really stops: a unit whose load
failed is never called (`PatternDict`, `KvDict`), an abort or a crash ends the
process (`HashDict`, `KvDict`, `MatchEngine`, `RedisDict`, `Startup`), a build
is over (`DoubleArray`), and where `MaxCalls`, `MaxLines`, `MaxRequests` or
`MaxChanges` ends it.

Symmetry is used in `PatternDict_load` only, of the two readers, which no
definition tells apart; the run checks no liveness.

## Where code and documentation disagree

Each of these is a run that finds the property, taken from a line of the
repository, violated by what the code does:

| run | the line says | the code does |
|---|---|---|
| `PatternDict_exact` | `pattern_dict.cpp:196`: `Get` collects the regexes the DFA hit | line 211 indexes with the loop counter: the *first n* patterns of the prefix are returned when n match; line 210 says `// bug` |
| `PatternDict_reload` | `dict.h:19`: `Finalize` builds the dictionary from the records added | after the first one `BuildTrie` always refuses (line 428 clears the pointer) |
| `MatchEngine_error` | `match_engine_level.cpp:251`: an error is negative | a later miss replaces an error by 0 |

Met while modelling and present in the models, without a run of their own:
`Compare` sets raw text against converted text, so that a second `Set` of one
pattern with a host adds a second record (`spider_filter_pattern_key.cpp:135`);
`CKvDict::Set` of a url stores under a key that `Get` never asks for
(`kv_dict.cpp:38`), and after a `Del` it indexes with -1 (line 27), which is a
crash in the model; `CKvDict::Dump` writes the records of deleted keys (line
180), and a load of that file brings them back;
`CPatternDict::Dump` returns 1 when the file *is* open (`pattern_dict.cpp:260`);
`CKvDict::Del` succeeds again for a deleted key and lowers `m_item_count` a
second time (`kv_dict.cpp:104-111`); a unit that misses after one that hit
returns a hit of its own colour (`match_engine_unit.cpp:357`); a lookup in an
engine that is unknown or failed to load dereferences `NULL`
(`match_engine_level.cpp:246`); the debug line after a successful `Del` of the
singleton has a `%s` too many. `RedisDict`'s and `Startup`'s are above.

## Proofs

`PatternDictProofs` holds for every set of readers, texts, files and edits:

| theorem | statement |
|---|---|
| `InvariantHolds` | `Spec => []IInv` |
| `TypeCorrect` | `Spec => []TypeOK` |
| `ReadersCrashOnlyAtDfa` | `Spec => []CrashesOnlyAtDfa` |
| `SnapshotIsConsistent` | `Spec => []SnapshotConsistent` |
| `ReadSideStaysFrozen` | `Spec => ReadSideFrozen` |

`CrashesOnlyAtDfa` says nothing of how a reader gets its indexes, so it is not
inductive. The invariant is `IInv`, of five parts:

* `TypeOK`;
* `AcceptInv`: every record on either side passed `Add` or `Set`, so its key
  has a form `GetKey` accepts;
* `LoaderInv`: before publication, step by step, which side is linked to which
  (`Linked`: every regex in an info's repo is that of the record its index
  names) and which trie leads to which infos (`Leads`), and that no reader is
  active;
* `PublishedInv`: after it, the writer is never beyond `BuildTrie`, the write
  pointer is `NULL`, and the read side is linked;
* `ReaderInv`: what a reader has copied is still part of the read side.

The proof has one lemma for each group of writer steps and one for the readers,
and lemmas on what each helper does to `Linked`: appending a regex
(`CollectLinked`), sorting (`SortedLinked`), building the DFAs (`DfaLinked`).
`ReadSideFrozen` follows since under `PublishedInv` no action that writes the
read side is enabled.

The second half of the module goes on from there:

| theorem | statement |
|---|---|
| `AnswersAreTheReadSides` | `Spec => [](IInv /\ AnswerInv)` |
| `ImplementsPublishedMatcher` | `Spec => ImplementsMatcher` |
| `ReadSideIsComplete` | `Spec => [](IInv /\ CompleteInv)` |
| `NoRecordIsLost` | `Spec => []SnapshotComplete` |
| `AnswersHaveTheRightSize` | `Spec => []AnswerSize` |

`AnswerInv` says, for each place a reader can be at, that its locals are what the
published read side gives for its query (`InfosOf`, `RegexesOf`, `AnswerTo`). A
step of a reader keeps it since it computes the next local from the one before;
a step of the writer does since it leaves the read side alone. The book of
`PublishedMatcher` is the answers of that side, the reply of a reader is the step
that fetches the records, and every other step is a stutter (`RefineReader`,
`RefineWriter`).

`CompleteInv` follows `Finalize`: the first i records are filed in the infos,
each once, under its own prefix (`Filed`, kept by `JoinFiled` and `StartFiled`);
sorting permutes the infos and keeps that (`SortPermutes`, `SortedFiled`); the
trie leads from every prefix to its info (`Indexed`); the DFAs divide the
patterns of an info into the two match lists, each on exactly one (`Divided`);
`Separation` takes all of it to the read side. `SnapshotComplete` is the end of
this. For `AnswerSize` the proof counts: `Get` takes the first n patterns of an
info where n of them match, which is the wrong n patterns but the right number,
since different places of the repos hold different records (`OnePlace`), so that
what is found and what matches are both as many as the pairs of an info and a
place (`HitsAre`, `MatchingAre`, `SamePairs`).

`MatchEngineProofs` holds for every set of engines, levels, keys and callers:

| theorem | statement |
|---|---|
| `InvariantHolds` | `Spec => []IInv` |
| `TypeCorrect` | `Spec => []TypeOK` |
| `CodeIsOfFirstHit` | `Spec => []ReturnCode` |

`ReturnCode` speaks of calls that are done; the invariant says the same of a
call under way (`Folded`), which one turn of the loop keeps (`TurnOfLoop`): an
engine that hits first puts its value in front and its positive code into `rc`,
one that hits later changes neither, and while there is no value no code is
positive (`CodeOfUnit`).

`KvDictProofs` holds for every set of keys, files and calls:

| theorem | statement |
|---|---|
| `InvariantHolds` | `Spec => []IInv` |
| `MapAndVectorAgree` | `Spec => []RecordsIndexed` |
| `ReloadsKeep` | `Spec => ReloadKeeps` |
| `VariablesTyped` | `Spec => []TypeOK` |
| `ImplementsKvStore` | `Spec => ImplementsStore` |

`RecordsIndexed` is inductive once the types of map, vector and file are added
(`RecordsType`). Its second half does the work: a record without a position
would let an `Add` make a second one for its key (`InsertInv`); that is why
`Del` has to leave -1 behind and may not forget the key.

The refinement maps the two parts to one store: a key is absent, deleted, or has
the value of the record at its position (`StoreOf`). Every edit changes the store
at its own key only because no two keys have one position (`StoreAt`,
`StoreInsert`, `StoreWrite`, `StoreDelete`). A lookup is a loop over the tokens of
its key; that it returns the live values, all, once and in order is an induction
over its turns, done as a proof that there is no first turn after which it is
wrong (`LoopRuns` for the existence of the recursive function, `TurnSelects`,
`HitsSelect`).

`HashDictProofs` holds for every set of keys, every list of odd sizes, sorted or
not, every initial size and any number of calls:

| theorem | statement |
|---|---|
| `Invariance` | `Spec => []IInv` |
| `TypeCorrect` | `Spec => []TypeOK` |
| `AlwaysReachable` | `Spec => []ItemsReachable` |
| `AlwaysUnique` | `Spec => []KeysUnique` |
| `AlwaysRoom` | `Spec => []RoomToProbe` |
| `ResizeKeepsItems` | `Spec => []ResizeLosesNothing` |
| `ImplementsTheMap` | `Spec => ImplementsMap` |

The properties need each other. A key is not put in twice because the search
that came to an empty bucket has missed no item of it, which is reachable
(`AbsentAtEmpty`); for that the invariant keeps what the probe has passed
(`ProbeInv`). A probe does not come round again because a bucket is empty
(`NeverRound`), and one is empty because the count is exact (`CountInv`). It is
exact after a resize because the new table has as many items as the buckets
moved had (`MoveInv`), and these are of different keys. A quarter is free after
a resize by one bucket too, as long as the old size is no multiple of four
(`OddAssumption`; `PRIMES` are odd). In the refinement the map of a table is
`MapOf`, which `GetItem`, `Overwrite` and `Fill` read or change at one key and
`Replace` leaves as it is since both tables hold the same items.

`LogProofs` holds for every set of threads, clock, number of lines and of pieces
of a line, and kind of rotation:

| theorem | statement |
|---|---|
| `InvariantHolds` | `Spec => []IInv` |
| `TypeCorrect` | `Spec => []TypeOK` |
| `WholeLines` | `Spec => []LinesWhole` |
| `LinesInTheirFiles` | `Spec => []LineInItsFile` |
| `AppendKeeps` | `Spec => AppendKeepsLines` |
| `LossOnlyByLateThread` | `Spec => LossNeedsLateThread` |

`LinesWhole` and `LineInItsFile` speak of files, but a line is made in the
buffer and leaves it at any time. `IInv` adds who is where: a thread past the lock
holds the mutex (`Excluded`); the buffer is empty unless that thread is printing,
and then holds the end of what it has printed (`Buffered`), whose beginning is the
end of the open file (`Ended`); from `Rotate` on the open file is that of its time
(`Rotated`); in every file each piece follows the one before it in its line, and is
followed by the next unless it is the last, or the thread is about to write that, or
the process died (`Written`). For the losses, no line
is newer than `newest`, nor that than the clock (`Past`), and the open file is
that of `newest` unless the log was turned back (`Newest`): so a file that is
truncated on the way forward is one whose lines are a roll old.

`RedisDictProofs` holds for every set of processes, keys, values and files, and
any number of requests:

| theorem | statement |
|---|---|
| `InvariantHolds` | `Spec => []IInv` |
| `TypeCorrect` | `Spec => []TypeOK` |
| `ToldWritesAreDone` | `Spec => []WritesToldDone` |
| `AnswersWereStored` | `Spec => []AnswerWasStored` |

The invariant adds what a process waits for: its request is the one of its call,
nobody has been told of it yet and a reply that came was in `seen` (`Waiting`);
two processes never wait for one request (`Alone`); a process that is not in a
call has nothing to return (`Quiet`).

`StartupProofs` holds for every set of files whose lines are clear, every size of
`fgets`' and of stdio's buffers, and any edits, in place or not, and calls:

| theorem | statement |
|---|---|
| `LevelsHaveNames` | `Spec => []TypeOK` |
| `LevelsAreTheFiles` | `Spec => []LevelsFromFile` |
| `UnitsAreOfOneVersion` | `Spec => UnitsFromFile` |

Most of it is about the reader. Whatever `fgets` makes of a line, `ReadAll` does
what its entry means (`ReadOnce`, `EntryRead`). After m lines the section the
reader is in is the last one named, and its list gives every key what the first m
entries mean by it (`Faithful`, kept by `FaithfulTurn`): a setting in front of the
list hides those behind it (`ReadFront`) as a later entry counts before earlier
ones (`MeantTurn`). So `ini_init` and `ini_read` give what is meant
(`ReaderFaithful`), for files of any length. The invariant of the processes is
then short: `TypeOK` with levels and engines that have names (`LevelsTyped`, from
`TokensTyped`), `LevelsFromFile` itself, and that what is open is the text of the
version it is said to be of (`FdTyped`): a file that was replaced stays what it
was, and of one that was rewritten the text is some text (`SplicedTyped`) and the
version, if any, one whose text this is.

`DoubleArrayProofs` holds for every list of keys of any length, with and without
values, every block that is a power of two, every number of extra blocks, every
size of the hash table, every bound from which offsets are large, and every power
of two from which they are too large:

| theorem | statement |
|---|---|
| `WrongKeysThrow` | `Spec => []ThrowsOnWrongKeys` |
| `FreeUnitsListed` | `Spec => []FreeListExact` |
| `ArrayTyped` | `Spec => []TypeOK` |

*Wrong keys.* The code never compares two keys. Without values it compares characters of
neighbours, at the depth of each call of `build_from_keyset`; the invariant
(`KeysetCalls`) says that the keys of a call to come share the characters before
its depth, and that any two neighbours are in order or both in one call to come.
A call whose characters do not fall divides its keys among the calls for its
children (`KidShares`, `Neighbours`), so that with no call left all are in order;
one whose characters fall has found a pair that is not.

With values it compares the key with labels in the graph of the last one, and
this graph is rewritten all the time: `flush` takes nodes off the stack, gives
their ids to the recycle bin and redirects their parents to units. What has to be
shown is that the nodes on the stack still spell the last key (`Spelt`), down from
the root, and that `insert` meets just them. `Tidy` gives every node a level: the
node at depth p of the stack has p, one in the bin has 0, and a sibling has its
node's level and a smaller label. So no node on the stack is in the bin or is
another's sibling, ids from the bin can be used again, and a flush of everything
below a node changes no label and no child above it (`FlushTidy`, `FlushIs`). A
new key leaves the last one's path where the labels differ (`FollowIs`): a smaller
character there is a key out of order (`FirstDifference`), a greater one or the
end of the last key goes on with new nodes, which spell the new key (`ExtendIs`).
The hash table and the units do not matter to this and may be anything. The
invariant of this part is `ThrowInv`.

*Too large offsets.* The offset of a unit is the exclusive or of its own number and
of its children's base, and both are below the limit as long as the array is,
because the limit is a power of two (`XorWithin`, `LimitAssumption`). So an offset
that cannot be stored belongs to a base at the end of an array that has come to
within a block of it: every base below is `Within` the limit, and a search of the
list that fails goes behind the last unit (`NoneInReach`). `WrongKeysThrow` needs
for this what the sizes and the labels are, and follows from `BuildInv` below.

*The free list.* `FreeListExact` counts what a walk along the list finds, and a
step changes the links by exclusive or of offsets and labels, through slots that
each serve many blocks. The invariant says it without the walk: the free units
with extras (`Open`) form a circle (`Circle`), in which each one's next is the next
greater and the greatest one's the least, and the head is the least, or, when
there are none, the first unit of the block to come (`Ring`). From the circle
follows the walk (`CircleWalk`, `ListExact`). That the order never changes is what
makes it an invariant: a unit is taken out of the circle anywhere (`CircleLess`), a
block of greater numbers joins it between its greatest and its least
(`CircleMore`), even where the new block takes the slots of the block that is fixed
at that moment, which the code's three writes to a neighbour's links survive in
every case, a list of one and an empty list among them (`Tie`, `TieIs`).
What a node's children need are bases that are free: for `offset XOR label` to be a
free unit, or one of a block to come, the prover is taught exclusive or from its
recursion over the bits (`XorRows` and the lemmas after it: it is symmetric, undoes
itself and stays in a block), which is where a block has to be a power of two.
A walk that finds no base takes the end of the array (`Targets`, `Ready`), and
`reserve_unit` then expands it. So arranging a node whose labels are different and
smaller than a block keeps the `Ring` (`PlaceRun`, `Based`), as do fixing a block
and the fixing of what is left at the end (`BlockRun`).

*What the children are.* Without values they come from the keys, whose order
`KeysetCalls` knows. With values they come from the graph, and that their labels
are different, and no group runs past the units, is a fact about all that
`insert` did before. `Complete` says that whatever is flushed next is right
(`NodesFit`): nodes that left the stack have a unit or a value below them, and
siblings' labels fall (`Tidy`), so that those of units rise. A group is then either joined to an equal one that is
there (`GroupFits`), or written behind the units (`Linked`). For that
the search in the hash table has to end, so its load has to be known:
`num_states` bounds the slots that are filled, also while `expand_table` fills the
new table (`TableFits`, `FillRun`). `finish` makes of this a `Graph`, the calls of
`build_from_dawg` stay inside it (`DawgCalls`), and the table of offsets has an
entry for every shared state (`DawgArranged`). `BuildInv` is `ThrowInv`, the
`Ring` at all times, and `Complete` or `DawgArranged` as long as there is something
to insert or to arrange; `ArrayTyped` follows from the types in the `Ring`.

The assumptions are those the modules name: what the constants' types are, in
`PatternDict` that `PrefixRank` is an order in which different prefixes differ,
in `HashDict` that no size is a multiple of four, in `KvDict` that `None` is no
position and no result, in
`DoubleArray` that a block is a power of two, as 256 is, and so the limit of
offsets, as 2^29 is, in `Startup` `FileAssumption`, and that `"Level"` is a
string, which is a rule of TLA+ the prover does not have. TLC evaluates all of
them in the runs.

An induction over the turns of a loop is written out where it is needed, as a
proof that the set of turns that break the claim has no least element
(`LeastNumber`), because the library's induction theorems take an operator.

Only model-checked: of `DoubleArray`, its `PrefixSearchExact`, `WalksExact` and
`DawgExact`. All three are about the set of words in a graph or an array that is
built turn by turn and shared between keys: what the searches and
the words of a graph are is defined by recursion over these data, and the prover
has no induction for that. Also only model-checked is liveness (`LoadEnds`,
`GetReturns`, and `CallsReturn` of `HashDict` and of `Log`), which is beyond the
prover too. Every other property of a passing run is proved.

## Assumptions

* Calls begin when `CMatchEngineLevel::Load` has returned, as in
  `function_test.cpp:13-14`; `m_engine_pool` is not touched by a load then.
* Calls that change one engine come from one thread at a time; so do all calls
  of an engine with a `CKvDict`. Nothing in the library enforces it: an overlap
  is a data race on `std::vector` or on a table being replaced, and no outcome
  of it is modelled.
* The compiler is the Makefile's (gcc 4.7.2), whose strings share their
  buffers. `BuildTrie` keeps `c_str()` of a string local to the loop
  (`pattern_dict.cpp:448-472`), which is sound only because of that.
* A Darts trie built of no keys can be searched and finds nothing; one that was
  never built cannot.
* Different strings have different 64-bit hashes.
* Callers pass an empty vector of values, and name levels and engines that are
  there: `m_level_pool[level]` (`match_engine_level.cpp:260`) and
  `m_engine_pool[engine]` insert an entry for another name, without a lock, beside
  whoever reads these maps. What `MatchEngine` has of this is its outcome for one
  caller.
* A match of an `RE2::Set` that did compile does not run out of the memory for
  its DFA.
* The word graph of a trie has fewer than 2^30 units, whose numbers share a word
  with two flags (`darts.h`). That an array grows too large is modelled: `build`
  throws, and `BuildTrie` fails.
* Memory is not exhausted.

## What is left out

* `MmapReader`: only the valid tool uses it.
* `save` and `open` of a Darts array, which the program does not call; the
  memory of `AutoPool` and `AutoStack`; keys with an embedded NUL.
* `log_close`, never called, which destroys the mutex under threads that may
  still log, and the thread that would keep the time, never started.
* The `ini_read` that fills a map: it compares pointers, and nothing calls it.
* The redis client's own protocol and connections: calls of one process come one
  at a time.
* The merges of hash tables, the binary `Dump` of `HashDict` and the
  `Initial` that reads it: nothing in the program calls them.
* The conversion of keys character by character: constants of the modules, with
  the values of a few real urls and patterns in `MCPatternDict` and `MCKvDict`.
* Parsing of lines into fields: a line makes a record or does not. A last line
  without a newline is not a line of the file, which is what the loop at
  `match_engine_unit.cpp:139` makes of it.
* `ac_valid_tool`, `ac_matcher`, `busi_dict`: not compiled.
