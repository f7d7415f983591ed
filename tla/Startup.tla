------------------------------ MODULE Startup -------------------------------
(***************************************************************************)
(* How a process comes by its engines: CMatchEngineSingleton's SetConfig   *)
(* and Load (match_engine_singleton.cpp), which read the levels, and then  *)
(* the configuration file again for every engine, while an operator may    *)
(* edit the file.  Both may be called again.                               *)
(*                                                                         *)
(* The file holds lines as its author wrote them, with a meaning: entries. *)
(* It is read through a buffer of stdio.  An edit puts another file in its *)
(* place, which what is open does not see, or rewrites it where it is: the *)
(* rest of the read is then of the new text, from the byte the buffer has  *)
(* come to.  A rewrite in pieces is several, each with the text so far.    *)
(***************************************************************************)
EXTENDS Ini

CONSTANTS
    Versions,       \* what the file may hold at first: sequences of entries
    Rewrites,       \* what it may be rewritten to
    Dicts,          \* the values of dict_type that CDictFactory knows
    BUFSIZ,         \* what stdio reads at once, in the symbols of Ini
    MaxChanges      \* bound: edits of the file, and calls

\* An entry is a section's name or a setting, as its author meant it, and the
\* text of the line.
Entries == [kind : {"sect", "set", "none"}, name : Seq(STRING), val : Seq(STRING),
            line : Seq(STRING)]

\* What fgets gives that is no section and no setting.
Silent(read) ==
    ini_sect(ini_trim(read)) = NoString /\ ini_format(ini_trim(read)) = NoString

\* A line says what is meant by it: once, even if fgets takes it apart.
Clear(entry) ==
    LET reads == Reads(entry.line)
        Says(read) ==
           \/ entry.kind = "sect" /\ ini_sect(ini_trim(read)) = entry.name
           \/ /\ entry.kind = "set" /\ ini_sect(ini_trim(read)) = NoString
              /\ ini_format(ini_trim(read)) = [key |-> entry.name, val |-> entry.val]
    IN  IF entry.kind = "none"
        THEN \A i \in 1 .. Len(reads) : Silent(reads[i])
        ELSE \E i \in 1 .. Len(reads) :
                Says(reads[i]) /\ \A j \in 1 .. Len(reads) : j # i => Silent(reads[j])

ASSUME FileAssumption ==
    /\ Versions \union Rewrites \subseteq Seq(Entries)
    /\ \A version \in Versions \union Rewrites :
          \A i \in 1 .. Len(version) : Clear(version[i])

\* The section of the levels is named by a text like any other.
ASSUME WordAssumption == "Level" \in STRING

ASSUME BoundAssumption == MaxChanges \in Nat /\ BUFSIZ \in Nat \ {0}

VARIABLES
    file,           \* the entries of the configuration file
    changes,
    fd,             \* the file as the reader has it open
    m_config,       \* whether the path of the file is set
    m_level_pool,   \* the engines of each level
    m_engine_pool,  \* the settings of each loaded unit
    left,           \* the engines Load has not come to
    rc,             \* what SetConfig returned, -1 before
    alive,
    levels_of       \* history: the version that SetConfig last read, in a set

vars == <<file, changes, fd, m_config, m_level_pool, m_engine_pool, left, rc, alive,
          levels_of>>

\* The text of a file, with the empty line after the last end of line.
Lines(entries) == Append([i \in 1 .. Len(entries) |-> entries[i].line], <<>>)

\* What the reader gets line by line, how much of it the buffer had when the
\* file was last rewritten, whether the file still has its name, and (history)
\* the version it is of, in a set: none if it is of several.
Closed == [lines |-> <<>>, at |-> 0, linked |-> FALSE, of |-> {}]

Open == [lines |-> Lines(file), at |-> 0, linked |-> TRUE, of |-> {file}]

Init ==
    /\ file \in Versions /\ changes = 0
    /\ fd = Closed /\ m_config = FALSE
    /\ m_level_pool = <<>> /\ m_engine_pool = <<>>
    /\ left = <<>> /\ rc = -1 /\ alive = TRUE
    /\ levels_of = {}

\* The places of a text: in line i after its c-th symbol.
Places(lines) == UNION {{i} \X (0 .. Len(lines[i])) : i \in DOMAIN lines}

Offset(lines, place) ==
    place[2] + MapThenSumSet(LAMBDA i : Len(lines[i]) + 1, 1 .. place[1] - 1)

AtEnd(lines, place) == place = <<Len(lines), Len(lines[Len(lines)])>>

\* Up to where the buffer may have been filled.
Filled(place) ==
    \/ AtEnd(fd.lines, place)
    \/ /\ Offset(fd.lines, place) >= fd.at
       /\ (Offset(fd.lines, place) - fd.at) % BUFSIZ = 0

\* Where the reader goes on in the new text: at the same byte, or at its end.
GoesOn(place, lines, next) ==
    \/ Offset(lines, next) = Offset(fd.lines, place)
    \/ AtEnd(lines, next) /\ Offset(lines, next) < Offset(fd.lines, place)

Spliced(old, p, new, q) ==
    SubSeq(old, 1, p[1] - 1)
      \o <<SubSeq(old[p[1]], 1, p[2]) \o SubSeq(new[q[1]], q[2] + 1, Len(new[q[1]]))>>
      \o SubSeq(new, q[1] + 1, Len(new))

\* The file is rewritten where it is, under a reader.
Rewrite(version) ==
    /\ fd.linked
    /\ \E p \in Places(fd.lines) :
          /\ Filled(p)
          /\ \E q \in Places(Lines(version)) :
                LET lines == Spliced(fd.lines, p, Lines(version), q)
                IN  /\ GoesOn(p, Lines(version), q)
                    /\ fd' = [lines  |-> lines,
                              at     |-> Offset(fd.lines, p),
                              linked |-> TRUE,
                              of     |-> {v \in fd.of \union {version} : Lines(v) = lines}]

\* Somebody writes another file.
EditFile ==
    /\ changes < MaxChanges
    /\ changes' = changes + 1
    /\ \E version \in Rewrites \ {file} :
          /\ file' = version
          /\ fd' = [fd EXCEPT !.linked = FALSE] \/ Rewrite(version)
    /\ UNCHANGED <<m_config, m_level_pool, m_engine_pool, left, rc, alive, levels_of>>

\* The engines of a level, none for one without a setting: a warning tells of
\* it, with an argument too few for its format.
EnginesOf(head, level) ==
    LET engines == ini_read(head, <<"Level">>, level)
    IN  IF engines = NoString THEN <<>> ELSE Tokens(engines)

\* CMatchEngineLevel::Init enters the levels of the file into m_level_pool,
\* beside those that are there.
Enter(pool, levels) ==
    [level \in DOMAIN pool \union DOMAIN levels |->
       IF level \in DOMAIN levels THEN levels[level] ELSE pool[level]]

\* What Init of the levels returns.
ConfigRc(head) ==
    IF head = <<>> THEN 1
    ELSE IF ini_read(head, <<"Level">>, <<"levels">>) = NoString THEN 2 ELSE 0

\* CMatchEngineSingleton::SetConfig, of a path or an empty string, up to the
\* fopen of ini_init.
SetConfig(path) ==
    /\ alive /\ left = <<>> /\ fd = Closed /\ changes < MaxChanges
    /\ changes' = changes + 1
    /\ m_config' = path
    /\ IF path THEN fd' = Open /\ UNCHANGED rc ELSE rc' = 1 /\ UNCHANGED fd
    /\ UNCHANGED <<file, m_level_pool, m_engine_pool, left, alive, levels_of>>

\* The rest of it: the file is read to its end, and the levels are entered.
ReadLevels ==
    /\ alive /\ left = <<>> /\ fd # Closed
    /\ fd' = Closed
    /\ LET head  == ini_init(fd.lines)
           names == ToSet(Tokens(ini_read(head, <<"Level">>, <<"levels">>)))
       IN  /\ rc' = ConfigRc(head)
           /\ \/ rc' # 0 /\ UNCHANGED <<m_level_pool, alive, levels_of>>
              \/ /\ rc' = 0
                 /\ m_level_pool' = Enter(m_level_pool,
                                          [n \in names |-> EnginesOf(head, n)])
                 /\ alive' \in IF \E n \in names : ini_read(head, <<"Level">>, n) = NoString
                               THEN BOOLEAN ELSE {TRUE}
                 /\ levels_of' = fd.of
    /\ UNCHANGED <<file, changes, m_config, m_engine_pool, left>>

\* Load, level after level.
Load ==
    /\ alive /\ left = <<>> /\ fd = Closed /\ changes < MaxChanges
    /\ changes' = changes + 1
    /\ left' = FlattenSeq([i \in DOMAIN SetToSeq(DOMAIN m_level_pool) |->
                             m_level_pool[SetToSeq(DOMAIN m_level_pool)[i]]])
    /\ UNCHANGED <<file, fd, m_config, m_level_pool, m_engine_pool, rc, alive, levels_of>>

\* readConfig of a unit: the settings it must have, those it may have, and
\* what stands for them otherwise.
Required == {"dict_type", "key_type", "value_type", "load_path"}

Optional == {"init_param", "dump_path"}

readConfig(head, engine) ==
    LET Read(key) == ini_read(head, engine, <<key>>)
    IN  [settings  |-> [key \in Required \union Optional |->
                          IF Read(key) = NoString THEN <<>> ELSE Read(key)],
         blacklist |-> Read("blacklist") \in {NoString, <<"1">>}]

\* What readConfig and the dictionary's making let Init of the unit return.
\* Mutant: without a check of the settings after dict_type.
UnitRcLoose(head, engine) ==
    IF ini_read(head, engine, <<"dict_type">>) = NoString THEN 2
    ELSE IF readConfig(head, engine).settings["dict_type"] \notin Dicts THEN 3 ELSE 0

UnitRc(head, engine) ==
    IF \E key \in Required : ini_read(head, engine, <<key>>) = NoString THEN 2
    ELSE IF readConfig(head, engine).settings["dict_type"] \notin Dicts THEN 3 ELSE 0

\* The next engine: its unit opens the file, if it has a path of one.
OpenConfig ==
    /\ alive /\ left # <<>> /\ fd = Closed /\ m_config
    /\ fd' = Open
    /\ UNCHANGED <<file, changes, m_config, m_level_pool, m_engine_pool, left, rc, alive,
                   levels_of>>

\* A unit is made of what it reads, and takes the place of one with its name;
\* Init of its dictionary or the load may fail still.
LoadEngine ==
    /\ alive /\ left # <<>> /\ m_config = (fd # Closed)
    /\ left' = Tail(left) /\ fd' = Closed
    /\ LET head   == ini_init(fd.lines)
           engine == Head(left)
       IN  \/ UNCHANGED m_engine_pool
           \/ /\ m_config /\ UnitRc(head, engine) = 0
              /\ m_engine_pool' = [e \in DOMAIN m_engine_pool \union {engine} |->
                                     IF e = engine THEN readConfig(head, engine)
                                     ELSE m_engine_pool[e]]
    /\ UNCHANGED <<file, changes, m_config, m_level_pool, rc, alive, levels_of>>

Next ==
    \/ EditFile \/ ReadLevels \/ Load \/ OpenConfig \/ LoadEngine
    \/ \E path \in BOOLEAN : SetConfig(path)

Spec == Init /\ [][Next]_vars

-----------------------------------------------------------------------------
\* What an author means: a setting belongs to the last section before it, and
\* the last of several counts.
Meant(entries, sect, key) ==
    LET Sect(i) == LET before == {j \in 1 .. i - 1 : entries[j].kind = "sect"}
                   IN  IF before = {} THEN NoString ELSE entries[Max(before)].name
        them == {i \in DOMAIN entries :
                   entries[i].kind = "set" /\ entries[i].name = key /\ Sect(i) = sect}
    IN  IF them = {} THEN NoString ELSE entries[Max(them)].val

TypeOK ==
    /\ file \in Versions \union Rewrites /\ changes \in 0 .. MaxChanges
    /\ m_config \in BOOLEAN /\ alive \in BOOLEAN
    /\ \A level \in DOMAIN m_level_pool : <<>> \notin ToSet(m_level_pool[level])
    /\ <<>> \notin DOMAIN m_level_pool
    /\ rc \in {-1, 0, 1, 2}
    /\ levels_of \subseteq Versions \union Rewrites
    /\ fd.of \subseteq Versions \union Rewrites
    /\ fd.linked => fd.lines # <<>>

\* After a SetConfig that returned 0 every level the file names has the
\* engines its line names, in their order, whatever the levels had before,
\* whatever comments, blanks and order the lines have, and whatever file is
\* put in its place while it is read, if it was not rewritten under the reader
\* (match_engine_level.cpp:52-100, ini.cpp:112-223).
LevelsFromFile ==
    \A version \in levels_of :
      LET levels == Meant(version, <<"Level">>, <<"levels">>)
      IN  \A level \in ToSet(Tokens(levels)) :
             LET engines == Meant(version, <<"Level">>, level)
             IN  /\ level \in DOMAIN m_level_pool
                 /\ m_level_pool[level] = IF engines = NoString THEN <<>> ELSE Tokens(engines)

\* A unit that Load puts into the pool has all it needs, and is of the version
\* of the file that its engine opened, though every engine reads the file anew
\* and it may be replaced between them and during a read: no setting of another
\* version or engine, and the blacklist it says, by default TRUE.  What is read
\* of a file rewritten under the reader may be of no version
\* (match_engine_unit.cpp:368-530, ini.cpp:112-162).
UnitsFromFile ==
    [][\A engine \in DOMAIN m_engine_pool' :
         engine \notin DOMAIN m_engine_pool \/ m_engine_pool'[engine] # m_engine_pool[engine] =>
           \A version \in fd.of :
              LET unit == m_engine_pool'[engine]
                  Says(key) == Meant(version, engine, <<key>>)
              IN  /\ \A key \in Required : Says(key) # NoString
                  /\ \A key \in Required \union Optional :
                        unit.settings[key] = IF Says(key) = NoString THEN <<>> ELSE Says(key)
                  /\ unit.blacklist <=> Says("blacklist") \in {NoString, <<"1">>}]_vars
=============================================================================
