---------------------------- MODULE MatchEngine ----------------------------
(***************************************************************************)
(* CMatchEngineLevel (src/match_engine_level.cpp) over its units: one      *)
(* thread loads the engines of every level and reloads them, callers look  *)
(* a key up in the engines of a level or of a spec, one engine after the   *)
(* other, and edit engines meanwhile.                                      *)
(*                                                                         *)
(* A unit's dictionary is reduced to how many values it holds for a key.   *)
(* Looking one unit up is one step: PatternDict shows that a Get beside    *)
(* edits and reloads is answered from one snapshot (PublishedMatcher), and *)
(* that this snapshot never changes; KvDict is an atomic store for callers *)
(* that take turns (KvStore), which is assumed here; of redis every answer *)
(* is possible.                                                            *)
(***************************************************************************)
EXTENDS Integers, Sequences

CONSTANTS
    Engines,        \* the names callers and the configuration use
    Levels,         \* the names of levels callers use
    m_level_pool,   \* the engines of each level, none of an unknown one
    LoadOrder,      \* the engines of all levels, level after level
    Specs,          \* the lists of engines callers name themselves
    Frozen,         \* the engines with a CPatternDict
    Remote,         \* the engines with a CRedisDict; the others have a CKvDict
    BadKeyType,     \* those whose key_type CKeyFactory does not know
    blacklist,      \* m_blacklist of each engine
    Keys,
    EmptyKey,       \* the key of length zero, which SetKey refuses
    Callers,
    NULL,           \* no key
    MaxHits,        \* bound: the values a dictionary holds for one key
    MaxEdits        \* bound: edits, reloads and dumps

ASSUME NameAssumption ==
    /\ m_level_pool \in [Levels -> Seq(Engines)]
    /\ LoadOrder \in Seq(Engines)
    /\ Specs \subseteq Seq(Engines)
    /\ Frozen \subseteq Engines /\ Remote \subseteq Engines
    /\ Frozen \intersect Remote = {}
    /\ BadKeyType \subseteq Engines
    /\ blacklist \in [Engines -> BOOLEAN]

ASSUME KeyAssumption == EmptyKey \in Keys /\ NULL \notin Keys

ASSUME BoundAssumption == MaxHits \in Nat /\ MaxEdits \in Nat

VARIABLES
    m_engine_pool,  \* for each name no entry, a NULL one, or a unit
    holds,          \* how many values a kv or pattern engine holds for a key
    admin,          \* where the loading thread is
    left,           \* the engines it has not come to
    alive,          \* the process has not crashed
    edits,          \* edits, reloads and dumps begun, bounded by MaxEdits
    key,            \* the key each caller looks up, NULL between calls
    todo,           \* the engines it has not come to
    rc,             \* what GetLevel or GetSpec returns, so far
    value,          \* its vector of values: the engine of each
    rc_engine,      \* what the last engine returned
    erred           \* whether some engine of this call had an error

system == <<m_engine_pool, holds>>
thread == <<admin, left>>
call   == <<key, todo, rc, value, rc_engine, erred>>
vars   == <<system, thread, alive, edits, call>>

Holdings == [Keys \ {EmptyKey} -> 0 .. MaxHits]

Nothing == [k \in Keys \ {EmptyKey} |-> 0]

\* What an engine may hold: without a key type no line makes a record, and
\* what a redis server holds is not kept here.
Contents(e) == IF e \in BadKeyType \union Remote THEN {Nothing} ELSE Holdings

Init ==
    /\ m_engine_pool = [e \in Engines |-> "absent"]
    /\ holds = [e \in Engines |-> Nothing]
    /\ admin = "load" /\ left = LoadOrder
    /\ alive = TRUE /\ edits = 0
    /\ key = [c \in Callers |-> NULL]
    /\ todo = [c \in Callers |-> <<>>]
    /\ rc = [c \in Callers |-> 0]
    /\ value = [c \in Callers |-> <<>>]
    /\ rc_engine = [c \in Callers |-> 0]
    /\ erred = [c \in Callers |-> FALSE]

IsUnit(e) == m_engine_pool[e] = "unit"

\* m_engine_pool[engine] adds a NULL entry for a name that has none, and the
\* call through that pointer crashes.
CrashOn(e) ==
    /\ ~ IsUnit(e)
    /\ m_engine_pool' = [m_engine_pool EXCEPT ![e] = "null"]
    /\ alive' = FALSE
    /\ UNCHANGED holds

-----------------------------------------------------------------------------
(***************************************************************************)
(* The loading thread.                                                     *)
(***************************************************************************)

\* A unit is made, loaded with some contents, and put into the pool, maybe in
\* place of the one loaded for another level.
LoadEngine ==
    /\ alive /\ admin = "load" /\ left # <<>>
    /\ \E h \in Contents(Head(left)) : holds' = [holds EXCEPT ![Head(left)] = h]
    /\ m_engine_pool' = [m_engine_pool EXCEPT ![Head(left)] = "unit"]
    /\ left' = Tail(left)
    /\ UNCHANGED <<admin, alive, edits, call>>

\* Init or Load of the unit fails: the loop goes on without it.
LoadEngineFails ==
    /\ alive /\ admin = "load" /\ left # <<>>
    /\ left' = Tail(left)
    /\ UNCHANGED <<system, admin, alive, edits, call>>

\* Load, Reload and Dump return 0, whatever failed.
Loaded ==
    /\ alive /\ admin # "idle" /\ left = <<>>
    /\ admin' = "idle"
    /\ UNCHANGED <<system, left, alive, edits, call>>

\* Reload all, or one engine.
Reload(list) ==
    /\ alive /\ admin = "idle" /\ edits < MaxEdits
    /\ admin' = "reload" /\ left' = list
    /\ edits' = edits + 1
    /\ UNCHANGED <<system, alive, call>>

\* A reload adds to what an engine holds.  That of a CPatternDict changes
\* nothing that is read.
ReloadEngine ==
    /\ alive /\ admin = "reload" /\ left # <<>>
    /\ LET e == Head(left)
       IN  \/ CrashOn(e)
           \/ /\ IsUnit(e)
              /\ \E h \in Contents(e) :
                    /\ \A k \in DOMAIN h : h[k] >= holds[e][k]
                    /\ e \in Frozen => h = holds[e]
                    /\ holds' = [holds EXCEPT ![e] = h]
              /\ UNCHANGED <<m_engine_pool, alive>>
    /\ left' = Tail(left)
    /\ UNCHANGED <<admin, edits, call>>

\* Dump all, or one engine.  A dump changes nothing that a lookup reads, but
\* looks the engine up.
Dump(list) ==
    /\ alive /\ admin = "idle" /\ edits < MaxEdits
    /\ admin' = "dump" /\ left' = list
    /\ edits' = edits + 1
    /\ UNCHANGED <<system, alive, call>>

DumpEngine ==
    /\ alive /\ admin = "dump" /\ left # <<>>
    /\ \/ CrashOn(Head(left))
       \/ IsUnit(Head(left)) /\ UNCHANGED <<system, alive>>
    /\ left' = Tail(left)
    /\ UNCHANGED <<admin, edits, call>>

-----------------------------------------------------------------------------
(***************************************************************************)
(* The callers, once Load has returned.                                    *)
(***************************************************************************)

\* Set, Add or Del of one engine.  Without a key the unit has nothing to call
\* SetKey on; a CKvDict crashes when it sets a key that was deleted.
Edit(e) ==
    /\ alive /\ admin # "load" /\ edits < MaxEdits
    /\ edits' = edits + 1
    /\ \/ CrashOn(e)
       \/ /\ IsUnit(e) /\ e \notin BadKeyType
          /\ \E h \in Contents(e) :
                /\ e \in Frozen => h = holds[e]
                /\ holds' = [holds EXCEPT ![e] = h]
          /\ UNCHANGED <<m_engine_pool, alive>>
       \/ /\ IsUnit(e) /\ e \in BadKeyType \union (Engines \ (Frozen \union Remote))
          /\ alive' = FALSE
          /\ UNCHANGED system
    /\ UNCHANGED <<thread, call>>

\* GetLevel, GetSpec or GetEngine begins, with an empty vector.
Get(c, k, engines) ==
    /\ alive /\ admin # "load" /\ key[c] = NULL
    /\ key' = [key EXCEPT ![c] = k]
    /\ todo' = [todo EXCEPT ![c] = engines]
    /\ UNCHANGED <<system, thread, alive, edits, rc, value, rc_engine, erred>>

Colour(e) == IF blacklist[e] THEN 1 ELSE 2

\* Mutant: the number of values is returned.
UnitCodeCounts(e, k, values) ==
    IF e \in BadKeyType THEN -2
    ELSE IF k = EmptyKey THEN -3 ELSE Len(values)

\* What CMatchEngineUnit::Get returns: an error when it has no key to look
\* up, else by the vector it added its values to, whoever added the first.
UnitCode(e, k, values) ==
    IF e \in BadKeyType THEN -2
    ELSE IF k = EmptyKey THEN -3
    ELSE IF values = <<>> THEN 0 ELSE Colour(e)

\* How the lookup in the dictionary may go.  A redis dictionary answers with
\* one value or none, and adds nothing when it fails: the return code of the
\* dictionary is dropped.
Outcomes(e, k) ==
    IF e \in BadKeyType \/ k = EmptyKey THEN {[hits |-> 0, failed |-> TRUE]}
    ELSE IF e \in Remote
    THEN {[hits |-> 0, failed |-> TRUE], [hits |-> 0, failed |-> FALSE],
          [hits |-> 1, failed |-> FALSE]}
    ELSE {[hits |-> holds[e][k], failed |-> FALSE]}

\* Mutants: the last engine's code is returned; the first one's.
KeepLast(old, new) == new

KeepFirst(old, new) == IF old = 0 THEN new ELSE old

\* if(0 >= rc) rc = rc_engine;
Keep(old, new) == IF 0 >= old THEN new ELSE old

\* One turn of the loop of GetLevel or GetSpec: GetEngine, and its code.
GetEngine(c) ==
    /\ alive /\ key[c] # NULL /\ todo[c] # <<>>
    /\ LET e == Head(todo[c])
       IN  \/ /\ CrashOn(e)
              /\ UNCHANGED <<rc, value, rc_engine, erred>>
           \/ /\ IsUnit(e)
              /\ \E o \in Outcomes(e, key[c]) :
                    LET values == value[c] \o [i \in 1 .. o.hits |-> e]
                        code   == UnitCode(e, key[c], values)
                    IN  /\ value' = [value EXCEPT ![c] = values]
                        /\ rc_engine' = [rc_engine EXCEPT ![c] = code]
                        /\ rc' = [rc EXCEPT ![c] = Keep(@, code)]
                        /\ erred' = [erred EXCEPT ![c] = @ \/ o.failed]
              /\ UNCHANGED <<system, alive>>
    /\ todo' = [todo EXCEPT ![c] = Tail(@)]
    /\ UNCHANGED <<thread, edits, key>>

\* The call has gone through its engines and returns rc.
Done(c) == key[c] # NULL /\ todo[c] = <<>>

Return(c) ==
    /\ alive /\ Done(c)
    /\ key' = [key EXCEPT ![c] = NULL]
    /\ rc' = [rc EXCEPT ![c] = 0]
    /\ value' = [value EXCEPT ![c] = <<>>]
    /\ rc_engine' = [rc_engine EXCEPT ![c] = 0]
    /\ erred' = [erred EXCEPT ![c] = FALSE]
    /\ UNCHANGED <<system, thread, alive, edits, todo>>

Lists == Specs \union {m_level_pool[l] : l \in Levels}

\* CMatchEngineSingleton hands the calls of the program on to its level, and
\* returns what that returns.
Command ==
    \/ \E list \in {LoadOrder} \union {<<e>> : e \in Engines} : Reload(list) \/ Dump(list)
    \/ \E e \in Engines : Edit(e)

Lookup(c) == \E k \in Keys, list \in Lists : Get(c, k, list)

Next ==
    \/ LoadEngine \/ LoadEngineFails \/ Loaded \/ ReloadEngine \/ DumpEngine
    \/ Command
    \/ \E c \in Callers : Lookup(c) \/ GetEngine(c) \/ Return(c)

Spec == Init /\ [][Next]_vars

-----------------------------------------------------------------------------
Codes == -4 .. 2

\* Every variable has its type, and a unit returns an error, a miss or one of
\* the two hits, however many values there are.
TypeOK ==
    /\ m_engine_pool \in [Engines -> {"absent", "null", "unit"}]
    /\ holds \in [Engines -> Holdings]
    /\ \A e \in Engines : holds[e] \in Contents(e)
    /\ admin \in {"load", "idle", "reload", "dump"}
    /\ left \in Seq(Engines)
    /\ alive \in BOOLEAN
    /\ edits \in 0 .. MaxEdits
    /\ key \in [Callers -> Keys \union {NULL}]
    /\ todo \in [Callers -> Seq(Engines)]
    /\ rc \in [Callers -> Codes]
    /\ value \in [Callers -> Seq(Engines)]
    /\ rc_engine \in [Callers -> Codes]
    /\ erred \in [Callers -> BOOLEAN]

\* GetLevel and GetSpec return 1 or 2 exactly when they found something, and
\* then the colour of the engine that found something first, although each
\* unit takes the values of the engines before it for its own, and although
\* units have errors, engines change and other calls run meanwhile.
ReturnCode ==
    \A c \in Callers : Done(c) =>
        /\ rc[c] > 0 <=> value[c] # <<>>
        /\ rc[c] > 0 => rc[c] = Colour(value[c][1])

\* match_engine_level.cpp:251 says of GetLevel that an error is negative: a
\* call that found nothing and met an error returns one.
ErrorIsNegative ==
    \A c \in Callers : Done(c) /\ value[c] = <<>> /\ erred[c] => rc[c] < 0
=============================================================================
