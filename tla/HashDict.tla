----------------------------- MODULE HashDict ------------------------------
(***************************************************************************)
(* HashDict (include/hash_dict.h): open addressing with linear probing.    *)
(* The keys are the 64-bit hashes of the strings the callers give; the     *)
(* table grows when less than a quarter of it is free.  There is no lock:  *)
(* one caller at a time, one probe a step.                                 *)
(***************************************************************************)
EXTENDS Naturals, Sequences, FiniteSets

CONSTANTS
    Keys,       \* the hashes of the strings in use
    Values,     \* DataType
    PRIMES,     \* the sizes a table may have
    InitialSize,    \* the argument of Initial
    None,       \* no item, no call, no answer, no value
    MaxCalls    \* bound: how often the caller calls

ASSUME KeyAssumption == Keys \subseteq Nat

ASSUME SizeAssumption ==
    /\ PRIMES \in Seq(Nat \ {0})
    /\ InitialSize \in Nat \ {0}

\* PRIMES are odd.  A table of four times as many buckets as are free, and one
\* bucket more, would have less than a quarter free after it has grown by one.
ASSUME OddAssumption == \A i \in 1 .. Len(PRIMES) : PRIMES[i] % 4 # 0

ASSUME NoneAssumption ==
    /\ None \notin Values
    /\ None \notin [key : Keys, value : Values]
    /\ None \notin [op : {"AddItem", "GetItem", "ModifyItem"}, key : Keys,
                    value : Values \union {None}]
    /\ None \notin [hit : BOOLEAN, value : Values \union {None}]

ASSUME BoundAssumption == MaxCalls \in Nat

VARIABLES
    dict,           \* the buckets, counted from 0; None is an empty one
    dict_size,
    free_buckets,
    call,           \* the call under way
    bucket,         \* the bucket it looks at
    pc,             \* where it is
    new_dict,       \* the table ResizeHashDict fills
    moved,          \* the bucket of the old table it moves next
    result,         \* what the call returns
    calls           \* calls made, bounded by MaxCalls

table == <<dict, dict_size, free_buckets>>
resize == <<new_dict, moved>>
vars == <<table, call, bucket, pc, resize, result, calls>>

Items   == [key : Keys, value : Values]
Buckets == Items \union {None}
Calls   ==
    [op : {"AddItem", "ModifyItem"}, key : Keys, value : Values]
      \union [op : {"GetItem"}, key : Keys, value : {None}]
Answers == [hit : BOOLEAN, value : Values \union {None}]

\* The first size in the list above n, 0 when there is none.  The list is
\* not sorted: its first entry above n need not be the smallest.
SizeAbove(n) ==
    IF \E i \in 1 .. Len(PRIMES) : PRIMES[i] > n
    THEN PRIMES[CHOOSE i \in 1 .. Len(PRIMES) :
                   PRIMES[i] > n /\ \A j \in 1 .. i - 1 : PRIMES[j] <= n]
    ELSE 0

\* Initial keeps its argument when no listed size is above it.
SizeAtFirst == IF SizeAbove(InitialSize) = 0 THEN InitialSize ELSE SizeAbove(InitialSize)

EmptyTable(n) == [b \in 0 .. n - 1 |-> None]

Holds(d, k) == {b \in DOMAIN d : d[b] # None /\ d[b].key = k}

Init ==
    /\ dict_size = SizeAtFirst
    /\ dict = EmptyTable(dict_size)
    /\ free_buckets = dict_size
    /\ call = None /\ bucket = 0 /\ pc = "idle"
    /\ new_dict = None /\ moved = 0
    /\ result = None /\ calls = 0

-----------------------------------------------------------------------------
\* A call begins at the key's home bucket.  ModifyItem asserts that the key
\* is there: CKvDict::Del calls it only after GetItem found it.
Begin(c) ==
    /\ pc = "idle" /\ calls < MaxCalls
    /\ c.op = "ModifyItem" => Holds(dict, c.key) # {}
    /\ call' = c
    /\ bucket' = c.key % dict_size
    /\ pc' = "probe"
    /\ calls' = calls + 1
    /\ UNCHANGED <<table, resize, result>>

\* Mutants: the last bucket is not followed by the first; AddItem looks for
\* an empty bucket even past its key.
ProbePastEnd ==
    /\ pc = "probe"
    /\ dict[bucket] # None /\ bucket \notin Holds(dict, call.key)
    /\ bucket' = bucket + 1
    /\ UNCHANGED <<table, call, pc, resize, result, calls>>

ProbeToEmpty ==
    /\ pc = "probe"
    /\ dict[bucket] # None
    /\ call.op = "AddItem" \/ bucket \notin Holds(dict, call.key)
    /\ bucket' = (bucket + 1) % dict_size
    /\ UNCHANGED <<table, call, pc, resize, result, calls>>

\* A bucket with another key: the next one is looked at.
Probe ==
    /\ pc = "probe"
    /\ dict[bucket] # None /\ bucket \notin Holds(dict, call.key)
    /\ bucket' = (bucket + 1) % dict_size
    /\ UNCHANGED <<table, call, pc, resize, result, calls>>

\* GetItem ends at an empty bucket or at its key.
GetItem ==
    /\ pc = "probe" /\ call.op = "GetItem"
    /\ \/ /\ dict[bucket] = None
          /\ result' = [hit |-> FALSE, value |-> None]
       \/ /\ bucket \in Holds(dict, call.key)
          /\ result' = [hit |-> TRUE, value |-> dict[bucket].value]
    /\ pc' = "return"
    /\ UNCHANGED <<table, call, bucket, resize, calls>>

\* Both write the value at the key's bucket; there is nothing to resize.
Overwrite ==
    /\ pc = "probe" /\ call.op \in {"AddItem", "ModifyItem"}
    /\ bucket \in Holds(dict, call.key)
    /\ dict' = [dict EXCEPT ![bucket].value = call.value]
    /\ result' = [hit |-> call.op = "ModifyItem", value |-> None]
    /\ pc' = "return"
    /\ UNCHANGED <<dict_size, free_buckets, call, bucket, resize, calls>>

\* Mutants: a full table is not noticed; the free bucket is not counted.
FillNeverResize ==
    /\ pc = "probe" /\ call.op = "AddItem"
    /\ dict[bucket] = None
    /\ dict' = [dict EXCEPT ![bucket] = [key |-> call.key, value |-> call.value]]
    /\ free_buckets' = free_buckets - 1
    /\ result' = [hit |-> TRUE, value |-> None]
    /\ pc' = "return"
    /\ UNCHANGED <<dict_size, call, bucket, resize, calls>>

FillUncounted ==
    /\ pc = "probe" /\ call.op = "AddItem"
    /\ dict[bucket] = None
    /\ dict' = [dict EXCEPT ![bucket] = [key |-> call.key, value |-> call.value]]
    /\ result' = [hit |-> TRUE, value |-> None]
    /\ pc' = IF 4 * free_buckets < dict_size THEN "resize" ELSE "return"
    /\ UNCHANGED <<dict_size, free_buckets, call, bucket, resize, calls>>

\* AddItem takes an empty bucket, and the table is resized once less than a
\* quarter of it is free.
Fill ==
    /\ pc = "probe" /\ call.op = "AddItem"
    /\ dict[bucket] = None
    /\ dict' = [dict EXCEPT ![bucket] = [key |-> call.key, value |-> call.value]]
    /\ free_buckets' = free_buckets - 1
    /\ result' = [hit |-> TRUE, value |-> None]
    /\ pc' = IF 4 * (free_buckets - 1) < dict_size THEN "resize" ELSE "return"
    /\ UNCHANGED <<dict_size, call, bucket, resize, calls>>

\* ResizeHashDict asserts that there is a larger size, then allocates it.
Resize ==
    /\ pc = "resize"
    /\ IF SizeAbove(dict_size) = 0
       THEN /\ pc' = "aborted"
            /\ UNCHANGED <<free_buckets, new_dict, moved>>
       ELSE /\ free_buckets' = free_buckets + (SizeAbove(dict_size) - dict_size)
            /\ new_dict' = EmptyTable(SizeAbove(dict_size))
            /\ moved' = 0
            /\ pc' = "move"
    /\ UNCHANGED <<dict, dict_size, call, bucket, result, calls>>

\* Bucket b is the first empty one of d from home on, going round.
FirstEmpty(d, home, b) ==
    LET n == Cardinality(DOMAIN d)
    IN  \E i \in 0 .. n - 1 :
           /\ b = (home + i) % n /\ d[b] = None
           /\ \A j \in 0 .. i - 1 : d[(home + j) % n] # None

\* Mutants: an item goes to its old bucket; to its home, taken or not.
MoveInPlace ==
    /\ pc = "move" /\ moved < dict_size
    /\ new_dict' = [new_dict EXCEPT ![moved] = dict[moved]]
    /\ moved' = moved + 1
    /\ UNCHANGED <<table, call, bucket, pc, result, calls>>

MoveHome ==
    /\ pc = "move" /\ moved < dict_size
    /\ new_dict' = IF dict[moved] = None THEN new_dict
                   ELSE [new_dict EXCEPT ![dict[moved].key % Cardinality(DOMAIN new_dict)]
                                            = dict[moved]]
    /\ moved' = moved + 1
    /\ UNCHANGED <<table, call, bucket, pc, result, calls>>

\* One turn of the loop over the old buckets.
Move ==
    /\ pc = "move" /\ moved < dict_size
    /\ \/ /\ dict[moved] = None
          /\ UNCHANGED new_dict
       \/ /\ dict[moved] # None
          /\ \E b \in DOMAIN new_dict :
                /\ FirstEmpty(new_dict, dict[moved].key % Cardinality(DOMAIN new_dict), b)
                /\ new_dict' = [new_dict EXCEPT ![b] = dict[moved]]
    /\ moved' = moved + 1
    /\ UNCHANGED <<table, call, bucket, pc, result, calls>>

\* The old table is deleted and the new one takes its place.
Replace ==
    /\ pc = "move" /\ moved = dict_size
    /\ dict' = new_dict
    /\ dict_size' = Cardinality(DOMAIN new_dict)
    /\ new_dict' = None
    /\ moved' = 0
    /\ pc' = "return"
    /\ UNCHANGED <<free_buckets, call, bucket, result, calls>>

Return ==
    /\ pc = "return"
    /\ call' = None
    /\ result' = None
    /\ bucket' = 0
    /\ pc' = "idle"
    /\ UNCHANGED <<table, resize, calls>>

\* Clear marks every bucket empty and keeps the size.
Clear ==
    /\ pc = "idle" /\ calls < MaxCalls
    /\ dict' = EmptyTable(dict_size)
    /\ free_buckets' = dict_size
    /\ calls' = calls + 1
    /\ UNCHANGED <<dict_size, call, bucket, pc, resize, result>>

Step ==
    \/ Probe \/ GetItem \/ Overwrite \/ Fill \/ Resize \/ Move \/ Replace \/ Return

Next == Step \/ Clear \/ \E c \in Calls : Begin(c)

\* A call once begun goes on; nothing makes the caller call.
Spec == Init /\ [][Next]_vars /\ WF_vars(Step)

-----------------------------------------------------------------------------
\* Every variable has its type, and a probe never leaves the table.
TypeOK ==
    /\ dict_size \in Nat \ {0}
    /\ dict \in [0 .. dict_size - 1 -> Buckets]
    /\ free_buckets \in Nat
    /\ call \in Calls \union {None}
    /\ bucket \in 0 .. dict_size - 1
    /\ pc \in {"idle", "probe", "resize", "move", "return", "aborted"}
    /\ pc = "move" => DOMAIN new_dict = 0 .. SizeAbove(dict_size) - 1
    /\ moved \in 0 .. dict_size
    /\ result \in Answers \union {None}
    /\ calls \in 0 .. MaxCalls

\* An item is found from its key's home: no bucket on the way to it is empty,
\* in the table and in the one a resize is filling.
Reachable(d) ==
    LET n == Cardinality(DOMAIN d)
    IN  \A b \in DOMAIN d : d[b] # None =>
            \E i \in 0 .. n - 1 :
                /\ b = ((d[b].key % n) + i) % n
                /\ \A j \in 0 .. i - 1 : d[((d[b].key % n) + j) % n] # None

ItemsReachable == Reachable(dict) /\ (pc = "move" => Reachable(new_dict))

\* A key has one item, so that AddItem and ModifyItem change the one GetItem
\* finds.
KeysUnique == \A k \in Keys : Cardinality(Holds(dict, k)) <= 1

\* free_buckets counts the empty buckets, those a resize is about to add
\* included, and a quarter of the table is free whenever a call begins: the
\* loops of AddItem, GetItem and ModifyItem have an empty bucket to end at.
RoomToProbe ==
    LET free == Cardinality({b \in DOMAIN dict : dict[b] = None})
    IN  /\ free_buckets =
             IF pc = "move" THEN free + (SizeAbove(dict_size) - dict_size) ELSE free
        /\ pc \in {"idle", "probe"} => 4 * free >= dict_size

\* No item is lost while a resize moves them: those moved and those still to
\* move are those of the old table.
ResizeLosesNothing ==
    pc = "move" =>
        {new_dict[b] : b \in DOMAIN new_dict} \ {None}
            = {dict[b] : b \in 0 .. moved - 1} \ {None}

\* A call that has begun returns, unless there is no larger size left.
CallsReturn == pc = "probe" ~> pc \in {"idle", "aborted"}

Map == INSTANCE HashMap WITH
    map     <- [k \in Keys |-> IF Holds(dict, k) = {} THEN None
                               ELSE dict[CHOOSE b \in Holds(dict, k) : TRUE].value],
    pending <- call,
    answer  <- result

\* Through probing, overwriting and resizing HashDict is a map.
ImplementsMap == Map!Spec
=============================================================================
