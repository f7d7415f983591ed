---------------------------- MODULE DoubleArray -----------------------------
(***************************************************************************)
(* DoubleArrayImpl and DoubleArrayBuilder (include/darts.h): the trie of a *)
(* pattern dictionary.  A unit at base XOR c with label c is the child of  *)
(* every node with that base, and a base serves one set of children only.  *)
(* The builder finds a free base for a node, takes the children's units    *)
(* off a list of free ones, and goes on with each child; only the last     *)
(* NUM_EXTRA_BLOCKS blocks have a list, in a ring.                         *)
(***************************************************************************)
EXTENDS Dawg

CONSTANTS
    Keysets,            \* the lists of keys and values build may be given
    BLOCK_SIZE,         \* 256 in the code, the number of characters
    NUM_EXTRA_BLOCKS,   \* 16
    LargeOffset,        \* 2^21: from here on offsets lose their low bits
    MaxOffset,          \* 2^29: from here on set_offset throws
    Queries             \* the strings searched for

ASSUME KeysetAssumption ==
    \A k \in Keysets : k \in Seq([key : Seq(Labels), value : Int])
ASSUME SizeAssumption ==
    /\ BLOCK_SIZE \in Nat /\ LargeOffset \in Nat /\ NUM_EXTRA_BLOCKS \in Nat \ {0}
    /\ Labels \subseteq 1 .. BLOCK_SIZE - 1
\* A block is a power of two: its only odd divisor is 1.
ASSUME BlockAssumption ==
    /\ BLOCK_SIZE # 0
    /\ \A d, q \in 1 .. BLOCK_SIZE : BLOCK_SIZE = d * q => d = 1 \/ d % 2 = 0
\* So is the limit for offsets.
ASSUME LimitAssumption ==
    /\ MaxOffset \in Nat /\ MaxOffset > 1 /\ MaxOffset >= BLOCK_SIZE
    /\ \A d, q \in 1 .. MaxOffset : MaxOffset = d * q => d = 1 \/ d % 2 = 0

VARIABLES
    keyset,
    has_values, \* FALSE: build was given no values, a key's is its index
    phase,      \* "insert", "arrange", "built", "failed", "too_large"
    inserted,   \* how many keys the DAWG has
    dawg,
    builder,    \* units, extras, extras_head, table
    todo,       \* the calls of build_from_... still to come, the next one last
    array       \* array_, what searches read

vars == <<keyset, has_values, phase, inserted, dawg, builder, todo, array>>

NUM_EXTRAS == BLOCK_SIZE * NUM_EXTRA_BLOCKS

\* Bitwise exclusive or, bit by bit from the lowest.
xor[a \in Nat] ==
    [b \in Nat |-> IF a = 0 THEN b ELSE IF b = 0 THEN a
                   ELSE ((a + b) % 2) + 2 * xor[a \div 2][b \div 2]]

a ^^ b == xor[a][b]

\* The numbers of a set in order.
Sorted(S) ==
    [n \in 1 .. Cardinality(S) |->
       CHOOSE x \in S : Cardinality({y \in S : y < x}) = n - 1]

\* The value of a key.  Mutant: keys count from one.
ValueFromOne(i) == IF has_values THEN keyset[i].value ELSE i

Value(i) == IF has_values THEN keyset[i].value ELSE i - 1

\* DoubleArrayBuilderUnit.  A unit with a value has no label a character
\* could equal.
NoLabel == -1
FreeUnit == [label |-> 0, offset |-> 0, has_leaf |-> FALSE, value |-> -1]
ValueUnit(value) == [FreeUnit EXCEPT !.label = NoLabel, !.value = value]

\* What the masks let pass: offsets without low bits, or without those between
\* LargeOffset and MaxOffset.
Storable(offset) == offset % BLOCK_SIZE = 0 \/ offset % MaxOffset < LargeOffset

\* set_offset throws at an offset that has no room in a unit, and shifts a
\* large one so that its low bits are lost.
TooLarge(offset) == offset >= MaxOffset

StoredOffset(offset) ==
    IF offset < LargeOffset THEN offset ELSE offset - (offset % BLOCK_SIZE)

FreeExtra == [prev |-> 0, next |-> 0, is_fixed |-> FALSE, is_used |-> FALSE]

Slot(id)      == id % NUM_EXTRAS
Extra(b, id)  == b.extras[Slot(id)]
Size(b)       == Len(b.units)
NumBlocks(b)  == Size(b) \div BLOCK_SIZE

Init ==
    /\ keyset \in Keysets /\ has_values \in BOOLEAN
    /\ phase = "insert" /\ inserted = 0
    /\ dawg = DawgInit
    /\ builder = [units |-> <<>>, extras_head |-> 0, table |-> <<>>,
                  extras |-> [i \in 0 .. NUM_EXTRAS - 1 |-> FreeExtra]]
    /\ todo = <<>> /\ array = <<>>

-----------------------------------------------------------------------------
\* Units and the list of free ones.  Taking one unlinks it; the head moves
\* on, or past the end when there is no other.
Unlink(extras, id) ==
    LET next   == extras[Slot(id)].next
        prev   == extras[Slot(id)].prev
        linked == [extras EXCEPT ![Slot(prev)].next = next]
    IN  [linked EXCEPT ![Slot(linked[Slot(id)].next)].prev = prev,
                       ![Slot(id)].is_fixed = TRUE]

Take(b, id) ==
    LET next == Extra(b, id).next
    IN  [b EXCEPT !.extras = Unlink(@, id),
                  !.extras_head = IF id # @ THEN @ ELSE IF next = id THEN Size(b) ELSE next]

\* fix_block takes what is left of a block and gives it the labels of
\* children of a base that no node has.  Mutant: of base 0.
FixUnits(b, block, base) ==
    LET begin == block * BLOCK_SIZE
        after[n \in 0 .. BLOCK_SIZE] ==
          IF n = 0 THEN b
          ELSE LET c  == after[n - 1]
                   id == begin + n - 1
               IN  IF Extra(c, id).is_fixed THEN c
                   ELSE [Take(c, id) EXCEPT
                           !.units[id + 1].label = (id ^^ base) % BLOCK_SIZE]
    IN  after[BLOCK_SIZE]

FixBlockToZero(b, block) == FixUnits(b, block, 0)

FixBlock(b, block) ==
    LET unused == {id \in block * BLOCK_SIZE .. (block + 1) * BLOCK_SIZE - 1 :
                     ~ Extra(b, id).is_used}
    IN  FixUnits(b, block, IF unused = {} THEN 0
                           ELSE CHOOSE id \in unused : \A i \in unused : id <= i)

\* expand_units adds a block, whose extras may be those of a block that is
\* fixed now, and puts it at the end of the list.  Mutant: the old marks stay.
LinkBlock(extras, src, head, fresh) ==
    LET last == src + BLOCK_SIZE - 1
        ring == [s \in DOMAIN extras |->
                   LET id == src + s - Slot(src)
                   IN  IF id \in src .. last
                       THEN [extras[s] EXCEPT
                               !.prev = IF id = src THEN last ELSE id - 1,
                               !.next = IF id = last THEN src ELSE id + 1,
                               !.is_fixed = @ /\ ~ fresh,
                               !.is_used = @ /\ ~ fresh]
                       ELSE extras[s]]
        open == [ring EXCEPT ![Slot(src)].prev = ring[Slot(head)].prev,
                             ![Slot(last)].next = head]
        tied == [open EXCEPT ![Slot(open[Slot(head)].prev)].next = src]
    IN  [tied EXCEPT ![Slot(head)].prev = last]

Grow(b, unmark) ==
    LET full == NumBlocks(b) + 1 > NUM_EXTRA_BLOCKS
        f    == IF full THEN FixBlock(b, NumBlocks(b) - NUM_EXTRA_BLOCKS) ELSE b
    IN  [f EXCEPT !.units = @ \o [i \in 1 .. BLOCK_SIZE |-> FreeUnit],
                  !.extras = LinkBlock(@, Size(b), f.extras_head, full /\ unmark)]

ExpandKeepingMarks(b) == Grow(b, FALSE)

ExpandUnits(b) == Grow(b, TRUE)

\* reserve_id.
Reserve(b, id) == Take(IF id >= Size(b) THEN ExpandUnits(b) ELSE b, id)

\* A base for a node's children: not that of another node, at a distance from
\* the node that the masks let pass, with free units.
\* Mutant: a base may serve two nodes.
IsFreeOffset(b, id, labels, offset) ==
    /\ Storable(id ^^ offset)
    /\ \A i \in 2 .. Len(labels) : ~ Extra(b, offset ^^ labels[i]).is_fixed

IsValidOffset(b, id, labels, offset) ==
    /\ ~ Extra(b, offset).is_used
    /\ Storable(id ^^ offset)
    /\ \A i \in 2 .. Len(labels) : ~ Extra(b, offset ^^ labels[i]).is_fixed

\* The free units in the order of the list.
FreeList(b) ==
    IF b.extras_head >= Size(b) THEN <<>>
    ELSE Walk([id \in 0 .. Size(b) - 1 |-> Extra(b, id).next], b.extras_head, b.extras_head)

FindValidOffset(b, id, labels) ==
    LET free  == FreeList(b)
        valid == {i \in DOMAIN free : IsValidOffset(b, id, labels, free[i] ^^ labels[1])}
    IN  IF valid = {} THEN Size(b) + (id % BLOCK_SIZE)
        ELSE free[CHOOSE i \in valid : \A j \in valid : i <= j] ^^ labels[1]

\* The common part of arrange_from_dawg and arrange_from_keyset: the node id
\* gets a base, its children their units.
Arrange(b, id, kids) ==
    LET labels == [i \in DOMAIN kids |-> kids[i].label]
        offset == FindValidOffset(b, id, labels)
        based  == [b EXCEPT !.units[id + 1].offset = StoredOffset(id ^^ offset),
                            !.units[id + 1].has_leaf = labels[1] = 0]
        Placed(c, kid) ==
            [Reserve(c, offset ^^ kid.label) EXCEPT
               !.units[(offset ^^ kid.label) + 1] =
                 IF kid.label = 0 THEN ValueUnit(kid.value)
                 ELSE [@ EXCEPT !.label = kid.label]]
        after[n \in 0 .. Len(kids)] ==
            IF n = 0 THEN based ELSE Placed(after[n - 1], kids[n])
    IN  [offset |-> offset,
         builder |-> [after[Len(kids)] EXCEPT !.extras[Slot(offset)].is_used = TRUE]]

\* The calls for the children that do not end a key: the first is the next.
Calls(kids) ==
    LET inner == Reverse(Sorted({i \in DOMAIN kids : kids[i].label # 0}))
    IN  [n \in DOMAIN inner |-> kids[inner[n]]]

\* What both builds begin and end with.
RootReserved(b) ==
    LET r == Reserve(b, 0)
    IN  [r EXCEPT !.extras[0].is_used = TRUE, !.units[1].offset = 1]

FixAllBlocks(b) ==
    LET first == IF NumBlocks(b) > NUM_EXTRA_BLOCKS
                 THEN NumBlocks(b) - NUM_EXTRA_BLOCKS ELSE 0
        after[n \in 0 .. NumBlocks(b) - first] ==
          IF n = 0 THEN b ELSE FixBlock(after[n - 1], first + n - 1)
    IN  after[NumBlocks(b) - first]

-----------------------------------------------------------------------------
\* build with values: one key at a time into the DAWG.  An exception leaves
\* the array as it was.
InsertKey ==
    /\ phase = "insert" /\ has_values /\ inserted < Len(keyset)
    /\ LET done == Insert(dawg, keyset[inserted + 1].key, Value(inserted + 1))
       IN  /\ phase' = IF done.ok THEN "insert" ELSE "failed"
           /\ dawg' = done.dawg
    /\ inserted' = inserted + 1
    /\ UNCHANGED <<keyset, has_values, builder, todo, array>>

\* build_from_dawg: every intersection has no base yet.
FinishDawg ==
    /\ phase = "insert" /\ has_values /\ inserted = Len(keyset)
    /\ dawg' = Finish(dawg)
    /\ builder' = [RootReserved(builder) EXCEPT
                     !.table = [i \in 0 .. Cardinality(dawg'.is_intersection) - 1 |-> 0]]
    /\ todo' = IF Child(dawg', Root) # 0 THEN <<[dawg_id |-> Root, id |-> 0]>> ELSE <<>>
    /\ phase' = "arrange"
    /\ UNCHANGED <<keyset, has_values, inserted, array>>

\* The base of an equal state is taken over when it has one and the masks let
\* the distance pass, a distance of 0 too.
SharedOffset(frame) ==
    builder.table[IntersectionId(dawg, Child(dawg, frame.dawg_id))] ^^ frame.id

TakesOver(frame) ==
    LET child == Child(dawg, frame.dawg_id)
    IN  /\ child \in dawg.is_intersection
        /\ builder.table[IntersectionId(dawg, child)] # 0
        /\ Storable(SharedOffset(frame))

Shared(frame, offset) ==
    [builder EXCEPT
       !.units[frame.id + 1].offset = StoredOffset(offset),
       !.units[frame.id + 1].has_leaf = @ \/ IsLeaf(dawg, Child(dawg, frame.dawg_id))]

DawgKids(frame) ==
    LET child == Child(dawg, frame.dawg_id)
        group == UnitGroup(dawg, child)
    IN  [i \in DOMAIN group |->
           [label |-> group[i].label, value |-> group[i].child, dawg_id |-> child + i - 1]]

ArrangeFromDawg ==
    /\ phase = "arrange" /\ has_values /\ todo # <<>>
    /\ LET frame == Last(todo)
           kids  == DawgKids(frame)
           child == Child(dawg, frame.dawg_id)
           done  == Arrange(builder, frame.id, kids)
           calls == Calls(kids)
           rel   == IF TakesOver(frame) THEN SharedOffset(frame)
                    ELSE frame.id ^^ done.offset
       IN  IF TooLarge(rel)
           THEN phase' = "too_large" /\ UNCHANGED <<builder, todo>>
           ELSE /\ UNCHANGED phase
                /\ IF TakesOver(frame)
                   THEN /\ builder' = Shared(frame, rel)
                        /\ todo' = Front(todo)
                   ELSE /\ builder' =
                             IF child \notin dawg.is_intersection THEN done.builder
                             ELSE [done.builder EXCEPT
                                     !.table[IntersectionId(dawg, child)] = done.offset]
                        /\ todo' = Front(todo)
                             \o [i \in DOMAIN calls |->
                                   [dawg_id |-> calls[i].dawg_id,
                                    id |-> done.offset ^^ calls[i].label]]
    /\ UNCHANGED <<keyset, has_values, inserted, dawg, array>>

-----------------------------------------------------------------------------
\* build without values: the keys begin .. end - 1 share their first depth
\* characters.
StartFromKeyset ==
    /\ phase = "insert" /\ ~ has_values
    /\ builder' = RootReserved(builder)
    /\ todo' = IF keyset = <<>> THEN <<>>
               ELSE <<[begin |-> 1, end |-> Len(keyset) + 1, depth |-> 1, id |-> 0]>>
    /\ phase' = "arrange"
    /\ UNCHANGED <<keyset, has_values, inserted, dawg, array>>

KeyChar(i, depth) == CharAt(keyset[i].key, depth)

\* Keys that go on with one label, as one child.
KeysetKids(frame) ==
    LET ids == frame.begin .. frame.end - 1
        starts == Sorted({i \in ids : \/ i = frame.begin
                                      \/ KeyChar(i - 1, frame.depth) # KeyChar(i, frame.depth)})
    IN  [n \in DOMAIN starts |->
           [label |-> KeyChar(starts[n], frame.depth), value |-> Value(starts[n]),
            begin |-> starts[n],
            end |-> IF n = Len(starts) THEN frame.end ELSE starts[n + 1]]]

\* Mutant: the first key is compared with the last one only.
WrongOrderAtEnds(frame) ==
    KeyChar(frame.begin, frame.depth) > KeyChar(frame.end - 1, frame.depth)

WrongOrder(frame) ==
    \E i \in frame.begin .. frame.end - 2 :
       KeyChar(i, frame.depth) > KeyChar(i + 1, frame.depth)

ArrangeFromKeyset ==
    /\ phase = "arrange" /\ ~ has_values /\ todo # <<>>
    /\ LET frame == Last(todo)
           kids  == KeysetKids(frame)
           done  == Arrange(builder, frame.id, kids)
           calls == Calls(kids)
       IN  IF WrongOrder(frame)
           THEN phase' = "failed" /\ UNCHANGED <<builder, todo>>
           ELSE IF TooLarge(frame.id ^^ done.offset)
           THEN phase' = "too_large" /\ UNCHANGED <<builder, todo>>
           ELSE /\ builder' = done.builder
                /\ todo' = Front(todo)
                     \o [i \in DOMAIN calls |->
                           [begin |-> calls[i].begin, end |-> calls[i].end,
                            depth |-> frame.depth + 1,
                            id |-> done.offset ^^ calls[i].label]]
                /\ UNCHANGED phase
    /\ UNCHANGED <<keyset, has_values, inserted, dawg, array>>

\* fix_all_blocks, copy, and the units become the array.
EndBuild ==
    /\ phase = "arrange" /\ todo = <<>>
    /\ builder' = FixAllBlocks(builder)
    /\ array' = builder'.units
    /\ phase' = "built"
    /\ UNCHANGED <<keyset, has_values, inserted, dawg, todo>>

Next ==
    \/ InsertKey \/ FinishDawg \/ ArrangeFromDawg
    \/ StartFromKeyset \/ ArrangeFromKeyset
    \/ EndBuild

Spec == Init /\ [][Next]_vars

-----------------------------------------------------------------------------
\* Searches.
commonPrefixSearch(key) ==
    LET hits[i \in 1 .. Len(key) + 1, base \in Nat] ==
          IF i > Len(key) THEN <<>>
          ELSE LET id   == base ^^ key[i]
                   unit == array[id + 1]
                   next == id ^^ unit.offset
               IN  IF unit.label # key[i] THEN <<>>
                   ELSE (IF unit.has_leaf
                         THEN <<[value |-> array[next + 1].value, length |-> i]>> ELSE <<>>)
                          \o hits[i + 1, next]
    IN  hits[1, array[1].offset]

\* exactMatchSearch and traverse: the node the key leads to, -2 when there is
\* none.
NodeOf(key) ==
    LET at[i \in 0 .. Len(key)] ==
          IF i = 0 THEN 0
          ELSE LET id    == at[i - 1]
                   child == (id ^^ array[id + 1].offset) ^^ key[i]
               IN  IF id = -2 \/ array[child + 1].label # key[i] THEN -2 ELSE child
    IN  at[Len(key)]

LeafValue(id) ==
    IF array[id + 1].has_leaf THEN array[(id ^^ array[id + 1].offset) + 1].value ELSE -1

exactMatchSearch(key) ==
    LET id == NodeOf(key) IN IF id < 0 THEN -1 ELSE LeafValue(id)

traverse(key) ==
    LET id == NodeOf(key) IN IF id < 0 THEN -2 ELSE LeafValue(id)

-----------------------------------------------------------------------------
\* What was asked for.
Given    == {keyset[i].key : i \in DOMAIN keyset}
ValueOf(key) ==
    Value(CHOOSE i \in DOMAIN keyset :
            keyset[i].key = key /\ \A j \in 1 .. i - 1 : keyset[j].key # key)

\* Lexicographic order; equal keys may follow each other.
InOrder(k, l) ==
    \/ IsPrefix(k, l)
    \/ \E i \in DOMAIN k \cap DOMAIN l :
          k[i] < l[i] /\ \A j \in 1 .. i - 1 : k[j] = l[j]

Acceptable ==
    /\ \A i \in 1 .. Len(keyset) - 1 : InOrder(keyset[i].key, keyset[i + 1].key)
    /\ has_values => \A i \in DOMAIN keyset : keyset[i].key # <<>> /\ keyset[i].value >= 0

\* The variables have their types, and blocks are whole.
TypeOK ==
    /\ has_values \in BOOLEAN
    /\ phase \in {"insert", "arrange", "built", "failed", "too_large"}
    /\ inserted \in 0 .. Len(keyset)
    /\ Size(builder) % BLOCK_SIZE = 0
    /\ \A id \in 1 .. Size(builder) :
          /\ builder.units[id].label \in 0 .. BLOCK_SIZE - 1 \union {NoLabel}
          /\ builder.units[id].value \in {-1} \union {keyset[i].value : i \in DOMAIN keyset}
                                             \union 0 .. Len(keyset) - 1
    /\ \A s \in 0 .. NUM_EXTRAS - 1 :
          builder.extras[s].next \in 0 .. Size(builder) /\ builder.extras[s].prev \in Nat

\* commonPrefixSearch, which CPatternDict::Get starts with (pattern_dict.cpp:154),
\* finds those keys that are prefixes of the string, shortest first, each with
\* the value it was first given, and nothing else.
PrefixSearchExact ==
    phase = "built" =>
      \A q \in Queries :
         LET hits == SelectSeq([i \in 1 .. Len(q) |-> i], LAMBDA i : SubSeq(q, 1, i) \in Given)
         IN  commonPrefixSearch(q) =
               [i \in DOMAIN hits |->
                  [value |-> ValueOf(SubSeq(q, 1, hits[i])), length |-> hits[i]]]

\* exactMatchSearch and traverse (darts.h:430, :567) find the value of a key;
\* traverse tells a prefix of a key from a string that leads nowhere.  (Without
\* any key the free units keep the labels of base 1, which is the root's.)
WalksExact ==
    phase = "built" /\ keyset # <<>> =>
      \A q \in Queries :
         IF q \in Given THEN exactMatchSearch(q) = ValueOf(q) /\ traverse(q) = ValueOf(q)
         ELSE /\ exactMatchSearch(q) = -1
              /\ traverse(q) = IF q = <<>> \/ \E k \in Given : IsPrefix(q, k) THEN -1 ELSE -2

\* build throws for keys out of order, empty keys and negative values, which
\* it may notice only when other keys are arranged already (darts.h:1191,
\* :1212, :1793).  Otherwise it throws 'too large offset' (:83-87, :1429-1431),
\* and that only when the array has no room for one block more below
\* MaxOffset.  No throw leaves an array.
ThrowsOnWrongKeys ==
    /\ phase = "failed" => ~ Acceptable
    /\ phase = "too_large" => Size(builder) + BLOCK_SIZE > MaxOffset
    /\ phase = "built" => Acceptable
    /\ phase # "built" => array = <<>>

\* The finished DAWG holds the keys with their first values, and no state
\* twice, for all that its hash table was filled, probed and expanded on the
\* way (darts.h:1254-1339).
DawgExact ==
    phase = "arrange" /\ has_values =>
      /\ WordsFrom(dawg, Root) = {[key |-> k, value |-> ValueOf(k)] : k \in Given}
      /\ \A i, j \in FirstUnits(dawg) :
            UnitGroup(dawg, i) = UnitGroup(dawg, j) => i = j

\* The list of free units holds each unit of the last blocks that is not
\* fixed, once, and nothing else, although the slots are those of older
\* blocks (darts.h:1854-1903).
FreeListExact ==
    phase = "arrange" =>
      LET first == IF Size(builder) > NUM_EXTRAS THEN Size(builder) - NUM_EXTRAS ELSE 0
          free  == {id \in first .. Size(builder) - 1 : ~ Extra(builder, id).is_fixed}
      IN  /\ ToSet(FreeList(builder)) = free
          /\ Len(FreeList(builder)) = Cardinality(free)
          /\ \A id \in free : Extra(builder, Extra(builder, id).next).prev = id
=============================================================================
