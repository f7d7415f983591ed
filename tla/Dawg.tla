-------------------------------- MODULE Dawg --------------------------------
(***************************************************************************)
(* DawgBuilder (include/darts.h): the acyclic word graph that the double   *)
(* array of a pattern dictionary is built from.  Keys come in order; a     *)
(* state none of whose words can grow any more is flushed from the nodes   *)
(* to the units, or joined to an equal state found in a hash table.        *)
(*                                                                         *)
(* A builder is a record, an operation an operator on it.  The bits of a   *)
(* packed unit are fields: a leaf keeps its value in child.  Ids count     *)
(* from 0, sequences from 1.  A group is a state as the sequence of its    *)
(* units, in the order of their labels.                                    *)
(***************************************************************************)
EXTENDS Integers, FiniteSets, SequencesExt

CONSTANTS
    Labels,             \* the characters of keys; 0 ends a key
    INITIAL_TABLE_SIZE  \* 2^10 in the code

ASSUME LabelsAssumption == Labels \subseteq Nat \ {0}
ASSUME TableAssumption == INITIAL_TABLE_SIZE \in Nat \ {0, 1}

Root == 0
RootLabel == 255    \* 0xFF; nothing compares it

DawgNode(label) ==
    [child |-> 0, sibling |-> 0, label |-> label, is_state |-> FALSE,
     has_sibling |-> FALSE]

\* What a unit keeps of a node.  A leaf has no room for is_state.
DawgUnit(node) ==
    [child |-> node.child, label |-> node.label, has_sibling |-> node.has_sibling,
     is_state |-> node.is_state /\ node.label # 0]

\* The values on the way from x along f, up to the first step that leads to end.
Walk(f, x, end) ==
    LET size == Cardinality(DOMAIN f)
        at[n \in 0 .. size] == IF n = 0 THEN x ELSE f[at[n - 1]]
        steps == CHOOSE n \in 1 .. size :
                    at[n] = end /\ \A m \in 1 .. n - 1 : at[m] # end
    IN  [i \in 1 .. steps |-> at[i - 1]]

Child(dawg, id)     == dawg.units[id + 1].child
Label(dawg, id)     == dawg.units[id + 1].label
IsLeaf(dawg, id)    == Label(dawg, id) = 0
Node(b, id)         == b.nodes[id + 1]

DawgInit ==
    [nodes |-> <<DawgNode(RootLabel)>>,
     units |-> <<DawgUnit(DawgNode(RootLabel))>>,
     table |-> [h \in 0 .. INITIAL_TABLE_SIZE - 1 |-> 0],
     node_stack |-> <<Root>>,
     recycle_bin |-> <<>>,
     is_intersection |-> {},
     num_states |-> 1]

\* rank() - 1: the intersections below this one.
IntersectionId(dawg, id) == Cardinality({i \in dawg.is_intersection : i < id})

-----------------------------------------------------------------------------
\* States.  The siblings of a node on the stack lead from the largest label
\* to the smallest.
Siblings(b, id) ==
    Walk([i \in 0 .. Len(b.nodes) - 1 |-> Node(b, i).sibling], id, 0)

NodeGroup(b, id) ==
    LET ids == Reverse(Siblings(b, id))
    IN  [i \in DOMAIN ids |-> DawgUnit(Node(b, ids[i]))]

\* The unit and those after it, up to the first without a sibling.
UnitGroup(b, id) ==
    LET last == CHOOSE j \in id .. Len(b.units) - 1 :
                   /\ ~ b.units[j + 1].has_sibling
                   /\ \A i \in id .. j - 1 : b.units[i + 1].has_sibling
    IN  SubSeq(b.units, id + 1, last + 1)

\* hash_unit and hash_node: the order of the units does not count.  The bits
\* are not mixed, so that states collide in small tables.
GroupHash(group) ==
    LET sum[n \in 0 .. Len(group)] ==
          IF n = 0 THEN 0 ELSE sum[n - 1] + group[n].label + group[n].child
    IN  sum[Len(group)]

\* The first bucket from h on, round the table, where the search may stop.
Probe(stops, h) ==
    LET size == Cardinality(DOMAIN stops)
        tries == CHOOSE n \in 0 .. size - 1 :
                    /\ stops[(h + n) % size]
                    /\ \A m \in 0 .. n - 1 : ~ stops[(h + m) % size]
    IN  (h + tries) % size

\* The bucket of table with an equal state, or else the first empty one.  The
\* mutant takes a state for another that only its first unit equals.
FindFirstUnit(b, table, group) ==
    Probe([h \in DOMAIN table |->
             table[h] = 0 \/ b.units[table[h] + 1].child = group[1].child],
          GroupHash(group))

FindNode(b, table, group) ==
    Probe([h \in DOMAIN table |-> table[h] = 0 \/ UnitGroup(b, table[h]) = group],
          GroupHash(group))

\* The first empty one, for a state that is in the units only once.
FindUnit(table, group) ==
    Probe([h \in DOMAIN table |-> table[h] = 0], GroupHash(group))

\* A table of twice the size holds the first unit of every state: the leaf,
\* or the unit whose node was made a state's first.
ExpandTable(b) ==
    LET filled[id \in 0 .. Len(b.units) - 1] ==
          IF id = 0 THEN [h \in 0 .. 2 * Cardinality(DOMAIN b.table) - 1 |-> 0]
          ELSE LET table == filled[id - 1]
               IN  IF IsLeaf(b, id) \/ b.units[id + 1].is_state
                   THEN [table EXCEPT ![FindUnit(table, UnitGroup(b, id))] = id]
                   ELSE table
    IN  filled[Len(b.units) - 1]

\* A state leaves the nodes: it becomes an intersection when an equal one is
\* in the units, and goes there otherwise; its parent points to it.
FlushState(b) ==
    LET id     == Last(b.node_stack)
        under  == Front(b.node_stack)
        table  == IF 4 * b.num_states >= 3 * Cardinality(DOMAIN b.table)
                  THEN ExpandTable(b) ELSE b.table
        group  == NodeGroup(b, id)
        slot   == FindNode(b, table, group)
        popped == [b EXCEPT !.table = table, !.node_stack = under,
                            !.recycle_bin = @ \o Siblings(b, id)]
    IN  IF table[slot] # 0
        THEN [popped EXCEPT !.is_intersection = @ \union {table[slot]},
                            !.nodes[Last(under) + 1].child = table[slot]]
        ELSE [popped EXCEPT !.units = @ \o group,
                            !.table[slot] = Len(b.units),
                            !.num_states = @ + 1,
                            !.nodes[Last(under) + 1].child = Len(b.units)]

\* The states above id leave the stack, and id with them.
Flush(b, id) ==
    LET stack == b.node_stack
        depth == CHOOSE d \in DOMAIN stack :
                    stack[d] = id /\ \A e \in d + 1 .. Len(stack) : stack[e] # id
        after[n \in 0 .. Len(stack) - depth] ==
          IF n = 0 THEN b ELSE FlushState(after[n - 1])
    IN  [after[Len(stack) - depth] EXCEPT !.node_stack = Front(@)]

-----------------------------------------------------------------------------
\* insert follows the nodes of the last key as far as the new one agrees.
CharAt(key, pos) == IF pos <= Len(key) THEN key[pos] ELSE 0

Stop(b, id, pos, ok) == [dawg |-> b, id |-> id, pos |-> pos, ok |-> ok]

Below(b) == [id \in 0 .. Len(b.nodes) - 1 |-> Node(b, id).child]

\* The loop breaks at the key's end, at a node without children, and where the
\* last key has another character.
FollowEnds(b, key, at, p) ==
    \/ p = Len(key) + 2
    \/ Node(b, at[p]).child = 0
    \/ Node(b, Node(b, at[p]).child).label # CharAt(key, p)

FollowAt(b, key, id, pos) ==
    LET child == Node(b, id).child
    IN  IF pos = Len(key) + 2 \/ child = 0 THEN Stop(b, id, pos, TRUE)
        ELSE IF CharAt(key, pos) < Node(b, child).label THEN Stop(b, id, pos, FALSE)
        ELSE Stop(Flush([b EXCEPT !.nodes[child + 1].has_sibling = TRUE], child), id, pos, TRUE)

Follow(b, key) ==
    LET at[p \in 1 .. Len(key) + 2] == IF p = 1 THEN Root ELSE Below(b)[at[p - 1]]
        pos == CHOOSE p \in 1 .. Len(key) + 2 :
                 FollowEnds(b, key, at, p) /\ \A q \in 1 .. p - 1 : ~ FollowEnds(b, key, at, q)
    IN  FollowAt(b, key, at[pos], pos)

\* append_node: a free id, else the next one.
AppendNode(b, node) ==
    IF b.recycle_bin = <<>>
    THEN [b EXCEPT !.nodes = Append(@, node), !.node_stack = Append(@, Len(b.nodes))]
    ELSE LET id == Last(b.recycle_bin)
         IN  [b EXCEPT !.nodes[id + 1] = node, !.node_stack = Append(@, id),
                       !.recycle_bin = Front(@)]

\* The next node below at.id, before its siblings.
AddNode(at, label) ==
    LET first == Node(at.dawg, at.id).child
        added == AppendNode(at.dawg, [DawgNode(label) EXCEPT
                                        !.sibling = first, !.is_state = first = 0])
        child == Last(added.node_stack)
    IN  [dawg |-> [added EXCEPT !.nodes[at.id + 1].child = child], id |-> child]

Extend(b, key, value, id, pos) ==
    LET after[n \in 0 .. Len(key) + 2 - pos] ==
          IF n = 0 THEN [dawg |-> b, id |-> id]
          ELSE AddNode(after[n - 1], CharAt(key, pos + n - 1))
        done == after[Len(key) + 2 - pos]
    IN  [done.dawg EXCEPT !.nodes[done.id + 1].child = value]

\* The exceptions for negative values, empty keys and keys out of order; a
\* key that is there already keeps its value.
Insert(b, key, value) ==
    LET at == Follow(b, key)
    IN  IF value < 0 \/ key = <<>> \/ ~ at.ok THEN [ok |-> FALSE, dawg |-> b]
        ELSE [ok |-> TRUE,
              dawg |-> IF at.pos = Len(key) + 2 THEN b
                       ELSE Extend(at.dawg, key, value, at.id, at.pos)]

\* finish flushes every node; only the units are used from here on.
Finish(b) ==
    LET flushed == Flush(b, Root)
    IN  [DawgInit EXCEPT
           !.units = [flushed.units EXCEPT ![1] = DawgUnit(Node(flushed, Root))],
           !.is_intersection = flushed.is_intersection]

-----------------------------------------------------------------------------
\* The words of the graph from a unit's children on, with their values, and
\* the first units of its states.
WordsFrom(dawg, root) ==
    LET words[id \in 0 .. Len(dawg.units) - 1] ==
          IF Child(dawg, id) = 0 THEN {}
          ELSE LET group == UnitGroup(dawg, Child(dawg, id))
               IN  UNION {IF group[i].label = 0
                          THEN {[key |-> <<>>, value |-> group[i].child]}
                          ELSE {[w EXCEPT !.key = <<group[i].label>> \o @] :
                                  w \in words[Child(dawg, id) + i - 1]}
                          : i \in DOMAIN group}
    IN  words[root]

FirstUnits(dawg) ==
    {id \in 1 .. Len(dawg.units) - 1 : ~ dawg.units[id].has_sibling}
=============================================================================
