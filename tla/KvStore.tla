------------------------------ MODULE KvStore ------------------------------
(***************************************************************************)
(* What CKvDict promises its one caller: every key has a value of its own, *)
(* a key that is deleted stays deleted, and a lookup answers with the      *)
(* values of the keys it asks for, in the order it asks for them.          *)
(***************************************************************************)
EXTENDS Naturals, Sequences

CONSTANTS
    Keys, Values,
    Lookups,            \* the sequences of keys that are asked for at once
    Absent, Deleted,    \* instead of the value of a key that has none
    None                \* no call was answered

VARIABLES
    store,      \* the value of every key, Absent or Deleted
    answer      \* the keys of the last call and the values it returned

vars == <<store, answer>>

Init ==
    /\ store = [k \in Keys |-> Absent]
    /\ answer = None

Set(k, v) ==
    /\ store[k] # Deleted
    /\ store' = [store EXCEPT ![k] = v]

Add(k, v) ==
    /\ store[k] = Absent
    /\ store' = [store EXCEPT ![k] = v]

Del(k) ==
    /\ store[k] # Absent
    /\ store' = [store EXCEPT ![k] = Deleted]

Edit(k) == Del(k) \/ \E v \in Values : Set(k, v) \/ Add(k, v)

\* The keys asked for that have a value, by rising position.
Get(keys) ==
    LET live == {i \in 1 .. Len(keys) : store[keys[i]] \notin {Absent, Deleted}}
    IN  \E n \in 0 .. Len(keys) : \E at \in [1 .. n -> live] :
           /\ \A i, j \in 1 .. n : i < j => at[i] < at[j]
           /\ \A p \in live : \E i \in 1 .. n : at[i] = p
           /\ answer' = [keys |-> keys, values |-> [i \in 1 .. n |-> store[keys[at[i]]]]]
           /\ UNCHANGED store

\* An edit changes no key but its own, or is refused; loading adds keys.
Next ==
    \/ \E keys \in Lookups : Get(keys)
    \/ \E k \in Keys :
          /\ Edit(k) \/ UNCHANGED store
          /\ answer' = [keys |-> <<k>>, values |-> None]
    \/ \E k \in Keys, v \in Values : Add(k, v) /\ answer' = None
    \/ UNCHANGED store /\ answer' = None

Spec == Init /\ [][Next]_vars
=============================================================================
