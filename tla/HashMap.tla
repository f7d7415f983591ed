------------------------------ MODULE HashMap ------------------------------
(***************************************************************************)
(* What HashDict promises its one caller: a map from keys to values, with  *)
(* calls that take effect at one instant between call and return.  A call  *)
(* may also never return: the process is aborted.                          *)
(***************************************************************************)
CONSTANTS Keys, Values, None, Calls

VARIABLES
    map,        \* the value of every key, None for a key that is absent
    pending,    \* the call under way, or None
    answer      \* what it will return, None until it has taken effect

vars == <<map, pending, answer>>

Init ==
    /\ map = [k \in Keys |-> None]
    /\ pending = None
    /\ answer = None

Call ==
    /\ pending = None
    /\ pending' \in Calls
    /\ UNCHANGED <<map, answer>>

\* AddItem says whether the key is new; the value is set in any case.
AddItem ==
    /\ pending.op = "AddItem"
    /\ map' = [map EXCEPT ![pending.key] = pending.value]
    /\ answer' = [hit |-> map[pending.key] = None, value |-> None]

GetItem ==
    /\ pending.op = "GetItem"
    /\ answer' = [hit |-> map[pending.key] # None, value |-> map[pending.key]]
    /\ UNCHANGED map

\* ModifyItem is for keys that are there.
ModifyItem ==
    /\ pending.op = "ModifyItem" /\ map[pending.key] # None
    /\ map' = [map EXCEPT ![pending.key] = pending.value]
    /\ answer' = [hit |-> TRUE, value |-> None]

TakeEffect ==
    /\ pending # None /\ answer = None
    /\ AddItem \/ GetItem \/ ModifyItem
    /\ UNCHANGED pending

Return ==
    /\ answer # None
    /\ pending' = None
    /\ answer' = None
    /\ UNCHANGED map

\* All keys go at once, between two calls.
Clear ==
    /\ pending = None
    /\ map' = [k \in Keys |-> None]
    /\ UNCHANGED <<pending, answer>>

Next == Call \/ TakeEffect \/ Return \/ Clear

Spec == Init /\ [][Next]_vars
=============================================================================
