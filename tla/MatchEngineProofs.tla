------------------------- MODULE MatchEngineProofs --------------------------
(***************************************************************************)
(* Proofs about MatchEngine, for every set of engines, levels, keys and    *)
(* callers and any number of values, edits and reloads.                    *)
(***************************************************************************)
EXTENDS MatchEngine, SequenceTheorems, TLAPS

\* What a call has gathered so far: a hit's code exactly when it has a value,
\* and then the colour of the engine of the first one.
Folded(c) ==
    /\ rc[c] > 0 <=> value[c] # <<>>
    /\ rc[c] > 0 => rc[c] = Colour(value[c][1])

IInv == TypeOK /\ \A c \in Callers : Folded(c)

-----------------------------------------------------------------------------
\* n values of one engine are a sequence of engines.
LEMMA Repeated ==
    ASSUME NEW e \in Engines, NEW n \in Nat
    PROVE  /\ [i \in 1 .. n |-> e] \in Seq(Engines)
           /\ Len([i \in 1 .. n |-> e]) = n
           /\ n > 0 => [i \in 1 .. n |-> e][1] = e
<1> DEFINE s == [i \in 1 .. n |-> e]
<1>1. s \in Seq(Engines)
  BY SeqDef
<1>2. DOMAIN s = 1 .. n /\ DOMAIN s = 1 .. Len(s) /\ Len(s) \in Nat
  BY <1>1, LenProperties
<1> QED
  BY <1>1, <1>2

\* The first of two sequences put together is that of the front one, or that
\* of the other when the front one is empty.
LEMMA FirstOfConcat ==
    ASSUME NEW S, NEW s \in Seq(S), NEW t \in Seq(S)
    PROVE  /\ s \o t \in Seq(S)
           /\ (s \o t = <<>>) <=> (s = <<>> /\ t = <<>>)
           /\ s # <<>> => (s \o t)[1] = s[1]
           /\ s = <<>> /\ t # <<>> => (s \o t)[1] = t[1]
<1>1. s \o t \in Seq(S) /\ Len(s \o t) = Len(s) + Len(t)
  BY ConcatProperties
<1>2. \A i \in 1 .. Len(s) + Len(t) :
         (s \o t)[i] = IF i <= Len(s) THEN s[i] ELSE t[i - Len(s)]
  BY ConcatProperties
<1>3. Len(s) \in Nat /\ Len(t) \in Nat
  BY LenProperties
<1>4. \A u \in Seq(S) : u = <<>> <=> Len(u) = 0
  BY EmptySeq
<1> QED
  BY <1>1, <1>2, <1>3, <1>4

\* A turn that finds values hands back the colour of its engine, one that
\* finds none a code that is no hit unless there were values before.
LEMMA CodeOfUnit ==
    ASSUME NEW e \in Engines, NEW k \in Keys, NEW o \in Outcomes(e, k),
           holds \in [Engines -> Holdings], NEW values \in Seq(Engines)
    PROVE  /\ o.hits \in Nat /\ o.failed \in BOOLEAN
           /\ UnitCode(e, k, values) \in Codes
           /\ values = <<>> => UnitCode(e, k, values) <= 0
           /\ o.hits > 0 /\ values # <<>> => UnitCode(e, k, values) = Colour(e)
           /\ Colour(e) \in {1, 2}
<1>1. o.hits \in Nat /\ o.failed \in BOOLEAN
  <2>1. CASE e \in BadKeyType \/ k = EmptyKey
    <3>1. o = [hits |-> 0, failed |-> TRUE]
      BY <2>1 DEF Outcomes
    <3> QED
      BY <3>1
  <2>2. CASE ~ (e \in BadKeyType \/ k = EmptyKey) /\ e \in Remote
    <3>1. \/ o = [hits |-> 0, failed |-> TRUE]
          \/ o = [hits |-> 0, failed |-> FALSE]
          \/ o = [hits |-> 1, failed |-> FALSE]
      BY <2>2 DEF Outcomes
    <3>2. CASE o = [hits |-> 0, failed |-> TRUE]
      BY <3>2
    <3>3. CASE o = [hits |-> 0, failed |-> FALSE]
      BY <3>3
    <3>4. CASE o = [hits |-> 1, failed |-> FALSE]
      BY <3>4
    <3> QED
      BY <3>1, <3>2, <3>3, <3>4
  <2>3. CASE ~ (e \in BadKeyType \/ k = EmptyKey) /\ e \notin Remote
    <3>1. o = [hits |-> holds[e][k], failed |-> FALSE]
      BY <2>3 DEF Outcomes
    <3>2. holds[e][k] \in Nat
      BY <2>3, BoundAssumption DEF Holdings
    <3> QED
      BY <3>1, <3>2
  <2> QED
    BY <2>1, <2>2, <2>3
<1>2. o.hits > 0 => e \notin BadKeyType /\ k # EmptyKey
  BY DEF Outcomes
<1>3. Colour(e) \in {1, 2}
  BY DEF Colour
<1>4. UnitCode(e, k, values) \in Codes
  BY <1>3 DEF UnitCode, Codes
<1>5. values = <<>> => UnitCode(e, k, values) <= 0
  BY DEF UnitCode
<1>6. o.hits > 0 /\ values # <<>> => UnitCode(e, k, values) = Colour(e)
  BY <1>2 DEF UnitCode
<1> QED
  BY <1>1, <1>3, <1>4, <1>5, <1>6

-----------------------------------------------------------------------------
\* Nothing is loaded and nobody has called.
LEMMA InvInit == Init => IInv
<1> SUFFICES ASSUME Init PROVE IInv
  OBVIOUS
<1>1. Nothing \in Holdings
  BY BoundAssumption DEF Nothing, Holdings
<1>2. TypeOK
  <2>1. holds \in [Engines -> Holdings] /\ \A e \in Engines : holds[e] \in Contents(e)
    BY <1>1 DEF Init, Contents
  <2>2. left \in Seq(Engines)
    BY NameAssumption DEF Init
  <2>3. \A S : <<>> \in Seq(S)
    OBVIOUS
  <2>4. edits \in 0 .. MaxEdits
    BY BoundAssumption DEF Init
  <2> QED
    BY <2>1, <2>2, <2>3, <2>4 DEF Init, TypeOK, Codes
<1>3. ASSUME NEW c \in Callers PROVE Folded(c)
  BY <1>3 DEF Init, Folded
<1> QED
  BY <1>2, <1>3 DEF IInv

\* An engine that crashes leaves a pool of the same type.
LEMMA CrashType ==
    ASSUME NEW e \in Engines, CrashOn(e), TypeOK
    PROVE  /\ m_engine_pool' \in [Engines -> {"absent", "null", "unit"}]
           /\ alive' \in BOOLEAN /\ holds' = holds
BY DEF CrashOn, TypeOK

\* New contents of one engine leave the type of all.
LEMMA ContentsType ==
    ASSUME NEW e \in Engines, NEW h \in Contents(e), TypeOK,
           holds' = [holds EXCEPT ![e] = h]
    PROVE  /\ holds' \in [Engines -> Holdings]
           /\ \A x \in Engines : holds'[x] \in Contents(x)
<1>1. Nothing \in Holdings
  BY BoundAssumption DEF Nothing, Holdings
<1>2. h \in Holdings
  BY <1>1 DEF Contents
<1> QED
  BY <1>2 DEF TypeOK

\* The loading thread keeps the types and touches no call.
LEMMA LoaderStep ==
    ASSUME TypeOK,
           \/ LoadEngine \/ LoadEngineFails \/ Loaded \/ ReloadEngine \/ DumpEngine
           \/ \E list \in {LoadOrder} \union {<<e>> : e \in Engines} : Reload(list) \/ Dump(list)
    PROVE  TypeOK' /\ UNCHANGED call
<1>0. left # <<>> => Head(left) \in Engines /\ Tail(left) \in Seq(Engines)
  BY HeadTailProperties DEF TypeOK
<1>1. CASE LoadEngine
  <2>1. PICK h \in Contents(Head(left)) : holds' = [holds EXCEPT ![Head(left)] = h]
    BY <1>1 DEF LoadEngine
  <2>2. holds' \in [Engines -> Holdings] /\ \A x \in Engines : holds'[x] \in Contents(x)
    BY <1>0, <1>1, <2>1, ContentsType DEF LoadEngine
  <2>3. m_engine_pool' \in [Engines -> {"absent", "null", "unit"}]
    BY <1>0, <1>1 DEF LoadEngine, TypeOK
  <2> QED
    BY <1>0, <1>1, <2>2, <2>3 DEF LoadEngine, TypeOK, call, Contents
<1>2. CASE LoadEngineFails
  BY <1>0, <1>2 DEF LoadEngineFails, TypeOK, system, call, Contents
<1>3. CASE Loaded
  BY <1>3 DEF Loaded, TypeOK, system, call, Contents
<1>4. CASE ReloadEngine
  <2> DEFINE e == Head(left)
  <2>1. e \in Engines /\ left' \in Seq(Engines)
    BY <1>0, <1>4 DEF ReloadEngine
  <2>2. /\ holds' \in [Engines -> Holdings]
        /\ \A x \in Engines : holds'[x] \in Contents(x)
        /\ m_engine_pool' \in [Engines -> {"absent", "null", "unit"}]
        /\ alive' \in BOOLEAN
    <3>1. CASE CrashOn(e)
      BY <2>1, <3>1, CrashType DEF TypeOK
    <3>2. CASE ~ CrashOn(e)
      <4>1. PICK h \in Contents(e) : holds' = [holds EXCEPT ![e] = h]
        BY <1>4, <3>2 DEF ReloadEngine
      <4>2. UNCHANGED <<m_engine_pool, alive>>
        BY <1>4, <3>2 DEF ReloadEngine
      <4> QED
        BY <2>1, <4>1, <4>2, ContentsType DEF TypeOK
    <3> QED
      BY <3>1, <3>2
  <2> QED
    BY <1>4, <2>1, <2>2 DEF ReloadEngine, TypeOK, call, Contents
<1>5. ASSUME NEW list \in {LoadOrder} \union {<<e>> : e \in Engines}, Reload(list) \/ Dump(list)
      PROVE  TypeOK' /\ UNCHANGED call
  <2>1. list \in Seq(Engines)
    <3>1. CASE list = LoadOrder
      BY <3>1, NameAssumption
    <3>2. ASSUME NEW e \in Engines, list = <<e>> PROVE list \in Seq(Engines)
      BY <3>2
    <3> QED
      BY <3>1, <3>2
  <2>2. edits' \in 0 .. MaxEdits
    BY <1>5, BoundAssumption DEF Reload, Dump, TypeOK
  <2> QED
    BY <1>5, <2>1, <2>2 DEF Reload, Dump, TypeOK, system, call, Contents
<1>6. CASE DumpEngine
  <2>1. left' \in Seq(Engines)
    BY <1>0, <1>6 DEF DumpEngine
  <2>2. CASE CrashOn(Head(left))
    BY <1>0, <1>6, <2>1, <2>2, CrashType DEF DumpEngine, TypeOK, call, Contents
  <2>3. CASE UNCHANGED <<system, alive>>
    BY <1>6, <2>1, <2>3 DEF DumpEngine, TypeOK, system, call, Contents
  <2> QED
    BY <1>6, <2>2, <2>3 DEF DumpEngine
<1> QED
  BY <1>1, <1>2, <1>3, <1>4, <1>5, <1>6

\* An edit keeps the types and touches no call either.
LEMMA EditStep ==
    ASSUME TypeOK, NEW e \in Engines, Edit(e)
    PROVE  TypeOK' /\ UNCHANGED call
<1>1. edits' \in 0 .. MaxEdits
  BY BoundAssumption DEF Edit, TypeOK
<1>2. /\ holds' \in [Engines -> Holdings]
      /\ \A x \in Engines : holds'[x] \in Contents(x)
      /\ m_engine_pool' \in [Engines -> {"absent", "null", "unit"}]
      /\ alive' \in BOOLEAN
  <2>1. CASE CrashOn(e)
    BY <2>1, CrashType DEF TypeOK
  <2>2. CASE /\ \E h \in Contents(e) : holds' = [holds EXCEPT ![e] = h]
             /\ UNCHANGED <<m_engine_pool, alive>>
    BY <2>2, ContentsType DEF TypeOK
  <2>3. CASE alive' = FALSE /\ UNCHANGED system
    BY <2>3 DEF TypeOK, system
  <2> QED
    BY <2>1, <2>2, <2>3 DEF Edit
<1> QED
  BY <1>1, <1>2 DEF Edit, TypeOK, thread, call, Contents

\* A call begins and ends with its own variables only.
LEMMA BeginAndEnd ==
    ASSUME IInv, NEW c \in Callers,
           Return(c) \/ \E k \in Keys, list \in Lists : Get(c, k, list)
    PROVE  IInv'
<1>1. CASE Return(c)
  <2>1. TypeOK'
    BY <1>1 DEF IInv, TypeOK, Return, Codes, Contents, system, thread
  <2>2. ASSUME NEW d \in Callers PROVE Folded(d)'
    BY <1>1 DEF IInv, TypeOK, Return, Folded, Colour
  <2> QED
    BY <2>1, <2>2 DEF IInv
<1>2. ASSUME NEW k \in Keys, NEW list \in Lists, Get(c, k, list)
      PROVE  IInv'
  <2>1. list \in Seq(Engines)
    BY NameAssumption DEF Lists
  <2>2. TypeOK'
    BY <1>2, <2>1 DEF IInv, TypeOK, Get, Contents, system, thread
  <2>3. ASSUME NEW d \in Callers PROVE Folded(d)'
    BY <1>2 DEF IInv, Get, Folded, Colour
  <2> QED
    BY <2>2, <2>3 DEF IInv
<1> QED
  BY <1>1, <1>2

\* A turn of the loop: the code kept is that of the first engine that found
\* something, and the values of that engine stay in front.
LEMMA TurnOfLoop ==
    ASSUME IInv, NEW c \in Callers, GetEngine(c)
    PROVE  IInv'
<1> DEFINE e == Head(todo[c])
<1>1. e \in Engines /\ Tail(todo[c]) \in Seq(Engines) /\ key[c] \in Keys
  BY HeadTailProperties DEF GetEngine, IInv, TypeOK
<1>2. todo' \in [Callers -> Seq(Engines)]
  BY <1>1 DEF GetEngine, IInv, TypeOK
<1>3. CASE CrashOn(e) /\ UNCHANGED <<rc, value, rc_engine, erred>>
  <2>1. TypeOK'
    BY <1>1, <1>2, <1>3, CrashType DEF IInv, TypeOK, GetEngine, Contents, thread
  <2>2. ASSUME NEW d \in Callers PROVE Folded(d)'
    BY <1>3 DEF IInv, Folded, Colour
  <2> QED
    BY <2>1, <2>2 DEF IInv
<1>4. ASSUME NEW o \in Outcomes(e, key[c]),
             NEW values, values = value[c] \o [i \in 1 .. o.hits |-> e],
             NEW code, code = UnitCode(e, key[c], values),
             value' = [value EXCEPT ![c] = values],
             rc_engine' = [rc_engine EXCEPT ![c] = code],
             rc' = [rc EXCEPT ![c] = Keep(@, code)],
             erred' = [erred EXCEPT ![c] = @ \/ o.failed],
             UNCHANGED <<system, alive>>
      PROVE  IInv'
  <2> DEFINE new == [i \in 1 .. o.hits |-> e]
  <2>1. o.hits \in Nat /\ o.failed \in BOOLEAN
    BY <1>1, CodeOfUnit, EmptySeq DEF IInv, TypeOK
  <2>2. /\ new \in Seq(Engines)
        /\ Len(new) = o.hits
        /\ o.hits > 0 => new[1] = e
    BY <1>1, <2>1, Repeated
  <2>3. new = <<>> <=> o.hits = 0
    BY <2>2, EmptySeq
  <2>4. value[c] \in Seq(Engines)
    BY DEF IInv, TypeOK
  <2>5. /\ values \in Seq(Engines)
        /\ values = <<>> <=> value[c] = <<>> /\ new = <<>>
        /\ value[c] # <<>> => values[1] = value[c][1]
        /\ value[c] = <<>> /\ new # <<>> => values[1] = new[1]
    <3>1. values = value[c] \o new
      BY <1>4
    <3>2. new \in Seq(Engines)
      BY <2>2
    <3> HIDE DEF new
    <3> QED
      BY <2>4, <3>1, <3>2, FirstOfConcat
  <2>6. /\ code \in Codes
        /\ values = <<>> => code <= 0
        /\ o.hits > 0 /\ values # <<>> => code = Colour(e)
        /\ Colour(e) \in {1, 2}
    BY <1>1, <1>4, <2>5, CodeOfUnit DEF IInv, TypeOK
  <2>7. rc[c] \in Codes /\ code \in Int /\ Keep(rc[c], code) \in Codes
    BY <2>6 DEF IInv, TypeOK, Keep, Codes
  <2>8. rc'[c] = Keep(rc[c], code) /\ value'[c] = values
    BY <1>4 DEF IInv, TypeOK
  <2>9. TypeOK'
    BY <1>2, <1>4, <2>1, <2>5, <2>6, <2>7
       DEF IInv, TypeOK, GetEngine, Contents, system, thread
  <2>10. Folded(c)'
    <3>1. Folded(c)
      BY DEF IInv
    <3>2. CASE value[c] # <<>>
      BY <2>5, <2>7, <2>8, <3>1, <3>2 DEF Folded, Keep, Colour, Codes
    <3>3. CASE value[c] = <<>> /\ new = <<>>
      BY <2>5, <2>6, <2>7, <2>8, <3>1, <3>3 DEF Folded, Keep, Codes
    <3>4. CASE value[c] = <<>> /\ new # <<>>
      <4>1. o.hits > 0 /\ values[1] = e /\ values # <<>>
        BY <2>1, <2>2, <2>3, <2>5, <3>4
      <4>2. rc'[c] = Colour(e) /\ value'[c][1] = e
        BY <2>6, <2>7, <2>8, <3>1, <3>4, <4>1 DEF Folded, Keep, Codes
      <4> QED
        BY <2>6, <2>8, <4>1, <4>2 DEF Folded, Colour
    <3> QED
      BY <3>2, <3>3, <3>4
  <2>11. ASSUME NEW d \in Callers, d # c PROVE Folded(d)'
    BY <1>4, <2>11 DEF IInv, TypeOK, Folded, Colour
  <2> QED
    BY <2>9, <2>10, <2>11 DEF IInv
<1> QED
  BY <1>3, <1>4 DEF GetEngine

\* The invariant holds in every state that can be reached.
THEOREM InvariantHolds == Spec => []IInv
<1>1. IInv /\ [Next]_vars => IInv'
  <2> SUFFICES ASSUME IInv, [Next]_vars PROVE IInv'
    OBVIOUS
  <2>1. ASSUME TypeOK', UNCHANGED call PROVE IInv'
    BY <2>1 DEF IInv, Folded, Colour, call
  <2>2. CASE UNCHANGED vars
    BY <2>2 DEF IInv, TypeOK, Folded, Colour, Contents, vars, system, thread, call
  <2>3. CASE \/ LoadEngine \/ LoadEngineFails \/ Loaded \/ ReloadEngine \/ DumpEngine
             \/ \E list \in {LoadOrder} \union {<<e>> : e \in Engines} : Reload(list) \/ Dump(list)
    BY <2>1, <2>3, LoaderStep DEF IInv
  <2>4. CASE \E e \in Engines : Edit(e)
    BY <2>1, <2>4, EditStep DEF IInv
  <2>5. ASSUME NEW c \in Callers, GetEngine(c) PROVE IInv'
    BY <2>5, TurnOfLoop
  <2>6. ASSUME NEW c \in Callers,
               Return(c) \/ \E k \in Keys, list \in Lists : Get(c, k, list)
        PROVE  IInv'
    BY <2>6, BeginAndEnd
  <2> QED
    BY <2>2, <2>3, <2>4, <2>5, <2>6 DEF Next, Command, Lookup
<1> QED
  BY <1>1, InvInit, PTL DEF Spec

\* Every variable keeps its type, and every code is one a unit can return,
\* whatever engines, levels and callers there are (GetLevel, GetSpec).
THEOREM TypeCorrect == Spec => []TypeOK
<1>1. IInv => TypeOK
  BY DEF IInv
<1> QED
  BY <1>1, InvariantHolds, PTL

\* GetLevel and GetSpec return a hit exactly when they return a value, with
\* the colour of the engine that found the first value, for any list of
\* engines and whatever changes while they go through it.
THEOREM CodeIsOfFirstHit == Spec => []ReturnCode
<1>1. IInv => ReturnCode
  BY DEF IInv, Folded, ReturnCode
<1> QED
  BY <1>1, InvariantHolds, PTL
=============================================================================
