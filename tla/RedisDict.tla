----------------------------- MODULE RedisDict ------------------------------
(***************************************************************************)
(* CRedisDict (redis_dict.cpp) behind its unit: processes that share a     *)
(* redis server, each with a connection and one call at a time.  A request *)
(* may never reach the server, or reach it late: the client gives up after *)
(* a time, and nothing takes the request back.  The codes of the client    *)
(* pass through the dictionary and the unit before a caller sees them.     *)
(*                                                                         *)
(* A text is the sequence of its fields between tabs, which holds no empty *)
(* field; TabsOnly has none and is not empty either.                       *)
(***************************************************************************)
EXTENDS Integers, Sequences, FiniteSets

CONSTANTS
    Processes,
    Keys, Values,   \* fields
    Files,          \* the lines load_path may hold, each a text
    Texts,          \* the values Set and Add are called with
    TabsOnly, Nil,
    blacklist,      \* m_blacklist of each process's unit
    MaxRequests     \* bound: the requests sent

\* A line with a key, and one with a value too; what a request asks for.
Lines    == {<<k>> : k \in Keys} \union {<<k, v>> : k \in Keys, v \in Values}
Commands == [op : {"Set", "Del", "Get"}, key : Keys, val : Values \union {Nil}]

ASSUME FilesAssumption == Files \subseteq Seq(Lines)
ASSUME TextsAssumption == Texts \subseteq Seq(Values) \union {TabsOnly}
ASSUME NilAssumption ==
    Nil \notin Keys \union Values \union Commands /\ TabsOnly \notin Seq(Values)
ASSUME BlacklistAssumption == blacklist \in [Processes -> BOOLEAN]
ASSUME BoundAssumption == MaxRequests \in Nat

VARIABLES
    store,      \* what the server holds for each key, or Nil
    requests,   \* every request sent, in order
    pc, call,   \* per process: where its call is, and the request it makes
    current,    \* the index in requests of the one it waits for
    todo,       \* the lines it has still to load
    code,       \* what the call returns
    value,      \* the values its Get returns
    seen        \* history: the values the key had since the call began

server == <<store, requests>>
vars == <<server, pc, call, current, todo, code, value, seen>>

Init ==
    /\ store \in [Keys -> Values \union {Nil}] /\ requests = <<>>
    /\ pc = [c \in Processes |-> "down"]
    /\ call = [c \in Processes |-> Nil]
    /\ current = [c \in Processes |-> 0]
    /\ todo = [c \in Processes |-> <<>>]
    /\ code = [c \in Processes |-> 0]
    /\ value = [c \in Processes |-> <<>>]
    /\ seen = [c \in Processes |-> {}]

\* Init of the dictionary with the fields of init_param.  With one field the
\* port is read behind the last one, with three the password: what is there
\* may crash the process.  Only a dictionary that connects is used.
InitDict(c, fields) ==
    /\ pc[c] = "down"
    /\ \E after \in {"idle", "down"} \union (IF fields \in {0, 1, 3} THEN {"crashed"} ELSE {}) :
          pc' = [pc EXCEPT ![c] = after]
    /\ UNCHANGED <<server, call, current, todo, code, value, seen>>

Returned(c, ret) ==
    /\ pc' = [pc EXCEPT ![c] = "returned"]
    /\ code' = [code EXCEPT ![c] = ret]

Begun(c, command) ==
    /\ pc' = [pc EXCEPT ![c] = "send"]
    /\ call' = [call EXCEPT ![c] = command]
    /\ seen' = [seen EXCEPT ![c] = {store[command.key]}]
    /\ UNCHANGED <<server, current, todo, code, value>>

\* Set of the unit, and Add, which is Set.  SetKey refuses the empty key, here Nil, and
\* SetVal the empty value; it keeps the first field of another one, and reads
\* one that is not there of a value of tabs.
Set(c, k, text) ==
    /\ pc[c] = "idle" /\ todo[c] = <<>>
    /\ IF k = Nil \/ text = <<>>
       THEN Returned(c, 1) /\ UNCHANGED <<server, call, current, todo, value, seen>>
       ELSE IF text = TabsOnly
       THEN /\ pc' = [pc EXCEPT ![c] = "crashed"]
            /\ UNCHANGED <<server, call, current, todo, code, value, seen>>
       ELSE Begun(c, [op |-> "Set", key |-> k, val |-> Head(text)])

Del(c, k) ==
    /\ pc[c] = "idle" /\ todo[c] = <<>>
    /\ IF k = Nil
       THEN Returned(c, 1) /\ UNCHANGED <<server, call, current, todo, value, seen>>
       ELSE Begun(c, [op |-> "Del", key |-> k, val |-> Nil])

Get(c, k) ==
    /\ pc[c] = "idle" /\ todo[c] = <<>>
    /\ IF k = Nil
       THEN Returned(c, -3) /\ UNCHANGED <<server, call, current, todo, value, seen>>
       ELSE Begun(c, [op |-> "Get", key |-> k, val |-> Nil])

\* Load and Reload add every line with a key and a value.
Load(c, file) ==
    /\ pc[c] = "idle" /\ todo[c] = <<>>
    /\ todo' = [todo EXCEPT ![c] = file]
    /\ UNCHANGED <<server, pc, call, current, code, value, seen>>

LoadLine(c) ==
    /\ pc[c] = "idle" /\ todo[c] # <<>>
    /\ todo' = [todo EXCEPT ![c] = Tail(@)]
    /\ LET line == Head(todo[c])
       IN  IF Len(line) < 2 THEN UNCHANGED <<pc, call, seen>>
           ELSE /\ pc' = [pc EXCEPT ![c] = "send"]
                /\ call' = [call EXCEPT ![c] =
                              [op |-> "Set", key |-> line[1], val |-> line[2]]]
                /\ seen' = [seen EXCEPT ![c] = {store[line[1]]}]
    /\ UNCHANGED <<server, current, code, value>>

-----------------------------------------------------------------------------
\* A request is under way, done by the server, or lost.  It keeps what the
\* server answered, and what the caller was told, Nil before.
Send(c) ==
    /\ pc[c] = "send" /\ Len(requests) < MaxRequests
    /\ requests' = Append(requests, [command |-> call[c], state |-> "sent",
                                     reply |-> Nil, told |-> Nil])
    /\ current' = [current EXCEPT ![c] = Len(requests')]
    /\ pc' = [pc EXCEPT ![c] = "wait"]
    /\ UNCHANGED <<store, call, todo, code, value, seen>>

\* The server executes a request, at any time after it was sent.
Serve(r) ==
    /\ requests[r].state = "sent"
    /\ LET command == requests[r].command
       IN  /\ requests' = [requests EXCEPT ![r].state = "done",
                                           ![r].reply = store[command.key]]
           /\ store' = IF command.op = "Get" THEN store
                       ELSE [store EXCEPT ![command.key] = command.val]
    /\ seen' = [c \in Processes |->
                  IF pc[c] \in {"send", "wait"} THEN seen[c] \union {store'[call[c].key]} ELSE seen[c]]
    /\ UNCHANGED <<pc, call, current, todo, code, value>>

LoseRequest(r) ==
    /\ requests[r].state = "sent"
    /\ requests' = [requests EXCEPT ![r].state = "lost"]
    /\ UNCHANGED <<store, pc, call, current, todo, code, value, seen>>

\* What the unit returns for a Set the client said ok of, or not.
\* Mutant: that of Del.
WriteCodeAsDel(ok) == 0

WriteCode(ok) == IF ok THEN 0 ELSE 2

\* Del returns 0 either way: it only logs, and that when the client said ok.
DelCode(ok) == 0

\* The values of a Get: SetVal refuses the empty string that a missing key or
\* a failure leaves.
Hits(ok, reply) == IF ok /\ reply # Nil THEN <<reply>> ELSE <<>>

\* The code of the dictionary is dropped, and only the values count.  Mutant:
\* it is passed on.
GetCodeOfDict(c, hits) == IF hits = <<>> THEN 3 ELSE IF blacklist[c] THEN 1 ELSE 2

GetCode(c, hits) == IF hits = <<>> THEN 0 ELSE IF blacklist[c] THEN 1 ELSE 2

\* The client returns, and the call with it.
Finish(c, ok, reply) ==
    LET op   == call[c].op
        hits == Hits(ok, reply)
        ret  == IF op = "Get" THEN GetCode(c, hits)
                ELSE IF op = "Del" THEN DelCode(ok) ELSE WriteCode(ok)
    IN  /\ Returned(c, ret)
        /\ value' = IF op = "Get" THEN [value EXCEPT ![c] = hits] ELSE value
        /\ requests' = IF current[c] = 0 THEN requests
                       ELSE [requests EXCEPT ![current[c]].told = ret]
        /\ current' = [current EXCEPT ![c] = 0]
        /\ UNCHANGED <<store, call, todo, seen>>

\* The reply to its request.  Mutant: to an earlier one, that came late.
ReceiveLate(c) ==
    /\ pc[c] = "wait"
    /\ \E r \in 1 .. current[c] :
          /\ requests[r].state = "done" /\ requests[r].command.op = call[c].op
          /\ Finish(c, TRUE, requests[r].reply)

Receive(c) ==
    /\ pc[c] = "wait" /\ requests[current[c]].state = "done"
    /\ Finish(c, TRUE, requests[current[c]].reply)

\* The time runs out, or the connection breaks, or there is none.
GiveUp(c) == pc[c] \in {"send", "wait"} /\ Finish(c, FALSE, Nil)

\* The caller has its code and values.
Return(c) ==
    /\ pc[c] = "returned"
    /\ pc' = [pc EXCEPT ![c] = "idle"]
    /\ call' = [call EXCEPT ![c] = Nil]
    /\ code' = [code EXCEPT ![c] = 0]
    /\ value' = [value EXCEPT ![c] = <<>>]
    /\ seen' = [seen EXCEPT ![c] = {}]
    /\ UNCHANGED <<server, current, todo>>

Next ==
    \/ \E r \in DOMAIN requests : Serve(r) \/ LoseRequest(r)
    \/ \E c \in Processes :
          \/ \E fields \in 0 .. 4 : InitDict(c, fields)
          \/ \E k \in Keys \union {Nil} :
                \/ Del(c, k) \/ Get(c, k)
                \/ \E text \in Texts : Set(c, k, text)
          \/ \E file \in Files : Load(c, file)
          \/ LoadLine(c) \/ Send(c) \/ Receive(c) \/ GiveUp(c) \/ Return(c)

Spec == Init /\ [][Next]_vars

-----------------------------------------------------------------------------
Requests ==
    [command : Commands, state : {"sent", "done", "lost"},
     reply : Values \union {Nil}, told : {0, 1, 2, Nil}]

TypeOK ==
    /\ store \in [Keys -> Values \union {Nil}]
    /\ requests \in Seq(Requests)
    /\ pc \in [Processes -> {"down", "crashed", "idle", "send", "wait", "returned"}]
    /\ call \in [Processes -> Commands \union {Nil}]
    /\ current \in [Processes -> 0 .. Len(requests)]
    /\ \A c \in Processes : pc[c] \in {"send", "wait"} => call[c] # Nil
    /\ \A c \in Processes : pc[c] = "wait" <=> current[c] > 0
    /\ todo \in [Processes -> Seq(Lines)]
    /\ code \in [Processes -> -3 .. 2]
    /\ value \in [Processes -> Seq(Values)]
    /\ seen \in [Processes -> SUBSET (Values \union {Nil})]

\* A caller told 0 of its Set or Add can rely on it: the server has done it,
\* and it does not come into force later over what was set since.  Only a
\* request whose caller was told 2 can still do that (redis_dict.cpp:120).
WritesToldDone ==
    \A r \in DOMAIN requests :
       requests[r].command.op = "Set" /\ requests[r].told \notin {2, Nil}
         => requests[r].state = "done"

\* What a Get returns the key had at some moment of the call, whatever other
\* processes write, whatever came late; and the code says whether there is a
\* value (redis_dict.cpp:177-196, match_engine_unit.cpp:337-365).
AnswerWasStored ==
    \A c \in Processes : pc[c] = "returned" =>
       /\ \A i \in DOMAIN value[c] : value[c][i] \in seen[c]
       /\ call[c] # Nil /\ call[c].op = "Get" => (code[c] > 0 <=> value[c] # <<>>)
=============================================================================
