-------------------------- MODULE RedisDictProofs ---------------------------
(***************************************************************************)
(* Proofs about RedisDict, for any processes, keys, values and files, any  *)
(* number of requests, and any order in which the server gets them.        *)
(***************************************************************************)
EXTENDS RedisDict, SequenceTheorems, TLAPS

\* The request a process waits for is the one its call made, and no caller
\* was told of it; what the server answered a Get, the key had meanwhile.
Waiting ==
    \A c \in Processes : pc[c] = "wait" =>
       /\ requests[current[c]].command = call[c]
       /\ requests[current[c]].told = Nil
       /\ requests[current[c]].state = "done" /\ call[c].op = "Get"
             => requests[current[c]].reply \in seen[c]

\* No two processes wait for one request.
Alone ==
    \A c, d \in Processes : pc[c] = "wait" /\ pc[d] = "wait" /\ c # d =>
       current[c] # current[d]

\* Only a call that returned has values, and one that did not begin makes no
\* request.
Quiet ==
    \A c \in Processes :
       /\ pc[c] # "returned" => value[c] = <<>>
       /\ pc[c] \in {"down", "crashed", "idle"} => call[c] = Nil

IInv == TypeOK /\ WritesToldDone /\ AnswerWasStored /\ Waiting /\ Alone /\ Quiet

-----------------------------------------------------------------------------
\* Nothing was asked for yet.
LEMMA InvInit == Init => IInv
<1> SUFFICES ASSUME Init PROVE IInv
  OBVIOUS
<1>1. <<>> \in Seq(Requests) /\ Len(<<>>) = 0 /\ DOMAIN <<>> = {}
  OBVIOUS
<1>2. <<>> \in Seq(Lines) /\ <<>> \in Seq(Values)
  OBVIOUS
<1>3. TypeOK
  BY <1>1, <1>2 DEF Init, TypeOK
<1> QED
  BY <1>1, <1>3 DEF Init, IInv, WritesToldDone, AnswerWasStored, Waiting, Alone, Quiet

\* A process that neither waited nor will wait changes nothing the others see.
LEMMA OthersKeep ==
    ASSUME IInv, NEW c \in Processes, UNCHANGED <<store, requests>>,
           pc[c] # "wait" /\ pc'[c] # "wait",
           \A d \in Processes : d # c =>
              /\ pc'[d] = pc[d] /\ call'[d] = call[d] /\ current'[d] = current[d]
              /\ code'[d] = code[d] /\ value'[d] = value[d] /\ seen'[d] = seen[d],
           pc'[c] # "returned" => value'[c] = <<>>,
           pc'[c] \in {"down", "crashed", "idle"} => call'[c] = Nil,
           pc'[c] = "returned" => value'[c] = <<>> /\ call'[c] = Nil
    PROVE  /\ WritesToldDone' /\ AnswerWasStored' /\ Waiting' /\ Alone' /\ Quiet'
<1>1. WritesToldDone'
  BY DEF IInv, WritesToldDone
<1>2. AnswerWasStored'
  <2>1. ASSUME NEW d \in Processes, pc'[d] = "returned"
        PROVE  /\ \A i \in DOMAIN value'[d] : value'[d][i] \in seen'[d]
               /\ call'[d] # Nil /\ call'[d].op = "Get" => (code'[d] > 0 <=> value'[d] # <<>>)
    <3>1. CASE d = c
      BY <2>1, <3>1
    <3>2. CASE d # c
      BY <2>1, <3>2 DEF IInv, AnswerWasStored
    <3> QED
      BY <3>1, <3>2
  <2> QED
    BY <2>1 DEF AnswerWasStored
<1>3. Waiting'
  BY DEF IInv, Waiting
<1>4. Alone'
  BY DEF IInv, Alone
<1>5. Quiet'
  BY DEF IInv, Quiet
<1> QED
  BY <1>1, <1>2, <1>3, <1>4, <1>5

\* A process begins, ends, refuses or crashes in a call, or reads a line.
LEMMA OwnStep ==
    ASSUME IInv, NEW c \in Processes,
           \/ \E fields \in 0 .. 4 : InitDict(c, fields)
           \/ \E k \in Keys \union {Nil} :
                 \/ Del(c, k) \/ Get(c, k)
                 \/ \E text \in Texts : Set(c, k, text)
           \/ \E file \in Files : Load(c, file)
           \/ LoadLine(c) \/ Return(c)
    PROVE  IInv'
<1> DEFINE Fine ==
      /\ UNCHANGED <<store, requests, current>>
      /\ pc' = [pc EXCEPT ![c] = pc'[c]]
      /\ pc'[c] \in {"down", "crashed", "idle", "send", "returned"}
      /\ call' = [call EXCEPT ![c] = call'[c]]
      /\ call'[c] \in Commands \union {Nil}
      /\ pc'[c] = "send" => call'[c] \in Commands
      /\ todo' \in [Processes -> Seq(Lines)]
      /\ code' = [code EXCEPT ![c] = code'[c]]
      /\ code'[c] \in -3 .. 2
      /\ value' = [value EXCEPT ![c] = <<>>]
      /\ seen' = [seen EXCEPT ![c] = seen'[c]]
      /\ seen'[c] \in SUBSET (Values \union {Nil})
      /\ pc[c] # "wait"
      /\ pc'[c] \in {"down", "crashed", "idle", "returned"} => call'[c] = Nil
<1>1. ASSUME Fine PROVE IInv'
  <2>1. TypeOK'
    <3>1. <<>> \in Seq(Values)
      OBVIOUS
    <3>2. call'[c] # Nil \/ pc'[c] # "send"
      BY <1>1, NilAssumption
    <3>3. /\ pc' \in [Processes -> {"down", "crashed", "idle", "send", "wait", "returned"}]
          /\ call' \in [Processes -> Commands \union {Nil}]
          /\ code' \in [Processes -> -3 .. 2]
          /\ seen' \in [Processes -> SUBSET (Values \union {Nil})]
      <4>1. pc' \in [Processes -> {"down", "crashed", "idle", "send", "wait", "returned"}]
        BY <1>1 DEF IInv, TypeOK
      <4>2. call' \in [Processes -> Commands \union {Nil}]
        <5>1. call \in [Processes -> Commands \union {Nil}]
          BY DEF IInv, TypeOK
        <5>2. call' = [call EXCEPT ![c] = call'[c]] /\ call'[c] \in Commands \union {Nil}
          BY <1>1
        <5> QED
          BY <5>1, <5>2, Zenon
      <4>3. code' \in [Processes -> -3 .. 2]
        BY <1>1 DEF IInv, TypeOK
      <4>4. seen' \in [Processes -> SUBSET (Values \union {Nil})]
        BY <1>1 DEF IInv, TypeOK
      <4> QED
        BY <4>1, <4>2, <4>3, <4>4
    <3>4. value' \in [Processes -> Seq(Values)]
      BY <1>1, <3>1 DEF IInv, TypeOK
    <3>5. ASSUME NEW d \in Processes
          PROVE  /\ pc'[d] \in {"send", "wait"} => call'[d] # Nil
                 /\ pc'[d] = "wait" <=> current'[d] > 0
      <4>1. CASE d = c
        <5>1. pc'[c] # "wait" /\ current'[c] = current[c] /\ ~ (current[c] > 0)
          BY <1>1 DEF IInv, TypeOK
        <5> QED
          BY <3>2, <4>1, <5>1
      <4>2. CASE d # c
        <5>1. pc'[d] = pc[d] /\ call'[d] = call[d] /\ current'[d] = current[d]
          BY <1>1, <4>2 DEF IInv, TypeOK
        <5> QED
          BY <5>1 DEF IInv, TypeOK
      <4> QED
        BY <4>1, <4>2
    <3> QED
      BY <1>1, <3>3, <3>4, <3>5 DEF IInv, TypeOK
  <2>2. value'[c] = <<>>
    BY <1>1 DEF IInv, TypeOK
  <2>3. \A d \in Processes : d # c =>
              /\ pc'[d] = pc[d] /\ call'[d] = call[d] /\ current'[d] = current[d]
              /\ code'[d] = code[d] /\ value'[d] = value[d] /\ seen'[d] = seen[d]
    BY <1>1 DEF IInv, TypeOK
  <2>4. WritesToldDone' /\ AnswerWasStored' /\ Waiting' /\ Alone' /\ Quiet'
    BY <1>1, <2>2, <2>3, OthersKeep
  <2> QED
    BY <2>1, <2>4 DEF IInv
<1>2. /\ pc[c] \in {"down", "crashed", "idle"} => call[c] = Nil
      /\ pc[c] # "returned" => value[c] = <<>>
      /\ call[c] \in Commands \union {Nil} /\ code[c] \in -3 .. 2
      /\ seen[c] \in SUBSET (Values \union {Nil})
      /\ todo[c] \in Seq(Lines)
  BY DEF IInv, TypeOK, Quiet
<1>3. /\ pc = [pc EXCEPT ![c] = pc[c]] /\ call = [call EXCEPT ![c] = call[c]]
      /\ code = [code EXCEPT ![c] = code[c]] /\ value = [value EXCEPT ![c] = value[c]]
      /\ seen = [seen EXCEPT ![c] = seen[c]]
      /\ todo \in [Processes -> Seq(Lines)]
  BY DEF IInv, TypeOK
<1>4. \A k \in Keys : store[k] \in Values \union {Nil}
  BY DEF IInv, TypeOK
<1>5. ASSUME pc[c] = "idle", NEW ret \in -3 .. 2, Returned(c, ret),
             UNCHANGED <<server, call, current, todo, value, seen>>
      PROVE  Fine
  BY <1>2, <1>3, <1>5 DEF Returned, server, IInv, TypeOK
<1>6. ASSUME pc[c] = "idle", NEW command \in Commands, Begun(c, command)
      PROVE  Fine
  <2>1. command.key \in Keys
    BY <1>6 DEF Commands
  <2> QED
    BY <1>2, <1>3, <1>4, <1>6, <2>1 DEF Begun, server, IInv, TypeOK
<1>7. ASSUME NEW fields \in 0 .. 4, InitDict(c, fields) PROVE Fine
  BY <1>2, <1>3, <1>7 DEF InitDict, server, IInv, TypeOK
<1>8. ASSUME NEW k \in Keys \union {Nil}, Del(c, k) PROVE Fine
  <2>1. k # Nil => [op |-> "Del", key |-> k, val |-> Nil] \in Commands
    BY DEF Commands
  <2> QED
    BY <1>5, <1>6, <1>8, <2>1 DEF Del
<1>9. ASSUME NEW k \in Keys \union {Nil}, Get(c, k) PROVE Fine
  <2>1. k # Nil => [op |-> "Get", key |-> k, val |-> Nil] \in Commands
    BY DEF Commands
  <2> QED
    BY <1>5, <1>6, <1>9, <2>1 DEF Get
<1>10. ASSUME NEW k \in Keys \union {Nil}, NEW text \in Texts, Set(c, k, text) PROVE Fine
  <2>1. CASE k = Nil \/ text = <<>>
    BY <1>5, <1>10, <2>1 DEF Set
  <2>2. CASE ~ (k = Nil \/ text = <<>>) /\ text = TabsOnly
    BY <1>2, <1>3, <1>10, <2>2 DEF Set, server, IInv, TypeOK
  <2>3. CASE ~ (k = Nil \/ text = <<>>) /\ text # TabsOnly
    <3>1. text \in Seq(Values) /\ k \in Keys
      BY <2>3, TextsAssumption
    <3>2. Head(text) \in Values
      BY <2>3, <3>1, HeadTailProperties
    <3>3. [op |-> "Set", key |-> k, val |-> Head(text)] \in Commands
      BY <3>1, <3>2 DEF Commands
    <3> QED
      BY <1>6, <1>10, <2>3, <3>3 DEF Set
  <2> QED
    BY <2>1, <2>2, <2>3
<1>11. ASSUME NEW file \in Files, Load(c, file) PROVE Fine
  <2>1. file \in Seq(Lines)
    BY FilesAssumption
  <2>2. todo' \in [Processes -> Seq(Lines)]
    BY <1>11, <2>1 DEF Load, IInv, TypeOK
  <2> QED
    BY <1>2, <1>3, <1>11, <2>2 DEF Load, server, IInv, TypeOK
<1>12. ASSUME LoadLine(c) PROVE Fine
  <2>1. Head(todo[c]) \in Lines /\ Tail(todo[c]) \in Seq(Lines)
    BY <1>2, <1>12, HeadTailProperties DEF LoadLine
  <2>2. todo' \in [Processes -> Seq(Lines)]
    BY <1>12, <2>1 DEF LoadLine, IInv, TypeOK
  <2>3. CASE Len(Head(todo[c])) < 2
    BY <1>2, <1>3, <1>12, <2>2, <2>3 DEF LoadLine, server, IInv, TypeOK
  <2>4. CASE ~ (Len(Head(todo[c])) < 2)
    <3> DEFINE line == Head(todo[c])
               command == [op |-> "Set", key |-> line[1], val |-> line[2]]
    <3>1. line[1] \in Keys /\ line[2] \in Values
      BY <2>1, <2>4 DEF Lines
    <3>2. command \in Commands /\ store[line[1]] \in Values \union {Nil}
      BY <1>4, <3>1 DEF Commands
    <3>3. /\ pc' = [pc EXCEPT ![c] = "send"] /\ call' = [call EXCEPT ![c] = command]
          /\ seen' = [seen EXCEPT ![c] = {store[line[1]]}]
          /\ UNCHANGED <<server, current, code, value>> /\ pc[c] = "idle"
      BY <1>12, <2>4 DEF LoadLine
    <3> HIDE DEF command, line
    <3> QED
      BY <1>2, <1>3, <2>2, <3>2, <3>3 DEF server, IInv, TypeOK
  <2> QED
    BY <2>3, <2>4
<1>13. ASSUME Return(c) PROVE Fine
  BY <1>2, <1>3, <1>13 DEF Return, server, IInv, TypeOK
<1> QED
  BY <1>1, <1>7, <1>8, <1>9, <1>10, <1>11, <1>12, <1>13

-----------------------------------------------------------------------------
\* A process sends the request its call makes.
LEMMA SendStep == ASSUME IInv, NEW c \in Processes, Send(c) PROVE IInv'
<1> DEFINE new == [command |-> call[c], state |-> "sent", reply |-> Nil, told |-> Nil]
           n   == Len(requests)
<1>1. requests \in Seq(Requests) /\ n \in Nat /\ call[c] \in Commands
  BY LenProperties DEF IInv, TypeOK, Send
<1>2. new \in Requests
  BY <1>1 DEF Requests
<1>3. /\ new.command = call[c] /\ new.state = "sent" /\ new.told = Nil
  OBVIOUS
<1> HIDE DEF new
<1>4. /\ requests' \in Seq(Requests) /\ Len(requests') = n + 1
      /\ requests'[n + 1] = new
      /\ \A r \in 1 .. n : requests'[r] = requests[r]
      /\ DOMAIN requests' = 1 .. n + 1 /\ DOMAIN requests = 1 .. n
  BY <1>1, <1>2, AppendProperties, LenProperties DEF Send, new
<1>5. /\ current'[c] = n + 1 /\ pc'[c] = "wait" /\ pc[c] = "send"
      /\ \A d \in Processes : d # c => current'[d] = current[d] /\ pc'[d] = pc[d]
      /\ \A d \in Processes : current[d] \in 0 .. n
  BY <1>4 DEF IInv, TypeOK, Send
<1>6. UNCHANGED <<store, call, todo, code, value, seen>>
  BY DEF Send
<1>7. \A d \in Processes : pc[d] = "wait" => current[d] \in 1 .. n
  BY <1>1, <1>5 DEF IInv, TypeOK
<1>8. TypeOK'
  <2>1. current' \in [Processes -> 0 .. n + 1]
    <3>1. current \in [Processes -> 0 .. n] /\ current' = [current EXCEPT ![c] = n + 1]
      BY <1>4 DEF IInv, TypeOK, Send
    <3> QED
      BY <1>1, <3>1
  <2>2. pc' \in [Processes -> {"down", "crashed", "idle", "send", "wait", "returned"}]
    BY DEF IInv, TypeOK, Send
  <2>3. \A d \in Processes : pc'[d] \in {"send", "wait"} => call'[d] # Nil
    BY <1>5, <1>6 DEF IInv, TypeOK
  <2>4. \A d \in Processes : pc'[d] = "wait" <=> current'[d] > 0
    BY <1>1, <1>5 DEF IInv, TypeOK
  <2> QED
    BY <1>4, <1>6, <2>1, <2>2, <2>3, <2>4 DEF IInv, TypeOK
<1>9. WritesToldDone'
  BY <1>1, <1>3, <1>4 DEF IInv, WritesToldDone
<1>10. AnswerWasStored' /\ Quiet'
  BY <1>5, <1>6 DEF IInv, AnswerWasStored, Quiet
<1>11. Waiting'
  BY <1>1, <1>3, <1>4, <1>5, <1>6, <1>7 DEF IInv, Waiting
<1>12. Alone'
  <2>1. \A d \in Processes : d # c /\ pc'[d] = "wait" => current'[d] # n + 1
    BY <1>1, <1>5, <1>7
  <2> QED
    BY <1>5, <2>1 DEF IInv, Alone
<1> QED
  BY <1>8, <1>9, <1>10, <1>11, <1>12 DEF IInv

\* The network loses a request.
LEMMA LoseStep == ASSUME IInv, NEW r \in DOMAIN requests, LoseRequest(r) PROVE IInv'
<1>1. /\ requests \in Seq(Requests) /\ requests[r] \in Requests
      /\ DOMAIN requests = 1 .. Len(requests)
  BY ElementOfSeq, LenProperties DEF IInv, TypeOK
<1>2. /\ requests' \in Seq(Requests) /\ Len(requests') = Len(requests)
      /\ \A q \in DOMAIN requests : q # r => requests'[q] = requests[q]
      /\ requests'[r] = [requests[r] EXCEPT !.state = "lost"]
      /\ DOMAIN requests' = DOMAIN requests
  <2>1. [requests[r] EXCEPT !.state = "lost"] \in Requests
    BY <1>1 DEF Requests
  <2>2. requests' = [requests EXCEPT ![r] = [requests[r] EXCEPT !.state = "lost"]]
    BY <1>1 DEF LoseRequest
  <2> QED
    BY <1>1, <2>1, <2>2, ExceptSeq
<1>3. /\ requests'[r].command = requests[r].command /\ requests'[r].told = requests[r].told
      /\ requests'[r].state = "lost" /\ requests[r].state = "sent"
  BY <1>1, <1>2 DEF LoseRequest, Requests
<1>4. UNCHANGED <<store, pc, call, current, todo, code, value, seen>>
  BY DEF LoseRequest
<1>5. TypeOK'
  BY <1>2, <1>4 DEF IInv, TypeOK
<1>6. WritesToldDone'
  <2>1. ASSUME NEW q \in DOMAIN requests', requests'[q].command.op = "Set",
               requests'[q].told \notin {2, Nil}
        PROVE  requests'[q].state = "done"
    <3>1. CASE q = r
      BY <1>3, <2>1, <3>1 DEF IInv, WritesToldDone
    <3>2. CASE q # r
      BY <1>2, <2>1, <3>2 DEF IInv, WritesToldDone
    <3> QED
      BY <3>1, <3>2
  <2> QED
    BY <2>1 DEF WritesToldDone
<1>7. AnswerWasStored' /\ Quiet' /\ Alone'
  BY <1>4 DEF IInv, AnswerWasStored, Quiet, Alone
<1>8. Waiting'
  <2>1. ASSUME NEW c \in Processes, pc[c] = "wait" PROVE current[c] \in DOMAIN requests
    BY <1>1, <2>1 DEF IInv, TypeOK
  <2> QED
    BY <1>2, <1>3, <1>4, <2>1 DEF IInv, Waiting
<1> QED
  BY <1>5, <1>6, <1>7, <1>8 DEF IInv

\* The server gets one.  What it answers a Get is what the key of the call has
\* at that moment.
LEMMA ServeStep == ASSUME IInv, NEW r \in DOMAIN requests, Serve(r) PROVE IInv'
<1> DEFINE command == requests[r].command
           done    == [requests[r] EXCEPT !.state = "done", !.reply = store[command.key]]
<1>1. /\ requests \in Seq(Requests) /\ requests[r] \in Requests
      /\ DOMAIN requests = 1 .. Len(requests) /\ Len(requests) \in Nat
  BY ElementOfSeq, LenProperties DEF IInv, TypeOK
<1>2. /\ command \in Commands /\ command.key \in Keys
      /\ command.val \in Values \union {Nil} /\ store[command.key] \in Values \union {Nil}
  <2>1. command \in Commands
    BY <1>1 DEF Requests
  <2>2. command.key \in Keys /\ command.val \in Values \union {Nil}
    BY <2>1 DEF Commands
  <2> QED
    BY <2>1, <2>2 DEF IInv, TypeOK
<1>3. /\ done \in Requests
      /\ done.command = command /\ done.told = requests[r].told
      /\ done.state = "done" /\ done.reply = store[command.key]
  BY <1>1, <1>2 DEF Requests
<1>4. requests' = [requests EXCEPT ![r] = done]
  BY <1>1 DEF Serve
<1>5. store' = IF command.op = "Get" THEN store
               ELSE [store EXCEPT ![command.key] = command.val]
  BY DEF Serve
<1>6. /\ UNCHANGED <<pc, call, current, todo, code, value>>
      /\ seen' = [c \in Processes |->
                    IF pc[c] \in {"send", "wait"} THEN seen[c] \union {store'[call[c].key]}
                    ELSE seen[c]]
  BY DEF Serve
<1> HIDE DEF done
<1>7. /\ requests' \in Seq(Requests) /\ Len(requests') = Len(requests)
      /\ \A q \in DOMAIN requests : q # r => requests'[q] = requests[q]
      /\ requests'[r] = done
      /\ DOMAIN requests' = DOMAIN requests
  BY <1>1, <1>3, <1>4, ExceptSeq
<1>8. store' \in [Keys -> Values \union {Nil}]
  BY <1>2, <1>5 DEF IInv, TypeOK
<1>9. seen' \in [Processes -> SUBSET (Values \union {Nil})]
  <2>1. ASSUME NEW c \in Processes, pc[c] \in {"send", "wait"}
        PROVE  store'[call[c].key] \in Values \union {Nil}
    <3>1. call[c] \in Commands
      BY <2>1 DEF IInv, TypeOK
    <3>2. call[c].key \in Keys
      BY <3>1 DEF Commands
    <3> QED
      BY <1>8, <3>2
  <2>2. \A c \in Processes : seen[c] \in SUBSET (Values \union {Nil})
    BY DEF IInv, TypeOK
  <2> QED
    BY <1>6, <2>1, <2>2
<1>10. TypeOK'
  BY <1>6, <1>7, <1>8, <1>9 DEF IInv, TypeOK
<1>11. WritesToldDone'
  <2>1. ASSUME NEW q \in DOMAIN requests', requests'[q].command.op = "Set",
               requests'[q].told \notin {2, Nil}
        PROVE  requests'[q].state = "done"
    <3>1. CASE q = r
      BY <1>3, <1>7, <3>1
    <3>2. CASE q # r
      BY <1>7, <2>1, <3>2 DEF IInv, WritesToldDone
    <3> QED
      BY <3>1, <3>2
  <2> QED
    BY <2>1 DEF WritesToldDone
<1>12. AnswerWasStored' /\ Quiet' /\ Alone'
  <2>1. ASSUME NEW c \in Processes, pc[c] = "returned" PROVE seen'[c] = seen[c]
    BY <1>6, <2>1
  <2> QED
    BY <1>6, <2>1 DEF IInv, AnswerWasStored, Quiet, Alone
<1>13. Waiting'
  <2>1. ASSUME NEW c \in Processes, pc'[c] = "wait"
        PROVE  /\ requests'[current'[c]].command = call'[c]
               /\ requests'[current'[c]].told = Nil
               /\ requests'[current'[c]].state = "done" /\ call'[c].op = "Get"
                     => requests'[current'[c]].reply \in seen'[c]
    <3>1. pc[c] = "wait" /\ current'[c] = current[c] /\ call'[c] = call[c]
      BY <1>6, <2>1
    <3>2. current[c] \in DOMAIN requests
      BY <1>1, <3>1 DEF IInv, TypeOK
    <3>3. seen[c] \subseteq seen'[c] /\ store'[call[c].key] \in seen'[c]
      BY <1>6, <3>1
    <3>4. CASE current[c] = r
      <4>1. command = call[c] /\ requests[r].told = Nil
        BY <3>1, <3>4 DEF IInv, Waiting
      <4>2. call[c].op = "Get" => done.reply \in seen'[c]
        BY <1>3, <1>5, <3>3, <4>1
      <4> QED
        BY <1>3, <1>7, <3>1, <3>4, <4>1, <4>2
    <3>5. CASE current[c] # r
      <4>1. requests'[current[c]] = requests[current[c]]
        BY <1>7, <3>2, <3>5
      <4> QED
        BY <3>1, <3>3, <4>1 DEF IInv, Waiting
    <3> QED
      BY <3>4, <3>5
  <2> QED
    BY <2>1 DEF Waiting
<1> QED
  BY <1>10, <1>11, <1>12, <1>13 DEF IInv

-----------------------------------------------------------------------------
\* What a call returns depends on what the server answered, if it did.
LEMMA Codes ==
    ASSUME NEW c \in Processes, NEW ok \in BOOLEAN, NEW reply \in Values \union {Nil}
    PROVE  /\ Hits(ok, reply) \in Seq(Values)
           /\ \A i \in DOMAIN Hits(ok, reply) : ok /\ Hits(ok, reply)[i] = reply
           /\ \A hits \in Seq(Values) : GetCode(c, hits) \in 0 .. 2
                                        /\ (GetCode(c, hits) > 0 <=> hits # <<>>)
           /\ WriteCode(ok) \in {0, 2} /\ (WriteCode(ok) = 0 => ok)
           /\ DelCode(ok) = 0
<1>1. Hits(ok, reply) \in Seq(Values)
  <2>1. reply # Nil => <<reply>> \in Seq(Values)
    OBVIOUS
  <2>2. <<>> \in Seq(Values)
    OBVIOUS
  <2> QED
    BY <2>1, <2>2 DEF Hits
<1>2. ASSUME NEW i \in DOMAIN Hits(ok, reply) PROVE ok /\ Hits(ok, reply)[i] = reply
  <2>1. DOMAIN <<>> = {} /\ DOMAIN <<reply>> = {1} /\ <<reply>>[1] = reply
    OBVIOUS
  <2> QED
    BY <2>1 DEF Hits
<1>3. ASSUME NEW hits \in Seq(Values)
      PROVE  GetCode(c, hits) \in 0 .. 2 /\ (GetCode(c, hits) > 0 <=> hits # <<>>)
  BY DEF GetCode
<1>4. WriteCode(ok) \in {0, 2} /\ (WriteCode(ok) = 0 => ok) /\ DelCode(ok) = 0
  BY DEF WriteCode, DelCode
<1> QED
  BY <1>1, <1>2, <1>3, <1>4

\* The client returns: a Set is told 0 only when the server has done it, and
\* a Get has the value the server answered, or none.
LEMMA FinishStep ==
    ASSUME IInv, NEW c \in Processes, NEW ok \in BOOLEAN, NEW reply \in Values \union {Nil},
           pc[c] \in {"send", "wait"}, Finish(c, ok, reply),
           ok => /\ pc[c] = "wait"
                 /\ requests[current[c]].state = "done"
                 /\ reply = requests[current[c]].reply
    PROVE  IInv'
<1> DEFINE op   == call[c].op
           hits == Hits(ok, reply)
           ret  == IF op = "Get" THEN GetCode(c, hits)
                   ELSE IF op = "Del" THEN DelCode(ok) ELSE WriteCode(ok)
           cur  == current[c]
           told == [requests[cur] EXCEPT !.told = ret]
<1>1. /\ requests \in Seq(Requests) /\ Len(requests) \in Nat
      /\ DOMAIN requests = 1 .. Len(requests)
      /\ cur \in 0 .. Len(requests) /\ (pc[c] = "wait" <=> cur > 0)
      /\ call[c] \in Commands /\ op \in {"Set", "Del", "Get"}
  <2>1. call[c] \in Commands
    BY DEF IInv, TypeOK
  <2>2. op \in {"Set", "Del", "Get"}
    BY <2>1 DEF Commands
  <2> QED
    BY <2>1, <2>2, LenProperties DEF IInv, TypeOK
<1>2. /\ hits \in Seq(Values) /\ \A i \in DOMAIN hits : ok /\ hits[i] = reply
      /\ ret \in 0 .. 2
      /\ op = "Get" => (ret > 0 <=> hits # <<>>)
      /\ op = "Set" /\ ret # 2 => ok
  BY <1>1, Codes
<1>3. /\ pc' = [pc EXCEPT ![c] = "returned"] /\ code' = [code EXCEPT ![c] = ret]
      /\ value' = IF op = "Get" THEN [value EXCEPT ![c] = hits] ELSE value
      /\ requests' = IF cur = 0 THEN requests ELSE [requests EXCEPT ![cur] = told]
      /\ current' = [current EXCEPT ![c] = 0]
      /\ UNCHANGED <<store, call, todo, seen>>
  BY <1>1 DEF Finish, Returned
<1>4. ok => hits = <<>> \/ (op = "Get" => reply \in seen[c])
  BY DEF IInv, Waiting
<1> HIDE DEF hits, ret
<1>5. ASSUME cur # 0
      PROVE  /\ requests[cur] \in Requests /\ told \in Requests
             /\ told.command = requests[cur].command /\ told.state = requests[cur].state
             /\ told.reply = requests[cur].reply /\ told.told = ret
             /\ requests[cur].command = call[c]
  <2>1. cur \in DOMAIN requests /\ pc[c] = "wait"
    BY <1>1, <1>5
  <2>2. requests[cur] \in Requests
    BY <1>1, <2>1, ElementOfSeq
  <2>3. ret \in {0, 1, 2, Nil}
    BY <1>2
  <2>4. requests[cur].command = call[c]
    BY <2>1 DEF IInv, Waiting
  <2> QED
    BY <2>2, <2>3, <2>4 DEF Requests
<1> HIDE DEF told
<1>6. /\ requests' \in Seq(Requests) /\ Len(requests') = Len(requests)
      /\ DOMAIN requests' = DOMAIN requests
      /\ \A q \in DOMAIN requests : q # cur => requests'[q] = requests[q]
      /\ cur # 0 => requests'[cur] = told
  <2>1. CASE cur = 0
    BY <1>1, <1>3, <2>1
  <2>2. CASE cur # 0
    BY <1>1, <1>3, <1>5, <2>2, ExceptSeq, LenProperties
  <2> QED
    BY <2>1, <2>2
<1>7. /\ pc'[c] = "returned" /\ code'[c] = ret /\ current'[c] = 0
      /\ value'[c] = IF op = "Get" THEN hits ELSE <<>>
      /\ \A d \in Processes : d # c =>
            pc'[d] = pc[d] /\ code'[d] = code[d] /\ current'[d] = current[d] /\ value'[d] = value[d]
  BY <1>3 DEF IInv, TypeOK, Quiet
<1>8. TypeOK'
  <2>1. value' \in [Processes -> Seq(Values)]
    BY <1>2, <1>3 DEF IInv, TypeOK
  <2>2. code' \in [Processes -> -3 .. 2]
    BY <1>2, <1>3 DEF IInv, TypeOK
  <2>3. current' \in [Processes -> 0 .. Len(requests')]
    BY <1>1, <1>3, <1>6 DEF IInv, TypeOK
  <2>4. pc' \in [Processes -> {"down", "crashed", "idle", "send", "wait", "returned"}]
    BY <1>3 DEF IInv, TypeOK
  <2>5. ASSUME NEW d \in Processes
        PROVE  /\ pc'[d] \in {"send", "wait"} => call'[d] # Nil
               /\ pc'[d] = "wait" <=> current'[d] > 0
    BY <1>3, <1>7 DEF IInv, TypeOK
  <2> QED
    BY <1>3, <1>6, <2>1, <2>2, <2>3, <2>4, <2>5 DEF IInv, TypeOK
<1>9. WritesToldDone'
  <2>1. ASSUME NEW q \in DOMAIN requests', requests'[q].command.op = "Set",
               requests'[q].told \notin {2, Nil}
        PROVE  requests'[q].state = "done"
    <3>1. CASE q = cur
      <4>1. cur # 0 /\ requests'[cur] = told /\ requests[cur].command = call[c]
        BY <1>1, <1>5, <1>6, <2>1, <3>1
      <4>2. op = "Set" /\ ret # 2
        BY <1>5, <2>1, <3>1, <4>1
      <4>3. ok
        BY <1>2, <4>2
      <4> QED
        BY <1>5, <3>1, <4>1, <4>3
    <3>2. CASE q # cur
      BY <1>6, <2>1, <3>2 DEF IInv, WritesToldDone
    <3> QED
      BY <3>1, <3>2
  <2> QED
    BY <2>1 DEF WritesToldDone
<1>10. AnswerWasStored'
  <2>1. ASSUME NEW d \in Processes, pc'[d] = "returned"
        PROVE  /\ \A i \in DOMAIN value'[d] : value'[d][i] \in seen'[d]
               /\ call'[d] # Nil /\ call'[d].op = "Get" => (code'[d] > 0 <=> value'[d] # <<>>)
    <3>1. CASE d # c
      BY <1>3, <1>7, <2>1, <3>1 DEF IInv, AnswerWasStored
    <3>2. CASE d = c /\ op = "Get"
      <4>1. value'[c] = hits /\ code'[c] = ret
        BY <1>7, <3>2
      <4>2. ASSUME NEW i \in DOMAIN hits PROVE hits[i] \in seen'[c]
        <5>1. ok /\ hits[i] = reply /\ hits # <<>>
          BY <1>2, <4>2
        <5> QED
          BY <1>3, <1>4, <3>2, <5>1
      <4> QED
        BY <1>2, <3>2, <4>1, <4>2
    <3>3. CASE d = c /\ op # "Get"
      <4>1. value'[c] = <<>> /\ DOMAIN <<>> = {} /\ call'[c].op # "Get"
        BY <1>3, <1>7, <3>3
      <4> QED
        BY <3>3, <4>1
    <3> QED
      BY <3>1, <3>2, <3>3
  <2> QED
    BY <2>1 DEF AnswerWasStored
<1>11. Waiting'
  <2>1. ASSUME NEW d \in Processes, pc'[d] = "wait"
        PROVE  /\ requests'[current'[d]].command = call'[d]
               /\ requests'[current'[d]].told = Nil
               /\ requests'[current'[d]].state = "done" /\ call'[d].op = "Get"
                     => requests'[current'[d]].reply \in seen'[d]
    <3>1. d # c /\ pc[d] = "wait" /\ current'[d] = current[d]
      BY <1>7, <2>1
    <3>2. current[d] \in DOMAIN requests
      BY <1>1, <3>1 DEF IInv, TypeOK
    <3>3. current[d] # cur
      BY <1>1, <3>1, <3>2 DEF IInv, Alone
    <3>4. requests'[current[d]] = requests[current[d]]
      BY <1>6, <3>2, <3>3
    <3> QED
      BY <1>3, <3>1, <3>4 DEF IInv, Waiting
  <2> QED
    BY <2>1 DEF Waiting
<1>12. Alone' /\ Quiet'
  BY <1>3, <1>7 DEF IInv, Alone, Quiet
<1> QED
  BY <1>8, <1>9, <1>10, <1>11, <1>12 DEF IInv

\* The invariant holds in every state that can be reached.
THEOREM InvariantHolds == Spec => []IInv
<1>1. IInv /\ [Next]_vars => IInv'
  <2> SUFFICES ASSUME IInv, [Next]_vars PROVE IInv'
    OBVIOUS
  <2>1. CASE UNCHANGED vars
    BY <2>1 DEF IInv, TypeOK, WritesToldDone, AnswerWasStored, Waiting, Alone, Quiet,
                vars, server
  <2>2. ASSUME NEW r \in DOMAIN requests, Serve(r) \/ LoseRequest(r) PROVE IInv'
    BY <2>2, ServeStep, LoseStep
  <2>3. ASSUME NEW c \in Processes,
               \/ \E fields \in 0 .. 4 : InitDict(c, fields)
               \/ \E k \in Keys \union {Nil} :
                     \/ Del(c, k) \/ Get(c, k)
                     \/ \E text \in Texts : Set(c, k, text)
               \/ \E file \in Files : Load(c, file)
               \/ LoadLine(c) \/ Return(c)
        PROVE  IInv'
    BY <2>3, OwnStep
  <2>4. ASSUME NEW c \in Processes, Send(c) PROVE IInv'
    BY <2>4, SendStep
  <2>5. ASSUME NEW c \in Processes, Receive(c) PROVE IInv'
    <3>1. current[c] \in DOMAIN requests /\ requests \in Seq(Requests)
      BY <2>5, LenProperties DEF IInv, TypeOK, Receive
    <3>2. requests[current[c]] \in Requests
      BY <3>1, ElementOfSeq, LenProperties
    <3>3. requests[current[c]].reply \in Values \union {Nil}
      BY <3>2 DEF Requests
    <3> QED
      BY <2>5, <3>3, FinishStep DEF Receive
  <2>6. ASSUME NEW c \in Processes, GiveUp(c) PROVE IInv'
    BY <2>6, FinishStep DEF GiveUp
  <2> QED
    BY <2>1, <2>2, <2>3, <2>4, <2>5, <2>6 DEF Next
<1> QED
  BY <1>1, InvInit, PTL DEF Spec

\* Every variable keeps its type, and a process waits for a request of its own
\* or for none.
THEOREM TypeCorrect == Spec => []TypeOK
<1>1. IInv => TypeOK
  BY DEF IInv
<1> QED
  BY <1>1, InvariantHolds, PTL

\* A Set that returned 0 was done, and no late request undoes what was set
\* after it but one whose caller was told that it failed.
THEOREM ToldWritesAreDone == Spec => []WritesToldDone
<1>1. IInv => WritesToldDone
  BY DEF IInv
<1> QED
  BY <1>1, InvariantHolds, PTL

\* A Get returns a value the key had during the call, and a hit exactly when
\* it returns one.
THEOREM AnswersWereStored == Spec => []AnswerWasStored
<1>1. IInv => AnswerWasStored
  BY DEF IInv
<1> QED
  BY <1>1, InvariantHolds, PTL
=============================================================================
