----------------------------- MODULE LogProofs ------------------------------
(***************************************************************************)
(* Proofs about Log, for every set of threads, every way of naming files,  *)
(* and any number of lines, periods and restarts.                          *)
(***************************************************************************)
EXTENDS Log, SequenceTheorems, TLAPS

Inside(t) == pc[t] \in {"rotate", "print"}

Piece(t, k) == [line |-> line[t], time |-> p[t], piece |-> k]

\* How many pieces of the line of t are in the file.
Out(t) == printed[t] - Len(buffer)

\* The mutex keeps all others out of the critical section.
Excluded == \A t \in Threads : Inside(t) => g_log_mutex = t

\* The buffer holds the end of what the thread that prints has printed.
Buffered ==
    /\ (\A t \in Threads : pc[t] # "print") => buffer = <<>>
    /\ \A t \in Threads :
          /\ pc[t] # "print" => printed[t] = 0
          /\ pc[t] = "print" =>
                /\ Len(buffer) <= printed[t]
                /\ \A i \in 1 .. Len(buffer) : buffer[i] = Piece(t, Out(t) + i)

\* The open file ends with the beginning of it.
Ended ==
    \A t \in Threads : pc[t] = "print" /\ g_logfile # Stderr /\ Out(t) > 0 =>
       LET f == files[g_logfile] IN Len(f) > 0 /\ f[Len(f)] = Piece(t, Out(t))

\* A thread that prints has the file of its period open.
Rotated ==
    \A t \in Threads : pc[t] = "print" =>
        /\ p[t] <= newest
        /\ g_logfile # Stderr => Logday(p[t]) = g_logfile

\* Nothing was written in the future, nor in a period this process has not
\* come to.
Past ==
    /\ newest <= now
    /\ \A t \in Threads : p[t] <= now
    /\ \A name \in Names : \A i \in DOMAIN files[name] :
          /\ files[name][i].time <= now
          /\ g_logfile # Stderr => files[name][i].time <= newest

\* The open file is that of the latest period, or was turned back.
Newest == g_logfile # Stderr /\ ~ turned_back => g_logday = Logday(newest)

\* The last piece that was written of the line that is being printed.
Current(name, x) ==
    name = g_logfile /\ \E t \in Threads : pc[t] = "print" /\ x = Piece(t, Out(t))

Continues(f, i) == f[i].piece > 1 => i > 1 /\ f[i] = NextPiece(f[i - 1])

Finished(name, i) ==
    LET f == files[name]
    IN  f[i].piece < PIECES =>
           \/ i < Len(f) /\ f[i + 1] = NextPiece(f[i])
           \/ f[i].line \in cut
           \/ i = Len(f) /\ Current(name, f[i])

Written ==
    \A name \in Names : \A i \in DOMAIN files[name] :
       /\ Logday(files[name][i].time) = name
       /\ Continues(files[name], i)
       /\ Finished(name, i)

IInv ==
    /\ TypeOK /\ Excluded /\ Buffered /\ Ended /\ Rotated /\ Past /\ Newest
    /\ Written

-----------------------------------------------------------------------------
\* The number of a period is the name of a file.
LEMMA LogdayName ==
    ASSUME TypeOK, NEW time \in Nat
    PROVE  Logday(time) \in 0 .. g_logroll - 1 /\ Logday(time) \in Names
<1>1. g_logroll \in Rolls /\ g_logroll \in Nat \ {0}
  BY RollsAssumption DEF TypeOK
<1>2. Logday(time) \in 0 .. g_logroll - 1
  BY <1>1 DEF Logday
<1> QED
  BY <1>1, <1>2 DEF Names

\* Two different periods with one name are a whole roll apart.
LEMMA SameName ==
    ASSUME NEW r \in Nat, r > 0, NEW a \in Nat, NEW b \in Nat, a < b, a % r = b % r
    PROVE  a + r <= b
<1>1. PICK m \in Int : a = r * m + (a % r)
  <2>1. \E m \in Int : a = r * m + (a % r)
    OBVIOUS
  <2> QED
    BY <2>1
<1>2. PICK n \in Int : b = r * n + (b % r)
  <2>1. \E n \in Int : b = r * n + (b % r)
    OBVIOUS
  <2> QED
    BY <2>1
<1>3. b - a = r * (n - m)
  <2>1. PICK k \in Int : k = a % r /\ k = b % r
    OBVIOUS
  <2> QED
    BY <1>1, <1>2, <2>1
<1>4. n - m > 0
  <2>1. SUFFICES ASSUME n - m <= 0 PROVE FALSE
    OBVIOUS
  <2>2. r * (n - m) <= 0
    BY <2>1
  <2> QED
    BY <1>3, <2>2
<1>5. r * (n - m) >= r
  BY <1>4
<1> QED
  BY <1>3, <1>5

\* The piece after a piece.
LEMMA PieceAfter ==
    ASSUME NEW t \in Threads, NEW k \in Int
    PROVE  NextPiece(Piece(t, k)) = Piece(t, k + 1)
BY DEF NextPiece, Piece

\* What is in a file is a piece.
LEMMA PieceOfFile ==
    ASSUME TypeOK, NEW name \in Names, NEW i \in DOMAIN files[name]
    PROVE  files[name][i] \in Pieces /\ files[name][i].time \in 0 .. MaxTime
<1>1. files[name] \in Seq(Pieces)
  BY DEF TypeOK
<1>2. files[name][i] \in Pieces
  BY <1>1, ElementOfSeq, LenProperties
<1> QED
  BY <1>2 DEF Pieces

\* What is written stays right when files are opened, as long as the line
\* that is being printed stays or is cut.
LEMMA KeptFiles ==
    ASSUME TypeOK, Written, UNCHANGED g_logroll, cut \subseteq cut',
           \A n \in Names : files'[n] = files[n] \/ files'[n] = <<>>,
           \A n \in Names : \A x \in Pieces :
              Current(n, x) /\ x.piece < PIECES => x.line \in cut' \/ Current(n, x)'
    PROVE  Written'
<1>1. DOMAIN <<>> = {}
  OBVIOUS
<1>2. ASSUME NEW n \in Names, NEW i \in DOMAIN files'[n]
      PROVE  /\ files'[n][i].time % g_logroll = n
             /\ Continues(files'[n], i)
             /\ Finished(n, i)'
  <2>1. files'[n] = files[n] /\ i \in DOMAIN files[n]
    BY <1>1
  <2>2. files[n][i] \in Pieces
    BY <2>1, PieceOfFile
  <2>3. files[n][i].time % g_logroll = n /\ Continues(files[n], i) /\ Finished(n, i)
    BY <2>1 DEF Written, Logday
  <2>4. files[n][i].piece < PIECES /\ i = Len(files[n]) /\ Current(n, files[n][i])
          => files[n][i].line \in cut' \/ Current(n, files[n][i])'
    BY <2>2
  <2>5. Finished(n, i)'
    <3> DEFINE f == files[n]
    <3>1. f[i].piece < PIECES =>
             \/ i < Len(f) /\ f[i + 1] = NextPiece(f[i])
             \/ f[i].line \in cut'
             \/ i = Len(f) /\ Current(n, f[i])'
      BY <2>3, <2>4 DEF Finished
    <3> QED
      BY <2>1, <3>1 DEF Finished, Current, Piece, Out, NextPiece
  <2> QED
    BY <2>1, <2>3, <2>5 DEF Continues
<1> QED
  BY <1>2 DEF Written, Logday, Continues

\* A step that leaves the printing of lines alone leaves the last piece alone.
LEMMA SameCurrent ==
    ASSUME TypeOK, TypeOK', UNCHANGED <<g_logfile, buffer>>,
           \A t \in Threads : pc[t] = "print" =>
              /\ pc'[t] = "print"
              /\ p'[t] = p[t] /\ line'[t] = line[t] /\ printed'[t] = printed[t],
           NEW n, NEW x, Current(n, x)
    PROVE  Current(n, x)'
BY DEF Current, Piece, Out

-----------------------------------------------------------------------------
\* No file is open, and none holds anything.
LEMMA InvInit == Init => IInv
<1> SUFFICES ASSUME Init PROVE IInv
  OBVIOUS
<1>1. TypeOK
  <2>1. g_logday \in 0 .. g_logroll - 1
    BY RollsAssumption DEF Init
  <2>2. <<>> \in Seq(Pieces)
    OBVIOUS
  <2>3. files \in [Names -> Seq(Pieces)] /\ buffer \in Seq(Pieces)
    BY <2>2 DEF Init
  <2>4. g_log_mutex \in Threads \union {NoThread} /\ g_logfile \in {Stderr, g_logday}
    BY DEF Init
  <2>5. pc \in [Threads -> {"idle", "lock", "rotate", "print"}]
    BY DEF Init
  <2>6. p \in [Threads -> 0 .. MaxTime] /\ now \in 0 .. MaxTime /\ newest \in 0 .. MaxTime
    BY MaxTimeAssumption DEF Init
  <2>7. /\ line \in [Threads -> Nat] /\ printed \in [Threads -> 0 .. PIECES]
        /\ lines \in Nat /\ cut \subseteq Nat
    BY PiecesAssumption DEF Init
  <2> QED
    BY <2>1, <2>3, <2>4, <2>5, <2>6, <2>7 DEF Init, TypeOK
<1>2. Written
  <2>1. DOMAIN <<>> = {}
    OBVIOUS
  <2> QED
    BY <2>1 DEF Init, Written
<1>3. Excluded /\ Buffered /\ Ended /\ Rotated /\ Newest
  BY DEF Init, Excluded, Inside, Buffered, Ended, Rotated, Newest
<1>4. Past
  BY DEF Init, Past
<1> QED
  BY <1>1, <1>2, <1>3, <1>4 DEF IInv

\* The clock.
LEMMA TickStep == ASSUME IInv, Tick PROVE IInv'
<1>1. TypeOK'
  BY MaxTimeAssumption DEF IInv, TypeOK, Tick, setup, locals
<1>2. Past'
  <2>1. ASSUME NEW name \in Names, NEW i \in DOMAIN files[name]
        PROVE  files[name][i].time <= now + 1
    BY PieceOfFile DEF IInv, Past, TypeOK
  <2> QED
    BY <2>1 DEF IInv, Past, TypeOK, Tick, locals
<1>3. Written'
  BY <1>1, SameCurrent, KeptFiles DEF IInv, Tick, setup, locals
<1> QED
  BY <1>1, <1>2, <1>3 DEF IInv, Tick, setup, locals, Excluded, Inside, Buffered, Ended, Piece,
                          Out, Rotated, Logday, Newest

\* A thread outside takes the time, or the lock.
LEMMA EnterStep == ASSUME IInv, NEW t \in Threads, TakeTime(t) \/ Lock(t) PROVE IInv'
<1>1. TypeOK'
  <2>1. CASE TakeTime(t)
    BY <2>1 DEF IInv, TypeOK, TakeTime, setup
  <2>2. CASE Lock(t)
    BY <2>2 DEF IInv, TypeOK, Lock, setup
  <2> QED
    BY <2>1, <2>2
<1>2. Excluded' /\ Buffered' /\ Ended' /\ Rotated'
  <2>1. CASE TakeTime(t)
    BY <2>1 DEF IInv, TypeOK, TakeTime, setup, Excluded, Inside, Buffered, Ended, Piece, Out,
                Rotated, Logday
  <2>2. CASE Lock(t)
    <3>1. \A u \in Threads : ~ Inside(u)
      BY <2>2, NoThreadAssumption DEF IInv, Excluded, Lock
    <3> QED
      BY <2>2, <3>1 DEF IInv, TypeOK, Lock, setup, Excluded, Inside, Buffered, Ended, Piece, Out,
                      Rotated, Logday
  <2> QED
    BY <2>1, <2>2
<1>3. Past'
  <2>1. UNCHANGED <<now, newest, files, g_logfile>>
    BY DEF TakeTime, Lock, setup
  <2>2. p \in [Threads -> 0 .. MaxTime] /\ now \in Nat /\ \A u \in Threads : p[u] <= now
    BY MaxTimeAssumption DEF IInv, Past, TypeOK
  <2>3. p' = [p EXCEPT ![t] = now] \/ p' = p
    BY DEF TakeTime, Lock
  <2>4. \A u \in Threads : p'[u] <= now
    BY <2>2, <2>3
  <2> QED
    BY <2>1, <2>4 DEF IInv, Past
<1>4. Written'
  <2>1. /\ UNCHANGED <<g_logroll, g_logfile, buffer, files, cut>>
        /\ \A u \in Threads : pc[u] = "print" =>
              /\ pc'[u] = "print"
              /\ p'[u] = p[u] /\ line'[u] = line[u] /\ printed'[u] = printed[u]
    BY DEF IInv, TypeOK, TakeTime, Lock, setup
  <2> QED
    BY <1>1, <2>1, SameCurrent, KeptFiles DEF IInv
<1>5. Newest'
  BY DEF IInv, Newest, TakeTime, Lock, setup, Logday
<1> QED
  BY <1>1, <1>2, <1>3, <1>4, <1>5 DEF IInv

\* The thread inside prints.
LEMMA PrintStep == ASSUME IInv, NEW t \in Threads, fprintf(t) PROVE IInv'
<1> DEFINE new == Piece(t, printed[t] + 1)
<1>1. \A u \in Threads : u # t => ~ Inside(u)
  BY DEF IInv, Excluded, Inside, fprintf
<1>2. /\ buffer \in Seq(Pieces) /\ Len(buffer) \in Nat /\ printed[t] \in Nat
      /\ new \in Pieces /\ buffer' = Append(buffer, new)
      /\ printed' = [printed EXCEPT ![t] = printed[t] + 1] /\ printed[t] + 1 <= PIECES
  BY PiecesAssumption, LenProperties DEF IInv, TypeOK, Pieces, Piece, fprintf
<1>3. /\ buffer' \in Seq(Pieces) /\ Len(buffer') = Len(buffer) + 1
      /\ \A i \in 1 .. Len(buffer) : buffer'[i] = buffer[i]
      /\ buffer'[Len(buffer) + 1] = new
  BY <1>2, AppendProperties
<1>4. TypeOK'
  BY <1>2, <1>3, PiecesAssumption DEF IInv, TypeOK, fprintf, setup
<1>5. Out(t)' = Out(t) /\ \A k : Piece(t, k)' = Piece(t, k)
  BY <1>2, <1>3 DEF IInv, TypeOK, Out, Piece, fprintf
<1>6. Excluded' /\ Rotated'
  BY DEF IInv, TypeOK, fprintf, setup, Excluded, Inside, Rotated, Logday
<1>7. Buffered'
  <2>1. pc[t] = "print" /\ UNCHANGED pc /\ \A u \in Threads : pc[u] = "print" <=> u = t
    BY <1>1 DEF Inside, fprintf
  <2>2. \A u \in Threads : u # t => printed'[u] = 0
    BY <1>2, <2>1 DEF IInv, TypeOK, Buffered
  <2>3. Len(buffer) <= printed[t] /\ \A i \in 1 .. Len(buffer) : buffer[i] = Piece(t, Out(t) + i)
    BY <2>1 DEF IInv, Buffered
  <2>4. Len(buffer') <= printed'[t]
    BY <1>2, <1>3, <2>3 DEF IInv, TypeOK
  <2>5. Out(t) + (Len(buffer) + 1) = printed[t] + 1
    BY <1>2 DEF Out
  <2>6. \A i \in 1 .. Len(buffer') : buffer'[i] = Piece(t, Out(t) + i)
    BY <1>2, <1>3, <2>3, <2>5
  <2> QED
    BY <1>5, <2>1, <2>2, <2>4, <2>6 DEF Buffered
<1>8. Ended'
  BY <1>1, <1>5 DEF IInv, Ended, Inside, fprintf
<1>9. Past' /\ Newest'
  BY DEF IInv, Past, Newest, fprintf, setup, Logday
<1>10. Written'
  <2>1. \A n \in Names : \A x \in Pieces : Current(n, x) => Current(n, x)'
    BY <1>1, <1>5 DEF Current, Inside, fprintf
  <2> QED
    BY <2>1, KeptFiles DEF IInv, fprintf, setup
<1> QED
  BY <1>4, <1>6, <1>7, <1>8, <1>9, <1>10 DEF IInv

\* The open file has the name of a file.
LEMMA OpenName == ASSUME TypeOK, g_logfile # Stderr PROVE g_logfile = g_logday /\ g_logfile \in Names
BY DEF TypeOK, Names

\* An open leaves every file as it was, or empty.
LEMMA OpenKeeps ==
    ASSUME TypeOK, NEW name \in Names
    PROVE  /\ Open(files, name) \in [Names -> Seq(Pieces)]
           /\ \A n \in Names : Open(files, name)[n] = files[n] \/ Open(files, name)[n] = <<>>
           /\ \A n \in Names : g_logappend \/ n # name => Open(files, name)[n] = files[n]
<1>1. files \in [Names -> Seq(Pieces)] /\ <<>> \in Seq(Pieces)
  BY DEF TypeOK
<1> QED
  BY <1>1 DEF Open

\* The first file is opened.
LEMMA FirstOpen == ASSUME IInv, log_init PROVE IInv'
<1> DEFINE day == Logday(now)
<1>1. now \in Nat /\ day \in 0 .. g_logroll - 1 /\ day \in Names
  <2>1. now \in Nat
    BY MaxTimeAssumption DEF IInv, TypeOK
  <2> QED
    BY <2>1, LogdayName DEF IInv
<1>2. /\ files' \in [Names -> Seq(Pieces)]
      /\ \A n \in Names : files'[n] = files[n] \/ files'[n] = <<>>
  BY <1>1, OpenKeeps DEF IInv, log_init
<1>3. TypeOK'
  BY <1>1, <1>2 DEF IInv, TypeOK, log_init, setup, locals
<1>4. Past'
  <2>1. ASSUME NEW n \in Names, NEW i \in DOMAIN files'[n] PROVE files'[n][i].time <= now
    BY <1>2, <2>1 DEF IInv, Past
  <2> QED
    BY <1>3, <2>1 DEF IInv, Past, TypeOK, log_init, locals
<1>5. Newest'
  BY DEF Newest, log_init, Logday, setup
<1>6. Excluded' /\ Buffered' /\ Ended' /\ Rotated'
  BY DEF IInv, log_init, locals, Excluded, Inside, Buffered, Ended, Rotated
<1>7. Written'
  <2>1. \A n \in Names : \A x \in Pieces : ~ Current(n, x)
    BY DEF Current, log_init
  <2> QED
    BY <1>2, <2>1, KeptFiles DEF IInv, log_init, setup
<1> QED
  BY <1>3, <1>4, <1>5, <1>6, <1>7 DEF IInv

\* The process dies.
LEMMA CrashStep == ASSUME IInv, Crash PROVE IInv'
<1>1. g_logroll \in Nat \ {0}
  BY RollsAssumption DEF IInv, TypeOK
<1>2. TypeOK'
  <2>1. buffer' \in Seq(Pieces) /\ g_logday' \in 0 .. g_logroll - 1
    BY <1>1 DEF Crash
  <2>2. pc' \in [Threads -> {"idle", "lock", "rotate", "print"}]
    <3>1. pc' = [u \in Threads |-> "idle"]
      BY DEF Crash
    <3> QED
      BY <3>1
  <2>3. newest' \in 0 .. MaxTime
    BY MaxTimeAssumption DEF Crash
  <2>4. turned_back' \in BOOLEAN
    BY DEF Crash
  <2>5. g_logfile' \in {Stderr, g_logday'} /\ g_log_mutex' \in Threads \union {NoThread}
    BY DEF Crash
  <2>6. /\ p' \in [Threads -> 0 .. MaxTime] /\ line' \in [Threads -> Nat]
        /\ printed' \in [Threads -> 0 .. PIECES]
    BY MaxTimeAssumption, PiecesAssumption DEF Crash
  <2>7. cut' \subseteq Nat
    BY DEF IInv, TypeOK, Crash
  <2> QED
    BY <2>1, <2>2, <2>3, <2>4, <2>5, <2>6, <2>7 DEF IInv, TypeOK, Crash, setup
<1>3. Past'
  BY MaxTimeAssumption DEF IInv, Past, TypeOK, Crash
<1>4. Excluded' /\ Buffered' /\ Ended' /\ Rotated' /\ Newest'
  BY DEF Crash, Excluded, Inside, Buffered, Ended, Rotated, Newest
<1>5. Written'
  <2>1. \A n \in Names : \A x \in Pieces : Current(n, x) => x.line \in cut'
    BY DEF Current, Piece, Crash
  <2> QED
    BY <2>1, KeptFiles DEF IInv, Crash, setup
<1> QED
  BY <1>2, <1>3, <1>4, <1>5 DEF IInv

-----------------------------------------------------------------------------
\* What a rotation does: it finds the buffer empty, and opens the file of
\* another period or goes on with the one there is.
LEMMA RotateEffect ==
    ASSUME IInv, NEW t \in Threads, Rotate(t)
    PROVE  /\ buffer = <<>> /\ buffer' = <<>>
           /\ \A u \in Threads : u # t => ~ Inside(u)
           /\ p[t] \in 0 .. MaxTime
           /\ Logday(p[t]) \in 0 .. g_logroll - 1 /\ Logday(p[t]) \in Names
           /\ files' \in [Names -> Seq(Pieces)]
           /\ MustRotate(t) => files' = Open(files, Logday(p[t]))
           /\ ~ MustRotate(t) => files' = files
           /\ \A n \in Names : files'[n] = files[n] \/ files'[n] = <<>>
<1>1. \A u \in Threads : u # t => ~ Inside(u)
  BY DEF IInv, Excluded, Inside, Rotate
<1>2. buffer = <<>>
  BY <1>1 DEF IInv, Buffered, Inside, Rotate
<1>3. p[t] \in 0 .. MaxTime /\ Logday(p[t]) \in 0 .. g_logroll - 1 /\ Logday(p[t]) \in Names
  <2>1. p[t] \in 0 .. MaxTime /\ p[t] \in Nat
    BY DEF IInv, TypeOK
  <2> QED
    BY <2>1, LogdayName DEF IInv
<1>4. CASE MustRotate(t)
  <2>1. g_logfile \in Names /\ files \in [Names -> Seq(Pieces)]
    BY <1>4, OpenName DEF IInv, TypeOK, MustRotate
  <2>2. files[g_logfile] \o <<>> = files[g_logfile]
    BY <2>1, ConcatEmptySeq
  <2>3. [files EXCEPT ![g_logfile] = files[g_logfile] \o buffer] = files
    BY <1>2, <2>1, <2>2
  <2>4. files' = Open(files, Logday(p[t])) /\ buffer' = <<>>
    BY <1>4, <2>3 DEF Rotate
  <2> QED
    BY <1>1, <1>2, <1>3, <1>4, <2>4, OpenKeeps DEF IInv
<1>5. CASE ~ MustRotate(t)
  BY <1>1, <1>2, <1>3, <1>5 DEF IInv, TypeOK, Rotate
<1> QED
  BY <1>4, <1>5

\* Whether it rotated or not, the open file is that of the thread's period.
LEMMA RotateStep == ASSUME IInv, NEW t \in Threads, Rotate(t) PROVE IInv'
<1>1. /\ buffer = <<>> /\ buffer' = <<>>
      /\ \A u \in Threads : u # t => ~ Inside(u)
      /\ p[t] \in 0 .. MaxTime
      /\ Logday(p[t]) \in 0 .. g_logroll - 1
      /\ files' \in [Names -> Seq(Pieces)]
      /\ \A n \in Names : files'[n] = files[n] \/ files'[n] = <<>>
  BY RotateEffect
<1>2. TypeOK'
  <2>1. newest' \in 0 .. MaxTime /\ turned_back' \in BOOLEAN
    BY <1>1 DEF IInv, TypeOK, Rotate
  <2>2. g_logday' \in 0 .. g_logroll - 1 /\ g_logfile' \in {Stderr, g_logday'}
    BY <1>1 DEF IInv, TypeOK, Rotate
  <2> QED
    BY <1>1, <2>1, <2>2 DEF IInv, TypeOK, Rotate, setup
<1>3. newest' \in Nat /\ newest <= newest' /\ p[t] <= newest' /\ newest' <= now
  BY <1>1 DEF IInv, TypeOK, Past, Rotate
<1>4. Past'
  <2>1. ASSUME NEW n \in Names, NEW i \in DOMAIN files'[n]
        PROVE  /\ files'[n][i].time <= now
               /\ g_logfile # Stderr => files'[n][i].time <= newest'
    <3>1. files'[n] = files[n] /\ i \in DOMAIN files[n]
      BY <1>1, <2>1
    <3>2. files[n][i].time \in Nat
      BY <3>1, PieceOfFile DEF IInv
    <3> QED
      BY <1>3, <3>1, <3>2 DEF IInv, Past, TypeOK
  <2>2. g_logfile' # Stderr => g_logfile # Stderr
    BY DEF Rotate, MustRotate
  <2> QED
    BY <1>3, <2>1, <2>2 DEF IInv, Past, Rotate
<1>5. Excluded' /\ Buffered' /\ Ended'
  <2>1. \A u \in Threads : printed'[u] = 0
    BY <1>1 DEF IInv, Buffered, Inside, Rotate
  <2>2. Len(buffer') = 0 /\ \A u \in Threads : Out(u)' = 0
    BY <1>1, <2>1 DEF Out
  <2> QED
    BY <1>1, <2>1, <2>2 DEF IInv, TypeOK, Rotate, Excluded, Inside, Buffered, Ended
<1>6. Rotated'
  <2>1. g_logfile' # Stderr => Logday(p[t]) = g_logfile'
    BY DEF IInv, TypeOK, Rotate, MustRotate
  <2> QED
    BY <1>1, <1>3, <2>1 DEF IInv, TypeOK, Rotate, setup, Rotated, Inside, Logday
<1>7. Newest'
  <2>1. CASE MustRotate(t) /\ ~ turned_back'
    <3>1. ~ (p[t] < newest) /\ g_logday' = Logday(p[t])
      BY <2>1 DEF Rotate
    <3>2. newest' = p[t]
      BY <1>1, <3>1 DEF IInv, TypeOK, Rotate
    <3> QED
      BY <3>1, <3>2 DEF Newest, Rotate, setup, Logday
  <2>2. CASE ~ MustRotate(t)
    <3>1. UNCHANGED <<g_logday, g_logfile, turned_back, g_logroll>>
      BY <2>2 DEF Rotate, setup
    <3>2. g_logfile # Stderr => Logday(p[t]) = g_logday
      BY <2>2 DEF MustRotate
    <3> QED
      BY <3>1, <3>2 DEF IInv, Newest, Rotate, Logday
  <2> QED
    BY <2>1, <2>2 DEF Newest
<1>8. Written'
  <2>1. \A n \in Names : \A x \in Pieces : ~ Current(n, x)
    BY <1>1 DEF Current, Inside, Rotate
  <2> QED
    BY <1>1, <2>1, KeptFiles DEF IInv, Rotate, setup
<1> QED
  BY <1>2, <1>4, <1>5, <1>6, <1>7, <1>8 DEF IInv

-----------------------------------------------------------------------------
\* A write takes the first piece of the buffer, the one after the last that is
\* out, to the file of the thread's period.
LEMMA WriteEffect ==
    ASSUME IInv, NEW t \in Threads, Write(t)
    PROVE  /\ \A u \in Threads : u # t => ~ Inside(u)
           /\ Len(buffer) \in Nat /\ Len(buffer) > 0 /\ Len(buffer) <= printed[t]
           /\ printed[t] \in Nat /\ Out(t) \in Nat /\ Piece(t, Out(t) + 1) \in Pieces
           /\ Head(buffer) = Piece(t, Out(t) + 1)
           /\ g_logfile = Stderr => files' = files
           /\ g_logfile # Stderr =>
                 /\ g_logfile \in Names /\ Logday(p[t]) = g_logfile /\ p[t] <= newest
                 /\ files' = [files EXCEPT ![g_logfile] = Append(@, Piece(t, Out(t) + 1))]
<1>1. \A u \in Threads : u # t => ~ Inside(u)
  BY DEF IInv, Excluded, Inside, Write
<1>2. buffer \in Seq(Pieces) /\ Len(buffer) \in Nat /\ Len(buffer) > 0
  BY LenProperties, EmptySeq DEF IInv, TypeOK, Write
<1>3. printed[t] \in Nat /\ Len(buffer) <= printed[t] /\ printed[t] <= PIECES
  BY PiecesAssumption DEF IInv, TypeOK, Buffered, Write
<1>4. Out(t) \in Nat /\ Out(t) + 1 \in 1 .. PIECES
  BY <1>2, <1>3, PiecesAssumption DEF Out
<1>5. Piece(t, Out(t) + 1) \in Pieces
  BY <1>4 DEF IInv, TypeOK, Piece, Pieces
<1>6. Head(buffer) = Piece(t, Out(t) + 1)
  <2>1. Head(buffer) = buffer[1]
    BY <1>2, HeadTailProperties
  <2>2. 1 \in 1 .. Len(buffer)
    BY <1>2
  <2> QED
    BY <2>1, <2>2 DEF IInv, Buffered, Write
<1>7. CASE g_logfile = Stderr
  BY <1>1, <1>2, <1>3, <1>4, <1>5, <1>6, <1>7 DEF Write
<1>8. CASE g_logfile # Stderr
  <2>1. g_logfile \in Names
    BY <1>8, OpenName DEF IInv
  <2>2. Logday(p[t]) = g_logfile /\ p[t] <= newest
    BY <1>8 DEF IInv, Rotated, Write
  <2>3. files' = [files EXCEPT ![g_logfile] = Append(@, Piece(t, Out(t) + 1))]
    BY <1>6, <1>8 DEF Write
  <2> QED
    BY <1>1, <1>2, <1>3, <1>4, <1>5, <1>6, <1>8, <2>1, <2>2, <2>3
<1> QED
  BY <1>7, <1>8

\* What it leaves in each file.
LEMMA WrittenFiles ==
    ASSUME IInv, NEW t \in Threads, Write(t), NEW n \in Names
    PROVE  /\ files'[n] \in Seq(Pieces)
           /\ Len(files'[n]) >= Len(files[n])
           /\ \A i \in DOMAIN files[n] : files'[n][i] = files[n][i]
           /\ \/ files'[n] = files[n] /\ (g_logfile = Stderr \/ n # g_logfile)
              \/ /\ n = g_logfile /\ g_logfile # Stderr
                 /\ Len(files'[n]) = Len(files[n]) + 1
                 /\ files'[n][Len(files[n]) + 1] = Piece(t, Out(t) + 1)
<1>1. files \in [Names -> Seq(Pieces)] /\ files[n] \in Seq(Pieces)
  BY DEF IInv, TypeOK
<1>2. CASE g_logfile = Stderr \/ n # g_logfile
  <2>1. files'[n] = files[n]
    BY <1>1, <1>2, WriteEffect
  <2> QED
    BY <1>1, <1>2, <2>1, LenProperties
<1>3. CASE g_logfile # Stderr /\ n = g_logfile
  <2>1. files'[n] = Append(files[n], Piece(t, Out(t) + 1)) /\ Piece(t, Out(t) + 1) \in Pieces
    BY <1>1, <1>3, WriteEffect
  <2> HIDE DEF Piece
  <2> QED
    BY <1>1, <1>3, <2>1, AppendProperties, LenProperties
<1> QED
  BY <1>2, <1>3

\* The last piece that is out after a write.
LEMMA OutAfter ==
    ASSUME IInv, NEW t \in Threads, Write(t)
    PROVE  /\ buffer' \in Seq(Pieces) /\ Len(buffer') = Len(buffer) - 1
           /\ \A i \in 1 .. Len(buffer') : buffer'[i] = buffer[i + 1]
           /\ Out(t)' = Out(t) + 1
           /\ \A k : Piece(t, k)' = Piece(t, k)
<1>1. buffer \in Seq(Pieces) /\ buffer # <<>> /\ buffer' = Tail(buffer)
  BY DEF IInv, TypeOK, Write
<1>2. /\ buffer' \in Seq(Pieces) /\ Len(buffer') = Len(buffer) - 1
      /\ \A i \in 1 .. Len(buffer') : buffer'[i] = buffer[i + 1]
  BY <1>1, HeadTailProperties
<1>3. Len(buffer) \in Nat /\ printed[t] \in Nat
  BY WriteEffect
<1>4. Out(t)' = Out(t) + 1
  BY <1>2, <1>3 DEF Out, Write, locals
<1>5. \A k : Piece(t, k)' = Piece(t, k)
  BY DEF Piece, Write, locals
<1> QED
  BY <1>2, <1>4, <1>5

\* The piece that comes to the file follows the one before it, and is the last
\* of the line so far.
LEMMA WriteKeepsOrder == ASSUME IInv, NEW t \in Threads, Write(t) PROVE Written'
<1> DEFINE new == Piece(t, Out(t) + 1)
<1>1. SUFFICES ASSUME NEW n \in Names, NEW i \in DOMAIN files'[n]
               PROVE  /\ files'[n][i].time % g_logroll = n
                      /\ Continues(files'[n], i)
                      /\ Finished(n, i)'
  BY DEF Written, Logday, Continues, Write, setup
<1>2. files[n] \in Seq(Pieces) /\ DOMAIN files[n] = 1 .. Len(files[n]) /\ Len(files[n]) \in Nat
  BY LenProperties DEF IInv, TypeOK
<1>3. \A u \in Threads : pc[u] = "print" <=> u = t
  BY WriteEffect DEF Inside, Write
<1>4. UNCHANGED <<g_logfile, pc, cut>>
  BY DEF Write, locals
<1>5. /\ files'[n][i] = new /\ n = g_logfile => Current(n, files[n][i])'
  BY <1>3, <1>4, OutAfter DEF Current
<1>6. Current(n, files[n][i]) <=> n = g_logfile /\ files[n][i] = Piece(t, Out(t))
  BY <1>3 DEF Current
<1>7. CASE files'[n] = files[n] /\ (g_logfile = Stderr \/ n # g_logfile)
  <2>1. n # g_logfile
    <3>1. \A k \in Names : k \in Nat
      BY RollsAssumption DEF Names
    <3> QED
      BY <1>7, <3>1, StderrAssumption
  <2> QED
    BY <1>4, <1>6, <1>7, <2>1 DEF IInv, Written, Logday, Finished
<1>8. CASE /\ n = g_logfile /\ g_logfile # Stderr
           /\ Len(files'[n]) = Len(files[n]) + 1
           /\ files'[n][Len(files[n]) + 1] = Piece(t, Out(t) + 1)
  <2>1. /\ \A k \in DOMAIN files[n] : files'[n][k] = files[n][k]
        /\ DOMAIN files'[n] = 1 .. Len(files[n]) + 1
    BY <1>2, <1>8, WrittenFiles, LenProperties
  <2>2. /\ Out(t) \in Nat /\ Logday(p[t]) = n /\ new \in Pieces /\ new.time = p[t]
        /\ new.piece = Out(t) + 1
    BY <1>8, WriteEffect DEF Piece
  <2>3. Out(t) > 0 => Len(files[n]) > 0 /\ files[n][Len(files[n])] = Piece(t, Out(t))
    BY <1>3, <1>8 DEF IInv, Ended
  <2>4. NextPiece(Piece(t, Out(t))) = new
    BY <2>2, PieceAfter
  <2> HIDE DEF new
  <2>5. CASE i = Len(files[n]) + 1
    <3>1. files'[n][i] = new
      BY <1>8, <2>5 DEF new
    <3>2. Continues(files'[n], i)
      <4>1. CASE Out(t) > 0
        <5>1. files'[n][i - 1] = Piece(t, Out(t)) /\ i > 1
          BY <1>2, <2>1, <2>3, <2>5, <4>1
        <5> QED
          BY <2>4, <3>1, <5>1 DEF Continues
      <4>2. CASE ~ Out(t) > 0
        BY <2>2, <3>1, <4>2 DEF Continues
      <4> QED
        BY <4>1, <4>2
    <3>3. Finished(n, i)'
      <4>1. i = Len(files'[n]) /\ Current(n, files[n][i])'
        BY <1>5, <1>8, <2>5, <3>1
      <4> QED
        BY <4>1 DEF Finished
    <3>4. files'[n][i].time % g_logroll = n
      BY <2>2, <3>1 DEF Logday
    <3> QED
      BY <3>2, <3>3, <3>4
  <2>6. CASE i \in DOMAIN files[n]
    <3>1. /\ files'[n][i] = files[n][i] /\ i \in Nat /\ i < Len(files'[n])
          /\ i > 1 => files'[n][i - 1] = files[n][i - 1]
          /\ i < Len(files[n]) => files'[n][i + 1] = files[n][i + 1]
      <4>1. PICK l \in Nat : l = Len(files[n])
        BY <1>2
      <4>2. i \in 1 .. l /\ DOMAIN files[n] = 1 .. l /\ Len(files'[n]) = l + 1
        BY <1>2, <1>8, <2>6, <4>1
      <4>3. i \in Nat /\ i < l + 1 /\ (i > 1 => i - 1 \in 1 .. l) /\ (i < l => i + 1 \in 1 .. l)
        BY <4>2
      <4> QED
        BY <2>1, <4>1, <4>2, <4>3
    <3>2. /\ Logday(files[n][i].time) = n /\ Continues(files[n], i)
          /\ Finished(n, i)
      BY <2>6 DEF IInv, Written
    <3>3. Continues(files'[n], i) /\ files'[n][i].time % g_logroll = n
      BY <3>1, <3>2 DEF Continues, Logday
    <3>4. CASE i = Len(files[n]) /\ Current(n, files[n][i])
      <4>1. files[n][i] = Piece(t, Out(t)) /\ files'[n][i + 1] = new
        BY <1>6, <1>8, <3>4 DEF new
      <4> QED
        BY <2>4, <3>1, <3>3, <4>1 DEF Finished
    <3>5. CASE ~ (i = Len(files[n]) /\ Current(n, files[n][i]))
      BY <1>4, <3>1, <3>2, <3>3, <3>5 DEF Finished
    <3> QED
      BY <3>4, <3>5
  <2> QED
    BY <1>2, <2>1, <2>5, <2>6
<1> QED
  BY <1>7, <1>8, WrittenFiles

\* The stream writes.
LEMMA WriteStep == ASSUME IInv, NEW t \in Threads, Write(t) PROVE IInv'
<1>1. \A u \in Threads : u # t => ~ Inside(u)
  BY WriteEffect
<1>2. files' \in [Names -> Seq(Pieces)]
  <2>1. files \in [Names -> Seq(Pieces)]
    BY DEF IInv, TypeOK
  <2>2. files' = [n \in Names |-> files'[n]]
    BY <2>1 DEF Write
  <2> QED
    BY <2>2, WrittenFiles
<1>3. TypeOK'
  BY <1>2, OutAfter DEF IInv, TypeOK, Write, setup, locals
<1>4. Excluded' /\ Rotated'
  BY DEF IInv, Write, setup, locals, Excluded, Inside, Rotated, Logday
<1>5. pc[t] = "print" /\ UNCHANGED <<pc, printed>> /\ \A u \in Threads : pc[u] = "print" <=> u = t
  BY <1>1 DEF Inside, Write, locals
<1>6. Buffered'
  <2>1. /\ Len(buffer) \in Nat /\ Len(buffer) <= printed[t] /\ Out(t) \in Nat /\ printed[t] \in Nat
        /\ \A i \in 1 .. Len(buffer) : buffer[i] = Piece(t, Out(t) + i)
    BY <1>5, WriteEffect DEF IInv, Buffered
  <2>2. /\ Len(buffer') = Len(buffer) - 1
        /\ \A i \in 1 .. Len(buffer') : buffer'[i] = buffer[i + 1]
        /\ Out(t)' = Out(t) + 1 /\ \A k : Piece(t, k)' = Piece(t, k)
    BY OutAfter
  <2>3. ASSUME NEW i \in 1 .. Len(buffer') PROVE buffer'[i] = Piece(t, (Out(t) + 1) + i)
    <3>1. i + 1 \in 1 .. Len(buffer) /\ Out(t) + (i + 1) = (Out(t) + 1) + i
      BY <2>1, <2>2
    <3> QED
      BY <2>1, <2>2, <3>1
  <2>4. Len(buffer') <= printed'[t] /\ \A u \in Threads : u # t => printed'[u] = 0
    BY <1>5, <2>1, <2>2 DEF IInv, Buffered
  <2> QED
    BY <1>5, <2>2, <2>3, <2>4 DEF Buffered
<1>7. Ended'
  <2>1. UNCHANGED g_logfile
    BY DEF Write
  <2>2. CASE g_logfile # Stderr
    <3>1. g_logfile \in Names
      BY <2>2, WriteEffect
    <3>2. /\ Len(files'[g_logfile]) = Len(files[g_logfile]) + 1
          /\ files'[g_logfile][Len(files[g_logfile]) + 1] = Piece(t, Out(t) + 1)
          /\ Len(files[g_logfile]) \in Nat
      BY <2>2, <3>1, WrittenFiles, LenProperties DEF IInv, TypeOK
    <3>3. Len(files'[g_logfile]) > 0
      BY <3>2
    <3> QED
      BY <1>5, <2>1, <3>2, <3>3, OutAfter DEF Ended
  <2> QED
    BY <2>1, <2>2 DEF Ended
<1>8. Past' /\ Newest'
  <2>1. UNCHANGED <<now, newest, p, g_logfile, g_logday, g_logroll, turned_back>>
    BY DEF Write, setup, locals
  <2>2. ASSUME NEW n \in Names, NEW i \in DOMAIN files'[n]
        PROVE  files'[n][i].time <= now /\ (g_logfile # Stderr => files'[n][i].time <= newest)
    <3>1. CASE i \in DOMAIN files[n]
      BY <3>1, WrittenFiles DEF IInv, Past
    <3>2. CASE i \notin DOMAIN files[n]
      <4>1. files'[n][i] = Piece(t, Out(t) + 1) /\ g_logfile # Stderr
        <5>1. /\ DOMAIN files[n] = 1 .. Len(files[n]) /\ DOMAIN files'[n] = 1 .. Len(files'[n])
              /\ Len(files[n]) \in Nat
          BY WrittenFiles, LenProperties DEF IInv, TypeOK
        <5> QED
          BY <3>2, <5>1, WrittenFiles
      <4>2. p[t] <= newest /\ p[t] <= now
        BY <4>1, WriteEffect DEF IInv, Past
      <4> QED
        BY <4>1, <4>2 DEF Piece
    <3> QED
      BY <3>1, <3>2
  <2> QED
    BY <2>1, <2>2 DEF IInv, Past, Newest, Logday
<1>9. Written'
  BY WriteKeepsOrder
<1> QED
  BY <1>3, <1>4, <1>6, <1>7, <1>8, <1>9 DEF IInv

\* The thread inside leaves: all of its line is out.
LEMMA UnlockStep == ASSUME IInv, NEW t \in Threads, Unlock(t) PROVE IInv'
<1>1. \A u \in Threads : u # t => ~ Inside(u)
  BY DEF IInv, Excluded, Inside, Unlock
<1>2. TypeOK'
  BY MaxTimeAssumption, PiecesAssumption DEF IInv, TypeOK, Unlock, setup
<1>3. buffer = <<>> /\ UNCHANGED buffer /\ \A u \in Threads : pc'[u] # "print" /\ printed'[u] = 0
  BY <1>1 DEF IInv, TypeOK, Inside, Buffered, Unlock
<1>4. Excluded' /\ Buffered' /\ Ended' /\ Rotated'
  BY <1>1, <1>3 DEF IInv, TypeOK, Unlock, Excluded, Inside, Buffered, Ended, Rotated
<1>5. Past' /\ Newest'
  BY MaxTimeAssumption DEF IInv, TypeOK, Past, Newest, Unlock, setup, Logday
<1>6. Written'
  <2>1. Out(t) = PIECES /\ \A u \in Threads : pc[u] = "print" <=> u = t
    BY <1>1, <1>3, PiecesAssumption DEF Out, Inside, Unlock
  <2>2. \A n \in Names : \A x \in Pieces : Current(n, x) => x.piece = PIECES
    BY <2>1 DEF Current, Piece
  <2>3. \A x \in Pieces : ~ (x.piece = PIECES /\ x.piece < PIECES)
    BY PiecesAssumption
  <2> QED
    BY <2>2, <2>3, KeptFiles DEF IInv, Unlock, setup
<1> QED
  BY <1>2, <1>4, <1>5, <1>6 DEF IInv

\* The invariant holds in every state that can be reached.
THEOREM InvariantHolds == Spec => []IInv
<1>1. IInv /\ [Next]_vars => IInv'
  <2> SUFFICES ASSUME IInv, [Next]_vars PROVE IInv'
    OBVIOUS
  <2>1. CASE UNCHANGED vars
    <3>1. TypeOK'
      BY <2>1 DEF IInv, TypeOK, vars, setup, locals
    <3>2. Written'
      BY <2>1, <3>1, SameCurrent, KeptFiles DEF IInv, vars, setup, locals
    <3> QED
      BY <2>1, <3>1, <3>2 DEF IInv, Excluded, Inside, Buffered, Ended, Piece, Out, Rotated, Past,
                              Newest, Logday, vars, setup, locals
  <2>2. CASE Tick
    BY <2>2, TickStep
  <2>3. CASE log_init
    BY <2>3, FirstOpen
  <2>4. CASE Crash
    BY <2>4, CrashStep
  <2>5. ASSUME NEW t \in Threads, TakeTime(t) \/ Lock(t) PROVE IInv'
    BY <2>5, EnterStep
  <2>6. ASSUME NEW t \in Threads, Rotate(t) PROVE IInv'
    BY <2>6, RotateStep
  <2>7. ASSUME NEW t \in Threads, fprintf(t) PROVE IInv'
    BY <2>7, PrintStep
  <2>8. ASSUME NEW t \in Threads, Write(t) PROVE IInv'
    BY <2>8, WriteStep
  <2>9. ASSUME NEW t \in Threads, Unlock(t) PROVE IInv'
    BY <2>9, UnlockStep
  <2> QED
    BY <2>1, <2>2, <2>3, <2>4, <2>5, <2>6, <2>7, <2>8, <2>9 DEF Next, Call
<1> QED
  BY <1>1, InvInit, PTL DEF Spec

-----------------------------------------------------------------------------
\* Every variable keeps its type: the open file is that of the number log()
\* remembers, and the number is one a file can have.
THEOREM TypeCorrect == Spec => []TypeOK
<1>1. IInv => TypeOK
  BY DEF IInv
<1> QED
  BY <1>1, InvariantHolds, PTL

\* The lines stay apart, however many threads log, rotate and wait, and only
\* the death of the process in the middle of one leaves it half written
\* (log.cpp:107-169).
THEOREM WholeLines == Spec => []LinesWhole
<1>1. IInv => LinesWhole
  <2> SUFFICES ASSUME IInv, NEW name \in Names, NEW i \in DOMAIN files[name]
               PROVE  /\ Continues(files[name], i)
                      /\ files[name][i].piece < PIECES =>
                            \/ i < Len(files[name]) /\ files[name][i + 1] = NextPiece(files[name][i])
                            \/ files[name][i].line \in cut
                            \/ /\ i = Len(files[name])
                               /\ \E t \in Threads : pc[t] = "print" /\ files[name][i].line = line[t]
    BY DEF LinesWhole, Continues
  <2>1. Current(name, files[name][i]) =>
          \E t \in Threads : pc[t] = "print" /\ files[name][i].line = line[t]
    BY DEF Current, Piece
  <2> QED
    BY <2>1 DEF IInv, Written, Finished
<1> QED
  BY <1>1, InvariantHolds, PTL

\* No line is in the file of another period, for any delay between a thread's
\* look at the clock and its lock (log.cpp:125-138).
THEOREM LinesInTheirFiles == Spec => []LineInItsFile
<1>1. IInv => LineInItsFile
  BY DEF IInv, Written, LineInItsFile
<1> QED
  BY <1>1, InvariantHolds, PTL

\* Opening a file is all that can take lines out of it, and only without
\* append.
LEMMA StepKeepsLines ==
    ASSUME IInv, [Next]_vars,
           NEW name \in Names, g_logappend \/ files'[name] = files[name]
                                 \/ \E t \in Threads : Write(t)
    PROVE  Lost(name) = {}
<1>1. ASSUME \A j \in DOMAIN files[name] :
                j <= Len(files'[name]) /\ files'[name][j] = files[name][j],
             files'[name] \in Seq(Pieces)
      PROVE  Lost(name) = {}
  <2>1. Len(files'[name]) \in Nat
    BY <1>1, LenProperties
  <2>2. \A j \in DOMAIN files[name] : j \in Int
    BY LenProperties DEF IInv, TypeOK
  <2> QED
    BY <1>1, <2>1, <2>2 DEF Lost
<1>2. files[name] \in Seq(Pieces) /\ DOMAIN files[name] = 1 .. Len(files[name])
                                 /\ Len(files[name]) \in Nat
  BY LenProperties DEF IInv, TypeOK
<1>3. CASE files'[name] = files[name]
  BY <1>1, <1>2, <1>3
<1>4. ASSUME NEW t \in Threads, Write(t) PROVE Lost(name) = {}
  <2>1. /\ files'[name] \in Seq(Pieces) /\ Len(files'[name]) >= Len(files[name])
        /\ \A i \in DOMAIN files[name] : files'[name][i] = files[name][i]
    BY <1>4, WrittenFiles
  <2>2. Len(files'[name]) \in Nat
    BY <2>1, LenProperties
  <2> QED
    BY <1>1, <1>2, <2>1, <2>2
<1>5. CASE g_logappend /\ ~ \E t \in Threads : Write(t)
  <2>1. CASE log_init
    <3>1. now \in Nat
      BY MaxTimeAssumption DEF IInv, TypeOK
    <3>2. files'[name] = files[name]
      BY <1>5, <2>1, <3>1, LogdayName, OpenKeeps DEF IInv, log_init
    <3> QED
      BY <1>3, <3>2
  <2>2. ASSUME NEW t \in Threads, Rotate(t) PROVE Lost(name) = {}
    <3>1. \/ files' = files
          \/ files' = Open(files, Logday(p[t])) /\ Logday(p[t]) \in Names
      BY <2>2, RotateEffect
    <3>2. files'[name] = files[name]
      BY <1>5, <3>1, OpenKeeps DEF IInv
    <3> QED
      BY <1>3, <3>2
  <2>3. CASE UNCHANGED files
    BY <1>3, <2>3
  <2> QED
    BY <1>5, <2>1, <2>2, <2>3
       DEF Next, Call, Tick, Crash, TakeTime, Lock, fprintf, Unlock, vars
<1> QED
  BY <1>3, <1>4, <1>5

\* With append, nothing that was written is ever lost.
THEOREM AppendKeeps == Spec => AppendKeepsLines
<1>1. IInv /\ [Next]_vars => [g_logappend => \A name \in Names : Lost(name) = {}]_vars
  BY StepKeepsLines
<1> QED
  BY <1>1, InvariantHolds, PTL DEF Spec, AppendKeepsLines

\* Without it, a line is lost to a thread that turned the file back, or a
\* whole roll of names later.
THEOREM LossOnlyByLateThread == Spec => LossNeedsLateThread
<1>1. ASSUME IInv, [Next]_vars, g_logfile # Stderr, ~ turned_back',
             NEW name \in Names, NEW x \in Lost(name)
      PROVE  x.time + g_logroll <= newest'
  <2>1. files'[name] # files[name] /\ ~ \E t \in Threads : Write(t)
    BY <1>1, StepKeepsLines
  <2>2. PICK t \in Threads : Rotate(t)
    BY <1>1, <2>1 DEF Next, Call, Tick, log_init, Crash, TakeTime, Lock, fprintf, Unlock,
                      vars
  <2>3. PICK i \in DOMAIN files[name] : x = files[name][i]
    BY <1>1 DEF Lost
  <2>4. x.time \in Nat /\ x.time <= newest /\ x.time % g_logroll = name
    BY <1>1, <2>3, PieceOfFile DEF IInv, Past, Written, Logday
  <2>5. /\ MustRotate(t) /\ files' = Open(files, Logday(p[t]))
        /\ p[t] \in Nat /\ Logday(p[t]) \in Names
    BY <1>1, <2>1, <2>2, RotateEffect
  <2>6. name = Logday(p[t])
    BY <1>1, <2>1, <2>5, OpenKeeps DEF IInv
  <2>7. ~ (p[t] < newest) /\ g_logday = Logday(newest) /\ Logday(p[t]) # g_logday
    BY <1>1, <2>2, <2>5 DEF IInv, Newest, Rotate, MustRotate
  <2>8. newest \in Nat /\ newest < p[t] /\ newest' = p[t]
    BY <1>1, <2>2, <2>5, <2>7 DEF IInv, TypeOK, Rotate
  <2>9. x.time < p[t] /\ x.time % g_logroll = p[t] % g_logroll
    BY <2>4, <2>5, <2>6, <2>8 DEF Logday
  <2>10. g_logroll \in Nat /\ g_logroll > 0
    BY <1>1, RollsAssumption DEF IInv, TypeOK
  <2> QED
    BY <2>4, <2>5, <2>8, <2>9, <2>10, SameName
<1>2. IInv /\ [Next]_vars =>
        [g_logfile # Stderr /\ ~ turned_back' =>
           \A name \in Names : \A x \in Lost(name) : x.time + g_logroll <= newest']_vars
  BY <1>1
<1> QED
  BY <1>2, InvariantHolds, PTL DEF Spec, LossNeedsLateThread
=============================================================================
