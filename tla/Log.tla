-------------------------------- MODULE Log ---------------------------------
(***************************************************************************)
(* The log (log.cpp): threads that write lines to one file per period, a   *)
(* day or an hour.  A call takes the time, then the lock, and changes the  *)
(* file when the period of its time is not that of the open file: threads  *)
(* that wait for the lock come with old times.  The process may die at any *)
(* point, also at the assertion behind a fopen that fails.                 *)
(*                                                                         *)
(* A line is printed in pieces.  They stay in the stream's buffer until    *)
(* fflush, or until the buffer is full: stdio may write the first of them  *)
(* at any time before.  The level only chooses whether a call writes.      *)
(***************************************************************************)
EXTENDS Integers, Sequences

CONSTANTS
    Threads,
    Rolls,      \* after how many periods a file name comes again: LOG_WEEK_DAY
                \* after 7 days, LOG_YEAR_DAY never
    MaxTime,    \* a bound on the clock
    MaxLines,   \* a bound on the calls that write
    PIECES,     \* the pieces of a line, which no write divides
    NoThread, Stderr

ASSUME RollsAssumption == Rolls \subseteq Nat \ {0}
ASSUME MaxTimeAssumption == MaxTime \in Nat
ASSUME PiecesAssumption == PIECES \in Nat \ {0}
ASSUME NoThreadAssumption == NoThread \notin Threads
ASSUME StderrAssumption == Stderr \notin Nat

VARIABLES
    now,            \* the period time() is in
    g_logroll, g_logappend,
    g_logday,       \* the name of the period the file is for
    g_logfile,      \* Stderr, or the name of the open file
    buffer,         \* what was printed to it and is not written
    files,          \* what the files hold
    g_log_mutex,    \* the thread that holds it
    pc, p,          \* per thread: the step of log(), the time it took,
    line, printed,  \* the number of its line, and how much of it is printed
    lines,          \* how many calls wrote
    newest,         \* history: the latest period this process used
    turned_back,    \* history: it went back to the file of an earlier one
    cut             \* history: the lines during which the process died

locals == <<pc, p, line, printed>>
setup  == <<g_logroll, g_logappend>>
vars == <<now, setup, g_logday, g_logfile, buffer, files, g_log_mutex, locals,
          lines, newest, turned_back, cut>>

Names == UNION {0 .. roll - 1 : roll \in Rolls}
Pieces == [line : Nat, time : 0 .. MaxTime, piece : 1 .. PIECES]

\* The number in a file's name.  Mutant: counted from one.
LogdayFromOne(time) == (time % g_logroll) + 1

Logday(time) == time % g_logroll

\* fopen(name, append ? "a" : "w") on what the files held.  Mutant: always "w".
OpenTruncating(held, name) == [held EXCEPT ![name] = <<>>]

Open(held, name) == [held EXCEPT ![name] = IF g_logappend THEN @ ELSE <<>>]

Init ==
    /\ now = 0
    /\ g_logroll \in Rolls /\ g_logappend \in BOOLEAN
    /\ g_logday = 0 /\ g_logfile = Stderr
    /\ buffer = <<>> /\ files = [name \in Names |-> <<>>]
    /\ g_log_mutex = NoThread
    /\ pc = [t \in Threads |-> "idle"] /\ p = [t \in Threads |-> 0]
    /\ line = [t \in Threads |-> 0] /\ printed = [t \in Threads |-> 0]
    /\ lines = 0 /\ newest = 0 /\ turned_back = FALSE /\ cut = {}

Tick ==
    /\ now < MaxTime
    /\ now' = now + 1
    /\ UNCHANGED <<setup, g_logday, g_logfile, buffer, files, g_log_mutex, locals,
                   lines, newest, turned_back, cut>>

\* main calls it before the other threads log.
log_init ==
    /\ g_logfile = Stderr /\ \A t \in Threads : pc[t] = "idle"
    /\ g_logday' = Logday(now) /\ g_logfile' = Logday(now)
    /\ files' = Open(files, Logday(now))
    /\ newest' = now
    /\ UNCHANGED <<now, setup, buffer, g_log_mutex, locals, lines, turned_back, cut>>

\* log() returns at once for a level above g_loglevel; the other calls take the
\* time.
TakeTime(t) ==
    /\ pc[t] = "idle" /\ lines < MaxLines
    /\ p' = [p EXCEPT ![t] = now]
    /\ pc' = [pc EXCEPT ![t] = "lock"]
    /\ lines' = lines + 1
    /\ line' = [line EXCEPT ![t] = lines + 1]
    /\ UNCHANGED <<now, setup, g_logday, g_logfile, buffer, files, g_log_mutex,
                   printed, newest, turned_back, cut>>

\* Mutant: nobody waits.
LockUnguarded(t) ==
    /\ pc[t] = "lock"
    /\ g_log_mutex' = t
    /\ pc' = [pc EXCEPT ![t] = "rotate"]
    /\ UNCHANGED <<now, setup, g_logday, g_logfile, buffer, files, p, line, printed,
                   lines, newest, turned_back, cut>>

Lock(t) ==
    /\ pc[t] = "lock" /\ g_log_mutex = NoThread
    /\ g_log_mutex' = t
    /\ pc' = [pc EXCEPT ![t] = "rotate"]
    /\ UNCHANGED <<now, setup, g_logday, g_logfile, buffer, files, p, line, printed,
                   lines, newest, turned_back, cut>>

\* Another period than the file's: close it, open the one of this period.
\* Mutants: only for a later one; on every call.
MustRotateForward(t) == g_logfile # Stderr /\ Logday(p[t]) > g_logday

MustRotateAlways(t) == g_logfile # Stderr

MustRotate(t) == g_logfile # Stderr /\ Logday(p[t]) # g_logday

Rotate(t) ==
    /\ pc[t] = "rotate"
    /\ IF MustRotate(t)
       THEN /\ g_logday' = Logday(p[t]) /\ g_logfile' = Logday(p[t])
            /\ files' = Open([files EXCEPT ![g_logfile] = @ \o buffer], Logday(p[t]))
            /\ buffer' = <<>>
            /\ turned_back' = (turned_back \/ p[t] < newest)
       ELSE UNCHANGED <<g_logday, g_logfile, files, buffer, turned_back>>
    /\ newest' = IF p[t] > newest THEN p[t] ELSE newest
    /\ pc' = [pc EXCEPT ![t] = "print"]
    /\ UNCHANGED <<now, setup, g_log_mutex, p, line, printed, lines, cut>>

\* The fprintfs: the next piece of the line goes to the stream's buffer.
fprintf(t) ==
    /\ pc[t] = "print" /\ printed[t] < PIECES
    /\ printed' = [printed EXCEPT ![t] = @ + 1]
    /\ buffer' = Append(buffer, [line |-> line[t], time |-> p[t], piece |-> printed[t] + 1])
    /\ UNCHANGED <<now, setup, g_logday, g_logfile, files, g_log_mutex, pc, p, line,
                   lines, newest, turned_back, cut>>

\* stdio writes what it holds, in fflush and in an fprintf that fills the
\* buffer.
Write(t) ==
    /\ pc[t] = "print" /\ buffer # <<>>
    /\ files' = IF g_logfile = Stderr THEN files
                ELSE [files EXCEPT ![g_logfile] = Append(@, Head(buffer))]
    /\ buffer' = Tail(buffer)
    /\ UNCHANGED <<now, setup, g_logday, g_logfile, g_log_mutex, locals, lines,
                   newest, turned_back, cut>>

\* fflush has written all of the line.  Mutant: no unlock.
ReturnWithoutUnlock(t) ==
    /\ pc[t] = "print" /\ printed[t] = PIECES /\ buffer = <<>>
    /\ pc' = [pc EXCEPT ![t] = "idle"] /\ p' = [p EXCEPT ![t] = 0]
    /\ line' = [line EXCEPT ![t] = 0] /\ printed' = [printed EXCEPT ![t] = 0]
    /\ UNCHANGED <<now, setup, g_logday, g_logfile, buffer, files, g_log_mutex,
                   lines, newest, turned_back, cut>>

Unlock(t) ==
    /\ pc[t] = "print" /\ printed[t] = PIECES /\ buffer = <<>>
    /\ g_log_mutex' = NoThread
    /\ pc' = [pc EXCEPT ![t] = "idle"] /\ p' = [p EXCEPT ![t] = 0]
    /\ line' = [line EXCEPT ![t] = 0] /\ printed' = [printed EXCEPT ![t] = 0]
    /\ UNCHANGED <<now, setup, g_logday, g_logfile, buffer, files, lines,
                   newest, turned_back, cut>>

\* The process dies and starts again; what was not written is lost.
Crash ==
    /\ g_logfile # Stderr
    /\ g_logday' = 0 /\ g_logfile' = Stderr
    /\ buffer' = <<>> /\ g_log_mutex' = NoThread
    /\ pc' = [t \in Threads |-> "idle"] /\ p' = [t \in Threads |-> 0]
    /\ line' = [t \in Threads |-> 0] /\ printed' = [t \in Threads |-> 0]
    /\ newest' = 0 /\ turned_back' = FALSE
    /\ cut' = cut \union {line[t] : t \in {u \in Threads : pc[u] = "print"}}
    /\ UNCHANGED <<now, setup, files, lines>>

Call(t) == Lock(t) \/ Rotate(t) \/ fprintf(t) \/ Write(t) \/ Unlock(t)

Next ==
    \/ Tick \/ log_init \/ Crash
    \/ \E t \in Threads : TakeTime(t) \/ Call(t)

\* A thread inside log() is scheduled, and gets the lock when it is free: the
\* bound on lines is a bound on the threads that overtake it.
Spec == Init /\ [][Next]_vars /\ \A t \in Threads : WF_vars(Call(t))

-----------------------------------------------------------------------------
TypeOK ==
    /\ now \in 0 .. MaxTime
    /\ g_logroll \in Rolls /\ g_logappend \in BOOLEAN
    /\ g_logday \in 0 .. g_logroll - 1
    /\ g_logfile \in {Stderr, g_logday}
    /\ buffer \in Seq(Pieces) /\ files \in [Names -> Seq(Pieces)]
    /\ g_log_mutex \in Threads \union {NoThread}
    /\ pc \in [Threads -> {"idle", "lock", "rotate", "print"}]
    /\ p \in [Threads -> 0 .. MaxTime] /\ line \in [Threads -> Nat]
    /\ printed \in [Threads -> 0 .. PIECES]
    /\ lines \in Nat /\ newest \in 0 .. MaxTime /\ turned_back \in BOOLEAN
    /\ cut \subseteq Nat

NextPiece(x) == [x EXCEPT !.piece = @ + 1]

\* Lines are never mixed up: a piece follows the one before it in its line,
\* whoever waits, rotates or dies.  And none is left half written but the one
\* that is being printed, and one for each death of the process in the middle
\* of it (log.cpp:107-169).
LinesWhole ==
    \A name \in Names : \A i \in DOMAIN files[name] :
       LET f == files[name]
       IN  /\ f[i].piece > 1 => i > 1 /\ f[i] = NextPiece(f[i - 1])
           /\ f[i].piece < PIECES =>
                 \/ i < Len(f) /\ f[i + 1] = NextPiece(f[i])
                 \/ f[i].line \in cut
                 \/ i = Len(f) /\ \E t \in Threads : pc[t] = "print" /\ f[i].line = line[t]

\* A line is in the file of its own period, also the line of a thread that
\* waited while others went on to the next one (log.cpp:125-138).
LineInItsFile ==
    \A name \in Names : \A i \in DOMAIN files[name] :
       Logday(files[name][i].time) = name

\* What a step takes out of a file.
Lost(name) ==
    {files[name][i] : i \in {j \in DOMAIN files[name] :
       j > Len(files'[name]) \/ files'[name][j] # files[name][j]}}

\* With append nothing is lost that was written, in any order of rotations
\* and restarts (log.cpp:66, :135).
AppendKeepsLines == [][g_logappend => \A name \in Names : Lost(name) = {}]_vars

\* Without it, a running process empties the file of a period again only when
\* a thread came late to the lock and turned the file back, or when the name
\* comes again for a period a whole roll later (log.cpp:97, :125-135).
LossNeedsLateThread ==
    [][g_logfile # Stderr /\ ~ turned_back' =>
         \A name \in Names : \A x \in Lost(name) : x.time + g_logroll <= newest']_vars

\* A call that waits for the lock gets through: every path through log()
\* gives the lock back.
CallsReturn == \A t \in Threads : pc[t] = "lock" ~> pc[t] = "idle"
=============================================================================
