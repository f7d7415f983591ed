-------------------------- MODULE PublishedMatcher --------------------------
(***************************************************************************)
(* What a reader may count on: a matcher is published once, never changes, *)
(* and every question is answered from it in one piece, as if a single     *)
(* instant had computed the answer.                                        *)
(***************************************************************************)
CONSTANTS Readers, Queries, Answers, None

VARIABLES
    open,       \* the matcher is published
    book,       \* its answer to every question, nothing before that
    asked,      \* the question each reader has asked, or None
    answered,   \* whether it has been answered
    answer      \* the answer it has been given

vars == <<open, book, asked, answered, answer>>

Init ==
    /\ open = FALSE
    /\ book = [q \in Queries |-> {}]
    /\ asked = [r \in Readers |-> None]
    /\ answered = [r \in Readers |-> FALSE]
    /\ answer = [r \in Readers |-> {}]

Publish ==
    /\ ~open
    /\ open' = TRUE
    /\ book' \in [Queries -> SUBSET Answers]
    /\ UNCHANGED <<asked, answered, answer>>

Ask(r) ==
    /\ open /\ asked[r] = None
    /\ \E q \in Queries : asked' = [asked EXCEPT ![r] = q]
    /\ UNCHANGED <<open, book, answered, answer>>

Reply(r) ==
    /\ asked[r] # None /\ ~answered[r]
    /\ answered' = [answered EXCEPT ![r] = TRUE]
    /\ answer' = [answer EXCEPT ![r] = book[asked[r]]]
    /\ UNCHANGED <<open, book, asked>>

Forget(r) ==
    /\ answered[r]
    /\ asked' = [asked EXCEPT ![r] = None]
    /\ answered' = [answered EXCEPT ![r] = FALSE]
    /\ answer' = [answer EXCEPT ![r] = {}]
    /\ UNCHANGED <<open, book>>

Next == Publish \/ \E r \in Readers : Ask(r) \/ Reply(r) \/ Forget(r)

Spec == Init /\ [][Next]_vars
=============================================================================
