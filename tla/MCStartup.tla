----------------------------- MODULE MCStartup ------------------------------
(***************************************************************************)
(* A file with two levels and two engines, and the files that differ from  *)
(* it in one line: one is missing, written again with another value at the *)
(* end of its section or of the file, or has blanks and comments.          *)
(***************************************************************************)
EXTENDS Startup, TLC

Sect(name) == [kind |-> "sect", name |-> name, val |-> <<>>, line |-> <<"[">> \o name \o <<"]">>]
Set(name, val) ==
    [kind |-> "set", name |-> name, val |-> val, line |-> name \o <<"=">> \o val]
Comment == [kind |-> "none", name |-> <<>>, val |-> <<>>, line |-> <<"#", "levels", "=", "l1">>]

Base ==
    <<Sect(<<"Level">>), Set(<<"levels">>, <<"l1", ";", "l2">>),
      Set(<<"l1">>, <<"e1", ";", "e2">>), Set(<<"l2">>, <<"e2", ";">>),
      Sect(<<"e1">>), Set(<<"dict_type">>, <<"CKvDict">>), Set(<<"key_type">>, <<"k">>),
      Set(<<"value_type">>, <<"v">>), Set(<<"load_path">>, <<"/", "p">>),
      Set(<<"blacklist">>, <<"0">>),
      Sect(<<"e2">>), Set(<<"dict_type">>, <<"CPatternDict">>), Set(<<"key_type">>, <<"k">>),
      Set(<<"value_type">>, <<"v">>), Set(<<"load_path">>, <<"p">>)>>

Decorated(e) == [e EXCEPT !.line = <<" ">> \o @ \o <<" ", "/", "/", "=", "#">>]

\* Longer than the buffer, for blanks.
Long(e) == [e EXCEPT !.line = @ \o [i \in 1 .. 2 * LINE_BUF_SIZE |-> " "]]

Missing(i)  == RemoveAt(Base, i)
Adorned(i)  == ReplaceAt(Base, i, Decorated(Base[i]))
Again(i)    == Append(Base, Set(Base[i].name, <<"CKvDict">>))
Twice(i)    == InsertAt(Base, i + 1, Set(Base[i].name, <<"e1">>))

MCVersions ==
    {<<Comment>>, <<Comment>> \o Base, ReplaceAt(Base, 3, Long(Base[3]))}
      \union {Missing(i) : i \in DOMAIN Base} \union {Adorned(i) : i \in {1, 2, 3, 5, 6, 10}}
      \union {Again(i) : i \in 11 .. 15} \union {Twice(i) : i \in {2, 3, 6, 10}}

MCRewrites == {Missing(3), Missing(8), Again(12), Twice(3), Twice(10)}

MCDicts == {<<"CKvDict">>, <<"CPatternDict">>}
=============================================================================
