-------------------------------- MODULE Ini ---------------------------------
(***************************************************************************)
(* The configuration reader (ini.cpp).  A line is the sequence of what the *)
(* reader tells apart: blanks, brackets, "=", "#", "/", ";" and words,     *)
(* which stand for runs of other characters.  A file is a sequence of      *)
(* lines, and what is read of it a list of settings, the last one first.   *)
(***************************************************************************)
EXTENDS Naturals, SequencesExt, FiniteSetsExt

CONSTANTS
    NoString,           \* NULL
    LINE_BUF_SIZE       \* 1024 in the code

ASSUME BufferAssumption == LINE_BUF_SIZE \in Nat /\ LINE_BUF_SIZE > 1
ASSUME NoStringAssumption ==
    NoString \notin Seq(STRING) \union [key : Seq(STRING), val : Seq(STRING)]

\* Where a text begins in a line.
At(line, text) ==
    {i \in 1 .. Len(line) - Len(text) + 1 :
       SubSeq(line, i, i + Len(text) - 1) = text}

Before(line, text) ==
    IF At(line, text) = {} THEN line ELSE SubSeq(line, 1, Min(At(line, text)) - 1)

Strip(line) ==
    LET kept == {i \in DOMAIN line : line[i] # " "}
    IN  IF kept = {} THEN <<>> ELSE SubSeq(line, Min(kept), Max(kept))

\* A line without comments and the blanks at its ends.
ini_trim(line) == Strip(Before(Before(line, <<"#">>), <<"/", "/">>))

\* What stands between brackets, anywhere in the line, is a section.
ini_sect(line) ==
    LET open  == At(line, <<"[">>)
        close == {i \in At(line, <<"]">>) : i > Min(open)}
    IN  IF open = {} \/ close = {} THEN NoString
        ELSE SubSeq(line, Min(open) + 1, Min(close) - 1)

ini_format(line) ==
    LET is  == At(line, <<"=">>)
        key == Strip(Before(line, <<"=">>))
        val == Strip(SubSeq(line, Min(is) + 1, Len(line)))
    IN  IF is = {} \/ key = <<>> \/ val = <<>> THEN NoString
        ELSE [key |-> key, val |-> val]

\* fgets: a line that is longer than the buffer is read as several.
Reads(line) ==
    LET n == LINE_BUF_SIZE - 1
    IN  [i \in 1 .. (Len(line) + n - 1) \div n |->
           SubSeq(line, n * (i - 1) + 1, Min({n * i, Len(line)}))]

Setting(sect, setting) == [sect |-> sect, key |-> setting.key, val |-> setting.val]

\* One turn of the loop of ini_init.  Mutant: settings go behind the others.
ReadBehind(acc, read) ==
    LET line    == ini_trim(read)
        setting == ini_format(line)
    IN  IF ini_sect(line) # NoString THEN [acc EXCEPT !.sect = ini_sect(line)]
        ELSE IF acc.sect = NoString \/ setting = NoString THEN acc
        ELSE [acc EXCEPT !.head = Append(@, Setting(acc.sect, setting))]

ReadLine(acc, read) ==
    LET line    == ini_trim(read)
        setting == ini_format(line)
    IN  IF ini_sect(line) # NoString THEN [acc EXCEPT !.sect = ini_sect(line)]
        ELSE IF acc.sect = NoString \/ setting = NoString THEN acc
        ELSE [acc EXCEPT !.head = <<Setting(acc.sect, setting)>> \o @]

\* The loop over what fgets makes of one line.
ReadAll(acc, reads) ==
    LET after[i \in 0 .. Len(reads)] ==
           IF i = 0 THEN acc ELSE ReadLine(after[i - 1], reads[i])
    IN  after[Len(reads)]

\* A file without settings gives NULL, as one that cannot be opened.
ini_init(file) ==
    LET after[i \in 0 .. Len(file)] ==
           IF i = 0 THEN [sect |-> NoString, head |-> <<>>]
           ELSE ReadAll(after[i - 1], Reads(file[i]))
    IN  after[Len(file)].head

\* The first setting of the list, which is the last of the file.
ini_read(head, sect, key) ==
    LET found == {i \in 1 .. Len(head) : head[i].sect = sect /\ head[i].key = key}
    IN  IF found = {} THEN NoString ELSE head[Min(found)].val

\* StringToTokens: what stands between delimiters, the empty pieces only if
\* they are reserved.  Blanks stay.
StringToTokens(text, reserve_empty, delim) ==
    LET Push(acc) == [tokens |-> IF acc.piece = <<>> /\ ~ reserve_empty THEN acc.tokens
                                 ELSE Append(acc.tokens, acc.piece),
                      piece  |-> <<>>]
        after[i \in 0 .. Len(text)] ==
           IF i = 0 THEN [tokens |-> <<>>, piece |-> <<>>]
           ELSE IF text[i] = delim THEN Push(after[i - 1])
           ELSE [after[i - 1] EXCEPT !.piece = Append(@, text[i])]
    IN  Push(after[Len(text)]).tokens

Delimiter == ";"

\* Mutant: with the empty ones.
EveryToken(text) == StringToTokens(text, TRUE, Delimiter)

Tokens(text) == StringToTokens(text, FALSE, Delimiter)
=============================================================================
