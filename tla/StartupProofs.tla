--------------------------- MODULE StartupProofs ---------------------------
(***************************************************************************)
(* Proofs about Ini and Startup, for every file whose lines say what is    *)
(* meant by them, every buffer and any number of edits and calls.          *)
(***************************************************************************)
EXTENDS Startup, SequenceTheorems, NaturalsInduction, WellFoundedInduction, TLAPS

\* A set of numbers that is not empty has a least one.
LEMMA LeastNumber ==
    ASSUME NEW S \in SUBSET Nat, S # {}
    PROVE  \E m \in S : \A n \in S : ~ (n < m)
<1>1. PICK m \in S : \A n \in S : ~ (<<n, m>> \in OpToRel(<, Nat))
  BY WFMin, NatLessThanWellFounded
<1>2. \A n \in S : ~ (n < m)
  BY <1>1 DEF OpToRel
<1> QED
  BY <1>2

\* A function on 1..n is a sequence of length n.
LEMMA FunctionIsSeq ==
    ASSUME NEW S, NEW n \in Nat, NEW f \in [1 .. n -> S]
    PROVE  f \in Seq(S) /\ Len(f) = n
<1>1. f \in Seq(S)
  BY SeqDef
<1>2. DOMAIN f = 1 .. n /\ DOMAIN f = 1 .. Len(f) /\ Len(f) \in Nat
  BY <1>1, LenProperties
<1> QED
  BY <1>1, <1>2

-----------------------------------------------------------------------------
(***************************************************************************)
(* One line.                                                               *)
(***************************************************************************)

\* The i-th turn of the loop over what fgets makes of a line.
ReadTurn(acc, reads, h, i) == IF i = 0 THEN acc ELSE ReadLine(h[i - 1], reads[i])

\* The recursion that stands for that loop has a solution.
LEMMA ReadRuns ==
    ASSUME NEW acc, NEW reads, Len(reads) \in Nat
    PROVE  \E h : h = [i \in 0 .. Len(reads) |-> ReadTurn(acc, reads, h, i)]
<1> DEFINE Runs(m) == \E h : h = [i \in 0 .. m |-> ReadTurn(acc, reads, h, i)]
           Stuck == {m \in 0 .. Len(reads) : ~ Runs(m)}
<1>1. Runs(0)
  <2>1. PICK h : h = [i \in 0 .. 0 |-> acc]
    OBVIOUS
  <2>2. \A i \in 0 .. 0 : ReadTurn(acc, reads, h, i) = acc
    BY DEF ReadTurn
  <2> QED
    BY <2>1, <2>2
<1>2. ASSUME NEW m \in 1 .. Len(reads), Runs(m - 1) PROVE Runs(m)
  <2>1. PICK h : h = [i \in 0 .. m - 1 |-> ReadTurn(acc, reads, h, i)]
    BY <1>2
  <2>2. PICK g : g = [i \in 0 .. m |-> IF i < m THEN h[i] ELSE ReadTurn(acc, reads, h, m)]
    OBVIOUS
  <2>3. ASSUME NEW i \in 0 .. m PROVE g[i] = ReadTurn(acc, reads, g, i)
    <3>1. i # 0 => i - 1 \in 0 .. m - 1 /\ g[i - 1] = h[i - 1]
      BY <2>2
    <3>2. ReadTurn(acc, reads, g, i) = ReadTurn(acc, reads, h, i)
      BY <3>1 DEF ReadTurn
    <3>3. CASE i < m
      <4>1. i \in 0 .. m - 1
        BY <3>3
      <4> QED
        BY <2>1, <2>2, <3>2, <3>3, <4>1
    <3>4. CASE i = m
      BY <2>2, <3>2, <3>4
    <3> QED
      BY <3>3, <3>4
  <2>4. g = [i \in 0 .. m |-> ReadTurn(acc, reads, g, i)]
    BY <2>2, <2>3
  <2> QED
    BY <2>4
<1> HIDE DEF Runs
<1>3. Stuck = {}
  <2> SUFFICES ASSUME Stuck # {} PROVE FALSE
    OBVIOUS
  <2> Stuck \in SUBSET Nat
    OBVIOUS
  <2>1. PICK m \in Stuck : \A n \in Stuck : ~ (n < m)
    BY LeastNumber
  <2>2. m \in 1 .. Len(reads) /\ m - 1 \in 0 .. Len(reads) /\ m - 1 < m
    BY <1>1, <2>1
  <2>3. Runs(m - 1)
    BY <2>1, <2>2
  <2> QED
    BY <1>2, <2>1, <2>2, <2>3
<1>4. Runs(Len(reads))
  BY <1>3
<1> QED
  BY <1>4 DEF Runs

\* What is no section and no setting changes nothing.
LEMMA SilentRead == \A acc, read : Silent(read) => ReadLine(acc, read) = acc
BY DEF Silent, ReadLine

\* When all that fgets makes of a line is silent but the i-th, the line does
\* what the i-th does; with i = 0, nothing.
LEMMA ReadOnce ==
    ASSUME NEW acc, NEW reads, Len(reads) \in Nat, NEW i \in 0 .. Len(reads),
           \A j \in 1 .. Len(reads) : j # i => Silent(reads[j])
    PROVE  ReadAll(acc, reads) = IF i = 0 THEN acc ELSE ReadLine(acc, reads[i])
<1>1. PICK done : done = IF i = 0 THEN acc ELSE ReadLine(acc, reads[i])
  OBVIOUS
<1>2. PICK h : h = CHOOSE g : g = [j \in 0 .. Len(reads) |-> ReadTurn(acc, reads, g, j)]
  OBVIOUS
<1>3. h = [j \in 0 .. Len(reads) |-> ReadTurn(acc, reads, h, j)]
  BY <1>2, ReadRuns
<1>4. ReadAll(acc, reads) = h[Len(reads)]
  BY <1>2 DEF ReadAll, ReadTurn
<1> DEFINE After(m) == IF i <= m THEN done ELSE acc
           Wrong == {m \in 0 .. Len(reads) : h[m] # After(m)}
<1>5. h[0] = After(0)
  BY <1>1, <1>3 DEF ReadTurn
<1>6. ASSUME NEW m \in 1 .. Len(reads), h[m - 1] = After(m - 1) PROVE h[m] = After(m)
  <2>1. m \in 0 .. Len(reads) /\ m # 0
    OBVIOUS
  <2>2. h[m] = ReadTurn(acc, reads, h, m)
    BY <1>3, <2>1
  <2>3. h[m] = ReadLine(After(m - 1), reads[m])
    BY <1>6, <2>1, <2>2 DEF ReadTurn
  <2>4. CASE m = i
    BY <1>1, <2>3, <2>4
  <2>5. CASE m # i
    <3>1. h[m] = After(m - 1)
      BY <2>3, <2>5, SilentRead
    <3> QED
      BY <2>5, <3>1
  <2> QED
    BY <2>4, <2>5
<1> HIDE DEF After
<1>7. Wrong = {}
  <2> SUFFICES ASSUME Wrong # {} PROVE FALSE
    OBVIOUS
  <2> Wrong \in SUBSET Nat
    OBVIOUS
  <2>1. PICK m \in Wrong : \A n \in Wrong : ~ (n < m)
    BY LeastNumber
  <2>2. m \in 1 .. Len(reads) /\ m - 1 \in 0 .. Len(reads) /\ m - 1 < m
    BY <1>5, <2>1
  <2>3. h[m - 1] = After(m - 1)
    BY <2>1, <2>2
  <2> QED
    BY <1>6, <2>1, <2>2, <2>3
<1>8. h[Len(reads)] = After(Len(reads))
  BY <1>7
<1> QED
  BY <1>1, <1>4, <1>8 DEF After

-----------------------------------------------------------------------------
(***************************************************************************)
(* A file: what it says is what its author meant.                          *)
(***************************************************************************)

\* The least and the greatest number of a set.
LEMMA MinIs ==
    ASSUME NEW S \in SUBSET Nat, NEW k \in S, \A n \in S : k <= n
    PROVE  Min(S) = k
<1>1. Min(S) \in S /\ \A n \in S : Min(S) <= n
  BY DEF Min
<1>2. PICK m : m = Min(S)
  OBVIOUS
<1>3. m \in Nat /\ k \in Nat /\ m <= k /\ k <= m
  BY <1>1, <1>2
<1> QED
  BY <1>2, <1>3

\* The same of the greatest.
LEMMA MaxIs ==
    ASSUME NEW S \in SUBSET Nat, NEW k \in S, \A n \in S : k >= n
    PROVE  Max(S) = k
<1>1. Max(S) \in S /\ \A n \in S : Max(S) >= n
  BY DEF Max
<1>2. PICK m : m = Max(S)
  OBVIOUS
<1>3. m \in Nat /\ k \in Nat /\ m >= k /\ k >= m
  BY <1>1, <1>2
<1> QED
  BY <1>2, <1>3

Settings == [sect : Seq(STRING), key : Seq(STRING), val : Seq(STRING)]

Accs == [sect : Seq(STRING) \union {NoString}, head : Seq(Settings)]

\* What a line does that says what its entry means.
Does(acc, entry) ==
    IF entry.kind = "sect" THEN [acc EXCEPT !.sect = entry.name]
    ELSE IF entry.kind = "none" \/ acc.sect = NoString THEN acc
    ELSE [acc EXCEPT !.head =
            <<[sect |-> acc.sect, key |-> entry.name, val |-> entry.val]>> \o @]

\* fgets makes finitely many reads of a line.
LEMMA ReadsLength ==
    ASSUME NEW line \in Seq(STRING)
    PROVE  Len(Reads(line)) \in Nat
<1>1. PICK k : k = (Len(line) + (LINE_BUF_SIZE - 1) - 1) \div (LINE_BUF_SIZE - 1)
  OBVIOUS
<1>2. Len(line) + (LINE_BUF_SIZE - 1) - 1 \in Nat /\ LINE_BUF_SIZE - 1 \in Nat \ {0}
  BY BufferAssumption, LenProperties
<1>3. k \in Int
  BY <1>1, <1>2
<1>4. PICK m \in Nat : 1 .. k = 1 .. m
  <2>1. CASE k \in Nat
    BY <2>1
  <2>2. CASE k \notin Nat
    <3>1. 1 .. k = 1 .. 0
      BY <1>3, <2>2
    <3> QED
      BY <3>1
  <2> QED
    BY <2>1, <2>2
<1>5. PICK r : r = Reads(line)
  OBVIOUS
<1>6. DOMAIN r = 1 .. m /\ r = [i \in 1 .. m |-> r[i]]
  BY <1>1, <1>4, <1>5 DEF Reads
<1>7. r \in [1 .. m -> {r[i] : i \in 1 .. m}]
  BY <1>6
<1>8. Len(r) = m
  BY <1>7, FunctionIsSeq
<1> QED
  BY <1>5, <1>8

\* However fgets takes the line apart, it does what its entry means.
LEMMA EntryRead ==
    ASSUME NEW entry \in Entries, Clear(entry), NEW acc \in Accs
    PROVE  ReadAll(acc, Reads(entry.line)) = Does(acc, entry)
<1>1. PICK reads : reads = Reads(entry.line)
  OBVIOUS
<1>2. Len(reads) \in Nat
  BY <1>1, ReadsLength DEF Entries
<1>3. CASE entry.kind = "none"
  <2>1. \A j \in 1 .. Len(reads) : Silent(reads[j])
    BY <1>1, <1>3 DEF Clear
  <2>2. ReadAll(acc, reads) = acc
    BY <1>2, <2>1, ReadOnce
  <2> QED
    BY <1>1, <1>3, <2>2 DEF Does
<1>4. CASE entry.kind # "none"
  <2>1. PICK i \in 1 .. Len(reads) :
           /\ \/ entry.kind = "sect" /\ ini_sect(ini_trim(reads[i])) = entry.name
              \/ /\ entry.kind = "set" /\ ini_sect(ini_trim(reads[i])) = NoString
                 /\ ini_format(ini_trim(reads[i])) = [key |-> entry.name, val |-> entry.val]
           /\ \A j \in 1 .. Len(reads) : j # i => Silent(reads[j])
    BY <1>1, <1>4 DEF Clear
  <2>2. ReadAll(acc, reads) = ReadLine(acc, reads[i])
    BY <1>2, <2>1, ReadOnce
  <2>3. /\ entry.name # NoString
        /\ [key |-> entry.name, val |-> entry.val] # NoString
    BY NoStringAssumption DEF Entries
  <2>4. CASE entry.kind = "sect"
    <3>1. ini_sect(ini_trim(reads[i])) = entry.name
      BY <2>1, <2>4
    <3>2. ReadLine(acc, reads[i]) = [acc EXCEPT !.sect = entry.name]
      BY <2>3, <3>1 DEF ReadLine
    <3> QED
      BY <1>1, <2>2, <2>4, <3>2 DEF Does
  <2>5. CASE entry.kind = "set"
    <3>1. /\ ini_sect(ini_trim(reads[i])) = NoString
          /\ ini_format(ini_trim(reads[i])) = [key |-> entry.name, val |-> entry.val]
      BY <2>1, <2>5
    <3>2. ReadLine(acc, reads[i]) =
             IF acc.sect = NoString THEN acc
             ELSE [acc EXCEPT !.head = <<Setting(acc.sect,
                     [key |-> entry.name, val |-> entry.val])>> \o @]
      BY <2>3, <3>1 DEF ReadLine
    <3> QED
      BY <1>1, <2>2, <2>5, <3>2 DEF Does, Setting
  <2> QED
    BY <1>4, <2>4, <2>5 DEF Entries
<1> QED
  BY <1>3, <1>4

\* What a line does keeps the list one of settings.
LEMMA DoesTyped ==
    ASSUME NEW entry \in Entries, NEW acc \in Accs
    PROVE  Does(acc, entry) \in Accs
<1>1. CASE entry.kind = "sect"
  BY <1>1 DEF Does, Accs, Entries
<1>2. CASE entry.kind = "none" \/ acc.sect = NoString
  BY <1>2 DEF Does, Accs, Entries
<1>3. CASE entry.kind = "set" /\ acc.sect # NoString
  <2>1. PICK s : s = [sect |-> acc.sect, key |-> entry.name, val |-> entry.val]
    OBVIOUS
  <2>2. s \in Settings
    BY <1>3, <2>1 DEF Settings, Accs, Entries
  <2>3. <<s>> \o acc.head \in Seq(Settings)
    BY <2>2 DEF Accs
  <2>4. Does(acc, entry) = [acc EXCEPT !.head = <<s>> \o @]
    BY <1>3, <2>1 DEF Does
  <2> QED
    BY <2>3, <2>4 DEF Accs
<1> QED
  BY <1>1, <1>2, <1>3 DEF Entries

\* The list that begins with s is read from s on.
LEMMA ReadFront ==
    ASSUME NEW s \in Settings, NEW head \in Seq(Settings), NEW sect, NEW key
    PROVE  ini_read(<<s>> \o head, sect, key) =
              IF s.sect = sect /\ s.key = key THEN s.val ELSE ini_read(head, sect, key)
<1>1. PICK longer : longer = <<s>> \o head
  OBVIOUS
<1>2. PICK n \in Nat : n = Len(head)
  BY LenProperties
<1>3. /\ Len(longer) = n + 1 /\ longer[1] = s
      /\ \A i \in 1 .. n : longer[i + 1] = head[i]
  BY <1>1, <1>2
<1>4. PICK found : found = {i \in 1 .. n : head[i].sect = sect /\ head[i].key = key}
  OBVIOUS
<1>5. PICK fond : fond = {i \in 1 .. n + 1 : longer[i].sect = sect /\ longer[i].key = key}
  OBVIOUS
<1>6. /\ ini_read(head, sect, key) = IF found = {} THEN NoString ELSE head[Min(found)].val
      /\ ini_read(longer, sect, key) = IF fond = {} THEN NoString ELSE longer[Min(fond)].val
  BY <1>2, <1>3, <1>4, <1>5 DEF ini_read
<1>7. \A i \in 1 .. n : i \in found <=> i + 1 \in fond
  BY <1>3, <1>4, <1>5
<1>8. 1 \in fond <=> s.sect = sect /\ s.key = key
  BY <1>3, <1>5
<1>9. \A i \in fond : i = 1 \/ i - 1 \in found
  BY <1>5, <1>7
<1>10. found \in SUBSET Nat /\ fond \in SUBSET Nat
  BY <1>4, <1>5
<1>11. CASE 1 \in fond
  <2>1. \A i \in fond : 1 <= i
    BY <1>5
  <2>2. Min(fond) = 1
    BY <1>10, <1>11, <2>1, MinIs
  <2> QED
    BY <1>1, <1>3, <1>6, <1>8, <1>11, <2>2
<1>12. CASE 1 \notin fond /\ found = {}
  BY <1>1, <1>6, <1>8, <1>9, <1>12
<1>13. CASE 1 \notin fond /\ found # {}
  <2>1. PICK k \in found : \A i \in found : ~ (i < k)
    BY <1>10, <1>13, LeastNumber
  <2>2. k \in 1 .. n /\ \A i \in found : k <= i
    BY <1>10, <2>1, <1>4
  <2>3. Min(found) = k
    BY <1>10, <2>2, <2>1, MinIs
  <2>4. k + 1 \in fond
    BY <1>7, <2>1, <2>2
  <2>5. ASSUME NEW i \in fond PROVE k + 1 <= i
    <3>1. i - 1 \in found /\ i \in Nat
      BY <1>9, <1>10, <1>13, <2>5
    <3> QED
      BY <2>2, <3>1
  <2>6. Min(fond) = k + 1
    BY <1>10, <2>4, <2>5, MinIs
  <2>7. longer[k + 1] = head[k]
    BY <1>3, <2>2
  <2> QED
    BY <1>1, <1>6, <1>8, <1>13, <2>1, <2>3, <2>4, <2>6, <2>7
<1> QED
  BY <1>11, <1>12, <1>13

\* The section the m-th line of a file leaves the reader in, and what the
\* first m lines mean by a key.
SectAfter(entries, m) ==
    LET before == {j \in 1 .. m : entries[j].kind = "sect"}
    IN  IF before = {} THEN NoString ELSE entries[Max(before)].name

SaidBy(entries, m, sect, key) ==
    {i \in 1 .. m : /\ entries[i].kind = "set" /\ entries[i].name = key
                    /\ SectAfter(entries, i - 1) = sect}

MeantBy(entries, m, sect, key) ==
    LET them == SaidBy(entries, m, sect, key)
    IN  IF them = {} THEN NoString ELSE entries[Max(them)].val

\* What the whole file means.
LEMMA MeantAtEnd ==
    ASSUME NEW entries \in Seq(Entries), NEW sect, NEW key
    PROVE  Meant(entries, sect, key) = MeantBy(entries, Len(entries), sect, key)
<1>1. DOMAIN entries = 1 .. Len(entries)
  BY LenProperties
<1> QED
  BY <1>1 DEF Meant, MeantBy, SaidBy, SectAfter

\* A section's line begins the section it names.
LEMMA SectTurn ==
    ASSUME NEW entries, NEW m \in Nat \ {0}
    PROVE  SectAfter(entries, m) =
              IF entries[m].kind = "sect" THEN entries[m].name
              ELSE SectAfter(entries, m - 1)
<1>1. PICK old : old = {j \in 1 .. m - 1 : entries[j].kind = "sect"}
  OBVIOUS
<1>2. PICK new : new = {j \in 1 .. m : entries[j].kind = "sect"}
  OBVIOUS
<1>3. /\ SectAfter(entries, m) = IF new = {} THEN NoString ELSE entries[Max(new)].name
      /\ SectAfter(entries, m - 1) = IF old = {} THEN NoString ELSE entries[Max(old)].name
  BY <1>1, <1>2 DEF SectAfter
<1>4. CASE entries[m].kind = "sect"
  <2>1. m \in new /\ new \in SUBSET Nat /\ \A n \in new : m >= n
    BY <1>2, <1>4
  <2>2. Max(new) = m
    BY <2>1, MaxIs
  <2> QED
    BY <1>3, <1>4, <2>1, <2>2
<1>5. CASE entries[m].kind # "sect"
  <2>1. new = old
    BY <1>1, <1>2, <1>5
  <2> QED
    BY <1>3, <1>5, <2>1
<1> QED
  BY <1>4, <1>5

\* A setting's line says its key, in the section it stands in, anew.
LEMMA MeantTurn ==
    ASSUME NEW entries, NEW m \in Nat \ {0}, NEW sect, NEW key
    PROVE  MeantBy(entries, m, sect, key) =
              IF /\ entries[m].kind = "set" /\ entries[m].name = key
                 /\ SectAfter(entries, m - 1) = sect
              THEN entries[m].val ELSE MeantBy(entries, m - 1, sect, key)
<1> DEFINE Here == /\ entries[m].kind = "set" /\ entries[m].name = key
                   /\ SectAfter(entries, m - 1) = sect
<1>1. PICK old : old = SaidBy(entries, m - 1, sect, key)
  OBVIOUS
<1>2. PICK new : new = SaidBy(entries, m, sect, key)
  OBVIOUS
<1>3. /\ MeantBy(entries, m, sect, key) = IF new = {} THEN NoString ELSE entries[Max(new)].val
      /\ MeantBy(entries, m - 1, sect, key) = IF old = {} THEN NoString ELSE entries[Max(old)].val
  BY <1>1, <1>2 DEF MeantBy
<1>4. CASE Here
  <2>1. m \in new /\ new \in SUBSET Nat /\ \A n \in new : m >= n
    BY <1>2, <1>4 DEF SaidBy
  <2>2. Max(new) = m
    BY <2>1, MaxIs
  <2> QED
    BY <1>3, <1>4, <2>1, <2>2
<1>5. CASE ~ Here
  <2>1. new = old
    BY <1>1, <1>2, <1>5 DEF SaidBy
  <2> QED
    BY <1>3, <1>5, <2>1
<1> QED
  BY <1>4, <1>5

\* The m-th turn of ini_init's loop over the lines of a file.
FileTurn(lines, h, m) ==
    IF m = 0 THEN [sect |-> NoString, head |-> <<>>]
    ELSE ReadAll(h[m - 1], Reads(lines[m]))

\* The recursion that stands for that loop has a solution.
LEMMA FileRuns ==
    ASSUME NEW lines, Len(lines) \in Nat
    PROVE  \E h : h = [i \in 0 .. Len(lines) |-> FileTurn(lines, h, i)]
<1> DEFINE Runs(m) == \E h : h = [i \in 0 .. m |-> FileTurn(lines, h, i)]
           Stuck == {m \in 0 .. Len(lines) : ~ Runs(m)}
<1>1. Runs(0)
  <2>1. PICK h : h = [i \in 0 .. 0 |-> [sect |-> NoString, head |-> <<>>]]
    OBVIOUS
  <2>2. \A i \in 0 .. 0 : FileTurn(lines, h, i) = [sect |-> NoString, head |-> <<>>]
    BY DEF FileTurn
  <2> QED
    BY <2>1, <2>2
<1>2. ASSUME NEW m \in 1 .. Len(lines), Runs(m - 1) PROVE Runs(m)
  <2>1. PICK h : h = [i \in 0 .. m - 1 |-> FileTurn(lines, h, i)]
    BY <1>2
  <2>2. PICK g : g = [i \in 0 .. m |-> IF i < m THEN h[i] ELSE FileTurn(lines, h, m)]
    OBVIOUS
  <2>3. ASSUME NEW i \in 0 .. m PROVE g[i] = FileTurn(lines, g, i)
    <3>1. i # 0 => i - 1 \in 0 .. m - 1 /\ g[i - 1] = h[i - 1]
      BY <2>2
    <3>2. FileTurn(lines, g, i) = FileTurn(lines, h, i)
      BY <3>1 DEF FileTurn
    <3>3. CASE i < m
      <4>1. i \in 0 .. m - 1
        BY <3>3
      <4> QED
        BY <2>1, <2>2, <3>2, <3>3, <4>1
    <3>4. CASE i = m
      BY <2>2, <3>2, <3>4
    <3> QED
      BY <3>3, <3>4
  <2>4. g = [i \in 0 .. m |-> FileTurn(lines, g, i)]
    BY <2>2, <2>3
  <2> QED
    BY <2>4
<1> HIDE DEF Runs
<1>3. Stuck = {}
  <2> SUFFICES ASSUME Stuck # {} PROVE FALSE
    OBVIOUS
  <2> Stuck \in SUBSET Nat
    OBVIOUS
  <2>1. PICK m \in Stuck : \A n \in Stuck : ~ (n < m)
    BY LeastNumber
  <2>2. m \in 1 .. Len(lines) /\ m - 1 \in 0 .. Len(lines) /\ m - 1 < m
    BY <1>1, <2>1
  <2>3. Runs(m - 1)
    BY <2>1, <2>2
  <2> QED
    BY <1>2, <2>1, <2>2, <2>3
<1>4. Runs(Len(lines))
  BY <1>3
<1> QED
  BY <1>4 DEF Runs

\* What the reader holds after the first m lines is what they mean.
Faithful(entries, m, acc) ==
    /\ acc \in Accs
    /\ acc.sect = SectAfter(entries, m)
    /\ \A sect \in Seq(STRING) : \A key :
          ini_read(acc.head, sect, key) = MeantBy(entries, m, sect, key)

\* A line keeps it so.
LEMMA FaithfulTurn ==
    ASSUME NEW entries, NEW m \in Nat \ {0}, entries[m] \in Entries,
           NEW acc, Faithful(entries, m - 1, acc)
    PROVE  Faithful(entries, m, Does(acc, entries[m]))
<1>1. PICK entry \in Entries : entry = entries[m]
  OBVIOUS
<1>2. PICK now : now = Does(acc, entry)
  OBVIOUS
<1>3. acc \in Accs /\ acc.sect = SectAfter(entries, m - 1)
  BY DEF Faithful
<1>4. now \in Accs
  BY <1>2, <1>3, DoesTyped
<1>5. now.sect = SectAfter(entries, m)
  <2>1. SectAfter(entries, m) = IF entry.kind = "sect" THEN entry.name ELSE acc.sect
    BY <1>1, <1>3, SectTurn
  <2>2. now.sect = IF entry.kind = "sect" THEN entry.name ELSE acc.sect
    BY <1>2, <1>3 DEF Does, Accs
  <2> QED
    BY <2>1, <2>2
<1>6. ASSUME NEW sect \in Seq(STRING), NEW key
      PROVE  ini_read(now.head, sect, key) = MeantBy(entries, m, sect, key)
  <2>1. ini_read(acc.head, sect, key) = MeantBy(entries, m - 1, sect, key)
    BY DEF Faithful
  <2>2. MeantBy(entries, m, sect, key) =
           IF entry.kind = "set" /\ entry.name = key /\ acc.sect = sect
           THEN entry.val ELSE ini_read(acc.head, sect, key)
    BY <1>1, <1>3, <2>1, MeantTurn
  <2>3. CASE entry.kind # "set"
    <3>1. now.head = acc.head
      BY <1>2, <1>3, <2>3 DEF Does, Accs, Entries
    <3> QED
      BY <2>2, <2>3, <3>1
  <2>4. CASE acc.sect = NoString
    <3>1. now.head = acc.head \/ entry.kind = "sect"
      BY <1>2, <1>3, <2>4 DEF Does, Accs
    <3>2. sect # NoString
      BY NoStringAssumption
    <3> QED
      BY <2>2, <2>3, <2>4, <3>1, <3>2
  <2>5. CASE entry.kind = "set" /\ acc.sect # NoString
    <3>1. PICK s : s = [sect |-> acc.sect, key |-> entry.name, val |-> entry.val]
      OBVIOUS
    <3>2. s \in Settings
      BY <1>3, <2>5, <3>1 DEF Settings, Accs, Entries
    <3>3. now.head = <<s>> \o acc.head /\ acc.head \in Seq(Settings)
      BY <1>2, <1>3, <2>5, <3>1 DEF Does, Accs
    <3>4. ini_read(now.head, sect, key) =
             IF s.sect = sect /\ s.key = key THEN s.val ELSE ini_read(acc.head, sect, key)
      BY <3>2, <3>3, ReadFront
    <3> QED
      BY <2>2, <2>5, <3>1, <3>4
  <2> QED
    BY <2>3, <2>4, <2>5
<1> QED
  BY <1>1, <1>2, <1>4, <1>5, <1>6 DEF Faithful

\* Before the first line nothing is said.
LEMMA FaithfulStart ==
    \A entries : Faithful(entries, 0, [sect |-> NoString, head |-> <<>>])
<1> SUFFICES ASSUME NEW entries
             PROVE  Faithful(entries, 0, [sect |-> NoString, head |-> <<>>])
  OBVIOUS
<1>1. [sect |-> NoString, head |-> <<>>] \in Accs
  BY DEF Accs
<1>2. SectAfter(entries, 0) = NoString
  BY DEF SectAfter
<1>3. \A sect, key : MeantBy(entries, 0, sect, key) = NoString
  BY DEF MeantBy, SaidBy
<1>4. \A sect, key : ini_read(<<>>, sect, key) = NoString
  BY DEF ini_read
<1> QED
  BY <1>1, <1>2, <1>3, <1>4 DEF Faithful

\* The lines of a file, the empty one behind them too, are texts.
LEMMA LinesTyped ==
    ASSUME NEW entries \in Seq(Entries)
    PROVE  /\ Lines(entries) \in Seq(Seq(STRING))
           /\ Len(Lines(entries)) = Len(entries) + 1
           /\ Lines(entries)[Len(entries) + 1] = <<>>
           /\ \A i \in 1 .. Len(entries) : Lines(entries)[i] = entries[i].line
<1>1. PICK n \in Nat : n = Len(entries)
  BY LenProperties
<1>2. \A i \in 1 .. n : entries[i] \in Entries
  BY <1>1, ElementOfSeq
<1>3. PICK lines : lines = [i \in 1 .. n |-> entries[i].line]
  OBVIOUS
<1>4. lines \in [1 .. n -> Seq(STRING)]
  BY <1>2, <1>3 DEF Entries
<1>5. lines \in Seq(Seq(STRING)) /\ Len(lines) = n
  BY <1>4, FunctionIsSeq
<1>6. <<>> \in Seq(STRING)
  OBVIOUS
<1>7. Lines(entries) = Append(lines, <<>>)
  BY <1>1, <1>3 DEF Lines
<1>8. /\ Append(lines, <<>>) \in Seq(Seq(STRING))
      /\ Len(Append(lines, <<>>)) = n + 1
      /\ \A i \in 1 .. n : Append(lines, <<>>)[i] = lines[i]
      /\ Append(lines, <<>>)[n + 1] = <<>>
  BY <1>5, <1>6, AppendProperties
<1> QED
  BY <1>1, <1>3, <1>7, <1>8

\* fgets reads nothing of an empty line.
LEMMA NothingRead == \A acc : ReadAll(acc, Reads(<<>>)) = acc
<1>1. PICK n \in Nat \ {0} : n = LINE_BUF_SIZE - 1
  BY BufferAssumption
<1>2. (0 + n - 1) \div n = 0
  OBVIOUS
<1>3. Len(<<>>) = 0
  OBVIOUS
<1>4. PICK reads : reads = Reads(<<>>)
  OBVIOUS
<1>5. DOMAIN reads = 1 .. 0
  BY <1>1, <1>2, <1>3, <1>4 DEF Reads
<1>6. reads \in [1 .. 0 -> {}]
  BY <1>4, <1>5 DEF Reads
<1>7. Len(reads) = 0
  BY <1>6, FunctionIsSeq
<1>8. ASSUME NEW acc PROVE ReadAll(acc, reads) = acc
  <2>1. 0 \in 0 .. Len(reads) /\ \A j \in 1 .. Len(reads) : j # 0 => Silent(reads[j])
    BY <1>7
  <2> QED
    BY <1>7, <2>1, ReadOnce
<1> QED
  BY <1>4, <1>8

\* ini_init holds of a file what its author means by it.
LEMMA ReaderFaithful ==
    ASSUME NEW entries \in Versions \union Rewrites
    PROVE  /\ ini_init(Lines(entries)) \in Seq(Settings)
           /\ \A sect \in Seq(STRING) : \A key :
                 ini_read(ini_init(Lines(entries)), sect, key) = Meant(entries, sect, key)
<1>1. /\ entries \in Seq(Entries)
      /\ \A i \in 1 .. Len(entries) : Clear(entries[i])
  BY FileAssumption
<1>2. PICK n \in Nat : n = Len(entries)
  BY <1>1, LenProperties
<1>3. \A i \in 1 .. n : entries[i] \in Entries
  BY <1>1, <1>2, ElementOfSeq
<1>4. PICK lines : lines = Lines(entries)
  OBVIOUS
<1>5. /\ Len(lines) = n + 1
      /\ lines[n + 1] = <<>>
      /\ \A i \in 1 .. n : lines[i] = entries[i].line
  BY <1>1, <1>2, <1>3, <1>4, LinesTyped
<1>6. PICK h : h = CHOOSE g : g = [i \in 0 .. Len(lines) |-> FileTurn(lines, g, i)]
  OBVIOUS
<1>7. h = [i \in 0 .. n + 1 |-> FileTurn(lines, h, i)]
  BY <1>5, <1>6, FileRuns
<1>8. ini_init(lines) = h[n].head
  <2>1. ini_init(lines) = h[n + 1].head
    BY <1>5, <1>6 DEF ini_init, FileTurn
  <2>2. n + 1 \in 0 .. n + 1 /\ n + 1 # 0 /\ n + 1 - 1 = n
    OBVIOUS
  <2>3. h[n + 1] = ReadAll(h[n], Reads(<<>>))
    BY <1>5, <1>7, <2>2 DEF FileTurn
  <2> QED
    BY <2>1, <2>3, NothingRead
<1> DEFINE Wrong == {m \in 0 .. n : ~ Faithful(entries, m, h[m])}
<1>9. Faithful(entries, 0, h[0])
  <2>1. h[0] = [sect |-> NoString, head |-> <<>>]
    BY <1>7 DEF FileTurn
  <2> QED
    BY <2>1, FaithfulStart
<1>10. ASSUME NEW m \in 1 .. n, Faithful(entries, m - 1, h[m - 1])
       PROVE  Faithful(entries, m, h[m])
  <2>1. h[m] = ReadAll(h[m - 1], Reads(entries[m].line))
    <3>1. m \in 0 .. n + 1 /\ m # 0
      OBVIOUS
    <3> QED
      BY <1>5, <1>7, <3>1 DEF FileTurn
  <2>2. h[m - 1] \in Accs
    BY <1>10 DEF Faithful
  <2>3. h[m] = Does(h[m - 1], entries[m])
    BY <1>1, <1>2, <1>3, <2>1, <2>2, EntryRead
  <2>4. m \in Nat \ {0} /\ entries[m] \in Entries
    BY <1>3
  <2> QED
    BY <1>10, <2>3, <2>4, FaithfulTurn
<1>11. Wrong = {}
  <2> SUFFICES ASSUME Wrong # {} PROVE FALSE
    OBVIOUS
  <2> Wrong \in SUBSET Nat
    OBVIOUS
  <2>1. PICK m \in Wrong : \A i \in Wrong : ~ (i < m)
    BY LeastNumber
  <2>2. m \in 1 .. n /\ m - 1 \in 0 .. n /\ m - 1 < m
    BY <1>9, <2>1
  <2>3. Faithful(entries, m - 1, h[m - 1])
    BY <2>1, <2>2
  <2> QED
    BY <1>10, <2>1, <2>2, <2>3
<1>12. Faithful(entries, n, h[n])
  BY <1>11
<1>13. \A sect, key : Meant(entries, sect, key) = MeantBy(entries, n, sect, key)
  BY <1>1, <1>2, MeantAtEnd
<1>14. h[n].head \in Seq(Settings)
  BY <1>12 DEF Faithful, Accs
<1>15. ASSUME NEW sect \in Seq(STRING), NEW key
       PROVE  ini_read(h[n].head, sect, key) = Meant(entries, sect, key)
  BY <1>12, <1>13 DEF Faithful
<1> QED
  BY <1>4, <1>8, <1>14, <1>15

\* What a list holds is text.
LEMMA ReadTyped ==
    ASSUME NEW head \in Seq(Settings), NEW sect, NEW key
    PROVE  /\ ini_read(head, sect, key) \in Seq(STRING) \union {NoString}
           /\ ini_read(head, sect, key) # NoString =>
                 sect \in Seq(STRING)
<1>1. PICK found : found = {i \in 1 .. Len(head) : head[i].sect = sect /\ head[i].key = key}
  OBVIOUS
<1>2. ini_read(head, sect, key) = IF found = {} THEN NoString ELSE head[Min(found)].val
  BY <1>1 DEF ini_read
<1>3. CASE found = {}
  BY <1>2, <1>3
<1>4. CASE found # {}
  <2>1. found \in SUBSET Nat
    BY <1>1
  <2>2. PICK k \in found : \A i \in found : ~ (i < k)
    BY <1>4, <2>1, LeastNumber
  <2>3. k \in Nat /\ \A i \in found : k <= i
    BY <2>1, <2>2
  <2>4. Min(found) = k
    BY <2>1, <2>2, <2>3, MinIs
  <2>5. k \in 1 .. Len(head) /\ head[k].sect = sect /\ head[k].key = key
    BY <1>1, <2>2
  <2>6. head[k] \in Settings
    BY <2>5, ElementOfSeq
  <2> QED
    BY <1>2, <1>4, <2>4, <2>5, <2>6 DEF Settings
<1> QED
  BY <1>3, <1>4

-----------------------------------------------------------------------------
(***************************************************************************)
(* Whatever a text says, the reader holds settings: so it does of what two *)
(* versions of the file make together.                                     *)
(***************************************************************************)

\* A part of a text is a text.
LEMMA PartTyped ==
    ASSUME NEW S, NEW s \in Seq(S), NEW a \in Nat \ {0}, NEW b \in Int, b <= Len(s)
    PROVE  SubSeq(s, a, b) \in Seq(S)
<1>1. Len(s) \in Nat
  BY LenProperties
<1>2. ASSUME NEW i \in a .. b PROVE s[i] \in S
  <2>1. i \in 1 .. Len(s)
    BY <1>1
  <2> QED
    BY <2>1, ElementOfSeq
<1> QED
  BY <1>2, SubSeqProperties

\* The least number of a set is one of it.
LEMMA LeastOf ==
    ASSUME NEW S \in SUBSET Nat, S # {}
    PROVE  Min(S) \in S
<1>1. PICK k \in S : \A n \in S : ~ (n < k)
  BY LeastNumber
<1>2. k \in Nat /\ \A n \in S : k <= n
  BY <1>1
<1> QED
  BY <1>2, MinIs

\* So is the greatest.
LEMMA GreatestOf ==
    ASSUME NEW n \in Nat, NEW S \in SUBSET (0 .. n), S # {}
    PROVE  Max(S) \in S
<1> DEFINE Rest == {n - k : k \in S}
<1>1. Rest \in SUBSET Nat /\ Rest # {}
  OBVIOUS
<1>2. PICK r \in Rest : \A m \in Rest : ~ (m < r)
  BY <1>1, LeastNumber
<1>3. PICK k \in S : r = n - k
  BY <1>2
<1>4. S \in SUBSET Nat
  OBVIOUS
<1>5. ASSUME NEW j \in S PROVE k >= j
  <2>1. n - j \in Rest
    OBVIOUS
  <2>2. ~ (n - j < n - k)
    BY <1>2, <1>3, <2>1
  <2> QED
    BY <1>4, <2>2
<1>6. Max(S) = k
  BY <1>4, <1>5, MaxIs
<1> QED
  BY <1>6

\* What Strip, Before and the others make of a text is a text.
LEMMA StripTyped ==
    ASSUME NEW line \in Seq(STRING)
    PROVE  Strip(line) \in Seq(STRING)
<1>1. PICK n \in Nat : n = Len(line) /\ DOMAIN line = 1 .. n
  BY LenProperties
<1>2. PICK kept : kept = {i \in DOMAIN line : line[i] # " "}
  OBVIOUS
<1>3. kept \in SUBSET (0 .. n) /\ kept \in SUBSET Nat /\ kept \subseteq 1 .. n
  <2>1. kept \subseteq 1 .. n
    BY <1>1, <1>2
  <2>2. 1 .. n \subseteq 0 .. n /\ 1 .. n \subseteq Nat
    OBVIOUS
  <2> QED
    BY <2>1, <2>2
<1>4. CASE kept = {}
  <2>1. Strip(line) = <<>>
    BY <1>2, <1>4 DEF Strip
  <2> QED
    BY <2>1
<1>5. CASE kept # {}
  <2>1. PICK a : a = Min(kept)
    OBVIOUS
  <2>2. PICK b : b = Max(kept)
    OBVIOUS
  <2>3. a \in 1 .. n /\ b \in 1 .. n
    BY <1>3, <1>5, <2>1, <2>2, LeastOf, GreatestOf
  <2>4. SubSeq(line, a, b) \in Seq(STRING)
    BY <1>1, <2>3, PartTyped
  <2>5. Strip(line) = SubSeq(line, a, b)
    BY <1>2, <1>5, <2>1, <2>2 DEF Strip
  <2> QED
    BY <2>4, <2>5
<1> QED
  BY <1>4, <1>5

\* A text stands in a line where the line has places for it.
LEMMA AtTyped ==
    ASSUME NEW line \in Seq(STRING), NEW text, Len(text) \in Nat \ {0}
    PROVE  /\ At(line, text) \in SUBSET (1 .. Len(line))
           /\ At(line, text) \in SUBSET Nat
<1>1. PICK n \in Nat : n = Len(line)
  BY LenProperties
<1>2. PICK m \in Nat \ {0} : m = Len(text)
  OBVIOUS
<1>3. 1 .. n - m + 1 \subseteq 1 .. n
  OBVIOUS
<1>4. At(line, text) \subseteq 1 .. n - m + 1
  BY <1>1, <1>2 DEF At
<1> QED
  BY <1>1, <1>3, <1>4

\* What stands before a text is a text.
LEMMA BeforeTyped ==
    ASSUME NEW line \in Seq(STRING), NEW text, Len(text) \in Nat \ {0}
    PROVE  Before(line, text) \in Seq(STRING)
<1>1. PICK n \in Nat : n = Len(line)
  BY LenProperties
<1>2. PICK there : there = At(line, text)
  OBVIOUS
<1>3. CASE there = {}
  BY <1>2, <1>3 DEF Before
<1>4. CASE there # {}
  <2>1. PICK k : k = Min(there)
    OBVIOUS
  <2>2. k \in 1 .. n
    BY <1>1, <1>2, <1>4, <2>1, AtTyped, LeastOf
  <2>3. SubSeq(line, 1, k - 1) \in Seq(STRING)
    BY <1>1, <2>2, PartTyped
  <2> QED
    BY <1>2, <1>4, <2>1, <2>3 DEF Before
<1> QED
  BY <1>3, <1>4

\* A text of one symbol is not empty.
LEMMA OneLong == \A w : Len(<<w>>) \in Nat \ {0}
  OBVIOUS

\* A trimmed line is a text.
LEMMA TrimTyped ==
    ASSUME NEW line \in Seq(STRING)
    PROVE  ini_trim(line) \in Seq(STRING)
<1>1. PICK kept : kept = Before(line, <<"#">>)
  OBVIOUS
<1>2. kept \in Seq(STRING)
  BY <1>1, OneLong, BeforeTyped
<1>3. Len(<<"/", "/">>) \in Nat \ {0}
  OBVIOUS
<1>4. PICK more : more = Before(kept, <<"/", "/">>)
  OBVIOUS
<1>5. more \in Seq(STRING)
  BY <1>2, <1>3, <1>4, BeforeTyped
<1>6. ini_trim(line) = Strip(more)
  BY <1>1, <1>4 DEF ini_trim
<1> QED
  BY <1>5, <1>6, StripTyped

\* The name of a section is a text.
LEMMA SectTyped ==
    ASSUME NEW line \in Seq(STRING)
    PROVE  ini_sect(line) \in Seq(STRING) \union {NoString}
<1>1. PICK n \in Nat : n = Len(line)
  BY LenProperties
<1>2. PICK open : open = At(line, <<"[">>)
  OBVIOUS
<1>3. PICK a : a = Min(open)
  OBVIOUS
<1>4. PICK close : close = {i \in At(line, <<"]">>) : i > a}
  OBVIOUS
<1>5. ini_sect(line) = IF open = {} \/ close = {} THEN NoString
                       ELSE SubSeq(line, a + 1, Min(close) - 1)
  BY <1>2, <1>3, <1>4 DEF ini_sect
<1>6. CASE open # {} /\ close # {}
  <2>1. a \in 1 .. n
    BY <1>1, <1>2, <1>3, <1>6, OneLong, AtTyped, LeastOf
  <2>2. PICK b : b = Min(close)
    OBVIOUS
  <2>3. close \in SUBSET (1 .. n) /\ close \in SUBSET Nat
    BY <1>1, <1>4, OneLong, AtTyped
  <2>4. b \in 1 .. n
    BY <1>6, <2>2, <2>3, LeastOf
  <2>5. SubSeq(line, a + 1, b - 1) \in Seq(STRING)
    BY <1>1, <2>1, <2>4, PartTyped
  <2> QED
    BY <1>5, <1>6, <2>2, <2>5
<1>7. CASE open = {} \/ close = {}
  BY <1>5, <1>7
<1> QED
  BY <1>6, <1>7

\* A setting is of texts.
LEMMA FormatTyped ==
    ASSUME NEW line \in Seq(STRING)
    PROVE  ini_format(line) \in [key : Seq(STRING), val : Seq(STRING)] \union {NoString}
<1>1. PICK n \in Nat : n = Len(line)
  BY LenProperties
<1>2. PICK there : there = At(line, <<"=">>)
  OBVIOUS
<1>3. PICK a : a = Min(there)
  OBVIOUS
<1>4. PICK key : key = Strip(Before(line, <<"=">>))
  OBVIOUS
<1>5. PICK val : val = Strip(SubSeq(line, a + 1, Len(line)))
  OBVIOUS
<1>6. ini_format(line) = IF there = {} \/ key = <<>> \/ val = <<>> THEN NoString
                         ELSE [key |-> key, val |-> val]
  BY <1>2, <1>3, <1>4, <1>5 DEF ini_format
<1>7. key \in Seq(STRING)
  BY <1>4, OneLong, BeforeTyped, StripTyped
<1>8. CASE there # {}
  <2>1. a \in 1 .. n
    BY <1>1, <1>2, <1>3, <1>8, OneLong, AtTyped, LeastOf
  <2>2. SubSeq(line, a + 1, n) \in Seq(STRING)
    BY <1>1, <2>1, PartTyped
  <2>3. val \in Seq(STRING)
    BY <1>1, <1>5, <2>2, StripTyped
  <2> QED
    BY <1>6, <1>7, <2>3
<1> QED
  BY <1>6, <1>8

\* A turn of the loop keeps a list of settings.
LEMMA LineTyped ==
    ASSUME NEW acc \in Accs, NEW read \in Seq(STRING)
    PROVE  ReadLine(acc, read) \in Accs
<1>1. PICK line : line = ini_trim(read)
  OBVIOUS
<1>2. PICK sect : sect = ini_sect(line)
  OBVIOUS
<1>3. PICK setting : setting = ini_format(line)
  OBVIOUS
<1>4. /\ sect \in Seq(STRING) \union {NoString}
      /\ setting \in [key : Seq(STRING), val : Seq(STRING)] \union {NoString}
  BY <1>1, <1>2, <1>3, TrimTyped, SectTyped, FormatTyped
<1>5. ReadLine(acc, read) =
         IF sect # NoString THEN [acc EXCEPT !.sect = sect]
         ELSE IF acc.sect = NoString \/ setting = NoString THEN acc
         ELSE [acc EXCEPT !.head = <<Setting(acc.sect, setting)>> \o @]
  BY <1>1, <1>2, <1>3 DEF ReadLine
<1>6. CASE sect # NoString
  BY <1>4, <1>5, <1>6 DEF Accs
<1>7. CASE sect = NoString /\ (acc.sect = NoString \/ setting = NoString)
  BY <1>5, <1>7
<1>8. CASE sect = NoString /\ acc.sect # NoString /\ setting # NoString
  <2>1. PICK s : s = Setting(acc.sect, setting)
    OBVIOUS
  <2>2. s \in Settings
    BY <1>4, <1>8, <2>1 DEF Setting, Settings, Accs
  <2>3. <<s>> \o acc.head \in Seq(Settings)
    BY <2>2 DEF Accs
  <2> QED
    BY <1>5, <1>8, <2>1, <2>3 DEF Accs
<1> QED
  BY <1>6, <1>7, <1>8

\* What fgets gives of a line are texts.
LEMMA ReadsTyped ==
    ASSUME NEW line \in Seq(STRING), NEW i \in 1 .. Len(Reads(line))
    PROVE  Reads(line)[i] \in Seq(STRING)
<1>1. PICK k \in Nat : k = Len(line)
  BY LenProperties
<1>2. PICK n \in Nat \ {0} : n = LINE_BUF_SIZE - 1
  BY BufferAssumption
<1>3. PICK r : r = Reads(line)
  OBVIOUS
<1>4. PICK w : w = (k + n - 1) \div n
  OBVIOUS
<1>5. r = [j \in 1 .. w |-> SubSeq(line, n * (j - 1) + 1, Min({n * j, k}))]
  BY <1>1, <1>2, <1>3, <1>4 DEF Reads
<1>6. w \in Int
  <2>1. k + n - 1 \in Nat
    OBVIOUS
  <2> QED
    BY <1>4, <2>1
<1>7. i \in 1 .. w
  <2>1. PICK m \in Nat : 1 .. w = 1 .. m
    <3>1. CASE w \in Nat
      BY <3>1
    <3>2. CASE w \notin Nat
      <4>1. 1 .. w = 1 .. 0
        BY <1>6, <3>2
      <4> QED
        BY <4>1
    <3> QED
      BY <3>1, <3>2
  <2>2. DOMAIN r = 1 .. m /\ r = [j \in 1 .. m |-> r[j]]
    BY <1>5, <2>1
  <2>3. r \in [1 .. m -> {r[j] : j \in 1 .. m}]
    BY <2>2
  <2>4. Len(r) = m
    BY <2>3, FunctionIsSeq
  <2> QED
    BY <1>3, <2>1, <2>4
<1>8. PICK b \in Int : b = n * (i - 1)
  OBVIOUS
<1>9. PICK c \in Int : c = n * i
  OBVIOUS
<1>10. b \in Nat /\ c \in Nat
  <2>1. i \in Nat /\ i - 1 \in Nat
    BY <1>6, <1>7
  <2>2. \A x, y \in Nat : x * y \in Nat
    OBVIOUS
  <2> QED
    BY <1>8, <1>9, <2>1, <2>2
<1>11. PICK e : e = Min({c, k})
  OBVIOUS
<1>12. e \in Nat /\ e <= k
  <2>1. CASE c <= k
    <3>1. e = c
      BY <1>10, <1>11, <2>1, MinIs
    <3> QED
      BY <1>10, <2>1, <3>1
  <2>2. CASE ~ (c <= k)
    <3>1. e = k
      BY <1>10, <1>11, <2>2, MinIs
    <3> QED
      BY <3>1
  <2> QED
    BY <2>1, <2>2
<1>13. r[i] = SubSeq(line, b + 1, e)
  BY <1>5, <1>7, <1>8, <1>9, <1>11
<1> QED
  BY <1>1, <1>3, <1>10, <1>12, <1>13, PartTyped

\* So do all that fgets makes of a line.
LEMMA TextTyped ==
    ASSUME NEW acc \in Accs, NEW line \in Seq(STRING)
    PROVE  ReadAll(acc, Reads(line)) \in Accs
<1>1. PICK reads : reads = Reads(line)
  OBVIOUS
<1>2. PICK n \in Nat : n = Len(reads)
  BY <1>1, ReadsLength
<1>3. PICK h : h = CHOOSE g : g = [j \in 0 .. Len(reads) |-> ReadTurn(acc, reads, g, j)]
  OBVIOUS
<1>4. h = [j \in 0 .. n |-> ReadTurn(acc, reads, h, j)]
  BY <1>2, <1>3, ReadRuns
<1>5. ReadAll(acc, reads) = h[n]
  BY <1>2, <1>3 DEF ReadAll, ReadTurn
<1> DEFINE Wrong == {m \in 0 .. n : h[m] \notin Accs}
<1>6. h[0] \in Accs
  BY <1>4 DEF ReadTurn
<1>7. ASSUME NEW m \in 1 .. n, h[m - 1] \in Accs PROVE h[m] \in Accs
  <2>1. m \in 0 .. n /\ m # 0
    OBVIOUS
  <2>2. h[m] = ReadLine(h[m - 1], reads[m])
    BY <1>4, <2>1 DEF ReadTurn
  <2>3. reads[m] \in Seq(STRING)
    BY <1>1, <1>2, ReadsTyped
  <2> QED
    BY <1>7, <2>2, <2>3, LineTyped
<1>8. Wrong = {}
  <2> SUFFICES ASSUME Wrong # {} PROVE FALSE
    OBVIOUS
  <2> Wrong \in SUBSET Nat
    OBVIOUS
  <2>1. PICK m \in Wrong : \A i \in Wrong : ~ (i < m)
    BY LeastNumber
  <2>2. m \in 1 .. n /\ m - 1 \in 0 .. n /\ m - 1 < m
    BY <1>6, <2>1
  <2>3. h[m - 1] \in Accs
    BY <2>1, <2>2
  <2> QED
    BY <1>7, <2>1, <2>2, <2>3
<1> QED
  BY <1>1, <1>5, <1>8

\* And a whole file, whatever it says.
LEMMA ReaderTyped ==
    ASSUME NEW lines \in Seq(Seq(STRING))
    PROVE  ini_init(lines) \in Seq(Settings)
<1>1. PICK n \in Nat : n = Len(lines)
  BY LenProperties
<1>2. PICK h : h = CHOOSE g : g = [i \in 0 .. Len(lines) |-> FileTurn(lines, g, i)]
  OBVIOUS
<1>3. h = [i \in 0 .. n |-> FileTurn(lines, h, i)]
  BY <1>1, <1>2, FileRuns
<1>4. ini_init(lines) = h[n].head
  BY <1>1, <1>2 DEF ini_init, FileTurn
<1> DEFINE Wrong == {m \in 0 .. n : h[m] \notin Accs}
<1>5. h[0] \in Accs
  BY <1>3 DEF FileTurn, Accs
<1>6. ASSUME NEW m \in 1 .. n, h[m - 1] \in Accs PROVE h[m] \in Accs
  <2>1. m \in 0 .. n /\ m # 0
    OBVIOUS
  <2>2. h[m] = ReadAll(h[m - 1], Reads(lines[m]))
    BY <1>3, <2>1 DEF FileTurn
  <2>3. lines[m] \in Seq(STRING)
    BY <1>1, ElementOfSeq
  <2> QED
    BY <1>6, <2>2, <2>3, TextTyped
<1>7. Wrong = {}
  <2> SUFFICES ASSUME Wrong # {} PROVE FALSE
    OBVIOUS
  <2> Wrong \in SUBSET Nat
    OBVIOUS
  <2>1. PICK m \in Wrong : \A i \in Wrong : ~ (i < m)
    BY LeastNumber
  <2>2. m \in 1 .. n /\ m - 1 \in 0 .. n /\ m - 1 < m
    BY <1>5, <2>1
  <2>3. h[m - 1] \in Accs
    BY <2>1, <2>2
  <2> QED
    BY <1>6, <2>1, <2>2, <2>3
<1>8. h[n] \in Accs
  BY <1>7
<1> QED
  BY <1>4, <1>8 DEF Accs

-----------------------------------------------------------------------------
(***************************************************************************)
(* The tokens of a text.                                                   *)
(***************************************************************************)

\* What StringToTokens does at a semicolon and at the end, and its m-th turn.
Pushed(acc) ==
    [tokens |-> IF acc.piece = <<>> /\ ~ FALSE THEN acc.tokens
                ELSE Append(acc.tokens, acc.piece),
     piece  |-> <<>>]

TokenTurn(text, h, i) ==
    IF i = 0 THEN [tokens |-> <<>>, piece |-> <<>>]
    ELSE IF text[i] = Delimiter THEN Pushed(h[i - 1])
    ELSE [h[i - 1] EXCEPT !.piece = Append(@, text[i])]

\* The recursion that stands for that loop has a solution.
LEMMA TokenRuns ==
    ASSUME NEW text, Len(text) \in Nat
    PROVE  \E h : h = [i \in 0 .. Len(text) |-> TokenTurn(text, h, i)]
<1> DEFINE Runs(m) == \E h : h = [i \in 0 .. m |-> TokenTurn(text, h, i)]
           Stuck == {m \in 0 .. Len(text) : ~ Runs(m)}
<1>1. Runs(0)
  <2>1. PICK h : h = [i \in 0 .. 0 |-> [tokens |-> <<>>, piece |-> <<>>]]
    OBVIOUS
  <2>2. \A i \in 0 .. 0 : TokenTurn(text, h, i) = [tokens |-> <<>>, piece |-> <<>>]
    BY DEF TokenTurn
  <2> QED
    BY <2>1, <2>2
<1>2. ASSUME NEW m \in 1 .. Len(text), Runs(m - 1) PROVE Runs(m)
  <2>1. PICK h : h = [i \in 0 .. m - 1 |-> TokenTurn(text, h, i)]
    BY <1>2
  <2>2. PICK g : g = [i \in 0 .. m |-> IF i < m THEN h[i] ELSE TokenTurn(text, h, m)]
    OBVIOUS
  <2>3. ASSUME NEW i \in 0 .. m PROVE g[i] = TokenTurn(text, g, i)
    <3>1. i # 0 => i - 1 \in 0 .. m - 1 /\ g[i - 1] = h[i - 1]
      BY <2>2
    <3>2. TokenTurn(text, g, i) = TokenTurn(text, h, i)
      BY <3>1 DEF TokenTurn
    <3>3. CASE i < m
      <4>1. i \in 0 .. m - 1
        BY <3>3
      <4> QED
        BY <2>1, <2>2, <3>2, <3>3, <4>1
    <3>4. CASE i = m
      BY <2>2, <3>2, <3>4
    <3> QED
      BY <3>3, <3>4
  <2>4. g = [i \in 0 .. m |-> TokenTurn(text, g, i)]
    BY <2>2, <2>3
  <2> QED
    BY <2>4
<1> HIDE DEF Runs
<1>3. Stuck = {}
  <2> SUFFICES ASSUME Stuck # {} PROVE FALSE
    OBVIOUS
  <2> Stuck \in SUBSET Nat
    OBVIOUS
  <2>1. PICK m \in Stuck : \A n \in Stuck : ~ (n < m)
    BY LeastNumber
  <2>2. m \in 1 .. Len(text) /\ m - 1 \in 0 .. Len(text) /\ m - 1 < m
    BY <1>1, <2>1
  <2>3. Runs(m - 1)
    BY <2>1, <2>2
  <2> QED
    BY <1>2, <2>1, <2>2, <2>3
<1>4. Runs(Len(text))
  BY <1>3
<1> QED
  BY <1>4 DEF Runs

Names == Seq(STRING) \ {<<>>}

\* No token is empty.
LEMMA TokensTyped ==
    ASSUME NEW text \in Seq(STRING)
    PROVE  Tokens(text) \in Seq(Names)
<1>1. PICK n \in Nat : n = Len(text)
  BY LenProperties
<1>2. PICK h : h = CHOOSE g : g = [i \in 0 .. Len(text) |-> TokenTurn(text, g, i)]
  OBVIOUS
<1>3. h = [i \in 0 .. n |-> TokenTurn(text, h, i)]
  BY <1>1, <1>2, TokenRuns
<1>4. Tokens(text) = Pushed(h[n]).tokens
  BY <1>1, <1>2 DEF Tokens, StringToTokens, TokenTurn, Pushed
<1> DEFINE Cut == [tokens : Seq(Names), piece : Seq(STRING)]
           Wrong == {m \in 0 .. n : h[m] \notin Cut}
<1>5. ASSUME NEW acc \in Cut PROVE Pushed(acc) \in Cut
  <2>1. CASE acc.piece = <<>>
    BY <2>1 DEF Pushed
  <2>2. CASE acc.piece # <<>>
    <3>1. acc.piece \in Names /\ acc.tokens \in Seq(Names)
      BY <2>2 DEF Names
    <3>2. Append(acc.tokens, acc.piece) \in Seq(Names)
      BY <3>1, AppendProperties
    <3> QED
      BY <2>2, <3>2 DEF Pushed
  <2> QED
    BY <2>1, <2>2
<1>6. h[0] \in Cut
  BY <1>3 DEF TokenTurn
<1>7. ASSUME NEW m \in 1 .. n, h[m - 1] \in Cut PROVE h[m] \in Cut
  <2>1. h[m] = IF text[m] = Delimiter THEN Pushed(h[m - 1])
               ELSE [h[m - 1] EXCEPT !.piece = Append(@, text[m])]
    <3>1. m \in 0 .. n /\ m # 0
      OBVIOUS
    <3>2. h[m] = TokenTurn(text, h, m)
      BY <1>3, <3>1
    <3> QED
      BY <3>1, <3>2 DEF TokenTurn
  <2>2. text[m] \in STRING
    BY <1>1, ElementOfSeq
  <2>3. Append(h[m - 1].piece, text[m]) \in Seq(STRING)
    BY <1>7, <2>2, AppendProperties
  <2> QED
    BY <1>5, <1>7, <2>1, <2>3
<1> HIDE DEF Cut
<1>8. Wrong = {}
  <2> SUFFICES ASSUME Wrong # {} PROVE FALSE
    OBVIOUS
  <2> Wrong \in SUBSET Nat
    OBVIOUS
  <2>1. PICK m \in Wrong : \A i \in Wrong : ~ (i < m)
    BY LeastNumber
  <2>2. m \in 1 .. n /\ m - 1 \in 0 .. n /\ m - 1 < m
    BY <1>6, <2>1
  <2>3. h[m - 1] \in Cut
    BY <2>1, <2>2
  <2> QED
    BY <1>7, <2>1, <2>2, <2>3
<1>9. Pushed(h[n]) \in Cut
  BY <1>5, <1>8
<1> QED
  BY <1>4, <1>9 DEF Cut

\* The tokens are names.
LEMMA NamesOf ==
    ASSUME NEW text \in Seq(STRING)
    PROVE  ToSet(Tokens(text)) \subseteq Names
<1>1. PICK tokens \in Seq(Names) : tokens = Tokens(text)
  BY TokensTyped
<1>2. \A i \in DOMAIN tokens : tokens[i] \in Names
  BY LenProperties, ElementOfSeq
<1> QED
  BY <1>1, <1>2 DEF ToSet

-----------------------------------------------------------------------------
(***************************************************************************)
(* The levels and the units.                                               *)
(***************************************************************************)

\* A value is a sequence of length one.
LEMMA OneTyped == ASSUME NEW S, NEW w \in S PROVE <<w>> \in Seq(S)
OBVIOUS

\* The section of the levels has a name.
LEMMA LevelTyped == <<"Level">> \in Seq(STRING)
<1>1. PICK S : S = STRING
  OBVIOUS
<1>2. PICK w \in S : w = "Level"
  BY <1>1, WordAssumption
<1>3. <<w>> \in Seq(S)
  BY OneTyped
<1> QED
  BY <1>1, <1>2, <1>3

\* The levels have names, and so have their engines.
LevelsTyped ==
    /\ DOMAIN m_level_pool \subseteq Names
    /\ \A level \in DOMAIN m_level_pool : m_level_pool[level] \in Seq(Names)

\* What is open is text, and of the versions it is said to be of.
FdTyped ==
    /\ DOMAIN fd = {"lines", "at", "linked", "of"}
    /\ fd.lines \in Seq(Seq(STRING))
    /\ \A version \in fd.of : fd.lines = Lines(version)

StartInv == TypeOK /\ LevelsTyped /\ FdTyped /\ LevelsFromFile

\* A file that is opened is.
LEMMA OpenTyped ==
    ASSUME TypeOK
    PROVE  /\ DOMAIN Open = {"lines", "at", "linked", "of"}
           /\ Open.lines \in Seq(Seq(STRING)) /\ Open.lines # <<>>
           /\ Open.of \subseteq Versions \union Rewrites
           /\ \A version \in Open.of : Open.lines = Lines(version)
<1>1. file \in Versions \union Rewrites /\ file \in Seq(Entries)
  BY FileAssumption DEF TypeOK
<1>2. PICK lines : lines = Lines(file)
  OBVIOUS
<1>3. lines \in Seq(Seq(STRING)) /\ Len(lines) = Len(file) + 1 /\ Len(file) \in Nat
  BY <1>1, <1>2, LinesTyped, LenProperties
<1>4. lines # <<>>
  BY <1>3
<1>5. /\ DOMAIN Open = {"lines", "at", "linked", "of"}
      /\ Open.lines = lines /\ Open.of = {file}
  BY <1>2 DEF Open
<1> QED
  BY <1>1, <1>2, <1>3, <1>4, <1>5

\* What is closed holds nothing.
LEMMA ClosedTyped ==
    /\ DOMAIN Closed = {"lines", "at", "linked", "of"}
    /\ Closed.lines \in Seq(Seq(STRING)) /\ Closed.lines = <<>>
    /\ Closed.of = {} /\ Closed.linked = FALSE
BY DEF Closed

\* So is what a rewrite makes of it.
LEMMA SplicedTyped ==
    ASSUME NEW old \in Seq(Seq(STRING)), NEW new \in Seq(Seq(STRING)),
           NEW p \in Places(old), NEW q \in Places(new)
    PROVE  Spliced(old, p, new, q) \in Seq(Seq(STRING)) /\ Spliced(old, p, new, q) # <<>>
<1>1. PICK n \in Nat : n = Len(old) /\ DOMAIN old = 1 .. n
  BY LenProperties
<1>2. PICK m \in Nat : m = Len(new) /\ DOMAIN new = 1 .. m
  BY LenProperties
<1>3. PICK i \in 1 .. n : p \in {i} \X (0 .. Len(old[i]))
  BY <1>1 DEF Places
<1>31. PICK c \in 0 .. Len(old[i]) : p = <<i, c>>
  BY <1>3
<1>4. PICK j \in 1 .. m : q \in {j} \X (0 .. Len(new[j]))
  BY <1>2 DEF Places
<1>41. PICK d \in 0 .. Len(new[j]) : q = <<j, d>>
  BY <1>4
<1>5. old[i] \in Seq(STRING) /\ new[j] \in Seq(STRING)
  BY <1>1, <1>2, ElementOfSeq
<1>6. PICK e \in Nat : e = Len(new[j])
  BY <1>5, LenProperties
<1>7. PICK start : start = SubSeq(old[i], 1, c)
  OBVIOUS
<1>8. PICK end : end = SubSeq(new[j], d + 1, e)
  OBVIOUS
<1>9. start \in Seq(STRING)
  <2>1. Len(old[i]) \in Nat /\ c \in Int /\ c <= Len(old[i])
    BY <1>5, LenProperties
  <2> QED
    BY <1>5, <1>7, <2>1, PartTyped
<1>10. end \in Seq(STRING)
  <2>1. d + 1 \in Nat \ {0}
    BY <1>6
  <2> QED
    BY <1>5, <1>6, <1>8, <2>1, PartTyped
<1>11. PICK line \in Seq(STRING) : line = start \o end
  BY <1>9, <1>10, ConcatProperties
<1>12. PICK before : before = SubSeq(old, 1, i - 1)
  OBVIOUS
<1>13. PICK after : after = SubSeq(new, j + 1, m)
  OBVIOUS
<1>14. before \in Seq(Seq(STRING))
  <2>1. i - 1 \in Int /\ i - 1 <= n
    OBVIOUS
  <2> QED
    BY <1>1, <1>12, <2>1, PartTyped
<1>15. after \in Seq(Seq(STRING))
  BY <1>2, <1>13, PartTyped
<1>16. Spliced(old, p, new, q) = (before \o <<line>>) \o after
  <2>1. p[1] = i /\ p[2] = c /\ q[1] = j /\ q[2] = d
    BY <1>31, <1>41
  <2> QED
    BY <1>2, <1>6, <1>7, <1>8, <1>11, <1>12, <1>13, <2>1 DEF Spliced
<1>17. PICK T : T = Seq(STRING)
  OBVIOUS
<1>18. <<line>> \in Seq(T) /\ Len(<<line>>) = 1
  BY <1>17, OneTyped
<1>19. /\ before \o <<line>> \in Seq(T)
       /\ Len(before \o <<line>>) = Len(before) + 1
  BY <1>14, <1>17, <1>18, ConcatProperties
<1>20. /\ (before \o <<line>>) \o after \in Seq(T)
       /\ Len((before \o <<line>>) \o after) = Len(before) + 1 + Len(after)
  BY <1>15, <1>17, <1>19, ConcatProperties
<1>21. Len(before) \in Nat /\ Len(after) \in Nat
  BY <1>14, <1>15, LenProperties
<1>22. PICK all : all = (before \o <<line>>) \o after
  OBVIOUS
<1>23. Len(all) # 0
  BY <1>20, <1>21, <1>22
<1>24. all # <<>>
  BY <1>23
<1> QED
  BY <1>16, <1>17, <1>20, <1>22, <1>24

\* What ReadLevels enters: of a text that has levels, each of them with the
\* engines of its line, beside the levels that were there.
LEMMA Configured ==
    ASSUME FdTyped, ReadLevels, rc' = 0
    PROVE  \E head \in Seq(Settings), levels \in Seq(STRING) :
             LET names      == ToSet(Tokens(levels))
                 Engines(n) == ini_read(head, <<"Level">>, n)
             IN  /\ head = ini_init(fd.lines)
                 /\ levels = ini_read(head, <<"Level">>, <<"levels">>)
                 /\ m_level_pool' =
                       [level \in DOMAIN m_level_pool \union names |->
                              IF level \notin names THEN m_level_pool[level]
                              ELSE IF Engines(level) = NoString THEN <<>>
                              ELSE Tokens(Engines(level))]
<1>1. PICK head \in Seq(Settings) : head = ini_init(fd.lines)
  BY ReaderTyped DEF FdTyped
<1>2. PICK levels : levels = ini_read(head, <<"Level">>, <<"levels">>)
  OBVIOUS
<1>3. PICK names : names = ToSet(Tokens(levels))
  OBVIOUS
<1>4. PICK entered : entered = [n \in names |-> EnginesOf(head, n)]
  OBVIOUS
<1>5. /\ levels # NoString /\ m_level_pool' = Enter(m_level_pool, entered)
  <2>1. ConfigRc(head) = 0
    BY <1>1 DEF ReadLevels
  <2>2. levels # NoString
    BY <1>2, <2>1 DEF ConfigRc
  <2>3. m_level_pool' = Enter(m_level_pool,
           [n \in ToSet(Tokens(ini_read(ini_init(fd.lines), <<"Level">>, <<"levels">>))) |->
              EnginesOf(ini_init(fd.lines), n)])
    BY Zenon DEF ReadLevels
  <2> QED
    BY <1>1, <1>2, <1>3, <1>4, <2>2, <2>3
<1>6. levels \in Seq(STRING)
  BY <1>2, <1>5, ReadTyped
<1>7. \A n \in names :
         entered[n] = LET engines == ini_read(head, <<"Level">>, n)
                      IN  IF engines = NoString THEN <<>> ELSE Tokens(engines)
  BY <1>4 DEF EnginesOf
<1>8. DOMAIN entered = names
  BY <1>4
<1>9. m_level_pool' = [level \in DOMAIN m_level_pool \union names |->
                         IF level \in names THEN entered[level] ELSE m_level_pool[level]]
  BY <1>5, <1>8 DEF Enter
<1>10. m_level_pool' = [level \in DOMAIN m_level_pool \union names |->
          IF level \notin names THEN m_level_pool[level]
          ELSE LET engines == ini_read(head, <<"Level">>, level)
               IN  IF engines = NoString THEN <<>> ELSE Tokens(engines)]
  BY <1>7, <1>9
<1> QED
  BY <1>1, <1>2, <1>3, <1>6, <1>10

\* So the levels are typed, and those of the file.
LEMMA ConfiguredLevels ==
    ASSUME TypeOK, LevelsTyped, FdTyped, ReadLevels, rc' = 0
    PROVE  LevelsTyped' /\ LevelsFromFile'
<1> PICK pool : pool = m_level_pool'
  OBVIOUS
<1>1. PICK head \in Seq(Settings), levels \in Seq(STRING) :
         LET names      == ToSet(Tokens(levels))
             Engines(n) == ini_read(head, <<"Level">>, n)
         IN  /\ head = ini_init(fd.lines)
             /\ levels = ini_read(head, <<"Level">>, <<"levels">>)
             /\ pool = [level \in DOMAIN m_level_pool \union names |->
                          IF level \notin names THEN m_level_pool[level]
                          ELSE IF Engines(level) = NoString THEN <<>>
                          ELSE Tokens(Engines(level))]
  BY Configured
<1>2. PICK names : names = ToSet(Tokens(levels))
  OBVIOUS
<1>3. names \subseteq Names
  BY <1>2, NamesOf
<1>4. ASSUME NEW level
      PROVE  LET engines == ini_read(head, <<"Level">>, level)
             IN  engines = NoString \/ Tokens(engines) \in Seq(Names)
  <2>1. PICK engines : engines = ini_read(head, <<"Level">>, level)
    OBVIOUS
  <2>2. engines \in Seq(STRING) \union {NoString}
    BY <2>1, ReadTyped
  <2>3. engines # NoString => Tokens(engines) \in Seq(Names)
    BY <2>2, TokensTyped
  <2> QED
    BY <2>1, <2>3
<1>5. DOMAIN pool = DOMAIN m_level_pool \union names
  BY <1>1, <1>2
<1>6. \A level \in names :
         pool[level] = LET engines == ini_read(head, <<"Level">>, level)
                       IN  IF engines = NoString THEN <<>> ELSE Tokens(engines)
  BY <1>1, <1>2
<1>7. \A level \in DOMAIN m_level_pool \ names : pool[level] = m_level_pool[level]
  BY <1>1, <1>2
<1>8. LevelsTyped'
  <2>1. DOMAIN pool \subseteq Names
    BY <1>3, <1>5 DEF LevelsTyped
  <2>2. ASSUME NEW level \in DOMAIN pool PROVE pool[level] \in Seq(Names)
    <3>1. CASE level \in names
      <4>1. PICK engines : engines = ini_read(head, <<"Level">>, level)
        OBVIOUS
      <4>2. engines = NoString \/ Tokens(engines) \in Seq(Names)
        BY <1>4, <4>1
      <4>3. pool[level] = IF engines = NoString THEN <<>> ELSE Tokens(engines)
        BY <1>6, <3>1, <4>1
      <4> QED
        BY <4>2, <4>3
    <3>2. CASE level \notin names
      BY <1>5, <1>7, <3>2 DEF LevelsTyped
    <3> QED
      BY <3>1, <3>2
  <2> QED
    BY <1>1, <2>1, <2>2 DEF LevelsTyped
<1>9. levels_of' = fd.of
  BY DEF ReadLevels
<1>10. ASSUME NEW version \in fd.of
       PROVE  /\ levels = Meant(version, <<"Level">>, <<"levels">>)
              /\ \A level \in names :
                    ini_read(head, <<"Level">>, level) = Meant(version, <<"Level">>, level)
  <2>1. version \in Versions \union Rewrites /\ head = ini_init(Lines(version))
    BY <1>1 DEF TypeOK, FdTyped
  <2>2. \A sect \in Seq(STRING) : \A key :
           ini_read(head, sect, key) = Meant(version, sect, key)
    BY <2>1, ReaderFaithful
  <2> QED
    BY <1>1, <2>2, LevelTyped
<1>11. LevelsFromFile'
  BY <1>1, <1>2, <1>5, <1>6, <1>9, <1>10 DEF LevelsFromFile
<1> QED
  BY <1>8, <1>11

\* The names keep TypeOK's word on empty ones.
LEMMA LevelsNotEmpty ==
    ASSUME LevelsTyped
    PROVE  /\ \A level \in DOMAIN m_level_pool : <<>> \notin ToSet(m_level_pool[level])
           /\ <<>> \notin DOMAIN m_level_pool
<1>1. ASSUME NEW s \in Seq(Names) PROVE <<>> \notin ToSet(s)
  <2>1. \A i \in DOMAIN s : s[i] \in Names
    BY LenProperties, ElementOfSeq
  <2> QED
    BY <2>1 DEF ToSet, Names
<1> QED
  BY <1>1 DEF LevelsTyped, Names

\* The process starts without levels.
LEMMA StartInit == Init => StartInv
<1> SUFFICES ASSUME Init PROVE StartInv
  OBVIOUS
<1>1. TypeOK
  <2>1. ToSet(<<>>) = {} /\ DOMAIN <<>> = {}
    BY DEF ToSet
  <2>2. changes \in 0 .. MaxChanges
    BY BoundAssumption DEF Init
  <2> QED
    BY <2>1, <2>2, ClosedTyped DEF Init, TypeOK
<1>2. LevelsTyped
  <2>1. DOMAIN <<>> = {}
    OBVIOUS
  <2> QED
    BY <2>1 DEF Init, LevelsTyped
<1>3. FdTyped /\ LevelsFromFile
  BY ClosedTyped DEF Init, FdTyped, LevelsFromFile
<1> QED
  BY <1>1, <1>2, <1>3 DEF StartInv

\* A rewrite under the reader leaves it a text, of no version that it is not.
LEMMA RewriteStep ==
    ASSUME TypeOK, FdTyped, NEW version \in Rewrites, Rewrite(version)
    PROVE  /\ FdTyped'
           /\ fd'.of \subseteq Versions \union Rewrites
           /\ fd'.lines # <<>>
<1>1. PICK p \in Places(fd.lines), q \in Places(Lines(version)) :
         fd' = [lines  |-> Spliced(fd.lines, p, Lines(version), q),
                at     |-> Offset(fd.lines, p),
                linked |-> TRUE,
                of     |-> {v \in fd.of \union {version} :
                              Lines(v) = Spliced(fd.lines, p, Lines(version), q)}]
  BY DEF Rewrite
<1>2. PICK lines : lines = Spliced(fd.lines, p, Lines(version), q)
  OBVIOUS
<1>3. Lines(version) \in Seq(Seq(STRING))
  BY FileAssumption, LinesTyped
<1>4. lines \in Seq(Seq(STRING)) /\ lines # <<>>
  BY <1>2, <1>3, SplicedTyped DEF FdTyped
<1>5. /\ DOMAIN fd' = {"lines", "at", "linked", "of"}
      /\ fd'.lines = lines /\ fd'.of = {v \in fd.of \union {version} : Lines(v) = lines}
  BY <1>1, <1>2
<1>6. fd'.of \subseteq Versions \union Rewrites
  BY <1>5 DEF TypeOK
<1>7. \A v \in fd'.of : fd'.lines = Lines(v)
  BY <1>5
<1> QED
  BY <1>4, <1>5, <1>6, <1>7 DEF FdTyped

\* An edit of the file leaves the levels as they are, and the reader a text.
LEMMA EditStep == StartInv /\ EditFile => StartInv'
<1> SUFFICES ASSUME StartInv, EditFile PROVE StartInv'
  OBVIOUS
<1>1. PICK version \in Rewrites :
         file' = version /\ (fd' = [fd EXCEPT !.linked = FALSE] \/ Rewrite(version))
  BY DEF EditFile
<1>2. /\ FdTyped'
      /\ fd'.of \subseteq Versions \union Rewrites
      /\ fd'.linked => fd'.lines # <<>>
  <2>1. CASE fd' = [fd EXCEPT !.linked = FALSE]
    <3>1. fd'.lines = fd.lines /\ fd'.of = fd.of
      BY <2>1 DEF StartInv, FdTyped
    <3>2. fd'.linked = FALSE /\ DOMAIN fd' = DOMAIN fd
      BY <2>1 DEF StartInv, FdTyped
    <3>3. FdTyped'
      BY <3>1, <3>2 DEF StartInv, FdTyped
    <3> QED
      BY <3>1, <3>2, <3>3 DEF StartInv, TypeOK
  <2>2. CASE Rewrite(version)
    BY <2>2, RewriteStep DEF StartInv
  <2> QED
    BY <1>1, <2>1, <2>2
<1>3. TypeOK'
  <2>1. changes' \in 0 .. MaxChanges
    BY BoundAssumption DEF EditFile, StartInv, TypeOK
  <2> QED
    BY <1>1, <1>2, <2>1 DEF EditFile, StartInv, TypeOK
<1>4. LevelsTyped' /\ LevelsFromFile'
  BY DEF EditFile, StartInv, LevelsTyped, LevelsFromFile
<1> QED
  BY <1>2, <1>3, <1>4 DEF StartInv

\* Load comes by the engines, and OpenConfig by a text.
LEMMA LoadStarts == StartInv /\ (Load \/ OpenConfig) => StartInv'
<1> SUFFICES ASSUME StartInv, Load \/ OpenConfig PROVE StartInv'
  OBVIOUS
<1>1. LevelsTyped' /\ LevelsFromFile'
  BY DEF Load, OpenConfig, StartInv, LevelsTyped, LevelsFromFile
<1>2. CASE Load
  <2>1. changes' \in 0 .. MaxChanges
    BY <1>2, BoundAssumption DEF Load, StartInv, TypeOK
  <2>2. TypeOK' /\ FdTyped'
    BY <1>2, <2>1 DEF Load, StartInv, TypeOK, FdTyped
  <2> QED
    BY <1>1, <2>2 DEF StartInv
<1>3. CASE OpenConfig
  <2>1. fd' = Open
    BY <1>3 DEF OpenConfig
  <2>2. FdTyped'
    BY <2>1, OpenTyped DEF FdTyped, StartInv
  <2>3. fd'.of \subseteq Versions \union Rewrites /\ fd'.lines # <<>>
    BY <2>1, OpenTyped DEF StartInv
  <2>4. TypeOK'
    BY <1>3, <2>3 DEF OpenConfig, StartInv, TypeOK
  <2> QED
    BY <1>1, <2>2, <2>4 DEF StartInv
<1> QED
  BY <1>2, <1>3

\* A unit is made while Load has engines left.
LEMMA EngineStep == StartInv /\ LoadEngine => StartInv'
<1> SUFFICES ASSUME StartInv, LoadEngine PROVE StartInv'
  OBVIOUS
<1>1. fd' = Closed
  BY DEF LoadEngine
<1>2. FdTyped' /\ fd'.of \subseteq Versions \union Rewrites /\ fd'.linked = FALSE
  BY <1>1, ClosedTyped DEF FdTyped
<1>3. TypeOK' /\ LevelsTyped' /\ LevelsFromFile'
  BY <1>2 DEF LoadEngine, StartInv, TypeOK, LevelsTyped, LevelsFromFile
<1> QED
  BY <1>2, <1>3 DEF StartInv

\* SetConfig opens the file, or returns.
LEMMA ConfigStep ==
    ASSUME StartInv, NEW path \in BOOLEAN, SetConfig(path)
    PROVE  StartInv'
<1>1. LevelsTyped' /\ LevelsFromFile'
  BY DEF SetConfig, StartInv, LevelsTyped, LevelsFromFile
<1>2. changes' \in 0 .. MaxChanges
  BY BoundAssumption DEF SetConfig, StartInv, TypeOK
<1>3. CASE path
  <2>1. fd' = Open /\ rc' = rc
    BY <1>3 DEF SetConfig
  <2>2. FdTyped'
    BY <2>1, OpenTyped DEF FdTyped, StartInv
  <2>3. fd'.of \subseteq Versions \union Rewrites /\ fd'.lines # <<>>
    BY <2>1, OpenTyped DEF StartInv
  <2>4. TypeOK'
    BY <1>2, <2>1, <2>3 DEF SetConfig, StartInv, TypeOK
  <2> QED
    BY <1>1, <2>2, <2>4 DEF StartInv
<1>4. CASE ~ path
  <2>1. fd' = fd /\ rc' = 1
    BY <1>4 DEF SetConfig
  <2>2. TypeOK' /\ FdTyped'
    BY <1>2, <2>1 DEF SetConfig, StartInv, TypeOK, FdTyped
  <2> QED
    BY <1>1, <2>2 DEF StartInv
<1> QED
  BY <1>3, <1>4

\* ReadLevels enters the levels of the file, or changes none.
LEMMA LevelsStep == StartInv /\ ReadLevels => StartInv'
<1> SUFFICES ASSUME StartInv, ReadLevels PROVE StartInv'
  OBVIOUS
<1>1. fd' = Closed
  BY DEF ReadLevels
<1>2. FdTyped' /\ fd'.of \subseteq Versions \union Rewrites /\ fd'.linked = FALSE
  BY <1>1, ClosedTyped DEF FdTyped
<1>3. LevelsTyped' /\ LevelsFromFile'
  <2>1. CASE rc' = 0
    BY <2>1, ConfiguredLevels DEF StartInv
  <2>2. CASE rc' # 0
    <3>1. UNCHANGED <<m_level_pool, levels_of>>
      BY <2>2 DEF ReadLevels
    <3> QED
      BY <3>1 DEF StartInv, LevelsTyped, LevelsFromFile
  <2> QED
    BY <2>1, <2>2
<1>4. /\ \A level \in DOMAIN m_level_pool' : <<>> \notin ToSet(m_level_pool'[level])
      /\ <<>> \notin DOMAIN m_level_pool'
  <2>1. LevelsTyped' => (/\ \A level \in DOMAIN m_level_pool : <<>> \notin ToSet(m_level_pool[level])
                         /\ <<>> \notin DOMAIN m_level_pool)'
    BY LevelsNotEmpty, PTL
  <2> QED
    BY <1>3, <2>1
<1>5. rc' \in {-1, 0, 1, 2}
  <2>1. rc' = ConfigRc(ini_init(fd.lines))
    BY DEF ReadLevels
  <2> QED
    BY <2>1 DEF ConfigRc
<1>6. alive' \in BOOLEAN
  <2>1. alive' = alive \/ alive' \in BOOLEAN
    <3>1. CASE rc' # 0
      BY <3>1 DEF ReadLevels
    <3>2. CASE rc' = 0
      <4>1. PICK risky : risky = (\E n \in ToSet(Tokens(ini_read(ini_init(fd.lines),
                                     <<"Level">>, <<"levels">>))) :
                  ini_read(ini_init(fd.lines), <<"Level">>, n) = NoString)
        OBVIOUS
      <4>2. alive' \in IF risky THEN BOOLEAN ELSE {TRUE}
        BY <3>2, <4>1 DEF ReadLevels
      <4> QED
        BY <4>2
    <3> QED
      BY <3>1, <3>2
  <2> QED
    BY <2>1 DEF StartInv, TypeOK
<1>7. levels_of' = fd.of \/ levels_of' = levels_of
  BY DEF ReadLevels
<1>8. UNCHANGED <<file, changes, m_config>>
  BY DEF ReadLevels
<1>9. TypeOK'
  BY <1>2, <1>4, <1>5, <1>6, <1>7, <1>8 DEF StartInv, TypeOK
<1> QED
  BY <1>2, <1>3, <1>9 DEF StartInv

\* Every step keeps the invariant.
LEMMA StartStep == StartInv /\ [Next]_vars => StartInv'
<1> SUFFICES ASSUME StartInv, [Next]_vars PROVE StartInv'
  OBVIOUS
<1>1. CASE EditFile
  BY <1>1, EditStep
<1>2. CASE Load \/ OpenConfig
  BY <1>2, LoadStarts
<1>3. CASE LoadEngine
  BY <1>3, EngineStep
<1>4. CASE ReadLevels
  BY <1>4, LevelsStep
<1>5. ASSUME NEW path \in BOOLEAN, SetConfig(path) PROVE StartInv'
  BY <1>5, ConfigStep
<1>6. CASE UNCHANGED vars
  BY <1>6 DEF vars, StartInv, TypeOK, LevelsTyped, FdTyped, LevelsFromFile
<1> QED
  BY <1>1, <1>2, <1>3, <1>4, <1>5, <1>6 DEF Next

\* The invariant holds of every file, edit and call.
LEMMA StartAlways == Spec => []StartInv
<1>1. Init => StartInv
  BY StartInit
<1>2. StartInv /\ [Next]_vars => StartInv'
  BY StartStep
<1> QED
  BY <1>1, <1>2, PTL DEF Spec

\* The process holds values of the right kind, no level and no engine without
\* a name among them (match_engine_level.cpp:52-100, util.cpp:158-179).
THEOREM LevelsHaveNames == Spec => []TypeOK
<1>1. StartInv => TypeOK
  BY DEF StartInv
<1> QED
  BY <1>1, StartAlways, PTL

\* After a SetConfig that returned 0 the levels are what the file's author
\* meant, for every file, however its lines are laid out and whatever fgets
\* makes of the long ones (match_engine_level.cpp:52-100, ini.cpp:112-223).
THEOREM LevelsAreTheFiles == Spec => []LevelsFromFile
<1>1. StartInv => LevelsFromFile
  BY DEF StartInv
<1> QED
  BY <1>1, StartAlways, PTL

-----------------------------------------------------------------------------
\* What a unit reads of a version of the file, when it has all it needs.
UnitOf(unit, version, engine) ==
    LET Says(key) == Meant(version, engine, <<key>>)
    IN  /\ \A key \in Required : Says(key) # NoString
        /\ \A key \in Required \union Optional :
              unit.settings[key] = IF Says(key) = NoString THEN <<>> ELSE Says(key)
        /\ unit.blacklist <=> Says("blacklist") \in {NoString, <<"1">>}

\* A unit is made of what is read.
LEMMA UnitMade ==
    ASSUME StartInv, NEW engine, NEW version \in fd.of,
           UnitRc(ini_init(fd.lines), engine) = 0
    PROVE  UnitOf(readConfig(ini_init(fd.lines), engine), version, engine)
<1>1. PICK head : head = ini_init(fd.lines)
  OBVIOUS
<1>2. /\ head \in Seq(Settings)
      /\ \A sect \in Seq(STRING) : \A key :
            ini_read(head, sect, key) = Meant(version, sect, key)
  <2>1. version \in Versions \union Rewrites /\ head = ini_init(Lines(version))
    BY <1>1 DEF StartInv, TypeOK, FdTyped
  <2> QED
    BY <2>1, ReaderFaithful
<1>3. \A key \in Required : ini_read(head, engine, <<key>>) # NoString
  <2> SUFFICES ASSUME NEW key \in Required, ini_read(head, engine, <<key>>) = NoString
               PROVE  FALSE
    OBVIOUS
  <2>1. UnitRc(head, engine) = 2
    BY Zenon DEF UnitRc
  <2> QED
    BY <1>1, <2>1
<1>4. engine \in Seq(STRING)
  <2>1. ini_read(head, engine, <<"dict_type">>) # NoString
    BY <1>3 DEF Required
  <2> QED
    BY <1>2, <2>1, ReadTyped
<1>5. \A key : ini_read(head, engine, key) = Meant(version, engine, key)
  BY <1>2, <1>4
<1>6. PICK unit : unit = readConfig(head, engine)
  OBVIOUS
<1>7. \A key \in Required \union Optional :
         unit.settings[key] = IF ini_read(head, engine, <<key>>) = NoString THEN <<>>
                              ELSE ini_read(head, engine, <<key>>)
  BY <1>6 DEF readConfig
<1>8. unit.blacklist = (ini_read(head, engine, <<"blacklist">>) \in {NoString, <<"1">>})
  BY <1>6 DEF readConfig
<1>9. UnitOf(unit, version, engine)
  BY <1>3, <1>5, <1>7, <1>8 DEF UnitOf
<1> QED
  BY <1>1, <1>6, <1>9

\* Load puts units into the pool that have all they need and are of the version
\* of the file their engine opened, however often it is replaced between the
\* engines and during a read, whatever buffers the reader has; a file rewritten
\* under the reader is excepted (match_engine_unit.cpp:368-530, ini.cpp:112-162).
THEOREM UnitsAreOfOneVersion == Spec => UnitsFromFile
<1> DEFINE Made == \A engine \in DOMAIN m_engine_pool' :
               engine \notin DOMAIN m_engine_pool \/ m_engine_pool'[engine] # m_engine_pool[engine] =>
                 \A version \in fd.of : UnitOf(m_engine_pool'[engine], version, engine)
<1>1. StartInv /\ [Next]_vars => [Made]_vars
  <2> SUFFICES ASSUME StartInv, Next PROVE Made
    OBVIOUS
  <2>1. CASE LoadEngine
    <3> SUFFICES ASSUME NEW engine \in DOMAIN m_engine_pool',
                        \/ engine \notin DOMAIN m_engine_pool
                        \/ m_engine_pool'[engine] # m_engine_pool[engine],
                        NEW version \in fd.of
                 PROVE  UnitOf(m_engine_pool'[engine], version, engine)
      OBVIOUS
    <3>1. /\ UnitRc(ini_init(fd.lines), Head(left)) = 0
          /\ m_engine_pool' = [e \in DOMAIN m_engine_pool \union {Head(left)} |->
                IF e = Head(left) THEN readConfig(ini_init(fd.lines), Head(left))
                ELSE m_engine_pool[e]]
      BY <2>1 DEF LoadEngine
    <3>2. engine = Head(left)
      BY <3>1
    <3>3. m_engine_pool'[engine] = readConfig(ini_init(fd.lines), engine)
      BY <3>1, <3>2
    <3> QED
      BY <3>1, <3>2, <3>3, UnitMade
  <2>2. CASE ~ LoadEngine
    <3>1. m_engine_pool' = m_engine_pool
      BY <2>2 DEF Next, EditFile, Load, OpenConfig, ReadLevels, SetConfig
    <3> QED
      BY <3>1
  <2> QED
    BY <2>1, <2>2
<1>2. Spec => [][Made]_vars
  BY <1>1, StartAlways, PTL DEF Spec
<1> QED
  BY <1>2 DEF UnitsFromFile, UnitOf
=============================================================================
