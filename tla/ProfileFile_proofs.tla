------------------------- MODULE ProfileFile_proofs -------------------------
(***************************************************************************)
(* Proofs about ProfileFile: for all names of settings, all files that a   *)
(* user may put in place and all numbers of calls, the numbers in a        *)
(* profile survive the text of its file, and a save that is cut short      *)
(* between two lines leaves a file that is read as the first settings.     *)
(***************************************************************************)
EXTENDS ProfileFile, NaturalsInduction, SequenceTheorems, WellFoundedInduction, TLAPS

Char == Digit \union {Letter}

(* The lines of files, and what the constructor has made of some of them *)
Line == {Empty, Malformed} \union {Section(s) : s \in SectionName \union {NoName}}
        \union {Setting(pair[1], pair[2]) : pair \in (KeyName \union {NoName}) \X Text}

IsTexts(d) == /\ d = [k \in DOMAIN d |-> d[k]]
              /\ DOMAIN d \subseteq Name
              /\ \A k \in DOMAIN d : d[k] \in Text \ {<<>>}

IsReading(acc) ==
  \E s \in SectionName \union {NoName}, ok \in BOOLEAN : \E d :
     IsTexts(d) /\ acc = [section |-> s, data |-> d, ok |-> ok]

-----------------------------------------------------------------------------
(* Folds                                                                   *)

(* A set of numbers has a first one *)
LEMMA FirstOf ==
  ASSUME NEW I, I \subseteq Nat, I # {}
  PROVE  \E i \in I : \A j \in I : i <= j
<1>1. IsWellFoundedOn(OpToRel(<, Nat), Nat)
  BY NatLessThanWellFounded
<1>2. PICK i \in I : \A j \in I : ~(<<j, i>> \in OpToRel(<, Nat))
  BY <1>1, WFMin
<1>3. \A j \in I : ~(j < i)
  BY <1>2 DEF OpToRel
<1> QED BY <1>3

(* The last position of a prefix, and what is left without it *)
LEMMA LastOf ==
  ASSUME NEW n \in Nat
  PROVE  /\ 1..0 = {}
         /\ n # 0 => 1..n # {} /\ Max(1..n) = n /\ (1..n) \ {n} = 1..(n - 1)
<1>1. n # 0 => Max(1..n) = n
  <2>1. n # 0 => n \in 1..n /\ \A y \in 1..n : n >= y
    OBVIOUS
  <2>2. \A x \in 1..n : (\A y \in 1..n : x >= y) /\ n \in 1..n => x = n
    OBVIOUS
  <2> QED BY <2>1, <2>2 DEF Max
<1> QED BY <1>1

(* The last position of a set that has n in it *)
LEMMA MaxWithLast ==
  ASSUME NEW n \in Nat, NEW s \in SUBSET (1..n), n \in s
  PROVE  Max(s) = n
<1>1. \A y \in s : n >= y
  OBVIOUS
<1>2. \A x \in s : (\A y \in s : x >= y) => x = n
  OBVIOUS
<1> QED BY <1>1, <1>2 DEF Max

(* ... and of one that may not have it *)
LEMMA MaxOfSome ==
  ASSUME NEW n \in Nat, NEW s \in SUBSET (1..n), s # {}
  PROVE  Max(s) \in s
<1> DEFINE J == {j \in Nat : n - j \in s}
<1>1. \A y \in s : n - y \in J
  OBVIOUS
<1>2. J \subseteq Nat /\ J # {}
  BY <1>1
<1>3. \A j \in J : j \in Nat /\ n - j \in s
  OBVIOUS
<1> HIDE DEF J
<1>4. PICK i \in J : \A j \in J : i <= j
  BY <1>2, FirstOf
<1>5. \A y \in s : n - i >= y
  BY <1>1, <1>3, <1>4
<1> QED BY <1>3, <1>4, <1>5 DEF Max

(* What the fold of ReadLine has made of the lines at a set of positions *)
Readings(readings, lines, n) ==
  readings = [s \in SUBSET (1..n) |->
                IF s = {} THEN NothingRead
                ELSE ReadLine(readings[s \ {Max(s)}], lines[Max(s)])]

LEMMA ReadingsExist ==
  ASSUME NEW lines, NEW n \in Nat
  PROVE  \E readings : Readings(readings, lines, n)
<1> DEFINE I == {m \in Nat : ~\E readings : Readings(readings, lines, m)}
<1> SUFFICES ASSUME I # {} PROVE FALSE
  OBVIOUS
<1>1. PICK m \in I : \A j \in I : m <= j
  BY FirstOf
<1>2. m # 0
  <2>1. Readings([s \in SUBSET (1..0) |-> NothingRead], lines, 0)
    BY DEF Readings
  <2> QED BY <2>1
<1>3. PICK less : Readings(less, lines, m - 1)
  BY <1>1, <1>2
<1> DEFINE more == [s \in SUBSET (1..m) |->
                      IF m \in s THEN ReadLine(less[s \ {m}], lines[m]) ELSE less[s]]
<1>4. Readings(more, lines, m)
  <2> SUFFICES ASSUME NEW s \in SUBSET (1..m)
               PROVE  more[s] = IF s = {} THEN NothingRead
                                ELSE ReadLine(more[s \ {Max(s)}], lines[Max(s)])
    BY Zenon DEF Readings
  <2>1. CASE m \in s
    <3>1. Max(s) = m
      BY <2>1, MaxWithLast
    <3>2. more[s \ {m}] = less[s \ {m}]
      OBVIOUS
    <3> QED BY <2>1, <3>1, <3>2
  <2>2. CASE m \notin s /\ s # {}
    <3>1. s \in SUBSET (1..(m - 1))
      BY <1>1, <1>2, <2>2
    <3>2. Max(s) \in s
      BY <2>2, MaxOfSome
    <3>3. more[s \ {Max(s)}] = less[s \ {Max(s)}]
      BY <2>2
    <3>4. less[s] = ReadLine(less[s \ {Max(s)}], lines[Max(s)])
      BY <1>3, <2>2, <3>1, Zenon DEF Readings
    <3> QED BY <2>2, <3>3, <3>4
  <2>3. CASE s = {}
    <3>1. less[s] = NothingRead
      BY <1>3, <2>3, Zenon DEF Readings
    <3> QED BY <2>3, <3>1
  <2> QED BY <2>1, <2>2, <2>3
<1> QED BY <1>1, <1>4

(* On the prefixes of the lines it is what its recursion says *)
LEMMA ReadingOfPrefix ==
  ASSUME NEW lines, NEW n \in Nat, NEW readings, Readings(readings, lines, n), NEW i \in 0..n
  PROVE  readings[1..i] = IF i = 0 THEN NothingRead
                          ELSE ReadLine(readings[1..(i - 1)], lines[i])
<1>1. 1..i \in SUBSET (1..n)
  OBVIOUS
<1>2. readings[1..i] = IF 1..i = {} THEN NothingRead
                       ELSE ReadLine(readings[(1..i) \ {Max(1..i)}], lines[Max(1..i)])
  BY <1>1, Zenon DEF Readings
<1>3. CASE i = 0
  BY <1>2, <1>3, LastOf
<1>4. CASE i # 0
  <2>1. i \in Nat
    OBVIOUS
  <2>2. 1..i # {} /\ Max(1..i) = i /\ (1..i) \ {i} = 1..(i - 1)
    BY <1>4, <2>1, LastOf
  <2>3. readings[1..i] = ReadLine(readings[(1..i) \ {Max(1..i)}], lines[Max(1..i)])
    BY <1>2, <2>2
  <2>4. readings[1..i] = ReadLine(readings[1..(i - 1)], lines[i])
    BY <2>2, <2>3, Zenon
  <2> QED BY <1>4, <2>4, Zenon
<1> QED BY <1>3, <1>4

(* Lines that begin alike are read alike *)
LEMMA ReadingsAgree ==
  ASSUME NEW a, NEW b, NEW n \in Nat, NEW m \in Nat, NEW f, NEW g,
         Readings(f, a, n), Readings(g, b, m), n <= m, \A i \in 1..n : a[i] = b[i]
  PROVE  f[1..n] = g[1..n]
<1> DEFINE I == {i \in 0..n : f[1..i] # g[1..i]}
<1> SUFFICES ASSUME I # {} PROVE FALSE
  OBVIOUS
<1>1. PICK i \in I : \A j \in I : i <= j
  <2>1. I \subseteq Nat
    OBVIOUS
  <2> HIDE DEF I
  <2> QED BY <2>1, FirstOf
<1>2. f[1..i] = IF i = 0 THEN NothingRead ELSE ReadLine(f[1..(i - 1)], a[i])
  BY ReadingOfPrefix
<1>3. g[1..i] = IF i = 0 THEN NothingRead ELSE ReadLine(g[1..(i - 1)], b[i])
  BY ReadingOfPrefix
<1>4. i # 0 => f[1..(i - 1)] = g[1..(i - 1)] /\ a[i] = b[i]
  BY <1>1
<1> QED BY <1>2, <1>3, <1>4

LEMMA ReadingGrows ==
  ASSUME NEW a, NEW b, NEW n \in Nat, NEW m \in Nat, n < m, m <= n + 1, NEW f, NEW g,
         Readings(f, a, n), Readings(g, b, m), \A i \in 1..n : a[i] = b[i]
  PROVE  g[1..m] = ReadLine(f[1..n], b[m])
<1>1. n <= m
  OBVIOUS
<1>2. f[1..n] = g[1..n]
  BY <1>1, ReadingsAgree
<1>3. g[1..m] = IF m = 0 THEN NothingRead ELSE ReadLine(g[1..(m - 1)], b[m])
  <2>1. m \in 0..m
    OBVIOUS
  <2> QED BY <2>1, ReadingOfPrefix
<1>4. m # 0 /\ m - 1 = n
  OBVIOUS
<1> QED BY <1>2, <1>3, <1>4, Zenon

LEMMA ReadsIsReading ==
  ASSUME NEW lines \in Seq(Line)
  PROVE  \E readings : /\ Readings(readings, lines, Len(lines))
                       /\ Reads(Holding(lines)) = readings[1..Len(lines)]
<1> DEFINE readings == CHOOSE readings : readings = [s \in SUBSET DOMAIN lines |->
                         IF s = {} THEN NothingRead
                         ELSE ReadLine(readings[s \ {Max(s)}], lines[Max(s)])]
<1>1. Len(lines) \in Nat /\ DOMAIN lines = 1..Len(lines)
  OBVIOUS
<1>2. (CHOOSE l \in Holding(lines) : TRUE) = lines
  BY DEF Holding
<1>3. ReadLines(lines) = readings[DOMAIN lines]
  BY DEF ReadLines, FoldLeft, MapThenFoldSet
<1>4. Readings(readings, lines, Len(lines))
  <2>1. PICK some : Readings(some, lines, Len(lines))
    BY <1>1, ReadingsExist
  <2>2. some = [s \in SUBSET DOMAIN lines |->
                  IF s = {} THEN NothingRead
                  ELSE ReadLine(some[s \ {Max(s)}], lines[Max(s)])]
    BY <1>1, <2>1, Zenon DEF Readings
  <2>3. readings = [s \in SUBSET DOMAIN lines |->
                      IF s = {} THEN NothingRead
                      ELSE ReadLine(readings[s \ {Max(s)}], lines[Max(s)])]
    BY <2>2, Zenon
  <2> HIDE DEF readings
  <2> QED BY <1>1, <2>3, Zenon DEF Readings
<1> HIDE DEF readings
<1>5. Reads(Holding(lines)) = readings[1..Len(lines)]
  BY <1>1, <1>2, <1>3 DEF Reads
<1> QED BY <1>4, <1>5

(* The constructor's loop takes one line after the other *)
LEMMA ReadsNothing == Reads(Holding(<<>>)) = NothingRead
<1>1. <<>> \in Seq(Line) /\ Len(<<>>) = 0
  OBVIOUS
<1>2. PICK readings : Readings(readings, <<>>, 0) /\ Reads(Holding(<<>>)) = readings[1..0]
  BY <1>1, ReadsIsReading
<1> QED BY <1>2, ReadingOfPrefix

LEMMA ReadsOneMore ==
  ASSUME NEW lines \in Seq(Line), NEW line \in Line
  PROVE  Reads(Holding(Append(lines, line))) = ReadLine(Reads(Holding(lines)), line)
<1>1. Append(lines, line) \in Seq(Line)
  OBVIOUS
<1>2. PICK more \in Seq(Line) : more = Append(lines, line)
  BY <1>1
<1>3. PICK n \in Nat, m \in Nat : n = Len(lines) /\ m = Len(more) /\ m = n + 1
  BY <1>2
<1>4. more[m] = line /\ \A i \in 1..n : lines[i] = more[i]
  BY <1>2, <1>3
<1>5. PICK f : Readings(f, lines, n) /\ Reads(Holding(lines)) = f[1..n]
  BY <1>3, ReadsIsReading
<1>6. PICK g : Readings(g, more, m) /\ Reads(Holding(more)) = g[1..m]
  BY <1>3, ReadsIsReading
<1>7. g[1..m] = ReadLine(f[1..n], line)
  <2>1. n < m /\ m <= n + 1
    BY <1>3
  <2> QED BY <1>4, <1>5, <1>6, <2>1, ReadingGrows
<1> QED BY <1>2, <1>5, <1>6, <1>7

(* What the fold of ReadChar has made of the text at a set of positions *)
Scans(scans, text, n) ==
  scans = [s \in SUBSET (1..n) |->
             IF s = {} THEN NoneRead
             ELSE ReadChar(scans[s \ {Max(s)}], text[Max(s)])]

LEMMA ScansExist ==
  ASSUME NEW text, NEW n \in Nat
  PROVE  \E scans : Scans(scans, text, n)
<1> DEFINE I == {m \in Nat : ~\E scans : Scans(scans, text, m)}
<1> SUFFICES ASSUME I # {} PROVE FALSE
  OBVIOUS
<1>1. PICK m \in I : \A j \in I : m <= j
  BY FirstOf
<1>2. m # 0
  <2>1. Scans([s \in SUBSET (1..0) |-> NoneRead], text, 0)
    BY DEF Scans
  <2> QED BY <2>1
<1>3. PICK less : Scans(less, text, m - 1)
  BY <1>1, <1>2
<1> DEFINE more == [s \in SUBSET (1..m) |->
                      IF m \in s THEN ReadChar(less[s \ {m}], text[m]) ELSE less[s]]
<1>4. Scans(more, text, m)
  <2> SUFFICES ASSUME NEW s \in SUBSET (1..m)
               PROVE  more[s] = IF s = {} THEN NoneRead
                                ELSE ReadChar(more[s \ {Max(s)}], text[Max(s)])
    BY Zenon DEF Scans
  <2>1. CASE m \in s
    <3>1. Max(s) = m
      BY <2>1, MaxWithLast
    <3>2. more[s \ {m}] = less[s \ {m}]
      OBVIOUS
    <3> QED BY <2>1, <3>1, <3>2
  <2>2. CASE m \notin s /\ s # {}
    <3>1. s \in SUBSET (1..(m - 1))
      BY <1>1, <1>2, <2>2
    <3>2. Max(s) \in s
      BY <2>2, MaxOfSome
    <3>3. more[s \ {Max(s)}] = less[s \ {Max(s)}]
      BY <2>2
    <3>4. less[s] = ReadChar(less[s \ {Max(s)}], text[Max(s)])
      BY <1>3, <2>2, <3>1, Zenon DEF Scans
    <3> QED BY <2>2, <3>3, <3>4
  <2>3. CASE s = {}
    <3>1. less[s] = NoneRead
      BY <1>3, <2>3, Zenon DEF Scans
    <3> QED BY <2>3, <3>1
  <2> QED BY <2>1, <2>2, <2>3
<1> QED BY <1>1, <1>4

(* On the prefixes of the text it is what its recursion says *)
LEMMA ScanOfPrefix ==
  ASSUME NEW text, NEW n \in Nat, NEW scans, Scans(scans, text, n), NEW i \in 0..n
  PROVE  scans[1..i] = IF i = 0 THEN NoneRead
                          ELSE ReadChar(scans[1..(i - 1)], text[i])
<1>1. 1..i \in SUBSET (1..n)
  OBVIOUS
<1>2. scans[1..i] = IF 1..i = {} THEN NoneRead
                       ELSE ReadChar(scans[(1..i) \ {Max(1..i)}], text[Max(1..i)])
  BY <1>1, Zenon DEF Scans
<1>3. CASE i = 0
  BY <1>2, <1>3, LastOf
<1>4. CASE i # 0
  <2>1. i \in Nat
    OBVIOUS
  <2>2. 1..i # {} /\ Max(1..i) = i /\ (1..i) \ {i} = 1..(i - 1)
    BY <1>4, <2>1, LastOf
  <2>3. scans[1..i] = ReadChar(scans[(1..i) \ {Max(1..i)}], text[Max(1..i)])
    BY <1>2, <2>2
  <2>4. scans[1..i] = ReadChar(scans[1..(i - 1)], text[i])
    BY <2>2, <2>3, Zenon
  <2> QED BY <1>4, <2>4, Zenon
<1> QED BY <1>3, <1>4

(* Texts that begin alike are read alike *)
LEMMA ScansAgree ==
  ASSUME NEW a, NEW b, NEW n \in Nat, NEW m \in Nat, NEW f, NEW g,
         Scans(f, a, n), Scans(g, b, m), n <= m, \A i \in 1..n : a[i] = b[i]
  PROVE  f[1..n] = g[1..n]
<1> DEFINE I == {i \in 0..n : f[1..i] # g[1..i]}
<1> SUFFICES ASSUME I # {} PROVE FALSE
  OBVIOUS
<1>1. PICK i \in I : \A j \in I : i <= j
  <2>1. I \subseteq Nat
    OBVIOUS
  <2> HIDE DEF I
  <2> QED BY <2>1, FirstOf
<1>2. f[1..i] = IF i = 0 THEN NoneRead ELSE ReadChar(f[1..(i - 1)], a[i])
  BY ScanOfPrefix
<1>3. g[1..i] = IF i = 0 THEN NoneRead ELSE ReadChar(g[1..(i - 1)], b[i])
  BY ScanOfPrefix
<1>4. i # 0 => f[1..(i - 1)] = g[1..(i - 1)] /\ a[i] = b[i]
  BY <1>1
<1> QED BY <1>2, <1>3, <1>4

LEMMA ScanGrows ==
  ASSUME NEW a, NEW b, NEW n \in Nat, NEW m \in Nat, n < m, m <= n + 1, NEW f, NEW g,
         Scans(f, a, n), Scans(g, b, m), \A i \in 1..n : a[i] = b[i]
  PROVE  g[1..m] = ReadChar(f[1..n], b[m])
<1>1. n <= m
  OBVIOUS
<1>2. f[1..n] = g[1..n]
  BY <1>1, ScansAgree
<1>3. g[1..m] = IF m = 0 THEN NoneRead ELSE ReadChar(g[1..(m - 1)], b[m])
  <2>1. m \in 0..m
    OBVIOUS
  <2> QED BY <2>1, ScanOfPrefix
<1>4. m # 0 /\ m - 1 = n
  OBVIOUS
<1> QED BY <1>2, <1>3, <1>4, Zenon

LEMMA ScanIsScan ==
  ASSUME NEW text \in Seq(Char)
  PROVE  \E scans : /\ Scans(scans, text, Len(text))
                    /\ ReadChars(text) = scans[1..Len(text)]
<1> DEFINE scans == CHOOSE scans : scans = [s \in SUBSET DOMAIN text |->
                         IF s = {} THEN NoneRead
                         ELSE ReadChar(scans[s \ {Max(s)}], text[Max(s)])]
<1>1. Len(text) \in Nat /\ DOMAIN text = 1..Len(text)
  OBVIOUS
<1>2. ReadChars(text) = scans[DOMAIN text]
  BY DEF ReadChars, FoldLeft, MapThenFoldSet
<1>3. Scans(scans, text, Len(text))
  <2>1. PICK some : Scans(some, text, Len(text))
    BY <1>1, ScansExist
  <2>2. some = [s \in SUBSET DOMAIN text |->
                  IF s = {} THEN NoneRead
                  ELSE ReadChar(some[s \ {Max(s)}], text[Max(s)])]
    BY <1>1, <2>1, Zenon DEF Scans
  <2>3. scans = [s \in SUBSET DOMAIN text |->
                      IF s = {} THEN NoneRead
                      ELSE ReadChar(scans[s \ {Max(s)}], text[Max(s)])]
    BY <2>2, Zenon
  <2> HIDE DEF scans
  <2> QED BY <1>1, <2>3, Zenon DEF Scans
<1> HIDE DEF scans
<1>4. ReadChars(text) = scans[1..Len(text)]
  BY <1>1, <1>2
<1> QED BY <1>3, <1>4

(* operator>> takes one character after the other *)
LEMMA ScanNothing == ReadChars(<<>>) = NoneRead
<1>1. <<>> \in Seq(Char) /\ Len(<<>>) = 0
  OBVIOUS
<1>2. PICK scans : Scans(scans, <<>>, 0) /\ ReadChars(<<>>) = scans[1..0]
  BY <1>1, ScanIsScan
<1> QED BY <1>2, ScanOfPrefix

LEMMA ScanOneMore ==
  ASSUME NEW text \in Seq(Char), NEW char \in Char
  PROVE  ReadChars(Append(text, char)) = ReadChar(ReadChars(text), char)
<1>1. Append(text, char) \in Seq(Char)
  OBVIOUS
<1>2. PICK more \in Seq(Char) : more = Append(text, char)
  BY <1>1
<1>3. PICK n \in Nat, m \in Nat : n = Len(text) /\ m = Len(more) /\ m = n + 1
  BY <1>2
<1>4. more[m] = char /\ \A i \in 1..n : text[i] = more[i]
  BY <1>2, <1>3
<1>5. PICK f : Scans(f, text, n) /\ ReadChars(text) = f[1..n]
  BY <1>3, ScanIsScan
<1>6. PICK g : Scans(g, more, m) /\ ReadChars(more) = g[1..m]
  BY <1>3, ScanIsScan
<1>7. g[1..m] = ReadChar(f[1..n], char)
  <2>1. n < m /\ m <= n + 1
    BY <1>3
  <2> QED BY <1>4, <1>5, <1>6, <2>1, ScanGrows
<1> QED BY <1>2, <1>5, <1>6, <1>7
-----------------------------------------------------------------------------
(* Numbers and their texts                                                 *)

(* A text and the same text with one more character *)
LEMMA Extended ==
  ASSUME NEW S, NEW s \in Seq(S), NEW e \in S, NEW t \in Seq(S), Len(t) = Len(s) + 1,
         t[Len(t)] = e, \A i \in 1..Len(s) : t[i] = s[i]
  PROVE  Append(s, e) = t
<1>1. PICK u \in Seq(S) : u = Append(s, e)
  BY AppendProperties
<1>2. Len(u) = Len(s) + 1 /\ u[Len(s) + 1] = e /\ \A i \in 1..Len(s) : u[i] = s[i]
  BY <1>1, AppendProperties
<1>3. \A i \in 1..Len(u) : u[i] = t[i]
  BY <1>2
<1> QED BY <1>1, <1>2, <1>3, SeqEqual

(* A digit that is taken *)
Scanned(text, n) == /\ text \in Seq(Char) /\ n \in Nat
                    /\ ReadChars(text) = [n |-> n, reading |-> TRUE]

LEMMA TakeDigit ==
  ASSUME NEW text, NEW n, Scanned(text, n), NEW c \in Digit
  PROVE  Scanned(Append(text, c), 10 * n + c)
<1>1. c \in Char /\ c \in Nat
  BY DEF Char, Digit
<1>2. Append(text, c) \in Seq(Char) /\ 10 * n + c \in Nat
  BY <1>1 DEF Scanned
<1>3. ReadChars(Append(text, c)) = ReadChar(ReadChars(text), c)
  BY <1>1, ScanOneMore DEF Scanned
<1> QED BY <1>2, <1>3 DEF ReadChar, Scanned

(* std::to_string and operator>> are inverse *)
LEMMA NumberIsReadBack ==
  ASSUME NEW n \in 0..255
  PROVE  ToInt(ToText(n)) = n
<1>1. \A text, m : Scanned(text, m) => ToInt(text) = m
  BY DEF ToInt, Scanned
<1>2. ASSUME NEW a \in Digit
      PROVE  Scanned(<<a>>, a)
  <2>1. Scanned(<<>>, 0)
    <3>1. <<>> \in Seq(Char)
      OBVIOUS
    <3> QED BY <3>1, ScanNothing DEF Scanned, NoneRead
  <2>2. Scanned(Append(<<>>, a), 10 * 0 + a)
    BY <2>1, TakeDigit, Zenon
  <2>3. Append(<<>>, a) = <<a>>
    OBVIOUS
  <2>4. 10 * 0 + a = a
    BY DEF Digit
  <2> QED BY <2>2, <2>3, <2>4, Zenon
<1>3. ASSUME NEW a \in Digit, NEW b \in Digit
      PROVE  Scanned(<<a, b>>, 10 * a + b)
  <2>1. Append(<<a>>, b) = <<a, b>>
    <3>1. <<a>> \in Seq(Digit) /\ <<a, b>> \in Seq(Digit)
      OBVIOUS
    <3>2. /\ Len(<<a, b>>) = Len(<<a>>) + 1 /\ <<a, b>>[Len(<<a, b>>)] = b
          /\ \A i \in 1..Len(<<a>>) : <<a, b>>[i] = <<a>>[i]
      OBVIOUS
    <3> QED BY <3>1, <3>2, Extended, Zenon
  <2>2. Scanned(Append(<<a>>, b), 10 * a + b)
    BY <1>2, TakeDigit, Zenon
  <2> QED BY <2>1, <2>2, Zenon
<1>4. ASSUME NEW a \in Digit, NEW b \in Digit, NEW c \in Digit
      PROVE  Scanned(<<a, b, c>>, 10 * (10 * a + b) + c)
  <2>1. Append(<<a, b>>, c) = <<a, b, c>>
    <3>1. <<a, b>> \in Seq(Digit) /\ <<a, b, c>> \in Seq(Digit)
      OBVIOUS
    <3>2. /\ Len(<<a, b, c>>) = Len(<<a, b>>) + 1 /\ <<a, b, c>>[Len(<<a, b, c>>)] = c
          /\ \A i \in 1..Len(<<a, b>>) : <<a, b, c>>[i] = <<a, b>>[i]
      OBVIOUS
    <3> QED BY <3>1, <3>2, Extended, Zenon
  <2>2. Scanned(Append(<<a, b>>, c), 10 * (10 * a + b) + c)
    BY <1>3, TakeDigit, Zenon
  <2> QED BY <2>1, <2>2, Zenon
<1>5. CASE n < 10
  <2>1. n \in Digit
    BY <1>5 DEF Digit
  <2>2. ToText(n) = <<n>>
    BY <1>5 DEF ToText
  <2> QED BY <1>1, <1>2, <2>1, <2>2, Zenon
<1>6. CASE n >= 10 /\ n < 100
  <2>1. PICK a \in Digit, b \in Digit : a = n \div 10 /\ b = n % 10
    BY <1>6 DEF Digit
  <2>2. ToText(n) = <<a, b>>
    BY <1>6, <2>1 DEF ToText
  <2>3. 10 * a + b = n
    BY <1>6, <2>1
  <2> QED BY <1>1, <1>3, <2>2, <2>3, Zenon
<1>7. CASE n >= 100
  <2>1. PICK a \in Digit, b \in Digit, c \in Digit :
          a = n \div 100 /\ b = (n \div 10) % 10 /\ c = n % 10
    BY <1>7 DEF Digit
  <2>2. ToText(n) = <<a, b, c>>
    BY <1>7, <2>1 DEF ToText
  <2>3. 10 * (10 * a + b) + c = n
    <3>1. 10 * (n \div 10) + c = n
      BY <1>7, <2>1
    <3>2. (n \div 10) \div 10 = n \div 100
      BY <1>7
    <3>3. 10 * ((n \div 10) \div 10) + b = n \div 10
      BY <1>7, <2>1
    <3> QED BY <2>1, <3>1, <3>2, <3>3
  <2>4. Scanned(<<a, b, c>>, 10 * (10 * a + b) + c)
    BY <1>4, Zenon
  <2> QED BY <1>1, <2>2, <2>3, <2>4, Zenon
<1> QED BY <1>5, <1>6, <1>7

LEMMA CharsOfNumber ==
  ASSUME NEW n \in 0..255
  PROVE  ToText(n) \in Seq(Char) \ {<<>>}
<1>1. n < 10 => n \in Digit
  BY DEF Digit
<1>2. n >= 10 /\ n < 100 => n \div 10 \in Digit /\ n % 10 \in Digit
  BY DEF Digit
<1>3. n >= 100 => n \div 100 \in Digit /\ (n \div 10) % 10 \in Digit /\ n % 10 \in Digit
  BY DEF Digit
<1>4. CASE n < 10
  BY <1>1, <1>4 DEF ToText, Char
<1>5. CASE n >= 10 /\ n < 100
  BY <1>2, <1>5 DEF ToText, Char
<1>6. CASE n >= 100
  BY <1>3, <1>6 DEF ToText, Char
<1> QED BY <1>4, <1>5, <1>6

LEMMA TextMembers ==
  ASSUME NEW text
  PROVE  text \in Text <=> text \in Seq(Char) /\ ToInt(text) < Billion
BY DEF Text, Char

LEMMA TextType ==
  ASSUME NEW n \in 0..255
  PROVE  ToText(n) \in Text \ {<<>>}
<1>1. ToInt(ToText(n)) < Billion
  BY NumberIsReadBack, SMT DEF Billion
<1> QED BY <1>1, CharsOfNumber, TextMembers

(* The beginnings of a text *)
LEMMA Beginning ==
  ASSUME NEW text \in Seq(Char), NEW k \in 0..Len(text)
  PROVE  /\ SubSeq(text, 1, k) \in Seq(Char) /\ Len(SubSeq(text, 1, k)) = k
         /\ \A i \in 1..k : SubSeq(text, 1, k)[i] = text[i]
<1>1. Len(text) \in Nat /\ 1 \in Int /\ k \in Int /\ \A i \in 1..k : text[i] \in Char
  OBVIOUS
<1>2. /\ SubSeq(text, 1, k) \in Seq(Char)
      /\ Len(SubSeq(text, 1, k)) = IF 1 <= k THEN k - 1 + 1 ELSE 0
      /\ \A i \in 1..(k - 1 + 1) : SubSeq(text, 1, k)[i] = text[1 + i - 1]
  BY <1>1, SubSeqProperties
<1> QED BY <1>1, <1>2

LEMMA BeginningGrows ==
  ASSUME NEW text \in Seq(Char), NEW k \in Nat, k < Len(text)
  PROVE  /\ SubSeq(text, 1, k) \in Seq(Char)
         /\ ReadChars(SubSeq(text, 1, k + 1)) = ReadChar(ReadChars(SubSeq(text, 1, k)), text[k + 1])
<1> Len(text) \in Nat
  OBVIOUS
<1>1. PICK s \in Seq(Char) : s = SubSeq(text, 1, k) /\ Len(s) = k /\ \A i \in 1..k : s[i] = text[i]
  <2>1. k \in 0..Len(text)
    OBVIOUS
  <2> QED BY <2>1, Beginning
<1>2. PICK t \in Seq(Char) : /\ t = SubSeq(text, 1, k + 1) /\ Len(t) = k + 1
                             /\ \A i \in 1..(k + 1) : t[i] = text[i]
  <2>1. k + 1 \in 0..Len(text)
    OBVIOUS
  <2> QED BY <2>1, Beginning
<1>3. text[k + 1] \in Char
  OBVIOUS
<1>4. t[Len(t)] = text[k + 1] /\ Len(t) = Len(s) + 1 /\ \A i \in 1..Len(s) : t[i] = s[i]
  BY <1>1, <1>2
<1>5. Append(s, text[k + 1]) = t
  BY <1>3, <1>4, Extended
<1> QED BY <1>1, <1>2, <1>3, <1>5, ScanOneMore

LEMMA BeginningType ==
  ASSUME NEW text \in Seq(Char), NEW k \in 0..Len(text)
  PROVE  \E n \in Nat, b \in BOOLEAN :
           ReadChars(SubSeq(text, 1, k)) = [n |-> n, reading |-> b]
<1> DEFINE Typed(i) == \E n \in Nat, b \in BOOLEAN :
                         ReadChars(SubSeq(text, 1, i)) = [n |-> n, reading |-> b]
           I == {i \in 0..Len(text) : ~Typed(i)}
<1> SUFFICES ASSUME I # {} PROVE FALSE
  OBVIOUS
<1>1. PICK i \in I : \A j \in I : i <= j
  <2>1. I \subseteq Nat
    OBVIOUS
  <2> HIDE DEF I
  <2> QED BY <2>1, FirstOf
<1>2. CASE i = 0
  <2>1. SubSeq(text, 1, 0) = <<>>
    OBVIOUS
  <2> QED BY <1>1, <1>2, <2>1, ScanNothing DEF NoneRead
<1>3. CASE i # 0
  <2>1. PICK j \in Nat : i = j + 1 /\ j < Len(text) /\ Typed(j)
    <3>1. i \in 0..Len(text) /\ Len(text) \in Nat
      BY <1>1
    <3>2. i - 1 \in 0..Len(text) /\ i = (i - 1) + 1 /\ i - 1 < Len(text) /\ ~(i <= i - 1)
      BY <1>3, <3>1
    <3> HIDE DEF Typed
    <3>3. Typed(i - 1)
      BY <1>1, <3>2
    <3> QED BY <3>2, <3>3
  <2>2. PICK n \in Nat, b \in BOOLEAN : ReadChars(SubSeq(text, 1, j)) = [n |-> n, reading |-> b]
    BY <2>1
  <2>3. PICK c \in Nat : c = text[j + 1]
    <3>1. j < Len(text) /\ Len(text) \in Nat
      BY <2>1
    <3>2. j + 1 \in 1..Len(text)
      BY <3>1
    <3>3. text[j + 1] \in Char
      BY <3>2
    <3>4. Char \subseteq Nat
      BY DEF Char, Digit, Letter
    <3> QED BY <3>3, <3>4
  <2>4. Typed(j + 1)
    <3>1. ReadChars(SubSeq(text, 1, j + 1)) = ReadChar([n |-> n, reading |-> b], c)
      BY <2>1, <2>2, <2>3, BeginningGrows
    <3>2. ReadChar([n |-> n, reading |-> b], c) \in
            {[n |-> 10 * n + c, reading |-> TRUE], [n |-> n, reading |-> FALSE]}
      BY DEF ReadChar
    <3>3. 10 * n + c \in Nat
      OBVIOUS
    <3> QED BY <3>1, <3>2, <3>3
  <2> QED BY <1>1, <2>1, <2>4
<1> QED BY <1>2, <1>3

(* A number without its last digits, without one more *)
LEMMA DigitsAreLost ==
  ASSUME NEW v \in Nat, v < Billion
  PROVE  /\ v \in Shortened(v)
         /\ \A m \in Shortened(v) : m \in Nat /\ m <= v /\ m \div 10 \in Shortened(v)
<1>0. Power = {1, 10, 100, 1000, 10 * 1000, 100 * 1000, 1000 * 1000, 10 * (1000 * 1000),
               100 * (1000 * 1000), 1000 * (1000 * 1000)}
      /\ Billion = 1000 * (1000 * 1000)
  BY SMT DEF Power, Billion
<1>1. v = v \div 1 /\ 1 \in Power
  BY <1>0
<1>2. ASSUME NEW m \in Shortened(v)
      PROVE  m \in Nat /\ m <= v /\ m \div 10 \in Shortened(v)
  <2>1. PICK p \in Power : m = v \div p
    BY <1>2 DEF Shortened
  <2>2. m \in Nat /\ m <= v
    BY <1>0, <2>1, SMT
  <2>3. CASE p = Billion
    <3>1. m = 0 /\ m \div 10 = 0
      BY <1>0, <2>1, <2>3, SMT
    <3> QED BY <1>2, <3>1
  <2>4. CASE p # Billion
    <3>1. p * 10 \in Power
      BY <1>0, <2>1, <2>4, SMT
    <3>2. m \div 10 = v \div (p * 10)
      BY <1>0, <2>1, <2>4, SMT
    <3> QED BY <2>2, <3>1, <3>2 DEF Shortened
  <2> QED BY <2>2, <2>3, <2>4
<1> QED BY <1>1, <1>2 DEF Shortened

(* What is left of a text that is cut reads as the number without its last *)
(* digits                                                                  *)
LEMMA CutText ==
  ASSUME NEW text \in Text, NEW k \in 0..Len(text)
  PROVE  SubSeq(text, 1, k) \in Text /\ ToInt(SubSeq(text, 1, k)) \in Shortened(ToInt(text))
<1>1. text \in Seq(Char) /\ ToInt(text) < Billion
  BY TextMembers
<1> DEFINE V(i) == ToInt(SubSeq(text, 1, i))
           n == Len(text)
<1>2. n \in Nat /\ SubSeq(text, 1, n) = text
  BY <1>1
<1>3. \A i \in 0..n : V(i) \in Nat
  <2> TAKE i \in 0..n
  <2>1. PICK m \in Nat, b \in BOOLEAN : ReadChars(SubSeq(text, 1, i)) = [n |-> m, reading |-> b]
    BY <1>1, BeginningType
  <2> QED BY <2>1 DEF ToInt
<1>4. ToInt(text) \in Nat
  <2>1. n \in 0..n
    BY <1>2
  <2>2. V(n) \in Nat
    BY <1>3, <2>1
  <2> QED BY <1>2, <2>2
<1>5. \A i \in Nat : i < n => V(i + 1) = V(i) \/ \E c \in Digit : V(i + 1) = 10 * V(i) + c
  <2> SUFFICES ASSUME NEW i \in Nat, i < n
               PROVE  V(i + 1) = V(i) \/ \E c \in Digit : V(i + 1) = 10 * V(i) + c
    OBVIOUS
  <2>1. ReadChars(SubSeq(text, 1, i + 1)) = ReadChar(ReadChars(SubSeq(text, 1, i)), text[i + 1])
    BY <1>1, BeginningGrows
  <2> QED BY <2>1 DEF ReadChar, ToInt
<1> DEFINE I == {j \in 0..n : V(n - j) \notin Shortened(ToInt(text))}
<1>6. I = {}
  <2> SUFFICES ASSUME I # {} PROVE FALSE
    OBVIOUS
  <2> HIDE DEF V
  <2>1. PICK j \in I : \A i \in I : j <= i
    <3>1. I \subseteq Nat
      OBVIOUS
    <3> HIDE DEF I
    <3> QED BY <3>1, FirstOf
  <2>2. j # 0
    <3>1. V(n) = ToInt(text)
      BY <1>2 DEF V
    <3>2. V(n) \in Shortened(ToInt(text))
      BY <1>1, <1>4, <3>1, DigitsAreLost
    <3> QED BY <1>2, <2>1, <3>2
  <2>3. PICK i \in Nat : i = n - j /\ i < n /\ V(i + 1) \in Shortened(ToInt(text)) /\ V(i) \in Nat
    <3>1. n - j \in Nat /\ n - j < n /\ j - 1 \in 0..n /\ j - 1 \notin I /\ n - (j - 1) = (n - j) + 1
      BY <1>2, <2>1, <2>2
    <3>2. V(n - (j - 1)) \in Shortened(ToInt(text))
      BY <3>1
    <3>3. V(n - j) \in Nat
      BY <1>2, <1>3, <3>1
    <3> QED BY <3>1, <3>2, <3>3
  <2>4. V(i) \in Shortened(ToInt(text))
    <3>1. CASE V(i + 1) = V(i)
      BY <2>3, <3>1
    <3>2. ASSUME NEW c \in Digit, V(i + 1) = 10 * V(i) + c PROVE V(i) \in Shortened(ToInt(text))
      <4>1. V(i) = V(i + 1) \div 10
        <5>1. \A v \in Nat, digit \in 0..9 : (10 * v + digit) \div 10 = v
          BY SMTT(30)
        <5> QED BY <2>3, <3>2, <5>1, Zenon DEF Digit
      <4> QED BY <1>1, <1>4, <2>3, <4>1, DigitsAreLost
    <3> QED BY <1>5, <2>3, <3>1, <3>2
  <2> QED BY <2>1, <2>3, <2>4
<1>7. V(k) \in Shortened(ToInt(text))
  <2>1. n - k \in 0..n /\ n - (n - k) = k
    BY <1>2
  <2> HIDE DEF V
  <2>2. V(n - (n - k)) \in Shortened(ToInt(text))
    BY <1>6, <2>1
  <2> QED BY <2>1, <2>2
<1>8. V(k) < Billion
  <2>1. V(k) \in Nat /\ V(k) <= ToInt(text)
    BY <1>1, <1>4, <1>7, DigitsAreLost
  <2>2. PICK limit \in Nat : limit = Billion
    BY SMT DEF Billion
  <2> HIDE DEF V
  <2> QED BY <1>1, <1>4, <2>1, <2>2
<1>9. SubSeq(text, 1, k) \in Seq(Char)
  BY <1>1, Beginning
<1> QED BY <1>7, <1>8, <1>9, TextMembers

-----------------------------------------------------------------------------
(* Lines                                                                   *)

LEMMA LineForms ==
  ASSUME NEW s, NEW k, NEW text
  PROVE  /\ Section(s) # Empty /\ Section(s)[1] = "section" /\ Section(s)[2] = s
         /\ Setting(k, text) # Empty /\ Setting(k, text) # Malformed
         /\ Setting(k, text)[1] = "setting"
         /\ Setting(k, text)[2] = k /\ Setting(k, text)[3] = text
         /\ Malformed # Empty /\ Malformed[1] = "malformed"
BY DEF Section, Setting, Empty, Malformed

LEMMA LineMembers ==
  ASSUME NEW line
  PROVE  line \in Line <=> \/ line \in {Empty, Malformed}
                           \/ \E t \in SectionName \union {NoName} : line = Section(t)
                           \/ \E k \in KeyName \union {NoName}, text \in Text : line = Setting(k, text)
<1> DEFINE Pairs == (KeyName \union {NoName}) \X Text
<1>1. (\E pair \in Pairs : line = Setting(pair[1], pair[2]))
      <=> \E k \in KeyName \union {NoName}, text \in Text : line = Setting(k, text)
  <2>1. ASSUME NEW k \in KeyName \union {NoName}, NEW text \in Text
        PROVE  <<k, text>> \in Pairs /\ <<k, text>>[1] = k /\ <<k, text>>[2] = text
    OBVIOUS
  <2>2. ASSUME NEW pair \in Pairs
        PROVE  pair[1] \in KeyName \union {NoName} /\ pair[2] \in Text
    OBVIOUS
  <2> HIDE DEF Pairs
  <2>3. ASSUME NEW k \in KeyName \union {NoName}, NEW text \in Text, line = Setting(k, text)
        PROVE  \E pair \in Pairs : line = Setting(pair[1], pair[2])
    BY <2>1, <2>3
  <2> QED BY <2>2, <2>3
<1>2. line \in {Setting(pair[1], pair[2]) : pair \in Pairs}
      <=> \E pair \in Pairs : line = Setting(pair[1], pair[2])
  BY Zenon
<1>3. line \in {Section(s) : s \in SectionName \union {NoName}}
      <=> \E s \in SectionName \union {NoName} : line = Section(s)
  BY Zenon
<1> HIDE DEF Pairs
<1>4. line \in Line <=> \/ line \in {Empty, Malformed}
                        \/ line \in {Section(s) : s \in SectionName \union {NoName}}
                        \/ line \in {Setting(pair[1], pair[2]) : pair \in Pairs}
  BY Zenon DEF Line, Pairs
<1> QED BY <1>1, <1>2, <1>3, <1>4, Zenon

LEMMA ReadEmpty ==
  ASSUME NEW acc
  PROVE  ReadLine(acc, Empty) = acc
BY DEF ReadLine

LEMMA ReadMalformed ==
  ASSUME NEW acc
  PROVE  ReadLine(acc, Malformed) = IF acc.ok THEN [acc EXCEPT !.ok = FALSE] ELSE acc
BY LineForms DEF ReadLine

LEMMA ReadSection ==
  ASSUME NEW acc, NEW s
  PROVE  ReadLine(acc, Section(s)) = IF acc.ok THEN [acc EXCEPT !.section = s] ELSE acc
BY LineForms DEF ReadLine

LEMMA ReadSetting ==
  ASSUME NEW acc, NEW k, NEW text
  PROVE  ReadLine(acc, Setting(k, text)) =
           IF ~acc.ok THEN acc
           ELSE IF acc.section # NoName /\ k # NoName /\ text # <<>>
           THEN [acc EXCEPT !.data = Merge(@, Entry(<<acc.section, k>>, text))]
           ELSE [acc EXCEPT !.ok = FALSE]
<1> DEFINE line == Setting(k, text)
<1>1. line # Empty /\ line # Malformed /\ line[1] # "section" /\ line[2] = k /\ line[3] = text
  BY LineForms
<1> HIDE DEF line
<1>2. ReadLine(acc, line) = IF ~acc.ok THEN acc
                            ELSE IF acc.section # NoName /\ line[2] # NoName /\ line[3] # <<>>
                            THEN [acc EXCEPT !.data = Merge(@, Entry(<<acc.section, line[2]>>, line[3]))]
                            ELSE [acc EXCEPT !.ok = FALSE]
  BY <1>1, Zenon DEF ReadLine
<1> QED BY <1>1, <1>2 DEF line

(* A setting that is added to texts *)
LEMMA MergeTexts ==
  ASSUME NEW d, IsTexts(d), NEW k \in Name, NEW text \in Text \ {<<>>}
  PROVE  IsTexts(Merge(d, Entry(k, text))) /\ IsTexts(Merge(Entry(k, text), d))
BY DEF IsTexts, Merge, Entry

(* What the constructor has made of some lines stays of its type *)
LEMMA ReadLineType ==
  ASSUME NEW acc, IsReading(acc), NEW line \in Line
  PROVE  IsReading(ReadLine(acc, line))
<1>1. PICK s \in SectionName \union {NoName}, ok \in BOOLEAN, data \in {acc.data} :
        IsTexts(data) /\ acc = [section |-> s, data |-> data, ok |-> ok]
  BY DEF IsReading
<1>2. acc.section = s /\ acc.data = data /\ acc.ok = ok
  BY <1>1
<1>3. IsReading([acc EXCEPT !.ok = FALSE])
  <2>1. ASSUME NEW b
        PROVE  [acc EXCEPT !.ok = b] = [section |-> s, data |-> data, ok |-> b]
    BY <1>1
  <2> QED BY <1>1, <2>1 DEF IsReading
<1>4. CASE line = Empty
  BY <1>4, ReadEmpty
<1>5. CASE line = Malformed
  BY <1>3, <1>5, ReadMalformed
<1>6. ASSUME NEW t \in SectionName \union {NoName}, line = Section(t)
      PROVE  IsReading(ReadLine(acc, line))
  <2>1. [acc EXCEPT !.section = t] = [section |-> t, data |-> data, ok |-> ok]
    BY <1>1
  <2>2. IsReading([acc EXCEPT !.section = t])
    BY <1>1, <2>1 DEF IsReading
  <2> QED BY <1>6, <2>2, ReadSection
<1>7. ASSUME NEW k \in KeyName \union {NoName}, NEW text \in Text, line = Setting(k, text)
      PROVE  IsReading(ReadLine(acc, line))
  <2> DEFINE more == Merge(data, Entry(<<s, k>>, text))
  <2>1. ASSUME s # NoName /\ k # NoName /\ text # <<>>
        PROVE  IsReading([acc EXCEPT !.data = more])
    <3>1. s \in SectionName /\ k \in KeyName
      BY <2>1
    <3>2. <<s, k>> \in Name
      BY <3>1, ProfileFileAssumption DEF ProfileFileAssumption
    <3>3. IsTexts(more)
      BY <1>1, <2>1, <3>2, MergeTexts
    <3> HIDE DEF more
    <3>4. [acc EXCEPT !.data = more] = [section |-> s, data |-> more, ok |-> ok]
      BY <1>1
    <3> QED BY <3>3, <3>4 DEF IsReading
  <2>2. ReadLine(acc, line) = IF ~ok THEN acc
                              ELSE IF s # NoName /\ k # NoName /\ text # <<>>
                              THEN [acc EXCEPT !.data = more]
                              ELSE [acc EXCEPT !.ok = FALSE]
    BY <1>2, <1>7, ReadSetting
  <2> HIDE DEF more
  <2> QED BY <1>3, <2>1, <2>2
<1> QED BY <1>4, <1>5, <1>6, <1>7, LineMembers, Zenon

(* ... and so does what it has made of a file *)
LEMMA ReadsType ==
  ASSUME NEW lines \in Seq(Line)
  PROVE  IsReading(Reads(Holding(lines)))
<1>1. PICK n \in Nat : n = Len(lines)
  OBVIOUS
<1>2. PICK f : Readings(f, lines, n) /\ Reads(Holding(lines)) = f[1..n]
  BY <1>1, ReadsIsReading
<1> DEFINE I == {i \in 0..n : ~IsReading(f[1..i])}
<1> SUFFICES ASSUME I # {} PROVE FALSE
  BY <1>2
<1>3. PICK i \in I : \A j \in I : i <= j
  <2>1. I \subseteq Nat
    OBVIOUS
  <2> HIDE DEF I
  <2> QED BY <2>1, FirstOf
<1>4. f[1..i] = IF i = 0 THEN NothingRead ELSE ReadLine(f[1..(i - 1)], lines[i])
  BY <1>2, ReadingOfPrefix
<1>5. IsReading(NothingRead)
  BY DEF IsReading, NothingRead, NoData, IsTexts
<1>6. i # 0 => IsReading(f[1..(i - 1)]) /\ lines[i] \in Line
  BY <1>1, <1>3
<1> QED BY <1>3, <1>4, <1>5, <1>6, ReadLineType

LEMMA IsLineInLine ==
  ASSUME NEW line, IsLine(line)
  PROVE  line \in Line
BY LineMembers, Zenon DEF IsLine

-----------------------------------------------------------------------------
(* Settings                                                                *)

LEMMA NoDataIsTexts == IsTexts(NoData) /\ Numbers(NoData) = NoData
BY DEF IsTexts, NoData, Numbers

(* The numbers of a profile to which a number is added *)
LEMMA NumbersOfMerge ==
  ASSUME NEW d, NEW k, NEW n \in 0..255
  PROVE  /\ Numbers(Merge(d, Entry(k, ToText(n)))) = Merge(Numbers(d), Entry(k, n))
         /\ Numbers(Merge(Entry(k, ToText(n)), d)) = Merge(Entry(k, n), Numbers(d))
<1>1. ToInt(ToText(n)) = n
  BY NumberIsReadBack
<1> DEFINE text == ToText(n)
<1> HIDE DEF text
<1>2. ToInt(text) = n
  BY <1>1 DEF text
<1>3. Numbers(Merge(d, Entry(k, text))) = Merge(Numbers(d), Entry(k, n))
  BY <1>2 DEF Numbers, Merge, Entry
<1>4. Numbers(Merge(Entry(k, text), d)) = Merge(Entry(k, n), Numbers(d))
  BY <1>2 DEF Numbers, Merge, Entry
<1> QED BY <1>3, <1>4 DEF text

(* The settings that save_as has written by the time that it has those at  *)
(* the positions P of Order to write                                       *)
WrittenNames(d, P) == {k \in DOMAIN d : \A i \in P : Order[i] # k}

(* P are the last ones of the settings of d *)
LastOnes(d, P) ==
  /\ P \subseteq DOMAIN Order /\ \A i \in P : Order[i] \in DOMAIN d
  /\ \A i \in P, j \in DOMAIN Order : i < j /\ Order[j] \in DOMAIN d => j \in P

LEMMA Positions ==
  /\ Len(Order) \in Nat /\ DOMAIN Order = 1..Len(Order)
  /\ \A i \in DOMAIN Order : Order[i] \in Name
  /\ \A k \in Name : \E i \in DOMAIN Order : Order[i] = k
  /\ \A i, j \in DOMAIN Order : Order[i] = Order[j] => i = j
<1>1. Order \in Seq(Name)
  BY ProfileFileAssumption DEF ProfileFileAssumption
<1>2. \A k \in Name : \E i \in DOMAIN Order : Order[i] = k
  BY DEF Name, Range
<1>3. \A i, j \in DOMAIN Order : Order[i] = Order[j] => i = j
  BY ProfileFileAssumption DEF ProfileFileAssumption
<1> QED BY <1>1, <1>2, <1>3

(* The first of them *)
LEMMA NextOf ==
  ASSUME NEW d, NEW P, LastOnes(d, P), P # {}
  PROVE  Min(P) \in P /\ \A i \in P : Min(P) <= i
<1>1. P \subseteq Nat
  BY Positions DEF LastOnes
<1>2. PICK m \in P : \A i \in P : m <= i
  BY <1>1, FirstOf
<1> QED BY <1>2 DEF Min

(* At first they are all of them, and nothing is written *)
LEMMA AllToWrite ==
  ASSUME NEW d, IsTexts(d)
  PROVE  LastOnes(d, ToWrite(d)) /\ WrittenNames(d, ToWrite(d)) = {}
<1>1. LastOnes(d, ToWrite(d))
  BY DEF LastOnes, ToWrite
<1>2. ASSUME NEW k \in DOMAIN d PROVE \E i \in ToWrite(d) : Order[i] = k
  <2>1. k \in Name
    BY DEF IsTexts
  <2> QED BY <2>1, Positions DEF ToWrite
<1> QED BY <1>1, <1>2 DEF WrittenNames

(* When the first of them is written, the rest are the last ones *)
LEMMA OneLess ==
  ASSUME NEW d, NEW P, LastOnes(d, P), P # {}
  PROVE  /\ LastOnes(d, P \ {Min(P)})
         /\ WrittenNames(d, P \ {Min(P)}) = WrittenNames(d, P) \union {Order[Min(P)]}
         /\ Order[Min(P)] \in DOMAIN d
<1>1. PICK m \in P : m = Min(P) /\ \A i \in P : m <= i
  BY NextOf
<1>2. P \subseteq DOMAIN Order /\ m \in DOMAIN Order /\ Order[m] \in DOMAIN d
      /\ DOMAIN Order \subseteq Nat
  BY Positions DEF LastOnes
<1>3. LastOnes(d, P \ {m})
  <2>1. ASSUME NEW i \in P \ {m}, NEW j \in DOMAIN Order, i < j, Order[j] \in DOMAIN d
        PROVE  j \in P \ {m}
    <3>1. j \in P
      BY <2>1 DEF LastOnes
    <3>2. m < j
      BY <1>1, <1>2, <2>1
    <3> QED BY <3>1, <3>2, <1>2
  <2> QED BY <2>1 DEF LastOnes
<1>4. WrittenNames(d, P \ {m}) = WrittenNames(d, P) \union {Order[m]}
  <2>1. \A i \in P \ {m} : Order[i] # Order[m]
    BY <1>2, Positions
  <2> QED BY <1>2, <2>1 DEF WrittenNames
<1> QED BY <1>1, <1>2, <1>3, <1>4

(* What is written by then is what a save leaves that is cut short *)
LEMMA WrittenIsCut ==
  ASSUME NEW d, IsTexts(d), NEW P, LastOnes(d, P)
  PROVE  Numbers(Restrict(d, WrittenNames(d, P))) \in Cuts(Numbers(d), Order)
<1> DEFINE W == WrittenNames(d, P)
<1>1. PICK n \in 0..Len(Order) : \A i \in DOMAIN Order : Order[i] \in DOMAIN d => (i <= n <=> i \notin P)
  <2>1. CASE P = {}
    BY <2>1, Positions
  <2>2. CASE P # {}
    <3>1. PICK m \in P : \A i \in P : m <= i
      BY <2>2, NextOf
    <3>2. m \in 1..Len(Order) /\ m - 1 \in 0..Len(Order)
      BY Positions DEF LastOnes
    <3>3. ASSUME NEW i \in DOMAIN Order, Order[i] \in DOMAIN d
          PROVE  i <= m - 1 <=> i \notin P
      <4>1. i \in 1..Len(Order)
        BY Positions
      <4>2. i \in P => m <= i
        BY <3>1
      <4>3. m < i => i \in P
        BY <3>3 DEF LastOnes
      <4>4. m = i => i \in P
        OBVIOUS
      <4> QED BY <3>2, <4>1, <4>2, <4>3, <4>4
    <3> QED BY <3>2, <3>3
  <2> QED BY <2>1, <2>2
<1>2. W = DOMAIN d \intersect Range(SubSeq(Order, 1, n))
  <2>1. Range(SubSeq(Order, 1, n)) = {Order[i] : i \in 1..n}
    <3>1. Order \in Seq(Name) /\ n \in Nat /\ n <= Len(Order)
      BY Positions, ProfileFileAssumption DEF ProfileFileAssumption
    <3>2. DOMAIN SubSeq(Order, 1, n) = 1..n /\ \A i \in 1..n : SubSeq(Order, 1, n)[i] = Order[i]
      BY <3>1
    <3> QED BY <3>2 DEF Range
  <2>2. ASSUME NEW k \in DOMAIN d
        PROVE  k \in W <=> k \in {Order[i] : i \in 1..n}
    <3>1. PICK i \in DOMAIN Order : Order[i] = k
      BY Positions DEF IsTexts
    <3>2. i \in P <=> ~(i <= n)
      BY <1>1, <3>1
    <3>3. \A j \in DOMAIN Order : Order[j] = k => j = i
      BY <3>1, Positions
    <3>4. k \in W <=> i \notin P
      BY <3>1, <3>3 DEF LastOnes, WrittenNames
    <3>5. k \in {Order[j] : j \in 1..n} <=> i <= n
      <4>1. 1..n \subseteq DOMAIN Order /\ (i <= n => i \in 1..n) /\ (i \in 1..n => i <= n)
        BY Positions
      <4> QED BY <3>1, <3>3, <4>1
    <3> QED BY <3>2, <3>4, <3>5
  <2>3. W \subseteq DOMAIN d
    BY DEF WrittenNames
  <2> QED BY <2>1, <2>2, <2>3
<1>3. Numbers(Restrict(d, W)) = Restrict(Numbers(d), W) /\ DOMAIN Numbers(d) = DOMAIN d
  <2>1. W \subseteq DOMAIN d
    BY DEF WrittenNames
  <2> QED BY <2>1 DEF Numbers, Restrict
<1> HIDE DEF W
<1>4. Restrict(Numbers(d), W) \in Cuts(Numbers(d), Order)
  BY <1>2, <1>3 DEF Cuts
<1> QED BY <1>3, <1>4 DEF W

-----------------------------------------------------------------------------
(* The invariant                                                           *)

File == {NoFile} \union {Holding(lines) : lines \in Seq(Line)}

Types ==
  /\ disk \in [Path -> File]
  /\ phase \in {"ended", "ready", "saving"}
  /\ profile = [exists |-> profile.exists, data |-> profile.data]
  /\ profile.exists \in BOOLEAN /\ IsTexts(profile.data)
  /\ filename \in Path /\ calls \in 0..MaxCalls
  /\ left = [p \in Path |-> [how |-> left[p].how, numbers |-> left[p].numbers]]
  /\ \A p \in Path : left[p].how \in {"edited", "cut", "torn", "whole"}

(* What save_as has written so far is read as the settings before todo *)
Saving ==
  /\ phase = "saving" =>
       /\ disk[filename] # NoFile
       /\ left[filename] = [how |-> "cut", numbers |-> meant]
       /\ LastOnes(profile.data, todo)
       /\ Reads(disk[filename]) =
            [section |-> head, data |-> Restrict(profile.data, WrittenNames(profile.data, todo)),
             ok |-> TRUE]
  /\ phase # "saving" => todo = {} /\ head = NoName

Kept(file, l) ==
  /\ l.how \in {"cut", "whole"} => Reads(file).ok
  /\ l.how = "cut"   => Numbers(Reads(file).data) \in Cuts(l.numbers, Order)
  /\ l.how = "whole" => Numbers(Reads(file).data) = l.numbers
  /\ l.how = "torn" /\ Reads(file).ok => WithoutTail(Numbers(Reads(file).data), l.numbers)

AllKept == \A p \in Path : Kept(disk[p], left[p])

IInv == Types /\ NumbersSurvive /\ ExistsMeansOnDisk /\ AllKept /\ Saving

LEMMA KeptIsCuts == AllKept <=> SavesAreCuts /\ TornFilesLoseTheirTail
BY Zenon DEF AllKept, Kept, SavesAreCuts, TornFilesLoseTheirTail

LEMMA FileForms ==
  ASSUME NEW file
  PROVE  file \in File <=> file = NoFile \/ \E lines \in Seq(Line) : file = Holding(lines)
BY Zenon DEF File

LEMMA TypesOK == Types => TypeOK
<1> SUFFICES ASSUME Types PROVE TypeOK
  OBVIOUS
<1>1. ASSUME NEW p \in Path
      PROVE  disk[p] = NoFile \/ \E lines \in disk[p] : disk[p] = Holding(lines)
  <2>1. disk[p] \in File
    BY DEF Types
  <2>2. \A lines : lines \in Holding(lines)
    BY DEF Holding
  <2> QED BY <2>1, <2>2, FileForms
<1>2. DOMAIN profile.data \subseteq Name /\ \A k \in DOMAIN profile.data : profile.data[k] \in Text \ {<<>>}
  BY DEF Types, IsTexts
<1> QED BY <1>1, <1>2 DEF Types, TypeOK

LEMMA InitInv == Init => IInv
<1> SUFFICES ASSUME Init PROVE IInv
  OBVIOUS
<1>1. \A file \in HandEdited : file \in File
  <2> TAKE file \in HandEdited
  <2>1. PICK lines \in file : /\ file = Holding(lines) /\ lines \in Seq(Range(lines))
                              /\ \A i \in DOMAIN lines : IsLine(lines[i])
    BY ProfileFileAssumption DEF ProfileFileAssumption
  <2>2. \A l \in Range(lines) : l \in Line
    BY <2>1, IsLineInLine DEF Range
  <2>3. lines \in Seq(Line)
    BY <2>1, <2>2, SeqMonotonic
  <2> QED BY <2>1, <2>3, FileForms
<1>2. NoFile \in File
  BY FileForms
<1>3. disk \in [Path -> File]
  BY <1>1, <1>2 DEF Init
<1>4. left = [p \in Path |-> [how |-> left[p].how, numbers |-> left[p].numbers]]
      /\ \A p \in Path : left[p].how = "edited"
  BY DEF Init
<1>5. MaxCalls \in Nat
  BY ProfileFileAssumption DEF ProfileFileAssumption
<1>6. Types
  BY <1>3, <1>4, <1>5, NoDataIsTexts DEF Init, Types, Ended
<1>7. AllKept
  BY <1>4 DEF AllKept, Kept
<1> QED BY <1>6, <1>7 DEF Init, IInv, NumbersSurvive, ExistsMeansOnDisk, Saving

(* The constructor: what it reads is what the last save has left *)
LEMMA ConstructInv ==
  ASSUME IInv, NEW p \in Path, Construct(p)
  PROVE  IInv'
<1>1. IsTexts(profile'.data) /\ profile' = [exists |-> profile'.exists, data |-> profile'.data]
      /\ profile'.exists \in BOOLEAN /\ Numbers(profile'.data) = meant'
      /\ (profile'.exists => disk[p] # NoFile)
  <2>1. CASE profile' = Load(NoFile)
    <3>1. profile' = [exists |-> FALSE, data |-> NoData]
      BY <2>1 DEF Load
    <3>2. meant' = Numbers(profile'.data)
      BY <3>1 DEF Construct
    <3> QED BY <3>1, <3>2, NoDataIsTexts
  <2>2. CASE disk[p] # NoFile /\ profile' = Load(Holding(Reads(disk[p]).data))
    <3>1. profile' = [exists |-> TRUE, data |-> Reads(disk[p]).data]
      <4>1. \A d : Load(Holding(d)) = [exists |-> TRUE, data |-> d]
        BY DEF Load, Holding, NoFile
      <4> QED BY <2>2, <4>1
    <3>2. PICK lines \in Seq(Line) : disk[p] = Holding(lines)
      BY <2>2, FileForms DEF IInv, Types
    <3>3. IsTexts(Reads(disk[p]).data)
      BY <3>2, ReadsType DEF IsReading
    <3>4. meant' = Numbers(Reads(disk[p]).data)
      <4>1. CASE left[p].how = "whole"
        BY <3>1, <4>1 DEF Construct, IInv, AllKept, Kept
      <4>2. CASE left[p].how # "whole"
        BY <3>1, <4>2 DEF Construct
      <4> QED BY <4>1, <4>2
    <3> QED BY <2>2, <3>1, <3>3, <3>4
  <2> QED BY <2>1, <2>2 DEF Construct
<1>2. Types'
  BY <1>1 DEF Construct, IInv, Types
<1>3. AllKept'
  BY DEF Construct, IInv, AllKept
<1>4. Saving'
  BY DEF Construct, IInv, Saving
<1> QED BY <1>1, <1>2, <1>3, <1>4 DEF Construct, IInv, NumbersSurvive, ExistsMeansOnDisk

(* add and find: the numbers change as they should *)
LEMMA AddInv ==
  ASSUME IInv, NEW k \in Name, NEW n \in Number, Add(k, n) \/ Look(k, n)
  PROVE  IInv'
<1>1. n \in 0..255 /\ MaxCalls \in Nat
  BY ProfileFileAssumption DEF ProfileFileAssumption
<1>2. phase = "ready" /\ phase' = "ready" /\ UNCHANGED <<disk, filename, todo, head, left>>
      /\ calls < MaxCalls /\ calls' = calls + 1
  BY DEF Add, Look
<1>3. ToText(n) \in Text \ {<<>>}
  BY <1>1, TextType
<1> DEFINE d == profile.data
           later == Merge(d, Entry(k, ToText(n)))
           earlier == Merge(Entry(k, ToText(n)), d)
<1>4. IsTexts(later) /\ IsTexts(earlier) /\ IsTexts(d)
  BY <1>3, MergeTexts DEF IInv, Types
<1>5. Numbers(later) = Merge(meant, Entry(k, n)) /\ Numbers(earlier) = Merge(Entry(k, n), meant)
  BY <1>1, <1>2, NumbersOfMerge DEF IInv, NumbersSurvive
<1>6. /\ profile' = [exists |-> profile.exists, data |-> profile'.data]
      /\ IsTexts(profile'.data) /\ Numbers(profile'.data) = meant'
  <2>1. CASE Add(k, n)
    <3>1. profile' = [profile EXCEPT !.data = later] /\ meant' = Merge(meant, Entry(k, n))
      BY <2>1 DEF Add, AddAll
    <3> HIDE DEF later
    <3>2. profile' = [exists |-> profile.exists, data |-> later]
      BY <3>1 DEF IInv, Types
    <3> QED BY <1>4, <1>5, <3>1, <3>2
  <2>2. CASE Look(k, n) /\ profile.exists
    <3>1. profile' = profile /\ meant' = meant
      BY <2>2 DEF Look, FindAll
    <3> QED BY <1>2, <1>4, <3>1 DEF IInv, Types, NumbersSurvive
  <2>3. CASE Look(k, n) /\ ~profile.exists
    <3>1. profile' = [profile EXCEPT !.data = earlier] /\ meant' = Merge(Entry(k, n), meant)
      BY <2>3 DEF Look, FindAll
    <3> HIDE DEF earlier
    <3>2. profile' = [exists |-> profile.exists, data |-> earlier]
      BY <3>1 DEF IInv, Types
    <3> QED BY <1>4, <1>5, <3>1, <3>2
  <2> QED BY <2>1, <2>2, <2>3
<1>7. profile'.exists = profile.exists
  BY <1>6
<1>8. Types'
  BY <1>1, <1>2, <1>6, <1>7 DEF IInv, Types
<1>9. AllKept' /\ Saving'
  BY <1>2 DEF IInv, AllKept, Saving
<1> QED BY <1>2, <1>6, <1>7, <1>8, <1>9 DEF IInv, NumbersSurvive, ExistsMeansOnDisk

(* save_as: an empty file, before the first setting *)
LEMMA OpenInv ==
  ASSUME IInv, NEW p \in Path, Open(p)
  PROVE  IInv'
<1> DEFINE d == profile.data
<1>1. Holding(<<>>) \in File /\ Holding(<<>>) # NoFile
  <2>1. <<>> \in Seq(Line)
    OBVIOUS
  <2> QED BY <2>1, FileForms DEF Holding, NoFile
<1>2. disk' = [disk EXCEPT ![p] = Holding(<<>>)] /\ disk'[p] = Holding(<<>>) /\ disk' \in [Path -> File]
  BY <1>1 DEF Open, IInv, Types
<1>3. left' = [left EXCEPT ![p] = [how |-> "cut", numbers |-> meant]]
      /\ left'[p] = [how |-> "cut", numbers |-> meant]
      /\ \A q \in Path : q # p => left'[q] = left[q] /\ disk'[q] = disk[q]
  BY <1>2 DEF Open, IInv, Types
<1>4. profile' = [exists |-> TRUE, data |-> d] /\ IsTexts(d) /\ Numbers(d) = meant
  BY DEF Open, IInv, Types, NumbersSurvive
<1>5. LastOnes(d, todo') /\ WrittenNames(d, todo') = {}
  BY <1>4, AllToWrite DEF Open
<1>6. Reads(disk'[p]) = [section |-> head', data |-> Restrict(d, WrittenNames(d, todo')), ok |-> TRUE]
  <2>1. Restrict(d, {}) = NoData
    BY DEF Restrict, NoData
  <2>2. head' = NoName
    BY DEF Open, IInv, Saving
  <2> QED BY <1>2, <1>5, <2>1, <2>2, ReadsNothing DEF NothingRead
<1>7. Types'
  <2>1. left' = [q \in Path |-> [how |-> left'[q].how, numbers |-> left'[q].numbers]]
        /\ \A q \in Path : left'[q].how \in {"edited", "cut", "torn", "whole"}
    BY <1>3 DEF IInv, Types
  <2>2. calls' \in 0..MaxCalls
    BY ProfileFileAssumption DEF Open, IInv, Types, ProfileFileAssumption
  <2>3. phase' = "saving" /\ filename' = p
    BY DEF Open
  <2> QED BY <1>2, <1>4, <2>1, <2>2, <2>3 DEF Types
<1>8. Kept(disk'[p], left'[p])
  <2>1. Numbers(Restrict(d, WrittenNames(d, todo'))) \in Cuts(meant, Order)
    BY <1>4, <1>5, WrittenIsCut
  <2> QED BY <1>3, <1>6, <2>1 DEF Kept
<1>9. AllKept'
  BY <1>3, <1>8 DEF IInv, AllKept
<1>10. Saving'
  BY <1>1, <1>2, <1>3, <1>4, <1>5, <1>6 DEF Open, Saving
<1> QED BY <1>1, <1>2, <1>4, <1>7, <1>9, <1>10 DEF Open, IInv, NumbersSurvive, ExistsMeansOnDisk

(* Records of which one member is replaced *)
LEMMA Replaced ==
  ASSUME NEW a, NEW b, NEW c, NEW x
  PROVE  /\ [[section |-> a, data |-> b, ok |-> c] EXCEPT !.section = x]
               = [section |-> x, data |-> b, ok |-> c]
         /\ [[section |-> a, data |-> b, ok |-> c] EXCEPT !.data = x]
               = [section |-> a, data |-> x, ok |-> c]
OBVIOUS

LEMMA ReplacedHow ==
  ASSUME NEW r, NEW h, NEW n, r = [how |-> h, numbers |-> n], NEW x
  PROVE  [r EXCEPT !.how = x] = [how |-> x, numbers |-> n]
OBVIOUS

LEMMA HowReplaced ==
  ASSUME Types, NEW x, left' = [left EXCEPT ![filename].how = x]
  PROVE  /\ left'[filename] = [how |-> x, numbers |-> left[filename].numbers]
         /\ \A p \in Path : p # filename => left'[p] = left[p]
         /\ left' = [p \in Path |-> [how |-> left'[p].how, numbers |-> left'[p].numbers]]
<1>1. left' = [left EXCEPT ![filename] = [left[filename] EXCEPT !.how = x]]
  BY Zenon
<1>2. left[filename] = [how |-> left[filename].how, numbers |-> left[filename].numbers]
  BY DEF Types
<1>3. [left[filename] EXCEPT !.how = x] = [how |-> x, numbers |-> left[filename].numbers]
  <2>1. PICK h \in {left[filename].how}, n \in {left[filename].numbers} :
          left[filename] = [how |-> h, numbers |-> n]
    BY <1>2
  <2>2. [left[filename] EXCEPT !.how = x] = [how |-> x, numbers |-> n]
    BY <2>1, ReplacedHow
  <2> QED BY <2>2
<1>4. left' = [left EXCEPT ![filename] = [how |-> x, numbers |-> left[filename].numbers]]
  BY <1>1, <1>3, Zenon
<1> QED BY <1>4 DEF Types

(* A line more in the file that save_as writes *)
LEMMA OneMoreLine ==
  ASSUME Types, disk[filename] # NoFile, NEW line \in Line, Written(line)
  PROVE  /\ disk' \in [Path -> File] /\ disk'[filename] # NoFile
         /\ \A p \in Path : p # filename => disk'[p] = disk[p]
         /\ Reads(disk'[filename]) = ReadLine(Reads(disk[filename]), line)
<1>1. PICK lines \in Seq(Line) : disk[filename] = Holding(lines)
  BY FileForms DEF Types
<1>2. {Append(l, line) : l \in disk[filename]} = Holding(Append(lines, line))
  BY <1>1 DEF Holding
<1>3. disk' = [disk EXCEPT ![filename] = Holding(Append(lines, line))]
  BY <1>2 DEF Written
<1>4. Append(lines, line) \in Seq(Line)
  OBVIOUS
<1>5. Holding(Append(lines, line)) \in File /\ Holding(Append(lines, line)) # NoFile
  BY <1>4, FileForms DEF Holding, NoFile
<1>6. disk'[filename] = Holding(Append(lines, line))
  BY <1>3 DEF Types
<1> QED BY <1>1, <1>3, <1>5, <1>6, ReadsOneMore DEF Types

(* The line that save_as writes next, and the setting that comes next *)
LEMMA NextLineType ==
  ASSUME IInv, phase = "saving", todo # {}
  PROVE  /\ NextName \in DOMAIN profile.data /\ NextName \in Name
         /\ NextName = <<NextName[1], NextName[2]>>
         /\ NextName[1] \in SectionName /\ NextName[2] \in KeyName
         /\ profile.data[NextName] \in Text \ {<<>>}
         /\ NextLine \in Line
<1>1. NextName \in DOMAIN profile.data
  BY OneLess DEF IInv, Saving, NextName
<1>2. NextName \in Name /\ profile.data[NextName] \in Text \ {<<>>}
  BY <1>1 DEF IInv, Types, IsTexts
<1>3. NextName \in SectionName \X KeyName
  BY <1>2, ProfileFileAssumption DEF ProfileFileAssumption
<1> HIDE DEF NextName
<1>4. NextName = <<NextName[1], NextName[2]>> /\ NextName[1] \in SectionName /\ NextName[2] \in KeyName
  BY <1>3
<1>5. Section(NextName[1]) \in Line
  BY <1>4, LineMembers
<1>6. Setting(NextName[2], profile.data[NextName]) \in Line
  BY <1>2, <1>4, LineMembers
<1> QED BY <1>1, <1>2, <1>4, <1>5, <1>6 DEF NextLine

LEMMA WriteLineInv ==
  ASSUME IInv, WriteLine
  PROVE  IInv'
<1> DEFINE d == profile.data
           W == WrittenNames(d, todo)
<1>1. /\ phase = "saving" /\ todo # {} /\ Written(NextLine)
      /\ UNCHANGED <<phase, profile, filename, calls, meant, left>>
  BY DEF WriteLine
<1>2. /\ disk[filename] # NoFile
      /\ left[filename] = [how |-> "cut", numbers |-> meant]
      /\ LastOnes(d, todo)
      /\ Reads(disk[filename]) = [section |-> head, data |-> Restrict(d, W), ok |-> TRUE]
  BY <1>1 DEF IInv, Saving
<1>3. NextLine \in Line
  BY <1>1, NextLineType
<1>4. /\ disk' \in [Path -> File] /\ disk'[filename] # NoFile
      /\ \A p \in Path : p # filename => disk'[p] = disk[p]
      /\ Reads(disk'[filename]) = ReadLine(Reads(disk[filename]), NextLine)
  BY <1>1, <1>2, <1>3, OneMoreLine DEF IInv
<1> DEFINE acc == Reads(disk[filename])
<1>5. acc.ok = TRUE /\ acc.section = head /\ acc.data = Restrict(d, W)
  BY <1>2
<1>6. /\ LastOnes(d, todo')
      /\ Reads(disk'[filename]) = [section |-> head', data |-> Restrict(d, WrittenNames(d, todo')), ok |-> TRUE]
  <2>1. CASE head # NextName[1]
    <3>1. NextLine = Section(NextName[1]) /\ head' = NextName[1] /\ todo' = todo
      BY <2>1 DEF NextLine, WriteLine
    <3>2. ReadLine(acc, NextLine) = [acc EXCEPT !.section = NextName[1]]
      BY <1>5, <3>1, ReadSection
    <3>3. ReadLine(acc, NextLine) = [section |-> NextName[1], data |-> Restrict(d, W), ok |-> TRUE]
      <4> HIDE DEF acc, W, d, NextName, NextLine
      <4>1. acc = [section |-> head, data |-> Restrict(d, W), ok |-> TRUE]
        BY <1>2 DEF acc
      <4> QED BY <3>2, <4>1, Replaced, Zenon
    <3> QED BY <1>2, <1>4, <3>1, <3>3
  <2>2. CASE head = NextName[1]
    <3>1. NextLine = Setting(NextName[2], d[NextName]) /\ head' = head /\ todo' = todo \ {Min(todo)}
      BY <2>2 DEF NextLine, WriteLine
    <3>2. /\ NextName = <<head, NextName[2]>> /\ head # NoName /\ NextName[2] # NoName
          /\ d[NextName] # <<>>
      BY <1>1, <2>2, NextLineType, ProfileFileAssumption DEF ProfileFileAssumption
    <3> DEFINE more == Merge(Restrict(d, W), Entry(NextName, d[NextName]))
    <3>3. ReadLine(acc, NextLine) = [acc EXCEPT !.data = Merge(@, Entry(<<head, NextName[2]>>, d[NextName]))]
      BY <1>5, <3>1, <3>2, ReadSetting
    <3>4. ReadLine(acc, NextLine) = [acc EXCEPT !.data = more]
      BY <1>5, <3>2, <3>3
    <3>5. /\ LastOnes(d, todo')
          /\ WrittenNames(d, todo') = W \union {NextName}
          /\ NextName \in DOMAIN d
      BY <1>1, <1>2, <3>1, OneLess DEF NextName
    <3>6. more = Restrict(d, W \union {NextName})
      BY DEF Merge, Restrict, Entry
    <3> HIDE DEF more
    <3>7. ReadLine(acc, NextLine) = [section |-> head, data |-> more, ok |-> TRUE]
      <4> HIDE DEF acc, W, d, NextName, NextLine
      <4>1. acc = [section |-> head, data |-> Restrict(d, W), ok |-> TRUE]
        BY <1>2 DEF acc
      <4> QED BY <3>4, <4>1, Replaced, Zenon
    <3> QED BY <1>4, <3>1, <3>5, <3>6, <3>7
  <2> QED BY <2>1, <2>2
<1>7. Types'
  BY <1>1, <1>4 DEF IInv, Types
<1>8. Saving'
  BY <1>1, <1>2, <1>4, <1>6 DEF Saving
<1>9. Kept(disk'[filename], left[filename])
  <2>1. Numbers(Restrict(d, WrittenNames(d, todo'))) \in Cuts(meant, Order)
    <3>1. IsTexts(d) /\ Numbers(d) = meant
      BY <1>1 DEF IInv, Types, NumbersSurvive
    <3> QED BY <1>6, <3>1, WrittenIsCut
  <2> QED BY <1>2, <1>6, <2>1 DEF Kept
<1>10. AllKept'
  BY <1>1, <1>4, <1>9 DEF IInv, AllKept
<1> QED BY <1>1, <1>4, <1>7, <1>8, <1>10 DEF IInv, NumbersSurvive, ExistsMeansOnDisk

(* The end of save_as: all settings are written *)
LEMMA SavedInv ==
  ASSUME IInv, Saved
  PROVE  IInv'
<1> DEFINE d == profile.data
<1>1. /\ phase = "saving" /\ todo = {} /\ phase' = "ready" /\ head' = NoName
      /\ left' = [left EXCEPT ![filename].how = "whole"]
      /\ UNCHANGED <<disk, profile, filename, todo, calls, meant>>
  BY DEF Saved
<1>2. /\ left[filename] = [how |-> "cut", numbers |-> meant]
      /\ Reads(disk[filename]) = [section |-> head, data |-> Restrict(d, WrittenNames(d, todo)), ok |-> TRUE]
  BY <1>1 DEF IInv, Saving
<1>3. Restrict(d, WrittenNames(d, todo)) = d
  <2>1. WrittenNames(d, todo) = DOMAIN d
    BY <1>1 DEF WrittenNames
  <2> QED BY <2>1 DEF Restrict, IInv, Types, IsTexts
<1>4. /\ left'[filename] = [how |-> "whole", numbers |-> meant]
      /\ \A p \in Path : p # filename => left'[p] = left[p]
      /\ left' = [p \in Path |-> [how |-> left'[p].how, numbers |-> left'[p].numbers]]
  <2>1. left[filename].numbers = meant
    BY <1>2
  <2> QED BY <1>1, <2>1, HowReplaced DEF IInv
<1>5. Types'
  BY <1>1, <1>4 DEF IInv, Types
<1>6. Kept(disk[filename], left'[filename])
  BY <1>1, <1>2, <1>3, <1>4 DEF Kept, IInv, NumbersSurvive
<1>7. AllKept'
  BY <1>1, <1>4, <1>6 DEF IInv, AllKept
<1>8. Saving'
  BY <1>1 DEF Saving
<1> QED BY <1>1, <1>5, <1>7, <1>8 DEF IInv, NumbersSurvive, ExistsMeansOnDisk

(* What is left of a line is a line *)
LEMMA TornType ==
  ASSUME NEW line \in Line, NEW part \in Torn(line)
  PROVE  part \in Line
<1>1. CASE part = Malformed
  BY <1>1, LineMembers
<1>2. CASE part # Malformed
  <2>1. line[1] = "setting"
    BY <1>2 DEF Torn
  <2>2. PICK n \in 0..(Len(line[3]) - 1) : part = Setting(line[2], SubSeq(line[3], 1, n))
    BY <1>2, <2>1 DEF Torn
  <2>3. PICK k \in KeyName \union {NoName}, text \in Text : line = Setting(k, text)
    <3>1. \A s : line # Section(s)
      BY <2>1, LineForms
    <3>2. line # Empty /\ line # Malformed
      BY <2>1 DEF Empty, Malformed
    <3> QED BY <3>1, <3>2, LineMembers
  <2>4. line[2] = k /\ line[3] = text
    BY <2>3, LineForms
  <2>5. SubSeq(text, 1, n) \in Text
    <3>1. Len(text) \in Nat
      BY TextMembers
    <3>2. n \in 0..Len(text)
      BY <2>2, <2>4, <3>1
    <3> QED BY <3>2, CutText
  <2> QED BY <2>2, <2>4, <2>5, LineMembers
<1> QED BY <1>1, <1>2

(* A setting of which only a part is read is the last one of those read *)
LEMMA LastIsShort ==
  ASSUME NEW d, IsTexts(d), NEW P, LastOnes(d, P), P # {},
         NEW n \in 0..Len(d[Order[Min(P)]])
  PROVE  LET k    == Order[Min(P)]
             read == Merge(Restrict(d, WrittenNames(d, P)), Entry(k, SubSeq(d[k], 1, n)))
         IN  WithoutTail(Numbers(read), Numbers(d))
<1>1. PICK m \in P : m = Min(P)
  BY NextOf
<1>2. PICK k : k = Order[m]
  OBVIOUS
<1>3. PICK part : part = SubSeq(d[k], 1, n)
  OBVIOUS
<1> DEFINE W    == WrittenNames(d, P)
           read == Merge(Restrict(d, W), Entry(k, part))
           c    == Numbers(Restrict(d, W \union {k}))
<1>4. LastOnes(d, P \ {m}) /\ WrittenNames(d, P \ {m}) = W \union {k} /\ k \in DOMAIN d
  BY <1>1, <1>2, OneLess
<1>5. c \in Cuts(Numbers(d), Order)
  BY <1>4, WrittenIsCut
<1>6. ToInt(part) \in Shortened(ToInt(d[k]))
  <2>1. d[k] \in Text /\ n \in 0..Len(d[k])
    BY <1>1, <1>2, <1>4 DEF IsTexts
  <2> QED BY <1>3, <2>1, CutText
<1>7. m \in DOMAIN Order /\ DOMAIN Order = 1..Len(Order) /\ Len(Order) \in Nat
  BY Positions DEF LastOnes
<1>8. /\ DOMAIN Numbers(read) = W \union {k} /\ DOMAIN c = W \union {k}
      /\ \A key \in W : key # k => Numbers(read)[key] = c[key]
      /\ Numbers(read)[k] = ToInt(part) /\ c[k] = ToInt(d[k])
  <2>1. DOMAIN Restrict(d, W) = W /\ DOMAIN read = W \union {k}
        /\ DOMAIN Restrict(d, W \union {k}) = W \union {k}
    BY DEF Restrict, Merge, Entry, WrittenNames
  <2>2. read[k] = part /\ \A key \in W : key # k => read[key] = d[key]
    BY DEF Restrict, Merge, Entry
  <2>3. \A key \in W \union {k} : Restrict(d, W \union {k})[key] = d[key]
    BY DEF Restrict
  <2> HIDE DEF read
  <2> QED BY <2>1, <2>2, <2>3 DEF Numbers
<1>9. ASSUME NEW i \in DOMAIN Order, Order[i] \in DOMAIN c, Order[i] = k
      PROVE  \A j \in (i + 1)..Len(Order) : Order[j] \notin DOMAIN c
  <2>1. i = m
    BY <1>2, <1>7, <1>9, Positions
  <2> SUFFICES ASSUME NEW j \in (i + 1)..Len(Order) PROVE Order[j] \notin W \union {k}
    BY <1>8
  <2>2. j \in DOMAIN Order /\ m < j
    BY <1>7, <2>1
  <2>3. Order[j] # k
    BY <1>2, <1>7, <2>2, Positions
  <2>4. Order[j] \in DOMAIN d => j \in P
    BY <2>2 DEF LastOnes
  <2> QED BY <2>3, <2>4 DEF WrittenNames
<1> HIDE DEF c, W, read
<1>10. WithoutTail(Numbers(read), Numbers(d))
  <2>1. ASSUME NEW i \in DOMAIN Order, Order[i] \in DOMAIN c
        PROVE  \/ Numbers(read)[Order[i]] = c[Order[i]]
               \/ /\ Numbers(read)[Order[i]] \in Shortened(c[Order[i]])
                  /\ \A j \in (i + 1)..Len(Order) : Order[j] \notin DOMAIN c
    BY <1>6, <1>8, <1>9, <2>1
  <2> QED BY <1>5, <1>8, <2>1 DEF WithoutTail
<1> QED BY <1>1, <1>2, <1>3, <1>10 DEF read, W

(* A torn line is refused, or it is a setting whose number is cut *)
LEMMA TornIsShort ==
  ASSUME IInv, phase = "saving", todo # {}, NEW line \in Torn(NextLine),
         ReadLine(Reads(disk[filename]), line).ok
  PROVE  WithoutTail(Numbers(ReadLine(Reads(disk[filename]), line).data), meant)
<1> DEFINE d   == profile.data
           W   == WrittenNames(d, todo)
           acc == Reads(disk[filename])
<1>1. IsTexts(d) /\ LastOnes(d, todo) /\ Numbers(d) = meant
  BY DEF IInv, Types, Saving, NumbersSurvive
<1>2. acc = [section |-> head, data |-> Restrict(d, W), ok |-> TRUE]
  BY DEF IInv, Saving
<1>3. line # Malformed
  <2>1. [acc EXCEPT !.ok = FALSE].ok = FALSE
    BY <1>2
  <2> HIDE DEF acc
  <2>2. acc.ok
    BY <1>2
  <2> QED BY <2>1, <2>2, ReadMalformed DEF acc
<1>4. NextLine[1] = "setting"
  BY <1>3 DEF Torn
<1>5. PICK n \in 0..(Len(NextLine[3]) - 1) : line = Setting(NextLine[2], SubSeq(NextLine[3], 1, n))
  BY <1>3, <1>4 DEF Torn
<1>6. head = NextName[1] /\ NextLine = Setting(NextName[2], d[NextName])
  BY <1>4, LineForms DEF NextLine
<1>7. line = Setting(NextName[2], SubSeq(d[NextName], 1, n)) /\ n \in 0..Len(d[NextName])
  <2>1. NextLine[2] = NextName[2] /\ NextLine[3] = d[NextName]
    BY <1>6, LineForms
  <2>2. Len(d[NextName]) \in Nat
    BY NextLineType, TextMembers
  <2> QED BY <1>5, <2>1, <2>2
<1> DEFINE part == SubSeq(d[NextName], 1, n)
           more == Merge(Restrict(d, W), Entry(NextName, part))
<1>8. ReadLine(acc, line).data = more
  <2>1. NextName = <<head, NextName[2]>>
    BY <1>6, NextLineType
  <2> HIDE DEF acc, part
  <2>2. acc.ok /\ acc.section = head /\ acc.data = Restrict(d, W)
    BY <1>2
  <2>3. ReadLine(acc, line).ok
    BY DEF acc
  <2>4. ReadLine(acc, line) \in {[acc EXCEPT !.ok = FALSE],
                                 [acc EXCEPT !.data = Merge(@, Entry(<<head, NextName[2]>>, part))]}
    BY <1>7, <2>2, ReadSetting DEF part
  <2>5. [acc EXCEPT !.ok = FALSE].ok = FALSE
    BY <1>2
  <2>6. ReadLine(acc, line) = [acc EXCEPT !.data = more]
    BY <2>1, <2>2, <2>3, <2>4, <2>5
  <2> HIDE DEF more
  <2>7. PICK r, m : r = acc /\ m = more
    OBVIOUS
  <2>8. PICK data : r = [section |-> head, data |-> data, ok |-> TRUE]
    BY <1>2, <2>7
  <2>9. [r EXCEPT !.data = m].data = m
    BY <2>8
  <2> QED BY <2>6, <2>7, <2>9
<1>9. WithoutTail(Numbers(more), Numbers(d))
  <2>1. n \in 0..Len(d[Order[Min(todo)]])
    BY <1>7 DEF NextName
  <2> HIDE DEF d
  <2> QED BY <1>1, <2>1, LastIsShort DEF NextName
<1> QED BY <1>1, <1>8, <1>9

(* A file that ends with a torn line is kept without its tail *)
LEMMA TornInv ==
  ASSUME IInv, phase = "saving", todo # {}, NEW line \in Torn(NextLine), Written(line),
         left' = [left EXCEPT ![filename].how = "torn"]
  PROVE  /\ disk' \in [Path -> File] /\ disk'[filename] # NoFile
         /\ left' = [p \in Path |-> [how |-> left'[p].how, numbers |-> left'[p].numbers]]
         /\ \A p \in Path : left'[p].how \in {"edited", "cut", "torn", "whole"}
         /\ AllKept'
<1>1. line \in Line
  BY NextLineType, TornType
<1>2. /\ disk' \in [Path -> File] /\ disk'[filename] # NoFile
      /\ \A p \in Path : p # filename => disk'[p] = disk[p]
      /\ Reads(disk'[filename]) = ReadLine(Reads(disk[filename]), line)
  BY <1>1, OneMoreLine DEF IInv, Saving
<1>3. /\ left'[filename] = [how |-> "torn", numbers |-> left[filename].numbers]
      /\ \A p \in Path : p # filename => left'[p] = left[p]
      /\ left' = [p \in Path |-> [how |-> left'[p].how, numbers |-> left'[p].numbers]]
  BY HowReplaced DEF IInv
<1>4. \A p \in Path : left'[p].how \in {"edited", "cut", "torn", "whole"}
  BY <1>3 DEF IInv, Types
<1>5. Kept(disk'[filename], left'[filename])
  <2>1. left'[filename].how = "torn" /\ left'[filename].numbers = meant
    BY <1>3 DEF IInv, Saving
  <2>2. Reads(disk'[filename]).ok => WithoutTail(Numbers(Reads(disk'[filename]).data), meant)
    BY <1>2, TornIsShort
  <2> QED BY <2>1, <2>2 DEF Kept
<1>6. AllKept'
  BY <1>2, <1>3, <1>5 DEF IInv, AllKept
<1> QED BY <1>2, <1>3, <1>4, <1>6

(* Whatever gets to the disk of a line that is cut: the files stay files,  *)
(* and each of them is one that its last save can have left                *)
LEMMA CutInv ==
  ASSUME IInv, LineIsCut
  PROVE  /\ disk' \in [Path -> File]
         /\ \A p \in Path : disk[p] # NoFile => disk'[p] # NoFile
         /\ left' = [p \in Path |-> [how |-> left'[p].how, numbers |-> left'[p].numbers]]
         /\ \A p \in Path : left'[p].how \in {"edited", "cut", "torn", "whole"}
         /\ AllKept'
<1>1. CASE UNCHANGED <<disk, left>>
  BY <1>1 DEF IInv, Types, AllKept
<1>2. CASE todo # {} /\ (\E line \in Torn(NextLine) : Written(line))
           /\ left' = [left EXCEPT ![filename].how = "torn"]
  <2>1. phase = "saving"
    BY <1>2 DEF IInv, Saving
  <2>2. PICK line \in Torn(NextLine) : Written(line)
    BY <1>2
  <2>3. \A p \in Path : p # filename => disk'[p] = disk[p]
    BY <2>2 DEF Written, IInv, Types
  <2> QED BY <1>2, <2>1, <2>2, <2>3, TornInv
<1> QED BY <1>1, <1>2 DEF LineIsCut

LEMMA DiskFullInv ==
  ASSUME IInv, DiskFull
  PROVE  IInv'
<1>1. /\ phase = "saving" /\ todo # {} /\ todo' = {} /\ head' = NoName /\ phase' = "ready"
      /\ UNCHANGED <<profile, filename, calls, meant>>
  BY DEF DiskFull
<1>2. /\ disk' \in [Path -> File] /\ disk'[filename] # NoFile
      /\ left' = [p \in Path |-> [how |-> left'[p].how, numbers |-> left'[p].numbers]]
      /\ \A p \in Path : left'[p].how \in {"edited", "cut", "torn", "whole"}
      /\ AllKept'
  <2>1. filename \in Path /\ disk[filename] # NoFile
    BY <1>1 DEF IInv, Types, Saving
  <2> QED BY <2>1, CutInv DEF DiskFull
<1>3. Types'
  BY <1>1, <1>2 DEF IInv, Types
<1>4. Saving'
  BY <1>1 DEF Saving
<1> QED BY <1>1, <1>2, <1>3, <1>4 DEF IInv, NumbersSurvive, ExistsMeansOnDisk

LEMMA KillInv ==
  ASSUME IInv, Kill
  PROVE  IInv'
<1>1. /\ phase' = "ended" /\ profile' = Ended /\ todo' = {} /\ head' = NoName
      /\ UNCHANGED <<filename, calls>>
  BY DEF Kill
<1>2. /\ disk' \in [Path -> File]
      /\ left' = [p \in Path |-> [how |-> left'[p].how, numbers |-> left'[p].numbers]]
      /\ \A p \in Path : left'[p].how \in {"edited", "cut", "torn", "whole"}
      /\ AllKept'
  BY CutInv DEF Kill
<1>3. Types'
  BY <1>1, <1>2, NoDataIsTexts DEF IInv, Types, Ended
<1>4. Saving' /\ NumbersSurvive' /\ ExistsMeansOnDisk'
  BY <1>1 DEF Saving, NumbersSurvive, ExistsMeansOnDisk
<1> QED BY <1>2, <1>3, <1>4 DEF IInv

LEMMA InvHolds == Spec => []IInv
<1>1. IInv /\ [Next]_vars => IInv'
  <2> SUFFICES ASSUME IInv, [Next]_vars PROVE IInv'
    OBVIOUS
  <2>1. CASE UNCHANGED vars
    BY <2>1 DEF vars, IInv, Types, NumbersSurvive, ExistsMeansOnDisk, AllKept, Saving
  <2>2. CASE WriteLine
    BY <2>2, WriteLineInv
  <2>3. CASE Saved
    BY <2>3, SavedInv
  <2>4. CASE DiskFull
    BY <2>4, DiskFullInv
  <2>5. CASE Kill
    BY <2>5, KillInv
  <2>6. ASSUME NEW p \in Path, Construct(p) PROVE IInv'
    BY <2>6, ConstructInv
  <2>7. ASSUME NEW p \in Path, Open(p) PROVE IInv'
    BY <2>7, OpenInv
  <2>8. ASSUME NEW p \in Path, OpenFails(p) PROVE IInv'
    BY <2>1, <2>8 DEF OpenFails
  <2>9. ASSUME NEW k \in Name, NEW n \in Number, Add(k, n) \/ Look(k, n) PROVE IInv'
    BY <2>9, AddInv
  <2> QED BY <2>1, <2>2, <2>3, <2>4, <2>5, <2>6, <2>7, <2>8, <2>9 DEF Next
<1> QED BY <1>1, InitInv, PTL DEF Spec

(* All files are made of lines, and all settings in memory are texts that  *)
(* are not empty, whatever a user has put in place                         *)
THEOREM FilesAreLines == Spec => []TypeOK
BY InvHolds, TypesOK, PTL DEF IInv

(* The numbers that are added to a profile come back from it, and from a   *)
(* file to which it was saved                                              *)
THEOREM NumbersComeBack == Spec => []NumbersSurvive
<1>1. IInv => NumbersSurvive
  BY DEF IInv
<1> QED BY <1>1, InvHolds, PTL

(* A save that is cut short between two lines leaves a file that the       *)
(* constructor takes, with the first settings of the profile               *)
THEOREM EverySaveIsACut == Spec => []SavesAreCuts
<1>1. IInv => SavesAreCuts
  BY KeptIsCuts DEF IInv
<1> QED BY <1>1, InvHolds, PTL

(* A file that ends in the middle of a line is refused, or only the last   *)
(* one of its settings differs, by digits that are missing at its end      *)
THEOREM TornFilesStayShort == Spec => []TornFilesLoseTheirTail
<1>1. IInv => TornFilesLoseTheirTail
  BY KeptIsCuts DEF IInv
<1> QED BY <1>1, InvHolds, PTL

(* A profile that says that it exists has a file under its name *)
THEOREM ExistingIsOnDisk == Spec => []ExistsMeansOnDisk
<1>1. IInv => ExistsMeansOnDisk
  BY DEF IInv
<1> QED BY <1>1, InvHolds, PTL

=============================================================================
