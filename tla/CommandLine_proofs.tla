------------------------- MODULE CommandLine_proofs -------------------------
(***************************************************************************)
(* Proofs about CommandLine: for all command lines getopt stays inside     *)
(* argv, but for the null pointer at its end, main makes no string of a    *)
(* null pointer, and options written as usage() says are taken as meant.   *)
(***************************************************************************)
EXTENDS CommandLine, NaturalsInduction, SequenceTheorems, WellFoundedInduction, TLAPS

(* A set of numbers has a first one *)
LEMMA FirstOf ==
  ASSUME NEW I, I \subseteq Nat, I # {}
  PROVE  \E i \in I : \A j \in I : i <= j
<1>1. IsWellFoundedOn(OpToRel(<, Nat), Nat)
  BY NatLessThanWellFounded
<1>2. PICK i \in I : \A j \in I : ~(<<j, i>> \in OpToRel(<, Nat))
  BY <1>1, WFMin
<1>3. \A j \in I : ~(j < i)
  BY <1>2 DEF OpToRel
<1> QED BY <1>3

-----------------------------------------------------------------------------
(* Command lines that are written as usage() says                          *)

(* The arguments of the first options, one after the other *)
Flat(flat, seqs, n) ==
  flat = [i \in 1..n |-> IF i = 1 THEN seqs[i] ELSE flat[i - 1] \o seqs[i]]

LEMMA FlatExists ==
  ASSUME NEW seqs, NEW n \in Nat
  PROVE  \E flat : Flat(flat, seqs, n)
<1> DEFINE I == {m \in Nat : ~\E flat : Flat(flat, seqs, m)}
<1> SUFFICES ASSUME I # {} PROVE FALSE
  OBVIOUS
<1>1. PICK m \in I : \A j \in I : m <= j
  BY FirstOf
<1>2. m # 0
  <2>1. Flat([i \in 1..0 |-> seqs[i]], seqs, 0)
    BY DEF Flat
  <2> QED BY <2>1
<1>3. PICK less : Flat(less, seqs, m - 1)
  BY <1>1, <1>2
<1> DEFINE more == [i \in 1..m |-> IF i = 1 THEN seqs[i] ELSE less[i - 1] \o seqs[i]]
<1>4. \A i \in 1..(m - 1) : more[i] = less[i]
  <2>1. ASSUME NEW i \in 1..(m - 1) PROVE i \in 1..m
    BY <1>1
  <2>2. \A i \in 1..(m - 1) : less[i] = IF i = 1 THEN seqs[i] ELSE less[i - 1] \o seqs[i]
    BY <1>3, Zenon DEF Flat
  <2> QED BY <2>1, <2>2
<1>5. \A i \in 1..m : i # 1 => i - 1 \in 1..(m - 1)
  OBVIOUS
<1>6. Flat(more, seqs, m)
  BY <1>4, <1>5 DEF Flat
<1> QED BY <1>1, <1>6

LEMMA FlattenIs ==
  ASSUME NEW S, NEW seqs \in Seq(S), NEW n \in Nat, n = Len(seqs), n # 0
  PROVE  \E flat : Flat(flat, seqs, n) /\ FlattenSeq(seqs) = flat[n]
<1> DEFINE flat == CHOOSE flat : flat = [i \in 1..Len(seqs) |->
                     IF i = 1 THEN seqs[i] ELSE flat[i - 1] \o seqs[i]]
<1>1. FlattenSeq(seqs) = flat[n]
  BY DEF FlattenSeq
<1>2. Flat(flat, seqs, n)
  <2>1. PICK some : Flat(some, seqs, n)
    BY FlatExists
  <2> QED BY <2>1, Zenon DEF Flat
<1> HIDE DEF flat
<1> QED BY <1>1, <1>2

(* All of the arguments together are a sequence *)
LEMMA FlattenType ==
  ASSUME NEW S, NEW seqs \in Seq(Seq(S))
  PROVE  FlattenSeq(seqs) \in Seq(S)
<1>1. PICK n \in Nat : n = Len(seqs) /\ DOMAIN seqs = 1..n
  OBVIOUS
<1>2. CASE n = 0
  <2>1. seqs = <<>>
    BY <1>1, <1>2, EmptySeq
  <2> QED BY <1>1, <1>2, <2>1 DEF FlattenSeq
<1>3. CASE n # 0
  <2>1. PICK flat : Flat(flat, seqs, n) /\ FlattenSeq(seqs) = flat[n]
    BY <1>1, <1>3, FlattenIs
  <2> DEFINE I == {i \in 1..n : flat[i] \notin Seq(S)}
  <2>3. \A i \in 1..n : flat[i] = IF i = 1 THEN seqs[i] ELSE flat[i - 1] \o seqs[i]
    BY <2>1, Zenon DEF Flat
  <2>4. \A i \in 1..n : seqs[i] \in Seq(S)
    BY <1>1
  <2>5. I = {}
    <3> SUFFICES ASSUME I # {} PROVE FALSE
      OBVIOUS
    <3>1. PICK i \in I : \A j \in I : i <= j
      <4>1. I \subseteq Nat
        OBVIOUS
      <4> HIDE DEF I
      <4> QED BY <4>1, FirstOf
    <3>2. CASE i = 1
      BY <2>3, <2>4, <3>1, <3>2
    <3>3. CASE i # 1
      <4>1. i - 1 \in 1..n /\ i - 1 \notin I
        BY <3>1, <3>3
      <4>2. flat[i - 1] \in Seq(S) /\ seqs[i] \in Seq(S)
        BY <2>4, <4>1
      <4>3. flat[i] = flat[i - 1] \o seqs[i]
        BY <2>3, <3>3
      <4> QED BY <4>2, <4>3, ConcatProperties
    <3> QED BY <3>2, <3>3
  <2> QED BY <1>3, <2>1, <2>5
<1> QED BY <1>2, <1>3

(* Two joins of sequences that begin alike *)
LEMMA FlatsAgree ==
  ASSUME NEW a, NEW b, NEW n \in Nat, NEW m \in Nat, n <= m, NEW f, NEW g,
         Flat(f, a, n), Flat(g, b, m), \A i \in 1..n : a[i] = b[i], NEW last \in 1..n
  PROVE  f[last] = g[last]
<1> DEFINE I == {i \in 1..n : f[i] # g[i]}
<1> SUFFICES ASSUME I # {} PROVE FALSE
  OBVIOUS
<1>1. PICK i \in I : \A j \in I : i <= j
  <2>1. I \subseteq Nat
    OBVIOUS
  <2> HIDE DEF I
  <2> QED BY <2>1, FirstOf
<1>2. f[i] = IF i = 1 THEN a[i] ELSE f[i - 1] \o a[i]
  <2>1. \A k \in 1..n : f[k] = IF k = 1 THEN a[k] ELSE f[k - 1] \o a[k]
    BY Zenon DEF Flat
  <2> QED BY <1>1, <2>1
<1>3. g[i] = IF i = 1 THEN b[i] ELSE g[i - 1] \o b[i]
  <2>1. \A k \in 1..m : g[k] = IF k = 1 THEN b[k] ELSE g[k - 1] \o b[k]
    BY Zenon DEF Flat
  <2> QED BY <1>1, <2>1
<1>4. i # 1 => f[i - 1] = g[i - 1]
  BY <1>1
<1> QED BY <1>1, <1>2, <1>3, <1>4

(* \o, as a lemma can have it *)
Longer(s, t) == s \o t

LEMMA FlatGrows ==
  ASSUME NEW a, NEW b, NEW n \in Nat, NEW m \in Nat, n # 0, n < m, m <= n + 1, NEW f, NEW g,
         Flat(f, a, n), Flat(g, b, m), \A i \in 1..n : a[i] = b[i]
  PROVE  g[m] = Longer(f[n], b[m])
<1>1. n <= m /\ n \in 1..n /\ m \in 1..m /\ m # 1 /\ m - 1 = n
  OBVIOUS
<1>2. f[n] = g[n]
  BY <1>1, FlatsAgree
<1>3. \A i \in 1..m : g[i] = IF i = 1 THEN b[i] ELSE g[i - 1] \o b[i]
  BY Zenon DEF Flat
<1>4. g[m] = g[n] \o b[m]
  BY <1>1, <1>3
<1> QED BY <1>2, <1>4, Zenon DEF Longer

(* The first n sequences as one *)
Joined(seqs, n) == FlattenSeq(SubSeq(seqs, 1, n))

LEMMA First ==
  ASSUME NEW S, NEW seqs \in Seq(S), NEW n \in 0..Len(seqs)
  PROVE  /\ SubSeq(seqs, 1, n) \in Seq(S) /\ Len(SubSeq(seqs, 1, n)) = n
         /\ \A i \in 1..n : SubSeq(seqs, 1, n)[i] = seqs[i]
<1>1. Len(seqs) \in Nat /\ 1 \in Int /\ n \in Int /\ \A i \in 1..n : seqs[i] \in S
  OBVIOUS
<1>2. /\ SubSeq(seqs, 1, n) \in Seq(S)
      /\ Len(SubSeq(seqs, 1, n)) = IF 1 <= n THEN n - 1 + 1 ELSE 0
      /\ \A i \in 1..(n - 1 + 1) : SubSeq(seqs, 1, n)[i] = seqs[1 + i - 1]
  BY <1>1, SubSeqProperties
<1> QED BY <1>1, <1>2

LEMMA JoinedType ==
  ASSUME NEW S, NEW seqs \in Seq(Seq(S)), NEW n \in 0..Len(seqs)
  PROVE  Joined(seqs, n) \in Seq(S) /\ Len(Joined(seqs, n)) \in Nat
<1>1. Joined(seqs, n) \in Seq(S)
  BY First, FlattenType DEF Joined
<1> QED BY <1>1, LenProperties

LEMMA JoinedNone ==
  ASSUME NEW S, NEW seqs \in Seq(Seq(S))
  PROVE  Joined(seqs, 0) = <<>>
<1>1. 0 \in 0..Len(seqs)
  OBVIOUS
<1>2. SubSeq(seqs, 1, 0) = <<>>
  BY <1>1, First, EmptySeq
<1> QED BY <1>2 DEF Joined, FlattenSeq

LEMMA JoinedAll ==
  ASSUME NEW S, NEW seqs \in Seq(Seq(S))
  PROVE  Joined(seqs, Len(seqs)) = FlattenSeq(seqs)
BY SubSeqFull DEF Joined

LEMMA JoinedOneMore ==
  ASSUME NEW S, NEW seqs \in Seq(Seq(S)), NEW n \in Nat, n < Len(seqs)
  PROVE  Joined(seqs, n + 1) = Joined(seqs, n) \o seqs[n + 1]
<1>1. PICK m \in Nat : m = n + 1
  OBVIOUS
<1>2. Len(seqs) \in Nat /\ n \in 0..Len(seqs) /\ m \in 0..Len(seqs) /\ m \in 1..Len(seqs) /\ m # 0
  BY <1>1
<1>3. PICK b \in Seq(Seq(S)) : b = SubSeq(seqs, 1, m) /\ m = Len(b) /\ \A i \in 1..m : b[i] = seqs[i]
  <2>1. /\ SubSeq(seqs, 1, m) \in Seq(Seq(S)) /\ Len(SubSeq(seqs, 1, m)) = m
        /\ \A i \in 1..m : SubSeq(seqs, 1, m)[i] = seqs[i]
    BY <1>2, First, Zenon
  <2> QED BY <2>1, Zenon
<1>4. PICK g : Flat(g, b, m) /\ Joined(seqs, m) = g[m]
  BY <1>2, <1>3, FlattenIs DEF Joined
<1>5. \A i \in 1..m : g[i] = IF i = 1 THEN b[i] ELSE g[i - 1] \o b[i]
  BY <1>4, Zenon DEF Flat
<1>6. m \in 1..m /\ b[m] = seqs[m] /\ seqs[m] \in Seq(S)
  BY <1>1, <1>2, <1>3
<1>7. CASE n = 0
  <2>1. Joined(seqs, 0) = <<>>
    BY JoinedNone
  <2>2. m = 1
    BY <1>1, <1>7
  <2>3. Joined(seqs, m) = seqs[m]
    BY <1>4, <1>5, <1>6, <2>2
  <2> QED BY <1>1, <1>6, <1>7, <2>1, <2>3, ConcatEmptySeq
<1>8. CASE n # 0
  <2>1. PICK a \in Seq(Seq(S)) : a = SubSeq(seqs, 1, n) /\ n = Len(a) /\ \A i \in 1..n : a[i] = seqs[i]
    <3>1. /\ SubSeq(seqs, 1, n) \in Seq(Seq(S)) /\ Len(SubSeq(seqs, 1, n)) = n
          /\ \A i \in 1..n : SubSeq(seqs, 1, n)[i] = seqs[i]
      BY <1>2, First, Zenon
    <3> QED BY <3>1, Zenon
  <2>2. PICK f : Flat(f, a, n) /\ Joined(seqs, n) = f[n]
    BY <1>8, <2>1, FlattenIs DEF Joined
  <2>3. g[m] = Longer(f[n], b[m])
    <3>1. n < m /\ m <= n + 1 /\ \A i \in 1..n : i \in 1..m
      BY <1>1, <1>8
    <3>2. \A i \in 1..n : a[i] = b[i]
      BY <1>3, <2>1, <3>1
    <3> QED BY <1>4, <1>8, <2>2, <3>1, <3>2, FlatGrows
  <2> QED BY <1>1, <1>4, <1>6, <2>2, <2>3, Zenon DEF Longer
<1> QED BY <1>7, <1>8

(* What is joined of the first ones is where all are joined, too *)
LEMMA JoinedStays ==
  ASSUME NEW S, NEW seqs \in Seq(Seq(S)), NEW n \in 0..Len(seqs)
  PROVE  /\ Len(Joined(seqs, n)) <= Len(FlattenSeq(seqs))
         /\ \A i \in 1..Len(Joined(seqs, n)) : FlattenSeq(seqs)[i] = Joined(seqs, n)[i]
<1> DEFINE J(k) == Joined(seqs, k)
           all  == FlattenSeq(seqs)
           Stays(k) == Len(J(k)) <= Len(all) /\ \A i \in 1..Len(J(k)) : all[i] = J(k)[i]
           I == {j \in 0..Len(seqs) : ~Stays(Len(seqs) - j)}
<1>1. Len(seqs) \in Nat
  OBVIOUS
<1>2. all = J(Len(seqs)) /\ Len(all) \in Nat
  <2>1. Len(seqs) \in 0..Len(seqs)
    BY <1>1
  <2> QED BY <2>1, JoinedAll, JoinedType
<1>3. I = {}
  <2> SUFFICES ASSUME I # {} PROVE FALSE
    OBVIOUS
  <2>1. PICK j \in I : \A i \in I : j <= i
    <3>1. I \subseteq Nat
      OBVIOUS
    <3> HIDE DEF I
    <3> QED BY <3>1, FirstOf
  <2>2. j \in 0..Len(seqs) /\ ~Stays(Len(seqs) - j)
    BY <2>1
  <2> HIDE DEF J, all
  <2>3. CASE j = 0
    BY <1>1, <1>2, <2>2, <2>3
  <2>4. CASE j # 0
    <3>1. PICK k \in Nat : k = Len(seqs) - j /\ k < Len(seqs) /\ k + 1 = Len(seqs) - (j - 1)
      BY <1>1, <2>2, <2>4
    <3>2. j - 1 \in 0..Len(seqs) /\ j - 1 \notin I
      <4>1. j - 1 \in 0..Len(seqs) /\ ~(j <= j - 1)
        BY <1>1, <2>2, <2>4
      <4> HIDE DEF I
      <4> QED BY <2>1, <4>1
    <3>3. Stays(k + 1)
      BY <3>1, <3>2
    <3>4. J(k + 1) = J(k) \o seqs[k + 1]
      BY <3>1, JoinedOneMore DEF J
    <3>5. J(k) \in Seq(S) /\ seqs[k + 1] \in Seq(S) /\ Len(J(k)) \in Nat /\ Len(seqs[k + 1]) \in Nat
      <4>1. k \in 0..Len(seqs) /\ k + 1 \in 1..Len(seqs)
        BY <1>1, <3>1
      <4>2. seqs[k + 1] \in Seq(S)
        BY <4>1
      <4> QED BY <4>1, <4>2, JoinedType, LenProperties DEF J
    <3>6. PICK f \in Seq(S), s \in Seq(S) :
            f = J(k) /\ J(k + 1) = f \o s /\ Len(f) \in Nat /\ Len(s) \in Nat
      BY <3>4, <3>5
    <3>7. Len(f \o s) = Len(f) + Len(s) /\ \A i \in 1..Len(f) : (f \o s)[i] = f[i]
      <4>1. /\ Len(f \o s) = Len(f) + Len(s)
            /\ \A i \in 1..(Len(f) + Len(s)) :
                 (f \o s)[i] = IF i <= Len(f) THEN f[i] ELSE s[i - Len(f)]
        BY ConcatProperties
      <4>2. \A i \in 1..Len(f) : i \in 1..(Len(f) + Len(s)) /\ i <= Len(f)
        BY <3>6
      <4> QED BY <4>1, <4>2
    <3>8. Stays(k)
      <4>1. Len(f \o s) <= Len(all) /\ \A i \in 1..Len(f \o s) : all[i] = (f \o s)[i]
        BY <3>3, <3>6
      <4>2. Len(f) <= Len(all) /\ \A i \in 1..Len(f) : i \in 1..Len(f \o s)
        <5>1. PICK x \in Nat, y \in Nat, z \in Nat : x = Len(f) /\ y = Len(s) /\ z = Len(all)
          BY <1>2, <3>6
        <5>2. Len(f \o s) = x + y /\ x + y <= z
          BY <3>7, <4>1, <5>1
        <5> QED BY <5>1, <5>2
      <4>3. \A i \in 1..Len(f) : all[i] = f[i]
        BY <3>7, <4>1, <4>2
      <4> QED BY <3>6, <4>2, <4>3
    <3> QED BY <2>2, <3>1, <3>8
  <2> QED BY <2>3, <2>4
<1>4. Len(seqs) - n \in 0..Len(seqs) /\ Len(seqs) - (Len(seqs) - n) = n
  BY <1>1
<1> HIDE DEF J, all
<1>5. Stays(n)
  <2>1. Len(seqs) - n \notin I
    BY <1>3
  <2> HIDE DEF Stays
  <2>2. Stays(Len(seqs) - (Len(seqs) - n))
    BY <1>4, <2>1
  <2> QED BY <1>4, <2>2
<1> QED BY <1>5 DEF J, all

(* Where the next one of the sequences is *)
LEMMA JoinedNext ==
  ASSUME NEW S, NEW seqs \in Seq(Seq(S)), NEW n \in Nat, n < Len(seqs)
  PROVE  /\ Len(Joined(seqs, n)) \in Nat /\ Len(seqs[n + 1]) \in Nat
         /\ Len(Joined(seqs, n + 1)) = Len(Joined(seqs, n)) + Len(seqs[n + 1])
         /\ Len(Joined(seqs, n)) + Len(seqs[n + 1]) <= Len(FlattenSeq(seqs))
         /\ \A i \in 1..Len(seqs[n + 1]) :
              FlattenSeq(seqs)[Len(Joined(seqs, n)) + i] = seqs[n + 1][i]
<1>1. PICK s \in Seq(S) : s = seqs[n + 1]
  <2>1. n + 1 \in 1..Len(seqs)
    OBVIOUS
  <2> QED BY <2>1
<1>2. PICK f \in Seq(S) : f = Joined(seqs, n)
  <2>1. n \in 0..Len(seqs)
    OBVIOUS
  <2> QED BY <2>1, JoinedType
<1>3. Joined(seqs, n + 1) = f \o s
  BY <1>1, <1>2, JoinedOneMore
<1>4. /\ Len(f \o s) <= Len(FlattenSeq(seqs))
      /\ \A i \in 1..Len(f \o s) : FlattenSeq(seqs)[i] = (f \o s)[i]
  <2>1. n + 1 \in 0..Len(seqs)
    OBVIOUS
  <2> QED BY <1>3, <2>1, JoinedStays
<1>5. /\ Len(f) \in Nat /\ Len(s) \in Nat /\ Len(f \o s) = Len(f) + Len(s)
      /\ \A i \in 1..Len(f) + Len(s) : (f \o s)[i] = IF i <= Len(f) THEN f[i] ELSE s[i - Len(f)]
  BY ConcatProperties, LenProperties
<1>6. ASSUME NEW i \in 1..Len(s)
      PROVE  FlattenSeq(seqs)[Len(f) + i] = s[i]
  <2>1. Len(f) + i \in 1..Len(f) + Len(s) /\ ~(Len(f) + i <= Len(f)) /\ (Len(f) + i) - Len(f) = i
    BY <1>5
  <2> QED BY <1>4, <1>5, <2>1
<1> QED BY <1>1, <1>2, <1>3, <1>4, <1>5, <1>6

-----------------------------------------------------------------------------
(* Names of options                                                        *)

(* The options with an argument *)
Valued == {"p", "2", "3", "4", "g", "c"}

(* The pieces that getopt knows *)
Known == Valued \union {Dash, "=", "ort", "eneral", "onfig", "h", "elp", "v", "ersion"}

LEMMA Options ==
  /\ DOMAIN LongOptions = 1..8
  /\ LongOptions[1].val = "p" /\ LongOptions[1].name = <<"p", "ort">>
  /\ LongOptions[2].val = "2" /\ LongOptions[2].name = <<"p", "ort", "2">>
  /\ LongOptions[3].val = "3" /\ LongOptions[3].name = <<"p", "ort", "3">>
  /\ LongOptions[4].val = "4" /\ LongOptions[4].name = <<"p", "ort", "4">>
  /\ LongOptions[5].val = "g" /\ LongOptions[5].name = <<"g", "eneral">>
  /\ LongOptions[6].val = "c" /\ LongOptions[6].name = <<"c", "onfig">>
  /\ LongOptions[7].val = "h" /\ LongOptions[7].name = <<"h", "elp">>
  /\ LongOptions[8].val = "V" /\ LongOptions[8].name = <<"v", "ersion">>
BY DEF LongOptions

LEMMA Names ==
  ASSUME NEW i \in 1..8
  PROVE  LET name == LongOptions[i].name
         IN  /\ name \in Seq(Known) /\ Len(name) \in Nat \ {0}
             /\ \A j \in 1..Len(name) : name[j] # "="
<1>1. CASE i \in 2..4
  <2>1. PICK c \in {"2", "3", "4"} : LongOptions[i].name = <<"p", "ort", c>>
    BY <1>1, Options
  <2>2. "p" \in Known /\ "ort" \in Known /\ c \in Known
    BY DEF Known, Valued
  <2>3. <<"p", "ort", c>> \in Seq(Known) /\ Len(<<"p", "ort", c>>) = 3
    BY <2>2
  <2>4. \A j \in 1..3 : <<"p", "ort", c>>[j] # "="
    OBVIOUS
  <2> QED BY <2>1, <2>3, <2>4
<1>2. CASE i \notin 2..4
  <2>1. PICK a \in {"p", "g", "c", "h", "v"}, b \in {"ort", "eneral", "onfig", "elp", "ersion"} :
          LongOptions[i].name = <<a, b>>
    BY <1>2, Options
  <2>2. a \in Known /\ b \in Known
    BY DEF Known, Valued
  <2>3. <<a, b>> \in Seq(Known) /\ Len(<<a, b>>) = 2
    BY <2>2
  <2>4. \A j \in 1..2 : <<a, b>>[j] # "="
    OBVIOUS
  <2> QED BY <2>1, <2>3, <2>4
<1> QED BY <1>1, <1>2

LEMMA NamesDiffer ==
  ASSUME NEW i \in 1..8, NEW j \in 1..8, LongOptions[i].name = LongOptions[j].name
  PROVE  i = j
<1> DEFINE name(k) == LongOptions[k].name
<1>1. /\ Len(name(1)) = 2 /\ Len(name(2)) = 3 /\ Len(name(3)) = 3 /\ Len(name(4)) = 3
      /\ Len(name(5)) = 2 /\ Len(name(6)) = 2 /\ Len(name(7)) = 2 /\ Len(name(8)) = 2
  BY Options
<1>2. /\ name(1)[1] = "p" /\ name(5)[1] = "g" /\ name(6)[1] = "c"
      /\ name(7)[1] = "h" /\ name(8)[1] = "v"
      /\ name(2)[3] = "2" /\ name(3)[3] = "3" /\ name(4)[3] = "4"
  BY Options
<1>3. name(i) = name(j)
  OBVIOUS
<1> HIDE DEF name
<1> QED BY <1>1, <1>2, <1>3

(* An option of usage() has a name that getopt_long takes for this option *)
LEMMA NameOf ==
  ASSUME NEW val \in Valued
  PROVE  /\ Name(val) \in Seq(Known) /\ Len(Name(val)) \in Nat \ {0}
         /\ \A j \in 1..Len(Name(val)) : Name(val)[j] # "="
         /\ Match(Name(val)) # {}
         /\ \A i \in Match(Name(val)) : LongOptions[i].val = val
<1>1. PICK i \in 1..8 : LongOptions[i].val = val /\ \A j \in 1..8 : LongOptions[j].val = val => j = i
  BY Options DEF Valued
<1>2. Name(val) = LongOptions[i].name
  BY <1>1, Options DEF Name
<1>3. PICK name : name = Name(val)
  OBVIOUS
<1>4. name \in Seq(Known) /\ Len(name) \in Nat \ {0} /\ \A j \in 1..Len(name) : name[j] # "="
  BY <1>2, <1>3, Names
<1> DEFINE starts == {k \in DOMAIN LongOptions : IsPrefix(name, LongOptions[k].name)}
           equal  == {k \in starts : LongOptions[k].name = name}
<1>5. i \in equal
  <2>1. IsPrefix(name, name)
    BY <1>4 DEF IsPrefix
  <2> QED BY <1>2, <1>3, <2>1, Options
<1>6. \A k \in equal : k = i
  BY <1>2, <1>3, NamesDiffer, Options
<1>7. Match(name) = equal
  BY <1>5 DEF Match
<1> QED BY <1>1, <1>3, <1>4, <1>5, <1>6, <1>7

LEMMA WrittenForms ==
  ASSUME NEW item
  PROVE  /\ item.form = "short" => Written(item) = << <<Dash, item.val>>, item.arg >>
         /\ item.form = "attached" => Written(item) = << <<Dash, item.val>> \o item.arg >>
         /\ item.form = "long" => Written(item) = << <<Dash, Dash>> \o Name(item.val), item.arg >>
         /\ item.form = "equals" =>
              Written(item) = << <<Dash, Dash>> \o Name(item.val) \o <<"=">> \o item.arg >>
BY Zenon DEF Written

LEMMA WrittenType ==
  ASSUME NEW item, IsItem(item), NEW S, Known \subseteq S, Range(item.arg) \subseteq S
  PROVE  Written(item) \in Seq(Seq(S))
<1>1. item.val \in Valued /\ item.form \in {"short", "attached", "long", "equals"}
  BY DEF IsItem, Valued
<1>2. item.arg \in Seq(S)
  <2>1. item.arg \in Seq(Range(item.arg))
    BY DEF IsItem
  <2> QED BY <2>1, SeqMonotonic
<1>3. item.val \in S /\ Dash \in S /\ "=" \in S
  BY <1>1 DEF Known
<1>4. Name(item.val) \in Seq(S)
  <2>1. Name(item.val) \in Seq(Known)
    BY <1>1, NameOf
  <2> QED BY <2>1, SeqMonotonic
<1>5. PICK n \in Seq(S), arg \in Seq(S), val \in S : n = Name(item.val) /\ arg = item.arg /\ val = item.val
  BY <1>2, <1>3, <1>4
<1>6. <<Dash, val>> \in Seq(S) /\ <<Dash, Dash>> \in Seq(S) /\ <<"=">> \in Seq(S)
  BY <1>3
<1>7. /\ <<Dash, val>> \o arg \in Seq(S) /\ <<Dash, Dash>> \o n \in Seq(S)
      /\ <<Dash, Dash>> \o n \o <<"=">> \o arg \in Seq(S)
  <2>1. \A x \in Seq(S), y \in Seq(S) : x \o y \in Seq(S)
    BY ConcatProperties
  <2> QED BY <1>6, <2>1
<1>8. \A x \in Seq(S) : <<x>> \in Seq(Seq(S))
  OBVIOUS
<1>9. \A x \in Seq(S), y \in Seq(S) : <<x, y>> \in Seq(Seq(S))
  OBVIOUS
<1>10. Written(item) \in {<< <<Dash, val>>, arg >>, << <<Dash, val>> \o arg >>,
                          << <<Dash, Dash>> \o n, arg >>, << <<Dash, Dash>> \o n \o <<"=">> \o arg >>}
  BY <1>1, <1>5, WrittenForms
<1> QED BY <1>6, <1>7, <1>8, <1>9, <1>10

(* The arguments of every option, and what they are made of *)
Parts == [i \in DOMAIN usage |-> Written(usage[i])]
Piece == Known \union UNION {Range(usage[i].arg) : i \in DOMAIN usage}

LEMMA UsageType ==
  ASSUME usage \in Usages
  PROVE  /\ Len(usage) \in Nat /\ DOMAIN usage = 1..Len(usage)
         /\ \A i \in DOMAIN usage : IsItem(usage[i])
         /\ Parts \in Seq(Seq(Seq(Piece))) /\ Len(Parts) = Len(usage)
         /\ \A i \in DOMAIN usage : Parts[i] = Written(usage[i])
<1>1. usage \in Seq(Range(usage)) /\ \A i \in DOMAIN usage : IsItem(usage[i])
  BY CommandLineAssumption DEF CommandLineAssumption
<1>2. Len(usage) \in Nat /\ DOMAIN usage = 1..Len(usage)
  BY <1>1
<1>3. Parts \in [1..Len(usage) -> Seq(Seq(Piece))]
  <2>1. ASSUME NEW i \in DOMAIN usage PROVE Written(usage[i]) \in Seq(Seq(Piece))
    <3>1. Known \subseteq Piece /\ Range(usage[i].arg) \subseteq Piece
      BY DEF Piece
    <3> QED BY <1>1, <3>1, WrittenType
  <2> QED BY <1>2, <2>1 DEF Parts
<1>4. Parts \in Seq(Seq(Seq(Piece))) /\ Len(Parts) = Len(usage)
  BY <1>2, <1>3, SeqDef
<1> QED BY <1>1, <1>2, <1>4 DEF Parts

(* Every command line is a sequence of arguments *)
LEMMA ArgvType ==
  ASSUME Init
  PROVE  Len(argv) \in Nat
<1>1. CASE argv \in Lines
  <2>1. argv \in Seq(Range(argv))
    BY <1>1, CommandLineAssumption DEF CommandLineAssumption
  <2> QED BY <2>1
<1>2. CASE usage \in Usages /\ argv = FlattenSeq(Parts)
  <2>1. FlattenSeq(Parts) \in Seq(Seq(Piece))
    BY <1>2, UsageType, FlattenType
  <2> QED BY <1>2, <2>1
<1> QED BY <1>1, <1>2 DEF Init, Parts

-----------------------------------------------------------------------------
(* Arguments that are taken apart                                          *)

(* <<x, y>> and SubSeq, as a lemma can have them *)
Pair(x, y) == <<x, y>>
Part(s, first, last) == SubSeq(s, first, last)

LEMMA PieceType ==
  ASSUME NEW S, NEW x \in S
  PROVE  <<x>> \in Seq(S)
OBVIOUS

LEMMA OnlyOne ==
  ASSUME NEW x
  PROVE  <<x>>[1] = x /\ Len(<<x>>) = 1
OBVIOUS

LEMMA PairType ==
  ASSUME NEW S, NEW x \in S, NEW y \in S
  PROVE  Pair(x, y) \in Seq(S)
<1>1. <<x, y>> \in Seq(S)
  OBVIOUS
<1> QED BY <1>1, Zenon DEF Pair

LEMMA LongerType ==
  ASSUME NEW S, NEW s \in Seq(S), NEW t \in Seq(S)
  PROVE  Longer(s, t) \in Seq(S)
<1>1. s \o t \in Seq(S)
  BY ConcatProperties
<1> QED BY <1>1, Zenon DEF Longer

LEMMA LongerTwice ==
  ASSUME NEW S, NEW s \in Seq(S), NEW t \in Seq(S), NEW u \in Seq(S)
  PROVE  Longer(Longer(s, t), u) = Longer(s, Longer(t, u))
<1>1. (s \o t) \o u = s \o (t \o u)
  BY ConcatAssociative
<1> QED BY <1>1, Zenon DEF Longer

(* What they are like *)
IsJoin(S, s, t, u) ==
  /\ u \in Seq(S) /\ Len(u) = Len(s) + Len(t)
  /\ \A i \in 1..Len(s) : u[i] = s[i]
  /\ \A i \in 1..Len(t) : u[Len(s) + i] = t[i]

IsPart(S, s, first, last, u) ==
  /\ u \in Seq(S) /\ Len(u) = last + 1 - first
  /\ \A i \in 1..(last + 1 - first) : u[i] = s[first + i - 1]

LEMMA BothParts ==
  ASSUME NEW S, NEW s \in Seq(S), NEW t \in Seq(S)
  PROVE  IsJoin(S, s, t, Longer(s, t))
<1>1. PICK n \in Nat, m \in Nat : n = Len(s) /\ m = Len(t)
  BY LenProperties
<1>2. /\ s \o t \in Seq(S) /\ Len(s \o t) = n + m
      /\ \A i \in 1..(n + m) : (s \o t)[i] = IF i <= n THEN s[i] ELSE t[i - n]
  <2>1. /\ s \o t \in Seq(S) /\ Len(s \o t) = Len(s) + Len(t)
        /\ \A i \in 1..(Len(s) + Len(t)) : (s \o t)[i] = IF i <= Len(s) THEN s[i] ELSE t[i - Len(s)]
    BY ConcatProperties
  <2> QED BY <1>1, <2>1, Zenon
<1>3. \A i \in 1..n : i \in 1..(n + m) /\ i <= n
  OBVIOUS
<1>4. \A i \in 1..m : n + i \in 1..(n + m) /\ ~(n + i <= n) /\ (n + i) - n = i
  OBVIOUS
<1>5. \A i \in 1..n : (s \o t)[i] = s[i]
  BY <1>2, <1>3, Zenon
<1>6. \A i \in 1..m : (s \o t)[n + i] = t[i]
  BY <1>2, <1>4, Zenon
<1> QED BY <1>1, <1>2, <1>5, <1>6, Zenon DEF Longer, IsJoin

LEMMA MiddlePart ==
  ASSUME NEW S, NEW s \in Seq(S), NEW first \in Nat \ {0}, NEW last \in Nat,
         first <= last + 1, last <= Len(s)
  PROVE  IsPart(S, s, first, last, Part(s, first, last))
<1>1. /\ first \in Int /\ last \in Int /\ last - first + 1 = last + 1 - first
      /\ (~(first <= last) => last + 1 - first = 0)
  OBVIOUS
<1>2. \A i \in first..last : s[i] \in S
  OBVIOUS
<1>3. PICK u : u = SubSeq(s, first, last)
  OBVIOUS
<1>4. /\ u \in Seq(S) /\ Len(u) = IF first <= last THEN last - first + 1 ELSE 0
      /\ \A i \in 1..(last - first + 1) : u[i] = s[first + i - 1]
  BY <1>1, <1>2, <1>3, SubSeqProperties
<1>5. /\ u \in Seq(S) /\ Len(u) = last + 1 - first
      /\ \A i \in 1..(last + 1 - first) : u[i] = s[first + i - 1]
  BY <1>1, <1>4
<1> QED BY <1>3, <1>5, Zenon DEF Part, IsPart

(* Two pieces, and what is behind them *)
LEMMA BehindTwo ==
  ASSUME NEW S, NEW x \in S, NEW y \in S, NEW rest \in Seq(S), NEW n \in Nat, Len(rest) = n,
         NEW a, a = Longer(Pair(x, y), rest)
  PROVE  /\ a \in Seq(S) /\ Len(a) = n + 2 /\ a[1] = x /\ a[2] = y
         /\ \A i \in 1..n : a[i + 2] = rest[i]
<1>1. PICK p \in Seq(S) : p = Pair(x, y) /\ Len(p) = 2 /\ p[1] = x /\ p[2] = y
  <2>1. Len(<<x, y>>) = 2 /\ <<x, y>>[1] = x /\ <<x, y>>[2] = y
    OBVIOUS
  <2> QED BY <2>1, PairType, Zenon DEF Pair
<1>2. a = Longer(p, rest)
  BY <1>1, Zenon
<1>3. IsJoin(S, p, rest, a)
  BY <1>2, BothParts
<1>4. a \in Seq(S) /\ Len(a) = n + 2 /\ a[1] = x /\ a[2] = y
  BY <1>1, <1>3 DEF IsJoin
<1>5. \A i \in 1..n : a[2 + i] = rest[i] /\ 2 + i = i + 2
  BY <1>1, <1>3 DEF IsJoin
<1> QED BY <1>4, <1>5

(* A letter, and the rest of its group *)
IsGroup(a, dash, val, rest) ==
  /\ Len(a) \in Nat /\ Len(a) > 1 /\ a[1] = dash /\ a[2] = val
  /\ Head(Tail(a)) = val /\ Tail(Tail(a)) = rest

LEMMA LetterTaken ==
  ASSUME NEW S, NEW dash \in S, NEW val \in S, NEW rest \in Seq(S), NEW a,
         a = Longer(Pair(dash, val), rest)
  PROVE  IsGroup(a, dash, val, rest)
<1>1. PICK n \in Nat : n = Len(rest)
  BY LenProperties
<1>2. /\ a \in Seq(S) /\ Len(a) = n + 2 /\ a[1] = dash /\ a[2] = val
      /\ \A i \in 1..n : a[i + 2] = rest[i]
  BY <1>1, BehindTwo
<1>3. a # <<>>
  BY <1>2
<1>4. PICK t \in Seq(S) : t = Tail(a) /\ Len(t) = n + 1 /\ \A i \in 1..(n + 1) : t[i] = a[i + 1]
  <2>1. /\ Tail(a) \in Seq(S) /\ Len(Tail(a)) = Len(a) - 1
        /\ \A i \in 1..Len(Tail(a)) : Tail(a)[i] = a[i + 1]
    BY <1>2, <1>3, HeadTailProperties
  <2>2. Len(a) - 1 = n + 1
    BY <1>2
  <2> QED BY <2>1, <2>2
<1>5. t # <<>> /\ Head(t) = val
  <2>1. 1 \in 1..(n + 1) /\ 1 + 1 = 2 /\ n + 1 # 0
    OBVIOUS
  <2>2. t[1] = a[2]
    <3>1. t[1] = a[1 + 1]
      BY <1>4, <2>1, Zenon
    <3> QED BY <2>1, <3>1, Zenon
  <2>3. t # <<>>
    <3>1. Len(t) # 0
      BY <1>4, <2>1, Zenon
    <3> QED BY <3>1, EmptySeq
  <2>4. Head(t) = t[1]
    BY <2>3, HeadTailProperties
  <2> QED BY <1>2, <2>2, <2>3, <2>4
<1>6. PICK u \in Seq(S) : u = Tail(t) /\ Len(u) = n /\ \A i \in 1..n : u[i] = t[i + 1]
  <2>1. /\ Tail(t) \in Seq(S) /\ Len(Tail(t)) = Len(t) - 1
        /\ \A i \in 1..Len(Tail(t)) : Tail(t)[i] = t[i + 1]
    BY <1>5, HeadTailProperties
  <2>2. Len(t) - 1 = n
    BY <1>4
  <2> QED BY <2>1, <2>2
<1>7. \A i \in 1..n : u[i] = rest[i]
  <2> TAKE i \in 1..n
  <2>1. i + 1 \in 1..(n + 1) /\ (i + 1) + 1 = i + 2
    OBVIOUS
  <2>2. u[i] = t[i + 1] /\ t[i + 1] = a[i + 2]
    BY <1>4, <1>6, <2>1
  <2> QED BY <1>2, <2>2
<1>8. u = rest
  BY <1>1, <1>6, <1>7, SeqEqual
<1>9. Len(a) \in Nat /\ Len(a) > 1
  BY <1>2
<1> QED BY <1>2, <1>4, <1>5, <1>6, <1>8, <1>9, Zenon DEF IsGroup

(* A name behind two dashes *)
LEMMA NameTaken ==
  ASSUME NEW S, NEW dash \in S, NEW body \in Seq(S), body # <<>>, NEW a,
         a = Longer(Pair(dash, dash), body)
  PROVE  /\ Len(a) \in Nat /\ Len(a) > 2 /\ a[1] = dash /\ a[2] = dash
         /\ Part(a, 3, Len(a)) = body
<1>1. PICK n \in Nat : n = Len(body) /\ n # 0
  BY EmptySeq
<1>2. /\ a \in Seq(S) /\ Len(a) = n + 2 /\ a[1] = dash /\ a[2] = dash
      /\ \A i \in 1..n : a[i + 2] = body[i]
  BY <1>1, BehindTwo
<1>3. PICK last : last = Len(a) /\ last = 2 + n
  BY <1>2
<1>4. /\ Part(a, 3, last) \in Seq(S) /\ Len(Part(a, 3, last)) = n
      /\ \A i \in 1..n : Part(a, 3, last)[i] = a[2 + i]
  <2>1. 3 \in Nat \ {0} /\ last \in Nat /\ 3 <= last + 1 /\ last <= Len(a) /\ last + 1 - 3 = n
        /\ \A i \in 1..n : 3 + i - 1 = 2 + i
    BY <1>3
  <2>2. IsPart(S, a, 3, last, Part(a, 3, last))
    BY <1>2, <2>1, MiddlePart
  <2> QED BY <2>1, <2>2 DEF IsPart
<1>5. \A i \in 1..n : Part(a, 3, last)[i] = body[i]
  BY <1>2, <1>4
<1>6. Part(a, 3, last) = body
  BY <1>1, <1>4, <1>5, SeqEqual
<1>7. Len(a) \in Nat /\ Len(a) > 2
  BY <1>1, <1>2
<1> QED BY <1>2, <1>3, <1>6, <1>7

(* Where the '=' is *)
Sign(body) == SelectInSeq(body, LAMBDA c : c = "=")

(* What is before and behind the first '=' *)
IsAssignment(body, name, arg) ==
  /\ body # <<>> /\ Sign(body) # 0
  /\ Part(body, 1, Sign(body) - 1) = name
  /\ Part(body, Sign(body) + 1, Len(body)) = arg

LEMMA EqualSign ==
  ASSUME NEW S, NEW name \in Seq(S), \A i \in 1..Len(name) : name[i] # "=",
         NEW arg \in Seq(S), "=" \in S, NEW sign, sign = <<"=">>,
         NEW body, body = Longer(Longer(name, sign), arg)
  PROVE  IsAssignment(body, name, arg)
<1>1. PICK n \in Nat, m \in Nat : n = Len(name) /\ m = Len(arg)
  BY LenProperties
<1>2. sign \in Seq(S) /\ Len(sign) = 1 /\ sign[1] = "="
  OBVIOUS
<1>3. PICK head \in Seq(S) : /\ head = Longer(name, sign) /\ Len(head) = n + 1 /\ head[n + 1] = "="
                             /\ \A i \in 1..n : head[i] = name[i]
  <2>1. PICK head : head = Longer(name, sign)
    OBVIOUS
  <2>2. IsJoin(S, name, sign, head)
    BY <1>2, <2>1, BothParts
  <2>3. /\ head \in Seq(S) /\ Len(head) = n + 1 /\ head[n + 1] = "="
        /\ \A i \in 1..n : head[i] = name[i]
    BY <1>1, <1>2, <2>2 DEF IsJoin
  <2> QED BY <2>1, <2>3
<1>4. /\ body \in Seq(S) /\ Len(body) = (n + 1) + m
      /\ \A i \in 1..(n + 1) : body[i] = head[i]
      /\ \A i \in 1..m : body[(n + 1) + i] = arg[i]
  <2>1. body = Longer(head, arg)
    BY <1>3
  <2>2. IsJoin(S, head, arg, body)
    BY <2>1, BothParts
  <2> QED BY <1>1, <1>3, <2>2 DEF IsJoin
<1>5. n + 1 \in 1..Len(body) /\ body[n + 1] = "="
  <2>1. n + 1 \in 1..(n + 1) /\ n + 1 \in 1..Len(body)
    BY <1>4
  <2> QED BY <1>3, <1>4, <2>1
<1>6. \A i \in 1..n : body[i] = name[i] /\ body[i] # "="
  <2>1. \A i \in 1..n : i \in 1..(n + 1)
    OBVIOUS
  <2> QED BY <1>1, <1>3, <1>4, <2>1
<1>7. Sign(body) = n + 1
  <2> DEFINE I == {i \in 1..Len(body) : body[i] = "="}
  <2>1. n + 1 \in I
    BY <1>5
  <2>2. \A i \in I : n + 1 <= i /\ i \in Nat
    BY <1>6
  <2>3. Sign(body) = IF I # {} THEN Min(I) ELSE 0
    BY DEF Sign, SelectInSeq
  <2> HIDE DEF I
  <2>4. Min(I) = n + 1
    <3>1. \A x \in I : (\A y \in I : x <= y) => x = n + 1
      BY <2>1, <2>2
    <3> QED BY <2>1, <2>2, <3>1 DEF Min
  <2> QED BY <2>1, <2>3, <2>4
<1>8. Part(body, 1, n) = name
  <2>1. 1 \in Nat \ {0} /\ 1 <= n + 1 /\ n <= Len(body) /\ n + 1 - 1 = n
        /\ \A i \in 1..n : 1 + i - 1 = i
    BY <1>4
  <2>2. IsPart(S, body, 1, n, Part(body, 1, n))
    BY <1>4, <2>1, MiddlePart
  <2>3. PICK u \in Seq(S) : u = Part(body, 1, n) /\ Len(u) = n /\ \A i \in 1..n : u[i] = name[i]
    BY <1>6, <2>1, <2>2 DEF IsPart
  <2> QED BY <1>1, <2>3, SeqEqual
<1>9. PICK last : last = Len(body) /\ last = (n + 1) + m
  BY <1>4
<1>10. Part(body, (n + 1) + 1, last) = arg
  <2>1. PICK first \in Nat \ {0} : first = (n + 1) + 1
    OBVIOUS
  <2>2. last \in Nat /\ first <= last + 1 /\ last <= Len(body) /\ last + 1 - first = m
        /\ \A i \in 1..m : first + i - 1 = (n + 1) + i
    BY <1>9, <2>1
  <2>3. IsPart(S, body, first, last, Part(body, first, last))
    BY <1>4, <2>2, MiddlePart
  <2>4. PICK u \in Seq(S) : /\ u = Part(body, first, last) /\ Len(u) = m
                            /\ \A i \in 1..m : u[i] = body[(n + 1) + i]
    <3>1. PICK u : u = Part(body, first, last)
      OBVIOUS
    <3>2. u \in Seq(S) /\ Len(u) = m /\ \A i \in 1..m : u[i] = body[first + i - 1]
      BY <2>2, <2>3, <3>1 DEF IsPart
    <3>3. \A i \in 1..m : u[i] = body[(n + 1) + i]
      BY <2>2, <3>2
    <3> QED BY <3>1, <3>2, <3>3, Zenon
  <2>5. u = arg
    <3>1. \A i \in 1..m : u[i] = arg[i]
      BY <1>4, <2>4
    <3> QED BY <1>1, <2>4, <3>1, SeqEqual
  <2> QED BY <2>1, <2>4, <2>5
<1>11. (n + 1) - 1 = n /\ n + 1 \in Nat \ {0} /\ body # <<>>
  BY <1>4
<1> QED BY <1>4, <1>7, <1>8, <1>9, <1>10, <1>11 DEF IsAssignment

LEMMA NoEqualSign ==
  ASSUME NEW name, \A i \in 1..Len(name) : name[i] # "="
  PROVE  Sign(name) = 0
<1>1. {i \in 1..Len(name) : name[i] = "="} = {}
  OBVIOUS
<1> QED BY <1>1 DEF Sign, SelectInSeq

-----------------------------------------------------------------------------
(* What is done with the options of usage()                                *)

LEMMA ItemType ==
  ASSUME usage \in Usages, NEW i \in DOMAIN usage
  PROVE  /\ usage[i].val \in Valued /\ usage[i].val \in Piece
         /\ usage[i].form \in {"short", "attached", "long", "equals"}
         /\ usage[i].arg \in Seq(Piece) /\ usage[i].arg # Null
         /\ usage[i].form \in {"short", "attached"} => usage[i].val \in WithArgument
         /\ usage[i].form = "attached" => usage[i].arg # <<>>
         /\ Dash \in Piece /\ "=" \in Piece /\ Name(usage[i].val) \in Seq(Piece)
<1>1. IsItem(usage[i])
  BY UsageType
<1>2. usage[i].val \in Valued
  BY <1>1 DEF IsItem, Valued
<1>3. Known \subseteq Piece /\ Range(usage[i].arg) \subseteq Piece
  BY DEF Piece
<1>4. usage[i].val \in Piece /\ Dash \in Piece /\ "=" \in Piece
  BY <1>2, <1>3 DEF Known
<1>5. usage[i].arg \in Seq(Piece)
  <2>1. usage[i].arg \in Seq(Range(usage[i].arg))
    BY <1>1 DEF IsItem
  <2> QED BY <1>3, <2>1, SeqMonotonic
<1>6. Name(usage[i].val) \in Seq(Piece)
  <2>1. Name(usage[i].val) \in Seq(Known)
    BY <1>2, NameOf
  <2> QED BY <1>3, <2>1, SeqMonotonic
<1> QED BY <1>1, <1>2, <1>4, <1>5, <1>6, Zenon DEF IsItem

(* A letter with its argument, or before it *)
LEMMA LetterItem ==
  ASSUME usage \in Usages, NEW i \in DOMAIN usage, usage[i].form \in {"short", "attached"},
         NEW a, a = Written(usage[i])[1]
  PROVE  /\ Len(a) \in Nat /\ Len(a) > 1 /\ a[1] = Dash /\ a[2] = usage[i].val
         /\ Head(Tail(a)) = usage[i].val
         /\ Tail(Tail(a)) = IF usage[i].form = "short" THEN <<>> ELSE usage[i].arg
<1>1. PICK val \in Piece, arg \in Seq(Piece), dash \in Piece :
        val = usage[i].val /\ arg = usage[i].arg /\ dash = Dash
  BY ItemType
<1>2. PICK rest \in Seq(Piece) : rest = IF usage[i].form = "short" THEN <<>> ELSE arg
  BY EmptySeq
<1>3. a = Longer(Pair(dash, val), rest)
  <2>1. CASE usage[i].form = "short"
    <3>1. PICK p \in Seq(Piece) : p = Pair(dash, val)
      BY PairType
    <3>2. Written(usage[i]) = << <<dash, val>>, arg >>
      BY <1>1, <2>1, WrittenForms, Zenon
    <3>3. a = p
      <4>1. a = <<dash, val>>
        BY <3>2
      <4> QED BY <3>1, <4>1, Zenon DEF Pair
    <3>4. p \o rest = p
      BY <1>2, <2>1, ConcatEmptySeq
    <3> QED BY <3>1, <3>3, <3>4, Zenon DEF Longer
  <2>2. CASE usage[i].form = "attached"
    <3>1. Written(usage[i]) = << <<dash, val>> \o arg >>
      BY <1>1, <2>2, WrittenForms, Zenon
    <3>2. a = <<dash, val>> \o arg
      BY <3>1
    <3>3. rest = arg
      BY <1>2, <2>2
    <3> QED BY <3>2, <3>3, Zenon DEF Longer, Pair
  <2> QED BY <2>1, <2>2
<1>4. IsGroup(a, dash, val, rest)
  BY <1>3, LetterTaken
<1> QED BY <1>1, <1>2, <1>4, Zenon DEF IsGroup

(* A long option, and one with its argument behind '=' *)
LEMMA LongItem ==
  ASSUME usage \in Usages, NEW i \in DOMAIN usage, usage[i].form \in {"long", "equals"},
         NEW a, a = Written(usage[i])[1], NEW body, body = Part(a, 3, Len(a))
  PROVE  /\ Len(a) \in Nat /\ Len(a) > 2 /\ a[1] = Dash /\ a[2] = Dash
         /\ usage[i].form = "long" => Sign(body) = 0 /\ body = Name(usage[i].val)
         /\ usage[i].form = "equals" => /\ Sign(body) # 0
                                        /\ Part(body, 1, Sign(body) - 1) = Name(usage[i].val)
                                        /\ Part(body, Sign(body) + 1, Len(body)) = usage[i].arg
<1>1. PICK name \in Seq(Piece), arg \in Seq(Piece), dash \in Piece :
        name = Name(usage[i].val) /\ arg = usage[i].arg /\ dash = Dash
  BY ItemType
<1>2. /\ Len(name) \in Nat \ {0} /\ \A j \in 1..Len(name) : name[j] # "="
      /\ "=" \in Piece /\ name # <<>>
  BY <1>1, ItemType, NameOf
<1>3. CASE usage[i].form = "long"
  <2>1. Written(usage[i]) = << <<dash, dash>> \o name, arg >>
    BY <1>1, <1>3, WrittenForms, Zenon
  <2>2. a = <<dash, dash>> \o name
    BY <2>1
  <2>3. a = Longer(Pair(dash, dash), name)
    BY <2>2, Zenon DEF Longer, Pair
  <2>4. Len(a) \in Nat /\ Len(a) > 2 /\ a[1] = dash /\ a[2] = dash /\ Part(a, 3, Len(a)) = name
    BY <1>2, <2>3, NameTaken
  <2>5. Sign(name) = 0
    BY <1>2, NoEqualSign
  <2> QED BY <1>1, <1>3, <2>4, <2>5
<1>4. CASE usage[i].form = "equals"
  <2>1. PICK sign \in Seq(Piece) : sign = <<"=">>
    BY <1>2, PieceType
  <2>2. PICK p \in Seq(Piece) : p = Pair(dash, dash)
    BY PairType
  <2>3. PICK head \in Seq(Piece) : head = Longer(name, sign)
    BY LongerType
  <2>4. PICK rest \in Seq(Piece) : rest = Longer(head, arg)
    BY LongerType
  <2>5. Longer(Longer(Longer(p, name), sign), arg) = Longer(p, rest)
    <3>1. Longer(Longer(p, name), sign) = Longer(p, head)
      BY <2>3, LongerTwice
    <3>2. Longer(Longer(p, head), arg) = Longer(p, rest)
      BY <2>4, LongerTwice
    <3> QED BY <3>1, <3>2, Zenon
  <2>6. Written(usage[i]) = << <<dash, dash>> \o name \o <<"=">> \o arg >>
    BY <1>1, <1>4, WrittenForms, Zenon
  <2>7. a = <<dash, dash>> \o name \o <<"=">> \o arg
    BY <2>6, OnlyOne, Zenon
  <2>8. a = Longer(Pair(dash, dash), rest)
    BY <2>1, <2>2, <2>5, <2>7, Zenon DEF Longer, Pair
  <2>9. IsAssignment(rest, name, arg)
    BY <1>2, <2>1, <2>3, <2>4, EqualSign
  <2>10. rest # <<>>
    BY <2>9 DEF IsAssignment
  <2>11. Len(a) \in Nat /\ Len(a) > 2 /\ a[1] = dash /\ a[2] = dash /\ Part(a, 3, Len(a)) = rest
    BY <2>8, <2>10, NameTaken
  <2>12. body = rest /\ usage[i].form # "long"
    BY <1>4, <2>11
  <2> QED BY <1>1, <2>9, <2>11, <2>12, Zenon DEF IsAssignment
<1> QED BY <1>3, <1>4

-----------------------------------------------------------------------------
(* How far main has come with the options of usage()                       *)

(* The arguments of the options that add up, and the last of those of one  *)
(* option among the first n                                                *)
Args(vals) == [i \in DOMAIN usage |-> IF usage[i].val \in vals THEN <<usage[i].arg>> ELSE <<>>]

Chosen(val, n) == LET at == {i \in 1..n : usage[i].val = val}
                  IN  IF at = {} THEN <<>> ELSE usage[Max(at)].arg

Ports == {"p", "2", "3", "4"}

(* The first n options are what main has taken *)
Reached(n) ==
  /\ optind  = Len(Joined(Parts, n)) + 1
  /\ ports   = Joined(Args(Ports), n)
  /\ general = Chosen("g", n)
  /\ config  = Chosen("c", n)

Understood ==
  usage # <<>> =>
    /\ usage \in Usages /\ argv = FlattenSeq(Parts)
    /\ outcome = "parsing" => \E n \in 0..Len(usage) : Reached(n)

LEMMA ArgsType ==
  ASSUME usage \in Usages, NEW vals
  PROVE  Args(vals) \in Seq(Seq(Seq(Piece))) /\ Len(Args(vals)) = Len(usage)
<1>1. Len(usage) \in Nat /\ DOMAIN usage = 1..Len(usage)
  BY UsageType
<1>2. ASSUME NEW i \in DOMAIN usage
      PROVE  (IF usage[i].val \in vals THEN <<usage[i].arg>> ELSE <<>>) \in Seq(Seq(Piece))
  <2>1. PICK arg \in Seq(Piece) : arg = usage[i].arg
    BY ItemType
  <2>2. <<arg>> \in Seq(Seq(Piece)) /\ <<>> \in Seq(Seq(Piece))
    BY PieceType, EmptySeq
  <2> QED BY <2>1, <2>2
<1>3. Args(vals) \in [1..Len(usage) -> Seq(Seq(Piece))]
  BY <1>1, <1>2 DEF Args
<1> QED BY <1>1, <1>3, SeqDef

(* The next option adds its argument to those of its kind, or none *)
LEMMA ArgsGrow ==
  ASSUME usage \in Usages, NEW n \in Nat, n < Len(usage), NEW vals
  PROVE  Joined(Args(vals), n + 1) = IF usage[n + 1].val \in vals
                                     THEN Append(Joined(Args(vals), n), usage[n + 1].arg)
                                     ELSE Joined(Args(vals), n)
<1>1. PICK seqs \in Seq(Seq(Seq(Piece))) : seqs = Args(vals) /\ Len(seqs) = Len(usage)
  BY ArgsType
<1>2. n + 1 \in DOMAIN usage /\ n \in 0..Len(seqs) /\ n < Len(seqs)
  BY <1>1, UsageType
<1>3. PICK arg \in Seq(Piece) : arg = usage[n + 1].arg
  BY <1>2, ItemType
<1>4. PICK f \in Seq(Seq(Piece)) : f = Joined(seqs, n)
  BY <1>2, JoinedType
<1>5. Joined(seqs, n + 1) = f \o seqs[n + 1]
  BY <1>2, <1>4, JoinedOneMore
<1>6. seqs[n + 1] = IF usage[n + 1].val \in vals THEN <<arg>> ELSE <<>>
  BY <1>1, <1>2, <1>3, Zenon DEF Args
<1>7. f \o <<arg>> = Append(f, arg) /\ f \o <<>> = f
  BY AppendIsConcat, ConcatEmptySeq
<1> QED BY <1>1, <1>3, <1>4, <1>5, <1>6, <1>7, Zenon

LEMMA ChosenGrows ==
  ASSUME NEW n \in Nat, NEW val
  PROVE  Chosen(val, n + 1) = IF usage[n + 1].val = val THEN usage[n + 1].arg ELSE Chosen(val, n)
<1> DEFINE At(k) == {i \in 1..k : usage[i].val = val}
<1>1. Chosen(val, n) = IF At(n) = {} THEN <<>> ELSE usage[Max(At(n))].arg
  BY DEF Chosen
<1>2. Chosen(val, n + 1) = IF At(n + 1) = {} THEN <<>> ELSE usage[Max(At(n + 1))].arg
  BY DEF Chosen
<1>3. CASE usage[n + 1].val = val
  <2>1. n + 1 \in At(n + 1) /\ At(n + 1) \subseteq 1..(n + 1)
    BY <1>3
  <2> HIDE DEF At
  <2>2. Max(At(n + 1)) = n + 1
    <3>1. PICK A : A = At(n + 1)
      OBVIOUS
    <3>2. \A x \in A : (\A y \in A : x >= y) => x = n + 1
      BY <2>1, <3>1
    <3>3. \A y \in A : n + 1 >= y
      BY <2>1, <3>1
    <3> QED BY <2>1, <3>1, <3>2, <3>3 DEF Max
  <2> QED BY <1>2, <1>3, <2>1, <2>2
<1>4. CASE usage[n + 1].val # val
  <2>1. At(n + 1) = At(n)
    BY <1>4
  <2> QED BY <1>1, <1>2, <1>4, <2>1
<1> QED BY <1>3, <1>4

(* Where the next option is in argv *)
IsHere(item, k) ==
  /\ k \in Nat /\ optind \in Nat /\ Len(argv) \in Nat /\ optind + k <= Len(argv) + 1
  /\ k >= 1 => argv[optind] = Written(item)[1]
  /\ k >= 2 => argv[optind + 1] = Written(item)[2]

LEMMA Here ==
  ASSUME usage \in Usages, argv = FlattenSeq(Parts), NEW n \in Nat, n < Len(usage), Reached(n),
         NEW item, item = usage[n + 1], NEW k, k = Len(Written(item))
  PROVE  IsHere(item, k) /\ Len(Joined(Parts, n + 1)) + 1 = optind + k
<1>1. PICK seqs \in Seq(Seq(Seq(Piece))) : seqs = Parts /\ Len(seqs) = Len(usage)
  BY UsageType
<1>2. n + 1 \in DOMAIN usage /\ seqs[n + 1] = Written(item) /\ n < Len(seqs)
  <2>1. n + 1 \in DOMAIN usage
    BY UsageType
  <2> QED BY <1>1, <2>1, UsageType
<1>3. PICK m \in Nat : m = Len(Joined(seqs, n)) /\ optind = m + 1
  <2>1. n \in 0..Len(seqs)
    BY <1>2
  <2>2. Len(Joined(seqs, n)) \in Nat
    BY <2>1, JoinedType
  <2> QED BY <1>1, <2>2 DEF Reached
<1>4. /\ k \in Nat /\ Len(Joined(seqs, n + 1)) = m + k /\ m + k <= Len(argv)
      /\ \A i \in 1..k : argv[m + i] = Written(item)[i]
  <2>1. /\ Len(seqs[n + 1]) \in Nat
        /\ Len(Joined(seqs, n + 1)) = Len(Joined(seqs, n)) + Len(seqs[n + 1])
        /\ Len(Joined(seqs, n)) + Len(seqs[n + 1]) <= Len(FlattenSeq(seqs))
        /\ \A i \in 1..Len(seqs[n + 1]) : FlattenSeq(seqs)[Len(Joined(seqs, n)) + i] = seqs[n + 1][i]
    BY <1>2, JoinedNext, Zenon
  <2>2. Len(seqs[n + 1]) = k /\ FlattenSeq(seqs) = argv
    BY <1>1, <1>2, Zenon
  <2> QED BY <1>2, <1>3, <2>1, <2>2, Zenon
<1>5. Len(argv) \in Nat
  <2>1. argv \in Seq(Seq(Piece))
    BY <1>1, FlattenType
  <2> QED BY <2>1, LenProperties
<1>6. k >= 1 => argv[optind] = Written(item)[1]
  <2> SUFFICES ASSUME k >= 1 PROVE argv[optind] = Written(item)[1]
    OBVIOUS
  <2>1. 1 \in 1..k
    BY <1>4
  <2> QED BY <1>3, <1>4, <2>1
<1>7. k >= 2 => argv[optind + 1] = Written(item)[2]
  <2> SUFFICES ASSUME k >= 2 PROVE argv[optind + 1] = Written(item)[2]
    OBVIOUS
  <2>1. PICK j : j = m + 2 /\ j = optind + 1
    BY <1>3
  <2>2. 2 \in 1..k
    BY <1>4
  <2>3. argv[j] = Written(item)[2]
    BY <1>4, <2>1, <2>2, Zenon
  <2> QED BY <2>1, <2>3, Zenon
<1>8. optind \in Nat /\ optind + k <= Len(argv) + 1 /\ (m + k) + 1 = optind + k
  BY <1>3, <1>4, <1>5
<1>9. Len(Joined(Parts, n + 1)) + 1 = optind + k
  <2>1. Len(Joined(Parts, n + 1)) = m + k
    BY <1>1, <1>4, Zenon
  <2> QED BY <1>8, <2>1, Zenon
<1>10. IsHere(item, k)
  BY <1>4, <1>5, <1>6, <1>7, <1>8, Zenon DEF IsHere
<1> QED BY <1>9, <1>10

(* What main does with an option that it understands *)
Understands(item) ==
  /\ Switch(item.val, item.arg) /\ UNCHANGED place
  /\ optind' = optind + Len(Written(item))

(* getopt takes a letter with its argument as it was meant *)
LEMMA LetterUnderstands ==
  ASSUME usage \in Usages, argv = FlattenSeq(Parts), NEW n \in Nat, n < Len(usage), Reached(n),
         place = <<>>, usage[n + 1].form \in {"short", "attached"}
  PROVE  /\ IsOption /\ ~IsLong
         /\ Letter => Understands(usage[n + 1])
<1>1. n + 1 \in DOMAIN usage
  BY UsageType
<1>2. PICK item : item = usage[n + 1]
  OBVIOUS
<1>3. /\ item.val \in Valued /\ item.val \in WithArgument
      /\ item.arg # Null /\ (item.form = "attached" => item.arg # <<>>)
  BY <1>1, <1>2, ItemType
<1>4. PICK k \in {1, 2} : /\ k = Len(Written(item)) /\ (k = 2 <=> item.form = "short")
                          /\ (k = 2 => Written(item)[2] = item.arg)
  <2>1. CASE item.form = "short"
    <3>1. Written(item) = << <<Dash, item.val>>, item.arg >>
      BY <2>1, WrittenForms, Zenon
    <3>2. Len(Written(item)) = 2 /\ Written(item)[2] = item.arg
      BY <3>1
    <3> QED BY <2>1, <3>2
  <2>2. CASE item.form = "attached"
    <3>1. Written(item) = << <<Dash, item.val>> \o item.arg >>
      BY <2>2, WrittenForms, Zenon
    <3>2. Len(Written(item)) = 1
      BY <3>1
    <3> QED BY <2>2, <3>2
  <2> QED BY <1>2, <2>1, <2>2
<1>5. PICK a : a = Written(item)[1]
  OBVIOUS
<1>6. /\ Len(a) \in Nat /\ Len(a) > 1 /\ a[1] = Dash /\ a[2] = item.val
      /\ Head(Tail(a)) = item.val
      /\ Tail(Tail(a)) = IF item.form = "short" THEN <<>> ELSE item.arg
  BY <1>1, <1>2, <1>5, LetterItem, Zenon
<1>7. /\ optind \in Nat /\ Len(argv) \in Nat /\ optind + k <= Len(argv) + 1
      /\ argv[optind] = a /\ (k = 2 => argv[optind + 1] = item.arg)
  <2>1. IsHere(item, k)
    BY <1>2, <1>4, Here, Zenon
  <2>2. k >= 1 /\ (k = 2 => k >= 2)
    BY <1>4
  <2> QED BY <1>4, <1>5, <2>1, <2>2, Zenon DEF IsHere
<1>8. IsOption /\ ~IsLong
  <2>1. item.val # Dash
    BY <1>3 DEF Valued, Dash
  <2>2. optind <= Len(argv)
    BY <1>4, <1>7
  <2> QED BY <1>6, <1>7, <2>1, <2>2 DEF IsOption, IsLong
<1>9. ASSUME Letter
      PROVE  Understands(item)
  <2> DEFINE group == IF place = <<>> THEN Tail(argv[optind]) ELSE place
             c == Head(group)
             rest == Tail(group)
             optarg == IF rest # <<>> THEN rest ELSE Argument(optind + 1)
  <2>1. \/ /\ c \in WithArgument /\ place' = <<>>
           /\ optind' = optind + (IF optarg = Null THEN 1 ELSE Skipped(rest))
           /\ Switch(IF optarg = Null THEN ":" ELSE c, optarg)
        \/ c \notin WithArgument
    BY <1>9, Zenon DEF Letter
  <2>2. group = Tail(a)
    BY <1>7, Zenon
  <2>3. c = item.val /\ rest = IF item.form = "short" THEN <<>> ELSE item.arg
    BY <1>6, <2>2, Zenon
  <2>4. optarg = item.arg
    <3>1. CASE item.form = "short"
      <4>1. rest = <<>>
        BY <2>3, <3>1
      <4>2. optind + 1 <= Len(argv) /\ argv[optind + 1] = item.arg
        <5>1. k = 2
          BY <1>4, <3>1, Zenon
        <5> HIDE DEF group, c, rest, optarg
        <5>2. optind + 1 <= Len(argv)
          BY <1>7, <5>1
        <5> QED BY <1>7, <5>1, <5>2, Zenon
      <4>3. Argument(optind + 1) = item.arg
        BY <4>2, Zenon DEF Argument
      <4> QED BY <4>1, <4>3, Zenon
    <3>2. CASE item.form = "attached"
      BY <1>3, <2>3, <3>2, Zenon
    <3> QED BY <1>2, <3>1, <3>2
  <2>5. Skipped(rest) = k
    BY <1>2, <1>3, <1>4, <2>3 DEF Skipped
  <2> HIDE DEF group, c, rest, optarg
  <2>6. /\ place' = <<>> /\ optind' = optind + k /\ Switch(item.val, item.arg)
    BY <1>3, <2>1, <2>3, <2>4, <2>5, Zenon
  <2> QED BY <1>4, <2>6 DEF Understands
<1> QED BY <1>2, <1>8, <1>9

(* So does getopt_long with a long option *)
LEMMA LongUnderstands ==
  ASSUME usage \in Usages, argv = FlattenSeq(Parts), NEW n \in Nat, n < Len(usage), Reached(n),
         place = <<>>, usage[n + 1].form \in {"long", "equals"}
  PROVE  /\ IsLong /\ Len(argv[optind]) # 2
         /\ Long => Understands(usage[n + 1])
<1>1. n + 1 \in DOMAIN usage
  BY UsageType
<1>2. PICK item : item = usage[n + 1]
  OBVIOUS
<1>3. item.val \in Valued /\ item.arg # Null
  BY <1>1, <1>2, ItemType
<1>4. PICK k \in {1, 2} : /\ k = Len(Written(item)) /\ (k = 2 <=> item.form = "long")
                          /\ (k = 2 => Written(item)[2] = item.arg)
  <2>1. CASE item.form = "long"
    <3>1. Written(item) = << <<Dash, Dash>> \o Name(item.val), item.arg >>
      BY <2>1, WrittenForms, Zenon
    <3>2. Len(Written(item)) = 2 /\ Written(item)[2] = item.arg
      BY <3>1
    <3> QED BY <2>1, <3>2
  <2>2. CASE item.form = "equals"
    <3>1. Written(item) = << <<Dash, Dash>> \o Name(item.val) \o <<"=">> \o item.arg >>
      BY <2>2, WrittenForms, Zenon
    <3>2. Len(Written(item)) = 1
      BY <3>1
    <3> QED BY <2>2, <3>2
  <2> QED BY <1>2, <2>1, <2>2
<1>5. PICK a : a = Written(item)[1]
  OBVIOUS
<1>6. PICK text : text = Part(a, 3, Len(a))
  OBVIOUS
<1>7. /\ Len(a) \in Nat /\ Len(a) > 2 /\ a[1] = Dash /\ a[2] = Dash
      /\ item.form = "long" => Sign(text) = 0 /\ text = Name(item.val)
      /\ item.form = "equals" => /\ Sign(text) # 0
                                 /\ Part(text, 1, Sign(text) - 1) = Name(item.val)
                                 /\ Part(text, Sign(text) + 1, Len(text)) = item.arg
  BY <1>1, <1>2, <1>5, <1>6, LongItem, Zenon
<1>8. /\ optind \in Nat /\ Len(argv) \in Nat /\ optind + k <= Len(argv) + 1
      /\ argv[optind] = a /\ (k = 2 => argv[optind + 1] = item.arg)
  <2>1. IsHere(item, k)
    BY <1>2, <1>4, Here, Zenon
  <2>2. k >= 1 /\ (k = 2 => k >= 2)
    BY <1>4
  <2> QED BY <1>4, <1>5, <2>1, <2>2, Zenon DEF IsHere
<1>9. IsLong /\ Len(argv[optind]) # 2
  <2>1. optind <= Len(argv)
    BY <1>4, <1>8
  <2>2. Len(a) > 1 /\ Len(a) # 2
    <3>1. PICK l \in Nat : l = Len(a) /\ l > 2
      BY <1>7, Zenon
    <3>2. \A i \in Nat : i > 2 => i > 1 /\ i # 2
      OBVIOUS
    <3> QED BY <3>1, <3>2, Zenon
  <2> QED BY <1>7, <1>8, <2>1, <2>2, Zenon DEF IsOption, IsLong
<1>10. ASSUME Long
       PROVE  Understands(item)
  <2> DEFINE body == SubSeq(argv[optind], 3, Len(argv[optind]))
             equal == SelectInSeq(body, LAMBDA c : c = "=")
             name == IF equal = 0 THEN body ELSE SubSeq(body, 1, equal - 1)
             optarg == IF equal = 0 THEN Argument(optind + 1) ELSE SubSeq(body, equal + 1, Len(body))
  <2>1. /\ UNCHANGED place
        /\ \/ Match(name) = {}
           \/ \E i \in Match(name) :
                \/ LongOptions[i].val \in Plain
                \/ /\ optind' = optind + (IF equal = 0 THEN 2 ELSE 1)
                   /\ Switch(IF Missing(optarg) THEN ":" ELSE LongOptions[i].val, optarg)
    BY <1>10, Zenon DEF Long
  <2>2. body = text
    BY <1>6, <1>8, Zenon DEF Part
  <2>3. equal = Sign(text)
    BY <2>2, Zenon DEF Sign
  <2>4. name = Name(item.val)
    BY <1>2, <1>7, <2>2, <2>3, Zenon DEF Part
  <2>5. optarg = item.arg
    <3>1. CASE item.form = "long"
      <4>1. equal = 0
        BY <1>7, <2>3, <3>1, Zenon
      <4>2. optind + 1 <= Len(argv) /\ argv[optind + 1] = item.arg
        <5>1. k = 2
          BY <1>4, <3>1, Zenon
        <5> HIDE DEF body, equal, name, optarg
        <5>2. optind + 1 <= Len(argv)
          BY <1>8, <5>1
        <5> QED BY <1>8, <5>1, <5>2, Zenon
      <4>3. Argument(optind + 1) = item.arg
        BY <4>2, Zenon DEF Argument
      <4> QED BY <4>1, <4>3, Zenon
    <3>2. CASE item.form = "equals"
      BY <1>7, <2>2, <2>3, <3>2, Zenon DEF Part
    <3> QED BY <1>2, <3>1, <3>2
  <2>6. (IF equal = 0 THEN 2 ELSE 1) = k
    <3>1. (equal = 0) <=> item.form = "long"
      BY <1>2, <1>7, <2>3, Zenon
    <3> HIDE DEF equal
    <3> QED BY <1>4, <3>1
  <2> HIDE DEF body, equal, name, optarg
  <2>7. /\ Match(name) # {} /\ \A i \in Match(name) : LongOptions[i].val = item.val
        /\ item.val \notin Plain
    BY <1>3, <2>4, NameOf DEF Valued, Plain
  <2>8. UNCHANGED place /\ optind' = optind + k /\ Switch(item.val, item.arg)
    BY <1>3, <2>1, <2>5, <2>6, <2>7, Zenon DEF Missing
  <2> QED BY <1>4, <2>8 DEF Understands
<1> QED BY <1>2, <1>9, <1>10

(* The next option is taken as it was meant *)
LEMMA ComesFurther ==
  ASSUME usage \in Usages, argv = FlattenSeq(Parts), NEW n \in Nat, n < Len(usage), Reached(n),
         Understands(usage[n + 1])
  PROVE  Reached(n + 1)' /\ outcome' = "parsing" /\ UNCHANGED <<argv, usage, place>>
<1>1. n + 1 \in DOMAIN usage
  BY UsageType
<1>2. PICK val \in Valued, arg \in Seq(Piece) : val = usage[n + 1].val /\ arg = usage[n + 1].arg
  BY <1>1, ItemType
<1>3. Switch(val, arg) /\ UNCHANGED place
  BY <1>2, Zenon DEF Understands
<1>4. outcome' = "parsing" /\ UNCHANGED <<argv, usage>>
  BY <1>3 DEF Switch, Valued
<1>5. Parts' = Parts /\ Args(Ports)' = Args(Ports)
  BY <1>4 DEF Parts, Args
<1>6. optind' = Len(Joined(Parts, n + 1)) + 1
  <2>1. PICK k : k = Len(Written(usage[n + 1]))
    OBVIOUS
  <2>2. Len(Joined(Parts, n + 1)) + 1 = optind + k
    BY <2>1, Here
  <2> QED BY <2>1, <2>2, Zenon DEF Understands
<1>7. ports' = Joined(Args(Ports), n + 1)
  <2>1. ports' = IF val \in Ports THEN Append(ports, arg) ELSE ports
    BY <1>3, Zenon DEF Switch, Ports
  <2>2. ports = Joined(Args(Ports), n)
    BY Zenon DEF Reached
  <2> QED BY <1>2, <2>1, <2>2, ArgsGrow, Zenon
<1>8. general' = Chosen("g", n + 1) /\ config' = Chosen("c", n + 1)
  <2>1. /\ general' = IF val = "g" THEN arg ELSE general
        /\ config' = IF val = "c" THEN arg ELSE config
    BY <1>3, Zenon DEF Switch
  <2>2. general = Chosen("g", n) /\ config = Chosen("c", n)
    BY Zenon DEF Reached
  <2> QED BY <1>2, <2>1, <2>2, ChosenGrows, Zenon
<1>9. Chosen("g", n + 1)' = Chosen("g", n + 1) /\ Chosen("c", n + 1)' = Chosen("c", n + 1)
  BY <1>4 DEF Chosen
<1>10. Reached(n + 1)'
  BY <1>5, <1>6, <1>7, <1>8, <1>9, Zenon DEF Reached
<1> QED BY <1>3, <1>4, <1>10

LEMMA NotTheLast ==
  ASSUME usage \in Usages, NEW n \in 0..Len(usage), n # Len(usage)
  PROVE  n \in Nat /\ n < Len(usage) /\ n + 1 \in DOMAIN usage /\ n + 1 \in 0..Len(usage)
<1>1. PICK last \in Nat : last = Len(usage) /\ DOMAIN usage = 1..last
  BY UsageType, Zenon
<1>2. n \in 0..last /\ n # last
  BY <1>1, Zenon
<1>3. n \in Nat /\ n < last /\ n + 1 \in 1..last /\ n + 1 \in 0..last
  BY <1>2
<1> QED BY <1>1, <1>3, Zenon

(* After the last option there is nothing left of argv *)
LEMMA AllTaken ==
  ASSUME usage \in Usages, argv = FlattenSeq(Parts), Reached(Len(usage))
  PROVE  /\ ~IsOption
         /\ ports = FlattenSeq(Args(Ports))
         /\ general = Chosen("g", Len(usage)) /\ config = Chosen("c", Len(usage))
<1>1. PICK seqs \in Seq(Seq(Seq(Piece))) : seqs = Parts /\ Len(seqs) = Len(usage)
  BY UsageType
<1>2. PICK args \in Seq(Seq(Seq(Piece))) : args = Args(Ports) /\ Len(args) = Len(usage)
  BY ArgsType
<1>3. Len(argv) \in Nat
  <2>1. argv \in Seq(Seq(Piece))
    BY <1>1, FlattenType
  <2> QED BY <2>1, LenProperties
<1>4. optind = Len(argv) + 1
  <2>1. Joined(seqs, Len(seqs)) = FlattenSeq(seqs)
    BY JoinedAll
  <2> QED BY <1>1, <2>1, Zenon DEF Reached
<1>5. ~IsOption
  BY <1>3, <1>4 DEF IsOption
<1>6. ports = FlattenSeq(Args(Ports))
  <2>1. Joined(args, Len(args)) = FlattenSeq(args)
    BY JoinedAll
  <2> QED BY <1>2, <2>1, Zenon DEF Reached
<1> QED BY <1>5, <1>6, Zenon DEF Reached

-----------------------------------------------------------------------------
(* The invariant                                                           *)

(* main returns before it would ask for the rest of a group of letters,    *)
(* and keeps what getopt has told it; names of ports are strings           *)
Inside ==
  /\ TypeOK
  /\ Len(argv) \in Nat
  /\ outcome = "parsing" => place = <<>>
  /\ ports \in Seq(Range(ports))
  /\ NoNullArgument

(* Of the options of usage() it has taken the first ones, and each as a    *)
(* whole                                                                   *)
IInv == Inside /\ Understood /\ UsageIsUnderstood

(* main's switch takes no null pointer with the options that it keeps *)
LEMMA SwitchKeeps ==
  ASSUME NEW c, NEW optarg, Switch(c, optarg), ports \in Seq(Range(ports)), NoNullArgument,
         c \in {"p", "2", "3", "4", "g", "c"} => optarg # Null
  PROVE  /\ ports' \in Seq(Range(ports')) /\ NoNullArgument'
         /\ outcome' \in {"parsing", "usage", "version"}
         /\ c \in {"h", "V", ":", "?"} => outcome' # "parsing"
         /\ argv' = argv
<1>1. outcome' \in {"parsing", "usage", "version"} /\ (c \in {"h", "V", ":", "?"} => outcome' # "parsing")
      /\ argv' = argv
  BY DEF Switch
<1>2. ports' \in Seq(Range(ports')) /\ Null \notin Range(ports')
  <2>1. CASE ports' = ports
    BY <2>1 DEF NoNullArgument
  <2>2. CASE ports' = Append(ports, optarg) /\ c \in {"p", "2", "3", "4"}
    <3> DEFINE S == Range(ports) \union {optarg}
    <3>1. Range(ports) \subseteq S /\ optarg \in S /\ Null \notin S
      BY <2>2 DEF NoNullArgument
    <3> HIDE DEF S
    <3>2. ports \in Seq(S)
      BY <3>1, SeqMonotonic
    <3>3. ports' \in Seq(S)
      BY <2>2, <3>1, <3>2, AppendProperties
    <3>4. Range(ports') \subseteq S
      BY <3>3 DEF Range
    <3> QED BY <3>1, <3>3, <3>4, SeqOfRange
  <2> QED BY <2>1, <2>2 DEF Switch
<1>3. Null \notin {general', config'}
  <2>1. (general' = optarg /\ c = "g") \/ general' = general
    BY DEF Switch
  <2>2. (config' = optarg /\ c = "c") \/ config' = config
    BY DEF Switch
  <2> QED BY <2>1, <2>2 DEF NoNullArgument
<1> QED BY <1>1, <1>2, <1>3 DEF NoNullArgument

LEMMA InitInv == Init => IInv
<1> SUFFICES ASSUME Init PROVE IInv
  OBVIOUS
<1>1. Len(argv) \in Nat
  BY ArgvType
<1>2. Null # <<>>
  BY CommandLineAssumption DEF CommandLineAssumption
<1>3. Range(ports) = {} /\ ports \in Seq(Range(ports))
  BY DEF Init, Range
<1>4. Understood
  <2> SUFFICES ASSUME usage # <<>>
               PROVE  /\ usage \in Usages /\ argv = FlattenSeq(Parts)
                      /\ \E n \in 0..Len(usage) : Reached(n)
    BY DEF Understood
  <2>1. usage \in Usages /\ argv = FlattenSeq(Parts)
    BY Zenon DEF Init, Parts
  <2>2. 0 \in 0..Len(usage)
    BY <2>1, UsageType
  <2>3. Joined(Parts, 0) = <<>> /\ Joined(Args(Ports), 0) = <<>>
    <3>1. Parts \in Seq(Seq(Seq(Piece))) /\ Args(Ports) \in Seq(Seq(Seq(Piece)))
      BY <2>1, UsageType, ArgsType
    <3> QED BY <3>1, JoinedNone
  <2>4. \A val : Chosen(val, 0) = <<>>
    BY DEF Chosen
  <2>5. Reached(0)
    BY <2>3, <2>4 DEF Init, Reached
  <2> QED BY <2>1, <2>2, <2>5
<1>5. UsageIsUnderstood
  BY DEF Init, UsageIsUnderstood
<1> QED BY <1>1, <1>2, <1>3, <1>4, <1>5 DEF Init, IInv, Inside, TypeOK, NoNullArgument

(* An option of usage() is taken as it was meant, and main goes on *)
LEMMA OptionTaken ==
  ASSUME IInv, usage # <<>>, Letter \/ Long
  PROVE  (Understood /\ UsageIsUnderstood)'
<1>1. /\ outcome = "parsing" /\ place = <<>> /\ IsOption
      /\ usage \in Usages /\ argv = FlattenSeq(Parts)
  BY DEF Letter, Long, IsLong, IInv, Inside, Understood
<1>2. PICK n \in 0..Len(usage) : Reached(n)
  BY <1>1 DEF IInv, Understood
<1>3. n \in Nat /\ n < Len(usage) /\ n + 1 \in DOMAIN usage /\ n + 1 \in 0..Len(usage)
  <2>1. n # Len(usage)
    BY <1>1, <1>2, AllTaken, Zenon
  <2> QED BY <1>1, <2>1, NotTheLast, Zenon
<1>4. Understands(usage[n + 1])
  <2>1. CASE usage[n + 1].form \in {"short", "attached"}
    <3>1. ~IsLong /\ (Letter => Understands(usage[n + 1]))
      BY <1>1, <1>2, <1>3, <2>1, LetterUnderstands
    <3> QED BY <3>1 DEF Long
  <2>2. CASE usage[n + 1].form \in {"long", "equals"}
    <3>1. IsLong /\ (Long => Understands(usage[n + 1]))
      BY <1>1, <1>2, <1>3, <2>2, LongUnderstands
    <3> QED BY <1>1, <3>1 DEF Letter
  <2> QED BY <1>1, <1>3, <2>1, <2>2, ItemType
<1>5. Reached(n + 1)' /\ outcome' = "parsing" /\ UNCHANGED <<argv, usage>>
  BY <1>1, <1>2, <1>3, <1>4, ComesFurther
<1>6. Parts' = Parts
  BY <1>5 DEF Parts
<1>7. Understood'
  BY <1>1, <1>3, <1>5, <1>6 DEF Understood
<1>8. UsageIsUnderstood'
  BY <1>5 DEF UsageIsUnderstood
<1> QED BY <1>7, <1>8

(* Lines of any other kind say nothing of it *)
LEMMA OtherLines ==
  ASSUME usage = <<>>, usage' = usage
  PROVE  (Understood /\ UsageIsUnderstood)'
BY DEF Understood, UsageIsUnderstood

(* All options of usage() are taken when main goes on *)
LEMMA EndsUnderstood ==
  ASSUME IInv, Ends
  PROVE  (Understood /\ UsageIsUnderstood)'
<1>1. /\ outcome = "parsing" /\ place = <<>>
      /\ ~IsOption \/ (IsLong /\ Len(argv[optind]) = 2)
      /\ outcome' = IF ports # <<>> /\ general # <<>> /\ config # <<>> THEN "run" ELSE "incomplete"
      /\ UNCHANGED <<argv, usage, ports, general, config>>
  BY DEF Ends, IInv, Inside
<1>2. CASE usage = <<>>
  BY <1>1, <1>2, OtherLines
<1>3. CASE usage # <<>>
  <2>1. usage \in Usages /\ argv = FlattenSeq(Parts)
    BY <1>3 DEF IInv, Understood
  <2>2. PICK n \in 0..Len(usage) : Reached(n)
    BY <1>1, <1>3 DEF IInv, Understood
  <2>3. n = Len(usage)
    <3> SUFFICES ASSUME n # Len(usage) PROVE FALSE
      OBVIOUS
    <3>1. n \in Nat /\ n < Len(usage) /\ n + 1 \in DOMAIN usage
      BY <2>1, NotTheLast, Zenon
    <3>2. usage[n + 1].form \in {"short", "attached", "long", "equals"}
      BY <2>1, <3>1, ItemType
    <3>3. CASE usage[n + 1].form \in {"short", "attached"}
      BY <1>1, <2>1, <2>2, <3>1, <3>3, LetterUnderstands
    <3>4. CASE usage[n + 1].form \in {"long", "equals"}
      <4>1. IsLong /\ Len(argv[optind]) # 2
        BY <1>1, <2>1, <2>2, <3>1, <3>4, LongUnderstands
      <4> QED BY <1>1, <4>1 DEF IsLong
    <3> QED BY <3>2, <3>3, <3>4
  <2>4. /\ ports = FlattenSeq(Args(Ports))
        /\ general = Chosen("g", Len(usage)) /\ config = Chosen("c", Len(usage))
    BY <2>1, <2>2, <2>3, AllTaken
  <2>5. outcome' # "parsing"
    BY <1>1
  <2>6. Understood'
    <3>1. Parts' = Parts
      BY <1>1 DEF Parts
    <3> QED BY <1>1, <2>1, <2>5, <3>1 DEF Understood
  <2>7. outcome' = IF <<>> \in {ports, general, config} THEN "incomplete" ELSE "run"
    BY <1>1
  <2>8. DOMAIN usage = 1..Len(usage)
    BY <2>1, UsageType
  <2>9. UsageIsUnderstood'
    BY <1>1, <2>4, <2>7, <2>8, Zenon DEF UsageIsUnderstood, Args, Chosen, Ports
  <2> QED BY <2>6, <2>9
<1> QED BY <1>2, <1>3

LEMMA EndsInv ==
  ASSUME Inside, Ends
  PROVE  Inside'
<1>1. outcome' \in {"run", "incomplete"} /\ UNCHANGED <<argv, usage, optind, place, ports, general, config>>
  BY DEF Ends
<1> QED BY <1>1 DEF Inside, TypeOK, NoNullArgument

LEMMA LetterInv ==
  ASSUME Inside, Letter
  PROVE  Inside'
<1>1. outcome = "parsing" /\ place = <<>> /\ IsOption /\ optind \in Nat /\ optind <= Len(argv)
      /\ Len(argv) \in Nat /\ optind >= 1
  BY DEF Letter, Inside, TypeOK, IsOption
<1> DEFINE group == IF place = <<>> THEN Tail(argv[optind]) ELSE place
           c == Head(group)
           rest == Tail(group)
           optarg == IF rest # <<>> THEN rest ELSE Argument(optind + 1)
<1>2. CASE /\ c \in WithArgument /\ place' = <<>>
           /\ optind' = optind + (IF optarg = Null THEN 1 ELSE Skipped(rest))
           /\ Switch(IF optarg = Null THEN ":" ELSE c, optarg)
  <2>1. optarg # Null /\ rest = <<>> => optind + 1 <= Len(argv)
    BY <1>1 DEF Argument
  <2>2. c \in {"p", "g", "c"}
    BY <1>2 DEF WithArgument
  <2> HIDE DEF optarg, c, rest
  <2> DEFINE d == IF optarg = Null THEN ":" ELSE c
  <2>3. Switch(d, optarg) /\ (d \in {"p", "2", "3", "4", "g", "c"} => optarg # Null)
    BY <1>2
  <2>4. /\ ports' \in Seq(Range(ports')) /\ NoNullArgument' /\ argv' = argv
        /\ outcome' \in {"parsing", "usage", "version"}
    <3> HIDE DEF d
    <3> QED BY <2>3, SwitchKeeps DEF Inside
  <2>5. optind' \in 1..(Len(argv) + 1)
    <3>1. CASE optarg = Null
      BY <1>1, <1>2, <3>1
    <3>2. CASE optarg # Null
      BY <1>1, <1>2, <2>1, <3>2 DEF Skipped
    <3> QED BY <3>1, <3>2
  <2> QED BY <1>1, <1>2, <2>4, <2>5 DEF Inside, TypeOK
<1>3. CASE /\ place' = rest /\ optind' = optind + (IF rest = <<>> THEN 1 ELSE 0)
           /\ Switch(IF c \in Plain THEN c ELSE "?", Null)
  <2> DEFINE d == IF c \in Plain THEN c ELSE "?"
  <2>1. d \in {"h", "V", "?"}
    BY DEF Plain
  <2>2. optind' \in 1..(Len(argv) + 1)
    <3> HIDE DEF rest
    <3> QED BY <1>1, <1>3
  <2>3. Switch(d, Null)
    BY <1>3
  <2> HIDE DEF d
  <2>4. /\ ports' \in Seq(Range(ports')) /\ NoNullArgument' /\ argv' = argv
        /\ outcome' \in {"parsing", "usage", "version"} /\ outcome' # "parsing"
    BY <2>1, <2>3, SwitchKeeps DEF Inside
  <2> QED BY <1>1, <2>2, <2>4 DEF Inside, TypeOK
<1> QED BY <1>2, <1>3 DEF Letter

LEMMA LongInv ==
  ASSUME Inside, Long
  PROVE  Inside'
<1>1. outcome = "parsing" /\ place = <<>> /\ place' = place /\ optind \in Nat /\ optind <= Len(argv)
      /\ Len(argv) \in Nat /\ optind >= 1
  BY DEF Long, Inside, TypeOK, IsLong, IsOption
<1> DEFINE body == SubSeq(argv[optind], 3, Len(argv[optind]))
           equal == SelectInSeq(body, LAMBDA c : c = "=")
           name == IF equal = 0 THEN body ELSE SubSeq(body, 1, equal - 1)
           optarg == IF equal = 0 THEN Argument(optind + 1) ELSE SubSeq(body, equal + 1, Len(body))
<1>2. CASE optind' = optind + 1 /\ Switch("?", Null)
  <2>1. /\ ports' \in Seq(Range(ports')) /\ NoNullArgument' /\ argv' = argv
        /\ outcome' \in {"parsing", "usage", "version"}
    BY <1>2, SwitchKeeps DEF Inside
  <2> QED BY <1>1, <1>2, <2>1 DEF Inside, TypeOK
<1>3. ASSUME NEW i \in Match(name), LongOptions[i].val \in Plain,
             optind' = optind + 1, Switch(LongOptions[i].val, Null)
      PROVE  Inside'
  <2>1. PICK c \in Plain : c = LongOptions[i].val
    BY <1>3
  <2>2. Switch(c, Null) /\ c \notin {"p", "2", "3", "4", "g", "c"}
    BY <1>3, <2>1 DEF Plain
  <2>3. /\ ports' \in Seq(Range(ports')) /\ NoNullArgument' /\ argv' = argv
        /\ outcome' \in {"parsing", "usage", "version"}
    BY <2>2, SwitchKeeps DEF Inside
  <2> QED BY <1>1, <1>3, <2>3 DEF Inside, TypeOK
<1>4. ASSUME NEW i \in Match(name), optind' = optind + (IF equal = 0 THEN 2 ELSE 1),
             Switch(IF Missing(optarg) THEN ":" ELSE LongOptions[i].val, optarg)
      PROVE  Inside'
  <2> DEFINE d == IF Missing(optarg) THEN ":" ELSE LongOptions[i].val
  <2>1. optarg # Null /\ equal = 0 => optind + 1 <= Len(argv)
    BY <1>1 DEF Argument
  <2> HIDE DEF optarg, equal, name
  <2>2. Switch(d, optarg) /\ (d \in {"p", "2", "3", "4", "g", "c"} => optarg # Null)
        /\ (optarg = Null => d \in {"h", "V", ":", "?"})
    BY <1>4 DEF Missing
  <2> HIDE DEF d
  <2>3. /\ ports' \in Seq(Range(ports')) /\ NoNullArgument' /\ argv' = argv
        /\ outcome' \in {"parsing", "usage", "version"}
        /\ (optarg = Null => outcome' # "parsing")
    BY <2>2, SwitchKeeps DEF Inside
  <2>4. optind' \in 1..(Len(argv) + 2) /\ (outcome' = "parsing" => optind' <= Len(argv) + 1)
    BY <1>1, <1>4, <2>1, <2>3
  <2> QED BY <1>1, <2>3, <2>4 DEF Inside, TypeOK
<1> QED BY <1>2, <1>3, <1>4 DEF Long

LEMMA InvHolds == Spec => []IInv
<1>1. IInv /\ [Next]_vars => IInv'
  <2> SUFFICES ASSUME IInv, [Next]_vars PROVE IInv'
    OBVIOUS
  <2>1. CASE UNCHANGED vars
    <3>1. Parts' = Parts /\ Args(Ports)' = Args(Ports)
      BY <2>1 DEF vars, Parts, Args
    <3>2. \A n : Reached(n)' = Reached(n)
      BY <2>1, <3>1, Zenon DEF vars, Reached, Chosen
    <3>3. Understood' /\ UsageIsUnderstood'
      BY <2>1, <3>1, <3>2, Zenon DEF vars, IInv, Understood, UsageIsUnderstood
    <3>4. Inside'
      BY <2>1 DEF vars, IInv, Inside, TypeOK, NoNullArgument
    <3> QED BY <3>3, <3>4 DEF IInv
  <2>2. CASE Ends
    BY <2>2, EndsInv, EndsUnderstood DEF IInv
  <2>3. CASE Letter \/ Long
    <3>1. Inside'
      BY <2>3, LetterInv, LongInv DEF IInv
    <3>2. usage' = usage
      BY <2>3 DEF Letter, Long, Switch
    <3>3. (Understood /\ UsageIsUnderstood)'
      BY <2>3, <3>2, OptionTaken, OtherLines
    <3> QED BY <3>1, <3>3 DEF IInv
  <2> QED BY <2>1, <2>2, <2>3 DEF Next
<1>2. Init => IInv
  BY InitInv
<1> QED BY <1>1, <1>2, PTL DEF Spec

(* getopt never goes past the null pointer at the end of argv: as long as  *)
(* main goes on asking, the next argument is at most that one              *)
THEOREM StaysInArgv == Spec => []TypeOK
<1>1. IInv => TypeOK
  BY DEF IInv, Inside
<1> QED BY <1>1, InvHolds, PTL

(* main makes no string of a null pointer, whatever the command line *)
THEOREM StringsAreNotNull == Spec => []NoNullArgument
<1>1. IInv => NoNullArgument
  BY DEF IInv, Inside
<1> QED BY <1>1, InvHolds, PTL

(* What usage() says is what main does, for every sequence of options,     *)
(* each in one of its forms: when main goes on after the command line, the *)
(* ports, general and config are those that were given                     *)
THEOREM UsageMeansWhatItSays == Spec => []UsageIsUnderstood
<1>1. IInv => UsageIsUnderstood
  BY DEF IInv
<1> QED BY <1>1, InvHolds, PTL

=============================================================================
