------------------------------ MODULE Main_proofs ------------------------------
(***************************************************************************)
(* What Main and Trace guarantee for every number of workers, of rounds    *)
(* and of rows: whole lines, in the same order in both outputs, whole      *)
(* dumps, and profiles that outlive the workers                            *)
(***************************************************************************)
EXTENDS Main, SequenceTheorems, FiniteSetTheorems, TLAPS

USE MainAssumption

Part == {"header", "rest"} \X Thread \X Line

(* The types of the log, and of the rest *)
LogType == /\ TraceTypeOK /\ IsFiniteSet(missed)
           /\ say \in [Thread -> Seq(Line)]
           /\ log \in [Output -> Seq(Part)]

MainType ==
  /\ at \in {"start", "load", "launch", "wait", "unwind", "exit"}
  /\ launched \in 0..Workers
  /\ profiles \in {"none", "there", "gone"}
  /\ worker \in [Worker -> {"off", "connect", "param", "poll", "lock", "handle", "unlock", "over"}]
  /\ rounds \in [Worker -> 0..MaxRounds]
  /\ mutex \in Worker \union {NoThread}

(* Who is inside message has the mutex of the log and a line to write *)
Turns == \A t \in Thread : /\ operations[t] # {} => traceMutex = t /\ say[t] # <<>>
                           /\ begun[t] => operations[t] # {}

(* An output that ends with the first part of a line ends with the one of  *)
(* the thread that is writing there                                        *)
Halves ==
  \A o \in Output :
    /\ (\A t \in Thread : begun[t] => Current(t) # o) => Len(log[o]) % 2 = 0
    /\ \A t \in Thread : begun[t] /\ Current(t) = o =>
         /\ Len(log[o]) % 2 = 1
         /\ log[o][Len(log[o])] = <<"header", t, Head(say[t])>>

LogInv == LogType /\ Turns /\ Halves /\ LinesAreWhole

(* Where main is says which workers there can be, and the profiles *)
Phases ==
  /\ at \in {"start", "load"} => launched = 0
  /\ at \in {"launch", "wait", "unwind"} => profiles = "there"
  /\ \A w \in Worker : w > launched => worker[w] = "off"
  /\ at = "exit" => \A w \in Worker : worker[w] \in {"off", "over"}

IInv == LogInv /\ MainType /\ Phases

LEMMA Types == LogType /\ MainType => TypeOK
  BY DEF LogType, MainType, TypeOK, Part

-----------------------------------------------------------------------------
(* The log *)

LEMMA Parity == ASSUME NEW n \in Nat
                PROVE  /\ n % 2 = 0 => (n + 1) % 2 = 1
                       /\ n % 2 = 1 => (n + 1) % 2 = 0 /\ n # 0
OBVIOUS

LEMMA CurrentIsOutput == \A t \in Thread : Current(t) \in Output
  BY DEF Current, Output

LEMMA HeadType == ASSUME LogType, NEW t \in Thread, say[t] # <<>>
                  PROVE  Head(say[t]) \in Line /\ Tail(say[t]) \in Seq(Line)
  BY DEF LogType

(* A thread that is not inside message starts to log lines *)
LEMMA SaysInv ==
  ASSUME LogInv, NEW t \in Thread, Quiet(t), NEW lines \in Seq(Line), Says(t, lines)
  PROVE  LogInv'
<1>1. operations[t] = {} /\ begun[t] = FALSE
  BY DEF LogInv, LogType, TraceTypeOK, Turns, Quiet
<1>2. say' \in [Thread -> Seq(Line)] /\ \A u \in Thread \ {t} : say'[u] = say[u]
  BY DEF LogInv, LogType, Says
<1>3. LogType'
  BY <1>2 DEF LogInv, LogType, TraceTypeOK, Says
<1>4. Turns'
  BY <1>1, <1>2 DEF LogInv, Turns, Says
<1>5. Halves'
  <2>1. /\ log' = log /\ begun' = begun
        /\ \A u \in Thread : Current(u)' = Current(u)
        /\ \A u \in Thread : begun[u] => Head(say'[u]) = Head(say[u])
    BY <1>1, <1>2 DEF Says, Current
  <2>2. Halves
    BY DEF LogInv
  <2>3. \A o \in Output : (\A u \in Thread : begun'[u] => Current(u)' # o) => Len(log'[o]) % 2 = 0
    BY <2>1, <2>2 DEF Halves
  <2>4. ASSUME NEW o \in Output, NEW u \in Thread, begun'[u], Current(u)' = o
        PROVE  Len(log'[o]) % 2 = 1 /\ log'[o][Len(log'[o])] = <<"header", u, Head(say'[u])>>
    BY <2>1, <2>2, <2>4 DEF Halves
  <2> QED BY <2>3, <2>4 DEF Halves
<1>6. LinesAreWhole'
  BY DEF LogInv, LinesAreWhole, Says
<1> QED BY <1>3, <1>4, <1>5, <1>6 DEF LogInv

LEMMA SilentInv == LogInv /\ UNCHANGED traceVars => LogInv'
<1> SUFFICES ASSUME LogInv, UNCHANGED traceVars PROVE LogInv'
  OBVIOUS
<1>1. LogType'
  BY DEF LogInv, LogType, TraceTypeOK, traceVars
<1>2. Turns' /\ LinesAreWhole'
  BY DEF LogInv, Turns, LinesAreWhole, traceVars
<1>3. Halves'
  BY DEF LogInv, Halves, Current, traceVars
<1> QED BY <1>1, <1>2, <1>3 DEF LogInv

LEMMA EnterInv == ASSUME LogInv, NEW t \in Thread, Enter(t) PROVE LogInv'
<1>1. \A u \in Thread : operations[u] = {} /\ begun[u] = FALSE
  BY DEF LogInv, LogType, TraceTypeOK, Turns, Enter
<1>2. operations' \in [Thread -> SUBSET Output] /\ \A u \in Thread \ {t} : operations'[u] = {}
  BY <1>1 DEF LogInv, LogType, TraceTypeOK, Enter
<1>3. LogType'
  BY <1>2 DEF LogInv, LogType, TraceTypeOK, Enter
<1>4. Turns'
  BY <1>1, <1>2 DEF Turns, Enter
<1>5. Halves'
  BY <1>1 DEF LogInv, Halves, Enter
<1>6. LinesAreWhole'
  BY DEF LogInv, LinesAreWhole, Enter
<1> QED BY <1>3, <1>4, <1>5, <1>6 DEF LogInv

(* What Put does to an output *)
LEMMA PutType ==
  ASSUME LogInv, NEW t \in Thread, say[t] # <<>>, NEW part \in {"header", "rest"}, Put(t, part)
  PROVE  /\ log' \in [Output -> Seq(Part)]
         /\ \A o \in Output \ {Current(t)} : log'[o] = log[o]
         /\ log'[Current(t)] = Append(log[Current(t)], <<part, t, Head(say[t])>>)
         /\ Len(log[Current(t)]) \in Nat
         /\ Len(log'[Current(t)]) = Len(log[Current(t)]) + 1
         /\ \A i \in 1..Len(log[Current(t)]) : log'[Current(t)][i] = log[Current(t)][i]
         /\ log'[Current(t)][Len(log[Current(t)]) + 1] = <<part, t, Head(say[t])>>
<1> DEFINE c == Current(t)
           e == <<part, t, Head(say[t])>>
<1>1. c \in Output /\ e \in Part
  BY CurrentIsOutput, HeadType DEF LogInv, Part
<1>2. log \in [Output -> Seq(Part)] /\ log[c] \in Seq(Part)
  BY <1>1 DEF LogInv, LogType
<1>3. /\ Append(log[c], e) \in Seq(Part)
      /\ Len(Append(log[c], e)) = Len(log[c]) + 1
      /\ \A i \in 1..Len(log[c]) : Append(log[c], e)[i] = log[c][i]
      /\ Append(log[c], e)[Len(log[c]) + 1] = e
      /\ Len(log[c]) \in Nat
  BY <1>1, <1>2, AppendProperties
<1> HIDE DEF e
<1>4. log' = [log EXCEPT ![c] = Append(@, e)]
  BY DEF Put, e
<1>5. /\ log' \in [Output -> Seq(Part)] /\ log'[c] = Append(log[c], e)
      /\ \A o \in Output \ {c} : log'[o] = log[o]
  BY <1>1, <1>2, <1>3, <1>4
<1> QED BY <1>3, <1>5 DEF e

LEMMA LogTypes ==
  ASSUME LogInv
  PROVE  \A o \in Output : log[o] \in Seq(Part) /\ Len(log[o]) \in Nat
<1>1. \A o \in Output : log[o] \in Seq(Part)
  BY DEF LogInv, LogType
<1> QED BY <1>1, LenProperties

LEMMA HeaderInv == ASSUME LogInv, NEW t \in Thread, Header(t) PROVE LogInv'
<1> DEFINE c == Current(t)
<1>1. /\ say[t] # <<>> /\ c \in Output
      /\ \A u \in Thread \ {t} : begun[u] = FALSE
      /\ begun[t] = FALSE
  BY CurrentIsOutput DEF LogInv, LogType, TraceTypeOK, Turns, Header
<1>2. /\ log' \in [Output -> Seq(Part)]
      /\ \A o \in Output \ {c} : log'[o] = log[o]
      /\ Len(log[c]) \in Nat /\ Len(log'[c]) = Len(log[c]) + 1
      /\ \A i \in 1..Len(log[c]) : log'[c][i] = log[c][i]
      /\ log'[c][Len(log[c]) + 1] = <<"header", t, Head(say[t])>>
  BY <1>1, PutType DEF Header
<1>3. /\ begun' \in [Thread -> BOOLEAN] /\ begun'[t] = TRUE
      /\ \A u \in Thread \ {t} : begun'[u] = FALSE
  BY <1>1 DEF LogInv, LogType, TraceTypeOK, Header
<1>4. \A o \in Output : Len(log[o]) % 2 = 0
  BY <1>1 DEF LogInv, Halves
<1>5. LogType'
  BY <1>2, <1>3 DEF LogInv, LogType, TraceTypeOK, Header
<1>6. Turns'
  BY <1>3 DEF LogInv, Turns, Header
<1>7. Current(t)' = c
  BY DEF Header, Current
<1>8. Halves'
  <2>1. ASSUME NEW o \in Output, \A u \in Thread : begun'[u] => Current(u)' # o
        PROVE  Len(log'[o]) % 2 = 0
    BY <1>2, <1>3, <1>4, <1>7, <2>1
  <2>2. ASSUME NEW o \in Output, NEW u \in Thread, begun'[u], Current(u)' = o
        PROVE  Len(log'[o]) % 2 = 1 /\ log'[o][Len(log'[o])] = <<"header", u, Head(say'[u])>>
    <3>1. u = t /\ o = c
      BY <1>3, <1>7, <2>2
    <3>2. Len(log'[c]) % 2 = 1
      BY <1>1, <1>2, <1>4, Parity
    <3> QED BY <1>2, <3>1, <3>2 DEF Header
  <2> QED BY <2>1, <2>2 DEF Halves
<1>9. LinesAreWhole'
  <2> SUFFICES ASSUME NEW o \in Output, NEW i \in 1..Len(log'[o])
               PROVE  /\ log'[o][i][1] = (IF i % 2 = 1 THEN "header" ELSE "rest")
                      /\ i % 2 = 0 => /\ log'[o][i][2] = log'[o][i - 1][2]
                                      /\ log'[o][i][3] = log'[o][i - 1][3]
    BY DEF LinesAreWhole
  <2>1. CASE o # c
    BY <1>2, <2>1 DEF LogInv, LinesAreWhole
  <2>2. CASE o = c /\ i <= Len(log[c])
    <3>1. i \in 1..Len(log[c])
      BY <1>2, <2>2
    <3>2. /\ log[c][i][1] = (IF i % 2 = 1 THEN "header" ELSE "rest")
          /\ i % 2 = 0 => /\ log[c][i][2] = log[c][i - 1][2]
                          /\ log[c][i][3] = log[c][i - 1][3]
      BY <1>1, <3>1 DEF LogInv, LinesAreWhole
    <3>3. i % 2 = 0 => i - 1 \in 1..Len(log[c])
      BY <1>2, <3>1
    <3> QED BY <1>2, <2>2, <3>1, <3>2, <3>3
  <2>3. CASE o = c /\ i = Len(log[c]) + 1
    <3>1. i % 2 = 1
      BY <1>1, <1>2, <1>4, <2>3, Parity
    <3>2. log'[o][i] = <<"header", t, Head(say[t])>>
      BY <1>2, <2>3
    <3>3. log'[o][i][1] = "header"
      BY <3>2
    <3> QED BY <3>1, <3>3
  <2> QED BY <1>2, <2>1, <2>2, <2>3
<1> QED BY <1>5, <1>6, <1>8, <1>9 DEF LogInv

LEMMA FileMissesInv == ASSUME LogInv, NEW t \in Thread, FileMisses(t) PROVE LogInv'
<1>1. say[t] # <<>> /\ traceMutex = t /\ \A u \in Thread : begun[u] = FALSE
  BY DEF LogInv, LogType, TraceTypeOK, Turns, FileMisses
<1>2. IsFiniteSet(missed') /\ Cardinality(missed') <= MaxMisses
  <2>1. /\ IsFiniteSet(missed')
        /\ Cardinality(missed') \in {Cardinality(missed), Cardinality(missed) + 1}
    BY FS_AddElement DEF LogInv, LogType, FileMisses
  <2>2. Cardinality(missed) \in Nat /\ Cardinality(missed) < MaxMisses
    BY FS_CardinalityType DEF LogInv, LogType, FileMisses
  <2> QED BY <2>1, <2>2
<1>3. operations' \in [Thread -> SUBSET Output]
  BY DEF LogInv, LogType, TraceTypeOK, FileMisses
<1>4. LogType'
  BY <1>2, <1>3 DEF LogInv, LogType, TraceTypeOK, FileMisses
<1>5. Turns'
  BY <1>1 DEF LogInv, LogType, TraceTypeOK, Turns, FileMisses
<1>6. Halves'
  BY <1>1 DEF LogInv, Halves, FileMisses
<1>7. LinesAreWhole'
  BY DEF LogInv, LinesAreWhole, FileMisses
<1> QED BY <1>4, <1>5, <1>6, <1>7 DEF LogInv

LEMMA RestInv == ASSUME LogInv, NEW t \in Thread, Rest(t) PROVE LogInv'
<1> DEFINE c == Current(t)
           n == Len(log[c])
<1>1. /\ say[t] # <<>> /\ c \in Output /\ traceMutex = t /\ operations[t] # {}
      /\ \A u \in Thread \ {t} : begun[u] = FALSE /\ operations[u] = {}
  BY CurrentIsOutput DEF LogInv, LogType, TraceTypeOK, Turns, Rest
<1>2. /\ log' \in [Output -> Seq(Part)]
      /\ \A o \in Output \ {c} : log'[o] = log[o]
      /\ n \in Nat /\ Len(log'[c]) = n + 1
      /\ \A i \in 1..n : log'[c][i] = log[c][i]
      /\ log'[c][n + 1] = <<"rest", t, Head(say[t])>>
  BY <1>1, PutType DEF Rest
<1>3. begun' \in [Thread -> BOOLEAN] /\ \A u \in Thread : begun'[u] = FALSE
  BY <1>1 DEF LogInv, LogType, TraceTypeOK, Rest
<1>4. /\ n % 2 = 1 /\ log[c][n] = <<"header", t, Head(say[t])>>
      /\ \A o \in Output \ {c} : Len(log[o]) % 2 = 0
  <2>1. \A u \in Thread : begun[u] => Current(u) = c
    BY <1>1
  <2> QED BY <1>1, <2>1 DEF LogInv, Halves, Rest
<1>5. /\ operations' \in [Thread -> SUBSET Output]
      /\ \A u \in Thread \ {t} : operations'[u] = {}
  BY <1>1 DEF LogInv, LogType, TraceTypeOK, Rest
<1>6. /\ say' \in [Thread -> Seq(Line)] /\ traceMutex' \in Thread \union {NoThread}
      /\ operations'[t] # {} => traceMutex' = t /\ say'[t] # <<>>
  <2>1. say \in [Thread -> Seq(Line)] /\ Tail(say[t]) \in Seq(Line)
    BY <1>1, HeadType DEF LogInv, LogType
  <2>2. CASE operations'[t] = {}
    BY <2>1, <2>2 DEF Rest
  <2>3. CASE operations'[t] # {}
    BY <1>1, <2>1, <2>3 DEF Rest
  <2> QED BY <2>2, <2>3
<1>7. LogType'
  <2>1. missed' = missed /\ IsFiniteSet(missed) /\ Cardinality(missed) <= MaxMisses
    BY DEF LogInv, LogType, TraceTypeOK, Rest
  <2>2. TraceTypeOK'
    BY <1>3, <1>5, <1>6, <2>1 DEF TraceTypeOK
  <2> QED BY <1>2, <1>6, <2>1, <2>2 DEF LogType
<1>8. Turns'
  BY <1>3, <1>5, <1>6 DEF Turns
<1>9. Halves'
  <2>1. Len(log'[c]) % 2 = 0
    BY <1>2, <1>4, Parity
  <2>2. \A o \in Output : Len(log'[o]) % 2 = 0
    BY <1>2, <1>4, <2>1
  <2> QED BY <1>3, <2>2 DEF Halves
<1>10. LinesAreWhole'
  <2> SUFFICES ASSUME NEW o \in Output, NEW i \in 1..Len(log'[o])
               PROVE  /\ log'[o][i][1] = (IF i % 2 = 1 THEN "header" ELSE "rest")
                      /\ i % 2 = 0 => /\ log'[o][i][2] = log'[o][i - 1][2]
                                      /\ log'[o][i][3] = log'[o][i - 1][3]
    BY DEF LinesAreWhole
  <2>1. CASE o # c
    BY <1>2, <2>1 DEF LogInv, LinesAreWhole
  <2>2. CASE o = c /\ i <= n
    <3>1. i \in 1..n
      BY <1>2, <2>2
    <3>2. /\ log[c][i][1] = (IF i % 2 = 1 THEN "header" ELSE "rest")
          /\ i % 2 = 0 => /\ log[c][i][2] = log[c][i - 1][2]
                          /\ log[c][i][3] = log[c][i - 1][3]
      BY <1>1, <3>1 DEF LogInv, LinesAreWhole
    <3>3. i % 2 = 0 => i - 1 \in 1..n
      BY <1>2, <3>1
    <3> QED BY <1>2, <2>2, <3>1, <3>2, <3>3
  <2>3. CASE o = c /\ i = n + 1
    <3>1. n \in Nat /\ n % 2 = 1 /\ i = n + 1
      BY <1>2, <1>4, <2>3
    <3>2. i % 2 = 0 /\ n # 0
      BY <3>1, Parity
    <3>3. n \in 1..n /\ i - 1 = n
      BY <3>1, <3>2
    <3>4. log'[o][i - 1] = <<"header", t, Head(say[t])>>
      BY <1>2, <1>4, <2>3, <3>3
    <3>5. log'[o][i] = <<"rest", t, Head(say[t])>>
      BY <1>2, <2>3
    <3>6. /\ log'[o][i - 1][2] = t /\ log'[o][i - 1][3] = Head(say[t])
          /\ log'[o][i][1] = "rest" /\ log'[o][i][2] = t /\ log'[o][i][3] = Head(say[t])
      BY <3>4, <3>5
    <3> QED BY <3>2, <3>6
  <2> QED BY <1>2, <2>1, <2>2, <2>3
<1> QED BY <1>7, <1>8, <1>9, <1>10 DEF LogInv

LEMMA MessageInv == ASSUME LogInv, NEW t \in Thread, Message(t) PROVE LogInv'
  BY EnterInv, HeaderInv, FileMissesInv, RestInv DEF Message

-----------------------------------------------------------------------------
(* What the two outputs hold *)

Console == Logged("console")
File    == Logged("file")

Above(lines, n) == {lines[i] : i \in 1..n}
All(lines)      == {lines[i] : i \in DOMAIN lines}
Distinct(lines) == \A i, k \in DOMAIN lines : lines[i] = lines[k] => i = k

(* A line goes to the file, unless that cannot be opened, and then to the  *)
(* console                                                                 *)
Twofold == \A t \in Thread : operations[t] # {} => "console" \in operations[t]

(* No line is logged twice, and none that is still to be logged is there   *)
Once == /\ Distinct(File) /\ Distinct(Console)
        /\ \A t \in Thread : /\ Distinct(say[t])
                             /\ \A i \in DOMAIN say[t] : <<t, say[t][i]>> \notin All(Console)

(* The outputs hold the same lines but for the one that is under way       *)
Same ==
  /\ (\A t \in Thread : operations[t] # {"console"}) =>
       missed \subseteq All(Console) /\ All(File) = All(Console) \ missed
  /\ \A t \in Thread : operations[t] = {"console"} =>
       LET line == <<t, Head(say[t])>>
       IN  \/ /\ line \in missed
              /\ missed \subseteq All(Console) \union {line}
              /\ All(File) = All(Console) \ missed
           \/ /\ missed \subseteq All(Console)
              /\ Len(File) > 0 /\ File[Len(File)] = line
              /\ All(File) = (All(Console) \ missed) \union {line}

SameOrder ==
  \A i \in DOMAIN File, k \in DOMAIN Console : File[i] = Console[k] =>
     Above(File, i - 1) = Above(Console, k - 1) \ missed

OutputInv == Twofold /\ Once /\ Same /\ SameOrder

(* What a thread can have logged, or be about to, where it is              *)
MainPast(line) ==
  /\ at # "start"
  /\ at = "load" => line = <<"Application start">>
  /\ at \in {"launch", "wait", "unwind"} => line[1] \in {"Application start", "general read", "config read"}

WorkerPast(w, line) ==
  /\ worker[w] \notin {"off", "connect"}
  /\ worker[w] = "param" => line = <<"on_connected">>
  /\ worker[w] \in {"poll", "lock", "handle", "unlock"} =>
       \/ line[1] = "on_connected"
       \/ /\ line[1] = "on_data_available"
          /\ line[2] <= rounds[w] /\ (worker[w] = "lock" => line[2] < rounds[w])
       \/ /\ line[1] \in {"request", "response", "exception"}
          /\ line[2] <= rounds[w] /\ (worker[w] \in {"lock", "handle"} => line[2] < rounds[w])

Past(t, line) == IF t = main THEN MainPast(line) ELSE WorkerPast(t, line)

ToldOf(t) == \A i \in DOMAIN say[t] : Past(t, say[t][i])

Told == /\ \A i \in DOMAIN Console : Past(Console[i][1], Console[i][2])
        /\ \A t \in Thread : ToldOf(t)

(* Who dumps has the mutex of the handlers and goes on below the row that  *)
(* was logged last                                                         *)
IsRow(line) == line[1] = "on_data_available"

Follows(w, row) ==
  \E i \in DOMAIN Console :
     /\ Console[i] = <<w, <<"on_data_available", rounds[w], row - 1>>>>
     /\ \A j \in DOMAIN Console : j > i => ~IsRow(Console[j][2])

Holds == \A w \in Worker : worker[w] \in {"handle", "unlock"} => mutex = w

RowsOf(t) == \A i \in DOMAIN say[t] : IsRow(say[t][i]) => t \in Worker /\ worker[t] = "handle"

DumpOf(w) ==
  worker[w] = "handle" =>
    /\ \A i \in DOMAIN say[w] :
         say[w][i] = <<"on_data_available", rounds[w], say[w][1][3] + (i - 1)>>
    /\ say[w] # <<>> /\ say[w][1][3] > 0 => Follows(w, say[w][1][3])

Dumping == /\ Holds
           /\ \A t \in Thread : RowsOf(t)
           /\ \A w \in Worker : DumpOf(w)

(* What DumpsAreWhole says of one line *)
Placed(lines, k) ==
  IsRow(lines[k][2]) =>
    /\ \A i \in 1..(k - 1) : lines[i] # lines[k]
    /\ lines[k][2][3] > 0 => \E i \in 1..(k - 1) :
         /\ IsRow(lines[i][2])
         /\ lines[i][1] = lines[k][1] /\ lines[i][2][2] = lines[k][2][2]
         /\ lines[i][2][3] = lines[k][2][3] - 1
         /\ \A j \in (i + 1)..(k - 1) : ~IsRow(lines[j][2])

AllPlaced == \A k \in DOMAIN Console : Placed(Console, k)

(* What Logged makes of an output *)
Pairs(parts) == [i \in 1..(Len(parts) \div 2) |-> Tail(parts[2 * i])]

LEMMA PartIs ==
  ASSUME NEW part \in Part
  PROVE  Tail(part) = <<part[2], part[3]>> /\ Tail(part) \in Thread \X Line
<1>1. PICK p \in {"header", "rest"}, t \in Thread, line \in Line : part = <<p, t, line>>
  BY DEF Part
<1>2. Tail(<<p, t, line>>) = <<t, line>>
  OBVIOUS
<1> QED BY <1>1, <1>2

LEMMA PairsType ==
  ASSUME NEW parts \in Seq(Part)
  PROVE  Pairs(parts) \in Seq(Thread \X Line) /\ Len(Pairs(parts)) = Len(parts) \div 2
<1>1. Len(parts) \in Nat /\ Len(parts) \div 2 \in Nat
  BY LenProperties
<1>2. \A i \in 1..(Len(parts) \div 2) : 2 * i \in 1..Len(parts)
  BY <1>1
<1>3. \A i \in 1..(Len(parts) \div 2) : Tail(parts[2 * i]) \in Thread \X Line
  BY <1>2, PartIs, ElementOfSeq
<1>4. Pairs(parts) \in [1..(Len(parts) \div 2) -> Thread \X Line]
  BY <1>3 DEF Pairs
<1> QED BY <1>1, <1>4, SeqDef, LenProperties DEF Pairs

LEMMA Halving == ASSUME NEW n \in Nat
                 PROVE  /\ n % 2 = 0 => (n + 1) \div 2 = n \div 2
                        /\ n % 2 = 1 => (n + 1) \div 2 = n \div 2 + 1 /\ 2 * (n \div 2 + 1) = n + 1
OBVIOUS

LEMMA PairsAppend ==
  ASSUME NEW parts \in Seq(Part), NEW part \in Part
  PROVE  /\ Len(parts) % 2 = 0 => Pairs(Append(parts, part)) = Pairs(parts)
         /\ Len(parts) % 2 = 1 =>
              Pairs(Append(parts, part)) = Append(Pairs(parts), <<part[2], part[3]>>)
<1> DEFINE n == Len(parts)
           more == Append(parts, part)
<1>1. /\ n \in Nat /\ Len(more) = n + 1 /\ more \in Seq(Part)
      /\ \A i \in 1..n : more[i] = parts[i]
      /\ more[n + 1] = part
  BY AppendProperties, LenProperties
<1> HIDE DEF more
<1>2. \A i \in 1..(n \div 2) : 2 * i \in 1..n
  BY <1>1
<1>3. CASE n % 2 = 0
  <2>1. Len(more) \div 2 = n \div 2
    BY <1>1, <1>3, Halving
  <2>2. \A i \in 1..(n \div 2) : Tail(more[2 * i]) = Tail(parts[2 * i])
    BY <1>1, <1>2
  <2> QED BY <1>3, <2>1, <2>2 DEF Pairs, more
<1>4. CASE n % 2 = 1
  <2> DEFINE h == n \div 2
             x == <<part[2], part[3]>>
  <2>1. h \in Nat /\ Len(more) \div 2 = h + 1 /\ 2 * (h + 1) = n + 1
    BY <1>1, <1>4, Halving
  <2>2. /\ Pairs(parts) \in Seq(Thread \X Line) /\ Len(Pairs(parts)) = h
        /\ Pairs(more) \in Seq(Thread \X Line) /\ Len(Pairs(more)) = h + 1
    BY <1>1, <2>1, PairsType
  <2>3. x \in Thread \X Line /\ Tail(part) = x
    BY PartIs
  <2>4. /\ Append(Pairs(parts), x) \in Seq(Thread \X Line)
        /\ Len(Append(Pairs(parts), x)) = h + 1
        /\ \A i \in 1..h : Append(Pairs(parts), x)[i] = Pairs(parts)[i]
        /\ Append(Pairs(parts), x)[h + 1] = x
    BY <2>2, <2>3, AppendProperties
  <2> HIDE DEF x, h
  <2>5. \A i \in 1..(h + 1) : Pairs(more)[i] = Tail(more[2 * i])
    BY <2>1 DEF Pairs
  <2>6. \A i \in 1..h : Pairs(parts)[i] = Tail(parts[2 * i]) /\ more[2 * i] = parts[2 * i]
    BY <1>1, <1>2 DEF Pairs, h
  <2>7. \A i \in 1..(h + 1) : Pairs(more)[i] = Append(Pairs(parts), x)[i]
    <3> SUFFICES ASSUME NEW i \in 1..(h + 1) PROVE Pairs(more)[i] = Append(Pairs(parts), x)[i]
      OBVIOUS
    <3>1. CASE i \in 1..h
      BY <2>1, <2>4, <2>5, <2>6, <3>1
    <3>2. CASE i = h + 1
      BY <1>1, <2>1, <2>3, <2>4, <2>5, <3>2
    <3>3. i \in 1..h \/ i = h + 1
      BY <2>1
    <3> QED BY <3>1, <3>2, <3>3
  <2>8. Pairs(more) = Append(Pairs(parts), x)
    BY <2>2, <2>4, <2>7, SeqEqual
  <2> QED BY <1>4, <2>8 DEF more, x
<1> QED BY <1>1, <1>3, <1>4

LEMMA OutputTypes ==
  ASSUME LogInv
  PROVE  File \in Seq(Thread \X Line) /\ Console \in Seq(Thread \X Line)
<1>1. \A o \in Output : Logged(o) = Pairs(log[o])
  BY DEF Logged, Pairs
<1>2. \A o \in Output : Logged(o) \in Seq(Thread \X Line)
  BY <1>1, LogTypes, PairsType
<1> QED BY <1>2 DEF File, Console, Output

LEMMA HeaderLogs ==
  ASSUME LogInv, NEW t \in Thread, Header(t)
  PROVE  File' = File /\ Console' = Console
<1> DEFINE c == Current(t)
           e == <<"header", t, Head(say[t])>>
<1>1. c \in Output /\ say[t] # <<>> /\ \A u \in Thread : begun[u] = FALSE
  BY CurrentIsOutput DEF LogInv, LogType, TraceTypeOK, Turns, Header
<1>2. e \in Part /\ log[c] \in Seq(Part) /\ Len(log[c]) % 2 = 0
  BY <1>1, HeadType, LogTypes DEF LogInv, Part, Halves
<1> HIDE DEF e
<1>3. /\ \A o \in Output \ {c} : log'[o] = log[o]
      /\ log'[c] = Append(log[c], e)
  BY <1>1, PutType DEF Header, e
<1>4. Pairs(log'[c]) = Pairs(log[c])
  <2>1. Pairs(Append(log[c], e)) = Pairs(log[c])
    BY <1>2, PairsAppend, Zenon
  <2> QED BY <1>3, <2>1
<1>5. \A o \in Output : Pairs(log'[o]) = Pairs(log[o])
  BY <1>3, <1>4
<1> QED BY <1>5 DEF File, Console, Logged, Pairs, Output

LEMMA RestLogs ==
  ASSUME LogInv, NEW t \in Thread, Rest(t)
  PROVE  /\ Current(t) = "file" =>
              File' = Append(File, <<t, Head(say[t])>>) /\ Console' = Console
         /\ Current(t) = "console" =>
              Console' = Append(Console, <<t, Head(say[t])>>) /\ File' = File
<1> DEFINE c == Current(t)
           line == Head(say[t])
           e == <<"rest", t, line>>
<1>1. c \in Output /\ say[t] # <<>> /\ begun[t]
  BY CurrentIsOutput DEF LogInv, LogType, TraceTypeOK, Turns, Rest
<1>2. e \in Part /\ log[c] \in Seq(Part) /\ Len(log[c]) % 2 = 1
  BY <1>1, HeadType, LogTypes DEF LogInv, Part, Halves
<1>3. e[2] = t /\ e[3] = line
  OBVIOUS
<1>4. /\ \A o \in Output \ {c} : log'[o] = log[o]
      /\ log'[c] = Append(log[c], e)
  BY <1>1, PutType DEF Rest
<1> HIDE DEF e, line
<1>5. Pairs(log'[c]) = Append(Pairs(log[c]), <<t, line>>)
  <2>1. Pairs(Append(log[c], e)) = Append(Pairs(log[c]), <<e[2], e[3]>>)
    BY <1>2, PairsAppend, Zenon
  <2> QED BY <1>3, <1>4, <2>1
<1>6. /\ File = Pairs(log["file"]) /\ File' = Pairs(log'["file"])
      /\ Console = Pairs(log["console"]) /\ Console' = Pairs(log'["console"])
  BY DEF File, Console, Logged, Pairs
<1>7. "file" \in Output /\ "console" \in Output /\ "file" # "console"
  BY DEF Output
<1> QED BY <1>4, <1>5, <1>6, <1>7 DEF line

LEMMA Adds ==
  ASSUME NEW S, NEW lines \in Seq(S), NEW line \in S
  PROVE  /\ Append(lines, line) \in Seq(S)
         /\ Len(lines) \in Nat /\ Len(Append(lines, line)) = Len(lines) + 1
         /\ DOMAIN lines = 1..Len(lines) /\ DOMAIN Append(lines, line) = 1..(Len(lines) + 1)
         /\ \A i \in 1..Len(lines) : Append(lines, line)[i] = lines[i]
         /\ Append(lines, line)[Len(lines) + 1] = line
         /\ All(Append(lines, line)) = All(lines) \union {line}
         /\ Above(lines, Len(lines)) = All(lines)
         /\ \A n \in 0..Len(lines) : Above(Append(lines, line), n) = Above(lines, n)
         /\ Distinct(lines) /\ line \notin All(lines) => Distinct(Append(lines, line))
<1> DEFINE n == Len(lines)
           more == Append(lines, line)
<1>1. /\ n \in Nat /\ Len(more) = n + 1 /\ more \in Seq(S)
      /\ \A i \in 1..n : more[i] = lines[i]
      /\ more[n + 1] = line
  BY AppendProperties, LenProperties
<1>2. DOMAIN lines = 1..n /\ DOMAIN more = 1..(n + 1)
  BY <1>1, LenProperties
<1> HIDE DEF more, n
<1>3. All(more) = All(lines) \union {line}
  BY <1>1, <1>2 DEF All
<1>4. Above(lines, n) = All(lines)
  BY <1>2 DEF Above, All
<1>5. \A k \in 0..n : Above(more, k) = Above(lines, k)
  <2> SUFFICES ASSUME NEW k \in 0..n PROVE Above(more, k) = Above(lines, k)
    OBVIOUS
  <2>1. \A i \in 1..k : more[i] = lines[i]
    BY <1>1
  <2> QED BY <2>1 DEF Above
<1>6. Distinct(lines) /\ line \notin All(lines) => Distinct(more)
  BY <1>1, <1>2 DEF Distinct, All
<1> QED BY <1>1, <1>2, <1>3, <1>4, <1>5, <1>6 DEF more, n

LEMMA SameLog == log' = log => File' = File /\ Console' = Console
  BY DEF File, Console, Logged

(* Only one thread is inside message *)
LEMMA OneInside ==
  ASSUME LogInv, NEW t \in Thread, operations[t] # {}
  PROVE  say[t] # <<>> /\ traceMutex = t /\ \A u \in Thread \ {t} : operations[u] = {}
  BY DEF LogInv, Turns

LEMMA SayTypes ==
  ASSUME LogInv, NEW t \in Thread
  PROVE  /\ say[t] \in Seq(Line) /\ Len(say[t]) \in Nat /\ DOMAIN say[t] = 1..Len(say[t])
         /\ say[t] # <<>> => /\ Head(say[t]) = say[t][1] /\ 1 \in DOMAIN say[t]
                             /\ Len(Tail(say[t])) = Len(say[t]) - 1
                             /\ DOMAIN Tail(say[t]) = 1..(Len(say[t]) - 1)
                             /\ \A i \in 1..(Len(say[t]) - 1) : Tail(say[t])[i] = say[t][i + 1]
<1>1. say[t] \in Seq(Line)
  BY DEF LogInv, LogType
<1>2. Len(say[t]) \in Nat /\ DOMAIN say[t] = 1..Len(say[t])
  BY <1>1, LenProperties
<1>3. ASSUME say[t] # <<>>
      PROVE  /\ Head(say[t]) = say[t][1] /\ 1 \in DOMAIN say[t]
             /\ Len(Tail(say[t])) = Len(say[t]) - 1
             /\ DOMAIN Tail(say[t]) = 1..(Len(say[t]) - 1)
             /\ \A i \in 1..(Len(say[t]) - 1) : Tail(say[t])[i] = say[t][i + 1]
  <2>1. /\ Tail(say[t]) \in Seq(Line) /\ Len(Tail(say[t])) = Len(say[t]) - 1
        /\ \A i \in 1..Len(Tail(say[t])) : Tail(say[t])[i] = say[t][i + 1]
        /\ Head(say[t]) = say[t][1]
    BY <1>1, <1>3, HeadTailProperties
  <2>2. Len(say[t]) # 0
    BY <1>1, <1>3, EmptySeq
  <2>3. 1 \in DOMAIN say[t]
    BY <1>2, <2>2
  <2>4. DOMAIN Tail(say[t]) = 1..Len(Tail(say[t]))
    BY <2>1, LenProperties
  <2> QED BY <2>1, <2>3, <2>4
<1> QED BY <1>1, <1>2, <1>3

(* A thread that is not inside message starts to log new lines *)
LEMMA SaysOutputs ==
  ASSUME LogInv, OutputInv, NEW t \in Thread, Quiet(t), NEW lines \in Seq(Line), Says(t, lines),
         Distinct(lines), \A i \in DOMAIN lines : <<t, lines[i]>> \notin All(Console)
  PROVE  OutputInv'
<1>1. /\ File' = File /\ Console' = Console /\ operations' = operations /\ missed' = missed
      /\ operations[t] = {}
  BY SameLog DEF Says, LogInv, Turns, Quiet
<1>2. say'[t] = lines /\ \A u \in Thread \ {t} : say'[u] = say[u]
  BY DEF LogInv, LogType, Says
<1>3. Twofold' /\ SameOrder'
  <2>1. Twofold'
    BY <1>1 DEF OutputInv, Twofold
  <2>2. SameOrder'
    BY <1>1 DEF OutputInv, SameOrder, Above
  <2> QED BY <2>1, <2>2
<1>4. Once'
  BY <1>1, <1>2 DEF OutputInv, Once, Distinct, All
<1>5. Same'
  <2>1. \A u \in Thread : operations[u] = {"console"} => say'[u] = say[u]
    BY <1>1, <1>2
  <2>2. All(File)' = All(File) /\ All(Console)' = All(Console)
    BY <1>1 DEF All
  <2>3. ASSUME NEW u \in Thread, operations'[u] = {"console"}
        PROVE  /\ operations[u] = {"console"}
               /\ <<u, Head(say'[u])>> = <<u, Head(say[u])>>
    BY <1>1, <2>1, <2>3
  <2> QED BY <1>1, <2>2, <2>3 DEF OutputInv, Same
<1> QED BY <1>3, <1>4, <1>5 DEF OutputInv

(* Steps that put nothing on an output *)
LEMMA SameOutputs ==
  ASSUME OutputInv, File' = File, Console' = Console, operations' = operations,
         missed' = missed, say' = say
  PROVE  OutputInv'
<1>1. Twofold'
  BY DEF OutputInv, Twofold
<1>2. Once'
  BY DEF OutputInv, Once, Distinct, All
<1>3. Same'
  BY DEF OutputInv, Same, All
<1>4. SameOrder'
  BY DEF OutputInv, SameOrder, Above
<1> QED BY <1>1, <1>2, <1>3, <1>4 DEF OutputInv

LEMMA SilentOutputs == OutputInv /\ UNCHANGED traceVars => OutputInv'
  BY SameLog, SameOutputs DEF traceVars

LEMMA EnterOutputs == ASSUME LogInv, OutputInv, NEW t \in Thread, Enter(t) PROVE OutputInv'
<1>1. \A u \in Thread : operations[u] = {}
  BY DEF LogInv, Turns, Enter
<1>2. /\ File' = File /\ Console' = Console /\ missed' = missed /\ say' = say
      /\ \A u \in Thread : operations'[u] \in {{}, {"file", "console"}}
  BY <1>1, SameLog DEF Enter, LogInv, LogType, TraceTypeOK, Output
<1>3. Twofold'
  BY <1>2 DEF Twofold
<1>4. Once' /\ SameOrder'
  BY <1>2 DEF OutputInv, Once, SameOrder, Distinct, All, Above
<1>5. \A u \in Thread : operations[u] # {"console"} /\ operations'[u] # {"console"}
  BY <1>1, <1>2
<1>6. Same'
  BY <1>2, <1>5 DEF OutputInv, Same, All
<1> QED BY <1>3, <1>4, <1>6 DEF OutputInv

LEMMA HeaderOutputs == ASSUME LogInv, OutputInv, NEW t \in Thread, Header(t) PROVE OutputInv'
  BY HeaderLogs, SameOutputs DEF Header

LEMMA FileMissesOutputs ==
  ASSUME LogInv, OutputInv, NEW t \in Thread, FileMisses(t) PROVE OutputInv'
<1> DEFINE line == <<t, Head(say[t])>>
<1>1. /\ "file" \in operations[t] /\ say[t] # <<>>
      /\ \A u \in Thread \ {t} : operations[u] = {}
  BY OneInside DEF FileMisses
<1>2. /\ File' = File /\ Console' = Console /\ say' = say /\ missed' = missed \union {line}
      /\ operations' = [operations EXCEPT ![t] = @ \ {"file"}]
  BY SameLog DEF FileMisses
<1>3. operations[t] = {"file", "console"}
  BY <1>1 DEF OutputInv, Twofold, LogInv, LogType, TraceTypeOK, Output
<1>4. operations'[t] = {"console"} /\ \A u \in Thread \ {t} : operations'[u] = {}
  BY <1>1, <1>2, <1>3 DEF LogInv, LogType, TraceTypeOK
<1>5. line \notin All(Console)
  BY <1>1, SayTypes DEF OutputInv, Once
<1>6. missed \subseteq All(Console) /\ All(File) = All(Console) \ missed
  BY <1>1, <1>3 DEF OutputInv, Same
<1>7. Twofold'
  BY <1>4 DEF Twofold
<1>8. Once'
  BY <1>2 DEF OutputInv, Once, Distinct, All
<1>9. Same'
  <2>1. /\ line \in missed' /\ missed' \subseteq All(Console) \union {line}
        /\ All(File) = All(Console) \ missed'
    BY <1>2, <1>5, <1>6
  <2>2. /\ All(File)' = All(File) /\ All(Console)' = All(Console)
        /\ <<t, Head(say[t])>>' = line
    BY <1>2 DEF All
  <2> HIDE DEF line
  <2> QED BY <1>4, <2>1, <2>2 DEF Same
<1>10. SameOrder'
  <2> SUFFICES ASSUME NEW i \in DOMAIN File, NEW k \in DOMAIN Console, File[i] = Console[k]
               PROVE  Above(File, i - 1) = Above(Console, k - 1) \ missed'
    BY <1>2 DEF SameOrder, Above
  <2>1. Above(File, i - 1) = Above(Console, k - 1) \ missed
    BY DEF OutputInv, SameOrder
  <2>2. Above(Console, k - 1) \subseteq All(Console)
    <3>1. DOMAIN Console = 1..Len(Console) /\ Len(Console) \in Nat
      BY OutputTypes, LenProperties
    <3> QED BY <3>1 DEF Above, All
  <2> QED BY <1>2, <1>5, <2>1, <2>2
<1> QED BY <1>7, <1>8, <1>9, <1>10 DEF OutputInv

(* The end of a line in the file *)
LEMMA RestInFile ==
  ASSUME LogInv, OutputInv, NEW t \in Thread, Rest(t), Current(t) = "file"
  PROVE  OutputInv' /\ Console' = Console /\ say' = say
<1> DEFINE line == <<t, Head(say[t])>>
<1>1. /\ say[t] # <<>> /\ "file" \in operations[t]
      /\ \A u \in Thread \ {t} : operations[u] = {}
  BY OneInside DEF Rest, LogInv, Turns, Current
<1>2. operations[t] = {"file", "console"}
  BY <1>1 DEF OutputInv, Twofold, LogInv, LogType, TraceTypeOK, Output
<1>3. operations' = [operations EXCEPT ![t] = @ \ {"file"}]
  BY DEF Rest
<1>4. operations'[t] = {"console"} /\ \A u \in Thread \ {t} : operations'[u] = {}
  BY <1>1, <1>2, <1>3 DEF LogInv, LogType, TraceTypeOK
<1>5. say' = say /\ missed' = missed
  BY <1>4 DEF Rest
<1>6. line \in Thread \X Line
  BY <1>1, HeadType DEF LogInv
<1>7. line \notin All(Console)
  BY <1>1, SayTypes DEF OutputInv, Once
<1>8. missed \subseteq All(Console) /\ All(File) = All(Console) \ missed
  BY <1>1, <1>2 DEF OutputInv, Same
<1>9. File' = Append(File, line) /\ Console' = Console
  BY RestLogs
<1> HIDE DEF line
<1>10. /\ Len(File) \in Nat /\ Len(File') = Len(File) + 1
       /\ DOMAIN File = 1..Len(File) /\ DOMAIN File' = 1..(Len(File) + 1)
       /\ \A i \in 1..Len(File) : File'[i] = File[i]
       /\ File'[Len(File) + 1] = line
       /\ All(File') = All(File) \union {line}
       /\ \A n \in 0..Len(File) : Above(File', n) = Above(File, n)
       /\ Distinct(File) /\ line \notin All(File) => Distinct(File')
  BY <1>6, <1>9, OutputTypes, Adds
<1>11. Twofold'
  BY <1>4 DEF Twofold
<1>12. Once'
  <2>1. Distinct(File')
    BY <1>7, <1>8, <1>10 DEF OutputInv, Once
  <2>2. Distinct(File)' /\ Distinct(Console)'
    BY <1>9, <2>1 DEF OutputInv, Once, Distinct
  <2>3. \A u \in Thread : /\ Distinct(say[u])'
                          /\ \A i \in DOMAIN say'[u] : <<u, say'[u][i]>> \notin All(Console)'
    BY <1>5, <1>9 DEF OutputInv, Once, Distinct, All
  <2> QED BY <2>2, <2>3 DEF Once
<1>13. Same'
  <2>1. /\ missed' \subseteq All(Console)
        /\ Len(File') > 0 /\ File'[Len(File')] = line
        /\ All(File') = (All(Console) \ missed') \union {line}
    BY <1>5, <1>8, <1>10
  <2>2. /\ All(File)' = All(File') /\ All(Console)' = All(Console)
        /\ <<t, Head(say[t])>>' = line
    BY <1>5, <1>9 DEF All, line
  <2> QED BY <1>4, <2>1, <2>2 DEF Same
<1>14. SameOrder'
  <2> SUFFICES ASSUME NEW i \in DOMAIN File', NEW k \in DOMAIN Console, File'[i] = Console[k]
               PROVE  Above(File', i - 1) = Above(Console, k - 1) \ missed
    BY <1>5, <1>9 DEF SameOrder, Above
  <2>1. Console[k] # line
    BY <1>7 DEF All
  <2>2. i \in 1..Len(File)
    BY <1>10, <2>1
  <2>3. Above(File, i - 1) = Above(Console, k - 1) \ missed
    BY <1>10, <2>2 DEF OutputInv, SameOrder
  <2> QED BY <1>10, <2>2, <2>3
<1> QED BY <1>5, <1>9, <1>11, <1>12, <1>13, <1>14 DEF OutputInv

(* The end of a line on the console *)
LEMMA RestOnConsole ==
  ASSUME LogInv, OutputInv, NEW t \in Thread, Rest(t), Current(t) = "console"
  PROVE  /\ OutputInv' /\ Console' = Append(Console, <<t, Head(say[t])>>)
         /\ say[t] # <<>> /\ say' = [say EXCEPT ![t] = Tail(@)]
<1> DEFINE line == <<t, Head(say[t])>>
<1>1. /\ say[t] # <<>> /\ operations[t] # {}
      /\ \A u \in Thread \ {t} : operations[u] = {}
  BY OneInside DEF Rest, LogInv, Turns
<1>2. operations[t] = {"console"}
  BY <1>1 DEF Current, LogInv, LogType, TraceTypeOK, Output
<1>3. operations' = [operations EXCEPT ![t] = @ \ {"console"}]
  BY DEF Rest
<1>4. \A u \in Thread : operations'[u] = {}
  BY <1>1, <1>2, <1>3 DEF LogInv, LogType, TraceTypeOK
<1>5. say' = [say EXCEPT ![t] = Tail(@)] /\ missed' = missed
  BY <1>4 DEF Rest
<1>6. line \in Thread \X Line
  BY <1>1, HeadType DEF LogInv
<1>7. line \notin All(Console)
  BY <1>1, SayTypes DEF OutputInv, Once
<1>8. \/ /\ line \in missed
         /\ missed \subseteq All(Console) \union {line}
         /\ All(File) = All(Console) \ missed
      \/ /\ missed \subseteq All(Console)
         /\ Len(File) > 0 /\ File[Len(File)] = line
         /\ All(File) = (All(Console) \ missed) \union {line}
  BY <1>2 DEF OutputInv, Same
<1>9. Console' = Append(Console, line) /\ File' = File
  BY RestLogs
<1>10. /\ say'[t] = Tail(say[t]) /\ \A u \in Thread \ {t} : say'[u] = say[u]
  BY <1>5 DEF LogInv, LogType
<1>11. \A i \in DOMAIN say'[t] : i + 1 \in DOMAIN say[t] /\ say'[t][i] = say[t][i + 1] /\ i # 0
  BY <1>1, <1>10, SayTypes
<1>12. 1 \in DOMAIN say[t] /\ say[t][1] = Head(say[t]) /\ DOMAIN say'[t] \subseteq Nat
  BY <1>1, <1>10, SayTypes
<1>13. \A u \in Thread : \A i \in DOMAIN say'[u] : <<u, say'[u][i]>> # line
  <2> SUFFICES ASSUME NEW u \in Thread, NEW i \in DOMAIN say'[u], <<u, say'[u][i]>> = line
               PROVE  FALSE
    OBVIOUS
  <2>1. u = t /\ say'[t][i] = say[t][1]
    BY <1>12
  <2>2. Distinct(say[t])
    BY DEF OutputInv, Once
  <2>3. i + 1 \in DOMAIN say[t] /\ say[t][i + 1] = say[t][1] /\ i # 0 /\ i \in Nat
    BY <1>11, <1>12, <2>1
  <2>4. i + 1 = 1
    BY <1>12, <2>2, <2>3 DEF Distinct
  <2> QED BY <2>3, <2>4
<1> HIDE DEF line
<1>14. /\ Len(Console) \in Nat
       /\ DOMAIN Console = 1..Len(Console) /\ DOMAIN Console' = 1..(Len(Console) + 1)
       /\ \A i \in 1..Len(Console) : Console'[i] = Console[i]
       /\ Console'[Len(Console) + 1] = line
       /\ All(Console') = All(Console) \union {line}
       /\ Above(Console, Len(Console)) = All(Console)
       /\ \A n \in 0..Len(Console) : Above(Console', n) = Above(Console, n)
       /\ Distinct(Console) /\ line \notin All(Console) => Distinct(Console')
  BY <1>6, <1>9, OutputTypes, Adds
<1>15. Twofold'
  BY <1>4 DEF Twofold
<1>16. Once'
  <2>1. Distinct(File)' /\ Distinct(Console)'
    BY <1>7, <1>9, <1>14 DEF OutputInv, Once, Distinct
  <2>2. \A u \in Thread : Distinct(say[u])'
    <3>1. Distinct(say'[t])
      BY <1>11, <1>12 DEF OutputInv, Once, Distinct
    <3> QED BY <1>10, <3>1 DEF OutputInv, Once, Distinct
  <2>3. \A u \in Thread : \A i \in DOMAIN say'[u] : <<u, say'[u][i]>> \notin All(Console)
    <3>1. \A i \in DOMAIN say'[t] : <<t, say'[t][i]>> \notin All(Console)
      BY <1>11 DEF OutputInv, Once
    <3>2. \A u \in Thread \ {t} : \A i \in DOMAIN say'[u] : <<u, say'[u][i]>> \notin All(Console)
      BY <1>10 DEF OutputInv, Once
    <3> QED BY <3>1, <3>2
  <2>4. All(Console)' = All(Console) \union {line}
    BY <1>14 DEF All
  <2> QED BY <1>13, <2>1, <2>2, <2>3, <2>4 DEF Once
<1>17. Same'
  <2>1. All(File)' = All(File) /\ All(Console)' = All(Console) \union {line}
    BY <1>9, <1>14 DEF All
  <2>2. missed' \subseteq All(Console)' /\ All(File)' = All(Console)' \ missed'
    BY <1>5, <1>7, <1>8, <2>1
  <2> QED BY <1>4, <2>2 DEF Same
<1>18. SameOrder'
  <2> SUFFICES ASSUME NEW i \in DOMAIN File, NEW k \in DOMAIN Console', File[i] = Console'[k]
               PROVE  Above(File, i - 1) = Above(Console', k - 1) \ missed
    BY <1>5, <1>9 DEF SameOrder, Above
  <2>1. CASE k \in 1..Len(Console)
    <3>1. Above(File, i - 1) = Above(Console, k - 1) \ missed
      BY <1>14, <2>1 DEF OutputInv, SameOrder
    <3> QED BY <1>14, <2>1, <3>1
  <2>2. CASE k = Len(Console) + 1
    <3>1. File[i] = line
      BY <1>14, <2>2
    <3>2. line \in All(File)
      BY <3>1 DEF All
    <3>3. /\ missed \subseteq All(Console) /\ Len(File) > 0 /\ File[Len(File)] = line
          /\ All(File) = (All(Console) \ missed) \union {line}
      BY <1>7, <1>8, <3>2
    <3>4. DOMAIN File = 1..Len(File) /\ Len(File) \in Nat
      BY OutputTypes, LenProperties
    <3>5. i = Len(File)
      BY <3>1, <3>3, <3>4 DEF OutputInv, Once, Distinct
    <3>6. \A j \in 1..(i - 1) : File[j] # line
      BY <3>1, <3>4 DEF OutputInv, Once, Distinct
    <3>7. Above(File, i - 1) = All(File) \ {line}
      <4>1. \A j \in 1..Len(File) : j \in 1..(i - 1) \/ File[j] = line
        BY <3>1, <3>4, <3>5
      <4> QED BY <3>4, <3>5, <3>6, <4>1 DEF Above, All
    <3>8. Above(Console', k - 1) = All(Console)
      BY <1>14, <2>2
    <3> QED BY <1>7, <3>3, <3>7, <3>8
  <2> QED BY <1>14, <2>1, <2>2
<1> QED BY <1>1, <1>5, <1>9, <1>15, <1>16, <1>17, <1>18 DEF OutputInv, line

LEMMA MessageOutputs ==
  ASSUME LogInv, OutputInv, NEW t \in Thread, Message(t) PROVE OutputInv'
<1>1. CASE Rest(t)
  <2>1. Current(t) \in {"file", "console"}
    BY DEF Current
  <2> QED BY <1>1, <2>1, RestInFile, RestOnConsole
<1> QED BY <1>1, EnterOutputs, HeaderOutputs, FileMissesOutputs DEF Message

(* The invariant is what LogsAgree says *)
LEMMA Agreement == LogInv /\ OutputInv => LogsAgree
<1> SUFFICES ASSUME LogInv, OutputInv PROVE LogsAgree
  OBVIOUS
<1>1. /\ DOMAIN File = 1..Len(File) /\ Len(File) \in Nat
      /\ DOMAIN Console = 1..Len(Console) /\ Len(Console) \in Nat
  BY OutputTypes, LenProperties
<1>2. Above(File, Len(File)) = All(File) /\ Above(Console, Len(Console)) = All(Console)
  BY <1>1 DEF Above, All
<1>3. Above(File, Len(File) - 1) \subseteq All(File)
  BY <1>1 DEF Above, All
<1>4. /\ Above(File, Len(File) - 1) \subseteq All(Console)
      /\ All(Console) \ missed \subseteq All(File)
      /\ \A line \in missed : line \in All(Console) \/ line[2] \in Range(say[line[1]])
  <2>1. CASE \A t \in Thread : operations[t] # {"console"}
    BY <1>3, <2>1 DEF OutputInv, Same
  <2>2. ASSUME NEW t \in Thread, operations[t] = {"console"}
        PROVE  /\ Above(File, Len(File) - 1) \subseteq All(Console)
               /\ All(Console) \ missed \subseteq All(File)
               /\ \A line \in missed : line \in All(Console) \/ line[2] \in Range(say[line[1]])
    <3> DEFINE x == <<t, Head(say[t])>>
    <3>1. say[t] # <<>>
      BY <2>2, OneInside
    <3>2. x[1] = t /\ x[2] \in Range(say[t])
      BY <3>1, SayTypes DEF Range
    <3>3. \/ /\ x \in missed
             /\ missed \subseteq All(Console) \union {x}
             /\ All(File) = All(Console) \ missed
          \/ /\ missed \subseteq All(Console)
             /\ Len(File) > 0 /\ File[Len(File)] = x
             /\ All(File) = (All(Console) \ missed) \union {x}
      BY <2>2 DEF OutputInv, Same
    <3> HIDE DEF x
    <3>4. CASE missed \subseteq All(Console) \union {x} /\ All(File) = All(Console) \ missed
      BY <1>3, <3>2, <3>4
    <3>5. CASE /\ missed \subseteq All(Console) /\ Len(File) > 0 /\ File[Len(File)] = x
               /\ All(File) = (All(Console) \ missed) \union {x}
      <4>1. \A i \in 1..(Len(File) - 1) : File[i] # x
        BY <1>1, <3>5 DEF OutputInv, Once, Distinct
      <4>2. x \notin Above(File, Len(File) - 1)
        BY <4>1 DEF Above
      <4> QED BY <1>3, <3>5, <4>2
    <3> QED BY <3>3, <3>4, <3>5
  <2> QED BY <2>1, <2>2
<1>5. \A i \in DOMAIN File, k \in DOMAIN Console : File[i] = Console[k] =>
         Above(File, i - 1) = Above(Console, k - 1) \ missed
  BY DEF OutputInv, SameOrder
<1> QED BY <1>2, <1>4, <1>5 DEF LogsAgree, File, Console, Above

-----------------------------------------------------------------------------
(* Main and the workers: what they log, and where they are                 *)

LEMMA TheLines == /\ <<"Application start">> \in Line
                  /\ <<"general read">> \in Line /\ <<"config read">> \in Line
                  /\ <<"on_connected">> \in Line /\ <<"on_disconnected">> \in Line
                  /\ \A n \in 0..MaxRounds : /\ Exception(n) \in Line
                                             /\ <<"request", n>> \in Line
                                             /\ <<"response", n>> \in Line
  BY DEF Line, Exception

LEMMA TheCalls == /\ <<>> \in Seq(Line)
                  /\ << <<"Application start">> >> \in Seq(Line)
                  /\ << <<"on_connected">> >> \in Seq(Line)
                  /\ << <<"on_disconnected">>, Exception(0) >> \in Seq(Line)
                  /\ \A n \in 0..MaxRounds : <<Exception(n)>> \in Seq(Line)
                  /\ <<Exception(0)>> \in Seq(Line)
<1>1. 0 \in 0..MaxRounds
  OBVIOUS
<1>2. \A x, y \in Line : <<x>> \in Seq(Line) /\ <<x, y>> \in Seq(Line)
  OBVIOUS
<1>3. << <<"on_disconnected">>, Exception(0) >> \in Seq(Line)
  BY <1>1, <1>2, TheLines
<1>4. \A n \in 0..MaxRounds : <<Exception(n)>> \in Seq(Line)
  BY <1>2, TheLines
<1>5. << <<"Application start">> >> \in Seq(Line) /\ << <<"on_connected">> >> \in Seq(Line)
  BY <1>2, TheLines
<1>6. <<>> \in Seq(Line)
  OBVIOUS
<1> QED BY <1>1, <1>3, <1>4, <1>5, <1>6

LEMMA FirstWord == ASSUME NEW word PROVE \A line : line = <<word>> => line[1] = word
OBVIOUS

LEMMA FewLines ==
  /\ Distinct(<<>>) /\ DOMAIN <<>> = {}
  /\ \A x : /\ Distinct(<<x>>) /\ DOMAIN <<x>> = {1} /\ <<x>>[1] = x
            /\ \A y : /\ DOMAIN <<x, y>> = {1, 2} /\ <<x, y>>[1] = x /\ <<x, y>>[2] = y
                      /\ x # y => Distinct(<<x, y>>)
  BY DEF Distinct

LEMMA OneLine == ASSUME NEW x
                 PROVE  Distinct(<<x>>) /\ \A i \in DOMAIN <<x>> : <<x>>[i] = x
  BY DEF Distinct

LEMMA TwoLines == ASSUME NEW x, NEW y, x # y
                  PROVE  Distinct(<<x, y>>) /\ \A i \in DOMAIN <<x, y>> : <<x, y>>[i] \in {x, y}
  BY DEF Distinct

(* What main logs when it loads the profiles *)
LEMMA WhatLoadSays ==
  ASSUME LoadProfiles
  PROVE  \E lines \in Seq(Line) :
           /\ Says(main, lines) /\ Distinct(lines)
           /\ \/ /\ at' = "launch" /\ profiles' = "there"
                 /\ \A i \in DOMAIN lines : lines[i] \in {<<"general read">>, <<"config read">>}
              \/ /\ at' = "exit"
                 /\ \A i \in DOMAIN lines : lines[i] \in {<<"general read">>, Exception(0)}
<1> DEFINE g == <<"general read">>
           c == <<"config read">>
           e == Exception(0)
<1>1. g[1] = "general read" /\ c[1] = "config read" /\ e[1] = "exception"
  <2>1. \A word, n : <<word, n>>[1] = word
    OBVIOUS
  <2> QED BY <2>1, FirstWord DEF Exception
<1>2. g \in Line /\ c \in Line /\ e \in Line
  <2>1. 0 \in 0..MaxRounds
    OBVIOUS
  <2> QED BY <2>1, TheLines
<1>3. GeneralRead \in {<<>>, <<g>>} /\ ConfigRead \in {<<>>, <<c>>}
  BY DEF GeneralRead, ConfigRead
<1> HIDE DEF g, c, e
<1>4. ASSUME NEW x \in Line, NEW y \in Line PROVE <<x>> \o <<y>> = <<x, y>>
  <2>1. <<x>> \o <<y>> = Append(<<x>>, y)
    OBVIOUS
  <2>2. <<x, y>> = Append(<<x>>, y)
    OBVIOUS
  <2> QED BY <2>1, <2>2
<1>5. /\ GeneralRead \o ConfigRead \in {<<>>, <<g>>, <<c>>, <<g, c>>}
      /\ GeneralRead \o <<e>> \in {<<e>>, <<g, e>>}
  <2>1. \A s \in Seq(Line) : <<>> \o s = s /\ s \o <<>> = s
    OBVIOUS
  <2>2. <<>> \in Seq(Line) /\ <<g>> \in Seq(Line) /\ <<c>> \in Seq(Line) /\ <<e>> \in Seq(Line)
    BY <1>2
  <2>3. <<g>> \o <<c>> = <<g, c>> /\ <<g>> \o <<e>> = <<g, e>>
    BY <1>2, <1>4, Zenon
  <2> QED BY <1>3, <2>1, <2>2, <2>3, Zenon
<1>6. g # c /\ g # e
  BY <1>1
<1>7. \A lines \in {<<>>, <<g>>, <<c>>, <<g, c>>} :
        /\ lines \in Seq(Line) /\ Distinct(lines)
        /\ \A i \in DOMAIN lines : lines[i] \in {g, c}
  <2>1. /\ <<>> \in Seq(Line) /\ <<g>> \in Seq(Line) /\ <<c>> \in Seq(Line)
        /\ <<g, c>> \in Seq(Line)
    BY <1>2
  <2>2. Distinct(<<>>) /\ DOMAIN <<>> = {}
    BY FewLines
  <2>3. /\ Distinct(<<g>>) /\ \A i \in DOMAIN <<g>> : <<g>>[i] = g
        /\ Distinct(<<c>>) /\ \A i \in DOMAIN <<c>> : <<c>>[i] = c
    BY OneLine, Zenon
  <2>4. Distinct(<<g, c>>) /\ \A i \in DOMAIN <<g, c>> : <<g, c>>[i] \in {g, c}
    BY <1>6, TwoLines, Zenon
  <2> QED BY <2>1, <2>2, <2>3, <2>4, Zenon
<1>8. \A lines \in {<<e>>, <<g, e>>} :
        /\ lines \in Seq(Line) /\ Distinct(lines)
        /\ \A i \in DOMAIN lines : lines[i] \in {g, e}
  <2>1. <<e>> \in Seq(Line) /\ <<g, e>> \in Seq(Line)
    BY <1>2
  <2>2. Distinct(<<e>>) /\ \A i \in DOMAIN <<e>> : <<e>>[i] = e
    BY OneLine, Zenon
  <2>3. Distinct(<<g, e>>) /\ \A i \in DOMAIN <<g, e>> : <<g, e>>[i] \in {g, e}
    BY <1>6, TwoLines, Zenon
  <2> QED BY <2>1, <2>2, <2>3, Zenon
<1>9. \/ /\ at' = "launch" /\ profiles' = "there" /\ Says(main, GeneralRead \o ConfigRead)
      \/ at' = "exit" /\ (Says(main, <<e>>) \/ Says(main, GeneralRead \o <<e>>))
  BY DEF LoadProfiles, e
<1>10. CASE at' = "launch" /\ profiles' = "there" /\ Says(main, GeneralRead \o ConfigRead)
  BY <1>5, <1>7, <1>10, Zenon DEF g, c
<1>11. CASE at' = "exit" /\ (Says(main, <<e>>) \/ Says(main, GeneralRead \o <<e>>))
  <2>1. PICK lines \in {<<e>>, <<g, e>>} : Says(main, lines)
    BY <1>5, <1>11
  <2> QED BY <1>8, <1>11, <2>1, Zenon DEF g, e
<1> QED BY <1>9, <1>10, <1>11

LEMMA DumpType ==
  ASSUME MainType, NEW w \in Worker, NEW rows \in 0..MaxRows
  PROVE  Dump(w, rows) \in Seq(Line)
<1>1. rows + 1 \in Nat
  OBVIOUS
<1>2. \A i \in 1..(rows + 1) : <<"on_data_available", rounds[w], i - 1>> \in Line
  BY DEF Line, MainType
<1>3. Dump(w, rows) \in [1..(rows + 1) -> Line]
  BY <1>2 DEF Dump
<1> QED BY <1>1, <1>3, SeqDef

LEMMA Threads == Worker \subseteq Thread /\ main \in Thread
OBVIOUS

LEMMA InitInv == Init => IInv
<1> SUFFICES ASSUME Init PROVE IInv
  OBVIOUS
<1>1. IsFiniteSet(missed) /\ Cardinality(missed) = 0
  BY FS_EmptySet DEF Init, TraceInit
<1>2. LogType
  <2>1. say \in [Thread -> Seq(Line)]
    BY TheCalls DEF Init, TraceInit
  <2>2. log \in [Output -> Seq(Part)]
    BY DEF Init, TraceInit
  <2>3. TraceTypeOK
    BY <1>1 DEF Init, TraceInit, TraceTypeOK
  <2> QED BY <1>1, <2>1, <2>2, <2>3 DEF LogType
<1>3. Turns /\ Halves /\ LinesAreWhole
  BY DEF Init, TraceInit, Turns, Halves, LinesAreWhole
<1>4. MainType /\ Phases
  BY DEF Init, MainType, Phases, Worker
<1> QED BY <1>2, <1>3, <1>4 DEF IInv, LogInv

LEMMA MainThreadInv == IInv /\ MainThread => IInv'
<1> SUFFICES ASSUME IInv, MainThread PROVE IInv'
  OBVIOUS
<1> USE Threads DEF IInv
<1>1. CASE Start
  <2>1. LogInv'
    BY <1>1, SaysInv, TheCalls DEF Start
  <2>2. MainType' /\ Phases'
    BY <1>1 DEF Start, MainType, Phases, Worker
  <2> QED BY <2>1, <2>2
<1>2. CASE LoadProfiles
  <2>1. LogInv'
    <3>1. PICK lines \in Seq(Line) : Says(main, lines)
      BY <1>2, WhatLoadSays
    <3> QED BY <1>2, <3>1, SaysInv DEF LoadProfiles
  <2>2. \A w \in Worker : worker[w] = "off"
    <3>1. launched = 0
      BY <1>2 DEF LoadProfiles, Phases
    <3>2. \A w \in Worker : w > 0
      BY DEF Worker
    <3> QED BY <3>1, <3>2 DEF Phases
  <2>3. MainType'
    BY <1>2 DEF LoadProfiles, MainType
  <2>4. Phases'
    <3>1. worker' = worker /\ launched' = launched
      BY <1>2 DEF LoadProfiles
    <3>2. \/ at' = "launch" /\ profiles' = "there"
          \/ at' = "exit"
      BY <1>2 DEF LoadProfiles
    <3> QED BY <2>2, <3>1, <3>2 DEF Phases
  <2> QED BY <2>1, <2>3, <2>4
<1>3. CASE Launch
  <2>1. LogInv'
    BY <1>3, SilentInv DEF Launch
  <2>2. launched' \in 0..Workers /\ launched' = launched + 1 /\ launched' \in Worker
    BY <1>3 DEF Launch, MainType, Worker
  <2>3. \A w \in Worker \ {launched'} : worker'[w] = worker[w]
    BY <1>3, <2>2 DEF Launch, MainType
  <2>4. MainType'
    BY <1>3, <2>2 DEF Launch, MainType
  <2>5. Phases'
    BY <1>3, <2>2, <2>3 DEF Launch, Phases, MainType, Worker
  <2> QED BY <2>1, <2>4, <2>5
<1>4. CASE LaunchFails
  <2>1. LogInv'
    BY <1>4, SilentInv DEF LaunchFails
  <2>2. MainType' /\ Phases'
    BY <1>4 DEF LaunchFails, MainType, Phases, Worker
  <2> QED BY <2>1, <2>2
<1>5. CASE Finish
  <2>1. (IF at = "unwind" THEN <<Exception(0)>> ELSE <<>>) \in Seq(Line)
    BY TheCalls
  <2>2. LogInv'
    BY <1>5, <2>1, SaysInv DEF Finish
  <2>3. \A w \in Worker : w > launched => worker[w] = "off"
    BY DEF Phases
  <2>4. \A w \in Worker : w \in 1..launched => worker[w] = "over"
    BY <1>5 DEF Finish
  <2>5. \A w \in Worker : worker[w] \in {"off", "over"}
    BY <2>3, <2>4 DEF MainType, Worker
  <2>6. MainType' /\ Phases'
    BY <1>5, <2>3, <2>5 DEF Finish, MainType, Phases
  <2> QED BY <2>2, <2>6
<1>6. CASE Message(main) /\ UNCHANGED mainVars
  <2>1. LogInv'
    BY <1>6, MessageInv
  <2>2. MainType' /\ Phases'
    BY <1>6 DEF mainVars, MainType, Phases
  <2> QED BY <2>1, <2>2
<1> QED BY <1>1, <1>2, <1>3, <1>4, <1>5, <1>6 DEF MainThread

(* What a worker that goes on may have changed *)
LEMMA GoesInv ==
  ASSUME IInv, LogInv', NEW w \in Worker, NEW from, NEW to, from # "off", from # "over",
         to \in {"param", "poll", "lock", "handle", "unlock", "over"},
         Goes(w, from, to), UNCHANGED <<at, launched, profiles>>,
         rounds' \in [Worker -> 0..MaxRounds], mutex' \in Worker \union {NoThread}
  PROVE  IInv'
<1>1. /\ worker'[w] = to /\ worker[w] = from
      /\ \A v \in Worker \ {w} : worker'[v] = worker[v]
  BY DEF IInv, MainType, Goes
<1>2. MainType'
  BY <1>1 DEF IInv, MainType, Goes
<1>3. Phases'
  BY <1>1 DEF IInv, MainType, Phases
<1> QED BY <1>2, <1>3 DEF IInv

LEMMA WorkerInv == ASSUME NEW w \in Worker PROVE IInv /\ WorkerThread(w) => IInv'
<1> SUFFICES ASSUME IInv, WorkerThread(w) PROVE IInv'
  OBVIOUS
<1>1. w \in Thread /\ LogInv /\ MainType
  BY Threads DEF IInv
<1>2. CASE Connect(w)
  <2>1. CASE Goes(w, "connect", "over") /\ Says(w, <<Exception(0)>>)
    <3>1. LogInv'
      BY <1>1, <2>1, SaysInv, TheCalls DEF Goes
    <3> QED BY <1>1, <1>2, <2>1, <3>1, GoesInv DEF Connect, MainType
  <2>2. CASE Goes(w, "connect", "param") /\ Says(w, <<<<"on_connected">>>>)
    <3>1. LogInv'
      BY <1>1, <2>2, SaysInv, TheCalls DEF Goes
    <3> QED BY <1>1, <1>2, <2>2, <3>1, GoesInv DEF Connect, MainType
  <2> QED BY <1>2, <2>1, <2>2 DEF Connect
<1>3. CASE Param(w)
  <2>1. CASE Goes(w, "param", "over") /\ Says(w, <<<<"on_disconnected">>, Exception(0)>>)
    <3>1. LogInv'
      BY <1>1, <2>1, SaysInv, TheCalls DEF Goes
    <3> QED BY <1>1, <1>3, <2>1, <3>1, GoesInv DEF Param, MainType
  <2>2. CASE Goes(w, "param", "poll") /\ UNCHANGED traceVars
    <3>1. LogInv'
      BY <1>1, <2>2, SilentInv
    <3> QED BY <1>1, <1>3, <2>2, <3>1, GoesInv DEF Param, MainType
  <2> QED BY <1>3, <2>1, <2>2 DEF Param
<1>4. CASE Poll(w)
  <2>1. LogInv'
    BY <1>1, <1>4, SilentInv DEF Poll
  <2>2. rounds' \in [Worker -> 0..MaxRounds]
    BY <1>1, <1>4 DEF Poll, MainType
  <2> QED BY <1>1, <1>4, <2>1, <2>2, GoesInv DEF Poll, MainType
<1>5. CASE Lock(w)
  <2>1. LogInv'
    BY <1>1, <1>5, SaysInv, DumpType DEF Lock, Goes
  <2> QED BY <1>1, <1>5, <2>1, GoesInv DEF Lock, MainType
<1>6. CASE Handle(w)
  <2>1. rounds[w] \in 0..MaxRounds
    BY <1>1 DEF MainType
  <2> DEFINE q == <<"request", rounds[w]>>
             p == <<"response", rounds[w]>>
             e == Exception(rounds[w])
  <2>2. q \in Line /\ p \in Line /\ e \in Line
    BY <2>1, TheLines
  <2> HIDE DEF q, p, e
  <2>3. /\ <<>> \in Seq(Line) /\ <<e>> \in Seq(Line)
        /\ <<q, e>> \in Seq(Line) /\ <<q, p>> \in Seq(Line)
    BY <2>2
  <2>4. PICK lines \in {<<>>, <<e>>, <<q, e>>, <<q, p>>} : Says(w, lines)
    BY <1>6 DEF Handle, q, p, e
  <2>5. LogInv'
    BY <1>1, <1>6, <2>3, <2>4, SaysInv DEF Handle, Goes
  <2> QED BY <1>1, <1>6, <2>5, GoesInv DEF Handle, MainType
<1>7. CASE Unlock(w)
  <2>1. LogInv'
    BY <1>1, <1>7, SilentInv DEF Unlock
  <2> QED BY <1>1, <1>7, <2>1, GoesInv DEF Unlock, MainType
<1>8. CASE Message(w) /\ UNCHANGED mainVars
  <2>1. LogInv'
    BY <1>1, <1>8, MessageInv
  <2>2. MainType' /\ Phases'
    BY <1>8 DEF IInv, mainVars, MainType, Phases
  <2> QED BY <2>1, <2>2 DEF IInv
<1> QED BY <1>2, <1>3, <1>4, <1>5, <1>6, <1>7, <1>8 DEF WorkerThread

LEMMA UnchangedInv == IInv /\ UNCHANGED vars => IInv'
<1> SUFFICES ASSUME IInv, UNCHANGED vars PROVE IInv'
  OBVIOUS
<1>1. LogInv'
  BY SilentInv DEF IInv, vars
<1>2. MainType' /\ Phases'
  BY DEF IInv, vars, mainVars, MainType, Phases
<1> QED BY <1>1, <1>2 DEF IInv

LEMMA Invariant == Spec => []IInv
<1>1. IInv /\ [Next]_vars => IInv'
  BY MainThreadInv, WorkerInv, UnchangedInv DEF Next, AtEnd
<1> QED BY <1>1, InitInv, PTL DEF Spec

-----------------------------------------------------------------------------
(* The order of the two outputs and the dumps, step by step *)

WholeInv == OutputInv /\ Told /\ Dumping /\ AllPlaced

LEMMA PlacedIsWhole == AllPlaced => DumpsAreWhole
  BY DEF AllPlaced, Placed, IsRow, DumpsAreWhole, Console

LEMMA LineIs ==
  ASSUME NEW line \in Line
  PROVE  /\ line[1] \in {"on_data_available", "request", "response", "exception"} =>
              line[2] \in 0..MaxRounds
         /\ line[1] = "on_data_available" => line[3] \in 0..MaxRows
<1>1. ASSUME NEW word \in {"Application start", "general read", "config read",
                            "on_connected", "on_disconnected"}, line = <<word>>
      PROVE  line[1] \notin {"on_data_available", "request", "response", "exception"}
  <2>1. <<word>>[1] = word
    OBVIOUS
  <2>2. line[1] = word
    BY <1>1, <2>1
  <2> QED BY <2>2
<1>2. CASE line \in {"exception", "request", "response"} \X (0..MaxRounds)
  BY <1>2
<1>3. CASE line \in {"on_data_available"} \X (0..MaxRounds) \X (0..MaxRows)
  BY <1>3
<1> QED BY <1>1, <1>2, <1>3 DEF Line

LEMMA ConsoleIs ==
  ASSUME LogInv
  PROVE  /\ Len(Console) \in Nat /\ DOMAIN Console = 1..Len(Console)
         /\ \A i \in DOMAIN Console : /\ Console[i][1] \in Thread /\ Console[i][2] \in Line
                                      /\ Console[i] = <<Console[i][1], Console[i][2]>>
<1>1. Console \in Seq(Thread \X Line)
  BY OutputTypes
<1>2. Len(Console) \in Nat /\ DOMAIN Console = 1..Len(Console)
  BY <1>1, LenProperties
<1>3. \A i \in DOMAIN Console : Console[i] \in Thread \X Line
  BY <1>1, <1>2, ElementOfSeq
<1> QED BY <1>2, <1>3

(* What has not been said yet is not on the console *)
LEMMA NewLines ==
  ASSUME LogInv, Told, NEW t \in Thread, NEW line, ~Past(t, line)
  PROVE  <<t, line>> \notin All(Console)
<1> SUFFICES ASSUME NEW i \in DOMAIN Console, Console[i] = <<t, line>> PROVE FALSE
  BY DEF All
<1>1. Console[i][1] = t /\ Console[i][2] = line
  OBVIOUS
<1>2. Past(Console[i][1], Console[i][2])
  BY DEF Told
<1> QED BY <1>1, <1>2

LEMMA PastKeeps ==
  ASSUME at' = at, worker' = worker, rounds' = rounds
  PROVE  \A t : \A line : Past(t, line)' <=> Past(t, line)
<1>1. \A line : MainPast(line)' <=> MainPast(line)
  BY DEF MainPast
<1>2. \A w : \A line : WorkerPast(w, line)' <=> WorkerPast(w, line)
  BY DEF WorkerPast
<1> QED BY <1>1, <1>2 DEF Past

(* Steps that put nothing on the console and say nothing *)
LEMMA QuietWhole ==
  ASSUME LogInv, WholeInv, OutputInv', Console' = Console, say' = say, Holds',
         \A t \in Thread : \A line \in Line : Past(t, line) => Past(t, line)',
         \A w \in Worker : /\ worker[w] = "handle" <=> worker'[w] = "handle"
                           /\ worker'[w] = "handle" => rounds'[w] = rounds[w]
  PROVE  WholeInv'
<1>2. Told'
  <2>1. \A i \in DOMAIN Console : Past(Console[i][1], Console[i][2])'
    BY ConsoleIs DEF WholeInv, Told
  <2>2. \A t \in Thread : ToldOf(t)'
    BY SayTypes, ElementOfSeq DEF WholeInv, Told, ToldOf
  <2> QED BY <2>1, <2>2 DEF Told
<1>3. Dumping'
  <2>1. \A t \in Thread : RowsOf(t)'
    BY DEF WholeInv, Dumping, RowsOf
  <2>2. \A w \in Worker : DumpOf(w)'
    BY DEF WholeInv, Dumping, DumpOf, Follows
  <2> QED BY <2>1, <2>2 DEF Dumping
<1>4. AllPlaced'
  BY DEF WholeInv, AllPlaced, Placed
<1> QED BY <1>2, <1>3, <1>4 DEF WholeInv

LEMMA SilentWhole ==
  ASSUME LogInv, WholeInv, UNCHANGED traceVars, Holds',
         \A t \in Thread : \A line \in Line : Past(t, line) => Past(t, line)',
         \A w \in Worker : /\ worker[w] = "handle" <=> worker'[w] = "handle"
                           /\ worker'[w] = "handle" => rounds'[w] = rounds[w]
  PROVE  WholeInv'
<1>1. OutputInv' /\ Console' = Console /\ say' = say
  BY SilentOutputs, SameLog DEF WholeInv, traceVars
<1> QED BY <1>1, QuietWhole

(* Steps that say new lines *)
LEMMA SaysWhole ==
  ASSUME LogInv, WholeInv, NEW t \in Thread, Quiet(t), NEW lines \in Seq(Line), Says(t, lines),
         Holds', Distinct(lines),
         \A i \in DOMAIN lines : ~Past(t, lines[i]) /\ Past(t, lines[i])',
         \A u \in Thread : \A line \in Line : Past(u, line) => Past(u, line)',
         \A w \in Worker \ {t} : worker'[w] = worker[w] /\ rounds'[w] = rounds[w],
         \A i \in DOMAIN lines : IsRow(lines[i]) => t \in Worker /\ worker'[t] = "handle",
         t \in Worker /\ worker'[t] = "handle" =>
           \A i \in DOMAIN lines : lines[i] = <<"on_data_available", rounds'[t], i - 1>>
  PROVE  WholeInv'
<1>1. OutputInv'
  BY NewLines, SaysOutputs DEF WholeInv
<1>2. Console' = Console
  BY SameLog DEF Says
<1>3. say'[t] = lines /\ \A u \in Thread \ {t} : say'[u] = say[u]
  BY DEF LogInv, LogType, Says
<1>4. Told'
  <2>1. \A i \in DOMAIN Console : Past(Console[i][1], Console[i][2])'
    BY <1>2, ConsoleIs DEF WholeInv, Told
  <2>2. ToldOf(t)'
    BY <1>3 DEF ToldOf
  <2>3. ASSUME NEW u \in Thread \ {t} PROVE ToldOf(u)'
    <3>1. \A i \in DOMAIN say[u] : Past(u, say[u][i]) /\ say[u][i] \in Line
      BY SayTypes, ElementOfSeq DEF WholeInv, Told, ToldOf
    <3> QED BY <1>3, <3>1 DEF ToldOf
  <2> QED BY <1>2, <2>1, <2>2, <2>3 DEF Told
<1>5. Dumping'
  <2>1. \A u \in Thread : RowsOf(u)'
    BY <1>3 DEF WholeInv, Dumping, RowsOf
  <2>2. ASSUME NEW w \in Worker, w = t PROVE DumpOf(w)'
    <3> SUFFICES ASSUME worker'[t] = "handle"
                 PROVE  /\ \A i \in DOMAIN lines : lines[i] =
                             <<"on_data_available", rounds'[t], lines[1][3] + (i - 1)>>
                        /\ ~(lines # <<>> /\ lines[1][3] > 0)
      BY <1>3, <2>2 DEF DumpOf
    <3>1. DOMAIN lines = 1..Len(lines) /\ Len(lines) \in Nat
      BY LenProperties
    <3>2. \A i \in DOMAIN lines : lines[i] = <<"on_data_available", rounds'[t], i - 1>>
      BY <2>2
    <3>3. 1 \in DOMAIN lines => lines[1][3] = 0
      BY <3>2
    <3>4. lines # <<>> => 1 \in DOMAIN lines
      BY <3>1, EmptySeq
    <3>5. ASSUME NEW i \in DOMAIN lines PROVE lines[1][3] + (i - 1) = i - 1
      BY <3>1, <3>3
    <3>6. \A i \in DOMAIN lines : lines[i] =
             <<"on_data_available", rounds'[t], lines[1][3] + (i - 1)>>
      BY <3>2, <3>5
    <3>7. ~(lines # <<>> /\ lines[1][3] > 0)
      BY <3>3, <3>4
    <3> QED BY <3>6, <3>7
  <2>3. ASSUME NEW w \in Worker, w # t PROVE DumpOf(w)'
    <3>1. say'[w] = say[w] /\ worker'[w] = worker[w] /\ rounds'[w] = rounds[w]
      BY <1>3, <2>3, Threads
    <3>2. Follows(w, say[w][1][3])' = Follows(w, say[w][1][3])
      BY <1>2, <3>1 DEF Follows
    <3> QED BY <3>1, <3>2 DEF WholeInv, Dumping, DumpOf
  <2> QED BY <2>1, <2>2, <2>3 DEF Dumping
<1>6. AllPlaced'
  BY <1>2 DEF WholeInv, AllPlaced, Placed
<1> QED BY <1>1, <1>4, <1>5, <1>6 DEF WholeInv

(* A line is complete on the console *)
LEMMA RestWhole ==
  ASSUME LogInv, WholeInv, NEW t \in Thread, Rest(t), Current(t) = "console", UNCHANGED mainVars
  PROVE  WholeInv'
<1> DEFINE line == Head(say[t])
           m == Len(Console)
<1>1. /\ OutputInv' /\ Console' = Append(Console, <<t, line>>)
      /\ say[t] # <<>> /\ say' = [say EXCEPT ![t] = Tail(@)]
  BY RestOnConsole DEF WholeInv
<1>2. /\ say'[t] = Tail(say[t]) /\ \A u \in Thread \ {t} : say'[u] = say[u]
  BY <1>1 DEF LogInv, LogType
<1>3. /\ line \in Line /\ line = say[t][1] /\ 1 \in DOMAIN say[t]
      /\ \A i \in DOMAIN say'[t] : /\ i \in Nat /\ i + 1 \in DOMAIN say[t]
                                   /\ say'[t][i] = say[t][i + 1]
  <2>1. line \in Line /\ line = say[t][1] /\ 1 \in DOMAIN say[t]
    BY <1>1, SayTypes, HeadType DEF LogInv
  <2>2. /\ Len(say[t]) \in Nat /\ DOMAIN say[t] = 1..Len(say[t])
        /\ DOMAIN say'[t] = 1..(Len(say[t]) - 1)
        /\ \A i \in 1..(Len(say[t]) - 1) : say'[t][i] = say[t][i + 1]
    <3>1. /\ Len(say[t]) \in Nat /\ DOMAIN say[t] = 1..Len(say[t])
          /\ DOMAIN Tail(say[t]) = 1..(Len(say[t]) - 1)
          /\ \A i \in 1..(Len(say[t]) - 1) : Tail(say[t])[i] = say[t][i + 1]
      BY <1>1, SayTypes, Zenon
    <3>2. say'[t] = Tail(say[t])
      BY <1>2
    <3> QED BY <3>1, <3>2, Zenon
  <2>3. \A i \in 1..(Len(say[t]) - 1) : i \in Nat /\ i + 1 \in 1..Len(say[t])
    BY <2>2
  <2> QED BY <2>1, <2>2, <2>3
<1>4. <<t, line>> \in Thread \X Line
  BY <1>3
<1>5. /\ m \in Nat /\ DOMAIN Console = 1..m /\ DOMAIN Console' = 1..(m + 1)
      /\ \A i \in 1..m : Console'[i] = Console[i]
      /\ Console'[m + 1] = <<t, line>>
  BY <1>1, <1>4, OutputTypes, Adds
<1>6. <<t, line>> \notin All(Console)
  BY <1>3 DEF WholeInv, OutputInv, Once
<1>7. \A u : \A l : Past(u, l)' <=> Past(u, l)
  BY PastKeeps DEF mainVars
<1> HIDE DEF line, m
<1>8. Told'
  <2>1. Past(t, line)
    BY <1>3 DEF WholeInv, Told, ToldOf
  <2>2. \A i \in DOMAIN Console' : Past(Console'[i][1], Console'[i][2])
    BY <1>5, <2>1 DEF WholeInv, Told
  <2>3. \A u \in Thread : \A i \in DOMAIN say'[u] : Past(u, say'[u][i])
    <3>1. \A i \in DOMAIN say[t] : Past(t, say[t][i])
      BY DEF WholeInv, Told, ToldOf
    <3>2. \A i \in DOMAIN say'[t] : Past(t, say'[t][i])
      BY <1>3, <3>1
    <3>3. \A u \in Thread \ {t} : \A i \in DOMAIN say'[u] : Past(u, say'[u][i])
      BY <1>2 DEF WholeInv, Told, ToldOf
    <3> QED BY <3>2, <3>3
  <2> QED BY <1>7, <2>2, <2>3 DEF Told, ToldOf
<1>9. IsRow(line) => /\ t \in Worker /\ worker[t] = "handle" /\ mutex = t
                     /\ line = <<"on_data_available", rounds[t], line[3]>>
                     /\ line[3] \in 0..MaxRows
                     /\ line[3] > 0 => Follows(t, line[3])
  <2> SUFFICES ASSUME IsRow(line)
               PROVE  /\ t \in Worker /\ worker[t] = "handle" /\ mutex = t
                      /\ line = <<"on_data_available", rounds[t], line[3]>>
                      /\ line[3] \in 0..MaxRows
                      /\ line[3] > 0 => Follows(t, line[3])
    OBVIOUS
  <2>1. t \in Worker /\ worker[t] = "handle"
    BY <1>3 DEF WholeInv, Dumping, RowsOf
  <2>2. mutex = t
    BY <2>1 DEF WholeInv, Dumping, Holds
  <2>3. line[3] \in 0..MaxRows
    BY <1>3, LineIs DEF IsRow
  <2>4. DumpOf(t)
    BY <2>1 DEF WholeInv, Dumping
  <2>5. line = <<"on_data_available", rounds[t], line[3] + (1 - 1)>>
    BY <1>3, <2>1, <2>4 DEF DumpOf
  <2>6. line[3] + (1 - 1) = line[3]
    BY <2>3
  <2>7. line[3] > 0 => Follows(t, line[3])
    BY <1>1, <1>3, <2>1, <2>4 DEF DumpOf
  <2> QED BY <2>1, <2>2, <2>3, <2>5, <2>6, <2>7
<1>10. /\ worker' = worker /\ rounds' = rounds /\ mutex' = mutex
  BY DEF mainVars
<1>11. Dumping'
  <2>1. Holds'
    BY <1>10 DEF WholeInv, Dumping, Holds
  <2>2. \A u \in Thread : RowsOf(u)'
    <3>1. RowsOf(t)'
      BY <1>2, <1>3, <1>10 DEF WholeInv, Dumping, RowsOf
    <3>2. ASSUME NEW u \in Thread \ {t} PROVE RowsOf(u)'
      BY <1>2, <1>10 DEF WholeInv, Dumping, RowsOf
    <3> QED BY <3>1, <3>2
  <2>3. ASSUME NEW w \in Worker, w = t PROVE DumpOf(w)'
    <3> SUFFICES ASSUME worker[t] = "handle"
                 PROVE  /\ \A i \in DOMAIN say'[t] : say'[t][i] =
                             <<"on_data_available", rounds[t], say'[t][1][3] + (i - 1)>>
                        /\ say'[t] # <<>> => \E i \in DOMAIN Console' :
                             /\ Console'[i] =
                                  <<t, <<"on_data_available", rounds[t], say'[t][1][3] - 1>>>>
                             /\ \A j \in DOMAIN Console' : j > i => ~IsRow(Console'[j][2])
      BY <1>10, <2>3 DEF DumpOf, Follows
    <3>1. \A i \in DOMAIN say[t] : say[t][i] =
             <<"on_data_available", rounds[t], line[3] + (i - 1)>>
      BY <1>3, <2>3 DEF WholeInv, Dumping, DumpOf
    <3>2. line[1] = "on_data_available"
      BY <1>3, <3>1
    <3>3. /\ line = <<"on_data_available", rounds[t], line[3]>>
          /\ line[3] \in 0..MaxRows
      BY <1>9, <3>2 DEF IsRow
    <3>4. \A i \in DOMAIN say'[t] : say'[t][i] =
             <<"on_data_available", rounds[t], line[3] + i>>
      <4> SUFFICES ASSUME NEW i \in DOMAIN say'[t]
                   PROVE  say'[t][i] = <<"on_data_available", rounds[t], line[3] + i>>
        OBVIOUS
      <4>1. say'[t][i] = <<"on_data_available", rounds[t], line[3] + ((i + 1) - 1)>>
        BY <1>3, <3>1
      <4>2. i \in Nat /\ line[3] + ((i + 1) - 1) = line[3] + i
        BY <1>3, <3>3
      <4> QED BY <4>1, <4>2
    <3>5. 1 \in DOMAIN say'[t] => say'[t][1][3] = line[3] + 1
      BY <3>4
    <3>6. \A i \in DOMAIN say'[t] : 1 \in DOMAIN say'[t]
      BY <1>1, <1>2, SayTypes
    <3>7. \A i \in DOMAIN say'[t] : say'[t][i] =
             <<"on_data_available", rounds[t], say'[t][1][3] + (i - 1)>>
      <4> SUFFICES ASSUME NEW i \in DOMAIN say'[t]
                   PROVE  say'[t][i] =
                            <<"on_data_available", rounds[t], say'[t][1][3] + (i - 1)>>
        OBVIOUS
      <4>1. say'[t][1][3] = line[3] + 1 /\ i \in Nat
        BY <1>3, <3>5, <3>6
      <4>2. (line[3] + 1) + (i - 1) = line[3] + i
        BY <3>3, <4>1
      <4> QED BY <3>4, <4>1, <4>2
    <3>8. ASSUME say'[t] # <<>>
          PROVE  \E i \in DOMAIN Console' :
                   /\ Console'[i] =
                        <<t, <<"on_data_available", rounds[t], say'[t][1][3] - 1>>>>
                   /\ \A j \in DOMAIN Console' : j > i => ~IsRow(Console'[j][2])
      <4>1. 1 \in DOMAIN say'[t]
        <5>1. say'[t] \in Seq(Line)
          BY <1>1, <1>2, HeadType DEF LogInv
        <5>2. Len(say'[t]) \in Nat /\ DOMAIN say'[t] = 1..Len(say'[t]) /\ Len(say'[t]) # 0
          BY <3>8, <5>1, LenProperties, EmptySeq
        <5> QED BY <5>2
      <4>2. say'[t][1][3] - 1 = line[3]
        BY <3>3, <3>5, <4>1
      <4>3. Console'[m + 1] = <<t, <<"on_data_available", rounds[t], say'[t][1][3] - 1>>>>
        BY <1>5, <3>3, <4>2
      <4>4. \A j \in DOMAIN Console' : j > m + 1 => ~IsRow(Console'[j][2])
        BY <1>5
      <4>5. m + 1 \in DOMAIN Console'
        BY <1>5
      <4> QED BY <4>3, <4>4, <4>5
    <3> QED BY <3>7, <3>8
  <2>4. ASSUME NEW w \in Worker, w # t PROVE DumpOf(w)'
    <3> SUFFICES ASSUME worker[w] = "handle" PROVE DumpOf(w)'
      BY <1>10 DEF DumpOf
    <3>1. ~IsRow(line)
      BY <1>9, <2>4 DEF WholeInv, Dumping, Holds
    <3>2. say'[w] = say[w]
      BY <1>2, <2>4, Threads
    <3>3. ASSUME NEW row, Follows(w, row) PROVE Follows(w, row)'
      <4>1. PICK i \in DOMAIN Console :
               /\ Console[i] = <<w, <<"on_data_available", rounds[w], row - 1>>>>
               /\ \A j \in DOMAIN Console : j > i => ~IsRow(Console[j][2])
        BY <3>3 DEF Follows
      <4>2. i \in DOMAIN Console' /\ Console'[i] = Console[i]
        BY <1>5
      <4>3. \A j \in DOMAIN Console' : j > i => ~IsRow(Console'[j][2])
        BY <1>5, <3>1, <4>1
      <4> QED BY <1>10, <4>1, <4>2, <4>3 DEF Follows
    <3>4. DumpOf(w)
      BY DEF WholeInv, Dumping
    <3>5. Follows(w, say[w][1][3]) => Follows(w, say[w][1][3])'
      BY <1>10, <3>2, <3>3 DEF Follows
    <3> QED BY <1>10, <3>2, <3>4, <3>5 DEF DumpOf
  <2> QED BY <2>1, <2>2, <2>3, <2>4 DEF Dumping
<1>12. AllPlaced'
  <2> SUFFICES ASSUME NEW k \in DOMAIN Console', IsRow(Console'[k][2])
               PROVE  /\ \A i \in 1..(k - 1) : Console'[i] # Console'[k]
                      /\ Console'[k][2][3] > 0 => \E i \in 1..(k - 1) :
                           /\ IsRow(Console'[i][2])
                           /\ Console'[i][1] = Console'[k][1]
                           /\ Console'[i][2][2] = Console'[k][2][2]
                           /\ Console'[i][2][3] = Console'[k][2][3] - 1
                           /\ \A j \in (i + 1)..(k - 1) : ~IsRow(Console'[j][2])
    BY DEF AllPlaced, Placed
  <2>1. CASE k \in 1..m
    <3>1. Placed(Console, k)
      BY <1>5, <2>1 DEF WholeInv, AllPlaced
    <3>2. \A i \in 1..k : i \in 1..m /\ Console'[i] = Console[i]
      BY <1>5, <2>1
    <3>3. \A i \in 1..(k - 1) : i \in 1..k
      BY <1>5, <2>1
    <3>4. k \in 1..k
      BY <1>5, <2>1
    <3>5. IsRow(Console[k][2])
      BY <3>2, <3>4
    <3>6. \A i \in 1..(k - 1) : Console'[i] # Console'[k]
      BY <3>1, <3>2, <3>3, <3>4, <3>5 DEF Placed
    <3>7. ASSUME Console'[k][2][3] > 0
          PROVE  \E i \in 1..(k - 1) :
                   /\ IsRow(Console'[i][2])
                   /\ Console'[i][1] = Console'[k][1]
                   /\ Console'[i][2][2] = Console'[k][2][2]
                   /\ Console'[i][2][3] = Console'[k][2][3] - 1
                   /\ \A j \in (i + 1)..(k - 1) : ~IsRow(Console'[j][2])
      <4>1. PICK i \in 1..(k - 1) :
               /\ IsRow(Console[i][2])
               /\ Console[i][1] = Console[k][1] /\ Console[i][2][2] = Console[k][2][2]
               /\ Console[i][2][3] = Console[k][2][3] - 1
               /\ \A j \in (i + 1)..(k - 1) : ~IsRow(Console[j][2])
        BY <3>1, <3>2, <3>4, <3>5, <3>7 DEF Placed
      <4>2. \A j \in (i + 1)..(k - 1) : Console'[j] = Console[j]
        BY <1>5, <2>1
      <4>3. Console'[i] = Console[i] /\ Console'[k] = Console[k]
        BY <3>2, <3>3, <3>4
      <4> QED BY <4>1, <4>2, <4>3
    <3> QED BY <3>6, <3>7
  <2>2. CASE k = m + 1
    <3>1. Console'[k] = <<t, line>> /\ Console'[k][1] = t /\ Console'[k][2] = line
      BY <1>5, <2>2
    <3>2. \A i \in 1..(k - 1) : i \in 1..m /\ i \in DOMAIN Console /\ Console'[i] = Console[i]
      BY <1>5, <2>2
    <3>3. \A i \in 1..(k - 1) : Console'[i] # Console'[k]
      BY <1>6, <3>1, <3>2 DEF All
    <3>4. ASSUME line[3] > 0
          PROVE  \E i \in 1..(k - 1) :
                   /\ IsRow(Console'[i][2])
                   /\ Console'[i][1] = Console'[k][1]
                   /\ Console'[i][2][2] = Console'[k][2][2]
                   /\ Console'[i][2][3] = Console'[k][2][3] - 1
                   /\ \A j \in (i + 1)..(k - 1) : ~IsRow(Console'[j][2])
      <4>1. /\ Follows(t, line[3]) /\ line[2] = rounds[t]
        BY <1>9, <3>1, <3>4
      <4>2. PICK i \in DOMAIN Console :
               /\ Console[i] = <<t, <<"on_data_available", rounds[t], line[3] - 1>>>>
               /\ \A j \in DOMAIN Console : j > i => ~IsRow(Console[j][2])
        BY <4>1 DEF Follows
      <4>3. i \in 1..(k - 1) /\ Console'[i] = Console[i]
        BY <1>5, <2>2
      <4>4. /\ Console'[i][1] = t /\ IsRow(Console'[i][2])
            /\ Console'[i][2][2] = rounds[t] /\ Console'[i][2][3] = line[3] - 1
        BY <4>2, <4>3 DEF IsRow
      <4>5. \A j \in (i + 1)..(k - 1) : ~IsRow(Console'[j][2])
        <5> SUFFICES ASSUME NEW j \in (i + 1)..(k - 1) PROVE ~IsRow(Console'[j][2])
          OBVIOUS
        <5>1. j \in DOMAIN Console /\ j > i /\ j \in 1..(k - 1)
          BY <1>5, <2>2, <4>3
        <5> QED BY <3>2, <4>2, <5>1
      <4> QED BY <3>1, <4>1, <4>3, <4>4, <4>5
    <3> QED BY <3>1, <3>3, <3>4
  <2> QED BY <1>5, <2>1, <2>2
<1> QED BY <1>1, <1>8, <1>11, <1>12 DEF WholeInv

LEMMA MessageWhole ==
  ASSUME LogInv, WholeInv, NEW t \in Thread, Message(t), UNCHANGED mainVars
  PROVE  WholeInv'
<1>1. CASE Rest(t) /\ Current(t) = "console"
  BY <1>1, RestWhole
<1>2. CASE ~(Rest(t) /\ Current(t) = "console")
  <2>1. OutputInv'
    BY MessageOutputs DEF WholeInv
  <2>2. Current(t) \in {"file", "console"}
    BY DEF Current
  <2>3. Console' = Console /\ say' = say
    <3>1. CASE Enter(t)
      BY <3>1, SameLog DEF Enter
    <3>2. CASE Header(t)
      BY <3>2, HeaderLogs DEF Header
    <3>3. CASE FileMisses(t)
      BY <3>3, SameLog DEF FileMisses
    <3>4. CASE Rest(t)
      BY <1>2, <2>2, <3>4, RestInFile DEF WholeInv
    <3> QED BY <3>1, <3>2, <3>3, <3>4 DEF Message
  <2>4. Holds'
    BY DEF WholeInv, Dumping, Holds, mainVars
  <2>5. \A u \in Thread : \A line \in Line : Past(u, line) => Past(u, line)'
    BY PastKeeps DEF mainVars
  <2>6. worker' = worker /\ rounds' = rounds
    BY DEF mainVars
  <2> QED BY <2>1, <2>3, <2>4, <2>5, <2>6, QuietWhole
<1> QED BY <1>1, <1>2

(* Who main and the workers are to Past *)
LEMMA PastIs == /\ \A line : Past(main, line) <=> MainPast(line)
                /\ \A w \in Worker : \A line : Past(w, line) <=> WorkerPast(w, line)
  BY DEF Past

LEMMA PastIsNext == /\ \A line : Past(main, line)' <=> MainPast(line)'
                    /\ \A w \in Worker : \A line : Past(w, line)' <=> WorkerPast(w, line)'
  BY DEF Past

(* Main logs *)
LEMMA MainSays ==
  ASSUME LogInv, WholeInv, Quiet(main), NEW lines \in Seq(Line), Says(main, lines),
         Distinct(lines), \A i \in DOMAIN lines : ~MainPast(lines[i]) /\ MainPast(lines[i])',
         \A i \in DOMAIN lines : ~IsRow(lines[i]),
         \A line \in Line : MainPast(line) => MainPast(line)',
         worker' = worker, rounds' = rounds, mutex' = mutex
  PROVE  WholeInv'
<1>1. main \in Thread /\ main \notin Worker /\ Thread = Worker \union {main}
  OBVIOUS
<1>2. Holds'
  BY DEF WholeInv, Dumping, Holds
<1>3. \A i \in DOMAIN lines : ~Past(main, lines[i]) /\ Past(main, lines[i])'
  BY PastIs, PastIsNext
<1>4. \A u \in Thread : \A line \in Line : Past(u, line) => Past(u, line)'
  <2>1. \A w \in Worker : \A line : WorkerPast(w, line)' <=> WorkerPast(w, line)
    BY DEF WorkerPast
  <2> QED BY <1>1, <2>1, PastIs, PastIsNext
<1> QED BY <1>1, <1>2, <1>3, <1>4, SaysWhole

(* A worker goes on and logs *)
LEMMA WorkerSays ==
  ASSUME IInv, WholeInv, NEW w \in Worker, NEW from, NEW to, Goes(w, from, to),
         NEW lines \in Seq(Line), Says(w, lines), at' = at, rounds' = rounds, Holds',
         Distinct(lines),
         \A i \in DOMAIN lines : ~WorkerPast(w, lines[i]) /\ WorkerPast(w, lines[i])',
         \A line \in Line : WorkerPast(w, line) => WorkerPast(w, line)',
         \A i \in DOMAIN lines : IsRow(lines[i]) => to = "handle",
         to = "handle" =>
           \A i \in DOMAIN lines : lines[i] = <<"on_data_available", rounds[w], i - 1>>
  PROVE  WholeInv'
<1>1. w \in Thread /\ w # main /\ Thread = Worker \union {main} /\ LogInv /\ Quiet(w)
  BY DEF IInv, Goes
<1>2. worker'[w] = to /\ \A v \in Worker \ {w} : worker'[v] = worker[v]
  BY DEF IInv, MainType, Goes
<1>3. \A i \in DOMAIN lines : ~Past(w, lines[i]) /\ Past(w, lines[i])'
  BY PastIs, PastIsNext
<1>4. \A u \in Thread : \A line \in Line : Past(u, line) => Past(u, line)'
  <2>1. \A line : MainPast(line)' <=> MainPast(line)
    BY DEF MainPast
  <2>2. \A v \in Worker \ {w} : \A line : WorkerPast(v, line)' <=> WorkerPast(v, line)
    BY <1>2 DEF WorkerPast
  <2> QED BY <1>1, <2>1, <2>2, PastIs, PastIsNext
<1> QED BY <1>1, <1>2, <1>3, <1>4, SaysWhole

LEMMA InitWhole == Init => WholeInv
<1> SUFFICES ASSUME Init PROVE WholeInv
  OBVIOUS
<1>1. IInv
  BY InitInv
<1>2. \A o \in Output : log[o] = <<>>
  BY DEF Init, TraceInit
<1>3. 0 \div 2 = 0
  OBVIOUS
<1>4. DOMAIN File = {} /\ DOMAIN Console = {}
  <2>1. \A o \in Output : Len(log[o]) = 0
    BY <1>2, EmptySeq
  <2>2. \A o \in Output : DOMAIN Logged(o) = 1..0
    BY <1>3, <2>1 DEF Logged
  <2> QED BY <2>2 DEF File, Console, Output
<1>5. All(File) = {} /\ All(Console) = {}
  BY <1>4 DEF All
<1>6. \A t \in Thread : say[t] = <<>> /\ operations[t] = {} /\ DOMAIN say[t] = {}
  BY DEF Init, TraceInit
<1>7. missed = {}
  BY DEF Init, TraceInit
<1>8. OutputInv
  BY <1>4, <1>5, <1>6, <1>7 DEF OutputInv, Twofold, Once, Same, SameOrder, Distinct
<1>9. Told
  BY <1>4, <1>6 DEF Told, ToldOf
<1>10. \A w \in Worker : worker[w] = "off"
  BY DEF Init
<1>11. Dumping
  BY <1>6, <1>10 DEF Dumping, Holds, RowsOf, DumpOf
<1>12. AllPlaced
  BY <1>4 DEF AllPlaced
<1> QED BY <1>8, <1>9, <1>11, <1>12 DEF WholeInv

LEMMA MainWhole == ASSUME IInv, WholeInv, MainThread PROVE WholeInv'
<1> USE DEF IInv
<1>1. CASE Start
  <2> DEFINE line == <<"Application start">>
             lines == <<line>>
  <2>1. lines \in Seq(Line) /\ Says(main, lines) /\ Quiet(main)
    BY <1>1, TheCalls DEF Start
  <2>2. Distinct(lines) /\ \A i \in DOMAIN lines : lines[i] = line
    BY OneLine, Zenon
  <2>3. ~MainPast(line) /\ MainPast(line)' /\ ~IsRow(line)
    BY <1>1 DEF Start, MainPast, IsRow
  <2>4. \A l \in Line : MainPast(l) => MainPast(l)'
    BY <1>1 DEF Start, MainPast
  <2> HIDE DEF lines
  <2> QED BY <1>1, <2>1, <2>2, <2>3, <2>4, MainSays DEF Start
<1>2. CASE LoadProfiles
  <2>1. at = "load" /\ Quiet(main) /\ worker' = worker /\ rounds' = rounds /\ mutex' = mutex
    BY <1>2 DEF LoadProfiles
  <2>2. PICK lines \in Seq(Line) :
           /\ Says(main, lines) /\ Distinct(lines)
           /\ \/ /\ at' = "launch" /\ profiles' = "there"
                 /\ \A i \in DOMAIN lines : lines[i] \in {<<"general read">>, <<"config read">>}
              \/ /\ at' = "exit"
                 /\ \A i \in DOMAIN lines : lines[i] \in {<<"general read">>, Exception(0)}
    BY <1>2, WhatLoadSays
  <2>3. ASSUME NEW line \in {<<"general read">>, <<"config read">>, Exception(0)},
               at' = "exit" \/ line # Exception(0)
        PROVE  ~MainPast(line) /\ MainPast(line)' /\ ~IsRow(line)
    <3>1. /\ line[1] \in {"general read", "config read", "exception"}
          /\ line # Exception(0) => line[1] \in {"general read", "config read"}
          /\ <<"Application start">>[1] = "Application start"
      <4>1. \A word, n : <<word>>[1] = word /\ <<word, n>>[1] = word
        OBVIOUS
      <4> QED BY <2>3, <4>1 DEF Exception
    <3>2. at' \in {"launch", "exit"}
      BY <2>2
    <3> QED BY <2>1, <2>3, <3>1, <3>2 DEF MainPast, IsRow
  <2>4. \A i \in DOMAIN lines : ~MainPast(lines[i]) /\ MainPast(lines[i])' /\ ~IsRow(lines[i])
    <3>1. <<"general read">> # Exception(0) /\ <<"config read">> # Exception(0)
      <4>1. /\ <<"general read">>[1] = "general read" /\ <<"config read">>[1] = "config read"
            /\ Exception(0)[1] = "exception"
        BY DEF Exception
      <4> QED BY <4>1
    <3>2. /\ at' = "launch" => \A i \in DOMAIN lines : lines[i] \in {<<"general read">>, <<"config read">>}
          /\ at' # "launch" => at' = "exit" /\ \A i \in DOMAIN lines : lines[i] \in {<<"general read">>, Exception(0)}
      BY <2>2
    <3> QED BY <2>3, <3>1, <3>2
  <2>5. \A l \in Line : MainPast(l) => MainPast(l)'
    <3>1. at' \in {"launch", "exit"}
      BY <2>2
    <3> QED BY <2>1, <3>1, FirstWord DEF MainPast
  <2> QED BY <2>1, <2>2, <2>4, <2>5, MainSays
<1>3. CASE Launch
  <2>1. launched + 1 \in Worker /\ launched + 1 > launched
    BY <1>3 DEF Launch, MainType, Worker
  <2>2. worker[launched + 1] = "off"
    BY <2>1 DEF Phases
  <2>3. /\ worker'[launched + 1] = "connect"
        /\ \A w \in Worker \ {launched + 1} : worker'[w] = worker[w]
    BY <1>3, <2>1 DEF Launch, MainType
  <2>4. rounds' = rounds /\ mutex' = mutex /\ at = "launch" /\ at' \in {"wait", "launch"}
    BY <1>3 DEF Launch
  <2>5. Holds'
    BY <2>3, <2>4 DEF WholeInv, Dumping, Holds
  <2>6. \A w \in Worker : worker[w] = "handle" <=> worker'[w] = "handle"
    BY <2>2, <2>3
  <2>7. \A l : MainPast(l) => MainPast(l)'
    BY <2>4 DEF MainPast
  <2>8. \A w \in Worker : \A l : WorkerPast(w, l) => WorkerPast(w, l)'
    BY <2>2, <2>3, <2>4 DEF WorkerPast
  <2>9. \A t \in Thread : \A l \in Line : Past(t, l) => Past(t, l)'
    BY <2>7, <2>8, PastIs, PastIsNext
  <2> QED BY <1>3, <2>4, <2>5, <2>6, <2>9, SilentWhole DEF Launch
<1>4. CASE LaunchFails
  <2>1. /\ rounds' = rounds /\ mutex' = mutex /\ worker' = worker
        /\ at = "launch" /\ at' = "unwind"
    BY <1>4 DEF LaunchFails
  <2>2. Holds'
    BY <2>1 DEF WholeInv, Dumping, Holds
  <2>3. \A l : MainPast(l) => MainPast(l)'
    BY <2>1 DEF MainPast
  <2>4. \A w \in Worker : \A l : WorkerPast(w, l) => WorkerPast(w, l)'
    BY <2>1 DEF WorkerPast
  <2>5. \A t \in Thread : \A l \in Line : Past(t, l) => Past(t, l)'
    BY <2>3, <2>4, PastIs, PastIsNext
  <2> QED BY <1>4, <2>1, <2>2, <2>5, SilentWhole DEF LaunchFails
<1>5. CASE Finish
  <2>1. /\ at \in {"wait", "unwind"} /\ at' = "exit" /\ Quiet(main)
        /\ worker' = worker /\ rounds' = rounds /\ mutex' = mutex
    BY <1>5 DEF Finish
  <2>2. \A l \in Line : MainPast(l) => MainPast(l)'
    BY <2>1 DEF MainPast
  <2>3. CASE Says(main, <<Exception(0)>>)
    <3> DEFINE line == Exception(0)
               lines == <<line>>
    <3>1. lines \in Seq(Line) /\ Says(main, lines)
      BY <2>3, TheCalls
    <3>2. Distinct(lines) /\ \A i \in DOMAIN lines : lines[i] = line
      BY OneLine, Zenon
    <3>3. ~MainPast(line) /\ MainPast(line)' /\ ~IsRow(line)
      <4>1. line[1] = "exception"
        BY DEF Exception
      <4> QED BY <2>1, <4>1 DEF MainPast, IsRow
    <3> HIDE DEF lines
    <3> QED BY <2>1, <2>2, <3>1, <3>2, <3>3, MainSays
  <2>4. CASE Says(main, <<>>)
    BY <2>1, <2>2, <2>4, FewLines, TheCalls, MainSays
  <2> QED BY <1>5, <2>3, <2>4 DEF Finish
<1>6. CASE Message(main) /\ UNCHANGED mainVars
  BY <1>6, Threads, MessageWhole
<1> QED BY <1>1, <1>2, <1>3, <1>4, <1>5, <1>6 DEF MainThread

(* Nobody but who holds the mutex handles a buffer *)
LEMMA HoldsOn ==
  ASSUME MainType, Holds, NEW w \in Worker, NEW from, NEW to, Goes(w, from, to),
         \/ mutex' = mutex /\ (to \in {"handle", "unlock"} => from \in {"handle", "unlock"})
         \/ mutex = NoThread /\ mutex' = w
         \/ from = "unlock" /\ to \notin {"handle", "unlock"} /\ mutex' = NoThread
  PROVE  Holds'
<1>1. /\ worker'[w] = to /\ worker[w] = from
      /\ \A v \in Worker \ {w} : worker'[v] = worker[v]
  BY DEF MainType, Goes
<1>2. \A v \in Worker : v # NoThread
  OBVIOUS
<1> QED BY <1>1, <1>2 DEF Holds

LEMMA WorkerWhole == ASSUME NEW w \in Worker, IInv, WholeInv, WorkerThread(w) PROVE WholeInv'
<1>1. w \in Thread /\ LogInv /\ MainType /\ Holds
  BY Threads DEF IInv, WholeInv, Dumping
<1>2. /\ rounds[w] \in 0..MaxRounds
      /\ worker \in [Worker -> {"off", "connect", "param", "poll",
                                "lock", "handle", "unlock", "over"}]
  BY <1>1 DEF MainType
<1>3. CASE Connect(w)
  <2>1. at' = at /\ rounds' = rounds /\ mutex' = mutex
    BY <1>3 DEF Connect
  <2>2. CASE Goes(w, "connect", "over") /\ Says(w, <<Exception(0)>>)
    <3> DEFINE line == Exception(0)
               lines == <<line>>
    <3>1. lines \in Seq(Line)
      BY TheCalls
    <3>2. Distinct(lines) /\ \A i \in DOMAIN lines : lines[i] = line
      BY OneLine, Zenon
    <3>3. worker[w] = "connect" /\ worker'[w] = "over"
      BY <1>2, <2>2 DEF Goes
    <3>4. ~WorkerPast(w, line) /\ WorkerPast(w, line)'
      BY <3>3 DEF WorkerPast
    <3>5. \A l \in Line : WorkerPast(w, l) => WorkerPast(w, l)'
      BY <3>3 DEF WorkerPast
    <3>6. ~IsRow(line)
      BY DEF IsRow, Exception
    <3>7. Holds'
      BY <1>1, <2>1, <2>2, HoldsOn
    <3>8. Says(w, lines)
      BY <2>2
    <3> HIDE DEF lines, line
    <3> QED BY <2>1, <2>2, <3>1, <3>2, <3>4, <3>5, <3>6, <3>7, <3>8, WorkerSays
  <2>3. CASE Goes(w, "connect", "param") /\ Says(w, << <<"on_connected">> >>)
    <3> DEFINE line == <<"on_connected">>
               lines == <<line>>
    <3>1. lines \in Seq(Line)
      BY TheCalls
    <3>2. Distinct(lines) /\ \A i \in DOMAIN lines : lines[i] = line
      BY OneLine, Zenon
    <3>3. worker[w] = "connect" /\ worker'[w] = "param"
      BY <1>2, <2>3 DEF Goes
    <3>4. ~WorkerPast(w, line) /\ WorkerPast(w, line)'
      BY <3>3 DEF WorkerPast
    <3>5. \A l \in Line : WorkerPast(w, l) => WorkerPast(w, l)'
      BY <3>3 DEF WorkerPast
    <3>6. ~IsRow(line)
      BY DEF IsRow
    <3>7. Holds'
      BY <1>1, <2>1, <2>3, HoldsOn
    <3>8. Says(w, lines)
      BY <2>3
    <3> HIDE DEF lines, line
    <3> QED BY <2>1, <2>3, <3>1, <3>2, <3>4, <3>5, <3>6, <3>7, <3>8, WorkerSays
  <2> QED BY <1>3, <2>2, <2>3 DEF Connect
<1>4. CASE Param(w)
  <2>1. at' = at /\ rounds' = rounds /\ mutex' = mutex
    BY <1>4 DEF Param
  <2>2. CASE Goes(w, "param", "over") /\ Says(w, << <<"on_disconnected">>, Exception(0) >>)
    <3> DEFINE one == <<"on_disconnected">>
               two == Exception(0)
               lines == <<one, two>>
    <3>1. lines \in Seq(Line)
      BY TheCalls
    <3>2. /\ one[1] = "on_disconnected" /\ two[1] = "exception"
      BY DEF Exception
    <3>3. worker[w] = "param" /\ worker'[w] = "over"
      BY <1>2, <2>2 DEF Goes
    <3>4. \A l \in {one, two} : ~WorkerPast(w, l) /\ WorkerPast(w, l)'
      BY <3>2, <3>3, FirstWord DEF WorkerPast
    <3>5. \A l \in Line : WorkerPast(w, l) => WorkerPast(w, l)'
      BY <3>3 DEF WorkerPast
    <3>6. \A l \in {one, two} : ~IsRow(l)
      BY <3>2 DEF IsRow
    <3>7. Holds'
      BY <1>1, <2>1, <2>2, HoldsOn
    <3>8. Says(w, lines)
      BY <2>2
    <3> HIDE DEF one, two
    <3>9. Distinct(lines) /\ \A i \in DOMAIN lines : lines[i] \in {one, two}
      BY <3>2, TwoLines
    <3> HIDE DEF lines
    <3> QED BY <2>1, <2>2, <3>1, <3>4, <3>5, <3>6, <3>7, <3>8, <3>9, WorkerSays
  <2>3. CASE Goes(w, "param", "poll") /\ UNCHANGED traceVars
    <3>1. /\ worker[w] = "param" /\ worker'[w] = "poll"
          /\ \A v \in Worker \ {w} : worker'[v] = worker[v]
      BY <1>2, <2>3 DEF Goes
    <3>2. Holds'
      BY <1>1, <2>1, <2>3, HoldsOn
    <3>3. \A l : MainPast(l) => MainPast(l)'
      BY <2>1 DEF MainPast
    <3>4. \A v \in Worker : \A l : WorkerPast(v, l) => WorkerPast(v, l)'
      BY <2>1, <3>1, FirstWord DEF WorkerPast
    <3>5. \A t \in Thread : \A l \in Line : Past(t, l) => Past(t, l)'
      BY <3>3, <3>4, PastIs, PastIsNext
    <3> QED BY <1>1, <2>1, <2>3, <3>1, <3>2, <3>5, SilentWhole
  <2> QED BY <1>4, <2>2, <2>3 DEF Param
<1>5. CASE Poll(w)
  <2>1. /\ at' = at /\ mutex' = mutex /\ Goes(w, "poll", "lock")
        /\ rounds'[w] = rounds[w] + 1
        /\ \A v \in Worker \ {w} : rounds'[v] = rounds[v]
    BY <1>1, <1>5 DEF Poll, MainType
  <2>2. /\ worker[w] = "poll" /\ worker'[w] = "lock"
        /\ \A v \in Worker \ {w} : worker'[v] = worker[v]
    BY <1>2, <2>1 DEF Goes
  <2>3. Holds'
    BY <1>1, <2>1, HoldsOn
  <2>4. \A l : MainPast(l) => MainPast(l)'
    BY <2>1 DEF MainPast
  <2>5. \A l \in Line : WorkerPast(w, l) => WorkerPast(w, l)'
    BY <1>2, <2>1, <2>2, LineIs DEF WorkerPast
  <2>6. \A v \in Worker \ {w} : \A l : WorkerPast(v, l) => WorkerPast(v, l)'
    BY <2>1, <2>2 DEF WorkerPast
  <2>7. \A t \in Thread : \A l \in Line : Past(t, l) => Past(t, l)'
    BY <2>4, <2>5, <2>6, PastIs, PastIsNext
  <2> QED BY <1>1, <1>5, <2>1, <2>2, <2>3, <2>7, SilentWhole DEF Poll
<1>6. CASE Lock(w)
  <2>1. /\ at' = at /\ rounds' = rounds /\ mutex = NoThread /\ mutex' = w
        /\ Goes(w, "lock", "handle")
    BY <1>6 DEF Lock
  <2>2. PICK rows \in 0..MaxRows : Says(w, Dump(w, rows))
    BY <1>6 DEF Lock
  <2>3. PICK lines \in Seq(Line) : lines = Dump(w, rows)
    BY <1>1, DumpType
  <2>4. worker[w] = "lock" /\ worker'[w] = "handle"
    BY <1>2, <2>1 DEF Goes
  <2>5. /\ DOMAIN lines = 1..(rows + 1)
        /\ \A i \in DOMAIN lines : /\ lines[i] = <<"on_data_available", rounds[w], i - 1>>
                                   /\ lines[i][1] = "on_data_available"
                                   /\ lines[i][2] = rounds[w] /\ lines[i][3] = i - 1
    BY <2>3 DEF Dump
  <2>6. Distinct(lines)
    <3>1. ASSUME NEW i \in DOMAIN lines, NEW k \in DOMAIN lines, lines[i] = lines[k] PROVE i = k
      <4>1. i - 1 = k - 1
        BY <2>5, <3>1
      <4> QED BY <2>5, <4>1
    <3> QED BY <3>1 DEF Distinct
  <2>7. \A i \in DOMAIN lines : ~WorkerPast(w, lines[i]) /\ WorkerPast(w, lines[i])'
    <3> SUFFICES ASSUME NEW i \in DOMAIN lines
                 PROVE  ~WorkerPast(w, lines[i]) /\ WorkerPast(w, lines[i])'
      OBVIOUS
    <3>1. lines[i][1] = "on_data_available" /\ lines[i][2] = rounds[w]
      BY <2>5
    <3>2. ~WorkerPast(w, lines[i])
      BY <1>2, <2>4, <3>1 DEF WorkerPast
    <3>3. WorkerPast(w, lines[i])'
      BY <1>2, <2>1, <2>4, <3>1 DEF WorkerPast
    <3> QED BY <3>2, <3>3
  <2>8. \A l \in Line : WorkerPast(w, l) => WorkerPast(w, l)'
    BY <2>1, <2>4 DEF WorkerPast
  <2>9. Holds'
    BY <1>1, <2>1, HoldsOn
  <2> QED BY <2>1, <2>2, <2>3, <2>5, <2>6, <2>7, <2>8, <2>9, WorkerSays
<1>7. CASE Handle(w)
  <2> DEFINE q == <<"request", rounds[w]>>
             p == <<"response", rounds[w]>>
             e == Exception(rounds[w])
  <2>1. /\ at' = at /\ rounds' = rounds /\ mutex' = mutex /\ Goes(w, "handle", "unlock")
    BY <1>7 DEF Handle
  <2>2. worker[w] = "handle" /\ worker'[w] = "unlock"
    BY <1>2, <2>1 DEF Goes
  <2>3. /\ q[1] = "request" /\ p[1] = "response" /\ e[1] = "exception"
        /\ q \in Line /\ p \in Line /\ e \in Line
        /\ q[2] = rounds[w] /\ p[2] = rounds[w] /\ e[2] = rounds[w]
    <3>1. q \in Line /\ p \in Line /\ e \in Line
      BY <1>2, TheLines
    <3> QED BY <3>1 DEF Exception
  <2>4. PICK lines \in {<<>>, <<e>>, <<q, e>>, <<q, p>>} : Says(w, lines)
    BY <1>7 DEF Handle
  <2> HIDE DEF q, p, e
  <2>5. q # e /\ q # p
    BY <2>3
  <2>6. Distinct(lines) /\ \A i \in DOMAIN lines : lines[i] \in {q, p, e}
    BY <2>4, <2>5, FewLines, OneLine, TwoLines
  <2>7. lines \in Seq(Line)
    <3>1. /\ <<>> \in Seq(Line) /\ <<e>> \in Seq(Line)
          /\ <<q, e>> \in Seq(Line) /\ <<q, p>> \in Seq(Line)
      BY <2>3
    <3> QED BY <2>4, <3>1
  <2>8. \A l \in {q, p, e} : ~WorkerPast(w, l) /\ WorkerPast(w, l)' /\ ~IsRow(l)
    BY <1>2, <2>1, <2>2, <2>3 DEF WorkerPast, IsRow
  <2>9. \A l \in Line : WorkerPast(w, l) => WorkerPast(w, l)'
    BY <1>2, <2>1, <2>2, LineIs DEF WorkerPast
  <2>10. Holds'
    BY <1>1, <2>1, HoldsOn
  <2> QED BY <2>1, <2>4, <2>6, <2>7, <2>8, <2>9, <2>10, WorkerSays
<1>8. CASE Unlock(w)
  <2>1. /\ at' = at /\ rounds' = rounds /\ mutex' = NoThread /\ Goes(w, "unlock", "poll")
    BY <1>8 DEF Unlock
  <2>2. /\ worker[w] = "unlock" /\ worker'[w] = "poll"
        /\ \A v \in Worker \ {w} : worker'[v] = worker[v]
    BY <1>2, <2>1 DEF Goes
  <2>3. Holds'
    BY <1>1, <2>1, HoldsOn
  <2>4. \A l : MainPast(l) => MainPast(l)'
    BY <2>1 DEF MainPast
  <2>5. \A v \in Worker : \A l : WorkerPast(v, l) => WorkerPast(v, l)'
    BY <2>1, <2>2 DEF WorkerPast
  <2>6. \A t \in Thread : \A l \in Line : Past(t, l) => Past(t, l)'
    BY <2>4, <2>5, PastIs, PastIsNext
  <2> QED BY <1>1, <1>8, <2>1, <2>2, <2>3, <2>6, SilentWhole DEF Unlock
<1>9. CASE Message(w) /\ UNCHANGED mainVars
  BY <1>1, <1>9, MessageWhole
<1> QED BY <1>3, <1>4, <1>5, <1>6, <1>7, <1>8, <1>9 DEF WorkerThread

LEMMA UnchangedWhole == ASSUME IInv, WholeInv, UNCHANGED vars PROVE WholeInv'
<1>1. UNCHANGED traceVars /\ worker' = worker /\ rounds' = rounds /\ mutex' = mutex /\ at' = at
  BY DEF vars, mainVars
<1>2. Holds'
  BY <1>1 DEF WholeInv, Dumping, Holds
<1>3. \A t \in Thread : \A line \in Line : Past(t, line) => Past(t, line)'
  BY <1>1, PastKeeps
<1> QED BY <1>1, <1>2, <1>3, SilentWhole DEF IInv

LEMMA WholeInvariant == Spec => []WholeInv
<1>1. IInv /\ WholeInv /\ [Next]_vars => WholeInv'
  BY MainWhole, WorkerWhole, UnchangedWhole DEF Next, AtEnd
<1> QED BY <1>1, InitWhole, Invariant, PTL DEF Spec

-----------------------------------------------------------------------------
(* Every variable stays in its set: no more workers than ports, and only   *)
(* lines that main and the workers log                                     *)
THEOREM TypeCorrect == Spec => []TypeOK
<1>1. IInv => TypeOK
  BY Types DEF IInv, LogInv
<1> QED BY <1>1, Invariant, PTL

(* The profiles are there as long as a worker runs, whatever throws and    *)
(* however many workers have been launched by then                         *)
THEOREM ProfilesStay == Spec => []ProfilesOutliveWorkers
<1>1. IInv => ProfilesOutliveWorkers
  BY DEF IInv, MainType, Phases, ProfilesOutliveWorkers, Worker
<1> QED BY <1>1, Invariant, PTL

(* No two lines mix, in the file and on the console, however many threads  *)
(* log, whichever of their calls interleave and whenever the file cannot   *)
(* be opened                                                               *)
THEOREM LinesStayWhole == Spec => []LinesAreWhole
<1>1. IInv => LinesAreWhole
  BY DEF IInv, LogInv
<1> QED BY <1>1, Invariant, PTL

(* The file holds what the console holds, in the same order, but for the   *)
(* lines for which it could not be opened and the one line that is under   *)
(* way: whichever threads log, and whenever fopen fails                    *)
THEOREM LogsStayTogether == Spec => []LogsAgree
<1>1. IInv /\ WholeInv => LogsAgree
  BY Agreement DEF IInv, WholeInv
<1> QED BY <1>1, Invariant, WholeInvariant, PTL

(* The dump of a buffer is on the console row by row, once, with no row of *)
(* another port in between, for every number of ports and of rows          *)
THEOREM DumpsStayWhole == Spec => []DumpsAreWhole
<1>1. WholeInv => DumpsAreWhole
  BY PlacedIsWhole DEF WholeInv
<1> QED BY <1>1, WholeInvariant, PTL

=============================================================================
