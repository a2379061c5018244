-------------------------------- MODULE Trace --------------------------------
(***************************************************************************)
(* The log (trace.cpp): message, called by several threads, puts a line    *)
(* into the log file and on the console, under a mutex of its own. A line  *)
(* takes three calls of fprintf, here two parts: what comes before the     *)
(* message, and the message with the end of the line.                      *)
(*                                                                         *)
(* A thread calls message by putting lines into say, one per call, and is  *)
(* busy until they are gone. binary calls message once per row of 16 bytes.*)
(***************************************************************************)
EXTENDS Integers, SequencesExt

CONSTANTS Thread,        \* the threads of the process
          NoThread,      \* owner of the free mutex
          MaxMisses      \* bound: times the log file cannot be opened

VARIABLES say,           \* say[t]: the lines t has still to log
          traceMutex,    \* the mutex of message
          operations,    \* operations[t]: where the line still has to go, when
                         \* t is inside message
          begun,         \* begun[t]: the first part of the line is out
          log,           \* the log file and the console
          missed         \* the lines for which fopen failed

traceVars == <<say, traceMutex, operations, begun, log, missed>>

Output == {"file", "console"}      \* the flags that main gives to trace::init

TraceInit ==
  /\ say        = [t \in Thread |-> <<>>]
  /\ traceMutex = NoThread
  /\ operations = [t \in Thread |-> {}]
  /\ begun      = [t \in Thread |-> FALSE]
  /\ log        = [o \in Output |-> <<>>]
  /\ missed     = {}

(* All calls of message that t has made have returned *)
Quiet(t) == say[t] = <<>>

Says(t, lines) == /\ say' = [say EXCEPT ![t] = lines]
                  /\ UNCHANGED <<traceMutex, operations, begun, log, missed>>

(* Mutant: no lock_guard *)
EnterAlways(t) ==
  /\ say[t] # <<>> /\ operations[t] = {}
  /\ traceMutex' = t
  /\ operations' = [operations EXCEPT ![t] = Output]
  /\ UNCHANGED <<say, begun, log, missed>>

(* The lock_guard of message *)
Enter(t) ==
  /\ say[t] # <<>> /\ traceMutex = NoThread
  /\ traceMutex' = t
  /\ operations' = [operations EXCEPT ![t] = Output]
  /\ UNCHANGED <<say, begun, log, missed>>

(* The loop takes the file first *)
Current(t) == IF "file" \in operations[t] THEN "file" ELSE "console"

Put(t, part) ==
  log' = [log EXCEPT ![Current(t)] = Append(@, <<part, t, Head(say[t])>>)]

Header(t) ==
  /\ operations[t] # {} /\ ~begun[t]
  /\ Put(t, "header")
  /\ begun' = [begun EXCEPT ![t] = TRUE]
  /\ UNCHANGED <<say, traceMutex, operations, missed>>

(* Mutant: without a file the loop ends *)
FileMissesAll(t) ==
  /\ "file" \in operations[t] /\ ~begun[t] /\ Cardinality(missed) < MaxMisses
  /\ missed'     = missed \union {<<t, Head(say[t])>>}
  /\ operations' = [operations EXCEPT ![t] = {}]
  /\ traceMutex' = NoThread
  /\ say'        = [say EXCEPT ![t] = Tail(@)]
  /\ UNCHANGED <<begun, log>>

(* fopen fails: the line goes to the console only *)
FileMisses(t) ==
  /\ "file" \in operations[t] /\ ~begun[t] /\ Cardinality(missed) < MaxMisses
  /\ missed'     = missed \union {<<t, Head(say[t])>>}
  /\ operations' = [operations EXCEPT ![t] = @ \ {"file"}]
  /\ UNCHANGED <<say, traceMutex, begun, log>>

(* The rest of the line, fclose, and the next round of the loop; after the *)
(* last one message returns                                                *)
Rest(t) ==
  /\ begun[t]
  /\ Put(t, "rest")
  /\ begun'      = [begun EXCEPT ![t] = FALSE]
  /\ operations' = [operations EXCEPT ![t] = @ \ {Current(t)}]
  /\ IF operations'[t] = {}
     THEN traceMutex' = NoThread /\ say' = [say EXCEPT ![t] = Tail(@)]
     ELSE UNCHANGED <<traceMutex, say>>
  /\ UNCHANGED missed

Message(t) == Enter(t) \/ Header(t) \/ FileMisses(t) \/ Rest(t)

-----------------------------------------------------------------------------
TraceTypeOK ==
  /\ traceMutex \in Thread \union {NoThread}
  /\ operations \in [Thread -> SUBSET Output]
  /\ begun \in [Thread -> BOOLEAN]
  /\ Cardinality(missed) <= MaxMisses

(* trace.h promises "thread safety": in the file and on the console every  *)
(* line is whole, with no part of another thread's in between              *)
LinesAreWhole ==
  \A o \in Output : \A i \in 1..Len(log[o]) :
    /\ log[o][i][1] = (IF i % 2 = 1 THEN "header" ELSE "rest")
    /\ i % 2 = 0 => /\ log[o][i][2] = log[o][i - 1][2]
                    /\ log[o][i][3] = log[o][i - 1][3]

(* The lines of an output *)
Logged(o) == [i \in 1..(Len(log[o]) \div 2) |-> Tail(log[o][2 * i])]

(* The console shows every line, and the file all of them but those for    *)
(* which it could not be opened, perhaps ahead of the console by one: what *)
(* stands above a line in the file is what stands above it on the console  *)
LogsAgree ==
  LET file    == Logged("file")
      console == Logged("console")
      First(logged, n) == {logged[i] : i \in 1..n}
  IN  /\ \A i \in DOMAIN file, k \in DOMAIN console : file[i] = console[k] =>
           First(file, i - 1) = First(console, k - 1) \ missed
      /\ First(file, Len(file) - 1) \subseteq First(console, Len(console))
      /\ First(console, Len(console)) \ missed \subseteq First(file, Len(file))
      /\ \A line \in missed : \/ line \in First(console, Len(console))
                              \/ line[2] \in Range(say[line[1]])

=============================================================================
