--------------------------------- MODULE Main ---------------------------------
(***************************************************************************)
(* The life of the process: main (Source.cpp) loads the profiles, starts a *)
(* worker per port with std::async and waits for all of them; a worker     *)
(* makes a serial_handler, polls, and logs what happens; Trace is the log  *)
(* they share. What a worker does with a request is SerialHandler; here it *)
(* is a use of the profiles that may throw.                                *)
(***************************************************************************)
EXTENDS Trace

CONSTANTS Workers,       \* the number of ports of the command line
          main,          \* main's thread
          Files,         \* those of "general" and "config" that can be opened
          MaxRows,       \* bound: rows of 16 bytes in a buffer
          MaxRounds      \* bound: rounds of the poll loop of a worker

Worker == 1..Workers

ASSUME MainAssumption ==
  /\ Thread = Worker \union {main} /\ main \notin Worker /\ NoThread \notin Thread
  /\ Workers \in Nat \ {0} /\ MaxRows \in Nat /\ MaxRounds \in Nat /\ MaxMisses \in Nat

VARIABLES at,            \* where main is
          launched,      \* number of workers that main has launched
          profiles,      \* g and c: "none", "there" or "gone"
          worker,        \* worker[w]: where it is
          rounds,        \* rounds[w]: rounds of its poll loop
          mutex          \* serial_handler::mutex_

mainVars == <<at, launched, profiles, worker, rounds, mutex>>
vars == <<traceVars, mainVars>>

Init == /\ TraceInit
        /\ at = "start" /\ launched = 0 /\ profiles = "none"
        /\ worker = [w \in Worker |-> "off"]
        /\ rounds = [w \in Worker |-> 0]
        /\ mutex = NoThread

(* core::exception_handler logs one line. Lines differ by their round *)
Exception(round) == <<"exception", round>>

-----------------------------------------------------------------------------
(* main *)

Start ==
  /\ at = "start" /\ Quiet(main)
  /\ Says(main, <<<<"Application start">>>>)
  /\ at' = "load"
  /\ UNCHANGED <<launched, profiles, worker, rounds, mutex>>

(* What the constructor of a profile logs when it has read the file *)
GeneralRead == IF "general" \in Files THEN <<<<"general read">>>> ELSE <<>>
ConfigRead  == IF "config" \in Files THEN <<<<"config read">>>> ELSE <<>>

(* The constructors of g and c. Each of them may throw when it reads *)
LoadProfiles ==
  /\ at = "load" /\ Quiet(main)
  /\ \/ at' = "launch" /\ profiles' = "there" /\ Says(main, GeneralRead \o ConfigRead)
     \/ /\ at' = "exit" /\ profiles' = "gone"
        /\ \/ "general" \in Files /\ Says(main, <<Exception(0)>>)
           \/ "config" \in Files /\ Says(main, GeneralRead \o <<Exception(0)>>)
  /\ UNCHANGED <<launched, worker, rounds, mutex>>

(* Mutant: only the first worker gets a thread, the others are deferred    *)
(* until wait is called on them, which is after the first one is over      *)
LaunchDeferred ==
  /\ at = "launch" /\ Quiet(main) /\ launched < Workers
  /\ launched' = launched + 1
  /\ worker' = [worker EXCEPT ![launched + 1] = IF launched = 0 THEN "connect" ELSE @]
  /\ at' = IF launched' = Workers THEN "wait" ELSE "launch"
  /\ UNCHANGED <<traceVars, profiles, rounds, mutex>>

(* Mutant: one port too many *)
LaunchOneMore ==
  /\ at = "launch" /\ Quiet(main)
  /\ launched' = launched + 1
  /\ worker' = [worker EXCEPT ![launched + 1] = "connect"]
  /\ at' = IF launched' > Workers THEN "wait" ELSE "launch"
  /\ UNCHANGED <<traceVars, profiles, rounds, mutex>>

(* std::async, which the Windows runtime gives a thread at once *)
Launch ==
  /\ at = "launch" /\ Quiet(main) /\ launched < Workers
  /\ launched' = launched + 1
  /\ worker' = [worker EXCEPT ![launched + 1] = "connect"]
  /\ at' = IF launched' = Workers THEN "wait" ELSE "launch"
  /\ UNCHANGED <<traceVars, profiles, rounds, mutex>>

(* std::async finds no thread and throws *)
LaunchFails ==
  /\ at = "launch" /\ Quiet(main)
  /\ at' = "unwind"
  /\ UNCHANGED <<traceVars, launched, profiles, worker, rounds, mutex>>

(* Mutant: workers is declared before g and c, and so destroyed after them *)
FinishProfilesFirst ==
  /\ \/ at = "wait" /\ \A w \in 1..launched : worker[w] = "over"
     \/ at = "unwind"
  /\ profiles' = "gone"
  /\ at' = "exit"
  /\ Says(main, IF at = "unwind" THEN <<Exception(0)>> ELSE <<>>)
  /\ UNCHANGED <<launched, worker, rounds, mutex>>

(* wait on every worker, or the destructors of the futures, which wait,    *)
(* too; the destructors of c and g; the exception handler                  *)
Finish ==
  /\ at \in {"wait", "unwind"} /\ Quiet(main)
  /\ \A w \in 1..launched : worker[w] = "over"
  /\ profiles' = "gone"
  /\ at' = "exit"
  /\ Says(main, IF at = "unwind" THEN <<Exception(0)>> ELSE <<>>)
  /\ UNCHANGED <<launched, worker, rounds, mutex>>

-----------------------------------------------------------------------------
(* A worker *)

Goes(w, from, to) == /\ worker[w] = from /\ Quiet(w)
                     /\ worker' = [worker EXCEPT ![w] = to]

(* s_.connect(port): throws, or calls on_connected *)
Connect(w) ==
  /\ \/ Goes(w, "connect", "over")  /\ Says(w, <<Exception(0)>>)
     \/ Goes(w, "connect", "param") /\ Says(w, <<<<"on_connected">>>>)
  /\ UNCHANGED <<at, launched, profiles, rounds, mutex>>

(* s_.param: throws, and the destructor of s_ calls on_disconnected        *)
Param(w) ==
  /\ \/ Goes(w, "param", "over") /\ Says(w, <<<<"on_disconnected">>, Exception(0)>>)
     \/ Goes(w, "param", "poll") /\ UNCHANGED traceVars
  /\ UNCHANGED <<at, launched, profiles, rounds, mutex>>

(* ReadFile returns *)
Poll(w) ==
  /\ rounds[w] < MaxRounds
  /\ Goes(w, "poll", "lock")
  /\ rounds' = [rounds EXCEPT ![w] = @ + 1]
  /\ UNCHANGED <<traceVars, at, launched, profiles, mutex>>

Dump(w, rows) == [i \in 1..(rows + 1) |-> <<"on_data_available", rounds[w], i - 1>>]

(* Mutant: the buffer is dumped before the lock_guard *)
LockAfterDump(w) ==
  /\ Goes(w, "lock", "handle")
  /\ \E rows \in 0..MaxRows : Says(w, Dump(w, rows))
  /\ UNCHANGED <<at, launched, profiles, rounds, mutex>>

(* on_data_available: the lock_guard, a line, and the rows of the buffer *)
Lock(w) ==
  /\ mutex = NoThread
  /\ Goes(w, "lock", "handle")
  /\ mutex' = w
  /\ \E rows \in 0..MaxRows : Says(w, Dump(w, rows))
  /\ UNCHANGED <<at, launched, profiles, rounds>>

(* The rest of on_data_available: too little for a request, or a request   *)
(* and its response; the handler logs what deserialize, save or write      *)
(* throws. Their rows are left out                                         *)
Handle(w) ==
  LET request   == <<"request", rounds[w]>>
      response  == <<"response", rounds[w]>>
      exception == Exception(rounds[w])
  IN
  /\ Goes(w, "handle", "unlock")
  /\ \E lines \in {<<>>, <<exception>>, <<request, exception>>, <<request, response>>} : Says(w, lines)
  /\ UNCHANGED <<at, launched, profiles, rounds, mutex>>

Unlock(w) ==
  /\ Goes(w, "unlock", "poll")
  /\ mutex' = NoThread
  /\ UNCHANGED <<traceVars, at, launched, profiles, rounds>>

(* The threads, and the end of the process or of the rounds of its workers *)
MainThread == (Start \/ LoadProfiles \/ Launch \/ LaunchFails \/ Finish)
              \/ (Message(main) /\ UNCHANGED mainVars)

WorkerThread(w) == Connect(w) \/ Param(w) \/ Poll(w) \/ Lock(w) \/ Handle(w) \/ Unlock(w)
                   \/ (Message(w) /\ UNCHANGED mainVars)

AtEnd == /\ \A t \in Thread : Quiet(t)
         /\ at \in {"exit", "wait", "unwind"}
         /\ \A w \in Worker : \/ worker[w] \in {"off", "over"}
                              \/ worker[w] = "poll" /\ rounds[w] = MaxRounds
         /\ UNCHANGED vars

Next == MainThread \/ AtEnd \/ \E w \in Worker : WorkerThread(w)

(* Every thread is scheduled again and again, and output to the file and   *)
(* the console returns                                                     *)
Spec == Init /\ [][Next]_vars /\ WF_vars(MainThread) /\ \A w \in Worker : WF_vars(WorkerThread(w))

-----------------------------------------------------------------------------
(* What is logged *)
Line == {<<"Application start">>, <<"general read">>, <<"config read">>,
         <<"on_connected">>, <<"on_disconnected">>}
        \union ({"exception", "request", "response"} \X (0..MaxRounds))
        \union ({"on_data_available"} \X (0..MaxRounds) \X (0..MaxRows))

TypeOK ==
  /\ TraceTypeOK
  /\ say \in [Thread -> Seq(Line)]
  /\ log \in [Output -> Seq({"header", "rest"} \X Thread \X Line)]
  /\ at \in {"start", "load", "launch", "wait", "unwind", "exit"}
  /\ launched \in 0..Workers
  /\ profiles \in {"none", "there", "gone"}
  /\ worker \in [Worker -> {"off", "connect", "param", "poll", "lock", "handle", "unlock", "over"}]
  /\ rounds \in [Worker -> 0..MaxRounds]
  /\ mutex \in Worker \union {NoThread}

(* A worker holds references to g and c (the lambda captures by reference):*)
(* they are there as long as it runs, also when std::async throws after    *)
(* some workers have been launched                                         *)
ProfilesOutliveWorkers ==
  \A w \in Worker : worker[w] \notin {"off", "over"} => profiles = "there"

(* The dumps of two workers do not mix, though every row takes and         *)
(* releases the mutex of the log: they are made under serial_handler's. A  *)
(* row but the first stands below the one before it, with no row between   *)
(* the two, and no row is there twice                                      *)
DumpsAreWhole ==
  LET console  == Logged("console")
      IsRow(i) == console[i][2][1] = "on_data_available"
      Previous(i, k) == /\ console[i][1] = console[k][1]
                        /\ console[i][2][2] = console[k][2][2]
                        /\ console[i][2][3] = console[k][2][3] - 1
  IN  \A k \in DOMAIN console : IsRow(k) =>
        /\ \A i \in 1..(k - 1) : console[i] # console[k]
        /\ console[k][2][3] > 0 => \E i \in 1..(k - 1) :
              IsRow(i) /\ Previous(i, k) /\ \A j \in (i + 1)..(k - 1) : ~IsRow(j)

(* README.md: "up to 4 serial ports concurrently": once all workers are    *)
(* launched, every one of them polls its port, or has found that it cannot *)
EveryPortIsServed ==
  \A w \in Worker : (at = "wait") ~> (worker[w] \in {"poll", "over"})

=============================================================================
