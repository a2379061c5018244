---------------------------- MODULE SerialHandler ----------------------------
(***************************************************************************)
(* The running emulator: one worker per serial port (Source.cpp), each     *)
(* with a serial_handler that polls its port (serial.cpp) and answers      *)
(* requests out of two profiles that all workers share under one mutex     *)
(* (serial_handler.cpp, packet_builder.cpp, profile.cpp); one client per   *)
(* port, which sends a request and waits for the response; the disk; and   *)
(* the faults of this environment.                                         *)
(*                                                                         *)
(* A worker goes round the loop                                            *)
(*   "start"    serial_handler's constructor: connect, param               *)
(*   "poll"     in serial::poll, waiting in ReadFile, without the mutex    *)
(*   "lock"     in on_data_available, before the lock_guard                *)
(*   "handle"   holds the mutex, about to look at the buffer               *)
(*   "commit"   in parse, temp is complete, before config = temp           *)
(*   "save"     in profile::save                                           *)
(*   "reply"    before serial::write of the response                       *)
(*   "done"     the worker's exception handler has run, the thread is over *)
(*              or was never launched                                      *)
(* What happens between two of these under the mutex touches nothing that  *)
(* another worker, the disk or the client can see.                         *)
(***************************************************************************)
EXTENDS PacketBuilder

CONSTANTS Port,          \* the serial ports of the command line
          NoPort,        \* owner of the free mutex
          Message,       \* the byte strings a client may send
          Noise,         \* the byte strings a disturbed line may add
          MaxSends,      \* bound: messages and noise sent in a behavior
          ReadSize,      \* how much of a longer input one ReadFile may return
          Fault,         \* which faults may happen, see FaultKind
          GeneralFile,   \* what the general file may hold at the start
          ConfigFile     \* what the config file may hold at the start

FaultKind == {"connect",   \* a port that cannot be opened or set up
              "write",     \* a response that cannot be written to the port
              "read",      \* a profile that is there and cannot be opened at the start
              "open",      \* a profile that cannot be opened for saving
              "diskfull",  \* a profile of which not everything reaches the disk
              "timeout",   \* a client that stops waiting for its response
              "kill"}      \* a process that ends anywhere and is started anew

ASSUME SerialHandlerAssumption ==
  /\ NoPort \notin Port
  /\ Message \subseteq Seq(Byte) \ {<<>>}
  /\ Noise \subseteq Seq(Byte)
  /\ MaxSends \in Nat
  /\ ReadSize \subseteq Nat
  /\ Fault \subseteq FaultKind
  /\ \A f \in GeneralFile \union ConfigFile : IsFile(f) /\ Readable(f)
  /\ \A f \in ConfigFile : WheelInRange(Load(f))

VARIABLES client,        \* client[p]: the message it waits for, <<>> when idle
          sent,          \* number of messages and noise sent
          wire,          \* wire[p]: bytes that have not been read yet
          buffer,        \* buffer[p]: buffer_ of the worker's serial
          pc,            \* pc[p]: where the worker is
          mutex,         \* serial_handler::mutex_
          request,       \* request[p]: the request that is being served
          temp,          \* temp[p]: the copy of config in parse
          response,      \* response[p]: the response that is about to be sent
          profile,       \* the shared profiles g and c of main
          file           \* the files of these profiles

vars == <<client, sent, wire, buffer, pc, mutex, request, temp, response, profile, file>>

NoRequest == <<>>
NoProfile == [exists |-> FALSE, data |-> NoData]

(* The files as the constructors of g and c find them. One that cannot be  *)
(* opened is taken for none                                                *)
Opens(f)      == {f} \union (IF "read" \in Fault THEN {NoFile} ELSE {})
Opened(files) == [general : Opens(files.general), config : Opens(files.config)]

(* A bad line ends main before any worker is launched *)
Started(opened) == \A f \in DOMAIN opened : Readable(opened[f])

(* The profiles and the workers of a process that is started *)
Profiles(opened) ==
  [f \in DOMAIN opened |-> IF Started(opened) THEN Load(opened[f]) ELSE NoProfile]
Places(opened) == [p \in Port |-> IF Started(opened) THEN "start" ELSE "done"]

Init == /\ client   = [p \in Port |-> <<>>]
        /\ sent     = 0
        /\ wire     = [p \in Port |-> <<>>]
        /\ buffer   = [p \in Port |-> <<>>]
        /\ mutex    = NoPort
        /\ request  = [p \in Port |-> NoRequest]
        /\ temp     = [p \in Port |-> NoProfile]
        /\ response = [p \in Port |-> <<>>]
        /\ file \in [general : GeneralFile, config : ConfigFile]
        /\ \E opened \in Opened(file) : profile = Profiles(opened) /\ pc = Places(opened)

-----------------------------------------------------------------------------
(* The clients and the lines *)

Open(p) == pc[p] \notin {"start", "done"}

Send(p) ==
  /\ Open(p) /\ client[p] = <<>> /\ sent < MaxSends
  /\ \E m \in Message : /\ client' = [client EXCEPT ![p] = m]
                        /\ wire'   = [wire EXCEPT ![p] = @ \o m]
  /\ sent' = sent + 1
  /\ UNCHANGED <<buffer, pc, mutex, request, temp, response, profile, file>>

Disturb(p) ==
  /\ Open(p) /\ sent < MaxSends
  /\ \E n \in Noise : wire' = [wire EXCEPT ![p] = @ \o n]
  /\ sent' = sent + 1
  /\ UNCHANGED <<client, buffer, pc, mutex, request, temp, response, profile, file>>

GiveUp(p) ==
  /\ "timeout" \in Fault
  /\ client[p] # <<>>
  /\ client' = [client EXCEPT ![p] = <<>>]
  /\ UNCHANGED <<sent, wire, buffer, pc, mutex, request, temp, response, profile, file>>

-----------------------------------------------------------------------------
(* A worker outside the mutex *)

Connect(p) ==
  /\ pc[p] = "start"
  /\ \/ pc' = [pc EXCEPT ![p] = "poll"]
     \/ "connect" \in Fault /\ pc' = [pc EXCEPT ![p] = "done"]
  /\ UNCHANGED <<client, sent, wire, buffer, mutex, request, temp, response, profile, file>>

(* serial::poll. ReadFile returns some of the bytes that have arrived; it  *)
(* returns none only after its timeout, when none has, and that also       *)
(* counts as data                                                          *)
Poll(p) ==
  /\ pc[p] = "poll"
  /\ \E n \in {Len(wire[p])} \union {k \in ReadSize : 0 < k /\ k < Len(wire[p])} :
       /\ buffer' = [buffer EXCEPT ![p] = @ \o SubSeq(wire[p], 1, n)]
       /\ wire'   = [wire EXCEPT ![p] = SubSeq(@, n + 1, Len(@))]
  /\ pc' = [pc EXCEPT ![p] = "lock"]
  /\ UNCHANGED <<client, sent, mutex, request, temp, response, profile, file>>

(* Mutant: no lock_guard *)
LockAlways(p) ==
  /\ pc[p] = "lock"
  /\ mutex' = p
  /\ pc' = [pc EXCEPT ![p] = "handle"]
  /\ UNCHANGED <<client, sent, wire, buffer, request, temp, response, profile, file>>

Lock(p) ==
  /\ pc[p] = "lock" /\ mutex = NoPort
  /\ mutex' = p
  /\ pc' = [pc EXCEPT ![p] = "handle"]
  /\ UNCHANGED <<client, sent, wire, buffer, request, temp, response, profile, file>>

(* The end of on_data_available, by return or by the exception handler:    *)
(* the destructor of the lock_guard, and no local variable is left         *)
Leave(p) ==
  /\ pc'       = [pc EXCEPT ![p] = "poll"]
  /\ mutex'    = NoPort
  /\ request'  = [request EXCEPT ![p] = NoRequest]
  /\ temp'     = [temp EXCEPT ![p] = NoProfile]
  /\ response' = [response EXCEPT ![p] = <<>>]

-----------------------------------------------------------------------------
(* on_data_available: the switch over command and type *)

Addressed(data, command, type) ==
  Len(data) >= 2 /\ data[1] = command /\ data[2] = type

(* The requests that are deserialized, and so may be rejected *)
Checked(data) == \/ Addressed(data, ReadFlash, General)
                 \/ \E t \in ConfigType : Addressed(data, WriteFlash, t)

ConfigRead(data) == \E t \in ConfigType : Addressed(data, ReadFlash, t)

(* Mutant: an early return that forgets to unlock *)
TooShortKeepsLock(p) ==
  /\ pc[p] = "handle" /\ Len(buffer[p]) < 2
  /\ pc' = [pc EXCEPT ![p] = "poll"]
  /\ UNCHANGED <<client, sent, wire, buffer, mutex, request, temp, response, profile, file>>

(* Fewer than two bytes: wait for more *)
TooShort(p) ==
  /\ pc[p] = "handle" /\ Len(buffer[p]) < 2
  /\ Leave(p)
  /\ UNCHANGED <<client, sent, wire, buffer, profile, file>>

(* Mutant: the exception handler flushes the buffer *)
RejectFlushes(p) ==
  /\ pc[p] = "handle"
  /\ Checked(buffer[p]) /\ ~Deserializes(buffer[p], buffer[p][2])
  /\ buffer' = [buffer EXCEPT ![p] = <<>>]
  /\ Leave(p)
  /\ UNCHANGED <<client, sent, wire, profile, file>>

(* deserialize throws, and the buffer stays as it is: a truncated packet   *)
(* may be completed by later input, a packet that fails its verification   *)
(* is looked at again with every later input                               *)
Reject(p) ==
  /\ pc[p] = "handle"
  /\ Checked(buffer[p]) /\ ~Deserializes(buffer[p], buffer[p][2])
  /\ Leave(p)
  /\ UNCHANGED <<client, sent, wire, buffer, profile, file>>

(* The three default labels: everything is thrown away, no answer is sent  *)
Discard(p) ==
  /\ pc[p] = "handle" /\ Len(buffer[p]) >= 2
  /\ ~Checked(buffer[p]) /\ ~ConfigRead(buffer[p])
  /\ buffer' = [buffer EXCEPT ![p] = <<>>]
  /\ Leave(p)
  /\ UNCHANGED <<client, sent, wire, profile, file>>

(* Read basic, pedal and throttle: two bytes are enough, the rest of the   *)
(* buffer is thrown away unseen                                            *)
ReadConfig(p) ==
  /\ pc[p] = "handle" /\ ConfigRead(buffer[p])
  /\ LET t == buffer[p][2]
     IN  /\ request'  = [request EXCEPT ![p] = <<ReadFlash, t, <<>>>>]
         /\ response' = [response EXCEPT ![p] = ResponsePacket(t, Build(t, profile.config))]
         /\ profile'  = [profile EXCEPT !.config = Touched(t, @)]
  /\ buffer' = [buffer EXCEPT ![p] = <<>>]
  /\ pc' = [pc EXCEPT ![p] = "reply"]
  /\ UNCHANGED <<client, sent, wire, mutex, temp, file>>

(* Read general: the only build that saves a profile that is not on disk *)
ReadGeneral(p) ==
  /\ pc[p] = "handle"
  /\ Addressed(buffer[p], ReadFlash, General) /\ Deserializes(buffer[p], General)
  /\ request'  = [request EXCEPT ![p] = <<ReadFlash, General, <<>>>>]
  /\ response' = [response EXCEPT ![p] =
                    ResponsePacket(General, Build(General, profile.general))]
  /\ profile'  = [profile EXCEPT !.general = Touched(General, @)]
  /\ buffer'   = [buffer EXCEPT ![p] = <<>>]
  /\ pc' = [pc EXCEPT ![p] = IF profile.general.exists THEN "reply" ELSE "save"]
  /\ UNCHANGED <<client, sent, wire, mutex, temp, file>>

(* Write basic, pedal and throttle: parse up to config = temp *)
Write(p) ==
  /\ pc[p] = "handle"
  /\ \E t \in ConfigType :
       /\ Addressed(buffer[p], WriteFlash, t) /\ Deserializes(buffer[p], t)
       /\ LET b == Payload(buffer[p], t)
          IN  /\ request'  = [request EXCEPT ![p] = <<WriteFlash, t, b>>]
              /\ response' = [response EXCEPT ![p] = StatusPacket(t, Status(t, b))]
              /\ IF Accepted(t, b)
                 THEN /\ temp' = [temp EXCEPT ![p] = Adding(t, b, profile.config)]
                      /\ pc' = [pc EXCEPT ![p] = "commit"]
                 ELSE /\ pc' = [pc EXCEPT ![p] = "reply"]
                      /\ UNCHANGED temp
  /\ buffer' = [buffer EXCEPT ![p] = <<>>]
  /\ UNCHANGED <<client, sent, wire, mutex, profile, file>>

(* Mutant: config.save() is forgotten *)
CommitUnsaved(p) ==
  /\ pc[p] = "commit"
  /\ profile' = [profile EXCEPT !.config = temp[p]]
  /\ pc' = [pc EXCEPT ![p] = "reply"]
  /\ UNCHANGED <<client, sent, wire, buffer, mutex, request, temp, response, file>>

Commit(p) ==
  /\ pc[p] = "commit"
  /\ profile' = [profile EXCEPT !.config = temp[p]]
  /\ pc' = [pc EXCEPT ![p] = "save"]
  /\ UNCHANGED <<client, sent, wire, buffer, mutex, request, temp, response, file>>

-----------------------------------------------------------------------------
(* profile::save *)

(* The profile, and the file, that the request of p has to do with *)
Which(p) == IF request[p][2] = General THEN "general" ELSE "config"

(* What is on disk then: all lines, or on a full disk, which nobody        *)
(* notices, those that went there, the last one whole or not               *)
Saved(d) == {Holding(d)} \union
            IF "diskfull" \in Fault THEN {Holding(c) : c \in Cuts(d, KeyOrder)} \union TornFiles(d)
            ELSE {}

(* The file has been opened, which empties it, and lines have been written *)
Save(p) ==
  /\ pc[p] = "save"
  /\ LET f == Which(p)
     IN  /\ \E c \in Saved(profile[f].data) : file' = [file EXCEPT ![f] = c]
         /\ profile' = [profile EXCEPT ![f].exists = TRUE]
  /\ pc' = [pc EXCEPT ![p] = "reply"]
  /\ UNCHANGED <<client, sent, wire, buffer, mutex, request, temp, response>>

(* Mutant: exists_ is set before the file has been opened *)
SaveFailsExisting(p) ==
  /\ pc[p] = "save" /\ "open" \in Fault
  /\ profile' = [profile EXCEPT ![Which(p)].exists = TRUE]
  /\ Leave(p)
  /\ UNCHANGED <<client, sent, wire, buffer, file>>

(* save_as throws, out of parse or build: the request is gone, config has  *)
(* been changed, and the client gets no answer                             *)
SaveFails(p) ==
  /\ pc[p] = "save" /\ "open" \in Fault
  /\ Leave(p)
  /\ UNCHANGED <<client, sent, wire, buffer, profile, file>>

(* The response reaches the client, which is waiting or not; or WriteFile  *)
(* fails, or times out with the response half sent                         *)
Reply(p) ==
  /\ pc[p] = "reply"
  /\ \/ client' = [client EXCEPT ![p] = <<>>]
     \/ "write" \in Fault /\ UNCHANGED client
  /\ Leave(p)
  /\ UNCHANGED <<sent, wire, buffer, profile, file>>

-----------------------------------------------------------------------------
(* The only way to stop the emulator is to kill it. A worker that is just  *)
(* saving leaves a prefix of the lines, or has not opened the file yet.    *)
(* The process that is started next reads the files again, as far as it    *)
(* can; what was in the buffers and on the lines is lost                   *)
Kill ==
  /\ "kill" \in Fault
  /\ file' \in {file} \union
       UNION {{[file EXCEPT ![Which(p)] = Holding(c)] :
                 c \in Cuts(profile[Which(p)].data, KeyOrder)} :
              p \in {q \in Port : pc[q] = "save"}}
  /\ \E opened \in Opened(file') : profile' = Profiles(opened) /\ pc' = Places(opened)
  /\ wire'     = [p \in Port |-> <<>>]
  /\ buffer'   = [p \in Port |-> <<>>]
  /\ mutex'    = NoPort
  /\ request'  = [p \in Port |-> NoRequest]
  /\ temp'     = [p \in Port |-> NoProfile]
  /\ response' = [p \in Port |-> <<>>]
  /\ UNCHANGED <<client, sent>>

Handle(p) == \/ TooShort(p) \/ Reject(p) \/ Discard(p)
             \/ ReadConfig(p) \/ ReadGeneral(p) \/ Write(p)

Worker(p) == \/ Connect(p) \/ Poll(p) \/ Lock(p) \/ Handle(p)
             \/ Commit(p) \/ Save(p) \/ SaveFails(p) \/ Reply(p)

Client(p) == Send(p) \/ Disturb(p) \/ GiveUp(p)

Next == Kill \/ \E p \in Port : Client(p) \/ Worker(p)

Spec == Init /\ [][Next]_vars

(* Every worker is a thread that the scheduler runs again and again; and a *)
(* worker that wants the mutex gets it although others keep taking it,     *)
(* since every one of them waits in ReadFile without it in between         *)
Fairness == \A p \in Port : WF_vars(Worker(p)) /\ SF_vars(Lock(p))

LiveSpec == Spec /\ Fairness

-----------------------------------------------------------------------------
IsRequest(r) ==
  \/ r = NoRequest
  \/ \E t \in PacketType : r = <<ReadFlash, t, <<>>>>
  \/ \E t \in ConfigType : /\ r = <<WriteFlash, t, r[3]>>
                            /\ r[3] \in [1..RequestPayloadSize(t) -> Byte]

TypeOK ==
  /\ client   \in [Port -> Message \union {<<>>}]
  /\ sent     \in 0..MaxSends
  /\ wire     \in [Port -> Seq(Byte)]
  /\ buffer   \in [Port -> Seq(Byte)]
  /\ pc       \in [Port -> {"start", "poll", "lock", "handle",
                            "commit", "save", "reply", "done"}]
  /\ mutex    \in Port \union {NoPort}
  /\ DOMAIN request = Port /\ \A p \in Port : IsRequest(request[p])
  /\ response \in [Port -> Seq(Int)]
  /\ DOMAIN temp = Port /\ \A p \in Port : IsProfile(temp[p])
  /\ DOMAIN profile = {"general", "config"} /\ DOMAIN file = {"general", "config"}
  /\ \A f \in {"general", "config"} : IsProfile(profile[f]) /\ IsFile(file[f])

(* serial_handler.h says "Thread safe": the workers are between the lock   *)
(* and the end of on_data_available one at a time, on every path through   *)
(* the switch, those through the exception handler included                *)
InMutex(p) == pc[p] \in {"handle", "commit", "save", "reply"}

MutexOwner == \A p \in Port : InMutex(p) <=> mutex = p

(* The copy of config that parse works on is not out of date when it is    *)
(* put back: it is still config plus the settings of the request, so that  *)
(* no write of another port and no default that find stored gets lost      *)
CopyIsFresh ==
  \A p \in Port : pc[p] = "commit" =>
    temp[p] = Adding(request[p][2], request[p][3], profile.config)

(* What a read of section t serves *)
View(t) == Build(t, profile.config)

(* As long as the process runs, a section is served differently only after *)
(* a write of this very section, and then it is what the write said. The   *)
(* defaults that find stores, rejected writes and saves move nothing       *)
OnlyCommitsMove ==
  [][~Kill => \A t \in ConfigType : View(t)' # View(t) =>
       \E p \in Port : pc[p] = "commit" /\ request[p][2] = t /\ View(t)' = request[p][3]]_profile

(* The config files at the start hold settings that could have been        *)
(* written: they have not been edited by hand beyond that                  *)
FilesPass == \A f \in ConfigFile : SettingsPass(Load(f))

(* Every section that is served could be written back as it is, also after *)
(* the process was killed in the middle of a save and defaults stand in    *)
(* for the lines that were lost. It needs disks that are not full          *)
ServedIsAccepted == \A t \in ConfigType : Accepted(t, View(t))

(* On disks that are full, where a value may lose its last digits: of all  *)
(* that is served only an assist level of 255 that has become 25 would not *)
(* be accepted                                                             *)
OnlyTornIsRefused ==
  \A t \in ConfigType : \A i \in Failing(t, View(t)) :
    Steps(t, View(t))[i][1] = "DA" /\ Steps(t, View(t))[i][2] = 25

(* build indexes the array of wheels within its bounds, whatever has been   *)
(* written, and whatever part of it was saved and read again               *)
WheelIndexInRange == WheelInRange(profile.config)

(* profile.h: exists() "returns true if profile exists on disk". The other *)
(* way round it is not so for a file that could not be opened at the       *)
(* start, nor where a bad line has kept the workers from being launched    *)
ExistsMeansOnDisk ==
  \A f \in {"general", "config"} :
    /\ profile[f].exists => file[f] # NoFile
    /\ Fault \intersect {"read", "diskfull"} = {} => (file[f] # NoFile => profile[f].exists)

(* Between two requests the file of a profile that exists holds what the   *)
(* profile holds. It needs profiles that can be opened and disks that are  *)
(* not full                                                                *)
MemoryIsOnDisk ==
  \A f \in {"general", "config"} :
    (profile[f].exists /\ \A p \in Port : pc[p] # "save") =>
      file[f] = Holding(profile[f].data)

(* profile.h: save() "saves the profile". When the emulator is about to    *)
(* answer "success" to a write, a process that is started from the file    *)
(* serves the section as it was written                                    *)
SuccessIsStored ==
  \A p \in Port :
    LET t == request[p][2]
    IN  (pc[p] = "reply" /\ request[p][1] = WriteFlash
           /\ response[p] = StatusPacket(t, Success(t))) =>
        Readable(file.config) /\ Build(t, Load(file.config)) = request[p][3]

(* A packet that has arrived in full and fails its verification *)
Wedged(p) == /\ Checked(buffer[p])
             /\ ~Truncated(buffer[p], buffer[p][2])
             /\ ~Deserializes(buffer[p], buffer[p][2])

(* The buffer is emptied only for a request that is taken, and grows only  *)
(* at its end: nothing that arrives later gets a port past a bad packet    *)
WedgedForever == [][\A p \in Port : Wedged(p) => Wedged(p)' \/ Kill]_vars

(* With clients that wait for their answer and lines that are not          *)
(* disturbed, however the input is cut into pieces: an idle client has     *)
(* nothing under way, and the request of a waiting client is either on its *)
(* way, in one piece and alone, or the one that is being served            *)
RequestsKeepTheirFrame ==
  \A p \in Port :
    LET underway == buffer[p] \o wire[p]
    IN  IF client[p] = <<>> THEN underway = <<>> /\ request[p] = NoRequest
        ELSE IF request[p] = NoRequest THEN underway = client[p]
        ELSE /\ underway = <<>>
             /\ request[p][1] = client[p][1] /\ request[p][2] = client[p][2]
             /\ response[p][1] = client[p][2]
             /\ request[p][1] = WriteFlash =>
                  client[p] = Request(WriteFlash, request[p][2], request[p][3])

(* With disturbed lines: no write is carried out that no client sent, with *)
(* the damage that these lines do here                                     *)
OnlySentIsWritten ==
  \A p \in Port : pc[p] = "commit" =>
    Request(WriteFlash, request[p][2], request[p][3]) \in Message

(* A client that sends a request gets an answer *)
Answered == \A p \in Port : client[p] # <<>> ~> client[p] = <<>>

=============================================================================
