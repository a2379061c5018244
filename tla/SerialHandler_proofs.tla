------------------------ MODULE SerialHandler_proofs ------------------------
(***************************************************************************)
(* What SerialHandler guarantees for every number of ports, every set of   *)
(* requests, every noise, every combination of faults and all contents of  *)
(* the files that are in range                                             *)
(***************************************************************************)
EXTENDS SerialHandler, PacketBuilder_proofs

(* A worker that is about to put temp back: the request is a write of      *)
(* which every check passed, and temp is config plus its settings          *)
Committing(p) ==
  \E t \in ConfigType : \E b \in PayloadOf(t) :
    /\ request[p] = <<WriteFlash, t, b>>
    /\ Accepted(t, b)
    /\ temp[p] = Adding(t, b, profile.config)

CommitsAreFresh == \A p \in Port : pc[p] = "commit" => Committing(p)

(* The wheel is in range in memory and would be after a restart *)
WheelsInRange == WheelInRange(profile.config) /\ WheelInRange(Load(file.config))

(* Only a full disk leaves a file that the constructor of profile refuses  *)
FilesReadable ==
  "diskfull" \notin Fault => \A f \in {"general", "config"} : Readable(file[f])

(* The inductive invariant. Mutual exclusion makes CommitsAreFresh         *)
(* inductive: no other worker moves config while this one is at "commit";  *)
(* CommitsAreFresh makes types, wheels and existence inductive: what is    *)
(* put back is a profile, with a wheel in range, that is on disk if config *)
(* is. That a file which is there exists needs files that can be read      *)
IInv == /\ TypeOK
        /\ MutexOwner
        /\ CommitsAreFresh
        /\ WheelsInRange
        /\ FilesReadable
        /\ ExistsMeansOnDisk

-----------------------------------------------------------------------------
(* The payload of a packet that is long enough has a byte in every place *)
LEMMA PayloadType ==
  ASSUME NEW data \in Seq(Byte), NEW t \in ConfigType, ~Truncated(data, t)
  PROVE  Payload(data, t) \in PayloadOf(t)
<1>1. RequestPayloadSize(t) \in Nat
  BY DEF RequestPayloadSize, ConfigType, General, Basic, Pedal, Throttle
<1>2. Len(data) >= RequestPayloadSize(t) + 4 /\ Len(data) \in Nat
  BY <1>1 DEF Truncated, RequestSize
<1>3. Payload(data, t) = SubSeq(data, 4, RequestPayloadSize(t) + 3)
  BY <1>1 DEF Payload, RequestSize
<1> DEFINE n == RequestPayloadSize(t)
<1> HIDE DEF n
<1>4. \A i \in 4..(n + 3) : i \in 1..Len(data) /\ data[i] \in Byte
  BY <1>1, <1>2 DEF n
<1>5. SubSeq(data, 4, n + 3) = [i \in 1..n |-> data[i + 3]]
  BY <1>1, <1>2, SMT DEF n
<1>6. \A i \in 1..n : data[i + 3] \in Byte
  BY <1>1, <1>4, SMT DEF n
<1> QED BY <1>3, <1>5, <1>6 DEF n, PayloadOf

(* What is sent is made of numbers *)
LEMMA ResponseType ==
  ASSUME NEW t \in PacketType, NEW payload \in Seq(Int)
  PROVE  ResponsePacket(t, payload) \in Seq(Int)
<1>1. ResponseSize(t) \in Int /\ t \in Int
  BY DEF ResponseSize, RequestPayloadSize, PacketType, ConfigType, General, Basic, Pedal, Throttle
<1> QED BY <1>1 DEF ResponsePacket

(* A file with settings that are left of d, or with a bad line *)
Left(f, d) == f = Garbled \/ \E c : f = Holding(c) /\ Worn(c, d)

(* What save leaves is left of what was saved; all of it, if disks are not *)
(* full                                                                    *)
LEMMA SavedFile ==
  ASSUME NEW d, IsData(d), NEW f \in Saved(d)
  PROVE  Left(f, d) /\ ("diskfull" \notin Fault => f = Holding(d))
<1>1. Worn(d, d)
  BY DEF Worn
<1>2. \A c \in Cuts(d, KeyOrder) : Worn(c, d)
  BY CutsType DEF Worn
<1>3. \/ f = Holding(d)
      \/ /\ "diskfull" \in Fault
         /\ f \in TornFiles(d) \/ \E c \in Cuts(d, KeyOrder) : f = Holding(c)
  BY DEF Saved
<1> QED BY <1>1, <1>2, <1>3, TornType DEF Left

(* What a process that ends in a save leaves can be read *)
LEMMA CutFile ==
  ASSUME NEW d, IsData(d), NEW c \in Cuts(d, KeyOrder)
  PROVE  /\ Left(Holding(c), d) /\ Readable(Holding(c))
         /\ Load(Holding(c)).data = c
         /\ DOMAIN c \subseteq DOMAIN d /\ \A k \in DOMAIN c : c[k] = d[k]
<1>1. IsData(c) /\ DOMAIN c \subseteq DOMAIN d /\ \A k \in DOMAIN c : c[k] = d[k]
  BY CutsType
<1> QED BY <1>1, HoldingType DEF Left, Worn

(* Whatever is left of a profile is a file, with a wheel in range *)
LEMMA LeftType ==
  ASSUME NEW p, IsProfile(p), NEW f, Left(f, p.data)
  PROVE  IsFile(f) /\ f # NoFile /\ (WheelInRange(p) => WheelInRange(Load(f)))
<1>1. CASE f = Garbled
  <2> DEFINE g == [k \in {BadLine} |-> 0]
  <2>1. IsFile(f) /\ f # NoFile
    BY <1>1 DEF IsFile, Garbled, Holding, NoFile
  <2>2. (CHOOSE d \in Holding(g) : TRUE) = g
    BY DEF Holding
  <2>3. Load(f).data = g
    BY <1>1, <2>1, <2>2 DEF Load, Garbled
  <2>4. <<Basic, "WD">> \notin DOMAIN g
    <3>1. Len(<<Basic, "WD">>) = 2 /\ Len(<<>>) = 0
      OBVIOUS
    <3> QED BY <3>1 DEF BadLine
  <2> HIDE DEF g
  <2>5. WheelInRange(Load(f))
    BY <2>3, <2>4 DEF WheelInRange, Find
  <2> QED BY <2>1, <2>5
<1>2. ASSUME NEW c, f = Holding(c), Worn(c, p.data) PROVE IsFile(f) /\ f # NoFile /\ (WheelInRange(p) => WheelInRange(Load(f)))
  <2>1. IsFile(f) /\ f # NoFile /\ Load(f) = [exists |-> TRUE, data |-> c]
    BY <1>2, HoldingType DEF Worn
  <2>2. ASSUME WheelInRange(p) PROVE WheelInRange(Load(f))
    <3>1. WheelInRange([exists |-> TRUE, data |-> p.data])
      BY <2>2 DEF WheelInRange, Find
    <3> QED BY <1>2, <2>1, <3>1, WornWheel
  <2> QED BY <2>1, <2>2
<1> QED BY <1>1, <1>2 DEF Left

(* The profiles that the constructors of a process make of the files: one  *)
(* that is not loaded as it is on disk is empty                            *)
LEMMA Starts ==
  ASSUME NEW files, DOMAIN files = {"general", "config"},
         \A f \in {"general", "config"} : IsFile(files[f]),
         NEW opened \in Opened(files)
  PROVE  /\ DOMAIN Profiles(opened) = {"general", "config"}
         /\ \A f \in {"general", "config"} :
              /\ \/ Profiles(opened)[f] = NoProfile
                 \/ Readable(files[f]) /\ Profiles(opened)[f] = Load(files[f])
              /\ IsProfile(Profiles(opened)[f])
              /\ Profiles(opened)[f].exists => files[f] # NoFile
         /\ Places(opened) \in [Port -> {"start", "done"}]
         /\ "read" \notin Fault /\ (\A f \in {"general", "config"} : Readable(files[f])) =>
              \A f \in {"general", "config"} : Profiles(opened)[f] = Load(files[f])
<1>1. /\ DOMAIN opened = {"general", "config"}
      /\ opened.general \in Opens(files.general) /\ opened.config \in Opens(files.config)
  BY DEF Opened
<1>2. \A f \in {"general", "config"} : opened[f] = files[f] \/ ("read" \in Fault /\ opened[f] = NoFile)
  BY <1>1 DEF Opens
<1>3. /\ DOMAIN Profiles(opened) = {"general", "config"}
      /\ \A f \in {"general", "config"} :
           Profiles(opened)[f] = IF Started(opened) THEN Load(opened[f]) ELSE NoProfile
  BY <1>1 DEF Profiles
<1>4. Load(NoFile) = NoProfile /\ IsProfile(NoProfile) /\ ~NoProfile.exists /\ Readable(NoFile)
  BY DEF Load, NoProfile, NoData, IsProfile, IsData, Readable, Garbled, Holding, NoFile
<1>5. Started(opened) => \A f \in {"general", "config"} : Readable(opened[f])
  BY <1>1 DEF Started
<1>6. ASSUME NEW f \in {"general", "config"}
      PROVE  \/ Profiles(opened)[f] = NoProfile
             \/ Readable(files[f]) /\ Profiles(opened)[f] = Load(files[f])
  BY <1>2, <1>3, <1>4, <1>5
<1>7. ASSUME NEW f \in {"general", "config"}
      PROVE  IsProfile(Profiles(opened)[f]) /\ (Profiles(opened)[f].exists => files[f] # NoFile)
  <2>1. Readable(files[f]) => IsProfile(Load(files[f]))
    BY LoadType
  <2>2. Load(files[f]).exists => files[f] # NoFile
    BY <1>4
  <2> QED BY <1>4, <1>6, <2>1, <2>2
<1>8. Places(opened) \in [Port -> {"start", "done"}]
  BY DEF Places
<1>9. ASSUME "read" \notin Fault, \A f \in {"general", "config"} : Readable(files[f]),
             NEW f \in {"general", "config"}
      PROVE  Profiles(opened)[f] = Load(files[f])
  <2>1. Started(opened)
    BY <1>1, <1>2, <1>9 DEF Started
  <2> QED BY <1>2, <1>3, <1>9, <2>1
<1> QED BY <1>3, <1>6, <1>7, <1>8, <1>9

(* In the first state of a process its workers are not past "start"        *)
LEMMA InitPlaces == Init => pc \in [Port -> {"start", "done"}]
BY DEF Init, Places

LEMMA KillPlaces == Kill => pc' \in [Port -> {"start", "done"}]
BY DEF Kill, Places

(* The wheel of an empty profile is the default one *)
LEMMA EmptyWheel == WheelInRange(NoProfile)
BY DEF WheelInRange, Find, NoProfile, NoData

-----------------------------------------------------------------------------
(* The invariant holds at the start *)
LEMMA InitInv == Init => IInv
<1> SUFFICES ASSUME Init PROVE IInv
  OBVIOUS
<1>1. /\ DOMAIN file = {"general", "config"} /\ file.general \in GeneralFile
      /\ file.config \in ConfigFile
  BY DEF Init
<1>2. /\ \A f \in {"general", "config"} : IsFile(file[f]) /\ Readable(file[f])
      /\ WheelInRange(Load(file.config))
  BY <1>1, SerialHandlerAssumption DEF SerialHandlerAssumption
<1>3. PICK opened \in Opened(file) : profile = Profiles(opened) /\ pc = Places(opened)
  BY DEF Init
<1>4. /\ DOMAIN profile = {"general", "config"}
      /\ \A f \in {"general", "config"} :
           /\ profile[f] = NoProfile \/ profile[f] = Load(file[f])
           /\ IsProfile(profile[f])
           /\ profile[f].exists => file[f] # NoFile
      /\ pc \in [Port -> {"start", "done"}]
      /\ "read" \notin Fault => \A f \in {"general", "config"} : profile[f] = Load(file[f])
  BY <1>1, <1>2, <1>3, Starts
<1>5. TypeOK
  <2>1. IsProfile(NoProfile)
    BY DEF NoProfile, NoData, IsProfile, IsData
  <2> QED BY <1>1, <1>2, <1>4, <2>1, SerialHandlerAssumption
      DEF SerialHandlerAssumption, TypeOK, Init, IsRequest, NoRequest
<1>6. MutexOwner /\ CommitsAreFresh
  <2>1. \A p \in Port : pc[p] = "start" \/ pc[p] = "done"
    BY <1>4
  <2> QED BY <2>1, SerialHandlerAssumption
      DEF SerialHandlerAssumption, Init, MutexOwner, InMutex, CommitsAreFresh
<1>7. WheelsInRange /\ FilesReadable
  BY <1>2, <1>4, EmptyWheel DEF WheelsInRange, FilesReadable
<1>8. ExistsMeansOnDisk
  BY <1>4 DEF ExistsMeansOnDisk, Load
<1> QED BY <1>5, <1>6, <1>7, <1>8 DEF IInv

(* The client and the line: nothing that the workers share is touched *)
LEMMA ClientInv ==
  ASSUME IInv, NEW p \in Port, Client(p)
  PROVE  IInv'
<1>1. UNCHANGED <<pc, mutex, request, temp, response, profile, file>>
  BY DEF Client, Send, Disturb, GiveUp
<1>2. TypeOK'
  <2>1. /\ client' \in [Port -> Message \union {<<>>}]
        /\ sent' \in 0..MaxSends
        /\ wire' \in [Port -> Seq(Byte)]
        /\ buffer' = buffer
    <3>1. CASE Send(p)
      BY <3>1, SerialHandlerAssumption DEF SerialHandlerAssumption, IInv, TypeOK, Send
    <3>2. CASE Disturb(p)
      BY <3>2, SerialHandlerAssumption DEF SerialHandlerAssumption, IInv, TypeOK, Disturb
    <3>3. CASE GiveUp(p)
      BY <3>3 DEF IInv, TypeOK, GiveUp
    <3> QED BY <3>1, <3>2, <3>3 DEF Client
  <2> QED BY <1>1, <2>1 DEF IInv, TypeOK, IsRequest
<1>3. MutexOwner' /\ WheelsInRange' /\ FilesReadable' /\ ExistsMeansOnDisk'
  BY <1>1 DEF IInv, MutexOwner, InMutex, WheelsInRange, FilesReadable, ExistsMeansOnDisk
<1>4. CommitsAreFresh'
  BY <1>1 DEF IInv, CommitsAreFresh, Committing
<1> QED BY <1>2, <1>3, <1>4 DEF IInv

(* A worker outside the mutex *)
LEMMA OutsideInv ==
  ASSUME IInv, NEW p \in Port, Connect(p) \/ Poll(p)
  PROVE  IInv'
<1>1. UNCHANGED <<client, sent, mutex, request, temp, response, profile, file>>
  BY DEF Connect, Poll
<1>2. /\ ~InMutex(p) /\ \E l \in {"poll", "lock", "done"} : pc' = [pc EXCEPT ![p] = l]
  BY DEF Connect, Poll, InMutex
<1>3. wire' \in [Port -> Seq(Byte)] /\ buffer' \in [Port -> Seq(Byte)]
  <2>1. CASE Connect(p)
    BY <2>1 DEF Connect, IInv, TypeOK
  <2>2. CASE Poll(p)
    <3> DEFINE w == wire[p]
    <3>1. w \in Seq(Byte) /\ Len(w) \in Nat
      BY DEF IInv, TypeOK
    <3>2. PICK n \in {Len(w)} \union {k \in ReadSize : 0 < k /\ k < Len(w)} :
            /\ buffer' = [buffer EXCEPT ![p] = @ \o SubSeq(w, 1, n)]
            /\ wire'   = [wire EXCEPT ![p] = SubSeq(@, n + 1, Len(@))]
      BY <2>2 DEF Poll
    <3>3. n \in 0..Len(w)
      <4> HIDE DEF w
      <4>1. ReadSize \subseteq Nat
        BY SerialHandlerAssumption DEF SerialHandlerAssumption
      <4>2. n = Len(w) \/ (n \in Nat /\ n < Len(w))
        BY <4>1
      <4> QED BY <3>1, <4>2
    <3>4. SubSeq(w, 1, n) \in Seq(Byte) /\ SubSeq(w, n + 1, Len(w)) \in Seq(Byte)
      <4> HIDE DEF w
      <4>1. \A i \in 1..Len(w) : w[i] \in Byte
        BY <3>1
      <4>2. /\ \A i \in 1..n : w[i] \in Byte
            /\ \A i \in n + 1..Len(w) : w[i] \in Byte
            /\ n \in Int /\ n + 1 \in Int /\ Len(w) \in Int
        BY <3>1, <3>3, <4>1
      <4> QED BY <4>2, SubSeqProperties
    <3>5. wire \in [Port -> Seq(Byte)] /\ buffer \in [Port -> Seq(Byte)]
      BY DEF IInv, TypeOK
    <3>6. buffer[p] \o SubSeq(w, 1, n) \in Seq(Byte)
      BY <3>4, <3>5
    <3> QED BY <3>2, <3>4, <3>5, <3>6
  <2> QED BY <2>1, <2>2
<1>4. TypeOK'
  BY <1>1, <1>2, <1>3 DEF IInv, TypeOK, IsRequest
<1>5. MutexOwner'
  BY <1>1, <1>2 DEF IInv, TypeOK, MutexOwner, InMutex
<1>6. CommitsAreFresh'
  BY <1>1, <1>2 DEF IInv, TypeOK, CommitsAreFresh, Committing
<1>7. WheelsInRange' /\ FilesReadable' /\ ExistsMeansOnDisk'
  BY <1>1 DEF IInv, WheelsInRange, FilesReadable, ExistsMeansOnDisk
<1> QED BY <1>4, <1>5, <1>6, <1>7 DEF IInv

(* The lock_guard *)
LEMMA LockInv ==
  ASSUME IInv, NEW p \in Port, Lock(p)
  PROVE  IInv'
<1>1. TypeOK'
  BY DEF IInv, TypeOK, IsRequest, Lock
<1>2. MutexOwner'
  BY SerialHandlerAssumption DEF SerialHandlerAssumption, IInv, TypeOK, MutexOwner, InMutex, Lock
<1>3. CommitsAreFresh'
  BY DEF IInv, TypeOK, CommitsAreFresh, Committing, Lock
<1>4. WheelsInRange' /\ FilesReadable' /\ ExistsMeansOnDisk'
  BY DEF IInv, WheelsInRange, FilesReadable, ExistsMeansOnDisk, Lock
<1> QED BY <1>1, <1>2, <1>3, <1>4 DEF IInv

(* A worker that leaves on_data_available with both profiles as they are: *)
(* without an answer, after it, or because the file cannot be opened      *)
LEMMA LeaveInv ==
  ASSUME IInv, NEW p \in Port, InMutex(p), Leave(p), UNCHANGED <<profile, file>>,
         UNCHANGED <<sent, wire>>,
         \/ UNCHANGED client
         \/ client' = [client EXCEPT ![p] = <<>>],
         \/ UNCHANGED buffer
         \/ buffer' = [buffer EXCEPT ![p] = <<>>]
  PROVE  IInv'
<1>1. IsProfile(NoProfile)
  BY DEF NoProfile, NoData, IsProfile, IsData
<1>2. /\ client' \in [Port -> Message \union {<<>>}]
      /\ buffer' \in [Port -> Seq(Byte)]
      /\ response' \in [Port -> Seq(Int)]
      /\ pc' \in [Port -> {"start", "poll", "lock", "handle",
                           "commit", "save", "reply", "done"}]
  <2>1. client' \in [Port -> Message \union {<<>>}]
    BY DEF IInv, TypeOK
  <2>2. buffer' \in [Port -> Seq(Byte)]
    <3>1. buffer \in [Port -> Seq(Byte)] /\ <<>> \in Seq(Byte)
      BY DEF IInv, TypeOK
    <3> QED BY <3>1
  <2>3. response' \in [Port -> Seq(Int)]
    BY DEF IInv, TypeOK, Leave
  <2>4. pc' \in [Port -> {"start", "poll", "lock", "handle",
                         "commit", "save", "reply", "done"}]
    BY DEF IInv, TypeOK, Leave
  <2> QED BY <2>1, <2>2, <2>3, <2>4
<1>3. TypeOK'
  <2>1. DOMAIN request' = Port /\ \A q \in Port : IsRequest(request'[q])
    BY DEF IInv, TypeOK, IsRequest, NoRequest, Leave
  <2>2. DOMAIN temp' = Port /\ \A q \in Port : IsProfile(temp'[q])
    BY <1>1 DEF IInv, TypeOK, Leave
  <2>3. mutex' \in Port \union {NoPort}
    BY DEF Leave
  <2> QED BY <1>2, <2>1, <2>2, <2>3 DEF IInv, TypeOK
<1>4. MutexOwner'
  BY SerialHandlerAssumption DEF SerialHandlerAssumption, IInv, TypeOK, MutexOwner, InMutex, Leave
<1>5. CommitsAreFresh'
  BY DEF IInv, TypeOK, CommitsAreFresh, Committing, Leave
<1>6. WheelsInRange' /\ FilesReadable' /\ ExistsMeansOnDisk'
  BY DEF IInv, WheelsInRange, FilesReadable, ExistsMeansOnDisk
<1> QED BY <1>3, <1>4, <1>5, <1>6 DEF IInv

(* Worker p is the only one in the mutex, and is not at "commit" itself, so *)
(* that no copy of config is under way                                      *)
LEMMA NoCopyUnderWay ==
  ASSUME IInv, NEW p \in Port, InMutex(p), pc[p] # "commit"
  PROVE  \A q \in Port : pc[q] # "commit" /\ (q # p => ~InMutex(q))
BY DEF IInv, MutexOwner, InMutex

(* Read basic, pedal and throttle *)
LEMMA ReadConfigInv ==
  ASSUME IInv, NEW p \in Port, ReadConfig(p)
  PROVE  IInv'
<1> DEFINE t == buffer[p][2]
           r == ResponsePacket(t, Build(t, profile.config))
<1>1. t \in ConfigType
  BY DEF ReadConfig, ConfigRead, Addressed
<1>2. IsProfile(profile.config) /\ WheelInRange(profile.config)
  BY DEF IInv, TypeOK, WheelsInRange
<1>3. r \in Seq(Int)
  BY <1>1, <1>2, BuildType, ResponseType DEF PacketType
<1>4. /\ IsProfile(Touched(t, profile.config)) /\ WheelInRange(Touched(t, profile.config))
      /\ Touched(t, profile.config).exists = profile.config.exists
  BY <1>1, <1>2, TouchedType DEF PacketType
<1> HIDE DEF r
<1>5. /\ request' = [request EXCEPT ![p] = <<ReadFlash, t, <<>>>>]
      /\ response' = [response EXCEPT ![p] = r]
      /\ profile' = [profile EXCEPT !.config = Touched(t, @)]
      /\ buffer' = [buffer EXCEPT ![p] = <<>>]
      /\ pc[p] = "handle" /\ pc' = [pc EXCEPT ![p] = "reply"]
      /\ UNCHANGED <<client, sent, wire, mutex, temp, file>>
  BY DEF ReadConfig, r
<1>6. TypeOK'
  <2>1. \A q \in Port : IsRequest(request'[q])
    BY <1>1, <1>5 DEF IInv, TypeOK, IsRequest, PacketType
  <2>2. \A f \in {"general", "config"} : IsProfile(profile'[f]) /\ IsFile(file'[f])
    BY <1>4, <1>5 DEF IInv, TypeOK
  <2>3. /\ response' \in [Port -> Seq(Int)]
        /\ buffer' \in [Port -> Seq(Byte)]
        /\ pc' \in [Port -> {"start", "poll", "lock", "handle",
                             "commit", "save", "reply", "done"}]
        /\ DOMAIN request' = Port
        /\ DOMAIN profile' = {"general", "config"} /\ DOMAIN file' = {"general", "config"}
    BY <1>3, <1>5 DEF IInv, TypeOK
  <2> QED BY <1>5, <2>1, <2>2, <2>3 DEF IInv, TypeOK
<1>7. MutexOwner'
  BY <1>5 DEF IInv, TypeOK, MutexOwner, InMutex
<1>8. CommitsAreFresh'
  BY <1>5, NoCopyUnderWay DEF IInv, TypeOK, CommitsAreFresh, InMutex
<1>9. WheelsInRange' /\ FilesReadable' /\ ExistsMeansOnDisk'
  BY <1>4, <1>5 DEF IInv, TypeOK, WheelsInRange, FilesReadable, ExistsMeansOnDisk
<1> QED BY <1>6, <1>7, <1>8, <1>9 DEF IInv

(* Read general *)
LEMMA ReadGeneralInv ==
  ASSUME IInv, NEW p \in Port, ReadGeneral(p)
  PROVE  IInv'
<1> DEFINE r == ResponsePacket(General, Build(General, profile.general))
<1>1. IsProfile(profile.general) /\ General \in PacketType /\ General # Basic
  BY DEF IInv, TypeOK, PacketType, General, Basic
<1>2. r \in Seq(Int)
  BY <1>1, BuildType, ResponseType
<1>3. /\ IsProfile(Touched(General, profile.general))
      /\ Touched(General, profile.general).exists = profile.general.exists
  BY <1>1, TouchedType
<1> HIDE DEF r
<1>4. /\ request' = [request EXCEPT ![p] = <<ReadFlash, General, <<>>>>]
      /\ response' = [response EXCEPT ![p] = r]
      /\ profile' = [profile EXCEPT !.general = Touched(General, @)]
      /\ buffer' = [buffer EXCEPT ![p] = <<>>]
      /\ pc[p] = "handle"
      /\ \E l \in {"reply", "save"} : pc' = [pc EXCEPT ![p] = l]
      /\ UNCHANGED <<client, sent, wire, mutex, temp, file>>
  BY DEF ReadGeneral, r
<1>5. TypeOK'
  <2>1. \A q \in Port : IsRequest(request'[q])
    BY <1>1, <1>4 DEF IInv, TypeOK, IsRequest
  <2>2. \A f \in {"general", "config"} : IsProfile(profile'[f]) /\ IsFile(file'[f])
    BY <1>3, <1>4 DEF IInv, TypeOK
  <2>3. /\ response' \in [Port -> Seq(Int)]
        /\ buffer' \in [Port -> Seq(Byte)]
        /\ pc' \in [Port -> {"start", "poll", "lock", "handle",
                             "commit", "save", "reply", "done"}]
        /\ DOMAIN request' = Port
        /\ DOMAIN profile' = {"general", "config"} /\ DOMAIN file' = {"general", "config"}
    BY <1>2, <1>4 DEF IInv, TypeOK
  <2> QED BY <1>4, <2>1, <2>2, <2>3 DEF IInv, TypeOK
<1>6. MutexOwner'
  BY <1>4 DEF IInv, TypeOK, MutexOwner, InMutex
<1>7. CommitsAreFresh'
  BY <1>4, NoCopyUnderWay DEF IInv, TypeOK, CommitsAreFresh, InMutex
<1>8. WheelsInRange' /\ FilesReadable' /\ ExistsMeansOnDisk'
  BY <1>3, <1>4 DEF IInv, TypeOK, WheelsInRange, FilesReadable, ExistsMeansOnDisk
<1> QED BY <1>5, <1>6, <1>7, <1>8 DEF IInv

(* Write basic, pedal and throttle *)
LEMMA WriteInv ==
  ASSUME IInv, NEW p \in Port, Write(p)
  PROVE  IInv'
<1>1. PICK t \in ConfigType :
        /\ Addressed(buffer[p], WriteFlash, t) /\ Deserializes(buffer[p], t)
        /\ LET b == Payload(buffer[p], t)
           IN  /\ request'  = [request EXCEPT ![p] = <<WriteFlash, t, b>>]
               /\ response' = [response EXCEPT ![p] = StatusPacket(t, Status(t, b))]
               /\ IF Accepted(t, b)
                  THEN /\ temp' = [temp EXCEPT ![p] = Adding(t, b, profile.config)]
                       /\ pc' = [pc EXCEPT ![p] = "commit"]
                  ELSE /\ pc' = [pc EXCEPT ![p] = "reply"]
                       /\ UNCHANGED temp
  BY DEF Write
<1> DEFINE b == Payload(buffer[p], t)
           r == StatusPacket(t, Status(t, b))
           c == Adding(t, b, profile.config)
<1>2. b \in PayloadOf(t)
  BY <1>1, PayloadType DEF IInv, TypeOK, Deserializes
<1>3. r \in Seq(Int)
  <2>1. Status(t, b) \in Nat /\ t \in Int
    BY <1>2, StatusType DEF ConfigType, Basic, Pedal, Throttle
  <2> HIDE DEF b
  <2> QED BY <2>1 DEF StatusPacket
<1>4. IsProfile(c)
  BY <1>2, AddingType DEF IInv, TypeOK
<1>5. /\ request' = [request EXCEPT ![p] = <<WriteFlash, t, b>>]
      /\ response' = [response EXCEPT ![p] = r]
      /\ \/ Accepted(t, b) /\ temp' = [temp EXCEPT ![p] = c] /\ pc' = [pc EXCEPT ![p] = "commit"]
         \/ pc' = [pc EXCEPT ![p] = "reply"] /\ temp' = temp
  BY <1>1
<1>6. /\ pc[p] = "handle" /\ buffer' = [buffer EXCEPT ![p] = <<>>]
      /\ UNCHANGED <<client, sent, wire, mutex, profile, file>>
  BY DEF Write
<1> HIDE DEF b, r, c
<1>7. TypeOK'
  <2>1. \A q \in Port : IsRequest(request'[q])
    <3>1. IsRequest(<<WriteFlash, t, b>>)
      BY <1>2 DEF IsRequest, PayloadOf
    <3> QED BY <1>5, <3>1 DEF IInv, TypeOK
  <2>2. DOMAIN temp' = Port /\ \A q \in Port : IsProfile(temp'[q])
    BY <1>4, <1>5 DEF IInv, TypeOK
  <2>3. response' \in [Port -> Seq(Int)] /\ DOMAIN request' = Port
    BY <1>3, <1>5 DEF IInv, TypeOK
  <2>4. buffer' \in [Port -> Seq(Byte)]
    BY <1>6 DEF IInv, TypeOK
  <2>5. pc' \in [Port -> {"start", "poll", "lock", "handle",
                         "commit", "save", "reply", "done"}]
    BY <1>5 DEF IInv, TypeOK
  <2> QED BY <1>6, <2>1, <2>2, <2>3, <2>4, <2>5 DEF IInv, TypeOK
<1>8. MutexOwner'
  BY <1>5, <1>6 DEF IInv, TypeOK, MutexOwner, InMutex
<1>9. CommitsAreFresh'
  <2> SUFFICES ASSUME NEW q \in Port, pc'[q] = "commit" PROVE Committing(q)'
    BY DEF CommitsAreFresh
  <2>1. \A o \in Port : pc[o] # "commit"
    BY <1>6, NoCopyUnderWay DEF InMutex
  <2>2. q = p /\ Accepted(t, b) /\ temp'[p] = c /\ request'[p] = <<WriteFlash, t, b>>
    BY <1>5, <2>1 DEF IInv, TypeOK
  <2> QED BY <1>2, <1>6, <2>2 DEF Committing, c
<1>10. WheelsInRange' /\ FilesReadable' /\ ExistsMeansOnDisk'
  BY <1>6 DEF IInv, WheelsInRange, FilesReadable, ExistsMeansOnDisk
<1> QED BY <1>7, <1>8, <1>9, <1>10 DEF IInv

(* config = temp *)
LEMMA CommitInv ==
  ASSUME IInv, NEW p \in Port, Commit(p)
  PROVE  IInv'
<1>1. /\ pc[p] = "commit" /\ pc' = [pc EXCEPT ![p] = "save"]
      /\ profile' = [profile EXCEPT !.config = temp[p]]
      /\ UNCHANGED <<client, sent, wire, buffer, mutex, request, temp, response, file>>
  BY DEF Commit
<1>2. /\ IsProfile(temp[p]) /\ WheelInRange(temp[p])
      /\ temp[p].exists = profile.config.exists
  <2>1. Committing(p)
    BY <1>1 DEF IInv, CommitsAreFresh
  <2> QED BY <2>1, AddingType DEF Committing, IInv, TypeOK, WheelsInRange
<1>3. TypeOK'
  <2>1. \A f \in {"general", "config"} : IsProfile(profile'[f]) /\ IsFile(file'[f])
    BY <1>1, <1>2 DEF IInv, TypeOK
  <2>2. \A q \in Port : IsRequest(request'[q])
    BY <1>1 DEF IInv, TypeOK, IsRequest
  <2> QED BY <1>1, <2>1, <2>2 DEF IInv, TypeOK
<1>4. MutexOwner'
  BY <1>1 DEF IInv, TypeOK, MutexOwner, InMutex
<1>5. CommitsAreFresh'
  <2>1. \A q \in Port : pc'[q] # "commit"
    BY <1>1 DEF IInv, TypeOK, MutexOwner, InMutex
  <2> QED BY <2>1 DEF CommitsAreFresh
<1>6. WheelsInRange' /\ FilesReadable' /\ ExistsMeansOnDisk'
  BY <1>1, <1>2 DEF IInv, TypeOK, WheelsInRange, FilesReadable, ExistsMeansOnDisk
<1> QED BY <1>3, <1>4, <1>5, <1>6 DEF IInv

(* profile::save, complete or on a full disk *)
LEMMA SaveInv ==
  ASSUME IInv, NEW p \in Port, Save(p)
  PROVE  IInv'
<1> DEFINE f == Which(p)
<1>1. f \in {"general", "config"}
  BY DEF Which
<1>2. PICK saved \in Saved(profile[f].data) : file' = [file EXCEPT ![f] = saved]
  BY DEF Save
<1> HIDE DEF f
<1>3. /\ pc[p] = "save" /\ pc' = [pc EXCEPT ![p] = "reply"]
      /\ profile' = [profile EXCEPT ![f].exists = TRUE]
      /\ UNCHANGED <<client, sent, wire, buffer, mutex, request, temp, response>>
  BY DEF Save, f
<1>4. \A g \in {"general", "config"} : IsProfile(profile[g]) /\ IsFile(file[g])
  BY DEF IInv, TypeOK
<1>5. /\ IsFile(saved) /\ saved # NoFile
      /\ WheelInRange(profile[f]) => WheelInRange(Load(saved))
      /\ "diskfull" \notin Fault => Readable(saved)
  <2>1. IsData(profile[f].data)
    BY <1>1, <1>4 DEF IsProfile
  <2>2. Left(saved, profile[f].data) /\ ("diskfull" \notin Fault => saved = Holding(profile[f].data))
    BY <1>2, <2>1, SavedFile
  <2> QED BY <1>1, <1>4, <2>1, <2>2, LeftType, HoldingType
<1>6. /\ profile'[f] = [exists |-> TRUE, data |-> profile[f].data]
      /\ \A g \in {"general", "config"} \ {f} : profile'[g] = profile[g]
      /\ DOMAIN profile' = {"general", "config"}
  <2>1. DOMAIN profile = {"general", "config"}
    BY DEF IInv, TypeOK
  <2>2. profile'[f] = [profile[f] EXCEPT !.exists = TRUE]
    BY <1>1, <1>3, <2>1
  <2>3. profile[f] = [exists |-> profile[f].exists, data |-> profile[f].data]
    BY <1>1, <1>4 DEF IsProfile
  <2>4. profile'[f] = [exists |-> TRUE, data |-> profile[f].data]
    BY <2>2, <2>3
  <2> QED BY <1>1, <1>3, <2>1, <2>4
<1>7. /\ file'[f] = saved
      /\ \A g \in {"general", "config"} \ {f} : file'[g] = file[g]
      /\ DOMAIN file' = {"general", "config"}
  BY <1>1, <1>2 DEF IInv, TypeOK
<1>8. TypeOK'
  <2>1. \A g \in {"general", "config"} : IsProfile(profile'[g]) /\ IsFile(file'[g])
    <3>1. IsProfile(profile'[f])
      BY <1>1, <1>4, <1>6 DEF IsProfile
    <3>2. IsFile(file'[f])
      BY <1>5, <1>7
    <3> QED BY <1>4, <1>6, <1>7, <3>1, <3>2
  <2>2. \A q \in Port : IsRequest(request'[q])
    BY <1>3 DEF IInv, TypeOK, IsRequest
  <2>3. pc' \in [Port -> {"start", "poll", "lock", "handle",
                         "commit", "save", "reply", "done"}]
    BY <1>3 DEF IInv, TypeOK
  <2> QED BY <1>3, <1>6, <1>7, <2>1, <2>2, <2>3 DEF IInv, TypeOK
<1>9. MutexOwner'
  BY <1>3 DEF IInv, TypeOK, MutexOwner, InMutex
<1>10. CommitsAreFresh'
  BY <1>3, NoCopyUnderWay DEF IInv, TypeOK, CommitsAreFresh, InMutex
<1>11. WheelsInRange'
  <2>1. WheelInRange(profile.config) /\ WheelInRange(Load(file.config))
    BY DEF IInv, WheelsInRange
  <2>2. CASE f = "config"
    BY <1>5, <1>6, <1>7, <2>1, <2>2 DEF WheelsInRange, WheelInRange, Find
  <2>3. CASE f = "general"
    BY <1>6, <1>7, <2>1, <2>3 DEF WheelsInRange
  <2> QED BY <1>1, <2>2, <2>3
<1>12. ExistsMeansOnDisk' /\ FilesReadable'
  BY <1>1, <1>5, <1>6, <1>7 DEF IInv, ExistsMeansOnDisk, FilesReadable
<1> QED BY <1>8, <1>9, <1>10, <1>11, <1>12 DEF IInv

(* The process is killed, and started again *)
LEMMA KillInv ==
  ASSUME IInv, Kill
  PROVE  IInv'
<1>1. \A g \in {"general", "config"} : IsProfile(profile[g]) /\ IsFile(file[g])
  BY DEF IInv, TypeOK
<1>2. /\ WheelInRange(profile.config) /\ WheelInRange(Load(file.config))
      /\ "diskfull" \notin Fault => \A g \in {"general", "config"} : Readable(file[g])
  BY DEF IInv, WheelsInRange, FilesReadable
<1>3. /\ DOMAIN file' = {"general", "config"}
      /\ \A g \in {"general", "config"} : IsFile(file'[g])
      /\ WheelInRange(Load(file'.config))
      /\ "diskfull" \notin Fault => \A g \in {"general", "config"} : Readable(file'[g])
  <2>1. CASE file' = file
    BY <1>1, <1>2, <2>1 DEF IInv, TypeOK
  <2>2. ASSUME NEW p \in Port, NEW c \in Cuts(profile[Which(p)].data, KeyOrder),
               file' = [file EXCEPT ![Which(p)] = Holding(c)]
        PROVE  <1>3!1 /\ <1>3!2 /\ <1>3!3 /\ <1>3!4
    <3> DEFINE f == Which(p)
    <3>1. f \in {"general", "config"}
      BY DEF Which
    <3> HIDE DEF f
    <3>2. /\ IsFile(Holding(c)) /\ (WheelInRange(profile[f]) => WheelInRange(Load(Holding(c))))
          /\ Readable(Holding(c))
      <4>1. IsData(profile[f].data)
        BY <1>1, <3>1 DEF IsProfile
      <4>2. Left(Holding(c), profile[f].data) /\ Readable(Holding(c))
        BY <4>1, CutFile DEF f
      <4> QED BY <1>1, <3>1, <4>2, LeftType
    <3>3. file' = [file EXCEPT ![f] = Holding(c)]
      BY <2>2 DEF f
    <3>4. DOMAIN file = {"general", "config"}
      BY DEF IInv, TypeOK
    <3>5. file'[f] = Holding(c) /\ \A g \in {"general", "config"} \ {f} : file'[g] = file[g]
      BY <3>1, <3>3, <3>4
    <3>6. DOMAIN file' = {"general", "config"}
      BY <3>3, <3>4
    <3> QED BY <1>1, <1>2, <3>1, <3>2, <3>5, <3>6
  <2>3. \/ file' = file
        \/ \E p \in Port : \E c \in Cuts(profile[Which(p)].data, KeyOrder) :
             file' = [file EXCEPT ![Which(p)] = Holding(c)]
    BY DEF Kill
  <2> QED BY <2>1, <2>2, <2>3
<1>4. PICK opened \in Opened(file') : profile' = Profiles(opened) /\ pc' = Places(opened)
  BY DEF Kill
<1>5. /\ DOMAIN profile' = {"general", "config"}
      /\ \A g \in {"general", "config"} :
           /\ profile'[g] = NoProfile \/ profile'[g] = Load(file'[g])
           /\ IsProfile(profile'[g])
           /\ profile'[g].exists => file'[g] # NoFile
      /\ pc' \in [Port -> {"start", "done"}]
      /\ Fault \intersect {"read", "diskfull"} = {} =>
           \A g \in {"general", "config"} : profile'[g] = Load(file'[g])
  BY <1>3, <1>4, Starts
<1>6. /\ wire' = [p \in Port |-> <<>>] /\ buffer' = [p \in Port |-> <<>>]
      /\ mutex' = NoPort
      /\ request' = [p \in Port |-> NoRequest] /\ temp' = [p \in Port |-> NoProfile]
      /\ response' = [p \in Port |-> <<>>] /\ UNCHANGED <<client, sent>>
  BY DEF Kill
<1>7. TypeOK'
  <2>1. IsProfile(NoProfile)
    BY DEF NoProfile, NoData, IsProfile, IsData
  <2>2. \A q \in Port : IsProfile(temp'[q]) /\ IsRequest(request'[q])
    BY <1>6, <2>1 DEF IsRequest
  <2> QED BY <1>3, <1>5, <1>6, <2>2 DEF IInv, TypeOK
<1>8. MutexOwner' /\ CommitsAreFresh'
  <2>1. \A p \in Port : pc'[p] = "start" \/ pc'[p] = "done"
    BY <1>5
  <2> QED BY <1>6, <2>1, SerialHandlerAssumption
      DEF SerialHandlerAssumption, MutexOwner, InMutex, CommitsAreFresh
<1>9. WheelsInRange' /\ FilesReadable'
  BY <1>3, <1>5, EmptyWheel DEF WheelsInRange, FilesReadable
<1>10. ExistsMeansOnDisk'
  BY <1>5 DEF ExistsMeansOnDisk, Load
<1> QED BY <1>7, <1>8, <1>9, <1>10 DEF IInv

-----------------------------------------------------------------------------
(* Every step keeps the invariant *)
LEMMA NextInv == IInv /\ [Next]_vars => IInv'
<1> SUFFICES ASSUME IInv, [Next]_vars PROVE IInv'
  OBVIOUS
<1>1. CASE UNCHANGED vars
  BY <1>1 DEF vars, IInv, TypeOK, IsRequest, MutexOwner, InMutex, CommitsAreFresh, Committing,
              WheelsInRange, FilesReadable, ExistsMeansOnDisk
<1>2. CASE Kill
  BY <1>2, KillInv
<1>3. ASSUME NEW p \in Port, Client(p) PROVE IInv'
  BY <1>3, ClientInv
<1>4. ASSUME NEW p \in Port, Worker(p) PROVE IInv'
  <2>1. CASE Connect(p) \/ Poll(p)
    BY <2>1, OutsideInv
  <2>2. CASE Lock(p)
    BY <2>2, LockInv
  <2>3. CASE TooShort(p)
    BY <2>3, LeaveInv DEF TooShort, InMutex
  <2>4. CASE Reject(p)
    BY <2>4, LeaveInv DEF Reject, InMutex
  <2>5. CASE Discard(p)
    BY <2>5, LeaveInv DEF Discard, InMutex
  <2>6. CASE ReadConfig(p)
    BY <2>6, ReadConfigInv
  <2>7. CASE ReadGeneral(p)
    BY <2>7, ReadGeneralInv
  <2>8. CASE Write(p)
    BY <2>8, WriteInv
  <2>9. CASE Commit(p)
    BY <2>9, CommitInv
  <2>10. CASE Save(p)
    BY <2>10, SaveInv
  <2>11. CASE SaveFails(p)
    BY <2>11, LeaveInv DEF SaveFails, InMutex
  <2>12. CASE Reply(p)
    BY <2>12, LeaveInv DEF Reply, InMutex
  <2> QED BY <1>4, <2>1, <2>2, <2>3, <2>4, <2>5, <2>6, <2>7, <2>8, <2>9, <2>10, <2>11, <2>12
          DEF Worker, Handle
<1> QED BY <1>1, <1>2, <1>3, <1>4 DEF Next

(* The invariant always holds                                              *)
LEMMA Invariance == Spec => []IInv
<1> QED BY InitInv, NextInv, PTL DEF Spec

(* TypeOK of the specification: every variable stays in its set *)
THEOREM TypeCorrect == Spec => []TypeOK
<1>1. IInv => TypeOK
  BY DEF IInv
<1> QED BY <1>1, Invariance, PTL

(* No two workers are ever between the lock and the end of                 *)
(* on_data_available, and the mutex is free when none is: serial_handler.h *)
(* promises "Thread safe"                                                  *)
THEOREM MutualExclusion == Spec => []MutexOwner
<1>1. IInv => MutexOwner
  BY DEF IInv
<1> QED BY <1>1, Invariance, PTL

(* What parse puts back with config = temp is the current config plus the  *)
(* settings of the request: no write and no default is lost                *)
THEOREM CopiesStayFresh == Spec => []CopyIsFresh
<1>1. IInv => CopyIsFresh
  <2> SUFFICES ASSUME IInv, NEW p \in Port, pc[p] = "commit"
               PROVE  temp[p] = Adding(request[p][2], request[p][3], profile.config)
    BY DEF CopyIsFresh
  <2>1. PICK t \in ConfigType : \E b \in PayloadOf(t) :
          request[p] = <<WriteFlash, t, b>> /\ temp[p] = Adding(t, b, profile.config)
    BY DEF IInv, CommitsAreFresh, Committing
  <2> QED BY <2>1
<1> QED BY <1>1, Invariance, PTL

(* If the config file is in range at the start, then build never indexes   *)
(* wheels outside its bounds, whatever is written and however saves end    *)
THEOREM WheelStaysInRange == Spec => []WheelIndexInRange
<1>1. IInv => WheelIndexInRange
  BY DEF IInv, WheelsInRange, WheelIndexInRange
<1> QED BY <1>1, Invariance, PTL

(* A profile that says it exists() is on disk, also after saves that       *)
(* failed, full disks, kills and starts that could not open a file or      *)
(* read it to its end; and where files that are there can be opened and    *)
(* disks are not full, a profile that is on disk says so                   *)
THEOREM ExistenceIsTracked == Spec => []ExistsMeansOnDisk
<1>1. IInv => ExistsMeansOnDisk
  BY DEF IInv
<1> QED BY <1>1, Invariance, PTL

-----------------------------------------------------------------------------
(* A bad packet stays a bad packet when more input arrives behind it *)
LEMMA WedgedExtended ==
  ASSUME NEW d \in Seq(Byte), NEW e \in Seq(Byte),
         Checked(d), ~Truncated(d, d[2]), ~Deserializes(d, d[2])
  PROVE  /\ Checked(d \o e)
         /\ ~Truncated(d \o e, (d \o e)[2])
         /\ ~Deserializes(d \o e, (d \o e)[2])
<1> DEFINE t == d[2]
           n == RequestSize(t)
<1>1. Len(d) >= 2 /\ t \in PacketType
  BY DEF Checked, Addressed, PacketType
<1>2. n \in Nat /\ n >= 5
  BY <1>1 DEF RequestSize, RequestPayloadSize, PacketType, ConfigType, General, Basic, Pedal, Throttle
<1>3. Len(d) >= n
  BY <1>2 DEF Truncated
<1> HIDE DEF n
<1>4. /\ (d \o e)[1] = d[1] /\ (d \o e)[2] = d[2] /\ (d \o e)[n] = d[n]
      /\ Len(d \o e) \in Nat /\ Len(d \o e) >= Len(d)
  BY <1>1, <1>2, <1>3
<1>5. SubSeq(d \o e, 1, n) = SubSeq(d, 1, n)
  BY <1>2, <1>3
<1>6. Checked(d \o e)
  BY <1>1, <1>4 DEF Checked, Addressed
<1> HIDE DEF t
<1>7. ~Truncated(d \o e, t)
  BY <1>2, <1>3, <1>4 DEF Truncated, n
<1>8. ~Deserializes(d \o e, t)
  BY <1>4, <1>5, <1>7 DEF Deserializes, n, t
<1> QED BY <1>4, <1>6, <1>7, <1>8 DEF t

(* Only Poll, which appends, touches the buffer of a worker that is wedged *)
LEMMA WedgedStep ==
  ASSUME IInv, [Next]_vars, ~Kill, NEW p \in Port, Wedged(p)
  PROVE  Wedged(p)'
<1> DEFINE t == buffer[p][2]
<1>1. buffer[p] \in Seq(Byte) /\ buffer \in [Port -> Seq(Byte)]
  BY DEF IInv, TypeOK
<1>2. Checked(buffer[p]) /\ ~Deserializes(buffer[p], t)
  BY DEF Wedged
<1>3. \E e \in Seq(Byte) : buffer'[p] = buffer[p] \o e
  <2>1. CASE UNCHANGED buffer
    <3>1. buffer[p] = buffer[p] \o <<>> /\ <<>> \in Seq(Byte)
      BY <1>1
    <3> QED BY <2>1, <3>1
  <2>2. ASSUME NEW q \in Port, Poll(q) PROVE <1>3
    <3> DEFINE w == wire[q]
    <3>1. w \in Seq(Byte)
      BY DEF IInv, TypeOK
    <3>2. PICK n \in {Len(w)} \union {k \in ReadSize : 0 < k /\ k < Len(w)} :
            buffer' = [buffer EXCEPT ![q] = @ \o SubSeq(w, 1, n)]
      BY <2>2 DEF Poll
    <3> HIDE DEF w
    <3>3. n \in 0..Len(w)
      <4>1. ReadSize \subseteq Nat
        BY SerialHandlerAssumption DEF SerialHandlerAssumption
      <4>2. n = Len(w) \/ (n \in Nat /\ n < Len(w))
        BY <4>1
      <4> QED BY <3>1, <4>2
    <3>4. SubSeq(w, 1, n) \in Seq(Byte)
      BY <3>1, <3>3
    <3>5. CASE q = p
      BY <1>1, <3>2, <3>4, <3>5
    <3>6. CASE q # p
      <4>1. buffer'[p] = buffer[p] \o <<>> /\ <<>> \in Seq(Byte)
        BY <1>1, <3>2, <3>6
      <4> QED BY <4>1
    <3> QED BY <3>5, <3>6
  <2>3. ASSUME NEW q \in Port, Discard(q) \/ ReadConfig(q) \/ ReadGeneral(q) \/ Write(q)
        PROVE  <1>3
    <3>1. q # p
      <4>1. CASE Discard(q)
        BY <1>2, <4>1 DEF Discard
      <4>2. CASE ReadConfig(q)
        BY <1>2, <4>2 DEF ReadConfig, ConfigRead, Checked, Addressed,
                          ReadFlash, WriteFlash, General, ConfigType, Basic, Pedal, Throttle
      <4>3. CASE ReadGeneral(q)
        BY <1>2, <4>3 DEF ReadGeneral, Addressed
      <4>4. CASE Write(q)
        BY <1>2, <4>4 DEF Write, Addressed
      <4> QED BY <2>3, <4>1, <4>2, <4>3, <4>4
    <3>2. buffer' = [buffer EXCEPT ![q] = <<>>]
      BY <2>3 DEF Discard, ReadConfig, ReadGeneral, Write
    <3>3. buffer'[p] = buffer[p] \o <<>> /\ <<>> \in Seq(Byte)
      BY <1>1, <3>1, <3>2
    <3> QED BY <3>3
  <2>4. CASE UNCHANGED vars
    BY <2>1, <2>4 DEF vars
  <2>5. ASSUME NEW q \in Port, Client(q) PROVE <1>3
    BY <2>1, <2>5 DEF Client, Send, Disturb, GiveUp
  <2>6. ASSUME NEW q \in Port, Worker(q) PROVE <1>3
    <3>1. CASE Connect(q) \/ Lock(q) \/ TooShort(q) \/ Reject(q) \/ Commit(q)
               \/ Save(q) \/ SaveFails(q) \/ Reply(q)
      BY <2>1, <3>1 DEF Connect, Lock, TooShort, Reject, Commit, Save, SaveFails, Reply
    <3> QED BY <2>2, <2>3, <2>6, <3>1 DEF Worker, Handle
  <2> QED BY <2>4, <2>5, <2>6 DEF Next
<1> QED BY <1>1, <1>3, WedgedExtended DEF Wedged

(* Nothing that arrives later gets a port past a packet that has failed    *)
(* its verification: only a restart does                                   *)
THEOREM BadPacketsStay == Spec => WedgedForever
<1>1. IInv /\ [Next]_vars => [\A p \in Port : Wedged(p) => Wedged(p)' \/ Kill]_vars
  BY WedgedStep
<1> QED BY <1>1, Invariance, PTL DEF Spec, WedgedForever

-----------------------------------------------------------------------------
(* As long as files can be opened and disks are not full: the file of a    *)
(* profile that exists holds what the profile holds, unless a worker is    *)
(* about to save this very profile. MemoryIsOnDisk does not tell the two   *)
(* profiles apart and is not inductive                                     *)
Saving(p, f) == pc[p] = "save" /\ Which(p) = f

Stored(f) == (profile[f].exists /\ \A p \in Port : ~Saving(p, f)) =>
               file[f] = Holding(profile[f].data)

AllStored == Stored("general") /\ Stored("config")

(* A step that leaves profiles and files alone and takes no worker away    *)
(* from its save                                                           *)
LEMMA QuietStored ==
  ASSUME AllStored, UNCHANGED <<profile, file>>,
         \A q \in Port : pc[q] = "save" => pc'[q] = "save" /\ request'[q] = request[q]
  PROVE  AllStored'
<1>1. \A q \in Port, f \in {"general", "config"} : Saving(q, f) => Saving(q, f)'
  BY DEF Saving, Which
<1> QED BY <1>1 DEF AllStored, Stored

(* What a process that is started reads is what is on disk *)
LEMMA LoadStored ==
  ASSUME NEW file1, IsFile(file1), Readable(file1), Load(file1).exists
  PROVE  file1 = Holding(Load(file1).data)
<1>1. file1 # NoFile
  BY DEF Load
<1>2. PICK d \in file1 : file1 = Holding(d)
  BY <1>1 DEF IsFile, Readable
<1>3. (CHOOSE e \in file1 : TRUE) = d
  BY <1>2 DEF Holding
<1> QED BY <1>1, <1>2, <1>3 DEF Load

(* ... or nothing, and then the profile does not exist for it              *)
LEMMA StartStored ==
  ASSUME NEW files, DOMAIN files = {"general", "config"},
         \A f \in {"general", "config"} : IsFile(files[f]),
         NEW opened \in Opened(files), NEW f \in {"general", "config"},
         Profiles(opened)[f].exists
  PROVE  files[f] = Holding(Profiles(opened)[f].data)
<1>1. \/ Profiles(opened)[f] = NoProfile
      \/ Readable(files[f]) /\ Profiles(opened)[f] = Load(files[f])
  BY Starts
<1> QED BY <1>1, LoadStored DEF NoProfile

(* At the start memory holds what is on disk                               *)
LEMMA InitStored == Init => AllStored
<1> SUFFICES ASSUME Init PROVE AllStored
  OBVIOUS
<1>1. /\ DOMAIN file = {"general", "config"}
      /\ file.general \in GeneralFile /\ file.config \in ConfigFile
  BY DEF Init
<1>2. \A f \in {"general", "config"} : IsFile(file[f])
  BY <1>1, SerialHandlerAssumption DEF SerialHandlerAssumption
<1>3. PICK opened \in Opened(file) : profile = Profiles(opened)
  BY DEF Init
<1> QED BY <1>1, <1>2, <1>3, StartStored DEF AllStored, Stored

(* A step that changes a profile: a read that stores defaults leaves a     *)
(* profile that is on disk as it is, and one that commits goes on to save  *)
LEMMA ChangeStored ==
  ASSUME IInv, AllStored, NEW p \in Port, ReadConfig(p) \/ ReadGeneral(p) \/ Commit(p)
  PROVE  AllStored'
<1>1. IsProfile(profile.config) /\ IsProfile(profile.general)
  BY DEF IInv, TypeOK
<1>2. DOMAIN profile = {"general", "config"} /\ pc \in [Port -> {"start", "poll", "lock", "handle",
                            "commit", "save", "reply", "done"}] /\ DOMAIN request = Port
  BY DEF IInv, TypeOK
<1>3. CASE ReadConfig(p)
  <2> DEFINE t == buffer[p][2]
  <2>1. t \in PacketType
    BY <1>3 DEF ReadConfig, ConfigRead, Addressed, PacketType
  <2>2. /\ Touched(t, profile.config).exists = profile.config.exists
        /\ profile.config.exists => Touched(t, profile.config) = profile.config
    BY <1>1, <2>1, TouchedType
  <2>3. profile' = [profile EXCEPT !.config = Touched(t, @)] /\ file' = file
    BY <1>3 DEF ReadConfig
  <2> HIDE DEF t
  <2>4. /\ profile'.general = profile.general
        /\ profile'.config.exists = profile.config.exists
        /\ profile.config.exists => profile'.config = profile.config
    BY <1>2, <2>2, <2>3
  <2>5. \A q \in Port, f \in {"general", "config"} : Saving(q, f) => Saving(q, f)'
    BY <1>2, <1>3 DEF Saving, Which, ReadConfig
  <2> QED BY <2>3, <2>4, <2>5 DEF AllStored, Stored
<1>4. CASE ReadGeneral(p)
  <2>1. /\ Touched(General, profile.general).exists = profile.general.exists
        /\ profile.general.exists => Touched(General, profile.general) = profile.general
    BY <1>1, TouchedType DEF PacketType
  <2>2. profile' = [profile EXCEPT !.general = Touched(General, @)] /\ file' = file
    BY <1>4 DEF ReadGeneral
  <2>3. /\ profile'.config = profile.config
        /\ profile'.general.exists = profile.general.exists
        /\ profile.general.exists => profile'.general = profile.general
    BY <1>2, <2>1, <2>2
  <2>4. \A q \in Port, f \in {"general", "config"} : Saving(q, f) => Saving(q, f)'
    BY <1>2, <1>4 DEF Saving, Which, ReadGeneral
  <2> QED BY <2>2, <2>3, <2>4 DEF AllStored, Stored
<1>5. CASE Commit(p)
  <2>1. request[p][2] \in ConfigType
    BY <1>5 DEF Commit, IInv, CommitsAreFresh, Committing
  <2>2. Saving(p, "config")'
    BY <1>2, <1>5, <2>1 DEF Saving, Which, Commit, ConfigType, General, Basic, Pedal, Throttle
  <2>3. profile'.general = profile.general /\ file' = file
    BY <1>2, <1>5 DEF Commit
  <2>4. \A q \in Port, f \in {"general", "config"} : Saving(q, f) => Saving(q, f)'
    BY <1>2, <1>5 DEF Saving, Which, Commit
  <2> QED BY <2>2, <2>3, <2>4 DEF AllStored, Stored
<1> QED BY <1>3, <1>4, <1>5

(* A save that is complete leaves on disk what is in memory                *)
LEMMA SaveStored ==
  ASSUME IInv, AllStored, Fault \intersect {"open", "diskfull"} = {}, NEW p \in Port, Save(p)
  PROVE  AllStored'
<1> DEFINE f == Which(p)
           d == profile[f].data
<1>1. f \in {"general", "config"}
  BY DEF Which
<1>2. file' = [file EXCEPT ![f] = Holding(d)] /\ profile' = [profile EXCEPT ![f].exists = TRUE]
  BY DEF Save, Saved
<1>3. \A q \in Port : pc[q] = "save" => q = p
  BY DEF Save, IInv, MutexOwner, InMutex
<1> HIDE DEF f, d
<1>4. /\ DOMAIN profile = {"general", "config"} /\ DOMAIN file = {"general", "config"}
      /\ IsProfile(profile[f])
  BY <1>1 DEF IInv, TypeOK
<1>5. profile'[f].data = d /\ file'[f] = Holding(d)
  <2>1. profile'[f] = [profile[f] EXCEPT !.exists = TRUE]
    BY <1>1, <1>2, <1>4
  <2>2. profile[f] = [exists |-> profile[f].exists, data |-> profile[f].data]
    BY <1>4 DEF IsProfile
  <2>3. profile'[f].data = d
    BY <2>1, <2>2 DEF d
  <2> QED BY <1>1, <1>2, <1>4, <2>3
<1>6. ASSUME NEW g \in {"general", "config"}, g # f
      PROVE  profile'[g] = profile[g] /\ file'[g] = file[g] /\ \A q \in Port : ~Saving(q, g)
  BY <1>1, <1>2, <1>3, <1>4, <1>6 DEF Saving, f
<1> QED BY <1>1, <1>5, <1>6 DEF AllStored, Stored

(* Every step keeps memory and disk in agreement, but for workers that     *)
(* save                                                                    *)
LEMMA NextStored ==
  ASSUME IInv, AllStored, [Next]_vars, Fault \intersect {"open", "diskfull"} = {}
  PROVE  AllStored'
<1>0. DOMAIN pc = Port /\ DOMAIN request = Port
  BY DEF IInv, TypeOK
<1>1. CASE UNCHANGED vars
  BY <1>1, <1>0, QuietStored DEF vars
<1>2. CASE Kill
  <2>1. IInv'
    BY <1>2, KillInv
  <2>2. DOMAIN file' = {"general", "config"} /\ \A f \in {"general", "config"} : IsFile(file'[f])
    BY <2>1 DEF IInv, TypeOK
  <2>3. PICK opened \in Opened(file') : profile' = Profiles(opened)
    BY <1>2 DEF Kill
  <2>4. \A f \in {"general", "config"} : profile'[f].exists => file'[f] = Holding(profile'[f].data)
    BY <2>2, <2>3, StartStored
  <2> QED BY <2>4 DEF AllStored, Stored
<1>3. ASSUME NEW p \in Port, Client(p) PROVE AllStored'
  BY <1>3, <1>0, QuietStored DEF Client, Send, Disturb, GiveUp
<1>4. ASSUME NEW p \in Port, Worker(p) PROVE AllStored'
  <2>1. CASE Connect(p) \/ Poll(p) \/ Lock(p)
    BY <2>1, <1>0, QuietStored DEF Connect, Poll, Lock
  <2>2. CASE TooShort(p) \/ Reject(p) \/ Discard(p) \/ Reply(p)
    BY <2>2, <1>0, QuietStored DEF TooShort, Reject, Discard, Reply, Leave
  <2>3. CASE Write(p)
    BY <2>3, <1>0, QuietStored DEF Write
  <2>4. CASE ReadConfig(p) \/ ReadGeneral(p) \/ Commit(p)
    BY <2>4, ChangeStored
  <2>5. CASE Save(p)
    BY <2>5, SaveStored
  <2>6. CASE SaveFails(p)
    BY <2>6 DEF SaveFails
  <2> QED BY <1>4, <2>1, <2>2, <2>3, <2>4, <2>5, <2>6 DEF Worker, Handle
<1> QED BY <1>1, <1>2, <1>3, <1>4 DEF Next

(* With files that can be opened and disks that are not full, what a       *)
(* process that is started anew would read is what is in memory, except    *)
(* while a worker is in profile::save                                      *)
THEOREM MemoryIsStored ==
  ASSUME Fault \intersect {"open", "diskfull"} = {}
  PROVE  Spec => []MemoryIsOnDisk
<1>1. IInv /\ AllStored /\ [Next]_vars => AllStored'
  BY NextStored
<1>2. AllStored => MemoryIsOnDisk
  BY DEF AllStored, Stored, Saving, MemoryIsOnDisk
<1> QED BY InitStored, Invariance, <1>1, <1>2, PTL DEF Spec

-----------------------------------------------------------------------------
(* The steps that change what is in memory or on disk, but for a restart   *)
LEMMA Changes ==
  ASSUME [Next]_vars, ~Kill
  PROVE  \/ UNCHANGED <<profile, file>>
         \/ \E p \in Port : ReadConfig(p) \/ ReadGeneral(p) \/ Commit(p) \/ Save(p)
<1>1. CASE UNCHANGED vars
  BY <1>1 DEF vars
<1>2. ASSUME NEW p \in Port, Client(p) PROVE UNCHANGED <<profile, file>>
  BY <1>2 DEF Client, Send, Disturb, GiveUp
<1>3. ASSUME NEW p \in Port, Worker(p)
      PROVE  \/ UNCHANGED <<profile, file>>
             \/ ReadConfig(p) \/ ReadGeneral(p) \/ Commit(p) \/ Save(p)
  BY <1>3 DEF Worker, Handle, Connect, Poll, Lock, TooShort, Reject, Discard, Write, SaveFails, Reply
<1> QED BY <1>1, <1>2, <1>3 DEF Next

(* A save changes no settings in memory, and on disk only the file of this *)
(* profile, to all of its settings or to some of them                      *)
LEMMA SaveSteps ==
  ASSUME IInv, NEW p \in Port, Save(p)
  PROVE  /\ profile'.config.data = profile.config.data
         /\ profile'.general.data = profile.general.data
         /\ \E saved : /\ file' = [file EXCEPT ![Which(p)] = saved]
                       /\ Left(saved, profile[Which(p)].data)
                       /\ "diskfull" \notin Fault => saved = Holding(profile[Which(p)].data)
<1> DEFINE f == Which(p)
<1>1. f \in {"general", "config"}
  BY DEF Which
<1>2. profile' = [profile EXCEPT ![f].exists = TRUE]
  BY DEF Save
<1>3. \E saved \in Saved(profile[f].data) : file' = [file EXCEPT ![f] = saved]
  BY DEF Save
<1> HIDE DEF f
<1>4. DOMAIN profile = {"general", "config"} /\ IsProfile(profile[f])
  BY <1>1 DEF IInv, TypeOK
<1>7. \A saved \in Saved(profile[f].data) :
        /\ Left(saved, profile[f].data)
        /\ "diskfull" \notin Fault => saved = Holding(profile[f].data)
  BY <1>4, SavedFile DEF IsProfile
<1>5. profile'[f].data = profile[f].data
  <2>1. profile'[f] = [profile[f] EXCEPT !.exists = TRUE]
    BY <1>1, <1>2, <1>4
  <2>2. profile[f] = [exists |-> profile[f].exists, data |-> profile[f].data]
    BY <1>4 DEF IsProfile
  <2> QED BY <2>1, <2>2
<1>6. \A g \in {"general", "config"} : g # f => profile'[g] = profile[g]
  BY <1>1, <1>2, <1>4
<1> QED BY <1>1, <1>3, <1>5, <1>6, <1>7 DEF f

(* A commit is one of a request that passed every check *)
LEMMA CommitSteps ==
  ASSUME IInv, NEW p \in Port, Commit(p)
  PROVE  \E t \in ConfigType : \E b \in PayloadOf(t) :
           /\ request[p] = <<WriteFlash, t, b>> /\ Accepted(t, b)
           /\ profile'.config = Adding(t, b, profile.config)
           /\ profile'.general = profile.general
           /\ Build(t, profile'.config) = b
           /\ \A u : u # t => Build(u, profile'.config) = Build(u, profile.config)
<1>1. IsProfile(profile.config) /\ DOMAIN profile = {"general", "config"}
  BY DEF IInv, TypeOK
<1>2. Committing(p) /\ profile' = [profile EXCEPT !.config = temp[p]]
  BY DEF Commit, IInv, CommitsAreFresh
<1>3. PICK t \in ConfigType : \E b \in PayloadOf(t) :
         /\ request[p] = <<WriteFlash, t, b>> /\ Accepted(t, b)
         /\ temp[p] = Adding(t, b, profile.config)
  BY <1>2 DEF Committing
<1>4. PICK b \in PayloadOf(t) :
         /\ request[p] = <<WriteFlash, t, b>> /\ Accepted(t, b)
         /\ temp[p] = Adding(t, b, profile.config)
  BY <1>3
<1>5. profile'.config = Adding(t, b, profile.config) /\ profile'.general = profile.general
  BY <1>1, <1>2, <1>4
<1>6. Build(t, Adding(t, b, profile.config)) = b
  BY <1>1, <1>4, ReadBack
<1>7. \A u : u # t => Build(u, Adding(t, b, profile.config)) = Build(u, profile.config)
  BY <1>1, WritesMoveTheirSection
<1> QED BY <1>4, <1>5, <1>6, <1>7

(* Of all steps only a commit serves a section differently, namely as its  *)
(* request says                                                            *)
LEMMA ViewMoves ==
  ASSUME IInv, [Next]_vars, ~Kill, NEW t \in ConfigType, View(t)' # View(t)
  PROVE  \E p \in Port : pc[p] = "commit" /\ request[p][2] = t /\ View(t)' = request[p][3]
<1>0. /\ View(t) = Build(t, profile.config) /\ View(t)' = Build(t, profile'.config)
      /\ IsProfile(profile.config) /\ DOMAIN profile = {"general", "config"}
  BY DEF View, IInv, TypeOK
<1>1. ~UNCHANGED <<profile, file>>
  BY <1>0
<1>2. ASSUME NEW p \in Port, ReadConfig(p) PROVE FALSE
  <2>1. buffer[p][2] \in PacketType /\ t \in PacketType
    BY <1>2 DEF ReadConfig, ConfigRead, Addressed, PacketType
  <2>2. profile'.config = Touched(buffer[p][2], profile.config)
    BY <1>0, <1>2 DEF ReadConfig
  <2> QED BY <1>0, <2>1, <2>2, ReadsMoveNothing
<1>3. ASSUME NEW p \in Port, ReadGeneral(p) PROVE FALSE
  <2>1. profile'.config = profile.config
    BY <1>0, <1>3 DEF ReadGeneral
  <2> QED BY <1>0, <2>1
<1>4. ASSUME NEW p \in Port, Save(p) PROVE FALSE
  <2>1. profile'.config.data = profile.config.data
    BY <1>4, SaveSteps
  <2> QED BY <1>0, <2>1, BuildFromSettings
<1>5. PICK p \in Port : Commit(p)
  BY <1>1, <1>2, <1>3, <1>4, Changes
<1>6. PICK u \in ConfigType : \E b \in PayloadOf(u) :
         /\ request[p] = <<WriteFlash, u, b>>
         /\ Build(u, profile'.config) = b
         /\ \A s : s # u => Build(s, profile'.config) = Build(s, profile.config)
  BY <1>5, CommitSteps
<1>7. u = t
  BY <1>0, <1>6
<1>8. request[p][2] = t /\ request[p][3] = Build(t, profile'.config)
  BY <1>6, <1>7
<1> QED BY <1>0, <1>5, <1>8 DEF Commit

(* As long as the process runs, what is served of a section is what it was *)
(* or what the write that is just carried out says; reads, rejected writes *)
(* and saves, complete or not, move nothing, whatever is on disk           *)
THEOREM SectionsMoveByWrites == Spec => OnlyCommitsMove
<1>1. IInv /\ [Next]_vars =>
        [~Kill => \A t \in ConfigType : View(t)' # View(t) =>
           \E p \in Port : pc[p] = "commit" /\ request[p][2] = t
                          /\ View(t)' = request[p][3]]_profile
  BY ViewMoves
<1> QED BY <1>1, Invariance, PTL DEF Spec, OnlyCommitsMove

-----------------------------------------------------------------------------
(* The settings in memory, and those a process started from the file would *)
(* have, pass the checks of parse. That every section is served as it      *)
(* could be written is not inductive: the two settings of one byte may     *)
(* make up a byte that passes although they would not, and a save that is  *)
(* cut short parts them                                                    *)
SettingsStayPassing == SettingsPass(profile.config) /\ SettingsPass(Load(file.config))

(* What is loaded of a file that holds some of the settings passes, too    *)
LEMMA HoldingPasses ==
  ASSUME NEW p, IsProfile(p), SettingsPass(p), NEW c \in Cuts(p.data, KeyOrder) \union {p.data}
  PROVE  SettingsPass(Load(Holding(c)))
<1>1. IsData(c) /\ \A k \in DOMAIN c : k \in DOMAIN p.data /\ c[k] = p.data[k]
  BY CutsType DEF IsProfile
<1>2. Load(Holding(c)).data = c
  BY <1>1, HoldingType
<1> QED BY <1>1, <1>2, FewerPass

(* A process that is started has what is in the config file, or nothing    *)
LEMMA StartedConfig ==
  ASSUME NEW files, DOMAIN files = {"general", "config"},
         \A f \in {"general", "config"} : IsFile(files[f]),
         NEW opened \in Opened(files)
  PROVE  \/ Profiles(opened).config = NoProfile
         \/ Readable(files.config) /\ Profiles(opened).config = Load(files.config)
BY Starts

LEMMA EmptyPasses == SettingsPass(NoProfile)
BY Zenon DEF SettingsPass, NoProfile, NoData

(* What the config file holds after the process has been killed            *)
LEMMA KillFiles ==
  ASSUME Kill
  PROVE  \/ file' = file
         \/ \E p \in Port : \E c \in Cuts(profile[Which(p)].data, KeyOrder) :
              file' = [file EXCEPT ![Which(p)] = Holding(c)]
BY DEF Kill

(* The settings that find and add leave in a profile pass; what is saved   *)
(* and read again does, if disks are not full                              *)
LEMMA NextPasses ==
  ASSUME IInv, SettingsStayPassing, [Next]_vars, "diskfull" \notin Fault
  PROVE  SettingsStayPassing'
<1>1. /\ IsProfile(profile.config) /\ DOMAIN profile = {"general", "config"}
      /\ DOMAIN file = {"general", "config"}
      /\ SettingsPass(profile.config) /\ SettingsPass(Load(file.config))
  BY DEF IInv, TypeOK, SettingsStayPassing
<1>2. CASE UNCHANGED <<profile, file>>
  BY <1>2 DEF SettingsStayPassing
<1>3. ASSUME NEW p \in Port, ReadConfig(p) PROVE SettingsStayPassing'
  <2>1. buffer[p][2] \in PacketType
    BY <1>3 DEF ReadConfig, ConfigRead, Addressed, PacketType
  <2>2. profile'.config = Touched(buffer[p][2], profile.config) /\ file' = file
    BY <1>1, <1>3 DEF ReadConfig
  <2> QED BY <1>1, <2>1, <2>2, TouchedPasses DEF SettingsStayPassing
<1>4. ASSUME NEW p \in Port, ReadGeneral(p) PROVE SettingsStayPassing'
  <2>1. profile'.config = profile.config /\ file' = file
    BY <1>1, <1>4 DEF ReadGeneral
  <2> QED BY <1>1, <2>1 DEF SettingsStayPassing
<1>5. ASSUME NEW p \in Port, Commit(p) PROVE SettingsStayPassing'
  <2>1. \E t \in ConfigType : \E b \in PayloadOf(t) :
          Accepted(t, b) /\ profile'.config = Adding(t, b, profile.config)
    BY <1>5, CommitSteps
  <2>2. file' = file
    BY <1>5 DEF Commit
  <2> QED BY <1>1, <2>1, <2>2, AddingPasses DEF SettingsStayPassing
<1>6. ASSUME NEW p \in Port, Save(p) PROVE SettingsStayPassing'
  <2>1. profile'.config.data = profile.config.data
    BY <1>6, SaveSteps
  <2>2. SettingsPass(profile'.config)
    BY <1>1, <2>1, FewerPass
  <2>3. file' = [file EXCEPT ![Which(p)] = Holding(profile[Which(p)].data)]
    BY <1>6, SaveSteps
  <2>4. CASE Which(p) = "config"
    <3>1. SettingsPass(Load(Holding(profile.config.data)))
      BY <1>1, HoldingPasses
    <3>2. file'.config = Holding(profile.config.data)
      BY <1>1, <2>3, <2>4
    <3> QED BY <2>2, <3>1, <3>2 DEF SettingsStayPassing
  <2>5. CASE Which(p) = "general"
    BY <1>1, <2>2, <2>3, <2>5 DEF SettingsStayPassing
  <2> QED BY <2>4, <2>5 DEF Which
<1>7. CASE Kill
  <2>1. SettingsPass(Load(file'.config))
    <3>1. ASSUME NEW p \in Port, NEW c \in Cuts(profile[Which(p)].data, KeyOrder),
                 file' = [file EXCEPT ![Which(p)] = Holding(c)]
          PROVE  SettingsPass(Load(file'.config))
      <4>1. CASE Which(p) = "config"
        BY <1>1, <3>1, <4>1, HoldingPasses
      <4>2. CASE Which(p) = "general"
        BY <1>1, <3>1, <4>2
      <4> QED BY <4>1, <4>2 DEF Which
    <3> QED BY <1>1, <1>7, <3>1, KillFiles
  <2>2. DOMAIN file' = {"general", "config"} /\ \A f \in {"general", "config"} : IsFile(file'[f])
    BY <1>7, KillInv DEF IInv, TypeOK
  <2>3. profile'.config = NoProfile \/ profile'.config = Load(file'.config)
    BY <1>7, <2>2, StartedConfig DEF Kill
  <2> QED BY <2>1, <2>3, EmptyPasses DEF SettingsStayPassing
<1> QED BY <1>2, <1>3, <1>4, <1>5, <1>6, <1>7, Changes

(* What a process has that is started at the beginning *)
LEMMA InitConfig ==
  ASSUME Init
  PROVE  /\ file.config \in ConfigFile
         /\ profile.config = NoProfile \/ profile.config = Load(file.config)
<1>1. /\ DOMAIN file = {"general", "config"}
      /\ file.general \in GeneralFile /\ file.config \in ConfigFile
  BY DEF Init
<1>2. \A f \in {"general", "config"} : IsFile(file[f])
  BY <1>1, SerialHandlerAssumption DEF SerialHandlerAssumption
<1> QED BY <1>1, <1>2, StartedConfig DEF Init

(* The files are loaded as they are, or not at all *)
LEMMA InitPasses == FilesPass /\ Init => SettingsStayPassing
BY InitConfig, EmptyPasses DEF FilesPass, SettingsStayPassing

(* If the config file holds settings that could have been written and      *)
(* disks are not full, then every section is served as it could be written *)
(* back, whatever has been lost of the file by kills                       *)
THEOREM ServedCouldBeWritten ==
  ASSUME FilesPass, "diskfull" \notin Fault
  PROVE  Spec => []ServedIsAccepted
<1>1. Init => SettingsStayPassing
  BY InitPasses
<1>2. IInv /\ SettingsStayPassing /\ [Next]_vars => SettingsStayPassing'
  BY NextPasses
<1>3. SettingsStayPassing => ServedIsAccepted
  BY ServedPasses DEF SettingsStayPassing, ServedIsAccepted, View
<1> QED BY <1>1, <1>2, <1>3, Invariance, PTL DEF Spec

-----------------------------------------------------------------------------
(* On disks that may be full the settings in memory, and those a process   *)
(* started from the file would have, pass the checks but for assist levels *)
(* of 25                                                                   *)
SettingsNearlyPassing ==
  NearlyPass(profile.config) /\ (Readable(file.config) => NearlyPass(Load(file.config)))

(* What is loaded of a file that is left of a profile                      *)
LEMMA LeftNearly ==
  ASSUME NEW p, IsProfile(p), NearlyPass(p), NEW f, Left(f, p.data), Readable(f)
  PROVE  NearlyPass(Load(f))
<1>1. PICK c : f = Holding(c) /\ Worn(c, p.data)
  BY DEF Left, Readable
<1>2. Load(f).data = c
  BY <1>1, HoldingType DEF Worn
<1> QED BY <1>1, <1>2, WornNearly

(* As NextPasses, for every combination of faults                          *)
LEMMA NextNearly ==
  ASSUME IInv, SettingsNearlyPassing, [Next]_vars
  PROVE  SettingsNearlyPassing'
<1>1. /\ IsProfile(profile.config) /\ IsProfile(profile.general)
      /\ DOMAIN profile = {"general", "config"} /\ DOMAIN file = {"general", "config"}
      /\ NearlyPass(profile.config) /\ (Readable(file.config) => NearlyPass(Load(file.config)))
  BY DEF IInv, TypeOK, SettingsNearlyPassing
<1>2. CASE UNCHANGED <<profile, file>>
  BY <1>2 DEF SettingsNearlyPassing
<1>3. ASSUME NEW p \in Port, ReadConfig(p) PROVE SettingsNearlyPassing'
  <2>1. buffer[p][2] \in PacketType
    BY <1>3 DEF ReadConfig, ConfigRead, Addressed, PacketType
  <2>2. profile'.config = Touched(buffer[p][2], profile.config) /\ file' = file
    BY <1>1, <1>3 DEF ReadConfig
  <2> QED BY <1>1, <2>1, <2>2, TouchedNearly DEF SettingsNearlyPassing
<1>4. ASSUME NEW p \in Port, ReadGeneral(p) PROVE SettingsNearlyPassing'
  <2>1. profile'.config = profile.config /\ file' = file
    BY <1>1, <1>4 DEF ReadGeneral
  <2> QED BY <1>1, <2>1 DEF SettingsNearlyPassing
<1>5. ASSUME NEW p \in Port, Commit(p) PROVE SettingsNearlyPassing'
  <2>1. \E t \in ConfigType : \E b \in PayloadOf(t) :
          Accepted(t, b) /\ profile'.config = Adding(t, b, profile.config)
    BY <1>5, CommitSteps
  <2>2. file' = file
    BY <1>5 DEF Commit
  <2> QED BY <1>1, <2>1, <2>2, AddingNearly DEF SettingsNearlyPassing
<1>6. ASSUME NEW p \in Port, Save(p) PROVE SettingsNearlyPassing'
  <2>1. profile'.config.data = profile.config.data
    BY <1>6, SaveSteps
  <2>2. NearlyPass(profile'.config)
    BY <1>1, <2>1 DEF NearlyPass
  <2>3. PICK saved : /\ file' = [file EXCEPT ![Which(p)] = saved]
                     /\ Left(saved, profile[Which(p)].data)
    BY <1>6, SaveSteps
  <2>4. CASE Which(p) = "config"
    BY <1>1, <2>2, <2>3, <2>4, LeftNearly DEF SettingsNearlyPassing
  <2>5. CASE Which(p) = "general"
    BY <1>1, <2>2, <2>3, <2>5 DEF SettingsNearlyPassing
  <2> QED BY <2>4, <2>5 DEF Which
<1>7. CASE Kill
  <2>1. Readable(file'.config) => NearlyPass(Load(file'.config))
    <3>1. ASSUME NEW p \in Port, NEW c \in Cuts(profile[Which(p)].data, KeyOrder),
                 file' = [file EXCEPT ![Which(p)] = Holding(c)]
          PROVE  Readable(file'.config) => NearlyPass(Load(file'.config))
      <4>1. CASE Which(p) = "config"
        <5>1. Left(Holding(c), profile.config.data)
          BY <1>1, <4>1, CutFile DEF IsProfile
        <5>2. file'.config = Holding(c)
          BY <1>1, <3>1, <4>1
        <5> QED BY <1>1, <5>1, <5>2, LeftNearly
      <4>2. CASE Which(p) = "general"
        BY <1>1, <3>1, <4>2
      <4> QED BY <4>1, <4>2 DEF Which
    <3> QED BY <1>1, <1>7, <3>1, KillFiles
  <2>2. DOMAIN file' = {"general", "config"} /\ \A f \in {"general", "config"} : IsFile(file'[f])
    BY <1>7, KillInv DEF IInv, TypeOK
  <2>3. profile'.config = NoProfile \/ (Readable(file'.config) /\ profile'.config = Load(file'.config))
    BY <1>7, <2>2, StartedConfig DEF Kill
  <2> QED BY <2>1, <2>3, EmptyPasses, PassNearly DEF SettingsNearlyPassing
<1> QED BY <1>2, <1>3, <1>4, <1>5, <1>6, <1>7, Changes

(* Under all faults, with disks that end inside a line, saves that fail,   *)
(* kills and files that cannot be opened: if the config file held settings *)
(* that could have been written, all that is ever served and would not be  *)
(* accepted is an assist level of 25, which a torn line makes of 255       *)
THEOREM OnlyTornRefused ==
  ASSUME FilesPass
  PROVE  Spec => []OnlyTornIsRefused
<1>1. Init => SettingsNearlyPassing
  <2> SUFFICES ASSUME Init PROVE SettingsNearlyPassing
    OBVIOUS
  <2>1. SettingsPass(profile.config) /\ SettingsPass(Load(file.config))
    BY InitConfig, EmptyPasses DEF FilesPass
  <2> QED BY <2>1, PassNearly DEF SettingsNearlyPassing
<1>2. IInv /\ SettingsNearlyPassing /\ [Next]_vars => SettingsNearlyPassing'
  BY NextNearly
<1>3. SettingsNearlyPassing => OnlyTornIsRefused
  BY ServedNearly DEF SettingsNearlyPassing, OnlyTornIsRefused, View
<1> QED BY <1>1, <1>2, <1>3, Invariance, PTL DEF Spec

-----------------------------------------------------------------------------
(* What a worker that is past its checks is about to answer: success to a  *)
(* write that is what its section is served as, or the general section     *)
AboutToAnswer(p) ==
  /\ pc[p] = "commit" =>
       \E t \in ConfigType : \E b \in PayloadOf(t) :
         request[p] = <<WriteFlash, t, b>> /\ response[p] = StatusPacket(t, Success(t))
  /\ pc[p] = "save" =>
       \/ /\ request[p] = <<ReadFlash, General, <<>>>>
          /\ response[p] = ResponsePacket(General, Build(General, profile.general))
          /\ ~profile.general.exists
       \/ \E t \in ConfigType : \E b \in PayloadOf(t) :
            /\ request[p] = <<WriteFlash, t, b>>
            /\ Accepted(t, b)
            /\ View(t) = b
            /\ response[p] = StatusPacket(t, Success(t))

AnswersAreTrue == \A p \in Port : AboutToAnswer(p)

(* Where nothing happens to a worker and to the profiles *)
LEMMA QuietAnswers ==
  ASSUME NEW q \in Port, AboutToAnswer(q), UNCHANGED profile,
         \/ pc'[q] \notin {"commit", "save"}
         \/ pc'[q] = pc[q] /\ request'[q] = request[q] /\ response'[q] = response[q]
  PROVE  AboutToAnswer(q)'
BY DEF AboutToAnswer, View

(* While a worker is in the mutex another one changes neither a profile    *)
(* nor a file, and nothing of the first worker                             *)
LEMMA OthersAreOutside ==
  ASSUME IInv, NEW q \in Port, InMutex(q), NEW p \in Port, p # q, Worker(p)
  PROVE  /\ UNCHANGED <<profile, file>>
         /\ pc'[q] = pc[q] /\ request'[q] = request[q] /\ response'[q] = response[q]
<1>1. ~InMutex(p) /\ mutex = q /\ q # NoPort
  BY SerialHandlerAssumption DEF SerialHandlerAssumption, IInv, MutexOwner
<1>2. Connect(p) \/ Poll(p) \/ Lock(p)
  BY <1>1 DEF Worker, Handle, InMutex, TooShort, Reject, Discard, ReadConfig, ReadGeneral, Write,
              Commit, Save, SaveFails, Reply
<1> QED BY <1>2 DEF IInv, TypeOK, Connect, Poll, Lock

(* A step of a worker leaves the others where they are *)
LEMMA OthersStay ==
  ASSUME IInv, NEW q \in Port, NEW p \in Port, p # q, Worker(p)
  PROVE  pc'[q] = pc[q]
BY DEF IInv, TypeOK, Worker, Handle, TooShort, Reject, Discard, ReadConfig, ReadGeneral, Write,
       Commit, Save, SaveFails, Reply, Connect, Poll, Lock, Leave

(* A worker that finds its checks passed knows its answer, and what it is  *)
(* about to answer stays true until it has been saved                      *)
LEMMA WorkerAnswers ==
  ASSUME IInv, AnswersAreTrue, NEW p \in Port, Worker(p)
  PROVE  AboutToAnswer(p)'
<1>0. /\ pc \in [Port -> {"start", "poll", "lock", "handle",
                         "commit", "save", "reply", "done"}]
      /\ DOMAIN request = Port /\ DOMAIN response = Port
      /\ IsProfile(profile.config) /\ IsProfile(profile.general)
      /\ DOMAIN profile = {"general", "config"}
  BY DEF IInv, TypeOK
<1>1. CASE pc'[p] \notin {"commit", "save"}
  BY <1>1 DEF AboutToAnswer
<1>2. CASE ReadGeneral(p)
  <2>1. /\ request'[p] = <<ReadFlash, General, <<>>>>
        /\ response'[p] = ResponsePacket(General, Build(General, profile.general))
        /\ profile'.general = Touched(General, profile.general)
        /\ pc'[p] = IF profile.general.exists THEN "reply" ELSE "save"
    BY <1>0, <1>2 DEF ReadGeneral
  <2>2. General \in PacketType
    BY DEF PacketType
  <2>3. Build(General, profile'.general) = Build(General, profile.general)
    BY <1>0, <2>1, <2>2, ReadsMoveNothing
  <2>4. profile'.general.exists = profile.general.exists
    BY <1>0, <2>1, <2>2, TouchedType
  <2> QED BY <2>1, <2>3, <2>4 DEF AboutToAnswer
<1>3. CASE Write(p)
  <2>1. PICK t \in ConfigType :
          /\ ~Truncated(buffer[p], t)
          /\ LET b == Payload(buffer[p], t)
             IN  /\ request'  = [request EXCEPT ![p] = <<WriteFlash, t, b>>]
                 /\ response' = [response EXCEPT ![p] = StatusPacket(t, Status(t, b))]
                 /\ Accepted(t, b) \/ pc' = [pc EXCEPT ![p] = "reply"]
                 /\ pc'[p] # "save"
    BY <1>0, <1>3 DEF Write, Deserializes
  <2> DEFINE b == Payload(buffer[p], t)
  <2>2. b \in PayloadOf(t)
    BY <2>1, PayloadType DEF IInv, TypeOK
  <2>3. request'[p] = <<WriteFlash, t, b>> /\ response'[p] = StatusPacket(t, Status(t, b))
    BY <1>0, <2>1
  <2>4. ASSUME pc'[p] = "commit" PROVE Status(t, b) = Success(t)
    BY <1>0, <2>1, <2>4 DEF Status
  <2> HIDE DEF b
  <2> QED BY <2>1, <2>2, <2>3, <2>4 DEF AboutToAnswer
<1>4. CASE Commit(p)
  <2>1. PICK t \in ConfigType : \E b \in PayloadOf(t) :
          /\ request[p] = <<WriteFlash, t, b>> /\ Accepted(t, b)
          /\ Build(t, profile'.config) = b
    BY <1>4, CommitSteps
  <2>2. PICK b \in PayloadOf(t) :
          /\ request[p] = <<WriteFlash, t, b>> /\ Accepted(t, b)
          /\ Build(t, profile'.config) = b
    BY <2>1
  <2>3. \E u \in ConfigType : \E c \in PayloadOf(u) :
          request[p] = <<WriteFlash, u, c>> /\ response[p] = StatusPacket(u, Success(u))
    BY <1>4 DEF Commit, AnswersAreTrue, AboutToAnswer
  <2>4. response[p] = StatusPacket(t, Success(t))
    BY <2>2, <2>3
  <2>5. request'[p] = request[p] /\ response'[p] = response[p] /\ pc'[p] = "save"
    BY <1>0, <1>4 DEF Commit
  <2> QED BY <2>2, <2>4, <2>5 DEF AboutToAnswer, View
<1>5. CASE Connect(p) \/ Poll(p) \/ Lock(p) \/ TooShort(p) \/ Reject(p) \/ Discard(p)
           \/ ReadConfig(p) \/ Save(p) \/ SaveFails(p) \/ Reply(p)
  <2>1. pc'[p] \notin {"commit", "save"}
    BY <1>0, <1>5 DEF Connect, Poll, Lock, TooShort, Reject, Discard, ReadConfig, Save, SaveFails,
                      Reply, Leave
  <2> QED BY <1>1, <2>1
<1> QED BY <1>2, <1>3, <1>4, <1>5 DEF Worker, Handle

(* Every step keeps the answers true                                       *)
LEMMA NextAnswers ==
  ASSUME IInv, AnswersAreTrue, [Next]_vars
  PROVE  AnswersAreTrue'
<1> SUFFICES ASSUME NEW q \in Port PROVE AboutToAnswer(q)'
  BY DEF AnswersAreTrue
<1>0. AboutToAnswer(q)
  BY DEF AnswersAreTrue
<1>1. CASE UNCHANGED vars
  BY <1>0, <1>1, QuietAnswers DEF vars
<1>2. CASE Kill
  <2>1. pc'[q] \notin {"commit", "save"}
    BY <1>2, KillPlaces
  <2> QED BY <2>1 DEF AboutToAnswer
<1>3. ASSUME NEW p \in Port, Client(p) PROVE AboutToAnswer(q)'
  BY <1>0, <1>3, QuietAnswers DEF Client, Send, Disturb, GiveUp
<1>4. ASSUME NEW p \in Port, Worker(p) PROVE AboutToAnswer(q)'
  <2>1. CASE p = q
    BY <1>4, <2>1, WorkerAnswers
  <2>2. CASE p # q /\ pc[q] \in {"commit", "save"}
    <3>1. InMutex(q)
      BY <2>2 DEF InMutex
    <3> QED BY <1>0, <1>4, <2>2, <3>1, OthersAreOutside, QuietAnswers
  <2>3. CASE p # q /\ pc[q] \notin {"commit", "save"}
    <3>1. pc'[q] \notin {"commit", "save"}
      BY <1>4, <2>3, OthersStay
    <3> QED BY <3>1 DEF AboutToAnswer
  <2> QED BY <2>1, <2>2, <2>3
<1> QED BY <1>1, <1>2, <1>3, <1>4 DEF Next

(* No worker has anything to answer at the start *)
LEMMA InitAnswers == Init => AnswersAreTrue
<1> SUFFICES ASSUME Init, NEW p \in Port PROVE AboutToAnswer(p)
  BY DEF AnswersAreTrue
<1>1. pc[p] \notin {"commit", "save"}
  BY InitPlaces
<1> QED BY <1>1 DEF AboutToAnswer

(* A worker reaches "reply" with success to a write only through a save,   *)
(* which has left all settings on disk                                     *)
SuccessOf(p) == LET t == request[p][2]
                IN  (pc[p] = "reply" /\ request[p][1] = WriteFlash
                       /\ response[p] = StatusPacket(t, Success(t))) =>
                    Readable(file.config) /\ Build(t, Load(file.config)) = request[p][3]

LEMMA WorkerStores ==
  ASSUME IInv, AnswersAreTrue, "diskfull" \notin Fault, NEW p \in Port, Worker(p)
  PROVE  SuccessOf(p)'
<1>0. /\ pc \in [Port -> {"start", "poll", "lock", "handle",
                         "commit", "save", "reply", "done"}]
      /\ DOMAIN request = Port /\ DOMAIN response = Port
      /\ IsProfile(profile.config) /\ IsProfile(profile.general)
      /\ DOMAIN profile = {"general", "config"} /\ DOMAIN file = {"general", "config"}
  BY DEF IInv, TypeOK
<1>1. CASE pc'[p] # "reply"
  BY <1>1 DEF SuccessOf
<1>2. CASE request'[p][1] # WriteFlash
  BY <1>2 DEF SuccessOf
<1>3. CASE ReadConfig(p) \/ ReadGeneral(p)
  <2>1. request'[p][1] = ReadFlash
    <3>1. CASE ReadConfig(p)
      BY <1>0, <3>1 DEF ReadConfig
    <3>2. CASE ReadGeneral(p)
      BY <1>0, <3>2 DEF ReadGeneral
    <3> QED BY <1>3, <3>1, <3>2
  <2> QED BY <1>2, <2>1 DEF ReadFlash, WriteFlash
<1>4. CASE Write(p)
  <2>1. PICK t \in ConfigType :
          /\ ~Truncated(buffer[p], t)
          /\ LET b == Payload(buffer[p], t)
             IN  /\ request'  = [request EXCEPT ![p] = <<WriteFlash, t, b>>]
                 /\ response' = [response EXCEPT ![p] = StatusPacket(t, Status(t, b))]
                 /\ Accepted(t, b) => pc' = [pc EXCEPT ![p] = "commit"]
    BY <1>4 DEF Write, Deserializes
  <2> DEFINE b == Payload(buffer[p], t)
  <2>2. b \in PayloadOf(t)
    BY <2>1, PayloadType DEF IInv, TypeOK
  <2>3. request'[p] = <<WriteFlash, t, b>> /\ response'[p] = StatusPacket(t, Status(t, b))
    BY <1>0, <2>1
  <2>4. Accepted(t, b) => pc'[p] = "commit"
    BY <1>0, <2>1
  <2> HIDE DEF b
  <2>5. ASSUME ~Accepted(t, b) PROVE Status(t, b) # Success(t)
    <3>1. Status(t, b) \in 0..(Success(t) - 1)
      BY <2>2, <2>5, RefusedStatus
    <3>2. Success(t) \in Nat
      BY DEF Success, ConfigType, Basic, Pedal, Throttle
    <3> QED BY <3>1, <3>2
  <2>6. \A s : StatusPacket(t, Status(t, b)) = StatusPacket(t, s) => Status(t, b) = s
    BY DEF StatusPacket
  <2> QED BY <1>1, <2>3, <2>4, <2>5, <2>6 DEF SuccessOf
<1>5. CASE Save(p)
  <2>1. file' = [file EXCEPT ![Which(p)] = Holding(profile[Which(p)].data)]
    BY <1>5, SaveSteps
  <2>2. request'[p] = request[p] /\ pc[p] = "save"
    BY <1>5 DEF Save
  <2>3. CASE request[p] = <<ReadFlash, General, <<>>>>
    BY <1>2, <2>2, <2>3 DEF ReadFlash, WriteFlash
  <2>4. ASSUME NEW t \in ConfigType, NEW b \in PayloadOf(t),
               request[p] = <<WriteFlash, t, b>>, View(t) = b
        PROVE  SuccessOf(p)'
    <3>1. Which(p) = "config"
      BY <2>4 DEF Which, ConfigType, General, Basic, Pedal, Throttle
    <3>2. file'.config = Holding(profile.config.data) /\ IsData(profile.config.data)
      BY <1>0, <2>1, <3>1 DEF IsProfile
    <3>3. Load(file'.config).data = profile.config.data /\ Readable(file'.config)
      BY <3>2, HoldingType
    <3>4. Build(t, Load(file'.config)) = b
      BY <2>4, <3>3, BuildFromSettings DEF View
    <3>5. request'[p] = <<WriteFlash, t, b>>
      BY <2>2, <2>4
    <3> QED BY <3>3, <3>4, <3>5 DEF SuccessOf
  <2> QED BY <2>2, <2>3, <2>4 DEF AnswersAreTrue, AboutToAnswer
<1>6. CASE Connect(p) \/ Poll(p) \/ Lock(p) \/ TooShort(p) \/ Reject(p) \/ Discard(p)
           \/ Commit(p) \/ SaveFails(p) \/ Reply(p)
  <2>1. pc'[p] # "reply"
    BY <1>0, <1>6 DEF Connect, Poll, Lock, TooShort, Reject, Discard, Commit, SaveFails, Reply, Leave
  <2> QED BY <1>1, <2>1
<1> QED BY <1>3, <1>4, <1>5, <1>6 DEF Worker, Handle

(* If disks are not full: when the emulator is about to answer "success"   *)
(* to a write, a process started from the file would serve the section as  *)
(* it was written, even if other saves have failed                         *)
THEOREM SuccessMeansStored ==
  ASSUME "diskfull" \notin Fault
  PROVE  Spec => []SuccessIsStored
<1> DEFINE Inv == AnswersAreTrue /\ \A p \in Port : SuccessOf(p)
<1>1. Init => Inv
  <2>1. ASSUME Init, NEW p \in Port PROVE SuccessOf(p)
    <3>1. pc[p] # "reply"
      BY <2>1, InitPlaces
    <3> QED BY <3>1 DEF SuccessOf
  <2> QED BY <2>1, InitAnswers
<1>2. ASSUME IInv, Inv, [Next]_vars PROVE Inv'
  <2>1. AnswersAreTrue'
    BY <1>2, NextAnswers
  <2> SUFFICES ASSUME NEW q \in Port PROVE SuccessOf(q)'
    BY <2>1
  <2>2. ASSUME UNCHANGED file,
               \/ pc'[q] # "reply"
               \/ pc'[q] = pc[q] /\ request'[q] = request[q] /\ response'[q] = response[q]
        PROVE  SuccessOf(q)'
    BY <1>2, <2>2 DEF SuccessOf
  <2>3. CASE UNCHANGED vars
    BY <2>2, <2>3 DEF vars
  <2>4. CASE Kill
    <3>1. pc'[q] # "reply"
      BY <2>4, KillPlaces
    <3> QED BY <3>1 DEF SuccessOf
  <2>5. ASSUME NEW p \in Port, Client(p) PROVE SuccessOf(q)'
    BY <2>2, <2>5 DEF Client, Send, Disturb, GiveUp
  <2>6. ASSUME NEW p \in Port, Worker(p) PROVE SuccessOf(q)'
    <3>1. CASE p = q
      BY <1>2, <2>6, <3>1, WorkerStores
    <3>2. CASE p # q /\ pc[q] = "reply"
      BY <1>2, <2>2, <2>6, <3>2, OthersAreOutside DEF InMutex
    <3>3. CASE p # q /\ pc[q] # "reply"
      BY <1>2, <2>6, <3>3, OthersStay DEF SuccessOf
    <3> QED BY <3>1, <3>2, <3>3
  <2> QED BY <1>2, <2>3, <2>4, <2>5, <2>6 DEF Next
<1>3. Inv => SuccessIsStored
  BY DEF SuccessOf, SuccessIsStored
<1> QED BY <1>1, <1>2, <1>3, Invariance, PTL DEF Spec

-----------------------------------------------------------------------------
(* The beginning of a message that has arrived, and all of it *)
LEMMA Arriving ==
  ASSUME NEW m \in Seq(Byte), NEW a \in Seq(Byte), NEW w \in Seq(Byte), a \o w = m
  PROVE  /\ \A i \in 1..Len(a) : a[i] = m[i]
         /\ Len(a) <= Len(m)
         /\ Len(a) >= Len(m) => a = m /\ w = <<>>
<1>1. /\ Len(m) = Len(a) + Len(w) /\ Len(a) \in Nat /\ Len(w) \in Nat
      /\ \A i \in 1..Len(a) : a[i] = m[i]
  OBVIOUS
<1>2. ASSUME Len(a) >= Len(m) PROVE a = m /\ w = <<>>
  <2>1. Len(w) = 0
    BY <1>1, <1>2
  <2>2. w = <<>>
    BY <2>1
  <2> QED BY <2>2
<1> QED BY <1>1, <1>2

(* A message that is a request in one piece, as a client builds it: two    *)
(* bytes to read a config section, packets for everything else             *)
WholeRequest(m) ==
  \/ \E t \in ConfigType : m = <<ReadFlash, t>>
  \/ \E b \in PayloadOf(General) : m = Request(ReadFlash, General, b)
  \/ \E t \in ConfigType : \E b \in PayloadOf(t) : m = Request(WriteFlash, t, b)

(* Command, type and length tell these requests apart *)
LEMMA WholeShape ==
  ASSUME NEW m \in Message, WholeRequest(m)
  PROVE  /\ m \in Seq(Byte) /\ Len(m) >= 2
         /\ \/ m[1] = ReadFlash /\ m[2] \in ConfigType /\ Len(m) <= 2
            \/ m[1] = ReadFlash /\ m[2] = General /\ Len(m) = RequestSize(General)
            \/ /\ m[1] = WriteFlash /\ m[2] \in ConfigType /\ Len(m) = RequestSize(m[2])
               /\ m = Request(WriteFlash, m[2], Payload(m, m[2]))
<1>1. m \in Seq(Byte)
  BY SerialHandlerAssumption DEF SerialHandlerAssumption
<1>2. \A t \in PacketType : RequestSize(t) \in Nat /\ RequestSize(t) >= 2
  BY DEF RequestSize, RequestPayloadSize, PacketType, ConfigType, General, Basic, Pedal, Throttle
<1>3. ReadFlash \in Byte /\ WriteFlash \in Byte /\ General \in PacketType
  BY DEF ReadFlash, WriteFlash, PacketType, Byte
<1>4. ASSUME NEW t \in ConfigType, m = <<ReadFlash, t>>
      PROVE  m[1] = ReadFlash /\ m[2] \in ConfigType /\ Len(m) <= 2 /\ Len(m) >= 2
  BY <1>4
<1>5. ASSUME NEW b \in PayloadOf(General), m = Request(ReadFlash, General, b)
      PROVE  m[1] = ReadFlash /\ m[2] = General /\ Len(m) = RequestSize(General) /\ Len(m) >= 2
  BY <1>1, <1>2, <1>3, <1>5, RequestShape
<1>6. ASSUME NEW t \in ConfigType, NEW b \in PayloadOf(t), m = Request(WriteFlash, t, b)
      PROVE  /\ m[1] = WriteFlash /\ m[2] \in ConfigType /\ Len(m) = RequestSize(m[2]) /\ Len(m) >= 2
             /\ m = Request(WriteFlash, m[2], Payload(m, m[2]))
  <2>1. t \in PacketType
    BY DEF PacketType
  <2> QED BY <1>1, <1>2, <1>3, <1>6, <2>1, RequestShape
<1> QED BY <1>1, <1>4, <1>5, <1>6 DEF WholeRequest

(* Clients send whole requests and wait, and lines add nothing             *)
Undisturbed == /\ "timeout" \notin Fault
               /\ Noise = {}
               /\ \A m \in Message : WholeRequest(m)

(* A request that is taken is answered *)
Unbroken == Fault \subseteq {"connect", "read", "diskfull"}

(* One port of RequestsKeepTheirFrame, and the places where a worker has a *)
(* request. Where requests may be lost with a worker, a response or the    *)
(* process, nothing at all may be under way for a client that waits        *)
InFrame(p) ==
  /\ request[p] # NoRequest <=> pc[p] \in {"commit", "save", "reply"}
  /\ client[p] = <<>> => buffer[p] \o wire[p] = <<>> /\ request[p] = NoRequest
  /\ client[p] # <<>> /\ request[p] = NoRequest =>
       \/ buffer[p] \o wire[p] = client[p]
       \/ ~Unbroken /\ buffer[p] \o wire[p] = <<>>
  /\ client[p] # <<>> /\ request[p] # NoRequest =>
       /\ buffer[p] \o wire[p] = <<>>
       /\ request[p][1] = client[p][1] /\ request[p][2] = client[p][2]
       /\ response[p][1] = client[p][2]
       /\ request[p][1] = WriteFlash =>
            client[p] = Request(WriteFlash, request[p][2], request[p][3])

AllInFrame == \A p \in Port : InFrame(p)

(* Clients and workers touch nothing of the other ports *)
LEMMA OtherPorts ==
  ASSUME IInv, NEW p \in Port, Client(p) \/ Worker(p), NEW q \in Port, q # p
  PROVE  /\ client'[q] = client[q] /\ wire'[q] = wire[q] /\ buffer'[q] = buffer[q]
         /\ pc'[q] = pc[q] /\ request'[q] = request[q] /\ response'[q] = response[q]
<1>1. CASE Client(p)
  BY <1>1 DEF IInv, TypeOK, Client, Send, Disturb, GiveUp
<1>2. CASE Connect(p) \/ Poll(p) \/ Lock(p)
  BY <1>2 DEF IInv, TypeOK, Connect, Poll, Lock
<1>3. CASE TooShort(p) \/ Reject(p) \/ Discard(p) \/ SaveFails(p) \/ Reply(p)
  BY <1>3 DEF IInv, TypeOK, TooShort, Reject, Discard, SaveFails, Reply, Leave
<1>4. CASE ReadConfig(p) \/ ReadGeneral(p)
  BY <1>4 DEF IInv, TypeOK, ReadConfig, ReadGeneral
<1>5. CASE Write(p)
  BY <1>5 DEF IInv, TypeOK, Write
<1>6. CASE Commit(p) \/ Save(p)
  BY <1>6 DEF IInv, TypeOK, Commit, Save
<1> QED BY <1>1, <1>2, <1>3, <1>4, <1>5, <1>6 DEF Worker, Handle

(* What the types of IInv say of port p, and what a waiting client has     *)
(* sent                                                                    *)
LEMMA OfPort ==
  ASSUME IInv, NEW p \in Port
  PROVE  /\ client \in [Port -> Message \union {<<>>}]
         /\ wire \in [Port -> Seq(Byte)] /\ buffer \in [Port -> Seq(Byte)]
         /\ pc \in [Port -> {"start", "poll", "lock", "handle",
                             "commit", "save", "reply", "done"}]
         /\ DOMAIN request = Port /\ DOMAIN response = Port
         /\ client[p] # <<>> => client[p] \in Message
BY DEF IInv, TypeOK

(* A client or the line *)
LEMMA ClientFrame ==
  ASSUME IInv, AllInFrame, Undisturbed, NEW p \in Port, Client(p)
  PROVE  InFrame(p)'
<1>0. InFrame(p)
  BY DEF AllInFrame
<1>1. Send(p)
  BY DEF Client, Disturb, GiveUp, Undisturbed
<1>2. PICK m \in Message : /\ client' = [client EXCEPT ![p] = m]
                           /\ wire'   = [wire EXCEPT ![p] = @ \o m]
  BY <1>1 DEF Send
<1>3. /\ client[p] = <<>> /\ pc[p] \notin {"start", "done"}
      /\ UNCHANGED <<buffer, pc, request, response>>
  BY <1>1 DEF Send, Open
<1>4. m \in Seq(Byte) /\ m # <<>>
  BY SerialHandlerAssumption DEF SerialHandlerAssumption
<1>5. client'[p] = m /\ wire'[p] = wire[p] \o m
  BY <1>2, OfPort
<1>6. buffer[p] = <<>> /\ wire[p] = <<>> /\ request[p] = NoRequest
  <2>1. buffer[p] \o wire[p] = <<>> /\ request[p] = NoRequest
    BY <1>0, <1>3 DEF InFrame
  <2> QED BY <2>1, OfPort, ConcatEqualIffEmpty
<1>7. buffer[p] \o wire'[p] = m
  BY <1>4, <1>5, <1>6
<1> QED BY <1>0, <1>3, <1>4, <1>5, <1>6, <1>7 DEF InFrame

(* A worker outside the mutex: ReadFile moves bytes from the line to the   *)
(* buffer                                                                  *)
LEMMA OutsideFrame ==
  ASSUME IInv, AllInFrame, NEW p \in Port, Connect(p) \/ Poll(p) \/ Lock(p)
  PROVE  InFrame(p)'
<1>0. InFrame(p)
  BY DEF AllInFrame
<1>1. /\ UNCHANGED <<client, request, response>>
      /\ pc[p] \notin {"commit", "save", "reply", "done"}
      /\ pc'[p] \notin {"commit", "save", "reply", "start"}
      /\ pc'[p] = "done" => pc[p] = "start"
  BY OfPort DEF Connect, Poll, Lock
<1>2. buffer'[p] \o wire'[p] = buffer[p] \o wire[p]
  <2>1. CASE Connect(p) \/ Lock(p)
    BY <2>1 DEF Connect, Lock
  <2>2. CASE Poll(p)
    <3> DEFINE w == wire[p]
               a == buffer[p]
    <3>1. w \in Seq(Byte) /\ a \in Seq(Byte)
      BY OfPort
    <3>2. PICK n \in {Len(w)} \union {k \in ReadSize : 0 < k /\ k < Len(w)} :
            /\ buffer' = [buffer EXCEPT ![p] = @ \o SubSeq(w, 1, n)]
            /\ wire'   = [wire EXCEPT ![p] = SubSeq(@, n + 1, Len(@))]
      BY <2>2 DEF Poll
    <3>3. buffer'[p] = a \o SubSeq(w, 1, n) /\ wire'[p] = SubSeq(w, n + 1, Len(w))
      BY <3>2, OfPort
    <3> HIDE DEF w, a
    <3>4. n \in 0..Len(w) /\ Len(w) \in Nat
      <4>1. ReadSize \subseteq Nat
        BY SerialHandlerAssumption DEF SerialHandlerAssumption
      <4>2. n = Len(w) \/ (n \in Nat /\ n < Len(w))
        BY <4>1
      <4> QED BY <3>1, <4>2
    <3>5. SubSeq(w, 1, n) \in Seq(Byte) /\ SubSeq(w, n + 1, Len(w)) \in Seq(Byte)
      <4>1. \A i \in 1..Len(w) : w[i] \in Byte
        BY <3>1
      <4>2. /\ \A i \in 1..n : w[i] \in Byte
            /\ \A i \in n + 1..Len(w) : w[i] \in Byte
            /\ n \in Int /\ n + 1 \in Int /\ Len(w) \in Int
        BY <3>4, <4>1
      <4> QED BY <4>2, SubSeqProperties
    <3>6. SubSeq(w, 1, n) \o SubSeq(w, n + 1, Len(w)) = w
      <4>1. n \in 1 - 1..Len(w) /\ Len(w) \in n..Len(w) /\ 1 \in 1..Len(w) + 1
        BY <3>4
      <4>2. SubSeq(w, 1, n) \o SubSeq(w, n + 1, Len(w)) = SubSeq(w, 1, Len(w))
        BY <3>1, <4>1, ConcatAdjacentSubSeq
      <4>3. SubSeq(w, 1, Len(w)) = w
        BY <3>1
      <4> QED BY <4>2, <4>3
    <3>7. (a \o SubSeq(w, 1, n)) \o SubSeq(w, n + 1, Len(w))
            = a \o (SubSeq(w, 1, n) \o SubSeq(w, n + 1, Len(w)))
      <4> DEFINE x == SubSeq(w, 1, n)
                 y == SubSeq(w, n + 1, Len(w))
      <4>1. x \in Seq(Byte) /\ y \in Seq(Byte)
        BY <3>5
      <4> HIDE DEF x, y
      <4>2. (a \o x) \o y = a \o (x \o y)
        BY <3>1, <4>1, ConcatAssociative
      <4> QED BY <4>2 DEF x, y
    <3> QED BY <3>3, <3>6, <3>7 DEF w, a
  <2> QED BY <2>1, <2>2
<1> QED BY <1>0, <1>1, <1>2 DEF InFrame

(* What the worker sees in its buffer while its client waits is the        *)
(* beginning of the request, or all of it                                  *)
LEMMA Beginning ==
  ASSUME IInv, AllInFrame, Undisturbed, NEW p \in Port, pc[p] = "handle", Len(buffer[p]) >= 2
  PROVE  /\ client[p] # <<>> /\ request[p] = NoRequest
         /\ client[p] \in Message /\ WholeRequest(client[p])
         /\ buffer[p][1] = client[p][1] /\ buffer[p][2] = client[p][2]
         /\ Len(buffer[p]) >= Len(client[p]) => buffer[p] = client[p] /\ wire[p] = <<>>
<1>0. InFrame(p)
  BY DEF AllInFrame
<1>1. buffer[p] \in Seq(Byte) /\ wire[p] \in Seq(Byte)
  BY OfPort
<1>2. request[p] = NoRequest
  BY <1>0 DEF InFrame
<1>8. buffer[p] \o wire[p] # <<>>
  <2>1. buffer[p] # <<>>
    OBVIOUS
  <2> QED BY <1>1, <2>1, ConcatEqualIffEmpty
<1>3. client[p] # <<>>
  BY <1>0, <1>8 DEF InFrame
<1>4. client[p] \in Message /\ WholeRequest(client[p]) /\ client[p] \in Seq(Byte)
  BY <1>3, OfPort, WholeShape DEF Undisturbed
<1>5. buffer[p] \o wire[p] = client[p]
  BY <1>0, <1>1, <1>2, <1>3, <1>8 DEF InFrame
<1>6. /\ \A i \in 1..Len(buffer[p]) : buffer[p][i] = client[p][i]
      /\ Len(buffer[p]) >= Len(client[p]) => buffer[p] = client[p] /\ wire[p] = <<>>
  BY <1>1, <1>4, <1>5, Arriving
<1>7. 1 \in 1..Len(buffer[p]) /\ 2 \in 1..Len(buffer[p])
  BY <1>1
<1> QED BY <1>2, <1>3, <1>4, <1>6, <1>7

(* A request that is taken is the one that the client waits for, and       *)
(* nothing is left of it on the line                                       *)
LEMMA TakenFrame ==
  ASSUME IInv, AllInFrame, Undisturbed, NEW p \in Port,
         ReadConfig(p) \/ ReadGeneral(p) \/ Write(p)
  PROVE  InFrame(p)'
<1> DEFINE m == client[p]
           d == buffer[p]
<1>0. pc[p] = "handle" /\ Len(d) >= 2
  BY DEF ReadConfig, ReadGeneral, Write, ConfigRead, Addressed
<1>1. /\ m # <<>> /\ m \in Message /\ WholeRequest(m)
      /\ d[1] = m[1] /\ d[2] = m[2]
      /\ Len(d) >= Len(m) => d = m /\ wire[p] = <<>>
  BY <1>0, Beginning
<1>2. /\ m \in Seq(Byte)
      /\ \/ m[1] = ReadFlash /\ m[2] \in ConfigType /\ Len(m) <= 2
         \/ m[1] = ReadFlash /\ m[2] = General /\ Len(m) = RequestSize(General)
         \/ /\ m[1] = WriteFlash /\ m[2] \in ConfigType /\ Len(m) = RequestSize(m[2])
            /\ m = Request(WriteFlash, m[2], Payload(m, m[2]))
  BY <1>1, WholeShape
<1>3. ReadFlash # WriteFlash /\ General \notin ConfigType
  BY DEF ReadFlash, WriteFlash, General, ConfigType, Basic, Pedal, Throttle
<1>4. client' = client /\ wire' = wire /\ buffer'[p] = <<>>
  BY OfPort DEF ReadConfig, ReadGeneral, Write
<1>5. d \in Seq(Byte) /\ Len(d) \in Nat /\ Len(m) \in Nat
  BY <1>2, OfPort
<1>6. ASSUME Len(d) >= Len(m),
             pc'[p] \in {"commit", "save", "reply"}, request'[p] # NoRequest,
             request'[p][1] = m[1], request'[p][2] = m[2], response'[p][1] = m[2],
             request'[p][1] = WriteFlash => m = Request(WriteFlash, request'[p][2], request'[p][3])
      PROVE  InFrame(p)'
  <2>1. wire'[p] = <<>> /\ buffer'[p] \o wire'[p] = <<>>
    BY <1>1, <1>4, <1>6
  <2> QED BY <1>1, <1>4, <1>6, <2>1 DEF InFrame
<1>7. CASE ReadConfig(p)
  <2>1. d[1] = ReadFlash /\ d[2] \in ConfigType
    BY <1>7 DEF ReadConfig, ConfigRead, Addressed
  <2>2. Len(d) >= Len(m)
    BY <1>0, <1>1, <1>2, <1>3, <1>5, <2>1
  <2>3. /\ request'[p] = <<ReadFlash, d[2], <<>>>>
        /\ response'[p] = ResponsePacket(d[2], Build(d[2], profile.config))
        /\ pc'[p] = "reply"
    BY <1>7, OfPort DEF ReadConfig
  <2>4. response'[p][1] = d[2]
    BY <2>3 DEF ResponsePacket
  <2>5. request'[p][1] = ReadFlash /\ request'[p][2] = d[2] /\ request'[p] # NoRequest
    BY <2>3 DEF NoRequest
  <2> HIDE DEF m, d
  <2> QED BY <1>1, <1>3, <1>6, <2>1, <2>2, <2>3, <2>4, <2>5
<1>8. CASE ReadGeneral(p)
  <2>1. d[1] = ReadFlash /\ d[2] = General /\ ~Truncated(d, General)
    BY <1>8 DEF ReadGeneral, Addressed, Deserializes
  <2>2. RequestSize(General) \in Nat
    BY DEF RequestSize, RequestPayloadSize, General
  <2>3. Len(d) >= Len(m)
    BY <1>1, <1>2, <1>3, <1>5, <2>1, <2>2 DEF Truncated
  <2>4. /\ request'[p] = <<ReadFlash, General, <<>>>>
        /\ response'[p] = ResponsePacket(General, Build(General, profile.general))
        /\ pc'[p] \in {"save", "reply"}
    BY <1>8, OfPort DEF ReadGeneral
  <2>5. response'[p][1] = General
    BY <2>4 DEF ResponsePacket
  <2>6. request'[p][1] = ReadFlash /\ request'[p][2] = General /\ request'[p] # NoRequest
    BY <2>4 DEF NoRequest
  <2> HIDE DEF m, d
  <2> QED BY <1>1, <1>3, <1>6, <2>1, <2>3, <2>4, <2>5, <2>6
<1>9. CASE Write(p)
  <2>1. PICK t \in ConfigType :
          /\ d[1] = WriteFlash /\ d[2] = t /\ ~Truncated(d, t)
          /\ request'  = [request EXCEPT ![p] = <<WriteFlash, t, Payload(d, t)>>]
          /\ response' = [response EXCEPT ![p] = StatusPacket(t, Status(t, Payload(d, t)))]
    BY <1>9 DEF Write, Addressed, Deserializes
  <2>2. RequestSize(t) \in Nat
    BY DEF RequestSize, RequestPayloadSize, ConfigType, General, Basic, Pedal, Throttle
  <2>3. Len(d) >= Len(m)
    BY <1>1, <1>2, <1>3, <1>5, <2>1, <2>2 DEF Truncated
  <2>4. m = Request(WriteFlash, t, Payload(d, t))
    BY <1>1, <1>2, <1>3, <2>1, <2>3
  <2>5. pc'[p] \in {"commit", "reply"}
    BY <1>9, OfPort DEF Write
  <2>6. /\ request'[p] = <<WriteFlash, t, Payload(d, t)>>
        /\ response'[p] = StatusPacket(t, Status(t, Payload(d, t)))
    BY <2>1, OfPort
  <2> DEFINE b == Payload(d, t)
  <2> HIDE DEF m, d, b
  <2>7. /\ request'[p][1] = WriteFlash /\ request'[p][2] = t /\ request'[p][3] = b
        /\ request'[p] # NoRequest /\ response'[p][1] = t
    BY <2>6 DEF NoRequest, StatusPacket, b
  <2> QED BY <1>1, <1>6, <2>1, <2>3, <2>4, <2>5, <2>7 DEF b
<1> QED BY <1>7, <1>8, <1>9

(* The other steps of a worker under the mutex                             *)
LEMMA OtherFrame ==
  ASSUME IInv, AllInFrame, Undisturbed, NEW p \in Port,
         TooShort(p) \/ Reject(p) \/ Discard(p) \/ Commit(p) \/ Save(p) \/ SaveFails(p) \/ Reply(p)
  PROVE  InFrame(p)'
<1>0. InFrame(p)
  BY DEF AllInFrame
<1>1. CASE TooShort(p) \/ Reject(p)
  <2>1. /\ pc[p] = "handle" /\ UNCHANGED <<client, wire, buffer>>
        /\ pc'[p] = "poll" /\ request'[p] = NoRequest
    BY <1>1, OfPort DEF TooShort, Reject, Leave
  <2> QED BY <1>0, <2>1 DEF InFrame
<1>2. ~Discard(p)
  <2> SUFFICES ASSUME Discard(p) PROVE FALSE
    OBVIOUS
  <2>1. pc[p] = "handle" /\ Len(buffer[p]) >= 2
    BY DEF Discard
  <2>2. /\ client[p] \in Message /\ WholeRequest(client[p])
        /\ buffer[p][1] = client[p][1] /\ buffer[p][2] = client[p][2]
    BY <2>1, Beginning
  <2>3. \/ buffer[p][1] = ReadFlash /\ buffer[p][2] \in ConfigType
        \/ buffer[p][1] = ReadFlash /\ buffer[p][2] = General
        \/ buffer[p][1] = WriteFlash /\ buffer[p][2] \in ConfigType
    BY <2>2, WholeShape
  <2> QED BY <2>1, <2>3 DEF Discard, Checked, ConfigRead, Addressed
<1>3. CASE Commit(p) \/ Save(p)
  <2>1. /\ pc[p] \in {"commit", "save", "reply"} /\ pc'[p] \in {"commit", "save", "reply"}
        /\ UNCHANGED <<client, wire, buffer, request, response>>
    BY <1>3, OfPort DEF Commit, Save
  <2> QED BY <1>0, <2>1 DEF InFrame
<1>4. CASE SaveFails(p) \/ Reply(p)
  <2>1. /\ pc[p] \in {"save", "reply"} /\ UNCHANGED <<wire, buffer>>
        /\ client'[p] = <<>> \/ ~Unbroken
        /\ client'[p] = <<>> \/ client' = client
        /\ pc'[p] = "poll" /\ request'[p] = NoRequest
    BY <1>4, OfPort DEF SaveFails, Reply, Leave, Unbroken
  <2>2. buffer[p] \o wire[p] = <<>>
    BY <1>0, <2>1 DEF InFrame
  <2> QED BY <2>1, <2>2 DEF InFrame
<1> QED BY <1>1, <1>2, <1>3, <1>4

(* Every step keeps every port in frame                                    *)
LEMMA NextFrame ==
  ASSUME IInv, AllInFrame, Undisturbed, [Next]_vars
  PROVE  AllInFrame'
<1> SUFFICES ASSUME NEW q \in Port PROVE InFrame(q)'
  BY DEF AllInFrame
<1>0. InFrame(q)
  BY DEF AllInFrame
<1>1. CASE UNCHANGED vars
  BY <1>0, <1>1 DEF vars, InFrame
<1>2. CASE Kill
  <2>1. /\ buffer'[q] = <<>> /\ wire'[q] = <<>> /\ request'[q] = NoRequest
        /\ pc'[q] \in {"start", "done"} /\ ~Unbroken
    BY <1>2, KillPlaces DEF Kill, Unbroken
  <2>2. buffer'[q] \o wire'[q] = <<>>
    BY <2>1
  <2> QED BY <2>1, <2>2 DEF InFrame
<1>3. ASSUME NEW p \in Port, Client(p) \/ Worker(p) PROVE InFrame(q)'
  <2>1. CASE p # q
    BY <1>0, <1>3, <2>1, OtherPorts DEF InFrame
  <2>2. CASE p = q /\ Client(p)
    BY <2>2, ClientFrame
  <2>3. CASE p = q /\ Worker(p)
    BY <2>3, OutsideFrame, TakenFrame, OtherFrame DEF Worker, Handle
  <2> QED BY <1>3, <2>1, <2>2, <2>3
<1> QED BY <1>1, <1>2, <1>3 DEF Next

(* Nothing is under way at the start *)
LEMMA InitFrame == Init => AllInFrame
<1> SUFFICES ASSUME Init, NEW p \in Port PROVE InFrame(p)
  BY DEF AllInFrame
<1>1. /\ buffer[p] = <<>> /\ wire[p] = <<>> /\ client[p] = <<>> /\ request[p] = NoRequest
      /\ pc[p] \in {"start", "done"}
  BY InitPlaces DEF Init
<1> QED BY <1>1 DEF InFrame

(* Whatever the number of ports, and however ReadFile cuts the input into  *)
(* pieces: if clients send whole requests and wait for the answers, and    *)
(* neither lines nor saves nor responses fail, then every request is taken *)
(* as a whole, alone, and is answered with its type                        *)
THEOREM RequestsAreTakenWhole ==
  ASSUME Undisturbed, Unbroken
  PROVE  Spec => []RequestsKeepTheirFrame
<1>1. IInv /\ AllInFrame /\ [Next]_vars => AllInFrame'
  BY NextFrame
<1>2. AllInFrame => RequestsKeepTheirFrame
  BY Zenon DEF AllInFrame, InFrame, RequestsKeepTheirFrame
<1> QED BY <1>1, <1>2, InitFrame, Invariance, PTL DEF Spec

(* If clients send whole requests and wait for the answers: every write    *)
(* that is carried out was sent, although the process is killed, and       *)
(* although profiles cannot be opened and responses get lost               *)
THEOREM WritesWereSent ==
  ASSUME Undisturbed
  PROVE  Spec => []OnlySentIsWritten
<1>1. IInv /\ AllInFrame /\ [Next]_vars => AllInFrame'
  BY NextFrame
<1>2. IInv /\ AllInFrame => OnlySentIsWritten
  <2> SUFFICES ASSUME IInv, AllInFrame, NEW p \in Port, pc[p] = "commit"
               PROVE  Request(WriteFlash, request[p][2], request[p][3]) \in Message
    BY DEF OnlySentIsWritten
  <2>1. InFrame(p)
    BY DEF AllInFrame
  <2>2. request[p] # NoRequest
    BY <2>1 DEF InFrame
  <2>3. request[p][1] = WriteFlash
    BY DEF IInv, CommitsAreFresh, Committing
  <2>4. client[p] # <<>> /\ client[p] = Request(WriteFlash, request[p][2], request[p][3])
    BY <2>1, <2>2, <2>3 DEF InFrame
  <2> QED BY <2>4, OfPort
<1> QED BY <1>1, <1>2, InitFrame, Invariance, PTL DEF Spec

=============================================================================
