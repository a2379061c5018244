------------------- MODULE SerialHandlerRefinement_proofs -------------------
(***************************************************************************)
(* SerialHandler implements ConfigStore, for every number of ports and all *)
(* requests: the workers, the two profiles, the files and the restarts are *)
(* one register per section to the clients                                 *)
(***************************************************************************)
EXTENDS SerialHandlerRefinement, SerialHandler_proofs

-----------------------------------------------------------------------------
(* The operators that ConfigStore names are those of PacketBuilder: the    *)
(* packet types, the packets that answer                                   *)
LEMMA SameTypes ==
  /\ Store!General = General /\ Store!ConfigType = ConfigType /\ Store!PacketType = PacketType
  /\ \A t : Store!Success(t) = Success(t)
  /\ \A t, x : Store!StatusPacket(t, x) = StatusPacket(t, x)
  /\ \A t, x : Store!ResponsePacket(t, x) = ResponsePacket(t, x)
<1>1. Store!General = General /\ Store!ConfigType = ConfigType /\ Store!PacketType = PacketType
  BY Zenon DEF Store!PacketType, Store!ConfigType, Store!General, Store!Basic, Store!Pedal,
               Store!Throttle, PacketType, ConfigType, General, Basic, Pedal, Throttle
<1>2. \A t : Store!Success(t) = Success(t)
  BY Zenon DEF Store!Success, Store!Basic, Store!Pedal, Store!Throttle,
               Success, Basic, Pedal, Throttle
<1>3. \A t, x : Store!StatusPacket(t, x) = StatusPacket(t, x)
  BY Zenon DEF Store!StatusPacket, StatusPacket
<1>4. \A t, x : Store!ResponsePacket(t, x) = ResponsePacket(t, x)
  BY Zenon DEF Store!ResponsePacket, Store!ResponseSize, Store!RequestPayloadSize, Store!General,
               Store!Basic, Store!Pedal, Store!Throttle, ResponsePacket, ResponseSize,
               RequestPayloadSize, General, Basic, Pedal, Throttle
<1> QED BY <1>1, <1>2, <1>3, <1>4

(* ... and the checks of parse                                             *)
LEMMA SameChecks == \A t, b : Store!Accepted(t, b) <=> Accepted(t, b)
<1>1. \A w : Store!WheelIndex(w) = WheelIndex(w)
  BY Zenon DEF Store!WheelIndex, Store!Wheels, Store!Range, WheelIndex, Wheels, Range
<1>2. \A b : Store!BasicSteps(b) = BasicSteps(b)
  BY <1>1, Zenon DEF Store!BasicSteps, Store!ALC, Store!ALBP, Store!Percent, Store!Byte,
                     BasicSteps, ALC, ALBP, Percent, Byte
<1>3. \A b : Store!PedalSteps(b) = PedalSteps(b)
  BY Zenon DEF Store!PedalSteps, Store!Percent, Store!Byte, Store!UpToOr255,
               PedalSteps, Percent, Byte, UpToOr255
<1>4. \A b : Store!ThrottleSteps(b) = ThrottleSteps(b)
  BY Zenon DEF Store!ThrottleSteps, Store!Percent, Store!Byte, Store!UpToOr255,
               ThrottleSteps, Percent, Byte, UpToOr255
<1>5. \A t, b : Store!Steps(t, b) = Steps(t, b)
  BY <1>2, <1>3, <1>4, Zenon DEF Store!Steps, Store!Basic, Store!Pedal, Steps, Basic, Pedal
<1>6. \A t, b : Store!Failing(t, b) = Failing(t, b)
  BY <1>5, Zenon DEF Store!Failing, Failing
<1> QED BY <1>6, Zenon DEF Store!Accepted, Accepted

-----------------------------------------------------------------------------
(* A profile that is not on disk holds nothing but defaults, unless a      *)
(* write has been put into it that is just being saved                     *)
OnlyDefaults(p) == \A t \in PacketType : Found(t, p) = Found(t, NoProfile)

DefaultsUntilSaved ==
  /\ ~profile.general.exists => OnlyDefaults(profile.general)
  /\ ~profile.config.exists => \/ OnlyDefaults(profile.config)
                               \/ \E p \in Port : Saving(p, "config")

(* Reads leave defaults in a profile, and nothing else *)
LEMMA TouchedDefaults ==
  ASSUME NEW t \in PacketType, NEW p, IsProfile(p), OnlyDefaults(p)
  PROVE  OnlyDefaults(Touched(t, p))
<1> SUFFICES ASSUME NEW u \in PacketType
             PROVE  Found(u, Touched(t, p)) = Found(u, NoProfile)
  BY DEF OnlyDefaults
<1> DEFINE F(q) == [i \in DOMAIN Finds(u) |-> Find(q, <<u, Finds(u)[i][1]>>, Finds(u)[i][2])]
<1>1. \A q : Found(u, q) = F(q)
  BY DEF Found
<1>2. F(Touched(t, p)) = F(p)
  BY FindTouched, Zenon
<1>3. Found(u, p) = Found(u, NoProfile)
  BY DEF OnlyDefaults
<1> HIDE DEF F
<1> QED BY <1>1, <1>2, <1>3, Zenon

(* A part of these settings is defaults, too *)
LEMMA CutDefaults ==
  ASSUME NEW t \in PacketType, NEW p, Found(t, p) = Found(t, NoProfile), NEW q,
         \A k \in DOMAIN q.data : k \in DOMAIN p.data /\ q.data[k] = p.data[k]
  PROVE  Found(t, q) = Found(t, NoProfile)
<1>1. NoProfile.data = NoData /\ DOMAIN NoData = {}
  BY DEF NoProfile, NoData
<1>2. ASSUME NEW i \in DOMAIN Finds(t)
      PROVE  Found(t, q)[i] = Found(t, NoProfile)[i]
  <2> DEFINE k == <<t, Finds(t)[i][1]>>
             default == Finds(t)[i][2]
  <2>1. \A s : Found(t, s)[i] = Find(s, k, default)
    BY DEF Found
  <2> HIDE DEF k, default
  <2>2. Find(p, k, default) = Find(NoProfile, k, default)
    BY <2>1
  <2>3. Find(NoProfile, k, default) = default
    BY <1>1 DEF Find
  <2>4. Find(q, k, default) = default
    BY <2>2, <2>3 DEF Find
  <2> QED BY <2>1, <2>3, <2>4
<1>3. \A s : DOMAIN Found(t, s) = DOMAIN Finds(t) /\ Found(t, s) = [i \in DOMAIN Finds(t) |-> Found(t, s)[i]]
  BY DEF Found
<1> QED BY <1>2, <1>3

(* The faults that a register does not have: a file that is there and      *)
(* cannot be opened, for reading or for saving, and a full disk            *)
SoundFiles == Fault \intersect {"read", "open", "diskfull"} = {}

(* Without them a process has what is in its files                         *)
LEMMA InitLoads ==
  ASSUME SoundFiles, Init
  PROVE  profile.general = Load(file.general) /\ profile.config = Load(file.config)
<1>1. /\ DOMAIN file = {"general", "config"}
      /\ file.general \in GeneralFile /\ file.config \in ConfigFile
  BY DEF Init
<1>2. \A f \in {"general", "config"} : IsFile(file[f]) /\ Readable(file[f])
  BY <1>1, SerialHandlerAssumption DEF SerialHandlerAssumption
<1>3. \A f \in {"general", "config"} : profile[f] = Load(file[f])
  BY <1>1, <1>2, Starts DEF Init, SoundFiles
<1> QED BY <1>3

LEMMA KillLoads ==
  ASSUME SoundFiles, IInv, Kill
  PROVE  profile'.general = Load(file'.general) /\ profile'.config = Load(file'.config)
<1>1. /\ DOMAIN file' = {"general", "config"}
      /\ \A f \in {"general", "config"} : IsFile(file'[f]) /\ Readable(file'[f])
  BY KillInv DEF IInv, TypeOK, FilesReadable, SoundFiles
<1>2. \A f \in {"general", "config"} : profile'[f] = Load(file'[f])
  BY <1>1, Starts DEF Kill, SoundFiles
<1> QED BY <1>2

(* Every step keeps it, if profiles can be opened for saving and loading   *)
LEMMA NextDefaults ==
  ASSUME IInv, SoundFiles, DefaultsUntilSaved, [Next]_vars
  PROVE  DefaultsUntilSaved'
<1>0. /\ IsProfile(profile.config) /\ IsProfile(profile.general)
      /\ DOMAIN profile = {"general", "config"}
      /\ DOMAIN request = Port /\ DOMAIN pc = Port
  BY DEF IInv, TypeOK
<1>1. CASE Kill
  <2>1. profile'.general = Load(file'.general) /\ profile'.config = Load(file'.config)
    BY <1>1, KillLoads
  <2>2. \A f : ~Load(f).exists => Load(f) = NoProfile
    BY DEF Load, NoProfile
  <2> QED BY <2>1, <2>2 DEF DefaultsUntilSaved, OnlyDefaults
<1>2. ASSUME UNCHANGED profile,
             \A p \in Port : Saving(p, "config") => Saving(p, "config")'
      PROVE  DefaultsUntilSaved'
  <2>1. (\E p \in Port : Saving(p, "config")) => (\E p \in Port : Saving(p, "config")')
    BY <1>2
  <2> QED BY <1>2, <2>1 DEF DefaultsUntilSaved
<1>3. CASE UNCHANGED vars
  BY <1>2, <1>3 DEF vars, Saving, Which
<1>4. ASSUME NEW p \in Port, Client(p) PROVE DefaultsUntilSaved'
  BY <1>2, <1>4 DEF Client, Send, Disturb, GiveUp, Saving, Which
<1>5. ASSUME NEW p \in Port, Worker(p) PROVE DefaultsUntilSaved'
  <2>1. ASSUME pc[p] # "save" PROVE \A q \in Port : Saving(q, "config") => Saving(q, "config")'
    BY <1>5, <2>1, OtherPorts DEF Saving, Which
  <2>2. CASE Connect(p) \/ Poll(p) \/ Lock(p) \/ TooShort(p) \/ Reject(p) \/ Discard(p)
             \/ Write(p) \/ Reply(p)
    <3>1. UNCHANGED profile /\ pc[p] # "save"
      BY <2>2 DEF Connect, Poll, Lock, TooShort, Reject, Discard, Write, Reply
    <3> QED BY <1>2, <2>1, <3>1
  <2>3. CASE ReadConfig(p)
    <3>1. pc[p] # "save" /\ buffer[p][2] \in PacketType
      BY <2>3 DEF ReadConfig, ConfigRead, Addressed, PacketType
    <3>2. /\ profile'.config = Touched(buffer[p][2], profile.config)
          /\ profile'.general = profile.general
      BY <1>0, <2>3 DEF ReadConfig
    <3>3. profile'.config.exists = profile.config.exists
      BY <1>0, <3>1, <3>2, TouchedType
    <3>4. OnlyDefaults(profile.config) => OnlyDefaults(profile'.config)
      BY <1>0, <3>1, <3>2, TouchedDefaults
    <3> QED BY <2>1, <3>1, <3>2, <3>3, <3>4 DEF DefaultsUntilSaved
  <2>4. CASE ReadGeneral(p)
    <3>1. pc[p] # "save" /\ General \in PacketType
      BY <2>4 DEF ReadGeneral, PacketType
    <3>2. /\ profile'.general = Touched(General, profile.general)
          /\ profile'.config = profile.config
      BY <1>0, <2>4 DEF ReadGeneral
    <3>3. profile'.general.exists = profile.general.exists
      BY <1>0, <3>1, <3>2, TouchedType
    <3>4. OnlyDefaults(profile.general) => OnlyDefaults(profile'.general)
      BY <1>0, <3>1, <3>2, TouchedDefaults
    <3> QED BY <2>1, <3>1, <3>2, <3>3, <3>4 DEF DefaultsUntilSaved
  <2>5. CASE Commit(p)
    <3>1. request[p][2] \in ConfigType
      BY <2>5 DEF Commit, IInv, CommitsAreFresh, Committing
    <3>2. Saving(p, "config")'
      BY <1>0, <2>5, <3>1 DEF Saving, Which, Commit, ConfigType, General, Basic, Pedal, Throttle
    <3>3. profile'.general = profile.general
      BY <1>0, <2>5 DEF Commit
    <3> QED BY <3>2, <3>3 DEF DefaultsUntilSaved
  <2>6. CASE Save(p)
    <3>1. \A q \in Port : pc[q] = "save" => q = p
      BY <2>6 DEF Save, IInv, MutexOwner, InMutex
    <3>2. profile' = [profile EXCEPT ![Which(p)].exists = TRUE]
      BY <2>6 DEF Save
    <3>3. CASE Which(p) = "config"
      <4>1. profile'.general = profile.general /\ profile'.config.exists
        BY <1>0, <3>2, <3>3 DEF IsProfile
      <4> QED BY <4>1 DEF DefaultsUntilSaved
    <3>4. CASE Which(p) = "general"
      <4>1. profile'.config = profile.config /\ profile'.general.exists
        BY <1>0, <3>2, <3>4 DEF IsProfile
      <4>2. \A q \in Port : ~Saving(q, "config")
        BY <3>1, <3>4 DEF Saving
      <4> QED BY <4>1, <4>2 DEF DefaultsUntilSaved
    <3> QED BY <3>3, <3>4 DEF Which
  <2>7. CASE SaveFails(p)
    BY <2>7 DEF SaveFails, SoundFiles
  <2> QED BY <1>5, <2>2, <2>3, <2>4, <2>5, <2>6, <2>7 DEF Worker, Handle
<1> QED BY <1>1, <1>3, <1>4, <1>5 DEF Next

(* What is loaded of no file is nothing *)
LEMMA InitDefaults ==
  ASSUME SoundFiles, Init
  PROVE  DefaultsUntilSaved
<1>1. profile.general = Load(file.general) /\ profile.config = Load(file.config)
  BY InitLoads
<1>2. \A f : ~Load(f).exists => Load(f) = NoProfile
  BY DEF Load, NoProfile
<1> QED BY <1>1, <1>2 DEF DefaultsUntilSaved, OnlyDefaults
-----------------------------------------------------------------------------
(* What is under way to the client of p *)
PendingOf(p) == IF pc[p] = "save" /\ request[p][1] = WriteFlash
                THEN <<"stored", request[p][2], request[p][3]>>
                ELSE IF pc[p] = "reply" THEN <<"answer", response[p]>>
                ELSE <<>>

(* The mapping, one port and one section at a time *)
LEMMA Mapping ==
  /\ UnderWay = [p \in Port |-> PendingOf(p)]
  /\ Served = [t \in PacketType |-> Build(t, IF t = General THEN profile.general
                                                            ELSE profile.config)]
BY DEF UnderWay, Served, PendingOf

(* Steps that leave what is served, and what is under way to other clients *)
LEMMA ServedStays ==
  ASSUME \A t \in PacketType : /\ Build(t, profile'.general) = Build(t, profile.general)
                               /\ Build(t, profile'.config) = Build(t, profile.config)
  PROVE  Served' = Served
<1>1. Served' = [t \in PacketType |-> Build(t, IF t = General THEN profile'.general
                                                              ELSE profile'.config)]
  BY DEF Served
<1>2. \A t \in PacketType : Build(t, IF t = General THEN profile'.general ELSE profile'.config)
                          = Build(t, IF t = General THEN profile.general ELSE profile.config)
  OBVIOUS
<1> QED BY <1>1, <1>2, Mapping

(* A step of the client or of the worker of one port moves what is under   *)
(* way for that client, and for no other                                   *)
LEMMA UnderWayOf ==
  ASSUME IInv, NEW p \in Port, Client(p) \/ Worker(p)
  PROVE  UnderWay' = [UnderWay EXCEPT ![p] = PendingOf(p)']
<1>1. UnderWay' = [q \in Port |-> PendingOf(q)']
  BY DEF UnderWay, PendingOf
<1>2. \A q \in Port : q # p => PendingOf(q)' = PendingOf(q)
  BY OtherPorts DEF PendingOf
<1> QED BY <1>1, <1>2, Mapping

(* A step is one of the abstract specification, or none *)
LEMMA Stutters ==
  ASSUME IInv, NEW p \in Port, Client(p) \/ Worker(p), UNCHANGED profile,
         PendingOf(p)' = PendingOf(p)
  PROVE  UNCHANGED Store!vars
<1>1. Served' = Served
  BY DEF Served
<1>2. UnderWay' = UnderWay
  BY UnderWayOf, Mapping
<1> QED BY <1>1, <1>2 DEF Store!vars

(* Init maps to Init *)
LEMMA InitMaps == Init => Store!Init
<1> SUFFICES ASSUME Init PROVE Store!Init
  OBVIOUS
<1>1. \A p \in Port : PendingOf(p) = <<>>
  BY InitPlaces DEF PendingOf
<1>2. UnderWay = [p \in Port |-> <<>>]
  BY <1>1, Mapping
<1>3. DOMAIN Served = PacketType
  BY DEF Served
<1> QED BY <1>2, <1>3, SameTypes DEF Store!Init, Store!Idle

(* A read answers with what is served, and changes nothing of it *)
LEMMA ReadMaps ==
  ASSUME IInv, NEW p \in Port, ReadConfig(p) \/ ReadGeneral(p)
  PROVE  UNCHANGED Store!vars \/ \E t \in PacketType : Store!Read(p, t)
<1>0. /\ IsProfile(profile.config) /\ IsProfile(profile.general)
      /\ DOMAIN profile = {"general", "config"}
      /\ DOMAIN request = Port /\ DOMAIN pc = Port /\ DOMAIN response = Port
  BY DEF IInv, TypeOK
<1>1. PendingOf(p) = <<>> /\ UnderWay[p] = <<>>
  BY Mapping DEF PendingOf, ReadConfig, ReadGeneral
<1>2. UnderWay' = [UnderWay EXCEPT ![p] = PendingOf(p)']
  BY UnderWayOf DEF Worker, Handle
<1>3. Served' = Served
  <2>1. CASE ReadConfig(p)
    <3>1. buffer[p][2] \in PacketType
      BY <2>1 DEF ReadConfig, ConfigRead, Addressed, PacketType
    <3>2. /\ profile'.config = Touched(buffer[p][2], profile.config)
          /\ profile'.general = profile.general
      BY <1>0, <2>1 DEF ReadConfig
    <3> QED BY <1>0, <3>1, <3>2, ReadsMoveNothing, ServedStays
  <2>2. CASE ReadGeneral(p)
    <3>1. General \in PacketType
      BY DEF PacketType
    <3>2. /\ profile'.general = Touched(General, profile.general)
          /\ profile'.config = profile.config
      BY <1>0, <2>2 DEF ReadGeneral
    <3> QED BY <1>0, <3>1, <3>2, ReadsMoveNothing, ServedStays
  <2> QED BY <2>1, <2>2
<1>4. ASSUME NEW t \in PacketType, PendingOf(p)' = <<"answer", ResponsePacket(t, Served[t])>>
      PROVE  Store!Read(p, t)
  BY <1>1, <1>2, <1>3, <1>4, SameTypes DEF Store!Read, Store!Idle, Store!Answer
<1>5. CASE ReadConfig(p)
  <2> DEFINE t == buffer[p][2]
  <2>1. t \in PacketType /\ t # General
    BY <1>5 DEF ReadConfig, ConfigRead, Addressed, PacketType,
                ConfigType, General, Basic, Pedal, Throttle
  <2>2. Served[t] = Build(t, profile.config)
    BY <2>1, Mapping
  <2>3. pc'[p] = "reply" /\ response'[p] = ResponsePacket(t, Build(t, profile.config))
    BY <1>0, <1>5 DEF ReadConfig
  <2>4. PendingOf(p)' = <<"answer", ResponsePacket(t, Served[t])>>
    BY <2>2, <2>3 DEF PendingOf
  <2> QED BY <1>4, <2>1, <2>4
<1>6. CASE ReadGeneral(p)
  <2>1. General \in PacketType /\ Served[General] = Build(General, profile.general)
    BY Mapping DEF PacketType
  <2>2. /\ response'[p] = ResponsePacket(General, Build(General, profile.general))
        /\ request'[p] = <<ReadFlash, General, <<>>>>
        /\ pc'[p] \in {"reply", "save"}
    BY <1>0, <1>6 DEF ReadGeneral
  <2>3. CASE pc'[p] = "reply"
    <3>1. PendingOf(p)' = <<"answer", ResponsePacket(General, Served[General])>>
      BY <2>1, <2>2, <2>3 DEF PendingOf
    <3> QED BY <1>4, <2>1, <3>1
  <2>4. CASE pc'[p] = "save"
    <3>1. PendingOf(p)' = <<>>
      BY <2>2, <2>4 DEF PendingOf, ReadFlash, WriteFlash
    <3>2. UnderWay' = UnderWay
      BY <1>1, <1>2, <3>1, Mapping
    <3> QED BY <1>3, <3>2 DEF Store!vars
  <2> QED BY <2>2, <2>3, <2>4
<1> QED BY <1>5, <1>6

(* A write is refused, or nothing is seen of it before config = temp *)
LEMMA WriteMaps ==
  ASSUME IInv, NEW p \in Port, Write(p)
  PROVE  UNCHANGED Store!vars \/ \E t \in ConfigType : Store!Refuse(p, t)
<1>0. DOMAIN request = Port /\ DOMAIN pc = Port /\ DOMAIN response = Port
  BY DEF IInv, TypeOK
<1>1. PendingOf(p) = <<>> /\ UnderWay[p] = <<>> /\ UNCHANGED profile
  BY Mapping DEF PendingOf, Write
<1>2. UnderWay' = [UnderWay EXCEPT ![p] = PendingOf(p)'] /\ Served' = Served
  BY <1>1, UnderWayOf DEF Worker, Handle, Served
<1>3. PICK t \in ConfigType :
        /\ ~Truncated(buffer[p], t)
        /\ LET b == Payload(buffer[p], t)
           IN  /\ response' = [response EXCEPT ![p] = StatusPacket(t, Status(t, b))]
               /\ IF Accepted(t, b) THEN pc' = [pc EXCEPT ![p] = "commit"]
                                    ELSE pc' = [pc EXCEPT ![p] = "reply"]
  BY DEF Write, Deserializes
<1> DEFINE b == Payload(buffer[p], t)
<1>4. b \in PayloadOf(t)
  BY <1>3, PayloadType DEF IInv, TypeOK
<1>5. /\ response'[p] = StatusPacket(t, Status(t, b))
      /\ pc'[p] = IF Accepted(t, b) THEN "commit" ELSE "reply"
  BY <1>0, <1>3
<1> HIDE DEF b
<1>6. CASE Accepted(t, b)
  <2>1. PendingOf(p)' = <<>>
    BY <1>5, <1>6 DEF PendingOf
  <2>2. UnderWay' = UnderWay
    BY <1>1, <1>2, <2>1, Mapping
  <2> QED BY <1>2, <2>2 DEF Store!vars
<1>7. CASE ~Accepted(t, b)
  <2>1. Status(t, b) \in 0..(Success(t) - 1)
    BY <1>4, <1>7, RefusedStatus
  <2>2. PendingOf(p)' = <<"answer", StatusPacket(t, Status(t, b))>>
    BY <1>5, <1>7 DEF PendingOf
  <2>3. Store!Refuse(p, t)
    BY <1>1, <1>2, <2>1, <2>2, SameTypes DEF Store!Refuse, Store!Idle, Store!Answer
  <2> QED BY <2>3
<1> QED BY <1>6, <1>7

(* config = temp is the moment at which a write takes effect *)
LEMMA CommitMaps ==
  ASSUME IInv, NEW p \in Port, Commit(p)
  PROVE  \E t \in ConfigType : Store!Write(p, t)
<1>0. DOMAIN request = Port /\ DOMAIN pc = Port
  BY DEF IInv, TypeOK
<1>1. PICK t \in ConfigType : \E b \in PayloadOf(t) :
           /\ request[p] = <<WriteFlash, t, b>> /\ Accepted(t, b)
           /\ profile'.general = profile.general
           /\ Build(t, profile'.config) = b
           /\ \A u : u # t => Build(u, profile'.config) = Build(u, profile.config)
  BY CommitSteps
<1>2. PICK b \in PayloadOf(t) :
           /\ request[p] = <<WriteFlash, t, b>> /\ Accepted(t, b)
           /\ profile'.general = profile.general
           /\ Build(t, profile'.config) = b
           /\ \A u : u # t => Build(u, profile'.config) = Build(u, profile.config)
  BY <1>1
<1>3. t \in PacketType /\ t # General
  BY DEF PacketType, ConfigType, General, Basic, Pedal, Throttle
<1>4. Served' = [u \in PacketType |-> Build(u, IF u = General THEN profile'.general
                                                              ELSE profile'.config)]
  BY DEF Served
<1>5. Served'[t] = b
  BY <1>2, <1>3, <1>4
<1>6. \A u \in PacketType : u # t => Served'[u] = Served[u]
  BY <1>2, <1>4, Mapping
<1>7. Served' = [Served EXCEPT ![t] = Served'[t]]
  BY <1>3, <1>4, <1>6, Mapping
<1>8. PendingOf(p) = <<>> /\ UnderWay[p] = <<>>
  BY Mapping DEF PendingOf, Commit
<1>9. UnderWay' = [UnderWay EXCEPT ![p] = PendingOf(p)']
  BY UnderWayOf DEF Worker
<1>10. PendingOf(p)' = <<"stored", t, b>>
  BY <1>0, <1>2 DEF PendingOf, Commit
<1>11. Store!Accepted(t, Served'[t])
  BY <1>2, <1>5, SameChecks
<1>12. UnderWay' = [UnderWay EXCEPT ![p] = Store!Stored(t, Served'[t])]
  BY <1>5, <1>9, <1>10 DEF Store!Stored
<1> QED BY <1>7, <1>8, <1>11, <1>12 DEF Store!Write, Store!Idle

(* Past profile::save a write is confirmed, and the general section is     *)
(* answered                                                                *)
LEMMA SaveMaps ==
  ASSUME IInv, AnswersAreTrue, NEW p \in Port, Save(p)
  PROVE  \/ \E t \in PacketType : Store!Read(p, t)
         \/ \E t \in ConfigType : Store!Confirm(p, t)
<1>0. DOMAIN request = Port /\ DOMAIN pc = Port
  BY DEF IInv, TypeOK
<1>1. Served' = Served
  <2>1. profile'.config.data = profile.config.data /\ profile'.general.data = profile.general.data
    BY SaveSteps
  <2> QED BY <2>1, BuildFromSettings, ServedStays
<1>2. UnderWay' = [UnderWay EXCEPT ![p] = PendingOf(p)']
  BY UnderWayOf DEF Worker
<1>3. PendingOf(p)' = <<"answer", response[p]>> /\ pc[p] = "save"
  BY <1>0 DEF PendingOf, Save
<1>4. CASE /\ request[p] = <<ReadFlash, General, <<>>>>
           /\ response[p] = ResponsePacket(General, Build(General, profile.general))
  <2>1. General \in PacketType /\ Served[General] = Build(General, profile.general)
    BY Mapping DEF PacketType
  <2>2. PendingOf(p) = <<>> /\ UnderWay[p] = <<>>
    BY <1>3, <1>4, Mapping DEF PendingOf, ReadFlash, WriteFlash
  <2>3. Store!Read(p, General)
    BY <1>1, <1>2, <1>3, <1>4, <2>1, <2>2, SameTypes DEF Store!Read, Store!Idle, Store!Answer
  <2> QED BY <2>1, <2>3
<1>5. ASSUME NEW t \in ConfigType, NEW b \in PayloadOf(t),
             request[p] = <<WriteFlash, t, b>>, View(t) = b,
             response[p] = StatusPacket(t, Success(t))
      PROVE  Store!Confirm(p, t)
  <2>1. t \in PacketType /\ t # General
    BY DEF PacketType, ConfigType, General, Basic, Pedal, Throttle
  <2>2. Served[t] = b
    BY <1>5, <2>1, Mapping DEF View
  <2>3. PendingOf(p) = <<"stored", t, b>> /\ UnderWay[p] = <<"stored", t, b>>
    BY <1>3, <1>5, Mapping DEF PendingOf
  <2> QED BY <1>1, <1>2, <1>3, <1>5, <2>2, <2>3, SameTypes
          DEF Store!Confirm, Store!Stored, Store!Answer
<1> QED BY <1>3, <1>4, <1>5 DEF AnswersAreTrue, AboutToAnswer

(* The answer leaves *)
LEMMA ReplyMaps ==
  ASSUME IInv, NEW p \in Port, Reply(p)
  PROVE  Store!Finish(p)
<1>0. DOMAIN pc = Port
  BY DEF IInv, TypeOK
<1>1. Served' = Served
  BY DEF Reply, Served
<1>2. UnderWay' = [UnderWay EXCEPT ![p] = PendingOf(p)']
  BY UnderWayOf DEF Worker
<1>3. PendingOf(p)' = <<>>
  BY <1>0 DEF PendingOf, Reply, Leave
<1>4. PendingOf(p) = <<"answer", response[p]>> /\ UnderWay[p] = <<"answer", response[p]>>
  BY Mapping DEF PendingOf, Reply
<1>5. UnderWay[p] # <<>>
  BY <1>4
<1> QED BY <1>1, <1>2, <1>3, <1>5 DEF Store!Finish, Store!Idle
-----------------------------------------------------------------------------
(* A profile that is not being saved is served after a restart as it was   *)
LEMMA RestartServes ==
  ASSUME NEW p, NEW f, IsFile(f), p.exists <=> f # NoFile,
         p.exists => f = Holding(p.data),
         ~p.exists => OnlyDefaults(p),
         NEW t \in PacketType
  PROVE  Build(t, Load(f)) = Build(t, p)
<1>1. CASE p.exists
  <2>1. (CHOOSE d \in {p.data} : TRUE) = p.data
    OBVIOUS
  <2>2. Load(f).data = p.data
    BY <1>1, <2>1 DEF Load, Holding, NoFile
  <2> QED BY <2>2, BuildFromSettings
<1>2. CASE ~p.exists
  <2>1. Load(f) = NoProfile
    BY <1>2 DEF Load, NoProfile
  <2>2. Found(t, p) = Found(t, NoProfile)
    BY <1>2 DEF OnlyDefaults
  <2> QED BY <2>1, <2>2, BuildFromFound
<1> QED BY <1>1, <1>2

(* A restart is a crash of the abstract specification: it takes no write   *)
(* back that has been answered, and nothing at all while no write is being *)
(* saved                                                                   *)
LEMMA KillMaps ==
  ASSUME IInv, SoundFiles, AllStored, AnswersAreTrue, DefaultsUntilSaved, SettingsStayPassing', Kill
  PROVE  Store!Crash
<1>0. /\ IsProfile(profile.config) /\ IsProfile(profile.general)
      /\ DOMAIN profile = {"general", "config"} /\ DOMAIN file = {"general", "config"}
      /\ IsFile(file.config) /\ IsFile(file.general)
      /\ profile.general.exists <=> file.general # NoFile
      /\ profile.config.exists <=> file.config # NoFile
  BY DEF IInv, TypeOK, ExistsMeansOnDisk, SoundFiles
<1>1. UnderWay' = [p \in Port |-> <<>>]
  <2>1. \A p \in Port : PendingOf(p)' = <<>>
    BY KillPlaces DEF PendingOf
  <2>2. UnderWay' = [p \in Port |-> PendingOf(p)']
    BY DEF UnderWay, PendingOf
  <2> QED BY <2>1, <2>2
<1>2. Served' = [t \in PacketType |-> Build(t, IF t = General THEN profile'.general
                                                              ELSE profile'.config)]
  BY DEF Served
<1>3. profile'.general = Load(file'.general) /\ profile'.config = Load(file'.config)
  BY KillLoads
<1>4. \/ file' = file
      \/ \E p \in Port : pc[p] = "save" /\ \E c \in Cuts(profile[Which(p)].data, KeyOrder) :
           file' = [file EXCEPT ![Which(p)] = Holding(c)]
  BY DEF Kill
<1>5. ASSUME NEW t \in PacketType, \A p \in Port : ~Saving(p, "general")
      PROVE  Build(t, profile'.general) = Build(t, profile.general)
  <2>1. file'.general = file.general
    BY <1>0, <1>4, <1>5 DEF Saving, Which
  <2>2. profile.general.exists => file.general = Holding(profile.general.data)
    BY <1>5 DEF AllStored, Stored
  <2> QED BY <1>0, <1>3, <2>1, <2>2, RestartServes DEF DefaultsUntilSaved
<1>6. ASSUME NEW t \in PacketType, \A p \in Port : ~Saving(p, "config")
      PROVE  Build(t, profile'.config) = Build(t, profile.config)
  <2>1. file'.config = file.config
    BY <1>0, <1>4, <1>6 DEF Saving, Which
  <2>2. profile.config.exists => file.config = Holding(profile.config.data)
    BY <1>6 DEF AllStored, Stored
  <2> QED BY <1>0, <1>3, <1>6, <2>1, <2>2, RestartServes DEF DefaultsUntilSaved
<1>7. ASSUME NEW p \in Port, Saving(p, "general")
      PROVE  /\ ~profile.general.exists
             /\ \A q \in Port : ~Saving(q, "config")
             /\ Build(General, profile'.general) = Build(General, profile.general)
  <2>1. request[p][2] = General
    BY <1>7 DEF Saving, Which
  <2>2. ~profile.general.exists
    BY <1>7, <2>1 DEF Saving, AnswersAreTrue, AboutToAnswer,
                      ConfigType, General, Basic, Pedal, Throttle
  <2>3. \A q \in Port : pc[q] = "save" => q = p
    BY <1>7 DEF Saving, IInv, MutexOwner, InMutex
  <2>4. \A q \in Port : ~Saving(q, "config")
    BY <1>7, <2>3 DEF Saving
  <2>5. General \in PacketType /\ Found(General, profile.general) = Found(General, NoProfile)
    BY <2>2 DEF DefaultsUntilSaved, OnlyDefaults, PacketType
  <2>6. Found(General, profile'.general) = Found(General, NoProfile)
    <3>1. CASE file' = file
      <4>1. profile'.general = NoProfile
        BY <1>0, <1>3, <2>2, <3>1 DEF Load, NoProfile
      <4> QED BY <4>1
    <3>2. ASSUME NEW c \in Cuts(profile.general.data, KeyOrder), file'.general = Holding(c)
          PROVE  <2>6
      <4>1. Load(Holding(c)).data = c
        BY <1>0, CutFile DEF IsProfile
      <4>2. \A k \in DOMAIN c : k \in DOMAIN profile.general.data /\ c[k] = profile.general.data[k]
        BY <1>0, CutFile DEF IsProfile
      <4> QED BY <1>3, <2>5, <3>2, <4>1, <4>2, CutDefaults
    <3>3. file' = file \/ \E c \in Cuts(profile.general.data, KeyOrder) : file'.general = Holding(c)
      BY <1>0, <1>4, <1>7, <2>3 DEF Saving
    <3> QED BY <3>1, <3>2, <3>3
  <2>7. Build(General, profile'.general) = Build(General, profile.general)
    BY <2>5, <2>6, BuildFromFound
  <2> QED BY <2>2, <2>4, <2>7
<1>8. Build(General, profile'.general) = Build(General, profile.general)
  <2>1. General \in PacketType
    BY DEF PacketType
  <2> QED BY <1>5, <1>7, <2>1
<1>9. CASE \A p \in Port : ~Saving(p, "config")
  <2>1. \A t \in PacketType : Served'[t] = Served[t]
    BY <1>2, <1>6, <1>8, <1>9, Mapping
  <2>2. Served' = Served
    BY <1>2, <2>1, Mapping
  <2>3. DOMAIN Served' = PacketType
    BY <1>2
  <2> QED BY <1>1, <2>2, <2>3, SameTypes DEF Store!Crash, Store!Idle
<1>10. ASSUME NEW p \in Port, Saving(p, "config")
       PROVE  Store!Crash
  <2>1. PICK t \in ConfigType : \E b \in PayloadOf(t) : request[p] = <<WriteFlash, t, b>> /\ View(t) = b
    BY <1>10 DEF Saving, Which, AnswersAreTrue, AboutToAnswer
  <2>2. t \in PacketType /\ t # General
    BY DEF PacketType, ConfigType, General, Basic, Pedal, Throttle
  <2>3. UnderWay[p] = <<"stored", t, Served[t]>>
    BY <1>10, <2>1, <2>2, Mapping DEF PendingOf, Saving, View
  <2>4. ASSUME NEW u \in ConfigType PROVE Accepted(u, Served'[u])
    <3>1. u \in PacketType /\ u # General
      BY DEF PacketType, ConfigType, General, Basic, Pedal, Throttle
    <3>2. Served'[u] = Build(u, profile'.config)
      BY <1>2, <3>1
    <3>3. SettingsPass(profile'.config)
      BY DEF SettingsStayPassing
    <3> QED BY <3>2, <3>3, ServedPasses
  <2>5. Served'[General] = Served[General]
    BY <1>2, <1>8, Mapping DEF PacketType
  <2>6. DOMAIN Served' = PacketType
    BY <1>2
  <2>7. \E q \in Port, u \in ConfigType : UnderWay[q] = <<"stored", u, Served[u]>>
    BY <2>3
  <2> QED BY <1>1, <2>4, <2>5, <2>6, <2>7, SameTypes, SameChecks
          DEF Store!Crash, Store!Idle, Store!Stored
<1> QED BY <1>9, <1>10

-----------------------------------------------------------------------------
(* Every step is one of the abstract specification, or none                *)
LEMMA NextMaps ==
  ASSUME IInv, AllStored, AnswersAreTrue, DefaultsUntilSaved, SettingsStayPassing',
         SoundFiles, [Next]_vars
  PROVE  [Store!Next]_(Store!vars)
<1>0. DOMAIN pc = Port
  BY DEF IInv, TypeOK
<1>1. CASE UNCHANGED vars
  <2>1. Served' = Served /\ UnderWay' = UnderWay
    BY <1>1 DEF vars, Served, UnderWay
  <2> QED BY <2>1 DEF Store!vars
<1>2. CASE Kill
  BY <1>2, KillMaps DEF Store!Next
<1>3. ASSUME NEW p \in Port, Client(p) PROVE UNCHANGED Store!vars
  <2>1. UNCHANGED profile /\ PendingOf(p)' = PendingOf(p)
    BY <1>3 DEF Client, Send, Disturb, GiveUp, PendingOf
  <2> QED BY <1>3, <2>1, Stutters
<1>4. ASSUME NEW p \in Port, Worker(p) PROVE UNCHANGED Store!vars \/ Store!Next
  <2>1. CASE Connect(p) \/ Poll(p) \/ Lock(p) \/ TooShort(p) \/ Reject(p) \/ Discard(p)
    <3>1. /\ UNCHANGED profile
          /\ pc[p] \notin {"save", "reply"} /\ pc'[p] \notin {"save", "reply"}
      BY <1>0, <2>1 DEF Connect, Poll, Lock, TooShort, Reject, Discard, Leave
    <3>2. PendingOf(p)' = PendingOf(p)
      BY <3>1 DEF PendingOf
    <3> QED BY <1>4, <3>1, <3>2, Stutters
  <2>2. CASE ReadConfig(p) \/ ReadGeneral(p)
    <3>1. UNCHANGED Store!vars \/ \E t \in PacketType : Store!Read(p, t)
      BY <2>2, ReadMaps
    <3> QED BY <3>1, SameTypes DEF Store!Next
  <2>3. CASE Write(p)
    <3>1. UNCHANGED Store!vars \/ \E t \in ConfigType : Store!Refuse(p, t)
      BY <2>3, WriteMaps
    <3> QED BY <3>1, SameTypes DEF Store!Next
  <2>4. CASE Commit(p)
    <3>1. \E t \in ConfigType : Store!Write(p, t)
      BY <2>4, CommitMaps
    <3> QED BY <3>1, SameTypes DEF Store!Next
  <2>5. CASE Save(p)
    <3>1. \/ \E t \in PacketType : Store!Read(p, t)
          \/ \E t \in ConfigType : Store!Confirm(p, t)
      BY <2>5, SaveMaps
    <3> QED BY <3>1, SameTypes DEF Store!Next
  <2>6. CASE SaveFails(p)
    BY <2>6 DEF SaveFails, SoundFiles
  <2>7. CASE Reply(p)
    BY <2>7, ReplyMaps DEF Store!Next
  <2> QED BY <1>4, <2>1, <2>2, <2>3, <2>4, <2>5, <2>6, <2>7 DEF Worker, Handle
<1> QED BY <1>1, <1>2, <1>3, <1>4 DEF Next

(* If profiles can be opened, at the start and for saving, disks are not   *)
(* full and the config file holds settings that could have been written:   *)
(* the emulator, with any number of ports, with all its workers, its two   *)
(* profiles, its files and its restarts, behaves like one register per     *)
(* section                                                                 *)
THEOREM EmulatorIsConfigStore ==
  ASSUME SoundFiles, FilesPass
  PROVE  Spec => ImplementsConfigStore
<1> DEFINE Inv == IInv /\ AllStored /\ AnswersAreTrue /\ DefaultsUntilSaved /\ SettingsStayPassing
<1>0. /\ Fault \intersect {"open", "diskfull"} = {}
      /\ "diskfull" \notin Fault
  BY DEF SoundFiles
<1>1. Init => Inv /\ Store!Init
  BY InitInv, InitStored, InitAnswers, InitDefaults, InitPasses, InitMaps
<1>2. Inv /\ [Next]_vars => Inv'
  BY <1>0, NextInv, NextStored, NextAnswers, NextDefaults, NextPasses
<1>3. Inv /\ Inv' /\ [Next]_vars => [Store!Next]_(Store!vars)
  BY NextMaps
<1> HIDE DEF Inv
<1> QED BY <1>1, <1>2, <1>3, PTL DEF Spec, ImplementsConfigStore, Store!Spec

=============================================================================
