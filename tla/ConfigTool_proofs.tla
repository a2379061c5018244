-------------------------- MODULE ConfigTool_proofs --------------------------
(***************************************************************************)
(* What a session of a configuration tool shows, for every config file,    *)
(* every edit of a byte and every damage of one byte on the line           *)
(***************************************************************************)
EXTENDS ConfigTool, PacketBuilder_proofs

(* What build serves fits into the bytes of a payload *)
LEMMA BuildBytes ==
  ASSUME NEW t \in ConfigType, NEW p, IsProfile(p), WheelInRange(p)
  PROVE  Build(t, p) \in PayloadOf(t)
<1> DEFINE v == Found(t, p)
<1>1. \A x \in Int : x % 256 \in Byte
  BY DEF Byte
<1>2. CASE t = Basic
  <2>0. t \in PacketType
    BY DEF PacketType
  <2>1. \A i \in 1..25 : v[i] \in Int
    BY <1>2, <2>0, FoundType, FindsLength
  <2>2. v[23] = Find(p, <<Basic, "WD">>, 10)
    BY <1>2, <2>0, FindsLength, FoundType DEF Found
  <2>3. Wheels[v[23] + 1] \in Byte
    BY <1>2, <2>2, IndexOfWheel DEF WheelInRange
  <2>4. SpeedMeter(v[24], v[25]) \in Byte
    BY <1>1, <2>1 DEF SpeedMeter
  <2> HIDE DEF v
  <2>5. Build(t, p) = [i \in 1..24 |-> IF i = 23 THEN Wheels[v[23] + 1]
                                      ELSE IF i = 24 THEN SpeedMeter(v[24], v[25])
                                      ELSE v[i] % 256]
    BY <1>2 DEF Build, BuildBasic, General, Basic, v
  <2>6. PayloadOf(t) = [1..24 -> Byte]
    BY <1>2 DEF PayloadOf, RequestPayloadSize, General, Basic, Pedal, Throttle
  <2> QED BY <1>1, <2>1, <2>3, <2>4, <2>5, <2>6
<1>3. CASE t = Pedal \/ t = Throttle
  <2>1. \A i \in 1..Len(Finds(t)) : v[i] \in Int
    BY FoundType DEF PacketType
  <2>2. DOMAIN v = 1..Len(Finds(t)) /\ Len(Finds(t)) = RequestPayloadSize(t)
    BY <1>3, FoundType, FindsLength DEF PacketType, RequestPayloadSize, General, Basic, Pedal, Throttle
  <2>3. Build(t, p) = [i \in DOMAIN v |-> v[i] % 256]
    BY <1>3 DEF Build, General, Basic, Pedal, Throttle
  <2> HIDE DEF v
  <2> QED BY <1>1, <2>1, <2>2, <2>3 DEF PayloadOf
<1> QED BY <1>2, <1>3 DEF ConfigType

-----------------------------------------------------------------------------
(* Rejections                                                              *)

(* The byte of the payload that a row of the table of parse looks at: the  *)
(* last byte of the basic section has two rows                             *)
ByteOfRow(t, i) == IF t = Basic /\ i = 25 THEN 24 ELSE i

(* A row sees no other byte, and its status stands for this byte: in the   *)
(* basic section statuses and bytes have different orders                  *)
LEMMA RowSeesByte ==
  ASSUME NEW t \in ConfigType, NEW b \in PayloadOf(t), NEW c \in PayloadOf(t),
         NEW i \in DOMAIN Finds(t)
  PROVE  /\ ByteOfRow(t, i) \in 1..RequestPayloadSize(t)
         /\ b[ByteOfRow(t, i)] = c[ByteOfRow(t, i)] => Steps(t, b)[i][2] = Steps(t, c)[i][2]
         /\ ByteOf(t, Steps(t, b)[i][4]) = ByteOfRow(t, i)
<1>1. CASE t = Pedal \/ t = Throttle
  <2>1. i \in 1..RequestPayloadSize(t) /\ ByteOfRow(t, i) = i /\ t # Basic
    BY <1>1, FindsDomain DEF ByteOfRow, RequestPayloadSize, General, Basic, Pedal, Throttle
  <2>2. Steps(t, b)[i][2] = b[i] /\ Steps(t, c)[i][2] = c[i]
    BY <1>1, FindsDomain, StepValues
  <2>3. Steps(t, b)[i][4] = i - 1
    BY <2>1, StepChecks
  <2> QED BY <2>1, <2>2, <2>3 DEF ByteOf
<1>2. CASE t = Basic
  <2>1. i \in 1..25 /\ RequestPayloadSize(t) = 24
    BY <1>2, FindsDomain DEF RequestPayloadSize, General, Basic, Pedal, Throttle
  <2>2. ByteOfRow(t, i) \in 1..RequestPayloadSize(t)
    BY <1>2, <2>1 DEF ByteOfRow
  <2>3. b[ByteOfRow(t, i)] = c[ByteOfRow(t, i)] => Steps(t, b)[i][2] = Steps(t, c)[i][2]
    <3>1. /\ \A k \in 1..22 : Steps(t, b)[k][2] = b[k] /\ Steps(t, c)[k][2] = c[k]
          /\ Steps(t, b)[23][2] = WheelIndex(b[23]) /\ Steps(t, c)[23][2] = WheelIndex(c[23])
          /\ Steps(t, b)[24][2] = b[24] \div 64 /\ Steps(t, c)[24][2] = c[24] \div 64
          /\ Steps(t, b)[25][2] = b[24] % 64 /\ Steps(t, c)[25][2] = c[24] % 64
      BY <1>2, StepValues
    <3>2. CASE i \in 1..22
      BY <3>1, <3>2 DEF ByteOfRow
    <3>3. CASE i \in {23, 24, 25}
      BY <1>2, <3>1, <3>3 DEF ByteOfRow
    <3> QED BY <2>1, <3>2, <3>3
  <2>4. Steps(t, b)[i][4] = BasicStatus(i)
    BY <1>2, <2>1, StepChecks
  <2>5. ByteOf(t, BasicStatus(i)) = ByteOfRow(t, i)
    BY <1>2, <2>1 DEF ByteOf, BasicStatus, ByteOfRow
  <2> QED BY <2>2, <2>3, <2>4, <2>5
<1> QED BY <1>1, <1>2 DEF ConfigType

(* If a section that is served, but for one byte, is rejected, the status  *)
(* names this byte                                                         *)
LEMMA RejectedByte ==
  ASSUME NEW t \in ConfigType, NEW b \in PayloadOf(t), ~Accepted(t, b),
         NEW p, SettingsPass(p), NEW e, \A j \in 1..RequestPayloadSize(t) : j # e => b[j] = Build(t, p)[j]
  PROVE  e = ByteOf(t, Status(t, b))
<1> DEFINE c == Build(t, p)
<1>1. PICK i \in Failing(t, b) : i \in DOMAIN Finds(t) /\ Status(t, b) = Steps(t, b)[i][4]
  BY RefusedStatus
<1>2. c \in PayloadOf(t) /\ Accepted(t, c)
  BY ServedPasses
<1> HIDE DEF c
<1>3. Steps(t, b)[i][2] \notin Steps(t, b)[i][3]
  BY DEF Failing
<1>4. Steps(t, c)[i][2] \in Steps(t, c)[i][3]
  <2>1. DOMAIN Steps(t, c) = DOMAIN Finds(t)
    BY <1>2, StepsMatch
  <2> QED BY <1>1, <1>2, <2>1 DEF Accepted, Failing
<1>5. Steps(t, b)[i][2] # Steps(t, c)[i][2]
  BY <1>1, <1>2, <1>3, <1>4, ChecksAgree
<1>6. b[ByteOfRow(t, i)] # c[ByteOfRow(t, i)] /\ ByteOfRow(t, i) \in 1..RequestPayloadSize(t)
  BY <1>1, <1>2, <1>5, RowSeesByte
<1>7. e = ByteOfRow(t, i)
  BY <1>6 DEF c
<1>8. ByteOf(t, Steps(t, b)[i][4]) = ByteOfRow(t, i)
  BY <1>1, RowSeesByte
<1> QED BY <1>1, <1>7, <1>8

-----------------------------------------------------------------------------
(* The session                                                             *)

(* The write request as the tool sends it *)
Sent == Request(WriteFlash, type, payload)

(* The tool has the section as it is served but for the byte it edited; on *)
(* the line and in the emulator is what it sent, or what one changed byte  *)
(* makes of an unedited request                                            *)
InSession ==
  /\ IsProfile(config) /\ WheelInRange(config)
  /\ type \in ConfigType
  /\ phase \in {"read", "edit", "send", "line", "receive", "done"}
  /\ phase # "read" => payload \in PayloadOf(type)
  /\ phase # "done" => status = -1
  /\ phase = "read" \/ phase = "edit" => edited = 0
  /\ phase \notin {"read", "done"} =>
       \A i \in 1..RequestPayloadSize(type) : i # edited => payload[i] = Build(type, config)[i]
  /\ phase = "line" => packet = Sent
  /\ phase = "receive" =>
       \/ packet = Sent
       \/ edited = 0 /\ \E i \in DOMAIN Sent, v \in NoiseValues : packet = [Sent EXCEPT ![i] = v]

LEMMA InitSession == Init => InSession
<1> SUFFICES ASSUME Init PROVE InSession
  OBVIOUS
<1>1. PICK f \in Configs : config = Load(f)
  BY DEF Init
<1>2. IsProfile(config) /\ WheelInRange(config)
  BY <1>1, ConfigToolAssumption, LoadType DEF ConfigToolAssumption
<1> QED BY <1>2 DEF Init, InSession

(* A packet that verifies does so no more when one byte of it is another   *)
LEMMA DamageIsFound ==
  ASSUME NEW n, NEW m, NEW d, NEW i, OneByte(n, m, d, i), i # 1,
         m[n] = Verify(m), d[n] = Verify(d)
  PROVE  d = m
<1>0. /\ n \in Nat /\ n >= 3 /\ m \in [1..n -> Byte] /\ d \in [1..n -> Byte]
      /\ i \in 1..n /\ \A j \in 1..n : j # i => m[j] = d[j]
  BY DEF OneByte
<1>1. CASE i # n
  <2>1. m[n] = d[n]
    BY <1>0, <1>1
  <2>2. Verify(m) = Verify(d) => m = d
    BY <1>1, VerifyMoves, Zenon
  <2> QED BY <2>1, <2>2
<1>2. CASE i = n
  <2>1. /\ m \in Seq(Byte) /\ d \in Seq(Byte) /\ Len(m) = n /\ Len(d) = n
        /\ \A j \in 1..(n - 2) : m[j + 1] = d[j + 1]
    BY <1>0, <1>2
  <2>2. SubSeq(m, 2, n - 1) = SubSeq(d, 2, n - 1)
    <3>1. SubSeq(m, 2, n - 1) = [j \in 1..(n - 2) |-> m[j + 1]]
      BY <1>0, <2>1
    <3>2. SubSeq(d, 2, n - 1) = [j \in 1..(n - 2) |-> d[j + 1]]
      BY <1>0, <2>1
    <3>3. [j \in 1..(n - 2) |-> m[j + 1]] = [j \in 1..(n - 2) |-> d[j + 1]]
      BY <2>1, Zenon
    <3> QED BY <3>1, <3>2, <3>3, Zenon
  <2>3. Verify(m) = Verify(d)
    BY <2>1, <2>2, Zenon DEF Verify
  <2>4. \A j \in 1..n : m[j] = d[j]
    BY <1>0, <1>2, <2>3
  <2> QED BY <1>0, <2>4
<1> QED BY <1>1, <1>2

(* A packet with one changed byte that is still taken for a request of the *)
(* type it was sent with is the packet that was sent                       *)
Damaged(c, t, b, d) ==
  \E i \in DOMAIN Request(c, t, b), v \in Byte : d = [Request(c, t, b) EXCEPT ![i] = v]

LEMMA DamageShows ==
  ASSUME NEW c \in Byte, NEW t \in ConfigType, NEW b \in PayloadOf(t), NEW d,
         Damaged(c, t, b, d), d[1] = c, d[2] = t, Deserializes(d, t)
  PROVE  d = Request(c, t, b)
<1> DEFINE n == RequestSize(t)
           m == Request(c, t, b)
<1>1. n \in Nat /\ n >= 3
  BY DEF RequestSize, RequestPayloadSize, ConfigType, General, Basic, Pedal, Throttle
<1>2. /\ m \in [1..n -> Byte] /\ m[1] = c /\ m[2] = t /\ Deserializes(m, t)
  BY RequestShape DEF PacketType
<1>3. PICK i \in DOMAIN m, v \in Byte : d = [m EXCEPT ![i] = v]
  BY DEF Damaged
<1> HIDE DEF n, m
<1>4. d \in [1..n -> Byte] /\ i \in 1..n /\ d[i] = v /\ \A j \in 1..n : j # i => m[j] = d[j]
  BY <1>2, <1>3
<1>5. m[n] = Verify(m) /\ d[n] = Verify(d)
  <2>1. m \in Seq(Byte) /\ Len(m) = n
    BY <1>1, <1>2
  <2>2. d \in Seq(Byte) /\ Len(d) = n
    BY <1>1, <1>4
  <2>3. SubSeq(m, 1, n) = m /\ SubSeq(d, 1, n) = d
    BY <1>1, <2>1, <2>2
  <2> QED BY <1>2, <2>3, Zenon DEF Deserializes, n
<1>6. CASE i \in 1..2
  <2>1. v = m[i]
    BY <1>2, <1>4, <1>6
  <2>2. d = m
    BY <1>2, <1>3, <2>1
  <2> QED BY <2>2 DEF m
<1>7. CASE i # 1
  <2>1. OneByte(n, m, d, i)
    BY <1>1, <1>2, <1>4 DEF OneByte
  <2>2. d = m
    BY <1>5, <1>7, <2>1, DamageIsFound, Zenon
  <2> QED BY <2>2 DEF m
<1> QED BY <1>6, <1>7

(* What is written was sent: a changed byte shows in the verification, or  *)
(* has turned a longer section into a shorter one                          *)
LEMMA WhatArrives ==
  ASSUME InSession, phase = "receive", IsWrite(packet), Deserializes(packet, packet[2])
  PROVE  /\ packet[2] = type => packet = Sent
         /\ packet[2] # type => /\ edited = 0
                                /\ RequestSize(packet[2]) <= RequestSize(type)
         /\ Payload(packet, packet[2]) \in PayloadOf(packet[2])
         /\ packet[2] = type => Payload(packet, packet[2]) = payload
<1>1. /\ type \in ConfigType /\ payload \in PayloadOf(type) /\ packet[2] \in ConfigType
      /\ packet[1] = WriteFlash
  BY DEF InSession, IsWrite
<1>2. WriteFlash \in Byte /\ type \in PacketType
  BY <1>1 DEF WriteFlash, Byte, PacketType
<1>3. /\ Sent \in [1..RequestSize(type) -> Byte] /\ Sent[1] = WriteFlash /\ Sent[2] = type
      /\ Payload(Sent, type) = payload
  BY <1>1, <1>2, RequestShape DEF Sent
<1>4. packet \in [1..RequestSize(type) -> Byte]
  BY <1>3, ConfigToolAssumption DEF InSession, ConfigToolAssumption
<1>5. ASSUME packet[2] = type PROVE packet = Sent
  <2>1. CASE packet = Sent
    BY <2>1
  <2>2. ASSUME NEW i \in DOMAIN Sent, NEW v \in NoiseValues, packet = [Sent EXCEPT ![i] = v]
        PROVE  packet = Sent
    <3>1. v \in Byte
      BY ConfigToolAssumption DEF ConfigToolAssumption
    <3>2. packet[1] = WriteFlash /\ packet[2] = type /\ Deserializes(packet, type)
      BY <1>1, <1>5
    <3>3. Damaged(WriteFlash, type, payload, packet)
      BY <2>2, <3>1, Zenon DEF Damaged, Sent
    <3> QED BY <1>1, <1>2, <3>2, <3>3, DamageShows, Zenon DEF Sent
  <2> QED BY <2>1, <2>2 DEF InSession
<1>6. RequestSize(packet[2]) <= RequestSize(type)
  <2>1. \A t \in ConfigType : RequestSize(t) \in Nat
    BY DEF RequestSize, RequestPayloadSize, ConfigType, General, Basic, Pedal, Throttle
  <2>2. Len(packet) = RequestSize(type)
    BY <1>1, <1>4, <2>1
  <2>3. ~(Len(packet) < RequestSize(packet[2]))
    BY DEF Deserializes, Truncated
  <2> QED BY <1>1, <2>1, <2>2, <2>3
<1>7. packet[2] # type => edited = 0
  BY <1>3 DEF InSession
<1>8. Payload(packet, packet[2]) \in PayloadOf(packet[2])
  <2> DEFINE k == RequestPayloadSize(packet[2])
             n == RequestSize(type)
  <2>1. k \in Nat /\ RequestSize(packet[2]) = k + 4 /\ n \in Nat
    BY <1>1 DEF RequestSize, RequestPayloadSize, ConfigType, General, Basic, Pedal, Throttle
  <2>2. PayloadOf(packet[2]) = [1..k -> Byte] /\ Payload(packet, packet[2]) = SubSeq(packet, 4, k + 3)
    BY <2>1 DEF PayloadOf, Payload
  <2>3. k + 4 <= n
    BY <1>6, <2>1
  <2> HIDE DEF k, n
  <2>4. packet \in [1..n -> Byte]
    BY <1>4 DEF n
  <2>5. packet \in Seq(Byte) /\ Len(packet) = n
    BY <2>1, <2>4
  <2>6. SubSeq(packet, 4, k + 3) = [j \in 1..k |-> packet[j + 3]]
    BY <2>1, <2>3, <2>5
  <2>7. \A j \in 1..k : packet[j + 3] \in Byte
    BY <2>1, <2>3, <2>4
  <2> QED BY <2>2, <2>6, <2>7
<1> QED BY <1>3, <1>5, <1>6, <1>7, <1>8

(* What the emulator makes of a request: nothing, a rejection that leaves  *)
(* the config alone, or a write                                            *)
LEMMA WhatReceiveDoes ==
  ASSUME InSession, Receive
  PROVE  \/ UNCHANGED <<config, status>>
         \/ \E t \in ConfigType : \E b \in PayloadOf(t) :
              /\ t = packet[2] /\ b = Payload(packet, t)
              /\ status' = Status(t, b)
              /\ config' = IF Accepted(t, b) THEN OnDisk(Adding(t, b, config)) ELSE config
              /\ t = type => b = payload
              /\ t # type => RequestSize(t) <= RequestSize(type)
<1>1. CASE IsWrite(packet) /\ Deserializes(packet, packet[2])
  <2>1. packet[2] \in ConfigType /\ phase = "receive"
    BY <1>1 DEF IsWrite, Receive
  <2>2. Payload(packet, packet[2]) \in PayloadOf(packet[2])
    BY <1>1, <2>1, WhatArrives
  <2>3. /\ packet[2] = type => Payload(packet, packet[2]) = payload
        /\ packet[2] # type => RequestSize(packet[2]) <= RequestSize(type)
    BY <1>1, <2>1, WhatArrives
  <2>4. /\ status' = Status(packet[2], Payload(packet, packet[2]))
        /\ config' = IF Accepted(packet[2], Payload(packet, packet[2]))
                     THEN OnDisk(Adding(packet[2], Payload(packet, packet[2]), config)) ELSE config
    BY <1>1 DEF Receive
  <2> QED BY <2>1, <2>2, <2>3, <2>4
<1>2. CASE ~(IsWrite(packet) /\ Deserializes(packet, packet[2]))
  BY <1>2 DEF Receive
<1> QED BY <1>1, <1>2

(* Whether it is on disk makes no difference to what a profile serves *)
LEMMA OnDiskServes ==
  ASSUME NEW p, IsProfile(p)
  PROVE  /\ IsProfile(OnDisk(p))
         /\ WheelInRange(OnDisk(p)) <=> WheelInRange(p)
         /\ SettingsPass(OnDisk(p)) <=> SettingsPass(p)
         /\ \A t \in ConfigType : Build(t, OnDisk(p)) = Build(t, p)
<1>1. OnDisk(p) = [exists |-> TRUE, data |-> p.data]
  <2>1. OnDisk(p) = [p EXCEPT !.exists = TRUE]
    BY DEF OnDisk
  <2>2. p = [exists |-> p.exists, data |-> p.data]
    BY DEF IsProfile
  <2> QED BY <2>1, <2>2
<1>2. OnDisk(p).data = p.data
  BY <1>1
<1>3. IsProfile(OnDisk(p))
  BY <1>1 DEF IsProfile
<1>4. WheelInRange(OnDisk(p)) <=> WheelInRange(p)
  BY <1>2 DEF WheelInRange, Find
<1>5. SettingsPass(OnDisk(p)) <=> SettingsPass(p)
  BY <1>2, Zenon DEF SettingsPass
<1>6. \A t \in ConfigType : Build(t, OnDisk(p)) = Build(t, p)
  BY <1>2, BuildFromSettings
<1> QED BY <1>3, <1>4, <1>5, <1>6

LEMMA NextSession == InSession /\ [Next]_vars => InSession'
<1> SUFFICES ASSUME InSession, [Next]_vars PROVE InSession'
  OBVIOUS
<1>0. /\ IsProfile(config) /\ WheelInRange(config) /\ type \in ConfigType /\ type \in PacketType
      /\ RequestPayloadSize(type) \in Nat
  BY DEF InSession, PacketType, RequestPayloadSize, ConfigType, General, Basic, Pedal, Throttle
<1>1. CASE Read
  <2>1. IsProfile(config') /\ WheelInRange(config')
    BY <1>0, <1>1, TouchedType DEF Read
  <2>2. payload' \in PayloadOf(type) /\ payload' = Build(type, config)
    BY <1>0, <1>1, BuildBytes DEF Read
  <2>3. Build(type, config') = Build(type, config)
    BY <1>0, <1>1, ReadsMoveNothing DEF Read
  <2> QED BY <1>0, <1>1, <2>1, <2>2, <2>3 DEF InSession, Read
<1>2. CASE Edit
  <2>1. payload \in [1..RequestPayloadSize(type) -> Byte] /\ edited = 0
    BY <1>2 DEF InSession, Edit, PayloadOf
  <2>2. \A i \in 1..RequestPayloadSize(type) : i # edited => payload[i] = Build(type, config)[i]
    BY <1>2 DEF InSession, Edit
  <2>3. CASE UNCHANGED <<payload, edited>>
    BY <1>0, <1>2, <2>3 DEF InSession, Edit, PayloadOf
  <2>4. ASSUME NEW i \in DOMAIN payload, NEW v \in EditValues,
               payload' = [payload EXCEPT ![i] = v], edited' = i
        PROVE  InSession'
    <3>1. v \in Byte
      BY ConfigToolAssumption DEF ConfigToolAssumption
    <3>2. payload' \in [1..RequestPayloadSize(type) -> Byte]
      BY <2>1, <2>4, <3>1
    <3>3. \A j \in 1..RequestPayloadSize(type) : j # edited' => payload'[j] = Build(type, config)[j]
      BY <2>1, <2>2, <2>4
    <3> QED BY <1>0, <1>2, <3>2, <3>3 DEF InSession, Edit, PayloadOf
  <2> QED BY <1>2, <2>3, <2>4 DEF Edit
<1>3. CASE Send
  BY <1>3 DEF InSession, Send, Sent
<1>4. CASE Line
  <2>1. packet = Sent /\ Sent' = Sent
    BY <1>4 DEF InSession, Line, Sent
  <2>2. \/ packet' = Sent
        \/ edited = 0 /\ \E i \in DOMAIN Sent, v \in NoiseValues : packet' = [Sent EXCEPT ![i] = v]
    BY <1>4, <2>1 DEF Line
  <2> HIDE DEF Sent
  <2>3. /\ phase = "line" /\ phase' = "receive"
        /\ UNCHANGED <<config, type, payload, edited, status>>
    BY <1>4 DEF Line
  <2> QED BY <2>1, <2>2, <2>3 DEF InSession
<1>5. CASE Receive
  <2>1. IsProfile(config') /\ WheelInRange(config')
    <3>1. CASE UNCHANGED <<config, status>>
      BY <1>0, <3>1
    <3>2. ASSUME NEW t \in ConfigType, NEW b \in PayloadOf(t),
                 config' = IF Accepted(t, b) THEN OnDisk(Adding(t, b, config)) ELSE config
          PROVE  IsProfile(config') /\ WheelInRange(config')
      BY <1>0, <3>2, AddingType, OnDiskServes
    <3> QED BY <1>5, <3>1, <3>2, WhatReceiveDoes
  <2> QED BY <1>5, <2>1 DEF InSession, Receive
<1>6. CASE UNCHANGED vars
  BY <1>6 DEF InSession, vars, Sent
<1> QED BY <1>1, <1>2, <1>3, <1>4, <1>5, <1>6 DEF Next

LEMMA SessionHolds == Spec => []InSession
<1> QED BY InitSession, NextSession, PTL DEF Spec

(* What build serves in the session indexes the array of wheels within its *)
(* bounds, from every config file whose wheel is in range                  *)
THEOREM WheelStaysInRange == Spec => []WheelIndexInRange
<1>1. InSession => WheelIndexInRange
  BY DEF InSession, WheelIndexInRange
<1> QED BY <1>1, SessionHolds, PTL

-----------------------------------------------------------------------------
(* Statuses of different sections: success of one is none of a shorter one *)
LEMMA StatusBelow ==
  ASSUME NEW t \in ConfigType, NEW b \in PayloadOf(t), NEW u \in ConfigType,
         t # u, RequestSize(t) <= RequestSize(u)
  PROVE  Status(t, b) # Success(u) /\ Status(t, b) # -1
<1>1. Status(t, b) \in 0..Success(t)
  <2>1. CASE Accepted(t, b)
    BY <2>1 DEF Status, Success, ConfigType, Basic, Pedal, Throttle
  <2>2. CASE ~Accepted(t, b)
    <3>1. Status(t, b) \in 0..(Success(t) - 1)
      BY <2>2, RefusedStatus
    <3> QED BY <3>1 DEF Success, ConfigType, Basic, Pedal, Throttle
  <2> QED BY <2>1, <2>2
<1>2. Success(t) \in Nat /\ Success(u) \in Nat /\ Success(t) < Success(u)
  BY DEF RequestSize, RequestPayloadSize, Success, ConfigType, General, Basic, Pedal, Throttle
<1> QED BY <1>1, <1>2

(* parse and build are inverse on what parse accepts, for every config     *)
(* file, every section, every edit of a byte and every damage of one on    *)
(* the line: a section written with "success" reads back as it was sent    *)
THEOREM WritesReadBack == Spec => []WrittenIsReadBack
<1>1. Init => WrittenIsReadBack
  BY DEF Init, WrittenIsReadBack, Succeeded
<1>2. ASSUME InSession, WrittenIsReadBack, [Next]_vars PROVE WrittenIsReadBack'
  <2>1. CASE Receive
    <3>1. type' = type /\ payload' = payload /\ status = -1 /\ type \in ConfigType
      BY <1>2, <2>1 DEF Receive, InSession
    <3>2. CASE UNCHANGED <<config, status>>
      <4>1. status' # Success(type)
        BY <3>1, <3>2 DEF Success, ConfigType, Basic, Pedal, Throttle
      <4> QED BY <3>1, <4>1 DEF WrittenIsReadBack, Succeeded
    <3>3. ASSUME NEW t \in ConfigType, NEW b \in PayloadOf(t), status' = Status(t, b),
                 config' = IF Accepted(t, b) THEN OnDisk(Adding(t, b, config)) ELSE config,
                 t = type => b = payload, t # type => RequestSize(t) <= RequestSize(type),
                 Succeeded'
          PROVE  Build(type, config') = payload
      <4>1. status' = Success(type)
        BY <3>1, <3>3 DEF Succeeded
      <4>2. t = type /\ b = payload
        BY <3>1, <3>3, <4>1, StatusBelow
      <4>3. Accepted(t, b)
        <5>1. ~Accepted(t, b) => Status(t, b) \in 0..(Success(t) - 1)
          BY <3>3, RefusedStatus
        <5>2. Success(t) \in Nat
          BY DEF Success, ConfigType, Basic, Pedal, Throttle
        <5> QED BY <3>3, <4>1, <4>2, <5>1, <5>2
      <4>4. IsProfile(config) /\ IsProfile(Adding(t, b, config))
        BY <1>2, AddingType DEF InSession
      <4>5. Build(t, Adding(t, b, config)) = b
        BY <4>3, <4>4, ReadBack
      <4> QED BY <3>3, <4>2, <4>3, <4>4, <4>5, OnDiskServes
    <3> QED BY <1>2, <2>1, <3>1, <3>2, <3>3, WhatReceiveDoes DEF WrittenIsReadBack
  <2>2. CASE Read \/ Edit \/ Send \/ Line
    BY <2>2 DEF Read, Edit, Send, Line, WrittenIsReadBack, Succeeded
  <2>3. CASE UNCHANGED vars
    BY <1>2, <2>3 DEF vars, WrittenIsReadBack, Succeeded
  <2> QED BY <1>2, <2>1, <2>2, <2>3 DEF Next
<1> QED BY <1>1, <1>2, SessionHolds, PTL DEF Spec

(* From files whose settings could have been written, and as long as the   *)
(* line turns no section into another: the status of a rejected write is   *)
(* that of the byte the tool edited, and nothing unedited is rejected      *)
THEOREM RejectionsNameTheEdit ==
  ASSUME ConfigsPass
  PROVE  Spec /\ []TypeArrives => []RejectionNamesEdit
<1> DEFINE Inv == SettingsPass(config) /\ RejectionNamesEdit
<1>1. Init => Inv
  <2> SUFFICES ASSUME Init PROVE Inv
    OBVIOUS
  <2>1. SettingsPass(config)
    BY DEF Init, ConfigsPass
  <2> QED BY <2>1 DEF Init, RejectionNamesEdit
<1>2. ASSUME InSession, TypeArrives, Inv, [Next]_vars PROVE Inv'
  <2>1. CASE Receive
    <3>1. /\ type' = type /\ edited' = edited /\ status = -1 /\ type \in ConfigType
          /\ phase = "receive" /\ IsProfile(config)
          /\ \A i \in 1..RequestPayloadSize(type) : i # edited => payload[i] = Build(type, config)[i]
      BY <1>2, <2>1 DEF Receive, InSession
    <3>2. CASE UNCHANGED <<config, status>>
      BY <1>2, <3>1, <3>2 DEF RejectionNamesEdit
    <3>3. ASSUME NEW t \in ConfigType, NEW b \in PayloadOf(t), t = packet[2], status' = Status(t, b),
                 config' = IF Accepted(t, b) THEN OnDisk(Adding(t, b, config)) ELSE config,
                 t = type => b = payload
          PROVE  Inv'
      <4>1. t = type /\ b = payload
        BY <1>2, <3>1, <3>3 DEF TypeArrives
      <4>2. SettingsPass(config')
        <5>1. IsProfile(Adding(t, b, config))
          BY <3>1, AddingType
        <5>2. Accepted(t, b) => SettingsPass(Adding(t, b, config))
          BY <1>2, <3>1, AddingPasses
        <5> QED BY <1>2, <3>3, <5>1, <5>2, OnDiskServes
      <4>3. CASE Accepted(t, b)
        BY <3>1, <3>3, <4>1, <4>2, <4>3 DEF RejectionNamesEdit, Status
      <4>4. CASE ~Accepted(t, b)
        <5>1. edited = ByteOf(t, Status(t, b))
          BY <1>2, <3>1, <4>1, <4>4, RejectedByte
        <5> QED BY <3>1, <3>3, <4>1, <4>2, <5>1 DEF RejectionNamesEdit
      <4> QED BY <4>3, <4>4
    <3> QED BY <1>2, <2>1, <3>2, <3>3, WhatReceiveDoes
  <2>2. CASE Read
    <3>1. SettingsPass(config')
      BY <1>2, <2>2, TouchedPasses DEF Read, InSession, PacketType
    <3> QED BY <2>2, <3>1 DEF Read, RejectionNamesEdit
  <2>3. CASE Edit \/ Send \/ Line
    BY <1>2, <2>3 DEF Edit, Send, Line, RejectionNamesEdit
  <2>4. CASE UNCHANGED vars
    BY <1>2, <2>4 DEF vars, RejectionNamesEdit
  <2> QED BY <1>2, <2>1, <2>2, <2>3, <2>4 DEF Next
<1> QED BY <1>1, <1>2, SessionHolds, PTL DEF Spec

(* Reading moves no section; a write moves no section but its own, and     *)
(* that one only with "success", as long as the line turns no section into *)
(* another                                                                 *)
THEOREM WritesMoveTheirSectionOnly == Spec /\ []TypeArrives => OnlyTheWrittenSectionMoves
<1>1. ASSUME InSession, TypeArrives, [Next]_vars
      PROVE  [\A t \in ConfigType :
                Build(t, config') # Build(t, config) => t = type /\ Succeeded']_vars
  <2>1. CASE Receive
    <3>1. type' = type /\ phase = "receive" /\ phase' = "done" /\ IsProfile(config)
      BY <1>1, <2>1 DEF Receive, InSession
    <3>2. ASSUME NEW t \in ConfigType, NEW b \in PayloadOf(t), t = packet[2], status' = Status(t, b),
                 config' = IF Accepted(t, b) THEN OnDisk(Adding(t, b, config)) ELSE config,
                 NEW u \in ConfigType, Build(u, config') # Build(u, config)
          PROVE  u = type /\ Succeeded'
      <4>1. t = type
        BY <1>1, <3>1, <3>2 DEF TypeArrives
      <4>2. Accepted(t, b) /\ config' = OnDisk(Adding(t, b, config))
        BY <3>2
      <4>3. u = t
        <5>1. IsProfile(Adding(t, b, config))
          BY <3>1, AddingType
        <5>2. Build(u, config') = Build(u, Adding(t, b, config))
          BY <4>2, <5>1, OnDiskServes
        <5>3. u # t => Build(u, Adding(t, b, config)) = Build(u, config)
          BY <3>1, WritesMoveTheirSection
        <5> QED BY <3>2, <5>2, <5>3
      <4> QED BY <3>1, <3>2, <4>1, <4>2, <4>3 DEF Succeeded, Status
    <3> QED BY <1>1, <2>1, <3>2, WhatReceiveDoes
  <2>2. CASE Read
    <3>1. \A t \in ConfigType : Build(t, config') = Build(t, config)
      BY <1>1, <2>2, ReadsMoveNothing DEF Read, InSession, PacketType
    <3> QED BY <3>1
  <2>3. CASE Edit \/ Send \/ Line
    BY <2>3 DEF Edit, Send, Line
  <2>4. CASE UNCHANGED vars
    BY <2>4 DEF vars
  <2> QED BY <1>1, <2>1, <2>2, <2>3, <2>4 DEF Next
<1> QED BY <1>1, SessionHolds, PTL DEF Spec, OnlyTheWrittenSectionMoves

=============================================================================
