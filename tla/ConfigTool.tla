----------------------------- MODULE ConfigTool -----------------------------
(***************************************************************************)
(* One session of a configuration tool with one emulator port, end to end  *)
(* through Packet, Profile and PacketBuilder: the tool reads a section,    *)
(* edits at most one byte of it, writes the section back over a line that  *)
(* may change one byte of an unedited packet, and the emulator             *)
(* deserializes the packet and parses it. The tool and the line are the    *)
(* environment, which changes one byte in all, its bound; the              *)
(* concurrency of several ports is SerialHandler's subject, not this       *)
(* module's, which enumerates the data: every section, every byte of it    *)
(* and every value of the byte.                                            *)
(***************************************************************************)
EXTENDS PacketBuilder

CONSTANTS Configs,       \* the contents of config files the emulator starts with
          EditValues,    \* the bytes the tool may put in place of another
          NoiseValues    \* the bytes the line may put in place of another

ASSUME ConfigToolAssumption ==
  /\ EditValues \subseteq Byte /\ NoiseValues \subseteq Byte
  /\ \A f \in Configs : IsFile(f) /\ Readable(f) /\ WheelInRange(Load(f))

VARIABLES config,        \* the profile of the emulator
          type,          \* the section of this session
          phase,         \* how far the session is
          payload,       \* the section as the tool has it
          edited,        \* the byte the tool changed, 0 for none
          packet,        \* the write request on the line
          status         \* the emulator's answer, -1 before and without one

vars == <<config, type, phase, payload, edited, packet, status>>

Init == /\ config \in {Load(f) : f \in Configs}
        /\ type \in ConfigType
        /\ phase = "read"
        /\ payload = <<>> /\ packet = <<>>
        /\ edited = 0 /\ status = -1

(* serial_handler's "read basic", "read pedal" and "read throttle" *)
Read == /\ phase = "read"
        /\ phase' = "edit"
        /\ config' = Touched(type, config)
        /\ payload' = Build(type, config)
        /\ UNCHANGED <<type, edited, packet, status>>

Edit == /\ phase = "edit"
        /\ phase' = "send"
        /\ \/ UNCHANGED <<payload, edited>>
           \/ \E i \in DOMAIN payload, v \in EditValues :
                /\ v # payload[i]
                /\ payload' = [payload EXCEPT ![i] = v]
                /\ edited' = i
        /\ UNCHANGED <<config, type, packet, status>>

Send == /\ phase = "send"
        /\ phase' = "line"
        /\ packet' = Request(WriteFlash, type, payload)
        /\ UNCHANGED <<config, type, payload, edited, status>>

Line == /\ phase = "line"
        /\ phase' = "receive"
        /\ \/ UNCHANGED packet
           \/ /\ edited = 0
              /\ \E i \in DOMAIN packet, v \in NoiseValues :
                   packet' = [packet EXCEPT ![i] = v]
        /\ UNCHANGED <<config, type, payload, edited, status>>

IsWrite(data) == data[1] = WriteFlash /\ data[2] \in ConfigType

(* profile::save, which succeeds here *)
OnDisk(profile) == [profile EXCEPT !.exists = TRUE]

(* serial_handler's "write basic", "write pedal" and "write throttle" *)
Receive ==
  LET t == packet[2]
      b == Payload(packet, t)
  IN  /\ phase = "receive"
      /\ phase' = "done"
      /\ IF IsWrite(packet) /\ Deserializes(packet, t)
         THEN /\ status' = Status(t, b)
              /\ config' = IF Accepted(t, b) THEN OnDisk(Adding(t, b, config)) ELSE config
         ELSE UNCHANGED <<config, status>>
      /\ UNCHANGED <<type, payload, edited, packet>>

Next == Read \/ Edit \/ Send \/ Line \/ Receive

Spec == Init /\ [][Next]_vars

-----------------------------------------------------------------------------
Succeeded == phase = "done" /\ status = Success(type)

(* Reference: which byte of the payload a status stands for. The order of  *)
(* the enumeration of packet_basic.h pairs the current and the speed of an *)
(* assist level, the order of its structure has all currents first         *)
ByteOf(t, s) ==
  IF t # Basic \/ s < 2 THEN s + 1
  ELSE IF s >= 22 THEN s + 1
  ELSE IF s % 2 = 0 THEN s \div 2 + 2 ELSE (s - 1) \div 2 + 12

(* A section that was written with the status "success" reads back, byte   *)
(* for byte, as the tool sent it: what parse takes apart, build puts       *)
(* together again, with no overflow and no field mixed up, and no packet   *)
(* that noise changed was taken for a good one                             *)
WrittenIsReadBack == Succeeded => Build(type, config) = payload

(* The settings of the config files could have been written               *)
ConfigsPass == \A f \in Configs : SettingsPass(Load(f))

(* The line does not turn one section into another: the first bytes of a   *)
(* longer section may happen to verify as a write of a shorter one         *)
TypeArrives == phase = "receive" => packet[2] = type \/ packet[2] \notin ConfigType

(* The status of a rejected write is that of the byte the tool edited; in  *)
(* particular what the emulator served, unedited, is never rejected        *)
RejectionNamesEdit ==
  (phase = "done" /\ status >= 0 /\ status # Success(type)) =>
      edited = ByteOf(type, status)

(* Reading a section leaves every section as a later read sees it, though  *)
(* find stores defaults; a write moves no section but its own, and that    *)
(* one only when the emulator answers "success"                            *)
OnlyTheWrittenSectionMoves ==
  [][\A t \in ConfigType :
       Build(t, config') # Build(t, config) => t = type /\ Succeeded']_vars

(* What build serves for a profile in use indexes the array of wheels      *)
(* within its bounds                                                       *)
WheelIndexInRange == WheelInRange(config)

(* packet_basic.h declares the status low_battery, and packet_builder.cpp  *)
(* names the bounds 18 and 55: a basic section that was written has its    *)
(* low battery voltage between them                                        *)
LowBatteryIsBounded == (Succeeded /\ type = Basic) => payload[1] \in 18..55

=============================================================================
