------------------------------- MODULE Packet -------------------------------
(***************************************************************************)
(* The packets of the Bafang flash protocol: packet.h, packet.cpp,         *)
(* packet_types.h and the payload structures of packet_basic.h,            *)
(* packet_pedal.h, packet_throttle.h and packet_general.h.                 *)
(*                                                                         *)
(* A packet on the line is a sequence of bytes:                            *)
(*    request   command, type, size, payload ..., verification             *)
(*    response  type, size, payload ...            (no verification byte)  *)
(*    status    type, status                                               *)
(*                                                                         *)
(* Abstraction: in the response to a "read general" the four letter words  *)
(* and the 16 and 32 bit versions are one element each instead of 4, 4, 2  *)
(* and 4 bytes; its size byte is still the 18 that the code sends.         *)
(***************************************************************************)
EXTENDS Integers, Sequences, Functions

Byte == 0..255

(* packet_commands and packet_types *)
ReadFlash  == 17                                                    \* 0x11
WriteFlash == 22                                                    \* 0x16
General    == 81                                                    \* 0x51
Basic      == 82                                                    \* 0x52
Pedal      == 83                                                    \* 0x53
Throttle   == 84                                                    \* 0x54

ConfigType == {Basic, Pedal, Throttle}
PacketType == ConfigType \union {General}

(* sizeof(request_...): what a request of type t carries between the size  *)
(* byte and the verification byte                                          *)
RequestPayloadSize(t) ==
  CASE t = General  -> 1
    [] t = Basic    -> 24
    [] t = Pedal    -> 11
    [] t = Throttle -> 6

(* request_packet::packet_size *)
RequestSize(t) == RequestPayloadSize(t) + 4

(* request_packet::verify: a uint8_t sum of type, size and payload; the    *)
(* command byte takes no part in it                                        *)
Verify(packet) == SumFunction(SubSeq(packet, 2, Len(packet) - 1)) % 256

(* The free function deserialize throws "packet truncation"; more bytes    *)
(* than the packet needs are no error, the rest is not looked at           *)
Truncated(data, t) == Len(data) < RequestSize(t)

(* Mutant: the verification byte is not compared *)
DeserializesUnverified(data, t) == ~Truncated(data, t)

(* request_packet::deserialize succeeds. The size byte is summed up but    *)
(* never compared with the size of the packet                              *)
Deserializes(data, t) ==
  /\ ~Truncated(data, t)
  /\ data[RequestSize(t)] = Verify(SubSeq(data, 1, RequestSize(t)))

(* Mutant: the verification byte is taken for a part of the payload *)
PayloadWithVerification(data, t) == SubSeq(data, 4, RequestSize(t))

(* The payload member of a deserialized request *)
Payload(data, t) == SubSeq(data, 4, RequestSize(t) - 1)

(* A request as request_packet(command, type) and serialize build it; its  *)
(* size byte is packet_size() - 1                                          *)
Request(command, t, payload) ==
  LET unverified == <<command, t, Len(payload) + 3>> \o payload \o <<0>>
  IN  [unverified EXCEPT ![Len(unverified)] = Verify(unverified)]

(* sizeof(response_packet<response_...>) *)
ResponseSize(t) == IF t = General THEN 18 ELSE RequestPayloadSize(t) + 2

(* response_packet: type, size, payload *)
ResponsePacket(t, payload) == <<t, ResponseSize(t)>> \o payload

(* response_status_packet: type, status *)
StatusPacket(t, status) == <<t, status>>

=============================================================================
