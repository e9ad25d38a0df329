------------------------------- MODULE Writer -------------------------------
(***************************************************************************)
(* terraqtt/protocol/writer.hpp and the write_packet functions of the      *)
(* packets that a client can also receive: the bytes each puts on the wire *)
(* when nothing fails.                                                     *)
(***************************************************************************)
EXTENDS General

WriteUint16(value) == <<value \div 256, value % 256>>

(* How many bytes the loop writes; it gives up on a larger value.          *)
VariableLength(value) ==
  CHOOSE n \in 1 .. 4 : value < 128 ^ n /\ (n = 1 \/ value >= 128 ^ (n - 1))

(* Seven bits per byte, least significant first; the eighth bit says that  *)
(* another byte follows.                                                   *)
WriteVariableInteger(value) ==
  [i \in 1 .. VariableLength(value) |->
     ((value \div 128 ^ (i - 1)) % 128)
       + (IF i < VariableLength(value) THEN 128 ELSE 0)]

WriteBlob(blob) == WriteUint16(Len(blob)) \o blob

WriteFixed(type, flags, body) ==
  <<16 * type + flags>> \o WriteVariableInteger(Len(body)) \o body

(* A packet is a header and, for PUBLISH, a payload. *)
WritePublish(header, payload) ==
  WriteFixed(publish, header.flags,
    WriteBlob(header.topic)
      \o (IF QoS(header) = 0 THEN <<>>
          ELSE WriteUint16(header.packet_identifier))
      \o payload)

WriteAck(header) ==
  WriteFixed(header.index, 0, WriteUint16(header.packet_identifier))

WriteSuback(header) ==
  WriteFixed(suback, 0,
    WriteUint16(header.packet_identifier) \o header.return_codes)

(* The library has no writer for these: what a broker sends. *)
WriteConnack(header) ==
  WriteFixed(connack, 0, <<header.session_present, header.return_code>>)

WriteUnsuback(header) == WriteAck(header)

WritePingresp == WriteFixed(pingresp, 0, <<>>)

WritePacket(packet) ==
  LET header == packet.header
  IN CASE header.index = publish  -> WritePublish(header, packet.payload)
       [] header.index = suback   -> WriteSuback(header)
       [] header.index = connack  -> WriteConnack(header)
       [] header.index = unsuback -> WriteUnsuback(header)
       [] header.index = pingresp -> WritePingresp
       [] OTHER                   -> WriteAck(header)
=============================================================================
