------------------------------ MODULE Packets -------------------------------
(***************************************************************************)
(* The read_packet functions of connection.hpp, publishing.hpp,            *)
(* subscription.hpp and ping.hpp.  Each resumes where `sequence' says the  *)
(* last call stopped; it has read the whole header iff Continues holds of  *)
(* the state it returns.                                                   *)
(***************************************************************************)
EXTENDS Reader

(* The first byte: for every packet but PUBLISH the flags must be zero.    *)
ReadType(r, type) ==
  IF r.sequence # 0 THEN r
  ELSE Then(ReadByte(r),
            LAMBDA q : IF q.out # 16 * type THEN Fail(q, "bad_flags") ELSE q)

(* The remaining length, where the packet allows one value only.           *)
ReadLength(r, n) ==
  IF r.sequence # 1 THEN r
  ELSE Then(ReadVariableInteger(r),
            LAMBDA q : IF q.out # n THEN Fail(q, "bad_payload") ELSE q)

ReadIdentifier(r) ==
  Then(ReadUint16(r),
       LAMBDA q : [q EXCEPT !.read_header.packet_identifier = q.out])

(* PUBACK, PUBREC, PUBREL and PUBCOMP differ in the type only. *)
ReadAckLength(r) ==
  IF r.sequence # 1 THEN r
  ELSE Then(ReadLength(r, 2), LAMBDA q : [q EXCEPT !.remaining_size = 2])

ReadAck(r, type) ==
  Then(Then(ReadType(r, type), ReadAckLength), ReadIdentifier)

ReadUnsuback(r) ==
  Then(Then(ReadType(r, unsuback), LAMBDA q : ReadLength(q, 2)),
       LAMBDA q : IF q.sequence # 2 THEN Wait(q) ELSE ReadIdentifier(q))

ReadConnackFlags(r) ==
  IF r.sequence # 2 THEN r
  ELSE Then(ReadByte(r),
            LAMBDA q : IF q.out > 1 THEN Fail(q, "bad_flags")
                       ELSE [q EXCEPT !.read_header.session_present = q.out])

MutantReadConnackCode(r) ==   \* the code is not validated
  IF r.sequence # 3 THEN r
  ELSE Then(ReadByte(r),
            LAMBDA q : [q EXCEPT !.read_header.return_code = q.out])

ReadConnackCode(r) ==
  IF r.sequence # 3 THEN r
  ELSE Then(ReadByte(r),
            LAMBDA q : IF q.out > 5 THEN Fail(q, "bad_return_code")
                       ELSE [q EXCEPT !.read_header.return_code = q.out])

ReadConnack(r) ==
  Then(Then(Then(ReadType(r, connack), LAMBDA q : ReadLength(q, 2)),
            ReadConnackFlags),
       ReadConnackCode)

ReadPingresp(r) ==
  Then(ReadType(r, pingresp), LAMBDA q : ReadLength(q, 0))

(* The remaining length of PUBLISH and SUBACK bounds the rest of the read. *)
MutantReadRemaining(r) ==   \* it does not
  IF r.sequence # 1 THEN r ELSE ReadVariableInteger(r)

ReadRemaining(r) ==
  IF r.sequence # 1 THEN r
  ELSE Then(ReadVariableInteger(r),
            LAMBDA q : [q EXCEPT !.remaining_size = q.out])

TakeCodes(r, got) ==
  [Consume(r, got) EXCEPT !.sequence = (@ + got) % 256,
                          !.read_header.return_codes = @ \o NextBytes(r, got)]

(* The loop that reads the return codes of a SUBACK, one read_element each. *)
ReadReturnCodes(r) ==
  LET k   == StdMin(r.remaining_size, r.available)
      got == Got(r, k)
      s   == TakeCodes(r, got)
  IN IF got < k THEN BadStream(s)
     ELSE IF s.remaining_size # 0 THEN Wait(s) ELSE s

ReadSuback(r) ==
  Then(Then(Then(ReadType(r, suback), ReadRemaining),
            LAMBDA q : IF q.sequence = 2 THEN ReadIdentifier(q) ELSE q),
       ReadReturnCodes)

(* The first byte of a PUBLISH carries duplicate, QoS and retain. *)
ReadPublishType(r) ==
  IF r.sequence # 0 THEN r
  ELSE Then(ReadByte(r),
            LAMBDA q : [(IF (q.out \div 2) % 4 = 3 THEN Fail(q, "bad_qos")
                         ELSE q) EXCEPT !.read_header.flags = q.out % 16])

ReadPublish(r) ==
  Then(Then(Then(ReadPublishType(r), ReadRemaining),
            LAMBDA q : IF q.sequence = 2 THEN ReadTopic(q) ELSE q),
       LAMBDA q : IF QoS(q.read_header) # 0 THEN ReadIdentifier(q) ELSE q)

ReadPacket(r, type) ==
  CASE type = connack  -> ReadConnack(r)
    [] type = publish  -> ReadPublish(r)
    [] type = suback   -> ReadSuback(r)
    [] type = unsuback -> ReadUnsuback(r)
    [] type = pingresp -> ReadPingresp(r)
    [] OTHER           -> ReadAck(r, type)
=============================================================================
