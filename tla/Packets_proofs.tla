--------------------------- MODULE Packets_proofs ---------------------------
(***************************************************************************)
(* The read_packet functions, on the same terms as the read operations     *)
(* they are made of: each leaves a state of the client's type, within the  *)
(* stream and the topic container, and keeps the packet being read.        *)
(***************************************************************************)
EXTENDS Packets, Reader_proofs

(* Every field of a header but index and topic may be assigned.            *)
LEMMA SetField ==
  ASSUME NEW h \in Header
  PROVE  /\ \A x \in 0 .. 15 : [h EXCEPT !.flags = x] \in Header
         /\ \A x \in Short : [h EXCEPT !.packet_identifier = x] \in Header
         /\ \A x \in 0 .. 1 : [h EXCEPT !.session_present = x] \in Header
         /\ \A x \in 0 .. 5 : [h EXCEPT !.return_code = x] \in Header
         /\ \A x \in Seq(Byte) : [h EXCEPT !.return_codes = x] \in Header
<1>1. /\ \A x \in Bits4 : [h EXCEPT !.flags = x] \in Header
      /\ \A x \in Short : [h EXCEPT !.packet_identifier = x] \in Header
      /\ \A x \in Bits1 : [h EXCEPT !.session_present = x] \in Header
      /\ \A x \in Codes : [h EXCEPT !.return_code = x] \in Header
      /\ \A x \in Bytes : [h EXCEPT !.return_codes = x] \in Header
  BY HeaderShape, Zenon
<1> QED BY <1>1 DEF Bits4, Bits1, Codes, Bytes

(* The assignment of a header that keeps its index and topic.              *)
LEMMA HeaderReads ==
  ASSUME NEW r, Good(r), NEW h \in Header,
         h.index = r.read_header.index, h.topic = r.read_header.topic
  PROVE  Reads(r, [r EXCEPT !.read_header = h])
<1> DEFINE q == [r EXCEPT !.read_header = h]
<1>1. q \in ClientState BY SetHeader DEF Good
<1>2. SameStream(r, q) /\ q.read_header = h
  BY DEF Good, ClientState, SameStream
<1> HIDE DEF q
<1>3. Len(q.read_header.topic) <= TopicMax BY <1>2 DEF Good
<1>4. Reads(r, q) BY <1>1, <1>2, <1>3, StaysReads
<1> QED BY <1>4 DEF q

(* The assignments of the read_packet functions, one by one.               *)
LEMMA IdentifierReads ==
  ASSUME NEW r, Good(r), NEW x \in Short
  PROVE  Reads(r, [r EXCEPT !.read_header.packet_identifier = x])
<1> DEFINE h == [r.read_header EXCEPT !.packet_identifier = x]
<1>1. r.read_header \in Header BY Fields DEF Good
<1>2. h \in Header BY <1>1, SetField
<1>3. h.index = r.read_header.index /\ h.topic = r.read_header.topic
  BY <1>1 DEF Header
<1> HIDE DEF h
<1>4. Reads(r, [r EXCEPT !.read_header = h]) BY <1>2, <1>3, HeaderReads
<1>5. [r EXCEPT !.read_header.packet_identifier = x] =
        [r EXCEPT !.read_header = h]
  BY Zenon DEF h
<1> QED BY <1>4, <1>5, Zenon

(* The same for session_present.                                           *)
LEMMA SessionReads ==
  ASSUME NEW r, Good(r), NEW x \in 0 .. 1
  PROVE  Reads(r, [r EXCEPT !.read_header.session_present = x])
<1> DEFINE h == [r.read_header EXCEPT !.session_present = x]
<1>1. r.read_header \in Header BY Fields DEF Good
<1>2. h \in Header BY <1>1, SetField
<1>3. h.index = r.read_header.index /\ h.topic = r.read_header.topic
  BY <1>1 DEF Header
<1> HIDE DEF h
<1>4. Reads(r, [r EXCEPT !.read_header = h]) BY <1>2, <1>3, HeaderReads
<1>5. [r EXCEPT !.read_header.session_present = x] =
        [r EXCEPT !.read_header = h]
  BY Zenon DEF h
<1> QED BY <1>4, <1>5, Zenon

(* The same for return_code.                                               *)
LEMMA CodeReads ==
  ASSUME NEW r, Good(r), NEW x \in 0 .. 5
  PROVE  Reads(r, [r EXCEPT !.read_header.return_code = x])
<1> DEFINE h == [r.read_header EXCEPT !.return_code = x]
<1>1. r.read_header \in Header BY Fields DEF Good
<1>2. h \in Header BY <1>1, SetField
<1>3. h.index = r.read_header.index /\ h.topic = r.read_header.topic
  BY <1>1 DEF Header
<1> HIDE DEF h
<1>4. Reads(r, [r EXCEPT !.read_header = h]) BY <1>2, <1>3, HeaderReads
<1>5. [r EXCEPT !.read_header.return_code = x] = [r EXCEPT !.read_header = h]
  BY Zenon DEF h
<1> QED BY <1>4, <1>5, Zenon

(* The same for the flags of a PUBLISH.                                    *)
LEMMA FlagsReads ==
  ASSUME NEW r, Good(r), NEW x \in 0 .. 15
  PROVE  Reads(r, [r EXCEPT !.read_header.flags = x])
<1> DEFINE h == [r.read_header EXCEPT !.flags = x]
<1>1. r.read_header \in Header BY Fields DEF Good
<1>2. h \in Header BY <1>1, SetField
<1>3. h.index = r.read_header.index /\ h.topic = r.read_header.topic
  BY <1>1 DEF Header
<1> HIDE DEF h
<1>4. Reads(r, [r EXCEPT !.read_header = h]) BY <1>2, <1>3, HeaderReads
<1>5. [r EXCEPT !.read_header.flags = x] = [r EXCEPT !.read_header = h]
  BY Zenon DEF h
<1> QED BY <1>4, <1>5, Zenon

(* So may the remaining size be set to any 32-bit value.                   *)
LEMMA RemainingReads ==
  ASSUME NEW r, Good(r), NEW x \in Below(WordMod)
  PROVE  Reads(r, [r EXCEPT !.remaining_size = x])
<1> DEFINE q == [r EXCEPT !.remaining_size = x]
<1>1. q \in ClientState
  <2>1. x \in Words BY DEF Words
  <2> QED BY <2>1, Shape, Zenon DEF Good
<1>2. SameStream(r, q) /\ q.read_header = r.read_header
  BY DEF Good, ClientState, SameStream
<1> HIDE DEF q
<1>3. Len(q.read_header.topic) <= TopicMax BY <1>2 DEF Good
<1>4. Reads(r, q) BY <1>1, <1>2, <1>3, StaysReads
<1> QED BY <1>4 DEF q

(* An operation may fail or wait after it has read something.              *)
LEMMA FailsReads ==
  ASSUME NEW r, Good(r), NEW q, Reads(r, q), NEW error \in ReadError
  PROVE  Reads(r, Fail(q, error))
BY FailReads, ReadsTransitive DEF Reads

(* A read operation may run out of bytes after it has read.                *)
LEMMA WaitsReads ==
  ASSUME NEW r, Good(r), NEW q, Reads(r, q), q.available = 0
  PROVE  Reads(r, Wait(q))
BY WaitReads, ReadsTransitive DEF Reads

-----------------------------------------------------------------------------
(* The first byte.                                                         *)
LEMMA ReadTypeReads ==
  ASSUME NEW r, Good(r), NEW type
  PROVE  Reads(r, ReadType(r, type))
<1> DEFINE q == ReadByte(r)
<1>1. ReadType(r, type) =
        IF r.sequence # 0 THEN r
        ELSE IF Continues(q)
             THEN IF q.out # 16 * type THEN Fail(q, "bad_flags") ELSE q
             ELSE q
  BY DEF ReadType, Then
<1>2. Reads(r, q) BY ReadByteReads
<1> HIDE DEF q
<1>3. Reads(r, Fail(q, "bad_flags")) BY <1>2, FailsReads, ReadErrors
<1>4. Reads(r, r) BY ReadsReflexive
<1> QED BY <1>1, <1>2, <1>3, <1>4, Zenon

(* A remaining length with one legal value.                                *)
LEMMA ReadLengthReads ==
  ASSUME NEW r, Good(r), NEW n
  PROVE  Reads(r, ReadLength(r, n))
<1> DEFINE q == ReadVariableInteger(r)
<1>1. ReadLength(r, n) =
        IF r.sequence # 1 THEN r
        ELSE IF Continues(q)
             THEN IF q.out # n THEN Fail(q, "bad_payload") ELSE q
             ELSE q
  BY DEF ReadLength, Then
<1>2. Reads(r, q) BY ReadVariableIntegerReads DEF ReadsWord
<1> HIDE DEF q
<1>3. Reads(r, Fail(q, "bad_payload")) BY <1>2, FailsReads, ReadErrors
<1>4. Reads(r, r) BY ReadsReflexive
<1> QED BY <1>1, <1>2, <1>3, <1>4, Zenon

(* The packet identifier.                                                  *)
LEMMA ReadIdentifierReads ==
  ASSUME NEW r, Good(r)
  PROVE  Reads(r, ReadIdentifier(r))
<1> DEFINE q == ReadUint16(r)
<1>1. ReadIdentifier(r) =
        IF Continues(q)
        THEN [q EXCEPT !.read_header.packet_identifier = q.out] ELSE q
  BY DEF ReadIdentifier, Then
<1>2. Reads(r, q) /\ Good(q) /\ (Continues(q) => q.out \in Short)
  BY ReadUint16Reads DEF ReadsShort, Reads, Short
<1> HIDE DEF q
<1>3. ASSUME Continues(q)
      PROVE  Reads(r, [q EXCEPT !.read_header.packet_identifier = q.out])
  <2>1. Reads(q, [q EXCEPT !.read_header.packet_identifier = q.out])
    BY <1>2, <1>3, IdentifierReads
  <2> QED BY <1>2, <2>1, ReadsTransitive
<1> QED BY <1>1, <1>2, <1>3, Zenon

(* A remaining length that bounds the rest of the packet.                  *)
LEMMA ReadRemainingReads ==
  ASSUME NEW r, Good(r)
  PROVE  Reads(r, ReadRemaining(r))
<1> DEFINE q == ReadVariableInteger(r)
<1>1. ReadRemaining(r) =
        IF r.sequence # 1 THEN r
        ELSE IF Continues(q) THEN [q EXCEPT !.remaining_size = q.out] ELSE q
  BY DEF ReadRemaining, Then
<1>2. ReadsWord(r, q) BY ReadVariableIntegerReads
<1> HIDE DEF q
<1>3. ASSUME Continues(q) PROVE Reads(r, [q EXCEPT !.remaining_size = q.out])
  <2>1. Good(q) /\ q.out \in Below(WordMod) BY <1>2, <1>3 DEF ReadsWord, Reads
  <2>2. Reads(q, [q EXCEPT !.remaining_size = q.out])
    BY <2>1, RemainingReads
  <2> QED BY <1>2, <2>2, ReadsTransitive DEF ReadsWord
<1>4. Reads(r, r) BY ReadsReflexive
<1> QED BY <1>1, <1>2, <1>3, <1>4, Zenon DEF ReadsWord

(* The remaining length of an acknowledgement.                             *)
LEMMA ReadAckLengthReads ==
  ASSUME NEW r, Good(r)
  PROVE  Reads(r, ReadAckLength(r))
<1> DEFINE q == ReadLength(r, 2)
<1>1. ReadAckLength(r) =
        IF r.sequence # 1 THEN r
        ELSE IF Continues(q) THEN [q EXCEPT !.remaining_size = 2] ELSE q
  BY DEF ReadAckLength, Then
<1>2. Reads(r, q) /\ Good(q) BY ReadLengthReads DEF Reads
<1> HIDE DEF q
<1>3. 2 \in Below(WordMod) BY Widths DEF Below
<1>4. Reads(q, [q EXCEPT !.remaining_size = 2])
  BY <1>2, <1>3, RemainingReads
<1>5. Reads(r, r) BY ReadsReflexive
<1> QED BY <1>1, <1>2, <1>4, <1>5, ReadsTransitive, Zenon

(* PUBACK, PUBREC, PUBREL and PUBCOMP.                                     *)
LEMMA ReadAckReads ==
  ASSUME NEW r, Good(r), NEW type
  PROVE  Reads(r, ReadAck(r, type))
<1> DEFINE a == ReadType(r, type)
           b == IF Continues(a) THEN ReadAckLength(a) ELSE a
<1>1. ReadAck(r, type) = IF Continues(b) THEN ReadIdentifier(b) ELSE b
  BY DEF ReadAck, Then
<1>2. Reads(r, a) /\ Good(a) BY ReadTypeReads DEF Reads
<1> HIDE DEF a
<1>3. Reads(r, b) /\ Good(b)
  BY <1>2, ReadAckLengthReads, ReadsTransitive DEF Reads
<1> HIDE DEF b
<1>4. Reads(r, ReadIdentifier(b))
  BY <1>3, ReadIdentifierReads, ReadsTransitive
<1> QED BY <1>1, <1>3, <1>4

(* The packet functions count their elements like that: the first byte,    *)
LEMMA ReadTypeSteps ==
  ASSUME NEW r, Good(r), Continues(r), NEW type
  PROVE  /\ ReadType(r, type).read_header = r.read_header
         /\ ReadType(r, type).sequence \in {r.sequence, 1}
         /\ r.sequence > 0 => ReadType(r, type) = r
         /\ r.sequence = 0 /\ Continues(ReadType(r, type)) =>
              ReadType(r, type).sequence = 1
<1> DEFINE q == ReadByte(r)
<1>1. ReadType(r, type) =
        IF r.sequence # 0 THEN r
        ELSE IF Continues(q)
             THEN IF q.out # 16 * type THEN Fail(q, "bad_flags") ELSE q
             ELSE q
  BY DEF ReadType, Then
<1>2. Steps(r, q) /\ q \in ClientState
  BY ReadByteSteps, ReadByteReads DEF Reads, Good
<1> HIDE DEF q
<1>3. /\ Fail(q, "bad_flags").read_header = q.read_header
      /\ Fail(q, "bad_flags").sequence = q.sequence
      /\ ~Continues(Fail(q, "bad_flags"))
  BY <1>2, FailStops DEF Fail, ClientState
<1>4. r.sequence \in Nat BY Fields DEF Good
<1>5. CASE r.sequence # 0 BY <1>1, <1>4, <1>5
<1>6. CASE r.sequence = 0
  <2>1. q.read_header = r.read_header /\ q.sequence \in {0, 1}
        /\ (Continues(q) => q.sequence = 1)
    BY <1>2, <1>6 DEF Steps
  <2> QED BY <1>1, <1>3, <1>6, <2>1
<1> QED BY <1>5, <1>6

(* the length                                                              *)
LEMMA ReadLengthSteps ==
  ASSUME NEW r, Good(r), Continues(r), NEW n
  PROVE  /\ ReadLength(r, n).read_header = r.read_header
         /\ ReadLength(r, n).sequence \in {r.sequence, 2}
         /\ r.sequence # 1 => ReadLength(r, n) = r
         /\ r.sequence = 1 /\ Continues(ReadLength(r, n)) =>
              ReadLength(r, n).sequence = 2
<1> DEFINE q == ReadVariableInteger(r)
<1>1. ReadLength(r, n) =
        IF r.sequence # 1 THEN r
        ELSE IF Continues(q)
             THEN IF q.out # n THEN Fail(q, "bad_payload") ELSE q
             ELSE q
  BY DEF ReadLength, Then
<1>2. Steps(r, q) /\ q \in ClientState
  BY ReadVariableIntegerSteps, ReadVariableIntegerReads
  DEF ReadsWord, Reads, Good
<1> HIDE DEF q
<1>3. /\ Fail(q, "bad_payload").read_header = q.read_header
      /\ Fail(q, "bad_payload").sequence = q.sequence
      /\ ~Continues(Fail(q, "bad_payload"))
  BY <1>2, FailStops DEF Fail, ClientState
<1>4. CASE r.sequence # 1 BY <1>1, <1>4
<1>5. CASE r.sequence = 1
  <2>1. q.read_header = r.read_header /\ q.sequence \in {1, 2}
        /\ (Continues(q) => q.sequence = 2)
    BY <1>2, <1>5 DEF Steps
  <2> QED BY <1>1, <1>3, <1>5, <2>1
<1> QED BY <1>4, <1>5

(* and the identifier.                                                     *)
LEMMA ReadIdentifierSteps ==
  ASSUME NEW r, Good(r), Continues(r)
  PROVE  /\ ReadIdentifier(r).sequence =
              IF Continues(ReadIdentifier(r)) THEN (r.sequence + 1) % 256
                                              ELSE r.sequence
         /\ ReadIdentifier(r).read_header.return_codes =
              r.read_header.return_codes
<1> DEFINE q == ReadUint16(r)
           s == [q EXCEPT !.read_header.packet_identifier = q.out]
<1>1. ReadIdentifier(r) = IF Continues(q) THEN s ELSE q
  BY DEF ReadIdentifier, Then
<1>2. Steps(r, q) /\ q \in ClientState
  BY ReadUint16Steps, ReadUint16Reads DEF ReadsShort, Reads, Good
<1> HIDE DEF q
<1>3. q.read_header \in Header BY <1>2, Fields
<1>4. /\ s.sequence = q.sequence /\ s.ok = q.ok /\ s.ec = q.ec
      /\ s.read_header.return_codes = q.read_header.return_codes
  BY <1>2, <1>3 DEF ClientState, Header
<1> HIDE DEF s
<1> QED BY <1>1, <1>2, <1>4 DEF Steps, Continues

(* UNSUBACK.                                                               *)
LEMMA ReadUnsubackReads ==
  ASSUME NEW r, Good(r), Continues(r), r.sequence <= 2
  PROVE  /\ Reads(r, ReadUnsuback(r))
         /\ ~Continues(ReadUnsuback(r)) => ReadUnsuback(r).sequence <= 2
<1> DEFINE a == ReadType(r, unsuback)
           b == IF Continues(a) THEN ReadLength(a, 2) ELSE a
<1>1. ReadUnsuback(r) =
        IF Continues(b)
        THEN IF b.sequence # 2 THEN Wait(b) ELSE ReadIdentifier(b)
        ELSE b
  BY DEF ReadUnsuback, Then
<1>2. Reads(r, a) /\ Good(a) BY ReadTypeReads DEF Reads
<1>3. a.sequence \in 0 .. 2 /\ (Continues(a) => a.sequence \in 1 .. 2)
  <2>1. r.sequence \in 0 .. 2 BY Fields DEF Good
  <2>2. /\ a.sequence \in {r.sequence, 1}
        /\ r.sequence > 0 => a = r
        /\ r.sequence = 0 /\ Continues(a) => a.sequence = 1
    BY ReadTypeSteps
  <2> HIDE DEF a
  <2> QED BY <2>1, <2>2
<1> HIDE DEF a
<1>4. Reads(r, b) /\ Good(b)
  BY <1>2, ReadLengthReads, ReadsTransitive DEF Reads
<1>5. b.sequence \in 0 .. 2 /\ (Continues(b) => b.sequence = 2)
  BY <1>2, <1>3, ReadLengthSteps
<1> HIDE DEF b
<1>6. Reads(r, ReadIdentifier(b))
  BY <1>4, ReadIdentifierReads, ReadsTransitive
<1>7. Continues(b) => Steps(b, ReadUint16(b))
  BY <1>4, ReadUint16Steps
<1>8. CASE ~Continues(b) BY <1>1, <1>4, <1>5, <1>8
<1>9. CASE Continues(b)
  <2>1. ReadUnsuback(r) = ReadIdentifier(b) BY <1>1, <1>5, <1>9
  <2>2. ~Continues(ReadIdentifier(b)) => ReadIdentifier(b).sequence = 2
    BY <1>4, <1>5, <1>9, ReadIdentifierSteps
  <2> QED BY <1>6, <2>1, <2>2
<1> QED BY <1>8, <1>9

(* CONNACK and its two bytes.                                              *)
LEMMA ReadConnackFlagsReads ==
  ASSUME NEW r, Good(r)
  PROVE  Reads(r, ReadConnackFlags(r))
<1> DEFINE q == ReadByte(r)
<1>1. ReadConnackFlags(r) =
        IF r.sequence # 2 THEN r
        ELSE IF Continues(q)
             THEN IF q.out > 1 THEN Fail(q, "bad_flags")
                  ELSE [q EXCEPT !.read_header.session_present = q.out]
             ELSE q
  BY DEF ReadConnackFlags, Then
<1>2. Reads(r, q) /\ Good(q) /\ (Continues(q) => q.out \in 0 .. 255)
  BY ReadByteReads DEF Reads
<1> HIDE DEF q
<1>3. ASSUME Continues(q), ~(q.out > 1)
      PROVE  Reads(r, [q EXCEPT !.read_header.session_present = q.out])
  <2>1. q.out \in 0 .. 1 BY <1>2, <1>3
  <2>2. Reads(q, [q EXCEPT !.read_header.session_present = q.out])
    BY <1>2, <2>1, SessionReads
  <2> QED BY <1>2, <2>2, ReadsTransitive
<1>4. Reads(r, Fail(q, "bad_flags")) BY <1>2, FailsReads, ReadErrors
<1>5. Reads(r, r) BY ReadsReflexive
<1> QED BY <1>1, <1>2, <1>3, <1>4, <1>5, Zenon

(* The return code of a CONNACK.                                           *)
LEMMA ReadConnackCodeReads ==
  ASSUME NEW r, Good(r)
  PROVE  Reads(r, ReadConnackCode(r))
<1> DEFINE q == ReadByte(r)
<1>1. ReadConnackCode(r) =
        IF r.sequence # 3 THEN r
        ELSE IF Continues(q)
             THEN IF q.out > 5 THEN Fail(q, "bad_return_code")
                  ELSE [q EXCEPT !.read_header.return_code = q.out]
             ELSE q
  BY DEF ReadConnackCode, Then
<1>2. Reads(r, q) /\ Good(q) /\ (Continues(q) => q.out \in 0 .. 255)
  BY ReadByteReads DEF Reads
<1> HIDE DEF q
<1>3. ASSUME Continues(q), ~(q.out > 5)
      PROVE  Reads(r, [q EXCEPT !.read_header.return_code = q.out])
  <2>1. q.out \in 0 .. 5 BY <1>2, <1>3
  <2>2. Reads(q, [q EXCEPT !.read_header.return_code = q.out])
    BY <1>2, <2>1, CodeReads
  <2> QED BY <1>2, <2>2, ReadsTransitive
<1>4. Reads(r, Fail(q, "bad_return_code")) BY <1>2, FailsReads, ReadErrors
<1>5. Reads(r, r) BY ReadsReflexive
<1> QED BY <1>1, <1>2, <1>3, <1>4, <1>5, Zenon

(* A CONNACK: type, length, flags and code, one after the other.           *)
LEMMA ReadConnackReads ==
  ASSUME NEW r, Good(r)
  PROVE  Reads(r, ReadConnack(r))
<1> DEFINE a == ReadType(r, connack)
           b == IF Continues(a) THEN ReadLength(a, 2) ELSE a
           c == IF Continues(b) THEN ReadConnackFlags(b) ELSE b
<1>1. ReadConnack(r) = IF Continues(c) THEN ReadConnackCode(c) ELSE c
  BY DEF ReadConnack, Then
<1>2. Reads(r, a) /\ Good(a) BY ReadTypeReads DEF Reads
<1> HIDE DEF a
<1>3. Reads(r, b) /\ Good(b)
  BY <1>2, ReadLengthReads, ReadsTransitive DEF Reads
<1> HIDE DEF b
<1>4. Reads(r, c) /\ Good(c)
  BY <1>3, ReadConnackFlagsReads, ReadsTransitive DEF Reads
<1> HIDE DEF c
<1>5. Reads(r, ReadConnackCode(c))
  BY <1>4, ReadConnackCodeReads, ReadsTransitive
<1> QED BY <1>1, <1>4, <1>5

(* PINGRESP.                                                               *)
LEMMA ReadPingrespReads ==
  ASSUME NEW r, Good(r)
  PROVE  Reads(r, ReadPingresp(r))
<1> DEFINE a == ReadType(r, pingresp)
<1>1. ReadPingresp(r) = IF Continues(a) THEN ReadLength(a, 0) ELSE a
  BY DEF ReadPingresp, Then
<1>2. Reads(r, a) /\ Good(a) BY ReadTypeReads DEF Reads
<1> HIDE DEF a
<1>3. Reads(r, ReadLength(a, 0)) BY <1>2, ReadLengthReads, ReadsTransitive
<1> QED BY <1>1, <1>2, <1>3

-----------------------------------------------------------------------------
(* The assignments of the loop over the return codes.                      *)
LEMMA SetSequence ==
  ASSUME NEW r \in ClientState, NEW h \in Header, NEW n \in 0 .. 255
  PROVE  [r EXCEPT !.sequence = n, !.read_header = h] \in ClientState
<1>1. n \in Bits8 BY DEF Bits8
<1> QED BY <1>1, Shape, Zenon

(* context.sequence wraps at 256.                                          *)
LEMMA AdvanceSequence ==
  ASSUME NEW x \in Int
  PROVE  x % 256 \in 0 .. 255
<1>1. x % 256 \in Below(256) BY Residue
<1> QED BY <1>1 DEF Below

(* `got' return codes are there, and the packet is that long.              *)
MayTake(r, got) ==
  /\ got \in Nat /\ got <= r.available /\ got <= r.remaining_size
  /\ r.pos + got <= Len(wire) /\ (got > 0 => r.good)

(* They extend the return codes and are counted off.                       *)
LEMMA TakeCodesReads ==
  ASSUME NEW r, Good(r), NEW got, MayTake(r, got)
  PROVE  /\ Reads(r, TakeCodes(r, got))
         /\ TakeCodes(r, got).available = r.available - got
         /\ TakeCodes(r, got).remaining_size = r.remaining_size - got
<1> DEFINE q == Consume(r, got)
           t == r.read_header.return_codes \o NextBytes(r, got)
           h == [r.read_header EXCEPT !.return_codes = t]
           n == (r.sequence + got) % 256
           s == TakeCodes(r, got)
<1>1. r \in ClientState /\ r.read_header \in Header BY Fields DEF Good
<1>2. r.read_header.return_codes \in Seq(Byte) BY <1>1 DEF Header
<1>3. /\ Reads(r, q) /\ q.read_header = r.read_header
      /\ q.sequence = r.sequence /\ q.available = r.available - got
      /\ q.remaining_size = r.remaining_size - got
  BY ConsumeReads DEF MayTake
<1>4. Good(q) /\ q \in ClientState BY <1>3 DEF Reads, Good
<1>5. s = [q EXCEPT !.sequence = n, !.read_header = h]
  <2>1. q.read_header = r.read_header /\ q.sequence = r.sequence BY <1>3
  <2> QED BY <2>1, ZenonT(30) DEF TakeCodes
<1> HIDE DEF q, s
<1>6. t \in Seq(Byte)
  <2>1. NextBytes(r, got) \in Seq(Byte) BY NextBytesFit DEF MayTake
  <2> QED BY <1>2, <2>1
<1> HIDE DEF t
<1>7. h \in Header BY <1>1, <1>6, SetField
<1>8. h.topic = r.read_header.topic /\ h.index = r.read_header.index
  BY <1>1 DEF Header
<1> HIDE DEF h
<1>9. n \in 0 .. 255
  <2>1. r.sequence + got \in Int BY <1>1, Fields DEF MayTake
  <2> QED BY <2>1, AdvanceSequence
<1> HIDE DEF n
<1>10. [q EXCEPT !.sequence = n, !.read_header = h] \in ClientState
  BY <1>4, <1>7, <1>9, SetSequence
<1>11. s \in ClientState BY <1>5, <1>10, Zenon
<1>12. /\ SameStream(q, s) /\ s.read_header = h
       /\ s.remaining_size = q.remaining_size
  BY <1>4, <1>5 DEF ClientState, SameStream
<1>13. /\ s.read_header.index = q.read_header.index
       /\ Len(s.read_header.topic) <= TopicMax
  BY <1>3, <1>8, <1>12 DEF Good
<1>14. Reads(q, s) BY <1>4, <1>11, <1>12, <1>13, StaysReads
<1>15. Reads(r, s) BY <1>3, <1>14, ReadsTransitive
<1>16. /\ s.available = r.available - got
       /\ s.remaining_size = r.remaining_size - got
  BY <1>3, <1>12 DEF SameStream
<1> QED BY <1>15, <1>16 DEF s

(* The loop over the return codes, and SUBACK.                             *)
LEMMA ReadReturnCodesReads ==
  ASSUME NEW r, Good(r)
  PROVE  Reads(r, ReadReturnCodes(r))
<1> DEFINE k   == StdMin(r.remaining_size, r.available)
           got == Got(r, k)
           s   == TakeCodes(r, got)
<1>1. ReadReturnCodes(r) =
        IF got < k THEN BadStream(s)
        ELSE IF s.remaining_size # 0 THEN Wait(s) ELSE s
  BY DEF ReadReturnCodes
<1>2. k \in Nat /\ k <= r.available /\ k <= r.remaining_size
  BY Fields DEF Good, StdMin
<1> HIDE DEF k
<1>3. got \in Nat /\ got <= k /\ r.pos + got <= Len(wire)
      /\ (got > 0 => r.good)
  BY <1>2, GotBounds
<1> HIDE DEF got
<1>4. MayTake(r, got)
  <2>1. r.available \in Nat /\ r.remaining_size \in Nat BY Fields DEF Good
  <2> QED BY <1>2, <1>3, <2>1 DEF MayTake
<1>5. /\ Reads(r, s) /\ Good(s) /\ s.available = r.available - got
      /\ s.remaining_size = r.remaining_size - got
  BY <1>4, TakeCodesReads DEF Reads
<1> HIDE DEF s
<1>6. Reads(r, BadStream(s)) BY <1>5, BadStreamReads, ReadsTransitive
<1>7. ASSUME ~(got < k), s.remaining_size # 0 PROVE Reads(r, Wait(s))
  <2>1. /\ r.available \in Nat /\ r.remaining_size \in Nat
    BY Fields DEF Good
  <2>2. got = r.available BY <1>2, <1>3, <1>5, <1>7, <2>1 DEF k, StdMin
  <2>3. s.available = 0 BY <1>5, <2>1, <2>2
  <2> QED BY <1>5, <2>3, WaitsReads
<1> QED BY <1>1, <1>5, <1>6, <1>7

(* A SUBACK: type, remaining length, identifier and return codes.          *)
LEMMA ReadSubackReads ==
  ASSUME NEW r, Good(r)
  PROVE  Reads(r, ReadSuback(r))
<1> DEFINE a == ReadType(r, suback)
           b == IF Continues(a) THEN ReadRemaining(a) ELSE a
           c == IF Continues(b)
                THEN IF b.sequence = 2 THEN ReadIdentifier(b) ELSE b
                ELSE b
<1>1. ReadSuback(r) = IF Continues(c) THEN ReadReturnCodes(c) ELSE c
  BY DEF ReadSuback, Then
<1>2. Reads(r, a) /\ Good(a) BY ReadTypeReads DEF Reads
<1> HIDE DEF a
<1>3. Reads(r, b) /\ Good(b)
  BY <1>2, ReadRemainingReads, ReadsTransitive DEF Reads
<1> HIDE DEF b
<1>4. Reads(r, c) /\ Good(c)
  BY <1>3, ReadIdentifierReads, ReadsTransitive DEF Reads
<1> HIDE DEF c
<1>5. Reads(r, ReadReturnCodes(c))
  BY <1>4, ReadReturnCodesReads, ReadsTransitive
<1> QED BY <1>1, <1>4, <1>5

(* The first byte of a PUBLISH, whose flags are kept even where it fails.  *)
LEMMA ReadPublishTypeReads ==
  ASSUME NEW r, Good(r)
  PROVE  Reads(r, ReadPublishType(r))
<1> DEFINE q == ReadByte(r)
           s == IF (q.out \div 2) % 4 = 3 THEN Fail(q, "bad_qos") ELSE q
           x == q.out % 16
<1>1. ReadPublishType(r) =
        IF r.sequence # 0 THEN r
        ELSE IF Continues(q) THEN [s EXCEPT !.read_header.flags = x] ELSE q
  BY Zenon DEF ReadPublishType, Then
<1>2. Reads(r, q) /\ Good(q) /\ (Continues(q) => q.out \in 0 .. 255)
  BY ReadByteReads DEF Reads
<1>3. Continues(q) => x \in 0 .. 15 BY <1>2
<1> HIDE DEF q, x
<1>4. Reads(r, s) /\ Good(s)
  BY <1>2, FailsReads, ReadErrors DEF Reads
<1> HIDE DEF s
<1>5. ASSUME Continues(q)
      PROVE  Reads(r, [s EXCEPT !.read_header.flags = x])
  <2>1. x \in 0 .. 15 BY <1>3, <1>5
  <2>2. Reads(s, [s EXCEPT !.read_header.flags = x]) BY <1>4, <2>1, FlagsReads
  <2> QED BY <1>4, <2>2, ReadsTransitive
<1>6. Reads(r, r) BY ReadsReflexive
<1> QED BY <1>1, <1>2, <1>5, <1>6, Zenon

(* PUBLISH.                                                                *)
LEMMA ReadPublishReads ==
  ASSUME NEW r, Good(r)
  PROVE  Reads(r, ReadPublish(r))
<1> DEFINE a == ReadPublishType(r)
           b == IF Continues(a) THEN ReadRemaining(a) ELSE a
           c == IF Continues(b)
                THEN IF b.sequence = 2 THEN ReadTopic(b) ELSE b
                ELSE b
<1>1. ReadPublish(r) =
        IF Continues(c)
        THEN IF QoS(c.read_header) # 0 THEN ReadIdentifier(c) ELSE c
        ELSE c
  BY DEF ReadPublish, Then
<1>2. Reads(r, a) /\ Good(a) BY ReadPublishTypeReads DEF Reads
<1> HIDE DEF a
<1>3. Reads(r, b) /\ Good(b)
  BY <1>2, ReadRemainingReads, ReadsTransitive DEF Reads
<1> HIDE DEF b
<1>4. Reads(r, c) /\ Good(c)
  BY <1>3, ReadTopicReads, ReadsTransitive DEF Reads
<1> HIDE DEF c
<1>5. Reads(r, ReadIdentifier(c))
  BY <1>4, ReadIdentifierReads, ReadsTransitive
<1> QED BY <1>1, <1>4, <1>5

(* Whatever the stream holds and wherever it is cut, reading a packet      *)
(* leaves the client in a state of its type, within the stream and the     *)
(* topic container, and touches neither the type of the packet being read  *)
(* nor the alternative its header is held in.                              *)
THEOREM ReadPacketReads ==
  ASSUME NEW r, Good(r), Continues(r), NEW type \in Handled,
         type = unsuback => r.sequence <= 2
  PROVE  /\ Reads(r, ReadPacket(r, type))
         /\ type = unsuback /\ ~Continues(ReadPacket(r, type)) =>
              ReadPacket(r, type).sequence <= 2
<1>1. CASE type = unsuback
  <2>1. ReadPacket(r, type) = ReadUnsuback(r)
    <3>1. /\ type # connack /\ type # publish
          /\ type # suback /\ type # pingresp
      BY <1>1 DEF connack, publish, suback, unsuback, pingresp
    <3> QED BY <1>1, <3>1 DEF ReadPacket
  <2> QED BY <1>1, <2>1, ReadUnsubackReads
<1>2. CASE type # unsuback
  <2>1. ReadPacket(r, type) \in
          {ReadConnack(r), ReadPublish(r), ReadSuback(r), ReadPingresp(r),
           ReadAck(r, type)}
    BY <1>2 DEF ReadPacket
  <2> QED BY <1>2, <2>1, ReadConnackReads, ReadPublishReads, ReadSubackReads,
             ReadPingrespReads, ReadAckReads
<1> QED BY <1>1, <1>2

-----------------------------------------------------------------------------
(* How far a packet that is not complete has come: nothing is read of it,  *)
(* its first byte is and part of its length may be, or more than that.     *)
Begun(r) ==
  /\ r.sequence = 0 => r.remaining_size = 5 /\ r.data0 = 0 /\ r.data1 = 0
  /\ r.sequence = 1 => Fits(r)

(* The type leaves the length to be read.                                  *)
LEMMA ReadTypeBegun ==
  ASSUME NEW r, Good(r), Continues(r), Begun(r), NEW type,
         NEW q, q = ReadType(r, type)
  PROVE  /\ Good(q) /\ Begun(q) /\ q.read_header = r.read_header
         /\ q.sequence \in {r.sequence, 1} /\ (r.sequence > 0 => q = r)
         /\ Continues(q) => q.sequence >= 1
<1> DEFINE p == ReadByte(r)
           f == Fail(p, "bad_flags")
<1>1. q = IF r.sequence # 0 THEN r
          ELSE IF Continues(p) THEN IF p.out # 16 * type THEN f ELSE p
          ELSE p
  BY DEF ReadType, Then
<1>2. Good(p) BY ReadByteReads DEF Reads
<1>3. /\ p.data0 = r.data0 /\ p.data1 = r.data1
      /\ p.remaining_size = IF Continues(p) THEN r.remaining_size - 1
                                            ELSE r.remaining_size
      /\ p.sequence = IF Continues(p) THEN (r.sequence + 1) % 256
                                      ELSE r.sequence
  BY ReadByteSteps DEF Steps
<1> HIDE DEF p
<1>4. /\ f.data0 = p.data0 /\ f.data1 = p.data1 /\ f.sequence = p.sequence
      /\ f.remaining_size = p.remaining_size
  BY <1>2, Zenon DEF Fail, Good, ClientState
<1> HIDE DEF f
<1>5. r.sequence \in 0 .. 255 BY Fields DEF Good
<1>6. Begun(q)
  <2>1. CASE r.sequence # 0 BY <1>1, <2>1
  <2>2. CASE r.sequence = 0 /\ ~Continues(p)
    <3>1. q = p BY <1>1, <2>2
    <3> QED BY <1>3, <2>2, <3>1 DEF Begun
  <2>3. CASE r.sequence = 0 /\ Continues(p)
    <3>1. /\ p.sequence = 1 /\ p.remaining_size = 4
          /\ p.data0 = 0 /\ p.data1 = 0
      BY <1>3, <2>3 DEF Begun
    <3>2. Begun(p) BY <3>1 DEF Begun, Fits
    <3>3. Begun(f) BY <1>4, <3>1 DEF Begun, Fits
    <3> QED BY <1>1, <2>3, <3>2, <3>3
  <2> QED BY <2>1, <2>2, <2>3
<1>7. Good(q) BY ReadTypeReads DEF Reads
<1>8. /\ q.read_header = r.read_header
      /\ q.sequence \in {r.sequence, 1}
      /\ r.sequence > 0 => q = r
      /\ r.sequence = 0 /\ Continues(q) => q.sequence = 1
  BY ReadTypeSteps
<1> HIDE DEF Begun, Continues
<1> QED BY <1>5, <1>6, <1>7, <1>8

(* So does the first byte of a PUBLISH.                                    *)
LEMMA ReadPublishTypeBegun ==
  ASSUME NEW r, Good(r), Continues(r), Begun(r), NEW q, q = ReadPublishType(r)
  PROVE  /\ Good(q) /\ Begun(q) /\ q.sequence \in {r.sequence, 1}
         /\ Continues(q) => q.sequence >= 1
<1> DEFINE p == ReadByte(r)
           s == IF (p.out \div 2) % 4 = 3 THEN Fail(p, "bad_qos") ELSE p
           x == p.out % 16
           f == [s EXCEPT !.read_header.flags = x]
<1>1. q = IF r.sequence # 0 THEN r ELSE IF Continues(p) THEN f ELSE p
  BY Zenon DEF ReadPublishType, Then
<1>2. Good(p) BY ReadByteReads DEF Reads
<1>3. /\ p.data0 = r.data0 /\ p.data1 = r.data1
      /\ p.remaining_size = IF Continues(p) THEN r.remaining_size - 1
                                            ELSE r.remaining_size
      /\ p.sequence = IF Continues(p) THEN (r.sequence + 1) % 256
                                      ELSE r.sequence
  BY ReadByteSteps DEF Steps
<1> HIDE DEF p, x
<1>4. /\ s.data0 = p.data0 /\ s.data1 = p.data1 /\ s.sequence = p.sequence
      /\ s.remaining_size = p.remaining_size /\ Good(s)
  <2>1. Good(Fail(p, "bad_qos")) BY <1>2, FailReads, ReadErrors DEF Reads
  <2>2. /\ Fail(p, "bad_qos").data0 = p.data0
        /\ Fail(p, "bad_qos").data1 = p.data1
        /\ Fail(p, "bad_qos").sequence = p.sequence
        /\ Fail(p, "bad_qos").remaining_size = p.remaining_size
    BY <1>2, Zenon DEF Fail, Good, ClientState
  <2> QED BY <1>2, <2>1, <2>2
<1> HIDE DEF s
<1>5. /\ f.data0 = s.data0 /\ f.data1 = s.data1 /\ f.sequence = s.sequence
      /\ f.remaining_size = s.remaining_size
  BY <1>4, Zenon DEF Good, ClientState
<1> HIDE DEF f
<1>6. r.sequence \in 0 .. 255 BY Fields DEF Good
<1>7. CASE r.sequence # 0 BY <1>1, <1>6, <1>7
<1>8. CASE r.sequence = 0 /\ ~Continues(p)
  <2>1. q = p BY <1>1, <1>8
  <2> QED BY <1>2, <1>3, <1>8, <2>1 DEF Begun
<1>9. CASE r.sequence = 0 /\ Continues(p)
  <2>1. q = f BY <1>1, <1>9
  <2>2. /\ q.sequence = 1 /\ q.remaining_size = 4
        /\ q.data0 = 0 /\ q.data1 = 0
    BY <1>3, <1>4, <1>5, <1>9, <2>1 DEF Begun
  <2>3. Begun(q) BY <2>2 DEF Begun, Fits
  <2>4. Good(q) BY ReadPublishTypeReads DEF Reads
  <2> QED BY <2>2, <2>3, <2>4
<1> QED BY <1>7, <1>8, <1>9

(* A length that is not complete fits, whatever it must be.                *)
LEMMA ReadLengthBegun ==
  ASSUME NEW r, Good(r), Continues(r), Begun(r), r.sequence >= 1, NEW n,
         NEW q, q = ReadLength(r, n)
  PROVE  /\ Good(q) /\ Begun(q) /\ q.sequence \in {r.sequence, 2}
         /\ Continues(q) => q.sequence >= 2
<1> DEFINE p == ReadVariableInteger(r)
           f == Fail(p, "bad_payload")
<1>1. q = IF r.sequence # 1 THEN r
          ELSE IF Continues(p) THEN IF p.out # n THEN f ELSE p
          ELSE p
  BY DEF ReadLength, Then
<1>2. Good(q) BY ReadLengthReads DEF Reads
<1>3. /\ q.sequence \in {r.sequence, 2}
      /\ r.sequence = 1 /\ Continues(q) => q.sequence = 2
  BY ReadLengthSteps
<1>4. r.sequence \in 0 .. 255 BY Fields DEF Good
<1>5. CASE r.sequence # 1 BY <1>1, <1>4, <1>5
<1>6. CASE r.sequence = 1
  <2>1. /\ ~Continues(p) => Fits(p)
        /\ p.sequence = IF Continues(p) THEN 2 ELSE 1
        /\ Good(p)
    BY <1>6, ReadVariableIntegerFits, ReadVariableIntegerSteps,
       ReadVariableIntegerReads DEF Begun, Steps, ReadsWord, Reads
  <2> HIDE DEF p
  <2>2. f.sequence = p.sequence BY <2>1, Zenon DEF Fail, Good, ClientState
  <2> HIDE DEF f
  <2>3. Begun(q) BY <1>1, <1>6, <2>1, <2>2 DEF Begun
  <2> QED BY <1>2, <1>3, <1>6, <2>3
<1> QED BY <1>5, <1>6

(* The same where it bounds the rest of the packet.                        *)
LEMMA ReadRemainingBegun ==
  ASSUME NEW r, Good(r), Continues(r), Begun(r), r.sequence >= 1,
         NEW q, q = ReadRemaining(r)
  PROVE  /\ Good(q) /\ Begun(q) /\ q.read_header = r.read_header
         /\ q.sequence \in {r.sequence, 2} /\ (Continues(q) => q.sequence >= 2)
<1> DEFINE p == ReadVariableInteger(r)
           f == [p EXCEPT !.remaining_size = p.out]
<1>1. q = IF r.sequence # 1 THEN r ELSE IF Continues(p) THEN f ELSE p
  BY DEF ReadRemaining, Then
<1>2. Good(q) BY ReadRemainingReads DEF Reads
<1>3. r.sequence \in 0 .. 255 BY Fields DEF Good
<1>4. CASE r.sequence # 1 BY <1>1, <1>3, <1>4
<1>5. CASE r.sequence = 1
  <2>1. /\ ~Continues(p) => Fits(p)
        /\ p.sequence = IF Continues(p) THEN 2 ELSE 1
        /\ p.read_header = r.read_header /\ Good(p)
    BY <1>5, ReadVariableIntegerFits, ReadVariableIntegerSteps,
       ReadVariableIntegerReads DEF Begun, Steps, ReadsWord, Reads
  <2> HIDE DEF p
  <2>2. f.sequence = p.sequence /\ f.read_header = p.read_header
    BY <2>1, Zenon DEF Good, ClientState
  <2> HIDE DEF f
  <2>3. q \in {f, p} /\ q.sequence \in {1, 2} /\ (q.sequence = 1 => q = p)
        /\ (Continues(q) => q.sequence = 2)
    BY <1>1, <1>5, <2>1, <2>2
  <2>4. Begun(q)
    <3>1. CASE q.sequence = 1
      <4>1. q = p /\ ~Continues(p) BY <2>1, <2>3, <3>1
      <4> QED BY <2>1, <3>1, <4>1 DEF Begun
    <3>2. CASE q.sequence = 2 BY <3>2 DEF Begun
    <3> QED BY <2>3, <3>1, <3>2
  <2> QED BY <1>2, <1>5, <2>1, <2>2, <2>3, <2>4
<1> QED BY <1>4, <1>5

(* Waiting and failing step on to nothing.                                 *)
LEMMA SameSequence ==
  ASSUME NEW r \in ClientState, NEW e
  PROVE  Wait(r).sequence = r.sequence /\ Fail(r, e).sequence = r.sequence
BY Zenon DEF Wait, Fail, ClientState

(* The text of a topic is no element of its own.                           *)
LEMMA ReadTextSequence ==
  ASSUME NEW r, Good(r), NEW size
  PROVE  ReadText(r, size).sequence = r.sequence
<1> DEFINE want == StdMin(size, r.available)
           k    == StdMin(want, TopicRoom(r))
           got  == Got(r, k)
           s    == Extend(r, size, got)
           b    == [s EXCEPT !.good = FALSE]
<1>1. ReadText(r, size) =
        IF r.remaining_size < size THEN Fail(r, "bad_remaining_size")
        ELSE IF got < k THEN BadStream(s)
        ELSE IF k < want THEN Fail(s, "not_enough_memory")
        ELSE IF s.data0 # 0 THEN Wait(s) ELSE s
  BY DEF ReadText
<1>2. s.sequence = r.sequence BY DEF Extend, Consume, Good, ClientState
<1>3. /\ BadStream(s).sequence = s.sequence
      /\ Fail(s, "not_enough_memory").sequence = s.sequence
      /\ Wait(s).sequence = s.sequence
  BY DEF BadStream, Fail, Wait, Extend, Consume, Good, ClientState
<1>4. Fail(r, "bad_remaining_size").sequence = r.sequence
  BY SameSequence DEF Good
<1> HIDE DEF s, got, k, want
<1> QED BY <1>1, <1>2, <1>3, <1>4, Zenon

(* A topic is one element.                                                 *)
LEMMA ReadTopicSequence ==
  ASSUME NEW r, Good(r), Continues(r), r.sequence = 2
  PROVE  ReadTopic(r).sequence \in {2, 3}
<1> DEFINE size == r.data0 % 65536
           q    == ReadUint16(r)
<1>1. ReadTopic(r) =
        IF size # 0 THEN ReadText(r, size)
        ELSE IF Continues(q) THEN ReadText(q, q.out) ELSE q
  BY DEF ReadTopic, Then
<1>2. Good(q) /\ q.sequence \in {2, 3}
  BY ReadUint16Reads, ReadUint16Steps DEF ReadsShort, Reads, Steps
<1> HIDE DEF q, size
<1>3. ReadText(r, size).sequence = 2 BY ReadTextSequence
<1>4. ReadText(q, q.out).sequence = q.sequence BY <1>2, ReadTextSequence
<1> QED BY <1>1, <1>2, <1>3, <1>4

(* The flags of a CONNACK are another,                                     *)
LEMMA ReadConnackFlagsSequence ==
  ASSUME NEW r, Good(r), Continues(r), r.sequence \in 2 .. 4
  PROVE  ReadConnackFlags(r).sequence \in 2 .. 4
<1> DEFINE q == ReadByte(r)
           f == [q EXCEPT !.read_header.session_present = q.out]
<1>1. ReadConnackFlags(r) =
        IF r.sequence # 2 THEN r
        ELSE IF Continues(q)
             THEN IF q.out > 1 THEN Fail(q, "bad_flags") ELSE f
             ELSE q
  BY DEF ReadConnackFlags, Then
<1>2. q \in ClientState /\ (r.sequence = 2 => q.sequence \in {2, 3})
  BY ReadByteReads, ReadByteSteps DEF Reads, Good, Steps
<1> HIDE DEF q
<1>3. f.sequence = q.sequence /\ Fail(q, "bad_flags").sequence = q.sequence
  BY <1>2, SameSequence, Zenon DEF ClientState
<1> HIDE DEF f
<1> QED BY <1>1, <1>2, <1>3

(* and so is its code.                                                     *)
LEMMA ReadConnackCodeSequence ==
  ASSUME NEW r, Good(r), Continues(r), r.sequence \in 2 .. 4
  PROVE  ReadConnackCode(r).sequence \in 2 .. 4
<1> DEFINE q == ReadByte(r)
           f == [q EXCEPT !.read_header.return_code = q.out]
<1>1. ReadConnackCode(r) =
        IF r.sequence # 3 THEN r
        ELSE IF Continues(q)
             THEN IF q.out > 5 THEN Fail(q, "bad_return_code") ELSE f
             ELSE q
  BY DEF ReadConnackCode, Then
<1>2. q \in ClientState /\ (r.sequence = 3 => q.sequence \in {3, 4})
  BY ReadByteReads, ReadByteSteps DEF Reads, Good, Steps
<1> HIDE DEF q
<1>3. /\ f.sequence = q.sequence
      /\ Fail(q, "bad_return_code").sequence = q.sequence
  BY <1>2, SameSequence, Zenon DEF ClientState
<1> HIDE DEF f
<1> QED BY <1>1, <1>2, <1>3

(* An identifier that is not complete is not counted.                      *)
LEMMA ReadIdentifierSequence ==
  ASSUME NEW r, Good(r), Continues(r), r.sequence \in 2 .. 4,
         ~Continues(ReadIdentifier(r))
  PROVE  ReadIdentifier(r).sequence \in 2 .. 4
BY ReadIdentifierSteps

(* Where its length is read, what is left of a packet may be anything.     *)
LEMMA BegunBy ==
  ASSUME NEW r, r.sequence \in 2 .. 4
  PROVE  Begun(r)
BY DEF Begun

-----------------------------------------------------------------------------
(* A packet that is not complete is begun, and but for a SUBACK no more    *)
(* than four elements of it are read.  The acknowledgements:               *)
LEMMA ReadAckBegun ==
  ASSUME NEW r, Good(r), Continues(r), Begun(r), r.sequence <= 4, NEW type,
         NEW q, q = ReadAck(r, type), ~Continues(q)
  PROVE  Begun(q) /\ q.sequence <= 4
<1> DEFINE a == ReadType(r, type)
           l == ReadLength(a, 2)
           b == IF Continues(a) THEN ReadAckLength(a) ELSE a
<1>1. q = IF Continues(b) THEN ReadIdentifier(b) ELSE b
  BY DEF ReadAck, Then
<1>0. r.sequence \in 0 .. 4
  <2>1. r \in ClientState BY DEF Good
  <2>2. r.sequence \in Nat BY <2>1, Fields, Zenon
  <2> QED BY <2>2
<1>2. /\ Good(a) /\ Begun(a) /\ a.sequence \in 0 .. 4
      /\ Continues(a) => a.sequence >= 1
  BY <1>0, ReadTypeBegun
<1> HIDE DEF a
<1>3. /\ Good(b) /\ Begun(b) /\ b.sequence \in 0 .. 4
      /\ Continues(b) => b.sequence >= 2
  <2>1. CASE ~Continues(a) BY <1>2, <2>1
  <2>2. CASE Continues(a)
    <3> DEFINE f == [l EXCEPT !.remaining_size = 2]
    <3>1. /\ Good(l) /\ Begun(l) /\ l.sequence \in {a.sequence, 2}
          /\ Continues(l) => l.sequence >= 2
      BY <1>2, <2>2, ReadLengthBegun
    <3>2. ReadAckLength(a) =
            IF a.sequence # 1 THEN a ELSE IF Continues(l) THEN f ELSE l
      BY DEF ReadAckLength, Then
    <3> HIDE DEF l
    <3>3. f.sequence = l.sequence BY <3>1, Zenon DEF Good, ClientState
    <3> HIDE DEF f
    <3>4. Good(b) BY <1>2, <2>2, ReadAckLengthReads DEF Reads
    <3>5. CASE a.sequence # 1 BY <1>2, <2>2, <3>2, <3>5
    <3>6. CASE a.sequence = 1 /\ ~Continues(l)
      <4>1. b = l BY <2>2, <3>2, <3>6
      <4> QED BY <3>1, <3>6, <4>1
    <3>7. CASE a.sequence = 1 /\ Continues(l)
      <4>1. b.sequence = 2 BY <2>2, <3>1, <3>2, <3>3, <3>7
      <4> QED BY <3>4, <4>1, BegunBy
    <3> QED BY <3>5, <3>6, <3>7
  <2> QED BY <2>1, <2>2
<1> HIDE DEF b
<1>4. CASE ~Continues(b) BY <1>1, <1>3, <1>4
<1>5. CASE Continues(b)
  <2>1. q.sequence \in 2 .. 4 BY <1>1, <1>3, <1>5, ReadIdentifierSequence
  <2> QED BY <2>1, BegunBy
<1> QED BY <1>4, <1>5

(* UNSUBACK.                                                               *)
LEMMA ReadUnsubackBegun ==
  ASSUME NEW r, Good(r), Continues(r), Begun(r), r.sequence <= 2,
         NEW q, q = ReadUnsuback(r), ~Continues(q)
  PROVE  Begun(q) /\ q.sequence <= 4
<1> DEFINE a == ReadType(r, unsuback)
           b == IF Continues(a) THEN ReadLength(a, 2) ELSE a
<1>1. q = IF Continues(b)
          THEN IF b.sequence # 2 THEN Wait(b) ELSE ReadIdentifier(b)
          ELSE b
  BY DEF ReadUnsuback, Then
<1>0. r.sequence \in 0 .. 2
  <2>1. r \in ClientState BY DEF Good
  <2>2. r.sequence \in Nat BY <2>1, Fields, Zenon
  <2> QED BY <2>2
<1>2. /\ Good(a) /\ Begun(a) /\ a.sequence \in 0 .. 2
      /\ Continues(a) => a.sequence >= 1
  BY <1>0, ReadTypeBegun
<1> HIDE DEF a
<1>3. /\ Good(b) /\ Begun(b) /\ b.sequence \in 0 .. 2
      /\ Continues(b) => b.sequence >= 2
  BY <1>2, ReadLengthBegun
<1> HIDE DEF b
<1>4. CASE ~Continues(b) BY <1>1, <1>3, <1>4
<1>5. CASE Continues(b)
  <2>1. b.sequence = 2 BY <1>3, <1>5
  <2>2. q.sequence \in 2 .. 4
    BY <1>1, <1>3, <1>5, <2>1, ReadIdentifierSequence
  <2> QED BY <2>2, BegunBy
<1> QED BY <1>4, <1>5

(* CONNACK.                                                                *)
LEMMA ReadConnackBegun ==
  ASSUME NEW r, Good(r), Continues(r), Begun(r), r.sequence <= 4,
         NEW q, q = ReadConnack(r), ~Continues(q)
  PROVE  Begun(q) /\ q.sequence <= 4
<1> DEFINE a == ReadType(r, connack)
           b == IF Continues(a) THEN ReadLength(a, 2) ELSE a
           c == IF Continues(b) THEN ReadConnackFlags(b) ELSE b
<1>1. q = IF Continues(c) THEN ReadConnackCode(c) ELSE c
  BY DEF ReadConnack, Then
<1>0. r.sequence \in 0 .. 4
  <2>1. r \in ClientState BY DEF Good
  <2>2. r.sequence \in Nat BY <2>1, Fields, Zenon
  <2> QED BY <2>2
<1>2. /\ Good(a) /\ Begun(a) /\ a.sequence \in 0 .. 4
      /\ Continues(a) => a.sequence >= 1
  BY <1>0, ReadTypeBegun
<1> HIDE DEF a
<1>3. /\ Good(b) /\ Begun(b) /\ b.sequence \in 0 .. 4
      /\ Continues(b) => b.sequence >= 2
  BY <1>2, ReadLengthBegun
<1> HIDE DEF b
<1>4. CASE ~Continues(b) BY <1>1, <1>3, <1>4
<1>5. CASE Continues(b)
  <2>1. Good(c) /\ c.sequence \in 2 .. 4
    BY <1>3, <1>5, ReadConnackFlagsReads, ReadConnackFlagsSequence DEF Reads
  <2> HIDE DEF c
  <2>2. q.sequence \in 2 .. 4 BY <1>1, <2>1, ReadConnackCodeSequence
  <2> QED BY <2>2, BegunBy
<1> QED BY <1>4, <1>5

(* PINGRESP.                                                               *)
LEMMA ReadPingrespBegun ==
  ASSUME NEW r, Good(r), Continues(r), Begun(r), r.sequence <= 4,
         NEW q, q = ReadPingresp(r), ~Continues(q)
  PROVE  Begun(q) /\ q.sequence <= 4
<1> DEFINE a == ReadType(r, pingresp)
<1>1. q = IF Continues(a) THEN ReadLength(a, 0) ELSE a
  BY DEF ReadPingresp, Then
<1>0. r.sequence \in 0 .. 4
  <2>1. r \in ClientState BY DEF Good
  <2>2. r.sequence \in Nat BY <2>1, Fields, Zenon
  <2> QED BY <2>2
<1>2. /\ Good(a) /\ Begun(a) /\ a.sequence \in 0 .. 4
      /\ Continues(a) => a.sequence >= 1
  BY <1>0, ReadTypeBegun
<1> HIDE DEF a
<1> QED BY <1>1, <1>2, ReadLengthBegun

(* PUBLISH.                                                                *)
LEMMA ReadPublishBegun ==
  ASSUME NEW r, Good(r), Continues(r), Begun(r), r.sequence <= 4,
         NEW q, q = ReadPublish(r), ~Continues(q)
  PROVE  Begun(q) /\ q.sequence <= 4
<1> DEFINE a == ReadPublishType(r)
           b == IF Continues(a) THEN ReadRemaining(a) ELSE a
           c == IF Continues(b)
                THEN IF b.sequence = 2 THEN ReadTopic(b) ELSE b
                ELSE b
<1>1. q = IF Continues(c)
          THEN IF QoS(c.read_header) # 0 THEN ReadIdentifier(c) ELSE c
          ELSE c
  BY DEF ReadPublish, Then
<1>0. r.sequence \in 0 .. 4
  <2>1. r \in ClientState BY DEF Good
  <2>2. r.sequence \in Nat BY <2>1, Fields, Zenon
  <2> QED BY <2>2
<1>2. /\ Good(a) /\ Begun(a) /\ a.sequence \in 0 .. 4
      /\ Continues(a) => a.sequence >= 1
  BY <1>0, ReadPublishTypeBegun
<1> HIDE DEF a
<1>3. /\ Good(b) /\ Begun(b) /\ b.sequence \in 0 .. 4
      /\ Continues(b) => b.sequence >= 2
  BY <1>2, ReadRemainingBegun
<1> HIDE DEF b
<1>4. CASE ~Continues(b) BY <1>1, <1>3, <1>4
<1>5. CASE Continues(b)
  <2>1. Good(c) /\ c.sequence \in 2 .. 4
    BY <1>3, <1>5, ReadTopicReads, ReadTopicSequence DEF Reads
  <2> HIDE DEF c
  <2>2. q.sequence \in 2 .. 4
    <3>1. CASE ~Continues(c) BY <1>1, <2>1, <3>1
    <3>2. CASE Continues(c)
      <4>1. q = ReadIdentifier(c) \/ q = c BY <1>1, <3>2
      <4> QED BY <2>1, <3>2, <4>1, ReadIdentifierSequence
    <3> QED BY <3>1, <3>2
  <2> QED BY <2>2, BegunBy
<1> QED BY <1>4, <1>5

(* A SUBACK holds a return code for every element after the third.         *)
Counted(r) ==
  /\ r.sequence <= 3 => Len(r.read_header.return_codes) = 0
  /\ r.sequence > 3 => Len(r.read_header.return_codes) = r.sequence - 3

(* With more of them `sequence' wraps.                                     *)
Few(r) == Len(r.read_header.return_codes) <= 252

(* The loop adds to both, while `sequence' does not wrap.                  *)
LEMMA ReadReturnCodesCounted ==
  ASSUME NEW r, Good(r), r.sequence \in 3 .. 255, Counted(r),
         NEW q, q = ReadReturnCodes(r), Few(q)
  PROVE  q.sequence \in 3 .. 255 /\ Counted(q)
<1> DEFINE k   == StdMin(r.remaining_size, r.available)
           got == Got(r, k)
           p   == Consume(r, got)
           t   == r.read_header.return_codes \o NextBytes(r, got)
           n   == (r.sequence + got) % 256
           h   == [r.read_header EXCEPT !.return_codes = t]
           s   == TakeCodes(r, got)
<1>1. q = IF got < k THEN BadStream(s)
          ELSE IF s.remaining_size # 0 THEN Wait(s) ELSE s
  BY DEF ReadReturnCodes
<1>2. k \in Nat /\ k <= r.available /\ k <= r.remaining_size
  BY Fields DEF Good, StdMin
<1> HIDE DEF k
<1>3. got \in Nat /\ got <= k /\ r.pos + got <= Len(wire)
      /\ (got > 0 => r.good)
  BY <1>2, GotBounds
<1> HIDE DEF got
<1>4. MayTake(r, got)
  <2>1. r.available \in Nat /\ r.remaining_size \in Nat BY Fields DEF Good
  <2> QED BY <1>2, <1>3, <2>1 DEF MayTake
<1>5. r \in ClientState /\ r.read_header \in Header BY Fields DEF Good
<1>6. Good(s) BY <1>4, TakeCodesReads DEF Reads
<1>7. s.sequence = n /\ s.read_header = h
  <2>1. /\ Good(p) /\ p.read_header = r.read_header
        /\ p.sequence = r.sequence
    BY <1>4, ConsumeReads DEF MayTake, Reads
  <2>2. s = [p EXCEPT !.sequence = n, !.read_header = h]
    BY <2>1, ZenonT(30) DEF TakeCodes
  <2> HIDE DEF p, n, h, s
  <2> QED BY <2>1, <2>2, Zenon DEF Good, ClientState
<1>8. h.return_codes = t BY <1>5 DEF Header
<1>9. Len(t) = Len(r.read_header.return_codes) + got
  <2>1. NextBytes(r, got) \in Seq(Byte) /\ Len(NextBytes(r, got)) = got
    BY <1>3, NextBytesFit
  <2>2. r.read_header.return_codes \in Seq(Byte) BY <1>5 DEF Header
  <2> QED BY <2>1, <2>2, SMTT(30)
<1> HIDE DEF t, h
<1>10. q.sequence = s.sequence /\ q.read_header = s.read_header
  <2>1. /\ Wait(s).sequence = s.sequence
        /\ Wait(s).read_header = s.read_header
    BY <1>6, Zenon DEF Wait, Good, ClientState
  <2>2. /\ BadStream(s).sequence = s.sequence
        /\ BadStream(s).read_header = s.read_header
    <3> DEFINE b == [s EXCEPT !.good = FALSE]
    <3>1. b \in ClientState BY <1>6, Shape, Zenon DEF Good
    <3>2. b.sequence = s.sequence /\ b.read_header = s.read_header
      BY <1>6, Zenon DEF Good, ClientState
    <3>3. BadStream(s) = Fail(b, "io_error") BY DEF BadStream
    <3> HIDE DEF b
    <3>4. /\ Fail(b, "io_error").sequence = b.sequence
          /\ Fail(b, "io_error").read_header = b.read_header
      BY <3>1, Zenon DEF Fail, ClientState
    <3> QED BY <3>2, <3>3, <3>4
  <2> HIDE DEF s
  <2> QED BY <1>1, <2>1, <2>2, Zenon
<1> HIDE DEF s
<1>11. /\ Len(q.read_header.return_codes) =
             Len(r.read_header.return_codes) + got
       /\ q.sequence = n
  BY <1>7, <1>8, <1>9, <1>10
<1>12. PICK m \in 3 .. 255 : m = r.sequence OBVIOUS
<1>13. Len(r.read_header.return_codes) = m - 3
  <2>1. CASE m = 3
    <3>1. r.sequence <= 3 BY <1>12, <2>1
    <3>2. Len(r.read_header.return_codes) = 0 BY <3>1 DEF Counted
    <3> QED BY <2>1, <3>2
  <2>2. CASE m > 3
    <3>1. r.sequence > 3 BY <1>12, <2>2
    <3>2. Len(r.read_header.return_codes) = r.sequence - 3
      BY <3>1 DEF Counted
    <3> QED BY <1>12, <3>2
  <2> QED BY <2>1, <2>2
<1>14. m + got <= 255 BY <1>3, <1>11, <1>12, <1>13 DEF Few
<1>15. (m + got) % 256 = m + got BY <1>3, <1>14
<1>16. n = m + got BY <1>12, <1>15, Zenon
<1> HIDE DEF n
<1>17. q.sequence = m + got BY <1>11, <1>16
<1>18. Len(q.read_header.return_codes) = m - 3 + got BY <1>11, <1>13
<1>19. PICK x \in 3 .. 255 : x = m + got BY <1>3, <1>14
<1>20. q.sequence = x /\ Len(q.read_header.return_codes) = x - 3
  BY <1>3, <1>17, <1>18, <1>19
<1>21. Counted(q) BY <1>20 DEF Counted
<1> QED BY <1>20, <1>21

(* SUBACK.                                                                 *)
LEMMA ReadSubackBegun ==
  ASSUME NEW r, Good(r), Continues(r), Begun(r), Counted(r),
         NEW q, q = ReadSuback(r), ~Continues(q), Few(q)
  PROVE  Begun(q) /\ Counted(q)
<1> DEFINE a == ReadType(r, suback)
           b == IF Continues(a) THEN ReadRemaining(a) ELSE a
           c == IF Continues(b)
                THEN IF b.sequence = 2 THEN ReadIdentifier(b) ELSE b
                ELSE b
<1>1. q = IF Continues(c) THEN ReadReturnCodes(c) ELSE c
  BY DEF ReadSuback, Then
<1>2. r.sequence \in 0 .. 255 BY Fields DEF Good
<1>3. /\ Good(a) /\ Begun(a) /\ a.read_header = r.read_header
      /\ a.sequence \in {r.sequence, 1} /\ (r.sequence > 0 => a = r)
      /\ Continues(a) => a.sequence >= 1
  BY ReadTypeBegun
<1> HIDE DEF a
<1>4. Counted(a)
  <2>1. CASE r.sequence > 0 BY <1>3, <2>1
  <2>2. CASE r.sequence = 0
    <3>1. r.sequence <= 3 BY <2>2
    <3>2. Len(a.read_header.return_codes) = 0 BY <1>3, <3>1 DEF Counted
    <3>3. a.sequence <= 3 /\ ~(a.sequence > 3) BY <1>3, <2>2
    <3> QED BY <3>2, <3>3 DEF Counted
  <2> QED BY <1>2, <2>1, <2>2
<1>5. /\ Good(b) /\ Begun(b) /\ Counted(b)
      /\ b.sequence \in 0 .. 255 /\ (Continues(b) => b.sequence >= 2)
  <2>1. CASE ~Continues(a) BY <1>2, <1>3, <1>4, <2>1
  <2>2. CASE Continues(a)
    <3>1. /\ Good(b) /\ Begun(b) /\ b.read_header = a.read_header
          /\ b.sequence \in {a.sequence, 2}
          /\ Continues(b) => b.sequence >= 2
      BY <1>3, <2>2, ReadRemainingBegun
    <3>2. a.sequence \in 0 .. 255 BY <1>2, <1>3
    <3>3. a.sequence # 1 => b = a BY <2>2 DEF ReadRemaining
    <3> HIDE DEF b
    <3>4. Counted(b) BY <1>4, <3>1, <3>2, <3>3 DEF Counted
    <3> QED BY <3>1, <3>2, <3>4
  <2> QED BY <2>1, <2>2
<1> HIDE DEF b
<1>6. CASE ~Continues(b) BY <1>1, <1>5, <1>6
<1>7. CASE Continues(b)
  <2>1. Good(c) BY <1>5, <1>7, ReadIdentifierReads DEF Reads
  <2>2. /\ Counted(c) /\ c.sequence \in 2 .. 255
        /\ Continues(c) => c.sequence >= 3
    <3>1. CASE b.sequence = 2
      <4>1. c = ReadIdentifier(b) BY <1>7, <3>1
      <4>2. /\ c.sequence = IF Continues(c) THEN 3 ELSE 2
            /\ c.read_header.return_codes = b.read_header.return_codes
        BY <1>5, <1>7, <3>1, <4>1, ReadIdentifierSteps
      <4> HIDE DEF c
      <4> QED BY <1>5, <3>1, <4>2 DEF Counted
    <3>2. CASE b.sequence # 2
      <4>1. c = b BY <3>2
      <4> QED BY <1>5, <1>7, <3>2, <4>1
    <3> QED BY <3>1, <3>2
  <2> HIDE DEF c
  <2>3. Counted(q) /\ q.sequence >= 2
    <3>1. CASE ~Continues(c) BY <1>1, <2>2, <3>1
    <3>2. CASE Continues(c)
      <4>1. q = ReadReturnCodes(c) BY <1>1, <3>2
      <4> QED BY <2>1, <2>2, <3>2, <4>1, ReadReturnCodesCounted
    <3> QED BY <3>1, <3>2
  <2> QED BY <2>3 DEF Begun
<1> QED BY <1>6, <1>7

(* A packet that is not complete is begun: its first byte, then a part of  *)
(* its length that fits are read before anything else.  That is so as long *)
(* as `sequence' does not wrap, which the elements of a SUBACK can make    *)
(* it do.                                                                  *)
THEOREM ReadPacketBegun ==
  ASSUME NEW r, Good(r), Continues(r), Begun(r), NEW type \in Handled,
         type = unsuback => r.sequence <= 2,
         type # suback => r.sequence <= 4, type = suback => Counted(r),
         NEW q, q = ReadPacket(r, type), ~Continues(q), Few(q)
  PROVE  /\ Begun(q) /\ (type # suback => q.sequence <= 4)
         /\ type = suback => Counted(q)
<1> USE DEF connack, publish, suback, unsuback, pingresp
<1>1. CASE type = connack
  <2>1. q = ReadConnack(r) BY <1>1 DEF ReadPacket
  <2> QED BY <1>1, <2>1, ReadConnackBegun
<1>2. CASE type = publish
  <2>1. q = ReadPublish(r) BY <1>2 DEF ReadPacket
  <2> QED BY <1>2, <2>1, ReadPublishBegun
<1>3. CASE type = suback
  <2>1. q = ReadSuback(r) BY <1>3 DEF ReadPacket
  <2> QED BY <1>3, <2>1, ReadSubackBegun
<1>4. CASE type = unsuback
  <2>1. q = ReadUnsuback(r) BY <1>4 DEF ReadPacket
  <2> QED BY <1>4, <2>1, ReadUnsubackBegun
<1>5. CASE type = pingresp
  <2>1. q = ReadPingresp(r) BY <1>5 DEF ReadPacket
  <2> QED BY <1>5, <2>1, ReadPingrespBegun
<1>6. CASE type \notin {connack, publish, suback, unsuback, pingresp}
  <2>1. q = ReadAck(r, type) BY <1>6 DEF ReadPacket
  <2> QED BY <1>6, <2>1, ReadAckBegun
<1> QED BY <1>1, <1>2, <1>3, <1>4, <1>5, <1>6
=============================================================================
