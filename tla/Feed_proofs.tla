--------------------------- MODULE Feed_proofs ---------------------------
(***************************************************************************)
(* The client implements PacketFeed: whatever well-formed packets a broker *)
(* sends and however their bytes are cut into available pieces.            *)
(***************************************************************************)
EXTENDS Feed, Client_proofs, WellFoundedInduction

-----------------------------------------------------------------------------
(* Between two fields of a packet: h is the header so far, s the sequence, *)
(* p the position and m what is left of the packet.                        *)
At(r, h, s, p, m) ==
  /\ Good(r) /\ r.good /\ r.ec = "none"
  /\ r.read_header = h /\ r.sequence = s
  /\ r.pos = p /\ r.remaining_size = m
  /\ r.data0 = 0 /\ r.data1 = 0

(* Within the remaining length v, which starts at p.                       *)
InLength(r, h, v, p) ==
  r.read_header = h /\ r.sequence = 1 /\ Half(r, v, p)

(* Within a 16-bit integer v, which starts at p.                           *)
InShort(r, h, s, v, p, m) ==
  r.read_header = h /\ r.sequence = s /\ HalfShort(r, v, p, m)

(* A sequence that can be counted up; the name keeps a large numeral     *)
(* out of sight of the provers.                                            *)
Early == 0 .. 254

(* Where the bytes that are available end.                                 *)
Stop(r) == r.pos + r.available

(* They are within the stream, and few enough for a signed count.          *)
Within(r) == Stop(r) <= Len(wire) /\ Len(wire) < SizeMod \div 2

(* A call that has run out of bytes.                                       *)
Waits(r) == ~r.ok /\ r.available = 0

(* A read that ends well leaves the end of what is available in place.     *)
LEMMA SameStop ==
  ASSUME NEW r, NEW q, Reads(r, q), q.ec = "none"
  PROVE  Stop(q) = Stop(r)
BY Zenon DEF Reads, Counts, Stop

(* Few are available to a client that stays within the stream.             *)
LEMMA FewAvailable ==
  ASSUME NEW r, Good(r), Within(r)
  PROVE  r.available < SizeMod \div 2
<1>1. r.available \in Nat /\ r.pos \in Nat BY Fields DEF Good
<1>2. Len(wire) \in Nat BY DEF Good
<1>3. SizeMod \div 2 \in Int BY Widths
<1> QED BY <1>1, <1>2, <1>3 DEF Within, Stop

(* The bytes of two fields are those of the one and then the other.        *)
LEMMA SpellsParts ==
  ASSUME wire \in Seq(Byte), NEW s, NEW a \in Seq(Byte),
         NEW b \in Seq(Byte), Spells(s, a \o b), NEW n, n = Len(a),
         NEW e, e = s + n
  PROVE  Spells(s, a) /\ Spells(e, b)
<1>1. PICK m \in Nat : m = Len(b) OBVIOUS
<1>2. n \in Nat OBVIOUS
<1>3. Len(a \o b) = n + m BY <1>1
<1>4. /\ s \in Nat /\ s + (n + m) <= Len(wire)
      /\ \A i \in 1 .. (n + m) : wire[s + i] = (a \o b)[i]
  BY <1>3 DEF Spells
<1>9. PICK x \in Nat : x = s BY <1>4
<1>5. \A i \in 1 .. n : (a \o b)[i] = a[i] OBVIOUS
<1>6. \A i \in 1 .. m : (a \o b)[n + i] = b[i] BY <1>1
<1>7. Spells(s, a)
  <2>1. \A i \in 1 .. n : i \in 1 .. (n + m) BY <1>1, <1>2
  <2>2. Len(wire) \in Nat OBVIOUS
  <2>3. s + n <= Len(wire) BY <1>1, <1>2, <1>4, <2>2
  <2> QED BY <1>4, <1>5, <2>1, <2>3 DEF Spells
<1>8. Spells(s + n, b)
  <2>1. s + n \in Nat /\ (s + n) + m <= Len(wire)
    <3>1. x + (n + m) <= Len(wire) /\ Len(wire) \in Nat BY <1>4, <1>9
    <3>2. x + n \in Nat /\ (x + n) + m <= Len(wire) BY <1>2, <3>1
    <3> QED BY <1>9, <3>2
  <2>2. ASSUME NEW i \in 1 .. m PROVE wire[(s + n) + i] = b[i]
    <3>1. n + i \in 1 .. (n + m) /\ (s + n) + i = s + (n + i)
      BY <1>1, <1>2, <1>9
    <3>2. wire[s + (n + i)] = (a \o b)[n + i] BY <1>4, <3>1
    <3> QED BY <1>6, <3>1, <3>2
  <2> QED BY <1>1, <2>1, <2>2 DEF Spells
<1> QED BY <1>7, <1>8, Zenon

(* read_element of a byte: before and after.                               *)
ByteAhead(r, h, s, p, m) ==
  /\ At(r, h, s, p, m) /\ r.ok /\ s \in Early
  /\ m \in Nat /\ m >= 1 /\ p + 1 <= Len(wire)

ByteTaken(r, q, h, s, p, m) ==
  /\ Stop(q) = Stop(r)
  /\ \/ At(q, h, s, p, m) /\ Waits(q)
     \/ At(q, h, s + 1, p + 1, m - 1) /\ q.ok /\ q.out = wire[p + 1]

(* The byte is read, or awaited.                                           *)
LEMMA ReadByteBack ==
  ASSUME NEW r, NEW h, NEW s, NEW p, NEW m, ByteAhead(r, h, s, p, m)
  PROVE  ByteTaken(r, ReadByte(r), h, s, p, m)
<1> USE DEF ByteAhead
<1> SUFFICES ASSUME NEW q, q = ReadByte(r)
             PROVE  ByteTaken(r, q, h, s, p, m)
  OBVIOUS
<1>7. s \in Early /\ m \in Nat OBVIOUS
<1>1. /\ Good(r) /\ r.good /\ r.ec = "none" /\ r.read_header = h
      /\ r.sequence = s /\ r.pos = p /\ r.remaining_size = m
      /\ r.data0 = 0 /\ r.data1 = 0 /\ r \in ClientState
  BY DEF At, Good
<1>2. r.available \in Nat /\ r.pos \in Nat BY <1>1, Fields
<1>3. Continues(r) BY <1>1 DEF Continues
<1>4. Reads(r, q) BY <1>1, ReadByteReads
<1>5. CASE r.available = 0
  <2>1. q = Wait(r) BY <1>5 DEF ReadByte
  <2>2. /\ q.good = r.good /\ q.ec = r.ec /\ q.ok = FALSE
        /\ q.read_header = r.read_header /\ q.sequence = r.sequence
        /\ q.pos = r.pos /\ q.remaining_size = r.remaining_size
        /\ q.data0 = r.data0 /\ q.data1 = r.data1
        /\ q.available = r.available
    BY <1>1, <2>1 DEF Wait, ClientState
  <2>3. At(q, h, s, p, m) BY <1>1, <1>4, <2>2, Zenon DEF At, Reads
  <2> QED BY <1>5, <2>2, <2>3 DEF Waits, Stop, ByteTaken
<1>6. CASE r.available # 0
  <2> DEFINE c == Consume(r, 1)
             x == wire[r.pos + 1]
  <2>1. Got(r, 1) = 1
    <3>1. Len(wire) \in Nat BY <1>1 DEF Good
    <3> QED BY <1>1, <1>2, <3>1 DEF Got, StdMin
  <2>2. q = [c EXCEPT !.sequence = (@ + 1) % 256, !.out = x]
    BY <1>1, <1>6, <2>1 DEF ReadByte
  <2>3. /\ 1 <= r.available /\ 1 <= r.remaining_size
        /\ r.pos + 1 <= Len(wire)
    BY <1>1, <1>2, <1>6
  <2>4. c.pos = r.pos + 1 /\ c.good = r.good /\ Good(c)
    BY <1>1, <2>3, ConsumeOne, Zenon
  <2>5. c \in ClientState BY <2>4 DEF Good
  <2>6. c.ok = r.ok /\ c.ec = r.ec
    BY <1>1, Zenon DEF Consume, ClientState
  <2> HIDE DEF c, x
  <2>7. /\ q.pos = c.pos /\ q.good = c.good /\ q.ok = c.ok /\ q.ec = c.ec
        /\ q.out = x
    BY <2>2, <2>5 DEF ClientState
  <2>8. Continues(q) BY <1>1, <2>6, <2>7, Zenon DEF Continues
  <2>9. /\ Steps(r, q) /\ q.data0 = r.data0 /\ q.data1 = r.data1
        /\ q.remaining_size = r.remaining_size - 1
    BY <1>1, <1>3, <2>8, ReadByteSteps
  <2>10. q.sequence = s + 1
    <3>1. q.sequence = (s + 1) % 256 BY <1>1, <2>8, <2>9 DEF Steps
    <3> QED BY <3>1 DEF Early
  <2>11. q.pos = p + 1 /\ q.remaining_size = m - 1
    BY <1>1, <2>4, <2>7, <2>9
  <2>12. /\ Good(q) /\ q.good /\ q.ec = "none" /\ q.read_header = h
         /\ q.data0 = 0 /\ q.data1 = 0 /\ q.ok
    BY <1>1, <1>4, <2>4, <2>6, <2>7, <2>9, Zenon DEF Steps, Reads
  <2>13. At(q, h, s + 1, p + 1, m - 1)
    BY <2>10, <2>11, <2>12, Zenon DEF At
  <2>14. Stop(q) = Stop(r) BY <1>4, <2>12, SameStop
  <2>15. q.out = wire[p + 1] BY <1>1, <2>7 DEF x
  <2> QED BY <2>12, <2>13, <2>14, <2>15, Zenon DEF ByteTaken
<1> QED BY <1>5, <1>6

(* The remaining length: before and after.                                 *)
LengthAhead(r, h, v, p) ==
  /\ InLength(r, h, v, p) /\ r.ok
  /\ v \in Variable /\ Spells(p, WriteVariableInteger(v))

LengthTaken(r, q, h, v, p) ==
  /\ Stop(q) = Stop(r)
  /\ \/ InLength(q, h, v, p) /\ Waits(q)
     \/ /\ At(q, h, 2, p + VariableLength(v), 4 - VariableLength(v))
        /\ q.ok /\ q.out = v

(* It is read, or the rest of it awaited.                                  *)
LEMMA LengthBack ==
  ASSUME NEW r, NEW h, NEW v, NEW p, LengthAhead(r, h, v, p)
  PROVE  LengthTaken(r, ReadVariableInteger(r), h, v, p)
<1> USE DEF LengthAhead
<1> SUFFICES ASSUME NEW q, q = ReadVariableInteger(r),
                    NEW n, n = VariableLength(v)
             PROVE  LengthTaken(r, q, h, v, p)
  OBVIOUS
<1>1. /\ Half(r, v, p) /\ r.read_header = h /\ r.sequence = 1
  BY DEF InLength
<1>2. Good(r) /\ r.ec = "none" BY <1>1, Zenon DEF Half, Partial
<1>3. Reads(r, q) BY <1>2, ReadVariableIntegerReads DEF ReadsWord
<1>4. \/ Done(q, v, p + n, 4 - n)
      \/ Half(q, v, p) /\ ~q.ok /\ q.available = 0
  BY <1>1, ReadVariableIntegerBack
<1>5. Steps(r, q)
  <2>1. Continues(r) BY <1>2 DEF Continues
  <2> QED BY <1>2, <2>1, ReadVariableIntegerSteps
<1>6. CASE Done(q, v, p + n, 4 - n)
  <2>1. Continues(q) /\ q.ec = "none" BY <1>6 DEF Done, Continues
  <2>2. q.sequence = 2 /\ q.read_header = h
    BY <1>1, <1>5, <2>1 DEF Steps
  <2>3. At(q, h, 2, p + n, 4 - n) /\ q.ok /\ q.out = v
    BY <1>6, <2>2, Zenon DEF Done, At
  <2>4. Stop(q) = Stop(r) BY <1>3, <2>1, SameStop
  <2> QED BY <2>3, <2>4, Zenon DEF LengthTaken
<1>7. CASE Half(q, v, p) /\ ~q.ok /\ q.available = 0
  <2>1. ~Continues(q) BY <1>7 DEF Continues
  <2>2. q.sequence = 1 /\ q.read_header = h
    BY <1>1, <1>5, <2>1 DEF Steps
  <2>3. q.ec = "none" BY <1>7, Zenon DEF Half, Partial
  <2>4. InLength(q, h, v, p) /\ Waits(q)
    BY <1>7, <2>2, Zenon DEF InLength, Waits
  <2>5. Stop(q) = Stop(r) BY <1>3, <2>3, SameStop
  <2> QED BY <2>4, <2>5, Zenon DEF LengthTaken
<1> QED BY <1>4, <1>6, <1>7

(* A 16-bit integer that can be read on.                                   *)
ShortAhead(r, h, s, v, p, m) ==
  /\ InShort(r, h, s, v, p, m) /\ r.ok /\ Within(r) /\ s \in Early
  /\ m \in Nat /\ m >= 2
  /\ v \in Short /\ Unsigned(v) /\ Spells(p, WriteUint16(v))

ShortTaken(r, q, h, s, v, p, m) ==
  /\ Stop(q) = Stop(r)
  /\ \/ InShort(q, h, s, v, p, m) /\ Waits(q)
     \/ At(q, h, s + 1, p + 2, m - 2) /\ q.ok /\ q.out = v

(* It is read, or the rest of it awaited.                                  *)
LEMMA ShortBack ==
  ASSUME NEW r, NEW h, NEW s, NEW v, NEW p, NEW m,
         ShortAhead(r, h, s, v, p, m)
  PROVE  ShortTaken(r, ReadUint16(r), h, s, v, p, m)
<1> SUFFICES ASSUME NEW q, q = ReadUint16(r)
             PROVE  ShortTaken(r, q, h, s, v, p, m)
  OBVIOUS
<1> USE DEF ShortAhead
<1>1. /\ HalfShort(r, v, p, m) /\ r.read_header = h /\ r.sequence = s
  BY DEF InShort
<1>2. Good(r) /\ r.ec = "none" BY <1>1 DEF HalfShort
<1>3. Reads(r, q) BY <1>2, ReadUint16Reads DEF ReadsShort
<1>4. \/ Done(q, v, p + 2, m - 2)
      \/ HalfShort(q, v, p, m) /\ ~q.ok /\ q.available = 0
  <2>1. r.available < SizeMod \div 2 BY <1>2, FewAvailable
  <2>2. PICK x : x = WriteUint16(v) OBVIOUS
  <2>3. Received(v) = v BY <2>2, ShortBytes
  <2>4. \/ Done(q, Received(v), p + 2, m - 2)
        \/ HalfShort(q, v, p, m) /\ ~q.ok /\ q.available = 0
    BY <1>1, <2>1, ReadUint16Back
  <2> QED BY <2>3, <2>4
<1>5. Steps(r, q)
  <2>1. Continues(r) BY <1>2 DEF Continues
  <2> QED BY <1>2, <2>1, ReadUint16Steps
<1>6. CASE Done(q, v, p + 2, m - 2)
  <2>1. Continues(q) /\ q.ec = "none" BY <1>6 DEF Done, Continues
  <2>2. q.sequence = (s + 1) % 256 /\ q.read_header = h
    BY <1>1, <1>5, <2>1 DEF Steps
  <2>3. q.sequence = s + 1 BY <2>2 DEF Early
  <2>4. At(q, h, s + 1, p + 2, m - 2) /\ q.ok /\ q.out = v
    BY <1>6, <2>2, <2>3, Zenon DEF Done, At
  <2>5. Stop(q) = Stop(r) BY <1>3, <2>1, SameStop DEF ReadsShort
  <2> QED BY <2>4, <2>5, Zenon DEF ShortTaken
<1>7. CASE HalfShort(q, v, p, m) /\ ~q.ok /\ q.available = 0
  <2>1. ~Continues(q) BY <1>7 DEF Continues
  <2>2. q.sequence = s /\ q.read_header = h
    BY <1>1, <1>5, <2>1 DEF Steps
  <2>3. q.ec = "none" BY <1>7 DEF HalfShort
  <2>4. InShort(q, h, s, v, p, m) /\ Waits(q)
    BY <1>7, <2>2 DEF InShort, Waits
  <2>5. Stop(q) = Stop(r) BY <1>3, <2>3, SameStop
  <2> QED BY <2>4, <2>5, Zenon DEF ShortTaken
<1> QED BY <1>4, <1>6, <1>7

(* The bytes taken from a field are that part of the field.                *)
LEMMA SpelledPart ==
  ASSUME NEW r, Good(r), NEW t \in Seq(Byte), NEW p, Spells(p, t),
         NEW i \in Nat, NEW k \in Nat, i + k <= Len(t), r.pos = p + i
  PROVE  NextBytes(r, k) = SubSeq(t, i + 1, i + k)
<1>1. PICK x \in Nat : x = p BY DEF Spells
<1>2. PICK n \in Nat : n = Len(t) OBVIOUS
<1>3. /\ wire \in Seq(Byte) /\ Len(wire) \in Nat /\ x + n <= Len(wire)
      /\ \A j \in 1 .. n : wire[x + j] = t[j]
  BY <1>1, <1>2 DEF Spells, Good
<1>4. NextBytes(r, k) = SubSeq(wire, x + i + 1, x + i + k)
  BY <1>1 DEF NextBytes
<1>5. \A j \in 1 .. k : wire[(x + i + 1) + j - 1] = t[(i + 1) + j - 1]
  <2> TAKE j \in 1 .. k
  <2>1. /\ i + j \in 1 .. n /\ (x + i + 1) + j - 1 = x + (i + j)
        /\ (i + 1) + j - 1 = i + j
    BY <1>2
  <2> QED BY <1>3, <2>1
<1> DEFINE a == SubSeq(wire, x + i + 1, x + i + k)
           b == SubSeq(t, i + 1, i + k)
<1>6. /\ a \in Seq(Byte) /\ Len(a) = k
      /\ \A j \in 1 .. k : a[j] = wire[(x + i + 1) + j - 1]
  <2>1. \A j \in (x + i + 1) .. (x + i + k) : wire[j] \in Byte
    <3> TAKE j \in (x + i + 1) .. (x + i + k)
    <3>1. j \in 1 .. Len(wire) BY <1>2, <1>3
    <3> QED BY <1>3, <3>1, ElementOfSeq
  <2>2. x + i + 1 \in Int /\ x + i + k \in Int OBVIOUS
  <2>3. /\ a \in Seq(Byte)
        /\ Len(a) = IF x + i + 1 <= x + i + k
                    THEN (x + i + k) - (x + i + 1) + 1 ELSE 0
        /\ \A j \in 1 .. ((x + i + k) - (x + i + 1) + 1) :
             a[j] = wire[(x + i + 1) + j - 1]
    BY <2>1, <2>2, SubSeqProperties
  <2>4. (x + i + k) - (x + i + 1) + 1 = k OBVIOUS
  <2>5. (IF x + i + 1 <= x + i + k
         THEN (x + i + k) - (x + i + 1) + 1 ELSE 0) = k
    OBVIOUS
  <2> HIDE DEF a
  <2> QED BY <2>3, <2>4, <2>5
<1>7. /\ b \in Seq(Byte) /\ Len(b) = k
      /\ \A j \in 1 .. k : b[j] = t[(i + 1) + j - 1]
  <2>1. \A j \in (i + 1) .. (i + k) : t[j] \in Byte
    <3> TAKE j \in (i + 1) .. (i + k)
    <3>1. j \in 1 .. Len(t) BY <1>2
    <3> QED BY <3>1, ElementOfSeq
  <2>2. i + 1 \in Int /\ i + k \in Int OBVIOUS
  <2>3. /\ b \in Seq(Byte)
        /\ Len(b) = IF i + 1 <= i + k THEN (i + k) - (i + 1) + 1 ELSE 0
        /\ \A j \in 1 .. ((i + k) - (i + 1) + 1) :
             b[j] = t[(i + 1) + j - 1]
    BY <2>1, <2>2, SubSeqProperties
  <2>4. (i + k) - (i + 1) + 1 = k OBVIOUS
  <2>5. (IF i + 1 <= i + k THEN (i + k) - (i + 1) + 1 ELSE 0) = k
    OBVIOUS
  <2> HIDE DEF b
  <2> QED BY <2>3, <2>4, <2>5
<1> HIDE DEF a, b
<1>8. \A j \in 1 .. Len(a) : a[j] = b[j] BY <1>5, <1>6, <1>7
<1>9. a = b BY <1>6, <1>7, <1>8, SeqEqual
<1> QED BY <1>4, <1>9 DEF a, b

(* What a part of a topic changes.                                         *)
Extended(r, got, q) ==
  /\ q.pos = r.pos + got /\ q.remaining_size = r.remaining_size - got
  /\ q.sequence = r.sequence /\ q.good = r.good /\ q.ok = r.ok
  /\ q.ec = r.ec /\ q.data1 = r.data1
  /\ q.read_header = [r.read_header EXCEPT
                        !.topic = r.read_header.topic \o NextBytes(r, got)]

(* That is what Extend does, whatever of the text there is.              *)
LEMMA ExtendSets ==
  ASSUME NEW r, Good(r), NEW size, NEW got, MayExtend(r, size, got)
  PROVE  Extended(r, got, Extend(r, size, got))
<1> SUFFICES ASSUME NEW q, q = Extend(r, size, got)
             PROVE  Extended(r, got, q)
  OBVIOUS
<1> DEFINE c == Consume(r, got)
           g == [r.read_header EXCEPT !.topic = r.read_header.topic
                                                  \o NextBytes(r, got)]
<1>1. /\ Good(c) /\ c.remaining_size = r.remaining_size - got
      /\ c.pos = r.pos + got /\ c.sequence = r.sequence
      /\ c.data1 = r.data1 /\ c.read_header = r.read_header
      /\ c.good = r.good
  BY ConsumeReads DEF MayExtend, Reads
<1>2. r \in ClientState BY DEF Good
<1>3. c.ok = r.ok /\ c.ec = r.ec BY <1>2, Zenon DEF Consume, ClientState
<1>4. c.read_header = r.read_header BY <1>1
<1>5. q = [c EXCEPT !.data0 = size - got, !.read_header = g]
  BY <1>4, Zenon DEF Extend
<1>6. c \in ClientState BY <1>1 DEF Good
<1> HIDE DEF c, g
<1>7. /\ q.good = c.good /\ q.ec = c.ec /\ q.ok = c.ok
      /\ q.sequence = c.sequence /\ q.pos = c.pos
      /\ q.remaining_size = c.remaining_size /\ q.data1 = c.data1
      /\ q.read_header = g
  BY <1>5, <1>6 DEF ClientState
<1> QED BY <1>1, <1>3, <1>7, Zenon DEF g, Extended

(* read_blob's text, where all of it is available and there is room.       *)
LEMMA TextWhole ==
  ASSUME NEW r, NEW n \in Nat, r.remaining_size \in Nat,
         r.available \in Nat, n <= r.remaining_size, n <= r.available,
         TopicRoom(r) \in Nat, n <= TopicRoom(r), Got(r, n) = n
  PROVE  ReadText(r, n) = IF Extend(r, n, n).data0 # 0
                          THEN Wait(Extend(r, n, n)) ELSE Extend(r, n, n)
<1>1. StdMin(n, r.available) = n BY DEF StdMin
<1>2. StdMin(n, TopicRoom(r)) = n BY DEF StdMin
<1>3. ~(n < n) /\ ~(r.remaining_size < n) OBVIOUS
<1> QED BY <1>1, <1>2, <1>3, Zenon DEF ReadText

(* It is the topic.                                                        *)
TextAhead(r, h, s, t, p, m) ==
  /\ At(r, h, s, p, m) /\ r.ok /\ h.topic = <<>>
  /\ t \in Seq(Byte) /\ Len(t) <= TopicMax /\ Len(t) \in Short
  /\ Spells(p, t) /\ m \in Nat /\ m >= Len(t) /\ r.available >= Len(t)

TextTaken(r, q, h, s, t, p, m) ==
  /\ Stop(q) = Stop(r) /\ q.ok
  /\ At(q, [h EXCEPT !.topic = t], s, p + Len(t), m - Len(t))

(* A text that is there in full is read back as it was written.          *)
LEMMA TextBack ==
  ASSUME NEW r, NEW h, NEW s, NEW t, NEW p, NEW m,
         TextAhead(r, h, s, t, p, m)
  PROVE  TextTaken(r, ReadText(r, Len(t)), h, s, t, p, m)
<1> USE DEF TextAhead
<1> SUFFICES ASSUME NEW n \in Nat, n = Len(t), NEW q, q = ReadText(r, n)
             PROVE  TextTaken(r, q, h, s, t, p, m)
  OBVIOUS
<1>20. /\ t \in Seq(Byte) /\ n <= TopicMax /\ n \in Short /\ Spells(p, t)
       /\ m \in Nat /\ m >= n /\ r.available >= n /\ h.topic = <<>>
  OBVIOUS
<1>21. At(r, h, s, p, m) /\ r.ok OBVIOUS
<1> HIDE DEF TextAhead
<1>1. /\ Good(r) /\ r.good /\ r.ec = "none" /\ r.read_header = h
      /\ r.sequence = s /\ r.pos = p /\ r.remaining_size = m
      /\ r.data0 = 0 /\ r.data1 = 0 /\ r \in ClientState
  BY <1>21, Zenon DEF At, Good
<1>2. /\ r.available \in Nat /\ r.pos \in Nat /\ h \in Header
      /\ Len(wire) \in Nat
  BY <1>1, Fields DEF Good
<1>3. p + n <= Len(wire) /\ p \in Nat BY <1>20 DEF Spells
<1>4. TopicRoom(r) = TopicMax
  <2>1. Len(<<>>) = 0 OBVIOUS
  <2>2. TopicMax \in Nat BY ReaderAssumption DEF ReaderAssumption
  <2> QED BY <1>1, <1>20, <2>1, <2>2 DEF TopicRoom
<1>5. TopicMax \in Nat BY ReaderAssumption DEF ReaderAssumption
<1>6. Got(r, n) = n BY <1>1, <1>2, <1>3, <1>20 DEF Got, StdMin
<1>9. MayExtend(r, n, n)
  <2>1. n \in Below(65536) BY <1>20 DEF Short
  <2>2. n <= TopicMax /\ n <= n BY <1>20, SMT
  <2> QED BY <1>1, <1>2, <1>3, <1>4, <1>20, <2>1, <2>2 DEF MayExtend
<1> DEFINE u == Extend(r, n, n)
<1>8. q = IF u.data0 # 0 THEN Wait(u) ELSE u
  <2>1. /\ r.remaining_size \in Nat /\ n <= r.remaining_size
        /\ TopicRoom(r) \in Nat /\ n <= TopicRoom(r)
    BY <1>1, <1>4, <1>5, <1>20
  <2> QED BY <1>2, <1>6, <1>20, <2>1, TextWhole
<1>10. /\ Reads(r, u) /\ u.data0 = 0
  <2>1. Reads(r, u) /\ u.data0 = n - n BY <1>1, <1>9, ExtendReads
  <2> HIDE DEF u
  <2>2. n - n = 0 OBVIOUS
  <2> QED BY <2>1, <2>2
<1>12. r.read_header.topic \o NextBytes(r, n) = t
  <2>1. NextBytes(r, n) = SubSeq(t, 0 + 1, 0 + n)
    <3>1. 0 \in Nat /\ 0 + n <= Len(t) /\ r.pos = p + 0
      BY <1>1, <1>2, <1>3
    <3> QED BY <1>1, <1>20, <3>1, SpelledPart
  <2>2. SubSeq(t, 1, n) = t BY <1>20, SubSeqFull
  <2>3. NextBytes(r, n) = t BY <2>1, <2>2
  <2>4. <<>> \o t = t BY <1>20, ConcatEmptySeq
  <2> QED BY <1>1, <1>20, <2>3, <2>4
<1>14. Extended(r, n, u)
  <2>1. Good(r) BY <1>1
  <2> QED BY <1>9, <2>1, ExtendSets
<1> HIDE DEF u
<1>11. q = u BY <1>8, <1>10, Zenon
<1>13. u.read_header = [h EXCEPT !.topic = t]
  BY <1>1, <1>12, <1>14, Zenon DEF Extended
<1>15. u.pos = p + n /\ u.remaining_size = m - n
  BY <1>1, <1>14, Zenon DEF Extended
<1>16. /\ u.good /\ u.ok /\ u.ec = "none" /\ u.sequence = s
       /\ u.data1 = 0
  BY <1>1, <1>14, <1>21, Zenon DEF Extended
<1>18. Good(u) BY <1>10, Zenon DEF Reads
<1>17. At(u, [h EXCEPT !.topic = t], s, p + n, m - n)
  BY <1>10, <1>13, <1>15, <1>16, <1>18, Zenon DEF At
<1>19. Stop(u) = Stop(r) BY <1>10, <1>16, SameStop, Zenon
<1> QED BY <1>11, <1>16, <1>17, <1>19, Zenon DEF TextTaken

(* read_blob, where either nothing or all of it is available.              *)
TopicAhead(r, h, t, p, m) ==
  /\ At(r, h, 2, p, m) /\ r.ok /\ Within(r) /\ h.topic = <<>>
  /\ t \in Seq(Byte) /\ Len(t) <= TopicMax
  /\ Len(t) \in Short /\ Unsigned(Len(t))
  /\ m \in Nat /\ m >= 2 + Len(t) /\ Spells(p, WriteBlob(t))
  /\ r.available = 0 \/ r.available >= 2 + Len(t)

TopicTaken(r, q, h, t, p, m) ==
  /\ Stop(q) = Stop(r)
  /\ \/ At(q, h, 2, p, m) /\ Waits(q)
     \/ /\ At(q, [h EXCEPT !.topic = t], 3, p + (2 + Len(t)),
              m - (2 + Len(t)))
        /\ q.ok

(* A topic is read back once all of it is there: its pieces do not end   *)
(* inside it, so it is, or nothing is.                                   *)
LEMMA TopicBack ==
  ASSUME NEW r, NEW h, NEW t, NEW p, NEW m, TopicAhead(r, h, t, p, m)
  PROVE  TopicTaken(r, ReadTopic(r), h, t, p, m)
<1> SUFFICES ASSUME NEW q, q = ReadTopic(r), NEW n \in Nat, n = Len(t)
             PROVE  TopicTaken(r, q, h, t, p, m)
  BY DEF TopicAhead
<1>12. /\ t \in Seq(Byte) /\ n = Len(t) /\ n <= TopicMax /\ n \in Short
       /\ Unsigned(n) /\ m \in Nat /\ m >= 2 + n /\ h.topic = <<>>
       /\ r.available = 0 \/ r.available >= 2 + n
  BY Zenon DEF TopicAhead
<1>13. Spells(p, WriteBlob(t)) BY DEF TopicAhead
<1>14. r.ok /\ Within(r) /\ At(r, h, 2, p, m) BY DEF TopicAhead
<1>1. /\ Good(r) /\ r.good /\ r.ec = "none" /\ r.read_header = h
      /\ r.sequence = 2 /\ r.pos = p /\ r.remaining_size = m
      /\ r.data0 = 0 /\ r.data1 = 0 /\ r \in ClientState
  BY <1>14, Zenon DEF At, Good
<1>2. r.available \in Nat /\ r.pos \in Nat BY <1>1, Fields
<1>3. n \in Short BY <1>12
<1>4. PICK w : w = WriteUint16(n) OBVIOUS
<1>5. w \in Seq(Byte) /\ Len(w) = 2 BY <1>3, <1>4, ShortBytes
<1>6. Spells(p, w) /\ Spells(p + 2, t)
  <2>1. WriteBlob(t) = w \o t BY <1>4, <1>12 DEF WriteBlob
  <2>2. wire \in Seq(Byte) BY <1>1 DEF Good
  <2>3. Spells(p, w \o t) BY <1>13, <2>1
  <2>4. PICK k, e : k = 2 /\ e = p + 2 OBVIOUS
  <2>5. k = Len(w) /\ e = p + k BY <1>5, <2>4
  <2>6. Spells(p, w) /\ Spells(e, t)
    BY <1>5, <1>12, <2>2, <2>3, <2>5, SpellsParts, Zenon
  <2> QED BY <2>4, <2>6, Zenon
<1>7. InShort(r, h, 2, n, p, m)
  BY <1>1, <1>2, <1>12 DEF InShort, HalfShort
<1> DEFINE u == ReadUint16(r)
<1>8. q = IF Continues(u) THEN ReadText(u, u.out) ELSE u
  <2> DEFINE size == r.data0 % 65536
  <2>1. q = IF size # 0 THEN ReadText(r, size)
            ELSE IF Continues(u) THEN ReadText(u, u.out) ELSE u
    BY DEF ReadTopic, Then
  <2>2. size = 0 BY <1>1, SMT
  <2> HIDE DEF size
  <2> QED BY <2>1, <2>2, Zenon
<1>9. /\ Stop(u) = Stop(r)
      /\ \/ InShort(u, h, 2, n, p, m) /\ Waits(u)
         \/ At(u, h, 3, p + 2, m - 2) /\ u.ok /\ u.out = n
  <2>1. Spells(p, WriteUint16(n)) BY <1>4, <1>6
  <2>2. m >= 2 /\ 2 \in Early BY <1>12, SMT DEF Early
  <2>5. ShortAhead(r, h, 2, n, p, m)
    BY <1>3, <1>7, <1>12, <1>14, <2>1, <2>2, Zenon DEF ShortAhead
  <2>3. ShortTaken(r, u, h, 2, n, p, m) BY <2>5, ShortBack
  <2> HIDE DEF u
  <2>4. 2 + 1 = 3 OBVIOUS
  <2> QED BY <2>3, <2>4, Zenon DEF ShortTaken
<1> HIDE DEF u
<1>10. CASE InShort(u, h, 2, n, p, m) /\ Waits(u)
  <2>1. /\ Good(u) /\ u.good /\ u.ec = "none" /\ u.data0 \in {0, 1}
        /\ u.pos = p + u.data0 /\ u.remaining_size = m - u.data0
        /\ u.data1 = (IF u.data0 = 0 THEN 0 ELSE n \div 256)
        /\ u.read_header = h /\ u.sequence = 2
        /\ u.available = 0 /\ ~u.ok
    BY <1>10 DEF InShort, HalfShort, Waits
  <2>2. u.data0 = 0 BY <1>1, <1>2, <1>9, <1>12, <2>1 DEF Stop
  <2>3. u.pos = p /\ u.remaining_size = m /\ u.data1 = 0
    BY <1>1, <1>2, <1>12, <2>1, <2>2
  <2>4. /\ Good(u) /\ u.good /\ u.ec = "none" /\ u.read_header = h
        /\ u.sequence = 2
    BY <2>1, Zenon
  <2>6. At(u, h, 2, p, m) BY <2>2, <2>3, <2>4, Zenon DEF At
  <2>5. q = u BY <1>8, <2>1 DEF Continues
  <2> QED BY <1>9, <1>10, <2>5, <2>6, Zenon DEF TopicTaken
<1>11. CASE At(u, h, 3, p + 2, m - 2) /\ u.ok /\ u.out = n
  <2>1. q = ReadText(u, n) BY <1>8, <1>11 DEF Continues, At
  <2>2. u.pos = p + 2 /\ u.available \in Nat
    <3>1. Good(u) /\ u.pos = p + 2 BY <1>11, Zenon DEF At
    <3> QED BY <3>1, Fields DEF Good
  <2>3. u.available >= n
    <3>1. r.available # 0 BY <1>1, <1>2, <1>9, <1>12, <2>2 DEF Stop
    <3> QED BY <1>1, <1>2, <1>9, <1>12, <2>2, <3>1 DEF Stop
  <2>4. PICK e \in Nat, k \in Nat : e = p + 2 /\ k = m - 2
    BY <1>1, <1>2, <1>12
  <2>5. k >= n BY <1>12, <2>4
  <2>6. TextAhead(u, h, 3, t, e, k)
    BY <1>6, <1>11, <1>12, <2>3, <2>4, <2>5, Zenon DEF TextAhead
  <2>7. TextTaken(u, q, h, 3, t, e, k) BY <1>12, <2>1, <2>6, TextBack
  <2>8. e + n = p + (2 + n) /\ k - n = m - (2 + n)
    BY <1>1, <1>2, <1>12, <2>4, SMTT(60)
  <2>9. Stop(q) = Stop(r) BY <1>9, <2>7, Zenon DEF TextTaken
  <2>10. /\ At(q, [h EXCEPT !.topic = t], 3, p + (2 + n), m - (2 + n))
         /\ q.ok
    BY <1>12, <2>7, <2>8, Zenon DEF TextTaken
  <2> QED BY <1>12, <2>9, <2>10, Zenon DEF TopicTaken
<1> QED BY <1>9, <1>10, <1>11

(* The packet identifier.                                                  *)
IdentifierTaken(r, q, h, s, v, p, m) ==
  /\ Stop(q) = Stop(r)
  /\ \/ InShort(q, h, s, v, p, m) /\ Waits(q)
     \/ /\ At(q, [h EXCEPT !.packet_identifier = v], s + 1, p + 2, m - 2)
        /\ q.ok

(* A packet identifier is read back in one call or in two.               *)
LEMMA IdentifierBack ==
  ASSUME NEW r, NEW h, NEW s, NEW v, NEW p, NEW m,
         ShortAhead(r, h, s, v, p, m)
  PROVE  IdentifierTaken(r, ReadIdentifier(r), h, s, v, p, m)
<1> SUFFICES ASSUME NEW q, q = ReadIdentifier(r)
             PROVE  IdentifierTaken(r, q, h, s, v, p, m)
  OBVIOUS
<1> DEFINE u == ReadUint16(r)
           g == [u.read_header EXCEPT !.packet_identifier = u.out]
           c == [u EXCEPT !.read_header = g]
<1>1. q = IF Continues(u) THEN c ELSE u
  BY Zenon DEF ReadIdentifier, Then
<1>2. ShortTaken(r, u, h, s, v, p, m) BY ShortBack
<1> HIDE DEF u
<1>3. CASE InShort(u, h, s, v, p, m) /\ Waits(u)
  <2>1. q = u BY <1>1, <1>3 DEF Waits, Continues
  <2> QED
    BY <1>2, <1>3, <2>1, Zenon DEF ShortTaken, IdentifierTaken
<1>4. CASE At(u, h, s + 1, p + 2, m - 2) /\ u.ok /\ u.out = v
  <2>1. q = c BY <1>1, <1>4 DEF At, Continues
  <2>2. Good(u) /\ u \in ClientState /\ u.read_header = h
    BY <1>4 DEF At, Good
  <2>3. g = [h EXCEPT !.packet_identifier = v] BY <1>4, <2>2
  <2>4. Reads(u, c)
    <3>1. u.out \in Below(65536) BY <1>4 DEF Short, ShortAhead
    <3>2. Reads(u, [u EXCEPT !.read_header.packet_identifier = u.out])
      BY <2>2, <3>1, IdentifierReads DEF Short
    <3>3. c = [u EXCEPT !.read_header.packet_identifier = u.out]
      BY Zenon
    <3> QED BY <3>2, <3>3, Zenon
  <2> HIDE DEF g
  <2>5. /\ c.good = u.good /\ c.ec = u.ec /\ c.ok = u.ok
        /\ c.sequence = u.sequence /\ c.pos = u.pos
        /\ c.remaining_size = u.remaining_size
        /\ c.data0 = u.data0 /\ c.data1 = u.data1 /\ c.read_header = g
        /\ c.available = u.available
    BY <2>2, Zenon DEF ClientState
  <2>6. At(c, g, s + 1, p + 2, m - 2)
    BY <1>4, <2>4, <2>5, Zenon DEF At, Reads
  <2>7. Stop(c) = Stop(u) BY <2>5, Zenon DEF Stop
  <2>8. Stop(q) = Stop(r) BY <1>2, <2>1, <2>7, Zenon DEF ShortTaken
  <2>9. q.ok BY <1>4, <2>1, <2>5, Zenon
  <2>10. At(q, [h EXCEPT !.packet_identifier = v], s + 1, p + 2, m - 2)
    BY <2>1, <2>3, <2>6, Zenon
  <2> QED BY <2>8, <2>9, <2>10, Zenon DEF IdentifierTaken
<1> QED BY <1>2, <1>3, <1>4, Zenon DEF ShortTaken


-----------------------------------------------------------------------------
(* What is known of a packet whose header is h: its first byte stands at   *)
(* o + 1, its remaining length v after it, and the rest of it after b.     *)
Flagged(h) == [Fresh(h.index) EXCEPT !.flags = h.flags]

Headed(h, v, o, b) ==
  /\ h \in Header /\ h.index \in Handled
  /\ h.index # publish => h.flags = 0
  /\ QoS(h) # 3
  /\ o \in Nat /\ o + 1 <= Len(wire) /\ wire[o + 1] = 16 * h.index + h.flags
  /\ v \in Variable /\ Spells(o + 1, WriteVariableInteger(v))
  /\ b = (o + 1) + VariableLength(v)

(* Its first bytes are being read, up to and with the remaining length.    *)
Start(r, h, o) == At(r, Fresh(h.index), 0, o, 5)

Opening(r, h, v, o) ==
  Start(r, h, o) \/ InLength(r, Flagged(h), v, o + 1)

OpeningAhead(r, h, v, o, b) ==
  Headed(h, v, o, b) /\ Opening(r, h, v, o) /\ r.ok

OpeningTaken(r, q, h, v, o, b, m) ==
  /\ Stop(q) = Stop(r)
  /\ \/ Opening(q, h, v, o) /\ Waits(q)
     \/ At(q, Flagged(h), 2, b, m) /\ q.ok

(* An assignment of _read_header between two fields.                       *)
LEMMA AtHeader ==
  ASSUME NEW u, NEW h, NEW s, NEW p, NEW m, At(u, h, s, p, m), NEW g,
         Reads(u, [u EXCEPT !.read_header = g])
  PROVE  /\ At([u EXCEPT !.read_header = g], g, s, p, m)
         /\ Stop([u EXCEPT !.read_header = g]) = Stop(u)
         /\ [u EXCEPT !.read_header = g].ok = u.ok
<1> DEFINE c == [u EXCEPT !.read_header = g]
<1>1. u \in ClientState BY Zenon DEF At, Good
<1>2. Good(c) BY Zenon DEF Reads
<1>3. /\ c.good = u.good /\ c.ec = u.ec /\ c.ok = u.ok
      /\ c.sequence = u.sequence /\ c.pos = u.pos
      /\ c.remaining_size = u.remaining_size
      /\ c.data0 = u.data0 /\ c.data1 = u.data1 /\ c.read_header = g
      /\ c.available = u.available
  BY <1>1, Zenon DEF ClientState
<1> HIDE DEF c
<1>4. At(c, g, s, p, m) BY <1>2, <1>3, Zenon DEF At
<1>5. Stop(c) = Stop(u) BY <1>3, Zenon DEF Stop
<1> QED BY <1>3, <1>4, <1>5, Zenon DEF c

(* An assignment of remaining_size.                                        *)
LEMMA AtRemaining ==
  ASSUME NEW u, NEW h, NEW s, NEW p, NEW m, At(u, h, s, p, m),
         NEW n \in Below(WordMod)
  PROVE  /\ At([u EXCEPT !.remaining_size = n], h, s, p, n)
         /\ Stop([u EXCEPT !.remaining_size = n]) = Stop(u)
         /\ [u EXCEPT !.remaining_size = n].ok = u.ok
<1> DEFINE c == [u EXCEPT !.remaining_size = n]
<1>1. Good(u) /\ u \in ClientState BY Zenon DEF At, Good
<1>2. Good(c)
  <2>1. Reads(u, c) BY <1>1, RemainingReads
  <2> QED BY <2>1, Zenon DEF Reads
<1>3. /\ c.good = u.good /\ c.ec = u.ec /\ c.ok = u.ok
      /\ c.sequence = u.sequence /\ c.pos = u.pos
      /\ c.remaining_size = n
      /\ c.data0 = u.data0 /\ c.data1 = u.data1
      /\ c.read_header = u.read_header /\ c.available = u.available
  BY <1>1, Zenon DEF ClientState
<1> HIDE DEF c
<1>4. At(c, h, s, p, n) BY <1>2, <1>3, Zenon DEF At
<1>5. Stop(c) = Stop(u) BY <1>3, Zenon DEF Stop
<1> QED BY <1>3, <1>4, <1>5, Zenon DEF c

(* The header of a packet whose first byte has been read.                  *)
LEMMA FlaggedHeader ==
  ASSUME NEW h \in Header
  PROVE  /\ Fresh(h.index) \in Header /\ Flagged(h) \in Header
         /\ h.flags = 0 => Flagged(h) = Fresh(h.index)
         /\ Flagged(h).index = h.index /\ Flagged(h).topic = <<>>
         /\ Flagged(h).flags = h.flags /\ h.flags \in 0 .. 15
<1>1. h.index \in Handled \cup {reserved} /\ h.flags \in 0 .. 15
  BY DEF Header
<1>2. Fresh(h.index) \in Header BY <1>1, FreshHeader
<1>3. Flagged(h) \in Header BY <1>1, <1>2, SetField DEF Flagged
<1>4. /\ h.flags = 0 => Flagged(h) = Fresh(h.index)
      /\ Flagged(h).index = h.index /\ Flagged(h).topic = <<>>
      /\ Flagged(h).flags = h.flags
  BY DEF Flagged, Fresh
<1> QED BY <1>1, <1>2, <1>3, <1>4

(* The first byte of a PUBLISH holds its flags.                            *)
LEMMA FlagBits ==
  ASSUME NEW f \in 0 .. 15
  PROVE  /\ (16 * 3 + f) % 16 = f
         /\ ((16 * 3 + f) \div 2) % 4 = (f \div 2) % 4
OBVIOUS

(* Once it is read the remaining length is next.                           *)
LEMMA LengthNext ==
  ASSUME NEW h, NEW v, NEW o, NEW b, Headed(h, v, o, b), NEW g, NEW q,
         At(q, g, 1, o + 1, 5 - 1)
  PROVE  InLength(q, g, v, o + 1)
<1>1. VariableLength(v) \in 1 .. 4 BY LengthOf DEF Headed
<1>2. PICK p \in Nat : p = o + 1 BY DEF Headed
<1>3. p < p + VariableLength(v) BY <1>1, <1>2
<1>4. 5 - 1 = 4 OBVIOUS
<1>5. /\ Good(q) /\ q.good /\ q.ec = "none" /\ q.read_header = g
      /\ q.sequence = 1 /\ q.pos = p /\ q.remaining_size = 4
      /\ q.data0 = 0 /\ q.data1 = 0
  BY <1>2, <1>4, Zenon DEF At
<1>6. Half(q, v, p) BY <1>3, <1>5, Zenon DEF Half
<1> QED BY <1>2, <1>5, <1>6, Zenon DEF InLength

(* The first byte is read: for every packet but PUBLISH                    *)
LEMMA TypeBack ==
  ASSUME NEW h, NEW v, NEW o, NEW b, NEW r, OpeningAhead(r, h, v, o, b),
         h.index # publish, NEW q, q = ReadType(r, h.index)
  PROVE  /\ Stop(q) = Stop(r)
         /\ \/ Opening(q, h, v, o) /\ Waits(q)
            \/ InLength(q, Flagged(h), v, o + 1) /\ q.ok
<1>1. /\ Headed(h, v, o, b) /\ r.ok /\ Opening(r, h, v, o)
  BY Zenon DEF OpeningAhead
<1>2. CASE InLength(r, Flagged(h), v, o + 1)
  <2>1. r.sequence # 0 BY <1>2 DEF InLength
  <2>2. q = r BY <2>1 DEF ReadType
  <2> QED BY <1>1, <1>2, <2>2, Zenon
<1>3. CASE Start(r, h, o)
  <2> DEFINE u == ReadByte(r)
             g == Fresh(h.index)
  <2>1. r.sequence = 0 BY <1>3, Zenon DEF Start, At
  <2>2. q = IF Continues(u)
            THEN IF u.out # 16 * h.index THEN Fail(u, "bad_flags") ELSE u
            ELSE u
    BY <2>1 DEF ReadType, Then
  <2>3. /\ o \in Nat /\ o + 1 <= Len(wire) /\ wire[o + 1] = 16 * h.index
        /\ g = Flagged(h)
    <3>1. h \in Header /\ h.flags = 0 /\ o \in Nat /\ o + 1 <= Len(wire)
          /\ wire[o + 1] = 16 * h.index + h.flags /\ h.index \in Handled
      BY <1>1, Zenon DEF Headed
    <3>2. 16 * h.index + 0 = 16 * h.index
      BY <3>1 DEF Handled, connack, publish, puback, pubrec, pubrel,
                  pubcomp, suback, unsuback, pingresp
    <3> QED BY <3>1, <3>2, FlaggedHeader
  <2>4. ByteAhead(r, g, 0, o, 5)
    <3>1. 0 \in Early /\ 5 \in Nat /\ 5 >= 1 BY SMT DEF Early
    <3> QED BY <1>1, <1>3, <2>3, <3>1, Zenon DEF ByteAhead, Start
  <2>5. ByteTaken(r, u, g, 0, o, 5) BY <2>4, ReadByteBack
  <2> HIDE DEF u, g
  <2>6. CASE At(u, g, 0, o, 5) /\ Waits(u)
    <3>1. q = u BY <2>2, <2>6, Zenon DEF Waits, Continues
    <3>2. Start(u, h, o) BY <2>6, Zenon DEF Start, g
    <3> QED BY <2>5, <2>6, <3>1, <3>2, Zenon DEF ByteTaken, Opening
  <2>7. CASE /\ At(u, g, 0 + 1, o + 1, 5 - 1)
             /\ u.ok /\ u.out = wire[o + 1]
    <3>1. 0 + 1 = 1 OBVIOUS
    <3>2. q = u BY <2>2, <2>3, <2>7, Zenon
    <3>3. At(u, g, 1, o + 1, 5 - 1) BY <2>7, <3>1, Zenon
    <3>4. InLength(u, g, v, o + 1) BY <1>1, <3>3, LengthNext, Zenon
    <3> QED BY <2>3, <2>5, <2>7, <3>2, <3>4, Zenon DEF ByteTaken
  <2> QED BY <2>5, <2>6, <2>7, Zenon DEF ByteTaken
<1> QED BY <1>1, <1>2, <1>3, Zenon DEF Opening

(* and for PUBLISH.                                                        *)
LEMMA PublishTypeBack ==
  ASSUME NEW h, NEW v, NEW o, NEW b, NEW r, OpeningAhead(r, h, v, o, b),
         h.index = publish, NEW q, q = ReadPublishType(r)
  PROVE  /\ Stop(q) = Stop(r)
         /\ \/ Opening(q, h, v, o) /\ Waits(q)
            \/ InLength(q, Flagged(h), v, o + 1) /\ q.ok
<1>1. /\ Headed(h, v, o, b) /\ r.ok /\ Opening(r, h, v, o)
  BY Zenon DEF OpeningAhead
<1>2. CASE InLength(r, Flagged(h), v, o + 1)
  <2>1. r.sequence # 0 BY <1>2 DEF InLength
  <2>2. q = r BY <2>1 DEF ReadPublishType
  <2> QED BY <1>1, <1>2, <2>2, Zenon
<1>3. CASE Start(r, h, o)
  <2> DEFINE u == ReadByte(r)
             g == Fresh(h.index)
             d == [u.read_header EXCEPT !.flags = u.out % 16]
             c == [u EXCEPT !.read_header = d]
  <2>1. r.sequence = 0 BY <1>3, Zenon DEF Start, At
  <2>2. Continues(u) /\ (u.out \div 2) % 4 # 3 => q = c
    BY <2>1, Zenon DEF ReadPublishType, Then
  <2>3. ~Continues(u) => q = u BY <2>1 DEF ReadPublishType, Then
  <2>4. /\ h \in Header /\ o \in Nat /\ o + 1 <= Len(wire)
        /\ wire[o + 1] = 16 * 3 + h.flags /\ h.flags \in 0 .. 15
        /\ QoS(h) # 3
    BY <1>1, FlaggedHeader, Zenon DEF Headed, publish
  <2>5. ByteAhead(r, g, 0, o, 5)
    <3>1. 0 \in Early /\ 5 \in Nat /\ 5 >= 1 BY SMT DEF Early
    <3> QED BY <1>1, <1>3, <2>4, <3>1, Zenon DEF ByteAhead, Start
  <2>6. ByteTaken(r, u, g, 0, o, 5) BY <2>5, ReadByteBack
  <2> HIDE DEF u, g
  <2>7. CASE At(u, g, 0, o, 5) /\ Waits(u)
    <3>1. q = u BY <2>3, <2>7, Zenon DEF Waits, Continues
    <3>2. Start(u, h, o) BY <2>7, Zenon DEF Start, g
    <3> QED BY <2>6, <2>7, <3>1, <3>2, Zenon DEF ByteTaken, Opening
  <2>8. CASE /\ At(u, g, 0 + 1, o + 1, 5 - 1)
             /\ u.ok /\ u.out = wire[o + 1]
    <3>1. 0 + 1 = 1 OBVIOUS
    <3>2. At(u, g, 1, o + 1, 5 - 1) BY <2>8, <3>1, Zenon
    <3>3. PICK f \in 0 .. 15 : f = h.flags BY <2>4, Zenon
    <3>4. u.out % 16 = f /\ (u.out \div 2) % 4 = (f \div 2) % 4
      BY <2>4, <2>8, <3>3, FlagBits
    <3>5. Continues(u) BY <2>8, Zenon DEF At, Continues
    <3>6. (u.out \div 2) % 4 # 3 BY <2>4, <3>3, <3>4, Zenon DEF QoS
    <3>7. q = c BY <2>2, <3>5, <3>6, Zenon
    <3>8. d = Flagged(h)
      BY <3>2, <3>3, <3>4, Zenon DEF At, Flagged, g
    <3>9. Reads(u, c)
      <4>1. Good(u) BY <3>2, Zenon DEF At
      <4>2. Reads(u, [u EXCEPT !.read_header.flags = u.out % 16])
        BY <3>4, <4>1, FlagsReads
      <4>3. c = [u EXCEPT !.read_header.flags = u.out % 16] BY Zenon
      <4> QED BY <4>2, <4>3, Zenon
    <3> HIDE DEF d
    <3>10. /\ At(c, d, 1, o + 1, 5 - 1) /\ Stop(c) = Stop(u)
           /\ c.ok = u.ok
      BY <3>2, <3>9, AtHeader
    <3> HIDE DEF c
    <3>11. InLength(c, d, v, o + 1) BY <1>1, <3>10, LengthNext, Zenon
    <3> QED BY <2>6, <2>8, <3>7, <3>8, <3>10, <3>11, Zenon DEF ByteTaken
  <2> QED BY <2>6, <2>7, <2>8, Zenon DEF ByteTaken
<1> QED BY <1>1, <1>2, <1>3, Zenon DEF Opening

(* The remaining length of a PUBLISH or SUBACK is what is left of it,      *)
LEMMA RemainingBack ==
  ASSUME NEW h, NEW v, NEW o, NEW b, Headed(h, v, o, b), NEW r, r.ok,
         InLength(r, Flagged(h), v, o + 1), NEW q, q = ReadRemaining(r)
  PROVE  OpeningTaken(r, q, h, v, o, b, v)
<1> DEFINE u == ReadVariableInteger(r)
           c == [u EXCEPT !.remaining_size = u.out]
           g == Flagged(h)
<1>1. r.sequence = 1 BY Zenon DEF InLength
<1>2. q = IF Continues(u) THEN c ELSE u BY <1>1 DEF ReadRemaining, Then
<1>3. LengthAhead(r, g, v, o + 1) BY Zenon DEF LengthAhead, Headed
<1>4. LengthTaken(r, u, g, v, o + 1) BY <1>3, LengthBack
<1>5. b = (o + 1) + VariableLength(v) BY Zenon DEF Headed
<1> HIDE DEF u, g
<1>6. CASE InLength(u, g, v, o + 1) /\ Waits(u)
  <2>1. q = u BY <1>2, <1>6, Zenon DEF Waits, Continues
  <2> QED
    BY <1>4, <1>6, <2>1, Zenon DEF LengthTaken, OpeningTaken, Opening, g
<1>7. CASE /\ At(u, g, 2, b, 4 - VariableLength(v)) /\ u.ok /\ u.out = v
  <2>1. q = c BY <1>2, <1>7, Zenon DEF At, Continues
  <2>2. u.out \in Below(WordMod)
    <3>1. v \in Nat /\ v < WordMod
      BY GeneralAssumption
      DEF GeneralAssumption, Headed, Variable, Below
    <3> QED BY <1>7, <3>1 DEF Below
  <2>3. /\ At(c, g, 2, b, u.out) /\ Stop(c) = Stop(u) /\ c.ok = u.ok
    BY <1>7, <2>2, AtRemaining
  <2> HIDE DEF c
  <2> QED
    BY <1>4, <1>7, <2>1, <2>3, Zenon DEF LengthTaken, OpeningTaken, g
<1> QED BY <1>4, <1>5, <1>6, <1>7, Zenon DEF LengthTaken

(* others have a remaining length of their own                             *)
LEMMA ExactBack ==
  ASSUME NEW h, NEW v, NEW o, NEW b, Headed(h, v, o, b), NEW r, r.ok,
         InLength(r, Flagged(h), v, o + 1), NEW q, q = ReadLength(r, v)
  PROVE  OpeningTaken(r, q, h, v, o, b, 4 - VariableLength(v))
<1> DEFINE u == ReadVariableInteger(r)
           g == Flagged(h)
<1>1. r.sequence = 1 BY Zenon DEF InLength
<1>2. /\ Continues(u) /\ u.out = v => q = u
      /\ ~Continues(u) => q = u
  BY <1>1, Zenon DEF ReadLength, Then
<1>3. LengthAhead(r, g, v, o + 1) BY Zenon DEF LengthAhead, Headed
<1>4. LengthTaken(r, u, g, v, o + 1) BY <1>3, LengthBack
<1>5. b = (o + 1) + VariableLength(v) BY Zenon DEF Headed
<1> HIDE DEF u, g
<1>6. CASE InLength(u, g, v, o + 1) /\ Waits(u)
  <2>1. q = u BY <1>2, <1>6, Zenon DEF Waits, Continues
  <2> QED
    BY <1>4, <1>6, <2>1, Zenon DEF LengthTaken, OpeningTaken, Opening, g
<1>7. CASE /\ At(u, g, 2, b, 4 - VariableLength(v)) /\ u.ok /\ u.out = v
  <2>1. q = u BY <1>2, <1>7, Zenon DEF At, Continues
  <2> QED BY <1>4, <1>7, <2>1, Zenon DEF LengthTaken, OpeningTaken, g
<1> QED BY <1>4, <1>5, <1>6, <1>7, Zenon DEF LengthTaken

(* and the acknowledgements of a PUBLISH one of two.                       *)
LEMMA AckLengthBack ==
  ASSUME NEW h, NEW o, NEW b, Headed(h, 2, o, b), NEW r, r.ok,
         InLength(r, Flagged(h), 2, o + 1), NEW q, q = ReadAckLength(r)
  PROVE  OpeningTaken(r, q, h, 2, o, b, 2)
<1> DEFINE u == ReadLength(r, 2)
           c == [u EXCEPT !.remaining_size = 2]
<1>1. r.sequence = 1 BY Zenon DEF InLength
<1>2. q = IF Continues(u) THEN c ELSE u BY <1>1 DEF ReadAckLength, Then
<1>3. OpeningTaken(r, u, h, 2, o, b, 4 - VariableLength(2))
  BY ExactBack
<1> HIDE DEF u
<1>4. CASE Opening(u, h, 2, o) /\ Waits(u)
  <2>1. q = u BY <1>2, <1>4, Zenon DEF Waits, Continues
  <2> QED BY <1>3, <1>4, <2>1, Zenon DEF OpeningTaken
<1>5. CASE At(u, Flagged(h), 2, b, 4 - VariableLength(2)) /\ u.ok
  <2>1. q = c BY <1>2, <1>5, Zenon DEF At, Continues
  <2>2. 2 \in Below(WordMod) BY Widths DEF Below
  <2>3. /\ At(c, Flagged(h), 2, b, 2) /\ Stop(c) = Stop(u) /\ c.ok = u.ok
    BY <1>5, <2>2, AtRemaining
  <2> HIDE DEF c
  <2> QED BY <1>3, <1>5, <2>1, <2>3, Zenon DEF OpeningTaken
<1> QED BY <1>3, <1>4, <1>5, Zenon DEF OpeningTaken

-----------------------------------------------------------------------------
(* The header has been read, and `size' bytes follow it.                   *)
Read(q, h, e, size) ==
  /\ Good(q) /\ q.good /\ q.ok /\ q.ec = "none"
  /\ q.read_header = h /\ q.pos = e
  /\ h.index = publish => q.remaining_size = size

(* Acknowledgements: whose identifier comes after the remaining length.    *)
AckLeft(h) == IF h.index = unsuback THEN 3 ELSE 2

AckPart(r, h, o, b) ==
  \/ Opening(r, h, 2, o)
  \/ InShort(r, Flagged(h), 2, h.packet_identifier, b, AckLeft(h))

AckAhead(r, h, o, b) ==
  /\ Headed(h, 2, o, b) /\ AckPart(r, h, o, b) /\ r.ok /\ Within(r)
  /\ h.index \notin {publish, connack, suback, pingresp}
  /\ Spells(b, WriteUint16(h.packet_identifier))
  /\ Unsigned(h.packet_identifier)
  /\ h = [Flagged(h) EXCEPT !.packet_identifier = h.packet_identifier]

AckTaken(r, q, h, o, b) ==
  /\ Stop(q) = Stop(r)
  /\ \/ AckPart(q, h, o, b) /\ Waits(q)
     \/ Read(q, h, b + 2, 0)

(* A small remaining length takes one byte.                                *)
LEMMA SmallLength ==
  ASSUME NEW v \in 0 .. 127
  PROVE  VariableLength(v) = 1 /\ v \in Variable
<1>1. v \in Variable BY SMT DEF Variable, Below
<1>2. PICK n \in 1 .. 4 : /\ n = VariableLength(v)
                          /\ n = 1 \/ v >= 128 ^ (n - 1)
  BY <1>1, LengthOf
<1>3. n = 1 \/ n - 1 = 1 \/ n - 1 = 2 \/ n - 1 = 3 OBVIOUS
<1>4. /\ ~(v >= 128 ^ 1) /\ ~(v >= 128 ^ 2) /\ ~(v >= 128 ^ 3)
  BY Powers, SMT
<1> QED BY <1>1, <1>2, <1>3, <1>4, Zenon

(* Between two fields one is at the start of a 16-bit integer.             *)
LEMMA AtShort ==
  ASSUME NEW u, NEW h, NEW s, NEW p, NEW m \in Nat, At(u, h, s, p, m),
         NEW v
  PROVE  InShort(u, h, s, v, p, m)
<1>1. /\ Good(u) /\ u.good /\ u.ec = "none" /\ u.read_header = h
      /\ u.sequence = s /\ u.pos = p /\ u.remaining_size = m
      /\ u.data0 = 0 /\ u.data1 = 0
  BY Zenon DEF At
<1>2. p \in Nat BY <1>1, Fields DEF Good
<1>3. p = p + 0 /\ m = m - 0 BY <1>2
<1>4. HalfShort(u, v, p, m) BY <1>1, <1>3, Zenon DEF HalfShort
<1> QED BY <1>1, <1>4, Zenon DEF InShort

(* The identifier ends the packet.                                         *)
LEMMA AckRest ==
  ASSUME NEW h, NEW o, NEW b, NEW r, AckAhead(r, h, o, b),
         NEW u, u.ok, Stop(u) = Stop(r),
         InShort(u, Flagged(h), 2, h.packet_identifier, b, AckLeft(h))
  PROVE  AckTaken(r, ReadIdentifier(u), h, o, b)
<1> DEFINE q == ReadIdentifier(u)
           g == Flagged(h)
           v == h.packet_identifier
           m == AckLeft(h)
           d == [g EXCEPT !.packet_identifier = v]
<1>1. /\ h \in Header /\ Within(r) /\ Spells(b, WriteUint16(v))
      /\ Unsigned(v) /\ h.index # publish /\ h = d
  BY Zenon DEF AckAhead, Headed, AckPart
<1>2. Within(u) BY <1>1, Zenon DEF Within
<1>3. v \in Short BY <1>1 DEF Header, Short
<1>4. 2 \in Early /\ m \in Nat /\ m >= 2 BY SMT DEF Early, AckLeft
<1> HIDE DEF g, v, m
<1>5. ShortAhead(u, g, 2, v, b, m)
  BY <1>1, <1>2, <1>3, <1>4, Zenon DEF ShortAhead, g, v, m
<1>6. IdentifierTaken(u, q, g, 2, v, b, m) BY <1>5, IdentifierBack
<1> HIDE DEF q
<1>7. CASE InShort(q, g, 2, v, b, m) /\ Waits(q)
  BY <1>6, <1>7, Zenon DEF IdentifierTaken, AckTaken, AckPart, g, v, m, q
<1>8. CASE At(q, d, 2 + 1, b + 2, m - 2) /\ q.ok
  <2>1. Read(q, h, b + 2, 0) BY <1>1, <1>8, Zenon DEF At, Read
  <2> QED BY <1>6, <2>1, Zenon DEF IdentifierTaken, AckTaken, q
<1> QED BY <1>6, <1>7, <1>8, Zenon DEF IdentifierTaken, q

(* PUBACK, PUBREC, PUBREL and PUBCOMP.                                     *)
LEMMA AckBack ==
  ASSUME NEW h, NEW o, NEW b, NEW r, AckAhead(r, h, o, b),
         h.index # unsuback
  PROVE  AckTaken(r, ReadAck(r, h.index), h, o, b)
<1> DEFINE t == ReadType(r, h.index)
           u == IF Continues(t) THEN ReadAckLength(t) ELSE t
           q == ReadAck(r, h.index)
<1>1. q = IF Continues(u) THEN ReadIdentifier(u) ELSE u
  BY DEF ReadAck, Then
<1>2. /\ Headed(h, 2, o, b) /\ r.ok /\ h.index # publish
      /\ AckPart(r, h, o, b)
  BY Zenon DEF AckAhead
<1>3. AckLeft(h) = 2 BY Zenon DEF AckLeft
<1> HIDE DEF q
<1>4. CASE InShort(r, Flagged(h), 2, h.packet_identifier, b, AckLeft(h))
  <2>1. r.sequence = 2 /\ r.ec = "none"
    BY <1>4, Zenon DEF InShort, HalfShort
  <2>2. t = r BY <2>1 DEF ReadType
  <2>3. u = r BY <2>1, <2>2 DEF ReadAckLength
  <2>4. q = ReadIdentifier(r)
    BY <1>1, <1>2, <2>1, <2>3, Zenon DEF Continues
  <2> QED BY <1>2, <1>4, <2>4, AckRest, Zenon DEF q
<1>5. CASE Opening(r, h, 2, o)
  <2>1. OpeningAhead(r, h, 2, o, b) BY <1>2, <1>5, Zenon DEF OpeningAhead
  <2>2. /\ Stop(t) = Stop(r)
        /\ \/ Opening(t, h, 2, o) /\ Waits(t)
           \/ InLength(t, Flagged(h), 2, o + 1) /\ t.ok
    BY <1>2, <2>1, TypeBack
  <2> HIDE DEF t
  <2>3. CASE Opening(t, h, 2, o) /\ Waits(t)
    <3>1. ~Continues(t) BY <2>3, Zenon DEF Waits, Continues
    <3>2. q = t BY <1>1, <3>1, Zenon
    <3> QED BY <2>2, <2>3, <3>2, Zenon DEF AckTaken, AckPart, q
  <2>4. CASE InLength(t, Flagged(h), 2, o + 1) /\ t.ok
    <3>1. Continues(t)
      BY <2>4, Zenon DEF Continues, InLength, Half, Partial
    <3>2. u = ReadAckLength(t) BY <3>1, Zenon
    <3>3. OpeningTaken(t, u, h, 2, o, b, 2)
      BY <1>2, <2>4, <3>2, AckLengthBack
    <3> HIDE DEF u
    <3>4. CASE Opening(u, h, 2, o) /\ Waits(u)
      <4>1. ~Continues(u) BY <3>4, Zenon DEF Waits, Continues
      <4>2. q = u BY <1>1, <4>1, Zenon
      <4> QED
        BY <2>2, <3>3, <3>4, <4>2, Zenon
        DEF AckTaken, AckPart, OpeningTaken, q
    <3>5. CASE At(u, Flagged(h), 2, b, 2) /\ u.ok
      <4>1. Continues(u) BY <3>5, Zenon DEF At, Continues
      <4>2. q = ReadIdentifier(u) BY <1>1, <4>1, Zenon
      <4>3. InShort(u, Flagged(h), 2, h.packet_identifier, b, AckLeft(h))
        BY <1>3, <3>5, AtShort
      <4>4. Stop(u) = Stop(r) BY <2>2, <3>3, Zenon DEF OpeningTaken
      <4> QED BY <3>5, <4>2, <4>3, <4>4, AckRest, Zenon DEF q
    <3> QED BY <3>3, <3>4, <3>5, Zenon DEF OpeningTaken
  <2> QED BY <2>2, <2>3, <2>4, Zenon
<1> QED BY <1>2, <1>4, <1>5, Zenon DEF AckPart, q

(* UNSUBACK.                                                               *)
LEMMA UnsubackBack ==
  ASSUME NEW h, NEW o, NEW b, NEW r, AckAhead(r, h, o, b),
         h.index = unsuback
  PROVE  AckTaken(r, ReadUnsuback(r), h, o, b)
<1> DEFINE t == ReadType(r, h.index)
           u == IF Continues(t) THEN ReadLength(t, 2) ELSE t
           q == ReadUnsuback(r)
<1>1. q = IF Continues(u)
          THEN IF u.sequence # 2 THEN Wait(u) ELSE ReadIdentifier(u)
          ELSE u
  BY DEF ReadUnsuback, Then
<1>2. /\ Headed(h, 2, o, b) /\ r.ok /\ h.index # publish
      /\ AckPart(r, h, o, b)
  BY Zenon DEF AckAhead
<1>3. AckLeft(h) = 3 /\ 4 - VariableLength(2) = 3
  BY SmallLength DEF AckLeft
<1> HIDE DEF q
<1>4. CASE InShort(r, Flagged(h), 2, h.packet_identifier, b, AckLeft(h))
  <2>1. r.sequence = 2 /\ r.ec = "none"
    BY <1>4, Zenon DEF InShort, HalfShort
  <2>2. t = r BY <2>1 DEF ReadType
  <2>3. u = r BY <2>1, <2>2 DEF ReadLength
  <2>4. q = ReadIdentifier(r)
    BY <1>1, <1>2, <2>1, <2>3, Zenon DEF Continues
  <2> QED BY <1>2, <1>4, <2>4, AckRest, Zenon DEF q
<1>5. CASE Opening(r, h, 2, o)
  <2>1. OpeningAhead(r, h, 2, o, b) BY <1>2, <1>5, Zenon DEF OpeningAhead
  <2>2. /\ Stop(t) = Stop(r)
        /\ \/ Opening(t, h, 2, o) /\ Waits(t)
           \/ InLength(t, Flagged(h), 2, o + 1) /\ t.ok
    BY <1>2, <2>1, TypeBack
  <2> HIDE DEF t
  <2>3. CASE Opening(t, h, 2, o) /\ Waits(t)
    <3>1. ~Continues(t) BY <2>3, Zenon DEF Waits, Continues
    <3>2. q = t BY <1>1, <3>1, Zenon
    <3> QED BY <2>2, <2>3, <3>2, Zenon DEF AckTaken, AckPart, q
  <2>4. CASE InLength(t, Flagged(h), 2, o + 1) /\ t.ok
    <3>1. Continues(t)
      BY <2>4, Zenon DEF Continues, InLength, Half, Partial
    <3>2. u = ReadLength(t, 2) BY <3>1, Zenon
    <3>3. OpeningTaken(t, u, h, 2, o, b, 4 - VariableLength(2))
      BY <1>2, <2>4, <3>2, ExactBack
    <3> HIDE DEF u
    <3>4. CASE Opening(u, h, 2, o) /\ Waits(u)
      <4>1. ~Continues(u) BY <3>4, Zenon DEF Waits, Continues
      <4>2. q = u BY <1>1, <4>1, Zenon
      <4> QED
        BY <2>2, <3>3, <3>4, <4>2, Zenon
        DEF AckTaken, AckPart, OpeningTaken, q
    <3>5. CASE At(u, Flagged(h), 2, b, 4 - VariableLength(2)) /\ u.ok
      <4>1. Continues(u) /\ u.sequence = 2
        BY <3>5, Zenon DEF At, Continues
      <4>2. q = ReadIdentifier(u) BY <1>1, <4>1, Zenon
      <4>3. InShort(u, Flagged(h), 2, h.packet_identifier, b, AckLeft(h))
        BY <1>3, <3>5, AtShort
      <4>4. Stop(u) = Stop(r) BY <2>2, <3>3, Zenon DEF OpeningTaken
      <4> QED BY <3>5, <4>2, <4>3, <4>4, AckRest, Zenon DEF q
    <3> QED BY <3>3, <3>4, <3>5, Zenon DEF OpeningTaken
  <2> QED BY <2>2, <2>3, <2>4, Zenon
<1> QED BY <1>2, <1>4, <1>5, Zenon DEF AckPart, q

-----------------------------------------------------------------------------
(* PINGRESP: nothing after the remaining length.                           *)
PingAhead(r, h, o, b) ==
  /\ OpeningAhead(r, h, 0, o, b) /\ h.index = pingresp /\ h = Flagged(h)

PingTaken(r, q, h, o, b) ==
  /\ Stop(q) = Stop(r)
  /\ \/ Opening(q, h, 0, o) /\ Waits(q)
     \/ Read(q, h, b, 0)

(* A PINGRESP is read back, or the call waits inside its two bytes.      *)
LEMMA PingrespBack ==
  ASSUME NEW h, NEW o, NEW b, NEW r, PingAhead(r, h, o, b)
  PROVE  PingTaken(r, ReadPingresp(r), h, o, b)
<1> DEFINE t == ReadType(r, h.index)
           u == ReadLength(t, 0)
           q == ReadPingresp(r)
<1>1. /\ Headed(h, 0, o, b) /\ OpeningAhead(r, h, 0, o, b)
      /\ h.index = pingresp /\ h = Flagged(h)
  BY Zenon DEF PingAhead, OpeningAhead
<1>2. q = IF Continues(t) THEN u ELSE t
  BY <1>1 DEF ReadPingresp, Then
<1>3. h.index # publish BY <1>1 DEF publish, pingresp
<1>4. /\ Stop(t) = Stop(r)
      /\ \/ Opening(t, h, 0, o) /\ Waits(t)
         \/ InLength(t, Flagged(h), 0, o + 1) /\ t.ok
  BY <1>1, <1>3, TypeBack
<1> HIDE DEF t, q
<1>5. CASE Opening(t, h, 0, o) /\ Waits(t)
  <2>1. q = t BY <1>2, <1>5, Zenon DEF Waits, Continues
  <2> QED BY <1>4, <1>5, <2>1, Zenon DEF PingTaken, q
<1>6. CASE InLength(t, Flagged(h), 0, o + 1) /\ t.ok
  <2>1. q = u
    BY <1>2, <1>6, Zenon DEF Continues, InLength, Half, Partial
  <2>2. OpeningTaken(t, u, h, 0, o, b, 4 - VariableLength(0))
    BY <1>1, <1>6, ExactBack
  <2> HIDE DEF u
  <2>3. CASE Opening(u, h, 0, o) /\ Waits(u)
    BY <1>4, <2>1, <2>2, <2>3, Zenon DEF OpeningTaken, PingTaken, q
  <2>4. CASE At(u, Flagged(h), 2, b, 4 - VariableLength(0)) /\ u.ok
    <3>1. Read(u, h, b, 0) BY <1>1, <1>3, <2>4, Zenon DEF At, Read
    <3> QED BY <1>4, <2>1, <2>2, <3>1, Zenon DEF OpeningTaken, PingTaken, q
  <2> QED BY <2>2, <2>3, <2>4, Zenon DEF OpeningTaken
<1> QED BY <1>4, <1>5, <1>6, Zenon

(* CONNACK: two bytes after it.                                            *)
Present(h) == [Flagged(h) EXCEPT !.session_present = h.session_present]

ConnackPart(r, h, o, b) ==
  \/ Opening(r, h, 2, o)
  \/ At(r, Flagged(h), 2, b, 3)
  \/ At(r, Present(h), 3, b + 1, 2)

ConnackAhead(r, h, o, b) ==
  /\ Headed(h, 2, o, b) /\ ConnackPart(r, h, o, b) /\ r.ok
  /\ h.index = connack /\ b \in Nat /\ b + 2 <= Len(wire)
  /\ wire[b + 1] = h.session_present /\ wire[b + 2] = h.return_code
  /\ h = [Present(h) EXCEPT !.return_code = h.return_code]

ConnackTaken(r, q, h, o, b) ==
  /\ Stop(q) = Stop(r)
  /\ \/ ConnackPart(q, h, o, b) /\ Waits(q)
     \/ Read(q, h, b + 2, 0)

(* The return code ends it.                                                *)
LEMMA ConnackCodeBack ==
  ASSUME NEW h, NEW o, NEW b, NEW r, ConnackAhead(r, h, o, b),
         NEW u, u.ok, Stop(u) = Stop(r), At(u, Present(h), 3, b + 1, 2)
  PROVE  ConnackTaken(r, ReadConnackCode(u), h, o, b)
<1> DEFINE x == ReadByte(u)
           d == [x.read_header EXCEPT !.return_code = x.out]
           c == [x EXCEPT !.read_header = d]
           q == ReadConnackCode(u)
           p == b + 1
<1>1. /\ h \in Header /\ h.index = connack /\ b \in Nat
      /\ b + 2 <= Len(wire) /\ wire[b + 2] = h.return_code
      /\ h = [Present(h) EXCEPT !.return_code = h.return_code]
  BY Zenon DEF ConnackAhead, Headed
<1>2. u.sequence = 3 BY Zenon DEF At
<1>3. Continues(x) /\ ~(x.out > 5) => q = c
  BY <1>2, Zenon DEF ReadConnackCode, Then
<1>4. ~Continues(x) => q = x BY <1>2 DEF ReadConnackCode, Then
<1>5. p + 1 = b + 2 /\ 3 + 1 = 4 /\ 2 - 1 = 1 /\ h.return_code \in 0 .. 5
  BY <1>1 DEF Header
<1>6. ByteAhead(u, Present(h), 3, p, 2)
  <2>1. 3 \in Early /\ 2 \in Nat /\ 2 >= 1 BY SMT DEF Early
  <2> HIDE DEF p
  <2> QED BY <1>1, <1>5, <2>1, Zenon DEF ByteAhead, p
<1>7. ByteTaken(u, x, Present(h), 3, p, 2) BY <1>6, ReadByteBack
<1> HIDE DEF x, q, p
<1>8. CASE At(x, Present(h), 3, p, 2) /\ Waits(x)
  <2>1. q = x BY <1>4, <1>8, Zenon DEF Waits, Continues
  <2> QED
    BY <1>7, <1>8, <2>1, Zenon
    DEF ByteTaken, ConnackTaken, ConnackPart, q, p
<1>9. CASE /\ At(x, Present(h), 3 + 1, p + 1, 2 - 1)
           /\ x.ok /\ x.out = wire[p + 1]
  <2>1. x.out = h.return_code BY <1>1, <1>5, <1>9, Zenon
  <2>2. ~(x.out > 5) BY <1>5, <2>1
  <2>3. q = c BY <1>3, <1>9, <2>2, Zenon DEF At, Continues
  <2>4. d = h BY <1>1, <1>9, <2>1, Zenon DEF At
  <2>5. Reads(x, c)
    <3>1. Good(x) BY <1>9, Zenon DEF At
    <3>2. Reads(x, [x EXCEPT !.read_header.return_code = x.out])
      BY <1>5, <2>1, <3>1, CodeReads
    <3>3. c = [x EXCEPT !.read_header.return_code = x.out] BY Zenon
    <3> QED BY <3>2, <3>3, Zenon
  <2> HIDE DEF d
  <2>6. /\ At(c, d, 3 + 1, p + 1, 2 - 1) /\ Stop(c) = Stop(x)
        /\ c.ok = x.ok
    BY <1>9, <2>5, AtHeader
  <2> HIDE DEF c
  <2>7. h.index # publish BY <1>1 DEF connack, publish
  <2>8. Read(c, h, b + 2, 0)
    BY <1>5, <1>9, <2>4, <2>6, <2>7, Zenon DEF At, Read
  <2> QED
    BY <1>7, <2>3, <2>6, <2>8, Zenon DEF ByteTaken, ConnackTaken, q
<1> QED BY <1>7, <1>8, <1>9, Zenon DEF ByteTaken

(* The flags come before it.                                               *)
LEMMA ConnackFlagsBack ==
  ASSUME NEW h, NEW o, NEW b, NEW r, ConnackAhead(r, h, o, b),
         NEW u, u.ok, Stop(u) = Stop(r), At(u, Flagged(h), 2, b, 3),
         NEW q, q = ReadConnackFlags(u)
  PROVE  /\ Stop(q) = Stop(r)
         /\ \/ At(q, Flagged(h), 2, b, 3) /\ Waits(q)
            \/ At(q, Present(h), 3, b + 1, 2) /\ q.ok
<1> DEFINE x == ReadByte(u)
           d == [x.read_header EXCEPT !.session_present = x.out]
           c == [x EXCEPT !.read_header = d]
<1>1. /\ h \in Header /\ b \in Nat /\ b + 2 <= Len(wire)
      /\ wire[b + 1] = h.session_present
  BY Zenon DEF ConnackAhead, Headed
<1>2. u.sequence = 2 BY Zenon DEF At
<1>3. Continues(x) /\ ~(x.out > 1) => q = c
  BY <1>2, Zenon DEF ReadConnackFlags, Then
<1>4. ~Continues(x) => q = x BY <1>2 DEF ReadConnackFlags, Then
<1>5. 2 + 1 = 3 /\ 3 - 1 = 2 /\ h.session_present \in 0 .. 1
  BY <1>1 DEF Header
<1>6. ByteAhead(u, Flagged(h), 2, b, 3)
  <2>1. 2 \in Early /\ 3 \in Nat /\ 3 >= 1 BY SMT DEF Early
  <2>2. b + 1 <= Len(wire)
    <3>1. wire \in Seq(Byte) BY Zenon DEF At, Good
    <3>2. Len(wire) \in Nat BY <3>1
    <3> QED BY <1>1, <3>2
  <2> QED BY <2>1, <2>2, Zenon DEF ByteAhead
<1>7. ByteTaken(u, x, Flagged(h), 2, b, 3) BY <1>6, ReadByteBack
<1> HIDE DEF x
<1>8. CASE At(x, Flagged(h), 2, b, 3) /\ Waits(x)
  <2>1. q = x BY <1>4, <1>8, Zenon DEF Waits, Continues
  <2> QED BY <1>7, <1>8, <2>1, Zenon DEF ByteTaken
<1>9. CASE /\ At(x, Flagged(h), 2 + 1, b + 1, 3 - 1)
           /\ x.ok /\ x.out = wire[b + 1]
  <2>1. x.out = h.session_present BY <1>1, <1>9, Zenon
  <2>2. ~(x.out > 1) BY <1>5, <2>1
  <2>3. q = c BY <1>3, <1>9, <2>2, Zenon DEF At, Continues
  <2>4. d = Present(h) BY <1>9, <2>1, Zenon DEF At, Present
  <2>5. Reads(x, c)
    <3>1. Good(x) BY <1>9, Zenon DEF At
    <3>2. Reads(x, [x EXCEPT !.read_header.session_present = x.out])
      BY <1>5, <2>1, <3>1, SessionReads
    <3>3. c = [x EXCEPT !.read_header.session_present = x.out] BY Zenon
    <3> QED BY <3>2, <3>3, Zenon
  <2> HIDE DEF d
  <2>6. /\ At(c, d, 2 + 1, b + 1, 3 - 1) /\ Stop(c) = Stop(x)
        /\ c.ok = x.ok
    BY <1>9, <2>5, AtHeader
  <2> HIDE DEF c
  <2> QED
    BY <1>5, <1>7, <1>9, <2>3, <2>4, <2>6, Zenon DEF ByteTaken
<1> QED BY <1>7, <1>8, <1>9, Zenon DEF ByteTaken

(* CONNACK as a whole.                                                     *)
LEMMA ConnackBack ==
  ASSUME NEW h, NEW o, NEW b, NEW r, ConnackAhead(r, h, o, b)
  PROVE  ConnackTaken(r, ReadConnack(r), h, o, b)
<1> DEFINE t == ReadType(r, h.index)
           u == IF Continues(t) THEN ReadLength(t, 2) ELSE t
           x == IF Continues(u) THEN ReadConnackFlags(u) ELSE u
           q == ReadConnack(r)
<1>1. /\ Headed(h, 2, o, b) /\ r.ok /\ h.index = connack
      /\ ConnackPart(r, h, o, b)
  BY Zenon DEF ConnackAhead
<1>2. q = IF Continues(x) THEN ReadConnackCode(x) ELSE x
  BY <1>1 DEF ReadConnack, Then
<1>3. h.index # publish /\ 4 - VariableLength(2) = 3
  BY <1>1, SmallLength DEF connack, publish
<1> HIDE DEF q
<1>4. ASSUME Continues(u), u.ok, Stop(u) = Stop(r),
             At(u, Flagged(h), 2, b, 3)
      PROVE  ConnackTaken(r, q, h, o, b)
  <2> HIDE DEF u
  <2>1. x = ReadConnackFlags(u) BY <1>4, Zenon
  <2>2. /\ Stop(x) = Stop(r)
        /\ \/ At(x, Flagged(h), 2, b, 3) /\ Waits(x)
           \/ At(x, Present(h), 3, b + 1, 2) /\ x.ok
    BY <1>4, <2>1, ConnackFlagsBack
  <2> HIDE DEF x
  <2>3. CASE At(x, Flagged(h), 2, b, 3) /\ Waits(x)
    <3>1. q = x BY <1>2, <2>3, Zenon DEF Waits, Continues
    <3> QED
      BY <2>2, <2>3, <3>1, Zenon DEF ConnackTaken, ConnackPart
  <2>4. CASE At(x, Present(h), 3, b + 1, 2) /\ x.ok
    <3>1. q = ReadConnackCode(x)
      BY <1>2, <2>4, Zenon DEF At, Continues
    <3> QED BY <2>2, <2>4, <3>1, ConnackCodeBack
  <2> QED BY <2>2, <2>3, <2>4, Zenon
<1>5. CASE At(r, Present(h), 3, b + 1, 2)
  <2>1. r.sequence = 3 /\ r.ec = "none" BY <1>5, Zenon DEF At
  <2>2. t = r BY <2>1 DEF ReadType
  <2>3. u = r BY <2>1, <2>2 DEF ReadLength
  <2>4. x = r BY <2>1, <2>3 DEF ReadConnackFlags
  <2>5. q = ReadConnackCode(r)
    BY <1>1, <1>2, <2>1, <2>4, Zenon DEF Continues
  <2> QED BY <1>1, <1>5, <2>5, ConnackCodeBack, Zenon DEF q
<1>6. CASE At(r, Flagged(h), 2, b, 3)
  <2>1. r.sequence = 2 /\ r.ec = "none" BY <1>6, Zenon DEF At
  <2>2. t = r BY <2>1 DEF ReadType
  <2>3. u = r BY <2>1, <2>2 DEF ReadLength
  <2>4. Continues(u) BY <1>1, <2>1, <2>3, Zenon DEF Continues
  <2> HIDE DEF u
  <2> QED BY <1>1, <1>4, <1>6, <2>3, <2>4, Zenon DEF q
<1>7. CASE Opening(r, h, 2, o)
  <2>1. OpeningAhead(r, h, 2, o, b) BY <1>1, <1>7, Zenon DEF OpeningAhead
  <2>2. /\ Stop(t) = Stop(r)
        /\ \/ Opening(t, h, 2, o) /\ Waits(t)
           \/ InLength(t, Flagged(h), 2, o + 1) /\ t.ok
    BY <1>3, <2>1, TypeBack
  <2> HIDE DEF t
  <2>3. CASE Opening(t, h, 2, o) /\ Waits(t)
    <3>1. ~Continues(t) BY <2>3, Zenon DEF Waits, Continues
    <3>2. q = t BY <1>2, <3>1, Zenon
    <3> QED BY <2>2, <2>3, <3>2, Zenon DEF ConnackTaken, ConnackPart, q
  <2>4. CASE InLength(t, Flagged(h), 2, o + 1) /\ t.ok
    <3>1. Continues(t)
      BY <2>4, Zenon DEF Continues, InLength, Half, Partial
    <3>2. u = ReadLength(t, 2) BY <3>1, Zenon
    <3>3. OpeningTaken(t, u, h, 2, o, b, 4 - VariableLength(2))
      BY <1>1, <2>4, <3>2, ExactBack
    <3> HIDE DEF u
    <3>4. CASE Opening(u, h, 2, o) /\ Waits(u)
      <4>1. ~Continues(u) BY <3>4, Zenon DEF Waits, Continues
      <4>2. q = u BY <1>2, <4>1, Zenon
      <4> QED
        BY <2>2, <3>3, <3>4, <4>2, Zenon
        DEF ConnackTaken, ConnackPart, OpeningTaken, q
    <3>5. CASE At(u, Flagged(h), 2, b, 4 - VariableLength(2)) /\ u.ok
      <4>1. Continues(u) BY <3>5, Zenon DEF At, Continues
      <4>2. Stop(u) = Stop(r) BY <2>2, <3>3, Zenon DEF OpeningTaken
      <4> QED BY <1>3, <1>4, <3>5, <4>1, <4>2, Zenon DEF q
    <3> QED BY <3>3, <3>4, <3>5, Zenon DEF OpeningTaken
  <2> QED BY <2>2, <2>3, <2>4, Zenon
<1> QED BY <1>1, <1>5, <1>6, <1>7, Zenon DEF ConnackPart

-----------------------------------------------------------------------------
(* SUBACK: the identifier and then the return codes, i of which have been  *)
(* read.                                                                   *)
Numbered(h) == [Flagged(h) EXCEPT !.packet_identifier = h.packet_identifier]

Coded(h, i) ==
  [Numbered(h) EXCEPT !.return_codes = SubSeq(h.return_codes, 1, i)]

CodesAt(r, h, p, i) ==
  At(r, Coded(h, i), 3 + i, p + i, Len(h.return_codes) - i)

CodesPart(r, h, p) ==
  \E i \in Nat : i < Len(h.return_codes) /\ CodesAt(r, h, p, i)

SubackPart(r, h, v, o, b) ==
  \/ Opening(r, h, v, o)
  \/ InShort(r, Flagged(h), 2, h.packet_identifier, b, v)
  \/ CodesPart(r, h, b + 2)

(* A byte counts them.                                                     *)
Countable(codes) == Len(codes) <= 252

SubackAhead(r, h, v, o, b) ==
  /\ Headed(h, v, o, b) /\ SubackPart(r, h, v, o, b) /\ r.ok /\ Within(r)
  /\ h.index = suback /\ b \in Nat /\ v = 2 + Len(h.return_codes)
  /\ Spells(b, WriteUint16(h.packet_identifier))
  /\ Unsigned(h.packet_identifier)
  /\ Spells(b + 2, h.return_codes) /\ Countable(h.return_codes)
  /\ h = [Numbered(h) EXCEPT !.return_codes = h.return_codes]

SubackTaken(r, q, h, v, o, b) ==
  /\ Stop(q) = Stop(r)
  /\ \/ SubackPart(q, h, v, o, b) /\ Waits(q)
     \/ Read(q, h, b + v, 0)

(* What a part of the return codes changes.                                *)
Extends(r, got, q) ==
  /\ q.pos = r.pos + got /\ q.remaining_size = r.remaining_size - got
  /\ q.available = r.available - got
  /\ q.sequence = (r.sequence + got) % 256 /\ q.good = r.good
  /\ q.ok = r.ok /\ q.ec = r.ec /\ q.data0 = r.data0 /\ q.data1 = r.data1
  /\ q.read_header = [r.read_header EXCEPT
                        !.return_codes = r.read_header.return_codes
                                           \o NextBytes(r, got)]

(* TakeCodes does that.                                                    *)
LEMMA TakeCodesSets ==
  ASSUME NEW r, Good(r), NEW got, MayTake(r, got)
  PROVE  Extends(r, got, TakeCodes(r, got))
<1> DEFINE c == Consume(r, got)
           q == TakeCodes(r, got)
           n == (r.sequence + got) % 256
           g == [r.read_header EXCEPT !.return_codes =
                   r.read_header.return_codes \o NextBytes(r, got)]
<1>1. /\ Good(c) /\ c.remaining_size = r.remaining_size - got
      /\ c.pos = r.pos + got /\ c.sequence = r.sequence
      /\ c.data1 = r.data1 /\ c.read_header = r.read_header
      /\ c.good = r.good /\ c.available = r.available - got
  BY ConsumeReads DEF MayTake, Reads
<1>2. r \in ClientState BY DEF Good
<1>3. c.ok = r.ok /\ c.ec = r.ec /\ c.data0 = r.data0
  BY <1>2, Zenon DEF Consume, ClientState
<1>4. c.read_header = r.read_header /\ c.sequence = r.sequence BY <1>1
<1>5. q = [c EXCEPT !.sequence = n, !.read_header = g]
  BY <1>4, ZenonT(30) DEF TakeCodes
<1>6. c \in ClientState BY <1>1 DEF Good
<1> HIDE DEF c, g, q, n
<1>7. /\ q.good = c.good /\ q.ec = c.ec /\ q.ok = c.ok
      /\ q.sequence = n /\ q.pos = c.pos /\ q.available = c.available
      /\ q.remaining_size = c.remaining_size /\ q.data0 = c.data0
      /\ q.data1 = c.data1 /\ q.read_header = g
  BY <1>5, <1>6 DEF ClientState
<1> QED BY <1>1, <1>3, <1>7, Zenon DEF g, q, n, Extends

(* A prefix of a sequence grows by what comes next.                        *)
LEMMA PrefixGrows ==
  ASSUME NEW t \in Seq(Byte), NEW i \in Nat, NEW k \in Nat,
         i + k <= Len(t)
  PROVE  /\ SubSeq(t, 1, i) \o SubSeq(t, i + 1, i + k)
              = SubSeq(t, 1, i + k)
         /\ SubSeq(t, 1, 0) = <<>> /\ SubSeq(t, 1, Len(t)) = t
<1>1. SubSeq(t, 1, Len(t)) = t BY SubSeqFull
<1>2. SubSeq(t, 1, 0) = <<>> OBVIOUS
<1>3. PICK n \in Nat : n = Len(t) OBVIOUS
<1>4. /\ 1 \in 1 .. n + 1 /\ i \in 1 - 1 .. n /\ i + k \in i .. n
  BY <1>3
<1>5. SubSeq(t, 1, i) \o SubSeq(t, i + 1, i + k) = SubSeq(t, 1, i + k)
  BY <1>3, <1>4, ConcatAdjacentSubSeq
<1> QED BY <1>1, <1>2, <1>5

(* The headers of a SUBACK in the making.                                  *)
LEMMA CodedHeader ==
  ASSUME NEW h \in Header, NEW i
  PROVE  /\ Numbered(h) \in Header
         /\ Coded(h, i).return_codes = SubSeq(h.return_codes, 1, i)
         /\ \A j : [Coded(h, i) EXCEPT !.return_codes =
                     SubSeq(h.return_codes, 1, j)] = Coded(h, j)
<1>1. h.packet_identifier \in Short BY DEF Header, Short
<1>2. Flagged(h) \in Header BY FlaggedHeader
<1>3. Numbered(h) \in Header BY <1>1, <1>2, SetField DEF Numbered
<1>4. ASSUME NEW g, NEW x, NEW y
      PROVE  [[g EXCEPT !.return_codes = x] EXCEPT !.return_codes = y]
               = [g EXCEPT !.return_codes = y]
  BY Zenon
<1>5. ASSUME NEW g \in Header, NEW x
      PROVE  [g EXCEPT !.return_codes = x].return_codes = x
  BY DEF Header
<1>6. Coded(h, i).return_codes = SubSeq(h.return_codes, 1, i)
  BY <1>3, <1>5 DEF Coded
<1>7. \A j : [Coded(h, i) EXCEPT !.return_codes =
              SubSeq(h.return_codes, 1, j)] = Coded(h, j)
  BY <1>4, Zenon DEF Coded
<1> QED BY <1>3, <1>6, <1>7, Zenon

(* The loop over the return codes.                                         *)
CodesAhead(r, h, p, i) ==
  /\ CodesAt(r, h, p, i) /\ i \in Nat /\ i <= Len(h.return_codes) /\ r.ok
  /\ h \in Header /\ Countable(h.return_codes)
  /\ Spells(p, h.return_codes)

CodesTaken(r, q, h, p) ==
  /\ Stop(q) = Stop(r)
  /\ \/ CodesPart(q, h, p) /\ Waits(q)
     \/ CodesAt(q, h, p, Len(h.return_codes)) /\ q.ok

(* It ends with the packet or with what is available.                      *)
LEMMA CodesBack ==
  ASSUME NEW r, NEW h, NEW p, NEW i, CodesAhead(r, h, p, i)
  PROVE  CodesTaken(r, ReadReturnCodes(r), h, p)
<1> USE DEF CodesAhead
<1> SUFFICES ASSUME NEW q, q = ReadReturnCodes(r)
             PROVE  CodesTaken(r, q, h, p)
  OBVIOUS
<1>20. i \in Nat OBVIOUS
<1> DEFINE t == h.return_codes
<1>1. t \in Seq(Byte) BY DEF Header
<1>2. PICK n \in Nat : n = Len(t) BY <1>1
<1> HIDE DEF t
<1>3. /\ Good(r) /\ r.good /\ r.ec = "none" /\ r.read_header = Coded(h, i)
      /\ r.sequence = 3 + i /\ r.pos = p + i /\ r.remaining_size = n - i
      /\ r.data0 = 0 /\ r.data1 = 0
  BY <1>2, Zenon DEF CodesAt, At, t
<1>4. /\ r.available \in Nat /\ p \in Nat /\ Len(wire) \in Nat
      /\ p + n <= Len(wire) /\ n <= 252 /\ i <= n
  BY <1>2, <1>3, Fields DEF Good, Spells, Countable, t
<1>5. PICK k \in Nat : k = StdMin(r.remaining_size, r.available)
  BY <1>3, <1>4 DEF StdMin
<1>6. /\ k <= r.available /\ i + k <= n
      /\ k < n - i => k = r.available
  BY <1>3, <1>4, <1>5 DEF StdMin
<1>7. Got(r, k) = k BY <1>3, <1>4, <1>6 DEF Got, StdMin
<1> DEFINE s == TakeCodes(r, k)
<1>8. q = IF s.remaining_size # 0 THEN Wait(s) ELSE s
  <2>1. ~(k < k) OBVIOUS
  <2> QED BY <1>5, <1>7, <2>1, Zenon DEF ReadReturnCodes
<1>9. MayTake(r, k) BY <1>3, <1>4, <1>6 DEF MayTake
<1>10. Reads(r, s) BY <1>3, <1>9, TakeCodesReads
<1>11. Extends(r, k, s) BY <1>3, <1>9, TakeCodesSets
<1> HIDE DEF s
<1>12. s.read_header = Coded(h, i + k)
  <2>1. NextBytes(r, k) = SubSeq(t, i + 1, i + k)
    <3>1. Spells(p, t) BY DEF t
    <3>2. i + k <= Len(t) BY <1>2, <1>6
    <3> QED BY <1>1, <1>3, <3>1, <3>2, SpelledPart
  <2>2. SubSeq(t, 1, i) \o SubSeq(t, i + 1, i + k) = SubSeq(t, 1, i + k)
    BY <1>1, <1>2, <1>6, PrefixGrows
  <2>3. Coded(h, i).return_codes = SubSeq(t, 1, i)
    BY CodedHeader, Zenon DEF t
  <2>4. r.read_header = Coded(h, i) BY <1>3
  <2>5. r.read_header.return_codes \o NextBytes(r, k)
          = SubSeq(t, 1, i + k)
    BY <2>1, <2>2, <2>3, <2>4, Zenon
  <2>6. s.read_header = [r.read_header EXCEPT !.return_codes =
                           r.read_header.return_codes \o NextBytes(r, k)]
    BY <1>11, Zenon DEF Extends
  <2>7. s.read_header =
          [Coded(h, i) EXCEPT !.return_codes = SubSeq(t, 1, i + k)]
    BY <2>4, <2>5, <2>6, Zenon
  <2>8. [Coded(h, i) EXCEPT !.return_codes = SubSeq(t, 1, i + k)]
          = Coded(h, i + k)
    BY CodedHeader, ZenonT(60) DEF t
  <2> QED BY <2>7, <2>8, Zenon
<1>13. /\ s.sequence = 3 + (i + k) /\ s.pos = p + (i + k)
       /\ s.remaining_size = n - (i + k) /\ s.available = r.available - k
  <2>1. /\ s.sequence = ((3 + i) + k) % 256 /\ s.pos = (p + i) + k
        /\ s.remaining_size = (n - i) - k /\ s.available = r.available - k
    BY <1>3, <1>11, ZenonT(60) DEF Extends
  <2>2. ((3 + i) + k) % 256 = 3 + (i + k) BY <1>4, <1>6
  <2> QED BY <1>4, <2>1, <2>2
<1>14. /\ s.good /\ s.ec = "none" /\ s.data0 = 0 /\ s.data1 = 0 /\ s.ok
       /\ Good(s)
  BY <1>3, <1>10, <1>11, ZenonT(60) DEF Extends, Reads
<1>15. CodesAt(s, h, p, i + k)
  BY <1>2, <1>12, <1>13, <1>14, Zenon DEF CodesAt, At, t
<1>16. Stop(s) = Stop(r) BY <1>10, <1>14, SameStop
<1>17. CASE s.remaining_size = 0
  <2>1. i + k = n BY <1>4, <1>6, <1>13, <1>17
  <2>2. q = s BY <1>8, <1>17, Zenon
  <2> QED
    BY <1>2, <1>14, <1>15, <1>16, <2>1, <2>2, Zenon DEF t, CodesTaken
<1>18. CASE s.remaining_size # 0
  <2>1. i + k < n /\ s.available = 0 BY <1>4, <1>6, <1>13, <1>18
  <2>2. q = Wait(s) BY <1>8, <1>18, Zenon
  <2>3. s \in ClientState BY <1>14 DEF Good
  <2>4. /\ q.good = s.good /\ q.ec = s.ec /\ q.ok = FALSE
        /\ q.sequence = s.sequence /\ q.pos = s.pos
        /\ q.available = s.available /\ q.data0 = s.data0
        /\ q.remaining_size = s.remaining_size
        /\ q.data1 = s.data1 /\ q.read_header = s.read_header
    BY <2>2, <2>3, Zenon DEF Wait, ClientState
  <2>5. Good(q)
    <3>1. Reads(s, Wait(s)) BY <1>14, <2>1, WaitReads
    <3> QED BY <2>2, <3>1, Zenon DEF Reads
  <2>6. CodesAt(q, h, p, i + k)
    BY <1>15, <2>4, <2>5, Zenon DEF CodesAt, At
  <2>7. Waits(q) BY <2>1, <2>4, Zenon DEF Waits
  <2>8. Stop(q) = Stop(s) BY <2>4, Zenon DEF Stop
  <2>9. i + k \in Nat /\ i + k < Len(h.return_codes) BY <1>2, <2>1 DEF t
  <2>10. CodesPart(q, h, p) BY <2>6, <2>9, Zenon DEF CodesPart
  <2> QED BY <1>16, <2>7, <2>8, <2>10, Zenon DEF CodesTaken
<1> QED BY <1>17, <1>18

(* What the identifier leaves to read.                                     *)
LEMMA CodesFirst ==
  ASSUME NEW h, NEW o, NEW b, NEW v, NEW r, SubackAhead(r, h, v, o, b),
         NEW u, At(u, Numbered(h), 2 + 1, b + 2, v - 2)
  PROVE  CodesAt(u, h, b + 2, 0)
<1>1. h \in Header /\ b \in Nat /\ v = 2 + Len(h.return_codes)
  BY Zenon DEF SubackAhead, Headed
<1>2. h.return_codes \in Seq(Byte) BY <1>1 DEF Header
<1>3. PICK p \in Nat, n \in Nat : p = b + 2 /\ n = Len(h.return_codes)
  BY <1>1, <1>2
<1>4. 2 + 1 = 3 + 0 /\ v - 2 = n - 0 /\ p + 0 = p BY <1>1, <1>3
<1>5. Numbered(h) = Coded(h, 0)
  <2>1. SubSeq(h.return_codes, 1, 0) = <<>> BY <1>2
  <2>2. Numbered(h).return_codes = <<>>
    BY <1>1, FlaggedHeader DEF Numbered, Flagged, Fresh
  <2>3. ASSUME NEW g \in Header, NEW x, g.return_codes = x
        PROVE  g = [g EXCEPT !.return_codes = x]
    BY <2>3 DEF Header
  <2>4. Numbered(h) \in Header BY <1>1, CodedHeader
  <2>5. Numbered(h) = [Numbered(h) EXCEPT !.return_codes = <<>>]
    BY <2>2, <2>3, <2>4
  <2> QED BY <2>1, <2>5, Zenon DEF Coded
<1> QED BY <1>3, <1>4, <1>5, Zenon DEF CodesAt

(* The identifier and the codes.                                           *)
LEMMA SubackRest ==
  ASSUME NEW h, NEW o, NEW b, NEW v, NEW r, SubackAhead(r, h, v, o, b),
         NEW u, u.ok, Stop(u) = Stop(r),
         NEW i \in Nat, i <= Len(h.return_codes), CodesAt(u, h, b + 2, i)
  PROVE  SubackTaken(r, ReadReturnCodes(u), h, v, o, b)
<1> DEFINE q == ReadReturnCodes(u)
           n == Len(h.return_codes)
<1>1. /\ h \in Header /\ b \in Nat /\ v = 2 + n /\ h.index = suback
      /\ Spells(b + 2, h.return_codes) /\ Countable(h.return_codes)
      /\ h = [Numbered(h) EXCEPT !.return_codes = h.return_codes]
  BY Zenon DEF SubackAhead, Headed
<1>2. PICK p : p = b + 2 OBVIOUS
<1>3. /\ Stop(q) = Stop(u)
      /\ \/ CodesPart(q, h, p) /\ Waits(q)
         \/ CodesAt(q, h, p, n) /\ q.ok
  <2>1. CodesAhead(u, h, p, i) BY <1>1, <1>2, Zenon DEF CodesAhead
  <2>2. CodesTaken(u, q, h, p) BY <2>1, CodesBack
  <2> QED BY <2>2, Zenon DEF CodesTaken
<1> HIDE DEF q
<1>4. CASE CodesPart(q, h, p) /\ Waits(q)
  BY <1>2, <1>3, <1>4, Zenon DEF SubackTaken, SubackPart, q
<1>5. CASE CodesAt(q, h, p, n) /\ q.ok
  <2>1. h.return_codes \in Seq(Byte) BY <1>1 DEF Header
  <2>2. SubSeq(h.return_codes, 1, n) = h.return_codes
    BY <2>1, SubSeqFull
  <2>3. Coded(h, n) = h BY <1>1, <2>2, Zenon DEF Coded
  <2>4. p + n = b + v
    <3>1. PICK k \in Nat : k = n BY <2>1
    <3>2. PICK x \in Nat : x = b BY <1>1, Zenon
    <3>3. v = 2 + k BY <1>1, <3>1, Zenon
    <3>4. p = x + 2 BY <1>2, <3>2, Zenon
    <3>5. p + k = x + v BY <3>3, <3>4
    <3> QED BY <3>1, <3>2, <3>5, Zenon
  <2>5. h.index # publish BY <1>1 DEF suback, publish
  <2> HIDE DEF n
  <2>6. Read(q, h, b + v, 0)
    BY <1>5, <2>3, <2>4, <2>5, Zenon DEF CodesAt, At, Read
  <2> QED BY <1>3, <2>6, Zenon DEF SubackTaken, q
<1> QED BY <1>3, <1>4, <1>5, Zenon

(* SUBACK as a whole.                                                      *)
LEMMA SubackBack ==
  ASSUME NEW h, NEW o, NEW b, NEW v, NEW r, SubackAhead(r, h, v, o, b)
  PROVE  SubackTaken(r, ReadSuback(r), h, v, o, b)
<1> DEFINE t == ReadType(r, h.index)
           u == IF Continues(t) THEN ReadRemaining(t) ELSE t
           x == IF Continues(u)
                THEN IF u.sequence = 2 THEN ReadIdentifier(u) ELSE u
                ELSE u
           q == ReadSuback(r)
           id == h.packet_identifier
           g == Flagged(h)
<1>1. /\ Headed(h, v, o, b) /\ r.ok /\ h.index = suback
      /\ SubackPart(r, h, v, o, b) /\ h \in Header /\ Within(r)
      /\ Spells(b, WriteUint16(id)) /\ Unsigned(id)
      /\ v = 2 + Len(h.return_codes) /\ b \in Nat
  BY Zenon DEF SubackAhead, Headed
<1>2. q = IF Continues(x) THEN ReadReturnCodes(x) ELSE x
  BY <1>1 DEF ReadSuback, Then
<1>3. h.index # publish BY <1>1 DEF suback, publish
<1>8. PICK n \in Nat : n = Len(h.return_codes)
  <2>1. h.return_codes \in Seq(Byte) BY <1>1 DEF Header
  <2> QED BY <2>1
<1> SUFFICES SubackTaken(r, q, h, v, o, b) OBVIOUS
<1> HIDE DEF q
<1>4. ASSUME Continues(u), u.ok, Stop(u) = Stop(r),
             InShort(u, g, 2, id, b, v)
      PROVE  SubackTaken(r, q, h, v, o, b)
  <2> HIDE DEF u
  <2>1. x = ReadIdentifier(u) BY <1>4, Zenon DEF InShort
  <2>2. ShortAhead(u, g, 2, id, b, v)
    <3>1. Within(u) BY <1>1, <1>4, Zenon DEF Within
    <3>2. id \in Short BY <1>1 DEF Header, Short
    <3>3. 2 \in Early /\ v \in Nat /\ v >= 2 BY <1>1, <1>8, SMT DEF Early
    <3> HIDE DEF g, id
    <3> QED BY <1>1, <1>4, <3>1, <3>2, <3>3, Zenon DEF ShortAhead
  <2>3. IdentifierTaken(u, x, g, 2, id, b, v)
    BY <2>1, <2>2, IdentifierBack
  <2> HIDE DEF x
  <2>4. CASE InShort(x, g, 2, id, b, v) /\ Waits(x)
    <3>1. q = x BY <1>2, <2>4, Zenon DEF Waits, Continues
    <3> QED
      BY <1>4, <2>3, <2>4, <3>1, Zenon
      DEF IdentifierTaken, SubackTaken, SubackPart
  <2>5. CASE At(x, Numbered(h), 2 + 1, b + 2, v - 2) /\ x.ok
    <3>1. q = ReadReturnCodes(x)
      BY <1>2, <2>5, Zenon DEF At, Continues
    <3>2. CodesAt(x, h, b + 2, 0) BY <2>5, CodesFirst
    <3>3. 0 \in Nat /\ 0 <= Len(h.return_codes) BY <1>8
    <3>4. Stop(x) = Stop(r) BY <1>4, <2>3, Zenon DEF IdentifierTaken
    <3> QED BY <2>5, <3>1, <3>2, <3>3, <3>4, SubackRest
  <2> QED BY <2>3, <2>4, <2>5, Zenon DEF IdentifierTaken, Numbered
<1>5. CASE CodesPart(r, h, b + 2)
  <2>1. PICK i \in Nat : i < n /\ CodesAt(r, h, b + 2, i)
    BY <1>5, <1>8 DEF CodesPart
  <2>2. r.sequence = 3 + i /\ r.ec = "none"
    BY <2>1, Zenon DEF CodesAt, At
  <2>3. r.sequence # 0 /\ r.sequence # 1 /\ r.sequence # 2 BY <2>2
  <2>4. t = r BY <2>3 DEF ReadType
  <2>5. u = r BY <2>3, <2>4 DEF ReadRemaining
  <2>6. x = r BY <2>3, <2>5
  <2>7. q = ReadReturnCodes(r)
    BY <1>1, <1>2, <2>2, <2>6, Zenon DEF Continues
  <2>8. i <= Len(h.return_codes) BY <1>8, <2>1
  <2> QED BY <1>1, <2>1, <2>7, <2>8, SubackRest
<1>6. CASE InShort(r, g, 2, id, b, v)
  <2>1. r.sequence = 2 /\ r.ec = "none"
    BY <1>6, Zenon DEF InShort, HalfShort
  <2>2. t = r BY <2>1 DEF ReadType
  <2>3. u = r BY <2>1, <2>2 DEF ReadRemaining
  <2>4. Continues(u) BY <1>1, <2>1, <2>3, Zenon DEF Continues
  <2> HIDE DEF u, g, id
  <2> QED BY <1>1, <1>4, <1>6, <2>3, <2>4, Zenon
<1>7. CASE Opening(r, h, v, o)
  <2>1. OpeningAhead(r, h, v, o, b) BY <1>1, <1>7, Zenon DEF OpeningAhead
  <2>2. /\ Stop(t) = Stop(r)
        /\ \/ Opening(t, h, v, o) /\ Waits(t)
           \/ InLength(t, g, v, o + 1) /\ t.ok
    BY <1>3, <2>1, TypeBack
  <2> HIDE DEF t
  <2>3. CASE Opening(t, h, v, o) /\ Waits(t)
    <3>1. ~Continues(t) BY <2>3, Zenon DEF Waits, Continues
    <3>2. q = t BY <1>2, <3>1, Zenon
    <3> QED BY <2>2, <2>3, <3>2, Zenon DEF SubackTaken, SubackPart
  <2>4. CASE InLength(t, g, v, o + 1) /\ t.ok
    <3>1. Continues(t)
      BY <2>4, Zenon DEF Continues, InLength, Half, Partial
    <3>2. u = ReadRemaining(t) BY <3>1, Zenon
    <3>3. OpeningTaken(t, u, h, v, o, b, v)
      BY <1>1, <2>4, <3>2, RemainingBack
    <3> HIDE DEF u
    <3>4. CASE Opening(u, h, v, o) /\ Waits(u)
      <4>1. ~Continues(u) BY <3>4, Zenon DEF Waits, Continues
      <4>2. q = u BY <1>2, <4>1, Zenon
      <4> QED
        BY <2>2, <3>3, <3>4, <4>2, Zenon
        DEF SubackTaken, SubackPart, OpeningTaken
    <3>5. CASE At(u, g, 2, b, v) /\ u.ok
      <4>1. Continues(u) BY <3>5, Zenon DEF At, Continues
      <4>2. Stop(u) = Stop(r) BY <2>2, <3>3, Zenon DEF OpeningTaken
      <4>3. v \in Nat BY <1>1, <1>8
      <4>4. InShort(u, g, 2, id, b, v) BY <3>5, <4>3, AtShort
      <4> HIDE DEF g, id
      <4> QED BY <1>4, <3>5, <4>1, <4>2, <4>4, Zenon
    <3> QED BY <3>3, <3>4, <3>5, Zenon DEF OpeningTaken
  <2> QED BY <2>2, <2>3, <2>4, Zenon
<1> QED BY <1>1, <1>5, <1>6, <1>7, Zenon DEF SubackPart

-----------------------------------------------------------------------------
(* PUBLISH: the topic, with a QoS the identifier, and then the payload,    *)
(* `size' bytes that are left to the handler.                              *)
Topped(h) == [Flagged(h) EXCEPT !.topic = h.topic]

TopicField(h) == 2 + Len(h.topic)

IdField(h) == IF QoS(h) = 0 THEN 0 ELSE 2

(* Within the identifier.                                                  *)
InId(r, h, v, b) ==
  /\ QoS(h) # 0
  /\ InShort(r, Topped(h), 3, h.packet_identifier, b + TopicField(h),
             v - TopicField(h))

PublishPart(r, h, v, o, b) ==
  Opening(r, h, v, o) \/ At(r, Flagged(h), 2, b, v) \/ InId(r, h, v, b)

(* What is available does not end within the topic.                        *)
Whole(r, h, b) == Stop(r) \notin (b + 1) .. (b + 1 + Len(h.topic))

PublishLaid(h, v, b, size) ==
  /\ h \in Header /\ h.index = publish /\ b \in Nat /\ size \in Nat
  /\ v = TopicField(h) + IdField(h) + size
  /\ Spells(b, WriteBlob(h.topic)) /\ Len(h.topic) <= TopicMax
  /\ Len(h.topic) \in Short /\ Unsigned(Len(h.topic))
  /\ QoS(h) # 0 => /\ Spells(b + TopicField(h),
                             WriteUint16(h.packet_identifier))
                   /\ Unsigned(h.packet_identifier)
  /\ h = IF QoS(h) = 0 THEN Topped(h)
         ELSE [Topped(h) EXCEPT !.packet_identifier = h.packet_identifier]

PublishAhead(r, h, v, o, b, size) ==
  /\ Headed(h, v, o, b) /\ PublishLaid(h, v, b, size)
  /\ PublishPart(r, h, v, o, b) /\ r.ok /\ Within(r) /\ Whole(r, h, b)

PublishTaken(r, q, h, v, o, b, size) ==
  /\ Stop(q) = Stop(r)
  /\ \/ PublishPart(q, h, v, o, b) /\ Waits(q)
     \/ Read(q, h, (b + v) - size, size)

(* The lengths of the fields.                                              *)
LEMMA PublishSizes ==
  ASSUME NEW h, NEW v, NEW b, NEW size, PublishLaid(h, v, b, size)
  PROVE  /\ TopicField(h) \in Nat /\ TopicField(h) >= 2 /\ v \in Nat
         /\ v >= TopicField(h) /\ b + TopicField(h) \in Nat
         /\ v - TopicField(h) \in Nat
         /\ QoS(h) = 0 => /\ v - TopicField(h) = size
                          /\ b + TopicField(h) = (b + v) - size
         /\ QoS(h) # 0 => /\ v - TopicField(h) >= 2
                          /\ (v - TopicField(h)) - 2 = size
                          /\ (b + TopicField(h)) + 2 = (b + v) - size
<1>1. PICK n \in Nat : n = Len(h.topic)
  <2>1. h.topic \in Seq(Byte) BY DEF PublishLaid, Header
  <2> QED BY <2>1
<1>2. TopicField(h) = 2 + n BY <1>1 DEF TopicField
<1>3. /\ b \in Nat /\ size \in Nat
      /\ v = TopicField(h) + IdField(h) + size
  BY Zenon DEF PublishLaid
<1>4. CASE QoS(h) = 0
  <2>1. IdField(h) = 0 BY <1>4, Zenon DEF IdField
  <2> QED BY <1>2, <1>3, <1>4, <2>1
<1>5. CASE QoS(h) # 0
  <2>1. IdField(h) = 2 BY <1>5, Zenon DEF IdField
  <2> QED BY <1>2, <1>3, <1>5, <2>1
<1> QED BY <1>4, <1>5

(* The headers of a PUBLISH in the making.                                 *)
LEMMA ToppedHeader ==
  ASSUME NEW h \in Header
  PROVE  QoS(Topped(h)) = QoS(h)
<1>1. Flagged(h) \in Header /\ Flagged(h).flags = h.flags
  BY FlaggedHeader
<1>2. Topped(h).flags = h.flags BY <1>1 DEF Topped, Header
<1> QED BY <1>2, Zenon DEF QoS

(* The identifier ends the header.                                         *)
LEMMA PublishRest ==
  ASSUME NEW h, NEW v, NEW o, NEW b, NEW size,
         NEW r, PublishAhead(r, h, v, o, b, size),
         NEW u, u.ok, Stop(u) = Stop(r), InId(u, h, v, b)
  PROVE  PublishTaken(r, ReadIdentifier(u), h, v, o, b, size)
<1> DEFINE q == ReadIdentifier(u)
           g == Topped(h)
           id == h.packet_identifier
           p == b + TopicField(h)
           m == v - TopicField(h)
           d == [g EXCEPT !.packet_identifier = id]
<1> SUFFICES PublishTaken(r, q, h, v, o, b, size) OBVIOUS
<1>1. /\ h \in Header /\ Within(r) /\ QoS(h) # 0 /\ Unsigned(id)
      /\ Spells(p, WriteUint16(id)) /\ h = d
      /\ PublishLaid(h, v, b, size)
  BY Zenon DEF PublishAhead, PublishLaid, InId
<1>2. Within(u) BY <1>1, Zenon DEF Within
<1>3. id \in Short BY <1>1 DEF Header, Short
<1>4. /\ 3 \in Early /\ m \in Nat /\ m >= 2 /\ m - 2 = size
      /\ p + 2 = (b + v) - size
  <2>1. 3 \in Early BY SMT DEF Early
  <2>2. /\ v - TopicField(h) \in Nat /\ v - TopicField(h) >= 2
        /\ (v - TopicField(h)) - 2 = size
        /\ (b + TopicField(h)) + 2 = (b + v) - size
    BY <1>1, PublishSizes
  <2> QED BY <2>1, <2>2, Zenon
<1>5. InShort(u, g, 3, id, p, m) BY Zenon DEF InId
<1> HIDE DEF g, id, m, p, q
<1>6. ShortAhead(u, g, 3, id, p, m)
  BY <1>1, <1>2, <1>3, <1>4, <1>5, Zenon DEF ShortAhead
<1>7. IdentifierTaken(u, q, g, 3, id, p, m)
  BY <1>6, IdentifierBack DEF q
<1>8. CASE InShort(q, g, 3, id, p, m) /\ Waits(q)
  <2>1. InId(q, h, v, b) BY <1>1, <1>8, Zenon DEF InId, g, id, p, m
  <2> QED
    BY <1>7, <1>8, <2>1, Zenon
    DEF IdentifierTaken, PublishTaken, PublishPart
<1>9. CASE At(q, d, 3 + 1, p + 2, m - 2) /\ q.ok
  <2>1. Read(q, h, (b + v) - size, size)
    BY <1>1, <1>4, <1>9, Zenon DEF At, Read
  <2> QED BY <1>7, <2>1, Zenon DEF IdentifierTaken, PublishTaken
<1> QED BY <1>7, <1>8, <1>9, Zenon DEF IdentifierTaken

(* The topic comes before it.                                              *)
LEMMA PublishTopic ==
  ASSUME NEW h, NEW v, NEW o, NEW b, NEW size,
         NEW r, PublishAhead(r, h, v, o, b, size),
         NEW u, u.ok, Stop(u) = Stop(r), At(u, Flagged(h), 2, b, v),
         NEW q, q = ReadTopic(u)
  PROVE  /\ Stop(q) = Stop(r)
         /\ \/ At(q, Flagged(h), 2, b, v) /\ Waits(q)
            \/ /\ At(q, Topped(h), 3, b + TopicField(h),
                     v - TopicField(h))
               /\ q.ok
<1> DEFINE t == h.topic
           g == Flagged(h)
<1>1. /\ h \in Header /\ Within(r) /\ b \in Nat /\ Spells(b, WriteBlob(t))
      /\ Len(t) <= TopicMax /\ Len(t) \in Short /\ Unsigned(Len(t))
      /\ Whole(r, h, b) /\ PublishLaid(h, v, b, size)
  BY Zenon DEF PublishAhead, PublishLaid
<1>2. t \in Seq(Byte) BY <1>1 DEF Header
<1>3. g.topic = <<>> BY <1>1, FlaggedHeader
<1>4. Within(u) BY <1>1, Zenon DEF Within
<1>5. v \in Nat /\ v >= 2 + Len(t) BY <1>1, PublishSizes DEF TopicField
<1>6. u.available = 0 \/ u.available >= 2 + Len(t)
  <2>1. u.pos = b /\ u.available \in Nat
    <3>1. Good(u) /\ u.pos = b BY Zenon DEF At
    <3> QED BY <3>1, Fields DEF Good
  <2>2. PICK n \in Nat : n = Len(t) BY <1>2
  <2>3. PICK k : k = Stop(r) OBVIOUS
  <2>4. PICK a \in Nat : a = u.available BY <2>1
  <2>5. k = b + a BY <2>1, <2>3, <2>4, Zenon DEF Stop
  <2>6. k \notin (b + 1) .. (b + 1 + Len(t))
    BY <1>1, <2>3, Zenon DEF Whole
  <2>7. b + a \notin (b + 1) .. (b + 1 + n)
    BY <2>2, <2>5, <2>6, Zenon
  <2>8. b \in Nat BY <1>1
  <2>9. a = 0 \/ a >= 2 + n BY <2>7, <2>8
  <2> QED BY <2>2, <2>4, <2>9, Zenon
<1>9. At(u, g, 2, b, v) /\ u.ok OBVIOUS
<1> HIDE DEF t, g
<1>7. TopicAhead(u, g, t, b, v)
  BY <1>1, <1>2, <1>3, <1>4, <1>5, <1>6, <1>9, Zenon DEF TopicAhead
<1>8. TopicTaken(u, q, g, t, b, v) BY <1>7, TopicBack
<1> QED BY <1>8, Zenon DEF TopicTaken, TopicField, Topped, t, g

(* What follows the topic.                                                 *)
LEMMA PublishEnd ==
  ASSUME NEW h, NEW v, NEW o, NEW b, NEW size,
         NEW r, PublishAhead(r, h, v, o, b, size),
         NEW u, u.ok, Stop(u) = Stop(r),
         At(u, Topped(h), 3, b + TopicField(h), v - TopicField(h)),
         NEW q, q = IF QoS(u.read_header) # 0 THEN ReadIdentifier(u) ELSE u
  PROVE  PublishTaken(r, q, h, v, o, b, size)
<1>1. h \in Header /\ PublishLaid(h, v, b, size)
  BY Zenon DEF PublishAhead, PublishLaid
<1>2. QoS(u.read_header) = QoS(h) BY <1>1, ToppedHeader, Zenon DEF At
<1>3. CASE QoS(h) = 0
  <2>1. q = u BY <1>2, <1>3, Zenon
  <2>2. /\ v - TopicField(h) = size
        /\ b + TopicField(h) = (b + v) - size
    BY <1>1, <1>3, PublishSizes
  <2>3. h = Topped(h) BY <1>1, <1>3, Zenon DEF PublishLaid
  <2>4. Read(u, h, (b + v) - size, size)
    BY <2>2, <2>3, Zenon DEF At, Read
  <2> QED BY <2>1, <2>4, Zenon DEF PublishTaken
<1>4. CASE QoS(h) # 0
  <2>1. q = ReadIdentifier(u) BY <1>2, <1>4, Zenon
  <2>2. v - TopicField(h) \in Nat BY <1>1, PublishSizes
  <2>3. InShort(u, Topped(h), 3, h.packet_identifier,
                b + TopicField(h), v - TopicField(h))
    BY <2>2, AtShort
  <2>4. InId(u, h, v, b) BY <1>4, <2>3, Zenon DEF InId
  <2> QED BY <2>1, <2>4, PublishRest
<1> QED BY <1>3, <1>4

(* PUBLISH as a whole, up to its payload.                                  *)
LEMMA PublishBack ==
  ASSUME NEW h, NEW v, NEW o, NEW b, NEW size,
         NEW r, PublishAhead(r, h, v, o, b, size)
  PROVE  PublishTaken(r, ReadPublish(r), h, v, o, b, size)
<1> DEFINE t == ReadPublishType(r)
           u == IF Continues(t) THEN ReadRemaining(t) ELSE t
           x == IF Continues(u)
                THEN IF u.sequence = 2 THEN ReadTopic(u) ELSE u
                ELSE u
           q == ReadPublish(r)
           g == Flagged(h)
<1> SUFFICES PublishTaken(r, q, h, v, o, b, size) OBVIOUS
<1>1. /\ Headed(h, v, o, b) /\ r.ok /\ h.index = publish
      /\ PublishPart(r, h, v, o, b) /\ h \in Header
  BY Zenon DEF PublishAhead, Headed, PublishLaid
<1>2. q = IF Continues(x)
          THEN IF QoS(x.read_header) # 0 THEN ReadIdentifier(x) ELSE x
          ELSE x
  BY DEF ReadPublish, Then
<1> HIDE DEF q
<1>3. ASSUME Continues(u), u.ok, Stop(u) = Stop(r), At(u, g, 2, b, v)
      PROVE  PublishTaken(r, q, h, v, o, b, size)
  <2> HIDE DEF u
  <2>1. x = ReadTopic(u) BY <1>3, Zenon DEF At
  <2>2. /\ Stop(x) = Stop(r)
        /\ \/ At(x, g, 2, b, v) /\ Waits(x)
           \/ /\ At(x, Topped(h), 3, b + TopicField(h),
                    v - TopicField(h))
              /\ x.ok
    BY <1>3, <2>1, PublishTopic
  <2> HIDE DEF x
  <2>3. CASE At(x, g, 2, b, v) /\ Waits(x)
    <3>1. q = x BY <1>2, <2>3, Zenon DEF Waits, Continues
    <3> QED BY <2>2, <2>3, <3>1, Zenon DEF PublishTaken, PublishPart
  <2>4. CASE /\ At(x, Topped(h), 3, b + TopicField(h),
                   v - TopicField(h))
             /\ x.ok
    <3>1. Continues(x) BY <2>4, Zenon DEF At, Continues
    <3>2. q = IF QoS(x.read_header) # 0 THEN ReadIdentifier(x) ELSE x
      BY <1>2, <3>1, Zenon
    <3> QED BY <2>2, <2>4, <3>2, PublishEnd
  <2> QED BY <2>2, <2>3, <2>4, Zenon
<1>4. CASE InId(r, h, v, b)
  <2>1. r.sequence = 3 /\ r.ec = "none" /\ r.read_header = Topped(h)
    BY <1>4, Zenon DEF InId, InShort, HalfShort
  <2>2. t = r BY <2>1 DEF ReadPublishType
  <2>3. u = r BY <2>1, <2>2 DEF ReadRemaining
  <2>4. x = r BY <2>1, <2>3
  <2>5. QoS(x.read_header) # 0
    BY <1>1, <1>4, <2>1, <2>4, ToppedHeader, Zenon DEF InId
  <2> HIDE DEF x
  <2>6. q = ReadIdentifier(r)
    BY <1>1, <1>2, <2>1, <2>4, <2>5, Zenon DEF Continues
  <2> QED BY <1>1, <1>4, <2>6, PublishRest, Zenon
<1>5. CASE At(r, g, 2, b, v)
  <2>1. r.sequence = 2 /\ r.ec = "none" BY <1>5, Zenon DEF At
  <2>2. t = r BY <2>1 DEF ReadPublishType
  <2>3. u = r BY <2>1, <2>2 DEF ReadRemaining
  <2>4. Continues(u) BY <1>1, <2>1, <2>3, Zenon DEF Continues
  <2> HIDE DEF u, g
  <2> QED BY <1>1, <1>3, <1>5, <2>3, <2>4, Zenon
<1>6. CASE Opening(r, h, v, o)
  <2>1. OpeningAhead(r, h, v, o, b) BY <1>1, <1>6, Zenon DEF OpeningAhead
  <2>2. /\ Stop(t) = Stop(r)
        /\ \/ Opening(t, h, v, o) /\ Waits(t)
           \/ InLength(t, g, v, o + 1) /\ t.ok
    BY <1>1, <2>1, PublishTypeBack
  <2> HIDE DEF t
  <2>3. CASE Opening(t, h, v, o) /\ Waits(t)
    <3>1. ~Continues(t) BY <2>3, Zenon DEF Waits, Continues
    <3>2. q = t BY <1>2, <3>1, Zenon
    <3> QED BY <2>2, <2>3, <3>2, Zenon DEF PublishTaken, PublishPart
  <2>4. CASE InLength(t, g, v, o + 1) /\ t.ok
    <3>1. Continues(t)
      BY <2>4, Zenon DEF Continues, InLength, Half, Partial
    <3>2. u = ReadRemaining(t) BY <3>1, Zenon
    <3>3. OpeningTaken(t, u, h, v, o, b, v)
      BY <1>1, <2>4, <3>2, RemainingBack
    <3> HIDE DEF u
    <3>4. CASE Opening(u, h, v, o) /\ Waits(u)
      <4>1. ~Continues(u) BY <3>4, Zenon DEF Waits, Continues
      <4>2. q = u BY <1>2, <4>1, Zenon
      <4> QED
        BY <2>2, <3>3, <3>4, <4>2, Zenon
        DEF PublishTaken, PublishPart, OpeningTaken
    <3>5. CASE At(u, g, 2, b, v) /\ u.ok
      <4>1. Continues(u) BY <3>5, Zenon DEF At, Continues
      <4>2. Stop(u) = Stop(r) BY <2>2, <3>3, Zenon DEF OpeningTaken
      <4> HIDE DEF g
      <4> QED BY <1>3, <3>5, <4>1, <4>2, Zenon
    <3> QED BY <3>3, <3>4, <3>5, Zenon DEF OpeningTaken
  <2> QED BY <2>2, <2>3, <2>4, Zenon
<1> QED BY <1>1, <1>4, <1>5, <1>6, Zenon DEF PublishPart

-----------------------------------------------------------------------------
(* The packets a broker sends, when identifiers and topic lengths have no  *)
(* low byte that a signed char misreads, and a byte counts return codes.   *)
Simple(packet) ==
  /\ Unsigned(packet.header.packet_identifier)
  /\ Unsigned(Len(packet.header.topic))
  /\ Countable(packet.header.return_codes)

Sendable(packet) ==
  /\ packet \in [header: Header, payload: Seq(Byte)]
  /\ WellFormed(packet) /\ Simple(packet)

Acks == Handled \ {publish, connack, suback, pingresp}

(* Of its header only the fields that its alternative has are set.         *)
LEMMA KeptHeader ==
  ASSUME NEW h \in Header, h.index # reserved, h = Kept(h)
  PROVE  /\ h.index \in Handled
         /\ h.index # publish => h.flags = 0 /\ h.topic = <<>>
         /\ h.index \in Acks =>
              h = [Flagged(h) EXCEPT
                     !.packet_identifier = h.packet_identifier]
         /\ h.index = pingresp => h = Flagged(h)
         /\ h.index = connack =>
              h = [Present(h) EXCEPT !.return_code = h.return_code]
         /\ h.index = suback =>
              h = [Numbered(h) EXCEPT !.return_codes = h.return_codes]
         /\ h.index = publish =>
              h = IF QoS(h) = 0 THEN Topped(h)
                  ELSE [Topped(h) EXCEPT
                          !.packet_identifier = h.packet_identifier]
<1> DEFINE id == h.packet_identifier
           fresh == Fresh(h.index)
<1>1. h.index \in Handled BY DEF Header
<1>2. /\ publish # connack /\ publish # suback /\ publish # pingresp
      /\ connack # suback /\ connack # pingresp /\ suback # pingresp
  BY DEF publish, connack, suback, pingresp
<1>3. fresh.flags = 0 /\ fresh.topic = <<>> BY DEF Fresh
<1>4. fresh \in Header BY FlaggedHeader
<1>5. h.flags = 0 => Flagged(h) = fresh BY FlaggedHeader
<1>11. ASSUME NEW g \in Header, NEW x
       PROVE  /\ [g EXCEPT !.packet_identifier = x].flags = g.flags
              /\ [g EXCEPT !.packet_identifier = x].topic = g.topic
  BY DEF Header
<1>12. ASSUME NEW g \in Header, NEW x, NEW y
       PROVE  /\ [g EXCEPT !.session_present = x,
                           !.return_code = y].flags = g.flags
              /\ [g EXCEPT !.session_present = x,
                           !.return_code = y].topic = g.topic
  BY DEF Header
<1>13. ASSUME NEW g \in Header, NEW x, NEW y
       PROVE  /\ [g EXCEPT !.packet_identifier = x,
                           !.return_codes = y].flags = g.flags
              /\ [g EXCEPT !.packet_identifier = x,
                           !.return_codes = y].topic = g.topic
  BY DEF Header
<1>14. ASSUME NEW g \in Header, NEW x, NEW y
       PROVE  [g EXCEPT !.flags = x, !.topic = y].packet_identifier
                = g.packet_identifier
  BY DEF Header
<1>6. CASE h.index \in Acks
  <2>1. h = [fresh EXCEPT !.packet_identifier = id]
    BY <1>6, Zenon DEF Kept, Acks
  <2>9. fresh.flags = 0 /\ fresh.topic = <<>> /\ fresh \in Header
    BY <1>3, <1>4
  <2> HIDE DEF fresh, id
  <2>2. h.flags = 0 /\ h.topic = <<>>
    BY <1>11, <2>1, <2>9, Zenon
  <2> QED BY <1>1, <1>5, <1>6, <2>1, <2>2, Zenon DEF Acks, id
<1>7. CASE h.index = pingresp
  <2>1. h = fresh BY <1>2, <1>7, Zenon DEF Kept
  <2> HIDE DEF fresh
  <2> QED BY <1>1, <1>2, <1>3, <1>5, <1>7, <2>1, Zenon DEF Acks
<1>8. CASE h.index = connack
  <2>1. h = [fresh EXCEPT !.session_present = h.session_present,
                          !.return_code = h.return_code]
    BY <1>2, <1>8, Zenon DEF Kept
  <2>9. fresh.flags = 0 /\ fresh.topic = <<>> /\ fresh \in Header
    BY <1>3, <1>4
  <2> HIDE DEF fresh
  <2>4. PICK x, y : x = h.session_present /\ y = h.return_code OBVIOUS
  <2>5. h = [fresh EXCEPT !.session_present = x, !.return_code = y]
    BY <2>1, <2>4, Zenon
  <2>6. /\ [fresh EXCEPT !.session_present = x, !.return_code = y].flags = 0
        /\ [fresh EXCEPT !.session_present = x, !.return_code = y].topic = <<>>
    BY <1>12, <2>9
  <2>2. h.flags = 0 /\ h.topic = <<>> BY <2>5, <2>6, Zenon
  <2>3. h = [Present(h) EXCEPT !.return_code = h.return_code]
    BY <1>5, <2>1, <2>2, Zenon DEF Present
  <2> QED BY <1>1, <1>2, <1>8, <2>2, <2>3, Zenon DEF Acks
<1>9. CASE h.index = suback
  <2>1. h = [fresh EXCEPT !.packet_identifier = id,
                          !.return_codes = h.return_codes]
    BY <1>2, <1>9, Zenon DEF Kept
  <2>9. fresh.flags = 0 /\ fresh.topic = <<>> /\ fresh \in Header
    BY <1>3, <1>4
  <2> HIDE DEF fresh, id
  <2>4. PICK x, y : x = id /\ y = h.return_codes OBVIOUS
  <2>5. h = [fresh EXCEPT !.packet_identifier = x, !.return_codes = y]
    BY <2>1, <2>4, Zenon
  <2>6. /\ [fresh EXCEPT !.packet_identifier = x, !.return_codes = y].flags = 0
        /\ [fresh EXCEPT !.packet_identifier = x,
                         !.return_codes = y].topic = <<>>
    BY <1>13, <2>9
  <2>2. h.flags = 0 /\ h.topic = <<>> BY <2>5, <2>6, Zenon
  <2>3. h = [Numbered(h) EXCEPT !.return_codes = h.return_codes]
    BY <1>5, <2>1, <2>2, Zenon DEF Numbered, id
  <2> QED BY <1>1, <1>2, <1>9, <2>2, <2>3, Zenon DEF Acks
<1>10. CASE h.index = publish
  <2> DEFINE k == IF QoS(h) = 0 THEN 0 ELSE id
  <2>1. h = [fresh EXCEPT !.flags = h.flags, !.topic = h.topic,
                          !.packet_identifier = k]
    BY <1>2, <1>10, Zenon DEF Kept
  <2>2. Topped(h) = [fresh EXCEPT !.flags = h.flags, !.topic = h.topic]
    BY Zenon DEF Topped, Flagged
  <2>3. ASSUME NEW t, NEW u, NEW v
        PROVE  [[fresh EXCEPT !.flags = u, !.topic = v]
                  EXCEPT !.packet_identifier = t]
                 = [fresh EXCEPT !.flags = u, !.topic = v,
                                 !.packet_identifier = t]
    BY Zenon
  <2>4. h = [Topped(h) EXCEPT !.packet_identifier = k]
    BY <2>1, <2>2, <2>3, Zenon
  <2>5. Topped(h).packet_identifier = 0 /\ Topped(h) \in Header
    <3>1. h.topic \in Bytes BY DEF Header, Bytes
    <3>2. Flagged(h) \in Header BY FlaggedHeader
    <3>3. Topped(h) \in Header
      BY <3>1, <3>2, SetTopic DEF Topped, Bytes
    <3>6. PICK x, y : x = h.flags /\ y = h.topic OBVIOUS
    <3>7. Topped(h) = [fresh EXCEPT !.flags = x, !.topic = y]
      BY <2>2, <3>6, Zenon
    <3>4. Topped(h).packet_identifier = fresh.packet_identifier
      BY <1>4, <1>14, <3>7
    <3>5. fresh.packet_identifier = 0 BY DEF Fresh
    <3> QED BY <3>3, <3>4, <3>5, Zenon
  <2>6. ASSUME NEW g \in Header, g.packet_identifier = 0
        PROVE  [g EXCEPT !.packet_identifier = 0] = g
    BY <2>6, SMT DEF Header
  <2>7. CASE QoS(h) = 0
    <3>1. h = Topped(h) BY <2>4, <2>5, <2>6, <2>7, Zenon
    <3> QED BY <1>1, <1>2, <1>10, <2>7, <3>1, Zenon DEF Acks
  <2>8. CASE QoS(h) # 0
    BY <1>1, <1>2, <1>10, <2>4, <2>8, Zenon DEF Acks
  <2> QED BY <2>7, <2>8
<1> QED BY <1>1, <1>6, <1>7, <1>8, <1>9, <1>10, Zenon DEF Acks

(* What a broker sends has a header of that form.                          *)
LEMMA SentHeader ==
  ASSUME NEW packet, Sendable(packet), NEW h, h = packet.header
  PROVE  /\ h \in Header /\ h.index \in Handled /\ h = Kept(h)
         /\ h.index # reserved /\ h.flags \in 0 .. 15
         /\ h.index # publish => h.flags = 0 /\ packet.payload = <<>>
         /\ QoS(h) # 3 /\ packet.payload \in Seq(Byte)
<1>1. /\ h \in Header /\ packet.payload \in Seq(Byte)
      /\ WellFormed(packet)
  BY SMT DEF Sendable
<1>2. /\ h.index # reserved /\ h = Kept(h) /\ QoS(h) # 3
      /\ h.index # publish => packet.payload = <<>>
  BY <1>1, SMT DEF WellFormed
<1>3. h.flags \in 0 .. 15 BY <1>1, FlaggedHeader
<1> QED BY <1>1, <1>2, <1>3, KeptHeader

(* What it puts after the remaining length.                                *)
IdBytes(h) == IF QoS(h) = 0 THEN <<>> ELSE WriteUint16(h.packet_identifier)

Body(packet) ==
  LET h == packet.header
  IN CASE h.index = publish  -> WriteBlob(h.topic) \o IdBytes(h)
                                  \o packet.payload
       [] h.index = suback   -> WriteUint16(h.packet_identifier)
                                  \o h.return_codes
       [] h.index = connack  -> <<h.session_present, h.return_code>>
       [] h.index = pingresp -> <<>>
       [] OTHER              -> WriteUint16(h.packet_identifier)

(* The bytes of a fixed header and those after it, from the position o.    *)
Base(o, v) == (o + 1) + VariableLength(v)

FixedAhead(type, flags, body, v, w) ==
  /\ body \in Seq(Byte) /\ 16 * type + flags \in Byte
  /\ v = Len(body) /\ v \in Variable /\ w = WriteFixed(type, flags, body)

FixedAt(o, type, flags, body, v) ==
  /\ o \in Nat /\ o + 1 <= Len(wire)
  /\ wire[o + 1] = 16 * type + flags
  /\ Spells(o + 1, WriteVariableInteger(v))
  /\ Base(o, v) \in Nat /\ Spells(Base(o, v), body)

FixedEnds(v, w) == \A o \in Nat : o + Len(w) = Base(o, v) + v

(* They are a sequence of bytes that can be told apart.                    *)
LEMMA FixedBytes ==
  ASSUME NEW type, NEW flags, NEW body, NEW v, NEW w,
         FixedAhead(type, flags, body, v, w)
  PROVE  /\ w \in Seq(Byte)
         /\ FixedEnds(v, w)
         /\ \A o : wire \in Seq(Byte) /\ Spells(o, w) =>
              FixedAt(o, type, flags, body, v)
<1> USE DEF FixedAhead
<1>1. PICK x \in Byte : x = 16 * type + flags OBVIOUS
<1>2. PICK e : e = WriteVariableInteger(v) OBVIOUS
<1>3. PICK n : n = VariableLength(v) OBVIOUS
<1>4. n \in 1 .. 4 /\ e \in Seq(Byte) /\ Len(e) = n
  BY <1>2, <1>3, Encoded
<1>5. w = (<<x>> \o e) \o body BY <1>1, <1>2 DEF WriteFixed
<1>6. <<x>> \in Seq(Byte) /\ Len(<<x>>) = 1 /\ <<x>>[1] = x OBVIOUS
<1> DEFINE f == <<x>> \o e
<1>7. f \in Seq(Byte) /\ Len(f) = 1 + n BY <1>4, <1>6
<1>8. PICK m \in Nat : m = v OBVIOUS
<1>9. w \in Seq(Byte) /\ Len(w) = (1 + n) + m
  BY <1>5, <1>7, <1>8
<1>10. ASSUME NEW o, wire \in Seq(Byte), Spells(o, w)
       PROVE  FixedAt(o, type, flags, body, v)
  <2> HIDE DEF f
  <2>1. PICK p \in Nat : p = o BY <1>10 DEF Spells
  <2>2. PICK k, d : k = 1 + n /\ d = p + k OBVIOUS
  <2>3. Spells(o, f \o body) BY <1>5, <1>10, Zenon DEF f
  <2>4. k = Len(f) /\ d = o + k BY <1>7, <2>1, <2>2
  <2>5. Spells(o, f) /\ Spells(d, body)
    BY <1>7, <1>10, <2>3, <2>4, SpellsParts, Zenon
  <2>6. d = Base(o, v) /\ d \in Nat
    BY <1>3, <1>4, <2>1, <2>2 DEF Base
  <2>7. PICK i, c : i = 1 /\ c = o + i OBVIOUS
  <2>8. Spells(o, <<x>> \o e) BY <2>5, Zenon DEF f
  <2>9. i = Len(<<x>>) BY <1>6, <2>7
  <2>10. Spells(o, <<x>>) /\ Spells(c, e)
    BY <1>4, <1>6, <1>10, <2>7, <2>8, <2>9, SpellsParts, Zenon
  <2>11. p + 1 <= Len(wire) /\ wire[p + 1] = x
    BY <1>6, <2>1, <2>10 DEF Spells
  <2>12. o + 1 <= Len(wire) /\ wire[o + 1] = 16 * type + flags
    BY <1>1, <2>1, <2>11, Zenon
  <2>13. Spells(o + 1, WriteVariableInteger(v))
    BY <1>2, <2>7, <2>10, Zenon
  <2>14. Spells(Base(o, v), body) /\ Base(o, v) \in Nat
    BY <2>5, <2>6, Zenon
  <2> QED BY <2>1, <2>12, <2>13, <2>14, Zenon DEF FixedAt
<1>11. ASSUME NEW o \in Nat PROVE o + Len(w) = Base(o, v) + v
  BY <1>3, <1>4, <1>8, <1>9 DEF Base
<1>12. FixedEnds(v, w) BY <1>11, Zenon DEF FixedEnds
<1> QED BY <1>9, <1>10, <1>12, Zenon

(* The bytes of an identifier and of a topic.                              *)
LEMMA FieldBytes ==
  ASSUME NEW h \in Header, Len(h.topic) \in Short
  PROVE  /\ WriteUint16(h.packet_identifier) \in Seq(Byte)
         /\ Len(WriteUint16(h.packet_identifier)) = 2
         /\ IdBytes(h) \in Seq(Byte) /\ Len(IdBytes(h)) = IdField(h)
         /\ WriteBlob(h.topic) \in Seq(Byte)
         /\ Len(WriteBlob(h.topic)) = TopicField(h)
<1>1. h.packet_identifier \in Short BY DEF Header, Short
<1>2. /\ WriteUint16(h.packet_identifier) \in Seq(Byte)
      /\ Len(WriteUint16(h.packet_identifier)) = 2
  BY <1>1, ShortBytes
<1>3. IdBytes(h) \in Seq(Byte) /\ Len(IdBytes(h)) = IdField(h)
  <2>1. <<>> \in Seq(Byte) /\ Len(<<>>) = 0 OBVIOUS
  <2> QED BY <1>2, <2>1, Zenon DEF IdBytes, IdField
<1>4. /\ WriteBlob(h.topic) \in Seq(Byte)
      /\ Len(WriteBlob(h.topic)) = TopicField(h)
  <2>1. h.topic \in Seq(Byte) BY DEF Header
  <2>2. PICK w : w = WriteUint16(Len(h.topic)) OBVIOUS
  <2>3. w \in Seq(Byte) /\ Len(w) = 2 BY <2>2, ShortBytes
  <2>4. WriteBlob(h.topic) = w \o h.topic BY <2>2, Zenon DEF WriteBlob
  <2>5. w \o h.topic \in Seq(Byte) /\ Len(w \o h.topic) = 2 + Len(h.topic)
    <3>1. /\ w \o h.topic \in Seq(Byte)
          /\ Len(w \o h.topic) = Len(w) + Len(h.topic)
      BY <2>1, <2>3, ConcatProperties, Zenon
    <3> QED BY <2>3, <3>1, Zenon
  <2> QED BY <2>4, <2>5, Zenon DEF TopicField
<1> QED BY <1>2, <1>3, <1>4

(* A topic that has a field.                                               *)
LEMMA SentTopic ==
  ASSUME NEW packet, Sendable(packet), NEW h, h = packet.header
  PROVE  Len(h.topic) \in Short /\ Len(h.topic) <= TopicMax
<1>1. h \in Header BY SentHeader
<1>2. h.topic \in Seq(Byte) BY <1>1 DEF Header
<1>3. Len(h.topic) < 65536 /\ Len(h.topic) <= TopicMax
  BY SMT DEF Sendable, WellFormed
<1>4. Len(h.topic) \in Nat BY <1>2
<1> QED BY <1>3, <1>4, SMT DEF Short, Below

(* The length of what follows the remaining length, by kind of packet.     *)
Rest(packet) == Len(Body(packet))

Rests(packet, h, v) ==
  /\ h.index \in Acks \cup {connack} => v = 2
  /\ h.index = pingresp => v = 0
  /\ h.index = suback => v = 2 + Len(h.return_codes)
  /\ h.index = publish =>
       v = TopicField(h) + IdField(h) + Len(packet.payload)

(* It is the remaining length that the packet is written with.             *)
LEMMA PacketBytes ==
  ASSUME NEW packet, Sendable(packet), NEW h, h = packet.header
  PROVE  /\ Body(packet) \in Seq(Byte) /\ Rest(packet) \in Variable
         /\ Rests(packet, h, Rest(packet))
         /\ WritePacket(packet)
              = WriteFixed(h.index, h.flags, Body(packet))
<1> DEFINE id == WriteUint16(h.packet_identifier)
           body == Body(packet)
           p == packet.payload
<1>1. /\ h \in Header /\ h.index \in Handled /\ h.index # reserved
      /\ h.index # publish => h.flags = 0
      /\ packet.payload \in Seq(Byte)
  BY SentHeader
<1>2. /\ publish # connack /\ publish # suback /\ publish # pingresp
      /\ connack # suback /\ connack # pingresp /\ suback # pingresp
      /\ unsuback \notin {publish, connack, suback, pingresp}
  BY DEF publish, connack, suback, pingresp, unsuback
<1>3. /\ id \in Seq(Byte) /\ Len(id) = 2
      /\ IdBytes(h) \in Seq(Byte) /\ Len(IdBytes(h)) = IdField(h)
      /\ WriteBlob(h.topic) \in Seq(Byte)
      /\ Len(WriteBlob(h.topic)) = TopicField(h)
  BY <1>1, SentTopic, FieldBytes
<1>4. 2 \in Variable /\ 0 \in Variable BY SmallLength
<1>5. CASE h.index \in Acks
  <2>1. body = id BY <1>5, Zenon DEF Body, Acks
  <2>2. WritePacket(packet) = WriteFixed(h.index, 0, id)
    <3>1. CASE h.index = unsuback
      BY <1>2, <1>5, <3>1, Zenon
      DEF WritePacket, WriteUnsuback, WriteAck, Acks
    <3>2. CASE h.index # unsuback
      BY <1>5, <3>2, Zenon DEF WritePacket, WriteAck, Acks
    <3> QED BY <3>1, <3>2
  <2> HIDE DEF id, body
  <2>3. Rest(packet) = 2 BY <1>3, <2>1, Zenon DEF Rest, body
  <2>4. Rests(packet, h, 2) BY <1>2, <1>5, Zenon DEF Rests, Acks
  <2>5. h.flags = 0 BY <1>1, <1>5, Zenon DEF Acks
  <2> QED
    BY <1>3, <1>4, <2>1, <2>2, <2>3, <2>4, <2>5, Zenon DEF body
<1>6. CASE h.index = pingresp
  <2>1. body = <<>> BY <1>2, <1>6, Zenon DEF Body
  <2>2. WritePacket(packet) = WriteFixed(h.index, 0, <<>>)
    <3>1. h.index # unsuback BY <1>2, <1>6, Zenon
    <3> QED BY <1>2, <1>6, <3>1, Zenon DEF WritePacket, WritePingresp
  <2>3. <<>> \in Seq(Byte) /\ Len(<<>>) = 0 OBVIOUS
  <2> HIDE DEF body
  <2>4. Rest(packet) = 0 BY <2>1, <2>3, Zenon DEF Rest, body
  <2>5. Rests(packet, h, 0) BY <1>2, <1>6, Zenon DEF Rests, Acks
  <2>6. h.flags = 0 BY <1>1, <1>2, <1>6, Zenon
  <2> QED
    BY <1>4, <2>1, <2>2, <2>3, <2>4, <2>5, <2>6, Zenon DEF body
<1>7. CASE h.index = connack
  <2> DEFINE w == <<h.session_present, h.return_code>>
  <2>1. body = w BY <1>2, <1>7, Zenon DEF Body
  <2>2. WritePacket(packet) = WriteFixed(h.index, 0, w)
    <3>1. h.index # unsuback BY <1>2, <1>7, Zenon
    <3> QED BY <1>2, <1>7, <3>1, Zenon DEF WritePacket, WriteConnack
  <2>3. w \in Seq(Byte) /\ Len(w) = 2
    <3>1. h.session_present \in Byte /\ h.return_code \in Byte
      BY <1>1, SMTT(60) DEF Header, Byte
    <3> QED BY <3>1
  <2> HIDE DEF body, w
  <2>4. Rest(packet) = 2 BY <2>1, <2>3, Zenon DEF Rest, body
  <2>5. Rests(packet, h, 2) BY <1>2, <1>7, Zenon DEF Rests
  <2>6. h.flags = 0 BY <1>1, <1>2, <1>7, Zenon
  <2> QED
    BY <1>4, <2>1, <2>2, <2>3, <2>4, <2>5, <2>6, Zenon DEF body
<1>8. CASE h.index = suback
  <2> DEFINE w == id \o h.return_codes
  <2>1. body = w BY <1>2, <1>8, Zenon DEF Body
  <2>2. WritePacket(packet) = WriteFixed(h.index, 0, w)
    BY <1>2, <1>8, Zenon DEF WritePacket, WriteSuback
  <2>3. h.return_codes \in Seq(Byte) BY <1>1 DEF Header
  <2>4. w \in Seq(Byte) /\ Len(w) = 2 + Len(h.return_codes)
    <3> HIDE DEF id
    <3>1. w \in Seq(Byte) /\ Len(w) = Len(id) + Len(h.return_codes)
      BY <1>3, <2>3, ConcatProperties, ZenonT(60)
    <3> QED BY <1>3, <3>1, Zenon
  <2>5. 2 + Len(h.return_codes) \in Variable
    <3>1. 2 + Len(h.return_codes) < 268435456
      BY SMT DEF Sendable, WellFormed
    <3>2. Len(h.return_codes) \in Nat BY <2>3
    <3> QED BY <3>1, <3>2, SMT DEF Variable, Below
  <2> HIDE DEF body, w
  <2>6. Rest(packet) = 2 + Len(h.return_codes)
    BY <2>1, <2>4, Zenon DEF Rest, body
  <2>7. Rests(packet, h, Rest(packet))
    BY <1>2, <1>8, <2>6, Zenon DEF Rests, Acks
  <2>8. h.flags = 0 BY <1>1, <1>2, <1>8, Zenon
  <2> QED
    BY <2>1, <2>2, <2>4, <2>5, <2>6, <2>7, <2>8, Zenon DEF body
<1>9. CASE h.index = publish
  <2> DEFINE a == WriteBlob(h.topic)
             c == IdBytes(h)
             w == (a \o c) \o p
  <2>1. body = w BY <1>2, <1>9, Zenon DEF Body
  <2>2. WritePacket(packet) = WriteFixed(h.index, h.flags, w)
    BY <1>2, <1>9, Zenon DEF WritePacket, WritePublish, IdBytes
  <2>3. /\ a \in Seq(Byte) /\ Len(a) = TopicField(h)
        /\ c \in Seq(Byte) /\ Len(c) = IdField(h) /\ p \in Seq(Byte)
    BY <1>1, <1>3
  <2>4. /\ w \in Seq(Byte)
        /\ Len(w) = TopicField(h) + IdField(h) + Len(p)
    <3> HIDE DEF a, c, p
    <3>1. a \o c \in Seq(Byte) /\ Len(a \o c) = Len(a) + Len(c)
      BY <2>3, ConcatProperties, Zenon
    <3>2. w \in Seq(Byte) /\ Len(w) = Len(a \o c) + Len(p)
      BY <2>3, <3>1, ConcatProperties, Zenon
    <3> QED BY <2>3, <3>1, <3>2, Zenon
  <2>5. TopicField(h) + IdField(h) + Len(p) \in Variable
    <3>2. h.topic \in Seq(Byte) BY <1>1 DEF Header
    <3>3. Len(h.topic) \in Nat /\ Len(p) \in Nat BY <2>3, <3>2
    <3>4. IdField(h) \in 0 .. 2 BY DEF IdField
    <3>5. PICK n \in Nat, m \in Nat, k \in 0 .. 2 :
            n = Len(h.topic) /\ m = Len(p) /\ k = IdField(h)
      BY <3>3, <3>4
    <3>7. 4 + n + m < 268435456
      BY <3>5, SMT DEF Sendable, WellFormed
    <3>6. (2 + n) + k + m \in Variable
      BY <3>7, SMT DEF Variable, Below
    <3> QED BY <3>5, <3>6, Zenon DEF TopicField
  <2> HIDE DEF body, w, a, c
  <2>6. Rest(packet) = TopicField(h) + IdField(h) + Len(p)
    BY <2>1, <2>4, Zenon DEF Rest, body
  <2>7. Rests(packet, h, Rest(packet))
    BY <1>2, <1>9, <2>6, Zenon DEF Rests, Acks
  <2> QED BY <2>1, <2>2, <2>4, <2>5, <2>6, <2>7, Zenon DEF body
<1>10. h.index \in Acks \cup {pingresp, connack, suback, publish}
  BY <1>1, Zenon DEF Acks
<1> QED BY <1>5, <1>6, <1>7, <1>8, <1>9, <1>10, Zenon

-----------------------------------------------------------------------------
(* A packet whose bytes stand after the first o of the stream, and a       *)
(* client that is reading it.                                              *)
Stands(packet, o) ==
  /\ wire \in Seq(Byte) /\ Sendable(packet)
  /\ Spells(o, WritePacket(packet))

InPacket(r, packet, o) ==
  LET h == packet.header
      v == Rest(packet)
      b == Base(o, v)
  IN CASE h.index = publish  -> PublishPart(r, h, v, o, b)
       [] h.index = connack  -> ConnackPart(r, h, o, b)
       [] h.index = suback   -> SubackPart(r, h, v, o, b)
       [] h.index = pingresp -> Opening(r, h, 0, o)
       [] OTHER              -> AckPart(r, h, o, b)

Uncut(r, packet, o) ==
  packet.header.index = publish =>
    Whole(r, packet.header, Base(o, Rest(packet)))

(* Where its payload starts.                                               *)
Payload(packet, o) ==
  (o + Len(WritePacket(packet))) - Len(packet.payload)

PacketAhead(r, packet, o) ==
  /\ Stands(packet, o) /\ InPacket(r, packet, o)
  /\ r.ok /\ Within(r) /\ Uncut(r, packet, o)

PacketTaken(r, q, packet, o) ==
  /\ Stop(q) = Stop(r)
  /\ \/ InPacket(q, packet, o) /\ Waits(q)
     \/ Read(q, packet.header, Payload(packet, o), Len(packet.payload))

(* Its header.                                                             *)
LEMMA StandsHeaded ==
  ASSUME NEW packet, NEW o, Stands(packet, o),
         NEW h, h = packet.header, NEW v, v = Rest(packet),
         NEW b, b = Base(o, v)
  PROVE  /\ Headed(h, v, o, b) /\ Spells(b, Body(packet)) /\ b \in Nat
         /\ v \in Nat /\ Rests(packet, h, v)
         /\ Payload(packet, o) = (b + v) - Len(packet.payload)
         /\ packet.payload = <<>> => Payload(packet, o) = b + v
<1>1. /\ wire \in Seq(Byte) /\ Sendable(packet)
      /\ Spells(o, WritePacket(packet))
  BY Zenon DEF Stands
<1>2. /\ h \in Header /\ h.index \in Handled /\ QoS(h) # 3
      /\ h.index # publish => h.flags = 0
      /\ h.flags \in 0 .. 15
  BY <1>1, SentHeader
<1>3. /\ Body(packet) \in Seq(Byte) /\ v \in Variable
      /\ WritePacket(packet) = WriteFixed(h.index, h.flags, Body(packet))
      /\ Rests(packet, h, v)
  BY <1>1, PacketBytes
<1>4. 16 * h.index + h.flags \in Byte
  BY <1>2 DEF Byte, Handled, connack, publish, puback, pubrec, pubrel,
              pubcomp, suback, unsuback, pingresp
<1>5. v = Len(Body(packet)) BY DEF Rest
<1>6. /\ \A p \in Nat : p + Len(WritePacket(packet)) = Base(p, v) + v
      /\ o \in Nat /\ o + 1 <= Len(wire)
      /\ wire[o + 1] = 16 * h.index + h.flags
      /\ Spells(o + 1, WriteVariableInteger(v))
      /\ Base(o, v) \in Nat /\ Spells(Base(o, v), Body(packet))
  <2>1. FixedAhead(h.index, h.flags, Body(packet), v,
                   WritePacket(packet))
    BY <1>3, <1>4, <1>5, Zenon DEF FixedAhead
  <2>2. FixedEnds(v, WritePacket(packet)) BY <2>1, FixedBytes, Zenon
  <2>3. FixedAt(o, h.index, h.flags, Body(packet), v)
    BY <1>1, <2>1, FixedBytes, Zenon
  <2> QED BY <2>2, <2>3, Zenon DEF FixedAt, FixedEnds
<1>7. Headed(h, v, o, b)
  BY <1>2, <1>3, <1>6, Zenon DEF Headed, Base
<1>8. Payload(packet, o) = (b + v) - Len(packet.payload)
  BY <1>6, Zenon DEF Payload
<1>9. v \in Nat BY <1>3, <1>5
<1>10. packet.payload = <<>> => Payload(packet, o) = b + v
  <2>1. Len(<<>>) = 0 OBVIOUS
  <2>2. (b + v) - 0 = b + v BY <1>6, <1>9
  <2> QED BY <1>8, <2>1, <2>2, Zenon
<1> QED BY <1>3, <1>6, <1>7, <1>8, <1>9, <1>10, Zenon

(* An acknowledgement is read.                                             *)
LEMMA AckPacketBack ==
  ASSUME NEW packet, NEW o, NEW r, PacketAhead(r, packet, o),
         packet.header.index \in Acks
  PROVE  PacketTaken(r, ReadPacket(r, packet.header.index), packet, o)
<1> DEFINE h == packet.header
           v == Rest(packet)
           b == Base(o, v)
           q == ReadPacket(r, h.index)
<1>1. /\ Stands(packet, o) /\ InPacket(r, packet, o) /\ r.ok /\ Within(r)
      /\ Sendable(packet)
  BY Zenon DEF PacketAhead, Stands
<1>2. /\ Headed(h, v, o, b) /\ Spells(b, Body(packet))
      /\ Rests(packet, h, v)
      /\ packet.payload = <<>> => Payload(packet, o) = b + v
  BY <1>1, StandsHeaded
<1>3. /\ h \in Header /\ h.index # reserved /\ h = Kept(h)
      /\ packet.payload = <<>>
  BY <1>1, SentHeader, Zenon DEF Acks
<1>4. h = [Flagged(h) EXCEPT !.packet_identifier = h.packet_identifier]
  BY <1>3, KeptHeader
<1>5. /\ publish \notin Acks /\ connack \notin Acks /\ suback \notin Acks
      /\ pingresp \notin Acks /\ unsuback \notin {publish, connack, suback,
                                                  pingresp}
  BY DEF Acks, publish, connack, suback, pingresp, unsuback
<1>6. v = 2 BY <1>2, Zenon DEF Rests
<1>7. Body(packet) = WriteUint16(h.packet_identifier)
  BY <1>5, Zenon DEF Body
<1>8. AckPart(r, h, o, b)
  <2>1. InPacket(r, packet, o) <=> AckPart(r, h, o, b)
    BY <1>5, Zenon DEF InPacket
  <2> QED BY <1>1, <2>1
<1>9. Unsigned(h.packet_identifier)
  BY <1>1, Zenon DEF Sendable, Simple
<1>10. AckAhead(r, h, o, b)
  <2> HIDE DEF h, v, b
  <2>1. h.index \notin {publish, connack, suback, pingresp}
    BY <1>5, Zenon DEF h
  <2>2. Headed(h, 2, o, b) BY <1>2, <1>6, Zenon
  <2>3. Spells(b, WriteUint16(h.packet_identifier))
    BY <1>2, <1>7, Zenon
  <2> QED
    BY <1>1, <1>4, <1>8, <1>9, <2>1, <2>2, <2>3, Zenon DEF AckAhead
<1>11. AckTaken(r, q, h, o, b)
  <2>1. CASE h.index = unsuback
    <3>1. q = ReadUnsuback(r) BY <1>5, <2>1, Zenon DEF ReadPacket
    <3> QED BY <1>10, <2>1, <3>1, UnsubackBack
  <2>2. CASE h.index # unsuback
    <3>1. q = ReadAck(r, h.index) BY <1>5, <2>2, Zenon DEF ReadPacket
    <3> QED BY <1>10, <2>2, <3>1, AckBack
  <2> QED BY <2>1, <2>2
<1>12. InPacket(q, packet, o) <=> AckPart(q, h, o, b)
  BY <1>5, Zenon DEF InPacket
<1>13. Payload(packet, o) = b + 2 /\ Len(packet.payload) = 0
  BY <1>2, <1>3, <1>6
<1> HIDE DEF q, v, b
<1> QED BY <1>11, <1>12, <1>13, Zenon DEF AckTaken, PacketTaken, q

(* CONNACK is.                                                             *)
LEMMA ConnackPacketBack ==
  ASSUME NEW packet, NEW o, NEW r, PacketAhead(r, packet, o),
         packet.header.index = connack
  PROVE  PacketTaken(r, ReadPacket(r, packet.header.index), packet, o)
<1> DEFINE h == packet.header
           v == Rest(packet)
           b == Base(o, v)
           q == ReadPacket(r, h.index)
<1>1. /\ Stands(packet, o) /\ InPacket(r, packet, o) /\ r.ok /\ Within(r)
      /\ Sendable(packet)
  BY Zenon DEF PacketAhead, Stands
<1>2. /\ Headed(h, v, o, b) /\ Spells(b, Body(packet)) /\ b \in Nat
      /\ Rests(packet, h, v)
      /\ packet.payload = <<>> => Payload(packet, o) = b + v
  BY <1>1, StandsHeaded
<1>5. /\ publish # connack /\ publish # suback /\ publish # pingresp
      /\ connack # suback /\ connack # pingresp /\ suback # pingresp
      /\ unsuback \notin {publish, connack, suback, pingresp}
  BY DEF publish, connack, suback, pingresp, unsuback
<1>3. /\ h \in Header /\ h.index # reserved /\ h = Kept(h)
      /\ packet.payload = <<>>
  BY <1>1, <1>5, SentHeader, Zenon
<1>4. h = [Present(h) EXCEPT !.return_code = h.return_code]
  BY <1>3, KeptHeader
<1>6. v = 2 BY <1>2, Zenon DEF Rests
<1>7. Body(packet) = <<h.session_present, h.return_code>>
  BY <1>5, Zenon DEF Body
<1>8. ConnackPart(r, h, o, b)
  <2>1. InPacket(r, packet, o) <=> ConnackPart(r, h, o, b)
    BY <1>5, Zenon DEF InPacket
  <2> QED BY <1>1, <2>1
<1>9. /\ b + 2 <= Len(wire) /\ wire[b + 1] = h.session_present
      /\ wire[b + 2] = h.return_code
  <2>1. PICK x, y, w : /\ x = h.session_present /\ y = h.return_code
                       /\ w = <<x, y>>
    OBVIOUS
  <2>2. Len(w) = 2 /\ w[1] = x /\ w[2] = y BY <2>1
  <2>3. Spells(b, w) BY <1>2, <1>7, <2>1, Zenon
  <2>4. /\ b + Len(w) <= Len(wire)
        /\ \A i \in 1 .. Len(w) : wire[b + i] = w[i]
    BY <2>3, Zenon DEF Spells
  <2>5. 1 \in 1 .. Len(w) /\ 2 \in 1 .. Len(w) BY <2>2
  <2> QED BY <2>1, <2>2, <2>4, <2>5, Zenon
<1>10. ConnackAhead(r, h, o, b)
  <2> HIDE DEF h, v, b
  <2>1. h.index = connack BY Zenon DEF h
  <2>2. Headed(h, 2, o, b) BY <1>2, <1>6, Zenon
  <2> QED
    BY <1>1, <1>2, <1>4, <1>8, <1>9, <2>1, <2>2, Zenon DEF ConnackAhead
<1>11. ConnackTaken(r, q, h, o, b)
  <2>1. q = ReadConnack(r) BY <1>5, Zenon DEF ReadPacket
  <2> QED BY <1>10, <2>1, ConnackBack
<1>12. InPacket(q, packet, o) <=> ConnackPart(q, h, o, b)
  BY <1>5, Zenon DEF InPacket
<1>13. Payload(packet, o) = b + 2 /\ Len(packet.payload) = 0
  BY <1>2, <1>3, <1>6
<1> HIDE DEF q, v, b
<1> QED BY <1>11, <1>12, <1>13, Zenon DEF ConnackTaken, PacketTaken, q

(* PINGRESP is.                                                            *)
LEMMA PingrespPacketBack ==
  ASSUME NEW packet, NEW o, NEW r, PacketAhead(r, packet, o),
         packet.header.index = pingresp
  PROVE  PacketTaken(r, ReadPacket(r, packet.header.index), packet, o)
<1> DEFINE h == packet.header
           v == Rest(packet)
           b == Base(o, v)
           q == ReadPacket(r, h.index)
<1>1. /\ Stands(packet, o) /\ InPacket(r, packet, o) /\ r.ok
      /\ Sendable(packet)
  BY Zenon DEF PacketAhead, Stands
<1>2. /\ Headed(h, v, o, b) /\ b \in Nat /\ Rests(packet, h, v)
      /\ packet.payload = <<>> => Payload(packet, o) = b + v
  BY <1>1, StandsHeaded
<1>5. /\ publish # connack /\ publish # suback /\ publish # pingresp
      /\ connack # suback /\ connack # pingresp /\ suback # pingresp
      /\ unsuback \notin {publish, connack, suback, pingresp}
  BY DEF publish, connack, suback, pingresp, unsuback
<1>3. /\ h \in Header /\ h.index # reserved /\ h = Kept(h)
      /\ packet.payload = <<>>
  BY <1>1, <1>5, SentHeader, Zenon
<1>4. h = Flagged(h) BY <1>3, KeptHeader
<1>6. v = 0 BY <1>2, Zenon DEF Rests
<1>8. Opening(r, h, 0, o)
  <2>1. InPacket(r, packet, o) <=> Opening(r, h, 0, o)
    BY <1>5, Zenon DEF InPacket
  <2> QED BY <1>1, <2>1
<1>10. PingAhead(r, h, o, b)
  <2> HIDE DEF h, v, b
  <2>1. h.index = pingresp BY Zenon DEF h
  <2>2. Headed(h, 0, o, b) BY <1>2, <1>6, Zenon
  <2> QED
    BY <1>1, <1>4, <1>8, <2>1, <2>2, Zenon DEF PingAhead, OpeningAhead
<1>11. PingTaken(r, q, h, o, b)
  <2>1. q = ReadPingresp(r) BY <1>5, Zenon DEF ReadPacket
  <2> QED BY <1>10, <2>1, PingrespBack
<1>12. InPacket(q, packet, o) <=> Opening(q, h, 0, o)
  BY <1>5, Zenon DEF InPacket
<1>13. Payload(packet, o) = b /\ Len(packet.payload) = 0
  <2>1. Payload(packet, o) = b + v BY <1>2, <1>3, Zenon
  <2> HIDE DEF b, v
  <2> QED BY <1>2, <1>3, <1>6, <2>1
<1> HIDE DEF q, v, b
<1> QED BY <1>11, <1>12, <1>13, Zenon DEF PingTaken, PacketTaken, q

(* SUBACK is.                                                              *)
LEMMA SubackPacketBack ==
  ASSUME NEW packet, NEW o, NEW r, PacketAhead(r, packet, o),
         packet.header.index = suback
  PROVE  PacketTaken(r, ReadPacket(r, packet.header.index), packet, o)
<1> DEFINE h == packet.header
           v == Rest(packet)
           b == Base(o, v)
           q == ReadPacket(r, h.index)
<1>1. /\ Stands(packet, o) /\ InPacket(r, packet, o) /\ r.ok /\ Within(r)
      /\ Sendable(packet) /\ wire \in Seq(Byte)
  BY Zenon DEF PacketAhead, Stands
<1>2. /\ Headed(h, v, o, b) /\ Spells(b, Body(packet)) /\ b \in Nat
      /\ Rests(packet, h, v)
      /\ packet.payload = <<>> => Payload(packet, o) = b + v
  BY <1>1, StandsHeaded
<1>5. /\ publish # connack /\ publish # suback /\ publish # pingresp
      /\ connack # suback /\ connack # pingresp /\ suback # pingresp
      /\ unsuback \notin {publish, connack, suback, pingresp}
  BY DEF publish, connack, suback, pingresp, unsuback
<1>3. /\ h \in Header /\ h.index # reserved /\ h = Kept(h)
      /\ packet.payload = <<>>
  BY <1>1, <1>5, SentHeader, Zenon
<1>4. h = [Numbered(h) EXCEPT !.return_codes = h.return_codes]
  BY <1>3, KeptHeader
<1>6. v = 2 + Len(h.return_codes) BY <1>2, Zenon DEF Rests
<1>7. Body(packet) = WriteUint16(h.packet_identifier) \o h.return_codes
  BY <1>5, Zenon DEF Body
<1>8. SubackPart(r, h, v, o, b)
  <2>1. InPacket(r, packet, o) <=> SubackPart(r, h, v, o, b)
    BY <1>5, Zenon DEF InPacket
  <2> QED BY <1>1, <2>1
<1>9. Spells(b, WriteUint16(h.packet_identifier))
      /\ Spells(b + 2, h.return_codes)
  <2>1. PICK x, y : /\ x = WriteUint16(h.packet_identifier)
                    /\ y = h.return_codes
    OBVIOUS
  <2>2. x \in Seq(Byte) /\ Len(x) = 2
    BY <1>1, <1>3, <2>1, SentTopic, FieldBytes
  <2>3. y \in Seq(Byte) BY <1>3, <2>1 DEF Header
  <2>4. Spells(b, x \o y) BY <1>2, <1>7, <2>1, Zenon
  <2>5. PICK n, e : n = 2 /\ e = b + n OBVIOUS
  <2>6. Spells(b, x) /\ Spells(e, y)
    BY <1>1, <2>2, <2>3, <2>4, <2>5, SpellsParts, Zenon
  <2> QED BY <2>1, <2>5, <2>6, Zenon
<1>14. Unsigned(h.packet_identifier) /\ Countable(h.return_codes)
  BY <1>1, Zenon DEF Sendable, Simple
<1>10. SubackAhead(r, h, v, o, b)
  <2> HIDE DEF h, v, b
  <2>1. h.index = suback BY Zenon DEF h
  <2> QED
    BY <1>1, <1>2, <1>4, <1>6, <1>8, <1>9, <1>14, <2>1, Zenon
    DEF SubackAhead
<1>11. SubackTaken(r, q, h, v, o, b)
  <2>1. q = ReadSuback(r) BY <1>5, Zenon DEF ReadPacket
  <2> QED BY <1>10, <2>1, SubackBack
<1>12. InPacket(q, packet, o) <=> SubackPart(q, h, v, o, b)
  BY <1>5, Zenon DEF InPacket
<1>13. Payload(packet, o) = b + v /\ Len(packet.payload) = 0
  BY <1>2, <1>3
<1> HIDE DEF q, v, b
<1> QED BY <1>11, <1>12, <1>13, Zenon DEF SubackTaken, PacketTaken, q

(* PUBLISH is, up to its payload.                                          *)
LEMMA PublishPacketBack ==
  ASSUME NEW packet, NEW o, NEW r, PacketAhead(r, packet, o),
         packet.header.index = publish
  PROVE  PacketTaken(r, ReadPacket(r, packet.header.index), packet, o)
<1> DEFINE h == packet.header
           v == Rest(packet)
           b == Base(o, v)
           q == ReadPacket(r, h.index)
           size == Len(packet.payload)
<1>1. /\ Stands(packet, o) /\ InPacket(r, packet, o) /\ r.ok /\ Within(r)
      /\ Sendable(packet) /\ wire \in Seq(Byte) /\ Whole(r, h, b)
  BY Zenon DEF PacketAhead, Stands, Uncut
<1>2. /\ Headed(h, v, o, b) /\ Spells(b, Body(packet)) /\ b \in Nat
      /\ Rests(packet, h, v)
      /\ Payload(packet, o) = (b + v) - size
  BY <1>1, StandsHeaded
<1>5. /\ publish # connack /\ publish # suback /\ publish # pingresp
      /\ connack # suback /\ connack # pingresp /\ suback # pingresp
      /\ unsuback \notin {publish, connack, suback, pingresp}
  BY DEF publish, connack, suback, pingresp, unsuback
<1>3. /\ h \in Header /\ h.index # reserved /\ h = Kept(h)
      /\ packet.payload \in Seq(Byte)
  BY <1>1, SentHeader, Zenon
<1>4. h = IF QoS(h) = 0 THEN Topped(h)
          ELSE [Topped(h) EXCEPT !.packet_identifier = h.packet_identifier]
  BY <1>3, KeptHeader
<1>6. v = TopicField(h) + IdField(h) + size BY <1>2, Zenon DEF Rests
<1>7. Body(packet) = (WriteBlob(h.topic) \o IdBytes(h)) \o packet.payload
  BY <1>5, Zenon DEF Body
<1>8. PublishPart(r, h, v, o, b)
  <2>1. InPacket(r, packet, o) <=> PublishPart(r, h, v, o, b)
    BY <1>5, Zenon DEF InPacket
  <2> QED BY <1>1, <2>1
<1>15. Len(h.topic) \in Short /\ Len(h.topic) <= TopicMax
  BY <1>1, SentTopic
<1>9. /\ Spells(b, WriteBlob(h.topic))
      /\ Spells(b + TopicField(h), IdBytes(h))
  <2>1. PICK x, y, z : /\ x = WriteBlob(h.topic) /\ y = IdBytes(h)
                       /\ z = packet.payload
    OBVIOUS
  <2>2. /\ x \in Seq(Byte) /\ Len(x) = TopicField(h)
        /\ y \in Seq(Byte) /\ z \in Seq(Byte)
    BY <1>3, <1>15, <2>1, FieldBytes
  <2>3. PICK f : f = x \o y OBVIOUS
  <2>4. f \in Seq(Byte) BY <2>2, <2>3, ConcatProperties, Zenon
  <2>5. Spells(b, f \o z) BY <1>2, <1>7, <2>1, <2>3, Zenon
  <2>6. PICK n, e : n = Len(f) /\ e = b + n OBVIOUS
  <2>7. Spells(b, f)
    BY <1>1, <2>2, <2>4, <2>5, <2>6, SpellsParts, Zenon
  <2>8. PICK m, d : m = TopicField(h) /\ d = b + m OBVIOUS
  <2>9. Spells(b, x \o y) BY <2>3, <2>7, Zenon
  <2>10. m = Len(x) BY <2>2, <2>8, Zenon
  <2>11. Spells(b, x) /\ Spells(d, y)
    BY <1>1, <2>2, <2>8, <2>9, <2>10, SpellsParts, Zenon
  <2> QED BY <2>1, <2>8, <2>11, Zenon
<1>14. Unsigned(h.packet_identifier) /\ Unsigned(Len(h.topic))
  BY <1>1, Zenon DEF Sendable, Simple
<1>16. size \in Nat BY <1>3
<1>10. PublishAhead(r, h, v, o, b, size)
  <2> HIDE DEF h, v, b, size
  <2>1. h.index = publish BY Zenon DEF h
  <2>2. QoS(h) # 0 => IdBytes(h) = WriteUint16(h.packet_identifier)
    BY Zenon DEF IdBytes
  <2>3. QoS(h) # 0 => Spells(b + TopicField(h),
                             WriteUint16(h.packet_identifier))
    BY <1>9, <2>2, Zenon
  <2>4. PublishLaid(h, v, b, size)
    BY <1>2, <1>3, <1>4, <1>6, <1>9, <1>14, <1>15, <1>16, <2>1, <2>3, Zenon
    DEF PublishLaid
  <2> QED BY <1>1, <1>2, <1>8, <2>4, Zenon DEF PublishAhead
<1>11. PublishTaken(r, q, h, v, o, b, size)
  <2>1. q = ReadPublish(r) BY <1>5, Zenon DEF ReadPacket
  <2> QED BY <1>10, <2>1, PublishBack
<1>12. InPacket(q, packet, o) <=> PublishPart(q, h, v, o, b)
  BY <1>5, Zenon DEF InPacket
<1> HIDE DEF q, v, b
<1> QED BY <1>2, <1>11, <1>12, Zenon DEF PublishTaken, PacketTaken, q

(* Every packet is read, or what is available is used up.                  *)
LEMMA PacketBack ==
  ASSUME NEW packet, NEW o, NEW r, PacketAhead(r, packet, o)
  PROVE  PacketTaken(r, ReadPacket(r, packet.header.index), packet, o)
<1>1. packet.header.index \in Handled
  <2>1. Sendable(packet) BY Zenon DEF PacketAhead, Stands
  <2> QED BY <2>1, SentHeader
<1>2. packet.header.index
        \in Acks \cup {publish, connack, suback, pingresp}
  BY <1>1, Zenon DEF Acks
<1> QED
  BY <1>2, AckPacketBack, ConnackPacketBack, PingrespPacketBack,
     SubackPacketBack, PublishPacketBack, Zenon

-----------------------------------------------------------------------------
(* The least of some natural numbers.                                      *)
LEMMA Least ==
  ASSUME NEW T, T \subseteq Nat, T # {}
  PROVE  \E x \in T : \A y \in T : x <= y
<1>1. PICK x \in T : \A y \in T : ~(<<y, x>> \in OpToRel(<, Nat))
  BY WFMin, NatLessThanWellFounded, Zenon
<1>2. ASSUME NEW y \in T PROVE x <= y
  <2>1. x \in Nat /\ y \in Nat OBVIOUS
  <2>2. ~(y < x) BY <1>1, <2>1, Zenon DEF OpToRel
  <2> QED BY <2>1, <2>2
<1> QED BY <1>2

(* The concatenations of the first elements of a function exist.           *)
Joined(f, n) ==
  \E g : g = [i \in 0 .. n |-> IF i = 0 THEN <<>> ELSE g[i - 1] \o f[i]]

(* They do for every number of elements, by the least counterexample.    *)
LEMMA JoinedExists ==
  ASSUME NEW f, NEW n \in Nat
  PROVE  Joined(f, n)
<1> DEFINE T == {k \in Nat : ~Joined(f, k)}
<1>1. SUFFICES ASSUME T # {} PROVE FALSE OBVIOUS
<1>2. PICK x \in T : \A y \in T : x <= y BY <1>1, Least
<1>3. x \in Nat /\ ~Joined(f, x) OBVIOUS
<1>4. CASE x = 0
  <2> DEFINE g == [i \in 0 .. 0 |-> <<>>]
  <2>1. \A i \in 0 .. 0 : i = 0 OBVIOUS
  <2>2. g = [i \in 0 .. 0 |-> IF i = 0 THEN <<>> ELSE g[i - 1] \o f[i]]
    BY <2>1, Zenon
  <2>3. Joined(f, 0) BY <2>2, Zenon DEF Joined
  <2> QED BY <1>3, <1>4, <2>3
<1>5. CASE x # 0
  <2>1. x - 1 \in Nat /\ ~(x <= x - 1) BY <1>3, <1>5
  <2>2. Joined(f, x - 1) BY <1>2, <2>1
  <2>3. PICK g : g = [i \in 0 .. x - 1 |->
                        IF i = 0 THEN <<>> ELSE g[i - 1] \o f[i]]
    BY <2>2, Zenon DEF Joined
  <2> DEFINE e == [i \in 0 .. x |->
                     IF i = x THEN g[x - 1] \o f[x] ELSE g[i]]
             d == [i \in 0 .. x |->
                     IF i = 0 THEN <<>> ELSE e[i - 1] \o f[i]]
  <2>4. ASSUME NEW i \in 0 .. x PROVE e[i] = d[i]
    <3>1. CASE i = 0
      <4>1. 0 \in 0 .. x - 1 /\ 0 # x BY <1>5, <2>1
      <4>2. e[0] = g[0] BY <3>1, <4>1
      <4>3. g[0] = <<>> BY <2>3, <4>1
      <4>4. d[0] = <<>> BY <3>1, <4>1
      <4> QED BY <3>1, <4>2, <4>3, <4>4
    <3>2. CASE i # 0
      <4>1. i - 1 \in 0 .. x - 1 /\ i - 1 \in 0 .. x /\ i - 1 # x
        BY <1>3, <3>2
      <4>2. e[i - 1] = g[i - 1] BY <4>1
      <4>3. d[i] = g[i - 1] \o f[i] BY <3>2, <4>2, SMTT(60)
      <4>4. CASE i = x BY <4>3, <4>4
      <4>5. CASE i # x
        <5>1. i \in 0 .. x - 1 BY <1>3, <4>5
        <5>2. e[i] = g[i] BY <4>5
        <5>3. g[i] = IF i = 0 THEN <<>> ELSE g[i - 1] \o f[i]
          BY <2>3, <5>1, Zenon
        <5> QED BY <3>2, <4>3, <5>2, <5>3, Zenon
      <4> QED BY <4>4, <4>5
    <3> QED BY <3>1, <3>2
  <2>5. e = d BY <2>4, Zenon
  <2> HIDE DEF e
  <2>6. Joined(f, x) BY <2>5, Zenon DEF Joined
  <2> QED BY <1>3, <2>6
<1> QED BY <1>4, <1>5

(* The bytes of the first i packets are those of one packet fewer and then *)
(* those of the last.                                                      *)
LEMMA WrittenStep ==
  ASSUME NEW s \in Streams
  PROVE  /\ Len(s) \in Nat /\ Written[s][0] = <<>>
         /\ \A i \in 1 .. Len(s) :
              Written[s][i] = Written[s][i - 1] \o WritePacket(s[i])
<1>1. s \in Seq([header: Header, payload: Seq(Byte)])
  BY FeedAssumption, Zenon DEF FeedAssumption
<1>2. PICK n \in Nat : n = Len(s) BY <1>1
<1> DEFINE f == [i \in 1 .. n |-> WritePacket(s[i])]
           F(g) == [i \in 0 .. n |->
                      IF i = 0 THEN <<>> ELSE g[i - 1] \o WritePacket(s[i])]
           g == CHOOSE g : g = F(g)
<1>3. Written[s] = g BY <1>2, Zenon DEF Written
<1>4. \E e : e = F(e)
  <2>1. Joined(f, n) BY JoinedExists
  <2>2. PICK e : e = [i \in 0 .. n |->
                        IF i = 0 THEN <<>> ELSE e[i - 1] \o f[i]]
    BY <2>1, Zenon DEF Joined
  <2>3. \A i \in 0 .. n : i = 0 \/ i \in 1 .. n OBVIOUS
  <2>4. \A i \in 1 .. n : f[i] = WritePacket(s[i]) OBVIOUS
  <2> HIDE DEF f
  <2>5. \A i \in 0 .. n :
          (IF i = 0 THEN <<>> ELSE e[i - 1] \o f[i])
            = (IF i = 0 THEN <<>> ELSE e[i - 1] \o WritePacket(s[i]))
    BY <2>3, <2>4, Zenon
  <2>6. e = F(e) BY <2>2, <2>5, Zenon
  <2> QED BY <2>6, Zenon
<1>5. g = F(g) BY <1>4, Zenon
<1> HIDE DEF g
<1>6. 0 \in 0 .. n OBVIOUS
<1>7. g[0] = <<>> BY <1>5, <1>6, Zenon
<1>8. ASSUME NEW i \in 1 .. n
      PROVE  g[i] = g[i - 1] \o WritePacket(s[i])
  <2>1. i \in 0 .. n /\ i # 0 OBVIOUS
  <2> QED BY <1>5, <2>1, Zenon
<1> QED BY <1>2, <1>3, <1>7, <1>8, Zenon

(* One sequence of bytes is the beginning of another.                      *)
Begins(a, b) ==
  /\ a \in Seq(Byte) /\ b \in Seq(Byte) /\ Len(a) <= Len(b)
  /\ \A j \in 1 .. Len(a) : b[j] = a[j]

(* A concatenation begins with its first part.                           *)
LEMMA BeginsConcat ==
  ASSUME NEW a \in Seq(Byte), NEW b \in Seq(Byte)
  PROVE  Begins(a, a \o b) /\ Begins(a, a)
<1>1. /\ a \o b \in Seq(Byte) /\ Len(a \o b) = Len(a) + Len(b)
      /\ \A j \in 1 .. Len(a) : (a \o b)[j] = a[j]
  BY ConcatProperties
<1>2. Len(a) \in Nat /\ Len(b) \in Nat OBVIOUS
<1>3. Len(a) <= Len(a \o b) BY <1>1, <1>2
<1>4. Len(a) <= Len(a) BY <1>2
<1> QED BY <1>1, <1>3, <1>4, Zenon DEF Begins

(* So is what begins its beginning.                                        *)
LEMMA BeginsTransitive ==
  ASSUME NEW a, NEW b, NEW c, Begins(a, b), Begins(b, c)
  PROVE  Begins(a, c)
<1>1. Len(a) \in Nat /\ Len(b) \in Nat /\ Len(c) \in Nat BY DEF Begins
<1>2. Len(a) <= Len(b) /\ Len(b) <= Len(c) BY DEF Begins
<1>3. Len(a) <= Len(c) BY <1>1, <1>2
<1>4. \A j \in 1 .. Len(a) : j \in 1 .. Len(b) BY <1>1, <1>2
<1> QED BY <1>3, <1>4, Zenon DEF Begins

(* A packet is a sequence of bytes.                                        *)
LEMMA PacketSequence ==
  ASSUME NEW x, Sendable(x)
  PROVE  WritePacket(x) \in Seq(Byte)
<1>2. /\ Body(x) \in Seq(Byte) /\ Rest(x) \in Variable
      /\ WritePacket(x)
           = WriteFixed(x.header.index, x.header.flags, Body(x))
  BY PacketBytes
<1>3. x.header.index \in Handled /\ x.header.flags \in 0 .. 15
  BY SentHeader
<1>4. 16 * x.header.index + x.header.flags \in Byte
  BY <1>3 DEF Byte, Handled, connack, publish, puback, pubrec, pubrel,
              pubcomp, suback, unsuback, pingresp
<1>5. FixedAhead(x.header.index, x.header.flags, Body(x), Rest(x),
                 WritePacket(x))
  BY <1>2, <1>4, Zenon DEF FixedAhead, Rest
<1> QED BY <1>5, FixedBytes, Zenon

(* A stream all of whose packets a client can be sent.                     *)
Sends(s) == s \in Streams /\ \A i \in 1 .. Len(s) : Sendable(s[i])

Grown(s, k) == \A i \in 0 .. k : Begins(Written[s][i], Written[s][k])

(* It begins with each of its packets' beginnings.                         *)
LEMMA WrittenGrows ==
  ASSUME NEW s, Sends(s)
  PROVE  \A k \in 0 .. Len(s) : Grown(s, k)
<1> DEFINE w == Written[s]
           T == {k \in 0 .. Len(s) : ~Grown(s, k)}
<1>1. /\ Len(s) \in Nat /\ w[0] = <<>>
      /\ \A i \in 1 .. Len(s) : w[i] = w[i - 1] \o WritePacket(s[i])
  BY WrittenStep, Zenon DEF Sends
<1>2. SUFFICES ASSUME T # {} PROVE FALSE OBVIOUS
<1>3. T \subseteq Nat BY <1>1
<1>4. PICK x \in T : \A y \in T : x <= y BY <1>2, <1>3, Least
<1>5. x \in 0 .. Len(s) /\ ~Grown(s, x) OBVIOUS
<1>6. CASE x = 0
  <2>1. <<>> \in Seq(Byte) OBVIOUS
  <2>2. Begins(w[0], w[0]) BY <1>1, <2>1, BeginsConcat
  <2>3. \A i \in 0 .. 0 : i = 0 OBVIOUS
  <2>4. Grown(s, 0) BY <2>2, <2>3, Zenon DEF Grown
  <2> QED BY <1>5, <1>6, <2>4
<1>7. CASE x # 0
  <2>1. /\ x - 1 \in 0 .. Len(s) /\ ~(x <= x - 1) /\ x \in 1 .. Len(s)
        /\ x - 1 \in 0 .. x - 1
    BY <1>1, <1>5, <1>7
  <2>2. Grown(s, x - 1) BY <1>4, <2>1
  <2>3. Begins(w[x - 1], w[x - 1]) BY <2>1, <2>2, Zenon DEF Grown
  <2>4. WritePacket(s[x]) \in Seq(Byte)
    <3>1. Sendable(s[x]) BY <2>1, Zenon DEF Sends
    <3> QED BY <3>1, PacketSequence
  <2>5. w[x - 1] \in Seq(Byte) BY <2>3, Zenon DEF Begins
  <2>6. w[x] = w[x - 1] \o WritePacket(s[x]) BY <1>1, <2>1
  <2>7. Begins(w[x - 1], w[x]) BY <2>4, <2>5, <2>6, BeginsConcat
  <2>8. Begins(w[x], w[x])
    <3>1. w[x] \in Seq(Byte) BY <2>7, Zenon DEF Begins
    <3> QED BY <3>1, BeginsConcat
  <2>9. ASSUME NEW i \in 0 .. x PROVE Begins(w[i], w[x])
    <3>1. CASE i = x BY <2>8, <3>1
    <3>2. CASE i # x
      <4>1. i \in 0 .. x - 1 BY <1>5, <3>2
      <4>2. Begins(w[i], w[x - 1]) BY <2>2, <4>1, Zenon DEF Grown
      <4> QED BY <2>7, <4>2, BeginsTransitive
    <3> QED BY <3>1, <3>2
  <2>10. Grown(s, x) BY <2>9, Zenon DEF Grown
  <2> QED BY <1>5, <2>10
<1> QED BY <1>6, <1>7

(* Each packet stands where the ones before it end.                        *)
LEMMA PacketStands ==
  ASSUME NEW s, Sends(s), wire = WireOf[s], NEW i \in Nat, i < Len(s)
  PROVE  /\ Stands(s[i + 1], Len(Written[s][i]))
         /\ Len(Written[s][i]) \in Nat
         /\ Len(Written[s][i]) + Len(WritePacket(s[i + 1]))
              = Len(Written[s][i + 1])
<1> DEFINE w == Written[s]
           p == WritePacket(s[i + 1])
<1>1. /\ Len(s) \in Nat
      /\ \A k \in 1 .. Len(s) : w[k] = w[k - 1] \o WritePacket(s[k])
  BY WrittenStep, Zenon DEF Sends
<1>2. /\ i + 1 \in 1 .. Len(s) /\ i + 1 \in 0 .. Len(s)
      /\ Len(s) \in 0 .. Len(s) /\ (i + 1) - 1 = i /\ i \in 0 .. Len(s)
      /\ i \in 0 .. i + 1
  BY <1>1
<1>3. wire = w[Len(s)] BY Zenon DEF WireOf, Sends
<1>4. /\ Begins(w[i + 1], wire) /\ Begins(w[i], w[i + 1])
  BY <1>2, <1>3, WrittenGrows, Zenon DEF Grown
<1>5. w[i + 1] = w[i] \o p BY <1>1, <1>2
<1>6. /\ w[i] \in Seq(Byte) /\ wire \in Seq(Byte)
      /\ w[i + 1] \in Seq(Byte)
  BY <1>4, Zenon DEF Begins
<1>7. Sendable(s[i + 1]) BY <1>2, Zenon DEF Sends
<1>8. p \in Seq(Byte) BY <1>7, PacketSequence
<1> HIDE DEF w, p
<1>9. Len(w[i] \o p) = Len(w[i]) + Len(p) BY <1>6, <1>8, ConcatProperties
<1>10. Len(w[i]) \in Nat /\ Len(p) \in Nat BY <1>6, <1>8
<1>11. Spells(0, w[i] \o p)
  <2>1. PICK c : c = w[i + 1] OBVIOUS
  <2>2. /\ Len(c) <= Len(wire) /\ \A j \in 1 .. Len(c) : wire[j] = c[j]
        /\ c \in Seq(Byte)
    BY <1>4, <2>1, Zenon DEF Begins
  <2>3. 0 + Len(c) <= Len(wire) /\ 0 \in Nat BY <2>2
  <2>4. \A j \in 1 .. Len(c) : 0 + j = j BY <2>2
  <2>5. Spells(0, c) BY <2>2, <2>3, <2>4, Zenon DEF Spells
  <2> QED BY <1>5, <2>1, <2>5, Zenon
<1>12. Spells(Len(w[i]), p)
  <2>1. PICK n, e, z : z = 0 /\ n = Len(w[i]) /\ e = z + n OBVIOUS
  <2>2. Spells(z, w[i] \o p) BY <1>11, <2>1, Zenon
  <2>3. Spells(e, p)
    BY <1>6, <1>8, <2>1, <2>2, SpellsParts, Zenon
  <2>4. e = Len(w[i]) BY <1>10, <2>1
  <2> QED BY <2>3, <2>4, Zenon
<1>13. Stands(s[i + 1], Len(w[i]))
  BY <1>6, <1>7, <1>12, Zenon DEF Stands, p
<1> QED BY <1>5, <1>9, <1>10, <1>13, Zenon DEF w, p

-----------------------------------------------------------------------------
(* What a client that reads them stands at, once it has delivered n of the *)
(* packets: in the middle of the next one, or between the two.             *)
Between(r, n) ==
  r.read_type = reserved => r.pos + r.read_ignore = End(n)

Amid(r, n) ==
  r.read_type # reserved =>
    /\ r.read_ignore = 0 /\ n < Len(sent)
    /\ r.read_type = sent[n + 1].header.index
    /\ InPacket(r, sent[n + 1], End(n))

Stage(r, n) ==
  /\ Sound(r) /\ r.good /\ r.ec \in {"none", "handler_error"}
  /\ Between(r, n) /\ Amid(r, n)

FeedInvariant ==
  /\ sent \in Streams /\ wire = WireOf[sent] /\ DeliversInOrder
  /\ Stage(client, Len(client.callbacks))

(* What is asked of the streams, the caller and the handlers. Each clause  *)
(* leaves out a case in which the code loses its place: a piece that ends  *)
(* inside a topic, a call without a number of bytes, a payload byte looked *)
(* at and not extracted, a low byte that is sign-extended, and a SUBACK    *)
(* that counts the eight-bit sequence over.                                *)
Benign ==
  /\ SplitsTopics = {} /\ Modes \subseteq {"nonblocking"}
  /\ \A h \in Handlers : ~h.peek
  /\ \A packets \in Streams :
       \A i \in 1 .. Len(packets) : Simple(packets[i])

(* Where no part of a topic may be cut, every piece ends outside topics.   *)
LEMMA UncutArrivals ==
  ASSUME SplitsTopics = {}
  PROVE  Arrivals = {a \in Offered \ {0} : client.pos + a \notin InsideTopics}
BY DEF Arrivals

(* Two states that agree on the packet being read.                         *)
SameReading(r, q) ==
  /\ Good(q) /\ q.good /\ q.ec = "none"
  /\ q.read_header = r.read_header /\ q.sequence = r.sequence
  /\ q.pos = r.pos /\ q.remaining_size = r.remaining_size
  /\ q.data0 = r.data0 /\ q.data1 = r.data1

(* They are in the same part of it.                                        *)
LEMMA SameParts ==
  ASSUME NEW r, NEW q, SameReading(r, q)
  PROVE  /\ \A h, s, p, m : At(r, h, s, p, m) => At(q, h, s, p, m)
         /\ \A h, v, o : Opening(r, h, v, o) => Opening(q, h, v, o)
         /\ \A h, s, v, p, m :
              InShort(r, h, s, v, p, m) => InShort(q, h, s, v, p, m)
<1>1. \A h, s, p, m : At(r, h, s, p, m) => At(q, h, s, p, m)
  BY Zenon DEF At, SameReading
<1>2. \A h, s, v, p, m :
        InShort(r, h, s, v, p, m) => InShort(q, h, s, v, p, m)
  BY ZenonT(60) DEF InShort, HalfShort, SameReading
<1>3. \A v, k, s : Partial(r, v, k, s) => Partial(q, v, k, s)
  BY Zenon DEF Partial, SameReading
<1>4. \A v, s : Half(r, v, s) => Half(q, v, s)
  BY <1>3, Zenon DEF Half, SameReading
<1>5. \A h, v, p : InLength(r, h, v, p) => InLength(q, h, v, p)
  BY <1>4, Zenon DEF InLength, SameReading
<1>6. \A h, v, o : Opening(r, h, v, o) => Opening(q, h, v, o)
  BY <1>1, <1>5, Zenon DEF Opening, Start
<1> QED BY <1>1, <1>2, <1>6

(* Where a reader is in a packet depends on what it has read only.       *)
LEMMA SameInPacket ==
  ASSUME NEW r, NEW q, SameReading(r, q), NEW packet, NEW o,
         InPacket(r, packet, o)
  PROVE  InPacket(q, packet, o)
<1> DEFINE h == packet.header
           v == Rest(packet)
           b == Base(o, v)
<1>1. /\ \A g, s, p, m : At(r, g, s, p, m) => At(q, g, s, p, m)
      /\ \A g, w, p : Opening(r, g, w, p) => Opening(q, g, w, p)
      /\ \A g, s, w, p, m :
           InShort(r, g, s, w, p, m) => InShort(q, g, s, w, p, m)
  BY SameParts
<1> HIDE DEF h, v, b
<1>2. PublishPart(r, h, v, o, b) => PublishPart(q, h, v, o, b)
  BY <1>1, Zenon DEF PublishPart, InId
<1>3. ConnackPart(r, h, o, b) => ConnackPart(q, h, o, b)
  BY <1>1, Zenon DEF ConnackPart
<1>4. SubackPart(r, h, v, o, b) => SubackPart(q, h, v, o, b)
  BY <1>1, Zenon DEF SubackPart, CodesPart, CodesAt
<1>5. AckPart(r, h, o, b) => AckPart(q, h, o, b)
  BY <1>1, Zenon DEF AckPart
<1>6. Opening(r, h, 0, o) => Opening(q, h, 0, o) BY <1>1
<1>7. /\ publish # connack /\ publish # suback /\ publish # pingresp
      /\ connack # suback /\ connack # pingresp /\ suback # pingresp
  BY DEF publish, connack, suback, pingresp
<1> QED
  BY <1>2, <1>3, <1>4, <1>5, <1>6, <1>7, Zenon DEF InPacket, h, v, b

(* A packet of which nothing has been read yet is being begun.             *)
LEMMA InPacketBegins ==
  ASSUME NEW r, NEW packet, NEW o, InPacket(r, packet, o)
  PROVE  /\ Good(r) /\ r.good /\ r.ec = "none"
         /\ r.sequence = 0 => Start(r, packet.header, o)
<1> DEFINE h == packet.header
           v == Rest(packet)
           b == Base(o, v)
           Well == /\ Good(r) /\ r.good /\ r.ec = "none"
                   /\ r.sequence = 0 => Start(r, h, o)
<1>1. /\ 2 # 0 /\ 1 # 0 /\ 3 # 0 OBVIOUS
<1> HIDE DEF h, v, b
<1>2. \A g, s, p, m : At(r, g, s, p, m) =>
        Good(r) /\ r.good /\ r.ec = "none" /\ r.sequence = s
  BY Zenon DEF At
<1>3. \A w, p : Half(r, w, p) => Good(r) /\ r.good /\ r.ec = "none"
  BY Zenon DEF Half, Partial
<1>4. \A w : Opening(r, h, w, o) => Well
  BY <1>1, <1>2, <1>3, Zenon DEF Opening, InLength, Start
<1>5. \A g, s, w, p, m : InShort(r, g, s, w, p, m) =>
        Good(r) /\ r.good /\ r.ec = "none" /\ r.sequence = s
  BY Zenon DEF InShort, HalfShort
<1>6. PublishPart(r, h, v, o, b) => Well
  BY <1>1, <1>2, <1>4, <1>5, Zenon DEF PublishPart, InId
<1>7. ConnackPart(r, h, o, b) => Well
  BY <1>1, <1>2, <1>4, Zenon DEF ConnackPart
<1>8. SubackPart(r, h, v, o, b) => Well
  <2>1. ASSUME CodesPart(r, h, b + 2) PROVE Well
    <3>1. PICK i \in Nat : CodesAt(r, h, b + 2, i)
      BY <2>1, Zenon DEF CodesPart
    <3>2. 3 + i # 0 OBVIOUS
    <3> QED BY <1>2, <3>1, <3>2, Zenon DEF CodesAt
  <2> QED BY <1>1, <1>4, <1>5, <2>1, Zenon DEF SubackPart
<1>9. AckPart(r, h, o, b) => Well
  BY <1>1, <1>4, <1>5, Zenon DEF AckPart
<1> HIDE DEF Well
<1>10. Well
  BY <1>4, <1>6, <1>7, <1>8, <1>9, Zenon DEF InPacket, h, v, b
<1> QED BY <1>10, Zenon DEF Well, h

-----------------------------------------------------------------------------
(* _skip_ignored within the stream: what it discards is no longer to be    *)
(* ignored.                                                                *)
LEMMA SkipsWithin ==
  ASSUME NEW r, Sound(r), r.good, Within(r), NEW q, q = SkipIgnored(r)
  PROVE  /\ Sound(q) /\ q.good /\ Stop(q) = Stop(r)
         /\ q.pos + q.read_ignore = r.pos + r.read_ignore
         /\ q.available # 0 => q.read_ignore = 0
         /\ r.read_ignore = 0 => q.pos = r.pos /\ q.read_ignore = 0
         /\ SamePacket(r, q) /\ q.ok = r.ok /\ q.ec = r.ec
         /\ q.callbacks = r.callbacks
<1> DEFINE skip == StdMin(r.read_ignore, r.available)
           got  == Got(r, skip)
<1>1. Good(r) /\ r \in ClientState /\ Sound(q)
  BY SkipIgnoredSound DEF Sound, Good
<1>2. /\ q.ok = r.ok /\ q.ec = r.ec /\ q.callbacks = r.callbacks
      /\ q.available # 0 => q.read_ignore = 0
      /\ r.read_ignore = 0 => q.pos = r.pos /\ q.read_ignore = 0
  BY SkipIgnoredCounts
<1>3. /\ q.pos = r.pos + got /\ q.good = (r.good /\ got = skip)
      /\ q.read_ignore = r.read_ignore - skip
      /\ q.available = r.available - skip /\ SamePacket(r, q)
  BY <1>1 DEF SkipIgnored, ClientState, SamePacket
<1>4. /\ r.read_ignore \in Nat /\ r.available \in Nat /\ r.pos \in Nat
      /\ Len(wire) \in Nat
  BY <1>1, Fields DEF Good
<1>5. skip \in Nat /\ skip <= r.read_ignore /\ skip <= r.available
  BY <1>4 DEF StdMin
<1> HIDE DEF skip
<1>6. skip <= Len(wire) - r.pos BY <1>4, <1>5 DEF Within, Stop
<1>7. got = skip
  <2>1. got = StdMin(skip, Len(wire) - r.pos) BY DEF Got
  <2> QED BY <1>6, <2>1 DEF StdMin
<1> HIDE DEF got
<1>8. /\ Stop(q) = Stop(r)
      /\ q.pos + q.read_ignore = r.pos + r.read_ignore
  BY <1>3, <1>4, <1>5, <1>7 DEF Stop
<1>9. q.good BY <1>3, <1>7, Zenon
<1> QED BY <1>1, <1>2, <1>3, <1>8, <1>9, Zenon

(* The first byte of a packet tells its type.                              *)
LEMMA PacketType ==
  ASSUME NEW packet, NEW o, Stands(packet, o)
  PROVE  /\ o \in Nat /\ o + 1 <= Len(wire)
         /\ wire[o + 1] \div 16 = packet.header.index
<1> DEFINE h == packet.header
           v == Rest(packet)
           b == Base(o, v)
<1>1. Headed(h, v, o, b) BY StandsHeaded
<1>2. /\ h.index \in Handled /\ h \in Header
      /\ o \in Nat /\ o + 1 <= Len(wire)
      /\ wire[o + 1] = 16 * h.index + h.flags
  BY <1>1, Zenon DEF Headed
<1>3. h.flags \in 0 .. 15 BY <1>2, FlaggedHeader
<1> HIDE DEF h
<1>4. h.index \in 0 .. 13
  BY <1>2 DEF Handled, connack, publish, puback, pubrec, pubrel, pubcomp,
              suback, unsuback, pingresp
<1>5. wire[o + 1] \div 16 = h.index
  <2>1. PICK i \in 0 .. 13, f \in 0 .. 15 : i = h.index /\ f = h.flags
    BY <1>3, <1>4
  <2>2. (16 * i + f) \div 16 = i OBVIOUS
  <2> QED BY <1>2, <2>1, <2>2, Zenon
<1> QED BY <1>2, <1>5, Zenon DEF h

(* peek_type sees the type of the packet that stands there.                *)
Peeked(r, q, packet) ==
  /\ Sound(q) /\ q.good /\ q.read_type = packet.header.index
  /\ q.pos = r.pos /\ q.available = r.available
  /\ q.read_ignore = r.read_ignore /\ q.callbacks = r.callbacks
  /\ q.ok = r.ok /\ q.ec = r.ec /\ Idle(q)

(* Peeking at the first byte of a packet finds its type and takes nothing.*)
LEMMA PeeksPacket ==
  ASSUME NEW packet, NEW r, Stands(packet, r.pos), Sound(r), r.good,
         r.read_type = reserved
  PROVE  Peeked(r, PeekType(r), packet)
<1> SUFFICES ASSUME NEW q, q = PeekType(r), NEW o, o = r.pos
             PROVE  Peeked(r, q, packet)
  OBVIOUS
<1> DEFINE h == packet.header
<1>1. o \in Nat /\ o + 1 <= Len(wire) /\ wire[o + 1] \div 16 = h.index
  BY PacketType
<1> HIDE DEF h
<1>2. r \in ClientState /\ Idle(r) /\ Len(wire) \in Nat
  BY DEF Sound, Good
<1>3. r.pos < Len(wire) BY <1>1, <1>2
<1>4. q = [r EXCEPT !.read_type = h.index]
  BY <1>1, <1>3, Zenon DEF PeekType
<1>5. Sound(q) BY PeekTypeSound
<1>6. /\ q.good /\ q.read_type = h.index
       /\ q.pos = r.pos /\ q.available = r.available
       /\ q.read_ignore = r.read_ignore /\ q.callbacks = r.callbacks
       /\ q.ok = r.ok /\ q.ec = r.ec
       /\ q.sequence = r.sequence /\ q.data0 = r.data0
       /\ q.data1 = r.data1 /\ q.remaining_size = r.remaining_size
  BY <1>2, <1>4 DEF ClientState
<1>7. Idle(q) BY <1>2, <1>6, Zenon DEF Idle
<1> QED BY <1>5, <1>6, <1>7, Zenon DEF h, Peeked

(* A client that reads the packet that stands there, or is about to.       *)
Meets(r, packet, o) ==
  /\ Sound(r) /\ r.good /\ r.ok /\ r.ec = "none" /\ Within(r)
  /\ r.read_type = packet.header.index /\ r.read_ignore = 0
  /\ \/ r.pos = o /\ Idle(r)
     \/ InPacket(r, packet, o)
  /\ Stands(packet, o) /\ Uncut(r, packet, o)

(* The header is emplaced when the packet begins, and only then.           *)
LEMMA EmplacesOnce ==
  ASSUME NEW packet, NEW o, NEW r, Meets(r, packet, o),
         NEW s, s = Emplace(r, packet.header.index)
  PROVE  /\ SameStream(r, s) /\ s.read_header.index = packet.header.index
         /\ InPacket(s, packet, o) /\ Good(s)
         /\ s.read_type = packet.header.index
<1> DEFINE h == packet.header
           f == Fresh(h.index)
<1>1. /\ Sound(r) /\ r.read_type = h.index /\ h.index \in Handled
      /\ Good(r) /\ r \in ClientState
  <2>1. Sendable(packet) BY Zenon DEF Meets, Stands
  <2>2. h.index \in Handled BY <2>1, SentHeader
  <2> QED BY <2>2 DEF Meets, Sound, Good
<1>2. /\ Good(s) /\ s.read_type = h.index /\ s.read_header.index = h.index
      /\ SameStream(r, s) /\ s.sequence = r.sequence
  BY <1>1, EmplaceGood
<1> HIDE DEF h
<1>3. CASE r.sequence = 0
  <2>1. At(r, r.read_header, 0, o, 5)
    <3>1. CASE r.pos = o /\ Idle(r)
      BY <1>1, <1>3, <3>1, Zenon DEF Meets, Idle, At
    <3>2. CASE InPacket(r, packet, o)
      <4>1. Start(r, h, o) BY <1>3, <3>2, InPacketBegins DEF h
      <4> QED BY <4>1, Zenon DEF Start, At
    <3> QED BY <3>1, <3>2, Zenon DEF Meets
  <2>2. s = [r EXCEPT !.read_header = f] BY <1>3, Zenon DEF Emplace, h
  <2> HIDE DEF f
  <2>3. /\ s.read_header = f /\ s.sequence = r.sequence
        /\ s.remaining_size = r.remaining_size
        /\ s.data0 = r.data0 /\ s.data1 = r.data1
    BY <1>1, <2>2 DEF ClientState
  <2>4. At(s, f, 0, o, 5)
    BY <1>2, <2>1, <2>3, Zenon DEF At, SameStream
  <2>5. Start(s, h, o) BY <2>4, Zenon DEF Start, f
  <2>6. \A v : Opening(s, h, v, o) BY <2>5, Zenon DEF Opening
  <2>7. /\ publish # connack /\ publish # suback /\ publish # pingresp
        /\ connack # suback /\ connack # pingresp /\ suback # pingresp
    BY DEF publish, connack, suback, pingresp
  <2>8. InPacket(s, packet, o)
    BY <2>6, <2>7, Zenon
    DEF InPacket, PublishPart, ConnackPart, SubackPart, AckPart, h
  <2> QED BY <1>2, <2>8, Zenon DEF h
<1>4. CASE r.sequence # 0
  <2>1. s = r BY <1>4, Zenon DEF Emplace
  <2>2. InPacket(r, packet, o) BY <1>4, Zenon DEF Meets, Idle
  <2> QED BY <1>2, <2>1, <2>2, Zenon DEF h
<1> QED BY <1>3, <1>4

-----------------------------------------------------------------------------
(* The packet that ends at e has been given to its handler.                *)
Delivered(r, q, packet, e) ==
  /\ Sound(q) /\ q.good /\ q.ec \in {"none", "handler_error"}
  /\ q.read_type = reserved /\ q.pos + q.read_ignore = e /\ Within(q)
  /\ \E k \in 0 .. Len(packet.payload) :
       q.callbacks = Append(r.callbacks, Abstract!CallbackFor(packet, k))

(* The first bytes of a sequence, one by one.                              *)
LEMMA PrefixIs ==
  ASSUME NEW p \in Seq(Byte), NEW k \in 0 .. Len(p),
         NEW f, f = [i \in 1 .. k |-> p[i]]
  PROVE  f = SubSeq(p, 1, k)
OBVIOUS

(* The payload bytes that a handler gets are those that were sent.         *)
LEMMA PayloadSent ==
  ASSUME NEW r, Good(r), NEW p \in Seq(Byte), Spells(r.pos, p),
         NEW k \in 0 .. Len(p)
  PROVE  [i \in 1 .. k |-> PayloadByte(r, i)] = SubSeq(p, 1, k)
<1>1. PICK n \in Nat, m \in Nat, x \in Nat :
        n = Len(p) /\ m = Len(wire) /\ x = r.pos
  <2>1. r.pos \in Nat BY Fields DEF Good
  <2>2. Len(wire) \in Nat BY DEF Good
  <2> QED BY <2>1, <2>2
<1>2. x + n <= m /\ \A i \in 1 .. n : wire[x + i] = p[i]
  BY <1>1, Zenon DEF Spells
<1>3. ASSUME NEW i \in 1 .. k PROVE PayloadByte(r, i) = p[i]
  <2>1. i \in 1 .. n /\ x + i <= m BY <1>1, <1>2
  <2>2. wire[x + i] = p[i] BY <1>2, <2>1
  <2> QED BY <1>1, <2>1, <2>2, Zenon DEF PayloadByte
<1> HIDE DEF PayloadByte
<1>4. PICK f : f = [i \in 1 .. k |-> p[i]] OBVIOUS
<1>5. [i \in 1 .. k |-> PayloadByte(r, i)] = f BY <1>3, <1>4, Zenon
<1> QED BY <1>4, <1>5, PrefixIs, Zenon

(* A packet's header and nothing else.                                     *)
LEMMA OnOtherDelivers ==
  ASSUME NEW r, Sound(r), r.good, r.read_type = reserved, Within(r),
         r.read_ignore = 0, NEW packet, packet.payload = <<>>,
         packet.header = r.read_header, NEW h, NEW q, q = OnOther(r, h)
  PROVE  Delivered(r, q, packet, r.pos)
<1>1. Sound(q) BY OnOtherSound
<1>3. r \in ClientState /\ r.pos \in Nat BY Fields DEF Sound, Good
<1> DEFINE back == [header |-> r.read_header, size |-> 0, payload |-> <<>>]
<1> DEFINE e == IF h.fail THEN "handler_error" ELSE "none"
           c == Append(r.callbacks, back)
<1>12. q = [r EXCEPT !.callbacks = c, !.ec = e] BY Zenon DEF OnOther
<1> HIDE DEF c, e
<1>13. q.callbacks = c /\ q.ec = e BY <1>3, <1>12 DEF ClientState
<1>2. /\ q.pos = r.pos /\ q.available = r.available /\ q.good = r.good
      /\ q.read_ignore = r.read_ignore /\ q.read_type = r.read_type
  BY <1>3, <1>12, ZenonT(60) DEF ClientState
<1>4. q.callbacks = Append(r.callbacks, back) BY <1>13, Zenon DEF c
<1>5. q.ec = IF h.fail THEN "handler_error" ELSE "none"
  BY <1>13, Zenon DEF e
<1>6. Len(<<>>) = 0 /\ SubSeq(<<>>, 1, 0) = <<>> OBVIOUS
<1>7. back = Abstract!CallbackFor(packet, 0)
  BY <1>6, Zenon DEF Abstract!CallbackFor
<1> HIDE DEF back
<1>8. 0 \in 0 .. Len(packet.payload) BY <1>6
<1>9. q.pos + q.read_ignore = r.pos BY <1>2, <1>3
<1>10. Within(q) BY <1>2, Zenon DEF Within, Stop
<1>11. q.ec \in {"none", "handler_error"} BY <1>5, Zenon
<1> QED
  BY <1>1, <1>2, <1>4, <1>7, <1>8, <1>9, <1>10, <1>11, Zenon DEF Delivered

(* What it leaves of a payload is to be ignored.                           *)
LEMMA Ignores ==
  ASSUME NEW m \in Nat, NEW size \in Nat, NEW k \in Nat, size < m, k <= size
  PROVE  /\ (size - k - 0 - 0) % m = size - k
         /\ (size - (size - k)) % m = k
<1>1. PICK x \in Nat : x = size - k /\ x < m BY SMT
<1>2. x % m = x /\ k % m = k BY <1>1, SmallResidue
<1>3. size - k - 0 - 0 = x /\ size - (size - k) = k BY <1>1
<1> QED BY <1>1, <1>2, <1>3, Zenon

(* _handle_publish after the header: the handler gets the first bytes of   *)
(* the payload, and the rest is to be ignored.                             *)
LEMMA OnPublishDelivers ==
  ASSUME NEW r, Sound(r), r.good, r.read_type = reserved, Within(r),
         NEW packet, packet.payload \in Seq(Byte),
         Spells(r.pos, packet.payload), packet.header = r.read_header,
         NEW h \in HandlerChoice, ~h.peek,
         NEW size, size = Len(packet.payload),
         NEW q, q = OnPublish(r, size, h)
  PROVE  Delivered(r, q, packet, r.pos + size)
<1> DEFINE limit  == IF HandlerBlocks THEN size ELSE StdMin(size, r.available)
           k      == StdMin(h.take, limit)
           peeked == IF h.peek /\ k < limit THEN 1 ELSE 0
           ignore == (size - k - peeked - peeked) % SizeMod
           read   == (size - ignore) % SizeMod
           end    == StdMin(r.pos + k + peeked, Len(wire))
           back   == [header |-> r.read_header, size |-> size,
                      payload |-> [i \in 1 .. k |-> PayloadByte(r, i)]]
           c      == Append(r.callbacks, back)
           e      == IF h.fail THEN "handler_error" ELSE "none"
           p      == IF r.pos > end THEN r.pos ELSE end
           s      == [r EXCEPT !.callbacks = c, !.ec = e, !.pos = p,
                               !.read_ignore = ignore]
<1>1. q = IF read > s.available
          THEN [s EXCEPT !.available = 0, !.overread = read]
          ELSE [s EXCEPT !.available = s.available - read]
  BY DEF OnPublish
<1>2. Good(r) /\ r \in ClientState /\ r.pos <= Len(wire) BY DEF Sound, Good
<1>3. r.available \in Nat /\ r.pos \in Nat /\ Len(wire) \in Nat
  BY <1>2, Fields DEF Good
<1>4. /\ size \in Nat /\ r.pos + size <= Len(wire) /\ size < SizeMod
      /\ SizeMod \in Nat
  <2>1. size \in Nat /\ r.pos + size <= Len(wire) BY <1>3 DEF Spells
  <2>2. Len(wire) < SizeMod \div 2 /\ SizeMod \in Nat
    BY Widths DEF Within
  <2> QED BY <1>3, <2>1, <2>2
<1>5. Sound(q) BY <1>4, OnPublishSound
<1>6. k \in Nat /\ k <= size /\ (~HandlerBlocks => k <= r.available)
  <2>1. h.take \in Nat BY DEF HandlerChoice
  <2>2. /\ limit \in Nat /\ limit <= size
        /\ ~HandlerBlocks => limit <= r.available
    BY <1>3, <1>4 DEF StdMin
  <2> HIDE DEF limit
  <2> QED BY <1>3, <1>4, <2>1, <2>2 DEF StdMin
<1>7. peeked = 0 BY Zenon
<1>8. back = Abstract!CallbackFor(packet, k)
  <2>1. k \in 0 .. Len(packet.payload) BY <1>4, <1>6
  <2> HIDE DEF k
  <2>2. [i \in 1 .. k |-> PayloadByte(r, i)] = SubSeq(packet.payload, 1, k)
    BY <1>2, <2>1, PayloadSent, Zenon
  <2> QED BY <2>2, Zenon DEF Abstract!CallbackFor
<1> HIDE DEF limit, k, peeked, back
<1>9. ignore = size - k
  <2>1. (size - k - 0 - 0) % SizeMod = size - k
    BY <1>4, <1>6, Ignores, ZenonT(60)
  <2> QED BY <1>7, <2>1, Zenon
<1> HIDE DEF ignore
<1>10. read = k
  <2>1. (size - (size - k)) % SizeMod = k BY <1>4, <1>6, Ignores, ZenonT(60)
  <2> QED BY <1>9, <2>1, Zenon
<1> HIDE DEF read
<1>11. p = r.pos + k
  <2>1. end = r.pos + k BY <1>3, <1>4, <1>6, <1>7 DEF StdMin
  <2> HIDE DEF end
  <2> QED BY <1>3, <1>6, <2>1
<1> HIDE DEF p, c, e
<1>12. /\ s.pos = p /\ s.available = r.available /\ s.good = r.good
       /\ s.callbacks = c /\ s.read_type = r.read_type /\ s.ec = e
       /\ s.read_ignore = ignore
       /\ DOMAIN s = DOMAIN r
  BY <1>2 DEF ClientState
<1>13. /\ q.pos = p /\ q.good = r.good /\ q.callbacks = c
       /\ q.read_type = r.read_type /\ q.ec = e /\ q.read_ignore = ignore
       /\ q.available = IF read > r.available THEN 0 ELSE r.available - read
  BY <1>1, <1>2 DEF ClientState
<1> HIDE DEF s
<1>14. e \in {"none", "handler_error"} BY Zenon DEF e
<1>15. q.pos + q.read_ignore = r.pos + size
  BY <1>3, <1>4, <1>6, <1>9, <1>11, <1>13
<1>16. Within(q)
  <2>1. Stop(r) = r.pos + r.available /\ Stop(q) = q.pos + q.available
    BY DEF Stop
  <2>2. Stop(q) <= Len(wire)
    <3>1. Stop(r) <= Len(wire) BY Zenon DEF Within
    <3> QED BY <1>3, <1>4, <1>6, <1>10, <1>11, <1>13, <2>1, <3>1
  <2> QED BY <2>2, Zenon DEF Within
<1>17. k \in 0 .. Len(packet.payload) BY <1>4, <1>6
<1> QED
  BY <1>5, <1>8, <1>13, <1>14, <1>15, <1>16, <1>17, Zenon DEF Delivered, c

(* The payload stands at the end of its packet.                            *)
LEMMA PayloadStands ==
  ASSUME NEW packet, NEW o, Stands(packet, o)
  PROVE  /\ Payload(packet, o) + Len(packet.payload)
              = o + Len(WritePacket(packet))
         /\ packet.header.index = publish =>
              Spells(Payload(packet, o), packet.payload)
         /\ packet.header.index # publish => packet.payload = <<>>
         /\ packet.payload \in Seq(Byte)
<1> DEFINE h == packet.header
           v == Rest(packet)
           b == Base(o, v)
<1>1. /\ Headed(h, v, o, b) /\ Spells(b, Body(packet)) /\ b \in Nat
      /\ v \in Nat /\ Rests(packet, h, v)
      /\ Payload(packet, o) = (b + v) - Len(packet.payload)
  BY StandsHeaded
<1>2. wire \in Seq(Byte) /\ Sendable(packet) BY Zenon DEF Stands
<1>3. /\ h \in Header /\ packet.payload \in Seq(Byte)
      /\ h.index # publish => packet.payload = <<>>
  BY <1>2, SentHeader
<1>4. Len(h.topic) \in Short BY <1>2, SentTopic
<1> HIDE DEF v, b
<1>5. Payload(packet, o) + Len(packet.payload) = o + Len(WritePacket(packet))
  <2>1. PICK w : w = WritePacket(packet) OBVIOUS
  <2>2. w \in Seq(Byte) BY <1>2, <2>1, PacketSequence
  <2>3. o \in Nat BY <1>1, Zenon DEF Headed
  <2>4. PICK n \in Nat, m \in Nat, x \in Nat :
          n = Len(w) /\ m = Len(packet.payload) /\ x = o
    BY <1>3, <2>2, <2>3
  <2>5. ((x + n) - m) + m = x + n OBVIOUS
  <2> QED BY <2>1, <2>4, <2>5, Zenon DEF Payload
<1>6. ASSUME h.index = publish
      PROVE  Spells(Payload(packet, o), packet.payload)
  <2>1. PICK x, y, z : /\ x = WriteBlob(h.topic) /\ y = IdBytes(h)
                       /\ z = packet.payload
    OBVIOUS
  <2>2. /\ x \in Seq(Byte) /\ Len(x) = TopicField(h)
        /\ y \in Seq(Byte) /\ Len(y) = IdField(h) /\ z \in Seq(Byte)
    BY <1>3, <1>4, <2>1, FieldBytes
  <2>3. PICK f : f = x \o y OBVIOUS
  <2>4. f \in Seq(Byte) /\ Len(f) = Len(x) + Len(y)
    BY <2>2, <2>3, ConcatProperties, Zenon
  <2>12. publish # connack /\ publish # suback /\ publish # pingresp
    BY DEF publish, connack, suback, pingresp
  <2>13. Body(packet) = f \o z
    BY <1>6, <2>1, <2>3, <2>12, Zenon DEF Body
  <2>5. Spells(b, f \o z) BY <1>1, <2>13, Zenon
  <2>6. PICK n, e : n = Len(f) /\ e = b + n OBVIOUS
  <2>7. Spells(e, z)
    BY <1>2, <2>2, <2>4, <2>5, <2>6, SpellsParts, Zenon
  <2>8. v = (TopicField(h) + IdField(h)) + Len(z)
    BY <1>1, <1>6, <2>1, Zenon DEF Rests
  <2>9. PICK i \in Nat, j \in Nat, k \in Nat :
          i = Len(x) /\ j = Len(y) /\ k = Len(z)
    BY <2>2
  <2>10. (b + ((i + j) + k)) - k = b + (i + j) BY <1>1
  <2>11. e = Payload(packet, o)
    BY <1>1, <2>1, <2>2, <2>4, <2>6, <2>8, <2>9, <2>10, Zenon
  <2> QED BY <2>1, <2>7, <2>11, Zenon
<1> QED BY <1>3, <1>5, <1>6, Zenon DEF h

(* What a call makes of the packet that stands there: it reads more of it, *)
(* or all of it and delivers it.                                           *)
Feeds(r, w, packet, o) ==
  \/ /\ Sound(w) /\ w.good /\ w.ec = "none" /\ Within(w)
     /\ InPacket(w, packet, o) /\ w.read_ignore = 0
     /\ w.callbacks = r.callbacks /\ w.read_type = packet.header.index
  \/ Delivered(r, w, packet, o + Len(WritePacket(packet)))

(* A packet that has been read goes to its handler.                        *)
LEMMA ReadDelivers ==
  ASSUME NEW packet, NEW o, Stands(packet, o),
         NEW q, Read(q, packet.header, Payload(packet, o),
                     Len(packet.payload)),
         Within(q), q.read_ignore = 0, NEW h \in HandlerChoice, ~h.peek,
         NEW c, c = ClearRead(q), NEW w,
         w = IF packet.header.index = publish
             THEN OnPublish(c, q.remaining_size, h) ELSE OnOther(c, h)
  PROVE  Delivered(q, w, packet, o + Len(WritePacket(packet)))
<1>1. /\ Payload(packet, o) + Len(packet.payload)
           = o + Len(WritePacket(packet))
      /\ packet.header.index = publish =>
           Spells(Payload(packet, o), packet.payload)
      /\ packet.header.index # publish => packet.payload = <<>>
      /\ packet.payload \in Seq(Byte)
  BY PayloadStands
<1>2. /\ Good(q) /\ q.good /\ q.ec = "none"
      /\ q.read_header = packet.header /\ q.pos = Payload(packet, o)
      /\ packet.header.index = publish =>
           q.remaining_size = Len(packet.payload)
  BY Zenon DEF Read
<1>3. Sound(c) BY <1>2, ClearReadSound
<1>4. /\ c.pos = q.pos /\ c.available = q.available /\ c.good = q.good
      /\ c.read_ignore = q.read_ignore /\ c.callbacks = q.callbacks
      /\ c.read_header = q.read_header /\ c.read_type = reserved
  BY <1>2, ZenonT(60) DEF ClearRead, Good, ClientState
<1>5. Within(c) BY <1>4, Zenon DEF Within, Stop
<1>6. \A e : Delivered(c, w, packet, e) => Delivered(q, w, packet, e)
  BY <1>4, Zenon DEF Delivered
<1>7. CASE packet.header.index = publish
  <2>1. PICK size : size = Len(packet.payload) OBVIOUS
  <2>2. w = OnPublish(c, size, h) BY <1>2, <1>7, <2>1, Zenon
  <2>3. Spells(c.pos, packet.payload) BY <1>1, <1>2, <1>4, <1>7, Zenon
  <2>4. c.good /\ c.read_type = reserved /\ packet.header = c.read_header
    BY <1>2, <1>4, Zenon
  <2>5. Delivered(c, w, packet, c.pos + size)
    BY <1>1, <1>3, <1>5, <2>1, <2>2, <2>3, <2>4, OnPublishDelivers, Zenon
  <2> QED BY <1>1, <1>2, <1>4, <1>6, <2>1, <2>5, Zenon
<1>8. CASE packet.header.index # publish
  <2>1. w = OnOther(c, h) BY <1>8, Zenon
  <2>2. /\ c.good /\ c.read_type = reserved /\ packet.header = c.read_header
        /\ c.read_ignore = 0 /\ packet.payload = <<>>
    BY <1>1, <1>2, <1>4, <1>8, Zenon
  <2>3. Delivered(c, w, packet, c.pos)
    BY <1>3, <1>5, <2>1, <2>2, OnOtherDelivers, Zenon
  <2>4. c.pos = o + Len(WritePacket(packet))
    <3>1. c.pos \in Nat BY <1>3, Fields DEF Sound, Good
    <3>2. Len(<<>>) = 0 /\ c.pos + 0 = c.pos BY <3>1
    <3> QED BY <1>1, <1>2, <1>4, <2>2, <3>2, Zenon
  <2> QED BY <1>6, <2>3, <2>4, Zenon
<1> QED BY <1>7, <1>8

(* The _handle_... function of the packet's type.                          *)
LEMMA HandleFeeds ==
  ASSUME NEW packet, NEW o, NEW r, Meets(r, packet, o),
         NEW h \in HandlerChoice, ~h.peek, NEW w, w = Handle(r, h)
  PROVE  Feeds(r, w, packet, o)
<1> DEFINE type == packet.header.index
           s == Emplace(r, type)
           q == ReadPacket(s, type)
           c == ClearRead(q)
           d == IF type = publish THEN OnPublish(c, q.remaining_size, h)
                                  ELSE OnOther(c, h)
<1>1. /\ Stands(packet, o) /\ Sound(r) /\ Uncut(r, packet, o)
      /\ Within(r) /\ r.read_type = type /\ Continues(r)
      /\ r.ok /\ r.ec = "none" /\ r.good /\ r.read_ignore = 0
  BY Zenon DEF Meets, Continues
<1>2. type \in Handled
  <2>1. Sendable(packet) BY <1>1, Zenon DEF Stands
  <2> QED BY <2>1, SentHeader
<1>3. /\ SameStream(r, s) /\ s.read_header.index = type
      /\ InPacket(s, packet, o) /\ Good(s) /\ s.read_type = type
  BY EmplacesOnce
<1>4. w = IF Continues(q) THEN d ELSE q
  BY <1>1, <1>3, Zenon DEF Handle, Then
<1>5. Sound(w) BY <1>1, <1>2, HandleSound
<1>6. Stop(s) = Stop(r) /\ s.ok /\ Within(s) /\ Uncut(s, packet, o)
  <2>1. Stop(s) = Stop(r) BY <1>3, Zenon DEF SameStream, Stop
  <2> QED BY <1>1, <1>3, <2>1, Zenon DEF SameStream, Within, Uncut, Whole
<1>7. PacketAhead(s, packet, o) BY <1>1, <1>3, <1>6, Zenon DEF PacketAhead
<1>8. PacketTaken(s, q, packet, o) BY <1>7, PacketBack
<1>9. Reads(s, q)
  <2>1. type = unsuback => s.sequence <= 2
    <3>1. s.sequence = r.sequence
      <4>1. r.read_type \in Handled BY <1>1, <1>2, Zenon
      <4>2. Emplace(r, r.read_type).sequence = r.sequence
        BY <1>1, <4>1, EmplaceGood, Zenon
      <4> QED BY <1>1, <4>2, Zenon
    <3>2. type = unsuback => r.sequence <= 2
      BY <1>1, Zenon DEF Sound
    <3> QED BY <3>1, <3>2, Zenon
  <2>2. Continues(s) BY <1>1, <1>3, Zenon DEF SameStream, Continues
  <2> QED BY <1>2, <1>3, <2>1, <2>2, ReadPacketReads
<1> HIDE DEF s, q
<1>10. /\ Within(q) /\ q.read_ignore = 0 /\ q.callbacks = r.callbacks
       /\ q.read_type = type
  BY <1>1, <1>3, <1>6, <1>8, <1>9, Zenon
  DEF PacketTaken, Within, Reads, Keeps, SameStream
<1>11. CASE InPacket(q, packet, o) /\ Waits(q)
  <2>1. w = q BY <1>4, <1>11, Zenon DEF Waits, Continues
  <2>2. q.good /\ q.ec = "none" BY <1>11, InPacketBegins
  <2> QED BY <1>5, <1>10, <1>11, <2>1, <2>2, Zenon DEF Feeds
<1>12. CASE Read(q, packet.header, Payload(packet, o), Len(packet.payload))
  <2>1. w = d BY <1>4, <1>12, Zenon DEF Read, Continues
  <2>2. Delivered(q, d, packet, o + Len(WritePacket(packet)))
    BY <1>1, <1>10, <1>12, ReadDelivers, Zenon
  <2> HIDE DEF d
  <2>3. Delivered(r, w, packet, o + Len(WritePacket(packet)))
    BY <1>10, <2>1, <2>2, Zenon DEF Delivered
  <2> QED BY <2>3, Zenon DEF Feeds
<1> QED BY <1>8, <1>11, <1>12, Zenon DEF PacketTaken

(* _skip_ignored after it.                                                 *)
LEMMA SkipFeeds ==
  ASSUME NEW packet, NEW o, NEW r, NEW m, Feeds(r, m, packet, o),
         NEW d, d = SkipIgnored(m),
         NEW w, w = [d EXCEPT !.overread = 0]
  PROVE  Feeds(r, w, packet, o)
<1>1. Sound(m) /\ m.good /\ Within(m) BY Zenon DEF Feeds, Delivered
<1>2. /\ Sound(d) /\ d.good /\ Stop(d) = Stop(m)
      /\ d.pos + d.read_ignore = m.pos + m.read_ignore
      /\ m.read_ignore = 0 => d.pos = m.pos /\ d.read_ignore = 0
      /\ SamePacket(m, d) /\ d.ec = m.ec /\ d.callbacks = m.callbacks
  BY <1>1, SkipsWithin
<1>3. Sound(w) BY <1>2, ReturnSound
<1>4. /\ w.pos = d.pos /\ w.good = d.good /\ w.available = d.available
      /\ w.read_ignore = d.read_ignore /\ w.callbacks = d.callbacks
      /\ w.read_type = d.read_type /\ w.ec = d.ec
      /\ w.read_header = d.read_header /\ w.sequence = d.sequence
      /\ w.remaining_size = d.remaining_size
      /\ w.data0 = d.data0 /\ w.data1 = d.data1
  BY <1>2, ZenonT(60) DEF Sound, Good, ClientState
<1>5. Within(w)
  <2>1. Stop(w) = Stop(m) BY <1>2, <1>4, Zenon DEF Stop
  <2> QED BY <1>1, <2>1, Zenon DEF Within
<1>6. CASE Delivered(r, m, packet, o + Len(WritePacket(packet)))
  <2>1. Delivered(r, w, packet, o + Len(WritePacket(packet)))
    BY <1>2, <1>3, <1>4, <1>5, <1>6, Zenon DEF Delivered, SamePacket
  <2> QED BY <2>1, Zenon DEF Feeds
<1>7. CASE /\ m.ec = "none" /\ InPacket(m, packet, o) /\ m.read_ignore = 0
           /\ m.callbacks = r.callbacks /\ m.read_type = packet.header.index
  <2>1. SameReading(m, w)
    BY <1>2, <1>3, <1>4, <1>7, ZenonT(60)
    DEF SameReading, SamePacket, Sound
  <2>2. InPacket(w, packet, o) BY <1>7, <2>1, SameInPacket, Zenon
  <2> QED
    BY <1>2, <1>3, <1>4, <1>5, <1>7, <2>2, Zenon DEF Feeds, SamePacket
<1> QED BY <1>6, <1>7, Zenon DEF Feeds

-----------------------------------------------------------------------------
(* What a call makes of the first n packets delivered.                     *)
Advanced(r, q, n) ==
  \/ q.callbacks = r.callbacks /\ q.ec = "none" /\ Stage(q, n)
  \/ /\ n < Len(sent) /\ Stage(q, n + 1)
     /\ \E k \in 0 .. Len(sent[n + 1].payload) :
          q.callbacks = Append(r.callbacks,
                               Abstract!CallbackFor(sent[n + 1], k))

(* The packets there are, and where they stand.                            *)
LEMMA NextStands ==
  ASSUME Sends(sent), wire = WireOf[sent], NEW n \in Nat, n < Len(sent)
  PROVE  /\ Stands(sent[n + 1], End(n)) /\ End(n) \in Nat
         /\ End(n) + Len(WritePacket(sent[n + 1])) = End(n + 1)
         /\ sent[n + 1].header.index # reserved
         /\ sent[n + 1].header.index \in Handled
<1>1. /\ Stands(sent[n + 1], End(n)) /\ End(n) \in Nat
      /\ End(n) + Len(WritePacket(sent[n + 1])) = End(n + 1)
  BY PacketStands, Zenon DEF End
<1>2. Sendable(sent[n + 1]) BY <1>1, Zenon DEF Stands
<1>3. /\ sent[n + 1].header.index # reserved
      /\ sent[n + 1].header.index \in Handled
  BY <1>2, SentHeader
<1> QED BY <1>1, <1>3

(* They end with the stream.                                               *)
LEMMA LastEnds ==
  ASSUME Sends(sent), wire = WireOf[sent]
  PROVE  End(Len(sent)) = Len(wire) /\ Len(sent) \in Nat
<1>1. Len(sent) \in Nat BY WrittenStep, Zenon DEF Sends
<1>2. wire = Written[sent][Len(sent)] BY Zenon DEF WireOf, Sends
<1> QED BY <1>1, <1>2, Zenon DEF End

(* A call that feeds the next packet.                                      *)
LEMMA FeedsAdvance ==
  ASSUME Sends(sent), wire = WireOf[sent], NEW n \in Nat, n < Len(sent),
         NEW r, NEW w, Feeds(r, w, sent[n + 1], End(n))
  PROVE  Advanced(r, w, n)
<1> DEFINE packet == sent[n + 1]
<1>1. /\ End(n) + Len(WritePacket(packet)) = End(n + 1)
      /\ packet.header.index # reserved
  BY NextStands
<1> HIDE DEF packet
<1>2. CASE /\ Sound(w) /\ w.good /\ w.ec = "none" /\ Within(w)
           /\ InPacket(w, packet, End(n)) /\ w.read_ignore = 0
           /\ w.callbacks = r.callbacks /\ w.read_type = packet.header.index
  <2>1. Stage(w, n)
    BY <1>1, <1>2, Zenon DEF Stage, Between, Amid, packet
  <2> QED BY <1>2, <2>1, Zenon DEF Advanced
<1>3. CASE Delivered(r, w, packet, End(n) + Len(WritePacket(packet)))
  <2>1. Stage(w, n + 1)
    BY <1>1, <1>3, Zenon DEF Delivered, Stage, Between, Amid
  <2> QED BY <1>3, <2>1, Zenon DEF Delivered, Advanced, packet
<1> QED BY <1>2, <1>3, Zenon DEF Feeds, packet

(* A position that is not inside a topic is not inside this one.           *)
LEMMA TopicUncut ==
  ASSUME Sends(sent), wire = WireOf[sent], NEW n \in Nat, n < Len(sent),
         NEW r, Stop(r) \notin InsideTopics
  PROVE  Uncut(r, sent[n + 1], End(n))
<1> DEFINE packet == sent[n + 1]
           h == packet.header
           b == Base(End(n), Rest(packet))
           field(i) == End(i) - Len(sent[i].payload)
                         - (IF QoS(sent[i].header) = 0 THEN 0 ELSE 2)
           inside(i) ==
             (field(i) - 1 - Len(sent[i].header.topic)) .. (field(i) - 1)
<1> SUFFICES ASSUME h.index = publish PROVE Whole(r, h, b)
  BY Zenon DEF Uncut
<1>1. /\ Stands(packet, End(n))
      /\ End(n) + Len(WritePacket(packet)) = End(n + 1)
  BY NextStands
<1>2. /\ b \in Nat /\ Rests(packet, h, Rest(packet))
      /\ Payload(packet, End(n)) = (b + Rest(packet)) - Len(packet.payload)
  BY <1>1, StandsHeaded
<1>3. packet.payload \in Seq(Byte) BY <1>1, PayloadStands
<1>4. Len(h.topic) \in Nat
  <2>1. Sendable(packet) BY <1>1, Zenon DEF Stands
  <2>2. h \in Header BY <2>1, SentHeader
  <2> QED BY <2>2 DEF Header
<1>5. Rest(packet) = TopicField(h) + IdField(h) + Len(packet.payload)
  BY <1>2, Zenon DEF Rests
<1>6. n + 1 \in 1 .. Len(sent)
  <2>1. Len(sent) \in Nat BY LastEnds
  <2> QED BY <2>1
<1>7. inside(n + 1) \subseteq InsideTopics
  BY <1>6, Zenon DEF InsideTopics
<1>8. field(n + 1) = b + TopicField(h)
  <2>1. PICK m \in Nat, k \in {0, 2}, t \in Nat, x \in Nat :
          /\ m = Len(packet.payload) /\ k = IdField(h)
          /\ t = Len(h.topic) /\ x = b
    BY <1>2, <1>3, <1>4 DEF IdField
  <2>2. End(n + 1) - m = (x + ((2 + t) + k + m)) - m
    BY <1>1, <1>2, <1>5, <2>1, Zenon DEF Payload, TopicField
  <2>3. (((x + ((2 + t) + k + m)) - m) - k) = x + (2 + t) OBVIOUS
  <2> QED BY <2>1, <2>2, <2>3, Zenon DEF IdField, TopicField
<1>9. inside(n + 1) = (b + 1) .. (b + 1 + Len(h.topic))
  <2>1. PICK t \in Nat, x \in Nat : t = Len(h.topic) /\ x = b
    BY <1>2, <1>4
  <2>2. /\ (x + (2 + t)) - 1 - t = x + 1
        /\ (x + (2 + t)) - 1 = x + 1 + t
    OBVIOUS
  <2> HIDE DEF field
  <2> QED BY <1>8, <2>1, <2>2, Zenon DEF TopicField
<1> HIDE DEF inside, field, b
<1> QED BY <1>7, <1>9, Zenon DEF Whole

(* What a call of process_one is offered.                                  *)
Given(a) ==
  /\ a \in Below(SizeMod)
  /\ client.pos + a <= Len(wire) /\ Len(wire) < SizeMod \div 2
  /\ client.pos + a \notin InsideTopics

(* Two states that stand at the same packet.                               *)
LEMMA SameStage ==
  ASSUME NEW r, NEW n, Stage(r, n), NEW q, Sound(q), q.good, q.ec = "none",
         SamePacket(r, q), q.pos + q.read_ignore = r.pos + r.read_ignore,
         r.read_ignore = 0 => q.pos = r.pos /\ q.read_ignore = 0
  PROVE  Stage(q, n)
<1>1. Between(q, n) BY Zenon DEF Stage, Between, SamePacket
<1>2. ASSUME q.read_type # reserved
      PROVE  InPacket(q, sent[n + 1], End(n)) /\ q.read_ignore = 0
  <2>1. /\ r.read_type # reserved /\ r.read_ignore = 0
        /\ InPacket(r, sent[n + 1], End(n))
    BY <1>2, Zenon DEF Stage, Amid, SamePacket
  <2>2. SameReading(r, q)
    BY <2>1, Zenon DEF SameReading, SamePacket, Sound
  <2> QED BY <2>1, <2>2, SameInPacket, Zenon
<1>3. Amid(q, n) BY <1>2, Zenon DEF Stage, Amid, SamePacket
<1> QED BY <1>1, <1>3, Zenon DEF Stage

(* With bytes to read there is a packet to meet.                           *)
LEMMA MeetsNext ==
  ASSUME Sends(sent), wire = WireOf[sent], NEW n \in Nat, n <= Len(sent),
         NEW r, Stage(r, n), r.ok, r.ec = "none", Within(r),
         r.available # 0, r.read_ignore = 0, Stop(r) \notin InsideTopics,
         NEW p, p = IF r.read_type = reserved THEN PeekType(r) ELSE r
  PROVE  /\ n < Len(sent) /\ Meets(p, sent[n + 1], End(n))
         /\ p.callbacks = r.callbacks
<1>1. Sound(r) /\ r.good BY Zenon DEF Stage
<1>2. CASE r.read_type = reserved
  <2>1. r.pos \in Nat /\ r.available \in Nat /\ Len(wire) \in Nat
    BY <1>1, Fields DEF Sound, Good
  <2>2. r.pos < Len(wire)
    <3>1. r.pos + r.available <= Len(wire) BY Zenon DEF Within, Stop
    <3> QED BY <2>1, <3>1
  <2>3. r.pos = End(n)
    <3>1. r.pos + 0 = r.pos BY <2>1
    <3> QED BY <1>2, <3>1, Zenon DEF Stage, Between
  <2>4. n < Len(sent)
    <3>1. End(Len(sent)) = Len(wire) /\ Len(sent) \in Nat BY LastEnds
    <3>2. n # Len(sent)
      <4>1. r.pos # Len(wire) BY <2>1, <2>2
      <4> QED BY <2>3, <3>1, <4>1, Zenon
    <3> QED BY <3>1, <3>2
  <2>5. Stands(sent[n + 1], End(n)) BY <2>4, NextStands
  <2>6. p = PeekType(r) BY <1>2, Zenon
  <2>7. /\ Sound(p) /\ p.good /\ p.read_type = sent[n + 1].header.index
        /\ p.pos = r.pos /\ p.available = r.available
        /\ p.read_ignore = r.read_ignore /\ p.callbacks = r.callbacks
        /\ p.ok = r.ok /\ p.ec = r.ec /\ Idle(p)
    <3>1. Stands(sent[n + 1], r.pos) BY <2>3, <2>5, Zenon
    <3>2. Peeked(r, p, sent[n + 1])
      BY <1>1, <1>2, <2>6, <3>1, PeeksPacket, Zenon
    <3> QED BY <3>2, Zenon DEF Peeked
  <2>8. Stop(p) = Stop(r) BY <2>7, Zenon DEF Stop
  <2>9. Within(p) BY <2>8, Zenon DEF Within
  <2>10. Uncut(p, sent[n + 1], End(n)) BY <2>4, <2>8, TopicUncut, Zenon
  <2>11. Meets(p, sent[n + 1], End(n))
    BY <2>3, <2>5, <2>7, <2>9, <2>10, Zenon DEF Meets
  <2> QED BY <2>4, <2>7, <2>11
<1>3. CASE r.read_type # reserved
  <2>1. p = r BY <1>3, Zenon
  <2>2. /\ n < Len(sent) /\ r.read_type = sent[n + 1].header.index
        /\ InPacket(r, sent[n + 1], End(n))
    BY <1>3, Zenon DEF Stage, Amid
  <2>3. Stands(sent[n + 1], End(n)) BY <2>2, NextStands
  <2>4. Uncut(r, sent[n + 1], End(n)) BY <2>2, TopicUncut, Zenon
  <2>5. Meets(r, sent[n + 1], End(n))
    BY <1>1, <2>2, <2>3, <2>4, Zenon DEF Meets
  <2> QED BY <2>1, <2>2, <2>5, Zenon
<1> QED BY <1>2, <1>3

(* A whole call of process_one.                                            *)
LEMMA ProcessedAdvances ==
  ASSUME Sends(sent), wire = WireOf[sent], NEW n \in Nat, n <= Len(sent),
         Stage(client, n), NEW a, Given(a), NEW h \in HandlerChoice, ~h.peek,
         NEW o, o = Processed(a, h).client
  PROVE  Advanced(client, o, n)
<1> DEFINE start == [client EXCEPT !.available = a, !.ok = TRUE, !.ec = "none"]
           b == SkipIgnored(start)
           p == IF b.read_type = reserved THEN PeekType(b) ELSE b
           m == Dispatch(p, h)
           d == SkipIgnored(m)
           returned == (a - d.available + d.overread) % SizeMod
           last == [d EXCEPT !.overread = 0]
<1>1. o = IF b.available = 0 THEN b ELSE IF p.ec # "none" THEN p ELSE last
  BY DEF Processed, Outcome
<1> HIDE DEF returned
<1>2. Sound(client) /\ client.good /\ a \in Below(SizeMod)
  BY Zenon DEF Stage, Given
<1>3. /\ Sound(start) /\ start.pos = client.pos /\ start.available = a
      /\ start.ok /\ start.ec = "none" /\ start.good = client.good
      /\ start.callbacks = client.callbacks
      /\ start.read_ignore = client.read_ignore
      /\ SamePacket(client, start)
  <2>1. client \in ClientState BY <1>2 DEF Sound, Good
  <2>2. start.ok = TRUE BY <2>1 DEF ClientState
  <2> QED BY <1>2, <2>1, <2>2, StartSound DEF ClientState, SamePacket
<1> HIDE DEF start
<1>4. Stop(start) = client.pos + a BY <1>3, Zenon DEF Stop
<1>5. Within(start) BY <1>4, Zenon DEF Given, Within
<1>6. /\ Sound(b) /\ b.good /\ Stop(b) = Stop(start)
      /\ b.pos + b.read_ignore = start.pos + start.read_ignore
      /\ b.available # 0 => b.read_ignore = 0
      /\ start.read_ignore = 0 => b.pos = start.pos /\ b.read_ignore = 0
      /\ SamePacket(start, b) /\ b.ok = start.ok /\ b.ec = start.ec
      /\ b.callbacks = start.callbacks
  <2>1. start.good BY <1>2, <1>3, Zenon
  <2> QED BY <1>3, <1>5, <2>1, SkipsWithin
<1> HIDE DEF b
<1>7. Stage(b, n)
  <2>1. SamePacket(client, b) BY <1>3, <1>6, Zenon DEF SamePacket
  <2>2. /\ b.ec = "none"
        /\ b.pos + b.read_ignore = client.pos + client.read_ignore
        /\ client.read_ignore = 0 => b.pos = client.pos /\ b.read_ignore = 0
    BY <1>3, <1>6, Zenon
  <2> QED BY <1>6, <2>1, <2>2, SameStage, Zenon
<1>8. CASE b.available = 0
  <2>1. o = b BY <1>1, <1>8, Zenon
  <2> QED BY <1>3, <1>6, <1>7, <2>1, Zenon DEF Advanced
<1>9. CASE b.available # 0
  <2>1. /\ b.ok /\ b.ec = "none" /\ b.read_ignore = 0 /\ Within(b)
        /\ Stop(b) \notin InsideTopics
    BY <1>3, <1>4, <1>5, <1>6, <1>9, Zenon DEF Within, Given
  <2>2. /\ n < Len(sent) /\ Meets(p, sent[n + 1], End(n))
        /\ p.callbacks = b.callbacks
    BY <1>7, <1>9, <2>1, MeetsNext, Zenon
  <2> HIDE DEF p
  <2>3. /\ sent[n + 1].header.index # reserved
        /\ sent[n + 1].header.index \in Handled
    BY <2>2, NextStands
  <2>4. p.ec = "none" /\ p.read_type = sent[n + 1].header.index
    BY <2>2, Zenon DEF Meets
  <2>5. m = Handle(p, h) BY <2>3, <2>4, Zenon DEF Dispatch
  <2>6. Feeds(p, m, sent[n + 1], End(n))
    BY <2>2, <2>5, HandleFeeds, Zenon
  <2> HIDE DEF m
  <2>7. o = last BY <1>1, <1>9, <2>4, Zenon
  <2>8. Feeds(p, o, sent[n + 1], End(n))
    BY <2>6, <2>7, SkipFeeds, Zenon
  <2>9. Advanced(p, o, n) BY <2>2, <2>8, FeedsAdvance, Zenon
  <2> QED BY <1>3, <1>6, <2>2, <2>9, Zenon DEF Advanced
<1> QED BY <1>8, <1>9

-----------------------------------------------------------------------------
(* What is left alone by a step that changes the client only.              *)
LEMMA InPacketKept ==
  ASSUME wire' = wire, NEW packet, NEW o, InPacket(client', packet, o)
  PROVE  InPacket(client, packet, o)'
<1>0. Good(client)' <=> Good(client') BY Zenon DEF Good
<1>1. \A h, s, p, m : At(client', h, s, p, m) => At(client, h, s, p, m)'
  BY <1>0, Zenon DEF At
<1>2. \A h, s, v, p, m :
        InShort(client', h, s, v, p, m) => InShort(client, h, s, v, p, m)'
  BY <1>0, Zenon DEF InShort, HalfShort
<1>3. \A v, s : Half(client', v, s) => Half(client, v, s)'
  BY <1>0, Zenon DEF Half, Partial
<1>4. \A h, v, p : Opening(client', h, v, p) => Opening(client, h, v, p)'
  BY <1>1, <1>3, Zenon DEF Opening, Start, InLength
<1>5. \A h, v, p, b :
        PublishPart(client', h, v, p, b) => PublishPart(client, h, v, p, b)'
  BY <1>1, <1>2, <1>4, Zenon DEF PublishPart, InId
<1>7. \A h, v, p, b :
        SubackPart(client', h, v, p, b) => SubackPart(client, h, v, p, b)'
  <2>1. \A h, p : CodesPart(client', h, p) => CodesPart(client, h, p)'
    BY <1>1, Zenon DEF CodesPart, CodesAt
  <2> QED BY <1>2, <1>4, <2>1, Zenon DEF SubackPart
<1>8. \A h, p, b :
        ConnackPart(client', h, p, b) => ConnackPart(client, h, p, b)'
  BY <1>1, <1>4, Zenon DEF ConnackPart
<1>9. \A h, p, b : AckPart(client', h, p, b) => AckPart(client, h, p, b)'
  BY <1>2, <1>4, Zenon DEF AckPart
<1>6. /\ publish # connack /\ publish # suback /\ publish # pingresp
      /\ connack # suback /\ connack # pingresp /\ suback # pingresp
  BY DEF publish, connack, suback, pingresp
<1> QED BY <1>4, <1>5, <1>6, <1>7, <1>8, <1>9, Zenon DEF InPacket

(* What Stage says of the next client, it says in the next state.        *)
LEMMA StageKept ==
  ASSUME wire' = wire, sent' = sent, NEW n, n = Len(client'.callbacks),
         Stage(client', n)
  PROVE  Stage(client, Len(client.callbacks))'
<1>1. \A i : End(i)' = End(i) BY Zenon DEF End
<1>2. Sound(client)' <=> Sound(client') BY Zenon DEF Sound, Good, Idle
<1>3. \A p, o : InPacket(client', p, o) => InPacket(client, p, o)'
  BY InPacketKept, Zenon
<1> QED BY <1>1, <1>2, <1>3, Zenon DEF Stage, Between, Amid

(* The invariant holds of a client that has read nothing.                  *)
LEMMA FeedInvariantInit ==
  ASSUME FeedInit
  PROVE  FeedInvariant
<1>1. /\ sent \in Streams /\ wire = WireOf[sent] /\ client = InitialClient
  BY Zenon DEF FeedInit
<1>2. wire \in Seq(Byte)
  BY <1>1, FeedAssumption, ClientAssumption, Zenon
  DEF FeedAssumption, ClientAssumption
<1>3. Sound(client) BY <1>1, <1>2, InitialSound
<1>4. /\ client.pos = 0 /\ client.read_ignore = 0 /\ client.ec = "none"
      /\ client.read_type = reserved /\ client.good = TRUE
      /\ client.callbacks = <<>>
  BY <1>1 DEF InitialClient
<1>5. Len(client.callbacks) = 0 /\ Len(<<>>) = 0 /\ 0 + 0 = 0 BY <1>4
<1>6. Len(sent) \in Nat /\ End(0) = 0
  BY <1>1, <1>5, WrittenStep, Zenon DEF End
<1>7. DeliversInOrder
  <2>1. \A i \in 1 .. Len(client.callbacks) : FALSE BY <1>5
  <2>2. Len(client.callbacks) <= Len(sent) BY <1>5, <1>6
  <2> QED BY <2>1, <2>2, Zenon DEF DeliversInOrder
<1>8. Stage(client, 0)
  BY <1>3, <1>4, <1>5, <1>6, Zenon DEF Stage, Between, Amid
<1> QED BY <1>1, <1>5, <1>7, <1>8, Zenon DEF FeedInvariant

(* A stream that a broker may send is one whose packets are understood.    *)
LEMMA InvariantSends ==
  ASSUME Benign, FeedInvariant
  PROVE  /\ Sends(sent) /\ Sound(client)
         /\ Len(client.callbacks) \in Nat
<1>1. Sends(sent)
  <2>1. sent \in Seq([header: Header, payload: Seq(Byte)])
    BY FeedAssumption, Zenon DEF FeedInvariant, FeedAssumption
  <2>2. ASSUME NEW i \in 1 .. Len(sent) PROVE Sendable(sent[i])
    <3>1. sent[i] \in [header: Header, payload: Seq(Byte)]
      BY <2>1, ElementOfSeq, Zenon
    <3>2. WellFormed(sent[i]) /\ Simple(sent[i])
      BY FeedAssumption, Zenon DEF FeedInvariant, FeedAssumption, Benign
    <3> QED BY <3>1, <3>2, Zenon DEF Sendable
  <2> QED BY <2>2, Zenon DEF Sends, FeedInvariant
<1>2. Sound(client) BY Zenon DEF FeedInvariant, Stage
<1>3. Len(client.callbacks) \in Nat
  <2>1. client.callbacks \in Seq(Callback) BY <1>2, Fields DEF Sound, Good
  <2> QED BY <2>1
<1> QED BY <1>1, <1>2, <1>3, Zenon

(* What the assumptions leave of a call of process_one.                    *)
LEMMA ReceiveGiven ==
  ASSUME Benign, FeedInvariant, Receive
  PROVE  /\ Sends(sent) /\ Len(client.callbacks) \in Nat
         /\ wire' = wire /\ sent' = sent
         /\ \E a, h : /\ Given(a) /\ a > 0
                      /\ h \in HandlerChoice /\ ~h.peek
                      /\ client' = Processed(a, h).client
<1>1. Sends(sent) /\ Sound(client) /\ Len(client.callbacks) \in Nat
  BY InvariantSends
<1>4. PICK a \in Arrivals, h \in Handlers : ProcessOne(a, h)
  BY Zenon DEF Receive
<1>5. /\ wire' = wire /\ sent' = sent
      /\ client' = Processed(a, h).client
  BY <1>4, Zenon DEF ProcessOne, Receive
<1>6. h \in HandlerChoice /\ ~h.peek
  BY ClientAssumption, Zenon DEF ClientAssumption, Benign
<1>7. Given(a)
  <2>1. client.pos + a \notin InsideTopics /\ a \in Offered
    BY UncutArrivals DEF Benign
  <2>2. Modes \subseteq {"nonblocking"} BY Zenon DEF Benign
  <2>3. a \in 0 .. Len(wire) - client.pos BY <2>1, <2>2, Zenon DEF Offered
  <2>4. /\ client.pos \in Nat /\ Len(wire) \in Nat
        /\ client.pos <= Len(wire)
    BY <1>1, Fields DEF Sound, Good
  <2>5. Len(wire) < SizeMod \div 2
    BY ClientAssumption, FeedAssumption, Zenon
    DEF FeedInvariant, ClientAssumption, FeedAssumption
  <2>6. a \in Nat /\ client.pos + a <= Len(wire) /\ a <= Len(wire)
    BY <2>3, <2>4
  <2>7. a < SizeMod
    <3>1. SizeMod \in Nat BY Widths
    <3> QED BY <2>4, <2>5, <2>6, <3>1
  <2>8. a \in Below(SizeMod) BY <2>6, <2>7 DEF Below
  <2> QED BY <2>1, <2>5, <2>6, <2>8, Zenon DEF Given
<1>8. a > 0
  <2>1. a \in Nat BY <1>7, Zenon DEF Given, Below
  <2>2. a # 0 BY Zenon DEF Arrivals
  <2> QED BY <2>1, <2>2
<1> QED BY <1>1, <1>5, <1>6, <1>7, <1>8, Zenon

(* The callbacks are still those of the first packets.                     *)
LEMMA DeliversOne ==
  ASSUME DeliversInOrder, Sends(sent), sent' = sent,
         NEW n \in Nat, n = Len(client.callbacks), n < Len(sent),
         client.callbacks \in Seq(Callback),
         NEW k \in 0 .. Len(sent[n + 1].payload),
         client'.callbacks
           = Append(client.callbacks, Abstract!CallbackFor(sent[n + 1], k))
  PROVE  DeliversInOrder' /\ Len(client'.callbacks) = n + 1
<1> DEFINE c == client.callbacks
           d == client'.callbacks
           x == Abstract!CallbackFor(sent[n + 1], k)
<1>1. /\ Len(d) = n + 1 /\ d[n + 1] = x
      /\ \A i \in 1 .. n : d[i] = c[i]
  <2>1. c \in Seq(Callback) /\ d = Append(c, x) /\ Len(c) = n OBVIOUS
  <2> HIDE DEF c, d, x
  <2> QED BY <2>1
<1>2. \A i \in 1 .. n : \E j \in 0 .. Len(sent[i].payload) :
        c[i] = Abstract!CallbackFor(sent[i], j)
  BY Zenon DEF DeliversInOrder
<1>3. Len(sent) \in Nat BY WrittenStep, Zenon DEF Sends
<1>4. n + 1 <= Len(sent) BY <1>3
<1>5. \A i \in 1 .. n + 1 : i \in 1 .. n \/ i = n + 1 OBVIOUS
<1>6. \A i \in 1 .. n + 1 : \E j \in 0 .. Len(sent[i].payload) :
        d[i] = Abstract!CallbackFor(sent[i], j)
  BY <1>1, <1>2, <1>5, Zenon
<1> HIDE DEF c, d, x
<1>7. \A i \in 1 .. Len(d) : \E j \in 0 .. Len(sent[i].payload) :
        d[i] = Abstract!CallbackFor(sent[i], j)
  BY <1>1, <1>6, Zenon
<1>8. DeliversInOrder'
  BY <1>1, <1>4, <1>7, Zenon DEF DeliversInOrder, Abstract!CallbackFor, d
<1> QED BY <1>1, <1>8, Zenon DEF d

(* A call keeps the invariant, and it delivers the next packet or nothing. *)
LEMMA ReceiveDelivers ==
  ASSUME Benign, FeedInvariant, Receive
  PROVE  FeedInvariant' /\ (Abstract!Deliver \/ UNCHANGED Abstract!feedVars)
<1>1. PICK n : n = Len(client.callbacks) OBVIOUS
<1>2. /\ Sends(sent) /\ n \in Nat /\ wire' = wire /\ sent' = sent
      /\ \E a, h : /\ Given(a) /\ h \in HandlerChoice /\ ~h.peek
                   /\ client' = Processed(a, h).client
  BY <1>1, ReceiveGiven
<1>3. PICK a, h : /\ Given(a) /\ h \in HandlerChoice /\ ~h.peek
                  /\ client' = Processed(a, h).client
  BY <1>2, Zenon
<1>4. /\ sent \in Streams /\ wire = WireOf[sent] /\ DeliversInOrder
      /\ Stage(client, n) /\ n <= Len(sent)
  BY <1>1, Zenon DEF FeedInvariant, DeliversInOrder
<1>5. Advanced(client, client', n)
  BY <1>2, <1>3, <1>4, ProcessedAdvances, Zenon
<1>6. (wire = WireOf[sent] /\ sent \in Streams)'
  BY <1>2, <1>4, Zenon DEF WireOf
<1>7. CASE client'.callbacks = client.callbacks /\ Stage(client', n)
  <2>1. Stage(client, Len(client.callbacks))'
    BY <1>1, <1>2, <1>7, StageKept, Zenon
  <2>2. DeliversInOrder'
    BY <1>2, <1>4, <1>7, Zenon DEF DeliversInOrder, Abstract!CallbackFor
  <2>3. UNCHANGED Abstract!feedVars
    BY <1>2, <1>7, Zenon DEF Abstract!feedVars
  <2> QED BY <1>6, <2>1, <2>2, <2>3, Zenon DEF FeedInvariant
<1>8. CASE /\ n < Len(sent) /\ Stage(client', n + 1)
           /\ \E k \in 0 .. Len(sent[n + 1].payload) :
                client'.callbacks
                  = Append(client.callbacks,
                           Abstract!CallbackFor(sent[n + 1], k))
  <2>1. PICK k \in 0 .. Len(sent[n + 1].payload) :
          client'.callbacks
            = Append(client.callbacks, Abstract!CallbackFor(sent[n + 1], k))
    BY <1>8, Zenon
  <2>2. client.callbacks \in Seq(Callback)
    BY <1>4, Fields DEF Stage, Sound, Good
  <2>3. DeliversInOrder' /\ Len(client'.callbacks) = n + 1
    BY <1>1, <1>2, <1>4, <1>8, <2>1, <2>2, DeliversOne, Zenon
  <2>4. PICK m : m = n + 1 OBVIOUS
  <2>5. Stage(client, Len(client.callbacks))'
    BY <1>2, <1>8, <2>3, <2>4, StageKept, Zenon
  <2>6. Abstract!Deliver
    BY <1>1, <1>2, <1>8, Zenon DEF Abstract!Deliver
  <2> QED BY <1>6, <2>3, <2>5, <2>6, Zenon DEF FeedInvariant
<1> QED BY <1>5, <1>7, <1>8, Zenon DEF Advanced

-----------------------------------------------------------------------------
(* Between two packets the stream stands where one ends.                   *)
LEMMA InvariantInStep ==
  ASSUME FeedInvariant, NEW n, n = Len(client.callbacks), n \in Nat,
         Len(sent) \in Nat
  PROVE  InStep /\ NoFalseAlarm
<1>1. /\ Stage(client, n) /\ n <= Len(sent)
  BY Zenon DEF FeedInvariant, DeliversInOrder
<1>2. n \in 0 .. Len(sent) BY <1>1
<1>3. End(n) \in Boundaries BY <1>2, Zenon DEF Boundaries
<1> QED
  BY <1>1, <1>3, Zenon DEF Stage, Between, InStep, NoFalseAlarm

(* Past the remaining length, what is left of a packet ends where it ends. *)
LEMMA RemainingEnds ==
  ASSUME NEW packet, NEW o, Stands(packet, o),
         NEW r, InPacket(r, packet, o), r.sequence >= 2,
         packet.header.index \notin {connack, unsuback, pingresp},
         NEW e, e = o + Len(WritePacket(packet))
  PROVE  r.pos + r.remaining_size = e
<1> DEFINE h == packet.header
           v == Rest(packet)
           b == Base(o, v)
<1>1. /\ Headed(h, v, o, b) /\ b \in Nat /\ v \in Nat
      /\ Rests(packet, h, v)
      /\ Payload(packet, o) = (b + v) - Len(packet.payload)
  BY StandsHeaded
<1>2. /\ Payload(packet, o) + Len(packet.payload) = e
      /\ packet.payload \in Seq(Byte)
  BY PayloadStands
<1>3. h \in Header /\ h.index \in Handled BY <1>1, Zenon DEF Headed
<1> HIDE DEF h, v, b
<1>4. b + v = e
  <2>1. PICK m \in Nat : m = Len(packet.payload) BY <1>2
  <2>2. ((b + v) - m) + m = b + v BY <1>1
  <2> QED BY <1>1, <1>2, <2>1, <2>2, Zenon
<1>5. \A w : ~Opening(r, h, w, o)
  <2>1. ~(0 >= 2) /\ ~(1 >= 2) OBVIOUS
  <2> QED BY <2>1, Zenon DEF Opening, Start, At, InLength
<1>6. /\ publish # connack /\ publish # suback /\ publish # pingresp
      /\ connack # suback /\ connack # pingresp /\ suback # pingresp
  BY DEF publish, connack, suback, pingresp
<1>7. ASSUME NEW g, NEW s, NEW w, NEW p \in Nat, NEW m \in Nat,
             InShort(r, g, s, w, p, m), p + m = e
      PROVE  r.pos + r.remaining_size = e
  <2>1. PICK d \in {0, 1} :
          r.pos = p + d /\ r.remaining_size = m - d
    BY <1>7, Zenon DEF InShort, HalfShort
  <2>2. (p + d) + (m - d) = p + m OBVIOUS
  <2> QED BY <1>7, <2>1, <2>2, Zenon
<1>8. CASE h.index = publish
  <2>4. PublishPart(r, h, v, o, b)
    BY <1>6, <1>8, Zenon DEF InPacket, h, v, b
  <2>1. At(r, Flagged(h), 2, b, v) \/ InId(r, h, v, b)
    BY <1>5, <2>4, Zenon DEF PublishPart
  <2>2. CASE At(r, Flagged(h), 2, b, v) BY <1>4, <2>2, Zenon DEF At
  <2>3. CASE InId(r, h, v, b)
    <3>1. Len(h.topic) \in Nat BY <1>3 DEF Header
    <3>2. PICK t \in Nat, i \in {0, 2}, m \in Nat :
            t = Len(h.topic) /\ i = IdField(h) /\ m = Len(packet.payload)
      BY <1>2, <3>1 DEF IdField
    <3>3. v = ((2 + t) + i) + m
      BY <1>1, <1>8, <3>2, Zenon DEF Rests, TopicField
    <3>6. PICK x \in Nat, y \in Nat : x = b /\ y = v BY <1>1
    <3>7. y = ((2 + t) + i) + m BY <3>3, <3>6, Zenon
    <3>8. /\ x + (2 + t) \in Nat /\ y - (2 + t) \in Nat
          /\ (x + (2 + t)) + (y - (2 + t)) = x + y
      BY <3>7
    <3>4. /\ b + (2 + t) \in Nat /\ v - (2 + t) \in Nat
          /\ (b + (2 + t)) + (v - (2 + t)) = b + v
      BY <3>6, <3>8, Zenon
    <3>5. InShort(r, Topped(h), 3, h.packet_identifier, b + (2 + t),
                  v - (2 + t))
      BY <2>3, <3>2, Zenon DEF InId, TopicField
    <3> QED BY <1>4, <1>7, <3>4, <3>5, Zenon
  <2> QED BY <2>1, <2>2, <2>3
<1>9. CASE h.index = suback
  <2>1. \/ InShort(r, Flagged(h), 2, h.packet_identifier, b, v)
        \/ CodesPart(r, h, b + 2)
    BY <1>5, <1>6, <1>9, Zenon DEF InPacket, SubackPart, h, v, b
  <2>2. CASE InShort(r, Flagged(h), 2, h.packet_identifier, b, v)
    BY <1>1, <1>4, <1>7, <2>2, Zenon
  <2>3. CASE CodesPart(r, h, b + 2)
    <3>1. h.return_codes \in Seq(Byte) BY <1>3 DEF Header
    <3>2. PICK l \in Nat : l = Len(h.return_codes) BY <3>1
    <3>3. PICK i \in Nat :
            r.pos = (b + 2) + i /\ r.remaining_size = l - i
      BY <2>3, <3>2, Zenon DEF CodesPart, CodesAt, At
    <3>4. v = 2 + l BY <1>1, <1>9, <3>2, Zenon DEF Rests
    <3>5. ((b + 2) + i) + (l - i) = b + (2 + l) BY <1>1
    <3> QED BY <1>4, <3>3, <3>4, <3>5, Zenon
  <2> QED BY <2>1, <2>2, <2>3
<1>10. CASE h.index \notin {publish, suback}
  <2>1. h.index \in Acks BY <1>3, <1>10, Zenon DEF Acks, h
  <2>2. AckPart(r, h, o, b)
    BY <1>10, Zenon DEF InPacket, h, v, b
  <2>3. InShort(r, Flagged(h), 2, h.packet_identifier, b, 2)
    BY <1>5, <1>10, <2>2, Zenon DEF AckPart, AckLeft, h
  <2>4. v = 2 BY <1>1, <2>1, Zenon DEF Rests
  <2> QED BY <1>1, <1>4, <1>7, <2>3, <2>4, Zenon
<1> QED BY <1>8, <1>9, <1>10, Zenon

(* A packet has bytes, which end within the stream.                        *)
LEMMA PacketEnds ==
  ASSUME NEW packet, NEW o, Stands(packet, o),
         NEW v, v = Rest(packet), NEW b, b = Base(o, v),
         NEW e, e = o + Len(WritePacket(packet))
  PROVE  /\ b \in Nat /\ v \in Nat /\ o \in Nat /\ e \in Nat
         /\ b + v = e /\ o < b /\ o < e /\ e <= Len(wire)
         /\ b = (o + 1) + VariableLength(v)
<1>1. /\ Headed(packet.header, v, o, b) /\ b \in Nat /\ v \in Nat
      /\ Payload(packet, o) = (b + v) - Len(packet.payload)
  BY StandsHeaded
<1>2. /\ Payload(packet, o) + Len(packet.payload) = e
      /\ packet.payload \in Seq(Byte)
  BY PayloadStands
<1>3. b + v = e
  <2>1. PICK m \in Nat : m = Len(packet.payload) BY <1>2
  <2>2. ((b + v) - m) + m = b + v BY <1>1
  <2> QED BY <1>1, <1>2, <2>1, <2>2, Zenon
<1>4. o \in Nat /\ e <= Len(wire) BY Zenon DEF Stands, Spells
<1>5. VariableLength(v) \in 1 .. 4 BY <1>1, LengthOf DEF Headed
<1>6. b = (o + 1) + VariableLength(v) BY Zenon DEF Base
<1>7. o < b BY <1>4, <1>5, <1>6
<1>8. o < e /\ e \in Nat BY <1>1, <1>3, <1>4, <1>7
<1> QED BY <1>1, <1>3, <1>4, <1>6, <1>7, <1>8, Zenon

(* A reader that is within a packet stands before its end.                 *)
LEMMA BeforeEnd ==
  ASSUME NEW packet, NEW o, Stands(packet, o),
         NEW r, InPacket(r, packet, o),
         NEW e, e = o + Len(WritePacket(packet))
  PROVE  r.pos < e
<1> DEFINE h == packet.header
           v == Rest(packet)
           b == Base(o, v)
<1>1. /\ Headed(h, v, o, b) /\ Rests(packet, h, v) BY StandsHeaded
<1>2. /\ b \in Nat /\ v \in Nat /\ o \in Nat /\ e \in Nat
      /\ b + v = e /\ o < e /\ b = (o + 1) + VariableLength(v)
  BY PacketEnds
<1>3. h \in Header /\ h.index \in Handled BY <1>1, Zenon DEF Headed
<1> HIDE DEF h, v, b
<1>4. ASSUME Opening(r, h, v, o) PROVE r.pos < e
  <2>1. CASE Start(r, h, o) BY <1>2, <2>1, Zenon DEF Start, At
  <2>2. CASE InLength(r, Flagged(h), v, o + 1)
    <3>1. r.pos < b BY <1>2, <2>2, Zenon DEF InLength, Half
    <3>2. r.pos \in Nat
      <4>1. Good(r) BY <2>2, Zenon DEF InLength, Half, Partial
      <4> QED BY <4>1, Fields DEF Good
    <3> QED BY <1>2, <3>1, <3>2
  <2> QED BY <1>4, <2>1, <2>2, Zenon DEF Opening
<1>5. ASSUME NEW g, NEW s, NEW w, NEW p \in Nat, NEW m,
             InShort(r, g, s, w, p, m), p + 2 <= e
      PROVE  r.pos < e
  <2>1. PICK d \in {0, 1} : r.pos = p + d
    BY <1>5, Zenon DEF InShort, HalfShort
  <2> QED BY <1>2, <1>5, <2>1
<1>6. /\ publish # connack /\ publish # suback /\ publish # pingresp
      /\ connack # suback /\ connack # pingresp /\ suback # pingresp
  BY DEF publish, connack, suback, pingresp
<1>7. CASE h.index = publish
  <2>1. PublishPart(r, h, v, o, b)
    BY <1>6, <1>7, Zenon DEF InPacket, h, v, b
  <2>2. Len(h.topic) \in Nat BY <1>3 DEF Header
  <2>3. packet.payload \in Seq(Byte) BY PayloadStands
  <2>4. PICK t \in Nat, i \in {0, 2}, m \in Nat :
          t = Len(h.topic) /\ i = IdField(h) /\ m = Len(packet.payload)
    BY <2>2, <2>3 DEF IdField
  <2>5. v = ((2 + t) + i) + m
    BY <1>1, <1>7, <2>4, Zenon DEF Rests, TopicField
  <2>6. PICK x \in Nat, y \in Nat, z \in Nat : x = b /\ y = v /\ z = e
    BY <1>2
  <2>7. x + y = z /\ y = ((2 + t) + i) + m BY <1>2, <2>5, <2>6, Zenon
  <2>8. CASE At(r, Flagged(h), 2, b, v)
    <3>1. r.pos = b BY <2>8, Zenon DEF At
    <3>2. x < z BY <2>7
    <3> QED BY <2>6, <3>1, <3>2, Zenon
  <2>9. CASE InId(r, h, v, b)
    <3>1. i = 2 BY <2>4, <2>9, Zenon DEF InId, IdField
    <3>2. x + (2 + t) \in Nat /\ (x + (2 + t)) + 2 <= z
      BY <2>7, <3>1
    <3>3. b + (2 + t) \in Nat /\ (b + (2 + t)) + 2 <= e
      BY <2>6, <3>2, Zenon
    <3>4. InShort(r, Topped(h), 3, h.packet_identifier, b + (2 + t),
                  v - (2 + t))
      BY <2>9, <2>4, Zenon DEF InId, TopicField
    <3> QED BY <1>5, <3>3, <3>4, Zenon
  <2> QED BY <1>4, <2>1, <2>8, <2>9, Zenon DEF PublishPart
<1>8. CASE h.index = suback
  <2>1. SubackPart(r, h, v, o, b)
    BY <1>6, <1>8, Zenon DEF InPacket, h, v, b
  <2>2. h.return_codes \in Seq(Byte) BY <1>3 DEF Header
  <2>3. PICK l \in Nat : l = Len(h.return_codes) BY <2>2
  <2>4. v = 2 + l BY <1>1, <1>8, <2>3, Zenon DEF Rests
  <2>5. CASE InShort(r, Flagged(h), 2, h.packet_identifier, b, v)
    <3>1. b + 2 <= e BY <1>2, <2>4
    <3> QED BY <1>2, <1>5, <2>5, <3>1, Zenon
  <2>6. CASE CodesPart(r, h, b + 2)
    <3>1. PICK i \in Nat : i < l /\ r.pos = (b + 2) + i
      BY <2>3, <2>6, Zenon DEF CodesPart, CodesAt, At
    <3> QED BY <1>2, <2>4, <3>1
  <2> QED BY <1>4, <2>1, <2>5, <2>6, Zenon DEF SubackPart
<1>9. CASE h.index = connack
  <2>1. ConnackPart(r, h, o, b)
    BY <1>6, <1>9, Zenon DEF InPacket, h, v, b
  <2>2. v = 2 BY <1>1, <1>9, Zenon DEF Rests
  <2>3. b < e /\ b + 1 < e BY <1>2, <2>2
  <2> QED BY <1>4, <2>1, <2>2, <2>3, Zenon DEF ConnackPart, At
<1>10. CASE h.index = pingresp
  <2>1. Opening(r, h, 0, o) BY <1>6, <1>10, Zenon DEF InPacket, h
  <2>2. v = 0 BY <1>1, <1>10, Zenon DEF Rests
  <2> QED BY <1>4, <2>1, <2>2, Zenon
<1>11. CASE h.index \notin {publish, suback, connack, pingresp}
  <2>1. h.index \in Acks BY <1>3, <1>11, Zenon DEF Acks, h
  <2>2. AckPart(r, h, o, b)
    BY <1>11, Zenon DEF InPacket, h, v, b
  <2>3. v = 2 BY <1>1, <2>1, Zenon DEF Rests
  <2>4. b + 2 <= e BY <1>2, <2>3
  <2> QED BY <1>2, <1>4, <1>5, <2>2, <2>3, <2>4, Zenon DEF AckPart
<1> QED BY <1>7, <1>8, <1>9, <1>10, <1>11, Zenon

(* So the client expects no byte of another packet.                        *)
LEMMA InvariantRemaining ==
  ASSUME FeedInvariant, Sends(sent),
         NEW n, n = Len(client.callbacks), n \in Nat
  PROVE  RemainingEndsPacket
<1> SUFFICES ASSUME client.read_type
                      \in Handled \ {connack, unsuback, pingresp},
                    client.sequence >= 2
             PROVE  /\ n < Len(sent)
                    /\ client.pos + client.remaining_size = End(n + 1)
  BY Zenon DEF RemainingEndsPacket
<1>1. client.read_type # reserved
  BY DEF Handled, reserved, connack, publish, puback, pubrec, pubrel,
         pubcomp, suback, unsuback, pingresp
<1>2. /\ n < Len(sent) /\ client.read_type = sent[n + 1].header.index
      /\ InPacket(client, sent[n + 1], End(n))
  BY <1>1, Zenon DEF FeedInvariant, Stage, Amid
<1>3. /\ Stands(sent[n + 1], End(n))
      /\ End(n) + Len(WritePacket(sent[n + 1])) = End(n + 1)
  BY <1>2, NextStands DEF FeedInvariant
<1>4. client.pos + client.remaining_size = End(n + 1)
  <2>1. sent[n + 1].header.index \notin {connack, unsuback, pingresp}
    BY <1>2, Zenon
  <2>2. PICK e : e = End(n) + Len(WritePacket(sent[n + 1])) OBVIOUS
  <2>3. client.pos + client.remaining_size = e
    BY <1>2, <1>3, <2>1, <2>2, RemainingEnds
  <2> QED BY <1>3, <2>2, <2>3, Zenon
<1> QED BY <1>2, <1>4, Zenon

(* As long as a packet is missing its callback, bytes are to come.         *)
LEMMA BytesLeft ==
  ASSUME Benign, FeedInvariant, Len(client.callbacks) < Len(sent)
  PROVE  client.pos < Len(wire)
<1>1. PICK n : n = Len(client.callbacks) OBVIOUS
<1>2. /\ Sends(sent) /\ Sound(client) /\ n \in Nat /\ n < Len(sent)
  BY <1>1, InvariantSends
<1>3. wire = WireOf[sent] /\ Stage(client, n)
  BY <1>1, Zenon DEF FeedInvariant
<1>4. PICK o, e : o = End(n) /\ e = o + Len(WritePacket(sent[n + 1]))
  OBVIOUS
<1>5. Stands(sent[n + 1], o) BY <1>2, <1>3, <1>4, NextStands, Zenon
<1>6. /\ o \in Nat /\ e \in Nat /\ o < e /\ e <= Len(wire)
  BY <1>4, <1>5, PacketEnds
<1>7. /\ client.pos \in Nat /\ client.read_ignore \in Nat
      /\ Len(wire) \in Nat
  BY <1>2, Fields DEF Sound, Good
<1>8. CASE client.read_type = reserved
  <2>1. client.pos + client.read_ignore = o
    BY <1>3, <1>4, <1>8, Zenon DEF Stage, Between
  <2> QED BY <1>6, <1>7, <2>1
<1>9. CASE client.read_type # reserved
  <2>1. InPacket(client, sent[n + 1], o)
    BY <1>3, <1>4, <1>9, Zenon DEF Stage, Amid
  <2>2. client.pos < e BY <1>4, <1>5, <2>1, BeforeEnd
  <2> QED BY <1>6, <1>7, <2>2
<1> QED BY <1>8, <1>9

(* The end of the stream is not inside a topic.                            *)
LEMMA EndOutside ==
  ASSUME Sends(sent), wire = WireOf[sent]
  PROVE  Len(wire) \notin InsideTopics
<1> DEFINE field(i) == End(i) - Len(sent[i].payload)
                         - (IF QoS(sent[i].header) = 0 THEN 0 ELSE 2)
           inside(i) ==
             (field(i) - 1 - Len(sent[i].header.topic)) .. (field(i) - 1)
<1>1. ASSUME NEW i \in 1 .. Len(sent) PROVE Len(wire) \notin inside(i)
  <2>1. Len(sent) \in Nat BY LastEnds
  <2>2. PICK n \in Nat : i = n + 1 /\ n < Len(sent)
    <3>1. i - 1 \in Nat /\ i = (i - 1) + 1 /\ i - 1 < Len(sent) BY <2>1
    <3> QED BY <3>1
  <2>3. PICK o, e : o = End(n) /\ e = o + Len(WritePacket(sent[i]))
    OBVIOUS
  <2>4. Stands(sent[i], o) /\ e = End(i)
    BY <2>2, <2>3, NextStands, Zenon
  <2>5. e \in Nat /\ e <= Len(wire) BY <2>3, <2>4, PacketEnds
  <2>6. sent[i].payload \in Seq(Byte) BY <2>4, PayloadStands
  <2>7. PICK m \in Nat : m = Len(sent[i].payload) BY <2>6
  <2>8. PICK k \in {0, 2} :
          k = IF QoS(sent[i].header) = 0 THEN 0 ELSE 2
    OBVIOUS
  <2>9. field(i) = e - m - k BY <2>4, <2>7, <2>8, Zenon
  <2>10. Len(wire) \in Nat
    <3>1. wire \in Seq(Byte) BY <2>4, Zenon DEF Stands
    <3> QED BY <3>1
  <2>11. e - m - k - 1 < Len(wire) /\ e - m - k - 1 \in Int
    BY <2>5, <2>10
  <2> HIDE DEF field
  <2>12. field(i) - 1 < Len(wire) /\ field(i) - 1 \in Int
    BY <2>9, <2>11, Zenon
  <2> QED BY <2>10, <2>12
<1> HIDE DEF inside, field
<1>2. InsideTopics
        = UNION {inside(i) :
                   i \in {j \in 1 .. Len(sent) :
                            sent[j].header.index = publish}}
  BY Zenon DEF InsideTopics, inside, field
<1> QED BY <1>1, <1>2, Zenon

(* So all of them can be offered.                                          *)
LEMMA InvariantNeverStuck ==
  ASSUME Benign, FeedInvariant, "nonblocking" \in Modes
  PROVE  NeverStuck
<1> SUFFICES ASSUME Len(client.callbacks) < Len(sent) PROVE Arrivals # {}
  BY Zenon DEF NeverStuck, CanReceive
<1>1. client.pos < Len(wire) BY BytesLeft
<1>2. Sends(sent) /\ wire = WireOf[sent] /\ Sound(client)
  BY InvariantSends DEF FeedInvariant
<1>3. client.pos \in Nat /\ Len(wire) \in Nat
  BY <1>2, Fields DEF Sound, Good
<1>4. PICK a : a = Len(wire) - client.pos OBVIOUS
<1>5. /\ a \in 0 .. Len(wire) - client.pos /\ a # 0
      /\ client.pos + a = Len(wire)
  BY <1>1, <1>3, <1>4
<1>6. a \in Offered BY <1>5, Zenon DEF Offered
<1>7. Len(wire) \notin InsideTopics BY <1>2, EndOutside
<1>8. client.pos + a \notin InsideTopics BY <1>5, <1>7, Zenon
<1>9. a \in Arrivals BY <1>5, <1>6, <1>8, UncutArrivals DEF Benign
<1> QED BY <1>9, Zenon

(* No packet of a broker is of the reserved type.                          *)
LEMMA InvariantNeverStalls ==
  ASSUME Benign, FeedInvariant
  PROVE  ~Stalls
<1> SUFFICES ASSUME Stalls PROVE FALSE OBVIOUS
<1>1. PICK n : n = Len(client.callbacks) OBVIOUS
<1>2. /\ Sends(sent) /\ Sound(client) /\ n \in Nat
  BY <1>1, InvariantSends
<1>3. /\ wire = WireOf[sent] /\ Stage(client, n) /\ n <= Len(sent)
  BY <1>1, Zenon DEF FeedInvariant, DeliversInOrder
<1>4. /\ client.read_type = reserved /\ client.read_ignore = 0
      /\ client.pos < Len(wire) /\ wire[client.pos + 1] \div 16 = reserved
  BY Zenon DEF Stalls
<1>5. client.pos \in Nat /\ Len(wire) \in Nat
  BY <1>2, Fields DEF Sound, Good
<1>6. client.pos = End(n)
  <2>1. client.pos + 0 = client.pos BY <1>5
  <2> QED BY <1>3, <1>4, <2>1, Zenon DEF Stage, Between
<1>7. n < Len(sent)
  <2>1. End(Len(sent)) = Len(wire) /\ Len(sent) \in Nat
    BY <1>2, <1>3, LastEnds
  <2>2. client.pos # Len(wire) BY <1>4, <1>5
  <2>3. n # Len(sent) BY <1>6, <2>1, <2>2, Zenon
  <2> QED BY <1>2, <1>3, <2>1, <2>3
<1>8. /\ Stands(sent[n + 1], client.pos)
      /\ sent[n + 1].header.index # reserved
  BY <1>2, <1>3, <1>6, <1>7, NextStands, Zenon
<1> QED BY <1>4, <1>8, PacketType, Zenon

(* A call takes a byte or makes a callback.                                *)
LEMMA ReceiveOnward ==
  ASSUME Benign, FeedInvariant, Receive
  PROVE  \/ client'.pos > client.pos
         \/ Len(client'.callbacks) > Len(client.callbacks)
<1>1. PICK n : n = Len(client.callbacks) OBVIOUS
<1>2. /\ Sends(sent) /\ n \in Nat
      /\ \E a, h : /\ Given(a) /\ a > 0 /\ h \in HandlerChoice /\ ~h.peek
                   /\ client' = Processed(a, h).client
  BY <1>1, ReceiveGiven, Zenon
<1>3. PICK a, h : /\ Given(a) /\ a > 0 /\ h \in HandlerChoice /\ ~h.peek
                  /\ client' = Processed(a, h).client
  BY <1>2, Zenon
<1>4. /\ wire = WireOf[sent] /\ Stage(client, n) /\ n <= Len(sent)
      /\ Sound(client)
  BY <1>1, Zenon DEF FeedInvariant, DeliversInOrder, Stage
<1>5. Advanced(client, client', n)
  BY <1>2, <1>3, <1>4, ProcessedAdvances, Zenon
<1>6. CASE /\ client'.callbacks = client.callbacks /\ client'.ec = "none"
           /\ Stage(client', n)
  <2>1. Len(wire) + 1 < SizeMod
    <3>1. Len(wire) \in Nat BY <1>4, Fields DEF Sound, Good
    <3>2. PICK half \in Nat : half = SizeMod \div 2 /\ half + half <= SizeMod
      BY Widths
    <3>3. Len(wire) < half BY <1>3, <3>2, Zenon DEF Given
    <3> QED BY <3>1, <3>2, <3>3, Widths
  <2>2. a \in Below(SizeMod) BY <1>3, Zenon DEF Given
  <2>3. \/ client'.pos > client.pos
        \/ client'.callbacks # client.callbacks
        \/ client'.ec # "none" \/ ~client'.good \/ Stalls
    BY <1>3, <1>4, <2>1, <2>2, ProcessedCounts
  <2>4. client'.good BY <1>6, Zenon DEF Stage
  <2> QED BY <1>6, <2>3, <2>4, InvariantNeverStalls, Zenon
<1>7. CASE /\ n < Len(sent) /\ Stage(client', n + 1)
           /\ \E k \in 0 .. Len(sent[n + 1].payload) :
                client'.callbacks
                  = Append(client.callbacks,
                           Abstract!CallbackFor(sent[n + 1], k))
  <2>1. client.callbacks \in Seq(Callback)
    BY <1>4, Fields DEF Sound, Good
  <2>2. PICK x : client'.callbacks = Append(client.callbacks, x)
    BY <1>7, Zenon
  <2>3. Len(client'.callbacks) = Len(client.callbacks) + 1
    BY <2>1, <2>2
  <2> QED BY <1>1, <1>2, <2>3
<1> QED BY <1>5, <1>6, <1>7, Zenon DEF Advanced

-----------------------------------------------------------------------------
(* Nothing happens: the invariant goes on to hold.                         *)
LEMMA FeedStutters ==
  ASSUME FeedInvariant, UNCHANGED feedClientVars
  PROVE  FeedInvariant' /\ UNCHANGED Abstract!feedVars
<1>1. client' = client /\ wire' = wire /\ sent' = sent
  BY Zenon DEF feedClientVars, vars
<1>2. Stage(client, Len(client.callbacks))'
  BY <1>1, StageKept, Zenon DEF FeedInvariant
<1>3. DeliversInOrder'
  BY <1>1, Zenon DEF FeedInvariant, DeliversInOrder, Abstract!CallbackFor
<1>4. (wire = WireOf[sent] /\ sent \in Streams)'
  BY <1>1, Zenon DEF WireOf, FeedInvariant
<1>5. UNCHANGED Abstract!feedVars BY <1>1, Zenon DEF Abstract!feedVars
<1> QED BY <1>2, <1>3, <1>4, <1>5, Zenon DEF FeedInvariant

(* What the runs check follows from the invariant.                         *)
LEMMA InvariantImplies ==
  ASSUME Benign, FeedInvariant
  PROVE  InStep /\ RemainingEndsPacket /\ NoFalseAlarm /\ DeliversInOrder
<1>1. Sends(sent) /\ Len(client.callbacks) \in Nat
  BY InvariantSends
<1>2. Len(sent) \in Nat BY <1>1, WrittenStep, Zenon DEF Sends
<1>3. PICK n : n = Len(client.callbacks) OBVIOUS
<1>4. n \in Nat BY <1>1, <1>3, Zenon
<1>5. InStep /\ NoFalseAlarm
  BY <1>2, <1>3, <1>4, InvariantInStep
<1>6. RemainingEndsPacket BY <1>1, <1>3, <1>4, InvariantRemaining
<1> QED BY <1>5, <1>6, Zenon DEF FeedInvariant

(* The invariant holds of every reachable state: the client is always      *)
(* between two packets of the stream or at a known place in one of them.   *)
THEOREM FeedInvariantTheorem ==
  ASSUME Benign
  PROVE  FeedSpec => []FeedInvariant
<1>1. FeedInit => FeedInvariant BY FeedInvariantInit
<1>2. FeedInvariant /\ [Receive]_feedClientVars => FeedInvariant'
  BY ReceiveDelivers, FeedStutters, Zenon
<1> QED BY <1>1, <1>2, PTL DEF FeedSpec

(* Every payload byte that a handler leaves is skipped, and no other: when *)
(* no packet is in progress, the stream stands between two packets         *)
(* (client.hpp:348-360, 398-406).                                          *)
THEOREM InStepTheorem ==
  ASSUME Benign
  PROVE  FeedSpec => []InStep
<1>1. FeedInvariant => InStep BY InvariantImplies
<1> QED BY <1>1, FeedInvariantTheorem, PTL

(* The remaining length that the reader counts down never reaches into the *)
(* next packet (reader.hpp:29, 51, 88, 123).                               *)
THEOREM RemainingEndsPacketTheorem ==
  ASSUME Benign
  PROVE  FeedSpec => []RemainingEndsPacket
<1>1. FeedInvariant => RemainingEndsPacket BY InvariantImplies
<1> QED BY <1>1, FeedInvariantTheorem, PTL

(* No stream of well-formed packets makes the client report an error.      *)
THEOREM NoFalseAlarmTheorem ==
  ASSUME Benign
  PROVE  FeedSpec => []NoFalseAlarm
<1>1. FeedInvariant => NoFalseAlarm BY InvariantImplies
<1> QED BY <1>1, FeedInvariantTheorem, PTL

(* The callbacks are those of the first packets sent, in order, each with  *)
(* the header sent and a first part of the payload sent.                   *)
THEOREM DeliversInOrderTheorem ==
  ASSUME Benign
  PROVE  FeedSpec => []DeliversInOrder
<1>1. FeedInvariant => DeliversInOrder BY InvariantImplies
<1> QED BY <1>1, FeedInvariantTheorem, PTL

(* The client implements PacketFeed as far as safety goes: it starts with  *)
(* no callback, and a call of process_one makes the next one or none       *)
(* (client.hpp:255-303). What this leaves of the refinement is that all of *)
(* them are made in the end.                                               *)
THEOREM FeedRefinement ==
  ASSUME Benign
  PROVE  FeedSpec =>
           /\ Abstract!FeedInit
           /\ [][Abstract!Deliver]_(Abstract!feedVars)
           /\ ImplementsPacketFeed <=> Abstract!AllDelivered
<1>1. FeedInit => Abstract!FeedInit
  <2>1. client = InitialClient => client.callbacks = <<>>
    BY DEF InitialClient
  <2> QED BY <2>1, Zenon DEF FeedInit, Abstract!FeedInit
<1>2. FeedInvariant /\ [Receive]_feedClientVars
        => [Abstract!Deliver]_(Abstract!feedVars)
  BY ReceiveDelivers, FeedStutters, Zenon
<1> QED
  BY <1>1, <1>2, FeedInvariantTheorem, PTL
  DEF FeedSpec, ImplementsPacketFeed, Abstract!FeedSpec

(* A broker's client is a Client: what holds of every stream, call and     *)
(* handler holds of these.                                                 *)
THEOREM FeedIsClient == FeedSpec => Spec
<1>1. FeedInit => Init
  BY FeedAssumption, Zenon DEF FeedInit, Init, FeedAssumption
<1>2. Receive => Next
  BY Zenon DEF Receive, CanReceive, Arrivals, Next
<1>3. UNCHANGED feedClientVars => UNCHANGED vars
  BY Zenon DEF feedClientVars
<1>4. [Receive]_feedClientVars => [Next]_vars BY <1>2, <1>3
<1> QED BY <1>1, <1>4, PTL DEF FeedSpec, Spec

(* A client that has not made all callbacks is never left without a piece  *)
(* that its caller can offer: it holds no packet back until more arrives.  *)
THEOREM NeverStuckTheorem ==
  ASSUME Benign, "nonblocking" \in Modes
  PROVE  FeedSpec => []NeverStuck
<1>1. FeedInvariant => NeverStuck BY InvariantNeverStuck
<1> QED BY <1>1, FeedInvariantTheorem, PTL

(* Every call takes a byte or makes a callback (client.hpp:255-303).       *)
THEOREM OnwardTheorem ==
  ASSUME Benign
  PROVE  FeedSpec => Onward
<1>1. FeedInvariant /\ [Receive]_feedClientVars =>
        [\/ client'.pos > client.pos
         \/ Len(client'.callbacks) > Len(client.callbacks)]_feedClientVars
  BY ReceiveOnward, Zenon
<1> QED BY <1>1, FeedInvariantTheorem, PTL DEF FeedSpec, Onward

(* A caller that goes on polling delivers everything, or an error that it  *)
(* gives up after ends it, or it goes on for ever. And each of its calls   *)
(* adds to one of two numbers that are bounded, by the length of the       *)
(* stream and that of the sequence.                                        *)
Finished ==
  \/ Len(client.callbacks) = Len(sent)
  \/ client.ec \notin Resume \cup {"none"}

GoesOn ==
  /\ \/ client'.pos > client.pos
     \/ Len(client'.callbacks) > Len(client.callbacks)
  /\ client'.pos <= Len(wire) /\ Len(client'.callbacks) <= Len(sent)

THEOREM KeepsReceiving ==
  ASSUME Benign, "nonblocking" \in Modes
  PROVE  FeedSpec => <>Finished \/ []<><<GoesOn>>_feedClientVars
<1>1. FeedInvariant /\ ~Finished => CanReceive
  <2> SUFFICES ASSUME FeedInvariant, ~Finished PROVE CanReceive OBVIOUS
  <2>1. NeverStuck BY InvariantNeverStuck
  <2>2. Len(client.callbacks) < Len(sent)
    <3>1. Len(client.callbacks) \in Nat /\ Sends(sent) BY InvariantSends
    <3>2. Len(sent) \in Nat BY <3>1, WrittenStep, Zenon DEF Sends
    <3>3. Len(client.callbacks) <= Len(sent)
      BY Zenon DEF FeedInvariant, DeliversInOrder
    <3>4. Len(client.callbacks) # Len(sent) BY Zenon DEF Finished
    <3> QED BY <3>1, <3>2, <3>3, <3>4
  <2> QED BY <2>1, <2>2, Zenon DEF NeverStuck, Finished
<1>2. FeedInvariant /\ <<Receive>>_feedClientVars =>
        <<GoesOn>>_feedClientVars
  <2> SUFFICES ASSUME FeedInvariant, Receive PROVE GoesOn OBVIOUS
  <2>1. FeedInvariant' BY ReceiveDelivers
  <2>2. wire' = wire /\ sent' = sent BY ReceiveGiven
  <2>3. Len(client'.callbacks) <= Len(sent)
    BY <2>1, <2>2, Zenon DEF FeedInvariant, DeliversInOrder
  <2>4. client'.pos <= Len(wire)
    BY <2>1, <2>2, Zenon DEF FeedInvariant, Stage, Sound, Good
  <2> QED BY <2>3, <2>4, ReceiveOnward, Zenon DEF GoesOn
<1> QED BY <1>1, <1>2, FeedInvariantTheorem, PTL DEF FeedSpec, Polling
=============================================================================
