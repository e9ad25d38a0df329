--------------------------- MODULE Element_proofs ---------------------------
(***************************************************************************)
(* The reader inverts the writer, for every value that can be sent and     *)
(* every way its bytes can be offered.                                     *)
(***************************************************************************)
EXTENDS Element, Reader_proofs

-----------------------------------------------------------------------------
(* The element is on the wire, and the reader has it or a part of it.      *)
ShortRead(r, v) ==
  \/ r.sequence = 1 /\ Done(r, Received(v), 2, 0)
  \/ r.sequence = 0 /\ HalfShort(r, v, 0, 2)

ShortInv ==
  /\ element.type = "uint16" /\ element.value \in Short
  /\ wire = WriteUint16(element.value)
  /\ ShortRead(reader, element.value)

VariableRead(r, v) ==
  \/ /\ r.sequence = 1
     /\ Done(r, v, VariableLength(v), 4 - VariableLength(v))
  \/ r.sequence = 0 /\ Half(r, v, 0)

VariableInv ==
  /\ element.type = "variable" /\ element.value \in Variable
  /\ wire = WriteVariableInteger(element.value)
  /\ VariableRead(reader, element.value)

ElementInv == element \in Elements /\ (ShortInv \/ VariableInv)

(* The element is all the stream holds.                                    *)
LEMMA WholeWire ==
  ASSUME wire \in Seq(Byte)
  PROVE  Spells(0, wire)
<1>1. Len(wire) \in Nat BY LenProperties
<1>2. \A i \in 1 .. Len(wire) : 0 + i = i BY <1>1
<1> QED BY <1>1, <1>2 DEF Spells

(* What is sent is of either type.                                         *)
LEMMA ElementTypes ==
  ASSUME NEW e \in Elements
  PROVE  \/ e.type = "uint16" /\ e.value \in Short /\ e.value \in Uint16s
         \/ e.type = "variable" /\ e.value \in Variable
<1>1. CASE e \in [type : {"uint16"}, value : Uint16s]
  <2>1. e.type = "uint16" /\ e.value \in Uint16s BY <1>1
  <2>2. Uint16s \subseteq Short
    BY ElementAssumption, SMT DEF ElementAssumption, Short
  <2> QED BY <2>1, <2>2, Zenon
<1>2. CASE e \in [type : {"variable"}, value : VariableIntegers]
  <2>1. e.type = "variable" /\ e.value \in VariableIntegers BY <1>2
  <2>2. VariableIntegers \subseteq Variable
    BY ElementAssumption, SMT DEF ElementAssumption, Variable
  <2> QED BY <2>1, <2>2, Zenon
<1> QED BY <1>1, <1>2, Zenon DEF Elements

(* The reader before the first byte.                                       *)
LEMMA StartGood ==
  ASSUME wire \in Seq(Byte), NEW n \in {2, 4},
         NEW q, q = [InitialClient EXCEPT !.remaining_size = n]
  PROVE  /\ Good(q) /\ q.good /\ q.ec = "none" /\ q.sequence = 0
         /\ q.pos = 0 /\ q.remaining_size = n /\ q.data0 = 0 /\ q.data1 = 0
<1>1. /\ q.good = TRUE /\ q.ec = "none" /\ q.sequence = 0 /\ q.pos = 0
      /\ q.remaining_size = n /\ q.data0 = 0 /\ q.data1 = 0
      /\ q.read_header = Fresh(reserved)
  BY DEF InitialClient
<1>2. Fresh(reserved).topic = <<>> BY DEF Fresh
<1>3. q \in ClientState
  <2>1. n \in Words BY Widths DEF Words, Below
  <2> QED BY <2>1, InitialState, Shape, Zenon
<1>4. q.pos <= Len(wire)
  <2>1. Len(wire) \in Nat BY LenProperties
  <2> QED BY <1>1, <2>1
<1>5. Len(q.read_header.topic) <= TopicMax
  BY <1>1, <1>2, ReaderAssumption DEF ReaderAssumption
<1> QED BY <1>1, <1>3, <1>4, <1>5 DEF Good

(* Nothing has been read when the reader starts.                           *)
LEMMA ElementInitInv ==
  ASSUME ElementInit
  PROVE  ElementInv
<1>1. element \in Elements BY DEF ElementInit
<1>2. CASE element.type = "uint16"
  <2>1. element.value \in Short BY <1>1, <1>2, ElementTypes
  <2>2. /\ wire = WriteUint16(element.value)
        /\ reader = [InitialClient EXCEPT !.remaining_size = 2]
    BY <1>2 DEF ElementInit
  <2>3. wire \in Seq(Byte) /\ Len(wire) = 2 BY <2>1, <2>2, ShortBytes
  <2>4. /\ Good(reader) /\ reader.good /\ reader.ec = "none"
        /\ reader.sequence = 0 /\ reader.pos = 0 /\ reader.remaining_size = 2
        /\ reader.data0 = 0 /\ reader.data1 = 0
    BY <2>2, <2>3, StartGood
  <2>5. HalfShort(reader, element.value, 0, 2) BY <2>4 DEF HalfShort
  <2> QED BY <1>1, <1>2, <2>1, <2>2, <2>4, <2>5, Zenon
       DEF ElementInv, ShortInv, ShortRead
<1>3. CASE element.type # "uint16"
  <2>1. element.type = "variable" /\ element.value \in Variable
    BY <1>1, <1>3, ElementTypes
  <2>2. /\ wire = WriteVariableInteger(element.value)
        /\ reader = [InitialClient EXCEPT !.remaining_size = 4]
    BY <1>3 DEF ElementInit
  <2>3. wire \in Seq(Byte) /\ VariableLength(element.value) \in 1 .. 4
    BY <2>1, <2>2, Encoded
  <2>4. /\ Good(reader) /\ reader.good /\ reader.ec = "none"
        /\ reader.sequence = 0 /\ reader.pos = 0 /\ reader.remaining_size = 4
        /\ reader.data0 = 0 /\ reader.data1 = 0
    BY <2>2, <2>3, StartGood
  <2>5. reader.pos < 0 + VariableLength(element.value) BY <2>3, <2>4
  <2>6. Half(reader, element.value, 0) BY <2>4, <2>5, Zenon DEF Half
  <2> QED BY <1>1, <2>1, <2>2, <2>4, <2>6, Zenon
       DEF ElementInv, VariableInv, VariableRead
<1> QED BY <1>2, <1>3

(* The reader as a call finds it.                                          *)
Offers(r, a) == [r EXCEPT !.available = a, !.ok = TRUE]

(* What it has read does not change with what is available.                *)
LEMMA Offer ==
  ASSUME NEW r, Good(r), NEW a, a \in 0 .. Len(wire) - r.pos,
         Len(wire) <= 4, NEW q, q = Offers(r, a)
  PROVE  /\ Good(q) /\ q.ok /\ q.available <= Len(wire) - q.pos
         /\ q.pos = r.pos /\ q.good = r.good /\ q.ec = r.ec
         /\ q.sequence = r.sequence /\ q.remaining_size = r.remaining_size
         /\ q.data0 = r.data0 /\ q.data1 = r.data1
<1>1. r \in ClientState /\ r.pos \in Nat BY Fields DEF Good
<1>2. a \in Sizes
  <2>1. Len(wire) \in Nat BY LenProperties DEF Good
  <2> QED BY <1>1, <2>1, Widths DEF Sizes, Below
<1>3. q \in ClientState BY <1>1, <1>2, Shape, Zenon DEF Offers
<1>4. /\ q.pos = r.pos /\ q.good = r.good /\ q.ec = r.ec
      /\ q.sequence = r.sequence /\ q.remaining_size = r.remaining_size
      /\ q.data0 = r.data0 /\ q.data1 = r.data1
      /\ q.available = a /\ q.ok = TRUE /\ q.read_header = r.read_header
  BY <1>1 DEF ClientState, Offers
<1>5. Good(q) BY <1>3, <1>4 DEF Good
<1> QED BY <1>1, <1>4, <1>5

(* A call continues the element, whatever part of it is available, and     *)
(* stops short only where that part ends.                                  *)
LEMMA ReadInv ==
  ASSUME ElementInv, Read
  PROVE  /\ ElementInv'
         /\ reader'.sequence # 1 =>
              reader'.pos < Len(wire) /\ reader'.available = 0
<1>1. /\ reader.sequence = 0 /\ wire' = wire /\ element' = element
  BY DEF Read
<1>2. PICK a :
        /\ a \in 0 .. Len(wire) - reader.pos
        /\ reader' = ReadElement(Offers(reader, a))
  BY DEF Read, Offers
<1>8. a \in 0 .. Len(wire) - reader.pos BY <1>2
<1>3. PICK r : r = Offers(reader, a) OBVIOUS
<1>4. PICK q : q = reader' OBVIOUS
<1>5. element \in Elements BY DEF ElementInv
<1>6. CASE ShortInv
  <2>1. PICK v \in Short : v = element.value BY <1>6 DEF ShortInv
  <2>2. wire = WriteUint16(v) BY <1>6, <2>1 DEF ShortInv
  <2>3. Len(wire) = 2 BY <2>1, <2>2, ShortBytes
  <2>4. HalfShort(reader, v, 0, 2)
    BY <1>1, <1>6, <2>1 DEF ShortInv, ShortRead
  <2>5. /\ Good(r) /\ r.ok /\ r.available <= Len(wire) - r.pos
        /\ r.pos = reader.pos /\ r.good = reader.good
        /\ r.ec = reader.ec /\ r.sequence = reader.sequence
        /\ r.remaining_size = reader.remaining_size
        /\ r.data0 = reader.data0 /\ r.data1 = reader.data1
    <3>1. Good(reader) BY <2>4 DEF HalfShort
    <3>2. Len(wire) <= 4 BY <2>3, SMT
    <3> QED BY <1>3, <1>8, <3>1, <3>2, Offer
  <2>6. HalfShort(r, v, 0, 2) BY <2>4, <2>5 DEF HalfShort
  <2>7. q = ReadUint16(r) BY <1>2, <1>3, <1>4, <1>6 DEF ReadElement, ShortInv
  <2>8. \/ Done(q, Received(v), 2, 0)
        \/ HalfShort(q, v, 0, 2) /\ ~q.ok /\ q.available = 0
    <3>1. Spells(0, WriteUint16(v)) BY <2>2, <2>5, WholeWire DEF Good
    <3>2. r.available < SizeMod \div 2
      <4>1. r.available \in Nat /\ r.pos \in Nat
        BY <2>5, Fields DEF Good
      <4>2. r.available <= 2 BY <2>3, <2>5, <4>1
      <4> QED BY <4>1, <4>2, Widths
    <3>3. 2 \in Nat /\ 2 >= 2 OBVIOUS
    <3>4. \/ Done(q, Received(v), 0 + 2, 2 - 2)
          \/ HalfShort(q, v, 0, 2) /\ ~q.ok /\ q.available = 0
      BY <2>5, <2>6, <2>7, <3>1, <3>2, <3>3, ReadUint16Back, ZenonT(60)
    <3>5. 0 + 2 = 2 /\ 2 - 2 = 0 OBVIOUS
    <3> QED BY <3>4, <3>5
  <2>9. q.sequence = IF Continues(q) THEN 1 ELSE 0
    <3>1. Continues(r) BY <2>5, <2>6 DEF HalfShort, Continues
    <3>2. Steps(r, q) BY <2>5, <2>7, <3>1, ReadUint16Steps
    <3>3. r.sequence = 0 BY <1>1, <2>5
    <3> QED BY <3>2, <3>3 DEF Steps
  <2>10. ShortRead(q, v)
    BY <2>8, <2>9, Zenon DEF ShortRead, Done, HalfShort, Continues
  <2>11. ElementInv'
    <3>1. ShortRead(q, v) => ShortRead(reader, element.value)'
      BY <1>1, <1>4, <2>1, Zenon DEF ShortRead, Done, HalfShort, Good
    <3>2. /\ element'.type = "uint16" /\ element'.value \in Short
          /\ wire' = WriteUint16(element'.value)
      BY <1>1, <1>6, Zenon DEF ShortInv
    <3>3. ShortInv' BY <2>10, <3>1, <3>2, Zenon DEF ShortInv
    <3>4. element' \in Elements BY <1>1, <1>5, Zenon
    <3> QED BY <3>3, <3>4, Zenon DEF ElementInv
  <2>12. q.sequence # 1 => q.pos < Len(wire) /\ q.available = 0
    <3>1. q.sequence # 1 => HalfShort(q, v, 0, 2) /\ q.available = 0
      BY <2>8, <2>9, Zenon DEF Done, Continues
    <3>2. HalfShort(q, v, 0, 2) => q.pos < 2 BY SMT DEF HalfShort
    <3> QED BY <2>3, <3>1, <3>2
  <2> QED BY <1>4, <2>11, <2>12
<1>7. CASE VariableInv
  <2>1. PICK v \in Variable : v = element.value BY <1>7 DEF VariableInv
  <2>2. wire = WriteVariableInteger(v) BY <1>7, <2>1 DEF VariableInv
  <2>3. PICK n \in 1 .. 4 : Len(wire) = n BY <2>1, <2>2, Encoded
  <2>4. Half(reader, v, 0)
    BY <1>1, <1>7, <2>1 DEF VariableInv, VariableRead
  <2>5. /\ Good(r) /\ r.ok /\ r.available <= Len(wire) - r.pos
        /\ r.pos = reader.pos /\ r.good = reader.good
        /\ r.ec = reader.ec /\ r.sequence = reader.sequence
        /\ r.remaining_size = reader.remaining_size
        /\ r.data0 = reader.data0 /\ r.data1 = reader.data1
    <3>1. Good(reader) BY <2>4, Zenon DEF Half, Partial
    <3>2. n <= 4 BY SMT
    <3>3. Len(wire) <= 4 BY <2>3, <3>2, Zenon
    <3> QED BY <1>3, <1>8, <3>1, <3>3, Offer
  <2>6. Half(r, v, 0)
    <3>1. \A k \in 0 .. 3 : Partial(reader, v, k, 0) => Partial(r, v, k, 0)
      BY <2>5, Zenon DEF Partial
    <3> QED BY <2>4, <2>5, <3>1, Zenon DEF Half
  <2>7. q = ReadVariableInteger(r)
    BY <1>2, <1>3, <1>4, <1>7 DEF ReadElement, VariableInv
  <2>8. n = VariableLength(v) /\ 0 + n = n BY <2>1, <2>2, <2>3, Encoded
  <2>9. \/ Done(q, v, n, 4 - n)
        \/ Half(q, v, 0) /\ ~q.ok /\ q.available = 0
    <3>1. Spells(0, WriteVariableInteger(v))
      BY <2>2, <2>5, WholeWire DEF Good
    <3>2. \/ Done(q, v, 0 + n, 4 - n)
          \/ Half(q, v, 0) /\ ~q.ok /\ q.available = 0
      BY <2>5, <2>6, <2>7, <2>8, <3>1, ReadVariableIntegerBack
    <3> QED BY <2>8, <3>2
  <2>10. q.sequence = IF Continues(q) THEN 1 ELSE 0
    <3>1. Continues(r) BY <2>5, <2>6, Zenon DEF Half, Partial, Continues
    <3>2. Steps(r, q) BY <2>5, <2>7, <3>1, ReadVariableIntegerSteps
    <3>3. r.sequence = 0 BY <1>1, <2>5
    <3> QED BY <3>2, <3>3 DEF Steps
  <2>11. VariableRead(q, v)
    BY <2>8, <2>9, <2>10, Zenon DEF VariableRead, Done, Half, Continues
  <2>12. ElementInv'
    <3>1. VariableRead(q, v) => VariableRead(reader, element.value)'
      BY <1>1, <1>4, <2>1, Zenon
      DEF VariableRead, Done, Half, Partial, Good
    <3>2. /\ element'.type = "variable" /\ element'.value \in Variable
          /\ wire' = WriteVariableInteger(element'.value)
      BY <1>1, <1>7, Zenon DEF VariableInv
    <3>3. VariableInv' BY <2>11, <3>1, <3>2, Zenon DEF VariableInv
    <3>4. element' \in Elements BY <1>1, <1>5, Zenon
    <3> QED BY <3>3, <3>4, Zenon DEF ElementInv
  <2>13. q.sequence # 1 => q.pos < Len(wire) /\ q.available = 0
    <3>1. q.sequence # 1 => Half(q, v, 0) /\ q.available = 0
      BY <2>9, <2>10, Zenon DEF Done, Continues
    <3>2. Half(q, v, 0) => q.pos < n BY <2>8, Zenon DEF Half
    <3> QED BY <2>3, <3>1, <3>2
  <2> QED BY <1>4, <2>12, <2>13
<1> QED BY <1>6, <1>7 DEF ElementInv

(* The reader is where the bytes it was offered leave it.                  *)
THEOREM ElementInvTheorem == ElementSpec => []ElementInv
<1>1. ElementInit => ElementInv BY ElementInitInv
<1>2. ElementInv /\ [Read]_elementVars => ElementInv'
  <2> SUFFICES ASSUME ElementInv, [Read]_elementVars PROVE ElementInv'
    OBVIOUS
  <2>1. CASE Read BY <2>1, ReadInv
  <2>2. CASE UNCHANGED elementVars
    <3>1. wire' = wire /\ element' = element /\ reader' = reader
      BY <2>2 DEF elementVars
    <3> QED BY <3>1, Zenon DEF ElementInv, ShortInv, VariableInv,
         ShortRead, VariableRead, Done, Half, HalfShort, Partial, Good
  <2> QED BY <2>1, <2>2
<1> QED BY <1>1, <1>2, PTL DEF ElementSpec

(* ReadsBack for every value the two types hold, and every cut of its      *)
(* bytes into calls, where no low byte of a 16-bit value looks negative.   *)
THEOREM ReadsBackTheorem ==
  ASSUME \A v \in Uint16s : Unsigned(v)
  PROVE  ElementSpec => []ReadsBack
<1>1. ElementInv => ReadsBack
  <2> SUFFICES ASSUME ElementInv PROVE ReadsBack OBVIOUS
  <2>1. CASE ShortInv
    <3>1. element.value \in Uint16s /\ element.value \in Short
      <4>1. element \in Elements /\ element.type = "uint16"
        BY <2>1 DEF ElementInv, ShortInv
      <4> QED BY <4>1, ElementTypes
    <3>2. Received(element.value) = element.value BY <3>1, ShortBytes
    <3>3. Len(wire) = 2 BY <2>1, ShortBytes DEF ShortInv
    <3>4. \/ reader.sequence = 1 /\ Done(reader, element.value, 2, 0)
          \/ reader.sequence = 0 /\ HalfShort(reader, element.value, 0, 2)
      BY <2>1, <3>2 DEF ShortInv, ShortRead
    <3> QED BY <3>3, <3>4 DEF ReadsBack, Done, HalfShort
  <2>2. CASE VariableInv
    <3>1. Len(wire) = VariableLength(element.value)
      BY <2>2, Encoded, Zenon DEF VariableInv
    <3>2. CASE /\ reader.sequence = 1
               /\ \E m : Done(reader, element.value, Len(wire), m)
      BY <3>2, Zenon DEF ReadsBack, Done
    <3>3. CASE reader.sequence = 0 /\ Half(reader, element.value, 0)
      <4>1. reader.ec = "none" BY <3>3, Zenon DEF Half, Partial
      <4>2. reader.sequence # 1 BY <3>3
      <4> QED BY <4>1, <4>2, Zenon DEF ReadsBack
    <3> QED BY <2>2, <3>1, <3>2, <3>3, Zenon DEF VariableInv, VariableRead
  <2> QED BY <2>1, <2>2 DEF ElementInv
<1> QED BY <1>1, ElementInvTheorem, PTL

(* ReadsWhenThere for every value of either type and every cut; here       *)
(* nothing is asked of the 16-bit values, wrong as some are read.          *)
THEOREM ReadsWhenThereTheorem == ElementSpec => ReadsWhenThere
<1>1. ElementInv /\ [Read]_elementVars
        => [reader'.pos + reader'.available = Len(wire)
              => reader'.sequence = 1]_elementVars
  <2> SUFFICES ASSUME ElementInv, Read,
                      reader'.pos + reader'.available = Len(wire)
               PROVE  reader'.sequence = 1
    OBVIOUS
  <2>1. ElementInv' /\ wire' = wire BY ReadInv DEF Read
  <2>2. reader'.sequence # 1 =>
          reader'.pos < Len(wire) /\ reader'.available = 0
    BY ReadInv
  <2> SUFFICES ASSUME reader'.sequence # 1 PROVE FALSE OBVIOUS
  <2>3. reader'.pos < Len(wire) /\ reader'.available = 0 BY <2>2
  <2>4. Good(reader)'
    BY <2>1, Zenon DEF ElementInv, ShortInv, VariableInv, ShortRead,
       VariableRead, Done, Half, HalfShort, Partial
  <2>5. reader' \in ClientState BY <2>4 DEF Good
  <2>6. reader'.pos \in Nat BY <2>5, Fields
  <2> QED BY <2>3, <2>6
<1> QED BY <1>1, ElementInvTheorem, PTL DEF ElementSpec, ReadsWhenThere
=============================================================================
