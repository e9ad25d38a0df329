--------------------------- MODULE Reader_proofs ---------------------------
(***************************************************************************)
(* The read operations of reader.hpp, for every stream and every state a   *)
(* client may be in: what they leave is again such a state, within the     *)
(* stream and the topic container, and the packet being read is the same.  *)
(***************************************************************************)
EXTENDS Reader, Writer, TLAPS, SequenceTheorems

(* A state of the client that fits the stream and the topic container. *)
Good(r) ==
  /\ wire \in Seq(Byte)
  /\ r \in ClientState
  /\ r.pos <= Len(wire)
  /\ Len(r.read_header.topic) <= TopicMax

(* What a read operation leaves alone. *)
Keeps(r, q) ==
  /\ q.read_type = r.read_type
  /\ q.read_header.index = r.read_header.index
  /\ q.read_ignore = r.read_ignore
  /\ q.callbacks = r.callbacks
  /\ q.ec = "bad_variant_cast" => r.ec = "bad_variant_cast"

(* How it counts: it takes no more than is available, of a stream that is  *)
(* good, and what it takes it counts off.  Where it fails the count may be *)
(* wrong (an unsigned subtraction wraps), but then nothing reads on.       *)
Counts(r, q) ==
  /\ r.pos <= q.pos /\ q.pos <= r.pos + r.available
  /\ q.good \/ q.ec = "none" =>
       q.pos + q.available = r.pos + r.available
  /\ ~r.good => ~q.good /\ q.pos = r.pos

(* How it ends: it does not undo a failure, and of a good stream it waits  *)
(* only when nothing is left of what is available.                         *)
Ends(r, q) ==
  /\ q.ec = "none" => r.ec = "none"
  /\ q.ok => r.ok
  /\ ~q.ok /\ q.ec = "none" /\ q.good => q.available = 0 \/ ~r.ok

Reads(r, q) == Good(q) /\ Keeps(r, q) /\ Counts(r, q) /\ Ends(r, q)

(* The types of the fields under names of their own, which the provers     *)
(* need not look into when a field is assigned.                            *)
Sizes == Below(SizeMod)
Words == Below(WordMod)
Short == Below(65536)
Bits8 == 0 .. 255
Bits4 == 0 .. 15
Bits1 == 0 .. 1
Codes == 0 .. 5
Bytes == Seq(Byte)
Calls == Seq(Callback)
Index == Handled \cup {reserved}

(* The record of Basic_client's members with those names.                  *)
LEMMA Shape ==
  ClientState =
    [available: Sizes, sequence: Bits8, data0: Words, data1: Words,
     remaining_size: Words, read_type: Bits4, read_header: Header,
     read_ignore: Sizes, overread: Nat, pos: Nat, good: BOOLEAN,
     ok: BOOLEAN, out: Nat, ec: Error, callbacks: Calls]
BY DEF ClientState, Sizes, Words, Bits8, Bits4, Calls

(* The same of the value held by _read_header.                             *)
LEMMA HeaderShape ==
  Header =
    [index: Index, flags: Bits4, topic: Bytes, packet_identifier: Short,
     session_present: Bits1, return_code: Codes, return_codes: Bytes]
BY DEF Header, Index, Bits4, Bytes, Short, Bits1, Codes

(* The unsigned types hold every length and every 16-bit integer.          *)
LEMMA Widths ==
  /\ WordMod \in Nat /\ WordMod > 65536 /\ WordMod > 0
  /\ SizeMod \in Nat /\ SizeMod > 0 /\ SizeMod >= WordMod
BY GeneralAssumption DEF GeneralAssumption

(* A residue is a value of the unsigned type with that modulus.            *)
LEMMA Modulo ==
  ASSUME NEW x \in Int, NEW m \in Nat, m > 0
  PROVE  /\ x % m \in Below(m) /\ x % m \in Nat
         /\ x % m \in 0 .. (m - 1)
BY DEF Below

(* An unsigned subtraction that does not wrap.                             *)
LEMMA Subtract ==
  ASSUME NEW m \in Nat, NEW x \in Below(m), NEW n \in Nat, n <= x
  PROVE  x - n \in Below(m)
BY DEF Below

(* The types of the members, one by one.                                   *)
LEMMA Fields ==
  ASSUME NEW r \in ClientState
  PROVE  /\ r.available \in Below(SizeMod) /\ r.available \in Nat
         /\ r.remaining_size \in Below(WordMod) /\ r.remaining_size \in Nat
         /\ r.data0 \in Below(WordMod) /\ r.data0 \in Nat
         /\ r.data1 \in Below(WordMod) /\ r.data1 \in Nat
         /\ r.read_ignore \in Below(SizeMod) /\ r.read_ignore \in Nat
         /\ r.sequence \in 0 .. 255 /\ r.sequence \in Nat
         /\ r.pos \in Nat /\ r.out \in Nat /\ r.read_type \in 0 .. 15
         /\ r.read_header \in Header /\ r.callbacks \in Seq(Callback)
         /\ r.ec \in Error /\ r.good \in BOOLEAN /\ r.ok \in BOOLEAN
<1>1. /\ Below(SizeMod) \subseteq Nat /\ Below(WordMod) \subseteq Nat
      /\ 0 .. 255 \subseteq Nat
  BY DEF Below
<1>2. /\ r.available \in Below(SizeMod) /\ r.read_ignore \in Below(SizeMod)
      /\ r.remaining_size \in Below(WordMod)
      /\ r.data0 \in Below(WordMod) /\ r.data1 \in Below(WordMod)
      /\ r.sequence \in 0 .. 255
  BY DEF ClientState
<1>3. /\ r.pos \in Nat /\ r.out \in Nat /\ r.read_type \in 0 .. 15
      /\ r.read_header \in Header /\ r.callbacks \in Seq(Callback)
      /\ r.ec \in Error
  BY DEF ClientState
<1>4. r.good \in BOOLEAN BY DEF ClientState
<1>5. r.ok \in BOOLEAN BY DEF ClientState
<1> QED BY <1>1, <1>2, <1>3, <1>4, <1>5

(* An alternative that was emplaced is well typed.                         *)
LEMMA FreshHeader ==
  ASSUME NEW type \in Handled \cup {reserved}
  PROVE  Fresh(type) \in Header
<1>1. /\ type \in Index /\ 0 \in Bits4 /\ <<>> \in Bytes /\ 0 \in Short
      /\ 0 \in Bits1 /\ 0 \in Codes
  BY DEF Index, Bits4, Bytes, Short, Bits1, Codes, Below
<1> QED BY <1>1, HeaderShape DEF Fresh

(* The initial member values.                                              *)
LEMMA InitialState == InitialClient \in ClientState
<1> DEFINE f == Fresh(reserved)
<1>1. f \in Header BY FreshHeader
<1>2. /\ 0 \in Sizes /\ 0 \in Words /\ 5 \in Words /\ 0 \in Bits8
      /\ reserved \in Bits4 /\ <<>> \in Calls /\ "none" \in Error
  BY Widths DEF Sizes, Words, Bits8, Bits4, Calls, Below, reserved, Error
<1>3. InitialClient =
        [available |-> 0, sequence |-> 0, data0 |-> 0, data1 |-> 0,
         remaining_size |-> 5, read_type |-> reserved, read_header |-> f,
         read_ignore |-> 0, overread |-> 0, pos |-> 0, good |-> TRUE,
         ok |-> TRUE, out |-> 0, ec |-> "none", callbacks |-> <<>>]
  BY DEF InitialClient
<1> HIDE DEF f
<1> QED BY <1>1, <1>2, <1>3, Shape

(* Reads composes: an operation that does nothing, one after another.      *)
LEMMA ReadsReflexive ==
  ASSUME NEW r, Good(r)
  PROVE  Reads(r, r)
<1>1. r.pos \in Nat /\ r.available \in Nat BY Fields DEF Good
<1>2. Counts(r, r) BY <1>1 DEF Counts
<1>3. Ends(r, r) BY Zenon DEF Ends
<1>4. Keeps(r, r) BY Zenon DEF Keeps
<1> QED BY <1>2, <1>3, <1>4 DEF Reads

(* Read operations may follow each other.                                  *)
LEMMA ReadsTransitive ==
  ASSUME NEW r, Good(r), NEW q, NEW s, Reads(r, q), Reads(q, s)
  PROVE  Reads(r, s)
<1>1. Good(q) /\ Good(s) BY DEF Reads
<1>2. /\ r.pos \in Nat /\ r.available \in Nat
      /\ q.pos \in Nat /\ q.available \in Nat
      /\ s.pos \in Nat /\ s.available \in Nat
      /\ r.good \in BOOLEAN /\ q.good \in BOOLEAN /\ s.good \in BOOLEAN
      /\ r.ok \in BOOLEAN /\ q.ok \in BOOLEAN /\ s.ok \in BOOLEAN
  BY <1>1, Fields DEF Good
<1>3. Keeps(r, s) BY Zenon DEF Reads, Keeps
<1>4. Counts(r, q) /\ Counts(q, s) /\ Ends(r, q) /\ Ends(q, s) BY DEF Reads
<1>5. s.good => q.good BY <1>2, <1>4 DEF Counts
<1>6. s.ec = "none" => q.ec = "none" BY <1>4 DEF Ends
<1>7. Counts(r, s)
  <2>1. CASE q.good BY <1>2, <1>4, <1>6, <2>1 DEF Counts
  <2>2. CASE ~q.good BY <1>2, <1>4, <1>6, <2>2 DEF Counts
  <2> QED BY <2>1, <2>2
<1>8. Ends(r, s)
  <2>1. q.available = 0 /\ s.good => s.available = 0
    BY <1>2, <1>4 DEF Counts
  <2> QED BY <1>4, <1>5, <2>1 DEF Ends
<1> QED BY <1>1, <1>3, <1>7, <1>8 DEF Reads

(* Two states that differ in the header and the scratch data at most.      *)
SameStream(r, q) ==
  /\ q.pos = r.pos /\ q.available = r.available /\ q.good = r.good
  /\ q.ok = r.ok /\ q.ec = r.ec
  /\ q.read_type = r.read_type /\ q.read_ignore = r.read_ignore
  /\ q.callbacks = r.callbacks

(* An assignment that takes nothing from the stream is a way to read.      *)
LEMMA StaysReads ==
  ASSUME NEW r, Good(r), NEW q, q \in ClientState, SameStream(r, q),
         q.read_header.index = r.read_header.index,
         Len(q.read_header.topic) <= TopicMax
  PROVE  Reads(r, q)
<1>1. Good(q) BY DEF Good, SameStream
<1>2. r.pos \in Nat /\ r.available \in Nat BY Fields DEF Good
<1>3. Keeps(r, q) BY DEF Keeps, SameStream
<1>4. Counts(r, q) BY <1>2 DEF Counts, SameStream
<1>5. Ends(r, q) BY <1>2 DEF Ends, SameStream, Good, ClientState
<1> QED BY <1>1, <1>3, <1>4, <1>5 DEF Reads

(* Running out of bytes and failing leave everything but ok and ec.        *)
LEMMA WaitReads ==
  ASSUME NEW r, Good(r), r.available = 0
  PROVE  Reads(r, Wait(r))
<1>1. Wait(r) \in ClientState BY Shape, Zenon DEF Good, Wait
<1>2. /\ Wait(r).pos = r.pos /\ Wait(r).read_header = r.read_header
      /\ Wait(r).read_type = r.read_type /\ Wait(r).ec = r.ec
      /\ Wait(r).available = r.available /\ Wait(r).good = r.good
      /\ Wait(r).read_ignore = r.read_ignore
      /\ Wait(r).callbacks = r.callbacks /\ Wait(r).ok = FALSE
  BY DEF Good, Wait, ClientState
<1>3. r.pos \in Nat /\ r.available \in Nat BY Fields DEF Good
<1>4. Good(Wait(r)) BY <1>1, <1>2 DEF Good
<1>5. Keeps(r, Wait(r)) BY <1>2 DEF Keeps
<1>6. Counts(r, Wait(r)) BY <1>2, <1>3 DEF Counts
<1>7. Ends(r, Wait(r)) BY <1>2 DEF Ends
<1> QED BY <1>4, <1>5, <1>6, <1>7 DEF Reads

ReadError == Error \ {"none", "bad_variant_cast"}

(* Each of them only sets the error, and reads nothing.                    *)
LEMMA FailReads ==
  ASSUME NEW r, Good(r), NEW error \in ReadError
  PROVE  Reads(r, Fail(r, error))
<1>0. /\ error \in Error /\ error # "bad_variant_cast"
      /\ error # "none"
  BY DEF ReadError
<1>1. Fail(r, error) \in ClientState
  BY <1>0, Shape, Zenon DEF Good, Fail
<1>2. /\ Fail(r, error).pos = r.pos
      /\ Fail(r, error).read_header = r.read_header
      /\ Fail(r, error).read_type = r.read_type
      /\ Fail(r, error).ec = error
      /\ Fail(r, error).available = r.available
      /\ Fail(r, error).good = r.good
      /\ Fail(r, error).read_ignore = r.read_ignore
      /\ Fail(r, error).callbacks = r.callbacks
      /\ Fail(r, error).ok = FALSE
  BY DEF Good, Fail, ClientState
<1>3. r.pos \in Nat /\ r.available \in Nat BY Fields DEF Good
<1>4. Good(Fail(r, error)) BY <1>1, <1>2 DEF Good
<1>5. Keeps(r, Fail(r, error)) BY <1>0, <1>2 DEF Keeps
<1>6. Counts(r, Fail(r, error)) BY <1>2, <1>3 DEF Counts
<1>7. Ends(r, Fail(r, error)) BY <1>0, <1>2 DEF Ends
<1> QED BY <1>4, <1>5, <1>6, <1>7 DEF Reads

(* The errors that the read operations name are such errors.               *)
LEMMA ReadErrors ==
  {"io_error", "bad_remaining_size", "bad_flags", "bad_payload", "bad_qos",
   "bad_return_code", "bad_packet_type", "not_enough_memory"}
    \subseteq ReadError
BY DEF ReadError, Error

(* After either no caller continues.                                       *)
LEMMA WaitStops ==
  ASSUME NEW r \in ClientState
  PROVE  ~Continues(Wait(r))
BY DEF Wait, Continues, ClientState

(* Nothing is read after an error either,                                  *)
LEMMA FailStops ==
  ASSUME NEW r \in ClientState, NEW error
  PROVE  ~Continues(Fail(r, error))
BY DEF Fail, Continues, ClientState

(* nor after the stream has failed.                                        *)
LEMMA BadStreamStops ==
  ASSUME NEW r \in ClientState
  PROVE  ~Continues(BadStream(r))
BY DEF BadStream, Fail, Continues, ClientState

(* A stream that fails gives nothing and spoils nothing.                   *)
LEMMA BadStreamReads ==
  ASSUME NEW r, Good(r)
  PROVE  Reads(r, BadStream(r))
<1> DEFINE q == [r EXCEPT !.good = FALSE]
<1>1. q \in ClientState BY Shape, Zenon DEF Good
<1>2. /\ q.pos = r.pos /\ q.read_header = r.read_header
      /\ q.read_type = r.read_type /\ q.ec = r.ec
      /\ q.available = r.available /\ q.good = FALSE /\ q.ok = r.ok
      /\ q.read_ignore = r.read_ignore /\ q.callbacks = r.callbacks
  BY DEF Good, ClientState
<1> HIDE DEF q
<1>3. Reads(r, q)
  <2>1. r.pos \in Nat /\ r.available \in Nat BY Fields DEF Good
  <2>2. Good(q) BY <1>1, <1>2 DEF Good
  <2>3. Keeps(r, q) BY <1>2 DEF Keeps
  <2>4. Counts(r, q) BY <1>2, <2>1 DEF Counts
  <2>5. Ends(r, q) BY <1>2 DEF Ends
  <2> QED BY <2>2, <2>3, <2>4, <2>5 DEF Reads
<1>4. Good(q) BY <1>3 DEF Reads
<1>5. Reads(q, Fail(q, "io_error")) BY <1>4, FailReads, ReadErrors
<1> QED BY <1>3, <1>5, ReadsTransitive DEF BadStream, q

-----------------------------------------------------------------------------
(* Reader: every read operation, from any good state, leaves a good one.   *)
LEMMA GotBounds ==
  ASSUME NEW r, Good(r), NEW n \in Nat
  PROVE  /\ Got(r, n) \in Nat /\ Got(r, n) <= n
         /\ r.pos + Got(r, n) <= Len(wire)
         /\ Got(r, n) > 0 => r.pos < Len(wire) /\ r.good
<1>1. r.pos \in Nat BY Fields DEF Good
<1>2. Len(wire) \in Nat /\ r.pos <= Len(wire) BY DEF Good
<1>3. CASE r.good BY <1>1, <1>2, <1>3 DEF Got, StdMin
<1>4. CASE ~r.good BY <1>1, <1>2, <1>4 DEF Got
<1> QED BY <1>3, <1>4

(* What the stream holds are bytes.                                        *)
LEMMA WireByte ==
  ASSUME NEW r, Good(r), NEW i \in Nat, i > 0, r.pos + i <= Len(wire)
  PROVE  wire[r.pos + i] \in 0 .. 255
<1>1. r.pos \in Nat BY Fields DEF Good
<1>2. r.pos + i \in 1 .. Len(wire) BY <1>1 DEF Good
<1>3. wire[r.pos + i] \in Byte BY <1>2, ElementOfSeq DEF Good
<1> QED BY <1>3 DEF Byte

(* Bytes that are there and part of the packet are counted off.            *)
LEMMA ConsumeReads ==
  ASSUME NEW r, Good(r), NEW n \in Nat,
         n <= r.available, n <= r.remaining_size, r.pos + n <= Len(wire),
         n > 0 => r.good
  PROVE  /\ Reads(r, Consume(r, n))
         /\ Consume(r, n).available = r.available - n
         /\ Consume(r, n).remaining_size = r.remaining_size - n
         /\ Consume(r, n).pos = r.pos + n
         /\ Consume(r, n).sequence = r.sequence
         /\ Consume(r, n).data0 = r.data0
         /\ Consume(r, n).data1 = r.data1
         /\ Consume(r, n).read_header = r.read_header
         /\ Consume(r, n).good = r.good
<1>1. r \in ClientState BY DEF Good
<1>2. r.available - n \in Below(SizeMod)
  BY <1>1, Fields, Widths, Subtract
<1>3. r.remaining_size - n \in Below(WordMod)
  BY <1>1, Fields, Widths, Subtract
<1>4. r.pos + n \in Nat BY <1>1, Fields
<1>5. Consume(r, n) \in ClientState
  <2>1. r.available - n \in Sizes /\ r.remaining_size - n \in Words
    BY <1>2, <1>3 DEF Sizes, Words
  <2> QED BY <1>1, <1>4, <2>1, Shape, Zenon DEF Consume
<1>6. /\ Consume(r, n).available = r.available - n
      /\ Consume(r, n).remaining_size = r.remaining_size - n
      /\ Consume(r, n).pos = r.pos + n
  BY <1>1 DEF Consume, ClientState
<1>7. /\ Consume(r, n).sequence = r.sequence
      /\ Consume(r, n).data0 = r.data0
      /\ Consume(r, n).data1 = r.data1
      /\ Consume(r, n).read_header = r.read_header
      /\ Consume(r, n).read_type = r.read_type
      /\ Consume(r, n).ec = r.ec
      /\ Consume(r, n).good = r.good /\ Consume(r, n).ok = r.ok
      /\ Consume(r, n).read_ignore = r.read_ignore
      /\ Consume(r, n).callbacks = r.callbacks
  BY <1>1 DEF Consume, ClientState
<1>8. /\ r.pos \in Nat /\ r.available \in Nat /\ r.good \in BOOLEAN
  BY <1>1, Fields
<1>9. Good(Consume(r, n)) BY <1>5, <1>6, <1>7 DEF Good
<1>10. Keeps(r, Consume(r, n)) BY <1>7 DEF Keeps
<1>11. Counts(r, Consume(r, n)) BY <1>6, <1>7, <1>8 DEF Counts
<1>12. Ends(r, Consume(r, n)) BY <1>7 DEF Ends
<1>13. Reads(r, Consume(r, n)) BY <1>9, <1>10, <1>11, <1>12 DEF Reads
<1> QED BY <1>6, <1>7, <1>13

(* ++context.sequence wraps at 256.                                        *)
LEMMA NextSequence ==
  ASSUME NEW x \in Nat
  PROVE  (x + 1) % 256 \in 0 .. 255
OBVIOUS

(* Assignments of values of their type keep the client well typed.         *)
LEMMA SetOut ==
  ASSUME NEW r \in ClientState, NEW s \in 0 .. 255, NEW x \in Nat
  PROVE  [r EXCEPT !.sequence = s, !.out = x] \in ClientState
<1>1. s \in Bits8 BY DEF Bits8
<1> QED BY <1>1, Shape, Zenon

(* What peek_type sets.                                                    *)
LEMMA SetType ==
  ASSUME NEW r \in ClientState, NEW t \in 0 .. 15, NEW g \in BOOLEAN,
         NEW e \in Error
  PROVE  [r EXCEPT !.read_type = t, !.good = g, !.ec = e] \in ClientState
<1>1. t \in Bits4 BY DEF Bits4
<1> QED BY <1>1, Shape, Zenon

(* The end of a read_element: the value is out, the sequence advances. *)
LEMMA CountsReads ==
  ASSUME NEW r, Good(r), NEW x \in Nat, NEW q,
         q = [r EXCEPT !.sequence = (@ + 1) % 256, !.out = x]
  PROVE  Reads(r, q)
<1>1. r \in ClientState BY DEF Good
<1>2. r.sequence \in Nat BY <1>1, Fields
<1>3. PICK s \in 0 .. 255 : s = (r.sequence + 1) % 256
  BY <1>2, NextSequence
<1>4. q = [r EXCEPT !.sequence = s, !.out = x] BY <1>3
<1>5. q \in ClientState
  <2>1. [r EXCEPT !.sequence = s, !.out = x] \in ClientState
    BY <1>1, SetOut, ZenonT(60)
  <2> QED BY <1>4, <2>1, SMTT(60)
<1>6. SameStream(r, q) /\ q.read_header = r.read_header
  BY <1>1, <1>4 DEF ClientState, SameStream
<1>7. Len(q.read_header.topic) <= TopicMax BY <1>6 DEF Good
<1> QED BY <1>5, <1>6, <1>7, StaysReads

(* peek_type changes the type, the stream state and ec, nothing else.      *)
LEMMA PeekTypeGood ==
  ASSUME NEW r, Good(r)
  PROVE  /\ Good(PeekType(r))
         /\ PeekType(r).read_header = r.read_header
         /\ PeekType(r).sequence = r.sequence
         /\ PeekType(r).data0 = r.data0 /\ PeekType(r).data1 = r.data1
         /\ PeekType(r).remaining_size = r.remaining_size
         /\ PeekType(r).ec \in {r.ec, "io_error"}
<1>1. r \in ClientState BY DEF Good
<1>2. PICK t \in 0 .. 15, g \in BOOLEAN, e \in {r.ec, "io_error"} :
        PeekType(r) = [r EXCEPT !.read_type = t, !.good = g, !.ec = e]
  <2>1. r.good \in BOOLEAN /\ r.pos \in Nat BY <1>1, Fields
  <2>2. CASE ~r.good
    <3>1. PeekType(r) = [r EXCEPT !.read_type = reserved, !.good = r.good,
                                  !.ec = "io_error"]
      BY <1>1, <2>2 DEF PeekType, ClientState
    <3>2. reserved \in 0 .. 15 BY DEF reserved
    <3> QED BY <2>1, <3>1, <3>2
  <2>3. CASE r.good /\ r.pos < Len(wire)
    <3>1. wire[r.pos + 1] \in 0 .. 255 BY <2>1, <2>3, WireByte DEF Good
    <3>2. wire[r.pos + 1] \div 16 \in 0 .. 15 BY <3>1
    <3>3. PeekType(r) = [r EXCEPT !.read_type = wire[r.pos + 1] \div 16,
                                  !.good = r.good, !.ec = r.ec]
      BY <1>1, <2>3 DEF PeekType, ClientState
    <3> QED BY <2>1, <3>2, <3>3
  <2>4. CASE r.good /\ ~(r.pos < Len(wire))
    <3>1. PeekType(r) = [r EXCEPT !.read_type = 15, !.good = FALSE,
                                  !.ec = r.ec]
      BY <1>1, <2>4 DEF PeekType, ClientState
    <3> WITNESS 15 \in 0 .. 15, FALSE \in BOOLEAN, r.ec \in {r.ec, "io_error"}
    <3> QED BY <3>1
  <2> QED BY <2>1, <2>2, <2>3, <2>4
<1>3. e \in Error
  <2>1. r.ec \in Error /\ "io_error" \in Error BY <1>1, Fields DEF Error
  <2> QED BY <2>1
<1>4. PeekType(r) \in ClientState
  <2>1. [r EXCEPT !.read_type = t, !.good = g, !.ec = e] \in ClientState
    BY <1>1, <1>3, SetType
  <2> QED BY <1>2, <2>1, SMTT(60)
<1>5. /\ PeekType(r).pos = r.pos /\ PeekType(r).read_header = r.read_header
      /\ PeekType(r).sequence = r.sequence
      /\ PeekType(r).data0 = r.data0 /\ PeekType(r).data1 = r.data1
      /\ PeekType(r).remaining_size = r.remaining_size
      /\ PeekType(r).ec = e
  BY <1>1, <1>2 DEF ClientState
<1> QED BY <1>2, <1>4, <1>5 DEF Good

(* read_element of a Byte.                                                 *)
LEMMA ReadByteReads ==
  ASSUME NEW r, Good(r)
  PROVE  /\ Reads(r, ReadByte(r))
         /\ Continues(ReadByte(r)) => ReadByte(r).out \in 0 .. 255
<1>1. r \in ClientState BY DEF Good
<1>2. r.available \in Nat /\ r.remaining_size \in Nat /\ r.pos \in Nat
  BY <1>1, Fields
<1>3. CASE r.available = 0
  <2>1. ReadByte(r) = Wait(r) BY <1>3 DEF ReadByte
  <2> QED BY <1>1, <1>3, <2>1, WaitReads, WaitStops
<1>4. CASE r.available # 0 /\ r.remaining_size = 0
  <2>1. ReadByte(r) = Fail(r, "bad_remaining_size") BY <1>4 DEF ReadByte
  <2> QED BY <1>1, <2>1, FailReads, FailStops, ReadErrors
<1>5. CASE r.available # 0 /\ r.remaining_size # 0 /\ Got(r, 1) # 1
  <2>1. ReadByte(r) = BadStream(r) BY <1>5 DEF ReadByte
  <2> QED BY <1>1, <2>1, BadStreamReads, BadStreamStops
<1>6. CASE r.available # 0 /\ r.remaining_size # 0 /\ Got(r, 1) = 1
  <2>1. r.pos + 1 <= Len(wire) /\ r.good BY <1>6, GotBounds
  <2>2. PICK x \in 0 .. 255 : x = wire[r.pos + 1]
    <3>1. wire[r.pos + 1] \in 0 .. 255 BY <2>1, WireByte
    <3> QED BY <3>1
  <2> DEFINE q == Consume(r, 1)
  <2>3. ReadByte(r) = [q EXCEPT !.sequence = (@ + 1) % 256, !.out = x]
    BY <1>6, <2>2 DEF ReadByte
  <2>4. Reads(r, q) BY <1>2, <1>6, <2>1, ConsumeReads
  <2>5. Good(q) /\ q \in ClientState BY <2>4 DEF Reads, Good
  <2> HIDE DEF q
  <2>6. x \in Nat BY <2>2
  <2>7. Reads(q, ReadByte(r)) BY <2>3, <2>5, <2>6, CountsReads
  <2>8. ReadByte(r).out = x BY <2>3, <2>5 DEF ClientState
  <2> QED BY <2>2, <2>4, <2>7, <2>8, ReadsTransitive
<1> QED BY <1>3, <1>4, <1>5, <1>6

(* The assignments at the end of the other elements.                       *)
LEMMA SetElement ==
  ASSUME NEW r \in ClientState, NEW s \in 0 .. 255, NEW x \in Nat
  PROVE  [r EXCEPT !.out = x, !.data0 = 0, !.data1 = 0, !.sequence = s]
           \in ClientState
<1>1. 0 \in Words BY Widths DEF Words, Below
<1>2. s \in Bits8 BY DEF Bits8
<1> QED BY <1>1, <1>2, Shape, Zenon

(* The end of the other read_elements, which leave no scratch data. *)
LEMMA FinishReads ==
  ASSUME NEW r, Good(r), NEW x \in Nat
  PROVE  /\ Reads(r, Finish(r, x))
         /\ Finish(r, x).out = x
<1> DEFINE q == Finish(r, x)
<1>1. r \in ClientState BY DEF Good
<1>2. r.sequence \in Nat BY <1>1, Fields
<1>3. PICK s \in 0 .. 255 : s = (r.sequence + 1) % 256
  BY <1>2, NextSequence, SMTT(60)
<1>4. q = [r EXCEPT !.out = x, !.data0 = 0, !.data1 = 0, !.sequence = s]
  BY <1>3 DEF Finish
<1>5. q \in ClientState
  <2>1. [r EXCEPT !.out = x, !.data0 = 0, !.data1 = 0, !.sequence = s]
          \in ClientState
    BY <1>1, SetElement
  <2> QED BY <1>4, <2>1
<1>6. SameStream(r, q) /\ q.read_header = r.read_header /\ q.out = x
  BY <1>1, <1>4 DEF ClientState, SameStream
<1> HIDE DEF q
<1>7. Len(q.read_header.topic) <= TopicMax BY <1>6 DEF Good
<1>8. Reads(r, q) /\ q.out = x BY <1>5, <1>6, <1>7, StaysReads
<1> QED BY <1>8 DEF q

(* The two chars make a std::uint16_t, whether char is signed or not.      *)
LEMMA Uint16Range ==
  ASSUME NEW buffer \in Nat
  PROVE  Uint16(buffer) \in Below(65536) /\ Uint16(buffer) \in Nat
<1>1. /\ buffer % 256 \in Nat /\ buffer % 256 < 256
      /\ (buffer \div 256) % 256 \in Nat /\ (buffer \div 256) % 256 < 256
  OBVIOUS
<1>2. \A high \in Nat, low \in Nat :
        high < 256 /\ low < 256 =>
          /\ 65280 + low \in Nat /\ 65280 + low < 65536
          /\ 256 * high + low \in Nat /\ 256 * high + low < 65536
  OBVIOUS
<1> DEFINE high == buffer % 256
           low  == (buffer \div 256) % 256
<1>3. /\ 65280 + low \in Nat /\ 65280 + low < 65536
      /\ 256 * high + low \in Nat /\ 256 * high + low < 65536
  BY <1>1, <1>2
<1>4. Uint16(buffer) \in {65280 + low, 256 * high + low} BY DEF Uint16
<1> QED BY <1>3, <1>4 DEF Below

(* A byte stored in sequence_data[1] leaves it within its type.            *)
LEMMA PutRange ==
  ASSUME NEW buffer \in Below(WordMod), NEW i, NEW byte \in 0 .. 255
  PROVE  Put(buffer, i, byte) \in Below(WordMod)
<1>1. buffer \in Nat /\ buffer < WordMod BY DEF Below
<1>2. WordMod \in Nat /\ WordMod > 65536 /\ WordMod % 256 = 0
  BY GeneralAssumption DEF GeneralAssumption
<1>3. buffer % 256 \in Nat /\ buffer % 256 < 256 BY <1>1
<1>4. buffer - (buffer % 256) + 255 < WordMod
  <2>1. PICK a \in Nat, w \in Nat : a = buffer \div 256 /\ w = WordMod \div 256
    BY <1>1, <1>2
  <2>2. buffer = 256 * a + (buffer % 256) BY <1>1, <2>1
  <2>3. WordMod = 256 * w BY <1>2, <2>1
  <2>4. a < w BY <1>1, <1>3, <2>2, <2>3
  <2> QED BY <2>2, <2>3, <2>4, <1>3
<1>5. buffer - (buffer % 256) >= 0 BY <1>1, <1>3
<1>6. CASE i = 0 BY <1>1, <1>2, <1>3, <1>4, <1>5, <1>6 DEF Put, Below
<1>7. CASE i # 0 BY <1>1, <1>2, <1>3, <1>7 DEF Put, Below
<1> QED BY <1>6, <1>7

(* The same of as many bytes as are stored at once.                        *)
LEMMA StoreRange ==
  ASSUME NEW r, Good(r), NEW n \in Nat, r.pos + n <= Len(wire)
  PROVE  Store(r, n) \in Below(WordMod)
<1>1. r \in ClientState BY DEF Good
<1>2. r.data1 \in Below(WordMod) BY <1>1, Fields
<1>3. r.pos \in Nat BY <1>1, Fields
<1>4. CASE n \notin {1, 2} BY <1>2, <1>4 DEF Store
<1>5. CASE n = 1
  <2>1. wire[r.pos + 1] \in 0 .. 255 BY <1>3, <1>5, WireByte
  <2>2. Store(r, n) = Put(r.data1, r.data0, wire[r.pos + 1])
    BY <1>5 DEF Store
  <2> QED BY <1>2, <2>1, <2>2, PutRange
<1>6. CASE n = 2
  <2>1. wire[r.pos + 1] \in 0 .. 255 /\ wire[r.pos + 2] \in 0 .. 255
    <3>1. r.pos + 1 <= Len(wire) BY <1>3, <1>6, SMTT(60) DEF Good
    <3> QED BY <1>3, <1>6, <3>1, WireByte
  <2>2. PICK x \in 0 .. 255, y \in 0 .. 255 :
          x = wire[r.pos + 1] /\ y = wire[r.pos + 2]
    BY <2>1
  <2>3. Store(r, n) = x + 256 * y BY <1>6, <2>2 DEF Store
  <2>4. x + 256 * y \in Below(WordMod) BY Widths DEF Below
  <2> QED BY <2>3, <2>4
<1> QED BY <1>4, <1>5, <1>6

(* The assignments of read_element of a std::uint16_t.                     *)
LEMMA SetBuffer ==
  ASSUME NEW r \in ClientState, NEW p \in Nat, NEW g \in BOOLEAN,
         NEW a \in Below(SizeMod), NEW m \in Below(WordMod),
         NEW d \in Below(WordMod), NEW b \in Below(WordMod)
  PROVE  [r EXCEPT !.pos = p, !.good = g, !.available = a,
                   !.remaining_size = m, !.data0 = d, !.data1 = b]
           \in ClientState
<1>1. a \in Sizes /\ m \in Words /\ d \in Words /\ b \in Words
  BY DEF Sizes, Words
<1> QED BY <1>1, Shape, Zenon

(* Modulo with one conclusion.                                             *)
LEMMA Residue ==
  ASSUME NEW x \in Int, NEW m \in Nat, m > 0
  PROVE  x % m \in Below(m)
BY DEF Below

(* However many bytes were asked for, a negative number too, the counts    *)
(* stay within their types.                                                *)
LEMMA FillGood ==
  ASSUME NEW r, Good(r), NEW n \in Int, NEW got \in Nat,
         r.pos + got <= Len(wire), NEW q, q = Fill(r, n, got)
  PROVE  /\ Good(q) /\ Keeps(r, q)
         /\ q.pos = r.pos + got /\ q.good = (r.good /\ got = n)
         /\ q.available = (r.available - n) % SizeMod
         /\ q.data0 = (r.data0 + n) % WordMod
         /\ q.ok = r.ok /\ q.ec = r.ec
<1>1. r \in ClientState BY DEF Good
<1>2. PICK p \in Nat : p = r.pos + got BY <1>1, Fields
<1>3. PICK g \in BOOLEAN : g = (r.good /\ got = n) OBVIOUS
<1>4. PICK a \in Below(SizeMod) : a = (r.available - n) % SizeMod
  <2>1. PICK x \in Int : x = r.available - n BY <1>1, Fields
  <2>2. x % SizeMod \in Below(SizeMod) BY Widths, Residue
  <2> QED BY <2>1, <2>2, Zenon
<1>5. PICK m \in Below(WordMod) : m = (r.remaining_size - n) % WordMod
  <2>1. PICK x \in Int : x = r.remaining_size - n BY <1>1, Fields
  <2>2. x % WordMod \in Below(WordMod) BY Widths, Residue
  <2> QED BY <2>1, <2>2, Zenon
<1>6. PICK d \in Below(WordMod) : d = (r.data0 + n) % WordMod
  <2>1. PICK x \in Int : x = r.data0 + n BY <1>1, Fields
  <2>2. x % WordMod \in Below(WordMod) BY Widths, Residue
  <2> QED BY <2>1, <2>2, Zenon
<1>7. PICK b \in Below(WordMod) : b = Store(r, got) BY StoreRange
<1>8. q = [r EXCEPT !.pos = p, !.good = g, !.available = a,
                    !.remaining_size = m, !.data0 = d, !.data1 = b]
  BY <1>2, <1>3, <1>4, <1>5, <1>6, <1>7, Zenon DEF Fill
<1>9. q \in ClientState
  <2>1. [r EXCEPT !.pos = p, !.good = g, !.available = a,
                  !.remaining_size = m, !.data0 = d, !.data1 = b]
          \in ClientState
    BY <1>1, SetBuffer
  <2> QED BY <1>8, <2>1
<1>10. /\ q.pos = p /\ q.good = g /\ q.available = a /\ q.data0 = d
  BY <1>1, <1>8 DEF ClientState
<1>11. /\ q.read_header = r.read_header /\ q.read_type = r.read_type
       /\ q.ec = r.ec /\ q.ok = r.ok
       /\ q.read_ignore = r.read_ignore /\ q.callbacks = r.callbacks
  BY <1>1, <1>8 DEF ClientState
<1>12. Good(q) BY <1>2, <1>9, <1>10, <1>11 DEF Good
<1>13. Keeps(r, q) BY <1>11 DEF Keeps
<1> QED BY <1>2, <1>3, <1>4, <1>6, <1>10, <1>11, <1>12, <1>13

(* Where the stream has all of them, they are counted off,                 *)
LEMMA FillReads ==
  ASSUME NEW r, Good(r), NEW n \in Nat, n <= r.available,
         r.pos + n <= Len(wire), r.good
  PROVE  /\ Reads(r, Fill(r, n, n))
         /\ Fill(r, n, n).available = r.available - n
<1> DEFINE q == Fill(r, n, n)
<1>1. /\ r.pos \in Nat /\ r.available \in Below(SizeMod)
      /\ r.available \in Nat
  BY Fields DEF Good
<1>2. /\ Good(q) /\ Keeps(r, q) /\ q.pos = r.pos + n
      /\ q.good = (r.good /\ n = n)
      /\ q.available = (r.available - n) % SizeMod
      /\ q.ok = r.ok /\ q.ec = r.ec
  BY FillGood
<1> HIDE DEF q
<1>3. (r.available - n) % SizeMod = r.available - n
  <2>1. PICK x \in Nat : x = r.available - n BY <1>1
  <2>2. x < SizeMod BY <1>1, <2>1, Widths DEF Below
  <2>3. x % SizeMod = x BY <2>2, Widths
  <2> QED BY <2>1, <2>3
<1>4. Counts(r, q)
  <2>1. q.available = r.available - n BY <1>2, <1>3, Zenon
  <2>2. q.pos = r.pos + n BY <1>2
  <2> QED BY <1>1, <2>1, <2>2 DEF Counts
<1>5. Ends(r, q) BY <1>2 DEF Ends, Good, ClientState
<1>6. Reads(r, q) BY <1>2, <1>4, <1>5 DEF Reads
<1> QED BY <1>2, <1>3, <1>6 DEF q

(* and where it has not, the error ends the read, right or wrong as the    *)
(* counts may be.                                                          *)
LEMMA FillFails ==
  ASSUME NEW r, Good(r), NEW n \in Int, NEW got \in Nat,
         r.pos + got <= Len(wire), got <= r.available, got > 0 => r.good,
         ~(r.good /\ got = n)
  PROVE  Reads(r, Fail(Fill(r, n, got), "io_error"))
<1> DEFINE q == Fill(r, n, got)
           s == Fail(q, "io_error")
<1>1. /\ r.pos \in Nat /\ r.available \in Nat /\ r.good \in BOOLEAN
  BY Fields DEF Good
<1>2. /\ Good(q) /\ Keeps(r, q) /\ q.pos = r.pos + got
      /\ q.good = (r.good /\ got = n)
      /\ q.ok = r.ok /\ q.ec = r.ec
  BY FillGood
<1> HIDE DEF q
<1>3. Reads(q, s) BY <1>2, FailReads, ReadErrors
<1>4. /\ s.pos = q.pos /\ s.good = q.good /\ s.ec = "io_error" /\ s.ok = FALSE
  BY <1>2 DEF Fail, Good, ClientState
<1> HIDE DEF s
<1>5. Good(s) BY <1>3 DEF Reads
<1>6. Keeps(r, s)
  <2>1. Keeps(r, q) /\ Keeps(q, s) BY <1>2, <1>3 DEF Reads
  <2> QED BY <2>1, Zenon DEF Keeps
<1>7. Counts(r, s)
  <2>1. ~s.good BY <1>2, <1>4, Zenon
  <2>2. s.pos = r.pos + got BY <1>2, <1>4
  <2>3. ~r.good => got = 0 OBVIOUS
  <2> QED BY <1>1, <1>4, <2>1, <2>2, <2>3 DEF Counts
<1>8. Ends(r, s) BY <1>4 DEF Ends
<1>9. Reads(r, s) BY <1>5, <1>6, <1>7, <1>8 DEF Reads
<1> QED BY <1>9 DEF s, q

(* The value of a read operation that succeeded fits a std::uint16_t. *)
ReadsShort(r, q) == Reads(r, q) /\ (Continues(q) => q.out \in Below(65536))

(* The bytes an element is short of, however many the scratch data says it *)
(* has, make it two.                                                       *)
LEMMA RestRange ==
  ASSUME NEW d \in Below(WordMod)
  PROVE  /\ (2 - d) % WordMod \in Nat
         /\ (d + ((2 - d) % WordMod)) % WordMod = 2
         /\ d <= 2 => (2 - d) % WordMod = 2 - d
<1>1. PICK w \in Nat : w = WordMod /\ w > 2 BY Widths
<1>2. d \in Nat /\ d < w BY <1>1 DEF Below
<1>3. CASE d <= 2
  <2>1. PICK x \in Nat : x = 2 - d BY <1>2, <1>3
  <2>2. x < w BY <1>1, <1>2, <2>1
  <2>3. x % w = x BY <1>1, <2>2
  <2>4. d + x = 2 BY <1>2, <2>1
  <2>5. 2 % w = 2 BY <1>1
  <2>6. (2 - d) % w = x BY <2>1, <2>3
  <2>7. (d + x) % w = 2 BY <2>4, <2>5
  <2> QED BY <1>1, <2>1, <2>6, <2>7
<1>4. CASE d > 2
  <2>1. PICK x \in Nat : x = 2 - d + w BY <1>1, <1>2
  <2>2. (2 - d) % w = x
    <3>1. x \in 0 .. (w - 1) BY <1>1, <1>2, <1>4, <2>1
    <3>2. 2 - d = w * (0 - 1) + x BY <1>1, <1>2, <2>1
    <3> QED BY <1>1, <1>2, <3>1, <3>2
  <2>3. d + x = w + 2 BY <1>1, <1>2, <2>1
  <2>4. (d + x) % w = 2 BY <1>1, <2>3
  <2>5. ~(d <= 2) BY <1>2, <1>4
  <2> QED BY <1>1, <2>1, <2>2, <2>4, <2>5, Zenon
<1> QED BY <1>2, <1>3, <1>4

(* read_element of a std::uint16_t, from any scratch data.                 *)
LEMMA ReadUint16Reads ==
  ASSUME NEW r, Good(r)
  PROVE  ReadsShort(r, ReadUint16(r))
<1>1. r \in ClientState BY DEF Good
<1> DEFINE rest == (2 - r.data0) % WordMod
           n    == StdMin(rest, Signed(r.available))
           got  == IF n < 0 THEN 0 ELSE Got(r, n)
           q    == Fill(r, n, got)
<1>2. ReadUint16(r) =
        IF r.available = 0 THEN Wait(r)
        ELSE IF r.remaining_size < rest
             THEN Fail(r, "bad_remaining_size")
        ELSE IF ~q.good THEN Fail(q, "io_error")
        ELSE IF q.data0 # 2 THEN Wait(q)
        ELSE Finish(q, Uint16(q.data1))
  BY DEF ReadUint16
<1>rest. rest \in Nat /\ (r.data0 + rest) % WordMod = 2
  <2>1. PICK d \in Below(WordMod) : d = r.data0 BY <1>1, Fields
  <2>2. rest = (2 - d) % WordMod BY <2>1
  <2>3. rest \in Nat /\ (d + rest) % WordMod = 2 BY <2>2, RestRange, Zenon
  <2> QED BY <2>1, <2>3
<1> HIDE DEF rest
<1>3. /\ n \in Int /\ n <= r.available
      /\ n = rest \/ n < 0 \/ n = r.available
  <2>1. /\ Signed(r.available) \in Int /\ Signed(r.available) <= r.available
        /\ Signed(r.available) < 0 \/ Signed(r.available) = r.available
    BY <1>1, Fields, Widths DEF Signed, Below
  <2>2. r.available \in Nat BY <1>1, Fields
  <2> QED BY <1>rest, <2>1, <2>2 DEF StdMin
<1> HIDE DEF n
<1>4. /\ got \in Nat /\ r.pos + got <= Len(wire)
      /\ got <= r.available /\ (got > 0 => r.good)
      /\ n < 0 => got = 0
  <2>1. r.pos \in Nat /\ r.pos <= Len(wire) /\ r.available \in Nat
    BY <1>1, Fields DEF Good
  <2>2. CASE n < 0 BY <2>1, <2>2
  <2>3. CASE n >= 0
    <3>1. n \in Nat /\ got = Got(r, n) BY <1>3, <2>3
    <3>2. /\ Got(r, n) \in Nat /\ Got(r, n) <= n
          /\ r.pos + Got(r, n) <= Len(wire)
          /\ Got(r, n) > 0 => r.good
      BY <3>1, GotBounds
    <3> QED BY <1>3, <2>1, <2>3, <3>1, <3>2
  <2> QED BY <1>3, <2>2, <2>3
<1> HIDE DEF got
<1>5. /\ Good(q) /\ q.good = (r.good /\ got = n)
      /\ q.data0 = (r.data0 + n) % WordMod
  BY <1>3, <1>4, FillGood
<1>6. ASSUME q.good
      PROVE  /\ Reads(r, q) /\ q.available = r.available - n
             /\ n \in Nat
  <2>1. r.good /\ got = n BY <1>5, <1>6
  <2>2. n \in Nat /\ n <= r.available BY <1>4, <2>1
  <2> HIDE DEF q
  <2>3. Reads(r, Fill(r, n, n)) /\ Fill(r, n, n).available = r.available - n
    BY <1>4, <2>1, <2>2, FillReads
  <2>4. q = Fill(r, n, n) BY <2>1 DEF q
  <2> QED BY <2>2, <2>3, <2>4
<1>7. r.available = 0 => ReadsShort(r, Wait(r))
  BY <1>1, WaitReads, WaitStops DEF ReadsShort
<1>8. ReadsShort(r, Fail(r, "bad_remaining_size"))
  BY <1>1, FailReads, FailStops, ReadErrors DEF ReadsShort
<1>9. ASSUME ~q.good PROVE ReadsShort(r, Fail(q, "io_error"))
  <2>1. ~(r.good /\ got = n) BY <1>5, <1>9
  <2>2. Reads(r, Fail(q, "io_error"))
    BY <1>3, <1>4, <2>1, FillFails
  <2>3. q \in ClientState BY <1>5 DEF Good
  <2>4. ~Continues(Fail(q, "io_error")) BY <2>3, FailStops
  <2> QED BY <2>2, <2>4 DEF ReadsShort
<1> HIDE DEF q
<1>10. ASSUME q.good, q.data0 # 2 PROVE ReadsShort(r, Wait(q))
  <2>1. r.available \in Nat BY <1>1, Fields
  <2>2. n # rest BY <1>rest, <1>5, <1>10
  <2>3. q.available = 0 BY <1>3, <1>6, <1>10, <2>1, <2>2
  <2>4. q \in ClientState BY <1>5 DEF Good
  <2>5. Reads(q, Wait(q)) /\ ~Continues(Wait(q))
    BY <1>5, <2>3, <2>4, WaitReads, WaitStops
  <2> QED BY <1>6, <1>10, <2>5, ReadsTransitive DEF ReadsShort
<1>11. ASSUME q.good PROVE ReadsShort(r, Finish(q, Uint16(q.data1)))
  <2>1. q.data1 \in Nat BY <1>5, Fields DEF Good
  <2>2. PICK x \in Nat : x = Uint16(q.data1) /\ x \in Below(65536)
    BY <2>1, Uint16Range
  <2>3. Reads(q, Finish(q, x)) /\ Finish(q, x).out = x
    BY <1>5, FinishReads
  <2>4. Reads(r, Finish(q, x)) BY <1>6, <1>11, <2>3, ReadsTransitive
  <2> QED BY <2>2, <2>3, <2>4 DEF ReadsShort
<1> QED BY <1>2, <1>7, <1>8, <1>9, <1>10, <1>11, Zenon

(* The assignments of read_element of a Variable_integer.                  *)
LEMMA SetSum ==
  ASSUME NEW r \in ClientState, NEW d \in Below(WordMod),
         NEW m \in Below(WordMod), NEW c \in Nat
  PROVE  [r EXCEPT !.data0 = d, !.data1 = m, !.out = c] \in ClientState
<1>1. d \in Words /\ m \in Words BY DEF Words
<1> QED BY <1>1, Shape, Zenon

(* One more byte of a variable integer, whatever its sum and multiplier.   *)
LEMMA AccumulateReads ==
  ASSUME NEW r, Good(r), NEW c \in 0 .. 255
  PROVE  Reads(r, Accumulate(r, c))
<1> DEFINE q == Accumulate(r, c)
<1>1. r \in ClientState BY DEF Good
<1>2. PICK d \in Below(WordMod) :
        d = (r.data0 + (c % 128) * r.data1) % WordMod
  <2>1. PICK low \in Nat, data0 \in Nat, data1 \in Nat :
          low = c % 128 /\ data0 = r.data0 /\ data1 = r.data1
    <3>1. c % 128 \in Nat OBVIOUS
    <3>2. r.data0 \in Nat /\ r.data1 \in Nat BY <1>1, Fields
    <3> QED BY <3>1, <3>2
  <2>2. PICK x \in Int : x = data0 + low * data1 OBVIOUS
  <2>3. x % WordMod \in Below(WordMod) BY Widths, Residue
  <2> QED BY <2>1, <2>2, <2>3, Zenon
<1>3. PICK m \in Below(WordMod) : m = (r.data1 * 128) % WordMod
  <2>1. PICK x \in Int : x = r.data1 * 128 BY <1>1, Fields
  <2>2. x % WordMod \in Below(WordMod) BY Widths, Residue
  <2> QED BY <2>1, <2>2, Zenon
<1>4. q = [r EXCEPT !.data0 = d, !.data1 = m, !.out = c]
  BY <1>2, <1>3, Zenon DEF Accumulate
<1>5. q \in ClientState
  <2>1. c \in Nat OBVIOUS
  <2>2. [r EXCEPT !.data0 = d, !.data1 = m, !.out = c] \in ClientState
    BY <1>1, <2>1, SetSum
  <2> QED BY <1>4, <2>2
<1>6. SameStream(r, q) /\ q.read_header = r.read_header
  BY <1>1, <1>4 DEF ClientState, SameStream
<1> HIDE DEF q
<1>7. Len(q.read_header.topic) <= TopicMax BY <1>6 DEF Good
<1>8. Reads(r, q) BY <1>5, <1>6, <1>7, StaysReads
<1> QED BY <1>8 DEF q

(* One round of its loop.                                                  *)
LEMMA VariableByteReads ==
  ASSUME NEW r, Good(r)
  PROVE  Reads(r, VariableByte(r))
<1>1. r \in ClientState /\ r.available \in Nat /\ r.remaining_size \in Nat
      /\ r.pos \in Nat
  BY Fields DEF Good
<1> DEFINE c == wire[r.pos + 1]
           q == Accumulate(Consume(r, 1), c)
<1>2. VariableByte(r) =
        IF ~r.ok \/ r.out < 128 THEN r
        ELSE IF r.available = 0 THEN Wait(r)
        ELSE IF r.remaining_size = 0 THEN Fail(r, "bad_remaining_size")
        ELSE IF Got(r, 1) # 1 THEN BadStream(r)
        ELSE IF q.data1 > 128 * 128 * 128 /\ c >= 128
             THEN Fail(q, "bad_remaining_size")
             ELSE q
  BY ZenonT(30) DEF VariableByte
<1>3. ASSUME r.available # 0, r.remaining_size # 0, Got(r, 1) = 1
      PROVE  Reads(r, q) /\ Reads(r, Fail(q, "bad_remaining_size"))
  <2>1. r.pos + 1 <= Len(wire) /\ r.good BY <1>3, GotBounds
  <2>2. c \in 0 .. 255 BY <2>1, WireByte
  <2>3. Reads(r, Consume(r, 1)) BY <1>1, <1>3, <2>1, ConsumeReads
  <2>4. Good(Consume(r, 1)) BY <2>3 DEF Reads
  <2>5. Reads(Consume(r, 1), q)
    BY <2>2, <2>4, AccumulateReads
  <2>6. Reads(r, q) BY <2>3, <2>5, ReadsTransitive
  <2>7. Good(q) BY <2>6 DEF Reads
  <2> HIDE DEF q
  <2>8. Reads(q, Fail(q, "bad_remaining_size")) BY <2>7, FailReads, ReadErrors
  <2> QED BY <2>6, <2>8, ReadsTransitive
<1> HIDE DEF q, c
<1>4. Reads(r, r) /\ (r.available = 0 => Reads(r, Wait(r)))
      /\ Reads(r, BadStream(r)) /\ Reads(r, Fail(r, "bad_remaining_size"))
  BY ReadsReflexive, WaitReads, BadStreamReads, FailReads, ReadErrors
<1> QED BY <1>2, <1>3, <1>4, Zenon

(* The assignment before its loop.                                         *)
LEMMA SetRound ==
  ASSUME NEW r \in ClientState, NEW m \in Below(WordMod)
  PROVE  [r EXCEPT !.data1 = m, !.out = 128] \in ClientState
<1>1. m \in Words /\ 128 \in Nat BY DEF Words
<1> QED BY <1>1, Shape, Zenon

(* The multiplier of a fresh element becomes 1.                            *)
LEMMA FirstRoundReads ==
  ASSUME NEW r, Good(r)
  PROVE  Reads(r, FirstRound(r))
<1> DEFINE q == FirstRound(r)
<1>1. r \in ClientState BY DEF Good
<1>2. PICK m \in Below(WordMod) : m = IF r.data1 = 0 THEN 1 ELSE r.data1
  <2>1. 1 \in Below(WordMod) BY Widths DEF Below
  <2> QED BY <1>1, <2>1, Fields
<1>3. q = [r EXCEPT !.data1 = m, !.out = 128] BY <1>2, Zenon DEF FirstRound
<1>4. q \in ClientState
  <2>1. [r EXCEPT !.data1 = m, !.out = 128] \in ClientState
    BY <1>1, SetRound
  <2> QED BY <1>3, <2>1, Zenon
<1>5. SameStream(r, q) /\ q.read_header = r.read_header
  BY <1>1, <1>3 DEF ClientState, SameStream
<1> HIDE DEF q
<1>6. Len(q.read_header.topic) <= TopicMax BY <1>5 DEF Good
<1>7. Reads(r, q) BY <1>4, <1>5, <1>6, StaysReads
<1> QED BY <1>7 DEF q

(* The value of a read operation that succeeded fits a Variable_integer.   *)
ReadsWord(r, q) == Reads(r, q) /\ (Continues(q) => q.out \in Below(WordMod))

(* read_element of a Variable_integer, from any scratch data.              *)
LEMMA ReadVariableIntegerReads ==
  ASSUME NEW r, Good(r)
  PROVE  ReadsWord(r, ReadVariableInteger(r))
<1> DEFINE q0 == FirstRound(r)
           q1 == VariableByte(q0)
           q2 == VariableByte(q1)
           q3 == VariableByte(q2)
           q4 == VariableByte(q3)
<1>1. Reads(r, q0) /\ Good(q0) BY FirstRoundReads DEF Reads
<1> HIDE DEF q0
<1>2. Reads(r, q1) /\ Good(q1)
  BY <1>1, VariableByteReads, ReadsTransitive DEF Reads
<1> HIDE DEF q1
<1>3. Reads(r, q2) /\ Good(q2)
  BY <1>2, VariableByteReads, ReadsTransitive DEF Reads
<1> HIDE DEF q2
<1>4. Reads(r, q3) /\ Good(q3)
  BY <1>3, VariableByteReads, ReadsTransitive DEF Reads
<1> HIDE DEF q3
<1>5. Reads(r, q4) /\ Good(q4)
  BY <1>4, VariableByteReads, ReadsTransitive DEF Reads
<1>6. ReadVariableInteger(r) = LastRound(q4)
  BY DEF ReadVariableInteger, q4, q3, q2, q1, q0
<1> HIDE DEF q4
<1>7. q4 \in ClientState BY <1>5 DEF Good
<1>8. ASSUME ~q4.ok PROVE ReadsWord(r, LastRound(q4))
  BY <1>5, <1>8 DEF LastRound, ReadsWord, Continues
<1>9. ASSUME q4.ok PROVE ReadsWord(r, LastRound(q4))
  <2>1. q4.data0 \in Nat /\ q4.data0 \in Below(WordMod) BY <1>7, Fields
  <2>2. Reads(q4, Finish(q4, q4.data0)) /\ Finish(q4, q4.data0).out = q4.data0
    BY <1>5, <2>1, FinishReads
  <2>3. LastRound(q4) = Finish(q4, q4.data0) BY <1>9 DEF LastRound
  <2> QED BY <1>5, <2>1, <2>2, <2>3, ReadsTransitive DEF ReadsWord
<1> QED BY <1>6, <1>8, <1>9

-----------------------------------------------------------------------------
(* Bytes taken from the stream into the header. *)
LEMMA NextBytesFit ==
  ASSUME NEW r, Good(r), NEW n \in Nat, r.pos + n <= Len(wire)
  PROVE  NextBytes(r, n) \in Seq(Byte) /\ Len(NextBytes(r, n)) = n
<1>1. PICK p \in Nat : p = r.pos BY Fields DEF Good
<1>2. wire \in Seq(Byte) /\ Len(wire) \in Nat BY DEF Good
<1>3. p + 1 \in 1 .. (Len(wire) + 1) /\ p + n \in ((p + 1) - 1) .. Len(wire)
  BY <1>1, <1>2
<1>4. /\ SubSeq(wire, p + 1, p + n) \in Seq(Byte)
      /\ Len(SubSeq(wire, p + 1, p + n)) =
           IF p + 1 <= p + n THEN (p + n) - (p + 1) + 1 ELSE 0
  BY <1>2, <1>3, SubSeqProperties
<1>5. NextBytes(r, n) = SubSeq(wire, p + 1, p + n) BY <1>1 DEF NextBytes
<1> HIDE DEF NextBytes
<1>6. (IF p + 1 <= p + n THEN (p + n) - (p + 1) + 1 ELSE 0) = n OBVIOUS
<1> QED BY <1>4, <1>5, <1>6

(* Assignments to the header.                                              *)
LEMMA SetHeader ==
  ASSUME NEW r \in ClientState, NEW h \in Header
  PROVE  [r EXCEPT !.read_header = h] \in ClientState
BY Shape, Zenon

(* What read_blob sets.                                                    *)
LEMMA SetText ==
  ASSUME NEW r \in ClientState, NEW h \in Header, NEW d \in Below(WordMod)
  PROVE  [r EXCEPT !.data0 = d, !.read_header = h] \in ClientState
<1>1. d \in Words BY DEF Words
<1> QED BY <1>1, Shape, Zenon

(* A header with another topic is a header.                                *)
LEMMA SetTopic ==
  ASSUME NEW h \in Header, NEW t \in Seq(Byte)
  PROVE  [h EXCEPT !.topic = t] \in Header
<1>1. t \in Bytes BY DEF Bytes
<1> QED BY <1>1, HeaderShape, Zenon

(* `got' more bytes of the `size' bytes of a topic are there and have room. *)
MayExtend(r, size, got) ==
  /\ size \in Below(65536) /\ got \in Nat
  /\ got <= r.available /\ got <= r.remaining_size
  /\ got <= size /\ got <= TopicRoom(r) /\ r.pos + got <= Len(wire)
  /\ got > 0 => r.good

(* They extend the topic and are counted off.                              *)
LEMMA ExtendReads ==
  ASSUME NEW r, Good(r), NEW size, NEW got, MayExtend(r, size, got)
  PROVE  /\ Reads(r, Extend(r, size, got))
         /\ Extend(r, size, got).data0 = size - got
         /\ Extend(r, size, got).available = r.available - got
<1> DEFINE q == Consume(r, got)
           t == r.read_header.topic \o NextBytes(r, got)
           h == [r.read_header EXCEPT !.topic = t]
           d == size - got
           s == Extend(r, size, got)
<1>1. r \in ClientState /\ r.read_header \in Header BY Fields DEF Good
<1>2. r.read_header.topic \in Seq(Byte) BY <1>1 DEF Header
<1>3. /\ Reads(r, q) /\ q.read_header = r.read_header
      /\ q.available = r.available - got /\ q.good = r.good
  BY ConsumeReads DEF MayExtend
<1>4. Good(q) /\ q \in ClientState BY <1>3 DEF Reads, Good
<1>5. s = [q EXCEPT !.data0 = d, !.read_header = h]
  <2>1. q.read_header = r.read_header BY <1>3
  <2> QED BY <2>1, Zenon DEF Extend
<1> HIDE DEF q, s
<1>6. t \in Seq(Byte) /\ Len(t) = Len(r.read_header.topic) + got
  <2>1. NextBytes(r, got) \in Seq(Byte) /\ Len(NextBytes(r, got)) = got
    BY NextBytesFit DEF MayExtend
  <2> QED BY <1>2, <2>1
<1> HIDE DEF t
<1>7. Len(t) <= TopicMax
  BY <1>2, <1>6, ReaderAssumption DEF TopicRoom, ReaderAssumption, MayExtend
<1>8. h \in Header BY <1>1, <1>6, SetTopic
<1>9. h.topic = t /\ h.index = r.read_header.index BY <1>1 DEF Header
<1> HIDE DEF h
<1>10. d \in Below(WordMod) BY Widths DEF Below, MayExtend
<1> HIDE DEF d
<1>11. [q EXCEPT !.data0 = d, !.read_header = h] \in ClientState
  BY <1>4, <1>8, <1>10, SetText
<1>12. s \in ClientState BY <1>5, <1>11, Zenon
<1>13. SameStream(q, s) /\ s.read_header = h /\ s.data0 = d
  BY <1>4, <1>5 DEF ClientState, SameStream
<1>14. /\ s.read_header.index = q.read_header.index
       /\ Len(s.read_header.topic) <= TopicMax
  BY <1>3, <1>7, <1>9, <1>13
<1>15. Reads(q, s) BY <1>4, <1>12, <1>13, <1>14, StaysReads
<1>16. Reads(r, s) BY <1>3, <1>15, ReadsTransitive
<1>17. /\ s.data0 = size - got /\ s.available = r.available - got
       /\ s.good = r.good
  BY <1>3, <1>13 DEF SameStream, d
<1> QED BY <1>16, <1>17 DEF s

(* What remains of a topic is appended as far as the container allows.     *)
LEMMA ReadTextReads ==
  ASSUME NEW r, Good(r), NEW size \in Below(65536)
  PROVE  Reads(r, ReadText(r, size))
<1> DEFINE want == StdMin(size, r.available)
           k    == StdMin(want, TopicRoom(r))
           got  == Got(r, k)
           s    == Extend(r, size, got)
<1>1. ReadText(r, size) =
        IF r.remaining_size < size THEN Fail(r, "bad_remaining_size")
        ELSE IF got < k THEN BadStream(s)
        ELSE IF k < want THEN Fail(s, "not_enough_memory")
        ELSE IF s.data0 # 0 THEN Wait(s) ELSE s
  BY DEF ReadText
<1>2. r \in ClientState /\ r.available \in Nat /\ r.remaining_size \in Nat
      /\ r.read_header \in Header /\ r.pos \in Nat
  BY Fields DEF Good
<1>3. r.read_header.topic \in Seq(Byte) BY <1>2 DEF Header
<1>4. TopicRoom(r) \in Nat
  BY <1>3, ReaderAssumption DEF Good, TopicRoom, ReaderAssumption
<1>5. size \in Nat /\ size < WordMod BY Widths DEF Below
<1>6. k \in Nat /\ k <= size /\ k <= r.available /\ k <= TopicRoom(r)
  BY <1>2, <1>4, <1>5 DEF StdMin
<1> HIDE DEF k, want
<1>7. got \in Nat /\ got <= k /\ r.pos + got <= Len(wire)
      /\ (got > 0 => r.good)
  BY <1>6, GotBounds
<1> HIDE DEF got
<1>8. ASSUME ~(r.remaining_size < size)
      PROVE  /\ Reads(r, s) /\ s.data0 = size - got
             /\ s.available = r.available - got
  <2>1. MayExtend(r, size, got)
    BY <1>2, <1>4, <1>5, <1>6, <1>7, <1>8 DEF MayExtend
  <2> QED BY <2>1, ExtendReads
<1> HIDE DEF s
<1>9. ASSUME Reads(r, s)
      PROVE  /\ Reads(r, BadStream(s))
             /\ Reads(r, Fail(s, "not_enough_memory"))
  <2>1. Good(s) BY <1>9 DEF Reads
  <2>2. /\ Reads(s, BadStream(s))
        /\ Reads(s, Fail(s, "not_enough_memory"))
    BY <2>1, BadStreamReads, FailReads, ReadErrors
  <2> QED BY <1>9, <2>2, ReadsTransitive
<1>10. Reads(r, Fail(r, "bad_remaining_size")) BY FailReads, ReadErrors
<1>11. ASSUME ~(r.remaining_size < size), ~(got < k), ~(k < want),
              s.data0 # 0
       PROVE  Reads(r, Wait(s))
  <2>1. k <= want /\ want \in {size, r.available} /\ want <= r.available
    BY <1>2, <1>4, <1>5 DEF k, want, StdMin
  <2>2. got = r.available
    BY <1>2, <1>5, <1>6, <1>7, <1>8, <1>11, <2>1 DEF want, StdMin
  <2>3. s.available = 0 /\ Good(s) BY <1>2, <1>8, <1>11, <2>2 DEF Reads
  <2>4. Reads(s, Wait(s)) BY <2>3, WaitReads
  <2> QED BY <1>8, <1>11, <2>4, ReadsTransitive
<1>12. CASE r.remaining_size < size BY <1>1, <1>10, <1>12
<1>13. CASE ~(r.remaining_size < size)
  <2>1. Reads(r, s) BY <1>8, <1>13
  <2> QED BY <1>1, <1>9, <1>11, <1>13, <2>1
<1> QED BY <1>12, <1>13

(* read_blob, from any scratch data.                                       *)
LEMMA ReadTopicReads ==
  ASSUME NEW r, Good(r)
  PROVE  Reads(r, ReadTopic(r))
<1> DEFINE size == r.data0 % 65536
           q    == ReadUint16(r)
<1>1. ReadTopic(r) =
        IF size # 0 THEN ReadText(r, size)
        ELSE IF Continues(q) THEN ReadText(q, q.out) ELSE q
  BY DEF ReadTopic, Then
<1>2. Reads(r, ReadText(r, size))
  <2>1. PICK x \in Int : x = r.data0 BY Fields DEF Good
  <2>2. x % 65536 \in Below(65536) BY Residue
  <2>3. size \in Below(65536) BY <2>1, <2>2
  <2> QED BY <2>3, ReadTextReads
<1>3. ReadsShort(r, q) BY ReadUint16Reads
<1> HIDE DEF q, size
<1>4. ASSUME Continues(q) PROVE Reads(r, ReadText(q, q.out))
  <2>1. Good(q) /\ q.out \in Below(65536) BY <1>3, <1>4 DEF ReadsShort, Reads
  <2>2. Reads(q, ReadText(q, q.out)) BY <2>1, ReadTextReads
  <2> QED BY <1>3, <2>2, ReadsTransitive DEF ReadsShort
<1> QED BY <1>1, <1>2, <1>3, <1>4 DEF ReadsShort

-----------------------------------------------------------------------------
(* One element of a packet: `sequence' counts it once it is complete, and  *)
(* nothing but what it reads is changed.                                   *)
Steps(r, q) ==
  /\ q.read_header = r.read_header
  /\ q.sequence = IF Continues(q) THEN (r.sequence + 1) % 256 ELSE r.sequence

(* A byte leaves the scratch data alone.                                   *)
LEMMA ReadByteSteps ==
  ASSUME NEW r, Good(r), Continues(r)
  PROVE  /\ Steps(r, ReadByte(r))
         /\ ReadByte(r).data0 = r.data0 /\ ReadByte(r).data1 = r.data1
         /\ ReadByte(r).remaining_size =
              IF Continues(ReadByte(r)) THEN r.remaining_size - 1
                                        ELSE r.remaining_size
<1>1. r \in ClientState BY DEF Good
<1>2. CASE r.available = 0
  <2>1. ReadByte(r) = Wait(r) BY <1>2 DEF ReadByte
  <2> QED BY <1>1, <2>1 DEF Wait, Steps, Continues, ClientState
<1>3. CASE r.available # 0 /\ r.remaining_size = 0
  <2>1. ReadByte(r) = Fail(r, "bad_remaining_size") BY <1>3 DEF ReadByte
  <2> QED BY <1>1, <2>1 DEF Fail, Steps, Continues, ClientState
<1>4. CASE r.available # 0 /\ r.remaining_size # 0 /\ Got(r, 1) # 1
  <2>1. ReadByte(r) = BadStream(r) BY <1>4 DEF ReadByte
  <2> QED BY <1>1, <2>1 DEF BadStream, Fail, Steps, Continues, ClientState
<1>5. CASE r.available # 0 /\ r.remaining_size # 0 /\ Got(r, 1) = 1
  <2> DEFINE q == Consume(r, 1)
             x == wire[r.pos + 1]
             s == [q EXCEPT !.sequence = (@ + 1) % 256, !.out = x]
  <2>1. ReadByte(r) = s BY <1>5 DEF ReadByte
  <2>2. r.pos + 1 <= Len(wire) /\ r.good BY <1>5, GotBounds
  <2>3. r.available \in Nat /\ r.remaining_size \in Nat BY <1>1, Fields
  <2>4. Good(q) BY <1>5, <2>2, <2>3, ConsumeReads DEF Reads
  <2>5. /\ q.sequence = r.sequence /\ q.data0 = r.data0
        /\ q.data1 = r.data1 /\ q.read_header = r.read_header
        /\ q.remaining_size = r.remaining_size - 1
    BY <1>5, <2>2, <2>3, ConsumeReads
  <2>6. q.ok = r.ok /\ q.ec = r.ec BY <1>1 DEF Consume, ClientState
  <2> HIDE DEF q, x
  <2>7. /\ s.sequence = (q.sequence + 1) % 256 /\ s.data0 = q.data0
        /\ s.data1 = q.data1 /\ s.read_header = q.read_header
        /\ s.remaining_size = q.remaining_size
        /\ s.ok = q.ok /\ s.ec = q.ec
    BY <2>4 DEF Good, ClientState
  <2> HIDE DEF s
  <2>8. Continues(s) BY <2>6, <2>7 DEF Continues
  <2> QED BY <2>1, <2>5, <2>7, <2>8 DEF Steps
<1> QED BY <1>2, <1>3, <1>4, <1>5

(* The end of an element steps on from a state that continues.             *)
LEMMA FinishSteps ==
  ASSUME NEW r \in ClientState, NEW x
  PROVE  /\ Finish(r, x).sequence = (r.sequence + 1) % 256
         /\ Finish(r, x).read_header = r.read_header
         /\ Finish(r, x).data0 = 0 /\ Finish(r, x).data1 = 0
         /\ Finish(r, x).remaining_size = r.remaining_size
         /\ Finish(r, x).ok = r.ok /\ Finish(r, x).ec = r.ec
BY DEF Finish, ClientState

(* A std::uint16_t is complete when both its bytes are.                    *)
LEMMA ReadUint16Steps ==
  ASSUME NEW r, Good(r), Continues(r)
  PROVE  Steps(r, ReadUint16(r))
<1>1. r \in ClientState BY DEF Good
<1> DEFINE rest == (2 - r.data0) % WordMod
           n    == StdMin(rest, Signed(r.available))
           got  == IF n < 0 THEN 0 ELSE Got(r, n)
           q    == Fill(r, n, got)
<1>2. ReadUint16(r) =
        IF r.available = 0 THEN Wait(r)
        ELSE IF r.remaining_size < rest
             THEN Fail(r, "bad_remaining_size")
        ELSE IF ~q.good THEN Fail(q, "io_error")
        ELSE IF q.data0 # 2 THEN Wait(q)
        ELSE Finish(q, Uint16(q.data1))
  BY DEF ReadUint16
<1>rest. rest \in Nat BY <1>1, Fields, RestRange
<1> HIDE DEF rest
<1>3. n \in Int
  <2>1. Signed(r.available) \in Int BY <1>1, Fields, Widths DEF Signed
  <2> QED BY <1>rest, <2>1 DEF StdMin
<1> HIDE DEF n
<1>4. got \in Nat /\ r.pos + got <= Len(wire)
  <2>1. r.pos \in Nat /\ r.pos <= Len(wire) BY <1>1, Fields DEF Good
  <2>2. CASE n < 0 BY <2>1, <2>2
  <2>3. CASE n >= 0
    <3>1. n \in Nat /\ got = Got(r, n) BY <1>3, <2>3
    <3>2. Got(r, n) \in Nat /\ r.pos + Got(r, n) <= Len(wire)
      BY <3>1, GotBounds
    <3> QED BY <1>3, <3>1, <3>2
  <2> QED BY <1>3, <2>2, <2>3
<1> HIDE DEF got
<1>5. q \in ClientState BY <1>3, <1>4, FillGood DEF Good
<1>6. /\ q.sequence = r.sequence /\ q.read_header = r.read_header
      /\ q.ok = r.ok /\ q.ec = r.ec
  BY <1>1 DEF Fill, ClientState
<1> HIDE DEF q
<1>7. Steps(r, Wait(r)) BY <1>1 DEF Wait, Steps, Continues, ClientState
<1>8. Steps(r, Fail(r, "bad_remaining_size"))
  BY <1>1 DEF Fail, Steps, Continues, ClientState
<1>9. Steps(r, Fail(q, "io_error"))
  BY <1>5, <1>6 DEF Fail, Steps, Continues, ClientState
<1>10. Steps(r, Wait(q))
  BY <1>5, <1>6 DEF Wait, Steps, Continues, ClientState
<1>11. Steps(r, Finish(q, Uint16(q.data1)))
  <2> DEFINE s == Finish(q, Uint16(q.data1))
  <2>1. /\ s.sequence = (q.sequence + 1) % 256
        /\ s.read_header = q.read_header /\ s.ok = q.ok /\ s.ec = q.ec
    BY <1>5, FinishSteps
  <2> HIDE DEF s
  <2>2. Steps(r, s) BY <1>6, <2>1 DEF Steps, Continues
  <2> QED BY <2>2 DEF s
<1> QED BY <1>2, <1>7, <1>8, <1>9, <1>10, <1>11, Zenon

(* A round of the loop that reads a Variable_integer completes nothing.    *)
Rounds(r, q) ==
  /\ q.read_header = r.read_header /\ q.sequence = r.sequence
  /\ q.ok => r.ok /\ q.ec = r.ec

(* Every way out of a round.                                               *)
LEMMA VariableByteRounds ==
  ASSUME NEW r, Good(r)
  PROVE  Rounds(r, VariableByte(r))
<1>1. r \in ClientState /\ r.available \in Nat /\ r.remaining_size \in Nat
      /\ r.pos \in Nat
  BY Fields DEF Good
<1> DEFINE c == wire[r.pos + 1]
           p == Consume(r, 1)
           q == Accumulate(p, c)
<1>2. VariableByte(r) =
        IF ~r.ok \/ r.out < 128 THEN r
        ELSE IF r.available = 0 THEN Wait(r)
        ELSE IF r.remaining_size = 0 THEN Fail(r, "bad_remaining_size")
        ELSE IF Got(r, 1) # 1 THEN BadStream(r)
        ELSE IF q.data1 > 128 * 128 * 128 /\ c >= 128
             THEN Fail(q, "bad_remaining_size")
             ELSE q
  BY DEF VariableByte
<1>3. ASSUME r.available # 0, r.remaining_size # 0, Got(r, 1) = 1
      PROVE  Rounds(r, q) /\ Rounds(r, Fail(q, "bad_remaining_size"))
  <2>1. r.pos + 1 <= Len(wire) /\ r.good BY <1>3, GotBounds
  <2>2. c \in 0 .. 255 BY <2>1, WireByte
  <2>3. Good(p) BY <1>1, <1>3, <2>1, ConsumeReads DEF Reads
  <2>4. Good(q) BY <2>2, <2>3, AccumulateReads DEF Reads
  <2>5. /\ p.read_header = r.read_header /\ p.sequence = r.sequence
        /\ p.ok = r.ok /\ p.ec = r.ec
    BY <1>1 DEF Consume, ClientState
  <2> HIDE DEF p
  <2>6. /\ q.read_header = p.read_header /\ q.sequence = p.sequence
        /\ q.ok = p.ok /\ q.ec = p.ec
    BY <2>3 DEF Accumulate, Good, ClientState
  <2> HIDE DEF q
  <2>7. Rounds(r, q) BY <2>5, <2>6 DEF Rounds
  <2>8. Rounds(r, Fail(q, "bad_remaining_size"))
    BY <2>4, <2>5, <2>6 DEF Rounds, Fail, Good, ClientState
  <2> QED BY <2>7, <2>8
<1> HIDE DEF q, c
<1>4. Rounds(r, r) BY DEF Rounds
<1>5. Rounds(r, Wait(r)) BY <1>1 DEF Rounds, Wait, ClientState
<1>6. Rounds(r, Fail(r, "bad_remaining_size"))
  BY <1>1 DEF Rounds, Fail, ClientState
<1>7. Rounds(r, BadStream(r)) BY <1>1 DEF Rounds, BadStream, Fail, ClientState
<1> QED BY <1>2, <1>3, <1>4, <1>5, <1>6, <1>7, Zenon

(* A Variable_integer is complete when its last byte is.                   *)
LEMMA ReadVariableIntegerSteps ==
  ASSUME NEW r, Good(r), Continues(r)
  PROVE  Steps(r, ReadVariableInteger(r))
<1> DEFINE q0 == FirstRound(r)
           q1 == VariableByte(q0)
           q2 == VariableByte(q1)
           q3 == VariableByte(q2)
           q4 == VariableByte(q3)
<1>1. Good(q0) BY FirstRoundReads DEF Reads
<1>2. Rounds(r, q0) BY DEF FirstRound, Rounds, Good, ClientState
<1> HIDE DEF q0
<1>3. Good(q1) /\ Rounds(q0, q1)
  BY <1>1, VariableByteReads, VariableByteRounds DEF Reads
<1> HIDE DEF q1
<1>4. Good(q2) /\ Rounds(q1, q2)
  BY <1>3, VariableByteReads, VariableByteRounds DEF Reads
<1> HIDE DEF q2
<1>5. Good(q3) /\ Rounds(q2, q3)
  BY <1>4, VariableByteReads, VariableByteRounds DEF Reads
<1> HIDE DEF q3
<1>6. Good(q4) /\ Rounds(q3, q4)
  BY <1>5, VariableByteReads, VariableByteRounds DEF Reads
<1>7. ReadVariableInteger(r) = LastRound(q4)
  BY DEF ReadVariableInteger, q4, q3, q2, q1, q0
<1> HIDE DEF q4
<1>8. Rounds(r, q4) BY <1>2, <1>3, <1>4, <1>5, <1>6 DEF Rounds
<1>9. Steps(r, LastRound(q4))
  <2>1. CASE ~q4.ok BY <1>8, <2>1 DEF LastRound, Rounds, Steps, Continues
  <2>2. CASE q4.ok
    <3> DEFINE s == Finish(q4, q4.data0)
    <3>1. LastRound(q4) = s BY <2>2 DEF LastRound
    <3>2. /\ s.sequence = (q4.sequence + 1) % 256
          /\ s.read_header = q4.read_header /\ s.ok = q4.ok /\ s.ec = q4.ec
      BY <1>6, FinishSteps DEF Good
    <3> HIDE DEF s
    <3> QED BY <1>8, <2>2, <3>1, <3>2 DEF Rounds, Steps, Continues
  <2> QED BY <2>1, <2>2
<1> QED BY <1>7, <1>9

-----------------------------------------------------------------------------
(* A variable integer of which k bytes are read: its sum and multiplier,   *)
(* and what is left of the five bytes a fixed header may have.             *)
Shifted(r, k) ==
  /\ r.data1 = 128 ^ k /\ r.data0 < 128 ^ k /\ r.remaining_size = 4 - k

(* Some number of its bytes are read, or it is not begun.                  *)
Fits(r) ==
  \/ r.data0 = 0 /\ r.data1 = 0 /\ r.remaining_size = 4
  \/ \E k \in 0 .. 4 : Shifted(r, k)

(* The powers it takes, all of them below 2^32.                            *)
LEMMA Powers ==
  /\ 128 ^ 0 = 1 /\ 128 ^ 1 = 128 /\ 128 ^ 2 = 16384 /\ 128 ^ 3 = 2097152
  /\ 128 ^ 4 = 268435456
BY SMT

(* Seven more bits neither overflow nor reach the next multiplier.         *)
LEMMA ShiftFits ==
  ASSUME NEW k \in 0 .. 3, NEW d \in Nat, d < 128 ^ k, NEW x \in 0 .. 127
  PROVE  /\ (d + x * 128 ^ k) % WordMod < 128 ^ (k + 1)
         /\ (128 ^ k * 128) % WordMod = 128 ^ (k + 1)
<1>1. \A y \in Nat : y < 268435457 => y % WordMod = y
  <2>1. WordMod \in Nat /\ WordMod > 268435456
    BY GeneralAssumption, SMT DEF GeneralAssumption
  <2> QED BY <2>1, SMT
<1>2. CASE k = 0
  <2>1. 128 ^ k = 1 /\ 128 ^ (k + 1) = 128 BY <1>2, Powers, SMT
  <2>2. PICK y \in Nat : y = d + x * 1 /\ y < 128 BY <2>1, SMT
  <2>3. y % WordMod = y /\ 128 % WordMod = 128 BY <1>1, <2>2, SMT
  <2> QED BY <2>1, <2>2, <2>3, SMT
<1>3. CASE k = 1
  <2>1. 128 ^ k = 128 /\ 128 ^ (k + 1) = 16384 BY <1>3, Powers, SMT
  <2>2. PICK y \in Nat : y = d + x * 128 /\ y < 16384 BY <2>1, SMT
  <2>3. y % WordMod = y /\ 16384 % WordMod = 16384 BY <1>1, <2>2, SMT
  <2> QED BY <2>1, <2>2, <2>3, SMT
<1>4. CASE k = 2
  <2>1. 128 ^ k = 16384 /\ 128 ^ (k + 1) = 2097152 BY <1>4, Powers, SMT
  <2>2. PICK y \in Nat : y = d + x * 16384 /\ y < 2097152 BY <2>1, SMT
  <2>3. y % WordMod = y /\ 2097152 % WordMod = 2097152 BY <1>1, <2>2, SMT
  <2> QED BY <2>1, <2>2, <2>3, SMT
<1>5. CASE k = 3
  <2>1. 128 ^ k = 2097152 /\ 128 ^ (k + 1) = 268435456 BY <1>5, Powers, SMT
  <2>2. PICK y \in Nat : y = d + x * 2097152 /\ y < 268435456 BY <2>1, SMT
  <2>3. y % WordMod = y /\ 268435456 % WordMod = 268435456 BY <1>1, <2>2, SMT
  <2> QED BY <2>1, <2>2, <2>3, SMT
<1> QED BY <1>2, <1>3, <1>4, <1>5, SMT

(* Shifted looks at the scratch data only.                                 *)
LEMMA SameShifted ==
  ASSUME NEW r, NEW q, NEW k, Shifted(r, k), q.data0 = r.data0,
         q.data1 = r.data1, q.remaining_size = r.remaining_size
  PROVE  Shifted(q, k)
BY DEF Shifted

(* A failure leaves it alone.                                              *)
LEMMA FailShifted ==
  ASSUME NEW r \in ClientState, NEW k, Shifted(r, k), NEW e
  PROVE  Shifted(Fail(r, e), k)
<1>1. /\ Fail(r, e).data0 = r.data0 /\ Fail(r, e).data1 = r.data1
      /\ Fail(r, e).remaining_size = r.remaining_size
  BY Zenon DEF Fail, ClientState
<1> QED BY <1>1, SameShifted

(* A round of the loop keeps the sum below the multiplier.                 *)
LEMMA VariableByteFits ==
  ASSUME NEW r, Good(r), NEW k \in 0 .. 4, Shifted(r, k)
  PROVE  \E n \in 0 .. 4 : Shifted(VariableByte(r), n)
<1>1. r \in ClientState /\ r.available \in Nat /\ r.remaining_size \in Nat
      /\ r.pos \in Nat
  BY Fields DEF Good
<1> DEFINE c == wire[r.pos + 1]
           p == Consume(r, 1)
           q == Accumulate(p, c)
<1>2. VariableByte(r) =
        IF ~r.ok \/ r.out < 128 THEN r
        ELSE IF r.available = 0 THEN Wait(r)
        ELSE IF r.remaining_size = 0 THEN Fail(r, "bad_remaining_size")
        ELSE IF Got(r, 1) # 1 THEN BadStream(r)
        ELSE IF q.data1 > 128 * 128 * 128 /\ c >= 128
             THEN Fail(q, "bad_remaining_size")
             ELSE q
  BY DEF VariableByte
<1>3. ASSUME r.available # 0, r.remaining_size # 0, Got(r, 1) = 1
      PROVE  \E n \in 0 .. 4 :
               Shifted(q, n) /\ Shifted(Fail(q, "bad_remaining_size"), n)
  <2>1. r.pos + 1 <= Len(wire) /\ r.good BY <1>3, GotBounds
  <2>2. c \in 0 .. 255 BY <2>1, WireByte
  <2>3. /\ Good(p) /\ p.data0 = r.data0 /\ p.data1 = r.data1
        /\ p.remaining_size = r.remaining_size - 1
    BY <1>1, <1>3, <2>1, ConsumeReads DEF Reads
  <2>4. q \in ClientState BY <2>2, <2>3, AccumulateReads DEF Reads, Good
  <2> HIDE DEF p
  <2>5. /\ q.data0 = (p.data0 + (c % 128) * p.data1) % WordMod
        /\ q.data1 = (p.data1 * 128) % WordMod
        /\ q.remaining_size = p.remaining_size
    BY <2>3, Zenon DEF Accumulate, Good, ClientState
  <2> HIDE DEF q
  <2>6. k \in 0 .. 3 /\ q.remaining_size = 4 - (k + 1)
    BY <1>1, <1>3, <2>3, <2>5 DEF Shifted
  <2>7. PICK x \in 0 .. 127 : x = c % 128 BY <2>2
  <2>8. PICK d \in Nat : d = r.data0 /\ d < 128 ^ k
    BY <1>1, Fields DEF Shifted
  <2>9. p.data1 = 128 ^ k BY <2>3 DEF Shifted
  <2>10. /\ q.data0 = (d + x * 128 ^ k) % WordMod
         /\ q.data1 = (128 ^ k * 128) % WordMod
    BY <2>3, <2>5, <2>7, <2>8, <2>9, Zenon
  <2>11. /\ (d + x * 128 ^ k) % WordMod < 128 ^ (k + 1)
         /\ (128 ^ k * 128) % WordMod = 128 ^ (k + 1)
    BY <2>6, <2>8, ShiftFits, ZenonT(30)
  <2>12. q.data0 < 128 ^ (k + 1) BY <2>10, <2>11, Zenon
  <2>13. q.data1 = 128 ^ (k + 1) BY <2>10, <2>11, Zenon
  <2>14. Shifted(q, k + 1) BY <2>6, <2>12, <2>13, Zenon DEF Shifted
  <2>15. Shifted(Fail(q, "bad_remaining_size"), k + 1)
    BY <2>4, <2>14, FailShifted
  <2>16. k + 1 \in 0 .. 4 BY <2>6
  <2> QED BY <2>14, <2>15, <2>16
<1> HIDE DEF q, c
<1>4. Shifted(Wait(r), k) BY <1>1, SameShifted DEF Wait, ClientState
<1>5. Shifted(Fail(r, "bad_remaining_size"), k)
  BY <1>1, FailShifted
<1>6. Shifted(BadStream(r), k)
  <2> DEFINE b == [r EXCEPT !.good = FALSE]
  <2>1. b \in ClientState BY <1>1, Shape, Zenon
  <2>2. b.data0 = r.data0 /\ b.data1 = r.data1
        /\ b.remaining_size = r.remaining_size
    BY <1>1, Zenon DEF ClientState
  <2>3. BadStream(r) = Fail(b, "io_error") BY DEF BadStream
  <2> HIDE DEF b
  <2>4. Shifted(b, k) BY <2>2, SameShifted
  <2> QED BY <2>1, <2>3, <2>4, FailShifted
<1>7. CASE ~r.ok \/ r.out < 128 BY <1>2, <1>7, Zenon
<1>8. CASE ~(~r.ok \/ r.out < 128)
  <2>1. CASE r.available = 0 BY <1>2, <1>4, <1>8, <2>1, Zenon
  <2>2. CASE r.available # 0 /\ r.remaining_size = 0
    BY <1>2, <1>5, <1>8, <2>2, Zenon
  <2>3. CASE r.available # 0 /\ r.remaining_size # 0 /\ Got(r, 1) # 1
    BY <1>2, <1>6, <1>8, <2>3, Zenon
  <2>4. CASE r.available # 0 /\ r.remaining_size # 0 /\ Got(r, 1) = 1
    <3>1. VariableByte(r) \in {q, Fail(q, "bad_remaining_size")}
      BY <1>2, <1>8, <2>4
    <3> QED BY <1>3, <2>4, <3>1, Zenon
  <2> QED BY <2>1, <2>2, <2>3, <2>4
<1> QED BY <1>7, <1>8

(* A variable integer that is incomplete fits, and one that is complete    *)
(* leaves no trace.                                                        *)
LEMMA ReadVariableIntegerFits ==
  ASSUME NEW r, Good(r), Continues(r), Fits(r)
  PROVE  /\ ~Continues(ReadVariableInteger(r)) => Fits(ReadVariableInteger(r))
         /\ Continues(ReadVariableInteger(r)) =>
              /\ ReadVariableInteger(r).data0 = 0
              /\ ReadVariableInteger(r).data1 = 0
<1> DEFINE q0 == FirstRound(r)
           q1 == VariableByte(q0)
           q2 == VariableByte(q1)
           q3 == VariableByte(q2)
           q4 == VariableByte(q3)
<1>1. Good(q0) BY FirstRoundReads DEF Reads
<1>2. \E k \in 0 .. 4 : Shifted(q0, k)
  <2>1. r \in ClientState BY DEF Good
  <2>2. /\ q0.data0 = r.data0 /\ q0.remaining_size = r.remaining_size
        /\ q0.data1 = IF r.data1 = 0 THEN 1 ELSE r.data1
    BY <2>1 DEF FirstRound, ClientState
  <2> HIDE DEF q0
  <2>3. CASE r.data0 = 0 /\ r.data1 = 0 /\ r.remaining_size = 4
    <3>1. Shifted(q0, 0) BY <2>2, <2>3, Powers, SMT DEF Shifted
    <3> QED BY <3>1
  <2>4. ASSUME NEW k \in 0 .. 4, Shifted(r, k)
        PROVE  \E n \in 0 .. 4 : Shifted(q0, n)
    <3>1. r.data1 = 128 ^ k BY <2>4 DEF Shifted
    <3>2. 128 ^ k # 0
      <4>1. k = 0 \/ k = 1 \/ k = 2 \/ k = 3 \/ k = 4 OBVIOUS
      <4>2. /\ 128 ^ 0 # 0 /\ 128 ^ 1 # 0 /\ 128 ^ 2 # 0 /\ 128 ^ 3 # 0
            /\ 128 ^ 4 # 0
        BY Powers, SMT
      <4> QED BY <4>1, <4>2, Zenon
    <3>3. q0.data1 = r.data1 BY <2>2, <3>1, <3>2
    <3>4. Shifted(q0, k) BY <2>2, <2>4, <3>3, SameShifted
    <3> QED BY <3>4
  <2> QED BY <2>3, <2>4 DEF Fits
<1>3. Rounds(r, q0) BY DEF FirstRound, Rounds, Good, ClientState
<1> HIDE DEF q0
<1>4. Good(q1) /\ (\E k \in 0 .. 4 : Shifted(q1, k))
  BY <1>1, <1>2, VariableByteReads, VariableByteFits DEF Reads
<1>5. Rounds(q0, q1) BY <1>1, VariableByteRounds
<1> HIDE DEF q1
<1>6. Good(q2) /\ (\E k \in 0 .. 4 : Shifted(q2, k))
  BY <1>4, VariableByteReads, VariableByteFits DEF Reads
<1>7. Rounds(q1, q2) BY <1>4, VariableByteRounds
<1> HIDE DEF q2
<1>8. Good(q3) /\ (\E k \in 0 .. 4 : Shifted(q3, k))
  BY <1>6, VariableByteReads, VariableByteFits DEF Reads
<1>9. Rounds(q2, q3) BY <1>6, VariableByteRounds
<1> HIDE DEF q3
<1>10. Good(q4) /\ (\E k \in 0 .. 4 : Shifted(q4, k))
  BY <1>8, VariableByteReads, VariableByteFits DEF Reads
<1>11. Rounds(q3, q4) BY <1>8, VariableByteRounds
<1>12. ReadVariableInteger(r) = LastRound(q4)
  BY DEF ReadVariableInteger, q4, q3, q2, q1, q0
<1> HIDE DEF q4
<1>13. Rounds(r, q4) BY <1>3, <1>5, <1>7, <1>9, <1>11 DEF Rounds
<1>14. CASE ~q4.ok
  <2>1. LastRound(q4) = q4 BY <1>14 DEF LastRound
  <2>2. ~Continues(q4) BY <1>14 DEF Continues
  <2> QED BY <1>10, <1>12, <2>1, <2>2 DEF Fits
<1>15. CASE q4.ok
  <2>1. LastRound(q4) = Finish(q4, q4.data0) BY <1>15 DEF LastRound
  <2>2. /\ Finish(q4, q4.data0).data0 = 0 /\ Finish(q4, q4.data0).data1 = 0
        /\ Finish(q4, q4.data0).ok = q4.ok /\ Finish(q4, q4.data0).ec = q4.ec
    BY <1>10, FinishSteps DEF Good
  <2>3. Continues(Finish(q4, q4.data0))
    BY <1>13, <1>15, <2>2 DEF Continues, Rounds
  <2> QED BY <1>12, <2>1, <2>2, <2>3
<1> QED BY <1>14, <1>15
-----------------------------------------------------------------------------
(* Writer: the bytes of a variable integer.                                *)
Variable == Below(268435456)

(* Each value has a length, and it is the only one that fits.              *)
LEMMA LengthOf ==
  ASSUME NEW v \in Variable
  PROVE  /\ VariableLength(v) \in 1 .. 4
         /\ v < 128 ^ VariableLength(v)
         /\ VariableLength(v) = 1 \/ v >= 128 ^ (VariableLength(v) - 1)
<1> DEFINE P(n) == v < 128 ^ n /\ (n = 1 \/ v >= 128 ^ (n - 1))
<1>1. \E n \in 1 .. 4 : P(n)
  <2>1. v \in Nat /\ v < 268435456 BY SMT DEF Variable, Below
  <2>2. CASE v < 128
    <3>1. v < 128 ^ 1 BY <2>2, Powers, SMT
    <3>2. 1 \in 1 .. 4 /\ P(1) BY <3>1, SMT
    <3> QED BY <3>2, Zenon
  <2>3. CASE v >= 128 /\ v < 16384
    <3>1. v < 128 ^ 2 /\ v >= 128 ^ (2 - 1) BY <2>3, Powers, SMT
    <3>2. 2 \in 1 .. 4 /\ P(2) BY <3>1, SMT
    <3> QED BY <3>2, Zenon
  <2>4. CASE v >= 16384 /\ v < 2097152
    <3>1. v < 128 ^ 3 /\ v >= 128 ^ (3 - 1) BY <2>4, Powers, SMT
    <3>2. 3 \in 1 .. 4 /\ P(3) BY <3>1, SMT
    <3> QED BY <3>2, Zenon
  <2>5. CASE v >= 2097152
    <3>1. v < 128 ^ 4 /\ v >= 128 ^ (4 - 1) BY <2>1, <2>5, Powers, SMT
    <3>2. 4 \in 1 .. 4 /\ P(4) BY <3>1, SMT
    <3> QED BY <3>2, Zenon
  <2> QED BY <2>1, <2>2, <2>3, <2>4, <2>5, SMT
<1>2. VariableLength(v) = CHOOSE n \in 1 .. 4 : P(n) BY DEF VariableLength
<1> HIDE DEF P
<1>3. VariableLength(v) \in 1 .. 4 /\ P(VariableLength(v))
  BY <1>1, <1>2, Zenon
<1> QED BY <1>3, Zenon DEF P

(* Seven bits of the value, from bit 7 k on.                               *)
Digit(v, k) == (v \div 128 ^ k) % 128

(* With the sum of those before they make the sum of one more byte.        *)
Adds(v, k) ==
  ((v % 128 ^ k) + Digit(v, k) * 128 ^ k) % WordMod = v % 128 ^ (k + 1)

(* They do, and the value's own length is reached with all of it.          *)
LEMMA Digits ==
  ASSUME NEW v \in Variable, NEW k \in 0 .. 3
  PROVE  /\ Digit(v, k) \in 0 .. 127 /\ Adds(v, k)
         /\ v < 128 ^ (k + 1) =>
              Digit(v, k) = v \div 128 ^ k /\ v % 128 ^ (k + 1) = v
<1>1. v \in Nat /\ v < 268435456 BY SMT DEF Variable, Below
<1>2. \A y \in Nat : y < 268435457 => y % WordMod = y
  <2>1. WordMod \in Nat /\ WordMod > 268435456
    BY GeneralAssumption, SMT DEF GeneralAssumption
  <2> QED BY <2>1, SMT
<1>3. CASE k = 0
  <2>1. 128 ^ k = 1 /\ 128 ^ (k + 1) = 128 BY <1>3, Powers, SMT
  <2>2. Digit(v, k) = v % 128 BY <1>1, <2>1, SMT DEF Digit
  <2>3. PICK y \in Nat : y = v % 128 /\ y < 128 BY <1>1, SMT
  <2>4. y % WordMod = y BY <1>2, <2>3, SMT
  <2>5. (v % 128 ^ k) + Digit(v, k) * 128 ^ k = y
    BY <1>1, <2>1, <2>2, <2>3, SMT
  <2>6. Adds(v, k) BY <2>1, <2>3, <2>4, <2>5, SMT DEF Adds
  <2> QED BY <1>1, <2>1, <2>2, <2>3, <2>6, SMT
<1>4. CASE k = 1
  <2>1. 128 ^ k = 128 /\ 128 ^ (k + 1) = 16384 BY <1>4, Powers, SMT
  <2>2. PICK a \in Nat, b \in Nat :
          /\ v = 128 * a + b
          /\ b < 128
          /\ a = v \div 128 /\ b = v % 128
    BY <1>1, SMT
  <2>3. PICK c \in Nat, d \in Nat :
          /\ a = 128 * c + d
          /\ d < 128
          /\ d = a % 128
    BY SMT
  <2>4. Digit(v, k) = d BY <2>1, <2>2, <2>3, SMT DEF Digit
  <2>5. v = 128 * a + b /\ b < 128 BY <2>2, SMT
  <2>6. a = 128 * c + d /\ d < 128 BY <2>3, Zenon
  <2>7. PICK y \in Nat : y = 128 * d + b /\ y < 16384
    BY <2>5, <2>6, SMT
  <2>8. v = 16384 * c + y
    <3>1. 128 * a = 16384 * c + 128 * d BY <2>6, SMT
    <3> QED BY <2>5, <2>7, <3>1, SMT
  <2>9. v % 16384 = y BY <2>7, <2>8, SMT
  <2>10. y % WordMod = y BY <1>2, <2>7, SMT
  <2>11. (v % 128 ^ k) + Digit(v, k) * 128 ^ k = y
    BY <2>1, <2>2, <2>4, <2>7, SMT
  <2>12. v < 16384 => c = 0 BY <2>8, SMT
  <2>13. v < 16384 => d = a /\ y = v BY <2>6, <2>8, <2>12, SMT
  <2>14. Digit(v, k) \in 0 .. 127 BY <2>4, <2>6
  <2>15. ((v % 128 ^ k) + Digit(v, k) * 128 ^ k) % WordMod = y
    BY <2>10, <2>11, Zenon
  <2>16. v % 128 ^ (k + 1) = y BY <2>1, <2>9, SMT
  <2>17. v < 128 ^ (k + 1) => Digit(v, k) = v \div 128 ^ k /\ y = v
    BY <2>1, <2>2, <2>4, <2>13, SMT
  <2> QED BY <2>14, <2>15, <2>16, <2>17, Zenon DEF Adds
<1>5. CASE k = 2
  <2>1. 128 ^ k = 16384 /\ 128 ^ (k + 1) = 2097152 BY <1>5, Powers, SMT
  <2>2. PICK a \in Nat, b \in Nat :
          /\ v = 16384 * a + b
          /\ b < 16384
          /\ a = v \div 16384 /\ b = v % 16384
    BY <1>1, SMT
  <2>3. PICK c \in Nat, d \in Nat :
          /\ a = 128 * c + d
          /\ d < 128
          /\ d = a % 128
    BY SMT
  <2>4. Digit(v, k) = d BY <2>1, <2>2, <2>3, SMT DEF Digit
  <2>5. v = 16384 * a + b /\ b < 16384 BY <2>2, SMT
  <2>6. a = 128 * c + d /\ d < 128 BY <2>3, Zenon
  <2>7. PICK y \in Nat : y = 16384 * d + b /\ y < 2097152
    BY <2>5, <2>6, SMT
  <2>8. v = 2097152 * c + y
    <3>1. 16384 * a = 2097152 * c + 16384 * d BY <2>6, SMT
    <3> QED BY <2>5, <2>7, <3>1, SMT
  <2>9. v % 2097152 = y BY <2>7, <2>8, SMT
  <2>10. y % WordMod = y BY <1>2, <2>7, SMT
  <2>11. (v % 128 ^ k) + Digit(v, k) * 128 ^ k = y
    BY <2>1, <2>2, <2>4, <2>7, SMT
  <2>12. v < 2097152 => c = 0 BY <2>8, SMT
  <2>13. v < 2097152 => d = a /\ y = v BY <2>6, <2>8, <2>12, SMT
  <2>14. Digit(v, k) \in 0 .. 127 BY <2>4, <2>6
  <2>15. ((v % 128 ^ k) + Digit(v, k) * 128 ^ k) % WordMod = y
    BY <2>10, <2>11, Zenon
  <2>16. v % 128 ^ (k + 1) = y BY <2>1, <2>9, SMT
  <2>17. v < 128 ^ (k + 1) => Digit(v, k) = v \div 128 ^ k /\ y = v
    BY <2>1, <2>2, <2>4, <2>13, SMT
  <2> QED BY <2>14, <2>15, <2>16, <2>17, Zenon DEF Adds
<1>6. CASE k = 3
  <2>1. 128 ^ k = 2097152 /\ 128 ^ (k + 1) = 268435456
    BY <1>6, Powers, SMT
  <2>2. PICK a \in Nat, b \in Nat :
          /\ v = 2097152 * a + b
          /\ b < 2097152
          /\ a = v \div 2097152 /\ b = v % 2097152
    BY <1>1, SMT
  <2>3. a < 128 BY <1>1, <2>2, SMT
  <2>4. Digit(v, k) = a BY <2>1, <2>2, <2>3, SMT DEF Digit
  <2>5. v % WordMod = v BY <1>1, <1>2, SMT
  <2>6. v % 268435456 = v BY <1>1, SMT
  <2>7. (v % 128 ^ k) + Digit(v, k) * 128 ^ k = v
    BY <2>1, <2>2, <2>4, SMT
  <2>8. Adds(v, k) BY <2>1, <2>5, <2>6, <2>7, SMT DEF Adds
  <2> QED BY <2>1, <2>2, <2>3, <2>4, <2>6, <2>8, SMT
<1> QED BY <1>3, <1>4, <1>5, <1>6, SMT

(* The bytes on the wire, of which only the last is below 128.             *)
LEMMA Encoded ==
  ASSUME NEW v \in Variable, NEW n, n = VariableLength(v),
         NEW w, w = WriteVariableInteger(v)
  PROVE  /\ n \in 1 .. 4 /\ w \in Seq(Byte) /\ Len(w) = n
         /\ \A k \in 0 .. n - 1 :
              /\ w[k + 1] \in 0 .. 255 /\ w[k + 1] % 128 = Digit(v, k)
              /\ w[k + 1] >= 128 <=> k + 1 < n
<1>1. n \in 1 .. 4 BY LengthOf
<1> DEFINE f(i) == Digit(v, i - 1) + (IF i < n THEN 128 ELSE 0)
<1>2. w = [i \in 1 .. n |-> f(i)] BY Zenon DEF WriteVariableInteger, Digit
<1>3. \A i \in 1 .. n : Digit(v, i - 1) \in 0 .. 127
  <2> TAKE i \in 1 .. n
  <2>1. i - 1 \in 0 .. 3 BY <1>1
  <2> QED BY <2>1, Digits
<1>4. \A i \in 1 .. n : f(i) \in Byte
  <2> TAKE i \in 1 .. n
  <2>1. PICK d \in 0 .. 127 : d = Digit(v, i - 1) BY <1>3
  <2> QED BY <2>1, SMTT(30) DEF Byte
<1>5. w \in [1 .. n -> Byte] BY <1>2, <1>4
<1>6. w \in Seq(Byte) BY <1>1, <1>5, SeqDef
<1>7. Len(w) = n
  <2>1. DOMAIN w = 1 .. n BY <1>5
  <2>2. DOMAIN w = 1 .. Len(w) /\ Len(w) \in Nat BY <1>6, LenProperties
  <2> QED BY <1>1, <2>1, <2>2
<1>8. ASSUME NEW k \in 0 .. n - 1
      PROVE  /\ w[k + 1] \in 0 .. 255 /\ w[k + 1] % 128 = Digit(v, k)
             /\ w[k + 1] >= 128 <=> k + 1 < n
  <2>1. k + 1 \in 1 .. n /\ (k + 1) - 1 = k BY <1>1
  <2>2. PICK d \in 0 .. 127 : d = Digit(v, k) BY <1>3, <2>1
  <2>3. w[k + 1] = d + (IF k + 1 < n THEN 128 ELSE 0) BY <1>2, <2>1, <2>2
  <2> QED BY <2>2, <2>3
<1> QED BY <1>1, <1>6, <1>7, <1>8

-----------------------------------------------------------------------------
(* The bytes w stand on the stream after its first s bytes.                *)
Spells(s, w) ==
  /\ s \in Nat /\ s + Len(w) <= Len(wire)
  /\ \A i \in 1 .. Len(w) : wire[s + i] = w[i]

(* Reader: the loop that reads a variable integer off these bytes.  k of   *)
(* the value's bytes are read: what a fixed header has left, the sum and   *)
(* the multiplier.                                                         *)
Partial(r, v, k, s) ==
  /\ Good(r) /\ r.good /\ r.ec = "none"
  /\ r.pos = s + k /\ r.remaining_size = 4 - k
  /\ r.data0 = v % 128 ^ k /\ r.data1 = 128 ^ k

(* It goes on from j as long as there are bytes, and ends at n.            *)
Halts(r, n, j) ==
  \/ r.ok /\ r.out >= 128 /\ r.pos < n /\ r.pos >= j
  \/ r.ok /\ r.out < 128 /\ r.pos = n
  \/ ~r.ok /\ r.pos < n /\ r.available = 0

(* After j rounds of the loop.                                             *)
Looped(r, v, j, s) ==
  /\ \E k \in 0 .. 4 : Partial(r, v, k, s)
  /\ Halts(r, s + VariableLength(v), s + j)

(* The multiplier does not overflow.                                       *)
LEMMA ShiftModulo ==
  ASSUME NEW k \in 0 .. 3
  PROVE  (128 ^ k * 128) % WordMod = 128 ^ (k + 1)
<1>1. k = 0 \/ k = 1 \/ k = 2 \/ k = 3 OBVIOUS
<1>2. 0 < 128 ^ k
  <2>1. /\ 0 < 128 ^ 0 /\ 0 < 128 ^ 1 /\ 0 < 128 ^ 2 /\ 0 < 128 ^ 3
    BY Powers, SMT
  <2> QED BY <1>1, <2>1, Zenon
<1>3. PICK d \in Nat : d < 128 ^ k BY <1>2, Zenon
<1>4. PICK x \in 0 .. 127 : TRUE OBVIOUS
<1> QED BY <1>3, <1>4, ShiftFits, Zenon

(* The byte after the first k brings the value's next seven bits.          *)
Carries(v, k, s, c) ==
  /\ s \in Nat /\ s + k + 1 <= Len(wire)
  /\ c = wire[s + k + 1] /\ c % 128 = Digit(v, k)

(* One byte is taken.                                                      *)
LEMMA ConsumeOne ==
  ASSUME NEW r, Good(r), r.good, 1 <= r.available, 1 <= r.remaining_size,
         r.pos + 1 <= Len(wire), NEW q, q = Consume(r, 1)
  PROVE  /\ Good(q) /\ q.data0 = r.data0 /\ q.data1 = r.data1
         /\ q.remaining_size = r.remaining_size - 1
         /\ q.available = r.available - 1 /\ q.pos = r.pos + 1
         /\ q.good = r.good
<1>1. 1 \in Nat /\ (1 > 0 => r.good) OBVIOUS
<1>2. /\ Reads(r, Consume(r, 1))
      /\ Consume(r, 1).available = r.available - 1
      /\ Consume(r, 1).remaining_size = r.remaining_size - 1
      /\ Consume(r, 1).pos = r.pos + 1
      /\ Consume(r, 1).data0 = r.data0
      /\ Consume(r, 1).data1 = r.data1
      /\ Consume(r, 1).good = r.good
  BY <1>1, ConsumeReads, Zenon
<1>3. Good(Consume(r, 1)) BY <1>2, Zenon DEF Reads
<1> QED BY <1>2, <1>3, Zenon

(* A round adds them to the sum.                                           *)
LEMMA AccumulatePartial ==
  ASSUME NEW v \in Variable, NEW r, NEW s, NEW k \in 0 .. 3,
         Partial(r, v, k, s), r.available # 0, NEW c, Carries(v, k, s, c),
         NEW q, q = Accumulate(Consume(r, 1), c), NEW m, m = k + 1
  PROVE  /\ Partial(q, v, m, s) /\ q.available = r.available - 1
         /\ q.ok = r.ok /\ q.out = c
<1>1. /\ r \in ClientState /\ Good(r) /\ r.good /\ r.pos = s + k
      /\ r.ec = "none" /\ r.remaining_size = 4 - k
  BY Zenon DEF Partial, Good
<1>2. /\ r.available \in Nat /\ r.remaining_size \in Nat /\ r.pos \in Nat
  BY <1>1, Fields
<1>3. c \in 0 .. 255 /\ r.pos + 1 <= Len(wire)
  <2>1. Good(r) /\ r.pos + 1 <= Len(wire) BY <1>1 DEF Carries
  <2>2. wire[r.pos + 1] \in 0 .. 255 BY <2>1, WireByte
  <2> QED BY <1>1, <2>1, <2>2 DEF Carries
<1> DEFINE p == Consume(r, 1)
<1>4. 1 <= r.available /\ 1 <= r.remaining_size /\ r.pos + 1 <= Len(wire)
  BY <1>1, <1>2, <1>3
<1>5. /\ Good(p) /\ p.data0 = r.data0 /\ p.data1 = r.data1
      /\ p.remaining_size = r.remaining_size - 1
      /\ p.available = r.available - 1 /\ p.pos = r.pos + 1
      /\ p.good = r.good
  BY <1>1, <1>4, ConsumeOne, Zenon
<1>6. p.ok = r.ok /\ p.ec = r.ec BY <1>1, Zenon DEF Consume, ClientState
<1>7. p \in ClientState BY <1>5 DEF Good
<1>8. Good(q) /\ q = Accumulate(p, c)
  <2>1. q = Accumulate(p, c) OBVIOUS
  <2> HIDE DEF p
  <2>2. Good(Accumulate(p, c)) BY <1>3, <1>5, AccumulateReads DEF Reads
  <2> QED BY <2>1, <2>2
<1> HIDE DEF p
<1>9. /\ q.data0 = (p.data0 + (c % 128) * p.data1) % WordMod
      /\ q.data1 = (p.data1 * 128) % WordMod
      /\ q.out = c
  <2> DEFINE b == Accumulate(p, c)
  <2>1. /\ b.data0 = (p.data0 + (c % 128) * p.data1) % WordMod
        /\ b.data1 = (p.data1 * 128) % WordMod
        /\ b.out = c
    BY <1>7, Zenon DEF Accumulate, ClientState
  <2>2. q = b BY <1>8
  <2> HIDE DEF b
  <2> QED BY <2>1, <2>2, Zenon
<1>20. /\ q.remaining_size = p.remaining_size /\ q.available = p.available
       /\ q.pos = p.pos
  BY <1>7, <1>8, ZenonT(30) DEF Accumulate, ClientState
<1>21. q.good = p.good /\ q.ok = p.ok /\ q.ec = p.ec
  BY <1>7, <1>8, ZenonT(30) DEF Accumulate, ClientState
<1>10. PICK x \in 0 .. 127 : x = Digit(v, k) BY Digits
<1>11. PICK d \in Nat : d = r.data0 /\ d = v % 128 ^ k
  <2>1. r.data0 \in Nat BY <1>1, Fields
  <2> QED BY <2>1, Zenon DEF Partial
<1>12. q.data0 = (d + x * 128 ^ k) % WordMod
  <2>1. c % 128 = x BY <1>10 DEF Carries
  <2>2. p.data1 = 128 ^ k BY <1>5, Zenon DEF Partial
  <2> QED BY <1>5, <1>9, <1>11, <2>1, <2>2, ZenonT(30)
<1>13. (d + x * 128 ^ k) % WordMod = v % 128 ^ (k + 1)
  <2>1. Adds(v, k) BY Digits
  <2> QED BY <1>10, <1>11, <2>1, Zenon DEF Adds
<1>14. q.data1 = (128 ^ k * 128) % WordMod
  <2>1. p.data1 = 128 ^ k BY <1>5, Zenon DEF Partial
  <2> QED BY <1>9, <2>1, Zenon
<1>15. (128 ^ k * 128) % WordMod = 128 ^ (k + 1) BY ShiftModulo
<1>16. q.pos = s + (k + 1) /\ q.remaining_size = 4 - (k + 1)
  <2>1. s \in Nat BY DEF Carries
  <2> QED BY <1>1, <1>5, <1>20, <2>1
<1>17. q.good /\ q.ec = "none" BY <1>1, <1>5, <1>6, <1>21, Zenon
<1>18. Partial(q, v, k + 1, s)
  BY <1>8, <1>12, <1>13, <1>14, <1>15, <1>16, <1>17, Zenon DEF Partial
<1>19. q.available = r.available - 1 /\ q.ok = r.ok /\ q.out = c
  BY <1>5, <1>6, <1>9, <1>20, <1>21, Zenon
<1> QED BY <1>18, <1>19

(* The bytes of a variable integer where they stand.                       *)
LEMMA Spelled ==
  ASSUME NEW v \in Variable, NEW s, Spells(s, WriteVariableInteger(v)),
         NEW n, n = VariableLength(v)
  PROVE  /\ n \in 1 .. 4 /\ s \in Nat /\ s + n <= Len(wire)
         /\ \A i \in 0 .. n - 1 :
              /\ Carries(v, i, s, wire[s + i + 1])
              /\ wire[s + i + 1] \in 0 .. 255
              /\ wire[s + i + 1] >= 128 <=> i + 1 < n
<1> DEFINE w == WriteVariableInteger(v)
<1>1. /\ n \in 1 .. 4 /\ w \in Seq(Byte) /\ Len(w) = n
      /\ \A i \in 0 .. n - 1 :
           /\ w[i + 1] \in 0 .. 255 /\ w[i + 1] % 128 = Digit(v, i)
           /\ w[i + 1] >= 128 <=> i + 1 < n
  BY Encoded
<1> HIDE DEF w
<1>2. /\ s \in Nat /\ s + n <= Len(wire)
      /\ \A i \in 1 .. n : wire[s + i] = w[i]
  BY <1>1 DEF Spells, w
<1>3. ASSUME NEW i \in 0 .. n - 1
      PROVE  /\ Carries(v, i, s, wire[s + i + 1])
             /\ wire[s + i + 1] \in 0 .. 255
             /\ wire[s + i + 1] >= 128 <=> i + 1 < n
  <2>1. i + 1 \in 1 .. n /\ s + (i + 1) = s + i + 1 BY <1>1, <1>2
  <2>2. wire[s + i + 1] = w[i + 1] BY <1>2, <2>1
  <2>3. /\ w[i + 1] \in 0 .. 255 /\ w[i + 1] % 128 = Digit(v, i)
        /\ w[i + 1] >= 128 <=> i + 1 < n
    BY <1>1, Zenon
  <2>4. s + i + 1 <= Len(wire)
    <3>1. PICK m : m = Len(wire) OBVIOUS
    <3> QED BY <1>1, <1>2, <2>1, <3>1
  <2>5. Carries(v, i, s, wire[s + i + 1])
    BY <1>2, <2>2, <2>3, <2>4, Zenon DEF Carries
  <2> QED BY <2>2, <2>3, <2>5, Zenon
<1> QED BY <1>1, <1>2, <1>3, Zenon

(* A round keeps to the loop.                                              *)
LEMMA VariableByteLooped ==
  ASSUME NEW v \in Variable, NEW s, Spells(s, WriteVariableInteger(v)),
         NEW j \in 0 .. 3, NEW r, Looped(r, v, j, s)
  PROVE  Looped(VariableByte(r), v, j + 1, s)
<1> DEFINE n == VariableLength(v)
<1>1. PICK k \in 0 .. 4 : Partial(r, v, k, s) BY DEF Looped
<1>2. /\ n \in 1 .. 4 /\ s \in Nat /\ s + n <= Len(wire)
      /\ \A i \in 0 .. n - 1 :
           /\ Carries(v, i, s, wire[s + i + 1]) /\ wire[s + i + 1] \in 0 .. 255
           /\ wire[s + i + 1] >= 128 <=> i + 1 < n
  BY Spelled, ZenonT(30)
<1>3. Halts(r, s + n, s + j) BY DEF Looped
<1> HIDE DEF n
<1>4. /\ Good(r) /\ r.good /\ r.pos = s + k /\ r.remaining_size = 4 - k
      /\ r \in ClientState
  BY <1>1, Zenon DEF Partial, Good
<1>5. r.available \in Nat /\ r.out \in Nat /\ r.ok \in BOOLEAN
  BY <1>4, Fields
<1>6. CASE ~r.ok \/ r.out < 128
  <2>1. VariableByte(r) = r BY <1>6, ZenonT(30) DEF VariableByte
  <2>2. Halts(r, s + n, s + (j + 1)) BY <1>3, <1>5, <1>6 DEF Halts
  <2>3. Looped(r, v, j + 1, s) BY <1>1, <2>2, Zenon DEF Looped, n
  <2> QED BY <2>1, <2>3
<1>7. CASE r.ok /\ r.out >= 128
  <2>1. k < n /\ k >= j BY <1>2, <1>3, <1>4, <1>5, <1>7 DEF Halts
  <2>2. k \in 0 .. 3 /\ k \in 0 .. n - 1 BY <1>2, <2>1
  <2>3. CASE r.available = 0
    <3> DEFINE q == Wait(r)
    <3>1. VariableByte(r) = q
      <4>1. ~(~r.ok \/ r.out < 128) BY <1>5, <1>7
      <4> QED BY <2>3, <4>1, ZenonT(30) DEF VariableByte
    <3>2. Good(q) BY <1>4, <2>3, WaitReads DEF Reads
    <3>3. /\ q.pos = r.pos /\ q.available = r.available /\ ~q.ok
          /\ q.good = r.good /\ q.ec = r.ec
          /\ q.remaining_size = r.remaining_size
          /\ q.data0 = r.data0 /\ q.data1 = r.data1
      BY <1>4 DEF Wait, ClientState
    <3> HIDE DEF q
    <3>4. Partial(q, v, k, s) BY <1>1, <3>2, <3>3, Zenon DEF Partial
    <3>6. Halts(q, s + n, s + (j + 1))
      BY <1>2, <1>4, <2>1, <2>3, <3>3 DEF Halts
    <3> QED BY <3>1, <3>4, <3>6, Zenon DEF Looped, n
  <2>4. CASE r.available # 0
    <3> DEFINE c == wire[s + k + 1]
               q == Accumulate(Consume(r, 1), c)
    <3>1. PICK b \in 0 .. 255 : b = c /\ (b >= 128 <=> k + 1 < n)
      BY <1>2, <2>2, ZenonT(30)
    <3>2. Carries(v, k, s, c) BY <1>2, <2>2, Zenon
    <3>3. /\ Partial(q, v, k + 1, s) /\ q.available = r.available - 1
          /\ q.ok = r.ok /\ q.out = c
      <4>1. PICK m : m = k + 1 OBVIOUS
      <4>2. /\ k \in 0 .. 3 /\ Partial(r, v, k, s) /\ r.available # 0
        BY <1>1, <2>2, <2>4
      <4>3. PICK u : u = q OBVIOUS
      <4>4. PICK d : d = c OBVIOUS
      <4>5. Carries(v, k, s, d) /\ u = Accumulate(Consume(r, 1), d)
        BY <3>2, <4>3, <4>4, Zenon
      <4>6. /\ Partial(u, v, m, s) /\ u.available = r.available - 1
            /\ u.ok = r.ok /\ u.out = d
        BY <4>1, <4>2, <4>5, AccumulatePartial, SMT
      <4> QED BY <4>1, <4>3, <4>4, <4>6, Zenon
    <3>9. c = wire[r.pos + 1] BY <1>4
    <3> HIDE DEF q
    <3>4. q.data1 = 128 ^ (k + 1) /\ q.pos = s + (k + 1)
      BY <3>3, Zenon DEF Partial
    <3>5. ~(q.data1 > 128 * 128 * 128 /\ c >= 128)
      <4>1. CASE k + 1 < n
        <5>1. k = 0 \/ k = 1 \/ k = 2 BY <1>2, <2>2, <4>1
        <5>2. ~(128 ^ (k + 1) > 128 * 128 * 128)
          <6>1. CASE k = 0 BY <6>1, Powers, SMT
          <6>2. CASE k = 1 BY <6>2, Powers, SMT
          <6>3. CASE k = 2 BY <6>3, Powers, SMT
          <6> QED BY <5>1, <6>1, <6>2, <6>3
        <5> QED BY <3>4, <5>2
      <4>2. CASE ~(k + 1 < n) BY <3>1, <4>2
      <4> QED BY <4>1, <4>2
    <3>6. VariableByte(r) = q
      <4>1. Got(r, 1) = 1
        <5>1. s + k + 1 <= Len(wire) BY <3>2 DEF Carries
        <5> QED BY <1>2, <1>4, <5>1 DEF Got, StdMin, Good
      <4>2. r.remaining_size # 0 BY <1>4, <2>2
      <4>3. ~(~r.ok \/ r.out < 128) BY <1>5, <1>7
      <4> DEFINE d == wire[r.pos + 1]
                 u == Accumulate(Consume(r, 1), d)
      <4>4. VariableByte(r) = IF u.data1 > 128 * 128 * 128 /\ d >= 128
                              THEN Fail(u, "bad_remaining_size") ELSE u
        BY <2>4, <4>1, <4>2, <4>3, ZenonT(30) DEF VariableByte
      <4>5. u = q /\ d = c BY <3>9, Zenon DEF q
      <4> HIDE DEF u, d, c
      <4> QED BY <3>5, <4>4, <4>5, Zenon
    <3>8. Halts(q, s + n, s + (j + 1))
      <4>1. CASE k + 1 < n
        BY <1>2, <1>7, <2>1, <3>1, <3>3, <3>4, <4>1 DEF Halts
      <4>2. CASE ~(k + 1 < n)
        BY <1>2, <1>7, <2>1, <3>1, <3>3, <3>4, <4>2 DEF Halts
      <4> QED BY <4>1, <4>2
    <3>10. k + 1 \in 0 .. 4 BY <2>2
    <3> QED BY <3>3, <3>6, <3>8, <3>10, Zenon DEF Looped, n
  <2> QED BY <2>3, <2>4
<1> QED BY <1>5, <1>6, <1>7

-----------------------------------------------------------------------------
(* The element is complete: what it is, where it ends and what is left.    *)
Done(r, v, e, m) ==
  /\ Good(r) /\ r.good /\ r.ok /\ r.ec = "none"
  /\ r.out = v /\ r.pos = e /\ r.remaining_size = m
  /\ r.data0 = 0 /\ r.data1 = 0

(* Some, not all, of a variable integer's bytes have been read; a          *)
(* multiplier of 0 stands for one of 1.                                    *)
Half(r, v, s) ==
  /\ r.pos < s + VariableLength(v)
  /\ \/ \E k \in 0 .. 3 : Partial(r, v, k, s)
     \/ /\ Good(r) /\ r.good /\ r.ec = "none"
        /\ r.pos = s /\ r.remaining_size = 4 /\ r.data0 = 0 /\ r.data1 = 0

(* Either the value is there or all that was available has been read.      *)
LEMMA ReadVariableIntegerBack ==
  ASSUME NEW v \in Variable, NEW s, Spells(s, WriteVariableInteger(v)),
         NEW r, Half(r, v, s), r.ok, NEW n, n = VariableLength(v),
         NEW q, q = ReadVariableInteger(r)
  PROVE  \/ Done(q, v, s + n, 4 - n)
         \/ Half(q, v, s) /\ ~q.ok /\ q.available = 0
<1>1. n \in 1 .. 4 /\ s \in Nat BY Spelled
<1> DEFINE q0 == FirstRound(r)
           q1 == VariableByte(q0)
           q2 == VariableByte(q1)
           q3 == VariableByte(q2)
           q4 == VariableByte(q3)
<1>2. Good(r) /\ r \in ClientState BY Zenon DEF Half, Partial, Good
<1>3. Looped(q0, v, 0, s)
  <2>1. /\ q0.pos = r.pos /\ q0.available = r.available /\ q0.ok = r.ok
        /\ q0.good = r.good /\ q0.ec = r.ec
        /\ q0.remaining_size = r.remaining_size /\ q0.data0 = r.data0
        /\ q0.data1 = (IF r.data1 = 0 THEN 1 ELSE r.data1)
        /\ q0.out = 128
    BY <1>2 DEF FirstRound, ClientState
  <2>2. Good(q0) BY <1>2, FirstRoundReads DEF Reads
  <2> HIDE DEF q0
  <2>3. \E k \in 0 .. 4 : Partial(q0, v, k, s)
    <3>1. ASSUME NEW k \in 0 .. 3, Partial(r, v, k, s)
          PROVE  Partial(q0, v, k, s)
      <4>1. r.data1 = 128 ^ k BY <3>1, Zenon DEF Partial
      <4>2. 128 ^ k # 0
        <5>1. k = 0 \/ k = 1 \/ k = 2 \/ k = 3 OBVIOUS
        <5>2. 128 ^ 0 # 0 /\ 128 ^ 1 # 0 /\ 128 ^ 2 # 0 /\ 128 ^ 3 # 0
          BY Powers, SMT
        <5> QED BY <5>1, <5>2, Zenon
      <4>3. q0.data1 = r.data1 BY <2>1, <4>1, <4>2
      <4> QED BY <2>1, <2>2, <3>1, <4>3, Zenon DEF Partial
    <3>2. CASE /\ Good(r) /\ r.good /\ r.ec = "none"
               /\ r.pos = s /\ r.remaining_size = 4
               /\ r.data0 = 0 /\ r.data1 = 0
      <4>1. q0.data1 = 128 ^ 0 BY <2>1, <3>2, Powers, SMT
      <4>2. q0.data0 = v % 128 ^ 0
        <5>1. v \in Nat BY SMT DEF Variable, Below
        <5>2. v % 1 = 0 BY <5>1, SMT
        <5> QED BY <2>1, <3>2, <5>2, Powers, SMT
      <4>3. q0.pos = s + 0 /\ q0.remaining_size = 4 - 0 BY <1>1, <2>1, <3>2
      <4>4. q0.good /\ q0.ec = "none" BY <2>1, <3>2, Zenon
      <4>5. Partial(q0, v, 0, s)
        BY <2>2, <4>1, <4>2, <4>3, <4>4, Zenon DEF Partial
      <4> QED BY <4>5
    <3>3. \A k \in 0 .. 3 : k \in 0 .. 4 OBVIOUS
    <3> QED BY <3>1, <3>2, <3>3, Zenon DEF Half
  <2>4. r.pos < s + n BY DEF Half
  <2>5. r.pos \in Nat /\ r.pos >= s
    <3>1. r.pos \in Nat BY <1>2, Fields
    <3>2. \A k \in 0 .. 3 : Partial(r, v, k, s) => r.pos = s + k
      BY Zenon DEF Partial
    <3>3. \A k \in 0 .. 3 : s + k >= s BY <1>1
    <3>4. s >= s BY <1>1
    <3> QED BY <3>1, <3>2, <3>3, <3>4, Zenon DEF Half
  <2>6. r.ok /\ q0.ok = r.ok /\ q0.pos = r.pos /\ q0.out >= 128
    <3>1. q0.out >= 128 BY <2>1, SMT
    <3> QED BY <2>1, <3>1, Zenon
  <2>7. Halts(q0, s + n, s + 0) BY <1>1, <2>4, <2>5, <2>6 DEF Halts
  <2> QED BY <2>3, <2>7, Zenon DEF Looped
<1> HIDE DEF q0
<1>4. Looped(q1, v, 1, s)
  <2>1. Looped(q1, v, 0 + 1, s) BY <1>3, VariableByteLooped
  <2> QED BY <2>1
<1> HIDE DEF q1
<1>5. Looped(q2, v, 2, s)
  <2>1. Looped(q2, v, 1 + 1, s) BY <1>4, VariableByteLooped
  <2> QED BY <2>1
<1> HIDE DEF q2
<1>6. Looped(q3, v, 3, s)
  <2>1. Looped(q3, v, 2 + 1, s) BY <1>5, VariableByteLooped
  <2> QED BY <2>1
<1> HIDE DEF q3
<1>7. Looped(q4, v, 4, s)
  <2>1. Looped(q4, v, 3 + 1, s) BY <1>6, VariableByteLooped
  <2> QED BY <2>1
<1>8. q = LastRound(q4)
  BY DEF ReadVariableInteger, q4, q3, q2, q1, q0
<1> HIDE DEF q4
<1>9. PICK k \in 0 .. 4 : Partial(q4, v, k, s) BY <1>7 DEF Looped
<1>10. /\ Good(q4) /\ q4.pos = s + k /\ q4.good /\ q4.ec = "none"
       /\ q4.remaining_size = 4 - k
  BY <1>9, Zenon DEF Partial
<1>11. \/ q4.ok /\ k = n
       \/ ~q4.ok /\ k < n /\ q4.available = 0
  <2>1. Halts(q4, s + n, s + 4) BY <1>7, Zenon DEF Looped
  <2> QED BY <1>1, <1>10, <2>1 DEF Halts
<1>12. CASE q4.ok /\ k = n
  <2>1. q4.data0 = v
    <3>1. k \in 1 .. 4 /\ v < 128 ^ k BY <1>1, <1>12, LengthOf
    <3>2. PICK i \in 0 .. 3 : k = i + 1
      <4>1. k - 1 \in 0 .. 3 /\ k = (k - 1) + 1 BY <3>1
      <4> QED BY <4>1
    <3>3. v % 128 ^ (i + 1) = v BY <3>1, <3>2, Digits, Zenon
    <3> QED BY <1>9, <3>2, <3>3, Zenon DEF Partial
  <2>2. q = Finish(q4, v) BY <1>8, <1>12, <2>1 DEF LastRound
  <2>3. v \in Nat BY SMT DEF Variable, Below
  <2>4. Good(q) /\ q.out = v BY <1>10, <2>2, <2>3, FinishReads DEF Reads
  <2>5. q4 \in ClientState BY <1>10 DEF Good
  <2>6. /\ q.data0 = 0 /\ q.data1 = 0 /\ q.ec = q4.ec /\ q.ok = q4.ok
        /\ q.remaining_size = q4.remaining_size
    BY <2>2, <2>5, FinishSteps
  <2>7. q.pos = q4.pos /\ q.good = q4.good
    BY <2>2, <2>5 DEF Finish, ClientState
  <2>8. q.pos = s + n /\ q.remaining_size = 4 - n
    BY <1>10, <1>12, <2>6, <2>7, Zenon
  <2>9. q.good /\ q.ok /\ q.ec = "none" BY <1>10, <1>12, <2>6, <2>7, Zenon
  <2> QED BY <2>4, <2>6, <2>8, <2>9, Zenon DEF Done
<1>13. CASE ~q4.ok /\ k < n /\ q4.available = 0
  <2>1. q = q4 BY <1>8, <1>13 DEF LastRound
  <2>2. k \in 0 .. 3 BY <1>1, <1>13
  <2>3. q.pos < s + n BY <1>1, <1>10, <1>13, <2>1
  <2> QED BY <1>9, <1>13, <2>1, <2>2, <2>3, Zenon DEF Half
<1> QED BY <1>11, <1>12, <1>13

-----------------------------------------------------------------------------
(* The same of a 16-bit integer, the high byte of which may be stored; m   *)
(* bytes of the packet were left before it.                                *)
HalfShort(r, v, s, m) ==
  /\ Good(r) /\ r.good /\ r.ec = "none"
  /\ r.data0 \in {0, 1}
  /\ r.pos = s + r.data0 /\ r.remaining_size = m - r.data0
  /\ r.data1 = (IF r.data0 = 0 THEN 0 ELSE v \div 256)

(* What the client makes of the two bytes, and the low bytes that a plain  *)
(* char holds without a sign, so that it makes the right thing of them.    *)
Received(v) == Uint16((v \div 256) + 256 * (v % 256))
Unsigned(v) == CharSigned => v % 256 < 128

(* The two bytes of such a value.                                          *)
LEMMA ShortBytes ==
  ASSUME NEW v \in Short, NEW w, w = WriteUint16(v)
  PROVE  /\ w \in Seq(Byte) /\ Len(w) = 2
         /\ w[1] = v \div 256 /\ w[2] = v % 256
         /\ v \div 256 \in 0 .. 255 /\ v % 256 \in 0 .. 255
         /\ Received(v) \in Nat /\ (Unsigned(v) => Received(v) = v)
<1>1. v \in Nat /\ v < 65536 BY SMT DEF Short, Below
<1>2. /\ v \div 256 \in 0 .. 255 /\ v % 256 \in 0 .. 255
      /\ v = 256 * (v \div 256) + (v % 256)
  BY <1>1, SMT
<1>7. PICK a \in 0 .. 255 : a = v \div 256 BY <1>2, Zenon
<1>8. PICK b \in 0 .. 255 : b = v % 256 BY <1>2, Zenon
<1>3. w = <<a, b>> BY <1>7, <1>8 DEF WriteUint16
<1>4. w \in Seq(Byte) /\ Len(w) = 2 /\ w[1] = a /\ w[2] = b
  BY <1>3 DEF Byte
<1>5. (a + 256 * b) % 256 = a /\ (a + 256 * b) \div 256 = b /\ b % 256 = b
  OBVIOUS
<1>6. Unsigned(v) => Uint16(a + 256 * b) = v
  BY <1>2, <1>5, <1>7, <1>8 DEF Unsigned, Uint16
<1>9. Uint16(a + 256 * b) \in Nat BY <1>5 DEF Uint16
<1>10. Received(v) = Uint16(a + 256 * b) BY <1>7, <1>8, Zenon DEF Received
<1> QED BY <1>2, <1>4, <1>6, <1>7, <1>8, <1>9, <1>10

(* What a round takes of them.                                             *)
LEMMA FillShort ==
  ASSUME NEW v \in Short, NEW s, Spells(s, WriteUint16(v)),
         NEW m \in Nat, m >= 2,
         NEW r, HalfShort(r, v, s, m), NEW n \in {1, 2}, n <= 2 - r.data0,
         n <= r.available, NEW q, q = Fill(r, n, n)
  PROVE  /\ Good(q) /\ q.good /\ q.ec = "none"
         /\ q.pos = r.pos + n /\ q.available = r.available - n
         /\ q.remaining_size = r.remaining_size - n /\ q.data0 = r.data0 + n
         /\ q.data0 = 1 => q.data1 = v \div 256
         /\ q.data0 = 2 => q.data1 = (v \div 256) + 256 * (v % 256)
<1>1. /\ Good(r) /\ r.good /\ r.ec = "none" /\ r.data0 \in {0, 1}
      /\ r.pos = s + r.data0 /\ r.remaining_size = m - r.data0
      /\ r.data1 = (IF r.data0 = 0 THEN 0 ELSE v \div 256)
  BY DEF HalfShort
<1>2. r \in ClientState /\ r.pos \in Nat /\ r.available \in Nat
  BY <1>1, Fields DEF Good
<1>3. /\ s \in Nat /\ s + 2 <= Len(wire)
      /\ wire[s + 1] = v \div 256 /\ wire[s + 2] = v % 256
      /\ v \div 256 \in 0 .. 255 /\ v % 256 \in 0 .. 255
  <2>1. PICK w : w = WriteUint16(v) OBVIOUS
  <2>2. /\ Len(w) = 2 /\ w[1] = v \div 256 /\ w[2] = v % 256
        /\ v \div 256 \in 0 .. 255 /\ v % 256 \in 0 .. 255
    BY <2>1, ShortBytes
  <2>3. Spells(s, w) BY <2>1
  <2> QED BY <2>2, <2>3 DEF Spells
<1>4. r.pos + n <= Len(wire) /\ Len(wire) \in Nat
  <2>1. Len(wire) \in Nat BY <1>1 DEF Good
  <2> QED BY <1>1, <1>2, <1>3, <2>1
<1>5. /\ Reads(r, Fill(r, n, n))
      /\ Fill(r, n, n).available = r.available - n
  <2>1. /\ n \in {0, 1, 2} /\ n <= r.available /\ n <= r.remaining_size
        /\ n <= 2 - r.data0
    BY <1>1, <1>2
  <2> QED BY <1>1, <1>4, <2>1, FillReads
<1>6. /\ q.pos = r.pos + n /\ q.good = (r.good /\ n = n)
      /\ q.data0 = (r.data0 + n) % WordMod /\ q.ec = r.ec
  BY <1>1, <1>4, FillGood
<1>7. /\ q.remaining_size = (r.remaining_size - n) % WordMod
      /\ q.data1 = Store(r, n)
  <2> DEFINE u == Fill(r, n, n)
  <2>1. u.remaining_size = (r.remaining_size - n) % WordMod
    BY <1>2, Zenon DEF Fill, ClientState
  <2>2. u.data1 = Store(r, n)
    BY <1>2, Zenon DEF Fill, ClientState
  <2> HIDE DEF u
  <2>3. q = u BY DEF u
  <2> QED BY <2>1, <2>2, <2>3
<1>8. \A x \in Words : x % WordMod = x
  <2>1. WordMod \in Nat /\ WordMod > 0 BY Widths
  <2> QED BY <2>1 DEF Words, Below
<1>9. q.data0 = r.data0 + n /\ q.remaining_size = r.remaining_size - n
  <2>1. r.data0 + n \in Words BY <1>1, Widths DEF Words, Below
  <2>2. r.remaining_size - n \in Words
    <3>1. r.remaining_size \in Below(WordMod) BY <1>2, Fields
    <3>2. n <= r.remaining_size /\ n \in Nat BY <1>1
    <3>3. WordMod \in Nat BY Widths
    <3> QED BY <3>1, <3>2, <3>3, Subtract DEF Words
  <2> QED BY <1>6, <1>7, <1>8, <2>1, <2>2, Zenon
<1>10. Good(q) BY <1>5 DEF Reads
<1>11. ASSUME q.data0 = 1 PROVE q.data1 = v \div 256
  <2>1. r.data0 = 0 /\ n = 1 BY <1>1, <1>9, <1>11
  <2>2. Store(r, n) = Put(0, 0, v \div 256) BY <1>1, <1>3, <2>1 DEF Store
  <2>3. PICK x \in 0 .. 255 : x = v \div 256 BY <1>3, Zenon
  <2>4. Put(0, 0, x) = x BY DEF Put
  <2> QED BY <1>7, <2>2, <2>3, <2>4
<1>12. ASSUME q.data0 = 2 PROVE q.data1 = (v \div 256) + 256 * (v % 256)
  <2>1. CASE n = 2
    <3>1. r.data0 = 0 BY <1>1, <1>9, <1>12, <2>1
    <3>2. r.pos = s BY <1>1, <1>3, <3>1
    <3> QED BY <1>3, <1>7, <2>1, <3>2 DEF Store
  <2>2. CASE n = 1
    <3>1. r.data0 = 1 BY <1>1, <1>9, <1>12, <2>2
    <3>2. r.pos + 1 = s + 2 BY <1>1, <1>3, <3>1
    <3>3. Store(r, n) = Put(v \div 256, 1, v % 256)
      BY <1>1, <1>3, <2>2, <3>1, <3>2 DEF Store
    <3>4. PICK x \in 0 .. 255 : x = v \div 256 BY <1>3, Zenon
    <3>5. PICK y \in 0 .. 255 : y = v % 256 BY <1>3, Zenon
    <3>6. Put(x, 1, y) = x + 256 * y BY DEF Put
    <3> QED BY <1>7, <3>3, <3>4, <3>5, <3>6
  <2> QED BY <2>1, <2>2
<1>13. q.good /\ q.ec = "none" BY <1>1, <1>6, Zenon
<1> QED BY <1>5, <1>6, <1>9, <1>10, <1>11, <1>12, <1>13

(* Either the value is there or all that was available has been stored.    *)
LEMMA ReadUint16Back ==
  ASSUME NEW v \in Short, NEW s, Spells(s, WriteUint16(v)),
         NEW m \in Nat, m >= 2, NEW r, HalfShort(r, v, s, m), r.ok,
         r.available < SizeMod \div 2, NEW q, q = ReadUint16(r)
  PROVE  \/ Done(q, Received(v), s + 2, m - 2)
         \/ HalfShort(q, v, s, m) /\ ~q.ok /\ q.available = 0
<1>1. /\ Good(r) /\ r.good /\ r.ec = "none" /\ r.data0 \in {0, 1}
      /\ r.pos = s + r.data0 /\ r.remaining_size = m - r.data0
      /\ r.data1 = (IF r.data0 = 0 THEN 0 ELSE v \div 256)
  BY DEF HalfShort
<1>2. /\ r \in ClientState /\ r.pos \in Nat /\ r.available \in Nat
      /\ r.remaining_size \in Nat
  BY <1>1, Fields DEF Good
<1>3. /\ s \in Nat /\ s + 2 <= Len(wire) /\ Len(wire) \in Nat
  <2>1. PICK w : w = WriteUint16(v) OBVIOUS
  <2>2. Len(w) = 2 BY <2>1, ShortBytes
  <2>3. Spells(s, w) BY <2>1
  <2>4. Len(wire) \in Nat BY <1>1 DEF Good
  <2> QED BY <2>2, <2>3, <2>4 DEF Spells
<1> DEFINE rest == (2 - r.data0) % WordMod
           n == StdMin(rest, Signed(r.available))
           got == IF n < 0 THEN 0 ELSE Got(r, n)
           u == Fill(r, n, got)
<1>5. q = IF r.available = 0 THEN Wait(r)
          ELSE IF r.remaining_size < rest
               THEN Fail(r, "bad_remaining_size")
          ELSE IF ~u.good THEN Fail(u, "io_error")
          ELSE IF u.data0 # 2 THEN Wait(u)
          ELSE Finish(u, Uint16(u.data1))
  BY DEF ReadUint16
<1>rest. rest = 2 - r.data0
  <2>1. r.data0 \in Below(WordMod) BY <1>2, Fields
  <2> QED BY <1>1, <2>1, RestRange
<1> HIDE DEF rest
<1>6. CASE r.available = 0
  <2>1. q = Wait(r) BY <1>5, <1>6
  <2>2. Good(q) BY <1>1, <1>6, <2>1, WaitReads DEF Reads
  <2>3. /\ q.pos = r.pos /\ q.available = r.available /\ q.good = r.good
        /\ q.ec = r.ec /\ q.remaining_size = r.remaining_size
        /\ q.data0 = r.data0 /\ q.data1 = r.data1 /\ q.ok = FALSE
    BY <1>2, <2>1 DEF Wait, ClientState
  <2>4. HalfShort(q, v, s, m) BY <1>1, <2>2, <2>3 DEF HalfShort
  <2>5. ~q.ok /\ q.available = 0 BY <1>6, <2>3
  <2> QED BY <2>4, <2>5
<1>7. CASE r.available # 0
  <2>1. n \in {1, 2} /\ n <= r.available /\ n <= 2 - r.data0
        /\ (n = r.available \/ n = 2 - r.data0)
    <3>1. Signed(r.available) = r.available
      <4>1. SizeMod \div 2 \in Int BY Widths
      <4> QED BY <1>2, <4>1 DEF Signed
    <3> QED BY <1>1, <1>2, <1>7, <1>rest, <3>1 DEF StdMin
  <2> HIDE DEF n
  <2>2. got = n BY <1>1, <1>2, <1>3, <2>1 DEF Got, StdMin
  <2> HIDE DEF got
  <2>3. u = Fill(r, n, n) BY <2>2
  <2> HIDE DEF u
  <2>7. /\ Good(u) /\ u.good /\ u.ec = "none"
        /\ u.pos = r.pos + n /\ u.available = r.available - n
        /\ u.remaining_size = r.remaining_size - n /\ u.data0 = r.data0 + n
        /\ u.data0 = 1 => u.data1 = v \div 256
        /\ u.data0 = 2 => u.data1 = (v \div 256) + 256 * (v % 256)
    BY <2>1, <2>3, FillShort, SMTT(30)
  <2>8. u.ok = r.ok
    <3> DEFINE w == Fill(r, n, n)
    <3>1. w.ok = r.ok BY <1>2, Zenon DEF Fill, ClientState
    <3> HIDE DEF w
    <3> QED BY <2>3, <3>1 DEF w
  <2>4. ~(r.remaining_size < rest) BY <1>rest, <1>1, <1>2
  <2>5. CASE u.data0 # 2
    <3>1. q = Wait(u) BY <1>5, <1>7, <2>4, <2>5, <2>7
    <3>2. u.data0 = 1 /\ u.available = 0 BY <1>1, <1>2, <2>1, <2>5, <2>7
    <3>3. u \in ClientState BY <2>7 DEF Good
    <3>4. Good(q) BY <2>7, <3>1, <3>2, WaitReads DEF Reads
    <3>5. /\ q.pos = u.pos /\ q.available = u.available /\ q.good = u.good
          /\ q.ec = u.ec /\ q.remaining_size = u.remaining_size
          /\ q.data0 = u.data0 /\ q.data1 = u.data1 /\ q.ok = FALSE
      BY <3>1, <3>3 DEF Wait, ClientState
    <3>6. q.pos = s + 1 /\ q.remaining_size = m - 1 /\ q.data0 = 1
      BY <1>1, <1>3, <2>1, <2>7, <3>2, <3>5
    <3>7. q.data1 = v \div 256 BY <2>7, <3>2, <3>5
    <3>8. q.good /\ q.ec = "none" BY <2>7, <3>5, Zenon
    <3>9. HalfShort(q, v, s, m) BY <3>4, <3>6, <3>7, <3>8 DEF HalfShort
    <3>10. ~q.ok /\ q.available = 0 BY <3>2, <3>5
    <3> QED BY <3>9, <3>10
  <2>6. CASE u.data0 = 2
    <3>1. q = Finish(u, Uint16(u.data1)) BY <1>5, <1>7, <2>4, <2>6, <2>7
    <3>2. u.pos = s + 2 /\ u.remaining_size = m - 2
      BY <1>1, <1>3, <2>1, <2>6, <2>7
    <3>3. PICK x \in Nat : x = Received(v) /\ x = Uint16(u.data1)
      <4>1. Received(v) \in Nat BY ShortBytes
      <4>2. Received(v) = Uint16(u.data1) BY <2>6, <2>7 DEF Received
      <4> QED BY <4>1, <4>2
    <3>4. u \in ClientState BY <2>7 DEF Good
    <3>5. Good(q) /\ q.out = x
      <4>1. q = Finish(u, x) BY <3>1, <3>3
      <4> QED BY <2>7, <4>1, FinishReads DEF Reads
    <3>6. /\ q.data0 = 0 /\ q.data1 = 0 /\ q.ec = u.ec /\ q.ok = u.ok
          /\ q.remaining_size = u.remaining_size
      BY <3>1, <3>4, FinishSteps
    <3>7. q.pos = u.pos /\ q.good = u.good
      BY <3>1, <3>4 DEF Finish, ClientState
    <3>8. q.pos = s + 2 /\ q.remaining_size = m - 2
      BY <3>2, <3>6, <3>7, Zenon
    <3>10. q.good /\ q.ok /\ q.ec = "none"
      BY <2>7, <2>8, <3>6, <3>7, Zenon
    <3> QED BY <3>3, <3>5, <3>6, <3>8, <3>10, Zenon DEF Done
  <2> QED BY <2>5, <2>6
<1> QED BY <1>6, <1>7
=============================================================================
