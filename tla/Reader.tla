------------------------------- MODULE Reader -------------------------------
(***************************************************************************)
(* terraqtt/protocol/reader.hpp: the resumable read operations.  Each maps *)
(* the client's state to the state it leaves behind.  The result has ok =  *)
(* FALSE where the function returns false: with ec = "none" it ran out of  *)
(* available bytes and expects to be called again, otherwise it failed.    *)
(***************************************************************************)
EXTENDS General

CONSTANT TopicMax   \* max_size() of the String container

ASSUME ReaderAssumption == TopicMax \in Nat

VARIABLE wire       \* the bytes of the input stream, up to its end

Wait(r) == [r EXCEPT !.ok = FALSE]
Fail(r, error) == [r EXCEPT !.ok = FALSE, !.ec = error]

Continues(r) == r.ok /\ r.ec = "none"

(* Every caller of a read operation returns at once unless it succeeded. *)
Then(r, F(_)) == IF Continues(r) THEN F(r) ELSE r

(* How many of the next n bytes a read gets before the end of the stream.  *)
Got(r, n) == IF r.good THEN StdMin(n, Len(wire) - r.pos) ELSE 0

NextBytes(r, n) == SubSeq(wire, r.pos + 1, r.pos + n)

Consume(r, n) ==
  [r EXCEPT !.pos = @ + n, !.available = @ - n, !.remaining_size = @ - n]

(* A read operation reports io_error once the stream has gone bad.         *)
BadStream(r) == Fail([r EXCEPT !.good = FALSE], "io_error")

(* peek_type: peek() at the end of the stream returns EOF, whose upper     *)
(* four bits make the unknown type 15.                                     *)
PeekType(r) ==
  IF ~r.good THEN [r EXCEPT !.ec = "io_error", !.read_type = reserved]
  ELSE IF r.pos < Len(wire)
       THEN [r EXCEPT !.read_type = wire[r.pos + 1] \div 16]
       ELSE [r EXCEPT !.read_type = 15, !.good = FALSE]

(* read_element for a type of one byte. *)
ReadByte(r) ==
  IF r.available = 0 THEN Wait(r)
  ELSE IF r.remaining_size = 0 THEN Fail(r, "bad_remaining_size")
  ELSE IF Got(r, 1) # 1 THEN BadStream(r)
  ELSE [Consume(r, 1) EXCEPT !.sequence = (@ + 1) % 256,
                             !.out = wire[r.pos + 1]]

(* sequence_data[1] as a little-endian byte buffer, and the value read     *)
(* from two of its chars: the low byte is sign-extended where char is      *)
(* signed, and its sign bits cover the high byte.                          *)
Put(buffer, i, byte) ==
  IF i = 0 THEN buffer - (buffer % 256) + byte
           ELSE (buffer % 256) + 256 * byte

Uint16(buffer) ==
  LET high == buffer % 256
      low  == (buffer \div 256) % 256
  IN IF CharSigned /\ low >= 128 THEN 65280 + low ELSE 256 * high + low

Store(r, n) ==
  IF n = 2 THEN wire[r.pos + 1] + 256 * wire[r.pos + 2]
  ELSE IF n = 1 THEN Put(r.data1, r.data0, wire[r.pos + 1])
  ELSE r.data1

(* The n bytes asked for, of which the stream had `got'. *)
Fill(r, n, got) ==
  [r EXCEPT !.pos = @ + got,
            !.good = @ /\ got = n,
            !.available = (@ - n) % SizeMod,
            !.remaining_size = (@ - n) % WordMod,
            !.data0 = (@ + n) % WordMod,
            !.data1 = Store(r, got)]

(* An element is complete: its scratch data is cleared. *)
Finish(r, value) ==
  [r EXCEPT !.out = value, !.data0 = 0, !.data1 = 0,
            !.sequence = (@ + 1) % 256]

(* read_element for std::uint16_t.  data0 counts the bytes already stored; *)
(* the rest is computed without sign, and huge if data0 is more than 2.    *)
(* The number to read is the smaller of the rest and `available' as a      *)
(* signed number, so a huge `available' makes it negative: nothing is      *)
(* read and the stream fails.                                              *)
ReadUint16(r) ==
  LET rest == (2 - r.data0) % WordMod
      n    == StdMin(rest, Signed(r.available))
      got  == IF n < 0 THEN 0 ELSE Got(r, n)
      q    == Fill(r, n, got)
  IN IF r.available = 0 THEN Wait(r)
     ELSE IF r.remaining_size < rest
          THEN Fail(r, "bad_remaining_size")
     ELSE IF ~q.good THEN Fail(q, "io_error")
     ELSE IF q.data0 # 2 THEN Wait(q)
     ELSE Finish(q, Uint16(q.data1))

(* Seven more bits of a Variable_integer: data0 accumulates the value,     *)
(* data1 is the multiplier, out the byte just read.                        *)
MutantAccumulate(r, c) ==   \* the multiplier is raised first
  [r EXCEPT !.data0 = (@ + (c % 128) * (r.data1 * 128)) % WordMod,
            !.data1 = (@ * 128) % WordMod,
            !.out = c]

Accumulate(r, c) ==
  [r EXCEPT !.data0 = (@ + (c % 128) * r.data1) % WordMod,
            !.data1 = (@ * 128) % WordMod,
            !.out = c]

(* One round of the loop that reads a Variable_integer. *)
VariableByte(r) ==
  IF ~r.ok \/ r.out < 128 THEN r
  ELSE IF r.available = 0 THEN Wait(r)
  ELSE IF r.remaining_size = 0 THEN Fail(r, "bad_remaining_size")
  ELSE IF Got(r, 1) # 1 THEN BadStream(r)
  ELSE LET c == wire[r.pos + 1]
           q == Accumulate(Consume(r, 1), c)
       IN IF q.data1 > 128 * 128 * 128 /\ c >= 128
          THEN Fail(q, "bad_remaining_size")
          ELSE q

(* read_element for Variable_integer.  The check on the multiplier ends    *)
(* the loop in its fourth round at the latest.                             *)
FirstRound(r) == [r EXCEPT !.data1 = IF @ = 0 THEN 1 ELSE @, !.out = 128]

LastRound(r) == IF ~r.ok THEN r ELSE Finish(r, r.data0)

MutantReadVariableInteger(r) ==   \* the loop gives up after three rounds
  LET Give(q) == IF q.out < 128 THEN LastRound(q) ELSE Wait(q)
  IN Give(VariableByte(VariableByte(VariableByte(FirstRound(r)))))

ReadVariableInteger(r) ==
  LastRound(VariableByte(VariableByte(VariableByte(VariableByte(
    FirstRound(r))))))

(* What the topic container has room for. *)
MutantTopicRoom(r) == TopicMax   \* whatever it holds already

TopicRoom(r) == TopicMax - Len(r.read_header.topic)

(* `got' of the `size' bytes the header's topic is short of.               *)
Extend(r, size, got) ==
  [Consume(r, got) EXCEPT !.data0 = size - got,
                          !.read_header.topic = @ \o NextBytes(r, got)]

(* read_blob into the header's topic: `size' bytes of it are to be read.   *)
(* A nonzero data0 is taken for that size, whatever left it there.         *)
ReadText(r, size) ==
  LET want == StdMin(size, r.available)
      k    == StdMin(want, TopicRoom(r))
      got  == Got(r, k)
      s    == Extend(r, size, got)
  IN IF r.remaining_size < size THEN Fail(r, "bad_remaining_size")
     ELSE IF got < k THEN BadStream(s)
     ELSE IF k < want THEN Fail(s, "not_enough_memory")
     ELSE IF s.data0 # 0 THEN Wait(s) ELSE s

ReadTopic(r) ==
  IF r.data0 % 65536 # 0 THEN ReadText(r, r.data0 % 65536)
  ELSE Then(ReadUint16(r), LAMBDA q : ReadText(q, q.out))
=============================================================================
