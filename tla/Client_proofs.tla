---------------------------- MODULE Client_proofs ----------------------------
(***************************************************************************)
(* What holds of the receiving half on every stream, in whatever pieces it *)
(* arrives, whatever the handlers do and whatever the caller does after an *)
(* error.                                                                  *)
(***************************************************************************)
EXTENDS Client, Packets_proofs

(* The scratch data of a client that has no packet in progress.            *)
Idle(r) ==
  /\ r.sequence = 0 /\ r.remaining_size = 5
  /\ r.data0 = 0 /\ r.data1 = 0

(* The inductive invariant, as a predicate of the client's state: between  *)
(* two calls and after every step of one.                                  *)
Sound(r) ==
  /\ Good(r)
  /\ r.ec # "bad_variant_cast"
  /\ r.sequence # 0 => r.read_header.index = r.read_type
  /\ r.read_type = reserved => Idle(r)
  /\ r.read_type = unsuback => r.sequence <= 2

(* Two states that agree on what Sound says of the packet being read.      *)
SamePacket(r, q) ==
  /\ q.read_type = r.read_type /\ q.read_header = r.read_header
  /\ q.sequence = r.sequence /\ q.remaining_size = r.remaining_size
  /\ q.data0 = r.data0 /\ q.data1 = r.data1

(* Sound looks at nothing else but the type, the position and ec.          *)
LEMMA SameSound ==
  ASSUME NEW r, NEW q, Sound(r), q \in ClientState, q.pos <= Len(wire),
         SamePacket(r, q), q.ec # "bad_variant_cast"
  PROVE  Sound(q)
BY DEF Sound, Good, SamePacket, Idle

-----------------------------------------------------------------------------
(* The assignments at the start of a call.                                 *)
LEMMA SetStart ==
  ASSUME NEW r \in ClientState, NEW a \in Below(SizeMod)
  PROVE  [r EXCEPT !.available = a, !.ok = TRUE, !.ec = "none"] \in ClientState
<1>1. a \in Sizes /\ "none" \in Error BY DEF Sizes, Error
<1> QED BY <1>1, Shape, Zenon

(* A call starts from a sound client.                                      *)
LEMMA StartSound ==
  ASSUME NEW r, Sound(r), NEW a \in Below(SizeMod)
  PROVE  Sound([r EXCEPT !.available = a, !.ok = TRUE, !.ec = "none"])
<1> DEFINE q == [r EXCEPT !.available = a, !.ok = TRUE, !.ec = "none"]
<1>1. r \in ClientState /\ r.pos <= Len(wire) BY DEF Sound, Good
<1>2. q \in ClientState BY <1>1, SetStart
<1>3. q.pos = r.pos /\ q.ec = "none" BY <1>1 DEF ClientState
<1>4. SamePacket(r, q) BY <1>1 DEF ClientState, SamePacket
<1> HIDE DEF q
<1>5. Sound(q) BY <1>1, <1>2, <1>3, <1>4, SameSound
<1> QED BY <1>5 DEF q

(* The assignments of _skip_ignored.                                       *)
LEMMA SetSkipped ==
  ASSUME NEW r \in ClientState, NEW p \in Nat, NEW g \in BOOLEAN,
         NEW i \in Below(SizeMod), NEW a \in Below(SizeMod)
  PROVE  [r EXCEPT !.pos = p, !.good = g, !.read_ignore = i, !.available = a]
           \in ClientState
<1>1. i \in Sizes /\ a \in Sizes BY DEF Sizes
<1> QED BY <1>1, Shape, Zenon

(* _skip_ignored discards no more than is available and was left over.     *)
LEMMA SkipIgnoredSound ==
  ASSUME NEW r, Sound(r)
  PROVE  Sound(SkipIgnored(r))
<1> DEFINE skip == StdMin(r.read_ignore, r.available)
           got  == Got(r, skip)
           p    == r.pos + got
           g    == r.good /\ got = skip
           i    == r.read_ignore - skip
           a    == r.available - skip
           q    == SkipIgnored(r)
<1>1. Good(r) /\ r \in ClientState BY DEF Sound, Good
<1>2. q = [r EXCEPT !.pos = p, !.good = g, !.read_ignore = i, !.available = a]
  BY DEF SkipIgnored
<1>3. r.read_ignore \in Below(SizeMod) /\ r.available \in Below(SizeMod)
      /\ r.read_ignore \in Nat /\ r.available \in Nat
  BY <1>1, Fields
<1>4. skip \in Nat /\ skip <= r.read_ignore /\ skip <= r.available
  BY <1>3 DEF StdMin
<1> HIDE DEF skip
<1>5. got \in Nat /\ r.pos + got <= Len(wire) BY <1>1, <1>4, GotBounds
<1> HIDE DEF got
<1>6. p \in Nat /\ p <= Len(wire) BY <1>1, <1>5, Fields
<1>7. g \in BOOLEAN OBVIOUS
<1>8. i \in Below(SizeMod) /\ a \in Below(SizeMod)
  BY <1>3, <1>4, Widths, Subtract
<1> HIDE DEF p, g, i, a, q
<1>9. q \in ClientState
  <2>1. [r EXCEPT !.pos = p, !.good = g, !.read_ignore = i, !.available = a]
          \in ClientState
    BY <1>1, <1>6, <1>7, <1>8, SetSkipped
  <2> QED BY <1>2, <2>1, Zenon
<1>10. SamePacket(r, q) /\ q.pos = p /\ q.ec = r.ec
  BY <1>1, <1>2 DEF ClientState, SamePacket
<1>11. Sound(q) BY <1>6, <1>9, <1>10, SameSound DEF Sound
<1> QED BY <1>11 DEF q

(* It discards payload of the last packet first: what is left to be read   *)
(* is left out only when nothing is left of what is available.             *)
LEMMA SkipIgnoredCounts ==
  ASSUME NEW r, Sound(r), NEW q, q = SkipIgnored(r)
  PROVE  /\ r.pos <= q.pos /\ q.pos + q.available <= r.pos + r.available
         /\ q.good => r.good
         /\ q.ok = r.ok /\ q.ec = r.ec /\ q.callbacks = r.callbacks
         /\ q.read_type = r.read_type
         /\ q.available # 0 => q.read_ignore = 0
         /\ r.read_ignore = 0 =>
              /\ q.read_ignore = 0 /\ q.pos = r.pos
              /\ q.available = r.available
         /\ r.read_ignore # 0 /\ r.available # 0 /\ q.good =>
              q.pos > r.pos
<1> DEFINE skip == StdMin(r.read_ignore, r.available)
           got  == Got(r, skip)
           p    == r.pos + got
           g    == r.good /\ got = skip
           i    == r.read_ignore - skip
           a    == r.available - skip
<1>1. Good(r) /\ r \in ClientState BY DEF Sound, Good
<1>2. q = [r EXCEPT !.pos = p, !.good = g, !.read_ignore = i, !.available = a]
  BY DEF SkipIgnored
<1>3. r.read_ignore \in Nat /\ r.available \in Nat /\ r.pos \in Nat
  BY <1>1, Fields
<1>4. skip \in Nat /\ skip <= r.read_ignore /\ skip <= r.available
      /\ (skip = r.read_ignore \/ skip = r.available)
  BY <1>3 DEF StdMin
<1> HIDE DEF skip
<1>5. got \in Nat /\ got <= skip BY <1>1, <1>4, GotBounds
<1> HIDE DEF got
<1>6. q.pos = p /\ q.read_ignore = i /\ q.available = a
  BY <1>1, <1>2 DEF ClientState
<1>7. /\ q.ok = r.ok /\ q.ec = r.ec /\ q.callbacks = r.callbacks
      /\ q.read_type = r.read_type
  BY <1>1, <1>2 DEF ClientState
<1>8. q.good => r.good /\ got = skip
  <2>1. q.good = g BY <1>1, <1>2 DEF ClientState
  <2> QED BY <2>1, Zenon
<1> HIDE DEF g
<1>9. /\ r.pos <= q.pos /\ q.pos + q.available <= r.pos + r.available
      /\ q.available # 0 => q.read_ignore = 0
  BY <1>3, <1>4, <1>5, <1>6
<1>10. r.read_ignore = 0 =>
         /\ q.read_ignore = 0 /\ q.pos = r.pos
         /\ q.available = r.available
  BY <1>3, <1>4, <1>5, <1>6
<1>11. r.read_ignore # 0 /\ r.available # 0 /\ q.good => q.pos > r.pos
  BY <1>3, <1>4, <1>5, <1>6, <1>8
<1> QED BY <1>7, <1>8, <1>9, <1>10, <1>11

(* peek_type takes nothing, and only fails where it says so.               *)
LEMMA PeekTypeCounts ==
  ASSUME NEW r, Good(r), NEW q, q = PeekType(r)
  PROVE  /\ q.pos = r.pos /\ q.available = r.available
         /\ q.read_ignore = r.read_ignore /\ q.callbacks = r.callbacks
         /\ q.ok = r.ok /\ (q.good => r.good)
         /\ q.ec = "none" /\ q.good /\ q.read_type = reserved =>
              r.pos < Len(wire) /\ wire[r.pos + 1] \div 16 = reserved
<1>1. r \in ClientState BY DEF Good
<1>2. CASE ~r.good BY <1>1, <1>2 DEF PeekType, ClientState
<1>3. CASE r.good /\ r.pos < Len(wire)
  BY <1>1, <1>3 DEF PeekType, ClientState
<1>4. CASE r.good /\ ~(r.pos < Len(wire))
  <2>1. 15 # reserved BY DEF reserved
  <2> QED BY <1>1, <1>4, <2>1 DEF PeekType, ClientState
<1> QED BY <1>2, <1>3, <1>4

(* peek_type begins a packet without any scratch data.                     *)
LEMMA PeekTypeSound ==
  ASSUME NEW r, Sound(r), r.read_type = reserved
  PROVE  Sound(PeekType(r))
<1> DEFINE q == PeekType(r)
<1>1. Good(r) /\ Idle(r) /\ r.ec # "bad_variant_cast" BY DEF Sound
<1>2. /\ Good(q) /\ q.read_header = r.read_header /\ q.sequence = r.sequence
      /\ q.data0 = r.data0 /\ q.data1 = r.data1
      /\ q.remaining_size = r.remaining_size /\ q.ec \in {r.ec, "io_error"}
  BY <1>1, PeekTypeGood
<1> HIDE DEF q
<1>3. Sound(q)
  <2>1. q.sequence = 0 /\ 0 <= 2 BY <1>1, <1>2 DEF Idle
  <2> QED BY <1>1, <1>2, <2>1 DEF Sound, Idle
<1> QED BY <1>3 DEF q

-----------------------------------------------------------------------------
(* A packet is read in the alternative emplaced for it. *)
LEMMA EmplaceGood ==
  ASSUME NEW r, Sound(r), r.read_type \in Handled
  PROVE  /\ Good(Emplace(r, r.read_type))
         /\ Emplace(r, r.read_type).read_type = r.read_type
         /\ Emplace(r, r.read_type).read_header.index = r.read_type
         /\ Emplace(r, r.read_type).ec = r.ec
         /\ SameStream(r, Emplace(r, r.read_type))
         /\ Emplace(r, r.read_type).sequence = r.sequence
<1> DEFINE type == r.read_type
           f == Fresh(type)
           q == [r EXCEPT !.read_header = f]
<1>1. Good(r) /\ r \in ClientState BY DEF Sound, Good
<1>2. CASE r.sequence # 0 BY <1>1, <1>2 DEF Emplace, Sound, SameStream
<1>3. CASE r.sequence = 0
  <2>1. Emplace(r, type) = q BY <1>3 DEF Emplace
  <2>2. f \in Header BY FreshHeader
  <2>3. f.index = type /\ Len(f.topic) = 0 BY DEF Fresh
  <2> HIDE DEF f
  <2>4. q \in ClientState BY <1>1, <2>2, SetHeader
  <2>5. /\ q.read_header = f /\ q.read_type = type /\ q.ec = r.ec
        /\ q.pos = r.pos /\ SameStream(r, q) /\ q.sequence = r.sequence
    BY <1>1 DEF ClientState, SameStream
  <2> HIDE DEF q
  <2>6. Good(q)
    BY <1>1, <2>3, <2>4, <2>5, ReaderAssumption DEF Good, ReaderAssumption
  <2> QED BY <2>1, <2>3, <2>5, <2>6
<1> QED BY <1>2, <1>3

(* _clear_read keeps the client well typed.                                *)
LEMMA SetCleared ==
  ASSUME NEW r \in ClientState
  PROVE  ClearRead(r) \in ClientState
<1>1. 0 \in Words /\ 5 \in Words BY Widths DEF Words, Below
<1>2. reserved \in Bits4 /\ 0 \in Bits8 BY DEF reserved, Bits4, Bits8
<1> QED BY <1>1, <1>2, Shape, Zenon DEF ClearRead

(* _clear_read leaves no trace of the packet.                              *)
LEMMA ClearReadSound ==
  ASSUME NEW r, Good(r), r.ec # "bad_variant_cast"
  PROVE  Sound(ClearRead(r))
<1> DEFINE q == ClearRead(r)
<1>1. r \in ClientState BY DEF Good
<1>2. q \in ClientState BY <1>1, SetCleared
<1>3. q.pos = r.pos /\ q.read_header = r.read_header /\ q.ec = r.ec
  BY <1>1 DEF ClearRead, ClientState
<1>4. q.sequence = 0 /\ q.remaining_size = 5 /\ q.data0 = 0 /\ q.data1 = 0
  BY <1>1 DEF ClearRead, ClientState
<1> HIDE DEF q
<1>5. Sound(q) BY <1>2, <1>3, <1>4 DEF Good, Sound, Idle
<1> QED BY <1>5 DEF q

-----------------------------------------------------------------------------
(* The history of callbacks grows by one.                                  *)
LEMMA AppendCallback ==
  ASSUME NEW s \in Seq(Callback), NEW c \in Callback
  PROVE  Append(s, c) \in Seq(Callback)
OBVIOUS

(* The assignments around a handler.                                       *)
LEMMA SetReported ==
  ASSUME NEW r \in ClientState, NEW c \in Seq(Callback), NEW e \in Error
  PROVE  [r EXCEPT !.callbacks = c, !.ec = e] \in ClientState
<1>1. c \in Calls BY DEF Calls
<1> QED BY <1>1, Shape, Zenon

(* A handler may set an error, never that of the Variant.                  *)
LEMMA HandlerErrors ==
  ASSUME NEW fail
  PROVE  /\ (IF fail THEN "handler_error" ELSE "none") \in Error
         /\ (IF fail THEN "handler_error" ELSE "none") # "bad_variant_cast"
BY DEF Error

(* The handlers that look at the header only.                              *)
LEMMA OnOtherSound ==
  ASSUME NEW r, Sound(r), NEW h
  PROVE  Sound(OnOther(r, h))
<1> DEFINE back == [header |-> r.read_header, size |-> 0, payload |-> <<>>]
           c == Append(r.callbacks, back)
           e == IF h.fail THEN "handler_error" ELSE "none"
           q == OnOther(r, h)
<1>1. r \in ClientState /\ r.pos <= Len(wire) BY DEF Sound, Good
<1>2. q = [r EXCEPT !.callbacks = c, !.ec = e] BY DEF OnOther
<1>3. e \in Error /\ e # "bad_variant_cast" BY HandlerErrors
<1>4. back \in Callback
  <2>1. r.read_header \in Header BY <1>1, Fields
  <2> QED BY <2>1 DEF Callback
<1> HIDE DEF back, e, q
<1>5. c \in Seq(Callback) BY <1>1, <1>4, Fields, AppendCallback
<1> HIDE DEF c
<1>6. q \in ClientState
  <2>1. [r EXCEPT !.callbacks = c, !.ec = e] \in ClientState
    BY <1>1, <1>3, <1>5, SetReported
  <2> QED BY <1>2, <2>1, Zenon
<1>7. SamePacket(r, q) /\ q.pos = r.pos /\ q.ec = e
  BY <1>1, <1>2 DEF ClientState, SamePacket
<1>8. Sound(q) BY <1>1, <1>3, <1>6, <1>7, SameSound
<1> QED BY <1>8 DEF q

(* The assignments of _handle_publish after its handler.                   *)
LEMMA SetPublished ==
  ASSUME NEW r \in ClientState, NEW c \in Seq(Callback), NEW e \in Error,
         NEW p \in Nat, NEW i \in Below(SizeMod)
  PROVE  [r EXCEPT !.callbacks = c, !.ec = e, !.pos = p, !.read_ignore = i]
           \in ClientState
<1>1. c \in Calls /\ i \in Sizes BY DEF Calls, Sizes
<1> QED BY <1>1, Shape, Zenon

(* The counts of a handler that read too far keep the type.                *)
LEMMA SetOverread ==
  ASSUME NEW r \in ClientState, NEW a \in Below(SizeMod), NEW o \in Nat
  PROVE  [r EXCEPT !.available = a, !.overread = o] \in ClientState
<1>1. a \in Sizes BY DEF Sizes
<1> QED BY <1>1, Shape, Zenon

(* They are no part of what Sound says.                                    *)
LEMMA OverreadSound ==
  ASSUME NEW r, Sound(r), NEW a \in Below(SizeMod), NEW o \in Nat
  PROVE  Sound([r EXCEPT !.available = a, !.overread = o])
<1> DEFINE q == [r EXCEPT !.available = a, !.overread = o]
<1>1. r \in ClientState /\ r.pos <= Len(wire) BY DEF Sound, Good
<1>2. q \in ClientState BY <1>1, SetOverread
<1>3. SamePacket(r, q) /\ q.pos = r.pos /\ q.ec = r.ec
  BY <1>1 DEF ClientState, SamePacket
<1> HIDE DEF q
<1>4. Sound(q) BY <1>1, <1>2, <1>3, SameSound DEF Sound
<1> QED BY <1>4 DEF q

(* The payload a handler gets, and the state its call leaves, whatever it  *)
(* does with the payload stream.                                           *)
LEMMA PayloadIs ==
  ASSUME NEW r, Good(r), NEW k \in Nat
  PROVE  [i \in 1 .. k |-> PayloadByte(r, i)] \in Seq(Byte \cup {Stale})
<1>1. r.pos \in Nat BY Fields DEF Good
<1>2. \A i \in 1 .. k : PayloadByte(r, i) \in Byte \cup {Stale}
  <2> TAKE i \in 1 .. k
  <2>1. CASE r.pos + i <= Len(wire)
    <3>1. wire[r.pos + i] \in Byte
      <4>1. wire[r.pos + i] \in 0 .. 255 BY <2>1, WireByte
      <4> QED BY <4>1 DEF Byte
    <3> QED BY <2>1, <3>1 DEF PayloadByte
  <2>2. CASE ~(r.pos + i <= Len(wire)) BY <2>2 DEF PayloadByte
  <2> QED BY <2>1, <2>2
<1> HIDE DEF PayloadByte
<1> QED BY <1>2

(* _handle_publish after the header, whatever the handler takes or looks   *)
(* at: read_ignore and available stay within their types even where they   *)
(* wrap.                                                                   *)
LEMMA OnPublishSound ==
  ASSUME NEW r, Sound(r), NEW size \in Nat, NEW h \in HandlerChoice
  PROVE  Sound(OnPublish(r, size, h))
<1> DEFINE limit  == IF HandlerBlocks THEN size ELSE StdMin(size, r.available)
           k      == StdMin(h.take, limit)
           peeked == IF h.peek /\ k < limit THEN 1 ELSE 0
           ignore == (size - k - peeked - peeked) % SizeMod
           read   == (size - ignore) % SizeMod
           end    == StdMin(r.pos + k + peeked, Len(wire))
           back   == [header |-> r.read_header, size |-> size,
                      payload |-> [i \in 1 .. k |-> PayloadByte(r, i)]]
           c      == Append(r.callbacks, back)
           e      == IF h.fail THEN "handler_error" ELSE "none"
           p      == IF r.pos > end THEN r.pos ELSE end
           s      == [r EXCEPT !.callbacks = c, !.ec = e, !.pos = p,
                               !.read_ignore = ignore]
           q      == OnPublish(r, size, h)
<1>1. q = IF read > s.available
          THEN [s EXCEPT !.available = 0, !.overread = read]
          ELSE [s EXCEPT !.available = s.available - read]
  BY DEF OnPublish
<1>2. Good(r) /\ r \in ClientState /\ r.pos <= Len(wire) BY DEF Sound, Good
<1>3. r.available \in Nat /\ r.pos \in Nat /\ Len(wire) \in Nat
  BY <1>2, Fields DEF Good
<1>4. k \in Nat /\ peeked \in 0 .. 1
  <2>1. h.take \in Nat BY DEF HandlerChoice
  <2>2. limit \in Nat BY <1>3 DEF StdMin
  <2> QED BY <2>1, <2>2 DEF StdMin
<1>5. back \in Callback
  <2>1. r.read_header \in Header BY <1>2, Fields
  <2>2. [i \in 1 .. k |-> PayloadByte(r, i)] \in Seq(Byte \cup {Stale})
    BY <1>2, <1>4, PayloadIs
  <2> QED BY <2>1, <2>2 DEF Callback
<1>6. e \in Error /\ e # "bad_variant_cast" BY HandlerErrors
<1> HIDE DEF limit, k, peeked, back, e, q
<1>7. c \in Seq(Callback) BY <1>2, <1>5, Fields, AppendCallback
<1>8. p \in Nat /\ p <= Len(wire) BY <1>2, <1>3, <1>4 DEF StdMin
<1>9. ignore \in Below(SizeMod) /\ ignore \in Nat
  <2>1. PICK x \in Int : x = size - k - peeked - peeked BY <1>4
  <2>2. x % SizeMod \in Below(SizeMod) BY Widths, Residue
  <2>3. ignore \in Below(SizeMod) BY <2>1, <2>2
  <2> QED BY <2>3 DEF Below
<1> HIDE DEF c, p, ignore
<1>10. read \in Nat
  <2>1. PICK x \in Int : x = size - ignore BY <1>9
  <2>2. x % SizeMod \in Below(SizeMod) BY Widths, Residue
  <2>3. read \in Below(SizeMod) BY <2>1, <2>2
  <2> QED BY <2>3 DEF Below
<1> HIDE DEF read
<1>11. Sound(s) /\ s \in ClientState
  <2>1. s \in ClientState BY <1>2, <1>6, <1>7, <1>8, <1>9, SetPublished
  <2>2. SamePacket(r, s) /\ s.pos = p /\ s.ec = e
    BY <1>2 DEF ClientState, SamePacket
  <2> HIDE DEF s
  <2> QED BY <1>6, <1>8, <2>1, <2>2, SameSound
<1> HIDE DEF s
<1>12. /\ s.available \in Below(SizeMod) /\ s.available \in Nat
       /\ s.overread \in Nat
  <2>1. s.overread \in Nat BY <1>11 DEF ClientState
  <2> QED BY <1>11, <2>1, Fields
<1>13. Sound([s EXCEPT !.available = 0, !.overread = read])
  <2>1. 0 \in Below(SizeMod) BY Widths DEF Below
  <2> QED BY <1>10, <1>11, <2>1, OverreadSound
<1>14. ASSUME ~(read > s.available)
       PROVE  Sound([s EXCEPT !.available = s.available - read])
  <2> DEFINE a == s.available - read
  <2>1. a \in Below(SizeMod)
    <3>1. read <= s.available BY <1>10, <1>12, <1>14
    <3> QED BY <1>10, <1>12, <3>1, Widths, Subtract
  <2> HIDE DEF a
  <2>2. Sound([s EXCEPT !.available = a, !.overread = s.overread])
    BY <1>11, <1>12, <2>1, OverreadSound
  <2>3. [s EXCEPT !.available = a, !.overread = s.overread] =
          [s EXCEPT !.available = a]
    BY <1>11 DEF ClientState
  <2>4. Sound([s EXCEPT !.available = a]) BY <2>2, <2>3, Zenon
  <2> QED BY <2>4 DEF a
<1>15. Sound(q) BY <1>1, <1>13, <1>14, Zenon
<1> QED BY <1>15 DEF q

-----------------------------------------------------------------------------
(* The _handle_... functions: a packet of a type the client handles is     *)
(* read in the alternative of that type, from the first call on it to the  *)
(* last.                                                                   *)
LEMMA HandleSound ==
  ASSUME NEW r, Sound(r), Continues(r), r.read_type \in Handled,
         NEW h \in HandlerChoice
  PROVE  Sound(Handle(r, h))
<1> DEFINE type == r.read_type
           s == Emplace(r, type)
           q == ReadPacket(s, type)
           c == ClearRead(q)
           Deliver == IF type = publish THEN OnPublish(c, q.remaining_size, h)
                                        ELSE OnOther(c, h)
<1>1. /\ Good(s) /\ s.read_type = type /\ s.read_header.index = type
      /\ s.ec = r.ec /\ Continues(s) /\ (type = unsuback => s.sequence <= 2)
  BY EmplaceGood DEF Sound, Continues, SameStream
<1>2. Handle(r, h) = IF Continues(q) THEN Deliver ELSE q
  BY <1>1 DEF Handle, Then
<1>3. type \in Handled /\ type # reserved
  BY DEF Handled, reserved, connack, publish, puback, pubrec, pubrel, pubcomp,
         suback, unsuback, pingresp
<1>4. s.ec # "bad_variant_cast" BY <1>1 DEF Sound
<1> HIDE DEF s, type
<1>5. /\ Reads(s, q)
      /\ type = unsuback /\ ~Continues(q) => q.sequence <= 2
  BY <1>1, <1>3, ReadPacketReads
<1> HIDE DEF q
<1>6. Good(q) /\ q.ec # "bad_variant_cast" BY <1>4, <1>5 DEF Reads, Keeps
<1>7. ~Continues(q) => Sound(q)
  BY <1>1, <1>3, <1>5, <1>6 DEF Reads, Keeps, Sound
<1>8. Sound(c) BY <1>6, ClearReadSound
<1> HIDE DEF c
<1>9. q.remaining_size \in Nat BY <1>6, Fields DEF Good
<1>10. Sound(Deliver)
  <2>1. Sound(OnOther(c, h)) BY <1>8, OnOtherSound
  <2>2. Sound(OnPublish(c, q.remaining_size, h)) BY <1>8, <1>9, OnPublishSound
  <2> QED BY <2>1, <2>2
<1> QED BY <1>2, <1>7, <1>10

(* An error keeps the packet in progress.                                  *)
LEMMA FailSound ==
  ASSUME NEW r, Sound(r), NEW error \in ReadError
  PROVE  Sound(Fail(r, error))
<1> DEFINE q == Fail(r, error)
<1>1. Good(r) /\ r \in ClientState BY DEF Sound, Good
<1>2. Good(q) BY <1>1, FailReads DEF Reads
<1>3. SamePacket(r, q) /\ q.ec = error
  BY <1>1 DEF Fail, SamePacket, ClientState
<1>4. error # "bad_variant_cast" BY DEF ReadError
<1> HIDE DEF q
<1>5. Sound(q) BY <1>2, <1>3, <1>4, SameSound DEF Good
<1> QED BY <1>5 DEF q

(* The switch of process_one.                                              *)
LEMMA DispatchSound ==
  ASSUME NEW r, Sound(r), Continues(r), NEW h \in HandlerChoice
  PROVE  Sound(Dispatch(r, h))
<1>1. CASE r.read_type = reserved BY <1>1 DEF Dispatch, Handled, reserved,
      connack, publish, puback, pubrec, pubrel, pubcomp, suback, unsuback,
      pingresp
<1>2. CASE r.read_type # reserved /\ r.read_type \in Handled
  <2>1. Dispatch(r, h) = Handle(r, h) BY <1>2 DEF Dispatch
  <2> QED BY <1>2, <2>1, HandleSound
<1>3. CASE r.read_type # reserved /\ r.read_type \notin Handled
  <2>1. Dispatch(r, h) = Fail(r, "bad_packet_type") BY <1>3 DEF Dispatch
  <2> QED BY <2>1, FailSound, ReadErrors
<1> QED BY <1>1, <1>2, <1>3

(* process_one clears overread.                                            *)
LEMMA ReturnSound ==
  ASSUME NEW r, Sound(r)
  PROVE  Sound([r EXCEPT !.overread = 0])
<1>1. r \in ClientState BY DEF Sound, Good
<1>2. r.available \in Below(SizeMod) BY <1>1, Fields
<1>3. Sound([r EXCEPT !.available = r.available, !.overread = 0])
  BY <1>2, OverreadSound
<1>4. [r EXCEPT !.available = r.available, !.overread = 0] =
        [r EXCEPT !.overread = 0]
  BY <1>1 DEF ClientState
<1> QED BY <1>3, <1>4, Zenon

(* A call of process_one leaves a sound client sound, and the number of    *)
(* bytes it returns is a std::size_t.                                      *)
LEMMA ProcessedSound ==
  ASSUME Sound(client), NEW a \in Below(SizeMod), NEW h \in HandlerChoice
  PROVE  /\ Sound(Processed(a, h).client)
         /\ Processed(a, h).returned \in Below(SizeMod)
<1> DEFINE start == [client EXCEPT !.available = a, !.ok = TRUE, !.ec = "none"]
           b == SkipIgnored(start)
           p == IF b.read_type = reserved THEN PeekType(b) ELSE b
           d == SkipIgnored(Dispatch(p, h))
           returned == (a - d.available + d.overread) % SizeMod
<1>1. Processed(a, h) =
        IF b.available = 0 THEN Outcome(b, 0)
        ELSE IF p.ec # "none" THEN Outcome(p, 0)
        ELSE Outcome([d EXCEPT !.overread = 0], returned)
  BY DEF Processed
<1>2. Sound(start) /\ start.ok
  <2>1. client \in ClientState BY DEF Sound, Good
  <2>2. start.ok = TRUE BY <2>1 DEF ClientState
  <2> QED BY <2>2, StartSound
<1> HIDE DEF start
<1>3. Sound(b) /\ b.ok BY <1>2, SkipIgnoredSound, SkipIgnoredCounts
<1> HIDE DEF b
<1>4. Sound(p) /\ p.ok BY <1>3, PeekTypeSound, PeekTypeCounts DEF Sound
<1> HIDE DEF p
<1>5. p.ec = "none" => Sound(d)
  BY <1>4, DispatchSound, SkipIgnoredSound DEF Continues
<1> HIDE DEF d
<1>6. p.ec = "none" => Sound([d EXCEPT !.overread = 0])
  BY <1>5, ReturnSound
<1>7. ASSUME p.ec = "none" PROVE returned \in Below(SizeMod)
  <2>1. d.available \in Nat /\ d.overread \in Nat
    <3>1. d \in ClientState BY <1>5, <1>7 DEF Sound, Good
    <3>2. d.overread \in Nat BY <3>1 DEF ClientState
    <3> QED BY <3>1, <3>2, Fields
  <2>2. a \in Nat BY DEF Below
  <2>3. PICK x \in Int : x = a - d.available + d.overread BY <2>1, <2>2
  <2>4. x % SizeMod \in Below(SizeMod) BY Widths, Residue
  <2> QED BY <2>3, <2>4
<1>8. 0 \in Below(SizeMod) BY Widths DEF Below
<1> HIDE DEF returned
<1> QED BY <1>1, <1>3, <1>4, <1>6, <1>7, <1>8 DEF Outcome

-----------------------------------------------------------------------------
(* The residue of a number of the type, and of one just below it.          *)
LEMMA SmallResidue ==
  ASSUME NEW m \in Nat, NEW x \in Nat, x < m
  PROVE  x % m = x
OBVIOUS

(* An unsigned subtraction that wraps once.                                *)
LEMMA WrappedResidue ==
  ASSUME NEW m \in Nat, NEW x \in Int, x < 0, 0 <= x + m
  PROVE  x % m = x + m
OBVIOUS

(* What _handle_publish takes for the number of bytes the handler read: a  *)
(* byte it only looked at counts twice, even where read_ignore wraps.      *)
LEMMA ReadByHandler ==
  ASSUME NEW m \in Nat, NEW size \in Nat, NEW k \in Nat, NEW n \in 0 .. 1,
         size < m, k + n <= size, k + n + n < m
  PROVE  (size - ((size - k - n - n) % m)) % m = k + n + n
<1>1. PICK x \in Int : x = size - k - n - n OBVIOUS
<1>2. PICK y \in Int : y = x % m
  <2>1. x % m \in Int OBVIOUS
  <2> QED BY <2>1
<1>3. CASE x >= 0
  <2>1. y = x BY <1>1, <1>2, <1>3, SmallResidue
  <2>2. PICK z \in Nat : z = size - y /\ z = k + n + n BY <1>1, <2>1
  <2>3. z % m = z BY <2>2, SmallResidue
  <2> QED BY <1>1, <1>2, <2>2, <2>3
<1>4. CASE x < 0
  <2>1. y = x + m BY <1>1, <1>2, <1>4, WrappedResidue
  <2>2. PICK z \in Int : z = size - y /\ z = k + n + n - m BY <1>1, <2>1
  <2>3. z % m = z + m BY <2>2, WrappedResidue
  <2> QED BY <1>1, <1>2, <2>2, <2>3
<1> QED BY <1>3, <1>4

(* A history that grew is another one.                                     *)
LEMMA Appended ==
  ASSUME NEW s \in Seq(Callback), NEW c \in Callback
  PROVE  Append(s, c) # s
<1>1. Len(Append(s, c)) = Len(s) + 1 OBVIOUS
<1> QED BY <1>1

(* The handlers that look at the header only leave the stream as it was.   *)
LEMMA OnOtherCounts ==
  ASSUME NEW r, Sound(r), NEW h, NEW q, q = OnOther(r, h)
  PROVE  /\ q.pos = r.pos /\ q.available = r.available /\ q.good = r.good
         /\ q.read_ignore = r.read_ignore /\ q.callbacks # r.callbacks
         /\ q.read_type = r.read_type
<1> DEFINE back == [header |-> r.read_header, size |-> 0, payload |-> <<>>]
<1>1. r \in ClientState BY DEF Sound, Good
<1>2. back \in Callback
  <2>1. r.read_header \in Header BY <1>1, Fields
  <2> QED BY <2>1 DEF Callback
<1>3. q.callbacks = Append(r.callbacks, back)
  BY <1>1, Zenon DEF OnOther, ClientState
<1>4. /\ q.pos = r.pos /\ q.available = r.available /\ q.good = r.good
      /\ q.read_ignore = r.read_ignore /\ q.read_type = r.read_type
  BY <1>1 DEF OnOther, ClientState
<1> HIDE DEF back
<1>5. Append(r.callbacks, back) # r.callbacks
  BY <1>1, <1>2, Fields, Appended
<1> QED BY <1>3, <1>4, <1>5

(* A handler that does not read beyond what is available takes no more of  *)
(* the stream than that, and no less is counted off.                       *)
LEMMA OnPublishCounts ==
  ASSUME NEW r, Sound(r), NEW size \in Below(WordMod),
         NEW h \in HandlerChoice, NEW q, q = OnPublish(r, size, h)
  PROVE  /\ r.pos <= q.pos /\ q.good = r.good
         /\ q.callbacks # r.callbacks /\ q.read_type = r.read_type
         /\ ~HandlerBlocks /\ r.available + 1 < SizeMod =>
              q.pos + q.available <= r.pos + r.available
<1> DEFINE limit  == IF HandlerBlocks THEN size ELSE StdMin(size, r.available)
           k      == StdMin(h.take, limit)
           peeked == IF h.peek /\ k < limit THEN 1 ELSE 0
           ignore == (size - k - peeked - peeked) % SizeMod
           read   == (size - ignore) % SizeMod
           end    == StdMin(r.pos + k + peeked, Len(wire))
           back   == [header |-> r.read_header, size |-> size,
                      payload |-> [i \in 1 .. k |-> PayloadByte(r, i)]]
           c      == Append(r.callbacks, back)
           e      == IF h.fail THEN "handler_error" ELSE "none"
           p      == IF r.pos > end THEN r.pos ELSE end
           s      == [r EXCEPT !.callbacks = c, !.ec = e, !.pos = p,
                               !.read_ignore = ignore]
<1>1. q = IF read > s.available
          THEN [s EXCEPT !.available = 0, !.overread = read]
          ELSE [s EXCEPT !.available = s.available - read]
  BY DEF OnPublish
<1>2. Good(r) /\ r \in ClientState /\ r.pos <= Len(wire) BY DEF Sound, Good
<1>3. r.available \in Nat /\ r.pos \in Nat /\ Len(wire) \in Nat
  BY <1>2, Fields DEF Good
<1>4. size \in Nat /\ size < SizeMod BY Widths DEF Below
<1>5. limit \in Nat /\ limit <= size
      /\ (~HandlerBlocks => limit <= r.available)
  BY <1>3, <1>4 DEF StdMin
<1> HIDE DEF limit
<1>6. k \in Nat /\ k <= limit
  <2>1. h.take \in Nat BY DEF HandlerChoice
  <2> QED BY <1>5, <2>1 DEF StdMin
<1> HIDE DEF k
<1>7. peeked \in 0 .. 1 /\ k + peeked <= limit BY <1>5, <1>6
<1> HIDE DEF peeked
<1>8. back \in Callback
  <2>1. r.read_header \in Header BY <1>2, Fields
  <2>2. [i \in 1 .. k |-> PayloadByte(r, i)] \in Seq(Byte \cup {Stale})
    BY <1>2, <1>6, PayloadIs
  <2> QED BY <1>4, <2>1, <2>2 DEF Callback
<1> HIDE DEF back
<1>9. c # r.callbacks BY <1>2, <1>8, Fields, Appended
<1>10. r.pos <= p /\ p \in Nat /\ p <= r.pos + k + peeked
  BY <1>2, <1>3, <1>6, <1>7 DEF StdMin
<1> HIDE DEF p, c
<1>11. r.available + 1 < SizeMod /\ ~HandlerBlocks => read = k + peeked + peeked
  <2> SUFFICES ASSUME r.available + 1 < SizeMod, ~HandlerBlocks
               PROVE  read = k + peeked + peeked
    OBVIOUS
  <2>1. k + peeked + peeked < SizeMod BY <1>3, <1>5, <1>6, <1>7, Widths
  <2>2. k + peeked <= size BY <1>4, <1>5, <1>6, <1>7
  <2>3. (size - ((size - k - peeked - peeked) % SizeMod)) % SizeMod
          = k + peeked + peeked
    <3>1. size \in Nat /\ size < SizeMod /\ k \in Nat /\ peeked \in 0 .. 1
          /\ SizeMod \in Nat
      BY <1>4, <1>6, <1>7, Widths
    <3> QED BY <2>1, <2>2, <3>1, ReadByHandler, ZenonT(30)
  <2> QED BY <2>3
<1>12. read \in Nat
  <2>1. PICK x \in Int : x = size - k - peeked - peeked BY <1>4, <1>6, <1>7
  <2>2. ignore \in Int BY <2>1, Widths
  <2>3. PICK y \in Int : y = size - ignore BY <1>4, <2>2
  <2> QED BY <2>3, Widths, Modulo
<1> HIDE DEF ignore, read, e
<1>13. /\ s.pos = p /\ s.available = r.available /\ s.good = r.good
       /\ s.callbacks = c /\ s.read_type = r.read_type
  BY <1>2 DEF ClientState
<1>14. CASE read > s.available
  <2>1. /\ q.pos = s.pos /\ q.available = 0 /\ q.good = s.good
        /\ q.callbacks = s.callbacks /\ q.read_type = s.read_type
    BY <1>1, <1>2, <1>14 DEF ClientState
  <2> HIDE DEF s
  <2>2. ~HandlerBlocks => q.pos <= r.pos + r.available
    BY <1>3, <1>5, <1>6, <1>7, <1>10, <1>13, <2>1
  <2> QED BY <1>3, <1>9, <1>10, <1>13, <2>1, <2>2
<1>15. CASE ~(read > s.available)
  <2>1. /\ q.pos = s.pos /\ q.available = s.available - read
        /\ q.good = s.good /\ q.callbacks = s.callbacks
        /\ q.read_type = s.read_type
    BY <1>1, <1>2, <1>15 DEF ClientState
  <2> HIDE DEF s
  <2>2. r.available + 1 < SizeMod /\ ~HandlerBlocks =>
          q.pos + q.available <= r.pos + r.available
    BY <1>3, <1>6, <1>7, <1>10, <1>11, <1>13, <2>1, SMTT(30)
  <2> QED BY <1>3, <1>9, <1>10, <1>13, <2>1, <2>2
<1> QED BY <1>14, <1>15

(* What a call counts: it does not turn back, it takes no more than is     *)
(* available, payload to be skipped included, and on a good stream it does *)
(* not end without an error where it began.                                *)
Moves(r, q) ==
  /\ r.pos <= q.pos /\ (q.good => r.good)
  /\ ~HandlerBlocks /\ r.available + 1 < SizeMod =>
       /\ q.pos <= r.pos + r.available
       /\ q.read_ignore = 0 \/ q.pos + q.available <= r.pos + r.available

(* It takes bytes or delivers a packet. *)
Advances(r, q) ==
  q.ec = "none" /\ q.good => q.pos > r.pos \/ q.callbacks # r.callbacks

(* A packet that is read, and handled where it is complete.                *)
LEMMA HandleCounts ==
  ASSUME NEW r, Sound(r), Continues(r), r.read_type \in Handled,
         r.read_ignore = 0, r.available # 0,
         NEW h \in HandlerChoice, NEW w, w = Handle(r, h)
  PROVE  Moves(r, w) /\ Advances(r, w)
<1> DEFINE type == r.read_type
           s == Emplace(r, type)
           q == ReadPacket(s, type)
           c == ClearRead(q)
           Deliver == IF type = publish THEN OnPublish(c, q.remaining_size, h)
                                        ELSE OnOther(c, h)
<1>1. /\ Good(s) /\ s.read_header.index = type
      /\ SameStream(r, s) /\ (type = unsuback => s.sequence <= 2)
  BY EmplaceGood DEF Sound
<1>2. w = IF Continues(q) THEN Deliver ELSE q
  BY <1>1 DEF Handle, Then
<1>3. Continues(s) /\ s.ec # "bad_variant_cast"
  BY <1>1 DEF Continues, SameStream, Sound
<1> HIDE DEF s
<1>4. Reads(s, q) BY <1>1, <1>3, ReadPacketReads
<1> HIDE DEF q
<1>5. Good(q) /\ q.ec # "bad_variant_cast" BY <1>3, <1>4 DEF Reads, Keeps
<1>6. /\ r.pos \in Nat /\ r.available \in Nat /\ r.good \in BOOLEAN
      /\ q.pos \in Nat /\ q.available \in Nat /\ q.good \in BOOLEAN
      /\ q.ok \in BOOLEAN /\ q.remaining_size \in Below(WordMod)
  BY <1>5, Fields DEF Sound, Good
<1>7. /\ r.pos <= q.pos /\ q.pos <= r.pos + r.available
      /\ q.good \/ q.ec = "none" =>
           q.pos + q.available = r.pos + r.available
      /\ q.good => r.good
      /\ q.read_ignore = 0 /\ q.callbacks = r.callbacks
  BY <1>1, <1>4 DEF Reads, Counts, Keeps, SameStream
<1>8. CASE ~Continues(q)
  <2>1. w = q BY <1>2, <1>8
  <2>2. Moves(r, q) BY <1>7 DEF Moves
  <2>3. Advances(r, q)
    <3> SUFFICES ASSUME q.ec = "none", q.good PROVE q.pos > r.pos
      BY DEF Advances
    <3>1. ~q.ok BY <1>8 DEF Continues
    <3>2. q.available = 0
      BY <1>3, <1>4, <3>1 DEF Reads, Ends, Continues
    <3> QED BY <1>6, <1>7, <3>2
  <2> QED BY <2>1, <2>2, <2>3
<1>9. CASE Continues(q)
  <2>1. w = Deliver BY <1>2, <1>9
  <2>2. Sound(c) BY <1>5, ClearReadSound
  <2>3. /\ c.pos = q.pos /\ c.available = q.available /\ c.good = q.good
        /\ c.read_ignore = 0 /\ c.callbacks = r.callbacks
    BY <1>5, <1>7 DEF ClearRead, Good, ClientState
  <2> HIDE DEF c
  <2>4. q.pos + q.available = r.pos + r.available
    BY <1>7, <1>9 DEF Continues
  <2>5. CASE type = publish
    <3>1. w = OnPublish(c, q.remaining_size, h) BY <2>1, <2>5
    <3>2. w.pos \in Nat /\ w.available \in Nat
      <4>1. q.remaining_size \in Nat BY <1>6 DEF Below
      <4>2. Sound(w) BY <2>2, <3>1, <4>1, OnPublishSound
      <4> QED BY <4>2, Fields DEF Sound, Good
    <3>3. /\ c.pos <= w.pos /\ w.good = c.good /\ w.callbacks # c.callbacks
          /\ ~HandlerBlocks /\ c.available + 1 < SizeMod =>
               w.pos + w.available <= c.pos + c.available
      BY <1>6, <2>2, <3>1, OnPublishCounts
    <3>4. r.available + 1 < SizeMod => c.available + 1 < SizeMod
      BY <1>6, <1>7, <2>3, <2>4, Widths
    <3>5. Moves(r, w)
      BY <1>6, <1>7, <2>3, <2>4, <3>2, <3>3, <3>4 DEF Moves
    <3> QED BY <2>3, <3>3, <3>5 DEF Advances
  <2>6. CASE type # publish
    <3>1. w = OnOther(c, h) BY <2>1, <2>6
    <3>2. /\ w.pos = c.pos /\ w.available = c.available /\ w.good = c.good
          /\ w.read_ignore = c.read_ignore /\ w.callbacks # c.callbacks
      BY <2>2, <3>1, OnOtherCounts
    <3>3. Moves(r, w) BY <1>6, <1>7, <2>3, <2>4, <3>2 DEF Moves
    <3> QED BY <2>3, <3>2, <3>3 DEF Advances
  <2> QED BY <2>5, <2>6
<1> QED BY <1>8, <1>9

(* The switch of process_one: only the reserved type gets by it.           *)
LEMMA DispatchCounts ==
  ASSUME NEW r, Sound(r), Continues(r), r.read_ignore = 0, r.available # 0,
         NEW h \in HandlerChoice, NEW q, q = Dispatch(r, h)
  PROVE  Moves(r, q) /\ (r.read_type # reserved => Advances(r, q))
<1>0. r \in ClientState /\ r.pos \in Nat /\ r.available \in Nat
  BY Fields DEF Sound, Good
<1>1. CASE r.read_type = reserved
  <2>1. q = r
    <3>1. r.read_type \notin Handled
      BY <1>1 DEF Handled, reserved, connack, publish, puback, pubrec, pubrel,
         pubcomp, suback, unsuback, pingresp
    <3> QED BY <1>1, <3>1 DEF Dispatch
  <2> QED BY <1>0, <1>1, <2>1 DEF Moves
<1>2. CASE r.read_type # reserved /\ r.read_type \in Handled
  <2>1. q = Handle(r, h) BY <1>2 DEF Dispatch
  <2> QED BY <1>2, <2>1, HandleCounts
<1>3. CASE r.read_type # reserved /\ r.read_type \notin Handled
  <2>1. q = Fail(r, "bad_packet_type") BY <1>3 DEF Dispatch
  <2>2. /\ q.pos = r.pos /\ q.good = r.good /\ q.available = r.available
        /\ q.read_ignore = r.read_ignore /\ q.ec = "bad_packet_type"
    BY <1>0, <2>1 DEF Fail, ClientState
  <2> QED BY <1>0, <2>2 DEF Moves, Advances
<1> QED BY <1>1, <1>2, <1>3

(* A whole call of process_one, from the state it finds to the one it      *)
(* leaves.                                                                 *)
LEMMA ProcessedCounts ==
  ASSUME Sound(client), NEW a \in Below(SizeMod), NEW h \in HandlerChoice,
         Len(wire) + 1 < SizeMod, NEW o, o = Processed(a, h).client
  PROVE  /\ ~HandlerBlocks => o.pos - client.pos <= a
         /\ a > 0 => \/ o.pos > client.pos \/ o.callbacks # client.callbacks
                     \/ o.ec # "none" \/ ~o.good \/ Stalls
<1> DEFINE start == [client EXCEPT !.available = a, !.ok = TRUE, !.ec = "none"]
           b == SkipIgnored(start)
           p == IF b.read_type = reserved THEN PeekType(b) ELSE b
           m == Dispatch(p, h)
           d == SkipIgnored(m)
           returned == (a - d.available + d.overread) % SizeMod
           last == [d EXCEPT !.overread = 0]
<1>1. o = IF b.available = 0 THEN b ELSE IF p.ec # "none" THEN p ELSE last
  BY DEF Processed, Outcome
<1> HIDE DEF returned
<1>2. /\ Sound(start) /\ start.pos = client.pos /\ start.available = a
      /\ start.ok /\ start.ec = "none" /\ start.good = client.good
      /\ start.callbacks = client.callbacks
      /\ start.read_type = client.read_type
      /\ start.read_ignore = client.read_ignore
  <2>1. client \in ClientState BY DEF Sound, Good
  <2>2. start.ok = TRUE BY <2>1 DEF ClientState
  <2> QED BY <2>1, <2>2, StartSound DEF ClientState
<1> HIDE DEF start
<1>3. Sound(b) BY <1>2, SkipIgnoredSound
<1>4. /\ start.pos <= b.pos
      /\ b.pos + b.available <= start.pos + start.available
      /\ b.good => start.good
      /\ b.ok = start.ok /\ b.ec = start.ec /\ b.callbacks = start.callbacks
      /\ b.read_type = start.read_type
      /\ b.available # 0 => b.read_ignore = 0
      /\ start.read_ignore = 0 =>
           b.pos = start.pos /\ b.available = start.available
      /\ start.read_ignore # 0 /\ start.available # 0 /\ b.good =>
           b.pos > start.pos
  BY <1>2, SkipIgnoredCounts
<1> HIDE DEF b
<1>5. Sound(p) BY <1>3, PeekTypeSound
<1>6. /\ p.pos = b.pos /\ p.available = b.available
      /\ p.read_ignore = b.read_ignore /\ p.callbacks = b.callbacks
      /\ p.ok = b.ok /\ (p.good => b.good)
      /\ p.ec = "none" /\ p.good /\ p.read_type = reserved =>
           /\ b.read_type = reserved /\ b.pos < Len(wire)
           /\ wire[b.pos + 1] \div 16 = reserved
  BY <1>3, PeekTypeCounts DEF Sound
<1> HIDE DEF p
<1>7. /\ client.pos \in Nat /\ a \in Nat /\ b.pos \in Nat
      /\ b.available \in Nat /\ Len(wire) \in Nat
  <2>1. client.pos \in Nat /\ a \in Nat /\ Len(wire) \in Nat
    BY Fields DEF Sound, Good, Below
  <2> QED BY <1>3, <2>1, Fields DEF Sound, Good
<1>8. CASE b.available = 0
  <2>1. o = b BY <1>1, <1>8
  <2>2. o.pos - client.pos <= a BY <1>2, <1>4, <1>7, <2>1
  <2>3. a > 0 /\ o.good => o.pos > client.pos
    BY <1>2, <1>4, <1>7, <1>8, <2>1
  <2> QED BY <2>2, <2>3
<1>9. CASE b.available # 0 /\ p.ec # "none"
  <2>1. o = p BY <1>1, <1>9
  <2>2. o.pos - client.pos <= a BY <1>2, <1>4, <1>6, <1>7, <2>1
  <2> QED BY <1>9, <2>1, <2>2
<1>10. CASE b.available # 0 /\ p.ec = "none"
  <2>1. o = last BY <1>1, <1>10
  <2>2. Continues(p) /\ p.read_ignore = 0 /\ p.available # 0
    BY <1>2, <1>4, <1>6, <1>10 DEF Continues
  <2>3. Sound(m) BY <1>5, <2>2, DispatchSound
  <2>4. Moves(p, m) /\ (p.read_type # reserved => Advances(p, m))
    BY <1>5, <2>2, DispatchCounts
  <2> HIDE DEF m
  <2>5. Sound(d) BY <2>3, SkipIgnoredSound
  <2>6. /\ m.pos <= d.pos /\ d.pos + d.available <= m.pos + m.available
        /\ d.good => m.good
        /\ d.ec = m.ec /\ d.callbacks = m.callbacks
        /\ m.read_ignore = 0 => d.pos = m.pos
    BY <2>3, SkipIgnoredCounts
  <2> HIDE DEF d
  <2>7. /\ m.pos \in Nat /\ m.available \in Nat /\ m.good \in BOOLEAN
        /\ d.pos \in Nat /\ d.available \in Nat /\ d.good \in BOOLEAN
        /\ p.good \in BOOLEAN /\ d.pos <= Len(wire)
    BY <1>5, <2>3, <2>5, Fields DEF Sound, Good
  <2>8. /\ o.pos = d.pos /\ o.good = d.good /\ o.ec = d.ec
        /\ o.callbacks = d.callbacks
    BY <2>1, <2>5 DEF Sound, Good, ClientState
  <2> HIDE DEF last
  <2>9. ~HandlerBlocks => o.pos - client.pos <= a
    <3>1. CASE p.available + 1 < SizeMod
      <4>1. ~HandlerBlocks => d.pos <= p.pos + p.available
        <5> SUFFICES ASSUME ~HandlerBlocks PROVE d.pos <= p.pos + p.available
          OBVIOUS
        <5>1. /\ m.pos <= p.pos + p.available
              /\ \/ m.read_ignore = 0
                 \/ m.pos + m.available <= p.pos + p.available
          BY <2>4, <3>1, Zenon DEF Moves
        <5>2. p.pos \in Nat /\ p.available \in Nat BY <1>6, <1>7
        <5>3. CASE m.read_ignore = 0 BY <2>6, <5>1, <5>3
        <5>4. CASE m.pos + m.available <= p.pos + p.available
          BY <2>6, <2>7, <5>2, <5>4
        <5> QED BY <5>1, <5>3, <5>4
      <4> QED BY <1>2, <1>4, <1>6, <1>7, <2>7, <2>8, <4>1
    <3>2. CASE ~(p.available + 1 < SizeMod)
      BY <1>2, <1>4, <1>6, <1>7, <2>7, <2>8, <3>2, Widths, SMTT(30)
    <3> QED BY <3>1, <3>2
  <2>10. ASSUME a > 0, o.ec = "none", o.good
         PROVE  \/ o.pos > client.pos \/ o.callbacks # client.callbacks
                \/ Stalls
    <3>1. m.good /\ p.good /\ b.good
      BY <1>6, <2>4, <2>6, <2>8, <2>10 DEF Moves
    <3>2. CASE p.read_type = reserved
      <4>1. /\ client.read_type = reserved /\ b.pos < Len(wire)
            /\ wire[b.pos + 1] \div 16 = reserved
        BY <1>2, <1>4, <1>6, <1>10, <3>1, <3>2
      <4>2. CASE client.read_ignore = 0
        <5>1. b.pos = client.pos BY <1>2, <1>4, <4>2
        <5> QED BY <4>1, <4>2, <5>1 DEF Stalls
      <4>3. CASE client.read_ignore # 0
        <5>1. b.pos > client.pos BY <1>2, <1>4, <1>7, <2>10, <3>1, <4>3
        <5>2. p.pos <= m.pos BY <2>4 DEF Moves
        <5> QED BY <1>6, <1>7, <2>6, <2>7, <2>8, <5>1, <5>2
      <4> QED BY <4>2, <4>3
    <3>3. CASE p.read_type # reserved
      <4>1. m.pos > p.pos \/ m.callbacks # p.callbacks
        BY <2>4, <2>6, <2>8, <2>10, <3>1, <3>3 DEF Advances
      <4>2. CASE m.pos > p.pos
        BY <1>2, <1>4, <1>6, <1>7, <2>6, <2>7, <2>8, <4>2, SMTT(30)
      <4>3. CASE m.callbacks # p.callbacks
        BY <1>2, <1>4, <1>6, <2>6, <2>8, <4>3
      <4> QED BY <4>1, <4>2, <4>3
    <3> QED BY <3>2, <3>3
  <2> QED BY <2>9, <2>10
<1> QED BY <1>8, <1>9, <1>10

-----------------------------------------------------------------------------
(* Inductive: the types and, of the private state, what Sound says.        *)
ClientInvariant == TypeOK /\ Sound(client)

(* A client is constructed sound.                                          *)
LEMMA InitialSound ==
  ASSUME wire \in Seq(Byte), client = InitialClient
  PROVE  Sound(client)
<1> DEFINE f == Fresh(reserved)
<1>1. client \in ClientState BY InitialState
<1>2. /\ client.pos = 0 /\ client.read_header = f /\ client.ec = "none"
      /\ client.sequence = 0 /\ client.remaining_size = 5
      /\ client.data0 = 0 /\ client.data1 = 0
  BY DEF InitialClient
<1>3. Len(f.topic) = 0 BY DEF Fresh
<1> HIDE DEF f
<1>4. 0 <= Len(wire) OBVIOUS
<1>5. Good(client)
  BY <1>1, <1>2, <1>3, <1>4, ReaderAssumption DEF Good, ReaderAssumption
<1> QED BY <1>2, <1>5 DEF Sound, Idle

(* What the caller may pass for `available' is a std::size_t.              *)
LEMMA OfferedFits ==
  ASSUME TypeOK, NEW a \in Offered
  PROVE  a \in Below(SizeMod)
<1>1. client.pos \in Nat BY Fields DEF TypeOK
<1>2. PICK half \in Nat : half = SizeMod \div 2 /\ half <= SizeMod BY Widths
<1>3. Len(wire) \in Nat /\ Len(wire) < half
  BY <1>2, ClientAssumption DEF ClientAssumption, TypeOK
<1>4. a \in 0 .. (Len(wire) - client.pos) \/ a = SizeMod - 1 BY DEF Offered
<1> QED BY <1>1, <1>2, <1>3, <1>4, Widths DEF Below

(* Every call of process_one keeps the invariant.                          *)
LEMMA ClientInvariantStep ==
  ASSUME ClientInvariant, NEW a \in Offered, NEW h \in Handlers,
         ProcessOne(a, h)
  PROVE  ClientInvariant'
<1> DEFINE o == Processed(a, h)
<1>1. /\ client' = o.client /\ wire' = wire
      /\ call' = [available |-> a, from |-> client.pos, returned |-> o.returned]
  BY DEF ProcessOne
<1>2. a \in Below(SizeMod) BY OfferedFits DEF ClientInvariant
<1>3. h \in HandlerChoice BY ClientAssumption DEF ClientAssumption
<1>4. Sound(o.client) /\ o.returned \in Below(SizeMod)
  BY <1>2, <1>3, ProcessedSound DEF ClientInvariant
<1>5. client.pos \in Nat BY Fields DEF ClientInvariant, TypeOK
<1> HIDE DEF o
<1>6. Sound(client)' BY <1>1, <1>4 DEF Sound, Good, Idle
<1>7. client' \in ClientState BY <1>6 DEF Sound, Good
<1>8. call' \in Call BY <1>1, <1>2, <1>4, <1>5 DEF Call
<1>9. wire' \in Wires BY <1>1 DEF ClientInvariant, TypeOK
<1> QED BY <1>6, <1>7, <1>8, <1>9 DEF ClientInvariant, TypeOK

(* Sound is an invariant for every width of the integers, size of the      *)
(* topic container, stream, cut of it into calls, handler and error after  *)
(* which the caller goes on.                                               *)
THEOREM ClientInvariantTheorem == Spec => []ClientInvariant
<1>1. Init => ClientInvariant
  <2> SUFFICES ASSUME Init PROVE ClientInvariant OBVIOUS
  <2>1. wire \in Wires /\ client = InitialClient BY DEF Init
  <2>2. wire \in Seq(Byte) BY <2>1, ClientAssumption DEF ClientAssumption
  <2>3. Sound(client) BY <2>1, <2>2, InitialSound
  <2>4. client \in ClientState BY <2>3 DEF Sound, Good
  <2>5. call \in Call
    <3>1. 0 \in Below(SizeMod) BY Widths DEF Below
    <3> QED BY <3>1 DEF Init, Call
  <2> QED BY <2>1, <2>3, <2>4, <2>5 DEF ClientInvariant, TypeOK
<1>2. ClientInvariant /\ [Next]_vars => ClientInvariant'
  <2> SUFFICES ASSUME ClientInvariant, [Next]_vars PROVE ClientInvariant'
    OBVIOUS
  <2>1. CASE Next BY <2>1, ClientInvariantStep DEF Next
  <2>2. CASE UNCHANGED vars
    BY <2>2 DEF vars, ClientInvariant, TypeOK, Sound, Good, Idle
  <2> QED BY <2>1, <2>2
<1> QED BY <1>1, <1>2, PTL DEF Spec

(* No call of process_one ever dereferences the null pointer that get()    *)
(* returns for another alternative than the one held: a packet once begun  *)
(* is finished in the alternative emplaced for it.                         *)
THEOREM HeaderMatchesTypeTheorem == Spec => []HeaderMatchesType
<1>1. ClientInvariant => HeaderMatchesType
  BY DEF ClientInvariant, Sound, HeaderMatchesType
<1> QED BY <1>1, ClientInvariantTheorem, PTL

(* Between two packets the Read_context is as _clear_read leaves it, so    *)
(* that no packet can be read with the scratch data of another.            *)
THEOREM FreshBetweenPacketsTheorem == Spec => []FreshBetweenPackets
<1>1. ClientInvariant => FreshBetweenPackets
  BY DEF ClientInvariant, Sound, Idle, FreshBetweenPackets
<1> QED BY <1>1, ClientInvariantTheorem, PTL

(* read_blob never pushes a byte onto a topic that is full.                *)
THEOREM TopicFitsTheorem == Spec => []TopicFits
<1>1. ClientInvariant => TopicFits
  BY DEF ClientInvariant, Sound, Good, TopicFits
<1> QED BY <1>1, ClientInvariantTheorem, PTL

(* Every private member stays within its type, also where the code lets an *)
(* unsigned subtraction wrap.                                              *)
THEOREM TypeTheorem == Spec => []TypeOK
<1>1. ClientInvariant => TypeOK BY DEF ClientInvariant
<1> QED BY <1>1, ClientInvariantTheorem, PTL

(* What a step of the specification is, to one call.                       *)
LEMMA StepCounts ==
  ASSUME ClientInvariant, Next
  PROVE  /\ NeverBlocks'
         /\ call'.available > 0 =>
              \/ client'.pos > client.pos
              \/ client'.callbacks # client.callbacks
              \/ client'.ec # "none" \/ ~client'.good \/ Stalls
<1>1. PICK a \in Offered, h \in Handlers : ProcessOne(a, h) BY DEF Next
<1>2. /\ client' = Processed(a, h).client
      /\ call'.available = a /\ call'.from = client.pos
  BY <1>1 DEF ProcessOne
<1>3. a \in Below(SizeMod) BY OfferedFits DEF ClientInvariant
<1>4. h \in HandlerChoice BY ClientAssumption DEF ClientAssumption
<1>5. Len(wire) + 1 < SizeMod
  <2>1. PICK half \in Nat : half = SizeMod \div 2 /\ half + half <= SizeMod
    BY Widths
  <2>2. Len(wire) \in Nat /\ Len(wire) < half
    BY <2>1, ClientAssumption DEF ClientAssumption, ClientInvariant, TypeOK
  <2> QED BY <2>1, <2>2, Widths
<1>6. Sound(client) BY DEF ClientInvariant
<1>7. /\ ~HandlerBlocks => client'.pos - client.pos <= a
      /\ a > 0 => \/ client'.pos > client.pos
                  \/ client'.callbacks # client.callbacks
                  \/ client'.ec # "none" \/ ~client'.good \/ Stalls
  BY <1>2, <1>3, <1>4, <1>5, <1>6, ProcessedCounts
<1> QED BY <1>2, <1>7 DEF NeverBlocks

(* process_one takes no byte beyond the available ones from the stream,    *)
(* whatever it is in the middle of and even where its own count of them    *)
(* wraps, unless a handler does.                                           *)
THEOREM NeverBlocksTheorem == Spec => []NeverBlocks
<1>1. Init => NeverBlocks BY DEF Init, InitialClient, NeverBlocks
<1>2. ClientInvariant /\ NeverBlocks /\ [Next]_vars => NeverBlocks'
  BY StepCounts DEF vars, NeverBlocks
<1> QED BY <1>1, <1>2, ClientInvariantTheorem, PTL DEF Spec

(* A caller that polls a good stream never spins on a packet, except one   *)
(* of the reserved type: every call that is offered bytes takes one,       *)
(* delivers a packet or reports an error.                                  *)
THEOREM ProgressesTheorem == Spec => Progresses
<1>1. ClientInvariant /\ [Next]_vars =>
        [call'.available > 0 =>
           \/ client'.pos > client.pos
           \/ client'.callbacks # client.callbacks
           \/ client'.ec # "none" \/ ~client'.good \/ Stalls]_vars
  BY StepCounts
<1> QED BY <1>1, ClientInvariantTheorem, PTL DEF Spec, Progresses

-----------------------------------------------------------------------------
(* What holds of a packet in progress besides, as long as `sequence' does  *)
(* not wrap: see Begun and Counted.                                        *)
Paced(r) ==
  /\ Begun(r)
  /\ r.read_type # suback => r.sequence <= 4
  /\ r.read_type = suback /\ r.sequence > 0 => Counted(r)

(* It looks at the packet in progress only.                                *)
LEMMA SamePaced ==
  ASSUME NEW r, NEW q, Paced(r), SamePacket(r, q)
  PROVE  Paced(q)
<1>1. q.data0 = r.data0 /\ q.data1 = r.data1
      /\ q.remaining_size = r.remaining_size /\ q.sequence = r.sequence
      /\ q.read_header = r.read_header /\ q.read_type = r.read_type
  BY DEF SamePacket
<1>2. Fits(r) => Fits(q) BY <1>1 DEF Fits, Shifted
<1>3. Begun(q) BY <1>1, <1>2 DEF Paced, Begun
<1>4. q.read_type # suback => q.sequence <= 4 BY <1>1 DEF Paced
<1>5. q.read_type = suback /\ q.sequence > 0 => Counted(q)
  BY <1>1 DEF Paced, Counted
<1> QED BY <1>3, <1>4, <1>5 DEF Paced

(* Nothing of a packet is read by an idle client.                          *)
LEMMA IdlePaced ==
  ASSUME NEW r, Idle(r)
  PROVE  Paced(r)
<1>1. r.sequence = 0 /\ r.sequence <= 4 /\ ~(r.sequence > 0) BY DEF Idle
<1>2. Begun(r) BY DEF Idle, Begun
<1> QED BY <1>1, <1>2 DEF Paced

(* The _handle_... functions: a packet that is complete leaves an idle     *)
(* client.                                                                 *)
LEMMA HandlePaced ==
  ASSUME NEW r, Sound(r), Paced(r), Continues(r), r.read_type \in Handled,
         NEW h \in HandlerChoice, NEW w, w = Handle(r, h), Few(w)
  PROVE  Paced(w)
<1> DEFINE type == r.read_type
           s == Emplace(r, type)
           q == ReadPacket(s, type)
           c == ClearRead(q)
           Deliver == IF type = publish THEN OnPublish(c, q.remaining_size, h)
                                        ELSE OnOther(c, h)
<1>1. /\ Good(s) /\ s.read_type = type /\ s.read_header.index = type
      /\ s.ec = r.ec /\ Continues(s) /\ (type = unsuback => s.sequence <= 2)
      /\ s.sequence = r.sequence
  BY EmplaceGood DEF Sound, Continues, SameStream
<1>2. w = IF Continues(q) THEN Deliver ELSE q
  BY <1>1 DEF Handle, Then
<1>3. Begun(s) /\ (type # suback => s.sequence <= 4)
      /\ (type = suback => Counted(s))
  <2>1. r \in ClientState /\ r.sequence \in 0 .. 255
    <3>1. r \in ClientState BY DEF Sound, Good
    <3> QED BY <3>1, Fields, Zenon
  <2>2. CASE r.sequence # 0
    <3>1. s = r BY <2>2 DEF Emplace
    <3> QED BY <2>1, <2>2, <3>1 DEF Paced
  <2>3. CASE r.sequence = 0
    <3> DEFINE f == Fresh(type)
    <3>1. s = [r EXCEPT !.read_header = f] BY <2>3 DEF Emplace
    <3>2. f.return_codes = <<>> BY DEF Fresh
    <3> HIDE DEF f, s
    <3>3. /\ s.data0 = r.data0 /\ s.data1 = r.data1
          /\ s.remaining_size = r.remaining_size /\ s.read_header = f
      BY <2>1, <3>1, Zenon DEF ClientState
    <3>4. s.sequence = 0 /\ s.sequence <= 4 /\ ~(s.sequence > 3)
      BY <1>1, <2>3
    <3>5. Len(s.read_header.return_codes) = 0 BY <3>2, <3>3
    <3>6. Counted(s) BY <3>4, <3>5 DEF Counted
    <3>7. Begun(s) BY <1>1, <2>3, <3>3 DEF Begun, Paced
    <3> QED BY <3>4, <3>6, <3>7
  <2> QED BY <2>2, <2>3
<1>4. s.ec # "bad_variant_cast" BY <1>1 DEF Sound
<1> HIDE DEF s
<1>5. Reads(s, q) BY <1>1, ReadPacketReads
<1>6. ~Continues(q) /\ Few(q) =>
        /\ Begun(q) /\ (type # suback => q.sequence <= 4)
        /\ type = suback => Counted(q)
  BY <1>1, <1>3, ReadPacketBegun
<1> HIDE DEF q
<1>7. Good(q) /\ q.ec # "bad_variant_cast" /\ q.read_type = type
  BY <1>1, <1>4, <1>5 DEF Reads, Keeps
<1>8. CASE ~Continues(q)
  <2>1. w = q BY <1>2, <1>8
  <2> QED BY <1>6, <1>7, <1>8, <2>1 DEF Paced
<1>9. CASE Continues(q)
  <2>1. Sound(c) BY <1>7, ClearReadSound
  <2>2. c.read_type = reserved
    BY <1>7, Zenon DEF ClearRead, Good, ClientState
  <2> HIDE DEF c
  <2>3. q.remaining_size \in Below(WordMod) /\ q.remaining_size \in Nat
    BY <1>7, Fields DEF Good
  <2>4. Sound(w) /\ w.read_type = reserved
    <3>1. CASE type = publish
      <4>1. w = OnPublish(c, q.remaining_size, h) BY <1>2, <1>9, <3>1
      <4>2. Sound(w) BY <2>1, <2>3, <4>1, OnPublishSound
      <4>3. w.read_type = c.read_type BY <2>1, <2>3, <4>1, OnPublishCounts
      <4> QED BY <2>2, <4>2, <4>3
    <3>2. CASE type # publish
      <4>1. w = OnOther(c, h) BY <1>2, <1>9, <3>2
      <4>2. Sound(w) BY <2>1, <4>1, OnOtherSound
      <4>3. w.read_type = c.read_type BY <2>1, <4>1, OnOtherCounts
      <4> QED BY <2>2, <4>2, <4>3
    <3> QED BY <3>1, <3>2
  <2> QED BY <2>4, IdlePaced DEF Sound
<1> QED BY <1>8, <1>9

(* The switch of process_one.                                              *)
LEMMA DispatchPaced ==
  ASSUME NEW r, Sound(r), Paced(r), Continues(r), NEW h \in HandlerChoice,
         NEW q, q = Dispatch(r, h), Few(q)
  PROVE  Paced(q)
<1>1. CASE r.read_type = reserved
  <2>1. r.read_type \notin Handled
    BY <1>1 DEF Handled, reserved, connack, publish, puback, pubrec, pubrel,
       pubcomp, suback, unsuback, pingresp
  <2> QED BY <1>1, <2>1 DEF Dispatch
<1>2. CASE r.read_type # reserved /\ r.read_type \in Handled
  <2>1. q = Handle(r, h) BY <1>2 DEF Dispatch
  <2> QED BY <1>2, <2>1, HandlePaced
<1>3. CASE r.read_type # reserved /\ r.read_type \notin Handled
  <2>1. q = Fail(r, "bad_packet_type") BY <1>3 DEF Dispatch
  <2>2. SamePacket(r, q) BY <2>1, Zenon DEF Fail, Sound, Good, SamePacket,
        ClientState
  <2> QED BY <2>2, SamePaced
<1> QED BY <1>1, <1>2, <1>3

(* The scratch data is not for _skip_ignored.                              *)
LEMMA SkipIgnoredSame ==
  ASSUME NEW r, Sound(r)
  PROVE  SamePacket(r, SkipIgnored(r))
<1>1. r \in ClientState BY DEF Sound, Good
<1> DEFINE skip == StdMin(r.read_ignore, r.available)
           got  == Got(r, skip)
           p    == r.pos + got
           g    == r.good /\ got = skip
           i    == r.read_ignore - skip
           a    == r.available - skip
           q    == [r EXCEPT !.pos = p, !.good = g, !.read_ignore = i,
                             !.available = a]
<1>2. SkipIgnored(r) = q BY DEF SkipIgnored
<1> HIDE DEF skip, got, p, g, i, a
<1>3. SamePacket(r, q) BY <1>1, Zenon DEF SamePacket, ClientState
<1> QED BY <1>2, <1>3

(* A call of process_one.                                                  *)
LEMMA ProcessedPaced ==
  ASSUME Sound(client), Paced(client), NEW a \in Below(SizeMod),
         NEW h \in HandlerChoice, NEW o, o = Processed(a, h).client, Few(o)
  PROVE  Paced(o)
<1> DEFINE start == [client EXCEPT !.available = a, !.ok = TRUE, !.ec = "none"]
           b == SkipIgnored(start)
           p == IF b.read_type = reserved THEN PeekType(b) ELSE b
           m == Dispatch(p, h)
           d == SkipIgnored(m)
           returned == (a - d.available + d.overread) % SizeMod
           last == [d EXCEPT !.overread = 0]
<1>1. o = IF b.available = 0 THEN b
          ELSE IF p.ec # "none" THEN p
          ELSE last
  BY DEF Processed, Outcome
<1>2. Sound(start) /\ Paced(start) /\ start.ok
  <2>1. client \in ClientState BY DEF Sound, Good
  <2>2. start.ok = TRUE BY <2>1 DEF ClientState
  <2>3. SamePacket(client, start) BY <2>1, Zenon DEF SamePacket, ClientState
  <2> QED BY <2>2, <2>3, StartSound, SamePaced
<1> HIDE DEF start
<1>3. Sound(b) /\ b.ok /\ Paced(b)
  BY <1>2, SkipIgnoredSound, SkipIgnoredCounts, SkipIgnoredSame, SamePaced
<1> HIDE DEF b
<1>4. Sound(p) /\ p.ok /\ Paced(p)
  <2>1. CASE b.read_type # reserved BY <1>3, <2>1
  <2>2. CASE b.read_type = reserved
    <3>1. Good(b) /\ Idle(b) BY <1>3, <2>2 DEF Sound
    <3>2. p = PeekType(b) BY <2>2
    <3>3. Sound(p) /\ p.ok
      BY <1>3, <2>2, <3>1, <3>2, PeekTypeSound, PeekTypeCounts
    <3>4. Idle(p) BY <3>1, <3>2, PeekTypeGood DEF Idle
    <3> QED BY <3>3, <3>4, IdlePaced
  <2> QED BY <2>1, <2>2
<1> HIDE DEF p
<1>5. CASE b.available = 0 BY <1>1, <1>3, <1>5
<1>6. CASE b.available # 0 /\ p.ec # "none" BY <1>1, <1>4, <1>6
<1>7. CASE b.available # 0 /\ p.ec = "none"
  <2>1. o = last BY <1>1, <1>7
  <2>2. Continues(p) BY <1>4, <1>7 DEF Continues
  <2>3. Sound(m) BY <1>4, <2>2, DispatchSound
  <2>4. Few(m) => Paced(m) BY <1>4, <2>2, DispatchPaced
  <2> HIDE DEF m
  <2>5. Sound(d) /\ SamePacket(m, d)
    BY <2>3, SkipIgnoredSound, SkipIgnoredSame
  <2> HIDE DEF d
  <2>6. SamePacket(d, last)
    BY <2>5, Zenon DEF Sound, Good, SamePacket, ClientState
  <2> HIDE DEF last
  <2>7. o.read_header = m.read_header /\ SamePacket(m, o)
    BY <2>1, <2>5, <2>6 DEF SamePacket
  <2>8. Few(m) BY <2>7 DEF Few
  <2> QED BY <2>4, <2>7, <2>8, SamePaced
<1> QED BY <1>5, <1>6, <1>7

(* No SUBACK has more return codes than `sequence', a std::uint8_t, counts *)
(* besides the three elements before them.                                 *)
FewCodes == Few(client)

(* The multiplier and the sum of a variable integer never overflow, and    *)
(* stay in step with the bytes read of it, however these arrive and        *)
(* whatever error a caller goes on after: for streams whose SUBACKs have   *)
(* at most 252 return codes.  With more of them the code takes the return  *)
(* codes for the length once `sequence' has wrapped to 1.                  *)
THEOREM VariableIntegerFitsTheorem ==
  Spec /\ []FewCodes => []VariableIntegerFits
<1>1. Init => Paced(client)
  <2> SUFFICES ASSUME Init PROVE Paced(client) OBVIOUS
  <2>1. Idle(client) BY DEF Init, InitialClient, Idle
  <2> QED BY <2>1, IdlePaced
<1>2. ClientInvariant /\ Paced(client) /\ FewCodes' /\ [Next]_vars =>
        Paced(client)'
  <2> SUFFICES ASSUME ClientInvariant, Paced(client), FewCodes', [Next]_vars
               PROVE  Paced(client)'
    OBVIOUS
  <2>1. PICK r : r = client' OBVIOUS
  <2>2. Paced(r) => Paced(client)'
    BY <2>1, Zenon DEF Paced, Begun, Counted, Fits, Shifted
  <2>3. CASE Next
    <3>1. PICK a \in Offered, h \in Handlers : ProcessOne(a, h)
      BY <2>3 DEF Next
    <3>2. r = Processed(a, h).client BY <2>1, <3>1 DEF ProcessOne
    <3>3. a \in Below(SizeMod) BY OfferedFits DEF ClientInvariant
    <3>4. h \in HandlerChoice BY ClientAssumption DEF ClientAssumption
    <3>5. Few(r) BY <2>1, Zenon DEF FewCodes, Few
    <3>6. Paced(r)
      BY <3>2, <3>3, <3>4, <3>5, ProcessedPaced DEF ClientInvariant
    <3> QED BY <2>2, <3>6
  <2>4. CASE UNCHANGED vars
    <3>1. r = client BY <2>1, <2>4 DEF vars
    <3> QED BY <2>2, <3>1
  <2> QED BY <2>3, <2>4
<1>3. ClientInvariant /\ Paced(client) => VariableIntegerFits
  <2> SUFFICES ASSUME ClientInvariant, Paced(client), client.sequence = 1
               PROVE  \/ client.data0 = 0 /\ client.data1 \in {0, 1}
                      \/ \E k \in 1 .. 4 :
                           /\ client.data1 = 128 ^ k
                           /\ client.data0 < 128 ^ k
                           /\ client.remaining_size = 4 - k
    BY DEF VariableIntegerFits
  <2>1. Fits(client) BY DEF Paced, Begun
  <2>2. client.data0 \in Nat BY Fields DEF ClientInvariant, TypeOK
  <2>3. CASE client.data0 = 0 /\ client.data1 = 0 BY <2>3
  <2>4. ASSUME NEW k \in 0 .. 4, Shifted(client, k), k = 0
        PROVE  client.data0 = 0 /\ client.data1 = 1
    <3>1. 128 ^ 0 = 1 BY Powers, SMT
    <3>2. client.data1 = 1 /\ client.data0 < 1
      BY <2>4, <3>1, Zenon DEF Shifted
    <3> QED BY <2>2, <3>2
  <2>5. ASSUME NEW k \in 0 .. 4, Shifted(client, k), k # 0
        PROVE  \E n \in 1 .. 4 :
                 /\ client.data1 = 128 ^ n /\ client.data0 < 128 ^ n
                 /\ client.remaining_size = 4 - n
    <3>1. k \in 1 .. 4 BY <2>5
    <3> QED BY <2>5, <3>1, Zenon DEF Shifted
  <2> QED BY <2>1, <2>3, <2>4, <2>5 DEF Fits
<1> QED BY <1>1, <1>2, <1>3, ClientInvariantTheorem, PTL DEF Spec
=============================================================================
