---------------------------- MODULE Session_proofs ----------------------------
(***************************************************************************)
(* The safety properties of Session hold for every inbox, every size of    *)
(* packets and containers, every bound on the calls and every place where  *)
(* a stream may break.                                                     *)
(***************************************************************************)
EXTENDS Session, Output_proofs

(* A handler is entered for a message, with a clear error_code that it     *)
(* shares with the calls it makes.                                         *)
HandlerInv == InHandler => ec \in SendError /\ read # 0

(* Types, to which the properties below are added. *)
TypeInv == SessionTypeOK /\ HandlerInv

(* What a SUBACK or PUBLISH in the inbox may be. *)
LEMMA InboxType ==
  ASSUME SessionTypeOK, NEW i \in 1 .. Len(inbox)
  PROVE  /\ inbox[i].type \in Handled /\ inbox[i].qos \in 0 .. 2
         /\ inbox[i].id \in Below(65536) /\ inbox[i].topic \in Nat
         /\ inbox[i].size \in Below(WordMod) /\ inbox[i].there \in Nat
         /\ inbox[i].codes \in Nat
<1>1. inbox \in Seq(Message)
  BY SessionAssumption DEF SessionAssumption, SessionTypeOK
<1>2. inbox[i] \in Message
  BY <1>1
<1> QED BY <1>2 DEF Message

(* The packets of the loop and of the handler. *)
LEMMA OwnPackets ==
  /\ PublishPacket(3, 21, 0) \in Packet /\ Sound(PublishPacket(3, 21, 0))
  /\ \A id \in Below(65536) : PubackPacket(id) \in Packet
                              /\ Sound(PubackPacket(id))
  /\ PingreqPacket \in Packet /\ Sound(PingreqPacket)
  /\ DisconnectPacket \in Packet /\ Sound(DisconnectPacket)
<1>1. /\ puback \in 1 .. 14 /\ pingreq \in 1 .. 14 /\ disconnect \in 1 .. 14
      /\ 0 \in Below(65536)
  BY DEF puback, pingreq, disconnect, Below
<1>2. PublishPacket(3, 21, 0) \in Packet /\ Sound(PublishPacket(3, 21, 0))
  BY PublishPacketSound
<1> QED BY <1>1, <1>2, BareSound
        DEF PubackPacket, PingreqPacket, DisconnectPacket

(* Which of the packets end a session. *)
LEMMA OnlyDisconnectEnds ==
  /\ \A t, b, q : PublishPacket(t, b, q).type # disconnect
  /\ \A id : PubackPacket(id).type # disconnect
  /\ PingreqPacket.type # disconnect
  /\ DisconnectPacket.type = disconnect
  /\ \A h : ConnectPacket(h).type # disconnect
  /\ \A f : SubscribePacket(f).type # disconnect
            /\ UnsubscribePacket(f).type # disconnect
BY DEF PublishPacket, PubackPacket, PingreqPacket, DisconnectPacket, Bare,
       ConnectPacket, SubscribePacket, UnsubscribePacket, WithStrings,
       publish, puback, pingreq, disconnect, connect, subscribe, unsubscribe

(* A packet the client itself may send while it goes on. *)
Sendable(p) == p \in Packet /\ Sound(p) /\ p.type # disconnect

(* The error_codes an application may pass. *)
LEMMA GivenType == Given \subseteq SendError
BY DEF Given, SendError

(* What a step does to the output: it sends a sound packet, disconnects or *)
(* leaves it alone.                                                        *)
SendsOne == \E p \in Packet, e \in SendError :
              Sendable(p) /\ Send(p, e) /\ UNCHANGED attached
Disconnects == \E e \in SendError : Disconnect(e)
SendsNothing == UNCHANGED <<output, calls, attached>>

(* An application's request is one sound packet. *)
LEMMA RequestSends ==
  ASSUME NEW p, Sendable(p), Request(p)
  PROVE  SendsOne
<1>1. PICK e \in Given : Send(p, e) /\ UNCHANGED attached
  BY DEF Request
<1> QED BY <1>1, GivenType DEF SendsOne, Sendable

(* Every step does one of the three. *)
LEMMA StepSends ==
  ASSUME TypeInv, [SessionNext]_sessionVars
  PROVE  SendsOne \/ Disconnects \/ SendsNothing
<1>1. "none" \in SendError
  BY DEF SendError
<1>2. CASE UNCHANGED sessionVars \/ Poll \/ Look \/ Extract \/ StopReading
           \/ Return \/ Wait \/ UpdateIdles \/ UpdateTimesOut
  BY <1>2 DEF sessionVars, Poll, Look, Extract, StopReading, Return, Wait,
              UpdateIdles, UpdateTimesOut, SendsNothing
<1>3. CASE Log
  <2>1. ec \in SendError
    BY <1>3 DEF TypeInv, HandlerInv, Log, InHandler
  <2>2. Send(PublishPacket(3, 21, 0), ec) /\ UNCHANGED attached
    BY <1>3 DEF Log
  <2> QED BY <2>1, <2>2, OwnPackets, OnlyDisconnectEnds DEF SendsOne, Sendable
<1>4. CASE Ack
  <2>1. ec \in SendError
    BY <1>4 DEF TypeInv, HandlerInv, Ack, InHandler
  <2>2. CASE UNCHANGED <<output, calls, ec>>
    BY <1>4, <2>2 DEF Ack, SendsNothing
  <2>3. CASE ~UNCHANGED <<output, calls, ec>>
    <3>1. /\ Send(PubackPacket(inbox[read].id), ec) /\ UNCHANGED attached
          /\ inbox[read].qos = 1
      BY <1>4, <2>3 DEF Ack
    <3> SUFFICES inbox[read].id \in Below(65536)
      BY <2>1, <3>1, OwnPackets, OnlyDisconnectEnds DEF SendsOne, Sendable
    <3>2. read \in 1 .. Len(inbox)
      BY <1>4 DEF TypeInv, HandlerInv, SessionTypeOK, Ack, InHandler
    <3> QED BY <3>2, InboxType DEF TypeInv
  <2> QED BY <2>2, <2>3
<1>5. CASE UpdatePings
  BY <1>1, <1>5, OwnPackets, OnlyDisconnectEnds
     DEF UpdatePings, SendsOne, Sendable
<1>6. CASE Connect
  <2>1. PICK h \in Headers : Request(ConnectPacket(h))
    BY <1>6 DEF Connect
  <2>2. h \in ConnectHeader
    BY <2>1, SessionAssumption DEF SessionAssumption
  <2> QED BY <2>1, <2>2, ConnectPacketSound, OnlyDisconnectEnds, RequestSends
          DEF Sendable
<1>7. CASE Subscribe
  <2>1. PICK f \in Filters : Request(SubscribePacket(f))
    BY <1>7 DEF Subscribe
  <2>2. f \in Strings
    BY <2>1, SessionAssumption DEF SessionAssumption
  <2> QED BY <2>1, <2>2, FilterPacketSound, OnlyDisconnectEnds, RequestSends
          DEF Sendable
<1>8. CASE Unsubscribe
  <2>1. PICK f \in Filters : Request(UnsubscribePacket(f))
    BY <1>8 DEF Unsubscribe
  <2>2. f \in Strings
    BY <2>1, SessionAssumption DEF SessionAssumption
  <2> QED BY <2>1, <2>2, FilterPacketSound, OnlyDisconnectEnds, RequestSends
          DEF Sendable
<1>9. CASE Publish
  <2>1. PICK p \in Publications :
          Request(PublishPacket(p.topic, p.payload, p.qos))
    BY <1>9 DEF Publish
  <2>2. p.topic \in Nat /\ p.payload \in Nat /\ p.qos \in 0 .. 2
    BY <2>1, SessionAssumption DEF SessionAssumption
  <2> QED BY <2>1, <2>2, PublishPacketSound, OnlyDisconnectEnds, RequestSends
          DEF Sendable
<1>10. CASE Quit
  BY <1>10, GivenType DEF Quit, Disconnects
<1>11. CASE Destroy
  BY <1>1, <1>11 DEF Destroy, Disconnects
<1> QED BY <1>2, <1>3, <1>4, <1>5, <1>6, <1>7, <1>8, <1>9, <1>10, <1>11
        DEF SessionNext, Handling, Updating

-----------------------------------------------------------------------------
(* What is on the stream, and that nothing follows a DISCONNECT.           *)
StreamInv ==
  /\ OutputInv /\ ReportsWhatWasSent /\ TornOnlyWhenTooLong
  /\ NothingAfterDisconnect
  /\ attached => \A k \in 1 .. Len(calls) :
                   calls[k].packet.type # disconnect

(* The part of it that does not look at the stage. *)
LastDisconnects ==
  /\ \A k \in 1 .. Len(calls) :
       calls[k].packet.type = disconnect => k = Len(calls) /\ ~attached
  /\ attached => \A k \in 1 .. Len(calls) :
                   calls[k].packet.type # disconnect

(* A call adds one record. *)
LEMMA SendRecords ==
  ASSUME OutputInv, NEW p \in Packet, NEW e \in SendError, Send(p, e)
  PROVE  /\ Len(calls') = Len(calls) + 1 /\ Len(calls) \in Nat
         /\ calls'[Len(calls) + 1].packet = p
         /\ \A k \in 1 .. Len(calls) : calls'[k] = calls[k]
<1> DEFINE record == [packet |-> p, given |-> e, ec |-> Reported(p, e)]
<1>1. calls' = Append(calls, record) /\ calls \in Seq(CallRecord)
  BY DEF Send, OutputInv
<1>2. record.packet = p
  OBVIOUS
<1> HIDE DEF record
<1> QED BY <1>1, <1>2

(* A step keeps what is on the stream in order. *)
LEMMA StreamInductive ==
  ASSUME TypeInv, StreamInv, [SessionNext]_sessionVars
  PROVE  /\ OutputInv' /\ ReportsWhatWasSent' /\ TornOnlyWhenTooLong'
         /\ LastDisconnects'
<1>1. CASE SendsNothing
  <2>1. UNCHANGED <<output, calls, attached>>
    BY <1>1 DEF SendsNothing
  <2>2. OutputInv'
    BY <2>1 DEF StreamInv, OutputInv
  <2>3. ReportsWhatWasSent'
    BY <2>1 DEF StreamInv, ReportsWhatWasSent, WholeFrame
  <2>4. TornOnlyWhenTooLong'
    BY <2>1 DEF StreamInv, TornOnlyWhenTooLong
  <2>5. LastDisconnects'
    BY <2>1 DEF StreamInv, NothingAfterDisconnect, LastDisconnects
  <2> QED BY <2>2, <2>3, <2>4, <2>5
<1>2. CASE SendsOne
  <2>1. PICK p \in Packet, e \in SendError :
          Sendable(p) /\ Send(p, e) /\ UNCHANGED attached
    BY <1>2 DEF SendsOne
  <2>2. OutputInv' /\ ReportsWhatWasSent' /\ TornOnlyWhenTooLong'
    BY <2>1, SendKeepsTypes, SendKeepsReports, SendKeepsTorn
       DEF StreamInv, Sendable
  <2>3. attached /\ p.type # disconnect
    BY <2>1 DEF Send, Sendable
  <2>4. \A k \in 1 .. Len(calls') : calls'[k].packet.type # disconnect
    BY <2>1, <2>3, SendRecords DEF StreamInv
  <2> QED BY <2>1, <2>2, <2>4 DEF LastDisconnects
<1>3. ASSUME NEW e \in SendError, Disconnect(e), attached
      PROVE  /\ OutputInv' /\ ReportsWhatWasSent' /\ TornOnlyWhenTooLong'
             /\ LastDisconnects'
  <2>1. Send(DisconnectPacket, e) /\ ~attached'
    BY <1>3 DEF Disconnect
  <2>2. OutputInv' /\ ReportsWhatWasSent' /\ TornOnlyWhenTooLong'
    BY <2>1, OwnPackets, SendKeepsTypes, SendKeepsReports, SendKeepsTorn
       DEF StreamInv
  <2>3. \A k \in 1 .. Len(calls') :
          calls'[k].packet.type = disconnect => k = Len(calls')
    BY <1>3, <2>1, OwnPackets, SendRecords DEF StreamInv
  <2> QED BY <2>1, <2>2, <2>3 DEF LastDisconnects
<1>4. CASE Disconnects
  <2>1. PICK e \in SendError : Disconnect(e)
    BY <1>4 DEF Disconnects
  <2>2. ~attached => SendsNothing
    BY <2>1 DEF Disconnect, SendsNothing
  <2> QED BY <1>1, <1>3, <2>1, <2>2
<1> QED BY <1>1, <1>2, <1>4, StepSends

-----------------------------------------------------------------------------
(* Destroying and constructing a header. *)
HeaderType == [index: Handled \cup {reserved}, alive: [Handled -> Int],
               topic: 0 .. TopicMax, codes: Nat]

OneAlive(h) == \A t \in Handled : h.alive[t] = IF t = h.index THEN 1 ELSE 0

(* No type of packet is the mark of an empty Variant. *)
LEMMA NoneReserved == reserved \notin Handled
BY DEF reserved, Handled, connack, publish, puback, pubrec, pubrel, pubcomp,
       suback, unsuback, pingresp

(* clear() leaves nothing alive. *)
LEMMA ClearFacts ==
  ASSUME NEW h \in HeaderType, OneAlive(h)
  PROVE  /\ Clear(h) \in HeaderType /\ OneAlive(Clear(h))
         /\ Clear(h).index = reserved
         /\ Clear(h).topic = h.topic /\ Clear(h).codes = h.codes
<1>1. CASE h.index = reserved
  BY <1>1 DEF Clear
<1>2. CASE h.index # reserved
  <2> DEFINE alive == [h.alive EXCEPT ![h.index] = h.alive[h.index] - 1]
  <2>1. h.index \in Handled /\ h.alive \in [Handled -> Int]
    BY <1>2 DEF HeaderType
  <2>2. Clear(h) = [h EXCEPT !.alive = alive, !.index = reserved]
    BY <1>2 DEF Clear, HeaderType
  <2>3. alive \in [Handled -> Int]
    BY <2>1
  <2>4. \A t \in Handled : alive[t] = 0
    BY <2>1 DEF OneAlive
  <2> HIDE DEF alive
  <2>5. /\ Clear(h).alive = alive /\ Clear(h).index = reserved
        /\ Clear(h).topic = h.topic /\ Clear(h).codes = h.codes
    BY <2>2 DEF HeaderType
  <2>6. Clear(h) \in HeaderType
    BY <2>2, <2>3 DEF HeaderType
  <2> QED BY <2>4, <2>5, <2>6, NoneReserved DEF OneAlive
<1> QED BY <1>1, <1>2

(* What Poll leaves in the Variant: the new header, alone and with no more *)
(* than its own message's elements.                                        *)
LEMMA EmplaceFacts ==
  ASSUME NEW h \in HeaderType, OneAlive(h), NEW m,
         m.type \in Handled, m.topic \in Nat, m.codes \in Nat
  PROVE  LET f == Filled(EmplaceIn(h, m.type), m)
         IN /\ f \in HeaderType /\ OneAlive(f)
            /\ f.index = m.type /\ f.codes = m.codes
<1> DEFINE c == Clear(h)
           alive == [c.alive EXCEPT ![m.type] = c.alive[m.type] + 1]
           topic == StdMin(0 + m.topic, TopicMax)
           f == Filled(EmplaceIn(h, m.type), m)
<1>1. /\ c \in HeaderType /\ OneAlive(c) /\ c.index = reserved
      /\ c.alive \in [Handled -> Int]
  BY ClearFacts DEF HeaderType
<1> HIDE DEF c
<1>2. f = [c EXCEPT !.alive = alive, !.index = m.type,
                    !.topic = topic, !.codes = 0 + m.codes]
  BY <1>1 DEF Filled, EmplaceIn, Construct, HeaderType, c
<1>3. alive \in [Handled -> Int]
  BY <1>1
<1>4. \A t \in Handled : alive[t] = IF t = m.type THEN 1 ELSE 0
  BY <1>1, NoneReserved DEF OneAlive
<1>5. topic \in 0 .. TopicMax
  BY SessionAssumption DEF StdMin, SessionAssumption
<1>6. 0 + m.codes = m.codes
  OBVIOUS
<1> HIDE DEF alive, topic, f
<1>7. /\ f.alive = alive /\ f.index = m.type /\ f.codes = m.codes
  BY <1>1, <1>2, <1>6 DEF HeaderType
<1>8. f \in HeaderType
  BY <1>1, <1>2, <1>3, <1>5, <1>6 DEF HeaderType
<1>9. OneAlive(f)
  BY <1>4, <1>7 DEF OneAlive
<1> QED BY <1>7, <1>8, <1>9 DEF f


-----------------------------------------------------------------------------
(* The stream buffer: what was taken from the parent, extracted and left.  *)
PayloadType == [size: Below(WordMod), there: Nat, remaining: Nat, taken: Nat,
                byte: Nat, buffered: BOOLEAN, seen: Seq(Nat),
                ignore: Below(SizeMod)]

Reading(b) ==
  /\ b.taken + b.remaining = b.size
  /\ b.taken = Len(b.seen) + (IF b.buffered THEN 1 ELSE 0)
  /\ b.byte = StdMin(b.taken, b.there)

Seen(b) ==
  /\ Len(b.seen) <= b.size
  /\ \A i \in 1 .. Len(b.seen) : b.seen[i] = StdMin(i, b.there)

IgnoresRest(b) == ~b.buffered => Len(b.seen) + b.ignore = b.size

(* A stream buffer that was just made. *)
LEMMA StreambufFacts ==
  ASSUME NEW size \in Below(WordMod), NEW there \in Nat
  PROVE  /\ Streambuf(size, there) \in PayloadType
         /\ Reading(Streambuf(size, there)) /\ Seen(Streambuf(size, there))
<1>1. 0 \in Below(SizeMod) /\ size \in Nat
  BY Words DEF Below
<1>2. <<>> \in Seq(Nat) /\ Len(<<>>) = 0
  OBVIOUS
<1> QED BY <1>1, <1>2
        DEF Streambuf, PayloadType, Reading, Seen, StdMin

(* underflow(): another byte of the parent is counted. *)
LEMMA UnderflowFacts ==
  ASSUME NEW b \in PayloadType, Reading(b), Seen(b), ~b.buffered,
         b.remaining > 0
  PROVE  /\ Underflowed(b) \in PayloadType /\ Reading(Underflowed(b))
         /\ Seen(Underflowed(b))
<1> DEFINE byte == IF b.taken < b.there THEN b.taken + 1 ELSE b.byte
<1>1. /\ b.taken \in Nat /\ b.remaining \in Nat /\ b.there \in Nat
      /\ b.byte \in Nat /\ b.size \in Nat /\ b.seen \in Seq(Nat)
  BY DEF PayloadType, Below
<1>2. byte = StdMin(b.taken + 1, b.there) /\ byte \in Nat
  BY <1>1 DEF Reading, StdMin
<1>3. Underflowed(b) = [b EXCEPT !.byte = byte, !.taken = b.taken + 1,
                                 !.buffered = TRUE,
                                 !.remaining = b.remaining - 1]
  BY DEF Underflowed, PayloadType
<1> HIDE DEF byte
<1>4. b.taken + 1 \in Nat /\ b.remaining - 1 \in Nat
  BY <1>1
<1>5. Underflowed(b) \in PayloadType
  BY <1>2, <1>3, <1>4 DEF PayloadType
<1>6. /\ Underflowed(b).byte = byte /\ Underflowed(b).taken = b.taken + 1
      /\ Underflowed(b).buffered /\ Underflowed(b).seen = b.seen
      /\ Underflowed(b).remaining = b.remaining - 1
      /\ Underflowed(b).size = b.size /\ Underflowed(b).there = b.there
  BY <1>3 DEF PayloadType
<1>7. Len(b.seen) \in Nat
  BY <1>1
<1>8. Reading(Underflowed(b))
  <2>1. b.taken = Len(b.seen) /\ b.taken + b.remaining = b.size
    BY <1>1, <1>7 DEF Reading
  <2> DEFINE u == Underflowed(b)
  <2>2. u.taken + u.remaining = u.size
    BY <1>1, <1>6, <2>1
  <2>3. u.taken = Len(u.seen) + 1
    BY <1>6, <2>1
  <2>4. u.byte = StdMin(u.taken, u.there)
    BY <1>2, <1>6
  <2>5. u.buffered
    BY <1>6
  <2> HIDE DEF u
  <2>6. Reading(u)
    BY <2>2, <2>3, <2>4, <2>5 DEF Reading
  <2> QED BY <2>6 DEF u
<1>9. Seen(Underflowed(b))
  BY <1>6 DEF Seen
<1> QED BY <1>5, <1>8, <1>9

(* Extraction: the byte in the buffer is the next of the payload, or the   *)
(* last there was.                                                         *)
LEMMA ExtractFacts ==
  ASSUME NEW b \in PayloadType, Reading(b), Seen(b), b.buffered
  PROVE  /\ Extracted(b) \in PayloadType /\ Reading(Extracted(b))
         /\ Seen(Extracted(b))
<1> DEFINE seen == Append(b.seen, b.byte)
<1>1. /\ b.taken \in Nat /\ b.remaining \in Nat /\ b.there \in Nat
      /\ b.byte \in Nat /\ b.size \in Nat /\ b.seen \in Seq(Nat)
      /\ Len(b.seen) \in Nat
  BY DEF PayloadType, Below
<1>2. b.taken = Len(b.seen) + 1 /\ b.taken + b.remaining = b.size
      /\ b.byte = StdMin(b.taken, b.there)
  BY DEF Reading
<1>3. /\ seen \in Seq(Nat) /\ Len(seen) = b.taken
      /\ seen[b.taken] = b.byte
      /\ \A i \in 1 .. Len(b.seen) : seen[i] = b.seen[i]
  BY <1>1, <1>2
<1>4. Extracted(b) = [b EXCEPT !.seen = seen, !.buffered = FALSE]
  BY DEF Extracted, PayloadType
<1> HIDE DEF seen
<1>5. Extracted(b) \in PayloadType
  BY <1>3, <1>4 DEF PayloadType
<1>6. /\ Extracted(b).seen = seen /\ ~Extracted(b).buffered
      /\ Extracted(b).byte = b.byte /\ Extracted(b).taken = b.taken
      /\ Extracted(b).remaining = b.remaining
      /\ Extracted(b).size = b.size /\ Extracted(b).there = b.there
  BY <1>4 DEF PayloadType
<1>7. Reading(Extracted(b))
  BY <1>1, <1>2, <1>3, <1>6 DEF Reading
<1>8. \A i \in 1 .. b.taken : i \in 1 .. Len(b.seen) \/ i = b.taken
  BY <1>1, <1>2
<1>9. Seen(Extracted(b))
  <2>1. \A i \in 1 .. b.taken : seen[i] = StdMin(i, b.there)
    BY <1>2, <1>3, <1>8 DEF Seen
  <2>2. b.taken <= b.size
    BY <1>1, <1>2
  <2>3. /\ Len(Extracted(b).seen) = b.taken /\ Extracted(b).seen = seen
        /\ Extracted(b).size = b.size /\ Extracted(b).there = b.there
    BY <1>3, <1>6
  <2> QED BY <2>1, <2>2, <2>3, Zenon DEF Seen
<1> QED BY <1>5, <1>7, <1>9

(* release(): what is left of the payload, unless a byte is in the buffer. *)
LEMMA ReleaseFacts ==
  ASSUME NEW b \in PayloadType, Reading(b), Seen(b)
  PROVE  /\ Released(b) \in PayloadType /\ IgnoresRest(Released(b))
         /\ Seen(Released(b))
<1> DEFINE left == b.remaining - (IF b.buffered THEN 1 ELSE 0)
           ignore == left % SizeMod
<1>1. /\ b.taken \in Nat /\ b.remaining \in Nat /\ b.size \in Nat
      /\ b.size < WordMod /\ b.buffered \in BOOLEAN
      /\ Len(b.seen) \in Nat
  BY DEF PayloadType, Below
<1>2. b.remaining = b.size - b.taken
  <2>1. b.taken + b.remaining = b.size
    BY DEF Reading
  <2> QED BY <1>1, <2>1
<1>3. SizeMod \in Nat /\ SizeMod > 0 /\ b.remaining < SizeMod
  BY <1>1, <1>2, Words
<1>4. left \in Int
  BY <1>1
<1>5. ignore \in Below(SizeMod)
  BY <1>3, <1>4, ModBelow
<1>6. ~b.buffered => ignore = b.size - b.taken
  BY <1>1, <1>2, <1>3, ModBelow
<1>7. ~b.buffered => b.taken = Len(b.seen)
  BY <1>1 DEF Reading
<1>8. Released(b) = [b EXCEPT !.ignore = ignore, !.remaining = 0]
  BY DEF Released, PayloadType
<1> HIDE DEF left, ignore
<1>9. Released(b) \in PayloadType
  <2>1. 0 \in Nat
    OBVIOUS
  <2> QED BY <1>5, <1>8, <2>1, Zenon DEF PayloadType
<1>10. /\ Released(b).ignore = ignore /\ Released(b).size = b.size
       /\ Released(b).seen = b.seen /\ Released(b).there = b.there
       /\ Released(b).buffered = b.buffered
  BY <1>8 DEF PayloadType
<1>11. IgnoresRest(Released(b))
  BY <1>1, <1>6, <1>7, <1>10 DEF IgnoresRest
<1>12. Seen(Released(b))
  BY <1>10 DEF Seen
<1> QED BY <1>9, <1>11, <1>12


-----------------------------------------------------------------------------
(* The inductive invariant. *)
HeaderInv ==
  /\ OneAlive(header)
  /\ InHandler => header.index = publish
  /\ stage = "gone" => header.index = reserved /\ ~attached

PayloadInv ==
  /\ Seen(payload)
  /\ InHandler => Reading(payload)
  /\ ~InHandler => IgnoresRest(payload)

(* The messages still to be acknowledged when the application is done with *)
(* one of them: none, unless an error ended its loop.                      *)
Pending ==
  stage \in {"log", "reading", "ack", "over", "gone"}
    \/ (stage = "return" /\ ec # "none")

Answers(f) ==
  /\ f \in Answering
  /\ \A k \in Unanswered(f) : k = read /\ Pending
  /\ stage \in {"log", "reading", "ack"} => \A i \in Acks : f[i] # read

(* A handler runs for the PUBLISH read last, and every acknowledgement     *)
(* sent is that of a message of its own.                                   *)
AckInv ==
  /\ InHandler => inbox[read].type = publish
  /\ \E f : Answers(f)

SessionInv ==
  TypeInv /\ StreamInv /\ HeaderInv /\ PayloadInv /\ CodesFit /\ AckInv

(* Steps that leave the Variant alone. *)
KeepsHeader == UNCHANGED <<header, inbox, read>>

(* What every action but Poll and Destroy leaves alone. *)
LEMMA KeepsHeaderSteps ==
  ASSUME [SessionNext]_sessionVars
  PROVE  \/ Poll \/ Destroy
         \/ /\ KeepsHeader
            /\ stage' = "gone" => stage = "gone" /\ UNCHANGED attached
            /\ InHandler' => InHandler
<1>1. CASE UNCHANGED sessionVars
  BY <1>1 DEF sessionVars, KeepsHeader, InHandler
<1>2. CASE Handling
  BY <1>2 DEF Handling, Log, Look, Extract, StopReading, Ack, Return,
              KeepsHeader, InHandler
<1>3. CASE Wait \/ Updating
  BY <1>3 DEF Wait, Updating, UpdateIdles, UpdatePings, UpdateTimesOut,
              KeepsHeader, InHandler
<1>4. CASE Connect \/ Subscribe \/ Unsubscribe \/ Publish
  BY <1>4 DEF Connect, Subscribe, Unsubscribe, Publish, Request,
              KeepsHeader, InHandler
<1>5. CASE Quit
  BY <1>5 DEF Quit, KeepsHeader, InHandler
<1> QED BY <1>1, <1>2, <1>3, <1>4, <1>5 DEF SessionNext

(* A step keeps one header alive, that of the message being handled. *)
LEMMA HeaderInductive ==
  ASSUME TypeInv, HeaderInv, CodesFit, [SessionNext]_sessionVars
  PROVE  (header \in HeaderType)' /\ HeaderInv' /\ CodesFit'
<1>1. header \in HeaderType /\ OneAlive(header)
  BY DEF TypeInv, SessionTypeOK, HeaderType, HeaderInv
<1>2. CASE Poll
  <2> DEFINE m == inbox[read + 1]
             f == Filled(EmplaceIn(header, m.type), m)
  <2>1. read \in Nat /\ read + 1 \in 1 .. Len(inbox) /\ inbox \in Seq(Message)
    BY <1>2, SessionAssumption
       DEF Poll, TypeInv, SessionTypeOK, SessionAssumption
  <2>2. /\ m.type \in Handled /\ m.topic \in Nat /\ m.codes \in Nat
    BY <2>1, InboxType DEF TypeInv
  <2>3. /\ header' = f /\ read' = read + 1 /\ inbox' = inbox
        /\ UNCHANGED attached
    BY <1>2 DEF Poll
  <2>4. stage' \in {"over", "log", "update"}
        /\ (stage' = "log" => m.type = publish)
    BY <1>2 DEF Poll
  <2> HIDE DEF m
  <2>5. /\ f \in HeaderType /\ OneAlive(f) /\ f.index = m.type
        /\ f.codes = m.codes
    BY <1>1, <2>2, EmplaceFacts
  <2> HIDE DEF f
  <2>6. HeaderInv'
    BY <2>3, <2>4, <2>5 DEF HeaderInv, InHandler, OneAlive
  <2>7. CodesFit'
    <3>1. SUFFICES ASSUME \A i \in 1 .. read + 1 : inbox[i].codes <= CodesMax
                   PROVE  m.codes <= CodesMax
      BY <2>3, <2>5 DEF CodesFit
    <3> QED BY <2>1, <3>1 DEF m
  <2> QED BY <2>3, <2>5, <2>6, <2>7
<1>3. CASE Destroy
  <2>1. /\ header' = Clear(header) /\ stage' = "gone"
        /\ inbox' = inbox /\ read' = read
    BY <1>3 DEF Destroy
  <2>2. ~attached'
    BY <1>3 DEF Destroy, Disconnect
  <2>3. /\ Clear(header) \in HeaderType /\ OneAlive(Clear(header))
        /\ Clear(header).index = reserved
        /\ Clear(header).codes = header.codes
    BY <1>1, ClearFacts
  <2>4. HeaderInv'
    BY <2>1, <2>2, <2>3 DEF HeaderInv, InHandler, OneAlive
  <2>5. CodesFit'
    BY <2>1, <2>3 DEF CodesFit
  <2> QED BY <2>1, <2>3, <2>4, <2>5
<1>4. CASE /\ KeepsHeader
           /\ stage' = "gone" => stage = "gone" /\ UNCHANGED attached
           /\ InHandler' => InHandler
  <2>1. header' = header /\ inbox' = inbox /\ read' = read
    BY <1>4 DEF KeepsHeader
  <2>2. HeaderInv'
    BY <1>4, <2>1 DEF HeaderInv, OneAlive
  <2>3. CodesFit'
    BY <2>1 DEF CodesFit
  <2> QED BY <1>1, <2>1, <2>2, <2>3
<1> QED BY <1>2, <1>3, <1>4, KeepsHeaderSteps

(* A step keeps the account of the payload. *)
LEMMA PayloadInductive ==
  ASSUME TypeInv, PayloadInv, [SessionNext]_sessionVars
  PROVE  (payload \in PayloadType)' /\ PayloadInv'
<1>1. payload \in PayloadType
  BY DEF TypeInv, SessionTypeOK, PayloadType
<1>2. ASSUME payload' = payload, InHandler' <=> InHandler
      PROVE  (payload \in PayloadType)' /\ PayloadInv'
  BY <1>1, <1>2, Zenon DEF PayloadInv, Reading, Seen, IgnoresRest
<1>3. CASE Poll
  <2>1. ~InHandler
    BY <1>3 DEF Poll, InHandler
  <2>2. CASE payload' = payload /\ stage' # "log"
    <3>1. ~InHandler'
      BY <1>3, <2>2 DEF Poll, InHandler
    <3> QED BY <1>2, <2>1, <2>2, <3>1
  <2>3. CASE /\ stage' = "log"
             /\ payload' = Streambuf(inbox[read + 1].size,
                                     inbox[read + 1].there)
    <3>1. read + 1 \in 1 .. Len(inbox)
      BY <1>3 DEF Poll, TypeInv, SessionTypeOK
    <3>2. /\ inbox[read + 1].size \in Below(WordMod)
          /\ inbox[read + 1].there \in Nat
      BY <3>1, InboxType DEF TypeInv
    <3>3. /\ payload' \in PayloadType /\ Reading(payload') /\ Seen(payload')
      BY <2>3, <3>2, StreambufFacts
    <3>4. InHandler'
      BY <2>3 DEF InHandler
    <3> QED BY <3>3, <3>4 DEF PayloadInv, Reading, Seen
  <2> QED BY <1>3, <2>2, <2>3 DEF Poll
<1>4. CASE Look
  <2>1. /\ InHandler /\ InHandler' /\ payload' = Underflowed(payload)
        /\ ~payload.buffered /\ payload.remaining > 0
    BY <1>4 DEF Look, InHandler
  <2>2. /\ payload' \in PayloadType /\ Reading(payload') /\ Seen(payload')
    BY <1>1, <2>1, UnderflowFacts DEF PayloadInv
  <2> QED BY <2>1, <2>2 DEF PayloadInv, Reading, Seen
<1>5. CASE Extract
  <2>1. /\ InHandler /\ InHandler' /\ payload' = Extracted(payload)
        /\ payload.buffered
    BY <1>5 DEF Extract, InHandler
  <2>2. /\ payload' \in PayloadType /\ Reading(payload') /\ Seen(payload')
    BY <1>1, <2>1, ExtractFacts DEF PayloadInv
  <2> QED BY <2>1, <2>2 DEF PayloadInv, Reading, Seen
<1>6. CASE Return
  <2>1. InHandler /\ ~InHandler' /\ payload' = Released(payload)
    BY <1>6 DEF Return, InHandler
  <2>2. payload' \in PayloadType /\ IgnoresRest(payload') /\ Seen(payload')
    BY <1>1, <2>1, ReleaseFacts DEF PayloadInv
  <2> QED BY <2>1, <2>2 DEF PayloadInv, IgnoresRest, Seen
<1>7. CASE Log \/ StopReading \/ Ack \/ UNCHANGED sessionVars
  <2>1. payload' = payload /\ (InHandler' <=> InHandler)
    BY <1>7 DEF Log, StopReading, Ack, sessionVars, InHandler
  <2> QED BY <1>2, <2>1
<1>8. CASE Wait \/ Updating \/ Quit \/ Destroy
  <2>1. payload' = payload /\ (InHandler' <=> InHandler)
    BY <1>8 DEF Wait, Updating, UpdateIdles, UpdatePings, UpdateTimesOut,
                Quit, Destroy, InHandler
  <2> QED BY <1>2, <2>1
<1>9. CASE Connect \/ Subscribe \/ Unsubscribe \/ Publish
  <2>1. payload' = payload /\ (InHandler' <=> InHandler)
    BY <1>9 DEF Connect, Subscribe, Unsubscribe, Publish, Request, InHandler
  <2> QED BY <1>2, <2>1
<1> QED BY <1>3, <1>4, <1>5, <1>6, <1>7, <1>8, <1>9 DEF SessionNext, Handling


(* The error_codes of a session. *)
EcType == SendError \cup {"not_enough_memory", "connection_timed_out"}

(* A step keeps the remaining types, and what a handler relies on. *)
ControlInv ==
  /\ attached \in BOOLEAN
  /\ inbox \in Inboxes /\ read \in 0 .. Len(inbox)
  /\ stage \in Stage
  /\ ec \in EcType
  /\ HandlerInv

(* Every action keeps it; only Poll and the updates set another ec than a  *)
(* write reports.                                                          *)
LEMMA ControlInductive ==
  ASSUME TypeInv, [SessionNext]_sessionVars
  PROVE  ControlInv'
<1>1. ControlInv /\ Len(inbox) \in Nat /\ read \in Nat
  <2>1. inbox \in Seq(Message)
    BY SessionAssumption DEF SessionAssumption, TypeInv, SessionTypeOK
  <2> QED BY <2>1 DEF TypeInv, SessionTypeOK, ControlInv, EcType
<1>2. "none" \in SendError
  BY DEF SendError
<1>3. \A p \in Packet, e \in SendError : Reported(p, e) \in SendError
  BY ReportedType
<1>4. CASE UNCHANGED sessionVars
  BY <1>1, <1>4 DEF sessionVars, ControlInv, HandlerInv, InHandler
<1>5. CASE Poll
  <2>1. /\ read' = read + 1 /\ inbox' = inbox /\ attached' = attached
        /\ read < Len(inbox)
        /\ stage' \in {"over", "log", "update"}
        /\ ec' \in {"none", "not_enough_memory"}
        /\ (stage' = "log" => ec' = "none")
    BY <1>5 DEF Poll
  <2>2. read' \in 0 .. Len(inbox) /\ read' # 0
    BY <1>1, <2>1
  <2> QED BY <1>1, <1>2, <2>1, <2>2
          DEF ControlInv, HandlerInv, InHandler, Stage, EcType
<1>6. CASE Log
  <2>1. ec \in SendError /\ read # 0
    BY <1>1, <1>6 DEF Log, ControlInv, HandlerInv, InHandler
  <2>2. ec' \in SendError
    BY <1>3, <1>6, <2>1, OwnPackets DEF Log
  <2> QED BY <1>1, <1>6, <2>1, <2>2
          DEF Log, ControlInv, HandlerInv, InHandler, Stage, EcType
<1>7. CASE Look \/ Extract \/ StopReading \/ Return
  BY <1>1, <1>7 DEF Look, Extract, StopReading, Return, ControlInv,
                    HandlerInv, InHandler, Stage
<1>8. CASE Ack
  <2>1. ec \in SendError /\ read # 0
    BY <1>1, <1>8 DEF Ack, ControlInv, HandlerInv, InHandler
  <2>2. inbox[read].id \in Below(65536)
    <3>1. read \in 1 .. Len(inbox)
      BY <1>1, <2>1 DEF ControlInv
    <3> QED BY <3>1, InboxType DEF TypeInv
  <2>3. ec' \in SendError
    BY <1>3, <1>8, <2>1, <2>2, OwnPackets DEF Ack
  <2> QED BY <1>1, <1>8, <2>1, <2>3
          DEF Ack, ControlInv, HandlerInv, InHandler, Stage, EcType
<1>9. CASE Wait \/ UpdateIdles \/ UpdateTimesOut
  BY <1>1, <1>2, <1>9 DEF Wait, UpdateIdles, UpdateTimesOut, ControlInv,
                          HandlerInv, InHandler, Stage, EcType
<1>10. CASE UpdatePings
  <2>1. ec' \in SendError
    BY <1>2, <1>3, <1>10, OwnPackets DEF UpdatePings
  <2> QED BY <1>1, <1>10, <2>1
          DEF UpdatePings, ControlInv, HandlerInv, InHandler, Stage, EcType
<1>11. ASSUME NEW p \in Packet, Request(p)
       PROVE  ControlInv'
  <2>1. PICK e \in Given : ec' = Reported(p, e)
    BY <1>11 DEF Request
  <2>2. ec' \in SendError
    BY <1>3, <2>1, GivenType
  <2> QED BY <1>1, <1>11, <2>2
          DEF Request, ControlInv, HandlerInv, InHandler, Stage, EcType
<1>12. CASE Connect \/ Subscribe \/ Unsubscribe \/ Publish
  <2>1. ASSUME NEW h \in Headers, Request(ConnectPacket(h))
        PROVE  ControlInv'
    <3>1. h \in ConnectHeader
      BY SessionAssumption DEF SessionAssumption
    <3> QED BY <1>11, <2>1, <3>1, ConnectPacketSound
  <2>2. ASSUME NEW f \in Filters,
               Request(SubscribePacket(f)) \/ Request(UnsubscribePacket(f))
        PROVE  ControlInv'
    <3>1. f \in Strings
      BY SessionAssumption DEF SessionAssumption
    <3> QED BY <1>11, <2>2, <3>1, FilterPacketSound
  <2>3. ASSUME NEW p \in Publications,
               Request(PublishPacket(p.topic, p.payload, p.qos))
        PROVE  ControlInv'
    <3>1. p.topic \in Nat /\ p.payload \in Nat /\ p.qos \in 0 .. 2
      BY SessionAssumption DEF SessionAssumption
    <3> QED BY <1>11, <2>3, <3>1, PublishPacketSound
  <2> QED BY <1>12, <2>1, <2>2, <2>3
          DEF Connect, Subscribe, Unsubscribe, Publish
<1>13. CASE Quit
  <2>1. PICK e \in Given :
          Disconnect(e) /\ ec' = Reported(DisconnectPacket, e)
    BY <1>13 DEF Quit
  <2>2. ec' \in SendError
    BY <1>3, <2>1, OwnPackets, GivenType
  <2>3. attached' \in BOOLEAN
    BY <1>1, <2>1 DEF Disconnect, ControlInv
  <2> QED BY <1>1, <1>13, <2>2, <2>3
          DEF Quit, ControlInv, HandlerInv, InHandler, Stage, EcType
<1>14. CASE Destroy
  <2>1. attached' \in BOOLEAN
    BY <1>1, <1>14 DEF Destroy, Disconnect, ControlInv
  <2> QED BY <1>1, <1>14, <2>1
          DEF Destroy, ControlInv, HandlerInv, InHandler, Stage, EcType
<1> QED BY <1>4, <1>5, <1>6, <1>7, <1>8, <1>9, <1>10, <1>12, <1>13, <1>14
        DEF SessionNext, Handling, Updating

-----------------------------------------------------------------------------
(* Of the packets a client sends only PubackPacket makes a PUBACK. *)
LEMMA OnlyPubackAcks ==
  /\ \A t, b, q : PublishPacket(t, b, q).type # puback
  /\ PingreqPacket.type # puback /\ DisconnectPacket.type # puback
  /\ \A h : ConnectPacket(h).type # puback
  /\ \A f : SubscribePacket(f).type # puback
            /\ UnsubscribePacket(f).type # puback
  /\ \A id : PubackPacket(id).type = puback /\ PubackPacket(id).id = id
BY DEF PublishPacket, PubackPacket, PingreqPacket, DisconnectPacket, Bare,
       ConnectPacket, SubscribePacket, UnsubscribePacket, WithStrings,
       publish, puback, pingreq, disconnect, connect, subscribe, unsubscribe

(* Steps that acknowledge nothing. *)
KeepsAcks == Acks' = Acks /\ \A i \in Acks : calls'[i] = calls[i]

(* Sending another packet is such a step. *)
LEMMA SendKeepsAcks ==
  ASSUME OutputInv, NEW p \in Packet, NEW e \in SendError, Send(p, e),
         p.type # puback
  PROVE  KeepsAcks
<1>1. /\ Len(calls') = Len(calls) + 1 /\ Len(calls) \in Nat
      /\ calls'[Len(calls) + 1].packet = p
      /\ \A k \in 1 .. Len(calls) : calls'[k] = calls[k]
  BY SendRecords
<1>2. ~IsAck(calls'[Len(calls) + 1])
  BY <1>1 DEF IsAck
<1>3. 1 .. Len(calls') = (1 .. Len(calls)) \cup {Len(calls) + 1}
  BY <1>1
<1>4. \A k \in 1 .. Len(calls) : IsAck(calls'[k]) <=> IsAck(calls[k])
  BY <1>1
<1> HIDE DEF IsAck
<1>5. Acks' = Acks
  BY <1>2, <1>3, <1>4 DEF Acks
<1> QED BY <1>1, <1>5 DEF Acks, KeepsAcks

(* Every step but the handler's acknowledgement is such a step. *)
LEMMA OtherStepsKeepAcks ==
  ASSUME TypeInv, OutputInv, [SessionNext]_sessionVars, ~Ack
  PROVE  KeepsAcks
<1>1. CASE calls' = calls
  BY <1>1 DEF KeepsAcks, Acks
<1>2. ASSUME NEW p, p \in Packet, Request(p), p.type # puback
      PROVE  KeepsAcks
  <2>1. PICK e \in Given : Send(p, e)
    BY <1>2 DEF Request
  <2> QED BY <1>2, <2>1, GivenType, SendKeepsAcks
<1>3. ASSUME NEW e \in SendError, Disconnect(e)
      PROVE  KeepsAcks
  <2>1. CASE attached
    BY <1>3, <2>1, OwnPackets, OnlyPubackAcks, SendKeepsAcks DEF Disconnect
  <2>2. CASE ~attached
    BY <1>1, <1>3, <2>2 DEF Disconnect
  <2> QED BY <2>1, <2>2
<1>4. "none" \in SendError
  BY DEF SendError
<1>5. CASE Log
  <2>1. ec \in SendError /\ Send(PublishPacket(3, 21, 0), ec)
    BY <1>5 DEF TypeInv, HandlerInv, Log, InHandler
  <2> QED BY <2>1, OwnPackets, OnlyPubackAcks, SendKeepsAcks
<1>6. CASE UpdatePings
  BY <1>4, <1>6, OwnPackets, OnlyPubackAcks, SendKeepsAcks DEF UpdatePings
<1>7. CASE Connect
  <2>1. PICK h \in Headers : Request(ConnectPacket(h))
    BY <1>7 DEF Connect
  <2>2. h \in ConnectHeader
    BY <2>1, SessionAssumption DEF SessionAssumption
  <2> QED BY <1>2, <2>1, <2>2, ConnectPacketSound, OnlyPubackAcks
<1>8. CASE Subscribe \/ Unsubscribe
  <2>1. PICK f \in Filters :
          Request(SubscribePacket(f)) \/ Request(UnsubscribePacket(f))
    BY <1>8 DEF Subscribe, Unsubscribe
  <2>2. f \in Strings
    BY <2>1, SessionAssumption DEF SessionAssumption
  <2> QED BY <1>2, <2>1, <2>2, FilterPacketSound, OnlyPubackAcks
<1>9. CASE Publish
  <2>1. PICK p \in Publications :
          Request(PublishPacket(p.topic, p.payload, p.qos))
    BY <1>9 DEF Publish
  <2>2. p.topic \in Nat /\ p.payload \in Nat /\ p.qos \in 0 .. 2
    BY <2>1, SessionAssumption DEF SessionAssumption
  <2> QED BY <1>2, <2>1, <2>2, PublishPacketSound, OnlyPubackAcks
<1>10. CASE Quit
  BY <1>3, <1>10, GivenType DEF Quit
<1>11. CASE Destroy
  BY <1>3, <1>4, <1>11 DEF Destroy
<1>12. CASE UNCHANGED sessionVars \/ Poll \/ Look \/ Extract \/ StopReading
            \/ Return \/ Wait \/ UpdateIdles \/ UpdateTimesOut
  BY <1>1, <1>12 DEF sessionVars, Poll, Look, Extract, StopReading, Return,
                     Wait, UpdateIdles, UpdateTimesOut
<1> QED BY <1>5, <1>6, <1>7, <1>8, <1>9, <1>10, <1>11, <1>12
        DEF SessionNext, Handling, Updating

(* What was answered stays so while no message is read, if what is         *)
(* pending may still be.                                                   *)
LEMMA SameAnswers ==
  ASSUME KeepsAcks, inbox' = inbox, read' = read, NEW f, Answers(f),
         Pending => Pending',
         stage' \in {"log", "reading", "ack"} =>
           stage \in {"log", "reading", "ack"}
  PROVE  Answers(f)'
<1>1. Acks' = Acks /\ Due' = Due
  BY DEF KeepsAcks, Due
<1>2. \A i \in Acks : calls'[i].packet.id = calls[i].packet.id
  BY DEF KeepsAcks
<1>3. Unanswered(f)' = Unanswered(f)
  BY <1>1 DEF Unanswered
<1>4. (f \in Answering)'
  BY <1>1, <1>2 DEF Answers, Answering
<1> QED BY <1>1, <1>3, <1>4 DEF Answers

(* A message is read when all before it were answered.                     *)
LEMMA PollAnswers ==
  ASSUME TypeInv, KeepsAcks, Poll, NEW f, Answers(f)
  PROVE  Answers(f)' /\ (InHandler' => inbox'[read'].type = publish)
<1> DEFINE m == inbox[read + 1]
<1>1. /\ stage = "idle" /\ read' = read + 1 /\ inbox' = inbox
      /\ stage' = "over" \/ (m.type = publish /\ stage' = "log")
           \/ (m.type # publish /\ stage' = "update")
  BY DEF Poll
<1>2. read \in Nat
  BY DEF TypeInv, SessionTypeOK
<1>3. Unanswered(f) = {}
  BY <1>1 DEF Answers, Pending
<1>4. Acks' = Acks /\ \A i \in Acks : calls'[i].packet.id = calls[i].packet.id
  BY DEF KeepsAcks
<1>5. /\ Due \subseteq Due' /\ \A k \in Due' : k \in Due \/ k = read + 1
      /\ read + 1 \notin Due
  BY <1>1, <1>2 DEF Due
<1>6. (read + 1 \in Due') => m.type = publish
  BY <1>1 DEF Due, IsQoS1
<1>7. f \in [Acks -> Due']
  BY <1>5 DEF Answers, Answering
<1>8. (f \in Answering)'
  BY <1>1, <1>4, <1>7 DEF Answers, Answering
<1>9. \A k \in Unanswered(f)' : k = read' /\ Pending'
  BY <1>1, <1>3, <1>4, <1>5, <1>6 DEF Unanswered, Pending
<1>10. \A i \in Acks' : f[i] # read'
  BY <1>1, <1>4, <1>5 DEF Answers, Answering
<1> QED BY <1>1, <1>8, <1>9, <1>10 DEF Answers, InHandler

(* The acknowledgement is that of the message in hand, if it wants one.    *)
LEMMA AckAnswers ==
  ASSUME TypeInv, OutputInv, AckInv, Ack
  PROVE  \E f : Answers(f)'
<1> DEFINE n == Len(calls) + 1
           p == PubackPacket(inbox[read].id)
<1>1. PICK f : Answers(f)
  BY DEF AckInv
<1>2. /\ stage = "ack" /\ stage' = "return" /\ inbox' = inbox /\ read' = read
  BY DEF Ack
<1>3. ec \in SendError /\ read \in 1 .. Len(inbox)
  BY <1>2 DEF TypeInv, HandlerInv, SessionTypeOK, InHandler
<1>4. Due' = Due /\ (\A i \in Acks : f[i] # read)
  BY <1>1, <1>2 DEF Due, Answers
<1>5. read \in Due <=> inbox[read].qos = 1
  BY <1>2, <1>3 DEF Due, IsQoS1, AckInv, InHandler
<1>6. CASE inbox[read].qos # 1
  <2>1. calls' = calls
    BY <1>6 DEF Ack
  <2>2. Acks' = Acks
    BY <2>1 DEF Acks
  <2>3. Unanswered(f) = {}
    BY <1>1, <1>5, <1>6 DEF Answers, Unanswered
  <2>4. Unanswered(f)' = {}
    BY <1>4, <2>2, <2>3 DEF Unanswered
  <2>5. (f \in Answering)'
    BY <1>1, <1>2, <1>4, <2>1, <2>2 DEF Answers, Answering
  <2> QED BY <1>2, <2>4, <2>5 DEF Answers
<1>7. CASE inbox[read].qos = 1
  <2>1. p \in Packet /\ p.type = puback /\ p.id = inbox[read].id
    <3>1. inbox[read].id \in Below(65536)
      BY <1>3, InboxType DEF TypeInv
    <3> QED BY <3>1, OwnPackets, OnlyPubackAcks
  <2>2. Send(p, ec) /\ ec' = Reported(p, ec)
    BY <1>7 DEF Ack
  <2> HIDE DEF p
  <2>3. /\ Len(calls') = n /\ Len(calls) \in Nat
        /\ calls'[n].packet = p
        /\ \A k \in 1 .. Len(calls) : calls'[k] = calls[k]
    BY <1>3, <2>1, <2>2, SendRecords
  <2>4. calls'[n].ec = ec'
    BY <2>2, <2>3 DEF Send, OutputInv
  <2>5. 1 .. Len(calls') = (1 .. Len(calls)) \cup {n}
    BY <2>3
  <2>6. \A k \in 1 .. Len(calls) : IsAck(calls'[k]) <=> IsAck(calls[k])
    BY <2>3 DEF IsAck
  <2>7. \A i \in Acks : i \in 1 .. Len(calls) /\ calls'[i] = calls[i] /\ i < n
    BY <2>3 DEF Acks
  <2>8. CASE ec' # "none"
    <3>1. ~IsAck(calls'[n])
      BY <2>4, <2>8 DEF IsAck
    <3>2. Acks' = Acks
      BY <2>5, <2>6, <3>1 DEF Acks
    <3>3. (f \in Answering)'
      BY <1>1, <1>2, <1>4, <2>7, <3>2 DEF Answers, Answering
    <3>4. Unanswered(f)' = Unanswered(f)
      BY <1>4, <3>2 DEF Unanswered
    <3>5. \A k \in Unanswered(f)' : k = read' /\ Pending'
      BY <1>1, <1>2, <2>8, <3>4 DEF Answers, Pending
    <3> QED BY <1>2, <3>3, <3>5 DEF Answers
  <2>9. CASE ec' = "none"
    <3>0. PICK g : g = [i \in Acks \cup {n} |-> IF i = n THEN read ELSE f[i]]
      OBVIOUS
    <3>1. IsAck(calls'[n])
      BY <2>1, <2>3, <2>4, <2>9 DEF IsAck
    <3>2. Acks' = Acks \cup {n}
      BY <2>5, <2>6, <3>1 DEF Acks
    <3>3. f \in [Acks -> Due] /\ read \in Due
      BY <1>1, <1>5, <1>7 DEF Answers, Answering
    <3>4. g \in [Acks' -> Due']
      BY <1>4, <3>0, <3>2, <3>3
    <3>5. \A i \in Acks : f[i] < read
      <4> TAKE i \in Acks
      <4>1. f[i] \in Due /\ f[i] # read
        BY <1>4, <3>3
      <4>2. f[i] \in 1 .. read
        BY <4>1 DEF Due
      <4> QED BY <1>3, <4>1, <4>2
    <3>6. /\ g[n] = read /\ n \notin Acks
          /\ \A i \in Acks : g[i] = f[i] /\ i # n
      BY <2>3, <2>7, <3>0
    <3> HIDE DEF n
    <3>7. \A i, j \in Acks' : i < j => g[i] < g[j]
      <4> SUFFICES ASSUME NEW i \in Acks', NEW j \in Acks', i < j
                   PROVE  g[i] < g[j]
        OBVIOUS
      <4>0. n \in Nat /\ \A k \in Acks : k \in Nat
        BY <2>3, <2>7 DEF n
      <4>1. i \in Acks
        BY <2>7, <3>2, <4>0
      <4>2. CASE j = n
        BY <3>5, <3>6, <4>1, <4>2
      <4>3. CASE j \in Acks
        BY <1>1, <3>6, <4>1, <4>3 DEF Answers, Answering
      <4> QED BY <3>2, <4>2, <4>3
    <3>8. \A i \in Acks' : calls'[i].packet.id = inbox[g[i]].id
      <4> TAKE i \in Acks'
      <4>1. CASE i = n
        BY <2>1, <2>3, <3>6, <4>1
      <4>2. CASE i \in Acks
        BY <1>1, <2>7, <3>6, <4>2 DEF Answers, Answering
      <4> QED BY <3>2, <4>1, <4>2
    <3>9. (g \in Answering)'
      BY <1>2, <3>4, <3>7, <3>8 DEF Answering
    <3>10. Unanswered(g)' = {}
      BY <1>1, <1>4, <3>2, <3>6 DEF Answers, Unanswered
    <3> QED BY <1>2, <3>9, <3>10 DEF Answers
  <2> QED BY <2>8, <2>9
<1> QED BY <1>6, <1>7

(* Every step keeps the account of what was acknowledged. *)
LEMMA AckInductive ==
  ASSUME TypeInv, OutputInv, AckInv, [SessionNext]_sessionVars
  PROVE  AckInv'
<1>1. PICK f : Answers(f)
  BY DEF AckInv
<1>2. CASE Ack
  <2>1. inbox'[read'].type = publish
    BY <1>2 DEF Ack, AckInv, InHandler
  <2> QED BY <1>2, <2>1, AckAnswers DEF AckInv
<1>3. CASE Poll /\ ~Ack
  BY <1>1, <1>3, OtherStepsKeepAcks, PollAnswers DEF AckInv
<1>4. CASE ~Ack /\ ~Poll
  <2>1. KeepsAcks
    BY <1>4, OtherStepsKeepAcks
  <2>2. /\ inbox' = inbox /\ read' = read
        /\ Pending => Pending'
        /\ InHandler' => InHandler
        /\ stage' \in {"log", "reading", "ack"} =>
             stage \in {"log", "reading", "ack"}
    <3>1. CASE UNCHANGED sessionVars
      BY <3>1 DEF sessionVars, Pending, InHandler
    <3>2. CASE Handling
      BY <1>4, <3>2 DEF Handling, Log, Look, Extract, StopReading, Return,
                        Pending, InHandler
    <3>3. CASE Wait \/ Updating \/ Quit \/ Destroy
      BY <3>3 DEF Wait, Updating, UpdateIdles, UpdatePings, UpdateTimesOut,
                  Quit, Destroy, Pending, InHandler
    <3>4. CASE Connect \/ Subscribe \/ Unsubscribe \/ Publish
      BY <3>4 DEF Connect, Subscribe, Unsubscribe, Publish, Request, Ready,
                  Pending, InHandler
    <3> QED BY <1>4, <3>1, <3>2, <3>3, <3>4 DEF SessionNext
  <2>3. Answers(f)'
    BY <1>1, <2>1, <2>2, SameAnswers
  <2> QED BY <2>2, <2>3 DEF AckInv
<1> QED BY <1>2, <1>3, <1>4

-----------------------------------------------------------------------------
(* The invariant holds at first. *)
LEMMA SessionStarts ==
  ASSUME SessionInit
  PROVE  SessionInv
<1>1. /\ inbox \in Inboxes /\ inbox \in Seq(Message) /\ Len(inbox) \in Nat
  BY SessionAssumption DEF SessionInit, SessionAssumption
<1>2. /\ output \in Stream /\ output.frames = <<>> /\ calls = <<>>
  BY SessionAssumption DEF SessionInit, SessionAssumption, Stream
<1>3. "none" \in SendError /\ ~InHandler /\ "idle" \in Stage
  BY DEF SendError, InHandler, SessionInit, Stage
<1>4. /\ payload \in PayloadType /\ Seen(payload) /\ IgnoresRest(payload)
  <2>1. 0 \in Below(WordMod) /\ payload = Streambuf(0, 0)
    BY Words DEF Below, SessionInit
  <2>2. /\ payload.size = 0 /\ payload.ignore = 0
        /\ payload.seen = <<>> /\ Len(<<>>) = 0
    BY <2>1 DEF Streambuf
  <2>3. IgnoresRest(payload)
    BY <2>2 DEF IgnoresRest
  <2>4. 0 \in Nat
    OBVIOUS
  <2> QED BY <2>1, <2>3, <2>4, StreambufFacts, Zenon
<1>5. header \in HeaderType /\ HeaderInv /\ header.codes = 0
  <2>1. header = [index |-> reserved, alive |-> [t \in Handled |-> 0],
                  topic |-> 0, codes |-> 0] /\ stage = "idle"
    BY DEF SessionInit
  <2>2. 0 \in 0 .. TopicMax
    BY SessionAssumption DEF SessionAssumption
  <2>3. header \in HeaderType
    BY <2>1, <2>2 DEF HeaderType
  <2> QED BY <1>3, <2>1, <2>3, NoneReserved DEF HeaderInv, OneAlive
<1>6. TypeInv
  <2>1. calls \in Seq(CallRecord)
    BY <1>2
  <2> QED BY <1>1, <1>2, <1>3, <1>4, <1>5, <2>1
          DEF TypeInv, SessionTypeOK, HandlerInv, SessionInit, HeaderType,
              PayloadType
<1>7. StreamInv
  BY <1>2, <1>3
     DEF StreamInv, OutputInv, ReportsWhatWasSent, TornOnlyWhenTooLong,
         NothingAfterDisconnect, SessionInit
<1>8. CodesFit
  BY <1>5, SessionAssumption DEF CodesFit, SessionAssumption
<1>9. AckInv
  <2>1. calls = <<>> /\ read = 0
    BY DEF SessionInit
  <2>2. Acks = {} /\ Due = {}
    BY <2>1 DEF Acks, Due
  <2>3. <<>> \in [Acks -> Due]
    BY <2>2
  <2>4. Answers(<<>>)
    BY <1>3, <2>2, <2>3 DEF Answers, Answering, Unanswered
  <2> QED BY <1>3, <2>4 DEF AckInv
<1> QED BY <1>3, <1>4, <1>5, <1>6, <1>7, <1>8, <1>9 DEF SessionInv, PayloadInv

(* And every step keeps it. *)
LEMMA SessionInductive ==
  ASSUME SessionInv, [SessionNext]_sessionVars
  PROVE  SessionInv'
<1>1. /\ OutputInv' /\ ReportsWhatWasSent' /\ TornOnlyWhenTooLong'
      /\ LastDisconnects'
  BY StreamInductive DEF SessionInv
<1>2. (header \in HeaderType)' /\ HeaderInv' /\ CodesFit'
  BY HeaderInductive DEF SessionInv
<1>3. (payload \in PayloadType)' /\ PayloadInv'
  BY PayloadInductive DEF SessionInv
<1>4. ControlInv'
  BY ControlInductive DEF SessionInv
<1>5. StreamInv'
  <2>1. NothingAfterDisconnect'
    BY <1>1, <1>2 DEF LastDisconnects, HeaderInv, NothingAfterDisconnect
  <2> QED BY <1>1, <2>1 DEF StreamInv, LastDisconnects
<1>6. TypeInv'
  BY <1>1, <1>2, <1>3, <1>4
     DEF TypeInv, SessionTypeOK, OutputInv, HeaderType, PayloadType,
         ControlInv, EcType
<1>7. AckInv'
  BY AckInductive DEF SessionInv, StreamInv
<1> QED BY <1>2, <1>3, <1>5, <1>6, <1>7 DEF SessionInv

(* The inductive invariant of Session, in every reachable state. *)
THEOREM SessionInvariant == SessionSafety => []SessionInv
<1>1. SessionInit => SessionInv
  BY SessionStarts
<1>2. SessionInv /\ [SessionNext]_sessionVars => SessionInv'
  BY SessionInductive
<1> QED BY <1>1, <1>2, PTL DEF SessionSafety

(* Every variable of a session stays within its type: no container of a    *)
(* topic holds more than its size, no error_code outside a call's own.     *)
THEOREM SessionTypeTheorem == SessionSafety => []SessionTypeOK
<1>1. SessionInv => SessionTypeOK
  BY DEF SessionInv, TypeInv
<1> QED BY <1>1, SessionInvariant, PTL

(* connect, publish, subscribe, unsubscribe, ping and disconnect report    *)
(* success iff their whole packet is on the stream, for packets of every   *)
(* size, error_codes already set and streams that break anywhere.          *)
THEOREM ReportsTheorem == SessionSafety => []ReportsWhatWasSent
<1>1. SessionInv => ReportsWhatWasSent
  BY DEF SessionInv, StreamInv
<1> QED BY <1>1, SessionInvariant, PTL

(* The write_packet functions announce the length they write, but for the  *)
(* three exceptions the property names.                                    *)
THEOREM TornTheorem == SessionSafety => []TornOnlyWhenTooLong
<1>1. SessionInv => TornOnlyWhenTooLong
  BY DEF SessionInv, StreamInv
<1> QED BY <1>1, SessionInvariant, PTL

(* After disconnect or the destructor nothing is written. *)
THEOREM DisconnectTheorem == SessionSafety => []NothingAfterDisconnect
<1>1. SessionInv => NothingAfterDisconnect
  BY DEF SessionInv, StreamInv
<1> QED BY <1>1, SessionInvariant, PTL

(* The Constrained_streambuf yields the payload's bytes in order, all of   *)
(* them if the handler reads to the end.                                   *)
THEOREM SeesPayloadTheorem == SessionSafety => []SeesPayload
<1>1. SessionInv => SeesPayload
  <2> SUFFICES ASSUME SessionInv PROVE SeesPayload
    OBVIOUS
  <2>1. payload \in PayloadType /\ Seen(payload)
    BY DEF SessionInv, TypeInv, SessionTypeOK, PayloadType, PayloadInv
  <2>2. ASSUME stage \in {"ack", "return"}, AtEnd
        PROVE  Len(payload.seen) = payload.size
    <3>1. Reading(payload)
      BY <2>2 DEF SessionInv, PayloadInv, InHandler
    <3>2. /\ payload.taken = Len(payload.seen) /\ payload.remaining = 0
          /\ payload.taken + payload.remaining = payload.size
          /\ payload.taken \in Nat
      BY <2>1, <2>2, <3>1 DEF AtEnd, Reading, PayloadType
    <3> QED BY <3>2
  <2> QED BY <2>1, <2>2 DEF SeesPayload, Seen
<1> QED BY <1>1, SessionInvariant, PTL

(* What a handler has seen of a payload and what is skipped after it make  *)
(* the whole payload, unless it leaves a byte in the buffer.               *)
THEOREM ReleaseTheorem == SessionSafety => []ReleaseExact
<1>1. SessionInv => ReleaseExact
  BY DEF SessionInv, PayloadInv, ReleaseExact, IgnoresRest
<1> QED BY <1>1, SessionInvariant, PTL

(* The Variant constructs and destroys every header once. *)
THEOREM HeaderAliveTheorem == SessionSafety => []HeaderAlive
<1>1. SessionInv => HeaderAlive
  BY DEF SessionInv, HeaderInv, HeaderAlive, OneAlive
<1> QED BY <1>1, SessionInvariant, PTL

(* Every publication of QoS 1 is acknowledged once and in the order        *)
(* received, but for the last, whose handler may still run or whose        *)
(* acknowledgement an error may have prevented.                            *)
THEOREM AcksInOrderTheorem == SessionSafety => []AcksInOrder
<1>1. SessionInv => AcksInOrder
  <2> SUFFICES ASSUME SessionInv PROVE AcksInOrder
    OBVIOUS
  <2>1. PICK f : Answers(f)
    BY DEF SessionInv, AckInv
  <2> QED BY <2>1 DEF Answers, Pending, InHandler, AcksInOrder
<1> QED BY <1>1, SessionInvariant, PTL

(* Return codes stay inside their container as long as the broker answers  *)
(* with no more than there is room for.                                    *)
THEOREM CodesFitTheorem == SessionSafety => []CodesFit
<1>1. SessionInv => CodesFit
  BY DEF SessionInv
<1> QED BY <1>1, SessionInvariant, PTL

=============================================================================
