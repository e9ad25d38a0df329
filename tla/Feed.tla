-------------------------------- MODULE Feed --------------------------------
(***************************************************************************)
(* A broker's packets arriving at a Client: the stream holds the bytes of  *)
(* a sequence of well-formed packets, cut into available pieces at will,   *)
(* and the client implements PacketFeed.                                   *)
(***************************************************************************)
EXTENDS Client, Writer

CONSTANTS
  Streams,       \* the sequences of packets a broker may send
  SplitsTopics   \* the parts of a topic field a piece may end inside

(* The header with the fields that its alternative has; a packet           *)
(* identifier is only sent with a QoS.                                     *)
Kept(header) ==
  LET fresh == Fresh(header.index)
      id    == header.packet_identifier
  IN CASE header.index = publish ->
            [fresh EXCEPT !.flags = header.flags, !.topic = header.topic,
                          !.packet_identifier =
                             IF QoS(header) = 0 THEN 0 ELSE id]
       [] header.index = connack ->
            [fresh EXCEPT !.session_present = header.session_present,
                          !.return_code = header.return_code]
       [] header.index = suback ->
            [fresh EXCEPT !.packet_identifier = id,
                          !.return_codes = header.return_codes]
       [] header.index = pingresp -> fresh
       [] OTHER -> [fresh EXCEPT !.packet_identifier = id]

(* What a broker sends: a packet whose topic the container holds and whose *)
(* remaining length a variable byte integer holds.                         *)
WellFormed(packet) ==
  LET header == packet.header
  IN /\ header.index # reserved /\ header = Kept(header)
     /\ QoS(header) # 3
     /\ header.index # publish => packet.payload = <<>>
     /\ Len(header.topic) <= TopicMax /\ Len(header.topic) < 65536
     /\ 4 + Len(header.topic) + Len(packet.payload) < 268435456
     /\ 2 + Len(header.return_codes) < 268435456

(* The bytes of the first i packets of a sequence. *)
Written ==
  [packets \in Streams |->
     LET bytes[i \in 0 .. Len(packets)] ==
           IF i = 0 THEN <<>> ELSE bytes[i - 1] \o WritePacket(packets[i])
     IN bytes]

WireOf == [packets \in Streams |-> Written[packets][Len(packets)]]

ASSUME FeedAssumption ==
  /\ SplitsTopics \subseteq {"length", "text"}
  /\ Streams \subseteq Seq([header: Header, payload: Seq(Byte)])
  /\ \A packets \in Streams :
       /\ \A i \in 1 .. Len(packets) : WellFormed(packets[i])
       /\ WireOf[packets] \in Wires

VARIABLE sent

feedClientVars == <<vars, sent>>

(* The positions in the stream at which a packet ends. *)
End(i) == Len(Written[sent][i])

Boundaries == {End(i) : i \in 0 .. Len(sent)}

(* The positions strictly inside a topic field: after the first byte of    *)
(* its length and before the last byte of its text.                        *)
InsideTopics ==
  LET field(i) == End(i) - Len(sent[i].payload)
                    - (IF QoS(sent[i].header) = 0 THEN 0 ELSE 2)
  IN UNION {(field(i) - 1 - Len(sent[i].header.topic)) .. (field(i) - 1) :
              i \in {j \in 1 .. Len(sent) : sent[j].header.index = publish}}

(* The part of a topic field that is cut there: its length of two bytes,   *)
(* or its text, before which the length is complete.                       *)
PartCut(p) == IF p - 1 \in InsideTopics THEN "text" ELSE "length"

FeedInit ==
  /\ sent \in Streams
  /\ wire = WireOf[sent]
  /\ client = InitialClient
  /\ call = [available |-> 0, from |-> 0, returned |-> 0]

(* The caller's loop: it looks how many bytes there are and, if there are  *)
(* any, calls process_one (examples/lightweight.cpp:62-77).                *)
Arrivals ==
  LET excluded == {p \in InsideTopics : PartCut(p) \notin SplitsTopics}
  IN {a \in Offered \ {0} : client.pos + a \notin excluded}

CanReceive == client.ec \in Resume \cup {"none"} /\ Arrivals # {}

Receive ==
  /\ CanReceive
  /\ \E a \in Arrivals, h \in Handlers : ProcessOne(a, h)
  /\ UNCHANGED sent

(* Weak fairness of Receive: ENABLED Receive, which TLC takes too long to  *)
(* evaluate, is CanReceive.                                                *)
Polling == []<>~CanReceive \/ []<><<Receive>>_feedClientVars

FeedSpec == FeedInit /\ [][Receive]_feedClientVars /\ Polling
-----------------------------------------------------------------------------
Abstract == INSTANCE PacketFeed WITH received <- client.callbacks

(* Every packet becomes one callback, in order, with the header and the    *)
(* payload sent, and eventually all of them do, however the stream is cut. *)
ImplementsPacketFeed == Abstract!FeedSpec

(* The callbacks made so far are those of the first packets sent: none is  *)
(* lost, invented, repeated or altered.                                    *)
DeliversInOrder ==
  /\ Len(client.callbacks) <= Len(sent)
  /\ \A i \in 1 .. Len(client.callbacks) :
       \E k \in 0 .. Len(sent[i].payload) :
         client.callbacks[i] = Abstract!CallbackFor(sent[i], k)

(* Whenever no packet is in progress the stream stands, apart from payload *)
(* bytes it knows it has to skip, between two packets: handlers that leave *)
(* any part of a payload unread do not put it out of step.                 *)
InStep ==
  client.read_type = reserved /\ client.ec \in {"none", "handler_error"} =>
    client.pos + client.read_ignore \in Boundaries

(* The remaining length is respected: from the moment it is known, the     *)
(* bytes the reader still expects end where the packet in progress does,   *)
(* which is the one after those that have had their callback.              *)
RemainingEndsPacket ==
  client.read_type \in Handled \ {connack, unsuback, pingresp}
    /\ client.sequence >= 2
    => /\ Len(client.callbacks) < Len(sent)
       /\ client.pos + client.remaining_size = End(Len(client.callbacks) + 1)

(* process_one returns how many bytes it processed (client.hpp:255).       *)
ReturnsProcessed == call.returned = client.pos - call.from

(* Nothing is lost half-way: as long as a packet is missing its callback   *)
(* there are bytes of it left to offer, so a client that has taken all of  *)
(* a packet never holds it back until the next one arrives.                *)
NeverStuck ==
  Len(client.callbacks) < Len(sent) /\ client.ec \in Resume \cup {"none"} =>
    CanReceive

(* Every call brings the client on: it takes a byte or makes a callback,   *)
(* also after a handler's error.                                           *)
Onward ==
  [][\/ client'.pos > client.pos
     \/ Len(client'.callbacks) > Len(client.callbacks)]_feedClientVars

(* No well-formed stream makes the client report an error of its own.      *)
NoFalseAlarm == client.ec \in {"none", "handler_error"}
=============================================================================
