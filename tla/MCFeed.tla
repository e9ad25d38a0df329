------------------------------- MODULE MCFeed -------------------------------
(***************************************************************************)
(* Feed on sequences of one packet of every kind.                          *)
(***************************************************************************)
EXTENDS Feed

CONSTANT Identifiers   \* packet identifiers used

Plain(type) == [header |-> Fresh(type), payload |-> <<>>]

Numbered(type, id) ==
  [Plain(type) EXCEPT !.header.packet_identifier = id]

Acks ==
  {Numbered(t, id) : t \in {puback, pubrec, pubrel, pubcomp, unsuback},
                     id \in Identifiers}
  \cup {[Numbered(suback, id) EXCEPT !.header.return_codes = codes] :
          id \in Identifiers, codes \in {<<0>>, <<1, 128, 2>>}}
  \cup {Plain(pingresp)}
  \cup {[Plain(connack) EXCEPT !.header.session_present = s,
                               !.header.return_code = c] :
          s \in {0, 1}, c \in {0, 5}}

Publish(flags, topic, payload) ==
  [header |-> [Fresh(publish) EXCEPT
                 !.flags = flags, !.topic = topic,
                 !.packet_identifier = IF flags = 0 THEN 0 ELSE 7],
   payload |-> payload]

(* The longest payload itself looks like a packet. *)
Publishes ==
  {Publish(flags, topic, payload) :
     flags \in {0, 11}, topic \in {<<1>>, <<116, 111, 112>>},
     payload \in {<<>>, <<104, 105>>, <<48, 3, 0, 1, 97>>}}

Representatives ==
  {Numbered(puback, 400), Numbered(unsuback, 5), Plain(pingresp),
   [Plain(connack) EXCEPT !.header.session_present = 1],
   [Numbered(suback, 5) EXCEPT !.header.return_codes = <<1, 128, 2>>],
   Publish(0, <<1>>, <<48, 3, 0, 1, 97>>),
   Publish(11, <<116, 111, 112>>, <<104, 105>>)}

MCStreams == [1 .. 1 -> Acks \cup Publishes] \cup [1 .. 2 -> Representatives]

MCPublishStreams == [1 .. 1 -> Publishes]

MCWires == {WireOf[s] : s \in Streams}

MCHandlers == [take: {0, 1, 9}, peek: {FALSE}, fail: BOOLEAN]
MCQuietHandlers == [take: {0}, peek: {FALSE}, fail: {FALSE}]
MCPeekingHandlers == [take: {0, 1, 9}, peek: BOOLEAN, fail: {FALSE}]
=============================================================================
