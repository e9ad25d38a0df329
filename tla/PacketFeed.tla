----------------------------- MODULE PacketFeed -----------------------------
(***************************************************************************)
(* What the receiving half of a client is for: every packet the broker     *)
(* sends becomes one callback, in the order sent, with the header that was *)
(* sent and a payload stream that starts with the payload's first byte.    *)
(***************************************************************************)
EXTENDS Naturals, Sequences

VARIABLES
  sent,       \* the packets the broker sends, each a header and a payload
  received    \* the callbacks made so far

feedVars == <<sent, received>>

(* The callback for a packet whose handler extracts k payload bytes. *)
CallbackFor(packet, k) ==
  [header  |-> packet.header,
   size    |-> Len(packet.payload),
   payload |-> SubSeq(packet.payload, 1, k)]

FeedInit == received = <<>>

(* The next packet's callback is the only thing that ever happens. *)
Deliver ==
  /\ Len(received) < Len(sent)
  /\ LET next == sent[Len(received) + 1]
     IN \E k \in 0 .. Len(next.payload) :
          received' = Append(received, CallbackFor(next, k))
  /\ UNCHANGED sent

(* Nothing is lost: sooner or later all of them have been made. *)
AllDelivered == <>(Len(received) = Len(sent))

FeedSpec == FeedInit /\ [][Deliver]_feedVars /\ AllDelivered
=============================================================================
