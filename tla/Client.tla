------------------------------- MODULE Client -------------------------------
(***************************************************************************)
(* The receiving half of terraqtt/client.hpp: process_one, called again    *)
(* and again on a stream that may hold any bytes, by a caller that says    *)
(* how many of them are available and whose handlers read as much of a     *)
(* payload as they like.                                                   *)
(***************************************************************************)
EXTENDS Packets

CONSTANTS
  Wires,         \* the byte sequences a stream may hold
  Handlers,      \* how on_... handlers behave, members of HandlerChoice
  HandlerBlocks, \* whether they read payload bytes beyond the available
  Modes,         \* how the caller chooses `available', see Offered
  Resume         \* the errors after which the caller calls again

(* A handler extracts `take' payload bytes, then looks at one more without *)
(* extracting it if `peek' (as formatted input does), then may set its ec. *)
HandlerChoice == [take: Nat, peek: BOOLEAN, fail: BOOLEAN]

ASSUME ClientAssumption ==
  /\ Wires \subseteq Seq(Byte)
  /\ \A w \in Wires : Len(w) < SizeMod \div 2
  /\ Handlers \subseteq HandlerChoice
  /\ HandlerBlocks \in BOOLEAN
  /\ Modes \subseteq {"nonblocking", "blocking"}
  /\ Resume \subseteq Error

VARIABLES
  client,   \* the private state of Basic_client and of its input stream
  call      \* the last call of process_one: its argument, where the stream
            \* stood when it began, and the value it returned

vars == <<wire, client, call>>

Call ==
  [available: Below(SizeMod), from: Nat, returned: Below(SizeMod)]

-----------------------------------------------------------------------------
MutantClearRead(r) ==   \* remaining_size is forgotten
  [r EXCEPT !.read_type = reserved, !.sequence = 0, !.data0 = 0, !.data1 = 0]

ClearRead(r) ==
  [r EXCEPT !.read_type = reserved, !.sequence = 0, !.data0 = 0,
            !.data1 = 0, !.remaining_size = 5]

(* _skip_ignored: discard what the last handler left of its payload. *)
MutantSkipBlocks(r) ==   \* waits for all of it
  LET skip == r.read_ignore
      got  == Got(r, skip)
  IN [r EXCEPT !.pos = @ + got, !.good = @ /\ got = skip,
               !.read_ignore = 0, !.available = (@ - skip) % SizeMod]

MutantSkipForgets(r) ==   \* gives up what is not available yet
  LET skip == StdMin(r.read_ignore, r.available)
      got  == Got(r, skip)
  IN [r EXCEPT !.pos = @ + got, !.good = @ /\ got = skip,
               !.read_ignore = 0, !.available = @ - skip]

SkipIgnored(r) ==
  LET skip == StdMin(r.read_ignore, r.available)
      got  == Got(r, skip)
  IN [r EXCEPT !.pos = @ + got, !.good = @ /\ got = skip,
               !.read_ignore = @ - skip, !.available = @ - skip]

(* The payload stream given to on_publish is a Constrained_streambuf over  *)
(* the rest of the packet: what it yields past the end of its parent is    *)
(* whatever its one-byte buffer holds.                                     *)
PayloadByte(r, i) ==
  IF r.pos + i <= Len(wire) THEN wire[r.pos + i] ELSE Stale

(* _handle_publish after the header: `size' payload bytes follow.  The     *)
(* handler takes k of them; a byte it peeked at has left the parent too.   *)
(* release() subtracts a byte still in the buffer a second time, and       *)
(* overread is computed from an `available' that was zeroed just before.   *)
OnPublish(r, size, h) ==
  LET limit  == IF HandlerBlocks THEN size ELSE StdMin(size, r.available)
      k      == StdMin(h.take, limit)
      peeked == IF h.peek /\ k < limit THEN 1 ELSE 0
      ignore == (size - k - peeked - peeked) % SizeMod
      read   == (size - ignore) % SizeMod
      end    == StdMin(r.pos + k + peeked, Len(wire))
      s == [r EXCEPT
              !.callbacks = Append(@, [header |-> r.read_header,
                                       size |-> size,
                                       payload |-> [i \in 1 .. k |->
                                                      PayloadByte(r, i)]]),
              !.ec = IF h.fail THEN "handler_error" ELSE "none",
              !.pos = IF @ > end THEN @ ELSE end,
              !.read_ignore = ignore]
  IN IF read > r.available
     THEN [s EXCEPT !.available = 0, !.overread = read]
     ELSE [s EXCEPT !.available = @ - read]

(* The other handlers only look at the header. *)
OnOther(r, h) ==
  [r EXCEPT !.callbacks = Append(@, [header |-> r.read_header, size |-> 0,
                                     payload |-> <<>>]),
            !.ec = IF h.fail THEN "handler_error" ELSE "none"]

(* A packet that is begun gets a new header. *)
MutantEmplaceOnce(r, type) ==   \* only the first packet does
  IF r.sequence = 0 /\ r.read_header.index = reserved
  THEN [r EXCEPT !.read_header = Fresh(type)] ELSE r

MutantEmplaceReuses(r, type) ==   \* one of the same type is used again
  IF r.sequence = 0 /\ r.read_header.index # type
  THEN [r EXCEPT !.read_header = Fresh(type)] ELSE r

Emplace(r, type) ==
  IF r.sequence = 0 THEN [r EXCEPT !.read_header = Fresh(type)] ELSE r

(* The _handle_... functions.  With another alternative in _read_header    *)
(* than the type being read the code dereferences a null pointer.          *)
MutantHandle(r, h) ==   \* a payload needs a byte to be handled
  LET type == r.read_type
      s == Emplace(r, type)
      Deliver(q) == IF type # publish THEN OnOther(ClearRead(q), h)
                    ELSE IF q.available = 0 THEN q
                    ELSE OnPublish(ClearRead(q), q.remaining_size, h)
  IN IF s.read_header.index # type THEN Fail(s, "bad_variant_cast")
     ELSE Then(ReadPacket(s, type), Deliver)

Handle(r, h) ==
  LET type == r.read_type
      s == Emplace(r, type)
      Deliver(q) == IF type = publish
                    THEN OnPublish(ClearRead(q), q.remaining_size, h)
                    ELSE OnOther(ClearRead(q), h)
  IN IF s.read_header.index # type THEN Fail(s, "bad_variant_cast")
     ELSE Then(ReadPacket(s, type), Deliver)

MutantDispatch(r, h) ==   \* unknown types are ignored
  IF r.read_type \in Handled THEN Handle(r, h) ELSE r

MutantDispatchBreaks(r, h) ==   \* nothing is done for a PINGRESP
  CASE r.read_type \in {reserved, pingresp} -> r
    [] r.read_type \in Handled              -> Handle(r, h)
    [] OTHER                                -> Fail(r, "bad_packet_type")

Dispatch(r, h) ==
  CASE r.read_type = reserved   -> r
    [] r.read_type \in Handled  -> Handle(r, h)
    [] OTHER                    -> Fail(r, "bad_packet_type")

(***************************************************************************)
(* process_one(ec, a), with h the behaviour of whatever handler it calls:  *)
(* the state it leaves and the value it returns.  ec is clear on entry, as *)
(* in the throwing overload.                                               *)
(***************************************************************************)
Outcome(r, processed) == [client |-> r, returned |-> processed]

Processed(a, h) ==
  LET start == [client EXCEPT !.available = a, !.ok = TRUE, !.ec = "none"]
      Return(r) == Outcome([r EXCEPT !.overread = 0],
                           (a - r.available + r.overread) % SizeMod)
      Process(r) == IF r.ec # "none" THEN Outcome(r, 0)
                    ELSE Return(SkipIgnored(Dispatch(r, h)))
      Begin(r) == IF r.available = 0 THEN Outcome(r, 0)
                  ELSE Process(IF r.read_type = reserved THEN PeekType(r)
                               ELSE r)
  IN Begin(SkipIgnored(start))

ProcessOne(a, h) ==
  LET outcome == Processed(a, h)
  IN /\ client' = outcome.client
     /\ call' = [available |-> a, from |-> client.pos,
                 returned |-> outcome.returned]
     /\ UNCHANGED wire

(* The values of `available' the caller may pass: any number of the bytes  *)
(* still to come (an arbitrary part of them has arrived), or the default   *)
(* argument, which is the largest std::size_t.                             *)
Offered ==
  UNION {IF m = "nonblocking" THEN 0 .. Len(wire) - client.pos
         ELSE {SizeMod - 1} : m \in Modes}

Init ==
  /\ wire \in Wires
  /\ client = InitialClient
  /\ call = [available |-> 0, from |-> 0, returned |-> 0]

Next ==
  /\ client.ec \in Resume \cup {"none"}
  /\ \E a \in Offered, h \in Handlers : ProcessOne(a, h)

Spec == Init /\ [][Next]_vars
-----------------------------------------------------------------------------
TypeOK ==
  /\ wire \in Wires
  /\ client \in ClientState
  /\ call \in Call

(* A call never asks the Variant for another header than the one it holds, *)
(* so the handlers never dereference the null pointer get() would return:  *)
(* whatever bytes arrive, in whatever pieces, and even if the caller goes  *)
(* on after an error, a packet once begun is finished in the alternative   *)
(* that was emplaced for it.                                               *)
HeaderMatchesType ==
  /\ client.ec # "bad_variant_cast"
  /\ client.sequence # 0 => client.read_header.index = client.read_type

(* Between two packets no trace of the first is left that the resumable    *)
(* read operations could take for their own progress.                      *)
FreshBetweenPackets ==
  client.read_type = reserved =>
    /\ client.sequence = 0 /\ client.remaining_size = 5
    /\ client.data0 = 0 /\ client.data1 = 0

(* process_one "can be used in a non-blocking fashion" (client.hpp:250):   *)
(* it takes no more bytes from the stream than the caller said there are.  *)
(* Handlers that read beyond them by their own choice are excepted.        *)
NeverBlocks ==
  ~HandlerBlocks => client.pos - call.from <= call.available

(* The shift-and-add of the variable integer stays in step with the bytes  *)
(* it consumed, also over several calls and after errors: the multiplier   *)
(* is the power of 128 those bytes account for, the sum is below it, and   *)
(* the five bytes a fixed header may have never let either overflow.  That *)
(* is so of streams whose SUBACKs have at most 252 return codes: with more *)
(* of them `sequence' wraps (subscription.hpp:143) and is 1 again.         *)
VariableIntegerFits ==
  client.read_type # reserved /\ client.sequence = 1 =>
    \/ client.data0 = 0 /\ client.data1 \in {0, 1}
    \/ \E k \in 1 .. 4 :
         /\ client.data1 = 128 ^ k
         /\ client.data0 < 128 ^ k
         /\ client.remaining_size = 4 - k

(* The topic container never holds more than it has room for. *)
TopicFits == Len(client.read_header.topic) <= TopicMax

(* A caller that polls never spins: a call that is offered bytes takes at  *)
(* least one, delivers a packet, reports an error or leaves the stream in  *)
(* a bad state, which the loop that polls tests (lightweight.cpp:62).  The *)
(* exception is a packet of the reserved type 0, which process_one neither *)
(* rejects nor skips (client.hpp:275).                                     *)
Stalls ==
  /\ client.read_type = reserved /\ client.read_ignore = 0
  /\ client.pos < Len(wire) /\ wire[client.pos + 1] \div 16 = reserved

Progresses ==
  [][call'.available > 0 =>
       \/ client'.pos > client.pos
       \/ client'.callbacks # client.callbacks
       \/ client'.ec # "none" \/ ~client'.good \/ Stalls]_vars
=============================================================================
