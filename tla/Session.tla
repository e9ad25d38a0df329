------------------------------- MODULE Session -------------------------------
(***************************************************************************)
(* A client and its application, after examples/lightweight.cpp: a loop    *)
(* that polls, whose on_publish handler publishes, reads the payload       *)
(* stream and acknowledges, and calls of the sending half in between.  It  *)
(* shows what the parts of a client share: the output stream, the          *)
(* error_code of a call of process_one, the Variant of the header, and the *)
(* Constrained_streambuf over the payload.  A packet is received at once   *)
(* here; Client shows how process_one resumes it.                          *)
(***************************************************************************)
EXTENDS Output

CONSTANTS
  Inboxes,    \* the sequences of messages a broker sends, members of Message
  Headers,    \* the headers it connects with, members of ConnectHeader
  Filters,    \* the topics it subscribes to or unsubscribes, of Strings
  Publications, \* the sizes of topic and payload and the QoS it publishes
  MaxCalls,   \* bound on the calls recorded when the application sends
  Rooms,      \* how many bytes the connection may take before it breaks
  Reuses,     \* whether an error_code still set may be passed again
  TopicMax,   \* Size of the Static_container of a topic
  CodesMax    \* Size of the Static_container of return codes

(* What matters of a packet received: of a PUBLISH the QoS, identifier,    *)
(* the sizes of topic and payload, and the payload bytes that are there    *)
(* before the stream ends; of a SUBACK how many return codes it has.       *)
Message ==
  {m \in [type: Handled, qos: 0 .. 2, id: Below(65536), topic: Nat,
          size: Below(WordMod), there: Nat, codes: Nat] : m.there <= m.size}

ASSUME SessionAssumption ==
  /\ Inboxes \subseteq Seq(Message)
  /\ Headers \subseteq ConnectHeader
  /\ Filters \subseteq Strings
  /\ Publications \subseteq [topic: Nat, payload: Nat, qos: 0 .. 2]
  /\ MaxCalls \in Nat
  /\ Rooms \subseteq Nat
  /\ Reuses \in BOOLEAN
  /\ TopicMax \in Nat /\ CodesMax \in Nat

VARIABLES
  inbox,    \* the messages the broker sends
  read,     \* how many of them have been received
  stage,    \* where the application is
  ec,       \* the error_code last passed to a call
  header,   \* the Variant _read_header and the containers in its header
  payload   \* the Constrained_streambuf of the last on_publish

sessionVars ==
  <<output, attached, calls, inbox, read, stage, ec, header, payload>>

Stage == {"idle", "log", "reading", "ack", "return", "update", "lost",
          "over", "gone"}

InHandler == stage \in {"log", "reading", "ack", "return"}

-----------------------------------------------------------------------------
(* Variant: the index of the alternative it holds (reserved for npos) and  *)
(* how many objects of each type were constructed and not destroyed;       *)
(* Static_container: the number of elements in topic and return_codes.     *)
MutantClear(h) ==   \* the object is not destroyed
  [h EXCEPT !.index = reserved]

Clear(h) ==
  IF h.index = reserved THEN h
  ELSE [h EXCEPT !.alive[h.index] = @ - 1, !.index = reserved]

MutantConstruct(h, type) ==   \* what was in the storage is still there
  [h EXCEPT !.alive[type] = @ + 1, !.index = type]

Construct(h, type) ==
  [h EXCEPT !.alive[type] = @ + 1, !.index = type, !.topic = 0, !.codes = 0]

EmplaceIn(h, type) == Construct(Clear(h), type)

(* read_blob asks for max_size() before each push_back; the loop over the  *)
(* return codes does not.                                                  *)
MutantFilled(h, m) ==   \* max_size() is not asked for
  [h EXCEPT !.topic = @ + m.topic, !.codes = @ + m.codes]

Filled(h, m) ==
  [h EXCEPT !.topic = StdMin(@ + m.topic, TopicMax), !.codes = @ + m.codes]

(* Static_container::empty() *)
Empty(size) == size # 0

-----------------------------------------------------------------------------
(* Constrained_streambuf: `remaining' as in the code, `taken' bytes asked  *)
(* of the parent, which has `there' of them; `byte' is the position in the *)
(* payload of the byte in the buffer (0 if it was never filled), and it    *)
(* has been read but not extracted if `buffered'.  `seen' are the bytes    *)
(* extracted, `ignore' what release() returned.                            *)
Streambuf(size, there) ==
  [size |-> size, there |-> there, remaining |-> size, taken |-> 0,
   byte |-> 0, buffered |-> FALSE, seen |-> <<>>, ignore |-> 0]

AtEnd == ~payload.buffered /\ payload.remaining = 0

(* At the end of the parent sgetn leaves the buffer as it is. *)
MutantUnderflowed(b) ==   \* the byte is not counted
  [b EXCEPT !.byte = IF b.taken < b.there THEN b.taken + 1 ELSE @,
            !.taken = @ + 1, !.buffered = TRUE,
            !.remaining = IF b.taken = 0 THEN @ ELSE @ - 1]

Underflowed(b) ==
  [b EXCEPT !.byte = IF b.taken < b.there THEN b.taken + 1 ELSE @,
            !.taken = @ + 1, !.buffered = TRUE, !.remaining = @ - 1]

Extracted(b) ==
  [b EXCEPT !.seen = Append(@, b.byte), !.buffered = FALSE]

MutantReleased(b) ==   \* subtracts a byte that was extracted
  [b EXCEPT !.ignore =
     (b.remaining - (IF b.taken > 0 THEN 1 ELSE 0)) % SizeMod,
            !.remaining = 0]

Released(b) ==
  [b EXCEPT !.ignore =
     (b.remaining - (IF b.buffered THEN 1 ELSE 0)) % SizeMod,
            !.remaining = 0]

-----------------------------------------------------------------------------
(* One call of process_one with a fresh error_code, up to the virtual      *)
(* call.  A topic that does not fit ends it with an error.  process_one    *)
(* never looks at _output; that it makes no on_publish that sends once     *)
(* disconnect has let go of it is left to the caller, and assumed here.    *)
Poll ==
  /\ stage = "idle" /\ read < Len(inbox)
  /\ LET m       == inbox[read + 1]
         tooLong == m.type = publish /\ m.topic > TopicMax
     IN /\ m.type = publish /\ ~tooLong => attached
        /\ header' = Filled(EmplaceIn(header, m.type), m)
        /\ ec' = IF tooLong THEN "not_enough_memory" ELSE "none"
        /\ stage' = IF tooLong THEN "over"
                    ELSE IF m.type = publish THEN "log" ELSE "update"
        /\ payload' = IF m.type = publish /\ ~tooLong
                      THEN Streambuf(m.size, m.there) ELSE payload
  /\ read' = read + 1
  /\ UNCHANGED <<output, attached, calls, inbox>>

(* on_publish: publish(ec, "log", "some message received") *)
Log ==
  /\ stage = "log"
  /\ LET p == PublishPacket(3, 21, 0)
     IN Send(p, ec) /\ ec' = Reported(p, ec)
  /\ stage' = "reading"
  /\ UNCHANGED <<attached, inbox, read, header, payload>>

(* on_publish: std::cout << payload.rdbuf(), which looks at a byte, writes *)
(* it and then extracts it, until there are no more or a write fails.      *)
Look ==
  /\ stage = "reading" /\ ~payload.buffered /\ payload.remaining > 0
  /\ payload' = Underflowed(payload)
  /\ UNCHANGED <<output, attached, calls, inbox, read, stage, ec, header>>

Extract ==
  /\ stage = "reading" /\ payload.buffered
  /\ payload' = Extracted(payload)
  /\ UNCHANGED <<output, attached, calls, inbox, read, stage, ec, header>>

StopReading ==
  /\ stage = "reading" /\ (AtEnd \/ payload.buffered \/ payload.taken = 0)
  /\ stage' = "ack"
  /\ UNCHANGED <<output, attached, calls, inbox, read, ec, header, payload>>

(* on_publish: a PUBACK if the message was sent with QoS 1 *)
MutantAck ==   \* QoS 2 is acknowledged instead
  /\ stage = "ack"
  /\ LET m == inbox[read]
     IN IF m.qos = 2
        THEN /\ Send(PubackPacket(m.id), ec)
             /\ ec' = Reported(PubackPacket(m.id), ec)
        ELSE UNCHANGED <<output, calls, ec>>
  /\ stage' = "return"
  /\ UNCHANGED <<attached, inbox, read, header, payload>>

Ack ==
  /\ stage = "ack"
  /\ LET m == inbox[read]
     IN IF m.qos = 1
        THEN /\ Send(PubackPacket(m.id), ec)
             /\ ec' = Reported(PubackPacket(m.id), ec)
        ELSE UNCHANGED <<output, calls, ec>>
  /\ stage' = "return"
  /\ UNCHANGED <<attached, inbox, read, header, payload>>

(* The rest of _handle_publish, and of the loop's call of process_one.  A  *)
(* wrong number of bytes to ignore puts the client out of step with its    *)
(* stream, and what it does then is not modelled here.                     *)
Return ==
  /\ stage = "return"
  /\ payload' = Released(payload)
  /\ stage' = IF ec # "none" THEN "over"
              ELSE IF payload.buffered THEN "lost" ELSE "update"
  /\ UNCHANGED <<output, attached, calls, inbox, read, ec, header>>

(* Nothing is available: the loop goes on to update_state. *)
Wait ==
  /\ stage = "idle" /\ read = Len(inbox)
  /\ stage' = "update"
  /\ UNCHANGED <<output, attached, calls, inbox, read, ec, header, payload>>

(* update_state, which KeepAlive shows in detail: it does nothing, sends a *)
(* PINGREQ or gives up; every error ends the loop.  As for a publication,  *)
(* the caller has to see to it that it does not ping after disconnect.     *)
UpdateIdles ==
  /\ stage = "update"
  /\ ec' = "none"
  /\ stage' = "idle"
  /\ UNCHANGED <<output, attached, calls, inbox, read, header, payload>>

UpdatePings ==
  /\ stage = "update" /\ Len(calls) < MaxCalls
  /\ Send(PingreqPacket, "none")
  /\ ec' = Reported(PingreqPacket, "none")
  /\ stage' = IF ec' = "none" THEN "idle" ELSE "over"
  /\ UNCHANGED <<attached, inbox, read, header, payload>>

UpdateTimesOut ==
  /\ stage = "update"
  /\ ec' = "connection_timed_out"
  /\ stage' = "over"
  /\ UNCHANGED <<output, attached, calls, inbox, read, header, payload>>

(* What error_code an application that may go on after an error passes:    *)
(* the documentation of the calls says that it is `out'.                   *)
Given == {"none"} \cup (IF Reuses THEN {ec} \cap SendError ELSE {})

(* connect, publish, subscribe or unsubscribe, between two steps of the    *)
(* loop and before disconnect has taken the streams away.                  *)
Ready == stage = "idle" /\ attached /\ Len(calls) < MaxCalls

Request(p) ==
  /\ \E e \in Given : Send(p, e) /\ ec' = Reported(p, e)
  /\ UNCHANGED <<attached, inbox, read, stage, header, payload>>

Connect     == Ready /\ \E h \in Headers : Request(ConnectPacket(h))
Subscribe   == Ready /\ \E f \in Filters : Request(SubscribePacket(f))
Unsubscribe == Ready /\ \E f \in Filters : Request(UnsubscribePacket(f))
Publish     ==
  /\ Ready
  /\ \E p \in Publications :
       Request(PublishPacket(p.topic, p.payload, p.qos))

(* disconnect(ec) by the application. *)
Quit ==
  /\ stage \in {"idle", "over"} /\ attached
  /\ \E e \in Given :
       Disconnect(e) /\ ec' = Reported(DisconnectPacket, e)
  /\ UNCHANGED <<inbox, read, stage, header, payload>>

(* The destructor, after the loop has ended or disconnect was called. *)
Destroy ==
  /\ stage = "over" \/ (stage = "idle" /\ ~attached)
  /\ Disconnect("none")
  /\ header' = Clear(header)
  /\ stage' = "gone"
  /\ UNCHANGED <<inbox, read, ec, payload>>

-----------------------------------------------------------------------------
SessionInit ==
  /\ inbox \in Inboxes
  /\ \E room \in Rooms :
       output = [frames |-> <<>>, room |-> room, good |-> TRUE]
  /\ attached = TRUE
  /\ calls = <<>>
  /\ read = 0
  /\ stage = "idle"
  /\ ec = "none"
  /\ header = [index |-> reserved, alive |-> [t \in Handled |-> 0],
               topic |-> 0, codes |-> 0]
  /\ payload = Streambuf(0, 0)

Handling == Log \/ Look \/ Extract \/ StopReading \/ Ack \/ Return

Updating == UpdateIdles \/ UpdatePings \/ UpdateTimesOut

SessionNext ==
  \/ Poll \/ Handling \/ Wait \/ Updating
  \/ Connect \/ Subscribe \/ Unsubscribe \/ Publish
  \/ Quit \/ Destroy

SessionSafety == SessionInit /\ [][SessionNext]_sessionVars

(* The application's one thread runs on: the loop polls while messages     *)
(* are there, and a handler and update_state that were called return.      *)
SessionSpec ==
  /\ SessionSafety
  /\ WF_sessionVars(Poll) /\ WF_sessionVars(Handling)
  /\ WF_sessionVars(Updating)
-----------------------------------------------------------------------------
SessionTypeOK ==
  /\ output \in Stream
  /\ attached \in BOOLEAN
  /\ calls \in Seq(CallRecord)
  /\ inbox \in Inboxes /\ read \in 0 .. Len(inbox)
  /\ stage \in Stage
  /\ ec \in SendError \cup {"not_enough_memory", "connection_timed_out"}
  /\ header \in [index: Handled \cup {reserved}, alive: [Handled -> Int],
                 topic: 0 .. TopicMax, codes: Nat]
  /\ payload \in [size: Below(WordMod), there: Nat, remaining: Nat,
                  taken: Nat, byte: Nat, buffered: BOOLEAN, seen: Seq(Nat),
                  ignore: Below(SizeMod)]

(* Whoever disconnects, the application, the destructor or both, a         *)
(* DISCONNECT is attempted once and nothing is written after it: a second  *)
(* call or the destructor does not use the stream that was let go.         *)
NothingAfterDisconnect ==
  /\ \A k \in 1 .. Len(calls) :
       calls[k].packet.type = disconnect => k = Len(calls) /\ ~attached
  /\ stage = "gone" => ~attached

IsAck(c)  == c.packet.type = puback /\ c.ec = "none"
IsQoS1(m) == m.type = publish /\ m.qos = 1

Acks == {i \in 1 .. Len(calls) : IsAck(calls[i])}
Due  == {k \in 1 .. read : IsQoS1(inbox[k])}

(* The ways to say which PUBACK answers which message: every one of them   *)
(* another message with its identifier, in the order received.             *)
Answering ==
  {f \in [Acks -> Due] :
     /\ \A i, j \in Acks : i < j => f[i] < f[j]
     /\ \A i \in Acks : calls[i].packet.id = inbox[f[i]].id}

Unanswered(f) == {k \in Due : \A i \in Acks : f[i] # k}

(* Every publication of QoS 1 that was handled is acknowledged, in the     *)
(* order received and once; only the last may be missing, while its        *)
(* handler runs, or because an error ended the loop before or in it.       *)
AcksInOrder ==
  \E f \in Answering :
    \A k \in Unanswered(f) :
      k = read /\ (InHandler \/ stage \in {"over", "gone"})

(* The loop does not starve a broker: all its publications of QoS 1 are    *)
(* acknowledged unless the session ends or the client loses step.          *)
AllAcked ==
  <>(\/ stage \in {"lost", "over", "gone"} \/ ~attached
     \/ /\ read = Len(inbox)
        /\ \E f \in Answering : Unanswered(f) = {})

(* The handler sees the payload's own bytes, in order and no more than     *)
(* were announced.  Where the parent stream ends early it is not told: it  *)
(* gets the last byte again for each that is missing, and one that was     *)
(* never written if there were none at all (constrained_streambuf.hpp:47). *)
SeesPayload ==
  /\ Len(payload.seen) <= payload.size
  /\ \A i \in 1 .. Len(payload.seen) :
       payload.seen[i] = StdMin(i, payload.there)
  /\ stage \in {"ack", "return"} /\ AtEnd =>
       Len(payload.seen) = payload.size

(* "If the data is not read when the function exits, the remaining data is *)
(* discarded" (client.hpp:310-311): once the handler is back, the bytes it *)
(* has seen and those that will be skipped are the whole payload, wherever *)
(* it stopped and whatever failed in it.  A handler that leaves a byte in  *)
(* the buffer is excepted; there the code breaks the promise (feed_peek).  *)
ReleaseExact ==
  ~InHandler /\ ~payload.buffered =>
    Len(payload.seen) + payload.ignore = payload.size

(* Every header constructed in the Variant is destroyed once, as what it   *)
(* was constructed; a handler is given one that is alive; none is left     *)
(* after the destructor.                                                   *)
HeaderAlive ==
  /\ \A t \in Handled : header.alive[t] = IF t = header.index THEN 1 ELSE 0
  /\ InHandler => header.index = publish
  /\ stage = "gone" => header.index = reserved

(* As long as the broker answers with no more return codes than there is   *)
(* room for, that is if one SUBSCRIBE never names more topics than that,   *)
(* push_back, which does not check, stays inside its container.            *)
CodesFit ==
  (\A i \in 1 .. read : inbox[i].codes <= CodesMax) =>
    header.codes <= CodesMax

(* String "must satisfy the Container requirements" (client.hpp:40), of    *)
(* which one is that a container is empty iff begin() = end().             *)
EmptyMeansNoElements ==
  header.index = publish => (Empty(header.topic) <=> header.topic = 0)
=============================================================================
