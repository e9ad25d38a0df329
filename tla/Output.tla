------------------------------- MODULE Output -------------------------------
(***************************************************************************)
(* The write_packet functions of terraqtt/protocol and the sending half of *)
(* terraqtt/client.hpp, on an output stream that may break after any       *)
(* number of bytes.  What is on the stream is a sequence of frames: how    *)
(* many bytes of each packet were written, and how many its fixed header   *)
(* announces.                                                              *)
(***************************************************************************)
EXTENDS General

(* Control_packet_type: the packets only a client sends.                   *)
connect     == 1
subscribe   == 8
unsubscribe == 10
pingreq     == 12
disconnect  == 14

(* The errors of a call that writes. *)
SendError == {"none", "io_error", "payload_too_large", "string_too_long",
              "variable_integer_too_large", "bad_will",
              "bad_username_password", "empty_client_identifier"}

(* The strings of a packet: their number and the sum of their sizes, and   *)
(* the same for those in front of the first that is longer than 65535.     *)
(* All of them are in front of it if there is none.                        *)
Strings ==
  {s \in [count: Nat, text: Nat, ahead: Nat, aheadText: Nat] :
     \/ s.ahead = s.count /\ s.aheadText = s.text
     \/ s.ahead < s.count /\ s.aheadText + 65536 <= s.text}

(* What a write_packet function is about to write: `lead' bytes of its     *)
(* body go with the fixed header, `body' bytes follow, the first `fits' of *)
(* which precede a string that write_blob refuses; `sum' is the remaining  *)
(* length added up (ok = FALSE if it became too large), `invalid' the      *)
(* error found in the header itself, `huge' whether a size is above        *)
(* std::uint32_t, `id' the identifier an acknowledgement refers to.        *)
Packet ==
  {p \in [type: 1 .. 14, lead: 0 .. 10, body: Nat, fits: Nat,
          sum: [ok: BOOLEAN, left: Below(WordMod)], invalid: SendError,
          huge: BOOLEAN, id: Below(65536)] :
     p.fits <= p.body}

-----------------------------------------------------------------------------
(* protected_add of a std::size_t to the std::uint32_t of the remaining    *)
(* length.  The limit is computed in the wider type.                       *)
MutantProtectedAdd(sum, right) ==   \* the sum is not limited
  [sum EXCEPT !.left = (@ + right) % WordMod]

ProtectedAdd(sum, right) ==
  LET limit == (WordMod - 1 - right) % SizeMod
  IN IF ~sum.ok \/ sum.left > limit THEN [sum EXCEPT !.ok = FALSE]
     ELSE [sum EXCEPT !.left = (@ + right) % WordMod]

Sum(left) == [ok |-> TRUE, left |-> left]

(* The same for many strings that are shorter than 2^32 each: the sum is   *)
(* too large at some string iff it is in the end.                          *)
SumOf(total) ==
  IF total < WordMod THEN Sum(total) ELSE [ok |-> FALSE, left |-> 0]

(* Strings with a two-byte size in front and `tail' bytes behind each.     *)
WithStrings(type, lead, strings, tail, invalid) ==
  LET each == 2 + tail
      body == each * strings.count + strings.text
  IN [type |-> type, lead |-> lead, body |-> body,
      fits |-> each * strings.ahead + strings.aheadText,
      sum |-> SumOf(lead + body), invalid |-> invalid,
      huge |-> FALSE, id |-> 0]

(* A Connect_header: `marked' if it has a will QoS or retain.  Its strings *)
(* are the identifier, the will's topic and message, username, password.   *)
ConnectHeader ==
  [strings: Strings, will: BOOLEAN, marked: BOOLEAN, username: BOOLEAN,
   password: BOOLEAN, clean_session: BOOLEAN, unnamed: BOOLEAN]

ConnectPacket(header) ==
  WithStrings(connect, 10, header.strings, 0,
    CASE ~header.will /\ header.marked           -> "bad_will"
      [] ~header.username /\ header.password     -> "bad_username_password"
      [] ~header.clean_session /\ header.unnamed -> "empty_client_identifier"
      [] OTHER                                   -> "none")

SubscribePacket(filters) == WithStrings(subscribe, 2, filters, 1, "none")

UnsubscribePacket(filters) == WithStrings(unsubscribe, 2, filters, 0, "none")

PublishPacket(topic, payload, qos) ==
  LET identifier == IF qos = 0 THEN 0 ELSE 2
      body       == 2 + topic + identifier + payload
  IN [type |-> publish, lead |-> 0, body |-> body,
      fits |-> IF topic > 65535 THEN 0 ELSE body,
      sum |-> ProtectedAdd(ProtectedAdd(Sum(2 + identifier), topic), payload),
      invalid |-> "none",
      huge |-> topic >= WordMod \/ payload >= WordMod, id |-> 0]

(* Packets that one write_elements writes. *)
Bare(type, lead, id) ==
  [type |-> type, lead |-> lead, body |-> 0, fits |-> 0, sum |-> Sum(lead),
   invalid |-> "none", huge |-> FALSE, id |-> id]

PubackPacket(id) == Bare(puback, 2, id)
PingreqPacket    == Bare(pingreq, 0, 0)
DisconnectPacket == Bare(disconnect, 0, 0)

-----------------------------------------------------------------------------
VARIABLES
  output,   \* the stream: its frames, the bytes the connection still takes
            \* before it breaks, and whether it is good
  attached, \* whether _output is not null
  calls     \* history: the packet of every call that reached a write_packet,
            \* the error_code it was given and the one it handed back

Frame == [type: 1 .. 14, announced: Nat, written: Nat, call: Nat]
Stream == [frames: Seq(Frame), room: Nat, good: BOOLEAN]

CallRecord == [packet: Packet, given: SendError, ec: SendError]

(* The bytes of a Variable_integer, and of a fixed header.                 *)
VariableIntegerMax == 268435455

FixedHeader(remaining) ==
  IF remaining < 128 THEN 2
  ELSE IF remaining < 16384 THEN 3
  ELSE IF remaining < 2097152 THEN 4 ELSE 5

(* The error a write_packet function reports before it writes anything,    *)
(* when it is given the error_code e: write_elements does nothing if e is  *)
(* set already.                                                            *)
MutantRefusal(p, e) ==   \* the sum is not looked at
  IF p.invalid # "none" THEN p.invalid
  ELSE IF e # "none" THEN e
  ELSE IF p.sum.left > VariableIntegerMax THEN "variable_integer_too_large"
  ELSE "none"

Refusal(p, e) ==
  IF p.invalid # "none" THEN p.invalid
  ELSE IF ~p.sum.ok THEN "payload_too_large"
  ELSE IF e # "none" THEN e
  ELSE IF p.sum.left > VariableIntegerMax THEN "variable_integer_too_large"
  ELSE "none"

(* How many of the next n bytes the stream takes. *)
Taken(n) == IF output.good THEN StdMin(n, output.room) ELSE 0

(* The writes of one packet, up to a string that is refused or to the byte *)
(* at which the stream breaks.                                             *)
Attempt(p) == FixedHeader(p.sum.left) + p.lead + p.fits

Extended(p) ==
  LET taken == Taken(Attempt(p))
      frame == [type |-> p.type, written |-> taken, call |-> Len(calls) + 1,
                announced |-> FixedHeader(p.sum.left) + p.sum.left]
  IN [frames |-> IF taken = 0 THEN output.frames
                 ELSE Append(output.frames, frame),
      room |-> output.room - taken,
      good |-> output.good /\ taken = Attempt(p)]

Result(p) ==
  IF Taken(Attempt(p)) # Attempt(p) THEN "io_error"
  ELSE IF p.fits # p.body THEN "string_too_long" ELSE "none"

MutantReported(p, e) ==   \* a string that is too long is dropped silently
  IF Refusal(p, e) # "none" THEN Refusal(p, e)
  ELSE IF Taken(Attempt(p)) # Attempt(p) THEN "io_error" ELSE "none"

Reported(p, e) ==
  IF Refusal(p, e) # "none" THEN Refusal(p, e) ELSE Result(p)

(* write_packet(output, ec, ...), with e the value of ec.                *)
Send(p, e) ==
  /\ attached
  /\ output' = IF Refusal(p, e) # "none" THEN output ELSE Extended(p)
  /\ calls' = Append(calls, [packet |-> p, given |-> e, ec |-> Reported(p, e)])

(* disconnect(ec), also from the destructor.                               *)
MutantDisconnect(e) ==   \* only a DISCONNECT that was written detaches
  IF attached
  THEN /\ Send(DisconnectPacket, e)
       /\ attached' = (Reported(DisconnectPacket, e) # "none")
  ELSE UNCHANGED <<output, calls, attached>>

Disconnect(e) ==
  IF attached THEN Send(DisconnectPacket, e) /\ attached' = FALSE
  ELSE UNCHANGED <<output, calls, attached>>
-----------------------------------------------------------------------------
(* A sending call reports no error iff its whole packet is on the stream,  *)
(* also when the error_code it was given was set already, by an earlier    *)
(* call or by the handler's: such a call sends nothing and says so, and a  *)
(* stream that broke in an earlier packet takes nothing more.  Frames are  *)
(* in the order of the calls.                                              *)
WholeFrame(i, p) ==
  output.frames[i].written = FixedHeader(p.sum.left) + p.lead + p.body

ReportsWhatWasSent ==
  /\ \A k \in 1 .. Len(calls) :
       calls[k].ec = "none" <=>
         \E i \in 1 .. Len(output.frames) :
           output.frames[i].call = k /\ WholeFrame(i, calls[k].packet)
  /\ \A i \in 1 .. Len(output.frames) :
       calls[output.frames[i].call].given = "none"
  /\ \A i, j \in 1 .. Len(output.frames) :
       i < j => output.frames[i].call < output.frames[j].call

(* The broker loses the beat of the stream, that is a frame has another    *)
(* length than its fixed header announces, only in three ways: the stream  *)
(* broke and nothing follows, or write_blob refused a string that is too   *)
(* long when the fixed header was out (publishing.hpp:54), or a size that  *)
(* does not fit std::uint32_t got past protected_add (general.hpp:76).     *)
TornOnlyWhenTooLong ==
  \A i \in 1 .. Len(output.frames) :
    LET f == output.frames[i]
    IN \/ f.written = f.announced
       \/ i = Len(output.frames) /\ ~output.good
       \/ calls[f.call].ec = "string_too_long"
       \/ calls[f.call].packet.huge
=============================================================================
