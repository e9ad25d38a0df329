---------------------------- MODULE Output_proofs ----------------------------
(***************************************************************************)
(* What is on the stream after any sequence of calls: for packets of every *)
(* size, error_codes of every kind and a stream that breaks anywhere.      *)
(***************************************************************************)
EXTENDS Output, TLAPS

(* The remaining length is the packet's, as far as std::uint32_t goes.     *)
Sound(p) == p.sum.ok /\ ~p.huge => p.sum.left = p.lead + p.body

SumType == [ok: BOOLEAN, left: Below(WordMod)]

(* WordMod as the provers need it, without its size. *)
LEMMA Words == WordMod \in Nat /\ SizeMod \in Nat /\ WordMod > 1000
               /\ SizeMod >= WordMod
BY GeneralAssumption DEF GeneralAssumption

(* Remainders. *)
LEMMA ModBelow ==
  ASSUME NEW m \in Nat, m > 0, NEW n \in Int
  PROVE  n % m \in Below(m) /\ (0 <= n /\ n < m => n % m = n)
BY DEF Below

(* protected_add adds up, and finds out every sum that does not fit, of    *)
(* sizes that fit std::uint32_t each; of others it makes some sum.         *)
LEMMA ProtectedAddSound ==
  ASSUME NEW sum \in SumType, NEW right \in Nat
  PROVE  /\ ProtectedAdd(sum, right) \in SumType
         /\ right < WordMod =>
              /\ ProtectedAdd(sum, right).ok <=>
                   sum.ok /\ sum.left + right < WordMod
              /\ ProtectedAdd(sum, right).ok =>
                   ProtectedAdd(sum, right).left = sum.left + right
<1> DEFINE limit == (WordMod - 1 - right) % SizeMod
<1>1. /\ WordMod \in Nat /\ WordMod > 0 /\ SizeMod \in Nat /\ SizeMod > 0
      /\ WordMod <= SizeMod
  BY Words
<1>2. sum.ok \in BOOLEAN /\ sum.left \in Below(WordMod) /\ sum.left \in Nat
  BY DEF SumType, Below
<1>3. (sum.left + right) % WordMod \in Below(WordMod)
  BY <1>1, <1>2, ModBelow
<1>4. right < WordMod => limit = WordMod - 1 - right
  BY <1>1, ModBelow
<1>5. limit \in Nat
  BY <1>1, ModBelow DEF Below
<1>6. sum.left + right < WordMod =>
        (sum.left + right) % WordMod = sum.left + right
  BY <1>1, <1>2, ModBelow
<1>7. ProtectedAdd(sum, right) =
        IF ~sum.ok \/ sum.left > limit THEN [sum EXCEPT !.ok = FALSE]
        ELSE [sum EXCEPT !.left = (sum.left + right) % WordMod]
  BY DEF ProtectedAdd, SumType
<1> HIDE DEF limit
<1>8. CASE ~sum.ok \/ sum.left > limit
  <2>1. ProtectedAdd(sum, right) = [sum EXCEPT !.ok = FALSE]
    BY <1>7, <1>8
  <2>2. ProtectedAdd(sum, right) \in SumType /\ ~ProtectedAdd(sum, right).ok
    BY <2>1 DEF SumType
  <2>3. right < WordMod => ~(sum.ok /\ sum.left + right < WordMod)
    BY <1>1, <1>2, <1>4, <1>8
  <2> QED BY <2>2, <2>3
<1>9. CASE ~(~sum.ok \/ sum.left > limit)
  <2>1. ProtectedAdd(sum, right)
          = [sum EXCEPT !.left = (sum.left + right) % WordMod]
    BY <1>7, <1>9
  <2>2. /\ ProtectedAdd(sum, right) \in SumType
        /\ ProtectedAdd(sum, right).ok
        /\ ProtectedAdd(sum, right).left = (sum.left + right) % WordMod
    BY <2>1, <1>3, <1>9 DEF SumType
  <2>3. right < WordMod => sum.left + right < WordMod
    BY <1>1, <1>2, <1>4, <1>5, <1>9
  <2> QED BY <2>2, <2>3, <1>6, <1>9
<1> QED BY <1>8, <1>9

(* The number added up for many strings at once is what protected_add      *)
(* makes of them one by one.                                               *)
LEMMA SumOfExtends ==
  ASSUME NEW total \in Nat, NEW right \in Nat, right < WordMod,
         total < WordMod
  PROVE  /\ ProtectedAdd(SumOf(total), right).ok = SumOf(total + right).ok
         /\ SumOf(total + right).ok =>
              ProtectedAdd(SumOf(total), right) = SumOf(total + right)
<1>1. SumOf(total) = [ok |-> TRUE, left |-> total] /\ SumOf(total) \in SumType
  BY DEF SumOf, Sum, SumType, Below
<1>2. /\ ProtectedAdd(SumOf(total), right).ok <=> total + right < WordMod
      /\ ProtectedAdd(SumOf(total), right).ok =>
           ProtectedAdd(SumOf(total), right).left = total + right
      /\ ProtectedAdd(SumOf(total), right) \in SumType
  BY <1>1, ProtectedAddSound
<1>3. SumOf(total + right) = IF total + right < WordMod
                             THEN [ok |-> TRUE, left |-> total + right]
                             ELSE [ok |-> FALSE, left |-> 0]
  BY DEF SumOf, Sum
<1>4. CASE total + right < WordMod
  <2> DEFINE sum == ProtectedAdd(SumOf(total), right)
  <2>1. sum.ok = TRUE /\ sum.left = total + right /\ sum \in SumType
    BY <1>2, <1>4 DEF SumType
  <2> HIDE DEF sum
  <2>2. sum = [ok |-> TRUE, left |-> total + right]
    BY <2>1 DEF SumType
  <2> QED BY <2>2, <1>3, <1>4 DEF sum
<1>5. CASE ~(total + right < WordMod)
  <2> DEFINE sum == ProtectedAdd(SumOf(total), right)
  <2>1. sum.ok \in BOOLEAN /\ ~sum.ok
    BY <1>2, <1>5 DEF SumType
  <2>2. SumOf(total + right).ok = FALSE
    BY <1>3, <1>5
  <2> QED BY <2>1, <2>2
<1> QED BY <1>4, <1>5

(* The sums start below 2^32. *)
LEMMA SumInType ==
  ASSUME NEW n \in Nat, n < 100
  PROVE  Sum(n) \in SumType /\ Sum(n).ok /\ Sum(n).left = n
BY Words DEF Sum, SumType, Below

(* A packet with strings announces its own length. *)
LEMMA WithStringsSound ==
  ASSUME NEW type \in 1 .. 14, NEW lead \in 0 .. 10, NEW strings \in Strings,
         NEW tail \in {0, 1}, NEW invalid \in SendError
  PROVE  /\ WithStrings(type, lead, strings, tail, invalid) \in Packet
         /\ Sound(WithStrings(type, lead, strings, tail, invalid))
<1> DEFINE body == (2 + tail) * strings.count + strings.text
           fits == (2 + tail) * strings.ahead + strings.aheadText
           p == WithStrings(type, lead, strings, tail, invalid)
<1>1. body \in Nat /\ fits \in Nat /\ fits <= body
  <2>1. /\ strings.count \in Nat /\ strings.text \in Nat
        /\ strings.ahead \in Nat /\ strings.aheadText \in Nat
        /\ \/ strings.ahead = strings.count /\ strings.aheadText = strings.text
           \/ /\ strings.ahead < strings.count
              /\ strings.aheadText + 65536 <= strings.text
    BY DEF Strings
  <2>2. CASE tail = 0
    BY <2>1, <2>2
  <2>3. CASE tail = 1
    BY <2>1, <2>3
  <2> QED BY <2>2, <2>3
<1>2. p = [type |-> type, lead |-> lead, body |-> body, fits |-> fits,
           sum |-> SumOf(lead + body), invalid |-> invalid,
           huge |-> FALSE, id |-> 0]
  BY DEF WithStrings
<1> HIDE DEF body, fits, p
<1>3. /\ SumOf(lead + body) \in SumType
      /\ SumOf(lead + body).ok => SumOf(lead + body).left = lead + body
  BY <1>1, Words DEF SumOf, Sum, SumType, Below
<1>4. 0 \in Below(65536)
  BY DEF Below
<1>5. p \in Packet
  BY <1>1, <1>2, <1>3, <1>4 DEF Packet, SumType
<1>6. Sound(p)
  BY <1>2, <1>3 DEF Sound
<1> QED BY <1>5, <1>6 DEF p

(* So do those of connect, subscribe and unsubscribe. *)
LEMMA ConnectPacketSound ==
  ASSUME NEW h \in ConnectHeader
  PROVE  ConnectPacket(h) \in Packet /\ Sound(ConnectPacket(h))
<1> DEFINE invalid ==
      CASE ~h.will /\ h.marked           -> "bad_will"
        [] ~h.username /\ h.password     -> "bad_username_password"
        [] ~h.clean_session /\ h.unnamed -> "empty_client_identifier"
        [] OTHER                         -> "none"
<1>1. h.strings \in Strings
  BY DEF ConnectHeader
<1>2. invalid \in SendError
  BY DEF SendError
<1>3. connect \in 1 .. 14 /\ 10 \in 0 .. 10 /\ 0 \in {0, 1}
  BY DEF connect
<1>4. ConnectPacket(h) = WithStrings(connect, 10, h.strings, 0, invalid)
  BY DEF ConnectPacket
<1> HIDE DEF invalid
<1> QED BY <1>1, <1>2, <1>3, <1>4, WithStringsSound

(* The same for a list of topics. *)
LEMMA FilterPacketSound ==
  ASSUME NEW filters \in Strings
  PROVE  /\ SubscribePacket(filters) \in Packet
         /\ Sound(SubscribePacket(filters))
         /\ UnsubscribePacket(filters) \in Packet
         /\ Sound(UnsubscribePacket(filters))
<1>1. /\ subscribe \in 1 .. 14 /\ unsubscribe \in 1 .. 14 /\ 2 \in 0 .. 10
      /\ 0 \in {0, 1} /\ 1 \in {0, 1} /\ "none" \in SendError
  BY DEF subscribe, unsubscribe, SendError
<1> QED BY <1>1, WithStringsSound DEF SubscribePacket, UnsubscribePacket

(* And of publish, unless a size does not fit std::uint32_t. *)
LEMMA PublishPacketSound ==
  ASSUME NEW topic \in Nat, NEW payload \in Nat, NEW qos \in 0 .. 2
  PROVE  /\ PublishPacket(topic, payload, qos) \in Packet
         /\ Sound(PublishPacket(topic, payload, qos))
<1> DEFINE identifier == IF qos = 0 THEN 0 ELSE 2
           body == 2 + topic + identifier + payload
           fits == IF topic > 65535 THEN 0 ELSE body
           first == ProtectedAdd(Sum(2 + identifier), topic)
           sum == ProtectedAdd(first, payload)
           huge == topic >= WordMod \/ payload >= WordMod
           p == PublishPacket(topic, payload, qos)
<1>1. /\ identifier \in {0, 2} /\ body \in Nat /\ fits \in Nat
      /\ fits <= body
  OBVIOUS
<1>2. p = [type |-> publish, lead |-> 0, body |-> body, fits |-> fits,
           sum |-> sum, invalid |-> "none", huge |-> huge, id |-> 0]
  BY DEF PublishPacket
<1>3. /\ Sum(2 + identifier) \in SumType /\ Sum(2 + identifier).ok
      /\ Sum(2 + identifier).left = 2 + identifier
  BY <1>1, SumInType
<1>4. /\ first \in SumType
      /\ topic < WordMod /\ first.ok => first.left = 2 + identifier + topic
  BY <1>3, ProtectedAddSound
<1>5. /\ sum \in SumType
      /\ topic < WordMod /\ sum.ok /\ payload < WordMod =>
           first.ok /\ sum.left = first.left + payload
  <2> HIDE DEF first
  <2> QED BY <1>4, ProtectedAddSound
<1>6. sum.ok /\ ~huge => sum.left = 0 + body
  <2>1. ~huge => topic < WordMod /\ payload < WordMod
    BY Words
  <2> HIDE DEF huge, first, sum
  <2>2. SUFFICES ASSUME sum.ok, ~huge PROVE sum.left = 0 + body
    OBVIOUS
  <2>3. sum.left = (2 + identifier + topic) + payload
    BY <2>1, <2>2, <1>4, <1>5
  <2> QED BY <2>3, <1>1
<1>7. huge \in BOOLEAN
  OBVIOUS
<1> HIDE DEF identifier, body, fits, first, sum, huge, p
<1>8. publish \in 1 .. 14 /\ 0 \in 0 .. 10 /\ 0 \in Below(65536)
  BY DEF publish, Below
<1>9. "none" \in SendError
  BY DEF SendError
<1>10. p \in Packet
  BY <1>1, <1>2, <1>5, <1>7, <1>8, <1>9 DEF Packet, SumType
<1>11. Sound(p)
  BY <1>2, <1>6 DEF Sound
<1> QED BY <1>10, <1>11 DEF p

(* And the short ones. *)
LEMMA BareSound ==
  ASSUME NEW type \in 1 .. 14, NEW lead \in {0, 2}, NEW id \in Below(65536)
  PROVE  Bare(type, lead, id) \in Packet /\ Sound(Bare(type, lead, id))
<1>1. Sum(lead) \in SumType /\ Sum(lead).left = lead
  BY SumInType
<1>2. "none" \in SendError
  BY DEF SendError
<1> QED BY <1>1, <1>2 DEF Bare, Packet, SumType, Sound

-----------------------------------------------------------------------------
(* The types of the stream and of the history, and what ties them.         *)
OutputInv ==
  /\ output \in Stream
  /\ calls \in Seq(CallRecord)
  /\ \A i \in 1 .. Len(output.frames) :
       output.frames[i].call \in 1 .. Len(calls)

(* A packet's first write is never empty. *)
LEMMA AttemptPositive ==
  ASSUME NEW p \in Packet
  PROVE  /\ FixedHeader(p.sum.left) \in 2 .. 5
         /\ Attempt(p) \in Nat /\ Attempt(p) >= 2
         /\ p.body \in Nat /\ p.fits \in Nat /\ p.fits <= p.body
         /\ p.lead \in Nat /\ p.sum.left \in Nat
         /\ p.type \in 1 .. 14
<1>1. /\ p.body \in Nat /\ p.fits \in Nat /\ p.fits <= p.body
      /\ p.lead \in 0 .. 10 /\ p.sum.left \in Nat /\ p.type \in 1 .. 14
  BY DEF Packet, Below
<1>2. FixedHeader(p.sum.left) \in 2 .. 5
  BY <1>1 DEF FixedHeader
<1> QED BY <1>1, <1>2 DEF Attempt

(* What the stream takes of a packet. *)
LEMMA TakenType ==
  ASSUME output \in Stream, NEW n \in Nat
  PROVE  /\ Taken(n) \in Nat /\ Taken(n) <= n
         /\ output.room - Taken(n) \in Nat
         /\ ~output.good => Taken(n) = 0
BY DEF Stream, Taken, StdMin

(* What a call reports is an error code, and it is clear only if all of    *)
(* the packet was written.                                                 *)
LEMMA ReportedType ==
  ASSUME NEW p \in Packet, NEW e \in SendError
  PROVE  /\ Refusal(p, e) \in SendError /\ Reported(p, e) \in SendError
         /\ Refusal(p, e) = "none" => e = "none" /\ p.sum.ok
         /\ Refusal(p, e) # "none" => Reported(p, e) = Refusal(p, e)
         /\ Refusal(p, e) = "none" => Reported(p, e) = Result(p)
<1>1. p.invalid \in SendError
  BY DEF Packet
<1>2. /\ "payload_too_large" \in SendError /\ "none" \in SendError
      /\ "variable_integer_too_large" \in SendError
      /\ "io_error" \in SendError /\ "string_too_long" \in SendError
  BY DEF SendError
<1>3. /\ Refusal(p, e) \in SendError
      /\ Refusal(p, e) = "none" => e = "none" /\ p.sum.ok
  BY <1>1, <1>2, Zenon DEF Refusal
<1>4. Result(p) \in SendError
  BY <1>2 DEF Result
<1> QED BY <1>3, <1>4 DEF Reported

(* One write of a packet: the frame it leaves, if any. *)
NewFrame(p) ==
  [type |-> p.type, written |-> Taken(Attempt(p)), call |-> Len(calls) + 1,
   announced |-> FixedHeader(p.sum.left) + p.sum.left]

(* The stream after a write has its type. *)
LEMMA ExtendedFacts ==
  ASSUME OutputInv, NEW p \in Packet
  PROVE  /\ Extended(p) \in Stream
         /\ Extended(p).frames = IF Taken(Attempt(p)) = 0 THEN output.frames
                                 ELSE Append(output.frames, NewFrame(p))
         /\ Extended(p).good = (output.good /\ Taken(Attempt(p)) = Attempt(p))
         /\ NewFrame(p) \in Frame
<1> DEFINE taken == Taken(Attempt(p))
           frames == IF taken = 0 THEN output.frames
                     ELSE Append(output.frames, NewFrame(p))
<1>1. /\ output.frames \in Seq(Frame) /\ output.good \in BOOLEAN
      /\ calls \in Seq(CallRecord) /\ output \in Stream
  BY DEF OutputInv, Stream
<1>2. taken \in Nat /\ output.room - taken \in Nat
  BY <1>1, AttemptPositive, TakenType
<1>3. NewFrame(p) \in Frame
  <2>1. Len(calls) + 1 \in Nat
    BY <1>1
  <2>2. FixedHeader(p.sum.left) + p.sum.left \in Nat /\ p.type \in 1 .. 14
    BY AttemptPositive
  <2> QED BY <2>1, <2>2, <1>2 DEF NewFrame, Frame
<1>4. Extended(p) = [frames |-> frames, room |-> output.room - taken,
                     good |-> output.good /\ taken = Attempt(p)]
  BY DEF Extended, NewFrame
<1> HIDE DEF taken
<1>5. frames \in Seq(Frame)
  BY <1>1, <1>3
<1> HIDE DEF frames
<1>6. Extended(p) \in Stream
  BY <1>2, <1>4, <1>5 DEF Stream
<1> QED BY <1>3, <1>4, <1>6 DEF frames, taken


(* A call keeps the types: every frame belongs to a call. *)
LEMMA SendKeepsTypes ==
  ASSUME OutputInv, NEW p \in Packet, NEW e \in SendError, Send(p, e)
  PROVE  OutputInv'
<1> DEFINE record == [packet |-> p, given |-> e, ec |-> Reported(p, e)]
<1>1. /\ calls \in Seq(CallRecord) /\ output \in Stream
      /\ output.frames \in Seq(Frame)
      /\ \A i \in 1 .. Len(output.frames) :
           output.frames[i].call \in 1 .. Len(calls)
  BY DEF OutputInv, Stream
<1>2. record \in CallRecord
  BY ReportedType DEF CallRecord
<1>3. calls' = Append(calls, record)
  BY DEF Send
<1> HIDE DEF record
<1>4. calls' \in Seq(CallRecord) /\ Len(calls') = Len(calls) + 1
  BY <1>1, <1>2, <1>3
<1>5. CASE output' = output
  BY <1>1, <1>4, <1>5 DEF OutputInv
<1>6. CASE output' = Extended(p)
  <2>1. output' \in Stream
    BY <1>6, ExtendedFacts
  <2>2. CASE output'.frames = output.frames
    BY <1>1, <1>4, <2>1, <2>2 DEF OutputInv
  <2>3. CASE output'.frames = Append(output.frames, NewFrame(p))
    <3>1. NewFrame(p).call = Len(calls) + 1
      BY DEF NewFrame
    <3> QED BY <1>1, <1>4, <2>1, <2>3, <3>1 DEF OutputInv
  <2> QED BY <1>6, <2>2, <2>3, ExtendedFacts
<1> QED BY <1>5, <1>6 DEF Send

(* Whether the frame of a call is whole, as the call reports it. *)
LEMMA WholeIfReported ==
  ASSUME OutputInv, NEW p \in Packet, NEW e \in SendError,
         Refusal(p, e) = "none"
  PROVE  Reported(p, e) = "none" <=>
           /\ Taken(Attempt(p)) # 0
           /\ Taken(Attempt(p)) = FixedHeader(p.sum.left) + p.lead + p.body
<1>1. /\ FixedHeader(p.sum.left) \in 2 .. 5
      /\ Attempt(p) \in Nat /\ Attempt(p) >= 2
      /\ p.body \in Nat /\ p.fits \in Nat /\ p.fits <= p.body
      /\ p.lead \in Nat
  BY AttemptPositive
<1>2. Taken(Attempt(p)) \in Nat /\ Taken(Attempt(p)) <= Attempt(p)
  BY <1>1, TakenType DEF OutputInv
<1>3. Attempt(p) = FixedHeader(p.sum.left) + p.lead + p.fits
  BY DEF Attempt
<1>4. Reported(p, e) = Result(p)
  BY ReportedType
<1>5. Result(p) = "none" <=>
        Taken(Attempt(p)) = Attempt(p) /\ p.fits = p.body
  BY DEF Result
<1> QED BY <1>1, <1>2, <1>3, <1>4, <1>5

(* ReportsWhatWasSent, call by call: a new call has a new number. *)
LEMMA SendKeepsReports ==
  ASSUME OutputInv, ReportsWhatWasSent, NEW p \in Packet,
         NEW e \in SendError, Send(p, e)
  PROVE  ReportsWhatWasSent'
<1> DEFINE n == Len(calls) + 1
           m == Len(output.frames)
           record == [packet |-> p, given |-> e, ec |-> Reported(p, e)]
<1>1. /\ calls \in Seq(CallRecord) /\ output.frames \in Seq(Frame)
      /\ n \in Nat /\ m \in Nat
      /\ \A i \in 1 .. m : output.frames[i].call \in 1 .. Len(calls)
  BY DEF OutputInv, Stream
<1>2. calls' = Append(calls, record)
  BY DEF Send
<1>3. /\ Len(calls') = n /\ calls'[n] = record
      /\ \A k \in 1 .. Len(calls) : calls'[k] = calls[k]
  BY <1>1, <1>2
<1>4. record.packet = p /\ record.given = e /\ record.ec = Reported(p, e)
  OBVIOUS
<1> HIDE DEF record
<1>5. CASE output'.frames = output.frames /\ Reported(p, e) # "none"
  BY <1>1, <1>3, <1>4, <1>5, SMTT(30) DEF ReportsWhatWasSent, WholeFrame
<1>6. ASSUME output'.frames = Append(output.frames, NewFrame(p)),
             Refusal(p, e) = "none", Taken(Attempt(p)) # 0
      PROVE  ReportsWhatWasSent'
  <2>1. /\ Len(output'.frames) = m + 1
        /\ output'.frames[m + 1] = NewFrame(p)
        /\ \A i \in 1 .. m : output'.frames[i] = output.frames[i]
    BY <1>1, <1>6
  <2>2. NewFrame(p).call = n /\ NewFrame(p).written = Taken(Attempt(p))
    BY DEF NewFrame
  <2>3. e = "none"
    BY <1>6, ReportedType
  <2>4. Reported(p, e) = "none" <=>
          Taken(Attempt(p)) = FixedHeader(p.sum.left) + p.lead + p.body
    BY <1>6, WholeIfReported
  <2> DEFINE frames == output.frames
             framesNext == output'.frames
             Whole(f, q) ==
               f.written = FixedHeader(q.sum.left) + q.lead + q.body
  <2>5. ASSUME NEW k \in 1 .. n
        PROVE  calls'[k].ec = "none" <=>
                 \E i \in 1 .. m + 1 :
                   /\ output'.frames[i].call = k
                   /\ Whole(output'.frames[i], calls'[k].packet)
    <3>1. CASE k = n
      <4>1. calls'[k].ec = Reported(p, e) /\ calls'[k].packet = p
        BY <1>3, <1>4, <3>1
      <4>2. \A i \in 1 .. m : output'.frames[i].call # k
        BY <1>1, <2>1, <3>1
      <4>3. Whole(NewFrame(p), p) <=> Reported(p, e) = "none"
        BY <2>2, <2>4
      <4> HIDE DEF Whole, n
      <4>4. /\ m + 1 \in 1 .. m + 1
            /\ \A i \in 1 .. m + 1 : i \in 1 .. m \/ i = m + 1
        BY <1>1
      <4> QED BY <4>1, <4>2, <4>3, <4>4, <2>1, <2>2, <3>1
    <3>2. CASE k # n
      <4>1. k \in 1 .. Len(calls)
        BY <1>1, <3>2
      <4>2. calls'[k] = calls[k]
        BY <1>3, <4>1
      <4>3. calls[k].ec = "none" <=>
              \E i \in 1 .. m : /\ output.frames[i].call = k
                               /\ Whole(output.frames[i], calls[k].packet)
        BY <4>1 DEF ReportsWhatWasSent, WholeFrame
      <4> HIDE DEF Whole, n
      <4>4. \A i \in 1 .. m : i \in 1 .. m + 1
        BY <1>1
      <4>5. \A i \in 1 .. m + 1 : i \in 1 .. m \/ i = m + 1
        BY <1>1
      <4> QED BY <4>2, <4>3, <4>4, <4>5, <2>1, <2>2, <3>2
    <3> QED BY <3>1, <3>2
  <2>6. ASSUME NEW i \in 1 .. m + 1
        PROVE  calls'[output'.frames[i].call].given = "none"
    <3>1. CASE i = m + 1
      BY <3>1, <2>1, <2>2, <2>3, <1>3, <1>4
    <3>2. CASE i \in 1 .. m
      BY <3>2, <2>1, <1>1, <1>3, SMTT(30) DEF ReportsWhatWasSent
    <3> QED BY <1>1, <3>1, <3>2
  <2>7. ASSUME NEW i \in 1 .. m + 1, NEW j \in 1 .. m + 1, i < j
        PROVE  output'.frames[i].call < output'.frames[j].call
    <3>1. i \in 1 .. m
      BY <1>1, <2>7
    <3>2. output'.frames[i] = output.frames[i]
          /\ output.frames[i].call \in 1 .. Len(calls)
      BY <1>1, <2>1, <3>1
    <3>3. CASE j = m + 1
      BY <1>1, <2>1, <2>2, <3>2, <3>3
    <3>4. CASE j \in 1 .. m
      BY <2>1, <2>7, <3>1, <3>2, <3>4 DEF ReportsWhatWasSent
    <3> QED BY <1>1, <3>3, <3>4
  <2> QED BY <1>3, <2>1, <2>5, <2>6, <2>7 DEF ReportsWhatWasSent, WholeFrame
<1>7. CASE Refusal(p, e) # "none"
  <2>1. output' = output
    BY <1>7 DEF Send
  <2> QED BY <1>5, <1>7, <2>1, ReportedType
<1>8. CASE Refusal(p, e) = "none"
  <2>1. output' = Extended(p)
    BY <1>8 DEF Send
  <2>2. CASE Taken(Attempt(p)) = 0
    BY <1>5, <1>8, <2>1, <2>2, ExtendedFacts, WholeIfReported
  <2>3. CASE Taken(Attempt(p)) # 0
    BY <1>6, <1>8, <2>1, <2>3, ExtendedFacts
  <2> QED BY <2>2, <2>3
<1> QED BY <1>7, <1>8


(* TornOnlyWhenTooLong: a frame that was torn by a broken stream stays the *)
(* last, one that is whole has the length announced if its packet's sum is *)
(* sound, and every other call reported that a string was too long.        *)
LEMMA SendKeepsTorn ==
  ASSUME OutputInv, TornOnlyWhenTooLong, NEW p \in Packet, Sound(p),
         NEW e \in SendError, Send(p, e)
  PROVE  TornOnlyWhenTooLong'
<1> DEFINE n == Len(calls) + 1
           m == Len(output.frames)
           record == [packet |-> p, given |-> e, ec |-> Reported(p, e)]
           Excused(f) ==
             \/ f.written = f.announced
             \/ calls[f.call].ec = "string_too_long"
             \/ calls[f.call].packet.huge
           ExcusedNext(f) ==
             \/ f.written = f.announced
             \/ calls'[f.call].ec = "string_too_long"
             \/ calls'[f.call].packet.huge
<1>1. /\ calls \in Seq(CallRecord) /\ output.frames \in Seq(Frame)
      /\ n \in Nat /\ m \in Nat /\ output \in Stream
      /\ \A i \in 1 .. m : output.frames[i].call \in 1 .. Len(calls)
  BY DEF OutputInv, Stream
<1>2. calls' = Append(calls, record)
  BY DEF Send
<1>3. /\ calls'[n] = record
      /\ \A k \in 1 .. Len(calls) : calls'[k] = calls[k]
  BY <1>1, <1>2
<1>4. record.packet = p /\ record.ec = Reported(p, e)
  OBVIOUS
<1>5. \A i \in 1 .. m :
        Excused(output.frames[i]) => ExcusedNext(output.frames[i])
  BY <1>1, <1>3
<1>6. \A i \in 1 .. m : Excused(output.frames[i]) \/ (i = m /\ ~output.good)
  BY DEF TornOnlyWhenTooLong
<1>7. TornOnlyWhenTooLong' <=>
        \A i \in 1 .. Len(output'.frames) :
          \/ ExcusedNext(output'.frames[i])
          \/ i = Len(output'.frames) /\ ~output'.good
  BY DEF TornOnlyWhenTooLong
<1> HIDE DEF record
<1>8. CASE output'.frames = output.frames /\ (~output.good => ~output'.good)
  <2> HIDE DEF Excused, ExcusedNext
  <2> QED BY <1>5, <1>6, <1>7, <1>8
<1>9. ASSUME Refusal(p, e) = "none", Taken(Attempt(p)) # 0
      PROVE  TornOnlyWhenTooLong'
  <2> DEFINE f == NewFrame(p)
  <2>1. /\ output'.frames = Append(output.frames, f)
        /\ output'.good = (output.good /\ Taken(Attempt(p)) = Attempt(p))
    BY <1>9, ExtendedFacts DEF Send
  <2>2. /\ Len(output'.frames) = m + 1 /\ output'.frames[m + 1] = f
        /\ \A i \in 1 .. m : output'.frames[i] = output.frames[i]
    BY <1>1, <2>1
  <2>3. output.good
    BY <1>1, <1>9, AttemptPositive, TakenType
  <2>4. ExcusedNext(f) \/ ~output'.good
    <3>1. f.call = n /\ f.written = Taken(Attempt(p))
          /\ f.announced = FixedHeader(p.sum.left) + p.sum.left
      BY DEF NewFrame
    <3>2. calls'[f.call].ec = Reported(p, e) /\ calls'[f.call].packet = p
      BY <1>3, <1>4, <3>1
    <3>3. CASE Taken(Attempt(p)) # Attempt(p)
      BY <2>1, <3>3
    <3>4. CASE Taken(Attempt(p)) = Attempt(p) /\ p.fits # p.body
      <4>1. Reported(p, e) = "string_too_long"
        BY <1>9, <3>4, ReportedType DEF Result
      <4> QED BY <4>1, <3>2
    <3>5. CASE Taken(Attempt(p)) = Attempt(p) /\ p.fits = p.body
      <4>1. f.written = FixedHeader(p.sum.left) + p.lead + p.body
        BY <3>1, <3>5 DEF Attempt
      <4>2. p.sum.ok
        BY <1>9, ReportedType
      <4>3. p.huge \/ p.sum.left = p.lead + p.body
        BY <4>2 DEF Sound
      <4>4. /\ FixedHeader(p.sum.left) \in Int /\ p.lead \in Int
            /\ p.body \in Int
        BY AttemptPositive
      <4>5. p.sum.left = p.lead + p.body => f.written = f.announced
        BY <3>1, <4>1, <4>4
      <4> QED BY <3>2, <4>3, <4>5
    <3> QED BY <3>3, <3>4, <3>5
  <2> HIDE DEF Excused, ExcusedNext, f
  <2>5. \A i \in 1 .. m + 1 : i \in 1 .. m \/ i = m + 1
    BY <1>1
  <2>6. \A i \in 1 .. m : ExcusedNext(output'.frames[i])
    BY <1>5, <1>6, <2>2, <2>3
  <2> QED BY <1>7, <2>2, <2>4, <2>5, <2>6
<1>10. CASE Refusal(p, e) # "none"
  BY <1>8, <1>10 DEF Send
<1>11. CASE Refusal(p, e) = "none" /\ Taken(Attempt(p)) = 0
  <2>1. output' = Extended(p)
    BY <1>11 DEF Send
  <2> QED BY <1>8, <1>11, <2>1, ExtendedFacts
<1> QED BY <1>9, <1>10, <1>11

=============================================================================
