------------------------------ MODULE MCClient ------------------------------
(***************************************************************************)
(* Client on every short stream over a small alphabet, and on streams of   *)
(* two packets of which one byte is damaged or the end is missing.         *)
(***************************************************************************)
EXTENDS Client, Writer

CONSTANTS
  Alphabet,   \* the byte values of the arbitrary streams
  WireMax,    \* bound on their length
  Damage      \* the byte values that replace a byte of a packet

Numbered(type, id) == [Fresh(type) EXCEPT !.packet_identifier = id]

Publication(flags, id) ==
  WritePublish([Numbered(publish, id) EXCEPT !.flags = flags, !.topic = <<1>>],
               <<48, 2>>)

Undamaged ==
  {Publication(2, 400) \o WriteAck(Numbered(pubrel, 5)),
   WriteSuback([Numbered(suback, 1) EXCEPT !.return_codes = <<1, 128>>])
     \o Publication(0, 0),
   WriteConnack([Fresh(connack) EXCEPT !.return_code = 5])
     \o WriteUnsuback(Numbered(unsuback, 2)) \o WritePingresp}

Damaged ==
  UNION {{[w EXCEPT ![i] = b] : i \in 1 .. Len(w), b \in Damage} :
           w \in Undamaged}

Cut == UNION {{SubSeq(w, 1, n) : n \in 0 .. Len(w)} : w \in Undamaged}

MCWires ==
  UNION {[1 .. n -> Alphabet] : n \in 0 .. WireMax} \cup Damaged \cup Cut

MCHandlers == [take: {0, 9}, peek: BOOLEAN, fail: {FALSE}]

(* On a bad stream a blocking call that reads an integer of two bytes asks *)
(* for a negative number of them and takes data0 below 0.  A caller who    *)
(* ignores the error may do so 2^32 times; here he goes on without         *)
(* blocking once data0 is DriftMax or more below 0.                        *)
DriftMax == 3

Undrifted == client.data0 \notin WordMod \div 2 .. WordMod - DriftMax

MCNext == Next /\ (Undrifted \/ call'.available # SizeMod - 1)

MCSpec == Init /\ [][MCNext]_vars
=============================================================================
