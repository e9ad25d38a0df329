------------------------------ MODULE General ------------------------------
(***************************************************************************)
(* The vocabulary of terraqtt/protocol/general.hpp and error.hpp: integer  *)
(* widths, control packet types, headers, errors, and the record that      *)
(* holds everything Basic_client remembers about its input.                *)
(***************************************************************************)
EXTENDS Integers, Sequences

CONSTANTS
  SizeMod,     \* 2^w for the w bits of std::size_t and std::streamsize
  WordMod,     \* 2^32, the range of std::uint32_t
  CharSigned   \* whether plain char is signed in the build (it is on x86)

(* Every variable byte integer (below 2^28) and every length the instance  *)
(* uses fits both unsigned types, which hold whole bytes; nothing else is  *)
(* assumed of the widths.                                                  *)
ASSUME GeneralAssumption ==
  /\ WordMod \in Nat /\ WordMod > 268435456 /\ WordMod % 256 = 0
  /\ SizeMod \in Nat /\ SizeMod >= WordMod
  /\ CharSigned \in BOOLEAN

Byte == 0 .. 255

(* The values of an unsigned type with that modulus. *)
Below(modulus) == {n \in Nat : n < modulus}

(* Control_packet_type: the packets a client receives.  0 is `reserved',   *)
(* which _read_type also uses for "no packet has been started".            *)
reserved == 0
connack  == 2
publish  == 3
puback   == 4
pubrec   == 5
pubrel   == 6
pubcomp  == 7
suback   == 9
unsuback == 11
pingresp == 13

Handled == {connack, publish, puback, pubrec, pubrel, pubcomp, suback,
            unsuback, pingresp}

(* The errors a call to process_one can report; the per-packet flag and    *)
(* payload errors are one each.                                            *)
Error == {"none", "io_error", "bad_remaining_size", "bad_flags",
          "bad_payload", "bad_qos", "bad_return_code", "bad_packet_type",
          "not_enough_memory", "bad_variant_cast", "handler_error"}

(* The value held by the Variant _read_header.  `index' is the packet type *)
(* of the alternative it holds, reserved standing for npos (empty); fields *)
(* the alternative does not have keep their initial value.  `flags' are    *)
(* the low bits of a PUBLISH: duplicate, qos, retain.                      *)
Header ==
  [index: Handled \cup {reserved}, flags: 0 .. 15, topic: Seq(Byte),
   packet_identifier: Below(65536), session_present: 0 .. 1,
   return_code: 0 .. 5, return_codes: Seq(Byte)]

(* emplace<index>() value-initialises the new alternative. *)
Fresh(type) ==
  [index |-> type, flags |-> 0, topic |-> <<>>, packet_identifier |-> 0,
   session_present |-> 0, return_code |-> 0, return_codes |-> <<>>]

QoS(header) == (header.flags \div 2) % 4

(* A byte that a payload stream produces without having read one.          *)
Stale == 256

(* A virtual on_... call: its header and, for on_publish, the size         *)
(* announced and the payload bytes the handler extracted.                  *)
Callback == [header: Header, size: Nat, payload: Seq(Byte \cup {Stale})]

(***************************************************************************)
(* Basic_client's private members (the Read_context is flattened: data0    *)
(* and data1 are sequence_data), the position and state of the input       *)
(* stream, and the results in flight: `ok' and `out' are the return value  *)
(* and out-parameter of the last read operation, `ec' the error_code of    *)
(* the call, `callbacks' the history of the virtual calls made.            *)
(***************************************************************************)
ClientState ==
  [available: Below(SizeMod), sequence: 0 .. 255,
   data0: Below(WordMod),
   data1: Below(WordMod),
   remaining_size: Below(WordMod),
   read_type: 0 .. 15, read_header: Header,
   read_ignore: Below(SizeMod), overread: Nat,
   pos: Nat, good: BOOLEAN,
   ok: BOOLEAN, out: Nat, ec: Error, callbacks: Seq(Callback)]

InitialClient ==
  [available |-> 0, sequence |-> 0, data0 |-> 0, data1 |-> 0,
   remaining_size |-> 5, read_type |-> reserved,
   read_header |-> Fresh(reserved), read_ignore |-> 0, overread |-> 0,
   pos |-> 0, good |-> TRUE, ok |-> TRUE, out |-> 0, ec |-> "none",
   callbacks |-> <<>>]

StdMin(a, b) == IF a <= b THEN a ELSE b

(* static_cast<std::streamsize> of a std::size_t *)
Signed(n) == IF n >= SizeMod \div 2 THEN n - SizeMod ELSE n
=============================================================================
