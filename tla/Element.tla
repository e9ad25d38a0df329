------------------------------ MODULE Element ------------------------------
(***************************************************************************)
(* One integer on its way through writer.hpp and reader.hpp: the reader is *)
(* called until it has it, each time with any part of the bytes that have  *)
(* not been read yet (tests/reader.cpp and tests/writer.cpp do this for a  *)
(* few values and one call).                                               *)
(***************************************************************************)
EXTENDS Reader, Writer

CONSTANTS
  Uint16s,          \* the std::uint16_t values sent
  VariableIntegers  \* the Variable_integer values sent

ASSUME ElementAssumption ==
  Uint16s \subseteq Below(65536) /\ VariableIntegers \subseteq Below(268435456)

VARIABLES
  element,   \* the type and the value sent
  reader     \* the reader's state

elementVars == <<wire, element, reader>>

Elements ==
  [type: {"uint16"}, value: Uint16s]
    \cup [type: {"variable"}, value: VariableIntegers]

(* A packet reads its remaining length with four bytes to go, and takes    *)
(* an identifier out of what that length allows.                           *)
ElementInit ==
  /\ element \in Elements
  /\ IF element.type = "uint16"
     THEN /\ wire = WriteUint16(element.value)
          /\ reader = [InitialClient EXCEPT !.remaining_size = 2]
     ELSE /\ wire = WriteVariableInteger(element.value)
          /\ reader = [InitialClient EXCEPT !.remaining_size = 4]

ReadElement(r) ==
  IF element.type = "uint16" THEN ReadUint16(r) ELSE ReadVariableInteger(r)

Read ==
  /\ reader.sequence = 0 /\ reader.ec = "none"
  /\ \E a \in 0 .. Len(wire) - reader.pos :
       reader' = ReadElement([reader EXCEPT !.available = a, !.ok = TRUE])
  /\ UNCHANGED <<wire, element>>

ElementSpec == ElementInit /\ [][Read]_elementVars
-----------------------------------------------------------------------------
(* The reader inverts the writer: once it says that it has the value, it   *)
(* is the value written, all of its bytes have been taken, nothing is left *)
(* in the scratch words the next element starts from; and it never fails.  *)
ReadsBack ==
  /\ reader.ec = "none"
  /\ reader.sequence = 1 =>
       /\ reader.out = element.value
       /\ reader.pos = Len(wire)
       /\ reader.data0 = 0 /\ reader.data1 = 0

(* A call that is offered all the bytes that are left returns the value.   *)
ReadsWhenThere ==
  [][reader'.pos + reader'.available = Len(wire)
       => reader'.sequence = 1]_elementVars
=============================================================================
