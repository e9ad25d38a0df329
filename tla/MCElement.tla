----------------------------- MODULE MCElement -----------------------------
(***************************************************************************)
(* Element on every low byte, and on both ends of every encoded length.    *)
(***************************************************************************)
EXTENDS Element

MCUint16s ==
  (0 .. 300) \cup {256 * k + k : k \in 127 .. 130} \cup {65280, 65535}

MCVariableIntegers ==
  (0 .. 2) \cup (126 .. 130)
    \cup UNION {{128 ^ k - 1, 128 ^ k, 128 ^ k + 1, 2 * 128 ^ k} : k \in 2 .. 3}
    \cup {128 ^ 4 - 128, 128 ^ 4 - 1}
=============================================================================
