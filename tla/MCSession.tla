------------------------------ MODULE MCSession ------------------------------
(***************************************************************************)
(* Session with packets of every kind and of the sizes at which something  *)
(* changes: empty, 65535, the largest variable integer, std::uint32_t.     *)
(* WordMod stands for 2^32 and SizeMod for 2^64.                           *)
(***************************************************************************)
EXTENDS Session, FiniteSetsExt, SequencesExt

(* The strings of the given sizes. *)
StringsOf(sizes) ==
  LET total(s) == FoldSeq(LAMBDA a, b : a + b, 0, s)
      long  == {i \in 1 .. Len(sizes) : sizes[i] > 65535}
      ahead == IF long = {} THEN Len(sizes) ELSE Min(long) - 1
  IN [count |-> Len(sizes), text |-> total(sizes), ahead |-> ahead,
      aheadText |-> total(SubSeq(sizes, 1, ahead))]

Plain(sizes) ==
  [strings |-> StringsOf(sizes), will |-> FALSE, marked |-> FALSE,
   username |-> FALSE, password |-> FALSE, clean_session |-> TRUE,
   unnamed |-> FALSE]

MCHeaders ==
  {Plain(<<9>>),
   [Plain(<<9, 4, 7, 4, 65536>>) EXCEPT !.will = TRUE, !.marked = TRUE,
                                        !.username = TRUE, !.password = TRUE],
   [Plain(<<9, 4>>) EXCEPT !.password = TRUE]}

MCFilters == {StringsOf(<<4, 65535>>)}

Publication(topic, bytes, qos) ==
  [topic |-> topic, payload |-> bytes, qos |-> qos]

MCPublications ==
  {Publication(65536, 1, 1),
   Publication(3, VariableIntegerMax - 6, 1),
   Publication(3, WordMod - 5, 0), Publication(3, WordMod + 5, 0)}

MCRooms == {40, 2000000000}

Pub(qos, id, topic, size, there) ==
  [type |-> publish, qos |-> qos, id |-> id, topic |-> topic, size |-> size,
   there |-> there, codes |-> 0]

Sub(codes) ==
  [type |-> suback, qos |-> 0, id |-> 1, topic |-> 0, size |-> 0,
   there |-> 0, codes |-> codes]

MCInboxes ==
  {<<Pub(1, 7, 2, 2, 2), Pub(1, 8, 1, 1, 1)>>,
   <<Sub(1), Sub(1), Pub(1, 7, 3, 2, 0)>>,
   <<Pub(2, 9, 1, 0, 0), Pub(1, 7, 1, 3, 1)>>,
   <<Sub(2), Pub(1, 7, 4, 1, 1)>>}
=============================================================================
