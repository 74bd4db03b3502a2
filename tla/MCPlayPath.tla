------------------------------ MODULE MCPlayPath -------------------------------
(***************************************************************************)
(* PlayPath for TLC, with the tables of temperament.c as symbols and       *)
(* arithmetic checked on all of its range.                                 *)
(***************************************************************************)
EXTENDS PlayPath

ASSUME CompressionKeepsOrder ==
  \A p \in 0 .. 100, v \in 1 .. 126 : Adjusted(v, p) <= Adjusted(v + 1, p)

ASSUME FadeFades == \A a \in 1 .. LongAgo : Fade[a + 1] < Fade[a]
===============================================================================
