----------------------------- MODULE MCSelector -----------------------------
(* A model of three entries, one candidate of which is listed twice. *)
EXTENDS Selector

CONSTANTS a, b

MCCandidateAt == [i \in 0 .. 2 |-> IF i = 1 THEN b ELSE a]
=============================================================================
