------------------------- MODULE MCSelectorRotation -------------------------
(* A round-robin model of three different candidates. *)
EXTENDS SelectorRotation

CONSTANTS a, b, c

MCCandidateAt == [i \in 0 .. 2 |-> CASE i = 0 -> a [] i = 1 -> b [] i = 2 -> c]
=============================================================================
