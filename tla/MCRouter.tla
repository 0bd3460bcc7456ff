------------------------------ MODULE MCRouter ------------------------------
(* The router over a model of two candidates. *)
EXTENDS Router

CONSTANTS a, b, r1, r2

MCCandidateAt == [i \in 0 .. 1 |-> IF i = 0 THEN a ELSE b]

\* One client per wire format.
MCKinds == [r \in Request |->
    [wire : {IF r = r1 THEN "openai" ELSE "anthropic"}, stream : BOOLEAN]]

AnyKind == [r \in Request |-> Kind]
=============================================================================
