-------------------------- MODULE MCReasoningCache --------------------------
(* Two sessions whose responses make up to three calls, over a cap of two. *)
EXTENDS ReasoningCache, TLC

Symmetry == Permutations(Session) \cup Permutations(CallId)
=============================================================================
