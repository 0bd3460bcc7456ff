---------------------------- MODULE ClientStream ----------------------------
(* What both SSE writers of internal/api write to: a client that may leave. *)
EXTENDS Integers, Sequences, SequencesExt

VARIABLES
    events,  \* history: what was written
    gone     \* a write failed

\* Every method of a writer returns at the first write that fails, and the ones
\* after it fail too: the client gets a beginning of what was meant for it.
Written(new) ==
    \/ gone = TRUE /\ UNCHANGED <<events, gone>>
    \/ gone = FALSE /\ events' = events \o new /\ gone' = FALSE
    \/ /\ gone = FALSE /\ gone' = TRUE
       /\ \E n \in 0 .. Len(new) - 1 : events' = events \o SubSeq(new, 1, n)

NothingWritten == events = <<>> /\ gone = FALSE
=============================================================================
