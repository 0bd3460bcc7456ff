--------------------------- MODULE ReasoningCache ---------------------------
(***************************************************************************)
(* internal/api: the cache of reasoning content, by session and tool-call  *)
(* ID, and its file.                                                       *)
(*                                                                         *)
(* remember holds mu while it updates the map and saves it: writes the     *)
(* whole map to a temporary file, then renames that onto the cache file.   *)
(* The process may be killed between any two of these steps, or during the *)
(* write, and starts again from the file.  The reasoning text kept under   *)
(* an ID is not modelled: it is that of the response which made the call.  *)
(* A session's entry in the map is the set of IDs it holds.                *)
(***************************************************************************)
EXTENDS Integers, FiniteSets, Functions

CONSTANTS Session,     \* X-Session-ID values, the empty one included
          CallId,      \* tool-call IDs, not the empty one
          MaxEntries,  \* maxReasoningEntries
          Partial      \* an incompletely written file

ASSUME CacheAssumption ==
    /\ IsFiniteSet(Session) /\ IsFiniteSet(CallId)
    /\ MaxEntries \in Nat

\* Sessions to IDs: only sessions that remember has seen are in the map.
Maps == UNION {[S -> SUBSET CallId] : S \in SUBSET Session}
EmptyMap == [s \in {} |-> {}]

ASSUME PartialAssumption == Partial \notin Maps

VARIABLES
    m,         \* c.m
    mu,        \* what the holder of c.mu will do next, or "free"
    tmp,       \* the temporary file
    file,      \* the cache file; a missing one reads as EmptyMap
    captured   \* history: the <<session, ID>> pairs responses have produced

vars == <<m, mu, tmp, file, captured>>

TypeOK ==
    /\ m \in Maps
    /\ mu \in {"free", "write", "rename"}
    /\ tmp \in Maps \cup {Partial}
    /\ file \in Maps \cup {Partial}
    /\ captured \subseteq Session \X CallId

-----------------------------------------------------------------------------
Pairs(map) == UNION {{s} \X map[s] : s \in DOMAIN map}
Total(map) == Cardinality(Pairs(map))

\* newReasoningCache(path): a file that cannot be decoded is ignored.
Load(f) == IF f = Partial THEN EmptyMap ELSE f

\* lookup(session, callID): is there reasoning to echo, or is the placeholder
\* put on the turn?
Lookup(s, id) == s \in DOMAIN m /\ id \in m[s]

Init ==
    /\ m = EmptyMap
    /\ mu = "free"
    /\ tmp = EmptyMap
    /\ file = EmptyMap
    /\ captured = {}

\* Fault: the IDs are put in every session's entry.
WithEverywhere(map, s, ids) ==
    [t \in DOMAIN map \cup {s} |-> (IF t \in DOMAIN map THEN map[t] ELSE {}) \cup ids]

\* The map with a session's entry created or extended.
With(map, s, ids) ==
    [t \in DOMAIN map \cup {s} |->
        (IF t \in DOMAIN map THEN map[t] ELSE {}) \cup (IF t = s THEN ids ELSE {})]

\* Fault: the map is never reset.
RememberUncapped(s, ids) ==
    /\ mu = "free"
    /\ m' = With(m, s, ids)
    /\ captured' = captured \cup ({s} \X ids)
    /\ mu' = "write"
    /\ UNCHANGED <<tmp, file>>

\* Fault: the map is updated without taking the lock.
RememberUnlocked(s, ids) ==
    LET new == With(m, s, ids)
    IN  /\ m' = IF Total(new) > MaxEntries THEN Restrict(new, {s}) ELSE new
        /\ captured' = captured \cup ({s} \X ids)
        /\ mu' = IF mu = "free" THEN "write" ELSE mu
        /\ UNCHANGED <<tmp, file>>

\* remember, up to save: a response with reasoning made calls with these IDs
\* (none, if it made no call or they have no ID).  A map that outgrows the cap
\* is replaced by this session's entry alone.
Remember(s, ids) ==
    LET new == With(m, s, ids)
    IN  /\ mu = "free"
        /\ m' = IF Total(new) > MaxEntries THEN Restrict(new, {s}) ELSE new
        /\ captured' = captured \cup ({s} \X ids)
        /\ mu' = "write"
        /\ UNCHANGED <<tmp, file>>

\* Fault: the error of WriteFile is not looked at.
WriteTmpUnchecked ==
    /\ mu = "write"
    /\ tmp' \in {m, Partial}
    /\ mu' = "rename"
    /\ UNCHANGED <<m, file, captured>>

\* os.WriteFile of the temporary file; when it fails save returns.
WriteTmp ==
    /\ mu = "write"
    /\ \/ tmp' = m /\ mu' = "rename"
       \/ tmp' = Partial /\ mu' = "free"
    /\ UNCHANGED <<m, file, captured>>

\* os.Rename, whose failure is ignored.
Rename ==
    /\ mu = "rename"
    /\ \/ file' = tmp /\ tmp' = EmptyMap
       \/ UNCHANGED <<file, tmp>>
    /\ mu' = "free"
    /\ UNCHANGED <<m, captured>>

\* Fault: a leftover temporary file is preferred, and not checked.
RestartFromTmp ==
    /\ m' = tmp
    /\ mu' = "free"
    /\ tmp' = IF mu = "write" THEN Partial ELSE tmp
    /\ UNCHANGED <<file, captured>>

\* The process dies, possibly while writing, and is started again.
Restart ==
    /\ m' = Load(file)
    /\ mu' = "free"
    /\ tmp' = IF mu = "write" THEN Partial ELSE tmp
    /\ UNCHANGED <<file, captured>>

Next ==
    \/ \E s \in Session, ids \in SUBSET CallId : Remember(s, ids)
    \/ WriteTmp
    \/ Rename
    \/ Restart

Spec == Init /\ [][Next]_vars

-----------------------------------------------------------------------------
\* Sessions are isolated and nothing is invented, across resets, failed saves
\* and restarts: what a session's turn gets back is reasoning that a response
\* to this session produced (chat_completions.go:289-294, README.md:139).
EchoesOnlyOwnReasoning ==
    \A s \in Session, id \in CallId : Lookup(s, id) => <<s, id>> \in captured

\* "Atomic write": whenever the process dies, the file it will be restarted
\* from is complete (chat_completions.go:319-334, README.md:144).
FileIsComplete == file # Partial

\* What a rename publishes is the cache of that moment: no concurrent remember
\* has overtaken the copy being saved (chat_completions.go:320, "The caller
\* must hold mu").
RenamePublishesCurrentMap == [][file' # file => file' = m]_vars

\* The cache goes over its cap only by the calls of the one session that
\* brought it there: no other session has an entry left
\* (chat_completions.go:358-361).  That session's own entry is never trimmed.
OverflowIsOneSession ==
    Total(m) > MaxEntries => Cardinality(DOMAIN m) = 1
=============================================================================
