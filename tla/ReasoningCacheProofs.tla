------------------------ MODULE ReasoningCacheProofs ------------------------
(* Proofs about the reasoning cache, for any sessions, call IDs and cap. *)
EXTENDS ReasoningCache, FiniteSetTheorems, TLAPS

-----------------------------------------------------------------------------
\* A map holds only what responses produced, each for its own session.
OwnsOnly(map) == \A s \in DOMAIN map : {s} \X map[s] \subseteq captured

\* A map over the cap is one session's.
Capped(map) == Total(map) > MaxEntries => Cardinality(DOMAIN map) = 1

\* What has to be true of every copy of the map, because each of them may
\* become the map again: the file by a restart, the temporary file by a rename.
Sound(map) == OwnsOnly(map) /\ Capped(map)

CopiesSound == Sound(m) /\ Sound(file) /\ (tmp # Partial => Sound(tmp))

\* While the lock is held for the rename, the temporary file is the map.
TmpIsCurrent == mu = "rename" => tmp = m

IInv == TypeOK /\ FileIsComplete /\ TmpIsCurrent /\ CopiesSound

-----------------------------------------------------------------------------
LEMMA EmptyMapSound == EmptyMap \in Maps /\ Sound(EmptyMap)
  <1>1. EmptyMap \in Maps
    BY DEF EmptyMap, Maps
  <1>2. Total(EmptyMap) = 0
    BY FS_EmptySet DEF Total, Pairs, EmptyMap
  <1> QED
    BY <1>1, <1>2, CacheAssumption DEF Sound, OwnsOnly, Capped, EmptyMap

\* What a file is loaded as is as good as the file.
LEMMA CompleteLoads == \A f \in Maps : Load(f) = f /\ f # Partial
  BY PartialAssumption DEF Load

\* The map remember leaves (chat_completions.go:345-361): well-formed, sound
\* with what the response produced, and within the cap or one session's.
LEMMA RememberSound ==
    ASSUME IInv, NEW s \in Session, NEW ids \in SUBSET CallId, Remember(s, ids)
    PROVE  m' \in Maps /\ Sound(m)'
  <1> DEFINE new == With(m, s, ids)
             old(t) == IF t \in DOMAIN m THEN m[t] ELSE {}
  <1>1. /\ DOMAIN m \subseteq Session
        /\ m \in [DOMAIN m -> SUBSET CallId]
    BY DEF IInv, TypeOK, Maps
  <1>2. /\ new = [t \in DOMAIN m \cup {s} |-> old(t) \cup (IF t = s THEN ids ELSE {})]
        /\ DOMAIN new = DOMAIN m \cup {s}
    BY DEF With
  <1>3. \A t \in DOMAIN new : new[t] \in SUBSET CallId
    BY <1>1, <1>2
  <1>4. \A t \in DOMAIN new : {t} \X new[t] \subseteq captured'
    BY <1>1, <1>2 DEF Remember, IInv, CopiesSound, Sound, OwnsOnly
  <1> HIDE DEF new
  <1>5. CASE Total(new) > MaxEntries
    <2>1. m' = [t \in {s} |-> new[t]]
      BY <1>5 DEF Remember, Restrict, new
    <2>2. m' \in [{s} -> SUBSET CallId]
      BY <2>1, <1>2, <1>3
    <2>3. Cardinality(DOMAIN m') = 1
      BY <2>1, FS_Singleton
    <2> QED
      BY <2>1, <2>2, <2>3, <1>2, <1>4 DEF Maps, Sound, OwnsOnly, Capped
  <1>6. CASE ~(Total(new) > MaxEntries)
    <2>1. m' = new
      BY <1>6 DEF Remember, new
    <2>2. new \in [DOMAIN m \cup {s} -> SUBSET CallId]
      BY <1>2, <1>3 DEF new
    <2>3. m' \in Maps
      BY <2>1, <2>2, <1>1 DEF Maps
    <2> QED
      BY <2>1, <2>3, <1>4, <1>6 DEF Sound, OwnsOnly, Capped, Total, Pairs
  <1> QED
    BY <1>5, <1>6

-----------------------------------------------------------------------------
LEMMA InitInv == Init => IInv
  BY EmptyMapSound, CompleteLoads
     DEF Init, IInv, TypeOK, FileIsComplete, TmpIsCurrent, CopiesSound

\* Soundness of a map that stays as it is lasts while responses are added.
LEMMA SoundGrows ==
    ASSUME NEW map, map' = map, captured \subseteq captured', Sound(map)
    PROVE  Sound(map)'
  BY DEF Sound, OwnsOnly, Capped, Total, Pairs

LEMMA StepInv == IInv /\ [Next]_vars => IInv'
  <1> SUFFICES ASSUME IInv, [Next]_vars PROVE IInv'
    OBVIOUS
  <1> USE DEF IInv, TypeOK, FileIsComplete, TmpIsCurrent, CopiesSound
  <1>1. ASSUME NEW s \in Session, NEW ids \in SUBSET CallId, Remember(s, ids)
        PROVE  IInv'
    <2>1. m' \in Maps /\ Sound(m)'
      BY <1>1, RememberSound
    <2>2. captured \subseteq captured' /\ captured' \subseteq Session \X CallId
      BY <1>1 DEF Remember
    <2>3. mu' = "write" /\ tmp' = tmp /\ file' = file
      BY <1>1 DEF Remember
    <2>4. Sound(file)' /\ (tmp' # Partial => Sound(tmp)')
      BY <2>2, <2>3 DEF Sound, OwnsOnly, Capped, Total, Pairs
    <2> QED
      BY <2>1, <2>2, <2>3, <2>4
  <1>2. CASE WriteTmp
    BY <1>2 DEF WriteTmp, Sound, OwnsOnly, Capped, Total, Pairs
  <1>3. CASE Rename
    <2>1. tmp # Partial
      BY <1>3, CompleteLoads DEF Rename
    <2> QED
      BY <1>3, <2>1, EmptyMapSound
         DEF Rename, Sound, OwnsOnly, Capped, Total, Pairs
  <1>4. CASE Restart
    <2>1. m' = file /\ file' = file
      BY <1>4, CompleteLoads DEF Restart, Load
    <2> QED
      BY <1>4, <2>1 DEF Restart, Sound, OwnsOnly, Capped, Total, Pairs
  <1>5. CASE UNCHANGED vars
    BY <1>5 DEF vars, Sound, OwnsOnly, Capped, Total, Pairs
  <1> QED
    BY <1>1, <1>2, <1>3, <1>4, <1>5 DEF Next

LEMMA Invariance == Spec => []IInv
  BY InitInv, StepInv, PTL DEF Spec

-----------------------------------------------------------------------------
\* The cache and its files are what they should be at every step of a save and
\* after every restart: what is loaded is a map again, whatever was killed when
\* (chat_completions.go:303-334).
THEOREM TypeCorrect == Spec => []TypeOK
  BY Invariance, PTL DEF IInv

\* Sessions are isolated: no interleaving of remembers, failing saves, kills
\* and restarts gives a session another's reasoning.  Every copy of the map
\* has to be sound for this, since any of them may come back.
THEOREM SessionIsolation == Spec => []EchoesOnlyOwnReasoning
  <1>1. IInv => EchoesOnlyOwnReasoning
    BY DEF IInv, CopiesSound, Sound, OwnsOnly, EchoesOnlyOwnReasoning, Lookup
  <1> QED
    BY <1>1, Invariance, PTL

\* The file a restart reads is complete (chat_completions.go:319-334): the
\* temporary file is renamed only after it was written as a whole.
THEOREM CrashSafety == Spec => []FileIsComplete
  BY Invariance, PTL DEF IInv

\* Only one session's own calls can be over the cap, in memory and, as what is
\* saved comes back, after any restart.
THEOREM CapIsPerSession == Spec => []OverflowIsOneSession
  <1>1. IInv => OverflowIsOneSession
    BY DEF IInv, CopiesSound, Sound, Capped, OverflowIsOneSession
  <1> QED
    BY <1>1, Invariance, PTL

\* What is published is current: the lock spans the update and the save.
THEOREM SavesAreCurrent == Spec => RenamePublishesCurrentMap
  <1>1. IInv /\ [Next]_vars => [file' # file => file' = m]_vars
    BY DEF IInv, TmpIsCurrent, Next, Remember, WriteTmp, Rename, Restart, vars
  <1> QED
    BY <1>1, Invariance, PTL DEF Spec, RenamePublishesCurrentMap
=============================================================================
