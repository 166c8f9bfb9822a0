--------------------------- MODULE ChunkMapProofs ---------------------------
(* The promises of ChunkMap, for every set of chunks and keys. *)
EXTENDS ChunkMap, TLAPS

\* Recording a key for a chunk leaves a map a map.
LEMMA WithIsMap ==
    ASSUME NEW m \in Maps, NEW c \in Chunks, NEW k \in Keys
    PROVE  With(m, c, k) \in Maps
BY DEF With, Maps

\* A chunk that has a key keeps it, whatever is recorded.
LEMMA WithKeeps ==
    ASSUME NEW m \in Maps, NEW c \in Chunks, NEW k \in Keys,
           NEW d \in Chunks, m[d] # NoKey
    PROVE  With(m, c, k)[d] = m[d]
BY DEF With, Maps

\* In every behaviour the map is total and typed, and once readChunkFromTableFile
\* has restored it, the map in memory and the saved one agree.
THEOREM MapInvariant == Spec => []MapInv
<1>1. Init => MapInv
  BY DEF Init, MapInv, Maps, Empty
<1>2. MapInv /\ [Next]_mapVars => MapInv'
  <2> SUFFICES ASSUME MapInv, [Next]_mapVars PROVE MapInv'
    OBVIOUS
  <2>1. ASSUME NEW c \in Chunks, NEW k \in Keys, Record(c, k) PROVE MapInv'
    <3>1. map' \in Maps /\ saved' \in Maps
      BY <2>1, WithIsMap DEF Record, MapInv
    <3>2. loaded' => map' = saved'
      BY <2>1 DEF Record, MapInv
    <3> QED BY <2>1, <3>1, <3>2 DEF Record, MapInv
  <2>2. CASE Forget
    BY <2>2 DEF Forget, MapInv, Maps, Empty
  <2>3. CASE Restore
    BY <2>3 DEF Restore, MapInv
  <2>4. CASE UNCHANGED mapVars
    BY <2>4 DEF mapVars, MapInv
  <2> QED BY <2>1, <2>2, <2>3, <2>4 DEF Next
<1> QED BY <1>1, <1>2, PTL DEF Spec

\* The key saved for a chunk is never replaced or lost: appendChunkToTableFile
\* only adds records, and the first one counts.
THEOREM SavedKeysStay == Spec => SavedForever
<1>1. MapInv /\ [Next]_mapVars
      => [\A c \in Chunks : saved[c] # NoKey => saved'[c] = saved[c]]_mapVars
  <2> SUFFICES ASSUME MapInv, Next
               PROVE  \A c \in Chunks : saved[c] # NoKey => saved'[c] = saved[c]
    OBVIOUS
  <2>1. ASSUME NEW c \in Chunks, NEW k \in Keys, Record(c, k)
        PROVE  \A d \in Chunks : saved[d] # NoKey => saved'[d] = saved[d]
    BY <2>1, WithKeeps DEF Record, MapInv
  <2>2. CASE Forget \/ Restore
    BY <2>2 DEF Forget, Restore
  <2> QED BY <2>1, <2>2 DEF Next
<1> QED BY <1>1, MapInvariant, PTL DEF Spec, SavedForever
=============================================================================
