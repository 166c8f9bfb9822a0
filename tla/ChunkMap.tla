------------------------------ MODULE ChunkMap ------------------------------
(***************************************************************************)
(* What HappyStream's chunk table promises its users: a persistent map from *)
(* chunks to the key of the cached object that answers for them.  The first *)
(* key recorded for a chunk is the one that counts; a key is also saved, the *)
(* map in memory is lost with the process and is later restored from what    *)
(* was saved.  Rows, lists, files and record formats do not appear here.     *)
(***************************************************************************)
CONSTANTS Chunks, Keys, NoKey

VARIABLES
    map,      \* the key that answers for each chunk
    saved,    \* the key that will answer after a restart
    loaded    \* the map has been restored since the process started

mapVars == <<map, saved, loaded>>

Maps == [Chunks -> Keys \cup {NoKey}]
Empty == [c \in Chunks |-> NoKey]

\* the map m once k is recorded for c
With(m, c, k) == IF m[c] = NoKey THEN [m EXCEPT ![c] = k] ELSE m

Init == map = Empty /\ saved = Empty /\ loaded = FALSE

\* a chunk has been stored under the key k
Record(c, k) ==
    /\ map' = With(map, c, k)
    /\ saved' = With(saved, c, k)
    /\ UNCHANGED loaded

\* the process dies
Forget ==
    /\ map' = Empty /\ loaded' = FALSE
    /\ UNCHANGED saved

\* the restarted process reads what was saved; what it recorded on its own
\* until then is in there too
Restore ==
    /\ ~loaded /\ loaded' = TRUE
    /\ map' = saved
    /\ UNCHANGED saved

Next ==
    \/ \E c \in Chunks, k \in Keys : Record(c, k)
    \/ Forget
    \/ Restore

Spec == Init /\ [][Next]_mapVars
-----------------------------------------------------------------------------
\* The map is total and holds keys only, and once restored it is the saved one.
MapInv ==
    /\ map \in Maps /\ saved \in Maps /\ loaded \in BOOLEAN
    /\ loaded => map = saved

\* A saved key is never replaced or lost.
SavedForever ==
    [][\A c \in Chunks : saved[c] # NoKey => saved'[c] = saved[c]]_mapVars

=============================================================================
