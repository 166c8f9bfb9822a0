--------------------------- MODULE MCYoutubeStore ---------------------------
(* Instances of YoutubeStore for TLC: u1 and u2 are URLs of the chunk c1, u3 *)
(* is a URL of c2, u4 is not YouTube's, u5 is YouTube's but has no lmt.      *)
EXTENDS YoutubeStore, TLC

CONSTANTS u1, u2, u3, u4, u5, c1, c2, s1, s2, r1, r2, f1, f2

MCChunkOf == [u \in Urls |-> CASE u \in {u1, u2} -> c1
                               [] u = u3 -> c2
                               [] u = u4 -> NotYoutube
                               [] u = u5 -> NoLmt]
Lmt16 == [c \in Chunks |-> 16]
OneDir == [f \in Files |-> Dir0]

Addresses == {p @@ q @@ f : p \in Permutations(Entries), q \in Permutations(Requests),
                            f \in Permutations(Files)}

\* u1 and u2 are interchangeable
Symmetry == {p @@ u : p \in Addresses, u \in Permutations(Urls \cap {u1, u2})}

\* without u2, u1 and c1 together can change places with u3 and c2
Swap == (u1 :> u3) @@ (u3 :> u1) @@ (c1 :> c2) @@ (c2 :> c1)
ChunkSymmetry == Addresses \cup {p @@ Swap : p \in Addresses}
=============================================================================
