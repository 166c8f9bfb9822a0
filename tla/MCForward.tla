----------------------------- MODULE MCForward ------------------------------
(* Forward for two peers and the origin server.                            *)
EXTENDS Forward

CONSTANTS p1, p2

\* The lists peer selection returns: none, a peer and then the origin server,
\* or peers only (a request that may not go direct), which are tried in turns.
MCRoutes == {<<>>, <<p1, Direct>>, <<p1, p2>>}
=============================================================================
