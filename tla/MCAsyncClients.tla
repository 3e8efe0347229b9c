--------------------------- MODULE MCAsyncClients ---------------------------
(* AsyncClients for TLC: two clients that can race each other, and enough    *)
(* rounds for a reply to be late by one.  A third sleep check would only     *)
(* repeat the second.                                                        *)
EXTENDS AsyncClients

CONSTANTS p1, p2
MCPids == {p1, p2}
=============================================================================
