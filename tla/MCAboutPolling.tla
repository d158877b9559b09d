---------------------------- MODULE MCAboutPolling ----------------------------
(* A small instance of AboutPolling: two clients, two pages, as many writers  *)
(* as clients; a response is large enough to compress if it has any metrics   *)
(* or sections.  Clients and writers are interchangeable and no liveness is   *)
(* checked, so symmetry is sound.                                             *)
EXTENDS AboutPolling, TLC

CONSTANTS c1, c2, w1, w2

MCRequests == {c1, c2}
MCWriters  == {w1, w2}
MCIds      == {1, 2}
MCLarge    == {b \in Responses : b.found # {}}
Symmetry   == Permutations(MCRequests) \cup Permutations(MCWriters)
=============================================================================
