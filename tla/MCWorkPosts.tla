----------------------------- MODULE MCWorkPosts -----------------------------
(* A small instance of WorkPosts; the requests are interchangeable and no     *)
(* liveness is checked, so symmetry is sound.                                 *)
EXTENDS WorkPosts, TLC

CONSTANTS r1, r2

MCRequests == {r1, r2}

Symmetry == Permutations(MCRequests)
=============================================================================
