---------------------------- MODULE MCAdminAuth ----------------------------
(* A small instance of AdminAuth: half-second ticks, settings that leave the  *)
(* default session of one and a half seconds, ask for a half or one second,   *)
(* or exceed the maximum; two secrets to rotate between.                      *)
EXTENDS AdminAuth

CONSTANTS r1, admin, old, new

MCRequests == {r1}
MCStaticTokens == {admin}
MCSecrets == {old, new}
MCTTLSettings == {0, 1, 2, 4}
=============================================================================
