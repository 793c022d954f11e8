-------------------------- MODULE MCSrcacheWorker --------------------------
(* Two requests at a time, one after the other in each of their places, and *)
(* two versions with lifetimes of one second.                               *)
EXTENDS SrcacheWorker

CONSTANTS r1, r2

MCRequests == {r1, r2}
MCMaxAges == {1}
=============================================================================
