------------------------------ MODULE MCRunner ------------------------------
(* Three jobs, two of them for the same host. *)
EXTENDS Runner, TLC

CONSTANTS j1, j2, j3, h1, h2

MCHostOf == j1 :> h1 @@ j2 :> h1 @@ j3 :> h2
=============================================================================
