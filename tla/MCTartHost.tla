----------------------------- MODULE MCTartHost -----------------------------
(***************************************************************************)
(* Instances of TartHost for TLC: the configurations give the number of VM *)
(* slots.                                                                  *)
(***************************************************************************)
EXTENDS TartHost
=============================================================================
