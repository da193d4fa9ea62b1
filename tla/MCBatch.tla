------------------------------ MODULE MCBatch -------------------------------
(***************************************************************************)
(* Instances of Batch for TLC: how two hosts arrive, and the batches an    *)
(* operator starts over them.                                              *)
(***************************************************************************)
EXTENDS Batch

CONSTANTS h1, h2

\* h1 minted; or both in the group by hand, h1 minted, h2 with an old record.
MCArrivals ==
  {[group |-> {}, token |-> {h1}, registered |-> {}],
   [group |-> {h1, h2}, token |-> {h1}, registered |-> {h2}]}

\* A wave and the operator's watch after it, or a solo batch.
MCSessions ==
  {<<"add", "watch">>, <<"mint">>, <<"provision">>}
=============================================================================
