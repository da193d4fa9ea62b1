-------------------------- MODULE MCBuilderUpgrade --------------------------
(***************************************************************************)
(* Instances of BuilderUpgrade for TLC: the configurations give the bounds *)
(* and say whether the sudo password is configured.                        *)
(***************************************************************************)
EXTENDS BuilderUpgrade
=============================================================================
