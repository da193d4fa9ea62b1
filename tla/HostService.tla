---------------------------- MODULE HostService ----------------------------
(***************************************************************************)
(* What the reprovision flow promises about one worker host, whatever the  *)
(* order of its commands, failures and Taskcluster answers:                *)
(*   - a task is started only on a host that is in service and fully built *)
(*   - a host is erased only while it is out of service and idle           *)
(*   - a host goes back to service only once it is fully built again.      *)
(* Module Reprovision implements this specification (runs "held" and       *)
(* theorem ImplementsHostService of ReprovisionProofs).                    *)
(***************************************************************************)
EXTENDS Naturals

VARIABLES
  serving,     \* Taskcluster may hand the host a task
  busy,        \* the host is executing a task
  built,       \* the bootstrap finished on this installation of macOS
  generation   \* how many installations of macOS the host has been through

svars == <<serving, busy, built, generation>>

Init ==
  /\ serving \in BOOLEAN
  /\ built \in BOOLEAN
  /\ serving => built
  /\ busy = FALSE
  /\ generation \in Nat

TakeTask ==
  /\ serving /\ built /\ ~busy
  /\ busy' = TRUE
  /\ UNCHANGED <<serving, built, generation>>

EndTask ==
  /\ busy
  /\ busy' = FALSE
  /\ UNCHANGED <<serving, built, generation>>

Hold ==
  /\ serving
  /\ serving' = FALSE
  /\ UNCHANGED <<busy, built, generation>>

Erase ==
  /\ ~serving /\ ~busy
  /\ built' = FALSE
  /\ generation' = generation + 1
  /\ UNCHANGED <<serving, busy>>

FinishBuild ==
  /\ ~built
  /\ built' = TRUE
  /\ UNCHANGED <<serving, busy, generation>>

Release ==
  /\ ~serving /\ built
  /\ serving' = TRUE
  /\ UNCHANGED <<busy, built, generation>>

Next == TakeTask \/ EndTask \/ Hold \/ Erase \/ FinishBuild \/ Release

Spec == Init /\ [][Next]_svars
=============================================================================
