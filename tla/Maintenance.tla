----------------------------- MODULE Maintenance -----------------------------
(***************************************************************************)
(* What a maintenance command promises about a host and the Taskcluster    *)
(* workers it carries, whatever fails and however often it is re-run:      *)
(*   - the host is interrupted (taken down, half configured) only while    *)
(*     all its workers are held and none executes a task                   *)
(*   - a worker takes tasks, and goes back to service, only on a host that *)
(*     is whole.                                                           *)
(* TartHost (several workers, one per VM) and BuilderUpgrade (one worker)  *)
(* implement it.                                                           *)
(***************************************************************************)
CONSTANT Workers

VARIABLES
  serving,  \* workers Taskcluster may hand a task
  busy,     \* workers executing one
  whole     \* the host is up and completely configured

mvars == <<serving, busy, whole>>

Init ==
  /\ serving \subseteq Workers
  /\ busy = {}
  /\ whole \in BOOLEAN
  /\ serving # {} => whole

TakeTask(w) ==
  /\ w \in serving \ busy /\ whole
  /\ busy' = busy \cup {w}
  /\ UNCHANGED <<serving, whole>>

EndTask(w) ==
  /\ w \in busy
  /\ busy' = busy \ {w}
  /\ UNCHANGED <<serving, whole>>

Hold(w) ==
  /\ w \in serving
  /\ serving' = serving \ {w}
  /\ UNCHANGED <<busy, whole>>

Interrupt ==
  /\ serving = {} /\ busy = {}
  /\ whole' = FALSE
  /\ UNCHANGED <<serving, busy>>

MakeWhole ==
  /\ whole' = TRUE
  /\ UNCHANGED <<serving, busy>>

Release(w) ==
  /\ w \in Workers \ serving /\ whole
  /\ serving' = serving \cup {w}
  /\ UNCHANGED <<busy, whole>>

Next ==
  \/ \E w \in Workers : TakeTask(w) \/ EndTask(w) \/ Hold(w) \/ Release(w)
  \/ Interrupt \/ MakeWhole

Spec == Init /\ [][Next]_mvars
=============================================================================
