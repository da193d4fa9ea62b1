------------------------------ MODULE Custody -------------------------------
(***************************************************************************)
(* What a batch promises of the hosts it sends into an autonomous          *)
(* bootstrap. Once sent, a host cannot be called back: it registers and    *)
(* takes work by itself. So an operation that sends hosts stays open until *)
(* each of them is accounted for: held out of its pool, or named to the    *)
(* operator as possibly in service. An operation that breaks off in an     *)
(* error of its own loses sight of the hosts it had.                       *)
(***************************************************************************)
EXTENDS FiniteSets

CONSTANT Hosts

VARIABLES
  sent,       \* hosts sent into the bootstrap
  accounted,  \* hosts held or named
  broken,     \* hosts of operations that broke off
  open        \* is an operation in progress?

vars == <<sent, accounted, broken, open>>

Init ==
  /\ sent = {}
  /\ accounted = {}
  /\ broken = {}
  /\ open = FALSE

Open ==
  /\ ~open
  /\ open' = TRUE
  /\ UNCHANGED <<sent, accounted, broken>>

Send(h) ==
  /\ open
  /\ sent' = sent \cup {h}
  /\ UNCHANGED <<accounted, broken, open>>

\* One watcher quarantines its host, or one report names several hosts.
Account(hs) ==
  /\ open
  /\ accounted' = accounted \cup hs
  /\ UNCHANGED <<sent, broken, open>>

\* What it has under way may still go on.
Break(hs) ==
  /\ open
  /\ broken' = broken \cup hs
  /\ UNCHANGED <<sent, accounted, open>>

Forgotten == sent \ (accounted \cup broken)

Close ==
  /\ open
  /\ Forgotten = {}
  /\ open' = FALSE
  /\ UNCHANGED <<sent, accounted, broken>>

\* It breaks off, and everything with it.
BreakAndClose(hs) ==
  /\ open
  /\ broken' = broken \cup hs
  /\ Forgotten \subseteq hs
  /\ open' = FALSE
  /\ UNCHANGED <<sent, accounted>>

Next ==
  \/ Open \/ Close
  \/ \E h \in Hosts : Send(h)
  \/ \E hs \in SUBSET Hosts : Account(hs) \/ Break(hs) \/ BreakAndClose(hs)

Spec == Init /\ [][Next]_vars

=============================================================================
