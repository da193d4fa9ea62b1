----------------------------- MODULE FreshHost ------------------------------
(***************************************************************************)
(* Factory-clean M4 hosts on their way into the fleet, and what the        *)
(* orchestrator sees of them:                                              *)
(*   - SimpleMDM: membership of the bootstrap assignment group and the     *)
(*     installs of its pkg that push_apps queues                           *)
(*   - the host: the pkg's payload, its postinstall, m4-bootstrap.sh (the  *)
(*     script) and the reboot-survivable driver the script leaves behind   *)
(*   - Taskcluster: the host's worker record and its quarantine, in the    *)
(*     one candidate pool the host works for.                              *)
(***************************************************************************)
EXTENDS Integers, FiniteSets

CONSTANTS
  Hosts,     \* the hosts of the hardware refresh
  Flaky,     \* those where the script may find no SCEP identity, broker or git
  Arrivals   \* how the hosts arrive: [group, token, registered]

ASSUME HostsAssumption == IsFiniteSet(Hosts)
ASSUME FlakyAssumption == Flaky \subseteq Hosts
ASSUME ArrivalsAssumption ==
  Arrivals \subseteq [group : SUBSET Hosts, token : SUBSET Hosts, registered : SUBSET Hosts]

VARIABLES
  group,        \* hosts in the bootstrap assignment group
  installs,     \* hosts with a queued install of the group's apps
  payload,      \* hosts the pkg has been laid down on
  token,        \* hosts whose admin holds a SecureToken
  escrowed,     \* hosts whose Bootstrap Token is escrowed
  script,       \* hosts where m4-bootstrap.sh is running
  driver,       \* hosts with the driver's LaunchDaemon installed
  semaphore,    \* hosts where /var/tmp/semaphore/run-buildbot exists
  sentinel,     \* hosts where /var/log/m4-bootstrap-complete exists
  registered,   \* hosts with a worker record
  quarantined   \* hosts whose record is quarantined

mdmVars     == <<group, installs>>
scriptVars  == <<payload, script, driver, semaphore, sentinel>>
machineVars == <<token, escrowed, scriptVars>>
tcVars      == <<registered, quarantined>>
hostVars    == <<mdmVars, machineVars, tcVars>>

HostTypeOK ==
  /\ group \subseteq Hosts /\ installs \subseteq Hosts
  /\ payload \subseteq Hosts /\ token \subseteq Hosts /\ escrowed \subseteq Hosts
  /\ script \subseteq Hosts
  /\ driver \subseteq Hosts /\ semaphore \subseteq Hosts /\ sentinel \subseteq Hosts
  /\ registered \subseteq Hosts /\ quarantined \subseteq Hosts

\* DEP arrivals: `mint` may have run, somebody may have put a host into the
\* group by hand, and a record may be left from the host's earlier life.
HostInit ==
  /\ \E a \in Arrivals : /\ group = a.group
                        /\ token = a.token
                        /\ registered = a.registered
  /\ installs = {} /\ payload = {} /\ escrowed = {}
  /\ script = {} /\ driver = {} /\ semaphore = {} /\ sentinel = {}
  /\ quarantined = {}

-----------------------------------------------------------------------------
(* The pkg, its script and its driver *)

\* The entrypoint runs the script from its top; a finished host exits at once.
RunScript(h) == script' = IF h \in sentinel THEN script ELSE script \cup {h}

\* The payload lands and the postinstall boots the entrypoint out and in
\* again: a script that is running starts over.
Install(h) ==
  /\ payload' = payload \cup {h}
  /\ RunScript(h)
  /\ UNCHANGED <<group, token, escrowed, driver, semaphore, sentinel, tcVars>>

InstallPushed(h) ==
  /\ h \in installs
  /\ installs' = installs \ {h}
  /\ Install(h)

\* Membership alone: the install waits for a check-in, often only at boot.
InstallAtCheckIn(h) ==
  /\ h \in group \ payload
  /\ Install(h)
  /\ UNCHANGED installs

\* RunAtLoad: a reboot starts the script over; the driver's daemon, if there,
\* is loaded again.
Reboot(h) ==
  /\ h \in payload
  /\ RunScript(h)
  /\ UNCHANGED <<mdmVars, token, escrowed, payload, driver, semaphore, sentinel, tcVars>>

\* No SecureToken within 30 minutes, or something the host needs is missing.
ScriptAborts(h) ==
  /\ h \in script
  /\ h \notin token \/ h \in Flaky
  /\ script' = script \ {h}
  /\ UNCHANGED <<mdmVars, token, escrowed, payload, driver, semaphore, sentinel, tcVars>>

ScriptInstallsDriver(h) ==
  /\ h \in script \cap token
  /\ script' = script \ {h}
  /\ driver' = driver \cup {h}
  /\ UNCHANGED <<mdmVars, token, escrowed, payload, semaphore, sentinel, tcVars>>

\* Puppet has converged: the trigger semaphore comes first ...
DriverStartsWorker(h) ==
  /\ h \in driver \ semaphore
  /\ semaphore' = semaphore \cup {h}
  /\ UNCHANGED <<mdmVars, token, escrowed, payload, script, driver, sentinel, tcVars>>

\* A mutant: the sentinel and the clean-up come before the semaphore.
FinishesFirst(h) ==
  /\ h \in driver
  /\ sentinel' = sentinel \cup {h}
  /\ driver' = driver \ {h}
  /\ UNCHANGED <<mdmVars, token, escrowed, payload, script, semaphore, tcVars>>

\* ... then the sentinel, and with it the driver's own removal: it is gone
\* only when the sentinel is there.
DriverFinishes(h) ==
  /\ h \in driver \cap semaphore
  /\ sentinel' = sentinel \cup {h}
  /\ driver' = driver \ {h}
  /\ UNCHANGED <<mdmVars, token, escrowed, payload, script, semaphore, tcVars>>

\* worker-runner starts generic-worker, which registers.
WorkerRegisters(h) ==
  /\ h \in semaphore \ registered
  /\ registered' = registered \cup {h}
  /\ UNCHANGED <<mdmVars, machineVars, quarantined>>

HostNext(h) ==
  \/ InstallPushed(h) \/ InstallAtCheckIn(h) \/ Reboot(h)
  \/ ScriptAborts(h) \/ ScriptInstallsDriver(h)
  \/ DriverStartsWorker(h) \/ DriverFinishes(h)
  \/ WorkerRegisters(h)

-----------------------------------------------------------------------------
(* What the steps of the orchestrator do to a host *)

\* POST /assignment_groups/<id>/devices/<id>: additive, never a move.
Join(h) == group' = group \cup {h}

\* POST push_apps: every member installs the group's apps (again).
PushApps == installs' = installs \cup group

\* One password login grants the first SecureToken.
GrantToken(h) == token' = token \cup {h}

Escrow(h) ==
  /\ h \in token
  /\ escrowed' = escrowed \cup {h}

Quarantine(h) ==
  /\ h \in registered
  /\ quarantined' = quarantined \cup {h}

=============================================================================
