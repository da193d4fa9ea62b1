--------------------------- MODULE BuilderUpgrade ---------------------------
(***************************************************************************)
(* `reprovision builder-upgrade` (orchestrator/builder_upgrade.py): the    *)
(* in-place upgrade of an Intel builder to macOS 15, meant to be re-run    *)
(* until it succeeds.                                                      *)
(*   - the command: a sequence of steps, each of which looks at the host   *)
(*     first and skips what is done; nothing else is remembered            *)
(*   - what runs on without it: the macOS installer, the Xcode             *)
(*     LaunchDaemon, autologin, worker-runner and its task                 *)
(*   - Taskcluster (external), with the lag of recentTasks.                *)
(***************************************************************************)
EXTENDS Integers

CONSTANTS
  MaxMissed,     \* polls a claim can stay out of recentTasks (visibility lag)
  SudoPassword,  \* is REPROVISION_BUILDER_SUDO_PASSWORD configured?
  MaxFaults      \* bound on steps that fail, kills, and installs that do not take

Places ==
  {"idle", "resume", "preflight", "quarantine", "drain", "stop", "clear", "os",
   "preparing", "applying", "sudo", "keybag", "xcode", "expanding", "clt",
   "puppet", "verify", "return", "login", "desktop", "register", "unquarantine"}

ASSUME LagAssumption == MaxMissed \in Nat
ASSUME SudoAssumption == SudoPassword \in BOOLEAN
ASSUME FaultsAssumption == MaxFaults \in Nat

VARIABLES
  quarantined,
  busy,       \* is the worker executing a task?
  shown,      \* can is_currently_busy see it?
  missed,     \* polls that did not
  host,       \* what the steps look at: see Hosts
  installer,  \* startosinstall: "none", "preparing", "broken", "applying"
  daemon,     \* the Xcode LaunchDaemon: "none", "running", "finished"
  session,    \* the task user's: "none", "console", "desktop"
  active,     \* has the worker checked in since the boot?
  booted,     \* has the host booted since `before` was read?
  pc,         \* the step the command is at
  unq,        \* --unquarantine
  idle,       \* idle polls in a row (step_drain)
  outcome,    \* how the last command ended: "none" while one is running
  faults      \* failures so far

tcVars   == <<quarantined, busy, shown, missed>>
machine  == <<host, installer, daemon, session, active, booted>>
opVars   == <<pc, unq, idle, outcome, faults>>
vars     == <<quarantined, busy, shown, missed, host, installer, daemon, session,
              active, booted, pc, unq, idle, outcome, faults>>

Hosts == [up : BOOLEAN, os : {"old", "new"}, role : {"old", "new"},
          converged : BOOLEAN,   \* puppet has converged on the new role
          sudo : BOOLEAN,        \* passwordless for relops
          xcode : BOOLEAN, clt : BOOLEAN,
          sem : BOOLEAN,         \* /var/tmp/semaphore/run-buildbot
          kc : {"place", "aside"},           \* /etc/kcpassword: autologin
          keybag : {"small", "big", "gone"}, \* persona.kb
          runner : BOOLEAN]      \* worker-runner loaded in launchd

-----------------------------------------------------------------------------

\* A 10.15 or 13 builder in service.
Init ==
  /\ quarantined = FALSE /\ busy = FALSE /\ shown = FALSE /\ missed = 0
  /\ \E k \in {"small", "big"} :
       host = [up |-> TRUE, os |-> "old", role |-> "old", converged |-> FALSE,
               sudo |-> TRUE, xcode |-> FALSE, clt |-> FALSE, sem |-> TRUE,
               kc |-> "place", keybag |-> k, runner |-> TRUE]
  /\ installer = "none" /\ daemon = "none"
  /\ session = "desktop" /\ active = TRUE /\ booted = FALSE
  /\ pc = "idle" /\ unq = FALSE /\ idle = 0 /\ outcome = "none" /\ faults = 0

Goto(p) == pc' = p /\ UNCHANGED <<unq, idle, outcome, faults>>
End(how) == pc' = "idle" /\ outcome' = how /\ UNCHANGED <<unq, idle, faults>>

\* A failure of the environment. Raised by the command itself: End("failed").
Fault == faults < MaxFaults /\ faults' = faults + 1
FaultEnd(how) == Fault /\ pc' = "idle" /\ outcome' = how /\ UNCHANGED <<unq, idle>>

-----------------------------------------------------------------------------
(* upgrade(): sudo, preflight, quarantine, drain *)

\* A host already on 15 has had its sudoers reset by the upgrade.
Start(u) ==
  /\ pc = "idle" /\ host.up
  /\ pc' = IF host.os = "new" /\ ~host.sudo THEN "resume" ELSE "preflight"
  /\ unq' = u
  /\ outcome' = "none"
  /\ UNCHANGED <<tcVars, machine, idle, faults>>

\* already_upgraded: what it looks at.
LooksUpgraded ==
  host.os = "new" /\ host.role = "new" /\ host.xcode /\ host.clt /\ host.sem

Preflight ==
  /\ pc = "preflight" /\ host.up
  /\ \/ ~host.sudo /\ End("refused")
     \/ host.sudo /\ LooksUpgraded /\ End("nothing")
     \/ host.sudo /\ ~LooksUpgraded /\ Goto("quarantine")
  /\ UNCHANGED <<tcVars, machine>>

\* A mutant: the count of idle polls is not reset.
QuarantineKeepsIdle ==
  /\ pc = "quarantine"
  /\ quarantined' = TRUE
  /\ Goto("drain")
  /\ UNCHANGED <<busy, shown, missed, machine>>

Quarantine ==
  /\ pc = "quarantine"
  /\ quarantined' = TRUE
  /\ pc' = "drain" /\ idle' = 0
  /\ UNCHANGED <<busy, shown, missed, machine, unq, outcome, faults>>

InvisibleClaim == busy /\ ~shown
CanAnswer == InvisibleClaim => missed < MaxMissed
CountMiss == missed' = IF InvisibleClaim THEN missed + 1 ELSE missed

\* A mutant: one idle poll is enough.
DrainPollOnce ==
  /\ pc = "drain" /\ CanAnswer /\ CountMiss
  /\ pc' = IF busy /\ shown THEN "drain" ELSE "stop"
  /\ UNCHANGED <<quarantined, busy, shown, machine, unq, idle, outcome, faults>>

\* Two idle polls in a row.
DrainPoll ==
  /\ pc = "drain" /\ CanAnswer /\ CountMiss
  /\ idle' = IF busy /\ shown THEN 0 ELSE idle + 1
  /\ pc' = IF idle' = 2 THEN "stop" ELSE "drain"
  /\ UNCHANGED <<quarantined, busy, shown, machine, unq, outcome, faults>>

-----------------------------------------------------------------------------
(* step_stop_worker, step_clear_caches, step_os_update *)

\* The host once the first k of the step's commands are done: semaphore,
\* worker-runner, kcpassword, sudoers drop-in, log-out.
Stopped(k) ==
  [host EXCEPT !.sem = @ /\ k < 1, !.runner = @ /\ k < 2,
               !.kc = IF k < 3 THEN @ ELSE "aside"]

StopWorker ==
  /\ pc = "stop" /\ host.up
  /\ \E k \in 0..5 :
       /\ host' = Stopped(k)
       /\ session' = IF k = 5 THEN "none" ELSE session
       /\ IF k < 2 THEN UNCHANGED <<active, busy, shown>>
                   ELSE active' = FALSE /\ busy' = FALSE /\ shown' = FALSE
       /\ IF k = 5 THEN Goto("clear") ELSE FaultEnd("failed")
  /\ UNCHANGED <<quarantined, missed, installer, daemon, booted>>

\* Among the caches: "macOS Install Data", what an installer has staged.
ClearCaches ==
  /\ pc = "clear" /\ host.up
  /\ installer' = IF installer = "preparing" THEN "broken" ELSE installer
  /\ Goto("os")
  /\ UNCHANGED <<tcVars, host, daemon, session, active, booted>>

LaunchInstaller ==
  /\ pc = "os" /\ host.up
  /\ IF host.os = "new"
       THEN Goto("sudo") /\ UNCHANGED installer
       ELSE Goto("preparing") /\ installer' = "preparing"
  /\ UNCHANGED <<tcVars, host, daemon, session, active, booted>>

\* _reachable is false: the host is rebooting, or the network dropped the probe.
SeeDown ==
  /\ pc = "preparing" /\ ~host.up
  /\ Goto("applying")
  /\ UNCHANGED <<tcVars, machine>>
ProbeDropped ==
  /\ pc = "preparing" /\ Fault
  /\ pc' = "applying"
  /\ UNCHANGED <<tcVars, machine, unq, idle, outcome>>

\* A mutant: the host that answers is taken for upgraded.
SeeOsUnchecked ==
  /\ pc = "applying" /\ host.up
  /\ Goto("sudo")
  /\ UNCHANGED <<tcVars, machine>>

\* It answers again: on macOS 15, or the run fails.
SeeOs ==
  /\ pc = "applying" /\ host.up
  /\ IF host.os = "new" THEN Goto("sudo") ELSE End("failed")
  /\ UNCHANGED <<tcVars, machine>>

-----------------------------------------------------------------------------
(* Sudo, keybag, Xcode, CLT, puppet, verify *)

\* Skipped when sudo works; else the password, or the wait for the MDM pkg.
EnsureSudo ==
  /\ pc \in {"resume", "sudo"} /\ host.up
  /\ host.sudo \/ SudoPassword
  /\ host' = [host EXCEPT !.sudo = TRUE]
  /\ Goto(IF pc = "resume" THEN "preflight" ELSE "keybag")
  /\ UNCHANGED <<tcVars, installer, daemon, session, active, booted>>

\* A mutant: the keybag is left as it is.
KeepKeybag ==
  /\ pc = "keybag" /\ host.up
  /\ Goto("xcode")
  /\ UNCHANGED <<tcVars, machine>>

ResetKeybag ==
  /\ pc = "keybag" /\ host.up
  /\ host' = [host EXCEPT !.keybag = IF @ = "big" THEN "gone" ELSE @]
  /\ Goto("xcode")
  /\ UNCHANGED <<tcVars, installer, daemon, session, active, booted>>

\* Skipped when ready. An earlier attempt's daemon is removed first.
InstallXcode ==
  /\ pc = "xcode" /\ host.up
  /\ IF host.xcode
       THEN Goto("clt") /\ UNCHANGED daemon
       ELSE Goto("expanding") /\ daemon' = "running"
  /\ UNCHANGED <<tcVars, host, installer, session, active, booted>>

\* However the wait ends, the daemon is removed (finally): unless that fails too.
XcodeInstalled ==
  /\ pc = "expanding" /\ host.up /\ daemon = "finished"
  /\ daemon' = "none"
  /\ IF host.xcode THEN Goto("clt") ELSE End("failed")
  /\ UNCHANGED <<tcVars, host, installer, session, active, booted>>
XcodeFails ==
  /\ pc = "expanding"
  /\ daemon' \in {"none", daemon}
  /\ FaultEnd("failed")
  /\ UNCHANGED <<tcVars, host, installer, session, active, booted>>

InstallClt ==
  /\ pc = "clt" /\ host.up
  /\ host' = [host EXCEPT !.clt = TRUE]
  /\ Goto("puppet")
  /\ UNCHANGED <<tcVars, installer, daemon, session, active, booted>>

\* The role is written before the first run; a run that does not converge
\* may or may not have reached sudoers.
Puppet ==
  /\ pc = "puppet" /\ host.up
  /\ \/ /\ host' = [host EXCEPT !.role = "new", !.converged = TRUE, !.sudo = TRUE]
        /\ Goto("verify")
     \/ /\ \E s \in {host.sudo, TRUE} :
             host' = [host EXCEPT !.role = "new", !.converged = FALSE, !.sudo = s]
        /\ FaultEnd("failed")
  /\ UNCHANGED <<tcVars, installer, daemon, session, active, booted>>

\* A worker config that is not the expected one: puppet has not converged.
Verify ==
  /\ pc = "verify" /\ host.up
  /\ IF host.sudo /\ host.converged /\ host.xcode /\ host.clt
       THEN Goto("return")
       ELSE End("failed")
  /\ UNCHANGED <<tcVars, machine>>

-----------------------------------------------------------------------------
(* step_return, step_unquarantine *)

\* The host goes down, by a reboot of the command's or the installer's.
Down(h) ==
  /\ host' = [h EXCEPT !.up = FALSE, !.runner = FALSE]
  /\ session' = "none" /\ active' = FALSE
  /\ busy' = FALSE /\ shown' = FALSE

\* A mutant: the semaphore is touched before kcpassword is back.
ReturnedSemaphoreFirst(k) ==
  [host EXCEPT !.kc = IF k < 2 THEN @ ELSE "place", !.sem = @ \/ k > 0]

\* The host once the first k of the step's commands are done.
Returned(k) == [host EXCEPT !.kc = IF k < 1 THEN @ ELSE "place", !.sem = @ \/ k > 1]

\* kcpassword, semaphore, reboot (sent unchecked: it may not happen).
Return ==
  /\ pc = "return" /\ host.up
  /\ \E k \in 0..3 :
       \/ /\ k < 3
          /\ host' = Returned(k)
          /\ FaultEnd("failed")
          /\ UNCHANGED <<busy, shown, session, active, booted>>
       \/ /\ k = 3
          /\ Down(Returned(3))
          /\ booted' = FALSE
          /\ Goto("login")
  /\ UNCHANGED <<quarantined, missed, installer, daemon>>
ShutdownIgnored ==
  /\ pc = "return" /\ host.up /\ Fault
  /\ host' = Returned(3)
  /\ booted' = FALSE
  /\ pc' = "login"
  /\ UNCHANGED <<tcVars, installer, daemon, session, active, unq, idle, outcome>>

SeeLogin ==
  /\ pc = "login" /\ booted /\ host.up /\ session # "none"
  /\ Goto("desktop")
  /\ UNCHANGED <<tcVars, machine>>

SeeDesktop ==
  /\ pc = "desktop" /\ host.up /\ session = "desktop"
  /\ Goto("register")
  /\ UNCHANGED <<tcVars, machine>>

SeeRegistered ==
  /\ pc = "register" /\ active
  /\ IF unq THEN Goto("unquarantine") ELSE End("held")
  /\ UNCHANGED <<tcVars, machine>>

Unquarantine ==
  /\ pc = "unquarantine"
  /\ quarantined' = FALSE
  /\ End("served")
  /\ UNCHANGED <<busy, shown, missed, machine>>

\* Every other way a step ends. step_install_xcode has a cleanup: XcodeFails.
Raise ==
  /\ pc \notin {"idle", "expanding"}
  /\ FaultEnd(IF pc \in {"resume", "preflight", "quarantine"} THEN "refused" ELSE "failed")
  /\ UNCHANGED <<tcVars, machine>>

Killed ==
  /\ pc # "idle"
  /\ FaultEnd("killed")
  /\ UNCHANGED <<tcVars, machine>>

-----------------------------------------------------------------------------
(* The machine and Taskcluster (external) *)

InstallerReboots ==
  /\ host.up /\ installer = "preparing"
  /\ installer' = "applying"
  /\ Down(host)
  /\ UNCHANGED <<quarantined, missed, daemon, booted, opVars>>

\* The upgrade resets sudoers (the drop-in may survive), empties /var/tmp and
\* leaves a stub of the CLT; one that does not take leaves the old system. It
\* takes many polls: the command, if it is waiting, has seen the host go.
InstallerDone ==
  /\ ~host.up /\ installer = "applying" /\ pc # "preparing"
  /\ installer' = "none"
  /\ \/ /\ \E s \in BOOLEAN :
             host' = [host EXCEPT !.up = TRUE, !.runner = TRUE, !.os = "new",
                                  !.sudo = s, !.sem = FALSE, !.clt = FALSE]
        /\ UNCHANGED faults
     \/ host' = [host EXCEPT !.up = TRUE, !.runner = TRUE] /\ Fault
  /\ booted' = TRUE
  /\ UNCHANGED <<tcVars, daemon, session, active, pc, unq, idle, outcome>>

\* launchd loads worker-runner, and the Xcode daemon if its plist is there.
Boot ==
  /\ ~host.up /\ installer # "applying"
  /\ host' = [host EXCEPT !.up = TRUE, !.runner = TRUE,
                          !.keybag = IF @ = "gone" THEN "small" ELSE @]
  /\ daemon' = IF daemon = "none" THEN "none" ELSE "running"
  /\ booted' = TRUE
  /\ UNCHANGED <<tcVars, installer, session, active, opVars>>

\* install-xcode.sh: removes the installed Xcode, moves the new one in.
DaemonReplacesXcode ==
  /\ daemon = "running" /\ host.up /\ host.xcode
  /\ host' = [host EXCEPT !.xcode = FALSE]
  /\ UNCHANGED <<tcVars, installer, daemon, session, active, booted, opVars>>
DaemonFinishes ==
  /\ daemon = "running" /\ host.up /\ ~host.xcode
  /\ host' = [host EXCEPT !.xcode = TRUE]
  /\ daemon' = "finished"
  /\ UNCHANGED <<tcVars, installer, session, active, booted, opVars>>

SudoPkg ==
  /\ host.up /\ ~host.sudo
  /\ host' = [host EXCEPT !.sudo = TRUE]
  /\ UNCHANGED <<tcVars, installer, daemon, session, active, booted, opVars>>

\* Autologin fires at boot and after every log-out (step_stop_worker).
Autologin ==
  /\ host.up /\ session = "none" /\ host.kc = "place"
  /\ session' = "console"
  /\ UNCHANGED <<tcVars, host, installer, daemon, active, booted, opVars>>

\* On macOS 15 a big keybag keeps the session from ever starting.
StartDesktop ==
  /\ host.up /\ session = "console"
  /\ ~(host.os = "new" /\ host.keybag = "big")
  /\ session' = "desktop"
  /\ UNCHANGED <<tcVars, host, installer, daemon, active, booted, opVars>>

\* Without a user at the console generic-worker exits and the host reboots.
CheckIn ==
  /\ host.up /\ host.runner /\ host.sem /\ session # "none" /\ ~active
  /\ active' = TRUE
  /\ UNCHANGED <<tcVars, host, installer, daemon, session, booted, opVars>>

Claim ==
  /\ active /\ ~quarantined /\ ~busy
  /\ busy' = TRUE /\ missed' = 0
  /\ UNCHANGED <<quarantined, shown, machine, opVars>>
ShowClaim ==
  /\ InvisibleClaim
  /\ shown' = TRUE
  /\ UNCHANGED <<quarantined, busy, missed, machine, opVars>>
FinishTask ==
  /\ busy
  /\ busy' = FALSE /\ shown' = FALSE
  /\ UNCHANGED <<quarantined, missed, machine, opVars>>

-----------------------------------------------------------------------------

Step ==
  \/ EnsureSudo \/ Preflight \/ Quarantine \/ DrainPoll \/ StopWorker \/ ClearCaches
  \/ LaunchInstaller \/ SeeDown \/ SeeOs \/ ResetKeybag \/ InstallXcode
  \/ XcodeInstalled \/ InstallClt \/ Puppet \/ Verify \/ Return
  \/ SeeLogin \/ SeeDesktop \/ SeeRegistered \/ Unquarantine

Machine ==
  \/ InstallerReboots \/ InstallerDone \/ Boot \/ DaemonFinishes
  \/ Autologin \/ StartDesktop \/ CheckIn

Next ==
  \/ \E u \in BOOLEAN : Start(u)
  \/ Step
  \/ ProbeDropped \/ XcodeFails \/ ShutdownIgnored \/ Raise \/ Killed
  \/ Machine \/ DaemonReplacesXcode \/ SudoPkg
  \/ Claim \/ ShowClaim \/ FinishTask

\* The command runs on, the machine does what it has begun, a task shows up
\* and ends; and the operator re-runs the command.
Fairness ==
  /\ WF_vars(Step)
  /\ WF_vars(InstallerReboots) /\ WF_vars(InstallerDone) /\ WF_vars(Boot)
  /\ WF_vars(DaemonFinishes)
  /\ WF_vars(Autologin) /\ WF_vars(StartDesktop) /\ WF_vars(CheckIn)
  /\ WF_vars(ShowClaim) /\ WF_vars(FinishTask)
  /\ WF_vars(\E u \in BOOLEAN : Start(u))

Spec == Init /\ [][Next]_vars
FairSpec == Spec /\ Fairness

-----------------------------------------------------------------------------
(* Properties *)

FlagsOK ==
  /\ quarantined \in BOOLEAN /\ busy \in BOOLEAN /\ shown \in BOOLEAN
  /\ active \in BOOLEAN /\ booted \in BOOLEAN /\ unq \in BOOLEAN

CountsOK ==
  /\ missed \in Nat /\ idle \in 0..2 /\ faults \in 0..MaxFaults
  /\ pc = "drain" => idle < 2

PlacesOK ==
  /\ installer \in {"none", "preparing", "broken", "applying"}
  /\ daemon \in {"none", "running", "finished"}
  /\ session \in {"none", "console", "desktop"}
  /\ pc \in Places
  /\ outcome \in {"none", "refused", "nothing", "failed", "killed", "held", "served"}

\* The type of every variable.
TypeOK == FlagsOK /\ CountsOK /\ PlacesOK /\ host \in Hosts

\* Xcode is there, or the daemon of a killed run is at it again.
Upgraded ==
  /\ host.os = "new" /\ host.role = "new" /\ host.converged /\ host.clt
  /\ host.xcode \/ daemon # "none"
InShape == Upgraded /\ host.sem /\ host.kc = "place" /\ session # "console"

\* worker-runner is stopped and the host goes down, by the command or by an
\* installer that outlived it, only with the worker held and idle.
InterruptedIdle ==
  [][(host.up /\ ~host'.up) \/ (host.runner /\ ~host'.runner) => quarantined /\ ~busy]_vars

\* A builder goes back to service only completely upgraded, with autologin
\* back and a desktop session, and its worker checked in since the reboot,
\* however many runs it took.
ReturnedUpgraded ==
  [][quarantined /\ ~quarantined' =>
       Upgraded /\ host.kc = "place" /\ session = "desktop" /\ active]_vars

\* A run that finds nothing to do leaves out nothing: the few things
\* already_upgraded looks at stand for all the steps.
NothingIsLeft == outcome = "nothing" => Upgraded /\ host.kc = "place"

\* A run that failed half-way resumes: as long as the command is re-run and
\* failures end, the builder is upgraded in the end, for good, and no login
\* hangs. With the Xcode daemon of a killed run left behind it is only so again
\* and again: the daemon replaces Xcode at every boot, and a re-run in that
\* window starts over.
Resumes == <>[]InShape \/ []<>(InShape /\ daemon # "none")

\* "... is already on macOS 15 as <role> and in service -- nothing to do"
\* (builder_upgrade.py, upgrade).
InServiceAsSaid == outcome = "nothing" => ~quarantined

\* The promise to Taskcluster, see module Maintenance: the worker is whole
\* untouched or completely upgraded.
Whole ==
  /\ host.up /\ host.runner /\ host.sem /\ host.kc = "place"
  /\ Upgraded \/ (host.os = "old" /\ host.role = "old")
Promise == INSTANCE Maintenance WITH
  Workers <- {"builder"},
  serving <- IF quarantined THEN {} ELSE {"builder"},
  busy    <- IF busy THEN {"builder"} ELSE {},
  whole   <- Whole
PromiseSpec == Promise!Spec

-----------------------------------------------------------------------------
(* Why it holds: the inductive invariant *)

\* A claim made before the quarantine is out of sight for one poll at most.
Disciplined == MaxMissed <= 1

HeldIdle == quarantined /\ ~busy

\* The places with the host in the command's hands, those with the worker
\* stopped, those on macOS 15, and those of a builder found complete.
Working   == Places \ {"idle", "resume", "preflight", "quarantine", "drain"}
WorkerOut == Working \ {"stop", "login", "desktop", "register", "unquarantine"}
OnNew     == Working \ {"stop", "clear", "os", "preparing", "applying"}
Verified  == {"return", "login", "desktop", "register", "unquarantine"}

\* An installer at work, also one that outlived its command.
Installing == installer \in {"preparing", "applying"}

\* A builder in service is whole.
ServiceInv == ~quarantined => Whole

\* The command, and an installer, work only on a builder that is held; the
\* installer only on the old system.
WorkInv ==
  /\ pc \in {"drain"} \cup Working => quarantined
  /\ Installing => quarantined /\ host.os = "old"

\* What the semaphore stands for on macOS 15, the only memory of a run.
SemaphoreInv ==
  /\ pc \in WorkerOut => ~host.sem
  /\ host.sem /\ host.os = "new" => host.converged /\ host.clt /\ host.kc = "place"

\* What has been established by each place.
ProgressInv ==
  /\ outcome # "none" => pc = "idle"
  /\ host.converged => host.role = "new"
  /\ active => host.up /\ host.runner
  /\ pc \in OnNew => host.os = "new"
  /\ pc \in Verified => Upgraded
  /\ pc \in Verified \ {"return"} => host.kc = "place" /\ host.sem
  /\ pc \in {"register", "unquarantine"} => session = "desktop"
  /\ pc = "unquarantine" => active

\* What every return relies on.
HeldInv == ServiceInv /\ WorkInv /\ SemaphoreInv /\ ProgressInv /\ NothingIsLeft

\* A task in flight has escaped as many polls as were idle.
DrainInv == pc = "drain" => (busy /\ ~shown => missed >= idle)

\* No task is in flight on a builder that is not whole, or is worked on.
IdleInv ==
  /\ DrainInv
  /\ busy => Whole
  /\ pc \in Working \/ Installing => ~busy

BuilderInv == HeldInv /\ IdleInv
=============================================================================
