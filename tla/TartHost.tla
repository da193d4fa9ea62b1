------------------------------ MODULE TartHost ------------------------------
(***************************************************************************)
(* `reprovision tart-host-update` (orchestrator/tart_host.py): maintenance *)
(* of a Mac whose Taskcluster workers are its VMs.                         *)
(*   - the command: quarantine every worker, drain each, update macOS      *)
(*     through SimpleMDM, apply puppet, reboot, wait for the VMs, put the  *)
(*     workers back, watch their pulls, re-quarantine if one fails         *)
(*   - Taskcluster and the workers (external), with the lag of recentTasks *)
(*   - SimpleMDM (external): "queued, not started": an update that is      *)
(*     posted reaches the host at a time of its own                        *)
(*   - the host (external): version, configuration, VMs.                   *)
(***************************************************************************)
EXTENDS Integers

CONSTANTS
  N,          \* VM slots, one worker each, in the order of the sorted slots
  MaxMissed,  \* polls a claim can stay out of recentTasks (visibility lag)
  Faults,     \* may a step raise, and may the command be killed?
  Careless    \* may a half-done host be left until its quarantine ends (7 days),
              \* or get a --puppet-only run?

ASSUME SlotsAssumption == N \in Nat \ {0}
ASSUME LagAssumption == MaxMissed \in Nat
ASSUME SwitchesAssumption == Faults \in BOOLEAN /\ Careless \in BOOLEAN

Workers == 1..N
Modes == {"full", "puppetOnly"}

VARIABLES
  quarantined,  \* workers in quarantine
  busy,         \* workers executing a task
  shown,        \* those whose task is_currently_busy can see
  missed,       \* polls that did not see a worker's task
  host,         \* [up, version, config, owed]: owed is a reboot puppet asked for
  pending,      \* an update_os command queued at SimpleMDM
  vms,          \* VMs running
  active,       \* workers that have checked in since the boot
  pc,           \* the step the command is at
  mode,         \* the command in progress
  next,         \* the slot its loops have reached
  idle,         \* idle polls in a row (step_drain)
  cur,          \* the version step_os_update started from
  booted,       \* has the host booted since `before` was read?
  waiting,      \* workers step_wait_registered still waits for
  outcome       \* how the last command ended: "none" while one is running

tcVars   == <<quarantined, busy, shown, missed>>
hostVars == <<host, pending, vms, active, booted>>
opVars   == <<pc, mode, next, idle, cur, waiting, outcome>>
vars     == <<quarantined, busy, shown, missed, host, pending, vms, active,
              pc, mode, next, idle, cur, booted, waiting, outcome>>

\* An update queued, a reboot owed, a configuration half applied, or down.
HalfDone == pending \/ host.owed \/ host.config = "half" \/ ~host.up

-----------------------------------------------------------------------------

\* A host in service, or held by an earlier run: never half-done.
Init ==
  /\ quarantined \in {{}, Workers}
  /\ busy = {} /\ shown = {}
  /\ missed = [w \in Workers |-> 0]
  /\ host \in [up : {TRUE}, version : {"old", "mid", "new"}, config : {"good"}, owed : {FALSE}]
  /\ pending = FALSE
  /\ vms = Workers /\ active = Workers
  /\ pc = "idle"
  /\ mode = "full"
  /\ next = 1 /\ idle = 0
  /\ cur = "old"
  /\ booted = FALSE
  /\ waiting = {}
  /\ outcome = "none"

\* An exception leaves update(): its handlers print and raise again.
Fail ==
  /\ pc' = "idle"
  /\ outcome' = IF pc = "quarantine" THEN "refused" ELSE "failed"
  /\ UNCHANGED <<mode, next, idle, cur, waiting>>

\* A mutant: one slot too many.
AdvanceTooFar(to) ==
  IF next = N + 1 THEN next' = 1 /\ pc' = to ELSE next' = next + 1 /\ pc' = pc

\* The next slot of a loop over worker_ids, or the step after the loop.
Advance(to) ==
  IF next = N THEN next' = 1 /\ pc' = to ELSE next' = next + 1 /\ pc' = pc

-----------------------------------------------------------------------------
(* resolve, preflight, quarantine, drain *)

\* The host must be on macOS 15 and answer. A command refused here changes
\* nothing. A --puppet-only run looks at nothing an earlier run left.
Start(m) ==
  /\ pc = "idle"
  /\ host.up /\ host.version # "other"
  /\ m = "full" \/ ~HalfDone \/ Careless
  /\ pc' = "quarantine"
  /\ mode' = m
  /\ next' = 1
  /\ outcome' = "none"
  /\ UNCHANGED <<tcVars, hostVars, idle, cur, waiting>>

QuarantineNext ==
  /\ pc = "quarantine"
  /\ quarantined' = quarantined \cup {next}
  /\ Advance("drain")
  /\ idle' = 0
  /\ UNCHANGED <<busy, shown, missed, hostVars, mode, cur, waiting, outcome>>

InvisibleClaim(w) == w \in busy /\ w \notin shown

\* The answer that would exceed the lag comes only after the claim is visible.
CanAnswer == InvisibleClaim(next) => missed[next] < MaxMissed
CountMiss ==
  missed' = IF InvisibleClaim(next) THEN [missed EXCEPT ![next] = @ + 1] ELSE missed

AfterDrain == IF mode = "puppetOnly" THEN "puppet" ELSE "update"

\* A mutant: one idle poll is enough.
DrainPollOnce ==
  /\ pc = "drain" /\ CanAnswer
  /\ CountMiss
  /\ idle' = 0
  /\ IF next \in busy \cap shown THEN UNCHANGED <<next, pc>> ELSE Advance(AfterDrain)
  /\ UNCHANGED <<quarantined, busy, shown, hostVars, mode, cur, waiting, outcome>>

\* Two idle polls in a row, worker after worker.
DrainPoll ==
  /\ pc = "drain" /\ CanAnswer
  /\ CountMiss
  /\ IF next \in busy \cap shown
       THEN idle' = 0 /\ UNCHANGED <<next, pc>>
       ELSE IF idle = 1
              THEN idle' = 0 /\ Advance(AfterDrain)
              ELSE idle' = 1 /\ UNCHANGED <<next, pc>>
  /\ UNCHANGED <<quarantined, busy, shown, hostVars, mode, cur, waiting, outcome>>

-----------------------------------------------------------------------------
(* OS update, puppet, reboot *)

\* _ver(v) >= _ver(min_os): a later major is past it too.
AtLeastMinOS == {"new", "other"}

\* A mutant: a host below min_os goes on without waiting for the update.
PostUpdateAndGoOn ==
  /\ pc = "update" /\ host.up
  /\ pc' = "puppet"
  /\ cur' = host.version
  /\ pending' = (pending \/ host.version \notin AtLeastMinOS)
  /\ UNCHANGED <<tcVars, host, vms, active, booted, mode, next, idle, waiting, outcome>>

\* Skipped at or past min_os, whatever the major; else the update is queued at
\* SimpleMDM.
PostUpdate ==
  /\ pc = "update" /\ host.up
  /\ cur' = host.version
  /\ IF host.version \in AtLeastMinOS
       THEN pc' = "puppet" /\ UNCHANGED pending
       ELSE pc' = "installing" /\ pending' = TRUE
  /\ UNCHANGED <<tcVars, host, vms, active, booted, mode, next, idle, waiting, outcome>>

\* The host answers with another version: the required one, or the run fails
\* (HOST_MAJOR is checked here, and only here after step_preflight).
SeeUpdate ==
  /\ pc = "installing" /\ host.up /\ host.version # cur
  /\ IF host.version = "new"
       THEN pc' = "puppet" /\ UNCHANGED <<mode, next, idle, cur, waiting, outcome>>
       ELSE Fail
  /\ UNCHANGED <<tcVars, hostVars>>

\* The checkout or the catalog fails, or the ssh session ends half-way.
PuppetFails ==
  /\ Faults
  /\ pc = "puppet"
  /\ host.up
  /\ host' = [host EXCEPT !.config = "half"]
  /\ Fail
  /\ UNCHANGED <<tcVars, pending, vms, active, booted>>

\* "REBOOT REQUIRED" is printed by the run that makes the change; a later run
\* that changes nothing does not repeat it.
ApplyPuppet ==
  /\ pc = "puppet" /\ host.up
  /\ \E asks \in BOOLEAN :
       /\ host' = [host EXCEPT !.config = "good", !.owed = @ \/ asks]
       /\ pc' = IF asks \/ mode = "full" THEN "reboot" ELSE "register"
  /\ waiting' = Workers
  /\ UNCHANGED <<tcVars, pending, vms, active, booted, mode, next, idle, cur, outcome>>

\* The host goes down: its VMs and the tasks in them end.
Down(h) ==
  /\ host' = h
  /\ vms' = {} /\ active' = {}
  /\ busy' = {} /\ shown' = {}

\* `shutdown -r now` is sent unchecked: it may not have worked.
Reboot ==
  /\ pc = "reboot" /\ host.up
  /\ booted' = FALSE
  /\ \/ Down([host EXCEPT !.up = FALSE, !.owed = FALSE])
     \/ Faults /\ UNCHANGED <<host, vms, active, busy, shown>>
  /\ pc' = "booting"
  /\ UNCHANGED <<quarantined, missed, pending, mode, next, idle, cur, waiting, outcome>>

\* A mutant: the old boot is taken for the new one.
SeeBootStale ==
  /\ pc = "booting"
  /\ host.up /\ vms = Workers
  /\ pc' = "register"
  /\ UNCHANGED <<tcVars, hostVars, mode, next, idle, cur, waiting, outcome>>

\* A new boot, every slot running. Changed workerIds fail: see Raise.
SeeBoot ==
  /\ pc = "booting"
  /\ booted /\ host.up /\ vms = Workers
  /\ pc' = "register"
  /\ UNCHANGED <<tcVars, hostVars, mode, next, idle, cur, waiting, outcome>>

\* A mutant: the first worker to check in is enough.
RegisterPollAny ==
  /\ pc = "register"
  /\ waiting' = waiting \ active
  /\ pc' = IF waiting' # Workers THEN "unquarantine" ELSE pc
  /\ next' = 1
  /\ UNCHANGED <<tcVars, hostVars, mode, idle, cur, outcome>>

\* A mutant: a worker in quarantine is taken for one that has not checked in.
RegisterPollServing ==
  /\ pc = "register"
  /\ waiting' = waiting \ (active \ quarantined)
  /\ pc' = IF waiting' = {} THEN "unquarantine" ELSE pc
  /\ next' = 1
  /\ UNCHANGED <<tcVars, hostVars, mode, idle, cur, outcome>>

RegisterPoll ==
  /\ pc = "register"
  /\ waiting' = waiting \ active
  /\ pc' = IF waiting' = {} THEN "unquarantine" ELSE pc
  /\ next' = 1
  /\ UNCHANGED <<tcVars, hostVars, mode, idle, cur, outcome>>

-----------------------------------------------------------------------------
(* Back to service, verification *)

UnquarantineNext ==
  /\ pc = "unquarantine"
  /\ quarantined' = quarantined \ {next}
  /\ Advance("verify")
  /\ UNCHANGED <<busy, shown, missed, hostVars, mode, idle, cur, waiting, outcome>>

\* A pull failed, a denial was logged, or the check itself raised.
VerifyFails ==
  /\ pc = "verify"
  /\ pc' = "requarantine"
  /\ next' = 1
  /\ UNCHANGED <<tcVars, hostVars, mode, idle, cur, waiting, outcome>>

\* Every slot has reverted cleanly, or the pool was too quiet to tell.
Verify ==
  /\ pc = "verify"
  /\ pc' = "idle"
  /\ outcome' \in (IF host.up THEN {"verified"} ELSE {}) \cup {"unverified"}
  /\ UNCHANGED <<tcVars, hostVars, mode, next, idle, cur, waiting>>

\* update() raises again after the loop.
RequarantineNext ==
  /\ pc = "requarantine"
  /\ quarantined' = quarantined \cup {next}
  /\ Advance("idle")
  /\ outcome' = IF next = N THEN "failed" ELSE "none"
  /\ UNCHANGED <<busy, shown, missed, hostVars, mode, idle, cur, waiting>>

\* Every other way a step ends: a failed call, a deadline, changed workerIds.
\* While verifying, update() re-quarantines instead (VerifyFails).
Raise ==
  /\ Faults /\ pc \notin {"idle", "verify"}
  /\ Fail
  /\ UNCHANGED <<tcVars, hostVars>>

Killed ==
  /\ Faults /\ pc # "idle"
  /\ pc' = "idle"
  /\ outcome' = "killed"
  /\ UNCHANGED <<tcVars, hostVars, mode, next, idle, cur, waiting>>

-----------------------------------------------------------------------------
(* Taskcluster, SimpleMDM, the host (external) *)

Claim(w) ==
  /\ w \in active \ (quarantined \cup busy)
  /\ busy' = busy \cup {w}
  /\ missed' = [missed EXCEPT ![w] = 0]
  /\ UNCHANGED <<quarantined, shown, hostVars, opVars>>

\* quarantineUntil is a week ahead; a command renews it when it starts.
Expire(w) ==
  /\ pc = "idle" /\ w \in quarantined
  /\ ~HalfDone \/ Careless
  /\ quarantined' = quarantined \ {w}
  /\ UNCHANGED <<busy, shown, missed, hostVars, opVars>>

ShowClaim(w) ==
  /\ InvisibleClaim(w)
  /\ shown' = shown \cup {w}
  /\ UNCHANGED <<quarantined, busy, missed, hostVars, opVars>>

FinishTask(w) ==
  /\ w \in busy
  /\ busy' = busy \ {w}
  /\ shown' = shown \ {w}
  /\ UNCHANGED <<quarantined, missed, hostVars, opVars>>

\* The queued command reaches the host, at a check-in or a boot: latest minor
\* version. A second command queued meanwhile finds nothing newer.
ExecuteUpdate ==
  /\ pending /\ host.up
  /\ pending' = FALSE
  /\ \E v \in {"mid", "new", "other"} \ {host.version} :
       Down([host EXCEPT !.up = FALSE, !.owed = FALSE, !.version = v])
  /\ UNCHANGED <<quarantined, missed, booted, opVars>>

Boot ==
  /\ ~host.up
  /\ host' = [host EXCEPT !.up = TRUE]
  /\ booted' = TRUE
  /\ UNCHANGED <<tcVars, pending, vms, active, opVars>>

StartVM(w) ==
  /\ host.up /\ w \notin vms
  /\ vms' = vms \cup {w}
  /\ UNCHANGED <<tcVars, host, pending, active, booted, opVars>>

\* Quarantined workers poll too.
CheckIn(w) ==
  /\ w \in vms \ active
  /\ active' = active \cup {w}
  /\ UNCHANGED <<tcVars, host, pending, vms, booted, opVars>>

-----------------------------------------------------------------------------

Step ==
  \/ QuarantineNext \/ DrainPoll \/ PostUpdate \/ SeeUpdate \/ ApplyPuppet
  \/ Reboot \/ SeeBoot \/ RegisterPoll \/ UnquarantineNext
  \/ Verify \/ VerifyFails \/ RequarantineNext

Next ==
  \/ \E m \in Modes : Start(m)
  \/ Step \/ PuppetFails \/ Raise \/ Killed
  \/ ExecuteUpdate \/ Boot
  \/ \E w \in Workers :
       \/ Claim(w) \/ ShowClaim(w) \/ FinishTask(w) \/ Expire(w)
       \/ StartVM(w) \/ CheckIn(w)

\* The deadline of the wait for a reboot that was not carried out.
NoReboot == pc = "booting" /\ host.up /\ ~booted /\ Raise

\* The command runs on; a host boots, starts its VMs and its workers poll; a
\* queued update executes; tasks show up and end.
Fairness ==
  /\ WF_vars(Step) /\ WF_vars(NoReboot) /\ WF_vars(Boot) /\ WF_vars(ExecuteUpdate)
  /\ \A w \in Workers : /\ WF_vars(ShowClaim(w)) /\ WF_vars(FinishTask(w))
                        /\ WF_vars(StartVM(w)) /\ WF_vars(CheckIn(w))

Spec == Init /\ [][Next]_vars
FairSpec == Spec /\ Fairness

-----------------------------------------------------------------------------
(* Properties *)

\* What the promises rest on: a half-done host gets a full run, and within the
\* week (not Careless); that the host is idle when it goes down, also on a claim
\* being out of sight for one of a drain's two polls at most.
Disciplined == ~Careless /\ MaxMissed <= 1

\* Below min_os twice, at it, and on a later major.
Versions == {"old", "mid", "new", "other"}
Places == {"idle", "quarantine", "drain", "update", "installing", "puppet",
           "reboot", "booting", "register", "unquarantine", "verify", "requarantine"}
Hosts == [up : BOOLEAN, version : Versions, config : {"good", "half"}, owed : BOOLEAN]

\* The type of every variable.
TypeOK ==
  /\ quarantined \subseteq Workers
  /\ busy \subseteq Workers
  /\ shown \subseteq busy
  /\ missed \in [Workers -> Nat]
  /\ host \in Hosts
  /\ pending \in BOOLEAN
  /\ vms \subseteq Workers
  /\ active \subseteq vms
  /\ pc \in Places
  /\ mode \in Modes
  /\ next \in Workers
  /\ idle \in {0, 1}
  /\ cur \in Versions
  /\ booted \in BOOLEAN
  /\ waiting \subseteq Workers
  /\ outcome \in {"none", "refused", "failed", "killed", "verified", "unverified"}

\* The host goes down (the command's reboot, or an update executing long after
\* the command that queued it ended) only with every worker held and idle.
DownOnlyHeld ==
  [][host.up /\ ~(host.up)' => quarantined = Workers /\ busy = {}]_vars

\* "A host is never left half-done and taking tasks" (tart_host.py): whatever
\* failed or was killed, with an update queued, a reboot owed, a half-applied
\* configuration or the host down, all workers are in quarantine.
NeverHalfDone == HalfDone => quarantined = Workers

\* What step_os_update accepts: the required version, or another major if the
\* host was on it already when the step read the version.
Accepted == host.version = "new" \/ (host.version = "other" /\ cur = "other")

\* A command returns a worker to service only on a host whose every worker has
\* checked in since the last reboot; a full one only on the required version, or
\* on another major that its OS step found on the host instead of bringing it.
ReleasedReady ==
  [][pc # "idle" /\ (quarantined \ quarantined') # {}
       => active = Workers /\ (mode = "full" => Accepted)]_vars

\* A command ends, by itself unless its reboot was not carried out: no wait is
\* for something only a later step brings about, whatever an earlier run left.
UpdateEnds == (pc # "idle") ~> (pc = "idle")

\* "A host that lands on another major is untested with the 15.3 guests and is
\* left quarantined": no command returns a worker to service on one.
OtherMajorHeld ==
  [][pc # "idle" /\ (quarantined \ quarantined') # {} => host.version # "other"]_vars

\* The promise to Taskcluster, see module Maintenance.
Promise == INSTANCE Maintenance WITH
  Workers <- Workers,
  serving <- Workers \ quarantined,
  busy    <- busy,
  whole   <- host.up /\ host.config = "good" /\ ~host.owed
PromiseSpec == Promise!Spec

-----------------------------------------------------------------------------
(* Why it holds: the inductive invariant *)

HeldAndIdle == quarantined = Workers /\ busy = {}

\* From the drain, or the update, to the release.
AtWork == {"update", "installing", "puppet", "reboot", "booting", "register"}

\* How far the loop of step_quarantine has come: the workers behind `next` are
\* quarantined, then all are until the release.
QuarantineInv ==
  /\ pc = "quarantine" => \A w \in Workers : w < next => w \in quarantined
  /\ pc \in {"drain"} \cup AtWork => quarantined = Workers

\* A half-done host is held, and an update is queued only below min_os.
HalfDoneInv ==
  /\ HalfDone => quarantined = Workers
  /\ pending => host.version \notin AtLeastMinOS

\* What each step leaves to the next one.
ProgressInv ==
  /\ pc \in {"puppet", "reboot", "booting", "register", "unquarantine"} =>
       ~pending /\ (mode = "full" => Accepted)
  /\ pc \in {"update", "installing"} => mode = "full"
  /\ pc # "idle" /\ mode = "puppetOnly" => ~pending
  /\ pc \in {"quarantine", "drain", "puppet"} /\ mode = "puppetOnly" => ~host.owed
  /\ pc \in {"reboot", "booting", "register", "unquarantine"} => host.config = "good"
  /\ pc \in {"reboot", "booting"} => waiting = Workers
  /\ pc = "booting" /\ (booted \/ ~host.up) => ~host.owed
  /\ pc \in {"register", "unquarantine"} => host.up /\ ~host.owed
  /\ pc = "register" => Workers \ waiting \subseteq active
  /\ pc = "unquarantine" => active = Workers

\* What every release relies on.
HeldInv == QuarantineInv /\ HalfDoneInv /\ ProgressInv

\* How far the loop of step_drain has come: the workers behind `next` are idle,
\* and the idle polls have missed a task of `next` if it has one.
DrainInv ==
  pc = "drain" =>
    /\ \A w \in Workers : w < next => w \notin busy
    /\ next \in busy => next \in shown \/ missed[next] >= idle

\* The host is worked on, and half-done, only idle.
IdleInv == DrainInv /\ (pc \in AtWork \/ HalfDone => busy = {})

\* Together they are kept by every step.
MaintInv == HeldInv /\ IdleInv
=============================================================================
