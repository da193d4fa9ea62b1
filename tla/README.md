# Specifications of relops-bootstrap

TLA+ models of the program that erases, rebuilds and returns Mozilla's CI Macs
to service, model-checked with TLC and, for the core, proved with TLAPS.

The program's worst mistakes are irreversible or silent: erasing a machine that
is running a task, putting back a half-built one, running two maintenance
commands on one machine, leaving a machine out of service with nobody knowing.
Each depends on several parties that do not wait for each other: the operator's
command, Taskcluster, SimpleMDM, the machine itself, the Hangar dashboard, the
network. Those interleavings are what the models are about.

## 1. Inventory

### Components

| component | where | state it keeps | operations |
|---|---|---|---|
| Reprovision pipeline | `orchestrator/workflow.py`, `cli.py`, `clients/taskcluster.py`, `clients/simplemdm.py` | `HostContext` of one command; the rest is in Taskcluster, SimpleMDM and the host | `run` (quarantine, drain, wipe, wait for re-enrolment, mint, escrow, wait for the sentinel, screen-recording grant, un-quarantine) and each step as a subcommand |
| Runner | `orchestrator/runner.py` | futures in flight, stop event, the loaded certificate | reset, claim, run a job, stream events, complete, drain on SIGTERM |
| Fresh-host provisioning | `workflow.py` (`provision`, `step_quarantine_on_register`), `pkg/.../m4-bootstrap.sh` | semaphore, sentinel, launchd job, one-shot ssh key | bootstrap, driver loop, watch for the registration |
| Batch runner | `orchestrator/batch.py` | roster, results per host | add-to-group then watch, exit-code classes, orphan report |
| Tart host maintenance | `orchestrator/tart_host.py` | worker ids of a host | quarantine all, drain, update, puppet, reboot, verify, re-quarantine |
| Intel builder upgrade | `orchestrator/builder_upgrade.py` | none of its own: each step looks at the host | the resumable step sequence, `already_upgraded` |
| macOS upgrade trigger | `orchestrator/data/macos-upgrade.sh` | credential file, trigger, plist | stage, arm, fire once after the reboot |
| Vault broker | `broker/app` | one token bucket per certificate serial | `get_secret`: authenticate, limit, check the role, read |
| SimpleMDM groups | `workflow.py`, `clients/simplemdm.py` | assignment groups | add device, push apps, parity and package audits |
| SSH identity cache | `orchestrator/clients/ssh.py` | path of the materialised key | materialise, revalidate |
| Agents | `tart_health_agent.py`, `screen_agent.py`, `sbom_agent.py` | last sweep | read-only collection |
| Scripts, Terraform, MDM profiles, configuration, UI | `scripts/`, `terraform/`, `mdm/` | - | run once or declarative |

### How they interact

    Hangar --queued job--> runner --`reprovision run --unquarantine`--> pipeline
                            |  events, completion                        |  \
                            v                                            v   v
                          Hangar                              Taskcluster   SimpleMDM
                                                                   ^            |  erase, enrol
                                                     claim, report |            v
                                                              generic-worker on the host <-- bootstrap

* Runner to Hangar: HTTP calls that are lost, time out and are processed late.
* Runner to pipeline: one child process per job; output lines and an exit code.
* Pipeline to Taskcluster: a quarantine stops new claims, not a running task;
  `recentTasks` shows a claim only some time later.
* Pipeline to SimpleMDM: the erase is queued there and executed by the device
  at a time of its own; the visible sign is a new `enrolled_at`.
* Bootstrap to pipeline: the bootstrap waits for the SecureToken the pipeline
  mints, the pipeline waits for the sentinel the bootstrap writes.

### What is hard, and what makes each component correct

* Pipeline: checks and the erase are not atomic; status lags; a command can be
  killed at any point with an erase outstanding. Correct when a queued erase
  never meets a task, a machine is handed back only rebuilt, and a run that
  meets no failure ends.
* Runner: threads, signals, kills, lost and late calls, a certificate that
  changes under it. Correct when a machine has one command at a time, Hangar's
  record of a job agrees with what ran, a stop drains, and no job stays open.
* Fresh hosts: the bootstrap is autonomous; reboots and repeated pushes start it
  over, and the worker may register before anybody watches. Correct when it
  always gets through, and a host reported provisioned has had every step.
* Batch: two phases, pools of subprocesses, timeouts, Ctrl-C with children at
  work and adds still queued, errors between the phases. Correct when no host a
  batch put into the group is forgotten: each ends quarantined, or named as
  possibly in service. It keeps this wherever its handlers reach.
* Tart hosts and builders: a failure anywhere leaves the workers quarantined;
  a re-run resumes.
* Upgrade trigger: three files written one after the other, read and removed
  after a boot, on a host that may lose power between any two steps, or get the
  script again meanwhile. Correct when the upgrade never starts with a file left
  behind, the credential does not outlive its use, and firing again always gets
  the host upgraded.
* Broker: a bucket never grants more than burst plus refill, and never less
  than it has, whatever is collected.

PROJECT.json lists the hazards one by one with their lines.

## 2. Modules

| module | what it is |
|---|---|
| `HostService` | abstract: what the flow promises Taskcluster about one host |
| `Reprovision` | the pipeline and single-step commands on one host, with Taskcluster, SimpleMDM and the host |
| `MCReprovision` | its instances |
| `ReprovisionProofs` | its theorems |
| `JobService` | abstract: what runner and Hangar promise about jobs |
| `Runner` | the runner process, its job threads, Hangar and the network |
| `MCRunner` | its instance |
| `RunnerProofs` | its theorems |
| `Maintenance` | abstract: what a maintenance command promises about a host and its workers |
| `TartHost` | `tart-host-update` on one host with any number of VM workers |
| `MCTartHost` | its instance |
| `TartHostProofs` | its theorems |
| `BuilderUpgrade` | `builder-upgrade` on one Intel builder, re-run until it succeeds |
| `MCBuilderUpgrade` | its instances |
| `BuilderUpgradeProofs` | its theorems |
| `Custody` | abstract: what a batch promises of the hosts it sends into a bootstrap |
| `FreshHost` | factory-clean hosts: pkg, `m4-bootstrap.sh`, its driver, the worker's record, SimpleMDM's group |
| `Batch` | `batch` over those hosts: waves and solo batches, their children step by step |
| `MCBatch` | its instance |
| `BatchProofs` | its theorems |
| `OneShot` | abstract: what a staged upgrade promises of the host it is staged on |
| `UpgradeTrigger` | `macos-upgrade.sh` and its trigger on one host |
| `UpgradeTriggerProofs` | its theorems |
| `Allowance` | abstract: what a rate limit promises each key |
| `Broker` | the vault broker's `get_secret` and its token buckets |
| `BrokerProofs` | its theorems |

### Reprovision

`todo` is the set of steps the command in progress still has to take
(`run` and each subcommand is a plan, `Plan`), `Rank` their order, and a step
runs when it is the earliest left (`Due`). `ctx` is what `resolve()` found when
the command started, `idle` the drain's count of idle polls. Every step may
also fail (`Raise`): an exception leaves the pipeline there, without cleanup,
as in the code. At most one command works on the host at a time (Runner shows
the runner's side of this); operators can start any command after any other.

External, and modelled from how the code uses them: the worker records and
quarantine, task claims, `recentTasks` and per-task runs; the queued erase and
`enrolled_at`; the host's power, SecureToken, Bootstrap Token, semaphore,
sentinel and generic-worker. `missed` counts the polls that could not see the
running task: the lag of `recentTasks` measured in polls, at most `MaxMissed`.

Simplifications. A claim and a quarantine are atomic at the queue (a long poll
already being answered is Taskcluster's affair). Reading `enrolled_at` and
posting the erase are one step: a re-enrolment takes minutes. A re-enrolment
empties SimpleMDM's queue. A poll looks at every recent task, where the code
takes the latest five; the worker takes one task at a time, so the running one
is the newest. The bootstrap's own 30-minute limit on the SecureToken is one of
the ways a run fails, not a state. Only the workers of the pools `Restless` stop
by themselves.

### Runner

`main` is the main thread's place (`reset`, then `serve`, `fill`, `claim`;
`leaving` once an exception left the pool's block), `thread[j]` a job thread's
(`start`, `stream`, `report`, `done`, with the attempts made and whether it is
already in `_run_job_guarded`'s handler), `child[j]` the command's. `status` is
Hangar's record. A call either succeeds or raises an `httpx.HTTPError`
(`Dropped`), and then was lost or joins `late`, to be processed at any later
time. While `cert` is torn every call raises an error the code does not catch.
A killed or exited runner takes its commands with it, as launchd does.

Assumed of Hangar, whose code is elsewhere: it queues no second job for a host
with an unfinished one, closes only open jobs, and its reaper closes an open
job only when no thread holds it.

### TartHost

`pc` is the step of `update()`, `next` the slot its loops over `worker_ids`
have reached, so that each loop can end half-way. `host` is what the steps see
(up, version, puppet's configuration) and what they do not (`owed`, a reboot
puppet asked for). `pending` is an `update_os` command queued at SimpleMDM: it
outlives the command that posted it and executes when the host checks in or
boots. `mode` is "full" or "puppetOnly"; with `Careless` FALSE, as in the passing
run, a `--puppet-only` run is not started on a host a failed full run left
half-done, and the quarantine of such a host does not run out. A task ends with
its VM. `Raise` and `Killed` may end the command in any
step; what it had done stays.

The required version is "new"; "mid" is a minor version below it, "other"
a later major. SimpleMDM installs one of those that the host is not on. A run is
refused on "other" (`step_preflight`), and `SeeUpdate` refuses what its own
update brought when that is not "new"; but `PostUpdate` skips for every version
at or past the required one (`AtLeastMinOS`), "other" included.

Simplifications. The reads before the quarantine (`resolve`, `step_preflight`,
`step_resolve_mdm_device`, `step_resolve_workers`) are one step and a refusal
there changes nothing. The VM of a slot is reverted after each task: the
moments in which it is down are not modelled. A second queued update finds
nothing newer and merges with the first. Changed workerIds after the reboot are
one of the ways a step raises.

### BuilderUpgrade

`pc` is the step of `upgrade()`. A wait is a step of its own ("preparing",
"applying", "expanding", "login", "desktop", "register"). `host` is all the
command goes by when it is re-run: there is no other memory. What runs on
without the command is modelled beside it: `installer` (startosinstall
preparing, then applying through reboots; "broken" once its staging directory
is deleted), `daemon` (the Xcode LaunchDaemon, which runs again at every boot
while its plist is there), `session` (autologin, then a desktop, which a big
keybag prevents on macOS 15), the worker. A step of several commands
(`step_stop_worker`, `step_return`) may fail after any of them. `Start` may
follow any end of the previous run, with or without `--unquarantine`.

`MaxFaults` bounds failures, kills and installs that do not take.

Simplifications. `--dry-run` only reads. A poll of the drain is as in
Reprovision. The installer applies the upgrade for much longer than a poll
lasts, so a command waiting for the host to go down sees it down. Of the
worker config `step_verify` compares, only whether puppet has converged is
kept. A `launchctl bootout` of worker-runner that fails silently
(`check=False`) is not modelled: the semaphore is gone by then. Nor is the
end of the seven-day quarantine, or the loop of exits and reboots of a worker
without an interactive user.

### FreshHost and Batch

FreshHost is the world: which hosts are in the bootstrap group, which have an
install queued, a payload, a SecureToken, the running script, the driver, the
semaphore, the sentinel, a worker record, a quarantine. Its actions are the
host's own (`HostNext`): an install, pushed or at a check-in, boots the
entrypoint out and in and so starts a running script over; so does a reboot;
the script aborts without a SecureToken, or on a host of `Flaky`, where
something it needs is missing; the driver touches the semaphore, then writes
the sentinel and removes itself.

Batch is the orchestrator. `phase` is the parent: "add" and "watch" are the two
phases of a wave (`add-to-group --quarantine-on-register`), "solo" any other
batch, "between" what a wave does from the return of the add to the start of
the watch, "stopAdd" and "stopWatch" the interrupted phases until the report,
"quitAdd" and "quitWatch" the phases an error is leaving, "drain" the wait for
children that were already started or queued. `child[h]` is the
subprocess of a host: queued for the pool, at a step of its command (`After`
gives the order), or how it exited ("ok", "skipped" for exit code 2, "failed"
for any other and for the timeout). `recorded` is `results`. The barrier is
`WatchAdded`: the watchers start when every add has been recorded, one for each
host whose result is not "skipped". `ReportOrphans` is what is printed after an
interrupt. The ways out that no handler covers are `ResultRaises` and `Leave`
(an error of `_run_one`, raised again by `future.result()`, once the pool's
queue is empty) and `BreakOff` (a Ctrl-C or an error between the two phases, or
in the report): they add the wave's hosts to `abandoned`, a history variable. A
Ctrl-C during the wait of "quit..." is handled like any other in a phase.
`session` lists the batches the operator still starts.

Simplifications. One candidate pool: a host's record is its own. A record does
not expire and nobody lifts a quarantine meanwhile. A call that SimpleMDM or
Taskcluster still refuses after the client's retries fails its child. The
parity and package audits only read. What puppet does is one step of the driver.

### UpgradeTrigger

`script[s]` is where a process of `macos-upgrade.sh` is, `written[s]` how many
of its six writes are done (each of credential, trigger and plist is created
empty with its mode, then filled), `files` what is on disk, `trigger` where the
process launchd starts at a boot is. `Boot` ends everything and starts the
trigger if plist and trigger are complete (`Armed`). The script may be fired at
any time, also while another or a trigger is at work. Two history variables name
what then goes wrong: `torn`, a credential left by a staging that was cut off;
`crossed`, a write made under a trigger at work. Power may be lost between
any two steps, a download may end early, be corrupt, or be spoiled by a second
script writing into the same file. The mirror serves byte ranges or does not.

Simplifications. A trigger or plist that is only partly filled counts as empty.
`os-update`'s own check of the version has no effect beyond the script's, and
what it reports is left out (see the limits below). SecureToken, password and
free space are one precondition, `owner`; `Mint` provides it. A pkg that
installs leaves a usable app.

### Broker

`buckets` is `RateLimiter._buckets`, a function on the serials that have one.
`get_secret` is `async` and awaits nothing, so a request (`GetSecret`: collect,
refill, spend or refuse, then the role, then the read) is one step. `Kept` is
`_gc`, `Level` the refill, `Restart` the replacement of the instance, which
forgets the buckets. Time is counted in ticks of the refill, so that a token is
`Cost` ticks and the arithmetic is that of integers. `since` and `read` belong
to an observer who counts reads from a moment of his choosing.

Simplifications. A request that fails authentication is answered 401 before
anything else and changes no state. One instance: each has its own buckets, as
SECURITY.md says. Without the serial header the key is "unknown", which several
hosts then share; to the limiter it is a key like any other.

## 3. What is checked

| run | question | result |
|---|---|---|
| `reprovision_held` | `PendingEraseIsHeld`, `ReturnedRebuilt`, refinement of `HostService`, `NoTaskErased` also for a host in a pool the orchestrator does not know, `RunCompletes`; every failure allowed | holds |
| `reprovision_status_failure` | `NoTaskErased` when a status call can fail | violated |
| `runner_faults` | `OneRunPerHost`, `CapacityRespected`, `DrainedExit`, refinement of `JobService`, under lost and late calls, kills and restarts | holds |
| `runner_live` | `SuccessIsReal`, `StopCompletes`, `JobTerminates` under lost calls, torn certificates and a late reset | holds |
| `runner_event` | "a dropped progress line must never fail the run" | violated |
| `tart_held` | `NeverHalfDone`, `DownOnlyHeld`, `ReleasedReady`, refinement of `Maintenance`, `UpdateEnds`, both modes, failures and kills in every step | holds |
| `tart_other_major` | "A host that lands on another major [...] is left quarantined" | violated |
| `builder_held` | `InterruptedIdle`, `ReturnedUpgraded`, `NothingIsLeft`, refinement of `Maintenance`, over any number of runs; `Resumes`: re-runs end upgraded | holds |
| `builder_in_service` | "in service -- nothing to do" | violated |
| `batch_held` | `NoOneForgotten`, `ProvisionedWhole`, refinement of `Custody`, `BatchEnds`, `BootstrapFinishes`; failures, timeouts, interrupts and unhandled errors at every step | holds |
| `broker_held` | `ReadsBounded`, refinement of `Allowance`: requests, collections and restarts at any moment | holds |
| `upgrade_trigger_held` | `NothingLeftBehind`, `CredentialShortLived`, refinement of `OneShot`, `UpgradeArrives` under power loss, failures, scripts fired over each other and over a trigger | holds |

### Findings

Each is the counterexample of a run.

1. `reprovision_status_failure`: a poll skips a task whose status cannot be read
   and so answers idle; the wipe's comment promises to fail closed. Two drain
   polls and the check must all miss.
2. `runner_event`: a progress line sent while the certificate is half written
   raises an error `_event` does not catch. The job is closed as failed, its
   command runs on, and Hangar may queue the host again.
3. `tart_other_major`: a run posts the update and fails; the update executes
   while the re-run drains, and lands on another major. `step_os_update` finds a
   version past `min_os` and skips; `HOST_MAJOR` is checked at preflight, before
   that, and after an update of its own only. The workers go back to service.
4. `builder_in_service`: the semaphore stands for "in service", but
   `step_return` touches it before anything it waits for, and the quarantine is
   not looked at.

### Limits of the promises

What the assumptions `Disciplined` and `Sound` and the wording of some
properties leave out on purpose, because the code does not give it. The models
contain each behaviour; changing the constant named shows it.

* A direct `wipe` does not quarantine: between its idle answer and the erase
  the worker can claim a task (`Commands`).
* With an old record in a staging pool the whole hold is aimed at the wrong
  pool, because `find_registered_pool` takes the first record (`InitHosts`).
* The guard of a job thread reports over the same half-written certificate, and
  then nothing is reported (`CertRotates`); `JobTerminates` holds by the reaper.
* A reset that timed out may be processed after the new process has claimed
  (`Late`).
* The un-quarantine loop of the Tart update (tart_host.py:451) is outside both
  `try` blocks, and the re-quarantine (455) can fail half-way too: some workers
  then serve although the command failed, which the docstring (line 12) and the
  command's help (cli.py:453) say cannot be. The host is a finished one then
  (`NeverHalfDone`, `ReleasedReady`), only unverified. TartHost has these steps.
* A full Tart run may release a host on a later major that an earlier run's
  update brought after the preflight (finding 3): `ReleasedReady` promises the
  required version or that one.
* `--puppet-only` after a failed full run releases the Tart workers under an
  update still queued, or with a reboot puppet asked for not done; and a Tart
  quarantine ends after seven days, whatever state the host is in (`Careless`
  of TartHost). A builder's quarantine ends likewise; that is not modelled.
* A re-run of the builder upgrade deletes the staging of an installer still at
  work and starts another (`ClearCaches`); it gets there all the same.
* The builder's Xcode daemon, left behind by a killed run, survives once Xcode
  is ready and replaces the installed Xcode at every boot, also in service. This
  is why `Upgraded` counts a daemon at work for Xcode, and why `Resumes` allows,
  with a daemon left, a builder that is complete only again and again: a re-run
  that falls into that window starts over.

Batches and fresh hosts, in part from reading the code beside the model:

* The watchers of a wave start only when every add has finished (`WatchAdded`),
  so the first host added has nobody watching for as long as the slowest add
  takes.
* The report of unwatched hosts is made for `KeyboardInterrupt` inside the two
  pools only. Between them (batch.py:352-369) and for any other exception
  nothing is reported: `_report_orphans` says of silence that it "is what turned
  a Ctrl-C into 12 unheld production workers" (batch.py:389-391), and this is
  silence. `NoOneForgotten` and `Custody` name these waves (`abandoned`,
  `broken`); without the exception both fail at once. A hangup or a kill of the
  parent, and solo batches, report nothing either; a kill is not modelled.
  Leaving the add pool on
  Ctrl-C does not cancel the queued adds: they run on after the report.
* "Only 'skipped' means never added" (batch.py:352-358) is not so on a re-run: a
  host already in the group whose ssh is down exits 2 and that wave does not
  watch it. A re-run never pushes for an existing member either, while the push
  made for another host re-runs the postinstall of members in mid-bootstrap.
* The command the report prints, a solo `batch --action quarantine-on-register`,
  runs at most `batch_max_concurrent` watchers at once; RUNBOOK.md:60 says `-j`
  does not apply. Later hosts are not watched until earlier watches end.
* One ssh timeout or one Taskcluster answer other than 404 ends a watch. A
  child's timeout is shorter than the sum of the waits of a `provision`.
* A stale record in another candidate pool would be quarantined in place of the
  right one.
* `provision` grants screen recording between the sentinel and the watch, and
  the driver touches the semaphore before the sentinel; the docstring of
  `step_quarantine_on_register` (workflow.py:1507-1509) has both otherwise.

The macOS upgrade:

* Fired while the trigger is at work, a new run stages its files on a host that
  is about to be upgraded. If startosinstall reboots before the staging ends, the
  credential stays on the upgraded host and every later run is a no-op; if after,
  the trigger runs again on the upgraded host. The header says "The credential no
  longer survives the upgrade" (line 30) and that a batch "can be safely re-fired
  at stragglers" (55-56): not then. The model contains it, and the properties
  exclude it by name (`crossed`). Nothing in `os-update` or the script looks for an earlier one at work,
  although the preparation takes tens of minutes and the host answers meanwhile.
* "Short-lived by construction" (macos-upgrade.sh:231) has an exception: a
  host that goes down between creating the credential and filling the plist
  keeps it until the script is fired again. Staging the credential last would
  remove it.
* Power lost between the removal of the credential and of the plist makes the
  next boot's trigger refuse for want of a credential: safe, and a later run
  upgrades the host.
* A partial download is resumed only by a mirror that serves byte ranges, which
  Python's `http.server`, named in the script's header, does not; nothing then
  removes the partial file, and `UpgradeArrives` is stated for the other case.
* `os-update` looks for "[ERROR]" in the last five lines of a log that is only
  appended to. Five seconds after a re-run the lines of the previous failure are
  still among them, and a launched upgrade is reported as "refused to start"
  (workflow.py:1054-1066), which invites firing it once more. Overlapping
  scripts are therefore part of the run.

### Bounds, and why they are enough

* `Reprovision_held`: three pools (a staging pool, the macOS 26 and macOS 15
  production pools; the code's second staging pool behaves like the first), a
  host with a record in its own pool, alone or with old ones in the pools probed
  later, or in a pool the orchestrator does not know; two tasks (one in flight
  and one that could be claimed next), `MaxMissed` 2 (the limit the argument
  needs: three polls precede an erase), `MaxEnroll` 3 (two erasures, so that the
  effect of one command on the next is seen), failures at every step, every
  command of `HeldCommands`. Neither bare `wipe` nor `unquarantine` (the limits
  above); statuses can be read; the worker of the unknown pool does not stop by
  itself, because the gap in which it restarts is invisible to `pgrep` (see
  section 5). One host: commands on different hosts share no state.
* `Runner_faults`: three jobs, two of them for one host, a pool of two threads,
  so that jobs of both hosts overlap and a host is queued again; two starts;
  two attempts where the code has five (the first failure and the last).
* `Runner_live`: one thread, so that a claim waits for another job's end; one
  of the jobs is refused.

* `TartHost_*`: two slots, as on the hosts (each loop can stop between its first
  and last worker), `MaxMissed` 1 (the limit two drain polls allow), any number
  of commands, full and `--puppet-only`. The proofs are for every number of slots.
* `BuilderUpgrade_held`: three failures, so that a run can fail, its re-run
  fail elsewhere, and an environment fault hit the third. The sudo password is
  configured, because nothing forces the sudo package to be assigned; the
  package may still come first.
* `Batch_held`: two hosts, one of them `Flaky`, so that one can be ahead of the
  other at every step; a width of one for SimpleMDM, so that an add is still
  queued when another fails or the operator interrupts, and of two for the
  rest. Hosts arrive outside the group, or in it with an old record. A wave
  followed by a batch of watches (what the report tells the operator to do), a
  `mint`, a `provision`. Interrupts and errors are not bounded. The proofs are
  for any sequence of batches.
* `UpgradeTrigger_held`: two scripts and three faults: a staging that is cut
  off, a failure of its re-run, and one more; or a script fired over another
  or over a trigger, with power lost in between.
* `Broker_held`: two keys, a crowd of two, so that a request of either may
  collect the other's bucket or its own; a burst of two tokens of two ticks; the
  shortest idle time for which a bucket is full when collected, and twice that
  time on the clock. With an idle time of 2 the run fails, as it should.

The configurations set `CHECK_DEADLOCK FALSE`: these systems may come to rest
(no command started, no job queued, a bound reached).

### Fairness

* Reprovision: weak fairness of the command's step, of the machine and of the
  queue settling the tasks it has. The CLI is a sequential process and every
  loop in it sleeps and polls again. Starting a command, claiming a task and
  failing are never forced.
* Runner: weak fairness of the main thread, each job thread, the end of a
  command (each of the pipeline's waits has a deadline), Hangar's reaper and
  the end of a certificate rewrite. Calls may fail forever; nothing forces a
  SIGTERM, a kill or a start. That `JobTerminates` needs the reaper is itself a
  result: a lost claim or a fifth failed report is closed by nothing else until
  the runner's next start.
* TartHost: weak fairness of the command's step and of the deadline of the wait
  for a reboot that was sent unchecked, of booting, VMs starting and
  workers polling, of a queued update, of tasks showing up and ending.
* Batch: weak fairness of the parent's step, of each child's (every wait in it
  has a deadline, and `per_host_timeout` ends the child), of each host's own
  steps: installs, script, driver, worker. Interrupts, errors, failures and
  reboots are never forced.
* UpgradeTrigger: weak fairness of each script, of the trigger, of `mint`, and
  of firing the script when neither it nor the trigger is at work: the operator fires at stragglers
  until `preflight` finds the version, as the script's header invites.
* BuilderUpgrade: weak fairness of the command's step, of what the machine has
  begun (installer, boot, daemon, autologin, session, check-in), of tasks; and
  of starting the command again: `Resumes` is about an operator who follows the
  tool's own advice to re-run.

## 4. What is proved

For every value of the constants (any number of pools, tasks, jobs, hosts,
threads, attempts, restarts, keys). The inductive invariants are stated layer by
layer, each layer with what it alone needs, so that a theorem does not assume
more than its own argument uses. Each invariant was checked with TLC on the
instance of its component before it was proved; the runs list what follows
from it.

`ReprovisionProofs`. Four assumptions occur: commands release only what they
rebuilt (`ReturnCommands`) and, stronger, erase only what they hold
(`HeldCommands`); a claim stays out of at most two of the three polls and task
statuses can be read (`ClaimsShow`); the first record found is that of the pool
the host works for (`Recognised`).

* `TypeCorrect`.
* `ReturnIsRebuilt` needs `ReturnCommands` and `Recognised` only (`ReturnInv`):
  that a host is handed back rebuilt does not depend on any poll being right,
  nor on the erase having found it held. The baseline is older than
  `enrolled_at` only once the host was erased, and sentinel and Bootstrap Token
  are those of the new system (`RebuildBeforeReturn`).
* `PendingEraseHeld` needs `HeldCommands`, `ClaimsShow`, `Recognised`
  (`EraseInv`). `HoldBeforeErase` says how much has been shown at each point of
  the pipeline: after the quarantine no new claim, after k idle polls a task in
  flight has escaped k polls (`Drained`), and a third idle answer leaves none.
  It survives a killed command because a kill leaves the quarantine.
* `RunningTaskNotErased` adds the hosts nobody finds a record of, provided their
  worker does not stop by itself (`Overlooked`): `OverlookedInv` says that its
  worker is there for the `pgrep` whenever an erase is still to come.
  `reprovision_status_failure` drops the second half of `ClaimsShow`.
* `HoldInvariant` and `ImplementsHostService`, under `Disciplined`: all of these,
  on hosts that start held or live.

`RunnerProofs`, again by what each result needs:

* Nothing: `TypeCorrect`; `Capacity` (`PoolInv`: the threads at work are among
  `active`, which fits the pool); `SuccessReal` and `StartedOnce` (`OutcomeInv`:
  a job is done at Hangar, or said to be by a late report or a thread, only if
  its command ended well; a thread that has still to start its command has one
  that was never started). `StartedOnce` is about `CommandOnce`: half a
  reprovision is never run a second time unasked. These hold with certificates torn at any moment, late resets, losses, kills.
* No torn certificate (`~CertRotates`): `Drains`. `WatchInv` ties a running
  command to a thread that waits for it; a torn certificate makes a thread leave
  its command behind, which is finding 2. Late calls do not matter.
* `Sound` (nor a reset processed after it was given up): `RunnerInvariant`,
  `OneRun`, `ImplementsJobService`. `JobInv` ties a job's thread, its command and
  Hangar's record; `LateInv` says that a late report still tells the truth;
  `QueueInv` that a host has one unfinished job. One command per host follows: a
  running command's job is open.

`TartHostProofs`. `~Careless`: no `--puppet-only` run and no expiry on a host
left half-done. `Disciplined`: also, a claim out of sight for one poll at most.

* `TypeCorrect`; under `~Careless`, whatever the lag, `NeverLeftHalfDone` and
  `ReleasedUpdated` (`HeldInv`): a half-done host stays held and a released one
  is ready, on the required version or past it on a major the OS step found
  there, even if the drain was wrong about a task.
* Under `Disciplined`, `DownHeld`, `MaintInvariant`, `ImplementsMaintenance`
  (`IdleInv`: what the drain has shown of each worker, and that the host is
  worked on, and half-done, only idle).
* `HeldInv`: `QuarantineInv` says how far the loops have come, `HalfDoneInv` that
  the workers stay held for as long as anything is half-done, with or without a
  command; `ProgressInv` what each step leaves to the next. `NeverHalfDone` is
  not inductive: an update queued by a dead command is harmless only because of
  `pending => host.version \notin AtLeastMinOS`, which keeps a later full run from
  passing its own OS step while one is queued.

`BuilderUpgradeProofs`, for any number of failures, kills and re-runs.
`Disciplined`: a claim out of sight for one poll at most.

* Without it (`HeldInv`): `TypeCorrect`, `NothingLeft`, `ReturnedComplete`.
* With it (`BuilderInv`, that is `HeldInv` and `IdleInv`): `BuilderInvariant`,
  `InterruptedHeld`, `ImplementsMaintenance`.
* A re-run knows only what it finds on the host, so `HeldInv` ties that to what
  earlier runs did. `SemaphoreInv` says what the semaphore stands for on
  macOS 15, where a re-run takes it for completeness; `WorkInv` that an
  installer, also one that outlived its command, is at work only on macOS 14
  with the worker held, so that it cannot take down a builder that was
  returned; `ProgressInv` what each place has established; `ServiceInv` that a
  worker not held has a whole host under it. `IdleInv` adds what the drain shows.

`BatchProofs`, without further assumptions, for any hosts, arrivals, widths and
batches:

* `TypeCorrect`; `InvariantHolds`, `NoneForgotten`, `WholeProvision`;
  `ImplementsCustody`.
* `NoOneForgotten` speaks of the end of a batch; `InHand` says why it is true
  there: until then, a host put into the group is in the hands of a wave, with
  a child past the POST, which can no longer exit as "skipped", or with a
  watcher. The barrier hands the first kind over to the second, because
  `MaybeAdded` leaves out only "skipped". `LateAddsReported` covers the adds that
  run on after an interrupt: the report has named them before they happen.
* The hosts of a wave that broke off where no handler covers it are excepted
  (`abandoned`); what is proved is that an interrupt in a pool, a failed child or
  a timeout adds no other exception.

`UpgradeTriggerProofs`, without assumptions, for any number of scripts fired over
each other and over triggers, power losses and failures:

* `TypeCorrect`; `NothingLeft`; `ShortLived`; `ImplementsOneShot`.
* `TriggerFiles` says what the trigger has removed by each of its steps,
  `UpgradedQuiet` that an upgraded host has nothing staged and no script beyond
  its checks. `StagedFiles` is what overlapping scripts need: a file some script
  has filled is full unless another has just created it anew; so a complete
  staging with no other in between is one whose trigger starts at the boot.
* The refinement of `OneShot` needs one thing more, `Authenticated`: an attempt
  under way holds the password it read before removing the file. A trigger that
  goes on without one (a mutant) breaks it.

`BrokerProofs`:

* `TypeCorrect`, without assumptions.
* `Bounded` and `ImplementsAllowance`, when an idle bucket is full by the time it
  may be collected (`IdleIsFull`; the settings are free, and with the defaults
  10 seconds of refill stand against 600). `Debt`, what a key is short of its
  burst, is the refinement mapping: a bucket that is not there owes nothing, and
  `CollectedIsFull` says that neither did one that is collected. `ReadsOwed`
  strengthens `ReadsBounded`: what was read in a window is paid for by its time
  or still owed.

Only model-checked: liveness under fairness, which is beyond the proof system
(`RunCompletes`, `StopCompletes`, `JobTerminates`, `UpdateEnds`, `Resumes`,
`BatchEnds`, `BootstrapFinishes`, `UpgradeArrives`). Every safety property of a
passing run is a theorem.

## 5. What is not covered

* Commands outside `HeldCommands`: `run --skip-wipe --unquarantine`, or a bare
  `unquarantine`, after a run that was killed with its erase still queued, puts
  the host in service and the erase then meets a task.
* An unregistered host whose generic-worker starts between `pgrep` and the
  erase, or restarts while it looks.
* A runner whose response to a claim is not JSON: the exception ends the
  process as in `ClaimRaises`.
* A VM slot whose `config.json` cannot be read: it is missing from the workers
  the Tart maintenance holds.
* Fresh hosts one at a time (`add-to-group --quarantine-on-register`,
  `provision --no-wait`), and the batch actions `preflight`, `os-update` and
  `validate`. Expiry of a worker's record.
* What `os-update` prints, and `scripts/`, Terraform and MDM profiles, which are
  run once or declarative.
* The broker's parsing of the certificate, and its limit over several instances.
* The ssh key file and the agents: small, and next in the plan where they have
  state. The components listed as `not_modelled` in PROJECT.json are the full
  list.

## 6. Plan

What is left, in this order.

1. `os-update`'s report: the tail of the log against the runs that wrote it, as
   an extension of `UpgradeTrigger`.
2. `IdentityCache`: the materialised key file and its revalidation.
3. `Fleet`: `Runner` and `Reprovision` together, killing a command in the
   middle of a pipeline and queueing the host again.
