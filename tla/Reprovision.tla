---------------------------- MODULE Reprovision ----------------------------
(***************************************************************************)
(* The `reprovision` CLI working on one Apple-silicon worker host          *)
(* (orchestrator/workflow.py), against the three systems it drives:        *)
(*   - Taskcluster: worker records per pool, quarantine, the recentTasks   *)
(*     and task statuses is_currently_busy reads (clients/taskcluster.py)  *)
(*   - SimpleMDM: the queued erase command and the device's enrolled_at    *)
(*   - the host: sshd, SecureToken, escrowed Bootstrap Token, the          *)
(*     bootstrap's semaphore and sentinel, generic-worker and its task.    *)
(* A command (one CLI invocation) is the set of pipeline steps it still    *)
(* has to take; its context is what resolve() saw when it started.         *)
(***************************************************************************)
EXTENDS Integers, Sequences

CONSTANTS
  Candidates,     \* candidate_pools(role): staging first, primary prod last
  NoPool,         \* find_registered_pool's None
  InitHosts,      \* where the host starts: [home, records, held, live]
  Tasks,          \* tasks Taskcluster may schedule on the home pool
  NoTask,
  Commands,       \* the CLI commands the operators of this instance use
  MaxMissed,      \* polls a claim can stay out of recentTasks (visibility lag)
  StatusMayFail,  \* may queue.status fail for a single task?
  Restless,       \* pools whose generic-worker may stop (crash, reboot between tasks)
  Faults,         \* may a step raise, time out or be killed?
  MaxEnroll       \* bound: no command starts once enrolled_at is this high

CandidatePools == {Candidates[i] : i \in DOMAIN Candidates}
Pools == CandidatePools \cup {i.home : i \in InitHosts}

ASSUME CandidatesAssumption ==
  /\ Candidates \in Seq(CandidatePools)
  /\ Len(Candidates) > 0
  /\ NoPool \notin Pools
ASSUME HostsAssumption ==
  \A i \in InitHosts : /\ i.records \subseteq Pools
                       /\ {i.held, i.live} \subseteq BOOLEAN
ASSUME TasksAssumption == NoTask \notin Tasks
ASSUME LagAssumption == MaxMissed \in Nat
ASSUME SwitchesAssumption ==
  {StatusMayFail, Faults} \subseteq BOOLEAN
ASSUME CommandsAssumption ==
  Commands \subseteq
    {"run", "runUnquarantine", "skipWipe", "skipWipeUnquarantine",
     "quarantine", "unquarantine", "drain", "wipe", "waitReenroll", "mint",
     "escrowBst", "waitSentinel", "screencaptureGrant"}
ASSUME EnrollAssumption == MaxEnroll \in Nat

VARIABLES
  registered,   \* pools holding a worker record for this host (getWorker finds it)
  quarantined,  \* those whose record has quarantineUntil in the future
  home,         \* the pool the host's generic-worker really works for
  recent,       \* recentTasks of the home record
  run,          \* each task's state and the worker of its latest run
  working,      \* the task the host is executing, or NoTask
  missed,       \* polls that could not see the task the host is executing
  mdm,          \* SimpleMDM: erase command queued, enrolled_at
  host,         \* the host itself
  todo,         \* steps the command in progress still has to take
  ctx,          \* its HostContext
  idle,         \* consecutive_idle of step_drain
  outcome       \* how the last command ended: "none" while one is running

tcVars   == <<registered, quarantined, home>>
taskVars == <<recent, run, working, missed>>
opVars   == <<todo, ctx, idle, outcome>>
vars     == <<registered, quarantined, home, recent, run, working, missed,
              mdm, host, todo, ctx, idle, outcome>>

-----------------------------------------------------------------------------
(* Commands and their steps *)

\* A mutant: the run waits for the sentinel before it mints the SecureToken.
RankMintLate ==
  [QUARANTINE |-> 1, DRAIN |-> 2, BST |-> 3, IDLE |-> 4, PGREP |-> 5,
   ERASE |-> 6, REENROLL |-> 7, SENTINEL |-> 8, MINT |-> 9, ESCROW |-> 10,
   GRANT |-> 11, UNQUARANTINE |-> 12]

\* The order of the pipeline.
Rank == [QUARANTINE |-> 1, DRAIN |-> 2, BST |-> 3, IDLE |-> 4, PGREP |-> 5,
         ERASE |-> 6, REENROLL |-> 7, MINT |-> 8, ESCROW |-> 9,
         SENTINEL |-> 10, GRANT |-> 11, UNQUARANTINE |-> 12]
Steps == DOMAIN Rank

\* step_wipe: an unregistered host gets one more guard (pgrep).
WipeSteps(reg) == {"BST", "IDLE", "ERASE"} \cup (IF reg THEN {} ELSE {"PGREP"})

\* reprovision(): quarantine, drain and un-quarantine only a registered host.
RunSteps(reg, wipe, unq) ==
  (IF reg THEN {"QUARANTINE", "DRAIN"} ELSE {})
    \cup (IF wipe THEN WipeSteps(reg) \cup {"REENROLL"} ELSE {})
    \cup {"MINT", "ESCROW", "SENTINEL", "GRANT"}
    \cup (IF unq /\ reg THEN {"UNQUARANTINE"} ELSE {})

\* `reprovision run` with its two flags, and the single-step subcommands.
Plan(c, reg) ==
  [run                  |-> RunSteps(reg, TRUE, FALSE),
   runUnquarantine      |-> RunSteps(reg, TRUE, TRUE),
   skipWipe             |-> RunSteps(reg, FALSE, FALSE),
   skipWipeUnquarantine |-> RunSteps(reg, FALSE, TRUE),
   quarantine           |-> {"QUARANTINE"},
   unquarantine         |-> {"UNQUARANTINE"},
   drain                |-> {"DRAIN"},
   wipe                 |-> WipeSteps(reg),
   waitReenroll         |-> {"REENROLL"},
   mint                 |-> {"MINT"},
   escrowBst            |-> {"ESCROW"},
   waitSentinel         |-> {"SENTINEL"},
   screencaptureGrant   |-> {"GRANT"}][c]

\* The step whose turn it is: the earliest one left.
Due(s) == s \in todo /\ \A r \in todo : Rank[s] <= Rank[r]

Done(s) ==
  /\ todo' = todo \ {s}
  /\ outcome' = IF todo' = {} THEN "ok" ELSE "none"

\* An exception leaves the pipeline there and then: reprovision() has no
\* cleanup, so a quarantine it set stays.
Fail ==
  /\ todo' = {}
  /\ outcome' = "error"

-----------------------------------------------------------------------------
(* resolve() and the single-step lookups *)

\* find_registered_pool: the first candidate whose getWorker is not a 404.
FirstHit(recs, i) ==
  /\ i \in DOMAIN Candidates
  /\ Candidates[i] \in recs
  /\ \A j \in 1..(i - 1) : Candidates[j] \notin recs
FirstRegistered(recs) ==
  IF \E i \in DOMAIN Candidates : FirstHit(recs, i)
    THEN Candidates[CHOOSE i \in DOMAIN Candidates : FirstHit(recs, i)]
    ELSE NoPool

\* resolve(): a host found in no pool falls back to the primary prod pool.
Resolve ==
  LET found == FirstRegistered(registered)
  IN  [pool       |-> IF found = NoPool THEN Candidates[Len(Candidates)] ELSE found,
       registered |-> found # NoPool,
       baseline   |-> 0]

NoContext == [pool |-> NoPool, registered |-> FALSE, baseline |-> 0]

FreshHost == [up |-> TRUE, token |-> FALSE, bst |-> FALSE,
              semaphore |-> FALSE, sentinel |-> FALSE, gw |-> FALSE]

\* A host that took work before: its Bootstrap Token may never have been escrowed.
LiveHosts == {[up |-> TRUE, token |-> TRUE, bst |-> b,
               semaphore |-> TRUE, sentinel |-> TRUE, gw |-> TRUE] : b \in BOOLEAN}

Init ==
  /\ \E i \in InitHosts :
       /\ home = i.home
       /\ registered = i.records
       /\ quarantined = IF i.held THEN i.records ELSE {}
       /\ host \in IF i.live THEN LiveHosts ELSE {FreshHost}
  /\ recent = {}
  /\ run = [t \in Tasks |-> [state |-> "pending", worker |-> "none"]]
  /\ working = NoTask
  /\ missed = 0
  /\ mdm = [erase |-> FALSE, enrolledAt |-> 1]
  /\ todo = {}
  /\ ctx = NoContext
  /\ idle = 0
  /\ outcome = "none"

StartCommand(c) ==
  /\ todo = {}
  /\ "ERASE" \in Plan(c, Resolve.registered) => mdm.enrolledAt < MaxEnroll
  /\ ctx' = Resolve
  /\ todo' = Plan(c, ctx'.registered)
  /\ idle' = 0
  /\ outcome' = "none"
  /\ UNCHANGED <<tcVars, taskVars, mdm, host>>

-----------------------------------------------------------------------------
(* is_currently_busy *)

InvisibleClaim == working # NoTask /\ working \notin recent

\* The lag of recentTasks, counted in polls: the answer that would exceed
\* MaxMissed comes only after the claim has become visible.
CanAnswer == ctx.pool = home /\ InvisibleClaim => missed < MaxMissed
CountMiss ==
  missed' = IF ctx.pool = home /\ InvisibleClaim THEN missed + 1 ELSE missed

\* A mutant: a run whose workerId is not populated yet is not ours.
BusyAttributed(unread) ==
  /\ ctx.pool = home /\ home \in registered
  /\ \E t \in recent \ unread :
       run[t].state # "resolved" /\ run[t].worker = "this"

\* Busy unless the record is absent (404) or every recent task whose status
\* could be read is finished or is running elsewhere. A run without a
\* workerId counts as ours.
Busy(unread) ==
  /\ ctx.pool = home /\ home \in registered
  /\ \E t \in recent \ unread :
       run[t].state # "resolved" /\ run[t].worker # "other"

\* The tasks whose queue.status call fails during one poll: skipped.
Unreadable == IF StatusMayFail THEN SUBSET recent ELSE {{}}

-----------------------------------------------------------------------------
(* Quarantine, drain, un-quarantine *)

\* A mutant: the role's prod pool is quarantined, not the one resolved.
QuarantineFallback ==
  /\ Due("QUARANTINE")
  /\ quarantined' = quarantined \cup {Candidates[Len(Candidates)]}
  /\ Done("QUARANTINE")
  /\ UNCHANGED <<registered, home, taskVars, mdm, host, ctx, idle>>

Quarantine ==
  /\ Due("QUARANTINE")
  /\ ctx.pool \in registered
  /\ quarantined' = quarantined \cup {ctx.pool}
  /\ Done("QUARANTINE")
  /\ UNCHANGED <<registered, home, taskVars, mdm, host, ctx, idle>>

Unquarantine ==
  /\ Due("UNQUARANTINE")
  /\ ctx.pool \in registered
  /\ quarantined' = quarantined \ {ctx.pool}
  /\ Done("UNQUARANTINE")
  /\ UNCHANGED <<registered, home, taskVars, mdm, host, ctx, idle>>

\* quarantineWorker answers 404 for a worker that has no record.
NoRecord ==
  /\ Due("QUARANTINE") \/ Due("UNQUARANTINE")
  /\ ctx.pool \notin registered
  /\ Fail
  /\ UNCHANGED <<tcVars, taskVars, mdm, host, ctx, idle>>

\* A mutant: one idle poll is enough.
DrainPollOnce ==
  /\ Due("DRAIN") /\ CanAnswer
  /\ CountMiss
  /\ \E unread \in Unreadable :
       /\ idle' = IF Busy(unread) THEN 0 ELSE 1
       /\ IF idle' = 1 THEN Done("DRAIN") ELSE UNCHANGED <<todo, outcome>>
  /\ UNCHANGED <<tcVars, recent, run, working, mdm, host, ctx>>

\* Two idle polls in a row end the drain; a busy one starts the count again.
DrainPoll ==
  /\ Due("DRAIN") /\ CanAnswer
  /\ CountMiss
  /\ \E unread \in Unreadable :
       /\ idle' = IF Busy(unread) THEN 0 ELSE idle + 1
       /\ IF idle' = 2 THEN Done("DRAIN") ELSE UNCHANGED <<todo, outcome>>
  /\ UNCHANGED <<tcVars, recent, run, working, mdm, host, ctx>>

-----------------------------------------------------------------------------
(* step_wipe: four guards, then the erase *)

\* profiles status, and the self-healing escrow (which needs the SecureToken).
CheckBootstrapToken ==
  /\ Due("BST")
  /\ IF host.up /\ (host.bst \/ host.token)
       THEN host' = [host EXCEPT !.bst = TRUE] /\ Done("BST")
       ELSE UNCHANGED host /\ Fail
  /\ UNCHANGED <<tcVars, taskVars, mdm, ctx, idle>>

CheckIdle ==
  /\ Due("IDLE") /\ CanAnswer
  /\ CountMiss
  /\ \E unread \in Unreadable : IF Busy(unread) THEN Fail ELSE Done("IDLE")
  /\ UNCHANGED <<tcVars, recent, run, working, mdm, host, ctx, idle>>

\* A mutant: an unregistered host is wiped without the pgrep.
CheckNoWorkerSkipped ==
  /\ Due("PGREP")
  /\ Done("PGREP")
  /\ UNCHANGED <<tcVars, taskVars, mdm, host, ctx, idle>>

\* pgrep must exit 1: no generic-worker, over a working ssh.
CheckNoWorker ==
  /\ Due("PGREP")
  /\ IF host.up /\ ~host.gw THEN Done("PGREP") ELSE Fail
  /\ UNCHANGED <<tcVars, taskVars, mdm, host, ctx, idle>>

\* The baseline is read and the erase posted in two consecutive calls: a
\* re-enrolment takes minutes and does not fit between them.
RequestErase ==
  /\ Due("ERASE")
  /\ ctx' = [ctx EXCEPT !.baseline = mdm.enrolledAt]
  /\ mdm' = [mdm EXCEPT !.erase = TRUE]
  /\ Done("ERASE")
  /\ UNCHANGED <<tcVars, taskVars, host, idle>>

\* step_wait_for_reenroll run on its own takes the present value as baseline.
CaptureBaseline ==
  /\ Due("REENROLL") /\ ctx.baseline = 0
  /\ ctx' = [ctx EXCEPT !.baseline = mdm.enrolledAt]
  /\ UNCHANGED <<tcVars, taskVars, mdm, host, todo, idle, outcome>>

\* A mutant: the status alone decides, whatever enrolled_at says.
SeeReenrolledByStatus ==
  /\ Due("REENROLL") /\ ctx.baseline # 0
  /\ host.up
  /\ Done("REENROLL")
  /\ UNCHANGED <<tcVars, taskVars, mdm, host, ctx, idle>>

\* The device is enrolled (its status follows the erase) and enrolled_at has
\* moved since the baseline.
SeeReenrolled ==
  /\ Due("REENROLL") /\ ctx.baseline # 0
  /\ host.up /\ mdm.enrolledAt # ctx.baseline
  /\ Done("REENROLL")
  /\ UNCHANGED <<tcVars, taskVars, mdm, host, ctx, idle>>

-----------------------------------------------------------------------------
(* Rebuilding the host *)

\* The interactive login grants the first SecureToken; a no-op when ENABLED.
Mint ==
  /\ Due("MINT")
  /\ host.up
  /\ host' = [host EXCEPT !.token = TRUE]
  /\ Done("MINT")
  /\ UNCHANGED <<tcVars, taskVars, mdm, ctx, idle>>

Escrow ==
  /\ Due("ESCROW")
  /\ IF host.up /\ host.token
       THEN host' = [host EXCEPT !.bst = TRUE] /\ Done("ESCROW")
       ELSE UNCHANGED host /\ Fail
  /\ UNCHANGED <<tcVars, taskVars, mdm, ctx, idle>>

SeeSentinel ==
  /\ Due("SENTINEL")
  /\ host.up /\ host.sentinel
  /\ Done("SENTINEL")
  /\ UNCHANGED <<tcVars, taskVars, mdm, host, ctx, idle>>

\* Granted (exit 0) or skipped with a warning (exit 3); anything else raises.
GrantScreenRecording ==
  /\ Due("GRANT")
  /\ host.up
  /\ Done("GRANT")
  /\ UNCHANGED <<tcVars, taskVars, mdm, host, ctx, idle>>

\* Every other way a step ends: a failed call, a deadline, a kill.
Raise ==
  /\ Faults /\ todo # {}
  /\ Fail
  /\ UNCHANGED <<tcVars, taskVars, mdm, host, ctx, idle>>

-----------------------------------------------------------------------------
(* Taskcluster and generic-worker (external) *)

Claim(t) ==
  /\ host.up /\ host.gw /\ working = NoTask
  /\ home \in registered \ quarantined
  /\ run[t].state = "pending"
  /\ working' = t
  /\ missed' = 0
  /\ \E w \in {"none", "this"} : run' = [run EXCEPT ![t] = [state |-> "running", worker |-> w]]
  /\ UNCHANGED <<tcVars, recent, mdm, host, opVars>>

\* recentTasks catches up with the claim.
ShowClaim ==
  /\ InvisibleClaim
  /\ recent' = recent \cup {working}
  /\ UNCHANGED <<tcVars, run, working, missed, mdm, host, opVars>>

FinishTask ==
  /\ working # NoTask
  /\ run' = [run EXCEPT ![working] = [state |-> "resolved", worker |-> "this"]]
  /\ working' = NoTask
  /\ UNCHANGED <<tcVars, recent, missed, mdm, host, opVars>>

\* A task the host lost: its claim expires and another worker takes it.
RetryElsewhere(t) ==
  /\ working # t /\ run[t].state = "running" /\ run[t].worker # "other"
  /\ run' = [run EXCEPT ![t] = [state |-> "running", worker |-> "other"]]
  /\ UNCHANGED <<tcVars, recent, working, missed, mdm, host, opVars>>

StartWorker ==
  /\ host.up /\ host.semaphore /\ ~host.gw
  /\ host' = [host EXCEPT !.gw = TRUE]
  /\ registered' = registered \cup {home}
  /\ UNCHANGED <<quarantined, home, taskVars, mdm, opVars>>

\* generic-worker dies or the box reboots; a task in progress is lost.
StopWorker ==
  /\ home \in Restless /\ host.gw
  /\ host' = [host EXCEPT !.gw = FALSE]
  /\ working' = NoTask
  /\ UNCHANGED <<tcVars, recent, run, missed, mdm, opVars>>

-----------------------------------------------------------------------------
(* SimpleMDM and the host's own bootstrap (external) *)

\* The bootstrap, once the SecureToken exists: puppet converges, the driver
\* touches run-buildbot and then writes the sentinel.
TouchSemaphore ==
  /\ host.up /\ host.token /\ ~host.semaphore
  /\ host' = [host EXCEPT !.semaphore = TRUE]
  /\ UNCHANGED <<tcVars, taskVars, mdm, opVars>>

WriteSentinel ==
  /\ host.up /\ host.semaphore /\ ~host.sentinel
  /\ host' = [host EXCEPT !.sentinel = TRUE]
  /\ UNCHANGED <<tcVars, taskVars, mdm, opVars>>

\* The queued command reaches the device. DoNotObliterate: without an escrowed
\* Bootstrap Token it fails and nothing is erased.
ExecuteErase ==
  /\ mdm.erase /\ host.up
  /\ mdm' = [mdm EXCEPT !.erase = FALSE]
  /\ IF host.bst
       THEN host' = [FreshHost EXCEPT !.up = FALSE] /\ working' = NoTask
       ELSE UNCHANGED <<host, working>>
  /\ UNCHANGED <<tcVars, recent, run, missed, opVars>>

\* DEP re-enrolment: a new enrolled_at, and an empty command queue.
Reenroll ==
  /\ ~host.up
  /\ host' = FreshHost
  /\ mdm' = [erase |-> FALSE, enrolledAt |-> mdm.enrolledAt + 1]
  /\ UNCHANGED <<tcVars, taskVars, opVars>>

-----------------------------------------------------------------------------

Step ==
  \/ Quarantine \/ Unquarantine \/ NoRecord \/ DrainPoll
  \/ CheckBootstrapToken \/ CheckIdle \/ CheckNoWorker \/ RequestErase
  \/ CaptureBaseline \/ SeeReenrolled
  \/ Mint \/ Escrow \/ SeeSentinel \/ GrantScreenRecording

Cloud ==
  \/ \E t \in Tasks : RetryElsewhere(t)
  \/ ShowClaim \/ FinishTask

Machine ==
  \/ StartWorker \/ TouchSemaphore \/ WriteSentinel
  \/ ExecuteErase \/ Reenroll

Next ==
  \/ \E c \in Commands : StartCommand(c)
  \/ Step \/ Raise
  \/ \E t \in Tasks : Claim(t)
  \/ StopWorker
  \/ Cloud \/ Machine

\* The CLI process runs on, Taskcluster and the worker settle the tasks they
\* have, and a host that can make progress does. Nobody has to start a
\* command, claim a task or crash.
Fairness ==
  /\ WF_vars(Step)
  /\ WF_vars(ShowClaim) /\ WF_vars(FinishTask)
  /\ \A t \in Tasks : WF_vars(RetryElsewhere(t))
  /\ WF_vars(TouchSemaphore) /\ WF_vars(WriteSentinel)
  /\ WF_vars(ExecuteErase) /\ WF_vars(Reenroll)

Spec == Init /\ [][Next]_vars
FairSpec == Spec /\ Fairness

-----------------------------------------------------------------------------
(* Properties *)

\* The commands that erase only what they hold, and release only what they
\* rebuilt: not a bare `wipe`, nor an un-quarantine without a wipe.
HeldCommands ==
  {"run", "runUnquarantine", "skipWipe", "quarantine", "drain",
   "waitReenroll", "mint", "escrowBst", "waitSentinel", "screencaptureGrant"}

\* The commands that release only what they rebuilt.
ReturnCommands == HeldCommands \cup {"wipe"}

\* A claim is out of sight for at most two of the three polls that precede an
\* erase, and task statuses can be read.
ClaimsShow == MaxMissed <= 2 /\ ~StatusMayFail

\* The first record found is that of the pool the host works for.
Recognised(i) == FirstRegistered(i.records) = i.home

\* No candidate pool has a record of the host, which is at work without pause.
Overlooked(i) ==
  FirstRegistered(i.records) = NoPool /\ i.live /\ i.home \notin Restless

\* What the whole flow relies on.
Disciplined ==
  /\ Commands \subseteq HeldCommands
  /\ ClaimsShow
  /\ \A i \in InitHosts : Recognised(i) /\ (i.held \/ i.live)

RunStates == [state : {"pending", "running", "resolved"},
              worker : {"none", "this", "other"}]
HostStates == [up : BOOLEAN, token : BOOLEAN, bst : BOOLEAN,
               semaphore : BOOLEAN, sentinel : BOOLEAN, gw : BOOLEAN]
Contexts == [pool : Pools \cup {NoPool}, registered : BOOLEAN, baseline : Nat]

\* The type of every variable.
TypeOK ==
  /\ home \in Pools
  /\ registered \subseteq Pools
  /\ quarantined \subseteq registered
  /\ recent \subseteq Tasks
  /\ run \in [Tasks -> RunStates]
  /\ working \in Tasks \cup {NoTask}
  /\ missed \in Nat
  /\ mdm \in [erase : BOOLEAN, enrolledAt : Nat \ {0}]
  /\ host \in HostStates
  /\ todo \subseteq Steps
  /\ ctx \in Contexts
  /\ idle \in {0, 1, 2}
  /\ "DRAIN" \in todo => idle < 2
  /\ outcome \in {"none", "ok", "error"}

\* While an erase command is queued at SimpleMDM (it executes at a moment the
\* orchestrator does not choose, possibly after the command that requested it
\* was killed) the host is quarantined in the pool it works for and no task is
\* in flight on it. step_quarantine, step_drain and step_wipe's idle check
\* together are what makes this so.
PendingEraseIsHeld == mdm.erase => home \in quarantined /\ working = NoTask

\* A host is never erased while it executes a task (workflow.py, step_wipe).
NoTaskErased == [][host.up /\ ~(host.up)' => working = NoTask]_vars

\* What must hold when a host is handed back.
RebuiltSinceErase ==
  /\ 0 < ctx.baseline /\ ctx.baseline < mdm.enrolledAt
  /\ host.up /\ host.sentinel /\ host.bst
  /\ ~mdm.erase

\* The pool the host works for is taken out of quarantine only when the host
\* was erased and re-enrolled since the command's erase request, is fully
\* bootstrapped, can be erased again next time, and has no erase queued.
ReturnedRebuilt ==
  [][(home \in quarantined /\ home \notin quarantined') => RebuiltSinceErase]_vars

\* A run begun with no erase outstanding comes to its end without a deadline
\* having to break a wait: no step waits for something a later step of the same
\* run would have to provide (the bootstrap waits for the SecureToken the run
\* mints, the run waits for the bootstrap's sentinel).
RunCompletes ==
  ("QUARANTINE" \in todo /\ host.up /\ ~mdm.erase) ~> (todo = {})

\* The promise to Taskcluster, see module HostService.
Service == INSTANCE HostService WITH
  serving    <- home \in registered \ quarantined,
  busy       <- working # NoTask,
  built      <- host.sentinel,
  generation <- mdm.enrolledAt + (IF host.up THEN 0 ELSE 1)
ServiceSpec == Service!Spec

-----------------------------------------------------------------------------
(* Why it holds: the inductive invariant *)

\* k polls in a row missed the task, unless it has become visible since.
Drained(k) == working # NoTask => working \in recent \/ missed >= k

\* Every pool-scoped call goes to the pool the host works for.
RightPool ==
  /\ home \in registered
  /\ FirstRegistered(registered) = home
  /\ todo # {} => ctx.pool = home /\ ctx.registered

\* The task in progress is one a readable status shows as ours.
TaskShows ==
  working # NoTask => run[working].state = "running" /\ run[working].worker # "other"

\* How far a command that still has to erase has proved the host idle.
HoldBeforeErase ==
  "ERASE" \in todo =>
    \/ {"QUARANTINE", "DRAIN", "IDLE"} \subseteq todo /\ idle = 0
    \/ /\ home \in quarantined /\ "QUARANTINE" \notin todo
       /\ \/ {"DRAIN", "IDLE"} \subseteq todo /\ Drained(idle)
          \/ "DRAIN" \notin todo /\ "IDLE" \in todo /\ Drained(2)
          \/ "DRAIN" \notin todo /\ "IDLE" \notin todo /\ working = NoTask

\* How far a command that will un-quarantine has rebuilt the host.
RebuildBeforeReturn ==
  "UNQUARANTINE" \in todo =>
    /\ "ERASE" \in todo => "REENROLL" \in todo
    /\ "REENROLL" \in todo => {"ESCROW", "SENTINEL"} \subseteq todo
    /\ "ERASE" \notin todo /\ "REENROLL" \in todo =>
         /\ 0 < ctx.baseline /\ ctx.baseline <= mdm.enrolledAt
         /\ mdm.erase => ctx.baseline = mdm.enrolledAt
    /\ "REENROLL" \notin todo =>
         /\ 0 < ctx.baseline /\ ctx.baseline < mdm.enrolledAt
         /\ host.up /\ ~mdm.erase
         /\ "ESCROW" \notin todo => host.bst
         /\ "SENTINEL" \notin todo => host.sentinel

\* A host in service is built.
BuiltInService == home \notin quarantined => host.sentinel

\* An erased host has no sentinel.
ErasedIsBare == ~host.up => ~host.sentinel

\* What a return relies on.
ReturnInv == RightPool /\ RebuildBeforeReturn

\* What an erase relies on, besides.
EraseInv == TaskShows /\ HoldBeforeErase /\ PendingEraseIsHeld

\* A command in progress has shown the host held, idle and rebuilt as far as
\* its remaining steps need: together with PendingEraseIsHeld this is kept by
\* every step.
HoldInv ==
  /\ ReturnInv
  /\ EraseInv
  /\ BuiltInService
  /\ ErasedIsBare

\* A host nobody finds a record of is never up for an erase: its worker is
\* there to be seen by the pgrep.
OverlookedInv ==
  /\ FirstRegistered(registered) = NoPool /\ home \notin Restless
  /\ host.up /\ host.gw /\ ~mdm.erase
  /\ "ERASE" \in todo => "PGREP" \in todo
=============================================================================
