------------------------------- MODULE Batch --------------------------------
(***************************************************************************)
(* `reprovision batch` (orchestrator/batch.py): one parent process, a pool *)
(* of threads, one `reprovision` subprocess (child) per host, driving the  *)
(* fresh hosts of module FreshHost.                                        *)
(*   - a wave: `add-to-group --quarantine-on-register`, run as two phases, *)
(*     the add at SimpleMDM's width and then the watch of every host that  *)
(*     may have been added                                                 *)
(*   - a solo batch: `quarantine-on-register`, `provision                  *)
(*     --quarantine-on-register` or `mint`                                 *)
(* The operator may interrupt it, and a wave may break off in an error its *)
(* handlers do not expect: the hosts already in the group go on without it.*)
(***************************************************************************)
EXTENDS FreshHost, Sequences

CONSTANTS
  Concurrency,     \* -j, or batch_max_concurrent
  MdmConcurrency,  \* simplemdm_max_concurrent
  Sessions         \* the batches the operator starts, one after the other

ASSUME WidthsAssumption == Concurrency \in Nat \ {0} /\ MdmConcurrency \in Nat \ {0}

\* What a pool's children can be told to do, and the step they begin with.
First == [add |-> "resolve", watch |-> "watch", provision |-> "preflight", mint |-> "mint"]

ASSUME SessionsAssumption == Sessions \subseteq Seq(DOMAIN First)

VARIABLES
  phase,     \* what the parent is at
  job,       \* what the children of the current pool do
  child,     \* each host's child: absent, queued, at a step, or how it exited
  recorded,  \* hosts whose result is in `results`
  posted,    \* hosts a batch has put into the group
  reported,  \* hosts a batch has named as possibly in service and not held
  abandoned, \* hosts of a batch that broke off outside its handlers
  session    \* the jobs of the batches still to come

poolVars  == <<job, child, recorded>>
batchVars == <<phase, poolVars, posted, reported, abandoned, session>>
vars      == <<hostVars, batchVars>>

Phases == {"idle", "add", "between", "watch", "solo",
           "stopAdd", "stopWatch", "quitAdd", "quitWatch", "drain"}
Steps == {"resolve", "post", "push", "watch", "preflight", "mint", "escrow",
          "pkg", "sentinel", "grant"}
Outcomes == {"ok", "skipped", "failed"}

-----------------------------------------------------------------------------
(* The children *)

\* provision() and step_add_to_group(), step by step.
After ==
  [resolve |-> "post", post |-> "push", push |-> "ok", watch |-> "ok",
   preflight |-> "mint", mint |-> IF job = "mint" THEN "ok" ELSE "escrow",
   escrow |-> "pkg", pkg |-> "sentinel", sentinel |-> "grant", grant |-> "watch"]

Running == {h \in Hosts : child[h] \in Steps}
Queued  == {h \in Hosts : child[h] = "queued"}
Listed  == {h \in Hosts : child[h] # "none"}

Become(h, c) == child' = [child EXCEPT ![h] = c]

\* A step of h's child that goes on to the next step.
Passes(h, step) ==
  /\ child[h] = step
  /\ Become(h, After[step])
  /\ UNCHANGED <<phase, job, recorded, reported, abandoned, session>>

\* _resolve_mdm_device found the device and the group has apps: a member is
\* left alone, a host that is none is added.
ResolveDevice(h) ==
  /\ child[h] = "resolve"
  /\ Become(h, IF h \in group THEN "ok" ELSE "post")
  /\ UNCHANGED <<hostVars, phase, job, recorded, posted, reported, abandoned, session>>

AddToGroup(h) ==
  /\ Passes(h, "post")
  /\ Join(h)
  /\ posted' = posted \cup {h}
  /\ UNCHANGED <<installs, machineVars, tcVars>>

PushGroup(h) ==
  /\ Passes(h, "push")
  /\ PushApps
  /\ UNCHANGED <<group, machineVars, tcVars, posted>>

Preflight(h) ==
  /\ Passes(h, "preflight")
  /\ UNCHANGED <<hostVars, posted>>

Mint(h) ==
  /\ Passes(h, "mint")
  /\ GrantToken(h)
  /\ UNCHANGED <<mdmVars, escrowed, scriptVars, tcVars, posted>>

EscrowBst(h) ==
  /\ Passes(h, "escrow")
  /\ Escrow(h)
  /\ UNCHANGED <<mdmVars, token, scriptVars, tcVars, posted>>

PkgLanded(h) ==
  /\ Passes(h, "pkg")
  /\ h \in payload \cup sentinel
  /\ UNCHANGED <<hostVars, posted>>

\* A mutant: the sentinel is not waited for.
SentinelSkipped(h) == Passes(h, "sentinel") /\ UNCHANGED <<hostVars, posted>>

SentinelSeen(h) ==
  /\ Passes(h, "sentinel")
  /\ h \in sentinel
  /\ UNCHANGED <<hostVars, posted>>

Granted(h) ==
  /\ Passes(h, "grant")
  /\ UNCHANGED <<hostVars, posted>>

\* The worker has a record: quarantined on sight.
QuarantineOnRegister(h) ==
  /\ Passes(h, "watch")
  /\ Quarantine(h)
  /\ UNCHANGED <<mdmVars, machineVars, registered, posted>>

\* Exit 2: no SSH and no device of that name; wrong OS or SIP state; no pkg.
NotReady(h) ==
  /\ child[h] \in {"resolve", "preflight"} \/ (child[h] = "pkg" /\ h \notin payload)
  /\ Become(h, "skipped")
  /\ UNCHANGED <<hostVars, phase, job, recorded, posted, reported, abandoned, session>>

\* A mutant: nothing bounds a watch.
UnboundedWatch(h) ==
  /\ child[h] \in Steps \ {"watch"}
  /\ Become(h, "failed")
  /\ UNCHANGED <<hostVars, phase, job, recorded, posted, reported, abandoned, session>>

\* Exit 1, or killed after per_host_timeout: a mint may have taken effect.
ChildFails(h) ==
  /\ child[h] \in Steps
  /\ Become(h, "failed")
  /\ UNCHANGED token \/ (child[h] = "mint" /\ GrantToken(h))
  /\ UNCHANGED <<mdmVars, escrowed, scriptVars, tcVars,
                 phase, job, recorded, posted, reported, abandoned, session>>

ChildStep(h) ==
  \/ ResolveDevice(h) \/ AddToGroup(h) \/ PushGroup(h)
  \/ Preflight(h) \/ Mint(h) \/ EscrowBst(h) \/ PkgLanded(h)
  \/ SentinelSeen(h) \/ Granted(h) \/ QuarantineOnRegister(h)
  \/ NotReady(h) \/ ChildFails(h)

-----------------------------------------------------------------------------
(* The parent *)

Pool(hs) == [h \in Hosts |-> IF h \in hs THEN "queued" ELSE "none"]

Init ==
  /\ HostInit
  /\ phase = "idle"
  /\ job = "mint"
  /\ child = Pool({})
  /\ recorded = {}
  /\ posted = {} /\ reported = {} /\ abandoned = {}
  /\ session \in Sessions

\* run_batch: a wave begins with its add phase.
Start(hs) ==
  /\ phase = "idle" /\ session # <<>>
  /\ session' = Tail(session)
  /\ job' = Head(session)
  /\ phase' = IF Head(session) = "add" THEN "add" ELSE "solo"
  /\ child' = Pool(hs)
  /\ recorded' = {}
  /\ UNCHANGED <<hostVars, posted, reported, abandoned>>

\* max_workers of the pool: the add is clamped, the wave's watch takes all.
Width ==
  CASE job = "add" -> IF Concurrency < MdmConcurrency THEN Concurrency ELSE MdmConcurrency
    [] job = "watch" /\ phase \in {"watch", "stopWatch", "quitWatch"} -> Cardinality(Hosts)
    [] OTHER -> Concurrency

\* A thread of the pool takes the next host. Leaving the `with` block, and
\* the interpreter's exit, wait for the queue: nothing cancels it.
Launch(h) ==
  /\ child[h] = "queued"
  /\ Cardinality(Running) < Width
  /\ Become(h, First[job])
  /\ UNCHANGED <<hostVars, phase, job, recorded, posted, reported, abandoned, session>>

\* A child's exit reaches the as_completed loop. A failed watch is printed as
\* failed: "the host may still register later and would then be UNHELD".
Record(h) ==
  /\ phase \in {"add", "watch", "solo"}
  /\ child[h] \in Outcomes
  /\ h \notin recorded
  /\ recorded' = recorded \cup {h}
  /\ reported' = IF child[h] = "failed" /\ job \in {"watch", "provision"}
                   THEN reported \cup {h} ELSE reported
  /\ UNCHANGED <<hostVars, phase, job, child, posted, abandoned, session>>

\* A mutant: only the adds that succeeded.
OnlyAdded == {h \in Listed : child[h] = "ok"}

\* A host whose result is not "skipped" may be in the group.
MaybeAdded == {h \in Listed : ~(h \in recorded /\ child[h] = "skipped")}

AllRecorded == Listed \subseteq recorded

\* The add's run_batch returns.
AddDone ==
  /\ phase = "add" /\ AllRecorded
  /\ phase' = "between"
  /\ UNCHANGED <<hostVars, poolVars, posted, reported, abandoned, session>>

\* The barrier between the two phases: whom to watch, and the roster.
WatchAdded ==
  /\ phase = "between"
  /\ IF MaybeAdded = {}
       THEN phase' = "idle" /\ UNCHANGED poolVars
       ELSE /\ phase' = "watch"
            /\ job' = "watch"
            /\ child' = Pool(MaybeAdded)
            /\ recorded' = {}
  /\ UNCHANGED <<hostVars, posted, reported, abandoned, session>>

Summarise ==
  /\ phase \in {"watch", "solo"} /\ AllRecorded
  /\ phase' = "idle"
  /\ UNCHANGED <<hostVars, poolVars, posted, reported, abandoned, session>>

\* _run_one raised (it cannot start a child, or write or read its log), and
\* future.result() raises it again. The error leaves through the pool's block,
\* which first waits for the queue, and no handler of the wave expects it.
ResultRaises ==
  /\ phase \in {"add", "watch", "solo"}
  /\ \E h \in Listed \ recorded : child[h] \in Outcomes
  /\ phase' = [add |-> "quitAdd", watch |-> "quitWatch", solo |-> "drain"][phase]
  /\ UNCHANGED <<hostVars, poolVars, posted, reported, abandoned, session>>

\* Where a KeyboardInterrupt leads from each phase that has a pool, also from
\* the wait on the way out of an error.
Stopped == [add |-> "stopAdd", watch |-> "stopWatch", solo |-> "drain",
            quitAdd |-> "stopAdd", quitWatch |-> "stopWatch"]

\* A mutant: an interrupted child has an outcome the summary does not know.
InterruptKills ==
  /\ phase \in DOMAIN Stopped
  /\ phase' = Stopped[phase]
  /\ child' = [h \in Hosts |-> IF h \in Running THEN "killed" ELSE child[h]]
  /\ UNCHANGED <<hostVars, job, recorded, posted, reported, abandoned, session>>

\* Ctrl-C: KeyboardInterrupt in the parent, and in the children too when it
\* is the terminal's. The parent first waits for its pool.
Interrupt ==
  /\ phase \in DOMAIN Stopped
  /\ phase' = Stopped[phase]
  /\ \/ UNCHANGED child
     \/ child' = [h \in Hosts |-> IF h \in Running THEN "failed" ELSE child[h]]
  /\ UNCHANGED <<hostVars, job, recorded, posted, reported, abandoned, session>>

\* The traceback, with nobody named: an error leaves a wave once the pool is
\* done with its queue.
Leave ==
  /\ phase \in {"quitAdd", "quitWatch"}
  /\ Queued = {} /\ Running = {}
  /\ phase' = "idle"
  /\ abandoned' = abandoned \cup Listed
  /\ UNCHANGED <<hostVars, poolVars, posted, reported, session>>

\* A Ctrl-C or an error (the roster, the log directory) between the two phases,
\* which no handler covers, or in the report itself.
BreakOff ==
  /\ \/ phase = "between" /\ phase' = "idle"
     \/ phase \in {"stopAdd", "stopWatch"} /\ phase' = "drain"
  /\ abandoned' = abandoned \cup Listed
  /\ UNCHANGED <<hostVars, poolVars, posted, reported, session>>

\* A mutant: only hosts with a result are named, not those still to come.
ReportResults ==
  /\ phase \in {"stopAdd", "stopWatch"}
  /\ reported' = reported \cup {h \in recorded : child[h] # "skipped"}
  /\ phase' = "drain"
  /\ UNCHANGED <<hostVars, poolVars, posted, abandoned, session>>

\* _report_orphans, once the pool is done with its queue or a second Ctrl-C
\* breaks that wait. Only the add phase's results are looked at.
ReportOrphans ==
  /\ phase \in {"stopAdd", "stopWatch"}
  /\ reported' = reported \cup (IF phase = "stopAdd" THEN MaybeAdded ELSE Listed)
  /\ phase' = "drain"
  /\ UNCHANGED <<hostVars, poolVars, posted, abandoned, session>>

\* The parent exits when its threads have: the queue is empty by then.
Exit ==
  /\ phase = "drain" /\ Queued = {} /\ Running = {}
  /\ phase' = "idle"
  /\ UNCHANGED <<hostVars, poolVars, posted, reported, abandoned, session>>

ParentStep ==
  \/ \E h \in Hosts : Launch(h) \/ Record(h)
  \/ AddDone \/ WatchAdded \/ Summarise \/ ReportOrphans \/ Leave \/ Exit

HostStep(h) == HostNext(h) /\ UNCHANGED batchVars

Next ==
  \/ \E hs \in SUBSET Hosts \ {{}} : Start(hs)
  \/ \E h \in Hosts : ChildStep(h) \/ HostStep(h)
  \/ ParentStep \/ ResultRaises \/ Interrupt \/ BreakOff

Spec == Init /\ [][Next]_vars

\* Every child is bounded (its deadlines, per_host_timeout), and the parent
\* loops. The host goes on by itself: it checks in with SimpleMDM, launchd
\* runs the script and the driver, puppet converges.
Fairness ==
  /\ WF_vars(ParentStep)
  /\ \A h \in Hosts :
       /\ WF_vars(ChildStep(h))
       /\ WF_vars(InstallPushed(h) /\ UNCHANGED batchVars)
       /\ WF_vars(ScriptInstallsDriver(h) /\ UNCHANGED batchVars)
       /\ WF_vars(DriverStartsWorker(h) /\ UNCHANGED batchVars)
       /\ WF_vars(WorkerRegisters(h) /\ UNCHANGED batchVars)

FairSpec == Spec /\ Fairness

-----------------------------------------------------------------------------

TypeOK ==
  /\ HostTypeOK
  /\ phase \in Phases
  /\ job \in DOMAIN First
  /\ child \in [Hosts -> {"none", "queued"} \cup Steps \cup Outcomes]
  /\ recorded \subseteq Hosts
  /\ posted \subseteq Hosts /\ reported \subseteq Hosts /\ abandoned \subseteq Hosts
  /\ session \in Seq(DOMAIN First)

\* A host is accounted for when its worker is held, or its name was printed.
Accounted == quarantined \cup reported

\* No host a batch put into the bootstrap group is forgotten: once the batch
\* is over, by itself or by a Ctrl-C in one of its phases, each is quarantined in
\* Taskcluster or was named as possibly in service (batch.py,
\* _add_to_group_then_watch). The exception: the hosts of a wave that broke off
\* between its phases, in its report, or in an error that is no KeyboardInterrupt.
NoOneForgotten == phase = "idle" => posted \subseteq Accounted \cup abandoned

\* A host `provision --quarantine-on-register` reports as ok has gone through
\* all of it: SecureToken, escrow, a finished bootstrap, and it is held.
ProvisionedWhole ==
  \A h \in Hosts :
    job = "provision" /\ child[h] = "ok"
      => h \in token \cap escrowed \cap sentinel \cap quarantined

\* Every batch ends, interrupted, broken off or not: no wait of it is unbounded.
BatchEnds == (phase # "idle") ~> (phase = "idle")

\* The bootstrap is autonomous: once a host with a SecureToken has an install
\* queued or the script running, its worker registers, through reboots and
\* repeated pushes, whatever becomes of the batch (m4-bootstrap.sh).
BootstrapFinishes ==
  \A h \in Hosts \ Flaky : h \in (installs \cup script) \cap token ~> h \in registered

\* The promise to the operator, see module Custody.
Promise == INSTANCE Custody WITH
  sent <- posted, accounted <- Accounted, broken <- abandoned, open <- phase # "idle"
CustodySpec == Promise!Spec

-----------------------------------------------------------------------------
(* Why it holds: the inductive invariant *)

\* What the children do goes with what the parent is at.
JobFits ==
  /\ phase \in {"add", "between", "stopAdd", "quitAdd"} => job = "add"
  /\ phase \in {"watch", "stopWatch", "quitWatch"} => job = "watch"
  /\ phase = "solo" => job # "add"
  /\ \A h \in Hosts :
       /\ child[h] \in {"resolve", "post", "push"} => job = "add"
       /\ job = "watch" => child[h] \in {"none", "queued", "watch", "ok", "failed"}

\* A recorded child has exited, and between batches all of them have.
PoolDone ==
  /\ \A h \in recorded : child[h] \in Outcomes
  /\ phase \in {"idle", "between"} => \A h \in Hosts : child[h] \in Outcomes \cup {"none"}

\* A watch that ended ok holds its host; one that failed is printed when its
\* result is.
WatchesTell ==
  \A h \in Hosts :
    /\ child[h] = "ok" /\ job \in {"watch", "provision"} => h \in quarantined
    /\ child[h] = "failed" /\ h \in recorded /\ job = "watch" => h \in reported

\* A host put into the group and not yet accounted for is in the hands of a
\* wave that knows it: its child is past the POST (where it can no longer be
\* skipped), or it has a watcher.
InHand ==
  \A h \in posted \ (Accounted \cup abandoned) :
    /\ phase \notin {"idle", "solo", "drain"}
    /\ child[h] # "none"
    /\ job = "add" => child[h] \in {"push", "ok", "failed"}

\* An add that runs on after the parent has made its report was in the report,
\* if there was one.
LateAddsReported ==
  \A h \in Hosts :
    phase = "drain" /\ job = "add" /\ child[h] \in {"queued", "resolve", "post"}
      => h \in reported \cup abandoned

\* What a provision has done by each of its steps.
ProvisionProgress ==
  job = "provision" =>
    \A h \in Hosts :
      /\ child[h] \in {"escrow", "pkg", "sentinel", "grant", "watch", "ok"} => h \in token
      /\ child[h] \in {"pkg", "sentinel", "grant", "watch", "ok"} => h \in escrowed
      /\ child[h] \in {"grant", "watch", "ok"} => h \in sentinel

\* What every step of a batch keeps: see NoOneForgotten and ProvisionedWhole.
BatchInv ==
  JobFits /\ PoolDone /\ WatchesTell /\ InHand /\ LateAddsReported /\ ProvisionProgress
=============================================================================
