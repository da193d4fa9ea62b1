------------------------------- MODULE Runner -------------------------------
(***************************************************************************)
(* The on-network runner (orchestrator/runner.py): one process that claims *)
(* jobs Hangar has queued, runs each one's `reprovision` command in a      *)
(* thread of its pool, streams its output back and reports how it ended.   *)
(*   - the main thread: the startup reset, then _serve's claim loop        *)
(*   - a thread per claimed job: _run_job_guarded around _run_job          *)
(*   - the command, a child process that dies with the runner              *)
(*   - _ReloadingClient: a certificate caught mid-rewrite cannot be loaded *)
(*     and makes the call raise something that is not an httpx.HTTPError   *)
(*   - Hangar and the network (external): a call the runner gave up on is  *)
(*     lost, or processed at any later time.                               *)
(***************************************************************************)
EXTENDS Integers, FiniteSets

CONSTANTS
  Jobs, NoJob, Hosts,
  HostOf,         \* the host each job is for
  Rejected,       \* jobs whose hostname or action the runner refuses
  MaxConcurrent,  \* RUNNER_MAX_CONCURRENT
  Attempts,       \* how often _complete tries (5 in the code)
  NetFails,       \* may a call end in an httpx.HTTPError?
  Late,           \* calls Hangar may process after the runner gave up on them
  CertRotates,    \* is the certificate rewritten while the runner runs?
  MayDie,         \* may the process be killed (SIGKILL, reboot)?
  MaxStarts       \* bound on how often launchd starts the runner

ASSUME JobsAssumption ==
  /\ NoJob \notin Jobs
  /\ HostOf \in [Jobs -> Hosts]
  /\ Rejected \subseteq Jobs
  /\ IsFiniteSet(Jobs)
ASSUME PoolAssumption == MaxConcurrent \in Nat \ {0} /\ Attempts \in Nat \ {0}
ASSUME EnvironmentAssumption ==
  /\ {NetFails, CertRotates, MayDie} \subseteq BOOLEAN
  /\ Late \subseteq {"claim", "complete", "reset"}
  /\ MaxStarts \in Nat

VARIABLES
  status,  \* Hangar's record of each job
  late,    \* calls given up on that Hangar may still process
  main,    \* where the main thread is
  stop,    \* the event the SIGTERM handler sets
  active,  \* the main thread's set of unfinished futures
  thread,  \* each job's thread
  child,   \* each job's command: none, running, or its exit (ok, bad)
  cert,    \* can the certificate and key on disk be loaded?
  starts   \* processes started so far

hangarVars == <<status, late>>
mainVars   == <<main, stop, active, starts>>
vars       == <<status, late, main, stop, active, thread, child, cert, starts>>

-----------------------------------------------------------------------------

\* `ok`: the outcome being reported; `guarded`: in _run_job_guarded's handler.
Thread(pc, ok, tries, guarded) ==
  [pc |-> pc, ok |-> ok, tries |-> tries, guarded |-> guarded]
NoThread      == Thread("none", FALSE, 0, FALSE)
Started       == Thread("start", FALSE, 0, FALSE)
Streaming     == Thread("stream", FALSE, 0, FALSE)
Reporting(ok) == Thread("report", ok, 0, FALSE)
Crashed       == Thread("report", FALSE, 0, TRUE)
Finished      == Thread("done", FALSE, 0, FALSE)

InFlight(j) == thread[j].pc \in {"start", "stream", "report"}
Queued == {j \in Jobs : status[j] = "queued"}
Open   == {j \in Jobs : status[j] = "open"}

\* A call by the runner: names what Hangar does if it processes it.
Call(kind, j, ok) == <<kind, j, ok>>
ClaimCall == Call("claim", NoJob, FALSE)
ResetCall == Call("reset", NoJob, FALSE)

\* The HTTP call fails: the request is lost, or Hangar gets to it later.
Dropped(call) ==
  /\ NetFails /\ cert = "good"
  /\ \/ late' = late
     \/ call[1] \in Late /\ late' = late \cup {call}

\* Hangar's handlers. Only an open job can be closed.
CloseJob(j, ok) ==
  status' = IF status[j] = "open"
              THEN [status EXCEPT ![j] = IF ok THEN "succeeded" ELSE "failed"]
              ELSE status
FailOpenJobs ==
  status' = [j \in Jobs |-> IF status[j] = "open" THEN "failed" ELSE status[j]]

Init ==
  /\ status = [j \in Jobs |-> "absent"]
  /\ late = {}
  /\ main = "exited"
  /\ stop = FALSE
  /\ active = {}
  /\ thread = [j \in Jobs |-> NoThread]
  /\ child = [j \in Jobs |-> "none"]
  /\ cert = "good"
  /\ starts = 0

-----------------------------------------------------------------------------
(* main() *)

\* A fresh process: the SIGTERM handler is installed, the reset comes next.
Launch ==
  /\ main \in {"exited", "killed"} /\ starts < MaxStarts
  /\ main' = "reset"
  /\ starts' = starts + 1
  /\ stop' = FALSE
  /\ UNCHANGED <<hangarVars, active, thread, child, cert>>

Sigterm ==
  /\ main \notin {"exited", "killed"} /\ ~stop
  /\ stop' = TRUE
  /\ UNCHANGED <<hangarVars, main, active, thread, child, cert, starts>>

\* A mutant: the commands outlive the process.
VanishOrphans(how) ==
  /\ main' = how
  /\ stop' = FALSE
  /\ active' = {}
  /\ thread' = [j \in Jobs |-> NoThread]
  /\ UNCHANGED child

\* The process is gone: its threads, its futures and its children with it.
Vanish(how) ==
  /\ main' = how
  /\ stop' = FALSE
  /\ active' = {}
  /\ thread' = [j \in Jobs |-> NoThread]
  /\ child' = [j \in Jobs |-> IF child[j] = "running" THEN "bad" ELSE child[j]]

Die ==
  /\ MayDie /\ main \notin {"exited", "killed"}
  /\ Vanish("killed")
  /\ UNCHANGED <<hangarVars, cert, starts>>

ResetOk ==
  /\ main = "reset" /\ cert = "good"
  /\ FailOpenJobs
  /\ main' = "serve"
  /\ UNCHANGED <<late, stop, active, starts, thread, child, cert>>

\* Best effort: the runner serves whether or not the reset got through.
ResetFails ==
  /\ main = "reset"
  /\ Dropped(ResetCall)
  /\ main' = "serve"
  /\ UNCHANGED <<status, stop, active, starts, thread, child, cert>>

\* Not an httpx.HTTPError: main() ends before the pool exists.
ResetRaises ==
  /\ main = "reset" /\ cert = "torn"
  /\ Vanish("exited")
  /\ UNCHANGED <<hangarVars, cert, starts>>

-----------------------------------------------------------------------------
(* _serve() *)

Unreaped == {j \in active : thread[j].pc # "done"}

\* A mutant: a stopped runner returns without waiting for its jobs.
ServeReturnsAtOnce ==
  /\ main = "serve"
  /\ IF stop
       THEN Vanish("exited")
       ELSE /\ main' = "fill" /\ active' = Unreaped
            /\ UNCHANGED <<stop, thread, child>>
  /\ UNCHANGED <<hangarVars, cert, starts>>

\* A mutant: finished jobs are never reaped.
ServeWithoutReaping ==
  /\ main = "serve"
  /\ IF stop /\ active = {}
       THEN Vanish("exited")
       ELSE /\ main' = IF stop THEN "serve" ELSE "fill"
            /\ UNCHANGED <<stop, active, thread, child>>
  /\ UNCHANGED <<hangarVars, cert, starts>>

\* The head of the loop: reap; a stopped runner waits until nothing is left.
Serve ==
  /\ main = "serve"
  /\ IF stop /\ Unreaped = {}
       THEN Vanish("exited")
       ELSE /\ main' = IF stop THEN "serve" ELSE "fill"
            /\ active' = Unreaped
            /\ UNCHANGED <<stop, thread, child>>
  /\ UNCHANGED <<hangarVars, cert, starts>>

\* A mutant: claims although every slot of the pool is taken.
FillUnbounded ==
  /\ main = "fill"
  /\ main' = IF ~stop THEN "claim" ELSE "serve"
  /\ UNCHANGED <<hangarVars, stop, active, starts, thread, child, cert>>

\* Capacity and the stop flag are looked at before each claim.
Fill ==
  /\ main = "fill"
  /\ main' = IF Cardinality(active) < MaxConcurrent /\ ~stop THEN "claim" ELSE "serve"
  /\ UNCHANGED <<hangarVars, stop, active, starts, thread, child, cert>>

ClaimJob(j) ==
  /\ main = "claim" /\ cert = "good"
  /\ j \in Queued
  /\ status' = [status EXCEPT ![j] = "open"]
  /\ active' = active \cup {j}
  /\ thread' = [thread EXCEPT ![j] = Started]
  /\ main' = "fill"
  /\ UNCHANGED <<late, stop, starts, child, cert>>

ClaimNothing ==
  /\ main = "claim" /\ cert = "good"
  /\ Queued = {}
  /\ main' = "serve"
  /\ UNCHANGED <<hangarVars, stop, active, starts, thread, child, cert>>

ClaimFails ==
  /\ main = "claim"
  /\ Dropped(ClaimCall)
  /\ main' = "serve"
  /\ UNCHANGED <<status, stop, active, starts, thread, child, cert>>

\* _serve catches httpx.HTTPError only: the exception leaves the `with` block,
\* which waits for the pool's threads, and then the process.
ClaimRaises ==
  /\ main = "claim" /\ cert = "torn"
  /\ main' = "leaving"
  /\ UNCHANGED <<hangarVars, stop, active, starts, thread, child, cert>>

Leave ==
  /\ main = "leaving"
  /\ \A j \in Jobs : ~InFlight(j)
  /\ Vanish("exited")
  /\ UNCHANGED <<hangarVars, cert, starts>>

-----------------------------------------------------------------------------
(* _run_job_guarded() and _run_job() *)

Goto(j, t) == thread' = [thread EXCEPT ![j] = t]

Reject(j) ==
  /\ thread[j].pc = "start" /\ j \in Rejected
  /\ Goto(j, Reporting(FALSE))
  /\ UNCHANGED <<hangarVars, mainVars, child, cert>>

Spawn(j) ==
  /\ thread[j].pc = "start" /\ j \notin Rejected /\ cert = "good"
  /\ child' = [child EXCEPT ![j] = "running"]
  /\ Goto(j, Streaming)
  /\ UNCHANGED <<hangarVars, mainVars, cert>>

\* The CLI is missing, or Popen fails for another reason.
SpawnFails(j) ==
  /\ thread[j].pc = "start" /\ j \notin Rejected /\ cert = "good"
  /\ \E t \in {Reporting(FALSE), Crashed} : Goto(j, t)
  /\ UNCHANGED <<hangarVars, mainVars, child, cert>>

\* _event swallows an httpx.HTTPError, and nothing else.
EventRaises(j) ==
  /\ thread[j].pc \in {"start", "stream"} /\ j \notin Rejected
  /\ cert = "torn"
  /\ Goto(j, Crashed)
  /\ UNCHANGED <<hangarVars, mainVars, child, cert>>

\* A mutant: the end of the output is taken for a successful exit.
WaitSkipped(j) ==
  /\ thread[j].pc = "stream"
  /\ Goto(j, Reporting(TRUE))
  /\ UNCHANGED <<hangarVars, mainVars, child, cert>>

\* The output has ended and proc.wait() returns the exit code.
Wait(j) ==
  /\ thread[j].pc = "stream" /\ child[j] # "running"
  /\ Goto(j, Reporting(child[j] = "ok"))
  /\ UNCHANGED <<hangarVars, mainVars, child, cert>>

\* _complete, once per attempt.
Report(j) ==
  /\ thread[j].pc = "report" /\ cert = "good"
  /\ CloseJob(j, thread[j].ok)
  /\ Goto(j, Finished)
  /\ UNCHANGED <<late, mainVars, child, cert>>

\* A mutant: after the last attempt the count starts over.
ReportFailsForever(j) ==
  /\ thread[j].pc = "report"
  /\ Dropped(Call("complete", j, thread[j].ok))
  /\ thread' = [thread EXCEPT ![j].tries = (@ + 1) % Attempts]
  /\ UNCHANGED <<status, mainVars, child, cert>>

\* A mutant: one attempt too many.
ReportFailsOnceMore(j) ==
  /\ thread[j].pc = "report"
  /\ Dropped(Call("complete", j, thread[j].ok))
  /\ Goto(j, IF thread[j].tries = Attempts
               THEN Finished
               ELSE [thread[j] EXCEPT !.tries = @ + 1])
  /\ UNCHANGED <<status, mainVars, child, cert>>

\* After the last attempt the job is left as it is, with a warning.
ReportFails(j) ==
  /\ thread[j].pc = "report"
  /\ Dropped(Call("complete", j, thread[j].ok))
  /\ Goto(j, IF thread[j].tries + 1 = Attempts
               THEN Finished
               ELSE [thread[j] EXCEPT !.tries = @ + 1])
  /\ UNCHANGED <<status, mainVars, child, cert>>

\* Raised inside _run_job: the guard reports a failure instead. Raised inside
\* the guard: it ends in a future nobody looks at.
ReportRaises(j) ==
  /\ thread[j].pc = "report" /\ cert = "torn"
  /\ Goto(j, IF thread[j].guarded THEN Finished ELSE Crashed)
  /\ UNCHANGED <<hangarVars, mainVars, child, cert>>

-----------------------------------------------------------------------------
(* The command, Hangar, the network and step-ca (external) *)

ChildExits(j) ==
  /\ child[j] = "running"
  /\ \E r \in {"ok", "bad"} : child' = [child EXCEPT ![j] = r]
  /\ UNCHANGED <<hangarVars, mainVars, thread, cert>>

\* Hangar queues no second job for a host that has an unfinished one.
Enqueue(j) ==
  /\ status[j] = "absent"
  /\ \A k \in Jobs : HostOf[k] = HostOf[j] => status[k] \notin {"queued", "open"}
  /\ status' = [status EXCEPT ![j] = "queued"]
  /\ UNCHANGED <<late, mainVars, thread, child, cert>>

\* A call the runner gave up on is processed after all.
LateClaim(j) ==
  /\ ClaimCall \in late /\ j \in Queued
  /\ status' = [status EXCEPT ![j] = "open"]
  /\ late' = late \ {ClaimCall}
  /\ UNCHANGED <<mainVars, thread, child, cert>>

LateReset ==
  /\ ResetCall \in late
  /\ FailOpenJobs
  /\ late' = late \ {ResetCall}
  /\ UNCHANGED <<mainVars, thread, child, cert>>

LateReport(j, ok) ==
  /\ Call("complete", j, ok) \in late
  /\ CloseJob(j, ok)
  /\ late' = late \ {Call("complete", j, ok)}
  /\ UNCHANGED <<mainVars, thread, child, cert>>

\* The stale-job reaper: assumed to wait longer than a thread holds a job.
ReapStale(j) ==
  /\ j \in Open /\ ~InFlight(j)
  /\ status' = [status EXCEPT ![j] = "failed"]
  /\ UNCHANGED <<late, mainVars, thread, child, cert>>

\* The renewal rewrites the certificate in place.
TearCert ==
  /\ CertRotates /\ cert = "good"
  /\ cert' = "torn"
  /\ UNCHANGED <<hangarVars, mainVars, thread, child>>
MendCert ==
  /\ cert = "torn"
  /\ cert' = "good"
  /\ UNCHANGED <<hangarVars, mainVars, thread, child>>

-----------------------------------------------------------------------------

MainStep ==
  \/ ResetOk \/ ResetFails \/ ResetRaises
  \/ Serve \/ Fill \/ ClaimNothing \/ ClaimFails \/ ClaimRaises \/ Leave
  \/ \E j \in Jobs : ClaimJob(j)

JobStep(j) ==
  \/ Reject(j) \/ Spawn(j) \/ SpawnFails(j) \/ EventRaises(j) \/ Wait(j)
  \/ Report(j) \/ ReportFails(j) \/ ReportRaises(j)

HangarStep ==
  \/ LateReset
  \/ \E j \in Jobs : \/ Enqueue(j) \/ LateClaim(j) \/ ReapStale(j)
                     \/ \E ok \in BOOLEAN : LateReport(j, ok)

Next ==
  \/ Launch \/ Sigterm \/ Die
  \/ MainStep
  \/ \E j \in Jobs : JobStep(j) \/ ChildExits(j)
  \/ HangarStep
  \/ TearCert \/ MendCert

\* The process's threads run, a command ends (each of its waits has a
\* deadline), Hangar's reaper works and a renewal finishes.
Fairness ==
  /\ WF_vars(MainStep)
  /\ \A j \in Jobs : WF_vars(JobStep(j)) /\ WF_vars(ChildExits(j)) /\ WF_vars(ReapStale(j))
  /\ WF_vars(MendCert)

Spec == Init /\ [][Next]_vars
FairSpec == Spec /\ Fairness

-----------------------------------------------------------------------------
(* Properties *)

Calls == {"claim", "reset", "complete"} \X (Jobs \cup {NoJob}) \X BOOLEAN
Threads == [pc : {"none", "start", "stream", "report", "done"},
            ok : BOOLEAN, tries : 0..(Attempts - 1), guarded : BOOLEAN]

\* The type of every variable.
TypeOK ==
  /\ status \in [Jobs -> {"absent", "queued", "open", "succeeded", "failed"}]
  /\ late \subseteq Calls
  /\ main \in {"exited", "killed", "reset", "serve", "fill", "claim", "leaving"}
  /\ stop \in BOOLEAN
  /\ active \subseteq Jobs
  /\ thread \in [Jobs -> Threads]
  /\ child \in [Jobs -> {"none", "running", "ok", "bad"}]
  /\ cert \in {"good", "torn"}
  /\ starts \in Nat

\* What the promises below rest on: the certificate is never read half
\* rewritten, and a reset the runner gave up on is not processed later.
Sound == ~CertRotates /\ "reset" \notin Late

\* Two `reprovision` commands never work on the same host at once, whatever
\* is lost, late or killed: the runner never runs a command of a job Hangar
\* has closed (Hangar may then queue the host again).
OneRunPerHost ==
  \A j, k \in Jobs :
    HostOf[j] = HostOf[k] /\ child[j] = "running" /\ child[k] = "running" => j = k

\* The jobs being worked on fit the pool, so that no claimed job waits behind
\* another one for a thread.
CapacityRespected == Cardinality({j \in Jobs : InFlight(j)}) <= MaxConcurrent

\* A job is closed as a success only if its command ended well: not by a
\* report that guesses, by a late one, or by one of an earlier process.
SuccessIsReal == \A j \in Jobs : status[j] = "succeeded" => child[j] = "ok"

\* A job's command is started once at most, whatever is given up on, tried
\* again or restarted: half a reprovision is never run a second time unasked.
CommandOnce ==
  [][\A j \in Jobs : child[j] # "none" =>
       child'[j] # "none" /\ (child'[j] = "running" => child[j] = "running")]_vars

\* The runner leaves by itself only when no command is running: leaving
\* earlier would kill one in the middle of an erase or an upgrade.
DrainedExit ==
  [][main # "exited" /\ main' = "exited" => \A j \in Jobs : child[j] # "running"]_vars

\* A SIGTERM is followed by the end of the process, however the jobs in
\* flight and their reports go.
StopCompletes == stop ~> (main \in {"exited", "killed"})

\* Every job Hangar has handed out is closed in the end, by the runner, its
\* next start, or (reports and claims can be lost) the reaper.
JobTerminates ==
  \A j \in Jobs : status[j] = "open" ~> status[j] \in {"succeeded", "failed"}

\* "A dropped progress line must never fail the run" (runner.py, _event): a
\* job is failed only if its command is neither running nor ended well.
EventNeverFailsRun ==
  \A j \in Jobs : status[j] = "failed" => child[j] \notin {"running", "ok"}

\* The promise made to the operators queuing jobs, see module JobService.
Promise == INSTANCE JobService WITH
  status <- status,
  alive  <- {j \in Jobs : child[j] = "running"},
  well   <- {j \in Jobs : child[j] = "ok"}
PromiseSpec == Promise!Spec

-----------------------------------------------------------------------------
(* Why it holds: the inductive invariant *)

Terminal == {"succeeded", "failed"}
Unfinished(j) == status[j] \in {"queued", "open"}

\* The main thread's picture of its jobs: every thread at work is in `active`,
\* `active` fits the pool, and there are no threads before the first claim.
PoolInv ==
  /\ \A j \in Jobs : thread[j].pc # "none" => main \in {"serve", "fill", "claim", "leaving"}
  /\ \A j \in Jobs : InFlight(j) => j \in active
  /\ Cardinality(active) <= MaxConcurrent
  /\ main = "claim" => Cardinality(active) < MaxConcurrent

\* How a job's report comes from its command, whatever is torn or late.
OutcomeInv(j) ==
  /\ status[j] \in {"absent", "queued"} => thread[j].pc = "none" /\ child[j] = "none"
  /\ thread[j].pc = "start" => child[j] = "none"
  /\ thread[j].pc = "report" /\ thread[j].ok => child[j] = "ok"
  /\ status[j] = "succeeded" => child[j] = "ok"
  /\ Call("complete", j, TRUE) \in late => child[j] = "ok"

\* With the certificate whole, a thread stays with its command.
WatchInv ==
  /\ cert = "good"
  /\ \A j \in Jobs : child[j] = "running" => thread[j].pc = "stream"

\* What a job's thread, its command and Hangar's record say of each other.
JobInv(j) ==
  /\ child[j] = "running" => thread[j].pc = "stream"
  /\ child[j] # "none" => status[j] \in {"open"} \cup Terminal
  /\ thread[j].pc = "start" => status[j] = "open" /\ child[j] = "none"
  /\ thread[j].pc = "stream" => status[j] = "open"
  /\ thread[j].pc \in {"report", "done"} => status[j] \in {"open"} \cup Terminal
  /\ thread[j].pc = "report" /\ thread[j].ok => child[j] = "ok"
  /\ status[j] = "succeeded" => child[j] = "ok"

\* A late report tells the truth, of a job no thread will run again.
LateInv ==
  /\ ResetCall \notin late
  /\ \A j \in Jobs, ok \in BOOLEAN :
       Call("complete", j, ok) \in late =>
         /\ thread[j].pc \in {"none", "report", "done"}
         /\ status[j] \in {"open"} \cup Terminal
         /\ ok => child[j] = "ok"

\* Hangar's side: one unfinished job per host.
QueueInv ==
  \A j, k \in Jobs : HostOf[j] = HostOf[k] /\ Unfinished(j) /\ Unfinished(k) => j = k

\* Together they are kept by every step.
RunnerInv ==
  /\ cert = "good"
  /\ PoolInv
  /\ \A j \in Jobs : JobInv(j)
  /\ LateInv
  /\ QueueInv
=============================================================================
