---------------------------- MODULE RunnerProofs ----------------------------
(***************************************************************************)
(* For every set of jobs and hosts, every pool size, number of attempts,   *)
(* loss, kill and restart. Whatever the certificate and late calls do: the *)
(* jobs at work fit the pool, a success is one, and a command is started   *)
(* once. With the certificate whole: the runner leaves only when drained.  *)
(* If moreover no reset is late (Sound): two commands never work on the    *)
(* same host, and Runner implements JobService.                            *)
(***************************************************************************)
EXTENDS Runner, FiniteSetTheorems, TLAPS

-----------------------------------------------------------------------------
(* Type correctness *)

LEMMA ThreadTypes ==
  /\ \A ok \in BOOLEAN : Reporting(ok) \in Threads
  /\ {NoThread, Started, Streaming, Crashed, Finished} \subseteq Threads
  BY PoolAssumption
     DEF Threads, Thread, NoThread, Started, Streaming, Reporting, Crashed, Finished

LEMMA InitType == Init => TypeOK
  <1> SUFFICES ASSUME Init PROVE TypeOK
    OBVIOUS
  <1>1. thread \in [Jobs -> Threads]
    BY ThreadTypes DEF Init
  <1>2. starts \in Nat /\ late \subseteq Calls /\ active \subseteq Jobs
    BY DEF Init
  <1>3. /\ main \in {"exited", "killed", "reset", "serve", "fill", "claim", "leaving"}
        /\ stop \in BOOLEAN /\ cert \in {"good", "torn"}
    BY DEF Init
  <1>4. /\ status \in [Jobs -> {"absent", "queued", "open", "succeeded", "failed"}]
        /\ child \in [Jobs -> {"none", "running", "ok", "bad"}]
    BY DEF Init
  <1>5. QED
    BY <1>1, <1>2, <1>3, <1>4 DEF TypeOK

LEMMA VanishType ==
  ASSUME TypeOK, NEW how \in {"exited", "killed"}, Vanish(how)
  PROVE  /\ main' = how /\ stop' \in BOOLEAN /\ active' \subseteq Jobs
         /\ thread' \in [Jobs -> Threads]
         /\ child' \in [Jobs -> {"none", "running", "ok", "bad"}]
  BY ThreadTypes DEF Vanish, TypeOK

LEMMA CloseType ==
  ASSUME TypeOK, NEW j \in Jobs, NEW ok \in BOOLEAN, CloseJob(j, ok)
  PROVE  status' \in [Jobs -> {"absent", "queued", "open", "succeeded", "failed"}]
  BY DEF CloseJob, TypeOK

LEMMA DroppedType ==
  ASSUME TypeOK, NEW call \in Calls, Dropped(call)
  PROVE  late' \subseteq Calls
  BY DEF Dropped, TypeOK

LEMMA CallTypes ==
  /\ ClaimCall \in Calls /\ ResetCall \in Calls
  /\ \A j \in Jobs, ok \in BOOLEAN : Call("complete", j, ok) \in Calls
  BY DEF ClaimCall, ResetCall, Call, Calls

LEMMA TypeStep == TypeOK /\ [Next]_vars => TypeOK'
  <1> SUFFICES ASSUME TypeOK, [Next]_vars PROVE TypeOK'
    OBVIOUS
  <1> USE DEF hangarVars, mainVars
  <1>1. CASE UNCHANGED vars
    BY <1>1 DEF vars, TypeOK
  <1>2. CASE Launch \/ Sigterm
    <2>1. starts' \in Nat
      BY <1>2 DEF Launch, Sigterm, TypeOK
    <2>2. /\ main' \in {"exited", "killed", "reset", "serve", "fill", "claim", "leaving"}
          /\ stop' \in BOOLEAN
      BY <1>2 DEF Launch, Sigterm, TypeOK
    <2>3. UNCHANGED <<status, late, active, thread, child, cert>>
      BY <1>2 DEF Launch, Sigterm
    <2>4. QED
      BY <2>1, <2>2, <2>3 DEF TypeOK
  <1>3. CASE Die
    BY <1>3, VanishType DEF Die, TypeOK
  <1>4. CASE MainStep
    <2>1. CASE ResetOk
      BY <2>1 DEF ResetOk, FailOpenJobs, TypeOK
    <2>2. CASE ResetFails
      BY <2>2, DroppedType, CallTypes DEF ResetFails, TypeOK
    <2>3. CASE ResetRaises
      BY <2>3, VanishType DEF ResetRaises, TypeOK
    <2>4. CASE Serve
      <3>1. CASE stop /\ Unreaped = {}
        BY <2>4, <3>1, VanishType DEF Serve, TypeOK
      <3>2. CASE ~(stop /\ Unreaped = {})
        BY <2>4, <3>2 DEF Serve, Unreaped, TypeOK
      <3>3. QED
        BY <3>1, <3>2
    <2>5. CASE Fill \/ ClaimNothing \/ ClaimRaises
      BY <2>5 DEF Fill, ClaimNothing, ClaimRaises, TypeOK
    <2>6. CASE ClaimFails
      BY <2>6, DroppedType, CallTypes DEF ClaimFails, TypeOK
    <2>7. CASE Leave
      BY <2>7, VanishType DEF Leave, TypeOK
    <2>8. ASSUME NEW j \in Jobs, ClaimJob(j) PROVE TypeOK'
      BY <2>8, ThreadTypes DEF ClaimJob, TypeOK
    <2>9. QED
      BY <1>4, <2>1, <2>2, <2>3, <2>4, <2>5, <2>6, <2>7, <2>8 DEF MainStep
  <1>5. ASSUME NEW j \in Jobs, JobStep(j) PROVE TypeOK'
    <2>1. CASE Reject(j) \/ EventRaises(j) \/ ReportRaises(j) \/ Wait(j)
      BY <2>1, ThreadTypes DEF Reject, EventRaises, ReportRaises, Wait, Goto, TypeOK
    <2>2. CASE Spawn(j) \/ SpawnFails(j)
      BY <2>2, ThreadTypes DEF Spawn, SpawnFails, Goto, TypeOK
    <2>3. thread[j] \in Threads
      BY DEF TypeOK
    <2>4. CASE Report(j)
      <3>1. thread[j].ok \in BOOLEAN
        BY <2>3 DEF Threads
      <3>2. QED
        BY <2>4, <3>1, CloseType, ThreadTypes DEF Report, Goto, TypeOK
    <2>5. CASE ReportFails(j)
      <3>1. thread[j].ok \in BOOLEAN /\ thread[j].tries \in 0..(Attempts - 1)
        BY <2>3 DEF Threads
      <3>2. late' \subseteq Calls
        BY <2>5, <3>1, DroppedType, CallTypes DEF ReportFails
      <3>3. thread[j].tries + 1 # Attempts =>
              [thread[j] EXCEPT !.tries = @ + 1] \in Threads
        BY <2>3, <3>1, PoolAssumption DEF Threads
      <3>4. QED
        BY <2>5, <3>2, <3>3, ThreadTypes DEF ReportFails, Goto, TypeOK
    <2>6. QED
      BY <1>5, <2>1, <2>2, <2>4, <2>5 DEF JobStep
  <1>6. ASSUME NEW j \in Jobs, ChildExits(j) PROVE TypeOK'
    BY <1>6 DEF ChildExits, TypeOK
  <1>7. CASE HangarStep
    <2>1. CASE LateReset
      BY <2>1 DEF LateReset, FailOpenJobs, TypeOK
    <2>2. ASSUME NEW j \in Jobs, Enqueue(j) \/ LateClaim(j) \/ ReapStale(j)
          PROVE  TypeOK'
      BY <2>2 DEF Enqueue, LateClaim, ReapStale, TypeOK
    <2>3. ASSUME NEW j \in Jobs, NEW ok \in BOOLEAN, LateReport(j, ok)
          PROVE  TypeOK'
      BY <2>3, CloseType DEF LateReport, TypeOK
    <2>4. QED
      BY <1>7, <2>1, <2>2, <2>3 DEF HangarStep
  <1>8. CASE TearCert \/ MendCert
    BY <1>8 DEF TearCert, MendCert, TypeOK
  <1>9. QED
    BY <1>1, <1>2, <1>3, <1>4, <1>5, <1>6, <1>7, <1>8 DEF Next

\* Every variable keeps its type.
THEOREM TypeCorrect == Spec => []TypeOK
  BY InitType, TypeStep, PTL DEF Spec

-----------------------------------------------------------------------------
(* The pool *)

LEMMA ActiveSize ==
  ASSUME TypeOK
  PROVE  /\ Cardinality(active) \in Nat
         /\ \A T \in SUBSET active : Cardinality(T) \in Nat /\ Cardinality(T) <= Cardinality(active)
         /\ \A j \in Jobs : Cardinality(active \cup {j}) <= Cardinality(active) + 1
         /\ \A j \in Jobs : Cardinality(active \cup {j}) \in Nat
         /\ Cardinality({}) = 0
  <1>1. IsFiniteSet(active)
    BY JobsAssumption, FS_Subset DEF TypeOK
  <1>2. Cardinality(active) \in Nat
    BY <1>1, FS_CardinalityType
  <1>3. \A T \in SUBSET active : Cardinality(T) \in Nat /\ Cardinality(T) <= Cardinality(active)
    BY <1>1, FS_Subset, FS_CardinalityType
  <1>4. ASSUME NEW j \in Jobs
        PROVE  /\ Cardinality(active \cup {j}) <= Cardinality(active) + 1
               /\ Cardinality(active \cup {j}) \in Nat
    <2>1. Cardinality(active \cup {j}) =
            IF j \in active THEN Cardinality(active) ELSE Cardinality(active) + 1
      BY <1>1, FS_AddElement
    <2>2. QED
      BY <1>2, <2>1
  <1>5. QED
    BY <1>2, <1>3, <1>4, FS_EmptySet

\* Which threads a step may move, and what it leaves to the pool.
PoolKept ==
  /\ UNCHANGED <<main, active>>
  /\ \A j \in Jobs : InFlight(j)' => InFlight(j)
  /\ \A j \in Jobs : thread[j].pc = "none" => thread[j].pc' = "none"

LEMMA JobStepKeepsPool ==
  ASSUME TypeOK, NEW i \in Jobs, JobStep(i)
  PROVE  PoolKept
  <1> USE DEF mainVars, InFlight, PoolKept, Goto, TypeOK
  <1>1. CASE Reject(i) \/ EventRaises(i) \/ Wait(i)
    BY <1>1 DEF Reject, EventRaises, Wait, Reporting, Crashed, Thread
  <1>2. CASE Spawn(i) \/ SpawnFails(i)
    BY <1>2 DEF Spawn, SpawnFails, Reporting, Crashed, Streaming, Thread
  <1>3. CASE Report(i) \/ ReportRaises(i)
    BY <1>3 DEF Report, ReportRaises, Crashed, Finished, Thread
  <1>4. CASE ReportFails(i)
    <2>1. thread[i] \in Threads
      OBVIOUS
    <2>2. [thread[i] EXCEPT !.tries = @ + 1].pc = thread[i].pc
      BY <2>1 DEF Threads
    <2>3. QED
      BY <1>4, <2>2 DEF ReportFails, Finished, Thread
  <1>5. QED
    BY <1>1, <1>2, <1>3, <1>4 DEF JobStep

LEMMA KeptPool ==
  ASSUME PoolInv, PoolKept
  PROVE  PoolInv'
  BY DEF PoolInv, PoolKept

LEMMA VanishPool ==
  ASSUME TypeOK, NEW how \in {"exited", "killed"}, Vanish(how)
  PROVE  PoolInv'
  <1>1. main' = how /\ active' = {} /\ \A j \in Jobs : thread'[j].pc = "none"
    BY DEF Vanish, NoThread, Thread
  <1>2. \A j \in Jobs : ~InFlight(j)'
    BY <1>1 DEF InFlight
  <1>3. Cardinality(active') = 0
    BY <1>1, FS_EmptySet
  <1>4. QED
    BY <1>1, <1>2, <1>3, PoolAssumption DEF PoolInv

LEMMA PoolStep ==
  ASSUME TypeOK, PoolInv, [Next]_vars
  PROVE  PoolInv'
  <1> USE DEF hangarVars, mainVars
  <1>1. CASE UNCHANGED vars
    BY <1>1, KeptPool DEF vars, PoolKept, InFlight
  <1>2. CASE Sigterm \/ HangarStep \/ TearCert \/ MendCert
    <2>1. UNCHANGED <<main, active, thread>>
      BY <1>2 DEF Sigterm, HangarStep, TearCert, MendCert, LateReset, Enqueue,
                  LateClaim, ReapStale, LateReport
    <2>2. QED
      BY <2>1, KeptPool DEF PoolKept, InFlight
  <1>3. CASE Launch
    BY <1>3 DEF Launch, PoolInv, InFlight
  <1>4. CASE Die
    BY <1>4, VanishPool DEF Die
  <1>5. ASSUME NEW j \in Jobs, JobStep(j) \/ ChildExits(j) PROVE PoolInv'
    <2>1. CASE JobStep(j)
      BY <2>1, JobStepKeepsPool, KeptPool
    <2>2. CASE ChildExits(j)
      BY <2>2, KeptPool DEF ChildExits, PoolKept, InFlight
    <2>3. QED
      BY <1>5, <2>1, <2>2
  <1>6. CASE MainStep
    <2>1. CASE ResetOk \/ ResetFails
      BY <2>1 DEF ResetOk, ResetFails, PoolInv, InFlight
    <2>2. CASE ResetRaises
      BY <2>2, VanishPool DEF ResetRaises
    <2>3. CASE Serve
      <3>1. CASE stop /\ Unreaped = {}
        BY <2>3, <3>1, VanishPool DEF Serve
      <3>2. CASE ~(stop /\ Unreaped = {})
        <4>1. /\ main' \in {"serve", "fill"} /\ active' = Unreaped
              /\ UNCHANGED thread
          BY <2>3, <3>2 DEF Serve
        <4>2. \A j \in Jobs : InFlight(j)' => j \in active'
          BY <4>1 DEF InFlight, Unreaped, PoolInv
        <4>3. Unreaped \in SUBSET active
          BY DEF Unreaped
        <4>4. Cardinality(active') <= MaxConcurrent
          BY <4>1, <4>3, ActiveSize, PoolAssumption DEF PoolInv
        <4>5. QED
          BY <4>1, <4>2, <4>4 DEF PoolInv
      <3>3. QED
        BY <3>1, <3>2
    <2>4. CASE Fill \/ ClaimNothing \/ ClaimFails \/ ClaimRaises
      BY <2>4 DEF Fill, ClaimNothing, ClaimFails, ClaimRaises, PoolInv, InFlight
    <2>5. CASE Leave
      BY <2>5, VanishPool DEF Leave
    <2>6. ASSUME NEW i \in Jobs, ClaimJob(i) PROVE PoolInv'
      <3>1. Cardinality(active) < MaxConcurrent /\ main' = "fill" /\ active' = active \cup {i}
        BY <2>6 DEF ClaimJob, PoolInv
      <3>2. Cardinality(active') <= MaxConcurrent
        BY <3>1, ActiveSize, PoolAssumption
      <3>3. \A j \in Jobs : InFlight(j)' => j \in active'
        BY <2>6 DEF ClaimJob, PoolInv, InFlight, TypeOK
      <3>4. QED
        BY <3>1, <3>2, <3>3 DEF PoolInv
    <2>7. QED
      BY <1>6, <2>1, <2>2, <2>3, <2>4, <2>5, <2>6 DEF MainStep
  <1>7. QED
    BY <1>1, <1>2, <1>3, <1>4, <1>5, <1>6 DEF Next

LEMMA InitPool == Init => PoolInv
  <1> SUFFICES ASSUME Init PROVE PoolInv
    OBVIOUS
  <1>1. \A j \in Jobs : thread[j].pc = "none"
    BY DEF Init, NoThread, Thread
  <1>2. QED
    BY <1>1, FS_EmptySet, PoolAssumption DEF Init, PoolInv, InFlight

\* The jobs at work fit the pool: whatever is torn, late, killed or restarted.
THEOREM Capacity == Spec => []CapacityRespected
  <1>1. TypeOK /\ PoolInv /\ [Next]_vars => PoolInv'
    BY PoolStep
  <1>2. TypeOK /\ PoolInv => CapacityRespected
    <2> SUFFICES ASSUME TypeOK, PoolInv PROVE CapacityRespected
      OBVIOUS
    <2> DEFINE A == {j \in Jobs : InFlight(j)}
    <2>1. A \in SUBSET active /\ Cardinality(active) <= MaxConcurrent
      BY DEF PoolInv
    <2>2. /\ Cardinality(active) \in Nat
          /\ Cardinality(A) \in Nat /\ Cardinality(A) <= Cardinality(active)
      BY <2>1, ActiveSize
    <2>3. Cardinality(A) <= MaxConcurrent
      BY <2>1, <2>2, PoolAssumption
    <2>4. QED
      BY <2>3 DEF CapacityRespected
  <1>3. QED
    BY <1>1, <1>2, InitPool, TypeCorrect, PTL DEF Spec

-----------------------------------------------------------------------------
(* Calls and reports *)

LEMMA CallsDiffer ==
  /\ ClaimCall # ResetCall
  /\ \A j \in Jobs, ok \in BOOLEAN :
       Call("complete", j, ok) # ClaimCall /\ Call("complete", j, ok) # ResetCall
  /\ \A j, k \in Jobs : \A b, c \in BOOLEAN :
       Call("complete", j, b) = Call("complete", k, c) => j = k /\ b = c
  BY DEF Call, ClaimCall, ResetCall

\* What _run_job reports once proc.wait() has returned.
LEMMA WaitReports ==
  ASSUME NEW j \in Jobs
  PROVE  LET t == Reporting(child[j] = "ok")
         IN  t.pc = "report" /\ (t.ok => child[j] = "ok")
  <1>1. /\ Reporting(TRUE).pc = "report" /\ Reporting(FALSE).pc = "report"
        /\ Reporting(FALSE).ok = FALSE
    BY DEF Reporting, Thread
  <1>2. CASE child[j] = "ok"
    <2>1. Reporting(child[j] = "ok") = Reporting(TRUE)
      BY <1>2 DEF Reporting, Thread
    <2>2. QED
      BY <1>1, <1>2, <2>1
  <1>3. CASE child[j] # "ok"
    <2>1. Reporting(child[j] = "ok") = Reporting(FALSE)
      BY <1>3 DEF Reporting, Thread
    <2>2. QED
      BY <1>1, <2>1
  <1>4. QED
    BY <1>2, <1>3

-----------------------------------------------------------------------------
(* Outcomes: whatever is torn, late, killed or restarted *)

Outcomes == \A j \in Jobs : OutcomeInv(j)

LEMMA InitOutcomes == Init => Outcomes
  BY DEF Init, Outcomes, OutcomeInv, NoThread, Thread

\* Hangar's record of a job moves on; a late call may have been processed.
LEMMA RecordOutcome ==
  ASSUME Outcomes, UNCHANGED <<thread, child>>,
         late' \cap {Call("complete", j, TRUE) : j \in Jobs} \subseteq late,
         \A j \in Jobs : \/ status'[j] = status[j]
                         \/ status[j] = "absent" /\ status'[j] = "queued"
                         \/ status[j] # "absent" /\ status'[j] \in {"open", "failed"}
                         \/ status'[j] = "succeeded" /\ child[j] = "ok"
  PROVE  Outcomes'
  BY DEF Outcomes, OutcomeInv

\* A call that is not a report of success is given up on.
LEMMA PlainDrop ==
  ASSUME NEW call, Dropped(call), \A j \in Jobs : call # Call("complete", j, TRUE)
  PROVE  late' \cap {Call("complete", j, TRUE) : j \in Jobs} \subseteq late
  BY DEF Dropped

\* One job's thread and command move on.
LEMMA WorkOutcome ==
  ASSUME Outcomes, NEW i \in Jobs, UNCHANGED status,
         \A j \in Jobs \ {i} : thread'[j] = thread[j] /\ child'[j] = child[j],
         OutcomeInv(i)',
         \A j \in Jobs \ {i} : Call("complete", j, TRUE) \in late' => Call("complete", j, TRUE) \in late
  PROVE  Outcomes'
  BY DEF Outcomes, OutcomeInv

LEMMA VanishOutcome ==
  ASSUME Outcomes, NEW how, Vanish(how), UNCHANGED <<status, late>>
  PROVE  Outcomes'
  <1>1. \A j \in Jobs : /\ thread'[j].pc = "none"
                        /\ child'[j] = IF child[j] = "running" THEN "bad" ELSE child[j]
    BY DEF Vanish, NoThread, Thread
  <1>2. QED
    BY <1>1 DEF Outcomes, OutcomeInv

LEMMA JobStepOutcome ==
  ASSUME TypeOK, Outcomes, NEW i \in Jobs, JobStep(i)
  PROVE  Outcomes'
  <1>0. thread[i] \in Threads /\ OutcomeInv(i)
    BY DEF TypeOK, Outcomes
  <1>1. CASE Reject(i) \/ EventRaises(i) \/ SpawnFails(i) \/ ReportRaises(i)
    <2>1. PICK t \in {Reporting(FALSE), Crashed, Finished} :
            /\ thread[i].pc # "none" /\ thread' = [thread EXCEPT ![i] = t]
            /\ UNCHANGED <<status, late, child>>
      BY <1>1 DEF Reject, EventRaises, SpawnFails, ReportRaises, Goto, hangarVars
    <2>2. thread'[i] = t /\ \A j \in Jobs \ {i} : thread'[j] = thread[j]
      BY <2>1 DEF TypeOK
    <2>3. t.pc \in {"report", "done"} /\ t.ok = FALSE
      BY DEF Reporting, Crashed, Finished, Thread
    <2>4. OutcomeInv(i)'
      BY <1>0, <2>1, <2>2, <2>3 DEF OutcomeInv
    <2>5. QED
      BY <2>1, <2>2, <2>4, WorkOutcome
  <1>2. CASE Spawn(i)
    <2>1. /\ thread[i].pc = "start" /\ thread' = [thread EXCEPT ![i] = Streaming]
          /\ child' = [child EXCEPT ![i] = "running"]
          /\ UNCHANGED <<status, late>>
      BY <1>2 DEF Spawn, Goto, hangarVars
    <2>2. /\ thread'[i].pc = "stream" /\ child'[i] = "running"
          /\ \A j \in Jobs \ {i} : thread'[j] = thread[j] /\ child'[j] = child[j]
      BY <2>1 DEF TypeOK, Streaming, Thread
    <2>3. OutcomeInv(i)'
      BY <1>0, <2>1, <2>2 DEF OutcomeInv
    <2>4. QED
      BY <2>1, <2>2, <2>3, WorkOutcome
  <1>3. CASE Wait(i)
    <2>1. /\ thread[i].pc = "stream"
          /\ thread' = [thread EXCEPT ![i] = Reporting(child[i] = "ok")]
          /\ UNCHANGED <<status, late, child>>
      BY <1>3 DEF Wait, Goto, hangarVars
    <2>2. /\ thread'[i] = Reporting(child[i] = "ok")
          /\ \A j \in Jobs \ {i} : thread'[j] = thread[j]
      BY <2>1 DEF TypeOK
    <2>3. thread'[i].pc = "report" /\ (thread'[i].ok => child[i] = "ok")
      BY <2>2, WaitReports
    <2>4. OutcomeInv(i)'
      BY <1>0, <2>1, <2>3 DEF OutcomeInv
    <2>5. QED
      BY <2>1, <2>2, <2>4, WorkOutcome
  <1>4. CASE Report(i)
    <2>1. /\ thread[i].pc = "report" /\ CloseJob(i, thread[i].ok)
          /\ thread' = [thread EXCEPT ![i] = Finished]
          /\ UNCHANGED <<late, child>>
      BY <1>4 DEF Report, Goto, hangarVars
    <2>2. thread'[i].pc = "done" /\ \A j \in Jobs \ {i} : thread'[j] = thread[j]
      BY <2>1 DEF TypeOK, Finished, Thread
    <2>3. /\ status[i] = "open" => status'[i] = IF thread[i].ok THEN "succeeded" ELSE "failed"
          /\ status[i] # "open" => status'[i] = status[i]
          /\ \A j \in Jobs \ {i} : status'[j] = status[j]
      BY <2>1 DEF CloseJob, TypeOK
    <2>4. status'[i] \in {"succeeded", "failed", status[i]} /\ (status'[i] = "succeeded" => child[i] = "ok")
      BY <1>0, <2>1, <2>3, Zenon DEF OutcomeInv
    <2>5. status[i] \notin {"absent", "queued"}
      BY <1>0, <2>1 DEF OutcomeInv
    <2>6. OutcomeInv(i)'
      BY <1>0, <2>1, <2>2, <2>4, <2>5 DEF OutcomeInv
    <2>7. \A j \in Jobs \ {i} : OutcomeInv(j)'
      BY <2>1, <2>2, <2>3 DEF Outcomes, OutcomeInv
    <2>8. QED
      BY <2>6, <2>7 DEF Outcomes
  <1>5. CASE ReportFails(i)
    <2>1. PICK t : /\ thread' = [thread EXCEPT ![i] = t]
                   /\ t = Finished \/ t = [thread[i] EXCEPT !.tries = @ + 1]
      BY <1>5 DEF ReportFails, Goto
    <2>2. thread[i].pc = "report" /\ UNCHANGED <<status, child>>
      BY <1>5 DEF ReportFails
    <2>3. thread'[i] = t /\ \A j \in Jobs \ {i} : thread'[j] = thread[j]
      BY <2>1 DEF TypeOK
    <2>4. t.pc = "done" \/ (t.pc = "report" /\ t.ok = thread[i].ok)
      BY <1>0, <2>1, <2>2 DEF Finished, Thread, Threads
    <2>5. /\ thread[i].ok \in BOOLEAN
          /\ late' = late \/ late' = late \cup {Call("complete", i, thread[i].ok)}
      BY <1>0, <1>5 DEF ReportFails, Dropped, Threads
    <2>6. OutcomeInv(i)'
      BY <1>0, <2>2, <2>3, <2>4, <2>5, CallsDiffer DEF OutcomeInv
    <2>7. \A j \in Jobs \ {i} : Call("complete", j, TRUE) \in late' => Call("complete", j, TRUE) \in late
      BY <2>5, CallsDiffer
    <2>8. QED
      BY <2>2, <2>3, <2>6, <2>7, WorkOutcome
  <1>6. QED
    BY <1>1, <1>2, <1>3, <1>4, <1>5 DEF JobStep

LEMMA HangarStepOutcome ==
  ASSUME TypeOK, Outcomes, HangarStep
  PROVE  Outcomes'
  <1>1. UNCHANGED <<thread, child>> /\ late' \subseteq late
    BY DEF HangarStep, LateReset, Enqueue, LateClaim, ReapStale, LateReport
  <1>2. CASE LateReset
    BY <1>1, <1>2, RecordOutcome DEF LateReset, FailOpenJobs
  <1>3. ASSUME NEW i \in Jobs, Enqueue(i) \/ LateClaim(i) \/ ReapStale(i) PROVE Outcomes'
    <2>1. \A j \in Jobs : \/ status'[j] = status[j]
                          \/ status[j] = "absent" /\ status'[j] = "queued"
                          \/ status[j] # "absent" /\ status'[j] \in {"open", "failed"}
      BY <1>3 DEF Enqueue, LateClaim, ReapStale, Queued, Open, TypeOK
    <2>2. QED
      BY <1>1, <2>1, RecordOutcome
  <1>4. ASSUME NEW i \in Jobs, NEW ok \in BOOLEAN, LateReport(i, ok) PROVE Outcomes'
    <2>1. CloseJob(i, ok) /\ Call("complete", i, ok) \in late
      BY <1>4 DEF LateReport
    <2>2. ok => child[i] = "ok"
      BY <2>1 DEF Outcomes, OutcomeInv
    <2>3. \A j \in Jobs : \/ status'[j] = status[j]
                          \/ status[j] # "absent" /\ status'[j] = "failed"
                          \/ status'[j] = "succeeded" /\ child[j] = "ok"
      BY <2>1, <2>2 DEF CloseJob, TypeOK
    <2>4. QED
      BY <1>1, <2>3, RecordOutcome
  <1>5. QED
    BY <1>2, <1>3, <1>4 DEF HangarStep

LEMMA MainStepOutcome ==
  ASSUME TypeOK, Outcomes, MainStep
  PROVE  Outcomes'
  <1> USE DEF hangarVars
  <1>1. CASE ResetOk
    BY <1>1, RecordOutcome DEF ResetOk, FailOpenJobs
  <1>2. CASE ResetFails \/ ClaimFails
    <2>1. late' \cap {Call("complete", j, TRUE) : j \in Jobs} \subseteq late
      BY <1>2, PlainDrop, CallsDiffer DEF ResetFails, ClaimFails
    <2>2. QED
      BY <1>2, <2>1, RecordOutcome DEF ResetFails, ClaimFails
  <1>3. CASE Serve \/ Fill \/ ClaimNothing \/ ClaimRaises
    BY <1>3, VanishOutcome, RecordOutcome DEF Serve, Fill, ClaimNothing, ClaimRaises
  <1>4. CASE ResetRaises \/ Leave
    BY <1>4, VanishOutcome DEF ResetRaises, Leave
  <1>5. ASSUME NEW i \in Jobs, ClaimJob(i) PROVE Outcomes'
    <2>1. /\ status[i] = "queued" /\ UNCHANGED <<late, child>>
          /\ \A j \in Jobs \ {i} : status'[j] = status[j] /\ thread'[j] = thread[j]
          /\ status'[i] = "open" /\ thread'[i].pc = "start"
      BY <1>5 DEF ClaimJob, Queued, TypeOK, Started, Thread
    <2>2. OutcomeInv(i)'
      BY <2>1 DEF Outcomes, OutcomeInv
    <2>3. \A j \in Jobs \ {i} : OutcomeInv(j)'
      BY <2>1 DEF Outcomes, OutcomeInv
    <2>4. QED
      BY <2>2, <2>3 DEF Outcomes
  <1>6. QED
    BY <1>1, <1>2, <1>3, <1>4, <1>5 DEF MainStep

LEMMA OutcomeStep ==
  ASSUME TypeOK, Outcomes, [Next]_vars
  PROVE  Outcomes'
  <1>1. CASE UNCHANGED vars \/ Launch \/ Sigterm \/ TearCert \/ MendCert
    BY <1>1, RecordOutcome DEF vars, Launch, Sigterm, TearCert, MendCert, hangarVars
  <1>2. CASE Die
    BY <1>2, VanishOutcome DEF Die, hangarVars
  <1>3. ASSUME NEW i \in Jobs, ChildExits(i) PROVE Outcomes'
    <2>1. /\ child[i] = "running" /\ child'[i] \in {"ok", "bad"}
          /\ \A j \in Jobs \ {i} : child'[j] = child[j]
          /\ UNCHANGED <<status, late, thread>>
      BY <1>3 DEF ChildExits, hangarVars, TypeOK
    <2>2. OutcomeInv(i)'
      BY <2>1 DEF Outcomes, OutcomeInv
    <2>3. QED
      BY <2>1, <2>2, WorkOutcome
  <1>4. QED
    BY <1>1, <1>2, <1>3, MainStepOutcome, JobStepOutcome, HangarStepOutcome DEF Next

\* Hangar never has a job for done whose command did not end well: whatever
\* certificate is torn, call lost or late, process killed.
THEOREM SuccessReal == Spec => []SuccessIsReal
  <1>1. Init => Outcomes
    BY InitOutcomes
  <1>2. TypeOK /\ Outcomes /\ [Next]_vars => Outcomes'
    BY OutcomeStep
  <1>3. Outcomes => SuccessIsReal
    BY DEF Outcomes, OutcomeInv, SuccessIsReal
  <1>4. QED
    BY <1>1, <1>2, <1>3, TypeCorrect, PTL DEF Spec

\* Who starts a command.
LEMMA OnlySpawnStarts ==
  ASSUME TypeOK, Outcomes, [Next]_vars, NEW j \in Jobs, child[j] # "none"
  PROVE  child'[j] # "none" /\ (child'[j] = "running" => child[j] = "running")
  <1>1. \/ UNCHANGED child
        \/ \E how : Vanish(how)
        \/ \E i \in Jobs : Spawn(i) \/ ChildExits(i)
    <2> USE DEF vars, Launch, Sigterm, TearCert, MendCert, Die
    <2>1. CASE MainStep
      BY <2>1 DEF MainStep, ResetOk, ResetFails, ResetRaises, Serve, Fill, ClaimJob,
                  ClaimNothing, ClaimFails, ClaimRaises, Leave
    <2>2. CASE HangarStep
      BY <2>2 DEF HangarStep, LateReset, Enqueue, LateClaim, ReapStale, LateReport
    <2>3. CASE \E i \in Jobs : JobStep(i) \/ ChildExits(i)
      BY <2>3 DEF JobStep, Reject, SpawnFails, EventRaises, Wait, Report, ReportFails, ReportRaises
    <2>4. QED
      BY <2>1, <2>2, <2>3 DEF Next
  <1>2. CASE \E how : Vanish(how)
    BY <1>2 DEF Vanish
  <1>3. ASSUME NEW i \in Jobs, Spawn(i)
        PROVE  child'[j] # "none" /\ (child'[j] = "running" => child[j] = "running")
    <2>1. thread[i].pc = "start" /\ child' = [child EXCEPT ![i] = "running"]
      BY <1>3 DEF Spawn
    <2>2. child[i] = "none"
      BY <2>1 DEF Outcomes, OutcomeInv
    <2>3. QED
      BY <2>1, <2>2 DEF TypeOK
  <1>4. ASSUME NEW i \in Jobs, ChildExits(i)
        PROVE  child'[j] # "none" /\ (child'[j] = "running" => child[j] = "running")
    BY <1>4 DEF ChildExits, TypeOK
  <1>5. QED
    BY <1>1, <1>2, <1>3, <1>4

\* A command is started once at most.
THEOREM StartedOnce == Spec => CommandOnce
  <1>1. Init => Outcomes
    BY InitOutcomes
  <1>2. TypeOK /\ Outcomes /\ [Next]_vars => Outcomes'
    BY OutcomeStep
  <1>3. TypeOK /\ Outcomes /\ [Next]_vars =>
          [\A j \in Jobs : child[j] # "none" =>
             child'[j] # "none" /\ (child'[j] = "running" => child[j] = "running")]_vars
    BY OnlySpawnStarts
  <1>4. QED
    BY <1>1, <1>2, <1>3, TypeCorrect, PTL DEF Spec, CommandOnce

-----------------------------------------------------------------------------
(* Threads and their commands, the certificate being whole *)

LEMMA CertKept ==
  ASSUME ~CertRotates, cert = "good", [Next]_vars
  PROVE  cert' = "good"
  <1>1. CASE HangarStep
    BY <1>1 DEF HangarStep, LateReset, Enqueue, LateClaim, ReapStale, LateReport
  <1>2. CASE MainStep
    BY <1>2 DEF MainStep, ResetOk, ResetFails, ResetRaises, Serve, Fill,
                ClaimJob, ClaimNothing, ClaimFails, ClaimRaises, Leave
  <1>3. ASSUME NEW i \in Jobs, JobStep(i) \/ ChildExits(i) PROVE cert' = "good"
    BY <1>3 DEF JobStep, Reject, Spawn, SpawnFails, EventRaises, Wait,
                Report, ReportFails, ReportRaises, ChildExits
  <1>4. CASE UNCHANGED vars \/ Launch \/ Sigterm \/ Die \/ TearCert \/ MendCert
    BY <1>4 DEF vars, Launch, Sigterm, Die, TearCert, MendCert
  <1>5. QED
    BY <1>1, <1>2, <1>3, <1>4 DEF Next

\* A thread leaves its command only when the command has ended.
LEMMA JobStepWatch ==
  ASSUME TypeOK, WatchInv, NEW i \in Jobs, JobStep(i)
  PROVE  \A j \in Jobs : child'[j] = "running" => thread'[j].pc = "stream"
  <1>1. CASE Spawn(i)
    BY <1>1 DEF Spawn, Goto, WatchInv, TypeOK, Streaming, Thread
  <1>2. CASE Wait(i)
    BY <1>2 DEF Wait, Goto, WatchInv, TypeOK
  <1>3. ASSUME UNCHANGED child, thread[i].pc # "stream",
               NEW t, thread' = [thread EXCEPT ![i] = t]
        PROVE  \A j \in Jobs : child'[j] = "running" => thread'[j].pc = "stream"
    BY <1>3 DEF WatchInv, TypeOK
  <1>4. CASE Reject(i) \/ SpawnFails(i) \/ Report(i) \/ ReportRaises(i)
    BY <1>3, <1>4 DEF Reject, SpawnFails, Report, ReportRaises, Goto
  <1>5. CASE ReportFails(i)
    BY <1>3, <1>5 DEF ReportFails, Goto
  <1>6. ~EventRaises(i)
    BY DEF EventRaises, WatchInv
  <1>7. QED
    BY <1>1, <1>2, <1>4, <1>5, <1>6 DEF JobStep

LEMMA WatchStep ==
  ASSUME ~CertRotates, TypeOK, Outcomes, WatchInv, [Next]_vars
  PROVE  WatchInv'
  <1>1. cert' = "good"
    BY CertKept DEF WatchInv
  <1>2. \A j \in Jobs : child'[j] = "running" => thread'[j].pc = "stream"
    <2>1. CASE \E i \in Jobs : JobStep(i)
      BY <2>1, JobStepWatch
    <2>2. CASE \E how : Vanish(how)
      BY <2>2 DEF Vanish
    <2>3. ASSUME NEW i \in Jobs, ChildExits(i)
          PROVE  \A j \in Jobs : child'[j] = "running" => thread'[j].pc = "stream"
      BY <2>3 DEF ChildExits, WatchInv, TypeOK
    <2>4. ASSUME NEW i \in Jobs, ClaimJob(i)
          PROVE  \A j \in Jobs : child'[j] = "running" => thread'[j].pc = "stream"
      <3>1. /\ child[i] = "none" /\ UNCHANGED child
            /\ \A j \in Jobs \ {i} : thread'[j] = thread[j]
        BY <2>4 DEF ClaimJob, Queued, Outcomes, OutcomeInv, TypeOK
      <3>2. QED
        BY <3>1 DEF WatchInv
    <2>5. CASE UNCHANGED <<child, thread>>
      BY <2>5 DEF WatchInv
    <2>6. \/ UNCHANGED <<child, thread>>
          \/ \E how : Vanish(how)
          \/ \E i \in Jobs : JobStep(i) \/ ChildExits(i) \/ ClaimJob(i)
      <3>1. CASE MainStep
        BY <3>1 DEF MainStep, ResetOk, ResetFails, ResetRaises, Serve, Fill,
                    ClaimNothing, ClaimFails, ClaimRaises, Leave
      <3>2. CASE HangarStep
        BY <3>2 DEF HangarStep, LateReset, Enqueue, LateClaim, ReapStale, LateReport
      <3>3. QED
        BY <3>1, <3>2 DEF Next, vars, Launch, Sigterm, Die, TearCert, MendCert
    <2>7. QED
      BY <2>1, <2>2, <2>3, <2>4, <2>5, <2>6
  <1>3. QED
    BY <1>1, <1>2 DEF WatchInv

\* Who leaves, and when.
LEMMA LeaveStep ==
  ASSUME TypeOK, PoolInv, WatchInv, [Next]_vars, main # "exited", main' = "exited"
  PROVE  \A j \in Jobs : child[j] # "running"
  <1>1. \A j \in Jobs : child[j] = "running" => InFlight(j) /\ j \in active
    BY DEF WatchInv, PoolInv, InFlight
  <1>2. CASE Serve
    <2>1. Unreaped = {}
      BY <1>2 DEF Serve
    <2>2. QED
      BY <1>1, <2>1 DEF Unreaped, InFlight
  <1>3. CASE Leave
    BY <1>1, <1>3 DEF Leave
  <1>4. CASE ResetRaises
    BY <1>4 DEF ResetRaises, WatchInv
  <1>5. CASE \/ ResetOk \/ ResetFails \/ Fill \/ ClaimNothing \/ ClaimFails \/ ClaimRaises
             \/ \E j \in Jobs : ClaimJob(j)
    BY <1>5 DEF ResetOk, ResetFails, Fill, ClaimNothing, ClaimFails, ClaimRaises, ClaimJob
  <1>6. CASE \E j \in Jobs : JobStep(j) \/ ChildExits(j)
    BY <1>6 DEF JobStep, Reject, Spawn, SpawnFails, EventRaises, Wait, Report,
                ReportFails, ReportRaises, ChildExits, mainVars
  <1>7. CASE HangarStep
    BY <1>7 DEF HangarStep, LateReset, Enqueue, LateClaim, ReapStale, LateReport, mainVars
  <1>8. CASE UNCHANGED vars \/ Launch \/ Sigterm \/ Die \/ TearCert \/ MendCert
    BY <1>8 DEF vars, Launch, Sigterm, Die, Vanish, TearCert, MendCert, mainVars
  <1>9. QED
    BY <1>2, <1>3, <1>4, <1>5, <1>6, <1>7, <1>8 DEF Next, MainStep

\* The runner leaves only when no command is running, however late a call is
\* processed; a torn certificate makes a thread give up on its command.
THEOREM Drains == ~CertRotates => (Spec => DrainedExit)
  <1> SUFFICES ASSUME ~CertRotates PROVE Spec => DrainedExit
    OBVIOUS
  <1>1. Init => PoolInv /\ Outcomes /\ WatchInv
    BY InitPool, InitOutcomes DEF Init, WatchInv
  <1>2. TypeOK /\ PoolInv /\ Outcomes /\ WatchInv /\ [Next]_vars
          => PoolInv' /\ Outcomes' /\ WatchInv'
    BY PoolStep, OutcomeStep, WatchStep
  <1>3. TypeOK /\ PoolInv /\ WatchInv /\ [Next]_vars =>
          [main # "exited" /\ main' = "exited" => \A j \in Jobs : child[j] # "running"]_vars
    BY LeaveStep
  <1>4. QED
    BY <1>1, <1>2, <1>3, TypeCorrect, PTL DEF Spec, DrainedExit

-----------------------------------------------------------------------------
(* Jobs, late calls and the queue *)

\* The three parts that speak of Hangar's records.
LedgerInv == (\A j \in Jobs : JobInv(j)) /\ LateInv /\ QueueInv

LEMMA DroppedCalls ==
  ASSUME Sound
  PROVE  /\ Dropped(ResetCall) => late' = late
         /\ Dropped(ClaimCall) => late' = late \/ late' = late \cup {ClaimCall}
         /\ \A j \in Jobs, ok \in BOOLEAN :
              Dropped(Call("complete", j, ok)) =>
                late' = late \/ late' = late \cup {Call("complete", j, ok)}
  BY DEF Sound, Dropped, ResetCall, ClaimCall, Call

\* Steps that only add a claim nobody waits for, or none, change no part.
LEMMA LedgerUntouched ==
  ASSUME LedgerInv, UNCHANGED <<status, thread, child>>,
         late' = late \/ late' = late \cup {ClaimCall}
  PROVE  LedgerInv'
  <1>1. \A j \in Jobs : JobInv(j)'
    BY DEF LedgerInv, JobInv
  <1>2. QueueInv'
    BY DEF LedgerInv, QueueInv, Unfinished
  <1>3. LateInv'
    BY CallsDiffer DEF LedgerInv, LateInv
  <1>4. QED
    BY <1>1, <1>2, <1>3 DEF LedgerInv

\* The process ends, killing what runs: no record changes.
LEMMA VanishLedger ==
  ASSUME TypeOK, LedgerInv, NEW how, Vanish(how), UNCHANGED <<status, late>>
  PROVE  LedgerInv'
  <1>1. \A j \in Jobs : /\ thread'[j].pc = "none"
                        /\ child'[j] = IF child[j] = "running" THEN "bad" ELSE child[j]
    BY DEF Vanish, NoThread, Thread
  <1>2. \A j \in Jobs : JobInv(j)'
    BY <1>1 DEF LedgerInv, JobInv
  <1>3. LateInv'
    BY <1>1 DEF LedgerInv, LateInv
  <1>4. QueueInv'
    BY DEF LedgerInv, QueueInv, Unfinished
  <1>5. QED
    BY <1>2, <1>3, <1>4 DEF LedgerInv

\* Hangar closes one open job that nothing works on.
LEMMA CloseLedger ==
  ASSUME TypeOK, LedgerInv, NEW i \in Jobs, NEW ok \in BOOLEAN, CloseJob(i, ok),
         thread[i].pc \notin {"start", "stream"}, ok => child[i] = "ok",
         UNCHANGED <<thread, child>>, late' \subseteq late
  PROVE  LedgerInv'
  <1>1. \A j \in Jobs : \/ status'[j] = status[j]
                        \/ /\ j = i /\ status[j] = "open"
                           /\ status'[j] = IF ok THEN "succeeded" ELSE "failed"
    BY DEF CloseJob, TypeOK
  <1>2. \A j \in Jobs : JobInv(j)'
    BY <1>1 DEF LedgerInv, JobInv, Terminal
  <1>3. LateInv'
    BY <1>1 DEF LedgerInv, LateInv, Terminal
  <1>4. QueueInv'
    BY <1>1 DEF LedgerInv, QueueInv, Unfinished
  <1>5. QED
    BY <1>2, <1>3, <1>4 DEF LedgerInv

\* A queued job is handed out, to this runner or to a caller that gave up.
LEMMA HandOutLedger ==
  ASSUME TypeOK, LedgerInv, NEW i \in Queued,
         status' = [status EXCEPT ![i] = "open"], UNCHANGED child,
         UNCHANGED thread \/ thread' = [thread EXCEPT ![i] = Started],
         late' \subseteq late
  PROVE  LedgerInv'
  <1>1. i \in Jobs /\ status[i] = "queued" /\ child[i] = "none"
    BY DEF Queued, LedgerInv, JobInv, Terminal, TypeOK
  <1>2. \A j \in Jobs : status'[j] = IF j = i THEN "open" ELSE status[j]
    BY <1>1 DEF TypeOK
  <1>3. \A j \in Jobs : \/ thread'[j] = thread[j]
                        \/ j = i /\ thread'[j] = Started
    BY <1>1 DEF TypeOK
  <1>4. \A j \in Jobs : JobInv(j)'
    BY <1>1, <1>2, <1>3 DEF LedgerInv, JobInv, Terminal, Started, Thread
  <1>5. LateInv'
    BY <1>1, <1>2, <1>3 DEF LedgerInv, LateInv, Terminal
  <1>6. QueueInv'
    BY <1>1, <1>2 DEF LedgerInv, QueueInv, Unfinished
  <1>7. QED
    BY <1>4, <1>5, <1>6 DEF LedgerInv

\* One job's thread and command move, Hangar's records do not.
LEMMA WorkLedger ==
  ASSUME LedgerInv, NEW i \in Jobs, UNCHANGED status,
         \A j \in Jobs \ {i} : thread'[j] = thread[j] /\ child'[j] = child[j],
         JobInv(i)', child[i] = "ok" => child'[i] = "ok",
         thread[i].pc \in {"none", "report", "done"} =>
           thread'[i].pc \in {"none", "report", "done"},
         \/ late' = late
         \/ \E ok \in BOOLEAN :
              /\ late' = late \cup {Call("complete", i, ok)}
              /\ thread[i].pc = "report" /\ status[i] \in {"open"} \cup Terminal
              /\ ok => child[i] = "ok"
  PROVE  LedgerInv'
  <1>1. \A j \in Jobs : JobInv(j)'
    BY DEF LedgerInv, JobInv
  <1>2. QueueInv'
    BY DEF LedgerInv, QueueInv, Unfinished
  <1>3. LateInv'
    <2>1. ResetCall \notin late'
      BY CallsDiffer DEF LedgerInv, LateInv
    <2>2. ASSUME NEW j \in Jobs, NEW ok \in BOOLEAN, Call("complete", j, ok) \in late'
          PROVE  /\ thread'[j].pc \in {"none", "report", "done"}
                 /\ status'[j] \in {"open"} \cup Terminal
                 /\ ok => child'[j] = "ok"
      <3>1. CASE Call("complete", j, ok) \in late
        <4>1. /\ thread[j].pc \in {"none", "report", "done"}
              /\ status[j] \in {"open"} \cup Terminal
              /\ ok => child[j] = "ok"
          BY <3>1 DEF LedgerInv, LateInv
        <4>2. QED
          BY <4>1
      <3>2. CASE Call("complete", j, ok) \notin late
        BY <2>2, <3>2, CallsDiffer
      <3>3. QED
        BY <3>1, <3>2
    <2>3. QED
      BY <2>1, <2>2 DEF LateInv, Terminal
  <1>4. QED
    BY <1>1, <1>2, <1>3 DEF LedgerInv

LEMMA JobStepLedger ==
  ASSUME TypeOK, cert = "good", Sound, LedgerInv, NEW i \in Jobs, JobStep(i)
  PROVE  LedgerInv'
  <1>0. thread[i] \in Threads /\ JobInv(i)
    BY DEF TypeOK, LedgerInv
  <1>1. CASE Reject(i)
    <2>1. /\ thread[i].pc = "start" /\ thread' = [thread EXCEPT ![i] = Reporting(FALSE)]
          /\ UNCHANGED <<status, late, child>>
      BY <1>1 DEF Reject, Goto, hangarVars
    <2>2. thread'[i] = Reporting(FALSE) /\ \A j \in Jobs \ {i} : thread'[j] = thread[j]
      BY <2>1 DEF TypeOK
    <2>3. JobInv(i)'
      BY <1>0, <2>1, <2>2 DEF JobInv, Reporting, Thread, Terminal
    <2>4. QED
      BY <2>1, <2>2, <2>3, WorkLedger DEF Reporting, Thread
  <1>2. CASE Spawn(i)
    <2>1. /\ thread[i].pc = "start" /\ thread' = [thread EXCEPT ![i] = Streaming]
          /\ child' = [child EXCEPT ![i] = "running"]
          /\ UNCHANGED <<status, late>>
      BY <1>2 DEF Spawn, Goto, hangarVars
    <2>2. /\ thread'[i] = Streaming /\ child'[i] = "running"
          /\ \A j \in Jobs \ {i} : thread'[j] = thread[j] /\ child'[j] = child[j]
      BY <2>1 DEF TypeOK
    <2>3. JobInv(i)' /\ child[i] = "none"
      BY <1>0, <2>1, <2>2 DEF JobInv, Streaming, Thread, Terminal
    <2>4. QED
      BY <2>1, <2>2, <2>3, WorkLedger
  <1>3. CASE SpawnFails(i)
    <2>1. PICK t \in {Reporting(FALSE), Crashed} :
            /\ thread[i].pc = "start" /\ thread' = [thread EXCEPT ![i] = t]
            /\ UNCHANGED <<status, late, child>>
      BY <1>3 DEF SpawnFails, Goto, hangarVars
    <2>2. thread'[i] = t /\ \A j \in Jobs \ {i} : thread'[j] = thread[j]
      BY <2>1 DEF TypeOK
    <2>3. t.pc = "report" /\ t.ok = FALSE
      BY DEF Reporting, Crashed, Thread
    <2>4. JobInv(i)'
      BY <1>0, <2>1, <2>2, <2>3 DEF JobInv, Terminal
    <2>5. QED
      BY <2>1, <2>2, <2>3, <2>4, WorkLedger
  <1>4. CASE Wait(i)
    <2>1. /\ thread[i].pc = "stream" /\ child[i] # "running"
          /\ thread' = [thread EXCEPT ![i] = Reporting(child[i] = "ok")]
          /\ UNCHANGED <<status, late, child>>
      BY <1>4 DEF Wait, Goto, hangarVars
    <2>2. /\ thread'[i] = Reporting(child[i] = "ok")
          /\ \A j \in Jobs \ {i} : thread'[j] = thread[j]
      BY <2>1 DEF TypeOK
    <2>3. thread'[i].pc = "report" /\ (thread'[i].ok => child[i] = "ok")
      BY <2>2, WaitReports
    <2>4. JobInv(i)'
      BY <1>0, <2>1, <2>3 DEF JobInv, Terminal
    <2>5. QED
      BY <2>1, <2>2, <2>3, <2>4, WorkLedger
  <1>5. CASE Report(i)
    <2>1. /\ thread[i].pc = "report" /\ CloseJob(i, thread[i].ok)
          /\ thread' = [thread EXCEPT ![i] = Finished]
          /\ UNCHANGED <<late, child>>
      BY <1>5 DEF Report, Goto, hangarVars
    <2>2. /\ thread'[i].pc = "done"
          /\ \A j \in Jobs \ {i} : thread'[j] = thread[j]
      BY <2>1 DEF TypeOK, Finished, Thread
    <2>3. /\ thread[i].ok \in BOOLEAN
          /\ thread[i].ok => child[i] = "ok"
          /\ status[i] \in {"open"} \cup Terminal
      BY <1>0, <2>1 DEF JobInv, Threads
    <2>4. /\ status[i] = "open" =>
               status'[i] = IF thread[i].ok THEN "succeeded" ELSE "failed"
          /\ status[i] # "open" => status'[i] = status[i]
          /\ \A j \in Jobs \ {i} : status'[j] = status[j]
      BY <2>1 DEF CloseJob, TypeOK
    <2>5. JobInv(i)'
      BY <1>0, <2>1, <2>2, <2>3, <2>4 DEF JobInv, Terminal
    <2>6. \A j \in Jobs \ {i} : JobInv(j)'
      BY <2>1, <2>2, <2>4 DEF LedgerInv, JobInv
    <2>7. LateInv'
      <3>1. ResetCall \notin late'
        BY <2>1 DEF LedgerInv, LateInv
      <3>2. ASSUME NEW j \in Jobs, NEW ok \in BOOLEAN, Call("complete", j, ok) \in late'
            PROVE  /\ thread'[j].pc \in {"none", "report", "done"}
                   /\ status'[j] \in {"open"} \cup Terminal
                   /\ ok => child'[j] = "ok"
        <4>1. /\ thread[j].pc \in {"none", "report", "done"}
              /\ status[j] \in {"open"} \cup Terminal
              /\ ok => child[j] = "ok"
          BY <2>1, <3>2 DEF LedgerInv, LateInv
        <4>2. QED
          BY <4>1, <2>1, <2>2, <2>3, <2>4 DEF Terminal
      <3>3. QED
        BY <3>1, <3>2 DEF LateInv, Terminal
    <2>8. QueueInv'
      BY <2>3, <2>4 DEF LedgerInv, QueueInv, Unfinished, Terminal
    <2>9. QED
      BY <2>5, <2>6, <2>7, <2>8 DEF LedgerInv
  <1>6. CASE ReportFails(i)
    <2> DEFINE t == IF thread[i].tries + 1 = Attempts
                      THEN Finished ELSE [thread[i] EXCEPT !.tries = @ + 1]
    <2>1. /\ thread[i].pc = "report" /\ Dropped(Call("complete", i, thread[i].ok))
          /\ thread' = [thread EXCEPT ![i] = t]
          /\ UNCHANGED <<status, child>>
      BY <1>6 DEF ReportFails, Goto
    <2>2. /\ thread'[i] = t /\ \A j \in Jobs \ {i} : thread'[j] = thread[j]
      BY <2>1 DEF TypeOK
    <2>3. t.pc = "done" \/ (t.pc = "report" /\ t.ok = thread[i].ok)
      <3>1. Finished.pc = "done"
        BY DEF Finished, Thread
      <3>2. CASE thread[i].tries + 1 = Attempts
        BY <3>1, <3>2
      <3>3. CASE thread[i].tries + 1 # Attempts
        <4>1. t = [thread[i] EXCEPT !.tries = @ + 1]
          BY <3>3
        <4>2. /\ [thread[i] EXCEPT !.tries = @ + 1].pc = thread[i].pc
              /\ [thread[i] EXCEPT !.tries = @ + 1].ok = thread[i].ok
          BY <1>0 DEF Threads
        <4>3. QED
          BY <2>1, <4>1, <4>2
      <3>4. QED
        BY <3>2, <3>3
    <2>4. thread[i].ok \in BOOLEAN /\ (thread[i].ok => child[i] = "ok")
      BY <1>0, <2>1 DEF JobInv, Threads
    <2>5. JobInv(i)' /\ status[i] \in {"open"} \cup Terminal
      BY <1>0, <2>1, <2>2, <2>3, <2>4 DEF JobInv, Terminal
    <2>6. late' = late \/ late' = late \cup {Call("complete", i, thread[i].ok)}
      BY <2>1, <2>4, DroppedCalls
    <2>7. QED
      BY <2>1, <2>2, <2>3, <2>4, <2>5, <2>6, WorkLedger
  <1>7. QED
    BY <1>1, <1>2, <1>3, <1>4, <1>5, <1>6 DEF JobStep, EventRaises, ReportRaises

LEMMA HangarStepLedger ==
  ASSUME TypeOK, LedgerInv, HangarStep
  PROVE  LedgerInv'
  <1>1. ~LateReset
    BY DEF LateReset, LedgerInv, LateInv
  <1>2. ASSUME NEW i \in Jobs, Enqueue(i) PROVE LedgerInv'
    <2>1. /\ status[i] = "absent" /\ UNCHANGED <<late, thread, child>>
          /\ \A k \in Jobs : HostOf[k] = HostOf[i] => ~Unfinished(k)
          /\ status'[i] = "queued" /\ \A j \in Jobs \ {i} : status'[j] = status[j]
      BY <1>2 DEF Enqueue, Unfinished, TypeOK
    <2>2. \A j \in Jobs : JobInv(j)'
      BY <2>1 DEF LedgerInv, JobInv, Terminal
    <2>3. LateInv'
      BY <2>1 DEF LedgerInv, LateInv, Terminal
    <2>4. QueueInv'
      BY <2>1 DEF LedgerInv, QueueInv, Unfinished
    <2>5. QED
      BY <2>2, <2>3, <2>4 DEF LedgerInv
  <1>3. ASSUME NEW i \in Jobs, LateClaim(i) PROVE LedgerInv'
    BY <1>3, HandOutLedger DEF LateClaim
  <1>4. ASSUME NEW i \in Jobs, ReapStale(i) PROVE LedgerInv'
    <2>1. CloseJob(i, FALSE) /\ UNCHANGED <<late, thread, child>>
      BY <1>4 DEF ReapStale, CloseJob, Open
    <2>2. thread[i].pc \notin {"start", "stream"}
      BY <1>4 DEF ReapStale, InFlight
    <2>3. QED
      BY <2>1, <2>2, CloseLedger
  <1>5. ASSUME NEW i \in Jobs, NEW ok \in BOOLEAN, LateReport(i, ok) PROVE LedgerInv'
    <2>1. /\ Call("complete", i, ok) \in late /\ CloseJob(i, ok)
          /\ UNCHANGED <<thread, child>> /\ late' \subseteq late
      BY <1>5 DEF LateReport
    <2>2. thread[i].pc \notin {"start", "stream"} /\ (ok => child[i] = "ok")
      BY <2>1 DEF LedgerInv, LateInv
    <2>3. QED
      BY <2>1, <2>2, CloseLedger
  <1>6. QED
    BY <1>1, <1>2, <1>3, <1>4, <1>5 DEF HangarStep

LEMMA MainStepLedger ==
  ASSUME TypeOK, cert = "good", Sound, PoolInv, LedgerInv, MainStep
  PROVE  LedgerInv'
  <1> USE DEF hangarVars
  <1>1. CASE ResetOk
    <2>1. /\ main = "reset" /\ UNCHANGED <<late, thread, child>>
          /\ \A j \in Jobs : status'[j] = IF status[j] = "open" THEN "failed" ELSE status[j]
      BY <1>1 DEF ResetOk, FailOpenJobs
    <2>2. \A j \in Jobs : thread[j].pc = "none"
      BY <2>1 DEF PoolInv
    <2>3. \A j \in Jobs : JobInv(j)'
      BY <2>1, <2>2 DEF LedgerInv, JobInv, Terminal
    <2>4. LateInv'
      BY <2>1 DEF LedgerInv, LateInv, Terminal
    <2>5. QueueInv'
      BY <2>1 DEF LedgerInv, QueueInv, Unfinished
    <2>6. QED
      BY <2>3, <2>4, <2>5 DEF LedgerInv
  <1>2. CASE ResetFails
    BY <1>2, DroppedCalls, LedgerUntouched DEF ResetFails
  <1>3. CASE Serve
    BY <1>3, VanishLedger, LedgerUntouched DEF Serve
  <1>4. CASE Fill \/ ClaimNothing
    BY <1>4, LedgerUntouched DEF Fill, ClaimNothing
  <1>5. CASE ClaimFails
    BY <1>5, DroppedCalls, LedgerUntouched DEF ClaimFails
  <1>6. CASE Leave
    BY <1>6, VanishLedger DEF Leave
  <1>7. ASSUME NEW i \in Jobs, ClaimJob(i) PROVE LedgerInv'
    BY <1>7, HandOutLedger DEF ClaimJob
  <1>8. QED
    BY <1>1, <1>2, <1>3, <1>4, <1>5, <1>6, <1>7 DEF MainStep, ResetRaises, ClaimRaises

LEMMA InvStep ==
  ASSUME TypeOK, RunnerInv, Sound, [Next]_vars
  PROVE  RunnerInv'
  <1>0. cert = "good" /\ PoolInv /\ LedgerInv
    BY DEF RunnerInv, LedgerInv
  <1>1. PoolInv'
    BY <1>0, PoolStep
  <1>2. LedgerInv'
    <2>1. CASE UNCHANGED vars \/ Launch \/ Sigterm
      BY <1>0, <2>1, LedgerUntouched DEF vars, Launch, Sigterm, hangarVars
    <2>2. CASE Die
      BY <1>0, <2>2, VanishLedger DEF Die, hangarVars
    <2>3. CASE MainStep
      BY <1>0, <2>3, MainStepLedger
    <2>4. ASSUME NEW i \in Jobs, JobStep(i) PROVE LedgerInv'
      BY <1>0, <2>4, JobStepLedger
    <2>5. ASSUME NEW i \in Jobs, ChildExits(i) PROVE LedgerInv'
      <3>1. /\ child[i] = "running" /\ child'[i] \in {"ok", "bad"}
            /\ \A j \in Jobs \ {i} : child'[j] = child[j]
            /\ UNCHANGED <<status, late, thread>>
        BY <2>5 DEF ChildExits, hangarVars, TypeOK
      <3>2. JobInv(i)'
        BY <1>0, <3>1 DEF LedgerInv, JobInv, Terminal
      <3>3. QED
        BY <1>0, <3>1, <3>2, WorkLedger
    <2>6. CASE HangarStep
      BY <1>0, <2>6, HangarStepLedger
    <2>7. CASE TearCert \/ MendCert
      BY <1>0, <2>7 DEF TearCert, MendCert, Sound
    <2>8. QED
      BY <2>1, <2>2, <2>3, <2>4, <2>5, <2>6, <2>7 DEF Next
  <1>3. cert' = "good"
    BY <1>0, CertKept DEF Sound
  <1>4. QED
    BY <1>1, <1>2, <1>3 DEF RunnerInv, LedgerInv

LEMMA InitInv == Init => RunnerInv
  <1> SUFFICES ASSUME Init PROVE RunnerInv
    OBVIOUS
  <1>1. \A j \in Jobs : thread[j].pc = "none" /\ child[j] = "none" /\ status[j] = "absent"
    BY DEF Init, NoThread, Thread
  <1>2. PoolInv
    BY InitPool
  <1>3. (\A j \in Jobs : JobInv(j)) /\ QueueInv
    BY <1>1 DEF JobInv, QueueInv, Unfinished, Terminal
  <1>4. LateInv /\ cert = "good"
    BY DEF Init, LateInv
  <1>5. QED
    BY <1>2, <1>3, <1>4 DEF RunnerInv

-----------------------------------------------------------------------------
(* Theorems *)

\* The thread, the command and Hangar's record of a job always agree.
THEOREM RunnerInvariant == Sound => (Spec => []RunnerInv)
  <1> SUFFICES ASSUME Sound PROVE Spec => []RunnerInv
    OBVIOUS
  <1>1. TypeOK /\ RunnerInv /\ [Next]_vars => RunnerInv'
    BY InvStep
  <1>2. QED
    BY <1>1, InitInv, TypeCorrect, PTL DEF Spec

\* Two commands never work on one host.
THEOREM OneRun == Sound => (Spec => []OneRunPerHost)
  <1> SUFFICES ASSUME Sound PROVE Spec => []OneRunPerHost
    OBVIOUS
  <1>1. RunnerInv => OneRunPerHost
    <2> SUFFICES ASSUME RunnerInv PROVE OneRunPerHost
      OBVIOUS
    <2>1. \A j \in Jobs : child[j] = "running" => Unfinished(j)
      BY DEF RunnerInv, JobInv, Unfinished
    <2>2. QED
      BY <2>1 DEF RunnerInv, QueueInv, OneRunPerHost
  <1>2. QED
    BY <1>1, RunnerInvariant, PTL

-----------------------------------------------------------------------------
(* Runner implements JobService *)

Alive == {j \in Jobs : child[j] = "running"}
Well  == {j \in Jobs : child[j] = "ok"}

LEMMA PromiseStutter ==
  UNCHANGED <<status, child>> => UNCHANGED Promise!svars
  BY DEF Promise!svars

\* Commands end, one by itself or all with the process.
LEMMA EndPromised ==
  ASSUME NEW S \in SUBSET Jobs, S \subseteq Alive, Alive' = Alive \ S,
         UNCHANGED status,
         Well' = Well \/ \E j \in S : S = {j} /\ Well' = Well \cup S
  PROVE  Promise!Next
  <1>1. Promise!End(S)
    BY DEF Promise!End, Alive, Well
  <1>2. QED
    BY <1>1 DEF Promise!Next

LEMMA VanishPromised ==
  ASSUME TypeOK, NEW how, Vanish(how), UNCHANGED status
  PROVE  Promise!Next
  <1>1. \A j \in Jobs : child'[j] = IF child[j] = "running" THEN "bad" ELSE child[j]
    BY DEF Vanish
  <1>2. Alive' = Alive \ Alive /\ Well' = Well
    BY <1>1 DEF Alive, Well
  <1>3. Alive \in SUBSET Jobs
    BY DEF Alive
  <1>4. QED
    BY <1>2, <1>3, EndPromised

LEMMA FailPromised ==
  ASSUME NEW S \in SUBSET Jobs, UNCHANGED child,
         \A j \in S : status[j] = "open" /\ child[j] # "running",
         status' = [j \in Jobs |-> IF j \in S THEN "failed" ELSE status[j]]
  PROVE  Promise!Next
  <1>1. Promise!FailAll(S)
    BY DEF Promise!FailAll
  <1>2. QED
    BY <1>1 DEF Promise!Next

LEMMA ClosePromised ==
  ASSUME TypeOK, NEW i \in Jobs, NEW ok \in BOOLEAN, CloseJob(i, ok), UNCHANGED child,
         child[i] # "running", ok => child[i] = "ok"
  PROVE  Promise!Next \/ UNCHANGED Promise!svars
  <1>1. CASE status[i] # "open"
    BY <1>1, PromiseStutter DEF CloseJob
  <1>2. CASE status[i] = "open" /\ ok
    <2>1. Promise!Succeed(i)
      BY <1>2 DEF Promise!Succeed, CloseJob
    <2>2. QED
      BY <2>1 DEF Promise!Next
  <1>3. CASE status[i] = "open" /\ ~ok
    <2>1. status' = [j \in Jobs |-> IF j \in {i} THEN "failed" ELSE status[j]]
      BY <1>3 DEF CloseJob, TypeOK
    <2>2. {i} \in SUBSET Jobs /\ \A j \in {i} : status[j] = "open" /\ child[j] # "running"
      BY <1>3
    <2>3. QED
      BY <2>1, <2>2, FailPromised
  <1>4. QED
    BY <1>1, <1>2, <1>3

LEMMA AssignPromised ==
  ASSUME NEW i \in Queued, status' = [status EXCEPT ![i] = "open"], UNCHANGED child
  PROVE  Promise!Next
  <1>1. i \in Jobs /\ Promise!Assign(i)
    BY DEF Promise!Assign, Queued
  <1>2. QED
    BY <1>1 DEF Promise!Next

LEMMA StepPromised ==
  ASSUME TypeOK, RunnerInv, Sound, Next
  PROVE  Promise!Next \/ UNCHANGED Promise!svars
  <1>1. CASE Launch \/ Sigterm \/ TearCert \/ MendCert
    BY <1>1, PromiseStutter DEF Launch, Sigterm, TearCert, MendCert, hangarVars
  <1>2. CASE Die
    BY <1>2, VanishPromised DEF Die, hangarVars
  <1>3. CASE MainStep
    <2>1. CASE ResetOk
      <3>1. /\ main = "reset" /\ UNCHANGED child
            /\ status' = [j \in Jobs |-> IF j \in Open THEN "failed" ELSE status[j]]
        BY <2>1 DEF ResetOk, FailOpenJobs, Open
      <3>2. \A j \in Jobs : child[j] # "running"
        BY <3>1 DEF RunnerInv, PoolInv, JobInv
      <3>3. Open \in SUBSET Jobs /\ \A j \in Open : status[j] = "open" /\ child[j] # "running"
        BY <3>2 DEF Open
      <3>4. QED
        BY <3>1, <3>3, FailPromised
    <2>2. CASE ResetRaises \/ Leave
      BY <2>2, VanishPromised DEF ResetRaises, Leave, hangarVars
    <2>3. CASE Serve
      BY <2>3, VanishPromised, PromiseStutter DEF Serve, hangarVars
    <2>4. CASE ResetFails \/ Fill \/ ClaimNothing \/ ClaimFails \/ ClaimRaises
      BY <2>4, PromiseStutter
         DEF ResetFails, Fill, ClaimNothing, ClaimFails, ClaimRaises, hangarVars
    <2>5. ASSUME NEW i \in Jobs, ClaimJob(i) PROVE Promise!Next
      BY <2>5, AssignPromised DEF ClaimJob
    <2>6. QED
      BY <1>3, <2>1, <2>2, <2>3, <2>4, <2>5 DEF MainStep
  <1>4. ASSUME NEW i \in Jobs, JobStep(i)
        PROVE  Promise!Next \/ UNCHANGED Promise!svars
    <2>1. CASE Spawn(i)
      <3>1. /\ thread[i].pc = "start" /\ UNCHANGED status
            /\ child' = [child EXCEPT ![i] = "running"]
        BY <2>1 DEF Spawn, hangarVars
      <3>2. status[i] = "open" /\ child[i] = "none"
        BY <3>1 DEF RunnerInv, JobInv
      <3>3. Alive' = Alive \cup {i} /\ Well' = Well
        BY <3>1, <3>2 DEF Alive, Well, TypeOK
      <3>4. Promise!Begin(i)
        BY <3>1, <3>2, <3>3 DEF Promise!Begin, Alive, Well
      <3>5. QED
        BY <3>4 DEF Promise!Next
    <2>2. CASE Report(i)
      <3>1. /\ CloseJob(i, thread[i].ok) /\ UNCHANGED child /\ thread[i].pc = "report"
        BY <2>2 DEF Report
      <3>2. /\ thread[i].ok \in BOOLEAN
            /\ child[i] # "running" /\ (thread[i].ok => child[i] = "ok")
        BY <3>1 DEF RunnerInv, JobInv, TypeOK, Threads
      <3>3. QED
        BY <3>1, <3>2, ClosePromised
    <2>3. CASE Reject(i) \/ SpawnFails(i) \/ EventRaises(i) \/ Wait(i)
                 \/ ReportFails(i) \/ ReportRaises(i)
      BY <2>3, PromiseStutter
         DEF Reject, SpawnFails, EventRaises, Wait, ReportFails, ReportRaises, hangarVars
    <2>4. QED
      BY <1>4, <2>1, <2>2, <2>3 DEF JobStep
  <1>5. ASSUME NEW i \in Jobs, ChildExits(i) PROVE Promise!Next
    <2>1. PICK r \in {"ok", "bad"} : child' = [child EXCEPT ![i] = r]
      BY <1>5 DEF ChildExits
    <2>2. /\ child[i] = "running" /\ UNCHANGED status
      BY <1>5 DEF ChildExits, hangarVars
    <2>3. /\ {i} \subseteq Alive /\ Alive' = Alive \ {i}
          /\ Well' = Well \/ Well' = Well \cup {i}
      BY <2>1, <2>2 DEF Alive, Well, TypeOK
    <2>4. /\ {i} \in SUBSET Jobs
          /\ Well' = Well \/ \E j \in {i} : {i} = {j} /\ Well' = Well \cup {i}
      BY <2>3
    <2>5. QED
      BY <2>2, <2>3, <2>4, EndPromised
  <1>6. CASE HangarStep
    <2>1. ~LateReset
      BY DEF LateReset, RunnerInv, LateInv
    <2>2. ASSUME NEW i \in Jobs, Enqueue(i) PROVE Promise!Next
      <3>1. Promise!Unfinished(HostOf[i]) = {}
        BY <2>2 DEF Enqueue, Promise!Unfinished
      <3>2. UNCHANGED child
        BY <2>2 DEF Enqueue
      <3>3. Promise!Submit(i)
        BY <2>2, <3>1, <3>2 DEF Enqueue, Promise!Submit
      <3>4. QED
        BY <3>3 DEF Promise!Next
    <2>3. ASSUME NEW i \in Jobs, LateClaim(i) PROVE Promise!Next
      BY <2>3, AssignPromised DEF LateClaim
    <2>4. ASSUME NEW i \in Jobs, ReapStale(i)
          PROVE  Promise!Next \/ UNCHANGED Promise!svars
      <3>1. CloseJob(i, FALSE) /\ UNCHANGED child
        BY <2>4 DEF ReapStale, CloseJob, Open
      <3>2. child[i] # "running"
        BY <2>4 DEF ReapStale, RunnerInv, JobInv, InFlight
      <3>3. QED
        BY <3>1, <3>2, ClosePromised
    <2>5. ASSUME NEW i \in Jobs, NEW ok \in BOOLEAN, LateReport(i, ok)
          PROVE  Promise!Next \/ UNCHANGED Promise!svars
      <3>1. CloseJob(i, ok) /\ UNCHANGED child /\ Call("complete", i, ok) \in late
        BY <2>5 DEF LateReport
      <3>2. child[i] # "running" /\ (ok => child[i] = "ok")
        BY <3>1 DEF RunnerInv, LateInv, JobInv
      <3>3. QED
        BY <3>1, <3>2, ClosePromised
    <2>6. QED
      BY <1>6, <2>1, <2>2, <2>3, <2>4, <2>5 DEF HangarStep
  <1>7. QED
    BY <1>1, <1>2, <1>3, <1>4, <1>5, <1>6 DEF Next

\* Each step of the runner, Hangar and the network is one JobService allows.
THEOREM ImplementsJobService == Sound => (Spec => PromiseSpec)
  <1> SUFFICES ASSUME Sound PROVE Spec => PromiseSpec
    OBVIOUS
  <1>1. Init => Promise!Init
    BY DEF Init, Promise!Init
  <1>2. TypeOK /\ RunnerInv /\ [Next]_vars => [Promise!Next]_(Promise!svars)
    <2> SUFFICES ASSUME TypeOK, RunnerInv, [Next]_vars
                 PROVE  Promise!Next \/ UNCHANGED Promise!svars
      OBVIOUS
    <2>1. CASE UNCHANGED vars
      BY <2>1, PromiseStutter DEF vars
    <2>2. CASE Next
      BY <2>2, StepPromised
    <2>3. QED
      BY <2>1, <2>2
  <1>3. QED
    BY <1>1, <1>2, TypeCorrect, RunnerInvariant, PTL
       DEF Spec, PromiseSpec, Promise!Spec
=============================================================================
