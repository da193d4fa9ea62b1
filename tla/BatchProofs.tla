---------------------------- MODULE BatchProofs -----------------------------
(***************************************************************************)
(* Proofs about Batch, for any set of hosts, any arrivals, any sequences   *)
(* of batches and any widths. Every theorem follows from the two           *)
(* inductive invariants TypeOK and BatchInv.                               *)
(***************************************************************************)
EXTENDS Batch, TLAPS

\* Where each step leads.
LEMMA AfterIs ==
  /\ After["resolve"] = "post" /\ After["post"] = "push" /\ After["push"] = "ok"
  /\ After["watch"] = "ok"
  /\ After["preflight"] = "mint"
  /\ After["mint"] \in {"ok", "escrow"} /\ (job = "provision" => After["mint"] = "escrow")
  /\ After["escrow"] = "pkg" /\ After["pkg"] = "sentinel"
  /\ After["sentinel"] = "grant" /\ After["grant"] = "watch"
  BY DEF After

\* Where a pool's children begin.
LEMMA FirstIs ==
  /\ DOMAIN First = {"add", "watch", "provision", "mint"}
  /\ First["add"] = "resolve" /\ First["watch"] = "watch"
  /\ First["provision"] = "preflight" /\ First["mint"] = "mint"
  BY DEF First

-----------------------------------------------------------------------------
(* Types *)

LEMMA InitType == Init => TypeOK
  BY ArrivalsAssumption, SessionsAssumption, FirstIs
  DEF Init, HostInit, TypeOK, HostTypeOK, Phases, Pool

\* A step of the host itself leaves the batch alone.
LEMMA HostTypes ==
  ASSUME TypeOK, NEW h \in Hosts, HostStep(h)
  PROVE  TypeOK'
  <1> USE DEF TypeOK, HostTypeOK, HostStep, batchVars, poolVars, mdmVars, tcVars,
             machineVars, scriptVars
  <1>1. CASE InstallPushed(h)
    BY <1>1 DEF InstallPushed, Install, RunScript
  <1>2. CASE InstallAtCheckIn(h)
    BY <1>2 DEF InstallAtCheckIn, Install, RunScript
  <1>3. CASE Reboot(h)
    BY <1>3 DEF Reboot, RunScript
  <1>4. CASE ScriptAborts(h)
    BY <1>4 DEF ScriptAborts
  <1>5. CASE ScriptInstallsDriver(h)
    BY <1>5 DEF ScriptInstallsDriver
  <1>6. CASE DriverStartsWorker(h)
    BY <1>6 DEF DriverStartsWorker
  <1>7. CASE DriverFinishes(h)
    BY <1>7 DEF DriverFinishes
  <1>8. CASE WorkerRegisters(h)
    BY <1>8 DEF WorkerRegisters
  <1>9. QED
    BY <1>1, <1>2, <1>3, <1>4, <1>5, <1>6, <1>7, <1>8 DEF HostNext

\* A step of a child keeps the types.
LEMMA ChildTypes ==
  ASSUME TypeOK, NEW h \in Hosts, ChildStep(h)
  PROVE  TypeOK'
  <1> USE DEF TypeOK, HostTypeOK, Passes, Become, batchVars, poolVars, hostVars,
             mdmVars, tcVars, machineVars, scriptVars, Steps, Outcomes
  <1>1. CASE ResolveDevice(h)
    BY <1>1 DEF ResolveDevice
  <1>2. CASE AddToGroup(h)
    BY <1>2, AfterIs DEF AddToGroup, Join
  <1>3. CASE PushGroup(h)
    BY <1>3, AfterIs DEF PushGroup, PushApps
  <1>4. CASE Preflight(h)
    BY <1>4, AfterIs DEF Preflight
  <1>5. CASE Mint(h)
    BY <1>5, AfterIs DEF Mint, GrantToken
  <1>6. CASE EscrowBst(h)
    BY <1>6, AfterIs DEF EscrowBst, Escrow
  <1>7. CASE PkgLanded(h)
    BY <1>7, AfterIs DEF PkgLanded
  <1>8. CASE SentinelSeen(h)
    BY <1>8, AfterIs DEF SentinelSeen
  <1>9. CASE Granted(h)
    BY <1>9, AfterIs DEF Granted
  <1>10. CASE QuarantineOnRegister(h)
    BY <1>10, AfterIs DEF QuarantineOnRegister, Quarantine
  <1>11. CASE NotReady(h)
    BY <1>11 DEF NotReady
  <1>12. CASE ChildFails(h)
    BY <1>12 DEF ChildFails, GrantToken
  <1>13. QED
    BY <1>1, <1>2, <1>3, <1>4, <1>5, <1>6, <1>7, <1>8, <1>9, <1>10, <1>11, <1>12
    DEF ChildStep

\* A step of the parent, or what cuts it short, leaves the hosts alone.
LEMMA ParentTypes ==
  ASSUME TypeOK, \/ ParentStep \/ ResultRaises \/ Interrupt \/ BreakOff
                 \/ \E hs \in SUBSET Hosts : Start(hs)
  PROVE  TypeOK'
  <1> USE DEF TypeOK, HostTypeOK, Become, batchVars, poolVars, hostVars,
             mdmVars, tcVars, machineVars, scriptVars
  <1>1. ASSUME NEW hs \in SUBSET Hosts, Start(hs) PROVE TypeOK'
    <2>1. Head(session) \in DOMAIN First /\ Tail(session) \in Seq(DOMAIN First)
      BY <1>1 DEF Start
    <2>2. QED
      BY <1>1, <2>1 DEF Start, Pool, Phases
  <1>2. ASSUME NEW h \in Hosts, Launch(h) PROVE TypeOK'
    BY <1>2, FirstIs DEF Launch, Steps
  <1>3. ASSUME NEW h \in Hosts, Record(h) PROVE TypeOK'
    BY <1>3 DEF Record
  <1>4. CASE WatchAdded
    BY <1>4, FirstIs DEF WatchAdded, Pool, Phases
  <1>5. CASE Summarise
    BY <1>5 DEF Summarise, Phases
  <1>6. CASE ReportOrphans
    BY <1>6 DEF ReportOrphans, MaybeAdded, Listed, Phases
  <1>7. CASE Exit
    BY <1>7 DEF Exit, Phases
  <1>8. CASE Interrupt
    <2>1. child' \in [Hosts -> {"none", "queued"} \cup Steps \cup Outcomes]
      BY <1>8 DEF Interrupt, Outcomes
    <2>2. phase' \in Phases
      BY <1>8 DEF Interrupt, Stopped, Phases
    <2>3. QED
      BY <1>8, <2>1, <2>2 DEF Interrupt
  <1>9. CASE AddDone \/ Leave
    BY <1>9 DEF AddDone, Leave, Listed, Phases
  <1>10. CASE BreakOff
    BY <1>10 DEF BreakOff, Listed, Phases
  <1>11. CASE ResultRaises
    <2>1. phase' \in Phases
      BY <1>11 DEF ResultRaises, Phases
    <2>2. QED
      BY <1>11, <2>1 DEF ResultRaises
  <1>12. QED
    BY <1>1, <1>2, <1>3, <1>4, <1>5, <1>6, <1>7, <1>8, <1>9, <1>10, <1>11 DEF ParentStep

LEMMA TypeStep == TypeOK /\ [Next]_vars => TypeOK'
  <1> SUFFICES ASSUME TypeOK, [Next]_vars PROVE TypeOK'
    OBVIOUS
  <1>1. CASE UNCHANGED vars
    BY <1>1 DEF vars, hostVars, batchVars, poolVars, mdmVars, tcVars, machineVars,
                scriptVars, TypeOK, HostTypeOK
  <1>2. CASE Next
    BY <1>2, HostTypes, ChildTypes, ParentTypes DEF Next
  <1>3. QED
    BY <1>1, <1>2

\* Every variable of Batch and FreshHost keeps its type.
THEOREM TypeCorrect == Spec => []TypeOK
  BY InitType, TypeStep, PTL DEF Spec

-----------------------------------------------------------------------------
(* The inductive invariant *)

LEMMA InitInv == Init => BatchInv
  BY DEF Init, Pool, BatchInv, JobFits, PoolDone, WatchesTell, InHand, LateAddsReported,
         ProvisionProgress

\* The hosts' own steps take no token, escrow, sentinel or quarantine away.
LEMMA HostKeeps ==
  ASSUME TypeOK, BatchInv, NEW h \in Hosts, HostStep(h)
  PROVE  BatchInv'
  <1>1. UNCHANGED batchVars
    BY DEF HostStep
  <1>2. UNCHANGED <<token, escrowed, quarantined>> /\ sentinel \subseteq sentinel'
    BY DEF HostStep, HostNext, InstallPushed, InstallAtCheckIn, Install, Reboot, ScriptAborts,
           ScriptInstallsDriver, DriverStartsWorker, DriverFinishes, WorkerRegisters, tcVars,
           machineVars, scriptVars
  <1>3. UNCHANGED Accounted
    BY <1>1, <1>2 DEF Accounted, batchVars
  <1>4. (JobFits /\ PoolDone /\ WatchesTell /\ LateAddsReported)'
    BY <1>1, <1>2 DEF BatchInv, JobFits, PoolDone, WatchesTell, LateAddsReported, batchVars,
                      poolVars
  <1>5. InHand'
    BY <1>1, <1>3 DEF BatchInv, InHand, batchVars, poolVars
  <1>6. ProvisionProgress'
    BY <1>1, <1>2 DEF BatchInv, ProvisionProgress, batchVars, poolVars
  <1>7. QED
    BY <1>4, <1>5, <1>6 DEF BatchInv

\* What every step of a child leaves alone.
LEMMA ChildFrame ==
  ASSUME NEW h \in Hosts, ChildStep(h)
  PROVE  /\ UNCHANGED <<phase, job, recorded, reported, abandoned, session>>
         /\ token \subseteq token' /\ escrowed \subseteq escrowed'
         /\ sentinel = sentinel' /\ quarantined \subseteq quarantined'
  BY DEF ChildStep, ResolveDevice, AddToGroup, PushGroup, Preflight, Mint, EscrowBst,
         PkgLanded, SentinelSeen, Granted, QuarantineOnRegister, NotReady, ChildFails, Passes,
         Join, PushApps, GrantToken, Escrow, Quarantine, hostVars, mdmVars, machineVars,
         scriptVars, tcVars

\* Every step a child can take, with what it needs and what it brings about.
ChildMoves(h, from, to) ==
  \/ from = "resolve" /\ to \in {"ok", "post"}
  \/ from = "post" /\ to = "push"
  \/ from = "push" /\ to = "ok"
  \/ from = "preflight" /\ to = "mint"
  \/ from = "mint" /\ to \in {"ok", "escrow"} /\ h \in token' /\ (job = "provision" => to = "escrow")
  \/ from = "escrow" /\ to = "pkg" /\ h \in escrowed'
  \/ from = "pkg" /\ to = "sentinel"
  \/ from = "sentinel" /\ to = "grant" /\ h \in sentinel
  \/ from = "grant" /\ to = "watch"
  \/ from = "watch" /\ to = "ok" /\ h \in quarantined'
  \/ from \in {"resolve", "preflight", "pkg"} /\ to = "skipped"
  \/ from \in Steps /\ to = "failed"

LEMMA ChildMove ==
  ASSUME TypeOK, NEW h \in Hosts, ChildStep(h)
  PROVE  /\ ChildMoves(h, child[h], child'[h])
         /\ \A g \in Hosts \ {h} : child'[g] = child[g]
         /\ posted' \subseteq posted \cup {h}
         /\ posted' # posted => child[h] = "post" /\ child'[h] = "push"
  <1> USE DEF TypeOK, Passes, Become, ChildMoves
  <1>1. CASE ResolveDevice(h)
    BY <1>1 DEF ResolveDevice
  <1>2. CASE AddToGroup(h)
    BY <1>2, AfterIs DEF AddToGroup
  <1>3. CASE PushGroup(h)
    BY <1>3, AfterIs DEF PushGroup
  <1>4. CASE Preflight(h)
    BY <1>4, AfterIs DEF Preflight
  <1>5. CASE Mint(h)
    BY <1>5, AfterIs DEF Mint, GrantToken
  <1>6. CASE EscrowBst(h)
    BY <1>6, AfterIs DEF EscrowBst, Escrow
  <1>7. CASE PkgLanded(h)
    BY <1>7, AfterIs DEF PkgLanded
  <1>8. CASE SentinelSeen(h)
    BY <1>8, AfterIs DEF SentinelSeen
  <1>9. CASE Granted(h)
    BY <1>9, AfterIs DEF Granted
  <1>10. CASE QuarantineOnRegister(h)
    BY <1>10, AfterIs DEF QuarantineOnRegister, Quarantine
  <1>11. CASE NotReady(h)
    BY <1>11 DEF NotReady
  <1>12. CASE ChildFails(h)
    BY <1>12 DEF ChildFails
  <1>13. QED
    BY <1>1, <1>2, <1>3, <1>4, <1>5, <1>6, <1>7, <1>8, <1>9, <1>10, <1>11, <1>12
    DEF ChildStep

LEMMA ChildKeeps ==
  ASSUME TypeOK, BatchInv, NEW h \in Hosts, ChildStep(h)
  PROVE  BatchInv'
  <1> USE ChildFrame, ChildMove DEF Steps, Outcomes
  <1>1. child[h] \in Steps
    BY DEF ChildMoves
  <1>2. phase \notin {"idle", "between"} /\ h \notin recorded
    BY <1>1 DEF BatchInv, PoolDone
  <1>3. JobFits'
    BY DEF BatchInv, JobFits, ChildMoves
  <1>4. PoolDone'
    BY <1>2, recorded \subseteq Hosts DEF BatchInv, PoolDone, TypeOK
  <1>5. WatchesTell'
    BY <1>2 DEF BatchInv, JobFits, WatchesTell, ChildMoves
  <1>6. InHand'
    <2>1. Accounted \subseteq Accounted'
      BY DEF Accounted
    <2>2. ASSUME NEW g \in posted', g \notin Accounted' \cup abandoned
          PROVE  /\ phase \notin {"idle", "solo", "drain"}
                 /\ child'[g] # "none"
                 /\ job = "add" => child'[g] \in {"push", "ok", "failed"}
      <3>1. CASE g \in posted
        BY <2>1, <2>2, <3>1 DEF BatchInv, JobFits, InHand, ChildMoves, TypeOK
      <3>2. CASE g \notin posted
        <4>1. g = h /\ child[h] = "post" /\ child'[h] = "push"
          BY <2>2, <3>2
        <4>2. h \notin reported \cup abandoned
          BY <2>2, <4>1 DEF Accounted
        <4>3. job = "add" /\ phase # "solo" /\ phase # "drain"
          BY <4>1, <4>2 DEF BatchInv, JobFits, LateAddsReported
        <4>4. QED
          BY <1>2, <4>1, <4>3
      <3>3. QED
        BY <3>1, <3>2
    <2>3. QED
      BY <2>2 DEF InHand
  <1>7. LateAddsReported'
    BY DEF BatchInv, LateAddsReported, ChildMoves
  <1>8. ProvisionProgress'
    BY DEF BatchInv, JobFits, ProvisionProgress, ChildMoves
  <1>9. QED
    BY <1>3, <1>4, <1>5, <1>6, <1>7, <1>8 DEF BatchInv

\* A new pool: a host that is not yet accounted for has a child in it.
LEMMA StartKeeps ==
  ASSUME TypeOK, BatchInv, NEW hs \in SUBSET Hosts, Start(hs)
  PROVE  BatchInv'
  <1>1. posted' \ (Accounted' \cup abandoned') = {}
    BY DEF Start, BatchInv, InHand, Accounted, TypeOK, hostVars, tcVars
  <1>2. job' \in DOMAIN First /\ (job' = "add" <=> phase' = "add") /\ phase' \in {"add", "solo"}
    <2>1. Head(session) \in DOMAIN First
      BY DEF Start, TypeOK
    <2>2. QED
      BY <2>1 DEF Start
  <1>3. \A h \in Hosts : child'[h] \in {"none", "queued"}
    BY DEF Start, Pool
  <1>4. InHand'
    BY <1>1 DEF InHand
  <1>5. QED
    BY <1>2, <1>3, <1>4 DEF Start, BatchInv, JobFits, PoolDone, WatchesTell, LateAddsReported,
                            ProvisionProgress

LEMMA LaunchKeeps ==
  ASSUME TypeOK, BatchInv, NEW h \in Hosts, Launch(h)
  PROVE  BatchInv'
  <1>1. child[h] = "queued" /\ child'[h] = First[job] /\ \A g \in Hosts \ {h} : child'[g] = child[g]
    BY DEF Launch, Become, TypeOK
  <1>2. UNCHANGED <<hostVars, phase, job, recorded, posted, reported, abandoned, session>>
    BY DEF Launch
  <1>3. First[job] \in {"resolve", "watch", "preflight", "mint"} /\ (First[job] = "resolve" => job = "add")
        /\ (job = "watch" => First[job] = "watch") /\ (job = "provision" => First[job] = "preflight")
    BY FirstIs DEF TypeOK
  <1>4. UNCHANGED <<quarantined, token, escrowed, sentinel, Accounted>>
    BY <1>2 DEF hostVars, tcVars, machineVars, scriptVars, Accounted
  <1>5. h \notin recorded /\ phase \notin {"idle", "between"}
    BY <1>1 DEF BatchInv, PoolDone, Outcomes
  <1>6. JobFits'
    BY <1>1, <1>2, <1>3 DEF BatchInv, JobFits
  <1>7. PoolDone'
    BY <1>1, <1>2, <1>5, recorded \subseteq Hosts DEF BatchInv, PoolDone, TypeOK
  <1>8. WatchesTell'
    BY <1>1, <1>2, <1>3, <1>4 DEF BatchInv, WatchesTell
  <1>9. InHand'
    BY <1>1, <1>2, <1>3, <1>4 DEF BatchInv, InHand, TypeOK
  <1>10. LateAddsReported'
    BY <1>1, <1>2, <1>3 DEF BatchInv, LateAddsReported
  <1>11. ProvisionProgress'
    BY <1>1, <1>2, <1>3, <1>4 DEF BatchInv, ProvisionProgress
  <1>12. QED
    BY <1>6, <1>7, <1>8, <1>9, <1>10, <1>11 DEF BatchInv

\* With its result, a failed watch becomes known to the operator.
LEMMA RecordKeeps ==
  ASSUME TypeOK, BatchInv, NEW h \in Hosts, Record(h)
  PROVE  BatchInv'
  <1>1. UNCHANGED <<hostVars, phase, job, child, posted, abandoned, session>>
        /\ reported \subseteq reported'
    BY DEF Record
  <1>2. UNCHANGED <<quarantined, token, escrowed, sentinel>> /\ Accounted \subseteq Accounted'
    BY <1>1 DEF hostVars, tcVars, machineVars, scriptVars, Accounted
  <1>3. recorded' = recorded \cup {h} /\ child[h] \in Outcomes /\ phase # "idle"
        /\ (child[h] = "failed" /\ job = "watch" => h \in reported')
    BY DEF Record
  <1>4. JobFits'
    BY <1>1 DEF BatchInv, JobFits
  <1>5. PoolDone'
    BY <1>1, <1>3 DEF BatchInv, PoolDone
  <1>6. WatchesTell'
    BY <1>1, <1>2, <1>3 DEF BatchInv, WatchesTell
  <1>7. InHand'
    BY <1>1, <1>2 DEF BatchInv, InHand
  <1>8. LateAddsReported' /\ ProvisionProgress'
    BY <1>1, <1>2 DEF BatchInv, LateAddsReported, ProvisionProgress
  <1>9. QED
    BY <1>4, <1>5, <1>6, <1>7, <1>8 DEF BatchInv

\* When a watch pool is over, every posted host is accounted for.
LEMMA PoolOver ==
  ASSUME TypeOK, BatchInv, AllRecorded, phase \in {"watch", "solo"}
  PROVE  posted \subseteq Accounted \cup abandoned
  <1> SUFFICES ASSUME NEW h \in posted, h \notin Accounted \cup abandoned PROVE FALSE
    OBVIOUS
  <1>1. phase = "watch" /\ job = "watch" /\ child[h] # "none"
    BY DEF BatchInv, InHand, JobFits
  <1>2. h \in recorded /\ child[h] \in {"ok", "failed"}
    BY <1>1 DEF AllRecorded, Listed, BatchInv, PoolDone, JobFits, Outcomes, TypeOK
  <1>3. h \in quarantined \cup reported
    BY <1>1, <1>2 DEF BatchInv, WatchesTell, TypeOK
  <1>4. QED
    BY <1>3 DEF Accounted

\* What a step that only moves the phase keeps: it ends no pool that still has
\* work, and passes nobody over who is not accounted for.
LEMMA PhaseMoves ==
  ASSUME TypeOK, BatchInv, UNCHANGED <<hostVars, poolVars, posted, reported>>,
         abandoned \subseteq abandoned',
         phase' \in Phases \ {"solo"},
         phase' \in {"add", "between", "stopAdd", "quitAdd"} => job = "add",
         phase' \in {"watch", "stopWatch", "quitWatch"} => job = "watch",
         phase' \in {"idle", "between"} => \A h \in Hosts : child[h] \in Outcomes \cup {"none"},
         phase' \in {"idle", "drain"} => posted \subseteq Accounted \cup abandoned',
         phase' = "drain" /\ job = "add" => Queued \cup Running \subseteq reported \cup abandoned',
         phase # "drain"
  PROVE  BatchInv'
  <1>1. UNCHANGED <<job, child, recorded, quarantined, token, escrowed, sentinel, Accounted>>
    BY DEF hostVars, poolVars, tcVars, machineVars, scriptVars, Accounted
  <1>2. JobFits'
    BY <1>1 DEF BatchInv, JobFits
  <1>3. PoolDone'
    BY <1>1 DEF BatchInv, PoolDone
  <1>4. WatchesTell' /\ ProvisionProgress'
    BY <1>1 DEF BatchInv, WatchesTell, ProvisionProgress
  <1>5. InHand'
    BY <1>1 DEF BatchInv, InHand
  <1>6. LateAddsReported'
    BY <1>1 DEF BatchInv, LateAddsReported, Queued, Running, Steps
  <1>7. QED
    BY <1>2, <1>3, <1>4, <1>5, <1>6 DEF BatchInv

\* The barrier: whoever is not accounted for may have been added.
LEMMA BarrierCovers ==
  ASSUME TypeOK, BatchInv, phase \in {"between", "stopAdd"}
  PROVE  posted \ (Accounted \cup abandoned) \subseteq MaybeAdded
  BY DEF BatchInv, InHand, JobFits, MaybeAdded, Listed, TypeOK

\* A wave holds on to whoever it has not accounted for.
LEMMA WaveCovers ==
  ASSUME TypeOK, BatchInv
  PROVE  posted \ (Accounted \cup abandoned) \subseteq Listed
  BY DEF BatchInv, InHand, Listed, TypeOK

LEMMA AddDoneKeeps ==
  ASSUME TypeOK, BatchInv, AddDone
  PROVE  BatchInv'
  <1>1. \A h \in Hosts : child[h] \in Outcomes \cup {"none"}
    BY DEF AddDone, AllRecorded, Listed, BatchInv, PoolDone
  <1>2. job = "add"
    BY DEF AddDone, BatchInv, JobFits
  <1>3. QED
    BY <1>1, <1>2, PhaseMoves DEF AddDone, Phases

\* Whoever is not accounted for gets a watcher.
LEMMA WatchAddedKeeps ==
  ASSUME TypeOK, BatchInv, WatchAdded
  PROVE  BatchInv'
  <1>1. posted \ (Accounted \cup abandoned) \subseteq MaybeAdded
    BY BarrierCovers DEF WatchAdded
  <1>2. UNCHANGED <<quarantined, token, escrowed, sentinel, posted, reported, abandoned, Accounted>>
    BY DEF WatchAdded, hostVars, tcVars, machineVars, scriptVars, Accounted
  <1>3. CASE MaybeAdded = {}
    <2>1. phase = "between" /\ phase' = "idle" /\ UNCHANGED poolVars
      BY <1>3 DEF WatchAdded
    <2>2. \A h \in Hosts : child[h] \in Outcomes \cup {"none"}
      BY <2>1 DEF BatchInv, PoolDone
    <2>3. posted \subseteq Accounted \cup abandoned'
      BY <1>1, <1>2, <1>3
    <2>4. QED
      BY <1>2, <2>1, <2>2, <2>3, PhaseMoves DEF WatchAdded, Phases
  <1>4. CASE MaybeAdded # {}
    <2>1. phase' = "watch" /\ job' = "watch" /\ recorded' = {} /\ child' = Pool(MaybeAdded)
      BY <1>4 DEF WatchAdded
    <2>2. \A h \in Hosts : child'[h] = IF h \in MaybeAdded THEN "queued" ELSE "none"
      BY <2>1 DEF Pool
    <2>3. InHand'
      BY <1>1, <1>2, <2>1, <2>2 DEF InHand, TypeOK
    <2>4. QED
      BY <2>1, <2>2, <2>3 DEF BatchInv, JobFits, PoolDone, WatchesTell,
         LateAddsReported, ProvisionProgress
  <1>5. QED
    BY <1>3, <1>4

\* An error among the results: the wave is still in its pool.
LEMMA RaiseKeeps ==
  ASSUME TypeOK, BatchInv, ResultRaises
  PROVE  BatchInv'
  <1>1. UNCHANGED <<hostVars, poolVars, posted, reported, abandoned>>
    BY DEF ResultRaises
  <1>2. \/ phase = "add" /\ phase' = "quitAdd"
        \/ phase = "watch" /\ phase' = "quitWatch"
        \/ phase = "solo" /\ phase' = "drain"
    BY DEF ResultRaises
  <1>3. phase = "solo" => job # "add" /\ posted \subseteq Accounted \cup abandoned'
    BY <1>1 DEF BatchInv, JobFits, InHand
  <1>4. (phase = "add" => job = "add") /\ (phase = "watch" => job = "watch")
    BY DEF BatchInv, JobFits
  <1>5. QED
    BY <1>1, <1>2, <1>3, <1>4, PhaseMoves DEF Phases

\* The wave breaks off: all it had are hosts it abandons.
LEMMA BreakKeeps ==
  ASSUME TypeOK, BatchInv, Leave \/ BreakOff
  PROVE  BatchInv' /\ posted \subseteq Accounted \cup abandoned'
  <1>1. UNCHANGED <<hostVars, poolVars, posted, reported>> /\ abandoned' = abandoned \cup Listed
    BY DEF Leave, BreakOff
  <1>2. posted \subseteq Accounted \cup abandoned'
    BY <1>1, WaveCovers
  <1>3. Queued \cup Running \subseteq Listed
    BY DEF Queued, Running, Listed, Steps
  <1>4. phase # "drain" /\ phase' \in {"idle", "drain"}
    BY DEF Leave, BreakOff
  <1>5. ASSUME phase' = "idle" PROVE \A h \in Hosts : child[h] \in Outcomes \cup {"none"}
    <2>1. CASE Leave
      BY <2>1 DEF Leave, Queued, Running, TypeOK
    <2>2. CASE BreakOff
      BY <1>5, <2>2 DEF BreakOff, BatchInv, PoolDone
    <2>3. QED
      BY <2>1, <2>2
  <1>6. QED
    BY <1>1, <1>2, <1>3, <1>4, <1>5, PhaseMoves DEF Phases

LEMMA EndKeeps ==
  ASSUME TypeOK, BatchInv, Summarise \/ Exit
  PROVE  BatchInv' /\ posted \subseteq Accounted \cup abandoned
  <1>1. UNCHANGED <<hostVars, poolVars, posted, reported, abandoned>> /\ phase' = "idle"
    BY DEF Summarise, Exit
  <1>2. UNCHANGED <<job, child, recorded, quarantined, token, escrowed, sentinel, Accounted>>
    BY <1>1 DEF hostVars, poolVars, tcVars, machineVars, scriptVars, Accounted
  <1>3. posted \subseteq Accounted \cup abandoned
    BY PoolOver DEF Summarise, Exit, BatchInv, InHand
  <1>4. \A h \in Hosts : child[h] \in Outcomes \cup {"none"}
    <2>1. CASE Summarise
      BY <2>1 DEF Summarise, AllRecorded, Listed, BatchInv, PoolDone
    <2>2. CASE Exit
      BY <2>2 DEF Exit, Queued, Running, TypeOK
    <2>3. QED
      BY <2>1, <2>2
  <1>5. QED
    BY <1>1, <1>2, <1>3, <1>4 DEF BatchInv, JobFits, PoolDone, WatchesTell, InHand,
       LateAddsReported, ProvisionProgress

\* Nobody is left for an interrupted wave to forget once it has reported.
LEMMA ReportKeeps ==
  ASSUME TypeOK, BatchInv, ReportOrphans
  PROVE  BatchInv'
  <1>1. UNCHANGED <<hostVars, poolVars, posted, abandoned, session>> /\ phase' = "drain"
        /\ reported \subseteq reported'
    BY DEF ReportOrphans
  <1>2. UNCHANGED <<quarantined, token, escrowed, sentinel>>
    BY <1>1 DEF hostVars, tcVars, machineVars, scriptVars
  <1>3. posted \subseteq Accounted' \cup abandoned
    <2>1. CASE phase = "stopAdd"
      BY <1>2, <2>1, BarrierCovers DEF ReportOrphans, Accounted
    <2>2. CASE phase = "stopWatch"
      BY <1>2, <2>2, WaveCovers DEF ReportOrphans, Accounted
    <2>3. QED
      BY <2>1, <2>2 DEF ReportOrphans
  <1>4. LateAddsReported'
    BY <1>1 DEF ReportOrphans, BatchInv, JobFits, PoolDone, LateAddsReported, MaybeAdded,
                Listed, Outcomes, poolVars
  <1>5. QED
    BY <1>1, <1>2, <1>3, <1>4 DEF BatchInv, JobFits, PoolDone, WatchesTell, InHand,
       ProvisionProgress, poolVars

LEMMA InterruptKeeps ==
  ASSUME TypeOK, BatchInv, Interrupt
  PROVE  BatchInv'
  <1>1. UNCHANGED <<hostVars, job, recorded, posted, reported, abandoned, session>>
    BY DEF Interrupt
  <1>2. UNCHANGED <<quarantined, token, escrowed, sentinel, Accounted>>
    BY <1>1 DEF hostVars, tcVars, machineVars, scriptVars, Accounted
  <1>3. \A h \in Hosts : child'[h] = child[h] \/ (child[h] \in Steps /\ child'[h] = "failed")
    BY DEF Interrupt, Running
  <1>4. \/ phase \in {"add", "quitAdd"} /\ phase' = "stopAdd"
        \/ phase \in {"watch", "quitWatch"} /\ phase' = "stopWatch"
        \/ phase = "solo" /\ phase' = "drain"
    BY DEF Interrupt, Stopped
  <1>5. JobFits'
    BY <1>1, <1>3, <1>4 DEF BatchInv, JobFits
  <1>6. PoolDone'
    BY <1>1, <1>3, <1>4, recorded \subseteq Hosts DEF BatchInv, PoolDone, TypeOK, Outcomes
  <1>7. WatchesTell'
    BY <1>1, <1>2, <1>3 DEF BatchInv, WatchesTell, PoolDone, Steps, Outcomes
  <1>8. InHand'
    BY <1>1, <1>2, <1>3, <1>4 DEF BatchInv, InHand, TypeOK, Steps
  <1>9. LateAddsReported'
    BY <1>1, <1>4 DEF BatchInv, JobFits, LateAddsReported
  <1>10. ProvisionProgress'
    BY <1>1, <1>2, <1>3 DEF BatchInv, ProvisionProgress
  <1>11. QED
    BY <1>5, <1>6, <1>7, <1>8, <1>9, <1>10 DEF BatchInv

LEMMA InvStep == TypeOK /\ BatchInv /\ [Next]_vars => BatchInv'
  <1> SUFFICES ASSUME TypeOK, BatchInv, [Next]_vars PROVE BatchInv'
    OBVIOUS
  <1>1. CASE UNCHANGED vars
    <2>1. UNCHANGED <<phase, job, child, recorded, posted, reported, abandoned, quarantined,
                      token, escrowed, sentinel>>
      BY <1>1 DEF vars, hostVars, batchVars, poolVars, tcVars, machineVars, scriptVars
    <2>2. QED
      BY <2>1 DEF BatchInv, JobFits, PoolDone, WatchesTell, InHand, LateAddsReported,
                  ProvisionProgress, Accounted
  <1>2. CASE Next
    BY <1>2, HostKeeps, ChildKeeps, StartKeeps, LaunchKeeps, RecordKeeps, AddDoneKeeps,
       WatchAddedKeeps, EndKeeps, ReportKeeps, RaiseKeeps, BreakKeeps, InterruptKeeps
    DEF Next, ParentStep
  <1>3. QED
    BY <1>1, <1>2

\* The inductive invariant holds of every reachable state.
THEOREM InvariantHolds == Spec => []BatchInv
  <1>1. TypeOK /\ BatchInv /\ TypeOK' /\ [Next]_vars => BatchInv'
    BY InvStep
  <1>2. QED
    BY <1>1, InitInv, TypeCorrect, PTL DEF Spec

-----------------------------------------------------------------------------
(* What it gives *)

\* No host put into the bootstrap group is forgotten when the batch is over,
\* however the pools, the hosts, failed children and interrupts of the pools
\* interleave, unless its wave broke off where no handler covers it.
THEOREM NoneForgotten == Spec => []NoOneForgotten
  <1>1. BatchInv => NoOneForgotten
    BY DEF BatchInv, InHand, NoOneForgotten
  <1>2. QED
    BY <1>1, InvariantHolds, PTL

\* An ok of `provision --quarantine-on-register` is never a partial one.
THEOREM WholeProvision == Spec => []ProvisionedWhole
  <1>1. BatchInv => ProvisionedWhole
    BY DEF BatchInv, WatchesTell, ProvisionProgress, ProvisionedWhole
  <1>2. QED
    BY <1>1, InvariantHolds, PTL

-----------------------------------------------------------------------------
(* A batch keeps the promise of Custody *)

LEMMA PromiseInit == Init => Promise!Init
  BY DEF Init, HostInit, Promise!Init, Accounted

LEMMA PromiseChild ==
  ASSUME TypeOK, BatchInv, NEW h \in Hosts, ChildStep(h)
  PROVE  [Promise!Next]_(Promise!vars)
  <1>1. phase # "idle" /\ phase' = phase
    <2>1. child[h] \in Steps
      BY ChildMove DEF ChildMoves, Steps
    <2>2. QED
      BY <2>1, ChildFrame DEF BatchInv, PoolDone, Steps, Outcomes
  <1>2. CASE AddToGroup(h)
    <2>1. posted' = posted \cup {h} /\ Accounted' = Accounted /\ abandoned' = abandoned
      BY <1>2 DEF AddToGroup, Passes, Accounted, tcVars
    <2>2. Promise!Send(h)
      BY <1>1, <2>1 DEF Promise!Send
    <2>3. QED
      BY <2>2 DEF Promise!Next
  <1>3. CASE QuarantineOnRegister(h)
    <2>1. posted' = posted /\ Accounted' = Accounted \cup {h} /\ abandoned' = abandoned
      BY <1>3 DEF QuarantineOnRegister, Passes, Quarantine, Accounted
    <2>2. Promise!Account({h})
      BY <1>1, <2>1 DEF Promise!Account
    <2>3. QED
      BY <2>2 DEF Promise!Next
  <1>4. CASE ~AddToGroup(h) /\ ~QuarantineOnRegister(h)
    <2>1. posted' = posted /\ Accounted' = Accounted /\ abandoned' = abandoned
      BY <1>4 DEF ChildStep, ResolveDevice, PushGroup, Preflight, Mint, EscrowBst, PkgLanded,
         SentinelSeen, Granted, NotReady, ChildFails, Passes, Accounted, hostVars, tcVars
    <2>2. QED
      BY <1>1, <2>1 DEF Promise!vars
  <1>5. QED
    BY <1>2, <1>3, <1>4

LEMMA PromiseEnd ==
  ASSUME phase # "idle", phase' = "idle", posted \subseteq Accounted \cup abandoned,
         UNCHANGED <<posted, Accounted, abandoned>>
  PROVE  [Promise!Next]_(Promise!vars)
  <1>1. Promise!Close
    BY DEF Promise!Close, Promise!Forgotten
  <1>2. QED
    BY <1>1 DEF Promise!Next

LEMMA PromiseBreak ==
  ASSUME phase # "idle", UNCHANGED <<posted, Accounted>>,
         NEW hs \in SUBSET Hosts, abandoned' = abandoned \cup hs,
         posted \subseteq Accounted \cup abandoned'
  PROVE  [Promise!Next]_(Promise!vars)
  <1>1. CASE phase' = "idle"
    <2>1. Promise!BreakAndClose(hs)
      BY <1>1 DEF Promise!BreakAndClose, Promise!Forgotten
    <2>2. QED
      BY <2>1 DEF Promise!Next
  <1>2. CASE phase' # "idle"
    <2>1. Promise!Break(hs)
      BY <1>2 DEF Promise!Break
    <2>2. QED
      BY <2>1 DEF Promise!Next
  <1>3. QED
    BY <1>1, <1>2

LEMMA PromiseReport ==
  ASSUME phase # "idle", phase' # "idle", UNCHANGED <<posted, abandoned>>,
         NEW hs \in SUBSET Hosts, Accounted' = Accounted \cup hs
  PROVE  [Promise!Next]_(Promise!vars)
  <1>1. Promise!Account(hs)
    BY DEF Promise!Account
  <1>2. QED
    BY <1>1 DEF Promise!Next

LEMMA PromiseStep ==
  ASSUME TypeOK, BatchInv, BatchInv', [Next]_vars
  PROVE  [Promise!Next]_(Promise!vars)
  <1>1. CASE \E hs \in SUBSET Hosts \ {{}} : Start(hs)
    <2>1. phase = "idle" /\ phase' # "idle" /\ UNCHANGED <<posted, Accounted, abandoned>>
      BY <1>1 DEF Start, hostVars, tcVars, Accounted
    <2>2. Promise!Open
      BY <2>1 DEF Promise!Open
    <2>3. QED
      BY <2>2 DEF Promise!Next
  <1>2. CASE \E h \in Hosts : ChildStep(h)
    BY <1>2, PromiseChild
  <1>3. CASE \E h \in Hosts : Record(h)
    <2>1. PICK h \in Hosts : Record(h)
      BY <1>3
    <2>2. phase # "idle" /\ phase' # "idle" /\ UNCHANGED <<posted, abandoned>>
      BY <2>1 DEF Record
    <2>3. \E hs \in SUBSET Hosts : Accounted' = Accounted \cup hs
      <3>1. reported' = reported \cup {h} \/ reported' = reported \cup {}
        BY <2>1 DEF Record
      <3>2. QED
        BY <2>1, <3>1 DEF Record, Accounted, hostVars, tcVars
    <2>4. QED
      BY <2>2, <2>3, PromiseReport
  <1>4. CASE ReportOrphans
    <2>1. phase # "idle" /\ phase' # "idle" /\ UNCHANGED <<posted, abandoned>>
      BY <1>4 DEF ReportOrphans
    <2>2. \E hs \in SUBSET Hosts : Accounted' = Accounted \cup hs
      BY <1>4 DEF ReportOrphans, Accounted, hostVars, tcVars, MaybeAdded, Listed
    <2>3. QED
      BY <2>1, <2>2, PromiseReport
  <1>5. CASE Summarise \/ Exit
    <2>1. phase # "idle" /\ phase' = "idle" /\ UNCHANGED <<posted, Accounted, abandoned>>
      BY <1>5 DEF Summarise, Exit, hostVars, tcVars, Accounted
    <2>2. QED
      BY <1>5, <2>1, EndKeeps, PromiseEnd
  <1>6. CASE WatchAdded
    <2>1. phase = "between" /\ UNCHANGED <<posted, Accounted, abandoned>>
      BY <1>6 DEF WatchAdded, hostVars, tcVars, Accounted
    <2>2. CASE phase' = "idle"
      <3>1. posted \subseteq Accounted \cup abandoned
        BY <2>1, <2>2 DEF BatchInv, InHand
      <3>2. QED
        BY <2>1, <2>2, <3>1, PromiseEnd
    <2>3. CASE phase' # "idle"
      BY <2>1, <2>3 DEF Promise!vars
    <2>4. QED
      BY <2>2, <2>3
  <1>7. CASE Leave \/ BreakOff
    <2>1. phase # "idle" /\ UNCHANGED <<posted, Accounted>> /\ abandoned' = abandoned \cup Listed
      BY <1>7 DEF Leave, BreakOff, hostVars, tcVars, Accounted
    <2>2. Listed \in SUBSET Hosts
      BY DEF Listed
    <2>3. QED
      BY <1>7, <2>1, <2>2, BreakKeeps, PromiseBreak
  <1>8. CASE AddDone \/ ResultRaises \/ Interrupt
    <2>1. UNCHANGED <<posted, Accounted, abandoned>>
      BY <1>8 DEF AddDone, ResultRaises, Interrupt, hostVars, tcVars, Accounted
    <2>2. phase # "idle" /\ phase' # "idle"
      BY <1>8 DEF AddDone, ResultRaises, Interrupt, Stopped
    <2>3. QED
      BY <2>1, <2>2 DEF Promise!vars
  <1>9. CASE \/ UNCHANGED vars
             \/ \E h \in Hosts : Launch(h) \/ HostStep(h)
    <2>1. UNCHANGED <<posted, Accounted, abandoned, phase>>
      BY <1>9 DEF vars, hostVars, batchVars, tcVars, Launch, HostStep, HostNext,
         InstallPushed, InstallAtCheckIn, Install, Reboot, ScriptAborts, ScriptInstallsDriver,
         DriverStartsWorker, DriverFinishes, WorkerRegisters, Accounted
    <2>2. QED
      BY <2>1 DEF Promise!vars
  <1>10. QED
    BY <1>1, <1>2, <1>3, <1>4, <1>5, <1>6, <1>7, <1>8, <1>9 DEF Next, ParentStep

\* Every behaviour of a batch is one Custody allows.
THEOREM ImplementsCustody == Spec => CustodySpec
  <1>1. Init => Promise!Init
    BY PromiseInit
  <1>2. TypeOK /\ BatchInv /\ BatchInv' /\ [Next]_vars => [Promise!Next]_(Promise!vars)
    BY PromiseStep
  <1>3. QED
    BY <1>1, <1>2, TypeCorrect, InvariantHolds, PTL DEF Spec, CustodySpec, Promise!Spec
=============================================================================
