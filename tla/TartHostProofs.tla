--------------------------- MODULE TartHostProofs ---------------------------
(***************************************************************************)
(* For every number of slots. Held (a half-done host serves nobody, a      *)
(* command releases a worker only on a host that is ready) whatever the    *)
(* lag of recentTasks; idle as well (the host goes down only under no      *)
(* task, and TartHost implements Maintenance) when the drain bridges it.   *)
(***************************************************************************)
EXTENDS TartHost, TLAPS

-----------------------------------------------------------------------------
(* Helpers *)

LEMMA AdvanceFacts ==
  ASSUME next \in Workers, NEW to, Advance(to)
  PROVE  /\ next' \in Workers
         /\ \/ next = N /\ next' = 1 /\ pc' = to
            \/ next # N /\ next' = next + 1 /\ pc' = pc
  BY SlotsAssumption DEF Advance, Workers

LEMMA DownFacts ==
  ASSUME NEW h \in Hosts, Down(h)
  PROVE  /\ host' \in Hosts
         /\ vms' = {} /\ active' = {} /\ busy' = {} /\ shown' = {}
  BY DEF Down

\* What becomes of the host, field by field.
LEMMA HostFields ==
  ASSUME host \in Hosts
  PROVE  /\ \A v \in Versions :
              /\ [host EXCEPT !.up = FALSE, !.owed = FALSE, !.version = v] \in Hosts
              /\ [host EXCEPT !.up = FALSE, !.owed = FALSE, !.version = v].up = FALSE
         /\ [host EXCEPT !.up = FALSE, !.owed = FALSE] \in Hosts
         /\ [host EXCEPT !.up = TRUE] \in Hosts
         /\ [host EXCEPT !.config = "half"] \in Hosts
         /\ \A asks \in BOOLEAN :
              [host EXCEPT !.config = "good", !.owed = @ \/ asks] \in Hosts
  <1>1. \A asks \in BOOLEAN : (host.owed \/ asks) \in BOOLEAN
    OBVIOUS
  <1>2. QED
    BY <1>1 DEF Hosts, Versions

-----------------------------------------------------------------------------
(* Type correctness *)

LEMMA InitType == Init => TypeOK
  <1> SUFFICES ASSUME Init PROVE TypeOK
    OBVIOUS
  <1>1. host \in Hosts
    BY DEF Init, Hosts, Versions
  <1>2. next \in Workers
    BY SlotsAssumption DEF Init, Workers
  <1>3. missed \in [Workers -> Nat] /\ quarantined \subseteq Workers
    BY DEF Init
  <1>4. QED
    BY <1>1, <1>2, <1>3 DEF Init, TypeOK, Versions, Places, Modes

LEMMA StepType == TypeOK /\ Step => TypeOK'
  <1> SUFFICES ASSUME TypeOK, Step PROVE TypeOK'
    OBVIOUS
  <1> USE DEF TypeOK, tcVars, hostVars, Places
  <1>1. CASE QuarantineNext
    BY <1>1, AdvanceFacts DEF QuarantineNext
  <1>2. CASE DrainPoll
    <2>1. missed' \in [Workers -> Nat]
      <3>1. missed[next] + 1 \in Nat
        OBVIOUS
      <3>2. QED
        BY <1>2, <3>1 DEF DrainPoll, CountMiss
    <2>2. AfterDrain \in Places
      BY DEF AfterDrain
    <2>3. next' \in Workers /\ pc' \in Places /\ idle' \in {0, 1}
      BY <1>2, <2>2, AdvanceFacts DEF DrainPoll
    <2>4. QED
      BY <1>2, <2>1, <2>3 DEF DrainPoll
  <1>3. CASE PostUpdate
    BY <1>3 DEF PostUpdate, Hosts
  <1>4. CASE SeeUpdate
    BY <1>4 DEF SeeUpdate, Fail
  <1>5. CASE ApplyPuppet
    BY <1>5, HostFields DEF ApplyPuppet
  <1>6. CASE Reboot
    BY <1>6, HostFields, DownFacts DEF Reboot
  <1>7. CASE SeeBoot
    BY <1>7 DEF SeeBoot
  <1>8. CASE RegisterPoll
    BY <1>8, SlotsAssumption DEF RegisterPoll, Workers
  <1>9. CASE UnquarantineNext
    BY <1>9, AdvanceFacts DEF UnquarantineNext
  <1>10. CASE Verify
    BY <1>10 DEF Verify
  <1>11. CASE VerifyFails
    BY <1>11, SlotsAssumption DEF VerifyFails, Workers
  <1>12. CASE RequarantineNext
    BY <1>12, AdvanceFacts DEF RequarantineNext
  <1>13. QED
    BY <1>1, <1>2, <1>3, <1>4, <1>5, <1>6, <1>7, <1>8, <1>9, <1>10, <1>11, <1>12 DEF Step

LEMMA NextType == TypeOK /\ [Next]_vars => TypeOK'
  <1> SUFFICES ASSUME TypeOK, [Next]_vars PROVE TypeOK'
    OBVIOUS
  <1> USE DEF TypeOK, tcVars, hostVars, opVars, Places, Modes
  <1>1. CASE UNCHANGED vars
    BY <1>1 DEF vars
  <1>2. CASE Step
    BY <1>2, StepType
  <1>3. ASSUME NEW m \in Modes, Start(m) PROVE TypeOK'
    BY <1>3, SlotsAssumption DEF Start, Workers
  <1>4. CASE PuppetFails
    BY <1>4, HostFields DEF PuppetFails, Fail
  <1>5. CASE Raise
    BY <1>5 DEF Raise, Fail
  <1>6. CASE Killed
    BY <1>6 DEF Killed
  <1>7. CASE ExecuteUpdate
    <2>1. PICK v \in Versions : Down([host EXCEPT !.up = FALSE, !.owed = FALSE, !.version = v])
      BY <1>7 DEF ExecuteUpdate, Versions
    <2>2. host' \in Hosts /\ vms' = {} /\ active' = {} /\ busy' = {} /\ shown' = {}
      BY <2>1, HostFields, DownFacts
    <2>3. QED
      BY <1>7, <2>2 DEF ExecuteUpdate
  <1>8. CASE Boot
    BY <1>8, HostFields DEF Boot
  <1>9. ASSUME NEW w \in Workers,
               Claim(w) \/ ShowClaim(w) \/ FinishTask(w) \/ Expire(w) \/ StartVM(w) \/ CheckIn(w)
        PROVE  TypeOK'
    <2>1. CASE Claim(w)
      BY <2>1 DEF Claim
    <2>2. CASE ShowClaim(w)
      BY <2>2 DEF ShowClaim, InvisibleClaim
    <2>3. CASE FinishTask(w)
      BY <2>3 DEF FinishTask
    <2>4. CASE Expire(w)
      BY <2>4 DEF Expire
    <2>5. CASE StartVM(w)
      BY <2>5 DEF StartVM
    <2>6. CASE CheckIn(w)
      BY <2>6 DEF CheckIn
    <2>7. QED
      BY <1>9, <2>1, <2>2, <2>3, <2>4, <2>5, <2>6
  <1>10. QED
    BY <1>1, <1>2, <1>3, <1>4, <1>5, <1>6, <1>7, <1>8, <1>9 DEF Next

\* The type invariant holds in every reachable state.
THEOREM TypeCorrect == Spec => []TypeOK
  BY InitType, NextType, PTL DEF Spec

-----------------------------------------------------------------------------
(* Held: what every release relies on *)

LEMMA InitHeld == Init => HeldInv
  <1> SUFFICES ASSUME Init PROVE HeldInv
    OBVIOUS
  <1>1. host.up /\ ~host.owed /\ host.config = "good" /\ ~pending
    BY DEF Init
  <1>2. QED
    BY <1>1, SlotsAssumption
       DEF Init, HeldInv, QuarantineInv, HalfDoneInv, ProgressInv, HalfDone, AtWork,
           Workers

\* The step that ends a command early keeps what it has done so far.
LEMMA StopHeld ==
  ASSUME HeldInv, pc' = "idle", UNCHANGED <<quarantined, host, pending>>
  PROVE  HeldInv'
  BY DEF HeldInv, QuarantineInv, HalfDoneInv, ProgressInv, HalfDone, AtWork

\* Neither do steps that touch nothing a release relies on.
LEMMA SameHeld ==
  ASSUME HeldInv, UNCHANGED <<quarantined, host, pending, booted, pc, mode, next, cur, waiting>>,
         active \subseteq active', active' \subseteq Workers
  PROVE  HeldInv'
  <1>1. QuarantineInv' /\ HalfDoneInv'
    BY DEF HeldInv, QuarantineInv, HalfDoneInv, HalfDone
  <1>2. ProgressInv'
    BY DEF HeldInv, ProgressInv, Accepted
  <1>3. QED
    BY <1>1, <1>2 DEF HeldInv

LEMMA StartHeld ==
  ASSUME ~Careless, HeldInv, NEW m \in Modes, Start(m)
  PROVE  HeldInv'
  BY DEF Start, Workers, HeldInv, QuarantineInv, HalfDoneInv, ProgressInv, HalfDone,
         AtWork, tcVars, hostVars

LEMMA QuarantineHeld ==
  ASSUME TypeOK, HeldInv, QuarantineNext
  PROVE  HeldInv'
  <1> USE DEF QuarantineNext, HeldInv, hostVars
  <1>1. HalfDoneInv'
    BY DEF HalfDoneInv, HalfDone, TypeOK
  <1>2. CASE next # N
    <2>1. pc' = "quarantine" /\ next' = next + 1
      BY <1>2 DEF Advance
    <2>2. QuarantineInv'
      BY <2>1 DEF QuarantineInv, TypeOK, Workers, AtWork
    <2>3. QED
      BY <1>1, <2>1, <2>2 DEF ProgressInv
  <1>3. CASE next = N
    <2>1. pc' = "drain" /\ next' = 1
      BY <1>3 DEF Advance
    <2>2. quarantined' = Workers
      <3>1. \A w \in Workers : w < N => w \in quarantined
        BY <1>3 DEF QuarantineInv
      <3>2. N \in Workers /\ \A w \in Workers : w < N \/ w = N
        BY SlotsAssumption DEF Workers
      <3>3. quarantined' = quarantined \cup {N} /\ quarantined \subseteq Workers
        BY <1>3 DEF TypeOK
      <3>4. QED
        BY <3>1, <3>2, <3>3
    <2>3. QED
      BY <1>1, <2>1, <2>2 DEF QuarantineInv, ProgressInv
  <1>4. QED
    BY <1>2, <1>3

\* The drain ends where the update, or puppet, begins; nobody is released.
LEMMA DrainHeld ==
  ASSUME TypeOK, HeldInv, DrainPoll
  PROVE  HeldInv'
  <1> USE DEF HeldInv, hostVars
  <1>1. UNCHANGED <<quarantined, host, pending, active, booted, mode, waiting>>
    BY DEF DrainPoll
  <1>2. /\ quarantined = Workers
        /\ mode = "puppetOnly" => ~pending /\ ~host.owed
        /\ mode \in Modes
    BY DEF DrainPoll, QuarantineInv, ProgressInv, TypeOK
  <1>3. \/ pc' = "drain"
        \/ pc' = "update" /\ mode = "full"
        \/ pc' = "puppet" /\ mode = "puppetOnly"
    BY <1>2, AdvanceFacts DEF DrainPoll, AfterDrain, Modes, TypeOK
  <1>4. QED
    BY <1>1, <1>2, <1>3 DEF QuarantineInv, HalfDoneInv, HalfDone, ProgressInv

\* An update is queued only on a host that is held and below min_os; at or past
\* it, the version is the one the step found.
LEMMA PostUpdateHeld ==
  ASSUME TypeOK, HeldInv, PostUpdate
  PROVE  HeldInv'
  <1> USE DEF PostUpdate, HeldInv, tcVars
  <1>1. quarantined = Workers
    BY DEF QuarantineInv, AtWork
  <1>2. pc' = "puppet" => ~pending' /\ Accepted'
    BY DEF HalfDoneInv, AtLeastMinOS, Accepted
  <1>3. mode = "full" /\ mode' = mode /\ pc' \in {"puppet", "installing"}
    BY DEF ProgressInv
  <1>4. pending' => host'.version \notin AtLeastMinOS
    BY DEF HalfDoneInv
  <1>5. QED
    BY <1>1, <1>2, <1>3, <1>4 DEF QuarantineInv, HalfDoneInv, ProgressInv

LEMMA SeeUpdateHeld ==
  ASSUME TypeOK, HeldInv, SeeUpdate
  PROVE  HeldInv'
  <1>1. CASE host.version # "new"
    BY <1>1, StopHeld DEF SeeUpdate, Fail, tcVars, hostVars
  <1>2. CASE host.version = "new"
    BY <1>2 DEF SeeUpdate, HeldInv, QuarantineInv, HalfDoneInv, HalfDone, ProgressInv,
                AtLeastMinOS, Accepted, AtWork, tcVars, hostVars
  <1>3. QED
    BY <1>1, <1>2

LEMMA PuppetHeld ==
  ASSUME TypeOK, HeldInv, ApplyPuppet \/ PuppetFails
  PROVE  HeldInv'
  <1> USE DEF HeldInv, tcVars
  <1>1. /\ quarantined = Workers /\ quarantined' = Workers /\ ~pending
        /\ mode = "full" => Accepted
        /\ mode = "puppetOnly" => ~host.owed
        /\ mode \in Modes
    BY DEF ApplyPuppet, PuppetFails, QuarantineInv, AtWork, ProgressInv, TypeOK
  <1>2. CASE ApplyPuppet
    <2>1. PICK asks \in BOOLEAN :
            /\ host' = [host EXCEPT !.config = "good", !.owed = @ \/ asks]
            /\ pc' = IF asks \/ mode = "full" THEN "reboot" ELSE "register"
      BY <1>2 DEF ApplyPuppet
    <2>2. /\ host'.config = "good" /\ host'.version = host.version /\ host'.up = host.up
          /\ host'.owed = (host.owed \/ asks)
      BY <1>1, <2>1 DEF TypeOK, Hosts
    <2>3. /\ host.up /\ mode' = mode /\ waiting' = Workers /\ ~pending'
          /\ pc' \in {"reboot", "register"} /\ Accepted' = Accepted
      BY <1>1, <1>2, <2>2 DEF ApplyPuppet, Accepted
    <2>4. pc' = "register" => ~host'.owed
      <3>1. SUFFICES ASSUME pc' = "register" PROVE ~host'.owed
        OBVIOUS
      <3>2. ~asks /\ mode = "puppetOnly" /\ ~host.owed
        BY <1>1, <2>1, <3>1 DEF Modes
      <3>3. QED
        BY <2>2, <3>2
    <2>5. QED
      BY <1>1, <2>2, <2>3, <2>4 DEF QuarantineInv, HalfDoneInv, ProgressInv
  <1>3. CASE PuppetFails
    <2>1. pc' = "idle" /\ ~pending'
      BY <1>1, <1>3 DEF PuppetFails, Fail
    <2>2. QED
      BY <1>1, <2>1 DEF QuarantineInv, HalfDoneInv, ProgressInv, AtWork
  <1>4. QED
    BY <1>2, <1>3

LEMMA RebootHeld ==
  ASSUME TypeOK, HeldInv, Reboot
  PROVE  HeldInv'
  <1> USE DEF HeldInv
  <1>1. /\ quarantined = Workers /\ quarantined' = Workers
        /\ host.config = "good" /\ ~pending
        /\ mode = "full" => Accepted
    BY DEF Reboot, QuarantineInv, AtWork, ProgressInv
  <1>2. Accepted' = Accepted /\ host'.config = "good"
    BY <1>1 DEF Reboot, Down, TypeOK, Hosts, Accepted
  <1>3. pc' = "booting" /\ mode' = mode /\ ~pending' /\ ~booted' /\ waiting' = Workers
    BY <1>1 DEF Reboot, ProgressInv
  <1>4. host'.up \/ ~host'.owed
    <2>1. CASE Down([host EXCEPT !.up = FALSE, !.owed = FALSE])
      BY <2>1 DEF Down, TypeOK, Hosts
    <2>2. CASE UNCHANGED host
      BY <2>2 DEF Reboot
    <2>3. QED
      BY <2>1, <2>2 DEF Reboot
  <1>5. QED
    BY <1>1, <1>2, <1>3, <1>4 DEF QuarantineInv, HalfDoneInv, ProgressInv

LEMMA SeeBootHeld ==
  ASSUME TypeOK, HeldInv, SeeBoot
  PROVE  HeldInv'
  BY DEF SeeBoot, HeldInv, QuarantineInv, HalfDoneInv, HalfDone, ProgressInv, AtWork,
         Accepted, tcVars, hostVars

LEMMA RegisterHeld ==
  ASSUME TypeOK, HeldInv, RegisterPoll
  PROVE  HeldInv'
  <1> USE DEF HeldInv, tcVars, hostVars
  <1>1. Workers \ waiting' \subseteq active
    BY DEF RegisterPoll, ProgressInv
  <1>2. waiting' = {} => active = Workers
    BY <1>1 DEF TypeOK
  <1>3. QED
    BY <1>1, <1>2 DEF RegisterPoll, QuarantineInv, HalfDoneInv, HalfDone, ProgressInv,
                      Accepted, AtWork

\* Releasing a worker: the host is not half-done.
LEMMA UnquarantineHeld ==
  ASSUME TypeOK, HeldInv, UnquarantineNext
  PROVE  HeldInv'
  <1> USE DEF HeldInv, hostVars
  <1>1. /\ ~HalfDone /\ ~HalfDone' /\ ~pending
        /\ mode = "full" => Accepted
    BY DEF UnquarantineNext, HalfDone, ProgressInv
  <1>2. pc' \in {"unquarantine", "verify"}
    BY AdvanceFacts DEF UnquarantineNext, TypeOK
  <1>3. QED
    BY <1>1, <1>2 DEF UnquarantineNext, QuarantineInv, HalfDoneInv, ProgressInv,
                           Accepted, AtWork

LEMMA VerifyHeld ==
  ASSUME TypeOK, HeldInv, Verify \/ VerifyFails
  PROVE  HeldInv'
  BY DEF Verify, VerifyFails, HeldInv, QuarantineInv, HalfDoneInv, HalfDone, ProgressInv,
         AtWork, tcVars, hostVars

LEMMA RequarantineHeld ==
  ASSUME TypeOK, HeldInv, RequarantineNext
  PROVE  HeldInv'
  <1> USE DEF RequarantineNext, HeldInv, hostVars
  <1>1. pc' \in {"requarantine", "idle"}
    BY AdvanceFacts DEF TypeOK
  <1>2. HalfDoneInv'
    BY DEF HalfDoneInv, HalfDone, TypeOK
  <1>3. QED
    BY <1>1, <1>2 DEF QuarantineInv, ProgressInv, AtWork

\* Only the end of a week releases a worker without a command, and not one of
\* a half-done host.
LEMMA WorkerHeld ==
  ASSUME ~Careless, TypeOK, HeldInv, NEW w \in Workers,
         Claim(w) \/ ShowClaim(w) \/ FinishTask(w) \/ Expire(w) \/ StartVM(w) \/ CheckIn(w)
  PROVE  HeldInv'
  <1> USE DEF hostVars, opVars, tcVars
  <1>1. CASE Expire(w)
    BY <1>1 DEF Expire, HeldInv, QuarantineInv, HalfDoneInv, HalfDone, ProgressInv, AtWork
  <1>2. CASE Claim(w) \/ ShowClaim(w) \/ FinishTask(w) \/ StartVM(w) \/ CheckIn(w)
    BY <1>2, SameHeld DEF Claim, ShowClaim, FinishTask, StartVM, CheckIn, TypeOK
  <1>3. QED
    BY <1>1, <1>2

\* An update executes on a held host, at a point of the command that does not
\* rely on the version.
LEMMA UpdateHeld ==
  ASSUME TypeOK, HeldInv, ExecuteUpdate
  PROVE  HeldInv'
  <1> USE DEF HeldInv
  <1>1. quarantined = Workers /\ quarantined' = Workers /\ ~pending'
    BY DEF ExecuteUpdate, HalfDoneInv, HalfDone
  <1>2. pc \notin {"puppet", "reboot", "booting", "register", "unquarantine"}
    BY DEF ExecuteUpdate, ProgressInv
  <1>3. UNCHANGED <<pc, mode, next>>
    BY DEF ExecuteUpdate, opVars
  <1>4. mode = "puppetOnly" => pc = "idle"
    BY DEF ExecuteUpdate, ProgressInv
  <1>5. QED
    BY <1>1, <1>2, <1>3, <1>4 DEF QuarantineInv, HalfDoneInv, ProgressInv

LEMMA BootHeld ==
  ASSUME TypeOK, HeldInv, Boot
  PROVE  HeldInv'
  <1> USE DEF HeldInv, opVars, tcVars
  <1>1. quarantined = Workers /\ quarantined' = Workers
    BY DEF Boot, HalfDoneInv, HalfDone
  <1>2. /\ host'.up /\ host'.owed = host.owed
        /\ host'.version = host.version /\ host'.config = host.config
    BY DEF Boot, TypeOK, Hosts
  <1>3. Accepted' = Accepted
    BY <1>2 DEF Boot, Accepted
  <1>4. QED
    BY <1>1, <1>2, <1>3 DEF Boot, QuarantineInv, HalfDoneInv, ProgressInv

LEMMA NextHeld ==
  ASSUME ~Careless, TypeOK, HeldInv, [Next]_vars
  PROVE  HeldInv'
  <1>1. CASE UNCHANGED vars
    BY <1>1, SameHeld DEF vars, TypeOK
  <1>2. CASE Step
    BY <1>2, QuarantineHeld, DrainHeld, PostUpdateHeld, SeeUpdateHeld, PuppetHeld, RebootHeld,
       SeeBootHeld, RegisterHeld, UnquarantineHeld, VerifyHeld, RequarantineHeld DEF Step
  <1>3. CASE Raise \/ Killed
    BY <1>3, StopHeld DEF Raise, Killed, Fail, tcVars, hostVars
  <1>4. QED
    BY <1>1, <1>2, <1>3, StartHeld, PuppetHeld, UpdateHeld, BootHeld, WorkerHeld DEF Next

\* "A host is never left half-done and taking tasks" (tart_host.py), however
\* late recentTasks shows a claim.
THEOREM NeverLeftHalfDone == ~Careless => (Spec => []NeverHalfDone)
  <1> SUFFICES ASSUME ~Careless PROVE Spec => []NeverHalfDone
    OBVIOUS
  <1>1. Init => HeldInv
    BY InitHeld
  <1>2. TypeOK /\ HeldInv /\ [Next]_vars => HeldInv'
    BY NextHeld
  <1>3. HeldInv => NeverHalfDone
    BY DEF HeldInv, HalfDoneInv, NeverHalfDone
  <1>4. QED
    BY <1>1, <1>2, <1>3, TypeCorrect, PTL DEF Spec

LEMMA ReleaseStep ==
  ASSUME TypeOK, HeldInv, [Next]_vars, pc # "idle", (quarantined \ quarantined') # {}
  PROVE  active = Workers /\ (mode = "full" => Accepted)
  <1>1. CASE UnquarantineNext
    BY <1>1 DEF UnquarantineNext, HeldInv, ProgressInv
  <1>2. CASE QuarantineNext \/ RequarantineNext
    BY <1>2 DEF QuarantineNext, RequarantineNext
  <1>3. CASE \E w \in Workers : Expire(w)
    BY <1>3 DEF Expire
  <1>4. CASE \/ UNCHANGED vars
             \/ (Step /\ ~(UnquarantineNext \/ QuarantineNext \/ RequarantineNext))
             \/ \E m \in Modes : Start(m)
             \/ PuppetFails \/ Raise \/ Killed \/ ExecuteUpdate \/ Boot
             \/ \E w \in Workers :
                  Claim(w) \/ ShowClaim(w) \/ FinishTask(w) \/ StartVM(w) \/ CheckIn(w)
    <2>1. UNCHANGED quarantined
      BY <1>4 DEF vars, tcVars, Step, DrainPoll, PostUpdate, SeeUpdate, ApplyPuppet, Reboot,
                  SeeBoot, RegisterPoll, Verify, VerifyFails, Start, PuppetFails, Raise, Killed,
                  ExecuteUpdate, Boot, Claim, ShowClaim, FinishTask, StartVM, CheckIn
    <2>2. QED
      BY <2>1
  <1>5. QED
    BY <1>1, <1>2, <1>3, <1>4 DEF Next, Step

\* A command returns a worker only on a host whose workers have all checked in,
\* a full run only on the required version or on a major the OS step found there
\* already, however late a claim shows.
THEOREM ReleasedUpdated == ~Careless => (Spec => ReleasedReady)
  <1> SUFFICES ASSUME ~Careless PROVE Spec => ReleasedReady
    OBVIOUS
  <1>1. Init => HeldInv
    BY InitHeld
  <1>2. TypeOK /\ HeldInv /\ [Next]_vars => HeldInv'
    BY NextHeld
  <1>3. TypeOK /\ HeldInv /\ [Next]_vars
          => [pc # "idle" /\ (quarantined \ quarantined') # {}
                => active = Workers /\ (mode = "full" => Accepted)]_vars
    BY ReleaseStep
  <1>4. QED
    BY <1>1, <1>2, <1>3, TypeCorrect, PTL DEF Spec, ReleasedReady

-----------------------------------------------------------------------------
(* Idle: what an interruption relies on, besides *)

LEMMA InitIdle == Init => IdleInv
  BY DEF Init, IdleInv, DrainInv

\* A task ends, or the host goes down; none begins, and nothing is drained.
LEMMA FewerIdle ==
  ASSUME IdleInv, busy' \subseteq busy, pc' # "drain",
         pc' \in AtWork \/ HalfDone' => pc \in AtWork \/ HalfDone \/ busy' = {}
  PROVE  IdleInv'
  BY DEF IdleInv, DrainInv

\* A poll that finds the worker idle for the second time is right: a task it
\* has would have escaped two polls.
LEMMA DrainIdle ==
  ASSUME MaxMissed <= 1, TypeOK, IdleInv, DrainPoll
  PROVE  IdleInv'
  <1> USE DEF IdleInv, hostVars
  <1>1. UNCHANGED <<busy, shown, HalfDone>>
    BY DEF DrainPoll, HalfDone
  <1>2. CASE next \in busy \cap shown
    BY <1>1, <1>2 DEF DrainPoll, DrainInv, AtWork
  <1>3. CASE next \notin busy \cap shown /\ idle = 0
    <2>1. idle' = 1 /\ next' = next /\ pc' = "drain"
      BY <1>3 DEF DrainPoll
    <2>2. next \in busy => missed'[next] >= 1
      <3>1. SUFFICES ASSUME next \in busy PROVE missed'[next] >= 1
        OBVIOUS
      <3>2. missed' = [missed EXCEPT ![next] = @ + 1]
        BY <1>3, <3>1 DEF DrainPoll, CountMiss, InvisibleClaim
      <3>3. missed[next] \in Nat /\ missed'[next] = missed[next] + 1
        BY <3>2 DEF TypeOK
      <3>4. QED
        BY <3>3
    <2>3. QED
      BY <1>1, <2>1, <2>2 DEF DrainInv, DrainPoll, AtWork
  <1>4. CASE next \notin busy \cap shown /\ idle = 1
    <2>1. next \notin busy
      <3>1. SUFFICES ASSUME next \in busy PROVE FALSE
        OBVIOUS
      <3>2. missed[next] < MaxMissed /\ missed[next] >= 1
        BY <1>4, <3>1 DEF DrainPoll, CanAnswer, InvisibleClaim, DrainInv
      <3>3. missed[next] \in Nat
        BY DEF TypeOK
      <3>4. QED
        BY <3>2, <3>3, LagAssumption
    <2>2. idle' = 0 /\ Advance(AfterDrain) /\ pc = "drain"
      BY <1>4 DEF DrainPoll
    <2>3. \A w \in Workers : w <= next => w \notin busy
      BY <2>1 DEF DrainPoll, DrainInv, TypeOK, Workers
    <2>4. CASE next = N
      <3>1. busy = {}
        BY <2>3, <2>4 DEF TypeOK, Workers
      <3>2. pc' # "drain"
        BY <2>2, <2>4 DEF Advance, AfterDrain
      <3>3. QED
        BY <1>1, <3>1, <3>2 DEF DrainInv
    <2>5. CASE next # N
      <3>1. pc' = "drain" /\ next' = next + 1
        BY <2>2, <2>5 DEF Advance, DrainPoll
      <3>2. next' \in Workers /\ missed' \in [Workers -> Nat]
        BY StepType DEF TypeOK, Step
      <3>3. DrainInv'
        BY <1>1, <2>2, <2>3, <3>1, <3>2 DEF DrainInv, TypeOK, Workers
      <3>4. QED
        BY <1>1, <3>1, <3>3 DEF AtWork
    <2>6. QED
      BY <2>4, <2>5
  <1>5. QED
    BY <1>2, <1>3, <1>4 DEF TypeOK

\* The quarantine hands over to the drain, which has shown nothing yet.
LEMMA QuarantineIdle ==
  ASSUME TypeOK, IdleInv, QuarantineNext
  PROVE  IdleInv'
  <1> USE DEF QuarantineNext, hostVars
  <1>1. pc' \in {"quarantine", "drain"} /\ (pc' = "drain" => next' = 1)
    BY AdvanceFacts DEF TypeOK
  <1>2. UNCHANGED <<busy, HalfDone>> /\ idle' = 0
    BY DEF HalfDone
  <1>3. missed' \in [Workers -> Nat] /\ next' \in Workers
    BY AdvanceFacts DEF TypeOK
  <1>4. QED
    BY <1>1, <1>2, <1>3 DEF IdleInv, DrainInv, AtWork, Workers

LEMMA StepIdle ==
  ASSUME MaxMissed <= 1, TypeOK, HeldInv, IdleInv, Step \/ PuppetFails
  PROVE  IdleInv'
  <1> USE DEF tcVars, hostVars
  <1>1. CASE PostUpdate \/ SeeUpdate \/ ApplyPuppet \/ PuppetFails \/ SeeBoot
    <2>1. busy' = busy /\ busy = {} /\ pc' # "drain"
      BY <1>1 DEF PostUpdate, SeeUpdate, ApplyPuppet, PuppetFails, SeeBoot, Fail,
                  IdleInv, AtWork
    <2>2. QED
      BY <2>1 DEF IdleInv, DrainInv
  <1>2. CASE Reboot
    BY <1>2 DEF Reboot, Down, IdleInv, DrainInv, AtWork
  <1>3. CASE RegisterPoll
    BY <1>3 DEF RegisterPoll, IdleInv, DrainInv, AtWork
  <1>4. CASE UnquarantineNext \/ RequarantineNext
    <2>1. pc' \in {"unquarantine", "verify", "requarantine", "idle"}
      BY <1>4, AdvanceFacts DEF UnquarantineNext, RequarantineNext, TypeOK
    <2>2. UNCHANGED <<busy, HalfDone>>
      BY <1>4 DEF UnquarantineNext, RequarantineNext, HalfDone
    <2>3. QED
      BY <2>1, <2>2, FewerIdle DEF AtWork
  <1>5. CASE Verify \/ VerifyFails
    <2>1. pc' \in {"requarantine", "idle"} /\ UNCHANGED <<busy, HalfDone>>
      BY <1>5 DEF Verify, VerifyFails, HalfDone
    <2>2. QED
      BY <2>1, FewerIdle DEF AtWork
  <1>6. QED
    BY <1>1, <1>2, <1>3, <1>4, <1>5, QuarantineIdle, DrainIdle DEF Step

\* Taskcluster and the workers: a claim needs a worker out of quarantine.
LEMMA WorkerIdle ==
  ASSUME TypeOK, HeldInv, IdleInv, NEW w \in Workers,
         Claim(w) \/ ShowClaim(w) \/ FinishTask(w) \/ Expire(w) \/ StartVM(w) \/ CheckIn(w)
  PROVE  IdleInv'
  <1> USE DEF hostVars, opVars, tcVars
  <1>1. UNCHANGED <<pc, HalfDone>>
    BY DEF Claim, ShowClaim, FinishTask, Expire, StartVM, CheckIn, HalfDone
  <1>2. CASE Claim(w)
    <2>1. quarantined # Workers
      BY <1>2 DEF Claim
    <2>2. ~HalfDone /\ pc # "drain" /\ pc \notin AtWork
      BY <2>1 DEF HeldInv, QuarantineInv, HalfDoneInv
    <2>3. QED
      BY <1>1, <2>2 DEF IdleInv, DrainInv
  <1>3. CASE ~Claim(w)
    <2>1. busy' \subseteq busy /\ UNCHANGED <<next, missed, idle>>
      BY <1>3 DEF ShowClaim, FinishTask, Expire, StartVM, CheckIn
    <2>2. \A v \in busy' : v \in shown => v \in shown'
      BY <1>3 DEF ShowClaim, FinishTask, Expire, StartVM, CheckIn
    <2>3. QED
      BY <1>1, <2>1, <2>2 DEF IdleInv, DrainInv
  <1>4. QED
    BY <1>2, <1>3

LEMMA NextIdle ==
  ASSUME MaxMissed <= 1, TypeOK, HeldInv, IdleInv, [Next]_vars
  PROVE  IdleInv'
  <1> USE DEF tcVars, hostVars, opVars
  <1>1. CASE UNCHANGED vars
    BY <1>1 DEF vars, IdleInv, DrainInv, HalfDone
  <1>2. CASE (\E m \in Modes : Start(m)) \/ Raise \/ Killed
    <2>1. pc' \in {"quarantine", "idle"} /\ UNCHANGED <<busy, HalfDone>>
      BY <1>2 DEF Start, Raise, Killed, Fail, HalfDone
    <2>2. QED
      BY <2>1, FewerIdle DEF AtWork
  <1>3. CASE ExecuteUpdate
    <2>1. busy' = {} /\ pc' = pc /\ next' = next
      BY <1>3 DEF ExecuteUpdate, Down
    <2>2. QED
      BY <2>1 DEF IdleInv, DrainInv
  <1>4. CASE Boot
    <2>1. busy = {} /\ busy' = {} /\ pc' = pc
      BY <1>4 DEF Boot, IdleInv, HalfDone
    <2>2. QED
      BY <2>1 DEF IdleInv, DrainInv
  <1>5. QED
    BY <1>1, <1>2, <1>3, <1>4, StepIdle, WorkerIdle DEF Next

\* The whole invariant, when a half-done host gets a full run in time and the
\* drain bridges the lag.
THEOREM MaintInvariant == Disciplined => (Spec => []MaintInv)
  <1> SUFFICES ASSUME Disciplined PROVE Spec => []MaintInv
    OBVIOUS
  <1>1. Init => MaintInv
    BY InitHeld, InitIdle DEF MaintInv
  <1>2. MaintInv /\ TypeOK /\ [Next]_vars => MaintInv'
    BY NextHeld, NextIdle DEF MaintInv, Disciplined
  <1>3. QED
    BY <1>1, <1>2, TypeCorrect, PTL DEF Spec

-----------------------------------------------------------------------------
(* Interruptions *)

\* A host worked on, or half-done, is held and idle.
LEMMA HeldIdle ==
  ASSUME MaintInv, pc \in AtWork \/ HalfDone
  PROVE  HeldAndIdle
  BY DEF MaintInv, HeldInv, QuarantineInv, HalfDoneInv, IdleInv, HeldAndIdle

\* The two ways the host goes down find it held and idle.
LEMMA DownStep ==
  ASSUME TypeOK, MaintInv, [Next]_vars, host.up, ~(host.up)'
  PROVE  quarantined = Workers /\ busy = {}
  <1>1. CASE Reboot
    BY <1>1, HeldIdle DEF Reboot, AtWork, HeldAndIdle
  <1>2. CASE ExecuteUpdate
    BY <1>2, HeldIdle DEF ExecuteUpdate, HalfDone, HeldAndIdle
  <1>3. CASE ApplyPuppet \/ PuppetFails
    <2>1. host'.up = host.up
      BY <1>3 DEF ApplyPuppet, PuppetFails, TypeOK, Hosts
    <2>2. QED
      BY <2>1
  <1>4. CASE UNCHANGED host
    BY <1>4
  <1>5. CASE Boot
    BY <1>5 DEF Boot
  <1>6. CASE \/ UNCHANGED vars \/ (Step /\ ~(Reboot \/ ApplyPuppet))
             \/ \E m \in Modes : Start(m)
             \/ Raise \/ Killed
             \/ \E w \in Workers :
                  \/ Claim(w) \/ ShowClaim(w) \/ FinishTask(w) \/ Expire(w)
                  \/ StartVM(w) \/ CheckIn(w)
    <2>1. UNCHANGED host
      BY <1>6 DEF vars, hostVars, Step, QuarantineNext, DrainPoll, PostUpdate, SeeUpdate,
                  SeeBoot, RegisterPoll, UnquarantineNext, Verify, VerifyFails, RequarantineNext,
                  Start, Raise, Killed, Claim, ShowClaim, FinishTask, Expire, StartVM, CheckIn
    <2>2. QED
      BY <2>1
  <1>7. QED
    BY <1>1, <1>2, <1>3, <1>4, <1>5, <1>6 DEF Next

\* The host goes down only with every worker held and idle.
THEOREM DownHeld == Disciplined => (Spec => DownOnlyHeld)
  <1> SUFFICES ASSUME Disciplined PROVE Spec => DownOnlyHeld
    OBVIOUS
  <1>1. TypeOK /\ MaintInv /\ [Next]_vars
          => [host.up /\ ~(host.up)' => quarantined = Workers /\ busy = {}]_vars
    BY DownStep
  <1>2. QED
    BY <1>1, TypeCorrect, MaintInvariant, PTL DEF Spec, DownOnlyHeld

-----------------------------------------------------------------------------
(* The promise to Taskcluster *)

Whole == host.up /\ host.config = "good" /\ ~host.owed
Serving == Workers \ quarantined

LEMMA PromiseInit == Init => Promise!Init
  <1> SUFFICES ASSUME Init PROVE Promise!Init
    OBVIOUS
  <1>1. host.up = TRUE /\ host.config = "good" /\ host.owed = FALSE
    BY DEF Init
  <1>2. QED
    BY <1>1 DEF Init, Promise!Init

\* A step on a held and idle host that starts no task and releases no worker.
LEMMA PromiseHeld ==
  ASSUME HeldAndIdle, HeldAndIdle'
  PROVE  [Promise!Next]_(Promise!mvars)
  <1>1. Serving = {} /\ Serving' = {} /\ busy = {} /\ busy' = {}
    BY DEF HeldAndIdle, Serving
  <1>2. CASE Whole'
    <2>1. Promise!MakeWhole
      BY <1>1, <1>2 DEF Promise!MakeWhole, Serving, Whole
    <2>2. QED
      BY <2>1 DEF Promise!Next
  <1>3. CASE ~Whole'
    <2>1. Promise!Interrupt
      BY <1>1, <1>3 DEF Promise!Interrupt, Serving, Whole
    <2>2. QED
      BY <2>1 DEF Promise!Next
  <1>4. QED
    BY <1>2, <1>3

LEMMA PromiseHold ==
  ASSUME TypeOK, quarantined' = quarantined \cup {next}, UNCHANGED <<busy, host>>
  PROVE  [Promise!Next]_(Promise!mvars)
  <1>1. CASE next \in quarantined
    BY <1>1 DEF Promise!mvars
  <1>2. CASE next \notin quarantined
    <2>1. Promise!Hold(next)
      BY <1>2 DEF Promise!Hold, TypeOK
    <2>2. QED
      BY <2>1 DEF Promise!Next, TypeOK
  <1>3. QED
    BY <1>1, <1>2

LEMMA PromiseRelease ==
  ASSUME TypeOK, MaintInv, UnquarantineNext
  PROVE  [Promise!Next]_(Promise!mvars)
  <1>1. Whole
    BY DEF UnquarantineNext, MaintInv, HeldInv, ProgressInv, Whole
  <1>2. CASE next \notin quarantined
    BY <1>2 DEF UnquarantineNext, hostVars, Promise!mvars
  <1>3. CASE next \in quarantined
    <2>1. Promise!Release(next)
      BY <1>1, <1>3 DEF UnquarantineNext, hostVars, Promise!Release, TypeOK, Whole
    <2>2. QED
      BY <2>1 DEF Promise!Next, TypeOK
  <1>4. QED
    BY <1>2, <1>3

\* A quarantine that ends on a host that is not half-done.
LEMMA PromiseExpire ==
  ASSUME ~Careless, TypeOK, NEW w \in Workers, Expire(w)
  PROVE  [Promise!Next]_(Promise!mvars)
  <1>1. Whole
    BY DEF Expire, HalfDone, Whole, TypeOK, Hosts
  <1>2. Promise!Release(w)
    BY <1>1 DEF Expire, hostVars, Promise!Release, Whole
  <1>3. QED
    BY <1>2 DEF Promise!Next

LEMMA PromiseTask ==
  ASSUME TypeOK, MaintInv, NEW w \in Workers, Claim(w) \/ FinishTask(w)
  PROVE  [Promise!Next]_(Promise!mvars)
  <1>1. CASE Claim(w)
    <2>1. Whole
      BY <1>1 DEF Claim, MaintInv, HeldInv, HalfDoneInv, HalfDone, Whole, TypeOK, Hosts
    <2>2. Promise!TakeTask(w)
      BY <1>1, <2>1 DEF Claim, hostVars, Promise!TakeTask, Whole, TypeOK
    <2>3. QED
      BY <2>2 DEF Promise!Next
  <1>2. CASE FinishTask(w)
    <2>1. Promise!EndTask(w)
      BY <1>2 DEF FinishTask, hostVars, Promise!EndTask
    <2>2. QED
      BY <2>1 DEF Promise!Next
  <1>3. QED
    BY <1>1, <1>2

LEMMA PromiseStep ==
  ASSUME Disciplined, TypeOK, MaintInv, [Next]_vars
  PROVE  [Promise!Next]_(Promise!mvars)
  <1>1. CASE QuarantineNext \/ RequarantineNext
    BY <1>1, PromiseHold DEF QuarantineNext, RequarantineNext, hostVars
  <1>2. CASE UnquarantineNext
    BY <1>2, PromiseRelease
  <1>3. CASE \E w \in Workers : Claim(w) \/ FinishTask(w)
    BY <1>3, PromiseTask
  <1>4. CASE ApplyPuppet \/ PuppetFails
    <2>1. HeldAndIdle /\ HeldAndIdle'
      BY <1>4, HeldIdle DEF ApplyPuppet, PuppetFails, AtWork, HeldAndIdle, tcVars
    <2>2. QED
      BY <2>1, PromiseHeld
  <1>5. CASE Reboot
    <2>1. HeldAndIdle /\ HeldAndIdle'
      BY <1>5, HeldIdle DEF Reboot, AtWork, HeldAndIdle, Down
    <2>2. QED
      BY <2>1, PromiseHeld
  <1>6. CASE ExecuteUpdate
    <2>1. HeldAndIdle /\ HeldAndIdle'
      BY <1>6, HeldIdle DEF ExecuteUpdate, HalfDone, HeldAndIdle, Down
    <2>2. QED
      BY <2>1, PromiseHeld
  <1>7. CASE Boot
    <2>1. HeldAndIdle /\ HeldAndIdle'
      BY <1>7, HeldIdle DEF Boot, HalfDone, HeldAndIdle, tcVars
    <2>2. QED
      BY <2>1, PromiseHeld
  <1>8. CASE \E w \in Workers : Expire(w)
    BY <1>8, PromiseExpire DEF Disciplined
  <1>9. CASE \/ UNCHANGED vars
             \/ DrainPoll \/ PostUpdate \/ SeeUpdate \/ SeeBoot \/ RegisterPoll
             \/ Verify \/ VerifyFails
             \/ \E m \in Modes : Start(m)
             \/ Raise \/ Killed
             \/ \E w \in Workers : ShowClaim(w) \/ StartVM(w) \/ CheckIn(w)
    <2>1. UNCHANGED <<quarantined, busy, host>>
      BY <1>9 DEF vars, tcVars, hostVars, DrainPoll, PostUpdate, SeeUpdate, SeeBoot,
                  RegisterPoll, Verify, VerifyFails, Start, Raise, Killed, ShowClaim,
                  StartVM, CheckIn
    <2>2. QED
      BY <2>1 DEF Promise!mvars
  <1>10. QED
    BY <1>1, <1>2, <1>3, <1>4, <1>5, <1>6, <1>7, <1>8, <1>9 DEF Next, Step

\* Every behaviour is one Maintenance allows.
THEOREM ImplementsMaintenance == Disciplined => (Spec => PromiseSpec)
  <1> SUFFICES ASSUME Disciplined PROVE Spec => PromiseSpec
    OBVIOUS
  <1>1. Init => Promise!Init
    BY PromiseInit
  <1>2. TypeOK /\ MaintInv /\ [Next]_vars => [Promise!Next]_(Promise!mvars)
    BY PromiseStep
  <1>3. QED
    BY <1>1, <1>2, TypeCorrect, MaintInvariant, PTL DEF Spec, PromiseSpec, Promise!Spec
=============================================================================
