-------------------------- MODULE ReprovisionProofs --------------------------
(***************************************************************************)
(* For every set of pools, tasks and hosts, and each under what it needs:  *)
(*   - a host is handed back only rebuilt (ReturnInv)                      *)
(*   - a queued erase finds the host held and idle (EraseInv), and no host *)
(*     is erased under a task, also not one nobody has a record of         *)
(*   - Reprovision implements HostService (HoldInv).                       *)
(***************************************************************************)
EXTENDS Reprovision, TLAPS

-----------------------------------------------------------------------------
(* Facts about the constants and helpers *)

LEMMA PipelineOrder ==
  /\ Steps = {"QUARANTINE", "DRAIN", "BST", "IDLE", "PGREP", "ERASE",
              "REENROLL", "MINT", "ESCROW", "SENTINEL", "GRANT", "UNQUARANTINE"}
  /\ Rank["QUARANTINE"] = 1 /\ Rank["DRAIN"] = 2 /\ Rank["BST"] = 3
  /\ Rank["IDLE"] = 4 /\ Rank["PGREP"] = 5 /\ Rank["ERASE"] = 6
  /\ Rank["REENROLL"] = 7 /\ Rank["MINT"] = 8 /\ Rank["ESCROW"] = 9
  /\ Rank["SENTINEL"] = 10 /\ Rank["GRANT"] = 11 /\ Rank["UNQUARANTINE"] = 12
  BY DEF Steps, Rank

LEMMA FirstRegisteredType ==
  ASSUME NEW recs
  PROVE  /\ FirstRegistered(recs) \in Pools \cup {NoPool}
         /\ FirstRegistered(recs) # NoPool => FirstRegistered(recs) \in recs
  <1>1. CASE \E i \in DOMAIN Candidates : FirstHit(recs, i)
    <2> DEFINE k == CHOOSE i \in DOMAIN Candidates : FirstHit(recs, i)
    <2>1. k \in DOMAIN Candidates /\ FirstHit(recs, k)
      BY <1>1
    <2>2. FirstRegistered(recs) = Candidates[k]
      BY <1>1 DEF FirstRegistered
    <2>3. QED
      BY <2>1, <2>2 DEF FirstHit, Pools, CandidatePools
  <1>2. CASE ~\E i \in DOMAIN Candidates : FirstHit(recs, i)
    BY <1>2 DEF FirstRegistered
  <1>3. QED
    BY <1>1, <1>2

LEMMA FallbackPool == Candidates[Len(Candidates)] \in Pools
  BY CandidatesAssumption DEF Pools, CandidatePools

LEMMA ResolveType ==
  /\ Resolve \in Contexts
  /\ Resolve.pool \in Pools
  /\ Resolve.baseline = 0
  BY FirstRegisteredType, FallbackPool DEF Resolve, Contexts

LEMMA PlanType ==
  ASSUME NEW c \in Commands, NEW reg \in BOOLEAN
  PROVE  Plan(c, reg) \subseteq Steps
  BY CommandsAssumption, PipelineOrder DEF Plan, RunSteps, WipeSteps

-----------------------------------------------------------------------------
(* Type correctness *)

LEMMA InitType == Init => TypeOK
  <1> SUFFICES ASSUME Init PROVE TypeOK
    OBVIOUS
  <1> PICK i \in InitHosts :
         /\ home = i.home
         /\ registered = i.records
         /\ quarantined = IF i.held THEN i.records ELSE {}
         /\ host \in IF i.live THEN LiveHosts ELSE {FreshHost}
    BY DEF Init
  <1>1. home \in Pools /\ registered \subseteq Pools /\ quarantined \subseteq registered
    BY HostsAssumption DEF Pools
  <1>2. host \in HostStates
    <2>1. FreshHost \in HostStates
      BY DEF FreshHost, HostStates
    <2>2. ASSUME NEW b \in BOOLEAN
          PROVE  [up |-> TRUE, token |-> TRUE, bst |-> b, semaphore |-> TRUE,
                  sentinel |-> TRUE, gw |-> TRUE] \in HostStates
      BY DEF HostStates
    <2>3. QED
      BY <2>1, <2>2 DEF LiveHosts
  <1>3. mdm \in [erase : BOOLEAN, enrolledAt : Nat \ {0}]
    BY DEF Init
  <1>4. run \in [Tasks -> RunStates]
    BY DEF Init, RunStates
  <1>5. ctx \in Contexts
    BY DEF Init, NoContext, Contexts
  <1>6. QED
    BY <1>1, <1>2, <1>3, <1>4, <1>5 DEF Init, TypeOK

\* The orchestrator's own steps.
LEMMA StepType == TypeOK /\ Step => TypeOK'
  <1> SUFFICES ASSUME TypeOK, Step PROVE TypeOK'
    OBVIOUS
  <1> USE DEF TypeOK, Contexts, HostStates, tcVars, taskVars
  <1>1. ASSUME NEW s \in Steps, Done(s)
        PROVE  /\ todo' \subseteq Steps
               /\ outcome' \in {"none", "ok", "error"}
               /\ \A r : r \in todo' => r \in todo
    BY <1>1 DEF Done
  <1>2. ASSUME Fail
        PROVE  todo' = {} /\ outcome' \in {"none", "ok", "error"}
    BY <1>2 DEF Fail
  <1>3. CASE Quarantine
    BY <1>1, <1>3, PipelineOrder DEF Quarantine
  <1>4. CASE Unquarantine
    BY <1>1, <1>4, PipelineOrder DEF Unquarantine
  <1>5. CASE NoRecord
    BY <1>2, <1>5 DEF NoRecord
  <1>6. CASE DrainPoll
    <2>1. missed' \in Nat
      BY <1>6 DEF DrainPoll, CountMiss
    <2>2. PICK unread \in Unreadable :
            /\ idle' = IF Busy(unread) THEN 0 ELSE idle + 1
            /\ IF idle' = 2 THEN Done("DRAIN") ELSE UNCHANGED <<todo, outcome>>
      BY <1>6 DEF DrainPoll
    <2>3. idle' \in {0, 1, 2}
      BY <1>6, <2>2 DEF DrainPoll, Due
    <2>4. "DRAIN" \in todo' => idle' < 2
      BY <2>2, <2>3 DEF Done
    <2>5. todo' \subseteq Steps /\ outcome' \in {"none", "ok", "error"}
      BY <1>1, <2>2, PipelineOrder
    <2>6. QED
      BY <1>6, <2>1, <2>3, <2>4, <2>5 DEF DrainPoll
  <1>7. CASE CheckBootstrapToken
    BY <1>1, <1>2, <1>7, PipelineOrder DEF CheckBootstrapToken
  <1>8. CASE CheckIdle
    <2>1. missed' \in Nat
      BY <1>8 DEF CheckIdle, CountMiss
    <2>2. QED
      BY <1>1, <1>2, <1>8, <2>1, PipelineOrder DEF CheckIdle
  <1>9. CASE CheckNoWorker
    BY <1>1, <1>2, <1>9, PipelineOrder DEF CheckNoWorker
  <1>10. CASE RequestErase
    BY <1>1, <1>10, PipelineOrder DEF RequestErase
  <1>11. CASE CaptureBaseline
    BY <1>11 DEF CaptureBaseline
  <1>12. CASE SeeReenrolled
    BY <1>1, <1>12, PipelineOrder DEF SeeReenrolled
  <1>13. CASE Mint
    BY <1>1, <1>13, PipelineOrder DEF Mint
  <1>14. CASE Escrow
    BY <1>1, <1>2, <1>14, PipelineOrder DEF Escrow
  <1>15. CASE SeeSentinel
    BY <1>1, <1>15, PipelineOrder DEF SeeSentinel
  <1>16. CASE GrantScreenRecording
    BY <1>1, <1>16, PipelineOrder DEF GrantScreenRecording
  <1>17. QED
    BY <1>3, <1>4, <1>5, <1>6, <1>7, <1>8, <1>9, <1>10, <1>11, <1>12, <1>13,
       <1>14, <1>15, <1>16 DEF Step

\* Taskcluster, SimpleMDM and the host.
LEMMA EnvironmentType ==
  TypeOK /\ (Cloud \/ Machine \/ StopWorker \/ \E t \in Tasks : Claim(t)) => TypeOK'
  <1> SUFFICES ASSUME TypeOK,
                      Cloud \/ Machine \/ StopWorker \/ \E t \in Tasks : Claim(t)
               PROVE  TypeOK'
    OBVIOUS
  <1> USE DEF TypeOK, HostStates, RunStates, tcVars, taskVars, opVars
  <1>1. ASSUME NEW t \in Tasks, Claim(t) PROVE TypeOK'
    BY <1>1 DEF Claim
  <1>2. CASE ShowClaim
    BY <1>2 DEF ShowClaim, InvisibleClaim
  <1>3. CASE FinishTask
    BY <1>3 DEF FinishTask
  <1>4. ASSUME NEW t \in Tasks, RetryElsewhere(t) PROVE TypeOK'
    BY <1>4 DEF RetryElsewhere
  <1>5. CASE StartWorker
    BY <1>5 DEF StartWorker
  <1>6. CASE StopWorker
    BY <1>6 DEF StopWorker
  <1>7. CASE TouchSemaphore
    BY <1>7 DEF TouchSemaphore
  <1>8. CASE WriteSentinel
    BY <1>8 DEF WriteSentinel
  <1>9. CASE ExecuteErase
    BY <1>9 DEF ExecuteErase, FreshHost
  <1>10. CASE Reenroll
    BY <1>10 DEF Reenroll, FreshHost
  <1>11. QED
    BY <1>1, <1>2, <1>3, <1>4, <1>5, <1>6, <1>7, <1>8, <1>9, <1>10
       DEF Cloud, Machine

LEMMA NextType == TypeOK /\ [Next]_vars => TypeOK'
  <1> SUFFICES ASSUME TypeOK, [Next]_vars PROVE TypeOK'
    OBVIOUS
  <1>1. ASSUME NEW c \in Commands, StartCommand(c) PROVE TypeOK'
    <2>1. ctx' \in Contexts /\ ctx'.registered \in BOOLEAN
      BY <1>1, ResolveType DEF StartCommand, Contexts
    <2>2. todo' \subseteq Steps
      BY <1>1, <2>1, PlanType DEF StartCommand
    <2>3. QED
      BY <1>1, <2>1, <2>2 DEF StartCommand, TypeOK, tcVars, taskVars
  <1>2. CASE Raise
    BY <1>2 DEF Raise, Fail, TypeOK, tcVars, taskVars
  <1>3. CASE UNCHANGED vars
    BY <1>3 DEF vars, TypeOK
  <1>4. QED
    BY <1>1, <1>2, <1>3, StepType, EnvironmentType DEF Next

\* Every variable keeps its type, whatever the commands and the failures.
THEOREM TypeCorrect == Spec => []TypeOK
  BY InitType, NextType, PTL DEF Spec

-----------------------------------------------------------------------------
(* What the steps have in common *)

\* Steps are taken in pipeline order: nothing earlier is left to do.
LEMMA EarlierDone ==
  ASSUME NEW s \in Steps, NEW r \in Steps, Due(s), Rank[r] < Rank[s],
         Rank[r] \in Nat, Rank[s] \in Nat
  PROVE  r \notin todo
  BY DEF Due

\* A finished step is struck off the list, and no other.
LEMMA StruckOff ==
  ASSUME NEW s \in Steps, Done(s)
  PROVE  s \notin todo' /\ \A r \in Steps \ {s} : r \in todo' <=> r \in todo
  BY DEF Done

LEMMA HeldPlans ==
  ASSUME NEW c \in HeldCommands
  PROVE  "ERASE" \in Plan(c, TRUE) =>
           {"QUARANTINE", "DRAIN", "IDLE"} \subseteq Plan(c, TRUE)
  BY DEF HeldCommands, Plan, RunSteps, WipeSteps

LEMMA ReturnPlans ==
  ASSUME NEW c \in ReturnCommands
  PROVE  "UNQUARANTINE" \in Plan(c, TRUE) =>
           {"ERASE", "REENROLL", "ESCROW", "SENTINEL"} \subseteq Plan(c, TRUE)
  BY DEF ReturnCommands, HeldCommands, Plan, RunSteps, WipeSteps

\* An unregistered host is not erased without a look for its worker.
LEMMA UnregisteredPlans ==
  ASSUME NEW c \in Commands
  PROVE  "ERASE" \in Plan(c, FALSE) => "PGREP" \in Plan(c, FALSE)
  BY CommandsAssumption DEF Plan, RunSteps, WipeSteps

\* The home pool never changes.
LEMMA HomeFixed == [Next]_vars => home' = home
  BY DEF Next, Step, Cloud, Machine, vars, tcVars, taskVars, opVars,
         StartCommand, Quarantine, Unquarantine, NoRecord, DrainPoll,
         CheckBootstrapToken, CheckIdle, CheckNoWorker, RequestErase,
         CaptureBaseline, SeeReenrolled, Mint, Escrow, SeeSentinel,
         GrantScreenRecording, Raise, Claim, StopWorker, RetryElsewhere,
         ShowClaim, FinishTask, StartWorker, TouchSemaphore, WriteSentinel,
         ExecuteErase, Reenroll

\* The pipeline leaves the host's records, its life and its sentinel alone.
LEMMA StepLeaves ==
  ASSUME TypeOK, Step
  PROVE  /\ UNCHANGED <<registered, home, working>>
         /\ (host.up)' = host.up /\ (host.sentinel)' = host.sentinel
         /\ (mdm.enrolledAt)' = mdm.enrolledAt
         /\ host.bst => (host.bst)' = TRUE
  BY DEF Step, tcVars, taskVars, Quarantine, Unquarantine,
         NoRecord, DrainPoll, CheckBootstrapToken, CheckIdle, CheckNoWorker,
         RequestErase, CaptureBaseline, SeeReenrolled, Mint, Escrow,
         SeeSentinel, GrantScreenRecording, TypeOK, HostStates

-----------------------------------------------------------------------------
(* What a return relies on: ReturnInv *)

\* The record found is the host's own.
LEMMA RecordFound ==
  ASSUME \A i \in InitHosts : Recognised(i), Init
  PROVE  FirstRegistered(registered) = home
  BY DEF Init, Recognised

LEMMA InitReturn ==
  ASSUME Init, FirstRegistered(registered) = home
  PROVE  ReturnInv
  <1>1. home # NoPool
    BY InitType, CandidatesAssumption DEF TypeOK
  <1>2. QED
    BY <1>1, FirstRegisteredType DEF Init, ReturnInv, RightPool, RebuildBeforeReturn

\* Starting a command resolves the right pool and leaves all to do.
LEMMA StartReturn ==
  ASSUME TypeOK, ReturnInv, NEW c \in ReturnCommands, StartCommand(c)
  PROVE  ReturnInv' /\ todo' = Plan(c, TRUE)
  <1> USE DEF StartCommand, tcVars, taskVars
  <1>1. ctx'.pool = home /\ ctx'.registered = TRUE
    BY CandidatesAssumption DEF ReturnInv, RightPool, Resolve, TypeOK, Pools
  <1>2. todo' = Plan(c, TRUE)
    BY <1>1
  <1>3. RightPool'
    BY <1>1 DEF ReturnInv, RightPool
  <1>4. RebuildBeforeReturn'
    BY <1>2, ReturnPlans DEF RebuildBeforeReturn
  <1>5. QED
    BY <1>2, <1>3, <1>4 DEF ReturnInv

\* A command that ends takes its obligations with it.
LEMMA EndReturn ==
  ASSUME ReturnInv, todo' = {}, UNCHANGED <<registered, home>>
  PROVE  ReturnInv'
  BY DEF ReturnInv, RightPool, RebuildBeforeReturn

\* Neither do steps that erase and rebuild nothing.
LEMMA SameReturn ==
  ASSUME ReturnInv, UNCHANGED <<registered, home, mdm, ctx>>,
         \A r \in {"ERASE", "REENROLL", "ESCROW", "SENTINEL", "UNQUARANTINE"} :
           r \in todo' => r \in todo,
         \A r \in {"ERASE", "REENROLL", "ESCROW", "SENTINEL"} :
           r \in todo => r \in todo',
         todo = {} => todo' = {},
         host'.up = host.up, host.sentinel => host'.sentinel, host.bst => host'.bst
  PROVE  ReturnInv'
  <1>1. RightPool'
    BY DEF ReturnInv, RightPool
  <1>2. RebuildBeforeReturn'
    BY DEF ReturnInv, RebuildBeforeReturn
  <1>3. QED
    BY <1>1, <1>2 DEF ReturnInv

LEMMA PlainStepReturn ==
  ASSUME TypeOK, ReturnInv,
         NEW s \in {"QUARANTINE", "DRAIN", "BST", "IDLE", "PGREP", "MINT",
                    "GRANT", "UNQUARANTINE"},
         Done(s), UNCHANGED <<registered, home, mdm, ctx>>,
         host'.up = host.up, host'.sentinel = host.sentinel, host.bst => host'.bst
  PROVE  ReturnInv'
  <1>1. s \in Steps
    BY PipelineOrder
  <1>2. \A r \in {"ERASE", "REENROLL", "ESCROW", "SENTINEL"} : r \in todo' <=> r \in todo
    BY <1>1, StruckOff, PipelineOrder
  <1>3. "UNQUARANTINE" \in todo' => "UNQUARANTINE" \in todo
    BY DEF Done
  <1>4. todo = {} => todo' = {}
    BY DEF Done
  <1>5. QED
    BY <1>2, <1>3, <1>4, SameReturn

LEMMA RequestEraseReturn ==
  ASSUME TypeOK, ReturnInv, RequestErase
  PROVE  ReturnInv'
  <1> USE DEF RequestErase, Done, tcVars, taskVars
  <1>1. RightPool'
    BY DEF ReturnInv, RightPool, TypeOK, Contexts, Due
  <1>2. mdm'.enrolledAt = mdm.enrolledAt /\ ctx'.baseline = mdm.enrolledAt
    BY DEF TypeOK, Contexts
  <1>3. "ERASE" \in todo
    BY DEF Due
  <1>4. RebuildBeforeReturn'
    BY <1>2, <1>3 DEF ReturnInv, RebuildBeforeReturn, TypeOK
  <1>5. QED
    BY <1>1, <1>4 DEF ReturnInv

LEMMA CaptureBaselineReturn ==
  ASSUME TypeOK, ReturnInv, CaptureBaseline
  PROVE  ReturnInv'
  <1> USE DEF CaptureBaseline, tcVars, taskVars
  <1>1. "ERASE" \notin todo /\ "REENROLL" \in todo
    BY EarlierDone, PipelineOrder DEF Due
  <1>2. RightPool'
    BY DEF ReturnInv, RightPool, TypeOK, Contexts
  <1>3. RebuildBeforeReturn'
    BY <1>1 DEF ReturnInv, RebuildBeforeReturn, TypeOK
  <1>4. QED
    BY <1>2, <1>3 DEF ReturnInv

\* A fresh enrolled_at means the erase this command requested is behind it.
LEMMA SeeReenrolledReturn ==
  ASSUME TypeOK, ReturnInv, SeeReenrolled
  PROVE  ReturnInv'
  <1> USE DEF SeeReenrolled, Done, tcVars, taskVars
  <1>1. "ERASE" \notin todo /\ "REENROLL" \in todo
    BY EarlierDone, PipelineOrder DEF Due
  <1>2. ctx.baseline \in Nat /\ mdm.enrolledAt \in Nat
    BY DEF TypeOK, Contexts
  <1>3. ASSUME "UNQUARANTINE" \in todo
        PROVE  /\ {"ESCROW", "SENTINEL"} \subseteq todo
               /\ 0 < ctx.baseline /\ ctx.baseline < mdm.enrolledAt
               /\ host.up /\ ~mdm.erase
    BY <1>1, <1>2, <1>3 DEF ReturnInv, RebuildBeforeReturn
  <1>4. RebuildBeforeReturn'
    BY <1>1, <1>3 DEF RebuildBeforeReturn
  <1>5. RightPool'
    BY DEF ReturnInv, RightPool
  <1>6. QED
    BY <1>4, <1>5 DEF ReturnInv

LEMMA EscrowReturn ==
  ASSUME TypeOK, ReturnInv, Escrow
  PROVE  ReturnInv'
  <1> USE DEF Escrow, tcVars, taskVars
  <1>1. CASE ~(host.up /\ host.token)
    BY <1>1, EndReturn DEF Fail
  <1>2. CASE host.up /\ host.token
    <2>1. Done("ESCROW") /\ host' = [host EXCEPT !.bst = TRUE]
      BY <1>2
    <2>2. "ERASE" \notin todo /\ "REENROLL" \notin todo
      BY EarlierDone, PipelineOrder
    <2>3. host'.bst /\ host'.up = host.up /\ host'.sentinel = host.sentinel
      BY <2>1 DEF TypeOK, HostStates
    <2>4. RebuildBeforeReturn'
      BY <2>1, <2>2, <2>3 DEF ReturnInv, RebuildBeforeReturn, Done
    <2>5. RightPool'
      BY <2>1 DEF ReturnInv, RightPool, Done
    <2>6. QED
      BY <2>4, <2>5 DEF ReturnInv
  <1>3. QED
    BY <1>1, <1>2

LEMMA SeeSentinelReturn ==
  ASSUME TypeOK, ReturnInv, SeeSentinel
  PROVE  ReturnInv'
  <1> USE DEF SeeSentinel, Done, tcVars, taskVars
  <1>1. "ERASE" \notin todo /\ "REENROLL" \notin todo /\ "ESCROW" \notin todo
    BY EarlierDone, PipelineOrder
  <1>2. RebuildBeforeReturn'
    BY <1>1 DEF ReturnInv, RebuildBeforeReturn
  <1>3. RightPool'
    BY DEF ReturnInv, RightPool
  <1>4. QED
    BY <1>2, <1>3 DEF ReturnInv

LEMMA StepReturn ==
  ASSUME TypeOK, ReturnInv, Step
  PROVE  ReturnInv'
  <1>1. /\ UNCHANGED <<registered, home>>
        /\ host'.up = host.up /\ host'.sentinel = host.sentinel
        /\ host.bst => host'.bst
    BY StepLeaves
  <1> USE DEF tcVars, taskVars
  <1>2. ASSUME Fail PROVE ReturnInv'
    BY <1>1, <1>2, EndReturn DEF Fail
  <1>3. CASE Quarantine \/ Unquarantine
    BY <1>1, <1>3, PlainStepReturn DEF Quarantine, Unquarantine
  <1>4. CASE DrainPoll
    <2>1. CASE Done("DRAIN")
      BY <1>1, <1>4, <2>1, PlainStepReturn DEF DrainPoll
    <2>2. CASE UNCHANGED <<todo, outcome>>
      BY <1>1, <1>4, <2>2, SameReturn DEF DrainPoll
    <2>3. QED
      BY <1>4, <2>1, <2>2 DEF DrainPoll
  <1>5. CASE CheckBootstrapToken
    BY <1>1, <1>2, <1>5, PlainStepReturn DEF CheckBootstrapToken
  <1>6. CASE CheckIdle
    BY <1>1, <1>2, <1>6, PlainStepReturn DEF CheckIdle
  <1>7. CASE CheckNoWorker
    BY <1>1, <1>2, <1>7, PlainStepReturn DEF CheckNoWorker
  <1>8. CASE Mint \/ GrantScreenRecording
    BY <1>1, <1>8, PlainStepReturn DEF Mint, GrantScreenRecording
  <1>9. CASE NoRecord
    BY <1>2, <1>9 DEF NoRecord
  <1>10. QED
    BY <1>3, <1>4, <1>5, <1>6, <1>7, <1>8, <1>9, RequestEraseReturn,
       CaptureBaselineReturn, SeeReenrolledReturn, EscrowReturn,
       SeeSentinelReturn DEF Step

\* An erase is not queued, nor a re-enrolment due, once a command that will
\* return the host has seen it re-enrolled.
LEMMA MachineReturn ==
  ASSUME TypeOK, ReturnInv, Machine
  PROVE  ReturnInv'
  <1> USE DEF tcVars, taskVars, opVars
  <1>1. CASE StartWorker \/ TouchSemaphore \/ WriteSentinel
    <2> USE <1>1 DEF StartWorker, TouchSemaphore, WriteSentinel
    <2>1. registered' = registered
      BY DEF ReturnInv, RightPool
    <2>2. /\ host'.up = host.up /\ host'.bst = host.bst
          /\ host.sentinel => host'.sentinel
      BY DEF TypeOK, HostStates
    <2>3. QED
      BY <2>1, <2>2, SameReturn
  <1>2. CASE ExecuteErase
    <2> USE <1>2 DEF ExecuteErase
    <2>1. "UNQUARANTINE" \in todo => "REENROLL" \in todo
      BY DEF ReturnInv, RebuildBeforeReturn
    <2>2. mdm'.enrolledAt = mdm.enrolledAt /\ ~mdm'.erase
      BY DEF TypeOK
    <2>3. RebuildBeforeReturn'
      BY <2>1, <2>2 DEF ReturnInv, RebuildBeforeReturn
    <2>4. QED
      BY <2>3 DEF ReturnInv, RightPool
  <1>3. CASE Reenroll
    <2> USE <1>3 DEF Reenroll
    <2>1. ~mdm'.erase /\ mdm'.enrolledAt = mdm.enrolledAt + 1
      OBVIOUS
    <2>2. mdm.enrolledAt \in Nat /\ ctx.baseline \in Nat
      BY DEF TypeOK, Contexts
    <2>3. "UNQUARANTINE" \in todo => "REENROLL" \in todo
      BY DEF ReturnInv, RebuildBeforeReturn
    <2>4. RebuildBeforeReturn'
      BY <2>1, <2>2, <2>3 DEF ReturnInv, RebuildBeforeReturn
    <2>5. QED
      BY <2>4 DEF ReturnInv, RightPool
  <1>4. QED
    BY <1>1, <1>2, <1>3 DEF Machine

LEMMA NextReturn ==
  ASSUME Commands \subseteq ReturnCommands, TypeOK, ReturnInv, [Next]_vars
  PROVE  ReturnInv'
  <1>1. CASE Raise
    BY <1>1, EndReturn DEF Raise, Fail, tcVars
  <1>2. CASE Cloud \/ \E t \in Tasks : Claim(t)
    BY <1>2, SameReturn DEF Cloud, RetryElsewhere, ShowClaim, FinishTask, Claim,
                            tcVars, opVars
  <1>3. CASE StopWorker
    <2>1. host'.up = host.up /\ host'.bst = host.bst /\ host'.sentinel = host.sentinel
      BY <1>3 DEF StopWorker, TypeOK, HostStates
    <2>2. QED
      BY <1>3, <2>1, SameReturn DEF StopWorker, tcVars, opVars
  <1>4. CASE UNCHANGED vars
    BY <1>4, SameReturn DEF vars
  <1>5. QED
    BY <1>1, <1>2, <1>3, <1>4, StartReturn, StepReturn, MachineReturn DEF Next

\* Only `Unquarantine` takes a pool out of quarantine.
LEMMA OnlyUnquarantineReleases ==
  ASSUME TypeOK, [Next]_vars, home \in quarantined, home' \notin quarantined'
  PROVE  Unquarantine
  BY DEF Next, Step, Cloud, Machine, vars, tcVars, taskVars, opVars,
         StartCommand, Quarantine, NoRecord, DrainPoll, CheckBootstrapToken,
         CheckIdle, CheckNoWorker, RequestErase, CaptureBaseline, SeeReenrolled,
         Mint, Escrow, SeeSentinel, GrantScreenRecording, Raise, Claim,
         StopWorker, RetryElsewhere, ShowClaim, FinishTask, StartWorker,
         TouchSemaphore, WriteSentinel, ExecuteErase, Reenroll

LEMMA UnquarantineRebuilt ==
  ASSUME ReturnInv, Unquarantine
  PROVE  RebuiltSinceErase
  <1>1. /\ "ERASE" \notin todo /\ "REENROLL" \notin todo
        /\ "ESCROW" \notin todo /\ "SENTINEL" \notin todo
    BY EarlierDone, PipelineOrder DEF Unquarantine
  <1>2. QED
    BY <1>1 DEF ReturnInv, RebuildBeforeReturn, RebuiltSinceErase, Unquarantine, Due

\* A host leaves quarantine only erased, re-enrolled and bootstrapped since
\* the command that releases it asked for the erase. That takes commands that
\* do not un-quarantine on their own and a first record that is the host's: not
\* that the polls see every task, nor that every erase is preceded by a hold.
THEOREM ReturnIsRebuilt ==
  /\ Commands \subseteq ReturnCommands
  /\ \A i \in InitHosts : Recognised(i)
  => (Spec => ReturnedRebuilt)
  <1> SUFFICES ASSUME Commands \subseteq ReturnCommands,
                      \A i \in InitHosts : Recognised(i)
               PROVE  Spec => ReturnedRebuilt
    OBVIOUS
  <1>1. Init => ReturnInv
    BY RecordFound, InitReturn
  <1>2. TypeOK /\ ReturnInv /\ [Next]_vars => ReturnInv'
    BY NextReturn
  <1>3. TypeOK /\ ReturnInv /\ [Next]_vars
          => [(home \in quarantined /\ home \notin quarantined')
               => RebuiltSinceErase]_vars
    BY OnlyUnquarantineReleases, UnquarantineRebuilt, HomeFixed
  <1>4. QED
    BY <1>1, <1>2, <1>3, TypeCorrect, PTL DEF Spec, ReturnedRebuilt

-----------------------------------------------------------------------------
(* What an erase relies on: EraseInv *)

LEMMA InitErase == Init => EraseInv
  BY DEF Init, EraseInv, TaskShows, HoldBeforeErase, PendingEraseIsHeld

LEMMA StartErase ==
  ASSUME TypeOK, ReturnInv, EraseInv, NEW c \in HeldCommands, StartCommand(c)
  PROVE  EraseInv'
  <1>1. todo' = Plan(c, TRUE) /\ idle' = 0
    BY StartReturn DEF ReturnCommands, StartCommand
  <1>2. HoldBeforeErase'
    BY <1>1, HeldPlans DEF HoldBeforeErase
  <1>3. (TaskShows /\ PendingEraseIsHeld)'
    BY DEF StartCommand, tcVars, taskVars, EraseInv, TaskShows, PendingEraseIsHeld
  <1>4. QED
    BY <1>2, <1>3 DEF EraseInv

LEMMA EndErase ==
  ASSUME EraseInv, todo' = {}, UNCHANGED <<home, quarantined, run, working, mdm>>
  PROVE  EraseInv'
  BY DEF EraseInv, TaskShows, HoldBeforeErase, PendingEraseIsHeld

\* Steps after the erase, or beside the hold, prove nothing and undo nothing.
LEMMA PlainStepErase ==
  ASSUME EraseInv,
         NEW s \in {"BST", "PGREP", "REENROLL", "MINT", "ESCROW", "SENTINEL", "GRANT"},
         Done(s), UNCHANGED <<home, quarantined, taskVars, mdm, idle>>
  PROVE  EraseInv'
  <1>1. \A r \in {"QUARANTINE", "DRAIN", "IDLE", "ERASE"} : r \in todo' <=> r \in todo
    BY DEF Done
  <1>2. HoldBeforeErase'
    BY <1>1 DEF EraseInv, HoldBeforeErase, Drained, taskVars
  <1>3. (TaskShows /\ PendingEraseIsHeld)'
    BY DEF EraseInv, TaskShows, PendingEraseIsHeld, taskVars
  <1>4. QED
    BY <1>2, <1>3 DEF EraseInv

LEMMA QuarantineErase ==
  ASSUME TypeOK, ReturnInv, EraseInv, Quarantine
  PROVE  EraseInv'
  <1> USE DEF Quarantine, Done, Due, taskVars
  <1>1. ctx.pool = home /\ home \in quarantined'
    BY DEF ReturnInv, RightPool
  <1>2. HoldBeforeErase'
    BY <1>1 DEF EraseInv, HoldBeforeErase, Drained, TypeOK
  <1>3. (TaskShows /\ PendingEraseIsHeld)'
    BY <1>1 DEF EraseInv, TaskShows, PendingEraseIsHeld
  <1>4. QED
    BY <1>2, <1>3 DEF EraseInv

\* A return finds no erase queued.
LEMMA UnquarantineErase ==
  ASSUME TypeOK, ReturnInv, EraseInv, Unquarantine
  PROVE  EraseInv'
  <1> USE DEF Unquarantine, Done, taskVars
  <1>1. "ERASE" \notin todo
    BY EarlierDone, PipelineOrder
  <1>2. ~mdm.erase
    BY UnquarantineRebuilt DEF RebuiltSinceErase
  <1>3. QED
    BY <1>1, <1>2 DEF EraseInv, TaskShows, HoldBeforeErase, PendingEraseIsHeld

\* A poll that answers idle has missed the task in progress, if there is one.
LEMMA IdleAnswer ==
  ASSUME ClaimsShow, ReturnInv, TaskShows, todo # {},
         CanAnswer, CountMiss, NEW unread \in Unreadable, ~Busy(unread)
  PROVE  working # NoTask =>
           /\ working \notin recent
           /\ missed < MaxMissed
           /\ missed' = missed + 1
  <1> SUFFICES ASSUME working # NoTask
               PROVE  working \notin recent /\ missed < MaxMissed /\ missed' = missed + 1
    OBVIOUS
  <1>1. unread = {}
    BY DEF ClaimsShow, Unreadable
  <1>2. working \notin recent
    BY <1>1 DEF Busy, ReturnInv, RightPool, TaskShows
  <1>3. QED
    BY <1>2 DEF CanAnswer, CountMiss, InvisibleClaim, ReturnInv, RightPool

LEMMA MissesGrow ==
  ASSUME TypeOK, CountMiss
  PROVE  missed' \in Nat /\ missed' >= missed
  BY DEF TypeOK, CountMiss

LEMMA DrainErase ==
  ASSUME ClaimsShow, TypeOK, ReturnInv, EraseInv, DrainPoll
  PROVE  EraseInv'
  <1> USE DEF DrainPoll, tcVars
  <1>1. todo # {} /\ "QUARANTINE" \notin todo /\ "DRAIN" \in todo /\ idle \in {0, 1}
    BY EarlierDone, PipelineOrder DEF Due, TypeOK
  <1>2. PICK unread \in Unreadable :
          /\ idle' = IF Busy(unread) THEN 0 ELSE idle + 1
          /\ IF idle' = 2 THEN Done("DRAIN") ELSE UNCHANGED <<todo, outcome>>
    OBVIOUS
  <1>3. \A r \in {"QUARANTINE", "IDLE", "ERASE"} : r \in todo' <=> r \in todo
    BY <1>2 DEF Done
  <1>4. "DRAIN" \in todo' <=> idle' # 2
    BY <1>1, <1>2 DEF Done
  <1>5. ASSUME "ERASE" \in todo PROVE Drained(idle)'
    <2>1. Drained(idle)
      BY <1>1, <1>5 DEF EraseInv, HoldBeforeErase
    <2>2. CASE Busy(unread)
      BY <1>2, <2>2, MissesGrow DEF Drained
    <2>3. CASE ~Busy(unread)
      <3>1. working # NoTask => working \notin recent /\ missed' = missed + 1
        BY <1>1, <2>3, IdleAnswer DEF EraseInv
      <3>2. QED
        BY <1>1, <1>2, <2>1, <2>3, <3>1 DEF Drained, TypeOK
    <2>4. QED
      BY <2>2, <2>3
  <1>6. HoldBeforeErase'
    BY <1>1, <1>3, <1>4, <1>5 DEF EraseInv, HoldBeforeErase, Drained
  <1>7. (TaskShows /\ PendingEraseIsHeld)'
    BY DEF EraseInv, TaskShows, PendingEraseIsHeld
  <1>8. QED
    BY <1>6, <1>7 DEF EraseInv

\* The third poll in a row: no claim can be out of sight that long.
LEMMA CheckIdleErase ==
  ASSUME ClaimsShow, TypeOK, ReturnInv, EraseInv, CheckIdle
  PROVE  EraseInv'
  <1> USE DEF CheckIdle, tcVars
  <1>1. /\ todo # {} /\ "QUARANTINE" \notin todo /\ "DRAIN" \notin todo
        /\ "IDLE" \in todo
    BY EarlierDone, PipelineOrder DEF Due
  <1>2. PICK unread \in Unreadable : IF Busy(unread) THEN Fail ELSE Done("IDLE")
    OBVIOUS
  <1>3. CASE Busy(unread)
    BY <1>2, <1>3, EndErase DEF Fail
  <1>4. CASE ~Busy(unread)
    <2>1. \A r \in {"QUARANTINE", "DRAIN", "ERASE"} : r \in todo' <=> r \in todo
      BY <1>2, <1>4 DEF Done
    <2>2. "IDLE" \notin todo'
      BY <1>2, <1>4 DEF Done
    <2>3. working # NoTask => working \notin recent /\ missed < MaxMissed
      BY <1>1, <1>4, IdleAnswer DEF EraseInv
    <2>4. "ERASE" \in todo => Drained(2) /\ home \in quarantined
      BY <1>1 DEF EraseInv, HoldBeforeErase
    <2>5. "ERASE" \in todo => working = NoTask
      BY <2>3, <2>4, LagAssumption DEF Drained, ClaimsShow, TypeOK
    <2>6. HoldBeforeErase'
      BY <1>1, <2>1, <2>2, <2>4, <2>5 DEF HoldBeforeErase
    <2>7. (TaskShows /\ PendingEraseIsHeld)'
      BY DEF EraseInv, TaskShows, PendingEraseIsHeld
    <2>8. QED
      BY <2>6, <2>7 DEF EraseInv
  <1>5. QED
    BY <1>3, <1>4

LEMMA RequestEraseErase ==
  ASSUME TypeOK, EraseInv, RequestErase
  PROVE  EraseInv'
  <1> USE DEF RequestErase, Done, tcVars, taskVars
  <1>1. /\ "QUARANTINE" \notin todo /\ "DRAIN" \notin todo /\ "IDLE" \notin todo
        /\ "ERASE" \in todo
    BY EarlierDone, PipelineOrder DEF Due
  <1>2. home \in quarantined /\ working = NoTask
    BY <1>1 DEF EraseInv, HoldBeforeErase
  <1>3. "ERASE" \notin todo'
    OBVIOUS
  <1>4. QED
    BY <1>2, <1>3 DEF EraseInv, TaskShows, HoldBeforeErase, PendingEraseIsHeld

LEMMA StepErase ==
  ASSUME ClaimsShow, TypeOK, ReturnInv, EraseInv, Step
  PROVE  EraseInv'
  <1> USE DEF tcVars
  <1>1. CASE NoRecord
    BY <1>1, EndErase DEF NoRecord, Fail, taskVars
  <1>2. CASE CheckBootstrapToken
    BY <1>2, EndErase, PlainStepErase DEF CheckBootstrapToken, Fail, taskVars
  <1>3. CASE CheckNoWorker
    BY <1>3, EndErase, PlainStepErase DEF CheckNoWorker, Fail, taskVars
  <1>4. CASE Escrow
    BY <1>4, EndErase, PlainStepErase DEF Escrow, Fail, taskVars
  <1>5. CASE CaptureBaseline
    BY <1>5 DEF CaptureBaseline, EraseInv, TaskShows, HoldBeforeErase, Drained,
                PendingEraseIsHeld, taskVars
  <1>6. CASE SeeReenrolled \/ Mint \/ SeeSentinel \/ GrantScreenRecording
    BY <1>6, PlainStepErase
       DEF SeeReenrolled, Mint, SeeSentinel, GrantScreenRecording
  <1>7. QED
    BY <1>1, <1>2, <1>3, <1>4, <1>5, <1>6, QuarantineErase, UnquarantineErase,
       DrainErase, CheckIdleErase, RequestEraseErase DEF Step

LEMMA TaskErase ==
  ASSUME TypeOK, EraseInv,
         \/ \E t \in Tasks : Claim(t) \/ RetryElsewhere(t)
         \/ ShowClaim \/ FinishTask
  PROVE  EraseInv'
  <1> USE TasksAssumption DEF tcVars, opVars
  <1>1. ASSUME NEW t \in Tasks, Claim(t) PROVE EraseInv'
    <2> USE <1>1 DEF Claim
    <2>1. home \notin quarantined
      OBVIOUS
    <2>2. TaskShows'
      BY DEF TaskShows, TypeOK
    <2>3. (HoldBeforeErase /\ PendingEraseIsHeld)'
      BY <2>1 DEF EraseInv, HoldBeforeErase, PendingEraseIsHeld
    <2>4. QED
      BY <2>2, <2>3 DEF EraseInv
  <1>2. CASE ShowClaim
    BY <1>2 DEF ShowClaim, InvisibleClaim, EraseInv, HoldBeforeErase, Drained,
                TaskShows, PendingEraseIsHeld
  <1>3. CASE FinishTask
    BY <1>3 DEF FinishTask, EraseInv, HoldBeforeErase, Drained, TaskShows,
                PendingEraseIsHeld
  <1>4. ASSUME NEW t \in Tasks, RetryElsewhere(t) PROVE EraseInv'
    <2> USE <1>4 DEF RetryElsewhere
    <2>1. TaskShows'
      BY DEF EraseInv, TaskShows, TypeOK
    <2>2. (HoldBeforeErase /\ PendingEraseIsHeld)'
      BY DEF EraseInv, HoldBeforeErase, Drained, PendingEraseIsHeld
    <2>3. QED
      BY <2>1, <2>2 DEF EraseInv
  <1>5. QED
    BY <1>1, <1>2, <1>3, <1>4

LEMMA MachineErase ==
  ASSUME TypeOK, EraseInv, Machine \/ StopWorker
  PROVE  EraseInv'
  <1> USE DEF EraseInv, HoldBeforeErase, Drained, TaskShows, PendingEraseIsHeld,
              tcVars, taskVars, opVars
  <1>1. CASE StartWorker \/ TouchSemaphore \/ WriteSentinel
    BY <1>1 DEF StartWorker, TouchSemaphore, WriteSentinel
  <1>2. CASE StopWorker
    BY <1>2 DEF StopWorker
  <1>3. CASE ExecuteErase
    <2>1. working = NoTask /\ working' = NoTask /\ ~mdm'.erase
      BY <1>3 DEF ExecuteErase, TypeOK
    <2>2. QED
      BY <1>3, <2>1 DEF ExecuteErase
  <1>4. CASE Reenroll
    BY <1>4 DEF Reenroll
  <1>5. QED
    BY <1>1, <1>2, <1>3, <1>4 DEF Machine

LEMMA NextErase ==
  ASSUME Commands \subseteq HeldCommands, ClaimsShow,
         TypeOK, ReturnInv, EraseInv, [Next]_vars
  PROVE  EraseInv'
  <1>1. CASE Raise
    BY <1>1, EndErase DEF Raise, Fail, tcVars, taskVars
  <1>2. CASE UNCHANGED vars
    BY <1>2 DEF vars, EraseInv, TaskShows, HoldBeforeErase, Drained, PendingEraseIsHeld
  <1>3. QED
    BY <1>1, <1>2, StartErase, StepErase, TaskErase, MachineErase DEF Next, Cloud

\* Whenever an erase is queued at SimpleMDM, the host is quarantined in the
\* pool it works for and runs no task: step_quarantine, step_drain and the
\* idle check of step_wipe, taken together and in that order, are enough, on
\* a host that was built as on one that was not.
THEOREM PendingEraseHeld ==
  /\ Commands \subseteq HeldCommands /\ ClaimsShow
  /\ \A i \in InitHosts : Recognised(i)
  => (Spec => []PendingEraseIsHeld)
  <1> SUFFICES ASSUME Commands \subseteq HeldCommands, ClaimsShow,
                      \A i \in InitHosts : Recognised(i)
               PROVE  Spec => []PendingEraseIsHeld
    OBVIOUS
  <1>1. Init => ReturnInv /\ EraseInv
    BY RecordFound, InitReturn, InitErase
  <1>2. TypeOK /\ ReturnInv /\ EraseInv /\ [Next]_vars => ReturnInv' /\ EraseInv'
    BY NextReturn, NextErase DEF ReturnCommands
  <1>3. EraseInv => PendingEraseIsHeld
    BY DEF EraseInv
  <1>4. QED
    BY <1>1, <1>2, <1>3, TypeCorrect, PTL DEF Spec

-----------------------------------------------------------------------------
(* No host is erased under a task *)

\* Only an erase takes a host down.
LEMMA OnlyEraseTakesDown ==
  ASSUME TypeOK, [Next]_vars, host.up, ~(host.up)'
  PROVE  ExecuteErase
  <1>1. CASE Step
    BY <1>1, StepLeaves
  <1>2. CASE Machine \/ StopWorker
    BY <1>2 DEF Machine, StopWorker, StartWorker, TouchSemaphore, WriteSentinel,
                Reenroll, FreshHost, TypeOK, HostStates
  <1>3. CASE \/ \E c \in Commands : StartCommand(c)
             \/ Raise \/ Cloud \/ (\E t \in Tasks : Claim(t)) \/ UNCHANGED vars
    BY <1>3 DEF StartCommand, Raise, Cloud, RetryElsewhere, ShowClaim,
                FinishTask, Claim, vars
  <1>4. QED
    BY <1>1, <1>2, <1>3 DEF Next

LEMMA InitOverlooked ==
  ASSUME Init, NEW i \in InitHosts, Overlooked(i),
         home = i.home, registered = i.records,
         host \in IF i.live THEN LiveHosts ELSE {FreshHost}
  PROVE  OverlookedInv
  BY DEF Overlooked, Init, OverlookedInv, LiveHosts

\* The pgrep sees the worker of an overlooked host, so no erase is requested.
LEMMA NextOverlooked ==
  ASSUME TypeOK, OverlookedInv, [Next]_vars
  PROVE  OverlookedInv'
  <1>0. home' = home
    BY HomeFixed
  <1> USE <1>0 DEF OverlookedInv, tcVars, taskVars, opVars
  <1>1. ASSUME NEW c \in Commands, StartCommand(c) PROVE OverlookedInv'
    <2>1. todo' = Plan(c, FALSE)
      BY <1>1 DEF StartCommand, Resolve
    <2>2. QED
      BY <1>1, <2>1, UnregisteredPlans DEF StartCommand
  <1>2. ASSUME Fail, UNCHANGED <<registered, mdm, host>> PROVE OverlookedInv'
    BY <1>2 DEF Fail
  <1>3. CASE Raise \/ NoRecord
    BY <1>2, <1>3 DEF Raise, NoRecord
  <1>4. ASSUME NEW s \in Steps \ {"PGREP"}, Done(s), UNCHANGED <<registered, mdm>>,
               host'.up, host'.gw
        PROVE  OverlookedInv'
    BY <1>4, StruckOff, PipelineOrder
  <1>5. CASE Quarantine \/ Unquarantine \/ SeeReenrolled \/ SeeSentinel
               \/ GrantScreenRecording
    BY <1>4, <1>5, PipelineOrder
       DEF Quarantine, Unquarantine, SeeReenrolled, SeeSentinel, GrantScreenRecording
  <1>6. CASE DrainPoll
    <2>1. CASE Done("DRAIN")
      BY <1>4, <1>6, <2>1, PipelineOrder DEF DrainPoll
    <2>2. CASE UNCHANGED <<todo, outcome>>
      BY <1>6, <2>2 DEF DrainPoll
    <2>3. QED
      BY <1>6, <2>1, <2>2 DEF DrainPoll
  <1>7. CASE CheckIdle
    BY <1>2, <1>4, <1>7, PipelineOrder DEF CheckIdle
  <1>8. CASE CheckBootstrapToken \/ Mint \/ Escrow
    <2>1. host'.up /\ host'.gw
      BY <1>8 DEF CheckBootstrapToken, Mint, Escrow, TypeOK, HostStates
    <2>2. QED
      BY <1>2, <1>4, <1>8, <2>1, PipelineOrder DEF CheckBootstrapToken, Mint, Escrow
  <1>9. CASE CheckNoWorker
    BY <1>2, <1>9 DEF CheckNoWorker
  <1>10. CASE RequestErase
    <2>1. "ERASE" \in todo /\ "PGREP" \notin todo
      BY <1>10, EarlierDone, PipelineOrder DEF RequestErase, Due
    <2>2. QED
      BY <2>1
  <1>11. CASE CaptureBaseline
    BY <1>11 DEF CaptureBaseline
  <1>12. CASE Cloud \/ \E t \in Tasks : Claim(t)
    BY <1>12 DEF Cloud, RetryElsewhere, ShowClaim, FinishTask, Claim
  <1>13. CASE StopWorker \/ StartWorker \/ ExecuteErase \/ Reenroll
    BY <1>13 DEF StopWorker, StartWorker, ExecuteErase, Reenroll
  <1>14. CASE TouchSemaphore \/ WriteSentinel
    <2>1. host'.up /\ host'.gw
      BY <1>14 DEF TouchSemaphore, WriteSentinel, TypeOK, HostStates
    <2>2. QED
      BY <1>14, <2>1 DEF TouchSemaphore, WriteSentinel
  <1>15. CASE UNCHANGED vars
    BY <1>15 DEF vars
  <1>16. QED
    BY <1>1, <1>3, <1>5, <1>6, <1>7, <1>8, <1>9, <1>10, <1>11, <1>12, <1>13,
       <1>14, <1>15 DEF Next, Step, Machine

\* A host is never erased while it executes a task: one whose record is found
\* because it is held and idle, one without a record because its worker is seen.
THEOREM RunningTaskNotErased ==
  /\ Commands \subseteq HeldCommands /\ ClaimsShow
  /\ \A i \in InitHosts : Recognised(i) \/ Overlooked(i)
  => (Spec => NoTaskErased)
  <1> SUFFICES ASSUME Commands \subseteq HeldCommands, ClaimsShow,
                      \A i \in InitHosts : Recognised(i) \/ Overlooked(i)
               PROVE  Spec => NoTaskErased
    OBVIOUS
  <1> DEFINE Found == ReturnInv /\ EraseInv
  <1>1. Init => Found \/ OverlookedInv
    <2> SUFFICES ASSUME Init PROVE Found \/ OverlookedInv
      OBVIOUS
    <2>1. PICK i \in InitHosts :
            /\ home = i.home /\ registered = i.records
            /\ host \in IF i.live THEN LiveHosts ELSE {FreshHost}
      BY DEF Init
    <2>2. CASE Recognised(i)
      BY <2>1, <2>2, InitReturn, InitErase DEF Recognised
    <2>3. CASE Overlooked(i)
      BY <2>1, <2>3, InitOverlooked DEF Overlooked
    <2>4. QED
      BY <2>2, <2>3
  <1>2. TypeOK /\ (Found \/ OverlookedInv) /\ [Next]_vars => (Found \/ OverlookedInv)'
    BY NextReturn, NextErase, NextOverlooked DEF ReturnCommands
  <1>3. TypeOK /\ (Found \/ OverlookedInv) /\ [Next]_vars
          => [host.up /\ ~(host.up)' => working = NoTask]_vars
    BY OnlyEraseTakesDown
       DEF EraseInv, PendingEraseIsHeld, OverlookedInv, ExecuteErase
  <1>4. QED
    BY <1>1, <1>2, <1>3, TypeCorrect, PTL DEF Spec, NoTaskErased

-----------------------------------------------------------------------------
(* A host in service is built *)

LEMMA InitBuilt ==
  ASSUME Disciplined, Init
  PROVE  BuiltInService /\ ErasedIsBare
  <1> PICK i \in InitHosts :
         /\ home = i.home
         /\ registered = i.records
         /\ quarantined = IF i.held THEN i.records ELSE {}
         /\ host \in IF i.live THEN LiveHosts ELSE {FreshHost}
    BY DEF Init
  <1>1. ErasedIsBare
    BY DEF ErasedIsBare, LiveHosts, FreshHost
  <1>2. CASE i.live
    BY <1>1, <1>2 DEF LiveHosts, BuiltInService
  <1>3. CASE i.held
    BY <1>1, <1>3, RecordFound, InitReturn
       DEF Disciplined, BuiltInService, ReturnInv, RightPool
  <1>4. QED
    BY <1>2, <1>3 DEF Disciplined

\* A host is released built, and an erase, which undoes that, finds it held.
LEMMA NextBuilt ==
  ASSUME TypeOK, HoldInv, [Next]_vars
  PROVE  (BuiltInService /\ ErasedIsBare)'
  <1> USE DEF HoldInv, BuiltInService, ErasedIsBare, tcVars, taskVars, opVars
  <1>1. CASE Unquarantine
    BY <1>1, UnquarantineRebuilt DEF Unquarantine, RebuiltSinceErase
  <1>2. CASE Step /\ ~Unquarantine
    <2>1. /\ home' = home /\ (host.up)' = host.up
          /\ (host.sentinel)' = host.sentinel
      BY <1>2, StepLeaves
    <2>2. quarantined \subseteq quarantined'
      BY <1>2 DEF Step, Quarantine, NoRecord, DrainPoll, CheckBootstrapToken,
         CheckIdle, CheckNoWorker, RequestErase, CaptureBaseline, SeeReenrolled,
         Mint, Escrow, SeeSentinel, GrantScreenRecording
    <2>3. QED
      BY <2>1, <2>2
  <1>3. CASE \/ \E c \in Commands : StartCommand(c)
             \/ Raise \/ Cloud \/ (\E t \in Tasks : Claim(t)) \/ UNCHANGED vars
    BY <1>3 DEF StartCommand, Raise, Cloud, RetryElsewhere, ShowClaim,
                FinishTask, Claim, vars
  <1>4. CASE StopWorker \/ StartWorker \/ TouchSemaphore \/ WriteSentinel
    <2>1. (host.up)' = host.up /\ (host.sentinel => host'.sentinel)
      BY <1>4 DEF StopWorker, StartWorker, TouchSemaphore, WriteSentinel,
                  TypeOK, HostStates
    <2>2. host'.sentinel => host.up
      BY <1>4 DEF StopWorker, StartWorker, TouchSemaphore, WriteSentinel,
                  TypeOK, HostStates
    <2>3. QED
      BY <1>4, <2>1, <2>2 DEF StopWorker, StartWorker, TouchSemaphore, WriteSentinel
  <1>5. CASE ExecuteErase
    <2>1. home \in quarantined
      BY <1>5 DEF ExecuteErase, EraseInv, PendingEraseIsHeld
    <2>2. QED
      BY <1>5, <2>1 DEF ExecuteErase, FreshHost
  <1>6. CASE Reenroll
    BY <1>6 DEF Reenroll, FreshHost
  <1>7. QED
    BY <1>1, <1>2, <1>3, <1>4, <1>5, <1>6 DEF Next, Machine

\* The inductive invariant holds of every behaviour of a disciplined instance.
THEOREM HoldInvariant == Disciplined => (Spec => []HoldInv)
  <1> SUFFICES ASSUME Disciplined PROVE Spec => []HoldInv
    OBVIOUS
  <1>1. Init => HoldInv
    BY RecordFound, InitReturn, InitErase, InitBuilt DEF Disciplined, HoldInv
  <1>2. TypeOK /\ HoldInv /\ [Next]_vars => HoldInv'
    BY NextReturn, NextErase, NextBuilt DEF Disciplined, ReturnCommands, HoldInv
  <1>3. QED
    BY <1>1, <1>2, TypeCorrect, PTL DEF Spec

-----------------------------------------------------------------------------
(* Reprovision implements HostService *)

Serving == home \in registered \ quarantined
Generation == mdm.enrolledAt + (IF host.up THEN 0 ELSE 1)

LEMMA InitServes == Disciplined /\ Init => Service!Init
  <1> SUFFICES ASSUME Disciplined, Init PROVE Service!Init
    OBVIOUS
  <1>1. BuiltInService /\ TypeOK
    BY InitBuilt, InitType
  <1>2. Generation \in Nat
    BY <1>1 DEF Generation, TypeOK, HostStates
  <1>3. Serving => host.sentinel
    BY <1>1 DEF Serving, BuiltInService
  <1>4. Serving \in BOOLEAN /\ host.sentinel \in BOOLEAN
    BY <1>1 DEF Serving, TypeOK, HostStates
  <1>5. (working # NoTask) = FALSE
    BY DEF Init
  <1>6. QED
    BY <1>2, <1>3, <1>4, <1>5 DEF Service!Init, Serving, Generation

\* A step that leaves the four mapped values alone is a stutter of Service.
LEMMA Stutter ==
  ASSUME Serving' = Serving, (working # NoTask)' = (working # NoTask),
         (host.sentinel)' = host.sentinel, Generation' = Generation
  PROVE  UNCHANGED Service!svars
  BY DEF Service!svars, Serving, Generation

LEMMA StepServes ==
  ASSUME TypeOK, HoldInv, Step \/ Raise \/ \E c \in Commands : StartCommand(c)
  PROVE  Service!Next \/ UNCHANGED Service!svars
  <1>1. /\ UNCHANGED <<registered, home, working>>
        /\ (host.up)' = host.up /\ (host.sentinel)' = host.sentinel
        /\ (mdm.enrolledAt)' = mdm.enrolledAt
    BY DEF Step, tcVars, taskVars, StartCommand, Quarantine, Unquarantine,
           NoRecord, DrainPoll, CheckBootstrapToken, CheckIdle, CheckNoWorker,
           RequestErase, CaptureBaseline, SeeReenrolled, Mint, Escrow,
           SeeSentinel, GrantScreenRecording, Raise, TypeOK, HostStates
  <1>2. Generation' = Generation /\ (working # NoTask)' = (working # NoTask)
    BY <1>1 DEF Generation
  <1>3. CASE Quarantine
    <2>1. Serving' = FALSE
      BY <1>3 DEF Quarantine, Serving, HoldInv, ReturnInv, RightPool, Due
    <2>2. CASE Serving
      BY <1>1, <1>2, <2>1, <2>2
         DEF Service!Next, Service!Hold, Serving, Generation
    <2>3. CASE ~Serving
      BY <1>1, <1>2, <2>1, <2>3, Stutter DEF Serving
    <2>4. QED
      BY <2>2, <2>3
  <1>4. CASE Unquarantine
    <2>1. Serving' = TRUE /\ host.sentinel
      BY <1>4, UnquarantineRebuilt
         DEF Unquarantine, Serving, HoldInv, ReturnInv, RightPool, Due, RebuiltSinceErase
    <2>2. CASE ~Serving
      BY <1>1, <1>2, <2>1, <2>2
         DEF Service!Next, Service!Release, Serving, Generation
    <2>3. CASE Serving
      BY <1>1, <1>2, <2>1, <2>3, Stutter DEF Serving
    <2>4. QED
      BY <2>2, <2>3
  <1>5. CASE ~Quarantine /\ ~Unquarantine
    <2>1. quarantined' = quarantined
      BY <1>5 DEF Step, tcVars, StartCommand, NoRecord, DrainPoll,
           CheckBootstrapToken, CheckIdle, CheckNoWorker, RequestErase,
           CaptureBaseline, SeeReenrolled, Mint, Escrow, SeeSentinel,
           GrantScreenRecording, Raise
    <2>2. QED
      BY <1>1, <1>2, <2>1, Stutter DEF Serving
  <1>6. QED
    BY <1>3, <1>4, <1>5

LEMMA TaskServes ==
  ASSUME TypeOK, HoldInv,
         \/ \E t \in Tasks : Claim(t) \/ RetryElsewhere(t)
         \/ ShowClaim \/ FinishTask
  PROVE  Service!Next \/ UNCHANGED Service!svars
  <1>1. UNCHANGED <<registered, quarantined, home, mdm, host>>
    BY DEF Claim, RetryElsewhere, ShowClaim, FinishTask, tcVars
  <1>2. /\ Serving' = Serving /\ Generation' = Generation
        /\ (host.sentinel)' = host.sentinel
    BY <1>1 DEF Serving, Generation
  <1>3. ASSUME NEW t \in Tasks, Claim(t)
        PROVE  Service!Next
    <2>1. (working # NoTask)' = TRUE /\ (working # NoTask) = FALSE
      BY <1>3, TasksAssumption DEF Claim
    <2>2. Serving /\ host.sentinel
      BY <1>3 DEF Claim, Serving, HoldInv, BuiltInService
    <2>3. QED
      BY <1>2, <2>1, <2>2
         DEF Service!Next, Service!TakeTask, Serving, Generation
  <1>4. CASE FinishTask
    <2>1. (working # NoTask)' = FALSE /\ (working # NoTask) = TRUE
      BY <1>4 DEF FinishTask
    <2>2. QED
      BY <1>2, <2>1 DEF Service!Next, Service!EndTask, Serving, Generation
  <1>5. CASE ShowClaim \/ \E t \in Tasks : RetryElsewhere(t)
    BY <1>2, <1>5, Stutter DEF ShowClaim, RetryElsewhere
  <1>6. QED
    BY <1>3, <1>4, <1>5

LEMMA MachineServes ==
  ASSUME TypeOK, HoldInv, Machine \/ StopWorker
  PROVE  Service!Next \/ UNCHANGED Service!svars
  <1>1. UNCHANGED <<quarantined, home>>
    BY DEF Machine, StopWorker, StartWorker, TouchSemaphore, WriteSentinel,
           ExecuteErase, Reenroll, tcVars
  <1>2. registered' = registered
    BY DEF Machine, StopWorker, StartWorker, TouchSemaphore, WriteSentinel,
           ExecuteErase, Reenroll, tcVars, HoldInv, ReturnInv, RightPool
  <1>3. Serving' = Serving
    BY <1>1, <1>2 DEF Serving
  <1>4. CASE StartWorker \/ TouchSemaphore
    <2>1. /\ (host.up)' = host.up /\ (host.sentinel)' = host.sentinel
          /\ UNCHANGED <<mdm, working>>
      BY <1>4 DEF StartWorker, TouchSemaphore, taskVars, TypeOK, HostStates
    <2>2. QED
      BY <1>3, <2>1, Stutter DEF Generation
  <1>5. CASE WriteSentinel
    <2>1. /\ (host.up)' = host.up /\ (host.sentinel)' = TRUE
          /\ host.sentinel = FALSE /\ UNCHANGED <<mdm, working>>
      BY <1>5 DEF WriteSentinel, taskVars, TypeOK, HostStates
    <2>2. Generation' = Generation
      BY <2>1 DEF Generation
    <2>3. QED
      BY <1>3, <2>1, <2>2
         DEF Service!Next, Service!FinishBuild, Serving, Generation
  <1>6. CASE StopWorker
    <2>1. /\ (host.up)' = host.up /\ (host.sentinel)' = host.sentinel
          /\ (working # NoTask)' = FALSE /\ UNCHANGED mdm
      BY <1>6 DEF StopWorker, TypeOK, HostStates
    <2>2. Generation' = Generation
      BY <2>1 DEF Generation
    <2>3. CASE working = NoTask
      BY <1>3, <2>1, <2>2, <2>3, Stutter
    <2>4. CASE working # NoTask
      BY <1>3, <2>1, <2>2, <2>4
         DEF Service!Next, Service!EndTask, Serving, Generation
    <2>5. QED
      BY <2>3, <2>4
  <1>7. CASE ExecuteErase
    <2>1. ~Serving /\ (working # NoTask) = FALSE /\ (working # NoTask)' = FALSE
      BY <1>7 DEF ExecuteErase, HoldInv, EraseInv, PendingEraseIsHeld, Serving
    <2>2. (mdm.enrolledAt)' = mdm.enrolledAt /\ mdm.enrolledAt \in Nat
      BY <1>7 DEF ExecuteErase, TypeOK
    <2>3. CASE host.bst
      <3>1. (host.up)' = FALSE /\ (host.sentinel)' = FALSE /\ host.up
        BY <1>7, <2>3 DEF ExecuteErase, FreshHost
      <3>2. Generation' = Generation + 1
        BY <2>2, <3>1 DEF Generation
      <3>3. QED
        BY <1>3, <2>1, <3>1, <3>2
           DEF Service!Next, Service!Erase, Serving, Generation
    <2>4. CASE ~host.bst
      <3>1. host' = host
        BY <1>7, <2>4 DEF ExecuteErase
      <3>2. QED
        BY <1>3, <2>1, <2>2, <3>1, Stutter DEF Generation
    <2>5. QED
      BY <2>3, <2>4
  <1>8. CASE Reenroll
    <2>1. /\ host.up = FALSE /\ (host.up)' = TRUE
          /\ host.sentinel = FALSE /\ (host.sentinel)' = FALSE
          /\ (mdm.enrolledAt)' = mdm.enrolledAt + 1 /\ working' = working
      BY <1>8 DEF Reenroll, FreshHost, taskVars, HoldInv, ErasedIsBare,
                  TypeOK, HostStates
    <2>2. Generation' = Generation
      BY <2>1 DEF Generation, TypeOK
    <2>3. QED
      BY <1>3, <2>1, <2>2, Stutter
  <1>9. QED
    BY <1>4, <1>5, <1>6, <1>7, <1>8 DEF Machine

\* Seen from Taskcluster and the fleet, a host under the reprovision CLI obeys
\* HostService: tasks only on a built host in service, erased only held and
\* idle, released only built.
THEOREM ImplementsHostService == Disciplined => (Spec => ServiceSpec)
  <1> SUFFICES ASSUME Disciplined PROVE Spec => ServiceSpec
    OBVIOUS
  <1>1. Init => Service!Init
    BY InitServes
  <1>2. TypeOK /\ HoldInv /\ [Next]_vars => [Service!Next]_(Service!svars)
    <2> SUFFICES ASSUME TypeOK, HoldInv, [Next]_vars
                 PROVE  Service!Next \/ UNCHANGED Service!svars
      OBVIOUS
    <2>1. CASE UNCHANGED vars
      BY <2>1, Stutter DEF vars, Serving, Generation
    <2>2. CASE Next
      BY <2>2, StepServes, TaskServes, MachineServes DEF Next, Cloud
    <2>3. QED
      BY <2>1, <2>2
  <1>3. QED
    BY <1>1, <1>2, TypeCorrect, HoldInvariant, PTL
       DEF Spec, ServiceSpec, Service!Spec

=============================================================================
