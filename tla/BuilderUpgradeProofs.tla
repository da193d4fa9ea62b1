------------------------ MODULE BuilderUpgradeProofs ------------------------
(***************************************************************************)
(* For any number of failures, kills and re-runs, with or without a sudo   *)
(* password. Held (a run that finds nothing to do leaves out nothing, a    *)
(* builder returns only completely upgraded) whatever the lag of           *)
(* recentTasks; idle as well (the host is interrupted only under no task,  *)
(* and BuilderUpgrade implements Maintenance) when two polls bridge it.    *)
(***************************************************************************)
EXTENDS BuilderUpgrade, TLAPS

(* Types *)

LEMMA InitType == Init => TypeOK
  <1> SUFFICES ASSUME Init PROVE TypeOK
    OBVIOUS
  <1>1. FlagsOK
    BY DEF Init, FlagsOK
  <1>2. CountsOK
    BY FaultsAssumption DEF Init, CountsOK
  <1>3. PlacesOK
    BY DEF Init, PlacesOK, Places
  <1>4. host \in Hosts
    BY DEF Init, Hosts
  <1>5. QED
    BY <1>1, <1>2, <1>3, <1>4 DEF TypeOK

\* The flags stay flags.
LEMMA FlagsStep ==
  ASSUME FlagsOK, Next
  PROVE  FlagsOK'
  <1> USE DEF FlagsOK, Goto, End, Fault, FaultEnd, tcVars, machine, opVars
  <1>1. CASE \E u \in BOOLEAN : Start(u)
    BY <1>1 DEF Start
  <1>2. CASE Preflight \/ Quarantine \/ Unquarantine
    BY <1>2 DEF Preflight, Quarantine, Unquarantine
  <1>3. CASE DrainPoll
    BY <1>3 DEF DrainPoll, CountMiss
  <1>4. CASE Raise \/ Killed
    BY <1>4 DEF Raise, Killed
  <1>5. CASE StopWorker
    BY <1>5 DEF StopWorker
  <1>6. CASE ClearCaches \/ LaunchInstaller \/ SeeDown \/ ProbeDropped \/ SeeOs
    BY <1>6 DEF ClearCaches, LaunchInstaller, SeeDown, ProbeDropped, SeeOs
  <1>7. CASE InstallXcode \/ XcodeInstalled \/ XcodeFails
    BY <1>7 DEF InstallXcode, XcodeInstalled, XcodeFails
  <1>8. CASE EnsureSudo \/ ResetKeybag \/ InstallClt \/ Verify
    BY <1>8 DEF EnsureSudo, ResetKeybag, InstallClt, Verify
  <1>9. CASE Puppet
    BY <1>9 DEF Puppet
  <1>10. CASE Return \/ ShutdownIgnored
    BY <1>10 DEF Return, ShutdownIgnored, Down
  <1>11. CASE SeeLogin \/ SeeDesktop \/ SeeRegistered
    BY <1>11 DEF SeeLogin, SeeDesktop, SeeRegistered
  <1>12. CASE InstallerReboots
    BY <1>12 DEF InstallerReboots, Down
  <1>13. CASE InstallerDone
    BY <1>13 DEF InstallerDone
  <1>14. CASE Boot
    BY <1>14 DEF Boot
  <1>15. CASE DaemonFinishes \/ DaemonReplacesXcode \/ SudoPkg
    BY <1>15 DEF DaemonFinishes, DaemonReplacesXcode, SudoPkg
  <1>16. CASE Autologin \/ StartDesktop \/ CheckIn
    BY <1>16 DEF Autologin, StartDesktop, CheckIn
  <1>17. CASE Claim \/ ShowClaim \/ FinishTask
    BY <1>17 DEF Claim, ShowClaim, InvisibleClaim, FinishTask
  <1>18. QED
    BY <1>1, <1>2, <1>3, <1>4, <1>5, <1>6, <1>7, <1>8, <1>9, <1>10, <1>11, <1>12, <1>13, <1>14, <1>15, <1>16, <1>17
    DEF Next, Step, Machine

\* The counts stay in their bounds.
LEMMA CountsStep ==
  ASSUME CountsOK, Next
  PROVE  CountsOK'
  <1> USE FaultsAssumption DEF CountsOK, Goto, End, Fault, FaultEnd, tcVars, machine, opVars
  <1>1. CASE \E u \in BOOLEAN : Start(u)
    BY <1>1 DEF Start
  <1>2. CASE Preflight \/ Quarantine \/ Unquarantine
    BY <1>2 DEF Preflight, Quarantine, Unquarantine
  <1>3. CASE DrainPoll
    BY <1>3 DEF DrainPoll, CountMiss
  <1>4. CASE Raise \/ Killed
    BY <1>4 DEF Raise, Killed
  <1>5. CASE StopWorker
    BY <1>5 DEF StopWorker
  <1>6. CASE ClearCaches \/ LaunchInstaller \/ SeeDown \/ ProbeDropped \/ SeeOs
    BY <1>6 DEF ClearCaches, LaunchInstaller, SeeDown, ProbeDropped, SeeOs
  <1>7. CASE InstallXcode \/ XcodeInstalled \/ XcodeFails
    BY <1>7 DEF InstallXcode, XcodeInstalled, XcodeFails
  <1>8. CASE EnsureSudo \/ ResetKeybag \/ InstallClt \/ Verify
    BY <1>8 DEF EnsureSudo, ResetKeybag, InstallClt, Verify
  <1>9. CASE Puppet
    BY <1>9 DEF Puppet
  <1>10. CASE Return \/ ShutdownIgnored
    BY <1>10 DEF Return, ShutdownIgnored, Down
  <1>11. CASE SeeLogin \/ SeeDesktop \/ SeeRegistered
    BY <1>11 DEF SeeLogin, SeeDesktop, SeeRegistered
  <1>12. CASE InstallerReboots
    BY <1>12 DEF InstallerReboots, Down
  <1>13. CASE InstallerDone
    <2>1. faults' = faults \/ (faults < MaxFaults /\ faults' = faults + 1)
      BY <1>13, Zenon DEF InstallerDone
    <2>2. missed' = missed /\ idle' = idle /\ pc' = pc
      BY <1>13 DEF InstallerDone
    <2>3. QED
      BY <2>1, <2>2
  <1>14. CASE Boot
    BY <1>14 DEF Boot
  <1>15. CASE DaemonFinishes \/ DaemonReplacesXcode \/ SudoPkg
    BY <1>15 DEF DaemonFinishes, DaemonReplacesXcode, SudoPkg
  <1>16. CASE Autologin \/ StartDesktop \/ CheckIn
    BY <1>16 DEF Autologin, StartDesktop, CheckIn
  <1>17. CASE Claim \/ ShowClaim \/ FinishTask
    BY <1>17 DEF Claim, ShowClaim, InvisibleClaim, FinishTask
  <1>18. QED
    BY <1>1, <1>2, <1>3, <1>4, <1>5, <1>6, <1>7, <1>8, <1>9, <1>10, <1>11, <1>12, <1>13, <1>14, <1>15, <1>16, <1>17
    DEF Next, Step, Machine

\* Places and modes.
LEMMA PlacesStep ==
  ASSUME PlacesOK, Next
  PROVE  PlacesOK'
  <1> USE DEF PlacesOK, Places, Goto, End, Fault, FaultEnd, tcVars, machine, opVars
  <1>1. CASE \E u \in BOOLEAN : Start(u)
    BY <1>1 DEF Start
  <1>2. CASE Preflight \/ Quarantine \/ Unquarantine
    BY <1>2 DEF Preflight, Quarantine, Unquarantine
  <1>3. CASE DrainPoll
    BY <1>3 DEF DrainPoll, CountMiss
  <1>4. CASE Raise \/ Killed
    BY <1>4 DEF Raise, Killed
  <1>5. CASE StopWorker
    BY <1>5 DEF StopWorker
  <1>6. CASE ClearCaches \/ LaunchInstaller \/ SeeDown \/ ProbeDropped \/ SeeOs
    BY <1>6 DEF ClearCaches, LaunchInstaller, SeeDown, ProbeDropped, SeeOs
  <1>7. CASE InstallXcode \/ XcodeInstalled \/ XcodeFails
    BY <1>7 DEF InstallXcode, XcodeInstalled, XcodeFails
  <1>8. CASE EnsureSudo \/ ResetKeybag \/ InstallClt \/ Verify
    BY <1>8 DEF EnsureSudo, ResetKeybag, InstallClt, Verify
  <1>9. CASE Puppet
    BY <1>9 DEF Puppet
  <1>10. CASE Return \/ ShutdownIgnored
    BY <1>10 DEF Return, ShutdownIgnored, Down
  <1>11. CASE SeeLogin \/ SeeDesktop \/ SeeRegistered
    BY <1>11 DEF SeeLogin, SeeDesktop, SeeRegistered
  <1>12. CASE InstallerReboots
    BY <1>12 DEF InstallerReboots, Down
  <1>13. CASE InstallerDone
    BY <1>13 DEF InstallerDone
  <1>14. CASE Boot
    BY <1>14 DEF Boot
  <1>15. CASE DaemonFinishes \/ DaemonReplacesXcode \/ SudoPkg
    BY <1>15 DEF DaemonFinishes, DaemonReplacesXcode, SudoPkg
  <1>16. CASE Autologin \/ StartDesktop \/ CheckIn
    BY <1>16 DEF Autologin, StartDesktop, CheckIn
  <1>17. CASE Claim \/ ShowClaim \/ FinishTask
    BY <1>17 DEF Claim, ShowClaim, InvisibleClaim, FinishTask
  <1>18. QED
    BY <1>1, <1>2, <1>3, <1>4, <1>5, <1>6, <1>7, <1>8, <1>9, <1>10, <1>11, <1>12, <1>13, <1>14, <1>15, <1>16, <1>17
    DEF Next, Step, Machine

\* The host.
LEMMA HostStep ==
  ASSUME host \in Hosts, Next
  PROVE  host' \in Hosts
  <1> USE DEF Goto, End, Fault, FaultEnd, tcVars, machine, opVars
  <1>1. CASE \E u \in BOOLEAN : Start(u)
    BY <1>1 DEF Start, Hosts
  <1>2. CASE Preflight \/ Quarantine \/ Unquarantine
    BY <1>2 DEF Preflight, Quarantine, Unquarantine, Hosts
  <1>3. CASE DrainPoll
    BY <1>3 DEF DrainPoll, CountMiss, Hosts
  <1>4. CASE Raise \/ Killed
    BY <1>4 DEF Raise, Killed, Hosts
  <1>5. CASE StopWorker
    <2>1. \A k \in 0..5 : Stopped(k) \in Hosts
      BY DEF Hosts, Stopped
    <2>2. QED
      BY <1>5, <2>1 DEF StopWorker
  <1>6. CASE ClearCaches \/ LaunchInstaller \/ SeeDown \/ ProbeDropped \/ SeeOs
    BY <1>6 DEF ClearCaches, LaunchInstaller, SeeDown, ProbeDropped, SeeOs, Hosts
  <1>7. CASE InstallXcode \/ XcodeInstalled \/ XcodeFails
    BY <1>7 DEF InstallXcode, XcodeInstalled, XcodeFails, Hosts
  <1>8. CASE EnsureSudo \/ ResetKeybag \/ InstallClt \/ Verify
    BY <1>8 DEF EnsureSudo, ResetKeybag, InstallClt, Verify, Hosts
  <1>9. CASE Puppet
    BY <1>9 DEF Puppet, Hosts
  <1>10. CASE Return \/ ShutdownIgnored
    <2>1. \A k \in 0..3 : Returned(k) \in Hosts
      BY DEF Hosts, Returned
    <2>2. \A h \in Hosts : [h EXCEPT !.up = FALSE, !.runner = FALSE] \in Hosts
      BY DEF Hosts
    <2>3. Returned(3) \in Hosts
      BY <2>1
    <2>4. CASE ShutdownIgnored
      BY <2>3, <2>4 DEF ShutdownIgnored
    <2>5. CASE Return
      <3>1. \/ host' = [Returned(3) EXCEPT !.up = FALSE, !.runner = FALSE]
            \/ \E k \in 0..3 : host' = Returned(k)
        BY <2>5, Zenon DEF Return, Down
      <3>2. QED
        BY <2>1, <2>2, <2>3, <3>1
    <2>6. QED
      BY <1>10, <2>4, <2>5
  <1>11. CASE SeeLogin \/ SeeDesktop \/ SeeRegistered
    BY <1>11 DEF SeeLogin, SeeDesktop, SeeRegistered, Hosts
  <1>12. CASE InstallerReboots
    BY <1>12 DEF InstallerReboots, Down, Hosts
  <1>13. CASE InstallerDone
    BY <1>13 DEF InstallerDone, Hosts
  <1>14. CASE Boot
    BY <1>14 DEF Boot, Hosts
  <1>15. CASE DaemonFinishes \/ DaemonReplacesXcode \/ SudoPkg
    BY <1>15 DEF DaemonFinishes, DaemonReplacesXcode, SudoPkg, Hosts
  <1>16. CASE Autologin \/ StartDesktop \/ CheckIn
    BY <1>16 DEF Autologin, StartDesktop, CheckIn, Hosts
  <1>17. CASE Claim \/ ShowClaim \/ FinishTask
    BY <1>17 DEF Claim, ShowClaim, InvisibleClaim, FinishTask, Hosts
  <1>18. QED
    BY <1>1, <1>2, <1>3, <1>4, <1>5, <1>6, <1>7, <1>8, <1>9, <1>10, <1>11, <1>12, <1>13, <1>14, <1>15, <1>16, <1>17
    DEF Next, Step, Machine

\* Every variable keeps its type, whatever fails and is re-run.
THEOREM TypeCorrect == Spec => []TypeOK
  <1>1. Init => TypeOK
    BY InitType
  <1>2. TypeOK /\ [Next]_vars => TypeOK'
    <2> SUFFICES ASSUME TypeOK, [Next]_vars PROVE TypeOK'
      OBVIOUS
    <2>1. CASE Next
      BY <2>1, FlagsStep, CountsStep, PlacesStep, HostStep DEF TypeOK
    <2>2. CASE UNCHANGED vars
      BY <2>2 DEF TypeOK, FlagsOK, CountsOK, PlacesOK, vars
    <2>3. QED
      BY <2>1, <2>2
  <1>3. QED
    BY <1>1, <1>2, PTL DEF Spec

-----------------------------------------------------------------------------
(* Held: whatever the lag *)

LEMMA InitHeld == Init => HeldInv
  <1> SUFFICES ASSUME Init PROVE HeldInv
    OBVIOUS
  <1>1. ServiceInv /\ NothingIsLeft
    BY DEF Init, ServiceInv, Whole, Upgraded, NothingIsLeft
  <1>2. WorkInv
    BY DEF Init, WorkInv, Working, Installing
  <1>3. SemaphoreInv /\ ProgressInv
    BY DEF Init, SemaphoreInv, ProgressInv, WorkerOut, Working, OnNew, Verified
  <1>4. QED
    BY <1>1, <1>2, <1>3 DEF HeldInv

\* What step_stop_worker's commands leave alone, and do.
LEMMA StoppedFields ==
  ASSUME host \in Hosts, NEW k \in 0..5
  PROVE  /\ Stopped(k).os = host.os /\ Stopped(k).clt = host.clt
         /\ Stopped(k).converged = host.converged
         /\ Stopped(k).sem => host.sem /\ Stopped(k).kc = host.kc
         /\ k = 5 => ~Stopped(k).sem
  <1>1. /\ Stopped(k).os = host.os /\ Stopped(k).clt = host.clt
        /\ Stopped(k).converged = host.converged
    BY DEF Stopped, Hosts
  <1>2. Stopped(k).sem = (host.sem /\ k < 1)
    BY DEF Stopped, Hosts
  <1>3. Stopped(k).kc = IF k < 3 THEN host.kc ELSE "aside"
    BY DEF Stopped, Hosts
  <1>4. k < 1 => k < 3 /\ k # 5
    OBVIOUS
  <1>5. QED
    BY <1>1, <1>2, <1>3, <1>4

\* step_stop_worker is done, or fails half-way.
LEMMA StopEnds ==
  ASSUME StopWorker
  PROVE  \E k \in 0..5 : host' = Stopped(k) /\ pc' = IF k = 5 THEN "clear" ELSE "idle"
  <1>1. PICK k \in 0..5 : host' = Stopped(k) /\ IF k = 5 THEN Goto("clear") ELSE FaultEnd("failed")
    BY DEF StopWorker
  <1>2. pc' = IF k = 5 THEN "clear" ELSE "idle"
    BY <1>1 DEF Goto, FaultEnd
  <1>3. QED
    BY <1>1, <1>2

\* What step_return's commands leave alone, and do.
LEMMA ReturnedFields ==
  ASSUME host \in Hosts, NEW k \in 0..3
  PROVE  /\ Returned(k) \in Hosts
         /\ Returned(k).os = host.os /\ Returned(k).clt = host.clt
         /\ Returned(k).role = host.role /\ Returned(k).xcode = host.xcode
         /\ Returned(k).converged = host.converged
         /\ Returned(k).up = host.up /\ Returned(k).runner = host.runner
         /\ Returned(k).sem => host.sem \/ Returned(k).kc = "place"
         /\ k = 3 => Returned(k).kc = "place" /\ Returned(k).sem
  <1>1. Returned(k) \in Hosts
    BY DEF Returned, Hosts
  <1>2. /\ Returned(k).os = host.os /\ Returned(k).clt = host.clt
        /\ Returned(k).role = host.role /\ Returned(k).xcode = host.xcode
        /\ Returned(k).converged = host.converged
        /\ Returned(k).up = host.up /\ Returned(k).runner = host.runner
    BY DEF Returned, Hosts
  <1>3. Returned(k).sem = (host.sem \/ k > 1)
    BY DEF Returned, Hosts
  <1>4. Returned(k).kc = IF k < 1 THEN host.kc ELSE "place"
    BY DEF Returned, Hosts
  <1>5. (k > 1 => ~(k < 1)) /\ (k = 3 => k > 1)
    OBVIOUS
  <1>6. QED
    BY <1>1, <1>2, <1>3, <1>4, <1>5

\* step_return fails half-way, or ends with the reboot, if it happens.
LEMMA ReturnEnds ==
  ASSUME Return \/ ShutdownIgnored, host \in Hosts
  PROVE  /\ pc = "return" /\ host.up /\ daemon' = daemon
         /\ \/ /\ pc' = "idle" /\ active' = active
               /\ \E k \in 0..3 : host' = Returned(k)
            \/ /\ pc' = "login" /\ outcome' = outcome /\ active' = FALSE
               /\ host' = [Returned(3) EXCEPT !.up = FALSE, !.runner = FALSE]
            \/ /\ pc' = "login" /\ outcome' = outcome /\ active' = active
               /\ host' = Returned(3)
  <1>1. CASE Return
    BY <1>1 DEF Return, Down, Goto, FaultEnd
  <1>2. CASE ShutdownIgnored
    BY <1>2 DEF ShutdownIgnored
  <1>3. QED
    BY <1>1, <1>2

\* However step_return ends, the builder is the upgraded one.
LEMMA ReturnShape ==
  ASSUME Return \/ ShutdownIgnored, host \in Hosts, Upgraded, outcome # "none" => pc = "idle",
         active => host.up /\ host.runner
  PROVE  /\ pc' \in {"idle", "login"} /\ Upgraded'
         /\ host'.sem => host.sem \/ host'.kc = "place"
         /\ pc' = "login" => host'.kc = "place" /\ host'.sem
         /\ active' => host'.up /\ host'.runner
         /\ outcome' # "none" => pc' = "idle"
  <1>1. PICK h \in Hosts :
          /\ host' = h \/ (active' = FALSE /\ host' = [h EXCEPT !.up = FALSE, !.runner = FALSE])
          /\ pc' = "login" => h.kc = "place" /\ h.sem
          /\ h.os = host.os /\ h.clt = host.clt /\ h.role = host.role /\ h.xcode = host.xcode
          /\ h.converged = host.converged /\ h.up = host.up /\ h.runner = host.runner
          /\ h.sem => host.sem \/ h.kc = "place"
    <2>1. 3 \in 0..3 /\ "idle" # "login"
      OBVIOUS
    <2>2. CASE \E k \in 0..3 : host' = Returned(k) /\ pc' = "idle"
      BY <2>1, <2>2, ReturnedFields
    <2>3. CASE host' = Returned(3)
      BY <2>1, <2>3, ReturnedFields
    <2>4. CASE host' = [Returned(3) EXCEPT !.up = FALSE, !.runner = FALSE] /\ active' = FALSE
      BY <2>1, <2>4, ReturnedFields
    <2>5. QED
      BY <2>2, <2>3, <2>4, ReturnEnds
  <1>2. /\ host'.os = host.os /\ host'.clt = host.clt /\ host'.role = host.role
        /\ host'.xcode = host.xcode /\ host'.converged = host.converged
        /\ host'.sem = h.sem /\ host'.kc = h.kc
        /\ active' => host'.up = host.up /\ host'.runner = host.runner
    <2>1. CASE host' = h
      BY <1>1, <2>1
    <2>2. CASE active' = FALSE /\ host' = [h EXCEPT !.up = FALSE, !.runner = FALSE]
      BY <1>1, <2>2 DEF Hosts
    <2>3. QED
      BY <1>1, <2>1, <2>2
  <1>3. pc = "return" /\ daemon' = daemon /\ pc' \in {"idle", "login"}
    BY ReturnEnds
  <1>4. pc' = "login" => outcome' = outcome
    BY ReturnEnds
  <1>5. active' => active
    BY ReturnEnds, Zenon
  <1>6. QED
    BY <1>1, <1>2, <1>3, <1>4, <1>5 DEF Upgraded

\* Whoever may take a task finds the builder whole.
LEMMA ServiceStep ==
  ASSUME TypeOK, HeldInv, Next
  PROVE  ServiceInv'
  <1> USE DEF TypeOK, FlagsOK, Hosts, HeldInv, ServiceInv, WorkInv, Installing, ProgressInv, Whole, Upgraded, Working, WorkerOut, OnNew, Verified, Places, Goto, End, Fault, FaultEnd, tcVars, machine, opVars
  <1>1. CASE \E u \in BOOLEAN : Start(u)
    BY <1>1 DEF Start
  <1>2. CASE Preflight \/ Quarantine \/ Unquarantine
    BY <1>2 DEF Preflight, Quarantine, Unquarantine
  <1>3. CASE DrainPoll
    BY <1>3 DEF DrainPoll, CountMiss
  <1>4. CASE Raise \/ Killed
    BY <1>4 DEF Raise, Killed
  <1>5. CASE StopWorker
    BY <1>5 DEF StopWorker, Stopped
  <1>6. CASE ClearCaches \/ LaunchInstaller \/ SeeDown \/ ProbeDropped \/ SeeOs
    BY <1>6 DEF ClearCaches, LaunchInstaller, SeeDown, ProbeDropped, SeeOs
  <1>7. CASE InstallXcode \/ XcodeInstalled \/ XcodeFails
    BY <1>7 DEF InstallXcode, XcodeInstalled, XcodeFails
  <1>8. CASE EnsureSudo \/ ResetKeybag \/ InstallClt \/ Verify
    BY <1>8 DEF EnsureSudo, ResetKeybag, InstallClt, Verify
  <1>9. CASE Puppet
    BY <1>9 DEF Puppet
  <1>10. CASE Return \/ ShutdownIgnored
    BY <1>10 DEF Return, ShutdownIgnored, Down, Returned
  <1>11. CASE SeeLogin \/ SeeDesktop \/ SeeRegistered
    BY <1>11 DEF SeeLogin, SeeDesktop, SeeRegistered
  <1>12. CASE InstallerReboots
    BY <1>12 DEF InstallerReboots, Down
  <1>13. CASE InstallerDone
    BY <1>13 DEF InstallerDone
  <1>14. CASE Boot
    BY <1>14 DEF Boot
  <1>15. CASE DaemonFinishes \/ DaemonReplacesXcode \/ SudoPkg
    BY <1>15 DEF DaemonFinishes, DaemonReplacesXcode, SudoPkg
  <1>16. CASE Autologin \/ StartDesktop \/ CheckIn
    BY <1>16 DEF Autologin, StartDesktop, CheckIn
  <1>17. CASE Claim \/ ShowClaim \/ FinishTask
    BY <1>17 DEF Claim, ShowClaim, InvisibleClaim, FinishTask
  <1>18. QED
    BY <1>1, <1>2, <1>3, <1>4, <1>5, <1>6, <1>7, <1>8, <1>9, <1>10, <1>11, <1>12, <1>13, <1>14, <1>15, <1>16, <1>17
    DEF Next, Step, Machine

\* The host is worked on with the worker held and idle.
LEMMA WorkStep ==
  ASSUME TypeOK, HeldInv, Next
  PROVE  WorkInv'
  <1> USE DEF TypeOK, FlagsOK, PlacesOK, Hosts, HeldInv, WorkInv, ProgressInv, Installing, Working, WorkerOut, OnNew, Verified, Places, Goto, End, Fault, FaultEnd, tcVars, machine, opVars
  <1>1. CASE \E u \in BOOLEAN : Start(u)
    BY <1>1 DEF Start
  <1>2. CASE Preflight \/ Quarantine \/ Unquarantine
    BY <1>2 DEF Preflight, Quarantine, Unquarantine
  <1>3. CASE DrainPoll
    BY <1>3 DEF DrainPoll, CountMiss
  <1>4. CASE Raise \/ Killed
    BY <1>4 DEF Raise, Killed
  <1>5. CASE StopWorker
    BY <1>5 DEF StopWorker, Stopped
  <1>6. CASE ClearCaches \/ LaunchInstaller \/ SeeDown \/ ProbeDropped \/ SeeOs
    BY <1>6 DEF ClearCaches, LaunchInstaller, SeeDown, ProbeDropped, SeeOs
  <1>7. CASE InstallXcode \/ XcodeInstalled \/ XcodeFails
    BY <1>7 DEF InstallXcode, XcodeInstalled, XcodeFails
  <1>8. CASE EnsureSudo \/ ResetKeybag \/ InstallClt \/ Verify
    BY <1>8 DEF EnsureSudo, ResetKeybag, InstallClt, Verify
  <1>9. CASE Puppet
    BY <1>9 DEF Puppet
  <1>10. CASE Return \/ ShutdownIgnored
    BY <1>10 DEF Return, ShutdownIgnored, Down, Returned
  <1>11. CASE SeeLogin \/ SeeDesktop \/ SeeRegistered
    BY <1>11 DEF SeeLogin, SeeDesktop, SeeRegistered
  <1>12. CASE InstallerReboots
    BY <1>12 DEF InstallerReboots, Down
  <1>13. CASE InstallerDone
    BY <1>13 DEF InstallerDone
  <1>14. CASE Boot
    BY <1>14 DEF Boot
  <1>15. CASE DaemonFinishes \/ DaemonReplacesXcode \/ SudoPkg
    BY <1>15 DEF DaemonFinishes, DaemonReplacesXcode, SudoPkg
  <1>16. CASE Autologin \/ StartDesktop \/ CheckIn
    BY <1>16 DEF Autologin, StartDesktop, CheckIn
  <1>17. CASE Claim \/ ShowClaim \/ FinishTask
    BY <1>17 DEF Claim, ShowClaim, InvisibleClaim, FinishTask
  <1>18. QED
    BY <1>1, <1>2, <1>3, <1>4, <1>5, <1>6, <1>7, <1>8, <1>9, <1>10, <1>11, <1>12, <1>13, <1>14, <1>15, <1>16, <1>17
    DEF Next, Step, Machine

\* What the semaphore stands for.
LEMMA SemaphoreStep ==
  ASSUME TypeOK, HeldInv, Next
  PROVE  SemaphoreInv'
  <1> USE DEF TypeOK, PlacesOK, Hosts, HeldInv, SemaphoreInv, WorkInv, Installing, ProgressInv, Upgraded, Working, WorkerOut, OnNew, Verified, Places, Goto, End, Fault, FaultEnd, tcVars, machine, opVars
  <1>1. CASE \E u \in BOOLEAN : Start(u)
    BY <1>1 DEF Start
  <1>2. CASE Preflight \/ Quarantine \/ Unquarantine
    BY <1>2 DEF Preflight, Quarantine, Unquarantine
  <1>3. CASE DrainPoll
    BY <1>3 DEF DrainPoll, CountMiss
  <1>4. CASE Raise \/ Killed
    BY <1>4 DEF Raise, Killed
  <1>5. CASE StopWorker
    <2>1. PICK k \in 0..5 : host' = Stopped(k) /\ pc' = IF k = 5 THEN "clear" ELSE "idle"
      BY <1>5, StopEnds
    <2>2. CASE k = 5
      BY <2>1, <2>2, StoppedFields
    <2>3. CASE k # 5
      BY <2>1, <2>3, StoppedFields
    <2>4. QED
      BY <2>2, <2>3
  <1>6. CASE ClearCaches \/ LaunchInstaller \/ SeeDown \/ ProbeDropped \/ SeeOs
    BY <1>6 DEF ClearCaches, LaunchInstaller, SeeDown, ProbeDropped, SeeOs
  <1>7. CASE InstallXcode \/ XcodeInstalled \/ XcodeFails
    BY <1>7 DEF InstallXcode, XcodeInstalled, XcodeFails
  <1>8. CASE EnsureSudo \/ ResetKeybag \/ InstallClt \/ Verify
    BY <1>8 DEF EnsureSudo, ResetKeybag, InstallClt, Verify
  <1>9. CASE Puppet
    BY <1>9 DEF Puppet
  <1>10. CASE Return \/ ShutdownIgnored
    <2>1. pc = "return"
      BY <1>10 DEF Return, ShutdownIgnored
    <2>2. Upgraded
      BY <2>1 DEF HeldInv, ProgressInv, Verified
    <2>3. QED
      BY <1>10, <2>1, <2>2, ReturnShape
  <1>11. CASE SeeLogin \/ SeeDesktop \/ SeeRegistered
    BY <1>11 DEF SeeLogin, SeeDesktop, SeeRegistered
  <1>12. CASE InstallerReboots
    BY <1>12 DEF InstallerReboots, Down
  <1>13. CASE InstallerDone
    BY <1>13 DEF InstallerDone
  <1>14. CASE Boot
    BY <1>14 DEF Boot
  <1>15. CASE DaemonFinishes \/ DaemonReplacesXcode \/ SudoPkg
    BY <1>15 DEF DaemonFinishes, DaemonReplacesXcode, SudoPkg
  <1>16. CASE Autologin \/ StartDesktop \/ CheckIn
    BY <1>16 DEF Autologin, StartDesktop, CheckIn
  <1>17. CASE Claim \/ ShowClaim \/ FinishTask
    BY <1>17 DEF Claim, ShowClaim, InvisibleClaim, FinishTask
  <1>18. QED
    BY <1>1, <1>2, <1>3, <1>4, <1>5, <1>6, <1>7, <1>8, <1>9, <1>10, <1>11, <1>12, <1>13, <1>14, <1>15, <1>16, <1>17
    DEF Next, Step, Machine

\* What each place has established.
LEMMA ProgressStep ==
  ASSUME TypeOK, HeldInv, Next
  PROVE  ProgressInv'
  <1> USE DEF TypeOK, FlagsOK, PlacesOK, Hosts, HeldInv, SemaphoreInv, WorkInv, Installing, ProgressInv, Upgraded, Working, WorkerOut, OnNew, Verified, Places, Goto, End, Fault, FaultEnd, tcVars, machine, opVars
  <1>1. CASE \E u \in BOOLEAN : Start(u)
    BY <1>1 DEF Start
  <1>2. CASE Preflight \/ Quarantine \/ Unquarantine
    BY <1>2 DEF Preflight, Quarantine, Unquarantine
  <1>3. CASE DrainPoll
    BY <1>3 DEF DrainPoll, CountMiss
  <1>4. CASE Raise \/ Killed
    BY <1>4 DEF Raise, Killed
  <1>5. CASE StopWorker
    BY <1>5 DEF StopWorker, Stopped
  <1>6. CASE ClearCaches \/ LaunchInstaller \/ SeeDown \/ ProbeDropped \/ SeeOs
    BY <1>6 DEF ClearCaches, LaunchInstaller, SeeDown, ProbeDropped, SeeOs
  <1>7. CASE InstallXcode \/ XcodeInstalled \/ XcodeFails
    BY <1>7 DEF InstallXcode, XcodeInstalled, XcodeFails
  <1>8. CASE EnsureSudo \/ ResetKeybag \/ InstallClt \/ Verify
    BY <1>8 DEF EnsureSudo, ResetKeybag, InstallClt, Verify
  <1>9. CASE Puppet
    BY <1>9 DEF Puppet
  <1>10. CASE Return \/ ShutdownIgnored
    <2>1. pc = "return"
      BY <1>10 DEF Return, ShutdownIgnored
    <2>2. Upgraded
      BY <2>1 DEF HeldInv, ProgressInv, Verified
    <2>3. QED
      BY <1>10, <2>1, <2>2, ReturnShape
  <1>11. CASE SeeLogin \/ SeeDesktop \/ SeeRegistered
    BY <1>11 DEF SeeLogin, SeeDesktop, SeeRegistered
  <1>12. CASE InstallerReboots
    BY <1>12 DEF InstallerReboots, Down
  <1>13. CASE InstallerDone
    BY <1>13 DEF InstallerDone
  <1>14. CASE Boot
    BY <1>14 DEF Boot
  <1>15. CASE DaemonFinishes \/ DaemonReplacesXcode \/ SudoPkg
    BY <1>15 DEF DaemonFinishes, DaemonReplacesXcode, SudoPkg
  <1>16. CASE Autologin \/ StartDesktop \/ CheckIn
    BY <1>16 DEF Autologin, StartDesktop, CheckIn
  <1>17. CASE Claim \/ ShowClaim \/ FinishTask
    BY <1>17 DEF Claim, ShowClaim, InvisibleClaim, FinishTask
  <1>18. QED
    BY <1>1, <1>2, <1>3, <1>4, <1>5, <1>6, <1>7, <1>8, <1>9, <1>10, <1>11, <1>12, <1>13, <1>14, <1>15, <1>16, <1>17
    DEF Next, Step, Machine

\* A run that finds nothing to do.
LEMMA NothingStep ==
  ASSUME TypeOK, HeldInv, Next
  PROVE  NothingIsLeft'
  <1> USE DEF TypeOK, PlacesOK, Hosts, HeldInv, SemaphoreInv, WorkInv, Installing, ProgressInv, NothingIsLeft, LooksUpgraded, Upgraded, Working, WorkerOut, OnNew, Verified, Places, Goto, End, Fault, FaultEnd, tcVars, machine, opVars
  <1>1. CASE \E u \in BOOLEAN : Start(u)
    BY <1>1 DEF Start
  <1>2. CASE Preflight \/ Quarantine \/ Unquarantine
    BY <1>2 DEF Preflight, Quarantine, Unquarantine
  <1>3. CASE DrainPoll
    BY <1>3 DEF DrainPoll, CountMiss
  <1>4. CASE Raise \/ Killed
    BY <1>4 DEF Raise, Killed
  <1>5. CASE StopWorker
    BY <1>5 DEF StopWorker, Stopped
  <1>6. CASE ClearCaches \/ LaunchInstaller \/ SeeDown \/ ProbeDropped \/ SeeOs
    BY <1>6 DEF ClearCaches, LaunchInstaller, SeeDown, ProbeDropped, SeeOs
  <1>7. CASE InstallXcode \/ XcodeInstalled \/ XcodeFails
    BY <1>7 DEF InstallXcode, XcodeInstalled, XcodeFails
  <1>8. CASE EnsureSudo \/ ResetKeybag \/ InstallClt \/ Verify
    BY <1>8 DEF EnsureSudo, ResetKeybag, InstallClt, Verify
  <1>9. CASE Puppet
    BY <1>9 DEF Puppet
  <1>10. CASE Return \/ ShutdownIgnored
    BY <1>10 DEF Return, ShutdownIgnored, Down, Returned
  <1>11. CASE SeeLogin \/ SeeDesktop \/ SeeRegistered
    BY <1>11 DEF SeeLogin, SeeDesktop, SeeRegistered
  <1>12. CASE InstallerReboots
    BY <1>12 DEF InstallerReboots, Down
  <1>13. CASE InstallerDone
    BY <1>13 DEF InstallerDone
  <1>14. CASE Boot
    BY <1>14 DEF Boot
  <1>15. CASE DaemonFinishes \/ DaemonReplacesXcode \/ SudoPkg
    BY <1>15 DEF DaemonFinishes, DaemonReplacesXcode, SudoPkg
  <1>16. CASE Autologin \/ StartDesktop \/ CheckIn
    BY <1>16 DEF Autologin, StartDesktop, CheckIn
  <1>17. CASE Claim \/ ShowClaim \/ FinishTask
    BY <1>17 DEF Claim, ShowClaim, InvisibleClaim, FinishTask
  <1>18. QED
    BY <1>1, <1>2, <1>3, <1>4, <1>5, <1>6, <1>7, <1>8, <1>9, <1>10, <1>11, <1>12, <1>13, <1>14, <1>15, <1>16, <1>17
    DEF Next, Step, Machine

LEMMA NextHeld ==
  ASSUME TypeOK, HeldInv, [Next]_vars
  PROVE  HeldInv'
  <1>1. CASE Next
    BY <1>1, ServiceStep, WorkStep, SemaphoreStep, ProgressStep, NothingStep DEF HeldInv
  <1>2. CASE UNCHANGED vars
    BY <1>2 DEF vars, HeldInv, ServiceInv, WorkInv, Installing, SemaphoreInv, ProgressInv,
                NothingIsLeft, Whole, Upgraded
  <1>3. QED
    BY <1>1, <1>2

\* already_upgraded never ends a run on a builder that is not completely
\* upgraded, whatever failed before and however often the command was killed.
THEOREM NothingLeft == Spec => []NothingIsLeft
  <1>1. Init => HeldInv
    BY InitHeld
  <1>2. TypeOK /\ HeldInv /\ [Next]_vars => HeldInv'
    BY NextHeld
  <1>3. HeldInv => NothingIsLeft
    BY DEF HeldInv
  <1>4. QED
    BY <1>1, <1>2, <1>3, TypeCorrect, PTL DEF Spec

\* Who returns the worker to service.
LEMMA ReleaseStep ==
  ASSUME TypeOK, Next
  PROVE  quarantined /\ ~quarantined' => Unquarantine
  <1> USE DEF TypeOK, FlagsOK, Goto, End, Fault, FaultEnd, tcVars, machine, opVars
  <1>1. CASE \E u \in BOOLEAN : Start(u)
    BY <1>1 DEF Start
  <1>2. CASE Preflight \/ Quarantine \/ Unquarantine
    BY <1>2 DEF Preflight, Quarantine, Unquarantine
  <1>3. CASE DrainPoll
    BY <1>3 DEF DrainPoll, CountMiss
  <1>4. CASE Raise \/ Killed
    BY <1>4 DEF Raise, Killed
  <1>5. CASE StopWorker
    BY <1>5 DEF StopWorker
  <1>6. CASE ClearCaches \/ LaunchInstaller \/ SeeDown \/ ProbeDropped \/ SeeOs
    BY <1>6 DEF ClearCaches, LaunchInstaller, SeeDown, ProbeDropped, SeeOs
  <1>7. CASE InstallXcode \/ XcodeInstalled \/ XcodeFails
    BY <1>7 DEF InstallXcode, XcodeInstalled, XcodeFails
  <1>8. CASE EnsureSudo \/ ResetKeybag \/ InstallClt \/ Verify
    BY <1>8 DEF EnsureSudo, ResetKeybag, InstallClt, Verify
  <1>9. CASE Puppet
    BY <1>9 DEF Puppet
  <1>10. CASE Return \/ ShutdownIgnored
    BY <1>10 DEF Return, ShutdownIgnored, Down
  <1>11. CASE SeeLogin \/ SeeDesktop \/ SeeRegistered
    BY <1>11 DEF SeeLogin, SeeDesktop, SeeRegistered
  <1>12. CASE InstallerReboots
    BY <1>12 DEF InstallerReboots, Down
  <1>13. CASE InstallerDone
    BY <1>13 DEF InstallerDone
  <1>14. CASE Boot
    BY <1>14 DEF Boot
  <1>15. CASE DaemonFinishes \/ DaemonReplacesXcode \/ SudoPkg
    BY <1>15 DEF DaemonFinishes, DaemonReplacesXcode, SudoPkg
  <1>16. CASE Autologin \/ StartDesktop \/ CheckIn
    BY <1>16 DEF Autologin, StartDesktop, CheckIn
  <1>17. CASE Claim \/ ShowClaim \/ FinishTask
    BY <1>17 DEF Claim, ShowClaim, InvisibleClaim, FinishTask
  <1>18. QED
    BY <1>1, <1>2, <1>3, <1>4, <1>5, <1>6, <1>7, <1>8, <1>9, <1>10, <1>11, <1>12, <1>13, <1>14, <1>15, <1>16, <1>17
    DEF Next, Step, Machine

\* The worker goes back to service only completely upgraded, with a desktop
\* session and checked in.
THEOREM ReturnedComplete == Spec => ReturnedUpgraded
  <1>1. Init => HeldInv
    BY InitHeld
  <1>2. TypeOK /\ HeldInv /\ [Next]_vars => HeldInv'
    BY NextHeld
  <1>3. HeldInv /\ Unquarantine
          => Upgraded /\ host.kc = "place" /\ session = "desktop" /\ active
    BY DEF Unquarantine, HeldInv, ProgressInv, Verified
  <1>4. TypeOK /\ HeldInv /\ [Next]_vars
          => [quarantined /\ ~quarantined' =>
                Upgraded /\ host.kc = "place" /\ session = "desktop" /\ active]_vars
    BY <1>3, ReleaseStep
  <1>5. QED
    BY <1>1, <1>2, <1>4, TypeCorrect, PTL DEF Spec, ReturnedUpgraded

-----------------------------------------------------------------------------
(* Idle: what bridging the lag adds *)

LEMMA InitIdle == Init => IdleInv
  BY DEF Init, IdleInv, DrainInv, Installing, Working

\* No task outlives two idle polls unseen.
LEMMA DrainStep ==
  ASSUME TypeOK, BuilderInv, Disciplined, Next
  PROVE  DrainInv'
  <1> USE LagAssumption DEF TypeOK, FlagsOK, CountsOK, PlacesOK, BuilderInv, IdleInv, DrainInv, Disciplined, CanAnswer, InvisibleClaim, Goto, End, Fault, FaultEnd, tcVars, machine, opVars
  <1>1. CASE \E u \in BOOLEAN : Start(u)
    BY <1>1 DEF Start
  <1>2. CASE Preflight \/ Quarantine \/ Unquarantine
    BY <1>2 DEF Preflight, Quarantine, Unquarantine
  <1>3. CASE DrainPoll
    BY <1>3 DEF DrainPoll, CountMiss
  <1>4. CASE Raise \/ Killed
    BY <1>4 DEF Raise, Killed
  <1>5. CASE StopWorker
    BY <1>5 DEF StopWorker
  <1>6. CASE ClearCaches \/ LaunchInstaller \/ SeeDown \/ ProbeDropped \/ SeeOs
    BY <1>6 DEF ClearCaches, LaunchInstaller, SeeDown, ProbeDropped, SeeOs
  <1>7. CASE InstallXcode \/ XcodeInstalled \/ XcodeFails
    BY <1>7 DEF InstallXcode, XcodeInstalled, XcodeFails
  <1>8. CASE EnsureSudo \/ ResetKeybag \/ InstallClt \/ Verify
    BY <1>8 DEF EnsureSudo, ResetKeybag, InstallClt, Verify
  <1>9. CASE Puppet
    BY <1>9 DEF Puppet
  <1>10. CASE Return \/ ShutdownIgnored
    BY <1>10 DEF Return, ShutdownIgnored, Down
  <1>11. CASE SeeLogin \/ SeeDesktop \/ SeeRegistered
    BY <1>11 DEF SeeLogin, SeeDesktop, SeeRegistered
  <1>12. CASE InstallerReboots
    BY <1>12 DEF InstallerReboots, Down
  <1>13. CASE InstallerDone
    BY <1>13 DEF InstallerDone
  <1>14. CASE Boot
    BY <1>14 DEF Boot
  <1>15. CASE DaemonFinishes \/ DaemonReplacesXcode \/ SudoPkg
    BY <1>15 DEF DaemonFinishes, DaemonReplacesXcode, SudoPkg
  <1>16. CASE Autologin \/ StartDesktop \/ CheckIn
    BY <1>16 DEF Autologin, StartDesktop, CheckIn
  <1>17. CASE Claim \/ ShowClaim \/ FinishTask
    <2>1. CASE Claim
      <3>1. ~quarantined /\ pc' = pc
        BY <2>1 DEF Claim
      <3>2. pc = "drain" => quarantined
        BY DEF HeldInv, WorkInv
      <3>3. QED
        BY <3>1, <3>2
    <2>2. CASE ShowClaim \/ FinishTask
      BY <2>2 DEF ShowClaim, FinishTask
    <2>3. QED
      BY <1>17, <2>1, <2>2
  <1>18. QED
    BY <1>1, <1>2, <1>3, <1>4, <1>5, <1>6, <1>7, <1>8, <1>9, <1>10, <1>11, <1>12, <1>13, <1>14, <1>15, <1>16, <1>17
    DEF Next, Step, Machine

\* No task is in flight on a builder that is not whole, or is worked on.
LEMMA BusyStep ==
  ASSUME TypeOK, BuilderInv, Disciplined, Next
  PROVE  /\ (busy => Whole)'
         /\ (pc \in Working \/ Installing => ~busy)'
  <1> USE DEF TypeOK, FlagsOK, PlacesOK, Hosts, BuilderInv, HeldInv, ServiceInv, WorkInv, IdleInv, Whole, Upgraded, Installing, Working, WorkerOut, OnNew, Verified, Places, Goto, End, Fault, FaultEnd, tcVars, machine, opVars
  <1>1. CASE \E u \in BOOLEAN : Start(u)
    BY <1>1 DEF Start
  <1>2. CASE Preflight \/ Quarantine \/ Unquarantine
    BY <1>2 DEF Preflight, Quarantine, Unquarantine
  <1>3. CASE DrainPoll
    <2>1. pc' = "stop" => ~busy
      <3>1. idle \in 0..1 /\ missed \in Nat /\ MaxMissed \in 0..1
        BY <1>3, LagAssumption DEF DrainPoll, CountsOK, Disciplined
      <3>2. (busy /\ ~shown) => missed < MaxMissed /\ missed >= idle
        BY <1>3 DEF DrainPoll, CanAnswer, InvisibleClaim, DrainInv
      <3>3. (busy /\ shown) => idle' = 0
        BY <1>3 DEF DrainPoll
      <3>4. ~(busy /\ shown) => idle' = idle + 1
        BY <1>3 DEF DrainPoll
      <3>5. pc' = "stop" => idle' = 2
        BY <1>3 DEF DrainPoll
      <3>6. (busy /\ ~shown) => idle = 0
        BY <3>1, <3>2
      <3>7. QED
        BY <3>1, <3>3, <3>4, <3>5, <3>6
    <2>2. UNCHANGED <<busy, host, daemon, installer>> /\ pc' \in {"drain", "stop"}
      BY <1>3 DEF DrainPoll
    <2>3. QED
      BY <2>1, <2>2
  <1>4. CASE Raise \/ Killed
    BY <1>4 DEF Raise, Killed
  <1>5. CASE StopWorker
    BY <1>5 DEF StopWorker, Stopped
  <1>6. CASE ClearCaches \/ LaunchInstaller \/ SeeDown \/ ProbeDropped \/ SeeOs
    BY <1>6 DEF ClearCaches, LaunchInstaller, SeeDown, ProbeDropped, SeeOs
  <1>7. CASE InstallXcode \/ XcodeInstalled \/ XcodeFails
    BY <1>7 DEF InstallXcode, XcodeInstalled, XcodeFails
  <1>8. CASE EnsureSudo \/ ResetKeybag \/ InstallClt \/ Verify
    BY <1>8 DEF EnsureSudo, ResetKeybag, InstallClt, Verify
  <1>9. CASE Puppet
    BY <1>9 DEF Puppet
  <1>10. CASE Return \/ ShutdownIgnored
    BY <1>10 DEF Return, ShutdownIgnored, Down, Returned
  <1>11. CASE SeeLogin \/ SeeDesktop \/ SeeRegistered
    BY <1>11 DEF SeeLogin, SeeDesktop, SeeRegistered
  <1>12. CASE InstallerReboots
    BY <1>12 DEF InstallerReboots, Down
  <1>13. CASE InstallerDone
    BY <1>13 DEF InstallerDone
  <1>14. CASE Boot
    BY <1>14 DEF Boot
  <1>15. CASE DaemonFinishes \/ DaemonReplacesXcode \/ SudoPkg
    BY <1>15 DEF DaemonFinishes, DaemonReplacesXcode, SudoPkg
  <1>16. CASE Autologin \/ StartDesktop \/ CheckIn
    BY <1>16 DEF Autologin, StartDesktop, CheckIn
  <1>17. CASE Claim \/ ShowClaim \/ FinishTask
    BY <1>17 DEF Claim, ShowClaim, InvisibleClaim, FinishTask
  <1>18. QED
    BY <1>1, <1>2, <1>3, <1>4, <1>5, <1>6, <1>7, <1>8, <1>9, <1>10, <1>11, <1>12, <1>13, <1>14, <1>15, <1>16, <1>17
    DEF Next, Step, Machine

LEMMA NextIdle ==
  ASSUME Disciplined, TypeOK, BuilderInv, [Next]_vars
  PROVE  IdleInv'
  <1>1. CASE Next
    BY <1>1, DrainStep, BusyStep DEF IdleInv
  <1>2. CASE UNCHANGED vars
    BY <1>2 DEF vars, BuilderInv, IdleInv, DrainInv, Installing, Whole, Upgraded
  <1>3. QED
    BY <1>1, <1>2

\* The inductive invariant, whatever fails and however often the command is
\* killed and re-run.
THEOREM BuilderInvariant == Disciplined => (Spec => []BuilderInv)
  <1> SUFFICES ASSUME Disciplined PROVE Spec => []BuilderInv
    OBVIOUS
  <1>1. Init => BuilderInv
    BY InitHeld, InitIdle DEF BuilderInv
  <1>2. TypeOK /\ BuilderInv /\ [Next]_vars => BuilderInv'
    BY NextHeld, NextIdle DEF BuilderInv
  <1>3. QED
    BY <1>1, <1>2, TypeCorrect, PTL DEF Spec

-----------------------------------------------------------------------------
(* The action properties *)

\* Who takes the worker or the host down.
LEMMA InterruptStep ==
  ASSUME TypeOK, BuilderInv, Next
  PROVE  (host.up /\ ~host'.up) \/ (host.runner /\ ~host'.runner) => HeldIdle
  <1> USE DEF TypeOK, FlagsOK, Hosts, BuilderInv, HeldInv, WorkInv, IdleInv, Installing, HeldIdle, Working, WorkerOut, OnNew, Verified, Places, Goto, End, Fault, FaultEnd, tcVars, machine, opVars
  <1>1. CASE \E u \in BOOLEAN : Start(u)
    BY <1>1 DEF Start
  <1>2. CASE Preflight \/ Quarantine \/ Unquarantine
    BY <1>2 DEF Preflight, Quarantine, Unquarantine
  <1>3. CASE DrainPoll
    BY <1>3 DEF DrainPoll, CountMiss
  <1>4. CASE Raise \/ Killed
    BY <1>4 DEF Raise, Killed
  <1>5. CASE StopWorker
    BY <1>5 DEF StopWorker
  <1>6. CASE ClearCaches \/ LaunchInstaller \/ SeeDown \/ ProbeDropped \/ SeeOs
    BY <1>6 DEF ClearCaches, LaunchInstaller, SeeDown, ProbeDropped, SeeOs
  <1>7. CASE InstallXcode \/ XcodeInstalled \/ XcodeFails
    BY <1>7 DEF InstallXcode, XcodeInstalled, XcodeFails
  <1>8. CASE EnsureSudo \/ ResetKeybag \/ InstallClt \/ Verify
    BY <1>8 DEF EnsureSudo, ResetKeybag, InstallClt, Verify
  <1>9. CASE Puppet
    BY <1>9 DEF Puppet
  <1>10. CASE Return \/ ShutdownIgnored
    BY <1>10 DEF Return, ShutdownIgnored
  <1>11. CASE SeeLogin \/ SeeDesktop \/ SeeRegistered
    BY <1>11 DEF SeeLogin, SeeDesktop, SeeRegistered
  <1>12. CASE InstallerReboots
    BY <1>12 DEF InstallerReboots, Down
  <1>13. CASE InstallerDone
    BY <1>13 DEF InstallerDone
  <1>14. CASE Boot
    BY <1>14 DEF Boot
  <1>15. CASE DaemonFinishes \/ DaemonReplacesXcode \/ SudoPkg
    BY <1>15 DEF DaemonFinishes, DaemonReplacesXcode, SudoPkg
  <1>16. CASE Autologin \/ StartDesktop \/ CheckIn
    BY <1>16 DEF Autologin, StartDesktop, CheckIn
  <1>17. CASE Claim \/ ShowClaim \/ FinishTask
    BY <1>17 DEF Claim, ShowClaim, InvisibleClaim, FinishTask
  <1>18. QED
    BY <1>1, <1>2, <1>3, <1>4, <1>5, <1>6, <1>7, <1>8, <1>9, <1>10, <1>11, <1>12, <1>13, <1>14, <1>15, <1>16, <1>17
    DEF Next, Step, Machine

\* The host is interrupted only with the worker held and idle.
THEOREM InterruptedHeld == Disciplined => (Spec => InterruptedIdle)
  <1> SUFFICES ASSUME Disciplined PROVE Spec => InterruptedIdle
    OBVIOUS
  <1>1. TypeOK /\ BuilderInv /\ [Next]_vars
          => [(host.up /\ ~host'.up) \/ (host.runner /\ ~host'.runner) => quarantined /\ ~busy]_vars
    BY InterruptStep DEF HeldIdle
  <1>2. QED
    BY <1>1, TypeCorrect, BuilderInvariant, PTL DEF Spec, InterruptedIdle

-----------------------------------------------------------------------------
(* The promise to Taskcluster *)

LEMMA PromiseInit == Init => Promise!Init
  BY DEF Init, Promise!Init, Whole, Upgraded

\* Who may take a task, or has one, has a whole builder before and after.
LEMMA PromiseQuiet ==
  ASSUME BuilderInv, BuilderInv', UNCHANGED <<quarantined, busy>> \/ (HeldIdle /\ HeldIdle')
  PROVE  [Promise!Next]_(Promise!mvars)
  <1>1. CASE HeldIdle /\ HeldIdle'
    <2>1. CASE Whole'
      <3>1. Promise!MakeWhole
        BY <1>1, <2>1 DEF Promise!MakeWhole, HeldIdle
      <3>2. QED
        BY <3>1 DEF Promise!Next
    <2>2. CASE ~Whole'
      <3>1. Promise!Interrupt
        BY <1>1, <2>2 DEF Promise!Interrupt, HeldIdle
      <3>2. QED
        BY <3>1 DEF Promise!Next
    <2>3. QED
      BY <2>1, <2>2
  <1>2. CASE UNCHANGED <<quarantined, busy>> /\ ~HeldIdle
    <2>1. Whole = TRUE /\ Whole' = TRUE
      BY <1>2 DEF BuilderInv, HeldInv, ServiceInv, IdleInv, HeldIdle, Whole
    <2>2. QED
      BY <1>2, <2>1 DEF Promise!mvars
  <1>3. QED
    BY <1>1, <1>2 DEF HeldIdle

LEMMA PromiseService ==
  ASSUME TypeOK, BuilderInv, Quarantine \/ Unquarantine
  PROVE  [Promise!Next]_(Promise!mvars)
  <1>1. UNCHANGED <<busy, host, daemon>>
    BY DEF Quarantine, Unquarantine, machine
  <1>2. (Whole <=> Whole') /\ Whole \in BOOLEAN /\ Whole' \in BOOLEAN
    BY <1>1 DEF Whole, Upgraded
  <1>3. CASE quarantined' = quarantined
    BY <1>1, <1>2, <1>3 DEF Promise!mvars
  <1>4. CASE Quarantine /\ ~quarantined
    <2>1. Promise!Hold("builder")
      BY <1>1, <1>2, <1>4 DEF Quarantine, Promise!Hold
    <2>2. QED
      BY <2>1 DEF Promise!Next
  <1>5. CASE Unquarantine /\ quarantined
    <2>1. Whole
      BY <1>5 DEF Unquarantine, BuilderInv, HeldInv, ProgressInv, Verified, Whole
    <2>2. Promise!Release("builder")
      BY <1>1, <1>2, <1>5, <2>1 DEF Unquarantine, Promise!Release
    <2>3. QED
      BY <2>2 DEF Promise!Next
  <1>6. QED
    BY <1>3, <1>4, <1>5 DEF Quarantine, Unquarantine, TypeOK, FlagsOK

LEMMA PromiseTask ==
  ASSUME TypeOK, BuilderInv, Claim \/ FinishTask
  PROVE  [Promise!Next]_(Promise!mvars)
  <1>1. UNCHANGED <<quarantined, host, daemon>> /\ Whole
    BY DEF Claim, FinishTask, machine, BuilderInv, HeldInv, ServiceInv, IdleInv
  <1>2. Whole' /\ Whole \in BOOLEAN /\ Whole' \in BOOLEAN
    BY <1>1 DEF Whole, Upgraded
  <1>3. CASE Claim
    <2>1. Promise!TakeTask("builder")
      BY <1>1, <1>2, <1>3 DEF Claim, Promise!TakeTask
    <2>2. QED
      BY <2>1 DEF Promise!Next
  <1>4. CASE FinishTask
    <2>1. Promise!EndTask("builder")
      BY <1>1, <1>2, <1>4 DEF FinishTask, Promise!EndTask
    <2>2. QED
      BY <2>1 DEF Promise!Next
  <1>5. QED
    BY <1>3, <1>4

\* Every other step leaves service alone, or finds the worker held and idle.
LEMMA QuietSteps ==
  ASSUME TypeOK, BuilderInv, Next
  PROVE  \/ UNCHANGED <<quarantined, busy>> \/ (HeldIdle /\ HeldIdle')
         \/ Quarantine \/ Unquarantine \/ Claim \/ FinishTask
  <1> USE DEF TypeOK, FlagsOK, BuilderInv, HeldInv, WorkInv, IdleInv, Installing, HeldIdle, Working, WorkerOut, OnNew, Verified, Places, Goto, End, Fault, FaultEnd, tcVars, machine, opVars
  <1>1. CASE \E u \in BOOLEAN : Start(u)
    BY <1>1 DEF Start
  <1>2. CASE Preflight \/ Quarantine \/ Unquarantine
    BY <1>2 DEF Preflight, Quarantine, Unquarantine
  <1>3. CASE DrainPoll
    BY <1>3 DEF DrainPoll, CountMiss
  <1>4. CASE Raise \/ Killed
    BY <1>4 DEF Raise, Killed
  <1>5. CASE StopWorker
    BY <1>5 DEF StopWorker
  <1>6. CASE ClearCaches \/ LaunchInstaller \/ SeeDown \/ ProbeDropped \/ SeeOs
    BY <1>6 DEF ClearCaches, LaunchInstaller, SeeDown, ProbeDropped, SeeOs
  <1>7. CASE InstallXcode \/ XcodeInstalled \/ XcodeFails
    BY <1>7 DEF InstallXcode, XcodeInstalled, XcodeFails
  <1>8. CASE EnsureSudo \/ ResetKeybag \/ InstallClt \/ Verify
    BY <1>8 DEF EnsureSudo, ResetKeybag, InstallClt, Verify
  <1>9. CASE Puppet
    BY <1>9 DEF Puppet
  <1>10. CASE Return \/ ShutdownIgnored
    BY <1>10 DEF Return, ShutdownIgnored, Down
  <1>11. CASE SeeLogin \/ SeeDesktop \/ SeeRegistered
    BY <1>11 DEF SeeLogin, SeeDesktop, SeeRegistered
  <1>12. CASE InstallerReboots
    BY <1>12 DEF InstallerReboots, Down
  <1>13. CASE InstallerDone
    BY <1>13 DEF InstallerDone
  <1>14. CASE Boot
    BY <1>14 DEF Boot
  <1>15. CASE DaemonFinishes \/ DaemonReplacesXcode \/ SudoPkg
    BY <1>15 DEF DaemonFinishes, DaemonReplacesXcode, SudoPkg
  <1>16. CASE Autologin \/ StartDesktop \/ CheckIn
    BY <1>16 DEF Autologin, StartDesktop, CheckIn
  <1>17. CASE Claim \/ ShowClaim \/ FinishTask
    BY <1>17 DEF Claim, ShowClaim, InvisibleClaim, FinishTask
  <1>18. QED
    BY <1>1, <1>2, <1>3, <1>4, <1>5, <1>6, <1>7, <1>8, <1>9, <1>10, <1>11, <1>12, <1>13, <1>14, <1>15, <1>16, <1>17
    DEF Next, Step, Machine

LEMMA PromiseStep ==
  ASSUME TypeOK, BuilderInv, BuilderInv', [Next]_vars
  PROVE  [Promise!Next]_(Promise!mvars)
  <1>1. CASE Next
    BY <1>1, QuietSteps, PromiseQuiet, PromiseService, PromiseTask
  <1>2. CASE UNCHANGED vars
    BY <1>2, PromiseQuiet DEF vars
  <1>3. QED
    BY <1>1, <1>2

\* Every behaviour is one Maintenance allows.
THEOREM ImplementsMaintenance == Disciplined => (Spec => PromiseSpec)
  <1> SUFFICES ASSUME Disciplined PROVE Spec => PromiseSpec
    OBVIOUS
  <1>1. Init => Promise!Init
    BY PromiseInit
  <1>2. TypeOK /\ BuilderInv /\ BuilderInv' /\ [Next]_vars => [Promise!Next]_(Promise!mvars)
    BY PromiseStep
  <1>3. QED
    BY <1>1, <1>2, TypeCorrect, BuilderInvariant, PTL DEF Spec, PromiseSpec, Promise!Spec
=============================================================================
