------------------------- MODULE UpgradeTriggerProofs -----------------------
(***************************************************************************)
(* For any number of scripts, power losses and failures: unless a script   *)
(* writes under a trigger at work, nothing is left behind on an upgraded   *)
(* host and a credential outlives its script and its trigger only on a     *)
(* host that went down during a staging. Whatever is fired over whatever,  *)
(* UpgradeTrigger implements OneShot.                                      *)
(***************************************************************************)
EXTENDS UpgradeTrigger, TLAPS

-----------------------------------------------------------------------------
(* Type correctness *)

LEMMA InitType == Init => TypeOK
  <1> SUFFICES ASSUME Init PROVE TypeOK
    OBVIOUS
  <1>1. files \in [Files -> {"absent", "empty", "full"}]
    BY DEF Init, Nothing
  <1>2. /\ script \in [Scripts -> {"idle", "checks", "fetch", "unzip", "stage"}]
        /\ written \in [Scripts -> 0..6]
        /\ \A s \in Scripts : ~(written[s] > 0)
    BY DEF Init
  <1>3. faults \in 0..MaxFaults
    BY FaultsAssumption DEF Init
  <1>4. /\ os \in {"old", "new"} /\ owner \in BOOLEAN /\ mirror \in {"ranges", "plain"}
        /\ zip = "none" /\ app \in BOOLEAN
        /\ trigger = "idle" /\ password \in BOOLEAN
        /\ torn \in BOOLEAN /\ crossed \in BOOLEAN
    BY DEF Init
  <1>5. QED
    BY <1>1, <1>2, <1>3, <1>4 DEF TypeOK

\* Every action moves one script, and one file.
LEMMA GoesFacts ==
  ASSUME TypeOK, NEW s \in Scripts,
         NEW to \in {"idle", "checks", "fetch", "unzip", "stage"},
         Goes(s, to), UNCHANGED written,
         written[s] = 0
  PROVE  /\ script' \in [Scripts -> {"idle", "checks", "fetch", "unzip", "stage"}]
         /\ script'[s] = to
         /\ \A r \in Scripts \ {s} : script'[r] = script[r]
         /\ \A r \in Scripts : written'[r] > 0 => script'[r] = "stage"
  BY DEF TypeOK, Goes

LEMMA FaultFacts ==
  ASSUME TypeOK, Fault \/ UNCHANGED faults
  PROVE  faults' \in 0..MaxFaults
  BY FaultsAssumption DEF TypeOK, Fault

\* After a boot no script is left.
LEMMA BootFacts ==
  ASSUME TypeOK, Boot
  PROVE  /\ script' \in [Scripts -> {"idle", "checks", "fetch", "unzip", "stage"}]
         /\ written' \in [Scripts -> 0..6]
         /\ \A s \in Scripts : script'[s] = "idle" /\ written'[s] = 0
         /\ trigger' \in {"idle", "read"}
         /\ password' \in BOOLEAN /\ torn' \in BOOLEAN /\ crossed' \in BOOLEAN
  <1>1. \A s \in Scripts : written'[s] = 0 /\ script'[s] = "idle"
    BY DEF Boot
  <1>2. /\ script' \in [Scripts -> {"idle", "checks", "fetch", "unzip", "stage"}]
        /\ written' \in [Scripts -> 0..6]
    BY DEF Boot
  <1>3. trigger' \in {"idle", "read"} /\ password' \in BOOLEAN
    BY DEF Boot
  <1>4. torn' \in BOOLEAN /\ crossed' \in BOOLEAN
    BY Zenon DEF Boot, CutOff, TypeOK
  <1>5. QED
    BY <1>1, <1>2, <1>3, <1>4

LEMMA RemoveFacts ==
  ASSUME TypeOK, NEW f \in Files, Remove(f)
  PROVE  /\ files' \in [Files -> {"absent", "empty", "full"}]
         /\ files'[f] = "absent"
         /\ \A g \in Files \ {f} : files'[g] = files[g]
  BY DEF TypeOK, Remove

LEMMA StageFacts ==
  ASSUME TypeOK, NEW s \in Scripts, Stage(s)
  PROVE  /\ written' \in [Scripts -> 0..6]
         /\ written'[s] = written[s] + 1
         /\ \A r \in Scripts \ {s} : written'[r] = written[r]
         /\ \/ written[s] = 0 /\ files' = [files EXCEPT !["credential"] = "empty"]
            \/ written[s] = 1 /\ files' = [files EXCEPT !["credential"] = "full"]
            \/ written[s] = 2 /\ files' = [files EXCEPT !["trigger"] = "empty"]
            \/ written[s] = 3 /\ files' = [files EXCEPT !["trigger"] = "full"]
            \/ written[s] = 4 /\ files' = [files EXCEPT !["daemon"] = "empty"]
            \/ written[s] = 5 /\ files' = [files EXCEPT !["daemon"] = "full"]
  <1>1. /\ written' = [written EXCEPT ![s] = @ + 1] /\ written[s] \in 0..5
        /\ written \in [Scripts -> 0..6]
    BY DEF Stage, TypeOK
  <1>2. /\ written' \in [Scripts -> 0..6]
        /\ written'[s] = written[s] + 1
        /\ \A r \in Scripts \ {s} : written'[r] = written[r]
    BY <1>1
  <1>3. files' = [files EXCEPT ![StagingOrder[(written[s] \div 2) + 1]] =
                    IF written[s] % 2 = 0 THEN "empty" ELSE "full"]
    BY DEF Stage
  <1>4. CASE written[s] = 0
    BY <1>2, <1>3, <1>4 DEF StagingOrder
  <1>5. CASE written[s] = 1
    BY <1>2, <1>3, <1>5 DEF StagingOrder
  <1>6. CASE written[s] = 2
    BY <1>2, <1>3, <1>6 DEF StagingOrder
  <1>7. CASE written[s] = 3
    BY <1>2, <1>3, <1>7 DEF StagingOrder
  <1>8. CASE written[s] = 4
    BY <1>2, <1>3, <1>8 DEF StagingOrder
  <1>9. CASE written[s] = 5
    BY <1>2, <1>3, <1>9 DEF StagingOrder
  <1>10. QED
    BY <1>1, <1>4, <1>5, <1>6, <1>7, <1>8, <1>9

\* The steps of a script other than its writes and its reboot: they move it,
\* from a place where it has written nothing, and leave the files alone.
Moves(s) ==
  Fire(s) \/ Checks(s) \/ Download(s) \/ InstallPkg(s) \/ DiscardZip(s)
  \/ DownloadFails(s) \/ InstallPkgFails(s)

LEMMA MoveFacts ==
  ASSUME TypeOK, NEW s \in Scripts, Moves(s)
  PROVE  /\ \E to \in {"idle", "checks", "fetch", "unzip", "stage"} : Goes(s, to)
         /\ script[s] # "stage" /\ written[s] = 0
         /\ UNCHANGED <<world, files, written, triggerVars, history>>
         /\ zip' \in {"none", "part", "whole", "corrupt"} /\ app' \in BOOLEAN
         /\ Fault \/ UNCHANGED faults
  <1>1. script[s] # "stage" => written[s] = 0
    BY DEF TypeOK
  <1>2. CASE Fire(s)
    BY <1>1, <1>2 DEF Fire, TypeOK, diskVars
  <1>3. CASE Checks(s)
    BY <1>1, <1>3 DEF Checks, TypeOK
  <1>4. CASE Download(s)
    BY <1>1, <1>4 DEF Download, TypeOK
  <1>5. CASE InstallPkg(s)
    BY <1>1, <1>5 DEF InstallPkg, TypeOK
  <1>6. CASE DiscardZip(s)
    BY <1>1, <1>6 DEF DiscardZip, TypeOK
  <1>7. CASE DownloadFails(s)
    BY <1>1, <1>7 DEF DownloadFails, TypeOK
  <1>8. CASE InstallPkgFails(s)
    BY <1>1, <1>8 DEF InstallPkgFails, TypeOK
  <1>9. QED
    BY <1>2, <1>3, <1>4, <1>5, <1>6, <1>7, <1>8 DEF Moves

\* The actions in groups: a script moves or writes, the host boots, the
\* trigger goes on.
LEMMA StepCases ==
  ASSUME Next
  PROVE  \/ \E s \in Scripts : Moves(s) \/ Stage(s) \/ Reboot(s)
         \/ Mint \/ PowerLoss \/ StartOSInstall
         \/ ReadCredential \/ RemoveCredential \/ RemoveDaemon \/ RemoveSelf
         \/ Decide \/ StartOSInstallFails
  BY DEF Next, ScriptStep, TriggerStep, Moves

LEMMA StepType == TypeOK /\ [Next]_vars => TypeOK'
  <1> SUFFICES ASSUME TypeOK, [Next]_vars PROVE TypeOK'
    OBVIOUS
  <1>1. ASSUME NEW s \in Scripts, Moves(s) PROVE TypeOK'
    <2>1. faults' \in 0..MaxFaults
      BY <1>1, MoveFacts, FaultFacts
    <2>2. /\ script' \in [Scripts -> {"idle", "checks", "fetch", "unzip", "stage"}]
          /\ \A r \in Scripts : written'[r] > 0 => script'[r] = "stage"
      BY <1>1, MoveFacts, GoesFacts
    <2>3. QED
      BY <1>1, <2>1, <2>2, MoveFacts DEF TypeOK, world, triggerVars, history
  <1>2. ASSUME NEW s \in Scripts, Stage(s) PROVE TypeOK'
    <2>1. files' \in [Files -> {"absent", "empty", "full"}]
      BY <1>2, StageFacts DEF TypeOK
    <2>2. \A r \in Scripts : written'[r] > 0 => script'[r] = "stage"
      BY <1>2, StageFacts DEF TypeOK, Stage
    <2>3. crossed' \in BOOLEAN
      BY <1>2 DEF Stage, TypeOK
    <2>4. QED
      BY <1>2, <2>1, <2>2, <2>3, StageFacts DEF TypeOK, Stage, world, triggerVars
  <1>3. ASSUME NEW s \in Scripts, Reboot(s) PROVE TypeOK'
    <2>1. Boot /\ UNCHANGED <<os, owner, mirror, zip, app, files, faults>>
      BY <1>3 DEF Reboot, Boot, diskVars
    <2>2. QED
      BY <2>1, BootFacts DEF TypeOK
  <1>4. CASE PowerLoss
    <2>1. Boot /\ UNCHANGED <<os, owner, mirror, zip, app, files>>
      BY <1>4 DEF PowerLoss, Boot, diskVars
    <2>2. faults' \in 0..MaxFaults
      BY <1>4, FaultFacts DEF PowerLoss
    <2>3. QED
      BY <2>1, <2>2, BootFacts DEF TypeOK
  <1>5. CASE StartOSInstall
    <2>1. Boot /\ os' = "new" /\ UNCHANGED <<owner, mirror, zip, app, files, faults>>
      BY <1>5 DEF StartOSInstall, Boot, diskVars
    <2>2. QED
      BY <2>1, BootFacts DEF TypeOK
  <1>6. CASE Mint
    BY <1>6 DEF Mint, TypeOK, diskVars, triggerVars, history
  <1>7. CASE ReadCredential
    BY <1>7 DEF ReadCredential, TypeOK, diskVars, world, history
  <1>8. CASE RemoveCredential
    BY <1>8, RemoveFacts DEF RemoveCredential, TypeOK, world, history, Files
  <1>9. CASE RemoveDaemon
    BY <1>9, RemoveFacts DEF RemoveDaemon, TypeOK, world, history, Files
  <1>10. CASE RemoveSelf
    BY <1>10, RemoveFacts DEF RemoveSelf, TypeOK, world, history, Files
  <1>11. CASE Decide
    BY <1>11 DEF Decide, TypeOK, world, diskVars, history
  <1>12. CASE StartOSInstallFails
    <2>1. faults' \in 0..MaxFaults
      BY <1>12, FaultFacts DEF StartOSInstallFails
    <2>2. QED
      BY <1>12, <2>1 DEF StartOSInstallFails, TypeOK, world, diskVars, history
  <1>13. CASE UNCHANGED vars
    BY <1>13 DEF TypeOK, vars, world, diskVars, triggerVars, history
  <1>14. QED
    BY <1>1, <1>2, <1>3, <1>4, <1>5, <1>6, <1>7, <1>8, <1>9, <1>10, <1>11, <1>12,
       <1>13, StepCases

\* The state of host, scripts and trigger is always well formed.
THEOREM TypeCorrect == Spec => []TypeOK
  BY InitType, StepType, PTL DEF Spec

-----------------------------------------------------------------------------
(* The invariant *)

\* Scripts die with the boot that starts a trigger: one that writes while it is
\* at work crosses it.
OneAtATime == trigger # "idle" /\ ~crossed => \A s \in Scripts : written[s] = 0

\* The trigger has removed what it has passed.
TriggerFiles ==
  /\ trigger \in {"read", "credential"} =>
       /\ files["trigger"] # "absent" /\ files["daemon"] # "absent"
       /\ ~crossed => Armed
  /\ ~crossed =>
       /\ trigger \in {"daemon", "self", "decide", "install"} => files["credential"] = "absent"
       /\ trigger \in {"self", "decide", "install"} => files["daemon"] = "absent"
       /\ trigger \in {"decide", "install"} => files["trigger"] = "absent"

\* A script goes no further than its checks on an upgraded host, and a trigger
\* finds nothing to do there.
UpgradedQuiet ==
  os = "new" =>
    /\ \A s \in Scripts : script[s] \in {"idle", "checks"}
    /\ ~crossed => trigger = "idle" /\ \A f \in Files : files[f] = "absent"

\* A file some script has filled is full, unless another has just created it anew.
Filled(f, n) ==
  (\E s \in Scripts : written[s] >= n) /\ (\A s \in Scripts : written[s] # n - 1)
    => files[f] = "full"

StagedFiles == ~crossed => Filled("trigger", 4) /\ Filled("daemon", 6)

IInv ==
  TypeOK /\ OneAtATime /\ TriggerFiles /\ UpgradedQuiet /\ StagedFiles /\ CredentialShortLived

LEMMA FilesAbsent ==
  ASSUME TypeOK
  PROVE  (\A f \in Files : files[f] = "absent") <=> files = Nothing
  BY DEF TypeOK, Nothing

LEMMA NothingWritten ==
  ASSUME TypeOK, NEW s \in Scripts, script[s] # "stage"
  PROVE  written[s] = 0
  <1>1. written[s] \in 0..6 /\ ~(written[s] > 0)
    BY DEF TypeOK
  <1>2. QED
    BY <1>1

\* Where no script has written anything, no file need be full.
LEMMA NoneFilled ==
  ASSUME NEW w, \A s \in Scripts : w[s] = 0,
         NEW n \in {4, 6}
  PROVE  ~(\E s \in Scripts : w[s] >= n)
  OBVIOUS

LEMMA StageFilled ==
  ASSUME TypeOK, NEW s \in Scripts, Stage(s),
         NEW f \in Files, NEW n \in {4, 6},
         n = 4 => f = "trigger", n = 6 => f = "daemon",
         Filled(f, n)
  PROVE  Filled(f, n)'
  <1> SUFFICES ASSUME NEW r \in Scripts, written'[r] >= n,
                      \A q \in Scripts : written'[q] # n - 1
               PROVE  files'[f] = "full"
    BY DEF Filled
  <1>1. /\ written'[s] = written[s] + 1 /\ written[s] \in 0..5
        /\ \A q \in Scripts \ {s} : written'[q] = written[q]
        /\ \A q \in Scripts : written[q] \in 0..6
    BY StageFacts DEF Stage, TypeOK
  <1>2. files \in [Files -> {"absent", "empty", "full"}]
    BY DEF TypeOK
  <1>3. CASE written[s] = n - 1
    BY <1>1, <1>2, <1>3, StageFacts DEF Files
  <1>4. CASE written[s] # n - 1
    <2>1. written[s] # n - 2
      BY <1>1
    <2>2. files'[f] = files[f]
      BY <1>1, <1>2, <1>4, <2>1, StageFacts DEF Files
    <2>3. written[r] >= n
      BY <1>1, <1>4
    <2>4. \A q \in Scripts : written[q] # n - 1
      BY <1>1, <1>4
    <2>5. QED
      BY <2>2, <2>3, <2>4 DEF Filled
  <1>5. QED
    BY <1>3, <1>4

-----------------------------------------------------------------------------
(* Each kind of step preserves it *)

LEMMA InitInv == Init => IInv
  <1> SUFFICES ASSUME Init PROVE IInv
    OBVIOUS
  <1>1. TypeOK
    BY InitType
  <1>2. /\ trigger = "idle" /\ \A f \in Files : files[f] = "absent"
        /\ \A s \in Scripts : script[s] = "idle" /\ written[s] = 0
    BY DEF Init, Nothing
  <1>3. OneAtATime /\ TriggerFiles /\ UpgradedQuiet /\ CredentialShortLived
    BY <1>2 DEF OneAtATime, TriggerFiles, UpgradedQuiet, CredentialShortLived, Files
  <1>4. StagedFiles
    BY <1>2, NoneFilled DEF StagedFiles, Filled
  <1>5. QED
    BY <1>1, <1>3, <1>4 DEF IInv

\* On an upgraded host a script goes no further than its checks.
LEMMA MoveInv ==
  ASSUME IInv, NEW s \in Scripts, Moves(s)
  PROVE  OneAtATime' /\ TriggerFiles' /\ UpgradedQuiet' /\ StagedFiles' /\ CredentialShortLived'
  <1> USE DEF IInv
  <1>1. UNCHANGED <<os, files, written, trigger, torn, crossed>> /\ written[s] = 0
    BY MoveFacts DEF world, triggerVars, history
  <1>2. \A r \in Scripts \ {s} : script'[r] = script[r]
    BY MoveFacts, GoesFacts, <1>1
  <1>3. os = "new" => script'[s] \in {"idle", "checks"}
    <2>1. os = "new" => script[s] \in {"idle", "checks"}
      BY DEF UpgradedQuiet
    <2>2. CASE Fire(s)
      BY <2>2 DEF Fire, Goes, TypeOK
    <2>3. CASE Checks(s)
      BY <2>3 DEF Checks, Goes, TypeOK
    <2>4. QED
      BY <2>1, <2>2, <2>3 DEF Moves, Download, InstallPkg, DiscardZip, DownloadFails,
         InstallPkgFails
  <1>4. OneAtATime' /\ TriggerFiles'
    BY <1>1 DEF OneAtATime, TriggerFiles, Armed
  <1>5. UpgradedQuiet'
    BY <1>1, <1>2, <1>3 DEF UpgradedQuiet
  <1>6. StagedFiles'
    BY <1>1 DEF StagedFiles, Filled
  <1>7. CredentialShortLived'
    BY <1>1, <1>2 DEF CredentialShortLived
  <1>8. QED
    BY <1>4, <1>5, <1>6, <1>7

\* A script writes on the old system only, and under a trigger it crosses it.
LEMMA StageInv ==
  ASSUME IInv, NEW s \in Scripts, Stage(s)
  PROVE  OneAtATime' /\ TriggerFiles' /\ UpgradedQuiet' /\ StagedFiles' /\ CredentialShortLived'
  <1> USE DEF IInv
  <1>1. script[s] = "stage" /\ UNCHANGED <<os, script, trigger, torn>>
    BY DEF Stage, world, triggerVars
  <1>2. os # "new"
    BY <1>1 DEF UpgradedQuiet
  <1>3. ~crossed' => ~crossed /\ trigger = "idle"
    BY DEF Stage
  <1>4. OneAtATime' /\ UpgradedQuiet'
    BY <1>1, <1>2, <1>3 DEF OneAtATime, UpgradedQuiet
  <1>5. TriggerFiles'
    <2>1. \A f \in Files : files[f] # "absent" => files'[f] # "absent"
      BY StageFacts DEF TypeOK, Files
    <2>2. QED
      BY <1>1, <1>3, <2>1 DEF TriggerFiles, Files
  <1>6. StagedFiles'
    BY <1>3, StageFilled DEF StagedFiles, Files
  <1>7. CredentialShortLived'
    <2>1. written'[s] > 0 /\ script'[s] = "stage"
      BY <1>1, StageFacts DEF TypeOK
    <2>2. QED
      BY <2>1 DEF CredentialShortLived
  <1>8. QED
    BY <1>4, <1>5, <1>6, <1>7

\* A boot: a credential it finds is that of a complete staging, whose trigger
\* starts now, or of one that was cut off or crossed a trigger.
LEMMA BootInv ==
  ASSUME IInv, Boot, os' = os \/ trigger = "install"
  PROVE  OneAtATime' /\ TriggerFiles' /\ UpgradedQuiet' /\ StagedFiles' /\ CredentialShortLived'
  <1> USE DEF IInv
  <1>1. /\ files' = files
        /\ \A s \in Scripts : script'[s] = "idle" /\ written'[s] = 0
        /\ trigger' = IF Armed THEN "read" ELSE "idle"
        /\ torn' = CutOff
        /\ crossed' = (crossed /\ os' = "new" /\ files # Nothing)
    BY BootFacts DEF Boot, diskVars
  <1>2. OneAtATime' /\ TriggerFiles'
    BY <1>1 DEF OneAtATime, TriggerFiles, Armed
  <1>3. UpgradedQuiet'
    <2>1. os' = "new" /\ ~crossed' => \A f \in Files : files[f] = "absent"
      <3>1. CASE crossed
        BY <1>1, <3>1, FilesAbsent
      <3>2. CASE ~crossed
        BY <3>2 DEF UpgradedQuiet, TriggerFiles, Files
      <3>3. QED
        BY <3>1, <3>2
    <2>2. os' = "new" /\ ~crossed' => ~Armed
      BY <2>1 DEF Armed, Files
    <2>3. QED
      BY <1>1, <2>1, <2>2 DEF UpgradedQuiet
  <1>4. StagedFiles'
    BY <1>1, NoneFilled DEF StagedFiles, Filled
  <1>5. CredentialShortLived'
    <2> SUFFICES ASSUME files["credential"] # "absent", ~torn' PROVE Armed
      BY <1>1 DEF CredentialShortLived
    <2>1. ~torn /\ ~crossed /\ \A s \in Scripts : written[s] \notin 1..5
      BY <1>1 DEF CutOff
    <2>2. CASE trigger \in {"read", "credential"}
      BY <2>1, <2>2 DEF TriggerFiles
    <2>3. ASSUME NEW s \in Scripts, written[s] > 0 PROVE Armed
      <3>1. written[s] = 6 /\ \A r \in Scripts : written[r] \in 0..6
        BY <2>1, <2>3 DEF TypeOK
      <3>2. \A r \in Scripts : written[r] # 3 /\ written[r] # 5
        BY <2>1
      <3>3. files["trigger"] = "full" /\ files["daemon"] = "full"
        BY <2>1, <3>1, <3>2 DEF StagedFiles, Filled
      <3>4. QED
        BY <3>3 DEF Armed
    <2>4. QED
      BY <2>1, <2>2, <2>3 DEF CredentialShortLived
  <1>6. QED
    BY <1>2, <1>3, <1>4, <1>5

\* A step of the trigger. It has the files to itself, unless it is crossed.
LEMMA TriggerInv ==
  ASSUME IInv,
         \/ ReadCredential \/ RemoveCredential \/ RemoveDaemon \/ RemoveSelf
         \/ Decide \/ StartOSInstallFails
  PROVE  OneAtATime' /\ TriggerFiles' /\ UpgradedQuiet' /\ StagedFiles' /\ CredentialShortLived'
  <1> USE DEF IInv
  <1>1. trigger # "idle" /\ UNCHANGED <<os, script, written, crossed>>
    BY DEF ReadCredential, RemoveCredential, RemoveDaemon, RemoveSelf, Decide,
       StartOSInstallFails, world, history
  <1>2. ~crossed => \A s \in Scripts : written[s] = 0
    BY <1>1 DEF OneAtATime
  <1>3. ~crossed => os # "new"
    BY <1>1 DEF UpgradedQuiet
  <1>4. OneAtATime' /\ UpgradedQuiet'
    BY <1>1, <1>2, <1>3 DEF OneAtATime, UpgradedQuiet
  <1>5. StagedFiles'
    BY <1>1, <1>2, NoneFilled DEF StagedFiles, Filled
  <1>6. TriggerFiles' /\ CredentialShortLived'
    <2>1. files["credential"] # "absent" =>
            \/ trigger \in {"read", "credential"} \/ torn \/ crossed
            \/ \E s \in Scripts : script'[s] = "stage" /\ written'[s] > 0
      BY <1>1 DEF CredentialShortLived
    <2>2. CASE ReadCredential
      BY <1>1, <2>1, <2>2
         DEF ReadCredential, TriggerFiles, CredentialShortLived, Armed, diskVars, history
    <2>3. CASE RemoveCredential
      BY <1>1, <2>3, RemoveFacts DEF RemoveCredential, TriggerFiles, CredentialShortLived, Files
    <2>4. CASE RemoveDaemon
      BY <1>1, <2>1, <2>4, RemoveFacts
         DEF RemoveDaemon, TriggerFiles, CredentialShortLived, Files, history
    <2>5. CASE RemoveSelf
      BY <1>1, <2>1, <2>5, RemoveFacts
         DEF RemoveSelf, TriggerFiles, CredentialShortLived, Files, history
    <2>6. CASE Decide
      BY <1>1, <2>1, <2>6 DEF Decide, TriggerFiles, CredentialShortLived, diskVars, history
    <2>7. CASE StartOSInstallFails
      BY <1>1, <2>1, <2>7
         DEF StartOSInstallFails, TriggerFiles, CredentialShortLived, diskVars, history
    <2>8. QED
      BY <2>2, <2>3, <2>4, <2>5, <2>6, <2>7
  <1>7. QED
    BY <1>4, <1>5, <1>6

LEMMA StepInv ==
  ASSUME IInv, [Next]_vars
  PROVE  IInv'
  <1>1. TypeOK'
    BY StepType DEF IInv
  <1>2. CASE Next
    <2>1. CASE \E s \in Scripts : Moves(s)
      BY <1>1, <2>1, MoveInv DEF IInv
    <2>2. CASE \E s \in Scripts : Stage(s)
      BY <1>1, <2>2, StageInv DEF IInv
    <2>3. CASE (\E s \in Scripts : Reboot(s)) \/ PowerLoss \/ StartOSInstall
      <3>1. Boot /\ (os' = os \/ trigger = "install")
        BY <2>3 DEF Reboot, PowerLoss, StartOSInstall
      <3>2. QED
        BY <1>1, <3>1, BootInv DEF IInv
    <2>4. CASE Mint
      BY <1>1, <2>4 DEF Mint, IInv, OneAtATime, TriggerFiles, Armed, UpgradedQuiet, StagedFiles,
         Filled, CredentialShortLived, diskVars, triggerVars, history
    <2>5. CASE \/ ReadCredential \/ RemoveCredential \/ RemoveDaemon \/ RemoveSelf
               \/ Decide \/ StartOSInstallFails
      BY <1>1, <2>5, TriggerInv DEF IInv
    <2>6. QED
      BY <1>2, <2>1, <2>2, <2>3, <2>4, <2>5, StepCases
  <1>3. CASE UNCHANGED vars
    BY <1>1, <1>3 DEF vars, IInv, OneAtATime, TriggerFiles, Armed, UpgradedQuiet, StagedFiles,
       Filled, CredentialShortLived, diskVars, triggerVars, world, history
  <1>4. QED
    BY <1>2, <1>3

-----------------------------------------------------------------------------

LEMMA InvariantHolds == Spec => []IInv
  BY InitInv, StepInv, PTL DEF Spec

\* When startosinstall runs, and ever after on the host it has upgraded, no
\* credential, trigger or daemon is left (macos-upgrade.sh:253-256), unless a
\* script has written under the trigger.
THEOREM NothingLeft == Spec => []NothingLeftBehind
  <1>1. IInv => NothingLeftBehind
    BY FilesAbsent DEF IInv, TriggerFiles, UpgradedQuiet, NothingLeftBehind, Files
  <1>2. QED
    BY <1>1, InvariantHolds, PTL

\* A credential outlives its script and its trigger only where a staging was
\* cut off or crossed a trigger at work (macos-upgrade.sh:231).
THEOREM ShortLived == Spec => []CredentialShortLived
  <1>1. IInv => CredentialShortLived
    BY DEF IInv
  <1>2. QED
    BY <1>1, InvariantHolds, PTL

-----------------------------------------------------------------------------
(* UpgradeTrigger implements OneShot *)

\* startosinstall is given the password that was read.
Authenticated == trigger = "install" => password

LEMMA AuthenticatedStep ==
  ASSUME TypeOK, Authenticated, [Next]_vars
  PROVE  Authenticated'
  <1>1. CASE \E s \in Scripts : Moves(s) \/ Stage(s)
    BY <1>1, MoveFacts DEF Stage, triggerVars, Authenticated
  <1>2. CASE (\E s \in Scripts : Reboot(s)) \/ PowerLoss \/ StartOSInstall
    <2>1. Boot
      BY <1>2 DEF Reboot, PowerLoss, StartOSInstall
    <2>2. QED
      BY <2>1, BootFacts DEF Authenticated
  <1>3. CASE ReadCredential \/ RemoveCredential \/ RemoveDaemon \/ RemoveSelf \/ StartOSInstallFails
    BY <1>3 DEF ReadCredential, RemoveCredential, RemoveDaemon, RemoveSelf,
                StartOSInstallFails, Authenticated
  <1>4. CASE Decide
    BY <1>4 DEF Decide, Authenticated
  <1>5. CASE Mint \/ UNCHANGED vars
    BY <1>5 DEF Mint, vars, triggerVars, Authenticated
  <1>6. QED
    BY <1>1, <1>2, <1>3, <1>4, <1>5, StepCases

\* The variables of OneShot, as UpgradeTrigger has them.
Left == {f \in Files : files[f] # "absent"}
Secret == files["credential"] = "full"
Held == password /\ trigger # "idle"

LEMMA PromiseInit == Init => Promise!Init
  BY DEF Init, Promise!Init, Nothing, Files

LEMMA PromiseStutter ==
  ASSUME UNCHANGED <<os, files, password, trigger, crossed>>
  PROVE  UNCHANGED Promise!ovars
  BY DEF Promise!ovars

\* A script writes on a host of the old system; under an attempt, it crosses it.
LEMMA PromisePut ==
  ASSUME IInv, NEW s \in Scripts, Stage(s)
  PROVE  Promise!Next
  <1> USE DEF IInv
  <1>1. /\ trigger' = trigger /\ password' = password /\ os = "old" /\ os' = "old"
        /\ crossed' = (crossed \/ trigger # "idle") /\ crossed \in BOOLEAN
    BY DEF Stage, triggerVars, world, UpgradedQuiet, TypeOK
  <1>2. PICK f \in Files : \E c \in {"empty", "full"} : files' = [files EXCEPT ![f] = c]
    BY StageFacts DEF Files
  <1>3. /\ files' \in [Files -> {"absent", "empty", "full"}] /\ files'[f] # "absent"
        /\ \A g \in Files \ {f} : files'[g] = files[g]
    BY <1>2 DEF TypeOK
  <1>4. Left' = Left \cup {f}
    BY <1>3 DEF Left
  <1>5. f # "credential" => (Secret' <=> Secret)
    BY <1>3 DEF Secret, Files
  <1>6. Promise!Put(f)
    <2>1. IF f = "credential" THEN Secret' \in BOOLEAN ELSE Secret' = Secret
      BY <1>5 DEF Secret
    <2>2. Held' = Held /\ (Held => crossed') /\ crossed' \in {crossed, TRUE}
      BY <1>1 DEF Held
    <2>3. QED
      BY <1>1, <1>4, <2>1, <2>2 DEF Promise!Put, Left, Secret, Held
  <1>7. QED
    BY <1>6 DEF Promise!Next

\* The trigger removes a file.
LEMMA PromiseClear ==
  ASSUME TypeOK, NEW f \in Files, Remove(f), UNCHANGED <<os, password, crossed>>,
         trigger # "idle", trigger' # "idle"
  PROVE  Promise!Next
  <1>1. Left' = Left \ {f}
    BY RemoveFacts DEF Left
  <1>2. Secret' = (Secret /\ f # "credential")
    BY RemoveFacts DEF Secret, Files
  <1>3. Promise!Clear(f)
    BY <1>1, <1>2 DEF Promise!Clear, Left, Secret
  <1>4. QED
    BY <1>3 DEF Promise!Next

LEMMA PromiseForget ==
  ASSUME TypeOK, UNCHANGED <<os, files>>, ~Held',
         crossed' = crossed \/ crossed' = (crossed /\ os = "new" /\ files # Nothing)
  PROVE  Promise!Next
  <1>1. files # Nothing <=> Left # {}
    BY FilesAbsent DEF Left
  <1>2. crossed' \in {crossed, crossed /\ os = "new" /\ Left # {}}
    BY <1>1
  <1>3. Promise!Forget
    BY <1>2 DEF Promise!Forget, Held, Left
  <1>4. QED
    BY <1>3 DEF Promise!Next

\* An attempt begins with a complete staging.
LEMMA PromiseTake ==
  ASSUME IInv, ReadCredential
  PROVE  Promise!Next
  <1>1. UNCHANGED <<os, files, crossed>> /\ password' = Secret /\ trigger' # "idle"
    BY DEF ReadCredential, world, diskVars, history, Secret
  <1>2. CASE Secret
    <2>1. Left = Files
      BY <1>2 DEF ReadCredential, IInv, TriggerFiles, Left, Secret, Files
    <2>2. Promise!Take
      BY <1>1, <1>2, <2>1 DEF Promise!Take, Left, Secret
    <2>3. QED
      BY <2>2 DEF Promise!Next
  <1>3. CASE ~Secret
    BY <1>1, <1>3, PromiseForget DEF Held, IInv
  <1>4. QED
    BY <1>2, <1>3

\* startosinstall runs with the password, and nothing left unless a script has
\* written under the trigger.
LEMMA PromiseUpgrade ==
  ASSUME IInv, Authenticated, StartOSInstall
  PROVE  Promise!Next
  <1>1. /\ os' = "new" /\ files' = files /\ trigger = "install" /\ password
        /\ password' = FALSE /\ crossed' = (crossed /\ files # Nothing)
    BY DEF StartOSInstall, Boot, diskVars, Authenticated
  <1>2. crossed \/ Left = {}
    BY <1>1 DEF IInv, TriggerFiles, Left, Files
  <1>3. files # Nothing <=> Left # {}
    BY FilesAbsent DEF IInv, Left
  <1>4. Promise!Upgrade
    BY <1>1, <1>2, <1>3 DEF Promise!Upgrade, Left
  <1>5. QED
    BY <1>4 DEF Promise!Next

LEMMA PromiseStep ==
  ASSUME IInv, Authenticated, [Next]_vars
  PROVE  [Promise!Next]_(Promise!ovars)
  <1>1. CASE (\E s \in Scripts : Moves(s)) \/ Mint \/ UNCHANGED vars
    BY <1>1, MoveFacts, PromiseStutter DEF Mint, vars, world, diskVars, triggerVars, history,
       IInv
  <1>2. CASE \E s \in Scripts : Stage(s)
    BY <1>2, PromisePut
  <1>3. CASE (\E s \in Scripts : Reboot(s)) \/ PowerLoss
    BY <1>3, PromiseForget DEF Reboot, PowerLoss, Boot, diskVars, Held, IInv
  <1>4. CASE StartOSInstall
    BY <1>4, PromiseUpgrade
  <1>5. CASE ReadCredential
    BY <1>5, PromiseTake
  <1>6. CASE RemoveCredential \/ RemoveDaemon \/ RemoveSelf
    BY <1>6, PromiseClear DEF RemoveCredential, RemoveDaemon, RemoveSelf, world, history,
       Files, IInv
  <1>7. CASE Decide
    <2>1. /\ UNCHANGED <<os, files, password, crossed>>
          /\ trigger = "decide" /\ trigger' \in {"install", "idle"}
      BY <1>7 DEF Decide, world, diskVars, history
    <2>2. CASE trigger' = "idle"
      BY <2>1, <2>2, PromiseForget DEF Held, IInv
    <2>3. CASE trigger' = "install"
      BY <2>1, <2>3 DEF Promise!ovars
    <2>4. QED
      BY <2>1, <2>2, <2>3
  <1>8. CASE StartOSInstallFails
    BY <1>8, PromiseForget DEF StartOSInstallFails, world, diskVars, history, Held, IInv
  <1>9. QED
    BY <1>1, <1>2, <1>3, <1>4, <1>5, <1>6, <1>7, <1>8, StepCases

\* A staging is good for one attempt at most, which is made with its password
\* and with nothing left of it unless a script has crossed it; an upgraded host
\* is never staged on again.
THEOREM ImplementsOneShot == Spec => PromiseSpec
  <1>1. Init => Promise!Init
    BY PromiseInit
  <1>2. Init => Authenticated
    BY DEF Init, Authenticated
  <1>3. IInv /\ Authenticated /\ [Next]_vars => Authenticated'
    BY AuthenticatedStep DEF IInv
  <1>4. IInv /\ Authenticated /\ [Next]_vars => [Promise!Next]_(Promise!ovars)
    BY PromiseStep
  <1>5. QED
    BY <1>1, <1>2, <1>3, <1>4, InvariantHolds, PTL DEF Spec, PromiseSpec, Promise!Spec

=============================================================================
