--------------------------- MODULE UpgradeTrigger ---------------------------
(***************************************************************************)
(* The in-place macOS upgrade of an M4 host. macos-upgrade.sh, launched by *)
(* `os-update` over ssh or by a SimpleMDM job, fetches and installs the    *)
(* installer app, stages three files (the credential, the trigger, the     *)
(* LaunchDaemon's plist) and reboots; the trigger, started by launchd at   *)
(* that boot, reads the credential, removes the three files and only then  *)
(* runs startosinstall. Power can be lost between any two writes, a step   *)
(* can fail, and the script is fired again at hosts that lag behind.       *)
(***************************************************************************)
EXTENDS Integers, Sequences

CONSTANTS
  Scripts,     \* processes of macos-upgrade.sh there may be at once
  MaxFaults    \* bound: power losses, failing steps, scripts fired over another
               \* or over a trigger at work

ASSUME FaultsAssumption == MaxFaults \in Nat

VARIABLES
  os,        \* "old", or "new" once startosinstall has done its work
  owner,     \* admin holds a SecureToken under the credential given
  mirror,    \* "ranges": it serves byte ranges; "plain": it does not
  zip,       \* the download on disk
  app,       \* the installer app is in /Applications
  files,     \* the staged files: "absent", "empty" (created) or "full"
  script,    \* where each script is
  written,   \* how many writes of its staging each has done
  trigger,   \* where the trigger is
  password,  \* the trigger has read a password
  torn,      \* the host went down during a staging, its credential is not removed yet
  crossed,   \* a script has written to the disk under a trigger at work
  faults

diskVars    == <<zip, app, files>>
triggerVars == <<trigger, password>>
world       == <<os, owner, mirror>>
history     == <<torn, crossed>>
vars == <<world, diskVars, script, written, triggerVars, history, faults>>

StagingOrder == <<"credential", "trigger", "daemon">>
Files == {"credential", "trigger", "daemon"}
Nothing == [f \in Files |-> "absent"]

TypeOK ==
  /\ os \in {"old", "new"} /\ owner \in BOOLEAN /\ mirror \in {"ranges", "plain"}
  /\ zip \in {"none", "part", "whole", "corrupt"} /\ app \in BOOLEAN
  /\ files \in [Files -> {"absent", "empty", "full"}]
  /\ script \in [Scripts -> {"idle", "checks", "fetch", "unzip", "stage"}]
  /\ written \in [Scripts -> 0..6]
  /\ \A s \in Scripts : written[s] > 0 => script[s] = "stage"
  /\ trigger \in {"idle", "read", "credential", "daemon", "self", "decide", "install"}
  /\ password \in BOOLEAN /\ torn \in BOOLEAN /\ crossed \in BOOLEAN
  /\ faults \in 0..MaxFaults

Init ==
  /\ os \in {"old", "new"} /\ owner \in BOOLEAN /\ mirror \in {"ranges", "plain"}
  /\ zip = "none" /\ app = FALSE /\ files = Nothing
  /\ script = [s \in Scripts |-> "idle"]
  /\ written = [s \in Scripts |-> 0]
  /\ trigger = "idle" /\ password = FALSE /\ torn = FALSE /\ crossed = FALSE
  /\ faults = 0

Fault == faults < MaxFaults /\ faults' = faults + 1

Goes(s, to) == script' = [script EXCEPT ![s] = to]

Alone(s) == \A r \in Scripts \ {s} : script[r] = "idle"

-----------------------------------------------------------------------------
(* The operator *)

\* `os-update` and the SimpleMDM job launch the script and return, whatever
\* may be at work on the host: another script, or a trigger ("a batch can be
\* safely re-fired at stragglers"). The former asks for the version first, as
\* the script itself does.
Fire(s) ==
  /\ script[s] = "idle"
  /\ Goes(s, "checks")
  /\ IF Alone(s) /\ trigger = "idle" THEN UNCHANGED faults ELSE Fault
  /\ UNCHANGED <<world, diskVars, written, triggerVars, history>>

\* `mint`.
Mint ==
  /\ ~owner
  /\ owner' = TRUE
  /\ UNCHANGED <<os, mirror, diskVars, script, written, triggerVars, history, faults>>

-----------------------------------------------------------------------------
(* The script *)

\* A mutant: the version is not asked for.
ChecksNoVersion(s) ==
  /\ script[s] = "checks"
  /\ \/ ~owner /\ Goes(s, "idle") /\ UNCHANGED zip
     \/ owner /\ app /\ Goes(s, "stage") /\ zip' = "none"
     \/ owner /\ ~app /\ Goes(s, "fetch") /\ UNCHANGED zip
  /\ UNCHANGED <<world, app, files, written, triggerVars, history, faults>>

\* Preconditions, cheap ones first; an installer already there is not fetched again.
Checks(s) ==
  /\ script[s] = "checks"
  /\ \/ /\ os = "new" \/ ~owner
        /\ Goes(s, "idle")
        /\ UNCHANGED zip
     \/ /\ os = "old" /\ owner /\ app
        /\ Goes(s, "stage")
        /\ zip' = "none"
     \/ /\ os = "old" /\ owner /\ ~app
        /\ Goes(s, "fetch")
        /\ UNCHANGED zip
  /\ UNCHANGED <<world, app, files, written, triggerVars, history, faults>>

\* `curl -C -`: what is there already is kept, and only a mirror that serves
\* ranges completes it. Two transfers into one file may spoil it, and another
\* script may remove it.
Download(s) ==
  /\ script[s] = "fetch"
  /\ IF zip = "none" \/ mirror = "ranges"
     THEN /\ IF Alone(s) THEN zip' = IF zip = "corrupt" THEN zip ELSE "whole"
                         ELSE zip' \in {zip, "whole", "corrupt"}
          /\ Goes(s, "unzip")
     ELSE Goes(s, "idle") /\ UNCHANGED zip
  /\ UNCHANGED <<world, app, files, written, triggerVars, history, faults>>

\* What has arrived is kept for the next run to resume.
DownloadFails(s) ==
  /\ script[s] = "fetch"
  /\ Fault
  /\ zip' \in IF zip = "none" THEN {"none", "part"} ELSE {zip}
  /\ Goes(s, "idle")
  /\ UNCHANGED <<world, app, files, written, triggerVars, history>>

InstallPkg(s) ==
  /\ script[s] = "unzip"
  /\ zip = "whole"
  /\ app' = TRUE /\ zip' = "none"
  /\ Goes(s, "stage")
  /\ UNCHANGED <<world, files, written, triggerVars, history, faults>>

\* A download that does not unzip is removed.
DiscardZip(s) ==
  /\ script[s] = "unzip"
  /\ zip # "whole"
  /\ zip' = "none"
  /\ Goes(s, "idle")
  /\ UNCHANGED <<world, app, files, written, triggerVars, history, faults>>

\* The zip turns out corrupt, or the pkg in it does not install.
InstallPkgFails(s) ==
  /\ script[s] = "unzip"
  /\ zip = "whole"
  /\ Fault
  /\ zip' \in {"none", "whole"}
  /\ Goes(s, "idle")
  /\ UNCHANGED <<world, app, files, written, triggerVars, history>>

\* Each file is created empty with its mode, then filled, whoever reads it.
Stage(s) ==
  /\ script[s] = "stage" /\ written[s] < 6
  /\ files' = [files EXCEPT ![StagingOrder[(written[s] \div 2) + 1]] =
                 IF written[s] % 2 = 0 THEN "empty" ELSE "full"]
  /\ written' = [written EXCEPT ![s] = @ + 1]
  /\ crossed' = (crossed \/ trigger # "idle")
  /\ UNCHANGED <<world, zip, app, script, triggerVars, torn, faults>>

-----------------------------------------------------------------------------
(* The host and the trigger *)

Armed == files["daemon"] = "full" /\ files["trigger"] = "full"

\* Does the boot leave a credential that no trigger need come for?
CutOff ==
  /\ files["credential"] # "absent"
  /\ torn \/ crossed \/ \E s \in Scripts : written[s] \in 1..5

\* A mutant: the next script goes on where the last one was cut off.
BootResumes ==
  /\ script' = [s \in Scripts |-> "idle"]
  /\ UNCHANGED written
  /\ torn' = CutOff
  /\ crossed' = (crossed /\ os' = "new" /\ files # Nothing)
  /\ trigger' = IF Armed THEN "read" ELSE "idle"
  /\ password' = FALSE
  /\ UNCHANGED <<owner, mirror, diskVars>>

\* A boot ends every process; launchd starts what it finds loaded. What a script
\* did under a trigger is past on a host still to be upgraded, or left clean.
Boot ==
  /\ script' = [s \in Scripts |-> "idle"]
  /\ written' = [s \in Scripts |-> 0]
  /\ torn' = CutOff
  /\ crossed' = (crossed /\ os' = "new" /\ files # Nothing)
  /\ trigger' = IF Armed THEN "read" ELSE "idle"
  /\ password' = FALSE
  /\ UNCHANGED <<owner, mirror, diskVars>>

Reboot(s) ==
  /\ script[s] = "stage" /\ written[s] = 6
  /\ UNCHANGED <<os, faults>>
  /\ Boot

PowerLoss ==
  /\ Fault
  /\ UNCHANGED os
  /\ Boot

\* A mutant: the credential is only read, and left to a cleanup that
\* startosinstall's reboot preempts.
ReadAndKeepCredential ==
  /\ trigger = "read"
  /\ password' = (files["credential"] = "full")
  /\ trigger' = "daemon"
  /\ UNCHANGED <<world, diskVars, script, written, history, faults>>

\* An empty or missing file yields an empty password.
ReadCredential ==
  /\ trigger = "read"
  /\ password' = (files["credential"] = "full")
  /\ trigger' = "credential"
  /\ UNCHANGED <<world, diskVars, script, written, history, faults>>

Remove(f) == files' = [files EXCEPT ![f] = "absent"]

RemoveCredential ==
  /\ trigger = "credential"
  /\ Remove("credential")
  /\ torn' = FALSE
  /\ trigger' = "daemon"
  /\ UNCHANGED <<world, zip, app, script, written, password, crossed, faults>>

\* A mutant: the trigger boots out its own job, as it once did.
BootOutDaemon ==
  /\ trigger = "daemon"
  /\ Remove("daemon")
  /\ trigger' = "idle"
  /\ UNCHANGED <<world, zip, app, script, written, password, history, faults>>

RemoveDaemon ==
  /\ trigger = "daemon"
  /\ Remove("daemon")
  /\ trigger' = "self"
  /\ UNCHANGED <<world, zip, app, script, written, password, history, faults>>

RemoveSelf ==
  /\ trigger = "self"
  /\ Remove("trigger")
  /\ trigger' = "decide"
  /\ UNCHANGED <<world, zip, app, script, written, password, history, faults>>

\* A mutant: the attempt is made without a password as well.
DecideUnauthenticated ==
  /\ trigger = "decide"
  /\ trigger' = IF app THEN "install" ELSE "idle"
  /\ UNCHANGED <<world, diskVars, script, written, password, history, faults>>

Decide ==
  /\ trigger = "decide"
  /\ trigger' = IF password /\ app THEN "install" ELSE "idle"
  /\ UNCHANGED <<world, diskVars, script, written, password, history, faults>>

\* startosinstall prepares the upgrade and reboots into it.
StartOSInstall ==
  /\ trigger = "install"
  /\ os' = "new"
  /\ Boot
  /\ UNCHANGED faults

StartOSInstallFails ==
  /\ trigger = "install"
  /\ Fault
  /\ trigger' = "idle"
  /\ UNCHANGED <<world, diskVars, script, written, password, history>>

-----------------------------------------------------------------------------

ScriptStep(s) ==
  \/ Checks(s) \/ Download(s) \/ InstallPkg(s) \/ DiscardZip(s)
  \/ Stage(s) \/ Reboot(s)

TriggerStep ==
  \/ ReadCredential \/ RemoveCredential \/ RemoveDaemon \/ RemoveSelf
  \/ Decide \/ StartOSInstall

Next ==
  \/ \E s \in Scripts : Fire(s) \/ ScriptStep(s) \/ DownloadFails(s) \/ InstallPkgFails(s)
  \/ Mint \/ TriggerStep \/ StartOSInstallFails \/ PowerLoss

Spec == Init /\ [][Next]_vars

\* Processes run; the operator mints, and fires at the stragglers again.
Fairness ==
  /\ \A s \in Scripts : WF_vars(ScriptStep(s))
  /\ WF_vars(TriggerStep)
  /\ WF_vars(\E s \in Scripts : trigger = "idle" /\ Alone(s) /\ Fire(s))
  /\ WF_vars(Mint)

FairSpec == Spec /\ Fairness

-----------------------------------------------------------------------------
(* Properties *)

\* When startosinstall runs, and ever after on the host it has upgraded, none
\* of the three files is left: no password on disk and no daemon to fire the
\* upgrade again (macos-upgrade.sh:30, 253-256). The exception: a script, fired
\* over a trigger at work, has written under it.
NothingLeftBehind ==
  ~crossed => /\ trigger = "install" => files = Nothing
              /\ os = "new" => files = Nothing

\* "Short-lived by construction" (macos-upgrade.sh:231): a credential on disk
\* belongs to a script that is still staging or to a trigger that is about to
\* remove it. The exceptions: the host went down during a staging, by a loss of
\* power or the reboot of an earlier script, and it stays for a later run; or it
\* was written under a trigger at work.
CredentialShortLived ==
  files["credential"] # "absent" =>
    \/ \E s \in Scripts : script[s] = "stage" /\ written[s] > 0
    \/ trigger \in {"read", "credential"}
    \/ torn \/ crossed

\* The promise to the owner of the host, see module OneShot: a staging is good
\* for one attempt at most; nothing of it is on the disk when startosinstall
\* runs, unless a script has staged anew under the attempt; and an upgraded host
\* is never staged on.
Promise == INSTANCE OneShot WITH
  Credential <- "credential",
  left       <- {f \in Files : files[f] # "absent"},
  secret     <- files["credential"] = "full",
  password   <- password /\ trigger # "idle"
PromiseSpec == Promise!Spec

\* Whatever was lost, failed or crossed on the way, firing the script again ends
\* with the host upgraded and, unless a script has written under the trigger that
\* upgraded it, nothing left there, provided the mirror can resume a partial
\* download.
UpgradeArrives ==
  mirror = "ranges" => <>[](os = "new" /\ (crossed \/ files = Nothing))

=============================================================================
