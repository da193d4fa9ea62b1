----------------------------- MODULE JobService -----------------------------
(***************************************************************************)
(* What the runner and Hangar promise about queued jobs, without saying    *)
(* how: a host has one unfinished job at a time, a job's command runs once *)
(* at most and only while the job is open, and a job is closed only when   *)
(* nothing works on it any more - as a success only if its command ended   *)
(* well.                                                                   *)
(***************************************************************************)
CONSTANTS Jobs, Hosts, HostOf

VARIABLES
  status,  \* of each job: absent, queued, open, succeeded or failed
  alive,   \* jobs whose command is running
  well     \* jobs whose command ended with success

svars == <<status, alive, well>>

Unfinished(h) == {j \in Jobs : HostOf[j] = h /\ status[j] \in {"queued", "open"}}

Init ==
  /\ status = [j \in Jobs |-> "absent"]
  /\ alive = {}
  /\ well = {}

Submit(j) ==
  /\ status[j] = "absent" /\ Unfinished(HostOf[j]) = {}
  /\ status' = [status EXCEPT ![j] = "queued"]
  /\ UNCHANGED <<alive, well>>

Assign(j) ==
  /\ status[j] = "queued"
  /\ status' = [status EXCEPT ![j] = "open"]
  /\ UNCHANGED <<alive, well>>

Begin(j) ==
  /\ status[j] = "open" /\ j \notin alive \cup well
  /\ alive' = alive \cup {j}
  /\ UNCHANGED <<status, well>>

\* One command ends by itself, well or not, or several die together.
End(S) ==
  /\ S \subseteq alive
  /\ alive' = alive \ S
  /\ \/ \E j \in S : S = {j} /\ well' = well \cup S
     \/ UNCHANGED well
  /\ UNCHANGED status

Succeed(j) ==
  /\ status[j] = "open" /\ j \in well
  /\ status' = [status EXCEPT ![j] = "succeeded"]
  /\ UNCHANGED <<alive, well>>

FailAll(S) ==
  /\ \A j \in S : status[j] = "open" /\ j \notin alive
  /\ status' = [j \in Jobs |-> IF j \in S THEN "failed" ELSE status[j]]
  /\ UNCHANGED <<alive, well>>

Next ==
  \/ \E j \in Jobs : Submit(j) \/ Assign(j) \/ Begin(j) \/ Succeed(j)
  \/ \E S \in SUBSET Jobs : End(S) \/ FailAll(S)

Spec == Init /\ [][Next]_svars
=============================================================================
