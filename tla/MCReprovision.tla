---------------------------- MODULE MCReprovision ----------------------------
(***************************************************************************)
(* Instances of Reprovision for TLC: the pools of gecko_t_osx_1500_m4 (one *)
(* of the two staging pools stands for both), and one pool missing from    *)
(* _PROD_POOLS_BY_ROLE.                                                    *)
(***************************************************************************)
EXTENDS Reprovision

CONSTANTS staging, prod26, prod15, unlisted

MCCandidates == <<staging, prod26, prod15>>

Starts(homes, records, held, live) ==
  [home : homes, records : records, held : held, live : live]

\* One live host per pool of the role, in service or already held, with a
\* record in its own pool only or also an old one in each pool probed later.
Recorded ==
  Starts({staging}, {{staging}, {staging, prod26, prod15}}, BOOLEAN, {TRUE})
    \cup Starts({prod26}, {{prod26}, {prod26, prod15}}, BOOLEAN, {TRUE})

\* A live host in a pool the orchestrator does not know.
Unlisted == Starts({unlisted}, {{unlisted}}, {FALSE}, {TRUE})

\* A live host in the one pool its record names.
Plain == Starts({prod26}, {{prod26}}, {FALSE}, {TRUE})

RecordedOrUnlisted == Recorded \cup Unlisted
=============================================================================
