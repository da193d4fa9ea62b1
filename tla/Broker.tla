------------------------------- MODULE Broker -------------------------------
(***************************************************************************)
(* The vault broker (src/broker/app): get_secret behind a token bucket per *)
(* certificate serial, with its collection of idle buckets.                *)
(*                                                                         *)
(* The handler is `async` and awaits nothing, so a request is one step. A  *)
(* request whose certificate does not verify is answered 401 and changes   *)
(* nothing. Time is counted in ticks of the refill: a bucket's level is    *)
(* the number of ticks it took to fill so far, a token is worth Cost of    *)
(* them (60 / requests_per_minute), a burst Full.                          *)
(***************************************************************************)
EXTENDS Integers, FiniteSets

CONSTANTS
  Keys,      \* certificate serials
  Cost,      \* ticks in which one token is refilled
  Full,      \* ticks in which an empty bucket is refilled: burst * Cost
  IdleGc,    \* _idle_gc_seconds
  Crowd,     \* buckets from which on idle ones are collected (1024)
  MaxTime    \* bound: the clock stops there

ASSUME CostAssumption == Cost \in Nat \ {0}
ASSUME FullAssumption == Full \in Nat
ASSUME IdleAssumption == {IdleGc, Crowd, MaxTime} \subseteq Nat

VARIABLES
  now,      \* time.monotonic()
  buckets,  \* RateLimiter._buckets: tokens and last_refill per key
  answer,   \* the last answer each key got
  since,    \* an observer's window began then
  read      \* ticks worth of the Secret Manager reads per key since

vars == <<now, buckets, answer, since, read>>

Answers == {"none", "served", "denied", "failed", "limited"}

Init ==
  /\ now = 0
  /\ buckets = [k \in {} |-> [tokens |-> 0, last |-> 0]]
  /\ answer = [k \in Keys |-> "none"]
  /\ since = 0
  /\ read = [k \in Keys |-> 0]

-----------------------------------------------------------------------------
(* RateLimiter.consume *)

\* A mutant: in a crowd every bucket is dropped.
KeptWhenCrowdedNone ==
  IF Cardinality(DOMAIN buckets) < Crowd THEN DOMAIN buckets ELSE {}

\* _gc: the buckets that stay.
Kept ==
  {k \in DOMAIN buckets :
     Cardinality(DOMAIN buckets) >= Crowd => buckets[k].last >= now - IdleGc}

\* A mutant: the refill does not top out at the burst.
LevelUncapped(k) ==
  IF k \in Kept THEN buckets[k].tokens + (now - buckets[k].last) ELSE Full

\* What the bucket holds once refilled; a new one is full.
Level(k) ==
  LET refilled == buckets[k].tokens + (now - buckets[k].last)
  IN  IF k \in Kept /\ refilled < Full THEN refilled ELSE Full

\* A mutant: the last token of a bucket is not given out.
AffordsMore(k) == Level(k) > Cost

Affords(k) == Level(k) >= Cost

\* The dictionary after a call for k, whose bucket is left with this much.
Refilled(k, left) ==
  [c \in Kept \cup {k} |->
     IF c = k THEN [tokens |-> left, last |-> now] ELSE buckets[c]]

-----------------------------------------------------------------------------
(* get_secret *)

Answer(k, a) == answer' = [answer EXCEPT ![k] = a]

\* 429
Limited(k) ==
  /\ ~Affords(k)
  /\ buckets' = Refilled(k, Level(k))
  /\ Answer(k, "limited")
  /\ UNCHANGED read

\* 403: the certificate is for another role. The token is spent.
Mismatch(k) ==
  /\ Affords(k)
  /\ buckets' = Refilled(k, Level(k) - Cost)
  /\ Answer(k, "denied")
  /\ UNCHANGED read

\* 200, or 500 when Secret Manager fails.
ReadSecret(k) ==
  /\ Affords(k)
  /\ buckets' = Refilled(k, Level(k) - Cost)
  /\ \E a \in {"served", "failed"} : Answer(k, a)
  /\ read' = [read EXCEPT ![k] = @ + Cost]

GetSecret(k) ==
  /\ Limited(k) \/ Mismatch(k) \/ ReadSecret(k)
  /\ UNCHANGED <<now, since>>

-----------------------------------------------------------------------------
(* Time, and the instance *)

Tick ==
  /\ now < MaxTime
  /\ now' = now + 1
  /\ UNCHANGED <<buckets, answer, since, read>>

\* Cloud Run replaces the instance; the dictionary is in its memory.
Restart ==
  /\ buckets' = [k \in {} |-> [tokens |-> 0, last |-> 0]]
  /\ since' = now
  /\ read' = [k \in Keys |-> 0]
  /\ UNCHANGED <<now, answer>>

\* An observer begins to count, at any time.
Observe ==
  /\ since' = now
  /\ read' = [k \in Keys |-> 0]
  /\ UNCHANGED <<now, buckets, answer>>

Next == Tick \/ Restart \/ Observe \/ \E k \in Keys : GetSecret(k)

Spec == Init /\ [][Next]_vars

-----------------------------------------------------------------------------
(* Properties *)

TypeOK ==
  /\ now \in Nat
  /\ DOMAIN buckets \subseteq Keys
  /\ \A k \in DOMAIN buckets :
       buckets[k].tokens \in 0..Full /\ buckets[k].last \in 0..now
  /\ answer \in [Keys -> Answers]
  /\ since \in 0..now
  /\ read \in [Keys -> Nat]

\* An idle bucket is full by the time it may be collected. The settings do not
\* say so: with the defaults a bucket is full after 10 seconds, and 600 pass.
IdleIsFull == Full <= IdleGc

\* In any window, one certificate causes no more reads of Secret Manager than
\* the burst and the refill of that window, whatever is collected meanwhile
\* (replay_cache.py: "Each bucket refills ... and tops out at burst").
ReadsBounded == \A k \in Keys : read[k] <= Full + (now - since)

\* How many ticks a key is short of its whole burst.
Debt(k) ==
  IF k \in DOMAIN buckets /\ buckets[k].tokens + (now - buckets[k].last) < Full
  THEN Full - (buckets[k].tokens + (now - buckets[k].last))
  ELSE 0

\* Collecting idle buckets is not seen from outside: see module Allowance.
Promise == INSTANCE Allowance WITH debt <- [k \in Keys |-> Debt(k)]
AllowanceSpec == Promise!Spec

\* Why: what was read in the window is either paid for by its time, or owed.
ReadsOwed == \A k \in Keys : read[k] <= (now - since) + Debt(k)
=============================================================================
