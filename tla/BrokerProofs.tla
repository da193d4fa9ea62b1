---------------------------- MODULE BrokerProofs ----------------------------
(***************************************************************************)
(* Theorems about Broker: the bucket with collection of idle ones is, from *)
(* outside, the debt of module Allowance, and bounds the reads of Secret   *)
(* Manager in every window.                                                *)
(***************************************************************************)
EXTENDS Broker, TLAPS

-----------------------------------------------------------------------------
(* The bucket *)

\* The level is what the burst allows, at most.
LEMMA LevelType ==
  ASSUME TypeOK, NEW k \in Keys
  PROVE  Level(k) \in 0..Full
  BY FullAssumption DEF Level, Kept, TypeOK

\* What a key is short of is between nothing and its burst.
LEMMA DebtType ==
  ASSUME TypeOK, NEW k \in Keys
  PROVE  Debt(k) \in 0..Full
  BY FullAssumption DEF Debt, TypeOK

\* The buckets after a call for k.
LEMMA RefilledBucket ==
  ASSUME NEW k \in Keys, NEW left, buckets' = Refilled(k, left)
  PROVE  /\ DOMAIN buckets' = Kept \cup {k}
         /\ buckets'[k].tokens = left /\ buckets'[k].last = now
         /\ \A c \in Kept \ {k} : buckets'[c] = buckets[c]
  BY DEF Refilled

\* A call leaves a bucket between empty and its burst, whatever the answer.
LEMMA RefilledType ==
  ASSUME TypeOK, NEW k \in Keys, NEW left \in 0..Full,
         buckets' = Refilled(k, left), now' = now
  PROVE  /\ DOMAIN buckets' \subseteq Keys
         /\ \A c \in DOMAIN buckets' :
              buckets'[c].tokens \in 0..Full /\ buckets'[c].last \in 0..now'
  <1>1. Kept \subseteq DOMAIN buckets
    BY DEF Kept
  <1>2. DOMAIN buckets' \subseteq Keys
    BY <1>1, RefilledBucket DEF TypeOK
  <1>3. ASSUME NEW c \in DOMAIN buckets'
        PROVE  buckets'[c].tokens \in 0..Full /\ buckets'[c].last \in 0..now'
    <2>1. CASE c = k
      <3>1. buckets'[k].tokens = left /\ buckets'[k].last = now
        BY RefilledBucket
      <3>2. QED
        BY <2>1, <3>1 DEF TypeOK
    <2>2. CASE c # k
      <3>1. c \in DOMAIN buckets /\ buckets'[c] = buckets[c]
        BY <1>1, <1>3, <2>2, RefilledBucket
      <3>2. QED
        BY <3>1 DEF TypeOK
    <2>3. QED
      BY <2>1, <2>2
  <1>4. QED
    BY <1>2, <1>3

\* What a request leaves in the bucket.
LEMMA Charged ==
  ASSUME NEW k \in Keys, GetSecret(k)
  PROVE  \/ ~Affords(k) /\ buckets' = Refilled(k, Level(k)) /\ read' = read
         \/ /\ Affords(k) /\ buckets' = Refilled(k, Level(k) - Cost)
            /\ read' \in {read, [read EXCEPT ![k] = @ + Cost]}
  BY DEF GetSecret, Limited, Mismatch, ReadSecret

-----------------------------------------------------------------------------
(* Types *)

LEMMA InitType == Init => TypeOK
  BY FullAssumption DEF Init, TypeOK, Answers

LEMMA AnswerType ==
  ASSUME TypeOK, NEW k \in Keys, GetSecret(k)
  PROVE  answer' \in [Keys -> Answers]
  BY DEF GetSecret, Limited, Mismatch, ReadSecret, Answer, TypeOK, Answers

LEMMA RequestType ==
  ASSUME TypeOK, NEW k \in Keys, GetSecret(k)
  PROVE  TypeOK'
  <1>1. now' = now /\ since' = since
    BY DEF GetSecret
  <1>2. read' \in [Keys -> Nat]
    BY Charged, CostAssumption DEF TypeOK
  <1>3. PICK left \in 0..Full : buckets' = Refilled(k, left)
    <2>1. CASE buckets' = Refilled(k, Level(k))
      BY <2>1, LevelType
    <2>2. CASE Affords(k) /\ buckets' = Refilled(k, Level(k) - Cost)
      <3>1. Level(k) - Cost \in 0..Full
        BY <2>2, LevelType, CostAssumption, FullAssumption DEF Affords
      <3>2. QED
        BY <2>2, <3>1
    <2>3. QED
      BY <2>1, <2>2, Charged
  <1>4. /\ DOMAIN buckets' \subseteq Keys
        /\ \A c \in DOMAIN buckets' :
             buckets'[c].tokens \in 0..Full /\ buckets'[c].last \in 0..now'
    BY <1>1, <1>3, RefilledType
  <1>5. QED
    BY <1>1, <1>2, <1>4, AnswerType DEF TypeOK

LEMMA NextType ==
  ASSUME TypeOK, [Next]_vars
  PROVE  TypeOK'
  <1>1. CASE Tick
    BY <1>1 DEF Tick, TypeOK
  <1>2. CASE Restart
    BY <1>2 DEF Restart, TypeOK
  <1>3. CASE Observe
    BY <1>3 DEF Observe, TypeOK
  <1>4. ASSUME NEW k \in Keys, GetSecret(k) PROVE TypeOK'
    BY <1>4, RequestType
  <1>5. CASE UNCHANGED vars
    BY <1>5 DEF vars, TypeOK
  <1>6. QED
    BY <1>1, <1>2, <1>3, <1>4, <1>5 DEF Next

\* Buckets stay between empty and the burst, and are never of the future.
THEOREM TypeCorrect == Spec => []TypeOK
  BY InitType, NextType, PTL DEF Spec

-----------------------------------------------------------------------------
(* What a step does to the debts *)

\* A bucket that is collected was full: its key owes nothing either way.
LEMMA CollectedIsFull ==
  ASSUME TypeOK, IdleIsFull, NEW k \in DOMAIN buckets, k \notin Kept
  PROVE  Debt(k) = 0
  <1>1. buckets[k].last < now - IdleGc
    BY IdleAssumption DEF Kept, TypeOK
  <1>2. buckets[k].tokens + (now - buckets[k].last) >= Full
    BY <1>1, IdleAssumption, FullAssumption DEF IdleIsFull, TypeOK
  <1>3. QED
    BY <1>2, FullAssumption DEF Debt, TypeOK

\* The level of a bucket, collected or not, is the burst less the debt.
LEMMA LevelIsDebt ==
  ASSUME TypeOK, IdleIsFull, NEW k \in Keys
  PROVE  Level(k) = Full - Debt(k)
  <1>1. CASE k \in Kept
    BY <1>1, FullAssumption DEF Level, Debt, Kept, TypeOK
  <1>2. CASE k \notin Kept
    <2>1. Debt(k) = 0
      BY <1>2, CollectedIsFull DEF Debt
    <2>2. QED
      BY <1>2, <2>1, FullAssumption DEF Level
  <1>3. QED
    BY <1>1, <1>2

\* A call for k leaves k owing what its bucket is short of, and every other
\* key what it owed.
LEMMA DebtsAfter ==
  ASSUME TypeOK, IdleIsFull, NEW k \in Keys, NEW left \in 0..Full,
         buckets' = Refilled(k, left), now' = now
  PROVE  /\ Debt(k)' = Full - left
         /\ \A c \in Keys \ {k} : Debt(c)' = Debt(c)
  <1>1. Debt(k)' = Full - left
    <2>1. k \in DOMAIN buckets'
      BY RefilledBucket
    <2>2. buckets'[k].tokens = left /\ buckets'[k].last = now
      BY RefilledBucket
    <2>3. QED
      BY <2>1, <2>2, FullAssumption DEF Debt, TypeOK
  <1>2. ASSUME NEW c \in Keys \ {k} PROVE Debt(c)' = Debt(c)
    <2>1. CASE c \in Kept
      <3>1. c \in DOMAIN buckets /\ c \in DOMAIN buckets' /\ buckets'[c] = buckets[c]
        BY <1>2, <2>1, RefilledBucket DEF Kept
      <3>2. QED
        BY <3>1 DEF Debt
    <2>2. CASE c \notin Kept
      <3>1. c \notin DOMAIN buckets'
        BY <1>2, <2>2, RefilledBucket
      <3>2. Debt(c)' = 0
        BY <3>1 DEF Debt
      <3>3. Debt(c) = 0
        BY <2>2, CollectedIsFull DEF Debt
      <3>4. QED
        BY <3>2, <3>3
    <2>3. QED
      BY <2>1, <2>2
  <1>3. QED
    BY <1>1, <1>2

\* A request adds its cost to the debt of its key when the key can afford it,
\* and nothing otherwise.
LEMMA RequestDebt ==
  ASSUME TypeOK, IdleIsFull, NEW k \in Keys, GetSecret(k)
  PROVE  /\ Affords(k) <=> Debt(k) + Cost <= Full
         /\ Debt(k)' = Debt(k) + (IF Affords(k) THEN Cost ELSE 0)
         /\ \A c \in Keys \ {k} : Debt(c)' = Debt(c)
  <1>1. now' = now
    BY DEF GetSecret
  <1>2. Affords(k) <=> Debt(k) + Cost <= Full
    BY LevelIsDebt, DebtType, CostAssumption, FullAssumption DEF Affords
  <1>3. CASE ~Affords(k)
    <2>1. buckets' = Refilled(k, Level(k))
      BY <1>3, Charged
    <2>2. Debt(k)' = Full - Level(k) /\ \A c \in Keys \ {k} : Debt(c)' = Debt(c)
      BY <1>1, <2>1, LevelType, DebtsAfter
    <2>3. Debt(k)' = Debt(k)
      BY <2>2, LevelIsDebt, DebtType, FullAssumption
    <2>4. QED
      BY <1>2, <1>3, <2>2, <2>3, DebtType
  <1>4. CASE Affords(k)
    <2>1. buckets' = Refilled(k, Level(k) - Cost)
      BY <1>4, Charged
    <2>2. Level(k) - Cost \in 0..Full
      BY <1>4, LevelType, CostAssumption, FullAssumption DEF Affords
    <2>3. /\ Debt(k)' = Full - (Level(k) - Cost)
          /\ \A c \in Keys \ {k} : Debt(c)' = Debt(c)
      BY <1>1, <2>1, <2>2, DebtsAfter
    <2>4. Debt(k)' = Debt(k) + Cost
      BY <2>3, LevelIsDebt, DebtType, CostAssumption, FullAssumption
    <2>5. QED
      BY <1>2, <1>4, <2>3, <2>4
  <1>5. QED
    BY <1>3, <1>4

\* Each tick pays one off.
LEMMA TickDebt ==
  ASSUME TypeOK, Tick, NEW k \in Keys
  PROVE  Debt(k)' = IF Debt(k) > 0 THEN Debt(k) - 1 ELSE 0
  <1>1. CASE k \notin DOMAIN buckets
    BY <1>1 DEF Tick, Debt
  <1>2. CASE k \in DOMAIN buckets
    BY <1>2, FullAssumption DEF Tick, Debt, TypeOK
  <1>3. QED
    BY <1>1, <1>2

\* Nobody owes anything to a new instance.
LEMMA RestartDebt ==
  ASSUME Restart, NEW k \in Keys
  PROVE  Debt(k)' = 0
  BY DEF Restart, Debt

-----------------------------------------------------------------------------
(* The reads in a window *)

LEMMA InitOwed == Init => ReadsOwed
  BY DEF Init, ReadsOwed, Debt

LEMMA OwedStep ==
  ASSUME TypeOK, IdleIsFull, ReadsOwed, [Next]_vars
  PROVE  ReadsOwed'
  <1> SUFFICES ASSUME NEW k \in Keys
               PROVE  read'[k] <= (now' - since') + Debt(k)'
    BY DEF ReadsOwed
  <1>1. read[k] <= (now - since) + Debt(k) /\ Debt(k) \in Nat
    BY DebtType, FullAssumption DEF ReadsOwed
  <1>2. TypeOK'
    BY NextType
  <1>3. Debt(k)' \in Nat
    <2>1. CASE k \in DOMAIN buckets'
      BY <1>2, <2>1, FullAssumption DEF Debt, TypeOK
    <2>2. CASE k \notin DOMAIN buckets'
      BY <2>2 DEF Debt
    <2>3. QED
      BY <2>1, <2>2
  <1>4. CASE Tick
    BY <1>1, <1>4, TickDebt DEF Tick, TypeOK
  <1>5. CASE Restart \/ Observe
    <2>1. read'[k] = 0 /\ since' = now /\ now' = now
      BY <1>5 DEF Restart, Observe
    <2>2. QED
      BY <1>3, <2>1 DEF TypeOK
  <1>6. ASSUME NEW c \in Keys, GetSecret(c)
        PROVE  read'[k] <= (now' - since') + Debt(k)'
    <2>1. now' = now /\ since' = since
      BY <1>6 DEF GetSecret
    <2>2. CASE c = k /\ Affords(k)
      <3>1. Debt(k)' = Debt(k) + Cost
        BY <1>6, <2>2, RequestDebt
      <3>2. read'[k] <= read[k] + Cost /\ read'[k] \in Nat
        BY <1>6, <2>2, Charged, CostAssumption DEF TypeOK
      <3>3. QED
        BY <1>1, <2>1, <3>1, <3>2, CostAssumption DEF TypeOK
    <2>3. CASE ~(c = k /\ Affords(k))
      <3>1. Debt(k)' = Debt(k)
        BY <1>1, <1>6, <2>3, RequestDebt
      <3>2. read'[k] = read[k]
        BY <1>6, <2>3, Charged DEF TypeOK
      <3>3. QED
        BY <1>1, <2>1, <3>1, <3>2
    <2>4. QED
      BY <2>2, <2>3
  <1>7. CASE UNCHANGED vars
    BY <1>1, <1>7 DEF vars, Debt
  <1>8. QED
    BY <1>4, <1>5, <1>6, <1>7 DEF Next

\* One certificate never causes more reads in a window than its burst and the
\* refill of that window: collecting idle buckets gives nothing away.
THEOREM Bounded == IdleIsFull => (Spec => []ReadsBounded)
  <1> SUFFICES ASSUME IdleIsFull PROVE Spec => []ReadsBounded
    OBVIOUS
  <1>1. TypeOK /\ ReadsOwed /\ [Next]_vars => ReadsOwed'
    BY OwedStep
  <1>2. TypeOK /\ ReadsOwed => ReadsBounded
    <2> SUFFICES ASSUME TypeOK, ReadsOwed, NEW k \in Keys
                 PROVE  read[k] <= Full + (now - since)
      BY DEF ReadsBounded
    <2>1. QED
      BY DebtType, FullAssumption DEF ReadsOwed, TypeOK
  <1>3. QED
    BY <1>1, <1>2, InitOwed, TypeCorrect, PTL DEF Spec

-----------------------------------------------------------------------------
(* The broker implements Allowance *)

LEMMA RequestAllowed ==
  ASSUME TypeOK, IdleIsFull, NEW k \in Keys, GetSecret(k)
  PROVE  Promise!Grant(k) \/ Promise!Refuse(k)
  <1> DEFINE debt == [c \in Keys |-> Debt(c)]
  <1>1. CASE Affords(k)
    <2>1. debt[k] + Cost <= Full
      BY <1>1, RequestDebt
    <2>2. debt' = [debt EXCEPT ![k] = @ + Cost]
      <3>1. \A c \in Keys : Debt(c)' = IF c = k THEN Debt(c) + Cost ELSE Debt(c)
        BY <1>1, RequestDebt
      <3>2. QED
        BY <3>1
    <2>3. \E a \in {"served", "denied", "failed"} : answer' = [answer EXCEPT ![k] = a]
      BY <1>1 DEF GetSecret, Limited, Mismatch, ReadSecret, Answer
    <2>4. QED
      BY <2>1, <2>2, <2>3 DEF Promise!Grant
  <1>2. CASE ~Affords(k)
    <2>1. debt[k] + Cost > Full
      BY <1>2, RequestDebt, DebtType, CostAssumption, FullAssumption
    <2>2. debt' = debt
      <3>1. \A c \in Keys : Debt(c)' = Debt(c)
        BY <1>2, RequestDebt, DebtType
      <3>2. QED
        BY <3>1
    <2>3. answer' = [answer EXCEPT ![k] = "limited"]
      BY <1>2 DEF GetSecret, Limited, Mismatch, ReadSecret, Answer
    <2>4. QED
      BY <2>1, <2>2, <2>3 DEF Promise!Refuse
  <1>3. QED
    BY <1>1, <1>2

LEMMA StepAllowed ==
  ASSUME TypeOK, IdleIsFull, [Next]_vars
  PROVE  [Promise!Next]_(Promise!avars)
  <1> DEFINE debt == [c \in Keys |-> Debt(c)]
  <1>1. CASE Tick
    <2>1. debt' = [c \in Keys |-> IF debt[c] > 0 THEN debt[c] - 1 ELSE 0]
      BY <1>1, TickDebt
    <2>2. QED
      BY <1>1, <2>1 DEF Tick, Promise!Next, Promise!PayOff
  <1>2. CASE Restart
    <2>1. debt' = [c \in Keys |-> 0]
      BY <1>2, RestartDebt
    <2>2. QED
      BY <1>2, <2>1 DEF Restart, Promise!Next, Promise!Forgive
  <1>3. CASE Observe \/ UNCHANGED vars
    <2>1. debt' = debt /\ answer' = answer
      BY <1>3 DEF Observe, vars, Debt
    <2>2. QED
      BY <2>1 DEF Promise!avars
  <1>4. ASSUME NEW k \in Keys, GetSecret(k) PROVE Promise!Next
    BY <1>4, RequestAllowed DEF Promise!Next
  <1>5. QED
    BY <1>1, <1>2, <1>3, <1>4 DEF Next

\* Collecting idle buckets is not seen: a key is granted what a bucket kept for
\* good would grant it, and refused only what that would refuse.
THEOREM ImplementsAllowance == IdleIsFull => (Spec => AllowanceSpec)
  <1> SUFFICES ASSUME IdleIsFull PROVE Spec => AllowanceSpec
    OBVIOUS
  <1>1. Init => Promise!Init
    BY DEF Init, Promise!Init, Debt
  <1>2. TypeOK /\ [Next]_vars => [Promise!Next]_(Promise!avars)
    BY StepAllowed
  <1>3. QED
    BY <1>1, <1>2, TypeCorrect, PTL DEF Spec, AllowanceSpec, Promise!Spec
=============================================================================
