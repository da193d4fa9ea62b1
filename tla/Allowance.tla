----------------------------- MODULE Allowance ------------------------------
(***************************************************************************)
(* What a rate limit promises each key, without saying what is remembered: *)
(* a granted request costs Cost ticks of debt, time pays one off per tick, *)
(* no key is ever more than Full ticks in debt, and none is refused that   *)
(* could still afford a request.                                           *)
(***************************************************************************)
EXTENDS Integers

CONSTANTS Keys, Cost, Full

VARIABLES
  debt,    \* ticks until the key has its whole burst again
  answer   \* each key's last answer

avars == <<debt, answer>>

Init ==
  /\ debt = [k \in Keys |-> 0]
  /\ answer = [k \in Keys |-> "none"]

Grant(k) ==
  /\ debt[k] + Cost <= Full
  /\ debt' = [debt EXCEPT ![k] = @ + Cost]
  /\ \E a \in {"served", "denied", "failed"} : answer' = [answer EXCEPT ![k] = a]

Refuse(k) ==
  /\ debt[k] + Cost > Full
  /\ answer' = [answer EXCEPT ![k] = "limited"]
  /\ UNCHANGED debt

PayOff ==
  /\ debt' = [k \in Keys |-> IF debt[k] > 0 THEN debt[k] - 1 ELSE 0]
  /\ UNCHANGED answer

\* The broker's instance is replaced; what it remembered is gone.
Forgive ==
  /\ debt' = [k \in Keys |-> 0]
  /\ UNCHANGED answer

Next ==
  \/ \E k \in Keys : Grant(k) \/ Refuse(k)
  \/ PayOff \/ Forgive

Spec == Init /\ [][Next]_avars
=============================================================================
