------------------------------ MODULE OneShot -------------------------------
(***************************************************************************)
(* What a staged upgrade promises of the host, without saying how. A       *)
(* password taken from a complete staging is good for one attempt; the     *)
(* attempt is made only when nothing of the staging is left on disk; and   *)
(* once it has succeeded nothing is ever staged on the host again. A       *)
(* staging that crosses an attempt may still be there after it.            *)
(***************************************************************************)
CONSTANTS Files, Credential

VARIABLES
  os,       \* "old" or "new"
  left,     \* the staged files there are
  secret,   \* the credential among them holds the password
  password, \* an attempt holds it
  crossed   \* a file was put under an attempt

ovars == <<os, left, secret, password, crossed>>

Init ==
  /\ os \in {"old", "new"}
  /\ left = {}
  /\ secret = FALSE
  /\ password = FALSE
  /\ crossed = FALSE

\* Created, filled or emptied again; under an attempt, it crosses it.
Put(f) ==
  /\ os = "old"
  /\ crossed' \in {crossed, TRUE}
  /\ password => crossed'
  /\ left' = left \cup {f}
  /\ IF f = Credential THEN secret' \in BOOLEAN ELSE secret' = secret
  /\ UNCHANGED <<os, password>>

Take ==
  /\ left = Files /\ secret
  /\ password' = TRUE
  /\ UNCHANGED <<os, left, secret, crossed>>

Clear(f) ==
  /\ left' = left \ {f}
  /\ secret' = (secret /\ f # Credential)
  /\ UNCHANGED <<os, password, crossed>>

\* The host goes down, or the attempt fails. What crossed the attempt is over
\* with it on a host still to be upgraded, or with nothing left.
Forget ==
  /\ password' = FALSE
  /\ crossed' \in {crossed, crossed /\ os = "new" /\ left # {}}
  /\ UNCHANGED <<os, left, secret>>

Upgrade ==
  /\ password /\ (crossed \/ left = {})
  /\ os' = "new" /\ password' = FALSE
  /\ crossed' = (crossed /\ left # {})
  /\ UNCHANGED <<left, secret>>

Next ==
  \/ \E f \in Files : Put(f) \/ Clear(f)
  \/ Take \/ Forget \/ Upgrade

Spec == Init /\ [][Next]_ovars
=============================================================================
