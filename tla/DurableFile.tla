----------------------------- MODULE DurableFile -----------------------------
(***************************************************************************)
(* What replacing a file promises, with inodes, temporary names and system *)
(* calls left out: a path always reads as one complete content (or as      *)
(* missing), and a power loss leaves one of the complete contents the path *)
(* had since it was last known to be durable.                              *)
(***************************************************************************)

CONSTANT Reading \* the complete contents of a file, and its absence

VARIABLES
  value, \* what the path reads as
  safe   \* what it may read as after a power loss, value among it

vars == <<value, safe>>

Init ==
  /\ value \in Reading
  /\ safe = {value}

\* Somebody, the tool or the user, gives the path another content, durably
\* or not.
Put(v) ==
  /\ value' = v
  /\ v \in safe'
  /\ safe' \subseteq safe \cup {v}

\* Some earlier contents are known to be gone for good.
Settle ==
  /\ value' = value
  /\ safe' \subseteq safe
  /\ value \in safe'

PowerLoss ==
  /\ value' \in safe
  /\ safe' = {value'}

Next ==
  \/ \E v \in Reading : Put(v)
  \/ Settle
  \/ PowerLoss

Spec == Init /\ [][Next]_vars
==============================================================================
