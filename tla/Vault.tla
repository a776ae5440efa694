-------------------------------- MODULE Vault --------------------------------
(***************************************************************************)
(* What a domain promises to its user, with every mechanism left out.      *)
(*                                                                         *)
(* A holder of the password can read from each path of the working tree    *)
(* some text, or sees that the path is absent.  Only the user's own hand   *)
(* (an editor, git) may change that: encrypting, decrypting, rotating or   *)
(* pruning keys, failing half way and losing power are all invisible here. *)
(* `hand' counts the user's interventions, so that a step which does not   *)
(* advance it is a step of the tool or of the machine, and must stutter.   *)
(***************************************************************************)
EXTENDS Naturals

CONSTANTS
  File,   \* canonical relative paths of the domain
  Reading \* what a path may read as: a text, or its absence

VARIABLES
  says,   \* [File -> Reading]: what each path reads as
  hand    \* how many times the user has intervened

vars == <<says, hand>>

Init ==
  /\ says \in [File -> Reading]
  /\ hand = 0

\* The user edits, stashes, checks out or merges: any paths may read anew.
UserChanges ==
  /\ hand' = hand + 1
  /\ says' \in [File -> Reading]

Next == UserChanges

Spec == Init /\ [][Next]_vars
==============================================================================
