------------------------------- MODULE AbsApp -------------------------------
(***************************************************************************)
(* What install and uninstall promise: the bundle manager runs once at      *)
(* most, and neither after the caller was told of a command error nor, if   *)
(* it did what was asked, before that.                                      *)
(***************************************************************************)

VARIABLES bundle,   \* "pending" until the bundle manager has run
          outcome   \* "none" until the call returns or raises

vars == <<bundle, outcome>>

\* These say nothing about the device: the caller has to look.
Unsure == {"ok", "server", "timeout", "protocol", "oserror"}

Init == bundle = "pending" /\ outcome = "none"

Run == /\ bundle = "pending"
       /\ outcome # "command"
       /\ bundle' \in {"done", "failed"}
       /\ UNCHANGED outcome

\* HdcCommandError is final.
Refuse == /\ outcome = "none"
          /\ bundle # "done"
          /\ outcome' = "command"
          /\ UNCHANGED bundle

GiveUp == /\ outcome = "none"
          /\ outcome' \in Unsure
          /\ UNCHANGED bundle

Next == Run \/ Refuse \/ GiveUp

Spec == Init /\ [][Next]_vars
=============================================================================
