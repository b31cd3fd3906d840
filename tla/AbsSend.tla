------------------------------- MODULE AbsSend -------------------------------
(***************************************************************************)
(* What file send promises: the device file appears at most once and in one *)
(* step, and never once the caller has been refused.                        *)
(***************************************************************************)
EXTENDS Sequences

CONSTANTS Chunk, Absent

VARIABLES remote,   \* the device file
          outcome   \* "none" until send_file returns or raises

vars == <<remote, outcome>>

\* HdcServerError, HdcCommandError and HdcTimeoutError come before the tail.
Refused == {"server", "command", "timeout"}

\* These say nothing about the device: the caller has to look.
Unsure == {"ok", "protocol", "oserror"}

Init == remote = Absent /\ outcome = "none"

Store == /\ remote = Absent
         /\ outcome \notin Refused
         /\ remote' \in Seq(Chunk)
         /\ UNCHANGED outcome

Refuse == /\ outcome = "none"
          /\ remote = Absent
          /\ outcome' \in Refused
          /\ UNCHANGED remote

GiveUp == /\ outcome = "none"
          /\ outcome' \in Unsure
          /\ UNCHANGED remote

Next == Store \/ Refuse \/ GiveUp

Spec == Init /\ [][Next]_vars
=============================================================================
