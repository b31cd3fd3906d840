------------------------------- MODULE AbsRecv -------------------------------
(***************************************************************************)
(* What file recv promises of the local target: it is emptied once, when    *)
(* the device has the file, it grows chunk by chunk in the file's order, it *)
(* is acknowledged once, when it is whole, and nobody touches it after      *)
(* that, or after recv_file has returned or raised.                         *)
(***************************************************************************)
EXTENDS Naturals, Sequences

CONSTANT Old        \* what the target held before

VARIABLES source,   \* the device file
          dest,     \* the local target
          found,    \* the client has read that the device has the file
          acked,    \* the client has acknowledged a complete file
          outcome   \* "none" until recv_file returns or raises

vars == <<source, dest, found, acked, outcome>>

Ends == {"ok", "command", "timeout", "protocol", "oserror", "valueerror"}

Init == dest = Old /\ ~ found /\ ~ acked /\ outcome = "none"

\* Emptied, also when the answer to the device cannot be sent; or the target
\* cannot be opened.
Open == /\ outcome = "none" /\ ~ found
        /\ found'
        /\ \/ dest' = << >> /\ outcome' \in {"none", "oserror"}
           \/ dest' = dest  /\ outcome' = "oserror"
        /\ UNCHANGED <<source, acked>>

Write == /\ outcome = "none" /\ found /\ ~ acked
         /\ Len(dest) < Len(source)
         /\ dest' = Append(dest, source[Len(dest) + 1])
         /\ UNCHANGED <<source, found, acked, outcome>>

Acknowledge == /\ outcome = "none" /\ ~ acked
               /\ dest = source
               /\ acked'
               /\ UNCHANGED <<source, dest, found, outcome>>

End == /\ outcome = "none"
       /\ outcome' \in Ends
       /\ UNCHANGED <<source, dest, found, acked>>

Next == Open \/ Write \/ Acknowledge \/ End

Spec == Init /\ [][Next]_vars
=============================================================================
