----------------------------- MODULE FrameStream -----------------------------
(***************************************************************************)
(* What read_frame promises its callers, with no buffer, no recv and no     *)
(* chunks: the connection is a byte sequence read at one position; each     *)
(* call delivers the next non-empty frame, says why there is none, or times *)
(* out and leaves the position where it was.                                *)
(***************************************************************************)
EXTENDS FrameCodec

VARIABLES wire,      \* all the bytes the server writes before it closes
          pos,       \* how many of them belong to frames already read
          out,       \* the payloads delivered, in order
          outcome    \* how the last call ended, "none" while it runs

vars == <<wire, pos, out, outcome>>

End == Len(wire)

Init == /\ wire \in Seq(Byte)
        /\ pos = 0
        /\ out = << >>
        /\ outcome = "none"

Ask == /\ outcome' = "none"
       /\ UNCHANGED <<wire, pos, out>>

Deliver == /\ outcome = "none"
           /\ HasFrame(wire, pos, End)
           /\ SizeAt(wire, pos) > 0
           /\ pos' = FrameEnd(wire, pos)
           /\ out' = Append(out, PayloadAt(wire, pos))
           /\ outcome' = "frame"
           /\ UNCHANGED wire

SkipEmpty == /\ outcome = "none"
             /\ HasFrame(wire, pos, End)
             /\ SizeAt(wire, pos) = 0
             /\ pos' = FrameEnd(wire, pos)
             /\ UNCHANGED <<wire, out, outcome>>

Refuse == /\ outcome = "none"
          /\ \/ outcome' = "timeout"
             \/ outcome' = "toobig" /\ Oversize(wire, pos, End)
             \/ outcome' = "eof" /\ pos = End
             \/ /\ outcome' = "truncated"
                /\ pos < End
                /\ ~ Oversize(wire, pos, End)
                /\ ~ HasFrame(wire, pos, End)
          /\ UNCHANGED <<wire, pos, out>>

Next == Ask \/ Deliver \/ SkipEmpty \/ Refuse

Spec == Init /\ [][Next]_vars
=============================================================================
