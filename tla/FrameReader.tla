----------------------------- MODULE FrameReader -----------------------------
(***************************************************************************)
(* _FrameReader.read_frame of hdcutils/_connection.py: frames are assembled *)
(* from whatever chunks recv returns, across calls and across timeouts.     *)
(*                                                                          *)
(* wire is the whole byte stream of the connection after the handshake; rd  *)
(* is how much of it recv has returned, and the reader's buffer _buf is     *)
(* what lies between start and rd.  A call runs from "scan", the top of the *)
(* loop, to "recv", blocked in the socket, and back, until it returns or    *)
(* raises.                                                                  *)
(***************************************************************************)
EXTENDS FrameCodec

CONSTANTS Streams,     \* the byte streams a server may write
          Written,     \* streams that encode_frame writes, with their payloads
          ChunkMax     \* the most one recv returns (65536 in the program)

ASSUME ReaderAssumption == /\ Streams \subseteq Seq(Byte)
                           /\ \A s \in Written : Encodes(s)
                           /\ ChunkMax \in Nat \ {0}

VARIABLES wire,      \* the bytes the server writes before it closes
          start,     \* wire position of the first byte of _buf
          rd,        \* bytes received so far: _buf ends here
          pc,        \* "idle" between calls, "scan" or "recv" within one
          timed,     \* the running call has a timeout (not None)
          result,    \* how the last call ended, "none" while one runs
          out        \* payloads returned so far (history)

vars == <<wire, start, rd, pc, timed, result, out>>

Outcomes == {"none", "frame", "timeout", "eof", "truncated", "toobig"}

TypeOK == /\ wire \in Streams
          /\ rd \in 0 .. Len(wire)
          /\ start \in 0 .. rd
          /\ pc \in {"idle", "scan", "recv"}
          /\ timed \in BOOLEAN
          /\ result \in Outcomes
          /\ out \in Seq(Payload)
-----------------------------------------------------------------------------
Init == /\ wire \in Streams
        /\ start = 0
        /\ rd = 0
        /\ pc = "idle"
        /\ timed = FALSE
        /\ result = "none"
        /\ out = << >>

Return(r) == pc' = "idle" /\ result' = r

\* read_frame(timeout): timeout is None exactly when t is FALSE.
ReadFrame(t) == /\ pc = "idle"
                /\ pc' = "scan"
                /\ timed' = t
                /\ result' = "none"
                /\ UNCHANGED <<wire, start, rd, out>>

\* The buffer announces more than MAX_FRAME_SIZE: raise, keep the buffer.
RaiseOversize == /\ pc = "scan"
                 /\ Oversize(wire, start, rd)
                 /\ Return("toobig")
                 /\ UNCHANGED <<wire, start, rd, timed, out>>

\* Mutant: the buffer is cut at buf[size:], the header forgotten.
ShortCutFrame == /\ pc = "scan"
                 /\ HasFrame(wire, start, rd)
                 /\ SizeAt(wire, start) > 0
                 /\ start' = start + SizeAt(wire, start)
                 /\ out' = Append(out, PayloadAt(wire, start))
                 /\ Return("frame")
                 /\ UNCHANGED <<wire, rd, timed>>

\* A whole frame is buffered: cut it off and return its payload.
CutFrame == /\ pc = "scan"
            /\ HasFrame(wire, start, rd)
            /\ SizeAt(wire, start) > 0
            /\ start' = FrameEnd(wire, start)
            /\ out' = Append(out, PayloadAt(wire, start))
            /\ Return("frame")
            /\ UNCHANGED <<wire, rd, timed>>

\* Mutant: an empty payload is returned, and its caller takes it for the end.
EndOnEmpty == /\ pc = "scan"
              /\ HasFrame(wire, start, rd)
              /\ SizeAt(wire, start) = 0
              /\ start' = FrameEnd(wire, start)
              /\ Return("eof")
              /\ UNCHANGED <<wire, rd, timed, out>>

\* An empty frame is cut off and the loop goes on.
SkipEmpty == /\ pc = "scan"
             /\ HasFrame(wire, start, rd)
             /\ SizeAt(wire, start) = 0
             /\ start' = FrameEnd(wire, start)
             /\ UNCHANGED <<wire, rd, pc, timed, result, out>>

\* Mutant: an incomplete frame goes back to the top of the loop.
SpinForMore == /\ pc = "scan"
               /\ ~ Oversize(wire, start, rd)
               /\ ~ HasFrame(wire, start, rd)
               /\ pc' = IF HasHeader(start, rd) THEN "scan" ELSE "recv"
               /\ UNCHANGED <<wire, start, rd, timed, result, out>>

\* No whole frame yet: block in recv.
NeedMore == /\ pc = "scan"
            /\ ~ Oversize(wire, start, rd)
            /\ ~ HasFrame(wire, start, rd)
            /\ pc' = "recv"
            /\ UNCHANGED <<wire, start, rd, timed, result, out>>

\* recv returns n bytes, which are appended to the buffer.
Receive(n) == /\ pc = "recv"
              /\ rd + n <= Len(wire)
              /\ rd' = rd + n
              /\ pc' = "scan"
              /\ UNCHANGED <<wire, start, timed, result, out>>

\* Mutant: a timeout throws the partial frame away.
ForgetOnTimeout == /\ pc = "recv"
                   /\ timed
                   /\ Return("timeout")
                   /\ start' = rd
                   /\ UNCHANGED <<wire, rd, timed, out>>

\* recv times out: raise, keep what is buffered for the next call.
RecvTimeout == /\ pc = "recv"
               /\ timed
               /\ Return("timeout")
               /\ UNCHANGED <<wire, start, rd, timed, out>>

\* Mutant: every end of the stream is a clean end.
LenientEof == /\ pc = "recv"
              /\ rd = Len(wire)
              /\ Return("eof")
              /\ UNCHANGED <<wire, start, rd, timed, out>>

\* recv returns b"": a clean end only when nothing is buffered.
RecvEof == /\ pc = "recv"
           /\ rd = Len(wire)
           /\ Return(IF start = rd THEN "eof" ELSE "truncated")
           /\ UNCHANGED <<wire, start, rd, timed, out>>

Scan     == RaiseOversize \/ CutFrame \/ SkipEmpty \/ NeedMore
SomeData == \E n \in 1 .. ChunkMax : Receive(n)
Call     == \E t \in BOOLEAN : ReadFrame(t)

Next == Call \/ Scan \/ SomeData \/ RecvTimeout \/ RecvEof
-----------------------------------------------------------------------------
(* Fairness.  The client's own steps and the socket timer are fair; the     *)
(* peer and the caller need not be.                                         *)

Spec == Init /\ [][Next]_vars /\ WF_vars(Scan) /\ WF_vars(RecvTimeout)

Ended == result \in {"eof", "truncated", "toobig"}
-----------------------------------------------------------------------------
(* Properties.                                                              *)

\* A reader blocked in recv really lacks bytes: read_frame never waits for
\* the network while it holds a whole frame or a header it must refuse.
NeverWaitsOnAFrame ==
    pc = "recv" => /\ ~ Oversize(wire, start, rd)
                   /\ ~ HasFrame(wire, start, rd)

\* The payloads returned are disjoint, in stream order, each behind the
\* header that announces its length: no chunk boundary, timeout or retried
\* call makes read_frame lose its place between two frames.
Framed ==
    /\ TypeOK
    /\ \A i \in 1 .. Len(out) :
          /\ out[i].from \in HeaderLen .. Len(wire)
          /\ out[i] = PayloadAt(wire, out[i].from - HeaderLen)
          /\ out[i].to > out[i].from
          /\ out[i].to <= start
    /\ \A i, j \in 1 .. Len(out) :
          i < j => out[i].to + HeaderLen <= out[j].from

\* A clean end of stream is reported only when every byte the server wrote
\* belongs to a frame already read, a truncated tail only when some do not.
EndIsHonest == /\ result = "eof"       => start = Len(wire)
               /\ result = "truncated" => start < Len(wire)

\* What a peer writes with encode_frame comes back from read_frame: the
\* payloads returned so far are the non-empty ones of the frames before start,
\* each once and in order, and the connection, when it ends, ends cleanly and
\* with all of them returned.
RoundTrip ==
    \A s \in Written : wire = s.bytes =>
        LET full == {i \in DOMAIN s.payloads : s.payloads[i] # << >>}
            read == {i \in full : s.at[i + 1] <= start}
            of(j) == {i \in read : s.at[i] + HeaderLen = out[j].from}
        IN  /\ \A j \in DOMAIN out :
                  \E i \in of(j) : SubSeq(wire, out[j].from + 1, out[j].to) = s.payloads[i]
            /\ \A i \in read : \E j \in DOMAIN out : i \in of(j)
            /\ \A j, k \in DOMAIN out : j < k => out[j].from < out[k].from
            /\ Ended => result = "eof" /\ read = full

\* The reader implements the chunk-free stream of frames: whatever recv
\* returns and however often a call times out, each call has an outcome that
\* the frames of the byte stream alone explain.
Abs == INSTANCE FrameStream WITH pos <- start, outcome <- result
AbsSpec == Abs!Spec

\* A call with a timeout returns even when the peer stops sending in the
\* middle of a frame: the loop never spins on an incomplete frame.
TimedCallReturns == (pc # "idle" /\ timed) ~> (pc = "idle")
=============================================================================
