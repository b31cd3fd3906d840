----------------------------- MODULE FrameCodec -----------------------------
(***************************************************************************)
(* The frame layout of the hdc client protocol: both directions carry       *)
(* frames of a 4-byte big-endian length and that many payload bytes         *)
(* (hdcutils/_proto.py, encode_frame and decode_frame).                     *)
(*                                                                          *)
(* A byte is a number below Base, 256 in the program.  A smaller Base gives *)
(* TLC the same layout with fewer byte values.  A position p of a byte      *)
(* sequence w is the number of bytes before it, so the header of the frame  *)
(* that begins at p is w[p+1] .. w[p+4].                                    *)
(***************************************************************************)
EXTENDS Naturals, Sequences

CONSTANTS Base,          \* number of byte values
          MaxFrameSize   \* MAX_FRAME_SIZE

ASSUME CodecAssumption == /\ Base \in Nat /\ Base > 1
                          /\ MaxFrameSize \in Nat
                          /\ MaxFrameSize < Base * (Base * (Base * Base))

Byte == 0 .. Base - 1

HeaderLen == 4

\* int.from_bytes(w[p : p+4], "big")
SizeAt(w, p) ==
    ((w[p + 1] * Base + w[p + 2]) * Base + w[p + 3]) * Base + w[p + 4]

\* struct.pack(">I", n)
HeaderOf(n) == << (((n \div Base) \div Base) \div Base) % Base,
                  ((n \div Base) \div Base) % Base,
                  (n \div Base) % Base,
                  n % Base >>

\* encode_frame of a payload within MAX_FRAME_SIZE
EncodeFrame(payload) == HeaderOf(Len(payload)) \o payload

FrameEnd(w, p) == p + HeaderLen + SizeAt(w, p)

\* The bytes of s are its payloads, written one after the other with encode_frame:
\* the i-th frame lies between at[i] and at[i + 1].
Encodes(s) ==
    LET n == Len(s.payloads)
    IN  /\ s.payloads \in Seq(Seq(Byte)) /\ s.bytes \in Seq(Byte)
        /\ s.at \in [1 .. n + 1 -> Nat] /\ s.at[1] = 0 /\ s.at[n + 1] = Len(s.bytes)
        /\ \A i \in 1 .. n : /\ Len(s.payloads[i]) <= MaxFrameSize
                             /\ SubSeq(s.bytes, s.at[i] + 1, s.at[i + 1])
                                   = EncodeFrame(s.payloads[i])
        /\ \A i, j \in 1 .. n + 1 : i < j => s.at[i] < s.at[j]

\* Of the bytes between p and to: is there a header, one that announces too
\* much, and a whole frame?
HasHeader(p, to)    == to >= p + HeaderLen
Oversize(w, p, to)  == HasHeader(p, to) /\ SizeAt(w, p) > MaxFrameSize

\* Mutant: a header is taken for a whole frame.
HeaderOnlyHasFrame(w, p, to) == HasHeader(p, to) /\ ~ Oversize(w, p, to)

HasFrame(w, p, to)  == /\ HasHeader(p, to)
                       /\ ~ Oversize(w, p, to)
                       /\ to >= FrameEnd(w, p)

\* The payload of the frame at p, as the pair of positions it lies between.
Payload == [from : Nat, to : Nat]
PayloadAt(w, p) == [from |-> p + HeaderLen, to |-> FrameEnd(w, p)]
=============================================================================
