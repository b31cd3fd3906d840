----------------------------- MODULE WireProofs -----------------------------
(***************************************************************************)
(* Proofs about what goes over the wire: FrameReader, for every byte        *)
(* alphabet, frame size limit, chunk size and set of streams, and           *)
(* MessageWire, for every set of messages.                                  *)
(***************************************************************************)
EXTENDS FrameReader, MessageWire, SequenceTheorems, TLAPS

\* Bytes make a size: the header of four bytes inside a stream announces a
\* natural number, so a frame never ends before its own header.
LEMMA SizeIsNat ==
    ASSUME NEW w \in Seq(Byte), NEW p \in Nat, p + HeaderLen <= Len(w)
    PROVE  /\ SizeAt(w, p) \in Nat
           /\ FrameEnd(w, p) \in Nat
           /\ FrameEnd(w, p) >= p + HeaderLen
<1> DEFINE a == w[p + 1]
           b == w[p + 2]
           c == w[p + 3]
           d == w[p + 4]
<1>0. \A i \in 1 .. Len(w) : w[i] \in Nat
  BY CodecAssumption DEF Byte
<1>1. a \in Nat /\ b \in Nat /\ c \in Nat /\ d \in Nat
  BY <1>0 DEF HeaderLen
<1>2. \A m, n \in Nat : m * Base + n \in Nat
  BY CodecAssumption
<1> HIDE DEF a, b, c, d
<1>3. a * Base + b \in Nat
  BY <1>1, <1>2
<1>4. (a * Base + b) * Base + c \in Nat
  BY <1>1, <1>2, <1>3
<1>5. ((a * Base + b) * Base + c) * Base + d \in Nat
  BY <1>1, <1>2, <1>4
<1>6. SizeAt(w, p) \in Nat
  BY <1>5 DEF SizeAt, a, b, c, d
<1> QED
  BY <1>6 DEF FrameEnd, HeaderLen

\* What encode_frame writes, read_frame reads: the header of a size that four
\* bytes can hold announces that size.
THEOREM HeaderRoundTrip ==
    ASSUME NEW n \in Nat, n < Base * (Base * (Base * Base))
    PROVE  SizeAt(HeaderOf(n), 0) = n
<1> DEFINE q1 == n \div Base
           q2 == q1 \div Base
           q3 == q2 \div Base
<1>1. /\ Base \in Nat
      /\ Base > 1
  BY CodecAssumption
<1>2. \A m \in Nat : /\ m \div Base \in Nat
                     /\ m % Base \in Nat
                     /\ m = (m \div Base) * Base + (m % Base)
  BY <1>1
<1>3. \A m \in Nat, k \in Nat : m < Base * k => m \div Base < k
  <2> SUFFICES ASSUME NEW m \in Nat, NEW k \in Nat, m < Base * k,
                      m \div Base >= k
               PROVE  FALSE
    BY <1>1, <1>2
  <2>1. (m \div Base) * Base >= k * Base
    BY <1>1, <1>2
  <2> QED
    BY <1>1, <1>2, <2>1
<1>4. q1 \in Nat /\ q2 \in Nat /\ q3 \in Nat
  BY <1>2
<1>5. /\ n = q1 * Base + (n % Base)
      /\ q1 = q2 * Base + (q1 % Base)
      /\ q2 = q3 * Base + (q2 % Base)
  BY <1>2, <1>4
<1>6. q3 < Base
  <2>1. Base * Base \in Nat /\ Base * (Base * Base) \in Nat
    BY <1>1
  <2>2. q1 < Base * (Base * Base)
    BY <1>3, <2>1
  <2>3. q2 < Base * Base
    BY <1>3, <1>4, <2>1, <2>2
  <2> QED
    BY <1>1, <1>3, <1>4, <2>3
<1>7. q3 % Base = q3
  BY <1>1, <1>4, <1>6
<1> HIDE DEF q1, q2, q3
<1>8. SizeAt(HeaderOf(n), 0)
        = (((q3 % Base) * Base + (q2 % Base)) * Base + (q1 % Base)) * Base
            + (n % Base)
  BY DEF SizeAt, HeaderOf, q1, q2, q3
<1> QED
  BY <1>5, <1>7, <1>8

\* A frame that is whole in a part of the stream ends inside that part, and is
\* the same frame in any longer part.
LEMMA WholeFrame ==
    ASSUME NEW w \in Seq(Byte), NEW p \in Nat, NEW to \in 0 .. Len(w),
           HasFrame(w, p, to)
    PROVE  /\ SizeAt(w, p) \in Nat
           /\ FrameEnd(w, p) \in p + HeaderLen .. to
           /\ HasFrame(w, p, Len(w))
<1>1. p + HeaderLen <= to
  BY DEF HasFrame, HasHeader
<1>2. /\ SizeAt(w, p) \in Nat
      /\ FrameEnd(w, p) \in Nat
      /\ FrameEnd(w, p) >= p + HeaderLen
  BY <1>1, SizeIsNat DEF HeaderLen
<1>3. FrameEnd(w, p) <= to
  BY <1>2 DEF HasFrame
<1>4. HasFrame(w, p, Len(w))
  BY <1>1, <1>2, <1>3 DEF HasFrame, HasHeader, Oversize, HeaderLen
<1> QED
  BY <1>2, <1>3, <1>4 DEF HeaderLen
-----------------------------------------------------------------------------
(* Type correctness.                                                        *)

\* Whatever the server writes, wire is a sequence of bytes.
LEMMA WireIsBytes == ASSUME TypeOK PROVE wire \in Seq(Byte)
  BY ReaderAssumption DEF TypeOK

LEMMA InitType == Init => TypeOK
<1> SUFFICES ASSUME Init PROVE TypeOK
  OBVIOUS
<1>1. Len(wire) \in Nat
  BY ReaderAssumption DEF Init
<1>2. wire \in Streams /\ out \in Seq(Payload)
  BY DEF Init
<1>3. rd \in 0 .. Len(wire) /\ start \in 0 .. rd
  BY <1>1 DEF Init
<1>4. pc \in {"idle", "scan", "recv"} /\ timed \in BOOLEAN /\ result \in Outcomes
  BY DEF Init, Outcomes
<1> QED
  BY <1>2, <1>3, <1>4 DEF TypeOK

LEMMA NextType == TypeOK /\ [Next]_vars => TypeOK'
<1> SUFFICES ASSUME TypeOK, [Next]_vars PROVE TypeOK'
  OBVIOUS
<1> USE DEF TypeOK, Outcomes, Return
<1>0. wire \in Seq(Byte) /\ Len(wire) \in Nat
  BY WireIsBytes
<1>1. CASE Call
  BY <1>1 DEF Call, ReadFrame
<1>2. CASE RaiseOversize
  BY <1>2 DEF RaiseOversize
<1>3. CASE CutFrame
  <2>1. /\ SizeAt(wire, start) \in Nat
        /\ FrameEnd(wire, start) \in start + HeaderLen .. rd
    BY <1>0, <1>3, WholeFrame DEF CutFrame
  <2>2. PayloadAt(wire, start) \in Payload
    BY <2>1, <1>0 DEF PayloadAt, Payload, HeaderLen
  <2>3. start' \in 0 .. rd /\ out' \in Seq(Payload)
    BY <1>0, <1>3, <2>1, <2>2 DEF CutFrame, HeaderLen
  <2> QED
    BY <1>3, <2>3 DEF CutFrame
<1>4. CASE SkipEmpty
  <2>1. FrameEnd(wire, start) \in start + HeaderLen .. rd
    BY <1>0, <1>4, WholeFrame DEF SkipEmpty
  <2> QED
    BY <1>0, <1>4, <2>1 DEF SkipEmpty, HeaderLen
<1>5. CASE NeedMore
  BY <1>5 DEF NeedMore
<1>6. CASE SomeData
  BY <1>0, <1>6, ReaderAssumption DEF SomeData, Receive
<1>7. CASE RecvTimeout
  BY <1>7 DEF RecvTimeout
<1>8. CASE RecvEof
  BY <1>8 DEF RecvEof
<1>9. CASE UNCHANGED vars
  BY <1>9 DEF vars
<1> QED
  BY <1>1, <1>2, <1>3, <1>4, <1>5, <1>6, <1>7, <1>8, <1>9 DEF Next, Scan

-----------------------------------------------------------------------------
(* Framing.                                                                 *)

LEMMA PayloadsTyped ==
    ASSUME TypeOK
    PROVE  \A i \in 1 .. Len(out) : out[i].from \in Nat /\ out[i].to \in Nat
<1> TAKE i \in 1 .. Len(out)
<1>0. out \in Seq(Payload)
  BY DEF TypeOK
<1>1. out[i] \in Payload
  BY <1>0
<1> QED
  BY <1>1 DEF Payload

\* Framed holds of the bytes already cut off, so cutting the next frame, which
\* begins at start, keeps it.
LEMMA CutKeepsFramed ==
    ASSUME TypeOK, TypeOK', Framed, CutFrame
    PROVE  Framed'
<1> DEFINE p == PayloadAt(wire, start)
           n == Len(out)
<1>0. /\ wire \in Seq(Byte)
      /\ Len(wire) \in Nat
      /\ start \in Nat
      /\ rd \in 0 .. Len(wire)
      /\ out \in Seq(Payload)
      /\ n \in Nat
  BY WireIsBytes DEF TypeOK
<1>1. /\ SizeAt(wire, start) \in Nat
      /\ SizeAt(wire, start) > 0
      /\ FrameEnd(wire, start) \in start + HeaderLen .. rd
  BY <1>0, WholeFrame DEF CutFrame
<1>2. /\ wire' = wire
      /\ start' = FrameEnd(wire, start)
      /\ out' = Append(out, p)
      /\ start' >= start
  BY <1>0, <1>1 DEF CutFrame, HeaderLen
<1>3. /\ Len(out') = n + 1
      /\ out'[n + 1] = p
      /\ \A i \in 1 .. n : out'[i] = out[i]
  BY <1>0, <1>2
<1>4. /\ p.from = start + HeaderLen
      /\ p.to = start'
      /\ p.to > p.from
      /\ p.from \in HeaderLen .. Len(wire)
      /\ p = PayloadAt(wire, p.from - HeaderLen)
  BY <1>0, <1>1, <1>2 DEF PayloadAt, FrameEnd, HeaderLen
<1>5. \A i \in 1 .. n : /\ out[i].from \in Nat
                        /\ out[i].to \in Nat
                        /\ out[i].to <= start
  BY PayloadsTyped DEF Framed
<1>6. \A i \in 1 .. Len(out') :
          /\ out'[i].from \in HeaderLen .. Len(wire')
          /\ out'[i] = PayloadAt(wire', out'[i].from - HeaderLen)
          /\ out'[i].to > out'[i].from
          /\ out'[i].to <= start'
  <2> TAKE i \in 1 .. Len(out')
  <2>1. CASE i = n + 1
    BY <2>1, <1>0, <1>1, <1>2, <1>3, <1>4 DEF HeaderLen
  <2>2. CASE i \in 1 .. n
    <3>1. /\ out[i].from \in HeaderLen .. Len(wire)
          /\ out[i] = PayloadAt(wire, out[i].from - HeaderLen)
          /\ out[i].to > out[i].from
      BY <2>2 DEF Framed
    <3>2. out[i].to <= start'
      BY <2>2, <1>0, <1>1, <1>2, <1>5 DEF HeaderLen
    <3> QED
      BY <2>2, <3>1, <3>2, <1>2, <1>3
  <2> QED
    BY <2>1, <2>2, <1>0, <1>3
<1>7. \A i, j \in 1 .. Len(out') :
          i < j => out'[i].to + HeaderLen <= out'[j].from
  <2> TAKE i, j \in 1 .. Len(out')
  <2> HAVE i < j
  <2>0. Len(out') = n + 1 /\ n \in Nat
    BY <1>0, <1>3
  <2>1. i \in 1 .. n /\ (j = n + 1 \/ j \in 1 .. n)
    BY <2>0
  <2>2. CASE j = n + 1
    <3>1. out'[i].to \in Nat /\ out'[i].to <= start
      BY <2>1, <1>3, <1>5
    <3>2. out'[j].from = start + HeaderLen
      BY <2>2, <1>3, <1>4
    <3> QED
      BY <3>1, <3>2, <1>0 DEF HeaderLen
  <2>3. CASE j \in 1 .. n
    BY <2>1, <2>3, <1>3 DEF Framed
  <2> QED
    BY <2>1, <2>2, <2>3
<1> QED
  BY <1>6, <1>7 DEF Framed

LEMMA NextFramed == Framed /\ [Next]_vars => Framed'
<1> SUFFICES ASSUME TypeOK, Framed, [Next]_vars PROVE Framed'
  BY DEF Framed
<1>t. TypeOK'
  BY NextType
<1>0. /\ wire \in Seq(Byte)
      /\ Len(wire) \in Nat
      /\ start \in Nat
      /\ rd \in 0 .. Len(wire)
      /\ out \in Seq(Payload)
  BY WireIsBytes DEF TypeOK
<1>1. CASE CutFrame
  BY <1>1, <1>t, CutKeepsFramed
<1>2. CASE SkipEmpty
  <2>1. /\ wire' = wire
        /\ out' = out
        /\ start' \in start + HeaderLen .. rd
    BY <1>0, <1>2, WholeFrame DEF SkipEmpty
  <2>2. \A i \in 1 .. Len(out) : out[i].to \in Nat /\ out[i].to <= start
    BY PayloadsTyped DEF Framed
  <2>3. start' \in Nat /\ start' >= start
    BY <1>0, <2>1 DEF HeaderLen
  <2>4. \A i \in 1 .. Len(out) : out[i].to <= start'
    BY <1>0, <2>2, <2>3
  <2> QED
    BY <1>t, <2>1, <2>4 DEF Framed
<1>3. CASE UNCHANGED <<wire, start, out>>
  BY <1>3, <1>t DEF Framed
<1> QED
  BY <1>1, <1>2, <1>3
     DEF Next, Call, ReadFrame, Scan, RaiseOversize, NeedMore, SomeData,
         Receive, RecvTimeout, RecvEof, vars

LEMMA InitFramed == Init => Framed
  BY InitType DEF Init, Framed

\* No chunk boundary, timeout or repeated call makes read_frame lose its place:
\* what it returned are disjoint frames of the stream, in order, and _buf never
\* starts past the bytes received (TypeOK).
THEOREM FramingCorrect == Spec => []Framed
BY InitFramed, NextFramed, PTL DEF Spec
-----------------------------------------------------------------------------
(* The outcomes of a call, and the refinement of FrameStream.               *)

\* The strengthening that EndIsHonest and the refinement need: a reader blocked
\* in recv really lacks bytes, and no outcome is recorded while a call runs.
EndInv == /\ TypeOK
          /\ NeverWaitsOnAFrame
          /\ EndIsHonest
          /\ pc # "idle" => result = "none"

LEMMA InitEnd == Init => EndInv
  BY InitType DEF Init, EndInv, NeverWaitsOnAFrame, EndIsHonest

LEMMA NextEnd == EndInv /\ [Next]_vars => EndInv'
<1> SUFFICES ASSUME EndInv, [Next]_vars PROVE EndInv'
  OBVIOUS
<1>0. TypeOK /\ TypeOK'
  BY NextType DEF EndInv
<1> USE DEF EndInv, NeverWaitsOnAFrame, EndIsHonest, Return
<1>1. CASE Call
  BY <1>0, <1>1 DEF Call, ReadFrame
<1>2. CASE RaiseOversize
  BY <1>0, <1>2 DEF RaiseOversize
<1>3. CASE CutFrame
  BY <1>0, <1>3 DEF CutFrame
<1>4. CASE SkipEmpty
  BY <1>0, <1>4 DEF SkipEmpty
<1>5. CASE NeedMore
  BY <1>0, <1>5 DEF NeedMore
<1>6. CASE SomeData
  BY <1>0, <1>6 DEF SomeData, Receive
<1>7. CASE RecvTimeout
  BY <1>0, <1>7 DEF RecvTimeout
<1>8. CASE RecvEof
  BY <1>0, <1>8 DEF RecvEof, TypeOK
<1>9. CASE UNCHANGED vars
  BY <1>0, <1>9 DEF vars
<1> QED
  BY <1>1, <1>2, <1>3, <1>4, <1>5, <1>6, <1>7, <1>8, <1>9 DEF Next, Scan

\* read_frame reports a clean end of the stream exactly when nothing the
\* server wrote is left over, and a truncated tail only when something is.
THEOREM EndCorrect == Spec => []EndIsHonest
<1>1. EndInv => EndIsHonest
  BY DEF EndInv
<1> QED
  BY <1>1, InitEnd, NextEnd, PTL DEF Spec

\* FrameStream reads frames with the same codec.
LEMMA SameCodec ==
    \A w, p, to :
        /\ Abs!HasFrame(w, p, to) = HasFrame(w, p, to)
        /\ Abs!Oversize(w, p, to) = Oversize(w, p, to)
        /\ Abs!SizeAt(w, p) = SizeAt(w, p)
        /\ Abs!FrameEnd(w, p) = FrameEnd(w, p)
        /\ Abs!PayloadAt(w, p) = PayloadAt(w, p)
  BY DEF Abs!HasFrame, Abs!HasHeader, Abs!Oversize, Abs!SizeAt,
         Abs!FrameEnd, Abs!PayloadAt, Abs!HeaderLen, HasFrame, HasHeader,
         Oversize, SizeAt, FrameEnd, PayloadAt, HeaderLen

LEMMA RefinesInit == Init => Abs!Init
  BY ReaderAssumption DEF Init, Abs!Init, Byte, Abs!Byte

LEMMA RefinesStep == EndInv /\ [Next]_vars => [Abs!Next]_(Abs!vars)
<1> SUFFICES ASSUME EndInv, [Next]_vars PROVE Abs!Next \/ UNCHANGED Abs!vars
  OBVIOUS
<1> USE DEF Return, Abs!vars, Abs!End
<1>0. /\ TypeOK
      /\ wire \in Seq(Byte)
      /\ rd \in 0 .. Len(wire)
      /\ start \in Nat
      /\ Len(wire) \in Nat
  BY WireIsBytes DEF EndInv, TypeOK
<1>1. CASE Call
  BY <1>1 DEF Call, ReadFrame, Abs!Next, Abs!Ask
<1>2. CASE RaiseOversize
  <2>1. Oversize(wire, start, Len(wire))
    BY <1>0, <1>2 DEF RaiseOversize, Oversize, HasHeader, HeaderLen
  <2> QED
    BY <1>2, <2>1, SameCodec DEF RaiseOversize, EndInv, Abs!Next, Abs!Refuse
<1>3. CASE CutFrame
  <2>1. HasFrame(wire, start, Len(wire))
    BY <1>0, <1>3, WholeFrame DEF CutFrame
  <2> QED
    BY <1>3, <2>1, SameCodec DEF CutFrame, EndInv, Abs!Next, Abs!Deliver
<1>4. CASE SkipEmpty
  <2>1. HasFrame(wire, start, Len(wire))
    BY <1>0, <1>4, WholeFrame DEF SkipEmpty
  <2> QED
    BY <1>4, <2>1, SameCodec DEF SkipEmpty, EndInv, Abs!Next, Abs!SkipEmpty
<1>5. CASE NeedMore
  BY <1>5 DEF NeedMore
<1>6. CASE SomeData
  BY <1>6 DEF SomeData, Receive
<1>7. CASE RecvTimeout
  BY <1>7 DEF RecvTimeout, EndInv, Abs!Next, Abs!Refuse
<1>8. CASE RecvEof
  <2>1. ~ Oversize(wire, start, Len(wire)) /\ ~ HasFrame(wire, start, Len(wire))
    BY <1>8 DEF RecvEof, EndInv, NeverWaitsOnAFrame
  <2>2. result = "none" /\ rd = Len(wire) /\ UNCHANGED <<wire, start, out>>
    BY <1>8 DEF RecvEof, EndInv
  <2>3. CASE start = rd
    BY <1>8, <2>2, <2>3 DEF RecvEof, Abs!Next, Abs!Refuse
  <2>4. CASE start # rd
    <3>1. start < Len(wire)
      BY <1>0, <2>2, <2>4 DEF TypeOK
    <3>2. result' = "truncated"
      BY <1>8, <2>4 DEF RecvEof
    <3>3. /\ ~ Abs!Oversize(wire, start, Len(wire))
          /\ ~ Abs!HasFrame(wire, start, Len(wire))
      BY <2>1, SameCodec
    <3> QED
      BY <2>2, <3>1, <3>2, <3>3 DEF Abs!Next, Abs!Refuse
  <2> QED
    BY <2>3, <2>4
<1>9. CASE UNCHANGED vars
  BY <1>9 DEF vars
<1> QED
  BY <1>1, <1>2, <1>3, <1>4, <1>5, <1>6, <1>7, <1>8, <1>9 DEF Next, Scan

\* The buffered, chunked, restartable reader implements the plain stream of
\* frames: chunks and timeouts are invisible to the callers of read_frame.
THEOREM ReaderRefinesStream == Spec => AbsSpec
  BY InitEnd, NextEnd, RefinesInit, RefinesStep, PTL
     DEF Spec, AbsSpec, Abs!Spec
-----------------------------------------------------------------------------
(* What encode_frame has written.                                           *)

\* A header and a payload somewhere in a stream are a frame there.
LEMMA Slice ==
    ASSUME NEW S, NEW w \in Seq(S), NEW i \in Nat, NEW j \in Nat, i <= j, j <= Len(w)
    PROVE  /\ SubSeq(w, i + 1, j) \in Seq(S)
           /\ Len(SubSeq(w, i + 1, j)) = j - i
           /\ \A k \in 1 .. j - i : SubSeq(w, i + 1, j)[k] = w[i + k]
<1>1. i + 1 \in Nat /\ j - i \in Nat /\ Len(w) \in Nat /\ j - (i + 1) + 1 = j - i
  OBVIOUS
<1>2. SubSeq(w, i + 1, j) = [k \in 1 .. j - i |-> w[i + k]]
  BY <1>1
<1>3. \A k \in 1 .. j - i : i + k \in 1 .. Len(w)
  BY <1>1
<1>4. \A k \in 1 .. j - i : w[i + k] \in S
  BY <1>3
<1> DEFINE f == [k \in 1 .. j - i |-> w[i + k]]
<1>5. f \in Seq(S) /\ Len(f) = j - i /\ \A k \in 1 .. j - i : f[k] = w[i + k]
  <2>1. f \in [1 .. j - i -> S]
    BY <1>4
  <2> QED BY <1>1, <2>1
<1> QED BY <1>2, <1>5

\* The bytes of one frame, wherever they are in a stream.
LEMMA FrameThere ==
    ASSUME NEW b \in Seq(Byte), NEW x \in Seq(Byte), NEW p \in Nat, NEW q \in Nat,
           p < q, q <= Len(b), Len(x) <= MaxFrameSize,
           SubSeq(b, p + 1, q) = EncodeFrame(x)
    PROVE  /\ q = p + HeaderLen + Len(x)
           /\ SizeAt(b, p) = Len(x)
           /\ SubSeq(b, p + HeaderLen + 1, q) = x
<1> DEFINE h == HeaderOf(Len(x))
           f == h \o x
<1>0. Len(x) \in Nat /\ Len(b) \in Nat
  OBVIOUS
<1>1. h \in Seq(Nat) /\ Len(h) = 4 /\ x \in Seq(Nat)
  <2>0. Base \in Nat /\ Base > 0
    BY CodecAssumption
  <2>1. \A m \in Nat : m \div Base \in Nat /\ m % Base \in Nat
    BY <2>0
  <2>2. x \in Seq(Nat)
    BY CodecAssumption DEF Byte
  <2>3. \A m1, m2, m3, m4 \in Nat : /\ <<m1, m2, m3, m4>> \in Seq(Nat)
                                    /\ Len(<<m1, m2, m3, m4>>) = 4
    OBVIOUS
  <2>4. /\ (((Len(x) \div Base) \div Base) \div Base) % Base \in Nat
        /\ ((Len(x) \div Base) \div Base) % Base \in Nat
        /\ (Len(x) \div Base) % Base \in Nat /\ Len(x) % Base \in Nat
    BY Zenon, <1>0, <2>1
  <2> QED BY <2>2, <2>3, <2>4 DEF HeaderOf
<1> HIDE DEF h
<1>2. /\ Len(f) = 4 + Len(x)
      /\ \A k \in 1 .. 4 : f[k] = h[k]
      /\ \A k \in 1 .. Len(x) : f[k + 4] = x[k]
  <2>1. /\ Len(f) = Len(h) + Len(x)
        /\ \A k \in 1 .. Len(h) + Len(x) : f[k] = IF k <= Len(h) THEN h[k] ELSE x[k - Len(h)]
    BY <1>1, ConcatProperties
  <2> HIDE DEF f
  <2>2. \A k \in 1 .. Len(x) : k + 4 \in 1 .. 4 + Len(x) /\ ~ (k + 4 <= 4) /\ k + 4 - 4 = k
    BY <1>0
  <2>3. \A k \in 1 .. 4 : k \in 1 .. 4 + Len(x) /\ k <= 4
    BY <1>0
  <2> QED BY <1>1, <2>1, <2>2, <2>3
<1>3. SubSeq(b, p + 1, q) = f
  BY DEF EncodeFrame, h
<1> HIDE DEF f
<1>4. /\ Len(f) = q - p
      /\ \A k \in 1 .. q - p : b[p + k] = f[k]
  BY <1>0, <1>3, Slice
<1>5. q = p + HeaderLen + Len(x)
  <2>1. q - p = 4 + Len(x)
    BY <1>2, <1>4
  <2> QED BY <1>0, <2>1 DEF HeaderLen
<1>6. SizeAt(b, p) = Len(x)
  <2>1. b[p + 1] = h[1] /\ b[p + 2] = h[2] /\ b[p + 3] = h[3] /\ b[p + 4] = h[4]
    BY <1>0, <1>2, <1>4
  <2>2. SizeAt(b, p) = SizeAt(h, 0)
    BY <2>1 DEF SizeAt
  <2>3. Len(x) < Base * (Base * (Base * Base))
    <3>1. Base * (Base * (Base * Base)) \in Nat
      BY CodecAssumption
    <3> QED BY <1>0, <3>1, CodecAssumption
  <2> QED BY <1>0, <2>2, <2>3, HeaderRoundTrip DEF h
<1>7. SubSeq(b, p + HeaderLen + 1, q) = x
  <2> DEFINE t == SubSeq(b, p + HeaderLen + 1, q)
  <2>0. p + 4 \in Nat /\ p + 4 <= q /\ q - (p + 4) = Len(x) /\ t = SubSeq(b, (p + 4) + 1, q)
    BY <1>0, <1>5 DEF HeaderLen
  <2>1. /\ t \in Seq(Byte) /\ Len(t) = Len(x)
        /\ \A k \in 1 .. Len(x) : t[k] = b[p + 4 + k]
    <3> DEFINE o == p + 4
    <3>1. o \in Nat /\ o <= q /\ q - o = Len(x) /\ t = SubSeq(b, o + 1, q)
      BY <2>0
    <3> HIDE DEF o
    <3>2. /\ SubSeq(b, o + 1, q) \in Seq(Byte)
          /\ Len(SubSeq(b, o + 1, q)) = q - o
          /\ \A k \in 1 .. q - o : SubSeq(b, o + 1, q)[k] = b[o + k]
      BY <3>1, Slice
    <3> HIDE DEF t
    <3>3. t \in Seq(Byte) /\ Len(t) = Len(x) /\ \A k \in 1 .. Len(x) : t[k] = b[o + k]
      BY <3>1, <3>2
    <3> QED BY <3>3 DEF o
  <2>3. \A k \in 1 .. Len(x) : t[k] = x[k]
    <3> SUFFICES ASSUME NEW k \in 1 .. Len(x) PROVE t[k] = x[k]
      OBVIOUS
    <3>1. k + 4 \in 1 .. q - p /\ p + 4 + k = p + (k + 4)
      BY <1>0, <1>5 DEF HeaderLen
    <3>2. b[p + (k + 4)] = x[k]
      BY <1>2, <1>4, <3>1
    <3> QED BY <2>1, <3>1, <3>2
  <2> HIDE DEF t
  <2>5. t = x
    BY <2>1, <2>3, SeqEqual
  <2> QED BY <2>5 DEF t
<1> QED BY <1>5, <1>6, <1>7

\* The frames of a written stream are those that the reader finds at its cuts.
LEMMA WrittenFrames ==
    ASSUME NEW s \in Written
    PROVE  /\ Len(s.payloads) \in Nat /\ s.bytes \in Seq(Byte)
           /\ s.at[1] = 0 /\ s.at[Len(s.payloads) + 1] = Len(s.bytes)
           /\ \A i \in 1 .. Len(s.payloads) + 1 : s.at[i] \in Nat
           /\ \A i, j \in 1 .. Len(s.payloads) + 1 : i < j => s.at[i] < s.at[j]
           /\ \A i \in 1 .. Len(s.payloads) :
                 /\ s.payloads[i] \in Seq(Byte)
                 /\ SizeAt(s.bytes, s.at[i]) = Len(s.payloads[i])
                 /\ FrameEnd(s.bytes, s.at[i]) = s.at[i + 1]
                 /\ HasFrame(s.bytes, s.at[i], Len(s.bytes))
                 /\ SubSeq(s.bytes, s.at[i] + HeaderLen + 1, s.at[i + 1]) = s.payloads[i]
<1> DEFINE n == Len(s.payloads)
           b == s.bytes
           at == s.at
<1>0. Encodes(s)
  BY ReaderAssumption
<1>n. s.payloads \in Seq(Seq(Byte)) /\ n \in Nat
  BY <1>0 DEF Encodes
<1>1. /\ b \in Seq(Byte)
      /\ at[1] = 0 /\ at[n + 1] = Len(b)
      /\ \A i \in 1 .. n + 1 : at[i] \in Nat
      /\ \A i, j \in 1 .. n + 1 : i < j => at[i] < at[j]
      /\ \A i \in 1 .. n : /\ Len(s.payloads[i]) <= MaxFrameSize
                           /\ SubSeq(b, at[i] + 1, at[i + 1]) = EncodeFrame(s.payloads[i])
  BY Zenon, <1>0 DEF Encodes
<1>2. ASSUME NEW i \in 1 .. n
      PROVE  /\ s.payloads[i] \in Seq(Byte)
             /\ SizeAt(b, at[i]) = Len(s.payloads[i])
             /\ FrameEnd(b, at[i]) = at[i + 1]
             /\ HasFrame(b, at[i], Len(b))
             /\ SubSeq(b, at[i] + HeaderLen + 1, at[i + 1]) = s.payloads[i]
  <2> DEFINE x == s.payloads[i]
             p == at[i]
             q == at[i + 1]
  <2>1. /\ x \in Seq(Byte) /\ Len(x) <= MaxFrameSize /\ Len(x) \in Nat
        /\ SubSeq(b, p + 1, q) = EncodeFrame(x)
    BY <1>n, <1>1
  <2>2. i \in 1 .. n + 1 /\ i + 1 \in 1 .. n + 1 /\ i < i + 1
    BY <1>n
  <2>3. p \in Nat /\ q \in Nat /\ p < q
    BY <1>1, <2>2
  <2>4. q <= Len(b)
    <3>1. CASE i + 1 = n + 1
      BY <1>1, <2>3, <3>1
    <3>2. CASE i + 1 # n + 1
      <4>1. i + 1 < n + 1 /\ n + 1 \in 1 .. n + 1
        BY <1>n, <2>2, <3>2
      <4>2. at[i + 1] < at[n + 1]
          BY <1>1, <2>2, <4>1
      <4>3. Len(b) \in Nat
          BY <1>1
      <4> QED BY <1>1, <2>3, <4>2, <4>3
    <3> QED BY <3>1, <3>2
  <2> HIDE DEF x, p, q, b
  <2>b. b \in Seq(Byte) /\ Len(b) \in Nat
    BY <1>1
  <2>5. /\ q = p + HeaderLen + Len(x) /\ SizeAt(b, p) = Len(x)
        /\ SubSeq(b, p + HeaderLen + 1, q) = x
    BY <2>b, <2>1, <2>3, <2>4, FrameThere
  <2>6. FrameEnd(b, p) = q
    BY <2>1, <2>3, <2>5 DEF FrameEnd
  <2>7. HasFrame(b, p, Len(b))
    BY <2>b, <2>1, <2>3, <2>4, <2>5, <2>6, CodecAssumption
       DEF HasFrame, HasHeader, Oversize, HeaderLen
  <2> QED BY <2>1, <2>5, <2>6, <2>7 DEF x, p, q, b
<1> QED BY <1>n, <1>1, <1>2

\* What has come back of s: the reader is at one of its cuts, and has returned the
\* non-empty frames before it.
Full(s)     == {i \in 1 .. Len(s.payloads) : s.payloads[i] # << >>}
Read(s)     == {i \in Full(s) : s.at[i + 1] <= start}
Returned(s) == /\ \E i \in 1 .. Len(s.payloads) + 1 : start = s.at[i]
               /\ \A j \in 1 .. Len(out) : \E i \in Read(s) :
                     out[j].from = s.at[i] + HeaderLen /\ out[j].to = s.at[i + 1]
               /\ \A i \in Read(s) : \E j \in 1 .. Len(out) : out[j].from = s.at[i] + HeaderLen
               /\ result \notin {"toobig", "truncated"}
TripInv == /\ EndInv /\ Framed
           /\ \A s \in Written : wire = s.bytes => Returned(s)

LEMMA InitTrip == Init => TripInv
<1> SUFFICES ASSUME Init PROVE TripInv
  OBVIOUS
<1>1. ASSUME NEW s \in Written, wire = s.bytes PROVE Returned(s)
  <2>1. start = 0 /\ out = << >> /\ Len(out) = 0 /\ result = "none"
    BY DEF Init
  <2>2. /\ Len(s.payloads) \in Nat /\ s.at[1] = 0
        /\ \A i, j \in 1 .. Len(s.payloads) + 1 : i < j => s.at[i] < s.at[j]
        /\ \A i \in 1 .. Len(s.payloads) + 1 : s.at[i] \in Nat
    BY WrittenFrames
  <2>3. \A i \in 1 .. Len(s.payloads) : s.at[i + 1] \in Nat /\ s.at[i + 1] > 0
    <3> SUFFICES ASSUME NEW i \in 1 .. Len(s.payloads)
                 PROVE  s.at[i + 1] \in Nat /\ s.at[i + 1] > 0
      OBVIOUS
    <3>1. 1 \in 1 .. Len(s.payloads) + 1 /\ i + 1 \in 1 .. Len(s.payloads) + 1 /\ 1 < i + 1
      BY <2>2
    <3> QED BY <2>2, <3>1
  <2>4. Read(s) = {}
    BY <2>1, <2>3 DEF Read, Full
  <2>5. \E i \in 1 .. Len(s.payloads) + 1 : start = s.at[i]
    <3>1. 1 \in 1 .. Len(s.payloads) + 1
      BY <2>2
    <3> QED BY <2>1, <2>2, <3>1
  <2> QED BY <2>1, <2>4, <2>5 DEF Returned
<1> QED BY <1>1, InitEnd, InitFramed DEF TripInv

\* At a cut of s, what the reader finds is the frame of s that begins there.
LEMMA AtCut ==
    ASSUME TypeOK, NEW s \in Written, wire = s.bytes, Returned(s)
    PROVE  /\ ~ Oversize(wire, start, rd)
           /\ start # Len(wire) => HasFrame(wire, start, Len(wire))
           /\ HasFrame(wire, start, rd) =>
                 \E i \in 1 .. Len(s.payloads) :
                    /\ start = s.at[i] /\ FrameEnd(wire, start) = s.at[i + 1]
                    /\ (SizeAt(wire, start) > 0 <=> i \in Full(s))
                    /\ \A k \in Full(s) : s.at[k + 1] <= s.at[i + 1]
                                             <=> s.at[k + 1] <= start \/ k = i
<1> DEFINE n == Len(s.payloads)
           at == s.at
<1>w. /\ n \in Nat /\ wire \in Seq(Byte) /\ at[n + 1] = Len(wire)
      /\ \A i \in 1 .. n + 1 : at[i] \in Nat
      /\ \A i, j \in 1 .. n + 1 : i < j => at[i] < at[j]
  BY WrittenFrames
<1>f. \A i \in 1 .. n : /\ s.payloads[i] \in Seq(Byte)
                        /\ SizeAt(wire, at[i]) = Len(s.payloads[i])
                        /\ FrameEnd(wire, at[i]) = at[i + 1]
                        /\ HasFrame(wire, at[i], Len(wire))
  BY Zenon, WrittenFrames
<1>t. Len(wire) \in Nat /\ rd \in 0 .. Len(wire) /\ start \in Nat
  BY <1>w DEF TypeOK
<1>1. PICK i \in 1 .. n + 1 : start = at[i]
  BY DEF Returned
<1>2. CASE i = n + 1
  <2>1. start = Len(wire) /\ ~ HasHeader(start, rd)
    BY <1>w, <1>t, <1>1, <1>2 DEF HasHeader, HeaderLen
  <2> QED BY <2>1 DEF Oversize, HasFrame
<1>3. CASE i # n + 1
  <2>0. i \in 1 .. n
    BY <1>w, <1>3
  <2>1. /\ HasFrame(wire, start, Len(wire)) /\ FrameEnd(wire, start) = at[i + 1]
        /\ SizeAt(wire, start) = Len(s.payloads[i]) /\ s.payloads[i] \in Seq(Byte)
    BY <1>f, <1>1, <2>0
  <2>2. ~ Oversize(wire, start, rd)
    BY <1>t, <2>1 DEF HasFrame, Oversize, HasHeader, HeaderLen
  <2>3. SizeAt(wire, start) > 0 <=> i \in Full(s)
    BY <2>0, <2>1 DEF Full
  <2>4. ASSUME NEW k \in Full(s)
        PROVE  (at[k + 1] <= at[i + 1]) <=> (at[k + 1] <= start \/ k = i)
    <3>0. /\ k \in 1 .. n /\ k + 1 \in 1 .. n + 1 /\ i + 1 \in 1 .. n + 1 /\ i \in 1 .. n + 1
      BY <1>w, <2>0 DEF Full
    <3>1. /\ k \in 1 .. n /\ k + 1 \in 1 .. n + 1 /\ i + 1 \in 1 .. n + 1 /\ i \in 1 .. n + 1
          /\ at[k + 1] \in Nat /\ at[i + 1] \in Nat /\ at[i] \in Nat
      BY <1>w, <3>0
    <3>2. CASE k = i
      BY <3>1, <3>2
    <3>3. CASE k < i
      <4>1. k + 1 = i \/ k + 1 < i
        BY <3>1, <3>3
      <4>2. at[k + 1] = at[i] \/ at[k + 1] < at[i]
        BY Zenon, <1>w, <3>1, <4>1
      <4>3. i < i + 1
        BY <3>1
      <4>4. at[i] < at[i + 1]
        BY Zenon, <1>w, <3>1, <4>3
      <4>5. at[k + 1] <= at[i + 1] /\ at[k + 1] <= at[i]
        BY <3>1, <4>2, <4>4
      <4> QED BY <1>1, <4>5
    <3>4. CASE k > i
      <4>1. i < i + 1 /\ i + 1 < k + 1
        BY <3>1, <3>4
      <4>2. at[i] < at[i + 1] /\ at[i + 1] < at[k + 1]
        BY Zenon, <1>w, <3>1, <4>1
      <4>3. ~ (at[k + 1] <= at[i + 1]) /\ ~ (at[k + 1] <= at[i]) /\ k # i
        BY <3>1, <3>4, <4>2
      <4> QED BY <1>1, <4>3
    <3> QED BY <3>1, <3>2, <3>3, <3>4
  <2> QED BY <1>1, <2>0, <2>1, <2>2, <2>3, <2>4
<1> QED BY <1>2, <1>3

LEMMA NextReturned ==
    ASSUME TripInv, [Next]_vars, NEW s \in Written, wire' = s.bytes
    PROVE  Returned(s)'
<1>0. wire' = wire /\ wire = s.bytes /\ TypeOK /\ Returned(s)
  BY DEF TripInv, EndInv, Next, Call, ReadFrame, Scan, RaiseOversize, CutFrame, SkipEmpty,
         NeedMore, SomeData, Receive, RecvTimeout, RecvEof, vars
<1>1. ASSUME UNCHANGED <<start, out>>, result' \notin {"toobig", "truncated"}
      PROVE  Returned(s)'
  BY <1>0, <1>1 DEF Returned, Read
<1>2. ~ RaiseOversize
  BY <1>0, AtCut DEF RaiseOversize
<1>3. CASE CutFrame
  <2> DEFINE n == Len(out)
  <2>1. PICK i \in 1 .. Len(s.payloads) :
           /\ start = s.at[i] /\ FrameEnd(wire, start) = s.at[i + 1] /\ i \in Full(s)
           /\ \A k \in Full(s) : s.at[k + 1] <= s.at[i + 1]
                                    <=> s.at[k + 1] <= start \/ k = i
    BY <1>0, <1>3, AtCut DEF CutFrame
  <2>2. /\ start' = s.at[i + 1] /\ out' = Append(out, PayloadAt(wire, start))
        /\ result' = "frame" /\ out \in Seq(Payload)
        /\ PayloadAt(wire, start) = [from |-> s.at[i] + HeaderLen, to |-> s.at[i + 1]]
    BY <1>0, <1>3, <2>1 DEF CutFrame, Return, PayloadAt, TypeOK
  <2>3. /\ n \in Nat /\ Len(out') = n + 1 /\ out'[n + 1] = PayloadAt(wire, start)
        /\ \A j \in 1 .. n : out'[j] = out[j]
    BY <2>2
  <2>4. Read(s)' = Read(s) \cup {i}
    BY <2>1, <2>2 DEF Read, Full
  <2>5. \A j \in 1 .. n + 1 : \E k \in Read(s)' :
           out'[j].from = s.at[k] + HeaderLen /\ out'[j].to = s.at[k + 1]
    <3> SUFFICES ASSUME NEW j \in 1 .. n + 1
                 PROVE  \E k \in Read(s)' : /\ out'[j].from = s.at[k] + HeaderLen
                                            /\ out'[j].to = s.at[k + 1]
      OBVIOUS
    <3>1. CASE j = n + 1
      <4>1. out'[j].from = s.at[i] + HeaderLen /\ out'[j].to = s.at[i + 1]
        BY <2>2, <2>3, <3>1
      <4> QED BY <2>4, <4>1
    <3>2. CASE j # n + 1
      <4>1. j \in 1 .. n /\ out'[j] = out[j]
        BY <2>3, <3>2
      <4>2. PICK k \in Read(s) : out[j].from = s.at[k] + HeaderLen /\ out[j].to = s.at[k + 1]
        BY <1>0, <4>1 DEF Returned
      <4> QED BY <2>4, <4>1, <4>2
    <3> QED BY <3>1, <3>2
  <2>6. \A k \in Read(s)' : \E j \in 1 .. n + 1 : out'[j].from = s.at[k] + HeaderLen
    <3>1. \A k \in Read(s) : \E j \in 1 .. n : out'[j].from = s.at[k] + HeaderLen
      BY <1>0, <2>3 DEF Returned
    <3>2. n + 1 \in 1 .. n + 1 /\ out'[n + 1].from = s.at[i] + HeaderLen
      BY <2>2, <2>3
    <3>3. \A j \in 1 .. n : j \in 1 .. n + 1
      BY <2>3
    <3> QED BY <2>4, <3>1, <3>2, <3>3
  <2>7. \E k \in 1 .. Len(s.payloads) + 1 : start' = s.at[k]
    <3>1. i + 1 \in 1 .. Len(s.payloads) + 1
      BY WrittenFrames
    <3> QED BY <2>2, <3>1
  <2> QED BY <2>2, <2>3, <2>5, <2>6, <2>7 DEF Returned
<1>4. CASE SkipEmpty
  <2>1. PICK i \in 1 .. Len(s.payloads) :
           /\ start = s.at[i] /\ FrameEnd(wire, start) = s.at[i + 1] /\ i \notin Full(s)
           /\ \A k \in Full(s) : s.at[k + 1] <= s.at[i + 1]
                                    <=> s.at[k + 1] <= start \/ k = i
    BY <1>0, <1>4, AtCut DEF SkipEmpty
  <2>2. start' = s.at[i + 1] /\ UNCHANGED <<out, result>>
    BY <1>4, <2>1 DEF SkipEmpty
  <2>3. Read(s)' = Read(s)
    BY <2>1, <2>2 DEF Read, Full
  <2>4. i + 1 \in 1 .. Len(s.payloads) + 1
    BY WrittenFrames
  <2> QED BY <1>0, <2>2, <2>3, <2>4 DEF Returned
<1>5. CASE RecvEof
  <2>1. start # rd => HasFrame(wire, start, rd)
    BY <1>0, <1>5, AtCut DEF RecvEof
  <2>2. start = rd /\ result' = "eof" /\ UNCHANGED <<start, out>>
    BY <1>5, <2>1 DEF RecvEof, Return, TripInv, EndInv, NeverWaitsOnAFrame
  <2> QED BY <1>1, <2>2
<1>6. CASE Call \/ NeedMore \/ SomeData \/ RecvTimeout \/ UNCHANGED vars
  <2>1. result \notin {"toobig", "truncated"}
    BY <1>0 DEF Returned
  <2> QED BY <1>1, <1>6, <2>1
          DEF Call, ReadFrame, NeedMore, SomeData, Receive, RecvTimeout, Return, vars
<1> QED BY <1>2, <1>3, <1>4, <1>5, <1>6 DEF Next, Scan

LEMMA NextTrip == TripInv /\ [Next]_vars => TripInv'
<1> SUFFICES ASSUME TripInv, [Next]_vars PROVE TripInv'
  OBVIOUS
<1>1. EndInv' /\ Framed'
  BY NextEnd, NextFramed DEF TripInv
<1>2. \A s \in Written : wire' = s.bytes => Returned(s)'
  BY NextReturned
<1> QED BY <1>1, <1>2 DEF TripInv

LEMMA TripIsRound == TripInv => RoundTrip
<1> SUFFICES ASSUME TripInv, NEW s \in Written, wire = s.bytes
             PROVE  LET full == {i \in DOMAIN s.payloads : s.payloads[i] # << >>}
                        read == {i \in full : s.at[i + 1] <= start}
                        of(j) == {i \in read : s.at[i] + HeaderLen = out[j].from}
                    IN  /\ \A j \in DOMAIN out :
                              \E i \in of(j) :
                                 SubSeq(wire, out[j].from + 1, out[j].to) = s.payloads[i]
                        /\ \A i \in read : \E j \in DOMAIN out : i \in of(j)
                        /\ \A j, k \in DOMAIN out : j < k => out[j].from < out[k].from
                        /\ Ended => result = "eof" /\ read = full
  BY DEF RoundTrip
<1>0. Returned(s) /\ TypeOK /\ Framed /\ EndIsHonest
  BY DEF TripInv, EndInv
<1>1. /\ Len(s.payloads) \in Nat /\ DOMAIN s.payloads = 1 .. Len(s.payloads)
      /\ DOMAIN out = 1 .. Len(out) /\ Len(out) \in Nat
  <2>1. s.payloads \in Seq(Seq(Byte)) /\ out \in Seq(Payload)
    BY <1>0, ReaderAssumption DEF Encodes, TypeOK
  <2> QED BY <2>1
<1>2. \A j \in 1 .. Len(out) : \E i \in Read(s) :
         /\ s.at[i] + HeaderLen = out[j].from
         /\ SubSeq(wire, out[j].from + 1, out[j].to) = s.payloads[i]
  <2> SUFFICES ASSUME NEW j \in 1 .. Len(out)
               PROVE  \E i \in Read(s) :
                         /\ s.at[i] + HeaderLen = out[j].from
                         /\ SubSeq(wire, out[j].from + 1, out[j].to) = s.payloads[i]
    OBVIOUS
  <2>1. PICK i \in Read(s) : out[j].from = s.at[i] + HeaderLen /\ out[j].to = s.at[i + 1]
    BY <1>0 DEF Returned
  <2>2. SubSeq(wire, s.at[i] + HeaderLen + 1, s.at[i + 1]) = s.payloads[i]
    BY WrittenFrames DEF Read, Full
  <2> QED BY <2>1, <2>2
<1>3. \A i \in Read(s) : \E j \in 1 .. Len(out) : s.at[i] + HeaderLen = out[j].from
  BY <1>0 DEF Returned
<1>4. \A j, k \in 1 .. Len(out) : j < k => out[j].from < out[k].from
  <2> SUFFICES ASSUME NEW j \in 1 .. Len(out), NEW k \in 1 .. Len(out), j < k
               PROVE  out[j].from < out[k].from
    OBVIOUS
  <2>1. out[j].to > out[j].from /\ out[j].to + HeaderLen <= out[k].from
    BY <1>0 DEF Framed
  <2>2. out[j].from \in Nat /\ out[j].to \in Nat /\ out[k].from \in Nat
    BY <1>0, PayloadsTyped
  <2> QED BY <2>1, <2>2 DEF HeaderLen
<1>5. Ended => result = "eof" /\ Read(s) = Full(s)
  <2> SUFFICES ASSUME Ended PROVE result = "eof" /\ Read(s) = Full(s)
    OBVIOUS
  <2>1. result = "eof" /\ start = Len(wire)
    BY <1>0 DEF Ended, Returned, EndIsHonest
  <2>2. ASSUME NEW i \in Full(s) PROVE s.at[i + 1] <= start
    <3>1. /\ i \in 1 .. Len(s.payloads) /\ s.at[Len(s.payloads) + 1] = start
          /\ \A k \in 1 .. Len(s.payloads) + 1 : s.at[k] \in Nat
          /\ \A k, m \in 1 .. Len(s.payloads) + 1 : k < m => s.at[k] < s.at[m]
      BY <2>1, WrittenFrames DEF Full
    <3>2. /\ i + 1 \in 1 .. Len(s.payloads) + 1
          /\ Len(s.payloads) + 1 \in 1 .. Len(s.payloads) + 1
          /\ i + 1 = Len(s.payloads) + 1 \/ i + 1 < Len(s.payloads) + 1
      BY <1>1, <3>1
    <3> QED BY <3>1, <3>2
  <2> QED BY <2>1, <2>2 DEF Read
<1> QED BY <1>1, <1>2, <1>3, <1>4, <1>5 DEF Read, Full

\* What encode_frame writes, read_frame returns: for any list of payloads, however
\* the bytes are cut into chunks and however often a call times out, each that is
\* not empty comes back once, in order and unchanged, before a clean end.
THEOREM FramesComeBack == Spec => []RoundTrip
BY InitTrip, NextTrip, TripIsRound, PTL DEF Spec
-----------------------------------------------------------------------------
(* MessageWire: varints.                                                    *)

\* What a turn takes off a number and what it leaves.
LEMMA Seven ==
    \A m \in Nat : /\ m \div 128 \in Nat /\ m % 128 \in 0 .. 127
                   /\ m = (m % 128) + 128 * (m \div 128)
OBVIOUS

\* The turns of _encode_varint, one from the other.
LEMMA TurnsLaw ==
    ASSUME NEW v \in Nat
    PROVE  /\ Turns(v)[1] = v
           /\ \A k \in 1 .. 10 : Turns(v)[k] \in Nat
           /\ \A k \in 1 .. 9 : Turns(v)[k + 1] = Turns(v)[k] \div 128
<1> DEFINE b == v \div 128   c == b \div 128   d == c \div 128
           e == d \div 128   f == e \div 128   g == f \div 128
           h == g \div 128   i == h \div 128   j == i \div 128
           t == <<v, b, c, d, e, f, g, h, i, j>>
<1>1. Turns(v) = t
  BY DEF Turns
<1>2. b \in Nat /\ c \in Nat /\ d \in Nat /\ e \in Nat /\ f \in Nat
  BY Seven
<1>3. g \in Nat /\ h \in Nat /\ i \in Nat /\ j \in Nat
  BY <1>2, Seven
<1>4. /\ b = v \div 128 /\ c = b \div 128 /\ d = c \div 128
      /\ e = d \div 128 /\ f = e \div 128 /\ g = f \div 128
      /\ h = g \div 128 /\ i = h \div 128 /\ j = i \div 128
  OBVIOUS
<1> HIDE DEF b, c, d, e, f, g, h, i, j
<1>5. /\ t[1] = v /\ t[2] = b /\ t[3] = c /\ t[4] = d /\ t[5] = e
      /\ t[6] = f /\ t[7] = g /\ t[8] = h /\ t[9] = i /\ t[10] = j
  OBVIOUS
<1> HIDE DEF t
<1>6. \A k \in 1 .. 10 : t[k] \in Nat
  BY <1>2, <1>3, <1>5
<1>7. \A k \in 1 .. 9 : t[k + 1] = t[k] \div 128
  <2> SUFFICES ASSUME NEW k \in 1 .. 9 PROVE t[k + 1] = t[k] \div 128
    OBVIOUS
  <2>1. \/ k = 1 \/ k = 2 \/ k = 3 \/ k = 4 \/ k = 5
        \/ k = 6 \/ k = 7 \/ k = 8 \/ k = 9
    OBVIOUS
  <2> DEFINE Next7(n) == n \div 128
  <2>2. /\ b = Next7(v) /\ c = Next7(b) /\ d = Next7(c) /\ e = Next7(d) /\ f = Next7(e)
        /\ g = Next7(f) /\ h = Next7(g) /\ i = Next7(h) /\ j = Next7(i)
    BY Zenon, <1>4
  <2> HIDE DEF Next7
  <2>3. t[k + 1] = Next7(t[k])
    BY <1>5, <2>1, <2>2
  <2> QED BY Zenon, <2>3 DEF Next7
<1> QED BY <1>1, <1>5, <1>6, <1>7

\* A number of a set that no other is below is its minimum.
LEMMA LeastIsMin ==
    ASSUME NEW S, S \subseteq Nat, NEW e \in S, \A x \in S : e <= x
    PROVE  Min(S) = e
<1>1. \E m \in S : \A x \in S : m =< x
  OBVIOUS
<1>2. Min(S) \in S /\ \A x \in S : Min(S) =< x
  BY <1>1 DEF Min
<1>3. Min(S) \in Nat /\ e \in Nat /\ e <= Min(S) /\ Min(S) <= e
  BY <1>2
<1> QED BY <1>3

\* A set of numbers up to 10 that has 10 among them has a least one.
LEMMA LeastOfTen ==
    ASSUME NEW S, S \subseteq 1 .. 10, 10 \in S
    PROVE  Min(S) \in S /\ \A x \in S : Min(S) <= x
<1>1. SUFFICES ASSUME \A e \in S : \E x \in S : ~ (e <= x) PROVE FALSE
  BY DEF Min
<1>2. \A e \in S : \E x \in S : x < e
  BY <1>1
<1>3. 1 \notin S
  BY <1>2
<1>4. 2 \notin S
  BY <1>2, <1>3
<1>5. 3 \notin S
  BY <1>2, <1>3, <1>4
<1>6. 4 \notin S
  BY <1>2, <1>3, <1>4, <1>5
<1>7. 5 \notin S
  BY <1>2, <1>3, <1>4, <1>5, <1>6
<1>8. 6 \notin S
  BY <1>2, <1>3, <1>4, <1>5, <1>6, <1>7
<1>9. 7 \notin S
  BY <1>2, <1>3, <1>4, <1>5, <1>6, <1>7, <1>8
<1>10. 8 \notin S
  BY <1>2, <1>3, <1>4, <1>5, <1>6, <1>7, <1>8, <1>9
<1>11. 9 \notin S
  BY <1>2, <1>3, <1>4, <1>5, <1>6, <1>7, <1>8, <1>9, <1>10
<1> QED
  BY <1>2, <1>3, <1>4, <1>5, <1>6, <1>7, <1>8, <1>9, <1>10, <1>11

\* What _encode_varint writes: bytes with the high bit, and a last one without.
LEMMA VarintShape ==
    ASSUME NEW v \in Nat
    PROVE  /\ VarintLen(v) \in 1 .. 10
           /\ VarintLen(v) = 10 \/ Turns(v)[VarintLen(v) + 1] = 0
           /\ v < 128 => VarintLen(v) = 1
           /\ Varint(v) \in Seq(Octet) /\ Len(Varint(v)) = VarintLen(v)
           /\ \A k \in 1 .. VarintLen(v) :
                 /\ Varint(v)[k] % 128 = Turns(v)[k] % 128
                 /\ (Varint(v)[k] < 128 <=> k = VarintLen(v))
<1> DEFINE S == {n \in 1 .. 10 : n = 10 \/ Turns(v)[n + 1] = 0}
           n == VarintLen(v)
           s == Varint(v)
<1>1. S \subseteq 1 .. 10 /\ 10 \in S
  OBVIOUS
<1>2. n \in S /\ \A x \in S : n <= x
  BY <1>1, LeastOfTen DEF VarintLen
<1>3. n \in 1 .. 10 /\ (n = 10 \/ Turns(v)[n + 1] = 0)
  BY <1>2
<1>4. ASSUME v < 128 PROVE n = 1
  <2>1. Turns(v)[1 + 1] = v \div 128
    BY TurnsLaw
  <2>2. v \div 128 = 0
    BY <1>4
  <2>3. 1 \in S
    BY <2>1, <2>2
  <2> QED BY <1>2, <1>3, <2>3
<1> HIDE DEF S, n
<1>5. ASSUME NEW k \in 1 .. n
      PROVE  /\ s[k] \in Octet /\ s[k] % 128 = Turns(v)[k] % 128
             /\ (s[k] < 128 <=> k = n)
  <2>0. k \in 1 .. 10
    BY <1>3
  <2>1. Turns(v)[k] % 128 \in 0 .. 127
    BY Zenon, <2>0, TurnsLaw, Seven
  <2>2. s[k] = (Turns(v)[k] % 128) + (IF k < n THEN 128 ELSE 0)
    BY DEF Varint, n
  <2> DEFINE r == Turns(v)[k] % 128
  <2> HIDE DEF r, s
  <2>3. s[k] = r + (IF k < n THEN 128 ELSE 0) /\ r \in 0 .. 127
    BY <2>1, <2>2 DEF r
  <2>4. s[k] \in Octet /\ s[k] % 128 = r /\ (s[k] < 128 <=> k = n)
    BY <1>3, <2>3 DEF Octet
  <2> QED BY <2>4 DEF r
<1>6. s \in Seq(Octet) /\ Len(s) = n
  <2>1. s = [k \in 1 .. n |-> s[k]] /\ n \in Nat
    BY <1>3 DEF Varint, n
  <2>2. s \in [1 .. n -> Octet]
    BY <1>5, <2>1
  <2> QED BY <2>1, <2>2
<1> QED BY <1>3, <1>4, <1>5, <1>6 DEF n

\* Once the loop has nothing left, it would not have anything at a later turn.
LEMMA NoTurnLeft ==
    ASSUME NEW v \in Nat, NEW n \in 1 .. 10, n = 10 \/ Turns(v)[n + 1] = 0
    PROVE  \A k \in 1 .. 10 : k > n => Turns(v)[k] = 0
<1> DEFINE Z(k) == k > n => Turns(v)[k] = 0
<1>1. Z(1)
  OBVIOUS
<1>2. ASSUME NEW k \in 1 .. 9, Z(k) PROVE Z(k + 1)
  <2>1. Turns(v)[k + 1] = Turns(v)[k] \div 128
    BY TurnsLaw
  <2>2. CASE k = n
    BY <2>2
  <2>3. CASE k > n
    BY <1>2, <2>1, <2>3
  <2>4. CASE k < n
    BY <2>4
  <2> QED BY <2>2, <2>3, <2>4
<1> HIDE DEF Z
<1>3. Z(2) /\ Z(3)
  <2>1. Z(1 + 1)
    BY <1>1, <1>2
  <2>2. Z(2 + 1)
    BY <1>2, <2>1
  <2> QED BY <2>1, <2>2
<1>4. Z(4) /\ Z(5) /\ Z(6)
  <2>1. Z(3 + 1)
    BY <1>2, <1>3
  <2>2. Z(4 + 1)
    BY <1>2, <2>1
  <2>3. Z(5 + 1)
    BY <1>2, <2>2
  <2> QED BY <2>1, <2>2, <2>3
<1>5. Z(7) /\ Z(8)
  <2>1. Z(6 + 1)
    BY <1>2, <1>4
  <2>2. Z(7 + 1)
    BY <1>2, <2>1
  <2> QED BY <2>1, <2>2
<1>6. Z(9) /\ Z(10)
  <2>1. Z(8 + 1)
    BY <1>2, <1>5
  <2>2. Z(9 + 1)
    BY <1>2, <2>1
  <2> QED BY <2>1, <2>2
<1>7. \A k \in 1 .. 10 : Z(k)
  <2> SUFFICES ASSUME NEW k \in 1 .. 10 PROVE Z(k)
    OBVIOUS
  <2>1. \/ k = 1 \/ k = 2 \/ k = 3 \/ k = 4 \/ k = 5
        \/ k = 6 \/ k = 7 \/ k = 8 \/ k = 9 \/ k = 10
    OBVIOUS
  <2> QED BY <1>1, <1>3, <1>4, <1>5, <1>6, <2>1
<1> QED BY <1>7 DEF Z
\* The bytes of s are those of d from o on.
Holds(d, o, s) == /\ o + Len(s) <= Len(d)
                  /\ \A k \in 1 .. Len(s) : d[o + k] = s[k]

\* What _encode_varint writes, _decode_varint reads.
LEMMA VarintThere ==
    ASSUME data \in Seq(Octet), NEW o \in Nat, NEW v, Fits(v), Holds(data, o, Varint(v))
    PROVE  /\ IsVarint(o) /\ After(o) = o + Len(Varint(v)) /\ ValueAt(o) = v
<1> DEFINE n == VarintLen(v)
           t == Turns(v)
           d(k) == IF o + k < After(o) THEN data[o + k + 1] % 128 ELSE 0
<1>0. /\ v \in Nat /\ t[10] < 128 /\ t[1] = v
      /\ \A k \in 1 .. 10 : t[k] \in Nat
      /\ \A k \in 1 .. 9 : t[k + 1] = t[k] \div 128
  BY TurnsLaw DEF Fits
<1>1. /\ n \in 1 .. 10 /\ Len(Varint(v)) = n
      /\ n = 10 \/ t[n + 1] = 0
      /\ \A k \in 1 .. n : /\ Varint(v)[k] % 128 = t[k] % 128
                            /\ (Varint(v)[k] < 128 <=> k = n)
  BY Zenon, <1>0, VarintShape
<1>d. Len(data) \in Nat
  OBVIOUS
<1>z. \A k \in 1 .. 10 : k > n => t[k] = 0
  BY <1>0, <1>1, NoTurnLeft
<1> HIDE DEF n, t
<1>2. /\ o + n <= Len(data)
      /\ \A k \in 1 .. n : /\ data[o + k] % 128 = t[k] % 128
                            /\ (data[o + k] < 128 <=> k = n)
  <2>1. \A k \in 1 .. n : data[o + k] = Varint(v)[k]
    BY <1>1 DEF Holds
  <2> QED BY <1>1, <2>1 DEF Holds
<1>3. o + n - 1 \in Stops(o) /\ \A e \in Stops(o) : o + n - 1 <= e
  <2>1. /\ o + n - 1 \in o .. o + 10 /\ o + n - 1 < Len(data)
        /\ o + n - 1 + 1 = o + n /\ n \in 1 .. n
    <3>1. o + n <= Len(data) /\ n \in 1 .. 10
      BY <1>1, <1>2
    <3> QED BY <1>d, <3>1
  <2>2. o + n - 1 \in Stops(o)
    BY <1>2, <2>1 DEF Stops
  <2>3. ASSUME NEW e \in Stops(o), e < o + n - 1 PROVE FALSE
    <3>1. e \in o .. o + 10 /\ data[e + 1] < 128
      BY DEF Stops
    <3>2. /\ (e + 1) - o \in 1 .. n /\ (e + 1) - o # n
          /\ o + ((e + 1) - o) = e + 1
      BY <1>1, <2>3, <3>1
    <3>3. data[e + 1] < 128 <=> (e + 1) - o = n
      BY Zenon, <1>2, <3>2
    <3> QED BY <3>1, <3>2, <3>3
  <2>4. \A e \in Stops(o) : e \in Nat
    BY DEF Stops
  <2> QED BY <1>1, <2>2, <2>3, <2>4
<1>4. After(o) = o + n
  <2>1. Stops(o) \subseteq Nat
    BY DEF Stops
  <2>2. Min(Stops(o)) = o + n - 1
    BY <1>3, <2>1, LeastIsMin
  <2> QED BY <1>1, <2>2 DEF After
<1>5. \A k \in 0 .. 9 : d(k) = t[k + 1] % 128
  <2> SUFFICES ASSUME NEW k \in 0 .. 9 PROVE d(k) = t[k + 1] % 128
    OBVIOUS
  <2>1. CASE k < n
    <3>1. k + 1 \in 1 .. n /\ o + (k + 1) = o + k + 1 /\ o + k < o + n
      BY <1>1, <2>1
    <3>2. data[o + k + 1] % 128 = t[k + 1] % 128
      BY Zenon, <1>2, <3>1
    <3> QED BY <1>4, <3>1, <3>2
  <2>2. CASE k >= n
    <3>1. k + 1 \in 1 .. 10 /\ k + 1 > n /\ ~ (o + k < o + n)
      BY <1>1, <2>2
    <3>2. t[k + 1] = 0
      BY <1>z, <3>1
    <3> QED BY <1>4, <3>1, <3>2
  <2> QED BY <1>1, <2>1, <2>2
<1>6. d(10) = 0
  BY <1>1, <1>4
<1>7. \A k \in 1 .. 9 : t[k] = (t[k] % 128) + 128 * t[k + 1]
  <2> SUFFICES ASSUME NEW k \in 1 .. 9
               PROVE  t[k] = (t[k] % 128) + 128 * t[k + 1]
    OBVIOUS
  <2>1. t[k] \in Nat /\ t[k + 1] = t[k] \div 128
    <3>1. k \in 1 .. 10
      OBVIOUS
    <3> QED BY Zenon, <1>0, <3>1
  <2> QED BY <2>1, Seven
<1>8. t[1] = v /\ t[10] \in Nat /\ t[10] < 128
  <2>1. 10 \in 1 .. 10
    OBVIOUS
  <2> QED BY Zenon, <1>0, <2>1
<1> HIDE DEF d
<1> DEFINE h9 == d(9) + 128 * d(10)
           h8 == d(8) + 128 * h9
           h7 == d(7) + 128 * h8
           h6 == d(6) + 128 * h7
           h5 == d(5) + 128 * h6
           h4 == d(4) + 128 * h5
           h3 == d(3) + 128 * h4
           h2 == d(2) + 128 * h3
           h1 == d(1) + 128 * h2
<1>9. h9 = t[10]
  <2>1. d(9) = t[9 + 1] % 128
    BY <1>5
  <2> QED BY <1>6, <1>8, <2>1
<1> HIDE DEF h9
<1>10. h8 = t[9]
  <2>1. d(8) = t[8 + 1] % 128 /\ t[9] = (t[9] % 128) + 128 * t[9 + 1]
    BY <1>5, <1>7
  <2> QED BY <1>9, <2>1
<1> HIDE DEF h8
<1>11. h7 = t[8]
  <2>1. d(7) = t[7 + 1] % 128 /\ t[8] = (t[8] % 128) + 128 * t[8 + 1]
    BY <1>5, <1>7
  <2> QED BY <1>10, <2>1
<1> HIDE DEF h7
<1>12. h6 = t[7]
  <2>1. d(6) = t[6 + 1] % 128 /\ t[7] = (t[7] % 128) + 128 * t[7 + 1]
    BY <1>5, <1>7
  <2> QED BY <1>11, <2>1
<1> HIDE DEF h6
<1>13. h5 = t[6]
  <2>1. d(5) = t[5 + 1] % 128 /\ t[6] = (t[6] % 128) + 128 * t[6 + 1]
    BY <1>5, <1>7
  <2> QED BY <1>12, <2>1
<1> HIDE DEF h5
<1>14. h4 = t[5]
  <2>1. d(4) = t[4 + 1] % 128 /\ t[5] = (t[5] % 128) + 128 * t[5 + 1]
    BY <1>5, <1>7
  <2> QED BY <1>13, <2>1
<1> HIDE DEF h4
<1>15. h3 = t[4]
  <2>1. d(3) = t[3 + 1] % 128 /\ t[4] = (t[4] % 128) + 128 * t[4 + 1]
    BY <1>5, <1>7
  <2> QED BY <1>14, <2>1
<1> HIDE DEF h3
<1>16. h2 = t[3]
  <2>1. d(2) = t[2 + 1] % 128 /\ t[3] = (t[3] % 128) + 128 * t[3 + 1]
    BY <1>5, <1>7
  <2> QED BY <1>15, <2>1
<1> HIDE DEF h2
<1>17. h1 = t[2]
  <2>1. d(1) = t[1 + 1] % 128 /\ t[2] = (t[2] % 128) + 128 * t[2 + 1]
    BY <1>5, <1>7
  <2> QED BY <1>16, <2>1
<1> HIDE DEF h1
<1>18. d(0) + 128 * h1 = v
  <2>1. d(0) = t[0 + 1] % 128 /\ t[1] = (t[1] % 128) + 128 * t[1 + 1]
    BY <1>5, <1>7
  <2> QED BY <1>8, <1>17, <2>1
<1>19. ValueAt(o) = d(0) + 128 * h1
  BY DEF ValueAt, d, h1, h2, h3, h4, h5, h6, h7, h8, h9
<1> QED BY <1>1, <1>3, <1>4, <1>18, <1>19 DEF IsVarint

\* A NUL is the varint 0.
LEMMA NulThere ==
    ASSUME data \in Seq(Octet), NEW o \in Nat, o < Len(data), data[o + 1] = 0
    PROVE  IsVarint(o) /\ After(o) = o + 1 /\ ValueAt(o) = 0
<1>1. VarintLen(0) = 1 /\ Len(Varint(0)) = 1 /\ Turns(0)[1] = 0 /\ Turns(0)[1 + 1] = 0
  <2>0. 0 \in Nat /\ 0 < 128
    OBVIOUS
  <2>1. VarintLen(0) = 1 /\ Len(Varint(0)) = 1
    BY Zenon, <2>0, VarintShape
  <2>2. VarintLen(0) = 10 \/ Turns(0)[VarintLen(0) + 1] = 0
    BY Zenon, <2>0, VarintShape
  <2> QED BY <2>1, <2>2, TurnsLaw
<1>2. Turns(0)[10] = 0
  BY <1>1, NoTurnLeft
<1>3. Varint(0)[1] = 0
  BY <1>1 DEF Varint
<1>4. Fits(0)
  BY <1>2 DEF Fits
<1>5. Holds(data, o, Varint(0))
  <2>1. o + Len(Varint(0)) <= Len(data) /\ \A k \in 1 .. Len(Varint(0)) : k = 1
    <3>1. o + 1 <= Len(data) /\ \A k \in 1 .. 1 : k = 1
      OBVIOUS
    <3> QED BY Zenon, <1>1, <3>1
  <2> QED BY <1>3, <2>1 DEF Holds
<1> QED BY <1>1, <1>4, <1>5, VarintThere

\* A sequence that holds two, one behind the other, holds each in its place.
LEMMA HoldsParts ==
    ASSUME data \in Seq(Octet), NEW o \in Nat, NEW s \in Seq(Octet), NEW t \in Seq(Octet),
           Holds(data, o, s \o t)
    PROVE  Holds(data, o, s) /\ Holds(data, o + Len(s), t)
<1>1. /\ Len(s) \in Nat /\ Len(t) \in Nat /\ Len(data) \in Nat
      /\ Len(s \o t) = Len(s) + Len(t)
      /\ \A k \in 1 .. Len(s) : (s \o t)[k] = s[k]
      /\ \A k \in 1 .. Len(t) : (s \o t)[Len(s) + k] = t[k]
  OBVIOUS
<1>2. /\ o + Len(s) + Len(t) <= Len(data)
      /\ \A k \in 1 .. Len(s) + Len(t) : data[o + k] = (s \o t)[k]
  BY <1>1 DEF Holds
<1>3. Holds(data, o, s)
  BY <1>1, <1>2 DEF Holds
<1>4. ASSUME NEW k \in 1 .. Len(t) PROVE data[o + Len(s) + k] = t[k]
  <2>1. Len(s) + k \in 1 .. Len(s) + Len(t) /\ o + (Len(s) + k) = o + Len(s) + k
    BY <1>1
  <2>2. data[o + (Len(s) + k)] = (s \o t)[Len(s) + k]
    BY <1>2, <2>1
  <2> QED BY <1>1, <2>1, <2>2
<1> QED BY <1>2, <1>3, <1>4 DEF Holds

\* What has been written stays, and what is written now follows it.
LEMMA HoldsGrow ==
    ASSUME NEW d \in Seq(Octet), NEW x \in Seq(Octet), NEW e, e = d \o x
    PROVE  /\ e \in Seq(Octet) /\ Len(e) = Len(d) + Len(x)
           /\ \A o \in Nat : \A s \in Seq(Octet) : Holds(d, o, s) => Holds(e, o, s)
           /\ Holds(e, Len(d), x)
<1>1. /\ Len(x) \in Nat /\ Len(d) \in Nat
      /\ e \in Seq(Octet) /\ Len(e) = Len(d) + Len(x)
      /\ \A k \in 1 .. Len(d) : e[k] = d[k]
      /\ \A k \in 1 .. Len(x) : e[Len(d) + k] = x[k]
  OBVIOUS
<1>2. ASSUME NEW o \in Nat, NEW s \in Seq(Octet), Holds(d, o, s) PROVE Holds(e, o, s)
  <2>1. Len(s) \in Nat /\ o + Len(s) <= Len(d)
    BY <1>2 DEF Holds
  <2>2. ASSUME NEW k \in 1 .. Len(s) PROVE e[o + k] = s[k]
    <3>1. o + k \in 1 .. Len(d)
      BY <1>1, <2>1
    <3> QED BY <1>1, <1>2, <3>1 DEF Holds
  <2> QED BY <1>1, <2>1, <2>2 DEF Holds
<1>3. Holds(e, Len(d), x)
  BY <1>1 DEF Holds
<1> QED BY <1>1, <1>2, <1>3

\* The bytes of a field behind its tag.
Rest(f) == CASE f.kind = "varint" -> Varint(f.value)
             [] f.kind = "bytes"  -> Varint(Len(f.value)) \o f.value
             [] OTHER             -> f.value

\* Each kind of field has its wire type.
LEMMA Kinds ==
    ASSUME NEW f, IsField(f)
    PROVE  /\ f.kind \in {"varint", "fixed64", "bytes", "fixed32"}
           /\ WireOf[f.kind] \in {0, 1, 2, 5}
           /\ (WireOf[f.kind] = 0 <=> f.kind = "varint")
           /\ (WireOf[f.kind] = 1 <=> f.kind = "fixed64")
           /\ (WireOf[f.kind] = 2 <=> f.kind = "bytes")
           /\ (WireOf[f.kind] = 5 <=> f.kind = "fixed32")
BY DEF IsField, WireOf

\* What serialize_message writes for a field: a tag, and the rest.
LEMMA FieldShape ==
    ASSUME NEW f, IsField(f)
    PROVE  /\ Tag(f.no, WireOf[f.kind]) \in Seq(Octet) /\ Rest(f) \in Seq(Octet)
           /\ Field(f) = Tag(f.no, WireOf[f.kind]) \o Rest(f)
           /\ Field(f) \in Seq(Octet) /\ Len(Field(f)) \in Nat \ {0}
           /\ Len(Field(f)) = Len(Tag(f.no, WireOf[f.kind])) + Len(Rest(f))
           /\ f.kind = "varint" /\ f.no < 16 => Len(Field(f)) <= 11
<1> DEFINE tag == Tag(f.no, WireOf[f.kind])
           v == 8 * f.no + WireOf[f.kind]
<1>1. tag \in Seq(Octet) /\ Len(tag) \in 1 .. 10 /\ (v < 128 => Len(tag) = 1)
  <2>1. v \in Nat
    BY DEF IsField, Fits
  <2>2. tag = Varint(v)
    BY DEF Tag
  <2> HIDE DEF v
  <2> QED BY <2>1, <2>2, VarintShape
<1>2. ASSUME f.kind = "varint"
      PROVE  Rest(f) \in Seq(Octet) /\ Len(Rest(f)) <= 10
  <2>1. f.value \in Nat /\ Rest(f) = Varint(f.value)
    BY <1>2 DEF IsField, Fits, Rest
  <2>2. /\ Varint(f.value) \in Seq(Octet) /\ VarintLen(f.value) \in 1 .. 10
        /\ Len(Varint(f.value)) = VarintLen(f.value)
    BY Zenon, <2>1, VarintShape
  <2> QED BY <2>1, <2>2
<1>3. ASSUME f.kind = "bytes" PROVE Rest(f) \in Seq(Octet)
  <2>1. f.value \in Seq(Octet) /\ Len(f.value) \in Nat
    BY <1>3 DEF IsField
  <2>2. Varint(Len(f.value)) \in Seq(Octet)
    BY <2>1, VarintShape
  <2>3. Rest(f) = Varint(Len(f.value)) \o f.value
    BY <1>3 DEF Rest
  <2> QED BY <2>1, <2>2, <2>3
<1>4. ASSUME f.kind # "varint", f.kind # "bytes" PROVE Rest(f) \in Seq(Octet)
  BY <1>4 DEF Rest, IsField
<1>5. Rest(f) \in Seq(Octet)
  BY <1>2, <1>3, <1>4
<1>6. Field(f) = tag \o Rest(f)
  BY DEF Field, Rest
<1>7. /\ Field(f) \in Seq(Octet) /\ Len(Field(f)) = Len(tag) + Len(Rest(f))
      /\ Len(Rest(f)) \in Nat
  BY <1>1, <1>5, <1>6
<1>8. f.kind = "varint" /\ f.no < 16 => v < 128
  BY Kinds DEF IsField
<1> HIDE DEF tag, v
<1>9. ASSUME f.kind = "varint", f.no < 16 PROVE Len(Field(f)) <= 11
  <2>1. \A m \in Nat : m <= 10 => 1 + m <= 11
    OBVIOUS
  <2> QED BY Zenon, <1>1, <1>2, <1>7, <1>8, <1>9, <2>1
<1>10. Len(Field(f)) \in Nat \ {0}
  <2>1. \A k \in 1 .. 10, m \in Nat : k + m \in Nat \ {0}
    OBVIOUS
  <2> QED BY Zenon, <1>1, <1>7, <2>1
<1> QED BY Zenon, <1>1, <1>5, <1>6, <1>7, <1>9, <1>10 DEF tag

\* What serialize_message writes for a field, parse_message finds in its place.
LEMMA FieldThere ==
    ASSUME data \in Seq(Octet), offset \in Nat, NEW f, IsField(f), Holds(data, offset, Field(f))
    PROVE  LET end == offset + Len(Field(f))
           IN  /\ offset < Len(data) /\ IsVarint(offset)
               /\ FieldNo = f.no /\ WireNo = WireOf[f.kind]
               /\ f.kind = "varint"  => IsVarint(Start) /\ ValueAt(Start) = f.value
                                        /\ After(Start) = end
               /\ f.kind = "bytes"   => IsVarint(Start) /\ End = end
                     /\ SubSeq(data, After(Start) + 1, Min({End, Len(data)})) = f.value
               /\ f.kind = "fixed64" => Start + 8 = end
               /\ f.kind = "fixed32" => Start + 4 = end
<1> DEFINE tag == Tag(f.no, WireOf[f.kind])
           end == offset + Len(Field(f))
<1>1. /\ tag \in Seq(Octet) /\ Rest(f) \in Seq(Octet) /\ Field(f) = tag \o Rest(f)
      /\ Len(Field(f)) \in Nat \ {0} /\ Len(Field(f)) = Len(tag) + Len(Rest(f))
      /\ Len(tag) \in Nat /\ Len(Rest(f)) \in Nat /\ Len(data) \in Nat
  BY FieldShape
<1>2. Holds(data, offset, tag) /\ Holds(data, offset + Len(tag), Rest(f)) /\ end <= Len(data)
  <2>1. Holds(data, offset, tag \o Rest(f))
    BY <1>1
  <2>2. Holds(data, offset, tag) /\ Holds(data, offset + Len(tag), Rest(f))
    BY Zenon, <1>1, <2>1, HoldsParts
  <2> QED BY <2>2 DEF Holds
<1>3. IsVarint(offset) /\ Start = offset + Len(tag)
      /\ ValueAt(offset) = 8 * f.no + WireOf[f.kind]
  BY <1>2, VarintThere DEF Tag, Start, IsField
<1>4. FieldNo = f.no /\ WireNo = WireOf[f.kind]
  <2>1. \A n \in Nat : \A w \in 0 .. 7 : (8 * n + w) \div 8 = n /\ (8 * n + w) % 8 = w
    OBVIOUS
  <2>2. f.no \in Nat /\ WireOf[f.kind] \in 0 .. 7
    BY Kinds DEF IsField
  <2> QED BY <1>3, <2>1, <2>2 DEF FieldNo, WireNo
<1>5. offset < Len(data)
  BY <1>1, <1>2
<1>6. Start \in Nat /\ end = Start + Len(Rest(f)) /\ Holds(data, Start, Rest(f))
  BY <1>1, <1>2, <1>3
<1> HIDE DEF end, tag
<1>7. ASSUME f.kind = "varint"
      PROVE  IsVarint(Start) /\ ValueAt(Start) = f.value /\ After(Start) = end
  <2>1. Rest(f) = Varint(f.value) /\ Fits(f.value)
    BY <1>7 DEF Rest, IsField
  <2> QED BY <1>6, <2>1, VarintThere
<1>8. ASSUME f.kind = "bytes"
      PROVE  /\ IsVarint(Start) /\ End = end
             /\ SubSeq(data, After(Start) + 1, Min({End, Len(data)})) = f.value
  <2> DEFINE x == f.value
             n == Varint(Len(x))
  <2>1. /\ x \in Seq(Octet) /\ Len(x) \in Nat /\ Fits(Len(x)) /\ Rest(f) = n \o x
    <3>1. Rest(f) = n \o x
      BY <1>8 DEF Rest
    <3>2. x \in Seq(Octet) /\ Fits(Len(x))
      BY <1>8 DEF IsField
    <3> QED BY <3>1, <3>2
  <2>2. n \in Seq(Octet) /\ Len(n) \in Nat
    BY <2>1, VarintShape
  <2> HIDE DEF x, n
  <2>3. /\ Holds(data, Start, n) /\ Holds(data, Start + Len(n), x) /\ Len(Rest(f)) = Len(n) + Len(x)
    BY <1>6, <2>1, <2>2, HoldsParts
  <2>4. IsVarint(Start) /\ After(Start) = Start + Len(n) /\ ValueAt(Start) = Len(x)
    BY <1>6, <2>1, <2>3, VarintThere DEF n
  <2>5. End = end /\ End = After(Start) + Len(x) /\ After(Start) \in Nat /\ End \in Nat
    BY <1>6, <2>1, <2>2, <2>3, <2>4 DEF End
  <2>6. Min({End, Len(data)}) = End
    <3>1. {End, Len(data)} \subseteq Nat /\ \A y \in {End, Len(data)} : End <= y
      BY <1>1, <1>2, <2>5
    <3> QED BY <3>1, LeastIsMin
  <2>7. /\ SubSeq(data, After(Start) + 1, End) \in Seq(Octet)
        /\ Len(SubSeq(data, After(Start) + 1, End)) = Len(x)
        /\ \A k \in 1 .. Len(x) : SubSeq(data, After(Start) + 1, End)[k] = x[k]
    <3>1. After(Start) <= End /\ End <= Len(data) /\ End - After(Start) = Len(x)
      BY <1>2, <2>1, <2>5
    <3>2. \A k \in 1 .. Len(x) : data[After(Start) + k] = x[k]
      BY <2>3, <2>4 DEF Holds
    <3> DEFINE y == SubSeq(data, After(Start) + 1, End)
    <3>3. /\ y \in Seq(Octet) /\ Len(y) = End - After(Start)
          /\ \A k \in 1 .. End - After(Start) : y[k] = data[After(Start) + k]
      BY <2>5, <3>1, Slice
    <3> HIDE DEF y
    <3>4. /\ y \in Seq(Octet) /\ Len(y) = Len(x) /\ \A k \in 1 .. Len(x) : y[k] = x[k]
      BY <3>1, <3>2, <3>3
    <3> QED BY <3>4 DEF y
  <2>8. SubSeq(data, After(Start) + 1, End) = x
    BY <2>1, <2>7, SeqEqual
  <2> QED BY <2>4, <2>5, <2>6, <2>8 DEF x
<1>9. /\ f.kind = "fixed64" => Start + 8 = end
      /\ f.kind = "fixed32" => Start + 4 = end
  BY <1>6 DEF Rest, IsField
<1> QED BY <1>3, <1>4, <1>5, <1>7, <1>8, <1>9 DEF end

-----------------------------------------------------------------------------
(* MessageWire: writing a message and parsing it.                           *)

\* Where the fields of a message are, and what follows them.
Fields == message.fields
Last   == cuts[Len(cuts)]
Layout ==
    /\ cuts[1] = 0 /\ Len(cuts) <= Len(Fields) + 1
    /\ \A i, j \in 1 .. Len(cuts) : i < j => cuts[i] < cuts[j]
    /\ \A i \in 1 .. Len(cuts) - 1 : /\ Holds(data, cuts[i], Field(Fields[i]))
                                     /\ cuts[i + 1] = cuts[i] + Len(Field(Fields[i]))
    /\ message.padded => \A i \in 1 .. Len(cuts) : cuts[i] <= 11 * (i - 1)
    /\ status = "writing" => Len(data) = Last /\ offset = 0 /\ got = << >>
    /\ status # "writing" =>
          /\ Len(cuts) = Len(Fields) + 1
          /\ Len(data) = IF message.padded THEN Prefix ELSE Last
          /\ \A k \in Last + 1 .. Len(data) : data[k] = 0

\* What the parser has found when the fields before the i-th are behind it.
Found(i) == /\ DOMAIN got = {Fields[k].no : k \in {j \in 1 .. i - 1 : Fields[j].no \in message.known}}
            /\ \A k \in 1 .. i - 1 : Fields[k].no \in message.known =>
                  got[Fields[k].no] = Fields[k].value

\* The parser is at the beginning of a field, or behind the fields and an even
\* number of NULs.
AtField(i) == i \in 1 .. Len(Fields) /\ offset = cuts[i] /\ Found(i)
InTail     == /\ offset \in Last .. Len(data) /\ (offset - Last) % 2 = 0
              /\ Found(Len(Fields) + 1)
Progress == status # "writing" =>
    /\ (\E i \in 1 .. Len(Fields) : AtField(i)) \/ InTail
    /\ status = "done"   => offset = Len(data)
    /\ status = "raised" => message.padded /\ (Prefix - Last) % 2 = 1

MessageInv == MessageTypeOK /\ Layout /\ Progress

\* What MessageTypeOK and MessageAssumption say of the types of things.
LEMMA Typed ==
    ASSUME MessageTypeOK
    PROVE  /\ IsMessage(message) /\ Len(Fields) \in Nat
           /\ \A i \in 1 .. Len(Fields) : IsField(Fields[i])
           /\ Len(data) \in Nat /\ data \in Seq(Octet)
           /\ Len(cuts) \in Nat \ {0} /\ Last \in Nat
           /\ \A i \in 1 .. Len(cuts) : cuts[i] \in Nat
           /\ offset \in 0 .. Len(data)
           /\ Prefix \in Nat /\ Prefix > 44
<1>1. IsMessage(message) /\ Prefix \in Nat /\ Prefix > 44
  BY MessageAssumption DEF MessageTypeOK
<1>2. Len(Fields) \in Nat /\ \A i \in 1 .. Len(Fields) : IsField(Fields[i])
  BY <1>1 DEF IsMessage, Fields
<1>3. /\ Len(cuts) \in Nat \ {0} /\ \A i \in 1 .. Len(cuts) : cuts[i] \in Nat
  <2>1. cuts \in Seq(Nat) /\ cuts # << >>
    BY DEF MessageTypeOK
  <2> QED BY <2>1
<1>4. Last \in Nat
  BY <1>3 DEF Last
<1>5. Len(data) \in Nat /\ data \in Seq(Octet) /\ offset \in 0 .. Len(data)
  BY DEF MessageTypeOK
<1> QED BY <1>1, <1>2, <1>3, <1>4, <1>5

\* Nothing is written yet.
LEMMA InitMessage == MessageInit => MessageInv
<1> SUFFICES ASSUME MessageInit PROVE MessageInv
  OBVIOUS
<1>1. /\ message \in Messages /\ data = << >> /\ cuts = <<0>> /\ offset = 0
      /\ got = << >> /\ status = "writing"
  BY DEF MessageInit
<1>2. Len(cuts) = 1 /\ cuts[1] = 0 /\ Last = 0 /\ Len(data) = 0 /\ DOMAIN got = {}
  BY <1>1 DEF Last
<1>3. MessageTypeOK
  BY <1>1, <1>2, MessageAssumption DEF MessageTypeOK
<1>4. Layout
  <2>1. Len(Fields) \in Nat
    BY <1>3, Typed
  <2> QED BY <1>1, <1>2, <2>1 DEF Layout
<1> QED BY <1>1, <1>3, <1>4 DEF MessageInv, Progress

\* A field is added behind those that are written.
LEMMA StepWrite ==
    ASSUME MessageInv, WriteField
    PROVE  MessageInv'
<1> DEFINE m == Len(cuts)
           x == Field(Fields[m])
<1>0. MessageTypeOK /\ Layout
  BY DEF MessageInv
<1>1. /\ status = "writing" /\ m <= Len(Fields) /\ data' = data \o x
      /\ cuts' = Append(cuts, Len(data')) /\ status' = status
      /\ UNCHANGED <<message, offset, got>>
  BY DEF WriteField, Fields
<1>2. /\ m \in Nat \ {0} /\ Len(Fields) \in Nat /\ m \in 1 .. Len(Fields)
      /\ IsField(Fields[m]) /\ Len(data) \in Nat /\ data \in Seq(Octet)
      /\ \A i \in 1 .. m : cuts[i] \in Nat
  BY <1>0, <1>1, Typed
<1>3. x \in Seq(Octet) /\ Len(x) \in Nat \ {0}
  BY <1>2, FieldShape
<1> HIDE DEF x
<1>4. /\ data' \in Seq(Octet) /\ Len(data') = Len(data) + Len(x)
      /\ \A o \in Nat : \A s \in Seq(Octet) : Holds(data, o, s) => Holds(data', o, s)
      /\ Holds(data', Len(data), x)
  BY Zenon, <1>1, <1>2, <1>3, HoldsGrow
<1>5. /\ cuts' \in Seq(Nat) /\ Len(cuts') = m + 1 /\ cuts'[m + 1] = Len(data')
      /\ \A i \in 1 .. m : cuts'[i] = cuts[i]
      /\ cuts[m] = Len(data)
  <2>1. Len(data') \in Nat /\ cuts \in Seq(Nat)
    BY <1>0, <1>2, <1>3, <1>4 DEF MessageTypeOK
  <2>2. cuts[m] = Len(data)
    BY <1>0, <1>1 DEF Layout, Last
  <2> QED BY <1>1, <2>1, <2>2
<1> HIDE DEF x, m
<1>6. \A i, j \in 1 .. m + 1 : i < j => cuts'[i] < cuts'[j]
  <2> SUFFICES ASSUME NEW i \in 1 .. m + 1, NEW j \in 1 .. m + 1, i < j
               PROVE  cuts'[i] < cuts'[j]
    OBVIOUS
  <2>1. i \in 1 .. m /\ m \in 1 .. m
    BY <1>2
  <2>2. CASE j = m + 1
    <3>1. cuts[i] <= cuts[m]
      <4>1. i = m \/ i < m
        BY <1>2, <2>1
      <4>2. \A a, b \in 1 .. m : a < b => cuts[a] < cuts[b]
        BY <1>0 DEF Layout, m
      <4> QED BY <1>2, <2>1, <4>1, <4>2
    <3>2. cuts'[i] <= Len(data) /\ cuts'[j] = Len(data) + Len(x) /\ cuts'[i] \in Nat
      BY <1>2, <1>4, <1>5, <2>1, <2>2, <3>1
    <3> QED BY <1>2, <1>3, <3>2
  <2>3. CASE j # m + 1
    <3>1. j \in 1 .. m
      BY <1>2, <2>3
    <3> QED BY <1>0, <1>5, <2>1, <3>1 DEF Layout, m
  <2> QED BY <2>2, <2>3
<1>7. ASSUME NEW i \in 1 .. m
      PROVE  /\ Holds(data', cuts'[i], Field(Fields[i]))
             /\ cuts'[i + 1] = cuts'[i] + Len(Field(Fields[i]))
  <2>1. CASE i = m
    <3>1. cuts'[i] = Len(data) /\ cuts'[i + 1] = Len(data) + Len(x)
      BY <1>2, <1>4, <1>5, <2>1
    <3> QED BY <1>4, <2>1, <3>1 DEF x
  <2>2. CASE i # m
    <3>1. i \in 1 .. m - 1 /\ i + 1 \in 1 .. m /\ i \in 1 .. Len(Fields)
      BY <1>1, <1>2, <2>2 DEF m
    <3>2. /\ Holds(data, cuts[i], Field(Fields[i]))
          /\ cuts[i + 1] = cuts[i] + Len(Field(Fields[i]))
      BY <1>0, <3>1 DEF Layout, m
    <3>3. Field(Fields[i]) \in Seq(Octet)
      BY <1>0, <3>1, Typed, FieldShape
    <3>4. cuts'[i] = cuts[i] /\ cuts'[i + 1] = cuts[i + 1]
      BY <1>5, <3>1
    <3> QED BY <1>2, <1>4, <3>2, <3>3, <3>4
  <2> QED BY <2>1, <2>2
<1>8. ASSUME message.padded
      PROVE  /\ \A i \in 1 .. m + 1 : cuts'[i] <= 11 * (i - 1)
             /\ Len(data') <= Prefix
  <2>1. Fields[m].kind = "varint" /\ Fields[m].no < 16 /\ m <= 4
    <3>1. IsMessage(message)
      BY <1>0, Typed
    <3>2. /\ Len(Fields) <= 4
          /\ \A i \in 1 .. Len(Fields) : Fields[i].kind = "varint" /\ Fields[i].no < 16
      BY <1>8, <3>1 DEF IsMessage, Fields
    <3>3. m <= 4
      BY <1>1, <1>2, <3>2
    <3> QED BY Zenon, <1>2, <3>2, <3>3
  <2>2. Len(x) <= 11
    BY <1>2, <2>1, FieldShape DEF x
  <2>3. \A i \in 1 .. m : cuts[i] <= 11 * (i - 1)
    BY <1>0, <1>8 DEF Layout, m
  <2>4. Len(data) <= 11 * (m - 1)
    BY <1>2, <1>5, <2>3
  <2>5. Len(data') <= 11 * m /\ Len(data') <= 44
    BY <1>2, <1>3, <1>4, <2>1, <2>2, <2>4
  <2>6. Len(data') <= Prefix
    BY <1>2, <1>3, <1>4, <2>5, MessageAssumption
  <2>7. ASSUME NEW i \in 1 .. m + 1 PROVE cuts'[i] <= 11 * (i - 1)
    <3>1. CASE i = m + 1
      <4>1. i - 1 = m
        BY <1>2, <3>1
      <4> QED BY <1>5, <2>5, <3>1, <4>1
    <3>2. CASE i # m + 1
      <4>1. i \in 1 .. m
        BY <1>2, <3>2
      <4> QED BY <1>5, <2>3, <4>1
    <3> QED BY <3>1, <3>2
  <2> QED BY <2>6, <2>7
<1>9. /\ offset = 0 /\ got = << >> /\ cuts[1] = 0
  BY <1>0, <1>1 DEF Layout
<1>10. MessageTypeOK'
  <2>1. cuts' # << >>
    BY <1>2, <1>5
  <2>2. 0 \in 0 .. Len(data')
    BY <1>2, <1>3, <1>4
  <2> QED BY <1>0, <1>1, <1>4, <1>5, <1>8, <1>9, <2>1, <2>2 DEF MessageTypeOK
<1>11. Layout'
  <2>1. /\ Len(cuts') = m + 1 /\ Fields' = Fields /\ m + 1 - 1 = m /\ 1 \in 1 .. m
        /\ m + 1 <= Len(Fields) + 1
    BY <1>1, <1>2, <1>5 DEF Fields
  <2>2. cuts'[1] = 0 /\ Last' = Len(data')
    BY <1>5, <1>9, <2>1 DEF Last
  <2>3. Len(cuts') - 1 = m
    BY <1>2, <2>1
  <2>4. \A i \in 1 .. Len(cuts') - 1 : /\ Holds(data', cuts'[i], Field(Fields'[i]))
                                       /\ cuts'[i + 1] = cuts'[i] + Len(Field(Fields'[i]))
    BY Zenon, <1>7, <2>1, <2>3
  <2>5. /\ \A i, j \in 1 .. Len(cuts') : i < j => cuts'[i] < cuts'[j]
        /\ message'.padded => \A i \in 1 .. Len(cuts') : cuts'[i] <= 11 * (i - 1)
    BY Zenon, <1>1, <1>6, <1>8, <2>1
  <2> QED BY <1>1, <1>9, <2>1, <2>2, <2>4, <2>5 DEF Layout
<1> QED BY <1>1, <1>10, <1>11 DEF MessageInv, Progress

\* The message goes off, filled up with NULs if it is a header.
LEMMA StepSend ==
    ASSUME MessageInv, Send
    PROVE  MessageInv'
<1> DEFINE pad == [i \in 1 .. Prefix - Len(data) |-> 0]
           x == IF message.padded THEN pad ELSE << >>
<1>0. MessageTypeOK /\ Layout
  BY DEF MessageInv
<1>1. /\ status = "writing" /\ Len(cuts) > Len(Fields) /\ status' = "parsing"
      /\ data' = (IF message.padded THEN data \o pad ELSE data)
      /\ UNCHANGED <<message, cuts, offset, got>>
  BY DEF Send, Pad, Fields
<1>2. /\ Len(Fields) \in Nat /\ Len(cuts) \in Nat \ {0} /\ Len(data) \in Nat
      /\ data \in Seq(Octet) /\ Last \in Nat /\ \A i \in 1 .. Len(cuts) : cuts[i] \in Nat
      /\ Prefix \in Nat /\ \A i \in 1 .. Len(Fields) : IsField(Fields[i])
  BY <1>0, Typed
<1>3. /\ Len(cuts) = Len(Fields) + 1 /\ Len(data) = Last /\ offset = 0 /\ got = << >>
      /\ cuts[1] = 0 /\ (message.padded => Len(data) <= Prefix)
  BY <1>0, <1>1, <1>2 DEF Layout, MessageTypeOK
<1>4. /\ x \in Seq(Octet) /\ data' = data \o x
      /\ Len(x) = (IF message.padded THEN Prefix - Len(data) ELSE 0)
      /\ \A k \in 1 .. Len(x) : x[k] = 0
  <2>1. CASE message.padded
    <3>1. Prefix - Len(data) \in Nat
      BY <1>2, <1>3, <2>1
    <3>2. pad \in [1 .. Prefix - Len(data) -> Octet]
      BY DEF Octet
    <3>3. pad \in Seq(Octet) /\ Len(pad) = Prefix - Len(data)
      BY <3>1, <3>2
    <3> QED BY <1>1, <2>1, <3>3
  <2>2. CASE ~ message.padded
    BY <1>1, <1>2, <2>2
  <2> QED BY <2>1, <2>2
<1> HIDE DEF x, pad
<1>5. /\ data' \in Seq(Octet) /\ Len(data') = Len(data) + Len(x)
      /\ \A o \in Nat : \A s \in Seq(Octet) : Holds(data, o, s) => Holds(data', o, s)
      /\ Holds(data', Len(data), x)
  BY <1>2, <1>4, HoldsGrow
<1>6. Len(data') = (IF message.padded THEN Prefix ELSE Last)
  BY <1>2, <1>3, <1>4, <1>5
<1>7. ASSUME NEW k \in Last + 1 .. Len(data') PROVE data'[k] = 0
  <2>1. /\ k - Len(data) \in 1 .. Len(x) /\ Len(data) + (k - Len(data)) = k
    <3>1. Len(x) \in Nat
      BY <1>4
    <3> QED BY <1>2, <1>3, <1>5, <3>1
  <2>2. data'[Len(data) + (k - Len(data))] = x[k - Len(data)]
    BY <1>2, <1>5, <2>1 DEF Holds
  <2> QED BY <1>4, <2>1, <2>2
<1>8. \A i \in 1 .. Len(cuts) - 1 : /\ Holds(data', cuts[i], Field(Fields[i]))
                                    /\ cuts[i + 1] = cuts[i] + Len(Field(Fields[i]))
  <2> SUFFICES ASSUME NEW i \in 1 .. Len(cuts) - 1
               PROVE  /\ Holds(data', cuts[i], Field(Fields[i]))
                      /\ cuts[i + 1] = cuts[i] + Len(Field(Fields[i]))
    OBVIOUS
  <2>1. i \in 1 .. Len(Fields) /\ i \in 1 .. Len(cuts)
    BY <1>2, <1>3
  <2>2. /\ Holds(data, cuts[i], Field(Fields[i])) /\ cuts[i] \in Nat
        /\ cuts[i + 1] = cuts[i] + Len(Field(Fields[i]))
    BY <1>0, <1>2, <2>1 DEF Layout
  <2>3. Field(Fields[i]) \in Seq(Octet)
    BY <1>2, <2>1, FieldShape
  <2> QED BY <1>5, <2>2, <2>3
<1>9. Layout'
  <2>1. Fields' = Fields /\ Last' = Last /\ cuts' = cuts /\ message' = message
    BY <1>1 DEF Fields, Last
  <2>2. /\ cuts[1] = 0 /\ Len(cuts) <= Len(Fields) + 1
        /\ \A i, j \in 1 .. Len(cuts) : i < j => cuts[i] < cuts[j]
        /\ message.padded => \A i \in 1 .. Len(cuts) : cuts[i] <= 11 * (i - 1)
    BY <1>0 DEF Layout
  <2> QED BY <1>1, <1>3, <1>6, <1>7, <1>8, <2>1, <2>2 DEF Layout
<1>10. MessageTypeOK'
  <2>1. 0 \in 0 .. Len(data')
    BY <1>2, <1>4, <1>5
  <2>2. message.padded => Len(data') <= Prefix
    BY <1>2, <1>6
  <2> QED BY <1>0, <1>1, <1>3, <1>5, <2>1, <2>2 DEF MessageTypeOK
<1>11. Progress'
  <2>1. Found(1)'
    <3>1. DOMAIN got' = {}
      BY <1>1, <1>3
    <3> QED BY <3>1 DEF Found
  <2>2. CASE Len(Fields) = 0
    <3>1. offset' \in Last' .. Len(data') /\ (offset' - Last') % 2 = 0
      <4>1. Last = 0 /\ Last' = Last
        BY <1>1, <1>2, <1>3, <2>2 DEF Last
      <4>2. Len(data') \in Nat
        BY <1>5
      <4> QED BY <1>1, <1>3, <4>1, <4>2
    <3>2. InTail'
      <4>1. Len(Fields') + 1 = 1
        BY <1>1, <2>2 DEF Fields
      <4>2. Found(Len(Fields) + 1)'
        BY <2>1, <4>1
      <4> QED BY <3>1, <4>2 DEF InTail
    <3> QED BY <1>1, <3>2 DEF Progress
  <2>3. CASE Len(Fields) # 0
    <3>1. 1 \in 1 .. Len(Fields')
      BY <1>1, <1>2, <2>3 DEF Fields
    <3>2. AtField(1)'
      <4>1. offset' = cuts'[1]
        BY <1>1, <1>3
      <4> QED BY <2>1, <3>1, <4>1 DEF AtField
    <3> QED BY <1>1, <3>1, <3>2 DEF Progress
  <2> QED BY <2>2, <2>3
<1> QED BY <1>9, <1>10, <1>11 DEF MessageInv

\* At the beginning of a field, parse_message sees that field.
LEMMA SeesField ==
    ASSUME MessageInv, status = "parsing", NEW i, AtField(i)
    PROVE  LET f == Fields[i]
           IN  /\ i \in 1 .. Len(Fields) /\ IsField(f)
               /\ cuts[i + 1] \in Nat /\ offset < cuts[i + 1]
               /\ IsVarint(offset) /\ FieldNo = f.no /\ WireNo = WireOf[f.kind]
               /\ (Known <=> f.no \in message.known)
               /\ (Known => f.kind \in {"varint", "bytes"})
               /\ f.kind = "varint"  => IsVarint(Start) /\ ValueAt(Start) = f.value
                                        /\ After(Start) = cuts[i + 1]
               /\ f.kind = "bytes"   => IsVarint(Start) /\ End = cuts[i + 1]
                     /\ SubSeq(data, After(Start) + 1, Min({End, Len(data)})) = f.value
               /\ f.kind = "fixed64" => Start + 8 = cuts[i + 1]
               /\ f.kind = "fixed32" => Start + 4 = cuts[i + 1]
<1> DEFINE f == Fields[i]
<1>0. MessageTypeOK /\ Layout /\ i \in 1 .. Len(Fields) /\ offset = cuts[i]
  BY DEF MessageInv, AtField
<1>1. /\ Len(Fields) \in Nat /\ IsField(f) /\ IsMessage(message) /\ data \in Seq(Octet)
      /\ \A k \in 1 .. Len(cuts) : cuts[k] \in Nat
  BY <1>0, Typed
<1>2. Len(cuts) = Len(Fields) + 1
  BY <1>0 DEF Layout
<1>3. i \in 1 .. Len(cuts) /\ i + 1 \in 1 .. Len(cuts) /\ i \in 1 .. Len(cuts) - 1
  BY <1>0, <1>1, <1>2
<1>4. Holds(data, cuts[i], Field(f)) /\ cuts[i + 1] = cuts[i] + Len(Field(f))
  BY <1>0, <1>3 DEF Layout
<1>5. cuts[i] \in Nat /\ cuts[i + 1] \in Nat
  BY <1>1, <1>3
<1>6. Len(Field(f)) \in Nat \ {0}
  BY <1>1, FieldShape
<1>7. f.no \in message.known => f.kind \in {"varint", "bytes"}
  BY <1>0, <1>1 DEF IsMessage, Fields
<1> HIDE DEF f
<1>8. /\ IsVarint(offset) /\ FieldNo = f.no /\ WireNo = WireOf[f.kind]
      /\ f.kind = "varint"  => IsVarint(Start) /\ ValueAt(Start) = f.value
                               /\ After(Start) = cuts[i + 1]
      /\ f.kind = "bytes"   => IsVarint(Start) /\ End = cuts[i + 1]
            /\ SubSeq(data, After(Start) + 1, Min({End, Len(data)})) = f.value
      /\ f.kind = "fixed64" => Start + 8 = cuts[i + 1]
      /\ f.kind = "fixed32" => Start + 4 = cuts[i + 1]
  <2>1. offset \in Nat /\ Holds(data, offset, Field(f)) /\ cuts[i + 1] = offset + Len(Field(f))
    BY <1>0, <1>4, <1>5
  <2> QED BY Zenon, <1>1, <2>1, FieldThere
<1>9. offset < cuts[i + 1]
  BY <1>0, <1>4, <1>5, <1>6
<1> QED BY <1>0, <1>1, <1>5, <1>7, <1>8, <1>9 DEF f, Known

\* Behind the fields there are NULs, of which it takes two for a field.
LEMMA SeesNuls ==
    ASSUME MessageInv, status = "parsing", InTail, offset < Len(data)
    PROVE  /\ message.padded /\ Len(data) = Prefix
           /\ IsVarint(offset) /\ ~ Known /\ WireNo = 0
           /\ Start = offset + 1
           /\ (IsVarint(Start) <=> offset + 1 < Len(data))
           /\ (IsVarint(Start) => After(Start) = offset + 2)
<1>0. MessageTypeOK /\ Layout
  BY DEF MessageInv
<1>1. /\ offset \in Nat /\ Len(data) \in Nat /\ data \in Seq(Octet) /\ Last \in Nat
      /\ Len(Fields) \in Nat /\ offset >= Last
  BY <1>0, Typed DEF InTail
<1>2. /\ Len(data) = IF message.padded THEN Prefix ELSE Last
      /\ \A k \in Last + 1 .. Len(data) : data[k] = 0
  BY <1>0 DEF Layout
<1>3. message.padded /\ Len(data) = Prefix
  BY <1>1, <1>2
<1>4. data[offset + 1] = 0
  BY <1>1, <1>2
<1>5. IsVarint(offset) /\ After(offset) = offset + 1 /\ ValueAt(offset) = 0
  BY <1>1, <1>4, NulThere
<1>6. FieldNo = 0 /\ WireNo = 0 /\ Start = offset + 1
  BY <1>5 DEF FieldNo, WireNo, Start
<1>7. ~ Known
  <2>1. IsMessage(message)
    BY <1>0, Typed
  <2> QED BY <1>6, <2>1 DEF Known, IsMessage
<1>8. ASSUME offset + 1 < Len(data)
      PROVE  IsVarint(Start) /\ After(Start) = offset + 2
  <2>1. /\ offset + 1 \in Nat /\ data[(offset + 1) + 1] = 0
        /\ (offset + 1) + 1 = offset + 2
    BY <1>1, <1>2, <1>8
  <2> QED BY <1>1, <1>6, <1>8, <2>1, NulThere
<1>9. ASSUME ~ (offset + 1 < Len(data)) PROVE ~ IsVarint(Start)
  <2>1. Stops(offset + 1) = {}
    BY <1>1, <1>9 DEF Stops
  <2> QED BY <1>6, <2>1 DEF IsVarint
<1> QED BY <1>3, <1>5, <1>6, <1>7, <1>8, <1>9

\* The parser goes on behind the i-th field with what it found there.
LEMMA Onward ==
    ASSUME MessageInv, status = "parsing", NEW i, AtField(i), offset' = cuts[i + 1],
           UNCHANGED <<message, data, cuts, status>>, Found(i + 1)'
    PROVE  MessageInv'
<1> DEFINE n == Len(Fields)
<1>0. MessageTypeOK /\ Layout /\ i \in 1 .. n
  BY DEF MessageInv, AtField
<1>1. /\ n \in Nat /\ \A k \in 1 .. Len(cuts) : cuts[k] \in Nat
      /\ Len(data) \in Nat /\ Last \in Nat /\ Prefix \in Nat
  BY <1>0, Typed
<1>2. /\ Len(cuts) = n + 1 /\ Last = cuts[n + 1]
      /\ Len(data) = IF message.padded THEN Prefix ELSE Last
  BY <1>0 DEF Layout, Last
<1>3. /\ i + 1 \in 1 .. n + 1 /\ n + 1 \in 1 .. n + 1 /\ i + 1 \in Nat
      /\ i + 1 = n + 1 \/ i + 1 < n + 1
  BY <1>0, <1>1
<1>4. /\ Fields' = Fields /\ Last' = Last /\ cuts' = cuts /\ data' = data
      /\ message' = message /\ status' = status
  BY DEF Fields, Last
<1>5. Last <= Len(data) /\ cuts[i + 1] <= Last /\ cuts[i + 1] \in Nat
  <2>1. cuts[i + 1] <= Last
    <3>1. \A a, b \in 1 .. n + 1 : a < b => cuts[a] < cuts[b]
      BY <1>0, <1>2 DEF Layout
    <3>2. cuts[i + 1] \in Nat /\ cuts[n + 1] \in Nat
      BY <1>1, <1>2, <1>3
    <3>3. CASE i + 1 = n + 1
      BY <1>2, <3>2, <3>3
    <3>4. CASE i + 1 < n + 1
      <4>1. cuts[i + 1] < cuts[n + 1]
        BY Zenon, <1>3, <3>1, <3>4
      <4> QED BY <1>2, <3>2, <4>1
    <3> QED BY <1>3, <3>3, <3>4
  <2>2. CASE message.padded
    <3>1. Last <= 11 * n /\ n <= 4
      <4>1. \A k \in 1 .. n + 1 : cuts[k] <= 11 * (k - 1)
        BY <1>0, <1>2, <2>2 DEF Layout
      <4>2. n <= 4
        BY <1>0, <2>2, Typed DEF IsMessage, Fields
      <4>3. cuts[n + 1] <= 11 * ((n + 1) - 1) /\ (n + 1) - 1 = n
        BY <1>1, <1>3, <4>1
      <4> QED BY <1>2, <4>2, <4>3
    <3> QED BY <1>1, <1>2, <1>3, <2>1, <2>2, <3>1, MessageAssumption
  <2>3. CASE ~ message.padded
    BY <1>1, <1>2, <1>3, <2>1, <2>3
  <2> QED BY <2>2, <2>3
<1>6. offset' \in 0 .. Len(data')
  BY <1>1, <1>4, <1>5
<1>7. DOMAIN got' \subseteq message'.known
  BY DEF Found
<1>8. MessageTypeOK'
  BY <1>0, <1>4, <1>6, <1>7 DEF MessageTypeOK
<1>9. Layout'
  BY <1>0, <1>4 DEF Layout
<1>10. CASE i + 1 = n + 1
  <2>1. (offset' - Last') % 2 = 0 /\ offset' \in Last' .. Len(data')
    BY <1>1, <1>2, <1>4, <1>5, <1>10
  <2>2. Found(Len(Fields) + 1)'
    BY <1>4, <1>10
  <2>3. InTail'
    BY <2>1, <2>2 DEF InTail
  <2> QED BY <1>4, <1>8, <1>9, <2>3 DEF MessageInv, Progress
<1>11. CASE i + 1 < n + 1
  <2>1. i + 1 \in 1 .. Len(Fields')
    BY <1>1, <1>3, <1>4, <1>11
  <2>2. AtField(i + 1)'
    BY <1>4, <2>1 DEF AtField
  <2> QED BY <1>4, <1>8, <1>9, <2>1, <2>2 DEF MessageInv, Progress
<1> QED BY <1>3, <1>10, <1>11

\* The parser has stopped, or nothing has happened.
LEMMA SamePlace ==
    ASSUME (\E i \in 1 .. Len(Fields) : AtField(i)) \/ InTail,
           UNCHANGED <<message, data, cuts, offset, got>>,
           status' = "done"   => offset = Len(data),
           status' = "raised" => message.padded /\ (Prefix - Last) % 2 = 1
    PROVE  Progress'
<1>1. /\ Fields' = Fields /\ Last' = Last /\ message' = message /\ data' = data
      /\ cuts' = cuts /\ offset' = offset /\ got' = got
  BY DEF Fields, Last
<1>2. \A i : Found(i)' <=> Found(i)
  BY <1>1 DEF Found
<1>3. CASE InTail
  <2>1. InTail'
    BY <1>1, <1>2, <1>3 DEF InTail
  <2> QED BY <1>1, <2>1 DEF Progress
<1>4. CASE \E i \in 1 .. Len(Fields) : AtField(i)
  <2>1. PICK i \in 1 .. Len(Fields) : AtField(i)
    BY <1>4
  <2>2. AtField(i)' /\ i \in 1 .. Len(Fields')
    BY <1>1, <1>2, <2>1 DEF AtField
  <2> QED BY <1>1, <2>2 DEF Progress
<1> QED BY <1>3, <1>4

\* The value of a field that the parser knows is stored.
LEMMA StoreField ==
    ASSUME MessageInv, status = "parsing", NEW i, AtField(i), Known,
           Store(Fields[i].value), UNCHANGED message
    PROVE  Found(i + 1)'
<1> DEFINE no == Fields[i].no
           K(m) == {j \in 1 .. m : Fields[j].no \in message.known}
<1>0. /\ i \in 1 .. Len(Fields) /\ FieldNo = no /\ no \in message.known
      /\ Len(Fields) \in Nat /\ Found(i) /\ IsMessage(message)
  BY SeesField, Typed DEF AtField, MessageInv
<1>1. /\ got' = [n \in DOMAIN got \cup {no} |-> IF n = no THEN Fields[i].value ELSE got[n]]
      /\ Fields' = Fields /\ message' = message
  BY <1>0 DEF Store, Fields
<1>2. /\ DOMAIN got = {Fields[k].no : k \in K(i - 1)}
      /\ \A k \in 1 .. i - 1 : Fields[k].no \in message.known => got[Fields[k].no] = Fields[k].value
  BY <1>0 DEF Found
<1>3. K(i) = K(i - 1) \cup {i}
  BY <1>0
<1>4. DOMAIN got' = {Fields[k].no : k \in K(i)}
  BY <1>1, <1>2, <1>3
<1>5. ASSUME NEW k \in 1 .. i, Fields[k].no \in message.known
      PROVE  got'[Fields[k].no] = Fields[k].value
  <2>1. CASE k = i
    BY <1>1, <2>1
  <2>2. CASE k # i
    <3>1. k \in 1 .. i - 1 /\ k \in 1 .. Len(Fields)
      BY <1>0, <2>2
    <3>2. Fields[k].no # no
      BY <1>0, <1>5, <2>2, <3>1 DEF IsMessage, Fields
    <3>3. Fields[k].no \in DOMAIN got /\ got[Fields[k].no] = Fields[k].value
      BY <1>2, <1>5, <3>1
    <3> QED BY <1>1, <3>2, <3>3
  <2> QED BY <2>1, <2>2
<1>6. (i + 1) - 1 = i
  BY <1>0
<1>7. DOMAIN got' = {Fields'[k].no : k \in {j \in 1 .. i : Fields'[j].no \in message'.known}}
  BY <1>1, <1>4
<1>8. \A k \in 1 .. i : Fields'[k].no \in message'.known =>
         got'[Fields'[k].no] = Fields'[k].value
  BY Zenon, <1>1, <1>5
<1> HIDE DEF no, K
<1> QED BY <1>6, <1>7, <1>8 DEF Found

\* A field that it does not know leaves nothing.
LEMMA PassField ==
    ASSUME MessageInv, status = "parsing", NEW i, AtField(i), ~ Known,
           UNCHANGED <<message, got>>
    PROVE  Found(i + 1)'
<1>0. /\ i \in 1 .. Len(Fields) /\ Fields[i].no \notin message.known
      /\ Len(Fields) \in Nat /\ Found(i)
  BY SeesField, Typed DEF AtField, MessageInv
<1>1. Fields' = Fields /\ message' = message /\ got' = got
  BY DEF Fields
<1>2. {j \in 1 .. i : Fields[j].no \in message.known}
        = {j \in 1 .. i - 1 : Fields[j].no \in message.known}
  BY <1>0
<1>3. \A k \in 1 .. i : Fields[k].no \in message.known => k \in 1 .. i - 1
  BY <1>0
<1>4. (i + 1) - 1 = i
  BY <1>0
<1> QED BY <1>0, <1>1, <1>2, <1>3, <1>4 DEF Found

\* A field that the parser knows.
LEMMA StepTake ==
    ASSUME MessageInv, TakeVarint \/ TakeBytes
    PROVE  MessageInv'
<1>1. /\ status = "parsing" /\ offset < Len(data) /\ Known
      /\ UNCHANGED <<message, data, cuts, status>>
  BY DEF TakeVarint, TakeBytes, HasTag
<1>2. ~ InTail
  BY <1>1, SeesNuls
<1>3. PICK i \in 1 .. Len(Fields) : AtField(i)
  BY <1>1, <1>2 DEF MessageInv, Progress
<1> DEFINE f == Fields[i]
<1>4. /\ IsField(f) /\ WireNo = WireOf[f.kind]
      /\ f.kind = "varint"  => ValueAt(Start) = f.value /\ After(Start) = cuts[i + 1]
      /\ f.kind = "bytes"   => End = cuts[i + 1]
            /\ SubSeq(data, After(Start) + 1, Min({End, Len(data)})) = f.value
  BY <1>1, <1>3, SeesField
<1>5. (WireOf[f.kind] = 0 <=> f.kind = "varint") /\ (WireOf[f.kind] = 2 <=> f.kind = "bytes")
  BY <1>4, Kinds
<1>6. Store(f.value) /\ offset' = cuts[i + 1]
  <2>1. CASE TakeVarint
    BY <1>4, <1>5, <2>1 DEF TakeVarint
  <2>2. CASE TakeBytes
    BY <1>4, <1>5, <2>2 DEF TakeBytes, IsSized
  <2> QED BY <2>1, <2>2
<1>7. Found(i + 1)'
  BY <1>1, <1>3, <1>6, StoreField
<1> QED BY <1>1, <1>3, <1>6, <1>7, Onward

\* A field that it does not know, or a pair of NULs.
LEMMA StepSkip ==
    ASSUME MessageInv, Skip
    PROVE  MessageInv'
<1>1. /\ status = "parsing" /\ offset < Len(data) /\ ~ Known
      /\ UNCHANGED <<message, data, cuts, got, status>>
  BY DEF Skip, HasTag
<1>2. ASSUME NEW i \in 1 .. Len(Fields), AtField(i) PROVE MessageInv'
  <2> DEFINE f == Fields[i]
  <2>1. /\ IsField(f) /\ WireNo = WireOf[f.kind]
        /\ f.kind = "varint"  => After(Start) = cuts[i + 1]
        /\ f.kind = "bytes"   => End = cuts[i + 1]
        /\ f.kind = "fixed64" => Start + 8 = cuts[i + 1]
        /\ f.kind = "fixed32" => Start + 4 = cuts[i + 1]
    BY <1>1, <1>2, SeesField
  <2>2. /\ (WireOf[f.kind] = 0 <=> f.kind = "varint")
        /\ (WireOf[f.kind] = 1 <=> f.kind = "fixed64")
        /\ (WireOf[f.kind] = 2 <=> f.kind = "bytes")
        /\ (WireOf[f.kind] = 5 <=> f.kind = "fixed32")
    BY <2>1, Kinds
  <2>3. offset' = cuts[i + 1]
    BY <2>1, <2>2 DEF Skip, IsSized
  <2>4. Found(i + 1)'
    BY <1>1, <1>2, PassField
  <2> QED BY <1>1, <1>2, <2>3, <2>4, Onward
<1>3. ASSUME InTail PROVE MessageInv'
  <2>0. MessageTypeOK /\ Layout
    BY DEF MessageInv
  <2>1. /\ WireNo = 0
        /\ (IsVarint(Start) <=> offset + 1 < Len(data))
        /\ (IsVarint(Start) => After(Start) = offset + 2)
    BY <1>1, <1>3, SeesNuls
  <2>2. offset' = offset + 2 /\ offset + 1 < Len(data)
    BY <2>1 DEF Skip, IsSized
  <2>3. offset \in Nat /\ Len(data) \in Nat /\ Last \in Nat
    BY <2>0, Typed
  <2>4. /\ Fields' = Fields /\ Last' = Last /\ cuts' = cuts /\ data' = data
        /\ message' = message /\ status' = status /\ got' = got
    BY <1>1 DEF Fields, Last
  <2>5. offset' \in 0 .. Len(data') /\ offset' \in Last' .. Len(data')
        /\ (offset' - Last') % 2 = 0
    <3>1. offset \in Last .. Len(data) /\ (offset - Last) % 2 = 0
      BY <1>3 DEF InTail
    <3> QED BY <2>2, <2>3, <2>4, <3>1
  <2>6. InTail'
    BY <1>3, <2>4, <2>5 DEF InTail, Found
  <2>7. MessageTypeOK' /\ Layout'
    BY <2>0, <2>4, <2>5, <1>1 DEF MessageTypeOK, Layout
  <2> QED BY <1>1, <2>4, <2>6, <2>7 DEF MessageInv, Progress
<1> QED BY <1>1, <1>2, <1>3 DEF MessageInv, Progress

\* Only the last of an odd number of NULs makes it raise.
LEMMA StepRaise ==
    ASSUME MessageInv, Raise
    PROVE  MessageInv'
<1>1. /\ status = "parsing" /\ offset < Len(data) /\ status' = "raised"
      /\ UNCHANGED <<message, data, cuts, offset, got>>
  BY DEF Raise
<1>2. ASSUME NEW i \in 1 .. Len(Fields), AtField(i) PROVE FALSE
  <2> DEFINE f == Fields[i]
  <2>1. /\ IsField(f) /\ IsVarint(offset) /\ WireNo = WireOf[f.kind]
        /\ Known => f.kind \in {"varint", "bytes"}
        /\ f.kind = "varint" => IsVarint(Start)
        /\ f.kind = "bytes"  => IsVarint(Start)
    BY <1>1, <1>2, SeesField
  <2>2. /\ WireOf[f.kind] \in {0, 1, 2, 5}
        /\ (WireOf[f.kind] = 0 <=> f.kind = "varint")
        /\ (WireOf[f.kind] = 2 <=> f.kind = "bytes")
    BY <2>1, Kinds
  <2> QED BY <2>1, <2>2 DEF Raise
<1>3. InTail
  BY <1>1, <1>2 DEF MessageInv, Progress
<1>4. /\ message.padded /\ Len(data) = Prefix /\ IsVarint(offset) /\ ~ Known /\ WireNo = 0
      /\ (IsVarint(Start) <=> offset + 1 < Len(data))
  BY <1>1, <1>3, SeesNuls
<1>5. ~ (offset + 1 < Len(data))
  BY <1>4 DEF Raise
<1>6. /\ MessageTypeOK /\ Layout /\ offset \in Nat /\ Len(data) \in Nat /\ Last \in Nat
  BY Typed DEF MessageInv
<1>7. (Prefix - Last) % 2 = 1
  <2>1. offset + 1 = Prefix
    BY <1>1, <1>4, <1>5, <1>6
  <2>2. offset >= Last /\ (offset - Last) % 2 = 0
    BY <1>3, <1>6 DEF InTail
  <2> QED BY <1>6, <2>1, <2>2
<1>8. Fields' = Fields /\ Last' = Last
  BY <1>1 DEF Fields, Last
<1>9. MessageTypeOK' /\ Layout'
  BY <1>1, <1>6, <1>8 DEF MessageTypeOK, Layout
<1>10. Progress'
  BY <1>1, <1>3, <1>4, <1>7, SamePlace
<1> QED BY <1>9, <1>10 DEF MessageInv

\* It finishes where the data ends.
LEMMA StepFinish ==
    ASSUME MessageInv, Finish
    PROVE  MessageInv'
<1>1. /\ status = "parsing" /\ offset >= Len(data) /\ status' = "done"
      /\ UNCHANGED <<message, data, cuts, offset, got>>
  BY DEF Finish
<1>2. MessageTypeOK /\ Layout /\ offset \in 0 .. Len(data) /\ Len(data) \in Nat
  BY Typed DEF MessageInv
<1>3. Fields' = Fields /\ Last' = Last /\ offset = Len(data)
  BY <1>1, <1>2 DEF Fields, Last
<1>4. MessageTypeOK' /\ Layout'
  BY <1>1, <1>2, <1>3 DEF MessageTypeOK, Layout
<1>5. (\E i \in 1 .. Len(Fields) : AtField(i)) \/ InTail
  BY <1>1 DEF MessageInv, Progress
<1>6. Progress'
  BY <1>1, <1>3, <1>5, SamePlace
<1> QED BY <1>4, <1>6 DEF MessageInv

\* The invariant is inductive.
LEMMA NextMessage == MessageInv /\ [MessageNext]_messageVars => MessageInv'
<1> SUFFICES ASSUME MessageInv, [MessageNext]_messageVars PROVE MessageInv'
  OBVIOUS
<1>1. CASE UNCHANGED messageVars
  <2>1. UNCHANGED <<message, data, cuts, offset, got, status>>
    BY <1>1 DEF messageVars
  <2>2. Fields' = Fields /\ Last' = Last
    BY <2>1 DEF Fields, Last
  <2>3. MessageTypeOK' /\ Layout'
    BY <2>1, <2>2 DEF MessageInv, MessageTypeOK, Layout
  <2>4. CASE status = "writing"
    BY <2>1, <2>3, <2>4 DEF MessageInv, Progress
  <2>5. CASE status # "writing"
    <3>1. /\ (\E i \in 1 .. Len(Fields) : AtField(i)) \/ InTail
          /\ status' = "done"   => offset = Len(data)
          /\ status' = "raised" => message.padded /\ (Prefix - Last) % 2 = 1
      BY <2>1, <2>5 DEF MessageInv, Progress
    <3> QED BY <2>1, <2>3, <3>1, SamePlace DEF MessageInv
  <2> QED BY <2>4, <2>5
<1>2. CASE Work
  BY <1>2, StepWrite, StepSend, StepTake, StepSkip, StepRaise, StepFinish DEF Work, Parse
<1> QED BY <1>1, <1>2 DEF MessageNext, Done

\* It implies both properties of the run.
LEMMA MessageHolds == MessageInv => ParsedAsWritten /\ RaisesOnOddPadding
<1> SUFFICES ASSUME MessageInv PROVE ParsedAsWritten /\ RaisesOnOddPadding
  OBVIOUS
<1> DEFINE n == Len(Fields)
<1>0. MessageTypeOK /\ Layout /\ Progress
  BY DEF MessageInv
<1>1. /\ n \in Nat /\ DOMAIN Fields = 1 .. n /\ offset \in 0 .. Len(data)
      /\ Len(data) \in Nat /\ Last \in Nat
  BY <1>0, Typed DEF IsMessage, Fields
<1>2. ASSUME status = "done" PROVE InTail /\ offset = Len(data)
  <2>1. offset = Len(data)
    BY <1>0, <1>2 DEF Progress
  <2>2. ASSUME NEW i \in 1 .. n, AtField(i) PROVE FALSE
    <3>1. /\ Len(cuts) = n + 1 /\ Holds(data, cuts[i], Field(Fields[i])) /\ offset = cuts[i]
      <4>1. Len(cuts) = n + 1
        BY <1>0, <1>2 DEF Layout
      <4>2. i \in 1 .. Len(cuts) - 1
        BY <1>1, <4>1
      <4> QED BY <1>0, <2>2, <4>1, <4>2 DEF Layout, AtField
    <3>2. Len(Field(Fields[i])) \in Nat \ {0}
      BY <1>0, Typed, FieldShape
    <3>3. offset + Len(Field(Fields[i])) <= Len(data)
      BY <3>1 DEF Holds
    <3> QED BY <1>1, <2>1, <3>2, <3>3
  <2> QED BY <1>0, <1>2, <2>1, <2>2 DEF Progress
<1>3. ParsedAsWritten
  <2> DEFINE wrote == {i \in DOMAIN Fields : Fields[i].no \in message.known}
  <2>1. ASSUME status = "done"
        PROVE  /\ DOMAIN got = {Fields[i].no : i \in wrote}
               /\ \A i \in wrote : got[Fields[i].no] = Fields[i].value
    <3>1. Found(n + 1) /\ (n + 1) - 1 = n
      BY <1>1, <1>2, <2>1 DEF InTail
    <3>2. wrote = {i \in 1 .. n : Fields[i].no \in message.known}
      BY <1>1
    <3> QED BY <3>1, <3>2 DEF Found
  <2> QED BY <1>0, <2>1 DEF ParsedAsWritten, Fields
<1>4. RaisesOnOddPadding
  <2>1. ASSUME status = "done", message.padded PROVE (Prefix - Last) % 2 # 1
    <3>1. Len(data) = Prefix /\ (offset - Last) % 2 = 0 /\ offset = Len(data)
      BY <1>0, <1>2, <2>1 DEF Layout, InTail
    <3> QED BY <3>1
  <2>2. status = "raised" => message.padded /\ (Prefix - Last) % 2 = 1
    BY <1>0 DEF Progress
  <2> QED BY <2>1, <2>2 DEF RaisesOnOddPadding, Last
<1> QED BY <1>3, <1>4

\* What serialize_message writes, parse_message reads: for any fields, with
\* varints of every length, values of any size and fields that it does not know.
THEOREM MessagesComeBack == MessageSpec => []ParsedAsWritten
BY InitMessage, NextMessage, MessageHolds, PTL DEF MessageSpec

\* For any message, parse_message raises exactly on a header with an odd number
\* of NULs behind its fields.
THEOREM OddPaddingOnly == MessageSpec => []RaisesOnOddPadding
BY InitMessage, NextMessage, MessageHolds, PTL DEF MessageSpec
=============================================================================
