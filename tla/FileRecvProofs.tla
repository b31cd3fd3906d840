--------------------------- MODULE FileRecvProofs ---------------------------
(***************************************************************************)
(* The safety of recv_file, for files of any length, any chunk contents,    *)
(* any set of headers that do not parse and sockets of any capacity.        *)
(***************************************************************************)
EXTENDS FileRecv, TLAPS

Types == /\ TypeOK
         /\ source \in UNION {[1 .. n -> Chunk] : n \in 0 .. MaxFile}

\* What the i-th frame of the daemon can be, for the device file s: it goes
\* through its sequence, and a [Fail] text can take any place.
Fits(i, m, s) ==
    \/ m = Text("fail")
    \/ i = 1 /\ m = Check(Len(s))
    \/ i > 1 /\ i < Len(s) + 2 /\ m = Data(i - 2, s[i - 1])
    \/ i = Len(s) + 2 /\ m = Finish(1)
    \/ i > Len(s) + 2 /\ m \in {Text("finish"), ChannelClose, Finish(0)}

\* What it has said, with the connection in one piece or not.
Said == /\ \A i \in 1 .. Len(down) : Fits(i, down[i], source)
        /\ dpc \in {"start", "begin"} => next = 0
        /\ peer = "open" => /\ dpc = "start" => Len(down) = 0
                            /\ dpc \in {"begin", "data"} => Len(down) = next + 1
                            /\ dpc = "finish" => Len(down) = Len(source) + 2

\* What it has heard.
Heard == /\ dpc \in {"start", "begin"} => ut = 0
         /\ dpc \in {"data", "finish"} => ut = 1

\* Where the frames the client has taken have brought it, while it is in its loop.
Looping ==
    pc = "loop" =>
       /\ result = "none"
       /\ dn = 0 => file = "none" /\ dest = Old /\ up = << >>
       /\ dn > 0 /\ dn < Len(source) + 2 =>
             file = "open" /\ dest = SubSeq(source, 1, dn - 1) /\ up = <<Begin>>
       /\ dn > Len(source) + 1 =>
             file = "closed" /\ dest = source /\ up = <<Begin, Finish(0)>>

\* What stays true after it has left.
Left ==
    /\ up \in {<< >>, <<Begin>>, <<Begin, Finish(0)>>}
    /\ up = <<Begin, Finish(0)>> \/ summary = "finish" => dest = source /\ file = "closed"
    /\ dest # Old => /\ dn > 0 /\ down[1].cmd = "CHECK"
                     /\ \E n \in 0 .. Len(source) : dest = SubSeq(source, 1, n)

IInv == Types /\ Said /\ Heard /\ Looping /\ Left
-----------------------------------------------------------------------------
(* Files and frames.                                                        *)

LEMMA FrameFacts ==
    /\ \A n : Check(n).cmd = "CHECK" /\ Check(n).size = n
    /\ \A i, c : Data(i, c).cmd = "DATA" /\ Data(i, c).index = i /\ Data(i, c).chunk = c
    /\ \A f : Finish(f).cmd = "FINISH" /\ Finish(f).flag = f
    /\ \A t : Text(t).cmd = "TEXT" /\ Text(t).text = t
    /\ ChannelClose.cmd = "CLOSE" /\ Begin.cmd = "BEGIN"
BY DEF Check, Data, Finish, Text, ChannelClose, Begin

LEMMA Prefixes ==
    ASSUME NEW S, NEW s \in Seq(S), NEW n \in 0 .. Len(s)
    PROVE  /\ SubSeq(s, 1, n) \in Seq(S) /\ Len(SubSeq(s, 1, n)) = n
           /\ SubSeq(s, 1, n) = [i \in 1 .. n |-> s[i]]
           /\ SubSeq(s, 1, 0) = << >> /\ SubSeq(s, 1, Len(s)) = s
OBVIOUS

\* A chunk written at the end of a prefix makes the next prefix.
LEMMA WriteAppends ==
    ASSUME NEW S, NEW s \in Seq(S), NEW n \in 1 .. Len(s)
    PROVE  WriteAt(SubSeq(s, 1, n - 1), n - 1, s[n]) = SubSeq(s, 1, n)
<1> DEFINE f == SubSeq(s, 1, n - 1)
<1>1. n - 1 \in 0 .. Len(s) /\ n \in Nat /\ (n - 1) + 1 = n
  OBVIOUS
<1>2. Len(f) = n - 1 /\ f = [i \in 1 .. n - 1 |-> s[i]]
  BY <1>1, Prefixes
<1>3. SubSeq(s, 1, n) = [i \in 1 .. n |-> s[i]]
  BY Prefixes
<1> HIDE DEF f
<1>4. (IF n > Len(f) THEN n ELSE Len(f)) = n
  BY <1>1, <1>2
<1>5. \A k \in 1 .. n : (IF k = n THEN s[n] ELSE IF k <= Len(f) THEN f[k] ELSE Hole) = s[k]
  BY <1>1, <1>2
<1>6. WriteAt(f, n - 1, s[n]) = [k \in 1 .. n |-> s[k]]
  BY <1>1, <1>4, <1>5 DEF WriteAt
<1> QED BY <1>3, <1>6 DEF f
-----------------------------------------------------------------------------
(* The channel.                                                             *)

\* What the daemon says is added while the connection stands.
LEMMA Says ==
    ASSUME NEW S, down \in Seq(S), NEW ms \in Seq(S), DaemonSays(ms)
    PROVE  /\ down' \in Seq(S)
           /\ Len(down') >= Len(down)
           /\ \A i \in 1 .. Len(down) : down'[i] = down[i]
           /\ peer # "open" => Len(down') = Len(down)
           /\ peer = "open" =>
                 /\ Len(down') = Len(down) + Len(ms)
                 /\ \A i \in 1 .. Len(ms) : down'[Len(down) + i] = ms[i]
<1>1. CASE peer = "open"
  <2>1. down' = down \o ms
    BY <1>1 DEF DaemonSays
  <2> QED BY <1>1, <2>1
<1>2. CASE peer # "open"
  BY <1>2 DEF DaemonSays
<1> QED BY <1>1, <1>2

\* A broken connection loses the end of it.
LEMMA Loses ==
    ASSUME NEW S, down \in Seq(S), dn \in 0 .. Len(down), LinkLost
    PROVE  /\ down' \in Seq(S)
           /\ Len(down') \in dn .. Len(down)
           /\ \A i \in 1 .. Len(down') : down'[i] = down[i]
           /\ peer' \in PeerStates \ {"open"}
<1>1. PICK k \in dn .. Len(down) : down' = SubSeq(down, 1, k)
  BY DEF LinkLost
<1>2. down' \in Seq(S) /\ Len(down') = k /\ \A i \in 1 .. k : down'[i] = down[i]
  BY <1>1
<1> QED BY <1>2 DEF LinkLost

LEMMA ShortSeqs ==
    ASSUME NEW S, NEW x \in S, NEW y \in S
    PROVE  /\ << >> \in Seq(S) /\ <<x>> \in Seq(S) /\ <<x, y>> \in Seq(S)
           /\ Append(<<x>>, y) = <<x, y>>
<1>1. << >> \in Seq(S) /\ <<x>> \in Seq(S) /\ <<x, y>> \in Seq(S)
  OBVIOUS
<1> DEFINE s == <<x>>
           t == Append(s, y)
           u == <<x, y>>
<1>2. s \in Seq(S) /\ Len(s) = 1 /\ s[1] = x
  OBVIOUS
<1>3. u \in Seq(S) /\ Len(u) = 2 /\ u[1] = x /\ u[2] = y
  OBVIOUS
<1> HIDE DEF s
<1>4. t \in Seq(S) /\ Len(t) = 2 /\ t[1] = x /\ t[2] = y
  <2>1. \A f \in Seq(S) : Append(f, y) \in Seq(S) /\ Len(Append(f, y)) = Len(f) + 1
    OBVIOUS
  <2>2. \A f \in Seq(S) : Append(f, y)[Len(f) + 1] = y
    OBVIOUS
  <2>3. \A f \in Seq(S) : \A i \in 1 .. Len(f) : Append(f, y)[i] = f[i]
    OBVIOUS
  <2>4. t \in Seq(S) /\ Len(t) = 1 + 1
    BY <1>2, <2>1
  <2>5. t[1 + 1] = y
    BY <1>2, <2>2
  <2>6. t[1] = s[1]
    <3>1. 1 \in 1 .. Len(s)
      BY <1>2
    <3> QED BY <1>2, <2>3, <3>1
  <2> HIDE DEF t
  <2> QED BY <1>2, <2>4, <2>5, <2>6
<1> HIDE DEF t, u
<1>5. t = [i \in 1 .. 2 |-> t[i]] /\ u = [i \in 1 .. 2 |-> u[i]]
  BY <1>3, <1>4
<1>6. \A i \in 1 .. 2 : t[i] = u[i]
  BY <1>3, <1>4
<1>7. t = u
  BY <1>5, <1>6
<1> QED BY <1>1, <1>7 DEF s, t, u

LEMMA Joined == ASSUME NEW S, NEW s \in Seq(S), NEW t \in Seq(S) PROVE s \o t \in Seq(S)
OBVIOUS

\* The indices and the device file, for the provers.
LEMMA Indices ==
    ASSUME Types
    PROVE  /\ up \in Seq({Begin, Finish(0)}) /\ down \in Seq(Frames)
           /\ Len(up) \in Nat /\ ut \in 0 .. Len(up) /\ ut \in Nat
           /\ Len(down) \in Nat /\ dn \in 0 .. Len(down) /\ dn \in Nat
           /\ Len(up) - ut <= UpMax /\ peer \in PeerStates
           /\ source \in Seq(Chunk) /\ Len(source) \in 0 .. MaxFile /\ Len(source) \in Nat
           /\ next \in 0 .. Len(source) /\ next \in Nat
<1>1. up \in Seq({Begin, Finish(0)}) /\ ut \in 0 .. Len(up)
  BY DEF Types, TypeOK, IndicesOK
<1>2. down \in Seq(Frames) /\ dn \in 0 .. Len(down)
  BY DEF Types, TypeOK, IndicesOK
<1>3. Len(up) - ut <= UpMax /\ peer \in PeerStates /\ next \in 0 .. Len(source)
  BY DEF Types, TypeOK, IndicesOK
<1>4. PICK n \in 0 .. MaxFile : source \in [1 .. n -> Chunk]
  BY DEF Types
<1>5. n \in Nat
  BY FileAssumption
<1>6. source \in Seq(Chunk) /\ Len(source) = n
  BY <1>4, <1>5
<1> QED BY <1>1, <1>2, <1>3, <1>5, <1>6

\* Said of one step: what is added has to fit where it comes to stand.
LEMMA SaysFits ==
    ASSUME Types, Said, NEW ms \in Seq(Frames), DaemonSays(ms), UNCHANGED source,
           peer = "open" => \A i \in 1 .. Len(ms) : Fits(Len(down) + i, ms[i], source)
    PROVE  /\ \A i \in 1 .. Len(down') : Fits(i, down'[i], source')
           /\ down' \in Seq(Frames)
           /\ Len(down') = IF peer = "open" THEN Len(down) + Len(ms) ELSE Len(down)
           /\ \A i \in 1 .. Len(down) : down'[i] = down[i]
<1>1. Len(down) \in Nat /\ Len(ms) \in Nat /\ down \in Seq(Frames)
  BY Indices
<1>2. /\ \A i \in 1 .. Len(down) : down'[i] = down[i]
      /\ down' \in Seq(Frames)
      /\ peer # "open" => Len(down') = Len(down)
      /\ peer = "open" => /\ Len(down') = Len(down) + Len(ms)
                          /\ \A i \in 1 .. Len(ms) : down'[Len(down) + i] = ms[i]
  BY <1>1, Says
<1>3. \A i \in 1 .. Len(down) : Fits(i, down'[i], source')
  BY <1>2 DEF Said
<1>4. ASSUME peer = "open", NEW i \in 1 .. Len(down'), i > Len(down)
      PROVE  Fits(i, down'[i], source')
  <2>1. i - Len(down) \in 1 .. Len(ms) /\ Len(down) + (i - Len(down)) = i
    BY <1>1, <1>2, <1>4
  <2>2. Fits(i, ms[i - Len(down)], source)
    BY <1>4, <2>1
  <2> QED BY <1>2, <1>4, <2>1, <2>2
<1> QED BY <1>1, <1>2, <1>3, <1>4

LEMMA SaysOne ==
    ASSUME Types, Said, NEW m \in Frames, DaemonSays(<<m>>), UNCHANGED source,
           peer = "open" => Fits(Len(down) + 1, m, source)
    PROVE  /\ \A i \in 1 .. Len(down') : Fits(i, down'[i], source')
           /\ down' \in Seq(Frames)
           /\ Len(down') = IF peer = "open" THEN Len(down) + 1 ELSE Len(down)
           /\ \A i \in 1 .. Len(down) : down'[i] = down[i]
<1> DEFINE ms == <<m>>
<1>1. ms \in Seq(Frames) /\ Len(ms) = 1 /\ ms[1] = m /\ DaemonSays(ms)
  OBVIOUS
<1> HIDE DEF ms
<1>2. peer = "open" => \A i \in 1 .. Len(ms) : Fits(Len(down) + i, ms[i], source)
  BY <1>1
<1> QED BY <1>1, <1>2, SaysFits
-----------------------------------------------------------------------------
(* The client.                                                              *)

\* The frame that is next can only be one the client can do with there.
LEMMA Taken ==
    ASSUME IInv, pc = "loop", dn < Len(down)
    PROVE  /\ dn + 1 \in 1 .. Len(down) /\ Frame \in Frames
           /\ Frame.cmd = "CHECK" => dn = 0
           /\ Frame.cmd = "DATA" => dn \in 1 .. Len(source) /\ Frame = Data(dn - 1, source[dn])
           /\ Frame.cmd = "FINISH" /\ Frame.flag = 1 => dn = Len(source) + 1
           /\ Frame.cmd = "FINISH" /\ Frame.flag = 0 => dn > Len(source) + 1
           /\ Frame.cmd = "TEXT" /\ Frame.text # "fail" =>
                 dn > Len(source) + 1 /\ Frame.text = "finish"
           /\ Frame.cmd = "CLOSE" => dn > Len(source) + 1
<1>1. /\ Len(down) \in Nat /\ dn \in Nat /\ Len(source) \in Nat
      /\ down \in Seq(Frames)
  BY Indices DEF IInv
<1>2. dn + 1 \in 1 .. Len(down) /\ Frame \in Frames /\ (dn + 1) - 1 = dn /\ (dn + 1) - 2 = dn - 1
  BY <1>1 DEF Frame
<1>3. Fits(dn + 1, Frame, source)
  BY <1>2 DEF Frame, IInv, Said
<1> DEFINE m == Frame
<1> HIDE DEF m
<1>4. CASE m = Text("fail")
  BY <1>2, <1>4, FrameFacts DEF m
<1>5. CASE dn + 1 = 1 /\ m = Check(Len(source))
  BY <1>1, <1>2, <1>5, FrameFacts DEF m
<1>6. CASE dn + 1 > 1 /\ dn + 1 < Len(source) + 2 /\ m = Data((dn + 1) - 2, source[(dn + 1) - 1])
  <2>1. dn \in 1 .. Len(source) /\ m = Data(dn - 1, source[dn])
    BY <1>1, <1>2, <1>6
  <2> QED BY <1>2, <2>1, FrameFacts DEF m
<1>7. CASE dn + 1 = Len(source) + 2 /\ m = Finish(1)
  BY <1>1, <1>2, <1>7, FrameFacts DEF m
<1>8. CASE dn + 1 > Len(source) + 2 /\ m \in {Text("finish"), ChannelClose, Finish(0)}
  <2>1. dn > Len(source) + 1
    BY <1>1, <1>8
  <2> QED BY <1>2, <1>8, <2>1, FrameFacts DEF m
<1> QED BY <1>3, <1>4, <1>5, <1>6, <1>7, <1>8 DEF Fits, m

\* CHECK comes first, while the target holds what it held.
LEMMA OnCheckDoes ==
    ASSUME IInv, OnCheck
    PROVE  /\ dn = 0 /\ dn' = 1 /\ 1 \in 1 .. Len(down) /\ down[1].cmd = "CHECK"
           /\ dest' = << >> /\ up = << >>
           /\ UNCHANGED <<ut, down, peer, summary, daemon>>
           /\ \/ Room /\ pc' = "loop" /\ result' = result /\ file' = "open" /\ up' = <<Begin>>
              \/ pc' = "done" /\ result' = "oserror" /\ file' = "closed" /\ up' = << >>
<1>1. pc = "loop" /\ dn < Len(down) /\ Frame.cmd = "CHECK"
  BY DEF OnCheck, Arrived, Frame
<1>2. dn = 0 /\ dn + 1 \in 1 .. Len(down)
  BY <1>1, Taken
<1>3. up = << >>
  BY <1>1, <1>2 DEF IInv, Looping
<1>4. Append(up, Begin) = <<Begin>>
  BY <1>3
<1>5. /\ dn' = dn + 1 /\ dest' = << >> /\ UNCHANGED <<ut, down, peer, summary, daemon>>
      /\ \/ Room /\ pc' = pc /\ result' = result /\ file' = "open" /\ up' = <<Begin>>
         \/ pc' = "done" /\ result' = "oserror" /\ file' = "closed" /\ up' = up
  BY <1>4 DEF OnCheck
<1> QED BY <1>1, <1>2, <1>3, <1>5 DEF Frame

\* Each DATA brings the chunk that is next.
LEMMA OnDataDoes ==
    ASSUME IInv, OnData
    PROVE  /\ dn \in 1 .. Len(source) /\ dn' = dn + 1 /\ dn' \in 1 .. Len(down)
           /\ file = "open" /\ up = <<Begin>> /\ pc = "loop"
           /\ dest' = SubSeq(source, 1, dn)
           /\ UNCHANGED <<up, ut, down, peer, pc, file, summary, result, daemon>>
<1>1. pc = "loop" /\ dn < Len(down) /\ Frame.cmd = "DATA"
  BY DEF OnData, Arrived, Frame
<1>2. dn \in 1 .. Len(source) /\ Frame = Data(dn - 1, source[dn]) /\ dn + 1 \in 1 .. Len(down)
  BY <1>1, Taken
<1>3. source \in Seq(Chunk) /\ Len(source) \in Nat /\ dn \in Nat
  BY Indices DEF IInv
<1>4. dn > 0 /\ dn < Len(source) + 2
  BY <1>2, <1>3
<1>5. file = "open" /\ dest = SubSeq(source, 1, dn - 1) /\ up = <<Begin>>
  BY <1>1, <1>4 DEF IInv, Looping
<1>6. Frame.index = dn - 1 /\ Frame.chunk = source[dn]
  BY <1>2, FrameFacts
<1>7. dest' = WriteAt(SubSeq(source, 1, dn - 1), dn - 1, source[dn])
  BY <1>5, <1>6 DEF OnData
<1>8. dest' = SubSeq(source, 1, dn)
  BY <1>2, <1>3, <1>7, WriteAppends
<1>9. /\ dn' = dn + 1
      /\ UNCHANGED <<up, ut, down, peer, pc, file, summary, result, daemon>>
  BY DEF OnData, ClientTakes
<1> QED BY <1>1, <1>2, <1>5, <1>8, <1>9

\* FINISH(1) comes when the file is whole.
LEMMA OnFinishDoes ==
    ASSUME IInv, OnFinish
    PROVE  /\ dn = Len(source) + 1 /\ dn' = dn + 1 /\ dn' \in 1 .. Len(down)
           /\ file' = "closed" /\ up = <<Begin>>
           /\ dest = source
           /\ UNCHANGED <<ut, down, peer, dest, summary, daemon>>
           /\ \/ Room /\ pc' = "loop" /\ result' = result /\ up' = <<Begin, Finish(0)>>
              \/ pc' = "done" /\ result' = "oserror" /\ up' = <<Begin>>
<1>1. pc = "loop" /\ dn < Len(down) /\ Frame.cmd = "FINISH" /\ Frame.flag = 1
  BY DEF OnFinish, Arrived, Frame
<1>2. dn = Len(source) + 1 /\ dn + 1 \in 1 .. Len(down)
  BY <1>1, Taken
<1>3. source \in Seq(Chunk) /\ Len(source) \in Nat
  BY Indices DEF IInv
<1>4. dn > 0 /\ dn < Len(source) + 2 /\ dn - 1 = Len(source) /\ Len(source) \in 0 .. Len(source)
  BY <1>2, <1>3
<1>5. file = "open" /\ dest = SubSeq(source, 1, dn - 1) /\ up = <<Begin>>
  BY <1>1, <1>4 DEF IInv, Looping
<1>6. SubSeq(source, 1, Len(source)) = source
  BY <1>3, <1>4, Prefixes
<1>7. Append(up, Finish(0)) = <<Begin, Finish(0)>>
  <2> DEFINE a == Begin
             b == Finish(0)
  <2>1. up = <<a>>
    BY <1>5
  <2> HIDE DEF a, b
  <2>2. Append(up, b) = <<a, b>>
    BY <2>1, ShortSeqs, a \in {a, b}, b \in {a, b}
  <2> QED BY <2>2 DEF a, b
<1>8. /\ dn' = dn + 1 /\ file' = "closed" /\ UNCHANGED <<ut, down, peer, dest, summary, daemon>>
      /\ \/ Room /\ pc' = pc /\ result' = result /\ up' = <<Begin, Finish(0)>>
         \/ pc' = "done" /\ result' = "oserror" /\ up' = up
  BY <1>5, <1>7 DEF OnFinish
<1> QED BY <1>1, <1>2, <1>4, <1>5, <1>6, <1>8
\* The other branches of the loop: they leave the file's content alone, and the
\* client stays in the loop only after FINISH(1).
LEMMA OthersDo ==
    ASSUME IInv,
           \/ BadHeader \/ LocalFails \/ OnFinished \/ OnText \/ OnOther
           \/ OnEof \/ RecvRaises
    PROVE  /\ UNCHANGED <<up, ut, down, peer, dest, daemon>>
           /\ pc = "loop" /\ pc' \in {"loop", "done"}
           /\ dn' \in dn .. Len(down)
           /\ file' \in {file, "closed"}
           /\ result' \in {"none", "ok"} \cup Errors
           /\ summary' \in {summary, "finish"}
           /\ summary' # summary \/ pc' = "loop" =>
                 /\ pc' = "loop" /\ file' = file /\ result' = result
                 /\ dn > Len(source) + 1 /\ dn' > Len(source) + 1
<1> DEFINE Goal ==
        /\ UNCHANGED <<up, ut, down, peer, dest, daemon>>
        /\ pc = "loop" /\ pc' \in {"loop", "done"}
        /\ dn' \in dn .. Len(down)
        /\ file' \in {file, "closed"}
        /\ result' \in {"none", "ok"} \cup Errors
        /\ summary' \in {summary, "finish"}
        /\ summary' # summary \/ pc' = "loop" =>
              /\ pc' = "loop" /\ file' = file /\ result' = result
              /\ dn > Len(source) + 1 /\ dn' > Len(source) + 1
<1>1. /\ dn \in 0 .. Len(down) /\ Len(down) \in Nat /\ dn \in Nat /\ Len(source) \in Nat
      /\ result \in {"none", "ok"} \cup Errors
  BY Indices DEF IInv, Types, TypeOK
<1>2. ASSUME NEW r \in {"ok"} \cup Errors, pc = "loop", Return(r),
             UNCHANGED <<up, ut, down, peer, dest, summary, daemon>>,
             dn' = dn \/ (dn < Len(down) /\ dn' = dn + 1)
      PROVE  Goal
  <2>1. dn' \in dn .. Len(down)
    BY <1>1, <1>2
  <2>2. pc' = "done" /\ result' = r /\ file' \in {file, "closed"}
    BY <1>2 DEF Return
  <2> QED BY <1>2, <2>1, <2>2
<1>3. ASSUME pc = "loop", dn < Len(down), dn' = dn + 1, dn > Len(source) + 1,
             UNCHANGED <<up, ut, down, peer, dest, pc, file, result, daemon>>,
             summary' \in {summary, "finish"}
      PROVE  Goal
  <2>1. dn' \in dn .. Len(down) /\ dn' > Len(source) + 1
    BY <1>1, <1>3
  <2> QED BY <1>1, <1>3, <2>1
<1>4. CASE BadHeader
  BY <1>2, <1>4 DEF BadHeader, Arrived, ClientTakes, Errors
<1>5. CASE LocalFails
  <2>1. pc = "loop" /\ Return("oserror") /\ UNCHANGED <<dest, summary, daemon>>
    BY <1>5 DEF LocalFails, Arrived
  <2>2. ClientTakes(Frame) \/ UNCHANGED chVars
    BY <1>5 DEF LocalFails
  <2>3. /\ UNCHANGED <<up, ut, down, peer>>
        /\ dn' = dn \/ (dn < Len(down) /\ dn' = dn + 1)
    BY <2>2 DEF ClientTakes, chVars
  <2> QED BY <1>2, <2>1, <2>3 DEF Errors
<1>6. CASE OnFinished
  BY <1>2, <1>6 DEF OnFinished, Arrived, ClientTakes
<1>7. CASE OnText
  <2>1. /\ pc = "loop" /\ dn < Len(down) /\ Frame.cmd = "TEXT" /\ dn' = dn + 1
        /\ UNCHANGED <<up, ut, down, peer, dest, daemon>>
    BY <1>7 DEF OnText, Arrived, ClientTakes, Frame
  <2>2. CASE Frame.text = "fail"
    <3>1. Return("command") /\ UNCHANGED summary
      BY <1>7, <2>2 DEF OnText
    <3> QED BY <1>2, <2>1, <3>1 DEF Errors
  <2>3. CASE Frame.text # "fail"
    <3>1. summary' = Frame.text /\ UNCHANGED <<pc, result, file>>
      BY <1>7, <2>3 DEF OnText
    <3>2. dn > Len(source) + 1 /\ Frame.text = "finish"
      BY <2>1, <2>3, Taken
    <3> QED BY <1>3, <2>1, <3>1, <3>2
  <2> QED BY <2>2, <2>3
<1>8. CASE OnOther
  <2>1. pc = "loop" /\ dn < Len(down) /\ Frame.cmd = "CLOSE" /\ dn' = dn + 1
    BY <1>8 DEF OnOther, Arrived, ClientTakes, Frame
  <2>2. dn > Len(source) + 1
    BY <2>1, Taken
  <2> QED BY <1>3, <1>8, <2>1, <2>2 DEF OnOther, ClientTakes, client
<1>9. CASE OnEof
  BY <1>2, <1>9 DEF OnEof, chVars
<1>10. CASE RecvRaises
  BY <1>2, <1>10 DEF RecvRaises, chVars, Errors
<1> QED BY <1>4, <1>5, <1>6, <1>7, <1>8, <1>9, <1>10

\* The branches, in these four groups.
LEMMA ClientCases ==
    ASSUME Client
    PROVE  \/ OnCheck \/ OnData \/ OnFinish
           \/ \/ BadHeader \/ LocalFails \/ OnFinished \/ OnText \/ OnOther
              \/ OnEof \/ RecvRaises
BY DEF Client, Proceeds

\* What no branch of the client touches.
LEMMA ClientKeeps ==
    ASSUME IInv, Client
    PROVE  UNCHANGED <<ut, down, peer, source, dpc, next>> /\ dn' \in 0 .. Len(down)
<1> DEFINE Goal == UNCHANGED <<ut, down, peer, source, dpc, next>> /\ dn' \in 0 .. Len(down)
<1>1. Len(down) \in Nat /\ dn \in Nat
  BY Indices DEF IInv
<1>2. CASE OnCheck
  <2>1. dn' = 1 /\ 1 \in 1 .. Len(down) /\ UNCHANGED <<ut, down, peer, daemon>>
    BY <1>2, OnCheckDoes
  <2> QED BY <1>1, <2>1 DEF daemon
<1>3. CASE OnData
  <2>1. dn' \in 1 .. Len(down) /\ UNCHANGED <<ut, down, peer, daemon>>
    BY <1>3, OnDataDoes
  <2> QED BY <1>1, <2>1 DEF daemon
<1>4. CASE OnFinish
  <2>1. dn' \in 1 .. Len(down) /\ UNCHANGED <<ut, down, peer, daemon>>
    BY <1>4, OnFinishDoes
  <2> QED BY <1>1, <2>1 DEF daemon
<1>5. CASE \/ BadHeader \/ LocalFails \/ OnFinished \/ OnText \/ OnOther
           \/ OnEof \/ RecvRaises
  <2>1. dn' \in dn .. Len(down) /\ UNCHANGED <<ut, down, peer, daemon>>
    BY <1>5, OthersDo
  <2> QED BY <1>1, <2>1 DEF daemon
<1> QED BY <1>2, <1>3, <1>4, <1>5, ClientCases
-----------------------------------------------------------------------------
(* The steps of the client.                                                 *)

LEMMA ClientTypes == ASSUME IInv, Client PROVE Types'
<1>1. UNCHANGED <<ut, down, peer, source, dpc, next>> /\ dn' \in 0 .. Len(down)
  BY ClientKeeps
<1>2. /\ Types
      /\ Len(up) \in Nat /\ ut \in 0 .. Len(up) /\ Len(up) - ut <= UpMax
      /\ source \in Seq(Chunk) /\ Len(source) \in Nat
  BY Indices DEF IInv
<1>3. Begin \in {Begin, Finish(0)} /\ Finish(0) \in {Begin, Finish(0)}
  OBVIOUS
<1> DEFINE S == {Begin, Finish(0)}
           D == Seq(Chunk \cup {Hole}) \cup {Old}
<1>4. /\ << >> \in Seq(S) /\ <<Begin>> \in Seq(S) /\ <<Begin, Finish(0)>> \in Seq(S)
  BY <1>3, ShortSeqs
<1>5. /\ up' \in Seq(S) /\ ut \in 0 .. Len(up') /\ Len(up') - ut <= UpMax
      /\ pc' \in {"loop", "done"} /\ file' \in {"none", "open", "closed"}
      /\ summary' \in {"none", "finish"} /\ result' \in {"none", "ok"} \cup Errors
      /\ dest' \in D
  <2> DEFINE UpOK == up' \in Seq(S) /\ ut \in 0 .. Len(up') /\ Len(up') - ut <= UpMax
  <2>0. /\ file \in {"none", "open", "closed"} /\ summary \in {"none", "finish"}
        /\ result \in {"none", "ok"} \cup Errors /\ dest \in D
    BY <1>2 DEF Types, TypeOK
  <2>1. ASSUME up' = up PROVE UpOK
    BY <1>2, <2>1 DEF Types, TypeOK
  <2>2. ASSUME Room, Len(up') = Len(up) + 1, up' \in Seq(S) PROVE UpOK
    <3>1. ut \in Nat /\ UpMax \in Nat /\ Len(up) - ut < UpMax
      BY <1>2, <2>2, TaskChannelAssumption DEF Room
    <3>2. ut \in 0 .. Len(up') /\ Len(up') - ut <= UpMax
      BY <1>2, <2>2, <3>1
    <3> QED BY <2>2, <3>2
  <2>3. CASE OnCheck
    <3>1. UpOK
      <4>1. up' = up \/ (Room /\ up = << >> /\ up' = <<Begin>>)
        BY <2>3, OnCheckDoes
      <4>2. up' = <<Begin>> /\ up = << >> => Len(up') = Len(up) + 1
        OBVIOUS
      <4> QED BY <1>4, <2>1, <2>2, <4>1, <4>2
    <3>2. dest' = << >> /\ << >> \in Seq(Chunk \cup {Hole})
      BY <2>3, OnCheckDoes
    <3>3. /\ pc' \in {"loop", "done"} /\ file' \in {"none", "open", "closed"}
          /\ summary' = summary /\ result' \in {result, "oserror"}
      BY <2>3, OnCheckDoes
    <3> HIDE DEF UpOK
    <3>4. UpOK /\ dest' \in D /\ result' \in {"none", "ok"} \cup Errors
      BY <2>0, <3>1, <3>2, <3>3 DEF Errors
    <3> QED BY <2>0, <3>3, <3>4 DEF UpOK
  <2>4. CASE OnData
    <3>1. /\ dn \in 1 .. Len(source) /\ dest' = SubSeq(source, 1, dn)
          /\ UNCHANGED <<up, pc, file, summary, result>> /\ pc = "loop"
      BY <2>4, OnDataDoes
    <3>2. dn \in 0 .. Len(source)
      BY <1>2, <3>1
    <3>3. dest' \in Seq(Chunk)
      BY <1>2, <3>1, <3>2, Prefixes
    <3>4. dest' \in Seq(Chunk \cup {Hole})
      BY <3>3
    <3> QED BY <2>0, <2>1, <3>1, <3>4
  <2>5. CASE OnFinish
    <3>1. UpOK
      <4>1. up' = up \/ (Room /\ up = <<Begin>> /\ up' = <<Begin, Finish(0)>>)
        BY <2>5, OnFinishDoes
      <4>2. up' = <<Begin, Finish(0)>> /\ up = <<Begin>> => Len(up') = Len(up) + 1
        OBVIOUS
      <4> QED BY <1>4, <2>1, <2>2, <4>1, <4>2
    <3>2. /\ pc' \in {"loop", "done"} /\ file' = "closed" /\ dest' = dest
          /\ summary' = summary /\ result' \in {result, "oserror"}
      BY <2>5, OnFinishDoes
    <3> HIDE DEF UpOK
    <3>3. result' \in {"none", "ok"} \cup Errors
      BY <2>0, <3>2 DEF Errors
    <3> QED BY <2>0, <3>1, <3>2, <3>3 DEF UpOK
  <2>6. CASE \/ BadHeader \/ LocalFails \/ OnFinished \/ OnText \/ OnOther
             \/ OnEof \/ RecvRaises
    <3>1. /\ UNCHANGED <<up, dest>> /\ pc' \in {"loop", "done"} /\ file' \in {file, "closed"}
          /\ summary' \in {summary, "finish"} /\ result' \in {"none", "ok"} \cup Errors
      BY <2>6, OthersDo
    <3> QED BY <2>0, <2>1, <3>1
  <2> QED BY <2>3, <2>4, <2>5, <2>6, ClientCases
<1> QED BY <1>1, <1>2, <1>5 DEF Types, TypeOK, IndicesOK

LEMMA ClientSaid == ASSUME IInv, Client PROVE Said' /\ Heard'
<1>1. UNCHANGED <<ut, down, peer, source, dpc, next>>
  BY ClientKeeps
<1>2. \A i \in 1 .. Len(down') : Fits(i, down'[i], source')
  BY <1>1 DEF IInv, Said
<1> QED BY <1>1, <1>2 DEF IInv, Said, Heard

LEMMA ClientLooping == ASSUME IInv, Client PROVE Looping'
<1>1. UNCHANGED <<down, source>> /\ source \in Seq(Chunk) /\ Len(source) \in Nat /\ dn \in Nat
  BY ClientKeeps, Indices DEF IInv
<1>0. pc = "loop" => result = "none"
  BY DEF IInv, Looping
<1>2. CASE OnCheck
  <2>1. /\ dn' = 1 /\ dest' = << >>
        /\ pc' = "loop" => file' = "open" /\ up' = <<Begin>> /\ result' = "none"
    BY <1>0, <1>2, OnCheckDoes DEF OnCheck, Arrived
  <2>2. SubSeq(source, 1, 0) = << >>
    BY <1>1, Prefixes
  <2>3. dn' - 1 = 0 /\ dn' # 0 /\ ~ (dn' > Len(source) + 1)
    BY <1>1, <2>1
  <2>4. dest' = SubSeq(source, 1, dn' - 1)
    BY <2>1, <2>2, <2>3
  <2> QED BY <1>1, <2>1, <2>3, <2>4 DEF Looping
<1>3. CASE OnData
  <2>1. /\ dn \in 1 .. Len(source) /\ dn' = dn + 1 /\ dest' = SubSeq(source, 1, dn)
        /\ file' = "open" /\ up' = <<Begin>> /\ result' = "none"
    BY <1>0, <1>3, OnDataDoes
  <2>2. dn' - 1 = dn /\ dn' # 0 /\ ~ (dn' > Len(source) + 1)
    BY <1>1, <2>1
  <2>3. dest' = SubSeq(source, 1, dn' - 1)
    BY <2>1, <2>2
  <2> QED BY <1>1, <2>1, <2>2, <2>3 DEF Looping
<1>4. CASE OnFinish
  <2>1. /\ dn = Len(source) + 1 /\ dn' = dn + 1 /\ file' = "closed" /\ dest' = source
        /\ pc' = "loop" => up' = <<Begin, Finish(0)>> /\ result' = "none"
    BY <1>0, <1>4, OnFinishDoes DEF OnFinish, Arrived
  <2>2. dn' # 0 /\ ~ (dn' < Len(source) + 2)
    BY <1>1, <2>1
  <2> QED BY <1>1, <2>1, <2>2 DEF Looping
<1>5. CASE \/ BadHeader \/ LocalFails \/ OnFinished \/ OnText \/ OnOther
           \/ OnEof \/ RecvRaises
  <2>1. /\ UNCHANGED <<up, dest>> /\ pc = "loop" /\ dn' \in dn .. Len(down)
        /\ pc' = "loop" => /\ file' = file /\ result' = result
                           /\ dn > Len(source) + 1 /\ dn' > Len(source) + 1
    BY <1>5, OthersDo
  <2>2. ASSUME pc' = "loop"
        PROVE  /\ dn' # 0 /\ ~ (dn' < Len(source) + 2) /\ result' = "none"
               /\ file' = "closed" /\ dest' = source /\ up' = <<Begin, Finish(0)>>
    <3>1. file = "closed" /\ dest = source /\ up = <<Begin, Finish(0)>>
      BY <2>1, <2>2 DEF IInv, Looping
    <3>2. dn' # 0 /\ ~ (dn' < Len(source) + 2)
      BY <1>1, <2>1, <2>2
    <3> QED BY <1>0, <2>1, <2>2, <3>1, <3>2
  <2> QED BY <1>1, <2>2 DEF Looping
<1> QED BY <1>2, <1>3, <1>4, <1>5, ClientCases

LEMMA ClientLeft == ASSUME IInv, Client PROVE Left'
<1>1. /\ UNCHANGED <<down, source>> /\ source \in Seq(Chunk) /\ Len(source) \in Nat
      /\ dn \in Nat /\ Left
  BY ClientKeeps, Indices DEF IInv
<1>2. << >> # <<Begin, Finish(0)>> /\ <<Begin>> # <<Begin, Finish(0)>>
  OBVIOUS
<1>3. CASE OnCheck
  <2>1. /\ dn = 0 /\ dn' = 1 /\ down[1].cmd = "CHECK" /\ dest' = << >> /\ up = << >>
        /\ UNCHANGED summary /\ up' \in {<< >>, <<Begin>>} /\ pc = "loop"
    BY <1>3, OnCheckDoes DEF OnCheck, Arrived
  <2>2. dest = Old
    BY <2>1 DEF IInv, Looping
  <2>3. summary # "finish"
    <3>1. << >> \in Seq(Chunk) /\ source # Old
      BY <1>1, FileAssumption
    <3> QED BY <1>1, <2>2, <3>1 DEF Left
  <2>4. \E n \in 0 .. Len(source) : dest' = SubSeq(source, 1, n)
    <3>1. 0 \in 0 .. Len(source) /\ SubSeq(source, 1, 0) = << >>
      BY <1>1, Prefixes
    <3> QED BY <2>1, <3>1
  <2>5. up' # <<Begin, Finish(0)>> /\ summary' # "finish"
    BY <1>2, <2>1, <2>3
  <2>6. dn' > 0 /\ down'[1].cmd = "CHECK" /\ source' = source
    BY <1>1, <2>1
  <2>7. up' \in {<< >>, <<Begin>>, <<Begin, Finish(0)>>}
    BY <2>1
  <2> QED BY <2>4, <2>5, <2>6, <2>7 DEF Left
<1>4. CASE OnData
  <2>1. /\ dn \in 1 .. Len(source) /\ dn' = dn + 1 /\ up = <<Begin>> /\ file = "open"
        /\ dest' = SubSeq(source, 1, dn) /\ UNCHANGED <<up, file, summary>> /\ pc = "loop"
    BY <1>4, OnDataDoes
  <2>2. dn > 0 /\ dn' > 0 /\ dn \in 0 .. Len(source) /\ dn < Len(source) + 2
    BY <1>1, <2>1
  <2>3. summary # "finish"
    BY <1>1, <2>1 DEF Left
  <2>4. down[1].cmd = "CHECK"
    <3>1. dest = SubSeq(source, 1, dn - 1) /\ dn - 1 \in 0 .. Len(source)
      BY <1>1, <2>1, <2>2 DEF IInv, Looping
    <3>2. dest \in Seq(Chunk)
      BY <1>1, <3>1, Prefixes
    <3>3. dest # Old
      BY <3>2, FileAssumption
    <3> QED BY <1>1, <3>3 DEF Left
  <2> QED BY <1>1, <1>2, <2>1, <2>2, <2>3, <2>4 DEF Left
<1>5. CASE OnFinish
  <2>1. /\ dn' = dn + 1 /\ file' = "closed" /\ dest = source
        /\ up' \in {<<Begin>>, <<Begin, Finish(0)>>} /\ UNCHANGED <<dest, summary>>
    BY <1>5, OnFinishDoes
  <2>2. dn' > 0
    BY <1>1, <2>1
  <2> QED BY <1>1, <2>1, <2>2 DEF Left
<1>6. CASE \/ BadHeader \/ LocalFails \/ OnFinished \/ OnText \/ OnOther
           \/ OnEof \/ RecvRaises
  <2>1. /\ UNCHANGED <<up, dest>> /\ pc = "loop" /\ dn' \in dn .. Len(down)
        /\ file' \in {file, "closed"}
        /\ summary' # summary => file' = file /\ dn > Len(source) + 1
    BY <1>6, OthersDo
  <2>2. summary' # summary => dest = source /\ file = "closed"
    BY <2>1 DEF IInv, Looping
  <2>3. up' = <<Begin, Finish(0)>> \/ summary' = "finish" => dest' = source /\ file' = "closed"
    BY <1>1, <2>1, <2>2 DEF Left
  <2>4. dn > 0 => dn' > 0
    BY <1>1, <2>1, Indices DEF IInv
  <2> QED BY <1>1, <2>1, <2>3, <2>4 DEF Left
<1> QED BY <1>3, <1>4, <1>5, <1>6, ClientCases
-----------------------------------------------------------------------------
(* The steps of the daemon, and a lost connection.                          *)

\* A daemon's frame fits, and nothing of what it said before is changed.
LEMMA DaemonSpeaks ==
    ASSUME IInv, Daemon
    PROVE  /\ Said' /\ down' \in Seq(Frames) /\ Len(down') >= Len(down)
           /\ \A i \in 1 .. Len(down) : down'[i] = down[i]
<1> DEFINE Kept == /\ down' \in Seq(Frames) /\ Len(down') >= Len(down)
                   /\ \A i \in 1 .. Len(down) : down'[i] = down[i]
           Fit  == \A i \in 1 .. Len(down') : Fits(i, down'[i], source')
<1>1. /\ Types /\ Said /\ Len(down) \in Nat /\ down \in Seq(Frames)
      /\ Len(source) \in Nat /\ Len(source) \in 0 .. MaxFile /\ source \in Seq(Chunk)
      /\ next \in Nat /\ next \in 0 .. Len(source) /\ MaxFile \in Nat
  BY Indices, FileAssumption DEF IInv
<1>2. UNCHANGED source
  BY DEF Daemon, DaemonStart, DaemonBegin, DaemonData, DaemonFinish, DaemonReport,
         DaemonRefuses, DaemonDropped
<1>3. Text("fail") \in Frames /\ \A i : Fits(i, Text("fail"), source)
  BY DEF Frames, Fits
<1>4. ASSUME NEW m \in Frames, DaemonSays(<<m>>), peer = "open" => Fits(Len(down) + 1, m, source)
      PROVE  /\ Fit /\ Kept
             /\ Len(down') = IF peer = "open" THEN Len(down) + 1 ELSE Len(down)
  <2>1. /\ Fit /\ down' \in Seq(Frames) /\ \A i \in 1 .. Len(down) : down'[i] = down[i]
        /\ Len(down') = IF peer = "open" THEN Len(down) + 1 ELSE Len(down)
    BY <1>1, <1>2, <1>4, SaysOne
  <2> QED BY <1>1, <2>1
<1>5. ASSUME UNCHANGED down PROVE Fit /\ Kept
  BY <1>1, <1>2, <1>5 DEF Said
<1>6. ASSUME Fit, Kept, dpc' = "stop" PROVE Said' /\ Kept
  BY <1>6 DEF Said
<1>7. CASE DaemonStart
  <2>1. dpc = "start" /\ next = 0 /\ (peer = "open" => Len(down) = 0) /\ UNCHANGED next
    BY <1>1, <1>7 DEF DaemonStart, Said
  <2>2. CASE DaemonSays(<<Check(Len(source))>>) /\ dpc' = "begin" /\ UNCHANGED peer
    <3>1. Check(Len(source)) \in Frames
      BY <1>1 DEF Frames
    <3>2. peer = "open" => Fits(Len(down) + 1, Check(Len(source)), source)
      BY <2>1 DEF Fits
    <3>3. /\ Fit /\ Kept
          /\ Len(down') = IF peer = "open" THEN Len(down) + 1 ELSE Len(down)
      BY <1>4, <2>2, <3>1, <3>2
    <3>4. peer' = "open" => Len(down') = next' + 1
      BY <2>1, <2>2, <3>3
    <3> QED BY <2>1, <2>2, <3>3, <3>4 DEF Said
  <2>3. CASE DaemonSays(<<Text("fail")>>) /\ dpc' = "stop"
    BY <1>3, <1>4, <1>6, <2>3
  <2> QED BY <1>7, <2>2, <2>3 DEF DaemonStart
<1>8. CASE DaemonBegin
  <2>1. dpc = "begin" /\ dpc' = "data" /\ UNCHANGED <<down, peer, next>>
    BY <1>8 DEF DaemonBegin
  <2>2. Fit /\ Kept
    BY <1>5, <2>1
  <2> QED BY <1>1, <2>1, <2>2 DEF Said
<1>9. CASE DaemonData
  <2> DEFINE m == Data(next, source[next + 1])
  <2>1. /\ dpc = "data" /\ next < Len(source) /\ DaemonSays(<<m>>) /\ next' = next + 1
        /\ UNCHANGED <<peer, dpc>>
    BY <1>9 DEF DaemonData
  <2>2. m \in Frames
    <3>1. next \in 0 .. MaxFile /\ source[next + 1] \in Chunk
      BY <1>1, <2>1
    <3> QED BY <3>1 DEF Frames
  <2>3. peer = "open" => Len(down) = next + 1
    BY <1>1, <2>1 DEF Said
  <2>4. peer = "open" => Fits(Len(down) + 1, m, source)
    <3>1. ASSUME peer = "open"
          PROVE  /\ Len(down) + 1 > 1 /\ Len(down) + 1 < Len(source) + 2
                 /\ (Len(down) + 1) - 2 = next /\ (Len(down) + 1) - 1 = next + 1
      BY <1>1, <2>1, <2>3, <3>1
    <3> QED BY <3>1 DEF Fits
  <2> HIDE DEF m
  <2>5. /\ Fit /\ Kept
        /\ Len(down') = IF peer = "open" THEN Len(down) + 1 ELSE Len(down)
    BY <1>4, <2>1, <2>2, <2>4
  <2>6. peer' = "open" => Len(down') = next' + 1
    BY <2>1, <2>3, <2>5
  <2> QED BY <2>1, <2>5, <2>6 DEF Said
<1>10. CASE DaemonFinish
  <2>1. /\ dpc = "data" /\ next = Len(source) /\ DaemonSays(<<Finish(1)>>) /\ dpc' = "finish"
        /\ UNCHANGED <<peer, next>>
    BY <1>10 DEF DaemonFinish
  <2>2. peer = "open" => Len(down) = next + 1
    BY <1>1, <2>1 DEF Said
  <2>3. peer = "open" => Len(down) + 1 = Len(source) + 2
    BY <1>1, <2>1, <2>2
  <2>4. Finish(1) \in Frames /\ (peer = "open" => Fits(Len(down) + 1, Finish(1), source))
    BY <2>3 DEF Frames, Fits
  <2>5. /\ Fit /\ Kept
        /\ Len(down') = IF peer = "open" THEN Len(down) + 1 ELSE Len(down)
    BY <1>4, <2>1, <2>4
  <2>6. peer' = "open" => Len(down') = Len(source') + 2
    BY <1>2, <2>1, <2>3, <2>5
  <2> QED BY <2>1, <2>5, <2>6 DEF Said
<1>11. CASE DaemonReport
  <2>1. dpc = "finish" /\ dpc' = "stop"
    BY <1>11 DEF DaemonReport
  <2>2. PICK close \in {<< >>, <<ChannelClose>>, <<Finish(0)>>} :
           DaemonSays(<<Text("finish")>> \o close)
    BY <1>11 DEF DaemonReport
  <2> DEFINE L == {Text("finish"), ChannelClose, Finish(0)}
             t == <<Text("finish")>>
             ms == t \o close
  <2>3. L \subseteq Frames
    BY DEF Frames
  <2>4. Text("finish") \in L /\ ChannelClose \in L /\ Finish(0) \in L
    OBVIOUS
  <2> HIDE DEF L
  <2>5. t \in Seq(L) /\ close \in Seq(L)
    BY <2>2, <2>4, ShortSeqs
  <2> HIDE DEF t
  <2>6. ms \in Seq(L)
    BY <2>5, Joined
  <2>7. DaemonSays(ms)
    BY <2>2 DEF t
  <2> HIDE DEF ms
  <2>8. Len(ms) \in Nat /\ ms \in Seq(Frames) /\ \A i \in 1 .. Len(ms) : ms[i] \in L
    BY <2>3, <2>6
  <2>9. peer = "open" => Len(down) = Len(source) + 2
    BY <1>1, <2>1 DEF Said
  <2>10. ASSUME peer = "open", NEW i \in 1 .. Len(ms)
         PROVE  Fits(Len(down) + i, ms[i], source)
    <3>1. Len(down) + i > Len(source) + 2
      BY <1>1, <2>8, <2>9, <2>10
    <3>2. ms[i] \in L
      BY <2>8
    <3> QED BY <3>1, <3>2 DEF Fits, L
  <2>11. /\ Fit /\ down' \in Seq(Frames) /\ \A i \in 1 .. Len(down) : down'[i] = down[i]
         /\ Len(down') = IF peer = "open" THEN Len(down) + Len(ms) ELSE Len(down)
    BY <1>1, <1>2, <2>7, <2>8, <2>10, SaysFits
  <2>12. Len(down') >= Len(down)
    BY <1>1, <2>8, <2>11
  <2> QED BY <1>6, <2>1, <2>11, <2>12
<1>12. CASE DaemonRefuses
  <2>1. dpc' = "stop"
    BY <1>12 DEF DaemonRefuses
  <2>2. CASE DaemonSays(<<Text("fail")>>)
    BY <1>3, <1>4, <1>6, <2>1, <2>2
  <2>3. CASE DaemonSays(<< >>)
    <3>1. UNCHANGED down
      BY <1>1, <2>3 DEF DaemonSays
    <3> QED BY <1>5, <1>6, <2>1, <3>1
  <2> QED BY <1>12, <2>2, <2>3 DEF DaemonRefuses
<1>13. CASE DaemonDropped
  <2>1. dpc' = "stop" /\ UNCHANGED down
    BY <1>13 DEF DaemonDropped
  <2> QED BY <1>5, <1>6, <2>1
<1> QED BY <1>7, <1>8, <1>9, <1>10, <1>11, <1>12, <1>13 DEF Daemon
LEMMA DaemonTypes == ASSUME IInv, Daemon PROVE Types' /\ Heard'
<1>1. /\ down' \in Seq(Frames) /\ Len(down') >= Len(down) /\ Len(down') \in Nat
  BY DaemonSpeaks
<1>2. /\ Types /\ Heard
      /\ Len(up) \in Nat /\ ut \in 0 .. Len(up) /\ ut \in Nat /\ Len(up) - ut <= UpMax
      /\ UpMax \in Nat /\ peer \in PeerStates
      /\ dn \in 0 .. Len(down) /\ Len(down) \in Nat /\ dn \in Nat
      /\ next \in 0 .. Len(source) /\ next \in Nat /\ Len(source) \in Nat
  BY Indices, TaskChannelAssumption DEF IInv
<1>3. dn \in 0 .. Len(down')
  BY <1>1, <1>2
<1>4. UNCHANGED <<up, dn, client, source>>
  BY DEF Daemon, DaemonStart, DaemonBegin, DaemonData, DaemonFinish, DaemonReport,
         DaemonRefuses, DaemonDropped
<1>5. peer' \in PeerStates
  <2>1. DaemonCloses => peer' \in PeerStates
    BY <1>2 DEF DaemonCloses, PeerStates
  <2>2. DaemonCloses \/ UNCHANGED peer
    BY DEF Daemon, DaemonStart, DaemonBegin, DaemonData, DaemonFinish, DaemonReport,
           DaemonRefuses, DaemonDropped
  <2> QED BY <1>2, <2>1, <2>2
<1>6. /\ ut' \in {ut, ut + 1} /\ (ut' # ut => ut < Len(up))
      /\ next' \in {next, next + 1} /\ (next' # next => next < Len(source))
      /\ dpc' \in {"start", "begin", "data", "finish", "stop"}
      /\ dpc' \in {"start", "begin"} => ut' = 0
      /\ dpc' \in {"data", "finish"} => ut' = 1
  <2> DEFINE Goal == /\ ut' \in {ut, ut + 1} /\ (ut' # ut => ut < Len(up))
                     /\ next' \in {next, next + 1} /\ (next' # next => next < Len(source))
                     /\ dpc' \in {"start", "begin", "data", "finish", "stop"}
                     /\ dpc' \in {"start", "begin"} => ut' = 0
                     /\ dpc' \in {"data", "finish"} => ut' = 1
  <2>1. CASE DaemonStart
    BY <1>2, <2>1 DEF DaemonStart, Heard
  <2>2. CASE DaemonBegin
    BY <1>2, <2>2 DEF DaemonBegin, DaemonHears, Heard
  <2>3. CASE DaemonData
    BY <1>2, <2>3 DEF DaemonData, Heard
  <2>4. CASE DaemonFinish
    BY <1>2, <2>4 DEF DaemonFinish, Heard
  <2>5. CASE DaemonReport
    BY <1>2, <2>5 DEF DaemonReport, DaemonHears
  <2>6. CASE DaemonRefuses
    BY <1>2, <2>6 DEF DaemonRefuses
  <2>7. CASE DaemonDropped
    BY <1>2, <2>7 DEF DaemonDropped
  <2> QED BY <2>1, <2>2, <2>3, <2>4, <2>5, <2>6, <2>7 DEF Daemon
<1>7. ut' \in 0 .. Len(up) /\ Len(up) - ut' <= UpMax /\ next' \in 0 .. Len(source)
  BY <1>2, <1>6
<1>8. Heard'
  BY <1>6 DEF Heard
<1>9. IndicesOK'
  BY <1>3, <1>4, <1>5, <1>7 DEF IndicesOK
<1> QED BY <1>1, <1>2, <1>4, <1>6, <1>7, <1>8, <1>9 DEF Types, TypeOK, client

LEMMA DisconnectKeeps == ASSUME IInv, Disconnect PROVE Types' /\ Said' /\ Heard'
<1>1. /\ Types /\ Said /\ Heard /\ down \in Seq(Frames) /\ dn \in 0 .. Len(down)
      /\ Len(down) \in Nat /\ dn \in Nat
  BY Indices DEF IInv
<1>2. UNCHANGED <<up, ut, dn, client, daemon>>
  BY DEF Disconnect, LinkLost
<1>3. /\ down' \in Seq(Frames) /\ Len(down') \in dn .. Len(down)
      /\ \A i \in 1 .. Len(down') : down'[i] = down[i]
      /\ peer' \in PeerStates \ {"open"}
  BY <1>1, Loses DEF Disconnect
<1>4. dn \in 0 .. Len(down') /\ 1 .. Len(down') \subseteq 1 .. Len(down)
  BY <1>1, <1>3
<1>5. Types'
  <2>1. IndicesOK'
    BY <1>1, <1>2, <1>3, <1>4 DEF IndicesOK, Types, TypeOK
  <2> QED BY <1>1, <1>2, <1>3, <2>1 DEF Types, TypeOK, client, daemon
<1>6. Said'
  <2>1. \A i \in 1 .. Len(down') : Fits(i, down'[i], source')
    BY <1>1, <1>2, <1>3, <1>4 DEF Said, daemon
  <2> QED BY <1>1, <1>2, <1>3, <2>1 DEF Said, daemon
<1>7. Heard'
  BY <1>1, <1>2 DEF Heard, daemon
<1> QED BY <1>5, <1>6, <1>7

\* A step that is not the client's leaves the file as it is, and so the frame
\* that has emptied it.
LEMMA NotTheClient ==
    ASSUME IInv, Daemon \/ Disconnect
    PROVE  Looping' /\ Left'
<1>1. UNCHANGED <<up, dn, client, source>>
  BY DEF Daemon, DaemonStart, DaemonBegin, DaemonData, DaemonFinish, DaemonReport,
         DaemonRefuses, DaemonDropped, Disconnect, LinkLost, daemon
<1>2. Len(down) \in Nat /\ dn \in Nat /\ dn \in 0 .. Len(down) /\ down \in Seq(Frames)
  BY Indices DEF IInv
<1>3. dn > 0 => down'[1] = down[1]
  <2>1. CASE Daemon
    <3>1. \A i \in 1 .. Len(down) : down'[i] = down[i]
      BY <2>1, DaemonSpeaks
    <3> QED BY <1>2, <3>1
  <2>2. CASE Disconnect
    <3>1. Len(down') \in dn .. Len(down) /\ \A i \in 1 .. Len(down') : down'[i] = down[i]
      BY <1>2, <2>2, Loses DEF Disconnect
    <3> QED BY <1>2, <3>1
  <2> QED BY <2>1, <2>2
<1>4. Looping'
  BY <1>1 DEF IInv, Looping, client
<1>5. Left'
  BY <1>1, <1>3 DEF IInv, Left, client
<1> QED BY <1>4, <1>5
-----------------------------------------------------------------------------
(* The inductive invariant, and what follows from it.                       *)

LEMMA InitIInv == Init => IInv
<1> SUFFICES ASSUME Init PROVE IInv
  OBVIOUS
<1>1. PICK n \in 0 .. MaxFile : source \in [1 .. n -> Chunk]
  BY DEF Init
<1>2. n \in Nat
  BY FileAssumption
<1>3. Len(source) = n
  BY <1>1, <1>2
<1>4. up = << >> /\ ut = 0 /\ down = << >> /\ dn = 0 /\ peer = "open"
  BY DEF Init, ChannelInit
<1>5. Len(up) = 0 /\ Len(down) = 0 /\ up \in Seq({Begin, Finish(0)}) /\ down \in Seq(Frames)
  BY <1>4
<1>6. IndicesOK
  BY <1>4, <1>5, TaskChannelAssumption DEF IndicesOK, PeerStates
<1>7. Types
  <2>1. next \in 0 .. Len(source)
    BY <1>2, <1>3 DEF Init
  <2>2. dest \in Seq(Chunk \cup {Hole}) \cup {Old}
    BY DEF Init
  <2>3. source \in UNION {[1 .. k -> Chunk] : k \in 0 .. MaxFile}
    BY DEF Init
  <2> QED BY <1>5, <1>6, <2>1, <2>2, <2>3 DEF Types, TypeOK, Init
<1>8. Said /\ Heard /\ Looping
  BY <1>4, <1>5 DEF Said, Heard, Looping, Init
<1>9. Left
  <2>1. << >> # <<Begin, Finish(0)>>
    OBVIOUS
  <2> QED BY <1>4, <2>1 DEF Left, Init
<1> QED BY <1>7, <1>8, <1>9 DEF IInv

LEMMA NextIInv == IInv /\ [Next]_vars => IInv'
<1> SUFFICES ASSUME IInv, [Next]_vars PROVE IInv'
  OBVIOUS
<1>1. CASE Client
  BY <1>1, ClientTypes, ClientSaid, ClientLooping, ClientLeft DEF IInv
<1>2. CASE Daemon
  BY <1>2, DaemonTypes, DaemonSpeaks, NotTheClient DEF IInv
<1>3. CASE Disconnect
  BY <1>3, DisconnectKeeps, NotTheClient DEF IInv
<1>4. CASE UNCHANGED vars
  BY <1>4 DEF vars, chVars, client, daemon, IInv, Types, TypeOK, IndicesOK, Said, Heard,
              Looping, Left
<1> QED BY <1>1, <1>2, <1>3, <1>4 DEF Next, Finished

\* The inductive invariant holds in every behaviour.
THEOREM SpecIInv == Spec => []IInv
BY InitIInv, NextIInv, PTL DEF Spec

\* The client has sent FINISH(0), and with it all it will ever send.
Acked == Finish(0) \in {up[i] : i \in 1 .. Len(up)}
AckedIsLast == Acked <=> up = <<Begin, Finish(0)>>

LEMMA AckedLast == IInv => AckedIsLast
<1> SUFFICES ASSUME IInv PROVE AckedIsLast
  OBVIOUS
<1> DEFINE b == Begin
           f == Finish(0)
<1>1. Len(<< >>) = 0 /\ Len(<<b>>) = 1 /\ <<b>>[1] = b
  OBVIOUS
<1>2. Len(<<b, f>>) = 2 /\ <<b, f>>[2] = f
  OBVIOUS
<1>3. up \in {<< >>, <<b>>, <<b, f>>} /\ b # f
  BY FrameFacts DEF IInv, Left
<1>4. up = << >> => {up[i] : i \in 1 .. Len(up)} = {}
  BY <1>1
<1>5. up = <<b>> => {up[i] : i \in 1 .. Len(up)} = {b}
  BY <1>1
<1>6. up = <<b, f>> => f \in {up[i] : i \in 1 .. Len(up)}
  BY <1>2
<1> QED BY <1>3, <1>4, <1>5, <1>6 DEF AckedIsLast, Acked

LEMMA IInvAcknowledged == IInv => AcknowledgedIsComplete
<1> SUFFICES ASSUME IInv PROVE AcknowledgedIsComplete
  OBVIOUS
<1>1. TypeOK
  BY DEF IInv, Types
<1>2. Len(<< >>) = 0 /\ Len(<<Begin>>) = 1 /\ <<Begin>>[1] = Begin
  OBVIOUS
<1> DEFINE b == Begin
           f == Finish(0)
<1>3. Len(<<b, f>>) = 2 /\ <<b, f>>[1] = b /\ <<b, f>>[2] = f
  OBVIOUS
<1>4. up \in {<< >>, <<b>>, <<b, f>>}
  BY DEF IInv, Left
<1>5. b # f
  BY FrameFacts
<1>6. ~ DaemonConfused
  <2>1. ASSUME dpc = "begin", ut < Len(up) PROVE up[ut + 1] = Begin
    <3>1. ut = 0 /\ ut + 1 = 1
      BY <2>1 DEF IInv, Heard
    <3>2. up # << >>
      BY <1>2, <2>1, <3>1
    <3> QED BY <1>2, <1>3, <1>4, <3>1, <3>2
  <2>2. ASSUME dpc = "finish", ut < Len(up) PROVE up[ut + 1] = Finish(0)
    <3>1. ut = 1 /\ ut + 1 = 2
      BY <2>2 DEF IInv, Heard
    <3>2. 1 < Len(up)
      BY <2>2, <3>1
    <3>3. Len(up) # 0 /\ Len(up) # 1
      <4>1. ~ (1 < 0) /\ ~ (1 < 1)
        OBVIOUS
      <4> QED BY Zenon, <3>2, <4>1
    <3>4. up # << >> /\ up # <<b>>
      BY <1>2, <3>3
    <3> QED BY <1>3, <1>4, <3>1, <3>4
  <2> QED BY <2>1, <2>2 DEF DaemonConfused
<1>7. Acked => up = <<b, f>>
  BY AckedLast DEF AckedIsLast
<1>8. Acked \/ summary = "finish" => dest = source /\ file = "closed"
  BY <1>7 DEF IInv, Left
<1> QED BY <1>1, <1>6, <1>8 DEF AcknowledgedIsComplete, Acked

LEMMA IInvPrefix == IInv => PrefixOnly
<1> SUFFICES ASSUME IInv, dest # Old
             PROVE  Len(dest) <= Len(source) /\ dest = SubSeq(source, 1, Len(dest))
  BY DEF PrefixOnly
<1>1. PICK n \in 0 .. Len(source) : dest = SubSeq(source, 1, n)
  BY DEF IInv, Left
<1>2. source \in Seq(Chunk) /\ Len(source) \in Nat
  BY Indices DEF IInv
<1>3. Len(dest) = n
  BY <1>1, <1>2, Prefixes
<1> QED BY <1>1, <1>2, <1>3

\* The client acknowledges with FINISH(0), and a summary comes back, only when
\* its file holds the device file, chunk for chunk, and is closed; and the
\* daemon never hears a frame it does not wait for.
THEOREM SpecAcknowledgedIsComplete == Spec => []AcknowledgedIsComplete
BY SpecIInv, IInvAcknowledged, PTL

\* However the transfer ends, the local file holds the old content or a prefix
\* of the device file.
THEOREM SpecPrefixOnly == Spec => []PrefixOnly
BY SpecIInv, IInvPrefix, PTL
-----------------------------------------------------------------------------
(* recv_file implements AbsRecv.                                            *)

\* The client has read that the device has the file.
Found == dn > 0 /\ down[1].cmd = "CHECK"

\* Two prefixes, one chunk apart.
LEMMA NextPrefix ==
    ASSUME NEW S, NEW s \in Seq(S), NEW n \in 1 .. Len(s)
    PROVE  SubSeq(s, 1, n) = Append(SubSeq(s, 1, n - 1), s[n])
<1> DEFINE f == SubSeq(s, 1, n - 1)
           g == SubSeq(s, 1, n)
           h == Append(f, s[n])
<1>1. n - 1 \in 0 .. Len(s) /\ n \in 0 .. Len(s) /\ n \in Nat /\ (n - 1) + 1 = n /\ s[n] \in S
  OBVIOUS
<1>2. f \in Seq(S) /\ Len(f) = n - 1 /\ f = [i \in 1 .. n - 1 |-> s[i]]
  BY <1>1, Prefixes
<1>3. g = [i \in 1 .. n |-> s[i]]
  BY <1>1, Prefixes
<1> HIDE DEF f, g
<1>4. h \in Seq(S) /\ Len(h) = n
  BY <1>1, <1>2
<1>5. \A i \in 1 .. n : h[i] = s[i]
  <2>1. h[n] = s[n]
    BY <1>1, <1>2
  <2>2. \A i \in 1 .. n - 1 : h[i] = f[i] /\ f[i] = s[i]
    BY <1>1, <1>2
  <2>3. \A i \in 1 .. n : i \in 1 .. n - 1 \/ i = n
    BY <1>1
  <2> QED BY <2>1, <2>2, <2>3
<1> HIDE DEF h
<1>6. h = [i \in 1 .. n |-> h[i]]
  BY <1>1, <1>4
<1> QED BY <1>3, <1>5, <1>6 DEF f, g, h

\* The target holds what it did as long as no CHECK has been read.
LEMMA NotFound == ASSUME IInv, ~ Found PROVE dest = Old
BY DEF IInv, Left, Found

\* Each step maps to a step of AbsRecv, or to none.
Steps == \/ /\ result = "none" /\ ~ Found /\ Found' /\ Acked' = Acked
            /\ \/ dest' = << >> /\ result' \in {"none", "oserror"}
               \/ dest' = dest /\ result' = "oserror"
         \/ /\ result = "none" /\ Found /\ ~ Acked
            /\ Len(dest) < Len(source)
            /\ dest' = Append(dest, source[Len(dest) + 1])
            /\ Found' /\ ~ Acked' /\ result' = result
         \/ /\ result = "none" /\ ~ Acked /\ dest = source /\ Acked'
            /\ dest' = dest /\ result' = result /\ Found' = Found
         \/ /\ result = "none" /\ result' \in {"ok"} \cup Errors
            /\ dest' = dest /\ Found' = Found /\ Acked' = Acked
         \/ dest' = dest /\ result' = result /\ Found' = Found /\ Acked' = Acked

LEMMA CheckSteps == ASSUME IInv, OnCheck PROVE Steps
<1>1. /\ dn = 0 /\ dn' = 1 /\ down[1].cmd = "CHECK" /\ dest' = << >> /\ up = << >>
      /\ down' = down /\ pc = "loop" /\ up' \in {<< >>, <<Begin>>}
      /\ result' \in {result, "oserror"}
  BY OnCheckDoes DEF OnCheck, Arrived
<1>2. ~ Found /\ Found' /\ result = "none"
  BY <1>1 DEF Found, IInv, Looping
<1>3. Acked' = FALSE /\ Acked = FALSE
  <2> DEFINE b == Begin
             f == Finish(0)
  <2>1. \A t : t \in {<< >>, <<b>>} => f \notin {t[i] : i \in 1 .. Len(t)}
    <3>1. Len(<< >>) = 0 /\ Len(<<b>>) = 1 /\ <<b>>[1] = b /\ b # f
      BY FrameFacts
    <3>2. f \notin {<< >>[i] : i \in 1 .. Len(<< >>)}
      BY <3>1
    <3>3. f \notin {<<b>>[i] : i \in 1 .. Len(<<b>>)}
      BY <3>1
    <3> QED BY <3>2, <3>3
  <2> QED BY <1>1, <2>1 DEF Acked
<1> QED BY <1>1, <1>2, <1>3 DEF Steps

LEMMA DataSteps == ASSUME IInv, OnData PROVE Steps
<1>1. /\ dn \in 1 .. Len(source) /\ dn' = dn + 1 /\ up = <<Begin>> /\ pc = "loop"
      /\ dest' = SubSeq(source, 1, dn) /\ UNCHANGED <<up, down, result>>
  BY OnDataDoes
<1>2. source \in Seq(Chunk) /\ Len(source) \in Nat /\ dn \in Nat
  BY Indices DEF IInv
<1>3. dn > 0 /\ dn < Len(source) + 2 /\ dn' > 0 /\ dn - 1 \in 0 .. Len(source)
  BY <1>1, <1>2
<1>4. dest = SubSeq(source, 1, dn - 1) /\ result = "none"
  BY <1>1, <1>3 DEF IInv, Looping
<1>5. dest \in Seq(Chunk) /\ Len(dest) = dn - 1
  BY <1>2, <1>3, <1>4, Prefixes
<1>6. Len(dest) < Len(source) /\ Len(dest) + 1 = dn
  BY <1>1, <1>2, <1>5
<1>7. dest' = Append(dest, source[Len(dest) + 1])
  BY <1>1, <1>2, <1>4, <1>6, NextPrefix
<1>8. Found /\ Found'
  <2>1. dest # Old
    BY <1>5, FileAssumption
  <2> QED BY <1>1, <1>3, <2>1, NotFound DEF Found
<1>9. ~ Acked /\ ~ Acked'
  <2>1. <<Begin>> # <<Begin, Finish(0)>>
    OBVIOUS
  <2>2. ~ Acked
    BY <1>1, <2>1, AckedLast DEF AckedIsLast
  <2> QED BY <1>1, <2>2 DEF Acked
<1> QED BY <1>1, <1>4, <1>6, <1>7, <1>8, <1>9 DEF Steps

LEMMA FinishSteps == ASSUME IInv, IInv', OnFinish PROVE Steps
<1>1. /\ dn = Len(source) + 1 /\ dn' = dn + 1 /\ up = <<Begin>> /\ pc = "loop"
      /\ dest = source /\ UNCHANGED <<dest, down>>
      /\ \/ result' = result /\ up' = <<Begin, Finish(0)>>
         \/ result' = "oserror" /\ up' = up
  BY OnFinishDoes DEF OnFinish, Arrived
<1>2. result = "none"
  BY <1>1 DEF IInv, Looping
<1>3. Found' = Found
  <2>1. dn > 0 /\ dn' > 0
    BY <1>1, Indices DEF IInv
  <2> QED BY <1>1, <2>1 DEF Found
<1>4. ~ Acked
  <2>1. <<Begin>> # <<Begin, Finish(0)>>
    OBVIOUS
  <2> QED BY <1>1, <2>1, AckedLast DEF AckedIsLast
<1>5. up' = up => Acked' = Acked
  BY DEF Acked
<1>6. up' = <<Begin, Finish(0)>> => Acked'
  <2>1. IInv' => AckedIsLast'
    BY AckedLast, PTL
  <2> QED BY <2>1 DEF AckedIsLast
<1> QED BY <1>1, <1>2, <1>3, <1>4, <1>5, <1>6 DEF Steps, Errors

LEMMA OtherSteps ==
    ASSUME IInv,
           \/ BadHeader \/ LocalFails \/ OnFinished \/ OnText \/ OnOther
           \/ OnEof \/ RecvRaises
    PROVE  Steps
<1>1. /\ UNCHANGED <<up, down, dest>> /\ pc = "loop" /\ dn' \in dn .. Len(down)
      /\ pc' \in {"loop", "done"} /\ result' \in {"none", "ok"} \cup Errors
      /\ pc' = "loop" => result' = result
  BY OthersDo
<1>2. result = "none" /\ dn \in Nat /\ Len(down) \in Nat
  BY <1>1, Indices DEF IInv, Looping
<1>3. Acked' = Acked
  BY <1>1 DEF Acked
<1>4. dn > 0 => Found' = Found
  <2>1. dn > 0 => dn' > 0
    BY <1>1, <1>2
  <2> QED BY <1>1, <2>1 DEF Found
<1>5. result' = result \/ result' \in {"ok"} \cup Errors
  BY <1>1, <1>2
<1>6. CASE dn > 0 \/ OnEof \/ RecvRaises
  <2>1. Found' = Found
    BY <1>1, <1>4, <1>6 DEF OnEof, RecvRaises, chVars, Found
  <2> QED BY <1>1, <1>2, <1>3, <1>5, <2>1 DEF Steps
<1>7. CASE dn = 0 /\ LocalFails /\ Arrived("CHECK")
  <2>0. file # "open"
    BY <1>1, <1>7 DEF IInv, Looping
  <2>1. Return("oserror") /\ dn' = dn + 1
    BY <1>7, <2>0 DEF LocalFails, ClientTakes
  <2>2. down[1].cmd = "CHECK" /\ dn' = 1
    BY <1>7, <2>1 DEF Arrived
  <2>3. ~ Found /\ Found' /\ result' = "oserror"
    BY <1>1, <1>7, <2>1, <2>2 DEF Found, Return
  <2> QED BY <1>1, <1>2, <1>3, <2>3 DEF Steps
<1>8. CASE dn = 0 /\ \E c \in {"DATA", "FINISH", "TEXT", "CLOSE"} : Arrived(c)
  <2>1. down[1].cmd # "CHECK"
    BY <1>8 DEF Arrived
  <2>2. ~ Found /\ ~ Found'
    BY <1>1, <2>1 DEF Found
  <2>3. Found' = Found
    BY <2>2 DEF Found
  <2> QED BY <1>1, <1>2, <1>3, <1>5, <2>3 DEF Steps
<1>9. \/ OnEof \/ RecvRaises
      \/ LocalFails /\ (Arrived("CHECK") \/ file = "open")
      \/ \E c \in {"DATA", "FINISH", "TEXT", "CLOSE"} : Arrived(c)
  BY DEF BadHeader, LocalFails, OnFinished, OnText, OnOther
<1>11. file = "open" => dn # 0
  BY <1>1 DEF IInv, Looping
<1>10. dn = 0 \/ dn > 0
  BY <1>2
<1> QED BY <1>6, <1>7, <1>8, <1>9, <1>10, <1>11

LEMMA RestSteps ==
    ASSUME IInv, Daemon \/ Disconnect \/ UNCHANGED vars
    PROVE  Steps /\ source' = source
<1>1. UNCHANGED <<up, dn, client, source>>
  BY DEF Daemon, DaemonStart, DaemonBegin, DaemonData, DaemonFinish, DaemonReport,
         DaemonRefuses, DaemonDropped, Disconnect, LinkLost, daemon, vars, chVars
<1>2. Len(down) \in Nat /\ dn \in Nat /\ dn \in 0 .. Len(down) /\ down \in Seq(Frames)
  BY Indices DEF IInv
<1>3. dn > 0 => down'[1] = down[1]
  <2>1. CASE Daemon
    <3>1. \A i \in 1 .. Len(down) : down'[i] = down[i]
      BY <2>1, DaemonSpeaks
    <3> QED BY <1>2, <3>1
  <2>2. CASE Disconnect
    <3>1. Len(down') \in dn .. Len(down) /\ \A i \in 1 .. Len(down') : down'[i] = down[i]
      BY <1>2, <2>2, Loses DEF Disconnect
    <3> QED BY <1>2, <3>1
  <2>3. CASE UNCHANGED vars
    BY <2>3 DEF vars, chVars
  <2> QED BY <2>1, <2>2, <2>3
<1>4. Found' = Found /\ Acked' = Acked
  BY <1>1, <1>3 DEF Found, Acked
<1> QED BY <1>1, <1>4 DEF Steps, client

LEMMA NextSteps == IInv /\ IInv' /\ [Next]_vars => Steps /\ source' = source
<1> SUFFICES ASSUME IInv, IInv', [Next]_vars PROVE Steps /\ source' = source
  OBVIOUS
<1>1. CASE Client
  BY <1>1, CheckSteps, DataSteps, FinishSteps, OtherSteps, ClientCases, ClientKeeps
<1>2. CASE Daemon \/ Disconnect \/ UNCHANGED vars
  BY <1>2, RestSteps
<1> QED BY <1>1, <1>2 DEF Next, Finished

\* recv_file implements AbsRecv: whatever the daemon, the network and the disk
\* do, the target is emptied once, after the word that the file is there, grows
\* in the file's order, and is not touched after FINISH(0) or after the call.
THEOREM RecvImplementsAbsRecv == Spec => AbsSpec
<1>1. Init => Abs!Init
  BY InitIInv, AckedLast DEF Init, ChannelInit, Abs!Init, AckedIsLast, Acked
<1>2. IInv /\ IInv' /\ [Next]_vars => [Abs!Next]_(Abs!vars)
  <2>1. Steps /\ source' = source => [Abs!Next]_(Abs!vars)
    BY DEF Steps, Found, Acked, Errors, Abs!Next, Abs!vars, Abs!Open, Abs!Write,
           Abs!Acknowledge, Abs!End, Abs!Ends
  <2> QED BY <2>1, NextSteps
<1> QED BY <1>1, <1>2, SpecIInv, PTL DEF Spec, AbsSpec, Abs!Spec
=============================================================================
