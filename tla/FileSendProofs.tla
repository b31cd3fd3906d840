--------------------------- MODULE FileSendProofs ---------------------------
(***************************************************************************)
(* The safety of send_file, and that it implements AbsSend, for files of    *)
(* any length, any chunk contents and sockets of any capacity.              *)
(***************************************************************************)
EXTENDS FileSend, TLAPS

UpFrames == {Check(n) : n \in 0 .. MaxFile}
                \cup {Data(i, c) : i \in 0 .. MaxFile - 1, c \in Chunk}
                \cup {Finish(1)}

Types == TypeOK /\ up \in Seq(UpFrames)

\* What the client has written: the size, the chunks from the first one on, and
\* FINISH(1), all of it true of the file unless another program rewrote that.
Content ==
    \A i \in 1 .. Len(up) :
       /\ i = 1 => up[i] = Check(size)
       /\ i > 1 /\ i < pos + 2 => \E c \in Chunk : up[i] = Data(i - 2, c)
       /\ i > 1 /\ i < pos + 2 /\ ~ edited => up[i] = Data(i - 2, local[i - 1])
       /\ i = pos + 2 => up[i] = Finish(1)

\* How much it has written.
Count ==
    /\ Len(up) = pos + 1 \/ Len(up) = pos + 2 \/ (Len(up) = 0 /\ pos = 0)
    /\ pc \in {"init", "check"} => Len(up) = 0
    /\ pc = "begin" => Len(up) = 1 /\ pos = 0
    /\ pc = "data" => Len(up) = pos + 1
    /\ pc = "tail" => Len(up) = pos + 2

\* What it says of a file that stays as it is.
Steady == ~ edited => /\ pos <= Len(local)
                      /\ Len(up) = pos + 2 => pos = Len(local)
                      /\ pc = "check" \/ Len(up) > 0 => size = Len(local)

Written == Content /\ Count /\ Steady

\* The errors that refuse a transfer come before its first chunk.
Concluded == /\ result # "none" <=> pc = "done"
             /\ result \in {"server", "command", "timeout"} => Len(up) < 2

\* What the daemon has taken of it, and stored.
Held == /\ dpc \in {"init", "check"} => ut = 0 /\ chunks = << >>
        /\ dpc = "data" =>
              /\ ut > 0 /\ ut < pos + 2 /\ want = size
              /\ chunks \in [1 .. ut - 1 -> Chunk]
              /\ \A i \in 1 .. ut - 1 : up[i + 1] = Data(i - 1, chunks[i])
        /\ dpc \in {"init", "check", "data"} => remote = Absent
        /\ dpc = "report" => remote # Absent
        /\ remote # Absent => /\ Len(up) = pos + 2
                              /\ remote \in [1 .. size -> Chunk]
                              /\ ~ edited => remote = local

\* "FileTransfer finish" is said, and heard, of a stored file only.
Told == /\ \A i \in 1 .. Len(down) : down[i] = Text("finish") => remote # Absent
        /\ "finish" \in summary => remote # Absent

IInv == Types /\ Written /\ Concluded /\ Held /\ Told
-----------------------------------------------------------------------------
(* Files and frames.                                                        *)

LEMMA FileFacts ==
    ASSUME NEW f \in File
    PROVE  /\ Len(f) \in 0 .. MaxFile /\ f \in [1 .. Len(f) -> Chunk]
           /\ f \in Seq(Chunk) /\ f # Absent
<1>1. PICK n \in 0 .. MaxFile : f \in [1 .. n -> Chunk]
  BY DEF File
<1>2. n \in Nat
  BY FileAssumption
<1>3. f \in Seq(Chunk) /\ Len(f) = n
  BY <1>1, <1>2
<1> QED BY <1>1, <1>3, FileAssumption

LEMMA InFile == ASSUME NEW n \in 0 .. MaxFile, NEW f \in [1 .. n -> Chunk] PROVE f \in File
BY DEF File

LEMMA FrameFacts ==
    /\ \A c : Cmd(c).cmd = c
    /\ \A n : Check(n).cmd = "CHECK" /\ Check(n).size = n
    /\ \A i, c : Data(i, c).cmd = "DATA" /\ Data(i, c).index = i /\ Data(i, c).chunk = c
    /\ \A f : Finish(f).cmd = "FINISH" /\ Finish(f).flag = f
    /\ \A t : Text(t).cmd = "TEXT" /\ Text(t).text = t
BY DEF Cmd, Check, Data, Finish, Text

LEMMA DownFrames ==
    \A m \in Frames : /\ m.cmd = "TEXT" => m \in {Text("fail"), Text("finish")}
                      /\ m.cmd = "TEXT" => m = Text(m.text) /\ m.text \in {"fail", "finish"}
                      /\ m = Text("finish") <=> m.cmd = "TEXT" /\ m.text = "finish"
                      /\ m.cmd = "CLOSE" <=> m = Cmd("CLOSE")
BY FrameFacts DEF Frames

\* The intervals that begin at 1 are told apart by their ends.
LEMMA SameEnd == ASSUME NEW m \in Nat, NEW n \in Nat, 1 .. m = 1 .. n PROVE m = n
<1>1. CASE m < n
  <2>1. n \in 1 .. n /\ n \notin 1 .. m
    BY <1>1
  <2> QED BY <2>1
<1>2. CASE n < m
  <2>1. m \in 1 .. m /\ m \notin 1 .. n
    BY <1>2
  <2> QED BY <2>1
<1> QED BY <1>1, <1>2
-----------------------------------------------------------------------------
(* The channel.                                                             *)

\* What the daemon says is added while the connection stands.
LEMMA Says ==
    ASSUME NEW S, down \in Seq(S), NEW ms \in Seq(S), DaemonSays(ms)
    PROVE  /\ down' \in Seq(S)
           /\ Len(down') >= Len(down)
           /\ \A i \in 1 .. Len(down) : down'[i] = down[i]
           /\ \A i \in 1 .. Len(down') : i > Len(down) =>
                 \E j \in 1 .. Len(ms) : down'[i] = ms[j]
<1>1. CASE peer = "open"
  <2>1. down' = down \o ms
    BY <1>1 DEF DaemonSays
  <2>2. /\ down' \in Seq(S) /\ Len(down') = Len(down) + Len(ms)
        /\ Len(down) \in Nat /\ Len(ms) \in Nat
        /\ \A i \in 1 .. Len(down) : down'[i] = down[i]
    BY <2>1
  <2>3. ASSUME NEW i \in 1 .. Len(down'), i > Len(down)
        PROVE  i - Len(down) \in 1 .. Len(ms) /\ down'[i] = ms[i - Len(down)]
    BY <2>1, <2>2, <2>3
  <2> QED BY <2>2, <2>3
<1>2. CASE peer # "open"
  <2>1. down' = down /\ Len(down) \in Nat
    BY <1>2 DEF DaemonSays
  <2> QED BY <2>1
<1> QED BY <1>1, <1>2

\* A broken connection loses the end of it.
LEMMA Loses ==
    ASSUME NEW S, down \in Seq(S), dn \in 0 .. Len(down), LinkLost
    PROVE  /\ down' \in Seq(S)
           /\ Len(down') \in dn .. Len(down)
           /\ \A i \in 1 .. Len(down') : down'[i] = down[i]
           /\ peer' \in PeerStates \ {"open"}
<1>1. PICK k \in dn .. Len(down) : down' = SubSeq(down, 1, k)
  BY DEF LinkLost
<1>2. down' \in Seq(S) /\ Len(down') = k /\ \A i \in 1 .. k : down'[i] = down[i]
  BY <1>1
<1> QED BY <1>2 DEF LinkLost

LEMMA Sends ==
    ASSUME NEW S, up \in Seq(S), NEW m \in S, ut \in 0 .. Len(up),
           Len(up) - ut <= UpMax, ClientSends(m)
    PROVE  /\ up' \in Seq(S)
           /\ Len(up') = Len(up) + 1
           /\ \A i \in 1 .. Len(up) : up'[i] = up[i]
           /\ up'[Len(up) + 1] = m
           /\ Len(up') - ut' <= UpMax
           /\ ut' \in 0 .. Len(up')
BY TaskChannelAssumption DEF ClientSends, Room

LEMMA ShortSeqs ==
    ASSUME NEW S, NEW x \in S, NEW y \in S
    PROVE  << >> \in Seq(S) /\ <<x>> \in Seq(S) /\ <<x, y>> \in Seq(S)
OBVIOUS

LEMMA Joined == ASSUME NEW S, NEW s \in Seq(S), NEW t \in Seq(S) PROVE s \o t \in Seq(S)
OBVIOUS

\* All that the daemon ever says.
LEMMA Words ==
    ASSUME Daemon
    PROVE  /\ UNCHANGED <<up, dn, local, edited, client>>
           /\ \/ down' = down
              \/ \E S \in SUBSET Frames : \E ms \in Seq(S) :
                    /\ DaemonSays(ms)
                    /\ Text("finish") \in S => dpc = "report"
<1> DEFINE Quiet == {Cmd("INIT"), Cmd("BEGIN"), Text("fail")}
<1>a. Quiet \subseteq Frames /\ Text("finish") \notin Quiet
  BY FrameFacts DEF Frames
<1>b. ASSUME NEW ms \in Seq(Quiet), DaemonSays(ms)
      PROVE  \E S \in SUBSET Frames : \E ns \in Seq(S) :
                DaemonSays(ns) /\ (Text("finish") \in S => dpc = "report")
  BY <1>a, <1>b
<1>1. CASE DaemonStart
  <2>1. <<Cmd("INIT")>> \in Seq(Quiet) /\ <<Cmd("INIT"), Text("fail")>> \in Seq(Quiet)
    BY ShortSeqs
  <2> HIDE DEF Quiet
  <2> QED BY <1>1, <2>1, <1>b DEF DaemonStart
<1>2. CASE DaemonCheck
  <2>1. <<Cmd("BEGIN")>> \in Seq(Quiet)
    BY ShortSeqs
  <2> HIDE DEF Quiet
  <2> QED BY <1>2, <2>1, <1>b DEF DaemonCheck
<1>3. CASE DaemonFinish
  <2>1. <<Text("fail")>> \in Seq(Quiet)
    BY ShortSeqs
  <2> HIDE DEF Quiet
  <2> QED BY <1>3, <2>1, <1>b DEF DaemonFinish
<1>4. CASE DaemonReport
  <2>1. \A c \in {<< >>, <<Cmd("CLOSE")>>} :
           <<Finish(0), Text("finish")>> \o c \in Seq(Frames)
    <3>1. Finish(0) \in Frames /\ Text("finish") \in Frames /\ Cmd("CLOSE") \in Frames
      BY DEF Frames
    <3>2. <<Finish(0), Text("finish")>> \in Seq(Frames) /\ <<Cmd("CLOSE")>> \in Seq(Frames)
          /\ << >> \in Seq(Frames)
      BY <3>1, ShortSeqs
    <3> QED BY <3>2, Joined
  <2>2. \E ms \in Seq(Frames) : DaemonSays(ms)
    BY <1>4, <2>1 DEF DaemonReport
  <2> QED BY <1>4, <2>2 DEF DaemonReport
<1>5. CASE DaemonRefuses
  <2>1. <<Text("fail")>> \in Seq(Quiet)
    BY ShortSeqs
  <2> HIDE DEF Quiet
  <2> QED BY <1>5, <2>1, <1>b DEF DaemonRefuses
<1>6. CASE DaemonData \/ DaemonDropped
  BY <1>6 DEF DaemonData, DaemonDropped
<1> QED BY <1>1, <1>2, <1>3, <1>4, <1>5, <1>6 DEF Daemon
-----------------------------------------------------------------------------
(* Types.                                                                   *)

\* The indices, for the provers.
LEMMA Indices ==
    ASSUME Types
    PROVE  /\ up \in Seq(UpFrames) /\ down \in Seq(Frames)
           /\ Len(up) \in Nat /\ ut \in 0 .. Len(up) /\ ut \in Nat
           /\ Len(down) \in Nat /\ dn \in 0 .. Len(down) /\ dn \in Nat
           /\ Len(up) - ut <= UpMax /\ peer \in PeerStates
           /\ pos \in Nat /\ size \in Nat /\ MaxFile \in Nat
<1>1. up \in Seq(UpFrames) /\ ut \in 0 .. Len(up)
  BY DEF Types, TypeOK, IndicesOK
<1>2. down \in Seq(Frames) /\ dn \in 0 .. Len(down)
  BY DEF Types, TypeOK, IndicesOK
<1>3. Len(up) - ut <= UpMax /\ peer \in PeerStates
  BY DEF Types, TypeOK, IndicesOK
<1>4. pos \in Nat /\ size \in Nat /\ MaxFile \in Nat
  BY FileAssumption DEF Types, TypeOK
<1> QED BY <1>1, <1>2, <1>3, <1>4

\* The parts of the types that the channel, the file, the client and the
\* daemon own.
ChannelTypes == IndicesOK /\ up \in Seq(UpFrames) /\ down \in Seq(Frames)

LocalTypes == local \in File /\ edited \in BOOLEAN

ClientTypes == /\ pc \in {"init", "check", "begin", "data", "tail", "done"}
               /\ size \in 0 .. MaxFile
               /\ pos \in 0 .. MaxFile
               /\ summary \subseteq {"fail", "finish"}
               /\ result \in Results

DaemonTypes == /\ dpc \in {"init", "check", "data", "report", "stop"}
               /\ want \in 0 .. MaxFile
               /\ DOMAIN chunks \subseteq 1 .. MaxFile
               /\ \A i \in DOMAIN chunks : chunks[i] \in Chunk
               /\ remote \in File \cup {Absent}

LEMMA ChannelKept == ASSUME ChannelTypes, UNCHANGED chVars PROVE ChannelTypes'
BY DEF ChannelTypes, IndicesOK, chVars

LEMMA TakesTypes ==
    ASSUME ChannelTypes, NEW m, ClientTakes(m)
    PROVE  ChannelTypes' /\ m = down[dn + 1] /\ dn + 1 \in 1 .. Len(down) /\ m \in Frames
BY DEF ChannelTypes, IndicesOK, ClientTakes

LEMMA SendsTypes ==
    ASSUME ChannelTypes, NEW m \in UpFrames, ClientSends(m) PROVE ChannelTypes'
BY Sends DEF ChannelTypes, IndicesOK, ClientSends

LEMMA DaemonChannel ==
    ASSUME ChannelTypes, Daemon, ut' \in ut .. Len(up), peer' \in PeerStates
    PROVE  ChannelTypes'
<1>1. down' \in Seq(Frames) /\ Len(down') >= Len(down)
  <2>1. CASE down' = down
    BY <2>1 DEF ChannelTypes
  <2>2. ASSUME NEW S \in SUBSET Frames, NEW ms \in Seq(S), DaemonSays(ms)
        PROVE  down' \in Seq(Frames) /\ Len(down') >= Len(down)
    <3>1. ms \in Seq(Frames)
      BY <2>2
    <3> QED BY <2>2, <3>1, Says DEF ChannelTypes
  <2> QED BY <2>1, <2>2, Words
<1>2. UNCHANGED <<up, dn>>
  BY Words
<1> QED BY <1>1, <1>2, TaskChannelAssumption DEF ChannelTypes, IndicesOK

LEMMA NextTypes == Types /\ Held /\ [Next]_vars => Types'
<1> SUFFICES ASSUME ChannelTypes, LocalTypes, ClientTypes, DaemonTypes, Held, [Next]_vars
             PROVE  ChannelTypes' /\ LocalTypes' /\ ClientTypes' /\ DaemonTypes'
  BY DEF Types, TypeOK, ChannelTypes, LocalTypes, ClientTypes, DaemonTypes
<1>a. ASSUME UNCHANGED <<local, edited>> PROVE LocalTypes'
  BY <1>a DEF LocalTypes
<1>b. ASSUME UNCHANGED client PROVE ClientTypes'
  BY <1>b DEF ClientTypes, client
<1>c. ASSUME UNCHANGED daemon PROVE DaemonTypes'
  BY <1>c DEF DaemonTypes, daemon
<1>d. ASSUME NEW r \in Results, Return(r), UNCHANGED <<size, pos, summary>> PROVE ClientTypes'
  BY <1>d DEF ClientTypes, Return
<1>e. Len(local) \in 0 .. MaxFile /\ local \in [1 .. Len(local) -> Chunk] /\ MaxFile \in Nat
  BY FileFacts, FileAssumption DEF LocalTypes
<1>1. CASE AwaitInit
  <2>1. ClientTypes'
    BY <1>1, <1>e DEF AwaitInit, ClientTypes
  <2> QED BY <1>1, <2>1, <1>a, <1>c, TakesTypes DEF AwaitInit
<1>2. CASE SendCheck
  <2>1. Check(size) \in UpFrames /\ ClientTypes'
    BY <1>2 DEF SendCheck, ClientTypes, UpFrames
  <2> QED BY <1>2, <2>1, <1>a, <1>c, SendsTypes DEF SendCheck
<1>3. CASE AwaitBegin
  <2>1. ClientTypes'
    BY <1>3 DEF AwaitBegin, ClientTypes
  <2> QED BY <1>3, <2>1, <1>a, <1>c, TakesTypes DEF AwaitBegin
<1>4. CASE Unexpected
  BY <1>4, <1>a, <1>c, <1>d, TakesTypes DEF Unexpected, Results, Errors
<1>5. CASE SendData
  <2>1. Data(pos, local[pos + 1]) \in UpFrames
    BY <1>5, <1>e DEF SendData, ClientTypes, UpFrames
  <2>2. ClientTypes'
    BY <1>5, <1>e DEF SendData, ClientTypes
  <2> QED BY <1>5, <2>1, <2>2, <1>a, <1>c, SendsTypes DEF SendData
<1>6. CASE SendFinish
  <2>1. Finish(1) \in UpFrames /\ ClientTypes'
    BY <1>6 DEF SendFinish, ClientTypes, UpFrames
  <2> QED BY <1>6, <2>1, <1>a, <1>c, SendsTypes DEF SendFinish
<1>7. CASE SendFails
  BY <1>7, <1>a, <1>c, <1>d, ChannelKept DEF SendFails, Results, Errors
<1>20. CASE LocalFails
  BY <1>20, <1>a, <1>c, <1>d, ChannelKept, TakesTypes DEF LocalFails, Results, Errors
<1>8. CASE TailFrame
  <2>1. PICK m \in Frames : /\ ClientTakes(m)
                           /\ summary' = IF m.cmd = "TEXT" THEN summary \cup {m.text}
                                         ELSE summary
    BY <1>8, TakesTypes DEF TailFrame
  <2>2. summary' \subseteq {"fail", "finish"}
    BY <2>1, DownFrames DEF ClientTypes
  <2>3. ClientTypes'
    BY <1>8, <2>2 DEF TailFrame, ClientTypes
  <2> QED BY <1>8, <2>1, <2>3, <1>a, <1>c, TakesTypes DEF TailFrame
<1>9. CASE TailClose
  BY <1>9, <1>a, <1>c, <1>d, TakesTypes DEF TailClose, Results
<1>10. CASE TailEof \/ TailTimeout
  BY <1>10, <1>a, <1>c, <1>d, ChannelKept DEF TailEof, TailTimeout, Results
<1>11. CASE RecvRaises
  BY <1>11, <1>a, <1>c, <1>d, ChannelKept DEF RecvRaises, Results, Errors
<1>f. ASSUME Daemon, ut' \in ut .. Len(up), peer' \in PeerStates
      PROVE  ChannelTypes' /\ LocalTypes' /\ ClientTypes'
  BY <1>f, <1>a, <1>b, DaemonChannel, Words
<1>g. ut \in ut .. Len(up) /\ peer \in PeerStates /\ (DaemonCloses => peer' \in PeerStates)
  BY DEF ChannelTypes, IndicesOK, DaemonCloses, PeerStates
<1>h. ASSUME NEW m, DaemonHears(m) PROVE ut' \in ut .. Len(up) /\ m \in UpFrames
  BY <1>h DEF DaemonHears, ChannelTypes, IndicesOK
<1>i. \A m \in UpFrames : /\ m.cmd = "CHECK" => m.size \in 0 .. MaxFile
                          /\ m.cmd = "DATA" => m.index \in 0 .. MaxFile - 1 /\ m.chunk \in Chunk
  BY FrameFacts DEF UpFrames
<1>12. CASE DaemonStart
  <2>1. DaemonTypes'
    BY <1>12 DEF DaemonStart, DaemonTypes
  <2> QED BY <1>12, <2>1, <1>f, <1>g DEF DaemonStart, Daemon
<1>13. CASE DaemonCheck
  <2>1. DaemonTypes'
    BY <1>13, <1>h, <1>i DEF DaemonCheck, DaemonTypes
  <2> QED BY <1>13, <2>1, <1>f, <1>g, <1>h DEF DaemonCheck, Daemon
<1>14. CASE DaemonData
  <2>1. PICK m \in UpFrames :
           /\ m.cmd = "DATA"
           /\ chunks' = [i \in DOMAIN chunks \cup {m.index + 1} |->
                            IF i = m.index + 1 THEN m.chunk ELSE chunks[i]]
    BY <1>14, <1>h DEF DaemonData
  <2>2. m.index + 1 \in 1 .. MaxFile /\ m.chunk \in Chunk
    BY <2>1, <1>e, <1>i
  <2>3. DaemonTypes'
    BY <1>14, <2>1, <2>2 DEF DaemonData, DaemonTypes
  <2> QED BY <1>14, <2>3, <1>f, <1>g, <1>h DEF DaemonData, Daemon
<1>15. CASE DaemonFinish
  <2>1. remote' \in File \cup {Absent}
    <3>1. CASE DOMAIN chunks = 1 .. want /\ remote' = chunks
      <4>1. chunks \in [1 .. want -> Chunk]
        BY <1>15, <3>1 DEF DaemonFinish, Held
      <4> QED BY <3>1, <4>1, InFile DEF DaemonTypes
    <3>2. CASE UNCHANGED remote
      BY <3>2 DEF DaemonTypes
    <3> QED BY <1>15, <3>1, <3>2 DEF DaemonFinish
  <2>2. DaemonTypes'
    BY <1>15, <2>1 DEF DaemonFinish, DaemonTypes
  <2> QED BY <1>15, <2>2, <1>f, <1>g, <1>h DEF DaemonFinish, Daemon
<1>16. CASE DaemonReport \/ DaemonRefuses \/ DaemonDropped
  <2>1. DaemonTypes'
    BY <1>16 DEF DaemonReport, DaemonRefuses, DaemonDropped, DaemonTypes
  <2> QED BY <1>16, <2>1, <1>f, <1>g DEF DaemonReport, DaemonRefuses, DaemonDropped, Daemon
<1>17. CASE Disconnect
  <2>1. ChannelTypes'
    BY <1>17, Loses DEF Disconnect, LinkLost, ChannelTypes, IndicesOK
  <2> QED BY <1>17, <2>1, <1>a, <1>b, <1>c DEF Disconnect
<1>18. CASE Edit
  BY <1>18, <1>b, <1>c, ChannelKept DEF Edit, LocalTypes
<1>19. CASE UNCHANGED vars
  BY <1>19, <1>a, <1>b, <1>c, ChannelKept DEF vars
<1> QED
  BY <1>1, <1>2, <1>3, <1>4, <1>5, <1>6, <1>7, <1>8, <1>9, <1>10, <1>11, <1>12,
     <1>13, <1>14, <1>15, <1>16, <1>17, <1>18, <1>19, <1>20 DEF Next, Client, Proceeds, Daemon, Finished
-----------------------------------------------------------------------------
(* What the client has written.                                             *)

LEMMA WrittenKept ==
    ASSUME Written, UNCHANGED <<up, pos, size, local, edited>>, pc' \in {pc, "done"}
    PROVE  Written'
BY DEF Written, Content, Count, Steady

LEMMA NextWritten == Types /\ Written /\ [Next]_vars => Written'
<1> SUFFICES ASSUME Types, Content, Count, Steady, [Next]_vars PROVE Written'
  BY DEF Written
<1>a. Len(local) \in Nat /\ local \in [1 .. Len(local) -> Chunk] /\ Len(up) \in Nat /\ pos \in Nat
  BY FileFacts, Indices DEF Types, TypeOK
<1>1. CASE AwaitInit
  <2>1. Len(up) = 0 /\ pos = 0
    BY <1>1, <1>a DEF AwaitInit, Count
  <2> QED BY <1>1, <1>a, <2>1 DEF AwaitInit, ClientTakes, Written, Content, Count, Steady
<1>2. CASE SendCheck
  <2>a. pc = "check" /\ (~ edited => size = Len(local))
    BY <1>2 DEF SendCheck, Steady
  <2>1. Len(up) = 0 /\ pos = 0 /\ (~ edited => size = Len(local))
    <3>1. Len(up) = 0 /\ pos = 0
      BY <2>a, <1>a DEF Count
    <3> QED BY <2>a, <3>1
  <2>2. Len(up') = 1 /\ up'[1] = Check(size)
    <3>1. ClientSends(Check(size)) /\ Check(size) \in UpFrames
      BY <1>2 DEF SendCheck, UpFrames, Types, TypeOK
    <3> QED BY <2>1, <3>1, Indices, Sends
  <2>3. Content'
    BY <1>2, <1>a, <2>1, <2>2 DEF SendCheck, Content
  <2> QED BY <1>2, <1>a, <2>1, <2>2, <2>3 DEF SendCheck, Written, Count, Steady
<1>3. CASE AwaitBegin
  BY <1>3, <1>a DEF AwaitBegin, ClientTakes, Written, Content, Count, Steady
<1>4. CASE \/ Unexpected \/ SendFails \/ LocalFails \/ TailFrame \/ TailClose \/ TailEof
           \/ TailTimeout \/ RecvRaises
  BY <1>4, WrittenKept DEF Written, Unexpected, SendFails, LocalFails, TailFrame, TailClose, TailEof,
       TailTimeout, RecvRaises, Return, ClientTakes, chVars
<1>5. CASE SendData
  <2>1. /\ Len(up) = pos + 1 /\ pos < Len(local)
        /\ ClientSends(Data(pos, local[pos + 1]))
        /\ pos' = pos + 1 /\ UNCHANGED <<local, edited, pc, size>>
        /\ pc = "data"
    BY <1>5 DEF SendData, Count
  <2>2. local[pos + 1] \in Chunk /\ Data(pos, local[pos + 1]) \in UpFrames
    <3>1. pos \in 0 .. MaxFile - 1
      BY <2>1, FileFacts, <1>a, FileAssumption DEF Types, TypeOK
    <3>2. local[pos + 1] \in Chunk
      BY <2>1, <1>a
    <3> QED BY <3>1, <3>2 DEF UpFrames
  <2>3. /\ Len(up') = pos + 2
        /\ \A i \in 1 .. pos + 1 : up'[i] = up[i]
        /\ up'[pos + 2] = Data(pos, local[pos + 1])
    <3>1. /\ Len(up') = Len(up) + 1 /\ up'[Len(up) + 1] = Data(pos, local[pos + 1])
          /\ \A i \in 1 .. Len(up) : up'[i] = up[i]
      BY <2>1, <2>2, Indices, Sends
    <3>2. Len(up) + 1 = pos + 2
      BY <2>1, <1>a
    <3> QED BY <2>1, <3>1, <3>2
  <2> DEFINE Fits(i) ==
        /\ i = 1 => up'[i] = Check(size)
        /\ i > 1 /\ i < pos + 3 => \E c \in Chunk : up'[i] = Data(i - 2, c)
        /\ i > 1 /\ i < pos + 3 /\ ~ edited => up'[i] = Data(i - 2, local[i - 1])
  <2>4. \A i \in 1 .. pos + 1 : Fits(i)
    BY <2>1, <2>3, <1>a DEF Content
  <2>5. Fits(pos + 2)
    <3>1. (pos + 2) - 2 = pos /\ (pos + 2) - 1 = pos + 1 /\ pos + 2 # 1
      BY <1>a
    <3>2. up'[pos + 2] = Data((pos + 2) - 2, local[(pos + 2) - 1]) /\ local[(pos + 2) - 1] \in Chunk
      BY <2>2, <2>3, <3>1
    <3>3. \E c \in Chunk : up'[pos + 2] = Data((pos + 2) - 2, c)
      BY <3>2
    <3> QED BY Zenon, <3>1, <3>2, <3>3
  <2>6. \A i \in 1 .. pos + 2 : Fits(i)
    <3> HIDE DEF Fits
    <3>1. \A i \in 1 .. pos + 2 : i \in 1 .. pos + 1 \/ i = pos + 2
      BY <1>a
    <3> QED BY <2>4, <2>5, <3>1
  <2>7. ~ edited => size = Len(local)
    <3>1. Len(up) > 0
      BY <2>1, <1>a
    <3> QED BY <3>1 DEF Steady
  <2>8. pos' + 1 = pos + 2 /\ pos' + 2 = pos + 3
    BY <2>1, <1>a
  <2>9. Content'
    BY <2>1, <2>3, <2>6, <2>8, <1>a DEF Content
  <2>10. Count'
    BY <2>1, <2>3, <2>7, <2>8, <1>a DEF Count
  <2>11. Steady'
    BY <2>1, <2>3, <2>7, <2>8, <1>a DEF Steady
  <2> QED BY <2>9, <2>10, <2>11 DEF Written
<1>6. CASE SendFinish
  <2>1. /\ Len(up) = pos + 1 /\ pos >= Len(local) /\ ClientSends(Finish(1))
        /\ UNCHANGED <<local, edited, size, pos>> /\ pc' = "tail"
        /\ Finish(1) \in UpFrames
    BY <1>6 DEF SendFinish, Count, UpFrames
  <2>2. /\ Len(up') = pos + 2
        /\ \A i \in 1 .. pos + 1 : up'[i] = up[i]
        /\ up'[pos + 2] = Finish(1)
    <3>1. /\ Len(up') = Len(up) + 1 /\ up'[Len(up) + 1] = Finish(1)
          /\ \A i \in 1 .. Len(up) : up'[i] = up[i]
      BY <2>1, Indices, Sends
    <3>2. Len(up) + 1 = pos + 2
      BY <2>1, <1>a
    <3> QED BY <2>1, <3>1, <3>2
  <2>3. \A i \in 1 .. pos + 2 :
          /\ i = 1 => up'[i] = Check(size)
          /\ i > 1 /\ i < pos + 2 => \E c \in Chunk : up'[i] = Data(i - 2, c)
          /\ i > 1 /\ i < pos + 2 /\ ~ edited => up'[i] = Data(i - 2, local[i - 1])
          /\ i = pos + 2 => up'[i] = Finish(1)
    BY <2>1, <2>2, <1>a DEF Content
  <2>4. ~ edited => size = Len(local) /\ pos = Len(local)
    <3>1. Len(up) > 0
      BY <2>1, <1>a
    <3>2. ~ edited => size = Len(local) /\ pos <= Len(local)
      BY <3>1 DEF Steady
    <3>a. \A m, n \in Nat : m >= n /\ m <= n => m = n
      OBVIOUS
    <3>b. pos >= Len(local)
      BY <2>1
    <3>3. pos <= Len(local) => pos = Len(local)
      BY <3>a, <3>b, <1>a
    <3> QED BY <3>2, <3>3
  <2>5. Content'
    BY <2>1, <2>2, <2>3 DEF Content
  <2>6. Count'
    BY <2>1, <2>2, <2>4, <1>a DEF Count
  <2>7. Steady'
    BY <2>1, <2>2, <2>4, <1>a DEF Steady
  <2> QED BY <2>5, <2>6, <2>7 DEF Written
<1>7. CASE Daemon
  <2>1. UNCHANGED <<up, pos, size, local, edited, pc>>
    BY <1>7, Words DEF client
  <2> QED BY <2>1, WrittenKept DEF Written
<1>8. CASE Disconnect \/ UNCHANGED vars
  BY <1>8, WrittenKept DEF Written, Disconnect, LinkLost, vars, chVars, client
<1>9. CASE Edit
  BY <1>9 DEF Edit, Written, Content, Count, Steady, chVars, client
<1> QED BY <1>1, <1>2, <1>3, <1>4, <1>5, <1>6, <1>7, <1>8, <1>9 DEF Next, Client, Proceeds, Finished

LEMMA NextConcluded == Types /\ Written /\ Concluded /\ [Next]_vars => Concluded'
<1> SUFFICES ASSUME Types, Written, Concluded, [Next]_vars PROVE Concluded'
  OBVIOUS
<1>a. Len(up) \in Nat
  BY Indices
<1>b. pc \in {"init", "begin"} => Len(up) < 2
  <2>1. pc \in {"init", "begin"} => Len(up) \in {0, 1}
    BY DEF Written, Count
  <2> QED BY <2>1
<1>1. CASE AwaitInit \/ AwaitBegin \/ TailFrame
  BY <1>1 DEF AwaitInit, AwaitBegin, TailFrame, ClientTakes, Concluded
<1>2. CASE SendCheck \/ SendData \/ SendFinish
  BY <1>2 DEF SendCheck, SendData, SendFinish, ClientSends, Concluded
<1>3. CASE Unexpected
  <2>1. Len(up) < 2
    BY <1>3, <1>b DEF Unexpected
  <2> QED BY <1>3, <2>1 DEF Unexpected, ClientTakes, Return, Concluded
<1>4. CASE SendFails \/ LocalFails \/ TailEof \/ TailTimeout \/ TailClose
  BY <1>4 DEF SendFails, LocalFails, TailEof, TailTimeout, TailClose, ClientTakes, Return, chVars, Concluded
<1>5. CASE RecvRaises
  <2>1. pc \in {"init", "begin"} => Len(up) < 2
    BY <1>b
  <2> QED BY <1>5, <2>1 DEF RecvRaises, Return, chVars, Concluded
<1>6. CASE Daemon
  <2>1. UNCHANGED <<up, pc, result>>
    BY <1>6, Words DEF client
  <2> QED BY <2>1 DEF Concluded
<1>7. CASE Disconnect \/ Edit \/ UNCHANGED vars
  BY <1>7 DEF Disconnect, LinkLost, Edit, vars, chVars, client, Concluded
<1> QED BY <1>1, <1>2, <1>3, <1>4, <1>5, <1>6, <1>7 DEF Next, Client, Proceeds, Finished
-----------------------------------------------------------------------------
(* What the daemon has taken of it, and stored.                             *)

\* The client may write more, but does not change what it wrote, and a stored
\* file means it is past its data.
LEMMA HeldKept ==
    ASSUME Types, Held, UNCHANGED <<ut, daemon>>, Len(up') \in Nat,
           Len(up') >= Len(up), \A i \in 1 .. Len(up) : up'[i] = up[i],
           ut > 0 => size' = size,
           pos' \in Nat /\ pos' >= pos,
           remote # Absent => UNCHANGED <<up, pos, size>>,
           edited => edited',
           ~ edited' => local' = local
    PROVE  Held'
<1>a. ut \in 0 .. Len(up) /\ Len(up) \in Nat /\ ut \in Nat /\ pos \in Nat
  BY Indices
<1>b. UNCHANGED <<dpc, want, chunks, remote>>
  BY DEF daemon
<1>c. ASSUME dpc = "data"
      PROVE  /\ ut' > 0 /\ ut' < pos' + 2 /\ want' = size'
             /\ chunks' \in [1 .. ut' - 1 -> Chunk]
             /\ \A i \in 1 .. ut' - 1 : up'[i + 1] = Data(i - 1, chunks'[i])
  <2>1. /\ ut > 0 /\ ut < pos + 2 /\ want = size /\ chunks \in [1 .. ut - 1 -> Chunk]
        /\ \A i \in 1 .. ut - 1 : up[i + 1] = Data(i - 1, chunks[i])
    BY <1>c DEF Held
  <2>2. ut' = ut /\ size' = size /\ ut < pos' + 2
    <3>1. pos' \in Nat /\ pos' >= pos /\ ut < pos + 2 /\ ut > 0
      BY <2>1
    <3>2. \A p, q, u \in Nat : u < p + 2 /\ q >= p => u < q + 2
      OBVIOUS
    <3> QED BY <1>a, <3>1, <3>2
  <2>3. \A i \in 1 .. ut - 1 : i + 1 \in 1 .. Len(up)
    BY <1>a
  <2>4. \A i \in 1 .. ut - 1 : up'[i + 1] = Data(i - 1, chunks[i])
    BY <2>1, <2>3
  <2> QED BY <1>b, <2>1, <2>2, <2>4
<1>d. ASSUME remote # Absent
      PROVE  /\ Len(up') = pos' + 2
             /\ remote' \in [1 .. size' -> Chunk]
             /\ ~ edited' => remote' = local'
  BY <1>b, <1>d DEF Held
<1> QED BY <1>b, <1>c, <1>d DEF Held

LEMMA NextHeld == Types /\ Written /\ Held /\ [Next]_vars => Held'
<1> SUFFICES ASSUME Types, Written, Held, [Next]_vars PROVE Held'
  OBVIOUS
<1>a. /\ up \in Seq(UpFrames) /\ Len(up) \in Nat /\ pos \in Nat /\ size \in Nat
      /\ ut \in 0 .. Len(up) /\ ut \in Nat
      /\ remote # Absent => Len(up) = pos + 2
  BY Indices DEF Held
<1>1. CASE AwaitInit
  <2>1. Len(up) = 0 /\ ut = 0 /\ remote = Absent
    BY <1>1, <1>a DEF AwaitInit, Written, Count
  <2> QED BY <1>1, <1>a, <2>1, HeldKept DEF AwaitInit, ClientTakes
<1>b. ASSUME NEW m \in UpFrames, ClientSends(m)
      PROVE  /\ Len(up') = Len(up) + 1
             /\ \A i \in 1 .. Len(up) : up'[i] = up[i]
             /\ ut' = ut
  <2>1. ut' = ut
    BY <1>b DEF ClientSends
  <2> QED BY <1>b, <2>1, Indices, Sends
<1>c. ASSUME NEW m \in UpFrames, ClientSends(m), Len(up) < pos + 2,
             UNCHANGED <<local, edited, size, daemon>>, pos' \in {pos, pos + 1}
      PROVE  Held'
  BY <1>a, <1>b, <1>c, HeldKept
<1>2. CASE SendCheck
  <2>1. Check(size) \in UpFrames /\ Len(up) < pos + 2
    BY <1>2, <1>a DEF SendCheck, Written, Count, UpFrames, Types, TypeOK
  <2> QED BY <1>2, <2>1, <1>c DEF SendCheck
<1>3. CASE SendData
  <2>1. Data(pos, local[pos + 1]) \in UpFrames /\ Len(up) < pos + 2
    <3>1. /\ Len(local) \in 0 .. MaxFile /\ local \in [1 .. Len(local) -> Chunk]
          /\ MaxFile \in Nat
      BY FileFacts, FileAssumption DEF Types, TypeOK
    <3> QED BY <1>3, <1>a, <3>1 DEF SendData, Written, Count, UpFrames
  <2> QED BY <1>3, <2>1, <1>c DEF SendData
<1>4. CASE SendFinish
  <2>1. Finish(1) \in UpFrames /\ Len(up) < pos + 2
    BY <1>4, <1>a DEF SendFinish, Written, Count, UpFrames
  <2> QED BY <1>4, <2>1, <1>c DEF SendFinish
<1>5. CASE \/ AwaitBegin \/ Unexpected \/ SendFails \/ LocalFails \/ TailFrame
           \/ TailClose \/ TailEof \/ TailTimeout \/ RecvRaises \/ Disconnect \/ Edit \/ UNCHANGED vars
  <2>1. UNCHANGED <<up, ut, pos, size, daemon>>
    BY <1>5 DEF AwaitBegin, Unexpected, SendFails, LocalFails, TailFrame, TailClose, TailEof,
         TailTimeout, RecvRaises, Return, ClientTakes, Disconnect, LinkLost, Edit,
         vars, chVars, client
  <2>2. (edited => edited') /\ (~ edited' => local' = local)
    BY <1>5 DEF AwaitBegin, Unexpected, SendFails, LocalFails, TailFrame, TailClose, TailEof,
         TailTimeout, RecvRaises, Disconnect, Edit, vars
  <2> QED BY <1>a, <2>1, <2>2, HeldKept
<1>d. ASSUME Daemon PROVE UNCHANGED <<up, pos, size, local, edited>>
  BY <1>d, Words DEF client
<1>6. CASE DaemonStart
  <2>1. UNCHANGED <<up, pos, size, local, edited>>
    BY <1>6, <1>d DEF Daemon
  <2> QED BY <1>6, <2>1 DEF DaemonStart, Held
<1>7. CASE DaemonCheck
  <2>1. UNCHANGED <<up, pos, size, local, edited>>
    BY <1>7, <1>d DEF Daemon
  <2>2. ut = 0 /\ ut' = 1 /\ chunks = << >> /\ Len(up) > 0 /\ want' = up[1].size
        /\ remote = Absent /\ dpc' = "data" /\ UNCHANGED <<chunks, remote>>
    BY <1>7, <1>a DEF DaemonCheck, DaemonHears, Held
  <2>3. want' = size'
    <3>1. up[1] = Check(size)
      BY <2>2, <1>a DEF Written, Content
    <3> QED BY <2>1, <2>2, <3>1, FrameFacts
  <2>4. chunks' \in [1 .. 0 -> Chunk]
    BY <2>2
  <2> QED BY <1>a, <2>1, <2>2, <2>3, <2>4 DEF Held
<1>8. CASE DaemonData
  <2>1. UNCHANGED <<up, pos, size, local, edited>>
    BY <1>8, <1>d DEF Daemon
  <2>2. /\ ut < Len(up) /\ up[ut + 1].cmd = "DATA" /\ ut' = ut + 1 /\ dpc = "data"
        /\ UNCHANGED <<dpc, want, remote>>
        /\ ut > 0 /\ ut < pos + 2 /\ chunks \in [1 .. ut - 1 -> Chunk] /\ want = size
        /\ remote = Absent
    BY <1>8 DEF DaemonData, DaemonHears, Held
  <2>3. ut + 1 < pos + 2
    <3>1. ut + 1 \in 1 .. Len(up) /\ (Len(up) = pos + 1 \/ Len(up) = pos + 2)
      BY <1>a, <2>2 DEF Written, Count
    <3>2. ut + 1 # pos + 2
      BY <2>2, <3>1, FrameFacts DEF Written, Content
    <3> QED BY <1>a, <2>2, <3>2
  <2>4. PICK c \in Chunk : up[ut + 1] = Data(ut - 1, c)
    <3>1. ut + 1 \in 1 .. Len(up) /\ ut + 1 > 1 /\ (ut + 1) - 2 = ut - 1
      BY <1>a, <2>2
    <3> QED BY <2>3, <3>1 DEF Written, Content
  <2>5. chunks' = [i \in 1 .. ut |-> IF i = ut THEN c ELSE chunks[i]]
    <3>1. up[ut + 1].index + 1 = ut /\ up[ut + 1].chunk = c
      BY <1>a, <2>2, <2>4, FrameFacts
    <3>2. DOMAIN chunks \cup {ut} = 1 .. ut
      BY <1>a, <2>2
    <3> QED BY <1>8, <3>1, <3>2 DEF DaemonData
  <2>6. chunks' \in [1 .. ut -> Chunk]
    BY <1>a, <2>2, <2>5
  <2>7. \A i \in 1 .. ut : up'[i + 1] = Data(i - 1, chunks'[i])
    <3>1. \A i \in 1 .. ut - 1 : chunks'[i] = chunks[i] /\ up'[i + 1] = Data(i - 1, chunks[i])
      BY <1>a, <2>1, <2>2, <2>5 DEF Held
    <3>2. chunks'[ut] = c
      BY <1>a, <2>2, <2>5
    <3> QED BY <1>a, <2>1, <2>4, <3>1, <3>2
  <2>8. ut' - 1 = ut
    BY <1>a, <2>2
  <2> QED BY <1>a, <2>1, <2>2, <2>3, <2>6, <2>7, <2>8 DEF Held
<1>9. CASE DaemonFinish
  <2>1. UNCHANGED <<up, pos, size, local, edited>>
    BY <1>9, <1>d DEF Daemon
  <2>2. /\ ut < Len(up) /\ up[ut + 1] = Finish(1) /\ dpc = "data"
        /\ ut > 0 /\ ut < pos + 2 /\ chunks \in [1 .. ut - 1 -> Chunk] /\ want = size
        /\ \A i \in 1 .. ut - 1 : up[i + 1] = Data(i - 1, chunks[i])
    BY <1>9 DEF DaemonFinish, DaemonHears, Held
  <2>3. ut = pos + 1 /\ Len(up) = pos + 2
    <3>1. ut + 1 \in 1 .. Len(up) /\ ut + 1 > 1 /\ (Len(up) = pos + 1 \/ Len(up) = pos + 2)
      BY <1>a, <2>2 DEF Written, Count
    <3>2. ~ (ut + 1 < pos + 2)
      BY <2>2, <3>1, FrameFacts DEF Written, Content
    <3> QED BY <1>a, <2>2, <3>1, <3>2
  <2>4. CASE DOMAIN chunks = 1 .. want /\ remote' = chunks /\ dpc' = "report"
    <3>1. pos = size
      <4>1. 1 .. pos = 1 .. size
        BY <1>a, <2>2, <2>3, <2>4
      <4> QED BY <1>a, <4>1, SameEnd
    <3>2. chunks \in [1 .. size -> Chunk]
      BY <1>a, <2>2, <2>3, <3>1
    <3>3. remote' # Absent
      BY <2>4, <3>2, FileFacts, InFile DEF Types, TypeOK
    <3>4. ASSUME ~ edited PROVE chunks = local
      <4>1. Len(local) = pos /\ local \in [1 .. pos -> Chunk]
        BY <2>3, <3>4, FileFacts DEF Written, Steady, Types, TypeOK
      <4>2. ASSUME NEW i \in 1 .. pos PROVE chunks[i] = local[i]
        <5>1. up[i + 1] = Data(i - 1, chunks[i])
          BY <1>a, <2>2, <2>3
        <5>2. i + 1 \in 1 .. Len(up) /\ i + 1 > 1 /\ i + 1 < pos + 2
              /\ (i + 1) - 2 = i - 1 /\ (i + 1) - 1 = i
          BY <1>a, <2>3
        <5>3. up[i + 1] = Data(i - 1, local[i])
          BY <3>4, <5>2 DEF Written, Content
        <5> QED BY <5>1, <5>3, FrameFacts
      <4> QED BY <3>1, <3>2, <4>1, <4>2
    <3> QED BY <2>1, <2>3, <2>4, <3>2, <3>3, <3>4 DEF Held
  <2>5. CASE dpc' = "stop" /\ UNCHANGED remote
    <3>1. remote' = Absent
      BY <2>2, <2>5 DEF Held
    <3> QED BY <2>5, <3>1 DEF Held
  <2> QED BY <1>9, <2>4, <2>5 DEF DaemonFinish
<1>10. CASE DaemonReport \/ DaemonRefuses \/ DaemonDropped
  <2>1. UNCHANGED <<up, pos, size, local, edited>>
    BY <1>10, <1>d DEF Daemon
  <2>2. dpc' = "stop" /\ remote' = remote
    BY <1>10 DEF DaemonReport, DaemonRefuses, DaemonDropped
  <2> QED BY <2>1, <2>2 DEF Held
<1> QED
  BY <1>1, <1>2, <1>3, <1>4, <1>5, <1>6, <1>7, <1>8, <1>9, <1>10
     DEF Next, Client, Proceeds, Daemon, Finished
-----------------------------------------------------------------------------
(* What is said, and heard, of the stored file.                             *)

LEMMA NextTold == Types /\ Held /\ Told /\ [Next]_vars => Told'
<1> SUFFICES ASSUME Types, Held, Told, [Next]_vars PROVE Told'
  OBVIOUS
<1>a. down \in Seq(Frames) /\ Len(down) \in Nat /\ dn \in 0 .. Len(down) /\ dn \in Nat
  BY Indices
<1>b. ASSUME UNCHANGED down, summary' = summary, remote # Absent => remote' # Absent PROVE Told'
  BY <1>b DEF Told
<1>1. CASE \/ AwaitInit \/ SendCheck \/ AwaitBegin \/ Unexpected \/ SendData \/ SendFinish
           \/ SendFails \/ LocalFails \/ TailClose \/ TailEof \/ TailTimeout \/ RecvRaises \/ Edit
           \/ UNCHANGED vars
  BY <1>1, <1>b DEF AwaitInit, SendCheck, AwaitBegin, Unexpected, SendData, SendFinish,
       SendFails, LocalFails, TailClose, TailEof, TailTimeout, RecvRaises, Edit, vars, ClientTakes,
       ClientSends, chVars, client, daemon
<1>2. CASE TailFrame
  <2>1. PICK m : /\ m = down[dn + 1] /\ dn < Len(down)
                 /\ summary' = IF m.cmd = "TEXT" THEN summary \cup {m.text} ELSE summary
                 /\ UNCHANGED <<down, remote>>
    BY <1>2 DEF TailFrame, ClientTakes, daemon
  <2>2. dn + 1 \in 1 .. Len(down) /\ m \in Frames
    BY <1>a, <2>1
  <2>3. m.cmd = "TEXT" /\ m.text = "finish" => remote # Absent
    BY <2>1, <2>2, DownFrames DEF Told
  <2> QED BY <2>1, <2>3 DEF Told
<1>3. CASE Daemon
  <2>1. summary' = summary /\ (remote # Absent => remote' # Absent)
    <3>1. summary' = summary
      BY <1>3, Words DEF client
    <3>2. dpc = "data" => remote = Absent
      BY DEF Held
    <3>3. remote' = remote \/ dpc = "data"
      BY <1>3 DEF Daemon, DaemonStart, DaemonCheck, DaemonData, DaemonFinish,
           DaemonReport, DaemonRefuses, DaemonDropped
    <3> QED BY <3>1, <3>2, <3>3
  <2>2. CASE down' = down
    BY <2>1, <2>2, <1>b
  <2>3. ASSUME NEW S \in SUBSET Frames, NEW ms \in Seq(S), DaemonSays(ms),
               Text("finish") \in S => dpc = "report"
        PROVE  Told'
    <3>1. ms \in Seq(Frames) /\ \A j \in 1 .. Len(ms) : ms[j] \in S
      BY <2>3
    <3>2. dpc = "report" => remote # Absent
      BY DEF Held
    <3>3. ASSUME NEW i \in 1 .. Len(down'), down'[i] = Text("finish") PROVE remote' # Absent
      <4>1. CASE i <= Len(down)
        <5>1. i \in 1 .. Len(down) /\ down'[i] = down[i]
          BY <1>a, <2>3, <3>1, <4>1, Says
        <5> QED BY <2>1, <3>3, <5>1 DEF Told
      <4>2. CASE i > Len(down)
        <5>1. Text("finish") \in S
          BY <1>a, <2>3, <3>1, <3>3, <4>2, Says
        <5> QED BY <2>1, <2>3, <3>2, <5>1
      <4> QED BY <1>a, <4>1, <4>2
    <3> QED BY <2>1, <3>3 DEF Told
  <2> QED BY <1>3, <2>2, <2>3, Words
<1>4. CASE Disconnect
  <2>1. UNCHANGED <<summary, remote>> /\ LinkLost
    BY <1>4 DEF Disconnect, client, daemon
  <2>2. Len(down') \in dn .. Len(down) /\ \A i \in 1 .. Len(down') : down'[i] = down[i]
    BY <1>a, <2>1, Loses
  <2>3. \A i \in 1 .. Len(down') : i \in 1 .. Len(down)
    BY <1>a, <2>2
  <2> QED BY <2>1, <2>2, <2>3 DEF Told
<1> QED BY <1>1, <1>2, <1>3, <1>4 DEF Next, Client, Proceeds, Finished
-----------------------------------------------------------------------------
(* The theorems.                                                            *)

LEMMA InitIInv == Init => IInv
<1> SUFFICES ASSUME Init PROVE IInv
  OBVIOUS
<1>1. up = << >> /\ down = << >> /\ ut = 0 /\ dn = 0 /\ peer = "open"
  BY DEF Init, ChannelInit
<1>2. /\ local \in File /\ edited = FALSE /\ pc = "init" /\ size = 0 /\ pos = 0
      /\ summary = {} /\ result = "none" /\ dpc = "init" /\ want = 0 /\ chunks = << >>
      /\ remote = Absent
  BY DEF Init
<1>3. 0 \in 0 .. MaxFile
  BY FileAssumption
<1>4. Types
  <2>1. IndicesOK
    BY <1>1, TaskChannelAssumption DEF IndicesOK, PeerStates
  <2>2. up \in Seq(UpFrames) /\ down \in Seq(Frames)
    BY <1>1
  <2>3. DOMAIN chunks = {}
    BY <1>2
  <2> QED BY <1>2, <1>3, <2>1, <2>2, <2>3 DEF Types, TypeOK, Results
<1>5. Content /\ Count
  BY <1>1, <1>2 DEF Content, Count
<1>6. Steady
  <2>1. Len(local) \in Nat /\ Len(up) = 0
    BY <1>1, <1>2, FileFacts
  <2> QED BY <1>2, <2>1 DEF Steady
<1>7. Concluded /\ Held /\ Told
  BY <1>1, <1>2 DEF Concluded, Held, Told
<1> QED BY <1>4, <1>5, <1>6, <1>7 DEF IInv, Written

LEMMA NextIInv == IInv /\ [Next]_vars => IInv'
BY NextTypes, NextWritten, NextConcluded, NextHeld, NextTold DEF IInv

\* The inductive invariant holds in every behaviour.
THEOREM SpecIInv == Spec => []IInv
BY InitIInv, NextIInv, PTL DEF Spec

\* Chunks are neither lost, repeated nor out of place between the file and the
\* device, for any file and any sockets, and "FileTransfer finish" is heard of a
\* stored file only.
THEOREM SpecStoredIsLocal == Spec => []StoredIsLocal
<1>1. IInv => StoredIsLocal
  <2> SUFFICES ASSUME IInv
               PROVE  /\ remote # Absent /\ ~ edited => remote = local
                      /\ "finish" \in summary => remote # Absent /\ Len(remote) = size
    BY DEF StoredIsLocal
  <2>1. remote # Absent => remote \in [1 .. size -> Chunk] /\ (~ edited => remote = local)
    BY DEF IInv, Held
  <2>2. remote # Absent => Len(remote) = size
    BY <2>1, Indices DEF IInv
  <2> QED BY <2>1, <2>2 DEF IInv, Told
<1> QED BY <1>1, SpecIInv, PTL

\* No frame of the client reaches the daemon's branches for what is out of the
\* protocol, and it never has more frames on their way than the sockets hold.
THEOREM SpecDaemonNeverConfused == Spec => []DaemonNeverConfused
<1>1. IInv => DaemonNeverConfused
  <2> SUFFICES ASSUME IInv, DaemonConfused PROVE FALSE
    BY DEF DaemonNeverConfused, IInv, Types
  <2>1. ut < Len(up) /\ ut \in Nat /\ Len(up) \in Nat /\ ut + 1 \in 1 .. Len(up) /\ pos \in Nat
    BY Indices DEF IInv, DaemonConfused
  <2>2. CASE dpc = "check" /\ up[ut + 1].cmd # "CHECK"
    <3>1. up[1] = Check(size) /\ ut = 0
      BY <2>1, <2>2 DEF IInv, Held, Written, Content
    <3> QED BY <2>2, <3>1, FrameFacts
  <2>3. CASE dpc = "data" /\ up[ut + 1].cmd # "DATA" /\ up[ut + 1] # Finish(1)
    <3>1. ut > 0 /\ ut < pos + 2
      BY <2>3 DEF IInv, Held
    <3>2. ut + 1 < pos + 2 \/ ut + 1 = pos + 2
      <4>1. Len(up) = pos + 1 \/ Len(up) = pos + 2 \/ Len(up) = 0
        BY DEF IInv, Written, Count
      <4> QED BY <2>1, <3>1, <4>1
    <3>3. ut + 1 > 1
      BY <2>1, <3>1
    <3>4. up[ut + 1] = Finish(1) \/ \E c \in Chunk : up[ut + 1] = Data((ut + 1) - 2, c)
      BY <2>1, <3>2, <3>3 DEF IInv, Written, Content
    <3> QED BY <2>3, <3>4, FrameFacts
  <2> QED BY <2>2, <2>3 DEF DaemonConfused
<1> QED BY <1>1, SpecIInv, PTL
-----------------------------------------------------------------------------
(* send_file implements AbsSend.                                            *)

\* The two variables of AbsSend change one at a time: the device file once,
\* from nothing, the outcome once, by what the client does.
LEMMA OneAtATime ==
    ASSUME IInv, [Next]_vars
    PROVE  \/ result' = result /\ remote' = remote
           \/ result' = result /\ remote = Absent
           \/ result = "none" /\ remote' = remote
<1>a. pc # "done" => result = "none"
  BY DEF IInv, Concluded
<1>b. dpc = "data" => remote = Absent
  BY DEF IInv, Held
<1>1. CASE Client
  <2>1. pc # "done" /\ remote' = remote
    BY <1>1 DEF Client, Proceeds, AwaitInit, SendCheck, AwaitBegin, Unexpected, SendData,
         SendFinish, SendFails, LocalFails, TailFrame, TailClose, TailEof, TailTimeout,
         RecvRaises, daemon
  <2> QED BY <1>a, <2>1
<1>2. CASE Daemon
  <2>1. result' = result
    BY <1>2, Words DEF client
  <2>2. remote' = remote \/ dpc = "data"
    BY <1>2 DEF Daemon, DaemonStart, DaemonCheck, DaemonData, DaemonFinish,
         DaemonReport, DaemonRefuses, DaemonDropped
  <2> QED BY <1>b, <2>1, <2>2
<1>3. CASE Disconnect \/ Edit \/ UNCHANGED vars
  BY <1>3 DEF Disconnect, Edit, vars, client, daemon
<1> QED BY <1>1, <1>2, <1>3 DEF Next, Finished

\* Nothing is on the device for a caller who was refused.
NothingStored == result \in {"server", "command", "timeout"} => remote = Absent

LEMMA RefusedIsAbsent == IInv => NothingStored
<1> SUFFICES ASSUME IInv, result \in {"server", "command", "timeout"}, remote # Absent
             PROVE  FALSE
  BY DEF NothingStored
<1>1. Len(up) < 2 /\ Len(up) = pos + 2 /\ pos \in Nat
  BY Indices DEF IInv, Concluded, Held
<1> QED BY <1>1

\* A refused caller may rely on it: the device file is not there, and no step of
\* any party puts it there later.  Everyone else finds nothing or a whole file.
THEOREM SendImplementsAbsSend == Spec => AbsSpec
<1>0. IInv' => NothingStored'
  BY RefusedIsAbsent, PTL
<1>1. Init => Abs!Init
  BY DEF Init, Abs!Init
<1>2. IInv /\ IInv' /\ [Next]_vars => [Abs!Next]_(Abs!vars)
  <2> SUFFICES ASSUME IInv, IInv', [Next]_vars PROVE [Abs!Next]_(Abs!vars)
    OBVIOUS
  <2>1. CASE result' = result /\ remote' = remote
    BY <2>1 DEF Abs!vars
  <2>2. CASE result' = result /\ remote = Absent /\ remote' # Absent
    <3>1. result' \notin {"server", "command", "timeout"}
      <4>1. result' \in {"server", "command", "timeout"} => remote' = Absent
        BY <1>0 DEF NothingStored
      <4> QED BY <2>2, <4>1
    <3>2. remote' \in Seq(Chunk)
      <4>1. remote' \in File
        BY <2>2 DEF IInv, Types, TypeOK
      <4> QED BY <4>1, FileFacts
    <3> QED BY <2>2, <3>1, <3>2 DEF Abs!Next, Abs!Store, Abs!Refused
  <2>3. CASE result = "none" /\ remote' = remote /\ result' # result
    <3>1. result' \in Errors \cup {"ok"}
      BY <2>3 DEF IInv, Types, TypeOK, Results
    <3>2. CASE result' \in {"server", "command", "timeout"}
      <4>1. result' \in {"server", "command", "timeout"} => remote' = Absent
        BY <1>0 DEF NothingStored
      <4>2. remote = Absent
        BY <2>3, <3>2, <4>1
      <4> QED BY <2>3, <3>2, <4>2 DEF Abs!Next, Abs!Refuse, Abs!Refused
    <3>3. CASE result' \in {"ok", "protocol", "oserror"}
      BY <2>3, <3>3 DEF Abs!Next, Abs!GiveUp, Abs!Unsure
    <3> QED BY <3>1, <3>2, <3>3 DEF Errors
  <2> QED BY <2>1, <2>2, <2>3, OneAtATime
<1> QED BY <1>1, <1>2, SpecIInv, PTL DEF Spec, AbsSpec, Abs!Spec
=============================================================================
