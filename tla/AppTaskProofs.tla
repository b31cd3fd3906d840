---------------------------- MODULE AppTaskProofs ----------------------------
(***************************************************************************)
(* The safety of install and uninstall, and that they implement AbsApp, for *)
(* packages of any length and sockets of any capacity.                      *)
(***************************************************************************)
EXTENDS AppTask, TLAPS

UpFrames == {Check(n) : n \in 0 .. MaxFile} \cup {Cmd("DATA")}

Yes == Verdict(TRUE)
No  == Verdict(FALSE)

\* The text that ends the loop of install.
Over == Text("AppMod finish")

Reports == {Yes, No,
            Text("[Fail]"), Text("info"), Over, Cmd("CLOSE")}
Frames  == {Cmd("INIT"), Cmd("BEGIN")} \cup Reports

Flow == {"init", "check", "begin", "data", "verdict"}

Types == /\ TypeOK
         /\ up \in Seq(UpFrames)
         /\ down \in Seq(Frames)
         /\ op \in {"install", "uninstall"}
         /\ dpc \in {"check", "data"} => op = "install"
         /\ dpc \in {"init", "check"} => got = 0
         /\ op = "uninstall" => down \in Seq(Reports)
         /\ pc \in Flow => op = "install"
         /\ pc = "collect" => op = "uninstall"

\* What the client has written: the size, if the package was not rewritten that
\* of the package, and then data.
Sent == /\ \A i \in 1 .. Len(up) : up[i] = IF i = 1 THEN Check(size) ELSE Cmd("DATA")
        /\ pc \in {"init", "check"} \/ op = "uninstall" => Len(up) = 0
        /\ pc \in {"begin", "data", "verdict"} => Len(up) > 0
        /\ op = "install" /\ ~ edited /\ (pc = "check" \/ Len(up) > 0) => size = pkg

\* What the daemon has taken of it.
Held == /\ dpc \in {"init", "check"} => ut = 0
        /\ dpc \in {"init", "check", "data"} => bm = "pending"
        /\ dpc = "report" => bm # "pending"
        /\ op = "install" /\ (dpc = "data" \/ bm # "pending") => ut > 0 /\ want = size
        /\ op = "install" /\ bm # "pending" => got = want

\* The task is over for the daemon, and the bundle manager did not do it.
Refused == dpc = "stop" /\ bm # "done"

\* What the daemon may have said as its i-th frame in task o, when it is at d
\* and the bundle manager at b.
Fits(i, m, o, d, b) ==
    /\ m \in {Text("[Fail]"), No} => d = "stop" /\ b # "done"
    /\ m = Yes => b = "done"
    /\ o = "install" /\ i = 1 => m = Cmd("INIT")
    /\ o = "install" /\ i = 2 => m \in {Cmd("BEGIN"), Text("[Fail]")}

\* What it has said, with the connection in one piece or not.
Said == /\ \A i \in 1 .. Len(down) : Fits(i, down[i], op, dpc, bm)
        /\ dpc = "init" => Len(down) = 0
        /\ op = "install" /\ peer = "open" /\ dpc = "check" => Len(down) = 1
        /\ op = "install" /\ peer = "open" /\ dpc \in {"data", "report"} => Len(down) > 1

\* What the client has heard of it and concluded.
Heard == /\ pc = "init" => dn = 0
         /\ pc \in {"check", "begin"} => dn = 1
         /\ pc \in {"data", "verdict"} => dn > 1
         /\ pc = "data" => dn = 2
         /\ result # "none" => pc = "done"
         /\ result = "command" => Refused
         /\ success = "no" => Refused
         /\ success = "yes" => bm = "done"

\* install, until it has raised.
NoneMissed == /\ \A i \in 1 .. dn : /\ down[i] # Text("[Fail]")
                                    /\ down[i].cmd = "FINISH" => success # "unknown"
              /\ result = "ok" => success # "no"
Heeded == op = "install" /\ (pc # "done" \/ result = "ok") => NoneMissed

\* uninstall has a line for each frame but the closing one.
Collected == op = "uninstall" =>
               /\ Len(lines) <= dn
               /\ pc = "collect" => Len(lines) = dn
               /\ \A i \in 1 .. dn :
                     IF i <= Len(lines)
                     THEN lines[i] = Line(down[i]) /\ down[i].cmd # "CLOSE"
                     ELSE down[i] = Cmd("CLOSE")
               /\ result = "ok" => ~ ReportsFailure

\* A call returns normally only where its reading ended.
Ended == result = "ok" => ReadingEnded

IInv == Types /\ Sent /\ Held /\ Said /\ Heard /\ Heeded /\ Collected /\ Ended

LEMMA FrameFacts ==
  \A m \in Frames :
     /\ m.cmd = "INIT" <=> m = Cmd("INIT")
     /\ m.cmd = "BEGIN" <=> m = Cmd("BEGIN")
     /\ m.cmd = "CLOSE" <=> m = Cmd("CLOSE")
     /\ m.cmd = "FINISH" <=> m \in {Yes, No}
     /\ m.cmd = "TEXT" <=> m \in {Text("[Fail]"), Text("info"), Over}
     /\ m.cmd \in {"INIT", "BEGIN", "CLOSE", "FINISH", "TEXT"}
     /\ m.cmd = "FINISH" => m = Verdict(m.ok) /\ m.ok \in BOOLEAN
     /\ m.cmd = "TEXT" => m = Text(m.text)
<1>1. \A c : Cmd(c).cmd = c
  BY DEF Cmd
<1>2. \A b : Verdict(b).cmd = "FINISH" /\ Verdict(b).ok = b
  BY DEF Verdict
<1>3. \A t : Text(t).cmd = "TEXT" /\ Text(t).text = t
  BY DEF Text
<1> QED BY <1>1, <1>2, <1>3 DEF Frames, Reports, Yes, No, Over
-----------------------------------------------------------------------------
(* The channel.                                                             *)

\* What the daemon says is added while the connection stands.
LEMMA Says ==
    ASSUME NEW S, down \in Seq(S), NEW ms \in Seq(S), DaemonSays(ms)
    PROVE  /\ down' \in Seq(S)
           /\ Len(down') >= Len(down)
           /\ \A i \in 1 .. Len(down) : down'[i] = down[i]
           /\ peer # "open" => Len(down') = Len(down)
           /\ peer = "open" =>
                 /\ Len(down') = Len(down) + Len(ms)
                 /\ \A i \in 1 .. Len(ms) : down'[Len(down) + i] = ms[i]
<1>1. CASE peer = "open"
  <2>1. down' = down \o ms
    BY <1>1 DEF DaemonSays
  <2> QED BY <1>1, <2>1
<1>2. CASE peer # "open"
  BY <1>2 DEF DaemonSays
<1> QED BY <1>1, <1>2

\* A broken connection loses the end of it.
LEMMA Loses ==
    ASSUME NEW S, down \in Seq(S), dn \in 0 .. Len(down), LinkLost
    PROVE  /\ down' \in Seq(S)
           /\ Len(down') \in dn .. Len(down)
           /\ \A i \in 1 .. Len(down') : down'[i] = down[i]
           /\ peer' \in PeerStates \ {"open"}
<1>1. PICK k \in dn .. Len(down) : down' = SubSeq(down, 1, k)
  BY DEF LinkLost
<1>2. down' \in Seq(S) /\ Len(down') = k /\ \A i \in 1 .. k : down'[i] = down[i]
  BY <1>1
<1> QED BY <1>2 DEF LinkLost

LEMMA Closes == ASSUME peer \in PeerStates, DaemonCloses
                PROVE  peer' \in PeerStates \ {"open"}
BY DEF DaemonCloses, PeerStates

LEMMA Sends ==
    ASSUME NEW S, up \in Seq(S), NEW m \in S, ut \in 0 .. Len(up),
           Len(up) - ut <= UpMax, ClientSends(m)
    PROVE  /\ up' \in Seq(S)
           /\ Len(up') = Len(up) + 1
           /\ \A i \in 1 .. Len(up) : up'[i] = up[i]
           /\ up'[Len(up) + 1] = m
           /\ Len(up') - ut' <= UpMax
           /\ ut' \in 0 .. Len(up')
BY TaskChannelAssumption DEF ClientSends, Room
-----------------------------------------------------------------------------
(* Types.                                                                   *)

Lines == {"OK", "FAIL", "[Fail]", "info", "AppMod finish"}
Ends  == {"ok", "server", "command", "timeout", "protocol", "oserror"}

LEMMA ShortSeqs ==
    ASSUME NEW S, NEW x \in S, NEW y \in S
    PROVE  << >> \in Seq(S) /\ <<x>> \in Seq(S) /\ <<x, y>> \in Seq(S)
OBVIOUS

LEMMA Joined == ASSUME NEW S, NEW s \in Seq(S), NEW t \in Seq(S) PROVE s \o t \in Seq(S)
OBVIOUS

LEMMA LineOf == \A m \in Reports : m.cmd # "CLOSE" => Line(m) \in Lines
<1>1. \A t : Text(t).cmd = "TEXT" /\ Text(t).text = t
  BY DEF Text
<1>2. \A b : Verdict(b).cmd = "FINISH" /\ Verdict(b).ok = b
  BY DEF Verdict
<1>3. \A c : Cmd(c).cmd = c
  BY DEF Cmd
<1>4. Line(Yes) \in Lines /\ Line(No) \in Lines
  BY <1>2 DEF Line, Lines, Yes, No
<1>5. Line(Text("[Fail]")) \in Lines /\ Line(Text("info")) \in Lines
  BY <1>1 DEF Line, Lines
<1>6. Line(Over) \in Lines
  BY <1>1 DEF Line, Lines, Over
<1>7. Cmd("CLOSE").cmd = "CLOSE"
  BY <1>3
<1> QED BY Zenon, <1>4, <1>5, <1>6, <1>7 DEF Reports

\* The parts of the types that the client, the daemon and the channel own.
ClientTypes == /\ pc \in Flow \cup {"collect", "done"}
               /\ pc \in Flow => op = "install"
               /\ pc = "collect" => op = "uninstall"
               /\ size \in 0 .. MaxFile /\ pos \in 0 .. MaxFile
               /\ success \in {"unknown", "yes", "no"}
               /\ lines \in Seq(Lines)
               /\ result \in {"none"} \cup Ends

DaemonTypes == /\ dpc \in {"init", "check", "data", "report", "stop"}
               /\ want \in 0 .. MaxFile /\ got \in 0 .. want
               /\ bm \in {"pending", "done", "failed"}
               /\ dpc \in {"check", "data"} => op = "install"
               /\ dpc \in {"init", "check"} => got = 0

LocalTypes == /\ pkg \in 0 .. MaxFile /\ edited \in BOOLEAN
              /\ op \in {"install", "uninstall"}

ChannelTypes == /\ IndicesOK
                /\ up \in Seq(UpFrames)
                /\ down \in Seq(Frames)
                /\ op = "uninstall" => down \in Seq(Reports)

LEMMA TypesParts == Types <=> ClientTypes /\ DaemonTypes /\ LocalTypes /\ ChannelTypes
<1>1. /\ Lines = {"OK", "FAIL", "[Fail]", "info", "AppMod finish"}
      /\ {"none"} \cup Ends
            = {"none", "ok", "server", "command", "timeout", "protocol", "oserror"}
      /\ Flow \cup {"collect", "done"}
            = {"init", "check", "begin", "data", "verdict", "collect", "done"}
  BY DEF Lines, Ends, Flow
<1>2. TypeOK =>
         /\ IndicesOK /\ pkg \in 0 .. MaxFile /\ edited \in BOOLEAN
         /\ pc \in Flow \cup {"collect", "done"}
         /\ size \in 0 .. MaxFile /\ pos \in 0 .. MaxFile
         /\ success \in {"unknown", "yes", "no"}
         /\ lines \in Seq(Lines) /\ result \in {"none"} \cup Ends
         /\ dpc \in {"init", "check", "data", "report", "stop"}
         /\ want \in 0 .. MaxFile /\ got \in 0 .. want
         /\ bm \in {"pending", "done", "failed"}
  BY <1>1, Zenon DEF TypeOK
<1>3. Types => ClientTypes /\ DaemonTypes /\ LocalTypes /\ ChannelTypes
  BY <1>2, Zenon DEF Types, ClientTypes, DaemonTypes, LocalTypes, ChannelTypes
<1>4. ClientTypes /\ DaemonTypes /\ LocalTypes /\ ChannelTypes => Types
  BY <1>1, Zenon DEF Types, TypeOK, ClientTypes, DaemonTypes, LocalTypes, ChannelTypes
<1> QED BY <1>3, <1>4

LEMMA ChannelKept == ASSUME ChannelTypes, UNCHANGED <<chVars, op>> PROVE ChannelTypes'
BY DEF ChannelTypes, IndicesOK, chVars

LEMMA TakesTypes ==
    ASSUME ChannelTypes, UNCHANGED op, NEW m, ClientTakes(m)
    PROVE  ChannelTypes' /\ m = Frame /\ dn + 1 \in 1 .. Len(down)
           /\ m \in Frames /\ (op = "uninstall" => m \in Reports)
BY DEF ChannelTypes, IndicesOK, ClientTakes, Frame

LEMMA SaysTypes ==
    ASSUME ChannelTypes, UNCHANGED <<op, up, dn>>, ut' \in ut .. Len(up), peer' \in PeerStates,
           NEW ms \in Seq(Frames), op = "uninstall" => ms \in Seq(Reports),
           DaemonSays(ms)
    PROVE  ChannelTypes'
<1>1. down' \in Seq(Frames) /\ Len(down') >= Len(down)
  BY Says DEF ChannelTypes
<1>2. op = "uninstall" => down' \in Seq(Reports)
  BY Says DEF ChannelTypes
<1> QED BY <1>1, <1>2, TaskChannelAssumption DEF ChannelTypes, IndicesOK

\* The indices, for the provers.
LEMMA Indices ==
    ASSUME Types
    PROVE  /\ up \in Seq(UpFrames) /\ down \in Seq(Frames)
           /\ Len(up) \in Nat /\ ut \in 0 .. Len(up) /\ ut \in Nat
           /\ Len(down) \in Nat /\ dn \in 0 .. Len(down) /\ dn \in Nat
           /\ Len(up) - ut <= UpMax /\ peer \in PeerStates
<1>1. up \in Seq(UpFrames) /\ ut \in 0 .. Len(up)
  BY DEF Types, TypeOK, IndicesOK
<1>2. down \in Seq(Frames) /\ dn \in 0 .. Len(down)
  BY DEF Types, TypeOK, IndicesOK
<1>3. Len(up) - ut <= UpMax /\ peer \in PeerStates
  BY DEF Types, TypeOK, IndicesOK
<1> QED BY <1>1, <1>2, <1>3

\* What the device may say before its verdict.
Echoes == {Text("info"), Over}

LEMMA Echoed ==
    /\ Echoes \subseteq Reports
    /\ DaemonEchoes => \E m \in Echoes : DaemonSays(<<m>>)
<1>1. Echoes \subseteq Reports
  BY DEF Echoes, Reports
<1>2. ASSUME NEW t \in {"info", "AppMod finish"} PROVE Text(t) \in Echoes
  BY <1>2 DEF Echoes, Over
<1> QED BY <1>1, <1>2 DEF DaemonEchoes

\* What the last words of the daemon consist of.
Last == IF bm = "done" THEN {Yes, Over, Cmd("CLOSE")}
        ELSE {No, Text("[Fail]"), Over, Cmd("CLOSE")}

LEMMA LastWord == DaemonReport => \E ms \in Seq(Last) : DaemonEnds(ms)
<1> SUFFICES ASSUME DaemonReport PROVE \E ms \in Seq(Last) : DaemonEnds(ms)
  OBVIOUS
<1> DEFINE Closing == {<< >>, <<Cmd("CLOSE")>>}
           v == Verdict(bm = "done")
           w == Text(IF bm = "done" THEN "AppMod finish" ELSE "[Fail]")
<1>1. v \in Last /\ w \in Last /\ Over \in Last /\ Cmd("CLOSE") \in Last
  <2>1. CASE bm = "done"
    BY <2>1 DEF Last, Yes, Over
  <2>2. CASE bm # "done"
    BY <2>2 DEF Last, No
  <2> QED BY <2>1, <2>2
<1>2. \E c \in Closing :
         \/ DaemonEnds(<<v>> \o c)
         \/ DaemonEnds(<<v, Over>> \o c)
         \/ DaemonEnds(<<v>> \o <<w>> \o c)
         \/ DaemonEnds(<<w>> \o c)
  BY DEF DaemonReport, Over
<1> HIDE DEF v, w
<1>3. \A c \in Closing : c \in Seq(Last)
  BY <1>1, ShortSeqs
<1>4. <<v>> \in Seq(Last) /\ <<w>> \in Seq(Last) /\ <<v, Over>> \in Seq(Last)
  BY <1>1, ShortSeqs
<1>5. <<v>> \o <<w>> \in Seq(Last)
  BY <1>4, Joined
<1> HIDE DEF Closing
<1>6. ASSUME NEW c \in Closing, NEW t \in Seq(Last), DaemonEnds(t \o c)
      PROVE  \E ms \in Seq(Last) : DaemonEnds(ms)
  <2>1. t \o c \in Seq(Last)
    BY <1>3, Joined
  <2> QED BY <1>6, <2>1
<1>7. PICK c \in Closing :
         \/ DaemonEnds(<<v>> \o c)
         \/ DaemonEnds(<<v, Over>> \o c)
         \/ DaemonEnds(<<v>> \o <<w>> \o c)
         \/ DaemonEnds(<<w>> \o c)
  BY <1>2
<1> DEFINE vs == <<v>>
           vo == <<v, Over>>
           vw == <<v>> \o <<w>>
           ws == <<w>>
<1>8. /\ vs \in Seq(Last) /\ vo \in Seq(Last) /\ vw \in Seq(Last) /\ ws \in Seq(Last)
      /\ \/ DaemonEnds(vs \o c) \/ DaemonEnds(vo \o c)
         \/ DaemonEnds(vw \o c) \/ DaemonEnds(ws \o c)
  BY <1>4, <1>5, <1>7
<1> HIDE DEF vs, vo, vw, ws
<1> QED BY <1>6, <1>8

LEMMA NextTypes == Types /\ [Next]_vars => Types'
<1> SUFFICES ASSUME ClientTypes, DaemonTypes, LocalTypes, ChannelTypes, [Next]_vars
             PROVE  ClientTypes' /\ DaemonTypes' /\ LocalTypes' /\ ChannelTypes'
  BY TypesParts, PTL
<1>a. ASSUME UNCHANGED client, UNCHANGED op PROVE ClientTypes'
  BY <1>a DEF ClientTypes, client, flow, Flow
<1>b. ASSUME UNCHANGED <<daemon, op>> PROVE DaemonTypes'
  BY <1>b DEF DaemonTypes, daemon
<1>c. ASSUME UNCHANGED local PROVE LocalTypes' /\ UNCHANGED op
  BY <1>c DEF LocalTypes, local
<1>d. ASSUME NEW r \in Ends, Return(r), UNCHANGED <<flow, op>> PROVE ClientTypes'
  BY <1>d DEF ClientTypes, Return, flow, Flow
<1>1. CASE AwaitInit
  <2>1. ClientTypes'
    BY <1>1 DEF AwaitInit, ClientTypes, LocalTypes, local, Flow
  <2> QED BY <1>1, <1>b, <1>c, <2>1, TakesTypes DEF AwaitInit
<1>2. CASE SendCheck
  <2>1. ClientTypes'
    BY <1>2 DEF SendCheck, ClientTypes, local, flow, Flow
  <2>2. Check(size) \in UpFrames
    BY DEF UpFrames, ClientTypes
  <2>3. ChannelTypes'
    BY <1>2, <2>2, <1>c, Sends DEF SendCheck, ClientSends, ChannelTypes, IndicesOK
  <2> QED BY <1>2, <1>b, <1>c, <2>1, <2>3 DEF SendCheck
<1>3. CASE AwaitBegin
  <2>1. ClientTypes'
    BY <1>3 DEF AwaitBegin, ClientTypes, local, flow, Flow
  <2> QED BY <1>3, <1>b, <1>c, <2>1, TakesTypes DEF AwaitBegin
<1>4. CASE Unexpected
  BY <1>4, <1>b, <1>c, <1>d, TakesTypes DEF Unexpected, Ends
<1>5. CASE SendData
  <2>1. ClientTypes'
    BY <1>5, AppAssumption DEF SendData, ClientTypes, LocalTypes, local, Flow
  <2>2. Cmd("DATA") \in UpFrames
    BY DEF UpFrames
  <2>3. ChannelTypes'
    BY <1>5, <2>2, <1>c, Sends DEF SendData, ClientSends, ChannelTypes, IndicesOK
  <2> QED BY <1>5, <1>b, <1>c, <2>1, <2>3 DEF SendData
<1>6. CASE DataDone
  <2>1. ClientTypes'
    BY <1>6 DEF DataDone, ClientTypes, local, flow, Flow
  <2> QED BY <1>6, <1>b, <1>c, <2>1, ChannelKept DEF DataDone
<1>7. CASE SendFails
  BY <1>7, <1>b, <1>c, <1>d, ChannelKept DEF SendFails, Ends
<1>26. CASE LocalFails
  BY <1>26, <1>b, <1>c, <1>d, ChannelKept, TakesTypes DEF LocalFails, Ends
<1>8. CASE TakeVerdict
  <2>1. ClientTypes'
    BY <1>8 DEF TakeVerdict, ClientTypes, local, Flow
  <2> QED BY <1>8, <1>b, <1>c, <2>1, TakesTypes DEF TakeVerdict
<1>9. CASE TakeText
  <2>1. UNCHANGED <<pc, result>> \/ \E r \in Ends : Return(r)
    BY <1>9 DEF TakeText, Conclude, Ends
  <2>2. ClientTypes'
    BY <1>9, <2>1, <1>a, <1>c, <1>d DEF TakeText, client
  <2> QED BY <1>9, <1>b, <1>c, <2>2, TakesTypes DEF TakeText
<1>10. CASE PassOver
  BY <1>10, <1>a, <1>b, <1>c, TakesTypes DEF PassOver
<1>11. CASE TakeEof
  BY <1>11, <1>b, <1>c, <1>d, ChannelKept DEF TakeEof, Conclude, Ends
<1>12. CASE Collect
  <2>1. UNCHANGED op /\ ClientTakes(Frame) /\ op = "uninstall"
    BY <1>12, <1>c DEF Collect, ClientTypes
  <2>2. ChannelTypes' /\ Frame \in Reports
    BY <2>1, TakesTypes
  <2>3. Line(Frame) \in Lines
    BY <1>12, <2>2, LineOf DEF Collect
  <2>4. ClientTypes'
    BY <1>12, <2>1, <2>3 DEF Collect, ClientTypes, Flow
  <2> QED BY <1>12, <1>b, <1>c, <2>2, <2>4 DEF Collect
<1>13. CASE Judge
  <2>1. ChannelTypes'
    BY <1>13, <1>c, TakesTypes, ChannelKept DEF Judge
  <2> QED BY <1>13, <2>1, <1>b, <1>c, <1>d DEF Judge, Ends
<1>14. CASE RecvRaises
  BY <1>14, <1>b, <1>c, <1>d, ChannelKept DEF RecvRaises, Ends
<1> DEFINE Quiet == UNCHANGED <<local, client>>
<1>e. ASSUME Quiet PROVE ClientTypes' /\ LocalTypes' /\ UNCHANGED op
  BY <1>e, <1>a, <1>c DEF Quiet
<1>f. ASSUME UNCHANGED <<up, dn, op>>, ut' \in ut .. Len(up), UNCHANGED down,
             peer' \in PeerStates
      PROVE  ChannelTypes'
  BY <1>f, TaskChannelAssumption DEF ChannelTypes, IndicesOK
<1>g. ut \in ut .. Len(up) /\ peer \in PeerStates
  BY DEF ChannelTypes, IndicesOK
<1>h. ASSUME NEW ms \in Seq(Frames), op = "uninstall" => ms \in Seq(Reports),
             DaemonEnds(ms), UNCHANGED <<op, up, ut, dn, want, got, bm>>
      PROVE  ChannelTypes' /\ DaemonTypes'
  <2>1. ChannelTypes'
    BY <1>h, <1>g, Closes, SaysTypes DEF DaemonEnds
  <2> QED BY <1>h, <2>1 DEF DaemonEnds, DaemonTypes
<1>15. CASE DaemonStart
  <2>1. /\ <<Cmd("INIT")>> \in Seq(Frames) /\ <<Cmd("INIT"), Text("[Fail]")>> \in Seq(Frames)
        /\ op = "install" /\ dpc = "init" /\ Quiet /\ UNCHANGED <<up, ut, dn, want, got, bm>>
    BY <1>15 DEF DaemonStart, Frames, Reports
  <2>2. CASE DaemonEnds(<<Cmd("INIT"), Text("[Fail]")>>)
    BY <2>1, <2>2, <1>e, <1>h
  <2>3. CASE DaemonSays(<<Cmd("INIT")>>) /\ dpc' = "check" /\ UNCHANGED peer
    <3>1. ChannelTypes'
      BY <2>1, <2>3, <1>e, <1>g, SaysTypes
    <3> QED BY <2>1, <2>3, <3>1, <1>e DEF DaemonTypes
  <2> QED BY <1>15, <2>2, <2>3 DEF DaemonStart
<1>16. CASE DaemonCheck
  <2>1. up[ut + 1] \in UpFrames /\ up[ut + 1].cmd = "CHECK" /\ ut' \in ut .. Len(up)
    BY <1>16 DEF DaemonCheck, DaemonHears, ChannelTypes, IndicesOK
  <2>2. up[ut + 1].size \in 0 .. MaxFile
    <3>1. \A n : Check(n).cmd = "CHECK" /\ Check(n).size = n
      BY DEF Check
    <3>2. Cmd("DATA").cmd = "DATA"
      BY DEF Cmd
    <3> QED BY <2>1, <3>1, <3>2 DEF UpFrames
  <2>3. <<Cmd("BEGIN")>> \in Seq(Frames) /\ op = "install"
    BY <1>16 DEF Frames, DaemonCheck, DaemonTypes
  <2>4. ChannelTypes'
    BY <1>16, <2>1, <2>3, <1>e, <1>g, SaysTypes DEF DaemonCheck
  <2> QED BY <1>16, <2>2, <2>4, <1>e DEF DaemonCheck, DaemonTypes
<1>17. CASE DaemonData
  BY <1>17, <1>e, <1>f, <1>g DEF DaemonData, DaemonHears, ChannelTypes, IndicesOK, DaemonTypes
<1>18. CASE DaemonRuns
  BY <1>18, <1>e, ChannelKept DEF DaemonRuns, DaemonTypes
<1>19. CASE DaemonEchoes
  <2>1. PICK m \in Reports : DaemonSays(<<m>>)
    BY <1>19, Echoed
  <2>2. <<m>> \in Seq(Frames) /\ <<m>> \in Seq(Reports)
    BY ShortSeqs DEF Frames
  <2> QED BY <1>19, <2>1, <2>2, <1>b, <1>e, <1>g, SaysTypes DEF DaemonEchoes
<1>20. CASE DaemonReport
  <2>1. \E ms \in Seq(Reports) : DaemonEnds(ms)
    <3>1. Last \subseteq Reports
      BY DEF Last, Reports
    <3> QED BY <1>20, <3>1, LastWord
  <2>2. Seq(Reports) \subseteq Seq(Frames)
    BY DEF Frames
  <2> QED BY <1>20, <2>1, <2>2, <1>e, <1>h DEF DaemonReport
<1>21. CASE DaemonRefuses
  <2>1. <<Text("[Fail]")>> \in Seq(Frames) /\ <<Text("[Fail]")>> \in Seq(Reports)
    BY DEF Frames, Reports
  <2> QED BY <1>21, <2>1, <1>e, <1>h DEF DaemonRefuses
<1>22. CASE DaemonDropped
  BY <1>22, <1>e, <1>f, <1>g, Closes DEF DaemonDropped, DaemonTypes, ChannelTypes, IndicesOK
<1>23. CASE Disconnect
  <2>1. op = "uninstall" => down' \in Seq(Reports)
    BY <1>23, Loses DEF Disconnect, ChannelTypes, IndicesOK
  <2>2. ChannelTypes'
    BY <1>23, <2>1, <1>e, Loses DEF Disconnect, LinkLost, ChannelTypes, IndicesOK
  <2> QED BY <1>23, <2>2, <1>b, <1>e DEF Disconnect
<1>24. CASE Edit
  BY <1>24, <1>a, <1>b, ChannelKept DEF Edit, LocalTypes
<1>25. CASE UNCHANGED vars
  BY <1>25, <1>b, <1>e, ChannelKept DEF vars
<1> QED
  BY <1>1, <1>2, <1>3, <1>4, <1>5, <1>6, <1>7, <1>8, <1>9, <1>10, <1>11, <1>12,
     <1>13, <1>14, <1>15, <1>16, <1>17, <1>18, <1>19, <1>20, <1>21, <1>22, <1>23,
     <1>24, <1>25, <1>26 DEF Next, Client, Proceeds, Install, Daemon, Finished
-----------------------------------------------------------------------------
(* What the client has written.                                             *)

\* The daemon's frames and a broken connection leave it alone.
LEMMA SentKept ==
    ASSUME Sent, UNCHANGED <<up, op, pc, size, pkg, edited>> PROVE Sent'
BY DEF Sent

LEMMA SentReturned ==
    ASSUME Types, Sent, UNCHANGED <<up, op, size, pkg, edited>>, pc' = "done"
    PROVE  Sent'
BY DEF Sent, Types, TypeOK, Flow

LEMMA NextSent == Types /\ Sent /\ [Next]_vars => Sent'
<1> SUFFICES ASSUME Types, Sent, [Next]_vars PROVE Sent'
  OBVIOUS
<1>1. CASE AwaitInit
  BY <1>1 DEF AwaitInit, ClientTakes, Sent, local
<1>2. CASE SendCheck
  <2>1. /\ Len(up) = 0 /\ op = "install" /\ (~ edited => size = pkg)
        /\ Check(size) \in UpFrames
    BY <1>2 DEF SendCheck, Sent, Types, TypeOK, Flow, UpFrames
  <2>a. ClientSends(Check(size))
    BY <1>2 DEF SendCheck
  <2>2. Len(up') = 1 /\ up'[1] = Check(size)
    BY <2>1, <2>a, Indices, Sends
  <2> QED BY <1>2, <2>1, <2>2 DEF SendCheck, Sent, local, flow
<1>3. CASE AwaitBegin
  BY <1>3 DEF AwaitBegin, ClientTakes, Sent, local, flow
<1>4. CASE Unexpected \/ SendFails \/ LocalFails \/ TakeEof \/ Judge \/ RecvRaises
  BY <1>4, SentReturned DEF Unexpected, SendFails, LocalFails, TakeEof, Conclude, Judge,
       RecvRaises, ClientTakes, Return, local, flow, chVars
<1>5. CASE SendData
  <2>1. Len(up) > 0 /\ Cmd("DATA") \in UpFrames /\ Len(up) \in Nat /\ op = "install"
    BY <1>5 DEF SendData, Sent, UpFrames, Types, Flow
  <2>b. ClientSends(Cmd("DATA"))
    BY <1>5 DEF SendData
  <2>2. /\ Len(up') = Len(up) + 1 /\ up'[Len(up) + 1] = Cmd("DATA")
        /\ \A i \in 1 .. Len(up) : up'[i] = up[i]
    BY <2>1, <2>b, Indices, Sends
  <2>3. \A i \in 1 .. Len(up') : up'[i] = IF i = 1 THEN Check(size) ELSE Cmd("DATA")
    BY <2>1, <2>2 DEF Sent
  <2> QED BY <1>5, <2>1, <2>2, <2>3 DEF SendData, Sent, local
<1>6. CASE DataDone
  BY <1>6 DEF DataDone, Sent, chVars, local, flow
<1>7. CASE TakeText
  <2>1. CASE UNCHANGED pc
    BY <1>7, <2>1, SentKept DEF TakeText, ClientTakes, local, flow
  <2>2. CASE pc' = "done"
    BY <1>7, <2>2, SentReturned DEF TakeText, ClientTakes, local, flow
  <2> QED BY <1>7, <2>1, <2>2 DEF TakeText, Conclude, Return
<1>8. CASE TakeVerdict \/ PassOver \/ Collect
  BY <1>8, SentKept DEF TakeVerdict, PassOver, Collect, ClientTakes, local, client, flow
<1>9. CASE Daemon \/ Disconnect
  BY <1>9, SentKept DEF Daemon, DaemonStart, DaemonCheck, DaemonData, DaemonRuns,
       DaemonEchoes, DaemonReport, DaemonRefuses, DaemonDropped, Disconnect,
       LinkLost, chVars, local, client, flow
<1>10. CASE Edit
  BY <1>10 DEF Edit, Sent, chVars, client, flow
<1>11. CASE UNCHANGED vars
  BY <1>11, SentKept DEF vars, chVars, local, client, flow
<1> QED
  BY <1>1, <1>2, <1>3, <1>4, <1>5, <1>6, <1>7, <1>8, <1>9, <1>10, <1>11
     DEF Next, Client, Proceeds, Install, Finished
-----------------------------------------------------------------------------
(* What the daemon has taken of it.                                         *)

LEMMA HeldKept ==
    ASSUME Held, UNCHANGED <<ut, op, size, want, got, bm>>,
           \/ UNCHANGED dpc
           \/ dpc' = "stop"
           \/ dpc = "init" /\ dpc' = "check"
    PROVE  Held'
BY DEF Held

LEMMA NextHeld == Types /\ Sent /\ Held /\ [Next]_vars => Held'
<1> SUFFICES ASSUME Types, Sent, Held, [Next]_vars PROVE Held'
  OBVIOUS
<1>1. CASE AwaitInit
  <2>1. Len(up) = 0 /\ ut = 0
    BY <1>1, Indices DEF AwaitInit, Sent
  <2> QED BY <1>1, <2>1 DEF AwaitInit, ClientTakes, Held, local, daemon
<1>2. CASE SendCheck \/ AwaitBegin \/ Unexpected \/ SendData \/ DataDone \/ SendFails \/ LocalFails
             \/ TakeVerdict \/ TakeText \/ PassOver \/ TakeEof \/ Collect \/ Judge
             \/ RecvRaises
  BY <1>2, HeldKept DEF SendCheck, AwaitBegin, Unexpected, SendData, DataDone,
       SendFails, LocalFails, TakeVerdict, TakeText, PassOver, TakeEof, Collect, Judge,
       RecvRaises, ClientTakes, ClientSends, chVars, local, client, flow, daemon
<1>3. CASE DaemonStart \/ DaemonEchoes \/ DaemonReport \/ DaemonRefuses \/ DaemonDropped
             \/ Disconnect
  BY <1>3, HeldKept DEF DaemonStart, DaemonEchoes, DaemonReport, DaemonRefuses,
       DaemonDropped, DaemonEnds, Disconnect, LinkLost, local, client, flow, daemon
<1>4. CASE DaemonCheck
  <2>1. /\ ut = 0 /\ Len(up) > 0 /\ bm = "pending" /\ op = "install"
        /\ ut' = 1 /\ want' = up[1].size
    BY <1>4 DEF DaemonCheck, DaemonHears, Held, Types
  <2>2. want' = size
    BY <2>1 DEF Sent, Types, Check
  <2> QED BY <1>4, <2>1, <2>2 DEF DaemonCheck, Held, local, client, flow
<1>5. CASE DaemonData
  <2>1. /\ dpc = "data" /\ bm = "pending" /\ UNCHANGED <<dpc, bm, op, size, want>>
        /\ ut' = ut + 1
    BY <1>5 DEF DaemonData, DaemonHears, Held, local, client, flow
  <2>2. ut \in Nat
    BY Indices
  <2> QED BY <2>1, <2>2 DEF Held
<1>6. CASE DaemonRuns
  BY <1>6 DEF DaemonRuns, Held, chVars, local, client, flow
<1>7. CASE Edit \/ UNCHANGED vars
  BY <1>7, HeldKept DEF Edit, vars, chVars, local, client, flow, daemon
<1> QED
  BY <1>1, <1>2, <1>3, <1>4, <1>5, <1>6, <1>7
     DEF Next, Client, Proceeds, Install, Daemon, Finished
-----------------------------------------------------------------------------
(* What the daemon has said.                                                *)

LEMMA Different ==
    /\ Yes # No
    /\ \A t : Text(t) # Yes /\ Text(t) # No
    /\ Over # Yes /\ Over # No /\ Over # Text("[Fail]")
    /\ \A c \in {"INIT", "BEGIN", "CLOSE"} :
          Cmd(c) # Yes /\ Cmd(c) # No /\ \A t : Cmd(c) # Text(t)
    /\ \A t, u : Text(t) = Text(u) => t = u
<1>1. Yes.cmd = "FINISH" /\ No.cmd = "FINISH" /\ Yes # No
  <2>1. Yes.ok = TRUE /\ No.ok = FALSE
    BY DEF Yes, No, Verdict
  <2> QED BY <2>1 DEF Yes, No, Verdict
<1>2. \A t : Text(t).cmd = "TEXT" /\ Text(t).text = t
  BY DEF Text
<1>3. \A c : Cmd(c).cmd = c
  BY DEF Cmd
<1>4. Over.cmd = "TEXT" /\ Over # Text("[Fail]")
  <2> DEFINE finish == "AppMod finish"
  <2>1. finish # "[Fail]" /\ Over = Text(finish)
    BY DEF Over
  <2> HIDE DEF finish
  <2> QED BY <2>1, <1>2
<1> QED BY <1>1, <1>2, <1>3, <1>4

LEMMA FitFrames ==
    ASSUME NEW o, NEW d, NEW b, NEW i \in Nat
    PROVE  /\ Fits(1, Cmd("INIT"), o, d, b)
           /\ Fits(2, Cmd("BEGIN"), o, d, b)
           /\ d = "stop" /\ b # "done" /\ (i > 1 \/ o # "install") =>
                 Fits(i, Text("[Fail]"), o, d, b)
           /\ o # "install" \/ i > 2 =>
                 /\ Fits(i, Cmd("CLOSE"), o, d, b)
                 /\ Fits(i, Text("info"), o, d, b)
                 /\ Fits(i, Over, o, d, b)
                 /\ b = "done" => Fits(i, Yes, o, d, b)
                 /\ d = "stop" /\ b # "done" => Fits(i, No, o, d, b)
<1>1. /\ Cmd("INIT") \notin {Text("[Fail]"), No, Yes}
      /\ Cmd("BEGIN") \notin {Text("[Fail]"), No, Yes}
      /\ Cmd("CLOSE") \notin {Text("[Fail]"), No, Yes}
      /\ Text("info") \notin {Text("[Fail]"), No, Yes}
      /\ Over \notin {Text("[Fail]"), No, Yes}
      /\ Text("[Fail]") # Yes /\ Yes \notin {Text("[Fail]"), No}
  BY Different
<1>2. Fits(1, Cmd("INIT"), o, d, b)
  BY <1>1 DEF Fits
<1>3. Fits(2, Cmd("BEGIN"), o, d, b)
  BY <1>1 DEF Fits
<1>4. ASSUME d = "stop", b # "done", i > 1 \/ o # "install"
      PROVE  Fits(i, Text("[Fail]"), o, d, b)
  BY <1>1, <1>4 DEF Fits
<1>5. ASSUME o # "install" \/ i > 2
      PROVE  /\ Fits(i, Cmd("CLOSE"), o, d, b)
             /\ Fits(i, Text("info"), o, d, b)
             /\ Fits(i, Over, o, d, b)
  BY <1>1, <1>5 DEF Fits
<1>6. ASSUME o # "install" \/ i > 2
      PROVE  /\ b = "done" => Fits(i, Yes, o, d, b)
             /\ d = "stop" /\ b # "done" => Fits(i, No, o, d, b)
  BY <1>1, <1>6 DEF Fits
<1> QED BY <1>2, <1>3, <1>4, <1>5, <1>6

\* What fitted goes on fitting: a refusal and an installation are final.
LEMMA FitsOn ==
    ASSUME NEW i, NEW m, NEW o, NEW d, NEW b, NEW e, NEW c,
           Fits(i, m, o, d, b),
           d = "stop" /\ b # "done" => e = "stop" /\ c # "done",
           b = "done" => c = "done"
    PROVE  Fits(i, m, o, e, c)
BY DEF Fits

LEMMA Final ==
    ASSUME Types, Held, [Next]_vars
    PROVE  /\ Refused => Refused'
           /\ bm = "done" => bm' = "done"
           /\ op' = op
<1>1. UNCHANGED <<dpc, bm, op>> \/ (op' = op /\ dpc # "stop" /\ (bm' # bm => bm = "pending"))
  BY DEF Next, Client, Proceeds, Install, Daemon, Finished, AwaitInit, SendCheck, AwaitBegin,
     Unexpected, SendData, DataDone, SendFails, LocalFails, TakeVerdict, TakeText, PassOver,
     TakeEof, Collect, Judge, RecvRaises, DaemonStart, DaemonCheck, DaemonData,
     DaemonRuns, DaemonEchoes, DaemonReport, DaemonRefuses, DaemonDropped,
     Disconnect, Edit, vars, local, client, daemon, Held
<1> QED BY <1>1 DEF Refused

\* A step that says ms, each of which fits where it comes to stand.
LEMMA SaysFits ==
    ASSUME Types, Held, Said, [Next]_vars, NEW ms \in Seq(Frames), DaemonSays(ms),
           peer = "open" =>
              \A i \in 1 .. Len(ms) :
                 Fits(Len(down) + i, ms[i], op, dpc', bm')
    PROVE  /\ \A i \in 1 .. Len(down') : Fits(i, down'[i], op', dpc', bm')
           /\ Len(down') = IF peer = "open" THEN Len(down) + Len(ms) ELSE Len(down)
<1>1. Len(down) \in Nat /\ Len(ms) \in Nat /\ down \in Seq(Frames)
  BY Indices
<1>2. /\ \A i \in 1 .. Len(down) : down'[i] = down[i]
      /\ peer # "open" => Len(down') = Len(down)
      /\ peer = "open" => /\ Len(down') = Len(down) + Len(ms)
                          /\ \A i \in 1 .. Len(ms) : down'[Len(down) + i] = ms[i]
  BY <1>1, Says
<1>3. \A i \in 1 .. Len(down) : Fits(i, down'[i], op', dpc', bm')
  BY <1>2, FitsOn, Final DEF Said, Refused
<1>4. ASSUME peer = "open", NEW i \in 1 .. Len(down'), i > Len(down)
      PROVE  Fits(i, down'[i], op', dpc', bm')
  <2>1. i - Len(down) \in 1 .. Len(ms) /\ Len(down) + (i - Len(down)) = i
    BY <1>1, <1>2, <1>4
  <2>2. Fits(i, ms[i - Len(down)], op, dpc', bm')
    BY <1>4, <2>1
  <2> QED BY <1>2, <1>4, <2>1, <2>2, Final
<1> QED BY <1>1, <1>2, <1>3, <1>4

LEMMA SaysOne ==
    ASSUME Types, Held, Said, [Next]_vars, NEW m \in Frames, DaemonSays(<<m>>),
           peer = "open" => Fits(Len(down) + 1, m, op, dpc', bm')
    PROVE  /\ \A i \in 1 .. Len(down') : Fits(i, down'[i], op', dpc', bm')
           /\ Len(down') = IF peer = "open" THEN Len(down) + 1 ELSE Len(down)
<1> DEFINE ms == <<m>>
<1>1. ms \in Seq(Frames) /\ Len(ms) = 1 /\ ms[1] = m /\ DaemonSays(ms)
  OBVIOUS
<1> HIDE DEF ms
<1>2. peer = "open" => \A i \in 1 .. Len(ms) : Fits(Len(down) + i, ms[i], op, dpc', bm')
  BY <1>1
<1> QED BY <1>1, <1>2, SaysFits

LEMMA NextSaid == Types /\ Held /\ Said /\ [Next]_vars => Said'
<1> SUFFICES ASSUME Types, Held, Said, [Next]_vars PROVE Said'
  OBVIOUS
<1>a. /\ Len(down) \in Nat /\ down \in Seq(Frames) /\ peer \in PeerStates
  BY Indices
<1>b. ASSUME down' = down, dpc' \in {dpc, "stop"}, peer' = "open" => peer = "open"
      PROVE  Said'
  <2>1. \A i \in 1 .. Len(down') : Fits(i, down'[i], op', dpc', bm')
    BY <1>b, FitsOn, Final DEF Said, Refused
  <2> QED BY <1>b, <2>1, Final DEF Said
<1>1. CASE AwaitInit \/ SendCheck \/ AwaitBegin \/ Unexpected \/ SendData \/ DataDone
             \/ SendFails \/ LocalFails \/ TakeVerdict \/ TakeText \/ PassOver \/ TakeEof \/ Collect
             \/ Judge \/ RecvRaises \/ Edit \/ UNCHANGED vars
  BY <1>1, <1>b DEF AwaitInit, SendCheck, AwaitBegin, Unexpected, SendData, DataDone,
       SendFails, LocalFails, TakeVerdict, TakeText, PassOver, TakeEof, Collect, Judge,
       RecvRaises, Edit, vars, ClientTakes, ClientSends, chVars, local, daemon
<1>2. CASE DaemonStart
  <2>1. op = "install" /\ Len(down) = 0 /\ bm' # "done"
        /\ Cmd("INIT") \in Frames /\ Text("[Fail]") \in Frames
        /\ Fits(1, Cmd("INIT"), op, dpc', bm')
    BY <1>2, FitFrames DEF DaemonStart, Said, Held, Frames, Reports
  <2> DEFINE ms == <<Cmd("INIT"), Text("[Fail]")>>
  <2>2. CASE DaemonEnds(ms)
    <3>1. dpc' = "stop" /\ DaemonSays(ms)
      BY <2>2 DEF DaemonEnds
    <3>2. Fits(2, Text("[Fail]"), op, dpc', bm')
      BY <2>1, <3>1, FitFrames
    <3>3. ms \in Seq(Frames) /\ Len(ms) = 2 /\ ms[1] = Cmd("INIT") /\ ms[2] = Text("[Fail]")
      BY <2>1
    <3> HIDE DEF ms
    <3>4. \A i \in 1 .. Len(ms) : Fits(Len(down) + i, ms[i], op, dpc', bm')
      BY <2>1, <3>2, <3>3
    <3>5. \A i \in 1 .. Len(down') : Fits(i, down'[i], op', dpc', bm')
      BY <3>1, <3>3, <3>4, SaysFits
    <3> QED BY <3>1, <3>5 DEF Said
  <2>3. CASE DaemonSays(<<Cmd("INIT")>>) /\ dpc' = "check" /\ UNCHANGED peer
    <3>1. /\ \A i \in 1 .. Len(down') : Fits(i, down'[i], op', dpc', bm')
          /\ peer = "open" => Len(down') = 1
      BY <2>1, <2>3, SaysOne
    <3> QED BY <2>3, <3>1 DEF Said
  <2> QED BY <1>2, <2>2, <2>3 DEF DaemonStart
<1>3. CASE DaemonCheck
  <2>1. Cmd("BEGIN") \in Frames /\ op = "install" /\ dpc' = "data" /\ peer' = peer
        /\ (peer = "open" => Len(down) = 1) /\ DaemonSays(<<Cmd("BEGIN")>>)
        /\ Fits(2, Cmd("BEGIN"), op, dpc', bm')
    BY <1>3, FitFrames DEF DaemonCheck, Said, Types, Frames
  <2>a. peer = "open" => Len(down) + 1 = 2
    BY <2>1
  <2>b. peer = "open" => Fits(Len(down) + 1, Cmd("BEGIN"), op, dpc', bm')
    BY <2>1, <2>a
  <2>2. /\ \A i \in 1 .. Len(down') : Fits(i, down'[i], op', dpc', bm')
        /\ peer = "open" => Len(down') = 2
    BY <2>1, <2>a, <2>b, SaysOne
  <2> QED BY <2>1, <2>2 DEF Said
<1>4. CASE DaemonData
  BY <1>4, <1>b DEF DaemonData
<1>5. CASE DaemonRuns
  <2>1. down' = down /\ peer' = peer /\ dpc' = "report" /\ op' = op
        /\ (op = "install" => dpc = "data")
    BY <1>5, Final DEF DaemonRuns, chVars, Types
  <2>2. \A i \in 1 .. Len(down') : Fits(i, down'[i], op', dpc', bm')
    BY <2>1, FitsOn, Final DEF Said, Refused
  <2> QED BY <2>1, <2>2 DEF Said
<1>6. CASE DaemonEchoes
  <2>0. PICK m \in Echoes : DaemonSays(<<m>>)
    BY <1>6, Echoed
  <2>1. /\ m \in Frames /\ peer' = peer /\ dpc = "report" /\ dpc' = "report" /\ op' = op
        /\ op = "install" /\ peer = "open" => Len(down) > 1
    BY <1>6, Echoed, Final DEF DaemonEchoes, Said, daemon, Frames
  <2>2. Len(down) + 1 \in Nat /\ (peer = "open" => op # "install" \/ Len(down) + 1 > 2)
    BY <1>a, <2>1
  <2>3. peer = "open" => Fits(Len(down) + 1, m, op, dpc', bm')
    BY <2>2, FitFrames DEF Echoes
  <2>4. /\ \A i \in 1 .. Len(down') : Fits(i, down'[i], op', dpc', bm')
        /\ peer = "open" => Len(down') = Len(down) + 1
    BY <2>0, <2>1, <2>3, SaysOne
  <2> QED BY <1>a, <2>1, <2>4 DEF Said
<1>7. CASE DaemonRefuses
  <2>1. /\ Text("[Fail]") \in Frames /\ DaemonSays(<<Text("[Fail]")>>)
        /\ dpc' = "stop" /\ bm' # "done"
        /\ op = "install" /\ peer = "open" => Len(down) > 0
    BY <1>7 DEF DaemonRefuses, DaemonEnds, Said, Held, Frames, Reports
  <2>2. Len(down) + 1 \in Nat /\ (peer = "open" => op # "install" \/ Len(down) + 1 > 1)
    BY <1>a, <2>1
  <2>3. peer = "open" => Fits(Len(down) + 1, Text("[Fail]"), op, dpc', bm')
    BY <2>1, <2>2, FitFrames
  <2>4. \A i \in 1 .. Len(down') : Fits(i, down'[i], op', dpc', bm')
    BY <2>1, <2>3, SaysOne
  <2> QED BY <2>1, <2>4 DEF Said
<1>8. CASE DaemonDropped
  BY <1>8, <1>a, <1>b, Closes DEF DaemonDropped
<1>9. CASE Disconnect
  <2>1. /\ Len(down') \in dn .. Len(down)
        /\ \A i \in 1 .. Len(down') : down'[i] = down[i]
        /\ peer' # "open" /\ dpc' = dpc
    BY <1>9, <1>a, Indices, Loses DEF Disconnect, daemon
  <2>2. \A i \in 1 .. Len(down') : Fits(i, down'[i], op', dpc', bm')
    <3>1. dn \in Nat
      BY Indices
    <3>2. \A i \in 1 .. Len(down') : i \in 1 .. Len(down)
      BY <1>a, <2>1, <3>1
    <3> QED BY <2>1, <3>2, FitsOn, Final DEF Said, Refused
  <2>3. dpc' = "init" => Len(down') = 0
    BY <2>1, Indices DEF Said
  <2> QED BY <2>1, <2>2, <2>3 DEF Said
<1>10. CASE DaemonReport
  <2>3. /\ op = "install" /\ peer = "open" => Len(down) > 1
        /\ bm' = bm
        /\ dpc = "report"
    BY <1>10 DEF DaemonReport, Said
  <2>4. \A i \in Nat, m \in Last : (op # "install" \/ i > 2) /\ dpc' = "stop" =>
           Fits(i, m, op, dpc', bm')
    BY <2>3, FitFrames DEF Last
  <2>5. PICK ms \in Seq(Last) : DaemonEnds(ms)
    BY <1>10, LastWord
  <2>6. ms \in Seq(Frames) /\ Len(ms) \in Nat /\ \A i \in 1 .. Len(ms) : ms[i] \in Last
    <3>1. Last \subseteq Frames
      BY DEF Last, Frames, Reports
    <3> QED BY <3>1
  <2>7. dpc' = "stop" /\ DaemonSays(ms)
    BY <2>5 DEF DaemonEnds
  <2>8. peer = "open" =>
           \A i \in 1 .. Len(ms) : Fits(Len(down) + i, ms[i], op, dpc', bm')
    BY <1>a, <2>3, <2>4, <2>6, <2>7
  <2>9. \A i \in 1 .. Len(down') : Fits(i, down'[i], op', dpc', bm')
    BY <2>6, <2>7, <2>8, SaysFits
  <2> QED BY <2>7, <2>9 DEF Said
<1> QED
  BY <1>1, <1>2, <1>3, <1>4, <1>5, <1>6, <1>7, <1>8, <1>9, <1>10
     DEF Next, Client, Proceeds, Install, Daemon, Finished
-----------------------------------------------------------------------------
(* What the client has heard and concluded.                                 *)

LEMMA Taken ==
    ASSUME Types, Said, ClientTakes(Frame)
    PROVE  /\ Frame \in Frames /\ Frame = down[dn + 1] /\ dn + 1 \in 1 .. Len(down)
           /\ dn' = dn + 1 /\ UNCHANGED <<up, ut, down, peer>>
           /\ Fits(dn + 1, Frame, op, dpc, bm)
<1>1. dn + 1 \in 1 .. Len(down) /\ down \in Seq(Frames)
  BY Indices DEF ClientTakes
<1> QED BY <1>1 DEF ClientTakes, Frame, Said

\* What each frame the client looks for says of the daemon.
LEMMA Tells ==
    ASSUME Types, Said, ClientTakes(Frame)
    PROVE  /\ Frame.cmd = "TEXT" /\ Frame.text = "[Fail]" => Refused
           /\ Frame = Text("[Fail]") => Refused
           /\ Frame.cmd = "FINISH" => IF Frame.ok THEN bm = "done" ELSE Refused
           /\ op = "install" /\ dn = 0 => Frame.cmd = "INIT"
           /\ op = "install" /\ dn = 1 /\ Frame.cmd # "BEGIN" => Refused
<1>1. Frame \in Frames /\ Fits(dn + 1, Frame, op, dpc, bm)
  BY Taken
<1>2. Frame = Text("[Fail]") => Refused
  BY <1>1 DEF Fits, Refused
<1>3. Frame.cmd = "TEXT" /\ Frame.text = "[Fail]" => Refused
  BY <1>1, <1>2, FrameFacts
<1>4. ASSUME Frame.cmd = "FINISH"
      PROVE  IF Frame.ok THEN bm = "done" ELSE Refused
  <2>1. Frame = Verdict(Frame.ok) /\ Frame.ok \in BOOLEAN
    BY <1>1, <1>4, FrameFacts
  <2>2. CASE Frame.ok = TRUE
    <3>1. Frame = Yes
      BY <2>1, <2>2 DEF Yes
    <3> QED BY <1>1, <2>2, <3>1 DEF Fits
  <2>3. CASE Frame.ok = FALSE
    <3>1. Frame = No
      BY <2>1, <2>3 DEF No
    <3> QED BY <1>1, <2>3, <3>1 DEF Fits, Refused
  <2> QED BY <2>1, <2>2, <2>3
<1>5. op = "install" /\ dn = 0 => Frame.cmd = "INIT"
  BY <1>1 DEF Fits, Cmd
<1>6. op = "install" /\ dn = 1 /\ Frame.cmd # "BEGIN" => Refused
  <2>1. op = "install" /\ dn = 1 => Frame \in {Cmd("BEGIN"), Text("[Fail]")}
    BY <1>1 DEF Fits
  <2>2. Cmd("BEGIN").cmd = "BEGIN"
    BY DEF Cmd
  <2> QED BY <1>2, <2>1, <2>2
<1> QED BY <1>2, <1>3, <1>4, <1>5, <1>6

LEMMA LinesType == ASSUME Types PROVE lines \in Seq(Lines) /\ Len(lines) \in Nat
<1>1. lines \in Seq(Lines)
  BY DEF Types, TypeOK, Lines
<1> QED BY <1>1

\* Each line is the trace of one frame.
LEMMA LineFacts ==
    ASSUME NEW m \in Frames, m.cmd # "CLOSE", m.cmd \in {"FINISH", "TEXT"}
    PROVE  /\ Line(m) = "[Fail]" <=> m = Text("[Fail]")
           /\ Line(m) = "FAIL" <=> m = No
<1>1. CASE m.cmd = "FINISH"
  <2>1. m \in {Yes, No}
    BY <1>1, FrameFacts
  <2>2. Yes.cmd = "FINISH" /\ Yes.ok = TRUE /\ No.cmd = "FINISH" /\ No.ok = FALSE
    BY DEF Yes, No, Verdict
  <2>3. Line(Yes) = "OK" /\ Line(No) = "FAIL"
    BY <2>2 DEF Line
  <2> QED BY <2>1, <2>3, Different
<1>2. CASE m.cmd = "TEXT"
  <2>1. m \in {Text("[Fail]"), Text("info"), Over}
    BY <1>2, FrameFacts
  <2>2. \A t : Text(t).cmd = "TEXT" /\ Text(t).text = t
    BY DEF Text
  <2>3. \A t : Line(Text(t)) = t
    BY <2>2 DEF Line
  <2>4. Line(Over) # "[Fail]" /\ Line(Over) # "FAIL"
    <3> DEFINE finish == "AppMod finish"
    <3>1. finish # "[Fail]" /\ finish # "FAIL" /\ Over = Text(finish)
      BY DEF Over
    <3> HIDE DEF finish
    <3> QED BY <2>3, <3>1
  <2> QED BY <2>1, <2>3, <2>4, Different
<1> QED BY <1>1, <1>2

LEMMA ReportedIsRefused ==
    ASSUME Types, Said, Collected, op = "uninstall", ReportsFailure
    PROVE  Refused
<1>1. PICK i \in 1 .. Len(lines) : lines[i] = "[Fail]" \/ (i = 1 /\ lines[i] = "FAIL")
  BY LinesType DEF ReportsFailure
<1>2. i \in 1 .. dn /\ i \in 1 .. Len(down) /\ lines[i] = Line(down[i]) /\ down[i].cmd # "CLOSE"
  BY Indices, LinesType DEF Collected
<1>3. down[i] \in Reports /\ down[i] \in Frames
  BY <1>2 DEF Types, Frames
<1>4. down[i].cmd \in {"FINISH", "TEXT"}
  <2>1. Cmd("INIT").cmd = "INIT" /\ Cmd("BEGIN").cmd = "BEGIN"
    BY DEF Cmd
  <2>2. \A m \in Reports : m # Cmd("INIT") /\ m # Cmd("BEGIN")
    <3>1. \A t : Text(t).cmd = "TEXT"
      BY DEF Text
    <3>2. Yes.cmd = "FINISH" /\ No.cmd = "FINISH" /\ Cmd("CLOSE").cmd = "CLOSE" /\ Over.cmd = "TEXT"
      BY <3>1 DEF Yes, No, Verdict, Cmd, Over
    <3> QED BY <2>1, <3>1, <3>2 DEF Reports
  <2> QED BY <1>2, <1>3, <2>2, FrameFacts
<1>5. down[i] \in {Text("[Fail]"), No}
  BY <1>1, <1>2, <1>3, <1>4, LineFacts
<1> QED BY <1>2, <1>5 DEF Said, Fits, Refused

LEMMA HeardKept ==
    ASSUME Heard, UNCHANGED <<pc, dn, success, result>>, Refused => Refused',
           bm = "done" => bm' = "done"
    PROVE  Heard'
BY DEF Heard

LEMMA NextHeard ==
    Types /\ Held /\ Said /\ Collected /\ Heard /\ [Next]_vars => Heard'
<1> SUFFICES ASSUME Types, Held, Said, Collected, Heard, [Next]_vars PROVE Heard'
  OBVIOUS
<1>a. /\ Refused => Refused'
      /\ bm = "done" => bm' = "done"
  BY Final
<1>b. ASSUME NEW r, Return(r), r = "command" => Refused, UNCHANGED success PROVE Heard'
  BY <1>a, <1>b DEF Return, Heard
<1>c. ASSUME Conclude, UNCHANGED success PROVE Heard'
  BY <1>b, <1>c DEF Conclude, Heard
<1>d. pc \in {"init", "check", "begin", "data", "verdict"} => op = "install"
  BY DEF Types, Flow
<1>1. CASE AwaitInit
  BY <1>1, <1>a, Taken DEF AwaitInit, Heard
<1>2. CASE SendCheck
  BY <1>2, <1>a DEF SendCheck, ClientSends, flow, Heard
<1>3. CASE AwaitBegin
  BY <1>3, <1>a, Taken DEF AwaitBegin, flow, Heard
<1>4. CASE Unexpected
  <2>1. Refused
    BY <1>4, <1>d, Tells DEF Unexpected, Arrived, Frame, Heard
  <2> QED BY <1>4, <2>1, <1>b DEF Unexpected, flow
<1>5. CASE SendData
  BY <1>5, <1>a, HeardKept DEF SendData, ClientSends
<1>6. CASE DataDone
  BY <1>6, <1>a DEF DataDone, chVars, flow, Heard
<1>7. CASE SendFails \/ LocalFails
  BY <1>7, <1>b DEF SendFails, LocalFails, flow
<1>8. CASE TakeVerdict
  <2>1. IF Frame.ok THEN bm = "done" ELSE Refused
    BY <1>8, Tells DEF TakeVerdict, Arrived, Frame
  <2>2. dn' = dn + 1 /\ dn \in Nat
    BY <1>8, Taken, Indices DEF TakeVerdict
  <2> QED BY <1>8, <1>a, <2>1, <2>2 DEF TakeVerdict, Heard
<1>9. CASE TakeText
  <2>1. Frame.text = "[Fail]" => Refused
    BY <1>9, Tells DEF TakeText, Arrived, Frame
  <2>2. dn' = dn + 1 /\ dn \in Nat /\ UNCHANGED success /\ pc = "verdict"
    BY <1>9, Taken, Indices DEF TakeText, flow
  <2>3. CASE Frame.text = "[Fail]" /\ Return("command")
    BY <2>1, <2>2, <2>3, <1>b
  <2>4. CASE Conclude
    BY <2>2, <2>4, <1>c
  <2>5. CASE UNCHANGED <<pc, result>>
    BY <1>a, <2>2, <2>5 DEF Heard
  <2> QED BY <1>9, <2>3, <2>4, <2>5 DEF TakeText
<1>10. CASE PassOver
  <2>1. dn' = dn + 1 /\ dn \in Nat
    BY <1>10, Taken, Indices DEF PassOver
  <2> QED BY <1>10, <1>a, <2>1 DEF PassOver, client, flow, Heard
<1>11. CASE TakeEof
  BY <1>11, <1>c DEF TakeEof, flow
<1>12. CASE Collect
  BY <1>12, <1>a DEF Collect, Heard
<1>13. CASE Judge
  <2>1. op = "uninstall"
    BY <1>13 DEF Judge, Types
  <2>2. ReportsFailure => Refused
    BY <2>1, ReportedIsRefused
  <2>3. Return(IF ReportsFailure THEN "command" ELSE "ok") /\ UNCHANGED success
    BY <1>13 DEF Judge, flow
  <2>4. CASE ReportsFailure
    BY <2>2, <2>3, <2>4, <1>b
  <2>5. CASE ~ ReportsFailure
    BY <2>3, <2>5, <1>b
  <2> QED BY <2>4, <2>5
<1>14. CASE RecvRaises
  BY <1>14, <1>b DEF RecvRaises, flow
<1>15. CASE Daemon \/ Disconnect \/ Edit \/ UNCHANGED vars
  BY <1>15, <1>a, HeardKept DEF Daemon, DaemonStart, DaemonCheck, DaemonData, DaemonRuns,
       DaemonEchoes, DaemonReport, DaemonRefuses, DaemonDropped, Disconnect, LinkLost,
       Edit, vars, chVars, client, flow
<1> QED
  BY <1>1, <1>2, <1>3, <1>4, <1>5, <1>6, <1>7, <1>8, <1>9, <1>10, <1>11, <1>12,
     <1>13, <1>14, <1>15 DEF Next, Client, Proceeds, Install, Finished
-----------------------------------------------------------------------------
(* What install heeds, and what uninstall collects.                         *)

\* What the client has taken stays where it was.
LEMMA TakenStays ==
    ASSUME Types, [Next]_vars
    PROVE  \A i \in 1 .. dn : down'[i] = down[i]
<1>1. down \in Seq(Frames) /\ Len(down) \in Nat /\ dn \in 0 .. Len(down) /\ dn \in Nat
  BY Indices
<1>2. ASSUME NEW ms \in Seq(Frames), DaemonSays(ms)
      PROVE  \A i \in 1 .. dn : down'[i] = down[i]
  BY <1>1, <1>2, Says
<1>3. ASSUME LinkLost PROVE \A i \in 1 .. dn : down'[i] = down[i]
  BY <1>1, <1>3, Loses
<1> DEFINE Goal == \A i \in 1 .. dn : down'[i] = down[i]
<1>4. ASSUME UNCHANGED down PROVE Goal
  BY <1>4
<1>5. /\ Cmd("INIT") \in Frames /\ Cmd("BEGIN") \in Frames /\ Echoes \subseteq Frames
      /\ Text("[Fail]") \in Frames
  BY Echoed DEF Frames, Reports
<1>6. /\ <<Cmd("INIT")>> \in Seq(Frames) /\ <<Cmd("BEGIN")>> \in Seq(Frames)
      /\ <<Text("[Fail]")>> \in Seq(Frames)
  BY <1>5, ShortSeqs
<1> HIDE DEF Goal
<1>7. CASE Client
  <2>1. UNCHANGED down
    BY <1>7 DEF Client, Proceeds, Install, AwaitInit, SendCheck, AwaitBegin, Unexpected, SendData,
       DataDone, SendFails, LocalFails, TakeVerdict, TakeText, PassOver, TakeEof, Collect, Judge,
       RecvRaises, chVars, ClientTakes, ClientSends
  <2> QED BY <1>4, <2>1
<1>8. CASE Daemon
  <2>1. CASE DaemonStart
    <3>1. CASE DaemonSays(<<Cmd("INIT")>>)
      BY <1>2, <1>6, <3>1 DEF Goal
    <3>2. CASE DaemonSays(<<Cmd("INIT"), Text("[Fail]")>>)
      <4>1. <<Cmd("INIT"), Text("[Fail]")>> \in Seq(Frames)
        BY <1>5, ShortSeqs
      <4> QED BY <1>2, <3>2, <4>1 DEF Goal
    <3> QED BY <2>1, <3>1, <3>2 DEF DaemonStart, DaemonEnds
  <2>2. CASE DaemonCheck
    BY <1>2, <1>6, <2>2 DEF DaemonCheck, Goal
  <2>3. CASE DaemonData \/ DaemonRuns \/ DaemonDropped
    BY <1>4, <2>3 DEF DaemonData, DaemonRuns, DaemonDropped, chVars
  <2>4. CASE DaemonEchoes
    <3>1. PICK m \in Echoes : DaemonSays(<<m>>)
      BY <2>4, Echoed
    <3>2. <<m>> \in Seq(Frames)
      BY <1>5, ShortSeqs
    <3> QED BY <1>2, <3>1, <3>2 DEF Goal
  <2>5. CASE DaemonReport
    <3>1. PICK ms \in Seq(Last) : DaemonSays(ms)
      BY <2>5, LastWord DEF DaemonEnds
    <3>2. Last \subseteq Frames
      BY DEF Last, Frames, Reports
    <3>3. ms \in Seq(Frames)
      BY <3>2
    <3> QED BY <1>2, <3>1, <3>3 DEF Goal
  <2>6. CASE DaemonRefuses
    BY <1>2, <1>6, <2>6 DEF DaemonRefuses, DaemonEnds, Goal
  <2> QED BY <1>8, <2>1, <2>2, <2>3, <2>4, <2>5, <2>6 DEF Daemon
<1>9. CASE Disconnect
  BY <1>3, <1>9 DEF Disconnect, Goal
<1>10. CASE Edit \/ UNCHANGED vars
  <2>1. UNCHANGED down
    BY <1>10 DEF Edit, vars, chVars
  <2> QED BY <1>4, <2>1
<1> QED BY <1>7, <1>8, <1>9, <1>10 DEF Next, Finished, Goal

LEMMA HeededKept ==
    ASSUME Heeded, UNCHANGED <<op, pc, success, result, dn>>,
           \A i \in 1 .. dn : down'[i] = down[i]
    PROVE  Heeded'
BY DEF Heeded, NoneMissed

LEMMA NextHeeded ==
    Types /\ Said /\ Heard /\ Heeded /\ [Next]_vars => Heeded'
<1> SUFFICES ASSUME Types, Said, Heard, Heeded, [Next]_vars PROVE Heeded'
  OBVIOUS
<1> SUFFICES ASSUME op' = "install", pc' # "done" \/ result' = "ok"
             PROVE  NoneMissed'
  BY DEF Heeded
<1> DEFINE Good(i) == /\ down'[i] # Text("[Fail]")
                      /\ down'[i].cmd = "FINISH" => success' # "unknown"
<1> SUFFICES (\A i \in 1 .. dn' : Good(i)) /\ (result' = "ok" => success' # "no")
  BY DEF NoneMissed
<1>a. \A i \in 1 .. dn : down'[i] = down[i]
  BY TakenStays
<1>b. Types' /\ dn \in Nat
  BY NextTypes, Indices
<1>c. op = "install"
  BY DEF Next, Client, Proceeds, Install, Daemon, Finished, AwaitInit, SendCheck, AwaitBegin,
     Unexpected, SendData, DataDone, SendFails, LocalFails, TakeVerdict, TakeText, PassOver,
     TakeEof, Collect, Judge, RecvRaises, DaemonStart, DaemonCheck, DaemonData,
     DaemonRuns, DaemonEchoes, DaemonReport, DaemonRefuses, DaemonDropped,
     Disconnect, Edit, vars, local
<1>d. ASSUME pc # "done" \/ result = "ok", success # "unknown" => success' # "unknown"
      PROVE  \A i \in 1 .. dn : Good(i)
  BY <1>a, <1>c, <1>d DEF Heeded, NoneMissed
<1>e. ASSUME pc # "done" \/ result = "ok", success # "unknown" => success' # "unknown",
             ClientTakes(Frame), Frame # Text("[Fail]"),
             Frame.cmd = "FINISH" => success' # "unknown"
      PROVE  \A i \in 1 .. dn' : Good(i)
  <2>1. dn' = dn + 1 /\ down' = down /\ Frame = down[dn + 1]
    BY <1>e, Taken
  <2> QED BY <1>b, <1>d, <1>e, <2>1
<1>f. ASSUME NEW r \in {"server", "command", "timeout", "protocol", "oserror"}, Return(r)
      PROVE  FALSE
  BY <1>f DEF Return
<1>g. Text("[Fail]").cmd = "TEXT" /\ Text("[Fail]").text = "[Fail]"
  BY DEF Text
<1>h. pc # "done" => result = "none"
  BY DEF Heard
<1>1. CASE AwaitInit \/ AwaitBegin
  BY <1>1, <1>e, <1>g, <1>h DEF AwaitInit, AwaitBegin, Arrived, Frame, flow
<1>2. CASE SendCheck \/ SendData \/ DataDone
  BY <1>2, <1>d, <1>h DEF SendCheck, SendData, DataDone, ClientSends, chVars, flow
<1>3. CASE Unexpected \/ SendFails \/ LocalFails \/ RecvRaises
  BY <1>3, <1>f DEF Unexpected, SendFails, LocalFails, RecvRaises
<1>4. CASE TakeVerdict
  BY <1>4, <1>e, <1>g, <1>h DEF TakeVerdict, Arrived, Frame
<1>5. CASE TakeText
  <2>1. Frame.cmd = "TEXT" /\ ClientTakes(Frame) /\ UNCHANGED success /\ pc # "done"
    BY <1>5 DEF TakeText, Arrived, Frame, flow
  <2>2. CASE Frame.text = "[Fail]" /\ Return("command")
    BY <2>2, <1>f
  <2>3. ASSUME Frame.text # "[Fail]"
        PROVE  \A i \in 1 .. dn' : Good(i)
    BY <2>1, <2>3, <1>e, <1>g
  <2>4. CASE Frame.text = "AppMod finish" /\ Conclude
    <3>1. Frame.text # "[Fail]"
      BY <2>4
    <3>2. success' # "no"
      BY <2>1, <2>4, <1>f DEF Conclude
    <3> QED BY <2>3, <3>1, <3>2
  <2>5. CASE Frame.text = "info" /\ UNCHANGED <<pc, result>>
    BY <2>1, <2>3, <2>5, <1>h
  <2> QED BY <1>5, <2>2, <2>4, <2>5 DEF TakeText
<1>6. CASE PassOver
  BY <1>6, <1>e, <1>g, <1>h DEF PassOver, Arrived, Frame, client, flow
<1>7. CASE TakeEof
  <2>1. success' = success /\ dn' = dn /\ pc # "done" /\ Conclude
    BY <1>7 DEF TakeEof, chVars, flow
  <2>2. success' # "no"
    BY <2>1, <1>f DEF Conclude
  <2> QED BY <2>1, <2>2, <1>d
<1>8. CASE Collect \/ Judge
  BY <1>8, <1>c DEF Collect, Judge, Types
<1>9. CASE Daemon \/ Disconnect \/ Edit \/ UNCHANGED vars
  <2>1. UNCHANGED <<op, pc, success, result, dn>>
    BY <1>9 DEF Daemon, DaemonStart, DaemonCheck, DaemonData, DaemonRuns,
       DaemonEchoes, DaemonReport, DaemonRefuses, DaemonDropped, Disconnect, LinkLost,
       Edit, vars, chVars, local, client, flow
  <2>2. Heeded'
    BY <2>1, <1>a, HeededKept
  <2> QED BY <2>2 DEF Heeded, NoneMissed
<1> QED
  BY <1>1, <1>2, <1>3, <1>4, <1>5, <1>6, <1>7, <1>8, <1>9 DEF Next, Client, Proceeds, Install, Finished
LEMMA CollectedKept ==
    ASSUME Types, Collected, UNCHANGED <<op, lines, dn>>,
           pc' = "collect" => pc = "collect",
           result' = "ok" /\ op = "uninstall" => result = "ok" \/ ~ ReportsFailure,
           \A i \in 1 .. dn : down'[i] = down[i]
    PROVE  Collected'
<1>1. ReportsFailure' <=> ReportsFailure
  BY DEF ReportsFailure
<1> QED BY <1>1 DEF Collected

LEMMA NextCollected ==
    Types /\ Said /\ Heard /\ Collected /\ [Next]_vars => Collected'
<1> SUFFICES ASSUME Types, Said, Heard, Collected, [Next]_vars PROVE Collected'
  OBVIOUS
<1>a. \A i \in 1 .. dn : down'[i] = down[i]
  BY TakenStays
<1>b. lines \in Seq(Lines) /\ Len(lines) \in Nat /\ dn \in Nat
  BY LinesType, Indices
<1>c. ASSUME Install \/ LocalFails \/ Edit PROVE op = "install" /\ op' = op
  BY <1>c DEF Install, AwaitInit, SendCheck, AwaitBegin, Unexpected, SendData, DataDone,
     SendFails, LocalFails, TakeVerdict, TakeText, PassOver, TakeEof, Edit, Types, Flow, local
<1>1. CASE Install \/ LocalFails \/ Edit
  BY <1>1, <1>c DEF Collected
<1>2. CASE Collect
  <2>1. /\ dn' = dn + 1 /\ down' = down /\ Frame = down[dn + 1]
        /\ Frame.cmd # "CLOSE" /\ pc = "collect" /\ result' = result /\ op' = op
        /\ lines' = Append(lines, Line(Frame))
    BY <1>2, Taken DEF Collect, local
  <2>2. CASE op = "uninstall"
    <3>1. Len(lines) = dn
      BY <2>1, <2>2 DEF Collected
    <3>2. Len(lines') = dn + 1 /\ lines'[dn + 1] = Line(Frame)
          /\ \A i \in 1 .. dn : lines'[i] = lines[i]
      BY <2>1, <3>1, <1>b
    <3>3. \A i \in 1 .. dn : lines[i] = Line(down[i]) /\ down[i].cmd # "CLOSE"
      BY <2>2, <3>1, <1>b DEF Collected
    <3>4. \A i \in 1 .. dn' : lines'[i] = Line(down'[i]) /\ down'[i].cmd # "CLOSE"
      BY <2>1, <3>2, <3>3, <1>b
    <3>5. result' # "ok"
      BY <2>1 DEF Heard
    <3> QED BY <2>1, <3>2, <3>4, <3>5, <1>b DEF Collected
  <2>3. CASE op # "uninstall"
    BY <2>1, <2>3 DEF Collected
  <2> QED BY <2>2, <2>3
<1>3. CASE Judge
  <2>1. op = "uninstall" /\ op' = op /\ UNCHANGED lines /\ pc' = "done" /\ pc = "collect"
        /\ (result' = "ok" => ~ ReportsFailure)
    BY <1>3 DEF Judge, Return, Types, flow, local
  <2>2. CASE ClientSeesEof /\ UNCHANGED chVars
    BY <2>1, <2>2, <1>a, CollectedKept DEF chVars
  <2>3. CASE Arrived("CLOSE") /\ ClientTakes(Frame)
    <3>1. dn' = dn + 1 /\ down' = down /\ Frame = down[dn + 1] /\ Frame \in Frames
      BY <2>3, Taken
    <3>2. down[dn + 1] = Cmd("CLOSE")
      BY <2>3, <3>1, FrameFacts DEF Arrived
    <3>3. Len(lines) = dn
      BY <2>1 DEF Collected
    <3>4. \A i \in 1 .. dn : lines[i] = Line(down[i]) /\ down[i].cmd # "CLOSE"
      BY <2>1, <3>3, <1>b DEF Collected
    <3>5. \A i \in 1 .. dn' : IF i <= Len(lines')
                              THEN lines'[i] = Line(down'[i]) /\ down'[i].cmd # "CLOSE"
                              ELSE down'[i] = Cmd("CLOSE")
      BY <2>1, <3>1, <3>2, <3>3, <3>4, <1>b
    <3>6. result' = "ok" => ~ ReportsFailure'
      BY <2>1 DEF ReportsFailure
    <3> QED BY <2>1, <3>1, <3>3, <3>5, <3>6, <1>b DEF Collected
  <2> QED BY <1>3, <2>2, <2>3 DEF Judge
<1>4. CASE RecvRaises
  <2>1. result' # "ok" /\ pc' = "done" /\ UNCHANGED <<op, lines, dn>>
    BY <1>4 DEF RecvRaises, Return, flow, local, chVars
  <2> QED BY <2>1, <1>a, CollectedKept
<1>5. CASE Daemon \/ Disconnect \/ UNCHANGED vars
  <2>1. UNCHANGED <<op, lines, dn, pc, result>>
    BY <1>5 DEF Daemon, DaemonStart, DaemonCheck, DaemonData, DaemonRuns,
       DaemonEchoes, DaemonReport, DaemonRefuses, DaemonDropped, Disconnect, LinkLost,
       vars, chVars, local, client, flow
  <2> QED BY <2>1, <1>a, CollectedKept
<1> QED BY <1>1, <1>2, <1>3, <1>4, <1>5 DEF Next, Client, Proceeds, Finished
\* The frames that stop the loop.
Stops == {Over, Cmd("CLOSE")}

Stopped == \/ dn = Len(down) /\ peer # "open"
           \/ dn > 0 /\ down[dn] \in Stops

LEMMA EndedBy == ReadingEnded <=> Stopped
BY Zenon DEF ReadingEnded, Stopped, Stops, Over

\* What ended the reading stays: nothing is added to what a closed connection
\* has brought, and what was taken stays where it was.
LEMMA EndedKept ==
    ASSUME Types, Types', [Next]_vars, ReadingEnded, dn' = dn
    PROVE  ReadingEnded'
<1>1. \A i \in 1 .. dn : down'[i] = down[i]
  BY TakenStays
<1>2. dn \in Nat /\ dn' \in 0 .. Len(down') /\ Len(down) \in Nat /\ Len(down') \in Nat
      /\ down \in Seq(Frames) /\ peer \in PeerStates
  <2>1. Len(down) \in Nat /\ dn \in Nat /\ down \in Seq(Frames) /\ peer \in PeerStates
    BY Indices
  <2>2. dn' \in 0 .. Len(down') /\ down' \in Seq(Frames)
    BY DEF Types, TypeOK, IndicesOK
  <2> QED BY <2>1, <2>2
<1>e. ReadingEnded' <=> Stopped'
  BY EndedBy, PTL
<1>3. CASE dn > 0 /\ down[dn] \in Stops
  BY <1>1, <1>2, <1>3, <1>e DEF Stopped
<1>4. CASE dn = Len(down) /\ peer # "open"
  <2>1. UNCHANGED <<down, peer>>
    BY <1>4 DEF Next, Client, Proceeds, Install, Daemon, Finished, AwaitInit, SendCheck, AwaitBegin,
       Unexpected, SendData, DataDone, SendFails, LocalFails, TakeVerdict, TakeText, PassOver,
       TakeEof, Collect, Judge, RecvRaises, DaemonStart, DaemonCheck, DaemonData,
       DaemonRuns, DaemonEchoes, DaemonReport, DaemonRefuses, DaemonDropped, DaemonEnds,
       DaemonSays, DaemonCloses, ClientTakes, ClientSends, LinkLost, Disconnect, Edit,
       vars, chVars
  <2> QED BY <1>4, <2>1 DEF ReadingEnded
<1> QED BY <1>3, <1>4, EndedBy DEF Stopped

LEMMA NextEnded ==
    Types /\ Said /\ Heard /\ Ended /\ [Next]_vars => Ended'
<1> SUFFICES ASSUME Types, Said, Heard, Ended, [Next]_vars, result' = "ok"
             PROVE  ReadingEnded'
  BY DEF Ended
<1>a. Types' /\ dn \in Nat
  BY NextTypes, Indices
<1>b. ASSUME ClientSeesEof, UNCHANGED chVars PROVE ReadingEnded'
  BY <1>b DEF ClientSeesEof, chVars, ReadingEnded
<1>e. ReadingEnded' <=> Stopped'
  BY EndedBy, PTL
<1>c. ASSUME ClientTakes(Frame), Frame \in Stops PROVE ReadingEnded'
  BY <1>a, <1>c, <1>e, Taken DEF Stopped
<1>1. CASE result = "ok"
  <2>1. pc = "done" /\ ReadingEnded
    BY <1>1 DEF Heard, Ended
  <2>2. dn' = dn
    BY <2>1 DEF Next, Client, Proceeds, Install, Daemon, Finished, AwaitInit, SendCheck, AwaitBegin,
       Unexpected, SendData, DataDone, SendFails, LocalFails, TakeVerdict, TakeText, PassOver,
       TakeEof, Collect, Judge, RecvRaises, DaemonStart, DaemonCheck, DaemonData,
       DaemonRuns, DaemonEchoes, DaemonReport, DaemonRefuses, DaemonDropped,
       LinkLost, Disconnect, Edit, vars, chVars
  <2> QED BY <1>a, <2>1, <2>2, EndedKept
<1>2. CASE result # "ok" /\ TakeText
  <2>1. ClientTakes(Frame) /\ Frame.text = "AppMod finish" /\ Frame.cmd = "TEXT"
    BY <1>2 DEF TakeText, Return, Arrived, Frame
  <2>2. Frame = Text(Frame.text)
    BY <2>1, Taken, FrameFacts
  <2>3. Frame \in Stops
    BY Zenon, <2>1, <2>2 DEF Stops, Over
  <2> QED BY <1>c, <2>1, <2>3
<1>3. CASE result # "ok" /\ TakeEof
  BY <1>3, <1>b DEF TakeEof
<1>4. CASE result # "ok" /\ Judge
  <2>1. CASE Arrived("CLOSE") /\ ClientTakes(Frame)
    <3>1. Frame = Cmd("CLOSE")
      BY <2>1, Taken, FrameFacts DEF Arrived, Frame
    <3> QED BY <1>c, <2>1, <3>1 DEF Stops
  <2> QED BY <1>4, <1>b, <2>1 DEF Judge
<1>5. CASE result # "ok" /\ ~ (TakeText \/ TakeEof \/ Judge)
  BY <1>5 DEF Next, Client, Proceeds, Install, Daemon, Finished, AwaitInit, SendCheck, AwaitBegin,
     Unexpected, SendData, DataDone, SendFails, LocalFails, TakeVerdict, PassOver, Collect,
     RecvRaises, Return, DaemonStart, DaemonCheck, DaemonData, DaemonRuns, DaemonEchoes,
     DaemonReport, DaemonRefuses, DaemonDropped, Disconnect, Edit, vars, client
<1> QED BY <1>1, <1>2, <1>3, <1>4, <1>5
-----------------------------------------------------------------------------
(* The theorems.                                                            *)

LEMMA InitIInv == Init => IInv
<1> SUFFICES ASSUME Init PROVE IInv
  OBVIOUS
<1>1. up = << >> /\ down = << >> /\ ut = 0 /\ dn = 0 /\ lines = << >> /\ peer = "open"
  BY DEF Init, ChannelInit
<1>2. /\ op \in {"install", "uninstall"} /\ pc \in {"init", "collect"}
      /\ op = "install" <=> pc = "init"
      /\ pkg \in 0 .. MaxFile
      /\ edited = FALSE /\ size = 0 /\ pos = 0 /\ success = "unknown" /\ result = "none"
      /\ dpc = "init" /\ want = 0 /\ got = 0 /\ bm = "pending"
  BY AppAssumption DEF Init
<1>3. << >> \in Seq(UpFrames) /\ << >> \in Seq(Frames) /\ << >> \in Seq(Reports) /\ << >> \in Seq(Lines)
  OBVIOUS
<1>4. TypeOK
  <2>1. IndicesOK
    BY <1>1, TaskChannelAssumption DEF IndicesOK, PeerStates
  <2>2. lines \in Seq({"OK", "FAIL", "[Fail]", "info", "AppMod finish"})
    BY <1>1, <1>3 DEF Lines
  <2>3. size \in 0 .. MaxFile /\ pos \in 0 .. MaxFile /\ want \in 0 .. MaxFile /\ got \in 0 .. want
    BY <1>2, AppAssumption
  <2> QED BY <1>2, <2>1, <2>2, <2>3 DEF TypeOK
<1>5. Types
  BY <1>1, <1>2, <1>3, <1>4 DEF Types, Flow
<1>6. Sent /\ Held
  BY <1>1, <1>2 DEF Sent, Held
<1>7. Said /\ Heard
  BY <1>1, <1>2 DEF Said, Heard
<1>8. Heeded
  BY <1>1, <1>2 DEF Heeded, NoneMissed
<1>9. Collected
  BY <1>1, <1>2 DEF Collected
<1>10. Ended
  BY <1>2 DEF Ended
<1> QED BY <1>5, <1>6, <1>7, <1>8, <1>9, <1>10 DEF IInv

LEMMA NextIInv == IInv /\ [Next]_vars => IInv'
BY NextTypes, NextSent, NextHeld, NextSaid, NextHeard, NextHeeded, NextCollected, NextEnded
DEF IInv

\* The inductive invariant holds in every behaviour.
THEOREM SpecIInv == Spec => []IInv
BY InitIInv, NextIInv, PTL DEF Spec

\* bm install never runs on a part of the package that the client announced,
\* for any package and any loss of the connection.
THEOREM SpecInstalledIsWhole == Spec => []InstalledIsWhole
<1>1. IInv => InstalledIsWhole
  <2> SUFFICES ASSUME IInv, op = "install", bm # "pending", ~ edited PROVE got = pkg
    BY DEF IInv, Types, InstalledIsWhole
  <2>1. got = want /\ want = size /\ ut > 0
    BY DEF IInv, Held
  <2>2. Len(up) > 0
    BY <2>1, Indices DEF IInv
  <2>3. size = pkg
    BY <2>2 DEF IInv, Sent
  <2> QED BY <2>1, <2>3
<1> QED BY <1>1, SpecIInv, PTL

\* HdcCommandError from install or uninstall is final: the bundle manager has
\* not done what was asked and will not.
THEOREM SpecCommandErrorMeansNotDone == Spec => []CommandErrorMeansNotDone
<1>1. IInv => CommandErrorMeansNotDone
  BY DEF IInv, Heard, Refused, CommandErrorMeansNotDone
<1> QED BY <1>1, SpecIInv, PTL

\* A call that returns normally without having done what was asked took no
\* [Fail], and it took no failed verdict where its reading ended; or it is an
\* uninstall that took one after some other line.  For every length of the
\* daemon's report and every order of texts, verdict and close in it.
THEOREM SpecVerdictHeeded == Spec => []VerdictHeeded
<1>1. IInv => VerdictHeeded
  <2> DEFINE heard == {down[i] : i \in 1 .. dn}
  <2> SUFFICES ASSUME IInv, result = "ok", bm # "done"
               PROVE  /\ Text("[Fail]") \notin heard
                      /\ \/ Verdict(FALSE) \notin heard
                         \/ /\ op = "uninstall" /\ Verdict(FALSE) \in heard
                            /\ down[1] # Verdict(FALSE)
    BY DEF VerdictHeeded, IInv, Ended
  <2>1. dn \in Nat /\ \A i \in 1 .. dn : down[i] \in Frames
    BY Indices DEF IInv
  <2>2. No.cmd = "FINISH" /\ No = Verdict(FALSE)
    BY DEF No, Verdict
  <2>3. CASE op = "install"
    <3>1. NoneMissed /\ success # "yes"
      BY <2>3 DEF IInv, Heeded, Heard
    <3>2. success = "unknown"
      BY <3>1 DEF NoneMissed, IInv, Types, TypeOK
    <3> QED BY <2>2, <3>1, <3>2 DEF NoneMissed
  <2>4. CASE op = "uninstall"
    <3>1. ~ ReportsFailure /\ Len(lines) \in Nat
      BY <2>4, LinesType DEF IInv, Collected
    <3>2. Cmd("CLOSE") # Text("[Fail]") /\ Cmd("CLOSE") # No
      BY Different
    <3>3. Text("[Fail]").cmd = "TEXT"
      BY DEF Text
    <3>4. ASSUME NEW i \in 1 .. dn, down[i] \in {Text("[Fail]"), No}
          PROVE  /\ i <= Len(lines)
                 /\ lines[i] = IF down[i] = No THEN "FAIL" ELSE "[Fail]"
      <4>1. i <= Len(lines) /\ lines[i] = Line(down[i]) /\ down[i].cmd # "CLOSE"
        BY <2>4, <3>2, <3>4 DEF IInv, Collected
      <4>2. down[i] \in Frames /\ down[i].cmd \in {"FINISH", "TEXT"}
        BY <2>1, <2>2, <3>3, <3>4
      <4> QED BY <3>4, <4>1, <4>2, LineFacts
    <3>5. \A i \in 1 .. dn : down[i] # Text("[Fail]")
      <4> SUFFICES ASSUME NEW i \in 1 .. dn, down[i] = Text("[Fail]") PROVE FALSE
        OBVIOUS
      <4>1. down[i] # No /\ i \in 1 .. Len(lines)
        BY <3>1, <3>4, Different
      <4> QED BY <3>1, <3>4, <4>1 DEF ReportsFailure
    <3>6. ASSUME NEW i \in 1 .. dn, down[i] = No PROVE down[1] # No
      <4> SUFFICES ASSUME down[1] = No PROVE FALSE
        OBVIOUS
      <4>1. 1 \in 1 .. dn
        BY <2>1
      <4>2. 1 <= Len(lines) /\ lines[1] = "FAIL"
        BY <3>4, <4>1
      <4> QED BY <3>1, <4>2 DEF ReportsFailure
    <3> QED BY <2>2, <2>4, <3>5, <3>6
  <2> QED BY <2>3, <2>4 DEF IInv, Types
<1> QED BY <1>1, SpecIInv, PTL
-----------------------------------------------------------------------------
(* install and uninstall implement AbsApp.                                  *)

\* The two variables of AbsApp change one at a time: the bundle manager's once,
\* while nobody was told that it does not run, the outcome once, by the client.
LEMMA OneAtATime ==
    ASSUME IInv, [Next]_vars
    PROVE  \/ result' = result /\ bm' = bm
           \/ result' = result /\ bm = "pending" /\ bm' \in {"done", "failed"} /\ dpc # "stop"
           \/ result = "none" /\ bm' = bm
<1>1. CASE Client
  <2>1. pc # "done" /\ bm' = bm
    BY Zenon, <1>1 DEF Client, Proceeds, Install, AwaitInit, SendCheck, AwaitBegin, Unexpected, SendData,
         DataDone, SendFails, LocalFails, TakeVerdict, TakeText, PassOver, TakeEof, Collect, Judge,
         RecvRaises, daemon, client
  <2>2. pc # "done" => result = "none"
    BY DEF IInv, Heard
  <2> QED BY <2>1, <2>2
<1>2. CASE DaemonRuns
  <2>1. bm = "pending" /\ bm' \in {"done", "failed"} /\ dpc # "stop"
    BY <1>2 DEF DaemonRuns, IInv, Held
  <2> QED BY <1>2, <2>1 DEF DaemonRuns, client
<1>3. CASE Daemon /\ ~ DaemonRuns
  BY Zenon, <1>3 DEF Daemon, DaemonStart, DaemonCheck, DaemonData, DaemonEchoes, DaemonReport,
       DaemonRefuses, DaemonDropped, client, daemon
<1>4. CASE Disconnect \/ Edit \/ UNCHANGED vars
  BY <1>4 DEF Disconnect, Edit, vars, client, daemon
<1> QED BY <1>1, <1>2, <1>3, <1>4 DEF Next, Finished

\* Whoever was told of a command error may rely on it: no step of any party
\* does afterwards what was refused, or has done it before; and nothing is
\* installed or uninstalled twice.
THEOREM AppImplementsAbsApp == Spec => AbsSpec
<1>a. IInv => ClientTypes
  BY TypesParts DEF IInv
<1>0. IInv' => ClientTypes'
  BY <1>a, PTL
<1>1. Init => Abs!Init
  BY DEF Init, Abs!Init
<1>2. IInv /\ IInv' /\ [Next]_vars => [Abs!Next]_(Abs!vars)
  <2> SUFFICES ASSUME IInv, IInv', [Next]_vars PROVE [Abs!Next]_(Abs!vars)
    OBVIOUS
  <2>1. CASE result' = result /\ bm' = bm
    BY <2>1 DEF Abs!vars
  <2>2. CASE /\ result' = result /\ bm = "pending" /\ bm' \in {"done", "failed"}
             /\ dpc # "stop"
    <3>1. result # "command"
      BY <2>2 DEF IInv, Heard, Refused
    <3> QED BY <2>2, <3>1 DEF Abs!Next, Abs!Run
  <2>3. CASE result = "none" /\ bm' = bm /\ result' # result
    <3>1. CASE result' = "command"
      <4>1. bm' # "done"
        BY <3>1 DEF IInv, Heard, Refused
      <4> QED BY <2>3, <3>1, <4>1 DEF Abs!Next, Abs!Refuse
    <3>2. CASE result' # "command"
      <4>1. result' \in Abs!Unsure
        BY <1>0, <2>3, <3>2 DEF ClientTypes, Ends, Abs!Unsure
      <4> QED BY <2>3, <4>1 DEF Abs!Next, Abs!GiveUp
    <3> QED BY <3>1, <3>2
  <2> QED BY <2>1, <2>2, <2>3, OneAtATime
<1> QED BY <1>1, <1>2, SpecIInv, PTL DEF Spec, AbsSpec, Abs!Spec
=============================================================================
