------------------------------ MODULE FileRecv ------------------------------
(***************************************************************************)
(* FileTask.recv_file of hdcutils/_task.py: the daemon is the master of the *)
(* transfer, the client the slave.                                          *)
(*                                                                          *)
(*     client                                daemon                         *)
(*                        <-- CHECK(size), or a [Fail] text and close       *)
(*     open "wb", BEGIN   -->                                               *)
(*                        <-- DATA(i, chunk) ...                            *)
(*                        <-- FINISH(1)                                     *)
(*     close, FINISH(0)   -->                                               *)
(*                        <-- summary text, close                           *)
(*                                                                          *)
(* The client has one loop and no state but its open file: each frame is    *)
(* handled by its command alone, in whatever order frames come.             *)
(***************************************************************************)
EXTENDS TaskChannel

CONSTANTS Chunk,      \* chunk contents
          Hole,       \* what a seek past the end leaves in a file
          Old,        \* what the local target held before
          MaxFile,    \* chunks in the longest file
          Unparsed    \* the chunks, by index, whose header does not parse:
                      \* MessageWire says which offsets those are

ASSUME FileAssumption == /\ MaxFile \in Nat
                         /\ Unparsed \subseteq Nat
                         /\ Hole \notin Chunk
                         /\ Old \notin Seq(Chunk \cup {Hole})

VARIABLES source,     \* the device file
          pc,         \* "loop" or "done"
          file,       \* local_file: "none", "open" or "closed" (again None)
          dest,       \* the local target
          summary,    \* the last text received
          result,     \* how recv_file ended
          dpc,        \* where the daemon is
          next        \* chunks the daemon has sent

client == <<pc, file, dest, summary, result>>
daemon == <<source, dpc, next>>
vars   == <<chVars, client, daemon>>

Check(n)      == [cmd |-> "CHECK", size |-> n]
Begin         == [cmd |-> "BEGIN"]
Data(i, c)    == [cmd |-> "DATA", index |-> i, chunk |-> c]
Finish(f)     == [cmd |-> "FINISH", flag |-> f]
Text(t)       == [cmd |-> "TEXT", text |-> t]
ChannelClose  == [cmd |-> "CLOSE"]

Errors == {"command", "timeout", "protocol", "oserror", "valueerror"}

Init == /\ ChannelInit
        /\ source \in UNION {[1 .. n -> Chunk] : n \in 0 .. MaxFile}
        /\ pc = "loop"
        /\ file = "none"
        /\ dest = Old
        /\ summary = "none"
        /\ result = "none"
        /\ dpc = "start"
        /\ next = 0

\* The finally clauses close the local file and the channel.
Return(r) == /\ pc' = "done"
             /\ result' = r
             /\ file' = IF file = "open" THEN "closed" ELSE file

Arrived(c) == pc = "loop" /\ dn < Len(down) /\ down[dn + 1].cmd = c
Frame      == down[dn + 1]

\* Mutants: no seek back from the start of the file; a one-based index.
RewriteAt(f, i, c) == <<c>> \o (IF f = << >> THEN f ELSE Tail(f))
SkewedWriteAt(f, i, c) ==
    [k \in 1 .. (IF i + 2 > Len(f) THEN i + 2 ELSE Len(f)) |->
        IF k = i + 2 THEN c ELSE IF k <= Len(f) THEN f[k] ELSE Hole]

\* f.seek(i); f.write(chunk), i counted in chunks
WriteAt(f, i, c) ==
    [k \in 1 .. (IF i + 1 > Len(f) THEN i + 1 ELSE Len(f)) |->
        IF k = i + 1 THEN c ELSE IF k <= Len(f) THEN f[k] ELSE Hole]
-----------------------------------------------------------------------------
(* The client: _recv_slave, one action per branch of its loop.              *)

\* CHECK opens the target for writing, which empties it, and answers BEGIN.
OnCheck == /\ Arrived("CHECK")
           /\ dn' = dn + 1
           /\ dest' = << >>
           /\ \/ /\ Room
                 /\ up' = Append(up, Begin)
                 /\ file' = "open"
                 /\ UNCHANGED <<pc, result>>
              \/ /\ SendRaises
                 /\ pc' = "done" /\ result' = "oserror" /\ file' = "closed"
                 /\ UNCHANGED up
           /\ UNCHANGED <<ut, down, peer, summary, daemon>>

\* DATA is written at its index, or dropped when no file is open.
OnData == /\ Arrived("DATA")
          /\ Frame.index \notin Unparsed
          /\ ClientTakes(Frame)
          /\ dest' = IF file = "open" THEN WriteAt(dest, Frame.index, Frame.chunk)
                     ELSE dest
          /\ UNCHANGED <<pc, file, summary, result, daemon>>

\* TransferPayload.parse raises a ValueError, file open or not.
BadHeader == /\ Arrived("DATA")
             /\ Frame.index \in Unparsed
             /\ ClientTakes(Frame)
             /\ Return("valueerror")
             /\ UNCHANGED <<dest, summary, daemon>>

\* The target cannot be opened.  Or the disk is full when it is open: a write
\* raises, or a close(), that of FINISH(1) or that of the finally clause, which
\* then replaces whatever result or exception was on its way.
LocalFails == /\ \/ Arrived("CHECK") /\ ClientTakes(Frame)
                 \/ /\ pc = "loop" /\ file = "open"
                    /\ ClientTakes(Frame) \/ UNCHANGED chVars
              /\ Return("oserror")
              /\ UNCHANGED <<dest, summary, daemon>>

\* FINISH(1): the file is closed and FINISH(0) answered.
OnFinish == /\ Arrived("FINISH")
            /\ Frame.flag = 1
            /\ dn' = dn + 1
            /\ file' = IF file = "open" THEN "closed" ELSE file
            /\ \/ /\ Room
                  /\ up' = Append(up, Finish(0))
                  /\ UNCHANGED <<pc, result>>
               \/ /\ SendRaises
                  /\ pc' = "done" /\ result' = "oserror"
                  /\ UNCHANGED up
            /\ UNCHANGED <<ut, down, peer, dest, summary, daemon>>

\* FINISH(0) ends the transfer.
OnFinished == /\ Arrived("FINISH")
              /\ Frame.flag = 0
              /\ ClientTakes(Frame)
              /\ Return("ok")
              /\ UNCHANGED <<dest, summary, daemon>>

\* Mutant: a failed transfer removes what may be its partial output.
CleanUpOnText == /\ Arrived("TEXT")
                 /\ ClientTakes(Frame)
                 /\ \/ /\ Frame.text = "fail"
                       /\ Return("command")
                       /\ dest' = << >>
                       /\ UNCHANGED summary
                    \/ /\ Frame.text # "fail"
                       /\ summary' = Frame.text
                       /\ UNCHANGED <<pc, result, file, dest>>
                 /\ UNCHANGED daemon

\* A [Fail] text raises; the last other text is the summary.
OnText == /\ Arrived("TEXT")
          /\ ClientTakes(Frame)
          /\ \/ /\ Frame.text = "fail"
                /\ Return("command")
                /\ UNCHANGED summary
             \/ /\ Frame.text # "fail"
                /\ summary' = Frame.text
                /\ UNCHANGED <<pc, result, file>>
          /\ UNCHANGED <<dest, daemon>>

\* Any other frame, CMD_KERNEL_CHANNEL_CLOSE included, has no branch.
OnOther == /\ Arrived("CLOSE")
           /\ ClientTakes(Frame)
           /\ UNCHANGED <<client, daemon>>

\* EOF at any point of the transfer is taken for its end.
OnEof == /\ pc = "loop"
         /\ ClientSeesEof
         /\ Return("ok")
         /\ UNCHANGED <<chVars, dest, summary, daemon>>

\* Mutant: a timeout is retried.
PatientRecv == /\ pc = "loop"
               /\ \/ ClientSeesTorn /\ Return("protocol")
                  \/ ClientSeesReset /\ Return("oserror")
               /\ UNCHANGED <<chVars, dest, summary, daemon>>

RecvRaises == /\ pc = "loop"
              /\ \/ Return("timeout")
                 \/ ClientSeesTorn /\ Return("protocol")
                 \/ ClientSeesReset /\ Return("oserror")
              /\ UNCHANGED <<chVars, dest, summary, daemon>>

\* What the client does while its disk serves it.
Proceeds == \/ OnCheck \/ OnData \/ BadHeader
            \/ OnFinish \/ OnFinished \/ OnText \/ OnOther \/ OnEof \/ RecvRaises

Client == Proceeds \/ LocalFails
-----------------------------------------------------------------------------
(* The daemon, as the protocol-level mock of the tests plays it.            *)

\* No device or no such file: [Fail] and close.  Else the CHECK.
DaemonStart ==
    /\ dpc = "start"
    /\ \/ /\ DaemonSays(<<Check(Len(source))>>)
          /\ dpc' = "begin"
          /\ UNCHANGED peer
       \/ /\ DaemonSays(<<Text("fail")>>)
          /\ DaemonCloses
          /\ dpc' = "stop"
    /\ UNCHANGED <<up, ut, dn, client, source, next>>

DaemonBegin == /\ dpc = "begin"
               /\ DaemonHears(Begin)
               /\ dpc' = "data"
               /\ UNCHANGED <<up, down, dn, peer, client, source, next>>

DaemonData == /\ dpc = "data"
              /\ next < Len(source)
              /\ DaemonSays(<<Data(next, source[next + 1])>>)
              /\ next' = next + 1
              /\ UNCHANGED <<up, ut, dn, peer, client, source, dpc>>

DaemonFinish == /\ dpc = "data"
                /\ next = Len(source)
                /\ DaemonSays(<<Finish(1)>>)
                /\ dpc' = "finish"
                /\ UNCHANGED <<up, ut, dn, peer, client, source, next>>

\* FINISH(0) from the client: the summary, and EOF.  A server may pass on
\* CMD_KERNEL_CHANNEL_CLOSE or a closing FINISH(0): the loop has a branch for
\* each.
DaemonReport ==
    /\ dpc = "finish"
    /\ DaemonHears(Finish(0))
    /\ \E close \in {<< >>, <<ChannelClose>>, <<Finish(0)>>} :
          DaemonSays(<<Text("finish")>> \o close)
    /\ DaemonCloses
    /\ dpc' = "stop"
    /\ UNCHANGED <<up, dn, client, source, next>>

\* The daemon's branches, silent closes, for anything else where BEGIN or
\* FINISH(0) is due.
DaemonConfused == /\ ut < Len(up)
                  /\ \/ dpc = "begin" /\ up[ut + 1] # Begin
                     \/ dpc = "finish" /\ up[ut + 1] # Finish(0)

\* The device cannot go on (read error, device unplugged): a [Fail] text, or
\* none, and close.
DaemonRefuses == /\ dpc \in {"begin", "data", "finish"}
                 /\ \E t \in {<< >>, <<Text("fail")>>} : DaemonSays(t)
                 /\ DaemonCloses
                 /\ dpc' = "stop"
                 /\ UNCHANGED <<up, ut, dn, client, source, next>>

\* The client's connection is gone.
DaemonDropped == /\ dpc # "stop"
                 /\ pc = "done" \/ peer # "open"
                 /\ DaemonCloses
                 /\ dpc' = "stop"
                 /\ UNCHANGED <<up, ut, down, dn, client, source, next>>

Daemon == \/ DaemonStart \/ DaemonBegin \/ DaemonData \/ DaemonFinish
          \/ DaemonReport \/ DaemonRefuses \/ DaemonDropped

Disconnect == LinkLost /\ UNCHANGED <<client, daemon>>

Finished == /\ pc = "done"
            /\ dpc = "stop"
            /\ UNCHANGED vars

Next == Client \/ Daemon \/ Disconnect \/ Finished

\* The client runs, and its socket timeouts expire; nothing is asked of the
\* daemon, the server, the network or the disk.
Spec == Init /\ [][Next]_vars /\ WF_vars(Proceeds)
-----------------------------------------------------------------------------
(* Properties.                                                              *)

Frames == {Check(n) : n \in 0 .. MaxFile}
              \cup {Data(i, c) : i \in 0 .. MaxFile, c \in Chunk}
              \cup {Finish(0), Finish(1), ChannelClose, Text("fail"), Text("finish")}

TypeOK == /\ IndicesOK
          /\ up \in Seq({Begin, Finish(0)})
          /\ down \in Seq(Frames)
          /\ pc \in {"loop", "done"}
          /\ file \in {"none", "open", "closed"}
          /\ dest \in Seq(Chunk \cup {Hole}) \cup {Old}
          /\ summary \in {"none", "finish"}
          /\ result \in {"none", "ok"} \cup Errors
          /\ dpc \in {"start", "begin", "data", "finish", "stop"}
          /\ next \in 0 .. Len(source)

\* The client acknowledges with FINISH(0), and a summary comes back, only when
\* its file holds the device file, chunk for chunk, and is closed.  And it
\* sends no other frame than BEGIN and that FINISH, each when it is waited for.
AcknowledgedIsComplete ==
    /\ TypeOK /\ ~ DaemonConfused
    /\ Finish(0) \in {up[i] : i \in 1 .. Len(up)} \/ summary = "finish" =>
           dest = source /\ file = "closed"

\* The local file never holds anything but the old content or a prefix of the
\* device file: a transfer that ends early leaves no holes and no mixture.
PrefixOnly ==
    dest # Old => /\ Len(dest) <= Len(source)
                  /\ dest = SubSeq(source, 1, Len(dest))

\* recv_file implements AbsRecv: the target is emptied once and only when the
\* daemon has said that it has the file (a [Fail] for a missing file or device
\* leaves it alone), grows in order, and is left alone after FINISH(0) and after
\* the call has ended.
Abs == INSTANCE AbsRecv WITH
           found   <- dn > 0 /\ down[1].cmd = "CHECK",
           acked   <- Finish(0) \in {up[i] : i \in 1 .. Len(up)},
           outcome <- result
AbsSpec == Abs!Spec

\* recv_file returns or raises even when the daemon stops answering.
RecvReturns == <>(pc = "done")
=============================================================================
