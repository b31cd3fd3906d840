------------------------------ MODULE FileSend ------------------------------
(***************************************************************************)
(* FileTask.send_file of hdcutils/_task.py: the client is the master of the *)
(* transfer, the daemon the slave.                                          *)
(*                                                                          *)
(*     client                                daemon                         *)
(*                        <-- INIT                                          *)
(*     stat, CHECK(size)  -->                                               *)
(*                        <-- BEGIN                                         *)
(*     DATA(i, chunk) ... -->                                               *)
(*     FINISH(1)          -->                check the size, store          *)
(*                        <-- FINISH(0), summary text, close                *)
(*                                                                          *)
(* A file is a sequence of chunks of TRANSFER_CHUNK_SIZE bytes.  The local  *)
(* file belongs to other programs too, which may rewrite it meanwhile.      *)
(***************************************************************************)
EXTENDS TaskChannel

CONSTANTS Chunk,      \* chunk contents
          MaxFile,    \* chunks in the longest file
          Absent      \* no such file on the device

ASSUME FileAssumption == /\ MaxFile \in Nat
                         /\ Absent \notin Seq(Chunk)

File == UNION {[1 .. n -> Chunk] : n \in 0 .. MaxFile}

VARIABLES local,      \* the local file
          edited,     \* another program has rewritten it
          pc,         \* where the client is
          size,       \* stat.st_size, as sent in CMD_FILE_CHECK
          pos,        \* chunks read and sent
          summary,    \* the texts collected after FINISH(1)
          result,     \* how send_file ended
          dpc,        \* where the daemon is
          want,       \* the file_size it was told
          chunks,     \* the chunks it holds
          remote      \* the device file

client == <<pc, size, pos, summary, result>>
daemon == <<dpc, want, chunks, remote>>
vars   == <<chVars, local, edited, client, daemon>>

\* Frames.  The texts are the daemon's summary and its [Fail] message.
Cmd(c)        == [cmd |-> c]
Check(n)      == [cmd |-> "CHECK", size |-> n]
Data(i, c)    == [cmd |-> "DATA", index |-> i, chunk |-> c]
Finish(f)     == [cmd |-> "FINISH", flag |-> f]
Text(t)       == [cmd |-> "TEXT", text |-> t]

Errors  == {"server", "command", "timeout", "protocol", "oserror"}
Results == {"none", "ok"} \cup Errors

Init == /\ ChannelInit
        /\ local \in File
        /\ edited = FALSE
        /\ pc = "init"
        /\ size = 0
        /\ pos = 0
        /\ summary = {}
        /\ result = "none"
        /\ dpc = "init"
        /\ want = 0
        /\ chunks = << >>
        /\ remote = Absent

\* The finally clause closes the channel whatever the outcome.
Return(r) == pc' = "done" /\ result' = r
-----------------------------------------------------------------------------
(* The client: _send_master.                                                *)

\* Mutant: the CHECK is forgotten.
UncheckedInit == /\ pc = "init"
                 /\ ClientTakes(Cmd("INIT"))
                 /\ size' = Len(local)
                 /\ pc' = "data"
                 /\ UNCHANGED <<local, edited, pos, summary, result, daemon>>

\* cmd = CMD_FILE_INIT: stat the file for the CHECK that follows.
AwaitInit == /\ pc = "init"
             /\ ClientTakes(Cmd("INIT"))
             /\ size' = Len(local)
             /\ pc' = "check"
             /\ UNCHANGED <<local, edited, pos, summary, result, daemon>>

SendCheck == /\ pc = "check"
             /\ ClientSends(Check(size))
             /\ pc' = "begin"
             /\ UNCHANGED <<local, edited, size, pos, summary, result, daemon>>

AwaitBegin == /\ pc = "begin"
              /\ ClientTakes(Cmd("BEGIN"))
              /\ pc' = "data"
              /\ UNCHANGED <<local, edited, size, pos, summary, result, daemon>>

\* Any other frame is _task_error, the [Fail] text included.
Unexpected == /\ \/ pc = "init" /\ dn < Len(down) /\ down[dn + 1] # Cmd("INIT")
                 \/ pc = "begin" /\ dn < Len(down) /\ down[dn + 1] # Cmd("BEGIN")
              /\ ClientTakes(down[dn + 1])
              /\ Return("command")
              /\ UNCHANGED <<local, edited, size, pos, summary, daemon>>

\* Mutant: the file is opened again for every chunk.
SendFirstData == /\ pc = "data"
                 /\ pos < Len(local)
                 /\ ClientSends(Data(pos, local[1]))
                 /\ pos' = pos + 1
                 /\ UNCHANGED <<local, edited, pc, size, summary, result, daemon>>

\* f.read returns a chunk, and it is sent at its index.
SendData == /\ pc = "data"
            /\ pos < Len(local)
            /\ ClientSends(Data(pos, local[pos + 1]))
            /\ pos' = pos + 1
            /\ UNCHANGED <<local, edited, pc, size, summary, result, daemon>>

\* f.read returns nothing.
SendFinish == /\ pc = "data"
              /\ pos >= Len(local)
              /\ ClientSends(Finish(1))
              /\ pc' = "tail"
              /\ UNCHANGED <<local, edited, size, pos, summary, result, daemon>>

SendFails == /\ pc \in {"check", "data"}
             /\ SendRaises
             /\ Return("oserror")
             /\ UNCHANGED <<chVars, local, edited, size, pos, summary, daemon>>

\* Another program has removed the file, or it cannot be read: os.stat for the
\* CHECK, open or a read raises.
LocalFails == /\ \/ pc = "init" /\ ClientTakes(Cmd("INIT"))
                 \/ pc = "data" /\ UNCHANGED chVars
              /\ Return("oserror")
              /\ UNCHANGED <<local, edited, size, pos, summary, daemon>>

\* The tail: texts are collected, FINISH(0) and anything else is passed over.
TailFrame == /\ pc = "tail"
             /\ dn < Len(down)
             /\ LET m == down[dn + 1]
                IN  /\ m.cmd # "CLOSE"
                    /\ ClientTakes(m)
                    /\ summary' = IF m.cmd = "TEXT" THEN summary \cup {m.text}
                                  ELSE summary
             /\ UNCHANGED <<local, edited, pc, size, pos, result, daemon>>

\* CMD_KERNEL_CHANNEL_CLOSE, EOF and a timeout all end the tail normally.
TailClose == /\ pc = "tail"
             /\ ClientTakes(Cmd("CLOSE"))
             /\ Return("ok")
             /\ UNCHANGED <<local, edited, size, pos, summary, daemon>>

TailEof == /\ pc = "tail"
           /\ ClientSeesEof
           /\ Return("ok")
           /\ UNCHANGED <<chVars, local, edited, size, pos, summary, daemon>>

\* Mutants: the tail raises on a timeout, or goes on waiting.
RaiseInTail == /\ pc = "tail"
               /\ Return("timeout")
               /\ UNCHANGED <<chVars, local, edited, size, pos, summary, daemon>>
WaitInTail == pc = "tail" /\ UNCHANGED vars

TailTimeout == /\ pc = "tail"
               /\ Return("ok")
               /\ UNCHANGED <<chVars, local, edited, size, pos, summary, daemon>>

\* Before the tail they raise; a torn or reset connection raises everywhere.
RecvRaises == /\ \/ /\ pc \in {"init", "begin"}
                    /\ \/ ClientSeesEof /\ Return("server")
                       \/ Return("timeout")
                 \/ /\ pc \in {"init", "begin", "tail"}
                    /\ \/ ClientSeesTorn /\ Return("protocol")
                       \/ ClientSeesReset /\ Return("oserror")
              /\ UNCHANGED <<chVars, local, edited, size, pos, summary, daemon>>

\* What the client does while its disk serves it.
Proceeds == \/ AwaitInit \/ SendCheck \/ AwaitBegin \/ Unexpected
            \/ SendData \/ SendFinish \/ SendFails
            \/ TailFrame \/ TailClose \/ TailEof \/ TailTimeout \/ RecvRaises

Client == Proceeds \/ LocalFails
-----------------------------------------------------------------------------
(* The daemon, as the protocol-level mock of the tests plays it.            *)

\* INIT is echoed before the connect key is looked at.
DaemonStart ==
    /\ dpc = "init"
    /\ \/ /\ DaemonSays(<<Cmd("INIT")>>)
          /\ dpc' = "check"
          /\ UNCHANGED peer
       \/ /\ DaemonSays(<<Cmd("INIT"), Text("fail")>>)
          /\ dpc' = "stop"
          /\ DaemonCloses
    /\ UNCHANGED <<up, ut, dn, local, edited, client, want, chunks, remote>>

DaemonCheck == /\ dpc = "check"
               /\ ut < Len(up)
               /\ up[ut + 1].cmd = "CHECK"
               /\ DaemonHears(up[ut + 1])
               /\ want' = up[ut + 1].size
               /\ DaemonSays(<<Cmd("BEGIN")>>)
               /\ dpc' = "data"
               /\ UNCHANGED <<up, dn, peer, local, edited, client, chunks, remote>>

DaemonData == /\ dpc = "data"
              /\ ut < Len(up)
              /\ up[ut + 1].cmd = "DATA"
              /\ DaemonHears(up[ut + 1])
              /\ chunks' = [i \in DOMAIN chunks \cup {up[ut + 1].index + 1} |->
                               IF i = up[ut + 1].index + 1 THEN up[ut + 1].chunk
                               ELSE chunks[i]]
              /\ UNCHANGED <<up, down, dn, peer, local, edited, client,
                             dpc, want, remote>>

\* FINISH(1): store what was announced, refuse anything else.
DaemonFinish ==
    /\ dpc = "data"
    /\ DaemonHears(Finish(1))
    /\ \/ /\ DOMAIN chunks = 1 .. want
          /\ remote' = chunks
          /\ dpc' = "report"
          /\ UNCHANGED <<down, peer>>
       \/ /\ DOMAIN chunks # 1 .. want
          /\ DaemonSays(<<Text("fail")>>)
          /\ DaemonCloses
          /\ dpc' = "stop"
          /\ UNCHANGED remote
    /\ UNCHANGED <<up, dn, local, edited, client, want, chunks>>

\* The server may pass the daemon's CMD_KERNEL_CHANNEL_CLOSE on before it
\* closes the connection.
DaemonReport ==
    /\ dpc = "report"
    /\ \E close \in {<< >>, <<Cmd("CLOSE")>>} :
          DaemonSays(<<Finish(0), Text("finish")>> \o close)
    /\ DaemonCloses
    /\ dpc' = "stop"
    /\ UNCHANGED <<up, ut, dn, local, edited, client, want, chunks, remote>>

\* The daemon's branches for a frame out of the protocol: [Fail]Unexpected
\* frame, or, where the CHECK was due, a silent close.
DaemonConfused ==
    /\ ut < Len(up)
    /\ \/ dpc = "check" /\ up[ut + 1].cmd # "CHECK"
       \/ dpc = "data" /\ up[ut + 1].cmd # "DATA" /\ up[ut + 1] # Finish(1)

\* The device cannot go on (no space, no permission): [Fail] and close.
DaemonRefuses == /\ dpc \in {"check", "data"}
                 /\ DaemonSays(<<Text("fail")>>)
                 /\ DaemonCloses
                 /\ dpc' = "stop"
                 /\ UNCHANGED <<up, ut, dn, local, edited, client,
                                want, chunks, remote>>

\* The connection is gone: what was still on its way up may never arrive.
DaemonDropped == /\ dpc \in {"init", "check", "data"}
                 /\ pc = "done" \/ peer # "open"
                 /\ DaemonCloses
                 /\ dpc' = "stop"
                 /\ UNCHANGED <<up, ut, down, dn, local, edited, client,
                                want, chunks, remote>>

Daemon == \/ DaemonStart \/ DaemonCheck \/ DaemonData \/ DaemonFinish
          \/ DaemonReport \/ DaemonRefuses \/ DaemonDropped
-----------------------------------------------------------------------------
(* The environment.                                                         *)

Disconnect == LinkLost /\ UNCHANGED <<local, edited, client, daemon>>

\* Another program rewrites the local file, once.
Edit == /\ ~ edited
        /\ edited' = TRUE
        /\ local' \in File
        /\ UNCHANGED <<chVars, client, daemon>>

Finished == /\ pc = "done"
            /\ dpc = "stop"
            /\ UNCHANGED vars

Next == Client \/ Daemon \/ Disconnect \/ Edit \/ Finished

\* The client runs, and its socket timeouts expire; nothing is asked of the
\* daemon, the server, the network or the disk.
Spec == Init /\ [][Next]_vars /\ WF_vars(Proceeds)
-----------------------------------------------------------------------------
(* Properties.                                                              *)

Frames == {Cmd("INIT"), Cmd("BEGIN"), Cmd("CLOSE"), Finish(0),
           Text("fail"), Text("finish")}

TypeOK == /\ IndicesOK
          /\ down \in Seq(Frames)
          /\ local \in File
          /\ edited \in BOOLEAN
          /\ pc \in {"init", "check", "begin", "data", "tail", "done"}
          /\ size \in 0 .. MaxFile
          /\ pos \in 0 .. MaxFile
          /\ summary \subseteq {"fail", "finish"}
          /\ result \in Results
          /\ dpc \in {"init", "check", "data", "report", "stop"}
          /\ want \in 0 .. MaxFile
          /\ DOMAIN chunks \subseteq 1 .. MaxFile
          /\ \A i \in DOMAIN chunks : chunks[i] \in Chunk
          /\ remote \in File \cup {Absent}

\* Whatever is stored on the device is what the local file held, unless
\* another program wrote to that file meanwhile: chunks are neither lost,
\* repeated nor out of place, at any speed of either side.
\* And a caller who finds the daemon's "FileTransfer finish" in the text that
\* send_file returns has the file on the device, with the size announced.
StoredIsLocal ==
    /\ remote # Absent /\ ~ edited => remote = local
    /\ result = "ok" /\ "finish" \in summary =>
           remote # Absent /\ Len(remote) = size

\* The client follows the daemon's protocol: no frame it writes ever reaches
\* the daemon's branch for unexpected frames, nor one more than the sockets
\* hold (IndicesOK, in TypeOK).
DaemonNeverConfused == TypeOK /\ ~ DaemonConfused

\* send_file implements AbsSend: the device file appears in one step, and not
\* after the caller was told that the transfer was refused.
Abs == INSTANCE AbsSend WITH outcome <- result
AbsSpec == Abs!Spec

\* send_file returns or raises even when the daemon stops answering, or stops
\* reading with the sockets full.
SendReturns == <>(pc = "done")
=============================================================================
