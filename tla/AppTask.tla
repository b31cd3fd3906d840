------------------------------ MODULE AppTask ------------------------------
(***************************************************************************)
(* AppTask of hdcutils/_task.py, with the daemon the tests play.            *)
(*                                                                          *)
(*     install                               daemon                         *)
(*                        <-- APP_INIT                                      *)
(*     getsize, CHECK(n)  -->                                               *)
(*                        <-- APP_BEGIN                                     *)
(*     DATA ...           -->                bm install after n chunks      *)
(*                        <-- APP_FINISH(ok, message), texts, close         *)
(*                                                                          *)
(* There is no FINISH from the client: the two sides agree on the end of    *)
(* the data only through the size.  The content of the chunks plays no part *)
(* and is left out; the package file belongs to other programs too.         *)
(*                                                                          *)
(* uninstall sends its command alone.  What comes back until the channel    *)
(* ends, texts and APP_FINISH frames in any order, is joined to one text,   *)
(* in which HdcDevice.uninstall looks for a failure.                        *)
(***************************************************************************)
EXTENDS TaskChannel

CONSTANTS MaxFile,   \* chunks in the longest package
          MaxEchoes  \* bound: frames of the daemon before its last word

ASSUME AppAssumption == MaxFile \in Nat /\ MaxEchoes \in Nat

VARIABLES op,         \* "install" or "uninstall"
          pkg,        \* chunks in the local package file
          edited,     \* another program has rewritten it
          pc,         \* where the client is
          size,       \* os.path.getsize, as sent in CMD_APP_CHECK
          pos,        \* chunks read and sent
          success,    \* "unknown" (None) or the verdict of APP_FINISH
          lines,      \* the lines uninstall has collected
          result,     \* how the call ended
          dpc,        \* where the daemon is
          want, got,  \* chunks the daemon was told of, and holds
          bm          \* the bundle manager: "pending", "done" or "failed"

local  == <<op, pkg, edited>>
flow   == <<size, pos, success, lines>>
client == <<pc, flow, result>>
daemon == <<dpc, want, got, bm>>
vars   == <<chVars, local, client, daemon>>

Cmd(c)     == [cmd |-> c]
Check(n)   == [cmd |-> "CHECK", size |-> n]
Verdict(b) == [cmd |-> "FINISH", ok |-> b]
Text(t)    == [cmd |-> "TEXT", text |-> t]

Init == /\ ChannelInit
        /\ \/ op = "install" /\ pkg \in 0 .. MaxFile /\ pc = "init"
           \/ op = "uninstall" /\ pkg = 0 /\ pc = "collect"
        /\ edited = FALSE
        /\ size = 0 /\ pos = 0 /\ success = "unknown" /\ lines = << >>
        /\ result = "none"
        /\ dpc = "init" /\ want = 0 /\ got = 0 /\ bm = "pending"

Return(r)  == pc' = "done" /\ result' = r
Arrived(c) == dn < Len(down) /\ down[dn + 1].cmd = c
Frame      == down[dn + 1]
-----------------------------------------------------------------------------
(* The client: _install_flow.                                               *)

\* Mutant: file_size keeps its default in the TransferConfig.
UnsizedInit == /\ pc = "init" /\ Arrived("INIT") /\ ClientTakes(Frame)
               /\ size' = 0
               /\ pc' = "check"
               /\ UNCHANGED <<local, pos, success, lines, result, daemon>>

AwaitInit == /\ pc = "init" /\ Arrived("INIT") /\ ClientTakes(Frame)
             /\ size' = pkg
             /\ pc' = "check"
             /\ UNCHANGED <<local, pos, success, lines, result, daemon>>

SendCheck == /\ pc = "check"
             /\ ClientSends(Check(size))
             /\ pc' = "begin"
             /\ UNCHANGED <<local, flow, result, daemon>>

AwaitBegin == /\ pc = "begin" /\ Arrived("BEGIN") /\ ClientTakes(Frame)
              /\ pc' = "data"
              /\ UNCHANGED <<local, flow, result, daemon>>

\* Any other frame is _task_error, the [Fail] text included.
Unexpected == /\ \/ pc = "init" /\ ~ Arrived("INIT")
                 \/ pc = "begin" /\ ~ Arrived("BEGIN")
              /\ dn < Len(down) /\ ClientTakes(Frame)
              /\ Return("command")
              /\ UNCHANGED <<local, flow, daemon>>

SendData == /\ pc = "data" /\ pos < pkg
            /\ ClientSends(Cmd("DATA"))
            /\ pos' = pos + 1
            /\ UNCHANGED <<local, pc, size, success, lines, result, daemon>>

DataDone == /\ pc = "data" /\ pos >= pkg
            /\ pc' = "verdict"
            /\ UNCHANGED <<chVars, local, flow, result, daemon>>

SendFails == /\ pc \in {"check", "data"} /\ SendRaises
             /\ Return("oserror")
             /\ UNCHANGED <<chVars, local, flow, daemon>>

\* Another program has removed the package, or it cannot be read: getsize for
\* the CHECK, open or a read raises.
LocalFails == /\ \/ pc = "init" /\ Arrived("INIT") /\ ClientTakes(Frame)
                 \/ pc = "data" /\ UNCHANGED chVars
              /\ Return("oserror")
              /\ UNCHANGED <<local, flow, daemon>>

\* Mutant: the mode byte is read for the ok byte.
ModeForVerdict == /\ pc = "verdict" /\ Arrived("FINISH") /\ ClientTakes(Frame)
                  /\ success' = "yes"
                  /\ UNCHANGED <<local, pc, size, pos, lines, result, daemon>>

\* APP_FINISH: the verdict is noted, and the loop goes on.
TakeVerdict == /\ pc = "verdict" /\ Arrived("FINISH") /\ ClientTakes(Frame)
               /\ success' = IF Frame.ok THEN "yes" ELSE "no"
               /\ UNCHANGED <<local, pc, size, pos, lines, result, daemon>>

\* Mutant: no verdict counts as a failure.
StrictConclude == Return(IF success = "yes" THEN "ok" ELSE "command")

\* Past the loop: only an explicit failure raises.
Conclude == Return(IF success = "no" THEN "command" ELSE "ok")

\* A [Fail] text raises, the text "AppMod finish" ends the loop.
TakeText == /\ pc = "verdict" /\ Arrived("TEXT") /\ ClientTakes(Frame)
            /\ \/ Frame.text = "[Fail]" /\ Return("command")
               \/ Frame.text = "AppMod finish" /\ Conclude
               \/ Frame.text = "info" /\ UNCHANGED <<pc, result>>
            /\ UNCHANGED <<local, flow, daemon>>

\* Other frames have no branch.
PassOver == /\ pc = "verdict" /\ Arrived("CLOSE") /\ ClientTakes(Frame)
            /\ UNCHANGED <<local, client, daemon>>

TakeEof == /\ pc = "verdict" /\ ClientSeesEof
           /\ Conclude
           /\ UNCHANGED <<chVars, local, flow, daemon>>

Install == \/ AwaitInit \/ SendCheck \/ AwaitBegin \/ Unexpected \/ SendData
           \/ DataDone \/ SendFails \/ TakeVerdict \/ TakeText \/ PassOver
           \/ TakeEof
-----------------------------------------------------------------------------
(* The client: _plain_result, and the judgement of HdcDevice.uninstall.     *)

\* APP_FINISH becomes a line that begins with OK or FAIL.
Line(m) == IF m.cmd = "FINISH" THEN IF m.ok THEN "OK" ELSE "FAIL" ELSE m.text

Collect == /\ pc = "collect"
           /\ dn < Len(down) /\ Frame.cmd # "CLOSE" /\ ClientTakes(Frame)
           /\ lines' = Append(lines, Line(Frame))
           /\ UNCHANGED <<local, pc, size, pos, success, result, daemon>>

\* "[Fail]" anywhere in the joined text, or FAIL at its beginning.
ReportsFailure == \/ \E i \in 1 .. Len(lines) : lines[i] = "[Fail]"
                  \/ lines # << >> /\ lines[1] = "FAIL"

\* CMD_KERNEL_CHANNEL_CLOSE and EOF end the loop.
Judge == /\ pc = "collect"
         /\ \/ Arrived("CLOSE") /\ ClientTakes(Frame)
            \/ ClientSeesEof /\ UNCHANGED chVars
         /\ Return(IF ReportsFailure THEN "command" ELSE "ok")
         /\ UNCHANGED <<local, flow, daemon>>

\* Mutant: the verdict is waited for without a timeout.
PatientRaises == /\ \/ pc \in {"init", "begin"} /\ ClientSeesEof /\ Return("server")
                    \/ /\ pc \in {"init", "begin", "verdict", "collect"}
                       /\ \/ pc # "verdict" /\ Return("timeout")
                          \/ ClientSeesTorn /\ Return("protocol")
                          \/ ClientSeesReset /\ Return("oserror")
                 /\ UNCHANGED <<chVars, local, flow, daemon>>

RecvRaises == /\ \/ pc \in {"init", "begin"} /\ ClientSeesEof /\ Return("server")
                 \/ /\ pc \in {"init", "begin", "verdict", "collect"}
                    /\ \/ Return("timeout")
                       \/ ClientSeesTorn /\ Return("protocol")
                       \/ ClientSeesReset /\ Return("oserror")
              /\ UNCHANGED <<chVars, local, flow, daemon>>

\* What the client does while its disk serves it.
Proceeds == Install \/ Collect \/ Judge \/ RecvRaises

Client == Proceeds \/ LocalFails
-----------------------------------------------------------------------------
(* The daemon, as the protocol-level mock of the tests plays it.            *)

\* A last word, and the connection is closed.
DaemonEnds(ms) == /\ DaemonSays(ms)
                  /\ DaemonCloses
                  /\ dpc' = "stop"

DaemonStart ==
    /\ dpc = "init" /\ op = "install"
    /\ \/ DaemonSays(<<Cmd("INIT")>>) /\ dpc' = "check" /\ UNCHANGED peer
       \/ DaemonEnds(<<Cmd("INIT"), Text("[Fail]")>>)
    /\ UNCHANGED <<up, ut, dn, local, client, want, got, bm>>

DaemonCheck == /\ dpc = "check"
               /\ ut < Len(up) /\ up[ut + 1].cmd = "CHECK" /\ DaemonHears(up[ut + 1])
               /\ want' = up[ut + 1].size
               /\ DaemonSays(<<Cmd("BEGIN")>>)
               /\ dpc' = "data"
               /\ UNCHANGED <<up, dn, peer, local, client, got, bm>>

DaemonData == /\ dpc = "data" /\ got < want
              /\ DaemonHears(Cmd("DATA"))
              /\ got' = got + 1
              /\ UNCHANGED <<up, down, dn, peer, local, client, dpc, want, bm>>

\* All announced data is here, or there is none to wait for: bm install or
\* bm uninstall, which succeeds or does not.
DaemonRuns == /\ \/ dpc = "data" /\ got = want
                 \/ dpc = "init" /\ op = "uninstall"
              /\ bm' \in {"done", "failed"}
              /\ dpc' = "report"
              /\ UNCHANGED <<chVars, local, client, want, got>>

\* The device says something before its verdict, perhaps that it is through.
DaemonEchoes == /\ dpc = "report" /\ Len(down) < MaxEchoes
                /\ \E t \in {"info", "AppMod finish"} : DaemonSays(<<Text(t)>>)
                /\ UNCHANGED <<up, ut, dn, peer, local, client, daemon>>

\* The verdict as APP_FINISH, and of an uninstall perhaps as a text alone;
\* texts after it, close.
DaemonReport ==
    /\ dpc = "report"
    /\ LET ok   == bm = "done"
           told == <<Text(IF ok THEN "AppMod finish" ELSE "[Fail]")>>
       IN  \E close \in {<< >>, <<Cmd("CLOSE")>>} :
              \/ DaemonEnds(<<Verdict(ok)>> \o close)
              \/ op = "install" /\ DaemonEnds(<<Verdict(ok), Text("AppMod finish")>> \o close)
              \/ op = "uninstall" /\ DaemonEnds(<<Verdict(ok)>> \o told \o close)
              \/ op = "uninstall" /\ DaemonEnds(told \o close)
    /\ UNCHANGED <<up, ut, dn, local, client, want, got, bm>>

\* The server refuses the command, or the device cannot go on.
DaemonRefuses == /\ dpc \in {"check", "data"} \/ (dpc = "init" /\ op = "uninstall")
                 /\ DaemonEnds(<<Text("[Fail]")>>)
                 /\ UNCHANGED <<up, ut, dn, local, client, want, got, bm>>

\* The connection is gone.
DaemonDropped == /\ dpc \in {"check", "data"} \/ (dpc = "init" /\ op = "install")
                 /\ pc = "done" \/ peer # "open"
                 /\ DaemonCloses
                 /\ dpc' = "stop"
                 /\ UNCHANGED <<up, ut, down, dn, local, client, want, got, bm>>

Daemon == \/ DaemonStart \/ DaemonCheck \/ DaemonData \/ DaemonRuns
          \/ DaemonEchoes \/ DaemonReport \/ DaemonRefuses \/ DaemonDropped

Disconnect == LinkLost /\ UNCHANGED <<local, client, daemon>>

Edit == /\ op = "install" /\ ~ edited
        /\ edited' = TRUE
        /\ pkg' \in 0 .. MaxFile
        /\ UNCHANGED <<chVars, op, client, daemon>>

Finished == pc = "done" /\ dpc = "stop" /\ UNCHANGED vars

Next == Client \/ Daemon \/ Disconnect \/ Edit \/ Finished

\* The client runs, and its socket timeouts expire; nothing is asked of the
\* daemon, the server, the network or the disk.
Spec == Init /\ [][Next]_vars /\ WF_vars(Proceeds)
-----------------------------------------------------------------------------
(* Properties.                                                              *)

TypeOK == /\ IndicesOK
          /\ pkg \in 0 .. MaxFile /\ edited \in BOOLEAN
          /\ pc \in {"init", "check", "begin", "data", "verdict", "collect", "done"}
          /\ size \in 0 .. MaxFile /\ pos \in 0 .. MaxFile
          /\ success \in {"unknown", "yes", "no"}
          /\ lines \in Seq({"OK", "FAIL", "[Fail]", "info", "AppMod finish"})
          /\ result \in {"none", "ok", "server", "command", "timeout", "protocol",
                         "oserror"}
          /\ dpc \in {"init", "check", "data", "report", "stop"}
          /\ want \in 0 .. MaxFile /\ got \in 0 .. want
          /\ bm \in {"pending", "done", "failed"}

\* No part of a package is ever installed: unless another program writes to
\* the package file, bm install runs on all of its chunks.  (TypeOK: the daemon
\* never has more of it than was announced.)
InstalledIsWhole ==
    TypeOK /\ ((op = "install" /\ bm # "pending" /\ ~ edited) => got = pkg)

\* HdcCommandError is final: the package is not installed, the bundle is still
\* there, and neither will change, whatever the texts said and in what order.
\* (A timeout or an OSError leaves that open.)
CommandErrorMeansNotDone == result = "command" => bm # "done"

\* install and uninstall implement AbsApp: the bundle manager runs once at most
\* and not after a command error, which is never raised of what was done, and
\* the call ends once.
Abs == INSTANCE AbsApp WITH bundle <- bm, outcome <- result
AbsSpec == Abs!Spec

\* The client's reading ended: at the end of the stream, or at a frame that
\* stops the loop.
ReadingEnded == \/ dn = Len(down) /\ peer # "open"
                \/ dn > 0 /\ down[dn] \in {Text("AppMod finish"), Cmd("CLOSE")}

\* A call that returns normally though the bundle manager has not done what
\* was asked has lost the failure in one of two ways, and in no other.  The
\* reading ended before any failure came: the connection was closed first, or
\* install took "AppMod finish" first and breaks there with success None.  Or
\* uninstall read APP_FINISH with ok = 0, but not as the first of its lines:
\* HdcDevice.uninstall looks for FAIL at the beginning of the joined text only.
\* A [Fail] text is heeded wherever it comes, and install heeds every
\* APP_FINISH it takes.
VerdictHeeded ==
    (result = "ok" /\ bm # "done") =>
       LET heard == {down[i] : i \in 1 .. dn}
       IN  /\ Text("[Fail]") \notin heard
           /\ \/ Verdict(FALSE) \notin heard /\ ReadingEnded
              \/ /\ op = "uninstall" /\ Verdict(FALSE) \in heard
                 /\ down[1] # Verdict(FALSE)

\* install and uninstall return or raise, even when both sides wait for the
\* other: the daemon for data of a file that has shrunk, the client for a
\* verdict.
AppTaskReturns == <>(pc = "done")

\* "Install a local .hap/.hsp/.app package; raises on failure" (_task.py,
\* AppTask.install):
\* an install that returns has installed.
OkMeansInstalled == (op = "install" /\ result = "ok") => bm = "done"
=============================================================================
