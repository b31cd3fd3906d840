--------------------------- MODULE ServerLifecycle ---------------------------
(***************************************************************************)
(* HdcClient and the hdc server process (hdcutils/core.py, _server.py): the *)
(* liveness cache in front of every command, the auto-pullup of an absent   *)
(* server, kill by PID file, and several clients doing so at once.          *)
(*                                                                          *)
(* Clients share the machine: its processes, the one port they connect to,  *)
(* and $TMPDIR/.HDCServer.pid.  The server's own mutex allows one hdc       *)
(* server on the machine, whatever its port.  Nothing removes the PID file  *)
(* of a server that was killed, and the system may give its PID away.       *)
(* A client may also be given another machine's server as its host; then    *)
(* only its probes and commands go there: what it starts or kills is here.  *)
(*                                                                          *)
(* Time is counted in ticks; a client's cache is the number of ticks its    *)
(* _server_ok_until still lies ahead.                                       *)
(***************************************************************************)
EXTENDS Naturals

CONSTANTS Clients,    \* HdcClient objects, used by one thread each
          Pids,       \* process identifiers that matter
          NoPid,      \* an empty or absent PID file
          Live        \* SERVER_LIVE_CACHE, in ticks

ASSUME LifecycleAssumption == NoPid \notin Pids /\ Live \in Nat \ {0}

VARIABLES proc,       \* what runs under a PID: "server" listens on the port,
                      \* "foreign" is an hdc server on another port
          pidfile,    \* .HDCServer.pid
          far,        \* the server of the other machine listens
          remote,     \* the host of a client is that other machine
          auto,       \* auto_start of a client
          binary,     \* the client finds an hdc executable
          pc, op,     \* where the client is, and in which call
          cache,      \* ticks until _server_ok_until
          spent,      \* ticks since _ensure sampled the clock, while in it
          target,     \* the PID kill_server found
          result,     \* how the last call ended: it returned or raised
          linked,     \* the clients whose connection still has its server
          since       \* ticks since the client last saw the server, or since the
                      \* response to a command that had reached it ended (history)

machine == <<proc, pidfile, far>>
config  == <<remote, auto, binary>>
sight   == <<linked, since>>
vars    == <<machine, config, pc, op, cache, spent, target, result, sight>>

\* Commands that end by their own timeouts, and those that wait for ever.
Commands == {"command", "stream"}

Kinds == {"free", "server", "foreign", "other"}

Listening  == \E p \in Pids : proc[p] = "server"
Answers(c) == IF remote[c] THEN far ELSE Listening
ServerRuns == \E p \in Pids : proc[p] \in {"server", "foreign"}
Alive(p)   == proc[p] # "free"
Running    == {p \in Pids : Alive(p)}

Init == /\ proc \in {f \in [Pids -> {"free", "server"}] :
                        \A p, q \in Pids : f[p] = "server" /\ f[q] = "server" => p = q}
        /\ pidfile \in {NoPid} \cup {p \in Pids : proc[p] = "server"}
        /\ far \in BOOLEAN
        /\ remote \in [Clients -> BOOLEAN]
        /\ far => \E c \in Clients : remote[c]
        /\ auto \in [Clients -> BOOLEAN]
        /\ binary \in [Clients -> BOOLEAN]
        /\ pc = [c \in Clients |-> "idle"]
        /\ op = [c \in Clients |-> "none"]
        /\ cache = [c \in Clients |-> 0]
        /\ spent = [c \in Clients |-> 0]
        /\ target = [c \in Clients |-> NoPid]
        /\ result = [c \in Clients |-> "none"]
        /\ linked = {}
        /\ since = [c \in Clients |-> Live + 1]

Goto(c, l)   == pc' = [pc EXCEPT ![c] = l]
Return(c, r) == /\ Goto(c, "idle")
                /\ op' = [op EXCEPT ![c] = "none"]
                /\ target' = [target EXCEPT ![c] = NoPid]
                /\ result' = [result EXCEPT ![c] = r]
Saw(c)       == since' = [since EXCEPT ![c] = 0]

\* Process p is no more: the connections to the server it was have lost it.
Widows(p) == IF proc[p] = "server" THEN {c \in Clients : ~ remote[c]} ELSE {}
-----------------------------------------------------------------------------
(* A command: _ensure, then one connection.                                 *)

\* Mutant: the cache still counts in the tick in which it runs out.
LenientBegin(c, o) ==
    /\ pc[c] = "idle"
    /\ op' = [op EXCEPT ![c] = o]
    /\ spent' = [spent EXCEPT ![c] = 0]
    /\ result' = [result EXCEPT ![c] = "none"]
    /\ Goto(c, IF cache[c] > 0 \/ since[c] = Live THEN "exec" ELSE "probe")
    /\ UNCHANGED <<machine, config, cache, target, sight>>

\* _ensure samples the clock, and looks no further while the cache holds.
Begin(c, o) ==
    /\ pc[c] = "idle"
    /\ op' = [op EXCEPT ![c] = o]
    /\ spent' = [spent EXCEPT ![c] = 0]
    /\ result' = [result EXCEPT ![c] = "none"]
    /\ Goto(c, IF cache[c] > 0 THEN "exec" ELSE "probe")
    /\ UNCHANGED <<machine, config, cache, target, sight>>

Command(c) == \E o \in Commands : Begin(c, o)

\* _server_ok_until = now + SERVER_LIVE_CACHE, with the clock sampled above,
\* and the command goes on to connect.
Trust(c) == /\ cache' = [cache EXCEPT ![c] = IF spent[c] < Live
                                             THEN Live - spent[c] ELSE 0]
            /\ IF Answers(c) THEN Saw(c) ELSE UNCHANGED since
            /\ spent' = [spent EXCEPT ![c] = 0]
            /\ Goto(c, "exec")
            /\ UNCHANGED <<machine, config, op, target, result, linked>>

\* Onward without a sighting of the server.
Onward(c, l) == /\ Goto(c, l)
                /\ UNCHANGED <<machine, config, op, cache, spent, target,
                               result, sight>>

\* An HdcError, or an exception that is none ("escaped").
Raise(c, e) == /\ Return(c, e)
               /\ linked' = linked \ {c}
               /\ UNCHANGED <<machine, config, cache, spent, since>>

\* probe_server: the port answers; or a client without auto_start goes on all
\* the same; or ensure_server is called.
Probe(c) == /\ pc[c] = "probe"
            /\ \/ Answers(c) /\ Trust(c)
               \/ ~ Answers(c) /\ Onward(c, IF auto[c] THEN "ensure" ELSE "exec")

\* ensure_server probes again, and needs a binary when the port is silent.
Ensure(c) == /\ pc[c] = "ensure"
             /\ \/ Answers(c) /\ Trust(c)
                \/ ~ Answers(c) /\ binary[c] /\ Onward(c, "start")
                \/ ~ Answers(c) /\ ~ binary[c] /\ Raise(c, "error")

\* start_server runs "hdc list targets", which pulls a server up unless some
\* hdc server is there already, or does not; it may also hang, and
\* subprocess.TimeoutExpired is no HdcError.
Start(c) ==
    /\ pc[c] = "start"
    /\ \/ /\ ~ ServerRuns
          /\ \E p \in Pids : /\ proc[p] = "free"
                             /\ proc' = [proc EXCEPT ![p] = "server"]
                             /\ pidfile' = p
          /\ Goto(c, "poll")
          /\ UNCHANGED <<far, config, op, cache, spent, target, result, sight>>
       \/ Onward(c, "poll")
       \/ Raise(c, "escaped")

\* Poll until the port of this machine answers, whatever the client's host; a
\* startup or a restart is over then.
Poll(c) ==
    /\ pc[c] = "poll"
    /\ Listening
    /\ \/ op[c] \in Commands /\ Trust(c)
       \/ /\ op[c] \in {"startup", "restart"}
          /\ Saw(c)
          /\ Return(c, "ok")
          /\ UNCHANGED <<machine, config, cache, spent, linked>>

\* Mutant: polling has no deadline.
EndlessPoll(c) == pc[c] = "poll" /\ UNCHANGED vars

\* The deadline passes: HdcServerNotRunning.
PollTimeout(c) == pc[c] = "poll" /\ Raise(c, "error")

\* The server accepts the connection, answers the handshake and is sent the
\* command.
Accepted(c) == /\ Answers(c)
               /\ Goto(c, "open")
               /\ Saw(c)
               /\ linked' = linked \cup {c}
               /\ UNCHANGED <<machine, config, op, cache, spent, target, result>>

\* Mutant: the cache is refreshed by every command, failed or not.
EagerConnect(c) ==
    /\ pc[c] = "exec"
    /\ \/ Accepted(c)
       \/ /\ Return(c, "error")
          /\ cache' = [cache EXCEPT ![c] = Live]
          /\ UNCHANGED <<machine, config, spent, sight>>

\* Nobody listens, or the handshake fails: an error, which leaves the cache
\* alone.
Connect(c) ==
    /\ pc[c] = "exec"
    /\ \/ Accepted(c)
       \/ \E e \in {"error", "escaped"} : Raise(c, e)

\* A response ends when the server closes the connection, and also when nothing
\* more is heard: the end of the stream of a server that died, or a quiet idle
\* window.  _execute takes each for success and refreshes the cache by the clock
\* of that moment, before it raises on a reply that reports a failure;
\* stream_command and the transfers leave the cache alone.
Finish(c) ==
    /\ pc[c] = "open"
    /\ \E r \in {"ok", "error"} : Return(c, r)
    /\ since' = [since EXCEPT ![c] = 0]
    /\ \/ cache' = [cache EXCEPT ![c] = Live]
       \/ op[c] = "stream" /\ UNCHANGED cache
    /\ linked' = linked \ {c}
    /\ UNCHANGED <<machine, config, spent>>

\* The connection is reset, or a read of it times out.
Fail(c) == pc[c] = "open" /\ \E e \in {"error", "escaped"} : Raise(c, e)
-----------------------------------------------------------------------------
(* start_server, kill_server and restart_server.                            *)

\* HdcClient.start_server, which asks for a binary and probes nothing first.
StartServer(c) ==
    /\ pc[c] = "idle"
    /\ \/ /\ binary[c]
          /\ op' = [op EXCEPT ![c] = "startup"]
          /\ result' = [result EXCEPT ![c] = "none"]
          /\ Goto(c, "start")
       \/ /\ ~ binary[c]
          /\ result' = [result EXCEPT ![c] = "error"]
          /\ UNCHANGED <<pc, op>>
    /\ UNCHANGED <<machine, config, cache, spent, target, sight>>

Kill(c) ==
    /\ pc[c] = "idle"
    /\ \E o \in {"kill", "restart"} : op' = [op EXCEPT ![c] = o]
    /\ result' = [result EXCEPT ![c] = "none"]
    /\ Goto(c, "find")
    /\ UNCHANGED <<machine, config, cache, spent, target, sight>>

\* kill_server is over: a restart swallows its HdcError and starts a server.
KillDone(c, r) ==
    \/ op[c] = "kill" /\ Return(c, r)
    \/ op[c] = "restart" /\ ~ binary[c] /\ Return(c, "error")
    \/ /\ op[c] = "restart" /\ binary[c]
       /\ Goto(c, "start")
       /\ target' = [target EXCEPT ![c] = NoPid]
       /\ UNCHANGED <<op, result>>

\* _pid_listening_on: netstat, ss, lsof and /proc name the process behind the
\* port, unless they are missing or may not show it.
Owners == {{p \in Pids : proc[p] = "server"}, {}}

\* find_server_pid: the PID file if its process is alive, else whoever is found
\* to listen on the port, else nobody.
Found == IF pidfile \in Running THEN {{pidfile}} ELSE Owners

Find(c) ==
    /\ pc[c] = "find"
    /\ \E found \in Found :
          \/ /\ \E p \in found : target' = [target EXCEPT ![c] = p]
             /\ Goto(c, "send")
             /\ UNCHANGED <<op, result>>
          \/ found = {} /\ KillDone(c, "ok")
    /\ UNCHANGED <<machine, config, cache, spent, sight>>

\* os.kill(pid, 9), at whoever has the PID by now: the process goes at once, or
\* later (Exit); or the system refuses, as nobody or somebody else's program
\* has the PID.
Send(c) ==
    /\ pc[c] = "send"
    /\ \/ /\ Alive(target[c])
          /\ \/ UNCHANGED <<proc, linked>>
             \/ /\ proc' = [proc EXCEPT ![target[c]] = "free"]
                /\ linked' = linked \ Widows(target[c])
          /\ Goto(c, "wait")
          /\ UNCHANGED <<op, target, result>>
       \/ KillDone(c, "error") /\ UNCHANGED <<proc, linked>>
    /\ UNCHANGED <<pidfile, far, config, cache, spent, since>>

\* Poll until the PID is free, or until the timeout: both return normally.
Wait(c) ==
    /\ pc[c] = "wait"
    /\ KillDone(c, "ok")
    /\ UNCHANGED <<machine, config, cache, spent, sight>>

Step(c) == \/ Command(c) \/ Probe(c) \/ Ensure(c) \/ Start(c) \/ Poll(c)
           \/ PollTimeout(c) \/ Connect(c) \/ Finish(c) \/ Fail(c)
           \/ StartServer(c) \/ Kill(c) \/ Find(c) \/ Send(c) \/ Wait(c)
-----------------------------------------------------------------------------
(* The machine.                                                             *)

\* A killed process goes, or a process ends by itself.
Exit(p) == /\ Alive(p)
           /\ proc' = [proc EXCEPT ![p] = "free"]
           /\ linked' = linked \ Widows(p)
           /\ UNCHANGED <<pidfile, far, config, pc, op, cache, spent, target,
                          result, since>>

\* A free PID is given to a program that has nothing to do with hdc.
Reuse(p) == /\ proc[p] = "free"
            /\ proc' = [proc EXCEPT ![p] = "other"]
            /\ UNCHANGED <<pidfile, far, config, pc, op, cache, spent,
                           target, result, sight>>

\* Somebody else starts an hdc server, on the clients' port or on another.
Foreign(p) == /\ proc[p] = "free"
              /\ ~ ServerRuns
              /\ \E k \in {"server", "foreign"} : proc' = [proc EXCEPT ![p] = k]
              /\ pidfile' = p
              /\ UNCHANGED <<far, config, pc, op, cache, spent, target,
                             result, sight>>

\* The server of the other machine comes and goes (if a client was given it).
FarChanges == /\ \E c \in Clients : remote[c]
              /\ far' = ~ far
              /\ linked' = {c \in linked : far => ~ remote[c]}
              /\ UNCHANGED <<proc, pidfile, config, pc, op, cache, spent, target,
                             result, since>>

Ensuring == {"probe", "ensure", "start", "poll"}

Tick == /\ cache' = [c \in Clients |-> IF cache[c] > 0 THEN cache[c] - 1 ELSE 0]
        /\ spent' = [c \in Clients |->
                        IF pc[c] \notin Ensuring THEN 0
                        ELSE IF spent[c] < Live THEN spent[c] + 1 ELSE Live]
        /\ since' = [c \in Clients |-> IF since[c] <= Live THEN since[c] + 1
                                       ELSE Live + 1]
        /\ UNCHANGED <<machine, config, pc, op, target, result, linked>>

World == (\E p \in Pids : Exit(p) \/ Reuse(p) \/ Foreign(p)) \/ FarChanges

Next == (\E c \in Clients : Step(c)) \/ World \/ Tick

\* A shell without a timeout waits for its server for ever.
Endless(c) == pc[c] = "open" /\ op[c] = "stream"

\* Time passes and every call that was begun goes on, but for such a shell;
\* nobody has to begin one, and no process has to start or to end.
Spec == /\ Init /\ [][Next]_vars
        /\ WF_vars(Tick)
        /\ \A c \in Clients : WF_vars(pc[c] # "idle" /\ ~ Endless(c) /\ Step(c))
-----------------------------------------------------------------------------
(* Properties.                                                              *)

Labels == {"idle", "probe", "ensure", "start", "poll", "exec",
           "open", "find", "send", "wait"}

TypeOK == /\ proc \in [Pids -> Kinds]
          /\ pidfile \in Pids \cup {NoPid}
          /\ far \in BOOLEAN
          /\ remote \in [Clients -> BOOLEAN]
          /\ auto \in [Clients -> BOOLEAN]
          /\ binary \in [Clients -> BOOLEAN]
          /\ pc \in [Clients -> Labels]
          /\ op \in [Clients -> Commands \cup {"none", "startup", "kill", "restart"}]
          /\ cache \in [Clients -> 0 .. Live]
          /\ spent \in [Clients -> 0 .. Live]
          /\ target \in [Clients -> Pids \cup {NoPid}]
          /\ result \in [Clients -> {"none", "ok", "error", "escaped"}]
          /\ linked \subseteq Clients
          /\ since \in [Clients -> 0 .. Live + 1]

\* start_server polls 127.0.0.1: a client of another machine's server with
\* auto_start takes the server it starts here for the one it was given.
Mistaken(c) == remote[c] /\ auto[c] /\ binary[c]

\* The liveness cache never outlives the evidence, however long probing, pulling
\* up or the command took: a client trusts the server for at most
\* SERVER_LIVE_CACHE after it last saw it answer, or after the response ended to a
\* command that had reached it, even if the server was gone by then.  No command
\* that was refused, broken off or timed out prolongs that.
CacheIsEvidence ==
    TypeOK /\ \A c \in Clients :
        cache[c] > 0 /\ ~ Mistaken(c) => cache[c] + since[c] <= Live

\* A client with auto_start connects only if it has seen the server, or had a
\* response end, less than SERVER_LIVE_CACHE ago:
\* no path through _ensure goes on without looking, or with an entry that has
\* just run out.
ConnectsOnEvidence ==
    [][\A c \in Clients :
          (auto[c] /\ ~ Mistaken(c) /\ pc[c] # "exec" /\ pc'[c] = "exec")
              => since'[c] < Live]_vars

\* A client that trusts a dead server stops doing so, even if its commands
\* keep failing all the time: after that it probes and pulls a server up.
StaleTrustEnds ==
    \A c \in Clients : (cache[c] > 0 /\ ~ Answers(c))
                           ~> (cache[c] = 0 \/ Answers(c))
=============================================================================
