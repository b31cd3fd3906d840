----------------------------- MODULE DeviceFiles -----------------------------
(***************************************************************************)
(* The operations of HdcDevice that take several commands on the device's   *)
(* files (hdcutils/_device.py): screenshot_data, pull_dir and send_dir, by  *)
(* several threads at once, beside other programs on the device.            *)
(*                                                                          *)
(* Every command is a connection of its own, and hdc reports no exit code:  *)
(* all a caller sees is the text.  A shell stream whose server dies ends    *)
(* like one that is complete (Command.tla, OkIsWhole), so its text may be   *)
(* cut anywhere; a command may also raise whether or not the device carried *)
(* it out, and go on after its client has left.                             *)
(***************************************************************************)
EXTENDS Naturals

CONSTANTS Threads,    \* threads that use the device
          Names,      \* temporary names: process id and milliseconds mod 100000
          NoName,
          Files       \* files under one directory, here and on the device

ASSUME NamesAssumption == NoName \notin Names

Tools == 2            \* snapshot_display and uitest screenCap

VARIABLES shots,      \* temporary names under which the device has a file
          fresh,      \* of each: the threads whose call is older than its picture
          tools,      \* names that a tool without a client may still write
          lost,       \* names under which a capture left a file (history)
          dir,        \* the files in the directory on the device
          me          \* each thread's call

shotfiles == <<shots, fresh, tools, lost>>
vars      == <<shotfiles, dir, me>>

\* A thread between two calls; the fields of a screenshot (name, tools to try,
\* picture read), of a transfer (files to go, files it counts), and history: the
\* tool's stream was cut, the name was in use, the files the call owes its
\* caller: all it was asked for but those an accident has excused.
Rest(l) == [pc |-> l, name |-> NoName, tries |-> 0, got |-> "none",
            list |-> {}, done |-> {},
            cut |-> FALSE, usurped |-> FALSE, owed |-> {}]

Init == /\ shots = {} /\ fresh = [n \in Names |-> {}]
        /\ tools = {} /\ lost = {}
        /\ dir \in SUBSET Files
        /\ me = [t \in Threads |-> Rest("ok")]

At(t, l)     == me[t].pc = l
Idle(t)      == me[t].pc \in {"ok", "error"}
Return(t, l) == me' = [me EXCEPT ![t] = Rest(l)]
Goto(t, l)   == me' = [me EXCEPT ![t].pc = l]
InUse(n)     == \E t \in Threads : me[t].name = n
-----------------------------------------------------------------------------
(* screenshot_data: a tool writes the picture, read_file fetches it, rm.    *)

ScreenshotData(t) ==
    /\ Idle(t)
    /\ \E n \in Names :
          me' = [me EXCEPT ![t] = [Rest("tool") EXCEPT
                   !.name = n, !.tries = Tools,
                   !.usurped = InUse(n) \/ n \in lost]]
    /\ fresh' = [n \in Names |-> fresh[n] \ {t}]
    /\ UNCHANGED <<shots, tools, lost, dir>>

\* The picture of a name is taken, now.
Taken(n) == /\ shots' = shots \cup {n}
            /\ fresh' = [fresh EXCEPT ![n] = Threads]

\* The tool of a call that no longer waits for it is killed, or runs on.
LetGo(t) == tools' \in {tools, tools \cup {me[t].name}}

\* The tool writes the file and its text tells of no error.
ToolWrites(t) == /\ At(t, "tool")
                 /\ Taken(me[t].name)
                 /\ Goto(t, "read")
                 /\ UNCHANGED <<tools, lost, dir>>

\* The call raises, and removes nothing.
Abandon(t) == /\ Return(t, "error")
              /\ lost' = lost \cup {me[t].name}
              /\ UNCHANGED <<shots, fresh, dir>>

\* The next tool, or HdcCommandError after the last.
NextTool(t) == \/ /\ me[t].tries > 1
                  /\ me' = [me EXCEPT ![t].pc = "tool", ![t].tries = @ - 1]
                  /\ UNCHANGED <<shots, fresh, lost, dir>>
               \/ me[t].tries = 1 /\ Abandon(t)

\* Mutant: the text is not looked at.
ToolIgnored(t) == At(t, "tool") /\ Goto(t, "read") /\ UNCHANGED <<shotfiles, dir>>

\* Its text says error, fail or not found.
ToolFails(t) == At(t, "tool") /\ NextTool(t) /\ UNCHANGED tools

\* The stream ends without a word.
ToolCut(t) == /\ At(t, "tool")
              /\ LetGo(t)
              /\ me' = [me EXCEPT ![t].pc = "read", ![t].cut = TRUE]
              /\ UNCHANGED <<shots, fresh, lost, dir>>

\* HdcError, out of time or without a connection: the next tool.  Any other
\* exception leaves the call.
ToolRaises(t) == At(t, "tool") /\ LetGo(t) /\ (NextTool(t) \/ Abandon(t))

\* read_file: the base64 text is whole; or cut where it still decodes, at its
\* very beginning at the latest; or torn, while another capture writes the file.
ReadFile(t) ==
    /\ At(t, "read")
    /\ \/ /\ me[t].name \in shots
          /\ me' = [me EXCEPT ![t].pc = "remove", ![t].got =
                      IF t \in fresh[me[t].name] THEN "fresh" ELSE "stale"]
       \/ me' = [me EXCEPT ![t].pc = "remove", ![t].got = "cut"]
    /\ UNCHANGED <<shotfiles, dir>>

\* It does not decode (an error text, a cut one), or the command raises.
ReadFails(t) == At(t, "read") /\ UNCHANGED tools /\ (NextTool(t) \/ Abandon(t))

\* Mutant: the temporary file stays.
Litter(t) == At(t, "remove") /\ Return(t, "ok") /\ UNCHANGED <<shotfiles, dir>>

\* rm; or rm does not get there: its stream ends early, or it raises, and so
\* does the call, though it has the picture.
Remove(t) ==
    /\ At(t, "remove")
    /\ \/ /\ shots' = shots \ {me[t].name}
          /\ fresh' = [fresh EXCEPT ![me[t].name] = {}]
          /\ lost' = lost \ {me[t].name}
          /\ Return(t, "ok")
       \/ /\ lost' = lost \cup {me[t].name}
          /\ \E l \in {"ok", "error"} : Return(t, l)
          /\ UNCHANGED <<shots, fresh>>
    /\ UNCHANGED <<tools, dir>>
-----------------------------------------------------------------------------
(* pull_dir: find, then recv_file for every line.                           *)

PullDir(t) == /\ Idle(t)
              /\ me' = [me EXCEPT ![t] = [Rest("find") EXCEPT !.owed = dir]]
              /\ UNCHANGED <<shotfiles, dir>>

\* The list is whole or cut, which nobody can tell; an empty one raises.  (The
\* text of a find that fails passes for a file name, which recv_file refuses:
\* Raises.)
Find(t) ==
    /\ At(t, "find")
    /\ \E files \in SUBSET dir \ {{}} :
          me' = [me EXCEPT ![t].pc = "recv", ![t].list = files,
                           ![t].owed = @ \cap files]
    /\ UNCHANGED <<shotfiles, dir>>

\* A transfer returns: its file is counted.
Transferred(r, f) == [r EXCEPT !.list = @ \ {f}, !.done = @ \cup {f}]
\* It returned although the file is not there, or not all of it.
CutShort(r, f)    == [Transferred(r, f) EXCEPT !.owed = @ \ {f}]

\* recv_file stores the file; or the connection ends early, and recv_file
\* returns with what there is (FileRecv.tla).
RecvFile(t) == /\ At(t, "recv")
               /\ \E f \in me[t].list :
                     \/ f \in dir /\ me' = [me EXCEPT ![t] = Transferred(@, f)]
                     \/ me' = [me EXCEPT ![t] = CutShort(@, f)]
               /\ UNCHANGED <<shotfiles, dir>>

\* Mutant: the loop passes over a file that cannot be transferred.
PassOver(t) == /\ me[t].pc \in {"recv", "send"}
               /\ \E f \in me[t].list : me' = [me EXCEPT ![t].list = @ \ {f}]
               /\ UNCHANGED <<shotfiles, dir>>

\* A command raises: the call ends there, with what it has done so far.
Raises(t) == /\ me[t].pc \in {"find", "recv", "send"}
             /\ Return(t, "error")
             /\ UNCHANGED <<shotfiles, dir>>

Complete(t) == /\ me[t].pc \in {"recv", "send"}
               /\ me[t].list = {}
               /\ Return(t, "ok")
               /\ UNCHANGED <<shotfiles, dir>>
-----------------------------------------------------------------------------
(* send_dir: mkdir -p, then send_file for every file of the walk.           *)

\* mkdir may fail, and nobody reads its text: then every send raises.  os.walk
\* passes over a directory that it may not read, or that has gone, without a
\* word, and does not follow a link to one.
SendDir(t) == /\ Idle(t)
              /\ \E files \in SUBSET Files :
                    me' = [me EXCEPT ![t] = [Rest("send") EXCEPT !.list = files,
                                                                 !.owed = files]]
              /\ UNCHANGED <<shotfiles, dir>>

\* send_file stores the file; or it gives up waiting for the summary, and
\* returns though nothing is stored (FileSend.tla); or it raises, though the
\* file was stored.
SendFile(t) ==
    /\ At(t, "send")
    /\ \E f \in me[t].list :
          \/ /\ dir' = dir \cup {f}
             /\ me' = [me EXCEPT ![t] = Transferred(@, f)]
          \/ /\ me' = [me EXCEPT ![t] = CutShort(@, f)]
             /\ UNCHANGED dir
          \/ /\ dir' = dir \cup {f}
             /\ Return(t, "error")
    /\ UNCHANGED shotfiles

Caller(t) == \/ ScreenshotData(t) \/ ToolWrites(t) \/ ToolFails(t) \/ ToolCut(t)
             \/ ToolRaises(t) \/ ReadFile(t) \/ ReadFails(t) \/ Remove(t)
             \/ PullDir(t) \/ Find(t) \/ RecvFile(t) \/ Raises(t) \/ Complete(t)
             \/ SendDir(t) \/ SendFile(t)
-----------------------------------------------------------------------------
(* The device.                                                              *)

\* A tool whose client has left ends, and may have taken its picture.
LateTool(n) == /\ n \in tools
               /\ tools' = tools \ {n}
               /\ \/ Taken(n) /\ lost' = lost \cup {n}
                  \/ UNCHANGED <<shots, fresh, lost>>
               /\ UNCHANGED <<dir, me>>

\* Somebody else adds a file or removes one.
OthersAdd(f) == /\ f \notin dir
                /\ dir' = dir \cup {f}
                /\ UNCHANGED <<shotfiles, me>>

OthersRemove(f) == /\ f \in dir
                   /\ dir' = dir \ {f}
                   /\ me' = [t \in Threads |-> [me[t] EXCEPT !.owed = @ \ {f}]]
                   /\ UNCHANGED shotfiles

Next == \/ \E t \in Threads : Caller(t)
        \/ \E n \in Names : LateTool(n)
        \/ \E f \in Files : OthersAdd(f) \/ OthersRemove(f)

Spec == Init /\ [][Next]_vars
-----------------------------------------------------------------------------
(* Properties.                                                              *)

Calls == [pc : {"ok", "error", "tool", "read", "remove", "find", "recv", "send"},
          name : Names \cup {NoName}, tries : 0 .. Tools,
          got : {"none", "fresh", "stale", "cut"},
          list : SUBSET Files, done : SUBSET Files,
          cut : BOOLEAN, usurped : BOOLEAN, owed : SUBSET Files]

TypeOK == /\ shots \subseteq Names
          /\ tools \subseteq Names
          /\ lost \subseteq Names
          /\ fresh \in [Names -> SUBSET Threads]
          /\ dir \subseteq Files
          /\ me \in [Threads -> Calls]

\* A screenshot shows the screen during the call.  An older picture takes two
\* accidents: the stream of a tool was cut, and the temporary name was that of
\* a capture still running, or of one that failed and left its file.
ShotIsFresh ==
    TypeOK /\ \A t \in Threads :
        me[t].got = "stale" => me[t].cut /\ me[t].usurped

\* No temporary file stays on the device, but for a capture under way and one
\* that raised, lost its rm, or had a tool that outlived its connection: not
\* even when two captures share a name.
NoShotLeft == \A n \in shots : n \in lost \/ InUse(n)

\* A directory transfer that returns has skipped nothing of its own accord, and
\* one accident never costs a second file: every file that was there all the time
\* has been pulled, every local file is on the device.  It lacks no more than the
\* files that others removed, that the walk could not see, that the end of a cut
\* list would have named, and each one whose own transfer returned early.
DirIsComplete ==
    [][\A t \in Threads :
          me[t].pc \in {"recv", "send"} /\ me'[t].pc = "ok"
              => me[t].owed \subseteq me[t].done \cap dir]_vars
=============================================================================
