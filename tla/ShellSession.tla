---------------------------- MODULE ShellSession ----------------------------
(***************************************************************************)
(* The interactive shell (hdcutils/_connection.py, ShellSession): lines go  *)
(* to the device as frames, output comes back as frames, numbered here in   *)
(* the order the shell wrote them, and `exit' ends the session.  A read     *)
(* that finds nothing may time out, at any moment.                          *)
(***************************************************************************)
EXTENDS Naturals, Sequences

CONSTANTS MaxOut,     \* frames the shell writes
          MaxIn       \* lines sent by the user

ASSUME ShellAssumption == MaxOut \in Nat /\ MaxIn \in Nat

VARIABLES shell,      \* "up", "closed" after its last frame, or "crashed"
          written,    \* frames it has written
          noisy,      \* after MaxOut frames, it goes on writing without end
          beat,       \* frames beyond MaxOut that were read, modulo 2
          stdin,      \* lines it has not seen yet
          at,         \* the client: "idle", "recv", "until", "last" or "done"
          open, eof,  \* the channel, and ShellSession.eof
          read,       \* frames read off the connection
          handed,     \* frames returned to the caller
          chunks,     \* frames read_until_close has collected
          overall,    \* its overall_timeout was given
          typed,      \* lines sent
          ended,      \* how the last call ended
          lost        \* output was lost with an exception (history)

device    == <<shell, written, noisy, stdin>>
output    == <<read, handed, chunks, lost>>
client    == <<open, eof, output, overall, typed, ended, beat>>
shellVars == <<device, at, client>>

ShellInit == /\ shell = "up" /\ written = 0 /\ stdin = << >>
             /\ noisy \in BOOLEAN /\ beat = 0
             /\ at = "idle" /\ open = TRUE /\ eof = FALSE
             /\ read = 0 /\ handed = << >> /\ chunks = << >>
             /\ overall = FALSE /\ typed = 0
             /\ ended = "none" /\ lost = FALSE

Available == written > read
SawEof    == ~ Available /\ shell # "up"

\* Back in the caller's hands: read_until_close returns what it collected, and
\* loses it when it raises.
Back(r, out) == /\ at' = "idle"
                /\ ended' = r
                /\ chunks' = << >>
                /\ handed' = handed \o (IF r = "raised" THEN << >> ELSE out)
                /\ lost' = (lost \/ (r = "raised" /\ chunks # << >>))
-----------------------------------------------------------------------------
(* send, recv and close.                                                    *)

Type(line) == stdin' = IF shell = "up" THEN Append(stdin, line) ELSE stdin

\* A line; into a dead connection it may still go, or raise.
SendLine == /\ at = "idle" /\ open /\ typed < MaxIn
            /\ typed' = typed + 1
            /\ Type("line")
            /\ \/ ended' = "ok"
               \/ shell # "up" /\ ended' = "raised"
            /\ UNCHANGED <<shell, written, noisy, beat, at, open, eof, output, overall>>

\* recv returns None at once after an EOF.
CallRecv == /\ at = "idle" /\ open /\ ~ eof
            /\ at' = "recv"
            /\ UNCHANGED <<device, client>>

Recv == /\ at = "recv"
        /\ \/ Available /\ read' = read + 1 /\ Back("frame", <<read + 1>>)
              /\ UNCHANGED eof
           \/ ~ Available /\ shell = "up" /\ Back("none", << >>)
              /\ UNCHANGED <<read, eof>>
           \/ SawEof /\ eof' = TRUE /\ Back("eof", << >>) /\ UNCHANGED read
        /\ UNCHANGED <<device, beat, open, overall, typed>>

\* The connection is reset, or ends inside a frame.
ReadFails == /\ at \in {"recv", "until", "last"} /\ shell = "crashed"
             /\ Back("raised", << >>)
             /\ UNCHANGED <<device, beat, open, eof, read, overall, typed>>

Close == /\ at = "idle" /\ open
         /\ open' = FALSE /\ at' = "done"
         /\ UNCHANGED <<device, beat, eof, output, overall, typed, ended>>
-----------------------------------------------------------------------------
(* read_until_close.                                                        *)

\* Called on a session that is over it finds nothing and returns.
CallUntil == /\ at = "idle" /\ open /\ ~ eof
             /\ at' = "until" /\ overall' \in BOOLEAN
             /\ UNCHANGED <<device, beat, open, eof, output, typed, ended>>

\* Mutant: only the last frame is kept.
KeepLast == /\ at = "until" /\ Available
            /\ read' = read + 1
            /\ chunks' = <<read + 1>>
            /\ UNCHANGED <<device, beat, at, open, eof, handed, overall, typed, ended, lost>>

Collect == /\ at = "until" /\ Available
           /\ read' = read + 1
           /\ chunks' = Append(chunks, read + 1)
           /\ UNCHANGED <<device, beat, at, open, eof, handed, overall, typed, ended, lost>>

\* EOF; or overall_timeout, after a read that found nothing.
UntilEnds == /\ at = "until"
             /\ \/ SawEof /\ eof' = TRUE /\ Back("eof", chunks)
                \/ overall /\ ~ Available /\ shell = "up"
                   /\ Back("cut", chunks) /\ UNCHANGED eof
             /\ UNCHANGED <<device, beat, open, read, overall, typed>>

\* Mutant: the idle window just starts another wait.
StillIdle == at = "until" /\ ~ Available /\ UNCHANGED shellVars

\* The idle window passes: `exit'.  The shell may have gone by now, and the
\* write may raise then.
SendExit == /\ at = "until" /\ ~ Available
            /\ Type("exit")
            /\ \/ at' = "last" /\ UNCHANGED <<chunks, handed, ended, lost>>
               \/ shell # "up" /\ Back("raised", << >>)
            /\ UNCHANGED <<shell, written, noisy, beat, open, eof, read, overall, typed>>

\* One more read, and the session is closed whatever it brings.
LastRead == /\ at = "last"
            /\ eof' = TRUE
            /\ \/ Available /\ read' = read + 1
                  /\ Back("closed", Append(chunks, read + 1)) /\ open' = FALSE
               \/ ~ Available /\ shell = "up"
                  /\ Back("closed", chunks) /\ open' = FALSE /\ UNCHANGED read
               \/ SawEof /\ Back("eof", chunks) /\ UNCHANGED <<read, open>>
            /\ UNCHANGED <<device, beat, overall, typed>>

\* A frame of the endless output arrives, ever again: the clock is looked at only
\* when a read found nothing.
CollectMore == /\ at = "until"
               /\ noisy /\ shell = "up" /\ read = MaxOut
               /\ beat' = 1 - beat
               /\ UNCHANGED <<device, at, open, eof, output, overall, typed, ended>>

Reading == Recv \/ ReadFails \/ Collect \/ CollectMore \/ UntilEnds \/ SendExit \/ LastRead
-----------------------------------------------------------------------------
(* The device.                                                              *)

\* Output of a command that runs, or the echo of a line.
Write == /\ shell = "up" /\ written < MaxOut
         /\ written' = written + 1
         /\ UNCHANGED <<shell, noisy, stdin, at, client>>

\* The shell reads its lines in order, and ends at an `exit'.
ReadLine == /\ shell = "up" /\ stdin # << >>
            /\ stdin' = Tail(stdin)
            /\ shell' = IF Head(stdin) = "exit" THEN "closed" ELSE "up"
            /\ UNCHANGED <<written, noisy, at, client>>

Vanish == /\ shell = "up"
          /\ shell' \in {"closed", "crashed"}
          /\ UNCHANGED <<written, noisy, stdin, at, client>>

\* The endless command ends.
FallSilent == noisy /\ noisy' = FALSE
              /\ UNCHANGED <<shell, written, stdin, at, client>>

Over == at \in {"idle", "done"} /\ (at = "done" \/ eof \/ ~ open) /\ UNCHANGED shellVars

ShellNext == \/ SendLine \/ CallRecv \/ CallUntil \/ Close \/ Reading
             \/ Write \/ ReadLine \/ Vanish \/ FallSilent \/ Over

\* A read ends, by its timeout if by nothing else.
ShellSpec == ShellInit /\ [][ShellNext]_shellVars /\ WF_shellVars(Reading)
-----------------------------------------------------------------------------
(* Properties.                                                              *)

Upto(n) == [i \in 1 .. n |-> i]

ShellTypeOK == /\ shell \in {"up", "closed", "crashed"}
               /\ written \in 0 .. MaxOut /\ read \in 0 .. written
               /\ stdin \in Seq({"line", "exit"})
               /\ at \in {"idle", "recv", "until", "last", "done"}
               /\ open \in BOOLEAN /\ eof \in BOOLEAN
               /\ chunks \in Seq(1 .. MaxOut) /\ handed \in Seq(1 .. MaxOut)
               /\ overall \in BOOLEAN /\ typed \in 0 .. MaxIn
               /\ noisy \in BOOLEAN /\ beat \in 0 .. 1
               /\ ended \in {"none", "ok", "frame", "eof", "cut", "closed", "raised"}

\* However recv and read_until_close are mixed, the caller gets the output in
\* order, without a frame twice; and none is missing but those that a
\* read_until_close had collected when it raised.  (ShellTypeOK: every chunk is a
\* frame of the shell, and none is handed out before it is written.)
OutputInOrder ==
    LET seen == handed \o chunks
    IN  /\ ShellTypeOK
        /\ \A i, j \in 1 .. Len(seen) : i < j => seen[i] < seen[j]
        /\ ~ lost => seen = Upto(read)

\* Both reads return, from a shell that is silent or gone, or falls silent in
\* time: one that writes without end keeps read_until_close for ever, whatever
\* overall_timeout it was given.
ReadsReturn == <>[](~ noisy) =>
                  (at \in {"recv", "until", "last"}) ~> (at \in {"idle", "done"})
=============================================================================
