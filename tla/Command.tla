------------------------------- MODULE Command -------------------------------
(***************************************************************************)
(* One command on a connection of its own (hdcutils/_connection.py,         *)
(* HdcChannel and execute/stream): connect, handshake, send the command,    *)
(* read the response frames until EOF or until an idle window has passed,   *)
(* and close the socket whatever happened.                                  *)
(*                                                                          *)
(* A response is `total' frames and a frame travels in Pieces pieces; how   *)
(* pieces become frames is FrameReader's subject, here only when they come  *)
(* matters.  Time is counted in ticks.  A tick passes only while the client *)
(* is blocked in recv with nothing to read, or while the consumer of the    *)
(* generator is busy elsewhere.                                             *)
(***************************************************************************)
EXTENDS Naturals, Sequences

CONSTANTS MaxFrames,  \* frames in a response
          Pieces,     \* pieces in a frame
          First,      \* first_timeout, in ticks
          Idle,       \* idle_window of an ordinary local command
          Narrow,     \* idle window of a single-response command
          Overall,    \* overall_timeout, for a command that has one
          None        \* a recv without a timeout

ASSUME CommandAssumption ==
    /\ MaxFrames \in Nat \ {0} /\ Pieces \in Nat \ {0}
    /\ First \in Nat \ {0} /\ Idle \in Nat \ {0}
    /\ Narrow \in Nat \ {0} /\ Narrow <= Idle
    /\ Overall \in Nat \ {0} /\ None \notin Nat

VARIABLES kind,       \* "stream", "local", "single" (list targets ...), or
                      \* "task": the channel of a file task, app task or shell
          bounded,    \* overall_timeout was given
          hello,      \* the layout of the server's handshake
          eaten,      \* bytes of it that the client has read
          total,      \* frames the server answers with
          srv,        \* "up", "closed" or "crashed"
          sent,       \* pieces the server has sent
          heard,      \* what the server has received
          pc, sock,   \* the client, and its socket
          taken,      \* pieces received
          frames,     \* frames yielded
          wait,       \* the timeout read_frame was called with
          timer,      \* what is left of the current recv's timeout
          now,        \* ticks since frames() began (up to Overall + 1)
          quiet,      \* ticks since the last piece was received
          result,
          slow,       \* an idle window passed inside the response (history)
          trickled,   \* time passed inside a frame (history)
          paused      \* the consumer was away for a while (history)

config  == <<kind, bounded, hello, total>>
server  == <<srv, sent, heard, eaten>>
reading == <<taken, frames, wait, timer>>
history == <<slow, trickled, paused>>
vars    == <<config, server, pc, sock, reading, now, quiet, result, history>>

Window == IF kind = "single" THEN Narrow ELSE Idle
Least(a, b) == IF a < b THEN a ELSE b

Init == /\ kind \in {"stream", "local", "single", "task"}
        /\ bounded \in IF kind = "task" THEN {FALSE} ELSE BOOLEAN
        /\ hello \in {"framed44", "framed108", "raw44", "other"}
        /\ total \in CASE kind = "single" -> {1} [] kind = "task" -> {0}
                          [] OTHER -> 0 .. MaxFrames
        /\ srv \in {"up", "absent"}
        /\ sent = 0 /\ heard = <<>> /\ eaten = 0
        /\ pc = "connect" /\ sock = "none"
        /\ taken = 0 /\ frames = 0
        /\ wait = None /\ timer = None
        /\ now = 0 /\ quiet = 0
        /\ result = "none"
        /\ slow = FALSE /\ trickled = FALSE /\ paused = FALSE
-----------------------------------------------------------------------------
(* HdcChannel.open and send_command.                                        *)

\* Leave through `finally: ch.close()', or through open's `except'.
Leave(r) == /\ pc' = "end"
            /\ sock' = "closed"
            /\ result' = r

Connect ==
    /\ pc = "connect"
    /\ IF srv = "absent"
       THEN pc' = "end" /\ result' = "refused" /\ UNCHANGED sock
       ELSE pc' = "handshake" /\ sock' = "open" /\ UNCHANGED result
    /\ UNCHANGED <<config, server, reading, now, quiet, history>>

\* The bytes of a handshake with its length prefix, if it has one; "other" is
\* no handshake at all.
HelloLen == [framed44 |-> 4 + 44, framed108 |-> 4 + 108, raw44 |-> 44, other |-> 44]

\* _read_server_handshake: the first four bytes, wherever they come from.
ReadPrefix == /\ pc = "handshake" /\ srv = "up"
              /\ eaten' = 4
              /\ pc' = "hello"
              /\ UNCHANGED <<config, srv, sent, heard, sock, reading, now, quiet,
                             result, history>>

Framed == hello \in {"framed44", "framed108"}

\* Mutant: every handshake has 44 bytes.
ShortRest == IF Framed THEN 44 ELSE 40

\* A length prefix of 44 or 108 is followed by as many bytes; anything else is
\* the start of the raw layout, 44 bytes in all.
RestOfHello == IF hello = "framed108" THEN 108 ELSE IF Framed THEN 44 ELSE 40

\* parse_server_handshake: long enough, and it begins with the banner.
Parses == hello # "other"

\* The handshake is complete and parses; the reply is framed if it was.
Reply == /\ pc = "hello"
         /\ srv = "up" /\ Parses
         /\ eaten' = eaten + RestOfHello
         /\ heard' = Append(heard, IF Framed THEN "framed reply" ELSE "raw reply")
         /\ pc' = "send"
         /\ UNCHANGED <<config, srv, sent, sock, reading, now, quiet,
                        result, history>>

\* Mutant: open forgets the socket when the handshake fails.
LeakyHandshake == /\ pc \in {"handshake", "hello"}
                  /\ pc' = "end" /\ result' = "raised"
                  /\ UNCHANGED <<config, server, sock, reading, now, quiet, history>>

\* It times out, breaks off, has no banner, the connect key has more than 31
\* bytes, or the reply cannot be sent.
HandshakeFails == /\ pc \in {"handshake", "hello"}
                  /\ Leave("raised")
                  /\ UNCHANGED <<config, server, reading, now, quiet, history>>

\* Begin a read_frame(w).
Await(l, w) == pc' = l /\ wait' = w /\ timer' = w

\* send_command, and frames() up to its first read_frame.
Send == /\ pc = "send" /\ kind # "task"
        /\ heard' = Append(heard, "command")
        /\ IF kind = "stream"
           THEN Await("stream", IF bounded THEN Overall ELSE None)
           ELSE Await("first", IF bounded THEN Least(First, Overall) ELSE First)
        /\ UNCHANGED <<config, srv, sent, eaten, sock, taken, frames, now,
                       quiet, result, history>>

SendFails == /\ pc = "send" /\ kind # "task" /\ srv = "crashed"
             /\ Leave("raised")
             /\ UNCHANGED <<config, server, reading, now, quiet, history>>

\* TaskChannel.open and ShellSession.__init__ return the open channel; if the
\* command cannot be sent they raise, and nobody closes it.
OpenTask == /\ pc = "send" /\ kind = "task"
            /\ pc' = "end"
            /\ \/ result' = "handed" /\ heard' = Append(heard, "command")
               \/ srv = "crashed" /\ result' = "raised" /\ UNCHANGED heard
            /\ UNCHANGED <<config, srv, sent, eaten, sock, reading, now, quiet,
                           history>>
-----------------------------------------------------------------------------
(* HdcChannel.frames.                                                       *)

Blocked == pc \in {"first", "more", "stream"}

Whole   == taken \div Pieces > frames        \* read_frame has a whole frame
Unread  == sent - taken

\* recv returns n pieces; the next recv of the same read_frame starts with the
\* whole timeout again.
Receive == /\ Blocked /\ ~ Whole
           /\ \E n \in 1 .. Unread : taken' = taken + n
           /\ timer' = wait
           /\ quiet' = 0
           /\ UNCHANGED <<config, server, pc, sock, frames, wait, now, result,
                          history>>

\* read_frame returns a frame and frames() yields it.
Yield == /\ Blocked /\ Whole
         /\ frames' = frames + 1
         /\ pc' = "yielded"
         /\ UNCHANGED <<config, server, sock, taken, wait, timer, now, quiet,
                        result, history>>

\* Mutant: only the first read heeds the overall timeout.
UnlimitedResume ==
    /\ pc = "yielded"
    /\ IF kind = "stream" THEN Await("stream", wait) ELSE Await("more", Window)
    /\ UNCHANGED <<config, server, sock, taken, frames, now, quiet, result, history>>

\* The consumer asks for the next frame: check_deadline, then read_frame with
\* what is left, or with the idle window if that is less.
Resume ==
    /\ pc = "yielded"
    /\ IF bounded /\ now >= Overall
       THEN Leave("timeout") /\ UNCHANGED <<wait, timer>>
       ELSE /\ IF kind = "stream"
               THEN Await("stream", IF bounded THEN Overall - now ELSE None)
               ELSE Await("more", IF bounded THEN Least(Window, Overall - now)
                                  ELSE Window)
            /\ UNCHANGED <<sock, result>>
    /\ UNCHANGED <<config, server, taken, frames, now, quiet, history>>

\* Mutant: silence before the first frame is an empty response.
EmptyTimeout == /\ Blocked /\ ~ Whole /\ timer = 0 /\ Unread = 0 /\ srv = "up"
                /\ Leave(IF pc = "stream" THEN "timeout" ELSE "ok")
                /\ UNCHANGED <<config, server, reading, now, quiet, history>>

\* Mutant: a stream whose read times out just reads on.
PatientTimeout == /\ Blocked /\ ~ Whole /\ timer = 0 /\ Unread = 0 /\ srv = "up"
                  /\ pc # "stream"
                  /\ Leave(IF pc = "more" THEN "ok" ELSE "timeout")
                  /\ UNCHANGED <<config, server, reading, now, quiet, history>>

\* recv times out: the first frame or a stream is overdue, or, after the first
\* frame, the response is complete.
Timeout == /\ Blocked /\ ~ Whole /\ timer = 0 /\ Unread = 0 /\ srv = "up"
           /\ Leave(IF pc = "more" THEN "ok" ELSE "timeout")
           /\ UNCHANGED <<config, server, reading, now, quiet, history>>

\* EOF ends the response, unless it comes inside a frame.
Eof == /\ Blocked /\ ~ Whole /\ Unread = 0 /\ srv # "up"
       /\ Leave(IF taken % Pieces = 0 THEN "ok" ELSE "raised")
       /\ UNCHANGED <<config, server, reading, now, quiet, history>>

\* The server died and the connection is reset: recv raises an OSError, which
\* frames() lets through, and what was in flight is lost.
Reset == /\ Blocked /\ ~ Whole /\ srv = "crashed"
         /\ Leave("raised")
         /\ UNCHANGED <<config, server, reading, now, quiet, history>>

\* The consumer gives up a generator of stream(): its `finally' closes.
Abandon == /\ pc = "yielded" /\ kind = "stream"
           /\ Leave("abandoned")
           /\ UNCHANGED <<config, server, reading, now, quiet, history>>

Client == \/ Connect \/ ReadPrefix \/ Reply \/ HandshakeFails
          \/ Send \/ SendFails \/ OpenTask
          \/ Receive \/ Yield \/ Resume \/ Abandon \/ Timeout \/ Eof \/ Reset
-----------------------------------------------------------------------------
(* The server, and time.                                                    *)

HasCommand == heard # <<>> /\ heard[Len(heard)] = "command"

ServerSends == /\ srv = "up" /\ HasCommand
               /\ sent < total * Pieces
               /\ sent' = sent + 1
               /\ UNCHANGED <<config, srv, heard, eaten, pc, sock, reading, now, quiet,
                              result, history>>

\* It closes the connection of a command that has finished; only those of
\* streaming commands are sure to be closed.
ServerCloses == /\ srv = "up" /\ HasCommand
                /\ sent = total * Pieces
                /\ srv' = "closed"
                /\ UNCHANGED <<config, sent, heard, eaten, pc, sock, reading,
                               now, quiet, result, history>>

ServerCrashes == /\ srv = "up" /\ sock = "open"
                 /\ srv' = "crashed"
                 /\ UNCHANGED <<config, sent, heard, eaten, pc, sock, reading,
                                now, quiet, result, history>>

\* Time passes while recv blocks, or while the consumer of stream() is away.
Idling == Blocked /\ ~ Whole /\ Unread = 0 /\ srv = "up" /\ timer # 0
Away   == pc = "yielded" /\ kind = "stream" /\ bounded /\ now <= Overall

Tick == /\ Idling \/ Away
        /\ now' = IF bounded THEN Least(now + 1, Overall + 1) ELSE 0
        /\ quiet' = Least(quiet + 1, Idle)
        /\ timer' = IF Idling /\ timer # None THEN timer - 1 ELSE timer
        /\ slow' = (slow \/ (/\ frames > 0 /\ sent < total * Pieces
                             /\ quiet + 1 >= Window))
        /\ trickled' = (trickled \/ (Idling /\ taken % Pieces # 0))
        /\ paused' = (paused \/ Away)
        /\ UNCHANGED <<config, server, pc, sock, taken, frames, wait, result>>

Done == pc = "end" /\ UNCHANGED vars

Next == Client \/ ServerSends \/ ServerCloses \/ ServerCrashes \/ Tick \/ Done

\* The client runs, the clock runs; the server owes nobody anything.
Spec == Init /\ [][Next]_vars /\ WF_vars(Client) /\ WF_vars(Tick)
-----------------------------------------------------------------------------
(* Properties.                                                              *)

TypeOK == /\ pc \in {"connect", "handshake", "hello", "send", "first", "more", "stream",
                     "yielded", "end"}
          /\ sock \in {"none", "open", "closed"}
          /\ srv \in {"up", "absent", "closed", "crashed"}
          /\ heard \in Seq({"framed reply", "raw reply", "command"})
          /\ eaten \in 0 .. 112
          /\ sent \in 0 .. MaxFrames * Pieces
          /\ taken \in 0 .. sent
          /\ frames \in 0 .. taken \div Pieces
          /\ wait \in Nat \cup {None} /\ timer \in Nat \cup {None}
          /\ now \in 0 .. Overall + 1
          /\ result \in {"none", "ok", "raised", "timeout", "refused", "handed",
                         "abandoned"}

\* Whatever way a command ends, its socket is closed, and while it runs it has
\* exactly one.  The only sockets left open are those handed to a task or a
\* shell, or lost by one whose first frame could not be sent: never by a
\* handshake that failed.  (TypeOK: no frame is taken before all of it is there.)
SocketAccounted == /\ TypeOK
                   /\ pc \notin {"connect", "end"} => sock = "open"
                   /\ pc = "end" /\ sock = "open" => kind = "task" /\ heard # <<>>

\* Whichever of the documented layouts the server speaks, the client guesses it
\* from four bytes: it has read the handshake to its last byte, and nothing of
\* what follows, when it answers, answers in the same framing, and sends the
\* command only then.
HandshakeIsExact ==
    LET reply == IF Framed THEN "framed reply" ELSE "raw reply"
    IN  /\ heard \in {<<>>, <<reply>>, <<reply, "command">>}
        /\ heard # <<>> => eaten = HelloLen[hello]

\* A normal return means the whole response: of a stream always, of a
\* single-response command however late its frame came, of another local
\* command if the server never paused for an idle window.  A server that dies
\* between two frames, and an overall timeout, are the only other ways to a
\* shorter one.
OkIsWhole ==
    result = "ok" =>
       \/ frames = total
       \/ srv = "crashed" /\ taken = frames * Pieces
       \/ kind = "local" /\ (slow \/ (bounded /\ now >= Overall))

\* The overall timeout is exceeded only by a frame that trickles in, or by a
\* consumer that stayed away.
LateOnlyByTrickle == now > Overall => trickled \/ paused

\* Every command that does not stream without a bound ends, whether or not the
\* server ever answers or closes; and one that streams ends when it does.
CommandEnds == /\ (kind # "stream" \/ bounded) ~> (pc = "end")
               /\ (srv \in {"closed", "crashed"}) ~> (pc = "end")
=============================================================================
