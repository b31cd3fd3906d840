---------------------------- MODULE CommandProofs ----------------------------
(***************************************************************************)
(* The safety of a command, for any response, timeouts and idle windows.    *)
(*                                                                          *)
(* SocketAccounted and HandshakeIsExact follow from what has been said at    *)
(* each point of the connection (Told); LateOnlyByTrickle from what is left *)
(* of the overall timeout in each read (Clocked); OkIsWhole from what an     *)
(* idle window that has run out says of the server (Paced).                 *)
(*                                                                          *)
(* Last, the interactive shell, which shares the connection module with     *)
(* commands: OutputInOrder of ShellSession.                                 *)
(***************************************************************************)
EXTENDS Command, ShellSession, SequenceTheorems, TLAPS

Kinds  == {"stream", "local", "single", "task"}
Hellos == {"framed44", "framed108", "raw44", "other"}
Answer == IF Framed THEN "framed reply" ELSE "raw reply"
Shake  == {"connect", "handshake", "hello"}
Reads  == {"first", "more", "stream", "yielded"}
Said   == {"framed reply", "raw reply", "command"}

Typed == /\ kind \in Kinds /\ bounded \in BOOLEAN /\ hello \in Hellos
         /\ kind = "task" => ~ bounded
         /\ pc \in Shake \cup Reads \cup {"send", "end"}
         /\ sock \in {"none", "open", "closed"}
         /\ srv \in {"up", "absent", "closed", "crashed"}
         /\ eaten \in 0 .. 112
         /\ wait \in Nat \cup {None} /\ timer \in Nat \cup {None}
         /\ now \in 0 .. Overall + 1 /\ quiet \in 0 .. Idle
         /\ result \in {"none", "ok", "raised", "timeout", "refused", "handed",
                        "abandoned"}
         /\ slow \in BOOLEAN /\ trickled \in BOOLEAN /\ paused \in BOOLEAN

\* The frames announced, sent, received and yielded.
Counted == /\ total \in Nat /\ total <= MaxFrames
           /\ kind = "single" => total = 1
           /\ sent \in Nat /\ sent <= total * Pieces
           /\ taken \in Nat /\ taken <= sent
           /\ frames \in Nat /\ frames <= taken \div Pieces

Types == Typed /\ Counted

\* What the two sides have said to each other, and the socket they need for it.
Told == /\ pc = "connect" => sock = "none"
        /\ pc \notin {"connect", "end"} => sock = "open" /\ srv # "absent"
        /\ pc = "end" /\ sock = "open" => kind = "task" /\ heard # <<>>
        /\ pc \in Shake => heard = <<>>
        /\ pc = "hello" => eaten = 4
        /\ pc = "send" => heard = <<Answer>>
        /\ pc \in Reads => heard = <<Answer, "command">> /\ kind # "task"
        /\ heard \in {<<>>, <<Answer>>, <<Answer, "command">>}
        /\ heard # <<>> => eaten = HelloLen[hello]
-----------------------------------------------------------------------------
(* Arithmetic of the pieces.                                                *)

LEMMA DivLaw ==
    ASSUME NEW n \in Nat, NEW p \in Nat \ {0}
    PROVE  /\ n \div p \in Nat /\ n % p \in Nat
           /\ n = p * (n \div p) + (n % p)
           /\ n % p < p
OBVIOUS

LEMMA DivMono ==
    ASSUME NEW a \in Nat, NEW b \in Nat, NEW p \in Nat \ {0}, a <= b
    PROVE  a \div p <= b \div p
BY DivLaw

\* A whole number of frames more is a frame more.
LEMMA DivGrows ==
    ASSUME NEW a \in Nat, NEW b \in Nat, NEW p \in Nat \ {0}, a < b, b % p = 0
    PROVE  a \div p < b \div p
BY DivLaw

LEMMA MulMono ==
    ASSUME NEW a \in Nat, NEW b \in Nat, NEW p \in Nat, a <= b
    PROVE  a * p <= b * p
OBVIOUS

LEMMA MulCancel ==
    ASSUME NEW a \in Nat, NEW b \in Nat, NEW p \in Nat \ {0}, a * p <= b * p
    PROVE  a <= b
OBVIOUS

LEMMA Counts ==
    ASSUME Counted
    PROVE  /\ taken \div Pieces \in Nat /\ taken % Pieces \in Nat
           /\ total * Pieces \in Nat
           /\ Whole <=> frames < taken \div Pieces
<1>1. Pieces \in Nat \ {0} /\ taken \in Nat /\ total \in Nat /\ frames \in Nat
  BY CommandAssumption DEF Counted
<1>2. taken \div Pieces \in Nat /\ taken % Pieces \in Nat
  BY <1>1, DivLaw
<1>3. total * Pieces \in Nat
  BY <1>1
<1> QED BY <1>1, <1>2, <1>3 DEF Whole

\* Whatever is received while no frame is whole is part of the next one.
LEMMA Partial ==
    ASSUME Counted, ~ Whole
    PROVE  /\ taken \div Pieces = frames
           /\ taken % Pieces = 0 => taken = frames * Pieces
<1>1. Pieces \in Nat \ {0} /\ taken \in Nat /\ frames \in Nat
  BY CommandAssumption DEF Counted
<1>2. taken \div Pieces = frames
  BY <1>1, Counts DEF Counted
<1>3. taken = Pieces * frames + (taken % Pieces)
  BY <1>1, <1>2, DivLaw
<1>4. taken % Pieces = 0 => taken = frames * Pieces
  BY <1>1, <1>3
<1> QED BY <1>2, <1>4
-----------------------------------------------------------------------------
(* Types.                                                                   *)

LEMMA Constants ==
    /\ First \in Nat \ {0} /\ Idle \in Nat \ {0} /\ Overall \in Nat \ {0}
    /\ Window \in Nat \ {0} /\ Window <= Idle
    /\ Pieces \in Nat \ {0} /\ None \notin Nat
BY CommandAssumption DEF Window

\* Most steps count nothing.
LEMMA SameCounts ==
    ASSUME Counted, UNCHANGED <<kind, total, sent, taken, frames>>
    PROVE  Counted'
BY DEF Counted

LEMMA LeaveTypes ==
    ASSUME Types, NEW r \in {"ok", "raised", "timeout", "abandoned"}, Leave(r),
           UNCHANGED <<config, server, reading, now, quiet, history>>
    PROVE  Types'
BY SameCounts DEF Leave, Types, Typed, config, server, reading, history

LEMMA NextTypes == Types /\ Told /\ [Next]_vars => Types'
<1> SUFFICES ASSUME Types, Told, [Next]_vars PROVE Types'
  OBVIOUS
<1> USE DEF Shake, Reads
<1>a. ASSUME Typed', UNCHANGED <<config, sent, taken, frames>> PROVE Types'
  BY <1>a, SameCounts DEF Types, config
<1>1. CASE Connect
  BY <1>1, <1>a DEF Connect, Types, Typed, config, server, reading, history
<1>2. CASE ReadPrefix
  BY <1>2, <1>a DEF ReadPrefix, Types, Typed, config, reading, history
<1>3. CASE Reply
  <2>1. /\ UNCHANGED <<config, srv, sent, sock, reading, now, quiet, result, history>>
        /\ pc' = "send" /\ eaten' = eaten + RestOfHello
    BY <1>3 DEF Reply
  <2>2. eaten = 4
    BY <1>3 DEF Reply, Told
  <2>3. RestOfHello \in {40, 44, 108}
    BY DEF RestOfHello
  <2>4. eaten' \in 0 .. 112
    BY <2>1, <2>2, <2>3
  <2> QED BY <1>a, <2>1, <2>4 DEF Types, Typed, config, reading, history
<1>4. CASE HandshakeFails
  BY <1>4, LeaveTypes DEF HandshakeFails
<1>5. CASE Send
  <2>1. wait' \in Nat \cup {None} /\ timer' \in Nat \cup {None}
    BY <1>5, Constants DEF Send, Await, Least
  <2>2. pc' \in {"first", "stream"}
    BY <1>5 DEF Send, Await
  <2> QED BY <1>5, <1>a, <2>1, <2>2 DEF Send, Types, Typed, config, history
<1>6. CASE SendFails
  BY <1>6, LeaveTypes DEF SendFails
<1>7. CASE OpenTask
  BY <1>7, <1>a DEF OpenTask, Types, Typed, config, reading, history
<1>8. CASE Receive
  <2>1. PICK n \in 1 .. Unread : taken' = taken + n
    BY <1>8 DEF Receive
  <2>2. taken' \in Nat /\ taken' <= sent /\ taken <= taken'
    BY <2>1 DEF Unread, Types, Counted
  <2>3. taken \div Pieces <= taken' \div Pieces /\ taken' \div Pieces \in Nat
    BY <2>2, Constants, DivLaw, DivMono DEF Types, Counted
  <2>4. frames <= taken' \div Pieces
    BY <2>3, Counts DEF Types, Counted
  <2>5. Counted'
    BY <1>8, <2>2, <2>4 DEF Receive, Types, Counted, config, server
  <2>6. Typed'
    BY <1>8, Constants DEF Receive, Types, Typed, config, server, history
  <2> QED BY <2>5, <2>6 DEF Types
<1>9. CASE Yield
  <2>1. frames' \in Nat /\ frames' <= taken \div Pieces
    BY <1>9, Counts DEF Yield, Types, Counted
  <2>2. Counted'
    BY <1>9, <2>1 DEF Yield, Types, Counted, config, server
  <2>3. Typed'
    BY <1>9 DEF Yield, Types, Typed, config, server, history
  <2> QED BY <2>2, <2>3 DEF Types
<1>10. CASE Resume
  <2>1. CASE bounded /\ now >= Overall
    BY <1>10, <2>1, LeaveTypes DEF Resume, server, reading
  <2>2. CASE ~ (bounded /\ now >= Overall)
    <3>1. bounded => Overall - now \in Nat
      BY <2>2, Constants DEF Types, Typed
    <3>2. wait' \in Nat \cup {None} /\ timer' \in Nat \cup {None}
      BY <1>10, <2>2, <3>1, Constants DEF Resume, Await, Least
    <3>3. pc' \in {"more", "stream"} /\ UNCHANGED <<sock, result>>
      BY <1>10, <2>2 DEF Resume, Await
    <3> QED BY <1>10, <1>a, <3>2, <3>3
            DEF Resume, Types, Typed, config, server, history
  <2> QED BY <2>1, <2>2
<1>11. CASE Abandon \/ Timeout \/ Eof \/ Reset
  BY <1>11, LeaveTypes DEF Abandon, Timeout, Eof, Reset
<1>12. CASE ServerSends
  <2>1. sent' \in Nat /\ sent <= sent' /\ sent' <= total * Pieces
    BY <1>12, Counts DEF ServerSends, Types, Counted
  <2>2. Counted'
    BY <1>12, <2>1 DEF ServerSends, Types, Counted, config, reading
  <2>3. Typed'
    BY <1>12 DEF ServerSends, Types, Typed, config, reading, history
  <2> QED BY <2>2, <2>3 DEF Types
<1>13. CASE ServerCloses \/ ServerCrashes
  BY <1>13, <1>a DEF ServerCloses, ServerCrashes, Types, Typed, config, reading,
                     history
<1>14. CASE Tick
  <2>1. now' \in 0 .. Overall + 1 /\ quiet' \in 0 .. Idle
    BY <1>14, Constants DEF Tick, Least, Types, Typed
  <2>2. timer' \in Nat \cup {None}
    BY <1>14 DEF Tick, Idling, Types, Typed
  <2>3. slow' \in BOOLEAN /\ trickled' \in BOOLEAN /\ paused' \in BOOLEAN
    BY <1>14 DEF Tick
  <2> QED BY <1>14, <1>a, <2>1, <2>2, <2>3 DEF Tick, Types, Typed, config, server
<1>15. CASE UNCHANGED vars
  BY <1>15, <1>a DEF vars, config, server, reading, history, Types, Typed
<1> QED
  BY <1>1, <1>2, <1>3, <1>4, <1>5, <1>6, <1>7, <1>8, <1>9, <1>10, <1>11, <1>12,
     <1>13, <1>14, <1>15 DEF Next, Client, Done

\* The type invariant of the run.
LEMMA TypesAreOK == Types /\ Told => TypeOK
<1> SUFFICES ASSUME Types, Told PROVE TypeOK
  OBVIOUS
<1>1. heard \in Seq({"framed reply", "raw reply", "command"})
  <2>1. Answer \in Said
    BY DEF Answer, Said
  <2>2. ASSUME NEW S, NEW x \in S, NEW y \in S
        PROVE  <<>> \in Seq(S) /\ <<x>> \in Seq(S) /\ <<x, y>> \in Seq(S)
    OBVIOUS
  <2>3. "command" \in Said
    BY DEF Said
  <2> QED BY <2>1, <2>2, <2>3 DEF Told, Said
<1>2. total * Pieces <= MaxFrames * Pieces /\ MaxFrames * Pieces \in Nat
  BY MulMono, CommandAssumption DEF Types, Counted
<1>3. sent \in 0 .. MaxFrames * Pieces
  BY <1>2, Counts DEF Types, Counted
<1>4. taken \in 0 .. sent /\ frames \in 0 .. taken \div Pieces
  BY Counts DEF Types, Counted
<1> QED BY <1>1, <1>3, <1>4 DEF TypeOK, Types, Typed, Shake, Reads
-----------------------------------------------------------------------------
(* The handshake and the socket.                                            *)

LEMMA PairOf ==
    ASSUME NEW S, NEW s \in Seq(S), NEW x, NEW y, Len(s) = 2, s[1] = x, s[2] = y
    PROVE  s = <<x, y>>
OBVIOUS

LEMMA Words ==
    ASSUME NEW S, NEW x \in S, NEW y \in S
    PROVE  Append(<<>>, x) = <<x>> /\ Append(<<x>>, y) = <<x, y>>
<1>1. Append(<<>>, x) = <<x>>
  OBVIOUS
<1> DEFINE s == Append(<<x>>, y)
<1>2. s \in Seq(S) /\ Len(s) = 2 /\ s[1] = x /\ s[2] = y
  OBVIOUS
<1> HIDE DEF s
<1>3. s = <<x, y>>
  BY <1>2, PairOf
<1> QED BY <1>1, <1>3 DEF s

LEMMA AnswerSaid == Answer \in Said
BY DEF Answer, Said

LEMMA LeaveTold ==
    ASSUME Told, NEW r, Leave(r), UNCHANGED <<config, server>>
    PROVE  Told'
BY DEF Told, Leave, Shake, Reads, Answer, Framed, config, server

LEMMA NextTold == Types /\ Told /\ [Next]_vars => Told'
<1> SUFFICES ASSUME Types, Told, [Next]_vars PROVE Told'
  OBVIOUS
<1> USE DEF Shake, Reads
<1>a. ASSUME UNCHANGED config PROVE Answer' = Answer
  BY <1>a DEF Answer, Framed, config
<1>1. CASE Connect
  BY <1>1, <1>a DEF Connect, Told, server, config, Types, Typed
<1>2. CASE ReadPrefix
  BY <1>2, <1>a DEF ReadPrefix, Told, config
<1>3. CASE Reply
  <2>1. heard' = Append(<<>>, Answer)
    BY <1>3 DEF Reply, Told, Answer
  <2>2. heard' = <<Answer>>
    BY <2>1, Words, AnswerSaid
  <2>3. eaten = 4 /\ hello \in Hellos \ {"other"}
    BY <1>3 DEF Reply, Told, Parses, Types, Typed
  <2>4. eaten' = HelloLen[hello]
    <3>1. RestOfHello = HelloLen[hello] - 4 /\ HelloLen[hello] \in Nat
      BY <2>3 DEF RestOfHello, Framed, HelloLen, Hellos
    <3>2. eaten' = eaten + RestOfHello
      BY <1>3 DEF Reply
    <3> QED BY <2>3, <3>1, <3>2
  <2> QED BY <1>3, <1>a, <2>2, <2>4 DEF Reply, Told, config
<1>4. CASE HandshakeFails
  BY <1>4, LeaveTold DEF HandshakeFails
<1>5. CASE Send
  <2>1. heard' = Append(<<Answer>>, "command")
    BY <1>5 DEF Send, Told
  <2>2. heard' = <<Answer, "command">>
    BY <2>1, Words, AnswerSaid DEF Said
  <2>3. pc' \in {"first", "stream"}
    BY <1>5 DEF Send, Await
  <2>4. heard # <<>> /\ kind # "task"
    BY <1>5 DEF Send, Told
  <2> QED BY <1>5, <1>a, <2>2, <2>3, <2>4 DEF Send, Told, config
<1>6. CASE SendFails
  BY <1>6, LeaveTold DEF SendFails
<1>7. CASE OpenTask
  <2>1. heard = <<Answer>> /\ heard' \in {<<Answer>>, Append(<<Answer>>, "command")}
    BY <1>7 DEF OpenTask, Told
  <2>2. Append(<<Answer>>, "command") = <<Answer, "command">>
    BY Words, AnswerSaid DEF Said
  <2>3. heard' \in {<<Answer>>, <<Answer, "command">>}
    BY <2>1, <2>2
  <2> QED BY <1>7, <1>a, <2>1, <2>3 DEF OpenTask, Told, config
<1>8. CASE Receive \/ Tick
  BY <1>8, <1>a DEF Receive, Tick, Told, server, config
<1>9. CASE Yield
  BY <1>9, <1>a DEF Yield, Blocked, Told, server, config
<1>10. CASE Resume
  <2>1. CASE bounded /\ now >= Overall
    BY <1>10, <2>1, LeaveTold DEF Resume
  <2>2. CASE ~ (bounded /\ now >= Overall)
    <3>1. pc' \in {"more", "stream"} /\ UNCHANGED <<sock, result>>
      BY <1>10, <2>2 DEF Resume, Await
    <3> QED BY <1>10, <1>a, <3>1 DEF Resume, Told, server, config
  <2> QED BY <2>1, <2>2
<1>11. CASE Abandon \/ Timeout \/ Eof \/ Reset
  BY <1>11, LeaveTold DEF Abandon, Timeout, Eof, Reset
<1>12. CASE ServerSends \/ ServerCloses \/ ServerCrashes
  BY <1>12, <1>a DEF ServerSends, ServerCloses, ServerCrashes, Told, config
<1>13. CASE UNCHANGED vars
  BY <1>13, <1>a DEF vars, Told, server, config
<1> QED
  BY <1>1, <1>2, <1>3, <1>4, <1>5, <1>6, <1>7, <1>8, <1>9, <1>10, <1>11, <1>12,
     <1>13 DEF Next, Client, Done

LEMMA InitTypes == Init => Types /\ Told
<1> SUFFICES ASSUME Init PROVE Types /\ Told
  OBVIOUS
<1>1. /\ total \in Nat /\ total <= MaxFrames
      /\ kind = "single" => total = 1
      /\ sent = 0 /\ taken = 0 /\ frames = 0
  BY CommandAssumption DEF Init
<1>2. 0 <= total * Pieces /\ 0 <= 0 \div Pieces
  BY <1>1, Constants, DivLaw
<1>3. Counted
  BY <1>1, <1>2 DEF Counted
<1>4. /\ kind \in Kinds /\ bounded \in BOOLEAN /\ hello \in Hellos
      /\ kind = "task" => ~ bounded
  BY DEF Init, Kinds, Hellos
<1>6. /\ pc = "connect" /\ sock = "none" /\ srv \in {"up", "absent"} /\ eaten = 0
      /\ wait = None /\ timer = None /\ now = 0 /\ quiet = 0 /\ result = "none"
      /\ slow = FALSE /\ trickled = FALSE /\ paused = FALSE
  BY DEF Init
<1>7. Typed
  <2>1. now \in 0 .. Overall + 1 /\ quiet \in 0 .. Idle /\ eaten \in 0 .. 112
    BY <1>6, Constants
  <2>2. /\ slow \in BOOLEAN /\ trickled \in BOOLEAN /\ paused \in BOOLEAN
        /\ wait \in Nat \cup {None} /\ timer \in Nat \cup {None}
    BY <1>6
  <2> QED BY <1>4, <1>6, <2>1, <2>2 DEF Typed, Shake, Reads
<1>5. Told
  BY DEF Init, Told, Shake, Reads
<1> QED BY <1>3, <1>5, <1>7 DEF Types

\* Every socket is closed, or handed to a task or a shell, or lost by one whose
\* first frame could not be sent.
THEOREM SocketsAccounted == Spec => []SocketAccounted
<1>1. Types /\ Told => SocketAccounted
  BY TypesAreOK DEF Told, SocketAccounted
<1>2. Types /\ Told /\ [Next]_vars => Types' /\ Told'
  BY NextTypes, NextTold
<1> QED BY <1>1, <1>2, InitTypes, PTL DEF Spec

\* The client reads the handshake to its last byte in every layout, and answers
\* as it was spoken to.
THEOREM HandshakesExact == Spec => []HandshakeIsExact
<1>1. Types /\ Told => HandshakeIsExact
  BY DEF Told, HandshakeIsExact, Answer
<1>2. Types /\ Told /\ [Next]_vars => Types' /\ Told'
  BY NextTypes, NextTold
<1> QED BY <1>1, <1>2, InitTypes, PTL DEF Spec
-----------------------------------------------------------------------------
(* The overall timeout.                                                     *)

\* A read of a bounded command times out by the overall timeout, unless pieces
\* of a frame have come in meanwhile.
Clocked == /\ pc \in Shake \cup {"send"} => now = 0
           /\ ~ bounded => now = 0
           /\ Blocked /\ bounded => wait \in Nat /\ timer \in Nat
           /\ trickled \/ paused \/
                 /\ now <= Overall
                 /\ Blocked /\ bounded => \/ now + timer <= Overall
                                         \/ Whole \/ taken % Pieces # 0

\* Steps that end no read, and after which no clock runs.
LEMMA SameClock ==
    ASSUME Clocked, UNCHANGED <<kind, bounded, now, trickled, paused>>,
           ~ Blocked', pc' \in Shake \cup {"send"} => pc \in Shake \cup {"send"}
    PROVE  Clocked'
BY DEF Clocked

\* What the server does, the clock does not see.
LEMMA ServerClock ==
    ASSUME Clocked, UNCHANGED <<config, pc, reading, now, history>>
    PROVE  Clocked'
BY DEF Clocked, Blocked, Whole, config, reading, history

LEMMA ReceiveGrows ==
    ASSUME Counted, ~ Whole, NEW n \in 1 .. Unread, taken' = taken + n,
           UNCHANGED frames
    PROVE  Whole' \/ taken' % Pieces # 0
<1>1. taken' \in Nat /\ taken < taken' /\ taken \in Nat
  BY DEF Unread, Counted
<1>2. taken' % Pieces = 0 => taken \div Pieces < taken' \div Pieces
  BY <1>1, DivGrows, Constants
<1>3. taken \div Pieces = frames
  BY Partial
<1> QED BY <1>2, <1>3 DEF Whole

LEMMA NextClocked == Types /\ Told /\ Clocked /\ [Next]_vars => Clocked'
<1> SUFFICES ASSUME Types, Told, Clocked, [Next]_vars PROVE Clocked'
  OBVIOUS
<1> USE DEF Shake
<1>1. CASE Connect \/ ReadPrefix \/ Reply \/ HandshakeFails \/ SendFails \/ OpenTask
  <2>1. UNCHANGED <<config, now, history>> /\ ~ Blocked'
    BY <1>1 DEF Connect, ReadPrefix, Reply, HandshakeFails, SendFails, OpenTask,
                Leave, Blocked
  <2>2. pc \in Shake \cup {"send"}
    BY <1>1 DEF Connect, ReadPrefix, Reply, HandshakeFails, SendFails, OpenTask
  <2> QED BY <2>1, <2>2, SameClock DEF config, history
<1>2. CASE Send
  <2>1. now = 0 /\ UNCHANGED <<config, now, history>>
    BY <1>2 DEF Send, Clocked
  <2>2. bounded => wait' \in Nat /\ timer' = wait' /\ timer' <= Overall
    BY <1>2, Constants DEF Send, Await, Least
  <2>3. pc' \in {"first", "stream"}
    BY <1>2 DEF Send, Await
  <2>4. now <= Overall /\ (bounded => now + timer' <= Overall)
    BY <2>1, <2>2, Constants
  <2> QED BY <2>1, <2>2, <2>3, <2>4 DEF Clocked, config, history
<1>3. CASE Receive
  <2>1. PICK n \in 1 .. Unread : taken' = taken + n
    BY <1>3 DEF Receive
  <2>2. UNCHANGED <<config, pc, frames, wait, now, history>> /\ timer' = wait
    BY <1>3 DEF Receive
  <2>3. Blocked /\ ~ Whole
    BY <1>3 DEF Receive
  <2>4. Whole' \/ taken' % Pieces # 0
    BY <2>1, <2>2, <2>3, ReceiveGrows DEF Types
  <2> QED BY <2>2, <2>3, <2>4 DEF Clocked, Blocked, config, history
<1>4. CASE Yield
  BY <1>4, SameClock DEF Yield, Blocked, config, history
<1>5. CASE Resume
  <2>1. CASE bounded /\ now >= Overall
    BY <1>5, <2>1, SameClock DEF Resume, Leave, Blocked, config, history
  <2>2. CASE ~ (bounded /\ now >= Overall)
    <3>1. bounded => Overall - now \in Nat
      BY <2>2, Constants DEF Types, Typed
    <3>2. bounded => wait' \in Nat /\ timer' = wait' /\ timer' <= Overall - now
      BY <1>5, <2>2, <3>1, Constants DEF Resume, Await, Least
    <3>3. pc' \in {"more", "stream"} /\ UNCHANGED <<config, now, history>>
      BY <1>5, <2>2 DEF Resume, Await
    <3>4. now \in Nat /\ (bounded => now + timer' <= Overall)
      BY <3>1, <3>2, Constants DEF Types, Typed
    <3> QED BY <3>2, <3>3, <3>4 DEF Clocked, config, history
  <2> QED BY <2>1, <2>2
<1>6. CASE Abandon \/ Timeout \/ Eof \/ Reset
  <2>1. UNCHANGED <<config, now, history>> /\ pc' = "end"
    BY <1>6 DEF Abandon, Timeout, Eof, Reset, Leave
  <2> QED BY <2>1, SameClock DEF Blocked, config, history
<1>7. CASE ServerSends \/ ServerCloses \/ ServerCrashes
  BY <1>7, ServerClock DEF ServerSends, ServerCloses, ServerCrashes
<1>8. CASE Tick
  <2>1. /\ UNCHANGED <<config, pc, taken, frames, wait>>
        /\ Idling \/ Away
        /\ ~ bounded => now' = 0
        /\ pc \in Reads
    BY <1>8 DEF Tick, Idling, Away, Blocked, Reads
  <2>2. CASE trickled' \/ paused'
    <3>1. Blocked /\ bounded => timer' \in Nat
      BY <1>8, Constants DEF Tick, Idling, Clocked
    <3> QED BY <2>1, <2>2, <3>1 DEF Clocked, Blocked, Reads, config
  <2>3. CASE ~ (trickled' \/ paused')
    <3>1. Idling /\ ~ Away /\ taken % Pieces = 0 /\ ~ trickled /\ ~ paused
      BY <1>8, <2>1, <2>3 DEF Tick
    <3>2. Blocked /\ ~ Whole /\ timer # 0
      BY <3>1 DEF Idling
    <3>3. now <= Overall /\ (bounded => timer \in Nat /\ now + timer <= Overall)
      BY <3>1, <3>2 DEF Clocked
    <3>4. bounded => now' = now + 1 /\ timer' = timer - 1 /\ timer' \in Nat
      BY <1>8, <3>1, <3>2, <3>3, Constants DEF Tick, Least, Types, Typed
    <3>5. now' <= Overall /\ (bounded => now' + timer' <= Overall)
      BY <2>1, <3>2, <3>3, <3>4, Constants DEF Types, Typed
    <3> QED BY <2>1, <3>4, <3>5 DEF Clocked, Blocked, Reads, config
  <2> QED BY <2>2, <2>3
<1>9. CASE UNCHANGED vars
  BY <1>9, ServerClock DEF vars
<1> QED
  BY <1>1, <1>2, <1>3, <1>4, <1>5, <1>6, <1>7, <1>8, <1>9 DEF Next, Client, Done

LEMMA InitClocked == Init => Clocked
BY Constants DEF Init, Clocked, Blocked

\* The overall timeout is exceeded only by a frame that trickles in, or by a
\* consumer that stayed away.
THEOREM EndsInTime == Spec => []LateOnlyByTrickle
<1>1. Types /\ Clocked => LateOnlyByTrickle
  BY Constants DEF Types, Typed, Clocked, LateOnlyByTrickle
<1>2. Types /\ Told /\ Clocked /\ [Next]_vars => Types' /\ Told' /\ Clocked'
  BY NextTypes, NextTold, NextClocked
<1> QED BY <1>1, <1>2, InitTypes, InitClocked, PTL DEF Spec
-----------------------------------------------------------------------------
(* Complete responses.                                                      *)

\* What an idle window that runs out says: that the server was silent for as
\* long, or that the overall timeout is near.
Paced ==
    /\ pc \in {"more", "yielded"} => frames > 0
    /\ pc \in {"first", "more"} => kind \in {"local", "single"}
    /\ srv = "closed" => sent = total * Pieces
    /\ pc = "more" =>
          /\ wait \in Nat /\ timer \in Nat /\ 0 < wait
          /\ wait <= Window /\ timer <= wait /\ wait <= quiet + timer
          /\ wait # Window => bounded /\ now + timer >= Overall
          /\ kind = "local" /\ timer = 0 /\ wait = Window
                => slow \/ taken = total * Pieces
    /\ result = "ok" => pc = "end"
    /\ OkIsWhole

LEMMA AllFrames ==
    ASSUME Counted
    PROVE  /\ taken \div Pieces <= total
           /\ taken = total * Pieces => taken \div Pieces = total
<1>1. /\ taken \in Nat /\ total \in Nat /\ Pieces \in Nat \ {0}
      /\ taken <= total * Pieces /\ total * Pieces \in Nat
  BY Constants, Counts DEF Counted
<1>2. (total * Pieces) \div Pieces = total
  <2> DEFINE q == (total * Pieces) \div Pieces
             r == (total * Pieces) % Pieces
  <2>1. q \in Nat /\ r \in Nat /\ r < Pieces /\ total * Pieces = Pieces * q + r
    BY <1>1, DivLaw
  <2> HIDE DEF q, r
  <2>2. q <= total
    BY <1>1, <2>1
  <2>3. ~ q + 1 <= total
    BY <1>1, <2>1
  <2>4. q = total
    BY <1>1, <2>1, <2>2, <2>3
  <2> QED BY <2>4 DEF q
<1> QED BY <1>1, <1>2, DivMono

LEMMA LeavePaced ==
    ASSUME Paced, NEW r, Leave(r), r # "ok",
           UNCHANGED <<config, server, reading, now, quiet, history>>
    PROVE  Paced'
BY DEF Paced, OkIsWhole, Leave, config, server, reading, history

\* A response that ends with the connection has ended, or the server has died.
LEMMA EofIsEnd ==
    ASSUME Types, Told, Paced, Eof, result' = "ok" PROVE Paced'
<1>1. /\ Blocked /\ ~ Whole /\ sent - taken = 0 /\ srv # "up" /\ taken % Pieces = 0
      /\ pc' = "end" /\ UNCHANGED <<config, server, reading, now, quiet, history>>
  BY DEF Eof, Leave, Unread
<1>2. srv \in {"closed", "crashed"}
  BY <1>1 DEF Told, Blocked, Types, Typed
<1>3. taken = frames * Pieces /\ taken \div Pieces = frames
  BY <1>1, Partial DEF Types
<1>4. sent = taken
  BY <1>1 DEF Types, Counted
<1>5. srv = "closed" => frames = total
  BY <1>3, <1>4, AllFrames DEF Paced, Types
<1>6. OkIsWhole'
  BY <1>1, <1>2, <1>3, <1>5 DEF OkIsWhole, config, server, reading
<1> QED BY <1>1, <1>6 DEF Paced, config, server, reading

\* Silence for a whole window is the end, or a server that has paused.
LEMMA TimeoutIsEnd ==
    ASSUME Types, Told, Paced, Timeout, result' = "ok" PROVE Paced'
<1>1. /\ pc = "more" /\ ~ Whole /\ timer = 0
      /\ pc' = "end" /\ UNCHANGED <<config, server, reading, now, quiet, history>>
  BY DEF Timeout, Leave
<1>2. taken \div Pieces = frames
  BY <1>1, Partial DEF Types
<1>3. frames > 0 /\ kind \in {"local", "single"}
  BY <1>1 DEF Paced
<1>4. kind = "single" => frames = total
  <2>1. frames <= total
    BY <1>2, AllFrames DEF Types
  <2> QED BY <1>3, <2>1 DEF Types, Counted
<1>5. kind = "local" => \/ frames = total \/ slow
                        \/ bounded /\ now >= Overall
  <2>1. wait # Window => bounded /\ now + timer >= Overall
    BY <1>1 DEF Paced
  <2>2. kind = "local" /\ wait = Window => slow \/ taken = total * Pieces
    BY <1>1 DEF Paced
  <2>3. now + timer = now
    BY <1>1, Constants DEF Types, Typed
  <2> QED BY <1>2, <2>1, <2>2, <2>3, AllFrames DEF Types
<1>6. OkIsWhole'
  BY <1>1, <1>3, <1>4, <1>5 DEF OkIsWhole, config, server, reading, history
<1> QED BY <1>1, <1>6 DEF Paced, config, server, reading

LEMMA NextPaced == Types /\ Told /\ Paced /\ [Next]_vars => Paced'
<1> SUFFICES ASSUME Types, Told, Paced, [Next]_vars PROVE Paced'
  OBVIOUS
<1>a. ASSUME UNCHANGED <<config, srv, sent, frames, taken, now, history>>,
             pc' \notin {"first", "more", "yielded"}, result' # "ok"
      PROVE  Paced'
  BY <1>a DEF Paced, OkIsWhole, config
<1>1. CASE Connect \/ ReadPrefix \/ Reply \/ HandshakeFails \/ SendFails \/ OpenTask
  <2>1. /\ UNCHANGED <<config, srv, sent, frames, taken, now, history>>
        /\ pc' \in Shake \cup {"send", "end"}
    BY <1>1 DEF Connect, ReadPrefix, Reply, HandshakeFails, SendFails, OpenTask,
                Leave, server, reading, Shake
  <2>2. result' # "ok"
    BY <1>1 DEF Connect, ReadPrefix, Reply, HandshakeFails, SendFails, OpenTask,
                Leave, Paced
  <2> QED BY <1>a, <2>1, <2>2 DEF Shake
<1>2. CASE Send
  <2>1. /\ UNCHANGED <<config, srv, sent, frames, taken, now, history, result>>
        /\ pc = "send" /\ kind # "task"
    BY <1>2 DEF Send
  <2>2. pc' = IF kind = "stream" THEN "stream" ELSE "first"
    <3>1. CASE kind = "stream"
      BY <1>2, <3>1 DEF Send, Await
    <3>2. CASE kind # "stream"
      BY <1>2, <3>2 DEF Send, Await
    <3> QED BY <3>1, <3>2
  <2> QED BY <2>1, <2>2 DEF Paced, OkIsWhole, config, Types, Typed, Kinds
<1>3. CASE Receive
  <2>1. PICK n \in 1 .. Unread : taken' = taken + n
    BY <1>3 DEF Receive
  <2>2. /\ UNCHANGED <<config, server, pc, frames, wait, now, result, history>>
        /\ timer' = wait /\ quiet' = 0 /\ Blocked /\ ~ Whole
    BY <1>3 DEF Receive
  <2>3. result # "ok" /\ Window' = Window
    BY <2>2 DEF Paced, Blocked, Window, config
  <2>4. pc = "more" => now + wait >= now + timer /\ wait <= 0 + wait /\ wait # 0
    BY DEF Paced, Types, Typed
  <2>5. pc = "more" /\ wait # Window => bounded /\ now + wait >= Overall
    BY <2>4, Constants DEF Paced, Types, Typed
  <2> QED BY <2>2, <2>3, <2>4, <2>5 DEF Paced, OkIsWhole, config, server
<1>4. CASE Yield
  <2>1. /\ UNCHANGED <<config, server, now, result, history>>
        /\ frames' = frames + 1 /\ pc' = "yielded" /\ Blocked
    BY <1>4 DEF Yield
  <2>2. frames' > 0 /\ result # "ok"
    BY <2>1 DEF Types, Counted, Paced, Blocked
  <2> QED BY <2>1, <2>2 DEF Paced, OkIsWhole, config, server
<1>5. CASE Resume
  <2>1. CASE bounded /\ now >= Overall
    BY <1>5, <2>1, LeavePaced DEF Resume, server, reading
  <2>2. CASE ~ (bounded /\ now >= Overall)
    <3>1. /\ UNCHANGED <<config, server, taken, frames, now, quiet, history, result>>
          /\ pc = "yielded" /\ timer' = wait'
      BY <1>5, <2>2 DEF Resume, Await
    <3>2. bounded => Overall - now \in Nat /\ Overall - now > 0
      BY <2>2, Constants DEF Types, Typed
    <3>3. \/ kind = "stream" /\ pc' = "stream"
          \/ /\ kind # "stream" /\ pc' = "more"
             /\ \/ wait' = Window
                \/ bounded /\ wait' = Overall - now /\ wait' <= Window
      <4>1. CASE kind = "stream"
        BY <1>5, <2>2, <4>1 DEF Resume, Await
      <4>2. CASE kind # "stream"
        <5>1. /\ pc' = "more"
              /\ wait' = IF bounded THEN Least(Window, Overall - now) ELSE Window
          BY <1>5, <2>2, <4>2 DEF Resume, Await
        <5>2. \/ wait' = Window
              \/ bounded /\ wait' = Overall - now /\ wait' <= Window
          <6>1. CASE bounded
            BY <5>1, <3>2, <6>1, Constants DEF Least
          <6>2. CASE ~ bounded
            BY <5>1, <6>2
          <6> QED BY <6>1, <6>2
        <5>3. pc' = "more"
          BY <5>1
        <5> QED BY <4>2, <5>2, <5>3
      <4> QED BY <4>1, <4>2
    <3>4. kind # "task" /\ result # "ok" /\ frames > 0
      BY <3>1 DEF Told, Reads, Paced
    <3>5. pc' = "more" => /\ wait' \in Nat /\ 0 < wait' /\ wait' <= Window
                          /\ wait' <= quiet + wait'
                          /\ wait' # Window => bounded /\ now + wait' >= Overall
      BY <3>2, <3>3, Constants DEF Types, Typed
    <3>6. Window' = Window
      BY <3>1 DEF Window, config
    <3> QED BY <3>1, <3>3, <3>4, <3>5, <3>6
            DEF Paced, OkIsWhole, config, server, Types, Typed, Kinds
  <2> QED BY <2>1, <2>2
<1>6. CASE Abandon \/ Reset
  BY <1>6, LeavePaced DEF Abandon, Reset
<1>7. CASE Timeout
  <2>1. CASE result' = "ok"
    BY <1>7, <2>1, TimeoutIsEnd
  <2>2. CASE result' # "ok"
    BY <1>7, <2>2, LeavePaced DEF Timeout, Leave
  <2> QED BY <2>1, <2>2
<1>8. CASE Eof
  <2>1. CASE result' = "ok"
    BY <1>8, <2>1, EofIsEnd
  <2>2. CASE result' # "ok"
    BY <1>8, <2>2, LeavePaced DEF Eof, Leave
  <2> QED BY <2>1, <2>2
<1>b. ASSUME UNCHANGED <<config, pc, reading, now, quiet, result, history>>,
             srv' = "closed" => sent' = total * Pieces,
             srv = "crashed" => srv' = "crashed"
      PROVE  Paced'
  <2>1. Window' = Window
    BY <1>b DEF Window, config
  <2> QED BY <1>b, <2>1 DEF Paced, OkIsWhole, config, reading, history
<1>9. CASE ServerSends \/ ServerCloses \/ ServerCrashes
  BY <1>9, <1>b DEF ServerSends, ServerCloses, ServerCrashes
<1>10. CASE Tick
  <2>1. /\ UNCHANGED <<config, server, pc, taken, frames, wait, result>>
        /\ Idling \/ Away
        /\ pc \in Reads /\ Window' = Window
    BY <1>10 DEF Tick, Idling, Away, Blocked, Reads, Window, config
  <2>2. result # "ok"
    BY <2>1 DEF Paced, Reads, Idling, Away, Blocked
  <2>3. CASE pc # "more"
    BY <2>1, <2>2, <2>3 DEF Paced, OkIsWhole, config, server
  <2>4. CASE pc = "more"
    <3>1. Idling /\ timer # 0 /\ sent - taken = 0
      BY <2>1, <2>4 DEF Away, Idling, Unread
    <3>2. /\ wait \in Nat /\ timer \in Nat /\ 0 < wait /\ timer <= wait
          /\ wait <= Window /\ wait <= quiet + timer
          /\ quiet \in Nat /\ now \in Nat /\ Window <= Idle
      BY <2>4, Constants DEF Paced, Types, Typed
    <3>3. timer' = timer - 1 /\ timer' \in Nat /\ timer' <= wait
      BY <1>10, <3>1, <3>2, Constants DEF Tick
    <3>4. wait <= quiet' + timer'
      <4>1. quiet' = quiet + 1 \/ quiet' = Idle
        BY <1>10 DEF Tick, Least
      <4> QED BY <3>2, <3>3, <4>1, Constants
    <3>5. wait # Window => bounded /\ now' + timer' >= Overall
      <4>1. wait # Window => bounded /\ now + timer >= Overall
        BY <2>4 DEF Paced
      <4>2. bounded => now' = now + 1 \/ now' = Overall + 1
        BY <1>10 DEF Tick, Least
      <4> QED BY <3>2, <3>3, <4>1, <4>2, Constants
    <3>6. timer' = 0 /\ wait = Window => slow' \/ taken = total * Pieces
      <4>1. SUFFICES ASSUME timer' = 0, wait = Window, ~ slow'
                     PROVE  taken = total * Pieces
        OBVIOUS
      <4>2. quiet + 1 >= Window
        BY <3>2, <3>3, <4>1
      <4>3. frames > 0
        BY <2>4 DEF Paced
      <4>4. ~ sent < total * Pieces
        BY <1>10, <4>1, <4>2, <4>3 DEF Tick
      <4> QED BY <3>1, <4>4, Counts DEF Types, Counted
    <3> QED BY <2>1, <2>2, <2>4, <3>2, <3>3, <3>4, <3>5, <3>6
            DEF Paced, OkIsWhole, config, server
  <2> QED BY <2>3, <2>4
<1>11. CASE UNCHANGED vars
  BY <1>11, <1>b DEF vars, Paced, server, config
<1> QED
  BY <1>1, <1>2, <1>3, <1>4, <1>5, <1>6, <1>7, <1>8, <1>9, <1>10, <1>11
  DEF Next, Client, Done

LEMMA InitPaced == Init => Paced
BY DEF Init, Paced, OkIsWhole

\* A normal return is the whole response, but for a server that died between
\* two frames, one that paused for an idle window, and an overall timeout.
THEOREM OkMeansWhole == Spec => []OkIsWhole
<1>1. Paced => OkIsWhole
  BY DEF Paced
<1>2. Types /\ Told /\ Paced /\ [Next]_vars => Types' /\ Told' /\ Paced'
  BY NextTypes, NextTold, NextPaced
<1> QED BY <1>1, <1>2, InitTypes, InitPaced, PTL DEF Spec
-----------------------------------------------------------------------------
(* The interactive shell of ShellSession, the other user of a connection:   *)
(* its state machine is ShellSpec, beside the Spec of Command.              *)

Increasing(s) == \A i, j \in 1 .. Len(s) : i < j => s[i] < s[j]
Below(s, n)   == \A i \in 1 .. Len(s) : s[i] <= n

\* What the caller has, or will have when the read that is under way returns.
Output == handed \o chunks

\* It is in order, and nothing of it is still to come; a read that does not collect has
\* collected nothing.
OutputInv == /\ Increasing(Output) /\ Below(Output, read)
             /\ at \notin {"until", "last"} => chunks = << >>
             /\ ~ lost => Output = Upto(read)
             /\ lost \in BOOLEAN

ShellInv  == ShellTypeOK /\ OutputInv

LEMMA ConcatFacts ==
    ASSUME NEW S, NEW h \in Seq(S), NEW c \in Seq(S), NEW x \in S
    PROVE  /\ h \o << >> = h
           /\ h \o c \in Seq(S)
           /\ h \o Append(c, x) = Append(h \o c, x)
           /\ h \o <<x>> = Append(h, x)
           /\ Append(h, x) \in Seq(S) /\ Append(c, x) \in Seq(S)
BY AppendIsConcat, ConcatAssociative, ConcatEmptySeq, ConcatProperties

LEMMA OutputGrows ==
    ASSUME NEW S, S \subseteq Nat, NEW s \in Seq(S), NEW n \in Nat, n + 1 \in S,
           Increasing(s), Below(s, n)
    PROVE  /\ Increasing(Append(s, n + 1)) /\ Below(Append(s, n + 1), n + 1)
           /\ s = Upto(n) => Append(s, n + 1) = Upto(n + 1)
<1> DEFINE t == Append(s, n + 1)
<1>1. /\ Len(s) \in Nat /\ t \in Seq(S) /\ Len(t) = Len(s) + 1 /\ t[Len(s) + 1] = n + 1
      /\ \A i \in 1 .. Len(s) : t[i] = s[i] /\ s[i] \in Nat
  <2>1. \A i \in 1 .. Len(s) : s[i] \in S
    OBVIOUS
  <2>2. t \in Seq(S) /\ Len(t) = Len(s) + 1 /\ t[Len(s) + 1] = n + 1
    OBVIOUS
  <2>3. \A i \in 1 .. Len(s) : t[i] = s[i]
    OBVIOUS
  <2>4. Len(s) \in Nat
    OBVIOUS
  <2> HIDE DEF t
  <2>5. \A i \in 1 .. Len(s) : s[i] \in Nat
    BY <2>1
  <2> QED BY Zenon, <2>2, <2>3, <2>4, <2>5
<1> HIDE DEF t
<1>2. \A i \in 1 .. Len(t) : i \in 1 .. Len(s) \/ i = Len(s) + 1
  BY <1>1
<1>3. \A i \in 1 .. Len(s) : t[i] <= n /\ t[i] < n + 1 /\ t[i] \in Nat
  BY <1>1 DEF Below
<1>4. Below(t, n + 1)
  <2> SUFFICES ASSUME NEW i \in 1 .. Len(t) PROVE t[i] <= n + 1
    BY DEF Below
  <2>1. CASE i \in 1 .. Len(s)
    BY <1>3, <2>1
  <2>2. CASE i = Len(s) + 1
    BY <1>1, <2>2
  <2> QED BY <1>2, <2>1, <2>2
<1>5. Increasing(t)
  <2> SUFFICES ASSUME NEW i \in 1 .. Len(t), NEW j \in 1 .. Len(t), i < j PROVE t[i] < t[j]
    BY DEF Increasing
  <2>1. i \in 1 .. Len(s)
    BY <1>1, <1>2
  <2>2. CASE j \in 1 .. Len(s)
    BY <1>1, <2>1, <2>2 DEF Increasing
  <2>3. CASE j = Len(s) + 1
    BY <1>1, <1>3, <2>1, <2>3
  <2> QED BY <1>2, <2>2, <2>3
<1>6. ASSUME s = Upto(n) PROVE t = Upto(n + 1)
  <2>1. Len(s) = n /\ \A i \in 1 .. n : s[i] = i
    BY <1>6 DEF Upto
  <2>2. Len(t) = n + 1 /\ \A i \in 1 .. n + 1 : t[i] = i
    BY <1>1, <1>2, <2>1
  <2>3. t = [i \in 1 .. n + 1 |-> t[i]]
    BY <1>1, <2>2
  <2> QED BY <2>2, <2>3 DEF Upto
<1> QED BY <1>4, <1>5, <1>6 DEF t

LEMMA OutputPrefix ==
    ASSUME NEW S, NEW h \in Seq(S), NEW c \in Seq(S), NEW n,
           Increasing(h \o c), Below(h \o c, n)
    PROVE  Increasing(h) /\ Below(h, n)
<1> DEFINE t == h \o c
<1>1. \A i \in 1 .. Len(h) : i \in 1 .. Len(t) /\ t[i] = h[i]
  OBVIOUS
<1> HIDE DEF t
<1> QED BY <1>1 DEF Increasing, Below, t

\* The three things a step can do to what was read.
LEMMA OutputKept ==
    ASSUME OutputInv, UNCHANGED <<read, lost>>, Output' = Output,
           at' \notin {"until", "last"} => chunks' = << >>
    PROVE  OutputInv'
BY DEF OutputInv

LEMMA OutputOneMore ==
    ASSUME ShellTypeOK, OutputInv, Available, read' = read + 1, UNCHANGED lost,
           Output' = Append(Output, read + 1),
           at' \notin {"until", "last"} => chunks' = << >>
    PROVE  OutputInv'
<1> DEFINE S == 1 .. MaxOut
<1>1. S \subseteq Nat /\ Output \in Seq(S) /\ read \in Nat /\ read + 1 \in S
  BY ConcatFacts, ShellAssumption DEF ShellTypeOK, Output, Available
<1> HIDE DEF S
<1>2. /\ Increasing(Append(Output, read + 1)) /\ Below(Append(Output, read + 1), read + 1)
      /\ Output = Upto(read) => Append(Output, read + 1) = Upto(read + 1)
  BY <1>1, OutputGrows DEF OutputInv
<1> QED BY <1>2 DEF OutputInv

LEMMA OutputDropped ==
    ASSUME ShellTypeOK, OutputInv, UNCHANGED <<read, handed>>, chunks' = << >>,
           lost' = (lost \/ chunks # << >>)
    PROVE  OutputInv'
<1>1. handed \in Seq(1 .. MaxOut) /\ chunks \in Seq(1 .. MaxOut)
  BY DEF ShellTypeOK
<1>2. Output' = handed /\ (chunks = << >> => Output = handed)
  BY <1>1, ConcatFacts, ConcatEmptySeq DEF Output
<1>3. Increasing(handed) /\ Below(handed, read)
  BY <1>1, OutputPrefix DEF OutputInv, Output
<1> QED BY <1>2, <1>3 DEF OutputInv

\* ShellTypeOK in parts.
ShellFlags == /\ open \in BOOLEAN /\ eof \in BOOLEAN /\ overall \in BOOLEAN
              /\ typed \in 0 .. MaxIn /\ noisy \in BOOLEAN /\ beat \in 0 .. 1

ShellPcs     == {"idle", "recv", "until", "last", "done"}
ShellResults == {"none", "ok", "frame", "eof", "cut", "closed", "raised"}

ShellCore == /\ shell \in {"up", "closed", "crashed"} /\ written \in 0 .. MaxOut
             /\ stdin \in Seq({"line", "exit"})
             /\ at \in ShellPcs /\ ended \in ShellResults

ShellOutput == /\ read \in 0 .. written
               /\ chunks \in Seq(1 .. MaxOut) /\ handed \in Seq(1 .. MaxOut)

LEMMA BackDoes ==
    ASSUME ShellTypeOK, OutputInv, NEW r, NEW out \in Seq(1 .. MaxOut), Back(r, out),
           r \in {"frame", "none", "eof", "cut", "closed", "raised"}
    PROVE  /\ at' = "idle" /\ chunks' = << >> /\ ended' \in ShellResults
           /\ handed' \in Seq(1 .. MaxOut) /\ chunks' \in Seq(1 .. MaxOut)
           /\ r # "raised" => /\ Output' = handed \o out /\ UNCHANGED lost
           /\ r = "raised" => /\ UNCHANGED handed /\ lost' = (lost \/ chunks # << >>)
<1> DEFINE S == 1 .. MaxOut
<1>1. handed \in Seq(S) /\ out \in Seq(S) /\ << >> \in Seq(S)
  BY DEF ShellTypeOK
<1> HIDE DEF S
<1>2. /\ at' = "idle" /\ chunks' = << >> /\ ended' = r
      /\ handed' = handed \o (IF r = "raised" THEN << >> ELSE out)
      /\ lost' = (lost \/ (r = "raised" /\ chunks # << >>))
  BY DEF Back
<1>3. handed \o << >> = handed /\ handed \o out \in Seq(S)
  BY <1>1, ConcatEmptySeq, ConcatProperties
<1>4. /\ r # "raised" => handed' = handed \o out
      /\ r = "raised" => handed' = handed
  BY <1>2, <1>3
<1>5. handed' \in Seq(S) /\ chunks' \in Seq(S)
  BY <1>1, <1>2, <1>3, <1>4
<1>6. handed' \o << >> = handed'
  BY <1>5, ConcatEmptySeq
<1>7. r # "raised" => Output' = handed \o out
  BY <1>2, <1>4, <1>6 DEF Output
<1>8. r # "raised" => UNCHANGED lost
  BY <1>2 DEF OutputInv
<1>9. r = "raised" => lost' = (lost \/ chunks # << >>)
  BY <1>2
<1> QED BY <1>2, <1>4, <1>5, <1>7, <1>8, <1>9 DEF S, ShellResults

LEMMA ShellTypes == ShellTypeOK <=> ShellFlags /\ ShellCore /\ ShellOutput
BY Zenon DEF ShellTypeOK, ShellFlags, ShellCore, ShellOutput, ShellPcs, ShellResults

LEMMA NextShellCore ==
    ASSUME ShellTypeOK, OutputInv, [ShellNext]_shellVars
    PROVE  ShellCore'
<1>1. /\ shell \in {"up", "closed", "crashed"} /\ written \in 0 .. MaxOut
      /\ stdin \in Seq({"line", "exit"}) /\ at \in ShellPcs /\ ended \in ShellResults
  BY ShellTypes DEF ShellCore
<1>2. \A line \in {"line", "exit"} : Append(stdin, line) \in Seq({"line", "exit"})
  BY <1>1
<1>3. stdin # << >> => Tail(stdin) \in Seq({"line", "exit"})
  BY <1>1
<1>4. shell' \in {"up", "closed", "crashed"} /\ written' \in 0 .. MaxOut
  BY <1>1, ShellAssumption DEF ShellNext, SendLine, CallRecv, CallUntil, Close,
       Reading, Recv, ReadFails, Collect, CollectMore, UntilEnds, SendExit,
       LastRead, Write, ReadLine, Vanish, FallSilent, Over, shellVars, device
<1>5. stdin' \in Seq({"line", "exit"})
  BY <1>1, <1>2, <1>3 DEF ShellNext, SendLine, CallRecv, CallUntil, Close, Reading,
       Recv, ReadFails, Collect, CollectMore, UntilEnds, SendExit, LastRead, Write,
       ReadLine, Vanish, FallSilent, Over, shellVars, device, Type
<1>6. at' \in ShellPcs /\ ended' \in ShellResults
  BY <1>1 DEF ShellNext, SendLine, CallRecv, CallUntil, Close,
       Reading, Recv, ReadFails, Collect, CollectMore, UntilEnds, SendExit,
       LastRead, Write, ReadLine, Vanish, FallSilent, Over, shellVars, client, Back,
       ShellPcs, ShellResults
<1> QED BY <1>4, <1>5, <1>6 DEF ShellCore

LEMMA NextShellFlags ==
    ASSUME ShellTypeOK, [ShellNext]_shellVars
    PROVE  ShellFlags'
<1>1. ShellFlags
  BY ShellTypes
<1>2. open' \in BOOLEAN /\ eof' \in BOOLEAN /\ overall' \in BOOLEAN /\ noisy' \in BOOLEAN
  BY <1>1 DEF ShellFlags, ShellNext, SendLine, CallRecv, CallUntil,
       Close, Reading, Recv, ReadFails, Collect, CollectMore, UntilEnds, SendExit,
       LastRead, Write, ReadLine, Vanish, FallSilent, Over, shellVars, device,
       client
<1>3. typed' \in 0 .. MaxIn /\ beat' \in 0 .. 1
  BY <1>1, ShellAssumption DEF ShellFlags, ShellNext, SendLine, CallRecv, CallUntil,
       Close, Reading, Recv, ReadFails, Collect, CollectMore, UntilEnds, SendExit,
       LastRead, Write, ReadLine, Vanish, FallSilent, Over, shellVars, client
<1> QED BY <1>2, <1>3 DEF ShellFlags

\* A frame that is there is one of the shell's.

LEMMA ShellFrame ==
    ASSUME ShellTypeOK, Available, read' = read + 1, UNCHANGED written
    PROVE  read' \in 0 .. written' /\ read + 1 \in 1 .. MaxOut
BY ShellAssumption DEF ShellTypeOK, Available

LEMMA NextOutput ==
    ASSUME ShellTypeOK, OutputInv, [ShellNext]_shellVars
    PROVE  ShellOutput' /\ OutputInv'
<1> DEFINE S == 1 .. MaxOut
<1>a. /\ handed \in Seq(S) /\ chunks \in Seq(S) /\ read \in 0 .. written /\ written \in Nat
      /\ << >> \in Seq(S)
  BY ShellAssumption DEF ShellTypeOK
<1>b. at \notin {"until", "last"} => chunks = << >>
  BY DEF OutputInv
<1> HIDE DEF S
\* Nothing is read.
<1>c. ASSUME UNCHANGED <<read, handed, chunks, lost>>,
             written' = written \/ written' = written + 1,
             at' \notin {"until", "last"} => chunks = << >>
      PROVE  ShellOutput' /\ OutputInv'
  <2>1. Output' = Output
    BY <1>c DEF Output
  <2>2. read' \in 0 .. written'
    BY <1>a, <1>c
  <2> QED BY <1>a, <1>c, <2>1, <2>2, OutputKept DEF ShellOutput, S
\* A read ends and hands out what it has collected.
<1>d. ASSUME NEW r \in {"none", "eof", "cut", "closed"}, Back(r, chunks),
             UNCHANGED <<read, written>>
      PROVE  ShellOutput' /\ OutputInv'
  <2>1. /\ at' = "idle" /\ chunks' = << >> /\ handed' \in Seq(S) /\ chunks' \in Seq(S)
        /\ Output' = handed \o chunks /\ UNCHANGED lost
    BY <1>a, <1>d, BackDoes DEF S
  <2>2. OutputInv'
    BY <1>d, <2>1, OutputKept DEF Output
  <2> QED BY <1>a, <1>d, <2>1, <2>2 DEF ShellOutput, S
\* A read raises.
<1>e. ASSUME Back("raised", << >>), UNCHANGED <<read, written>>
      PROVE  ShellOutput' /\ OutputInv'
  <2>1. /\ chunks' = << >> /\ handed' \in Seq(S) /\ chunks' \in Seq(S)
        /\ UNCHANGED handed /\ lost' = (lost \/ chunks # << >>)
    BY <1>a, <1>e, BackDoes DEF S
  <2>2. OutputInv'
    BY <1>e, <2>1, OutputDropped
  <2> QED BY <1>a, <1>e, <2>1, <2>2 DEF ShellOutput, S
\* A read ends with one frame more.
<1>f. ASSUME NEW r \in {"frame", "closed"}, Back(r, Append(chunks, read + 1)),
             Available, read' = read + 1, UNCHANGED written
      PROVE  ShellOutput' /\ OutputInv'
  <2>0. read' \in 0 .. written' /\ read + 1 \in S
    BY <1>f, ShellFrame DEF S
  <2>1. Append(chunks, read + 1) \in Seq(S)
    BY <1>a, <2>0, ConcatFacts
  <2>2. /\ at' = "idle" /\ chunks' = << >> /\ handed' \in Seq(S) /\ chunks' \in Seq(S)
        /\ Output' = handed \o Append(chunks, read + 1) /\ UNCHANGED lost
    BY <1>f, <2>1, BackDoes DEF S
  <2>3. Output' = Append(Output, read + 1)
    BY <1>a, <2>0, <2>2, ConcatFacts DEF Output
  <2>4. OutputInv'
    BY <1>f, <2>2, <2>3, OutputOneMore
  <2> QED BY <2>0, <2>2, <2>4 DEF ShellOutput, S
<1>1. CASE \/ SendLine \/ CallRecv \/ CallUntil \/ Close
           \/ CollectMore \/ Write \/ ReadLine \/ Vanish
           \/ FallSilent \/ UNCHANGED shellVars
  <2>1. /\ UNCHANGED <<read, handed, chunks, lost>>
        /\ written' = written \/ written' = written + 1
        /\ at' \in {"until", "last"} \/ at \notin {"until", "last"} \/ at' = at
    BY <1>1 DEF SendLine, CallRecv, CallUntil, Close, CollectMore, Write, ReadLine,
         Vanish, FallSilent, shellVars, client, device, output
  <2> QED BY <1>b, <1>c, <2>1
<1>2. CASE Recv
  <2>1. chunks = << >> /\ UNCHANGED written
    BY <1>2, <1>b DEF Recv, device
  <2>2. CASE Available /\ read' = read + 1 /\ Back("frame", <<read + 1>>)
    <3>1. Append(chunks, read + 1) = <<read + 1>>
      BY <2>1
    <3> QED BY <1>f, <2>1, <2>2, <3>1
  <2>3. CASE Back("none", << >>) /\ UNCHANGED read
    BY <1>d, <2>1, <2>3
  <2>4. CASE Back("eof", << >>) /\ UNCHANGED read
    BY <1>d, <2>1, <2>4
  <2> QED BY <1>2, <2>2, <2>3, <2>4 DEF Recv
<1>3. CASE ReadFails
  BY <1>3, <1>e DEF ReadFails, device
<1>4. CASE Collect
  <2>1. /\ Available /\ read' = read + 1 /\ chunks' = Append(chunks, read + 1)
        /\ UNCHANGED <<written, handed, lost, at>> /\ at = "until"
    BY <1>4 DEF Collect, device
  <2>2. read' \in 0 .. written' /\ read + 1 \in S
    BY <2>1, ShellFrame DEF S
  <2>3. chunks' \in Seq(S) /\ Output' = Append(Output, read + 1)
    BY <1>a, <2>1, <2>2, ConcatFacts DEF Output
  <2>4. OutputInv'
    BY <2>1, <2>3, OutputOneMore
  <2> QED BY <1>a, <2>1, <2>2, <2>3, <2>4 DEF ShellOutput, S
<1>5. CASE UntilEnds
  <2>1. /\ UNCHANGED <<read, written>>
        /\ Back("eof", chunks) \/ Back("cut", chunks)
    BY <1>5 DEF UntilEnds, device
  <2> QED BY <1>d, <2>1
<1>6. CASE SendExit
  <2>1. UNCHANGED <<read, written>>
    BY <1>6 DEF SendExit
  <2>2. CASE at' = "last" /\ UNCHANGED <<chunks, handed, ended, lost>>
    BY <1>c, <2>1, <2>2
  <2>3. CASE Back("raised", << >>)
    BY <1>e, <2>1, <2>3
  <2> QED BY <1>6, <2>2, <2>3 DEF SendExit
<1>7. CASE LastRead
  <2>1. UNCHANGED written
    BY <1>7 DEF LastRead, device
  <2>2. CASE /\ Available /\ read' = read + 1
             /\ Back("closed", Append(chunks, read + 1))
    BY <1>f, <2>1, <2>2
  <2>3. CASE UNCHANGED read /\ (Back("closed", chunks) \/ Back("eof", chunks))
    BY <1>d, <2>1, <2>3
  <2> QED BY <1>7, <2>2, <2>3 DEF LastRead
<1> QED BY <1>1, <1>2, <1>3, <1>4, <1>5, <1>6, <1>7 DEF ShellNext, Reading, Over

LEMMA InitShellInv == ShellInit => ShellInv
<1> SUFFICES ASSUME ShellInit PROVE ShellTypeOK /\ OutputInv
  BY DEF ShellInv
<1>1. handed = << >> /\ chunks = << >> /\ read = 0 /\ written = 0 /\ stdin = << >>
  BY DEF ShellInit
<1>2. ShellTypeOK
  <2>1. ShellFlags
    <3>1. open \in BOOLEAN /\ eof \in BOOLEAN /\ overall \in BOOLEAN /\ noisy \in BOOLEAN
      BY DEF ShellInit
    <3>2. typed = 0 /\ beat = 0
      BY DEF ShellInit
    <3>3. typed \in 0 .. MaxIn /\ beat \in 0 .. 1
      BY <3>2, ShellAssumption
    <3> QED BY <3>1, <3>3 DEF ShellFlags
  <2>2. << >> \in Seq({"line", "exit"}) /\ << >> \in Seq(1 .. MaxOut)
    OBVIOUS
  <2>3. 0 \in 0 .. MaxOut /\ 0 \in 0 .. 0
    BY ShellAssumption
  <2>4. ShellCore
    BY <1>1, <2>2, <2>3 DEF ShellInit, ShellCore, ShellPcs, ShellResults
  <2>5. ShellOutput
    BY <1>1, <2>2, <2>3 DEF ShellOutput
  <2> QED BY <2>1, <2>4, <2>5, ShellTypes
<1>3. Output = << >> /\ Len(Output) = 0 /\ Upto(0) = << >>
  BY <1>1 DEF Output, Upto
<1>4. Increasing(Output) /\ Below(Output, read)
  BY <1>3 DEF Increasing, Below
<1>5. OutputInv
  BY <1>1, <1>3, <1>4 DEF OutputInv, ShellInit
<1> QED BY <1>2, <1>5

LEMMA NextShellInv == ShellInv /\ [ShellNext]_shellVars => ShellInv'
<1> SUFFICES ASSUME ShellTypeOK, OutputInv, [ShellNext]_shellVars
             PROVE  ShellTypeOK' /\ OutputInv'
  BY DEF ShellInv
<1>1. ShellCore' /\ ShellFlags' /\ ShellOutput' /\ OutputInv'
  BY NextShellCore, NextShellFlags, NextOutput
<1>2. ShellFlags' /\ ShellCore' /\ ShellOutput' => ShellTypeOK'
  BY ShellTypes, PTL
<1> QED BY <1>1, <1>2

LEMMA OutputIsInOrder == ShellInv => OutputInOrder
BY DEF ShellInv, OutputInv, Output, Increasing, OutputInOrder

\* However recv and read_until_close are mixed, the caller gets the output in order and
\* no frame twice.
THEOREM ShellOutputInOrder == ShellSpec => []OutputInOrder
BY InitShellInv, NextShellInv, OutputIsInOrder, PTL DEF ShellSpec
=============================================================================
