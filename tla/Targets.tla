------------------------------- MODULE Targets -------------------------------
(***************************************************************************)
(* The device queries of HdcClient (hdcutils/core.py): device() asks for the *)
(* list of targets once, wait() polls it until a device is Connected or its *)
(* deadline has passed.  Every query is a command of ServerLifecycle, with  *)
(* its cache, probe and pull-up, and may so take any time, raise an         *)
(* HdcError, or leave with an exception that is none.                       *)
(*                                                                          *)
(* One device is followed, and what "list targets -v" says of it: Connected *)
(* or not (absent, Offline, or a Ready entry, which is not usable).         *)
(***************************************************************************)
EXTENDS ServerLifecycle

CONSTANT Patience   \* timeout of wait(), in ticks

ASSUME PatienceAssumption == Patience \in Nat

VARIABLES dev,      \* the server lists the device as Connected
          call,     \* "device", "wait", "sleep" (between two polls), "none"
          left,     \* ticks to the deadline of wait()
          seen,     \* the last list had the device as Connected
          late,     \* polls begun after the deadline (history)
          steady    \* Connected ever since the last poll began, and the server
                    \* it had reached there until it ended (history)

waiting == <<call, left, seen, late, steady>>
tvars   == <<vars, dev, waiting>>

TInit == /\ Init
         /\ dev \in BOOLEAN
         /\ call = [c \in Clients |-> "none"]
         /\ left = [c \in Clients |-> 0]
         /\ seen = [c \in Clients |-> FALSE]
         /\ late = [c \in Clients |-> 0]
         /\ steady = [c \in Clients |-> FALSE]

Becomes(c, k) == call' = [call EXCEPT ![c] = k]

\* The device's state is d now; a poll under way may have seen either.
Turns(d) == /\ dev' = d
            /\ steady' = [c \in Clients |-> steady[c] /\ d = dev]

\* Any other call; "tconn" is a command that may attach or detach the device.
Plain(c) == /\ call[c] = "none"
            /\ Step(c)
            /\ \E d \in BOOLEAN :
                  /\ d # dev => pc[c] = "open"
                  /\ Turns(d)
            /\ UNCHANGED <<call, left, seen, late>>

\* A poll begins with _ensure.
BeginPoll(c) == Begin(c, "command") /\ steady' = [steady EXCEPT ![c] = dev]

AskDevice(c) == /\ call[c] = "none"
                /\ Begin(c, "command")
                /\ Becomes(c, "device")
                /\ UNCHANGED <<dev, left, seen, late, steady>>

AskWait(c) == /\ call[c] = "none"
              /\ BeginPoll(c)
              /\ Becomes(c, "wait")
              /\ left' = [left EXCEPT ![c] = Patience]
              /\ UNCHANGED <<dev, seen, late>>

\* What _parse_list_targets may find: no target, one, or several; and whether
\* one of them counts, is_connected.
Listing  == {"none", "one", "several"}

\* What the list of a poll says of the device: how it stood when the command
\* reached the server, or when the server was done.  A server that goes before
\* it has answered leaves an empty list, and no error.
Lists(c) == IF pc'[c] = "open" THEN {dev}
            ELSE IF pc[c] = "open" /\ result'[c] = "ok"
                 THEN {seen[c], c \in linked /\ dev}
            ELSE {FALSE}

\* The command of a query goes on, and brings a list if it succeeds.
Query(c) == /\ call[c] \in {"device", "wait"}
            /\ pc[c] # "idle"
            /\ Step(c)
            /\ \E listed \in Lists(c) :
                  seen' = [seen EXCEPT ![c] = call[c] = "wait" /\ listed]
            /\ steady' = [steady EXCEPT ![c] = @ /\ (pc[c] = "open" => c \in linked)]
            /\ UNCHANGED <<dev, call, left, late>>

Over(c, r) == /\ result' = [result EXCEPT ![c] = r]
              /\ Becomes(c, "none")
              /\ left' = [left EXCEPT ![c] = 0]
              /\ seen' = [seen EXCEPT ![c] = FALSE]
              /\ late' = [late EXCEPT ![c] = 0]
              /\ steady' = [steady EXCEPT ![c] = FALSE]
              /\ UNCHANGED <<machine, config, pc, op, cache, spent, target,
                             sight, dev>>

Answered(c, k) == call[c] = k /\ pc[c] = "idle"

\* device(): exactly one target, or an HdcError; other devices may be there.
JudgeDevice(c) ==
    /\ Answered(c, "device")
    /\ \E targets \in Listing :
          Over(c, IF result[c] # "ok" THEN result[c]
                  ELSE IF targets = "one" THEN "ok" ELSE "error")

GiveUp(c) == left[c] = 0 /\ Over(c, "error")

Sleep(c) == /\ Becomes(c, "sleep")
            /\ UNCHANGED <<vars, dev, left, seen, late, steady>>

DozeOff(c) == left[c] > 0 /\ Sleep(c)

\* Mutant: the deadline is looked at before the list.
HastyJudgeWait(c) ==
    /\ Answered(c, "wait")
    /\ \/ GiveUp(c)
       \/ left[c] > 0 /\ seen[c] /\ Over(c, "ok")
       \/ left[c] > 0 /\ result[c] = "escaped" /\ Over(c, "escaped")
       \/ ~ seen[c] /\ result[c] # "escaped" /\ DozeOff(c)

\* Mutant: a poll that raised is repeated without a look at the clock.
StubbornJudgeWait(c) ==
    /\ Answered(c, "wait")
    /\ \/ seen[c] /\ Over(c, "ok")
       \/ result[c] = "escaped" /\ Over(c, "escaped")
       \/ result[c] = "error" /\ Sleep(c)
       \/ ~ seen[c] /\ result[c] = "ok" /\ (GiveUp(c) \/ DozeOff(c))

\* wait(): a Connected device ends it at once; whatever is no HdcError goes
\* through; an HdcError counts as an empty list, and only if nothing is ready
\* does it look at the clock.
JudgeWait(c) ==
    /\ Answered(c, "wait")
    /\ \/ seen[c] /\ Over(c, "ok")
       \/ result[c] = "escaped" /\ Over(c, "escaped")
       \/ /\ ~ seen[c] /\ result[c] # "escaped"
          /\ GiveUp(c) \/ DozeOff(c)

PollAgain(c) == /\ call[c] = "sleep"
                /\ BeginPoll(c)
                /\ Becomes(c, "wait")
                /\ late' = [late EXCEPT ![c] = IF left[c] = 0 /\ @ < 2
                                               THEN @ + 1 ELSE @]
                /\ UNCHANGED <<dev, left, seen>>

Caller(c) == \/ Plain(c) \/ AskDevice(c) \/ AskWait(c) \/ Query(c)
             \/ JudgeDevice(c) \/ JudgeWait(c) \/ PollAgain(c)

\* The device is plugged in, authorised, rebooted or pulled out.
Attach == Turns(~ dev) /\ UNCHANGED <<vars, call, left, seen, late>>

TTick == /\ Tick
         /\ left' = [c \in Clients |-> IF left[c] > 0 THEN left[c] - 1 ELSE 0]
         /\ UNCHANGED <<dev, call, seen, late, steady>>

TNext == \/ \E c \in Clients : Caller(c)
         \/ Attach
         \/ World /\ UNCHANGED <<dev, waiting>>
         \/ TTick

Busy(c) == pc[c] # "idle" \/ call[c] # "none"

\* As in ServerLifecycle; and a sleep between two polls ends.
TSpec == /\ TInit /\ [][TNext]_tvars
         /\ WF_tvars(TTick)
         /\ \A c \in Clients : WF_tvars(Busy(c) /\ ~ Endless(c) /\ Caller(c))
-----------------------------------------------------------------------------
(* Properties.                                                              *)

\* wait() gives up only after its deadline, and only if its last poll failed,
\* lost its server, or did not find the device Connected all through it: a device
\* that stands ready on a live server is returned however late the answer came.
TimeoutIsDue ==
    [][\A c \in Clients :
          Answered(c, "wait") /\ call'[c] = "none" /\ result'[c] = "error"
              => left[c] = 0 /\ (result[c] = "error" \/ ~ steady[c])]_tvars

\* The deadline is looked at between polls only, and each poll may take the
\* time of a server start: wait() overruns it by one poll, never by more,
\* whether its polls fail or find nothing.
OneLatePoll == \A c \in Clients : late[c] <= 1

\* Every query, command, start, kill or restart returns or raises, whatever the
\* binary, the server, the device and the killed process do.  Only a shell that
\* was given no timeout may hang, and only on a connection that was accepted: it
\* too gets past _ensure.
QueriesReturn == \A c \in Clients : Busy(c) ~> (~ Busy(c) \/ Endless(c))
=============================================================================
