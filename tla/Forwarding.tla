----------------------------- MODULE Forwarding -----------------------------
(***************************************************************************)
(* Port forwarding (hdcutils/_device.py): create_connection picks a free    *)
(* local port, has the server forward it (fport) and connects to it; the    *)
(* ForwardedSocket it returns removes the rule when it is closed.  The      *)
(* sockets share the server's table of rules, and a rule is known by its    *)
(* text alone: here one device endpoint, so the local port.  A program may   *)
(* also set rules itself (fport, rport), and remove one or all of them.     *)
(***************************************************************************)
EXTENDS Naturals

CONSTANTS Socks,      \* the ForwardedSockets a program creates
          Ports,      \* local TCP ports
          ByHand      \* rules that the program sets itself

ASSUME RulesAssumption == Ports \cap ByHand = {}

VARIABLES rules,      \* ports the server forwards, and the rules set by hand
          busy,       \* ports other programs listen on
          st, port,   \* of each socket
          sweeping,   \* fport_remove_all is under way
          todo,       \* the rules it listed and has not come to
          owed,       \* those nobody has removed since (history)
          closings,   \* how often close() was called on it, up to 2
          race,       \* two sockets picked one port at the same time (history)
          failed,     \* an answer was lost or a removal refused (history)
          meddled     \* a rule was removed by fport_remove (history)

history == <<race, failed, meddled>>
sweep   == <<sweeping, todo>>
vars    == <<rules, busy, st, port, closings, sweep, owed, history>>

Init == /\ rules = {} /\ busy \in SUBSET Ports
        /\ st = [s \in Socks |-> "none"]
        /\ port \in [Socks -> Ports]
        /\ closings = [s \in Socks |-> 0]
        /\ sweeping = FALSE /\ todo = {} /\ owed = {}
        /\ race = FALSE /\ failed = FALSE /\ meddled = FALSE

Goto(s, l) == st' = [st EXCEPT ![s] = l]
Become(r)  == rules' = r /\ owed' = owed \cap r
Same       == UNCHANGED <<rules, owed>>

\* Between the choice of a port and its rule, others may choose it too.
Choosing == {s \in Socks : st[s] \in {"fport", "connect"}}
-----------------------------------------------------------------------------
(* create_connection.                                                       *)

\* Mutant: the next port, whether or not it is free.
AnyPort(s) == /\ st[s] = "none"
              /\ \E p \in Ports :
                    /\ port' = [port EXCEPT ![s] = p]
                    /\ race' = (race \/ \E t \in Choosing : port[t] = p)
              /\ Goto(s, "fport")
              /\ UNCHANGED <<rules, busy, closings, sweep, owed, failed,
                               meddled>>

\* _free_tcp_port: bound and given back, so free at that moment.
FreePort(s) == /\ st[s] = "none"
               /\ \E p \in Ports \ (rules \cup busy) :
                     /\ port' = [port EXCEPT ![s] = p]
                     /\ race' = (race \/ \E t \in Choosing : port[t] = p)
               /\ Goto(s, "fport")
               /\ UNCHANGED <<rules, busy, closings, sweep, owed, failed,
                               meddled>>

\* fport: the server listens, or the rule is there already, or the port is
\* taken.  A request may be lost, or only its answer: the call raises.
Fport(s) == /\ st[s] = "fport"
            /\ \/ /\ port[s] \notin busy
                  /\ Become(rules \cup {port[s]})
                  /\ Goto(s, "connect")
                  /\ UNCHANGED failed
               \/ /\ port[s] \in busy
                  /\ Goto(s, "raised")
                  /\ UNCHANGED failed /\ Same
               \/ /\ Same \/ (port[s] \notin busy /\ Become(rules \cup {port[s]}))
                  /\ Goto(s, "raised")
                  /\ failed' = TRUE
            /\ UNCHANGED <<busy, port, closings, sweep, race, meddled>>

\* Mutant: a failed connect just raises.
ConnectOnly(s) == /\ st[s] = "connect"
                  /\ \/ port[s] \in rules /\ Goto(s, "open")
                     \/ Goto(s, "raised")
                  /\ UNCHANGED <<rules, busy, port, closings, sweep, owed, history>>

Connect(s) == /\ st[s] = "connect"
              /\ \/ port[s] \in rules /\ Goto(s, "open")
                 \/ Goto(s, "undo")
              /\ UNCHANGED <<rules, busy, port, closings, sweep, owed, history>>

\* fport rm: done; or refused, because there is no such rule; or lost on the
\* way there or back.
Removed(p) == p \in rules /\ Become(rules \ {p}) /\ UNCHANGED failed
Refused(p) == p \notin rules /\ Same /\ UNCHANGED failed
Unknown(p) == (Same \/ Become(rules \ {p})) /\ failed' = TRUE
Remove(p)  == Removed(p) \/ Refused(p) \/ Unknown(p)

\* The rule of a connection that failed is removed; either error is raised.
Undo(s) == /\ st[s] = "undo"
           /\ Remove(port[s])
           /\ Goto(s, "raised")
           /\ UNCHANGED <<busy, port, closings, sweep, race, meddled>>
-----------------------------------------------------------------------------
(* ForwardedSocket.close, and fport_remove of any task.                     *)

\* close() removes the rule, every time it is called, and ignores errors.
Close(s) == /\ st[s] \in {"open", "closed"}
            /\ closings[s] < 2
            /\ Remove(port[s])
            /\ Goto(s, "closed")
            /\ closings' = [closings EXCEPT ![s] = @ + 1]
            /\ UNCHANGED <<busy, port, sweep, race, meddled>>

FportRemove == /\ \E p \in rules : Remove(p)
               /\ meddled' = TRUE
               /\ UNCHANGED <<busy, st, port, closings, sweep, race>>

\* fport or rport of any task.
ForwardOp == /\ \E r \in ByHand \ rules : Become(rules \cup {r})
             /\ UNCHANGED <<busy, st, port, closings, sweep, history>>

\* fport_remove_all begins with fport_list, whose answer may be cut by the idle
\* window, or a "[Fail]" that passes for an empty list; or it raises.
FportList == /\ ~ sweeping
             /\ sweeping' = TRUE
             /\ todo' \in SUBSET rules
             /\ owed' = todo'
             /\ UNCHANGED <<rules, busy, st, port, closings, history>>

\* Mutant: a removal that is refused or fails is passed over.
SweepOn == /\ sweeping
           /\ \E p \in todo : Remove(p) /\ todo' = todo \ {p}
           /\ meddled' = TRUE
           /\ UNCHANGED <<busy, st, port, closings, sweeping, race>>

\* It removes them one by one, and raises at the first that is refused, because
\* somebody else has removed it, or that fails.
Sweep == /\ sweeping
         /\ \E p \in todo :
               \/ Removed(p) /\ todo' = todo \ {p} /\ UNCHANGED sweeping
               \/ (Refused(p) \/ Unknown(p)) /\ todo' = {} /\ sweeping' = FALSE
         /\ meddled' = TRUE
         /\ UNCHANGED <<busy, st, port, closings, race>>

SweepEnds == /\ sweeping /\ todo = {}
             /\ sweeping' = FALSE
             /\ UNCHANGED <<rules, busy, st, port, closings, todo, owed, history>>

Step(s) == FreePort(s) \/ Fport(s) \/ Connect(s) \/ Undo(s) \/ Close(s)

\* Another program takes a port, or gives it back.
Others == /\ \E p \in Ports \ rules :
                busy' = IF p \in busy THEN busy \ {p} ELSE busy \cup {p}
          /\ UNCHANGED <<rules, st, port, closings, sweep, owed, history>>

Next == \/ \E s \in Socks : Step(s)
        \/ FportRemove \/ ForwardOp \/ FportList \/ Sweep \/ SweepEnds
        \/ Others

Spec == Init /\ [][Next]_vars
-----------------------------------------------------------------------------
(* Properties.                                                              *)

TypeOK == /\ rules \subseteq Ports \cup ByHand /\ busy \subseteq Ports
          /\ todo \subseteq Ports \cup ByHand /\ owed \subseteq todo \cup rules
          /\ sweeping \in BOOLEAN
          /\ rules \cap busy = {}
          /\ st \in [Socks -> {"none", "fport", "connect", "undo", "open",
                               "closed", "raised"}]
          /\ port \in [Socks -> Ports]
          /\ closings \in [Socks -> 0 .. 2]

Twice == \E s \in Socks : closings[s] = 2

\* An open ForwardedSocket has its rule, whatever other sockets are opened,
\* fail or close meanwhile: unless somebody removes rules by hand, two sockets
\* got one port in the same instant, or one was closed twice.
OpenIsForwarded ==
    ~ (race \/ meddled \/ Twice) =>
        \A s \in Socks : st[s] = "open" => port[s] \in rules

\* No rule is left behind, by a close or a failed create_connection, unless the
\* server's answer was lost or it refused the removal.  (TypeOK: no rule has a
\* port that another program listens on.)
NoOrphans ==
    /\ TypeOK
    /\ ~ failed => \A p \in rules \ ByHand : \E s \in Socks :
                    port[s] = p /\ st[s] \in {"fport", "connect", "undo", "open"}

\* fport_remove_all passes over no rule: each one it listed and has gone past, so
\* all of them when it returns, has been removed since, by itself or by others,
\* however the rules changed meanwhile.
RemoveAllClears == sweeping => owed \subseteq todo
=============================================================================
