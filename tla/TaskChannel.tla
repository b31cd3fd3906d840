----------------------------- MODULE TaskChannel -----------------------------
(***************************************************************************)
(* TaskChannel of hdcutils/_task.py: one TCP connection that carries one    *)
(* file or app task, as frames [command, payload] in both directions.       *)
(* FrameReader shows that frames arrive whole and in order whatever the     *)
(* chunks, so here a frame is one element of a sequence.                    *)
(*                                                                          *)
(* up and down hold every frame the client and the daemon ever wrote; ut    *)
(* and dn count those the other side has taken.  What lies between is in    *)
(* the sockets, or on its way.                                              *)
(***************************************************************************)
EXTENDS Naturals, Sequences

CONSTANT UpMax      \* frames the sockets hold before sendall blocks

ASSUME TaskChannelAssumption == UpMax \in Nat \ {0}

VARIABLES up, ut,   \* client to daemon: frames written, frames taken
          down, dn, \* daemon to client
          peer      \* how the client's connection stands

chVars == <<up, ut, down, dn, peer>>

\* "eof": the server closed between two frames; "torn": in the middle of one;
\* "reset": recv and sendall fail.
PeerStates == {"open", "eof", "torn", "reset"}

ChannelInit == /\ up = << >> /\ ut = 0
               /\ down = << >> /\ dn = 0
               /\ peer = "open"

IndicesOK == /\ ut \in 0 .. Len(up)
             /\ dn \in 0 .. Len(down)
             /\ peer \in PeerStates
             /\ Len(up) - ut <= UpMax
-----------------------------------------------------------------------------
(* The client's side.                                                       *)

\* recv returns frame m.
ClientTakes(m) == /\ dn < Len(down)
                  /\ m = down[dn + 1]
                  /\ dn' = dn + 1
                  /\ UNCHANGED <<up, ut, down, peer>>

\* recv returns (None, None), or raises.  A reset may overtake frames that
\* have arrived, or not.
ClientSeesEof   == peer = "eof" /\ dn = Len(down)
ClientSeesTorn  == peer = "torn" /\ dn = Len(down)
ClientSeesReset == peer = "reset"

Room == Len(up) - ut < UpMax

\* send_cmd: sendall returns once the frame is in the sockets.
ClientSends(m) == /\ Room
                  /\ up' = Append(up, m)
                  /\ UNCHANGED <<ut, down, dn, peer>>

\* sendall raises: the peer is gone, or the timeout that the last recv left on
\* the socket expires while the sockets are full (an OSError in both cases).
SendRaises == peer # "open" \/ ~ Room
-----------------------------------------------------------------------------
(* The daemon's side, behind the hdc server.                                *)

DaemonHears(m) == /\ ut < Len(up)
                  /\ m = up[ut + 1]
                  /\ ut' = ut + 1

\* What the daemon says is lost once the client's connection is.
DaemonSays(ms) == down' = IF peer = "open" THEN down \o ms ELSE down

\* The daemon ends the task, and the server closes the client's connection.
DaemonCloses == peer' = IF peer = "open" THEN "eof" ELSE peer

\* The server dies or the connection breaks: what the client has not received
\* may be lost, from any frame on.
LinkLost == /\ peer = "open"
            /\ peer' \in PeerStates \ {"open"}
            /\ \E k \in dn .. Len(down) : down' = SubSeq(down, 1, k)
            /\ UNCHANGED <<up, ut, dn>>
=============================================================================
