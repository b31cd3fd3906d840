-------------------------- MODULE ForwardingProofs --------------------------
(***************************************************************************)
(* The safety of port forwarding, for any sockets, ports and rules set by   *)
(* hand.  NoOrphans and RemoveAllClears are inductive but for the type       *)
(* invariant; OpenIsForwarded needs that sockets which are being opened or   *)
(* open have ports of their own, and that from fport on each has its rule.   *)
(***************************************************************************)
EXTENDS Forwarding, TLAPS

Undisturbed == ~ (race \/ meddled \/ Twice)

OwedAreRules == owed \subseteq rules

\* A socket that was closed has been closed before.
ClosedOnce == \A s \in Socks : st[s] = "closed" => closings[s] >= 1

InHand == {"fport", "connect", "undo", "open"}

PortsDistinct == \A s, t \in Socks : /\ s # t
                                     /\ st[s] \in InHand
                                     /\ st[t] \in InHand
                                     => port[s] # port[t]

RuleIsHeld == \A s \in Socks :
                 st[s] \in {"connect", "undo", "open"} => port[s] \in rules

Types == TypeOK /\ OwedAreRules
-----------------------------------------------------------------------------
(* Types.                                                                   *)

LEMMA InitTypes == Init => Types
<1> SUFFICES ASSUME Init PROVE Types
  OBVIOUS
<1>1. closings \in [Socks -> 0 .. 2]
  BY DEF Init
<1>2. st \in [Socks -> {"none", "fport", "connect", "undo", "open", "closed",
                       "raised"}]
  BY DEF Init
<1>3. /\ rules \subseteq Ports \cup ByHand /\ busy \subseteq Ports
      /\ todo \subseteq Ports \cup ByHand /\ owed \subseteq todo \cup rules
      /\ sweeping \in BOOLEAN
      /\ rules \cap busy = {}
      /\ port \in [Socks -> Ports]
      /\ owed \subseteq rules
  BY DEF Init
<1> QED BY <1>1, <1>2, <1>3 DEF Types, TypeOK, OwedAreRules

\* The table after an addition that nobody's port stands in the way of, or
\* after a removal, is a table again.
LEMMA RemoveTypes ==
    ASSUME Types, NEW p, Remove(p)
    PROVE  /\ rules' \subseteq rules
           /\ rules \ {p} \subseteq rules'
           /\ owed' = owed \cap rules'
BY DEF Types, TypeOK, OwedAreRules, Remove, Removed, Refused, Unknown,
       Become, Same

LEMMA NextTypes == Types /\ [Next]_vars => Types'
<1> SUFFICES ASSUME Types, [Next]_vars PROVE Types'
  OBVIOUS
<1> USE DEF Types, TypeOK, OwedAreRules, history, sweep
<1>1. ASSUME NEW s \in Socks, FreePort(s) PROVE Types'
  BY <1>1 DEF FreePort, Goto
<1>2. ASSUME NEW s \in Socks, Fport(s) PROVE Types'
  BY <1>2 DEF Fport, Goto, Become, Same
<1>3. ASSUME NEW s \in Socks, Connect(s) PROVE Types'
  BY <1>3 DEF Connect, Goto
<1>4. ASSUME NEW s \in Socks, Undo(s) PROVE Types'
  <2>1. rules' \subseteq rules /\ owed' = owed \cap rules'
    BY <1>4, RemoveTypes DEF Undo
  <2> QED BY <1>4, <2>1 DEF Undo, Goto
<1>5. ASSUME NEW s \in Socks, Close(s) PROVE Types'
  <2>1. rules' \subseteq rules /\ owed' = owed \cap rules'
    BY <1>5, RemoveTypes DEF Close
  <2>2. closings' \in [Socks -> 0 .. 2]
    BY <1>5 DEF Close
  <2> QED BY <1>5, <2>1, <2>2 DEF Close, Goto
<1>6. CASE FportRemove
  <2>1. rules' \subseteq rules /\ owed' = owed \cap rules'
    BY <1>6, RemoveTypes DEF FportRemove
  <2> QED BY <1>6, <2>1 DEF FportRemove
<1>7. CASE ForwardOp
  BY <1>7, RulesAssumption DEF ForwardOp, Become
<1>8. CASE FportList
  BY <1>8 DEF FportList
<1>9. CASE Sweep
  <2>1. rules' \subseteq rules /\ owed' = owed \cap rules'
    BY <1>9, RemoveTypes DEF Sweep, Remove
  <2>2. todo' \subseteq todo /\ sweeping' \in BOOLEAN
    BY <1>9 DEF Sweep
  <2> QED BY <1>9, <2>1, <2>2 DEF Sweep
<1>10. CASE SweepEnds
  BY <1>10 DEF SweepEnds
<1>11. CASE Others
  BY <1>11 DEF Others
<1>12. CASE UNCHANGED vars
  BY <1>12 DEF vars
<1> QED
  BY <1>1, <1>2, <1>3, <1>4, <1>5, <1>6, <1>7, <1>8, <1>9, <1>10, <1>11, <1>12
  DEF Next, Step
-----------------------------------------------------------------------------
(* No rule is left behind.                                                  *)

Kept == ~ failed => \A p \in rules \ ByHand : \E s \in Socks :
                      port[s] = p /\ st[s] \in InHand

LEMMA NextKept == Types /\ Kept /\ [Next]_vars => Kept'
<1> SUFFICES ASSUME Types, Kept, [Next]_vars, ~ failed',
                    NEW p \in rules' \ ByHand
             PROVE  \E s \in Socks : port'[s] = p /\ st'[s] \in InHand
  BY DEF Kept
<1> USE DEF Types, TypeOK, InHand, history, sweep
<1>1. ~ failed => (p \in rules =>
                     \E s \in Socks : port[s] = p /\ st[s] \in InHand)
  BY DEF Kept
<1>2. ASSUME NEW s \in Socks, FreePort(s)
      PROVE  \E t \in Socks : port'[t] = p /\ st'[t] \in InHand
  BY <1>1, <1>2 DEF FreePort, Goto
<1>3. ASSUME NEW s \in Socks, Fport(s)
      PROVE  \E t \in Socks : port'[t] = p /\ st'[t] \in InHand
  BY <1>1, <1>3 DEF Fport, Goto, Become, Same
<1>4. ASSUME NEW s \in Socks, Connect(s)
      PROVE  \E t \in Socks : port'[t] = p /\ st'[t] \in InHand
  BY <1>1, <1>4 DEF Connect, Goto
<1>5. ASSUME NEW s \in Socks, Undo(s)
      PROVE  \E t \in Socks : port'[t] = p /\ st'[t] \in InHand
  BY <1>1, <1>5 DEF Undo, Goto, Remove, Removed, Refused, Unknown, Become, Same
<1>6. ASSUME NEW s \in Socks, Close(s)
      PROVE  \E t \in Socks : port'[t] = p /\ st'[t] \in InHand
  BY <1>1, <1>6 DEF Close, Goto, Remove, Removed, Refused, Unknown, Become, Same
<1>7. CASE FportRemove
  BY <1>1, <1>7 DEF FportRemove, Remove, Removed, Refused, Unknown, Become, Same
<1>8. CASE ForwardOp
  BY <1>1, <1>8 DEF ForwardOp, Become
<1>9. CASE FportList
  BY <1>1, <1>9 DEF FportList
<1>10. CASE Sweep
  <2>1. PICK q \in todo : Removed(q) \/ Refused(q) \/ Unknown(q)
    BY <1>10 DEF Sweep
  <2>2. ~ failed /\ rules' \subseteq rules
    BY <2>1 DEF Removed, Refused, Unknown, Become, Same
  <2> QED BY <1>1, <1>10, <2>2 DEF Sweep
<1>11. CASE SweepEnds
  BY <1>1, <1>11 DEF SweepEnds
<1>12. CASE Others
  BY <1>1, <1>12 DEF Others
<1>13. CASE UNCHANGED vars
  BY <1>1, <1>13 DEF vars
<1> QED
  BY <1>2, <1>3, <1>4, <1>5, <1>6, <1>7, <1>8, <1>9, <1>10, <1>11, <1>12, <1>13
  DEF Next, Step

\* No rule is left behind, by a close or by a create_connection that failed,
\* unless the server's answer was lost or it refused the removal.
THEOREM NothingOrphaned == Spec => []NoOrphans
<1>1. Init => Types /\ Kept
  BY InitTypes DEF Init, Kept
<1>2. Types /\ Kept /\ [Next]_vars => Types' /\ Kept'
  BY NextTypes, NextKept
<1>3. Types /\ Kept => NoOrphans
  BY DEF Types, Kept, NoOrphans, InHand
<1> QED BY <1>1, <1>2, <1>3, PTL DEF Spec
-----------------------------------------------------------------------------
(* fport_remove_all.                                                        *)

\* Whatever it has gone past has been removed since it was listed.
THEOREM SweepClears == Spec => []RemoveAllClears
<1>1. Init => RemoveAllClears
  BY DEF Init, RemoveAllClears
<1>2. RemoveAllClears /\ [Next]_vars => RemoveAllClears'
  <2> SUFFICES ASSUME RemoveAllClears, [Next]_vars PROVE RemoveAllClears'
    OBVIOUS
  <2> USE DEF RemoveAllClears, history, sweep
  <2>1. ASSUME NEW s \in Socks, Step(s) PROVE RemoveAllClears'
    BY <2>1 DEF Step, FreePort, Fport, Connect, Undo, Close, Remove, Removed,
                Refused, Unknown, Become, Same
  <2>2. CASE FportRemove
    BY <2>2 DEF FportRemove, Remove, Removed, Refused, Unknown, Become, Same
  <2>3. CASE ForwardOp
    BY <2>3 DEF ForwardOp, Become
  <2>4. CASE FportList
    BY <2>4 DEF FportList
  <2>5. CASE Sweep
    BY <2>5 DEF Sweep, Removed, Refused, Unknown, Become, Same
  <2>6. CASE SweepEnds
    BY <2>6 DEF SweepEnds
  <2>7. CASE Others
    BY <2>7 DEF Others
  <2>8. CASE UNCHANGED vars
    BY <2>8 DEF vars
  <2> QED BY <2>1, <2>2, <2>3, <2>4, <2>5, <2>6, <2>7, <2>8 DEF Next
<1> QED BY <1>1, <1>2, PTL DEF Spec
-----------------------------------------------------------------------------
(* An open socket has its rule.                                             *)

Owning == ClosedOnce /\ (Undisturbed => PortsDistinct /\ RuleIsHeld)

LEMMA NextOwning == Types /\ Owning /\ [Next]_vars => Owning'
<1> SUFFICES ASSUME Types, Owning, [Next]_vars PROVE Owning'
  OBVIOUS
<1> USE DEF Types, TypeOK, ClosedOnce, InHand, history, sweep
<1>1. ASSUME NEW s \in Socks, FreePort(s) PROVE Owning'
  <2>1. ClosedOnce'
    BY <1>1 DEF FreePort, Goto, Owning
  <2>2. ASSUME Undisturbed' PROVE Undisturbed
    BY <1>1, <2>2 DEF FreePort, Undisturbed, Twice
  <2>3. ASSUME Undisturbed', NEW t \in Socks, t # s, st[t] \in InHand
        PROVE  port[t] # port'[s]
    BY <1>1, <2>2, <2>3 DEF FreePort, Owning, Undisturbed, RuleIsHeld, Choosing
  <2>4. Undisturbed' => PortsDistinct'
    BY <1>1, <2>2, <2>3 DEF FreePort, Goto, Owning, PortsDistinct
  <2>5. Undisturbed' => RuleIsHeld'
    BY <1>1, <2>2 DEF FreePort, Goto, Owning, RuleIsHeld
  <2> QED BY <2>1, <2>4, <2>5 DEF Owning
<1>2. ASSUME NEW s \in Socks, Fport(s) PROVE Owning'
  <2>1. ClosedOnce' /\ (Undisturbed' => Undisturbed)
    BY <1>2 DEF Fport, Goto, Owning, Undisturbed, Twice
  <2>2. Undisturbed' => PortsDistinct'
    BY <1>2, <2>1 DEF Fport, Goto, Owning, PortsDistinct
  <2>3. Undisturbed' => RuleIsHeld'
    BY <1>2, <2>1 DEF Fport, Goto, Owning, RuleIsHeld, Become, Same
  <2> QED BY <2>1, <2>2, <2>3 DEF Owning
<1>3. ASSUME NEW s \in Socks, Connect(s) PROVE Owning'
  BY <1>3 DEF Connect, Goto, Owning, Undisturbed, Twice, PortsDistinct, RuleIsHeld
<1>4. ASSUME NEW s \in Socks, Undo(s) PROVE Owning'
  <2>1. ClosedOnce' /\ (Undisturbed' => Undisturbed)
    BY <1>4 DEF Undo, Goto, Owning, Undisturbed, Twice
  <2>2. Undisturbed' => PortsDistinct'
    BY <1>4, <2>1 DEF Undo, Goto, Owning, PortsDistinct
  <2>3. rules \ {port[s]} \subseteq rules'
    BY <1>4, RemoveTypes DEF Undo
  <2>4. Undisturbed' => RuleIsHeld'
    BY <1>4, <2>1, <2>3 DEF Undo, Goto, Owning, PortsDistinct, RuleIsHeld
  <2> QED BY <2>1, <2>2, <2>4 DEF Owning
<1>5. ASSUME NEW s \in Socks, Close(s) PROVE Owning'
  <2>1. ClosedOnce' /\ (Undisturbed' => Undisturbed)
    BY <1>5 DEF Close, Goto, Owning, Undisturbed, Twice
  <2>2. Undisturbed' => st[s] = "open"
    BY <1>5 DEF Close, Owning, Undisturbed, Twice
  <2>3. Undisturbed' => PortsDistinct'
    BY <1>5, <2>1 DEF Close, Goto, Owning, PortsDistinct
  <2>4. rules \ {port[s]} \subseteq rules'
    BY <1>5, RemoveTypes DEF Close
  <2>5. Undisturbed' => RuleIsHeld'
    BY <1>5, <2>1, <2>2, <2>4 DEF Close, Goto, Owning, PortsDistinct, RuleIsHeld
  <2> QED BY <2>1, <2>3, <2>5 DEF Owning
<1>6. CASE FportRemove \/ Sweep
  BY <1>6 DEF FportRemove, Sweep, Owning, Undisturbed
<1>7. CASE ForwardOp
  BY <1>7 DEF ForwardOp, Become, Owning, Undisturbed, Twice, PortsDistinct,
              RuleIsHeld
<1>8. CASE FportList \/ SweepEnds \/ Others \/ UNCHANGED vars
  BY <1>8 DEF FportList, SweepEnds, Others, vars, Owning, Undisturbed, Twice,
              PortsDistinct, RuleIsHeld
<1> QED
  BY <1>1, <1>2, <1>3, <1>4, <1>5, <1>6, <1>7, <1>8 DEF Next, Step

\* An open ForwardedSocket has its rule, whatever other sockets are opened,
\* fail or close meanwhile, but for the three disturbances named.
THEOREM OpenStaysForwarded == Spec => []OpenIsForwarded
<1>1. Init => Types /\ Owning
  <2>1. Init => Owning
    BY DEF Init, Owning, ClosedOnce, PortsDistinct, RuleIsHeld, InHand
  <2> QED BY <2>1, InitTypes
<1>2. Types /\ Owning /\ [Next]_vars => Types' /\ Owning'
  BY NextTypes, NextOwning
<1>3. Types /\ Owning => OpenIsForwarded
  BY DEF Owning, Undisturbed, RuleIsHeld, OpenIsForwarded
<1> QED BY <1>1, <1>2, <1>3, PTL DEF Spec
=============================================================================
