------------------------- MODULE DeviceFilesProofs -------------------------
(***************************************************************************)
(* The safety of the operations on the device's files, for any threads,     *)
(* temporary names and files.                                               *)
(***************************************************************************)
EXTENDS DeviceFiles, TLAPS

Shooting == {"tool", "read", "remove"}

\* Only a screenshot has a temporary name.
Named == \A t \in Threads : IF me[t].pc \in Shooting THEN me[t].name \in Names
                            ELSE me[t].name = NoName

Types == TypeOK /\ Named

Labels == {"ok", "error", "tool", "read", "remove", "find", "recv", "send"}
-----------------------------------------------------------------------------
(* Types.                                                                   *)

LEMMA RestIsCall == \A l \in Labels : Rest(l) \in Calls
BY DEF Labels, Rest, Calls, Tools

\* A step of one thread's call keeps the types if its new call is one.
LEMMA CallTypes ==
    ASSUME Types, NEW t \in Threads, NEW r \in Calls,
           IF r.pc \in Shooting THEN r.name \in Names ELSE r.name = NoName,
           me' = [me EXCEPT ![t] = r]
    PROVE  me' \in [Threads -> Calls] /\ Named'
BY DEF Types, TypeOK, Named

\* It ends, or goes to another label of the same kind.
LEMMA ReturnTypes ==
    ASSUME Types, NEW t \in Threads, NEW l \in {"ok", "error"}, Return(t, l)
    PROVE  me' \in [Threads -> Calls] /\ Named'
<1>1. Rest(l) \in Calls
  BY RestIsCall DEF Labels
<1>2. Rest(l).pc = l /\ Rest(l).name = NoName
  BY DEF Rest
<1> QED BY <1>1, <1>2, CallTypes DEF Return, Shooting

LEMMA NextTypes == Types /\ [Next]_vars => Types'
<1> SUFFICES ASSUME Types, [Next]_vars PROVE Types'
  OBVIOUS
<1> DEFINE Me == me' \in [Threads -> Calls] /\ Named'
           Shots == /\ shots' \subseteq Names
                    /\ tools' \subseteq Names
                    /\ lost' \subseteq Names
                    /\ fresh' \in [Names -> SUBSET Threads]
<1>0. ASSUME Me, Shots, dir' \subseteq Files PROVE Types'
  BY <1>0 DEF Types, TypeOK
<1> HIDE DEF Me, Shots
<1>a. ASSUME UNCHANGED shotfiles PROVE Shots
  BY <1>a DEF Shots, shotfiles, Types, TypeOK
<1>b. ASSUME UNCHANGED dir PROVE dir' \subseteq Files
  BY <1>b DEF Types, TypeOK
<1>c. ASSUME NEW t \in Threads, NEW r \in Calls, me' = [me EXCEPT ![t] = r],
             IF r.pc \in Shooting THEN r.name \in Names ELSE r.name = NoName
      PROVE  Me
  BY <1>c, CallTypes DEF Me
<1>d. ASSUME NEW t \in Threads, NEW l \in {"ok", "error"}, Return(t, l)
      PROVE  Me
  BY <1>d, ReturnTypes DEF Me
<1>e. ASSUME NEW t \in Threads, me[t].pc \in Shooting
      PROVE  me[t] \in Calls /\ me[t].name \in Names
  BY <1>e DEF Types, TypeOK, Named
<1>f. ASSUME NEW t \in Threads, me[t].pc \in Shooting, NextTool(t),
             tools' \subseteq Names
      PROVE  Me /\ Shots /\ dir' \subseteq Files
  <2>1. CASE /\ me[t].tries > 1
             /\ me' = [me EXCEPT ![t].pc = "tool", ![t].tries = @ - 1]
             /\ UNCHANGED <<shots, fresh, lost, dir>>
    <3>1. DEFINE r == [me[t] EXCEPT !.pc = "tool", !.tries = @ - 1]
    <3>2. r \in Calls /\ r.pc = "tool" /\ r.name \in Names
      <4>1. me[t] \in Calls /\ me[t].name \in Names
        BY <1>e, <1>f
      <4>2. me[t].tries - 1 \in 0 .. Tools
        BY <4>1, <2>1 DEF Calls, Tools
      <4> QED BY <4>1, <4>2 DEF Calls
    <3>3. me' = [me EXCEPT ![t] = r]
      BY <2>1
    <3>4. Me
      <4> HIDE DEF r
      <4> QED BY <3>2, <3>3, <1>c DEF Shooting
    <3> QED BY <2>1, <3>4, <1>f, <1>b DEF Shots, Types, TypeOK
  <2>2. CASE Abandon(t)
    BY <2>2, <1>d, <1>e, <1>f, <1>b DEF Abandon, Shots, Types, TypeOK
  <2> QED BY <1>f, <2>1, <2>2 DEF NextTool
<1>g. ASSUME NEW t \in Threads, LetGo(t), me[t].pc \in Shooting
      PROVE  tools' \subseteq Names
  BY <1>g, <1>e DEF LetGo, Types, TypeOK
<1>h. ASSUME NEW t \in Threads, Abandon(t), me[t].pc \in Shooting, tools' \subseteq Names
      PROVE  Me /\ Shots /\ dir' \subseteq Files
  BY <1>h, <1>d, <1>e, <1>b DEF Abandon, Shots, Types, TypeOK
<1>1. ASSUME NEW t \in Threads, ScreenshotData(t) PROVE Types'
  <2>1. PICK n \in Names :
           me' = [me EXCEPT ![t] = [Rest("tool") EXCEPT
                    !.name = n, !.tries = Tools,
                    !.usurped = InUse(n) \/ n \in lost]]
    BY <1>1 DEF ScreenshotData
  <2> DEFINE r == [Rest("tool") EXCEPT !.name = n, !.tries = Tools,
                                       !.usurped = InUse(n) \/ n \in lost]
  <2>2. r \in Calls
    <3>1. Rest("tool") \in Calls
      BY RestIsCall DEF Labels
    <3>2. (InUse(n) \/ n \in lost) \in BOOLEAN /\ Tools \in 0 .. Tools
      BY DEF Tools
    <3> QED BY <3>1, <3>2 DEF Calls
  <2>3. r.pc = "tool" /\ r.name = n
    BY DEF Rest
  <2>4. me' = [me EXCEPT ![t] = r]
    BY <2>1
  <2>5. Me
    <3> HIDE DEF r
    <3> QED BY <2>2, <2>3, <2>4, <1>c DEF Shooting
  <2> QED BY <1>1, <2>5, <1>0, <1>b DEF ScreenshotData, Shots, Types, TypeOK
<1>2. ASSUME NEW t \in Threads, ToolWrites(t) PROVE Types'
  <2> DEFINE r == [me[t] EXCEPT !.pc = "read"]
  <2>1. r \in Calls /\ r.pc = "read" /\ r.name \in Names
    <3>1. me[t] \in Calls /\ me[t].name \in Names
      BY <1>2, <1>e DEF ToolWrites, At, Shooting
    <3> QED BY <3>1 DEF Calls
  <2>2. me' = [me EXCEPT ![t] = r]
    BY <1>2 DEF ToolWrites, Goto
  <2>3. Me
    <3> HIDE DEF r
    <3> QED BY <2>1, <2>2, <1>c DEF Shooting
  <2>4. Shots
    BY <1>2, <1>e DEF ToolWrites, Taken, At, Shooting, Shots, Types, TypeOK
  <2> QED BY <1>2, <2>3, <2>4, <1>0, <1>b DEF ToolWrites
<1>3. ASSUME NEW t \in Threads, ToolFails(t) PROVE Types'
  BY <1>3, <1>0, <1>f DEF ToolFails, At, Shooting, Types, TypeOK
<1>4. ASSUME NEW t \in Threads, ToolCut(t) PROVE Types'
  <2> DEFINE r == [me[t] EXCEPT !.pc = "read", !.cut = TRUE]
  <2>1. r \in Calls /\ r.pc = "read" /\ r.name \in Names
    <3>1. me[t] \in Calls /\ me[t].name \in Names
      BY <1>4, <1>e DEF ToolCut, At, Shooting
    <3> QED BY <3>1 DEF Calls
  <2>2. me' = [me EXCEPT ![t] = r]
    BY <1>4 DEF ToolCut
  <2>3. Me
    <3> HIDE DEF r
    <3> QED BY <2>1, <2>2, <1>c DEF Shooting
  <2>4. Shots
    BY <1>4, <1>g DEF ToolCut, At, Shooting, Shots, Types, TypeOK
  <2> QED BY <1>4, <2>3, <2>4, <1>0, <1>b DEF ToolCut
<1>5. ASSUME NEW t \in Threads, ToolRaises(t) PROVE Types'
  BY <1>5, <1>0, <1>f, <1>g, <1>h DEF ToolRaises, At, Shooting
<1>6. ASSUME NEW t \in Threads, ReadFile(t) PROVE Types'
  <2>1. PICK g \in {"fresh", "stale", "cut"} :
           me' = [me EXCEPT ![t].pc = "remove", ![t].got = g]
    BY <1>6 DEF ReadFile
  <2> DEFINE r == [me[t] EXCEPT !.pc = "remove", !.got = g]
  <2>2. r \in Calls /\ r.pc = "remove" /\ r.name \in Names
    <3>1. me[t] \in Calls /\ me[t].name \in Names
      BY <1>6, <1>e DEF ReadFile, At, Shooting
    <3> QED BY <3>1 DEF Calls
  <2>3. me' = [me EXCEPT ![t] = r]
    BY <2>1
  <2>4. Me
    <3> HIDE DEF r
    <3> QED BY <2>2, <2>3, <1>c DEF Shooting
  <2> QED BY <1>6, <2>4, <1>0, <1>a, <1>b DEF ReadFile
<1>7. ASSUME NEW t \in Threads, ReadFails(t) PROVE Types'
  BY <1>7, <1>0, <1>f, <1>h DEF ReadFails, At, Shooting, Types, TypeOK
<1>8. ASSUME NEW t \in Threads, Remove(t) PROVE Types'
  <2>1. Me
    BY <1>8, <1>d DEF Remove
  <2>2. Shots
    BY <1>8, <1>e DEF Remove, At, Shooting, Shots, Types, TypeOK
  <2> QED BY <1>8, <2>1, <2>2, <1>0, <1>b DEF Remove
<1>9. ASSUME NEW t \in Threads, PullDir(t) PROVE Types'
  <2> DEFINE r == [Rest("find") EXCEPT !.owed = dir]
  <2>1. r \in Calls /\ r.pc = "find" /\ r.name = NoName
    <3>1. Rest("find") \in Calls /\ Rest("find").name = NoName /\ Rest("find").pc = "find"
      BY RestIsCall DEF Labels, Rest
    <3>2. dir \subseteq Files
      BY DEF Types, TypeOK
    <3> QED BY <3>1, <3>2 DEF Calls
  <2>2. me' = [me EXCEPT ![t] = r]
    BY <1>9 DEF PullDir
  <2>3. Me
    <3> HIDE DEF r
    <3> QED BY <2>1, <2>2, <1>c DEF Shooting
  <2> QED BY <1>9, <2>3, <1>0, <1>a, <1>b DEF PullDir
<1>10. ASSUME NEW t \in Threads, Find(t) PROVE Types'
  <2>1. PICK files \in SUBSET dir :
           me' = [me EXCEPT ![t].pc = "recv", ![t].list = files,
                            ![t].owed = @ \cap files]
    BY <1>10 DEF Find
  <2> DEFINE r == [me[t] EXCEPT !.pc = "recv", !.list = files,
                             !.owed = @ \cap files]
  <2>2. r \in Calls /\ r.pc = "recv" /\ r.name = NoName
    <3>1. me[t] \in Calls /\ me[t].name = NoName
      BY <1>10 DEF Find, At, Types, TypeOK, Named, Shooting
    <3>2. files \subseteq Files
      BY DEF Types, TypeOK
    <3> QED BY <3>1, <3>2 DEF Calls
  <2>3. me' = [me EXCEPT ![t] = r]
    BY <2>1
  <2>4. Me
    <3> HIDE DEF r
    <3> QED BY <2>2, <2>3, <1>c DEF Shooting
  <2> QED BY <1>10, <2>4, <1>0, <1>a, <1>b DEF Find
<1>i. ASSUME NEW t \in Threads, me[t].pc \in {"recv", "send"},
             NEW f \in me[t].list,
             \/ me' = [me EXCEPT ![t] = Transferred(@, f)]
             \/ me' = [me EXCEPT ![t] = CutShort(@, f)]
      PROVE  Me
  <2>1. me[t] \in Calls /\ me[t].name = NoName
    BY <1>i DEF Types, TypeOK, Named, Shooting
  <2>2. f \in Files
    BY <2>1 DEF Calls
  <2>3. PICK r \in {Transferred(me[t], f), CutShort(me[t], f)} :
              me' = [me EXCEPT ![t] = r]
    BY <1>i
  <2>4. r \in Calls /\ r.pc = me[t].pc /\ r.name = NoName
    <3>1. Transferred(me[t], f) \in Calls
      BY <2>1, <2>2 DEF Transferred, Calls
    <3>2. CutShort(me[t], f) \in Calls
      BY <3>1 DEF CutShort, Calls
    <3>3. Transferred(me[t], f).pc = me[t].pc /\ Transferred(me[t], f).name = NoName
      BY <2>1 DEF Transferred, Calls
    <3>4. CutShort(me[t], f).pc = me[t].pc /\ CutShort(me[t], f).name = NoName
      BY <3>1, <3>3 DEF CutShort, Calls
    <3> QED BY <2>3, <3>1, <3>2, <3>3, <3>4
  <2> QED BY <1>i, <2>3, <2>4, <1>c DEF Shooting
<1>11. ASSUME NEW t \in Threads, RecvFile(t) PROVE Types'
  BY <1>11, <1>i, <1>0, <1>a, <1>b DEF RecvFile, At
<1>12. ASSUME NEW t \in Threads, Raises(t) PROVE Types'
  BY <1>12, <1>0, <1>a, <1>b, <1>d DEF Raises
<1>13. ASSUME NEW t \in Threads, Complete(t) PROVE Types'
  BY <1>13, <1>0, <1>a, <1>b, <1>d DEF Complete
<1>14. ASSUME NEW t \in Threads, SendDir(t) PROVE Types'
  <2>1. PICK files \in SUBSET Files :
           me' = [me EXCEPT ![t] = [Rest("send") EXCEPT !.list = files,
                                                        !.owed = files]]
    BY <1>14 DEF SendDir
  <2> DEFINE r == [Rest("send") EXCEPT !.list = files, !.owed = files]
  <2>2. r \in Calls /\ r.pc = "send" /\ r.name = NoName
    <3>1. Rest("send") \in Calls /\ Rest("send").name = NoName /\ Rest("send").pc = "send"
      BY RestIsCall DEF Labels, Rest
    <3> QED BY <3>1 DEF Calls
  <2>3. Me
    <3> HIDE DEF r
    <3> QED BY <2>1, <2>2, <1>c DEF Shooting, r
  <2> QED BY <1>14, <2>3, <1>0, <1>a, <1>b DEF SendDir
<1>15. ASSUME NEW t \in Threads, SendFile(t) PROVE Types'
  <2>1. PICK f \in me[t].list :
          \/ /\ dir' = dir \cup {f}
             /\ me' = [me EXCEPT ![t] = Transferred(@, f)]
          \/ /\ me' = [me EXCEPT ![t] = CutShort(@, f)]
             /\ UNCHANGED dir
          \/ /\ dir' = dir \cup {f}
             /\ Return(t, "error")
    BY <1>15 DEF SendFile
  <2>2. f \in Files
    BY DEF Types, TypeOK, Calls
  <2>3. Me
    BY <1>15, <2>1, <1>i, <1>d DEF SendFile, At
  <2> QED BY <1>15, <2>1, <2>2, <2>3, <1>0, <1>a DEF SendFile, Types, TypeOK
<1>16. ASSUME NEW n \in Names, LateTool(n) PROVE Types'
  <2>1. Me
    BY <1>16 DEF LateTool, Me, Types, TypeOK, Named
  <2>2. Shots
    BY <1>16 DEF LateTool, Taken, Shots, Types, TypeOK
  <2> QED BY <1>16, <2>1, <2>2, <1>0, <1>b DEF LateTool
<1>17. ASSUME NEW f \in Files, OthersAdd(f) PROVE Types'
  <2>1. Me
    BY <1>17 DEF OthersAdd, Me, Types, TypeOK, Named
  <2> QED BY <1>17, <2>1, <1>0, <1>a DEF OthersAdd, Types, TypeOK
<1>18. ASSUME NEW f \in Files, OthersRemove(f) PROVE Types'
  <2>1. ASSUME NEW t \in Threads
        PROVE  me'[t] \in Calls /\ me'[t].pc = me[t].pc /\ me'[t].name = me[t].name
    <3>1. me[t] \in Calls
      BY DEF Types, TypeOK
    <3>2. me'[t] = [me[t] EXCEPT !.owed = @ \ {f}]
      BY <1>18 DEF OthersRemove
    <3> QED BY <3>1, <3>2 DEF Calls
  <2>2. Me
    BY <1>18, <2>1 DEF OthersRemove, Me, Types, Named
  <2> QED BY <1>18, <2>2, <1>0, <1>a DEF OthersRemove, Types, TypeOK
<1>19. CASE UNCHANGED vars
  BY <1>19 DEF vars, shotfiles, Types, TypeOK, Named
<1> QED
  BY <1>1, <1>2, <1>3, <1>4, <1>5, <1>6, <1>7, <1>8, <1>9, <1>10, <1>11, <1>12,
     <1>13, <1>14, <1>15, <1>16, <1>17, <1>18, <1>19 DEF Next, Caller
-----------------------------------------------------------------------------
(* No temporary file is left behind.                                        *)

\* While no file comes up, none is left by a name that is given up as lost.
LEMMA LeftKept ==
    ASSUME Types, NoShotLeft, shots' \subseteq shots, lost \subseteq lost',
           \A u \in Threads : \/ me'[u].name = me[u].name
                              \/ me[u].name \in lost'
                              \/ me[u].name = NoName
    PROVE  NoShotLeft'
BY NamesAssumption DEF Types, TypeOK, NoShotLeft, InUse

LEMMA AbandonLeft ==
    ASSUME Types, NoShotLeft, NEW t \in Threads, Abandon(t) PROVE NoShotLeft'
<1>1. \A u \in Threads : me'[u].name = me[u].name \/ me[u].name \in lost'
  BY DEF Abandon, Return, Types, TypeOK
<1> QED BY <1>1, LeftKept DEF Abandon

LEMMA NextToolLeft ==
    ASSUME Types, NoShotLeft, NEW t \in Threads, NextTool(t) PROVE NoShotLeft'
<1>1. CASE Abandon(t)
  BY <1>1, AbandonLeft
<1>2. CASE /\ me' = [me EXCEPT ![t].pc = "tool", ![t].tries = @ - 1]
           /\ UNCHANGED <<shots, fresh, lost, dir>>
  <2>1. \A u \in Threads : me'[u].name = me[u].name
    BY <1>2 DEF Types, TypeOK, Calls
  <2> QED BY <1>2, <2>1, LeftKept
<1> QED BY <1>1, <1>2 DEF NextTool

\* A picture is taken under a name that is in use or lost.
LEMMA TakenLeft ==
    ASSUME Types, NoShotLeft, NEW n \in Names, Taken(n), lost \subseteq lost',
           \A u \in Threads : me'[u].name = me[u].name,
           InUse(n) \/ n \in lost'
    PROVE  NoShotLeft'
BY DEF Types, TypeOK, NoShotLeft, InUse, Taken

LEMMA NextLeft == Types /\ NoShotLeft /\ [Next]_vars => NoShotLeft'
<1> SUFFICES ASSUME Types, NoShotLeft, [Next]_vars PROVE NoShotLeft'
  OBVIOUS
<1>a. ASSUME UNCHANGED shotfiles,
             \A u \in Threads : me'[u].name = me[u].name \/ me[u].name = NoName
      PROVE  NoShotLeft'
  BY <1>a, LeftKept DEF shotfiles
<1>b. ASSUME NEW t \in Threads, me[t].pc \notin Shooting,
             NEW r, me' = [me EXCEPT ![t] = r]
      PROVE  \A u \in Threads : me'[u].name = me[u].name \/ me[u].name = NoName
  BY <1>b DEF Types, TypeOK, Named
<1>1. ASSUME NEW t \in Threads, ScreenshotData(t) PROVE NoShotLeft'
  <2>1. \A u \in Threads : me'[u].name = me[u].name \/ me[u].name = NoName
    BY <1>1, <1>b DEF ScreenshotData, Idle, Shooting
  <2> QED BY <1>1, <2>1, LeftKept DEF ScreenshotData
<1>2. ASSUME NEW t \in Threads, ToolWrites(t) PROVE NoShotLeft'
  <2>1. \A u \in Threads : me'[u].name = me[u].name
    BY <1>2 DEF ToolWrites, Goto, Types, TypeOK, Calls
  <2>2. me[t].name \in Names /\ InUse(me[t].name)
    BY <1>2 DEF ToolWrites, At, Types, Named, Shooting, InUse
  <2> QED BY <1>2, <2>1, <2>2, TakenLeft DEF ToolWrites
<1>3. ASSUME NEW t \in Threads, ToolFails(t) \/ ToolRaises(t) \/ ReadFails(t)
      PROVE  NoShotLeft'
  BY <1>3, NextToolLeft, AbandonLeft DEF ToolFails, ToolRaises, ReadFails
<1>4. ASSUME NEW t \in Threads, ToolCut(t) PROVE NoShotLeft'
  <2>1. \A u \in Threads : me'[u].name = me[u].name
    BY <1>4 DEF ToolCut, Types, TypeOK, Calls
  <2> QED BY <1>4, <2>1, LeftKept DEF ToolCut
<1>5. ASSUME NEW t \in Threads, ReadFile(t) PROVE NoShotLeft'
  <2>1. PICK g : me' = [me EXCEPT ![t].pc = "remove", ![t].got = g]
    BY <1>5 DEF ReadFile
  <2>2. \A u \in Threads : me'[u].name = me[u].name
    BY <2>1 DEF Types, TypeOK, Calls
  <2> QED BY <1>5, <2>2, <1>a DEF ReadFile
<1>6. ASSUME NEW t \in Threads, Remove(t) PROVE NoShotLeft'
  <2>1. CASE /\ shots' = shots \ {me[t].name}
             /\ lost' = lost \ {me[t].name}
             /\ Return(t, "ok")
    <3>1. \A u \in Threads : me'[u].name = me[u].name \/ u = t
      BY <2>1 DEF Return, Types, TypeOK
    <3> QED BY <2>1, <3>1 DEF NoShotLeft, InUse
  <2>2. CASE /\ lost' = lost \cup {me[t].name}
             /\ \E l \in {"ok", "error"} : Return(t, l)
             /\ UNCHANGED <<shots, fresh>>
    <3>1. \A u \in Threads : me'[u].name = me[u].name \/ me[u].name \in lost'
      BY <2>2 DEF Return, Types, TypeOK
    <3> QED BY <2>2, <3>1, LeftKept
  <2> QED BY <1>6, <2>1, <2>2 DEF Remove
<1>7. ASSUME NEW t \in Threads,
             \/ PullDir(t) \/ Find(t) \/ RecvFile(t) \/ Raises(t)
             \/ Complete(t) \/ SendDir(t) \/ SendFile(t)
      PROVE  NoShotLeft'
  <2>1. me[t].pc \notin Shooting /\ UNCHANGED shotfiles
    BY <1>7 DEF PullDir, Find, RecvFile, Raises, Complete, SendDir, SendFile,
                Idle, At, Shooting
  <2>2. \A u \in Threads : u # t => me'[u] = me[u]
    BY <1>7 DEF PullDir, Find, RecvFile, Raises, Complete, SendDir, SendFile,
                Return, Types, TypeOK
  <2>3. \A u \in Threads : me'[u].name = me[u].name \/ me[u].name = NoName
    BY <2>1, <2>2 DEF Types, Named
  <2> QED BY <2>1, <2>3, <1>a
<1>8. ASSUME NEW n \in Names, LateTool(n) PROVE NoShotLeft'
  <2>1. CASE Taken(n) /\ lost' = lost \cup {n}
    BY <1>8, <2>1, TakenLeft DEF LateTool
  <2>2. CASE UNCHANGED <<shots, fresh, lost>>
    BY <1>8, <2>2, LeftKept DEF LateTool
  <2> QED BY <1>8, <2>1, <2>2 DEF LateTool
<1>9. ASSUME NEW f \in Files, OthersAdd(f) PROVE NoShotLeft'
  BY <1>9, <1>a DEF OthersAdd
<1>10. ASSUME NEW f \in Files, OthersRemove(f) PROVE NoShotLeft'
  <2>1. \A u \in Threads : me'[u].name = me[u].name
    BY <1>10 DEF OthersRemove, Types, TypeOK, Calls
  <2> QED BY <1>10, <2>1, <1>a DEF OthersRemove
<1>11. CASE UNCHANGED vars
  BY <1>11, <1>a DEF vars
<1> QED
  BY <1>1, <1>2, <1>3, <1>4, <1>5, <1>6, <1>7, <1>8, <1>9, <1>10, <1>11
  DEF Next, Caller

LEMMA InitTypes == Init => Types
<1>1. Rest("ok") \in Calls /\ Rest("ok").pc = "ok" /\ Rest("ok").name = NoName
  BY RestIsCall DEF Labels, Rest
<1> QED BY <1>1 DEF Init, Types, TypeOK, Named, Shooting

\* No temporary file stays on the device, but for a capture under way and one
\* that raised, lost its rm, or had a tool that outlived its connection.
THEOREM NothingLeft == Spec => []NoShotLeft
<1>1. Init => Types /\ NoShotLeft
  BY InitTypes DEF Init, NoShotLeft
<1>2. Types /\ NoShotLeft /\ [Next]_vars => Types' /\ NoShotLeft'
  BY NextTypes, NextLeft
<1> QED BY <1>1, <1>2, PTL DEF Spec
-----------------------------------------------------------------------------
(* A screenshot is fresh.                                                   *)

\* What thread t may find under its temporary name.
FreshFor(t) ==
    /\ (/\ me[t].pc \in {"tool", "read"} /\ me[t].name \in shots
        /\ t \notin fresh[me[t].name]) => me[t].usurped
    /\ (/\ me[t].pc = "read" /\ me[t].name \in shots
        /\ t \notin fresh[me[t].name]) => me[t].cut
    /\ me[t].got = "stale" => me[t].cut /\ me[t].usurped
    /\ me[t].pc \in {"find", "recv", "send"} => me[t].got = "none"

AllFresh == \A t \in Threads : FreshFor(t)

\* What is there for t was there, or is new.
NoneAges(t) == \A n \in shots' : \/ n \in shots /\ (t \in fresh[n] => t \in fresh'[n])
                                 \/ t \in fresh'[n]

LEMMA FreshKept ==
    ASSUME NEW t \in Threads, FreshFor(t), NoneAges(t),
           me'[t].pc = me[t].pc, me'[t].name = me[t].name,
           me'[t].got = me[t].got, me'[t].cut = me[t].cut,
           me'[t].usurped = me[t].usurped
    PROVE  FreshFor(t)'
BY DEF FreshFor, NoneAges

LEMMA RestIsFresh ==
    ASSUME Types, NEW t \in Threads, NEW l \in {"ok", "error"}, Return(t, l)
    PROVE  FreshFor(t)'
<1>1. me'[t] = Rest(l)
  BY DEF Return, Types, TypeOK
<1> QED BY <1>1 DEF Rest, FreshFor

LEMMA NextToolFresh ==
    ASSUME Types, AllFresh, NEW t \in Threads, NextTool(t),
           me[t].pc \in {"tool", "read"}
    PROVE  FreshFor(t)' /\ UNCHANGED <<shots, fresh>>
<1>1. CASE Abandon(t)
  BY <1>1, RestIsFresh DEF Abandon
<1>2. CASE /\ me' = [me EXCEPT ![t].pc = "tool", ![t].tries = @ - 1]
           /\ UNCHANGED <<shots, fresh, lost, dir>>
  <2>1. /\ me'[t].pc = "tool" /\ me'[t].name = me[t].name
        /\ me'[t].got = me[t].got /\ me'[t].cut = me[t].cut
        /\ me'[t].usurped = me[t].usurped
    BY <1>2 DEF Types, TypeOK, Calls
  <2> QED BY <1>2, <2>1 DEF AllFresh, FreshFor
<1> QED BY <1>1, <1>2 DEF NextTool

\* Steps of one thread's call leave the other calls alone.
LEMMA OthersCalls ==
    ASSUME Types, NEW t \in Threads, Caller(t)
    PROVE  \A u \in Threads \ {t} : me'[u] = me[u]
BY DEF Caller, ScreenshotData, ToolWrites, ToolFails, ToolCut, ToolRaises,
       ReadFile, ReadFails, Remove, PullDir, Find, RecvFile, Raises, Complete,
       SendDir, SendFile, NextTool, Abandon, Return, Goto, Types, TypeOK

LEMMA NextFresh == Types /\ NoShotLeft /\ AllFresh /\ [Next]_vars => AllFresh'
<1> SUFFICES ASSUME Types, NoShotLeft, AllFresh, [Next]_vars PROVE AllFresh'
  OBVIOUS
<1>a. ASSUME NEW t \in Threads, Caller(t), FreshFor(t)',
             \A u \in Threads \ {t} : NoneAges(u)
      PROVE  AllFresh'
  BY <1>a, OthersCalls, FreshKept DEF AllFresh
<1>b. ASSUME UNCHANGED <<shots, fresh>> PROVE \A u \in Threads : NoneAges(u)
  BY <1>b DEF NoneAges
<1>c. ASSUME NEW n \in Names, Taken(n) PROVE \A u \in Threads : NoneAges(u)
  BY <1>c DEF NoneAges, Taken, Types, TypeOK
<1>1. ASSUME NEW t \in Threads, ScreenshotData(t) PROVE AllFresh'
  <2>1. PICK n \in Names :
           me' = [me EXCEPT ![t] = [Rest("tool") EXCEPT
                    !.name = n, !.tries = Tools,
                    !.usurped = InUse(n) \/ n \in lost]]
    BY <1>1 DEF ScreenshotData
  <2>2. /\ me'[t].pc = "tool" /\ me'[t].name = n /\ me'[t].got = "none"
        /\ me'[t].usurped = (InUse(n) \/ n \in lost)
    BY <2>1 DEF Types, TypeOK, Rest
  <2>3. n \in shots => InUse(n) \/ n \in lost
    BY DEF NoShotLeft
  <2>4. UNCHANGED shots
    BY <1>1 DEF ScreenshotData
  <2>5. FreshFor(t)'
    BY <2>2, <2>3, <2>4 DEF FreshFor
  <2>6. \A u \in Threads \ {t} : NoneAges(u)
    BY <1>1 DEF ScreenshotData, NoneAges, Types, TypeOK
  <2> QED BY <1>1, <2>5, <2>6, <1>a DEF Caller
<1>2. ASSUME NEW t \in Threads, ToolWrites(t) PROVE AllFresh'
  <2>1. me[t].name \in Names /\ Taken(me[t].name)
    BY <1>2 DEF ToolWrites, At, Types, Named, Shooting
  <2>2. /\ me'[t].pc = "read" /\ me'[t].name = me[t].name
        /\ me'[t].got = me[t].got /\ me'[t].cut = me[t].cut
        /\ me'[t].usurped = me[t].usurped
    BY <1>2 DEF ToolWrites, Goto, Types, TypeOK, Calls
  <2>3. t \in fresh'[me[t].name]
    BY <2>1 DEF Taken, Types, TypeOK
  <2>4. FreshFor(t)'
    BY <2>2, <2>3 DEF FreshFor, AllFresh
  <2> QED BY <1>2, <2>1, <2>4, <1>a, <1>c DEF Caller
<1>3. ASSUME NEW t \in Threads, ToolFails(t) \/ ToolRaises(t) \/ ReadFails(t)
      PROVE  AllFresh'
  <2>1. me[t].pc \in {"tool", "read"} /\ (NextTool(t) \/ Abandon(t))
    BY <1>3 DEF ToolFails, ToolRaises, ReadFails, At
  <2>2. CASE NextTool(t)
    BY <1>3, <2>1, <2>2, NextToolFresh, <1>a, <1>b DEF Caller
  <2>3. CASE Abandon(t)
    BY <1>3, <2>3, RestIsFresh, <1>a, <1>b DEF Caller, Abandon
  <2> QED BY <2>1, <2>2, <2>3
<1>4. ASSUME NEW t \in Threads, ToolCut(t) PROVE AllFresh'
  <2>1. /\ me[t].pc = "tool" /\ UNCHANGED <<shots, fresh>>
        /\ me'[t].pc = "read" /\ me'[t].name = me[t].name
        /\ me'[t].got = me[t].got /\ me'[t].cut = TRUE
        /\ me'[t].usurped = me[t].usurped
    BY <1>4 DEF ToolCut, At, Types, TypeOK, Calls
  <2>2. FreshFor(t)'
    BY <2>1 DEF FreshFor, AllFresh
  <2> QED BY <1>4, <2>1, <2>2, <1>a, <1>b DEF Caller
<1>5. ASSUME NEW t \in Threads, ReadFile(t) PROVE AllFresh'
  <2>1. me[t].pc = "read" /\ UNCHANGED <<shots, fresh>>
    BY <1>5 DEF ReadFile, At, shotfiles
  <2>2. PICK g : /\ me' = [me EXCEPT ![t].pc = "remove", ![t].got = g]
                 /\ g = "stale" => /\ me[t].name \in shots
                                   /\ t \notin fresh[me[t].name]
    BY <1>5 DEF ReadFile
  <2>3. /\ me'[t].pc = "remove" /\ me'[t].got = g
        /\ me'[t].cut = me[t].cut /\ me'[t].usurped = me[t].usurped
    BY <2>2 DEF Types, TypeOK, Calls
  <2>4. FreshFor(t)'
    BY <2>1, <2>2, <2>3 DEF FreshFor, AllFresh
  <2> QED BY <1>5, <2>1, <2>4, <1>a, <1>b DEF Caller
<1>6. ASSUME NEW t \in Threads, Remove(t) PROVE AllFresh'
  <2>1. FreshFor(t)'
    BY <1>6, RestIsFresh DEF Remove
  <2>2. \A u \in Threads : NoneAges(u)
    BY <1>6 DEF Remove, NoneAges, Types, TypeOK
  <2> QED BY <1>6, <2>1, <2>2, <1>a DEF Caller
<1>7. ASSUME NEW t \in Threads, Raises(t) \/ Complete(t) PROVE AllFresh'
  BY <1>7, RestIsFresh, <1>a, <1>b DEF Raises, Complete, Caller, shotfiles
<1>8. ASSUME NEW t \in Threads, PullDir(t) \/ SendDir(t) PROVE AllFresh'
  <2>1. me'[t].pc \in {"find", "send"} /\ me'[t].got = "none"
    BY <1>8 DEF PullDir, SendDir, Rest, Types, TypeOK
  <2>2. FreshFor(t)' /\ UNCHANGED <<shots, fresh>>
    BY <1>8, <2>1 DEF FreshFor, PullDir, SendDir, shotfiles
  <2> QED BY <1>8, <2>2, <1>a, <1>b DEF Caller
<1>9. ASSUME NEW t \in Threads, Find(t) \/ RecvFile(t) \/ SendFile(t)
      PROVE  AllFresh'
  <2>1. UNCHANGED <<shots, fresh>> /\ me[t].pc \in {"find", "recv", "send"}
    BY <1>9 DEF Find, RecvFile, SendFile, shotfiles, At
  <2>2. CASE Return(t, "error")
    BY <2>1, <2>2, <1>9, <1>a, <1>b, RestIsFresh DEF Caller
  <2>3. ASSUME Find(t) PROVE FreshFor(t)'
    <3>1. me'[t].pc = "recv" /\ me'[t].got = me[t].got
      BY <2>3 DEF Find, Types, TypeOK, Calls
    <3> QED BY <2>1, <3>1 DEF AllFresh, FreshFor
  <2>4. ASSUME NEW f, me' = [me EXCEPT ![t] = Transferred(@, f)]
        PROVE  FreshFor(t)'
    <3>1. me'[t].pc = me[t].pc /\ me'[t].got = me[t].got
      BY <2>4 DEF Transferred, Types, TypeOK, Calls
    <3> QED BY <2>1, <3>1 DEF AllFresh, FreshFor
  <2>5. ASSUME NEW f,
               me' = [me EXCEPT ![t] = CutShort(@, f)]
        PROVE  FreshFor(t)'
    <3>1. me'[t].pc = me[t].pc /\ me'[t].got = me[t].got
      BY <2>5 DEF CutShort, Transferred, Types, TypeOK, Calls
    <3> QED BY <2>1, <3>1 DEF AllFresh, FreshFor
  <2>6. FreshFor(t)' \/ Return(t, "error")
    BY <1>9, <2>3, <2>4, <2>5 DEF RecvFile, SendFile
  <2> QED BY <1>9, <2>1, <2>2, <2>6, <1>a, <1>b DEF Caller
<1>10. ASSUME NEW n \in Names, LateTool(n) PROVE AllFresh'
  BY <1>10, <1>b, <1>c, FreshKept DEF LateTool, AllFresh
<1>11. ASSUME NEW f \in Files, OthersAdd(f) PROVE AllFresh'
  BY <1>11, <1>b, FreshKept DEF OthersAdd, shotfiles, AllFresh
<1>12. ASSUME NEW f \in Files, OthersRemove(f) PROVE AllFresh'
  <2>1. \A u \in Threads : /\ me'[u].pc = me[u].pc /\ me'[u].name = me[u].name
                           /\ me'[u].got = me[u].got /\ me'[u].cut = me[u].cut
                           /\ me'[u].usurped = me[u].usurped
    BY <1>12 DEF OthersRemove, Types, TypeOK, Calls
  <2> QED BY <1>12, <2>1, <1>b, FreshKept DEF OthersRemove, shotfiles, AllFresh
<1>13. CASE UNCHANGED vars
  BY <1>13, <1>b, FreshKept DEF vars, shotfiles, AllFresh
<1> QED
  BY <1>1, <1>2, <1>3, <1>4, <1>5, <1>6, <1>7, <1>8, <1>9, <1>10, <1>11, <1>12,
     <1>13 DEF Next, Caller

\* A picture older than the call takes a stream that was cut and a name that
\* was in use, or left behind, when the call took it.
THEOREM ShotsAreFresh == Spec => []ShotIsFresh
<1>1. Init => Types /\ NoShotLeft /\ AllFresh
  BY InitTypes DEF Init, NoShotLeft, AllFresh, FreshFor, Rest
<1>2. Types /\ NoShotLeft /\ AllFresh /\ [Next]_vars
        => Types' /\ NoShotLeft' /\ AllFresh'
  BY NextTypes, NextLeft, NextFresh
<1>3. Types /\ AllFresh => ShotIsFresh
  BY DEF Types, AllFresh, FreshFor, ShotIsFresh
<1> QED BY <1>1, <1>2, <1>3, PTL DEF Spec
-----------------------------------------------------------------------------
(* A directory is transferred whole.                                        *)

\* What a transfer still owes it has on its list; what it has done is there.
Covers(r) ==
    /\ r.pc = "find" => r.owed \subseteq dir /\ r.done = {}
    /\ r.pc \in {"recv", "send"}
          => /\ r.owed \subseteq r.list \cup r.done
             /\ r.owed \cap r.done \subseteq dir

AllCovered == \A t \in Threads : Covers(me[t])

\* No file of a call is lost to the steps of other threads.
LEMMA CoversKept ==
    ASSUME NEW r, Covers(r), dir \subseteq dir' PROVE Covers(r)'
BY DEF Covers

LEMMA RestCovered ==
    ASSUME Types, NEW t \in Threads, NEW l \in {"ok", "error"}, Return(t, l)
    PROVE  Covers(me[t])'
<1>1. me'[t] = Rest(l)
  BY DEF Return, Types, TypeOK
<1> QED BY <1>1 DEF Rest, Covers

LEMMA ShotCovered ==
    ASSUME NEW t \in Threads, me'[t].pc \in Shooting \cup {"ok", "error"}
    PROVE  Covers(me[t])'
BY DEF Covers, Shooting

LEMMA NextCovered == Types /\ AllCovered /\ [Next]_vars => AllCovered'
<1> SUFFICES ASSUME Types, AllCovered, [Next]_vars PROVE AllCovered'
  OBVIOUS
<1>a. ASSUME NEW t \in Threads, Caller(t), Covers(me[t])', dir \subseteq dir'
      PROVE  AllCovered'
  BY <1>a, OthersCalls, CoversKept DEF AllCovered, Covers
<1>1. ASSUME NEW t \in Threads,
             \/ ScreenshotData(t) \/ ToolWrites(t) \/ ToolFails(t)
             \/ ToolCut(t) \/ ToolRaises(t) \/ ReadFile(t) \/ ReadFails(t)
             \/ Remove(t)
      PROVE  AllCovered'
  <2>1. me'[t].pc \in Shooting \cup {"ok", "error"} /\ UNCHANGED dir
    <3>1. ASSUME NextTool(t) \/ Abandon(t)
          PROVE  me'[t].pc \in {"tool", "error"} /\ UNCHANGED dir
      BY <3>1 DEF NextTool, Abandon, Return, Rest, Types, TypeOK, Calls
    <3>2. CASE ScreenshotData(t)
      BY <3>2 DEF ScreenshotData, Rest, Shooting, Types, TypeOK
    <3>3. CASE ToolWrites(t) \/ ToolCut(t) \/ ReadFile(t)
      BY <3>3 DEF ToolWrites, ToolCut, ReadFile, Goto, shotfiles, Shooting,
                  Types, TypeOK, Calls
    <3>4. CASE ToolFails(t) \/ ToolRaises(t) \/ ReadFails(t)
      BY <3>4, <3>1 DEF ToolFails, ToolRaises, ReadFails, Shooting
    <3>5. CASE Remove(t)
      BY <3>5 DEF Remove, Return, Rest, Shooting, Types, TypeOK
    <3> QED BY <1>1, <3>2, <3>3, <3>4, <3>5
  <2> QED BY <1>1, <2>1, <1>a, ShotCovered DEF Caller
<1>2. ASSUME NEW t \in Threads, Raises(t) \/ Complete(t) PROVE AllCovered'
  BY <1>2, <1>a, RestCovered DEF Raises, Complete, Caller
<1>3. ASSUME NEW t \in Threads, PullDir(t) \/ SendDir(t) PROVE AllCovered'
  <2>1. /\ me'[t].pc \in {"find", "send"} /\ me'[t].done = {}
        /\ me'[t].pc = "find" => me'[t].owed = dir
        /\ me'[t].pc = "send" => me'[t].owed = me'[t].list
    <3>1. CASE PullDir(t)
      BY <3>1 DEF PullDir, Rest, Types, TypeOK
    <3>2. CASE SendDir(t)
      BY <3>2 DEF SendDir, Rest, Types, TypeOK
    <3> QED BY <1>3, <3>1, <3>2
  <2>2. UNCHANGED dir
    BY <1>3 DEF PullDir, SendDir
  <2>3. Covers(me[t])'
    BY <2>1, <2>2 DEF Covers
  <2> QED BY <1>3, <2>2, <2>3, <1>a DEF Caller
<1>4. ASSUME NEW t \in Threads, Find(t) PROVE AllCovered'
  <2>1. PICK files : me' = [me EXCEPT ![t].pc = "recv", ![t].list = files,
                                      ![t].owed = @ \cap files]
    BY <1>4 DEF Find
  <2>2. /\ me'[t].pc = "recv" /\ me'[t].list = files
        /\ me'[t].owed = me[t].owed \cap files /\ me'[t].done = me[t].done
    BY <2>1 DEF Types, TypeOK, Calls
  <2>3. me[t].pc = "find" /\ UNCHANGED dir
    BY <1>4 DEF Find, At
  <2>4. Covers(me[t])'
    BY <2>2, <2>3 DEF Covers, AllCovered
  <2> QED BY <1>4, <2>3, <2>4, <1>a DEF Caller
<1>5. ASSUME NEW t \in Threads, NEW f, me[t].pc \in {"recv", "send"},
             me' = [me EXCEPT ![t] = Transferred(@, f)],
             dir \subseteq dir', f \in dir'
      PROVE  Covers(me[t])'
  <2>1. /\ me'[t].pc = me[t].pc /\ me'[t].owed = me[t].owed
        /\ me'[t].list = me[t].list \ {f} /\ me'[t].done = me[t].done \cup {f}
    BY <1>5 DEF Transferred, Types, TypeOK, Calls
  <2> QED BY <1>5, <2>1 DEF Covers, AllCovered
<1>c. ASSUME NEW t \in Threads, NEW f, me[t].pc \in {"recv", "send"},
             me' = [me EXCEPT ![t] = CutShort(@, f)], UNCHANGED dir
      PROVE  Covers(me[t])'
  <2>1. /\ me'[t].pc = me[t].pc /\ me'[t].owed = me[t].owed \ {f}
        /\ me'[t].list = me[t].list \ {f} /\ me'[t].done = me[t].done \cup {f}
    BY <1>c DEF CutShort, Transferred, Types, TypeOK, Calls
  <2> QED BY <1>c, <2>1 DEF Covers, AllCovered
<1>6. ASSUME NEW t \in Threads, RecvFile(t) PROVE AllCovered'
  <2>1. Covers(me[t])' /\ UNCHANGED dir
    BY <1>6, <1>5, <1>c DEF RecvFile, At
  <2> QED BY <1>6, <2>1, <1>a DEF Caller
<1>7. ASSUME NEW t \in Threads, SendFile(t) PROVE AllCovered'
  <2>1. dir \subseteq dir' /\ me[t].pc = "send"
    BY <1>7 DEF SendFile, At
  <2>2. Covers(me[t])' \/ Return(t, "error")
    BY <1>7, <2>1, <1>5, <1>c DEF SendFile
  <2> QED BY <1>7, <2>1, <2>2, <1>a, RestCovered DEF Caller
<1>8. ASSUME dir \subseteq dir', UNCHANGED me PROVE AllCovered'
  BY <1>8 DEF AllCovered, Covers
<1>9. ASSUME NEW n \in Names, LateTool(n) PROVE AllCovered'
  BY <1>9, <1>8 DEF LateTool
<1>10. ASSUME NEW f \in Files, OthersAdd(f) PROVE AllCovered'
  BY <1>10, <1>8 DEF OthersAdd
<1>11. ASSUME NEW f \in Files, OthersRemove(f) PROVE AllCovered'
  <2>1. \A t \in Threads :
          /\ me'[t].pc = me[t].pc
          /\ me'[t].list = me[t].list /\ me'[t].done = me[t].done
          /\ me'[t].owed = me[t].owed \ {f}
    BY <1>11 DEF OthersRemove, Types, TypeOK, Calls
  <2>2. dir' = dir \ {f}
    BY <1>11 DEF OthersRemove
  <2> QED BY <2>1, <2>2 DEF AllCovered, Covers
<1>12. CASE UNCHANGED vars
  BY <1>12, <1>8 DEF vars
<1> QED
  BY <1>1, <1>2, <1>3, <1>4, <1>6, <1>7, <1>9, <1>10, <1>11, <1>12
  DEF Next, Caller

\* The call that ends well is one that has no file left to transfer.
LEMMA OkIsCovered ==
    ASSUME Types, AllCovered, [Next]_vars, NEW t \in Threads,
           me[t].pc \in {"recv", "send"}, me'[t].pc = "ok"
    PROVE  me[t].owed \subseteq me[t].done \cap dir
<1>1. ~ UNCHANGED me
  OBVIOUS
<1>2. \A u \in Threads : Caller(u) => u = t
  BY OthersCalls
<1>3. ~ \E f \in Files : OthersRemove(f)
  BY DEF OthersRemove, Types, TypeOK, Calls
<1>4. Caller(t)
  BY <1>1, <1>2, <1>3 DEF Next, LateTool, OthersAdd, vars
<1>5. ~ RecvFile(t)
  BY DEF RecvFile, CutShort, Transferred, Types, TypeOK, Calls
<1>6. ~ SendFile(t)
  <2>1. SUFFICES ASSUME SendFile(t) PROVE FALSE
    OBVIOUS
  <2>2. PICK f : \/ me' = [me EXCEPT ![t] = Transferred(@, f)]
                 \/ me' = [me EXCEPT ![t] = CutShort(@, f)]
                 \/ Return(t, "error")
    BY <2>1 DEF SendFile
  <2>3. me'[t].pc \in {me[t].pc, "error"}
    <3>1. CASE me' = [me EXCEPT ![t] = Transferred(@, f)]
      BY <3>1 DEF Transferred, Types, TypeOK, Calls
    <3>2. CASE me' = [me EXCEPT ![t] = CutShort(@, f)]
      BY <3>2 DEF CutShort, Transferred, Types, TypeOK, Calls
    <3>3. CASE Return(t, "error")
      BY <3>3 DEF Return, Rest, Types, TypeOK
    <3> QED BY <2>2, <3>1, <3>2, <3>3
  <2> QED BY <2>3
<1>7. ~ Raises(t)
  BY DEF Raises, Return, Rest, Types, TypeOK
<1>8. Complete(t)
  BY <1>4, <1>5, <1>6, <1>7 DEF Caller, ScreenshotData, ToolWrites, ToolFails,
     ToolCut, ToolRaises, ReadFile, ReadFails, Remove, PullDir, Find, SendDir,
     Idle, At
<1>9. me[t].list = {}
  BY <1>8 DEF Complete
<1> QED BY <1>9 DEF AllCovered, Covers

\* A directory transfer that returns lacks only the files that some accident has
\* excused, each one by itself, whatever other threads and other programs do to
\* the directory meanwhile.
THEOREM DirectoriesComplete == Spec => DirIsComplete
<1>1. Init => Types /\ AllCovered
  BY InitTypes DEF Init, AllCovered, Covers, Rest
<1>2. Types /\ AllCovered /\ [Next]_vars => Types' /\ AllCovered'
  BY NextTypes, NextCovered
<1>3. Types /\ AllCovered /\ [Next]_vars =>
        [\A t \in Threads :
           me[t].pc \in {"recv", "send"} /\ me'[t].pc = "ok"
             => me[t].owed \subseteq me[t].done \cap dir]_vars
  BY OkIsCovered
<1> QED BY <1>1, <1>2, <1>3, PTL DEF Spec, DirIsComplete
=============================================================================
