---------------------------- MODULE TargetsProofs ----------------------------
(***************************************************************************)
(* The safety of the server cache and of wait(), for any clients, processes, *)
(* cache lifetime and timeout.                                              *)
(***************************************************************************)
EXTENDS Targets, TLAPS

Calls == {"none", "device", "wait", "sleep"}
Asking == Ensuring \cup {"exec", "open"}
Ends  == {"ok", "error", "escaped"}

WaitTypes == /\ dev \in BOOLEAN
             /\ call \in [Clients -> Calls]
             /\ left \in [Clients -> Nat]
             /\ seen \in [Clients -> BOOLEAN]
             /\ late \in [Clients -> 0 .. 2]
             /\ steady \in [Clients -> BOOLEAN]

\* Why a client may trust the server: it has seen it, or a response it had asked
\* for has ended; and only a client that
\* starts servers gets as far as starting one.
Evidence(c) ==
    /\ pc[c] = "ensure" => auto[c]
    /\ pc[c] \in {"start", "poll"} => binary[c]
    /\ pc[c] \in {"start", "poll"} /\ op[c] \in Commands => auto[c]
    /\ cache[c] > 0 /\ ~ Mistaken(c) => cache[c] + since[c] <= Live

\* What wait() knows between two polls, and between an answer and its judgement.
Waits(c) ==
    /\ late[c] > 0 => late[c] = 1 /\ left[c] = 0 /\ call[c] = "wait"
    /\ steady[c] => dev
    /\ call[c] = "wait" /\ pc[c] # "idle"
         => /\ pc[c] \in Asking /\ op[c] = "command"
            /\ pc[c] = "open" /\ steady[c] => seen[c]
    /\ call[c] = "wait" /\ pc[c] = "idle"
         => /\ result[c] \in Ends
            /\ result[c] = "ok" /\ ~ seen[c] => ~ steady[c]

Trusted == TypeOK /\ \A c \in Clients : Evidence(c)
Waiting == WaitTypes /\ \A c \in Clients : Waits(c)
-----------------------------------------------------------------------------
(* A step of one client.                                                    *)

\* It leaves the other clients alone, and nobody's configuration changes.
Alone(c) == /\ \A d \in Clients \ {c} :
                  /\ pc'[d] = pc[d] /\ op'[d] = op[d] /\ cache'[d] = cache[d]
                  /\ since'[d] = since[d] /\ result'[d] = result[d]
            /\ UNCHANGED config

\* What the parts of the actions do to their client.
LEMMA RaiseOne ==
    ASSUME TypeOK, NEW c \in Clients, NEW e \in {"error", "escaped"}, Raise(c, e)
    PROVE  /\ TypeOK' /\ Alone(c)
           /\ pc'[c] = "idle" /\ result'[c] = e
           /\ cache'[c] = cache[c] /\ since'[c] = since[c]
BY DEF Raise, Return, Goto, TypeOK, Alone, Labels, machine, config, sight

LEMMA OnwardOne ==
    ASSUME TypeOK, NEW c \in Clients, NEW l \in Labels, Onward(c, l)
    PROVE  /\ TypeOK' /\ Alone(c)
           /\ pc'[c] = l /\ op'[c] = op[c]
           /\ cache'[c] = cache[c] /\ since'[c] = since[c]
BY DEF Onward, Goto, TypeOK, Alone, machine, config, sight

\* A client trusts for as long as is left of SERVER_LIVE_CACHE after its clock
\* was sampled, and has seen the server since.
LEMMA TrustOne ==
    ASSUME TypeOK, NEW c \in Clients, Trust(c)
    PROVE  /\ TypeOK' /\ Alone(c)
           /\ pc'[c] = "exec" /\ op'[c] = op[c]
           /\ Answers(c) => since'[c] = 0
<1>1. Live - spent[c] \in 0 .. Live
  BY LifecycleAssumption DEF TypeOK
<1>2. since' \in [Clients -> 0 .. Live + 1] /\ (Answers(c) => since'[c] = 0)
  BY LifecycleAssumption DEF Trust, Saw, TypeOK
<1>3. cache' \in [Clients -> 0 .. Live]
  BY <1>1, LifecycleAssumption DEF Trust, TypeOK
<1>4. \A d \in Clients \ {c} : since'[d] = since[d] /\ cache'[d] = cache[d]
  BY DEF Trust, Saw, TypeOK
<1>5. spent' \in [Clients -> 0 .. Live]
  BY LifecycleAssumption DEF Trust, TypeOK
<1> QED BY <1>2, <1>3, <1>4, <1>5
        DEF Trust, Goto, TypeOK, Alone, Labels, machine, config, sight

LEMMA DoneOne ==
    ASSUME TypeOK, NEW c \in Clients, NEW r \in {"ok", "error"}, KillDone(c, r)
    PROVE  /\ pc' \in [Clients -> Labels]
           /\ op' \in [Clients -> Commands \cup {"none", "startup", "kill", "restart"}]
           /\ target' \in [Clients -> Pids \cup {NoPid}]
           /\ result' \in [Clients -> {"none", "ok", "error", "escaped"}]
           /\ \A d \in Clients \ {c} : /\ pc'[d] = pc[d] /\ op'[d] = op[d]
                                       /\ result'[d] = result[d]
           /\ \/ pc'[c] = "idle" /\ result'[c] \in {"ok", "error"}
              \/ pc'[c] = "start" /\ op'[c] = "restart" /\ binary[c]
BY DEF KillDone, Return, Goto, TypeOK, Labels

LEMMA BeginOne ==
    ASSUME TypeOK, NEW c \in Clients, NEW o \in Commands, Begin(c, o)
    PROVE  /\ TypeOK' /\ Alone(c)
           /\ pc'[c] = IF cache[c] > 0 THEN "exec" ELSE "probe"
           /\ cache'[c] = cache[c] /\ since'[c] = since[c]
BY LifecycleAssumption DEF Begin, Goto, TypeOK, Alone, Labels, machine, config, sight
-----------------------------------------------------------------------------
(* What a step of a client shows of the server.                             *)

\* What a step of c does, as far as the properties are concerned.
Sound(c) == /\ TypeOK' /\ Alone(c) /\ Evidence(c)'
            /\ (auto[c] /\ ~ Mistaken(c) /\ pc[c] # "exec" /\ pc'[c] = "exec")
                  => since'[c] < Live
            /\ pc[c] # "idle" /\ pc'[c] = "idle" => result'[c] \in Ends

LEMMA SameMistake == ASSUME UNCHANGED config, NEW c PROVE Mistaken(c)' = Mistaken(c)
BY DEF Mistaken, config

\* Trust is sound where the server answers, and where the client is mistaken.
LEMMA TrustSound ==
    ASSUME TypeOK, NEW c \in Clients, Trust(c), Answers(c) \/ Mistaken(c)
    PROVE  Sound(c)
<1>1. TypeOK' /\ Alone(c) /\ pc'[c] = "exec" /\ (Answers(c) => since'[c] = 0)
  BY TrustOne
<1>2. Mistaken(c)' = Mistaken(c)
  BY <1>1, SameMistake DEF Alone
<1>3. cache'[c] \in 0 .. Live
  BY <1>1 DEF TypeOK
<1>4. ~ Mistaken(c) => since'[c] = 0 /\ cache'[c] + since'[c] <= Live
  BY <1>1, <1>3, LifecycleAssumption
<1> QED BY <1>1, <1>2, <1>4, LifecycleAssumption DEF Sound, Evidence

LEMMA RaiseSound ==
    ASSUME Trusted, NEW c \in Clients, NEW e \in {"error", "escaped"}, Raise(c, e)
    PROVE  Sound(c)
<1>1. /\ TypeOK' /\ Alone(c) /\ pc'[c] = "idle" /\ result'[c] = e
      /\ cache'[c] = cache[c] /\ since'[c] = since[c]
  BY RaiseOne DEF Trusted
<1>2. Mistaken(c)' = Mistaken(c)
  BY <1>1, SameMistake DEF Alone
<1> QED BY <1>1, <1>2 DEF Sound, Evidence, Trusted, Ends

\* Going on without a sighting is sound on the way to a sighting.
LEMMA OnwardSound ==
    ASSUME Trusted, NEW c \in Clients, NEW l \in Labels \ {"idle"}, Onward(c, l),
           l = "ensure" => auto[c],
           l = "exec" => ~ auto[c],
           l \in {"start", "poll"} => /\ binary[c]
                                      /\ op[c] \in Commands => auto[c]
    PROVE  Sound(c)
<1>1. /\ TypeOK' /\ Alone(c) /\ pc'[c] = l /\ op'[c] = op[c]
      /\ cache'[c] = cache[c] /\ since'[c] = since[c]
  BY OnwardOne DEF Trusted
<1>2. Mistaken(c)' = Mistaken(c) /\ auto'[c] = auto[c] /\ binary'[c] = binary[c]
  BY <1>1, SameMistake DEF Alone, config
<1> QED BY <1>1, <1>2 DEF Sound, Evidence, Trusted

\* A step that leaves the cache as it is and connects to nothing.
LEMMA QuietSound ==
    ASSUME Trusted, NEW c \in Clients, TypeOK', Alone(c),
           cache'[c] = cache[c], since'[c] = since[c],
           pc'[c] \notin {"exec", "ensure"},
           pc'[c] \in {"start", "poll"} => /\ binary[c]
                                           /\ op'[c] \in Commands => auto[c],
           pc[c] # "idle" /\ pc'[c] = "idle" => result'[c] \in Ends
    PROVE  Sound(c)
<1>1. Mistaken(c)' = Mistaken(c) /\ auto'[c] = auto[c] /\ binary'[c] = binary[c]
  BY SameMistake DEF Alone, config
<1> QED BY <1>1 DEF Sound, Evidence, Trusted

LEMMA StepSound == ASSUME Trusted, NEW c \in Clients, Step(c) PROVE Sound(c)
<1> USE DEF Labels
<1>1. CASE Command(c)
  <2>1. /\ TypeOK' /\ Alone(c) /\ pc'[c] = IF cache[c] > 0 THEN "exec" ELSE "probe"
        /\ cache'[c] = cache[c] /\ since'[c] = since[c] /\ pc[c] = "idle"
    BY <1>1, BeginOne DEF Trusted, Command, Begin
  <2>2. Mistaken(c)' = Mistaken(c)
    BY <2>1, SameMistake DEF Alone
  <2>3. cache[c] > 0 /\ ~ Mistaken(c) => since[c] < Live
    BY LifecycleAssumption DEF Trusted, Evidence, TypeOK
  <2> QED BY <2>1, <2>2, <2>3 DEF Sound, Evidence, Trusted
<1>2. CASE Probe(c)
  <2>1. CASE Answers(c) /\ Trust(c)
    BY <2>1, TrustSound DEF Trusted
  <2>2. CASE Onward(c, IF auto[c] THEN "ensure" ELSE "exec")
    BY <2>2, OnwardSound
  <2> QED BY <1>2, <2>1, <2>2 DEF Probe
<1>3. CASE Ensure(c)
  <2>1. CASE Answers(c) /\ Trust(c)
    BY <2>1, TrustSound DEF Trusted
  <2>2. CASE binary[c] /\ Onward(c, "start")
    BY <1>3, <2>2, OnwardSound DEF Ensure, Trusted, Evidence
  <2>3. CASE Raise(c, "error")
    BY <2>3, RaiseSound
  <2> QED BY <1>3, <2>1, <2>2, <2>3 DEF Ensure
<1>4. CASE Start(c)
  <2>1. pc[c] = "start" /\ binary[c] /\ (op[c] \in Commands => auto[c])
    BY <1>4 DEF Start, Trusted, Evidence
  <2>2. CASE /\ \E p \in Pids : /\ proc' = [proc EXCEPT ![p] = "server"]
                                /\ pidfile' = p
             /\ Goto(c, "poll")
             /\ UNCHANGED <<far, config, op, cache, spent, target, result, sight>>
    <3>1. TypeOK' /\ Alone(c) /\ pc'[c] = "poll"
      BY <2>2 DEF Goto, Trusted, TypeOK, Kinds, Alone, config, sight
    <3> QED BY <2>1, <2>2, <3>1, QuietSound DEF sight
  <2>3. CASE Onward(c, "poll")
    BY <2>1, <2>3, OnwardSound
  <2>4. CASE Raise(c, "escaped")
    BY <2>4, RaiseSound
  <2> QED BY <1>4, <2>2, <2>3, <2>4 DEF Start
<1>5. CASE Poll(c)
  <2>1. CASE op[c] \in Commands /\ Trust(c)
    <3>1. Answers(c) \/ Mistaken(c)
      BY <1>5, <2>1 DEF Poll, Answers, Mistaken, Trusted, Evidence, TypeOK
    <3> QED BY <2>1, <3>1, TrustSound DEF Trusted
  <2>2. CASE /\ Saw(c) /\ Return(c, "ok")
             /\ UNCHANGED <<machine, config, cache, spent, linked>>
    <3>1. /\ TypeOK' /\ Alone(c) /\ pc'[c] = "idle" /\ result'[c] = "ok"
          /\ since'[c] = 0 /\ cache'[c] = cache[c]
      BY <2>2, LifecycleAssumption DEF Saw, Return, Goto, Trusted, TypeOK, Alone,
                                       machine, config, sight
    <3>2. cache'[c] + since'[c] <= Live
      BY <3>1, LifecycleAssumption DEF Trusted, TypeOK
    <3> QED BY <3>1, <3>2 DEF Sound, Evidence, Ends
  <2> QED BY <1>5, <2>1, <2>2 DEF Poll
<1>6. CASE PollTimeout(c)
  BY <1>6, RaiseSound DEF PollTimeout
<1>7. CASE Connect(c)
  <2>1. CASE Accepted(c)
    <3>1. /\ TypeOK' /\ Alone(c) /\ pc'[c] = "open"
          /\ since'[c] = 0 /\ cache'[c] = cache[c]
      BY <2>1, LifecycleAssumption DEF Accepted, Saw, Goto, Trusted, TypeOK, Alone,
                                       machine, config, sight
    <3>2. cache'[c] + since'[c] <= Live
      BY <3>1, LifecycleAssumption DEF Trusted, TypeOK
    <3> QED BY <3>1, <3>2 DEF Sound, Evidence
  <2>2. CASE \E e \in {"error", "escaped"} : Raise(c, e)
    BY <2>2, RaiseSound
  <2> QED BY <1>7, <2>1, <2>2 DEF Connect
<1>b. CASE Finish(c)
  <2>1. PICK r \in {"ok", "error"} : Return(c, r)
    BY <1>b DEF Finish
  <2>2. cache'[c] \in 0 .. Live /\ cache' \in [Clients -> 0 .. Live]
    BY <1>b, LifecycleAssumption DEF Finish, Trusted, TypeOK
  <2>a. \A d \in Clients \ {c} : cache'[d] = cache[d]
    BY <1>b DEF Finish, Trusted, TypeOK
  <2>b. since' \in [Clients -> 0 .. Live + 1]
    BY <1>b, LifecycleAssumption DEF Finish, Trusted, TypeOK
  <2>3. /\ TypeOK' /\ Alone(c) /\ pc'[c] = "idle" /\ result'[c] = r /\ since'[c] = 0
    BY <1>b, <2>1, <2>2, <2>a, <2>b
       DEF Finish, Return, Goto, Trusted, TypeOK, Alone, machine, config, sight
  <2>4. cache'[c] + since'[c] <= Live
    BY <2>2, <2>3, LifecycleAssumption
  <2> QED BY <2>3, <2>4 DEF Sound, Evidence, Ends
<1>c. CASE Fail(c)
  BY <1>c, RaiseSound DEF Fail
<1>8. CASE StartServer(c)
  <2>1. CASE /\ binary[c] /\ op' = [op EXCEPT ![c] = "startup"]
             /\ result' = [result EXCEPT ![c] = "none"] /\ Goto(c, "start")
    <3>1. TypeOK' /\ Alone(c) /\ pc'[c] = "start" /\ op'[c] = "startup"
      BY <1>8, <2>1 DEF StartServer, Goto, Trusted, TypeOK, Alone, machine, config, sight
    <3> QED BY <1>8, <2>1, <3>1, QuietSound DEF StartServer, sight, Commands
  <2>2. CASE result' = [result EXCEPT ![c] = "error"] /\ UNCHANGED <<pc, op>>
    <3>1. TypeOK' /\ Alone(c) /\ pc'[c] = "idle"
      BY <1>8, <2>2 DEF StartServer, Trusted, TypeOK, Alone, machine, config, sight
    <3> QED BY <1>8, <3>1, QuietSound DEF StartServer, sight
  <2> QED BY <1>8, <2>1, <2>2 DEF StartServer
<1>9. CASE Kill(c)
  <2>1. TypeOK' /\ Alone(c) /\ pc'[c] = "find"
    BY <1>9 DEF Kill, Goto, Trusted, TypeOK, Alone, machine, config, sight
  <2> QED BY <1>9, <2>1, QuietSound DEF Kill, sight
<1>a. ASSUME NEW r \in {"ok", "error"}, KillDone(c, r), proc' = proc,
             pidfile' = pidfile, far' = far, UNCHANGED <<config, cache, spent, sight>>
      PROVE  Sound(c)
  <2>1. TypeOK' /\ Alone(c)
    BY <1>a, DoneOne DEF Trusted, TypeOK, Alone, config, sight
  <2> QED BY <1>a, <2>1, DoneOne, QuietSound DEF Trusted, Ends, sight, Commands
<1>10. CASE Find(c)
  <2>1. CASE /\ \E p \in Pids : target' = [target EXCEPT ![c] = p]
             /\ Goto(c, "send") /\ UNCHANGED <<op, result>>
    <3>1. TypeOK' /\ Alone(c) /\ pc'[c] = "send"
      BY <1>10, <2>1 DEF Find, Goto, Trusted, TypeOK, Alone, machine, config, sight
    <3> QED BY <1>10, <3>1, QuietSound DEF Find, sight
  <2>2. CASE KillDone(c, "ok")
    BY <1>10, <2>2, <1>a DEF Find, machine
  <2>3. \A found \in Found : found \subseteq Pids
    BY DEF Found, Owners, Running
  <2> QED BY <1>10, <2>1, <2>2, <2>3 DEF Find
<1>11. CASE Send(c)
  <2>1. CASE /\ \/ UNCHANGED <<proc, linked>>
                \/ /\ proc' = [proc EXCEPT ![target[c]] = "free"]
                   /\ linked' = linked \ Widows(target[c])
             /\ Goto(c, "wait") /\ UNCHANGED <<op, target, result>>
    <3>1. TypeOK' /\ Alone(c) /\ pc'[c] = "wait"
      BY <1>11, <2>1 DEF Send, Goto, Trusted, TypeOK, Kinds, Alone, config, sight
    <3> QED BY <1>11, <3>1, QuietSound DEF Send
  <2>2. CASE KillDone(c, "error") /\ UNCHANGED <<proc, linked>>
    BY <1>11, <2>2, <1>a DEF Send, sight
  <2> QED BY <1>11, <2>1, <2>2 DEF Send
<1>12. CASE Wait(c)
  BY <1>12, <1>a DEF Wait, machine
<1> QED BY <1>1, <1>2, <1>3, <1>4, <1>5, <1>6, <1>7, <1>8, <1>9, <1>10, <1>11,
           <1>12, <1>b, <1>c DEF Step
-----------------------------------------------------------------------------
(* The machine and the clock.                                               *)

LEMMA WorldTrusted == ASSUME Trusted, World PROVE Trusted'
<1>1. /\ UNCHANGED <<config, pc, op, cache, spent, target, result, since>>
      /\ proc' \in [Pids -> Kinds] /\ pidfile' \in Pids \cup {NoPid}
      /\ far' \in BOOLEAN /\ linked' \subseteq Clients
  BY DEF World, sight, Exit, Reuse, Foreign, FarChanges, Trusted, TypeOK, Kinds
<1>2. TypeOK'
  BY <1>1 DEF Trusted, TypeOK, config
<1>3. \A c \in Clients : Evidence(c)'
  BY <1>1 DEF Trusted, Evidence, Mistaken, config
<1> QED BY <1>2, <1>3 DEF Trusted

\* The cache runs out as fast as the sighting grows old.
LEMMA TickTrusted == ASSUME Trusted, Tick PROVE Trusted'
<1>1. cache' \in [Clients -> 0 .. Live] /\ spent' \in [Clients -> 0 .. Live]
  BY LifecycleAssumption DEF Tick, Trusted, TypeOK
<1>2. since' \in [Clients -> 0 .. Live + 1]
  BY LifecycleAssumption DEF Tick, Trusted, TypeOK
<1>3. TypeOK'
  BY <1>1, <1>2 DEF Tick, Trusted, TypeOK, machine, config, sight
<1>4. ASSUME NEW c \in Clients PROVE Evidence(c)'
  <2>1. cache'[c] > 0 => cache[c] > 0 /\ cache'[c] = cache[c] - 1
    BY DEF Tick, Trusted, TypeOK
  <2>2. since'[c] <= since[c] + 1
    BY LifecycleAssumption DEF Tick, Trusted, TypeOK
  <2>3. /\ cache[c] \in Nat /\ cache'[c] \in Nat /\ Live \in Nat
        /\ since[c] \in Nat /\ since'[c] \in Nat
    BY <1>3, LifecycleAssumption DEF Trusted, TypeOK
  <2>4. Mistaken(c)' = Mistaken(c) /\ UNCHANGED <<auto, binary, pc, op>>
    BY SameMistake DEF Tick, config
  <2> QED BY <2>1, <2>2, <2>3, <2>4 DEF Trusted, Evidence
<1> QED BY <1>3, <1>4 DEF Trusted
-----------------------------------------------------------------------------
(* The steps of the composition.                                            *)

\* A step of a client keeps the trust of all.
LEMMA StepTrusted ==
    ASSUME Trusted, NEW c \in Clients, Step(c) PROVE Trusted'
<1>1. Sound(c)
  BY StepSound
<1>2. ASSUME NEW d \in Clients \ {c} PROVE Evidence(d)'
  <2>1. Mistaken(d)' = Mistaken(d) /\ auto'[d] = auto[d] /\ binary'[d] = binary[d]
    BY <1>1, SameMistake DEF Sound, Alone, config
  <2> QED BY <1>1, <2>1 DEF Sound, Alone, Evidence, Trusted
<1> QED BY <1>1, <1>2 DEF Sound, Trusted

\* Every step of a query but its judgement is a step of its client.
LEMMA CallerSteps ==
    ASSUME NEW c \in Clients, Caller(c)
    PROVE  \/ Step(c)
           \/ UNCHANGED <<machine, config, pc, op, cache, spent, target, sight>>
              /\ \E r : result' = [result EXCEPT ![c] = r]
              /\ (JudgeDevice(c) \/ JudgeWait(c))
           \/ UNCHANGED vars
BY DEF Caller, Plain, AskDevice, AskWait, BeginPoll, Query, JudgeDevice, JudgeWait,
       PollAgain, Step, Command, Commands, Over, GiveUp, DozeOff, Sleep

LEMMA NextTrusted == Trusted /\ [TNext]_tvars => Trusted'
<1> SUFFICES ASSUME Trusted, [TNext]_tvars PROVE Trusted'
  OBVIOUS
<1>a. ASSUME UNCHANGED <<machine, config, pc, op, cache, spent, target, sight>>,
             result' \in [Clients -> Ends \cup {"none"}]
      PROVE  Trusted'
  <2>1. TypeOK'
    BY <1>a DEF Trusted, TypeOK, Ends, machine, config, sight
  <2>2. \A c \in Clients : Evidence(c)'
    BY <1>a DEF Trusted, Evidence, Mistaken, config, sight
  <2> QED BY <2>1, <2>2 DEF Trusted
<1>b. ASSUME UNCHANGED vars PROVE Trusted'
  BY <1>a, <1>b DEF vars, Trusted, TypeOK, Ends
<1>c. ASSUME NEW c \in Clients, NEW r \in Ends, Over(c, r) PROVE Trusted'
  <2>1. result' \in [Clients -> Ends \cup {"none"}]
    BY <1>c DEF Over, Trusted, TypeOK, Ends
  <2> QED BY <1>a, <1>c, <2>1 DEF Over
<1>1. ASSUME NEW c \in Clients, JudgeDevice(c) PROVE Trusted'
  <2>1. result[c] \in {"none", "ok", "error", "escaped"}
    BY DEF Trusted, TypeOK
  <2>2. PICK r \in {"none", "ok", "error", "escaped"} : Over(c, r)
    BY <1>1, <2>1 DEF JudgeDevice
  <2>3. result' \in [Clients -> Ends \cup {"none"}]
    BY <2>2 DEF Over, Trusted, TypeOK, Ends
  <2> QED BY <1>a, <2>2, <2>3 DEF Over
<1>2. ASSUME NEW c \in Clients, JudgeWait(c) PROVE Trusted'
  BY <1>2, <1>b, <1>c DEF JudgeWait, GiveUp, DozeOff, Sleep, Ends
<1>3. ASSUME NEW c \in Clients, Caller(c) PROVE Trusted'
  BY <1>3, <1>1, <1>2, <1>b, StepTrusted, CallerSteps
<1>4. CASE Attach
  BY <1>4, <1>b DEF Attach
<1>5. CASE World /\ UNCHANGED <<dev, waiting>>
  BY <1>5, WorldTrusted
<1>6. CASE TTick
  BY <1>6, TickTrusted DEF TTick
<1>7. CASE UNCHANGED tvars
  BY <1>7, <1>b DEF tvars
<1> QED BY <1>3, <1>4, <1>5, <1>6, <1>7 DEF TNext

LEMMA InitTrusted == TInit => Trusted
<1> SUFFICES ASSUME TInit PROVE Trusted
  OBVIOUS
<1>1. TypeOK
  BY LifecycleAssumption DEF TInit, Init, TypeOK, Kinds, Labels
<1>2. ASSUME NEW c \in Clients PROVE Evidence(c)
  <2>1. pc[c] = "idle" /\ cache[c] = 0
    BY DEF TInit, Init
  <2> QED BY <2>1 DEF Evidence
<1> QED BY <1>1, <1>2 DEF Trusted

\* The cache never outlives the evidence, however long a probe, a start or a
\* whole wait() took, and whatever the server does meanwhile.
THEOREM TrustIsEarned == TSpec => []CacheIsEvidence
<1>1. Trusted => CacheIsEvidence
  BY DEF Trusted, Evidence, CacheIsEvidence
<1> QED BY <1>1, InitTrusted, NextTrusted, PTL DEF TSpec

\* A client that starts servers connects only to one it has seen, or of which a
\* response has ended, within SERVER_LIVE_CACHE.
THEOREM LooksFirst == TSpec => ConnectsOnEvidence
<1>1. Trusted /\ [TNext]_tvars =>
        [\A c \in Clients :
           (auto[c] /\ ~ Mistaken(c) /\ pc[c] # "exec" /\ pc'[c] = "exec")
             => since'[c] < Live]_vars
  <2> SUFFICES ASSUME Trusted, [TNext]_tvars, NEW c \in Clients,
                      auto[c], ~ Mistaken(c), pc[c] # "exec", pc'[c] = "exec"
               PROVE  since'[c] < Live
    OBVIOUS
  <2>1. pc' # pc
    OBVIOUS
  <2>2. PICK d \in Clients : Caller(d)
    BY <2>1 DEF TNext, Attach, World, Exit, Reuse, Foreign, FarChanges, TTick,
                Tick, tvars, vars
  <2>3. Step(d)
    BY <2>1, <2>2, CallerSteps DEF vars
  <2>4. Sound(d)
    BY <2>3, StepSound
  <2>5. d = c
    BY <2>4 DEF Sound, Alone
  <2> QED BY <2>4, <2>5 DEF Sound
<1> QED BY <1>1, InitTrusted, NextTrusted, PTL DEF TSpec, ConnectsOnEvidence
-----------------------------------------------------------------------------
(* wait().                                                                  *)

\* The others' polls are not touched, and the device stays as it is.
Apart(c) == /\ \A d \in Clients \ {c} :
                  /\ call'[d] = call[d] /\ left'[d] = left[d]
                  /\ seen'[d] = seen[d] /\ late'[d] = late[d]
                  /\ steady'[d] = steady[d]
            /\ UNCHANGED dev

LEMMA OthersWait ==
    ASSUME Trusted, Waiting, NEW c \in Clients, Waits(c)', Apart(c),
           \A d \in Clients \ {c} : /\ pc'[d] = pc[d] /\ op'[d] = op[d]
                                     /\ result'[d] = result[d]
    PROVE  \A d \in Clients : Waits(d)'
BY DEF Waiting, Waits, Apart

LEMMA OverWaits ==
    ASSUME Trusted, Waiting, NEW c \in Clients, NEW r, Over(c, r) PROVE Waiting'
<1>1. WaitTypes' /\ Apart(c)
  BY DEF Over, Becomes, Waiting, WaitTypes, Apart, Calls
<1>2. \A d \in Clients \ {c} : /\ pc'[d] = pc[d] /\ op'[d] = op[d]
                               /\ result'[d] = result[d]
  BY DEF Over, Trusted, TypeOK
<1>3. call'[c] = "none" /\ late'[c] = 0 /\ ~ steady'[c]
  BY DEF Over, Becomes, Waiting, WaitTypes
<1>4. Waits(c)'
  BY <1>3 DEF Waits
<1> QED BY <1>1, <1>2, <1>4, OthersWait DEF Waiting

\* A call begins, or a command of it goes on.
LEMMA StepWaits ==
    ASSUME Trusted, Waiting, NEW c \in Clients, Step(c), WaitTypes', Apart(c),
           Waits(c)'
    PROVE  Waiting'
<1>1. Alone(c)
  BY StepSound DEF Sound
<1>2. \A d \in Clients \ {c} : /\ pc'[d] = pc[d] /\ op'[d] = op[d]
                               /\ result'[d] = result[d]
  BY <1>1 DEF Alone
<1> QED BY <1>2, OthersWait DEF Waiting

\* The device's state changes, and the clients' calls do not.
LEMMA TurnsWaits ==
    ASSUME Waiting, NEW d \in BOOLEAN, Turns(d), UNCHANGED <<call, left, seen, late>>,
           \A c \in Clients : call[c] = "wait" => /\ pc'[c] = pc[c] /\ op'[c] = op[c]
                                                  /\ result'[c] = result[c]
    PROVE  Waiting'
<1>1. WaitTypes'
  BY DEF Turns, Waiting, WaitTypes
<1>2. \A c \in Clients : /\ steady'[c] => steady[c]
                         /\ steady'[c] => dev'
  BY DEF Turns, Waiting, WaitTypes, Waits
<1>3. \A c \in Clients : Waits(c)'
  BY <1>2 DEF Waiting, Waits
<1> QED BY <1>1, <1>3 DEF Waiting

\* A poll begins with a command, which does not end at once.
LEMMA BeginGoesOn ==
    ASSUME Trusted, NEW c \in Clients, Begin(c, "command")
    PROVE  Step(c) /\ pc'[c] \in Asking \ {"open", "idle"} /\ op'[c] = "command"
<1>1. "command" \in Commands
  BY DEF Commands
<1>2. pc'[c] = IF cache[c] > 0 THEN "exec" ELSE "probe"
  BY <1>1, BeginOne DEF Trusted
<1>3. op'[c] = "command"
  BY DEF Begin, Trusted, TypeOK
<1> QED BY <1>1, <1>2, <1>3 DEF Step, Command, Asking, Ensuring

\* It goes its way, and ends well only on an open connection.
LEMMA AskingGoesOn ==
    ASSUME Trusted, NEW c \in Clients, Step(c), op[c] = "command", pc[c] \in Asking
    PROVE  \/ pc'[c] \in Asking /\ op'[c] = "command"
           \/ pc'[c] = "idle" /\ (result'[c] = "ok" => pc[c] = "open")
<1> USE DEF Asking, Ensuring, Trusted, TypeOK, Goto
<1>1. ASSUME NEW e \in {"error", "escaped"}, Raise(c, e)
      PROVE  pc'[c] = "idle" /\ result'[c] # "ok"
  BY <1>1 DEF Raise, Return
<1>2. ASSUME NEW l \in Asking, Onward(c, l)
      PROVE  pc'[c] \in Asking /\ op'[c] = "command"
  BY <1>2 DEF Onward
<1>3. ASSUME Trust(c) PROVE pc'[c] \in Asking /\ op'[c] = "command"
  BY <1>3 DEF Trust
<1>4. CASE Probe(c)
  BY <1>4, <1>2, <1>3 DEF Probe
<1>5. CASE Ensure(c)
  BY <1>5, <1>1, <1>2, <1>3 DEF Ensure
<1>6. CASE Start(c)
  BY <1>6, <1>1, <1>2 DEF Start
<1>7. CASE Poll(c)
  BY <1>7, <1>3 DEF Poll
<1>8. CASE PollTimeout(c)
  BY <1>8, <1>1 DEF PollTimeout
<1>9. CASE Connect(c)
  BY <1>9, <1>1 DEF Connect, Accepted
<1>10. CASE Finish(c)
  BY <1>10 DEF Finish, Return
<1>11. CASE Fail(c)
  BY <1>11, <1>1 DEF Fail
<1>12. pc[c] \notin {"idle", "find", "send", "wait"}
  OBVIOUS
<1> QED BY <1>4, <1>5, <1>6, <1>7, <1>8, <1>9, <1>10, <1>11, <1>12
        DEF Step, Command, Begin, StartServer, Kill, Find, Send, Wait

LEMMA NextWaits == Trusted /\ Waiting /\ [TNext]_tvars => Waiting'
<1> SUFFICES ASSUME Trusted, Waiting, [TNext]_tvars PROVE Waiting'
  OBVIOUS
<1>1. ASSUME NEW c \in Clients, Plain(c) PROVE Waiting'
  <2>1. Alone(c)
    BY <1>1, StepSound DEF Plain, Sound
  <2>2. \A d \in Clients :
          call[d] = "wait" => /\ pc'[d] = pc[d] /\ op'[d] = op[d]
                              /\ result'[d] = result[d]
    BY <1>1, <2>1 DEF Plain, Alone
  <2> QED BY <1>1, <2>2, TurnsWaits DEF Plain
<1>2. ASSUME NEW c \in Clients, AskDevice(c) PROVE Waiting'
  <2>1. WaitTypes' /\ Apart(c) /\ call'[c] = "device"
    BY <1>2 DEF AskDevice, Becomes, Waiting, WaitTypes, Apart, Calls
  <2>2. Waits(c)'
    BY <1>2, <2>1 DEF AskDevice, Waiting, Waits
  <2> QED BY <1>2, <2>1, <2>2, BeginGoesOn, StepWaits DEF AskDevice
<1>3. ASSUME NEW c \in Clients, AskWait(c) PROVE Waiting'
  <2>1. WaitTypes' /\ Apart(c) /\ (steady'[c] => dev')
    BY <1>3, PatienceAssumption DEF AskWait, BeginPoll, Becomes, Waiting, WaitTypes,
                                    Apart, Calls
  <2>2. late'[c] = 0 /\ late'[c] = late[c]
    BY <1>3 DEF AskWait, Waiting, WaitTypes, Waits
  <2>3. Step(c) /\ pc'[c] \in Asking \ {"open", "idle"} /\ op'[c] = "command"
    BY <1>3, BeginGoesOn DEF AskWait, BeginPoll
  <2>4. Waits(c)'
    BY <2>1, <2>2, <2>3 DEF Waits
  <2> QED BY <2>1, <2>3, <2>4, StepWaits
<1>4. ASSUME NEW c \in Clients, Query(c) PROVE Waiting'
  <2>1. PICK listed \in Lists(c) :
              seen' = [seen EXCEPT ![c] = call[c] = "wait" /\ listed]
    BY <1>4 DEF Query
  <2>2. listed \in BOOLEAN
    BY <2>1 DEF Lists, Waiting, WaitTypes
  <2>3. WaitTypes' /\ Apart(c)
    BY <1>4, <2>1, <2>2 DEF Query, Waiting, WaitTypes, Apart
  <2>4. /\ Step(c) /\ pc[c] # "idle" /\ UNCHANGED <<call, left, late, dev>>
        /\ steady'[c] => steady[c] /\ (pc[c] = "open" => c \in linked)
    BY <1>4 DEF Query, Waiting, WaitTypes
  <2>5. CASE call[c] = "wait"
    <3>1. \/ pc'[c] \in Asking /\ op'[c] = "command"
          \/ pc'[c] = "idle" /\ (result'[c] = "ok" => pc[c] = "open")
      BY <2>4, <2>5, AskingGoesOn DEF Waiting, Waits
    <3>2. seen'[c] = listed
      BY <2>1, <2>2, <2>5 DEF Waiting, WaitTypes
    <3>3. pc'[c] = "idle" => result'[c] \in Ends
      BY <2>4, StepSound DEF Sound
    <3>4. pc'[c] = "open" /\ steady'[c] => seen'[c]
      BY <2>1, <2>4, <3>2 DEF Lists, Waiting, Waits
    <3>5. pc'[c] = "idle" /\ result'[c] = "ok" /\ steady'[c] => seen'[c]
      <4> SUFFICES ASSUME pc'[c] = "idle", result'[c] = "ok", steady'[c]
                   PROVE  listed
        BY <3>2
      <4>1. pc[c] = "open" /\ steady[c] /\ c \in linked /\ pc'[c] # "open"
        BY <2>4, <3>1 DEF Asking, Ensuring
      <4>2. seen[c] /\ dev
        BY <2>5, <4>1 DEF Waiting, Waits
      <4> QED BY <2>1, <4>1, <4>2 DEF Lists
    <3>6. late'[c] > 0 => late'[c] = 1 /\ left'[c] = 0 /\ call'[c] = "wait"
      BY <2>4 DEF Waiting, Waits
    <3> QED BY <2>3, <2>4, <3>1, <3>3, <3>4, <3>5, <3>6, StepWaits
            DEF Waits, Waiting
  <2>6. CASE call[c] # "wait"
    <3>1. Waits(c)'
      BY <2>4, <2>6 DEF Waiting, Waits
    <3> QED BY <2>3, <2>4, <3>1, StepWaits
  <2> QED BY <2>5, <2>6
<1>5. ASSUME NEW c \in Clients, JudgeDevice(c) PROVE Waiting'
  BY <1>5, OverWaits DEF JudgeDevice
<1>6. ASSUME NEW c \in Clients, JudgeWait(c) PROVE Waiting'
  <2>1. CASE \E r : Over(c, r)
    BY <2>1, OverWaits
  <2>2. CASE left[c] > 0 /\ Sleep(c)
    <3>1. WaitTypes' /\ Apart(c) /\ UNCHANGED <<pc, op, result>>
      BY <2>2 DEF Sleep, Becomes, vars, Waiting, WaitTypes, Apart, Calls
    <3>2. late[c] = 0
      BY <2>2 DEF Waiting, WaitTypes, Waits
    <3>3. Waits(c)'
      BY <2>2, <3>2 DEF Sleep, Becomes, Waiting, WaitTypes, Waits
    <3> QED BY <3>1, <3>3, OthersWait DEF Waiting
  <2> QED BY <1>6, <2>1, <2>2 DEF JudgeWait, GiveUp, DozeOff
<1>7. ASSUME NEW c \in Clients, PollAgain(c) PROVE Waiting'
  <2>1. WaitTypes' /\ Apart(c) /\ (steady'[c] => dev') /\ call'[c] = "wait"
    BY <1>7 DEF PollAgain, BeginPoll, Becomes, Waiting, WaitTypes, Apart, Calls
  <2>2. late[c] = 0
    BY <1>7 DEF PollAgain, Waiting, WaitTypes, Waits
  <2>3. late'[c] > 0 => late'[c] = 1 /\ left'[c] = 0
    BY <1>7, <2>2 DEF PollAgain, Waiting, WaitTypes
  <2>4. Step(c) /\ pc'[c] \in Asking \ {"open", "idle"} /\ op'[c] = "command"
    BY <1>7, BeginGoesOn DEF PollAgain, BeginPoll
  <2>5. Waits(c)'
    BY <2>1, <2>3, <2>4 DEF Waits
  <2> QED BY <2>1, <2>4, <2>5, StepWaits
<1>8. CASE Attach
  BY <1>8, TurnsWaits DEF Attach, vars, Waiting, WaitTypes
<1>a. ASSUME UNCHANGED <<dev, call, seen, late, steady, pc, op, result>>,
             left' \in [Clients -> Nat],
             \A c \in Clients : left[c] = 0 => left'[c] = 0
      PROVE  Waiting'
  BY <1>a DEF Waiting, WaitTypes, Waits
<1>9. CASE World /\ UNCHANGED <<dev, waiting>>
  <2>1. UNCHANGED <<pc, op, result>>
    BY <1>9 DEF World, Exit, Reuse, Foreign, FarChanges
  <2> QED BY <1>9, <2>1, <1>a DEF waiting, Waiting, WaitTypes
<1>10. CASE TTick
  BY <1>10, <1>a DEF TTick, Tick, Waiting, WaitTypes
<1>11. CASE UNCHANGED tvars
  BY <1>11, <1>a DEF tvars, vars, waiting, Waiting, WaitTypes
<1> QED BY <1>1, <1>2, <1>3, <1>4, <1>5, <1>6, <1>7, <1>8, <1>9, <1>10, <1>11
        DEF TNext, Caller

LEMMA InitWaits == TInit => Waiting
BY DEF TInit, Init, Waiting, WaitTypes, Waits, Calls

\* wait() overruns its deadline by one poll at most, whatever its polls bring
\* and however short the timeout is.
THEOREM OverrunsByOne == TSpec => []OneLatePoll
<1>1. ASSUME Waiting, NEW c \in Clients PROVE late[c] <= 1
  <2>1. late[c] \in 0 .. 2 /\ (late[c] > 0 => late[c] = 1)
    BY <1>1 DEF Waiting, WaitTypes, Waits
  <2> QED BY <2>1
<1>2. Waiting => OneLatePoll
  BY <1>1 DEF OneLatePoll
<1> QED BY <1>2, InitTrusted, NextTrusted, InitWaits, NextWaits, PTL DEF TSpec

\* wait() gives up only after its deadline, and never on a device that has been
\* Connected all through its last poll, on a server that outlived the poll.
THEOREM GivesUpInTime == TSpec => TimeoutIsDue
<1>1. Trusted /\ Waiting /\ [TNext]_tvars =>
        [\A c \in Clients :
           Answered(c, "wait") /\ call'[c] = "none" /\ result'[c] = "error"
             => left[c] = 0 /\ (result[c] = "error" \/ ~ steady[c])]_tvars
  <2> SUFFICES ASSUME Trusted, Waiting, [TNext]_tvars, NEW c \in Clients,
                      Answered(c, "wait"), call'[c] = "none", result'[c] = "error"
               PROVE  left[c] = 0 /\ (result[c] = "error" \/ ~ steady[c])
    OBVIOUS
  <2>1. call'[c] # call[c] /\ call[c] = "wait" /\ pc[c] = "idle"
    BY DEF Answered
  <2>2. PICK d \in Clients : Caller(d)
    BY <2>1 DEF TNext, Attach, TTick, waiting, tvars
  <2>3. d = c
    BY <2>1, <2>2 DEF Caller, Plain, AskDevice, AskWait, Query, JudgeDevice,
       JudgeWait, PollAgain, Over, GiveUp, DozeOff, Sleep, Becomes, Waiting,
       WaitTypes
  <2>4. JudgeWait(c)
    BY <2>1, <2>2, <2>3 DEF Caller, Plain, AskDevice, AskWait, Query, JudgeDevice,
       PollAgain, Answered
  <2>5. ~ seen[c] /\ result[c] # "escaped" /\ left[c] = 0
    BY <2>1, <2>4 DEF JudgeWait, GiveUp, DozeOff, Sleep, Over, Becomes, Waiting,
       WaitTypes, Trusted, TypeOK
  <2> QED BY <2>1, <2>5 DEF Waiting, Waits, Ends
<1> QED BY <1>1, InitTrusted, NextTrusted, InitWaits, NextWaits, PTL
        DEF TSpec, TimeoutIsDue
=============================================================================
