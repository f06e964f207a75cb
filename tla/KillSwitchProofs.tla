-------------------------- MODULE KillSwitchProofs --------------------------
(***************************************************************************)
(* Proofs about the kill switch, for batches of any size: no more than one *)
(* batch is executed after it is set or a stopped mode is published, if    *)
(* Redis answers, and the service does not run with it, whether Redis      *)
(* answers or not; and about the flatten sequence, for any positions: it   *)
(* ends in HALTED only with all of them closed, if Redis answers.          *)
(***************************************************************************)
EXTENDS KillSwitch, Flatten, SequenceTheorems, FiniteSetTheorems, TLAPS

LEMMA ReadsOne == ASSUME NEW value, NEW absent, RedisFails = FALSE
                  PROVE  Reads(value, absent) = {value}
BY DEF Reads

\* What a batch takes from the stream and leaves in it.
LEMMA ReadTypes ==
  ASSUME TypeOK, RouterRead
  PROVE  /\ approved' \in Seq({"intent"}) /\ batch' \in Seq({"intent"}) /\ Len(batch') <= BatchSize
         /\ Len(approved') <= MaxApproved
         /\ (batch' # <<>>) = (approved # <<>>)
<1> DEFINE n == IF Len(approved) < BatchSize THEN Len(approved) ELSE BatchSize
<1>1. BatchSize \in Nat \ {0} /\ MaxApproved \in Nat /\ approved \in Seq({"intent"}) /\ Len(approved) <= MaxApproved
  BY RouterAssumption, StreamAssumption DEF TypeOK, RouterTypeOK
<1>2. n \in Nat /\ n <= Len(approved) /\ n <= BatchSize /\ ((n = 0) = (Len(approved) = 0))
  BY <1>1
<1>3. batch' = SubSeq(approved, 1, n) /\ approved' = SubSeq(approved, n + 1, Len(approved))
  BY DEF RouterRead
<1> HIDE DEF n
<1>4. batch' \in Seq({"intent"}) /\ Len(batch') = n
  BY <1>1, <1>2, <1>3
<1>5. approved' \in Seq({"intent"}) /\ Len(approved') = Len(approved) - n
  BY <1>1, <1>2, <1>3
<1>6. (batch' # <<>>) = (approved # <<>>)
  BY <1>1, <1>2, <1>4
<1> QED BY <1>1, <1>2, <1>4, <1>5, <1>6

-----------------------------------------------------------------------------
\* Types.

\* What the service or the operator does keeps the service well typed.
ServiceAction == Operator \/ Ticks \/ Report \/ Flatten \/ PublishState \/ Restart

LEMMA ReadsTypes ==
  ASSUME NEW S, NEW value \in S, NEW absent \in S
  PROVE  Reads(value, absent) \subseteq S /\ Writes(value, absent) \subseteq S
BY DEF Reads, Writes

LEMMA ServiceTypes == ASSUME ServiceTypeOK, ServiceAction PROVE ServiceTypeOK'
<1> DEFINE Flags == killSwitch \in BOOLEAN /\ flattenActive \in BOOLEAN /\ heeded \in BOOLEAN
           Strings == /\ commandedMode \in Commands \cup {None} /\ publishedMode \in Modes
                      /\ mode \in Modes /\ command \in Commands \cup {None}
                      /\ step \in {"select", "obey", "kill", "evaluate", "count"}
                      /\ ((step = "obey") = (command # None))
                      /\ restarts \in 0..MaxRestarts
<1>1. Flags /\ Strings
  BY DEF ServiceTypeOK
<1>2. Commands \subseteq Modes /\ None \notin Commands /\ MaxRestarts \in Nat
  BY ServiceAssumption DEF Commands, Modes, None
<1>3. CASE Operator
  <2>1. UNCHANGED daemon /\ UNCHANGED <<publishedMode, restarts>>
    BY <1>3, Zenon DEF Operator, Command, SetKillSwitch
  <2>2. commandedMode' \in Commands \cup {None} /\ killSwitch' \in BOOLEAN
    BY <1>1, <1>3, Zenon DEF Operator, Command, SetKillSwitch
  <2>3. heeded' = heeded \/ heeded' \in BOOLEAN
    BY <1>3, Zenon DEF Operator, Command, SetKillSwitch
  <2>4. heeded' \in BOOLEAN
    BY <1>1, <2>3
  <2> QED BY <1>1, <2>1, <2>2, <2>4, Zenon DEF ServiceTypeOK, daemon
<1>4. CASE TickCommand
  <2>1. command' \in Commands \cup {None}
    BY <1>1, <1>4, ReadsTypes DEF TickCommand
  <2> QED BY <1>1, <1>4, <2>1 DEF TickCommand, ServiceTypeOK, redis
<1>5. CASE TickObey
  <2>1. command \in Commands
    BY <1>1, <1>5 DEF TickObey
  <2>2. commandedMode' \in Commands \cup {None}
    BY <1>1, <1>5, ReadsTypes DEF TickObey
  <2>3. flattenActive' \in BOOLEAN
    BY <1>5 DEF TickObey
  <2>4. mode' \in Modes
    BY <1>2, <1>5, <2>1 DEF TickObey
  <2> QED BY <1>1, <1>5, <2>2, <2>3, <2>4 DEF TickObey, ServiceTypeOK
<1>6. CASE TickKill
  <2>1. heeded' \in BOOLEAN
    BY <1>1, <1>6, ReadsTypes DEF TickKill
  <2>2. mode' \in Modes
    BY <1>1, <1>6 DEF TickKill, Modes
  <2>3. step = "kill" /\ step' = "evaluate" /\ UNCHANGED <<redis, flattenActive, command, restarts>>
    BY <1>6 DEF TickKill
  <2> QED BY <1>1, <2>1, <2>2, <2>3 DEF ServiceTypeOK, redis
<1>7. CASE TickEvaluate
  <2>1. mode' \in Modes
    BY <1>1, <1>7 DEF TickEvaluate, Demand, Modes
  <2>2. flattenActive' \in BOOLEAN
    BY <1>7 DEF TickEvaluate
  <2> QED BY <1>1, <1>7, <2>1, <2>2 DEF TickEvaluate, ServiceTypeOK, redis
<1>8. CASE Report
  <2>1. mode' \in Modes
    BY <1>1, <1>8 DEF Report, Demand, Modes
  <2> QED BY <1>1, <1>8, <2>1 DEF Report, ServiceTypeOK, redis
<1>9. CASE Flatten
  <2>1. CASE FlattenEmit
    BY <1>1, <2>1 DEF FlattenEmit, ServiceTypeOK, redis
  <2>2. CASE \E open \in {0, 1} : FlattenCount(open)
    <3>1. /\ step = "count" /\ step' = "select"
          /\ UNCHANGED <<killSwitch, commandedMode, command, restarts, heeded>>
          /\ \/ mode' = "HALTED" /\ flattenActive' = FALSE
                /\ publishedMode' \in Writes(publishedMode, mode')
             \/ UNCHANGED <<mode, flattenActive, publishedMode>>
      BY <2>2, Zenon DEF FlattenCount
    <3>2. mode' \in Modes
      BY <1>1, <3>1 DEF Modes
    <3>3. publishedMode' \in Modes
      BY <1>1, <3>1, <3>2, ReadsTypes
    <3>4. flattenActive' \in BOOLEAN
      BY <1>1, <3>1
    <3> QED BY <1>1, <3>1, <3>2, <3>3, <3>4 DEF ServiceTypeOK
  <2> QED BY <1>9, <2>1, <2>2 DEF Flatten
<1>10. CASE PublishState
  <2>1. publishedMode' \in Modes
    BY <1>1, <1>10, ReadsTypes DEF PublishState
  <2> QED BY <1>1, <1>10, <2>1 DEF PublishState, ServiceTypeOK, daemon
<1>11. CASE Restart
  <2>1. mode' \in Modes
    BY <1>11 DEF Restart, Modes
  <2>2. publishedMode' \in Modes
    BY <1>1, <1>11, <2>1, ReadsTypes DEF Restart
  <2>3. flattenActive' \in BOOLEAN /\ heeded' \in BOOLEAN
    <3>1. flattenActive' = FALSE /\ heeded' = FALSE
      BY <1>11 DEF Restart
    <3> QED BY <3>1, Zenon
  <2>4. restarts' \in 0..MaxRestarts
    BY <1>1, <1>2, <1>11 DEF Restart
  <2> QED BY <1>1, <1>11, <2>1, <2>2, <2>3, <2>4 DEF Restart, ServiceTypeOK
<1> QED BY <1>3, <1>4, <1>5, <1>6, <1>7, <1>8, <1>9, <1>10, <1>11, Zenon
        DEF ServiceAction, Ticks

\* The kinds of step, with what each leaves alone.
Steps ==
    \/ /\ ServiceAction /\ UNCHANGED routerVars
       /\ executedSinceKill' = IF killSwitch' THEN executedSinceKill ELSE 0
       /\ executedSinceStop' = IF publishedMode' \in Stopped THEN executedSinceStop ELSE 0
    \/ Approve
    \/ (RouterMode \/ RouterKill \/ RouterRead)
         /\ UNCHANGED <<serviceVars, executedSinceKill, executedSinceStop>>
    \/ Execute
    \/ RouterRestart /\ UNCHANGED <<executedSinceKill, executedSinceStop>>
    \/ UNCHANGED vars

LEMMA StepKinds == [Next]_vars => Steps
BY Zenon DEF Next, Steps, ServiceStep, ServiceAction, Router

LEMMA StepType == ASSUME TypeOK, [Next]_vars PROVE TypeOK'
<1> USE DEF TypeOK
<1>1. Steps
  BY StepKinds
<1>2. BatchSize \in Nat \ {0} /\ MaxApproved \in Nat
  BY RouterAssumption, StreamAssumption
<1>3. CASE ServiceAction /\ UNCHANGED routerVars
           /\ executedSinceKill' = (IF killSwitch' THEN executedSinceKill ELSE 0)
           /\ executedSinceStop' = (IF publishedMode' \in Stopped THEN executedSinceStop ELSE 0)
  <2>1. ServiceTypeOK'
    BY <1>3, ServiceTypes
  <2>2. RouterTypeOK({"intent"})' /\ Len(approved') <= MaxApproved
    BY <1>3 DEF routerVars, RouterTypeOK
  <2>3. executedSinceKill' \in Nat /\ executedSinceStop' \in Nat
    BY <1>3
  <2> QED BY <2>1, <2>2, <2>3
<1>4. CASE Approve
  <2>1. ServiceTypeOK'
    BY <1>4 DEF Approve, ServiceTypeOK, serviceVars, redis, daemon
  <2>2. approved' \in Seq({"intent"}) /\ Len(approved') <= MaxApproved
    BY <1>2, <1>4 DEF Approve, RouterTypeOK
  <2> QED BY <1>4, <2>1, <2>2 DEF Approve, RouterTypeOK
<1>5. CASE (RouterMode \/ RouterKill \/ RouterRead)
           /\ UNCHANGED <<serviceVars, executedSinceKill, executedSinceStop>>
  <2>1. ServiceTypeOK'
    BY <1>5 DEF ServiceTypeOK, serviceVars, redis, daemon
  <2>2. CASE RouterMode
    BY <1>5, <2>1, <2>2 DEF RouterMode, RouterTypeOK
  <2>3. CASE RouterKill
    <3>1. routerStep' \in {"mode", "read"} /\ routerStep = "kill" /\ UNCHANGED <<approved, batch>>
      BY <2>3 DEF RouterKill
    <3> QED BY <1>5, <2>1, <3>1 DEF RouterTypeOK
  <2>4. CASE RouterRead
    <3>1. routerStep' = IF approved = <<>> THEN "mode" ELSE "execute"
      BY <2>4 DEF RouterRead
    <3> QED BY <1>5, <2>1, <2>4, <3>1, ReadTypes DEF RouterTypeOK
  <2> QED BY <1>5, <2>2, <2>3, <2>4
<1>6. CASE Execute
  <2>1. ServiceTypeOK'
    BY <1>6 DEF Execute, ServiceTypeOK, serviceVars, redis, daemon
  <2>2. /\ batch # <<>> /\ batch' = Tail(batch) /\ approved' = approved
        /\ routerStep' = IF Len(batch) = 1 THEN "mode" ELSE "execute"
    BY <1>6 DEF Execute, RouterNext, RouterTypeOK
  <2>3. batch' \in Seq({"intent"}) /\ Len(batch') = Len(batch) - 1
    BY <2>2 DEF RouterTypeOK
  <2>4. RouterTypeOK({"intent"})'
    <3>1. Len(batch) \in Nat /\ Len(batch) # 0 /\ Len(batch) <= BatchSize
      BY <2>2 DEF RouterTypeOK
    <3>2. (batch' = <<>>) = (Len(batch) = 1)
      <4>1. CASE Len(batch) = 1
        <5>1. Len(batch') = 0
          BY <2>3, <4>1
        <5>2. batch' = <<>>
          BY <2>3, <5>1
        <5> QED BY <4>1, <5>2
      <4>2. CASE Len(batch) # 1
        <5>1. Len(batch') # 0
          BY <2>3, <3>1, <4>2
        <5>2. batch' # <<>>
          BY <5>1
        <5> QED BY <4>2, <5>2
      <4> QED BY <4>1, <4>2
    <3>3. routerStep' \in {"mode", "execute"} /\ ((routerStep' = "execute") = (batch' # <<>>))
      BY <2>2, <3>2
    <3> QED BY <1>2, <2>2, <2>3, <3>1, <3>3 DEF RouterTypeOK
  <2>5. executedSinceKill' \in Nat /\ executedSinceStop' \in Nat
    BY <1>6 DEF Execute
  <2> QED BY <2>1, <2>2, <2>4, <2>5
<1>7. CASE RouterRestart /\ UNCHANGED <<executedSinceKill, executedSinceStop>>
  <2>1. restarts' \in 0..MaxRestarts
    BY <1>7, ServiceAssumption DEF RouterRestart, ServiceTypeOK
  <2>2. UNCHANGED <<redis, daemon, heeded>>
    BY <1>7 DEF RouterRestart
  <2>3. ServiceTypeOK'
    BY <2>1, <2>2 DEF ServiceTypeOK, redis, daemon
  <2>4. batch' = <<>> /\ routerStep' = "mode" /\ approved' = approved
    BY <1>7 DEF RouterRestart
  <2>5. RouterTypeOK({"intent"})'
    BY <1>2, <2>4 DEF RouterTypeOK
  <2> QED BY <1>7, <2>3, <2>4, <2>5
<1>8. CASE UNCHANGED vars
  BY <1>8 DEF vars, serviceVars, redis, daemon, routerVars, ServiceTypeOK, RouterTypeOK
<1> QED BY <1>1, <1>3, <1>4, <1>5, <1>6, <1>7, <1>8, Zenon DEF Steps

\* Every reachable state is well typed.
THEOREM TypeCorrect == Spec => []TypeOK
<1>1. Init => TypeOK
  <2> SUFFICES ASSUME Init PROVE TypeOK
    OBVIOUS
  <2>1. ServiceTypeOK
    <3>1. killSwitch \in BOOLEAN /\ flattenActive \in BOOLEAN /\ heeded \in BOOLEAN
      BY Zenon DEF Init, ServiceInit
    <3>2. commandedMode \in Commands \cup {None} /\ command \in Commands \cup {None}
      BY DEF Init, ServiceInit
    <3>3. /\ publishedMode \in Modes /\ mode \in Modes
          /\ step \in {"select", "obey", "kill", "evaluate", "count"}
      BY DEF Init, ServiceInit, Modes
    <3>4. (step = "obey") = (command # None)
      BY DEF Init, ServiceInit
    <3>5. restarts \in 0..MaxRestarts
      BY ServiceAssumption DEF Init, ServiceInit
    <3> QED BY <3>1, <3>2, <3>3, <3>4, <3>5, Zenon DEF ServiceTypeOK
  <2>2. RouterTypeOK({"intent"}) /\ Len(approved) <= MaxApproved
    BY RouterAssumption, StreamAssumption DEF Init, RouterInit, RouterTypeOK
  <2> QED BY <2>1, <2>2 DEF Init, TypeOK
<1> QED BY <1>1, StepType, PTL DEF Spec

-----------------------------------------------------------------------------
\* What the kill switch stops.

\* What was executed since the kill switch was set and what the batch still holds were
\* one batch, and the router is not about to read another.
KillInv ==
    /\ executedSinceKill + Len(batch) <= BatchSize
    /\ ~killSwitch \/ routerStep = "read" => executedSinceKill = 0

\* The same of a published mode in which the router stops.
StopInv ==
    /\ executedSinceStop + Len(batch) <= BatchSize
    /\ publishedMode \notin Stopped \/ routerStep \in {"kill", "read"} => executedSinceStop = 0

LEMMA StepKillInv ==
  ASSUME TypeOK, KillInv, RedisFails = FALSE, [Next]_vars
  PROVE  KillInv'
<1>1. Steps
  BY StepKinds
<1>2. /\ BatchSize \in Nat /\ executedSinceKill \in Nat /\ batch \in Seq({"intent"})
      /\ Len(batch) \in Nat /\ Len(batch) <= BatchSize
  BY RouterAssumption DEF TypeOK, RouterTypeOK
<1>3. CASE ServiceAction /\ UNCHANGED routerVars
           /\ executedSinceKill' = (IF killSwitch' THEN executedSinceKill ELSE 0)
           /\ executedSinceStop' = (IF publishedMode' \in Stopped THEN executedSinceStop ELSE 0)
  BY <1>2, <1>3 DEF KillInv, routerVars
<1>4. CASE Approve
  BY <1>4 DEF Approve, KillInv, serviceVars, redis
<1>5. CASE (RouterMode \/ RouterKill \/ RouterRead)
           /\ UNCHANGED <<serviceVars, executedSinceKill, executedSinceStop>>
  <2>1. CASE RouterMode
    BY <1>5, <2>1 DEF RouterMode, KillInv, serviceVars, redis
  <2>2. CASE RouterKill
    <3>1. routerStep' = IF killSwitch THEN "mode" ELSE "read"
      <4>1. PICK active \in Reads(killSwitch, FALSE) : routerStep' = IF active THEN "mode" ELSE "read"
        BY <2>2 DEF RouterKill
      <4>2. active = killSwitch
        BY ReadsOne
      <4> QED BY <4>1, <4>2
    <3>2. batch' = batch
      BY <2>2 DEF RouterKill
    <3> QED BY <1>2, <1>5, <3>1, <3>2 DEF KillInv, serviceVars, redis
  <2>3. CASE RouterRead
    <3>1. executedSinceKill = 0 /\ routerStep' # "read"
      BY <2>3 DEF RouterRead, KillInv
    <3>2. batch' \in Seq({"intent"}) /\ Len(batch') <= BatchSize
      BY <2>3, ReadTypes
    <3> QED BY <1>2, <1>5, <3>1, <3>2 DEF KillInv, serviceVars, redis
  <2> QED BY <1>5, <2>1, <2>2, <2>3
<1>6. CASE Execute
  <2>1. batch # <<>> /\ batch' = Tail(batch) /\ routerStep' # "read"
    BY <1>6 DEF Execute, RouterNext, TypeOK, RouterTypeOK
  <2>2. Len(batch') = Len(batch) - 1
    BY <1>2, <2>1
  <2>3. \/ executedSinceKill' = executedSinceKill
        \/ executedSinceKill' = IF killSwitch THEN executedSinceKill + 1 ELSE 0
    BY <1>6 DEF Execute
  <2>4. killSwitch' = killSwitch
    BY <1>6 DEF Execute, serviceVars, redis
  <2> QED BY <1>2, <2>1, <2>2, <2>3, <2>4 DEF KillInv
<1>7. CASE RouterRestart /\ UNCHANGED <<executedSinceKill, executedSinceStop>>
  BY <1>2, <1>7 DEF RouterRestart, KillInv, redis
<1>8. CASE UNCHANGED vars
  BY <1>8 DEF vars, serviceVars, redis, routerVars, KillInv
<1> QED BY <1>1, <1>3, <1>4, <1>5, <1>6, <1>7, <1>8, Zenon DEF Steps

\* If Redis answers, no more than a batch is executed after the kill switch is set.
THEOREM ExecutionStopsHolds == RedisFails = FALSE /\ Spec => []ExecutionStops
<1>1. Init => KillInv
  <2> SUFFICES ASSUME Init PROVE KillInv
    OBVIOUS
  <2>1. batch = <<>> /\ executedSinceKill = 0
    BY DEF Init, RouterInit
  <2> QED BY <2>1, RouterAssumption DEF KillInv
<1>2. KillInv /\ TypeOK => ExecutionStops
  BY RouterAssumption DEF KillInv, TypeOK, RouterTypeOK, ExecutionStops
<1>3. RedisFails = FALSE => [](RedisFails = FALSE)
  <2>1. RedisFails = FALSE => (RedisFails = FALSE)'
    OBVIOUS
  <2> QED BY <2>1, PTL
<1> QED BY <1>1, <1>2, <1>3, StepKillInv, TypeCorrect, PTL DEF Spec

LEMMA StepStopInv ==
  ASSUME TypeOK, StopInv, RedisFails = FALSE, [Next]_vars
  PROVE  StopInv'
<1>1. Steps
  BY StepKinds
<1>2. /\ BatchSize \in Nat /\ executedSinceStop \in Nat /\ batch \in Seq({"intent"})
      /\ Len(batch) \in Nat /\ Len(batch) <= BatchSize
  BY RouterAssumption DEF TypeOK, RouterTypeOK
<1>3. CASE ServiceAction /\ UNCHANGED routerVars
           /\ executedSinceKill' = (IF killSwitch' THEN executedSinceKill ELSE 0)
           /\ executedSinceStop' = (IF publishedMode' \in Stopped THEN executedSinceStop ELSE 0)
  BY <1>2, <1>3 DEF StopInv, routerVars
<1>4. CASE Approve
  BY <1>4 DEF Approve, StopInv, serviceVars, redis
<1>5. CASE (RouterMode \/ RouterKill \/ RouterRead)
           /\ UNCHANGED <<serviceVars, executedSinceKill, executedSinceStop>>
  <2>1. CASE RouterMode
    <3>1. publishedMode \notin Stopped
      <4>1. Reads(publishedMode, "RUNNING") = {publishedMode}
        BY ReadsOne
      <4>2. {publishedMode} \ Stopped # {}
        BY <2>1, <4>1 DEF RouterMode
      <4> QED BY <4>2
    <3>2. executedSinceStop = 0
      BY <3>1 DEF StopInv
    <3> QED BY <1>2, <1>5, <2>1, <3>2 DEF RouterMode, StopInv
  <2>2. CASE RouterKill
    <3>1. executedSinceStop = 0 /\ batch' = batch
      BY <2>2 DEF RouterKill, StopInv
    <3> QED BY <1>2, <1>5, <3>1 DEF StopInv
  <2>3. CASE RouterRead
    <3>1. executedSinceStop = 0
      BY <2>3 DEF RouterRead, StopInv
    <3>2. batch' \in Seq({"intent"}) /\ Len(batch') <= BatchSize
      BY <2>3, ReadTypes
    <3> QED BY <1>2, <1>5, <3>1, <3>2 DEF StopInv
  <2> QED BY <1>5, <2>1, <2>2, <2>3
<1>6. CASE Execute
  <2>1. batch # <<>> /\ batch' = Tail(batch) /\ routerStep' \notin {"kill", "read"}
    BY <1>6 DEF Execute, RouterNext, TypeOK, RouterTypeOK
  <2>2. Len(batch') = Len(batch) - 1
    BY <1>2, <2>1
  <2>3. \/ executedSinceStop' = executedSinceStop
        \/ executedSinceStop' = IF publishedMode \in Stopped THEN executedSinceStop + 1 ELSE 0
    BY <1>6 DEF Execute
  <2>4. publishedMode' = publishedMode
    BY <1>6 DEF Execute, serviceVars, redis
  <2> QED BY <1>2, <2>1, <2>2, <2>3, <2>4 DEF StopInv
<1>7. CASE RouterRestart /\ UNCHANGED <<executedSinceKill, executedSinceStop>>
  BY <1>2, <1>7 DEF RouterRestart, StopInv, redis
<1>8. CASE UNCHANGED vars
  BY <1>8 DEF vars, serviceVars, redis, routerVars, StopInv
<1> QED BY <1>1, <1>3, <1>4, <1>5, <1>6, <1>7, <1>8, Zenon DEF Steps

\* If Redis answers, no more than a batch is executed after FLATTEN or HALTED is published.
THEOREM StoppedModeStopsHolds == RedisFails = FALSE /\ Spec => []StoppedModeStops
<1>1. Init => StopInv
  <2> SUFFICES ASSUME Init PROVE StopInv
    OBVIOUS
  <2>1. batch = <<>> /\ executedSinceStop = 0
    BY DEF Init, RouterInit
  <2> QED BY <2>1, RouterAssumption DEF StopInv
<1>2. StopInv /\ TypeOK => StoppedModeStops
  BY RouterAssumption DEF StopInv, TypeOK, RouterTypeOK, StoppedModeStops
<1>3. RedisFails = FALSE => [](RedisFails = FALSE)
  <2>1. RedisFails = FALSE => (RedisFails = FALSE)'
    OBVIOUS
  <2> QED BY <2>1, PTL
<1> QED BY <1>1, <1>2, <1>3, StepStopInv, TypeCorrect, PTL DEF Spec

-----------------------------------------------------------------------------
\* The mode of the service, whether Redis answers or not.

\* A heeded kill switch keeps the service from RUNNING, but for the moment between a
\* command and the look at the switch.
HeededInv == heeded /\ step \in {"select", "evaluate", "count"} => mode # "RUNNING"

\* What the service does with its mode.
LEMMA ServiceModes ==
  ASSUME ServiceAction
  PROVE  \/ UNCHANGED mode /\ (step' = step \/ step' # "evaluate") /\ (heeded' => heeded)
             /\ (step' = step \/ step \in {"select", "evaluate", "count"})
         \/ mode \notin Final /\ mode' \in {"PAUSED", "SAFE"} /\ Rank(mode') > Rank(mode)
         \/ step = "obey" /\ step' = "kill"
         \/ step = "kill" /\ step' = "evaluate" /\ UNCHANGED <<mode, restarts>>
               /\ (heeded' => mode # "RUNNING")
         \/ step = "kill" /\ mode = "RUNNING" /\ mode' = "PAUSED"
         \/ mode' = "HALTED"
         \/ mode' = "RUNNING" /\ heeded' = FALSE /\ restarts' # restarts
<1>1. CASE Operator
  <2>1. UNCHANGED <<mode, step>>
    BY <1>1, Zenon DEF Operator, Command, SetKillSwitch, daemon
  <2>2. heeded' => heeded
    BY <1>1, Zenon DEF Operator, Command, SetKillSwitch
  <2> QED BY <2>1, <2>2, Zenon
<1>2. CASE TickCommand
  BY <1>2 DEF TickCommand
<1>3. CASE TickObey
  BY <1>3 DEF TickObey
<1>4. CASE TickKill
  BY <1>4 DEF TickKill
<1>5. CASE TickEvaluate
  BY <1>5 DEF TickEvaluate, Demand
<1>6. CASE Report
  BY <1>6 DEF Report, Demand
<1>7. CASE Flatten
  <2>1. CASE FlattenEmit
    BY <2>1 DEF FlattenEmit
  <2>2. CASE \E open \in {0, 1} : FlattenCount(open)
    <3>1. \/ mode' = "HALTED"
          \/ UNCHANGED <<mode, heeded>> /\ step = "count" /\ step' = "select"
      BY <2>2, Zenon DEF FlattenCount
    <3> QED BY <3>1
  <2> QED BY <1>7, <2>1, <2>2 DEF Flatten
<1>8. CASE PublishState
  BY <1>8 DEF PublishState, daemon
<1>9. CASE Restart
  BY <1>9 DEF Restart
<1> QED BY <1>1, <1>2, <1>3, <1>4, <1>5, <1>6, <1>7, <1>8, <1>9, Zenon DEF ServiceAction, Ticks

LEMMA StepKeepsMode ==
  ASSUME [Next]_vars
  PROVE  ServiceAction \/ (UNCHANGED <<mode, step>> /\ (heeded' = heeded))
<1>1. Steps
  BY StepKinds
<1> QED BY <1>1, Zenon DEF Steps, Approve, Execute, RouterRestart, vars, serviceVars, daemon

\* With a kill switch it heeded, the service does not run, whatever is commanded.
THEOREM KillPausesHolds == Spec => []KillPauses
<1>1. Init => HeededInv
  BY DEF Init, ServiceInit, HeededInv
<1>2. TypeOK /\ HeededInv /\ [Next]_vars => HeededInv'
  <2> SUFFICES ASSUME TypeOK, HeededInv, [Next]_vars PROVE HeededInv'
    OBVIOUS
  <2>1. CASE ServiceAction
    BY <2>1, ServiceModes DEF HeededInv, Final, Rank
  <2>2. CASE UNCHANGED <<mode, step>> /\ (heeded' = heeded)
    BY <2>2 DEF HeededInv
  <2> QED BY <2>1, <2>2, StepKeepsMode
<1>3. HeededInv => KillPauses
  BY DEF HeededInv, KillPauses
<1> QED BY <1>1, <1>2, <1>3, TypeCorrect, PTL DEF Spec

LEMMA RankOrder ==
  /\ Rank("RUNNING") = 0 /\ Rank("PAUSED") = 1 /\ Rank("HALTED") = 4
  /\ \A m \in Modes : Rank(m) \in 0..4
BY DEF Rank, Modes

\* The mode gets less severe only by an operator's command or a restart.
THEOREM OnlyOperatorRelaxesHolds == Spec => OnlyOperatorRelaxes
<1>1. TypeOK /\ [Next]_vars
        => [Rank(mode') < Rank(mode) => step = "obey" \/ restarts' # restarts]_serviceVars
  <2> SUFFICES ASSUME TypeOK, [Next]_vars, Rank(mode') < Rank(mode)
               PROVE  step = "obey" \/ restarts' # restarts
    OBVIOUS
  <2>1. mode \in Modes
    BY DEF TypeOK, ServiceTypeOK
  <2>2. Rank(mode) \in 0..4
    BY <2>1, RankOrder
  <2>3. CASE ServiceAction
    <3>1. mode' # mode
      BY <2>2
    <3>2. CASE mode \notin Final /\ mode' \in {"PAUSED", "SAFE"} /\ Rank(mode') > Rank(mode)
      <4>1. mode' \in Modes
        BY <3>2 DEF Modes
      <4>2. Rank(mode') \in 0..4
        BY <4>1, RankOrder
      <4> QED BY <2>2, <3>2, <4>2
    <3>3. CASE mode' = "HALTED"
      BY <2>2, <3>3, RankOrder
    <3>4. CASE mode = "RUNNING" /\ mode' = "PAUSED"
      BY <3>4, RankOrder
    <3> QED BY <2>3, <3>1, <3>2, <3>3, <3>4, ServiceModes
  <2>4. CASE UNCHANGED <<mode, step>>
    BY <2>2, <2>4
  <2> QED BY <2>3, <2>4, StepKeepsMode
<1> QED BY <1>1, TypeCorrect, PTL DEF Spec, OnlyOperatorRelaxes

-----------------------------------------------------------------------------
\* The flatten sequence with its positions.

Intents == [close : BOOLEAN, on : Positions, buys : BOOLEAN, notional : Nat]

\* A position that nothing was traded of is none.
Traded(holdings) ==
    /\ holdings \in [Positions -> Holdings]
    /\ \A p \in Positions : holdings[p].notional = 0 => holdings[p].qty = 0

QueueOK == approved \in Seq(Intents) /\ batch \in Seq(Intents) /\ (routerStep = "execute" => batch # <<>>)
CommandOK == command \in Commands \cup {None} /\ commandedMode \in Commands \cup {None}

FlattenInv == QueueOK /\ CommandOK /\ Traded(held) /\ Traded(stored)

\* A fill leaves a position that was traded.
LEMMA FilledTrades ==
    ASSUME Traded(held), Traded(stored), NEW intent \in Intents, Filled(intent)
    PROVE  Traded(held') /\ Traded(stored')
<1>1. PICK filled \in 1..intent.notional :
        LET before == held[intent.on]
            after == [qty |-> before.qty + Signed(intent, filled), notional |-> before.notional + filled]
        IN  /\ after \in Holdings
            /\ held' = [held EXCEPT ![intent.on] = after]
            /\ stored' = [stored EXCEPT ![intent.on] = after]
  BY DEF Filled
<1> DEFINE after == [qty |-> held[intent.on].qty + Signed(intent, filled),
                     notional |-> held[intent.on].notional + filled]
<1>2. /\ after \in Holdings
      /\ held' = [held EXCEPT ![intent.on] = after] /\ stored' = [stored EXCEPT ![intent.on] = after]
  BY <1>1
<1>3. intent.on \in Positions /\ intent.notional \in Nat
  BY DEF Intents
<1>4. filled \in Nat /\ filled > 0
  BY <1>3
<1>5. held[intent.on] \in Holdings
  BY <1>3 DEF Traded
<1>6. held[intent.on].notional \in Nat
  BY <1>5, PositionsAssumption DEF Holdings
<1>7. after.notional # 0
  BY <1>4, <1>6
<1> HIDE DEF after
<1>8. \A p \in Positions : held'[p] = IF p = intent.on THEN after ELSE held[p]
  BY <1>2, <1>3 DEF Traded
<1>9. \A p \in Positions : stored'[p] = IF p = intent.on THEN after ELSE stored[p]
  BY <1>2, <1>3 DEF Traded
<1>10. held' \in [Positions -> Holdings] /\ stored' \in [Positions -> Holdings]
  BY <1>2 DEF Traded
<1> QED BY <1>7, <1>8, <1>9, <1>10 DEF Traded

LEMMA FlatTraded == ASSUME NEW f, f = [p \in Positions |-> Flat] PROVE Traded(f)
<1>1. Flat \in Holdings
  BY PositionsAssumption DEF Flat, Holdings
<1> QED BY <1>1 DEF Traded, Flat

\* What the router takes from the stream and what it leaves.
LEMMA BatchOK == ASSUME QueueOK, RouterRead PROVE QueueOK'
<1> DEFINE n == IF Len(approved) < BatchSize THEN Len(approved) ELSE BatchSize
<1>1. BatchSize \in Nat \ {0} /\ approved \in Seq(Intents)
  BY RouterAssumption DEF QueueOK
<1>2. n \in Nat /\ n <= Len(approved) /\ ((n = 0) = (Len(approved) = 0))
  BY <1>1
<1>3. batch' = SubSeq(approved, 1, n) /\ approved' = SubSeq(approved, n + 1, Len(approved))
      /\ routerStep' = IF approved = <<>> THEN "mode" ELSE "execute"
  BY DEF RouterRead
<1> HIDE DEF n
<1>4. batch' \in Seq(Intents) /\ Len(batch') = n
  BY <1>1, <1>2, <1>3
<1>5. approved' \in Seq(Intents)
  BY <1>1, <1>2, <1>3
<1>6. (batch' # <<>>) = (approved # <<>>)
  BY <1>1, <1>2, <1>4
<1>7. routerStep' = "execute" => batch' # <<>>
  BY <1>3, <1>6
<1> QED BY <1>4, <1>5, <1>7 DEF QueueOK

\* The service keeps to its commands.
LEMMA CommandKept ==
    ASSUME CommandOK, Operator \/ Ticks \/ Report \/ FlattenEmit \/ CountPositions \/ PublishState \/ Restart
    PROVE  CommandOK'
<1>1. CASE Operator
  BY <1>1 DEF Operator, Command, SetKillSwitch, daemon, CommandOK
<1>2. CASE Ticks
  BY <1>2 DEF Ticks, TickCommand, TickObey, TickKill, TickEvaluate, redis, CommandOK, Reads, Writes
<1>3. CASE Report \/ FlattenEmit \/ PublishState
  BY <1>3 DEF Report, FlattenEmit, PublishState, redis, daemon, CommandOK
<1>4. CASE CountPositions
  BY <1>4 DEF CountPositions, FlattenCount, CommandOK
<1>5. CASE Restart
  BY <1>5 DEF Restart, CommandOK
<1> QED BY <1>1, <1>2, <1>3, <1>4, <1>5

\* What the sequence emits are intents.
LEMMA EmittedOK == ASSUME QueueOK, Traded(stored), FlattenPositions PROVE QueueOK'
<1>1. PICK emitted \in Reads(Open, {}) :
          \E order \in [1..Cardinality(emitted) -> emitted] :
                approved' = approved \o [k \in DOMAIN order |-> CloseIntent(order[k])]
  BY DEF FlattenPositions
<1>2. emitted \subseteq Positions
  BY DEF Reads, Open
<1>3. Cardinality(emitted) \in Nat
  BY <1>2, PositionsAssumption, FS_Subset, FS_CardinalityType
<1>4. PICK order \in [1..Cardinality(emitted) -> emitted] :
        approved' = approved \o [k \in DOMAIN order |-> CloseIntent(order[k])]
  BY <1>1
<1> DEFINE intents == [k \in DOMAIN order |-> CloseIntent(order[k])]
<1>5. \A p \in Positions : stored[p].notional \in Nat
  BY PositionsAssumption DEF Traded, Holdings
<1>6. \A p \in Positions : CloseIntent(p) \in Intents
  BY <1>5 DEF CloseIntent, Intents
<1>7. intents \in [1..Cardinality(emitted) -> Intents]
  BY <1>2, <1>6
<1>8. intents \in Seq(Intents)
  BY <1>3, <1>7
<1> HIDE DEF intents
<1>9. approved' \in Seq(Intents)
  <2>1. approved' = approved \o intents
    BY <1>4 DEF intents
  <2>2. approved \in Seq(Intents)
    BY DEF QueueOK
  <2> QED BY <1>8, <2>1, <2>2, ConcatProperties
<1>10. UNCHANGED <<routerStep, batch>>
  BY Zenon DEF FlattenPositions
<1> QED BY <1>9, <1>10 DEF QueueOK

LEMMA FlattenInvKept == FlattenInv /\ [NextFlatten]_flattenVars => FlattenInv'
<1> SUFFICES ASSUME FlattenInv, [NextFlatten]_flattenVars PROVE FlattenInv'
  OBVIOUS
<1> USE DEF FlattenInv
<1>1. CASE \/ RiskStep(Operator) \/ RiskStep(Ticks) \/ RiskStep(Report)
           \/ RiskStep(CountPositions) \/ RiskStep(PublishState) \/ RiskStep(Restart)
  <2>1. CommandOK'
    BY <1>1, CommandKept, Zenon DEF RiskStep
  <2>2. UNCHANGED <<routerVars, positionVars>>
    BY <1>1, Zenon DEF RiskStep
  <2> QED BY <2>1, <2>2 DEF routerVars, positionVars, QueueOK, Traded
<1>2. CASE FlattenPositions /\ UNCHANGED positionVars
  <2>1. QueueOK'
    BY <1>2, EmittedOK
  <2>2. CommandOK'
    BY <1>2, CommandKept DEF FlattenPositions
  <2> QED BY <1>2, <2>1, <2>2 DEF positionVars, Traded
<1>3. CASE \E on \in Positions, buys \in BOOLEAN : ApproveTrade(on, buys)
  <2>1. PICK on \in Positions, buys \in BOOLEAN : ApproveTrade(on, buys)
    BY <1>3
  <2>2. [close |-> FALSE, on |-> on, buys |-> buys, notional |-> 1] \in Intents
    BY DEF Intents
  <2>3. approved' \in Seq(Intents) /\ UNCHANGED <<batch, routerStep, held, stored, command, commandedMode>>
    BY <2>1, <2>2 DEF ApproveTrade, QueueOK, serviceVars, redis, daemon
  <2> QED BY <2>3 DEF QueueOK, CommandOK, Traded
<1>4. CASE (RouterMode \/ RouterKill \/ RouterRead) /\ UNCHANGED <<serviceVars, positionVars>>
  <2>1. CASE RouterRead
    <3>1. QueueOK'
      BY <2>1, BatchOK
    <3> QED BY <1>4, <3>1 DEF serviceVars, redis, daemon, positionVars, CommandOK, Traded
  <2>2. CASE RouterMode \/ RouterKill
    <3>1. UNCHANGED <<approved, batch>> /\ routerStep' # "execute"
      BY <2>2 DEF RouterMode, RouterKill
    <3> QED BY <1>4, <3>1 DEF serviceVars, redis, daemon, positionVars, QueueOK, CommandOK, Traded
  <2> QED BY <1>4, <2>1, <2>2
<1>5. CASE ExecuteTrade
  <2>1. batch \in Seq(Intents) /\ batch # <<>>
    BY <1>5 DEF ExecuteTrade, RouterNext, QueueOK
  <2>2. Head(batch) \in Intents /\ Tail(batch) \in Seq(Intents) /\ Len(Tail(batch)) = Len(batch) - 1
        /\ Len(batch) \in Nat
    BY <2>1
  <2>3. Traded(held') /\ Traded(stored')
    <3>1. CASE Filled(Head(batch))
      BY <2>2, <3>1, FilledTrades
    <3>2. CASE UNCHANGED <<held, stored>>
      BY <3>2
    <3> QED BY <1>5, <3>1, <3>2 DEF ExecuteTrade
  <2>4. batch' = Tail(batch) /\ routerStep' = (IF Len(batch) = 1 THEN "mode" ELSE "execute")
        /\ UNCHANGED <<serviceVars, approved>>
    BY <1>5 DEF ExecuteTrade, RouterNext
  <2>5. routerStep' = "execute" => batch' # <<>>
    BY <2>1, <2>2, <2>4
  <2> QED BY <2>2, <2>3, <2>4, <2>5 DEF serviceVars, redis, daemon, QueueOK, CommandOK, Traded
<1>6. CASE ExecutorRestart
  <2>1. Traded(held')
    BY <1>6, FlatTraded DEF ExecutorRestart
  <2>2. UNCHANGED <<approved, redis, daemon, stored>> /\ batch' = <<>> /\ routerStep' = "mode"
    BY <1>6 DEF ExecutorRestart, RouterRestart
  <2> QED BY <2>1, <2>2 DEF redis, daemon, QueueOK, CommandOK, Traded
<1>7. CASE UNCHANGED flattenVars
  BY <1>7 DEF flattenVars, serviceVars, redis, daemon, routerVars, positionVars, QueueOK, CommandOK, Traded
<1> QED BY <1>1, <1>2, <1>3, <1>4, <1>5, <1>6, <1>7 DEF NextFlatten, TradeRouter

\* Only the count halts the service of itself, and it counted nothing.
LEMMA HaltStep ==
    ASSUME RedisFails = FALSE, FlattenInv, [NextFlatten]_flattenVars, mode' = "HALTED", mode # "HALTED"
    PROVE  \A p \in Positions : stored[p].qty = 0
<1>1. CASE RiskStep(CountPositions)
  <2>1. FlattenCount(Cardinality(Open))
    BY <1>1 DEF RiskStep, CountPositions
  <2>2. Reads(Cardinality(Open), 0) = {Cardinality(Open)}
    BY ReadsOne
  <2>3. Cardinality(Open) = 0
    BY <2>1, <2>2 DEF FlattenCount
  <2>4. IsFiniteSet(Open)
    BY PositionsAssumption, FS_Subset DEF Open
  <2>5. Open = {}
    BY <2>3, <2>4, FS_EmptySet
  <2> QED BY <2>5 DEF Open, FlattenInv, Traded
<1>2. CASE RiskStep(Operator) \/ RiskStep(Ticks) \/ RiskStep(Report) \/ RiskStep(PublishState) \/ RiskStep(Restart)
  <2>1. mode' \in Commands \cup {None, mode, "PAUSED", "SAFE", "RUNNING"}
    BY <1>2 DEF RiskStep, Operator, Command, SetKillSwitch, daemon, Ticks, TickCommand, TickObey, TickKill,
       TickEvaluate, Demand, Report, PublishState, Restart, redis, FlattenInv, CommandOK
  <2> QED BY <2>1 DEF Commands, None
<1>3. CASE \/ FlattenPositions /\ UNCHANGED positionVars
           \/ \E on \in Positions, buys \in BOOLEAN : ApproveTrade(on, buys)
           \/ TradeRouter \/ ExecutorRestart \/ UNCHANGED flattenVars
  <2>1. mode' = mode
    BY <1>3 DEF FlattenPositions, FlattenEmit, ApproveTrade, TradeRouter, ExecuteTrade, ExecutorRestart,
       RouterRestart, flattenVars, serviceVars, daemon
  <2> QED BY <2>1
<1> QED BY <1>1, <1>2, <1>3 DEF NextFlatten

(***************************************************************************)
(* The service halts itself only when every position written to Redis is   *)
(* closed, for any positions, sizes of batches and sequences of fills, if  *)
(* Redis answers: it counts the positions with a notional, and one that    *)
(* nothing was traded of is none (updatePosition, OpenPositionCount).      *)
(***************************************************************************)
THEOREM HaltsClosedHolds == RedisFails = FALSE /\ FlattenSpec => HaltsClosed
<1> SUFFICES ASSUME RedisFails = FALSE PROVE FlattenSpec => HaltsClosed
  OBVIOUS
<1>1. InitFlatten => FlattenInv
  <2> SUFFICES ASSUME InitFlatten PROVE FlattenInv
    OBVIOUS
  <2>1. Traded(held) /\ Traded(stored)
    BY FlatTraded DEF InitFlatten
  <2> QED BY <2>1 DEF InitFlatten, ServiceInit, RouterInit, FlattenInv, QueueOK, CommandOK
<1>2. FlattenInv /\ [NextFlatten]_flattenVars => FlattenInv'
  BY FlattenInvKept
<1>3. FlattenInv /\ [NextFlatten]_flattenVars
        => [mode' = "HALTED" /\ mode # "HALTED" => \A p \in Positions : stored[p].qty = 0]_flattenVars
  BY HaltStep
<1> QED BY <1>1, <1>2, <1>3, PTL DEF FlattenSpec, HaltsClosed
=============================================================================
