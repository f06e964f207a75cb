--------------------------- MODULE ExecutionRouter ---------------------------
(***************************************************************************)
(* The loop of the execution router (src/cmd/execution-router/main.go):    *)
(* mode, kill switch, a blocking read that acknowledges, and then one      *)
(* intent after the other without looking again.  What an execution does   *)
(* is left to the modules that extend this one.                            *)
(***************************************************************************)
EXTENDS RiskService

CONSTANT BatchSize    \* intents taken by one read

ASSUME RouterAssumption == BatchSize \in Nat \ {0}

VARIABLES
    approved,      \* the stream trade:intents:approved
    routerStep,
    batch          \* intents read and not executed yet

routerVars == <<approved, routerStep, batch>>

\* Modes in which the router does not read (src/cmd/execution-router/main.go:143).
Stopped == {"FLATTEN", "HALTED"}

RouterTypeOK(intents) ==
    /\ approved \in Seq(intents) /\ batch \in Seq(intents) /\ Len(batch) <= BatchSize
    /\ routerStep \in {"mode", "kill", "read", "execute"}
    /\ (routerStep = "execute") = (batch # <<>>)

RouterInit == approved = <<>> /\ routerStep = "mode" /\ batch = <<>>

RouterMode_Unchecked ==
    /\ routerStep = "mode" /\ routerStep' = "kill"
    /\ UNCHANGED <<approved, batch>>

RouterMode ==
    /\ routerStep = "mode" /\ routerStep' = "kill"
    /\ Reads(publishedMode, "RUNNING") \ Stopped # {}
    /\ UNCHANGED <<approved, batch>>

RouterKill_Unchecked ==
    /\ routerStep = "kill" /\ routerStep' = "read"
    /\ UNCHANGED <<approved, batch>>

RouterKill ==
    /\ routerStep = "kill"
    /\ \E active \in Reads(killSwitch, FALSE) : routerStep' = IF active THEN "mode" ELSE "read"
    /\ UNCHANGED <<approved, batch>>

\* The read blocks for a while, and returns empty if nothing came or it failed.
RouterRead ==
    /\ routerStep = "read"
    /\ LET n == IF Len(approved) < BatchSize THEN Len(approved) ELSE BatchSize
       IN  /\ batch' = SubSeq(approved, 1, n)
           /\ approved' = SubSeq(approved, n + 1, Len(approved))
    /\ routerStep' = IF approved = <<>> THEN "mode" ELSE "execute"

\* The next intent of the batch is done with.
RouterNext ==
    /\ routerStep = "execute"
    /\ batch' = Tail(batch)
    /\ routerStep' = IF Len(batch) = 1 THEN "mode" ELSE "execute"

\* What was read is acknowledged: a crash loses it.
RouterRestart ==
    /\ restarts < MaxRestarts /\ restarts' = restarts + 1
    /\ routerStep' = "mode" /\ batch' = <<>>
    /\ UNCHANGED <<approved, redis, daemon, heeded>>
=============================================================================
