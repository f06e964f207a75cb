----------------------------- MODULE KillSwitch -----------------------------
(***************************************************************************)
(* From an operator's command to the order that is not placed: the risk    *)
(* service and the execution router, each looking at Redis in its own      *)
(* time.  Approved intents are all alike.                                  *)
(***************************************************************************)
EXTENDS ExecutionRouter

CONSTANT MaxApproved   \* bound, of intents waiting in the stream

ASSUME StreamAssumption == MaxApproved \in Nat

VARIABLES
    executedSinceKill,  \* history variables: since the kill switch was set, and since a
    executedSinceStop   \* mode was published in which the router stops

vars == <<serviceVars, routerVars, executedSinceKill, executedSinceStop>>

TypeOK ==
    /\ ServiceTypeOK /\ RouterTypeOK({"intent"})
    /\ Len(approved) <= MaxApproved
    /\ executedSinceKill \in Nat /\ executedSinceStop \in Nat

Init == ServiceInit /\ RouterInit /\ executedSinceKill = 0 /\ executedSinceStop = 0

-----------------------------------------------------------------------------

\* The allocator approves, or the service emits a close intent.
Approve ==
    /\ Len(approved) < MaxApproved /\ approved' = Append(approved, "intent")
    /\ UNCHANGED <<serviceVars, routerStep, batch, executedSinceKill, executedSinceStop>>

\* The next intent of the batch is executed, or nothing comes of it: it expired, there is
\* no price, the rate limit.
Execute ==
    /\ RouterNext
    /\ \/ UNCHANGED <<executedSinceKill, executedSinceStop>>
       \/ /\ executedSinceKill' = IF killSwitch THEN executedSinceKill + 1 ELSE 0
          /\ executedSinceStop' = IF publishedMode \in Stopped THEN executedSinceStop + 1 ELSE 0
    /\ UNCHANGED <<serviceVars, approved>>

Router ==
    \/ /\ RouterMode \/ RouterKill \/ RouterRead
       /\ UNCHANGED <<serviceVars, executedSinceKill, executedSinceStop>>
    \/ Execute

\* A step of the service or the operator, which may end a kill or a stop.
ServiceStep(action) ==
    /\ action
    /\ executedSinceKill' = IF killSwitch' THEN executedSinceKill ELSE 0
    /\ executedSinceStop' = IF publishedMode' \in Stopped THEN executedSinceStop ELSE 0
    /\ UNCHANGED routerVars

\* Any number of positions are open.
Flatten == FlattenEmit \/ \E open \in {0, 1} : FlattenCount(open)

Next ==
    \/ ServiceStep(Operator)
    \/ ServiceStep(Ticks) \/ ServiceStep(Report) \/ ServiceStep(Flatten)
    \/ ServiceStep(PublishState) \/ ServiceStep(Restart)
    \/ Approve
    \/ Router
    \/ RouterRestart /\ UNCHANGED <<executedSinceKill, executedSinceStop>>

Spec == Init /\ [][Next]_vars

\* Both loops go on.  The service's select takes one ready timer at random, so a tick and
\* a publication come again and again whatever else it does.
FairSpec ==
    /\ Spec
    /\ SF_vars(ServiceStep(TickCommand)) /\ SF_vars(ServiceStep(PublishState))
    /\ WF_vars(ServiceStep(step # "select" /\ (Ticks \/ Flatten)))
    /\ WF_vars(Router)

-----------------------------------------------------------------------------

\* Once the kill switch is set, no more than the batch the router had checked for is
\* executed ("Blocks trade execution", docs/failure-modes.md:138).
ExecutionStops == killSwitch => executedSinceKill <= BatchSize

\* Once FLATTEN or HALTED is published, the router executes no more than a batch.
StoppedModeStops == publishedMode \in Stopped => executedSinceStop <= BatchSize

\* A service that stays flattening or halted ends with a router that does nothing.
StopReachesRouter == (<>[](mode \in Stopped)) => <>[](routerStep = "mode")

=============================================================================
