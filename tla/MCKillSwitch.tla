---------------------------- MODULE MCKillSwitch ----------------------------
(* The service and the router in two parts, of which a behaviour has one:  *)
(* "kill" with intents all alike in batches of two, so that a batch        *)
(* outlasts the check made for it; and "flatten" with one position, traded *)
(* twice, or traded once and closed.                                       *)
EXTENDS KillSwitch, Flatten

VARIABLE part

MCvars == <<vars, part, positionVars>>

MCInit ==
    /\ part \in {"kill", "flatten"}
    /\ Init /\ InitFlatten

\* A step of the first part.
Kill(action) == part = "kill" /\ action /\ UNCHANGED <<part, positionVars>>

MCNext ==
    \/ Kill(Next)
    \/ part = "flatten" /\ NextFlatten /\ UNCHANGED <<part, executedSinceKill, executedSinceStop>>

\* The fairness of FairSpec.
MCSpec ==
    /\ MCInit /\ [][MCNext]_MCvars
    /\ SF_MCvars(Kill(ServiceStep(TickCommand))) /\ SF_MCvars(Kill(ServiceStep(PublishState)))
    /\ WF_MCvars(Kill(ServiceStep(step # "select" /\ (Ticks \/ Flatten))))
    /\ WF_MCvars(Kill(Router))

\* A service of the first part that stays flattening or halted ends with a router that
\* does nothing.
StopReaches == part = "kill" => StopReachesRouter
=============================================================================
