----------------------------- MODULE RiskService -----------------------------
(***************************************************************************)
(* The risk service around its engine (src/cmd/risk-daemon/main.go): the   *)
(* operator's switch and commands in Redis, the tick that obeys them, the  *)
(* flatten sequence and the published mode.  The engine is taken as its    *)
(* mode machine, of which RiskDaemon is an implementation.                 *)
(*                                                                         *)
(* The service is one goroutine, but the operator and the other services   *)
(* act between any two of its calls to Redis; step is where it stands.     *)
(***************************************************************************)
EXTENDS Modes, Sequences

CONSTANTS
    RedisFails,    \* calls to Redis may fail
    MaxRestarts    \* bound

ASSUME ServiceAssumption == RedisFails \in BOOLEAN /\ MaxRestarts \in Nat

VARIABLES
    killSwitch, commandedMode, publishedMode,    \* keys in Redis
    mode, flattenActive, step, command,          \* the service
    restarts,                                    \* of all services
    heeded    \* history variable: the last tick saw a kill switch not cleared since

redis == <<killSwitch, commandedMode, publishedMode>>
daemon == <<mode, flattenActive, step, command>>
serviceVars == <<redis, daemon, restarts, heeded>>

None == ""
Commands == {"PAUSED", "SAFE", "FLATTEN", "RUNNING"}

ServiceTypeOK ==
    /\ killSwitch \in BOOLEAN
    /\ commandedMode \in Commands \cup {None}
    /\ publishedMode \in Modes
    /\ mode \in Modes
    /\ flattenActive \in BOOLEAN
    /\ step \in {"select", "obey", "kill", "evaluate", "count"}
    /\ command \in Commands \cup {None}
    /\ (step = "obey") = (command # None)
    /\ restarts \in 0..MaxRestarts
    /\ heeded \in BOOLEAN

\* What a read of a key may return: a failed call looks like an absent key.
Reads(value, absent) == IF RedisFails THEN {value, absent} ELSE {value}

\* What a key may hold after a write, whose failure is only logged.
Writes(old, new) == IF RedisFails THEN {old, new} ELSE {new}

-----------------------------------------------------------------------------

ServiceInit ==
    /\ killSwitch = FALSE /\ commandedMode = None /\ publishedMode = "RUNNING"
    /\ mode = "RUNNING"
    /\ flattenActive = FALSE /\ step = "select" /\ command = None
    /\ restarts = 0 /\ heeded = FALSE

\* The operator.
Command(m) ==
    /\ commandedMode' = m
    /\ UNCHANGED <<killSwitch, publishedMode, daemon, restarts, heeded>>

SetKillSwitch(active) ==
    /\ killSwitch' = active
    /\ heeded' = (heeded /\ active)
    /\ UNCHANGED <<commandedMode, publishedMode, daemon, restarts>>

\* A tick: the command, the kill switch, the evaluation.
TickCommand ==
    /\ step = "select"
    /\ command' \in Reads(commandedMode, None)
    /\ step' = IF command' = None THEN "kill" ELSE "obey"
    /\ UNCHANGED <<redis, mode, flattenActive, restarts, heeded>>

TickObey ==
    /\ step = "obey" /\ step' = "kill" /\ command' = None
    /\ commandedMode' \in Writes(commandedMode, None)
    /\ mode' = command
    /\ flattenActive' = (flattenActive \/ command = "FLATTEN")
    /\ UNCHANGED <<killSwitch, publishedMode, restarts, heeded>>

TickKill_AnyMode ==
    /\ step = "kill" /\ step' = "evaluate"
    /\ heeded' \in Reads(killSwitch, FALSE)
    /\ IF heeded' THEN mode' = "PAUSED" ELSE UNCHANGED mode
    /\ UNCHANGED <<redis, flattenActive, command, restarts>>

TickKill ==
    /\ step = "kill" /\ step' = "evaluate"
    /\ heeded' \in Reads(killSwitch, FALSE)
    /\ IF heeded' /\ mode = "RUNNING" THEN mode' = "PAUSED" ELSE UNCHANGED mode
    /\ UNCHANGED <<redis, flattenActive, command, restarts>>

\* An evaluation: the readings may demand any mode an evaluation can reach.
Demand ==
    \/ UNCHANGED mode
    \/ mode \notin Final /\ mode' \in {"PAUSED", "SAFE"} /\ Rank(mode') > Rank(mode)

TickEvaluate ==
    /\ step = "evaluate" /\ step' = "select"
    /\ Demand
    /\ flattenActive' = (flattenActive \/ mode' = "FLATTEN")
    /\ UNCHANGED <<redis, command, restarts, heeded>>

\* An execution event or a venue status.
Report ==
    /\ step = "select" /\ Demand
    /\ UNCHANGED <<redis, flattenActive, step, command, restarts, heeded>>

\* The flatten sequence, every ten seconds: close intents are emitted, then the open
\* positions counted.  A failed count is no position.
FlattenEmit ==
    /\ step = "select" /\ flattenActive /\ step' = "count"
    /\ UNCHANGED <<redis, mode, flattenActive, command, restarts, heeded>>

FlattenCount(open) ==
    /\ step = "count" /\ step' = "select"
    /\ \E count \in Reads(open, 0) :
          IF count = 0
          THEN /\ mode' = "HALTED"
               /\ flattenActive' = FALSE
               /\ publishedMode' \in Writes(publishedMode, mode')
          ELSE UNCHANGED <<mode, flattenActive, publishedMode>>
    /\ UNCHANGED <<killSwitch, commandedMode, command, restarts, heeded>>

\* Every thirty seconds.
PublishState ==
    /\ step = "select"
    /\ publishedMode' \in Writes(publishedMode, mode)
    /\ UNCHANGED <<killSwitch, commandedMode, daemon, restarts, heeded>>

\* The service starts in RUNNING and publishes it.
Restart ==
    /\ restarts < MaxRestarts /\ restarts' = restarts + 1
    /\ mode' = "RUNNING"
    /\ flattenActive' = FALSE /\ step' = "select" /\ command' = None
    /\ publishedMode' \in Writes(publishedMode, mode')
    /\ heeded' = FALSE
    /\ UNCHANGED <<killSwitch, commandedMode>>

Operator ==
    \/ \E m \in Commands : Command(m)
    \/ \E active \in BOOLEAN : SetKillSwitch(active)

Ticks == TickCommand \/ TickObey \/ TickKill \/ TickEvaluate

-----------------------------------------------------------------------------

\* The tick sees to it that the kill switch keeps the service from RUNNING, whatever is
\* commanded or evaluated.
KillPauses == heeded /\ step = "select" => mode # "RUNNING"

\* The mode gets less severe only by an operator's command or a restart.
OnlyOperatorRelaxes ==
    [][Rank(mode') < Rank(mode) => step = "obey" \/ restarts' # restarts]_serviceVars
=============================================================================
