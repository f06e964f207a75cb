---------------------------- MODULE AllocatorLoop ----------------------------
(***************************************************************************)
(* The loop of the capital allocator (src/cmd/capital-allocator/main.go):  *)
(* kill switch, fills, intents, mode, and then one approval after the      *)
(* other without looking again.  Allocator says which intents are          *)
(* approved; here they are all alike.  The operator sets the kill switch   *)
(* and the risk service publishes the mode at any time.                    *)
(***************************************************************************)
EXTENDS Integers

CONSTANTS
    BatchSize,        \* intents taken by one read
    MaxIntents,       \* bound, of entries waiting in a stream
    RedisFails        \* calls to Redis may fail

ASSUME LoopAssumption ==
    BatchSize \in Nat \ {0} /\ MaxIntents \in Nat /\ RedisFails \in BOOLEAN

VARIABLES
    killed, riskMode,            \* kill:switch and risk:mode
    fillsConfigured,             \* there is a fills stream
    intents, granted, fills,     \* entries waiting in the streams
    loopStep, seenMode, received,
    grantedSinceKill            \* history variable: since the kill switch was set

environment == <<killed, riskMode, fillsConfigured>>
loopVars == <<environment, intents, granted, fills, loopStep, seenMode, received, grantedSinceKill>>

\* What a read of a key may return: a failed call looks like an absent key.
Reads(value, absent) == IF RedisFails THEN {value, absent} ELSE {value}

LoopInit ==
    /\ killed = FALSE /\ riskMode = "RUNNING" /\ fillsConfigured \in BOOLEAN
    /\ intents = 0 /\ granted = 0 /\ fills = 0
    /\ loopStep = "kill" /\ seenMode = "RUNNING" /\ received = 0
    /\ grantedSinceKill = 0

-----------------------------------------------------------------------------

\* The engines emit an intent, and the router executes a granted one.
Emit ==
    /\ intents < MaxIntents /\ intents' = intents + 1
    /\ UNCHANGED <<environment, granted, fills, loopStep, seenMode, received, grantedSinceKill>>

Route ==
    /\ granted > 0 /\ granted' = granted - 1
    /\ fills' = IF fills < MaxIntents THEN fills + 1 ELSE fills
    /\ UNCHANGED <<environment, intents, loopStep, seenMode, received, grantedSinceKill>>

CheckKill_Skipped ==
    /\ loopStep = "kill" /\ loopStep' = "fills"
    /\ UNCHANGED <<environment, intents, granted, fills, seenMode, received, grantedSinceKill>>

CheckKill ==
    /\ loopStep = "kill" /\ loopStep' = "fills"
    /\ FALSE \in Reads(killed, FALSE)
    /\ UNCHANGED <<environment, intents, granted, fills, seenMode, received, grantedSinceKill>>

\* The fills are read with a block time of 0, which waits for one without end; a call
\* that fails is passed over.
ReadFills ==
    /\ loopStep = "fills" /\ loopStep' = "read"
    /\ \/ ~fillsConfigured /\ UNCHANGED fills
       \/ fillsConfigured /\ fills > 0 /\ fills' = IF fills > BatchSize THEN fills - BatchSize ELSE 0
       \/ RedisFails /\ UNCHANGED fills
    /\ UNCHANGED <<environment, intents, granted, seenMode, received, grantedSinceKill>>

\* The read of intents returns empty after its block time, or when the call fails.
ReadIntents ==
    /\ loopStep = "read"
    /\ \/ received' = IF intents < BatchSize THEN intents ELSE BatchSize
       \/ RedisFails /\ received' = 0
    /\ intents' = intents - received'
    /\ loopStep' = IF received' = 0 THEN "kill" ELSE "mode"
    /\ UNCHANGED <<environment, granted, fills, seenMode, grantedSinceKill>>

CheckMode ==
    /\ loopStep = "mode" /\ loopStep' = "approve"
    /\ seenMode' \in Reads(riskMode, "RUNNING")
    /\ UNCHANGED <<environment, intents, granted, fills, received, grantedSinceKill>>

\* The next intent is rejected, or granted, which happens in RUNNING only.
Approve ==
    /\ loopStep = "approve"
    /\ received' = received - 1
    /\ loopStep' = IF received = 1 THEN "kill" ELSE "approve"
    /\ \/ UNCHANGED <<granted, grantedSinceKill>>
       \/ /\ seenMode = "RUNNING" /\ granted < MaxIntents
          /\ granted' = granted + 1
          /\ grantedSinceKill' = IF killed THEN grantedSinceKill + 1 ELSE 0
    /\ UNCHANGED <<environment, intents, fills, seenMode>>

Loop == CheckKill \/ ReadFills \/ ReadIntents \/ CheckMode \/ Approve

\* What was read is acknowledged: a crash loses it.
AllocatorRestart ==
    /\ loopStep' = "kill" /\ seenMode' = "RUNNING" /\ received' = 0
    /\ UNCHANGED <<environment, intents, granted, fills, grantedSinceKill>>

\* The operator, and the risk service.
SetKillSwitch(active) ==
    /\ killed' = active
    /\ grantedSinceKill' = IF active THEN grantedSinceKill ELSE 0
    /\ UNCHANGED <<riskMode, fillsConfigured, intents, granted, fills, loopStep, seenMode, received>>

PublishMode(mode) ==
    /\ riskMode' = mode
    /\ UNCHANGED <<killed, fillsConfigured, intents, granted, fills, loopStep, seenMode,
                   received, grantedSinceKill>>

Running ==
    \/ \E active \in BOOLEAN : SetKillSwitch(active)
    \/ \E mode \in {"RUNNING", "PAUSED"} : PublishMode(mode)
    \/ Emit \/ Route \/ Loop

LoopNext == Running \/ AllocatorRestart

LoopSpec == LoopInit /\ [][LoopNext]_loopVars

-----------------------------------------------------------------------------

\* Once the kill switch is set, no more than the batch the loop had checked for is
\* granted ("Blocks approvals", docs/failure-modes.md:137).
ApprovalStops == killed => grantedSinceKill <= BatchSize

-----------------------------------------------------------------------------
\* Said by the repository, and not so.

\* "Intent submitted to pipeline. Capital allocator will approve or reject" it
\* (internal/dashboard/gateway.go:693): unless the kill switch keeps being set, an intent
\* that waits is read and comes before the engine.
IntentsEvaluated == (<>[]~killed) => (intents > 0 ~> loopStep = "approve")
=============================================================================
