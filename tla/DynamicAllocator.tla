-------------------------- MODULE DynamicAllocator --------------------------
(***************************************************************************)
(* What the allocator multiplies a strategy's cap by: DynamicAllocator     *)
(* (src/internal/allocator/dynamic.go) follows the fills of a strategy.    *)
(* Rates and multipliers are in percent.                                   *)
(***************************************************************************)
EXTENDS Integers

CONSTANTS
    FillPnLs,   \* profit or loss of a fill, in tenths of a dollar
    MaxFills    \* bound, for model checking

ASSUME DynamicAssumption == FillPnLs \subseteq Int /\ MaxFills \in Nat

VARIABLES
    fillCount, winCount, recentPnL

dynamicVars == <<fillCount, winCount, recentPnL>>

DynamicTypeOK ==
    /\ fillCount \in 0..MaxFills
    /\ winCount \in 0..fillCount
    /\ recentPnL \in Int

-----------------------------------------------------------------------------

\* 100 + (rate - 60) * 5/4 and 50 + (rate - 20) * 5/4 for a rate of wins out of fills.
Above(wins, fills) == 100 + (125 * wins) \div fills - 75
Below(wins, fills) == 50 + (125 * wins) \div fills - 25

\* AdjustedCap; its last test, of a loss with a multiplier above one, never holds.
AdjustedPct ==
    IF fillCount < 5 THEN 100
    ELSE IF recentPnL > 0 /\ 100 * winCount > 60 * fillCount THEN Above(winCount, fillCount)
    ELSE IF 100 * winCount >= 40 * fillCount THEN 100
    ELSE IF 100 * winCount >= 20 * fillCount THEN Below(winCount, fillCount)
    ELSE 25

-----------------------------------------------------------------------------

DynamicInit == fillCount = 0 /\ winCount = 0 /\ recentPnL = 0

\* Mutant: a fill that breaks even counts as won.
RecordFill_Breakeven(pnl) ==
    /\ fillCount < MaxFills
    /\ fillCount' = fillCount + 1
    /\ winCount' = IF pnl >= 0 THEN winCount + 1 ELSE winCount
    /\ recentPnL' = recentPnL + pnl

RecordFill(pnl) ==
    /\ fillCount < MaxFills
    /\ fillCount' = fillCount + 1
    /\ winCount' = IF pnl > 0 THEN winCount + 1 ELSE winCount
    /\ recentPnL' = recentPnL + pnl

\* DecayRecentPnL, every 5 minutes; the float never reaches zero nor crosses it.
DecayRecentPnL ==
    /\ recentPnL' = IF recentPnL >= 0 THEN (9 * recentPnL + 9) \div 10
                                      ELSE -((9 * (-recentPnL) + 9) \div 10)
    /\ UNCHANGED <<fillCount, winCount>>

DynamicRestart == fillCount' = 0 /\ winCount' = 0 /\ recentPnL' = 0

DynamicNext ==
    \/ \E pnl \in FillPnLs : RecordFill(pnl)
    \/ DecayRecentPnL
    \/ DynamicRestart

DynamicSpec == DynamicInit /\ [][DynamicNext]_dynamicVars

-----------------------------------------------------------------------------

\* Once the cold start is over, a fill that earned never shrinks the strategy's cap
\* and one that did not never grows it.
FillsMoveCapTheirWay ==
    [][fillCount >= 5 /\ fillCount' > fillCount =>
         IF recentPnL' > recentPnL THEN AdjustedPct' >= AdjustedPct
                                   ELSE AdjustedPct' <= AdjustedPct]_dynamicVars
=============================================================================
