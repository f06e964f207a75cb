---------------------------- MODULE MCIntents ----------------------------
(* What approves intents, one part in every behaviour: the capital         *)
(* allocator's "engine", with two strategies, an exit and two venues whose *)
(* caps bind each other, for the strategies together want more than either *)
(* venue may hold and the pool has less than both; "strategy", one that    *)
(* wins, breaks even and loses, with fills enough to pass every threshold  *)
(* of the win rate; "interest", a market of each venue that is polled;     *)
(* "loop", with batches of two, so that a batch outlives the check made    *)
(* for it.                                                                 *)
EXTENDS Allocator, DynamicAllocator, OpenInterest, AllocatorLoop, TLC

CONSTANTS arb, carry, exit, okx, bybit

MCStrategies == {arb, carry, exit}
MCVenues == {okx, bybit}
MCStrategyCap == (arb :> 20) @@ (carry :> 20) @@ (exit :> 16)
MCVenueCap == (okx :> 16) @@ (bybit :> 12)
MCMinQuality == (arb :> 1) @@ (carry :> 1) @@ (exit :> 1)

Of(strategy, legs) == [strategy |-> strategy, legs |-> legs]
On(at, usd) == [venue |-> at, usd |-> usd]

\* Legs on two venues, both legs on one venue, and one leg.
MCIntents == {Of(arb, <<On(okx, 10), On(bybit, 10)>>), Of(carry, <<On(okx, 13), On(okx, 12)>>),
              Of(exit, <<On(bybit, 6)>>)}

\* A loss.
MCPnLs == {-5}
MCFillPnLs == {-20, 0, 10}

VARIABLE part

MCInit ==
    /\ part \in {"engine", "strategy", "interest", "loop"}
    /\ Init /\ DynamicInit /\ OpenInterestInit /\ LoopInit
    /\ part # "interest" => venue = "okx" /\ depth = CHOOSE d \in Depths : TRUE
    /\ part # "loop" => ~fillsConfigured

MCNext ==
    /\ UNCHANGED part
    /\ \/ part = "engine" /\ Next /\ UNCHANGED <<dynamicVars, oiVars, loopVars>>
       \/ part = "strategy" /\ DynamicNext /\ UNCHANGED <<vars, oiVars, loopVars>>
       \/ part = "interest" /\ OpenInterestNext /\ UNCHANGED <<vars, dynamicVars, loopVars>>
       \/ part = "loop" /\ LoopNext /\ UNCHANGED <<vars, dynamicVars, oiVars>>

allVars == <<vars, dynamicVars, oiVars, loopVars, part>>

MCSpec == MCInit /\ [][MCNext]_allVars

\* With a fills stream, as configured, and while nothing restarts and Redis answers, the
\* allocator's loop and the router go on.
LoopFairSpec ==
    /\ MCInit /\ part = "loop" /\ fillsConfigured = TRUE
    /\ [][Running /\ UNCHANGED <<vars, dynamicVars, oiVars, part>>]_allVars
    /\ WF_loopVars(Loop) /\ WF_loopVars(Route)
=============================================================================
