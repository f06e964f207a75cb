----------------------------- MODULE MCServices -----------------------------
(* Two services that ask Redis before they act, one part in every          *)
(* behaviour: "treasury", with two venues and two deposits, one of which   *)
(* may be a sweep coming back; "arb", the arbitrage service with one of    *)
(* its strategies, two symbols, the first with a longer cooldown of its    *)
(* own, and four venues, so that two pairs may trade at once.              *)
EXTENDS Treasury, ArbService, TLC

CONSTANTS okx, bybit, binance, deribit, btc, eth

MCAllocation == <<"a", "b">>
MCWeight == [v \in Venues |-> IF v = "a" THEN 70 ELSE 30]

At(status, outlier, buy, sell) == [status |-> status, outlier |-> outlier, buy |-> buy, sell |-> sell]
Fair == At("OK", FALSE, 1, -1)
Cheap == At("OK", FALSE, -12, -14)
Dear == At("OK", FALSE, 14, 12)

\* Two pairs to trade at; the cheapest venue in WARN; the dearest blacklisted.
MCUpdates ==
    {[symbol |-> btc, quality |-> "HIGH",
      book |-> (binance :> Cheap) @@ (bybit :> Dear) @@ (okx :> Cheap) @@ (deribit :> Dear)],
     [symbol |-> btc, quality |-> "MED",
      book |-> (binance :> At("WARN", FALSE, -40, -42)) @@ (bybit :> Dear) @@ (okx :> Cheap)
               @@ (deribit :> At("BLACKLISTED", FALSE, 60, 58))],
     [symbol |-> eth, quality |-> "HIGH", book |-> (binance :> Cheap) @@ (bybit :> Dear)]}

MCEnabledPairs ==
    (btc :> {{binance, bybit}, {okx, deribit}, {okx, bybit}}) @@ (eth :> {{binance, bybit}})
MCGlobalPolicy ==
    [minEdge |-> [HIGH |-> 6, MED |-> 10], latencyBuffer |-> [HIGH |-> 2, MED |-> 4],
     sizeLadder |-> {10, 5}, cooldown |-> 1]
MCSymbolOverrides ==
    (btc :> [minEdge |-> [HIGH |-> 8], cooldown |-> 2]) @@ (eth :> <<>>)
MCIntentTTL == [HIGH |-> 4, MED |-> 2]
MCGap == [basis |-> 2, cascade |-> 2, correlation |-> 2]

VARIABLE part

MCInit ==
    /\ part \in {"treasury", "arb"}
    /\ Init /\ ArbInit
    /\ Cardinality(enabled) = 1
    /\ part = "treasury" => enabled = {"basis"}

MCNext ==
    /\ UNCHANGED part
    /\ \/ part = "treasury" /\ Next /\ UNCHANGED arbVars
       \/ part = "arb" /\ ArbNext /\ UNCHANGED vars

MCSpec == MCInit /\ [][MCNext]_<<vars, arbVars, part>>
=============================================================================
