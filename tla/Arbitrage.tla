----------------------------- MODULE Arbitrage -----------------------------
(***************************************************************************)
(* The strategies of the arbitrage service (src/internal/arb/).  The       *)
(* engine makes of one consensus update at most two intents, each to buy   *)
(* at one venue and sell at another.  Basis, cascade, correlation and      *)
(* DEX-CEX trades are evaluated on timers; their trackers keep             *)
(* observations of markets, here of one symbol, Tracked, and its secondary *)
(* at one venue, TrackedVenue.  The statistics over a window are left      *)
(* open: any window long enough may have the shape that is traded.  All    *)
(* keep their intents apart with the same cooldowns.                       *)
(*                                                                         *)
(* Prices are basis points off the consensus mid, so that an edge is a     *)
(* difference of prices; time is in ticks.                                 *)
(***************************************************************************)
EXTENDS Integers, Sequences, FiniteSets

CONSTANTS
    EnabledPairs,          \* symbol -> sets of two venues
    MinConsensusQuality,
    IntentTTL,             \* quality -> ticks, 0 for a quality not traded
    AllowWarnVenues, IgnoreFlaggedVenues,
    GlobalPolicy,          \* minEdge, latencyBuffer (by quality), sizeLadder, cooldown
    SymbolOverrides,       \* symbol -> those of them it overrides
    Tracked, Secondary, TrackedVenue,
    MinObs,              \* observations a window needs, 20 in the code
    Gap,                 \* strategy -> its CooldownMs
    CascadeWindow, PriceMove, CascadePrices,  \* WindowMs, PriceMoveBps, length of priceBuf
    DexFresh,            \* ticks a CEX price is good for
    DexMinEdge, DexPrices

VARIABLES
    lastMs,         \* the cooldowns: key -> when it was last marked
    enabled,        \* the strategies of the policy
    basisObs,       \* how many quotes with mark and index, up to MinObs
    midObs,         \* the cascade detector's [mid, ts], the oldest first
    oiKnown,        \* it has an open interest
    lastEmit,       \* when it last emitted, 0 for never
    pairObs,        \* how many mids of the primary and of the secondary, up to MinObs
    cexPrice        \* [bid, ask, ts]

trackers == <<basisObs, midObs, oiKnown, lastEmit, pairObs, cexPrice>>

QualityRank == [HIGH |-> 2, MED |-> 1, LOW |-> 0]

\* An update is [symbol, ts, quality, book], and the book gives of each venue
\* [status, outlier, buy, sell], the effective prices.

-----------------------------------------------------------------------------
(* The policy.                                                             *)

Setting(field, symbol) ==
    IF field \in DOMAIN SymbolOverrides[symbol] THEN SymbolOverrides[symbol][field]
                                                ELSE GlobalPolicy[field]

\* An override may leave out a quality, and so may the policy.
PerQuality(field, quality, symbol, unset) ==
    LET own == IF field \in DOMAIN SymbolOverrides[symbol]
               THEN SymbolOverrides[symbol][field] ELSE <<>>
    IN  IF quality \in DOMAIN own THEN own[quality]
        ELSE IF quality \in DOMAIN GlobalPolicy[field] THEN GlobalPolicy[field][quality]
        ELSE unset

MinEdge(quality, symbol) == PerQuality("minEdge", quality, symbol, 9999)

LatencyBuffer(quality, symbol) == PerQuality("latencyBuffer", quality, symbol, 10)

Ttl(quality) == IF quality \in DOMAIN IntentTTL THEN IntentTTL[quality] ELSE 0

-----------------------------------------------------------------------------
(* Cooldowns.                                                              *)

IsOnCooldown(key, now, ttl) == key \in DOMAIN lastMs /\ now - lastMs[key] < ttl

\* The cooldowns once some keys have been marked.
MarkedKeys(keys, now) == [key \in keys \cup DOMAIN lastMs |-> IF key \in keys THEN now ELSE lastMs[key]]

\* Mutant: only the best intent is marked.
Marked_Best(intents, now) == MarkedKeys({intents[k].key : k \in DOMAIN intents \cap {1}}, now)

\* And once every intent of a sequence has been.
Marked(intents, now) == MarkedKeys({intents[k].key : k \in DOMAIN intents}, now)

-----------------------------------------------------------------------------
(* Process.                                                                *)

FilterVenues(update) ==
    {v \in DOMAIN update.book :
        /\ update.book[v].status # "BLACKLISTED"
        /\ AllowWarnVenues \/ update.book[v].status # "WARN"
        /\ ~(IgnoreFlaggedVenues /\ update.book[v].outlier)}

\* The latency buffer makes buying dearer and selling cheaper.
NetEdge(update, buy, sell) ==
    LET buffer == LatencyBuffer(update.quality, update.symbol)
    IN  (update.book[sell].sell - buffer) - (update.book[buy].buy + buffer)

\* A size, where to buy and where to sell.
Trades(update) ==
    {t \in Setting("sizeLadder", update.symbol) \X FilterVenues(update) \X FilterVenues(update) :
        /\ {t[2], t[3]} \in EnabledPairs[update.symbol] /\ t[2] # t[3]
        /\ ~IsOnCooldown(<<update.symbol, t[2], t[3]>>, update.ts, Setting("cooldown", update.symbol))
        /\ NetEdge(update, t[2], t[3]) >= MinEdge(update.quality, update.symbol)}

Candidates(update) ==
    {[key |-> <<update.symbol, t[2], t[3]>>, ts |-> update.ts, venues |-> {t[2], t[3]},
      profit |-> t[1] * NetEdge(update, t[2], t[3])] : t \in Trades(update)}

MostProfitable(candidates) == {c \in candidates : \A d \in candidates : d.profit <= c.profit}

\* The best intent, and the best of those that share no venue with it; the sort leaves
\* open which of equals is first.
PickBest(candidates) ==
    IF candidates = {} THEN {<<>>}
    ELSE UNION {LET others == {c \in candidates : c.venues \cap best.venues = {}}
                IN  IF others = {} THEN {<<best>>}
                    ELSE {<<best, second>> : second \in MostProfitable(others)}
                : best \in MostProfitable(candidates)}

\* What may come of an update, as sequences of intents.
Process(update) ==
    IF \/ QualityRank[update.quality] < QualityRank[MinConsensusQuality]
       \/ Ttl(update.quality) = 0
       \/ Cardinality(FilterVenues(update)) < 2
    THEN {<<>>}
    ELSE PickBest(Candidates(update))

-----------------------------------------------------------------------------
(* The trackers of the other strategies.                                   *)

NoPrice == [bid |-> 0, ask |-> 0, ts |-> 0]

TrackersInit ==
    /\ basisObs = 0 /\ midObs = <<>> /\ oiKnown = FALSE /\ lastEmit = 0
    /\ pairObs = <<0, 0>> /\ cexPrice = NoPrice

AtMost(n, bound) == IF n > bound THEN bound ELSE n

-----------------------------------------------------------------------------
(* What the trackers record.                                               *)

\* From market:quotes and market:open_interest, by goroutines of their own.
RecordBasis ==
    /\ "basis" \in enabled
    /\ basisObs' = AtMost(basisObs + 1, MinObs)
    /\ UNCHANGED <<midObs, oiKnown, lastEmit, pairObs, cexPrice>>

UpdateOI ==
    /\ "cascade" \in enabled
    /\ oiKnown' = TRUE
    /\ UNCHANGED <<basisObs, midObs, lastEmit, pairObs, cexPrice>>

\* VenueMetricsToQuote; nobody sets the time.
Quote(metrics) == [bid |-> metrics.sell, ask |-> metrics.buy, ts |-> 0]

\* From a consensus update.
RecordQuotes(update) ==
    LET here == TrackedVenue \in DOMAIN update.book
        quote == Quote(update.book[TrackedVenue])
        tracked == here /\ update.symbol = Tracked
        full == Append(midObs, [mid |-> (quote.bid + quote.ask) \div 2, ts |-> quote.ts])
    IN  /\ midObs' = IF ~(tracked /\ "cascade" \in enabled) THEN midObs
                     ELSE IF Len(full) > CascadePrices THEN Tail(full) ELSE full
        /\ pairObs' =
             [k \in {1, 2} |->
                IF here /\ "correlation" \in enabled /\ update.symbol = <<Tracked, Secondary>>[k]
                THEN AtMost(pairObs[k] + 1, MinObs) ELSE pairObs[k]]
        /\ cexPrice' = IF tracked /\ "dexcex" \in enabled THEN quote ELSE cexPrice
        /\ UNCHANGED <<basisObs, oiKnown, lastEmit>>

-----------------------------------------------------------------------------
(* What an evaluation may emit, as sequences of intents.                   *)

Intent(key, now, venues) == [key |-> key, ts |-> now, venues |-> venues, profit |-> 0]

\* One intent with the key, unless it cools down.
Spaced(key, now, ttl) ==
    IF IsOnCooldown(key, now, ttl) THEN {<<>>} ELSE {<<Intent(key, now, {TrackedVenue})>>}

EvaluateBasisTrades(now) ==
    IF basisObs < MinObs THEN {<<>>}
    ELSE {<<>>} \cup Spaced(<<"basis", Tracked, TrackedVenue>>, now, Gap["basis"])

\* priceMove looks back from the newest observation until one is older than the window
\* or has no time.
InWindow(now) ==
    {k \in DOMAIN midObs :
        \A j \in k..Len(midObs) : midObs[j].ts # 0 /\ now - midObs[j].ts <= CascadeWindow}

Distance(a, b) == IF a < b THEN b - a ELSE a - b

Moved(now) ==
    LET window == InWindow(now)
    IN  \E first, last \in window :
            /\ \A k \in window : midObs[first].ts <= midObs[k].ts /\ midObs[k].ts <= midObs[last].ts
            /\ Distance(midObs[first].mid, midObs[last].mid) >= PriceMove

EvaluateCascades(now) ==
    IF now - lastEmit < Gap["cascade"] \/ ~oiKnown \/ ~Moved(now) THEN {<<>>}
    ELSE Spaced(<<"cascade", Tracked, TrackedVenue>>, now, Gap["cascade"])

EvaluateCorrelationTrades(now) ==
    IF pairObs # <<MinObs, MinObs>> THEN {<<>>}
    ELSE {<<>>} \cup Spaced(<<"corr", TrackedVenue>>, now, Gap["correlation"])

\* The service passes no cooldown to this one.  Either side of the price may have an edge.
EvaluateDEXCEX(now) ==
    IF cexPrice = NoPrice \/ now - cexPrice.ts > DexFresh THEN {<<>>}
    ELSE {<<>>} \cup
         {(IF dex - cexPrice.ask >= DexMinEdge
           THEN <<Intent(<<"dexcex:buy", Tracked, TrackedVenue>>, now, {TrackedVenue, "dex"})>>
           ELSE <<>>) \o
          (IF cexPrice.bid - dex >= DexMinEdge
           THEN <<Intent(<<"dexcex:sell", Tracked, TrackedVenue>>, now, {TrackedVenue, "dex"})>>
           ELSE <<>>) : dex \in DexPrices}
=============================================================================
