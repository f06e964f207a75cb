----------------------------- MODULE Allocator -----------------------------
(***************************************************************************)
(* The capital allocator (src/internal/allocator/engine.go, run by         *)
(* src/cmd/capital-allocator/main.go): it cuts every trade intent to what  *)
(* the caps of its strategy, of its venues and of the capital pool leave,  *)
(* counts what it approved as deployed, and releases it when the execution *)
(* router publishes the fill.                                              *)
(*                                                                         *)
(* The engine works on floats.  Here intents are in whole dollars and the  *)
(* scale of an approval is a percentage, rounded down, so that deployed    *)
(* notional is counted exactly in hundredths of a dollar.                  *)
(***************************************************************************)
EXTENDS Integers, Sequences, FiniteSetsExt, Functions

CONSTANTS
    Strategies, Venues,
    StrategyCap,         \* PerStrategyMaxUSD, 0 for a strategy not configured
    VenueCap,            \* PerVenueMaxUSD, 0 for a venue not configured
    Intents,             \* [strategy, legs], legs a sequence of [venue, usd]
    MinQuality,          \* the rank of the consensus quality a strategy needs
    MaxSingleIntentPct,  \* share of the strategy cap one intent may take, 0 for any
    KellyPct,            \* KellyFraction in percent, 0 or 100 for none
    InitialCapitalUSD,   \* the capital pool, 0 for none
    Modes, Qualities,    \* what the bus may answer: system modes, quality ranks
    DynPcts, OiPcts,     \* what DynamicAllocator and OITracker may answer
    FillPcts,            \* how much of a leg the router fills
    PnLs,                \* profit or loss of a fill
    CloseUSD,            \* notional of a fill that closes a position
    MaxApproved, MaxClosed  \* bounds, for model checking

Leg == [venue : Venues, usd : Nat]
Intent == [strategy : Strategies, legs : Seq(Leg)]

\* Every engine of the repository emits intents of one or two legs.
ASSUME AllocatorAssumption ==
    /\ StrategyCap \in [Strategies -> Nat]
    /\ VenueCap \in [Venues -> Nat]
    /\ Intents \subseteq Intent
    /\ \A i \in Intents : Len(i.legs) \in {1, 2}
    /\ MinQuality \in [Strategies -> -1..2]
    /\ MaxSingleIntentPct \in Nat /\ KellyPct \in 0..100
    /\ InitialCapitalUSD \in Nat
    /\ DynPcts \subseteq Nat /\ OiPcts \subseteq Nat /\ FillPcts \subseteq Nat
    /\ PnLs \subseteq Int /\ CloseUSD \subseteq Nat

VARIABLES
    strategyDeployed,  \* strategy -> notional counted against its cap
    venueDeployed,     \* venue -> notional counted against its cap
    cumulativePnL,
    approved,          \* approvals so far
    inflight,          \* approved intents the router has not dealt with
    closed,            \* history variable: venue -> notional of the closing fills there
    exact              \* history variable: no restart, and no leg filled past its size

vars == <<strategyDeployed, venueDeployed, cumulativePnL, approved, inflight, closed, exact>>

Order == [id : Nat, strategy : Strategies, legs : Seq(Leg)]

TypeOK ==
    /\ strategyDeployed \in [Strategies -> Nat]
    /\ venueDeployed \in [Venues -> Nat]
    /\ cumulativePnL \in Int
    /\ approved \in Nat
    /\ inflight \subseteq Order
    /\ \A o \in inflight : Len(o.legs) \in {1, 2}
    /\ closed \in [Venues -> Nat]
    /\ exact \in BOOLEAN

-----------------------------------------------------------------------------

\* What the legs at a venue, or at any, come to.
OnVenue(legs, venue) ==
    LET at(k) == IF k \in DOMAIN legs /\ legs[k].venue = venue THEN legs[k].usd ELSE 0
    IN  at(1) + at(2)

\* totalNotional.
Notional(legs) == IF Len(legs) = 1 THEN legs[1].usd ELSE legs[1].usd + legs[2].usd

Scaled(legs, pct) == [k \in DOMAIN legs |-> [legs[k] EXCEPT !.usd = @ * pct]]

Filled(legs, pct) == [k \in DOMAIN legs |-> [legs[k] EXCEPT !.usd = (@ * pct) \div 100]]

Equity == 100 * (InitialCapitalUSD + cumulativePnL)

TotalDeployed == MapThenSumSet(LAMBDA s : strategyDeployed[s], Strategies)

\* A winning strategy is not given more than its configured cap.
CapFor(strategy, dyn) ==
    LET adjusted == (StrategyCap[strategy] * dyn) \div 100
    IN  IF adjusted > 0 /\ adjusted < StrategyCap[strategy]
        THEN adjusted ELSE StrategyCap[strategy]

\* Gates 1 to 5b.
Admissible(intent, mode, quality, cap) ==
    /\ mode = "RUNNING"
    /\ quality >= MinQuality[intent.strategy]
    /\ cap > 0
    /\ MaxSingleIntentPct > 0 => 100 * Notional(intent.legs) <= cap * MaxSingleIntentPct
    /\ strategyDeployed[intent.strategy] < 100 * cap
    /\ \A k \in DOMAIN intent.legs : LET leg == intent.legs[k] IN
          /\ VenueCap[leg.venue] > 0
          /\ venueDeployed[leg.venue] + 100 * leg.usd <= 100 * VenueCap[leg.venue]
    /\ InitialCapitalUSD > 0 => TotalDeployed < Equity

Fits_NoStrategy(intent, cap, pool, pct) ==
    InitialCapitalUSD > 0 => Notional(intent.legs) * pct <= pool

Fits(intent, cap, pool, pct) ==
    /\ strategyDeployed[intent.strategy] + Notional(intent.legs) * pct <= 100 * cap
    /\ \A k \in DOMAIN intent.legs : LET leg == intent.legs[k] IN
          venueDeployed[leg.venue] + leg.usd * pct <= 100 * VenueCap[leg.venue]
    /\ InitialCapitalUSD > 0 => Notional(intent.legs) * pct <= pool

\* The tightest of the caps: the largest scale that fits.
Scale(intent, cap) ==
    LET pool == Equity - TotalDeployed
    IN  CHOOSE pct \in 0..100 :
            /\ pct = 0 \/ Fits(intent, cap, pool, pct)
            /\ \A more \in (pct + 1)..100 : ~Fits(intent, cap, pool, more)

KellySized_Divided(pct) == IF KellyPct \in 1..99 THEN (pct * 100) \div KellyPct ELSE pct

KellySized(pct) == IF KellyPct \in 1..99 THEN (pct * KellyPct) \div 100 ELSE pct

-----------------------------------------------------------------------------

Init ==
    /\ strategyDeployed = [s \in Strategies |-> 0]
    /\ venueDeployed = [v \in Venues |-> 0]
    /\ cumulativePnL = 0
    /\ approved = 0
    /\ inflight = {}
    /\ closed = [v \in Venues |-> 0]
    /\ exact = TRUE

\* Count an approval at a scale.
Deploy_OneLeg(intent, pct) ==
    LET legs == Scaled(intent.legs, pct)
    IN  /\ strategyDeployed' = [strategyDeployed EXCEPT ![intent.strategy] = @ + legs[1].usd]
        /\ venueDeployed' = [v \in Venues |-> venueDeployed[v] + OnVenue(legs, v)]
        /\ approved' = approved + 1

Deploy(intent, pct) ==
    LET legs == Scaled(intent.legs, pct)
    IN  /\ strategyDeployed' = [strategyDeployed EXCEPT ![intent.strategy] = @ + Notional(legs)]
        /\ venueDeployed' = [v \in Venues |-> venueDeployed[v] + OnVenue(legs, v)]
        /\ approved' = approved + 1

\* Evaluate, when it approves (a rejection changes nothing but statistics), and the
\* publication of the approved intent.
Evaluate(intent, mode, quality, dyn, oi) ==
    LET cap == CapFor(intent.strategy, dyn)
        deep == (Scale(intent, cap) * oi) \div 100
        pct == KellySized(deep)
    IN  /\ approved < MaxApproved
        /\ Admissible(intent, mode, quality, cap)
        /\ deep >= 10
        /\ pct >= 5
        /\ Deploy(intent, pct)
        /\ inflight' = inflight \cup {[id |-> approved, strategy |-> intent.strategy,
                                      legs |-> Scaled(intent.legs, pct)]}
        /\ UNCHANGED <<cumulativePnL, closed, exact>>

\* ReleaseNotional for every leg of a fill; it never goes below zero.
Less(deployed, amount) == IF deployed < amount THEN 0 ELSE deployed - amount

Release(strategy, legs) ==
    /\ strategyDeployed' = [strategyDeployed EXCEPT ![strategy] = Less(@, Notional(legs))]
    /\ venueDeployed' = [v \in Venues |-> Less(venueDeployed[v], OnVenue(legs, v))]

\* The router published the fill of an order and the allocator reads it.
Fill(order, pct, pnl) ==
    LET legs == Filled(order.legs, pct)
    IN  /\ Release(order.strategy, legs)
        /\ cumulativePnL' = cumulativePnL + pnl
        /\ inflight' = inflight \ {order}
        /\ exact' = (exact /\ pct <= 100)
        /\ UNCHANGED <<approved, closed>>

\* The fill of a close intent, which the risk service sends to the router past the
\* allocator: it has one leg, no profit, and a strategy with nothing deployed.
CloseFill(venue, usd) ==
    /\ SumFunction(closed) + 100 * usd <= MaxClosed
    /\ venueDeployed' = [venueDeployed EXCEPT ![venue] = Less(@, 100 * usd)]
    /\ closed' = [closed EXCEPT ![venue] = @ + 100 * usd]
    /\ UNCHANGED <<strategyDeployed, cumulativePnL, approved, inflight, exact>>

\* An order is lost without a fill: it was not published, it expired, was rejected or
\* had no price (the router publishes no fill then), or its fill was not published.
Drop(order) ==
    /\ inflight' = inflight \ {order}
    /\ UNCHANGED <<strategyDeployed, venueDeployed, cumulativePnL, approved, closed, exact>>

\* What the allocator counts is in memory only.
Restart ==
    /\ strategyDeployed' = [s \in Strategies |-> 0]
    /\ venueDeployed' = [v \in Venues |-> 0]
    /\ cumulativePnL' = 0
    /\ exact' = FALSE
    /\ UNCHANGED <<approved, inflight, closed>>

Next ==
    \/ \E intent \in Intents, mode \in Modes, quality \in Qualities,
          dyn \in DynPcts, oi \in OiPcts : Evaluate(intent, mode, quality, dyn, oi)
    \/ \E order \in inflight, pct \in FillPcts, pnl \in PnLs : Fill(order, pct, pnl)
    \/ \E venue \in Venues, usd \in CloseUSD : CloseFill(venue, usd)
    \/ \E order \in inflight : Drop(order)
    \/ Restart

Spec == Init /\ [][Next]_vars

-----------------------------------------------------------------------------

\* No strategy has more deployed than its cap.
StrategyWithinCap ==
    \A s \in Strategies : strategyDeployed[s] <= 100 * StrategyCap[s]

\* Each leg is held against what its venue had before the intent: a venue exceeds its
\* cap only by an intent with both legs there, by no more than either of them, and no
\* second intent adds to the excess.
OneLegPastCap ==
    \A v \in Venues : venueDeployed[v] > 100 * VenueCap[v] =>
        \E intent \in Intents : /\ Len(intent.legs) = 2
                                /\ \A k \in {1, 2} :
                                      /\ intent.legs[k].venue = v
                                      /\ venueDeployed[v] <= 100 * (VenueCap[v] + intent.legs[k].usd)

\* What each order not yet executed holds of a strategy's cap, and of a venue's.
StrategyShare(s) == [o \in inflight |-> IF o.strategy = s THEN Notional(o.legs) ELSE 0]
VenueShare(v) == [o \in inflight |-> OnVenue(o.legs, v)]

\* Until a restart, or a fill of more than was asked for, what the router still has
\* to execute is counted against its strategy's cap, and against its venues' except
\* for what closed positions there, which the allocator takes for orders of its own.
CoversInflight ==
    exact =>
        /\ \A s \in Strategies : SumFunction(StrategyShare(s)) <= strategyDeployed[s]
        /\ \A v \in Venues : SumFunction(VenueShare(v)) <= venueDeployed[v] + closed[v]
=============================================================================
