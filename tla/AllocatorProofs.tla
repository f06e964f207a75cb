-------------------------- MODULE AllocatorProofs --------------------------
(***************************************************************************)
(* Proofs about the capital allocator: it is well typed and, unless an     *)
(* intent may be sized up past what its caps left, no strategy has more    *)
(* deployed than its cap, and no venue more than its cap and one leg.      *)
(* And about its loop: if Redis answers, the kill switch stops approvals;  *)
(* about the open interest it sizes by: only a depth that the venue lately *)
(* told of sizes an order; and about the multiplier of a strategy's cap,   *)
(* which follows its fills.                                                *)
(***************************************************************************)
EXTENDS Allocator, AllocatorLoop, OpenInterest, DynamicAllocator, Sums, TLAPS

-----------------------------------------------------------------------------
\* Arithmetic.

LEMMA DivNat == ASSUME NEW a \in Nat
                PROVE  a \div 100 \in Nat /\ 100 * (a \div 100) <= a
OBVIOUS

LEMMA TimesMono == ASSUME NEW a \in Nat, NEW b \in Nat, NEW c \in Nat, b <= c
                   PROVE  a * b <= a * c /\ b * a <= c * a
<1>1. PICK d \in Nat : c = b + d
  <2>1. c - b \in Nat /\ c = b + (c - b)
    OBVIOUS
  <2> QED BY <2>1
<1>2. a * c = a * b + a * d /\ a * d \in Nat /\ a * b \in Nat
  BY <1>1
<1>3. a * b = b * a /\ a * c = c * a
  OBVIOUS
<1> QED BY <1>2, <1>3

\* Twice a hundredth, of multipliers that together do not exceed one.
LEMMA Shrink == ASSUME NEW s \in Nat, NEW oi \in Nat, NEW k \in Nat, oi * k <= 10000
                PROVE  (((s * oi) \div 100) * k) \div 100 <= s
<1> DEFINE d == (s * oi) \div 100
           p == (d * k) \div 100
<1>1. s * oi \in Nat /\ d \in Nat /\ 100 * d <= s * oi
  BY DivNat
<1>2. d * k \in Nat /\ p \in Nat /\ 100 * p <= d * k
  BY <1>1, DivNat
<1> HIDE DEF d, p
<1>3. (100 * d) * k <= (s * oi) * k
  BY <1>1, TimesMono
<1>4. (100 * d) * k = 100 * (d * k) /\ (s * oi) * k = s * (oi * k)
  BY <1>1
<1>5. s * (oi * k) <= s * 10000
  BY TimesMono
<1>6. 10000 * p <= s * 10000
  BY <1>2, <1>3, <1>4, <1>5
<1>7. p <= s
  BY <1>2, <1>6
<1> QED BY <1>7 DEF p, d

-----------------------------------------------------------------------------
\* Legs.

LEMMA LegFacts == ASSUME NEW legs \in Seq(Leg), Len(legs) \in {1, 2}
                  PROVE  /\ \A k \in DOMAIN legs : /\ legs[k] \in Leg
                                                   /\ legs[k].usd \in Nat
                                                   /\ legs[k].venue \in Venues
                         /\ Notional(legs) \in Nat
                         /\ \A v \in Venues : OnVenue(legs, v) \in Nat
<1>1. \A k \in DOMAIN legs : legs[k] \in Leg
  OBVIOUS
<1>2. \A k \in DOMAIN legs : legs[k].usd \in Nat /\ legs[k].venue \in Venues
  BY <1>1 DEF Leg
<1>3. DOMAIN legs = 1..Len(legs)
  OBVIOUS
<1>4. Notional(legs) \in Nat
  BY <1>2, <1>3 DEF Notional
<1>5. \A v \in Venues : OnVenue(legs, v) \in Nat
  BY <1>2, <1>3 DEF OnVenue
<1> QED BY <1>1, <1>2, <1>4, <1>5

LEMMA TimesNat == ASSUME NEW a \in Nat, NEW b \in Nat PROVE a * b \in Nat
OBVIOUS

\* Legs given new amounts are legs.
LEMMA LegsSeq == ASSUME NEW legs \in Seq(Leg), NEW new, DOMAIN new = DOMAIN legs,
                        new = [k \in DOMAIN legs |-> new[k]],
                        \A k \in DOMAIN legs : new[k] \in Leg
                 PROVE  new \in Seq(Leg) /\ Len(new) = Len(legs)
<1>1. DOMAIN legs = 1..Len(legs) /\ Len(legs) \in Nat
  OBVIOUS
<1>2. new \in [1..Len(legs) -> Leg]
  BY <1>1
<1> QED BY <1>1, <1>2

LEMMA ScaledLegs == ASSUME NEW legs \in Seq(Leg), Len(legs) \in {1, 2}, NEW pct \in Nat
                    PROVE  /\ Scaled(legs, pct) \in Seq(Leg)
                           /\ Len(Scaled(legs, pct)) = Len(legs)
                           /\ Notional(Scaled(legs, pct)) = Notional(legs) * pct
                           /\ \A v \in Venues :
                                OnVenue(Scaled(legs, pct), v) = OnVenue(legs, v) * pct
<1> DEFINE new == Scaled(legs, pct)
<1>1. /\ DOMAIN new = DOMAIN legs
      /\ new = [k \in DOMAIN legs |-> new[k]]
      /\ \A k \in DOMAIN legs : /\ new[k] = [legs[k] EXCEPT !.usd = legs[k].usd * pct]
  BY DEF Scaled
<1>2. \A k \in DOMAIN legs :
         legs[k] \in Leg /\ legs[k].usd \in Nat /\ legs[k].venue \in Venues
  BY LegFacts
<1>3. \A k \in DOMAIN legs : legs[k].usd * pct \in Nat
  BY <1>2, TimesNat
<1> HIDE DEF new
<1>4. \A k \in DOMAIN legs : /\ new[k] \in Leg
                             /\ new[k].usd = legs[k].usd * pct
                             /\ new[k].venue = legs[k].venue
  BY <1>1, <1>2, <1>3 DEF Leg
<1>5. new \in Seq(Leg) /\ Len(new) = Len(legs)
  BY <1>1, <1>4, LegsSeq
<1>6. DOMAIN legs = 1..Len(legs) /\ DOMAIN new = 1..Len(legs)
  BY <1>1
<1>7. Notional(new) = Notional(legs) * pct
  BY <1>2, <1>4, <1>5, <1>6 DEF Notional
<1>8. ASSUME NEW v \in Venues PROVE OnVenue(new, v) = OnVenue(legs, v) * pct
  BY <1>2, <1>4, <1>6 DEF OnVenue
<1> QED BY <1>5, <1>7, <1>8 DEF new

LEMMA FilledLegs == ASSUME NEW legs \in Seq(Leg), Len(legs) \in {1, 2}, NEW pct \in Nat
                    PROVE  Filled(legs, pct) \in Seq(Leg) /\ Len(Filled(legs, pct)) = Len(legs)
<1> DEFINE new == Filled(legs, pct)
<1>1. /\ DOMAIN new = DOMAIN legs
      /\ new = [k \in DOMAIN legs |-> new[k]]
      /\ \A k \in DOMAIN legs : new[k] = [legs[k] EXCEPT !.usd = (legs[k].usd * pct) \div 100]
  BY DEF Filled
<1>2. \A k \in DOMAIN legs : legs[k] \in Leg /\ legs[k].usd \in Nat
  BY LegFacts
<1>3. \A k \in DOMAIN legs : (legs[k].usd * pct) \div 100 \in Nat
  BY <1>2, TimesNat, DivNat
<1> HIDE DEF new
<1>4. \A k \in DOMAIN legs : new[k] \in Leg
  BY <1>1, <1>2, <1>3 DEF Leg
<1>5. new \in Seq(Leg) /\ Len(new) = Len(legs)
  BY <1>1, <1>4, LegsSeq
<1> QED BY <1>5 DEF new

-----------------------------------------------------------------------------
\* The scale of an approval.

\* Some scale is the largest that fits.
LEMMA ScaleFits == ASSUME NEW intent, NEW cap
                   PROVE  LET pool == Equity - TotalDeployed
                              s == Scale(intent, cap)
                          IN  s \in 0..100 /\ (s = 0 \/ Fits(intent, cap, pool, s))
<1> DEFINE pool == Equity - TotalDeployed
           P(pct) == pct = 0 \/ Fits(intent, cap, pool, pct)
           T == {n \in 0..100 : P(100 - n)}
<1>1. T \in SUBSET Nat /\ T # {}
  <2>1. P(100 - 100)
    OBVIOUS
  <2> HIDE DEF P
  <2>2. 100 \in T
    BY <2>1
  <2>3. \A n \in T : n \in Nat
    OBVIOUS
  <2> QED BY <2>2, <2>3
<1>2. PICK n \in T : \A m \in T : n <= m
  BY <1>1, LeastNat
<1>3. (100 - n) \in 0..100 /\ P(100 - n)
  BY <1>2
<1>4. ASSUME NEW more \in ((100 - n) + 1)..100 PROVE ~Fits(intent, cap, pool, more)
  <2>1. n \in 0..100 /\ more \in 0..100 /\ (100 - more) \in 0..100 /\ ~(n <= 100 - more)
    BY <1>2
  <2>2. 100 - (100 - more) = more
    BY <2>1
  <2>3. ~((100 - more) \in T)
    BY <1>2, <2>1
  <2> HIDE DEF P
  <2>4. ~P(100 - (100 - more))
    BY <2>1, <2>3
  <2>5. ~P(more)
    BY <2>2, <2>4
  <2> QED BY <2>5 DEF P
<1>5. \E pct \in 0..100 : /\ pct = 0 \/ Fits(intent, cap, pool, pct)
                          /\ \A more \in (pct + 1)..100 : ~Fits(intent, cap, pool, more)
  BY <1>3, <1>4
<1> HIDE DEF T
<1> QED BY <1>5 DEF Scale

\* No multiplier of an approval sizes it up past what its caps left.
NeverUpsized ==
    \A oi \in OiPcts : oi * (IF KellyPct \in 1..99 THEN KellyPct ELSE 100) <= 10000

LEMMA Sized == ASSUME NEW intent, NEW cap, NEW oi \in OiPcts
               PROVE  LET s == Scale(intent, cap)
                          pct == KellySized((s * oi) \div 100)
                      IN  pct \in Nat /\ (NeverUpsized => pct <= s)
<1> DEFINE s == Scale(intent, cap)
           k == IF KellyPct \in 1..99 THEN KellyPct ELSE 100
<1>1. s \in Nat /\ oi \in Nat /\ KellyPct \in Nat /\ k \in Nat
  BY ScaleFits, AllocatorAssumption
<1> HIDE DEF s
<1>2. (s * oi) \div 100 \in Nat
  BY <1>1, TimesNat, DivNat
<1>3. KellySized((s * oi) \div 100) = (((s * oi) \div 100) * k) \div 100
  BY <1>1, <1>2 DEF KellySized
<1>4. (((s * oi) \div 100) * k) \div 100 \in Nat
  BY <1>1, <1>2, TimesNat, DivNat
<1>5. NeverUpsized => (((s * oi) \div 100) * k) \div 100 <= s
  <2>1. NeverUpsized => oi * k <= 10000
    BY DEF NeverUpsized
  <2> HIDE DEF k
  <2> QED BY <1>1, <2>1, Shrink
<1> HIDE DEF k
<1> QED BY <1>3, <1>4, <1>5 DEF s

LEMMA CapBound == ASSUME NEW strategy \in Strategies, NEW dyn \in DynPcts
                  PROVE  /\ CapFor(strategy, dyn) \in Nat
                         /\ CapFor(strategy, dyn) <= StrategyCap[strategy]
<1>1. StrategyCap[strategy] \in Nat /\ dyn \in Nat
  BY AllocatorAssumption
<1>2. (StrategyCap[strategy] * dyn) \div 100 \in Nat
  BY <1>1, TimesNat, DivNat
<1> QED BY <1>1, <1>2 DEF CapFor

LEMMA LessNat == ASSUME NEW a \in Nat, NEW b \in Nat
                 PROVE  Less(a, b) \in Nat /\ Less(a, b) <= a
BY DEF Less

LEMMA IntentFacts == ASSUME NEW intent \in Intents
                     PROVE  /\ intent.strategy \in Strategies
                            /\ intent.legs \in Seq(Leg) /\ Len(intent.legs) \in {1, 2}
BY AllocatorAssumption DEF Intent

-----------------------------------------------------------------------------
\* Type correctness.

\* What an approval and a fill add to and take from the deployed notional.
LEMMA Deployed == ASSUME TypeOK, NEW intent \in Intents, NEW pct \in Nat, Deploy(intent, pct)
                  PROVE  /\ strategyDeployed' \in [Strategies -> Nat]
                         /\ venueDeployed' \in [Venues -> Nat]
                         /\ \A s \in Strategies : strategyDeployed'[s] =
                               IF s = intent.strategy
                               THEN strategyDeployed[s] + Notional(intent.legs) * pct
                               ELSE strategyDeployed[s]
                         /\ \A v \in Venues : venueDeployed'[v] =
                               venueDeployed[v] + OnVenue(intent.legs, v) * pct
<1>1. intent.strategy \in Strategies /\ intent.legs \in Seq(Leg) /\ Len(intent.legs) \in {1, 2}
  BY IntentFacts
<1>2. Notional(intent.legs) \in Nat /\ \A v \in Venues : OnVenue(intent.legs, v) \in Nat
  BY <1>1, LegFacts
<1>3. /\ Notional(Scaled(intent.legs, pct)) = Notional(intent.legs) * pct
      /\ \A v \in Venues : OnVenue(Scaled(intent.legs, pct), v) = OnVenue(intent.legs, v) * pct
  BY <1>1, ScaledLegs
<1>4. /\ Notional(intent.legs) * pct \in Nat
      /\ \A v \in Venues : OnVenue(intent.legs, v) * pct \in Nat
  BY <1>2, TimesNat
<1>5. strategyDeployed \in [Strategies -> Nat] /\ venueDeployed \in [Venues -> Nat]
  BY DEF TypeOK
<1>6. /\ strategyDeployed' = [strategyDeployed EXCEPT ![intent.strategy] =
                                strategyDeployed[intent.strategy] + Notional(intent.legs) * pct]
      /\ venueDeployed' = [v \in Venues |->
                             venueDeployed[v] + OnVenue(Scaled(intent.legs, pct), v)]
  BY <1>3 DEF Deploy
<1>7. \A v \in Venues : venueDeployed'[v] = venueDeployed[v] + OnVenue(intent.legs, v) * pct
  BY <1>3, <1>6
<1>8. strategyDeployed' \in [Strategies -> Nat]
  BY <1>1, <1>4, <1>5, <1>6
<1>9. venueDeployed' \in [Venues -> Nat]
  <2>1. \A v \in Venues : venueDeployed'[v] \in Nat
    BY <1>4, <1>5, <1>7
  <2> QED BY <1>6, <2>1
<1>10. \A s \in Strategies : strategyDeployed'[s] =
          IF s = intent.strategy THEN strategyDeployed[s] + Notional(intent.legs) * pct
                                 ELSE strategyDeployed[s]
  BY <1>1, <1>5, <1>6
<1> QED BY <1>7, <1>8, <1>9, <1>10

LEMMA Released == ASSUME TypeOK, NEW order \in inflight, NEW pct \in FillPcts,
                         Release(order.strategy, Filled(order.legs, pct))
                  PROVE  /\ strategyDeployed' \in [Strategies -> Nat]
                         /\ venueDeployed' \in [Venues -> Nat]
                         /\ \A s \in Strategies : strategyDeployed'[s] <= strategyDeployed[s]
                         /\ \A v \in Venues : venueDeployed'[v] <= venueDeployed[v]
                         /\ \A v \in Venues : OnVenue(Filled(order.legs, pct), v) \in Nat
<1> DEFINE legs == Filled(order.legs, pct)
<1>1. order.strategy \in Strategies /\ order.legs \in Seq(Leg) /\ Len(order.legs) \in {1, 2}
  BY DEF TypeOK, Order
<1>2. pct \in Nat
  BY AllocatorAssumption
<1>3. legs \in Seq(Leg) /\ Len(legs) \in {1, 2}
  BY <1>1, <1>2, FilledLegs
<1> HIDE DEF legs
<1>4. Notional(legs) \in Nat /\ \A v \in Venues : OnVenue(legs, v) \in Nat
  BY <1>3, LegFacts
<1>5. strategyDeployed \in [Strategies -> Nat] /\ venueDeployed \in [Venues -> Nat]
  BY DEF TypeOK
<1>6. /\ strategyDeployed' = [strategyDeployed EXCEPT ![order.strategy] =
                                Less(strategyDeployed[order.strategy], Notional(legs))]
      /\ venueDeployed' = [v \in Venues |-> Less(venueDeployed[v], OnVenue(legs, v))]
  BY DEF Release, legs
<1>7. \A s \in Strategies : /\ Less(strategyDeployed[s], Notional(legs)) \in Nat
                            /\ Less(strategyDeployed[s], Notional(legs)) <= strategyDeployed[s]
  BY <1>4, <1>5, LessNat
<1>8. \A v \in Venues : /\ Less(venueDeployed[v], OnVenue(legs, v)) \in Nat
                        /\ Less(venueDeployed[v], OnVenue(legs, v)) <= venueDeployed[v]
  BY <1>4, <1>5, LessNat
<1>9. strategyDeployed' \in [Strategies -> Nat]
  BY <1>1, <1>5, <1>6, <1>7
<1>10. \A s \in Strategies : strategyDeployed'[s] <= strategyDeployed[s]
  BY <1>1, <1>5, <1>6, <1>7
<1>11. venueDeployed' \in [Venues -> Nat] /\ \A v \in Venues : venueDeployed'[v] <= venueDeployed[v]
  BY <1>6, <1>8
<1> QED BY <1>4, <1>9, <1>10, <1>11 DEF legs

LEMMA InitTypeOK == Init => TypeOK
BY DEF Init, TypeOK

LEMMA EvaluateTypeOK ==
  ASSUME TypeOK, NEW intent \in Intents, NEW mode \in Modes, NEW quality \in Qualities,
         NEW dyn \in DynPcts, NEW oi \in OiPcts, Evaluate(intent, mode, quality, dyn, oi)
  PROVE  TypeOK'
<1> DEFINE cap == CapFor(intent.strategy, dyn)
           pct == KellySized((Scale(intent, cap) * oi) \div 100)
           order == [id |-> approved, strategy |-> intent.strategy,
                     legs |-> Scaled(intent.legs, pct)]
<1>1. pct \in Nat
  BY Sized
<1>2. /\ Deploy(intent, pct)
      /\ inflight' = inflight \cup {order}
      /\ UNCHANGED <<cumulativePnL, closed, exact>>
  BY DEF Evaluate
<1> HIDE DEF pct
<1>3. strategyDeployed' \in [Strategies -> Nat] /\ venueDeployed' \in [Venues -> Nat]
  BY <1>1, <1>2, Deployed
<1>4. approved \in Nat /\ approved' \in Nat
  BY <1>2 DEF TypeOK, Deploy
<1>5. /\ Scaled(intent.legs, pct) \in Seq(Leg)
      /\ Len(Scaled(intent.legs, pct)) \in {1, 2}
      /\ intent.strategy \in Strategies
  BY <1>1, IntentFacts, ScaledLegs
<1>6. order \in Order /\ Len(order.legs) \in {1, 2}
  BY <1>4, <1>5 DEF Order
<1> HIDE DEF order
<1>7. inflight' \subseteq Order /\ \A o \in inflight' : Len(o.legs) \in {1, 2}
  BY <1>2, <1>6 DEF TypeOK
<1> QED BY <1>2, <1>3, <1>4, <1>7, Zenon DEF TypeOK

LEMMA FillTypeOK ==
  ASSUME TypeOK, NEW order \in inflight, NEW pct \in FillPcts, NEW pnl \in PnLs,
         Fill(order, pct, pnl)
  PROVE  TypeOK'
<1> DEFINE legs == Filled(order.legs, pct)
<1>1. /\ Release(order.strategy, legs)
      /\ cumulativePnL' = cumulativePnL + pnl
      /\ inflight' = inflight \ {order}
      /\ exact' = (exact /\ pct <= 100)
      /\ UNCHANGED <<approved, closed>>
  BY DEF Fill
<1>2. /\ strategyDeployed' \in [Strategies -> Nat] /\ venueDeployed' \in [Venues -> Nat]
      /\ \A v \in Venues : OnVenue(legs, v) \in Nat
  BY <1>1, Released
<1> HIDE DEF legs
<1>3. cumulativePnL' \in Int
  BY <1>1, AllocatorAssumption DEF TypeOK
<1>4. inflight' \subseteq Order /\ \A o \in inflight' : Len(o.legs) \in {1, 2}
  BY <1>1 DEF TypeOK
<1>5. exact' \in BOOLEAN
  BY <1>1
<1>6. approved' \in Nat /\ closed' \in [Venues -> Nat]
  BY <1>1 DEF TypeOK
<1> QED BY <1>2, <1>3, <1>4, <1>5, <1>6, Zenon DEF TypeOK

\* What a close intent's fill releases.
LEMMA CloseReleased ==
  ASSUME TypeOK, NEW at \in Venues, NEW usd \in CloseUSD, CloseFill(at, usd)
  PROVE  /\ venueDeployed' \in [Venues -> Nat] /\ closed' \in [Venues -> Nat]
         /\ \A v \in Venues : /\ venueDeployed'[v] <= venueDeployed[v]
                              /\ closed[v] <= closed'[v]
                              /\ venueDeployed[v] + closed[v] <= venueDeployed'[v] + closed'[v]
<1>1. venueDeployed \in [Venues -> Nat] /\ closed \in [Venues -> Nat] /\ usd \in Nat
  BY AllocatorAssumption DEF TypeOK
<1>2. /\ venueDeployed' = [venueDeployed EXCEPT ![at] = Less(venueDeployed[at], 100 * usd)]
      /\ closed' = [closed EXCEPT ![at] = closed[at] + 100 * usd]
  BY DEF CloseFill
<1>3. /\ 100 * usd \in Nat /\ venueDeployed[at] \in Nat /\ closed[at] \in Nat
      /\ Less(venueDeployed[at], 100 * usd) \in Nat
      /\ Less(venueDeployed[at], 100 * usd) <= venueDeployed[at]
      /\ venueDeployed[at] <= Less(venueDeployed[at], 100 * usd) + 100 * usd
  BY <1>1 DEF Less
<1>4. venueDeployed' \in [Venues -> Nat] /\ closed' \in [Venues -> Nat]
  BY <1>1, <1>2, <1>3
<1>5. ASSUME NEW v \in Venues
      PROVE  /\ venueDeployed'[v] <= venueDeployed[v]
             /\ closed[v] <= closed'[v]
             /\ venueDeployed[v] + closed[v] <= venueDeployed'[v] + closed'[v]
  <2>1. CASE v = at
    <3>1. venueDeployed'[v] = Less(venueDeployed[v], 100 * usd) /\ closed'[v] = closed[v] + 100 * usd
      BY <1>1, <1>2, <2>1
    <3> HIDE DEF Less
    <3> QED BY <1>3, <2>1, <3>1
  <2>2. CASE v # at
    <3>1. venueDeployed'[v] = venueDeployed[v] /\ closed'[v] = closed[v]
      BY <1>1, <1>2, <2>2
    <3> QED BY <1>1, <3>1
  <2> QED BY <2>1, <2>2
<1> QED BY <1>4, <1>5

LEMMA NextTypeOK == TypeOK /\ [Next]_vars => TypeOK'
<1> SUFFICES ASSUME TypeOK, [Next]_vars PROVE TypeOK'
  OBVIOUS
<1>1. CASE \E intent \in Intents, mode \in Modes, quality \in Qualities, dyn \in DynPcts,
              oi \in OiPcts : Evaluate(intent, mode, quality, dyn, oi)
  BY <1>1, EvaluateTypeOK
<1>2. CASE \E order \in inflight, pct \in FillPcts, pnl \in PnLs : Fill(order, pct, pnl)
  BY <1>2, FillTypeOK
<1>3. CASE \E order \in inflight : Drop(order)
  <2>1. PICK order \in inflight : Drop(order)
    BY <1>3
  <2>2. /\ inflight' \subseteq inflight
        /\ UNCHANGED <<strategyDeployed, venueDeployed, cumulativePnL, approved, closed, exact>>
    BY <2>1 DEF Drop
  <2> QED BY <2>2 DEF TypeOK
<1>4. CASE Restart
  <2>1. /\ approved' \in Nat
        /\ inflight' \subseteq Order /\ \A o \in inflight' : Len(o.legs) \in {1, 2}
        /\ closed' \in [Venues -> Nat]
    BY <1>4 DEF Restart, TypeOK
  <2>2. /\ strategyDeployed' \in [Strategies -> Nat] /\ venueDeployed' \in [Venues -> Nat]
        /\ cumulativePnL' \in Int
    BY <1>4 DEF Restart
  <2>3. exact' \in BOOLEAN
    BY <1>4, Zenon DEF Restart
  <2> QED BY <2>1, <2>2, <2>3, Zenon DEF TypeOK
<1>5. CASE UNCHANGED vars
  BY <1>5 DEF vars, TypeOK
<1>6. CASE \E at \in Venues, usd \in CloseUSD : CloseFill(at, usd)
  <2>1. PICK at \in Venues, usd \in CloseUSD : CloseFill(at, usd)
    BY <1>6
  <2>2. venueDeployed' \in [Venues -> Nat] /\ closed' \in [Venues -> Nat]
    BY <2>1, CloseReleased
  <2>3. UNCHANGED <<strategyDeployed, cumulativePnL, approved, inflight, exact>>
    BY <2>1 DEF CloseFill
  <2> QED BY <2>2, <2>3 DEF TypeOK
<1> QED BY <1>1, <1>2, <1>3, <1>4, <1>5, <1>6 DEF Next

\* What the allocator counts is never negative, and what it approves has the legs of an
\* intent: every reachable state is well typed.
THEOREM TypeCorrect == Spec => []TypeOK
<1>1. Init => TypeOK
  BY InitTypeOK
<1>2. TypeOK /\ [Next]_vars => TypeOK'
  BY NextTypeOK
<1> QED BY <1>1, <1>2, PTL DEF Spec

-----------------------------------------------------------------------------
\* The caps.

\* What an approval must fit, when nothing sizes it up afterwards.
LEMMA ApprovedFits ==
  ASSUME TypeOK, NeverUpsized, NEW intent \in Intents, NEW mode \in Modes,
         NEW quality \in Qualities, NEW dyn \in DynPcts, NEW oi \in OiPcts,
         Evaluate(intent, mode, quality, dyn, oi)
  PROVE  \E pct \in Nat :
           /\ Deploy(intent, pct) /\ pct <= 100
           /\ strategyDeployed[intent.strategy] + Notional(intent.legs) * pct
                <= 100 * StrategyCap[intent.strategy]
           /\ \A k \in DOMAIN intent.legs :
                venueDeployed[intent.legs[k].venue] + intent.legs[k].usd * pct
                  <= 100 * VenueCap[intent.legs[k].venue]
<1> DEFINE cap == CapFor(intent.strategy, dyn)
           s == Scale(intent, cap)
           pct == KellySized((s * oi) \div 100)
           pool == Equity - TotalDeployed
<1>1. pct \in Nat /\ pct <= s
  BY Sized
<1>2. s \in 0..100 /\ (s = 0 \/ Fits(intent, cap, pool, s))
  BY ScaleFits
<1>3. Deploy(intent, pct) /\ pct >= 5
  BY DEF Evaluate
<1> HIDE DEF pct, s
<1>4. Fits(intent, cap, pool, s)
  BY <1>1, <1>2, <1>3
<1>5. /\ intent.strategy \in Strategies
      /\ intent.legs \in Seq(Leg) /\ Len(intent.legs) \in {1, 2}
  BY IntentFacts
<1>6. /\ Notional(intent.legs) \in Nat
      /\ \A k \in DOMAIN intent.legs : intent.legs[k].usd \in Nat /\ intent.legs[k].venue \in Venues
  BY <1>5, LegFacts
<1>7. cap \in Nat /\ StrategyCap[intent.strategy] \in Nat /\ cap <= StrategyCap[intent.strategy]
  BY <1>5, CapBound, AllocatorAssumption
<1>8. strategyDeployed[intent.strategy] \in Nat /\ \A v \in Venues : venueDeployed[v] \in Nat
  BY <1>5 DEF TypeOK
<1> HIDE DEF cap, pool
<1>9. /\ strategyDeployed[intent.strategy] + Notional(intent.legs) * s <= 100 * cap
      /\ \A k \in DOMAIN intent.legs :
           venueDeployed[intent.legs[k].venue] + intent.legs[k].usd * s
             <= 100 * VenueCap[intent.legs[k].venue]
  BY <1>4 DEF Fits
<1>10. s \in Nat
  BY <1>2
<1>11. /\ Notional(intent.legs) * pct <= Notional(intent.legs) * s
       /\ Notional(intent.legs) * pct \in Nat /\ Notional(intent.legs) * s \in Nat
  BY <1>1, <1>6, <1>10, TimesMono, TimesNat
<1>12. strategyDeployed[intent.strategy] + Notional(intent.legs) * pct
         <= 100 * StrategyCap[intent.strategy]
  BY <1>7, <1>8, <1>9, <1>11
<1>13. ASSUME NEW k \in DOMAIN intent.legs
       PROVE  venueDeployed[intent.legs[k].venue] + intent.legs[k].usd * pct
                <= 100 * VenueCap[intent.legs[k].venue]
  <2>1. /\ intent.legs[k].usd \in Nat
        /\ venueDeployed[intent.legs[k].venue] \in Nat /\ VenueCap[intent.legs[k].venue] \in Nat
    BY <1>6, <1>8, AllocatorAssumption
  <2>2. /\ intent.legs[k].usd * pct <= intent.legs[k].usd * s
        /\ intent.legs[k].usd * pct \in Nat /\ intent.legs[k].usd * s \in Nat
    BY <1>1, <1>10, <2>1, TimesMono, TimesNat
  <2> QED BY <1>9, <2>1, <2>2
<1>14. pct <= 100
  BY <1>1, <1>2
<1> QED BY <1>1, <1>3, <1>12, <1>13, <1>14

LEMMA StepStrategyCap ==
  ASSUME NeverUpsized, TypeOK, StrategyWithinCap, [Next]_vars
  PROVE  StrategyWithinCap'
<1>1. /\ strategyDeployed \in [Strategies -> Nat]
      /\ \A s \in Strategies : StrategyCap[s] \in Nat /\ strategyDeployed[s] <= 100 * StrategyCap[s]
  BY AllocatorAssumption DEF TypeOK, StrategyWithinCap
<1>2. CASE \E intent \in Intents, mode \in Modes, quality \in Qualities, dyn \in DynPcts,
              oi \in OiPcts : Evaluate(intent, mode, quality, dyn, oi)
  <2>1. PICK intent \in Intents, mode \in Modes, quality \in Qualities, dyn \in DynPcts,
             oi \in OiPcts : Evaluate(intent, mode, quality, dyn, oi)
    BY <1>2
  <2>2. PICK pct \in Nat :
           /\ Deploy(intent, pct)
           /\ strategyDeployed[intent.strategy] + Notional(intent.legs) * pct
                <= 100 * StrategyCap[intent.strategy]
    BY <2>1, ApprovedFits
  <2>3. \A s \in Strategies : strategyDeployed'[s] =
           IF s = intent.strategy THEN strategyDeployed[s] + Notional(intent.legs) * pct
                                  ELSE strategyDeployed[s]
    BY <2>2, Deployed
  <2> QED BY <1>1, <2>2, <2>3 DEF StrategyWithinCap
<1>3. CASE \E order \in inflight, pct \in FillPcts, pnl \in PnLs : Fill(order, pct, pnl)
  <2>1. PICK order \in inflight, pct \in FillPcts, pnl \in PnLs : Fill(order, pct, pnl)
    BY <1>3
  <2>2. Release(order.strategy, Filled(order.legs, pct))
    BY <2>1 DEF Fill
  <2>3. /\ strategyDeployed' \in [Strategies -> Nat]
        /\ \A s \in Strategies : strategyDeployed'[s] <= strategyDeployed[s]
    BY <2>2, Released
  <2>4. ASSUME NEW s \in Strategies PROVE strategyDeployed'[s] <= 100 * StrategyCap[s]
    <3>1. strategyDeployed'[s] \in Nat /\ strategyDeployed'[s] <= strategyDeployed[s]
      BY <2>3
    <3> QED BY <1>1, <3>1
  <2> QED BY <2>4 DEF StrategyWithinCap
<1>4. CASE \/ \E order \in inflight : Drop(order)
           \/ \E at \in Venues, usd \in CloseUSD : CloseFill(at, usd)
           \/ UNCHANGED vars
  <2>1. UNCHANGED strategyDeployed
    BY <1>4 DEF Drop, CloseFill, vars
  <2> QED BY <1>1, <2>1 DEF StrategyWithinCap
<1>5. CASE Restart
  <2>1. \A s \in Strategies : strategyDeployed'[s] = 0
    BY <1>5 DEF Restart
  <2> QED BY <1>1, <2>1 DEF StrategyWithinCap
<1> QED BY <1>2, <1>3, <1>4, <1>5 DEF Next

\* Unless the open-interest multiplier may size an approval up past what the caps left,
\* no strategy has more deployed than its cap, over restarts and fills of any size.
THEOREM StrategyCapHolds == NeverUpsized /\ Spec => []StrategyWithinCap
<1>1. Init => StrategyWithinCap
  BY AllocatorAssumption DEF Init, StrategyWithinCap
<1>2. NeverUpsized /\ TypeOK /\ StrategyWithinCap /\ [Next]_vars => StrategyWithinCap'
  BY StepStrategyCap
<1>3. NeverUpsized => [](NeverUpsized)
  <2>1. NeverUpsized => NeverUpsized'
    BY DEF NeverUpsized
  <2> QED BY <2>1, PTL
<1> QED BY <1>1, <1>2, <1>3, TypeCorrect, PTL DEF Spec

\* What an intent brings to a venue is nothing, one leg of it, or both.
LEMMA AtVenue ==
  ASSUME NEW intent \in Intents, NEW v \in Venues
  PROVE  LET legs == intent.legs
         IN  \/ OnVenue(legs, v) = 0
             \/ \E k \in DOMAIN legs : legs[k].venue = v /\ OnVenue(legs, v) = legs[k].usd
             \/ /\ Len(legs) = 2 /\ DOMAIN legs = {1, 2}
                /\ \A k \in {1, 2} : legs[k].venue = v /\ legs[k].usd \in Nat
                /\ OnVenue(legs, v) = legs[1].usd + legs[2].usd
<1> DEFINE legs == intent.legs
<1>1. legs \in Seq(Leg) /\ Len(legs) \in {1, 2}
  BY IntentFacts
<1>2. \A k \in DOMAIN legs : legs[k].usd \in Nat
  BY <1>1, LegFacts
<1>3. DOMAIN legs = 1..Len(legs)
  BY <1>1
<1> HIDE DEF legs
<1>4. CASE Len(legs) = 1
  <2>1. DOMAIN legs = {1}
    BY <1>3, <1>4
  <2> QED BY <1>2, <2>1 DEF OnVenue, legs
<1>5. CASE Len(legs) = 2
  <2>1. DOMAIN legs = {1, 2}
    BY <1>3, <1>5
  <2>2. CASE legs[1].venue = v /\ legs[2].venue = v
    BY <1>2, <1>5, <2>1, <2>2 DEF OnVenue, legs
  <2>3. CASE legs[1].venue = v /\ legs[2].venue # v
    BY <1>2, <2>1, <2>3 DEF OnVenue, legs
  <2>4. CASE legs[1].venue # v /\ legs[2].venue = v
    BY <1>2, <2>1, <2>4 DEF OnVenue, legs
  <2>5. CASE legs[1].venue # v /\ legs[2].venue # v
    BY <2>5 DEF OnVenue, legs
  <2> QED BY <2>2, <2>3, <2>4, <2>5
<1> QED BY <1>1, <1>4, <1>5

\* An approval at a scale of at most one takes a venue past its cap only as the invariant
\* allows: the first leg still fits, the second is the excess.
LEMMA ApprovalPastCap ==
  ASSUME TypeOK, NeverUpsized, OneLegPastCap, NEW intent \in Intents, NEW mode \in Modes,
         NEW quality \in Qualities, NEW dyn \in DynPcts, NEW oi \in OiPcts,
         Evaluate(intent, mode, quality, dyn, oi)
  PROVE  OneLegPastCap'
<1> DEFINE legs == intent.legs
           Past(i, room, v) == /\ Len(i.legs) = 2
                               /\ \A k \in {1, 2} :
                                     /\ i.legs[k].venue = v
                                     /\ room <= 100 * (VenueCap[v] + i.legs[k].usd)
<1>1. PICK pct \in Nat :
         /\ Deploy(intent, pct) /\ pct <= 100
         /\ \A k \in DOMAIN legs :
              venueDeployed[legs[k].venue] + legs[k].usd * pct <= 100 * VenueCap[legs[k].venue]
  BY ApprovedFits
<1>2. \A v \in Venues : venueDeployed'[v] = venueDeployed[v] + OnVenue(legs, v) * pct
  BY <1>1, Deployed
<1>3. \A v \in Venues : venueDeployed[v] \in Nat /\ VenueCap[v] \in Nat
  BY AllocatorAssumption DEF TypeOK
<1>4. ASSUME NEW v \in Venues, venueDeployed'[v] > 100 * VenueCap[v]
      PROVE  \E i \in Intents : Past(i, venueDeployed'[v], v)
  <2>1. CASE OnVenue(legs, v) = 0
    <3>1. venueDeployed'[v] = venueDeployed[v]
      BY <1>2, <1>3, <2>1
    <3>2. PICK i \in Intents : Past(i, venueDeployed[v], v)
      BY <1>4, <3>1 DEF OneLegPastCap
    <3> QED BY <3>1, <3>2
  <2>2. CASE \E k \in DOMAIN legs : legs[k].venue = v /\ OnVenue(legs, v) = legs[k].usd
    <3>1. PICK k \in DOMAIN legs : legs[k].venue = v /\ OnVenue(legs, v) = legs[k].usd
      BY <2>2
    <3>2. venueDeployed[v] + legs[k].usd * pct <= 100 * VenueCap[v]
      BY <1>1, <3>1
    <3>3. venueDeployed'[v] = venueDeployed[v] + legs[k].usd * pct
      BY <1>2, <3>1
    <3>4. venueDeployed'[v] <= 100 * VenueCap[v]
      BY <3>2, <3>3
    <3>5. venueDeployed'[v] \in Nat
      BY <1>1, Deployed
    <3> QED BY <1>3, <1>4, <3>4, <3>5
  <2>3. CASE /\ Len(legs) = 2 /\ DOMAIN legs = {1, 2}
             /\ \A k \in {1, 2} : legs[k].venue = v /\ legs[k].usd \in Nat
             /\ OnVenue(legs, v) = legs[1].usd + legs[2].usd
    <3> DEFINE a == legs[1].usd
               b == legs[2].usd
               cap == VenueCap[v]
               had == venueDeployed[v]
    <3>1. a \in Nat /\ b \in Nat /\ cap \in Nat /\ had \in Nat
      BY <1>3, <2>3
    <3>2. had + a * pct <= 100 * cap /\ had + b * pct <= 100 * cap
      BY <1>1, <2>3
    <3>3. venueDeployed'[v] = had + (a + b) * pct
      BY <1>2, <2>3
    <3>4. Len(legs) = 2 /\ legs[1].venue = v /\ legs[2].venue = v
      BY <2>3
    <3> HIDE DEF a, b, cap, had
    <3>5. (a + b) * pct = a * pct + b * pct /\ a * pct \in Nat /\ b * pct \in Nat
      BY <3>1, TimesNat
    <3>6. a * pct <= a * 100 /\ b * pct <= b * 100
      BY <1>1, <3>1, TimesMono
    <3>7. /\ had + (a + b) * pct <= 100 * (cap + a)
          /\ had + (a + b) * pct <= 100 * (cap + b)
      BY <3>1, <3>2, <3>5, <3>6
    <3>8. Past(intent, venueDeployed'[v], v)
      BY <3>3, <3>4, <3>7 DEF a, b, cap
    <3> QED BY <3>8
  <2> HIDE DEF Past
  <2> QED BY <2>1, <2>2, <2>3, AtVenue
<1> QED BY <1>4 DEF OneLegPastCap

\* What only gives back leaves the invariant alone.
LEMMA LessPastCap ==
  ASSUME OneLegPastCap, TypeOK, NEW room \in [Venues -> Nat], venueDeployed' = room,
         \A v \in Venues : room[v] <= venueDeployed[v]
  PROVE  OneLegPastCap'
<1>1. \A v \in Venues : venueDeployed[v] \in Nat /\ VenueCap[v] \in Nat
  BY AllocatorAssumption DEF TypeOK
<1>2. ASSUME NEW v \in Venues, room[v] > 100 * VenueCap[v]
      PROVE  \E i \in Intents : /\ Len(i.legs) = 2
                                 /\ \A k \in {1, 2} : /\ i.legs[k].venue = v
                                                      /\ room[v] <= 100 * (VenueCap[v] + i.legs[k].usd)
  <2>1. venueDeployed[v] > 100 * VenueCap[v] /\ room[v] \in Nat
    BY <1>1, <1>2
  <2>2. PICK i \in Intents : /\ Len(i.legs) = 2
                              /\ \A k \in {1, 2} :
                                    /\ i.legs[k].venue = v
                                    /\ venueDeployed[v] <= 100 * (VenueCap[v] + i.legs[k].usd)
    BY <2>1 DEF OneLegPastCap
  <2>3. i.legs[1].usd \in Nat /\ i.legs[2].usd \in Nat
    <3>1. i.legs \in Seq(Leg) /\ 1 \in DOMAIN i.legs /\ 2 \in DOMAIN i.legs
      BY <2>2, IntentFacts
    <3> QED BY <3>1, <2>2, LegFacts
  <2>4. \A k \in {1, 2} : room[v] <= 100 * (VenueCap[v] + i.legs[k].usd)
    BY <1>1, <2>1, <2>2, <2>3
  <2> QED BY <2>2, <2>4
<1> QED BY <1>2 DEF OneLegPastCap

LEMMA StepVenueCap ==
  ASSUME NeverUpsized, TypeOK, OneLegPastCap, [Next]_vars
  PROVE  OneLegPastCap'
<1>1. venueDeployed \in [Venues -> Nat] /\ \A v \in Venues : VenueCap[v] \in Nat
  BY AllocatorAssumption DEF TypeOK
<1>2. CASE \E intent \in Intents, mode \in Modes, quality \in Qualities, dyn \in DynPcts,
              oi \in OiPcts : Evaluate(intent, mode, quality, dyn, oi)
  BY <1>2, ApprovalPastCap
<1>3. CASE \E order \in inflight, pct \in FillPcts, pnl \in PnLs : Fill(order, pct, pnl)
  <2>1. PICK order \in inflight, pct \in FillPcts, pnl \in PnLs : Fill(order, pct, pnl)
    BY <1>3
  <2>2. Release(order.strategy, Filled(order.legs, pct))
    BY <2>1 DEF Fill
  <2>3. /\ venueDeployed' \in [Venues -> Nat]
        /\ \A v \in Venues : venueDeployed'[v] <= venueDeployed[v]
    BY <2>2, Released
  <2> QED BY <2>3, LessPastCap
<1>4. CASE \E at \in Venues, usd \in CloseUSD : CloseFill(at, usd)
  <2>1. /\ venueDeployed' \in [Venues -> Nat]
        /\ \A v \in Venues : venueDeployed'[v] <= venueDeployed[v]
    BY <1>4, CloseReleased
  <2> QED BY <2>1, LessPastCap
<1>5. CASE (\E order \in inflight : Drop(order)) \/ UNCHANGED vars
  <2>1. UNCHANGED venueDeployed
    BY <1>5 DEF Drop, vars
  <2> QED BY <2>1 DEF OneLegPastCap
<1>6. CASE Restart
  <2>1. \A v \in Venues : venueDeployed'[v] = 0
    BY <1>6 DEF Restart
  <2> QED BY <1>1, <2>1 DEF OneLegPastCap
<1> QED BY <1>2, <1>3, <1>4, <1>5, <1>6 DEF Next

\* Unless a multiplier may size an approval up, a venue exceeds its cap only by an intent with
\* both legs there, and by no more than either leg, for every set of caps and intents.
THEOREM VenueCapHolds == NeverUpsized /\ Spec => []OneLegPastCap
<1>1. Init => OneLegPastCap
  BY AllocatorAssumption DEF Init, OneLegPastCap
<1>2. NeverUpsized /\ TypeOK /\ OneLegPastCap /\ [Next]_vars => OneLegPastCap'
  BY StepVenueCap
<1>3. NeverUpsized => [](NeverUpsized)
  <2>1. NeverUpsized => NeverUpsized'
    BY DEF NeverUpsized
  <2> QED BY <2>1, PTL
<1> QED BY <1>1, <1>2, <1>3, TypeCorrect, PTL DEF Spec

-----------------------------------------------------------------------------
(* What is being executed stays counted. *)

\* Orders have names of their own, the number of approvals before them.
CoverInv ==
    /\ TypeOK
    /\ IsFiniteSet(inflight)
    /\ \A o \in inflight : o.id < approved
    /\ CoversInflight

\* Shares of a set of orders, with one more order and without one.
LEMMA SharesGrow ==
  ASSUME NEW f, NEW h, NEW S, IsFiniteSet(S), NEW a, a \notin S, NEW held \in Nat, NEW deployed \in Nat,
         DOMAIN f = S, DOMAIN h = S \cup {a},
         \A o \in S : f[o] \in Nat /\ h[o] = f[o], h[a] = held,
         SumFunction(f) <= deployed
  PROVE  SumFunction(h) <= deployed + held
<1>1. SumFunction(f) = SumFunctionOnSet(f, S) /\ SumFunction(h) = SumFunctionOnSet(h, S \cup {a})
  BY DEF SumFunction
<1>2. SumFunctionOnSet(h, S \cup {a}) = SumFunctionOnSet(f, S) + h[a]
  BY SumExtend
<1>3. SumFunctionOnSet(f, S) \in Nat
  BY SumNat
<1> QED BY <1>1, <1>2, <1>3

LEMMA SharesShrink ==
  ASSUME NEW f, NEW h, NEW S, IsFiniteSet(S), NEW a \in S, NEW deployed \in Nat, NEW left \in Nat,
         DOMAIN f = S, DOMAIN h = S \ {a},
         \A o \in S : f[o] \in Nat, \A o \in S \ {a} : h[o] = f[o],
         SumFunction(f) <= deployed, deployed <= left + f[a]
  PROVE  SumFunction(h) <= left
<1>1. SumFunction(f) = SumFunctionOnSet(f, S) /\ SumFunction(h) = SumFunctionOnSet(h, S \ {a})
  BY DEF SumFunction
<1>2. SumFunctionOnSet(f, S) = f[a] + SumFunctionOnSet(h, S \ {a})
  BY SumShrink
<1>3. IsFiniteSet(S \ {a}) /\ \A o \in S \ {a} : h[o] \in Nat
  BY FS_RemoveElement
<1>4. SumFunctionOnSet(h, S \ {a}) \in Nat
  BY <1>3, SumNat
<1>5. f[a] \in Nat
  OBVIOUS
<1> QED BY <1>1, <1>2, <1>4, <1>5

\* A fill of no more than was asked for releases no more than the order holds.
LEMMA FilledLess ==
  ASSUME NEW legs \in Seq(Leg), Len(legs) \in {1, 2}, NEW pct \in Nat, pct <= 100
  PROVE  /\ Notional(Filled(legs, pct)) \in Nat /\ Notional(Filled(legs, pct)) <= Notional(legs)
         /\ \A v \in Venues : /\ OnVenue(Filled(legs, pct), v) \in Nat
                              /\ OnVenue(Filled(legs, pct), v) <= OnVenue(legs, v)
<1> DEFINE new == Filled(legs, pct)
<1>1. new \in Seq(Leg) /\ Len(new) = Len(legs)
  BY FilledLegs
<1>2. /\ DOMAIN new = DOMAIN legs
      /\ \A k \in DOMAIN legs : new[k] = [legs[k] EXCEPT !.usd = (legs[k].usd * pct) \div 100]
  BY DEF Filled
<1>3. \A k \in DOMAIN legs : legs[k] \in Leg /\ legs[k].usd \in Nat /\ legs[k].venue \in Venues
  BY LegFacts
<1>4. ASSUME NEW usd \in Nat PROVE (usd * pct) \div 100 \in Nat /\ (usd * pct) \div 100 <= usd
  <2>1. usd * pct \in Nat /\ usd * pct <= usd * 100
    BY TimesNat, TimesMono
  <2> DEFINE part == usd * pct
  <2>2. part \in Nat /\ part <= usd * 100
    BY <2>1
  <2> HIDE DEF part
  <2>3. part \div 100 \in Nat /\ 100 * (part \div 100) <= part
    BY <2>2, DivNat
  <2>4. part \div 100 <= usd
    BY <2>2, <2>3
  <2> QED BY <2>3, <2>4 DEF part
<1> HIDE DEF new
<1>5. \A k \in DOMAIN legs : /\ new[k].usd \in Nat /\ new[k].usd <= legs[k].usd
                             /\ new[k].venue = legs[k].venue
  <2>1. SUFFICES ASSUME NEW k \in DOMAIN legs
                 PROVE  new[k].usd \in Nat /\ new[k].usd <= legs[k].usd /\ new[k].venue = legs[k].venue
    OBVIOUS
  <2>2. new[k].usd = (legs[k].usd * pct) \div 100 /\ new[k].venue = legs[k].venue
    BY <1>2, <1>3 DEF Leg
  <2> QED BY <1>3, <1>4, <2>2
<1>6. DOMAIN legs = 1..Len(legs)
  OBVIOUS
<1>7. Notional(new) \in Nat /\ Notional(new) <= Notional(legs)
  BY <1>1, <1>3, <1>5, <1>6 DEF Notional
<1>8. ASSUME NEW v \in Venues PROVE OnVenue(new, v) \in Nat /\ OnVenue(new, v) <= OnVenue(legs, v)
  <2> DEFINE was(k) == IF k \in DOMAIN legs /\ legs[k].venue = v THEN legs[k].usd ELSE 0
             is(k) == IF k \in DOMAIN new /\ new[k].venue = v THEN new[k].usd ELSE 0
  <2>1. was(1) \in Nat /\ is(1) \in Nat /\ is(1) <= was(1)
    BY <1>2, <1>3, <1>5
  <2>2. was(2) \in Nat /\ is(2) \in Nat /\ is(2) <= was(2)
    BY <1>2, <1>3, <1>5
  <2>3. OnVenue(legs, v) = was(1) + was(2) /\ OnVenue(new, v) = is(1) + is(2)
    BY DEF OnVenue
  <2> HIDE DEF was, is
  <2> QED BY <2>1, <2>2, <2>3
<1> QED BY <1>7, <1>8 DEF new

LEMMA EvaluateCovers ==
  ASSUME CoverInv, NEW intent \in Intents, NEW mode \in Modes, NEW quality \in Qualities,
         NEW dyn \in DynPcts, NEW oi \in OiPcts, Evaluate(intent, mode, quality, dyn, oi)
  PROVE  IsFiniteSet(inflight') /\ (\A o \in inflight' : o.id < approved') /\ CoversInflight'
<1> DEFINE cap == CapFor(intent.strategy, dyn)
           pct == KellySized((Scale(intent, cap) * oi) \div 100)
           legs == Scaled(intent.legs, pct)
           new == [id |-> approved, strategy |-> intent.strategy, legs |-> legs]
<1>1. pct \in Nat
  BY Sized
<1>2. Deploy(intent, pct) /\ inflight' = inflight \cup {new} /\ UNCHANGED <<closed, exact>>
  BY DEF Evaluate
<1> HIDE DEF pct
<1>3. /\ strategyDeployed \in [Strategies -> Nat] /\ venueDeployed \in [Venues -> Nat]
      /\ closed \in [Venues -> Nat]
      /\ approved \in Nat /\ inflight \subseteq Order /\ \A o \in inflight : Len(o.legs) \in {1, 2}
      /\ IsFiniteSet(inflight) /\ \A o \in inflight : o.id < approved
  BY DEF CoverInv, TypeOK
<1>4. approved' = approved + 1
  BY <1>2 DEF Deploy
<1>5. new \notin inflight
  <2>1. new.id = approved
    OBVIOUS
  <2> HIDE DEF new
  <2> QED BY <1>3, <2>1
<1>6. IsFiniteSet(inflight')
  BY <1>2, <1>3, FS_AddElement
<1>7. \A o \in inflight' : o.id < approved'
  <2>1. \A o \in inflight : o.id \in Nat
    BY <1>3 DEF Order
  <2> QED BY <1>2, <1>3, <1>4, <2>1
<1>8. /\ intent.strategy \in Strategies
      /\ intent.legs \in Seq(Leg) /\ Len(intent.legs) \in {1, 2}
  BY IntentFacts
<1>9. legs \in Seq(Leg) /\ Len(legs) \in {1, 2}
  BY <1>1, <1>8, ScaledLegs
<1> HIDE DEF legs
<1>10. Notional(legs) \in Nat /\ \A v \in Venues : OnVenue(legs, v) \in Nat
  BY <1>9, LegFacts
<1>11. /\ strategyDeployed' = [strategyDeployed EXCEPT ![intent.strategy] =
                                 strategyDeployed[intent.strategy] + Notional(legs)]
       /\ venueDeployed' = [v \in Venues |-> venueDeployed[v] + OnVenue(legs, v)]
  BY <1>2 DEF Deploy, legs
<1>12. ASSUME exact', NEW s \in Strategies PROVE SumFunction(StrategyShare(s))' <= strategyDeployed'[s]
  <2> DEFINE f == [o \in inflight |-> IF o.strategy = s THEN Notional(o.legs) ELSE 0]
             h == [o \in inflight' |-> IF o.strategy = s THEN Notional(o.legs) ELSE 0]
             held == IF intent.strategy = s THEN Notional(legs) ELSE 0
             d == strategyDeployed[s]
  <2>1. SumFunction(f) <= d
    BY <1>2, <1>12 DEF CoverInv, CoversInflight, StrategyShare
  <2>2. \A o \in inflight : (IF o.strategy = s THEN Notional(o.legs) ELSE 0) \in Nat
    <3>1. \A o \in inflight : o.legs \in Seq(Leg) /\ Len(o.legs) \in {1, 2}
      BY <1>3 DEF Order
    <3>2. \A o \in inflight : Notional(o.legs) \in Nat
      BY <3>1, LegFacts
    <3> QED BY <3>2
  <2>3. \A o \in inflight : f[o] \in Nat /\ h[o] = f[o]
    BY <1>2, <2>2
  <2>4. h[new] = held
    BY <1>2
  <2>5. DOMAIN f = inflight /\ DOMAIN h = inflight \cup {new}
    BY <1>2
  <2>6. held \in Nat /\ d \in Nat
    BY <1>3, <1>10
  <2>7. strategyDeployed'[s] = d + held
    BY <1>3, <1>8, <1>10, <1>11
  <2> HIDE DEF f, h, held, d, new
  <2>8. SumFunction(h) <= d + held
    BY <1>3, <1>5, <2>1, <2>3, <2>4, <2>5, <2>6, SharesGrow
  <2> QED BY <2>7, <2>8 DEF StrategyShare, h
<1>13. ASSUME exact', NEW v \in Venues PROVE SumFunction(VenueShare(v))' <= venueDeployed'[v] + closed'[v]
  <2> DEFINE f == [o \in inflight |-> OnVenue(o.legs, v)]
             h == [o \in inflight' |-> OnVenue(o.legs, v)]
             held == OnVenue(legs, v)
             d == venueDeployed[v] + closed[v]
  <2>1. SumFunction(f) <= d
    BY <1>2, <1>13 DEF CoverInv, CoversInflight, VenueShare
  <2>2. \A o \in inflight : OnVenue(o.legs, v) \in Nat
    <3>1. \A o \in inflight : o.legs \in Seq(Leg) /\ Len(o.legs) \in {1, 2}
      BY <1>3 DEF Order
    <3> QED BY <3>1, LegFacts
  <2>3. \A o \in inflight : f[o] \in Nat /\ h[o] = f[o]
    BY <1>2, <2>2
  <2>4. h[new] = held
    BY <1>2
  <2>5. DOMAIN f = inflight /\ DOMAIN h = inflight \cup {new}
    BY <1>2
  <2>6. held \in Nat /\ d \in Nat
    BY <1>3, <1>10
  <2>7. venueDeployed'[v] + closed'[v] = d + held
    BY <1>2, <1>3, <1>10, <1>11
  <2> HIDE DEF f, h, held, d, new
  <2>8. SumFunction(h) <= d + held
    BY <1>3, <1>5, <2>1, <2>3, <2>4, <2>5, <2>6, SharesGrow
  <2> QED BY <2>7, <2>8 DEF VenueShare, h
<1>14. CoversInflight'
  BY <1>12, <1>13 DEF CoversInflight
<1> QED BY <1>6, <1>7, <1>14

\* An order that leaves, with no more released than it holds.
LEMMA GoneCovers ==
  ASSUME CoverInv, NEW order \in inflight, inflight' = inflight \ {order}, exact' => exact,
         UNCHANGED closed,
         NEW left, NEW room, left = strategyDeployed', room = venueDeployed',
         exact' =>
           /\ \A s \in Strategies : /\ left[s] \in Nat
                                    /\ strategyDeployed[s] <= left[s] +
                                         (IF order.strategy = s THEN Notional(order.legs) ELSE 0)
           /\ \A v \in Venues : /\ room[v] \in Nat
                                /\ venueDeployed[v] <= room[v] + OnVenue(order.legs, v)
  PROVE  IsFiniteSet(inflight') /\ CoversInflight'
<1>1. /\ strategyDeployed \in [Strategies -> Nat] /\ venueDeployed \in [Venues -> Nat]
      /\ closed \in [Venues -> Nat]
      /\ inflight \subseteq Order /\ IsFiniteSet(inflight)
  BY DEF CoverInv, TypeOK
<1>2. \A o \in inflight : o.legs \in Seq(Leg) /\ Len(o.legs) \in {1, 2}
  BY DEF CoverInv, TypeOK, Order
<1>3. \A o \in inflight : Notional(o.legs) \in Nat /\ \A v \in Venues : OnVenue(o.legs, v) \in Nat
  BY <1>2, LegFacts
<1>4. ASSUME exact', NEW s \in Strategies PROVE SumFunction(StrategyShare(s))' <= strategyDeployed'[s]
  <2> DEFINE f == [o \in inflight |-> IF o.strategy = s THEN Notional(o.legs) ELSE 0]
             h == [o \in inflight' |-> IF o.strategy = s THEN Notional(o.legs) ELSE 0]
             d == strategyDeployed[s]
             after == left[s]
  <2>1. SumFunction(f) <= d
    BY <1>4 DEF CoverInv, CoversInflight, StrategyShare
  <2>2. (\A o \in inflight : f[o] \in Nat) /\ \A o \in inflight \ {order} : h[o] = f[o]
    BY <1>3
  <2>3. DOMAIN f = inflight /\ DOMAIN h = inflight \ {order}
    OBVIOUS
  <2>4. d \in Nat /\ after \in Nat /\ d <= after + f[order]
    BY <1>1, <1>4
  <2> HIDE DEF f, h, d, after
  <2>5. SumFunction(h) <= after
    BY <1>1, <2>1, <2>2, <2>3, <2>4, SharesShrink
  <2> QED BY <2>5 DEF StrategyShare, h, after
<1>5. ASSUME exact', NEW v \in Venues PROVE SumFunction(VenueShare(v))' <= venueDeployed'[v] + closed'[v]
  <2> DEFINE f == [o \in inflight |-> OnVenue(o.legs, v)]
             h == [o \in inflight' |-> OnVenue(o.legs, v)]
             d == venueDeployed[v] + closed[v]
             after == room[v] + closed[v]
  <2>1. SumFunction(f) <= d
    BY <1>5 DEF CoverInv, CoversInflight, VenueShare
  <2>2. (\A o \in inflight : f[o] \in Nat) /\ \A o \in inflight \ {order} : h[o] = f[o]
    BY <1>3
  <2>3. DOMAIN f = inflight /\ DOMAIN h = inflight \ {order}
    OBVIOUS
  <2>4. d \in Nat /\ after \in Nat /\ d <= after + f[order]
    BY <1>1, <1>3, <1>5
  <2> HIDE DEF f, h, d, after
  <2>5. SumFunction(h) <= after
    BY <1>1, <2>1, <2>2, <2>3, <2>4, SharesShrink
  <2> QED BY <2>5 DEF VenueShare, h, after
<1>6. CoversInflight'
  BY <1>4, <1>5 DEF CoversInflight
<1>7. IsFiniteSet(inflight')
  BY <1>1, FS_RemoveElement
<1> QED BY <1>6, <1>7

LEMMA FillCovers ==
  ASSUME CoverInv, NEW order \in inflight, NEW pct \in FillPcts, NEW pnl \in PnLs,
         Fill(order, pct, pnl)
  PROVE  IsFiniteSet(inflight') /\ (\A o \in inflight' : o.id < approved') /\ CoversInflight'
<1> DEFINE legs == Filled(order.legs, pct)
<1>1. /\ Release(order.strategy, legs) /\ inflight' = inflight \ {order}
      /\ exact' = (exact /\ pct <= 100) /\ UNCHANGED <<approved, closed>>
  BY DEF Fill
<1>2. order.strategy \in Strategies /\ order.legs \in Seq(Leg) /\ Len(order.legs) \in {1, 2}
  BY DEF CoverInv, TypeOK, Order
<1>3. strategyDeployed \in [Strategies -> Nat] /\ venueDeployed \in [Venues -> Nat]
  BY DEF CoverInv, TypeOK
<1>4. /\ strategyDeployed' \in [Strategies -> Nat] /\ venueDeployed' \in [Venues -> Nat]
  BY <1>1, Released DEF CoverInv
<1>5. pct \in Nat
  BY AllocatorAssumption
<1>6. exact' => /\ Notional(legs) \in Nat /\ Notional(legs) <= Notional(order.legs)
                /\ \A v \in Venues : /\ OnVenue(legs, v) \in Nat
                                     /\ OnVenue(legs, v) <= OnVenue(order.legs, v)
  BY <1>1, <1>2, <1>5, FilledLess
<1>7. Notional(order.legs) \in Nat /\ \A v \in Venues : OnVenue(order.legs, v) \in Nat
  BY <1>2, LegFacts
<1> HIDE DEF legs
<1>8. /\ strategyDeployed' = [strategyDeployed EXCEPT ![order.strategy] =
                                Less(strategyDeployed[order.strategy], Notional(legs))]
      /\ venueDeployed' = [v \in Venues |-> Less(venueDeployed[v], OnVenue(legs, v))]
  BY <1>1 DEF Release
<1>9. ASSUME NEW a \in Nat, NEW b \in Nat, NEW c \in Nat, b <= c PROVE a <= Less(a, b) + c
  BY <1>9 DEF Less
<1>10. ASSUME exact', NEW s \in Strategies
       PROVE  /\ strategyDeployed'[s] \in Nat
              /\ strategyDeployed[s] <= strategyDeployed'[s] +
                   (IF order.strategy = s THEN Notional(order.legs) ELSE 0)
  <2>1. strategyDeployed[s] \in Nat /\ strategyDeployed'[s] \in Nat
    BY <1>3, <1>4
  <2>2. CASE order.strategy = s
    <3>1. strategyDeployed'[s] = Less(strategyDeployed[s], Notional(legs))
      BY <1>2, <1>3, <1>8, <2>2
    <3>2. strategyDeployed[s] <= Less(strategyDeployed[s], Notional(legs)) + Notional(order.legs)
      BY <1>6, <1>7, <1>9, <1>10, <2>1
    <3> QED BY <2>1, <2>2, <3>1, <3>2
  <2>3. CASE order.strategy # s
    <3>1. strategyDeployed'[s] = strategyDeployed[s]
      BY <1>2, <1>3, <1>8, <2>3
    <3> QED BY <2>1, <2>3, <3>1
  <2> QED BY <2>2, <2>3
<1>11. ASSUME exact', NEW v \in Venues
       PROVE  /\ venueDeployed'[v] \in Nat
              /\ venueDeployed[v] <= venueDeployed'[v] + OnVenue(order.legs, v)
  <2>1. venueDeployed[v] \in Nat /\ venueDeployed'[v] \in Nat
    BY <1>3, <1>4
  <2>2. venueDeployed'[v] = Less(venueDeployed[v], OnVenue(legs, v))
    BY <1>8
  <2>3. venueDeployed[v] <= Less(venueDeployed[v], OnVenue(legs, v)) + OnVenue(order.legs, v)
    BY <1>6, <1>7, <1>9, <1>11, <2>1
  <2> QED BY <2>1, <2>2, <2>3
<1>12. PICK left, room : left = strategyDeployed' /\ room = venueDeployed'
  OBVIOUS
<1>13. exact' =>
         /\ \A s \in Strategies : /\ left[s] \in Nat
                                  /\ strategyDeployed[s] <= left[s] +
                                       (IF order.strategy = s THEN Notional(order.legs) ELSE 0)
         /\ \A v \in Venues : /\ room[v] \in Nat
                              /\ venueDeployed[v] <= room[v] + OnVenue(order.legs, v)
  BY <1>10, <1>11, <1>12
<1>14. exact' => exact
  BY <1>1
<1>15. IsFiniteSet(inflight') /\ CoversInflight'
  BY <1>1, <1>12, <1>13, <1>14, GoneCovers
<1>16. \A o \in inflight' : o.id < approved'
  BY <1>1 DEF CoverInv
<1> QED BY <1>15, <1>16

LEMMA DropCovers ==
  ASSUME CoverInv, NEW order \in inflight, Drop(order)
  PROVE  IsFiniteSet(inflight') /\ (\A o \in inflight' : o.id < approved') /\ CoversInflight'
<1>1. /\ inflight' = inflight \ {order}
      /\ UNCHANGED <<strategyDeployed, venueDeployed, approved, closed, exact>>
  BY DEF Drop
<1>2. order.legs \in Seq(Leg) /\ Len(order.legs) \in {1, 2}
  BY DEF CoverInv, TypeOK, Order
<1>3. strategyDeployed \in [Strategies -> Nat] /\ venueDeployed \in [Venues -> Nat]
  BY DEF CoverInv, TypeOK
<1>4. Notional(order.legs) \in Nat /\ \A v \in Venues : OnVenue(order.legs, v) \in Nat
  BY <1>2, LegFacts
<1>5. PICK left, room : left = strategyDeployed' /\ room = venueDeployed'
  OBVIOUS
<1>6. exact' =>
         /\ \A s \in Strategies : /\ left[s] \in Nat
                                  /\ strategyDeployed[s] <= left[s] +
                                       (IF order.strategy = s THEN Notional(order.legs) ELSE 0)
         /\ \A v \in Venues : /\ room[v] \in Nat
                              /\ venueDeployed[v] <= room[v] + OnVenue(order.legs, v)
  BY <1>1, <1>3, <1>4, <1>5
<1>7. IsFiniteSet(inflight') /\ CoversInflight'
  BY <1>1, <1>5, <1>6, GoneCovers
<1>8. \A o \in inflight' : o.id < approved'
  BY <1>1 DEF CoverInv
<1> QED BY <1>7, <1>8

\* A closing fill takes no more from a venue than it adds to the history.
LEMMA CloseCovers ==
  ASSUME CoverInv, NEW at \in Venues, NEW usd \in CloseUSD, CloseFill(at, usd)
  PROVE  CoversInflight'
<1>1. UNCHANGED <<strategyDeployed, inflight, exact>>
  BY DEF CloseFill
<1>2. /\ venueDeployed' \in [Venues -> Nat] /\ closed' \in [Venues -> Nat]
      /\ \A v \in Venues : venueDeployed[v] + closed[v] <= venueDeployed'[v] + closed'[v]
  BY CloseReleased DEF CoverInv
<1>3. venueDeployed \in [Venues -> Nat] /\ closed \in [Venues -> Nat] /\ IsFiniteSet(inflight)
  BY DEF CoverInv, TypeOK
<1>4. ASSUME exact', NEW s \in Strategies
      PROVE  SumFunction(StrategyShare(s))' <= strategyDeployed'[s]
  BY <1>1, <1>4 DEF CoverInv, CoversInflight, StrategyShare
<1>5. ASSUME exact', NEW v \in Venues
      PROVE  SumFunction(VenueShare(v))' <= venueDeployed'[v] + closed'[v]
  <2> DEFINE f == [o \in inflight |-> OnVenue(o.legs, v)]
             held == SumFunction(f)
             d == venueDeployed[v] + closed[v]
             after == venueDeployed'[v] + closed'[v]
  <2>1. held <= d
    BY <1>1, <1>5 DEF CoverInv, CoversInflight, VenueShare
  <2>2. d \in Nat /\ after \in Nat /\ d <= after
    BY <1>2, <1>3
  <2>3. held \in Nat
    <3>1. \A o \in inflight : o.legs \in Seq(Leg) /\ Len(o.legs) \in {1, 2}
      BY DEF CoverInv, TypeOK, Order
    <3>2. \A o \in inflight : f[o] \in Nat
      BY <3>1, LegFacts
    <3>3. DOMAIN f = inflight /\ SumFunction(f) = SumFunctionOnSet(f, inflight)
      BY DEF SumFunction
    <3> HIDE DEF f
    <3> QED BY <1>3, <3>2, <3>3, SumNat
  <2>4. SumFunction(VenueShare(v))' = held
    BY <1>1 DEF VenueShare
  <2> HIDE DEF f, held, d, after
  <2>5. held <= after
    BY <2>1, <2>2, <2>3
  <2> QED BY <2>4, <2>5 DEF after
<1> QED BY <1>4, <1>5 DEF CoversInflight

LEMMA StepCovers == CoverInv /\ [Next]_vars => CoverInv'
<1> SUFFICES ASSUME CoverInv, [Next]_vars PROVE CoverInv'
  OBVIOUS
<1> DEFINE Kept == IsFiniteSet(inflight') /\ (\A o \in inflight' : o.id < approved') /\ CoversInflight'
<1>1. CASE \E intent \in Intents, mode \in Modes, quality \in Qualities, dyn \in DynPcts,
              oi \in OiPcts : Evaluate(intent, mode, quality, dyn, oi)
  <2>1. Kept
    BY <1>1, EvaluateCovers
  <2> QED BY <2>1, NextTypeOK DEF CoverInv
<1>2. CASE \E order \in inflight, pct \in FillPcts, pnl \in PnLs : Fill(order, pct, pnl)
  <2>1. Kept
    BY <1>2, FillCovers
  <2> QED BY <2>1, NextTypeOK DEF CoverInv
<1>3. CASE \E order \in inflight : Drop(order)
  <2>1. Kept
    BY <1>3, DropCovers
  <2> QED BY <2>1, NextTypeOK DEF CoverInv
<1>4. CASE Restart
  <2>1. ~exact' /\ UNCHANGED <<approved, inflight>>
    BY <1>4 DEF Restart
  <2>2. CoversInflight'
    BY <2>1 DEF CoversInflight
  <2> QED BY <2>1, <2>2, NextTypeOK DEF CoverInv
<1>5. CASE UNCHANGED vars
  <2>1. CoversInflight'
    BY <1>5 DEF vars, CoverInv, CoversInflight, StrategyShare, VenueShare
  <2>2. UNCHANGED <<approved, inflight>>
    BY <1>5 DEF vars
  <2> QED BY <2>1, <2>2, NextTypeOK DEF CoverInv
<1>6. CASE \E at \in Venues, usd \in CloseUSD : CloseFill(at, usd)
  <2>1. CoversInflight'
    BY <1>6, CloseCovers
  <2>2. UNCHANGED <<approved, inflight>>
    BY <1>6 DEF CloseFill
  <2> QED BY <2>1, <2>2, NextTypeOK DEF CoverInv
<1> QED BY <1>1, <1>2, <1>3, <1>4, <1>5, <1>6 DEF Next

\* Whatever is approved, filled or lost, and in whatever order, until a restart or a fill of more
\* than was asked for: the notional of the orders the router still has to execute is counted against
\* their strategies, and against their venues up to what fills of close intents gave back there.
THEOREM CoversInflightHolds == Spec => []CoversInflight
<1>1. Init => CoverInv
  <2> SUFFICES ASSUME Init PROVE CoverInv
    OBVIOUS
  <2>1. inflight = {} /\ strategyDeployed = [s \in Strategies |-> 0] /\ venueDeployed = [v \in Venues |-> 0]
    BY DEF Init
  <2>2. ASSUME NEW f, DOMAIN f = {} PROVE SumFunction(f) = 0
    BY <2>2, SumEmpty DEF SumFunction
  <2>3. \A s \in Strategies : SumFunction(StrategyShare(s)) = 0
    <3>1. \A s \in Strategies : DOMAIN StrategyShare(s) = {}
      BY <2>1 DEF StrategyShare
    <3> QED BY <2>2, <3>1
  <2>4. \A v \in Venues : SumFunction(VenueShare(v)) = 0
    <3>1. \A v \in Venues : DOMAIN VenueShare(v) = {}
      BY <2>1 DEF VenueShare
    <3> QED BY <2>2, <3>1
  <2>5. closed = [v \in Venues |-> 0]
    BY DEF Init
  <2>6. CoversInflight
    BY <2>1, <2>3, <2>4, <2>5 DEF CoversInflight
  <2> QED BY <2>1, <2>6, InitTypeOK, FS_EmptySet DEF CoverInv
<1>2. CoverInv => CoversInflight
  BY DEF CoverInv
<1> QED BY <1>1, <1>2, StepCovers, PTL DEF Spec

-----------------------------------------------------------------------------
\* The loop.


LoopTypeOK ==
    /\ killed \in BOOLEAN /\ intents \in Nat
    /\ loopStep \in {"kill", "fills", "read", "mode", "approve"}
    /\ received \in Nat /\ grantedSinceKill \in Nat

\* A batch is in hand exactly between its read and its last decision.
BatchInHand == received > 0 <=> loopStep \in {"mode", "approve"}

\* What was granted since the switch was set and what is in hand are one batch, and a loop
\* that is about to read has granted nothing since.
OneBatch ==
    /\ received + grantedSinceKill <= BatchSize
    /\ loopStep \in {"fills", "read"} => grantedSinceKill = 0
    /\ ~killed => grantedSinceKill = 0

Inductive == LoopTypeOK /\ BatchInHand /\ OneBatch

LEMMA BatchIsNat == BatchSize \in Nat /\ BatchSize > 0
  BY LoopAssumption

USE BatchIsNat

LEMMA Difference == \A a, b \in Nat : b <= a => a - b \in Nat
  OBVIOUS

LEMMA PlusZero == \A a \in Nat : a + 0 = a
  OBVIOUS

-----------------------------------------------------------------------------

LEMMA InitInductive == LoopInit => Inductive
<1> SUFFICES ASSUME LoopInit PROVE Inductive
  OBVIOUS
<1>1. /\ killed = FALSE /\ intents = 0 /\ loopStep = "kill"
      /\ received = 0 /\ grantedSinceKill = 0
  BY DEF LoopInit
<1>2. LoopTypeOK
  BY <1>1 DEF LoopTypeOK
<1>3. BatchInHand
  BY <1>1 DEF BatchInHand
<1>4. OneBatch
  BY <1>1 DEF OneBatch
<1> QED
  BY <1>2, <1>3, <1>4 DEF Inductive

\* The read takes no more than a batch.
LEMMA ReadInductive ==
  ASSUME Inductive, ReadIntents
  PROVE  Inductive'
<1> USE DEF Inductive, LoopTypeOK
<1>1. loopStep = "read" /\ grantedSinceKill = 0
  BY DEF ReadIntents, OneBatch
<1>2. received' \in Nat /\ received' <= BatchSize /\ received' <= intents
  BY DEF ReadIntents
<1>3. /\ intents' = intents - received' /\ grantedSinceKill' = 0 /\ killed' = killed
      /\ loopStep' = IF received' = 0 THEN "kill" ELSE "mode"
  BY <1>1 DEF ReadIntents, environment
<1>4. intents' \in Nat
  <2>1. intents \in Nat /\ received' \in Nat /\ received' <= intents
    BY <1>2
  <2>2. intents - received' \in Nat
    BY <2>1, Difference
  <2> QED
    BY <1>3, <2>2
<1>5. LoopTypeOK'
  BY <1>2, <1>3, <1>4
<1>6. BatchInHand'
  BY <1>2, <1>3 DEF BatchInHand
<1>7. OneBatch'
  <2>1. received' + grantedSinceKill' <= BatchSize
    <3>1. received' \in Nat /\ grantedSinceKill' = 0 /\ received' <= BatchSize
      BY <1>2, <1>3
    <3>2. received' + 0 = received'
      BY <3>1, PlusZero
    <3> QED
      BY <3>1, <3>2
  <2>2. (loopStep \in {"fills", "read"} => grantedSinceKill = 0)'
    BY <1>3
  <2>3. (~killed => grantedSinceKill = 0)'
    BY <1>3
  <2> QED
    BY <2>1, <2>2, <2>3 DEF OneBatch
<1> QED
  BY <1>5, <1>6, <1>7

\* Each decision leaves one intent less in hand, and grants one at most.
LEMMA ApproveInductive ==
  ASSUME Inductive, Approve
  PROVE  Inductive'
<1> USE DEF Inductive, LoopTypeOK
<1>1. loopStep = "approve" /\ received > 0
  BY DEF Approve, BatchInHand
<1>2. /\ received' = received - 1 /\ killed' = killed /\ intents' = intents
      /\ loopStep' = IF received = 1 THEN "kill" ELSE "approve"
  BY DEF Approve, environment
<1>3. \/ grantedSinceKill' = grantedSinceKill
      \/ grantedSinceKill' = IF killed THEN grantedSinceKill + 1 ELSE 0
  BY DEF Approve
<1>4. LoopTypeOK' /\ BatchInHand'
  BY <1>1, <1>2, <1>3 DEF BatchInHand
<1>5. OneBatch'
  BY <1>1, <1>2, <1>3 DEF OneBatch
<1> QED
  BY <1>4, <1>5

\* Only a loop that finds no kill switch goes on to read.
LEMMA CheckInductive ==
  ASSUME RedisFails = FALSE, Inductive, CheckKill
  PROVE  Inductive'
<1>1. killed = FALSE
  BY DEF CheckKill, Reads, Inductive, LoopTypeOK
<1> QED
  BY <1>1 DEF CheckKill, Inductive, LoopTypeOK, BatchInHand, OneBatch, environment

LEMMA StepInductive ==
  ASSUME RedisFails = FALSE, Inductive, [LoopNext]_loopVars
  PROVE  Inductive'
<1>1. CASE \E active \in BOOLEAN : SetKillSwitch(active)
  <2>1. PICK active \in BOOLEAN : SetKillSwitch(active)
    BY <1>1
  <2>2. /\ killed' = active /\ UNCHANGED <<intents, loopStep, received>>
        /\ grantedSinceKill' = IF active THEN grantedSinceKill ELSE 0
    BY <2>1 DEF SetKillSwitch
  <2> QED
    BY <2>2 DEF Inductive, LoopTypeOK, BatchInHand, OneBatch
<1>2. CASE \E mode \in {"RUNNING", "PAUSED"} : PublishMode(mode)
  BY <1>2 DEF PublishMode, Inductive, LoopTypeOK, BatchInHand, OneBatch
<1>3. CASE Emit
  BY <1>3 DEF Emit, Inductive, LoopTypeOK, BatchInHand, OneBatch, environment
<1>4. CASE Route
  BY <1>4 DEF Route, Inductive, LoopTypeOK, BatchInHand, OneBatch, environment
<1>5. CASE CheckKill
  BY <1>5, CheckInductive
<1>6. CASE ReadFills
  BY <1>6 DEF ReadFills, Inductive, LoopTypeOK, BatchInHand, OneBatch, environment
<1>7. CASE ReadIntents
  BY <1>7, ReadInductive
<1>8. CASE CheckMode
  BY <1>8 DEF CheckMode, Inductive, LoopTypeOK, BatchInHand, OneBatch, environment
<1>9. CASE Approve
  BY <1>9, ApproveInductive
<1>10. CASE AllocatorRestart
  BY <1>10 DEF AllocatorRestart, Inductive, LoopTypeOK, BatchInHand, OneBatch, environment
<1>11. CASE UNCHANGED loopVars
  BY <1>11 DEF loopVars, Inductive, LoopTypeOK, BatchInHand, OneBatch, environment
<1> QED
  BY <1>1, <1>2, <1>3, <1>4, <1>5, <1>6, <1>7, <1>8, <1>9, <1>10, <1>11 DEF LoopNext, Running, Loop

-----------------------------------------------------------------------------

\* If Redis answers, no more than the batch the loop had checked for is approved once the kill
\* switch is set, through restarts of the allocator (src/cmd/capital-allocator/main.go).
THEOREM ApprovalStopsHolds == RedisFails = FALSE /\ LoopSpec => []ApprovalStops
<1>1. Inductive => ApprovalStops
  BY DEF Inductive, LoopTypeOK, OneBatch, ApprovalStops
<1>2. RedisFails = FALSE /\ Inductive /\ [LoopNext]_loopVars => Inductive'
  BY StepInductive
<1>3. RedisFails = FALSE => [](RedisFails = FALSE)
  <2>1. RedisFails = FALSE => (RedisFails = FALSE)'
    OBVIOUS
  <2> QED
    BY <2>1, PTL
<1> QED
  BY InitInductive, <1>1, <1>2, <1>3, PTL DEF LoopSpec

-----------------------------------------------------------------------------
(* The interest that sizes the orders. *)

\* A report is as old as what the venue told, or older.
Reported(told, report) == report.oi \in Depths /\ told[report.oi] <= report.age

InStream == \A k \in DOMAIN stream : Reported(since, stream[k])
InTracker == snapshot.oi # 0 => since[snapshot.oi] <= snapshot.age

InterestInductive == OpenInterestTypeOK /\ InStream /\ InTracker

USE OpenInterestAssumption

-----------------------------------------------------------------------------

\* Ages are kept apart up to the limit, and keep their order.
LEMMA OlderKeeps ==
    ASSUME NEW a \in 0..(StaleTicks + 1), NEW b \in 0..(StaleTicks + 1), a <= b
    PROVE  Older(a) \in 0..(StaleTicks + 1) /\ Older(a) <= Older(b)
BY DEF Older

\* Whatever a venue declines with, the fetch finds no interest in it.
LEMMA RefusalsTellNothing ==
    ASSUME venue \in Polled, NEW answer \in Refusals
    PROVE  Fetch(answer) = 0
<1>1. ASSUME answer \in HTTPRefusals PROVE answer.status # 200 /\ answer.listed = FALSE
  BY <1>1 DEF HTTPRefusals, Answer
<1>2. CASE venue = "binance"
  <2>1. answer \in HTTPRefusals
    BY <1>2 DEF Refusals
  <2> QED
    BY <1>1, <1>2, <2>1 DEF Fetch, FetchBinanceOI, Got
<1>3. CASE venue = "bybit"
  <2>1. answer \in CodedRefusals
    BY <1>3 DEF Refusals
  <2>2. CASE answer \in HTTPRefusals
    BY <1>1, <1>3, <2>2 DEF Fetch, FetchBybitOI, Got
  <2>3. CASE \E listed \in BOOLEAN, oi \in Depths : answer = Answer(200, 10006, listed, oi)
    <3>1. answer.code = 10006
      BY <2>3 DEF Answer
    <3> QED
      BY <1>3, <3>1 DEF Fetch, FetchBybitOI
  <2> QED
    BY <2>1, <2>2, <2>3 DEF CodedRefusals
<1>4. CASE venue \in {"okx", "deribit"}
  <2>1. answer \in EmptyRefusals
    BY <1>4 DEF Refusals
  <2>2. answer \in HTTPRefusals \/ answer = Answer(200, 1, FALSE, 0)
    BY <2>1 DEF EmptyRefusals
  <2>3. Answer(200, 1, FALSE, 0).listed = FALSE
    BY DEF Answer
  <2>4. answer.listed = FALSE
    BY <1>1, <2>2, <2>3
  <2> QED
    BY <1>4, <2>4 DEF Fetch, FetchOKXOI, FetchDeribitOI
<1> QED
  BY <1>2, <1>3, <1>4 DEF Polled

\* A poll that finds an interest was told the depth.
LEMMA FetchFindsDepth ==
    ASSUME OpenInterestTypeOK, NEW answer \in {Told(depth)} \cup Refusals, Fetch(answer) > 0
    PROVE  answer = Told(depth) /\ Fetch(answer) = depth
<1>1. answer = Told(depth)
  BY RefusalsTellNothing DEF OpenInterestTypeOK
<1>2. answer.status = 200 /\ answer.code = 0 /\ answer.listed = TRUE /\ answer.oi = depth
  BY <1>1 DEF Told, Answer
<1> QED
  BY <1>1, <1>2 DEF Fetch, FetchBinanceOI, FetchBybitOI, FetchOKXOI, FetchDeribitOI, Got,
     OpenInterestTypeOK, Polled

-----------------------------------------------------------------------------
(* The steps. *)

LEMMA InterestInit == OpenInterestInit => InterestInductive
<1> SUFFICES ASSUME OpenInterestInit PROVE InterestInductive
  OBVIOUS
<1>1. NoSnapshot \in Snapshot /\ NoSnapshot.oi = 0
  BY DEF NoSnapshot, Snapshot
<1>2. OpenInterestTypeOK
  BY <1>1 DEF OpenInterestInit, OpenInterestTypeOK
<1> QED
  BY <1>1, <1>2 DEF OpenInterestInit, InterestInductive, InStream, InTracker

\* What is published was told just now.
LEMMA PollKeeps ==
    ASSUME InterestInductive, NEW answer \in {Told(depth)} \cup Refusals, Poll(answer)
    PROVE  InterestInductive'
<1> USE DEF InterestInductive, OpenInterestTypeOK
<1>1. /\ since' \in [Depths -> 0..(StaleTicks + 1)]
      /\ \A d \in Depths : since'[d] <= since[d]
  BY DEF Poll
<1>2. InTracker'
  <2>1. SUFFICES ASSUME snapshot.oi # 0 PROVE since'[snapshot.oi] <= snapshot.age
    BY DEF Poll, InTracker
  <2> DEFINE d == snapshot.oi
  <2>2. d \in Depths /\ snapshot.age \in Nat /\ since[d] <= snapshot.age
    BY <2>1 DEF Snapshot, InTracker
  <2> HIDE DEF d
  <2>3. since'[d] \in Nat /\ since[d] \in Nat /\ since'[d] <= since[d]
    BY <1>1, <2>2
  <2>4. since'[d] <= snapshot.age
    BY <2>2, <2>3
  <2> QED
    BY <2>4 DEF d
<1>3. ASSUME NEW report \in Snapshot, Reported(since, report)
      PROVE  Reported(since', report)
  <2>1. report.oi \in Depths /\ report.age \in Nat /\ since[report.oi] <= report.age
    BY <1>3 DEF Reported, Snapshot
  <2> DEFINE d == report.oi
  <2>d. d \in Depths
    BY <2>1
  <2> HIDE DEF d
  <2>2. since'[d] \in Nat /\ since[d] \in Nat /\ since'[d] <= since[d]
    BY <1>1, <2>d
  <2>3. since'[report.oi] <= report.age
    BY <2>1, <2>2 DEF d
  <2> QED
    BY <2>1, <2>3 DEF Reported
<1>4. CASE UNCHANGED stream
  <2>1. \A k \in DOMAIN stream : stream[k] \in Snapshot /\ Reported(since, stream[k])
    BY DEF InStream
  <2>2. \A k \in DOMAIN stream : Reported(since', stream[k])
    BY <1>3, <2>1
  <2>3. InStream'
    BY <1>4, <2>2 DEF InStream
  <2>4. OpenInterestTypeOK'
    BY <1>1, <1>4 DEF Poll
  <2> QED
    BY <1>2, <2>3, <2>4
<1>5. CASE Fetch(answer) > 0 /\ Publish(Fetch(answer))
  <2> DEFINE new == [oi |-> depth, age |-> 0]
             full == Append(stream, new)
  <2>1. answer = Told(depth) /\ Fetch(answer) = depth
    BY <1>5, FetchFindsDepth
  <2>2. new \in Snapshot /\ Reported(since', new)
    BY <2>1 DEF Poll, Snapshot, Reported
  <2>3. full \in Seq(Snapshot) /\ \A k \in DOMAIN full : Reported(since', full[k])
    <3>1. /\ full \in Seq(Snapshot) /\ Len(full) = Len(stream) + 1
          /\ DOMAIN full = 1..(Len(stream) + 1) /\ full[Len(stream) + 1] = new
          /\ \A k \in 1..Len(stream) : full[k] = stream[k] /\ stream[k] \in Snapshot
      BY <2>2
    <3>2. \A k \in 1..Len(stream) : Reported(since', stream[k])
      BY <1>3, <3>1 DEF InStream
    <3> HIDE DEF full, new
    <3> QED
      BY <2>2, <3>1, <3>2
  <2>4. stream' = IF Len(full) > MaxLen THEN Tail(full) ELSE full
    BY <1>5, <2>1 DEF Publish
  <2>5. Len(full) = Len(stream) + 1
    OBVIOUS
  <2> HIDE DEF full, new
  <2>6. stream' \in Seq(Snapshot) /\ Len(stream') <= MaxLen
    BY <2>3, <2>4, <2>5
  <2>7. \A k \in DOMAIN stream' : Reported(since', stream'[k])
    <3>1. CASE Len(full) > MaxLen
      BY <2>3, <2>4, <3>1
    <3>2. CASE ~(Len(full) > MaxLen)
      BY <2>3, <2>4, <3>2
    <3> QED
      BY <3>1, <3>2
  <2> QED
    BY <1>1, <1>2, <2>6, <2>7 DEF Poll, InStream
<1> QED
  BY <1>4, <1>5 DEF Poll

\* The tracker takes what the stream holds.
LEMMA UpdateKeeps == ASSUME InterestInductive, Update PROVE InterestInductive'
<1> USE DEF InterestInductive, OpenInterestTypeOK
<1>1. Head(stream) \in Snapshot /\ Reported(since, Head(stream))
  BY DEF Update, InStream
<1>2. /\ Tail(stream) \in Seq(Snapshot) /\ Len(Tail(stream)) <= MaxLen
      /\ \A k \in DOMAIN Tail(stream) : Reported(since, Tail(stream)[k])
  BY DEF Update, InStream
<1>3. stream' = Tail(stream) /\ snapshot' = Head(stream) /\ UNCHANGED <<venue, depth, since>>
  BY DEF Update
<1> QED
  BY <1>1, <1>2, <1>3 DEF InStream, InTracker, Reported

\* What was told ages no less than the reports of it.
LEMMA TickKeeps == ASSUME InterestInductive, Tick PROVE InterestInductive'
<1> USE DEF InterestInductive, OpenInterestTypeOK
<1>1. /\ since' \in [Depths -> 0..(StaleTicks + 1)]
      /\ \A d \in Depths : since'[d] = Older(since[d])
  BY OlderKeeps DEF Tick
<1>2. ASSUME NEW report \in Snapshot
      PROVE  Aged(report) \in Snapshot /\ Aged(report).oi = report.oi
                                      /\ Aged(report).age = Older(report.age)
  <2>1. report.age \in 0..(StaleTicks + 1) /\ report.oi \in Depths \cup {0}
    BY DEF Snapshot
  <2>2. Older(report.age) \in 0..(StaleTicks + 1)
    BY <2>1, OlderKeeps
  <2> QED
    BY <2>1, <2>2 DEF Snapshot, Aged
<1>3. ASSUME NEW report \in Snapshot, report.oi \in Depths, since[report.oi] <= report.age
      PROVE  since'[report.oi] <= Older(report.age)
  <2>1. report.age \in 0..(StaleTicks + 1) /\ since[report.oi] \in 0..(StaleTicks + 1)
    BY <1>3 DEF Snapshot
  <2> QED
    BY <1>1, <1>3, <2>1, OlderKeeps
<1>4. snapshot' = Aged(snapshot)
  BY DEF Tick
<1>5. snapshot' \in Snapshot /\ InTracker'
  <2>1. snapshot' \in Snapshot /\ snapshot'.oi = snapshot.oi /\ snapshot'.age = Older(snapshot.age)
    BY <1>2, <1>4
  <2>2. snapshot.oi # 0 => snapshot.oi \in Depths
    BY DEF Snapshot
  <2> QED
    BY <1>3, <2>1, <2>2 DEF InTracker
<1>6. /\ stream' \in Seq(Snapshot) /\ Len(stream') = Len(stream)
      /\ \A k \in DOMAIN stream' :
            /\ k \in DOMAIN stream
            /\ stream'[k] = Aged(stream[k])
  <2>1. stream' = [k \in 1..Len(stream) |-> Aged(stream[k])]
    BY DEF Tick
  <2>2. \A k \in 1..Len(stream) : Aged(stream[k]) \in Snapshot
    BY <1>2
  <2> QED
    BY <2>1, <2>2
<1>7. InStream'
  <2>1. SUFFICES ASSUME NEW k \in DOMAIN stream' PROVE Reported(since', stream'[k])
    BY DEF InStream
  <2>2. stream[k] \in Snapshot /\ Reported(since, stream[k])
    BY <1>6, <2>1 DEF InStream
  <2>3. stream'[k].oi = stream[k].oi /\ stream'[k].age = Older(stream[k].age)
    BY <1>2, <1>6, <2>1, <2>2
  <2> QED
    BY <1>3, <2>2, <2>3 DEF Reported
<1> QED
  BY <1>1, <1>5, <1>6, <1>7 DEF Tick

LEMMA InterestStep == InterestInductive /\ [OpenInterestNext]_oiVars => InterestInductive'
<1> SUFFICES ASSUME InterestInductive, [OpenInterestNext]_oiVars PROVE InterestInductive'
  OBVIOUS
<1>1. CASE \E oi \in Depths : Trade(oi)
  BY <1>1 DEF Trade, InterestInductive, OpenInterestTypeOK, InStream, InTracker, Reported
<1>2. CASE \E answer \in {Told(depth)} \cup Refusals : Poll(answer)
  BY <1>2, PollKeeps
<1>3. CASE Update
  BY <1>3, UpdateKeeps
<1>4. CASE Tick
  BY <1>4, TickKeeps
<1>5. CASE TrackerRestart
  <2>1. NoSnapshot \in Snapshot /\ NoSnapshot.oi = 0
    BY DEF NoSnapshot, Snapshot
  <2> QED
    BY <1>5, <2>1 DEF TrackerRestart, InterestInductive, OpenInterestTypeOK, InStream, InTracker, Reported
<1>6. CASE UNCHANGED oiVars
  BY <1>6 DEF oiVars, InterestInductive, OpenInterestTypeOK, InStream, InTracker, Reported
<1> QED
  BY <1>1, <1>2, <1>3, <1>4, <1>5, <1>6 DEF OpenInterestNext

LEMMA InterestSizes == InterestInductive => SizedByRecentDepth
<1> SUFFICES ASSUME InterestInductive, LiquidityPct > 100 \/ LiquidityPct < 100
             PROVE  /\ snapshot.oi \in Depths /\ since[snapshot.oi] <= StaleTicks
                    /\ LiquidityPct > 100 => snapshot.oi > 100
                    /\ LiquidityPct < 100 => snapshot.oi < 100
  BY DEF SizedByRecentDepth
<1>1. snapshot.oi \in Depths \cup {0} /\ snapshot.age \in 0..(StaleTicks + 1)
  BY DEF InterestInductive, OpenInterestTypeOK, Snapshot
<1>2. snapshot.oi # 0 /\ ~(snapshot.age > StaleTicks)
  BY DEF LiquidityPct
<1>3. snapshot.age \in Nat /\ snapshot.age <= StaleTicks
  BY <1>1, <1>2
<1>4. snapshot.oi \in Depths
  BY <1>1, <1>2
<1>5. snapshot.oi # 0 /\ snapshot.oi \in Nat /\ snapshot.age \in Nat /\ snapshot.age <= StaleTicks
  BY <1>4, <1>2, <1>3
<1>6. since[snapshot.oi] <= StaleTicks
  <2>1. since[snapshot.oi] \in Nat /\ since[snapshot.oi] <= snapshot.age
    BY <1>5, <1>4 DEF InterestInductive, OpenInterestTypeOK, InTracker
  <2> QED
    BY <1>5, <2>1
<1>7. LiquidityPct > 100 => snapshot.oi > 100
  BY <1>5 DEF LiquidityPct
<1>8. LiquidityPct < 100 => snapshot.oi < 100
  BY <1>5 DEF LiquidityPct
<1> QED
  BY <1>4, <1>6, <1>7, <1>8

-----------------------------------------------------------------------------

\* Every reachable state of the poller, the stream and the tracker is well typed
\* (oipoller.go, oigating.go).
THEOREM InterestTypeCorrect == OpenInterestSpec => []OpenInterestTypeOK
<1>1. InterestInductive => OpenInterestTypeOK
  BY DEF InterestInductive
<1> QED
  BY InterestInit, InterestStep, <1>1, PTL DEF OpenInterestSpec

\* An order is sized up, or down, only by a depth that the venue told of lately, whatever is
\* refused, late or forgotten (LiquidityMultiplier, src/internal/allocator/oigating.go).
THEOREM SizedByRecentDepthHolds == OpenInterestSpec => []SizedByRecentDepth
BY InterestInit, InterestStep, InterestSizes, PTL DEF OpenInterestSpec

-----------------------------------------------------------------------------
(* The multiplier of a strategy's cap follows its fills.                   *)

\* Quotients are in the order of the fractions, and of their bounds.
LEMMA QuotientsInOrder ==
    ASSUME NEW a \in Nat, NEW b \in Nat, NEW c \in Nat, NEW d \in Nat, b > 0, d > 0, a * d <= c * b
    PROVE  a \div b <= c \div d
<1> DEFINE q == a \div b
           r == c \div d
<1>1. q \in Nat /\ q * b <= a /\ r \in Nat /\ c < (r + 1) * d
  BY Quotient
<1> HIDE DEF q, r
<1>2. SUFFICES ASSUME r + 1 <= q PROVE FALSE
  BY <1>1 DEF q, r
<1>3. (r + 1) * d <= q * d
  BY <1>1, <1>2, Multiples
<1>4. (r + 1) * d \in Nat /\ q * d \in Nat /\ q * b \in Nat
  BY <1>1, ProductNat
<1>5. c + 1 <= q * d
  BY <1>1, <1>3, <1>4
<1>6. (c + 1) * b <= (q * d) * b
  BY <1>4, <1>5, Multiples
<1>7. (q * b) * d <= a * d
  BY <1>1, <1>4, Multiples
<1>8. (q * d) * b = (q * b) * d /\ (c + 1) * b = c * b + b
  BY <1>1
<1>9. c * b \in Nat /\ a * d \in Nat /\ (q * b) * d \in Nat
  BY <1>4, ProductNat
<1> QED BY <1>6, <1>7, <1>8, <1>9

LEMMA QuotientAtLeast ==
    ASSUME NEW a \in Nat, NEW b \in Nat, NEW k \in Nat, b > 0, k * b <= a PROVE k <= a \div b
<1> DEFINE q == a \div b
<1>1. q \in Nat /\ a < (q + 1) * b
  BY Quotient
<1> HIDE DEF q
<1>2. SUFFICES ASSUME q + 1 <= k PROVE FALSE
  BY <1>1 DEF q
<1>3. (q + 1) * b <= k * b
  BY <1>1, <1>2, Multiples
<1>4. (q + 1) * b \in Nat /\ k * b \in Nat
  BY <1>1, ProductNat
<1> QED BY <1>1, <1>3, <1>4

LEMMA QuotientAtMost ==
    ASSUME NEW a \in Nat, NEW b \in Nat, NEW k \in Nat, b > 0, a <= k * b PROVE a \div b <= k
<1> DEFINE q == a \div b
<1>1. q \in Nat /\ q * b <= a
  BY Quotient
<1> HIDE DEF q
<1>2. SUFFICES ASSUME k + 1 <= q PROVE FALSE
  BY <1>1 DEF q
<1>3. (k + 1) * b <= q * b
  BY <1>1, <1>2, Multiples
<1>4. (k + 1) * b = k * b + b /\ k * b \in Nat /\ q * b \in Nat
  BY <1>1, ProductNat
<1> QED BY <1>1, <1>3, <1>4

\* AdjustedCap, of a record.
Adjusted(pnl, wins, trades) ==
    IF pnl > 0 /\ 100 * wins > 60 * trades THEN Above(wins, trades)
    ELSE IF 100 * wins >= 40 * trades THEN 100
    ELSE IF 100 * wins >= 20 * trades THEN Below(wins, trades)
    ELSE 25

\* Each branch keeps to its band.
LEMMA Bands ==
    ASSUME NEW wins \in Nat, NEW trades \in Nat, trades > 0, wins <= trades
    PROVE  /\ (125 * wins) \div trades \in Nat
           /\ 100 * wins > 60 * trades => Above(wins, trades) >= 100
           /\ 100 * wins < 40 * trades => Below(wins, trades) <= 75
           /\ 100 * wins >= 20 * trades => Below(wins, trades) >= 50
<1> DEFINE q == (125 * wins) \div trades
<1>1. q \in Nat
  BY Quotient
<1>2. 100 * wins > 60 * trades => 75 <= q
  BY QuotientAtLeast
<1>3. 100 * wins < 40 * trades => q <= 50
  BY QuotientAtMost
<1>4. 100 * wins >= 20 * trades => 25 <= q
  BY QuotientAtLeast
<1>5. Above(wins, trades) = 100 + q - 75 /\ Below(wins, trades) = 50 + q - 25
  BY DEF Above, Below
<1> HIDE DEF q
<1> QED BY <1>1, <1>2, <1>3, <1>4, <1>5 DEF q

\* A better record earns no less.
LEMMA BetterRecord ==
    ASSUME NEW pnl \in Int, NEW wins \in Nat, NEW trades \in Nat, trades > 0, wins <= trades,
           NEW more \in Int, NEW won \in Nat, NEW made \in Nat, made > 0, won <= made,
           pnl <= more, wins * made <= won * trades,
           100 * wins > 60 * trades => 100 * won > 60 * made,
           100 * wins >= 40 * trades => 100 * won >= 40 * made,
           100 * wins >= 20 * trades => 100 * won >= 20 * made
    PROVE  Adjusted(pnl, wins, trades) <= Adjusted(more, won, made)
<1> DEFINE q == (125 * wins) \div trades
           r == (125 * won) \div made
<1>1. q <= r
  <2>1. 125 * (wins * made) <= 125 * (won * trades)
    <3>1. wins * made \in Nat /\ won * trades \in Nat
      BY ProductNat
    <3> QED BY <3>1
  <2>2. (125 * wins) * made = 125 * (wins * made) /\ (125 * won) * trades = 125 * (won * trades)
    OBVIOUS
  <2> QED BY <2>1, <2>2, QuotientsInOrder
<1>2. /\ q \in Nat
      /\ 100 * wins > 60 * trades => Above(wins, trades) >= 100
      /\ 100 * wins < 40 * trades => Below(wins, trades) <= 75
      /\ 100 * wins >= 20 * trades => Below(wins, trades) >= 50
  BY Bands
<1>3. /\ r \in Nat
      /\ 100 * won > 60 * made => Above(won, made) >= 100
      /\ 100 * won < 40 * made => Below(won, made) <= 75
      /\ 100 * won >= 20 * made => Below(won, made) >= 50
  BY Bands
<1>4. /\ Above(wins, trades) = 100 + q - 75 /\ Below(wins, trades) = 50 + q - 25
      /\ Above(won, made) = 100 + r - 75 /\ Below(won, made) = 50 + r - 25
  BY DEF Above, Below
<1> HIDE DEF q, r
<1>5. /\ Above(wins, trades) <= Above(won, made) /\ Below(wins, trades) <= Below(won, made)
      /\ Above(wins, trades) \in Int /\ Above(won, made) \in Int
      /\ Below(wins, trades) \in Int /\ Below(won, made) \in Int
  BY <1>1, <1>2, <1>3, <1>4
<1> QED BY <1>2, <1>3, <1>5 DEF Adjusted

LEMMA Adjusts == fillCount >= 5 /\ fillCount \in Nat => AdjustedPct = Adjusted(recentPnL, winCount, fillCount)
  BY DEF AdjustedPct, Adjusted

LEMMA DynamicTyped == ASSUME DynamicTypeOK, [DynamicNext]_dynamicVars PROVE DynamicTypeOK'
<1> USE DynamicAssumption
<1>1. ASSUME NEW pnl \in FillPnLs, RecordFill(pnl) PROVE DynamicTypeOK'
  BY <1>1 DEF DynamicTypeOK, RecordFill
<1>2. CASE DecayRecentPnL
  BY <1>2 DEF DynamicTypeOK, DecayRecentPnL
<1>3. CASE DynamicRestart
  BY <1>3 DEF DynamicTypeOK, DynamicRestart
<1>4. CASE UNCHANGED dynamicVars
  BY <1>4 DEF DynamicTypeOK, dynamicVars
<1> QED BY <1>1, <1>2, <1>3, <1>4 DEF DynamicNext

FillMovesCap ==
    fillCount >= 5 /\ fillCount' > fillCount =>
        IF recentPnL' > recentPnL THEN AdjustedPct' >= AdjustedPct ELSE AdjustedPct' <= AdjustedPct

LEMMA FillMoves == ASSUME DynamicTypeOK, NEW pnl \in FillPnLs, RecordFill(pnl) PROVE FillMovesCap
<1>1. pnl \in Int /\ recentPnL \in Int /\ fillCount \in Nat /\ winCount \in Nat /\ winCount <= fillCount
  BY DynamicAssumption DEF DynamicTypeOK
<1>2. SUFFICES ASSUME fillCount >= 5
               PROVE  IF pnl > 0 THEN AdjustedPct <= AdjustedPct' ELSE AdjustedPct' <= AdjustedPct
  <2>1. recentPnL' > recentPnL <=> pnl > 0
    BY <1>1 DEF RecordFill
  <2>2. ASSUME fillCount >= 5 PROVE AdjustedPct \in Int /\ AdjustedPct' \in Int
    <3>1. (125 * winCount) \div fillCount \in Int
      <4>1. 125 * winCount \in Nat /\ fillCount > 0
        BY <1>1, <2>2
      <4> QED BY <1>1, <4>1, Quotient
    <3>2. fillCount' \in Nat /\ fillCount' > 0 /\ winCount' \in Nat /\ recentPnL' \in Int
      BY <1>1 DEF RecordFill
    <3>3. 125 * winCount' \in Nat
      <4>1. \A a \in Nat : 125 * a \in Nat
        OBVIOUS
      <4> QED BY <3>2, <4>1
    <3>4. (125 * winCount') \div fillCount' \in Int
      <4>1. \A a, b \in Nat : b > 0 => a \div b \in Int
        BY Quotient
      <4> QED BY <3>2, <3>3, <4>1
    <3> QED BY <3>1, <3>4 DEF AdjustedPct, Above, Below
  <2> QED BY <1>1, <2>1, <2>2 DEF FillMovesCap
<1>3. fillCount' = fillCount + 1 /\ recentPnL' = recentPnL + pnl /\ winCount' = IF pnl > 0 THEN winCount + 1 ELSE winCount
  BY DEF RecordFill
<1>4. AdjustedPct = Adjusted(recentPnL, winCount, fillCount)
  BY <1>1, <1>2, Adjusts
<1>5. AdjustedPct' = Adjusted(recentPnL', winCount', fillCount')
  BY <1>1, <1>2, <1>3 DEF AdjustedPct, Adjusted
<1>6. CASE pnl > 0
  <2>1. winCount * (fillCount + 1) <= (winCount + 1) * fillCount
    <3>1. winCount * (fillCount + 1) = winCount * fillCount + winCount
          /\ (winCount + 1) * fillCount = winCount * fillCount + fillCount
      BY <1>1
    <3>2. winCount * fillCount \in Nat
      BY <1>1, ProductNat
    <3> QED BY <1>1, <3>1, <3>2
  <2> DEFINE w == winCount + 1
             f == fillCount + 1
             p == recentPnL + pnl
  <2>2. w \in Nat /\ f \in Nat /\ p \in Int /\ f > 0 /\ w <= f /\ recentPnL <= p /\ fillCount > 0
    BY <1>1, <1>2, <1>6
  <2>3. /\ 100 * winCount > 60 * fillCount => 100 * w > 60 * f
        /\ 100 * winCount >= 40 * fillCount => 100 * w >= 40 * f
        /\ 100 * winCount >= 20 * fillCount => 100 * w >= 20 * f
    BY <1>1
  <2>4. winCount' = w /\ fillCount' = f /\ recentPnL' = p
    BY <1>3, <1>6
  <2> HIDE DEF w, f, p
  <2>5. winCount * f <= w * fillCount
    BY <2>1 DEF w, f
  <2>6. Adjusted(recentPnL, winCount, fillCount) <= Adjusted(p, w, f)
    BY <1>1, <2>2, <2>3, <2>5, BetterRecord
  <2> QED BY <1>4, <1>5, <1>6, <2>4, <2>6
<1>7. CASE ~(pnl > 0)
  <2> DEFINE f == fillCount + 1
             p == recentPnL + pnl
  <2>1. f \in Nat /\ p \in Int /\ f > 0 /\ winCount <= f /\ p <= recentPnL /\ fillCount > 0
    BY <1>1, <1>2, <1>7
  <2>2. /\ 100 * winCount > 60 * f => 100 * winCount > 60 * fillCount
        /\ 100 * winCount >= 40 * f => 100 * winCount >= 40 * fillCount
        /\ 100 * winCount >= 20 * f => 100 * winCount >= 20 * fillCount
    BY <1>1
  <2>3. winCount * fillCount <= winCount * f
    <3>1. winCount * f = winCount * fillCount + winCount
      BY <1>1
    <3>2. winCount * fillCount \in Nat
      BY <1>1, ProductNat
    <3> QED BY <1>1, <3>1, <3>2
  <2>4. winCount' = winCount /\ fillCount' = f /\ recentPnL' = p
    BY <1>3, <1>7
  <2> HIDE DEF f, p
  <2>5. Adjusted(p, winCount, f) <= Adjusted(recentPnL, winCount, fillCount)
    BY <1>1, <2>1, <2>2, <2>3, BetterRecord
  <2> QED BY <1>4, <1>5, <1>7, <2>4, <2>5
<1> QED BY <1>6, <1>7

\* Whatever the fills earn, a fill that earned never shrinks the cap of its strategy and
\* one that did not never grows it, at every boundary of the piecewise multiplier
\* (AdjustedCap and RecordFill, src/internal/allocator/dynamic.go).
THEOREM FillsMoveCapHolds == DynamicSpec => FillsMoveCapTheirWay
<1>1. DynamicInit => DynamicTypeOK
  BY DynamicAssumption DEF DynamicInit, DynamicTypeOK
<1>2. DynamicTypeOK /\ [DynamicNext]_dynamicVars => DynamicTypeOK'
  BY DynamicTyped
<1>3. DynamicTypeOK /\ [DynamicNext]_dynamicVars => [FillMovesCap]_dynamicVars
  <2>1. SUFFICES ASSUME DynamicTypeOK, DynamicNext PROVE FillMovesCap
    OBVIOUS
  <2>2. CASE DecayRecentPnL \/ DynamicRestart
    <3>1. ~(fillCount >= 5 /\ fillCount' > fillCount)
      BY <2>1, <2>2, DynamicAssumption DEF DecayRecentPnL, DynamicRestart, DynamicTypeOK
    <3> QED BY <3>1 DEF FillMovesCap
  <2> QED BY <2>1, <2>2, FillMoves DEF DynamicNext
<1> QED BY <1>1, <1>2, <1>3, PTL DEF DynamicSpec, FillsMoveCapTheirWay, FillMovesCap
=============================================================================
