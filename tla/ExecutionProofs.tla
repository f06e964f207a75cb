-------------------------- MODULE ExecutionProofs --------------------------
(***************************************************************************)
(* What LiveExecutor promises of an intent it trades, for all venues,      *)
(* intents, retries and limits: what it records was traded, a first leg is *)
(* not left alone, and the daily cap holds but for what least orders add.  *)
(* What the registry promises of the clients it trades with: one per       *)
(* venue.  What the ledger promises of its record: a fill counts once, and *)
(* the history of a market joins.  And what the tax report made of it      *)
(* promises: the rules in their order, and every pound once.               *)
(***************************************************************************)
EXTENDS LiveExecutor, ExchangeRegistry, Ledger, TaxMatching, Sums

AtLeg == pc \in {"leg", "place", "poll", "judge"}
AtOrder == pc \in {"poll", "judge"}

\* Where Execute is says what it has: a leg left to send, a leg to unwind, an order.
Places ==
  /\ intent \in Intents \cup {<<>>}
  /\ AtLeg => Len(results) < Len(legs)
  /\ pc = "unwind" => Len(results) >= 1
  /\ AtOrder => attempt <= MaxRetriesPerLeg /\ final.id \in DOMAIN orders

Typed == TypeOK /\ Places

-----------------------------------------------------------------------------

LEMMA AppendFacts ==
    ASSUME NEW S, NEW s \in Seq(S), NEW x \in S
    PROVE  /\ Append(s, x) \in Seq(S) /\ Len(Append(s, x)) = Len(s) + 1
           /\ DOMAIN s = 1..Len(s) /\ DOMAIN Append(s, x) = 1..(Len(s) + 1) /\ Len(s) \in Nat
           /\ \A k \in DOMAIN s : Append(s, x)[k] = s[k]
           /\ Append(s, x)[Len(s) + 1] = x
  OBVIOUS

LEMMA LegsFacts ==
    ASSUME TypeOK, Places
    PROVE  /\ intent \in Seq(Leg) /\ legs \in Seq(Leg)
           /\ Len(legs) \in 0..2 /\ Len(legs) = Len(intent) /\ DOMAIN legs = 1..Len(legs)
<1>1. intent \in Seq(Leg) /\ Len(intent) \in 0..2
  BY LiveAssumption DEF Places, TypeOK
<1>2. CASE legs = intent
  BY <1>1, <1>2
<1>3. CASE legs = Reverse(intent)
  <2>1. Reverse(intent) = [j \in 1..Len(intent) |-> intent[(Len(intent) - j) + 1]]
    BY DEF Reverse
  <2>2. \A j \in 1..Len(intent) : intent[(Len(intent) - j) + 1] \in Leg
    BY <1>1
  <2>3. legs \in [1..Len(intent) -> Leg]
    BY <1>3, <2>1, <2>2
  <2>4. legs \in Seq(Leg) /\ Len(legs) = Len(intent)
    BY <1>1, <2>3
  <2> QED BY <1>1, <2>4
<1> QED BY <1>2, <1>3 DEF TypeOK

\* The current leg, while there is one.
LEMMA CurrentLeg ==
    ASSUME TypeOK, Places, AtLeg
    PROVE  /\ i \in 1..2 /\ i \in DOMAIN legs /\ leg \in Leg
           /\ i > 1 => results[i - 1] \in Result
           /\ TargetNotional \in Nat
<1>1. results \in Seq(Result) /\ Len(results) < Len(legs)
  BY DEF TypeOK, Places
<1>2. i \in 1..2 /\ i \in DOMAIN legs /\ legs[i] \in Leg
  <2> DEFINE n == Len(results)
  <2>1. n \in Nat /\ n < Len(legs) /\ i = n + 1
    BY <1>1 DEF i
  <2> HIDE DEF n
  <2> DEFINE m == Len(legs)
  <2>3. m \in 0..2 /\ n < m
    BY <2>1, LegsFacts
  <2> HIDE DEF m
  <2>4. n + 1 \in 1..2 /\ n + 1 \in 1..m
    BY <2>1, <2>3
  <2>2. i \in 1..2 /\ i \in 1..Len(legs)
    BY <2>1, <2>4 DEF m
  <2> QED BY <2>2, LegsFacts
<1>3. i > 1 => results[i - 1] \in Result
  BY <1>1 DEF i
<1> HIDE DEF i
<1>4. leg \in Leg
  BY <1>2 DEF leg
<1>5. TargetNotional \in Nat
  BY <1>3, <1>4 DEF TargetNotional, Result, Leg
<1> QED BY <1>2, <1>3, <1>4, <1>5

LEMMA ResultAt ==
    ASSUME TypeOK
    PROVE  \A l \in DOMAIN results :
             results[l] \in Result /\ results[l].qty \in Nat /\ results[l].usd \in Nat
<1>1. \A l \in DOMAIN results : results[l] \in Result
  BY DEF TypeOK
<1> QED BY <1>1 DEF Result

LEMMA StatusType ==
    ASSUME NEW o \in Order, o.filled <= o.qty, NEW id \in Nat
    PROVE  View(o, id) \in [status : Statuses, filled : Nat, id : Nat]
<1>1. o.filled \in Nat /\ o.qty \in Nat /\ o.open \in BOOLEAN
  BY DEF Order
<1>2. Status(o) \in Statuses
  BY <1>1 DEF Status, Statuses
<1> QED BY <1>1, <1>2 DEF View

\* Later orders: those there were, of the same legs and quantities, with no less traded.
Grown(s, t) ==
  \A k \in DOMAIN s : /\ k \in DOMAIN t /\ t[k].leg = s[k].leg /\ t[k].qty = s[k].qty
                      /\ t[k].reduceOnly = s[k].reduceOnly /\ s[k].filled <= t[k].filled

Sound(s) == s \in Seq(Order) /\ \A k \in DOMAIN s : s[k].filled <= s[k].qty

LEMMA OrderAt ==
    ASSUME NEW s, Sound(s), NEW k \in DOMAIN s
    PROVE  s[k] \in Order /\ s[k].filled \in Nat /\ s[k].filled <= s[k].qty
<1>1. s[k] \in Order /\ s[k].filled <= s[k].qty
  BY DEF Sound
<1> QED BY <1>1 DEF Order

LEMMA GrownSame == ASSUME NEW s, Sound(s) PROVE Grown(s, s)
<1>1. \A k \in DOMAIN s : s[k] \in Order
  BY DEF Sound
<1> QED BY <1>1 DEF Grown, Order

\* What a venue does to an order, to trade more of it or to close it.
LEMMA OrderReplaced ==
    ASSUME NEW s, Sound(s), NEW k \in DOMAIN s, NEW o \in Order, o.filled <= o.qty,
           o.leg = s[k].leg, o.qty = s[k].qty, o.reduceOnly = s[k].reduceOnly, s[k].filled <= o.filled
    PROVE  /\ Sound([s EXCEPT ![k] = o]) /\ Grown(s, [s EXCEPT ![k] = o])
           /\ DOMAIN [s EXCEPT ![k] = o] = DOMAIN s
<1> DEFINE t == [s EXCEPT ![k] = o]
<1>1. s \in Seq(Order) /\ \A j \in DOMAIN s : s[j].filled <= s[j].qty /\ s[j] \in Order
  BY DEF Sound
<1>2. t \in Seq(Order) /\ DOMAIN t = DOMAIN s
  BY <1>1
<1>3. \A j \in DOMAIN s : t[j] = IF j = k THEN o ELSE s[j]
  OBVIOUS
<1>6. \A j \in DOMAIN s : s[j].filled \in Nat
  BY <1>1 DEF Order
<1> HIDE DEF t
<1>4. Sound(t)
  BY <1>1, <1>2, <1>3 DEF Sound
<1>5. Grown(s, t)
  BY <1>2, <1>3, <1>6 DEF Grown
<1> QED BY <1>2, <1>4, <1>5 DEF t

TradedOrder(o, f, b) == [o EXCEPT !.filled = f, !.open = b]
ClosedOrder(o) == [o EXCEPT !.open = FALSE]

LEMMA OrderFields == ASSUME NEW o \in Order
    PROVE  /\ o = [leg |-> o.leg, venue |-> o.venue, side |-> o.side, qty |-> o.qty, filled |-> o.filled,
                   open |-> o.open, reduceOnly |-> o.reduceOnly]
           /\ o.leg \in 1..2 /\ o.venue \in Venues /\ o.side \in {"BUY", "SELL"} /\ o.qty \in Nat
           /\ o.filled \in Nat /\ o.reduceOnly \in BOOLEAN
  BY DEF Order

LEMMA TradedFields ==
    ASSUME NEW o \in Order, NEW f \in Nat, NEW b \in BOOLEAN, NEW p, p = TradedOrder(o, f, b)
    PROVE  /\ p \in Order /\ p.filled = f
           /\ p.qty = o.qty /\ p.leg = o.leg /\ p.reduceOnly = o.reduceOnly
  BY OrderFields DEF Order, TradedOrder

LEMMA ClosedFields ==
    ASSUME NEW o \in Order, NEW p, p = ClosedOrder(o)
    PROVE  /\ p \in Order /\ p.filled = o.filled
           /\ p.qty = o.qty /\ p.leg = o.leg /\ p.reduceOnly = o.reduceOnly
  BY OrderFields DEF Order, ClosedOrder

LEMMA OrderUpdated ==
    ASSUME NEW s, Sound(s), NEW k \in DOMAIN s,
           NEW f \in Nat, s[k].filled <= f, f <= s[k].qty, NEW b \in BOOLEAN
    PROVE  LET t == [s EXCEPT ![k].filled = f, ![k].open = b]
           IN  Sound(t) /\ Grown(s, t) /\ DOMAIN t = DOMAIN s
<1> DEFINE p == s[k]
           o == TradedOrder(p, f, b)
<1>1. p \in Order
  BY DEF Sound
<1>2. [s EXCEPT ![k].filled = f, ![k].open = b] = [s EXCEPT ![k] = o]
  BY DEF TradedOrder
<1> HIDE DEF p
<1>3. o \in Order /\ o.filled = f /\ o.qty = p.qty /\ o.leg = p.leg /\ o.reduceOnly = p.reduceOnly
  BY <1>1, TradedFields
<1> HIDE DEF o
<1>4. o.filled <= o.qty /\ o.leg = s[k].leg /\ o.qty = s[k].qty /\ o.reduceOnly = s[k].reduceOnly
      /\ s[k].filled <= o.filled
  BY <1>3 DEF p
<1> QED BY <1>2, <1>3, <1>4, OrderReplaced

LEMMA OrderClosed ==
    ASSUME NEW s, Sound(s), NEW k \in DOMAIN s
    PROVE  LET t == [s EXCEPT ![k].open = FALSE]
           IN  Sound(t) /\ Grown(s, t) /\ DOMAIN t = DOMAIN s
<1> DEFINE p == s[k]
           o == ClosedOrder(p)
<1>1. p \in Order /\ p.filled <= p.qty
  BY DEF Sound
<1>2. [s EXCEPT ![k].open = FALSE] = [s EXCEPT ![k] = o]
  BY DEF ClosedOrder
<1> HIDE DEF p
<1>3. o \in Order /\ o.filled = p.filled /\ o.qty = p.qty /\ o.leg = p.leg /\ o.reduceOnly = p.reduceOnly
  BY <1>1, ClosedFields
<1> HIDE DEF o
<1>4. o.filled <= o.qty /\ o.leg = s[k].leg /\ o.qty = s[k].qty /\ o.reduceOnly = s[k].reduceOnly
      /\ s[k].filled <= o.filled
  <2>1. p.filled \in Nat
    BY <1>1 DEF Order
  <2> QED BY <1>1, <1>3, <2>1 DEF p
<1> QED BY <1>2, <1>3, <1>4, OrderReplaced

LEMMA OrderAdded ==
    ASSUME NEW s, Sound(s), NEW o \in Order, o.filled <= o.qty
    PROVE  /\ Sound(Append(s, o)) /\ Grown(s, Append(s, o))
           /\ Len(s) + 1 \in DOMAIN Append(s, o) /\ Append(s, o)[Len(s) + 1] = o
<1> DEFINE t == Append(s, o)
<1>1. s \in Seq(Order) /\ \A k \in DOMAIN s : s[k].filled <= s[k].qty /\ s[k] \in Order
  BY DEF Sound
<1>2. /\ t \in Seq(Order) /\ DOMAIN s = 1..Len(s) /\ DOMAIN t = 1..(Len(s) + 1) /\ Len(s) \in Nat
      /\ \A k \in DOMAIN s : t[k] = s[k]
      /\ t[Len(s) + 1] = o
  BY <1>1, AppendFacts
<1> HIDE DEF t
<1>3. Sound(t)
  BY <1>1, <1>2 DEF Sound
<1>4. Grown(s, t)
  BY <1>1, <1>2 DEF Grown, Order
<1> QED BY <1>2, <1>3, <1>4 DEF t

LEMMA NewOrderType ==
    ASSUME TypeOK, Places, AtLeg, NEW f \in 0..qty
    PROVE  /\ NewOrder(f) \in Order
           /\ NewOrder(f).leg = i /\ ~NewOrder(f).reduceOnly
           /\ NewOrder(f).filled = f /\ NewOrder(f).qty = qty /\ NewOrder(f).filled <= NewOrder(f).qty
<1>1. i \in 1..2 /\ leg \in Leg
  BY CurrentLeg
<1>2. qty \in Nat /\ f \in Nat
  BY DEF TypeOK
<1>3. (Limit /\ f < qty) \in BOOLEAN
  OBVIOUS
<1> DEFINE open == Limit /\ f < qty
<1>4. NewOrder(f) = [leg |-> i, venue |-> leg.venue, side |-> leg.action, qty |-> qty,
                     filled |-> f, open |-> open, reduceOnly |-> FALSE]
  BY DEF NewOrder
<1>5. open \in BOOLEAN
  BY <1>3
<1> HIDE DEF open, i, leg
<1>6. NewOrder(f) \in Order
  BY <1>1, <1>2, <1>4, <1>5 DEF Order, Leg
<1> QED BY <1>2, <1>4, <1>6

LEMMA UnwindOrderType ==
    ASSUME TypeOK, Places, pc = "unwind", NEW f \in 0..results[i - 1].qty
    PROVE  /\ UnwindOrder(f) \in Order
           /\ UnwindOrder(f).filled <= UnwindOrder(f).qty
           /\ UnwindOrder(f).leg = Len(results) /\ UnwindOrder(f).reduceOnly
<1> DEFINE l == Len(results)
<1>1. /\ results \in Seq(Result) /\ l \in Nat /\ l >= 1 /\ l <= Len(legs)
      /\ i - 1 = l /\ l \in DOMAIN results
  BY DEF i, TypeOK, Places
<1>2. l \in 1..2 /\ l \in DOMAIN legs /\ legs[l] \in Leg /\ results[l] \in Result
  <2> HIDE DEF l
  <2>1. l \in 1..2 /\ l \in 1..Len(legs)
    BY <1>1, LegsFacts
  <2> QED BY <1>1, <2>1, LegsFacts
<1>7. results[l].qty \in Nat /\ legs[l].venue \in Venues
  BY <1>2 DEF Result, Leg
<1>3. UnwindSide \in {"BUY", "SELL"}
  BY DEF UnwindSide, Opposite
<1>4. UnwindOrder(f) = [leg |-> l, venue |-> legs[l].venue, side |-> UnwindSide,
                        qty |-> results[l].qty, filled |-> f, open |-> FALSE, reduceOnly |-> TRUE]
  BY <1>1 DEF UnwindOrder
<1>5. f \in Nat /\ f <= results[l].qty
  BY <1>1, <1>7
<1> HIDE DEF l
<1>6. UnwindOrder(f) \in Order
  BY <1>2, <1>3, <1>4, <1>5, <1>7 DEF Order
<1> QED BY <1>4, <1>5, <1>6 DEF l

-----------------------------------------------------------------------------
(* Types and places.                                                        *)

LEMMA InitTyped == ASSUME Init PROVE Typed
<1>1. legs \in {intent, Reverse(intent)} /\ intent \in Seq(Leg)
  BY DEF Init
<1>2. final \in [status : Statuses, filled : Nat, id : Nat]
  BY DEF Init, Nothing, Statuses
<1>3. daily \in [0..MaxTime -> Nat]
  BY DEF Init, NoFills
<1> QED BY <1>1, <1>2, <1>3, LiveAssumption DEF Init, Typed, TypeOK, Places, AtLeg, AtOrder

LEMMA FilledNotionalType ==
    ASSUME Typed, AtLeg
    PROVE  FilledNotional \in Nat /\ final.filled \in Nat
  BY CurrentLeg DEF Typed, TypeOK, FilledNotional

\* What the recording of a fill changes.
LEMMA RecordTyped ==
    ASSUME Typed, AtLeg, RecordFill
    PROVE  /\ results' \in Seq(Result) /\ Len(results') = Len(results) + 1
           /\ DOMAIN results' = DOMAIN results \cup {i} /\ i \notin DOMAIN results
           /\ \A l \in DOMAIN results : results'[l] = results[l]
           /\ results'[i].qty = final.filled /\ results'[i].usd = FilledNotional
           /\ daily' \in [0..MaxTime -> Nat] /\ events' \subseteq Events
           /\ pc' \in {"idle", "leg"} /\ Len(results') <= Len(legs)
           /\ pc' = "leg" => Len(results') < Len(legs)
           /\ attempt' = attempt
<1> DEFINE r == [qty |-> final.filled, usd |-> FilledNotional, partial |-> Partial, ts |-> now]
<1>1. /\ results \in Seq(Result) /\ now \in 0..MaxTime /\ events \subseteq Events
      /\ daily \in [0..MaxTime -> Nat] /\ Len(results) < Len(legs)
  BY DEF Typed, TypeOK, Places
<1>2. FilledNotional \in Nat /\ final.filled \in Nat
  BY FilledNotionalType
<1>3. Partial \in BOOLEAN
  BY DEF Partial
<1>4. r \in Result
  BY <1>1, <1>2, <1>3, LiveAssumption DEF Result
<1>5. results' = Append(results, r) /\ i = Len(results) + 1
  BY DEF RecordFill, i
<1> HIDE DEF r
<1>6. /\ results' \in Seq(Result) /\ Len(results') = Len(results) + 1 /\ Len(results) \in Nat
      /\ DOMAIN results = 1..Len(results) /\ DOMAIN results' = 1..(Len(results) + 1)
      /\ \A l \in DOMAIN results : results'[l] = results[l]
      /\ results'[i] = r
  BY <1>1, <1>4, <1>5, AppendFacts
<1>7. DOMAIN results' = DOMAIN results \cup {i} /\ i \notin DOMAIN results
  BY <1>5, <1>6
<1>8. i \in 1..2 /\ i <= Len(legs) /\ Len(legs) \in Nat
  BY CurrentLeg, LegsFacts DEF Typed
<1>9. daily' \in [0..MaxTime -> Nat]
  BY <1>1, <1>2 DEF RecordFill
<1>10. events' \subseteq Events
  BY <1>1, <1>8 DEF RecordFill, Events
<1>11. pc' \in {"idle", "leg"} /\ (pc' = "leg" => i # Len(legs)) /\ attempt' = attempt
  BY DEF RecordFill
<1>12. Len(results') = i
  BY <1>5, <1>6
<1>13. Len(results') <= Len(legs) /\ (pc' = "leg" => Len(results') < Len(legs))
  BY <1>8, <1>11, <1>12
<1>14. results'[i].qty = final.filled /\ results'[i].usd = FilledNotional
  BY <1>6 DEF r
<1> QED BY <1>6, <1>7, <1>9, <1>10, <1>11, <1>13, <1>14

LEMMA GiveUpTyped ==
    ASSUME Typed, AtLeg, NEW type \in {"ORDER_REJECTED", "HEDGE_DRIFT"}, GiveUp(type)
    PROVE  Typed'
<1>1. i \in 1..2 /\ i = Len(results) + 1 /\ Len(results) \in Nat
  BY CurrentLeg DEF Typed, TypeOK, i
<1>2. events' \subseteq Events
  BY <1>1 DEF GiveUp, Events, Typed, TypeOK
<1>3. pc' \in {"idle", "unwind"} /\ (pc' = "unwind" => Len(results) >= 1)
  BY <1>1 DEF GiveUp
<1> QED BY <1>2, <1>3 DEF GiveUp, Typed, TypeOK, Places, AtLeg, AtOrder

LEMMA RecentType ==
    ASSUME Typed PROVE Recent \in [0..MaxTime -> Nat]
  BY DEF Typed, TypeOK, Recent

\* Only a new intent and a restart forget the orders; every other step adds to them.
LEMMA OrdersStep ==
    ASSUME Typed, [Next]_vars
    PROVE  Sound(orders') /\ (Grown(orders, orders') \/ (orders' = <<>> /\ results' = <<>>))
<1>1. Sound(orders) /\ Grown(orders, orders)
  BY GrownSame DEF Sound, Typed, TypeOK
<1>2. ASSUME NEW f \in 0..qty, AtLeg, orders' = Append(orders, NewOrder(f))
      PROVE  Sound(orders') /\ Grown(orders, orders')
  <2>1. NewOrder(f) \in Order /\ NewOrder(f).filled <= NewOrder(f).qty
    BY <1>2, NewOrderType DEF Typed
  <2> QED BY <1>1, <1>2, <2>1, OrderAdded
<1>3. CASE PlaceOrder
  BY <1>2, <1>3 DEF PlaceOrder, AtLeg
<1>4. CASE PlaceOrderError
  BY <1>1, <1>2, <1>4 DEF PlaceOrderError, AtLeg
<1>5. CASE CancelAndJudge
  <2>1. final.id \in DOMAIN orders
    BY <1>5 DEF CancelAndJudge, Typed, Places, AtOrder
  <2> QED BY <1>1, <1>5, <2>1, OrderClosed DEF CancelAndJudge, Cancel
<1>6. CASE EmergencyUnwind
  <2>1. ASSUME NEW f \in 0..results[i - 1].qty, orders' = Append(orders, UnwindOrder(f))
        PROVE  Sound(orders') /\ Grown(orders, orders')
    <3>1. UnwindOrder(f) \in Order /\ UnwindOrder(f).filled <= UnwindOrder(f).qty
      BY <1>6, UnwindOrderType DEF EmergencyUnwind, Typed
    <3> QED BY <1>1, <2>1, <3>1, OrderAdded
  <2> QED BY <1>1, <1>6, <2>1 DEF EmergencyUnwind
<1>7. ASSUME NEW k \in DOMAIN orders, Fill(k) PROVE Sound(orders') /\ Grown(orders, orders')
  <2>1. PICK f \in (orders[k].filled + 1)..orders[k].qty :
               orders' = [orders EXCEPT ![k].filled = f, ![k].open = f < orders[k].qty]
    BY <1>7 DEF Fill
  <2>2. orders[k] \in Order
    BY <1>1 DEF Sound
  <2> DEFINE b == f < orders[k].qty
             low == orders[k].filled
  <2>3. f \in Nat /\ low <= f /\ f <= orders[k].qty /\ b \in BOOLEAN
    <3>1. low \in Nat /\ orders[k].qty \in Nat
      BY <2>2 DEF Order
    <3>2. f \in (low + 1)..orders[k].qty
      OBVIOUS
    <3> HIDE DEF low
    <3> QED BY <3>1, <3>2
  <2>4. orders' = [orders EXCEPT ![k].filled = f, ![k].open = b]
    BY <2>1
  <2> HIDE DEF b
  <2> QED BY <1>1, <2>3, <2>4, OrderUpdated
<1>8. ASSUME NEW k \in DOMAIN orders, VenueCancels(k) PROVE Sound(orders') /\ Grown(orders, orders')
  BY <1>1, <1>8, OrderClosed DEF VenueCancels
<1>9. ASSUME NEW in \in Intents, NEW ttl \in 0..TTL, Execute(in, ttl)
      PROVE  Sound(orders') /\ orders' = <<>> /\ results' = <<>>
  BY <1>9 DEF Execute, Sound
<1>10. CASE Restart
  BY <1>10 DEF Restart, Sound
<1>11. \/ UNCHANGED orders \/ PlaceOrder \/ PlaceOrderError \/ CancelAndJudge \/ EmergencyUnwind \/ Restart
       \/ \E in \in Intents, ttl \in 0..TTL : Execute(in, ttl)
       \/ \E k \in DOMAIN orders : Fill(k) \/ VenueCancels(k)
  BY DEF Next, Step, vars, ExpiredBeforeLeg, HedgeDrift, NoClient, SkipSmallLeg, StartLeg, LegFails,
         GiveUp, Poll, Accept, Tick, Refuse
<1> QED BY <1>1, <1>3, <1>4, <1>5, <1>6, <1>7, <1>8, <1>9, <1>10, <1>11

LEMMA StepTyped ==
    ASSUME Typed, [Next]_vars PROVE Typed'
<1>0. orders' \in Seq(Order) /\ \A k \in DOMAIN orders' : orders'[k].filled <= orders'[k].qty
  BY OrdersStep DEF Sound
<1>1. ASSUME NEW in \in Intents, NEW ttl \in 0..TTL, Execute(in, ttl) PROVE Typed'
  <2>1. in \in Seq(Leg) /\ Len(in) \in 1..2
    BY LiveAssumption
  <2>2. expires' \in 0..(MaxTime + TTL)
    <3>1. expires' = now + ttl /\ now \in 0..MaxTime
      BY <1>1 DEF Execute, Typed, TypeOK
    <3>2. MaxTime \in Nat /\ TTL \in Nat
      BY LiveAssumption
    <3> QED BY <3>1, <3>2
  <2>3. /\ final' \in [status : Statuses, filled : Nat, id : Nat] /\ daily' \in [0..MaxTime -> Nat]
        /\ attempt' = 0 /\ qty' = 0 /\ events' = {} /\ pc' = "leg"
    BY <1>1, RecentType DEF Execute, Nothing, Statuses
  <2>4. /\ intent' = in /\ legs' \in {in, Reverse(in)} /\ results' = <<>> /\ orders' = <<>>
        /\ now' = now
    BY <1>1 DEF Execute
  <2>5. intent' \in Seq(Leg) /\ legs' \in {intent', Reverse(intent')} /\ Len(legs') \in 1..2
    <3>1. Len(Reverse(in)) = Len(in)
      BY <2>1 DEF Reverse
    <3> QED BY <2>1, <2>4, <3>1
  <2>6. results' \in Seq(Result) /\ Len(results') = 0 /\ orders' \in Seq(Order) /\ DOMAIN orders' = {}
    BY <2>4
  <2>7. attempt' \in 0..(MaxRetriesPerLeg + 1) /\ qty' \in Nat /\ events' \subseteq Events
    BY <2>3, LiveAssumption
  <2>8. TypeOK'
    BY <2>2, <2>3, <2>4, <2>5, <2>6, <2>7 DEF TypeOK, Typed
  <2>9. Places'
    <3>1. Len(results') < Len(legs')
      BY <2>5, <2>6
    <3> QED BY <2>3, <2>4, <3>1 DEF Places, AtLeg, AtOrder
  <2> QED BY <2>8, <2>9 DEF Typed
<1>2. ASSUME NEW in \in Intents, Refuse(in) PROVE Typed'
  BY <1>2, RecentType DEF Refuse, Typed, TypeOK, Places, AtLeg, AtOrder
<1>3. CASE ExpiredBeforeLeg
  BY <1>3, GiveUpTyped DEF ExpiredBeforeLeg, AtLeg
<1>4. CASE HedgeDrift
  BY <1>4, GiveUpTyped DEF HedgeDrift, AtLeg
<1>5. CASE NoClient
  BY <1>5, GiveUpTyped DEF NoClient, AtLeg
<1>6. CASE SkipSmallLeg
  BY <1>6 DEF SkipSmallLeg, Typed, TypeOK, Places, AtLeg, AtOrder
<1>7. CASE StartLeg
  <2>1. leg \in Leg /\ TargetNotional \in Nat
    BY <1>7, CurrentLeg DEF StartLeg, AtLeg, Typed
  <2>2. LotSize[leg.venue] \in Nat \ {0} /\ MinQty[leg.venue] \in Nat
    BY <2>1, LiveAssumption DEF Leg
  <2> DEFINE r == Rounded(TargetNotional, leg.venue)
  <2>3. r \in Nat
    BY <2>1, <2>2 DEF Rounded
  <2> HIDE DEF r
  <2>4. qty' = IF r < MinQty[leg.venue] THEN MinQty[leg.venue] ELSE r
    BY <1>7 DEF StartLeg, r
  <2>5. qty' \in Nat
    BY <2>2, <2>3, <2>4
  <2>6. attempt' \in 0..(MaxRetriesPerLeg + 1)
    BY <1>7, LiveAssumption DEF StartLeg
  <2>7. UNCHANGED <<now, intent, legs, expires, final, results, events, daily, orders>>
        /\ pc = "leg" /\ pc' = "place"
    BY <1>7 DEF StartLeg
  <2> QED BY <2>5, <2>6, <2>7 DEF Typed, TypeOK, Places, AtLeg, AtOrder
<1>8. CASE PlaceOrder
  <2>1. PICK f \in 0..qty :
          /\ orders' = Append(orders, NewOrder(f))
          /\ \/ final' = View(NewOrder(f), Len(orders) + 1)
             \/ final' = [Nothing EXCEPT !.id = Len(orders) + 1]
    BY <1>8 DEF PlaceOrder
  <2>2. /\ NewOrder(f) \in Order /\ NewOrder(f).filled <= NewOrder(f).qty
        /\ orders \in Seq(Order) /\ \A k \in DOMAIN orders : orders[k].filled <= orders[k].qty
    BY <1>8, NewOrderType DEF PlaceOrder, AtLeg, Typed, TypeOK
  <2>3. Len(orders) + 1 \in DOMAIN orders'
    BY <2>1, <2>2, AppendFacts
  <2>4. final' \in [status : Statuses, filled : Nat, id : Nat] /\ final'.id = Len(orders) + 1
    <3>1. Len(orders) + 1 \in Nat
      BY <2>2
    <3>2. View(NewOrder(f), Len(orders) + 1).id = Len(orders) + 1
      BY DEF View
    <3>3. [Nothing EXCEPT !.id = Len(orders) + 1]
            = [status |-> "New", filled |-> 0, id |-> Len(orders) + 1]
      BY DEF Nothing
    <3> QED BY <2>1, <2>2, <3>1, <3>2, <3>3, StatusType DEF Statuses
  <2>5. attempt \in Nat /\ attempt <= MaxRetriesPerLeg /\ attempt' = attempt /\ pc' = "poll"
    BY <1>8, LiveAssumption DEF PlaceOrder, RetryAllowed, Typed, TypeOK
  <2>6. UNCHANGED <<now, intent, legs, expires, attempt, qty, results, events, daily>> /\ pc = "place"
    BY <1>8 DEF PlaceOrder
  <2> QED BY <1>0, <2>3, <2>4, <2>5, <2>6 DEF Typed, TypeOK, Places, AtLeg, AtOrder
<1>9. CASE PlaceOrderError
  <2>2. attempt' \in 0..(MaxRetriesPerLeg + 1)
    <3>1. attempt' = attempt + 1 /\ (attempt = 0 \/ attempt <= MaxRetriesPerLeg)
      BY <1>9 DEF PlaceOrderError, NextAttempt, RetryAllowed
    <3>2. attempt \in Nat /\ MaxRetriesPerLeg \in Nat
      BY LiveAssumption DEF Typed, TypeOK
    <3> QED BY <3>1, <3>2
  <2>3. UNCHANGED <<now, intent, legs, expires, qty, final, results, events, daily>>
        /\ pc = "place" /\ pc' = "place"
    BY <1>9 DEF PlaceOrderError, NextAttempt
  <2> QED BY <1>0, <2>2, <2>3 DEF Typed, TypeOK, Places, AtLeg, AtOrder
<1>10. CASE LegFails
  BY <1>10, GiveUpTyped DEF LegFails, AtLeg
<1>11. CASE Poll
  <2>1. final.id \in DOMAIN orders /\ final.id \in Nat
    BY <1>11 DEF Poll, Typed, TypeOK, Places, AtOrder
  <2>2. View(orders[final.id], final.id) \in [status : Statuses, filled : Nat, id : Nat]
    BY <2>1, StatusType DEF Typed, TypeOK
  <2>3. View(orders[final.id], final.id).id = final.id
    BY DEF View
  <2>4. final' \in [status : Statuses, filled : Nat, id : Nat] /\ final'.id = final.id
    BY <1>11, <2>2, <2>3 DEF Poll, Typed, TypeOK
  <2>5. UNCHANGED <<now, intent, legs, expires, attempt, qty, results, events, daily, orders>>
        /\ pc = "poll" /\ pc' = "judge"
    BY <1>11 DEF Poll
  <2> QED BY <2>1, <2>4, <2>5 DEF Typed, TypeOK, Places, AtLeg, AtOrder
<1>12. CASE Accept
  <2>1. AtLeg /\ RecordFill
    BY <1>12 DEF Accept, AtLeg
  <2>2. UNCHANGED <<now, intent, legs, expires, qty, final, orders>>
    BY <1>12 DEF Accept
  <2> QED BY <2>1, <2>2, RecordTyped DEF Typed, TypeOK, Places, AtLeg, AtOrder
<1>13. CASE CancelAndJudge
  <2>1. DOMAIN orders' = DOMAIN orders
    <3>1. final.id \in DOMAIN orders /\ Sound(orders)
      BY <1>13 DEF CancelAndJudge, Typed, TypeOK, Places, AtOrder, Sound
    <3> QED BY <1>13, <3>1, OrderClosed DEF CancelAndJudge, Cancel
  <2>2. UNCHANGED <<now, intent, legs, expires, qty, final>> /\ AtLeg /\ AtOrder
    BY <1>13 DEF CancelAndJudge, AtLeg, AtOrder
  <2>3. CASE RecordFill
    BY <1>0, <2>1, <2>2, <2>3, RecordTyped DEF Typed, TypeOK, Places, AtLeg, AtOrder
  <2>4. CASE NextAttempt /\ UNCHANGED <<results, daily, events>>
    <3>1. attempt' \in 0..(MaxRetriesPerLeg + 1)
      BY <2>2, <2>4, LiveAssumption DEF NextAttempt, Typed, TypeOK, Places
    <3> QED BY <1>0, <2>1, <2>2, <2>4, <3>1 DEF NextAttempt, Typed, TypeOK, Places, AtLeg, AtOrder
  <2> QED BY <1>13, <2>3, <2>4 DEF CancelAndJudge
<1>14. CASE EmergencyUnwind
  <2>1. /\ pc = "unwind" /\ pc' = "idle"
        /\ UNCHANGED <<now, intent, legs, expires, attempt, qty, final, results, daily>>
    BY <1>14 DEF EmergencyUnwind
  <2>2. i - 1 \in 1..2
    <3> DEFINE n == Len(results)
               m == Len(legs)
    <3>1. n \in Nat /\ n >= 1 /\ n <= m /\ i = n + 1
      BY <2>1 DEF Typed, TypeOK, Places, i
    <3>2. m \in 0..2
      BY LegsFacts DEF Typed
    <3> HIDE DEF n, m
    <3> QED BY <3>1, <3>2
  <2>3. events' \subseteq Events
    BY <1>14, <2>2 DEF EmergencyUnwind, Events, Typed, TypeOK
  <2> QED BY <1>0, <2>1, <2>3 DEF Typed, TypeOK, Places, AtLeg, AtOrder
<1>15. ASSUME NEW k \in DOMAIN orders, Fill(k) \/ VenueCancels(k) PROVE Typed'
  <2>3. DOMAIN orders' = DOMAIN orders
    BY <1>15 DEF Fill, VenueCancels
  <2>4. UNCHANGED <<now, intent, legs, expires, attempt, qty, final, results, events, daily, pc>>
    BY <1>15 DEF Fill, VenueCancels
  <2> QED BY <1>0, <2>3, <2>4 DEF Typed, TypeOK, Places, AtLeg, AtOrder
<1>16. CASE Tick
  BY <1>16, LiveAssumption DEF Tick, Typed, TypeOK, Places, AtLeg, AtOrder
<1>17. CASE Restart
  <2>1. final' \in [status : Statuses, filled : Nat, id : Nat] /\ daily' \in [0..MaxTime -> Nat]
    BY <1>17 DEF Restart, Nothing, NoFills, Statuses
  <2>2. intent' \in Seq(Leg) /\ legs' \in {intent', Reverse(intent')} /\ intent' = <<>> /\ legs' = <<>>
    BY <1>17 DEF Restart
  <2>3. /\ results' \in Seq(Result) /\ Len(results') = 0 /\ Len(legs') = 0
        /\ orders' \in Seq(Order) /\ DOMAIN orders' = {}
    BY <1>17 DEF Restart
  <2>4. /\ UNCHANGED <<now, expires>> /\ events' = {} /\ attempt' = 0 /\ qty' = 0 /\ pc' = "idle"
    BY <1>17 DEF Restart
  <2>5. TypeOK'
    <3>1. now' \in 0..MaxTime /\ expires' \in 0..(MaxTime + TTL)
      BY <2>4 DEF Typed, TypeOK
    <3>2. attempt' \in 0..(MaxRetriesPerLeg + 1) /\ qty' \in Nat /\ events' \subseteq Events
      BY <2>4, LiveAssumption
    <3>3. Len(results') <= Len(legs') /\ \A k \in DOMAIN orders' : orders'[k].filled <= orders'[k].qty
      BY <2>3
    <3>4. pc' \in {"idle", "leg", "place", "poll", "judge", "unwind"}
      BY <2>4
    <3> QED BY <2>1, <2>2, <2>3, <3>1, <3>2, <3>3, <3>4 DEF TypeOK
  <2>6. ~AtLeg' /\ ~AtOrder' /\ pc' # "unwind"
    BY <2>4 DEF AtLeg, AtOrder
  <2>7. Places'
    BY <2>2, <2>6 DEF Places
  <2> QED BY <2>5, <2>7 DEF Typed
<1>18. CASE UNCHANGED vars
  BY <1>18 DEF vars, Typed, TypeOK, Places, AtLeg, AtOrder
<1> QED BY <1>1, <1>2, <1>3, <1>4, <1>5, <1>6, <1>7, <1>8, <1>9, <1>10, <1>11, <1>12, <1>13, <1>14,
           <1>15, <1>16, <1>17, <1>18 DEF Next, Step

\* Types, for all constants: no more legs are recorded than the intent has, no more attempts
\* made than are configured, and no venue trades more than an order asks for.
THEOREM TypeCorrect == Spec => []TypeOK
<1>1. Init => Typed
  BY InitTyped
<1>2. Typed /\ [Next]_vars => Typed'
  BY StepTyped
<1>3. Typed => TypeOK
  BY DEF Typed
<1> QED BY <1>1, <1>2, <1>3, PTL DEF Spec

-----------------------------------------------------------------------------
(* What is recorded was traded.                                             *)

\* The order that is polled and judged is the current leg's, and nothing is known to be
\* traded of it that was not.
Current ==
  AtOrder => /\ orders[final.id].leg = i /\ ~orders[final.id].reduceOnly
             /\ orders[final.id].qty = qty /\ final.filled <= orders[final.id].filled

RealInv == Typed /\ Current /\ RecordedIsReal

Backed(l, q, s) == \E k \in DOMAIN s : s[k].leg = l /\ ~s[k].reduceOnly /\ q <= s[k].filled

LEMMA BackedGrows ==
    ASSUME NEW s, NEW t, Sound(s), Sound(t), Grown(s, t), NEW l, NEW q \in Nat, Backed(l, q, s)
    PROVE  Backed(l, q, t)
<1>1. PICK k \in DOMAIN s : s[k].leg = l /\ ~s[k].reduceOnly /\ q <= s[k].filled
  BY DEF Backed
<1>2. k \in DOMAIN t /\ t[k].leg = l /\ ~t[k].reduceOnly /\ s[k].filled <= t[k].filled
  BY <1>1 DEF Grown
<1>3. s[k].filled \in Nat /\ t[k].filled \in Nat
  BY <1>1, <1>2, OrderAt
<1>4. q <= t[k].filled
  BY <1>1, <1>2, <1>3
<1> QED BY <1>2, <1>4 DEF Backed

\* The judged order backs the leg that is recorded from it.
LEMMA RecordReal ==
    ASSUME RealInv, AtOrder, RecordFill, Sound(orders'), Grown(orders, orders')
    PROVE  RecordedIsReal'
<1>1. AtLeg /\ Typed /\ Sound(orders)
  BY DEF AtLeg, AtOrder, RealInv, Typed, TypeOK, Sound
<1>2. /\ DOMAIN results' = DOMAIN results \cup {i} /\ i \notin DOMAIN results
      /\ \A l \in DOMAIN results : results'[l] = results[l]
      /\ results'[i].qty = final.filled
  BY <1>1, RecordTyped
<1>3. \A l \in DOMAIN results : results[l].qty \in Nat /\ Backed(l, results[l].qty, orders)
  BY <1>1, ResultAt DEF Typed, RealInv, RecordedIsReal, Backed
<1>4. final.filled \in Nat /\ Backed(i, final.filled, orders)
  <2>1. final.id \in DOMAIN orders /\ final.filled \in Nat
    BY <1>1 DEF Typed, TypeOK, Places
  <2> QED BY <2>1 DEF RealInv, Current, Backed
<1>5. \A l \in DOMAIN results' : Backed(l, results'[l].qty, orders')
  BY <1>1, <1>2, <1>3, <1>4, BackedGrows
<1> QED BY <1>5 DEF RecordedIsReal, Backed

LEMMA StepReal ==
    ASSUME RealInv, [Next]_vars PROVE RealInv'
<1>1. Typed /\ Typed' /\ Sound(orders) /\ Sound(orders')
  BY StepTyped, OrdersStep DEF RealInv, Typed, TypeOK, Sound
<1>2. Grown(orders, orders') \/ (orders' = <<>> /\ results' = <<>>)
  BY <1>1, OrdersStep
<1>3. \/ UNCHANGED results
      \/ RecordFill /\ AtOrder /\ pc' \in {"idle", "leg"}
      \/ results' = <<>> /\ pc' \in {"idle", "leg"}
  BY DEF Next, Step, vars, ExpiredBeforeLeg, HedgeDrift, NoClient, SkipSmallLeg, StartLeg, LegFails,
         GiveUp, PlaceOrder, PlaceOrderError, Poll, Accept, CancelAndJudge, RecordFill, AtOrder,
         EmergencyUnwind, Fill, VenueCancels, Tick, Refuse, Execute, Restart
<1>4. RecordedIsReal'
  <2>1. CASE results' = <<>>
    BY <2>1 DEF RecordedIsReal
  <2>2. CASE Grown(orders, orders') /\ UNCHANGED results
    <3>1. \A l \in DOMAIN results : results[l].qty \in Nat
      BY <1>1, ResultAt DEF Typed
    <3>2. \A l \in DOMAIN results : Backed(l, results[l].qty, orders)
      BY DEF RealInv, RecordedIsReal, Backed
    <3>3. \A l \in DOMAIN results : Backed(l, results[l].qty, orders')
      BY <1>1, <2>2, <3>1, <3>2, BackedGrows
    <3> QED BY <2>2, <3>3 DEF RecordedIsReal, Backed
  <2>3. CASE Grown(orders, orders') /\ RecordFill /\ AtOrder
    BY <1>1, <2>3, RecordReal DEF RealInv
  <2> QED BY <1>2, <1>3, <2>1, <2>2, <2>3
<1>5. Current'
  <2>1. SUFFICES ASSUME AtOrder' PROVE Current'
    BY DEF Current
  <2>2. \/ PlaceOrder \/ Poll
        \/ AtOrder /\ UNCHANGED <<qty, final, results, pc>>
    BY <2>1 DEF AtOrder, Next, Step, vars, ExpiredBeforeLeg, HedgeDrift, NoClient, SkipSmallLeg, StartLeg,
         LegFails, GiveUp, PlaceOrderError, NextAttempt, Accept, CancelAndJudge, RecordFill,
         EmergencyUnwind, Fill, VenueCancels, Tick, Refuse, Execute, Restart
  <2>3. CASE PlaceOrder
    <3>1. PICK f \in 0..qty :
            /\ orders' = Append(orders, NewOrder(f))
            /\ \/ final' = View(NewOrder(f), Len(orders) + 1)
               \/ final' = [Nothing EXCEPT !.id = Len(orders) + 1]
      BY <2>3 DEF PlaceOrder
    <3>2. UNCHANGED <<qty, results>> /\ AtLeg
      BY <2>3 DEF PlaceOrder, AtLeg
    <3>3. /\ NewOrder(f) \in Order /\ NewOrder(f).filled <= NewOrder(f).qty /\ NewOrder(f).filled = f
          /\ NewOrder(f).leg = i /\ ~NewOrder(f).reduceOnly /\ NewOrder(f).qty = qty
      BY <1>1, <3>2, NewOrderType DEF Typed
    <3>4. orders'[Len(orders) + 1] = NewOrder(f)
      BY <1>1, <3>1, <3>3, OrderAdded
    <3>5. final'.id = Len(orders) + 1 /\ final'.filled \in {0, f} /\ f >= 0
      BY <1>1, <3>1, <3>3 DEF View, Nothing, Typed, TypeOK
    <3>6. f <= f /\ 0 <= f
      BY <1>1 DEF Typed, TypeOK
    <3>7. i' = i
      BY <3>2 DEF i
    <3> QED BY <3>2, <3>3, <3>4, <3>5, <3>6, <3>7 DEF Current
  <2>4. CASE Poll
    <3>1. /\ final' = View(orders[final.id], final.id) \/ final' = final
          /\ UNCHANGED <<qty, results, orders>> /\ AtOrder
      BY <2>4 DEF Poll, AtOrder
    <3>2. final'.id = final.id /\ (final'.filled = orders[final.id].filled \/ final'.filled = final.filled)
      BY <3>1 DEF View
    <3>3. orders[final.id].filled \in Nat
      <4>1. final.id \in DOMAIN orders
        BY <1>1, <3>1 DEF Typed, Places
      <4> QED BY <1>1, <4>1, OrderAt
    <3>4. i' = i
      BY <3>1 DEF i
    <3>5. /\ orders[final.id].leg = i /\ ~orders[final.id].reduceOnly
          /\ orders[final.id].qty = qty /\ final.filled <= orders[final.id].filled
      BY <3>1 DEF RealInv, Current
    <3> QED BY <3>1, <3>2, <3>3, <3>4, <3>5 DEF Current
  <2>5. CASE AtOrder /\ UNCHANGED <<qty, final, results, pc>>
    <3>1. final.id \in DOMAIN orders /\ final'.id \in DOMAIN orders'
      BY <1>1, <2>1, <2>5 DEF Typed, Places
    <3>2. orders' # <<>>
      BY <3>1
    <3>3. Grown(orders, orders')
      BY <1>2, <3>2
    <3>4. /\ orders'[final.id].leg = orders[final.id].leg /\ orders'[final.id].qty = orders[final.id].qty
          /\ orders'[final.id].reduceOnly = orders[final.id].reduceOnly
          /\ orders[final.id].filled <= orders'[final.id].filled
      BY <3>1, <3>3 DEF Grown
    <3>5. orders[final.id].filled \in Nat /\ orders'[final.id].filled \in Nat /\ final.filled \in Nat
      <4>1. final.filled \in Nat /\ final'.id = final.id
        BY <1>1, <2>5 DEF Typed, TypeOK
      <4> QED BY <1>1, <3>1, <4>1, OrderAt
    <3>6. i' = i
      BY <2>5 DEF i
    <3>7. /\ orders[final.id].leg = i /\ ~orders[final.id].reduceOnly
          /\ orders[final.id].qty = qty /\ final.filled <= orders[final.id].filled
      BY <2>5 DEF RealInv, Current
    <3>8. final.filled <= orders'[final.id].filled
      BY <3>4, <3>5, <3>7
    <3> QED BY <2>5, <3>4, <3>6, <3>7, <3>8 DEF Current
  <2> QED BY <2>2, <2>3, <2>4, <2>5
<1> QED BY <1>1, <1>4, <1>5 DEF RealInv

\* Whatever answers are lost or late, a recorded fill, from which the hedge, the unwind and
\* the daily count are sized, is backed by an order of the leg that traded as much.
THEOREM RecordedIsRealHolds == Spec => []RecordedIsReal
<1>1. Init => RealInv
  <2>1. Init => Current /\ RecordedIsReal
    BY DEF Init, Current, AtOrder, RecordedIsReal
  <2> QED BY <2>1, InitTyped DEF RealInv
<1>2. RealInv /\ [Next]_vars => RealInv'
  BY StepReal
<1>3. RealInv => RecordedIsReal
  BY DEF RealInv
<1> QED BY <1>1, <1>2, <1>3, PTL DEF Spec

-----------------------------------------------------------------------------
(* A first leg is not left alone.                                           *)

Unwound ==
  \/ \E k \in DOMAIN orders : orders[k].reduceOnly /\ orders[k].leg = Len(results)
  \/ <<"HEDGE_FAILED", Len(results)>> \in events

AbandonedInv == Typed /\ AbandonedLegsUnwound

LEMMA StepAbandoned ==
    ASSUME AbandonedInv, [Next]_vars PROVE AbandonedInv'
<1>1. Typed /\ Typed' /\ Sound(orders) /\ Sound(orders')
  BY StepTyped, OrdersStep DEF AbandonedInv, Typed, TypeOK, Sound
<1>2. SUFFICES ASSUME pc' = "idle", Len(results') \in 1..(Len(legs') - 1)
               PROVE  Unwound' \/ BelowMin'
  BY <1>1 DEF AbandonedInv, AbandonedLegsUnwound, Unwound
<1>3. Len(results') >= 1 /\ results' # <<>>
  BY <1>2
<1>4. \/ EmergencyUnwind \/ SkipSmallLeg
      \/ \E type \in {"ORDER_REJECTED", "HEDGE_DRIFT"} : AtLeg /\ GiveUp(type)
      \/ RecordFill /\ AtLeg /\ UNCHANGED legs
      \/ pc = "idle" /\ UNCHANGED <<legs, results, events>>
  BY <1>2, <1>3 DEF AtLeg, Next, Step, vars, ExpiredBeforeLeg, HedgeDrift, NoClient, StartLeg,
       LegFails, PlaceOrder, PlaceOrderError, NextAttempt, Poll, Accept, CancelAndJudge,
       Fill, VenueCancels, Tick, Refuse, Execute, Restart
<1>5. CASE EmergencyUnwind
  <2>1. pc = "unwind" /\ UNCHANGED <<legs, results>>
    BY <1>5 DEF EmergencyUnwind
  <2>2. i - 1 = Len(results) /\ Len(results') = Len(results)
    <3>1. Len(results) \in Nat
      BY <1>1 DEF Typed, TypeOK
    <3> QED BY <2>1, <3>1 DEF i
  <2>3. CASE events' = events \cup {<<"HEDGE_FAILED", i - 1>>}
    BY <2>2, <2>3 DEF Unwound
  <2>4. ASSUME NEW f \in 0..results[i - 1].qty, orders' = Append(orders, UnwindOrder(f))
        PROVE  Unwound'
    <3>1. /\ UnwindOrder(f) \in Order /\ UnwindOrder(f).filled <= UnwindOrder(f).qty
          /\ UnwindOrder(f).leg = Len(results) /\ UnwindOrder(f).reduceOnly
      BY <1>1, <2>1, UnwindOrderType DEF Typed
    <3>2. Len(orders) + 1 \in DOMAIN orders' /\ orders'[Len(orders) + 1] = UnwindOrder(f)
      BY <1>1, <2>4, <3>1, OrderAdded
    <3> QED BY <2>2, <3>1, <3>2 DEF Unwound
  <2> QED BY <1>5, <2>3, <2>4 DEF EmergencyUnwind
<1>6. CASE SkipSmallLeg
  <2>1. BelowMin /\ UNCHANGED <<legs, results>>
    BY <1>6 DEF SkipSmallLeg
  <2> QED BY <2>1 DEF BelowMin, TargetNotional, leg, i
<1>7. ASSUME NEW type \in {"ORDER_REJECTED", "HEDGE_DRIFT"}, AtLeg, GiveUp(type) PROVE FALSE
  BY <1>1, <1>2, <1>7 DEF GiveUp, i, Typed, TypeOK
<1>8. CASE RecordFill /\ AtLeg /\ UNCHANGED legs
  <2>1. Len(results') = Len(results) + 1 /\ i = Len(legs)
    BY <1>1, <1>2, <1>8, RecordTyped DEF RecordFill
  <2>2. Len(results') = Len(legs) /\ Len(legs) \in Nat
    BY <1>1, <2>1, LegsFacts DEF i, Typed
  <2> QED BY <1>2, <1>8, <2>2
<1>9. CASE pc = "idle" /\ UNCHANGED <<legs, results, events>>
  <2>1. Unwound \/ BelowMin
    BY <1>2, <1>9 DEF AbandonedInv, AbandonedLegsUnwound, Unwound
  <2>2. CASE BelowMin
    BY <1>9, <2>2 DEF BelowMin, TargetNotional, leg, i
  <2>3. CASE Unwound
    <3>1. Grown(orders, orders')
      BY <1>1, <1>3, OrdersStep
    <3> QED BY <1>9, <2>3, <3>1 DEF Unwound, Grown
  <2> QED BY <2>1, <2>2, <2>3
<1> QED BY <1>4, <1>5, <1>6, <1>7, <1>8, <1>9

\* An intent that ends after its first leg has had that leg unwound, or has reported that it
\* could not be, or found the second leg too small: never does it end silently on one leg.
THEOREM AbandonedLegsUnwoundHolds == Spec => []AbandonedLegsUnwound
<1>1. Init => AbandonedInv
  <2>1. Init => AbandonedLegsUnwound
    BY DEF Init, AbandonedLegsUnwound
  <2> QED BY <2>1, InitTyped DEF AbandonedInv
<1>2. AbandonedInv /\ [Next]_vars => AbandonedInv'
  BY StepAbandoned
<1>3. AbandonedInv => AbandonedLegsUnwound
  BY DEF AbandonedInv
<1> QED BY <1>1, <1>2, <1>3, PTL DEF Spec

-----------------------------------------------------------------------------
(* The daily cap. The notional of an intent is added to the day's total     *)
(* before it is let through; as its legs are recorded the total grows by    *)
(* what they came to, which for each leg is at most Most.                   *)

MostOf == [k \in DOMAIN legs |-> Most(k)]
Spent == SumFunctionOnSet(MostOf, DOMAIN results)

SizedOK ==
  /\ pc \in {"place", "poll", "judge"} => qty <= Larger(TargetNotional, MinQty[leg.venue])
  /\ \A l \in DOMAIN results : results[l].usd <= Most(l)

Budget == DailyTotal + Notional(legs) <= MaxDailyNotional + Spent

BudgetInv == RealInv /\ SizedOK /\ Budget

LEMMA LargerFacts ==
    ASSUME NEW m \in Nat, NEW n \in Nat
    PROVE  Larger(m, n) \in Nat /\ m <= Larger(m, n) /\ n <= Larger(m, n)
           /\ \A u \in Nat : m <= u /\ n <= u => Larger(m, n) <= u
  BY DEF Larger

LEMMA MostFacts ==
    ASSUME Typed
    PROVE  \A k \in DOMAIN legs :
             /\ legs[k].notional \in Nat /\ MinQty[legs[k].venue] \in Nat
             /\ AtLeast(k) \in Nat /\ AtLeast(1) \in Nat /\ Most(k) \in Nat
             /\ AtLeast(1) <= Most(k) /\ AtLeast(k) <= Most(k)
             /\ legs[k].notional <= AtLeast(k) /\ MinQty[legs[k].venue] <= AtLeast(k)
<1>1. \A k \in DOMAIN legs : /\ legs[k].notional \in Nat /\ MinQty[legs[k].venue] \in Nat
                             /\ AtLeast(k) \in Nat
                             /\ legs[k].notional <= AtLeast(k) /\ MinQty[legs[k].venue] <= AtLeast(k)
  <2>1. ASSUME NEW k \in DOMAIN legs PROVE legs[k].notional \in Nat /\ MinQty[legs[k].venue] \in Nat
    <3>1. legs[k] \in Leg
      BY LegsFacts DEF Typed
    <3> QED BY <3>1, LiveAssumption DEF Leg
  <2> QED BY <2>1, LargerFacts DEF AtLeast
<1>2. ASSUME NEW k \in DOMAIN legs PROVE 1 \in DOMAIN legs
  BY LegsFacts DEF Typed
<1> QED BY <1>1, <1>2, LargerFacts DEF Most

\* What a leg is to trade is bounded by Most, even when it follows a part of the first leg.
LEMMA TargetBound ==
    ASSUME Typed, AtLeg, SizedOK
    PROVE  /\ TargetNotional \in Nat /\ MinQty[leg.venue] \in Nat /\ Most(i) \in Nat
           /\ TargetNotional <= Most(i) /\ Larger(TargetNotional, MinQty[leg.venue]) <= Most(i)
<1>1. i \in 1..2 /\ i \in DOMAIN legs /\ TargetNotional \in Nat /\ i = Len(results) + 1
      /\ results \in Seq(Result)
  BY CurrentLeg DEF Typed, TypeOK, i
<1>2. /\ leg.notional \in Nat /\ MinQty[leg.venue] \in Nat /\ Most(i) \in Nat
      /\ leg.notional <= Most(i) /\ MinQty[leg.venue] <= Most(i)
  <2>1. /\ AtLeast(i) <= Most(i) /\ leg.notional <= AtLeast(i) /\ MinQty[leg.venue] <= AtLeast(i)
        /\ leg.notional \in Nat /\ MinQty[leg.venue] \in Nat /\ Most(i) \in Nat /\ AtLeast(i) \in Nat
    BY <1>1, MostFacts DEF leg
  <2> QED BY <2>1
<1>3. TargetNotional <= Most(i)
  <2>1. CASE TargetNotional = leg.notional
    BY <1>2, <2>1
  <2>2. CASE i > 1 /\ TargetNotional = results[i - 1].usd
    <3>1. i = 2 /\ 1 \in DOMAIN results /\ 1 \in DOMAIN legs
      BY <1>1, <2>2, LegsFacts DEF Typed
    <3>2. results[1].usd <= Most(1) /\ Most(1) = AtLeast(1) /\ AtLeast(1) <= Most(2)
      BY <1>1, <3>1, MostFacts DEF SizedOK, Most, Larger
    <3>3. results[1].usd \in Nat /\ AtLeast(1) \in Nat
      BY <3>1, ResultAt, MostFacts DEF Typed
    <3>4. TargetNotional = results[1].usd
      BY <2>2, <3>1
    <3> QED BY <1>2, <3>1, <3>2, <3>3, <3>4
  <2> QED BY <2>1, <2>2 DEF TargetNotional
<1> QED BY <1>1, <1>2, <1>3, LargerFacts

\* So is what is recorded of it.
LEMMA RecordedBound ==
    ASSUME BudgetInv, AtOrder
    PROVE  FilledNotional \in Nat /\ FilledNotional <= Most(i) /\ Most(i) \in Nat
<1>1. AtLeg /\ Typed /\ Sound(orders) /\ pc \in {"place", "poll", "judge"}
  BY DEF BudgetInv, AtLeg, AtOrder, RealInv, Typed, TypeOK, Sound
<1>2. FilledNotional \in Nat /\ final.filled \in Nat
  BY <1>1, FilledNotionalType
<1>3. /\ TargetNotional \in Nat /\ MinQty[leg.venue] \in Nat /\ Most(i) \in Nat
      /\ TargetNotional <= Most(i) /\ Larger(TargetNotional, MinQty[leg.venue]) <= Most(i)
  BY <1>1, TargetBound DEF BudgetInv
<1>4. final.id \in DOMAIN orders /\ qty \in Nat
  BY <1>1 DEF Typed, TypeOK, Places
<1>5. orders[final.id].filled \in Nat /\ orders[final.id].filled <= qty /\ final.filled <= orders[final.id].filled
  BY <1>1, <1>4, OrderAt DEF BudgetInv, RealInv, Current
<1>6. qty <= Larger(TargetNotional, MinQty[leg.venue]) /\ Larger(TargetNotional, MinQty[leg.venue]) \in Nat
  BY <1>1, <1>3, LargerFacts DEF BudgetInv, SizedOK
<1>7. final.filled <= Most(i)
  BY <1>2, <1>3, <1>4, <1>5, <1>6
<1> QED BY <1>2, <1>3, <1>7 DEF FilledNotional

LEMMA RoundedDown ==
    ASSUME NEW n \in Nat, NEW v \in Venues PROVE Rounded(n, v) \in Nat /\ Rounded(n, v) <= n
<1>1. LotSize[v] \in Nat \ {0}
  BY LiveAssumption
<1> DEFINE d == LotSize[v]
<1> HIDE DEF d
<1>2. d \in Nat /\ d > 0
  BY <1>1 DEF d
<1>3. n = d * (n \div d) + (n % d) /\ n % d \in Nat /\ n \div d \in Nat
  BY <1>2
<1>4. (n \div d) * d = d * (n \div d) /\ d * (n \div d) \in Nat
  BY <1>2, <1>3
<1>5. Rounded(n, v) = (n \div d) * d
  BY DEF Rounded, d
<1> DEFINE p == d * (n \div d)
           rest == n % d
<1>6. p \in Nat /\ rest \in Nat /\ n = p + rest /\ Rounded(n, v) = p
  BY <1>3, <1>4, <1>5
<1> HIDE DEF p, rest
<1> QED BY <1>6

LEMMA StepSized ==
    ASSUME BudgetInv, [Next]_vars PROVE SizedOK'
<1>1. Typed /\ SizedOK
  BY DEF BudgetInv, RealInv
<1>2. CASE StartLeg
  <2>1. leg \in Leg /\ AtLeg /\ UNCHANGED <<legs, results>>
    BY <1>1, <1>2, CurrentLeg DEF StartLeg, AtLeg, Typed
  <2>2. TargetNotional \in Nat /\ MinQty[leg.venue] \in Nat /\ leg.venue \in Venues
    BY <1>1, <2>1, TargetBound DEF Leg
  <2> DEFINE t == TargetNotional
             m == MinQty[leg.venue]
             r == Rounded(TargetNotional, leg.venue)
  <2>3. r \in Nat /\ r <= t
    BY <2>2, RoundedDown
  <2>4. qty' = IF r < m THEN m ELSE r
    BY <1>2 DEF StartLeg
  <2>5. Larger(t, m)' = Larger(t, m)
    BY <2>1 DEF TargetNotional, leg, i
  <2>6. \A l : Most(l)' = Most(l)
    BY <2>1 DEF Most, AtLeast
  <2> HIDE DEF t, m, r
  <2>7. qty' <= Larger(t, m)
    BY <2>2, <2>3, <2>4 DEF Larger, t, m
  <2> QED BY <1>1, <2>1, <2>5, <2>6, <2>7 DEF SizedOK, t, m
<1>3. CASE RecordFill /\ AtOrder /\ UNCHANGED legs
  <2>1. /\ DOMAIN results' = DOMAIN results \cup {i} /\ i \notin DOMAIN results
        /\ \A l \in DOMAIN results : results'[l] = results[l]
        /\ results'[i].usd = FilledNotional /\ pc' \in {"idle", "leg"}
    BY <1>1, <1>3, RecordTyped DEF AtOrder, AtLeg
  <2>2. FilledNotional <= Most(i)
    BY <1>3, RecordedBound
  <2>3. \A l : Most(l)' = Most(l)
    BY <1>3 DEF Most, AtLeast
  <2> QED BY <1>1, <2>1, <2>2, <2>3 DEF SizedOK
<1>4. CASE UNCHANGED <<legs, results>> /\ (pc' \in {"place", "poll", "judge"} =>
                                             pc \in {"place", "poll", "judge"} /\ UNCHANGED qty)
  <2>1. TargetNotional' = TargetNotional /\ leg' = leg /\ \A l : Most(l)' = Most(l)
    BY <1>4 DEF TargetNotional, leg, i, Most, AtLeast
  <2> QED BY <1>1, <1>4, <2>1 DEF SizedOK, Larger
<1>5. CASE results' = <<>> /\ pc' \in {"idle", "leg"}
  BY <1>5 DEF SizedOK
<1>6. \/ StartLeg
      \/ RecordFill /\ AtOrder /\ UNCHANGED legs
      \/ UNCHANGED <<legs, results>> /\ (pc' \in {"place", "poll", "judge"} =>
                                           pc \in {"place", "poll", "judge"} /\ UNCHANGED qty)
      \/ results' = <<>> /\ pc' \in {"idle", "leg"}
  BY DEF AtOrder, Next, Step, vars, ExpiredBeforeLeg, HedgeDrift, NoClient, SkipSmallLeg, LegFails,
         GiveUp, PlaceOrder, PlaceOrderError, NextAttempt, Poll, Accept, CancelAndJudge,
         EmergencyUnwind, Fill, VenueCancels, Tick, Refuse, Execute, Restart
<1> QED BY <1>2, <1>3, <1>4, <1>5, <1>6

LEMMA WindowFacts ==
    ASSUME Typed
    PROVE  /\ IsFiniteSet(Window) /\ Window \subseteq 0..MaxTime /\ now \in Window
           /\ \A t \in Window : daily[t] \in Nat
           /\ DailyTotal \in Nat
<1>1. MaxTime \in Nat /\ Day \in Nat /\ now \in 0..MaxTime /\ daily \in [0..MaxTime -> Nat]
  BY LiveAssumption DEF Typed, TypeOK
<1>2. IsFiniteSet(0..MaxTime)
  BY <1>1, FS_Interval
<1>3. IsFiniteSet(Window) /\ Window \subseteq 0..MaxTime
  BY <1>2, FS_Subset DEF Window
<1>4. now \in Window
  BY <1>1 DEF Window
<1>5. \A t \in Window : daily[t] \in Nat
  BY <1>1, <1>3
<1>6. DailyTotal \in Nat
  BY <1>3, <1>5, SumNat DEF DailyTotal
<1> QED BY <1>3, <1>4, <1>5, <1>6

\* Both orders of the legs have the same notional.
LEMMA NotionalFacts ==
    ASSUME NEW in \in Seq(Leg), Len(in) \in 1..2
    PROVE  Notional(in) \in Nat /\ Notional(Reverse(in)) = Notional(in)
<1> DEFINE rev == Reverse(in)
           f == [k \in DOMAIN in |-> in[k].notional]
           g == [k \in DOMAIN rev |-> rev[k].notional]
<1>1. Notional(in) = SumFunctionOnSet(f, DOMAIN f) /\ Notional(rev) = SumFunctionOnSet(g, DOMAIN g)
  BY DEF Notional, SumFunction
<1>2. rev = [j \in 1..Len(in) |-> in[(Len(in) - j) + 1]] /\ DOMAIN in = 1..Len(in)
  BY DEF Reverse
<1>3. \A k \in DOMAIN in : in[k].notional \in Nat
  <2>1. \A k \in DOMAIN in : in[k] \in Leg
    OBVIOUS
  <2> QED BY <2>1 DEF Leg
<1>4. CASE Len(in) = 1
  <2>1. DOMAIN in = {1} /\ DOMAIN rev = {1} /\ rev[1] = in[1]
    BY <1>2, <1>4
  <2>2. DOMAIN f = {1} /\ DOMAIN g = {1} /\ f[1] = in[1].notional /\ g[1] = in[1].notional
    BY <2>1
  <2> HIDE DEF f, g, rev
  <2>3. in[1].notional \in Nat
    BY <1>3, <2>1
  <2>4. SumFunctionOnSet(f, {1}) = in[1].notional /\ SumFunctionOnSet(g, {1}) = in[1].notional
    BY <2>2, <2>3, SumOne
  <2> QED BY <1>1, <2>2, <2>3, <2>4 DEF rev
<1>5. CASE Len(in) = 2
  <2>1. DOMAIN in = {1, 2} /\ DOMAIN rev = {1, 2} /\ rev[1] = in[2] /\ rev[2] = in[1]
    BY <1>2, <1>5
  <2>2. /\ DOMAIN f = {1, 2} /\ f[1] = in[1].notional /\ f[2] = in[2].notional
        /\ DOMAIN g = {1, 2} /\ g[1] = in[2].notional /\ g[2] = in[1].notional
    BY <2>1
  <2> HIDE DEF f, g, rev
  <2>3. in[1].notional \in Nat /\ in[2].notional \in Nat
    BY <1>3, <2>1
  <2>4. /\ SumFunctionOnSet(f, {1, 2}) = in[1].notional + in[2].notional
        /\ SumFunctionOnSet(g, {1, 2}) = in[2].notional + in[1].notional
    BY <2>2, <2>3, SumTwo
  <2> QED BY <1>1, <2>2, <2>3, <2>4 DEF rev
<1> QED BY <1>4, <1>5

LEMMA MostSums ==
    ASSUME Typed
    PROVE  /\ IsFiniteSet(DOMAIN legs) /\ IsFiniteSet(DOMAIN results) /\ DOMAIN results \subseteq DOMAIN legs
           /\ \A k \in DOMAIN legs : MostOf[k] \in Nat /\ MostOf[k] = Most(k)
           /\ Spent \in Nat /\ Notional(legs) \in Nat
<1>1. IsFiniteSet(DOMAIN legs)
  BY LegsFacts, FS_Interval DEF Typed
<1>2. DOMAIN results \subseteq DOMAIN legs
  <2>1. Len(results) \in Nat /\ DOMAIN results = 1..Len(results) /\ Len(results) <= Len(legs)
    BY DEF Typed, TypeOK
  <2>2. Len(legs) \in Nat /\ DOMAIN legs = 1..Len(legs)
    BY LegsFacts DEF Typed
  <2> QED BY <2>1, <2>2
<1>3. IsFiniteSet(DOMAIN results)
  BY <1>1, <1>2, FS_Subset
<1>4. \A k \in DOMAIN legs : MostOf[k] \in Nat /\ MostOf[k] = Most(k)
  BY MostFacts DEF MostOf
<1>5. Spent \in Nat
  BY <1>2, <1>3, <1>4, SumNat DEF Spent
<1>6. Notional(legs) \in Nat
  <2> DEFINE f == [k \in DOMAIN legs |-> legs[k].notional]
  <2>1. Notional(legs) = SumFunctionOnSet(f, DOMAIN legs)
    BY DEF Notional, SumFunction
  <2>2. \A k \in DOMAIN legs : f[k] \in Nat
    BY MostFacts
  <2> HIDE DEF f
  <2> QED BY <1>1, <2>1, <2>2, SumNat
<1> QED BY <1>1, <1>2, <1>3, <1>4, <1>5, <1>6

LEMMA RecordBudget ==
    ASSUME BudgetInv, AtOrder, RecordFill, UNCHANGED <<now, legs>>
    PROVE  Budget'
<1>1. Typed /\ AtLeg
  BY DEF BudgetInv, RealInv, AtOrder, AtLeg
<1>2. FilledNotional \in Nat /\ FilledNotional <= Most(i) /\ Most(i) \in Nat
  BY RecordedBound
<1>3. DailyTotal' = DailyTotal + FilledNotional
  <2>1. /\ IsFiniteSet(Window) /\ Window \subseteq 0..MaxTime /\ now \in Window
        /\ \A t \in Window : daily[t] \in Nat
    BY <1>1, WindowFacts
  <2>2. daily' = [daily EXCEPT ![now] = daily[now] + FilledNotional] /\ daily \in [0..MaxTime -> Nat]
    BY <1>1 DEF RecordFill, Typed, TypeOK
  <2> DEFINE g == daily'
             W == Window
             d == FilledNotional
  <2>3. g[now] = daily[now] + d
    BY <2>1, <2>2
  <2>4. \A t \in W : daily[t] \in Int /\ g[t] \in Int /\ (t # now => g[t] = daily[t])
    BY <1>2, <2>1, <2>2
  <2>5. d \in Int /\ IsFiniteSet(W) /\ now \in W
    BY <1>2, <2>1
  <2>7. Window' = Window
    BY DEF Window
  <2> HIDE DEF g, W, d
  <2>6. SumFunctionOnSet(g, W) = SumFunctionOnSet(daily, W) + d
    BY <2>3, <2>4, <2>5, SumUpdate
  <2> QED BY <2>6, <2>7 DEF DailyTotal, g, W, d
<1>4. Spent' = Spent + Most(i)
  <2>1. DOMAIN results' = DOMAIN results \cup {i} /\ i \notin DOMAIN results
    BY <1>1, RecordTyped
  <2>2. MostOf' = MostOf
    BY DEF MostOf, Most, AtLeast
  <2>3. i \in DOMAIN legs
    BY <1>1, CurrentLeg DEF Typed
  <2>4. /\ IsFiniteSet(DOMAIN results) /\ MostOf[i] \in Int /\ MostOf[i] = Most(i)
        /\ \A k \in DOMAIN results : MostOf[k] \in Int
    BY <1>1, <2>3, MostSums
  <2>5. SumFunctionOnSet(MostOf, DOMAIN results \cup {i}) = SumFunctionOnSet(MostOf, DOMAIN results) + MostOf[i]
    BY <2>1, <2>4, SumAdd
  <2>6. Spent' = SumFunctionOnSet(MostOf, DOMAIN results \cup {i})
    BY <2>1, <2>2 DEF Spent
  <2> QED BY <2>4, <2>5, <2>6 DEF Spent
<1>5. Notional(legs)' = Notional(legs)
  OBVIOUS
<1>6. Budget /\ DailyTotal \in Nat /\ Spent \in Nat /\ Notional(legs) \in Nat /\ MaxDailyNotional \in Nat
  BY <1>1, WindowFacts, MostSums, LiveAssumption DEF BudgetInv
<1> DEFINE a == DailyTotal
           b == Spent
           c == Notional(legs)
<1>7. a + c <= MaxDailyNotional + b
  BY <1>6 DEF Budget
<1>8. a \in Nat /\ b \in Nat /\ c \in Nat /\ MaxDailyNotional \in Nat
  BY <1>6
<1>9. DailyTotal' = a + FilledNotional /\ Spent' = b + Most(i) /\ Notional(legs)' = c
  BY <1>3, <1>4, <1>5
<1> HIDE DEF a, b, c
<1>10. (a + FilledNotional) + c <= MaxDailyNotional + (b + Most(i))
  BY <1>2, <1>7, <1>8
<1> QED BY <1>9, <1>10 DEF Budget

LEMMA SpentNothing == SumFunctionOnSet(MostOf', {}) = 0
  BY SumEmpty

LEMMA ExecuteBudget ==
    ASSUME BudgetInv, NEW in \in Intents, NEW ttl \in 0..TTL, Execute(in, ttl) \/ Refuse(in)
    PROVE  Budget'
<1>1. Typed
  BY DEF BudgetInv, RealInv
<1>2. daily' = Recent /\ Window' = Window
  BY DEF Execute, Refuse, Window
<1>3. DailyTotal' = DailyTotal
  <2>1. /\ IsFiniteSet(Window) /\ Window \subseteq 0..MaxTime
        /\ \A t \in Window : daily[t] \in Int
    BY <1>1, WindowFacts
  <2>2. \A t \in Window : daily[t] \in Int /\ daily[t] = Recent[t]
    BY <2>1 DEF Recent
  <2>3. SumFunctionOnSet(daily, Window) = SumFunctionOnSet(Recent, Window)
    BY <2>1, <2>2, SumSame
  <2> QED BY <1>2, <2>3 DEF DailyTotal
<1>4. CASE Refuse(in)
  <2>1. UNCHANGED <<legs, results>>
    BY <1>4 DEF Refuse
  <2>2. Spent' = Spent /\ Notional(legs)' = Notional(legs)
    BY <2>1 DEF Spent, MostOf, Most, AtLeast
  <2> QED BY <1>3, <2>2 DEF Budget, BudgetInv
<1>5. CASE Execute(in, ttl)
  <2>1. ~DailyCapExceeded(in) /\ legs' \in {in, Reverse(in)} /\ results' = <<>>
    BY <1>5 DEF Execute
  <2>2. in \in Seq(Leg) /\ Len(in) \in 1..2
    BY LiveAssumption
  <2>3. Notional(legs)' = Notional(in) /\ Notional(in) \in Nat
    <3>1. Notional(legs)' = Notional(legs')
      BY DEF Notional
    <3> QED BY <2>1, <2>2, <3>1, NotionalFacts
  <2>4. Spent' = 0
    <3>1. DOMAIN results' = {}
      BY <2>1
    <3> QED BY <3>1, SpentNothing DEF Spent
  <2>5. DailyTotal \in Nat /\ MaxDailyNotional \in Nat
    BY <1>1, WindowFacts, LiveAssumption
  <2>6. DailyTotal + Notional(in) <= MaxDailyNotional
    BY <2>1, <2>3, <2>5 DEF DailyCapExceeded
  <2> QED BY <1>3, <2>3, <2>4, <2>5, <2>6 DEF Budget
<1> QED BY <1>4, <1>5

LEMMA StepBudget ==
    ASSUME BudgetInv, [Next]_vars PROVE Budget'
<1>1. Typed
  BY DEF BudgetInv, RealInv
<1>2. CASE RecordFill /\ AtOrder /\ UNCHANGED <<now, legs>>
  BY <1>2, RecordBudget
<1>3. CASE UNCHANGED <<now, legs, results, daily>>
  <2>1. Spent' = Spent /\ Notional(legs)' = Notional(legs) /\ DailyTotal' = DailyTotal
    BY <1>3 DEF Spent, MostOf, Most, AtLeast, DailyTotal, Window
  <2> QED BY <2>1 DEF Budget, BudgetInv
<1>4. CASE Tick
  <2>1. now' = now + 1 /\ UNCHANGED <<legs, results, daily>>
    BY <1>4 DEF Tick
  <2>2. Spent' = Spent /\ Notional(legs)' = Notional(legs)
    BY <2>1 DEF Spent, MostOf, Most, AtLeast
  <2>3. now \in Nat /\ Day \in Nat /\ MaxTime \in Nat
    BY <1>1, LiveAssumption DEF Typed, TypeOK
  <2>4. Window' \in SUBSET Window
    BY <2>1, <2>3 DEF Window
  <2>5. SumFunctionOnSet(daily, Window') <= SumFunctionOnSet(daily, Window)
    BY <1>1, <2>4, WindowFacts, SumPart
  <2>6. SumFunctionOnSet(daily, Window') \in Nat
    <3>1. IsFiniteSet(Window') /\ \A t \in Window' : daily[t] \in Nat
      BY <1>1, <2>4, WindowFacts, FS_Subset
    <3> QED BY <3>1, SumNat
  <2>7. DailyTotal' <= DailyTotal /\ DailyTotal' \in Nat
    BY <2>1, <2>5, <2>6 DEF DailyTotal
  <2>8. Budget /\ DailyTotal \in Nat /\ Spent \in Nat /\ Notional(legs) \in Nat /\ MaxDailyNotional \in Nat
    BY <1>1, WindowFacts, MostSums, LiveAssumption DEF BudgetInv
  <2> QED BY <2>2, <2>7, <2>8 DEF Budget
<1>5. CASE Restart
  <2>1. daily' = NoFills /\ legs' = <<>> /\ results' = <<>> /\ now' = now
    BY <1>5 DEF Restart
  <2>2. Spent' = 0
    <3>1. DOMAIN results' = {}
      BY <2>1
    <3> QED BY <3>1, SpentNothing DEF Spent
  <2>3. Notional(legs)' = 0
    <3> DEFINE f == [k \in DOMAIN legs' |-> legs'[k].notional]
    <3>1. DOMAIN f = {} /\ Notional(legs)' = SumFunctionOnSet(f, DOMAIN f)
      BY <2>1 DEF Notional, SumFunction
    <3> HIDE DEF f
    <3> QED BY <3>1, SumEmpty
  <2>4. DailyTotal' = 0
    <3>1. IsFiniteSet(Window) /\ Window \subseteq 0..MaxTime /\ Window' = Window
      BY <1>1, <2>1, WindowFacts DEF Window
    <3>2. \A t \in Window : NoFills[t] = 0
      BY <3>1 DEF NoFills
    <3>3. SumFunctionOnSet(NoFills, Window) = 0
      BY <3>1, <3>2, SumZero
    <3> QED BY <2>1, <3>1, <3>3 DEF DailyTotal
  <2> QED BY <2>2, <2>3, <2>4, LiveAssumption DEF Budget
<1>6. \/ RecordFill /\ AtOrder /\ UNCHANGED <<now, legs>>
      \/ UNCHANGED <<now, legs, results, daily>>
      \/ Tick \/ Restart
      \/ \E in \in Intents : Refuse(in) \/ \E ttl \in 0..TTL : Execute(in, ttl)
  BY DEF AtOrder, Next, Step, vars, ExpiredBeforeLeg, HedgeDrift, NoClient, SkipSmallLeg, StartLeg,
         LegFails, GiveUp, PlaceOrder, PlaceOrderError, NextAttempt, Poll, Accept, CancelAndJudge,
         EmergencyUnwind, Fill, VenueCancels
<1>7. ASSUME NEW in \in Intents, Refuse(in) PROVE Budget'
  <2>1. 0 \in 0..TTL
    BY LiveAssumption
  <2> QED BY <1>7, <2>1, ExecuteBudget
<1>8. ASSUME NEW in \in Intents, NEW ttl \in 0..TTL, Execute(in, ttl) PROVE Budget'
  BY <1>8, ExecuteBudget
<1> QED BY <1>2, <1>3, <1>4, <1>5, <1>6, <1>7, <1>8

\* So the day's total is over the cap by no more than the legs were raised.
LEMMA BudgetSuffices ==
    ASSUME BudgetInv PROVE DailyWithinCap
<1>1. Typed /\ Budget /\ MaxDailyNotional \in Nat
  BY LiveAssumption DEF BudgetInv, RealInv
<1>2. /\ IsFiniteSet(DOMAIN legs) /\ DOMAIN results \subseteq DOMAIN legs
      /\ \A k \in DOMAIN legs : MostOf[k] \in Nat /\ MostOf[k] = Most(k)
      /\ Spent \in Nat /\ Notional(legs) \in Nat
  BY <1>1, MostSums
<1>3. Spent <= SumFunctionOnSet(MostOf, DOMAIN legs)
  BY <1>2, SumPart DEF Spent
<1> DEFINE f == [k \in DOMAIN legs |-> Most(k) - legs[k].notional]
           g == [k \in DOMAIN legs |-> legs[k].notional]
<1>4. Raised = SumFunctionOnSet(f, DOMAIN legs) /\ Notional(legs) = SumFunctionOnSet(g, DOMAIN legs)
  BY DEF Raised, Notional, SumFunction
<1>5. \A k \in DOMAIN legs : f[k] \in Int /\ g[k] \in Int /\ MostOf[k] = f[k] + g[k]
  BY <1>1, <1>2, MostFacts
<1> HIDE DEF f, g
<1>6. SumFunctionOnSet(MostOf, DOMAIN legs) = SumFunctionOnSet(f, DOMAIN legs) + SumFunctionOnSet(g, DOMAIN legs)
  BY <1>2, <1>5, SumPlus
<1>7. SumFunctionOnSet(f, DOMAIN legs) \in Int /\ SumFunctionOnSet(g, DOMAIN legs) \in Int
  BY <1>2, <1>5, SumInt
<1>8. DailyTotal \in Nat
  BY <1>1, WindowFacts
<1>9. Raised \in Int /\ Spent <= Raised + Notional(legs)
  BY <1>3, <1>4, <1>6, <1>7
<1> DEFINE a == DailyTotal
           b == Spent
           c == Notional(legs)
<1>10. /\ a \in Nat /\ b \in Nat /\ c \in Nat /\ b <= Raised + c
       /\ a + c <= MaxDailyNotional + b
  BY <1>1, <1>2, <1>8, <1>9 DEF Budget
<1> HIDE DEF a, b, c
<1>11. a <= MaxDailyNotional + Raised
  BY <1>1, <1>9, <1>10
<1> QED BY <1>11 DEF DailyWithinCap, a

\* The fills recorded within any day stay within the daily cap, but for what least orders
\* and hedges of raised legs add to the last intent, however long the executor runs.
THEOREM DailyWithinCapHolds == Spec => []DailyWithinCap
<1>1. Init => BudgetInv
  <2>1. SUFFICES ASSUME Init PROVE BudgetInv
    OBVIOUS
  <2>2. Typed /\ Current /\ RecordedIsReal
    BY <2>1, InitTyped DEF Init, Current, AtOrder, RecordedIsReal
  <2>3. SizedOK
    BY <2>1 DEF Init, SizedOK
  <2>4. Spent = 0
    <3>1. DOMAIN results = {}
      BY <2>1 DEF Init
    <3> QED BY <3>1, SumEmpty DEF Spent
  <2>5. Notional(legs) = 0
    <3> DEFINE f == [k \in DOMAIN legs |-> legs[k].notional]
    <3>1. DOMAIN f = {} /\ Notional(legs) = SumFunctionOnSet(f, DOMAIN f)
      BY <2>1 DEF Notional, SumFunction, Init
    <3> HIDE DEF f
    <3> QED BY <3>1, SumEmpty
  <2>6. DailyTotal = 0
    <3>1. IsFiniteSet(Window) /\ Window \subseteq 0..MaxTime /\ daily = NoFills
      BY <2>1, <2>2, WindowFacts DEF Init
    <3>2. \A t \in Window : daily[t] = 0
      BY <3>1 DEF NoFills
    <3> QED BY <3>1, <3>2, SumZero DEF DailyTotal
  <2>7. Budget
    BY <2>4, <2>5, <2>6, LiveAssumption DEF Budget
  <2> QED BY <2>2, <2>3, <2>7 DEF BudgetInv, RealInv
<1>2. BudgetInv /\ [Next]_vars => BudgetInv'
  BY StepReal, StepSized, StepBudget DEF BudgetInv
<1>3. BudgetInv => DailyWithinCap
  BY BudgetSuffices
<1> QED BY <1>1, <1>2, <1>3, PTL DEF Spec


-----------------------------------------------------------------------------
(* The registry of the clients that trade. *)

RegistryTypeOK ==
    /\ stored \in [kind : Kinds, version : Nat]
    /\ cached \in [kind : Kinds, version : Nat] \cup {None}
    /\ client \in [number : Nat, version : Nat] \cup {None}
    /\ made \in Nat
    /\ asking \in [Callers -> BOOLEAN] /\ held \in [Callers -> Nat \cup {None}]

\* The client in the registry is the one client made.
ClientIsTheOneMade ==
    /\ client = None => made = 0
    /\ client # None => made = 1 /\ client.number = 1

RegistryInv == RegistryTypeOK /\ ClientIsTheOneMade /\ OneClient

LEMMA RegistryStarts == InitRegistry => RegistryInv
BY DEF InitRegistry, RegistryInv, RegistryTypeOK, ClientIsTheOneMade, OneClient, Kinds

LEMMA CredentialsType ==
    ASSUME RegistryTypeOK, NEW fails \in BOOLEAN
    PROVE  Credentials(fails) \in [kind : Kinds, version : Nat] \cup {None}
<1>1. CASE cached # None
  BY <1>1 DEF RegistryTypeOK, Credentials
<1>2. CASE cached = None /\ ~fails /\ Decrypts(stored.kind)
  BY <1>2 DEF RegistryTypeOK, Credentials
<1>3. CASE cached = None /\ ~(~fails /\ Decrypts(stored.kind))
  BY <1>3 DEF RegistryTypeOK, Credentials
<1> QED
  BY <1>1, <1>2, <1>3

\* Who finds a client is given that one.
LEMMA GivenIt ==
    ASSUME RegistryInv, client # None, NEW c \in Callers,
           held' = [held EXCEPT ![c] = client.number],
           asking' \in [Callers -> BOOLEAN], UNCHANGED <<stored, cached, client, made>>
    PROVE  RegistryInv'
<1> USE DEF RegistryInv
<1>1. RegistryTypeOK'
  <2>1. client.number \in Nat
    BY DEF RegistryTypeOK
  <2> QED
    BY <2>1 DEF RegistryTypeOK
<1>2. ClientIsTheOneMade'
  BY DEF ClientIsTheOneMade
<1>3. OneClient'
  BY DEF OneClient, RegistryTypeOK
<1> QED
  BY <1>1, <1>2, <1>3

\* The lock is held from the second look to the new client.
LEMMA CreatesFirst ==
    ASSUME RegistryInv, client = None, NEW c \in Callers, NEW fails \in BOOLEAN, Create(c, fails),
           asking' \in [Callers -> BOOLEAN], UNCHANGED stored
    PROVE  RegistryInv'
<1> USE DEF RegistryInv
<1> DEFINE credentials == IF Supported THEN Credentials(fails) ELSE None
<1>1. credentials \in [kind : Kinds, version : Nat] \cup {None}
  BY CredentialsType
<1>2. cached' \in [kind : Kinds, version : Nat] \cup {None}
  <2>1. cached' = IF Supported THEN credentials ELSE cached
    BY DEF Create
  <2> HIDE DEF credentials
  <2> QED
    BY <1>1, <2>1 DEF RegistryTypeOK
<1>3. made = 0 /\ \A a \in Callers : held[a] = None
  BY DEF ClientIsTheOneMade, OneClient
<1>4. CASE credentials # None /\ credentials.kind = "good"
  <2>1. /\ made' = made + 1
        /\ client' = [number |-> made', version |-> credentials.version]
        /\ held' = [held EXCEPT ![c] = made']
    BY <1>4 DEF Create
  <2>2. credentials.version \in Nat
    BY <1>1, <1>4
  <2> HIDE DEF credentials
  <2>3. made' = 1 /\ held' = [held EXCEPT ![c] = 1]
    BY <1>3, <2>1
  <2>4. client' \in [number : Nat, version : Nat] /\ client'.number = 1
    BY <2>1, <2>2, <2>3
  <2>5. client' # None
    BY <2>4, RegistryAssumption
  <2>6. RegistryTypeOK'
    BY <1>2, <2>3, <2>4 DEF RegistryTypeOK
  <2>7. ClientIsTheOneMade'
    BY <2>3, <2>4, <2>5 DEF ClientIsTheOneMade
  <2>8. OneClient'
    BY <1>3, <2>3, <2>4, <2>5 DEF OneClient, RegistryTypeOK
  <2> QED
    BY <2>6, <2>7, <2>8
<1>5. CASE ~(credentials # None /\ credentials.kind = "good")
  <2>1. UNCHANGED <<made, client, held>>
    BY <1>5 DEF Create
  <2> QED
    BY <1>2, <2>1 DEF RegistryTypeOK, ClientIsTheOneMade, OneClient
<1> QED
  BY <1>4, <1>5

LEMMA RegistrySteps == RegistryInv /\ [NextRegistry]_registryVars => RegistryInv'
<1> SUFFICES ASSUME RegistryInv, [NextRegistry]_registryVars PROVE RegistryInv'
  OBVIOUS
<1>1. ASSUME NEW c \in Callers, Look(c) PROVE RegistryInv'
  <2>1. CASE client # None
    BY <1>1, <2>1, GivenIt DEF Look, RegistryInv, RegistryTypeOK
  <2>2. CASE client = None
    <3>1. asking' \in [Callers -> BOOLEAN] /\ UNCHANGED <<stored, cached, client, made, held>>
      BY <1>1, <2>2 DEF Look, RegistryInv, RegistryTypeOK
    <3> QED
      BY <3>1 DEF RegistryInv, RegistryTypeOK, ClientIsTheOneMade, OneClient
  <2> QED
    BY <2>1, <2>2
<1>2. ASSUME NEW c \in Callers, Lock(c) PROVE RegistryInv'
  <2>1. asking' \in [Callers -> BOOLEAN] /\ UNCHANGED stored
    BY <1>2 DEF Lock, RegistryInv, RegistryTypeOK
  <2>2. CASE ~Missing /\ Found(c)
    BY <2>1, <2>2, GivenIt DEF Missing, Found
  <2>3. ASSUME Missing, NEW fails \in BOOLEAN, Create(c, fails) PROVE RegistryInv'
    BY <2>1, <2>3, CreatesFirst DEF Missing
  <2> QED
    BY <1>2, <2>2, <2>3 DEF Lock
<1>3. CASE Edit
  <2>1. PICK kind \in Kinds \ {"absent"} : stored' = [kind |-> kind, version |-> stored.version + 1]
    BY <1>3 DEF Edit
  <2>2. stored' \in [kind : Kinds, version : Nat]
    BY <2>1 DEF RegistryInv, RegistryTypeOK
  <2> QED
    BY <1>3, <2>2 DEF Edit, RegistryInv, RegistryTypeOK, ClientIsTheOneMade, OneClient
<1>4. CASE UNCHANGED registryVars
  BY <1>4 DEF registryVars, RegistryInv, RegistryTypeOK, ClientIsTheOneMade, OneClient
<1> QED
  BY <1>1, <1>2, <1>3, <1>4 DEF NextRegistry

\* However many goroutines ask for the client of a venue, and whatever the operator edits in
\* between, one is made and all are given that one (Get, src/internal/exchange/registry.go).
THEOREM OneClientHolds == RegistrySpec => []OneClient
<1>1. RegistryInv => OneClient
  BY DEF RegistryInv
<1> QED
  BY RegistryStarts, RegistrySteps, <1>1, PTL DEF RegistrySpec

-----------------------------------------------------------------------------
(* The ledger of what was executed. *)

Updates == [n : Nat, market : Markets, state : States]
MessagesOf(s) == IF s = "status" THEN Updates ELSE Ids
Rows == [market : Markets, from : States \cup {"UNKNOWN"}, to : States, gap : BOOLEAN, life : Nat]

\* What waits to be acknowledged is left out: nothing reads it again.
LedgerTypeOK ==
    /\ DOMAIN unread = StreamNames /\ \A s \in StreamNames : unread[s] \in Seq(MessagesOf(s))
    /\ DOMAIN published = StreamNames /\ IsFiniteSet(published["status"])
    /\ visiting \in Seq(StreamNames) /\ persisted \in BOOLEAN
    /\ (taken # <<>> => visiting # <<>>) /\ (persisted => taken # <<>>)
    /\ visiting # <<>> => taken \in Seq(MessagesOf(Head(visiting)))
    /\ prevState \in [Markets -> States \cup {"UNKNOWN"}]
    /\ fillRows \in [Ids -> Nat] /\ history \in Seq(Rows)
    /\ missed \in SUBSET Markets /\ crashes \in Nat

Once(s) == \A j, k \in DOMAIN s : s[j] = s[k] => j = k

\* The fills to come, and those in hand.
Fills == unread["fills"]
InHand == IF visiting # <<>> /\ Head(visiting) = "fills" THEN taken ELSE <<>>

\* A fill waits in its stream, or is in hand, or was dealt with; only the one in hand that
\* was persisted may have its row.
EachFillOnce ==
    /\ Once(Fills) /\ Once(InHand)
    /\ \A j \in DOMAIN Fills : /\ Fills[j] \in published["fills"] /\ fillRows[Fills[j]] = 0
                               /\ \A k \in DOMAIN InHand : InHand[k] # Fills[j]
    /\ \A k \in DOMAIN InHand : /\ InHand[k] \in published["fills"]
                                /\ fillRows[InHand[k]] = 0 \/ (k = 1 /\ persisted)
    /\ \A id \in Ids : fillRows[id] > 0 => id \in published["fills"]
    /\ FillsCountedOnce

\* What the ledger remembers of a market is where its last row ends, unless it missed an
\* update since, or forgot.
IsLast(k) == \A later \in DOMAIN history : later > k => history[later].market # history[k].market
Remembers ==
    \A k \in DOMAIN history :
        /\ history[k].life <= crashes
        /\ IsLast(k) => \/ history[k].to = prevState[history[k].market]
                        \/ history[k].market \in missed
                        \/ prevState[history[k].market] = "UNKNOWN" /\ history[k].life < crashes

LedgerInv == LedgerTypeOK /\ EachFillOnce /\ Remembers /\ HistoryJoins

LEMMA LedgerStarts == LedgerInit => LedgerInv
<1> SUFFICES ASSUME LedgerInit PROVE LedgerInv
  OBVIOUS
<1>1. LedgerTypeOK
  <2>1. /\ DOMAIN unread = StreamNames /\ \A s \in StreamNames : unread[s] \in Seq(MessagesOf(s))
        /\ DOMAIN published = StreamNames /\ published["status"] = {}
    BY DEF LedgerInit, StreamNames
  <2>2. visiting \in Seq(StreamNames) /\ history \in Seq(Rows) /\ fillRows \in [Ids -> Nat]
    BY DEF LedgerInit
  <2> QED
    BY <2>1, <2>2, FS_EmptySet DEF LedgerInit, LedgerTypeOK
<1>2. EachFillOnce
  BY DEF LedgerInit, EachFillOnce, Once, Fills, InHand, StreamNames, FillsCountedOnce
<1>3. Remembers /\ HistoryJoins
  BY DEF LedgerInit, Remembers, HistoryJoins
<1> QED
  BY <1>1, <1>2, <1>3 DEF LedgerInv

\* One message more in one stream.
LEMMA PublishedType ==
    ASSUME LedgerTypeOK, NEW stream \in StreamNames, NEW message \in MessagesOf(stream),
           unread' = [unread EXCEPT ![stream] = Append(@, message)]
    PROVE  DOMAIN unread' = StreamNames /\ \A s \in StreamNames : unread'[s] \in Seq(MessagesOf(s))
<1>1. DOMAIN unread = StreamNames /\ \A s \in StreamNames : unread[s] \in Seq(MessagesOf(s))
  BY DEF LedgerTypeOK
<1>2. /\ DOMAIN unread' = StreamNames /\ unread'[stream] = Append(unread[stream], message)
      /\ \A s \in StreamNames \ {stream} : unread'[s] = unread[s]
  BY <1>1
<1>3. unread'[stream] \in Seq(MessagesOf(stream))
  BY <1>1, <1>2
<1> QED
  BY <1>1, <1>2, <1>3

\* What a read takes of a stream, and what it leaves.
LEMMA TakeFacts ==
    ASSUME NEW S, NEW s \in Seq(S), NEW stream
    PROVE  LET n == Len(Take(stream, s))
               rest == SubSeq(s, n + 1, Len(s))
           IN  /\ n \in 0..Len(s) /\ Take(stream, s) \in Seq(S)
               /\ \A k \in 1..n : Take(stream, s)[k] = s[k]
               /\ rest \in Seq(S) /\ Len(rest) = Len(s) - n
               /\ \A k \in 1..Len(rest) : rest[k] = s[n + k]
<1> DEFINE m == IF Len(s) < ReadSize THEN Len(s) ELSE ReadSize
<1>1. m \in 0..Len(s)
  BY LedgerAssumption
<1>2. Take(stream, s) = SubSeq(s, 1, m)
  BY DEF Take
<1> HIDE DEF m
<1>3. /\ Take(stream, s) \in Seq(S) /\ Len(Take(stream, s)) = m
      /\ \A k \in 1..m : Take(stream, s)[k] = s[k]
  BY <1>1, <1>2
<1>4. /\ SubSeq(s, m + 1, Len(s)) \in Seq(S) /\ Len(SubSeq(s, m + 1, Len(s))) = Len(s) - m
      /\ \A k \in 1..(Len(s) - m) : SubSeq(s, m + 1, Len(s))[k] = s[m + k]
  BY <1>1
<1> QED
  BY <1>1, <1>3, <1>4

LEMMA TailFacts ==
    ASSUME NEW S, NEW s \in Seq(S), s # <<>>
    PROVE  /\ Head(s) \in S /\ Head(s) = s[1] /\ 1 \in DOMAIN s
           /\ Tail(s) \in Seq(S) /\ Len(Tail(s)) = Len(s) - 1
           /\ \A k \in DOMAIN Tail(s) :
                 k \in Nat \ {0} /\ k + 1 \in DOMAIN s /\ Tail(s)[k] = s[k + 1]
OBVIOUS

-----------------------------------------------------------------------------
(* Types. *)

LEMMA LedgerStepType == LedgerTypeOK /\ [LedgerNext]_ledgerVars => LedgerTypeOK'
<1> SUFFICES ASSUME LedgerTypeOK, [LedgerNext]_ledgerVars PROVE LedgerTypeOK'
  OBVIOUS
<1> USE DEF LedgerTypeOK
<1>1. ASSUME NEW stream \in StreamNames \ {"status"}, NEW id \in Ids, Publish(stream, id)
      PROVE  LedgerTypeOK'
  <2>1. DOMAIN unread' = StreamNames /\ \A s \in StreamNames : unread'[s] \in Seq(MessagesOf(s))
    <3>1. id \in MessagesOf(stream)
      BY DEF MessagesOf
    <3> QED
      BY <1>1, <3>1, PublishedType DEF Publish
  <2>2. DOMAIN published' = StreamNames
    BY <1>1 DEF Publish
  <2>3. published'["status"] = published["status"]
    BY <1>1 DEF Publish, StreamNames
  <2> QED
    BY <1>1, <2>1, <2>2, <2>3 DEF Publish, readVars, tableVars
<1>2. ASSUME NEW market \in Markets, NEW state \in States, PublishStatus(market, state)
      PROVE  LedgerTypeOK'
  <2> DEFINE update == [n |-> Cardinality(published["status"]), market |-> market, state |-> state]
  <2>1. Cardinality(published["status"]) \in Nat
    BY FS_CardinalityType
  <2>2. update \in Updates
    BY <2>1 DEF Updates
  <2>3. /\ published' = [published EXCEPT !["status"] = @ \cup {update}]
        /\ unread' = [unread EXCEPT !["status"] = Append(@, update)]
    BY <1>2 DEF PublishStatus
  <2> HIDE DEF update
  <2>4. DOMAIN published' = StreamNames
    BY <2>3
  <2>5. DOMAIN unread' = StreamNames /\ \A s \in StreamNames : unread'[s] \in Seq(MessagesOf(s))
    <3>1. update \in MessagesOf("status") /\ "status" \in StreamNames
      BY <2>2 DEF MessagesOf, StreamNames
    <3> QED
      BY <2>3, <3>1, PublishedType
  <2>7. IsFiniteSet(published'["status"])
    <3> DEFINE before == published["status"]
               after == published'["status"]
    <3>1. after = before \cup {update} /\ IsFiniteSet(before)
      BY <2>3 DEF StreamNames
    <3> HIDE DEF before, after
    <3>2. IsFiniteSet(after)
      BY <3>1, FS_AddElement
    <3> QED
      BY <3>2 DEF after
  <2> QED
    BY <1>2, <2>4, <2>5, <2>7 DEF PublishStatus, readVars, tableVars
<1>3. CASE DrainAll
  <2>1. Streams \in Seq(StreamNames) /\ taken = <<>> /\ visiting' # <<>>
    BY <1>3 DEF DrainAll, Streams, StreamNames
  <2>2. taken' \in Seq(MessagesOf(Head(visiting')))
    BY <1>3, <2>1 DEF DrainAll
  <2> QED
    BY <1>3, <2>1, <2>2 DEF DrainAll, streamVars, tableVars
<1>4. CASE ReadMessages
  <2> DEFINE stream == Head(visiting)
             read == Take(stream, unread[stream])
             rest == SubSeq(unread[stream], Len(read) + 1, Len(unread[stream]))
  <2>1. stream \in StreamNames /\ visiting \in Seq(StreamNames) /\ visiting # <<>>
    BY <1>4 DEF ReadMessages
  <2>2. read \in Seq(MessagesOf(stream)) /\ rest \in Seq(MessagesOf(stream))
    BY <2>1, TakeFacts
  <2>3. /\ taken' = read
        /\ visiting' = IF read = <<>> THEN Tail(visiting) ELSE visiting
        /\ unread' = [unread EXCEPT ![stream] = rest]
    BY <1>4 DEF ReadMessages
  <2>h. persisted = FALSE /\ Head(visiting) = stream
    BY <1>4 DEF ReadMessages
  <2> HIDE DEF stream, read, rest
  <2>4. DOMAIN unread' = StreamNames /\ \A s \in StreamNames : unread'[s] \in Seq(MessagesOf(s))
    BY <2>1, <2>2, <2>3
  <2>5. visiting' \in Seq(StreamNames)
    BY <2>1, <2>3
  <2>6. (taken' # <<>> => visiting' # <<>>) /\ (visiting' # <<>> => taken' \in Seq(MessagesOf(Head(visiting'))))
    <3>1. CASE read = <<>>
      BY <2>3, <3>1
    <3>2. CASE read # <<>>
      BY <2>1, <2>2, <2>3, <2>h, <3>2
    <3> QED
      BY <3>1, <3>2
  <2> QED
    BY <1>4, <2>4, <2>5, <2>6, <2>h DEF ReadMessages, tableVars
<1>5. CASE PersistRecord
  <2>1. fillRows' \in [Ids -> Nat] /\ history' = history
    BY <1>5, TailFacts DEF PersistRecord, Persisting, WriteFill, WriteIntent, tableVars, MessagesOf
  <2> QED
    BY <1>5, <2>1 DEF PersistRecord, Persisting, streamVars
<1>6. CASE PersistStatus
  <2> DEFINE update == Head(taken)
  <2>1. update \in Updates /\ update.market \in Markets /\ update.state \in States
    <3>1. taken \in Seq(Updates) /\ taken # <<>>
      BY <1>6 DEF PersistStatus, Persisting, MessagesOf
    <3>2. Head(taken) \in Updates
      BY <3>1, TailFacts
    <3> QED
      BY <3>2 DEF Updates
  <2>2. prevState' = [prevState EXCEPT ![update.market] = update.state]
    BY <1>6 DEF PersistStatus
  <2>3. missed' = missed \ {update.market} \/ missed' = missed \cup {update.market}
    BY <1>6 DEF PersistStatus
  <2>4. fillRows' = fillRows /\ (WriteVenueStatus(update, prevState[update.market]) \/ history' = history)
    BY <1>6 DEF PersistStatus, WriteVenueStatus, tableVars
  <2> HIDE DEF update
  <2>5. history' \in Seq(Rows)
    <3>1. CASE WriteVenueStatus(update, prevState[update.market])
      <4>1. prevState[update.market] \in States \cup {"UNKNOWN"}
        BY <2>1
      <4> QED
        BY <2>1, <3>1, <4>1 DEF WriteVenueStatus, Rows
    <3>2. CASE history' = history
      BY <3>2
    <3> QED
      BY <2>4, <3>1, <3>2
  <2>6. prevState' \in [Markets -> States \cup {"UNKNOWN"}] /\ missed' \in SUBSET Markets
    BY <2>1, <2>2, <2>3
  <2> QED
    BY <1>6, <2>4, <2>5, <2>6 DEF PersistStatus, Persisting, streamVars
<1>7. CASE Ack
  <2>1. /\ taken # <<>> /\ visiting # <<>> /\ visiting \in Seq(StreamNames)
        /\ taken \in Seq(MessagesOf(Head(visiting)))
    BY <1>7 DEF Ack
  <2>2. /\ taken' = Tail(taken) /\ persisted' = FALSE
        /\ visiting' = IF Len(taken) = 1 THEN Tail(visiting) ELSE visiting
    BY <1>7 DEF Ack
  <2>3. visiting' \in Seq(StreamNames)
    BY <2>1, <2>2
  <2>4. (taken' # <<>> => visiting' # <<>>) /\ (visiting' # <<>> => taken' \in Seq(MessagesOf(Head(visiting'))))
    <3>1. CASE Len(taken) = 1
      <4>1. Tail(taken) = <<>>
        <5> DEFINE S == MessagesOf(Head(visiting))
                   t == taken
        <5>1. t \in Seq(S) /\ Len(t) = 1 /\ t # <<>>
          BY <2>1, <3>1
        <5> HIDE DEF S, t
        <5>2. Tail(t) \in Seq(S) /\ Len(Tail(t)) = 0
          BY <5>1, TailFacts
        <5>3. \A u \in Seq(S) : Len(u) = 0 => u = <<>>
          OBVIOUS
        <5>4. Tail(t) = <<>>
          BY <5>2, <5>3
        <5> QED
          BY <5>4 DEF t
      <4>2. taken' = <<>> /\ visiting' = Tail(visiting)
        BY <2>2, <3>1, <4>1
      <4> QED
        BY <2>1, <4>2
    <3>2. CASE Len(taken) # 1
      BY <2>1, <2>2, <3>2
    <3> QED
      BY <3>1, <3>2
  <2> QED
    BY <1>7, <2>2, <2>3, <2>4 DEF Ack, tableVars
<1>8. CASE LedgerRestart
  <2>1. /\ visiting' = <<>> /\ taken' = <<>> /\ persisted' = FALSE /\ crashes' = crashes + 1
        /\ prevState' = [m \in Markets |-> "UNKNOWN"]
        /\ UNCHANGED <<unread, published, fillRows, history, missed>>
    BY <1>8 DEF LedgerRestart, streamVars, tableVars
  <2>2. visiting' \in Seq(StreamNames) /\ crashes' \in Nat
    BY <2>1
  <2>3. prevState' \in [Markets -> States \cup {"UNKNOWN"}]
    BY <2>1
  <2> QED
    BY <2>1, <2>2, <2>3
<1>9. CASE UNCHANGED ledgerVars
  BY <1>9 DEF ledgerVars, streamVars, readVars, tableVars
<1> QED
  BY <1>1, <1>2, <1>3, <1>4, <1>5, <1>6, <1>7, <1>8, <1>9 DEF LedgerNext
-----------------------------------------------------------------------------
(* Fills. *)

\* A step that moves no fill and inserts none.
LEMMA FillsSame ==
    ASSUME EachFillOnce, UNCHANGED <<fillRows, published>>, Fills' = Fills,
           InHand' = InHand \/ InHand' = <<>>, persisted => persisted'
    PROVE  EachFillOnce'
BY DEF EachFillOnce, Once, FillsCountedOnce

LEMMA HandEmpty ==
    ASSUME taken = <<>>
    PROVE  InHand = <<>>
BY DEF InHand

\* A fill is published once: the stream gets one it never had.
LEMMA PublishFills ==
    ASSUME LedgerTypeOK, EachFillOnce,
           NEW stream \in StreamNames \ {"status"}, NEW id \in Ids, Publish(stream, id)
    PROVE  EachFillOnce'
<1>1. InHand' = InHand /\ UNCHANGED <<fillRows, persisted>>
  BY DEF Publish, readVars, tableVars, InHand
<1>2. CASE stream # "fills"
  <2>1. Fills' = Fills /\ published'["fills"] = published["fills"]
    BY <1>2 DEF Publish, Fills, LedgerTypeOK, StreamNames
  <2> QED
    BY <1>1, <2>1 DEF EachFillOnce, Once, FillsCountedOnce
<1>3. CASE stream = "fills"
  <2>1. Fills \in Seq(Ids)
    BY DEF LedgerTypeOK, Fills, StreamNames, MessagesOf
  <2>2. /\ id \notin published["fills"]
        /\ Fills' = Append(Fills, id) /\ published'["fills"] = published["fills"] \cup {id}
    BY <1>3 DEF Publish, Fills, LedgerTypeOK, StreamNames
  <2>3. /\ DOMAIN Fills' = 1..(Len(Fills) + 1) /\ Fills'[Len(Fills) + 1] = id
        /\ DOMAIN Fills = 1..Len(Fills) /\ Len(Fills) \in Nat
        /\ \A k \in 1..Len(Fills) : Fills'[k] = Fills[k]
    BY <2>1, <2>2
  <2> DEFINE old == published["fills"]
             new == published'["fills"]
  <2>4. fillRows[id] = 0 /\ fillRows \in [Ids -> Nat]
    <3>1. fillRows[id] \in Nat /\ ~(fillRows[id] > 0)
      BY <2>2 DEF EachFillOnce, LedgerTypeOK
    <3> QED
      BY <3>1 DEF LedgerTypeOK
  <2>5. Once(Fills)'
    BY <2>2, <2>3 DEF EachFillOnce, Once
  <2>6. \A j \in DOMAIN Fills' : /\ Fills'[j] \in new /\ fillRows[Fills'[j]] = 0
                                 /\ \A k \in DOMAIN InHand : InHand[k] # Fills'[j]
    <3>1. ASSUME NEW j \in 1..Len(Fills)
          PROVE  /\ Fills'[j] \in new /\ fillRows[Fills'[j]] = 0
                 /\ \A k \in DOMAIN InHand : InHand[k] # Fills'[j]
      BY <2>2, <2>3 DEF EachFillOnce
    <3>2. id \in new /\ fillRows[id] = 0 /\ \A k \in DOMAIN InHand : InHand[k] # id
      BY <2>2, <2>4 DEF EachFillOnce
    <3> QED
      BY <2>3, <3>1, <3>2
  <2> QED
    BY <1>1, <2>2, <2>5, <2>6 DEF EachFillOnce, Once, FillsCountedOnce
<1> QED
  BY <1>2, <1>3

LEMMA StatusFills ==
    ASSUME LedgerTypeOK, EachFillOnce,
           NEW market \in Markets, NEW state \in States, PublishStatus(market, state)
    PROVE  EachFillOnce'
<1>1. Fills' = Fills /\ published'["fills"] = published["fills"] /\ InHand' = InHand
  BY DEF PublishStatus, Fills, LedgerTypeOK, StreamNames, readVars, InHand
<1> QED
  BY <1>1 DEF EachFillOnce, Once, FillsCountedOnce, PublishStatus, readVars, tableVars

\* What a read takes is in hand and no longer in the stream.
LEMMA ReadFills == ASSUME LedgerTypeOK, EachFillOnce, ReadMessages PROVE EachFillOnce'
<1> DEFINE stream == Head(visiting)
           read == Take(stream, unread[stream])
           rest == SubSeq(unread[stream], Len(read) + 1, Len(unread[stream]))
<1>1. /\ taken' = read /\ visiting' = IF read = <<>> THEN Tail(visiting) ELSE visiting
      /\ unread' = [unread EXCEPT ![stream] = rest]
      /\ taken = <<>> /\ UNCHANGED <<published, persisted, fillRows>>
  BY DEF ReadMessages, tableVars
<1>s. stream \in StreamNames
  BY DEF ReadMessages, LedgerTypeOK
<1>2. InHand = <<>>
  BY <1>1, HandEmpty
<1>3. CASE stream # "fills"
  <2>1. Fills' = Fills
    BY <1>1, <1>3, <1>s DEF Fills, LedgerTypeOK, StreamNames
  <2>2. InHand' = <<>>
    <3>1. CASE read = <<>>
      BY <1>1, <3>1 DEF InHand
    <3>2. CASE read # <<>>
      BY <1>1, <1>3, <3>2 DEF InHand
    <3> QED
      BY <3>1, <3>2
  <2> QED
    BY <1>1, <2>1, <2>2, FillsSame
<1>4. CASE stream = "fills"
  <2> DEFINE n == Len(read)
  <2>1. unread[stream] = Fills /\ Fills \in Seq(Ids)
    BY <1>4 DEF LedgerTypeOK, Fills, StreamNames, MessagesOf
  <2>2. /\ n \in 0..Len(Fills) /\ read \in Seq(Ids)
        /\ \A k \in 1..n : read[k] = Fills[k]
        /\ rest \in Seq(Ids) /\ Len(rest) = Len(Fills) - n
        /\ \A k \in 1..Len(rest) : rest[k] = Fills[n + k]
    BY <2>1, TakeFacts
  <2>3. Fills' = rest
    BY <1>1, <1>4, <1>s DEF Fills, LedgerTypeOK
  <2>4. InHand' = read
    <3>1. CASE read = <<>>
      BY <1>1, <3>1 DEF InHand
    <3>2. CASE read # <<>>
      BY <1>1, <1>4, <3>2 DEF InHand, ReadMessages
    <3> QED
      BY <3>1, <3>2
  <2> HIDE DEF read, rest, stream
  <2>5. /\ DOMAIN read = 1..n /\ DOMAIN rest = 1..Len(rest) /\ Len(Fills) \in Nat
        /\ DOMAIN Fills = 1..Len(Fills)
    BY <2>1, <2>2
  <2> HIDE DEF n
  <2>6. \A k \in DOMAIN read : k \in DOMAIN Fills /\ read[k] = Fills[k]
    BY <2>2, <2>5
  <2>7. \A k \in DOMAIN rest : n + k \in DOMAIN Fills /\ rest[k] = Fills[n + k]
    BY <2>2, <2>5
  <2>8. Once(Fills)' /\ Once(InHand)'
    <3>1. Once(Fills)
      BY DEF EachFillOnce
    <3>2. \A j, k \in DOMAIN rest : rest[j] = rest[k] => j = k
      BY <2>2, <2>5, <2>7, <3>1 DEF Once
    <3>3. \A j, k \in DOMAIN read : read[j] = read[k] => j = k
      BY <2>6, <3>1 DEF Once
    <3> QED
      BY <2>3, <2>4, <3>2, <3>3 DEF Once
  <2>9. \A j \in DOMAIN Fills : Fills[j] \in published["fills"] /\ fillRows[Fills[j]] = 0
    BY DEF EachFillOnce
  <2>10. \A j \in DOMAIN rest, k \in DOMAIN read : read[k] # rest[j]
    <3>1. SUFFICES ASSUME NEW j \in DOMAIN rest, NEW k \in DOMAIN read PROVE read[k] # rest[j]
      OBVIOUS
    <3>2. /\ k \in DOMAIN Fills /\ read[k] = Fills[k]
          /\ n + j \in DOMAIN Fills /\ rest[j] = Fills[n + j]
      BY <2>6, <2>7
    <3>3. k # n + j
      BY <2>2, <2>5
    <3> QED
      BY <3>2, <3>3 DEF EachFillOnce, Once
  <2>11. \A j \in DOMAIN Fills' : /\ Fills'[j] \in published'["fills"] /\ fillRows'[Fills'[j]] = 0
                                  /\ \A k \in DOMAIN InHand' : InHand'[k] # Fills'[j]
    BY <1>1, <2>3, <2>4, <2>7, <2>9, <2>10
  <2>12. \A k \in DOMAIN InHand' : InHand'[k] \in published'["fills"] /\ fillRows'[InHand'[k]] = 0
    BY <1>1, <2>4, <2>6, <2>9
  <2> QED
    BY <1>1, <2>8, <2>11, <2>12 DEF EachFillOnce, FillsCountedOnce
<1> QED
  BY <1>3, <1>4

\* The fill in hand has no row when it is persisted.
LEMMA PersistFills == ASSUME LedgerTypeOK, EachFillOnce, PersistRecord PROVE EachFillOnce'
<1>1. /\ visiting # <<>> /\ taken # <<>> /\ ~persisted /\ persisted' = TRUE
      /\ UNCHANGED <<unread, published, visiting, taken>>
  BY DEF PersistRecord, Persisting, streamVars
<1>2. InHand' = InHand /\ Fills' = Fills
  BY <1>1 DEF InHand, Fills
<1>3. CASE Head(visiting) = "fills" /\ WriteFill(Head(taken))
  <2> DEFINE id == Head(taken)
  <2>1. taken \in Seq(Ids) /\ InHand = taken
    BY <1>1, <1>3 DEF LedgerTypeOK, MessagesOf, InHand
  <2>2. id \in Ids /\ id = InHand[1] /\ 1 \in DOMAIN InHand
    BY <1>1, <2>1, TailFacts
  <2>3. fillRows' = [fillRows EXCEPT ![id] = @ + 1] /\ fillRows \in [Ids -> Nat]
    BY <1>3 DEF WriteFill, LedgerTypeOK
  <2>t. \A k \in DOMAIN InHand : InHand[k] \in Ids
    BY <2>1
  <2>f. \A j \in DOMAIN Fills : Fills[j] \in Ids
    BY DEF LedgerTypeOK, Fills, StreamNames, MessagesOf
  <2> HIDE DEF id
  <2>4. fillRows[id] = 0 /\ id \in published["fills"]
    BY <1>1, <2>2 DEF EachFillOnce
  <2>5. fillRows'[id] = 1 /\ \A x \in Ids : x # id => fillRows'[x] = fillRows[x]
    BY <2>2, <2>3, <2>4
  <2>6. \A j \in DOMAIN Fills : Fills[j] # id
    BY <2>2 DEF EachFillOnce
  <2>7. \A k \in DOMAIN InHand : k # 1 => InHand[k] # id /\ fillRows[InHand[k]] = 0
    BY <2>2 DEF EachFillOnce, Once
  <2>8. \A j \in DOMAIN Fills : fillRows'[Fills[j]] = 0
    BY <2>5, <2>6, <2>f DEF EachFillOnce
  <2>9. \A k \in DOMAIN InHand : fillRows'[InHand[k]] = 0 \/ k = 1
    BY <2>5, <2>7, <2>t
  <2>10. \A x \in Ids : fillRows'[x] > 0 => x \in published["fills"]
    BY <2>4, <2>5 DEF EachFillOnce
  <2>11. \A x \in Ids : fillRows'[x] <= 1
    BY <2>5 DEF EachFillOnce, FillsCountedOnce
  <2> QED
    BY <1>1, <1>2, <2>8, <2>9, <2>10, <2>11 DEF EachFillOnce, Once, FillsCountedOnce
<1>4. CASE ~(Head(visiting) = "fills" /\ WriteFill(Head(taken)))
  <2>1. UNCHANGED fillRows
    BY <1>4 DEF PersistRecord, WriteIntent, tableVars
  <2> QED
    BY <1>1, <1>2, <2>1, FillsSame
<1> QED
  BY <1>3, <1>4

\* The one that may have its row leaves the hand.
LEMMA AckFills == ASSUME LedgerTypeOK, EachFillOnce, Ack PROVE EachFillOnce'
<1>1. /\ taken # <<>> /\ visiting # <<>> /\ taken' = Tail(taken) /\ persisted' = FALSE
      /\ visiting' = IF Len(taken) = 1 THEN Tail(visiting) ELSE visiting
      /\ UNCHANGED <<unread, published, fillRows>>
  BY DEF Ack, LedgerTypeOK, tableVars
<1>2. Fills' = Fills
  BY <1>1 DEF Fills
<1>3. \E S : taken \in Seq(S)
  BY <1>1 DEF LedgerTypeOK
<1>4. CASE Head(visiting) = "fills"
  <2>1. taken \in Seq(Ids) /\ InHand = taken
    BY <1>1, <1>4 DEF LedgerTypeOK, MessagesOf, InHand
  <2>2. \A k \in DOMAIN Tail(taken) : k + 1 \in DOMAIN taken /\ Tail(taken)[k] = taken[k + 1] /\ k \in Nat \ {0}
    BY <1>1, <2>1, TailFacts
  <2>3. InHand' \in {Tail(taken), <<>>}
    BY <1>1 DEF InHand
  <2>4. \A k \in DOMAIN InHand' : k + 1 \in DOMAIN InHand /\ InHand'[k] = InHand[k + 1] /\ k \in Nat \ {0}
    <3>1. CASE InHand' = <<>>
      BY <3>1
    <3>2. CASE InHand' = Tail(taken)
      BY <2>1, <2>2, <3>2
    <3> QED
      BY <2>3, <3>1, <3>2
  <2>5. Once(InHand)'
    BY <2>4 DEF EachFillOnce, Once
  <2>6. \A k \in DOMAIN InHand' : InHand'[k] \in published["fills"] /\ fillRows[InHand'[k]] = 0
    <3>1. \A k \in Nat \ {0} : k + 1 # 1
      OBVIOUS
    <3>2. \A k \in DOMAIN InHand' : k + 1 # 1
      BY <2>4, <3>1
    <3> QED
      BY <2>4, <3>2 DEF EachFillOnce
  <2> QED
    BY <1>1, <1>2, <2>4, <2>5, <2>6 DEF EachFillOnce, FillsCountedOnce, Once
<1>5. CASE Head(visiting) # "fills"
  <2>1. InHand = <<>>
    BY <1>5 DEF InHand
  <2>2. InHand' = <<>>
    <3>1. CASE Len(taken) = 1
      <4>1. taken' = <<>>
        BY <1>1, <1>3, <3>1
      <4> QED
        BY <4>1 DEF InHand
    <3>2. CASE Len(taken) # 1
      BY <1>1, <1>5, <3>2 DEF InHand
    <3> QED
      BY <3>1, <3>2
  <2> QED
    BY <1>1, <1>2, <2>1, <2>2 DEF EachFillOnce, Once, FillsCountedOnce
<1> QED
  BY <1>4, <1>5

LEMMA LedgerStepFills ==
    LedgerTypeOK /\ EachFillOnce /\ [LedgerNext]_ledgerVars => EachFillOnce'
<1> SUFFICES ASSUME LedgerTypeOK, EachFillOnce, [LedgerNext]_ledgerVars PROVE EachFillOnce'
  OBVIOUS
<1>1. CASE DrainAll
  <2>1. InHand' = <<>> /\ Fills' = Fills
    BY <1>1 DEF DrainAll, LedgerTypeOK, InHand, Fills, streamVars
  <2> QED
    BY <1>1, <2>1, FillsSame DEF DrainAll, streamVars, tableVars
<1>2. CASE PersistStatus
  <2>1. InHand' = InHand /\ Fills' = Fills
    BY <1>2 DEF PersistStatus, InHand, Fills, streamVars
  <2> QED
    BY <1>2, <2>1, FillsSame DEF PersistStatus, WriteVenueStatus, streamVars, tableVars
<1>3. CASE LedgerRestart
  <2>1. InHand' = <<>> /\ Fills' = Fills
    BY <1>3 DEF LedgerRestart, InHand, Fills, streamVars
  <2> QED
    BY <1>3, <2>1 DEF LedgerRestart, streamVars, tableVars, EachFillOnce, Once, FillsCountedOnce
<1>4. CASE UNCHANGED ledgerVars
  BY <1>4, FillsSame DEF ledgerVars, streamVars, readVars, tableVars, InHand, Fills
<1> QED
  BY <1>1, <1>2, <1>3, <1>4, PublishFills, StatusFills, ReadFills, PersistFills, AckFills
  DEF LedgerNext
-----------------------------------------------------------------------------
(* The history of the markets. *)

LEMMA RowFacts ==
    ASSUME LedgerTypeOK
    PROVE  /\ history \in Seq(Rows)
           /\ \A k \in DOMAIN history : history[k].market \in Markets /\ history[k].life \in Nat
<1>1. history \in Seq(Rows)
  BY DEF LedgerTypeOK
<1>2. \A k \in DOMAIN history : history[k] \in Rows
  BY <1>1
<1> QED
  BY <1>1, <1>2 DEF Rows

\* A row that joins what the ledger remembers joins the history.
LEMMA RowJoins ==
    ASSUME LedgerTypeOK, Remembers, HistoryJoins, NEW update \in Updates,
           WriteVenueStatus(update, prevState[update.market]),
           missed' = missed \ {update.market},
           prevState' = [prevState EXCEPT ![update.market] = update.state], UNCHANGED crashes
    PROVE  Remembers' /\ HistoryJoins'
<1> DEFINE m == update.market
           n == Len(history)
           row == [market |-> m, from |-> prevState[m], to |-> update.state,
                   gap |-> m \in missed, life |-> crashes]
<1>1. /\ history' = Append(history, row)
      /\ row.market = m /\ row.from = prevState[m] /\ row.to = update.state
      /\ row.gap = (m \in missed) /\ row.life = crashes
  BY DEF WriteVenueStatus
<1>2. m \in Markets /\ prevState \in [Markets -> States \cup {"UNKNOWN"}] /\ crashes \in Nat
  BY DEF Updates, LedgerTypeOK
<1>3. prevState'[m] = update.state /\ \A o \in Markets : o # m => prevState'[o] = prevState[o]
  BY <1>2
<1> HIDE DEF row
<1>4. /\ DOMAIN history' = 1..(n + 1) /\ DOMAIN history = 1..n /\ n \in Nat
      /\ history'[n + 1] = row /\ \A k \in 1..n : history'[k] = history[k]
      /\ \A k \in 1..n : history[k].market \in Markets /\ history[k].life \in Nat
  <2>1. history \in Seq(Rows) /\ DOMAIN history = 1..n /\ n \in Nat
    BY RowFacts
  <2>2. /\ DOMAIN history' = 1..(n + 1) /\ history'[n + 1] = row
        /\ \A k \in 1..n : history'[k] = history[k]
    <3>1. row \in Rows
      <4>1. prevState[m] \in States \cup {"UNKNOWN"}
        BY <1>2
      <4> QED
        BY <1>2, <4>1 DEF row, Rows, Updates
    <3> QED
      BY <1>1, <2>1, <3>1
  <2> QED
    BY <2>1, <2>2, RowFacts
<1> HIDE DEF m, n
<1>5. Remembers'
  <2>1. SUFFICES ASSUME NEW k \in 1..(n + 1)
        PROVE  /\ history'[k].life <= crashes
               /\ IsLast(k)' => \/ history'[k].to = prevState'[history'[k].market]
                                \/ history'[k].market \in missed'
                                \/ prevState'[history'[k].market] = "UNKNOWN" /\ history'[k].life < crashes
    BY <1>4 DEF Remembers
  <2>2. CASE k = n + 1
    BY <1>1, <1>2, <1>3, <1>4, <2>2
  <2>3. CASE k # n + 1
    <3>1. k \in 1..n /\ n + 1 > k
      BY <1>4, <2>3
    <3>2. history'[k].life <= crashes
      BY <1>4, <3>1 DEF Remembers
    <3>3. ASSUME IsLast(k)' PROVE IsLast(k) /\ history[k].market # m
      <4>1. \A later \in 1..(n + 1) : later > k => history'[later].market # history'[k].market
        BY <1>4, <3>3 DEF IsLast
      <4>2. history[k].market # m
        BY <1>1, <1>4, <3>1, <4>1
      <4>3. \A later \in 1..n : later > k => history[later].market # history[k].market
        BY <1>4, <3>1, <4>1
      <4> QED
        BY <1>4, <4>2, <4>3 DEF IsLast
    <3>4. ASSUME IsLast(k), history[k].market # m
          PROVE  \/ history'[k].to = prevState'[history'[k].market]
                 \/ history'[k].market \in missed'
                 \/ prevState'[history'[k].market] = "UNKNOWN" /\ history'[k].life < crashes
      <4>1. history'[k] = history[k] /\ prevState'[history[k].market] = prevState[history[k].market]
        BY <1>3, <1>4, <3>1, <3>4
      <4>2. history[k].market \in missed => history[k].market \in missed'
        BY <3>4 DEF m
      <4> QED
        BY <1>4, <3>1, <3>4, <4>1, <4>2 DEF Remembers
    <3> QED
      BY <3>2, <3>3, <3>4
  <2> QED
    BY <2>2, <2>3
<1>6. HistoryJoins'
  <2>1. SUFFICES ASSUME NEW j \in 1..(n + 1), NEW k \in 1..(n + 1), j < k,
                        history'[j].market = history'[k].market,
                        \A between \in j + 1..k - 1 : history'[between].market # history'[k].market
                 PROVE  \/ history'[k].from = history'[j].to
                        \/ history'[k].gap
                        \/ history'[k].from = "UNKNOWN" /\ history'[j].life < history'[k].life
    BY <1>4 DEF HistoryJoins
  <2>2. j \in 1..n /\ history'[j] = history[j]
    BY <1>4, <2>1
  <2>3. CASE k \in 1..n
    <3>1. history'[k] = history[k] /\ \A between \in j + 1..k - 1 : history'[between] = history[between]
      BY <1>4, <2>2, <2>3
    <3> QED
      BY <1>4, <2>1, <2>2, <2>3, <3>1 DEF HistoryJoins
  <2>4. CASE k = n + 1
    <3>1. history[j].market = m /\ history'[k] = row
      BY <1>1, <1>4, <2>1, <2>2, <2>4
    <3>2. \A later \in 1..n : later > j => history[later].market # m
      <4>1. \A later \in 1..n : later > j => later \in j + 1..k - 1
        BY <1>4, <2>2, <2>4
      <4> QED
        BY <1>1, <1>4, <2>1, <3>1, <4>1
    <3>3. IsLast(j)
      BY <1>4, <3>1, <3>2 DEF IsLast
    <3>4. \/ history[j].to = prevState[m] \/ m \in missed
          \/ prevState[m] = "UNKNOWN" /\ history[j].life < crashes
      BY <1>4, <2>2, <3>1, <3>3 DEF Remembers
    <3> QED
      BY <1>1, <2>2, <3>1, <3>4
  <2> QED
    BY <1>4, <2>3, <2>4
<1> QED
  BY <1>5, <1>6

\* A refused update is missed, and what is remembered moves on.
LEMMA RowRefused ==
    ASSUME LedgerTypeOK, Remembers, HistoryJoins, NEW update \in Updates,
           missed' = missed \cup {update.market},
           prevState' = [prevState EXCEPT ![update.market] = update.state],
           UNCHANGED <<history, crashes>>
    PROVE  Remembers' /\ HistoryJoins'
<1> DEFINE m == update.market
<1>1. m \in Markets /\ prevState \in [Markets -> States \cup {"UNKNOWN"}]
  BY DEF Updates, LedgerTypeOK
<1>2. \A o \in Markets : o # m => prevState'[o] = prevState[o]
  BY <1>1
<1>3. \A k \in DOMAIN history : history[k].market \in Markets
  BY RowFacts
<1> HIDE DEF m
<1>4. HistoryJoins'
  BY DEF HistoryJoins
<1>5. Remembers'
  <2>1. SUFFICES ASSUME NEW k \in DOMAIN history
        PROVE  /\ history[k].life <= crashes
               /\ IsLast(k) => \/ history[k].to = prevState'[history[k].market]
                               \/ history[k].market \in missed'
                               \/ prevState'[history[k].market] = "UNKNOWN" /\ history[k].life < crashes
    BY DEF Remembers, IsLast
  <2>2. CASE history[k].market = m
    BY <2>2 DEF Remembers, m
  <2>3. CASE history[k].market # m
    <3>1. prevState'[history[k].market] = prevState[history[k].market]
      BY <1>2, <1>3, <2>3
    <3>2. history[k].market \in missed => history[k].market \in missed'
      OBVIOUS
    <3> QED
      BY <3>1, <3>2 DEF Remembers
  <2> QED
    BY <2>2, <2>3
<1> QED
  BY <1>4, <1>5

\* A ledger that starts again has forgotten every market.
LEMMA RestartForgets ==
    ASSUME LedgerTypeOK, Remembers, HistoryJoins, LedgerRestart
    PROVE  Remembers' /\ HistoryJoins'
<1>1. /\ crashes' = crashes + 1 /\ crashes \in Nat /\ history' = history
      /\ prevState' = [m \in Markets |-> "UNKNOWN"]
  BY DEF LedgerRestart, LedgerTypeOK, tableVars
<1>2. \A k \in DOMAIN history : history[k].market \in Markets /\ history[k].life \in Nat
  BY RowFacts
<1>3. \A k \in DOMAIN history : history[k].life < crashes + 1 /\ history[k].life <= crashes + 1
  BY <1>1, <1>2 DEF Remembers
<1>4. Remembers'
  BY <1>1, <1>2, <1>3 DEF Remembers
<1> QED
  BY <1>1, <1>4 DEF HistoryJoins

LEMMA LedgerStepHistory ==
    LedgerTypeOK /\ Remembers /\ HistoryJoins /\ [LedgerNext]_ledgerVars => Remembers' /\ HistoryJoins'
<1> SUFFICES ASSUME LedgerTypeOK, Remembers, HistoryJoins, [LedgerNext]_ledgerVars
             PROVE  Remembers' /\ HistoryJoins'
  OBVIOUS
<1>1. CASE PersistStatus
  <2>1. taken \in Seq(Updates) /\ taken # <<>>
    BY <1>1 DEF LedgerTypeOK, PersistStatus, Persisting, MessagesOf
  <2>2. Head(taken) \in Updates
    BY <2>1, TailFacts
  <2> DEFINE update == Head(taken)
  <2>3. /\ prevState' = [prevState EXCEPT ![update.market] = update.state] /\ UNCHANGED crashes
        /\ \/ WriteVenueStatus(update, prevState[update.market]) /\ missed' = missed \ {update.market}
           \/ history' = history /\ missed' = missed \cup {update.market}
    BY <1>1 DEF PersistStatus, tableVars
  <2> HIDE DEF update
  <2>4. update \in Updates
    BY <2>2 DEF update
  <2> QED
    BY <2>3, <2>4, RowJoins, RowRefused
<1>2. CASE LedgerRestart
  BY <1>2, RestartForgets
<1>3. CASE UNCHANGED <<history, prevState, missed, crashes>>
  BY <1>3 DEF Remembers, HistoryJoins, IsLast
<1>4. \/ PersistStatus \/ LedgerRestart \/ UNCHANGED <<history, prevState, missed, crashes>>
  BY DEF LedgerNext, Publish, PublishStatus, DrainAll, ReadMessages, PersistRecord, WriteFill,
     WriteIntent, Ack, ledgerVars, streamVars, readVars, tableVars
<1> QED
  BY <1>1, <1>2, <1>3, <1>4

LEMMA LedgerSteps == LedgerInv /\ [LedgerNext]_ledgerVars => LedgerInv'
BY LedgerStepType, LedgerStepFills, LedgerStepHistory DEF LedgerInv

-----------------------------------------------------------------------------

\* However the streams are read, whatever Postgres refuses and however often the ledger
\* starts again, a fill has one row at most (drainAll and persistMsg, src/cmd/ledger/main.go).
THEOREM FillsCountedOnceHolds == LedgerSpec => []FillsCountedOnce
<1>1. LedgerInv => FillsCountedOnce
  BY DEF LedgerInv, EachFillOnce
<1> QED
  BY LedgerStarts, LedgerSteps, <1>1, PTL DEF LedgerSpec

\* A row of a market's history starts where the one before it ended, unless an update in
\* between was refused or the ledger started again (persistMsg, src/cmd/ledger/main.go).
THEOREM HistoryJoinsHolds == LedgerSpec => []HistoryJoins
<1>1. LedgerInv => HistoryJoins
  BY DEF LedgerInv
<1> QED
  BY LedgerStarts, LedgerSteps, <1>1, PTL DEF LedgerSpec

-----------------------------------------------------------------------------
\* The matching of disposals.

Matchings == Sells \X Buys

\* The trades do not change, and there are finitely many.
SortedOK == sorted \in Seq(Trades) /\ Chronological(sorted)

LEMMA TradeTypes ==
    ASSUME SortedOK
    PROVE  /\ Len(sorted) \in Nat /\ DOMAIN sorted = 1..Len(sorted)
           /\ \A k \in DOMAIN sorted : /\ sorted[k].qty \in Nat /\ sorted[k].unit \in Int
                                       /\ sorted[k].day \in Int /\ sorted[k].sells \in BOOLEAN
           /\ IsFiniteSet(DOMAIN sorted) /\ IsFiniteSet(Sells) /\ IsFiniteSet(Buys)
           /\ Sells \subseteq DOMAIN sorted /\ Buys \subseteq DOMAIN sorted
<1>1. Len(sorted) \in Nat /\ DOMAIN sorted = 1..Len(sorted)
  BY DEF SortedOK
<1>2. \A k \in DOMAIN sorted : sorted[k] \in Trades
  BY <1>1 DEF SortedOK
<1>3. \A k \in DOMAIN sorted : sorted[k] \in [sells : BOOLEAN, day : Int, qty : Nat, unit : Int]
  BY <1>2, TaxAssumption
<1>4. IsFiniteSet(DOMAIN sorted)
  BY <1>1, FS_Interval
<1>5. Sells \subseteq DOMAIN sorted /\ Buys \subseteq DOMAIN sorted
  BY DEF Sells, Buys
<1> QED BY <1>1, <1>3, <1>4, <1>5, FS_Subset

\* The trades up to which the pool has come.
Here == IF phase \in {"section-104", "done"} THEN turn[1] ELSE 0

TaxTypeOK ==
    /\ SortedOK
    /\ carried \in [qty : Nat, cost : Int] /\ pool \in [qty : Nat, cost : Int]
    /\ remaining \in [DOMAIN sorted -> Nat] /\ matched \in [Matchings -> Nat]
    /\ drawn \in [Sells -> Nat] /\ cost \in [Sells -> Int]
    /\ phase \in {"same-day", "30-day", "section-104", "done"}
    /\ turn \in Nat \X Nat /\ Here <= Len(sorted)
    /\ phase = "done" => Here = Len(sorted)

\* The pairs that had their turn.
HadTurn(p) ==
    \/ Rank(p) = 0 /\ (phase = "same-day" => ~Before(turn, p))
    \/ /\ Rank(p) \in 1..MatchWindow /\ phase # "same-day"
       /\ phase = "30-day" => ~Before(turn, p)

\* The order of the rules, and of the two loops in each.
Later(p, q) ==
    \/ Rank(p) = 0 /\ Rank(q) # 0
    \/ (Rank(p) = 0) = (Rank(q) = 0) /\ Before(p, q)

NotYet == \A p \in Matchings : ~HadTurn(p) => matched[p] = 0

\* What is left of a trade is what was not matched or drawn.
SaleAdds == \A s \in Sells : sorted[s].qty = remaining[s] + MatchedOf(s) + drawn[s]
BuyAdds == \A b \in Buys :
    IF b <= Here THEN remaining[b] = 0 ELSE sorted[b].qty = remaining[b] + MatchedWith(b)

\* A pair that had its turn left one of the two with nothing for what comes later.
SaleServed(p) ==
    /\ remaining[p[1]] = 0 /\ drawn[p[1]] = 0
    /\ \A b \in Buys : Later(p, <<p[1], b>>) => matched[<<p[1], b>>] = 0
BuyUsed(p) ==
    /\ remaining[p[2]] = 0 /\ sorted[p[2]].qty = MatchedWith(p[2])
    /\ \A s \in Sells : Later(p, <<s, p[2]>>) => matched[<<s, p[2]>>] = 0
OneServed == \A p \in Matchings : HadTurn(p) => SaleServed(p) \/ BuyUsed(p)

\* The pool holds what was put in and not drawn.
PoolAdds ==
    /\ \A s \in Sells : s > Here => drawn[s] = 0 /\ cost[s] = 0
    /\ pool.qty = PoolAfter(Here)
    /\ \A k \in 1..Here : /\ PoolAfter(k) >= 0
                          /\ k \in Sells /\ remaining[k] > 0 => PoolAfter(k) = 0

\* Every pound is with an acquisition, in the pool or with a disposal.
Unmatched == [k \in DOMAIN sorted |-> IF sorted[k].sells THEN 0 ELSE remaining[k] * sorted[k].unit]
Costs == [s \in Sells |-> PaidFor(s) + cost[s]]
CostAdds ==
    carried.cost + SumFunctionOnSet(Expense, DOMAIN sorted)
        = pool.cost + SumFunctionOnSet(Unmatched, DOMAIN sorted) + SumFunctionOnSet(Costs, Sells)

\* A disposal reports what it was matched with and what it has of the pool.
ResultsOK == phase = "done" => \A s \in Sells :
    disposals[s].qty = MatchedOf(s) + drawn[s] /\ disposals[s].cost = PaidFor(s) + cost[s]

TaxInv ==
    TaxTypeOK /\ NotYet /\ SaleAdds /\ BuyAdds /\ OneServed /\ PoolAdds /\ CostAdds /\ ResultsOK

-----------------------------------------------------------------------------
\* The sums.

LEMMA SumTypes ==
    ASSUME TaxTypeOK
    PROVE  /\ \A s \in Sells : MatchedOf(s) \in Nat /\ PaidFor(s) \in Int
           /\ \A b \in Buys : MatchedWith(b) \in Nat
           /\ \A k \in DOMAIN sorted : Pooled[k] \in Int /\ Expense[k] \in Int /\ Unmatched[k] \in Int
           /\ \A s \in Sells : Costs[s] \in Int
           /\ \A k \in 0..Len(sorted) : PoolAfter(k) \in Int
<1>1. /\ IsFiniteSet(DOMAIN sorted) /\ IsFiniteSet(Sells) /\ IsFiniteSet(Buys)
      /\ Sells \subseteq DOMAIN sorted /\ Buys \subseteq DOMAIN sorted
      /\ Len(sorted) \in Nat /\ DOMAIN sorted = 1..Len(sorted)
      /\ \A k \in DOMAIN sorted : sorted[k].qty \in Nat /\ sorted[k].unit \in Int /\ sorted[k].sells \in BOOLEAN
  BY TradeTypes DEF TaxTypeOK
<1>2. \A s \in Sells, b \in Buys : matched[<<s, b>>] \in Nat
  BY DEF TaxTypeOK, Matchings
<1>3. ASSUME NEW s \in Sells PROVE MatchedOf(s) \in Nat /\ PaidFor(s) \in Int
  <2>1. \A b \in Buys : matched[<<s, b>>] * sorted[b].unit \in Int
    BY <1>1, <1>2
  <2> QED BY <1>1, <1>2, <2>1, SumNat, SumInt DEF MatchedOf, PaidFor
<1>4. ASSUME NEW b \in Buys PROVE MatchedWith(b) \in Nat
  BY <1>1, <1>2, SumNat DEF MatchedWith
<1>5. ASSUME NEW k \in DOMAIN sorted
      PROVE  Pooled[k] \in Int /\ Expense[k] \in Int /\ Unmatched[k] \in Int
  <2>1. (k \in Sells /\ drawn[k] \in Nat /\ sorted[k].sells = TRUE) \/ (k \in Buys /\ sorted[k].sells = FALSE)
    BY <1>1 DEF Sells, Buys, TaxTypeOK
  <2>2. remaining[k] \in Nat
    BY DEF TaxTypeOK
  <2>3. sorted[k].qty * sorted[k].unit \in Int /\ remaining[k] * sorted[k].unit \in Int
    BY <1>1, <2>2
  <2>4. Pooled[k] = IF sorted[k].sells THEN -drawn[k] ELSE sorted[k].qty - MatchedWith(k)
    BY DEF Pooled
  <2>5. Pooled[k] \in Int
    BY <1>1, <1>4, <2>1, <2>4
  <2> QED BY <2>3, <2>5 DEF Expense, Unmatched
<1>6. ASSUME NEW s \in Sells PROVE Costs[s] \in Int
  <2>1. cost[s] \in Int
    BY DEF TaxTypeOK
  <2> QED BY <1>3, <2>1 DEF Costs
<1>7. ASSUME NEW k \in 0..Len(sorted) PROVE PoolAfter(k) \in Int
  <2>1. 1..k \subseteq DOMAIN sorted
    BY <1>1
  <2>2. IsFiniteSet(1..k)
    BY <1>1, <2>1, FS_Subset
  <2>3. \A j \in 1..k : Pooled[j] \in Int
    BY <1>5, <2>1
  <2>4. SumFunctionOnSet(Pooled, 1..k) \in Int
    BY <2>2, <2>3, SumInt
  <2> QED BY <2>4 DEF PoolAfter, TaxTypeOK
<1> QED BY <1>3, <1>4, <1>5, <1>6, <1>7

\* A match adds to the sums of its two trades, and to no other.
LEMMA MatchSums ==
    ASSUME TaxTypeOK, NEW p \in Matchings, NEW q \in Nat, sorted' = sorted,
           matched' = [matched EXCEPT ![p] = @ + q]
    PROVE  /\ \A s \in Sells : MatchedOf(s)' = IF s = p[1] THEN MatchedOf(s) + q ELSE MatchedOf(s)
           /\ \A b \in Buys : MatchedWith(b)' = IF b = p[2] THEN MatchedWith(b) + q ELSE MatchedWith(b)
           /\ \A s \in Sells : PaidFor(s)' = IF s = p[1] THEN PaidFor(s) + q * sorted[p[2]].unit ELSE PaidFor(s)
<1>1. /\ IsFiniteSet(Sells) /\ IsFiniteSet(Buys) /\ Buys \subseteq DOMAIN sorted
      /\ \A k \in DOMAIN sorted : sorted[k].unit \in Int
  BY TradeTypes DEF TaxTypeOK
<1>2. p[1] \in Sells /\ p[2] \in Buys /\ p = <<p[1], p[2]>>
  BY DEF Matchings
<1>3. \A s \in Sells, b \in Buys : matched[<<s, b>>] \in Nat /\ <<s, b>> \in Matchings
  BY DEF TaxTypeOK, Matchings
<1>4. \A s \in Sells, b \in Buys :
        matched'[<<s, b>>] = IF s = p[1] /\ b = p[2] THEN matched[<<s, b>>] + q ELSE matched[<<s, b>>]
  <2>1. \A r \in Matchings : matched'[r] = IF r = p THEN matched[r] + q ELSE matched[r]
    BY DEF TaxTypeOK
  <2>2. ASSUME NEW s \in Sells, NEW b \in Buys PROVE <<s, b>> = p <=> s = p[1] /\ b = p[2]
    BY <1>2
  <2> QED BY <1>3, <2>1, <2>2
<1>5. Sells' = Sells /\ Buys' = Buys
  BY DEF Sells, Buys
<1> DEFINE Row(s) == [b \in Buys |-> matched[<<s, b>>]]
           RowNow(s) == [b \in Buys |-> matched'[<<s, b>>]]
           Paid(s) == [b \in Buys |-> matched[<<s, b>>] * sorted[b].unit]
           PaidNow(s) == [b \in Buys |-> matched'[<<s, b>>] * sorted[b].unit]
           Col(b) == [s \in Sells |-> matched[<<s, b>>]]
           ColNow(b) == [s \in Sells |-> matched'[<<s, b>>]]
<1>6. ASSUME NEW s \in Sells
      PROVE  /\ MatchedOf(s) = SumFunctionOnSet(Row(s), Buys) /\ MatchedOf(s)' = SumFunctionOnSet(RowNow(s), Buys)
             /\ PaidFor(s) = SumFunctionOnSet(Paid(s), Buys) /\ PaidFor(s)' = SumFunctionOnSet(PaidNow(s), Buys)
  BY <1>5 DEF MatchedOf, PaidFor
<1>7. ASSUME NEW b \in Buys
      PROVE  MatchedWith(b) = SumFunctionOnSet(Col(b), Sells) /\ MatchedWith(b)' = SumFunctionOnSet(ColNow(b), Sells)
  BY <1>5 DEF MatchedWith
<1>8. ASSUME NEW s \in Sells PROVE MatchedOf(s)' = IF s = p[1] THEN MatchedOf(s) + q ELSE MatchedOf(s)
  <2>1. \A b \in Buys : Row(s)[b] \in Int /\ RowNow(s)[b] \in Int
    BY <1>3, <1>4
  <2>2. CASE s = p[1]
    <3>1. RowNow(s)[p[2]] = Row(s)[p[2]] + q /\ \A b \in Buys : b # p[2] => RowNow(s)[b] = Row(s)[b]
      BY <1>2, <1>4, <2>2
    <3> HIDE DEF Row, RowNow
    <3>2. SumFunctionOnSet(RowNow(s), Buys) = SumFunctionOnSet(Row(s), Buys) + q
      BY <1>1, <1>2, <2>1, <3>1, SumUpdate
    <3> QED BY <1>6, <2>2, <3>2
  <2>3. CASE s # p[1]
    <3>1. \A b \in Buys : Row(s)[b] = RowNow(s)[b]
      BY <1>4, <2>3
    <3> HIDE DEF Row, RowNow
    <3>2. SumFunctionOnSet(RowNow(s), Buys) = SumFunctionOnSet(Row(s), Buys)
      BY <1>1, <2>1, <3>1, SumSame
    <3> QED BY <1>6, <2>3, <3>2
  <2> QED BY <2>2, <2>3
<1>9. ASSUME NEW b \in Buys PROVE MatchedWith(b)' = IF b = p[2] THEN MatchedWith(b) + q ELSE MatchedWith(b)
  <2>1. \A s \in Sells : Col(b)[s] \in Int /\ ColNow(b)[s] \in Int
    BY <1>3, <1>4
  <2>2. CASE b = p[2]
    <3>1. ColNow(b)[p[1]] = Col(b)[p[1]] + q /\ \A s \in Sells : s # p[1] => ColNow(b)[s] = Col(b)[s]
      BY <1>2, <1>4, <2>2
    <3> HIDE DEF Col, ColNow
    <3>2. SumFunctionOnSet(ColNow(b), Sells) = SumFunctionOnSet(Col(b), Sells) + q
      BY <1>1, <1>2, <2>1, <3>1, SumUpdate
    <3> QED BY <1>7, <2>2, <3>2
  <2>3. CASE b # p[2]
    <3>1. \A s \in Sells : Col(b)[s] = ColNow(b)[s]
      BY <1>4, <2>3
    <3> HIDE DEF Col, ColNow
    <3>2. SumFunctionOnSet(ColNow(b), Sells) = SumFunctionOnSet(Col(b), Sells)
      BY <1>1, <2>1, <3>1, SumSame
    <3> QED BY <1>7, <2>3, <3>2
  <2> QED BY <2>2, <2>3
<1>10. ASSUME NEW s \in Sells
       PROVE  PaidFor(s)' = IF s = p[1] THEN PaidFor(s) + q * sorted[p[2]].unit ELSE PaidFor(s)
  <2>1. \A b \in Buys : Paid(s)[b] \in Int /\ PaidNow(s)[b] \in Int
    BY <1>1, <1>3, <1>4
  <2>2. CASE s = p[1]
    <3>1. \A m, u \in Int : (m + q) * u = m * u + q * u
      OBVIOUS
    <3>2. /\ PaidNow(s)[p[2]] = Paid(s)[p[2]] + q * sorted[p[2]].unit
          /\ \A b \in Buys : b # p[2] => PaidNow(s)[b] = Paid(s)[b]
      <4>1. matched'[<<s, p[2]>>] = matched[<<s, p[2]>>] + q
        BY <1>2, <1>4, <2>2
      <4>2. matched[<<s, p[2]>>] \in Int /\ sorted[p[2]].unit \in Int
        BY <1>1, <1>2, <1>3
      <4>3. matched'[<<s, p[2]>>] * sorted[p[2]].unit
              = matched[<<s, p[2]>>] * sorted[p[2]].unit + q * sorted[p[2]].unit
        BY <3>1, <4>1, <4>2
      <4>4. \A b \in Buys : b # p[2] => matched'[<<s, b>>] = matched[<<s, b>>]
        BY <1>4
      <4> QED BY <1>2, <4>3, <4>4
    <3>3. q * sorted[p[2]].unit \in Int
      BY <1>1, <1>2
    <3> HIDE DEF Paid, PaidNow
    <3> DEFINE d == q * sorted[p[2]].unit
    <3>4. d \in Int /\ PaidNow(s)[p[2]] = Paid(s)[p[2]] + d
      BY <3>2, <3>3
    <3> HIDE DEF d
    <3>5. SumFunctionOnSet(PaidNow(s), Buys) = SumFunctionOnSet(Paid(s), Buys) + d
      BY <1>1, <1>2, <2>1, <3>2, <3>4, SumUpdate
    <3> QED BY <1>6, <2>2, <3>5 DEF d
  <2>3. CASE s # p[1]
    <3>1. \A b \in Buys : Paid(s)[b] = PaidNow(s)[b]
      BY <1>4, <2>3
    <3> HIDE DEF Paid, PaidNow
    <3>2. SumFunctionOnSet(PaidNow(s), Buys) = SumFunctionOnSet(Paid(s), Buys)
      BY <1>1, <2>1, <3>1, SumSame
    <3> QED BY <1>6, <2>3, <3>2
  <2> QED BY <2>2, <2>3
<1> QED BY <1>8, <1>9, <1>10

-----------------------------------------------------------------------------
\* A pass over the pairs.

InPass(gaps) == (phase = "same-day" /\ gaps = {0}) \/ (phase = "30-day" /\ gaps = 1..MatchWindow)

PairMatched(p, gaps) ==
    /\ p \in ToCome(gaps) /\ \A q \in ToCome(gaps) : q = p \/ Before(p, q)
    /\ matched' = [matched EXCEPT ![p] = @ + Less(remaining[p[1]], remaining[p[2]])]
    /\ remaining' = [k \in DOMAIN sorted |-> IF k \in {p[1], p[2]}
                        THEN remaining[k] - Less(remaining[p[1]], remaining[p[2]]) ELSE remaining[k]]
    /\ turn' = p
    /\ UNCHANGED <<phase, sorted, drawn, cost, carried, pool, disposals>>

LEMMA PairTypes ==
    ASSUME SortedOK
    PROVE  \A p \in Matchings :
             /\ p = <<p[1], p[2]>> /\ p[1] \in Sells /\ p[2] \in Buys /\ p[1] # p[2]
             /\ p[1] \in 1..Len(sorted) /\ p[2] \in 1..Len(sorted) /\ Rank(p) \in Int
<1>1. /\ Len(sorted) \in Nat /\ DOMAIN sorted = 1..Len(sorted)
      /\ Sells \subseteq DOMAIN sorted /\ Buys \subseteq DOMAIN sorted
      /\ \A k \in DOMAIN sorted : sorted[k].day \in Int
  BY TradeTypes
<1>2. Sells \cap Buys = {}
  BY DEF Buys
<1> SUFFICES ASSUME NEW p \in Matchings
             PROVE  /\ p = <<p[1], p[2]>> /\ p[1] \in Sells /\ p[2] \in Buys /\ p[1] # p[2]
                    /\ p[1] \in 1..Len(sorted) /\ p[2] \in 1..Len(sorted) /\ Rank(p) \in Int
  OBVIOUS
<1>3. p = <<p[1], p[2]>> /\ p[1] \in Sells /\ p[2] \in Buys
  BY DEF Matchings
<1> QED BY <1>1, <1>2, <1>3 DEF Rank

\* The order of the loops is total.
LEMMA BeforeOrder ==
    ASSUME NEW p \in Nat \X Nat, NEW q \in Nat \X Nat, NEW r \in Nat \X Nat
    PROVE  /\ ~Before(p, p) /\ (Before(p, q) \/ Before(q, p) \/ p = q) /\ ~(Before(p, q) /\ Before(q, p))
           /\ Before(p, q) /\ Before(q, r) => Before(p, r)
<1>1. /\ p = <<p[1], p[2]>> /\ q = <<q[1], q[2]>> /\ r = <<r[1], r[2]>>
      /\ p[1] \in Nat /\ p[2] \in Nat /\ q[1] \in Nat /\ q[2] \in Nat /\ r[1] \in Nat /\ r[2] \in Nat
  OBVIOUS
<1>2. p = q <=> p[1] = q[1] /\ p[2] = q[2]
  BY <1>1
<1> QED BY <1>1, <1>2 DEF Before

\* The pair has had its turn then, besides those that had theirs.
LEMMA PairTurn ==
    ASSUME TaxTypeOK, NEW gaps, InPass(gaps), NEW p, PairMatched(p, gaps)
    PROVE  /\ p \in Matchings /\ ~HadTurn(p)
           /\ \A q \in Matchings : Rank(q)' = Rank(q) /\ (HadTurn(q)' <=> HadTurn(q) \/ q = p)
           /\ \A q \in Matchings : Later(p, q) => ~HadTurn(q) /\ q # p
<1>1. p \in Matchings /\ Rank(p) \in gaps /\ Before(turn, p)
  BY DEF PairMatched, ToCome, Matchings
<1>2. Matchings \subseteq Nat \X Nat /\ turn \in Nat \X Nat
  BY PairTypes DEF TaxTypeOK
<1>3. \A q \in Matchings : Rank(q) \in Int
  BY PairTypes DEF TaxTypeOK
<1>4. MatchWindow \in Nat
  BY TaxAssumption
<1>5. ~HadTurn(p)
  BY <1>1, <1>4 DEF HadTurn, InPass
<1>6. ASSUME NEW q \in Matchings PROVE Rank(q)' = Rank(q) /\ (HadTurn(q)' <=> HadTurn(q) \/ q = p)
  <2>1. Rank(q)' = Rank(q)
    BY DEF Rank, PairMatched
  <2>2. turn' = p /\ phase' = phase
    BY DEF PairMatched
  <2>3. Rank(q) \in gaps => (~Before(p, q) <=> ~Before(turn, q) \/ q = p)
    <3>1. ASSUME Rank(q) \in gaps, Before(turn, q), q # p PROVE Before(p, q)
      BY <3>1 DEF PairMatched, ToCome, Matchings
    <3>2. ASSUME Before(p, q) PROVE Before(turn, q) /\ q # p
      BY <1>1, <1>2, <3>2, BeforeOrder
    <3> QED BY <3>1, <3>2
  <2>4. HadTurn(q)' <=> (\/ Rank(q) = 0 /\ (phase = "same-day" => ~Before(p, q))
                         \/ /\ Rank(q) \in 1..MatchWindow /\ phase # "same-day"
                            /\ phase = "30-day" => ~Before(p, q))
    BY <2>1, <2>2 DEF HadTurn
  <2>5. CASE phase = "same-day" /\ gaps = {0}
    BY <1>1, <1>3, <2>1, <2>3, <2>4, <2>5 DEF HadTurn
  <2>6. CASE phase = "30-day" /\ gaps = 1..MatchWindow
    BY <1>1, <1>3, <1>4, <2>1, <2>3, <2>4, <2>6 DEF HadTurn
  <2> QED BY <2>5, <2>6 DEF InPass
<1>7. ASSUME NEW q \in Matchings, Later(p, q) PROVE ~HadTurn(q) /\ q # p
  <2>1. Before(p, q) => Before(turn, q) /\ q # p
    BY <1>1, <1>2, BeforeOrder
  <2>2. CASE phase = "same-day" /\ gaps = {0}
    BY <1>1, <1>3, <1>7, <2>1, <2>2 DEF HadTurn, Later
  <2>3. CASE phase = "30-day" /\ gaps = 1..MatchWindow
    BY <1>1, <1>3, <1>4, <1>7, <2>1, <2>3 DEF HadTurn, Later
  <2> QED BY <2>2, <2>3 DEF InPass
<1> QED BY <1>1, <1>5, <1>6, <1>7

\* What is matched is left of neither, and one of the two has nothing left.
LEMMA PairQty ==
    ASSUME TaxTypeOK, NEW gaps, InPass(gaps), NEW p, PairMatched(p, gaps)
    PROVE  \E q \in Nat :
             /\ matched' = [matched EXCEPT ![p] = @ + q]
             /\ remaining' \in [DOMAIN sorted -> Nat]
             /\ \A k \in DOMAIN sorted :
                    remaining[k] = IF k \in {p[1], p[2]} THEN remaining'[k] + q ELSE remaining'[k]
             /\ remaining'[p[1]] = 0 \/ remaining'[p[2]] = 0
<1> DEFINE q == Less(remaining[p[1]], remaining[p[2]])
<1>1. p[1] \in DOMAIN sorted /\ p[2] \in DOMAIN sorted
  BY TradeTypes, PairTurn, PairTypes DEF TaxTypeOK
<1>2. \A k \in DOMAIN sorted : remaining[k] \in Nat
  BY DEF TaxTypeOK
<1>3. /\ q \in Nat /\ q <= remaining[p[1]] /\ q <= remaining[p[2]]
      /\ q = remaining[p[1]] \/ q = remaining[p[2]]
  BY <1>1, <1>2 DEF Less
<1>4. /\ matched' = [matched EXCEPT ![p] = @ + q]
      /\ remaining' = [k \in DOMAIN sorted |-> IF k \in {p[1], p[2]} THEN remaining[k] - q ELSE remaining[k]]
  BY DEF PairMatched
<1> HIDE DEF q
<1>5. \A k \in DOMAIN sorted : remaining'[k] = IF k \in {p[1], p[2]} THEN remaining[k] - q ELSE remaining[k]
  BY <1>4
<1>6. \A k \in DOMAIN sorted :
        /\ remaining'[k] \in Nat
        /\ remaining[k] = IF k \in {p[1], p[2]} THEN remaining'[k] + q ELSE remaining'[k]
  BY <1>1, <1>2, <1>3, <1>5
<1>7. remaining' \in [DOMAIN sorted -> Nat]
  BY <1>4, <1>6
<1>8. remaining'[p[1]] = 0 \/ remaining'[p[2]] = 0
  BY <1>1, <1>2, <1>3, <1>5
<1> QED BY <1>3, <1>4, <1>6, <1>7, <1>8

LEMMA PairFrame ==
    ASSUME TaxTypeOK, NEW gaps, InPass(gaps), NEW p, PairMatched(p, gaps)
    PROVE  /\ Sells' = Sells /\ Buys' = Buys /\ Matchings' = Matchings
           /\ Here = 0 /\ Here' = 0 /\ TaxTypeOK'
<1>1. UNCHANGED <<phase, sorted, drawn, cost, carried, pool>> /\ turn' = p
  BY DEF PairMatched
<1>2. Sells' = Sells /\ Buys' = Buys
  BY <1>1 DEF Sells, Buys
<1>3. Matchings' = Matchings
  BY <1>2 DEF Matchings
<1>4. Here = 0 /\ Here' = 0 /\ phase \in {"same-day", "30-day"}
  BY <1>1 DEF Here, InPass
<1>5. p \in Matchings
  BY PairTurn
<1>6. p \in Nat \X Nat
  BY <1>5, PairTypes DEF TaxTypeOK
<1>7. PICK q \in Nat : /\ matched' = [matched EXCEPT ![p] = @ + q]
                       /\ remaining' \in [DOMAIN sorted -> Nat]
  BY PairQty
<1>8. matched' \in [Matchings -> Nat]
  <2>1. matched \in [Matchings -> Nat]
    BY DEF TaxTypeOK
  <2>2. matched[p] + q \in Nat
    BY <1>5, <2>1
  <2> QED BY <1>7, <2>1, <2>2
<1>9. Len(sorted) \in Nat /\ SortedOK'
  BY <1>1, TradeTypes DEF TaxTypeOK, SortedOK, Chronological
<1> QED BY <1>1, <1>2, <1>3, <1>4, <1>6, <1>7, <1>8, <1>9 DEF TaxTypeOK

\* Nothing is matched twice, and nothing out of its turn.
LEMMA PairServes ==
    ASSUME TaxInv, NEW gaps, InPass(gaps), NEW p, PairMatched(p, gaps)
    PROVE  NotYet' /\ SaleAdds' /\ BuyAdds' /\ OneServed'
<1> USE DEF TaxInv
<1>1. PICK q \in Nat :
        /\ matched' = [matched EXCEPT ![p] = @ + q]
        /\ remaining' \in [DOMAIN sorted -> Nat]
        /\ \A k \in DOMAIN sorted :
               remaining[k] = IF k \in {p[1], p[2]} THEN remaining'[k] + q ELSE remaining'[k]
        /\ remaining'[p[1]] = 0 \/ remaining'[p[2]] = 0
  BY PairQty
<1>2. /\ Sells' = Sells /\ Buys' = Buys /\ Matchings' = Matchings /\ Here = 0 /\ Here' = 0 /\ TaxTypeOK'
      /\ UNCHANGED <<sorted, drawn>>
  BY PairFrame DEF PairMatched
<1>3. /\ p \in Matchings /\ ~HadTurn(p)
      /\ \A r \in Matchings : Rank(r)' = Rank(r) /\ (HadTurn(r)' <=> HadTurn(r) \/ r = p)
      /\ \A r \in Matchings : Later(p, r) => ~HadTurn(r) /\ r # p
  BY PairTurn
<1>4. /\ \A s \in Sells : MatchedOf(s)' = IF s = p[1] THEN MatchedOf(s) + q ELSE MatchedOf(s)
      /\ \A b \in Buys : MatchedWith(b)' = IF b = p[2] THEN MatchedWith(b) + q ELSE MatchedWith(b)
  BY <1>1, <1>2, <1>3, MatchSums
<1>5. /\ \A s \in Sells : MatchedOf(s) \in Nat
      /\ \A b \in Buys : MatchedWith(b) \in Nat
  BY SumTypes
<1>6. /\ \A k \in DOMAIN sorted : remaining[k] \in Nat /\ remaining'[k] \in Nat
      /\ \A s \in Sells : drawn[s] \in Nat
      /\ \A r \in Matchings : matched[r] \in Nat /\ matched'[r] = IF r = p THEN matched[r] + q ELSE matched[r]
  BY <1>1 DEF TaxTypeOK
<1>7. /\ Sells \subseteq DOMAIN sorted /\ Buys \subseteq DOMAIN sorted /\ Sells \cap Buys = {}
      /\ DOMAIN sorted = 1..Len(sorted) /\ Len(sorted) \in Nat
  BY TradeTypes DEF TaxTypeOK, Buys
<1>8. p = <<p[1], p[2]>> /\ p[1] \in Sells /\ p[2] \in Buys
  BY <1>3, PairTypes DEF TaxTypeOK
<1>9. NotYet'
  BY <1>2, <1>3, <1>6 DEF NotYet
<1>10. SaleAdds'
  <2> SUFFICES ASSUME NEW s \in Sells PROVE sorted[s].qty = remaining'[s] + MatchedOf(s)' + drawn[s]
    BY <1>2 DEF SaleAdds
  <2>1. sorted[s].qty = remaining[s] + MatchedOf(s) + drawn[s]
    BY DEF SaleAdds
  <2>2. remaining[s] = IF s = p[1] THEN remaining'[s] + q ELSE remaining'[s]
    BY <1>1, <1>7, <1>8
  <2> QED BY <1>4, <1>5, <1>6, <1>7, <2>1, <2>2
<1>11. \A b \in Buys : b > 0 /\ sorted[b].qty = remaining[b] + MatchedWith(b)
  BY <1>2, <1>7 DEF BuyAdds
<1>12. \A b \in Buys : sorted[b].qty = remaining'[b] + MatchedWith(b)'
  <2> SUFFICES ASSUME NEW b \in Buys PROVE sorted[b].qty = remaining'[b] + MatchedWith(b)'
    OBVIOUS
  <2>1. remaining[b] = IF b = p[2] THEN remaining'[b] + q ELSE remaining'[b]
    BY <1>1, <1>7, <1>8
  <2> QED BY <1>4, <1>5, <1>6, <1>7, <1>11, <2>1
<1>13. BuyAdds'
  BY <1>2, <1>7, <1>11, <1>12 DEF BuyAdds
<1>14. \A r, t \in Matchings : Later(r, t)' <=> Later(r, t)
  BY <1>3 DEF Later, Before
<1>15. \A s \in Sells, b \in Buys : <<s, b>> \in Matchings
  BY DEF Matchings
<1>16. ASSUME NEW r \in Matchings, HadTurn(r)' PROVE SaleServed(r)' \/ BuyUsed(r)'
  <2>1. r = <<r[1], r[2]>> /\ r[1] \in Sells /\ r[2] \in Buys
    BY PairTypes DEF TaxTypeOK
  <2>2. CASE r = p
    <3>1. \A t \in Matchings : Later(p, t) => matched'[t] = 0
      BY <1>3, <1>6 DEF NotYet
    <3>2. CASE remaining'[p[1]] = 0 /\ drawn[p[1]] = 0
      BY <1>2, <1>8, <1>14, <1>15, <2>2, <3>1, <3>2 DEF SaleServed
    <3>3. CASE remaining'[p[2]] = 0
      <4>1. sorted[p[2]].qty = MatchedWith(p[2])'
        BY <1>4, <1>5, <1>8, <1>12, <3>3
      <4> QED BY <1>2, <1>8, <1>14, <1>15, <2>2, <3>1, <3>3, <4>1 DEF BuyUsed
    <3>4. drawn[p[1]] = 0
      BY <1>2, <1>7, <1>8 DEF PoolAdds
    <3> QED BY <1>1, <3>2, <3>3, <3>4
  <2>3. CASE HadTurn(r) /\ SaleServed(r)
    <3>1. /\ remaining[r[1]] = 0 /\ drawn[r[1]] = 0
          /\ \A b \in Buys : Later(r, <<r[1], b>>) => matched[<<r[1], b>>] = 0
      BY <2>3 DEF SaleServed
    <3>2. remaining'[r[1]] = 0 /\ (r[1] = p[1] => q = 0)
      BY <1>1, <1>6, <1>7, <1>8, <2>1, <3>1
    <3>3. \A b \in Buys : <<r[1], b>> = p => r[1] = p[1]
      BY <1>8
    <3>4. \A b \in Buys : Later(r, <<r[1], b>>) => matched'[<<r[1], b>>] = 0
      BY <1>6, <1>15, <2>1, <3>1, <3>2, <3>3
    <3> QED BY <1>2, <1>14, <1>15, <2>1, <3>1, <3>2, <3>4 DEF SaleServed
  <2>4. CASE HadTurn(r) /\ BuyUsed(r)
    <3>1. /\ remaining[r[2]] = 0 /\ sorted[r[2]].qty = MatchedWith(r[2])
          /\ \A s \in Sells : Later(r, <<s, r[2]>>) => matched[<<s, r[2]>>] = 0
      BY <2>4 DEF BuyUsed
    <3>2. remaining'[r[2]] = 0 /\ (r[2] = p[2] => q = 0)
      BY <1>1, <1>6, <1>7, <1>8, <2>1, <3>1
    <3>3. \A s \in Sells : <<s, r[2]>> = p => r[2] = p[2]
      BY <1>8
    <3>4. \A s \in Sells : Later(r, <<s, r[2]>>) => matched'[<<s, r[2]>>] = 0
      BY <1>6, <1>15, <2>1, <3>1, <3>2, <3>3
    <3>5. sorted[r[2]].qty = MatchedWith(r[2])'
      BY <1>4, <1>5, <2>1, <3>1, <3>2
    <3> QED BY <1>2, <1>14, <1>15, <2>1, <3>1, <3>2, <3>4, <3>5 DEF BuyUsed
  <2> QED BY <1>3, <1>16, <2>2, <2>3, <2>4 DEF OneServed
<1>17. OneServed'
  BY <1>2, <1>16 DEF OneServed
<1> QED BY <1>9, <1>10, <1>13, <1>17

LEMMA ProductLess == ASSUME NEW r \in Int, NEW q \in Int, NEW u \in Int PROVE (r + q) * u = r * u + q * u
  OBVIOUS

\* What is matched goes from the acquisition to the disposal, with its cost.
LEMMA PairCosts ==
    ASSUME TaxInv, NEW gaps, InPass(gaps), NEW p, PairMatched(p, gaps)
    PROVE  CostAdds'
<1> USE DEF TaxInv
<1>1. PICK q \in Nat :
        /\ matched' = [matched EXCEPT ![p] = @ + q]
        /\ remaining' \in [DOMAIN sorted -> Nat]
        /\ \A k \in DOMAIN sorted :
               remaining[k] = IF k \in {p[1], p[2]} THEN remaining'[k] + q ELSE remaining'[k]
  BY PairQty
<1>2. /\ Sells' = Sells /\ TaxTypeOK'
      /\ UNCHANGED <<sorted, cost, pool, carried>>
  BY PairFrame DEF PairMatched
<1>3. p \in Matchings
  BY PairTurn
<1>4. \A s \in Sells : PaidFor(s)' = IF s = p[1] THEN PaidFor(s) + q * sorted[p[2]].unit ELSE PaidFor(s)
  BY <1>1, <1>2, <1>3, MatchSums
<1>5. /\ Sells \subseteq DOMAIN sorted /\ Buys \subseteq DOMAIN sorted /\ Sells \cap Buys = {}
      /\ IsFiniteSet(DOMAIN sorted) /\ IsFiniteSet(Sells)
      /\ \A k \in DOMAIN sorted : sorted[k].unit \in Int /\ sorted[k].sells \in BOOLEAN
  BY TradeTypes DEF TaxTypeOK, Buys
<1>6. p[1] \in Sells /\ p[2] \in Buys /\ sorted[p[1]].sells /\ ~sorted[p[2]].sells
  BY <1>3, PairTypes DEF TaxTypeOK, Sells, Buys
<1> DEFINE paid == q * sorted[p[2]].unit
<1>7. paid \in Int
  BY <1>5, <1>6
<1>8. /\ \A k \in DOMAIN sorted : Unmatched[k] \in Int /\ Unmatched'[k] \in Int
      /\ \A s \in Sells : Costs[s] \in Int /\ Costs'[s] \in Int
  <2>1. /\ \A k \in DOMAIN sorted : Unmatched[k] \in Int
        /\ \A s \in Sells : Costs[s] \in Int
    BY SumTypes
  <2>2. /\ \A k \in DOMAIN sorted : remaining'[k] * sorted[k].unit \in Int
    BY <1>1, <1>5
  <2>3. Unmatched' = [k \in DOMAIN sorted |-> IF sorted[k].sells THEN 0 ELSE remaining'[k] * sorted[k].unit]
    BY <1>2 DEF Unmatched
  <2>4. \A s \in Sells : Costs'[s] = PaidFor(s)' + cost[s]
    BY <1>2 DEF Costs
  <2>5. \A s \in Sells : PaidFor(s) \in Int /\ cost[s] \in Int
    BY SumTypes DEF TaxTypeOK
  <2>6. \A s \in Sells : PaidFor(s)' \in Int
    BY <1>4, <1>7, <2>5
  <2> QED BY <2>1, <2>2, <2>3, <2>4, <2>5, <2>6
<1>9. SumFunctionOnSet(Unmatched', DOMAIN sorted) = SumFunctionOnSet(Unmatched, DOMAIN sorted) + (-paid)
  <2>1. \A k \in DOMAIN sorted : k # p[2] => Unmatched'[k] = Unmatched[k]
    <3>1. ASSUME NEW k \in DOMAIN sorted, k # p[2] PROVE Unmatched'[k] = Unmatched[k]
      <4>1. sorted[k].sells \/ remaining'[k] = remaining[k]
        BY <1>1, <1>6, <3>1
      <4> QED BY <1>2, <4>1 DEF Unmatched
    <3> QED BY <3>1
  <2>2. Unmatched'[p[2]] = Unmatched[p[2]] + (-paid)
    <3>1. remaining[p[2]] = remaining'[p[2]] + q /\ remaining'[p[2]] \in Nat
      BY <1>1, <1>5, <1>6
    <3>2. remaining[p[2]] * sorted[p[2]].unit = remaining'[p[2]] * sorted[p[2]].unit + paid
      BY <1>5, <1>6, <3>1, ProductLess
    <3>3. /\ Unmatched[p[2]] = remaining[p[2]] * sorted[p[2]].unit
          /\ Unmatched'[p[2]] = remaining'[p[2]] * sorted[p[2]].unit
      BY <1>2, <1>5, <1>6 DEF Unmatched
    <3>4. Unmatched[p[2]] \in Int /\ Unmatched'[p[2]] \in Int
      BY <1>5, <1>6, <1>8
    <3> HIDE DEF paid
    <3> QED BY <1>7, <3>2, <3>3, <3>4
  <2>3. p[2] \in DOMAIN sorted /\ -paid \in Int
    BY <1>5, <1>6, <1>7
  <2> HIDE DEF paid
  <2> QED BY <1>5, <1>8, <2>1, <2>2, <2>3, SumUpdate
<1>10. SumFunctionOnSet(Costs', Sells) = SumFunctionOnSet(Costs, Sells) + paid
  <2>1. \A s \in Sells : Costs'[s] = IF s = p[1] THEN Costs[s] + paid ELSE Costs[s]
    <3>1. \A s \in Sells : PaidFor(s) \in Int /\ cost[s] \in Int
      BY SumTypes DEF TaxTypeOK
    <3> HIDE DEF paid
    <3>2. \A s \in Sells : PaidFor(s)' = IF s = p[1] THEN PaidFor(s) + paid ELSE PaidFor(s)
      BY <1>4 DEF paid
    <3>3. \A s \in Sells : Costs'[s] = PaidFor(s)' + cost[s] /\ Costs[s] = PaidFor(s) + cost[s]
      BY <1>2 DEF Costs
    <3> QED BY <1>7, <3>1, <3>2, <3>3
  <2> HIDE DEF paid
  <2> QED BY <1>5, <1>6, <1>7, <1>8, <2>1, SumUpdate
<1>11. Expense' = Expense
  BY <1>2 DEF Expense
<1>12. /\ SumFunctionOnSet(Unmatched, DOMAIN sorted) \in Int /\ SumFunctionOnSet(Costs, Sells) \in Int
       /\ SumFunctionOnSet(Expense, DOMAIN sorted) \in Int /\ pool.cost \in Int /\ carried.cost \in Int
  BY <1>5, <1>8, SumInt, SumTypes DEF TaxTypeOK
<1> HIDE DEF paid
<1> QED BY <1>2, <1>7, <1>9, <1>10, <1>11, <1>12 DEF CostAdds

LEMMA NothingPooled == ASSUME TaxTypeOK PROVE PoolAfter(0) = carried.qty
<1>1. 1..0 = {}
  OBVIOUS
<1> QED BY <1>1, SumEmpty DEF PoolAfter, TaxTypeOK

LEMMA PairKeeps ==
    ASSUME TaxInv, NEW gaps, InPass(gaps), NEW p, PairMatched(p, gaps)
    PROVE  TaxInv'
<1>1. Sells' = Sells /\ Here = 0 /\ Here' = 0 /\ TaxTypeOK' /\ UNCHANGED <<drawn, cost, pool, carried, phase>>
  BY PairFrame DEF TaxInv, PairMatched
<1>2. PoolAdds'
  <2>1. PoolAfter(0) = carried.qty
    BY NothingPooled DEF TaxInv
  <2>2. PoolAfter(0)' = carried.qty
    <3>1. 1..0 = {}
      OBVIOUS
    <3>2. carried.qty \in Nat
      BY DEF TaxInv, TaxTypeOK
    <3> QED BY <1>1, <3>1, <3>2, SumEmpty DEF PoolAfter
  <2>3. PoolAfter(Here)' = carried.qty
    BY <1>1, <2>2 DEF PoolAfter
  <2> QED BY <1>1, <2>1, <2>3 DEF PoolAdds, TaxInv
<1>3. ResultsOK'
  BY <1>1 DEF ResultsOK, InPass
<1> QED BY <1>1, <1>2, <1>3, PairServes, PairCosts DEF TaxInv

\* A pass ends when every pair of it had its turn.
PassOver(gaps, next) ==
    /\ ToCome(gaps) = {} /\ phase' = next /\ turn' = <<0, 0>>
    /\ UNCHANGED <<matched, remaining, sorted, drawn, cost, carried, pool, disposals>>

LEMMA PassKeeps ==
    ASSUME TaxInv, NEW gaps, InPass(gaps), NEW next, PassOver(gaps, next),
           next = IF phase = "same-day" THEN "30-day" ELSE "section-104"
    PROVE  TaxInv'
<1>1. UNCHANGED <<matched, remaining, sorted, drawn, cost, carried, pool, disposals>>
      /\ turn' = <<0, 0>> /\ phase' = next
  BY DEF PassOver
<1>2. /\ Sells' = Sells /\ Buys' = Buys /\ Here = 0 /\ Here' = 0
      /\ phase' \in {"30-day", "section-104"}
  BY <1>1 DEF Here, InPass, Sells, Buys
<1>3. Matchings' = Matchings /\ \A p \in Matchings : Rank(p)' = Rank(p)
  BY <1>1, <1>2 DEF Matchings, Rank
<1>4. ASSUME NEW p \in Matchings PROVE HadTurn(p)' <=> HadTurn(p)
  <2>1. p[1] \in Nat /\ p[1] # 0 /\ Rank(p) \in Int
    BY PairTypes, TradeTypes DEF TaxInv, TaxTypeOK
  <2>2. Before(<<0, 0>>, p)
    BY <2>1 DEF Before
  <2>3. Rank(p) \in gaps => ~Before(turn, p)
    BY DEF PassOver, ToCome, Matchings
  <2>4. HadTurn(p)' <=> (\/ Rank(p) = 0
                         \/ Rank(p) \in 1..MatchWindow /\ next = "section-104")
    BY <1>1, <1>2, <1>3, <2>2 DEF HadTurn
  <2>5. CASE phase = "same-day" /\ gaps = {0}
    BY <2>3, <2>4, <2>5 DEF HadTurn
  <2>6. CASE phase = "30-day" /\ gaps = 1..MatchWindow
    BY <2>3, <2>4, <2>6 DEF HadTurn
  <2> QED BY <2>5, <2>6 DEF InPass
<1>5. TaxTypeOK'
  <2>1. SortedOK'
    BY <1>1 DEF TaxInv, TaxTypeOK, SortedOK, Chronological
  <2>2. Len(sorted) \in Nat
    BY TradeTypes DEF TaxInv, TaxTypeOK
  <2> QED BY <1>1, <1>2, <1>3, <2>1, <2>2 DEF TaxInv, TaxTypeOK
<1>6. NotYet'
  BY <1>1, <1>3, <1>4 DEF TaxInv, NotYet
<1>7. SaleAdds' /\ BuyAdds' /\ CostAdds'
  BY <1>1, <1>2 DEF TaxInv, SaleAdds, BuyAdds, MatchedOf, MatchedWith, CostAdds, Costs, PaidFor, Unmatched, Expense
<1>8. OneServed'
  BY <1>1, <1>2, <1>3, <1>4
     DEF TaxInv, OneServed, SaleServed, BuyUsed, MatchedWith, Later, Rank, Before
<1>9. PoolAdds'
  BY <1>1, <1>2 DEF TaxInv, PoolAdds, PoolAfter, Pooled, MatchedWith
<1>10. ResultsOK'
  BY <1>2 DEF ResultsOK
<1> QED BY <1>5, <1>6, <1>7, <1>8, <1>9, <1>10 DEF TaxInv

LEMMA MatchKeeps ==
    ASSUME TaxInv, NEW gaps, InPass(gaps), NEW next, Match(gaps, next),
           next = IF phase = "same-day" THEN "30-day" ELSE "section-104"
    PROVE  TaxInv'
<1>1. CASE \E p : PairMatched(p, gaps)
  BY <1>1, PairKeeps
<1>2. CASE PassOver(gaps, next)
  BY <1>2, PassKeeps
<1> QED BY <1>1, <1>2, Zenon DEF Match, PairMatched, PassOver

-----------------------------------------------------------------------------
\* The pool.

LEMMA PoolNext ==
    ASSUME TaxTypeOK, NEW k \in DOMAIN sorted
    PROVE  k - 1 \in 0..Len(sorted) /\ PoolAfter(k) = PoolAfter(k - 1) + Pooled[k]
<1>1. /\ DOMAIN sorted = 1..Len(sorted) /\ Len(sorted) \in Nat /\ IsFiniteSet(DOMAIN sorted)
      /\ \A j \in DOMAIN sorted : Pooled[j] \in Int
  BY TradeTypes, SumTypes DEF TaxTypeOK
<1>2. /\ 1..k = (1..(k - 1)) \cup {k} /\ k \notin 1..(k - 1) /\ 1..(k - 1) \subseteq DOMAIN sorted
      /\ k - 1 \in 0..Len(sorted)
  BY <1>1
<1>3. IsFiniteSet(1..(k - 1))
  BY <1>1, <1>2, FS_Subset
<1>4. SumFunctionOnSet(Pooled, 1..k) = SumFunctionOnSet(Pooled, 1..(k - 1)) + Pooled[k]
  BY <1>1, <1>2, <1>3, SumAdd
<1>5. SumFunctionOnSet(Pooled, 1..(k - 1)) \in Int /\ carried.qty \in Nat
  BY <1>1, <1>2, <1>3, SumInt DEF TaxTypeOK
<1> QED BY <1>1, <1>2, <1>4, <1>5 DEF PoolAfter

\* One trade of the third rule.
PoolStep ==
    /\ phase = "section-104" /\ turn[1] < Len(sorted) /\ turn' = <<turn[1] + 1, 0>>
    /\ UNCHANGED <<sorted, matched, carried, phase, disposals>>

LEMMA PoolFrame ==
    ASSUME TaxInv, PoolStep
    PROVE  /\ Sells' = Sells /\ Buys' = Buys /\ Matchings' = Matchings /\ SortedOK'
           /\ Here = turn[1] /\ Here' = Here + 1 /\ Here \in Nat /\ Here + 1 \in DOMAIN sorted
           /\ Here + 1 <= Len(sorted)
           /\ NotYet' /\ ResultsOK' /\ turn' \in Nat \X Nat
           /\ \A p \in Matchings : HadTurn(p)' <=> HadTurn(p)
           /\ \A p, q : Later(p, q)' <=> Later(p, q)
           /\ \A s \in Sells : MatchedOf(s)' = MatchedOf(s) /\ PaidFor(s)' = PaidFor(s)
           /\ \A b \in Buys : MatchedWith(b)' = MatchedWith(b)
           /\ Expense' = Expense
<1>1. /\ phase = "section-104" /\ turn' = <<turn[1] + 1, 0>> /\ turn[1] < Len(sorted)
      /\ UNCHANGED <<sorted, matched, carried, phase, disposals>>
  BY DEF PoolStep
<1>2. Sells' = Sells /\ Buys' = Buys
  BY <1>1 DEF Sells, Buys
<1>3. Len(sorted) \in Nat /\ DOMAIN sorted = 1..Len(sorted) /\ turn[1] \in Nat
  BY TradeTypes DEF TaxInv, TaxTypeOK
<1>4. SortedOK'
  BY <1>1 DEF TaxInv, TaxTypeOK, SortedOK, Chronological
<1>5. Here = turn[1] /\ Here' = turn[1] + 1
  BY <1>1 DEF Here
<1>6. Matchings' = Matchings
  BY <1>2 DEF Matchings
<1>7. \A p \in Matchings : HadTurn(p)' <=> HadTurn(p)
  BY <1>1 DEF HadTurn, Rank
<1>8. NotYet'
  BY <1>1, <1>6, <1>7 DEF TaxInv, NotYet
<1>9. ResultsOK'
  BY <1>1 DEF ResultsOK
<1>10. \A p, q : Later(p, q)' <=> Later(p, q)
  BY <1>1 DEF Later, Rank, Before
<1>11. /\ \A s \in Sells : MatchedOf(s)' = MatchedOf(s) /\ PaidFor(s)' = PaidFor(s)
       /\ \A b \in Buys : MatchedWith(b)' = MatchedWith(b)
       /\ Expense' = Expense
  BY <1>1, <1>2 DEF MatchedOf, PaidFor, MatchedWith, Expense
<1> QED BY <1>1, <1>2, <1>3, <1>4, <1>5, <1>6, <1>7, <1>8, <1>9, <1>10, <1>11

LEMMA JoinKeeps ==
    ASSUME TaxInv, PoolStep, Join(turn[1] + 1)
    PROVE  TaxInv'
<1> DEFINE k == turn[1] + 1
<1> USE DEF TaxInv
<1>1. /\ Sells' = Sells /\ Buys' = Buys /\ Matchings' = Matchings /\ SortedOK'
      /\ Here = turn[1] /\ Here' = k /\ Here \in Nat /\ k \in DOMAIN sorted
      /\ k <= Len(sorted)
      /\ NotYet' /\ ResultsOK' /\ turn' \in Nat \X Nat
      /\ \A p \in Matchings : HadTurn(p)' <=> HadTurn(p)
      /\ \A p, q : Later(p, q)' <=> Later(p, q)
      /\ \A s \in Sells : MatchedOf(s)' = MatchedOf(s) /\ PaidFor(s)' = PaidFor(s)
      /\ \A b \in Buys : MatchedWith(b)' = MatchedWith(b)
      /\ Expense' = Expense
  BY PoolFrame
<1>2. /\ phase = "section-104"
      /\ UNCHANGED <<sorted, matched, carried, phase, disposals, drawn, cost>>
  BY DEF PoolStep, Join
<1>3. /\ k \in Buys
      /\ pool' = [qty |-> pool.qty + remaining[k], cost |-> pool.cost + remaining[k] * sorted[k].unit]
      /\ remaining' = [remaining EXCEPT ![k] = 0]
  BY DEF Join
<1>4. /\ DOMAIN sorted = 1..Len(sorted) /\ Len(sorted) \in Nat
      /\ Sells \subseteq DOMAIN sorted /\ Buys \subseteq DOMAIN sorted /\ k \notin Sells /\ ~sorted[k].sells
      /\ IsFiniteSet(DOMAIN sorted) /\ IsFiniteSet(Sells)
      /\ sorted[k].unit \in Int /\ sorted[k].qty \in Nat
  BY <1>1, <1>3, TradeTypes DEF TaxTypeOK, Buys, Sells
<1> HIDE DEF k
<1>5. /\ \A j \in DOMAIN sorted : remaining[j] \in Nat
      /\ \A j \in DOMAIN sorted : remaining'[j] = IF j = k THEN 0 ELSE remaining[j]
      /\ remaining' \in [DOMAIN sorted -> Nat]
  BY <1>3 DEF TaxTypeOK
<1>6. pool.qty \in Nat /\ pool.cost \in Int /\ carried.qty \in Nat /\ carried.cost \in Int
  BY DEF TaxTypeOK
<1> DEFINE paid == remaining[k] * sorted[k].unit
<1>7. paid \in Int /\ pool'.qty = pool.qty + remaining[k] /\ pool'.cost = pool.cost + paid
      /\ pool' \in [qty : Nat, cost : Int]
  <2>1. remaining[k] \in Nat /\ paid \in Int
    BY <1>1, <1>4, <1>5
  <2>2. pool' = [qty |-> pool.qty + remaining[k], cost |-> pool.cost + paid]
    BY <1>3
  <2> HIDE DEF paid
  <2> QED BY <1>6, <2>1, <2>2
<1> HIDE DEF paid
<1>8. TaxTypeOK'
  BY <1>1, <1>2, <1>4, <1>5, <1>7 DEF TaxTypeOK
<1>9. SaleAdds'
  BY <1>1, <1>2, <1>4, <1>5 DEF SaleAdds
<1>10. remaining[k] = sorted[k].qty - MatchedWith(k)
  <2>1. ~(k <= Here)
    BY <1>1 DEF k
  <2>2. sorted[k].qty = remaining[k] + MatchedWith(k)
    BY <1>3, <2>1 DEF BuyAdds
  <2>3. MatchedWith(k) \in Nat
    BY <1>3, SumTypes
  <2> QED BY <1>1, <1>5, <2>2, <2>3
<1>11. BuyAdds'
  <2> SUFFICES ASSUME NEW b \in Buys
               PROVE  IF b <= k THEN remaining'[b] = 0 ELSE sorted[b].qty = remaining'[b] + MatchedWith(b)
    BY <1>1, <1>2 DEF BuyAdds
  <2>1. b \in 1..Len(sorted)
    BY <1>4
  <2>2. IF b <= Here THEN remaining[b] = 0 ELSE sorted[b].qty = remaining[b] + MatchedWith(b)
    BY DEF BuyAdds
  <2>3. b <= k <=> (b <= Here \/ b = k)
    BY <1>1, <1>4, <2>1 DEF k
  <2> QED BY <1>4, <1>5, <2>1, <2>2, <2>3
<1>12. OneServed'
  <2> SUFFICES ASSUME NEW p \in Matchings, HadTurn(p) PROVE SaleServed(p)' \/ BuyUsed(p)'
    BY <1>1 DEF OneServed
  <2>1. p[1] \in Sells /\ p[2] \in Buys
    BY PairTypes DEF TaxTypeOK
  <2>2. SaleServed(p) \/ BuyUsed(p)
    BY DEF OneServed
  <2>3. CASE SaleServed(p)
    BY <1>1, <1>2, <1>4, <1>5, <2>1, <2>3 DEF SaleServed
  <2>4. CASE BuyUsed(p)
    BY <1>1, <1>2, <1>4, <1>5, <2>1, <2>4 DEF BuyUsed
  <2> QED BY <2>2, <2>3, <2>4
<1>13. PoolAdds'
  <2>1. Pooled' = Pooled
    BY <1>1, <1>2 DEF Pooled, Sells, Buys, MatchedWith
  <2>2. \A j : PoolAfter(j)' = PoolAfter(j)
    BY <1>2, <2>1 DEF PoolAfter
  <2>3. Pooled[k] = remaining[k]
    BY <1>1, <1>4, <1>10 DEF Pooled
  <2>4. PoolAfter(k) = PoolAfter(k - 1) + Pooled[k]
    BY <1>1, PoolNext
  <2>5. k - 1 = Here /\ PoolAfter(Here) = pool.qty
    BY <1>1 DEF PoolAdds, k
  <2>6. PoolAfter(k) = pool'.qty /\ PoolAfter(k) >= 0
    BY <1>1, <1>5, <1>6, <1>7, <2>3, <2>4, <2>5
  <2>7. PoolAfter(Here)' = PoolAfter(k)
    BY <1>1, <1>2, <2>1 DEF PoolAfter
  <2>8. \A j \in 1..k : j = k \/ j \in 1..Here
    BY <1>1, <2>5
  <2>9. \A j \in 1..k : j \in Sells /\ remaining'[j] > 0 => j \in 1..Here /\ remaining[j] > 0
    BY <1>4, <1>5, <2>8
  <2>10. \A s \in Sells : s > k => s > Here
    BY <1>1, <1>4, <2>5
  <2>11. \A s \in Sells : s > Here' => drawn'[s] = 0 /\ cost'[s] = 0
    BY <1>1, <1>2, <2>10 DEF PoolAdds
  <2>12. pool'.qty = PoolAfter(Here)'
    BY <2>6, <2>7
  <2>13. \A j \in 1..Here' : /\ PoolAfter(j)' >= 0
                             /\ j \in Sells' /\ remaining'[j] > 0 => PoolAfter(j)' = 0
    BY <1>1, <2>2, <2>6, <2>8, <2>9, <1>4 DEF PoolAdds
  <2> QED BY <2>11, <2>12, <2>13, <1>1 DEF PoolAdds
<1>14. CostAdds'
  <2>1. \A j \in DOMAIN sorted : Unmatched[j] \in Int
    BY SumTypes
  <2>2. Unmatched' = [j \in DOMAIN sorted |-> IF sorted[j].sells THEN 0 ELSE remaining'[j] * sorted[j].unit]
    BY <1>2 DEF Unmatched
  <2>3. \A j \in DOMAIN sorted : j # k => Unmatched'[j] = Unmatched[j]
    BY <1>5, <2>2 DEF Unmatched
  <2>4. Unmatched'[k] = 0 /\ Unmatched[k] = paid
    BY <1>1, <1>4, <1>5, <2>2 DEF Unmatched, paid
  <2>5. SumFunctionOnSet(Unmatched', DOMAIN sorted) = SumFunctionOnSet(Unmatched, DOMAIN sorted) + (-paid)
    <3>1. Unmatched'[k] = Unmatched[k] + (-paid) /\ -paid \in Int
      BY <1>7, <2>4
    <3>2. \A j \in DOMAIN sorted : Unmatched'[j] \in Int
      BY <2>1, <2>3, <2>4
    <3>3. k \in DOMAIN sorted /\ IsFiniteSet(DOMAIN sorted)
      BY <1>1, <1>4
    <3> QED BY <2>1, <2>3, <3>1, <3>2, <3>3, SumUpdate
  <2>6. Costs' = Costs
    BY <1>1, <1>2 DEF Costs
  <2>7. /\ SumFunctionOnSet(Unmatched, DOMAIN sorted) \in Int /\ SumFunctionOnSet(Costs, Sells) \in Int
        /\ SumFunctionOnSet(Expense, DOMAIN sorted) \in Int
    BY <1>4, SumInt, SumTypes
  <2>8. CostAdds' <=> carried.cost + SumFunctionOnSet(Expense, DOMAIN sorted)
                        = pool'.cost + SumFunctionOnSet(Unmatched', DOMAIN sorted) + SumFunctionOnSet(Costs, Sells)
    BY <1>1, <1>2, <2>6 DEF CostAdds
  <2>9. carried.cost + SumFunctionOnSet(Expense, DOMAIN sorted)
          = pool.cost + SumFunctionOnSet(Unmatched, DOMAIN sorted) + SumFunctionOnSet(Costs, Sells)
    BY DEF CostAdds
  <2>10. pool.cost \in Int /\ paid \in Int /\ pool'.cost = pool.cost + paid
    BY <1>6, <1>7
  <2> QED BY <2>5, <2>7, <2>8, <2>9, <2>10
<1> QED BY <1>1, <1>8, <1>9, <1>11, <1>12, <1>13, <1>14

LEMMA DrawKeeps ==
    ASSUME TaxInv, PoolStep, Draw(turn[1] + 1)
    PROVE  TaxInv'
<1> DEFINE k == turn[1] + 1
           units == Less(remaining[k], pool.qty)
           paid == IF units = 0 THEN 0 ELSE units * (pool.cost \div pool.qty)
<1> USE DEF TaxInv
<1>1. /\ Sells' = Sells /\ Buys' = Buys /\ Matchings' = Matchings /\ SortedOK'
      /\ Here = turn[1] /\ Here' = k /\ Here \in Nat /\ k \in DOMAIN sorted
      /\ k <= Len(sorted)
      /\ NotYet' /\ ResultsOK' /\ turn' \in Nat \X Nat
      /\ \A p \in Matchings : HadTurn(p)' <=> HadTurn(p)
      /\ \A p, q : Later(p, q)' <=> Later(p, q)
      /\ \A s \in Sells : MatchedOf(s)' = MatchedOf(s) /\ PaidFor(s)' = PaidFor(s)
      /\ \A b \in Buys : MatchedWith(b)' = MatchedWith(b)
      /\ Expense' = Expense
  BY PoolFrame
<1>2. /\ phase = "section-104"
      /\ UNCHANGED <<sorted, matched, carried, phase, disposals>>
  BY DEF PoolStep
<1>3. /\ k \in Sells
      /\ pool' = [qty |-> pool.qty - units, cost |-> pool.cost - paid]
      /\ remaining' = [remaining EXCEPT ![k] = @ - units]
      /\ drawn' = [drawn EXCEPT ![k] = units] /\ cost' = [cost EXCEPT ![k] = paid]
  BY DEF Draw
<1>4. /\ DOMAIN sorted = 1..Len(sorted) /\ Len(sorted) \in Nat
      /\ Sells \subseteq DOMAIN sorted /\ Buys \subseteq DOMAIN sorted /\ k \notin Buys /\ sorted[k].sells
      /\ IsFiniteSet(DOMAIN sorted) /\ IsFiniteSet(Sells)
  BY <1>3, TradeTypes DEF TaxTypeOK, Buys, Sells
<1>5. pool.qty \in Nat /\ pool.cost \in Int /\ carried.qty \in Nat /\ carried.cost \in Int
      /\ remaining[k] \in Nat
  BY <1>1 DEF TaxTypeOK
<1>6. units \in Nat /\ units <= remaining[k] /\ units <= pool.qty /\ (units = remaining[k] \/ units = pool.qty)
  BY <1>5 DEF Less
<1>7. paid \in Int
  <2> HIDE DEF units
  <2>1. CASE units = 0
    BY <2>1
  <2>2. CASE units # 0
    <3>1. pool.qty > 0
      BY <1>5, <1>6, <2>2
    <3>2. pool.cost \div pool.qty \in Int
      BY <1>5, <3>1
    <3> QED BY <1>6, <3>2
  <2> QED BY <2>1, <2>2
<1> HIDE DEF k, units, paid
<1>8. /\ \A j \in DOMAIN sorted : remaining[j] \in Nat
      /\ \A j \in DOMAIN sorted : remaining'[j] = IF j = k THEN remaining[k] - units ELSE remaining[j]
      /\ \A s \in Sells : drawn[s] \in Nat /\ drawn'[s] = IF s = k THEN units ELSE drawn[s]
      /\ \A s \in Sells : cost[s] \in Int /\ cost'[s] = IF s = k THEN paid ELSE cost[s]
  BY <1>3 DEF TaxTypeOK
<1>9. /\ remaining' \in [DOMAIN sorted -> Nat] /\ drawn' \in [Sells -> Nat] /\ cost' \in [Sells -> Int]
  <2>1. remaining[k] - units \in Nat
    BY <1>5, <1>6
  <2> QED BY <1>3, <1>6, <1>7, <2>1 DEF TaxTypeOK
<1>10. pool'.qty = pool.qty - units /\ pool'.cost = pool.cost - paid /\ pool' \in [qty : Nat, cost : Int]
  BY <1>3, <1>5, <1>6, <1>7
<1>11. TaxTypeOK'
  BY <1>1, <1>2, <1>4, <1>9, <1>10 DEF TaxTypeOK
<1>12. k > Here /\ drawn[k] = 0 /\ cost[k] = 0 /\ k - 1 = Here
  <2>1. k > Here /\ k - 1 = Here
    BY <1>1 DEF k
  <2> QED BY <1>3, <2>1 DEF PoolAdds
<1>13. SaleAdds'
  <2> SUFFICES ASSUME NEW s \in Sells PROVE sorted[s].qty = remaining'[s] + MatchedOf(s) + drawn'[s]
    BY <1>1, <1>2 DEF SaleAdds
  <2>1. sorted[s].qty = remaining[s] + MatchedOf(s) + drawn[s] /\ MatchedOf(s) \in Nat
    BY SumTypes DEF SaleAdds
  <2>2. s \in DOMAIN sorted /\ remaining[s] \in Nat /\ drawn[s] \in Nat
    BY <1>4, <1>8
  <2>3. CASE s = k
    <3>1. remaining'[s] = remaining[s] - units /\ drawn'[s] = units /\ drawn[s] = 0
      BY <1>8, <1>12, <2>2, <2>3
    <3> QED BY <1>6, <2>1, <2>2, <3>1
  <2>4. CASE s # k
    BY <1>8, <2>1, <2>2, <2>4
  <2> QED BY <2>3, <2>4
<1>14. BuyAdds'
  <2> SUFFICES ASSUME NEW b \in Buys
               PROVE  IF b <= k THEN remaining'[b] = 0 ELSE sorted[b].qty = remaining'[b] + MatchedWith(b)
    BY <1>1, <1>2 DEF BuyAdds
  <2>1. b \in 1..Len(sorted) /\ b # k
    BY <1>4
  <2>2. IF b <= Here THEN remaining[b] = 0 ELSE sorted[b].qty = remaining[b] + MatchedWith(b)
    BY DEF BuyAdds
  <2>3. b <= k <=> b <= Here
    BY <1>1, <1>4, <1>12, <2>1
  <2> QED BY <1>4, <1>8, <2>1, <2>2, <2>3
<1>15. OneServed'
  <2> SUFFICES ASSUME NEW p \in Matchings, HadTurn(p) PROVE SaleServed(p)' \/ BuyUsed(p)'
    BY <1>1 DEF OneServed
  <2>1. p[1] \in Sells /\ p[2] \in Buys
    BY PairTypes DEF TaxTypeOK
  <2>2. SaleServed(p) \/ BuyUsed(p)
    BY DEF OneServed
  <2>3. CASE SaleServed(p)
    <3>1. remaining[p[1]] = 0 /\ drawn[p[1]] = 0
      BY <2>3 DEF SaleServed
    <3>2. remaining'[p[1]] = 0 /\ drawn'[p[1]] = 0
      BY <1>4, <1>5, <1>6, <1>8, <2>1, <3>1
    <3> QED BY <1>1, <1>2, <2>3, <3>2 DEF SaleServed
  <2>4. CASE BuyUsed(p)
    BY <1>1, <1>2, <1>4, <1>8, <2>1, <2>4 DEF BuyUsed
  <2> QED BY <2>2, <2>3, <2>4
<1>16. PoolAdds'
  <2>1. \A j \in DOMAIN sorted : j # k => Pooled'[j] = Pooled[j]
    <3>1. ASSUME NEW j \in DOMAIN sorted, j # k PROVE Pooled'[j] = Pooled[j]
      <4>1. /\ Pooled[j] = IF sorted[j].sells THEN -drawn[j] ELSE sorted[j].qty - MatchedWith(j)
            /\ Pooled'[j] = IF sorted[j].sells THEN -(drawn'[j]) ELSE sorted[j].qty - MatchedWith(j)'
        BY <1>2 DEF Pooled
      <4>2. CASE sorted[j].sells
        <5>1. j \in Sells
          BY <4>2 DEF Sells
        <5> QED BY <1>8, <3>1, <4>1, <4>2, <5>1
      <4>3. CASE ~sorted[j].sells
        <5>1. j \in Buys
          BY <4>3 DEF Sells, Buys
        <5> QED BY <1>1, <4>1, <4>3, <5>1
      <4> QED BY <4>2, <4>3
    <3> QED BY <3>1
  <2>2. Pooled'[k] = -units
    <3>1. Pooled' = [j \in DOMAIN sorted |-> IF sorted[j].sells THEN -(drawn'[j])
                                             ELSE sorted[j].qty - MatchedWith(j)']
      BY <1>2 DEF Pooled
    <3> QED BY <1>1, <1>3, <1>4, <1>8, <3>1
  <2>3. ASSUME NEW j \in 0..Here
        PROVE  SumFunctionOnSet(Pooled', 1..j) = SumFunctionOnSet(Pooled, 1..j) /\ PoolAfter(j)' = PoolAfter(j)
    <3>1. 1..j \subseteq DOMAIN sorted /\ k \notin 1..j
      BY <1>1, <1>4, <1>12
    <3>2. IsFiniteSet(1..j)
      BY <1>4, <3>1, FS_Subset
    <3>3. \A m \in 1..j : Pooled'[m] \in Int /\ Pooled'[m] = Pooled[m]
      BY <2>1, <3>1, SumTypes
    <3>4. SumFunctionOnSet(Pooled', 1..j) = SumFunctionOnSet(Pooled, 1..j)
      BY <3>2, <3>3, SumSame
    <3>5. PoolAfter(j)' = carried.qty + SumFunctionOnSet(Pooled', 1..j)
      BY <1>2 DEF PoolAfter
    <3> QED BY <3>4, <3>5 DEF PoolAfter
  <2>4. PoolAfter(Here) = pool.qty
    BY DEF PoolAdds
  <2>5. carried.qty + SumFunctionOnSet(Pooled', 1..k) = pool'.qty
    <3>1. /\ 1..k = (1..Here) \cup {k} /\ k \notin 1..Here /\ 1..Here \subseteq DOMAIN sorted /\ Here \in 0..Here
      BY <1>1, <1>4, <1>12
    <3>2. IsFiniteSet(1..Here)
      BY <1>4, <3>1, FS_Subset
    <3>3. (\A j \in 1..Here : Pooled[j] \in Int /\ Pooled'[j] = Pooled[j]) /\ Pooled'[k] \in Int
      BY <1>6, <2>1, <2>2, <3>1, SumTypes
    <3>4. SumFunctionOnSet(Pooled', 1..k) = SumFunctionOnSet(Pooled, 1..Here) + (-units)
      <4>1. SumFunctionOnSet(Pooled', (1..Here) \cup {k}) = SumFunctionOnSet(Pooled, 1..Here) + Pooled'[k]
        <5> DEFINE F == 1..Here
        <5>1. /\ IsFiniteSet(F) /\ k \notin F /\ Pooled'[k] \in Int
              /\ \A j \in F : Pooled[j] \in Int /\ Pooled'[j] = Pooled[j]
          BY <3>1, <3>2, <3>3
        <5> HIDE DEF F
        <5>2. SumFunctionOnSet(Pooled', F \cup {k}) = SumFunctionOnSet(Pooled, F) + Pooled'[k]
          BY <5>1, SumExtend
        <5> QED BY <5>2 DEF F
      <4> QED BY <2>2, <3>1, <4>1
    <3>5. SumFunctionOnSet(Pooled, 1..Here) \in Int
      BY <3>2, <3>3, SumInt
    <3>6. carried.qty + SumFunctionOnSet(Pooled, 1..Here) = pool.qty
      BY <2>4 DEF PoolAfter
    <3> QED BY <1>5, <1>6, <1>10, <3>4, <3>5, <3>6
  <2>6. \A j \in 1..k : j = k => PoolAfter(j)' = pool'.qty
    BY <1>2, <2>5 DEF PoolAfter
  <2>7. PoolAfter(Here)' = pool'.qty
    BY <1>1, <1>2, <2>5 DEF PoolAfter
  <2>8. \A j \in 1..k : (j = k /\ remaining'[j] = remaining[k] - units)
                        \/ (j \in 1..Here /\ j \in 0..Here /\ remaining'[j] = remaining[j])
    <3>1. \A j \in 1..k : j \in DOMAIN sorted /\ (j = k \/ (j \in 1..Here /\ j \in 0..Here))
      BY <1>1, <1>4, <1>12
    <3> QED BY <1>8, <3>1
  <2>9. \A s \in Sells : s > Here' => drawn'[s] = 0 /\ cost'[s] = 0
    <3>1. \A s \in Sells : s > k => s > Here /\ s # k
      BY <1>1, <1>4, <1>12
    <3> QED BY <1>1, <1>8, <3>1 DEF PoolAdds
  <2>10. ASSUME NEW j \in 1..k
         PROVE  PoolAfter(j)' >= 0 /\ (j \in Sells /\ remaining'[j] > 0 => PoolAfter(j)' = 0)
    <3>1. CASE j = k /\ remaining'[j] = remaining[k] - units
      BY <1>5, <1>6, <1>10, <2>6, <3>1
    <3>2. CASE j \in 1..Here /\ j \in 0..Here /\ remaining'[j] = remaining[j]
      BY <2>3, <3>2 DEF PoolAdds
    <3> QED BY <2>8, <3>1, <3>2
  <2> QED BY <1>1, <2>7, <2>9, <2>10 DEF PoolAdds
<1>17. CostAdds'
  <2>1. Unmatched' = Unmatched
    <3>1. \A j \in DOMAIN sorted : sorted[j].sells \/ remaining'[j] = remaining[j]
      BY <1>4, <1>8
    <3> QED BY <1>2, <3>1 DEF Unmatched
  <2>2. \A s \in Sells : Costs'[s] = IF s = k THEN Costs[s] + paid ELSE Costs[s]
    <3>1. \A s \in Sells : PaidFor(s) \in Int
      BY SumTypes
    <3>2. \A s \in Sells : Costs'[s] = PaidFor(s)' + cost'[s] /\ Costs[s] = PaidFor(s) + cost[s]
      BY <1>1 DEF Costs
    <3> QED BY <1>1, <1>7, <1>8, <1>12, <3>1, <3>2
  <2>3. \A s \in Sells : Costs[s] \in Int /\ Costs'[s] \in Int
    BY <1>7, <2>2, SumTypes
  <2>4. SumFunctionOnSet(Costs', Sells) = SumFunctionOnSet(Costs, Sells) + paid
    BY <1>3, <1>4, <1>7, <2>2, <2>3, SumUpdate
  <2>5. /\ SumFunctionOnSet(Unmatched, DOMAIN sorted) \in Int /\ SumFunctionOnSet(Costs, Sells) \in Int
        /\ SumFunctionOnSet(Expense, DOMAIN sorted) \in Int
    BY <1>4, SumInt, SumTypes
  <2>6. CostAdds' <=> carried.cost + SumFunctionOnSet(Expense, DOMAIN sorted)
                        = pool'.cost + SumFunctionOnSet(Unmatched, DOMAIN sorted) + SumFunctionOnSet(Costs', Sells)
    BY <1>1, <1>2, <2>1 DEF CostAdds
  <2>7. carried.cost + SumFunctionOnSet(Expense, DOMAIN sorted)
          = pool.cost + SumFunctionOnSet(Unmatched, DOMAIN sorted) + SumFunctionOnSet(Costs, Sells)
    BY DEF CostAdds
  <2>8. pool.cost \in Int /\ paid \in Int /\ pool'.cost = pool.cost - paid
    BY <1>5, <1>7, <1>10
  <2> QED BY <2>4, <2>5, <2>6, <2>7, <2>8
<1> QED BY <1>1, <1>11, <1>13, <1>14, <1>15, <1>16, <1>17

-----------------------------------------------------------------------------

LEMMA ResultsKeep == ASSUME TaxInv, Results PROVE TaxInv'
<1>1. /\ phase = "section-104" /\ turn[1] = Len(sorted) /\ phase' = "done"
      /\ disposals' = [k \in Sells |-> [qty |-> MatchedOf(k) + drawn[k], cost |-> PaidFor(k) + cost[k],
                                        proceeds |-> (MatchedOf(k) + drawn[k]) * sorted[k].unit]]
      /\ UNCHANGED <<sorted, remaining, matched, drawn, cost, carried, pool, turn>>
  BY DEF Results
<1>2. Sells' = Sells /\ Buys' = Buys /\ Here' = Here /\ Here = Len(sorted)
  BY <1>1 DEF Sells, Buys, Here
<1>3. Matchings' = Matchings /\ \A p \in Matchings : HadTurn(p)' <=> HadTurn(p)
  BY <1>1, <1>2 DEF Matchings, HadTurn, Rank
<1>4. TaxTypeOK'
  <2>1. SortedOK'
    BY <1>1 DEF TaxInv, TaxTypeOK, SortedOK, Chronological
  <2>2. Len(sorted) \in Nat
    BY TradeTypes DEF TaxInv, TaxTypeOK
  <2> QED BY <1>1, <1>2, <1>3, <2>1, <2>2 DEF TaxInv, TaxTypeOK
<1>5. NotYet'
  BY <1>1, <1>3 DEF TaxInv, NotYet
<1>6. SaleAdds' /\ BuyAdds' /\ CostAdds'
  BY <1>1, <1>2 DEF TaxInv, SaleAdds, BuyAdds, MatchedOf, MatchedWith, CostAdds, Costs, PaidFor, Unmatched, Expense
<1>7. OneServed'
  BY <1>1, <1>2, <1>3
     DEF TaxInv, OneServed, SaleServed, BuyUsed, MatchedWith, Later, Rank, Before
<1>8. PoolAdds'
  BY <1>1, <1>2 DEF TaxInv, PoolAdds, PoolAfter, Pooled, MatchedWith
<1>9. ResultsOK'
  <2>1. \A s \in Sells : disposals'[s].qty = MatchedOf(s) + drawn[s] /\ disposals'[s].cost = PaidFor(s) + cost[s]
    BY <1>1
  <2>2. \A s \in Sells : MatchedOf(s)' = MatchedOf(s) /\ PaidFor(s)' = PaidFor(s)
    BY <1>1, <1>2 DEF MatchedOf, PaidFor
  <2> QED BY <1>1, <1>2, <2>1, <2>2 DEF ResultsOK
<1> QED BY <1>4, <1>5, <1>6, <1>7, <1>8, <1>9 DEF TaxInv

LEMMA TaxInvKept == ASSUME TaxInv, [TaxNext]_taxVars PROVE TaxInv'
<1>1. CASE SameDay
  BY <1>1, MatchKeeps DEF SameDay, InPass
<1>2. CASE ThirtyDay
  BY <1>2, MatchKeeps DEF ThirtyDay, InPass
<1>3. CASE Section104
  <2>1. PoolStep /\ (Join(turn[1] + 1) \/ Draw(turn[1] + 1))
    BY <1>3, Zenon DEF Section104, PoolStep
  <2> QED BY <2>1, JoinKeeps, DrawKeeps
<1>4. CASE Results
  BY <1>4, ResultsKeep
<1>5. CASE UNCHANGED taxVars
  <2>1. UNCHANGED <<sorted, remaining, matched, drawn, cost, carried, pool, phase, turn, disposals>>
    BY <1>5 DEF taxVars
  <2>2. Sells' = Sells /\ Buys' = Buys /\ Matchings' = Matchings /\ Here' = Here
    BY <2>1 DEF Sells, Buys, Matchings, Here
  <2>3. TaxTypeOK' /\ NotYet' /\ ResultsOK'
    BY <2>1, <2>2 DEF TaxInv, TaxTypeOK, SortedOK, Chronological, NotYet, HadTurn, Rank, ResultsOK, MatchedOf, PaidFor
  <2>4. SaleAdds' /\ BuyAdds' /\ CostAdds'
    BY <2>1, <2>2 DEF TaxInv, SaleAdds, BuyAdds, MatchedOf, MatchedWith, CostAdds, Costs, PaidFor, Unmatched, Expense
  <2>5. OneServed' /\ PoolAdds'
    BY <2>1, <2>2 DEF TaxInv, OneServed, HadTurn, SaleServed, BuyUsed, MatchedWith, Later, Rank, Before,
       PoolAdds, PoolAfter, Pooled
  <2> QED BY <2>3, <2>4, <2>5 DEF TaxInv
<1> QED BY <1>1, <1>2, <1>3, <1>4, <1>5 DEF TaxNext

LEMMA TaxInvStarts == ASSUME TaxInit PROVE TaxInv
<1>1. /\ Chronological(sorted) /\ carried \in Pools /\ pool = carried
      /\ remaining = [k \in DOMAIN sorted |-> sorted[k].qty]
      /\ matched = [p \in Matchings |-> 0]
      /\ drawn = [k \in Sells |-> 0] /\ cost = [k \in Sells |-> 0]
      /\ phase = "same-day" /\ turn = <<0, 0>>
  BY DEF TaxInit, Matchings
<1>2. SortedOK
  <2>1. PICK n \in 1..MaxSorted : sorted \in [1..n -> Trades]
    BY DEF TaxInit
  <2>2. n \in Nat
    BY TaxAssumption
  <2> QED BY <1>1, <2>1, <2>2 DEF SortedOK
<1>3. /\ DOMAIN sorted = 1..Len(sorted) /\ Len(sorted) \in Nat
      /\ IsFiniteSet(DOMAIN sorted) /\ IsFiniteSet(Sells) /\ IsFiniteSet(Buys)
      /\ Sells \subseteq DOMAIN sorted /\ Buys \subseteq DOMAIN sorted
      /\ \A k \in DOMAIN sorted : sorted[k].qty \in Nat /\ sorted[k].unit \in Int
  BY <1>2, TradeTypes
<1>4. Here = 0
  BY <1>1 DEF Here
<1>5. TaxTypeOK
  <2>1. carried \in [qty : Nat, cost : Int]
    BY <1>1, TaxAssumption
  <2> QED BY <1>1, <1>2, <1>3, <1>4, <2>1 DEF TaxTypeOK
<1>6. \A s \in Sells, b \in Buys : matched[<<s, b>>] = 0
  BY <1>1 DEF Matchings
<1>7. \A s \in Sells : MatchedOf(s) = 0 /\ PaidFor(s) = 0
  <2> SUFFICES ASSUME NEW s \in Sells PROVE MatchedOf(s) = 0 /\ PaidFor(s) = 0
    OBVIOUS
  <2>1. \A b \in Buys : matched[<<s, b>>] * sorted[b].unit = 0
    BY <1>3, <1>6
  <2> QED BY <1>3, <1>6, <2>1, SumZero DEF MatchedOf, PaidFor
<1>8. \A b \in Buys : MatchedWith(b) = 0
  BY <1>3, <1>6, SumZero DEF MatchedWith
<1>9. NotYet
  BY <1>1 DEF NotYet
<1>10. SaleAdds
  BY <1>1, <1>3, <1>7 DEF SaleAdds
<1>11. BuyAdds
  BY <1>1, <1>3, <1>4, <1>8 DEF BuyAdds
<1>12. OneServed
  <2>1. ASSUME NEW p \in Matchings PROVE ~HadTurn(p)
    <3>1. p[1] \in Nat /\ p[1] # 0
      BY <1>2, <1>3, PairTypes
    <3> QED BY <1>1, <3>1 DEF HadTurn, Before
  <2> QED BY <2>1 DEF OneServed
<1>13. PoolAdds
  BY <1>1, <1>4, <1>5, NothingPooled DEF PoolAdds
<1>14. CostAdds
  <2>1. \A k \in DOMAIN sorted : Unmatched[k] \in Int /\ Unmatched[k] = Expense[k]
    BY <1>1, <1>5, SumTypes DEF Unmatched, Expense
  <2>2. SumFunctionOnSet(Unmatched, DOMAIN sorted) = SumFunctionOnSet(Expense, DOMAIN sorted)
    BY <1>3, <2>1, SumSame
  <2>3. \A s \in Sells : Costs[s] = 0
    BY <1>1, <1>7 DEF Costs
  <2>4. SumFunctionOnSet(Costs, Sells) = 0
    BY <1>3, <2>3, SumZero
  <2>5. SumFunctionOnSet(Unmatched, DOMAIN sorted) \in Int /\ carried.cost \in Int
    BY <1>3, <1>5, <2>1, SumInt DEF TaxTypeOK
  <2> QED BY <1>1, <2>2, <2>4, <2>5 DEF CostAdds
<1>15. ResultsOK
  BY <1>1 DEF ResultsOK
<1> QED BY <1>5, <1>9, <1>10, <1>11, <1>12, <1>13, <1>14, <1>15 DEF TaxInv

LEMMA TaxInvHolds == TaxSpec => []TaxInv
<1>1. TaxInit => TaxInv
  BY TaxInvStarts
<1>2. TaxInv /\ [TaxNext]_taxVars => TaxInv'
  BY TaxInvKept
<1> QED BY <1>1, <1>2, PTL DEF TaxSpec

\* However the trades lie, no disposal and acquisition are left that an earlier rule, or an
\* earlier turn of the same, should have matched (MatchSpotTrades).
THEOREM MatchedInOrderHolds == TaxSpec => []MatchedInOrder
<1>1. TaxInv => MatchedInOrder
  <2> SUFFICES ASSUME TaxInv, phase = "done", NEW sale \in Sells, NEW buy \in Buys,
                      Eligible(<<sale, buy>>), Settled(sale, buy), Spare(sale, buy)
               PROVE  FALSE
    BY DEF MatchedInOrder
  <2> DEFINE p == <<sale, buy>>
  <2>1. p \in Matchings /\ p[1] = sale /\ p[2] = buy
    BY DEF Matchings
  <2>2. \A q \in Matchings : Rank(q) \in Int
    BY PairTypes DEF TaxInv, TaxTypeOK
  <2>3. MatchWindow \in Nat
    BY TaxAssumption
  <2>4. \A q \in Matchings : HadTurn(q) <=> Rank(q) \in 0..MatchWindow
    BY <2>2, <2>3 DEF HadTurn
  <2>5. HadTurn(p)
    BY <2>1, <2>4 DEF Eligible
  <2>6. \A q \in Matchings : matched[q] > 0 => Rank(q) \in 0..MatchWindow
    BY <2>4 DEF TaxInv, NotYet
  <2>7. \A k \in DOMAIN sorted : sorted[k].day \in Int /\ k \in Nat
    BY TradeTypes DEF TaxInv, TaxTypeOK
  <2>8. \A j, k \in DOMAIN sorted : sorted[j].day > sorted[k].day => j > k
    <3>1. ASSUME NEW j \in DOMAIN sorted, NEW k \in DOMAIN sorted, sorted[j].day > sorted[k].day PROVE j > k
      <4>1. j < k => sorted[j].day <= sorted[k].day
        BY DEF TaxInv, TaxTypeOK, SortedOK, Chronological
      <4> QED BY <2>7, <3>1, <4>1
    <3> QED BY <3>1
  <2>9. Sells \subseteq DOMAIN sorted /\ Buys \subseteq DOMAIN sorted
    BY TradeTypes DEF TaxInv, TaxTypeOK
  <2>10. CASE SaleServed(p)
    <3>1. /\ remaining[sale] = 0 /\ drawn[sale] = 0
          /\ \A b \in Buys : Later(p, <<sale, b>>) => matched[<<sale, b>>] = 0
      BY <2>1, <2>10 DEF SaleServed
    <3>2. disposals[sale].qty = MatchedOf(sale) + drawn[sale]
          /\ sorted[sale].qty = remaining[sale] + MatchedOf(sale) + drawn[sale] /\ MatchedOf(sale) \in Nat
      BY SumTypes DEF TaxInv, ResultsOK, SaleAdds
    <3>3. ~(disposals[sale].qty < sorted[sale].qty) /\ ~(drawn[sale] > 0)
      BY <3>1, <3>2
    <3>4. PICK other \in Buys : matched[<<sale, other>>] > 0 /\ Rank(<<sale, other>>) > Rank(p)
      BY <3>3 DEF Settled
    <3>5. <<sale, other>> \in Matchings
      BY DEF Matchings
    <3>6. Rank(<<sale, other>>) \in 0..MatchWindow /\ Rank(p) \in 0..MatchWindow
      BY <2>6, <3>4, <3>5 DEF Eligible
    <3>7. sorted[other].day > sorted[buy].day
      BY <2>7, <2>9, <3>4 DEF Rank
    <3>8. other > buy
      BY <2>8, <2>9, <3>7
    <3>9. Later(p, <<sale, other>>)
      BY <2>1, <2>3, <3>4, <3>6, <3>8 DEF Later, Before
    <3> QED BY <3>1, <3>4, <3>9
  <2>11. CASE BuyUsed(p)
    <3>1. /\ sorted[buy].qty = MatchedWith(buy)
          /\ \A s \in Sells : Later(p, <<s, buy>>) => matched[<<s, buy>>] = 0
      BY <2>1, <2>11 DEF BuyUsed
    <3>2. MatchedWith(buy) \in Nat
      BY SumTypes DEF TaxInv
    <3>0. ~(MatchedWith(buy) < sorted[buy].qty)
      BY <3>1, <3>2
    <3>3. PICK other \in Sells : /\ matched[<<other, buy>>] > 0
                                 /\ Rank(<<other, buy>>) # 0
                                 /\ Rank(p) = 0 \/ sorted[other].day > sorted[sale].day
      BY <3>0, Zenon DEF Spare
    <3>4. <<other, buy>> \in Matchings
      BY DEF Matchings
    <3>5. Rank(<<other, buy>>) \in 0..MatchWindow /\ Rank(p) \in 0..MatchWindow
      BY <2>6, <3>3, <3>4 DEF Eligible
    <3>6. Rank(p) = 0 \/ other > sale
      BY <2>8, <2>9, <3>3
    <3>7. Rank(p) = 0 \/ Rank(<<other, buy>>) < Rank(p)
      BY <2>7, <2>9, <3>3 DEF Rank
    <3>8. Later(p, <<other, buy>>)
      BY <2>1, <2>3, <3>3, <3>5, <3>6, <3>7 DEF Later, Before
    <3> QED BY <3>1, <3>3, <3>8
  <2> QED BY <2>1, <2>5, <2>10, <2>11 DEF TaxInv, OneServed
<1> QED BY <1>1, TaxInvHolds, PTL

\* Every pound is once in a disposal or in the pool, and the pool is never overdrawn, for
\* any trades (MatchSpotTrades).
THEOREM CostsAddUpHolds == TaxSpec => []CostsAddUp
<1>1. TaxInv => CostsAddUp
  <2> SUFFICES ASSUME TaxInv, phase = "done" PROVE CostsAddUp
    BY DEF CostsAddUp
  <2>1. /\ Here = Len(sorted) /\ DOMAIN sorted = 1..Len(sorted) /\ Len(sorted) \in Nat
        /\ IsFiniteSet(DOMAIN sorted) /\ IsFiniteSet(Sells)
        /\ Sells \subseteq DOMAIN sorted /\ Buys \subseteq DOMAIN sorted
        /\ \A k \in DOMAIN sorted : sorted[k].unit \in Int
    BY TradeTypes DEF TaxInv, TaxTypeOK
  <2>2. \A b \in Buys : remaining[b] = 0
    BY <2>1 DEF TaxInv, BuyAdds
  <2>3. \A k \in DOMAIN sorted : Unmatched[k] = 0
    BY <2>1, <2>2 DEF Unmatched, Sells, Buys
  <2>4. SumFunctionOnSet(Unmatched, DOMAIN sorted) = 0
    BY <2>1, <2>3, SumZero
  <2> DEFINE Reported == [k \in Sells |-> disposals[k].cost]
  <2>5. SumFunctionOnSet(Reported, Sells) = SumFunctionOnSet(Costs, Sells)
    <3>1. \A s \in Sells : Reported[s] = Costs[s] /\ Costs[s] \in Int
      BY SumTypes DEF TaxInv, ResultsOK, Costs
    <3> HIDE DEF Reported
    <3> QED BY <2>1, <3>1, SumSame
  <2>6. carried.cost + SumFunctionOnSet(Expense, DOMAIN sorted) = pool.cost + SumFunctionOnSet(Reported, Sells)
    <3>1. pool.cost \in Int
      BY DEF TaxInv, TaxTypeOK
    <3> HIDE DEF Reported
    <3> QED BY <2>4, <2>5, <3>1 DEF TaxInv, CostAdds
  <2>7. \A k \in DOMAIN sorted : PoolAfter(k) >= 0
    BY <2>1 DEF TaxInv, PoolAdds
  <2>8. ASSUME NEW k \in Sells
        PROVE  disposals[k].qty <= sorted[k].qty /\ (disposals[k].qty < sorted[k].qty => PoolAfter(k) = 0)
    <3>1. /\ disposals[k].qty = MatchedOf(k) + drawn[k] /\ MatchedOf(k) \in Nat /\ drawn[k] \in Nat
          /\ sorted[k].qty = remaining[k] + MatchedOf(k) + drawn[k] /\ remaining[k] \in Nat
      BY <2>1, SumTypes DEF TaxInv, ResultsOK, SaleAdds, TaxTypeOK
    <3>2. remaining[k] > 0 => PoolAfter(k) = 0
      BY <2>1 DEF TaxInv, PoolAdds
    <3> QED BY <3>1, <3>2
  <2> QED BY <2>6, <2>7, <2>8 DEF CostsAddUp
<1> QED BY <1>1, TaxInvHolds, PTL
=============================================================================
