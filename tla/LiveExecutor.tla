---------------------------- MODULE LiveExecutor ----------------------------
(***************************************************************************)
(* LiveExecutor.Execute of internal/execution/live.go, with the venues its *)
(* orders go to. One intent at a time; its legs one after the other, each  *)
(* with retries; a leg that cannot be hedged is unwound. Prices are        *)
(* abstracted to 1: a notional and a quantity are the same number of       *)
(* units. What a venue did with an order (`orders') and what the executor  *)
(* has learnt of it (`final', `results', `daily') are different variables. *)
(***************************************************************************)
EXTENDS Integers, Sequences, SequencesExt, Functions

CONSTANTS Venues,
          Intents,            \* the intents: sequences of one or two legs
          MaxRetriesPerLeg,   \* Config.MaxRetriesPerLeg
          MinPartialFillPct,  \* Config.MinPartialFillPct, in percent
          HedgeDriftMax,      \* Config.HedgeDriftMaxMs
          MaxOrderNotional,   \* Config.LiveMaxOrderNotionalUSD
          MaxDailyNotional,   \* Config.LiveMaxDailyNotionalUSD
          Day,                \* the rolling window of the daily cap
          MinNotional, MinQty, LotSize,   \* VenueConstraints, by venue
          TTL, MaxTime        \* bounds: life of an intent, clock

Leg == [venue : Venues, action : {"BUY", "SELL"}, notional : Nat \ {0}]

ASSUME LiveAssumption ==
  /\ \A in \in Intents : in \in Seq(Leg) /\ Len(in) \in 1..2
  /\ MaxRetriesPerLeg \in Nat /\ MinPartialFillPct \in 0..100
  /\ {HedgeDriftMax, MaxOrderNotional, MaxDailyNotional, Day, TTL, MaxTime} \subseteq Nat
  /\ MinNotional \in [Venues -> Nat] /\ MinQty \in [Venues -> Nat]
  /\ LotSize \in [Venues -> Nat \ {0}]

VARIABLES now,
          intent, legs,       \* the legs as they came and as they are sent
          expires,            \* ExpiresMs
          attempt,            \* the attempt of the current leg
          qty,                \* what the current leg is to trade
          final,              \* what is known of the current order
          results,            \* the legs recorded as filled, in the order sent
          events,             \* event types and legs reported
          daily,              \* dailyFills: the notional recorded at each time
          orders,             \* the venues' orders of this intent
          pc                  \* where Execute is; "idle" between intents

vars == <<now, intent, legs, expires, attempt, qty, final, results, events,
          daily, orders, pc>>

Statuses == {"New", "PartiallyFilled", "Filled", "Cancelled"}
Order  == [leg : 1..2, venue : Venues, side : {"BUY", "SELL"}, qty : Nat,
           filled : Nat, open : BOOLEAN, reduceOnly : BOOLEAN]
Result == [qty : Nat, usd : Nat, partial : BOOLEAN, ts : Nat]

i == Len(results) + 1                   \* the current leg
leg == legs[i]

Notional(ls) == SumFunction([k \in DOMAIN ls |-> ls[k].notional])
Window == {t \in 0..MaxTime : t >= now - Day}
Recent == [t \in 0..MaxTime |-> IF t \in Window THEN daily[t] ELSE 0]
DailyTotal == SumFunctionOnSet(daily, Window)
NoFills == [t \in 0..MaxTime |-> 0]

Nothing == [status |-> "New", filled |-> 0, id |-> 0]

Init == /\ now = 0 /\ pc = "idle"
        /\ intent = <<>> /\ legs = <<>> /\ expires = 0
        /\ attempt = 0 /\ qty = 0 /\ final = Nothing
        /\ results = <<>> /\ events = {} /\ daily = NoFills /\ orders = <<>>

(***************************************************************************)
(* Beginning. An expired intent and a leg above the cap are returned at    *)
(* once; the daily cap and a missing price after the daily fills have been *)
(* pruned. Two legs are sent thinner book first, as far as the venues tell.*)
(***************************************************************************)
\* Mutant: the intent's own notional is left out of the check.
DailyCapExceeded_Past(in) == DailyTotal > MaxDailyNotional
DailyCapExceeded(in) == DailyTotal + Notional(in) > MaxDailyNotional

Execute(in, ttl) ==
  /\ pc = "idle" /\ \A k \in DOMAIN in : in[k].notional <= MaxOrderNotional
  /\ daily' = Recent
  /\ ~DailyCapExceeded(in)
  /\ intent' = in /\ legs' \in {in, Reverse(in)} /\ expires' = now + ttl
  /\ results' = <<>> /\ events' = {} /\ orders' = <<>>
  /\ attempt' = 0 /\ qty' = 0 /\ final' = Nothing
  /\ pc' = "leg"
  /\ UNCHANGED now

Refuse(in) ==
  /\ pc = "idle" /\ \A k \in DOMAIN in : in[k].notional <= MaxOrderNotional
  /\ daily' = Recent                    \* over the daily cap, or no price
  /\ UNCHANGED <<now, intent, legs, expires, attempt, qty, final, results,
                 events, orders, pc>>

(***************************************************************************)
(* The checks before a leg, in their order. A leg given up after another   *)
(* one filled leads to the emergency unwind of that one.                   *)
(***************************************************************************)
Expired == now > expires
Drifted == i > 1 /\ now - results[i - 1].ts > HedgeDriftMax

\* Mutant: a leg that drifted away from its hedge is dropped without unwinding.
GiveUp_Drop(type) ==
  /\ events' = events \cup {<<type, i>>}
  /\ pc' = IF i > 1 /\ type # "HEDGE_DRIFT" THEN "unwind" ELSE "idle"
  /\ UNCHANGED <<now, intent, legs, expires, attempt, qty, final, results, daily, orders>>

GiveUp(type) ==
  /\ events' = events \cup {<<type, i>>}
  /\ pc' = IF i > 1 THEN "unwind" ELSE "idle"
  /\ UNCHANGED <<now, intent, legs, expires, attempt, qty, final, results, daily, orders>>

ExpiredBeforeLeg == pc = "leg" /\ Expired /\ GiveUp("ORDER_REJECTED")
HedgeDrift       == pc = "leg" /\ ~Expired /\ Drifted /\ GiveUp("HEDGE_DRIFT")
NoClient         == pc = "leg" /\ ~Expired /\ ~Drifted /\ GiveUp("ORDER_REJECTED")

TargetNotional == IF i > 1 /\ results[i - 1].partial THEN results[i - 1].usd
                                                     ELSE leg.notional
Rounded(n, v) == (n \div LotSize[v]) * LotSize[v]
BelowMin == TargetNotional < MinNotional[leg.venue]

\* The loop is left: no event, no unwind.
SkipSmallLeg ==
  /\ pc = "leg" /\ ~Expired /\ ~Drifted /\ BelowMin
  /\ pc' = "idle"
  /\ UNCHANGED <<now, intent, legs, expires, attempt, qty, final, results, events, daily, orders>>

StartLeg ==
  /\ pc = "leg" /\ ~Expired /\ ~Drifted /\ ~BelowMin
  /\ qty' = LET r == Rounded(TargetNotional, leg.venue)
            IN  IF r < MinQty[leg.venue] THEN MinQty[leg.venue] ELSE r
  /\ attempt' = 0 /\ pc' = "place"
  /\ UNCHANGED <<now, intent, legs, expires, final, results, events, daily, orders>>

(***************************************************************************)
(* One attempt: a limit order, the last one immediate-or-cancel. The venue *)
(* may trade any part of it at once. An answer may be lost: the executor   *)
(* sees an error, the order exists.                                        *)
(***************************************************************************)
Limit == attempt < MaxRetriesPerLeg
RetryAllowed == attempt = 0 \/ (attempt <= MaxRetriesPerLeg /\ ~Expired)

NewOrder(f) == [leg |-> i, venue |-> leg.venue, side |-> leg.action, qty |-> qty,
                filled |-> f, open |-> Limit /\ f < qty, reduceOnly |-> FALSE]

Status(o) == CASE o.filled = o.qty                          -> "Filled"
               [] o.open /\ o.filled \in 1..(o.qty - 1)     -> "PartiallyFilled"
               [] o.open /\ o.filled = 0                    -> "New"
               [] ~o.open /\ o.filled < o.qty               -> "Cancelled"

View(o, id) == [status |-> Status(o), filled |-> o.filled, id |-> id]

NextAttempt == attempt' = attempt + 1 /\ pc' = "place"

PlaceOrder ==
  /\ pc = "place" /\ RetryAllowed
  /\ \E f \in 0..qty :
       /\ orders' = Append(orders, NewOrder(f))
       \* some venues answer with what was traded, some only that it is there
       /\ \/ final' = View(NewOrder(f), Len(orders) + 1)
          \/ final' = [Nothing EXCEPT !.id = Len(orders) + 1]
  /\ pc' = "poll"
  /\ UNCHANGED <<now, intent, legs, expires, attempt, qty, results, events, daily>>

PlaceOrderError ==
  /\ pc = "place" /\ RetryAllowed
  /\ \/ orders' = orders
     \/ \E f \in 0..qty : orders' = Append(orders, NewOrder(f))
  /\ NextAttempt
  /\ UNCHANGED <<now, intent, legs, expires, qty, final, results, events, daily>>

LegFails == pc = "place" /\ ~RetryAllowed /\ GiveUp("ORDER_REJECTED")

(***************************************************************************)
(* Polling ends with a terminal status (a partial fill counts as one) or,  *)
(* after ten calls that failed or said New, with the answer to PlaceOrder. *)
(***************************************************************************)
\* Mutant: polling goes on until a status is terminal.
Poll_Unlimited ==
  /\ pc = "poll" /\ Status(orders[final.id]) # "New"
  /\ final' = View(orders[final.id], final.id)
  /\ pc' = "judge"
  /\ UNCHANGED <<now, intent, legs, expires, attempt, qty, results, events, daily, orders>>

Poll ==
  /\ pc = "poll"
  /\ \/ /\ Status(orders[final.id]) # "New"
        /\ final' = View(orders[final.id], final.id)
     \/ final' = final
  /\ pc' = "judge"
  /\ UNCHANGED <<now, intent, legs, expires, attempt, qty, results, events, daily, orders>>

Taken  == final.status = "Filled" \/ (final.status = "PartiallyFilled" /\ final.filled > 0)
Enough == final.filled > 0 /\ final.filled * 100 >= MinPartialFillPct * qty

FilledNotional == IF final.filled = 0 THEN TargetNotional ELSE final.filled
Partial == final.status = "PartiallyFilled"
           \/ (final.filled > 0 /\ final.filled * 100 < qty * 99)

\* Mutant: what was asked for is recorded, not what was filled.
RecordFill_Requested ==
  /\ results' = Append(results, [qty |-> qty, usd |-> FilledNotional,
                                 partial |-> Partial, ts |-> now])
  /\ daily' = [daily EXCEPT ![now] = @ + FilledNotional]
  /\ events' = events \cup {<<IF Partial THEN "LEG_PARTIAL" ELSE "ORDER_FILLED", i>>}
  /\ pc' = IF i = Len(legs) THEN "idle" ELSE "leg"
  /\ UNCHANGED attempt

RecordFill ==
  /\ results' = Append(results, [qty |-> final.filled, usd |-> FilledNotional,
                                 partial |-> Partial, ts |-> now])
  /\ daily' = [daily EXCEPT ![now] = @ + FilledNotional]
  /\ events' = events \cup {<<IF Partial THEN "LEG_PARTIAL" ELSE "ORDER_FILLED", i>>}
  /\ pc' = IF i = Len(legs) THEN "idle" ELSE "leg"
  /\ UNCHANGED attempt

Accept ==
  /\ pc = "judge" /\ Taken
  /\ RecordFill
  /\ UNCHANGED <<now, intent, legs, expires, qty, final, orders>>

\* CancelOrder for a limit order; its error is ignored.
Cancel ==
  \/ orders' = orders
  \/ Limit /\ orders' = [orders EXCEPT ![final.id].open = FALSE]

CancelAndJudge ==
  /\ pc = "judge" /\ ~Taken
  /\ Cancel
  /\ \/ Enough /\ RecordFill
     \/ ~Enough /\ NextAttempt /\ UNCHANGED <<results, daily, events>>
  /\ UNCHANGED <<now, intent, legs, expires, qty, final>>

(***************************************************************************)
(* emergencyUnwind of the leg recorded last: a reduce-only market order,   *)
(* whose side is looked up in the intent.                                  *)
(***************************************************************************)
Opposite(action) == IF action = "SELL" THEN "BUY" ELSE "SELL"
UnwindSide == Opposite(intent[i - 1].action)

UnwindOrder(f) == [leg |-> i - 1, venue |-> legs[i - 1].venue, side |-> UnwindSide,
                   qty |-> results[i - 1].qty, filled |-> f, open |-> FALSE, reduceOnly |-> TRUE]

EmergencyUnwind ==
  /\ pc = "unwind"
  /\ \/ /\ orders' = orders            \* no client, or an error
        /\ events' = events \cup {<<"HEDGE_FAILED", i - 1>>}
     \/ \E f \in 0..results[i - 1].qty, known \in BOOLEAN :
          /\ orders' = Append(orders, UnwindOrder(f))
          /\ events' = events \cup
                {<<IF known /\ f = results[i - 1].qty THEN "ORDER_FILLED" ELSE "HEDGE_FAILED", i - 1>>}
  /\ pc' = "idle"
  /\ UNCHANGED <<now, intent, legs, expires, attempt, qty, final, results, daily>>

(***************************************************************************)
(* The venues and the clock, at any time.                                  *)
(***************************************************************************)
Fill(k) ==
  /\ orders[k].open
  /\ \E f \in (orders[k].filled + 1)..orders[k].qty :
       orders' = [orders EXCEPT ![k].filled = f, ![k].open = f < orders[k].qty]
  /\ UNCHANGED <<now, intent, legs, expires, attempt, qty, final, results, events, daily, pc>>

VenueCancels(k) ==
  /\ orders[k].open
  /\ orders' = [orders EXCEPT ![k].open = FALSE]
  /\ UNCHANGED <<now, intent, legs, expires, attempt, qty, final, results, events, daily, pc>>

Tick == /\ now < MaxTime /\ now' = now + 1
        /\ UNCHANGED <<intent, legs, expires, attempt, qty, final, results, events, daily, orders, pc>>

\* The router is restarted: it keeps nothing, and the intent was acknowledged.
Restart ==
  /\ pc' = "idle" /\ intent' = <<>> /\ legs' = <<>> /\ results' = <<>>
  /\ events' = {} /\ daily' = NoFills /\ orders' = <<>>
  /\ attempt' = 0 /\ qty' = 0 /\ final' = Nothing
  /\ UNCHANGED <<now, expires>>

Step == \/ ExpiredBeforeLeg \/ HedgeDrift \/ NoClient \/ SkipSmallLeg \/ StartLeg
        \/ PlaceOrder \/ PlaceOrderError \/ LegFails \/ Poll
        \/ Accept \/ CancelAndJudge \/ EmergencyUnwind

Next == \/ Step \/ Tick \/ Restart
        \/ \E in \in Intents : Refuse(in) \/ \E ttl \in 0..TTL : Execute(in, ttl)
        \/ \E k \in DOMAIN orders : Fill(k) \/ VenueCancels(k)

Spec == Init /\ [][Next]_vars
\* Every call of Execute's goroutine returns or times out.
FairSpec == Spec /\ WF_vars(Step)
-----------------------------------------------------------------------------
Events == ({"ORDER_FILLED", "LEG_PARTIAL", "ORDER_REJECTED", "HEDGE_DRIFT", "HEDGE_FAILED"} \X (1..2))

\* Types: the executor never records more legs than it was given, never goes
\* beyond its retries, and the venues never trade more than an order asks for.
TypeOK ==
  /\ now \in 0..MaxTime /\ expires \in 0..(MaxTime + TTL)
  /\ intent \in Seq(Leg) /\ legs \in {intent, Reverse(intent)}
  /\ attempt \in 0..(MaxRetriesPerLeg + 1) /\ qty \in Nat
  /\ final \in [status : Statuses, filled : Nat, id : Nat]
  /\ results \in Seq(Result) /\ Len(results) <= Len(legs)
  /\ events \subseteq Events
  /\ daily \in [0..MaxTime -> Nat]
  /\ orders \in Seq(Order) /\ \A k \in DOMAIN orders : orders[k].filled <= orders[k].qty
  /\ pc \in {"idle", "leg", "place", "poll", "judge", "unwind"}

\* A fill that is recorded, and from which the hedge, the unwind and the daily
\* count are sized, was really traded: whatever answers were lost or late, an order
\* of the leg has traded at least that much.
RecordedIsReal ==
  \A l \in DOMAIN results : \E k \in DOMAIN orders :
     orders[k].leg = l /\ ~orders[k].reduceOnly /\ results[l].qty <= orders[k].filled

\* An intent that ends after its first leg only has had that leg unwound, or
\* has reported that it could not be, or found the second leg too small.
AbandonedLegsUnwound ==
  pc = "idle" /\ Len(results) \in 1..(Len(legs) - 1) =>
    \/ \E k \in DOMAIN orders : orders[k].reduceOnly /\ orders[k].leg = Len(results)
    \/ <<"HEDGE_FAILED", Len(results)>> \in events
    \/ BelowMin

\* What a leg may come to: its notional or the venue's least order, and for the second
\* leg, which follows the part of the first that was filled, what the first may come to.
Larger(m, n) == IF m < n THEN n ELSE m
AtLeast(k) == Larger(legs[k].notional, MinQty[legs[k].venue])
Most(k) == Larger(AtLeast(1), AtLeast(k))

\* The fills recorded within any day stay within the daily cap, but for what the
\* least orders add to the legs of the last intent, which was let through by its own
\* notional. (In memory: a restart begins a new day. In units: the cap is checked
\* before the price is known.)
Raised == SumFunction([k \in DOMAIN legs |-> Most(k) - legs[k].notional])
DailyWithinCap == DailyTotal <= MaxDailyNotional + Raised

\* Every intent comes to an end: retries, polls and checks are bounded.
EveryIntentEnds == pc # "idle" ~> pc = "idle"

=============================================================================
