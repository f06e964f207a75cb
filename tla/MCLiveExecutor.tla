--------------------------- MODULE MCLiveExecutor ---------------------------
(* Two venues, one with a least notional and one with a least quantity; a  *)
(* hedged intent and one of a single leg.                                  *)
EXTENDS LiveExecutor

ConstVenues == {"a", "b"}
Hedged == <<[venue |-> "a", action |-> "BUY", notional |-> 3],
            [venue |-> "b", action |-> "SELL", notional |-> 3]>>
Single == <<[venue |-> "b", action |-> "BUY", notional |-> 1]>>
ConstIntents == {Hedged, Single}
ConstMinNotional == [a |-> 2, b |-> 0]
ConstMinQty == [a |-> 0, b |-> 2]
ConstLotSize == [a |-> 1, b |-> 1]
=============================================================================
