---------------------------- MODULE MCConsensus ----------------------------
(* Every venue alone, with a connection that breaks, and three together.   *)
EXTENDS Consensus, TLC

MCFleets == {{v} : v \in Known} \cup {{"deribit", "gate", "htx"}}
MCTops ==
    [v \in Known \ {"gate"} |-> {<<1000, 1000>>, <<1100, 1104>>, <<1000, 0>>, <<0, 1000>>}]
    @@ [v \in {"gate"} |-> {<<1000, 1000>>, <<1000, 0>>, <<0, 1000>>}]
MCBaseTrust == [binance |-> 20, okx |-> 18, bybit |-> 17, deribit |-> 16]
=============================================================================
