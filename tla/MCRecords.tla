---------------------------- MODULE MCRecords ----------------------------
(* The records kept of trading, one part in every behaviour: the ledger    *)
(* with "orders", of which one has an id that Postgres refuses, or with    *)
(* "statuses" of two markets; and the matching for the "tax" report, where *)
(* up to five trades of four days have a day more than the window, so that *)
(* every rule applies to one disposal and each of two disposals wants what *)
(* the other may have.                                                     *)
EXTENDS Ledger, TaxMatching

VARIABLE part

Sale(on, n) == [sells |-> TRUE, day |-> on, qty |-> n, unit |-> 9000]
Buy(on, n) == [sells |-> FALSE, day |-> on, qty |-> n, unit |-> 3600 * on]
MCTrades == {Sale(on, 2) : on \in 1..4} \cup {Buy(on, n) : on \in 1..4, n \in 1..2}
MCPools == {[qty |-> 0, cost |-> 0], [qty |-> 2, cost |-> 3600]}

MCInit ==
    /\ part \in {"orders", "statuses", "tax"}
    /\ LedgerInit /\ TaxInit
    /\ part # "tax" => Len(sorted) = 1 /\ sorted[1] = Buy(1, 1) /\ pool.qty = 0

MCNext ==
    /\ UNCHANGED part
    /\ \/ /\ part \in {"orders", "statuses"} /\ LedgerNext /\ UNCHANGED taxVars
          /\ published'[IF part = "orders" THEN "status" ELSE "intents"] = {}
       \/ part = "tax" /\ TaxNext /\ UNCHANGED ledgerVars

MCSpec == MCInit /\ [][MCNext]_<<ledgerVars, taxVars, part>>
=============================================================================
