----------------------------- MODULE MCFunding -----------------------------
(* Two venues, rates that pay, collect, or are worth a differential only.  *)
EXTENDS Funding

MCRates == [v \in Venues |-> IF v = "a" THEN {-2, 2} ELSE {2}]
=============================================================================
