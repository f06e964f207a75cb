------------------------------ MODULE MCVenues ------------------------------
(***************************************************************************)
(* What the system holds of a venue, one part in every behaviour: the      *)
(* "status" its circuit breaker gives it; and the "client" that trades     *)
(* there, for every venue, two callers of the registry, and orders of up   *)
(* to two units, one after the other.                                      *)
(***************************************************************************)
EXTENDS VenueBreaker, ExchangeClients, FiniteSets

MCVenueNames == {"binance", "bybit", "okx", "coinbase", "deribit"}
CallerSymmetry == {[c \in Callers |-> IF c = a THEN b ELSE IF c = b THEN a ELSE c] : a \in Callers, b \in Callers}

VARIABLE part

MCInit ==
    /\ part \in {"status", "client"}
    /\ Init /\ InitClients
    /\ part = "status" => venue = CHOOSE v \in VenueNames : TRUE

MCNext ==
    /\ UNCHANGED part
    /\ \/ part = "status" /\ Next /\ UNCHANGED clientVars
       \/ part = "client" /\ NextClients /\ UNCHANGED vars

MCSpec == MCInit /\ [][MCNext]_<<vars, clientVars, part>>
=============================================================================
