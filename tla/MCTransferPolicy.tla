-------------------------- MODULE MCTransferPolicy --------------------------
(* The transfer policy with one request id, the treasury and two           *)
(* operators, amounts on both sides of the dual approval threshold, and a  *)
(* day of one tick.                                                        *)
EXTENDS TransferPolicy

CONSTANTS treasury, alice, bob, EU, US

MCNames == {treasury, alice, bob}

MCVenueRegions == [okx |-> [region |-> EU, blocked |-> {US}],
                   coinbase |-> [region |-> US, blocked |-> {}]]

Route(from, to, region, allowed, cap, usableFrom) ==
    [from |-> from, to |-> to, region |-> region, allowed |-> allowed,
     cap |-> cap, usableFrom |-> usableFrom]

\* A route within every gate, and one each gate refuses: by the requester's
\* region, by the destination's, and by the allowlist.
MCRoutes ==
    {Route("okx", "coinbase", EU, TRUE, 2, 0),
     Route("okx", "binance", US, TRUE, 0, 0),
     Route("coinbase", "okx", NoRegion, TRUE, 0, 0),
     Route("okx", "coinbase", EU, FALSE, 0, 0)}
=============================================================================
