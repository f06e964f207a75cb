---------------------------- MODULE MCRiskDaemon ----------------------------
(* One venue, losses that approach, reach and pass the thresholds, and     *)
(* enough time for windows, blacklistings and playbooks to end.            *)
EXTENDS RiskDaemon

CONSTANT okx

MCPnLs == {-6, 4}

\* Volatility spikes and cascades take longest, maintenance never resolves by itself.
MCAutoResolve == [p \in Playbooks |->
    CASE p = "VENUE_MAINTENANCE" -> 0
      [] p \in {"VOLATILITY_SPIKE", "LIQUIDATION_CASCADE"} -> 2
      [] OTHER -> 1]
=============================================================================
