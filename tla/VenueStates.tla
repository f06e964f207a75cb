---------------------------- MODULE VenueStates ----------------------------
(***************************************************************************)
(* The venue circuit breaker without its timers: where an observation may  *)
(* take a venue (src/internal/consensus/circuitbreaker.go).  VenueBreaker  *)
(* implements it, and the consensus is computed under it.                  *)
(***************************************************************************)

VenueState == {"OK", "WARN", "BLACKLISTED"}

\* What one observation says of the venue: no outlier, an outlier beyond
\* OutlierBpsWarn only, an outlier beyond OutlierBpsBlacklist.
Deviation == {"clean", "outlier", "hard"}

StatesAfter(state, dev) ==
    CASE state = "OK" /\ dev = "clean"          -> {"OK"}
      [] state = "OK" /\ dev = "outlier"        -> {"OK", "WARN"}
      [] state = "OK" /\ dev = "hard"           -> {"OK", "BLACKLISTED"}
      [] state = "WARN" /\ dev = "clean"        -> {"WARN", "OK"}
      [] state = "WARN" /\ dev = "outlier"      -> {"WARN"}
      [] state = "WARN" /\ dev = "hard"         -> {"WARN", "BLACKLISTED"}
      [] state = "BLACKLISTED"                  -> {"BLACKLISTED", "WARN"}
=============================================================================
