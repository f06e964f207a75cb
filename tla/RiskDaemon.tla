----------------------------- MODULE RiskDaemon -----------------------------
(***************************************************************************)
(* The risk engine (src/internal/risk/daemon.go): equity, the error rate   *)
(* of the last minutes, blacklisted venues and exchange incidents decide   *)
(* the operating mode and activate incident playbooks.  A reading changes  *)
(* the state and evaluates all of it, under one lock.  Time is in minutes. *)
(***************************************************************************)
EXTENDS Integers, Sequences, FiniteSets

CONSTANTS
    Venues,
    MaxDrawdownPct, SafeModeDrawdownPct, MaxErrorRatePct,
    MinCoreVenuesForSafeMode, ADLRiskPausePct, LiqClusterPauseCount,
    VenueDelevSafeModeCount,
    Window,                  \* of the error rate, and of deleveraging events
    AutoResolve,             \* playbook -> minutes until it resolves, 0 for never
    StartEquity,             \* peak and current equity at the start
    PnLs, Ttls, ADLReadings, ClusterReadings,   \* what callers may report
    MaxTime, MaxEvents, MaxDelevEvents   \* bounds, for model checking

Playbooks == {"VENUE_MAINTENANCE", "VOLATILITY_SPIKE", "API_DEGRADATION",
              "ADL_EVENT", "LIQUIDATION_CASCADE"}

ASSUME RiskAssumption ==
    /\ IsFiniteSet(Venues)
    /\ MaxDrawdownPct \in Nat \ {0} /\ SafeModeDrawdownPct \in Nat \ {0}
    /\ MaxErrorRatePct \in Nat \ {0}
    /\ MinCoreVenuesForSafeMode \in Nat \ {0} /\ ADLRiskPausePct \in Nat \ {0}
    /\ LiqClusterPauseCount \in Nat /\ VenueDelevSafeModeCount \in Nat \ {0}
    /\ Window \in Nat /\ AutoResolve \in [Playbooks -> Nat]
    /\ StartEquity \in Nat \ {0}
    /\ PnLs \subseteq Int /\ Ttls \subseteq Nat
    /\ ADLReadings \subseteq Nat /\ ClusterReadings \subseteq Nat

VARIABLES
    now,
    mode,
    forced,            \* history variable: the mode was set and not evaluated since
    currentEquity, peakEquity,
    totalEvents, errorEvents, delevEvents,   \* times, oldest first
    blacklisted,       \* venue -> when its blacklisting ends
    adlRisk,           \* venue -> last reading
    liqClusterCount,
    activePlaybooks,   \* playbook -> when it was activated, or -1
    overridden         \* history variable: the playbooks active when the mode was set

readings == <<currentEquity, peakEquity, totalEvents, errorEvents, delevEvents,
              blacklisted, adlRisk, liqClusterCount>>
vars == <<now, mode, forced, readings, activePlaybooks, overridden>>

Machine == INSTANCE ModeMachine

TypeOK ==
    /\ now \in Nat
    /\ mode \in Machine!Modes
    /\ forced \in BOOLEAN
    /\ currentEquity \in Int /\ peakEquity \in Nat
    /\ currentEquity <= peakEquity
    /\ totalEvents \in Seq(Nat) /\ errorEvents \in Seq(Nat) /\ delevEvents \in Seq(Nat)
    /\ blacklisted \in [Venues -> Nat]
    /\ adlRisk \in [Venues -> Nat]
    /\ liqClusterCount \in Nat
    /\ activePlaybooks \in [Playbooks -> Nat \cup {-1}]
    /\ overridden \subseteq Playbooks

-----------------------------------------------------------------------------

\* At least a share of the peak is lost.
Drawdown(pct) == 100 * (peakEquity - currentEquity) >= pct * peakEquity

ErrorsHigh == totalEvents # <<>> /\ 100 * Len(errorEvents) >= MaxErrorRatePct * Len(totalEvents)
ADLHigh == \E v \in Venues : adlRisk[v] >= ADLRiskPausePct
ClustersDense == LiqClusterPauseCount > 0 /\ liqClusterCount >= LiqClusterPauseCount
Deleveraging == Len(delevEvents) >= VenueDelevSafeModeCount
Blacklistings == Cardinality({v \in Venues : now < blacklisted[v]}) >= MinCoreVenuesForSafeMode

\* More than three quarters of the pause threshold, and less than it.
Approaching ==
    /\ 400 * (peakEquity - currentEquity) > 3 * MaxDrawdownPct * peakEquity
    /\ ~Drawdown(MaxDrawdownPct)

Triggered(playbook) ==
    CASE playbook = "ADL_EVENT" -> ADLHigh
      [] playbook = "LIQUIDATION_CASCADE" -> ClustersDense
      [] playbook = "VENUE_MAINTENANCE" -> Deleveraging
      [] playbook = "API_DEGRADATION" -> ErrorsHigh
      [] playbook = "VOLATILITY_SPIKE" -> Approaching

TargetMode(playbook) ==
    IF playbook \in {"VENUE_MAINTENANCE", "VOLATILITY_SPIKE"} THEN "SAFE" ELSE "PAUSED"

Active == {p \in Playbooks : activePlaybooks[p] # -1}

\* pruneOlderThan: times are oldest first.
Recent(times) ==
    LET old == {k \in DOMAIN times : times[k] < now - Window}
    IN  SubSeq(times, Cardinality(old) + 1, Len(times))

-----------------------------------------------------------------------------

Init ==
    /\ now = 0 /\ mode = "RUNNING" /\ forced = FALSE
    /\ currentEquity = StartEquity /\ peakEquity = StartEquity
    /\ totalEvents = <<>> /\ errorEvents = <<>> /\ delevEvents = <<>>
    /\ blacklisted = [v \in Venues |-> 0]
    /\ adlRisk = [v \in Venues |-> 0]
    /\ liqClusterCount = 0
    /\ activePlaybooks = [p \in Playbooks |-> -1]
    /\ overridden = {}

\* evaluate, of readings that are the primed variables.  While flattening or halted it
\* only forgets old events.
Activate ==
    activePlaybooks' = [p \in Playbooks |->
        IF mode \notin Machine!Final /\ activePlaybooks[p] = -1 /\ Triggered(p)'
        THEN now ELSE activePlaybooks[p]]

\* Each rule of evaluate tests the rank of the mode that the rules before it left.
Raise(current, holds, to) ==
    IF holds /\ Machine!Rank(current) < Machine!Rank(to) THEN to ELSE current

SafeRules_Calm ==
    Raise(Raise(mode, Blacklistings', "SAFE"), Drawdown(SafeModeDrawdownPct)', "SAFE")

SafeRules ==
    LET blacklistings == Raise(mode, Blacklistings', "SAFE")
        drawdown == Raise(blacklistings, Drawdown(SafeModeDrawdownPct)', "SAFE")
    IN  Raise(drawdown, Deleveraging', "SAFE")

\* Mutant: the last rule lacks its test.
PausedRules_Unranked(current) ==
    IF ClustersDense' THEN "PAUSED"
    ELSE Raise(Raise(Raise(current, Drawdown(MaxDrawdownPct)', "PAUSED"), ErrorsHigh', "PAUSED"),
               ADLHigh', "PAUSED")

\* Mutant: the rules test the mode there was before the evaluation.
PausedRules_Stale(current) ==
    IF \/ Drawdown(MaxDrawdownPct)' \/ ErrorsHigh' \/ ADLHigh' \/ ClustersDense'
    THEN Raise(mode, TRUE, "PAUSED") ELSE current

PausedRules(current) ==
    LET drawdown == Raise(current, Drawdown(MaxDrawdownPct)', "PAUSED")
        errors == Raise(drawdown, ErrorsHigh', "PAUSED")
        adl == Raise(errors, ADLHigh', "PAUSED")
    IN  Raise(adl, ClustersDense', "PAUSED")

Evaluate(totals, errors, delevs) ==
    /\ UNCHANGED <<now, overridden>>
    /\ totalEvents' = Recent(totals)
    /\ errorEvents' = Recent(errors)
    /\ delevEvents' = Recent(delevs)
    /\ mode' = IF mode \in Machine!Final THEN mode ELSE PausedRules(SafeRules)
    /\ forced' = FALSE
    /\ Activate

RecordFill(pnl, isError) ==
    /\ Len(totalEvents) < MaxEvents
    /\ currentEquity' = currentEquity + pnl
    /\ peakEquity' = IF currentEquity' > peakEquity THEN currentEquity' ELSE peakEquity
    /\ UNCHANGED <<blacklisted, adlRisk, liqClusterCount>>
    /\ Evaluate(Append(totalEvents, now),
                IF isError THEN Append(errorEvents, now) ELSE errorEvents, delevEvents)

RecordBlacklist(venue, ttl) ==
    /\ blacklisted' = [blacklisted EXCEPT ![venue] = now + ttl]
    /\ UNCHANGED <<currentEquity, peakEquity, adlRisk, liqClusterCount>>
    /\ Evaluate(totalEvents, errorEvents, delevEvents)

RecordADLRisk(venue, pct) ==
    /\ adlRisk' = [adlRisk EXCEPT ![venue] = pct]
    /\ UNCHANGED <<currentEquity, peakEquity, blacklisted, liqClusterCount>>
    /\ Evaluate(totalEvents, errorEvents, delevEvents)

RecordLiqCluster(count) ==
    /\ liqClusterCount' = count
    /\ UNCHANGED <<currentEquity, peakEquity, blacklisted, adlRisk>>
    /\ Evaluate(totalEvents, errorEvents, delevEvents)

RecordVenueDelevEvent ==
    /\ Len(delevEvents) < MaxDelevEvents
    /\ UNCHANGED <<currentEquity, peakEquity, blacklisted, adlRisk, liqClusterCount>>
    /\ Evaluate(totalEvents, errorEvents, Append(delevEvents, now))

Tick ==
    /\ UNCHANGED <<currentEquity, peakEquity, blacklisted, adlRisk, liqClusterCount>>
    /\ Evaluate(totalEvents, errorEvents, delevEvents)

SetMode(m) ==
    /\ mode' = m /\ forced' = TRUE
    /\ overridden' = Active
    /\ UNCHANGED <<now, readings, activePlaybooks>>

\* Playbooks stop: ActivePlaybooks drops those past their time, ResolvePlaybook one.
Stop(playbooks) ==
    /\ activePlaybooks' = [p \in Playbooks |-> IF p \in playbooks THEN -1 ELSE activePlaybooks[p]]
    /\ overridden' = overridden \ playbooks
    /\ UNCHANGED <<now, mode, forced, readings>>

Overdue == {p \in Active : AutoResolve[p] > 0 /\ now > activePlaybooks[p] + AutoResolve[p]}

ActivePlaybooks == Overdue # {} /\ Stop(Overdue)

ResolvePlaybook(playbook) == playbook \in Active /\ Stop({playbook})

Pass ==
    /\ now < MaxTime
    /\ now' = now + 1
    /\ UNCHANGED <<mode, forced, readings, activePlaybooks, overridden>>

Next ==
    \/ \E pnl \in PnLs, isError \in BOOLEAN : RecordFill(pnl, isError)
    \/ \E venue \in Venues, ttl \in Ttls : RecordBlacklist(venue, ttl)
    \/ \E venue \in Venues, pct \in ADLReadings : RecordADLRisk(venue, pct)
    \/ \E count \in ClusterReadings : RecordLiqCluster(count)
    \/ RecordVenueDelevEvent
    \/ Tick
    \/ \E m \in Machine!Modes : SetMode(m)
    \/ ActivePlaybooks
    \/ \E playbook \in Playbooks : ResolvePlaybook(playbook)
    \/ Pass

Spec == Init /\ [][Next]_vars

-----------------------------------------------------------------------------

\* The mode the readings demand, were there no other.
Demanded ==
    IF Blacklistings \/ Drawdown(SafeModeDrawdownPct) \/ Deleveraging THEN "SAFE"
    ELSE IF Drawdown(MaxDrawdownPct) \/ ErrorsHigh \/ ADLHigh \/ ClustersDense THEN "PAUSED"
    ELSE "RUNNING"

\* The engine keeps the promise of the mode machine.
ImplementsModeMachine == Machine!Spec

\* Until the mode is set by someone, it is at least what the readings demand.
NotBelowRisk == ~forced => Machine!Rank(mode) >= Machine!Rank(Demanded)

\* A playbook is active only with the mode it targets, until someone sets another.
\* The one for volatility spikes is not carried out: its trigger is short of the threshold
\* that pauses.
PlaybooksCarriedOut ==
    \A p \in ((Playbooks \ {"VOLATILITY_SPIKE"}) \cap Active) \ overridden :
        Machine!Rank(mode) >= Machine!Rank(TargetMode(p))

=============================================================================
