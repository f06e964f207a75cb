---------------------------- MODULE EngineProofs ----------------------------
(***************************************************************************)
(* Proofs about the risk engine, for every policy and every sequence of    *)
(* readings: it implements the mode machine, the mode is at least what the *)
(* readings demand until someone sets another, and playbooks are active    *)
(* only with the mode they target.  And about the consensus engine, for    *)
(* every fleet of venues, every message and every trust: a live quote was  *)
(* told over one connection, and who is blacklisted has no say in a mid.   *)
(***************************************************************************)
EXTENDS RiskDaemon, Consensus, Sums, FiniteSetTheorems, TLAPS

\* Forgetting old events leaves times.
LEMMA RecentSeq == ASSUME NEW times \in Seq(Nat) PROVE Recent(times) \in Seq(Nat)
<1> DEFINE old == {k \in DOMAIN times : times[k] < now - Window}
<1>1. IsFiniteSet(1..Len(times))
  BY FS_Interval
<1>2. old \subseteq 1..Len(times)
  OBVIOUS
<1>3. Cardinality(old) \in Nat
  BY <1>1, <1>2, FS_Subset, FS_CardinalityType
<1> HIDE DEF old
<1>4. SubSeq(times, Cardinality(old) + 1, Len(times)) \in Seq(Nat)
  BY <1>3
<1> QED BY <1>4 DEF Recent, old

LEMMA AppendSeq == ASSUME NEW times \in Seq(Nat), NEW t \in Nat
                   PROVE  Append(times, t) \in Seq(Nat)
OBVIOUS

\* The readings demand a mode an evaluation may set.
LEMMA DemandedMode == Demanded \in {"RUNNING", "PAUSED", "SAFE"}
BY DEF Demanded

\* The seven rules, one after the other, come to this: the mode the readings demand, if it
\* is more severe.
LEMMA RulesDemand ==
  ASSUME NEW totals, NEW errors, NEW delevs, Evaluate(totals, errors, delevs)
  PROVE  Machine!Evaluate(Demanded')
<1> DEFINE r == Machine!Rank(mode)
           safe == Blacklistings' \/ Drawdown(SafeModeDrawdownPct)' \/ Deleveraging'
           paused == Drawdown(MaxDrawdownPct)' \/ ErrorsHigh' \/ ADLHigh' \/ ClustersDense'
<1>1. /\ Machine!Rank("RUNNING") = 0 /\ Machine!Rank("PAUSED") = 1 /\ Machine!Rank("SAFE") = 2
      /\ r \in 0..4
  BY DEF Machine!Rank
<1>2. SafeRules = IF safe /\ r < 2 THEN "SAFE" ELSE mode
  BY <1>1 DEF SafeRules, Raise
<1>3. \A current :
         PausedRules(current) = IF paused /\ Machine!Rank(current) < 1 THEN "PAUSED" ELSE current
  BY <1>1 DEF PausedRules, Raise
<1>4. Demanded' = IF safe THEN "SAFE" ELSE IF paused THEN "PAUSED" ELSE "RUNNING"
  BY DEF Demanded
<1>5. mode' = (IF mode \in Machine!Final THEN mode ELSE PausedRules(SafeRules)) /\ forced' = FALSE
  BY Zenon DEF Evaluate
<1> HIDE DEF safe, paused
<1>6. PausedRules(SafeRules) =
         IF Machine!Rank(Demanded') > Machine!Rank(mode) THEN Demanded' ELSE mode
  <2>1. CASE safe /\ r < 2
    BY <1>1, <1>2, <1>3, <1>4, <2>1
  <2>2. CASE safe /\ ~(r < 2)
    BY <1>1, <1>2, <1>3, <1>4, <2>2
  <2>3. CASE ~safe
    BY <1>1, <1>2, <1>3, <1>4, <2>3
  <2> QED  BY <2>1, <2>2, <2>3
<1> HIDE DEF r
<1>7. mode' = IF mode \notin Machine!Final /\ Machine!Rank(Demanded') > Machine!Rank(mode)
              THEN Demanded' ELSE mode
  BY <1>5, <1>6
<1> QED  BY <1>5, <1>7, Zenon DEF Machine!Evaluate

LEMMA RankFacts ==
  /\ Machine!Rank("RUNNING") = 0 /\ Machine!Rank("PAUSED") = 1 /\ Machine!Rank("SAFE") = 2
  /\ Machine!Rank("FLATTEN") = 3 /\ Machine!Rank("HALTED") = 4
  /\ \A m \in Machine!Modes : Machine!Rank(m) \in 0..4
BY DEF Machine!Rank, Machine!Modes

-----------------------------------------------------------------------------
\* The mode.  A reading evaluates, SetMode forces, the rest leaves the mode alone.

\* The steps that evaluate.
Evaluates == \E totals, errors, delevs : Evaluate(totals, errors, delevs)

LEMMA Steps == [Next]_vars =>
    \/ Evaluates
    \/ \E m \in Machine!Modes : SetMode(m)
    \/ \E playbooks \in SUBSET Playbooks : Stop(playbooks)
    \/ Pass
    \/ UNCHANGED vars
<1> SUFFICES ASSUME [Next]_vars
             PROVE  \/ Evaluates
                    \/ \E m \in Machine!Modes : SetMode(m)
                    \/ \E playbooks \in SUBSET Playbooks : Stop(playbooks)
                    \/ Pass
                    \/ UNCHANGED vars
  OBVIOUS
<1>1. CASE \E pnl \in PnLs, isError \in BOOLEAN : RecordFill(pnl, isError)
  BY <1>1, Zenon DEF RecordFill, Evaluates
<1>2. CASE \E venue \in Venues, ttl \in Ttls : RecordBlacklist(venue, ttl)
  BY <1>2, Zenon DEF RecordBlacklist, Evaluates
<1>3. CASE \E venue \in Venues, pct \in ADLReadings : RecordADLRisk(venue, pct)
  BY <1>3, Zenon DEF RecordADLRisk, Evaluates
<1>4. CASE \E count \in ClusterReadings : RecordLiqCluster(count)
  BY <1>4, Zenon DEF RecordLiqCluster, Evaluates
<1>5. CASE RecordVenueDelevEvent \/ Tick
  BY <1>5, Zenon DEF RecordVenueDelevEvent, Tick, Evaluates
<1>6. CASE ActivePlaybooks
  <2>1. Overdue \in SUBSET Playbooks
    BY DEF Overdue, Active
  <2> QED BY <1>6, <2>1 DEF ActivePlaybooks
<1>7. CASE \E playbook \in Playbooks : ResolvePlaybook(playbook)
  <2>1. PICK playbook \in Playbooks : ResolvePlaybook(playbook)
    BY <1>7
  <2>2. {playbook} \in SUBSET Playbooks
    BY <2>1
  <2> QED BY <2>1, <2>2 DEF ResolvePlaybook
<1> QED BY <1>1, <1>2, <1>3, <1>4, <1>5, <1>6, <1>7 DEF Next

LEMMA StepsMachine == [Next]_vars => [Machine!Next]_<<mode, forced>>
<1> SUFFICES ASSUME [Next]_vars PROVE [Machine!Next]_<<mode, forced>>
  OBVIOUS
<1>1. CASE Evaluates
  <2>1. PICK totals, errors, delevs : Evaluate(totals, errors, delevs)
    BY <1>1 DEF Evaluates
  <2>2. Machine!Evaluate(Demanded')
    BY <2>1, RulesDemand
  <2>3. Demanded' \in {"RUNNING", "PAUSED", "SAFE"}
    BY DEF Demanded
  <2> QED BY <2>2, <2>3 DEF Machine!Next
<1>2. CASE \E m \in Machine!Modes : SetMode(m)
  BY <1>2 DEF SetMode, Machine!SetMode, Machine!Next
<1>3. CASE (\E playbooks \in SUBSET Playbooks : Stop(playbooks)) \/ Pass \/ UNCHANGED vars
  BY <1>3 DEF Stop, Pass, vars
<1> QED BY <1>1, <1>2, <1>3, Steps

\* The risk engine implements the mode machine: by itself it only escalates, and not
\* past SAFE.
THEOREM Implements == Spec => ImplementsModeMachine
<1>1. Init => Machine!Init
  BY DEF Init, Machine!Init
<1> QED BY <1>1, StepsMachine, PTL DEF Spec, ImplementsModeMachine, Machine!Spec

-----------------------------------------------------------------------------
\* The mode and what the readings demand.

\* What an evaluation does to the mode.
LEMMA EvaluateMode ==
  ASSUME mode \in Machine!Modes, NEW totals, NEW errors, NEW delevs,
         Evaluate(totals, errors, delevs)
  PROVE  /\ mode' \in Machine!Modes
         /\ Machine!Rank(mode') >= Machine!Rank(mode)
         /\ Machine!Rank(mode') >= Machine!Rank(Demanded')
<1> DEFINE d == Demanded'
<1>1. mode' = IF mode \notin Machine!Final /\ Machine!Rank(d) > Machine!Rank(mode) THEN d ELSE mode
  BY RulesDemand DEF Machine!Evaluate
<1>2. d \in {"RUNNING", "PAUSED", "SAFE"}
  BY DEF Demanded
<1> HIDE DEF d
<1>3. d \in Machine!Modes /\ Machine!Rank(d) \in 0..2
  BY <1>2, RankFacts DEF Machine!Modes
<1>4. Machine!Rank(mode) \in 0..4 /\ (mode \in Machine!Final => Machine!Rank(mode) >= 3)
  BY RankFacts DEF Machine!Final
<1>5. CASE mode \notin Machine!Final /\ Machine!Rank(d) > Machine!Rank(mode)
  BY <1>1, <1>3, <1>4, <1>5 DEF d
<1>6. CASE ~(mode \notin Machine!Final /\ Machine!Rank(d) > Machine!Rank(mode))
  BY <1>1, <1>3, <1>4, <1>6 DEF d
<1> QED BY <1>5, <1>6

\* With time blacklistings only end.
LEMMA PassDemanded ==
  ASSUME Pass, now \in Nat, blacklisted \in [Venues -> Nat]
  PROVE  Machine!Rank(Demanded) >= Machine!Rank(Demanded')
<1>1. now' = now + 1 /\ UNCHANGED readings
  BY DEF Pass
<1>2. Blacklistings' => Blacklistings
  <2> DEFINE before == {v \in Venues : now < blacklisted[v]}
             after == {v \in Venues : now' < blacklisted[v]}
  <2>1. after \subseteq before
    BY <1>1
  <2>2. IsFiniteSet(before)
    BY RiskAssumption, FS_Subset
  <2>3. Cardinality(after) <= Cardinality(before)
        /\ Cardinality(after) \in Nat /\ Cardinality(before) \in Nat
    BY <2>1, <2>2, FS_Subset, FS_CardinalityType
  <2>4. Blacklistings' <=> Cardinality(after) >= MinCoreVenuesForSafeMode
    BY <1>1 DEF Blacklistings, readings
  <2> HIDE DEF after
  <2>5. Blacklistings <=> Cardinality(before) >= MinCoreVenuesForSafeMode
    BY DEF Blacklistings
  <2> HIDE DEF before
  <2> QED BY <2>3, <2>4, <2>5, RiskAssumption
<1>3. /\ Drawdown(SafeModeDrawdownPct)' = Drawdown(SafeModeDrawdownPct)
      /\ Drawdown(MaxDrawdownPct)' = Drawdown(MaxDrawdownPct)
      /\ Deleveraging' = Deleveraging
      /\ ErrorsHigh' = ErrorsHigh
      /\ ADLHigh' = ADLHigh
      /\ ClustersDense' = ClustersDense
  BY <1>1 DEF readings, Drawdown, Deleveraging, ErrorsHigh, ADLHigh, ClustersDense
<1>4. \/ Demanded' = Demanded
      \/ Demanded = "SAFE" /\ Demanded' \in {"RUNNING", "PAUSED"}
  <2>1. CASE Blacklistings \/ Drawdown(SafeModeDrawdownPct) \/ Deleveraging
    <3>1. Demanded = "SAFE" /\ Demanded' \in {"RUNNING", "PAUSED", "SAFE"}
      BY <2>1 DEF Demanded
    <3> QED BY <3>1
  <2>2. CASE ~(Blacklistings \/ Drawdown(SafeModeDrawdownPct) \/ Deleveraging)
    <3>1. ~(Blacklistings' \/ Drawdown(SafeModeDrawdownPct)' \/ Deleveraging')
      BY <1>2, <1>3, <2>2
    <3> QED BY <1>3, <2>2, <3>1 DEF Demanded
  <2> QED BY <2>1, <2>2
<1>5. Machine!Rank(Demanded) \in 0..4
  BY DemandedMode, RankFacts
<1> QED BY <1>4, <1>5, RankFacts

-----------------------------------------------------------------------------
\* Type correctness.

EventsOK == totalEvents \in Seq(Nat) /\ errorEvents \in Seq(Nat) /\ delevEvents \in Seq(Nat)

LEMMA EvaluateTypeOK ==
  ASSUME TypeOK, NEW totals \in Seq(Nat), NEW errors \in Seq(Nat), NEW delevs \in Seq(Nat),
         Evaluate(totals, errors, delevs)
  PROVE  /\ now' \in Nat /\ mode' \in Machine!Modes /\ forced' \in BOOLEAN
         /\ EventsOK'
         /\ activePlaybooks' \in [Playbooks -> Nat \cup {-1}]
         /\ overridden' \subseteq Playbooks
<1>1. now' = now /\ overridden' = overridden /\ now \in Nat /\ overridden \subseteq Playbooks
  BY DEF Evaluate, TypeOK
<1>2. mode' \in Machine!Modes
  BY EvaluateMode DEF TypeOK
<1>3. forced' \in BOOLEAN
  BY Zenon DEF Evaluate
<1>4. EventsOK'
  BY RecentSeq DEF Evaluate, EventsOK
<1>5. activePlaybooks' \in [Playbooks -> Nat \cup {-1}]
  <2>1. activePlaybooks \in [Playbooks -> Nat \cup {-1}]
    BY DEF TypeOK
  <2>2. \A p \in Playbooks : activePlaybooks'[p] \in {now, activePlaybooks[p]}
    BY DEF Evaluate, Activate
  <2>3. activePlaybooks' = [p \in Playbooks |-> activePlaybooks'[p]]
    BY DEF Evaluate, Activate
  <2> QED BY <1>1, <2>1, <2>2, <2>3
<1> QED BY <1>1, <1>2, <1>3, <1>4, <1>5

\* A reading that leaves what it does not evaluate well typed.
LEMMA ReadingTypeOK ==
  ASSUME TypeOK, NEW totals \in Seq(Nat), NEW errors \in Seq(Nat), NEW delevs \in Seq(Nat),
         Evaluate(totals, errors, delevs),
         currentEquity' \in Int, peakEquity' \in Nat,
         currentEquity' <= peakEquity',
         blacklisted' \in [Venues -> Nat], adlRisk' \in [Venues -> Nat],
         liqClusterCount' \in Nat
  PROVE  TypeOK'
<1>1. /\ now' \in Nat /\ mode' \in Machine!Modes /\ forced' \in BOOLEAN
      /\ EventsOK'
      /\ activePlaybooks' \in [Playbooks -> Nat \cup {-1}]
      /\ overridden' \subseteq Playbooks
  BY EvaluateTypeOK
<1> QED BY <1>1, Zenon DEF TypeOK, EventsOK

LEMMA NextTypeOK == TypeOK /\ [Next]_vars => TypeOK'
<1> SUFFICES ASSUME TypeOK, [Next]_vars PROVE TypeOK'
  OBVIOUS
<1>1. /\ totalEvents \in Seq(Nat) /\ errorEvents \in Seq(Nat) /\ delevEvents \in Seq(Nat)
      /\ Append(totalEvents, now) \in Seq(Nat) /\ Append(errorEvents, now) \in Seq(Nat)
      /\ Append(delevEvents, now) \in Seq(Nat)
  BY AppendSeq DEF TypeOK
<1>2. /\ currentEquity \in Int /\ peakEquity \in Nat
      /\ currentEquity <= peakEquity
      /\ now \in Nat
      /\ blacklisted \in [Venues -> Nat] /\ adlRisk \in [Venues -> Nat]
      /\ liqClusterCount \in Nat
  BY DEF TypeOK
<1>3. CASE \E pnl \in PnLs, isError \in BOOLEAN : RecordFill(pnl, isError)
  <2>1. PICK pnl \in PnLs, isError \in BOOLEAN : RecordFill(pnl, isError)
    BY <1>3
  <2>2. pnl \in Int
    BY RiskAssumption
  <2>3. /\ currentEquity' = currentEquity + pnl
        /\ peakEquity' = IF currentEquity' > peakEquity THEN currentEquity' ELSE peakEquity
        /\ UNCHANGED <<blacklisted, adlRisk, liqClusterCount>>
    BY <2>1 DEF RecordFill
  <2>4. /\ currentEquity' \in Int /\ peakEquity' \in Nat
        /\ currentEquity' <= peakEquity'
    BY <1>2, <2>2, <2>3
  <2>5. PICK errors \in Seq(Nat) : Evaluate(Append(totalEvents, now), errors, delevEvents)
    BY <1>1, <2>1, Zenon DEF RecordFill
  <2> QED BY <1>1, <1>2, <2>3, <2>4, <2>5, ReadingTypeOK
<1>4. CASE \E venue \in Venues, ttl \in Ttls : RecordBlacklist(venue, ttl)
  <2>1. PICK venue \in Venues, ttl \in Ttls : RecordBlacklist(venue, ttl)
    BY <1>4
  <2>2. now + ttl \in Nat
    BY <1>2, RiskAssumption
  <2>3. /\ blacklisted' = [blacklisted EXCEPT ![venue] = now + ttl]
        /\ UNCHANGED <<currentEquity, peakEquity, adlRisk, liqClusterCount>>
        /\ Evaluate(totalEvents, errorEvents, delevEvents)
    BY <2>1 DEF RecordBlacklist
  <2>4. blacklisted' \in [Venues -> Nat]
    BY <1>2, <2>2, <2>3
  <2> QED BY <1>1, <1>2, <2>3, <2>4, ReadingTypeOK
<1>5. CASE \E venue \in Venues, pct \in ADLReadings : RecordADLRisk(venue, pct)
  <2>1. PICK venue \in Venues, pct \in ADLReadings : RecordADLRisk(venue, pct)
    BY <1>5
  <2>2. /\ adlRisk' = [adlRisk EXCEPT ![venue] = pct]
        /\ UNCHANGED <<currentEquity, peakEquity, blacklisted, liqClusterCount>>
        /\ Evaluate(totalEvents, errorEvents, delevEvents)
    BY <2>1 DEF RecordADLRisk
  <2>3. adlRisk' \in [Venues -> Nat]
    BY <1>2, <2>2, RiskAssumption
  <2> QED BY <1>1, <1>2, <2>2, <2>3, ReadingTypeOK
<1>6. CASE \E count \in ClusterReadings : RecordLiqCluster(count)
  <2>1. PICK count \in ClusterReadings : RecordLiqCluster(count)
    BY <1>6
  <2>2. /\ liqClusterCount' \in Nat
        /\ UNCHANGED <<currentEquity, peakEquity, blacklisted, adlRisk>>
        /\ Evaluate(totalEvents, errorEvents, delevEvents)
    BY <2>1, RiskAssumption DEF RecordLiqCluster
  <2> QED BY <1>1, <1>2, <2>2, ReadingTypeOK
<1>7. CASE RecordVenueDelevEvent \/ Tick
  <2>1. PICK delevs \in Seq(Nat) : Evaluate(totalEvents, errorEvents, delevs)
    BY <1>1, <1>7 DEF RecordVenueDelevEvent, Tick
  <2>2. UNCHANGED <<currentEquity, peakEquity, blacklisted, adlRisk, liqClusterCount>>
    BY <1>7 DEF RecordVenueDelevEvent, Tick
  <2> QED BY <1>1, <1>2, <2>1, <2>2, ReadingTypeOK
<1>8. CASE \E m \in Machine!Modes : SetMode(m)
  <2>1. PICK m \in Machine!Modes : SetMode(m)
    BY <1>8
  <2>2. /\ mode' \in Machine!Modes
        /\ overridden' \subseteq Playbooks
        /\ UNCHANGED <<now, readings, activePlaybooks>>
    BY <2>1 DEF SetMode, Active
  <2>3. forced' \in BOOLEAN
    BY <2>1, Zenon DEF SetMode
  <2> QED BY <2>2, <2>3 DEF TypeOK, readings
<1>9. CASE \E playbooks \in SUBSET Playbooks : Stop(playbooks)
  <2>1. PICK playbooks \in SUBSET Playbooks : Stop(playbooks)
    BY <1>9
  <2>2. /\ UNCHANGED <<now, mode, forced, readings>>
        /\ overridden' \subseteq Playbooks
        /\ activePlaybooks' \in [Playbooks -> Nat \cup {-1}]
    BY <2>1 DEF Stop, TypeOK
  <2> QED BY <2>2 DEF TypeOK, readings
<1>10. CASE Pass
  <2>1. now' \in Nat /\ UNCHANGED <<mode, forced, readings, activePlaybooks, overridden>>
    BY <1>2, <1>10 DEF Pass
  <2> QED BY <2>1 DEF TypeOK, readings
<1>11. CASE UNCHANGED vars
  BY <1>11 DEF vars, readings, TypeOK
<1>12. CASE ActivePlaybooks \/ \E playbook \in Playbooks : ResolvePlaybook(playbook)
  <2>1. \E playbooks \in SUBSET Playbooks : Stop(playbooks)
    BY <1>12, Zenon DEF ActivePlaybooks, ResolvePlaybook, Overdue, Active
  <2> QED BY <1>9, <2>1
<1> QED BY <1>3, <1>4, <1>5, <1>6, <1>7, <1>8, <1>10, <1>11, <1>12 DEF Next

\* Every reachable state is well typed; the peak is never below the equity.
THEOREM TypeCorrect == Spec => []TypeOK
<1>1. Init => TypeOK
  <2> SUFFICES ASSUME Init PROVE TypeOK
    OBVIOUS
  <2>1. mode \in Machine!Modes /\ overridden \subseteq Playbooks
    BY DEF Init, Machine!Modes
  <2>2. forced \in BOOLEAN
    BY Zenon DEF Init
  <2> QED BY <2>1, <2>2, RiskAssumption DEF Init, TypeOK
<1> QED BY <1>1, NextTypeOK, PTL DEF Spec

-----------------------------------------------------------------------------
\* The mode, the readings and the playbooks.

LEMMA StepNotBelowRisk == ASSUME TypeOK, NotBelowRisk, [Next]_vars PROVE NotBelowRisk'
<1>1. CASE Evaluates
  BY <1>1, EvaluateMode DEF Evaluates, NotBelowRisk, TypeOK
<1>2. CASE \E m \in Machine!Modes : SetMode(m)
  BY <1>2 DEF SetMode, NotBelowRisk
<1>3. CASE (\E playbooks \in SUBSET Playbooks : Stop(playbooks)) \/ UNCHANGED vars
  <2>1. UNCHANGED <<now, mode, forced, readings>>
    BY <1>3 DEF Stop, vars
  <2>2. Demanded' = Demanded
    BY <2>1 DEF Demanded, readings, Blacklistings, Drawdown, Deleveraging, ErrorsHigh, ADLHigh,
                ClustersDense
  <2> QED BY <2>1, <2>2 DEF NotBelowRisk
<1>4. CASE Pass
  <2>1. Machine!Rank(Demanded) >= Machine!Rank(Demanded')
    BY <1>4, PassDemanded DEF TypeOK
  <2>2. UNCHANGED <<mode, forced>>
    BY <1>4 DEF Pass
  <2>3. /\ Machine!Rank(Demanded) \in 0..4 /\ Machine!Rank(Demanded') \in 0..4
        /\ Machine!Rank(mode) \in 0..4
    BY RankFacts DEF Demanded, TypeOK
  <2> QED BY <2>1, <2>2, <2>3 DEF NotBelowRisk
<1> QED BY <1>1, <1>2, <1>3, <1>4, Steps

\* Whatever is reported and whatever time passes, the mode is at least what the readings
\* demand until someone sets another.
THEOREM NotBelowRiskHolds == Spec => []NotBelowRisk
<1>1. Init => NotBelowRisk
  <2> SUFFICES ASSUME Init PROVE NotBelowRisk
    OBVIOUS
  <2>1. {v \in Venues : now < blacklisted[v]} = {}
    BY DEF Init
  <2>2. ~Blacklistings
    BY <2>1, FS_EmptySet, RiskAssumption DEF Blacklistings
  <2>3. ~Drawdown(SafeModeDrawdownPct) /\ ~Drawdown(MaxDrawdownPct)
    <3>1. \A pct \in Nat \ {0} : pct * StartEquity > 0
      BY RiskAssumption
    <3> QED BY <3>1, RiskAssumption DEF Drawdown, Init
  <2>4. ~Deleveraging /\ ~ErrorsHigh /\ ~ADLHigh /\ ~ClustersDense
    BY RiskAssumption DEF Init, Deleveraging, ErrorsHigh, ADLHigh, ClustersDense
  <2>5. Demanded = "RUNNING" /\ mode = "RUNNING"
    BY <2>2, <2>3, <2>4 DEF Demanded, Init
  <2>6. Machine!Rank(Demanded) = 0 /\ Machine!Rank(mode) = 0
    BY <2>5, RankFacts
  <2> QED BY <2>6 DEF NotBelowRisk
<1> QED BY <1>1, StepNotBelowRisk, TypeCorrect, PTL DEF Spec

Carried == Playbooks \ {"VOLATILITY_SPIKE"}

\* A triggered playbook targets no more than what the readings demand (stated of the
\* next state, where it is used).
LEMMA TriggeredDemands ==
  ASSUME NEW p \in Carried, Triggered(p)'
  PROVE  Machine!Rank(TargetMode(p)) <= Machine!Rank(Demanded')
<1>1. CASE p = "VENUE_MAINTENANCE"
  <2>1. Deleveraging'
    BY <1>1 DEF Triggered
  <2>2. Demanded' = "SAFE" /\ TargetMode(p) = "SAFE"
    BY <1>1, <2>1 DEF Demanded, TargetMode
  <2> QED BY <2>2, RankFacts
<1>2. CASE p # "VENUE_MAINTENANCE"
  <2>1. (ErrorsHigh \/ ADLHigh \/ ClustersDense)'
    BY <1>2 DEF Triggered, Carried, Playbooks
  <2>2. Demanded' \in {"PAUSED", "SAFE"}
    BY <2>1 DEF Demanded
  <2>3. TargetMode(p) = "PAUSED"
    BY <1>2 DEF TargetMode, Carried
  <2> QED BY <2>2, <2>3, RankFacts
<1> QED BY <1>1, <1>2

LEMMA StepCarriedOut ==
  ASSUME TypeOK, PlaybooksCarriedOut, [Next]_vars
  PROVE  PlaybooksCarriedOut'
<1> USE DEF Carried
<1>1. \A p \in (Carried \cap Active) \ overridden : Machine!Rank(mode) >= Machine!Rank(TargetMode(p))
  BY DEF PlaybooksCarriedOut
<1>2. SUFFICES ASSUME NEW p \in Carried, p \in Active', p \notin overridden'
               PROVE  Machine!Rank(mode') >= Machine!Rank(TargetMode(p))
  BY DEF PlaybooksCarriedOut, TargetMode
<1>3. TargetMode(p) \in Machine!Modes
  BY DEF TargetMode, Machine!Modes
<1>4. Machine!Rank(TargetMode(p)) \in 0..4
  BY <1>3, RankFacts
<1>5. CASE Evaluates
  <2>1. PICK totals, errors, delevs : Evaluate(totals, errors, delevs)
    BY <1>5 DEF Evaluates
  <2>2. /\ mode' \in Machine!Modes
        /\ Machine!Rank(mode') >= Machine!Rank(mode)
        /\ Machine!Rank(mode') >= Machine!Rank(Demanded')
    BY <2>1, EvaluateMode DEF TypeOK
  <2>3. Machine!Rank(mode) \in 0..4 /\ Machine!Rank(mode') \in 0..4
    BY <2>2, RankFacts DEF TypeOK
  <2>4. CASE p \in Active
    <3>1. p \notin overridden
      BY <1>2, <2>1 DEF Evaluate
    <3>2. Machine!Rank(mode) >= Machine!Rank(TargetMode(p))
      BY <1>1, <1>2, <2>4, <3>1
    <3> QED BY <1>4, <2>2, <2>3, <3>2
  <2>5. CASE p \notin Active
    <3>1. activePlaybooks[p] = -1 /\ activePlaybooks'[p] # -1
      BY <1>2, <2>5 DEF Active
    <3>2. Triggered(p)'
      BY <2>1, <3>1 DEF Evaluate, Activate
    <3>4. Machine!Rank(TargetMode(p)) <= Machine!Rank(Demanded')
      BY <3>2, TriggeredDemands
    <3>5. Machine!Rank(Demanded') \in 0..4
      BY RankFacts DEF Demanded
    <3> QED BY <1>4, <2>2, <2>3, <3>4, <3>5
  <2> QED BY <2>4, <2>5
<1>6. CASE \E m \in Machine!Modes : SetMode(m)
  BY <1>2, <1>6 DEF SetMode, Active
<1>7. CASE \E playbooks \in SUBSET Playbooks : Stop(playbooks)
  <2>1. PICK playbooks \in SUBSET Playbooks : Stop(playbooks)
    BY <1>7
  <2>2. activePlaybooks'[p] # -1
    BY <1>2 DEF Active
  <2>3. p \notin playbooks /\ activePlaybooks[p] # -1
    BY <2>1, <2>2 DEF Stop
  <2>4. p \in Active /\ p \notin overridden /\ mode' = mode
    BY <1>2, <2>1, <2>3 DEF Stop, Active
  <2> QED BY <1>1, <1>2, <2>4
<1>8. CASE Pass \/ UNCHANGED vars
  <2>1. UNCHANGED <<mode, activePlaybooks, overridden>>
    BY <1>8 DEF Pass, vars
  <2> QED BY <1>1, <1>2, <2>1 DEF Active
<1> QED BY <1>5, <1>6, <1>7, <1>8, Steps

\* An active playbook other than the one for volatility spikes has the mode it targets,
\* or a more severe one, until someone sets another.
THEOREM PlaybooksCarriedOutHolds == Spec => []PlaybooksCarriedOut
<1>1. Init => PlaybooksCarriedOut
  BY DEF Init, PlaybooksCarriedOut, Active
<1> QED BY <1>1, StepCarriedOut, TypeCorrect, PTL DEF Spec

-----------------------------------------------------------------------------
(* The consensus engine behind the market data: what the feeds tell. *)

PriceSide == [price : Nat, on : {0, 1}]
PartialQuote == [bid : PriceSide, ask : PriceSide]
StreamQuote == [venue : DOMAIN Tops, bid : Nat, ask : Nat, connected : BOOLEAN, age : Nat]

\* What is known of a quote was told over connection c.
ToldOver(q, c) == (q.bid.price > 0 => q.bid.on = c) /\ (q.ask.price > 0 => q.ask.on = c)

MarketType ==
    /\ venues \in Fleets /\ up \subseteq venues \cap Known
    /\ connection \in [venues -> {0, 1}]
    /\ quotes \in [venues -> PartialQuote]
    /\ stream \in Seq(StreamQuote)

\* Whatever a connected venue's quote holds, the present connection told.
FeedInv == MarketType /\ \A v \in up : ToldOver(quotes[v], connection[v])

LEMMA EmptyTold == ASSUME NEW c PROVE Empty \in PartialQuote /\ ToldOver(Empty, c)
  BY DEF Empty, Nothing, PartialQuote, PriceSide, ToldOver

LEMMA BothTold == ASSUME NEW c \in {0, 1}, NEW top \in Nat \X Nat
                  PROVE  Both(top, c) \in PartialQuote /\ ToldOver(Both(top, c), c)
<1>1. top[1] \in Nat /\ top[2] \in Nat
  OBVIOUS
<1> QED BY <1>1 DEF Both, Side, PartialQuote, PriceSide, ToldOver

LEMMA DeltaTold == ASSUME NEW c \in {0, 1}, NEW top \in Nat \X Nat, NEW q \in PartialQuote, ToldOver(q, c)
                   PROVE  Delta(top, c, q) \in PartialQuote /\ ToldOver(Delta(top, c, q), c)
<1>1. top[1] \in Nat /\ top[2] \in Nat
  OBVIOUS
<1> QED BY <1>1 DEF Delta, Side, PartialQuote, PriceSide, ToldOver

\* A message leaves a quote that the connection told.
LEMMA AfterTold ==
    ASSUME NEW v \in Known, NEW kind \in Kinds(v), NEW c \in {0, 1}, NEW top \in Nat \X Nat,
           NEW q \in PartialQuote, ToldOver(q, c)
    PROVE  /\ After(v, kind, top, c, q).quote \in PartialQuote
           /\ ToldOver(After(v, kind, top, c, q).quote, c)
<1> DEFINE a == After(v, kind, top, c, q)
<1>1. a.quote = Both(top, c) \/ a.quote = Delta(top, c, q) \/ a.quote = q
  <2>1. CASE v = "binance"
    BY <2>1 DEF Kinds, After, Binance, BinanceStreams, Says
  <2>2. CASE v = "bybit"
    BY <2>2 DEF Kinds, After, Bybit, BybitTopics, Says
  <2>3. CASE v = "okx"
    BY <2>3 DEF Kinds, After, Okx, OkxChannels, Says
  <2>4. CASE v = "deribit"
    BY <2>4 DEF Kinds, After, Deribit, DeribitChannels, Says
  <2>5. CASE v = "gate"
    BY <2>5 DEF Kinds, After, Gate, GateChannels, Says
  <2>6. CASE v = "htx"
    BY <2>6 DEF Kinds, After, Htx, HtxTopics, Says
  <2> QED BY <2>1, <2>2, <2>3, <2>4, <2>5, <2>6 DEF Known
<1> HIDE DEF a
<1> QED BY <1>1, BothTold, DeltaTold DEF a

LEMMA PublishTyped ==
    ASSUME MarketType, NEW v \in venues, NEW q \in PartialQuote, NEW b \in BOOLEAN, Publish(v, q, b)
    PROVE  /\ stream' \in Seq(StreamQuote)
           /\ stream' = stream \/ /\ Len(stream') = Len(stream) + 1
                                  /\ stream'[Len(stream')].venue = v
                                  /\ stream'[Len(stream')].connected = b
<1> DEFINE r == [venue |-> v, bid |-> q.bid.price, ask |-> q.ask.price, connected |-> b, age |-> 0]
<1>1. venues \subseteq DOMAIN Tops
  BY MarketAssumption DEF MarketType
<1>2. r \in StreamQuote
  BY <1>1 DEF StreamQuote, PartialQuote, PriceSide
<1>3. stream' = stream \/ stream' = Append(stream, r)
  BY DEF Publish
<1> HIDE DEF r
<1>4. stream \in Seq(StreamQuote)
  BY DEF MarketType
<1>5. CASE stream' = Append(stream, r)
  <2>1. stream' \in Seq(StreamQuote) /\ Len(stream') = Len(stream) + 1 /\ stream'[Len(stream')] = r
    BY <1>2, <1>4, <1>5
  <2>2. r.venue = v /\ r.connected = b
    BY DEF r
  <2> QED BY <2>1, <2>2
<1> QED BY <1>3, <1>4, <1>5

\* A quote published as live is the message's, told over the present connection.
LiveQuoteTold ==
    \A v \in up' :
        stream' # stream /\ Len(stream') > Len(stream) /\ stream'[Len(stream')].connected
            /\ stream'[Len(stream')].venue = v
        => quotes'[v].bid.on = connection'[v] /\ quotes'[v].ask.on = connection'[v]

LEMMA ConnectFeed ==
    ASSUME FeedInv, NEW v \in venues, Connect(v) PROVE FeedInv' /\ LiveQuoteTold
<1>1. MarketType'
  BY EmptyTold DEF FeedInv, MarketType, Connect
<1>2. ASSUME NEW w \in up' PROVE ToldOver(quotes[w], connection[w])'
  <2>1. CASE w = v
    <3>1. quotes'[w] = Empty
      BY <2>1 DEF FeedInv, MarketType, Connect
    <3> QED BY <3>1 DEF ToldOver, Empty, Nothing
  <2>2. CASE w # v
    <3>1. w \in up /\ quotes'[w] = quotes[w] /\ connection'[w] = connection[w]
      BY <2>2 DEF FeedInv, MarketType, Connect
    <3> QED BY <3>1 DEF FeedInv, ToldOver
  <2> QED BY <2>1, <2>2
<1> QED BY <1>1, <1>2 DEF FeedInv, LiveQuoteTold, Connect

LEMMA MessageFeed ==
    ASSUME FeedInv, NEW v \in venues, Message(v) PROVE FeedInv' /\ LiveQuoteTold
<1> DEFINE after(k, t) == After(v, k, t, connection[v], quotes[v])
<1>1. PICK kind \in Kinds(v), top \in Tops[v] :
         /\ quotes' = [quotes EXCEPT ![v] = after(kind, top).quote]
         /\ IF after(kind, top).publish /\ after(kind, top).quote.bid.price > 0 /\ after(kind, top).quote.ask.price > 0
            THEN Publish(v, after(kind, top).quote, TRUE)
            ELSE UNCHANGED stream
  BY DEF Message
<1> DEFINE q == after(kind, top).quote
<1>2. v \in up /\ v \in Known /\ UNCHANGED <<venues, up, connection>>
  BY DEF Message, FeedInv, MarketType
<1>3. top \in Nat \X Nat
  BY MarketAssumption DEF FeedInv, MarketType
<1>4. connection[v] \in {0, 1} /\ quotes[v] \in PartialQuote /\ ToldOver(quotes[v], connection[v])
  BY <1>2 DEF FeedInv, MarketType
<1>5. q \in PartialQuote /\ ToldOver(q, connection[v])
  BY <1>2, <1>3, <1>4, AfterTold
<1>6. \/ UNCHANGED stream
      \/ Publish(v, q, TRUE) /\ q.bid.price > 0 /\ q.ask.price > 0
  BY <1>1
<1>7. quotes' = [quotes EXCEPT ![v] = q]
  BY <1>1
<1> HIDE DEF after, q
<1>8. stream' \in Seq(StreamQuote)
  BY <1>5, <1>6, PublishTyped DEF FeedInv, MarketType
<1>9. MarketType'
  BY <1>2, <1>5, <1>7, <1>8 DEF FeedInv, MarketType
<1>10. quotes'[v] = q
  BY <1>7 DEF FeedInv, MarketType
<1>11. ASSUME NEW w \in up' PROVE ToldOver(quotes[w], connection[w])'
  <2>1. CASE w = v
    BY <1>2, <1>5, <1>10, <2>1 DEF ToldOver
  <2>2. CASE w # v
    <3>1. w \in up /\ quotes'[w] = quotes[w] /\ connection'[w] = connection[w]
      BY <1>2, <1>7, <2>2 DEF FeedInv, MarketType
    <3> QED BY <3>1 DEF FeedInv, ToldOver
  <2> QED BY <2>1, <2>2
<1>12. LiveQuoteTold
  <2>1. CASE UNCHANGED stream
    BY <2>1 DEF LiveQuoteTold
  <2>2. CASE Publish(v, q, TRUE) /\ q.bid.price > 0 /\ q.ask.price > 0
    <3>1. stream' = stream \/ stream'[Len(stream')].venue = v
      BY <1>5, <2>2, PublishTyped DEF FeedInv
    <3>2. q.bid.on = connection[v] /\ q.ask.on = connection[v]
      BY <1>5, <2>2 DEF ToldOver
    <3> QED BY <1>2, <1>10, <3>1, <3>2 DEF LiveQuoteTold
  <2> QED BY <1>6, <2>1, <2>2
<1> QED BY <1>9, <1>11, <1>12 DEF FeedInv

LEMMA FailFeed ==
    ASSUME FeedInv, NEW v \in venues, ReadFails(v) \/ AnswerFails(v) PROVE FeedInv' /\ LiveQuoteTold
<1>1. up' \subseteq up /\ UNCHANGED <<venues, quotes, connection>>
  BY DEF ReadFails, AnswerFails, Breaks
<1>2. UNCHANGED stream \/ Publish(v, quotes[v], FALSE)
  BY DEF ReadFails, AnswerFails
<1>3. quotes[v] \in PartialQuote
  BY DEF FeedInv, MarketType
<1>4. stream' \in Seq(StreamQuote) /\ (stream' = stream \/ stream'[Len(stream')].connected = FALSE)
  BY <1>2, <1>3, PublishTyped DEF FeedInv, MarketType
<1>5. MarketType'
  BY <1>1, <1>4 DEF FeedInv, MarketType
<1>6. \A w \in up' : ToldOver(quotes[w], connection[w])'
  BY <1>1 DEF FeedInv, ToldOver
<1>7. LiveQuoteTold
  BY <1>4 DEF LiveQuoteTold
<1> QED BY <1>5, <1>6, <1>7 DEF FeedInv

LEMMA MarketStepFeed == ASSUME FeedInv, MarketNext PROVE FeedInv' /\ LiveQuoteTold
<1>1. CASE MarketRestart
  BY <1>1, EmptyTold DEF MarketRestart, FeedInv, MarketType, LiveQuoteTold
<1>2. CASE \E v \in venues : Connect(v) \/ Message(v) \/ ReadFails(v) \/ AnswerFails(v)
  BY <1>2, ConnectFeed, MessageFeed, FailFeed
<1> QED BY <1>1, <1>2 DEF MarketNext

LEMMA AgedTyped == ASSUME NEW q \in StreamQuote PROVE Aged(q) \in StreamQuote
  BY MarketAssumption DEF Aged, StreamQuote

\* The consensus engine reads, and time passes.
LEMMA EngineStepFeed ==
    ASSUME FeedInv, UNCHANGED <<venues, up, quotes, connection>>,
           stream' \in Seq(StreamQuote), stream' = stream \/ ~(Len(stream') > Len(stream))
    PROVE  FeedInv' /\ LiveQuoteTold
  BY DEF FeedInv, MarketType, ToldOver, LiveQuoteTold

LEMMA ConsensusStepFeed == ASSUME FeedInv, [ConsensusNext]_pricingVars PROVE FeedInv' /\ LiveQuoteTold
<1> stream \in Seq(StreamQuote)
  BY DEF FeedInv, MarketType
<1>1. CASE UNCHANGED marketVars
  BY <1>1, EngineStepFeed DEF marketVars
<1>2. CASE MarketNext
  BY <1>2, MarketStepFeed
<1>3. CASE ReadMarketUpdates
  <2> DEFINE n == IF Len(stream) < BatchSize THEN Len(stream) ELSE BatchSize
  <2>1. stream' = SubSeq(stream, n + 1, Len(stream)) /\ UNCHANGED <<venues, up, quotes, connection>>
    BY <1>3 DEF ReadMarketUpdates
  <2>2. n \in Nat /\ n <= Len(stream)
    BY ConsensusAssumption
  <2> HIDE DEF n
  <2>3. stream' \in Seq(StreamQuote) /\ ~(Len(stream') > Len(stream))
    BY <2>1, <2>2
  <2> QED BY <2>1, <2>3, EngineStepFeed
<1>4. CASE Passing
  <2>1. stream' = [k \in DOMAIN stream |-> Aged(stream[k])] /\ UNCHANGED <<venues, up, quotes, connection>>
    BY <1>4 DEF Passing
  <2>2. \A k \in DOMAIN stream : Aged(stream[k]) \in StreamQuote
    BY AgedTyped
  <2>3. stream' \in Seq(StreamQuote) /\ Len(stream') = Len(stream)
    BY <2>1, <2>2
  <2> QED BY <2>1, <2>3, EngineStepFeed
<1>5. \/ UNCHANGED marketVars \/ MarketNext \/ ReadMarketUpdates \/ Passing
  BY Zenon DEF ConsensusNext, Loop, CheckStopped, Compute, ConsensusRestart, StopOrStart, Consume, pricingVars
<1> QED BY <1>1, <1>2, <1>3, <1>4, <1>5

LEMMA ConsensusInitFeed == ASSUME ConsensusInit PROVE FeedInv
  BY EmptyTold DEF ConsensusInit, MarketInit, FeedInv, MarketType, ToldOver

\* The two sides of a quote published as live were told over one connection, the present
\* one, whatever messages came and however often the connection broke
\* (marketdata: quoteState, runWithBackoff).
THEOREM OneConnectionHolds == ConsensusSpec => OneConnection
<1>1. FeedInv /\ [ConsensusNext]_pricingVars => FeedInv'
  BY ConsensusStepFeed
<1>2. FeedInv /\ [ConsensusNext]_pricingVars => [LiveQuoteTold]_marketVars
  BY ConsensusStepFeed
<1> QED BY ConsensusInitFeed, <1>1, <1>2, PTL DEF ConsensusSpec, OneConnection, LiveQuoteTold

-----------------------------------------------------------------------------
(* Trust. *)

EngineType ==
    /\ store \in [venues -> {None} \cup StreamQuote]
    /\ statuses \in [venues -> VenueState]

EngineInv == FeedInv /\ EngineType

LEMMA BaseNat == ASSUME NEW v PROVE Base(v) \in Nat
  BY ConsensusAssumption DEF Base

LEMMA StalenessNat == ASSUME NEW age \in Nat, age <= StaleMs PROVE StalenessFactor(age) \in Nat
<1>1. StaleMs \in Nat
  BY MarketAssumption
<1> QED BY <1>1 DEF StalenessFactor

LEMMA UndoubtedNat ==
    ASSUME EngineType, NEW v \in LiveQuotes, NEW median, NEW mad
    PROVE  Undoubted(v, median, mad) \in Nat
<1>1. store[v] \in StreamQuote /\ store[v].age <= StaleMs
  BY DEF LiveQuotes, EngineType
<1>2. store[v].age \in Nat
  BY <1>1 DEF StreamQuote
<1> DEFINE b == Base(v)
           o == OutlierFactor(v, median, mad)
           s == StalenessFactor(store[v].age)
           p == SpreadFactor(store[v])
<1>3. b \in Nat /\ o \in Nat /\ s \in Nat /\ p \in Nat
  BY <1>1, <1>2, BaseNat, StalenessNat DEF OutlierFactor, SpreadFactor
<1>4. Undoubted(v, median, mad) = b * o * s * p
  BY DEF Undoubted
<1> HIDE DEF b, o, s, p
<1>5. b * o \in Nat
  BY <1>3, ProductNat
<1>6. b * o * s \in Nat
  BY <1>3, <1>5, ProductNat
<1>7. b * o * s * p \in Nat
  BY <1>3, <1>6, ProductNat
<1> QED BY <1>4, <1>7

LEMMA TrustNat ==
    ASSUME NEW t \in Nat, NEW s
    PROVE  ComputeTrust(t, s) \in Nat /\ (s = "BLACKLISTED" => ComputeTrust(t, s) = 0)
  BY DEF ComputeTrust

LEMMA LiveMid == ASSUME EngineType, NEW v \in LiveQuotes PROVE Mid(store[v]) \in Nat
<1>1. store[v] \in StreamQuote
  BY DEF LiveQuotes, EngineType
<1>2. store[v].bid \in Nat /\ store[v].ask \in Nat
  BY <1>1 DEF StreamQuote
<1> QED BY <1>2 DEF Mid

\* What is published lies between the mids of the venues that are not blacklisted.
Credible ==
    update' # None /\ update' # update =>
        LET mids == {Mid(store[v]) : v \in {u \in LiveQuotes : statuses'[u] # "BLACKLISTED"}}
        IN  (\E low \in mids : low <= update'.mid) /\ (\E high \in mids : update'.mid <= high)

LEMMA PublishCredible ==
    ASSUME EngineInv, NEW median, NEW mad, NEW states,
           PublishConsensus([v \in LiveQuotes |-> ComputeTrust(Undoubted(v, median, mad), statuses'[v])], states)
    PROVE  Credible
<1> DEFINE live == LiveQuotes
           t == [v \in live |-> ComputeTrust(Undoubted(v, median, mad), statuses'[v])]
           m == [v \in live |-> Mid(store[v])]
           w == [v \in live |-> t[v] * m[v]]
           P == {u \in live : statuses'[u] # "BLACKLISTED"}
<1>1. \A v \in live : Undoubted(v, median, mad) \in Nat /\ Mid(store[v]) \in Nat
  BY UndoubtedNat, LiveMid DEF EngineInv
<1>2. \A v \in live : t[v] \in Nat /\ m[v] \in Nat /\ w[v] = t[v] * m[v]
  BY <1>1, TrustNat
<1>3. \A v \in live \ P : t[v] = 0
  BY <1>1, TrustNat
<1>4. IsFiniteSet(live)
  BY MarketAssumption, FS_Subset DEF EngineInv, FeedInv, MarketType, LiveQuotes
<1>5. SUFFICES ASSUME update' # None, update' # update PROVE Credible
  BY DEF Credible
<1>6. NormalizeTrust(t) > 0 /\ update'.mid = WeightedMid(t)
  BY <1>5 DEF PublishConsensus
<1>7. NormalizeTrust(t) = SumFunctionOnSet(t, live)
  BY DEF NormalizeTrust, SumFunction
<1>8. WeightedMid(t) = SumFunctionOnSet(w, live) \div SumFunctionOnSet(t, live)
  <2>1. [v \in DOMAIN t |-> t[v] * Mid(store[v])] = w
    OBVIOUS
  <2> QED BY <1>7, <2>1 DEF WeightedMid, SumFunction
<1>9. \A v \in P : m[v] = Mid(store[v])
  OBVIOUS
<1>10. P \in SUBSET live
  OBVIOUS
<1> HIDE DEF live, t, m, w
<1>11. /\ \E x \in P : m[x] <= SumFunctionOnSet(w, live) \div SumFunctionOnSet(t, live)
       /\ \E x \in P : SumFunctionOnSet(w, live) \div SumFunctionOnSet(t, live) <= m[x]
  BY <1>2, <1>3, <1>4, <1>6, <1>7, <1>10, WeightedMean
<1>12. /\ \E x \in P : Mid(store[x]) <= update'.mid
       /\ \E x \in P : update'.mid <= Mid(store[x])
  BY <1>6, <1>8, <1>9, <1>11
<1> QED BY <1>12 DEF Credible, live

LEMMA EngineStep == ASSUME EngineInv, [ConsensusNext]_pricingVars PROVE EngineInv' /\ Credible
<1>1. FeedInv'
  BY ConsensusStepFeed DEF EngineInv
<1>2. EngineType /\ stream \in Seq(StreamQuote)
  BY DEF EngineInv, FeedInv, MarketType
<1>3. CASE UNCHANGED <<venues, store, statuses>> /\ (UNCHANGED update \/ update' = None)
  BY <1>1, <1>2, <1>3 DEF EngineInv, EngineType, Credible
<1>4. CASE ReadMarketUpdates
  <2> DEFINE n == IF Len(stream) < BatchSize THEN Len(stream) ELSE BatchSize
             batch == SubSeq(stream, 1, n)
  <2>1. store' = UpsertQuotes(batch) /\ UNCHANGED <<venues, statuses, update>>
    BY <1>4 DEF ReadMarketUpdates
  <2>2. n \in Nat /\ n <= Len(stream)
    BY <1>2, ConsensusAssumption
  <2> HIDE DEF n
  <2>3. batch \in Seq(StreamQuote)
    BY <1>2, <2>2
  <2>4. \A k \in DOMAIN batch : batch[k] \in StreamQuote
    BY <2>3
  <2>5. Len(batch) \in Nat /\ DOMAIN batch = 1..Len(batch)
    BY <2>3
  <2> HIDE DEF batch
  <2>6. ASSUME NEW v \in venues PROVE UpsertQuotes(batch)[v] \in {None} \cup StreamQuote
    <3> DEFINE of == {k \in DOMAIN batch : batch[k].venue = v}
    <3>1. UpsertQuotes(batch)[v] = IF of = {} THEN store[v] ELSE batch[CHOOSE k \in of : \A j \in of : j <= k]
      BY DEF UpsertQuotes
    <3>2. CASE of = {}
      BY <1>2, <3>1, <3>2 DEF EngineType
    <3>3. CASE of # {}
      <4>1. of \in SUBSET (1..Len(batch))
        BY <2>5
      <4>2. \E k \in of : \A j \in of : j <= k
        BY <2>5, <3>3, <4>1, LastOf
      <4>3. (CHOOSE k \in of : \A j \in of : j <= k) \in of
        BY <4>2
      <4> QED BY <2>4, <3>1, <3>3, <4>3
    <3> QED BY <3>2, <3>3
  <2>7. store' \in [venues -> {None} \cup StreamQuote]
    BY <2>1, <2>6 DEF UpsertQuotes
  <2> QED BY <1>1, <1>2, <2>1, <2>7 DEF EngineInv, EngineType, Credible
<1>5. CASE Compute
  <2>1. UNCHANGED <<venues, store>>
    BY <1>5 DEF Compute, marketVars
  <2>2. CASE UNCHANGED <<statuses, update>>
    BY <1>2, <1>1, <2>1, <2>2 DEF EngineInv, EngineType, Credible
  <2>3. CASE ~UNCHANGED <<statuses, update>>
    <3>1. PICK median \in {Median(LiveQuotes)} : \E mad \in {MAD(LiveQuotes, median)} :
             /\ statuses' \in [venues -> VenueState]
             /\ PublishConsensus([v \in LiveQuotes |-> ComputeTrust(Undoubted(v, median, mad), statuses'[v])],
                                 [v \in LiveQuotes |-> statuses'[v]])
      BY <1>5, <2>3 DEF Compute
    <3>2. Credible
      BY <3>1, PublishCredible
    <3> QED BY <1>1, <1>2, <2>1, <3>1, <3>2 DEF EngineInv, EngineType
  <2> QED BY <2>2, <2>3
<1>6. CASE ConsensusRestart
  BY <1>1, <1>2, <1>6 DEF ConsensusRestart, marketVars, EngineInv, EngineType, Credible
<1>7. CASE Passing
  <2>1. /\ store' = [v \in venues |-> IF store[v] = None THEN None ELSE Aged(store[v])]
        /\ UNCHANGED <<venues, statuses, update>>
    BY <1>7 DEF Passing
  <2>2. ASSUME NEW v \in venues
        PROVE  (IF store[v] = None THEN None ELSE Aged(store[v])) \in {None} \cup StreamQuote
    BY <1>2, AgedTyped DEF EngineType
  <2>3. store' \in [venues -> {None} \cup StreamQuote]
    BY <2>1, <2>2
  <2> QED BY <1>1, <1>2, <2>1, <2>3 DEF EngineInv, EngineType, Credible
<1>8. CASE MarketNext /\ UNCHANGED consensusVars
  <2>1. UNCHANGED venues
    BY <1>8, Zenon DEF MarketNext, Connect, Message, ReadFails, AnswerFails, MarketRestart
  <2> QED BY <1>8, <1>3, <2>1 DEF consensusVars
<1>9. CASE CheckStopped \/ StopOrStart \/ Consume \/ UNCHANGED pricingVars
  BY <1>3, <1>9 DEF CheckStopped, StopOrStart, Consume, pricingVars, marketVars, consensusVars
<1> QED BY <1>1, <1>3, <1>4, <1>5, <1>6, <1>7, <1>8, <1>9 DEF ConsensusNext, Loop, EngineInv

LEMMA ConsensusInitEngine == ASSUME ConsensusInit PROVE EngineInv
  BY ConsensusInitFeed DEF ConsensusInit, EngineInv, EngineType, VenueState

\* Whatever the trust of the venues comes to, a published mid lies between the mids of
\* live venues that the same computation does not blacklist (consensus: Compute,
\* ComputeTrust, NormalizeTrust).
THEOREM BlacklistedHaveNoSayHolds == ConsensusSpec => BlacklistedHaveNoSay
<1>1. EngineInv /\ [ConsensusNext]_pricingVars => EngineInv'
  BY EngineStep
<1>2. EngineInv /\ [ConsensusNext]_pricingVars => [Credible]_pricingVars
  BY EngineStep
<1> QED BY ConsensusInitEngine, <1>1, <1>2, PTL DEF ConsensusSpec, BlacklistedHaveNoSay, Credible
=============================================================================
