----------------------------- MODULE Consensus -----------------------------
(***************************************************************************)
(* The consensus engine (src/internal/consensus, internal/store,           *)
(* cmd/consensus-engine) behind the market-data service: it reads quotes,  *)
(* keeps the latest of each venue, and after each batch computes a mid all *)
(* live venues have a say in by their trust.                               *)
(*                                                                         *)
(* The status of a venue moves as VenueStates says, which VenueBreaker     *)
(* implements with the persistence and the times of the code.  The         *)
(* executable prices and the bands are left out.                           *)
(*                                                                         *)
(* Prices are integers, a mid is twice as much, and trust is in units of   *)
(* 1 / (20 * 20 * 5 * 10 * 5 * StaleMs).                                   *)
(***************************************************************************)
EXTENDS MarketData, Functions, VenueStates

CONSTANTS
    None,
    BaseTrust,                   \* of the venues configured, in twentieths
    CoreVenues, MinCoreQuorum,
    HighQuorum,                  \* 4 in the code
    OutlierBpsWarn, OutlierBpsBlacklist,
    StalePauseMs,
    BatchSize

ASSUME ConsensusAssumption ==
    /\ MinCoreQuorum \in Nat \ {0} /\ HighQuorum \in Nat /\ BatchSize \in Nat \ {0}
    /\ OutlierBpsWarn \in Nat /\ OutlierBpsBlacklist \in Nat /\ StalePauseMs \in Nat
    /\ \A v \in DOMAIN BaseTrust : BaseTrust[v] \in Nat

VARIABLES
    store,              \* the latest quote of each venue
    statuses,           \* and its state
    loopStep,
    stopped,            \* kill switch set or mode HALTED
    update              \* the update just published, if any

consensusVars == <<store, statuses, loopStep, stopped, update>>
pricingVars == <<marketVars, consensusVars>>

ConsensusInit ==
    /\ MarketInit
    /\ store = [v \in venues |-> None] /\ statuses = [v \in venues |-> "OK"]
    /\ loopStep = "read" /\ stopped = FALSE
    /\ update = None

-----------------------------------------------------------------------------
(* Compute. *)

AbsDiff(a, b) == IF a < b THEN b - a ELSE a - b

Mid(q) == q.bid + q.ask

LiveQuotes == {v \in venues : store[v] # None /\ store[v].age <= StaleMs}

\* The k-th smallest value of f on the set, and twice the median.
Ranked(f, set, k) ==
    CHOOSE x \in {f[v] : v \in set} :
        /\ Cardinality({v \in set : f[v] < x}) < k
        /\ Cardinality({v \in set : f[v] <= x}) >= k

TwiceMedian(f, set) ==
    LET n == Cardinality(set) IN Ranked(f, set, (n + 1) \div 2) + Ranked(f, set, n \div 2 + 1)

Median(live) == TwiceMedian([v \in live |-> Mid(store[v])], live)

\* How far a mid is off the median, in quarters, and the median of that.
Off(v, median) == AbsDiff(2 * Mid(store[v]), median)
MAD(live, median) == TwiceMedian([v \in live |-> Off(v, median)], live)

BeyondBps(v, median, bps) == Off(v, median) * 10000 > bps * median

\* The robust z-score, 0.6745 * deviation / MAD, is above 6.
HighZScore(v, median, mad) == 13490 * Off(v, median) > 60000 * mad

DeviationClass(v, median) ==
    IF BeyondBps(v, median, OutlierBpsBlacklist) THEN "hard"
    ELSE IF BeyondBps(v, median, OutlierBpsWarn) THEN "outlier" ELSE "clean"

SpreadAbove(q, bps) == 20000 * (q.ask - q.bid) > bps * Mid(q)

OutlierFactor(v, median, mad) ==
    IF BeyondBps(v, median, OutlierBpsBlacklist) THEN 1
    ELSE IF HighZScore(v, median, mad) \/ BeyondBps(v, median, OutlierBpsWarn) THEN 2 ELSE 20

StalenessFactor(age) ==
    IF StaleMs = 0 THEN 1
    ELSE IF age > StaleMs \div 2 THEN 5 * StaleMs - 3 * age ELSE 5 * StaleMs

SpreadFactor(q) ==
    IF SpreadAbove(q, 25) THEN 7 ELSE IF SpreadAbove(q, 10) THEN 8 ELSE 10

Base(v) == IF v \in DOMAIN BaseTrust /\ BaseTrust[v] # 0 THEN BaseTrust[v] ELSE 1

\* But for the state of the venue.
Undoubted(v, median, mad) ==
    Base(v) * OutlierFactor(v, median, mad) * StalenessFactor(store[v].age) * SpreadFactor(store[v])

\* Mutant: a blacklisted venue is trusted a little.
ComputeTrust_Little(trust, state) == IF state = "OK" THEN 5 * trust ELSE 3 * trust

ComputeTrust(trust, state) ==
    IF state = "BLACKLISTED" THEN 0
    ELSE IF state = "WARN" THEN 3 * trust ELSE 5 * trust

\* The mean of the mids, weighted by trust; without any trust there is none.
NormalizeTrust(trust) == SumFunction(trust)
WeightedMid(trust) == SumFunction([v \in DOMAIN trust |-> trust[v] * Mid(store[v])]) \div NormalizeTrust(trust)

QualityScore(states) ==
    LET eligible == {v \in DOMAIN states : v \in CoreVenues /\ states[v] # "BLACKLISTED"}
    IN  IF Cardinality(eligible) >= HighQuorum /\ \A v \in DOMAIN states : states[v] # "WARN"
        THEN "HIGH"
        ELSE IF Cardinality(eligible) >= MinCoreQuorum THEN "MED" ELSE "LOW"

-----------------------------------------------------------------------------
(* The loop. *)

\* Every quote of the batch replaces the one before it; what is read is acknowledged.
UpsertQuotes(batch) ==
    [v \in venues |->
        LET of == {k \in DOMAIN batch : batch[k].venue = v}
        IN  IF of = {} THEN store[v] ELSE batch[CHOOSE k \in of : \A j \in of : j <= k]]

ReadMarketUpdates ==
    /\ loopStep = "read" /\ stream # <<>>
    /\ LET n == IF Len(stream) < BatchSize THEN Len(stream) ELSE BatchSize
       IN  /\ store' = UpsertQuotes(SubSeq(stream, 1, n))
           /\ stream' = SubSeq(stream, n + 1, Len(stream))
    /\ loopStep' = "check"
    /\ UNCHANGED <<venues, up, quotes, connection, statuses, stopped, update>>

CheckStopped ==
    /\ loopStep = "check" /\ loopStep' = IF stopped THEN "read" ELSE "compute"
    /\ UNCHANGED <<marketVars, store, statuses, stopped, update>>

\* With StalePauseMs set and every quote that old, the result is LOW and without a mid.
Paused(live) == StalePauseMs > 0 /\ \A v \in live : store[v].age >= StalePauseMs

\* An update without a mid is not published; one that is published may fail.
PublishConsensus(trust, states) ==
    \/ /\ Faulty \/ NormalizeTrust(trust) = 0
       /\ UNCHANGED update
    \/ /\ NormalizeTrust(trust) > 0
       /\ update' = [mid |-> WeightedMid(trust), quality |-> QualityScore(states),
                     voters |-> {v \in DOMAIN trust : trust[v] > 0}]

Compute ==
    /\ loopStep = "compute" /\ loopStep' = "read"
    /\ \E live \in {LiveQuotes} :
          IF live = {} \/ Paused(live)
          THEN UNCHANGED <<statuses, update>>
          ELSE \E median \in {Median(live)} : \E mad \in {MAD(live, median)} :
                  /\ statuses' \in {states \in [venues -> VenueState] : \A v \in venues :
                          states[v] \in IF v \in live
                                        THEN StatesAfter(statuses[v], DeviationClass(v, median))
                                        ELSE {statuses[v]}}
                  /\ PublishConsensus(
                        [v \in live |-> ComputeTrust(Undoubted(v, median, mad), statuses'[v])],
                        [v \in live |-> statuses'[v]])
    /\ UNCHANGED <<marketVars, store, stopped>>

\* The store is lost; what Redis still knows of the states is VenueBreaker's subject.
ConsensusRestart ==
    /\ Faulty
    /\ store' = [v \in venues |-> None]
    /\ statuses' \in [venues -> VenueState]
    /\ loopStep' = "read"
    /\ UNCHANGED <<marketVars, stopped, update>>

\* Nothing here depends on who reads the update, nor when: it is read at once.
Consume ==
    /\ update # None /\ update' = None
    /\ UNCHANGED <<marketVars, store, statuses, loopStep, stopped>>

\* The operator or the risk daemon stops everything, or starts it again.
StopOrStart ==
    /\ stopped' = ~stopped
    /\ UNCHANGED <<marketVars, store, statuses, loopStep, update>>

Passing ==
    /\ stream' = [k \in DOMAIN stream |-> Aged(stream[k])]
    /\ store' = [v \in venues |-> IF store[v] = None THEN None ELSE Aged(store[v])]
    /\ UNCHANGED <<venues, up, quotes, connection, statuses, loopStep, stopped, update>>

Loop == ReadMarketUpdates \/ CheckStopped \/ Compute

ConsensusNext ==
    \/ /\ update = None
       /\ \/ MarketNext /\ UNCHANGED consensusVars
          \/ Loop
          \/ ConsensusRestart \/ StopOrStart \/ Passing
    \/ Consume

ConsensusSpec == ConsensusInit /\ [][ConsensusNext]_pricingVars

\* Time passes, the loop goes on, and its updates are read.
FairSpec ==
    /\ ConsensusSpec
    /\ WF_pricingVars(update = None /\ Passing) /\ WF_pricingVars(update = None /\ Loop)
    /\ WF_pricingVars(Consume)

-----------------------------------------------------------------------------

\* The published mid lies between the mids of venues that are live and, as the same
\* computation judges them, not blacklisted.
BlacklistedHaveNoSay ==
    [][update' # None /\ update' # update =>
         LET mids == {Mid(store[v]) : v \in {u \in LiveQuotes : statuses'[u] # "BLACKLISTED"}}
         IN  (\E low \in mids : low <= update'.mid) /\ (\E high \in mids : update'.mid <= high)]_pricingVars

\* When every connection is lost for good, the engine falls silent in the end, although
\* the last quotes are published again, as of that moment, when the connection is lost.
LostFeedsSilence == (<>[](up = {})) => <>[](update = None)

=============================================================================
