---------------------------- MODULE VenueProofs ----------------------------
(***************************************************************************)
(* Proofs about what the system believes of a venue: the circuit breaker   *)
(* of the consensus (VenueBreaker), for every policy, and the clients of   *)
(* the exchanges (ExchangeClients), for every venue.  The two share no     *)
(* state; the second half begins with GoodEnvelope.                        *)
(***************************************************************************)
EXTENDS VenueBreaker, ExchangeClients, TLAPS

(***************************************************************************)
(* The inductive invariant.  A timer never runs ahead of the clock; in OK  *)
(* the timers are never older than the run of observations they time; in   *)
(* WARN the recovery began after the last mild outlier and, if the venue   *)
(* was blacklisted, after the end of the blacklisting; and while nothing   *)
(* was lost, the cache (or the update on its way to it) restores the state.*)
(***************************************************************************)
TimersInThePast ==
    /\ status.outlierSince <= now /\ status.hardSince <= now
    /\ status.recoverySince <= now
    /\ seen.hard <= now /\ seen.deviating <= now /\ seen.mild <= now

TimersFollowRuns ==
    /\ status.state = "OK" /\ status.hardSince # 0
        => seen.hard # 0 /\ seen.hard <= status.hardSince
    /\ status.state = "OK" /\ status.outlierSince # 0
        => seen.deviating # 0 /\ seen.deviating <= status.outlierSince
    /\ status.state = "WARN" /\ status.recoverySince # 0
        => seen.mild <= status.recoverySince

QuarantineTerm ==
    ~lost /\ blacklistedAt # 0 =>
        /\ status.state = "BLACKLISTED" /\ BlacklistTtlMs > 0
            => status.blacklistUntil = blacklistedAt + BlacklistTtlMs
        /\ status.state = "BLACKLISTED" => blacklistedAt <= now
        /\ status.state = "WARN" =>
            /\ now >= blacklistedAt + BlacklistTtlMs
            /\ status.recoverySince # 0
                => status.recoverySince >= blacklistedAt + BlacklistTtlMs
        /\ status.state = "OK"
            => now >= blacklistedAt + BlacklistTtlMs + RecoveryMs

\* What recovery would make of the last transition, published or about to be.
Last == IF update = NoUpdate THEN cache ELSE update

LastAgrees ==
    ~lost => /\ Restored(Last).state = status.state
             /\ status.state = "BLACKLISTED" /\ BlacklistTtlMs > 0
                  => Restored(Last).blacklistUntil = status.blacklistUntil

IInv ==
    /\ TypeOK
    /\ TimersInThePast
    /\ TimersFollowRuns
    /\ QuarantineTerm
    /\ LastAgrees

-----------------------------------------------------------------------------
(* Lemmas about the operators. *)

\* The branch UpdateVenueStatus takes.
LEMMA UpdateBranch ==
    ASSUME NEW t, NEW s, NEW dev
    PROVE  /\ s.state = "BLACKLISTED" => UpdateVenueStatus(t, s, dev) = FromBlacklisted(t, s)
           /\ s.state # "BLACKLISTED" /\ dev = "hard"
                => UpdateVenueStatus(t, s, dev) = OnHardOutlier(t, s)
           /\ s.state = "OK" /\ dev = "outlier"
                => UpdateVenueStatus(t, s, dev) = OutlierInOK(t, s)
           /\ s.state = "OK" /\ dev = "clean" => UpdateVenueStatus(t, s, dev) = CleanInOK(s)
           /\ s.state = "WARN" /\ dev = "outlier"
                => UpdateVenueStatus(t, s, dev) = OutlierInWarn(s)
           /\ s.state = "WARN" /\ dev = "clean"
                => UpdateVenueStatus(t, s, dev) = CleanInWarn(t, s)
BY DEF UpdateVenueStatus

\* UpdateVenueStatus returns a venue status.
LEMMA UpdateType ==
    ASSUME NEW t \in Nat, NEW s \in VenueStatus, NEW dev \in Deviation
    PROVE  UpdateVenueStatus(t, s, dev) \in VenueStatus
<1> USE PolicyAssumption DEF VenueStatus, VenueState, Fresh, Started
<1>1. Fresh("OK", s.blacklistUntil) \in VenueStatus
  OBVIOUS
<1>2. Blacklisted(t) \in VenueStatus
  BY DEF Blacklisted
<1>3. OnHardOutlier(t, s) \in VenueStatus
  BY <1>2 DEF OnHardOutlier
<1>4. FromBlacklisted(t, s) \in VenueStatus
  BY DEF FromBlacklisted
<1>5. CleanInOK(s) \in VenueStatus
  BY DEF CleanInOK
<1>6. OutlierInOK(t, s) \in VenueStatus
  BY DEF OutlierInOK
<1>7. CleanInWarn(t, s) \in VenueStatus
  BY <1>1 DEF CleanInWarn
<1>8. OutlierInWarn(s) \in VenueStatus
  BY DEF OutlierInWarn
<1>9. QED
  BY <1>3, <1>4, <1>5, <1>6, <1>7, <1>8 DEF UpdateVenueStatus, Deviation

\* The branches that cannot blacklist a venue, and what they make of its state.
LEMMA MildBranches ==
    ASSUME NEW t \in Nat, NEW s \in VenueStatus
    PROVE  /\ OutlierInOK(t, s).state \in {s.state, "WARN"}
           /\ CleanInOK(s).state = s.state
           /\ OutlierInWarn(s).state = s.state
<1>1. OutlierInOK(t, s).state \in {s.state, "WARN"}
  BY DEF OutlierInOK, VenueStatus
<1>2. CleanInOK(s).state = s.state
  BY DEF CleanInOK, VenueStatus
<1>3. OutlierInWarn(s).state = s.state
  BY DEF OutlierInWarn, VenueStatus
<1>4. QED
  BY <1>1, <1>2, <1>3

\* Restart recovery builds a venue status from anything the cache may hold.
LEMMA RestoredType ==
    ASSUME NEW c \in Updates
    PROVE  Restored(c) \in VenueStatus
BY DEF Restored, Updates, NoUpdate, Fresh, VenueStatus, VenueState

-----------------------------------------------------------------------------
(* Type correctness. *)

LEMMA InitType == Init => TypeOK
<1>1. Fresh("OK", 0) \in VenueStatus
  BY DEF Fresh, VenueStatus, VenueState
<1>2. NoUpdate \in Updates /\ NothingSeen \in Seen
  BY DEF Updates, Seen, NothingSeen
<1>3. Init => now \in Nat \ {0} /\ blacklistedAt \in Nat
  BY DEF Init
<1>4. QED
  BY <1>1, <1>2, <1>3, Zenon DEF Init, TypeOK

LEMMA StepType == TypeOK /\ [Next]_vars => TypeOK'
<1> SUFFICES ASSUME TypeOK, [Next]_vars
             PROVE  TypeOK'
  OBVIOUS
<1> USE PolicyAssumption DEF TypeOK
<1>1. CASE Tick
  BY <1>1 DEF Tick
<1>2. ASSUME NEW dev \in Deviation, Observe(dev)
      PROVE  TypeOK'
  <2>1. status' \in VenueStatus
    BY <1>2, UpdateType DEF Observe
  <2>2. update' \in Updates
    BY <1>2, <2>1 DEF Observe, Updates, UpdateOf, VenueStatus, NoUpdate
  <2>3. seen' \in Seen
    BY <1>2 DEF Observe, See, Seen, Run, Started
  <2>4. QED
    BY <1>2, <2>1, <2>2, <2>3 DEF Observe
<1>3. CASE Publish
  BY <1>3 DEF Publish, Updates
<1>4. CASE PublishFails
  BY <1>4 DEF PublishFails, Updates
<1>5. CASE Restart
  BY <1>5, RestoredType DEF Restart, Updates, Seen, NothingSeen
<1>6. CASE RestartBlind
  BY <1>6, RestoredType DEF RestartBlind, Updates, Seen, NothingSeen
<1>7. CASE UNCHANGED vars
  BY <1>7 DEF vars
<1>8. QED
  BY <1>1, <1>2, <1>3, <1>4, <1>5, <1>6, <1>7 DEF Next

\* Every reachable state of the monitor is well typed, for every policy.
THEOREM TypeCorrect == Spec => []TypeOK
BY InitType, StepType, PTL DEF Spec

-----------------------------------------------------------------------------
(* The inductive invariant. *)

LEMMA InitInv == Init => IInv
<1> SUFFICES ASSUME Init PROVE IInv
  OBVIOUS
<1>1. TypeOK
  BY InitType
<1>2. TimersInThePast /\ TimersFollowRuns
  BY DEF Init, TimersInThePast, TimersFollowRuns, Fresh, NothingSeen
<1>3. QuarantineTerm /\ LastAgrees
  BY DEF Init, QuarantineTerm, LastAgrees, Last, Restored, Fresh
<1>4. QED
  BY <1>1, <1>2, <1>3 DEF IInv

\* The numbers a well-typed state is made of.
LEMMA Numbers ==
    ASSUME TypeOK
    PROVE  /\ now \in Nat \ {0} /\ blacklistedAt \in Nat
           /\ status = [state |-> status.state, outlierSince |-> status.outlierSince,
                        hardSince |-> status.hardSince, warnSince |-> status.warnSince,
                        blacklistUntil |-> status.blacklistUntil,
                        recoverySince |-> status.recoverySince]
           /\ status.state \in VenueState
           /\ status.outlierSince \in Nat /\ status.hardSince \in Nat
           /\ status.blacklistUntil \in Nat /\ status.recoverySince \in Nat
           /\ seen.hard \in Nat /\ seen.deviating \in Nat /\ seen.mild \in Nat
BY DEF TypeOK, VenueStatus, Seen

\* An observation preserves the relation of the timers to the clock and to
\* the runs of observations.
LEMMA ObserveTimers ==
    ASSUME NEW dev \in Deviation, TypeOK, TimersInThePast, TimersFollowRuns,
           Observe(dev)
    PROVE  TimersInThePast' /\ TimersFollowRuns'
<1> USE PolicyAssumption, Numbers
    DEF VenueState, Started, Fresh, TimersInThePast, TimersFollowRuns
<1>0. /\ status' = UpdateVenueStatus(now, status, dev)
      /\ seen' = See(dev)
      /\ now' = now
  BY DEF Observe
<1>1. /\ seen'.hard = IF dev = "hard" THEN Started(seen.hard, now) ELSE 0
      /\ seen'.deviating = IF dev # "clean" THEN Started(seen.deviating, now) ELSE 0
      /\ seen'.mild = IF dev = "outlier" THEN now ELSE seen.mild
  BY <1>0 DEF See, Run
<1>2. CASE status.state = "BLACKLISTED"
  <2>1. status' = FromBlacklisted(now, status)
    BY <1>0, <1>2, UpdateBranch
  <2>2. QED
    BY <1>0, <1>1, <1>2, <2>1 DEF FromBlacklisted
<1>3. CASE status.state # "BLACKLISTED" /\ dev = "hard"
  <2>1. status' = OnHardOutlier(now, status)
    BY <1>0, <1>3, UpdateBranch
  <2>2. QED
    BY <1>0, <1>1, <1>3, <2>1 DEF OnHardOutlier, Blacklisted
<1>4. CASE status.state = "OK" /\ dev = "outlier"
  <2>1. status' = OutlierInOK(now, status)
    BY <1>0, <1>4, UpdateBranch
  <2>2. /\ status'.hardSince = 0
        /\ status'.outlierSince = Started(status.outlierSince, now)
        /\ status'.recoverySince \in {0, status.recoverySince}
        /\ status'.state = "OK" \/ status'.recoverySince = 0
    BY <2>1, <1>4 DEF OutlierInOK
  <2>3. TimersInThePast'
    BY <1>0, <1>1, <1>4, <2>2
  <2>4. QED
    BY <1>0, <1>1, <1>4, <2>2, <2>3
<1>5. CASE status.state = "OK" /\ dev = "clean"
  <2>1. status' = CleanInOK(status)
    BY <1>0, <1>5, UpdateBranch
  <2>2. /\ status'.outlierSince = 0 /\ status'.hardSince = 0
        /\ status'.recoverySince = status.recoverySince
        /\ status'.state = "OK"
    BY <1>5, <2>1 DEF CleanInOK
  <2>3. TimersInThePast'
    BY <1>0, <1>1, <1>5, <2>2
  <2>4. QED
    BY <1>0, <1>1, <1>5, <2>2, <2>3
<1>6. CASE status.state = "WARN" /\ dev = "outlier"
  <2>1. status' = OutlierInWarn(status)
    BY <1>0, <1>6, UpdateBranch
  <2>2. /\ status'.recoverySince = 0 /\ status'.hardSince = 0
        /\ status'.outlierSince = status.outlierSince
        /\ status'.state = "WARN"
    BY <1>6, <2>1 DEF OutlierInWarn
  <2>3. TimersInThePast'
    BY <1>0, <1>1, <1>6, <2>2
  <2>4. QED
    BY <1>0, <1>1, <1>6, <2>2, <2>3
<1>7. CASE status.state = "WARN" /\ dev = "clean"
  <2>1. status' = CleanInWarn(now, status)
    BY <1>0, <1>7, UpdateBranch
  <2>2. QED
    BY <1>0, <1>1, <1>7, <2>1 DEF CleanInWarn
<1>8. QED
  BY <1>2, <1>3, <1>4, <1>5, <1>6, <1>7 DEF Deviation

\* An observation preserves the term of a quarantine.
LEMMA ObserveQuarantine ==
    ASSUME NEW dev \in Deviation, TypeOK, TimersInThePast, QuarantineTerm,
           Observe(dev)
    PROVE  QuarantineTerm'
<1> USE PolicyAssumption, Numbers
    DEF VenueState, Started, Fresh, TimersInThePast, QuarantineTerm
<1>0. /\ status' = UpdateVenueStatus(now, status, dev)
      /\ now' = now /\ lost' = lost
      /\ blacklistedAt' = IF status'.state = "BLACKLISTED" /\ status.state # "BLACKLISTED"
                          THEN now ELSE blacklistedAt
  BY DEF Observe
<1>2. CASE status.state = "BLACKLISTED"
  BY <1>0, <1>2 DEF UpdateVenueStatus, FromBlacklisted
<1>3. CASE status.state # "BLACKLISTED" /\ dev = "hard"
  BY <1>0, <1>3 DEF UpdateVenueStatus, OnHardOutlier, Blacklisted
<1>4. CASE status.state = "OK" /\ dev = "outlier"
  BY <1>0, <1>4 DEF UpdateVenueStatus, OutlierInOK
<1>5. CASE status.state = "OK" /\ dev = "clean"
  BY <1>0, <1>5 DEF UpdateVenueStatus, CleanInOK
<1>6. CASE status.state = "WARN" /\ dev = "outlier"
  BY <1>0, <1>6 DEF UpdateVenueStatus, OutlierInWarn
<1>7. CASE status.state = "WARN" /\ dev = "clean"
  BY <1>0, <1>7 DEF UpdateVenueStatus, CleanInWarn
<1>8. QED
  BY <1>2, <1>3, <1>4, <1>5, <1>6, <1>7 DEF Deviation

\* A blacklisted venue that stays blacklisted keeps its deadline, and one
\* that becomes blacklisted gets the deadline its update carries.
LEMMA ObserveDeadline ==
    ASSUME NEW dev \in Deviation, TypeOK, Observe(dev), status'.state = "BLACKLISTED"
    PROVE  IF status.state = "BLACKLISTED"
           THEN status'.blacklistUntil = status.blacklistUntil
           ELSE status'.blacklistUntil = now + BlacklistTtlMs
<1> USE PolicyAssumption DEF TypeOK, VenueStatus, VenueState, Started, Fresh
<1>0. status' = UpdateVenueStatus(now, status, dev)
  BY DEF Observe
<1>1. CASE status.state = "BLACKLISTED"
  BY <1>0, <1>1 DEF UpdateVenueStatus, FromBlacklisted
<1>2. CASE status.state # "BLACKLISTED" /\ dev = "hard"
  BY <1>0, <1>2 DEF UpdateVenueStatus, OnHardOutlier, Blacklisted
<1>3. CASE status.state # "BLACKLISTED" /\ dev # "hard"
  BY <1>0, <1>3
     DEF UpdateVenueStatus, OutlierInOK, CleanInOK, OutlierInWarn, CleanInWarn, Deviation
<1>4. QED
  BY <1>1, <1>2, <1>3

\* An observation leaves the last transition, cached or about to be, able to
\* restore the status.
LEMMA ObserveLast ==
    ASSUME NEW dev \in Deviation, TypeOK, LastAgrees, Observe(dev)
    PROVE  LastAgrees'
<1> USE PolicyAssumption
<1>0. /\ update = NoUpdate /\ cache' = cache /\ lost' = lost /\ now' = now
      /\ update' = IF status'.state # status.state THEN UpdateOf(status') ELSE NoUpdate
      /\ status'.state \in VenueState
  <2>1. status' = UpdateVenueStatus(now, status, dev)
    BY DEF Observe
  <2>2. status' \in VenueStatus
    BY <2>1, UpdateType DEF TypeOK
  <2>3. QED
    BY <2>1, <2>2 DEF Observe, VenueStatus
<1>1. CASE status'.state = status.state
  BY <1>0, <1>1, ObserveDeadline DEF LastAgrees, Last
<1>2. CASE status'.state # status.state
  <2>1. update' # NoUpdate
    BY <1>0, <1>2 DEF UpdateOf, NoUpdate, VenueState
  <2>2. Last' = UpdateOf(status')
    BY <1>0, <1>2, <2>1 DEF Last
  <2>3. Restored(UpdateOf(status')).state = status'.state
    BY <1>0, <1>2, <2>1 DEF Restored, Fresh, UpdateOf
  <2>4. status'.state = "BLACKLISTED" /\ BlacklistTtlMs > 0
          => Restored(UpdateOf(status')).blacklistUntil = status'.blacklistUntil
    BY <1>0, <1>2, <2>1, ObserveDeadline DEF Restored, Fresh, UpdateOf
  <2>5. Restored(Last)' = Restored(UpdateOf(status'))
    BY <2>2 DEF Restored, NoUpdate, Fresh
  <2>6. QED
    BY <2>3, <2>4, <2>5 DEF LastAgrees
<1>3. QED
  BY <1>1, <1>2

LEMMA StepInv == IInv /\ [Next]_vars => IInv'
<1> SUFFICES ASSUME IInv, [Next]_vars
             PROVE  IInv'
  OBVIOUS
<1>0. TypeOK /\ TimersInThePast /\ TimersFollowRuns /\ QuarantineTerm /\ LastAgrees
  BY DEF IInv
<1>t. TypeOK'
  BY <1>0, StepType
<1>1. CASE Tick
  <2>1. /\ now' = now + 1
        /\ UNCHANGED <<status, update, cache, seen, blacklistedAt, lost>>
    BY <1>1 DEF Tick
  <2>2. TimersInThePast' /\ TimersFollowRuns'
    BY <1>0, <2>1, Numbers DEF TimersInThePast, TimersFollowRuns
  <2>3. QuarantineTerm'
    BY <1>0, <2>1, Numbers, PolicyAssumption DEF QuarantineTerm
  <2>4. LastAgrees'
    BY <1>0, <2>1 DEF LastAgrees, Last
  <2>5. QED
    BY <1>t, <2>2, <2>3, <2>4 DEF IInv
<1>2. ASSUME NEW dev \in Deviation, Observe(dev)
      PROVE  IInv'
  BY <1>0, <1>t, <1>2, ObserveTimers, ObserveQuarantine, ObserveLast DEF IInv
<1>3. CASE Publish
  <2>1. /\ UNCHANGED <<now, status, seen, blacklistedAt, lost>>
        /\ update' = NoUpdate /\ cache' = Last
    BY <1>3 DEF Publish, Last
  <2>2. TimersInThePast' /\ TimersFollowRuns' /\ QuarantineTerm'
    BY <1>0, <2>1 DEF TimersInThePast, TimersFollowRuns, QuarantineTerm
  <2>3. LastAgrees'
    <3>1. Last' = Last
      BY <2>1 DEF Last
    <3>2. QED
      BY <1>0, <2>1, <3>1 DEF LastAgrees, Restored
  <2>4. QED
    BY <1>t, <2>2, <2>3 DEF IInv
<1>4. CASE PublishFails
  <2>1. /\ UNCHANGED <<now, status, seen, blacklistedAt>>
        /\ lost' = TRUE
    BY <1>4 DEF PublishFails
  <2>2. TimersInThePast' /\ TimersFollowRuns'
    BY <1>0, <2>1 DEF TimersInThePast, TimersFollowRuns
  <2>3. QuarantineTerm' /\ LastAgrees'
    BY <2>1 DEF QuarantineTerm, LastAgrees
  <2>4. QED
    BY <1>t, <2>2, <2>3 DEF IInv
<1>5. CASE Restart
  <2>1. /\ status' = Restored(cache) /\ update' = NoUpdate /\ cache' = cache
        /\ seen' = NothingSeen /\ now' = now /\ blacklistedAt' = blacklistedAt
        /\ lost' = (lost \/ update # NoUpdate)
    BY <1>5 DEF Restart
  <2>2. /\ status'.outlierSince = 0 /\ status'.hardSince = 0 /\ status'.recoverySince = 0
        /\ seen'.hard = 0 /\ seen'.deviating = 0 /\ seen'.mild = 0
    BY <2>1 DEF Restored, Fresh, NothingSeen
  <2>3. TimersInThePast' /\ TimersFollowRuns'
    BY <1>0, <2>1, <2>2, Numbers DEF TimersInThePast, TimersFollowRuns
  <2>4. CASE lost'
    BY <1>t, <2>3, <2>4 DEF IInv, QuarantineTerm, LastAgrees
  <2>5. CASE ~lost'
    <3>1. ~lost /\ update = NoUpdate
      BY <2>1, <2>5
    <3>2. Last = cache /\ Last' = cache
      BY <2>1, <3>1 DEF Last
    <3>3. /\ status'.state = status.state
          /\ status.state = "BLACKLISTED" /\ BlacklistTtlMs > 0
               => status'.blacklistUntil = status.blacklistUntil
      BY <1>0, <2>1, <3>1, <3>2 DEF LastAgrees
    <3>4. LastAgrees'
      BY <2>1, <3>2 DEF LastAgrees, Restored
    <3>5. QuarantineTerm'
      BY <1>0, <2>1, <2>2, <3>1, <3>3, Numbers, PolicyAssumption DEF QuarantineTerm
    <3>6. QED
      BY <1>t, <2>3, <3>4, <3>5 DEF IInv
  <2>6. QED
    BY <2>4, <2>5
<1>6. CASE RestartBlind
  <2>1. /\ status' = Fresh("OK", 0) /\ seen' = NothingSeen /\ now' = now /\ lost' = TRUE
    BY <1>6 DEF RestartBlind, Restored
  <2>2. TimersInThePast' /\ TimersFollowRuns'
    BY <1>0, <2>1, Numbers DEF TimersInThePast, TimersFollowRuns, Fresh, NothingSeen
  <2>3. QuarantineTerm' /\ LastAgrees'
    BY <2>1 DEF QuarantineTerm, LastAgrees
  <2>4. QED
    BY <1>t, <2>2, <2>3 DEF IInv
<1>7. CASE UNCHANGED vars
  BY <1>0, <1>7, <1>t
     DEF vars, IInv, TimersInThePast, TimersFollowRuns, QuarantineTerm, LastAgrees, Last
<1>8. QED
  BY <1>1, <1>2, <1>3, <1>4, <1>5, <1>6, <1>7 DEF Next

THEOREM Invariance == Spec => []IInv
BY InitInv, StepInv, PTL DEF Spec

\* A venue that was blacklisted is OK again only TTL and recovery later, also
\* when the engine was restarted in between, unless a transition was lost.
THEOREM QuarantineServedHolds == Spec => []QuarantineServed
<1>1. IInv => QuarantineServed
  BY DEF IInv, QuarantineTerm, QuarantineServed
<1>2. QED
  BY <1>1, Invariance, PTL

\* The cache restores the state in memory unless a transition was lost.
THEOREM CacheAgreesHolds == Spec => []CacheAgrees
<1>1. IInv => CacheAgrees
  BY DEF IInv, LastAgrees, Last, CacheAgrees
<1>2. QED
  BY <1>1, Invariance, PTL

-----------------------------------------------------------------------------
(* The action properties. *)

\* Only an observation leaves something seen behind and moves the state.
LEMMA MovesObserve ==
    ASSUME TypeOK, [Next]_vars, NEW from, NEW to, from # to, Moves(from, to)
    PROVE  \E dev \in Deviation : Observe(dev)
<1>1. status' # status /\ seen' # NothingSeen
  BY DEF Moves
<1>2. ~Tick /\ ~Publish /\ ~PublishFails /\ ~UNCHANGED vars
  BY <1>1 DEF Tick, Publish, PublishFails, vars
<1>3. ~Restart /\ ~RestartBlind
  BY <1>1 DEF Restart, RestartBlind
<1>4. QED
  BY <1>2, <1>3 DEF Next

\* From OK, no blacklisting without a persistent run of hard outliers.
THEOREM NoHastyBlacklistHolds == Spec => NoHastyBlacklist
<1>1. ASSUME IInv, [Next]_vars, Moves("OK", "BLACKLISTED")
      PROVE  seen'.hard # 0 /\ now - seen'.hard >= BlacklistPersistMs
  <2>0. TypeOK /\ TimersFollowRuns /\ TimersInThePast
    BY <1>1 DEF IInv
  <2>1. PICK dev \in Deviation : Observe(dev)
    BY <1>1, <2>0, MovesObserve
  <2>2. /\ status' = UpdateVenueStatus(now, status, dev) /\ seen' = See(dev)
        /\ status.state = "OK" /\ status'.state = "BLACKLISTED"
    BY <1>1, <2>1 DEF Observe, Moves
  <2>3. dev = "hard"
    <3>1. CASE dev = "outlier"
      BY <2>0, <2>2, <3>1, UpdateBranch, MildBranches DEF TypeOK
    <3>2. CASE dev = "clean"
      BY <2>0, <2>2, <3>2, UpdateBranch, MildBranches DEF TypeOK
    <3>3. QED
      BY <3>1, <3>2 DEF Deviation
  <2>4. status' = OnHardOutlier(now, status)
    BY <2>2, <2>3, UpdateBranch
  <2>5. now - Started(status.hardSince, now) >= BlacklistPersistMs
    BY <2>0, <2>2, <2>4, Numbers DEF OnHardOutlier
  <2>6. seen'.hard = Started(seen.hard, now)
    BY <2>2, <2>3 DEF See, Run
  <2>7. QED
    BY <2>0, <2>2, <2>5, <2>6, Numbers, PolicyAssumption
       DEF Started, TimersFollowRuns, TimersInThePast
<1>2. QED
  BY <1>1, Invariance, PTL DEF Spec, NoHastyBlacklist

\* From OK, no demotion to WARN without a persistent deviation.
THEOREM NoHastyWarnHolds == Spec => NoHastyWarn
<1>1. ASSUME IInv, [Next]_vars, Moves("OK", "WARN")
      PROVE  seen'.deviating # 0 /\ now - seen'.deviating >= WarnPersistMs
  <2>0. TypeOK /\ TimersFollowRuns /\ TimersInThePast
    BY <1>1 DEF IInv
  <2>1. PICK dev \in Deviation : Observe(dev)
    BY <1>1, <2>0, MovesObserve
  <2>2. /\ status' = UpdateVenueStatus(now, status, dev) /\ seen' = See(dev)
        /\ status.state = "OK" /\ status'.state = "WARN"
    BY <1>1, <2>1 DEF Observe, Moves
  <2>3. dev = "outlier"
    <3>1. CASE dev = "hard"
      BY <2>0, <2>2, <3>1, UpdateBranch, Numbers DEF OnHardOutlier, Blacklisted, Fresh
    <3>2. CASE dev = "clean"
      BY <2>0, <2>2, <3>2, UpdateBranch, MildBranches DEF TypeOK
    <3>3. QED
      BY <3>1, <3>2 DEF Deviation
  <2>4. status' = OutlierInOK(now, status)
    BY <2>2, <2>3, UpdateBranch
  <2>5. now - Started(status.outlierSince, now) >= WarnPersistMs
    BY <2>0, <2>2, <2>4, Numbers DEF OutlierInOK
  <2>6. seen'.deviating = Started(seen.deviating, now)
    BY <2>2, <2>3 DEF See, Run
  <2>7. QED
    BY <2>0, <2>2, <2>5, <2>6, Numbers, PolicyAssumption
       DEF Started, TimersFollowRuns, TimersInThePast
<1>2. QED
  BY <1>1, Invariance, PTL DEF Spec, NoHastyWarn

\* No recovery within RecoveryMs of a mild outlier.
THEOREM RecoveryExcludesMildHolds == Spec => RecoveryExcludesMild
<1>1. ASSUME IInv, [Next]_vars, Moves("WARN", "OK")
      PROVE  seen'.mild = 0 \/ now - seen'.mild >= RecoveryMs
  <2>0. TypeOK /\ TimersFollowRuns /\ TimersInThePast
    BY <1>1 DEF IInv
  <2>1. PICK dev \in Deviation : Observe(dev)
    BY <1>1, <2>0, MovesObserve
  <2>2. /\ status' = UpdateVenueStatus(now, status, dev) /\ seen' = See(dev)
        /\ status.state = "WARN" /\ status'.state = "OK"
    BY <1>1, <2>1 DEF Observe, Moves
  <2>3. dev = "clean"
    <3>1. CASE dev = "hard"
      BY <2>0, <2>2, <3>1, UpdateBranch, Numbers DEF OnHardOutlier, Blacklisted, Fresh
    <3>2. CASE dev = "outlier"
      BY <2>0, <2>2, <3>2, UpdateBranch, MildBranches DEF TypeOK
    <3>3. QED
      BY <3>1, <3>2 DEF Deviation
  <2>4. status' = CleanInWarn(now, status)
    BY <2>2, <2>3, UpdateBranch
  <2>5. now - Started(status.recoverySince, now) >= RecoveryMs
    BY <2>0, <2>2, <2>4, Numbers DEF CleanInWarn
  <2>6. seen'.mild = seen.mild
    BY <2>2, <2>3 DEF See
  <2>7. QED
    BY <2>0, <2>2, <2>5, <2>6, Numbers, PolicyAssumption
       DEF Started, TimersFollowRuns, TimersInThePast
<1>2. QED
  BY <1>1, Invariance, PTL DEF Spec, RecoveryExcludesMild
-----------------------------------------------------------------------------
(* The refinement of VenueStates. *)

\* What an observation makes of a status is what VenueStates lets it.
LEMMA UpdateFollows ==
    ASSUME NEW t \in Nat, NEW s \in VenueStatus, NEW dev \in Deviation
    PROVE  UpdateVenueStatus(t, s, dev).state \in StatesAfter(s.state, dev)
<1>0. s.state \in VenueState
  BY DEF VenueStatus
<1>1. CASE s.state = "BLACKLISTED"
  <2>1. FromBlacklisted(t, s).state \in {"BLACKLISTED", "WARN"}
    BY <1>1 DEF FromBlacklisted, VenueStatus
  <2>2. QED
    BY <1>1, <2>1, UpdateBranch DEF StatesAfter
<1>2. CASE s.state # "BLACKLISTED" /\ dev = "hard"
  <2>1. OnHardOutlier(t, s).state \in {s.state, "BLACKLISTED"}
    BY DEF OnHardOutlier, Blacklisted, Fresh, VenueStatus
  <2>2. QED
    BY <1>0, <1>2, <2>1, UpdateBranch DEF StatesAfter, VenueState
<1>3. CASE s.state # "BLACKLISTED" /\ dev = "outlier"
  BY <1>0, <1>3, UpdateBranch, MildBranches DEF StatesAfter, VenueState
<1>4. CASE s.state = "OK" /\ dev = "clean"
  BY <1>4, UpdateBranch, MildBranches DEF StatesAfter
<1>5. CASE s.state = "WARN" /\ dev = "clean"
  <2>1. CleanInWarn(t, s).state \in {"WARN", "OK"}
    BY <1>5 DEF CleanInWarn, Fresh, VenueStatus
  <2>2. QED
    BY <1>5, <2>1, UpdateBranch DEF StatesAfter
<1>6. QED
  BY <1>0, <1>1, <1>2, <1>3, <1>4, <1>5 DEF Deviation, VenueState

\* The timed breaker moves a venue only where the abstraction the consensus is
\* computed under lets an observation move it, for every policy.
THEOREM FollowsVenueStatesHolds == Spec => FollowsVenueStates
<1>1. ASSUME TypeOK, [Next]_vars, status'.state # status.state, update' # NoUpdate
      PROVE  \E dev \in Deviation :
                seen' = See(dev) /\ status'.state \in StatesAfter(status.state, dev)
  <2>1. ~Tick /\ ~Publish /\ ~PublishFails /\ ~UNCHANGED vars
    BY <1>1 DEF Tick, Publish, PublishFails, vars
  <2>2. ~Restart /\ ~RestartBlind
    BY <1>1 DEF Restart, RestartBlind
  <2>3. PICK dev \in Deviation : Observe(dev)
    BY <1>1, <2>1, <2>2 DEF Next
  <2>4. seen' = See(dev) /\ status' = UpdateVenueStatus(now, status, dev)
    BY <2>3 DEF Observe
  <2>5. status'.state \in StatesAfter(status.state, dev)
    BY <1>1, <2>4, UpdateFollows DEF TypeOK
  <2>6. QED
    BY <2>4, <2>5
<1>2. QED
  BY <1>1, TypeCorrect, PTL DEF Spec, FollowsVenueStates

-----------------------------------------------------------------------------
(* The exchange clients. *)

(***************************************************************************)
(* What a client can conclude from an answer: only an envelope whose       *)
(* exchange went well and that has no error in it carries the data, and    *)
(* the venue did what it was asked; an error in the body carries none.     *)
(***************************************************************************)
LEMMA GoodEnvelope ==
    ASSUME NEW op, NEW auth, NEW data, NEW e \in Envelopes(op, auth, data), DoJSON(e)
    PROVE  \/ ~e.error /\ e.data = data /\ Took(e, auth)
           \/ e.error /\ e.data = None /\ InBand(op)
BY DEF Envelopes, Envelope, DoJSON, Took, Arrives, Http

(***************************************************************************)
(* The order at the venue: an open one is not filled up and is in a state  *)
(* that is open there, one that is over is in the state that tells whether *)
(* all of it was filled.                                                   *)
(***************************************************************************)
States == OpenStates \cup {FilledOrder[venue]} \cup EndedOrder[venue] \cup {"other"}
AtVenue == [type : Types, qty : Int, filled : Int, last : Int, raw : States, open : BOOLEAN]
InState(o) ==
    /\ o \in AtVenue /\ o.last <= o.filled /\ 0 <= o.filled
    /\ o.open => o.filled < o.qty /\ o.raw \in OpenStates
    /\ ~o.open => o.raw \in EndStates(o.filled, o.qty)

ToldInv == told # None =>
    /\ order \in AtVenue /\ ~order.open
    /\ told.filled <= order.filled
    /\ venue # "okx" => told.filled = order.filled
    /\ told.status = "FILLED" <=> order.filled = order.qty

\* A final state reported of an order: it is over, and FILLED is said when all of it was filled.
FinalOf(table, o) ==
    Translate(table, o.raw, o.raw) \in Final =>
        /\ ~o.open
        /\ Translate(table, o.raw, o.raw) = "FILLED" <=> o.filled = o.qty

LEMMA ReportsFinal ==
    ASSUME NEW o, InState(o)
    PROVE  /\ venue = "binance" => FinalOf(BinanceStatus, o)
           /\ venue = "bybit" => FinalOf(BybitStatus, o)
           /\ venue = "okx" => FinalOf(OKXStatus, o)
           /\ venue = "coinbase" => FinalOf(CoinbaseStatus, o)
           /\ venue = "deribit" => FinalOf(DeribitStatus, o)
<1> USE DEF InState, FinalOf, Final, Translate, OpenStates, EndStates, OpenOrder, FilledOrder, EndedOrder
<1>1. venue = "binance" => FinalOf(BinanceStatus, o)
  BY DEF BinanceStatus
<1>2. venue = "bybit" => FinalOf(BybitStatus, o)
  BY DEF BybitStatus
<1>3. venue = "okx" => FinalOf(OKXStatus, o)
  BY DEF OKXStatus
<1>4. venue = "coinbase" => FinalOf(CoinbaseStatus, o)
  BY DEF CoinbaseStatus
<1>5. venue = "deribit" => FinalOf(DeribitStatus, o)
  BY DEF DeribitStatus
<1> QED  BY <1>1, <1>2, <1>3, <1>4, <1>5

\* What the caller is told is the fill of the order, or okx's last fill of it, and it is told when
\* the order is over.
ToldOf(value, o) ==
    FinalIn(value) => /\ ~o.open
                      /\ value.filled <= o.filled
                      /\ venue # "okx" => value.filled = o.filled
                      /\ value.status = "FILLED" <=> o.filled = o.qty

LEMMA ReportedTold ==
    ASSUME NEW table, NEW o, InState(o), FinalOf(table, o)
    PROVE  /\ ToldOf(Reported(table, o), o) /\ ToldOf([Reported(table, o) EXCEPT !.qty = 0], o)
           /\ venue = "okx" => ToldOf([Reported(table, o) EXCEPT !.filled = o.last], o)
<1>1. o.filled \in Int /\ o.last \in Int /\ o.last <= o.filled
  BY DEF InState, AtVenue
<1> QED  BY <1>1 DEF FinalOf, ToldOf, Reported, Order, FinalIn, Told

LEMMA NothingTold == ASSUME NEW o PROVE ToldOf(Err, o) /\ ToldOf(Accepted, o)
BY DEF ToldOf, FinalIn, Accepted, Order, Final

LEMMA GetOrderTold ==
    ASSUME NEW o, InState(o), venue \in VenueNames,
           NEW auth, NEW e \in Envelopes("GetOrder", auth, o)
    PROVE  ToldOf(Reads("GetOrder", e, None), o)
<1>1. CASE ~DoJSON(e)
  <2>1. Reads("GetOrder", e, None) = Err
    BY <1>1, BoundsAssumption DEF Reads, ByVenue, BinanceGetOrder, BybitGetOrder, OKXGetOrder,
       CoinbaseGetOrder, DeribitGetOrder
  <2> QED  BY <2>1, NothingTold
<1>2. CASE DoJSON(e)
  <2>1. \/ ~e.error /\ e.data = o
        \/ e.error /\ venue \in {"bybit", "okx", "deribit"}
    BY <1>2, GoodEnvelope DEF InBand
  <2>2. CASE ~e.error /\ e.data = o
    <3>1. CASE venue = "binance"
      <4>1. Reads("GetOrder", e, None) = Reported(BinanceStatus, o)
        BY <1>2, <2>2, <3>1 DEF Reads, ByVenue, BinanceGetOrder
      <4> QED  BY <3>1, <4>1, ReportsFinal, ReportedTold
    <3>2. CASE venue = "bybit"
      <4>1. Reads("GetOrder", e, None) \in {Err, Reported(BybitStatus, o)}
        BY <1>2, <2>2, <3>2 DEF Reads, ByVenue, BybitGetOrder
      <4> QED  BY <3>2, <4>1, ReportsFinal, ReportedTold, NothingTold
    <3>3. CASE venue = "okx"
      <4>1. Reads("GetOrder", e, None) \in {Err, [Reported(OKXStatus, o) EXCEPT !.filled = o.last]}
        BY <1>2, <2>2, <3>3 DEF Reads, ByVenue, OKXGetOrder
      <4> QED  BY <3>3, <4>1, ReportsFinal, ReportedTold, NothingTold
    <3>4. CASE venue = "coinbase"
      <4>1. Reads("GetOrder", e, None) = [Reported(CoinbaseStatus, o) EXCEPT !.qty = 0]
        BY <1>2, <2>2, <3>4 DEF Reads, ByVenue, CoinbaseGetOrder
      <4> QED  BY <3>4, <4>1, ReportsFinal, ReportedTold
    <3>5. CASE venue = "deribit"
      <4>1. Reads("GetOrder", e, None) = Reported(DeribitStatus, o)
        BY <1>2, <2>2, <3>5 DEF Reads, ByVenue, DeribitGetOrder
      <4> QED  BY <3>5, <4>1, ReportsFinal, ReportedTold
    <3> QED  BY <3>1, <3>2, <3>3, <3>4, <3>5, BoundsAssumption
  <2>3. CASE e.error /\ venue \in {"bybit", "okx", "deribit"}
    <3>1. Reads("GetOrder", e, None) = Err
      BY <2>3 DEF Reads, ByVenue, BybitGetOrder, OKXGetOrder, DeribitGetOrder
    <3> QED  BY <3>1, NothingTold
  <2> QED  BY <2>1, <2>2, <2>3
<1> QED  BY <1>1, <1>2

LEMMA PlaceOrderTold ==
    ASSUME NEW o, venue \in VenueNames, NEW auth, NEW e \in Envelopes("PlaceOrder", auth, None),
           Took(e, auth) => InState(o)
    PROVE  LET value == Reads("PlaceOrder", [e EXCEPT !.data = o], None)
           IN  FinalIn(value) => Took(e, auth) /\ ToldOf(value, o)
<1> DEFINE f == [e EXCEPT !.data = o]
           value == Reads("PlaceOrder", f, None)
<1>1. f.http = e.http /\ f.error = e.error /\ f.data = o
  BY DEF Envelopes, Envelope, Http
<1>2. DoJSON(f) <=> DoJSON(e)
  BY <1>1 DEF DoJSON
<1>3. ~FinalIn(Err) /\ ~FinalIn(Accepted)
  BY DEF FinalIn, Accepted, Order, Final
<1>4. CASE ~DoJSON(e)
  <2>1. value = Err
    BY <1>2, <1>4, BoundsAssumption DEF Reads, ByVenue, BinancePlaceOrder, BybitPlaceOrder, OKXPlaceOrder,
       CoinbasePlaceOrder, DeribitPlaceOrder
  <2> QED  BY <2>1, <1>3
<1>5. CASE DoJSON(e)
  <2>1. \/ ~e.error /\ Took(e, auth)
        \/ e.error /\ venue \in {"bybit", "okx", "coinbase", "deribit"}
    BY <1>5, GoodEnvelope DEF InBand
  <2>2. CASE ~e.error /\ Took(e, auth)
    <3>1. CASE venue = "binance"
      <4>1. value = Reported(BinanceStatus, o)
        BY <1>1, <1>2, <1>5, <3>1 DEF Reads, ByVenue, BinancePlaceOrder
      <4> HIDE DEF value
      <4> QED  BY <2>2, <3>1, <4>1, ReportsFinal, ReportedTold DEF value
    <3>2. CASE venue \in {"bybit", "okx", "coinbase"}
      <4>1. value \in {Err, Accepted}
        BY <3>2 DEF Reads, ByVenue, BybitPlaceOrder, OKXPlaceOrder, CoinbasePlaceOrder
      <4> QED  BY <4>1, <1>3
    <3>3. CASE venue = "deribit"
      <4>1. value = Reported(DeribitStatus, o)
        BY <1>1, <1>2, <1>5, <2>2, <3>3 DEF Reads, ByVenue, DeribitPlaceOrder
      <4> QED  BY <2>2, <3>3, <4>1, ReportsFinal, ReportedTold
    <3> QED  BY <3>1, <3>2, <3>3, BoundsAssumption
  <2>3. CASE e.error /\ venue \in {"bybit", "okx", "coinbase", "deribit"}
    <3>1. value = Err
      BY <1>1, <2>3 DEF Reads, ByVenue, BybitPlaceOrder, OKXPlaceOrder, CoinbasePlaceOrder, DeribitPlaceOrder
    <3> QED  BY <3>1, <1>3
  <2> QED  BY <2>1, <2>2, <2>3
<1> QED  BY <1>4, <1>5

(***************************************************************************)
(* What the other calls make of an answer, against what the venue holds.   *)
(***************************************************************************)
Answer(op, value, held_) == reply' = [op |-> op, value |-> value, venue |-> held_]

LEMMA CancelOrderTrue ==
    ASSUME venue \in VenueNames, NEW auth, NEW e \in Envelopes("CancelOrder", auth, None),
           venue # "coinbase", Reads("CancelOrder", e, None) # Err
    PROVE  Took(e, auth)
<1>1. CASE venue = "binance"
  <2>1. Delivered(e)
    BY <1>1 DEF Reads, ByVenue, BinanceCancelOrder
  <2> QED  BY <1>1, <2>1 DEF Delivered, Envelopes, Envelope, InBand, Took, Arrives, Works
<1>2. CASE venue # "binance"
  <2>1. DoJSON(e) /\ ~e.error
    BY <1>2, BoundsAssumption DEF Reads, ByVenue, BybitCancelOrder, OKXCancelOrder, DeribitCancelOrder
  <2> QED  BY <2>1, GoodEnvelope
<1> QED  BY <1>1, <1>2

LEMMA WithdrawTrue ==
    ASSUME venue \in VenueNames, NEW auth, NEW e \in Envelopes("Withdraw", auth, None),
           Reads("Withdraw", e, None) # Err
    PROVE  Took(e, auth)
<1>1. DoJSON(e) /\ (venue \in {"bybit", "okx", "deribit"} => ~e.error)
  BY BoundsAssumption DEF Reads, ByVenue, BinanceWithdraw, BybitWithdraw, OKXWithdraw, CoinbaseWithdraw,
     DeribitWithdraw
<1> QED  BY <1>1, GoodEnvelope DEF InBand

Wallet(free, locked) == [free |-> free, locked |-> locked, total |-> free + locked]

LEMMA BalancesTrue ==
    ASSUME venue \in VenueNames, venue # "deribit", NEW free \in 0..1, NEW locked \in 0..1, NEW auth,
           NEW e \in Envelopes("GetBalances", auth, Wallet(free, locked)),
           Reads("GetBalances", e, None) # Err
    PROVE  Reads("GetBalances", e, None) = Balance(free, locked, free + locked)
<1>1. DoJSON(e) /\ (venue \in {"bybit", "okx"} => ~e.error)
  BY BoundsAssumption DEF Reads, ByVenue, BinanceGetBalances, BybitGetBalances, OKXGetBalances, CoinbaseGetBalances
<1>2. ~e.error /\ e.data = Wallet(free, locked)
  BY <1>1, GoodEnvelope DEF InBand
<1>3. /\ e.data.free = free /\ e.data.locked = locked /\ e.data.total = free + locked
      /\ e.data.total - e.data.free = locked /\ e.data # None
  BY <1>2, NothingAssumption DEF Wallet
<1> QED  BY <1>1, <1>2, <1>3, BoundsAssumption
         DEF Reads, ByVenue, BinanceGetBalances, BybitGetBalances, OKXGetBalances, CoinbaseGetBalances

Held(n, net) ==
    [amount |-> n, side |-> IF n < 0 THEN "sell" ELSE "buy", size |-> Size(n),
     pos |-> IF net THEN n ELSE Size(n), posSide |-> IF net THEN "net" ELSE IF n < 0 THEN "short" ELSE "long"]

LEMMA PositionsTrue ==
    ASSUME venue \in VenueNames, venue # "deribit", NEW n \in -1..1, venue = "coinbase" => n = 0,
           NEW net \in BOOLEAN, NEW auth, NEW e \in Envelopes("GetPositions", auth, Held(n, net)),
           Reads("GetPositions", e, None) # Err
    PROVE  Reads("GetPositions", e, None) = Position(IF n < 0 THEN "SHORT" ELSE "LONG", Size(n))
<1>1. CASE venue = "coinbase"
  BY <1>1 DEF Reads, ByVenue, CoinbaseGetPositions, Position, Size
<1>2. CASE venue \in {"binance", "bybit", "okx"}
  <2>1. DoJSON(e) /\ (venue \in {"bybit", "okx"} => ~e.error)
    BY <1>2 DEF Reads, ByVenue, BinanceGetPositions, BybitGetPositions, OKXGetPositions
  <2>2. ~e.error /\ e.data = Held(n, net)
    BY <1>2, <2>1, GoodEnvelope DEF InBand
  <2>3. CASE venue = "binance"
    BY <2>1, <2>2, <2>3 DEF Reads, ByVenue, BinanceGetPositions, Held
  <2>4. CASE venue = "bybit"
    BY <2>1, <2>2, <2>4 DEF Reads, ByVenue, BybitGetPositions, Held
  <2>5. CASE venue = "okx"
    <3>1. Size(e.data.pos) = Size(n)
      BY <2>2 DEF Held, Size
    <3>2. e.data.pos < 0 \/ e.data.posSide = "short" <=> n < 0
      BY <2>2 DEF Held, Size
    <3> QED  BY <2>1, <2>2, <2>5, <3>1, <3>2 DEF Reads, ByVenue, OKXGetPositions
  <2> QED  BY <1>2, <2>3, <2>4, <2>5
<1> QED  BY <1>1, <1>2, BoundsAssumption

\* Each venue's table says of a transfer what it means there.
LEMMA TransferMeans ==
    ASSUME NEW raw \in Transfers(DoneTransfer[venue])
    PROVE  LET means == Means(raw, DoneTransfer[venue]) IN
           /\ venue = "binance" => Transfer(BinanceTransfer, raw) = means
           /\ venue = "bybit" => Transfer(BybitTransfer, raw) = means
           /\ venue = "okx" => Transfer(OKXTransfer, raw) = means
           /\ venue = "coinbase" => Transfer(CoinbaseTransfer, raw) = means
           /\ venue = "deribit" => Transfer(DeribitTransfer, raw) = means
BY DEF Transfers, DoneTransfer, FailedTransfer, Underway, Means, Transfer, Translate, Outcomes,
   BinanceTransfer, BybitTransfer, OKXTransfer, CoinbaseTransfer, DeribitTransfer

LEMMA WithdrawStatusTrue ==
    ASSUME venue \in VenueNames, NEW raw \in Transfers(DoneTransfer[venue]), NEW listed \in BOOLEAN, NEW auth,
           NEW e \in Envelopes("GetWithdrawStatus", auth, IF listed THEN raw ELSE None),
           Reads("GetWithdrawStatus", e, None) # Err
    PROVE  Reads("GetWithdrawStatus", e, None) \in {"PENDING", Means(raw, DoneTransfer[venue])}
<1>1. CASE venue = "coinbase"
  BY <1>1 DEF Reads, ByVenue, CoinbaseGetWithdrawStatus
<1>2. CASE venue # "coinbase"
  <2>1. DoJSON(e)
    BY <1>2, BoundsAssumption DEF Reads, ByVenue, BinanceGetWithdrawStatus, BybitGetWithdrawStatus,
       OKXGetWithdrawStatus, DeribitGetWithdrawStatus
  <2>2. e.data \in {raw, None}
    BY <2>1, GoodEnvelope
  <2>3. CASE venue = "okx"
    <3>1. Reads("GetWithdrawStatus", e, None) = Transfer(OKXTransfer, e.data)
      BY <2>1, <2>3 DEF Reads, ByVenue, OKXGetWithdrawStatus
    <3>2. Transfer(OKXTransfer, None) = "PENDING"
      BY NothingAssumption DEF Transfer, Translate
    <3> QED  BY <2>2, <2>3, <3>1, <3>2, TransferMeans
  <2>4. CASE venue # "okx"
    <3>1. e.data = raw
      BY <1>2, <2>2, <2>4, BoundsAssumption DEF Reads, ByVenue, BinanceGetWithdrawStatus,
         BybitGetWithdrawStatus, DeribitGetWithdrawStatus
    <3> QED  BY <1>2, <2>4, <3>1, TransferMeans, BoundsAssumption
             DEF Reads, ByVenue, BinanceGetWithdrawStatus, BybitGetWithdrawStatus, DeribitGetWithdrawStatus
  <2> QED  BY <2>3, <2>4
<1> QED  BY <1>1, <1>2

\* A deposit listed as completed or failed has completed or failed, in every table of deposits.
LEMMA DepositMeans ==
    ASSUME NEW raw \in Transfers(DoneDeposit[venue])
    PROVE  LET means == Means(raw, DoneDeposit[venue]) IN
           /\ venue = "binance" => Transfer(Outcomes("1", {}), raw) \in {means, "PENDING"}
           /\ venue = "bybit" => Transfer(Outcomes("3", {}), raw) \in {means, "PENDING"}
           /\ venue = "okx" => Transfer(Outcomes("2", {}), raw) \in {means, "PENDING"}
           /\ venue = "coinbase" => Transfer(CoinbaseTransfer, raw) \in {means, "PENDING"}
           /\ venue = "deribit" => Transfer(DeribitTransfer, raw) \in {means, "PENDING"}
<1>1. /\ venue = "binance" => DoneDeposit[venue] = "1"
      /\ venue = "bybit" => DoneDeposit[venue] = "3"
      /\ venue = "okx" => DoneDeposit[venue] = "2"
      /\ venue = "coinbase" => DoneDeposit[venue] = "completed"
      /\ venue = "deribit" => DoneDeposit[venue] = "completed"
  BY DEF DoneDeposit
<1> USE <1>1 DEF Transfers, FailedTransfer, Underway, Means, Transfer, Translate, Outcomes
<1>2. venue = "binance" => Transfer(Outcomes("1", {}), raw) \in {Means(raw, DoneDeposit[venue]), "PENDING"}
  OBVIOUS
<1>3. venue = "bybit" => Transfer(Outcomes("3", {}), raw) \in {Means(raw, DoneDeposit[venue]), "PENDING"}
  OBVIOUS
<1>4. venue = "okx" => Transfer(Outcomes("2", {}), raw) \in {Means(raw, DoneDeposit[venue]), "PENDING"}
  OBVIOUS
<1>5. venue = "coinbase" => Transfer(CoinbaseTransfer, raw) \in {Means(raw, DoneDeposit[venue]), "PENDING"}
  BY DEF CoinbaseTransfer
<1>6. venue = "deribit" => Transfer(DeribitTransfer, raw) \in {Means(raw, DoneDeposit[venue]), "PENDING"}
  BY DEF DeribitTransfer
<1> QED  BY <1>2, <1>3, <1>4, <1>5, <1>6

LEMMA RecordsTrue ==
    ASSUME NEW op, NEW auth, NEW raw, NEW e \in Envelopes(op, auth, raw), NEW table, NEW means,
           Transfer(table, raw) \in {means, "PENDING"}, Records(table, e) # Err
    PROVE  Records(table, e) \subseteq {means} \cup {"PENDING"}
<1>1. DoJSON(e)
  BY DEF Records
<1>2. e.data \in {raw, None}
  BY <1>1, GoodEnvelope
<1>3. Records(table, e) \in {{}, {Transfer(table, raw)}}
  BY <1>1, <1>2 DEF Records
<1> QED  BY <1>3

LEMMA DepositsTrue ==
    ASSUME venue \in VenueNames, NEW op \in {"GetDeposits", "GetFiatDeposits"},
           op = "GetFiatDeposits" => venue = "coinbase",
           NEW raw \in Transfers(DoneDeposit[venue]), NEW auth, NEW e \in Envelopes(op, auth, raw),
           Reads(op, e, None) # Err
    PROVE  Reads(op, e, None) \subseteq {Means(raw, DoneDeposit[venue])} \cup {"PENDING"}
<1> DEFINE means == Means(raw, DoneDeposit[venue])
<1>1. ASSUME NEW table, Transfer(table, raw) \in {means, "PENDING"}, Records(table, e) # Err
      PROVE  Records(table, e) \subseteq {means} \cup {"PENDING"}
  BY <1>1, RecordsTrue
<1>2. CASE venue = "binance"
  <2>1. Reads(op, e, None) = Records(Outcomes("1", {}), e)
    BY <1>2 DEF Reads, ByVenue, BinanceGetDeposits
  <2>2. Transfer(Outcomes("1", {}), raw) \in {Means(raw, DoneDeposit[venue]), "PENDING"}
    BY <1>2, DepositMeans
  <2> QED  BY <2>1, <2>2, <1>1
<1>3. CASE venue = "bybit"
  <2>1. Reads(op, e, None) = Records(Outcomes("3", {}), e)
    BY <1>3 DEF Reads, ByVenue, BybitGetDeposits
  <2>2. Transfer(Outcomes("3", {}), raw) \in {Means(raw, DoneDeposit[venue]), "PENDING"}
    BY <1>3, DepositMeans
  <2> QED  BY <2>1, <2>2, <1>1
<1>4. CASE venue = "okx"
  <2>1. Reads(op, e, None) = Records(Outcomes("2", {}), e)
    BY <1>4 DEF Reads, ByVenue, OKXGetDeposits
  <2>2. Transfer(Outcomes("2", {}), raw) \in {Means(raw, DoneDeposit[venue]), "PENDING"}
    BY <1>4, DepositMeans
  <2> QED  BY <2>1, <2>2, <1>1
<1>5. CASE venue = "coinbase"
  <2>1. Reads(op, e, None) = Records(CoinbaseTransfer, e)
    BY <1>5 DEF Reads, ByVenue, CoinbaseGetDeposits, CoinbaseGetFiatDeposits
  <2>2. Transfer(CoinbaseTransfer, raw) \in {Means(raw, DoneDeposit[venue]), "PENDING"}
    BY <1>5, DepositMeans
  <2> QED  BY <2>1, <2>2, <1>1
<1>6. CASE venue = "deribit"
  <2>1. Reads(op, e, None) = Records(DeribitTransfer, e)
    BY <1>6 DEF Reads, ByVenue, DeribitGetDeposits
  <2>2. Transfer(DeribitTransfer, raw) \in {Means(raw, DoneDeposit[venue]), "PENDING"}
    BY <1>6, DepositMeans
  <2> QED  BY <2>1, <2>2, <1>1
<1> QED  BY <1>2, <1>3, <1>4, <1>5, <1>6, BoundsAssumption

(***************************************************************************)
(* The steps.                                                              *)
(***************************************************************************)
AskKeeps(op, held_, data, network) ==
    Ask(op, held_, data, network) =>
        /\ UNCHANGED <<venue, order, told>>
        /\ \E auth : \E e \in Envelopes(op, auth, data) : Answer(op, Reads(op, e, network), held_)

LEMMA AskStep ==
    ASSUME NEW op, NEW held_, NEW data, NEW network PROVE AskKeeps(op, held_, data, network)
BY DEF AskKeeps, Ask, Answer, Replies

\* The part of the invariant that is about the order.
OrderInv ==
    /\ venue \in VenueNames
    /\ order # None => InState(order)
    /\ ToldInv

LEMMA OrderKept ==
    ASSUME OrderInv, UNCHANGED <<venue, order, told>>
    PROVE  OrderInv'
BY DEF OrderInv, ToldInv, InState, AtVenue, States, OpenStates, EndStates

\* An order that is told to be over does not change.
LEMMA OrderMoves ==
    ASSUME OrderInv, order # None, order.open, UNCHANGED <<venue, told>>,
           order' # None => InState(order')
    PROVE  OrderInv'
BY DEF OrderInv, ToldInv, InState, AtVenue, States, OpenStates, EndStates

LEMMA EndsInState ==
    ASSUME OrderInv, order # None, order.open, Ends
    PROVE  InState(order')
<1>1. order \in AtVenue /\ order.last <= order.filled /\ 0 <= order.filled
  BY DEF OrderInv, InState
<1>2. PICK raw \in EndStates(order.filled, order.qty) : order' = [order EXCEPT !.raw = raw, !.open = FALSE]
  BY DEF Ends
<1>3. raw \in States
  BY <1>2 DEF EndStates, States
<1>4. /\ order' \in AtVenue /\ order'.last = order.last /\ order'.filled = order.filled
      /\ order'.qty = order.qty /\ order'.raw = raw /\ ~order'.open
  BY <1>1, <1>2, <1>3 DEF AtVenue
<1> QED  BY <1>1, <1>2, <1>4 DEF InState

LEMMA TakesInState ==
    ASSUME venue \in VenueNames, NEW type \in Types, NEW sent, Takes(type, sent)
    PROVE  InState(order')
<1> DEFINE Taken(qty, filled, last) ==
        \/ /\ filled < qty
           /\ \E raw \in OpenStates : order' = AnOrder(type, qty, filled, last, raw, TRUE)
        \/ \E raw \in EndStates(filled, qty) : order' = AnOrder(type, qty, filled, last, raw, FALSE)
<1>1. PICK qty \in 1..MaxQty : \E filled \in 0..qty : \E last \in LastOf(filled) : Taken(qty, filled, last)
  BY DEF Takes
<1>2. PICK filled \in 0..qty : \E last \in LastOf(filled) : Taken(qty, filled, last)
  BY <1>1
<1>3. PICK last \in LastOf(filled) : Taken(qty, filled, last)
  BY <1>2
<1>4. qty \in Int /\ filled \in Int /\ 0 <= filled
  BY BoundsAssumption
<1>5. last \in Int /\ last <= filled
  BY <1>4 DEF LastOf
<1>6. CASE filled < qty /\ \E raw \in OpenStates : order' = AnOrder(type, qty, filled, last, raw, TRUE)
  <2>1. PICK raw \in OpenStates : order' = AnOrder(type, qty, filled, last, raw, TRUE)
    BY <1>6
  <2>2. raw \in States
    BY DEF States
  <2> QED  BY <1>4, <1>5, <1>6, <2>1, <2>2 DEF AnOrder, InState, AtVenue
<1>7. CASE \E raw \in EndStates(filled, qty) : order' = AnOrder(type, qty, filled, last, raw, FALSE)
  <2>1. PICK raw \in EndStates(filled, qty) : order' = AnOrder(type, qty, filled, last, raw, FALSE)
    BY <1>7
  <2>2. raw \in States
    BY DEF EndStates, States
  <2> QED  BY <1>4, <1>5, <2>1, <2>2 DEF AnOrder, InState, AtVenue
<1> QED  BY <1>3, <1>6, <1>7

LEMMA FillsInState ==
    ASSUME OrderInv, VenueFills
    PROVE  InState(order')
<1>1. order \in AtVenue /\ 0 <= order.filled /\ order.open
  BY DEF OrderInv, InState, VenueFills
<1>2. PICK filled \in order.filled + 1 .. order.qty :
          \/ filled < order.qty /\ \E raw \in OpenStates : order' = Filled(filled, raw, TRUE)
          \/ filled = order.qty /\ order' = Filled(filled, FilledOrder[venue], FALSE)
  BY DEF VenueFills
<1>3. /\ filled \in Int /\ order.filled \in Int /\ order.qty \in Int
      /\ 0 <= filled /\ filled - order.filled \in Int /\ filled - order.filled <= filled
  BY <1>1 DEF AtVenue
<1>4. ASSUME NEW raw \in States, NEW open \in BOOLEAN, order' = Filled(filled, raw, open)
      PROVE  /\ order' \in AtVenue /\ order'.last <= order'.filled /\ 0 <= order'.filled
             /\ order'.filled = filled /\ order'.qty = order.qty /\ order'.raw = raw /\ order'.open = open
  BY <1>1, <1>3, <1>4 DEF AtVenue, Filled
<1>5. CASE filled < order.qty /\ \E raw \in OpenStates : order' = Filled(filled, raw, TRUE)
  <2>1. PICK raw \in OpenStates : order' = Filled(filled, raw, TRUE)
    BY <1>5
  <2>2. raw \in States
    BY DEF States
  <2> QED  BY <1>4, <1>5, <2>1, <2>2 DEF InState
<1>6. CASE filled = order.qty /\ order' = Filled(filled, FilledOrder[venue], FALSE)
  <2>1. FilledOrder[venue] \in States
    BY DEF States
  <2> QED  BY <1>4, <1>6, <2>1 DEF InState, EndStates
<1> QED  BY <1>2, <1>5, <1>6

LEMMA ToldIsOver ==
    ASSUME NEW value, FinalIn(value), InState(order'), ToldOf(value, order'), told' = Told(value),
           venue \in VenueNames, venue' = venue
    PROVE  OrderInv'
BY DEF OrderInv, ToldInv, ToldOf, Told, InState, AtVenue, States, OpenStates, EndStates

LEMMA PlaceOrderKeeps ==
    ASSUME OrderInv, PlaceOrder
    PROVE  OrderInv'
<1>1. PICK type \in Types, auth \in Auth : \E e \in Envelopes("PlaceOrder", auth, None) :
          /\ IF Took(e, auth) THEN Takes(type, Request(type)) ELSE UNCHANGED order
          /\ LET value == Reads("PlaceOrder", [e EXCEPT !.data = order'], None) IN
             told' = IF FinalIn(value) THEN Told(value) ELSE IF Took(e, auth) THEN None ELSE told
  BY DEF PlaceOrder
<1>2. PICK e \in Envelopes("PlaceOrder", auth, None) :
          /\ IF Took(e, auth) THEN Takes(type, Request(type)) ELSE UNCHANGED order
          /\ LET value == Reads("PlaceOrder", [e EXCEPT !.data = order'], None) IN
             told' = IF FinalIn(value) THEN Told(value) ELSE IF Took(e, auth) THEN None ELSE told
  BY <1>1
<1> DEFINE value == Reads("PlaceOrder", [e EXCEPT !.data = order'], None)
<1>3. told' = IF FinalIn(value) THEN Told(value) ELSE IF Took(e, auth) THEN None ELSE told
  BY <1>2
<1>4. venue' = venue /\ venue \in VenueNames
  BY DEF PlaceOrder, OrderInv
<1>5. Took(e, auth) => InState(order')
  BY <1>2, <1>4, TakesInState
<1>6. FinalIn(value) => Took(e, auth) /\ ToldOf(value, order')
  BY <1>4, <1>5, PlaceOrderTold
<1> HIDE DEF value
<1>7. CASE FinalIn(value)
  BY <1>3, <1>4, <1>5, <1>6, <1>7, ToldIsOver
<1>8. CASE ~FinalIn(value) /\ Took(e, auth)
  <2>1. told' = None
    BY <1>3, <1>8
  <2> QED  BY <1>4, <1>5, <1>8, <2>1
           DEF OrderInv, ToldInv, InState, AtVenue, States, OpenStates, EndStates
<1>9. CASE ~FinalIn(value) /\ ~Took(e, auth)
  BY <1>2, <1>3, <1>4, <1>9, OrderKept
<1> QED  BY <1>7, <1>8, <1>9

LEMMA GetOrderKeeps ==
    ASSUME OrderInv, GetOrder
    PROVE  OrderInv'
<1>1. PICK auth \in Auth : \E e \in Envelopes("GetOrder", auth, order) :
          LET value == Reads("GetOrder", e, None) IN told' = IF FinalIn(value) THEN Told(value) ELSE told
  BY DEF GetOrder
<1>2. PICK e \in Envelopes("GetOrder", auth, order) :
          LET value == Reads("GetOrder", e, None) IN told' = IF FinalIn(value) THEN Told(value) ELSE told
  BY <1>1
<1> DEFINE value == Reads("GetOrder", e, None)
<1>3. told' = IF FinalIn(value) THEN Told(value) ELSE told
  BY <1>2
<1>4. /\ venue' = venue /\ order' = order
      /\ venue \in VenueNames /\ InState(order)
  BY DEF GetOrder, OrderInv
<1>5. ToldOf(value, order)
  BY <1>4, GetOrderTold
<1>6. InState(order')
  BY <1>4
<1>7. ToldOf(value, order')
  BY <1>4, <1>5
<1> HIDE DEF value
<1>8. CASE FinalIn(value)
  BY <1>3, <1>4, <1>6, <1>7, <1>8, ToldIsOver
<1>9. CASE ~FinalIn(value)
  BY <1>3, <1>4, <1>9, OrderKept
<1> QED  BY <1>8, <1>9

LEMMA OthersAsk ==
    ASSUME GetBalances \/ GetPositions \/ GetWithdrawStatus \/ GetDeposits \/ GetFiatDeposits \/ GetDepositAddress
    PROVE  UNCHANGED <<venue, order, told>>
BY AskStep DEF AskKeeps, GetBalances, GetPositions, GetWithdrawStatus, GetDeposits, GetFiatDeposits,
   GetDepositAddress

LEMMA StepKeepsOrderInv ==
    ASSUME OrderInv, [NextClients]_clientVars
    PROVE  OrderInv'
<1>1. CASE NextRegistry /\ UNCHANGED <<venue, token, order, orders, reply, told>>
  BY <1>1, OrderKept
<1>2. CASE PlaceOrder
  BY <1>2, PlaceOrderKeeps
<1>3. CASE CancelOrder
  <2>1. PICK auth \in Auth : \E e \in Envelopes("CancelOrder", auth, None) :
          IF order.open /\ Took(e, auth) THEN Ends ELSE UNCHANGED order
    BY <1>3 DEF CancelOrder
  <2>2. order' = order \/ (order.open /\ Ends)
    BY <2>1
  <2>3. venue' = venue /\ told' = told /\ order # None
    BY <1>3 DEF CancelOrder
  <2>4. CASE order' = order
    BY <2>3, <2>4, OrderKept
  <2>5. CASE order.open /\ Ends
    BY <2>3, <2>5, EndsInState, OrderMoves
  <2> QED  BY <2>2, <2>4, <2>5
<1>4. CASE GetOrder
  BY <1>4, GetOrderKeeps
<1>5. CASE GetBalances \/ GetPositions \/ GetWithdrawStatus \/ GetDeposits \/ GetFiatDeposits \/ GetDepositAddress
  BY <1>5, OthersAsk, OrderKept
<1>6. CASE Withdraw \/ Return \/ TokenExpires \/ TokenRevoked \/ UNCHANGED clientVars
  <2>1. UNCHANGED <<venue, order, told>>
    BY <1>6 DEF Withdraw, Return, TokenExpires, TokenRevoked, clientVars
  <2> QED  BY <2>1, OrderKept
<1>7. CASE VenueFills
  <2>1. order # None /\ order.open /\ UNCHANGED <<venue, told>>
    BY <1>7 DEF VenueFills
  <2> QED  BY <1>7, <2>1, FillsInState, OrderMoves
<1>8. CASE VenueEnds
  <2>1. order # None /\ order.open /\ UNCHANGED <<venue, told>> /\ Ends
    BY <1>8 DEF VenueEnds
  <2> QED  BY <2>1, EndsInState, OrderMoves
<1> QED  BY <1>1, <1>2, <1>3, <1>4, <1>5, <1>6, <1>7, <1>8 DEF NextClients

(***************************************************************************)
(* Whatever the venue does afterwards, an order the caller was told to be  *)
(* filled, cancelled, rejected or expired is over there, filled whole      *)
(* exactly if FILLED was said, and the fill the caller was told is what    *)
(* was filled, or on okx no more than that (PlaceOrder and GetOrder of the *)
(* clients, on which the live executor stops watching).                    *)
(***************************************************************************)
THEOREM FinalIsFinalHolds == ClientsSpec => []FinalIsFinal
<1>1. InitClients => OrderInv
  BY DEF InitClients, OrderInv, ToldInv
<1>2. OrderInv /\ [NextClients]_clientVars => OrderInv'
  BY StepKeepsOrderInv
<1>3. OrderInv => FinalIsFinal
  BY DEF OrderInv, ToldInv, FinalIsFinal
<1> QED  BY <1>1, <1>2, <1>3, PTL DEF ClientsSpec

LEMMA AnswerFields ==
    ASSUME NEW op, NEW value, NEW held_, Answer(op, value, held_)
    PROVE  reply'.op = op /\ reply'.value = value /\ reply'.venue = held_
BY DEF Answer

\* Each call of the account and of transfers answers with the truth.
LEMMA AsksTrue ==
    ASSUME venue \in VenueNames,
           GetBalances \/ GetPositions \/ GetWithdrawStatus \/ GetDeposits \/ GetFiatDeposits \/ GetDepositAddress
    PROVE  AnswersTrue'
<1>1. CASE GetBalances
  <2>1. PICK free \in 0..1, locked \in 0..1 :
          Ask("GetBalances", Balance(free, locked, free + locked), Wallet(free, locked), None)
    BY <1>1 DEF GetBalances, Wallet
  <2>2. PICK auth : \E e \in Envelopes("GetBalances", auth, Wallet(free, locked)) :
          Answer("GetBalances", Reads("GetBalances", e, None), Balance(free, locked, free + locked))
    BY <2>1, AskStep DEF AskKeeps
  <2>3. PICK e \in Envelopes("GetBalances", auth, Wallet(free, locked)) :
          Answer("GetBalances", Reads("GetBalances", e, None), Balance(free, locked, free + locked))
    BY <2>2
  <2>4. venue' = venue
    BY <1>1, OthersAsk
  <2>5. venue # "deribit" /\ reply'.value # Err => reply'.value = reply'.venue
    BY <2>3, AnswerFields, BalancesTrue
  <2>6. reply'.op = "GetBalances"
    BY <2>3, AnswerFields
  <2> QED  BY <2>4, <2>5, <2>6 DEF AnswersTrue
<1>2. CASE GetPositions
  <2>1. PICK n \in (IF venue = "coinbase" THEN {0} ELSE -1..1) : \E net \in BOOLEAN :
          Ask("GetPositions", Position(IF n < 0 THEN "SHORT" ELSE "LONG", Size(n)), Held(n, net), None)
    BY <1>2 DEF GetPositions, Held
  <2>2. PICK net \in BOOLEAN :
          Ask("GetPositions", Position(IF n < 0 THEN "SHORT" ELSE "LONG", Size(n)), Held(n, net), None)
    BY <2>1
  <2>3. PICK auth : \E e \in Envelopes("GetPositions", auth, Held(n, net)) :
          Answer("GetPositions", Reads("GetPositions", e, None),
                 Position(IF n < 0 THEN "SHORT" ELSE "LONG", Size(n)))
    BY <2>2, AskStep DEF AskKeeps
  <2>4. PICK e \in Envelopes("GetPositions", auth, Held(n, net)) :
          Answer("GetPositions", Reads("GetPositions", e, None),
                 Position(IF n < 0 THEN "SHORT" ELSE "LONG", Size(n)))
    BY <2>3
  <2>5. venue' = venue
    BY <1>2, OthersAsk
  <2>6. n \in -1..1 /\ (venue = "coinbase" => n = 0)
    OBVIOUS
  <2>7. venue # "deribit" /\ reply'.value # Err => reply'.value = reply'.venue
    BY <2>4, <2>6, AnswerFields, PositionsTrue
  <2>8. reply'.op = "GetPositions"
    BY <2>4, AnswerFields
  <2> QED  BY <2>5, <2>7, <2>8 DEF AnswersTrue
<1>3. CASE GetWithdrawStatus
  <2>1. PICK raw \in Transfers(DoneTransfer[venue]), listed \in BOOLEAN :
          Ask("GetWithdrawStatus", Means(raw, DoneTransfer[venue]), IF listed THEN raw ELSE None, None)
    BY <1>3 DEF GetWithdrawStatus
  <2>2. PICK auth : \E e \in Envelopes("GetWithdrawStatus", auth, IF listed THEN raw ELSE None) :
          Answer("GetWithdrawStatus", Reads("GetWithdrawStatus", e, None), Means(raw, DoneTransfer[venue]))
    BY <2>1, AskStep DEF AskKeeps
  <2>3. PICK e \in Envelopes("GetWithdrawStatus", auth, IF listed THEN raw ELSE None) :
          Answer("GetWithdrawStatus", Reads("GetWithdrawStatus", e, None), Means(raw, DoneTransfer[venue]))
    BY <2>2
  <2>4. reply'.value # Err => reply'.value \in {"PENDING", reply'.venue}
    BY <2>3, AnswerFields, WithdrawStatusTrue
  <2>5. reply'.op = "GetWithdrawStatus"
    BY <2>3, AnswerFields
  <2> QED  BY <2>4, <2>5 DEF AnswersTrue
<1>4. CASE GetDeposits \/ GetFiatDeposits
  <2>1. PICK raw \in Transfers(DoneDeposit[venue]), op \in {"GetDeposits", "GetFiatDeposits"} :
          /\ op = "GetFiatDeposits" => venue = "coinbase"
          /\ Ask(op, {Means(raw, DoneDeposit[venue])}, raw, None)
    BY <1>4 DEF GetDeposits, GetFiatDeposits
  <2>2. PICK auth : \E e \in Envelopes(op, auth, raw) :
          Answer(op, Reads(op, e, None), {Means(raw, DoneDeposit[venue])})
    BY <2>1, AskStep DEF AskKeeps
  <2>3. PICK e \in Envelopes(op, auth, raw) :
          Answer(op, Reads(op, e, None), {Means(raw, DoneDeposit[venue])})
    BY <2>2
  <2>4. reply'.value # Err => reply'.value \subseteq reply'.venue \cup {"PENDING"}
    BY <2>1, <2>3, AnswerFields, DepositsTrue
  <2>5. reply'.op = op
    BY <2>3, AnswerFields
  <2> QED  BY <2>4, <2>5 DEF AnswersTrue
<1>5. CASE GetDepositAddress
  <2>1. PICK chains \in {<<"arbitrum">>, <<"arbitrum", "optimism">>}, network \in {"arbitrum", "optimism"} :
          Ask("GetDepositAddress", network, chains, network)
    BY <1>5 DEF GetDepositAddress
  <2>2. reply'.op = "GetDepositAddress"
    BY <2>1, AskStep, AnswerFields DEF AskKeeps
  <2> QED  BY <2>2 DEF AnswersTrue
<1> QED  BY <1>1, <1>2, <1>3, <1>4, <1>5

LEMMA OrdersTrue ==
    ASSUME OrderInv, PlaceOrder \/ GetOrder
    PROVE  AnswersTrue'
<1>1. CASE PlaceOrder
  <2>1. \E value, held_ : Answer("PlaceOrder", value, held_)
    BY <1>1 DEF PlaceOrder, Replies, Answer
  <2>2. reply'.op = "PlaceOrder"
    BY <2>1, AnswerFields
  <2> QED  BY <2>2 DEF AnswersTrue
<1>2. CASE GetOrder
  <2>1. \E value, held_ : Answer("GetOrder", value, held_)
    BY <1>2 DEF GetOrder, Replies, Answer
  <2>2. reply'.op = "GetOrder"
    BY <2>1, AnswerFields
  <2> QED  BY <2>2 DEF AnswersTrue
<1> QED  BY <1>1, <1>2

LEMMA SettlesTrue ==
    ASSUME OrderInv, CancelOrder \/ Withdraw
    PROVE  AnswersTrue'
<1>1. venue' = venue /\ venue \in VenueNames
  BY DEF CancelOrder, Withdraw, OrderInv
<1>2. CASE CancelOrder
  <2>1. PICK auth \in Auth : \E e \in Envelopes("CancelOrder", auth, None) :
          Answer("CancelOrder", Reads("CancelOrder", e, None), Took(e, auth))
    BY <1>2 DEF CancelOrder, Replies, Answer
  <2>2. PICK e \in Envelopes("CancelOrder", auth, None) :
          Answer("CancelOrder", Reads("CancelOrder", e, None), Took(e, auth))
    BY <2>1
  <2>3. reply'.op = "CancelOrder" /\ reply'.venue = Took(e, auth)
        /\ reply'.value = Reads("CancelOrder", e, None)
    BY <2>2 DEF Answer
  <2>4. venue # "coinbase" /\ reply'.value # Err => reply'.venue
    BY <1>1, <2>3, CancelOrderTrue
  <2> QED  BY <1>1, <2>3, <2>4 DEF AnswersTrue
<1>3. CASE Withdraw
  <2>1. PICK auth \in Auth : \E e \in Envelopes("Withdraw", auth, None) :
          Answer("Withdraw", Reads("Withdraw", e, None), Took(e, auth))
    BY <1>3 DEF Withdraw, Replies, Answer
  <2>2. PICK e \in Envelopes("Withdraw", auth, None) :
          Answer("Withdraw", Reads("Withdraw", e, None), Took(e, auth))
    BY <2>1
  <2>3. reply'.op = "Withdraw" /\ reply'.venue = Took(e, auth)
        /\ reply'.value = Reads("Withdraw", e, None)
    BY <2>2 DEF Answer
  <2>4. reply'.value # Err => reply'.venue
    BY <1>1, <2>3, WithdrawTrue
  <2> QED  BY <2>3, <2>4 DEF AnswersTrue
<1> QED  BY <1>2, <1>3

LEMMA StepKeepsAnswers ==
    ASSUME OrderInv, AnswersTrue, [NextClients]_clientVars
    PROVE  AnswersTrue'
<1>1. CASE PlaceOrder \/ GetOrder
  BY <1>1, OrdersTrue
<1>2. CASE CancelOrder \/ Withdraw
  BY <1>2, SettlesTrue
<1>3. CASE GetBalances \/ GetPositions \/ GetWithdrawStatus \/ GetDeposits \/ GetFiatDeposits \/ GetDepositAddress
  BY <1>3, AsksTrue DEF OrderInv
<1>4. CASE Return
  BY <1>4 DEF Return, AnswersTrue
<1>5. CASE \/ NextRegistry /\ UNCHANGED <<venue, token, order, orders, reply, told>>
           \/ VenueFills \/ VenueEnds \/ TokenExpires \/ TokenRevoked \/ UNCHANGED clientVars
  <2>1. UNCHANGED <<venue, reply>>
    BY <1>5 DEF VenueFills, VenueEnds, TokenExpires, TokenRevoked, clientVars
  <2> QED  BY <2>1 DEF AnswersTrue
<1> QED  BY <1>1, <1>2, <1>3, <1>4, <1>5 DEF NextClients

(***************************************************************************)
(* A call of a client that reports no error tells the truth, for every     *)
(* venue and however requests and answers are lost: a withdrawal or a      *)
(* cancellation was taken, what is listed is what the account holds, a     *)
(* transfer said to have completed or failed has.                          *)
(***************************************************************************)
THEOREM AnswersTrueHolds == ClientsSpec => []AnswersTrue
<1>1. InitClients => OrderInv /\ AnswersTrue
  BY DEF InitClients, OrderInv, ToldInv, AnswersTrue
<1>2. OrderInv /\ AnswersTrue /\ [NextClients]_clientVars => (OrderInv /\ AnswersTrue)'
  BY StepKeepsOrderInv, StepKeepsAnswers
<1> QED  BY <1>1, <1>2, PTL DEF ClientsSpec
=============================================================================
