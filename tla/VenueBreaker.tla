---------------------------- MODULE VenueBreaker ----------------------------
(***************************************************************************)
(* The life of one venue's status in the consensus engine: the status the  *)
(* store keeps in memory, the last transition the engine cached in Redis   *)
(* for restart recovery, and what a failed publish or a crash in between   *)
(* does to the two (src/cmd/consensus-engine/main.go,                      *)
(* src/internal/store/store.go, src/internal/eventbus/redis.go).           *)
(*                                                                         *)
(* The engine runs one loop: it computes, stores the new statuses, and     *)
(* then publishes the transitions one by one.  A crash can fall between.   *)
(***************************************************************************)
EXTENDS CircuitBreaker

VARIABLES
    now,       \* wall clock
    status,    \* the store's VenueStatus of the venue
    update,    \* a transition computed and stored, not published yet
    cache      \* the Redis key consensus:venue_state:*, the last one published

VARIABLES
    seen,           \* history: when the runs of like observations began
    blacklistedAt,  \* history: when the venue was last blacklisted, 0 if never
    lost            \* history: a transition was lost on its way to the cache

vars == <<now, status, update, cache, seen, blacklistedAt, lost>>

NoUpdate == [state |-> "none", until |-> 0]

\* A VenueStatusUpdate: the state and, for a blacklisting, TsMs + TtlMs.
Updates == [state : VenueState, until : Nat] \cup {NoUpdate}

\* The histories: since when every observation was hard, since when every
\* one deviated (0: the last one was not), and when the last mild one was made.
Seen == [hard : Nat, deviating : Nat, mild : Nat]
NothingSeen == [hard |-> 0, deviating |-> 0, mild |-> 0]

Run(start, continues) == IF continues THEN Started(start, now) ELSE 0

See(dev) ==
    [hard      |-> Run(seen.hard, dev = "hard"),
     deviating |-> Run(seen.deviating, dev # "clean"),
     mild      |-> IF dev = "outlier" THEN now ELSE seen.mild]

TypeOK ==
    /\ now \in Nat \ {0}
    /\ status \in VenueStatus
    /\ update \in Updates
    /\ cache \in Updates
    /\ seen \in Seen
    /\ blacklistedAt \in Nat
    /\ lost \in BOOLEAN

-----------------------------------------------------------------------------

Init ==
    /\ now = 1
    /\ status = Fresh("OK", 0)
    /\ update = NoUpdate
    /\ cache = NoUpdate
    /\ seen = NothingSeen
    /\ blacklistedAt = 0
    /\ lost = FALSE

\* The clock passes, whatever the engine is doing.
Tick ==
    /\ now < MaxTime
    /\ now' = now + 1
    /\ UNCHANGED <<status, update, cache, seen, blacklistedAt, lost>>

\* The VenueStatusUpdate Compute builds for a transition to s.
UpdateOf(s) ==
    [state |-> s.state,
     until |-> IF s.state = "BLACKLISTED" /\ BlacklistTtlMs > 0
               THEN now + BlacklistTtlMs ELSE 0]

\* One computation that includes the venue: Compute reads the status, advances
\* it, and the loop stores it; a transition is left to be published.
Observe(dev) ==
    LET next == UpdateVenueStatus(now, status, dev)
    IN  /\ update = NoUpdate
        /\ status' = next
        /\ update' = IF next.state # status.state THEN UpdateOf(next) ELSE NoUpdate
        /\ seen' = See(dev)
        /\ blacklistedAt' = IF next.state = "BLACKLISTED" /\ status.state # "BLACKLISTED"
                            THEN now ELSE blacklistedAt
        /\ UNCHANGED <<now, cache, lost>>

\* PublishStatusUpdate: XADD to the status stream, then SET of the cache key.
Publish ==
    /\ update # NoUpdate
    /\ cache' = update
    /\ update' = NoUpdate
    /\ UNCHANGED <<now, status, seen, blacklistedAt, lost>>

\* The XADD fails and the error is only logged, or the SET fails and its error
\* is ignored: the loop goes on and the transition is not cached.
PublishFails ==
    /\ update # NoUpdate
    /\ update' = NoUpdate
    /\ lost' = TRUE
    /\ UNCHANGED <<now, status, cache, seen, blacklistedAt>>

\* Mutant: recovery knows blacklistings only, a cached WARN is forgotten.
Restored_WarnForgotten(c) ==
    IF c.state # "BLACKLISTED" THEN Fresh("OK", 0) ELSE Fresh(c.state, c.until)

\* What restart recovery makes of a cached transition.
Restored(c) == IF c = NoUpdate THEN Fresh("OK", 0) ELSE Fresh(c.state, c.until)

\* The process dies, wherever it is, and starts again: the store is rebuilt
\* from the cache and every timer is forgotten.
Restart ==
    /\ status' = Restored(cache)
    /\ update' = NoUpdate
    /\ seen' = NothingSeen
    /\ lost' = (lost \/ update # NoUpdate)
    /\ UNCHANGED <<now, cache, blacklistedAt>>

\* The same with Redis failing the read: LoadVenueState returns nil, as it
\* does for a venue that never had a transition.
RestartBlind ==
    /\ status' = Restored(NoUpdate)
    /\ update' = NoUpdate
    /\ seen' = NothingSeen
    /\ lost' = TRUE
    /\ UNCHANGED <<now, cache, blacklistedAt>>

Next ==
    \/ Tick
    \/ \E dev \in Deviation : Observe(dev)
    \/ Publish
    \/ PublishFails
    \/ Restart
    \/ RestartBlind

Spec == Init /\ [][Next]_vars

-----------------------------------------------------------------------------
(* Properties. *)

\* A venue that is OK again after a blacklisting has been away for the whole
\* TTL and, after it, for the recovery period, across restarts too, as long as
\* no transition was lost on its way to the cache.
QuarantineServed ==
    (status.state = "OK" /\ blacklistedAt # 0 /\ ~lost)
        => now >= blacklistedAt + BlacklistTtlMs + RecoveryMs

\* With no lost transition, whatever was published is what memory holds: the
\* cache is enough to rebuild the state and the end of a blacklisting.
CacheAgrees ==
    (update = NoUpdate /\ ~lost)
        => /\ Restored(cache).state = status.state
           /\ status.state = "BLACKLISTED" /\ BlacklistTtlMs > 0
                => Restored(cache).blacklistUntil = status.blacklistUntil

\* A transition made on an observation, not by a restart, which forgets them.
Moves(from, to) == status.state = from /\ status'.state = to /\ seen' # NothingSeen

\* An OK venue is blacklisted only after every observation of a period of
\* BlacklistPersistMs was a hard outlier.
NoHastyBlacklist ==
    [][Moves("OK", "BLACKLISTED")
        => seen'.hard # 0 /\ now - seen'.hard >= BlacklistPersistMs]_vars

\* An OK venue is demoted to WARN only after every observation of a period of
\* WarnPersistMs deviated, mildly or hard.
NoHastyWarn ==
    [][Moves("OK", "WARN")
        => seen'.deviating # 0 /\ now - seen'.deviating >= WarnPersistMs]_vars

\* A venue leaves WARN for OK only when RecoveryMs went by without a mild
\* outlier (a hard one does not restart the recovery).
RecoveryExcludesMild ==
    [][Moves("WARN", "OK")
        => seen'.mild = 0 \/ now - seen'.mild >= RecoveryMs]_vars

\* Whatever the timers say, an observation moves a venue only where VenueStates, which
\* the consensus is computed under, lets it: no blacklisting ends in OK.
FollowsVenueStates ==
    [][status'.state # status.state /\ update' # NoUpdate
        => \E dev \in Deviation :
              seen' = See(dev) /\ status'.state \in StatesAfter(status.state, dev)]_vars
=============================================================================
