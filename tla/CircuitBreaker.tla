--------------------------- MODULE CircuitBreaker ---------------------------
(***************************************************************************)
(* The venue circuit breaker of the consensus engine                       *)
(* (src/internal/consensus/circuitbreaker.go) for one venue of one symbol. *)
(* Every consensus computation feeds the venue's deviation from the median *)
(* mid to UpdateVenueStatus, which moves the venue between                 *)
(*                                                                         *)
(*            deviation persists           hard deviation persists         *)
(*      OK ------------------------> WARN ------------------------> BLACK- *)
(*      ^ \________________________________________________________^ LISTED*)
(*      |        hard deviation      ^                               |     *)
(*      +----------- recovery -------+---------- TTL expires --------+     *)
(*                                                                         *)
(* Time is in abstract ticks of the wall clock.  A timer holds the time it *)
(* was started at and 0 when it is not running, as in the code, so the     *)
(* clock starts at 1.                                                      *)
(*                                                                         *)
(* The deviation in bps matters only through the two comparisons the       *)
(* handler makes first, which leave three classes of observation.          *)
(***************************************************************************)
EXTENDS Integers, VenueStates

CONSTANTS
    WarnPersistMs,       \* how long a deviation persists before WARN
    BlacklistPersistMs,  \* how long a hard deviation persists before BLACKLISTED
    BlacklistTtlMs,      \* how long a blacklisting lasts
    RecoveryMs,          \* how long a venue is clean before it leaves WARN
    MaxTime              \* bound of the clock, for model checking

ASSUME PolicyAssumption ==
    /\ WarnPersistMs \in Nat
    /\ BlacklistPersistMs \in Nat
    /\ BlacklistTtlMs \in Nat
    /\ RecoveryMs \in Nat
    /\ MaxTime \in Nat \ {0}

VenueStatus ==
    [state          : VenueState,
     outlierSince   : Nat,
     hardSince      : Nat,
     warnSince      : Nat,
     blacklistUntil : Nat,
     recoverySince  : Nat]

\* A status with no timer running: what the store returns for a venue it does
\* not know (state OK) and what restart recovery rebuilds from the cached
\* transition, which carries a state and, for a blacklisting, its end.
Fresh(state, until) ==
    [state |-> state, outlierSince |-> 0, hardSince |-> 0, warnSince |-> 0,
     blacklistUntil |-> until, recoverySince |-> 0]

-----------------------------------------------------------------------------
(* UpdateVenueStatus, one operator per branch of its switch. *)

\* A timer that is started unless it already runs.
Started(timer, now) == IF timer = 0 THEN now ELSE timer

Blacklisted(now) ==
    Fresh("BLACKLISTED", now + BlacklistTtlMs)

\* The branch that OK and WARN share.
OnHardOutlier(now, s) ==
    LET since == Started(s.hardSince, now)
    IN  IF now - since >= BlacklistPersistMs
        THEN Blacklisted(now)
        ELSE [s EXCEPT !.hardSince = since]

\* Mutant: a venue is cleared when its blacklisting ends.
FromBlacklisted_Cleared(now, s) ==
    IF now >= s.blacklistUntil THEN Fresh("OK", 0) ELSE s

FromBlacklisted(now, s) ==
    IF now >= s.blacklistUntil
    THEN [s EXCEPT !.state = "WARN", !.warnSince = now, !.recoverySince = now,
                   !.outlierSince = 0, !.hardSince = 0]
    ELSE s

\* Mutant: a clean observation leaves the timer of hard outliers running.
CleanInOK_HardKept(s) == [s EXCEPT !.outlierSince = 0]

CleanInOK(s) == [s EXCEPT !.outlierSince = 0, !.hardSince = 0]

OutlierInOK(now, s) ==
    LET since == Started(s.outlierSince, now)
        timed == [s EXCEPT !.hardSince = 0, !.outlierSince = since]
    IN  IF now - since >= WarnPersistMs
        THEN [timed EXCEPT !.state = "WARN", !.warnSince = now, !.recoverySince = 0]
        ELSE timed

\* The recovery period is measured from the first clean observation, or from
\* the end of a blacklisting whatever was observed then.
CleanInWarn(now, s) ==
    LET since == Started(s.recoverySince, now)
    IN  IF now - since >= RecoveryMs
        THEN Fresh("OK", s.blacklistUntil)
        ELSE [s EXCEPT !.recoverySince = since]

OutlierInWarn(s) == [s EXCEPT !.recoverySince = 0, !.hardSince = 0]

UpdateVenueStatus(now, s, dev) ==
    CASE s.state = "BLACKLISTED"                -> FromBlacklisted(now, s)
      [] s.state # "BLACKLISTED" /\ dev = "hard" -> OnHardOutlier(now, s)
      [] s.state = "OK" /\ dev = "outlier"      -> OutlierInOK(now, s)
      [] s.state = "OK" /\ dev = "clean"        -> CleanInOK(s)
      [] s.state = "WARN" /\ dev = "outlier"    -> OutlierInWarn(s)
      [] s.state = "WARN" /\ dev = "clean"      -> CleanInWarn(now, s)
=============================================================================
