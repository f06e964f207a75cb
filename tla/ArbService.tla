----------------------------- MODULE ArbService -----------------------------
(***************************************************************************)
(* The loop of the arbitrage service                                       *)
(* (src/cmd/arb-opportunity-engine/main.go): a timer, if one is due, and   *)
(* then kill switch, mode, and a batch of consensus updates, evaluated and *)
(* published one after the other.  The operator and the risk service act   *)
(* between any two steps.                                                  *)
(***************************************************************************)
EXTENDS Arbitrage

CONSTANTS
    Updates,       \* what an update may say: [symbol, quality, book]
    BatchSize,     \* updates taken by one read
    BusFails,      \* calls to Redis may fail
    StartTime, MaxTime    \* bounds of the clock

\* The policy has a cooldown for every strategy and symbol, no symbol has the name of a
\* strategy, and a read takes as many updates as make up for a round of the timers.
ASSUME ArbAssumption ==
    /\ BatchSize \in Nat /\ BatchSize >= 2
    /\ StartTime \in Nat
    /\ Gap["basis"] \in Nat /\ Gap["cascade"] \in Nat /\ Gap["correlation"] \in Nat
    /\ \A u \in Updates :
          /\ u.symbol \notin {"basis", "cascade", "corr", "dexcex:buy", "dexcex:sell"}
          /\ Setting("cooldown", u.symbol) \in Nat

VARIABLES
    now,
    killed, riskMode,   \* kill:switch and risk:mode
    step, batch,        \* where the loop is, and the updates it has read
    update,             \* the one it processes
    outbox,             \* intents to be published
    sinceKill,          \* history variables: intents published since the kill switch was
    lastIntent,         \* set; when one with a key was, since the service started;
    crowded             \* one was published before its cooldown had passed

policy == enabled
switches == <<killed, riskMode>>
loop == <<step, batch, update, outbox>>
observed == <<sinceKill, lastIntent, crowded>>
arbVars == <<policy, now, switches, lastMs, trackers, loop, observed>>

\* What a read of a key may return: a failed call looks like an absent key.
KeyReads(value, absent) == IF BusFails THEN {value, absent} ELSE {value}

NoUpdate == [symbol |-> Tracked, quality |-> "LOW", book |-> <<>>, ts |-> 0]

ArbInit ==
    /\ now = StartTime /\ killed = FALSE /\ riskMode = "RUNNING"
    /\ enabled \in SUBSET {"basis", "cascade", "correlation", "dexcex"}
    /\ lastMs = <<>> /\ TrackersInit
    /\ step = "select" /\ batch = <<>> /\ update = NoUpdate /\ outbox = <<>>
    /\ sinceKill = 0 /\ lastIntent = <<>> /\ crowded = FALSE

-----------------------------------------------------------------------------
(* The timers: these look at the kill switch, and not at the mode.         *)

Emit(intents) ==
    /\ outbox' = intents /\ step' = "publishTimed"
    /\ lastMs' = Marked(intents, now)

BasisTimer ==
    /\ step = "select" /\ "basis" \in enabled /\ FALSE \in KeyReads(killed, FALSE)
    /\ \E intents \in EvaluateBasisTrades(now) : Emit(intents)
    /\ UNCHANGED <<policy, now, switches, trackers, batch, update, observed>>

\* The intents of DEX-CEX trades mark no cooldown.
StrategyTimer ==
    /\ step = "select" /\ FALSE \in KeyReads(killed, FALSE)
    /\ \E contrarian \in IF "cascade" \in enabled THEN EvaluateCascades(now) ELSE {<<>>},
          pairs \in IF "correlation" \in enabled THEN EvaluateCorrelationTrades(now) ELSE {<<>>},
          dex \in IF "dexcex" \in enabled THEN EvaluateDEXCEX(now) ELSE {<<>>} :
            /\ outbox' = contrarian \o pairs \o dex /\ step' = "publishTimed"
            /\ lastMs' = Marked(contrarian \o pairs, now)
            /\ lastEmit' = IF contrarian # <<>> THEN now ELSE lastEmit
    /\ UNCHANGED <<policy, now, switches, basisObs, midObs, oiKnown, pairObs, cexPrice,
                   batch, update, observed>>

\* No timer is due.
NoTimer ==
    /\ step = "select" /\ step' = "kill"
    /\ UNCHANGED <<policy, now, switches, lastMs, trackers, batch, update, outbox, observed>>

-----------------------------------------------------------------------------
(* The updates.                                                            *)

\* Mutant: the updates are read without a look at the kill switch.
CheckKill_Skipped ==
    /\ step = "kill" /\ step' = "mode"
    /\ UNCHANGED <<policy, now, switches, lastMs, trackers, batch, update, outbox, observed>>

CheckKill ==
    /\ step = "kill"
    /\ \E known \in KeyReads(killed, FALSE) : step' = IF known THEN "select" ELSE "mode"
    /\ UNCHANGED <<policy, now, switches, lastMs, trackers, batch, update, outbox, observed>>

CheckMode ==
    /\ step = "mode"
    /\ \E known \in KeyReads(riskMode, "RUNNING") : step' = IF known # "RUNNING" THEN "select" ELSE "read"
    /\ UNCHANGED <<policy, now, switches, lastMs, trackers, batch, update, outbox, observed>>

\* The read blocks for a while and returns what came; how long the loop takes to get to
\* it is left to Tick.
Dated == {[symbol |-> u.symbol, quality |-> u.quality, book |-> u.book, ts |-> now] : u \in Updates}

ReadConsensusUpdates ==
    /\ step = "read"
    /\ \E n \in 0..BatchSize : \E read \in [1..n -> Dated] :
          /\ batch' = read
          /\ step' = IF n = 0 THEN "select" ELSE "process"
    /\ UNCHANGED <<policy, now, switches, lastMs, trackers, update, outbox, observed>>

\* An intent cools down from when its update was made, whether or not it gets published.
ProcessUpdate ==
    /\ step = "process" /\ step' = "publish"
    /\ update' = Head(batch) /\ batch' = Tail(batch)
    /\ \E intents \in Process(Head(batch)) :
          /\ outbox' = intents
          /\ lastMs' = Marked(intents, Head(batch).ts)
    /\ RecordQuotes(Head(batch))
    /\ UNCHANGED <<policy, now, switches, observed>>

\* What a key is kept apart by.
Cooldown(key) ==
    CASE key[1] = "basis"   -> Gap["basis"]
      [] key[1] = "cascade" -> Gap["cascade"]
      [] key[1] = "corr"    -> Gap["correlation"]
      [] key[1] \in {"dexcex:buy", "dexcex:sell"} -> 0
      [] OTHER              -> Setting("cooldown", key[1])

Published(intent) ==
    /\ sinceKill' = IF killed THEN sinceKill + 1 ELSE 0
    /\ lastIntent' = [key \in {intent.key} \cup DOMAIN lastIntent |->
                        IF key = intent.key THEN intent.ts ELSE lastIntent[key]]
    /\ crowded' = (crowded \/ (/\ intent.key \in DOMAIN lastIntent
                               /\ intent.ts - lastIntent[intent.key] < Cooldown(intent.key)))

\* The next intent is published, or that fails, which is logged.
PublishTradeIntent ==
    /\ step \in {"publish", "publishTimed"} /\ outbox # <<>>
    /\ outbox' = Tail(outbox)
    /\ Published(Head(outbox)) \/ (BusFails /\ UNCHANGED observed)
    /\ UNCHANGED <<policy, now, switches, lastMs, trackers, step, batch, update>>

AllPublished ==
    /\ step \in {"publish", "publishTimed"} /\ outbox = <<>>
    /\ step' = IF step = "publishTimed" THEN "kill"
               ELSE IF batch = <<>> THEN "select" ELSE "process"
    /\ update' = NoUpdate
    /\ UNCHANGED <<policy, now, switches, lastMs, trackers, batch, outbox, observed>>

-----------------------------------------------------------------------------

\* The goroutines next to the loop.
Recording ==
    /\ RecordBasis \/ UpdateOI
    /\ UNCHANGED <<policy, now, switches, lastMs, loop, observed>>

Tick ==
    /\ now < MaxTime /\ now' = now + 1
    /\ UNCHANGED <<policy, switches, lastMs, trackers, loop, observed>>

SetKillSwitch(active) ==
    /\ killed' = active
    /\ sinceKill' = IF active THEN sinceKill ELSE 0
    /\ UNCHANGED <<policy, now, riskMode, lastMs, trackers, loop, lastIntent, crowded>>

PublishMode(wanted) ==
    /\ riskMode' = wanted
    /\ UNCHANGED <<policy, now, killed, lastMs, trackers, loop, observed>>

\* Cooldowns and observations are in memory only.
ServiceRestart ==
    /\ lastMs' = <<>>
    /\ basisObs' = 0 /\ midObs' = <<>> /\ oiKnown' = FALSE /\ lastEmit' = 0
    /\ pairObs' = <<0, 0>> /\ cexPrice' = NoPrice
    /\ step' = "select" /\ batch' = <<>> /\ update' = NoUpdate /\ outbox' = <<>>
    /\ lastIntent' = <<>>
    /\ UNCHANGED <<policy, now, switches, sinceKill, crowded>>

ArbNext ==
    \/ BasisTimer \/ StrategyTimer \/ NoTimer
    \/ CheckKill \/ CheckMode \/ ReadConsensusUpdates
    \/ ProcessUpdate \/ PublishTradeIntent \/ AllPublished
    \/ Recording \/ Tick
    \/ \E active \in BOOLEAN : SetKillSwitch(active)
    \/ \E wanted \in {"RUNNING", "PAUSED"} : PublishMode(wanted)
    \/ ServiceRestart

ArbSpec == ArbInit /\ [][ArbNext]_arbVars

-----------------------------------------------------------------------------

\* Once the kill switch is set, no more is published than came of the batch, or of the
\* timer, the loop had checked for ("Pauses opportunity detection",
\* docs/failure-modes.md:134).
KillSilences == killed => sinceKill <= 2 * BatchSize

\* While the service runs, two intents with one cooldown key are never closer than the
\* cooldown of their strategy and symbol.
IntentsSpaced == ~crowded

=============================================================================
