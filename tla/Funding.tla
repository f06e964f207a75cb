------------------------------ MODULE Funding ------------------------------
(***************************************************************************)
(* The funding engine: quotes, entries of the three strategies, the        *)
(* positions it reconstructs from fills, their exits                       *)
(* (src/internal/funding) and the loop around them                         *)
(* (src/cmd/funding-engine/main.go), for one symbol.                       *)
(*                                                                         *)
(* Rates, costs and thresholds are integers of one unit: the annualisation *)
(* is a factor.  What the forecaster and the volatility tracker say is     *)
(* arbitrary once a venue has been seen.                                   *)
(***************************************************************************)
EXTENDS Integers, SequencesExt

CONSTANTS
    Venues, Rates,
    Stage,                  \* of the symbol in the policy
    Overrides,              \* what the dashboard may set instead
    Cost,                   \* of a round trip, fees and slippage
    MinYieldHigh, MinYieldMed, MinDifferential,
    MaxNotional, Reduced,   \* before and after a gate or the conservative scale
    Cooldown, Period, NearWindow,     \* in ticks; Period between two funding resets
    RedisFails,             \* calls to Redis may fail
    MaxEntries, MaxIntents, MaxEvents, MaxRestarts   \* bounds

VARIABLES
    rate, seen, cooling, stage, signal,     \* the engine
    positions, forming,                     \* the position tracker
    step, todo,                             \* the loop
    killSwitch, mode, override,             \* keys in Redis
    intents, events,                        \* streams
    phase, due,                             \* the clock and the evaluation ticker
    entered,           \* entries published, as [strategy, legs, id]
    restarts

engine == <<rate, seen, cooling, stage, signal>>
tracker == <<positions, forming>>
loop == <<step, todo>>
redis == <<killSwitch, mode, override>>
streams == <<intents, events>>
clock == <<phase, due>>
fundingVars == <<engine, tracker, loop, redis, streams, clock, entered, restarts>>

Unset == "none"
Stages == {"OBSERVE", "PAPER", "CONSERVATIVE", "FULL"}
Leg(venue, market, buys) == [venue |-> venue, market |-> market, buys |-> buys]

\* A failed call looks like an absent key.
Reads(value, absent) == IF RedisFails THEN {value, absent} ELSE {value}

InitFunding ==
    /\ rate = [v \in Venues |-> 0] /\ seen = {} /\ cooling = <<>> /\ stage = Stage /\ signal = FALSE
    /\ positions = <<>> /\ forming = <<>>
    /\ step = "select" /\ todo = {}
    /\ killSwitch = FALSE /\ mode = "RUNNING" /\ override = Unset
    /\ intents = {} /\ events = <<>>
    /\ phase = 0 /\ due = FALSE
    /\ entered = {}
    /\ restarts = 0

-----------------------------------------------------------------------------
(* The engine. *)

\* A rate of zero is no rate; a change of sign asks for an evaluation of the exits, once.
Flipped(old, new) == old * new < 0

UpdateQuote(v, r) ==
    /\ step = "select" /\ ~due /\ ~signal
    /\ FALSE \in Reads(killSwitch, FALSE)
    /\ seen' = seen \cup {v}
    /\ rate' = IF r = 0 THEN rate ELSE [rate EXCEPT ![v] = r]
    /\ signal' = (signal \/ Flipped(rate[v], rate'[v]))
    /\ UNCHANGED <<cooling, stage, tracker, loop, redis, streams, clock, entered, restarts>>

NearReset == Period - phase < NearWindow

\* The lower threshold decides: a yield above the HIGH one has that for a threshold.
MinYield(net) == IF net >= MinYieldHigh THEN MinYieldHigh ELSE MinYieldMed
Worth(gross) == gross - Cost >= MinYield(gross - Cost)

Carry(v) == [strategy |-> "CARRY", venues |-> <<v>>,
             legs |-> {Leg(v, "SPOT", TRUE), Leg(v, "PERP", FALSE)}]
ReverseCarry(v) == [strategy |-> "REVERSE", venues |-> <<v>>,
                    legs |-> {Leg(v, "SPOT", FALSE), Leg(v, "PERP", TRUE)}]
Differential(long, short) ==
    [strategy |-> "DIFF", venues |-> <<long, short>>,
     legs |-> {Leg(long, "PERP", TRUE), Leg(short, "PERP", FALSE)}]

CarryEntries(volatile) == {Carry(v) : v \in {v \in seen \ volatile :
    rate[v] # 0 /\ Worth(rate[v])}}
ReverseEntries(volatile) == {ReverseCarry(v) : v \in {v \in seen \ volatile :
    rate[v] < 0 /\ Worth(-rate[v])}}
\* The venue with the lower rate is the long one.
DiffEntries(volatile) == {Differential(pair[1], pair[2]) : pair \in
    {p \in (seen \ volatile) \X (seen \ volatile) :
        /\ rate[p[1]] < rate[p[2]]
        /\ rate[p[2]] - rate[p[1]] >= MinDifferential
        /\ Worth(rate[p[2]] - rate[p[1]])}}

OnCooldown(key) == key \in DOMAIN cooling

\* What qualifies in this evaluation, by strategy and venues.
Entries(volatile) ==
    IF NearReset THEN {}
    ELSE {e \in CarryEntries(volatile) \cup ReverseEntries(volatile) \cup DiffEntries(volatile) :
             ~OnCooldown(<<e.strategy, e.venues>>)}

\* The volatility gate of either venue, and the conservative stage, reduce the notional.
Notional(entry, hot) ==
    IF stage = "CONSERVATIVE" \/ (\E k \in DOMAIN entry.venues : entry.venues[k] \in hot)
    THEN Reduced ELSE MaxNotional

Intent(entry, id, hot) ==
    [strategy |-> entry.strategy, venues |-> entry.venues, legs |-> entry.legs, id |-> id,
     notional |-> Notional(entry, hot), paper |-> stage = "PAPER", exit |-> FALSE]

\* In stage OBSERVE nothing is emitted and no cooldown begins.  Of more than MaxEntries the
\* model follows only so many.
Evaluate == \E volatile, hot \in SUBSET seen :
    LET qualified == IF stage = "OBSERVE" THEN {} ELSE Entries(volatile)
        spent == Cardinality(entered)
    IN  /\ step = "evaluate"
        /\ \E emitted \in kSubset(Min({Cardinality(qualified), MaxEntries - spent}), qualified) :
              /\ \E ids \in {f \in [emitted -> (1..MaxEntries) \ {e.id : e \in entered}] : IsInjective(f)} :
                    todo' = {Intent(e, ids[e], hot) : e \in emitted}
              /\ step' = IF emitted = {} THEN "exits" ELSE "entries"
              /\ cooling' = [k \in {<<e.strategy, e.venues>> : e \in emitted} |-> Cooldown] @@ cooling
        /\ UNCHANGED <<rate, seen, stage, signal, tracker, redis, streams, clock, entered, restarts>>

-----------------------------------------------------------------------------
(* The position tracker, fed by a goroutine of its own. *)

\* A map with an entry written.
Put(map, key, value) == [k \in DOMAIN map \cup {key} |-> IF k = key THEN value ELSE map[k]]

\* Carry fills, of both legs, add up under the strategy and the venue.
ProcessCarryEntry(ev) ==
    LET key == <<ev.strategy, <<ev.venue>>>> IN
    /\ positions' = IF key \in DOMAIN positions THEN [positions EXCEPT ![key] = @ + ev.notional]
                    ELSE Put(positions, key, ev.notional)
    /\ UNCHANGED forming

Reduce(key, filled) ==
    IF positions[key] <= filled THEN Restrict(positions, DOMAIN positions \ {key})
    ELSE [positions EXCEPT ![key] = @ - filled]

ProcessCarryExit(ev) ==
    LET key == <<ev.strategy, <<ev.venue>>>> IN
    /\ positions' = IF key \in DOMAIN positions THEN Reduce(key, ev.notional) ELSE positions
    /\ UNCHANGED forming

\* The first fill of a differential waits under the intent for the second.
Formed(ev) ==
    LET before == IF ev.id \in DOMAIN forming THEN forming[ev.id] ELSE [long |-> Unset, short |-> Unset]
    IN  IF ev.buys THEN [before EXCEPT !.long = ev.venue] ELSE [before EXCEPT !.short = ev.venue]

ProcessDiffEntry(ev) ==
    LET now == Formed(ev) IN
    IF Unset \in {now.long, now.short}
    THEN /\ forming' = Put(forming, ev.id, now)
         /\ UNCHANGED positions
    ELSE /\ forming' = Restrict(forming, DOMAIN forming \ {ev.id})
         /\ positions' = Put(positions, <<"DIFF", <<now.long, now.short>>>>, ev.notional)

\* An exit's fill reduces the first differential of its venue that the map yields; one that is
\* forming may come up, and has its notional forgotten with it.
ProcessDiffExit(ev) ==
    LET of(key) == key[1] = "DIFF" /\ ev.venue \in {key[2][1], key[2][2]}
        formingOf(id) == ev.venue \in {forming[id].long, forming[id].short}
    IN  \/ \E key \in {k \in DOMAIN positions : of(k)} :
              positions' = Reduce(key, ev.notional) /\ UNCHANGED forming
        \/ \E id \in {i \in DOMAIN forming : formingOf(i)} :
              forming' \in {forming, Restrict(forming, DOMAIN forming \ {id})} /\ UNCHANGED positions
        \/ /\ ~\E key \in DOMAIN positions : of(key)
           /\ ~\E id \in DOMAIN forming : formingOf(id)
           /\ UNCHANGED tracker

ProcessEvent ==
    /\ events # <<>> /\ events' = Tail(events)
    /\ LET ev == Head(events) IN
       IF ev.strategy = "DIFF"
       THEN IF ev.exit THEN ProcessDiffExit(ev) ELSE ProcessDiffEntry(ev)
       ELSE IF ev.exit THEN ProcessCarryExit(ev) ELSE ProcessCarryEntry(ev)
    /\ UNCHANGED <<engine, loop, redis, intents, clock, entered, restarts>>

-----------------------------------------------------------------------------
(* Exits.  The entry rate of a position is never recorded, so that a carry's check of an   *)
(* inverted rate never holds.                                                              *)

Undo(strategy, venues, legs, notional) ==
    [strategy |-> strategy, venues |-> venues, legs |-> legs, id |-> 0,
     notional |-> notional, paper |-> FALSE, exit |-> TRUE]

CarryExit_NoReset(v, notional, volatile, hot) ==
    IF v \in seen /\ v \in volatile \cup hot
    THEN {Undo("CARRY", <<v>>, {Leg(v, "SPOT", FALSE), Leg(v, "PERP", TRUE)}, notional)}
    ELSE {}

CarryExit(v, notional, volatile, hot) ==
    IF v \in seen /\ (v \in volatile \cup hot \/ (rate[v] < 0 /\ NearReset))
    THEN {Undo("CARRY", <<v>>, {Leg(v, "SPOT", FALSE), Leg(v, "PERP", TRUE)}, notional)}
    ELSE {}

ReverseCarryExit(v, notional, volatile, hot) ==
    IF v \in seen /\ v \in volatile \cup hot
    THEN {Undo("REVERSE", <<v>>, {Leg(v, "SPOT", TRUE), Leg(v, "PERP", FALSE)}, notional)}
    ELSE {}

DiffExit_Swapped(long, short, notional, volatile) ==
    IF {long, short} \subseteq seen /\ (rate[short] < rate[long] \/ {long, short} \cap volatile # {})
    THEN {Undo("DIFF", <<long, short>>, {Leg(long, "PERP", TRUE), Leg(short, "PERP", FALSE)}, notional)}
    ELSE {}

DiffExit(long, short, notional, volatile) ==
    IF {long, short} \subseteq seen /\ (rate[short] < rate[long] \/ {long, short} \cap volatile # {})
    THEN {Undo("DIFF", <<long, short>>, {Leg(long, "PERP", FALSE), Leg(short, "PERP", TRUE)}, notional)}
    ELSE {}

EvaluateExits == \E volatile, hot \in SUBSET seen :
    /\ step = "exits"
    /\ todo' = UNION {CASE key[1] = "CARRY" -> CarryExit(key[2][1], positions[key], volatile, hot)
                        [] key[1] = "REVERSE" -> ReverseCarryExit(key[2][1], positions[key], volatile, hot)
                        [] key[1] = "DIFF" -> DiffExit(key[2][1], key[2][2], positions[key], volatile)
                      : key \in DOMAIN positions}
    /\ step' = IF todo' = {} THEN "select" ELSE "unwind"
    /\ UNCHANGED <<engine, tracker, redis, streams, clock, entered, restarts>>

-----------------------------------------------------------------------------
(* The loop. *)

\* A change of sign was signalled: the mode is not looked at.
HeedSignal ==
    /\ step = "select" /\ signal /\ signal' = FALSE
    /\ \E killed \in Reads(killSwitch, FALSE) : step' = IF killed THEN "select" ELSE "exits"
    /\ UNCHANGED <<rate, seen, cooling, stage, tracker, todo, redis, streams, clock, entered, restarts>>

HeedTicker ==
    /\ step = "select" /\ due /\ due' = FALSE
    /\ \E killed \in Reads(killSwitch, FALSE) : step' = IF killed THEN "select" ELSE "mode"
    /\ UNCHANGED <<engine, tracker, todo, redis, streams, phase, entered, restarts>>

CheckMode ==
    /\ step = "mode"
    /\ \E seenMode \in Reads(mode, "RUNNING") :
          step' = IF seenMode = "RUNNING" THEN "stages" ELSE "select"
    /\ UNCHANGED <<engine, tracker, todo, redis, streams, clock, entered, restarts>>

\* Without an override in Redis the one set before stays.
ReadStages ==
    /\ step = "stages" /\ step' = "evaluate"
    /\ \E read \in Reads(override, Unset) : stage' = IF read = Unset THEN stage ELSE read
    /\ UNCHANGED <<rate, seen, cooling, signal, tracker, todo, redis, streams, clock, entered, restarts>>

\* One of the intents is published, or its publication fails and it is gone.  After the last
\* entry the exits follow, after the last exit the loop goes on.
Attempt(intent) ==
    /\ todo' = todo \ {intent}
    /\ step' = IF todo' # {} THEN step ELSE IF step = "entries" THEN "exits" ELSE "select"

Publish(intent) ==
    /\ Attempt(intent)
    /\ Cardinality(intents) < MaxIntents
    /\ intents' = intents \cup {intent}
    /\ IF intent.exit THEN UNCHANGED entered
       ELSE entered' = entered \cup {[id |-> intent.id, strategy |-> intent.strategy, legs |-> intent.legs]}
    /\ UNCHANGED <<engine, tracker, redis, events, clock, restarts>>

PublishFails(intent) ==
    /\ Attempt(intent)
    /\ UNCHANGED <<engine, tracker, redis, streams, clock, entered, restarts>>

Emit == \E intent \in todo : Publish(intent) \/ PublishFails(intent)

Loop == HeedSignal \/ HeedTicker \/ CheckMode \/ ReadStages \/ Evaluate \/ Emit \/ EvaluateExits

-----------------------------------------------------------------------------
(* Around it. *)

\* The operator and the risk service.
Control ==
    /\ \/ killSwitch' = ~killSwitch /\ UNCHANGED mode
       \/ mode' \in {"RUNNING", "PAUSED"} \ {mode} /\ UNCHANGED killSwitch
    /\ UNCHANGED <<engine, tracker, loop, override, streams, clock, entered, restarts>>

SetOverride ==
    /\ override' \in Overrides
    /\ UNCHANGED <<engine, tracker, loop, killSwitch, mode, streams, clock, entered, restarts>>

\* The loop takes less than a tick, and so do the allocator and the router.
TimePasses ==
    /\ step = "select" /\ ~due /\ ~signal /\ intents = {} /\ events = <<>>
    /\ phase' = (phase + 1) % Period /\ due' = TRUE
    /\ cooling' = [k \in {k \in DOMAIN cooling : cooling[k] > 1} |-> cooling[k] - 1]
    /\ UNCHANGED <<rate, seen, stage, signal, tracker, loop, redis, streams, entered, restarts>>

\* Allocator and router: the legs of an intent are filled in any order, some of them, or none.
Execute == \E intent \in intents, legs \in SUBSET UNION {i.legs : i \in intents} :
    /\ legs \subseteq intent.legs
    /\ intents' = intents \ {intent}
    /\ \E order \in SetToSeqs(legs) :
          events' = events \o [k \in DOMAIN order |->
              [strategy |-> intent.strategy, exit |-> intent.exit, id |-> intent.id,
               venue |-> order[k].venue, buys |-> order[k].buys, notional |-> intent.notional]]
    /\ Len(events') <= MaxEvents
    /\ UNCHANGED <<engine, tracker, loop, redis, clock, entered, restarts>>

\* Everything is in memory; the fills already acknowledged are not read again.
EngineRestarts ==
    /\ restarts < MaxRestarts /\ restarts' = restarts + 1
    /\ rate' = [v \in Venues |-> 0] /\ seen' = {} /\ cooling' = <<>> /\ stage' = Stage /\ signal' = FALSE
    /\ positions' = <<>> /\ forming' = <<>>
    /\ step' = "select" /\ todo' = {}
    /\ UNCHANGED <<redis, streams, clock, entered>>

NextFunding ==
    \/ \E v \in Venues : \E r \in Rates[v] : UpdateQuote(v, r)
    \/ Loop \/ ProcessEvent
    \/ Control \/ SetOverride \/ TimePasses \/ Execute \/ EngineRestarts

FundingSpec == InitFunding /\ [][NextFunding]_fundingVars

\* The loop, the tracker and the services behind go on, and so does time; the publication of
\* an exit tried again and again succeeds in the end.
FairSpec ==
    /\ FundingSpec /\ WF_fundingVars(Loop) /\ WF_fundingVars(ProcessEvent) /\ WF_fundingVars(Execute) /\ SF_fundingVars(TimePasses)
    /\ \A v \in Venues : SF_fundingVars(\E i \in todo : i.exit /\ i.venues = <<v>> /\ Publish(i))

-----------------------------------------------------------------------------

\* An exit intent trades the opposite of the legs of an entry intent, through the fills, the
\* tracker and the exit's own construction (src/internal/funding/exit.go).
ExitUndoesEntry == \A i \in {i \in intents : i.exit} : \E e \in entered :
    /\ e.strategy = i.strategy
    /\ i.legs = {Leg(l.venue, l.market, ~l.buys) : l \in e.legs}

\* While trading runs, a tracked carry that pays instead of collecting is left in the end, at
\* the latest near a funding reset (check 4 of evaluateCarryExit).
InvertedCarry(v) == <<"CARRY", <<v>>>> \in DOMAIN positions /\ rate[v] < 0 /\ ~killSwitch /\ mode = "RUNNING"
CarryLeft(v) == \E i \in intents : i.exit /\ i.strategy = "CARRY" /\ i.venues = <<v>>
InvertedCarryLeaves == \A v \in Venues : InvertedCarry(v) ~> CarryLeft(v) \/ ~InvertedCarry(v)

=============================================================================
