# The consensus engine, in TLA+

This directory models the parts of `consensus-engine` that decide: what price is
published, which venue may be trusted, what is traded and for how much, whether
anything may trade at all, what becomes of an order once it is sent, whether money
may leave, and what is recorded of it. The modules are translated from the Go
code; TLC checks them on small instances, and TLAPS proves most of the safety
properties TLC checks, and a few more, for every value of the constants.

Run from this directory, for example
`tlc -config MCKillSwitch.cfg MCKillSwitch` and `tlapm KillSwitchProofs.tla`.

## 1. The system

A set of Go services around one Redis. Streams carry quotes, intents, approvals
and fills; keys carry the operating mode, the operator's commands, the kill
switch and cached statuses. Each service is a loop: look at the kill switch and
the mode, read a batch, act on it.

```
venues -> market-data -> consensus-engine -> arb / funding / liquidity engines
             | market:open_interest               | trade:intents
             +-----------------------------> capital-allocator  <-- fills --+
                                                  | trade:intents:approved  |
                                                  v                         |
             venues <- exchange clients <- execution-router ----------------+
                                                  | execution:events
                                                  v
                                             risk-daemon ---> risk:mode, close intents
operator (dashboard) ---> kill:switch, risk:commanded_mode, config:funding:stages
treasury, operators ---> transfer-policy          all streams ---> ledger ---> tax reports
```

### Inventory

| Component | State | Operations | Correct when |
|---|---|---|---|
| market data adapters (`internal/marketdata`, `cmd/market-data`) | per venue: a connection, a quote built up from partial messages | connect, one handler per kind of message, publish, `publishStale` | both sides of a live quote come from the connection there is |
| consensus computation and service (`internal/consensus`, `internal/store`, `cmd/consensus-engine`) | latest quote and status per venue | `Compute`, upsert, stop check, publication | a blacklisted or old venue has no say; a dead market falls silent |
| circuit breaker (`circuitbreaker.go`) | OK / WARN / BLACKLISTED, five timers; the last transition cached in Redis | `UpdateVenueStatus`, `PublishStatusUpdate`, recovery at start | a venue is demoted only for a persistent deviation, and a blacklisting is served to its end and recovered from, restarts included |
| arbitrage engine, strategies, service (`internal/arb`, `cmd/arb-opportunity-engine`) | cooldowns, windows of observations, timers | `ProcessUpdate`, four trackers, the loop | intents keep their cooldown; a kill switch silences the loop |
| funding engine (`internal/funding`, `cmd/funding-engine`) | quotes, cooldowns, positions rebuilt from fills, stages | entries of three strategies, exits, tracker, loop | an exit undoes an entry; a carry that pays is left |
| capital allocator (`internal/allocator/engine.go`, `cmd/capital-allocator`) | notional deployed per strategy and venue, profit | `Evaluate`, `ReleaseNotional`, `RecordPnL`, the loop | caps of strategies, venues and the pool hold; what is in flight is counted |
| dynamic caps (`dynamic.go`) | fills, wins, recent profit | `RecordFill`, `DecayRecentPnL` | a strategy that loses is never given more |
| open interest (`oipoller.go`, `oigating.go`) | unread reports, the last report | four fetches, publish, `Update`, `LiquidityMultiplier` | only a recent depth sizes an order |
| risk engine (`internal/risk/daemon.go`) | mode, equity, event windows, blacklistings, incidents, playbooks | eight `Record`/`Tick` methods, `SetMode`, playbooks | the mode is never below what the readings demand; only people relax it |
| risk service (`cmd/risk-daemon`) | the above, `flattenActive` | ticks, flatten sequence, publication | a kill switch outlasts commands; a flatten goes on until positions are closed |
| execution router (`cmd/execution-router`) | the batch it read | mode, kill switch, read, execute | at most the batch it had checked for is executed after a stop |
| paper executor (`internal/execution/paper.go`) | positions in memory and Redis | `Execute`, `updatePosition` | the service halts only over closed positions |
| live executor (`internal/execution/live.go`) | fills of the day, the legs of one intent | `Execute`, `pollOrderStatus`, `emergencyUnwind` | what is recorded was traded; a leg without its hedge is unwound; the day's cap holds; every intent ends |
| exchange clients (`internal/exchange`) | a client per venue, credentials, Deribit's token | orders, account, transfers of five venues; `Get`, `Refresh` | an answer without error is about this order and true; one client at a time |
| transfer policy (`internal/transfer/policy.go`) | rolling history, pending transfers, hash of its file | `Check`, `Approve`, `DenyPending`, `ListPending` | four eyes, in time, for this request; the rolling limits hold |
| treasury (`internal/treasury`, `cmd/treasury`) | deposits seen, transfers under way | watch, convert, distribute, sweep | a share leaves approved and once; a stop stops it |
| ledger (`internal/ledger`, `cmd/ledger`) | positions in streams, rows | read, insert, acknowledge | a fill is counted once; the history of a market joins |
| UK tax reports (`internal/taxuk`) | acquisitions, disposals, the pool | same-day, 30-day, pool matching | the rules apply in their order; no cost is lost |
| liquidity engine, dashboard, shadow execution, on-chain services, keeper, yield router, DEX, L2 bridge, packages without a binary | see `PROJECT.json` | | not modelled, section 6 |

`PROJECT.json` lists every component with its files and the reason where it is
left out, and the hazards of the code with the properties that would catch them.

### What is hard here

- *Two looks at different times.* Every loop looks at the kill switch and the
  mode, then blocks on reads, then acts on a whole batch. The operator acts
  between any two calls to Redis.
- *Two records of one fact.* The mode and `flattenActive`; a status in memory and
  its cached transition; positions in memory, in Redis, and as the funding engine
  rebuilds them from fills; the order of the legs in an intent and the order in
  which they were sent; a row and the message it was made of.
- *What a crash forgets.* Messages are acknowledged when read; limits, timers,
  cooldowns, deposits seen and deployed notional are in memory.
- *What an error looks like.* A failed read of a key is the same as an absent
  key: not killed, RUNNING, no position. A venue may put an error into an answer
  of status 200, each in its own way.
- *Lost and late answers of venues.* An order exists although its placement
  failed; a cancelled order filled in the meantime.
- *Partial information.* A message that carries one side of a quote is merged
  with the other side of an earlier one, perhaps of an earlier connection.
- *Boundaries.* Rolling windows, persistence of zero, caps at equality, the
  rounding up to a venue's least order, the end of the 30-day window.

## 2. The modules

| Module | Models | Notes |
|---|---|---|
| `MarketData` | the six adapters: connection, partial messages, publication | best bid and ask, each tagged with the connection it came over |
| `Consensus` | reading, medians, outliers, trust, weighted mid, quality, publication | composed with `MarketData`; exact integers; status moves as `VenueStates` allows |
| `VenueStates` | which status may follow which | the abstraction both use: `VenueBreaker` is shown to follow it |
| `CircuitBreaker` | `UpdateVenueStatus`, one operator per branch | a deviation is one of three classes, the outcome of the handler's two comparisons |
| `VenueBreaker` | the life of one status: compute and store, publish (which may fail), crash anywhere, recovery from the cache or blind | history: when runs of observations began, whether a transition was lost |
| `Arbitrage` | one update to at most two intents, cooldowns; the basis, cascade, correlation and DEX-CEX trackers | prices in basis points off the mid; the statistics of a window are left open |
| `ArbService` | the loop: timers, checks, reads, publication, restarts | composes the above with the operator |
| `Funding` | quotes, entries, cooldowns, the tracker, exits, the loop | fills in any order and number |
| `Allocator` | the engine, what becomes of approved orders, and the fills of close intents | dollars and percent; deployed notional exact in hundredths of a dollar; history: what closing fills gave back |
| `DynamicAllocator`, `OpenInterest` | the two multipliers and what feeds them | in percent |
| `AllocatorLoop` | operator, risk service and the allocator's loop composed | history: approved since the switch was set |
| `Modes`, `ModeMachine` | the abstract promise of the risk engine: by itself it only escalates, and not past SAFE | what `RiskDaemon` implements |
| `RiskDaemon` | the risk engine, reading by reading; its seven rules one after the other | `Machine == INSTANCE ModeMachine` |
| `RiskService` | the risk service's loop with Redis between every two calls; the engine as its mode machine | extended by the next four |
| `ExecutionRouter` | the router's loop | extends `RiskService` |
| `KillSwitch` | operator, service and router composed | history: executed since the switch was set, since a stopped mode was published |
| `Flatten` | service, router and the paper executor's positions composed | prices constant: quantity and notional have one unit |
| `LiveExecutor` | one intent after the other with the venues its orders go to | price 1; what a venue did and what the executor learnt are different variables |
| `ExchangeRegistry`, `ExchangeClients` | the registry with its callers; every call of the five clients, and the venue behind it | an answer is an envelope: HTTP, error in the body, data |
| `TransferPolicy` | the policy engine | history: every approval given |
| `Payout`, `Treasury` | what the treasury promises of a deposit; the watcher and the sweeper | `Promise == INSTANCE Payout WITH known <- DOMAIN seen`; both count the shares sent; history: on what answer of the policy a share left |
| `Ledger`, `TaxMatching` | the copying of streams into rows; the matching of disposals | one pair, or one trade of the pool, per step; over all small sequences of trades |

`MC*` modules and configurations give the constants values; where one run checks
several components, a variable `part` says which one a behaviour is about.
`*Proofs` modules hold the theorems. A definition with a suffix after an
underscore, such as `TickKill_Forgotten`, is the definition of that name with a
plausible bug: the property the bug breaks is listed in `PROJECT.json` under
`mutants`.

### How state and actions correspond

*MarketData, Consensus.* `quotes` holds each adapter's partial quote, `up` the venues
connected. `After` is the handler of a message: one operator per venue, by kind
of message. `Breaks`, `ReadFails` and `AnswerFails` are the ways a connection
ends; `publishStale` is part of them. `store` is the engine's `StateStore`;
`ReadMarketUpdates`, `CheckStopped`, `Compute` are the steps of its loop, and
`ComputeTrust`, `WeightedMid`, `QualityScore` the functions of `Compute`. A
status moves by any move of `VenueStates`, since the persistence of a deviation is
`VenueBreaker`'s matter.

*VenueBreaker.* `status` is `store.StateStore`'s entry, `update` the transition
between `SetStatus` and `PublishStatusUpdate`, `cache` the key
`consensus:venue_state:*`. `Observe` is one computation and the store's update;
`Publish` and `PublishFails` the call that follows; `Restart` the recovery in
`main`. The clock moves between any two.

*Arbitrage, ArbService.* `step` goes through the body of `main`'s
loop: a timer's strategy, the kill switch, the mode, the read, one update after the
other, one publication after the other. A cooldown is marked in `ProcessUpdate`,
before the publication, as in the code.

*Funding.* `todo` is what `Evaluate` or `EvaluateExits` returned and the loop has
not published; `events` what was executed and the tracker, a goroutine of its own,
has not processed; `positions` what the tracker believes. `Execute` is everything
behind the intents: any subset of legs, in any order.

*Allocator.* `Evaluate` is the whole method when it approves, `Fill` the loop
body over the legs of a fill, `CloseFill` the same for the fill of a close intent,
which the risk service sends past the allocator and the allocator takes for one of
its own, `Drop` an order whose fill never comes. Mode, quality and multipliers are
inputs, since the bus answers them each time.

*OpenInterest.* A poll is one action: request, answer, parse and publication.
Reports in the stream and in the tracker carry the age of their poll.

*RiskDaemon.* One action per method; each changes a reading and evaluates, as
the code does under one lock. `SafeRules` and `PausedRules` are the rules of
`evaluate` in their order, each with its rank test (`Raise`) on the mode the rules
before it left. `forced` and `overridden` remember that a mode was
set by hand.

*RiskService, ExecutionRouter, AllocatorLoop.* `step`, `routerStep` and
`loopStep` are program counters; one action per call to Redis. `Reads(value,
absent)` is what a read may return, and with `RedisFails` it may return the
absence of the key. What an evaluation may demand of the mode (`Demand`) is what
`ModeMachine` allows, which is sound because `RiskDaemon` implements it.

*Flatten.* `held` and `stored` are the executor's positions and its keys.
`FlattenPositions` is `FlattenOpenPositions`, `CountPositions`
`OpenPositionCount`.

*LiveExecutor.* `pc` follows `Execute`: the checks before a leg, an attempt, the
poll, the judgement, the unwind. `Fill` and `VenueCancels` are the venue, at any
time. `PlaceOrderError` covers a refused order and a lost answer. The order of
the legs is a free choice, as it depends on depths the venues report.

*ExchangeClients.* `order` and `orders` are the orders at the venue in the venue's own words,
`reply` what the caller got of the last call, `told` the final state it was told.
One action per method of the interface; an operator per client says what it makes
of an envelope. An order has the sum of its fills and the last of them (`last`),
which is what OKX's client reads.

*TransferPolicy.* One mutex makes each call one action. `CheckDenied`,
`CheckHeld`, `CheckApproved` are the three ends of `Check`; pruning happens
inside. `EditFile` is anybody changing the policy file.

*Treasury.* `watch` and `sweep` are the program counters of the two goroutines;
`seen` is `LastSeen`, pruned after a day and empty after a restart. The policy is
its answers, the status of an answer that has none (`""`) included; `MustApprove` is
what the client makes of them.

*Ledger, TaxMatching.* `PersistRecord` and `PersistStatus` insert what was read,
or fail to, and `Ack` acknowledges it in either case. `SameDay`, `ThirtyDay` and
`Section104` are the three passes of the matcher over the sorted trades: the first
two take the pairs of a disposal and an acquisition in the order of the two loops,
the third the trades in theirs, one a step; `turn` holds the counters.

## 3. The runs

Ten pass, two show that something the repository says is not so.

| Run | Question | Bounds, and why they suffice |
|---|---|---|
| `venues` | is a demotion earned and a blacklisting served, across crashes? is an answer true, a final state final, and the client one? | two parts. Status: clock 12 with persistences 1 and 2, recovery 2, TTL 3: two full cycles of demotion, blacklisting and recovery. Client: each of the five with every envelope; orders of at most two lots, filled at once or one by one, two orders, two callers, one edit of the credentials |
| `market` | is the mid made of what is live and trusted, and does a dead feed fall silent? | each venue alone with a connection that breaks, since adapters share nothing, and three venues together, for an outlier needs two others; two tops, one of them far off and wide, and one-sided ones |
| `intents` | do the caps hold whatever is filled, lost and restarted, and does the kill switch stop approvals? | four parts. Engine: two strategies and an exit over two venues whose caps bind one another, with intents whose legs are on two venues, on one, and single; partial, exact and excessive fills, and the fill of a close intent; three approvals. Strategy: ten fills, past the cold start and every threshold of the win rate. Interest: depths in three of the ranges, a stream of two. Loop: batches of two, so that a batch outlives its check |
| `allocator_stuck` | "Capital allocator will approve or reject"? | violated, section 4 |
| `funding` | do exits undo entries, and is a carry that pays left? | two venues, one of whose rates changes sign; one entry, one intent and two events under way: enough for a fill to be processed late, twice or after a restart |
| `risk_daemon` | is the mode what the readings demand, and is the engine a mode machine? | one venue (thresholds are counts, a threshold of one needs one), two ticks, one event per window |
| `kill_switch` | what happens after a stop, does it arrive, and what is true when the service halts itself? | batches of two, so that a batch outlives its check; one restart; for the flatten one position, two trades, partial fills |
| `live` | are fills, unwinds and the daily cap right, and does every intent end? | a hedged intent and a single leg, one retry, two ticks; one venue with a least notional, the other with a least quantity; the daily window is the current tick |
| `transfer_policy` | four eyes, fresh sign-offs, rolling limits? | one id, three people, amounts on both sides of the dual threshold, a day of one tick and three ticks: every window opens and closes; one route within the gates and one refused by each |
| `unread_answer` | does `MustApprove` return "an error if the transfer is not approved"? | violated, section 4 |
| `services` | do shares leave asked for and once, are intents kept apart, and does a stop stop both services? | two parts. Treasury: two deposits, one in a currency to convert, two venues, amounts above and below the least one, a day that passes, one restart. Arbitrage: two symbols, four venues, so that two pairs may trade at once, and four ticks with cooldowns of one and two |
| `records` | is a fill counted once, does a history join, are disposals matched by the rules? | two orders, one with an id the database refuses, and two markets with three updates; all sequences of up to five trades on four days with a window of two, so that every rule can apply to one disposal and two disposals want one acquisition |

Deadlock is checked everywhere but in `records`, where a tax report ends once the
disposals are listed: in each other model there is always an operator, a clock, a
venue or a restart that can act, as there is in the system.

The runs of `kill_switch`, `intents`, `funding` and `services` have `RedisFails =
FALSE`. With failing reads a kill switch is not seen, and `ExecutionStops` does not
hold, nor does it of the code. What does hold then, that the service does not run
under a switch it saw and that only the operator relaxes the mode, is proved for
either value.

### What each property says

- `QuarantineServed`: a venue that is OK again after a blacklisting was away for
  the TTL and the recovery, across restarts, unless a transition was lost on its
  way to the cache. `NoHastyBlacklist`: blacklisted only after an unbroken run of
  deviating observations as long as configured. `FollowsVenueStates`: the breaker
  moves only as the consensus computation supposes.
- `BlacklistedHaveNoSay`: the published mid lies between those of live venues that
  are not blacklisted. `OneConnection`: the two sides of a live quote came over the
  present connection. `LostFeedsSilence`: when all feeds are lost for good, the
  engine stops publishing, although each loss republishes the last quote as new.
- `KillSilences`, `ApprovalStops`, `ExecutionStops`: after the kill switch at most
  what the loop had checked for is published, approved, executed. `IntentsSpaced`:
  intents of one key keep their cooldown while the service runs.
- `StrategyWithinCap`: the cap. `OneLegPastCap`: each leg is compared with what its
  venue had before the intent, so a carry, whose legs are on one venue, may exceed
  the venue's cap; it does so by one leg at most, and nothing is added to the excess.
  `CoversInflight`: never less is counted than is on its way, but for what fills of
  close intents took off. `FillsMoveCapTheirWay`: after the cold start, a
  fill that earned never shrinks a cap and one that did not never grows it.
  `SizedByRecentDepth`: neither an error, nor a backlog, nor a restart sizes an order.
- `ExitUndoesEntry`: the legs of an exit are those of an entry reversed, through
  fills, tracker and construction. `InvertedCarryLeaves`: a carry that pays is left.
- `NotBelowRisk`: unless set by hand, the mode is at least what the readings
  demand. `PlaybooksCarriedOut`: an active playbook finds its mode in force.
  `ImplementsModeMachine`: the refinement.
- `OnlyOperatorRelaxes`: severity falls by command or restart only. `StopReaches`: a
  stop that stays reaches the router. `HaltsClosed`: the service halts itself only
  over positions whose quantity is 0, although it counts those with a notional.
- `RecordedIsReal`: what the executor records was traded at least to that amount.
  `AbandonedLegsUnwound`: a leg left alone is unwound, or reported as not, or its
  hedge was too small to send. `DailyWithinCap`: the recorded fills of a day stay
  within the cap, but for what least orders add to the legs of the last intent, a
  hedge of a raised leg included. `EveryIntentEnds`.
- `FinalIsFinal`: an order reported final is over at the venue, filled whole exactly
  if FILLED was said, and with the fill that was said; on OKX with at least that. `AnswersTrue`: an answer without error is the venue's, but for the
  departures below, which it names. `OneClient`: the callers of a process share
  one client per venue, made once.
- `SignedOff`: enough people, in time, never the requester. `SignaturesAreFresh`:
  asking again under an id starts without sign-offs. `AutoApprovalsWithinLimits`: an
  automatic approval keeps the rolling day within both limits, counting all
  approvals.
- `SharesNotRefused`: a share leaves only after the policy was asked for it and
  neither denied nor held it. `ImplementsPayout`: the refinement; shares are counted,
  and no venue is sent its share twice while the deposit is remembered.
  `TransfersStop`: a round that began halted moves nothing.
- `FillsCountedOnce`: a fill has one row at most. `HistoryJoins`: each row of a
  market's history begins where the one before ended. `MatchedInOrder`: nothing is
  left that an earlier rule should have matched. `CostsAddUp`: every pound is once
  in a disposal or in the pool.

### Fairness

- `KillSwitch`: the service's `select` picks a ready timer at random, so a tick and
  a publication recur however often something else is ready: strong fairness.
  Once a tick began it runs to its end, since every call to Redis returns, and so
  does the router's loop: weak fairness.
- `AllocatorLoop`: weak fairness of the loop and of the router. `ReadFills` is not
  enabled while it waits for a fill, which is what the run shows.
- `Consensus`: the loop, the reader of updates and the clock go on: weak fairness. A
  connection may come back or not.
- `Funding`: weak fairness of the loop, the tracker and what executes; strong
  fairness of a publication, which is tried again each evaluation and may fail any
  number of times, but not for ever, and of the clock.
- `LiveExecutor`: weak fairness of `Step`. Every call has a timeout and every loop
  a counter. Nothing is assumed of the venues, of the clock or of restarts.

## 4. Findings

`allocator_stuck`: with a fills stream, as configured, `ReadFills` waits without end
for a fill (block time 0) before intents are read, and without approvals there is no
fill (`internal/eventbus/allocator.go:67`). "Capital allocator will approve or
reject", says the dashboard of a submitted intent
(`internal/dashboard/gateway.go:693`). The run's specification, `LoopFairSpec`, has no
restarts: the loop and the router are fair, and wait.

`unread_answer`: `MustApprove` "returns an error if the transfer is not approved"
(`internal/transfer/client.go:72`), but it does so for DENIED and PENDING_APPROVAL
only (`:74`), and `checkOnce` does not look at the HTTP status (`:58`): the policy's
answer to a request it cannot parse (`cmd/transfer-policy/main.go:43`) has no status,
and the withdrawal is sent.

### Departures

Places where the code and what is said of it differ, or where it does less than
one would suppose, met while reading. The models have the code's behaviour where
they have the part, and the properties above say what remains true. No run is
spent on them.

*Market data and consensus.* `publishStale` stamps the last quote as new, and no
reader looks at `WsConnected`, although "downstream staleness filters" are to fire
(`binance.go:140`); it asks for a bid only, so a quote may be one-sided and its mid
half. The count of reconnections is never reset. A consensus without a price is
not published (`cmd/consensus-engine/main.go:166`), so the last quality stands
until it expires, against `docs/schemas/events.md:37`. Messages that do not parse
are never acknowledged. The liquidity engine reads the quality under a key without
the tenant (`cmd/liquidity-engine/main.go:145`): always LOW. The router reads
updates in a group it did not create (`eventbus/execution.go:80`), so it caches
no price.

*Breaker.* The hard timer survives clean observations in WARN, so a later hard
outlier blacklists at once (`circuitbreaker.go:73`, against
`circuitbreaker_test.go:40`). Hard outliers do not restart a recovery
(`circuitbreaker.go:64`, against `circuitbreaker_test.go:72`). A crash between
`SetStatus` and `PublishStatusUpdate` loses a transition
(`cmd/consensus-engine/main.go:164`).

*Arbitrage.* The timers' strategies look at the kill switch and not at the mode,
although PAUSED means "No new intents" (`docs/failure-modes.md:20`).
`VenueMetricsToQuote` leaves the time at 0, so cascades are never detected and
DEX-CEX quotes always stale; a cascade compares no open interest although
`configs/policies/arb_engine.yaml` says so. A cooldown is marked before the
publication and lost at a restart; basis trades repeat on old observations.

*Funding.* `UpdateEntryRate` is never called, so FUNDING_INVERTED never fires
(`exit.go:82`); a carry is left near a reset only. Both legs of a carry fill add up,
so its exit is twice the position (`positions.go:66`). Exits have no cooldown and
repeat until they fill. A failed publication has started the cooldown. Stages once
overridden are never cleared. The tracker is empty after a restart.

*Allocator.* Two legs of one intent on one venue are each compared with the cap,
not together (`engine.go:122`), as all carries and basis trades have them. The fill
of a close intent releases capital it was never counted for
(`cmd/capital-allocator/main.go:148`). An approved intent that expires stays deployed
(`engine.go:205`). The open-interest multiplier is applied after the caps, so 150%
exceeds them where Kelly does not shrink it (`engine.go:172`), and it is the first
leg's venue's only. Venues publish contracts of different sizes against one
baseline. Opening fills release the cap (`cmd/capital-allocator/main.go:157`). A
strategy with a loss and 40% wins is not cut (`dynamic.go:91`).

*Risk engine.* The volatility playbook's mode is never set (`daemon.go:375`).
Playbooks resolve by age whether or not the incident is over (`daemon.go:434`). No
rule sets FLATTEN (`daemon.go:227`, `docs/failure-modes.md:22`). The service
records fills with a profit of 0, so drawdown is always 0 in production
(`cmd/risk-daemon/main.go:165`).

*Control.* A failed read is "not killed" and "RUNNING" (`eventbus/client.go:100`). A
command written between its read and its clearing is lost (`cmd/risk-daemon/main.go:84`).
RUNNING leaves HALTED (`:86`). A service commanded out of FLATTEN goes on
flattening and then halts (`:108`). A flatten does not end by trading: the router
does not read in FLATTEN, close intents included
(`cmd/execution-router/main.go:143`); it ends when the counted positions are 0.
Close intents always sell, and all that was ever traded (`eventbus/risk.go:173`,
`paper.go:287`). Restarted, the executor overwrites stored positions (`paper.go:283`).
The live executor writes no positions, so a FLATTEN in live mode halts at once.

*Live executor.* The idempotency key is new at each attempt and the retry is for
the whole quantity, so a lost answer, or a cancel that came too late, trades a leg
twice (`live.go:301`, against the comment at `:299`). `emergencyUnwind` takes the
side from `intent.Legs[legIdx]` while the legs were reordered by depth: the unwind
may repeat the leg (`live.go:556`, against `:526`). A second leg below the venue's
minimum leaves the first one open, without an event (`live.go:246`; the comment at
`:77` promises an unwind). A limit order found partially filled is accepted and not
cancelled (`live.go:327`). A crash between the legs leaves the first open.

*Exchange clients.* Several calls do not look for an error in the body: Bybit's,
OKX's and Deribit's `GetWithdrawStatus` and `GetDeposits`, Coinbase's batch cancel.
OKX's `GetOrder` reads `fillSz`, the size of the last fill (`okx.go:158`): an order
filled in parts is reported with less than it traded. Deribit's listings pass over a currency that failed. Coinbase's market order is
sized in quote currency and never reduces only; its withdrawals stay PENDING. OKX
falls back to another network's address (`exchange.go:38`). A raw status no table
has is passed on. Credentials are stored before the factory rejects them;
`Refresh` has no caller.

*Transfer.* `Approve` looks neither at the velocity limits (`policy.go:249`,
`config.go:27`) nor at the file's hash (`config.go:14`). History is in memory only
(`policy.go:40`): a restart begins a new day. An entry's cap is unused without a
global one (`policy.go:80`).

*Treasury.* Deposits seen are forgotten after a day and at a restart, and are
distributed again if the venue still lists them. A sweep comes back as a deposit. A
deposit whose conversion failed is never distributed (`treasury/engine.go:112`). The
kill switch and the mode are looked at once a round, not between its withdrawals
(`treasury/engine.go:342`).

*Ledger and tax.* Tax exports filter on a column `orders` does not have
(`writer.go:372`, `schema.go:15`), and take ORDER_FILLED only. Ids that are no UUID,
such as those of close intents (`eventbus/risk.go:186`), are refused and lost.
`WriteIntent`, "approved", keeps whichever came first, raw as a rule.
`docs/schemas/events.md:22` lists streams the ledger does not read. `FillsCountedOnce`
rests on each fill being published once: an XADD whose answer is lost and that the
Redis client sends again is two messages, and no row has a key to tell them by.

*Dashboard.* Stage edits are not transactional (`dashboard/store.go:187`). Redis is
deployed with `allkeys-lru` (`docker-compose.yaml:26`): any key may be evicted.

## 5. The proofs

Every theorem holds for all values of the constants that satisfy the named
assumption of its module, and none uses the bounds.

| Module | Theorems | Argument |
|---|---|---|
| `VenueProofs` | of the circuit breaker: `TypeCorrect`, `QuarantineServedHolds`, `CacheAgreesHolds`, `NoHastyBlacklistHolds`, `NoHastyWarnHolds`, `RecoveryExcludesMildHolds`, `FollowsVenueStatesHolds` | `IInv`: timers are in the past and, in OK, not older than the run they time (`TimersFollowRuns`); a blacklisting's end and the recovery after it are tracked through WARN (`QuarantineTerm`); the cache, or the transition on its way to it, restores the state (`LastAgrees`). `QuarantineServed` alone is not inductive: it says nothing of WARN, through which a venue returns. `FollowsVenueStatesHolds`: an observation moves a venue only where `VenueStates`, which `Consensus` computes under, lets it (`UpdateFollows`), for every policy. |
| | of the exchange clients: `FinalIsFinalHolds`, `AnswersTrueHolds` | `OrderInv`: the order at the venue is in a state that is open there while it is open, and after that in the one that tells whether all of it was filled (`InState`), and what was told is what it came to, or on OKX the last of its fills (`ToldInv`). An answer carries data, and the venue did what was asked, only if the exchange went well and there is no error in the body (`GoodEnvelope`); then, client by client, the table of states maps no open state to a final one (`ReportsFinal`). `FinalIsFinal` alone is not inductive: it says nothing of an order that nothing final was told of yet. `AnswersTrue` needs no invariant but the venue's name: every call is shown by itself (`BalancesTrue`, `PositionsTrue`, `WithdrawStatusTrue`, `DepositsTrue`, ...). Of the empty answer (`None`) it assumes that it is no wallet and no state of a transfer (`NothingAssumption`). |
| `TransferFundingProofs` | of the transfer policy: `TypeCorrect`, `SignedOffHolds`, `SignaturesAreFreshHolds`, `AutoApprovalsWithinLimitsHolds` | `IInv`: what is pending asks for the sign-offs its amount needs and was not signed by its requester (`PendingSound`); a grant inherits it. For the rolling limits, `LimitInv`: the records the engine counts are the last of the approvals given, in their order, and every one before them is older than a day (`Tracked`): pruning drops no more. So what `checkVelocity` sums is what the day of the property sums. |
| | of the funding engine: `ExitUndoesEntryHolds` | `FundingInv`: every entry that was published has an id of its own and the legs of its strategy (`EnteredOK`), and what follows from it is traced back to it: its fills (`EventsOK`), a half of a differential that waits for the other (`FormingOK`: the two halves of one id are of one differential, `HalvesMatch`) and the tracked position (`PositionsOK`), from which the exit is built. The property alone says nothing of the fills and the tracker, which is where the legs are lost and found again. |
| `AllocatorProofs` | `TypeCorrect`, `StrategyCapHolds`, `VenueCapHolds`, `CoversInflightHolds`, `ApprovalStopsHolds`, `InterestTypeCorrect`, `SizedByRecentDepthHolds`, `FillsMoveCapHolds` | an approval is at a scale that fits (`ScaleFits`, from the choice of the largest one) and nothing sizes it up (`ApprovedFits`). The premise of the two, `NeverUpsized`, excludes the departure at `engine.go:172`: without it the caps are exceeded. `VenueCapHolds` is of all intents: before an approval each leg fits what its venue had (`ApprovalPastCap`), so a single leg keeps the cap, and two on one venue exceed it by less than either; a venue past its cap admits no further leg. `CoversInflightHolds` has no premise: `CoverInv` has the shares of the orders in flight add up to no more than is deployed, and says that these are finitely many with ids of their own, so that an approval adds one share and a fill takes one away (`SharesGrow`, `SharesShrink`); a fill gives back no more than the order's share (`FilledLess`), rounding included, and the fill of a close intent no more than `closed` gains (`CloseCovers`). `ApprovalStopsHolds`, of the loop: what was granted since the switch was set and what the loop still holds of its batch fit one batch (`OneBatch`), something is in hand exactly between the read and the last decision, and a loop about to read has granted nothing since; it assumes that Redis answers. Of the open interest, `InterestInductive`: every report, in the stream or in the tracker, is at least as old as what the venue told of its depth. Only an answer that tells the depth makes a report (`RefusalsTellNothing`, venue by venue), and ageing keeps the order of ages (`OlderKeeps`). The property alone says nothing of the stream. `FillsMoveCapHolds`: a better record is in no lower band of the win rate (`BetterRecord`), the multiplier keeps to the bounds of its band (`Bands`), and within a band quotients are in the order of their fractions (`QuotientsInOrder`). |
| `EngineProofs` | of the risk engine: `Implements`, `TypeCorrect`, `NotBelowRiskHolds`, `PlaybooksCarriedOutHolds` | every step is a step or a stutter of `ModeMachine`: whatever the readings, the rules one after the other leave the mode at the more severe of what it was and what they demand, and never past SAFE (`RulesDemand`); time passing only lowers what is demanded (`PassDemanded`); a playbook's trigger demands its mode (`TriggeredDemands`). |
| | of the consensus engine and the feeds: `OneConnectionHolds`, `BlacklistedHaveNoSayHolds` | `FeedInv`: whatever a connected venue's partial quote holds, the present connection told (`ToldOver`), which every message, of every venue's kinds, keeps (`AfterTold`); a lost connection leaves its quote as it is, until the next empties it. `OneConnection` alone says nothing of a quote with one side. `EngineInv` adds that what is stored was read. For `BlacklistedHaveNoSay`, trust is a natural number, and 0 for who is blacklisted (`TrustNat`), and a weighted mean, rounded down, lies between two of the values that have weight (`WeightedMean`); medians and ranks may be anything. |
| `KillSwitchProofs` | `TypeCorrect`, `ExecutionStopsHolds`, `StoppedModeStopsHolds`, `KillPausesHolds`, `OnlyOperatorRelaxesHolds` | `KillInv`: what was executed since the switch was set and what the batch still holds fit one batch, and a router about to read has executed nothing since. `StopInv` is the same of a stopped mode. `HeededInv` adds the steps of the tick at which the mode must already be safe. The first two assume that Redis answers; the others do not. |
| | of the flatten sequence: `HaltsClosedHolds` | `FlattenInv`: what is stored has a notional if it was ever traded (`Traded`), what the router reads and what the service emits are intents of a positive size (`QueueOK`), and no command is HALTED (`CommandOK`), so that only the count of positions halts the service. The property alone says nothing of a position whose trades net to 0. It assumes that Redis answers: a failed count reads as 0. |
| `ExecutionProofs` | of the live executor: `TypeCorrect`, `RecordedIsRealHolds`, `AbandonedLegsUnwoundHolds`, `DailyWithinCapHolds` | `Typed`: where `Execute` is says what it has, a leg left to send, an order it placed, a leg to unwind (`Places`). `RealInv`: the answer in hand is of an order of the present leg that has traded as much (`Current`); venues only trade more. `AbandonedInv` needs `Typed` alone, since a hedge is given up through the unwind or below the minimum. `BudgetInv`: what an order may fill is what the leg, or the part of the first leg it hedges, may come to (`SizedOK`), and what is recorded of the day and what the legs still to come may add fit the cap and what was raised (`Budget`). A hedge follows the *filled* part of the first leg, so a first leg raised to a least order raises the second as well: the property's bound says so. |
| | of the registry: `OneClientHolds` | `RegistryInv`: the client stored is the one that was made, number 1, and none was made before it was stored (`ClientIsTheOneMade`), as the look and the making are under one lock, for any callers and venues. |
| | of the ledger: `FillsCountedOnceHolds`, `HistoryJoinsHolds` | `LedgerInv`: rows and what is still to be read are apart (`EachFillOnce`), and the watcher remembers the last status it wrote a row of (`Remembers`), unless an insertion failed or it started again. |
| | of the tax report: `MatchedInOrderHolds`, `CostsAddUpHolds` | `TaxInv`: a pair that had its turn left the disposal, or the acquisition, with nothing for whatever comes later in the order of rules and loops (`OneServed`); a pair whose turn is to come has nothing yet (`NotYet`). What is left of a trade and what was matched and drawn of it are the trade (`SaleAdds`, `BuyAdds`); the pool is what the trades so far put in and took out (`PoolAdds`), and every pound is with an acquisition, in the pool or with a disposal (`CostAdds`). `MatchedInOrder` alone says nothing of a pass half done. The average cost may round: a disposal has what the pool loses. |
| `ServiceProofs` | of the treasury: `SharesAreNotRefused`, `TransfersStopHolds`, `Implementation` | `IInv`: only a remembered deposit was paid of, the shares of the deposit in hand are those of the places the watcher has passed (`ProgressOK`), so that the place in hand was sent none yet, and what was paid, or is about to be, had an answer to go ahead on (`GrantsOK`). A step of the watcher is a payment of `Payout` or a stutter, a day and a restart forget (`ForgetStep`). It uses that no venue is in `Allocation` twice. `TransfersStopHolds`, if Redis answers: a round that is past its checks saw no reason to halt when it began (`HaltedOK`). |
| | of the arbitrage service: `KillSilencesHolds`, `IntentsSpacedHolds` | `SilenceInv`: what was published since the switch was set, and what is in the outbox and may come of the batch, two intents an update (`FreshProcess`), fit one batch; it assumes that Redis answers and that a batch may have two updates, for the timers emit up to four intents (`TimersEmit`). `SpacedInv`: what is in the outbox was marked when it was made, and is a cooldown younger than what was published with its key before (`Ready`); two intents of one outbox have different keys, as they share no venue or are of different strategies. DEX-CEX trades mark nothing and have no cooldown. `ArbAssumption` names what it uses of the policy. |
| `Sums` | lemmas on `SumFunction` and `SumFunctionOnSet` | the folds of the community modules are defined by a choice of order: these lemmas, proved from the theorems on finite sets, say that a sum over a set with an element more, or less, or with one value changed, changes by that value, and is monotone; and that a weighted mean lies between the values. Induction is on `LeastNat`, the least counterexample. |

Model-checked only: everything under fairness (`StopReaches`, `EveryIntentEnds`,
`InvertedCarryLeaves`, `LostFeedsSilence`, `IntentsEvaluated`), since liveness and
`ENABLED` are out of the prover's reach. Every safety and action property that a
passing run checks is proved. That `Ranked` picks a median is not: no property rests
on it. `StoppedModeStops`,
`KillPauses`, `CacheAgrees`, `NoHastyWarn` and `RecoveryExcludesMild` are proved and
no longer checked by a run.

## 6. What is not modelled

Components, each with its reason in `PROJECT.json`: the liquidity engine (signals
over floating-point windows; it emits intents like the others), shadow execution and
graduation, the dashboard but for the operator's commands, roles, on-chain services
(which log a heartbeat), the keeper and the yield router (floating-point rankings
nothing acts on), DEX routing, the L2 bridge and the packages no binary imports.

Within the modelled ones:

- Floating point: dollars, percent, prices and rates are integers. `Consensus` scales
  its integers so that medians, trust and mid are exact; `TaxMatching` uses unit
  costs that no average rounds; elsewhere rounding is down. Prices are constant in
  `Flatten` and `LiveExecutor`, so slippage and profit do not appear.
- Statistics over windows (basis, cascade, correlation, volatility, forecasts) are left
  open: any window that is long enough may have the shape that is traded.
- Executable prices, bands, funding and mark prices, which ride along.
- In `Arbitrage` the trackers follow one symbol at one venue, so the bound of
  `KillSilences` on what the timers emit is that instance's: the code may emit one
  basis trade per symbol and venue (`basis.go:171`). In `ArbService` an update's
  time is that of its reading; in the code it is the consensus engine's, earlier.
- Redis itself: streams are sequences or counts, delivered once, except in `Ledger`,
  where the difference between reading and acknowledging is the matter.
- Several replicas of a service: the deployment runs one of each.
- In `LiveExecutor`, `GetConstraints` does not fail, as none of the five clients lets
  it, and reports of fills are cumulative, as four of the five are. A restart forgets the orders at the venues as well: what a
  crash between two legs leaves open is a departure, not a property. Caps of 0
  (off) are not configured. Reconciliation, which only logs, is left out, as is the
  treasury's.

## 7. The plan

Done: the pipeline from a venue's message to the row of a fill, with the treasury
and the transfer policy beside it, and the theorems above.

Left, in this order:

1. An abstract *intent's life* (emitted, approved, executed or lost, released at
   most once), implemented by `Allocator`, `AllocatorLoop` and `ExecutionRouter`
   together.
2. The dashboard's handlers that change the trading mode, whose keys are written in
   an order a crash may cut, and the liquidity engine's cooldowns.

New runs replace the ones that say least: the properties checked are kept to about forty.
