------------------------------ MODULE Flatten ------------------------------
(***************************************************************************)
(* Closing all positions: the risk service reads them from Redis and emits *)
(* close intents (src/internal/eventbus/risk.go), the router executes them *)
(* among the others, and the paper executor keeps the positions in memory  *)
(* and writes them to Redis (src/internal/execution/paper.go).             *)
(*                                                                         *)
(* The live executor, which writes no positions, is left out.  A position  *)
(* is a quantity at a constant price, so that notional and quantity have   *)
(* the same unit.                                                          *)
(***************************************************************************)
EXTENDS ExecutionRouter, Integers, FiniteSets

CONSTANTS
    Positions,     \* venue, symbol and market
    MaxTrades, MaxNotional, MaxQueue   \* bounds

ASSUME PositionsAssumption ==
    IsFiniteSet(Positions) /\ MaxTrades \in Nat /\ MaxNotional \in Nat /\ MaxQueue \in Nat

VARIABLES
    held,       \* the executor's memory: position -> quantity and notional
    stored,     \* the same in Redis
    trades      \* approved so far

positionVars == <<held, stored, trades>>
flattenVars == <<serviceVars, routerVars, positionVars>>

\* The notional is what was ever traded, either way.
Flat == [qty |-> 0, notional |-> 0]
Holdings == [qty : -MaxNotional..MaxNotional, notional : 0..MaxNotional]

InitFlatten ==
    /\ ServiceInit /\ RouterInit
    /\ held = [p \in Positions |-> Flat] /\ stored = held
    /\ trades = 0

-----------------------------------------------------------------------------

Signed(intent, filled) == IF intent.buys THEN filled ELSE -filled

\* The allocator approves a trade of one unit.
ApproveTrade(on, buys) ==
    /\ trades < MaxTrades /\ trades' = trades + 1
    /\ Len(approved) < MaxQueue
    /\ approved' = Append(approved, [close |-> FALSE, on |-> on, buys |-> buys, notional |-> 1])
    /\ UNCHANGED <<serviceVars, routerStep, batch, held, stored>>

\* An intent is filled, in part or whole.  updatePosition: the quantity is signed, the
\* notional only grows.
Filled(intent) == \E filled \in 1..intent.notional :
    LET before == held[intent.on]
        after == [qty |-> before.qty + Signed(intent, filled), notional |-> before.notional + filled]
    IN  /\ after \in Holdings
        /\ held' = [held EXCEPT ![intent.on] = after]
        /\ stored' = [stored EXCEPT ![intent.on] = after]

\* The next intent of the batch is filled, or nothing comes of it: close intents expire
\* after 30 seconds, there is no price, the rate limit.
ExecuteTrade ==
    /\ RouterNext
    /\ Filled(Head(batch)) \/ UNCHANGED <<held, stored>>
    /\ UNCHANGED <<serviceVars, approved, trades>>

TradeRouter ==
    \/ /\ RouterMode \/ RouterKill \/ RouterRead
       /\ UNCHANGED <<serviceVars, positionVars>>
    \/ ExecuteTrade

\* The executor starts without positions, whatever Redis holds.
ExecutorRestart ==
    /\ RouterRestart
    /\ held' = [p \in Positions |-> Flat]
    /\ UNCHANGED <<stored, trades>>

Open_Dust == {p \in Positions : stored[p].notional > 1}

Open == {p \in Positions : stored[p].notional # 0}

CloseIntent(p) ==
    [close |-> TRUE, on |-> p, buys |-> stored[p].notional < 0, notional |-> stored[p].notional]

\* One close intent for each open position, in some order; none if the read fails.
FlattenPositions ==
    /\ FlattenEmit
    /\ \E emitted \in Reads(Open, {}) :
          /\ Len(approved) + Cardinality(emitted) <= MaxQueue
          /\ \E order \in [1..Cardinality(emitted) -> emitted] :
                /\ \A p \in emitted : \E k \in DOMAIN order : order[k] = p
                /\ approved' = approved \o [k \in DOMAIN order |-> CloseIntent(order[k])]
    /\ UNCHANGED <<routerStep, batch>>

RiskStep(action) == action /\ UNCHANGED <<routerVars, positionVars>>

CountPositions == FlattenCount(Cardinality(Open))

NextFlatten ==
    \/ RiskStep(Operator)
    \/ RiskStep(Ticks) \/ RiskStep(Report)
    \/ FlattenPositions /\ UNCHANGED positionVars
    \/ RiskStep(CountPositions)
    \/ RiskStep(PublishState) \/ RiskStep(Restart)
    \/ \E on \in Positions, buys \in BOOLEAN : ApproveTrade(on, buys)
    \/ TradeRouter
    \/ ExecutorRestart

FlattenSpec == InitFlatten /\ [][NextFlatten]_flattenVars

-----------------------------------------------------------------------------

\* Without failed calls the service halts itself only when all positions written to Redis
\* have quantity 0, although it counts those with a notional.
HaltsClosed ==
    [][mode' = "HALTED" /\ mode # "HALTED" => \A p \in Positions : stored[p].qty = 0]_flattenVars

=============================================================================
