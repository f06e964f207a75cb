---------------------------- MODULE OpenInterest ----------------------------
(***************************************************************************)
(* From a venue's open interest to the size of an order: the poller in the *)
(* market data service (src/internal/marketdata/oipoller.go), the stream   *)
(* market:open_interest, and the OITracker of the capital allocator        *)
(* (src/internal/allocator/oigating.go).  Here is one market of one venue; *)
(* interest is in percent of the baseline, time in ticks.                  *)
(***************************************************************************)
EXTENDS Naturals, Sequences

CONSTANTS
    Depths,      \* what the interest may be, in percent of BaselineOI
    StaleTicks,  \* 5 minutes
    MaxLen       \* of the stream, 2000 in the code

ASSUME OpenInterestAssumption ==
    Depths \subseteq Nat \ {0} /\ StaleTicks \in Nat /\ MaxLen \in Nat \ {0}

VARIABLES
    venue,     \* whose market it is
    depth,     \* the interest at the venue
    stream,    \* unread updates, with the age of the poll that made them
    snapshot,  \* the tracker's, of interest 0 for none
    since      \* history variable: ticks since the venue last told a poll of a depth

oiVars == <<venue, depth, stream, snapshot, since>>

Polled == {"binance", "bybit", "okx", "deribit"}
Snapshot == [oi : Depths \cup {0}, age : 0..(StaleTicks + 1)]
NoSnapshot == [oi |-> 0, age |-> StaleTicks + 1]

OpenInterestTypeOK ==
    /\ venue \in Polled
    /\ depth \in Depths
    /\ stream \in Seq(Snapshot) /\ Len(stream) <= MaxLen
    /\ snapshot \in Snapshot
    /\ since \in [Depths -> 0..(StaleTicks + 1)]

-----------------------------------------------------------------------------
(* The answers, and what each fetch makes of one: the interest, or 0.      *)

Answer(status, code, listed, oi) == [status |-> status, code |-> code, listed |-> listed, oi |-> oi]

Told(oi) == Answer(200, 0, TRUE, oi)

\* How a venue declines: over HTTP, with an empty list, or, at Bybit, with a code only.
HTTPRefusals == {Answer(451, 0, FALSE, 0), Answer(503, 0, FALSE, 0)}
EmptyRefusals == HTTPRefusals \cup {Answer(200, 1, FALSE, 0)}
CodedRefusals == HTTPRefusals \cup {Answer(200, 10006, listed, oi) : listed \in BOOLEAN, oi \in Depths}

Refusals ==
    IF venue = "binance" THEN HTTPRefusals
    ELSE IF venue = "bybit" THEN CodedRefusals
    ELSE EmptyRefusals

\* oiGetJSON.
Got(answer) == answer.status = 200

FetchBinanceOI(answer) == IF Got(answer) THEN answer.oi ELSE 0

FetchBybitOI(answer) ==
    IF Got(answer) /\ answer.code = 0 /\ answer.listed THEN answer.oi ELSE 0

FetchOKXOI(answer) == IF Got(answer) /\ answer.listed THEN answer.oi ELSE 0

FetchDeribitOI(answer) == IF Got(answer) /\ answer.listed THEN answer.oi ELSE 0

Fetch(answer) ==
    IF venue = "binance" THEN FetchBinanceOI(answer)
    ELSE IF venue = "bybit" THEN FetchBybitOI(answer)
    ELSE IF venue = "okx" THEN FetchOKXOI(answer)
    ELSE FetchDeribitOI(answer)

-----------------------------------------------------------------------------

\* The multiplier an approval is scaled by, in percent.
LiquidityPct ==
    IF snapshot.oi = 0 \/ snapshot.age > StaleTicks THEN 100
    ELSE IF snapshot.oi < 50 THEN 25
    ELSE IF snapshot.oi < 100 THEN snapshot.oi
    ELSE IF snapshot.oi < 200 THEN 100 + (snapshot.oi - 100) \div 2
    ELSE 150

OpenInterestInit ==
    /\ venue \in Polled
    /\ depth \in Depths
    /\ stream = <<>>
    /\ snapshot = NoSnapshot
    /\ since = [d \in Depths |-> StaleTicks + 1]

\* The market moves.
Trade(oi) == depth' = oi /\ UNCHANGED <<venue, stream, snapshot, since>>

\* publish: an entry for the stream, which forgets its oldest.
Publish(oi) ==
    LET full == Append(stream, [oi |-> oi, age |-> 0])
    IN  stream' = IF Len(full) > MaxLen THEN Tail(full) ELSE full

\* A poll, whose publication may fail.
Poll(answer) ==
    /\ \/ Fetch(answer) > 0 /\ Publish(Fetch(answer))
       \/ UNCHANGED stream
    /\ since' = IF answer = Told(depth) THEN [since EXCEPT ![depth] = 0] ELSE since
    /\ UNCHANGED <<venue, depth, snapshot>>

\* Update, with the next of the updates ReadOIUpdates returned; the time it is judged by
\* is the poll's.
Update_Restamped ==
    /\ stream # <<>>
    /\ snapshot' = [Head(stream) EXCEPT !.age = 0]
    /\ stream' = Tail(stream)
    /\ UNCHANGED <<venue, depth, since>>

Update ==
    /\ stream # <<>>
    /\ snapshot' = Head(stream)
    /\ stream' = Tail(stream)
    /\ UNCHANGED <<venue, depth, since>>

\* Time passes for everything that was measured.
Older(age) == IF age > StaleTicks THEN age ELSE age + 1

Aged(report) == [oi |-> report.oi, age |-> Older(report.age)]

Tick ==
    /\ stream' = [k \in DOMAIN stream |-> Aged(stream[k])]
    /\ snapshot' = Aged(snapshot)
    /\ since' = [d \in Depths |-> Older(since[d])]
    /\ UNCHANGED <<venue, depth>>

\* The allocator starts again; what it had not read waits for it.
TrackerRestart == snapshot' = NoSnapshot /\ UNCHANGED <<venue, depth, stream, since>>

OpenInterestNext ==
    \/ \E oi \in Depths : Trade(oi)
    \/ \E answer \in {Told(depth)} \cup Refusals : Poll(answer)
    \/ Update
    \/ Tick
    \/ TrackerRestart

OpenInterestSpec == OpenInterestInit /\ [][OpenInterestNext]_oiVars

-----------------------------------------------------------------------------

\* An order is sized up only if the venue told of a market deeper than the baseline
\* in the last five minutes, and sized down only if it told of a thinner one: neither
\* an error, nor a backlog in the stream, nor a restart sizes an order.
SizedByRecentDepth ==
    /\ LiquidityPct > 100 => \E d \in Depths : d > 100 /\ since[d] <= StaleTicks
    /\ LiquidityPct < 100 => \E d \in Depths : d < 100 /\ since[d] <= StaleTicks
=============================================================================
