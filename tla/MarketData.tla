----------------------------- MODULE MarketData -----------------------------
(***************************************************************************)
(* The market-data service (src/internal/marketdata, cmd/market-data): one *)
(* goroutine per venue keeps a WebSocket connection, builds up a quote     *)
(* from its messages and appends it to the stream market:quotes.  One      *)
(* symbol; mark, index, funding and book ride along in the quote and are   *)
(* left out: a message that carries only them changes nothing here, but    *)
(* may publish the quote once more.                                        *)
(*                                                                         *)
(* Both timestamps of a published quote are the time of the publication,   *)
(* so a quote carries its age in ticks; what is older than StaleMs is old. *)
(***************************************************************************)
EXTENDS Integers, Sequences, FiniteSets

CONSTANTS
    Fleets,         \* the sets of venues a configuration may name
    Tops,           \* of each venue: best bid and ask a message may bring, 0 for a side
                    \* it does not
    StaleMs,
    MaxStream,      \* bound, of quotes waiting in the stream
    MaxFaulty       \* bound: with a larger fleet nothing fails or restarts, no connection
                    \* breaks, and every message has both sides

ASSUME MarketAssumption ==
    /\ \A v \in DOMAIN Tops : Tops[v] \subseteq Nat \X Nat
    /\ \A fleet \in Fleets : IsFiniteSet(fleet) /\ fleet \subseteq DOMAIN Tops
    /\ StaleMs \in Nat /\ MaxStream \in Nat /\ MaxFaulty \in Nat

VARIABLES
    venues,         \* the configured ones
    up,             \* those with a connection
    quotes,         \* the partial quote of each; `on' is a history: whose message it was
    connection,     \* history: the number of the latest connection, modulo 2
    stream          \* market:quotes

marketVars == <<venues, up, quotes, connection, stream>>

Faulty == Cardinality(venues) <= MaxFaulty

Known == {"binance", "bybit", "okx", "deribit", "gate", "htx"}

Nothing == [price |-> 0, on |-> 0]
Empty == [bid |-> Nothing, ask |-> Nothing]

MarketInit ==
    /\ venues \in Fleets
    /\ up = {}
    /\ quotes = [v \in venues |-> Empty]
    /\ connection = [v \in venues |-> 0]
    /\ stream = <<>>

-----------------------------------------------------------------------------
(* The messages of each venue: the quote after one and whether it is        *)
(* published, provided that both sides are known.                           *)

Side(price, c) == [price |-> price, on |-> c]
Both(top, c) == [bid |-> Side(top[1], c), ask |-> Side(top[2], c)]

Says(quote, publish) == [quote |-> quote, publish |-> publish]

\* Bybit's tickers are deltas: a side that is missing stays as it is.
Delta(top, c, q) ==
    [bid |-> IF top[1] > 0 THEN Side(top[1], c) ELSE q.bid,
     ask |-> IF top[2] > 0 THEN Side(top[2], c) ELSE q.ask]

Binance(kind, top, c, q) ==
    CASE kind = "bookTicker" -> Says(Both(top, c), TRUE)
      [] kind \in {"markPrice", "depth"} -> Says(q, TRUE)

Bybit(kind, top, c, q) ==
    CASE kind = "tickers" -> Says(Delta(top, c, q), TRUE)
      [] kind = "orderbook" -> Says(q, FALSE)

Okx(kind, top, c, q) ==
    CASE kind = "tickers" -> Says(Both(top, c), TRUE)
      [] kind = "mark-price" -> Says(q, TRUE)
      [] kind \in {"index-tickers", "funding-rate", "books5"} -> Says(q, FALSE)

Deribit(kind, top, c, q) ==
    CASE kind = "ticker" -> Says(Both(top, c), TRUE)
      [] kind = "book" -> Says(q, FALSE)

Gate(kind, top, c, q) ==
    CASE kind = "futures.book_ticker" -> Says(Both(top, c), TRUE)
      [] kind = "futures.order_book" -> Says(q, FALSE)

Htx(kind, top, c, q) ==
    CASE kind = "bbo" -> Says(Both(top, c), TRUE)
      [] kind = "depth" -> Says(q, FALSE)

\* The messages each subscribes to once it is connected.
BinanceStreams == {"bookTicker", "markPrice", "depth"}
BybitTopics == {"tickers", "orderbook"}
OkxChannels == {"tickers", "mark-price", "index-tickers", "funding-rate", "books5"}
DeribitChannels == {"ticker", "book"}
GateChannels == {"futures.book_ticker", "futures.order_book"}
HtxTopics == {"bbo", "depth"}

Kinds(v) ==
    CASE v = "binance" -> BinanceStreams
      [] v = "bybit"   -> BybitTopics
      [] v = "okx"     -> OkxChannels
      [] v = "deribit" -> DeribitChannels
      [] v = "gate"    -> GateChannels
      [] v = "htx"     -> HtxTopics

After(v, kind, top, c, q) ==
    CASE v = "binance" -> Binance(kind, top, c, q)
      [] v = "bybit"   -> Bybit(kind, top, c, q)
      [] v = "okx"     -> Okx(kind, top, c, q)
      [] v = "deribit" -> Deribit(kind, top, c, q)
      [] v = "gate"    -> Gate(kind, top, c, q)
      [] v = "htx"     -> Htx(kind, top, c, q)

-----------------------------------------------------------------------------

\* The call of Redis may fail, which is logged.
Publish(v, q, connected) ==
    \/ Faulty /\ UNCHANGED stream
    \/ /\ Len(stream) < MaxStream
       /\ stream' = Append(stream, [venue |-> v, bid |-> q.bid.price, ask |-> q.ask.price,
                                    connected |-> connected, age |-> 0])

\* Mutants: the quotes outlive the connection; a failed attempt tells of the stale quotes
\* once more.
Connect_Kept(v) ==
    /\ v \in venues \cap Known /\ v \notin up
    /\ up' = up \cup {v}
    /\ connection' = [connection EXCEPT ![v] = 1 - @]
    /\ UNCHANGED <<venues, quotes, stream>>

Connect_Retold(v) ==
    /\ v \in venues \cap Known /\ v \notin up
    /\ \/ /\ quotes[v].bid.price > 0
          /\ Publish(v, quotes[v], FALSE)
          /\ UNCHANGED <<up, quotes, connection>>
       \/ /\ up' = up \cup {v}
          /\ connection' = [connection EXCEPT ![v] = 1 - @]
          /\ quotes' = [quotes EXCEPT ![v] = Empty]
          /\ UNCHANGED stream
    /\ UNCHANGED venues

\* After a pause, dialled and subscribed; one that fails leaves things as they are.
Connect(v) ==
    /\ v \in venues \cap Known /\ v \notin up
    /\ up' = up \cup {v}
    /\ connection' = [connection EXCEPT ![v] = 1 - @]
    /\ quotes' = [quotes EXCEPT ![v] = Empty]
    /\ UNCHANGED <<venues, stream>>

Message(v) ==
    /\ v \in up
    /\ \E kind \in Kinds(v), top \in {t \in Tops[v] : Faulty \/ (t[1] > 0 /\ t[2] > 0)} :
          LET after == After(v, kind, top, connection[v], quotes[v]) IN
          /\ quotes' = [quotes EXCEPT ![v] = after.quote]
          /\ IF after.publish /\ after.quote.bid.price > 0 /\ after.quote.ask.price > 0
             THEN Publish(v, after.quote, TRUE)
             ELSE UNCHANGED stream
    /\ UNCHANGED <<venues, up, connection>>

Breaks(v) == v \in up /\ Faulty /\ up' = up \ {v}

\* A read fails: publishStale says so with the quote as it was, stamped with this moment.
ReadFails(v) ==
    /\ Breaks(v)
    /\ IF quotes[v].bid.price > 0 THEN Publish(v, quotes[v], FALSE) ELSE UNCHANGED stream
    /\ UNCHANGED <<venues, quotes, connection>>

\* The answer to a heartbeat cannot be written.
AnswerFails(v) ==
    /\ v \in {"deribit", "htx"}
    /\ Breaks(v)
    /\ UNCHANGED <<venues, quotes, connection, stream>>

MarketRestart ==
    /\ Faulty
    /\ up' = {} /\ quotes' = [v \in venues |-> Empty]
    /\ UNCHANGED <<venues, connection, stream>>

MarketNext ==
    \/ \E v \in venues : Connect(v) \/ Message(v) \/ ReadFails(v) \/ AnswerFails(v)
    \/ MarketRestart

\* A quote ages, in the stream as elsewhere.
Aged(q) == [q EXCEPT !.age = IF @ > StaleMs THEN @ ELSE @ + 1]

-----------------------------------------------------------------------------

\* The two sides of a quote that is published as live came over one connection, the
\* present one, in spite of partial messages and of reconnections.
OneConnection ==
    [][\A v \in up' :
         stream' # stream /\ Len(stream') > Len(stream) /\ stream'[Len(stream')].connected
             /\ stream'[Len(stream')].venue = v
         => quotes'[v].bid.on = connection'[v] /\ quotes'[v].ask.on = connection'[v]]_marketVars
=============================================================================
