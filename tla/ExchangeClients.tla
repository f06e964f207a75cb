-------------------------- MODULE ExchangeClients --------------------------
(***************************************************************************)
(* The REST clients of the five exchanges (src/internal/exchange/<venue>): *)
(* what each call sends, what it makes of the answer, and the venue behind *)
(* them.  A behaviour is about one venue; the clients come from            *)
(* ExchangeRegistry.                                                       *)
(*                                                                         *)
(* An answer is an envelope: how the HTTP exchange went, whether the venue *)
(* put an error in a 200 body, and the data.  A call without error yields  *)
(* what the client makes of the data, any other yields Err.  Prices, fees, *)
(* ids, signatures and the reduce-only flag are left out.                  *)
(***************************************************************************)
EXTENDS Integers, Sequences, ExchangeRegistry

CONSTANTS
    VenueNames,
    Err,                \* what a call that fails returns
    MaxQty, MaxOrders   \* bounds on the size of an order and on the orders placed

ASSUME BoundsAssumption ==
    /\ VenueNames \subseteq {"binance", "bybit", "okx", "coinbase", "deribit"}
    /\ MaxQty \in Nat

VARIABLES
    venue,        \* the venue of the behaviour
    token,        \* deribit's bearer token: None, "good", "revoked"
    order,        \* at the venue: the last order placed, or None
    orders,       \* placed so far
    reply,        \* the answer of the call under way, until it returns: its operation, its value
                  \* and what the venue held; or None
    told          \* the final status of the order the caller was told, with the fill, or None

clientVars == <<registryVars, venue, token, order, orders, reply, told>>

Final == {"FILLED", "CANCELLED", "REJECTED", "EXPIRED"}
Types == {"MARKET", "LIMIT", "IOC"}
Order(status, qty, filled) == [status |-> status, qty |-> qty, filled |-> filled]
Translate(table, s, default) == IF s \in DOMAIN table THEN table[s] ELSE default

(***************************************************************************)
(* HTTP: HTTPClient.DoJSON.  A request is lost before it arrives, or its   *)
(* answer is, or is no JSON, or is a non-2xx status; in every case the     *)
(* client sees an error.                                                   *)
(***************************************************************************)
Http == {"unsent", "unanswered", "status", "garbled", "ok"}
Arrives(http) == http \in {"unanswered", "garbled", "ok"}
Envelope(http, error, data) == [http |-> http, error |-> error, data |-> data]
DoJSON(e) == e.http = "ok"
Delivered(e) == e.http \in {"garbled", "ok"}      \* DoJSON with no destination: the body is not decoded

(***************************************************************************)
(* Orders: what PlaceOrder sends.  size says which amount bounds the       *)
(* order, rests whether what is not filled at once stays in the book.      *)
(***************************************************************************)
Sent(kind, rests, size) == [kind |-> kind, rests |-> rests, size |-> size]
BinanceOrderType == [t \in Types |-> IF t = "MARKET" THEN "MARKET" ELSE "LIMIT"]
BybitOrderType == [t \in Types |-> IF t = "MARKET" THEN "Market" ELSE "Limit"]
OKXOrderType == [t \in Types |-> IF t = "MARKET" THEN "market" ELSE IF t = "LIMIT" THEN "limit" ELSE "ioc"]
DeribitOrderType == [t \in Types |-> IF t = "MARKET" THEN "market" ELSE "limit"]
Priced(type) == type \in {"LIMIT", "IOC"}
Gtc(type) == Priced(type) /\ type # "IOC"
RestsAs(type) == Gtc(type)
BinanceRequest(type) == Sent(BinanceOrderType[type], RestsAs(type), "quantity")
BybitRequest(type) == Sent(BybitOrderType[type], RestsAs(type), "quantity")
OKXRequest(type) == Sent(OKXOrderType[type], OKXOrderType[type] = "limit", "quantity")
CoinbaseRequest(type) ==
    CASE type = "MARKET" -> Sent("market_market_ioc", FALSE, "notional")
      [] type = "IOC" -> Sent("sor_limit_ioc", FALSE, "quantity")
      [] OTHER -> Sent("limit_limit_gtd", TRUE, "quantity")
DeribitRequest(type) == Sent(DeribitOrderType[type], RestsAs(type), "quantity")

\* The raw order states and what each client makes of them; an unknown one is passed on as it is.
BinanceStatus == [NEW |-> "NEW", PARTIALLY_FILLED |-> "PARTIALLY_FILLED", FILLED |-> "FILLED",
                  CANCELED |-> "CANCELLED", REJECTED |-> "REJECTED", EXPIRED |-> "EXPIRED"]
BybitStatus == [New |-> "NEW", Created |-> "NEW", PartiallyFilled |-> "PARTIALLY_FILLED",
                Filled |-> "FILLED", Cancelled |-> "CANCELLED", Rejected |-> "REJECTED",
                Deactivated |-> "EXPIRED"]
OKXStatus == [live |-> "NEW", partially_filled |-> "PARTIALLY_FILLED", filled |-> "FILLED",
              canceled |-> "CANCELLED"]
CoinbaseStatus == [OPEN |-> "NEW", FILLED |-> "FILLED", CANCELLED |-> "CANCELLED",
                   EXPIRED |-> "EXPIRED", FAILED |-> "REJECTED"]
DeribitStatus_Untriggered == [open |-> "NEW", filled |-> "FILLED", cancelled |-> "CANCELLED",
                              rejected |-> "REJECTED", other |-> "CANCELLED"]
DeribitStatus == [open |-> "NEW", filled |-> "FILLED", cancelled |-> "CANCELLED",
                  rejected |-> "REJECTED"]

\* PlaceOrder's answer: binance and deribit report the order, the others that it was accepted.
Reported(status, o) == Order(Translate(status, o.raw, o.raw), o.qty, o.filled)
Accepted == Order("NEW", 0, 0)
BinancePlaceOrder(e) == IF DoJSON(e) THEN Reported(BinanceStatus, e.data) ELSE Err
BybitPlaceOrder(e) == IF DoJSON(e) /\ ~e.error THEN Accepted ELSE Err
OKXPlaceOrder(e) == IF DoJSON(e) /\ ~e.error /\ e.data # None THEN Accepted ELSE Err
CoinbasePlaceOrder(e) == IF DoJSON(e) /\ ~e.error THEN Accepted ELSE Err
DeribitPlaceOrder(e) == IF DoJSON(e) /\ ~e.error THEN Reported(DeribitStatus, e.data) ELSE Err

\* CancelOrder: binance and coinbase decode no body; coinbase's batch call has its errors there.
BinanceCancelOrder(e) == IF Delivered(e) THEN "nil" ELSE Err
BybitCancelOrder(e) == IF DoJSON(e) /\ ~e.error THEN "nil" ELSE Err
OKXCancelOrder(e) == IF DoJSON(e) /\ ~e.error THEN "nil" ELSE Err
CoinbaseCancelOrder(e) == IF Delivered(e) THEN "nil" ELSE Err
DeribitCancelOrder(e) == IF DoJSON(e) /\ ~e.error THEN "nil" ELSE Err

\* GetOrder: an answer without the order is an error where the client looks for it; okx reads the
\* size of the last fill (fillSz), not of all of them; coinbase has no field for the quantity.
BinanceGetOrder(e) == IF DoJSON(e) THEN Reported(BinanceStatus, e.data) ELSE Err
BybitGetOrder(e) == IF DoJSON(e) /\ ~e.error /\ e.data # None THEN Reported(BybitStatus, e.data) ELSE Err
OKXGetOrder(e) ==
    IF DoJSON(e) /\ ~e.error /\ e.data # None
    THEN [Reported(OKXStatus, e.data) EXCEPT !.filled = e.data.last] ELSE Err
CoinbaseGetOrder(e) ==
    IF DoJSON(e) THEN [Reported(CoinbaseStatus, e.data) EXCEPT !.qty = 0] ELSE Err
DeribitGetOrder(e) == IF DoJSON(e) /\ ~e.error THEN Reported(DeribitStatus, e.data) ELSE Err

(***************************************************************************)
(* The account.  A wallet of nothing and a flat position are not listed.   *)
(* Deribit's two listings skip a currency whose request fails.             *)
(***************************************************************************)
Balance(free, locked, total) == IF total = 0 THEN {} ELSE {[free |-> free, locked |-> locked]}
BinanceGetBalances(e) ==
    IF DoJSON(e) THEN Balance(e.data.free, e.data.total - e.data.free, e.data.total) ELSE Err
BybitGetBalances_Unchecked(e) ==
    IF ~DoJSON(e) THEN Err ELSE IF e.data = None THEN {} ELSE Balance(e.data.free, e.data.locked, e.data.total)
BybitGetBalances(e) ==
    IF ~DoJSON(e) \/ e.error THEN Err
    ELSE IF e.data = None THEN {} ELSE Balance(e.data.free, e.data.locked, e.data.total)
OKXGetBalances(e) ==
    IF ~DoJSON(e) \/ e.error THEN Err
    ELSE IF e.data = None THEN {} ELSE Balance(e.data.free, e.data.locked, e.data.total)
CoinbaseGetBalances(e) ==
    IF DoJSON(e) THEN Balance(e.data.free, e.data.locked, e.data.free + e.data.locked) ELSE Err
DeribitGetBalances(e) ==
    IF DoJSON(e) /\ e.data # None THEN Balance(e.data.free, e.data.total - e.data.free, e.data.total) ELSE {}

Position(side, qty) == IF qty = 0 THEN {} ELSE {[side |-> side, qty |-> qty]}
Size(n) == IF n < 0 THEN -n ELSE n
BinanceGetPositions(e) ==
    IF DoJSON(e) THEN Position(IF e.data.amount < 0 THEN "SHORT" ELSE "LONG", Size(e.data.amount)) ELSE Err
BybitGetPositions(e) ==
    IF DoJSON(e) /\ ~e.error
    THEN Position(IF e.data.side = "sell" THEN "SHORT" ELSE "LONG", e.data.size) ELSE Err
OKXGetPositions(e) ==
    IF DoJSON(e) /\ ~e.error
    THEN Position(IF e.data.pos < 0 \/ e.data.posSide = "short" THEN "SHORT" ELSE "LONG", Size(e.data.pos))
    ELSE Err
CoinbaseGetPositions(e) == {}
DeribitGetPositions(e) ==
    IF DoJSON(e) /\ e.data # None
    THEN Position(IF e.data.side = "sell" THEN "SHORT" ELSE "LONG", e.data.size) ELSE {}

(***************************************************************************)
(* Transfers.                                                              *)
(***************************************************************************)
Outcomes(done, failed) == [raw \in {done} \cup failed |-> IF raw = done THEN "COMPLETED" ELSE "FAILED"]
BinanceTransfer == Outcomes("6", {"3", "5"})
BybitTransfer == Outcomes("success", {"fail", "Reject"})
OKXTransfer == Outcomes("2", {"-1", "-2"})
CoinbaseTransfer == Outcomes("completed", {"failed", "canceled"})
DeribitTransfer == Outcomes("completed", {"rejected", "cancelled"})
Transfer(table, raw) == Translate(table, raw, "PENDING")

BinanceWithdraw(e) == IF DoJSON(e) THEN "PENDING" ELSE Err
BybitWithdraw(e) == IF DoJSON(e) /\ ~e.error THEN "PENDING" ELSE Err
OKXWithdraw(e) == IF DoJSON(e) /\ ~e.error THEN "PENDING" ELSE Err
CoinbaseWithdraw(e) == IF DoJSON(e) THEN "PENDING" ELSE Err     \* after a GetBalances that went well
DeribitWithdraw(e) == IF DoJSON(e) /\ ~e.error THEN "PENDING" ELSE Err

\* Only bybit, okx and deribit put errors in a 200 body; none of the three looks for one here.
BinanceGetWithdrawStatus(e) ==
    IF DoJSON(e) /\ e.data # None THEN Transfer(BinanceTransfer, e.data) ELSE Err
BybitGetWithdrawStatus(e) ==
    IF DoJSON(e) /\ e.data # None THEN Transfer(BybitTransfer, e.data) ELSE Err
OKXGetWithdrawStatus(e) == IF DoJSON(e) THEN Transfer(OKXTransfer, e.data) ELSE Err
CoinbaseGetWithdrawStatus(e) == "PENDING"
DeribitGetWithdrawStatus(e) ==
    IF DoJSON(e) /\ e.data # None THEN Transfer(DeribitTransfer, e.data) ELSE Err

\* Deposits: the records listed, none for an answer without data.
Records(table, e) ==
    IF ~DoJSON(e) THEN Err ELSE IF e.data = None THEN {} ELSE {Transfer(table, e.data)}
BinanceGetDeposits(e) == Records(Outcomes("1", {}), e)
BybitGetDeposits(e) == Records(Outcomes("3", {}), e)
OKXGetDeposits(e) == Records(Outcomes("2", {}), e)
CoinbaseGetDeposits(e) == Records(CoinbaseTransfer, e)
CoinbaseGetFiatDeposits(e) == Records(CoinbaseTransfer, e)
DeribitGetDeposits(e) == Records(DeribitTransfer, e)

\* Deposit addresses: the network the caller is told and the one the address is of.
Address(said, of) == [said |-> said, of |-> of]
Listed(e) == IF e.data = None THEN {} ELSE {e.data[i] : i \in DOMAIN e.data}
BinanceGetDepositAddress(e, network) ==
    IF DoJSON(e) /\ network \in Listed(e) THEN Address(network, network) ELSE Err
BybitGetDepositAddress(e, network) ==
    IF DoJSON(e) /\ network \in Listed(e) THEN Address(network, network) ELSE Err
OKXGetDepositAddress(e, network) ==
    IF ~DoJSON(e) \/ e.error \/ Listed(e) = {} THEN Err
    ELSE Address(network, IF network \in Listed(e) THEN network ELSE e.data[1])
CoinbaseGetDepositAddress(e) == IF DoJSON(e) THEN Address(e.data[1], e.data[1]) ELSE Err
DeribitGetDepositAddress(e) == IF DoJSON(e) THEN Address("", Listed(e)) ELSE Err

(***************************************************************************)
(* The venue.  Raw names by what they mean there; an order may also be in  *)
(* a state no client knows, open or over.                                  *)
(***************************************************************************)
OpenOrder == [binance |-> {"NEW", "PARTIALLY_FILLED"}, bybit |-> {"New", "Created", "PartiallyFilled"},
              okx |-> {"live", "partially_filled"}, coinbase |-> {"OPEN"}, deribit |-> {"open"}]
FilledOrder == [binance |-> "FILLED", bybit |-> "Filled", okx |-> "filled", coinbase |-> "FILLED",
                deribit |-> "filled"]
EndedOrder == [binance |-> {"CANCELED", "REJECTED", "EXPIRED"}, bybit |-> {"Cancelled", "Rejected", "Deactivated"},
               okx |-> {"canceled"}, coinbase |-> {"CANCELLED", "EXPIRED", "FAILED"},
               deribit |-> {"cancelled", "rejected"}]
DoneTransfer == [binance |-> "6", bybit |-> "success", okx |-> "2", coinbase |-> "completed", deribit |-> "completed"]
FailedTransfer == [binance |-> {"3", "5"}, bybit |-> {"fail", "Reject"}, okx |-> {"-1", "-2"},
                   coinbase |-> {"failed", "canceled"}, deribit |-> {"rejected", "cancelled"}]
DoneDeposit == [binance |-> "1", bybit |-> "3", okx |-> "2", coinbase |-> "completed", deribit |-> "completed"]
Underway == "underway"
Transfers(done) == {Underway, done} \cup FailedTransfer[venue]
Means(raw, done) == IF raw = done THEN "COMPLETED" ELSE IF raw = Underway THEN "PENDING" ELSE "FAILED"

OpenStates == OpenOrder[venue] \cup {"other"}
EndStates(filled, qty) ==
    IF filled = qty THEN {FilledOrder[venue]} ELSE EndedOrder[venue] \cup {"other"}
AnOrder(type, qty, filled, last, raw, open) ==      \* last: the size of its last fill
    [type |-> type, qty |-> qty, filled |-> filled, last |-> last, raw |-> raw, open |-> open]
LastOf(filled) == IF filled = 0 THEN {0} ELSE 1..filled

\* How the venue takes an order: one that rests may stay open, any other is over at once.
Takes(type, sent) ==
    \E qty \in 1..MaxQty : \E filled \in 0..qty : \E last \in LastOf(filled) :
        \/ /\ sent.rests /\ filled < qty
           /\ \E raw \in OpenStates : order' = AnOrder(type, qty, filled, last, raw, TRUE)
        \/ \E raw \in EndStates(filled, qty) : order' = AnOrder(type, qty, filled, last, raw, FALSE)

Filled(filled, raw, open) ==
    [order EXCEPT !.filled = filled, !.last = filled - order.filled, !.raw = raw, !.open = open]
VenueFills ==
    /\ order # None /\ order.open
    /\ \E filled \in order.filled + 1 .. order.qty :
          \/ /\ filled < order.qty
             /\ \E raw \in OpenStates : order' = Filled(filled, raw, TRUE)
          \/ /\ filled = order.qty
             /\ order' = Filled(filled, FilledOrder[venue], FALSE)
    /\ UNCHANGED <<registryVars, venue, token, orders, reply, told>>

Ends == \E raw \in EndStates(order.filled, order.qty) : order' = [order EXCEPT !.raw = raw, !.open = FALSE]
VenueEnds ==
    /\ order # None /\ order.open
    /\ Ends
    /\ UNCHANGED <<registryVars, venue, token, orders, reply, told>>

(***************************************************************************)
(* The token: deribit's authenticate.  An error in a 200 body is taken for *)
(* an empty token that has expired.                                        *)
(***************************************************************************)
Auth == IF venue = "deribit" /\ token = None THEN {"failed", "empty", "granted"} ELSE {"held"}
Authenticate(auth) == token' = IF auth = "granted" THEN "good" ELSE token
Works(auth) == venue = "deribit" => auth \in {"granted", "held"} /\ token # "revoked"

TokenExpires == token # None /\ token' = None /\ UNCHANGED <<registryVars, venue, order, orders, reply, told>>
TokenRevoked == token = "good" /\ token' = "revoked" /\ UNCHANGED <<registryVars, venue, order, orders, reply, told>>

\* A refusal is a status, or an error in the body with these venues and this call.
InBand(op) ==
    \/ venue \in {"bybit", "okx", "deribit"}
    \/ venue = "coinbase" /\ op \in {"PlaceOrder", "CancelOrder"}
Envelopes(op, auth, data) ==
    IF auth = "failed" THEN {Envelope("unsent", FALSE, None)}
    ELSE {Envelope(h, FALSE, None) : h \in Http \ {"ok"}}
            \cup (IF Works(auth) THEN {Envelope("ok", FALSE, data)} ELSE {})
            \cup (IF InBand(op) THEN {Envelope("ok", TRUE, None)} ELSE {})
Took(e, auth) == Arrives(e.http) /\ ~e.error /\ Works(auth)

Ready == client # None /\ reply = None
Return == reply # None /\ reply' = None /\ UNCHANGED <<registryVars, venue, token, order, orders, told>>
Replies(op, value, held_) == reply' = [op |-> op, value |-> value, venue |-> held_]
FinalIn(value) == value # Err /\ value.status \in Final
Told(value) == [status |-> value.status, filled |-> value.filled]

(***************************************************************************)
(* The calls.                                                              *)
(***************************************************************************)
ByVenue(binance, bybit, okx, coinbase, deribit) ==
    CASE venue = "binance" -> binance
      [] venue = "bybit" -> bybit
      [] venue = "okx" -> okx
      [] venue = "coinbase" -> coinbase
      [] venue = "deribit" -> deribit
Request(type) ==
    ByVenue(BinanceRequest(type), BybitRequest(type), OKXRequest(type),
            CoinbaseRequest(type), DeribitRequest(type))

\* What the client of the venue makes of the answer to a call.
Reads(op, e, network) ==
    CASE op = "PlaceOrder" ->
           ByVenue(BinancePlaceOrder(e), BybitPlaceOrder(e), OKXPlaceOrder(e), CoinbasePlaceOrder(e),
                   DeribitPlaceOrder(e))
      [] op = "CancelOrder" ->
           ByVenue(BinanceCancelOrder(e), BybitCancelOrder(e), OKXCancelOrder(e), CoinbaseCancelOrder(e),
                   DeribitCancelOrder(e))
      [] op = "GetOrder" ->
           ByVenue(BinanceGetOrder(e), BybitGetOrder(e), OKXGetOrder(e), CoinbaseGetOrder(e), DeribitGetOrder(e))
      [] op = "GetBalances" ->
           ByVenue(BinanceGetBalances(e), BybitGetBalances(e), OKXGetBalances(e), CoinbaseGetBalances(e),
                   DeribitGetBalances(e))
      [] op = "GetPositions" ->
           ByVenue(BinanceGetPositions(e), BybitGetPositions(e), OKXGetPositions(e), CoinbaseGetPositions(e),
                   DeribitGetPositions(e))
      [] op = "Withdraw" ->
           ByVenue(BinanceWithdraw(e), BybitWithdraw(e), OKXWithdraw(e), CoinbaseWithdraw(e), DeribitWithdraw(e))
      [] op = "GetWithdrawStatus" ->
           ByVenue(BinanceGetWithdrawStatus(e), BybitGetWithdrawStatus(e), OKXGetWithdrawStatus(e),
                   CoinbaseGetWithdrawStatus(e), DeribitGetWithdrawStatus(e))
      [] op = "GetDeposits" ->
           ByVenue(BinanceGetDeposits(e), BybitGetDeposits(e), OKXGetDeposits(e), CoinbaseGetDeposits(e),
                   DeribitGetDeposits(e))
      [] op = "GetFiatDeposits" -> CoinbaseGetFiatDeposits(e)
      [] op = "GetDepositAddress" ->
           ByVenue(BinanceGetDepositAddress(e, network), BybitGetDepositAddress(e, network),
                   OKXGetDepositAddress(e, network), CoinbaseGetDepositAddress(e), DeribitGetDepositAddress(e))

PlaceOrder ==
    /\ Ready /\ orders < MaxOrders /\ (order # None => ~order.open)
    /\ \E type \in Types, auth \in Auth : \E e \in Envelopes("PlaceOrder", auth, None) :
          /\ Authenticate(auth)
          /\ IF Took(e, auth) THEN Takes(type, Request(type)) /\ orders' = orders + 1
                              ELSE UNCHANGED <<order, orders>>
          /\ LET value == Reads("PlaceOrder", [e EXCEPT !.data = order'], None) IN
             /\ Replies("PlaceOrder", value, Took(e, auth))
             /\ told' = IF FinalIn(value) THEN Told(value) ELSE IF Took(e, auth) THEN None ELSE told
    /\ UNCHANGED <<registryVars, venue>>

CancelOrder ==
    /\ Ready /\ order # None
    /\ \E auth \in Auth : \E e \in Envelopes("CancelOrder", auth, None) :
          /\ Authenticate(auth)
          /\ IF order.open /\ Took(e, auth) THEN Ends ELSE UNCHANGED order
          /\ order.open \/ ~Took(e, auth)        \* the venue refuses to cancel an order that is over
          /\ Replies("CancelOrder", Reads("CancelOrder", e, None), Took(e, auth))
    /\ UNCHANGED <<registryVars, venue, orders, told>>

GetOrder ==
    /\ Ready /\ order # None
    /\ \E auth \in Auth : \E e \in Envelopes("GetOrder", auth, order) :
          LET value == Reads("GetOrder", e, None) IN
          /\ Authenticate(auth)
          /\ Replies("GetOrder", value, order.raw)
          /\ told' = IF FinalIn(value) THEN Told(value) ELSE told
    /\ UNCHANGED <<registryVars, venue, order, orders>>

\* A call that asks for something the venue holds and changes nothing there.
Ask(op, held_, data, network) ==
    /\ Ready
    /\ \E auth \in Auth : \E e \in Envelopes(op, auth, data) :
          /\ Authenticate(auth)
          /\ Replies(op, Reads(op, e, network), held_)
    /\ UNCHANGED <<registryVars, venue, order, orders, told>>

GetBalances ==
    \E free, locked \in 0..1 :
        Ask("GetBalances", Balance(free, locked, free + locked),
            [free |-> free, locked |-> locked, total |-> free + locked], None)

\* okx reports a short either as a negative size or by its side; coinbase has no positions.
GetPositions ==
    \E n \in (IF venue = "coinbase" THEN {0} ELSE -1..1) : \E net \in BOOLEAN :
        Ask("GetPositions", Position(IF n < 0 THEN "SHORT" ELSE "LONG", Size(n)),
            [amount |-> n, side |-> IF n < 0 THEN "sell" ELSE "buy", size |-> Size(n),
             pos |-> IF net THEN n ELSE Size(n), posSide |-> IF net THEN "net" ELSE IF n < 0 THEN "short" ELSE "long"],
            None)

Withdraw ==
    /\ Ready
    /\ \E auth \in Auth : \E e \in Envelopes("Withdraw", auth, None) :
          /\ Authenticate(auth)
          /\ Replies("Withdraw", Reads("Withdraw", e, None), Took(e, auth))
    /\ UNCHANGED <<registryVars, venue, order, orders, told>>

\* deribit lists the last twenty withdrawals of one currency.
GetWithdrawStatus ==
    \E raw \in Transfers(DoneTransfer[venue]), listed \in BOOLEAN :
        Ask("GetWithdrawStatus", Means(raw, DoneTransfer[venue]), IF listed THEN raw ELSE None, None)
GetDeposits ==
    \E raw \in Transfers(DoneDeposit[venue]) : Ask("GetDeposits", {Means(raw, DoneDeposit[venue])}, raw, None)
GetFiatDeposits ==
    /\ venue = "coinbase"
    /\ \E raw \in Transfers(DoneDeposit[venue]) : Ask("GetFiatDeposits", {Means(raw, DoneDeposit[venue])}, raw, None)

\* The venue has addresses on some networks, in an order of its own.
GetDepositAddress ==
    \E chains \in {<<"arbitrum">>, <<"arbitrum", "optimism">>} : \E network \in {"arbitrum", "optimism"} :
        Ask("GetDepositAddress", network, chains, network)

\* Nothing is neither a wallet nor the state of a transfer.
ASSUME NothingAssumption ==
    /\ \A free, locked \in 0..1 : None # [free |-> free, locked |-> locked, total |-> free + locked]
    /\ None \notin DOMAIN OKXTransfer

InitClients ==
    /\ InitRegistry
    /\ venue \in VenueNames
    /\ token = None /\ order = None /\ orders = 0 /\ reply = None /\ told = None

NextClients ==
    \/ NextRegistry /\ UNCHANGED <<venue, token, order, orders, reply, told>>
    \/ PlaceOrder \/ CancelOrder \/ GetOrder
    \/ GetBalances \/ GetPositions
    \/ Withdraw \/ GetWithdrawStatus \/ GetDeposits \/ GetFiatDeposits \/ GetDepositAddress
    \/ Return \/ VenueFills \/ VenueEnds \/ TokenExpires \/ TokenRevoked

ClientsSpec == InitClients /\ [][NextClients]_clientVars

(***************************************************************************)
(* The live executor stops watching an order once a client reports it      *)
(* filled, cancelled, rejected or expired (live.go:469-500): whatever the  *)
(* venue does afterwards, such an order is over there, it was filled       *)
(* whole exactly if FILLED was said, and the fill the executor records for *)
(* it is what was filled; of an okx order it may be less, as the client    *)
(* reports the last of the fills.                                          *)
(***************************************************************************)
FinalIsFinal ==
    told # None =>
        /\ ~order.open
        /\ told.filled <= order.filled
        /\ venue # "okx" => told.filled = order.filled
        /\ told.status = "FILLED" <=> order.filled = order.qty

(***************************************************************************)
(* A call that reports no error tells the truth: a cancelled order is      *)
(* over, coinbase's batch call excepted; balances and positions are all    *)
(* the account holds, deribit's excepted, whose listings pass over what    *)
(* failed; a withdrawal was taken; a transfer reported as completed or     *)
(* failed has completed or failed.  Treasury and reconciliation act on     *)
(* these answers.                                                          *)
(***************************************************************************)
AnswersTrue ==
    reply # None /\ reply.value # Err =>
        CASE reply.op = "CancelOrder" -> venue # "coinbase" => reply.venue
          [] reply.op \in {"GetBalances", "GetPositions"} -> venue # "deribit" => reply.value = reply.venue
          [] reply.op = "Withdraw" -> reply.venue
          [] reply.op = "GetWithdrawStatus" -> reply.value \in {"PENDING", reply.venue}
          [] reply.op \in {"GetDeposits", "GetFiatDeposits"} -> reply.value \subseteq reply.venue \cup {"PENDING"}
          [] OTHER -> TRUE
=============================================================================
