------------------------------- MODULE Ledger -------------------------------
(***************************************************************************)
(* The ledger (src/cmd/ledger/main.go): every half second it reads a batch *)
(* from each stream in turn, inserts what it read into Postgres            *)
(* (src/internal/ledger/writer.go), and acknowledges each message whether  *)
(* or not it was inserted.  Here are the streams of intents, raw and       *)
(* approved, of fills, and of the states of the venues.                    *)
(***************************************************************************)
EXTENDS Naturals, Sequences, FiniteSets

CONSTANTS
    Ids,           \* of the intents
    Uuids,         \* those that Postgres takes for one: flatten and liquidity ids are not
    Markets,       \* venue and symbol
    States,        \* of a market at its venue
    ReadSize,      \* messages taken by one read
    MaxStatuses, MaxCrashes    \* bounds

ASSUME LedgerAssumption == Uuids \subseteq Ids /\ ReadSize \in Nat \ {0}

VARIABLES
    unread,        \* stream -> what the group has not delivered
    unacked,       \* stream -> what it delivered and waits to be acknowledged
    visiting,      \* the streams of this round that are left
    taken,         \* what was read of the first of them
    persisted,     \* the first of it was inserted, or refused
    prevState,     \* market -> its state as last seen
    intentRows,    \* trade_intents: id -> the payload it was first inserted with
    fillRows,      \* fills: intent -> number of rows
    history,       \* venue_status_history, the oldest first
    missed,        \* history variables: markets with an update that was refused since their
    published,     \* last row; what was published; how many restarts
    crashes

streamVars == <<unread, unacked, published>>
readVars == <<visiting, taken, persisted>>
tableVars == <<intentRows, fillRows, history>>
ledgerVars == <<streamVars, readVars, prevState, tableVars, missed, crashes>>

Streams == <<"fills", "intents", "approved", "status">>
StreamNames == {"fills", "intents", "approved", "status"}

LedgerInit ==
    /\ unread = [s \in StreamNames |-> <<>>] /\ unacked = [s \in StreamNames |-> <<>>]
    /\ visiting = <<>> /\ taken = <<>> /\ persisted = FALSE
    /\ prevState = [m \in Markets |-> "UNKNOWN"]
    /\ intentRows = <<>> /\ fillRows = [i \in Ids |-> 0] /\ history = <<>>
    /\ missed = {} /\ published = [s \in StreamNames |-> {}] /\ crashes = 0

-----------------------------------------------------------------------------
(* The services publish: an intent, its approval, its fill, each once.     *)

Publish(stream, id) ==
    /\ id \notin published[stream]
    /\ stream = "approved" => id \in published["intents"]
    /\ stream = "fills" => id \in published["approved"]
    /\ published' = [published EXCEPT ![stream] = @ \cup {id}]
    /\ unread' = [unread EXCEPT ![stream] = Append(@, id)]
    /\ UNCHANGED <<unacked, readVars, prevState, tableVars, missed, crashes>>

\* The state of a market changes; messages are numbered.
PublishStatus(market, state) ==
    LET update == [n |-> Cardinality(published["status"]), market |-> market, state |-> state]
    IN  /\ update.n < MaxStatuses
        /\ published' = [published EXCEPT !["status"] = @ \cup {update}]
        /\ unread' = [unread EXCEPT !["status"] = Append(@, update)]
        /\ UNCHANGED <<unacked, readVars, prevState, tableVars, missed, crashes>>

-----------------------------------------------------------------------------
(* drainAll.                                                               *)

DrainAll ==
    /\ visiting = <<>> /\ visiting' = Streams
    /\ UNCHANGED <<streamVars, taken, persisted, prevState, tableVars, missed, crashes>>

Take(stream, messages) ==
    LET n == IF Len(messages) < ReadSize THEN Len(messages) ELSE ReadSize
    IN  SubSeq(messages, 1, n)

\* Mutant: what a crash left unacknowledged is read again.
ReadMessages_Pending ==
    /\ visiting # <<>> /\ taken = <<>>
    /\ LET stream == Head(visiting)
           read == unacked[stream] \o Take(stream, unread[stream])
       IN  /\ taken' = read
           /\ visiting' = IF read = <<>> THEN Tail(visiting) ELSE visiting
           /\ unacked' = [unacked EXCEPT ![stream] = read]
           /\ unread' = [unread EXCEPT ![stream] =
                           SubSeq(@, Len(Take(stream, @)) + 1, Len(@))]
    /\ UNCHANGED <<published, persisted, prevState, tableVars, missed, crashes>>

\* A read that finds nothing, or fails, goes on to the next stream.
ReadMessages ==
    /\ visiting # <<>> /\ taken = <<>>
    /\ LET stream == Head(visiting)
           read == Take(stream, unread[stream])
       IN  /\ taken' = read
           /\ visiting' = IF read = <<>> THEN Tail(visiting) ELSE visiting
           /\ unacked' = [unacked EXCEPT ![stream] = @ \o read]
           /\ unread' = [unread EXCEPT ![stream] = SubSeq(@, Len(read) + 1, Len(@))]
    /\ UNCHANGED <<published, persisted, prevState, tableVars, missed, crashes>>

WriteFill(id) ==
    /\ id \in Uuids
    /\ fillRows' = [fillRows EXCEPT ![id] = @ + 1]
    /\ UNCHANGED <<intentRows, history>>

\* ON CONFLICT (id) DO NOTHING.
WriteIntent(id, payload) ==
    /\ id \in Uuids
    /\ intentRows' = IF id \in DOMAIN intentRows THEN intentRows
                     ELSE [i \in DOMAIN intentRows \cup {id} |->
                             IF i = id THEN payload ELSE intentRows[i]]
    /\ UNCHANGED <<fillRows, history>>

\* For the property, a row also says whether an update before it is missing, and in
\* which life of the ledger it was inserted.
WriteVenueStatus(update, from) ==
    /\ history' = Append(history, [market |-> update.market, from |-> from, to |-> update.state,
                                   gap |-> update.market \in missed, life |-> crashes])
    /\ UNCHANGED <<intentRows, fillRows>>

Persisting == visiting # <<>> /\ taken # <<>> /\ ~persisted

\* persistMsg inserts the message; an insert may be refused, which is logged.
PersistRecord ==
    /\ Persisting /\ Head(visiting) # "status" /\ persisted' = TRUE
    /\ \/ Head(visiting) = "fills" /\ WriteFill(Head(taken))
       \/ Head(visiting) # "fills" /\ WriteIntent(Head(taken), Head(visiting))
       \/ UNCHANGED tableVars
    /\ UNCHANGED <<streamVars, visiting, taken, prevState, missed, crashes>>

\* Mutant: the state is remembered by venue, not by venue and symbol.
PersistStatus_ByVenue ==
    /\ Persisting /\ Head(visiting) = "status" /\ persisted' = TRUE
    /\ LET update == Head(taken)
       IN  /\ \/ WriteVenueStatus(update, prevState[update.market]) /\ missed' = missed \ {update.market}
              \/ UNCHANGED tableVars /\ missed' = missed \cup {update.market}
           /\ prevState' = [m \in Markets |-> update.state]
    /\ UNCHANGED <<streamVars, visiting, taken, crashes>>

PersistStatus ==
    /\ Persisting /\ Head(visiting) = "status" /\ persisted' = TRUE
    /\ LET update == Head(taken)
       IN  /\ \/ WriteVenueStatus(update, prevState[update.market]) /\ missed' = missed \ {update.market}
              \/ UNCHANGED tableVars /\ missed' = missed \cup {update.market}
           /\ prevState' = [prevState EXCEPT ![update.market] = update.state]
    /\ UNCHANGED <<streamVars, visiting, taken, crashes>>

\* One that fails leaves the message unacknowledged, as a crash before it does.
Ack ==
    /\ persisted /\ persisted' = FALSE
    /\ taken' = Tail(taken)
    /\ visiting' = IF Len(taken) = 1 THEN Tail(visiting) ELSE visiting
    /\ LET stream == Head(visiting)
           rest == SelectSeq(unacked[stream], LAMBDA m : m # Head(taken))
       IN  unacked' = [unacked EXCEPT ![stream] = rest]
    /\ UNCHANGED <<unread, published, prevState, tableVars, missed, crashes>>

\* The ledger starts again, and never asks for what it had read before.
LedgerRestart ==
    /\ crashes < MaxCrashes /\ crashes' = crashes + 1
    /\ visiting' = <<>> /\ taken' = <<>> /\ persisted' = FALSE
    /\ prevState' = [m \in Markets |-> "UNKNOWN"]
    /\ UNCHANGED <<streamVars, tableVars, missed>>

LedgerNext ==
    \/ \E stream \in StreamNames \ {"status"}, id \in Ids : Publish(stream, id)
    \/ \E market \in Markets, state \in States : PublishStatus(market, state)
    \/ DrainAll \/ ReadMessages \/ PersistRecord \/ PersistStatus \/ Ack \/ LedgerRestart

LedgerSpec == LedgerInit /\ [][LedgerNext]_ledgerVars

-----------------------------------------------------------------------------

\* A fill has one row at most, whatever is lost, refused or read late: the graduation of
\* the trading mode counts these rows, and the profit is their sum.
FillsCountedOnce == \A i \in Ids : fillRows[i] <= 1

\* The rows of a market's history join: each begins where the one before it ended,
\* except over an update that Postgres refused, and over a restart of the ledger, which
\* shows as UNKNOWN.
HistoryJoins ==
    \A j, k \in DOMAIN history :
        LET earlier == history[j]
            later == history[k]
        IN  /\ j < k /\ earlier.market = later.market
            /\ \A between \in j + 1..k - 1 : history[between].market # later.market
            => \/ later.from = earlier.to
               \/ later.gap
               \/ later.from = "UNKNOWN" /\ earlier.life < later.life
=============================================================================
