-------------------------- MODULE ExchangeRegistry --------------------------
(***************************************************************************)
(* The registry of exchange clients and the store of credentials           *)
(* (src/internal/exchange/registry.go, credentials.go), for one venue:     *)
(* several goroutines ask for its client while the operator edits the      *)
(* connection in the dashboard.                                            *)
(***************************************************************************)
EXTENDS Naturals

CONSTANTS
    Callers,          \* goroutines
    Supported,        \* a factory is registered for the venue
    None,             \* nothing
    MaxEdits          \* bound on the operator's edits of the connection

VARIABLES
    stored,           \* dashboard:conn:<venue> in Redis: its kind and its version
    cached,           \* the version in the store's cache
    client,           \* the client in the registry: its number and the version it was made with
    made,             \* clients created so far
    asking, held      \* of each caller: waiting for the write lock, the client it was given

registryVars == <<stored, cached, client, made, asking, held>>

\* How a stored connection reads: absent, not configured, not decryptable, without one of the
\* fields the factory of the venue asks for, or good.
Kinds == {"absent", "unconfigured", "undecryptable", "incomplete", "good"}

\* Nothing is neither credentials nor a client.
ASSUME RegistryAssumption ==
    /\ None \notin [kind : Kinds, version : Nat]
    /\ None \notin [number : Nat, version : Nat]

InitRegistry ==
    /\ stored \in [kind : Kinds, version : {0}]
    /\ cached = None /\ client = None /\ made = 0
    /\ asking = [c \in Callers |-> FALSE] /\ held = [c \in Callers |-> None]

\* CredentialStore.Get under the registry's lock: the cache, else Redis, which may fail.
Decrypts(kind) == kind \in {"incomplete", "good"}
Credentials(fails) ==
    CASE cached # None -> cached
      [] cached = None /\ ~fails /\ Decrypts(stored.kind) -> stored
      [] OTHER -> None

\* Registry.Get: a look under the read lock, and the write lock when nothing is there.
Look(c) ==
    /\ ~asking[c]
    /\ IF client # None
       THEN held' = [held EXCEPT ![c] = client.number] /\ UNCHANGED asking
       ELSE asking' = [asking EXCEPT ![c] = TRUE] /\ UNCHANGED held
    /\ UNCHANGED <<stored, cached, client, made>>

Found(c) == held' = [held EXCEPT ![c] = client.number] /\ UNCHANGED <<cached, client, made>>
Create(c, fails) ==
    LET credentials == IF Supported THEN Credentials(fails) ELSE None IN
    /\ cached' = IF Supported THEN credentials ELSE cached
    /\ IF credentials # None /\ credentials.kind = "good"
       THEN /\ made' = made + 1
            /\ client' = [number |-> made', version |-> credentials.version]
            /\ held' = [held EXCEPT ![c] = made']
       ELSE UNCHANGED <<made, client, held>>
Missing_Unchecked == TRUE
Missing == client = None
Lock(c) ==
    /\ asking[c]
    /\ asking' = [asking EXCEPT ![c] = FALSE]
    /\ \/ ~Missing /\ Found(c)
       \/ Missing /\ \E fails \in BOOLEAN : Create(c, fails)
    /\ UNCHANGED stored

\* The operator saves the connection; nothing deletes one.
Edit ==
    /\ stored.version < MaxEdits
    /\ \E kind \in Kinds \ {"absent"} : stored' = [kind |-> kind, version |-> stored.version + 1]
    /\ UNCHANGED <<cached, client, made, asking, held>>

NextRegistry == (\E c \in Callers : Look(c) \/ Lock(c)) \/ Edit

RegistrySpec == InitRegistry /\ [][NextRegistry]_registryVars

(***************************************************************************)
(* However the callers interleave and whatever the operator edits, the     *)
(* callers of a process share one client per venue, made once: a second    *)
(* one would authenticate again and halve the rate limit of each           *)
(* (registry.go:39-68).                                                    *)
(***************************************************************************)
OneClient ==
    /\ made <= 1
    /\ \A c \in Callers : held[c] # None => client # None /\ held[c] = client.number
=============================================================================
