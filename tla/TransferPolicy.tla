--------------------------- MODULE TransferPolicy ---------------------------
(***************************************************************************)
(* The transfer policy service (src/internal/transfer/policy.go, served by *)
(* src/cmd/transfer-policy/main.go): every withdrawal asks it first.       *)
(*                                                                         *)
(*   Check ----> denied                                                    *)
(*         ----> approved, recorded for the rolling velocity limits        *)
(*         ----> pending, until enough operators sign it off (Approve),    *)
(*               one denies it (DenyPending) or it expires                 *)
(*                                                                         *)
(* One mutex guards the engine, so every call is one step.  History and    *)
(* pending transfers live in memory only.                                  *)
(*                                                                         *)
(* A request names a route: the venues, the requester's region, and what   *)
(* the allowlist entry for its destination says, if there is one.          *)
(***************************************************************************)
EXTENDS Integers, Sequences, FiniteSets, SequencesExt

CONSTANTS
    Ids,             \* request ids, chosen by the callers
    Names,           \* people and services: requesters and approvers
    Amounts,         \* amounts requests are made for
    Routes,          \* [from, to, region, allowed, cap, usableFrom]
    VenueRegions,    \* venue -> [region, blocked], for the venues listed
    NoRegion,        \* a request that names no region
    MaxPerTransferUSD,       \* cap of one transfer, 0 for none
    MaxDailyUSD,             \* rolling 24h cap, 0 for none
    MaxTransfersPerDay,      \* rolling 24h count, 0 for none
    DualApprovalThresholdUSD,\* two sign-offs from here up, 0 for none
    ManualApprovalRequired,  \* every transfer needs a sign-off
    ApprovalExpiry,          \* life of a pending transfer
    Day,                     \* 24 hours
    MaxTime, MaxGranted      \* bounds, for model checking

ASSUME ConfigAssumption ==
    /\ Amounts \subseteq Nat \ {0}
    /\ \A route \in Routes : route.cap \in Nat /\ route.usableFrom \in Nat
    /\ MaxPerTransferUSD \in Nat /\ MaxDailyUSD \in Nat /\ MaxTransfersPerDay \in Nat
    /\ DualApprovalThresholdUSD \in Nat
    /\ ManualApprovalRequired \in BOOLEAN
    /\ ApprovalExpiry \in Nat /\ Day \in Nat
    /\ MaxTime \in Nat /\ MaxGranted \in Nat

VARIABLES
    now,       \* wall clock
    tampered,  \* the policy file differs from what was loaded, or is unreadable
    history,   \* transferRecords of the velocity limits, oldest first
    pending,   \* request id -> transfer awaiting sign-off, or None
    granted,   \* history variable: every approval, oldest first
    booted     \* history variable: how many approvals precede the last start

vars == <<now, tampered, history, pending, granted, booted>>

None == [needed |-> 0]

Request == [id : Ids, by : Names, amount : Amounts, route : Routes]

PendingTransfer ==
    [by : Names, amount : Amounts, route : Routes, needed : {1, 2}, signers : SUBSET Names, expires : Nat]

Record == [amount : Amounts, ts : Nat]

\* An approval: who asked, who signed, and until when signing was possible.
Grant ==
    [id : Ids, by : Names, amount : Amounts, route : Routes, needed : 0..2, signers : SUBSET Names,
     ts : Nat, expires : Nat]

TypeOK ==
    /\ now \in Nat
    /\ tampered \in BOOLEAN
    /\ history \in Seq(Record)
    /\ pending \in [Ids -> PendingTransfer \cup {None}]
    /\ granted \in Seq(Grant)
    /\ booted \in Nat

-----------------------------------------------------------------------------

\* Sign-offs an amount needs: the dual approval gate, then the manual one.
Needed(amount) ==
    IF DualApprovalThresholdUSD > 0 /\ amount >= DualApprovalThresholdUSD THEN 2
    ELSE IF ManualApprovalRequired THEN 1
    ELSE 0

\* pruneHistory: records older than a day leave from the front.
Recent_Hasty(records) ==
    LET old == {i \in 1..Len(records) : \A j \in 1..i : records[j].ts <= now - Day}
    IN  SubSeq(records, Cardinality(old) + 1, Len(records))

Recent(records) ==
    LET old == {i \in 1..Len(records) : \A j \in 1..i : records[j].ts < now - Day}
    IN  SubSeq(records, Cardinality(old) + 1, Len(records))

AmountsOf(records) == [k \in DOMAIN records |-> records[k].amount]
Total(records) == SumFunction(AmountsOf(records))

\* checkRegionConstraints: a venue at either end blocks the requester's region,
\* or the destination blocks the region of the source.
RegionBlocked(route) ==
    LET listed == {route.from, route.to} \cap DOMAIN VenueRegions
    IN  \/ /\ route.region # NoRegion
           /\ \E venue \in listed : route.region \in VenueRegions[venue].blocked
        \/ /\ {route.from, route.to} \subseteq listed
           /\ VenueRegions[route.from].region \in VenueRegions[route.to].blocked

\* The allowlist entry's cap replaces a looser global one.
CapOf(route) ==
    IF route.cap > 0 /\ route.cap < MaxPerTransferUSD THEN route.cap ELSE MaxPerTransferUSD

\* Gates 1 to 5 of Check: the file, the regions, the allowlist, the cap of one
\* transfer and the cooloff of a new address.
Admissible(req) ==
    /\ ~tampered
    /\ ~RegionBlocked(req.route)
    /\ req.route.allowed
    /\ CapOf(req.route) > 0 => req.amount <= CapOf(req.route)
    /\ now >= req.route.usableFrom

\* Gate 6.
WithinVelocity(req) ==
    /\ MaxTransfersPerDay > 0 => Len(Recent(history)) < MaxTransfersPerDay
    /\ MaxDailyUSD > 0 => Total(Recent(history)) + req.amount <= MaxDailyUSD

-----------------------------------------------------------------------------

Init ==
    /\ now = 0
    /\ tampered = FALSE
    /\ history = <<>>
    /\ pending = [id \in Ids |-> None]
    /\ granted = <<>>
    /\ booted = 0

Tick ==
    /\ now < MaxTime
    /\ now' = now + 1
    /\ UNCHANGED <<tampered, history, pending, granted, booted>>

\* The policy file changes on disk, or is put back as it was loaded.
EditFile ==
    /\ tampered' = ~tampered
    /\ UNCHANGED <<now, history, pending, granted, booted>>

\* Check.  A request the first five gates deny changes nothing; one the
\* velocity gate denies still prunes the history.  A held request replaces
\* whatever was pending under its id, sign-offs included.
CheckDenied(req) ==
    /\ Admissible(req)
    /\ ~WithinVelocity(req)
    /\ history' = Recent(history)
    /\ UNCHANGED <<now, tampered, pending, granted, booted>>

\* Mutant: a request made again keeps the signatures of the one before.
CheckHeld_SignersKept(req) ==
    /\ Admissible(req)
    /\ WithinVelocity(req)
    /\ Needed(req.amount) > 0
    /\ history' = Recent(history)
    /\ pending' = [pending EXCEPT ![req.id] =
                     [by |-> req.by, amount |-> req.amount, route |-> req.route,
                      needed |-> Needed(req.amount),
                      signers |-> IF pending[req.id] = None THEN {} ELSE pending[req.id].signers,
                      expires |-> now + ApprovalExpiry]]
    /\ UNCHANGED <<now, tampered, granted, booted>>

CheckHeld(req) ==
    /\ Admissible(req)
    /\ WithinVelocity(req)
    /\ Needed(req.amount) > 0
    /\ history' = Recent(history)
    /\ pending' = [pending EXCEPT ![req.id] =
                     [by |-> req.by, amount |-> req.amount, route |-> req.route,
                      needed |-> Needed(req.amount), signers |-> {}, expires |-> now + ApprovalExpiry]]
    /\ UNCHANGED <<now, tampered, granted, booted>>

CheckApproved(req) ==
    /\ Admissible(req)
    /\ WithinVelocity(req)
    /\ Needed(req.amount) = 0
    /\ Len(granted) < MaxGranted
    /\ history' = Append(Recent(history), [amount |-> req.amount, ts |-> now])
    /\ granted' = Append(granted, [id |-> req.id, by |-> req.by, amount |-> req.amount,
                                   route |-> req.route, needed |-> 0, signers |-> {}, ts |-> now, expires |-> now])
    /\ UNCHANGED <<now, tampered, pending, booted>>

Check(req) == CheckDenied(req) \/ CheckHeld(req) \/ CheckApproved(req)

\* Approve: an expired transfer is dropped, an operator counts once and never
\* for his own request, and the last sign-off needed approves it.  Neither the
\* policy file nor the velocity limits are looked at again.
MaySign_SelfToo(p, name) == name \notin p.signers

MaySign(p, name) == name \notin p.signers /\ p.by # name

\* A transfer signed off counts for the limits from the moment it is approved.
Counted(p) == Append(history, [amount |-> p.amount, ts |-> now])

ApproveExpired(id) ==
    /\ pending[id] # None
    /\ now > pending[id].expires
    /\ pending' = [pending EXCEPT ![id] = None]
    /\ UNCHANGED <<now, tampered, history, granted, booted>>

ApproveSigned(id, name) ==
    LET p == pending[id]
        signed == p.signers \cup {name}
    IN  /\ p # None
        /\ now <= p.expires
        /\ MaySign(p, name)
        /\ Cardinality(signed) < p.needed
        /\ pending' = [pending EXCEPT ![id].signers = signed]
        /\ UNCHANGED <<now, tampered, history, granted, booted>>

ApproveGranted(id, name) ==
    LET p == pending[id]
        signed == p.signers \cup {name}
    IN  /\ p # None
        /\ now <= p.expires
        /\ MaySign(p, name)
        /\ Cardinality(signed) >= p.needed
        /\ Len(granted) < MaxGranted
        /\ pending' = [pending EXCEPT ![id] = None]
        /\ history' = Counted(p)
        /\ granted' = Append(granted, [id |-> id, by |-> p.by, amount |-> p.amount,
                                       route |-> p.route, needed |-> p.needed, signers |-> signed,
                                       ts |-> now, expires |-> p.expires])
        /\ UNCHANGED <<now, tampered, booted>>

Approve(id, name) ==
    ApproveExpired(id) \/ ApproveSigned(id, name) \/ ApproveGranted(id, name)

DenyPending(id) ==
    /\ pending[id] # None
    /\ pending' = [pending EXCEPT ![id] = None]
    /\ UNCHANGED <<now, tampered, history, granted, booted>>

\* Listing the pending transfers drops the expired ones.
ListPending ==
    /\ pending' = [id \in Ids |-> IF pending[id] # None /\ now > pending[id].expires
                                  THEN None ELSE pending[id]]
    /\ UNCHANGED <<now, tampered, history, granted, booted>>

\* The service starts again: it loads the file as it is now, and its memory of
\* pending and approved transfers is gone.
Restart ==
    /\ tampered' = FALSE
    /\ history' = <<>>
    /\ pending' = [id \in Ids |-> None]
    /\ booted' = Len(granted)
    /\ UNCHANGED <<now, granted>>

Next ==
    \/ Tick
    \/ EditFile
    \/ \E req \in Request : Check(req)
    \/ \E id \in Ids, name \in Names : Approve(id, name)
    \/ \E id \in Ids : DenyPending(id)
    \/ ListPending
    \/ Restart

Spec == Init /\ [][Next]_vars

-----------------------------------------------------------------------------

ValidGrant(g) ==
    /\ Cardinality(g.signers) >= Needed(g.amount)
    /\ g.by \notin g.signers
    /\ g.ts <= g.expires

\* Four eyes: a transfer held for sign-off is approved within its time by as many
\* people as it needs, two from the dual approval threshold up, and the one who
\* asked for it is not among them.
SignedOff == \A i \in 1..Len(granted) : ValidGrant(granted[i])

\* Sign-offs are for one request: asking again under the same id, for another
\* amount, by another person or with a new deadline, starts without any.
SignaturesAreFresh ==
    [][\A id \in Ids :
        pending'[id] # None /\ pending'[id].signers # {} =>
            /\ pending[id] # None
            /\ pending[id].signers \subseteq pending'[id].signers
            /\ pending'[id] = [pending[id] EXCEPT !.signers = pending'[id].signers]]_vars

\* The approvals of the day that ends with the i-th approval, from the start-th on.
DayOf(i, start) == {j \in start..i : granted[j].ts >= granted[i].ts - Day}

DayWithinLimits(i, start) ==
    /\ MaxTransfersPerDay > 0 => Cardinality(DayOf(i, start)) <= MaxTransfersPerDay
    /\ MaxDailyUSD > 0 => SumFunctionOnSet(AmountsOf(granted), DayOf(i, start)) <= MaxDailyUSD

\* An approval without sign-off keeps the rolling 24 hours within both limits,
\* counting every approval since the service started.
AutoApprovalsWithinLimits ==
    \A i \in (booted + 1)..Len(granted) :
        granted[i].needed = 0 => DayWithinLimits(i, booted + 1)

=============================================================================
