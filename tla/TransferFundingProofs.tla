---------------------- MODULE TransferFundingProofs ----------------------
(***************************************************************************)
(* Proofs about the transfer policy: it is well typed, what it grants was  *)
(* signed off, sign-offs never outlive the request they are for, and the   *)
(* rolling limits hold; and about the funding engine: an exit undoes an    *)
(* entry that was published.                                               *)
(***************************************************************************)
EXTENDS TransferPolicy, Funding, Sums

\* What is pending can still be signed off and has not been by its requester.
PendingSound ==
    \A id \in Ids : LET p == pending[id] IN
        p # None => /\ p.needed = Needed(p.amount)
                    /\ p.by \notin p.signers

IInv == TypeOK /\ PendingSound /\ SignedOff

LEMMA RecentType == ASSUME ConfigAssumption, TypeOK
                    PROVE  Recent(history) \in Seq(Record)
<1> DEFINE old == {i \in 1..Len(history) : \A j \in 1..i : history[j].ts < now - Day}
<1>1. Len(history) \in Nat
  BY DEF TypeOK
<1>2. IsFiniteSet(1..Len(history))
  BY <1>1, FS_Interval
<1>3. old \subseteq 1..Len(history)
  OBVIOUS
<1>4. IsFiniteSet(old)
  BY <1>2, <1>3, FS_Subset
<1>5. Cardinality(old) \in Nat
  BY <1>4, FS_CardinalityType
<1>6. history \in Seq(Record)
  BY DEF TypeOK
<1> HIDE DEF old
<1>7. SubSeq(history, Cardinality(old) + 1, Len(history)) \in Seq(Record)
  BY <1>1, <1>5, <1>6
<1> QED BY <1>7 DEF Recent, old

LEMMA NeededType == ASSUME ConfigAssumption, NEW amount \in Amounts
                    PROVE  Needed(amount) \in 0..2
BY DEF ConfigAssumption, Needed

\* One more approval, of a valid grant.
LEMMA GrantAppended ==
    ASSUME TypeOK, SignedOff, NEW g \in Grant, ValidGrant(g), granted' = Append(granted, g)
    PROVE  granted' \in Seq(Grant) /\ SignedOff'
<1>1. granted \in Seq(Grant)
  BY DEF TypeOK
<1>2. granted' \in Seq(Grant)
  BY <1>1
<1>3. \A i \in 1..Len(granted') : granted'[i] = g \/ (i \in 1..Len(granted) /\ granted'[i] = granted[i])
  BY <1>1
<1>4. ASSUME NEW i \in 1..Len(granted')
      PROVE  ValidGrant(granted'[i])
  BY <1>3 DEF SignedOff
<1>5. SignedOff'
  BY <1>4 DEF SignedOff, ValidGrant, Needed
<1> QED BY <1>2, <1>5

\* A step that neither approves nor holds anything keeps the invariant, if what
\* it takes from the pending transfers is whole entries.
LEMMA PendingShrinks ==
    ASSUME IInv, granted' = granted,
           \A id \in Ids : pending'[id] \in {pending[id], None}
    PROVE  PendingSound' /\ SignedOff'
<1>1. PendingSound'
  BY DEF IInv, PendingSound, Needed, None
<1>2. SignedOff'
  BY DEF IInv, SignedOff, ValidGrant, Needed
<1> QED BY <1>1, <1>2

LEMMA InitIInv == ConfigAssumption /\ Init => IInv
<1> SUFFICES ASSUME ConfigAssumption, Init PROVE IInv
  OBVIOUS
<1>1. TypeOK
  <2>1. now \in Nat /\ booted \in Nat
    BY DEF Init
  <2>2. history \in Seq(Record) /\ granted \in Seq(Grant)
    BY DEF Init
  <2>3. pending \in [Ids -> PendingTransfer \cup {None}]
    BY DEF Init
  <2>4. tampered \in BOOLEAN
    BY DEF Init
  <2> QED BY <2>1, <2>2, <2>3, <2>4, Zenon DEF TypeOK
<1>2. PendingSound
  BY DEF Init, PendingSound
<1>3. SignedOff
  BY DEF Init, SignedOff
<1> QED BY <1>1, <1>2, <1>3 DEF IInv

\* What an entry awaiting sign-off is made of.
LEMMA PendingFields ==
    ASSUME TypeOK, NEW id \in Ids, pending[id] # None
    PROVE  /\ pending[id] \in PendingTransfer
           /\ pending[id].by \in Names /\ pending[id].amount \in Amounts
           /\ pending[id].route \in Routes /\ pending[id].needed \in {1, 2}
           /\ pending[id].signers \subseteq Names /\ pending[id].expires \in Nat
<1>1. pending[id] \in PendingTransfer
  BY DEF TypeOK
<1> QED BY <1>1 DEF PendingTransfer

LEMMA HeldKeeps ==
    ASSUME ConfigAssumption, IInv, NEW req \in Request, CheckHeld(req)
    PROVE  IInv'
<1> DEFINE held == [by |-> req.by, amount |-> req.amount, route |-> req.route,
                    needed |-> Needed(req.amount), signers |-> {},
                    expires |-> now + ApprovalExpiry]
<1>1. pending' = [pending EXCEPT ![req.id] = held] /\ req.id \in Ids
  BY DEF CheckHeld, Request
<1>2. now \in Nat /\ ApprovalExpiry \in Nat
  BY DEF IInv, TypeOK, ConfigAssumption
<1>3. req.by \in Names /\ req.amount \in Amounts /\ req.route \in Routes
  BY DEF Request
<1>4. Needed(req.amount) \in {1, 2}
  <2>1. Needed(req.amount) \in 0..2
    BY <1>3, NeededType
  <2>2. Needed(req.amount) > 0
    BY DEF CheckHeld
  <2> QED BY <2>1, <2>2
<1>5. held \in PendingTransfer
  BY <1>2, <1>3, <1>4 DEF PendingTransfer
<1>6. pending' \in [Ids -> PendingTransfer \cup {None}]
  <2> HIDE DEF held
  <2> QED BY <1>1, <1>5 DEF IInv, TypeOK
<1>7. history' \in Seq(Record)
  BY RecentType DEF CheckHeld, IInv
<1>8. TypeOK'
  <2>1. UNCHANGED <<now, tampered, granted, booted>>
    BY DEF CheckHeld
  <2> QED BY <1>6, <1>7, <2>1, Zenon DEF IInv, TypeOK
<1>9. PendingSound'
  <2> SUFFICES ASSUME NEW id \in Ids, pending'[id] # None
               PROVE  /\ pending'[id].needed = Needed(pending'[id].amount)
                      /\ pending'[id].by \notin pending'[id].signers
    BY DEF PendingSound, Needed
  <2>1. CASE id = req.id
    <3>1. pending'[id] = held
      BY <1>1, <2>1 DEF IInv, TypeOK
    <3> QED BY <3>1
  <2>2. CASE id # req.id
    <3>1. pending'[id] = pending[id]
      BY <1>1, <2>2 DEF IInv, TypeOK
    <3> QED BY <3>1 DEF IInv, PendingSound
  <2> QED BY <2>1, <2>2
<1>10. SignedOff'
  BY DEF IInv, SignedOff, ValidGrant, Needed, CheckHeld
<1> QED BY <1>8, <1>9, <1>10 DEF IInv

LEMMA ApprovedKeeps ==
    ASSUME ConfigAssumption, IInv, NEW req \in Request, CheckApproved(req)
    PROVE  IInv'
<1> DEFINE g == [id |-> req.id, by |-> req.by, amount |-> req.amount, route |-> req.route,
                 needed |-> 0, signers |-> {}, ts |-> now, expires |-> now]
<1>1. now \in Nat
  BY DEF IInv, TypeOK
<1>2. req.id \in Ids /\ req.by \in Names /\ req.amount \in Amounts /\ req.route \in Routes
  BY DEF Request
<1>3. g \in Grant
  BY <1>1, <1>2 DEF Grant
<1>4. ValidGrant(g)
  BY <1>1, FS_EmptySet DEF ValidGrant, CheckApproved
<1>5. granted' = Append(granted, g)
  BY DEF CheckApproved
<1>6. granted' \in Seq(Grant) /\ SignedOff'
  <2> HIDE DEF g
  <2> QED BY <1>3, <1>4, <1>5, GrantAppended DEF IInv
<1>7. [amount |-> req.amount, ts |-> now] \in Record
  BY <1>1, <1>2 DEF Record
<1>8. history' \in Seq(Record)
  BY <1>7, RecentType DEF CheckApproved, IInv
<1>9. TypeOK'
  BY <1>6, <1>8, Zenon DEF IInv, TypeOK, CheckApproved
<1>10. PendingSound'
  BY DEF IInv, PendingSound, Needed, CheckApproved
<1> QED BY <1>6, <1>9, <1>10 DEF IInv

LEMMA SignedKeeps ==
    ASSUME IInv, NEW id \in Ids, NEW name \in Names, ApproveSigned(id, name)
    PROVE  IInv'
<1> DEFINE p == pending[id]
           s == [p EXCEPT !.signers = p.signers \cup {name}]
<1>1. p # None /\ MaySign(p, name)
  BY DEF ApproveSigned
<1>2. p \in PendingTransfer
  BY <1>1, PendingFields DEF IInv
<1>3. pending' = [pending EXCEPT ![id] = s]
  BY DEF ApproveSigned
<1>4. s \in PendingTransfer
  BY <1>2 DEF PendingTransfer
<1>5. s.by = p.by /\ s.amount = p.amount /\ s.needed = p.needed
      /\ s.signers = p.signers \cup {name}
  BY <1>2 DEF PendingTransfer
<1> HIDE DEF s
<1>6. TypeOK'
  <2>1. pending' \in [Ids -> PendingTransfer \cup {None}]
    BY <1>3, <1>4 DEF IInv, TypeOK
  <2>2. UNCHANGED <<now, tampered, history, granted, booted>>
    BY DEF ApproveSigned
  <2> QED BY <2>1, <2>2, Zenon DEF IInv, TypeOK
<1>7. PendingSound'
  <2> SUFFICES ASSUME NEW i \in Ids, pending'[i] # None
               PROVE  /\ pending'[i].needed = Needed(pending'[i].amount)
                      /\ pending'[i].by \notin pending'[i].signers
    BY DEF PendingSound, Needed
  <2>1. CASE i = id
    <3>1. pending'[i] = s
      BY <1>3, <2>1 DEF IInv, TypeOK
    <3>2. p.needed = Needed(p.amount) /\ p.by \notin p.signers
      BY <1>1 DEF IInv, PendingSound
    <3> QED BY <1>1, <1>5, <3>1, <3>2 DEF MaySign
  <2>2. CASE i # id
    <3>1. pending'[i] = pending[i]
      BY <1>3, <2>2 DEF IInv, TypeOK
    <3> QED BY <3>1 DEF IInv, PendingSound
  <2> QED BY <2>1, <2>2
<1>8. SignedOff'
  BY DEF IInv, SignedOff, ValidGrant, Needed, ApproveSigned
<1> QED BY <1>6, <1>7, <1>8 DEF IInv

LEMMA GrantedKeeps ==
    ASSUME IInv, NEW id \in Ids, NEW name \in Names, ApproveGranted(id, name)
    PROVE  IInv'
<1> DEFINE p == pending[id]
           signed == p.signers \cup {name}
           g == [id |-> id, by |-> p.by, amount |-> p.amount, route |-> p.route,
                 needed |-> p.needed, signers |-> signed, ts |-> now, expires |-> p.expires]
<1>1. p # None /\ MaySign(p, name) /\ now <= p.expires /\ Cardinality(signed) >= p.needed
  BY DEF ApproveGranted
<1>2. /\ p.by \in Names /\ p.amount \in Amounts /\ p.route \in Routes
      /\ p.needed \in {1, 2} /\ signed \subseteq Names /\ p.expires \in Nat
  BY <1>1, PendingFields DEF IInv
<1>3. now \in Nat
  BY DEF IInv, TypeOK
<1>4. g \in Grant
  BY <1>2, <1>3 DEF Grant
<1>5. p.needed = Needed(p.amount) /\ p.by \notin p.signers
  BY <1>1 DEF IInv, PendingSound
<1>6. ValidGrant(g)
  BY <1>1, <1>5 DEF ValidGrant, MaySign
<1>7. granted' = Append(granted, g)
  BY DEF ApproveGranted
<1>8. granted' \in Seq(Grant) /\ SignedOff'
  <2> HIDE DEF g
  <2> QED BY <1>4, <1>6, <1>7, GrantAppended DEF IInv
<1>9. pending' = [pending EXCEPT ![id] = None]
  BY DEF ApproveGranted
<1>10. TypeOK'
  <2>1. pending' \in [Ids -> PendingTransfer \cup {None}]
    BY <1>9 DEF IInv, TypeOK
  <2>2. history' \in Seq(Record)
    <3>1. [amount |-> p.amount, ts |-> now] \in Record
      BY <1>2, <1>3 DEF Record
    <3> QED BY <3>1 DEF ApproveGranted, Counted, IInv, TypeOK
  <2>3. UNCHANGED <<now, tampered, booted>>
    BY DEF ApproveGranted
  <2> QED BY <1>8, <2>1, <2>2, <2>3, Zenon DEF IInv, TypeOK
<1>11. PendingSound'
  <2>1. \A i \in Ids : pending'[i] \in {pending[i], None}
    BY <1>9 DEF IInv, TypeOK
  <2> QED BY <2>1 DEF IInv, PendingSound, Needed
<1> QED BY <1>8, <1>10, <1>11 DEF IInv

LEMMA NextIInv == ConfigAssumption /\ IInv /\ [Next]_vars => IInv'
<1> SUFFICES ASSUME ConfigAssumption, IInv, [Next]_vars PROVE IInv'
  OBVIOUS
<1>1. CASE UNCHANGED vars
  <2>1. TypeOK'
    BY <1>1, Zenon DEF IInv, TypeOK, vars
  <2>2. PendingSound' /\ SignedOff'
    BY <1>1, PendingShrinks DEF vars
  <2> QED BY <2>1, <2>2 DEF IInv
<1>2. CASE Tick
  <2>1. now' \in Nat
    BY <1>2 DEF IInv, TypeOK, Tick
  <2>2. UNCHANGED <<tampered, history, pending, granted, booted>>
    BY <1>2 DEF Tick
  <2>3. TypeOK'
    BY <2>1, <2>2, Zenon DEF IInv, TypeOK
  <2> QED BY <2>2, <2>3, PendingShrinks DEF IInv
<1>3. CASE EditFile
  <2>1. UNCHANGED <<now, history, pending, granted, booted>> /\ tampered' \in BOOLEAN
    BY <1>3 DEF EditFile
  <2>2. TypeOK'
    BY <2>1, Zenon DEF IInv, TypeOK
  <2> QED BY <2>1, <2>2, PendingShrinks DEF IInv
<1>4. ASSUME NEW req \in Request, CheckDenied(req) PROVE IInv'
  <2>1. UNCHANGED <<now, tampered, pending, granted, booted>>
    BY <1>4 DEF CheckDenied
  <2>2. history' \in Seq(Record)
    BY <1>4, RecentType DEF CheckDenied, IInv
  <2>3. TypeOK'
    BY <2>1, <2>2, Zenon DEF IInv, TypeOK
  <2> QED BY <2>1, <2>3, PendingShrinks DEF IInv
<1>5. ASSUME NEW id \in Ids,
             pending' = [pending EXCEPT ![id] = None],
             UNCHANGED <<now, tampered, history, granted, booted>>
      PROVE  IInv'
  <2>1. pending' \in [Ids -> PendingTransfer \cup {None}]
    BY <1>5 DEF IInv, TypeOK
  <2>2. TypeOK'
    BY <1>5, <2>1, Zenon DEF IInv, TypeOK
  <2>3. \A i \in Ids : pending'[i] \in {pending[i], None}
    BY <1>5 DEF IInv, TypeOK
  <2> QED BY <1>5, <2>2, <2>3, PendingShrinks DEF IInv
<1>6. ASSUME NEW id \in Ids, NEW name \in Names, Approve(id, name) PROVE IInv'
  BY <1>5, <1>6, SignedKeeps, GrantedKeeps DEF Approve, ApproveExpired
<1>7. ASSUME NEW id \in Ids, DenyPending(id) PROVE IInv'
  BY <1>5, <1>7 DEF DenyPending
<1>8. CASE ListPending
  <2>1. UNCHANGED <<now, tampered, history, granted, booted>>
    BY <1>8 DEF ListPending
  <2>2. pending' \in [Ids -> PendingTransfer \cup {None}]
        /\ \A i \in Ids : pending'[i] \in {pending[i], None}
    BY <1>8 DEF ListPending, IInv, TypeOK
  <2>3. TypeOK'
    BY <2>1, <2>2, Zenon DEF IInv, TypeOK
  <2> QED BY <2>1, <2>2, <2>3, PendingShrinks DEF IInv
<1>9. CASE Restart
  <2>1. UNCHANGED <<now, granted>> /\ tampered' \in BOOLEAN
    BY <1>9 DEF Restart
  <2>2. history' \in Seq(Record) /\ booted' \in Nat
    BY <1>9 DEF Restart, IInv, TypeOK
  <2>3. pending' \in [Ids -> PendingTransfer \cup {None}]
        /\ \A i \in Ids : pending'[i] \in {pending[i], None}
    BY <1>9 DEF Restart
  <2>4. TypeOK'
    BY <2>1, <2>2, <2>3, Zenon DEF IInv, TypeOK
  <2> QED BY <2>1, <2>3, <2>4, PendingShrinks DEF IInv
<1>10. ASSUME NEW req \in Request, Check(req) PROVE IInv'
  BY <1>4, <1>10, HeldKeeps, ApprovedKeeps DEF Check
<1> QED BY <1>1, <1>2, <1>3, <1>6, <1>7, <1>8, <1>9, <1>10 DEF Next

THEOREM Invariance == Spec => []IInv
BY ConfigAssumption, InitIInv, NextIInv, PTL DEF Spec

\* Every reachable state of the transfer policy is well typed.
THEOREM TypeCorrect == Spec => []TypeOK
<1>1. IInv => TypeOK
  BY DEF IInv
<1> QED BY <1>1, Invariance, PTL

\* However many requests, people and restarts there are, what is approved was
\* signed off in time by as many people as its amount needs, the requester not
\* among them.
THEOREM SignedOffHolds == Spec => []SignedOff
<1>1. IInv => SignedOff
  BY DEF IInv
<1> QED BY <1>1, Invariance, PTL

\* Sign-offs are collected for one request and lost with it.
THEOREM SignaturesAreFreshHolds == Spec => SignaturesAreFresh
<1> DEFINE Fresh(id) ==
      pending'[id] # None /\ pending'[id].signers # {} =>
          /\ pending[id] # None
          /\ pending[id].signers \subseteq pending'[id].signers
          /\ pending'[id] = [pending[id] EXCEPT !.signers = pending'[id].signers]
<1>1. ASSUME IInv, [Next]_vars, NEW id \in Ids PROVE Fresh(id)
  <2>1. CASE pending'[id] \in {pending[id], None}
    <3>1. ASSUME pending'[id] = pending[id], pending[id] # None PROVE Fresh(id)
      BY <1>1, <3>1, PendingFields DEF IInv, PendingTransfer
    <3> QED BY <2>1, <3>1
  <2>2. ASSUME NEW req \in Request, CheckHeld(req) PROVE Fresh(id)
    <3>1. CASE req.id = id
      <4>1. pending'[id].signers = {}
        BY <1>1, <2>2, <3>1 DEF CheckHeld, IInv, TypeOK
      <4> QED BY <4>1
    <3>2. CASE req.id # id
      BY <1>1, <2>1, <2>2, <3>2 DEF CheckHeld, IInv, TypeOK
    <3> QED BY <3>1, <3>2
  <2>3. ASSUME NEW i \in Ids, NEW name \in Names, ApproveSigned(i, name) PROVE Fresh(id)
    <3>1. CASE i = id
      <4>1. pending[id] # None /\ pending[id] \in PendingTransfer
        BY <1>1, <2>3, <3>1, PendingFields DEF ApproveSigned, IInv
      <4>2. pending'[id] = [pending[id] EXCEPT !.signers = pending[id].signers \cup {name}]
        BY <1>1, <2>3, <3>1 DEF ApproveSigned, IInv, TypeOK
      <4>3. pending'[id].signers = pending[id].signers \cup {name}
        BY <4>1, <4>2 DEF PendingTransfer
      <4> QED BY <4>1, <4>2, <4>3
    <3>2. CASE i # id
      BY <1>1, <2>1, <2>3, <3>2 DEF ApproveSigned, IInv, TypeOK
    <3> QED BY <3>1, <3>2
  <2>4. ASSUME NEW i \in Ids, pending' = [pending EXCEPT ![i] = None] PROVE Fresh(id)
    BY <1>1, <2>1, <2>4 DEF IInv, TypeOK
  <2>5. ASSUME pending' = pending PROVE Fresh(id)
    BY <2>1, <2>5
  <2>6. CASE ListPending \/ Restart
    BY <1>1, <2>1, <2>6 DEF ListPending, Restart
  <2>7. ASSUME NEW req \in Request, Check(req) PROVE Fresh(id)
    BY <2>2, <2>5, <2>7 DEF Check, CheckDenied, CheckApproved
  <2>8. ASSUME NEW i \in Ids, NEW name \in Names, Approve(i, name) PROVE Fresh(id)
    BY <2>3, <2>4, <2>8 DEF Approve, ApproveExpired, ApproveGranted
  <2>9. ASSUME NEW i \in Ids, DenyPending(i) PROVE Fresh(id)
    BY <2>4, <2>9 DEF DenyPending
  <2>10. CASE UNCHANGED vars \/ Tick \/ EditFile
    BY <2>5, <2>10 DEF vars, Tick, EditFile
  <2> QED BY <1>1, <2>6, <2>7, <2>8, <2>9, <2>10 DEF Next
<1>2. IInv /\ [Next]_vars => [\A id \in Ids : Fresh(id)]_vars
  BY <1>1
<1> QED BY <1>2, Invariance, PTL DEF Spec, SignaturesAreFresh

-----------------------------------------------------------------------------
(* The rolling limits. *)

\* The records are the last approvals, from the o-th on: those before, since the service
\* started, are older than a day.
Tracks(records, o) ==
    /\ booted <= o /\ o + Len(records) = Len(granted)
    /\ \A k \in 1..Len(records) : /\ records[k].amount = granted[o + k].amount
                                  /\ records[k].ts = granted[o + k].ts
    /\ \A j \in (booted + 1)..o : granted[j].ts < now - Day

Tracked == \E o \in Nat : Tracks(history, o)

LimitInv == IInv /\ Tracked /\ AutoApprovalsWithinLimits

\* Pruning takes a segment from the front, all of it older than a day.
LEMMA RecentIs ==
    ASSUME TypeOK
    PROVE  \E m \in 0..Len(history) :
              /\ Recent(history) = SubSeq(history, m + 1, Len(history))
              /\ \A k \in 1..m : history[k].ts < now - Day
<1> DEFINE n == Len(history)
           old == {i \in 1..n : \A j \in 1..i : history[j].ts < now - Day}
           T == {i \in 1..(n + 1) : i \notin old}
<1>1. n \in Nat
  BY DEF TypeOK
<1>2. T \in SUBSET Nat /\ n + 1 \in T
  BY <1>1
<1>3. PICK x \in T : \A y \in T : x <= y
  BY <1>2, LeastNat
<1>4. x \in 1..(n + 1) /\ x \notin old
  BY <1>3
<1>5. old = 1..(x - 1)
  <2>1. ASSUME NEW i \in 1..(x - 1) PROVE i \in old
    BY <1>1, <1>3, <1>4, <2>1
  <2>2. ASSUME NEW i \in old PROVE i \in 1..(x - 1)
    <3>1. i \in 1..n /\ \A j \in 1..i : history[j].ts < now - Day
      BY <2>2
    <3>2. ~(x <= i)
      <4>1. SUFFICES ASSUME x <= i PROVE x \in old
        BY <1>4
      <4>2. x \in 1..n /\ \A j \in 1..x : j \in 1..i
        BY <1>1, <1>4, <3>1, <4>1
      <4> QED
        BY <3>1, <4>2
    <3> QED
      BY <1>4, <3>1, <3>2
  <2> QED
    BY <2>1, <2>2
<1>6. Cardinality(old) = x - 1
  <2> DEFINE m == x - 1
  <2>1. m \in Nat /\ old = 1..m
    BY <1>1, <1>4, <1>5
  <2> HIDE DEF m, old
  <2>2. Cardinality(1..m) = IF 1 > m THEN 0 ELSE m - 1 + 1
    BY <2>1, FS_Interval
  <2>3. Cardinality(1..m) = m
    BY <2>1, <2>2
  <2>4. Cardinality(old) = m
    BY <2>1, <2>3
  <2> QED
    BY <2>4 DEF m
<1>7. \A k \in 1..(x - 1) : history[k].ts < now - Day
  <2>1. ASSUME NEW k \in 1..(x - 1) PROVE history[k].ts < now - Day
    <3>1. k \in old
      BY <1>5
    <3>2. k \in 1..k
      BY <1>1, <1>4
    <3> QED
      BY <3>1, <3>2
  <2> QED
    BY <2>1
<1>8. Recent(history) = SubSeq(history, Cardinality(old) + 1, Len(history))
  BY DEF Recent
<1> HIDE DEF old
<1> QED
  BY <1>1, <1>4, <1>6, <1>7, <1>8

LEMMA RecentTracks ==
    ASSUME ConfigAssumption, TypeOK, NEW o \in Nat, Tracks(history, o)
    PROVE  \E q \in Nat : Tracks(Recent(history), q)
<1>1. PICK m \in 0..Len(history) :
              /\ Recent(history) = SubSeq(history, m + 1, Len(history))
              /\ \A k \in 1..m : history[k].ts < now - Day
  BY RecentIs
<1> DEFINE rest == Recent(history)
           n == Len(history)
<1>2. history \in Seq(Record) /\ n \in Nat /\ m \in Nat /\ m <= n
  BY <1>1 DEF TypeOK
<1>3. Len(rest) = n - m /\ \A k \in 1..Len(rest) : rest[k] = history[m + k]
  BY <1>1, <1>2
<1>4. booted \in Nat /\ booted <= o /\ o + n = Len(granted)
  BY DEF Tracks, TypeOK
<1>5. \A k \in 1..n : history[k].amount = granted[o + k].amount /\ history[k].ts = granted[o + k].ts
  BY DEF Tracks
<1>6. \A j \in (booted + 1)..o : granted[j].ts < now - Day
  BY DEF Tracks
<1> HIDE DEF rest, n
<1>7. \A k \in 1..Len(rest) : rest[k].amount = granted[(o + m) + k].amount
                             /\ rest[k].ts = granted[(o + m) + k].ts
  <2>1. ASSUME NEW k \in 1..Len(rest)
        PROVE  rest[k].amount = granted[(o + m) + k].amount /\ rest[k].ts = granted[(o + m) + k].ts
    <3>1. m + k \in 1..n /\ o + (m + k) = (o + m) + k
      BY <1>2, <1>3
    <3>2. /\ history[m + k].amount = granted[o + (m + k)].amount
          /\ history[m + k].ts = granted[o + (m + k)].ts
      BY <1>5, <3>1
    <3> QED
      BY <1>3, <3>1, <3>2
  <2> QED
    BY <2>1
<1>8. \A j \in (booted + 1)..(o + m) : granted[j].ts < now - Day
  <2>1. SUFFICES ASSUME NEW j \in (booted + 1)..(o + m) PROVE granted[j].ts < now - Day
    OBVIOUS
  <2>2. CASE j <= o
    <3>1. j \in (booted + 1)..o
      BY <1>2, <1>4, <2>2
    <3> QED
      BY <1>6, <3>1
  <2>3. CASE ~(j <= o)
    <3>1. j - o \in 1..m /\ j - o \in 1..n /\ o + (j - o) = j
      BY <1>2, <1>4, <2>3
    <3> DEFINE k == j - o
    <3>2. k \in 1..m /\ k \in 1..n /\ o + k = j
      BY <3>1
    <3> HIDE DEF k
    <3>3. history[k].ts < now - Day /\ history[k].ts = granted[o + k].ts
      BY <1>1, <1>5, <3>2
    <3> QED
      BY <3>2, <3>3
  <2> QED
    BY <2>2, <2>3
<1>9. o + m \in Nat /\ booted <= o + m /\ (o + m) + Len(rest) = Len(granted)
  <2> DEFINE l == Len(rest)
             all == Len(granted)
  <2>1. l = n - m /\ o + n = all
    BY <1>3, <1>4
  <2> HIDE DEF l, all
  <2>2. o + m \in Nat /\ booted <= o + m
    BY <1>2, <1>4
  <2>3. (o + m) + l = all
    BY <1>2, <1>4, <2>1
  <2> QED
    BY <2>2, <2>3 DEF l, all
<1>10. Tracks(rest, o + m)
  BY <1>7, <1>8, <1>9 DEF Tracks
<1> QED
  BY <1>9, <1>10 DEF rest

\* One more approval and its record.
LEMMA AppendTracks ==
    ASSUME TypeOK, NEW records \in Seq(Record), NEW o \in Nat, Tracks(records, o),
           NEW r \in Record, NEW g \in Grant, r.amount = g.amount, r.ts = g.ts,
           history' = Append(records, r), granted' = Append(granted, g), UNCHANGED <<now, booted>>
    PROVE  Tracked'
<1> DEFINE n == Len(granted)
           l == Len(records)
<1>1. /\ n \in Nat /\ Len(granted') = n + 1 /\ granted'[n + 1] = g
      /\ \A k \in 1..n : granted'[k] = granted[k]
  BY DEF TypeOK
<1>2. /\ l \in Nat /\ Len(history') = l + 1 /\ history'[l + 1] = r
      /\ \A k \in 1..l : history'[k] = records[k]
  OBVIOUS
<1>3. booted \in Nat /\ booted <= o /\ o + l = n
  BY DEF Tracks, TypeOK
<1>4. \A k \in 1..l : records[k].amount = granted[o + k].amount /\ records[k].ts = granted[o + k].ts
  BY DEF Tracks
<1>5. \A j \in (booted + 1)..o : granted[j].ts < now - Day
  BY DEF Tracks
<1> HIDE DEF n, l
<1>6. \A k \in 1..(l + 1) : history'[k].amount = granted'[o + k].amount
                           /\ history'[k].ts = granted'[o + k].ts
  <2>1. SUFFICES ASSUME NEW k \in 1..(l + 1)
                 PROVE  history'[k].amount = granted'[o + k].amount /\ history'[k].ts = granted'[o + k].ts
    OBVIOUS
  <2>2. CASE k \in 1..l
    <3>1. o + k \in 1..n
      BY <1>1, <1>2, <1>3, <2>2
    <3> QED
      BY <1>1, <1>2, <1>4, <2>2, <3>1
  <2>3. CASE k \notin 1..l
    <3>1. k = l + 1 /\ o + k = n + 1
      BY <1>1, <1>2, <1>3, <2>3
    <3> QED
      BY <1>1, <1>2, <3>1
  <2> QED
    BY <2>2, <2>3
<1>7. \A j \in (booted + 1)..o : granted'[j].ts < now - Day
  <2>1. \A j \in (booted + 1)..o : j \in 1..n
    BY <1>1, <1>2, <1>3
  <2> QED
    BY <1>1, <1>5, <2>1
<1>8. o + (l + 1) = n + 1
  BY <1>1, <1>2, <1>3
<1>9. /\ booted' <= o /\ o + Len(history') = Len(granted')
      /\ \A k \in 1..Len(history') : history'[k].amount = granted'[o + k].amount
                                   /\ history'[k].ts = granted'[o + k].ts
      /\ \A j \in (booted' + 1)..o : granted'[j].ts < now' - Day
  BY <1>1, <1>2, <1>3, <1>6, <1>7, <1>8
<1> QED
  BY <1>9 DEF Tracked, Tracks

LEMMA GrantFields ==
    ASSUME ConfigAssumption, NEW g \in Grant
    PROVE  g.amount \in Nat /\ g.ts \in Nat /\ g.needed \in 0..2
BY DEF ConfigAssumption, Grant

\* The approvals and their amounts, before and after one more.
LEMMA OneMore ==
    ASSUME ConfigAssumption, TypeOK, NEW g \in Grant, granted' = Append(granted, g)
    PROVE  /\ Len(granted) \in Nat /\ Len(granted') = Len(granted) + 1
           /\ granted'[Len(granted) + 1] = g
           /\ \A j \in 1..Len(granted) : granted'[j] = granted[j]
           /\ \A j \in 1..(Len(granted) + 1) :
                 granted'[j].ts \in Nat /\ granted'[j].amount \in Nat /\ granted'[j].needed \in 0..2
           /\ \A j \in 1..Len(granted) : AmountsOf(granted)[j] = granted[j].amount
           /\ \A j \in 1..(Len(granted) + 1) : AmountsOf(granted')[j] = granted'[j].amount
<1>1. granted \in Seq(Grant) /\ granted' \in Seq(Grant)
  BY DEF TypeOK
<1>2. /\ Len(granted) \in Nat /\ Len(granted') = Len(granted) + 1
      /\ granted'[Len(granted) + 1] = g
      /\ \A j \in 1..Len(granted) : granted'[j] = granted[j]
  BY <1>1
<1>3. DOMAIN granted = 1..Len(granted) /\ DOMAIN granted' = 1..(Len(granted) + 1)
  BY <1>1, <1>2
<1>4. \A j \in 1..(Len(granted) + 1) : granted'[j] \in Grant
  BY <1>1, <1>2
<1>5. \A j \in 1..(Len(granted) + 1) :
         granted'[j].ts \in Nat /\ granted'[j].amount \in Nat /\ granted'[j].needed \in 0..2
  BY <1>4, GrantFields
<1>6. \A j \in 1..Len(granted) : AmountsOf(granted)[j] = granted[j].amount
  BY <1>3 DEF AmountsOf
<1>7. \A j \in 1..(Len(granted) + 1) : AmountsOf(granted')[j] = granted'[j].amount
  BY <1>3 DEF AmountsOf
<1> QED BY <1>2, <1>5, <1>6, <1>7

\* An approval leaves the days of those before it as they were.
LEMMA EarlierDays ==
    ASSUME ConfigAssumption, TypeOK, NEW g \in Grant, granted' = Append(granted, g), booted' = booted,
           NEW e \in (booted + 1)..Len(granted), DayWithinLimits(e, booted + 1)
    PROVE  DayWithinLimits(e, booted + 1)'
<1> DEFINE b == booted + 1
           n == Len(granted)
           day == {j \in b..e : granted[j].ts >= granted[e].ts - Day}
           later == {j \in (booted' + 1)..e : granted'[j].ts >= granted'[e].ts - Day}
           f == AmountsOf(granted)
           h == AmountsOf(granted')
<1>1. b \in Nat /\ 1 <= b /\ n \in Nat /\ e \in b..n
  BY DEF TypeOK
<1>2. /\ \A j \in 1..n : granted'[j] = granted[j] /\ granted'[j].amount \in Nat
      /\ \A j \in 1..n : f[j] = granted[j].amount /\ h[j] = granted'[j].amount
  BY <1>1, OneMore
<1>3. \A j \in b..e : j \in 1..n
  BY <1>1
<1>4. later = day
  <2>1. booted' + 1 = b /\ e \in b..e
    BY <1>1
  <2> QED BY <1>2, <1>3, <2>1
<1>5. IsFiniteSet(day)
  <2>1. IsFiniteSet(b..e)
    BY <1>1, FS_Interval
  <2> QED BY <2>1, FS_Subset
<1>6. \A j \in day : f[j] \in Int /\ f[j] = h[j]
  BY <1>2, <1>3
<1>7. /\ MaxTransfersPerDay > 0 => Cardinality(day) <= MaxTransfersPerDay
      /\ MaxDailyUSD > 0 => SumFunctionOnSet(f, day) <= MaxDailyUSD
  BY DEF DayWithinLimits, DayOf
<1> HIDE DEF day, later, f, h
<1>8. SumFunctionOnSet(f, day) = SumFunctionOnSet(h, day)
  BY <1>5, <1>6, SumSame
<1>9. /\ MaxTransfersPerDay > 0 => Cardinality(later) <= MaxTransfersPerDay
      /\ MaxDailyUSD > 0 => SumFunctionOnSet(h, later) <= MaxDailyUSD
  BY <1>4, <1>7, <1>8
<1> QED BY <1>9 DEF DayWithinLimits, DayOf, later, h

\* The day of an approval made now is among the records and the approval itself, and
\* the velocity gate has counted those.
LEMMA NewDay ==
    ASSUME ConfigAssumption, TypeOK, NEW g \in Grant, granted' = Append(granted, g), booted' = booted,
           g.ts = now, NEW records \in Seq(Record), NEW o \in Nat, Tracks(records, o),
           MaxTransfersPerDay > 0 => Len(records) < MaxTransfersPerDay,
           MaxDailyUSD > 0 => Total(records) + g.amount <= MaxDailyUSD,
           NEW last, last = Len(granted) + 1
    PROVE  DayWithinLimits(last, booted + 1)'
<1> DEFINE b == booted + 1
           n == Len(granted)
           l == Len(records)
           before == (o + 1)..(o + l)
           counted == before \cup {last}
           day == {j \in (booted' + 1)..last : granted'[j].ts >= granted'[last].ts - Day}
           f == AmountsOf(records)
           h == AmountsOf(granted')
<1>1. /\ n \in Nat /\ booted \in Nat /\ l \in Nat
      /\ booted <= o /\ o + l = n /\ last = n + 1
  BY DEF Tracks, TypeOK
<1>2. /\ granted'[last] = g /\ \A j \in 1..n : granted'[j] = granted[j]
      /\ \A j \in 1..last : granted'[j].ts \in Nat /\ granted'[j].amount \in Nat
      /\ \A j \in 1..last : h[j] = granted'[j].amount
  BY OneMore
<1>3. \A j \in (booted + 1)..o : granted[j].ts < now - Day
  BY DEF Tracks
<1>4. \A k \in 1..l : records[k].amount = granted[o + k].amount
  BY DEF Tracks
<1>5. DOMAIN records = 1..l
  OBVIOUS
<1>6. \A k \in 1..l : f[k] = records[k].amount
  BY <1>5 DEF AmountsOf
<1>7. now \in Nat /\ Day \in Nat
  BY DEF ConfigAssumption, TypeOK
<1>8. day \in SUBSET counted
  <2>1. SUFFICES ASSUME NEW j \in day PROVE j \in counted
    OBVIOUS
  <2>2. j \in b..last /\ granted'[j].ts >= now - Day
    BY <1>2
  <2>3. CASE j = last
    BY <2>3
  <2>4. CASE j # last
    <3>1. j \in 1..n /\ j >= b
      BY <1>1, <2>2, <2>4
    <3>2. ~(j <= o)
      <4>1. SUFFICES ASSUME j <= o PROVE FALSE
        OBVIOUS
      <4>2. granted[j].ts < now - Day
        BY <1>1, <1>3, <3>1, <4>1
      <4>3. granted'[j] = granted[j] /\ granted'[j].ts \in Nat
        BY <1>1, <1>2, <3>1
      <4> QED BY <1>7, <2>2, <4>2, <4>3
    <3> QED BY <1>1, <3>1, <3>2
  <2> QED BY <2>3, <2>4
<1>9. IsFiniteSet(before) /\ Cardinality(before) = l
  <2> DEFINE lo == o + 1
             hi == o + l
  <2>1. lo \in Int /\ hi \in Int /\ hi - lo + 1 = l /\ (lo > hi => l = 0)
    BY <1>1
  <2>2. before = lo..hi
    OBVIOUS
  <2> HIDE DEF lo, hi, before
  <2>3. IsFiniteSet(lo..hi) /\ Cardinality(lo..hi) = IF lo > hi THEN 0 ELSE hi - lo + 1
    BY <2>1, FS_Interval
  <2> QED BY <2>1, <2>2, <2>3
<1>10. last \notin before
  BY <1>1
<1>11. \A k \in 1..l : f[k] \in Int /\ h[o + k] = f[k]
  <2>1. SUFFICES ASSUME NEW k \in 1..l PROVE f[k] \in Int /\ h[o + k] = f[k]
    OBVIOUS
  <2>2. o + k \in 1..n /\ o + k \in 1..last
    BY <1>1
  <2>3. h[o + k] = granted'[o + k].amount /\ granted'[o + k] = granted[o + k] /\ granted'[o + k].amount \in Nat
    BY <1>2, <2>2
  <2>4. f[k] = records[k].amount /\ records[k].amount = granted[o + k].amount
    BY <1>4, <1>6
  <2> QED BY <2>3, <2>4
<1>12. \A x \in counted : h[x] \in Nat
  <2>1. \A x \in counted : x \in 1..last
    BY <1>1
  <2> QED BY <1>2, <2>1
<1>13. h[last] = g.amount
  <2>1. last \in 1..last
    BY <1>1
  <2> QED BY <1>2, <2>1
<1>14. Total(records) = SumFunctionOnSet(f, 1..l)
  BY <1>5, Zenon DEF Total, SumFunction, AmountsOf
<1>15. SumFunctionOnSet(f, 1..l) = SumFunctionOnSet(h, before)
  <2>1. o \in Int /\ l \in Nat
    BY <1>1
  <2> HIDE DEF f, h, l
  <2>2. SumFunctionOnSet(f, 1..l) = SumFunctionOnSet(h, (o + 1)..(o + l))
    BY <1>11, <2>1, SumShift
  <2> QED BY <2>2
<1>16. /\ \A x \in before : h[x] \in Int
       /\ h[last] \in Int
  BY <1>12
<1> HIDE DEF day, before, f, h
<1>17. IsFiniteSet(counted) /\ Cardinality(counted) = l + 1
  BY <1>9, <1>10, FS_AddElement
<1>18. SumFunctionOnSet(h, counted) = SumFunctionOnSet(h, before) + h[last]
  BY <1>9, <1>10, <1>16, SumAdd
<1> HIDE DEF counted
<1>19. IsFiniteSet(day) /\ Cardinality(day) <= l + 1 /\ Cardinality(day) \in Nat
  <2>1. IsFiniteSet(day) /\ Cardinality(day) <= Cardinality(counted)
    BY <1>8, <1>17, FS_Subset
  <2>2. Cardinality(day) \in Nat
    BY <2>1, FS_CardinalityType
  <2> QED BY <1>17, <2>1, <2>2
<1>20. SumFunctionOnSet(h, day) <= SumFunctionOnSet(h, counted)
  BY <1>8, <1>12, <1>17, SumPart
<1>21. SumFunctionOnSet(h, counted) = Total(records) + g.amount
  BY <1>13, <1>14, <1>15, <1>18
<1>22. MaxTransfersPerDay > 0 => Cardinality(day) <= MaxTransfersPerDay
  <2>1. MaxTransfersPerDay \in Nat
    BY DEF ConfigAssumption
  <2>2. MaxTransfersPerDay > 0 => l < MaxTransfersPerDay
    OBVIOUS
  <2> HIDE DEF l
  <2> QED BY <1>1, <1>19, <2>1, <2>2
<1>23. MaxDailyUSD > 0 => SumFunctionOnSet(h, day) <= MaxDailyUSD
  <2>1. SUFFICES ASSUME MaxDailyUSD > 0 PROVE SumFunctionOnSet(h, day) <= MaxDailyUSD
    OBVIOUS
  <2>2. MaxDailyUSD \in Nat
    BY DEF ConfigAssumption
  <2>3. SumFunctionOnSet(h, counted) <= MaxDailyUSD
    BY <1>21, <2>1
  <2>4. \A x \in day : h[x] \in Nat
    BY <1>8, <1>12
  <2>5. SumFunctionOnSet(h, day) \in Nat
    BY <1>19, <2>4, SumNat
  <2>6. SumFunctionOnSet(h, counted) \in Nat
    BY <1>12, <1>17, SumNat
  <2> QED BY <1>20, <2>2, <2>3, <2>5, <2>6
<1> QED BY <1>22, <1>23 DEF DayWithinLimits, DayOf, day, h

LEMMA InitLimits == ConfigAssumption /\ Init => Tracked /\ AutoApprovalsWithinLimits
<1> SUFFICES ASSUME ConfigAssumption, Init PROVE Tracked /\ AutoApprovalsWithinLimits
  OBVIOUS
<1>1. history = <<>> /\ granted = <<>> /\ booted = 0
  BY DEF Init
<1>2. Tracks(history, 0)
  BY <1>1 DEF Tracks
<1>3. Tracked
  BY <1>2 DEF Tracked
<1>4. AutoApprovalsWithinLimits
  BY <1>1 DEF AutoApprovalsWithinLimits
<1> QED BY <1>3, <1>4

\* A step that neither approves anything nor starts the service again.
LEMMA QuietLimits ==
    ASSUME LimitInv, UNCHANGED <<granted, booted>>
    PROVE  AutoApprovalsWithinLimits'
BY DEF LimitInv, AutoApprovalsWithinLimits, DayWithinLimits, DayOf

LEMMA AppendLimits ==
    ASSUME ConfigAssumption, LimitInv, NEW g \in Grant, granted' = Append(granted, g), booted' = booted,
           NEW last, last = Len(granted) + 1,
           g.needed = 0 => DayWithinLimits(last, booted + 1)'
    PROVE  AutoApprovalsWithinLimits'
<1>1. TypeOK /\ AutoApprovalsWithinLimits
  BY DEF LimitInv, IInv
<1>2. SUFFICES ASSUME NEW e \in (booted' + 1)..Len(granted'), granted'[e].needed = 0
               PROVE  DayWithinLimits(e, booted + 1)'
  BY DEF AutoApprovalsWithinLimits
<1>3. /\ Len(granted) \in Nat /\ Len(granted') = Len(granted) + 1 /\ granted'[Len(granted) + 1] = g
      /\ \A j \in 1..Len(granted) : granted'[j] = granted[j]
  BY <1>1, OneMore
<1>4. booted \in Nat /\ booted' = booted
  BY <1>1 DEF TypeOK
<1>5. CASE e = last
  BY <1>2, <1>3, <1>5
<1>6. CASE e # last
  <2>1. e \in (booted + 1)..Len(granted) /\ e \in 1..Len(granted)
    BY <1>2, <1>3, <1>4, <1>6
  <2>2. granted[e].needed = 0
    BY <1>2, <1>3, <2>1
  <2>3. DayWithinLimits(e, booted + 1)
    BY <1>1, <2>1, <2>2 DEF AutoApprovalsWithinLimits
  <2> QED BY <1>1, <1>4, <2>1, <2>3, EarlierDays
<1> QED BY <1>5, <1>6

LEMMA ApprovedLimits ==
    ASSUME ConfigAssumption, LimitInv, NEW req \in Request, CheckApproved(req)
    PROVE  Tracked' /\ AutoApprovalsWithinLimits'
<1> DEFINE g == [id |-> req.id, by |-> req.by, amount |-> req.amount, route |-> req.route,
                 needed |-> 0, signers |-> {}, ts |-> now, expires |-> now]
           r == [amount |-> req.amount, ts |-> now]
           records == Recent(history)
<1>1. TypeOK /\ Tracked
  BY DEF LimitInv, IInv
<1>2. req.id \in Ids /\ req.by \in Names /\ req.amount \in Amounts /\ req.route \in Routes
  BY DEF Request
<1>3. g \in Grant /\ r \in Record
  BY <1>1, <1>2 DEF Grant, Record, TypeOK
<1>4. g.amount = req.amount /\ g.ts = now /\ r.amount = req.amount /\ r.ts = now
  OBVIOUS
<1>5. records \in Seq(Record)
  BY <1>1, RecentType
<1>6. PICK o \in Nat : Tracks(history, o)
  BY <1>1 DEF Tracked
<1>7. PICK q \in Nat : Tracks(records, q)
  BY <1>1, <1>6, RecentTracks
<1>8. history' = Append(records, r) /\ granted' = Append(granted, g) /\ UNCHANGED <<now, booted>>
  BY DEF CheckApproved
<1>9. /\ MaxTransfersPerDay > 0 => Len(records) < MaxTransfersPerDay
      /\ MaxDailyUSD > 0 => Total(records) + req.amount <= MaxDailyUSD
  BY DEF CheckApproved, WithinVelocity
<1> HIDE DEF g, r, records
<1>10. Tracked'
  BY <1>1, <1>3, <1>4, <1>5, <1>7, <1>8, AppendTracks
<1>11. MaxDailyUSD > 0 => Total(records) + g.amount <= MaxDailyUSD
  BY <1>4, <1>9
<1>12. PICK last \in Nat : last = Len(granted) + 1
  BY <1>1 DEF TypeOK
<1>13. DayWithinLimits(last, booted + 1)'
  BY <1>1, <1>3, <1>4, <1>5, <1>7, <1>8, <1>9, <1>11, <1>12, NewDay
<1>14. AutoApprovalsWithinLimits'
  BY <1>3, <1>8, <1>12, <1>13, AppendLimits
<1> QED BY <1>10, <1>14

LEMMA GrantedLimits ==
    ASSUME ConfigAssumption, LimitInv, NEW id \in Ids, NEW name \in Names, ApproveGranted(id, name)
    PROVE  Tracked' /\ AutoApprovalsWithinLimits'
<1> DEFINE p == pending[id]
           signed == p.signers \cup {name}
           g == [id |-> id, by |-> p.by, amount |-> p.amount, route |-> p.route,
                 needed |-> p.needed, signers |-> signed, ts |-> now, expires |-> p.expires]
           r == [amount |-> p.amount, ts |-> now]
<1>1. TypeOK /\ Tracked
  BY DEF LimitInv, IInv
<1>2. p # None
  BY DEF ApproveGranted
<1>3. /\ p.by \in Names /\ p.amount \in Amounts /\ p.route \in Routes
      /\ p.needed \in {1, 2} /\ signed \subseteq Names /\ p.expires \in Nat
  BY <1>1, <1>2, PendingFields
<1>4. g \in Grant /\ r \in Record
  BY <1>1, <1>3 DEF Grant, Record, TypeOK
<1>5. g.amount = r.amount /\ g.ts = r.ts /\ g.needed # 0
  BY <1>3
<1>6. PICK o \in Nat : Tracks(history, o)
  BY <1>1 DEF Tracked
<1>7. history' = Append(history, r) /\ granted' = Append(granted, g) /\ UNCHANGED <<now, booted>>
  BY DEF ApproveGranted, Counted
<1>8. history \in Seq(Record)
  BY <1>1 DEF TypeOK
<1> HIDE DEF g, r
<1>9. Tracked'
  BY <1>1, <1>4, <1>5, <1>6, <1>7, <1>8, AppendTracks
<1>10. PICK last \in Nat : last = Len(granted) + 1
  BY <1>1 DEF TypeOK
<1>11. AutoApprovalsWithinLimits'
  BY <1>4, <1>5, <1>7, <1>10, AppendLimits
<1> QED BY <1>9, <1>11

LEMMA StepLimits ==
    ASSUME ConfigAssumption, LimitInv, [Next]_vars
    PROVE  Tracked' /\ AutoApprovalsWithinLimits'
<1>1. TypeOK /\ Tracked
  BY DEF LimitInv, IInv
<1>2. PICK o \in Nat : Tracks(history, o)
  BY <1>1 DEF Tracked
<1>3. CASE UNCHANGED <<now, history, granted, booted>>
  <2>1. Tracks(history, o)'
    BY <1>2, <1>3 DEF Tracks
  <2>2. Tracked'
    BY <2>1 DEF Tracked
  <2> QED BY <1>3, <2>2, QuietLimits
<1>4. CASE Tick
  <2>1. UNCHANGED <<history, granted, booted>> /\ now' = now + 1
    BY <1>4 DEF Tick
  <2>2. \A j \in (booted' + 1)..o : granted'[j].ts < now' - Day
    <3>1. SUFFICES ASSUME NEW j \in (booted + 1)..o PROVE granted[j].ts < (now + 1) - Day
      BY <2>1
    <3>2. granted[j].ts < now - Day
      BY <1>2 DEF Tracks
    <3>3. j \in 1..Len(granted)
      BY <1>1, <1>2 DEF Tracks, TypeOK
    <3>4. granted[j] \in Grant
      BY <1>1, <3>3 DEF TypeOK
    <3>5. granted[j].ts \in Nat
      BY <3>4, GrantFields
    <3>6. now \in Nat /\ Day \in Nat
      BY <1>1 DEF TypeOK, ConfigAssumption
    <3> QED BY <3>2, <3>5, <3>6
  <2>3. Tracks(history, o)'
    BY <1>2, <2>1, <2>2 DEF Tracks
  <2>4. Tracked'
    BY <2>3 DEF Tracked
  <2> QED BY <2>1, <2>4, QuietLimits
<1>5. CASE history' = Recent(history) /\ UNCHANGED <<now, granted, booted>>
  <2>1. PICK q \in Nat : Tracks(Recent(history), q)
    BY <1>1, <1>2, RecentTracks
  <2> DEFINE records == Recent(history)
  <2>2. history' = records /\ Tracks(records, q)
    BY <1>5, <2>1
  <2> HIDE DEF records
  <2>3. Tracks(history, q)'
    BY <1>5, <2>2 DEF Tracks
  <2>4. Tracked'
    BY <2>3 DEF Tracked
  <2> QED BY <1>5, <2>4, QuietLimits
<1>6. CASE Restart
  <2>1. history' = <<>> /\ booted' = Len(granted) /\ UNCHANGED <<now, granted>>
    BY <1>6 DEF Restart
  <2>2. Len(granted) \in Nat
    BY <1>1 DEF TypeOK
  <2>3. Tracks(history, Len(granted))'
    BY <2>1, <2>2 DEF Tracks
  <2>4. Tracked'
    BY <2>1, <2>2, <2>3 DEF Tracked
  <2>5. (booted' + 1)..Len(granted') = {}
    BY <2>1, <2>2
  <2>6. AutoApprovalsWithinLimits'
    BY <2>5 DEF AutoApprovalsWithinLimits
  <2> QED BY <2>4, <2>6
<1>7. ASSUME NEW req \in Request, CheckApproved(req)
      PROVE  Tracked' /\ AutoApprovalsWithinLimits'
  BY <1>7, ApprovedLimits
<1>8. ASSUME NEW id \in Ids, NEW name \in Names, ApproveGranted(id, name)
      PROVE  Tracked' /\ AutoApprovalsWithinLimits'
  BY <1>8, GrantedLimits
<1>9. ASSUME NEW req \in Request, Check(req) PROVE Tracked' /\ AutoApprovalsWithinLimits'
  BY <1>5, <1>7, <1>9 DEF Check, CheckDenied, CheckHeld
<1>10. ASSUME NEW id \in Ids, NEW name \in Names, Approve(id, name)
       PROVE  Tracked' /\ AutoApprovalsWithinLimits'
  BY <1>3, <1>8, <1>10 DEF Approve, ApproveExpired, ApproveSigned
<1>11. CASE UNCHANGED vars \/ EditFile \/ ListPending \/ \E id \in Ids : DenyPending(id)
  BY <1>3, <1>11 DEF vars, EditFile, ListPending, DenyPending
<1> QED BY <1>4, <1>6, <1>9, <1>10, <1>11 DEF Next

\* Whatever the requests, the sign-offs, the edits of the policy file and the restarts, an
\* approval given without sign-off leaves the count and the sum of the last 24 hours within the
\* limits of policy.go's checkVelocity, transfers that were signed off by people included.
THEOREM AutoApprovalsWithinLimitsHolds == Spec => []AutoApprovalsWithinLimits
<1>1. Init => LimitInv
  BY ConfigAssumption, InitIInv, InitLimits DEF LimitInv
<1>2. LimitInv /\ [Next]_vars => LimitInv'
  BY ConfigAssumption, NextIInv, StepLimits DEF LimitInv
<1>3. LimitInv => AutoApprovalsWithinLimits
  BY DEF LimitInv
<1> QED BY <1>1, <1>2, <1>3, PTL DEF Spec

-----------------------------------------------------------------------------
(* The funding engine. *)

(***************************************************************************)
(* The inductive invariant of the funding engine.  Every entry published   *)
(* is one of the strategies' (AllEntries), no two have an id in common,    *)
(* and whatever follows from it, the intent, its fills, the two halves of  *)
(* a differential and the position, is traced back to it.                  *)
(***************************************************************************)
AllEntries ==
    {Carry(v) : v \in Venues} \cup {ReverseCarry(v) : v \in Venues}
        \cup {Differential(p[1], p[2]) : p \in Venues \X Venues}

\* An entry of this strategy and these legs was published.
WasEntered(q) == \E e \in entered : e.strategy = q.strategy /\ e.legs = q.legs

\* What an exit of a position with such an entry trades.
UndoneLegs(e) == {Leg(l.venue, l.market, ~l.buys) : l \in e.legs}
Undoes(i) == \E e \in entered : e.strategy = i.strategy /\ i.legs = UndoneLegs(e)

EnteredOK ==
    /\ \A e \in entered : \E q \in AllEntries : e.strategy = q.strategy /\ e.legs = q.legs
    /\ \A e, f \in entered : e.id = f.id => e = f

TodoOK ==
    /\ step \notin {"entries", "unwind"} => todo = {}
    /\ step = "entries" =>
          /\ \A i \in todo :
                /\ ~i.exit
                /\ \E q \in AllEntries : i.strategy = q.strategy /\ i.legs = q.legs
                /\ \A e \in entered : e.id # i.id
          /\ \A i, j \in todo : i.id = j.id => i = j
    /\ step = "unwind" => \A i \in todo : i.exit /\ Undoes(i)

IntentsOK ==
    \A i \in intents :
        IF i.exit THEN Undoes(i)
        ELSE \E e \in entered : e.id = i.id /\ e.strategy = i.strategy /\ e.legs = i.legs

FillOf(ev, e) ==
    e.id = ev.id /\ e.strategy = ev.strategy
        /\ \E l \in e.legs : l.venue = ev.venue /\ l.buys = ev.buys

EventsOK ==
    \A k \in DOMAIN events : ~events[k].exit => \E e \in entered : FillOf(events[k], e)

\* The half of a differential that waits for the other is of an entry with that id.
LongOf(id, venue) ==
    \E e \in entered : e.id = id /\ e.strategy = "DIFF" /\ Leg(venue, "PERP", TRUE) \in e.legs
ShortOf(id, venue) ==
    \E e \in entered : e.id = id /\ e.strategy = "DIFF" /\ Leg(venue, "PERP", FALSE) \in e.legs

FormingOK ==
    \A id \in DOMAIN forming :
        /\ forming[id] = [long |-> forming[id].long, short |-> forming[id].short]
        /\ forming[id].long # Unset => LongOf(id, forming[id].long)
        /\ forming[id].short # Unset => ShortOf(id, forming[id].short)

PositionsOK ==
    \A key \in DOMAIN positions :
        \E q \in AllEntries : key = <<q.strategy, q.venues>> /\ WasEntered(q)

FundingInv ==
    /\ seen \subseteq Venues
    /\ EnteredOK
    /\ TodoOK
    /\ IntentsOK
    /\ EventsOK
    /\ FormingOK
    /\ PositionsOK

LEMMA FundingStarts == InitFunding => FundingInv
<1> SUFFICES ASSUME InitFunding PROVE FundingInv
  OBVIOUS
<1>1. EventsOK
  <2>1. events \in Seq({})
    BY DEF InitFunding
  <2>2. DOMAIN events = {}
    BY DEF InitFunding
  <2> QED
    BY <2>1, <2>2 DEF EventsOK
<1>2. DOMAIN positions = {} /\ DOMAIN forming = {}
  BY DEF InitFunding
<1> QED
  BY <1>1, <1>2
     DEF InitFunding, FundingInv, EnteredOK, TodoOK, IntentsOK, FormingOK, PositionsOK

\* A step that leaves what a part is about alone preserves that part.
LEMMA Untouched ==
    ASSUME UNCHANGED entered
    PROVE  /\ EnteredOK => EnteredOK'
           /\ TodoOK /\ UNCHANGED <<step, todo>> => TodoOK'
           /\ IntentsOK /\ UNCHANGED intents => IntentsOK'
           /\ EventsOK /\ UNCHANGED events => EventsOK'
           /\ FormingOK /\ UNCHANGED forming => FormingOK'
           /\ PositionsOK /\ UNCHANGED positions => PositionsOK'
<1>1. EnteredOK => EnteredOK'
  BY DEF EnteredOK
<1>2. TodoOK /\ UNCHANGED <<step, todo>> => TodoOK'
  BY DEF TodoOK, Undoes, UndoneLegs
<1>3. IntentsOK /\ UNCHANGED intents => IntentsOK'
  BY DEF IntentsOK, Undoes, UndoneLegs
<1>4. EventsOK /\ UNCHANGED events => EventsOK'
  BY DEF EventsOK, FillOf
<1>5. FormingOK /\ UNCHANGED forming => FormingOK'
  <2> SUFFICES ASSUME FormingOK, UNCHANGED forming, NEW id \in DOMAIN forming
               PROVE  /\ forming[id] = [long |-> forming[id].long, short |-> forming[id].short]
                      /\ forming[id].long # Unset => LongOf(id, forming[id].long)'
                      /\ forming[id].short # Unset => ShortOf(id, forming[id].short)'
    BY DEF FormingOK
  <2>1. LongOf(id, forming[id].long) => LongOf(id, forming[id].long)'
    BY DEF LongOf, ShortOf
  <2>2. ShortOf(id, forming[id].short) => ShortOf(id, forming[id].short)'
    BY DEF LongOf, ShortOf
  <2> QED
    BY <2>1, <2>2 DEF FormingOK
<1>6. PositionsOK /\ UNCHANGED positions => PositionsOK'
  BY DEF PositionsOK, WasEntered
<1> QED
  BY <1>1, <1>2, <1>3, <1>4, <1>5, <1>6

\* The legs of the three exits are those of their entries, the other way round.
LEMMA CarryExitLegs ==
    ASSUME NEW e, NEW a, e.legs = Carry(a).legs
    PROVE  UndoneLegs(e) = {Leg(a, "SPOT", FALSE), Leg(a, "PERP", TRUE)}
<1> DEFINE first == Leg(a, "SPOT", TRUE)  second == Leg(a, "PERP", FALSE)
           Other(l) == Leg(l.venue, l.market, ~l.buys)
<1>1. e.legs = {first, second}
  BY DEF Carry
<1>2. Other(first) = Leg(a, "SPOT", FALSE) /\ Other(second) = Leg(a, "PERP", TRUE)
  BY DEF Leg
<1> HIDE DEF first, second
<1>3. UndoneLegs(e) = {Other(first), Other(second)}
  BY <1>1 DEF UndoneLegs
<1> HIDE DEF Other
<1> QED
  BY <1>2, <1>3

LEMMA ReverseExitLegs ==
    ASSUME NEW e, NEW a, e.legs = ReverseCarry(a).legs
    PROVE  UndoneLegs(e) = {Leg(a, "SPOT", TRUE), Leg(a, "PERP", FALSE)}
<1> DEFINE first == Leg(a, "SPOT", FALSE)  second == Leg(a, "PERP", TRUE)
           Other(l) == Leg(l.venue, l.market, ~l.buys)
<1>1. e.legs = {first, second}
  BY DEF ReverseCarry
<1>2. Other(first) = Leg(a, "SPOT", TRUE) /\ Other(second) = Leg(a, "PERP", FALSE)
  BY DEF Leg
<1> HIDE DEF first, second
<1>3. UndoneLegs(e) = {Other(first), Other(second)}
  BY <1>1 DEF UndoneLegs
<1> HIDE DEF Other
<1> QED
  BY <1>2, <1>3

LEMMA DiffExitLegs ==
    ASSUME NEW e, NEW a, NEW b, e.legs = Differential(a, b).legs
    PROVE  UndoneLegs(e) = {Leg(a, "PERP", FALSE), Leg(b, "PERP", TRUE)}
<1> DEFINE first == Leg(a, "PERP", TRUE)  second == Leg(b, "PERP", FALSE)
           Other(l) == Leg(l.venue, l.market, ~l.buys)
<1>1. e.legs = {first, second}
  BY DEF Differential
<1>2. Other(first) = Leg(a, "PERP", FALSE) /\ Other(second) = Leg(b, "PERP", TRUE)
  BY DEF Leg
<1> HIDE DEF first, second
<1>3. UndoneLegs(e) = {Other(first), Other(second)}
  BY <1>1 DEF UndoneLegs
<1> HIDE DEF Other
<1> QED
  BY <1>2, <1>3

\* The three kinds of entry are told apart by their strategy.
LEMMA Kinds ==
    ASSUME NEW q \in AllEntries
    PROVE  /\ q.strategy = "CARRY" => \E v \in Venues : q = Carry(v)
           /\ q.strategy = "REVERSE" => \E v \in Venues : q = ReverseCarry(v)
           /\ q.strategy = "DIFF" => \E a, b \in Venues : q = Differential(a, b)
           /\ q.strategy \in {"CARRY", "REVERSE", "DIFF"}
<1>1. ASSUME NEW v, NEW w
      PROVE  /\ Carry(v).strategy = "CARRY" /\ ReverseCarry(v).strategy = "REVERSE"
             /\ Differential(v, w).strategy = "DIFF"
  BY DEF Carry, ReverseCarry, Differential
<1>2. \/ \E v \in Venues : q = Carry(v)
      \/ \E v \in Venues : q = ReverseCarry(v)
      \/ \E a, b \in Venues : q = Differential(a, b)
  BY DEF AllEntries
<1> QED
  BY <1>1, <1>2

(* An evaluation makes entries with ids of their own. *)
LEMMA EvaluateKeeps ==
    ASSUME FundingInv, Evaluate
    PROVE  FundingInv'
<1> USE DEF FundingInv
<1>1. /\ UNCHANGED <<seen, tracker, intents, events, entered>>
      /\ step = "evaluate"
  BY DEF Evaluate, streams
<1>2. PICK volatile \in SUBSET seen, hot \in SUBSET seen :
         LET qualified == IF stage = "OBSERVE" THEN {} ELSE Entries(volatile)
         IN  \E emitted \in kSubset(Min({Cardinality(qualified), MaxEntries - Cardinality(entered)}), qualified) :
               /\ \E ids \in {f \in [emitted -> (1..MaxEntries) \ {e.id : e \in entered}] : IsInjective(f)} :
                     todo' = {Intent(e, ids[e], hot) : e \in emitted}
               /\ step' = IF emitted = {} THEN "exits" ELSE "entries"
  BY DEF Evaluate
<1>6. PICK emitted \in SUBSET Entries(volatile) :
         /\ \E ids \in {f \in [emitted -> (1..MaxEntries) \ {e.id : e \in entered}] : IsInjective(f)} :
               todo' = {Intent(e, ids[e], hot) : e \in emitted}
         /\ step' = IF emitted = {} THEN "exits" ELSE "entries"
  <2>1. ASSUME NEW n, NEW S PROVE kSubset(n, S) \subseteq SUBSET S
    BY DEF kSubset
  <2>2. SUBSET (IF stage = "OBSERVE" THEN {} ELSE Entries(volatile)) \subseteq SUBSET Entries(volatile)
    OBVIOUS
  <2> QED
    BY <1>2, <2>1, <2>2
<1>7. PICK ids \in {f \in [emitted -> (1..MaxEntries) \ {e.id : e \in entered}] : IsInjective(f)} :
         todo' = {Intent(e, ids[e], hot) : e \in emitted}
  BY <1>6
<1>3. emitted \subseteq AllEntries
  <2>1. CarryEntries(volatile) \subseteq AllEntries
    BY DEF CarryEntries, AllEntries
  <2>2. ReverseEntries(volatile) \subseteq AllEntries
    BY DEF ReverseEntries, AllEntries
  <2>3. DiffEntries(volatile) \subseteq AllEntries
    BY DEF DiffEntries, AllEntries
  <2> QED
    BY <1>6, <1>7, <2>1, <2>2, <2>3 DEF Entries
<1>4. TodoOK'
  <2>1. CASE emitted = {}
    BY <1>6, <1>7, <2>1 DEF TodoOK
  <2>2. CASE emitted # {}
    <3>1. step' = "entries"
      BY <1>6, <1>7, <2>2
    <3>2. ASSUME NEW e \in emitted
          PROVE  /\ ~Intent(e, ids[e], hot).exit
                 /\ Intent(e, ids[e], hot).strategy = e.strategy /\ Intent(e, ids[e], hot).legs = e.legs
                 /\ Intent(e, ids[e], hot).id = ids[e]
      BY DEF Intent
    <3>3. ASSUME NEW i \in todo'
          PROVE  /\ ~i.exit
                 /\ \E q \in AllEntries : i.strategy = q.strategy /\ i.legs = q.legs
                 /\ \A e \in entered' : e.id # i.id
      <4>1. PICK e \in emitted : i = Intent(e, ids[e], hot)
        BY <1>6, <1>7
      <4>2. ids[e] \notin {f.id : f \in entered}
        BY <1>6, <1>7
      <4> QED
        BY <1>1, <1>3, <3>2, <4>1, <4>2
    <3>4. ASSUME NEW i \in todo', NEW j \in todo', i.id = j.id PROVE i = j
      <4>1. PICK e \in emitted : i = Intent(e, ids[e], hot)
        BY <1>6, <1>7
      <4>2. PICK f \in emitted : j = Intent(f, ids[f], hot)
        BY <1>6, <1>7
      <4>3. ids[e] = ids[f]
        BY <3>2, <3>4, <4>1, <4>2
      <4>4. e = f
        BY <1>6, <1>7, <4>3 DEF IsInjective
      <4> QED
        BY <4>1, <4>2, <4>4
    <3> QED
      BY <3>1, <3>3, <3>4 DEF TodoOK
  <2> QED
    BY <2>1, <2>2
<1> QED
  BY <1>1, <1>4, Untouched DEF tracker

(* The exits undo the entries of the positions. *)
LEMMA ExitsKeep ==
    ASSUME FundingInv, EvaluateExits
    PROVE  FundingInv'
<1> USE DEF FundingInv
<1>1. /\ UNCHANGED <<seen, tracker, intents, events, entered>>
      /\ step = "exits" /\ step' = IF todo' = {} THEN "select" ELSE "unwind"
  BY DEF EvaluateExits, engine, streams
<1>2. PICK volatile \in SUBSET seen, hot \in SUBSET seen :
         todo' = UNION {CASE key[1] = "CARRY" -> CarryExit(key[2][1], positions[key], volatile, hot)
                        [] key[1] = "REVERSE" -> ReverseCarryExit(key[2][1], positions[key], volatile, hot)
                        [] key[1] = "DIFF" -> DiffExit(key[2][1], key[2][2], positions[key], volatile)
                      : key \in DOMAIN positions}
  BY DEF EvaluateExits
<1>3. ASSUME NEW i \in todo' PROVE i.exit /\ Undoes(i)
  <2>1. PICK key \in DOMAIN positions :
           i \in CASE key[1] = "CARRY" -> CarryExit(key[2][1], positions[key], volatile, hot)
                   [] key[1] = "REVERSE" -> ReverseCarryExit(key[2][1], positions[key], volatile, hot)
                   [] key[1] = "DIFF" -> DiffExit(key[2][1], key[2][2], positions[key], volatile)
    BY <1>2
  <2>2. PICK q \in AllEntries : key = <<q.strategy, q.venues>> /\ WasEntered(q)
    BY DEF PositionsOK
  <2>3. PICK e \in entered : e.strategy = q.strategy /\ e.legs = q.legs
    BY <2>2 DEF WasEntered
  <2>4. key[1] = q.strategy /\ key[2] = q.venues
    BY <2>2
  <2>5. CASE q.strategy = "CARRY"
    <3>1. PICK v \in Venues : q = Carry(v)
      BY <2>5, Kinds
    <3>2. i \in CarryExit(v, positions[key], volatile, hot)
      BY <2>1, <2>4, <2>5, <3>1 DEF Carry
    <3>3. i = Undo("CARRY", <<v>>, {Leg(v, "SPOT", FALSE), Leg(v, "PERP", TRUE)}, positions[key])
      BY <3>2 DEF CarryExit
    <3>4. i.exit /\ i.strategy = "CARRY" /\ i.legs = {Leg(v, "SPOT", FALSE), Leg(v, "PERP", TRUE)}
      BY <3>3 DEF Undo
    <3>5. i.legs = UndoneLegs(e)
      <4>1. e.legs = Carry(v).legs
        BY <2>3, <3>1
      <4> QED
        BY <3>4, <4>1, CarryExitLegs
    <3> QED
      BY <2>3, <2>5, <3>4, <3>5 DEF Undoes
  <2>6. CASE q.strategy = "REVERSE"
    <3>1. PICK v \in Venues : q = ReverseCarry(v)
      BY <2>6, Kinds
    <3>2. i \in ReverseCarryExit(v, positions[key], volatile, hot)
      BY <2>1, <2>4, <2>6, <3>1 DEF ReverseCarry
    <3>3. i = Undo("REVERSE", <<v>>, {Leg(v, "SPOT", TRUE), Leg(v, "PERP", FALSE)}, positions[key])
      BY <3>2 DEF ReverseCarryExit
    <3>4. i.exit /\ i.strategy = "REVERSE" /\ i.legs = {Leg(v, "SPOT", TRUE), Leg(v, "PERP", FALSE)}
      BY <3>3 DEF Undo
    <3>5. i.legs = UndoneLegs(e)
      <4>1. e.legs = ReverseCarry(v).legs
        BY <2>3, <3>1
      <4> QED
        BY <3>4, <4>1, ReverseExitLegs
    <3> QED
      BY <2>3, <2>6, <3>4, <3>5 DEF Undoes
  <2>7. CASE q.strategy = "DIFF"
    <3>1. PICK a \in Venues, b \in Venues : q = Differential(a, b)
      BY <2>7, Kinds
    <3>2. i \in DiffExit(a, b, positions[key], volatile)
      BY <2>1, <2>4, <2>7, <3>1 DEF Differential
    <3>3. i = Undo("DIFF", <<a, b>>, {Leg(a, "PERP", FALSE), Leg(b, "PERP", TRUE)}, positions[key])
      BY <3>2 DEF DiffExit
    <3>4. i.exit /\ i.strategy = "DIFF" /\ i.legs = {Leg(a, "PERP", FALSE), Leg(b, "PERP", TRUE)}
      BY <3>3 DEF Undo
    <3>5. i.legs = UndoneLegs(e)
      <4>1. e.legs = Differential(a, b).legs
        BY <2>3, <3>1
      <4>2. UndoneLegs(e) = {Leg(a, "PERP", FALSE), Leg(b, "PERP", TRUE)}
        BY <4>1, DiffExitLegs
      <4> QED
        BY <3>4, <4>2
    <3> QED
      BY <2>3, <2>7, <3>4, <3>5 DEF Undoes
  <2> QED
    BY <2>5, <2>6, <2>7, Kinds
<1>4. TodoOK'
  <2>1. ASSUME NEW i \in todo' PROVE i.exit /\ Undoes(i)'
    BY <1>1, <1>3 DEF Undoes, UndoneLegs
  <2> QED
    BY <1>1, <2>1 DEF TodoOK
<1> QED
  BY <1>1, <1>4, Untouched DEF tracker

\* The half of a differential that waits does not depend on what else is entered.
LEMMA FormingStays ==
    ASSUME FormingOK, UNCHANGED forming, entered \subseteq entered'
    PROVE  FormingOK'
<1> SUFFICES ASSUME NEW id \in DOMAIN forming
             PROVE  /\ forming[id] = [long |-> forming[id].long, short |-> forming[id].short]
                    /\ forming[id].long # Unset => LongOf(id, forming[id].long)'
                    /\ forming[id].short # Unset => ShortOf(id, forming[id].short)'
  BY DEF FormingOK
<1>1. LongOf(id, forming[id].long) => LongOf(id, forming[id].long)'
  BY DEF LongOf, ShortOf
<1>2. ShortOf(id, forming[id].short) => ShortOf(id, forming[id].short)'
  BY DEF LongOf, ShortOf
<1> QED
  BY <1>1, <1>2 DEF FormingOK

\* An entry has two legs.
LEMMA TwoLegs ==
    ASSUME NEW q \in AllEntries
    PROVE  \E l, m : q.legs = {l, m}
<1>1. CASE \E v \in Venues : q = Carry(v)
  <2>1. PICK v \in Venues : q = Carry(v)
    BY <1>1
  <2> DEFINE l == Leg(v, "SPOT", TRUE)  m == Leg(v, "PERP", FALSE)
  <2>2. q.legs = {l, m}
    BY <2>1 DEF Carry
  <2> HIDE DEF l, m
  <2> QED
    BY <2>2
<1>2. CASE \E v \in Venues : q = ReverseCarry(v)
  <2>1. PICK v \in Venues : q = ReverseCarry(v)
    BY <1>2
  <2> DEFINE l == Leg(v, "SPOT", FALSE)  m == Leg(v, "PERP", TRUE)
  <2>2. q.legs = {l, m}
    BY <2>1 DEF ReverseCarry
  <2> HIDE DEF l, m
  <2> QED
    BY <2>2
<1>3. CASE \E v, w \in Venues : q = Differential(v, w)
  <2>1. PICK v \in Venues, w \in Venues : q = Differential(v, w)
    BY <1>3
  <2> DEFINE l == Leg(v, "PERP", TRUE)  m == Leg(w, "PERP", FALSE)
  <2>2. q.legs = {l, m}
    BY <2>1 DEF Differential
  <2> HIDE DEF l, m
  <2> QED
    BY <2>2
<1> QED
  BY <1>1, <1>2, <1>3 DEF AllEntries

EventsSeq == \E S : events \in Seq(S)

(* The loop publishes an intent, or loses it. *)
LEMMA EmitKeeps ==
    ASSUME FundingInv, NEW intent \in todo, Publish(intent) \/ PublishFails(intent)
    PROVE  FundingInv'
<1> USE DEF FundingInv
<1>1. /\ UNCHANGED <<seen, positions, forming, events>>
      /\ todo' = todo \ {intent}
      /\ step' = IF todo' # {} THEN step ELSE IF step = "entries" THEN "exits" ELSE "select"
      /\ step \in {"entries", "unwind"}
  BY DEF Publish, PublishFails, Attempt, engine, tracker, streams, TodoOK
<1>2. CASE UNCHANGED <<intents, entered>>
  <2>1. TodoOK'
    BY <1>1, <1>2 DEF TodoOK, Undoes, UndoneLegs
  <2> QED
    BY <1>1, <1>2, <2>1, Untouched
<1>3. CASE intent.exit /\ intents' = intents \cup {intent} /\ UNCHANGED entered
  <2>1. step = "unwind" /\ Undoes(intent)
    BY <1>1, <1>3 DEF TodoOK
  <2>2. TodoOK'
    BY <1>1, <1>3 DEF TodoOK, Undoes, UndoneLegs
  <2>3. IntentsOK'
    BY <1>3, <2>1 DEF IntentsOK, Undoes, UndoneLegs
  <2> QED
    BY <1>1, <1>3, <2>2, <2>3, Untouched
<1>4. CASE /\ ~intent.exit /\ intents' = intents \cup {intent}
           /\ entered' = entered \cup {[id |-> intent.id, strategy |-> intent.strategy, legs |-> intent.legs]}
  <2> DEFINE new == [id |-> intent.id, strategy |-> intent.strategy, legs |-> intent.legs]
  <2>1. step = "entries"
    BY <1>1, <1>4 DEF TodoOK
  <2>2. new.id = intent.id /\ new.strategy = intent.strategy /\ new.legs = intent.legs
    OBVIOUS
  <2>3. entered' = entered \cup {new}
    BY <1>4
  <2> HIDE DEF new
  <2>4. \E q \in AllEntries : new.strategy = q.strategy /\ new.legs = q.legs
    BY <2>1, <2>2 DEF TodoOK
  <2>5. \A e \in entered : e.id # new.id
    BY <2>1, <2>2 DEF TodoOK
  <2>6. EnteredOK'
    BY <2>3, <2>4, <2>5 DEF EnteredOK
  <2>7. TodoOK'
    BY <1>1, <2>1, <2>2, <2>3 DEF TodoOK
  <2>8. IntentsOK'
    <3>1. ASSUME NEW i \in intents', i.exit PROVE Undoes(i)'
      BY <1>4, <2>3, <3>1 DEF IntentsOK, Undoes, UndoneLegs
    <3>2. ASSUME NEW i \in intents', ~i.exit
          PROVE  \E e \in entered' : e.id = i.id /\ e.strategy = i.strategy /\ e.legs = i.legs
      BY <1>4, <2>2, <2>3, <3>2 DEF IntentsOK
    <3> QED
      BY <3>1, <3>2 DEF IntentsOK
  <2>9. EventsOK' /\ FormingOK' /\ PositionsOK'
    <3>1. entered \subseteq entered'
      BY <2>3
    <3>2. EventsOK'
      BY <1>1, <3>1 DEF EventsOK, FillOf
    <3>3. FormingOK'
      BY <1>1, <3>1, FormingStays DEF FormingOK
    <3>4. PositionsOK'
      BY <1>1, <3>1 DEF PositionsOK, WasEntered
    <3> QED
      BY <3>2, <3>3, <3>4
  <2> QED
    BY <1>1, <2>6, <2>7, <2>8, <2>9
<1> QED
  BY <1>2, <1>3, <1>4 DEF Publish, PublishFails, streams

(* Allocator and router fill legs of an intent. *)
LEMMA ExecuteKeeps ==
    ASSUME FundingInv, EventsSeq, Execute
    PROVE  FundingInv' /\ EventsSeq'
<1> USE DEF FundingInv
<1>1. UNCHANGED <<seen, step, todo, positions, forming, entered>>
  BY DEF Execute, engine, tracker, loop
<1>2. PICK intent \in intents, legs \in SUBSET UNION {i.legs : i \in intents} :
        /\ legs \subseteq intent.legs
        /\ intents' = intents \ {intent}
        /\ \E order \in SetToSeqs(legs) :
              events' = events \o [k \in DOMAIN order |->
                  [strategy |-> intent.strategy, exit |-> intent.exit, id |-> intent.id,
                   venue |-> order[k].venue, buys |-> order[k].buys, notional |-> intent.notional]]
  BY DEF Execute
<1>3. PICK order \in SetToSeqs(legs) :
         events' = events \o [k \in DOMAIN order |->
             [strategy |-> intent.strategy, exit |-> intent.exit, id |-> intent.id,
              venue |-> order[k].venue, buys |-> order[k].buys, notional |-> intent.notional]]
  BY <1>2
<1> DEFINE Fill(k) == [strategy |-> intent.strategy, exit |-> intent.exit, id |-> intent.id,
                       venue |-> order[k].venue, buys |-> order[k].buys, notional |-> intent.notional]
           fills == [k \in DOMAIN order |-> Fill(k)]
<1>4. DOMAIN order = 1..Cardinality(legs) /\ \A k \in DOMAIN order : order[k] \in legs
  BY DEF SetToSeqs
<1>5. Cardinality(legs) \in Nat
  <2>1. PICK e \in entered : intent.legs \in {e.legs, UndoneLegs(e)}
    BY DEF IntentsOK, Undoes
  <2>2. PICK l, m : e.legs = {l, m}
    <3>1. PICK q \in AllEntries : e.legs = q.legs
      BY DEF EnteredOK
    <3> QED
      BY <3>1, TwoLegs
  <2>3. UndoneLegs(e) = {Leg(l.venue, l.market, ~l.buys), Leg(m.venue, m.market, ~m.buys)}
    BY <2>2 DEF UndoneLegs
  <2>4. \E x, y : intent.legs = {x, y}
    BY <2>1, <2>2, <2>3
  <2>5. ASSUME NEW x, NEW y PROVE IsFiniteSet({x, y})
    <3>1. IsFiniteSet({x}) /\ {x, y} = {x} \cup {y}
      BY FS_Singleton
    <3> QED
      BY <3>1, FS_AddElement
  <2>6. IsFiniteSet(intent.legs)
    <3>1. PICK x, y : intent.legs = {x, y}
      BY <2>4
    <3>2. IsFiniteSet({x, y})
      BY <2>5, Zenon
    <3> QED
      BY <3>1, <3>2
  <2> QED
    BY <1>2, <2>6, FS_Subset, FS_CardinalityType
<1>6. \E S : fills \in Seq(S)
  <2>1. fills \in [1..Cardinality(legs) -> {Fill(k) : k \in DOMAIN order}]
    BY <1>4
  <2> HIDE DEF fills
  <2> DEFINE S == {Fill(k) : k \in DOMAIN order}
             n == Cardinality(legs)
  <2>2. n \in Nat /\ fills \in [1..n -> S]
    BY <1>5, <2>1
  <2> HIDE DEF n, S
  <2>3. fills \in Seq(S)
    BY <2>2
  <2> QED
    BY <2>3
<1>7. events' = events \o fills
  BY <1>3
<1> HIDE DEF fills
<1>8. EventsSeq'
  <2>1. PICK S : events \in Seq(S)
    BY DEF EventsSeq
  <2>2. PICK T : fills \in Seq(T)
    BY <1>6
  <2>3. events \in Seq(S \cup T) /\ fills \in Seq(S \cup T)
    BY <2>1, <2>2
  <2>4. events' \in Seq(S \cup T)
    BY <1>7, <2>3
  <2> QED
    BY <2>4 DEF EventsSeq
<1>9. ASSUME NEW k \in DOMAIN fills, ~fills[k].exit
      PROVE  \E e \in entered : FillOf(fills[k], e)
  <2>1. k \in DOMAIN order /\ fills[k] = Fill(k)
    BY <1>9 DEF fills
  <2>2. /\ fills[k].strategy = intent.strategy /\ fills[k].exit = intent.exit
        /\ fills[k].id = intent.id /\ fills[k].venue = order[k].venue
        /\ fills[k].buys = order[k].buys
    BY <2>1
  <2>3. PICK e \in entered : e.id = intent.id /\ e.strategy = intent.strategy /\ e.legs = intent.legs
    BY <1>9, <2>2 DEF IntentsOK
  <2>4. order[k] \in e.legs
    BY <1>2, <1>4, <2>1, <2>3
  <2> QED
    BY <2>2, <2>3, <2>4 DEF FillOf
<1>10. ASSUME NEW k \in DOMAIN events', ~events'[k].exit
       PROVE  \E e \in entered : FillOf(events'[k], e)
  <2>1. PICK S : events \in Seq(S)
    BY DEF EventsSeq
  <2>2. PICK T : fills \in Seq(T)
    BY <1>6
  <2>3. \/ k \in DOMAIN events /\ events'[k] = events[k]
        \/ \E j \in DOMAIN fills : events'[k] = fills[j]
    <3>1. /\ events \in Seq(S \cup T) /\ fills \in Seq(S \cup T)
      BY <2>1, <2>2
    <3>2. k \in 1..(Len(events) + Len(fills))
      BY <1>7, <3>1
    <3>3. CASE k <= Len(events)
      BY <1>7, <3>1, <3>2, <3>3
    <3>4. CASE k > Len(events)
      <4>1. k - Len(events) \in DOMAIN fills /\ events'[k] = fills[k - Len(events)]
        BY <1>7, <3>1, <3>2, <3>4
      <4> QED
        BY <4>1
    <3> QED
      BY <3>1, <3>2, <3>3, <3>4
  <2> QED
    BY <1>9, <1>10, <2>3 DEF EventsOK
<1>11. EventsOK'
  BY <1>1, <1>10 DEF EventsOK, FillOf
<1>12. IntentsOK'
  BY <1>1, <1>2 DEF IntentsOK, Undoes, UndoneLegs
<1> QED
  BY <1>1, <1>8, <1>11, <1>12, Untouched

\* What a fill of an entry says of it.
LEMMA FillSays ==
    ASSUME EnteredOK, NEW ev, NEW e \in entered, FillOf(ev, e)
    PROVE  /\ ev.strategy = "CARRY" => \E q \in AllEntries :
                 <<ev.strategy, <<ev.venue>>>> = <<q.strategy, q.venues>> /\ WasEntered(q)
           /\ ev.strategy = "REVERSE" => \E q \in AllEntries :
                 <<ev.strategy, <<ev.venue>>>> = <<q.strategy, q.venues>> /\ WasEntered(q)
           /\ ev.strategy = "DIFF" =>
                 /\ ev.buys \in BOOLEAN
                 /\ ev.buys => LongOf(ev.id, ev.venue)
                 /\ ~ev.buys => ShortOf(ev.id, ev.venue)
           /\ ev.strategy \in {"CARRY", "REVERSE", "DIFF"}
<1>1. PICK q \in AllEntries : e.strategy = q.strategy /\ e.legs = q.legs
  BY DEF EnteredOK
<1>2. PICK l \in e.legs : l.venue = ev.venue /\ l.buys = ev.buys
  BY DEF FillOf
<1>3. e.id = ev.id /\ e.strategy = ev.strategy
  BY DEF FillOf
<1>4. ASSUME NEW v, NEW m
      PROVE  /\ Leg(v, m, TRUE).venue = v /\ Leg(v, m, FALSE).venue = v
             /\ Leg(v, m, TRUE).buys = TRUE /\ Leg(v, m, FALSE).buys = FALSE
  BY DEF Leg
<1>5. ASSUME ev.strategy = "CARRY"
      PROVE  <<ev.strategy, <<ev.venue>>>> = <<q.strategy, q.venues>>
  <2>1. PICK v \in Venues : q = Carry(v)
    BY <1>1, <1>3, <1>5, Kinds
  <2>2. q.venues = <<v>> /\ q.legs = {Leg(v, "SPOT", TRUE), Leg(v, "PERP", FALSE)}
    BY <2>1 DEF Carry
  <2>3. l.venue = v
    <3>1. \E m : l = Leg(v, m, TRUE) \/ l = Leg(v, m, FALSE)
      BY <1>1, <1>2, <2>2
    <3> QED
      BY <1>4, <3>1
  <2> QED
    BY <1>1, <1>2, <1>3, <2>2, <2>3
<1>6. ASSUME ev.strategy = "REVERSE"
      PROVE  <<ev.strategy, <<ev.venue>>>> = <<q.strategy, q.venues>>
  <2>1. PICK v \in Venues : q = ReverseCarry(v)
    BY <1>1, <1>3, <1>6, Kinds
  <2>2. q.venues = <<v>> /\ q.legs = {Leg(v, "SPOT", FALSE), Leg(v, "PERP", TRUE)}
    BY <2>1 DEF ReverseCarry
  <2>3. l.venue = v
    <3>1. \E m : l = Leg(v, m, TRUE) \/ l = Leg(v, m, FALSE)
      BY <1>1, <1>2, <2>2
    <3> QED
      BY <1>4, <3>1
  <2> QED
    BY <1>1, <1>2, <1>3, <2>2, <2>3
<1>7. ASSUME ev.strategy = "DIFF"
      PROVE  /\ ev.buys \in BOOLEAN
             /\ ev.buys => LongOf(ev.id, ev.venue)
             /\ ~ev.buys => ShortOf(ev.id, ev.venue)
  <2>1. PICK a \in Venues, b \in Venues : q = Differential(a, b)
    BY <1>1, <1>3, <1>7, Kinds
  <2>2. q.legs = {Leg(a, "PERP", TRUE), Leg(b, "PERP", FALSE)}
    BY <2>1 DEF Differential
  <2>3. l = Leg(ev.venue, "PERP", ev.buys) /\ ev.buys \in BOOLEAN
    <3>1. CASE l = Leg(a, "PERP", TRUE)
      BY <1>2, <1>4, <3>1
    <3>2. CASE l = Leg(b, "PERP", FALSE)
      BY <1>2, <1>4, <3>2
    <3> QED
      BY <1>1, <1>2, <2>2, <3>1, <3>2
  <2> QED
    BY <1>2, <1>3, <1>7, <2>3 DEF LongOf, ShortOf
<1>8. WasEntered(q)
  BY <1>1 DEF WasEntered
<1> QED
  BY <1>1, <1>3, <1>5, <1>6, <1>7, <1>8, Kinds

\* The two halves of one id are of one differential.
LEMMA HalvesMatch ==
    ASSUME EnteredOK, NEW id, NEW long, NEW short,
           LongOf(id, long), ShortOf(id, short)
    PROVE  \E q \in AllEntries :
              <<"DIFF", <<long, short>>>> = <<q.strategy, q.venues>> /\ WasEntered(q)
<1>1. PICK e \in entered : e.id = id /\ e.strategy = "DIFF" /\ Leg(long, "PERP", TRUE) \in e.legs
  BY DEF LongOf, ShortOf
<1>2. Leg(short, "PERP", FALSE) \in e.legs
  BY <1>1 DEF LongOf, ShortOf, EnteredOK
<1>3. PICK q \in AllEntries : e.strategy = q.strategy /\ e.legs = q.legs
  BY DEF EnteredOK
<1>4. PICK a \in Venues, b \in Venues : q = Differential(a, b)
  BY <1>1, <1>3, Kinds
<1>5. /\ q.legs = {Leg(a, "PERP", TRUE), Leg(b, "PERP", FALSE)}
      /\ q.strategy = "DIFF" /\ q.venues = <<a, b>>
  BY <1>4 DEF Differential
<1>6. ASSUME NEW v, NEW w
      PROVE  /\ Leg(v, "PERP", TRUE) = Leg(w, "PERP", TRUE) => v = w
             /\ Leg(v, "PERP", FALSE) = Leg(w, "PERP", FALSE) => v = w
             /\ Leg(v, "PERP", TRUE) # Leg(w, "PERP", FALSE)
  BY DEF Leg
<1>7. /\ Leg(long, "PERP", TRUE) \in {Leg(a, "PERP", TRUE), Leg(b, "PERP", FALSE)}
      /\ Leg(short, "PERP", FALSE) \in {Leg(a, "PERP", TRUE), Leg(b, "PERP", FALSE)}
  BY <1>1, <1>2, <1>3, <1>5
<1>9. long = a /\ short = b
  BY <1>6, <1>7
<1>8. WasEntered(q)
  BY <1>3 DEF WasEntered
<1> QED
  BY <1>5, <1>9, <1>8

(* The tracker's handlers. *)

\* The part of the invariant the tracker's tables are in.
TrackedOK == FormingOK /\ PositionsOK

LEMMA HalvesStay ==
    ASSUME UNCHANGED entered, NEW id, NEW v
    PROVE  /\ LongOf(id, v) => LongOf(id, v)'
           /\ ShortOf(id, v) => ShortOf(id, v)'
BY DEF LongOf, ShortOf

LEMMA ForgetKeeps ==
    ASSUME FormingOK, UNCHANGED entered, NEW id, forming' = Restrict(forming, DOMAIN forming \ {id})
    PROVE  FormingOK'
<1>1. /\ DOMAIN forming' = DOMAIN forming \ {id}
      /\ \A i \in DOMAIN forming' : forming'[i] = forming[i]
  BY DEF Restrict
<1>2. ASSUME NEW i \in DOMAIN forming'
      PROVE  /\ forming'[i] = [long |-> forming'[i].long, short |-> forming'[i].short]
             /\ forming'[i].long # Unset => LongOf(i, forming'[i].long)
             /\ forming'[i].short # Unset => ShortOf(i, forming'[i].short)
  BY <1>1 DEF FormingOK
<1> QED
  BY <1>2, HalvesStay DEF FormingOK

LEMMA ReduceKeeps ==
    ASSUME PositionsOK, NEW key \in DOMAIN positions, NEW filled,
           positions' = Reduce(key, filled), UNCHANGED entered
    PROVE  PositionsOK'
<1>1. DOMAIN positions' \subseteq DOMAIN positions
  BY DEF Reduce, Restrict
<1> QED
  BY <1>1 DEF PositionsOK, WasEntered

LEMMA AddKeeps ==
    ASSUME PositionsOK, NEW key, NEW n, UNCHANGED entered,
           positions' = Put(positions, key, n),
           \E q \in AllEntries : key = <<q.strategy, q.venues>> /\ WasEntered(q)
    PROVE  PositionsOK'
<1>1. DOMAIN positions' = {key} \cup DOMAIN positions
  BY DEF Put
<1> QED
  BY <1>1 DEF PositionsOK, WasEntered

\* A carry's fill.
LEMMA CarryFill ==
    ASSUME EnteredOK, TrackedOK, UNCHANGED entered, NEW ev,
           ev.strategy # "DIFF",
           ~ev.exit => \E e \in entered : FillOf(ev, e),
           IF ev.exit THEN ProcessCarryExit(ev) ELSE ProcessCarryEntry(ev)
    PROVE  TrackedOK'
<1> DEFINE key == <<ev.strategy, <<ev.venue>>>>
<1>1. UNCHANGED forming
  BY DEF ProcessCarryExit, ProcessCarryEntry
<1>2. FormingOK'
  BY <1>1, Untouched DEF TrackedOK
<1>3. CASE ev.exit
  <2>1. positions' = IF key \in DOMAIN positions THEN Reduce(key, ev.notional) ELSE positions
    BY <1>3 DEF ProcessCarryExit
  <2> HIDE DEF key
  <2> QED
    BY <1>2, <2>1, ReduceKeeps, Untouched DEF TrackedOK
<1>4. CASE ~ev.exit
  <2>1. positions' = IF key \in DOMAIN positions THEN [positions EXCEPT ![key] = @ + ev.notional]
                     ELSE Put(positions, key, ev.notional)
    BY <1>4 DEF ProcessCarryEntry
  <2>2. \E q \in AllEntries : key = <<q.strategy, q.venues>> /\ WasEntered(q)
    BY <1>4, FillSays
  <2> HIDE DEF key
  <2>3. CASE key \in DOMAIN positions
    <3>1. DOMAIN positions' = DOMAIN positions
      BY <2>1, <2>3
    <3> QED
      BY <1>2, <3>1 DEF TrackedOK, PositionsOK, WasEntered
  <2>4. CASE key \notin DOMAIN positions
    BY <1>2, <2>1, <2>2, <2>4, AddKeeps DEF TrackedOK
  <2> QED
    BY <2>3, <2>4
<1> QED
  BY <1>3, <1>4

\* The first and the second fill of a differential.
LEMMA DiffFill ==
    ASSUME EnteredOK, TrackedOK, UNCHANGED entered, NEW ev,
           ev.strategy = "DIFF", NEW e \in entered, FillOf(ev, e), ProcessDiffEntry(ev)
    PROVE  TrackedOK'
<1> DEFINE before == IF ev.id \in DOMAIN forming THEN forming[ev.id] ELSE [long |-> Unset, short |-> Unset]
           both == Formed(ev)
<1>1. /\ ev.buys \in BOOLEAN
      /\ ev.buys => LongOf(ev.id, ev.venue)
      /\ ~ev.buys => ShortOf(ev.id, ev.venue)
  BY FillSays
<1>2. before = [long |-> before.long, short |-> before.short]
  BY DEF TrackedOK, FormingOK
<1>3. /\ before.long # Unset => LongOf(ev.id, before.long)
      /\ before.short # Unset => ShortOf(ev.id, before.short)
  BY DEF TrackedOK, FormingOK
<1>4. both = IF ev.buys THEN [before EXCEPT !.long = ev.venue] ELSE [before EXCEPT !.short = ev.venue]
  BY DEF Formed
<1> HIDE DEF before, both
<1>5. both = [long |-> IF ev.buys THEN ev.venue ELSE before.long,
              short |-> IF ev.buys THEN before.short ELSE ev.venue]
  BY <1>2, <1>4
<1>6. /\ both = [long |-> both.long, short |-> both.short]
      /\ both.long = IF ev.buys THEN ev.venue ELSE before.long
      /\ both.short = IF ev.buys THEN before.short ELSE ev.venue
  BY <1>5
<1>7. /\ both.long # Unset => LongOf(ev.id, both.long)
      /\ both.short # Unset => ShortOf(ev.id, both.short)
  <2>1. CASE ev.buys
    <3>1. LongOf(ev.id, ev.venue)
      BY <1>1, <2>1, (ev.buys = TRUE)
    <3> QED
      BY <1>3, <1>6, <2>1, <3>1
  <2>2. CASE ~ev.buys
    <3>1. ShortOf(ev.id, ev.venue)
      BY <1>1, <2>2
    <3> QED
      BY <1>3, <1>6, <2>2, <3>1
  <2> QED
    BY <2>1, <2>2
<1>8. CASE Unset \in {both.long, both.short}
  <2>1. forming' = Put(forming, ev.id, both) /\ UNCHANGED positions
    BY <1>8 DEF ProcessDiffEntry, both
  <2>2. /\ DOMAIN forming' = {ev.id} \cup DOMAIN forming
        /\ forming'[ev.id] = both
        /\ \A id \in DOMAIN forming \ {ev.id} : forming'[id] = forming[id]
    BY <2>1 DEF Put
  <2>3. ASSUME NEW id \in DOMAIN forming'
        PROVE  /\ forming'[id] = [long |-> forming'[id].long, short |-> forming'[id].short]
               /\ forming'[id].long # Unset => LongOf(id, forming'[id].long)
               /\ forming'[id].short # Unset => ShortOf(id, forming'[id].short)
    <3>1. CASE id = ev.id
      BY <1>6, <1>7, <2>2, <3>1
    <3>2. CASE id # ev.id
      BY <2>2, <3>2 DEF TrackedOK, FormingOK
    <3> QED
      BY <3>1, <3>2
  <2>4. FormingOK'
    BY <2>3, HalvesStay DEF FormingOK
  <2> QED
    BY <2>1, <2>4, Untouched DEF TrackedOK
<1>9. CASE Unset \notin {both.long, both.short}
  <2>1. /\ forming' = Restrict(forming, DOMAIN forming \ {ev.id})
        /\ positions' = Put(positions, <<"DIFF", <<both.long, both.short>>>>, ev.notional)
    BY <1>9 DEF ProcessDiffEntry, both
  <2>2. \E q \in AllEntries :
            <<"DIFF", <<both.long, both.short>>>> = <<q.strategy, q.venues>> /\ WasEntered(q)
    <3> DEFINE id == ev.id  long == both.long  short == both.short
    <3>1. long # Unset /\ short # Unset
      BY <1>9
    <3>2. LongOf(id, long) /\ ShortOf(id, short)
      BY <1>7, <3>1
    <3> HIDE DEF id, long, short
    <3>3. \E q \in AllEntries : <<"DIFF", <<long, short>>>> = <<q.strategy, q.venues>> /\ WasEntered(q)
      BY <3>2, HalvesMatch
    <3> QED
      BY <3>3 DEF long, short
  <2>3. PositionsOK'
    BY <2>1, <2>2, AddKeeps DEF TrackedOK
  <2>4. FormingOK'
    BY <2>1, ForgetKeeps DEF TrackedOK
  <2> QED
    BY <2>3, <2>4 DEF TrackedOK
<1> QED
  BY <1>8, <1>9

\* A fill of an exit takes from a position, or forgets a differential that is forming.
LEMMA DiffExitFill ==
    ASSUME TrackedOK, UNCHANGED entered, NEW ev, ProcessDiffExit(ev)
    PROVE  TrackedOK'
<1>1. CASE \E key \in DOMAIN positions : positions' = Reduce(key, ev.notional) /\ UNCHANGED forming
  BY <1>1, ReduceKeeps, Untouched DEF TrackedOK
<1>2. CASE \E id \in DOMAIN forming :
             forming' \in {forming, Restrict(forming, DOMAIN forming \ {id})} /\ UNCHANGED positions
  BY <1>2, ForgetKeeps, Untouched DEF TrackedOK
<1>3. CASE UNCHANGED tracker
  BY <1>3, Untouched DEF TrackedOK, tracker
<1> QED
  BY <1>1, <1>2, <1>3 DEF ProcessDiffExit

LEMMA EventKeeps ==
    ASSUME FundingInv, EventsSeq, ProcessEvent
    PROVE  FundingInv' /\ EventsSeq'
<1> USE DEF FundingInv
<1>1. UNCHANGED <<seen, step, todo, intents, entered>>
  BY DEF ProcessEvent, engine, loop
<1>2. PICK S : events \in Seq(S)
  BY DEF EventsSeq
<1>3. /\ events # <<>> /\ events' = Tail(events) /\ Head(events) = events[1] /\ 1 \in DOMAIN events
      /\ events' \in Seq(S)
      /\ \A k \in DOMAIN events' : k + 1 \in DOMAIN events /\ events'[k] = events[k + 1]
  BY <1>2 DEF ProcessEvent
<1>4. EventsSeq'
  BY <1>3 DEF EventsSeq
<1>5. EventsOK'
  BY <1>1, <1>3 DEF EventsOK, FillOf
<1> DEFINE ev == Head(events)
<1>6. ~ev.exit => \E e \in entered : FillOf(ev, e)
  BY <1>3 DEF EventsOK
<1>7. IF ev.strategy = "DIFF"
      THEN IF ev.exit THEN ProcessDiffExit(ev) ELSE ProcessDiffEntry(ev)
      ELSE IF ev.exit THEN ProcessCarryExit(ev) ELSE ProcessCarryEntry(ev)
  BY DEF ProcessEvent
<1> HIDE DEF ev
<1>8. TrackedOK
  BY DEF TrackedOK
<1>9. TrackedOK'
  <2>1. CASE ev.strategy # "DIFF"
    BY <1>1, <1>6, <1>7, <1>8, <2>1, CarryFill
  <2>2. CASE ev.strategy = "DIFF" /\ ev.exit
    BY <1>1, <1>7, <1>8, <2>2, DiffExitFill
  <2>3. CASE ev.strategy = "DIFF" /\ ~ev.exit
    BY <1>1, <1>6, <1>7, <1>8, <2>3, DiffFill
  <2> QED
    BY <2>1, <2>2, <2>3
<1> QED
  BY <1>1, <1>4, <1>5, <1>9, Untouched DEF TrackedOK

(* The steps that touch neither what is entered nor what follows from it. *)
LEMMA OtherStepsKeep ==
    ASSUME FundingInv, EventsSeq,
           \/ \E v \in Venues : \E r \in Rates[v] : UpdateQuote(v, r)
           \/ HeedSignal \/ HeedTicker \/ CheckMode \/ ReadStages
           \/ Control \/ SetOverride \/ TimePasses \/ UNCHANGED fundingVars
    PROVE  FundingInv' /\ EventsSeq'
<1> USE DEF FundingInv
<1>1. /\ UNCHANGED <<todo, positions, forming, intents, events, entered>>
      /\ step' = step \/ {step, step'} \cap {"entries", "unwind"} = {}
      /\ seen' \subseteq Venues
  BY DEF UpdateQuote, HeedSignal, HeedTicker, CheckMode, ReadStages, Control, SetOverride, TimePasses,
         fundingVars, engine, tracker, loop, streams
<1>2. TodoOK'
  <2>1. CASE step' = step
    BY <1>1, <2>1, Untouched
  <2>2. CASE {step, step'} \cap {"entries", "unwind"} = {}
    BY <1>1, <2>2 DEF TodoOK
  <2> QED
    BY <1>1, <2>1, <2>2
<1>3. EventsSeq'
  BY <1>1 DEF EventsSeq
<1> QED
  BY <1>1, <1>2, <1>3, Untouched

LEMMA RestartKeeps ==
    ASSUME FundingInv, EventsSeq, EngineRestarts
    PROVE  FundingInv' /\ EventsSeq'
<1> USE DEF FundingInv
<1>1. /\ UNCHANGED <<intents, events, entered>>
      /\ seen' = {} /\ step' = "select" /\ todo' = {} /\ positions' = <<>> /\ forming' = <<>>
  BY DEF EngineRestarts, streams
<1>2. DOMAIN positions' = {} /\ DOMAIN forming' = {}
  BY <1>1
<1>3. TodoOK' /\ FormingOK' /\ PositionsOK'
  BY <1>1, <1>2 DEF TodoOK, FormingOK, PositionsOK
<1>4. EventsSeq'
  BY <1>1 DEF EventsSeq
<1> QED
  BY <1>1, <1>3, <1>4, Untouched

LEMMA FundingSteps ==
    FundingInv /\ EventsSeq /\ [NextFunding]_fundingVars => FundingInv' /\ EventsSeq'
<1> SUFFICES ASSUME FundingInv, EventsSeq, [NextFunding]_fundingVars
             PROVE  FundingInv' /\ EventsSeq'
  OBVIOUS
<1>1. CASE Evaluate \/ EvaluateExits \/ Emit
  <2>1. UNCHANGED events
    BY <1>1 DEF Evaluate, EvaluateExits, Emit, Publish, PublishFails, streams
  <2>2. EventsSeq'
    BY <2>1 DEF EventsSeq
  <2> QED
    BY <1>1, <2>2, EvaluateKeeps, ExitsKeep, EmitKeeps DEF Emit
<1>2. CASE ProcessEvent \/ Execute \/ EngineRestarts
  BY <1>2, EventKeeps, ExecuteKeeps, RestartKeeps
<1>3. CASE \/ \E v \in Venues : \E r \in Rates[v] : UpdateQuote(v, r)
           \/ HeedSignal \/ HeedTicker \/ CheckMode \/ ReadStages
           \/ Control \/ SetOverride \/ TimePasses \/ UNCHANGED fundingVars
  BY <1>3, OtherStepsKeep
<1> QED
  BY <1>1, <1>2, <1>3 DEF NextFunding, Loop

\* Whatever quotes arrive, whichever legs are filled in whatever order, and whenever the
\* engine restarts or fails to publish, an exit intent that is out trades the opposite of the
\* legs of an entry of its strategy that was published.
THEOREM ExitUndoesEntryHolds == FundingSpec => []ExitUndoesEntry
<1>1. InitFunding => FundingInv /\ EventsSeq
  <2>1. InitFunding => events \in Seq({})
    BY DEF InitFunding
  <2> QED
    BY <2>1, FundingStarts DEF EventsSeq
<1>2. FundingInv => ExitUndoesEntry
  BY DEF FundingInv, IntentsOK, Undoes, UndoneLegs, ExitUndoesEntry
<1> QED
  BY <1>1, <1>2, FundingSteps, PTL DEF FundingSpec
=============================================================================
