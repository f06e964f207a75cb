------------------------------ MODULE Treasury ------------------------------
(***************************************************************************)
(* The treasury service (src/internal/treasury, src/cmd/treasury): one     *)
(* goroutine watches for deposits, converts them and distributes them to   *)
(* the trading venues, another sweeps what these have in excess back.      *)
(* Both ask the transfer policy before each withdrawal.                    *)
(*                                                                         *)
(* A sweep arrives at the treasury venue as a deposit, which the watcher   *)
(* takes like any other.  The venues' balances are whatever they are.      *)
(***************************************************************************)
EXTENDS Integers, Sequences

CONSTANTS
    Deposits,          \* ids at the treasury venue
    Fiat,              \* those not in the asset the others are converted to
    Venues, Allocation,    \* Allocation is a sequence of venues, as configured
    Weight,            \* venue -> percent
    Amounts, MinDistribute, Dust,
    AutoConvert, PolicyConfigured,
    RedisFails,        \* calls to Redis may fail
    MaxAge,            \* in days, of a deposit remembered
    MaxRestarts        \* bound

ASSUME TreasuryAssumption ==
    /\ Allocation \in Seq(Venues) /\ Allocation # <<>>
    /\ \A i, j \in DOMAIN Allocation : Allocation[i] = Allocation[j] => i = j
    /\ MaxAge \in Nat

VARIABLES
    deposits,          \* id -> status and amount at the treasury venue
    seen,              \* id -> age since it was taken
    watch, current, total, place,     \* the watcher; place is a position in Allocation
    sweep, sweepPlace,                \* the sweeper
    killSwitch, mode,                 \* keys in Redis
    restarts,
    paid, answered,    \* history variables since the deposit was taken: how many shares a
                       \* venue was sent, and on what answer of the policy one was sent
    haltedBefore       \* history variable: the reasons to halt that have lasted since
                       \* before the watcher's, and the sweeper's, round began

watcher == <<seen, watch, current, total, place>>
sweeper == <<sweep, sweepPlace>>
redis == <<killSwitch, mode>>
history == <<paid, answered, haltedBefore>>
vars == <<deposits, watcher, sweeper, redis, restarts, history>>

Receivers == {Allocation[k] : k \in DOMAIN Allocation}
Statuses == {"absent", "pending", "completed"}

\* What the client makes of the policy's answers: nothing was told in five seconds, or it is not
\* JSON; or it has no status, like the answer to a request the policy could not parse.
Answers == {"none", "", "APPROVED", "DENIED", "PENDING_APPROVAL"}

None(answer) == [d \in Deposits |-> [v \in Receivers |-> answer]]
Reasons == (IF killSwitch THEN {"kill"} ELSE {}) \cup (IF mode # "RUNNING" THEN {"mode"} ELSE {})

\* A failed call looks like an absent key.
Reads(value, absent) == IF RedisFails THEN {value, absent} ELSE {value}

TypeOK ==
    /\ deposits \in [Deposits -> [status : Statuses, amount : Amounts \cup {0}]]
    /\ DOMAIN seen \subseteq Deposits /\ \A d \in DOMAIN seen : seen[d] \in 0..MaxAge
    /\ watch \in {"idle", "mode", "poll", "convert", "policy", "withdraw"}
    /\ current \in Deposits \/ watch \in {"idle", "mode", "poll"}
    /\ place \in 1..Len(Allocation) + 1
    /\ sweep \in {"idle", "mode", "venue", "withdraw"} /\ sweepPlace \in 1..Len(Allocation) + 1
    /\ paid \in [Deposits -> [Receivers -> Nat]]
    /\ answered \in [Deposits -> [Receivers -> Answers]]

Init ==
    /\ deposits = [d \in Deposits |-> [status |-> "absent", amount |-> 0]]
    /\ seen = <<>> /\ watch = "idle" /\ current = 0 /\ total = 0 /\ place = 1
    /\ sweep = "idle" /\ sweepPlace = 1
    /\ killSwitch = FALSE /\ mode = "RUNNING" /\ restarts = 0
    /\ paid = None(0) /\ answered = None("none")
    /\ haltedBefore = [watcher |-> {}, sweeper |-> {}]

-----------------------------------------------------------------------------
(* The treasury venue, where deposits appear, from outside or swept. *)

Deposit ==
    /\ \E d \in Deposits, amount \in Amounts :
          /\ deposits[d].status = "absent"
          /\ deposits' = [deposits EXCEPT ![d] = [status |-> "pending", amount |-> amount]]
    /\ UNCHANGED <<watcher, sweeper, redis, restarts, history>>

Complete ==
    /\ \E d \in Deposits :
          deposits[d].status = "pending" /\ deposits' = [deposits EXCEPT ![d].status = "completed"]
    /\ UNCHANGED <<watcher, sweeper, redis, restarts, history>>

-----------------------------------------------------------------------------
(* The deposit watcher. *)

Prune == [d \in {d \in DOMAIN seen : seen[d] < MaxAge} |-> seen[d]]

Forgetting(forgotten) ==
    /\ paid' = [d \in Deposits |-> IF d \in forgotten THEN None(0)[d] ELSE paid[d]]
    /\ answered' = [d \in Deposits |-> IF d \in forgotten THEN None("none")[d] ELSE answered[d]]

\* At each tick of the poll: old deposits are forgotten, whatever the kill switch says.
WatchTick ==
    /\ watch = "idle"
    /\ seen' = Prune
    /\ Forgetting(DOMAIN seen \ DOMAIN Prune)
    /\ haltedBefore' = [haltedBefore EXCEPT !.watcher = Reasons]
    /\ \E killed \in Reads(killSwitch, FALSE) : watch' = IF killed THEN "idle" ELSE "mode"
    /\ UNCHANGED <<deposits, current, total, place, sweeper, redis, restarts>>

WatchMode ==
    /\ watch = "mode"
    /\ \E read \in Reads(mode, "RUNNING") : watch' = IF read = "RUNNING" THEN "poll" ELSE "idle"
    /\ UNCHANGED <<deposits, seen, current, total, place, sweeper, redis, restarts, history>>

\* A deposit is remembered before anything is done with it.
TakeDeposit ==
    /\ watch = "poll" /\ watch' = "convert"
    /\ \E d \in Deposits \ DOMAIN seen :
          /\ deposits[d].status = "completed"
          /\ seen' = [x \in DOMAIN seen \cup {d} |-> IF x = d THEN 0 ELSE seen[x]]
          /\ current' = d
    /\ UNCHANGED <<deposits, total, place, sweeper, redis, restarts, history>>

\* The lists are exhausted, or could not be read.
EndPoll ==
    /\ watch = "poll" /\ watch' = "idle"
    /\ UNCHANGED <<deposits, seen, current, total, place, sweeper, redis, restarts, history>>

Converts(d) == AutoConvert /\ d \in Fiat

\* A conversion that fails ends the deposit, and so does an amount that is too small to
\* distribute; fiat that is not converted counts as dollars.
Convert ==
    /\ watch = "convert"
    /\ \E converted \in 0..deposits[current].amount :
          /\ Converts(current) \/ converted = deposits[current].amount
          /\ total' = converted
          /\ watch' = IF converted < MinDistribute THEN "poll" ELSE "policy"
    /\ place' = 1
    /\ UNCHANGED <<deposits, seen, current, sweeper, redis, restarts, history>>

Share(v) == (total * Weight[v]) \div 100

NextLeg ==
    /\ place' = place + 1
    /\ watch' = IF place = Len(Allocation) THEN "poll" ELSE "policy"

\* The share is dust, or a client or the address is not to be had.
SkipLeg ==
    /\ watch = "policy"
    /\ NextLeg
    /\ UNCHANGED <<deposits, seen, current, total, sweeper, redis, restarts, history>>

\* A call that fails is refused, and of the answers two: whatever else is told, even nothing,
\* and whatever the HTTP status, the withdrawal goes ahead.
MustApprove_Told(answer) == answer \notin {"none", "DENIED"}

MustApprove(answer) == answer \notin {"none", "DENIED", "PENDING_APPROVAL"}

ApproveLeg ==
    /\ watch = "policy"
    /\ Share(Allocation[place]) >= Dust
    /\ \/ /\ ~PolicyConfigured
          /\ watch' = "withdraw" /\ UNCHANGED <<place, answered>>
       \/ /\ PolicyConfigured
          /\ \E answer \in Answers :
                IF MustApprove(answer)
                THEN /\ answered' = [answered EXCEPT ![current][Allocation[place]] = answer]
                     /\ watch' = "withdraw" /\ UNCHANGED place
                ELSE NextLeg /\ UNCHANGED answered
    /\ UNCHANGED <<deposits, seen, current, total, sweeper, redis, restarts, paid, haltedBefore>>

\* The withdrawal is sent, whatever its answer, or refused.
ShareSent == paid' = [paid EXCEPT ![current][Allocation[place]] = @ + 1]

SendLeg_Retried ==
    /\ watch = "withdraw"
    /\ paid[current][Allocation[place]] < 2
    /\ ShareSent
    /\ NextLeg \/ UNCHANGED <<watch, place>>
    /\ UNCHANGED <<deposits, seen, current, total, sweeper, redis, restarts, answered, haltedBefore>>

SendLeg ==
    /\ watch = "withdraw"
    /\ ShareSent
    /\ NextLeg
    /\ UNCHANGED <<deposits, seen, current, total, sweeper, redis, restarts, answered, haltedBefore>>

RefuseLeg ==
    /\ watch = "withdraw"
    /\ NextLeg
    /\ UNCHANGED <<deposits, seen, current, total, sweeper, redis, restarts, history>>

Watcher ==
    \/ WatchTick \/ WatchMode \/ TakeDeposit \/ EndPoll \/ Convert
    \/ SkipLeg \/ ApproveLeg \/ SendLeg \/ RefuseLeg

-----------------------------------------------------------------------------
(* The sweeper. *)

SweepTick ==
    /\ sweep = "idle" /\ sweepPlace' = 1
    /\ haltedBefore' = [haltedBefore EXCEPT !.sweeper = Reasons]
    /\ \E killed \in Reads(killSwitch, FALSE) : sweep' = IF killed THEN "idle" ELSE "mode"
    /\ UNCHANGED <<deposits, watcher, redis, restarts, paid, answered>>

SweepMode_Ignored ==
    /\ sweep = "mode"
    /\ sweep' = "venue"
    /\ UNCHANGED <<deposits, watcher, sweepPlace, redis, restarts, history>>

SweepMode ==
    /\ sweep = "mode"
    /\ \E read \in Reads(mode, "RUNNING") : sweep' = IF read = "RUNNING" THEN "venue" ELSE "idle"
    /\ UNCHANGED <<deposits, watcher, sweepPlace, redis, restarts, history>>

NextVenue ==
    /\ sweepPlace' = sweepPlace + 1
    /\ sweep' = IF sweepPlace = Len(Allocation) THEN "idle" ELSE "venue"

\* The balance of the venue has an excess and the policy approves, or the venue is passed over.
SweepVenue ==
    /\ sweep = "venue"
    /\ \/ sweep' = "withdraw" /\ UNCHANGED sweepPlace
       \/ NextVenue
    /\ UNCHANGED <<deposits, watcher, redis, restarts, history>>

\* The withdrawal arrives as a deposit later, or is refused.
SweepWithdraw ==
    /\ sweep = "withdraw" /\ NextVenue
    /\ \E d \in Deposits \ Fiat, amount \in Amounts :
          /\ deposits[d].status = "absent"
          /\ deposits' = [deposits EXCEPT ![d] = [status |-> "pending", amount |-> amount]]
    /\ UNCHANGED <<watcher, redis, restarts, history>>

SweepRefused ==
    /\ sweep = "withdraw" /\ NextVenue
    /\ UNCHANGED <<deposits, watcher, redis, restarts, history>>

Sweeper == SweepTick \/ SweepMode \/ SweepVenue \/ SweepWithdraw \/ SweepRefused

-----------------------------------------------------------------------------
(* Around them. *)

\* A day passes: whatever goes on is finished long before.
Day ==
    /\ watch = "idle"
    /\ seen' = [d \in DOMAIN seen |-> IF seen[d] < MaxAge THEN seen[d] + 1 ELSE MaxAge]
    /\ UNCHANGED <<deposits, watch, current, total, place, sweeper, redis, restarts, history>>

Control ==
    /\ \/ killSwitch' = ~killSwitch /\ UNCHANGED mode
       \/ mode' \in {"RUNNING", "PAUSED"} \ {mode} /\ UNCHANGED killSwitch
    /\ haltedBefore' = [p \in DOMAIN haltedBefore |-> haltedBefore[p] \cap Reasons']
    /\ UNCHANGED <<deposits, watcher, sweeper, restarts, paid, answered>>

\* What was seen is forgotten.
Restart ==
    /\ restarts < MaxRestarts /\ restarts' = restarts + 1
    /\ seen' = <<>> /\ watch' = "idle" /\ current' = 0 /\ total' = 0 /\ place' = 1
    /\ sweep' = "idle" /\ sweepPlace' = 1
    /\ Forgetting(DOMAIN seen)
    /\ haltedBefore' = [watcher |-> {}, sweeper |-> {}]
    /\ UNCHANGED <<deposits, redis>>

Next == Deposit \/ Complete \/ Watcher \/ Sweeper \/ Day \/ Control \/ Restart

Spec == Init /\ [][Next]_vars

-----------------------------------------------------------------------------

\* Of a deposit it has taken, the treasury sends each venue at most one share until it
\* forgets the deposit, a day or a restart later (LastSeen, src/internal/treasury/types.go).
Promise == INSTANCE Payout WITH known <- DOMAIN seen

ImplementsPayout == Promise!Spec

\* A share leaves only if the policy was asked for this deposit and venue since the deposit was
\* taken, answered, and neither denied nor held it (distribute, src/internal/treasury/engine.go).
SharesNotRefused ==
    PolicyConfigured =>
        \A d \in Deposits, v \in Receivers :
            paid[d][v] > 0 => answered[d][v] \in {"APPROVED", ""}

\* Nothing is withdrawn in a round of the watcher or the sweeper that began when the reason to
\* halt was there already (the checks of pollDeposits and executeSweep).
TransfersStop == [][
    /\ SendLeg => haltedBefore.watcher = {}
    /\ SweepWithdraw => haltedBefore.sweeper = {}]_vars

-----------------------------------------------------------------------------
\* Said by the repository, and not so.

\* MustApprove "returns an error if the transfer is not approved"
\* (internal/transfer/client.go:72): then no share leaves that was not.
SharesApproved ==
    PolicyConfigured =>
        \A d \in Deposits, v \in Receivers : paid[d][v] > 0 => answered[d][v] = "APPROVED"
=============================================================================
