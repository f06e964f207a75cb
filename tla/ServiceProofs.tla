---------------------------- MODULE ServiceProofs ----------------------------
(***************************************************************************)
(* Of two services that ask Redis before they act. Treasury: no share the  *)
(* policy denied or holds leaves, and the service implements Payout, for   *)
(* any deposits, venues and amounts. The arbitrage service: the kill       *)
(* switch silences it, and its intents keep their cooldowns.               *)
(***************************************************************************)
EXTENDS Treasury, ArbService, TLAPS

\* What the two goroutines know of the deposit the watcher has in hand: it is remembered, and
\* the shares it was sent are those of the places passed.
Working == watch \in {"convert", "policy", "withdraw"}
AtLeg == watch \in {"policy", "withdraw"}

PlacesOK ==
    /\ place \in Nat \ {0}
    /\ AtLeg => place \in 1..Len(Allocation)
RememberedOK ==
    /\ DOMAIN seen \subseteq Deposits
    /\ Working => current \in DOMAIN seen
PaidOK ==
    /\ paid \in [Deposits -> [Receivers -> Nat]]
    /\ answered \in [Deposits -> [Receivers -> Answers]]
    /\ \A d \in Deposits, v \in Receivers : paid[d][v] > 0 => d \in DOMAIN seen
ProgressOK ==
    /\ watch = "convert" => \A v \in Receivers : paid[current][v] = 0
    /\ AtLeg => \A v \in Receivers :
           paid[current][v] > 0 => \E k \in 1..(place - 1) : v = Allocation[k]
GoneAhead == {"APPROVED", ""}
GrantsOK == PolicyConfigured =>
    /\ \A d \in Deposits, v \in Receivers : paid[d][v] > 0 => answered[d][v] \in GoneAhead
    /\ watch = "withdraw" => answered[current][Allocation[place]] \in GoneAhead

IInv == PlacesOK /\ RememberedOK /\ PaidOK /\ ProgressOK /\ GrantsOK

state == <<seen, watch, current, place, paid, answered>>

\* The initial state satisfies the inductive invariant.
LEMMA InitIInv == Init => IInv
  BY TreasuryAssumption DEF Init, IInv, PlacesOK, RememberedOK, PaidOK, ProgressOK, GrantsOK,
       Working, AtLeg, None, Answers, Receivers

\* Steps that leave what the invariant speaks of alone preserve it.
LEMMA SameIInv == IInv /\ UNCHANGED state => IInv'
  BY DEF state, IInv, PlacesOK, RememberedOK, PaidOK, ProgressOK, GrantsOK, Working, AtLeg, Receivers

\* The next place is one of the allocation while the watcher is at a leg.
LEMMA LegFacts ==
  ASSUME IInv, AtLeg
  PROVE  /\ place \in 1..Len(Allocation) /\ Len(Allocation) \in Nat
         /\ Allocation[place] \in Receivers
         /\ current \in Deposits /\ current \in DOMAIN seen
  BY TreasuryAssumption DEF IInv, PlacesOK, RememberedOK, Working, AtLeg, Receivers

\* Passing on to the next leg without a payment preserves the invariant.
LEMMA NextLegIInv ==
  ASSUME IInv, AtLeg, NextLeg, UNCHANGED <<seen, current, paid, answered>>
  PROVE  IInv'
<1>1. /\ place \in 1..Len(Allocation) /\ Len(Allocation) \in Nat /\ current \in DOMAIN seen
  BY LegFacts
<1>2. watch' \in {"poll", "policy"} /\ place' = place + 1
  BY DEF NextLeg
<1>3. watch' = "policy" => place' \in 1..Len(Allocation)
  BY <1>1 DEF NextLeg
<1>4. PlacesOK'
  BY <1>1, <1>2, <1>3 DEF PlacesOK, AtLeg
<1>5. RememberedOK' /\ PaidOK'
  BY <1>1, <1>2 DEF IInv, RememberedOK, PaidOK, Working, Receivers
<1>6. ProgressOK'
  <2>1. \A v \in Receivers : paid[current][v] > 0 => \E k \in 1..(place - 1) : v = Allocation[k]
    BY DEF IInv, ProgressOK
  <2>2. \A v \in Receivers :
           paid'[current'][v] > 0 => \E k \in 1..(place' - 1) : v = Allocation[k]
    BY <1>1, <1>2, <2>1
  <2> QED  BY <1>2, <2>2 DEF ProgressOK, AtLeg, Receivers
<1>7. GrantsOK'
  BY <1>2 DEF IInv, GrantsOK
<1> QED  BY <1>4, <1>5, <1>6, <1>7 DEF IInv

\* Forgetting deposits leaves no share of them, and what is said of the others.
LEMMA ForgetFacts ==
  ASSUME PaidOK, GrantsOK, NEW forgotten, Forgetting(forgotten)
  PROVE  /\ paid' \in [Deposits -> [Receivers -> Nat]]
         /\ answered' \in [Deposits -> [Receivers -> Answers]]
         /\ \A d \in Deposits, v \in Receivers :
               paid'[d][v] > 0 => d \notin forgotten /\ d \in DOMAIN seen
         /\ PolicyConfigured => \A d \in Deposits, v \in Receivers :
               paid'[d][v] > 0 => answered'[d][v] \in GoneAhead
<1>1. None(0) \in [Deposits -> [Receivers -> Nat]]
  BY DEF None
<1>2. None("none") \in [Deposits -> [Receivers -> Answers]]
  BY DEF None, Answers
<1>3. \A d \in Deposits, v \in Receivers : None(0)[d][v] = 0
  BY DEF None
<1>4. paid' = [d \in Deposits |-> IF d \in forgotten THEN None(0)[d] ELSE paid[d]]
  BY DEF Forgetting
<1>5. answered' = [d \in Deposits |-> IF d \in forgotten THEN None("none")[d] ELSE answered[d]]
  BY DEF Forgetting
<1>6. paid' \in [Deposits -> [Receivers -> Nat]]
  BY <1>1, <1>4 DEF PaidOK
<1>7. answered' \in [Deposits -> [Receivers -> Answers]]
  BY <1>2, <1>5 DEF PaidOK
<1>8. \A d \in Deposits, v \in Receivers :
         paid'[d][v] > 0 => d \notin forgotten /\ paid[d][v] > 0 /\ answered'[d] = answered[d]
  BY <1>3, <1>4, <1>5
<1> QED  BY <1>6, <1>7, <1>8 DEF PaidOK, GrantsOK

\* A step of the watcher or of anything around it preserves the invariant.
LEMMA NextIInv == IInv /\ [Next]_vars => IInv'
<1> SUFFICES ASSUME IInv, [Next]_vars PROVE IInv'  OBVIOUS
<1>1. CASE UNCHANGED vars
  BY <1>1, SameIInv DEF vars, watcher, history, state
<1>2. CASE Deposit \/ Complete \/ Sweeper \/ Control
  BY <1>2, SameIInv DEF Deposit, Complete, Sweeper, SweepTick, SweepMode, SweepVenue, SweepWithdraw,
       SweepRefused, Control, watcher, history, state
<1>3. CASE WatchTick
  <2> DEFINE pruned == DOMAIN seen \ DOMAIN Prune
  <2>1. /\ DOMAIN seen' \subseteq DOMAIN seen /\ pruned = DOMAIN seen \ DOMAIN seen'
        /\ watch' \in {"idle", "mode"} /\ place' = place
    BY <1>3 DEF WatchTick, Prune
  <2>2. Forgetting(pruned)
    BY <1>3 DEF WatchTick
  <2> HIDE DEF pruned
  <2>3. /\ paid' \in [Deposits -> [Receivers -> Nat]]
        /\ answered' \in [Deposits -> [Receivers -> Answers]]
        /\ \A d \in Deposits, v \in Receivers :
              paid'[d][v] > 0 => d \notin pruned /\ d \in DOMAIN seen
        /\ PolicyConfigured => \A d \in Deposits, v \in Receivers :
              paid'[d][v] > 0 => answered'[d][v] \in GoneAhead
    BY <2>2, ForgetFacts DEF IInv
  <2>4. \A d \in Deposits, v \in Receivers : paid'[d][v] > 0 => d \in DOMAIN seen'
    BY <2>1, <2>3
  <2>5. PaidOK' /\ GrantsOK'
    BY <2>1, <2>3, <2>4 DEF PaidOK, GrantsOK, Receivers
  <2> QED
    BY <2>1, <2>5 DEF IInv, PlacesOK, RememberedOK, ProgressOK, Working, AtLeg
<1>4. CASE WatchMode \/ EndPoll
  BY <1>4 DEF WatchMode, EndPoll, history, IInv, PlacesOK, RememberedOK, PaidOK, ProgressOK, GrantsOK,
       Working, AtLeg, Receivers
<1>5. CASE TakeDeposit
  <2>1. PICK d \in Deposits \ DOMAIN seen :
           /\ seen' = [x \in DOMAIN seen \cup {d} |-> IF x = d THEN 0 ELSE seen[x]]
           /\ current' = d
    BY <1>5 DEF TakeDeposit
  <2>2. watch' = "convert" /\ place' = place /\ paid' = paid /\ answered' = answered
    BY <1>5 DEF TakeDeposit, history
  <2>3. DOMAIN seen' = DOMAIN seen \cup {d}
    BY <2>1
  <2>4. \A v \in Receivers : paid[d][v] = 0
    BY <2>1 DEF IInv, PaidOK
  <2> QED
    BY <2>1, <2>2, <2>3, <2>4 DEF IInv, PlacesOK, RememberedOK, PaidOK, ProgressOK, GrantsOK,
         Working, AtLeg, Receivers
<1>6. CASE Convert
  <2>1. /\ watch' \in {"poll", "policy"} /\ place' = 1 /\ watch = "convert"
        /\ UNCHANGED <<seen, current, paid, answered>>
    BY <1>6 DEF Convert, history
  <2>2. 1 \in 1..Len(Allocation)
    BY TreasuryAssumption
  <2>3. \A v \in Receivers : ~ (paid'[current'][v] > 0)
    BY <2>1 DEF IInv, ProgressOK
  <2>4. ProgressOK'
    BY <2>1, <2>3 DEF ProgressOK, AtLeg, Receivers
  <2>5. PlacesOK' /\ RememberedOK'
    BY <2>1, <2>2 DEF IInv, PlacesOK, RememberedOK, Working, AtLeg
  <2>6. PaidOK' /\ GrantsOK'
    BY <2>1 DEF IInv, PaidOK, GrantsOK, Receivers
  <2> QED  BY <2>4, <2>5, <2>6 DEF IInv
<1>7. CASE SkipLeg \/ RefuseLeg
  BY <1>7, NextLegIInv DEF SkipLeg, RefuseLeg, AtLeg, history
<1>8. CASE ApproveLeg
  <2>1. AtLeg /\ watch = "policy" /\ UNCHANGED <<seen, current, paid>>
    BY <1>8 DEF ApproveLeg, AtLeg
  <2>2. Allocation[place] \in Receivers /\ current \in Deposits /\ current \in DOMAIN seen
    BY <2>1, LegFacts
  <2>3. CASE ~PolicyConfigured /\ watch' = "withdraw" /\ UNCHANGED <<place, answered>>
    BY <2>1, <2>3 DEF IInv, PlacesOK, RememberedOK, PaidOK, ProgressOK, GrantsOK, Working, AtLeg,
         Receivers
  <2>4. ASSUME NEW answer \in Answers, MustApprove(answer), watch' = "withdraw", UNCHANGED place,
               answered' = [answered EXCEPT ![current][Allocation[place]] = answer]
        PROVE  IInv'
    <3>1. answer \in GoneAhead
      BY <2>4 DEF Answers, MustApprove, GoneAhead
    <3>2. /\ answered \in [Deposits -> [Receivers -> Answers]]
          /\ \A d \in Deposits : answered[d] \in [Receivers -> Answers]
      BY DEF IInv, PaidOK
    <3>3. /\ answered' \in [Deposits -> [Receivers -> Answers]]
          /\ \A d \in Deposits, v \in Receivers : answered'[d][v] \in {answer, answered[d][v]}
          /\ answered'[current][Allocation[place]] = answer
      BY <2>2, <2>4, <3>2
    <3>4. PlacesOK' /\ RememberedOK' /\ ProgressOK'
      BY <2>1, <2>4 DEF IInv, PlacesOK, RememberedOK, ProgressOK, Working, AtLeg, Receivers
    <3>5. PaidOK'
      BY <2>1, <3>3 DEF IInv, PaidOK, Receivers
    <3>6. GrantsOK'
      BY <2>1, <2>4, <3>1, <3>3 DEF IInv, GrantsOK, Receivers
    <3> QED  BY <3>4, <3>5, <3>6 DEF IInv
  <2>5. CASE NextLeg /\ UNCHANGED answered
    BY <2>1, <2>5, NextLegIInv
  <2> QED  BY <1>8, <2>3, <2>4, <2>5 DEF ApproveLeg
<1>9. CASE SendLeg
  <2>1. AtLeg /\ watch = "withdraw" /\ UNCHANGED <<seen, current, answered>> /\ NextLeg
        /\ paid' = [paid EXCEPT ![current][Allocation[place]] = @ + 1]
    BY <1>9 DEF SendLeg, ShareSent, AtLeg
  <2>2. /\ place \in 1..Len(Allocation) /\ Len(Allocation) \in Nat
        /\ Allocation[place] \in Receivers /\ current \in Deposits /\ current \in DOMAIN seen
    BY <2>1, LegFacts
  <2>3. /\ paid \in [Deposits -> [Receivers -> Nat]]
        /\ \A d \in Deposits : paid[d] \in [Receivers -> Nat]
        /\ \A v \in Receivers : paid[current][v] > 0 => \E k \in 1..(place - 1) : v = Allocation[k]
    BY <2>1 DEF IInv, PaidOK, ProgressOK
  <2>4. /\ paid' \in [Deposits -> [Receivers -> Nat]]
        /\ \A v \in Receivers : v = Allocation[place] \/ paid'[current][v] = paid[current][v]
        /\ \A d \in Deposits \ {current} : paid'[d] = paid[d]
    BY <2>1, <2>2, <2>3
  <2>5. place' = place + 1 /\ watch' \in {"poll", "policy"}
        /\ (watch' = "policy" => place' \in 1..Len(Allocation))
    BY <2>1, <2>2 DEF NextLeg
  <2>6. PlacesOK' /\ RememberedOK'
    BY <2>1, <2>2, <2>5 DEF IInv, PlacesOK, RememberedOK, Working, AtLeg
  <2>7. PaidOK'
    BY <2>1, <2>2, <2>4 DEF IInv, PaidOK, Receivers
  <2>8. ProgressOK'
    <3>1. \A v \in Receivers : paid'[current][v] > 0 => \E k \in 1..place : v = Allocation[k]
      BY <2>2, <2>3, <2>4
    <3>2. place = place' - 1 /\ current' = current
      BY <2>1, <2>2, <2>5
    <3> QED  BY <2>5, <3>1, <3>2 DEF ProgressOK, AtLeg, Receivers
  <2>9. GrantsOK'
    <3> SUFFICES ASSUME PolicyConfigured, NEW d \in Deposits, NEW v \in Receivers, paid'[d][v] > 0
                 PROVE  answered[d][v] \in GoneAhead
      BY <2>1, <2>5 DEF GrantsOK, Receivers
    <3>1. answered[current][Allocation[place]] \in GoneAhead
      BY <2>1 DEF IInv, GrantsOK
    <3>2. paid[d][v] > 0 => answered[d][v] \in GoneAhead
      BY DEF IInv, GrantsOK
    <3> QED  BY <2>4, <3>1, <3>2
  <2> QED  BY <2>6, <2>7, <2>8, <2>9 DEF IInv
<1>10. CASE Day
  <2>1. DOMAIN seen' = DOMAIN seen /\ UNCHANGED <<watch, current, place, paid, answered>>
    BY <1>10 DEF Day, history
  <2> QED
    BY <2>1 DEF IInv, PlacesOK, RememberedOK, PaidOK, ProgressOK, GrantsOK, Working, AtLeg, Receivers
<1>11. CASE Restart
  <2>1. DOMAIN seen' = {} /\ watch' = "idle" /\ place' = 1 /\ Forgetting(DOMAIN seen)
    BY <1>11 DEF Restart
  <2>2. /\ paid' \in [Deposits -> [Receivers -> Nat]]
        /\ answered' \in [Deposits -> [Receivers -> Answers]]
        /\ \A d \in Deposits, v \in Receivers : ~ (paid'[d][v] > 0)
    BY <2>1, ForgetFacts DEF IInv
  <2>3. PaidOK' /\ GrantsOK'
    BY <2>1, <2>2 DEF PaidOK, GrantsOK, Receivers
  <2>4. 1 \in Nat \ {0}
    OBVIOUS
  <2> QED
    BY <2>1, <2>3, <2>4 DEF IInv, PlacesOK, RememberedOK, ProgressOK, Working, AtLeg
<1> QED
  BY <1>1, <1>2, <1>3, <1>4, <1>5, <1>6, <1>7, <1>8, <1>9, <1>10, <1>11 DEF Next, Watcher

\* The inductive invariant holds in every reachable state.
LEMMA Invariance == Spec => []IInv
  BY InitIInv, NextIInv, PTL DEF Spec

\* No share of a deposit leaves unasked, or after the transfer policy denied or held it: what
\* leaves was approved, or had an answer without a status (distribute, MustApprove).
THEOREM SharesAreNotRefused == Spec => []SharesNotRefused
<1>1. IInv => SharesNotRefused
  BY DEF IInv, GrantsOK, GoneAhead, SharesNotRefused
<1> QED  BY <1>1, Invariance, PTL

-----------------------------------------------------------------------------

\* A step that pays nothing and remembers the same deposits is a stutter of Payout.
LEMMA Stutter ==
  ASSUME DOMAIN seen' = DOMAIN seen, paid' = paid
  PROVE  [Promise!Next]_<<DOMAIN seen, paid>>
  OBVIOUS

\* Forgetting deposits is Payout's.
LEMMA ForgetStep ==
  ASSUME IInv, NEW forgotten \in SUBSET DOMAIN seen,
         DOMAIN seen' = DOMAIN seen \ forgotten, Forgetting(forgotten)
  PROVE  Promise!Next
<1>1. \A d \in Deposits : None(0)[d] = Promise!Unpaid
  BY DEF None, Promise!Unpaid
<1>2. Promise!Forget(forgotten)
  BY <1>1 DEF Promise!Forget, Forgetting
<1> QED  BY <1>2 DEF Promise!Next

\* Every step of the treasury is one of Payout, or a stutter.
LEMMA StepSimulation == IInv /\ [Next]_vars => [Promise!Next]_<<DOMAIN seen, paid>>
<1> SUFFICES ASSUME IInv, [Next]_vars PROVE [Promise!Next]_<<DOMAIN seen, paid>>  OBVIOUS
<1>1. CASE UNCHANGED <<seen, paid>>
  BY <1>1, Stutter
<1>2. CASE WatchTick
  <2> DEFINE pruned == DOMAIN seen \ DOMAIN Prune
  <2>1. pruned \in SUBSET DOMAIN seen /\ DOMAIN seen' = DOMAIN seen \ pruned
    BY <1>2 DEF WatchTick, Prune
  <2>2. Forgetting(pruned)
    BY <1>2 DEF WatchTick
  <2> HIDE DEF pruned
  <2> QED  BY <2>1, <2>2, ForgetStep
<1>3. CASE TakeDeposit
  <2>1. PICK d \in Deposits \ DOMAIN seen :
           seen' = [x \in DOMAIN seen \cup {d} |-> IF x = d THEN 0 ELSE seen[x]]
    BY <1>3 DEF TakeDeposit
  <2>2. DOMAIN seen' = DOMAIN seen \cup {d} /\ paid' = paid
    BY <1>3, <2>1 DEF TakeDeposit, history
  <2>3. Promise!Learn(d)
    BY <2>2 DEF Promise!Learn
  <2> QED  BY <2>3 DEF Promise!Next
<1>4. CASE SendLeg
  <2> DEFINE v == Allocation[place]
  <2>1. AtLeg /\ seen' = seen /\ paid' = [paid EXCEPT ![current][v] = @ + 1]
    BY <1>4 DEF SendLeg, ShareSent, AtLeg
  <2>2. /\ place \in 1..Len(Allocation) /\ Len(Allocation) \in Nat
        /\ v \in Receivers /\ current \in Deposits /\ current \in DOMAIN seen
    BY <2>1, LegFacts
  <2>3. paid[current][v] = 0
    <3>1. \A w \in Receivers : paid[current][w] > 0 => \E k \in 1..(place - 1) : w = Allocation[k]
      BY <2>1 DEF IInv, ProgressOK
    <3>2. \A k \in 1..(place - 1) : Allocation[k] # Allocation[place]
      BY <2>2, TreasuryAssumption
    <3>3. paid[current][v] \in Nat
      BY <2>2 DEF IInv, PaidOK
    <3> QED  BY <2>2, <3>1, <3>2, <3>3
  <2>4. paid' = [paid EXCEPT ![current][v] = 1]
    BY <2>1, <2>3
  <2>5. Promise!Pay(current, v)
    BY <2>1, <2>2, <2>3, <2>4 DEF Promise!Pay
  <2> QED  BY <2>2, <2>5 DEF Promise!Next
<1>5. CASE Day
  BY <1>5, Stutter DEF Day, history
<1>6. CASE Restart
  <2>1. DOMAIN seen' = {} /\ Forgetting(DOMAIN seen)
    BY <1>6 DEF Restart
  <2> QED  BY <2>1, ForgetStep
<1>7. CASE Deposit \/ Complete \/ WatchMode \/ EndPoll \/ Convert \/ SkipLeg \/ ApproveLeg
           \/ RefuseLeg \/ Sweeper \/ Control \/ UNCHANGED vars
  BY <1>7, <1>1 DEF Deposit, Complete, WatchMode, EndPoll, Convert, SkipLeg, ApproveLeg, RefuseLeg,
       Sweeper, SweepTick, SweepMode, SweepVenue, SweepWithdraw, SweepRefused, Control, vars,
       watcher, history
<1> QED  BY <1>2, <1>3, <1>4, <1>5, <1>6, <1>7 DEF Next, Watcher

\* The treasury implements Payout: while it remembers a deposit it sends each venue one share
\* of it at most, counted by the withdrawals sent (RunDepositWatcher, distribute).
THEOREM Implementation == Spec => ImplementsPayout
<1>1. Init => Promise!Init
  BY DEF Init, Promise!Init, Promise!Unpaid, None
<1> QED
  BY <1>1, Invariance, StepSimulation, PTL DEF Spec, ImplementsPayout, Promise!Spec

-----------------------------------------------------------------------------

\* The reasons to halt before a round are reasons still; past the look at the kill switch that
\* is not one of them, and past the look at the mode there is none.
HaltedOK ==
    /\ haltedBefore \in [{"watcher", "sweeper"} -> SUBSET {"kill", "mode"}]
    /\ \A p \in {"watcher", "sweeper"} : haltedBefore[p] \subseteq Reasons
    /\ watch = "mode" => "kill" \notin haltedBefore["watcher"]
    /\ watch \notin {"idle", "mode"} => haltedBefore["watcher"] = {}
    /\ sweep = "mode" => "kill" \notin haltedBefore["sweeper"]
    /\ sweep \notin {"idle", "mode"} => haltedBefore["sweeper"] = {}

\* What a look at the mode leaves of the reasons.
LEMMA RunningLeaves ==
  ASSUME NEW before, before \subseteq Reasons, "kill" \notin before, mode = "RUNNING"
  PROVE  before = {}
  BY DEF Reasons

\* The kill switch is one of the reasons to halt.
LEMMA ReasonsType == Reasons \in SUBSET {"kill", "mode"} /\ ("kill" \in Reasons => killSwitch)
  BY DEF Reasons

\* Every step keeps what a round past its checks saw, if Redis answers.
LEMMA NextHalted ==
  ASSUME RedisFails = FALSE, HaltedOK, [Next]_vars
  PROVE  HaltedOK'
<1> DEFINE hw == haltedBefore["watcher"]
           hs == haltedBefore["sweeper"]
<1>a. UNCHANGED redis => Reasons' = Reasons
  BY DEF redis, Reasons
<1>1. CASE WatchTick
  <2>1. haltedBefore' = [haltedBefore EXCEPT !["watcher"] = Reasons] /\ UNCHANGED <<redis, sweep>>
    BY <1>1 DEF WatchTick, sweeper
  <2>2. watch' = IF killSwitch THEN "idle" ELSE "mode"
    BY <1>1 DEF WatchTick, Reads
  <2>3. /\ haltedBefore' \in [{"watcher", "sweeper"} -> SUBSET {"kill", "mode"}]
        /\ haltedBefore'["watcher"] = Reasons /\ haltedBefore'["sweeper"] = hs
    BY <2>1, ReasonsType DEF HaltedOK
  <2> QED
    BY <1>a, <2>1, <2>2, <2>3, ReasonsType DEF HaltedOK
<1>2. CASE WatchMode
  <2>1. watch = "mode" /\ UNCHANGED <<redis, sweep, haltedBefore>>
    BY <1>2 DEF WatchMode, sweeper, history
  <2>2. watch' = "idle" \/ (watch' = "poll" /\ mode = "RUNNING")
    BY <1>2 DEF WatchMode, Reads
  <2>3. watch' = "poll" => hw = {}
    BY <2>1, <2>2, RunningLeaves DEF HaltedOK
  <2> QED
    BY <1>a, <2>1, <2>2, <2>3 DEF HaltedOK
<1>3. CASE TakeDeposit \/ EndPoll \/ Convert \/ SkipLeg \/ ApproveLeg \/ SendLeg \/ RefuseLeg
  <2>1. UNCHANGED <<redis, sweep, haltedBefore>> /\ watch \notin {"idle", "mode"} /\ watch' # "mode"
    BY <1>3 DEF TakeDeposit, EndPoll, Convert, SkipLeg, ApproveLeg, SendLeg, RefuseLeg, NextLeg,
       sweeper, history
  <2> QED
    BY <1>a, <2>1 DEF HaltedOK
<1>4. CASE SweepTick
  <2>1. haltedBefore' = [haltedBefore EXCEPT !["sweeper"] = Reasons] /\ UNCHANGED <<redis, watch>>
    BY <1>4 DEF SweepTick, watcher
  <2>2. sweep' = IF killSwitch THEN "idle" ELSE "mode"
    BY <1>4 DEF SweepTick, Reads
  <2>3. /\ haltedBefore' \in [{"watcher", "sweeper"} -> SUBSET {"kill", "mode"}]
        /\ haltedBefore'["sweeper"] = Reasons /\ haltedBefore'["watcher"] = hw
    BY <2>1, ReasonsType DEF HaltedOK
  <2> QED
    BY <1>a, <2>1, <2>2, <2>3, ReasonsType DEF HaltedOK
<1>5. CASE SweepMode
  <2>1. sweep = "mode" /\ UNCHANGED <<redis, watch, haltedBefore>>
    BY <1>5 DEF SweepMode, watcher, history
  <2>2. sweep' = "idle" \/ (sweep' = "venue" /\ mode = "RUNNING")
    BY <1>5 DEF SweepMode, Reads
  <2>3. sweep' = "venue" => hs = {}
    BY <2>1, <2>2, RunningLeaves DEF HaltedOK
  <2> QED
    BY <1>a, <2>1, <2>2, <2>3 DEF HaltedOK
<1>6. CASE SweepVenue \/ SweepWithdraw \/ SweepRefused
  <2>1. UNCHANGED <<redis, watch, haltedBefore>> /\ sweep \notin {"idle", "mode"} /\ sweep' # "mode"
    BY <1>6 DEF SweepVenue, SweepWithdraw, SweepRefused, NextVenue, watcher, history
  <2> QED
    BY <1>a, <2>1 DEF HaltedOK
<1>7. CASE Control
  <2>1. UNCHANGED <<watch, sweep>>
    BY <1>7 DEF Control, watcher, sweeper
  <2>2. /\ haltedBefore' \in [{"watcher", "sweeper"} -> SUBSET {"kill", "mode"}]
        /\ haltedBefore'["watcher"] = hw \cap Reasons' /\ haltedBefore'["sweeper"] = hs \cap Reasons'
    BY <1>7 DEF Control, HaltedOK
  <2> QED
    BY <2>1, <2>2 DEF HaltedOK
<1>8. CASE Restart
  <2>1. watch' = "idle" /\ sweep' = "idle"
    BY <1>8 DEF Restart
  <2>2. haltedBefore' = [watcher |-> {}, sweeper |-> {}]
    BY <1>8 DEF Restart
  <2>3. /\ haltedBefore' \in [{"watcher", "sweeper"} -> SUBSET {"kill", "mode"}]
        /\ haltedBefore'["watcher"] = {} /\ haltedBefore'["sweeper"] = {}
    BY <2>2
  <2> QED
    BY <2>1, <2>3 DEF HaltedOK
<1>9. CASE Deposit \/ Complete \/ Day \/ UNCHANGED vars
  <2>1. UNCHANGED <<redis, watch, sweep, haltedBefore>>
    BY <1>9 DEF Deposit, Complete, Day, vars, watcher, sweeper, history
  <2> QED
    BY <1>a, <2>1 DEF HaltedOK
<1> QED
  BY <1>1, <1>2, <1>3, <1>4, <1>5, <1>6, <1>7, <1>8, <1>9 DEF Next, Watcher, Sweeper

\* If Redis answers, nothing is withdrawn in a round of the watcher or the sweeper that began
\* when the reason to halt was there already (pollDeposits, executeSweep).
THEOREM TransfersStopHolds == RedisFails = FALSE /\ Spec => TransfersStop
<1>1. Init => HaltedOK
  <2> SUFFICES ASSUME Init PROVE HaltedOK
    OBVIOUS
  <2>1. /\ haltedBefore \in [{"watcher", "sweeper"} -> SUBSET {"kill", "mode"}]
        /\ haltedBefore["watcher"] = {} /\ haltedBefore["sweeper"] = {}
    BY DEF Init
  <2> QED
    BY <2>1 DEF Init, HaltedOK
<1>2. RedisFails = FALSE /\ HaltedOK /\ [Next]_vars => HaltedOK'
  BY NextHalted
<1>3. HaltedOK => /\ SendLeg => haltedBefore.watcher = {}
                  /\ SweepWithdraw => haltedBefore.sweeper = {}
  BY DEF HaltedOK, SendLeg, SweepWithdraw
<1>4. RedisFails = FALSE => [](RedisFails = FALSE)
  <2>1. RedisFails = FALSE => (RedisFails = FALSE)'
    OBVIOUS
  <2> QED
    BY <2>1, PTL
<1> QED
  BY <1>1, <1>2, <1>3, <1>4, PTL DEF Spec, TransfersStop

-----------------------------------------------------------------------------
(* The arbitrage service. What one evaluation emits: intents no cooldown   *)
(* forbids, with keys of their own.                                        *)

IsSeq(s) == \E S : s \in Seq(S)

DexKeys == {"dexcex:buy", "dexcex:sell"}
Uncooled(key) == key[1] \in DexKeys

Sendable(intent, at) ==
    /\ intent.ts = at
    /\ Cooldown(intent.key) \in Nat
    /\ Uncooled(intent.key) => Cooldown(intent.key) = 0 /\ at = now
    /\ ~Uncooled(intent.key) => ~IsOnCooldown(intent.key, at, Cooldown(intent.key))

KeysDiffer(s) == \A j, k \in DOMAIN s : s[j].key = s[k].key => j = k

Fresh(s, at) ==
    /\ IsSeq(s)
    /\ \A k \in DOMAIN s : Sendable(s[k], at)
    /\ KeysDiffer(s)

OfStrategies(s, names) == \A k \in DOMAIN s : s[k].key[1] \in names

\* A sequence is one of its length, and has its positions for a domain.
LEMMA SeqFacts ==
  ASSUME NEW s, IsSeq(s)
  PROVE  /\ Len(s) \in Nat /\ DOMAIN s = 1..Len(s)
         /\ s # <<>> => /\ IsSeq(Tail(s)) /\ Len(Tail(s)) = Len(s) - 1
                        /\ \A k \in 1..(Len(s) - 1) : Tail(s)[k] = s[k + 1]
                        /\ Head(s) = s[1] /\ 1 \in DOMAIN s
         /\ s = <<>> <=> Len(s) = 0
<1>1. PICK S : s \in Seq(S)
  BY DEF IsSeq
<1>2. s # <<>> => Tail(s) \in Seq(S)
  BY <1>1
<1>3. s # <<>> => IsSeq(Tail(s))
  BY <1>2 DEF IsSeq
<1> QED
  BY <1>1, <1>3

\* Two sequences joined.
LEMMA JoinFacts ==
  ASSUME NEW s, NEW t, IsSeq(s), IsSeq(t)
  PROVE  /\ IsSeq(s \o t) /\ Len(s \o t) = Len(s) + Len(t)
         /\ \A k \in DOMAIN (s \o t) :
               \/ k \in DOMAIN s /\ (s \o t)[k] = s[k]
               \/ k > Len(s) /\ k - Len(s) \in DOMAIN t /\ (s \o t)[k] = t[k - Len(s)]
<1>1. PICK S : s \in Seq(S)
  BY DEF IsSeq
<1>2. PICK T : t \in Seq(T)
  BY DEF IsSeq
<1>3. s \in Seq(S \cup T) /\ t \in Seq(S \cup T)
  BY <1>1, <1>2
<1>4. s \o t \in Seq(S \cup T) /\ Len(s \o t) = Len(s) + Len(t)
  BY <1>3
<1>5. IsSeq(s \o t)
  BY <1>4 DEF IsSeq
<1> QED
  BY <1>3, <1>4, <1>5

\* One intent, or two.
LEMMA ShortSeqs ==
  ASSUME NEW a, NEW b
  PROVE  /\ IsSeq(<<>>) /\ Len(<<>>) = 0 /\ DOMAIN <<>> = {}
         /\ IsSeq(<<a>>) /\ Len(<<a>>) = 1 /\ DOMAIN <<a>> = {1} /\ <<a>>[1] = a
         /\ IsSeq(<<a, b>>) /\ Len(<<a, b>>) = 2 /\ DOMAIN <<a, b>> = {1, 2}
         /\ <<a, b>>[1] = a /\ <<a, b>>[2] = b
<1>1. <<>> \in Seq({a}) /\ <<a>> \in Seq({a}) /\ <<a, b>> \in Seq({a, b})
  OBVIOUS
<1>2. IsSeq(<<>>) /\ IsSeq(<<a>>) /\ IsSeq(<<a, b>>)
  BY <1>1 DEF IsSeq
<1> QED
  BY <1>1, <1>2

\* No intent, and no reading.
LEMMA EmptySeq ==
  ASSUME NEW S
  PROVE  IsSeq(<<>>) /\ <<>> \in Seq(S) /\ Len(<<>>) = 0
<1>1. <<>> \in Seq(S) /\ Len(<<>>) = 0
  OBVIOUS
<1> QED
  BY <1>1 DEF IsSeq

\* Intents of different strategies, one after the other, are fresh.
LEMMA FreshJoined ==
  ASSUME NEW s, NEW t, NEW at, NEW names, NEW others,
         Fresh(s, at), Fresh(t, at), OfStrategies(s, names), OfStrategies(t, others),
         names \cap others = {}
  PROVE  Fresh(s \o t, at) /\ OfStrategies(s \o t, names \cup others)
<1> DEFINE j == s \o t
<1>1. IsSeq(s) /\ IsSeq(t)
  BY DEF Fresh
<1>2. /\ IsSeq(j)
      /\ \A k \in DOMAIN j : \/ k \in DOMAIN s /\ j[k] = s[k]
                             \/ k > Len(s) /\ k - Len(s) \in DOMAIN t /\ j[k] = t[k - Len(s)]
  BY <1>1, JoinFacts
<1>3. Len(s) \in Nat /\ DOMAIN j = 1..Len(j) /\ Len(j) \in Nat
  BY <1>1, <1>2, SeqFacts
<1> HIDE DEF j
<1>4. \A k \in DOMAIN j : Sendable(j[k], at)
  BY <1>2 DEF Fresh
<1>5. OfStrategies(j, names \cup others)
  BY <1>2 DEF OfStrategies
<1>6. ASSUME NEW k \in DOMAIN j, NEW m \in DOMAIN j, j[k].key = j[m].key
      PROVE  k = m
  <2>1. CASE k \in DOMAIN s /\ j[k] = s[k] /\ m \in DOMAIN s /\ j[m] = s[m]
    BY <1>6, <2>1 DEF Fresh, KeysDiffer
  <2>2. CASE /\ k > Len(s) /\ k - Len(s) \in DOMAIN t /\ j[k] = t[k - Len(s)]
             /\ m > Len(s) /\ m - Len(s) \in DOMAIN t /\ j[m] = t[m - Len(s)]
    <3>1. k - Len(s) = m - Len(s)
      BY <1>6, <2>2 DEF Fresh, KeysDiffer
    <3> QED
      BY <3>1, <1>3
  <2>3. CASE /\ k \in DOMAIN s /\ j[k] = s[k]
             /\ m - Len(s) \in DOMAIN t /\ j[m] = t[m - Len(s)]
    BY <1>6, <2>3 DEF OfStrategies
  <2>4. CASE /\ m \in DOMAIN s /\ j[m] = s[m]
             /\ k - Len(s) \in DOMAIN t /\ j[k] = t[k - Len(s)]
    BY <1>6, <2>4 DEF OfStrategies
  <2> QED
    BY <1>2, <2>1, <2>2, <2>3, <2>4
<1>7. KeysDiffer(j)
  BY <1>6 DEF KeysDiffer
<1> QED
  BY <1>2, <1>4, <1>5, <1>7 DEF Fresh, j

\* Nothing is fresh, and of any strategy.
LEMMA FreshNothing ==
  ASSUME NEW at, NEW names
  PROVE  Fresh(<<>>, at) /\ Len(<<>>) = 0 /\ OfStrategies(<<>>, names)
  BY ShortSeqs DEF Fresh, KeysDiffer, OfStrategies

\* So is one sendable intent.
LEMMA FreshOne ==
  ASSUME NEW at, NEW intent, Sendable(intent, at)
  PROVE  Fresh(<<intent>>, at) /\ Len(<<intent>>) = 1 /\ OfStrategies(<<intent>>, {intent.key[1]})
<1> DEFINE s == <<intent>>
<1>1. IsSeq(s) /\ Len(s) = 1 /\ DOMAIN s = {1} /\ s[1] = intent
  BY ShortSeqs
<1> HIDE DEF s
<1>2. Fresh(s, at) /\ OfStrategies(s, {intent.key[1]})
  BY <1>1 DEF Fresh, KeysDiffer, OfStrategies
<1> QED
  BY <1>1, <1>2 DEF s

\* And so are two whose keys differ.
LEMMA FreshTwo ==
  ASSUME NEW at, NEW a, NEW b, Sendable(a, at), Sendable(b, at), a.key # b.key
  PROVE  Fresh(<<a, b>>, at) /\ Len(<<a, b>>) = 2
<1> DEFINE s == <<a, b>>
<1>1. IsSeq(s) /\ Len(s) = 2 /\ DOMAIN s = {1, 2} /\ s[1] = a /\ s[2] = b
  BY ShortSeqs
<1> HIDE DEF s
<1>2. Fresh(s, at)
  BY <1>1 DEF Fresh, KeysDiffer
<1> QED
  BY <1>1, <1>2 DEF s

\* A strategy with a key of its own and a cooldown emits one intent at most.
LEMMA FreshSpaced ==
  ASSUME NEW key, NEW at, NEW ttl, NEW s \in Spaced(key, at, ttl),
         Cooldown(key) = ttl, ttl \in Nat, ~Uncooled(key)
  PROVE  Fresh(s, at) /\ Len(s) <= 1 /\ OfStrategies(s, {key[1]})
<1> DEFINE intent == Intent(key, at, {TrackedVenue})
<1>1. intent.key = key /\ intent.ts = at
  BY DEF Intent
<1>2. CASE s = <<>>
  BY <1>2, FreshNothing
<1>3. CASE s = <<intent>> /\ ~IsOnCooldown(key, at, ttl)
  <2>1. Sendable(intent, at)
    BY <1>1, <1>3 DEF Sendable
  <2> HIDE DEF intent
  <2> QED
    BY <1>1, <1>3, <2>1, FreshOne
<1> QED
  BY <1>2, <1>3 DEF Spaced

\* What the trackers with cooldowns emit.
LEMMA FreshTimed ==
    /\ \A s \in EvaluateBasisTrades(now) : Fresh(s, now) /\ Len(s) <= 1 /\ OfStrategies(s, {"basis"})
    /\ \A s \in EvaluateCascades(now) : Fresh(s, now) /\ Len(s) <= 1 /\ OfStrategies(s, {"cascade"})
    /\ \A s \in EvaluateCorrelationTrades(now) :
          Fresh(s, now) /\ Len(s) <= 1 /\ OfStrategies(s, {"corr"})
<1>1. ASSUME NEW s \in EvaluateBasisTrades(now)
      PROVE  Fresh(s, now) /\ Len(s) <= 1 /\ OfStrategies(s, {"basis"})
  <2> DEFINE key == <<"basis", Tracked, TrackedVenue>>
  <2>1. key[1] = "basis" /\ Cooldown(key) = Gap["basis"] /\ ~Uncooled(key) /\ Gap["basis"] \in Nat
    BY ArbAssumption DEF Cooldown, Uncooled, DexKeys
  <2>2. s = <<>> \/ s \in Spaced(key, now, Gap["basis"])
    BY DEF EvaluateBasisTrades
  <2> HIDE DEF key
  <2>3. CASE s = <<>>
    BY <2>3, FreshNothing
  <2>4. CASE s \in Spaced(key, now, Gap["basis"])
    BY <2>1, <2>4, FreshSpaced
  <2> QED
    BY <2>2, <2>3, <2>4
<1>2. ASSUME NEW s \in EvaluateCascades(now)
      PROVE  Fresh(s, now) /\ Len(s) <= 1 /\ OfStrategies(s, {"cascade"})
  <2> DEFINE key == <<"cascade", Tracked, TrackedVenue>>
  <2>1. key[1] = "cascade" /\ Cooldown(key) = Gap["cascade"] /\ ~Uncooled(key) /\ Gap["cascade"] \in Nat
    BY ArbAssumption DEF Cooldown, Uncooled, DexKeys
  <2>2. s = <<>> \/ s \in Spaced(key, now, Gap["cascade"])
    BY DEF EvaluateCascades
  <2> HIDE DEF key
  <2>3. CASE s = <<>>
    BY <2>3, FreshNothing
  <2>4. CASE s \in Spaced(key, now, Gap["cascade"])
    BY <2>1, <2>4, FreshSpaced
  <2> QED
    BY <2>2, <2>3, <2>4
<1>3. ASSUME NEW s \in EvaluateCorrelationTrades(now)
      PROVE  Fresh(s, now) /\ Len(s) <= 1 /\ OfStrategies(s, {"corr"})
  <2> DEFINE key == <<"corr", TrackedVenue>>
  <2>1. key[1] = "corr" /\ Cooldown(key) = Gap["correlation"] /\ ~Uncooled(key) /\ Gap["correlation"] \in Nat
    BY ArbAssumption DEF Cooldown, Uncooled, DexKeys
  <2>2. s = <<>> \/ s \in Spaced(key, now, Gap["correlation"])
    BY DEF EvaluateCorrelationTrades
  <2> HIDE DEF key
  <2>3. CASE s = <<>>
    BY <2>3, FreshNothing
  <2>4. CASE s \in Spaced(key, now, Gap["correlation"])
    BY <2>1, <2>4, FreshSpaced
  <2> QED
    BY <2>2, <2>3, <2>4
<1> QED
  BY <1>1, <1>2, <1>3

\* DEX-CEX trades mark no cooldown, and there is one at most of a side.
LEMMA FreshDEXCEX ==
  ASSUME NEW s \in EvaluateDEXCEX(now)
  PROVE  Fresh(s, now) /\ Len(s) <= 2 /\ OfStrategies(s, DexKeys)
<1> DEFINE buy == Intent(<<"dexcex:buy", Tracked, TrackedVenue>>, now, {TrackedVenue, "dex"})
           sell == Intent(<<"dexcex:sell", Tracked, TrackedVenue>>, now, {TrackedVenue, "dex"})
<1>1. /\ buy.key[1] = "dexcex:buy" /\ Cooldown(buy.key) = 0 /\ Uncooled(buy.key) /\ buy.ts = now
      /\ sell.key[1] = "dexcex:sell" /\ Cooldown(sell.key) = 0 /\ Uncooled(sell.key) /\ sell.ts = now
  BY DEF Intent, Cooldown, Uncooled, DexKeys
<1>2. \/ s = <<>>
      \/ \E a \in {<<buy>>, <<>>}, b \in {<<sell>>, <<>>} : s = a \o b
  BY DEF EvaluateDEXCEX
<1> HIDE DEF buy, sell
<1>3. Sendable(buy, now) /\ Sendable(sell, now)
  BY <1>1 DEF Sendable
<1>4. /\ Fresh(<<buy>>, now) /\ Len(<<buy>>) = 1 /\ OfStrategies(<<buy>>, {"dexcex:buy"})
      /\ Fresh(<<sell>>, now) /\ Len(<<sell>>) = 1 /\ OfStrategies(<<sell>>, {"dexcex:sell"})
  BY <1>1, <1>3, FreshOne
<1>5. CASE s = <<>>
  BY <1>5, FreshNothing
<1>6. ASSUME NEW a \in {<<buy>>, <<>>}, NEW b \in {<<sell>>, <<>>}, s = a \o b
      PROVE  Fresh(s, now) /\ Len(s) <= 2 /\ OfStrategies(s, DexKeys)
  <2>1. /\ Fresh(a, now) /\ Len(a) \in 0..1 /\ OfStrategies(a, {"dexcex:buy"})
        /\ Fresh(b, now) /\ Len(b) \in 0..1 /\ OfStrategies(b, {"dexcex:sell"})
    BY <1>4, FreshNothing
  <2>2. Fresh(a \o b, now) /\ OfStrategies(a \o b, {"dexcex:buy"} \cup {"dexcex:sell"})
    BY <2>1, FreshJoined
  <2>3. IsSeq(a) /\ IsSeq(b)
    BY <2>1 DEF Fresh
  <2>4. Len(a \o b) = Len(a) + Len(b)
    BY <2>3, JoinFacts
  <2> QED
    BY <1>6, <2>1, <2>2, <2>4 DEF OfStrategies, DexKeys
<1> QED
  BY <1>2, <1>5, <1>6

\* An update brings two intents at most, which share no venue.
LEMMA FreshProcess ==
  ASSUME NEW u, NEW s \in Process(u),
         u.symbol \notin {"basis", "cascade", "corr", "dexcex:buy", "dexcex:sell"},
         Setting("cooldown", u.symbol) \in Nat
  PROVE  Fresh(s, u.ts) /\ Len(s) <= 2 /\ OfStrategies(s, {u.symbol})
<1>1. ASSUME NEW c \in Candidates(u)
      PROVE  /\ Sendable(c, u.ts) /\ c.key[1] = u.symbol
             /\ c.key[2] \in c.venues
  <2>1. PICK t \in Trades(u) :
           c = [key |-> <<u.symbol, t[2], t[3]>>, ts |-> u.ts, venues |-> {t[2], t[3]},
                profit |-> t[1] * NetEdge(u, t[2], t[3])]
    BY DEF Candidates
  <2>2. ~IsOnCooldown(<<u.symbol, t[2], t[3]>>, u.ts, Setting("cooldown", u.symbol))
    BY DEF Trades
  <2>3. c.key = <<u.symbol, t[2], t[3]>> /\ c.ts = u.ts /\ c.venues = {t[2], t[3]}
    BY <2>1
  <2>4. c.key[1] = u.symbol /\ c.key[2] = t[2]
    BY <2>3
  <2>5. Cooldown(c.key) = Setting("cooldown", u.symbol) /\ ~Uncooled(c.key)
    BY <2>4 DEF Cooldown, Uncooled, DexKeys
  <2> QED
    BY <2>2, <2>3, <2>4, <2>5 DEF Sendable
<1>2. \/ s = <<>>
      \/ \E a \in Candidates(u) : s = <<a>>
      \/ \E a, b \in Candidates(u) : s = <<a, b>> /\ a.venues \cap b.venues = {}
  BY DEF Process, PickBest, MostProfitable
<1>3. CASE s = <<>>
  BY <1>3, FreshNothing
<1>4. ASSUME NEW a \in Candidates(u), s = <<a>>
      PROVE  Fresh(s, u.ts) /\ Len(s) <= 2 /\ OfStrategies(s, {u.symbol})
  BY <1>1, <1>4, FreshOne
<1>5. ASSUME NEW a \in Candidates(u), NEW b \in Candidates(u), s = <<a, b>>, a.venues \cap b.venues = {}
      PROVE  Fresh(s, u.ts) /\ Len(s) <= 2 /\ OfStrategies(s, {u.symbol})
  <2>1. a.key # b.key
    BY <1>1, <1>5
  <2>2. Fresh(s, u.ts) /\ Len(s) = 2
    BY <1>1, <1>5, <2>1, FreshTwo
  <2>3. OfStrategies(s, {u.symbol})
    BY <1>1, <1>5, ShortSeqs DEF OfStrategies
  <2> QED
    BY <2>2, <2>3
<1> QED
  BY <1>2, <1>3, <1>4, <1>5

-----------------------------------------------------------------------------
(* The kill switch. From the check on, what was published since the switch *)
(* was set and what the loop still has in hand fit one batch.              *)

\* An update read: what an update may say, and when it was made.
Readings == {[symbol |-> u.symbol, quality |-> u.quality, book |-> u.book, ts |-> t] :
                u \in Updates, t \in Nat}

LoopShape ==
    /\ step \in {"select", "publishTimed", "kill", "mode", "read", "process", "publish"}
    /\ IsSeq(outbox) /\ batch \in Seq(Readings)
    /\ step \in {"select", "kill", "mode", "read", "publishTimed"} => batch = <<>>
    /\ step \in {"select", "kill", "mode", "read", "process"} => outbox = <<>>
    /\ step = "process" => batch # <<>>

InHand == Len(outbox) + 2 * Len(batch)
Due == IF step \in {"mode", "read"} THEN 2 * BatchSize ELSE InHand

SilenceOK ==
    /\ killed \in BOOLEAN /\ sinceKill \in Nat
    /\ ~killed => sinceKill = 0
    /\ InHand <= 2 * BatchSize
    /\ killed => sinceKill + Due <= 2 * BatchSize

SilenceInv == LoopShape /\ now \in Nat /\ SilenceOK

\* A timer emits four intents at most.
LEMMA TimersEmit ==
  ASSUME BasisTimer \/ StrategyTimer
  PROVE  /\ step = "select" /\ step' = "publishTimed" /\ UNCHANGED <<now, killed, batch, observed>>
         /\ Fresh(outbox', now) /\ Len(outbox') <= 4
         /\ \E marked : /\ lastMs' = MarkedKeys(marked, now)
                        /\ marked = {outbox'[k].key : k \in {m \in DOMAIN outbox' : ~Uncooled(outbox'[m].key)}}
<1>1. CASE BasisTimer
  <2>1. PICK intents \in EvaluateBasisTrades(now) : Emit(intents)
    BY <1>1 DEF BasisTimer
  <2>2. /\ outbox' = intents /\ step' = "publishTimed" /\ lastMs' = Marked(intents, now)
        /\ UNCHANGED <<now, killed, batch, observed>> /\ step = "select"
    BY <1>1, <2>1 DEF BasisTimer, Emit, switches
  <2>3. Fresh(intents, now) /\ Len(intents) <= 1 /\ OfStrategies(intents, {"basis"})
    BY FreshTimed
  <2>4. \A k \in DOMAIN intents : ~Uncooled(intents[k].key)
    BY <2>3 DEF OfStrategies, Uncooled, DexKeys
  <2>5. {intents[k].key : k \in DOMAIN intents}
          = {intents[k].key : k \in {m \in DOMAIN intents : ~Uncooled(intents[m].key)}}
    BY <2>4
  <2>6. lastMs' = MarkedKeys({intents[k].key : k \in DOMAIN intents}, now)
    BY <2>2 DEF Marked
  <2>7. IsSeq(intents)
    BY <2>3 DEF Fresh
  <2>8. Len(intents) <= 4
    BY <2>3, <2>7, SeqFacts
  <2> QED
    BY <2>2, <2>3, <2>5, <2>6, <2>8
<1>2. CASE StrategyTimer
  <2>1. PICK a \in IF "cascade" \in enabled THEN EvaluateCascades(now) ELSE {<<>>},
             b \in IF "correlation" \in enabled THEN EvaluateCorrelationTrades(now) ELSE {<<>>},
             c \in IF "dexcex" \in enabled THEN EvaluateDEXCEX(now) ELSE {<<>>} :
                /\ outbox' = a \o b \o c /\ step' = "publishTimed"
                /\ lastMs' = Marked(a \o b, now)
    BY <1>2 DEF StrategyTimer
  <2>2. UNCHANGED <<now, killed, batch, observed>> /\ step = "select"
    BY <1>2 DEF StrategyTimer, switches
  <2>3. /\ Fresh(a, now) /\ Len(a) <= 1 /\ OfStrategies(a, {"cascade"})
        /\ Fresh(b, now) /\ Len(b) <= 1 /\ OfStrategies(b, {"corr"})
        /\ Fresh(c, now) /\ Len(c) <= 2 /\ OfStrategies(c, DexKeys)
    BY FreshTimed, FreshDEXCEX, FreshNothing
  <2> DEFINE ab == a \o b
             abc == ab \o c
  <2>4. Fresh(ab, now) /\ OfStrategies(ab, {"cascade"} \cup {"corr"})
    BY <2>3, FreshJoined
  <2>5. ({"cascade"} \cup {"corr"}) \cap DexKeys = {}
    BY DEF DexKeys
  <2>6. Fresh(ab, now) /\ Fresh(c, now)
    BY <2>3, <2>4
  <2> HIDE DEF ab
  <2>7. Fresh(abc, now)
    BY <2>3, <2>4, <2>5, FreshJoined
  <2>8. IsSeq(a) /\ IsSeq(b) /\ IsSeq(ab) /\ IsSeq(c)
    BY <2>3, <2>4 DEF Fresh
  <2>9. Len(ab) = Len(a) + Len(b)
    BY <2>8, JoinFacts DEF ab
  <2>10. /\ Len(abc) = Len(ab) + Len(c) /\ IsSeq(abc)
         /\ \A k \in DOMAIN abc :
               \/ k \in DOMAIN ab /\ abc[k] = ab[k]
               \/ k > Len(ab) /\ k - Len(ab) \in DOMAIN c /\ abc[k] = c[k - Len(ab)]
    BY <2>8, JoinFacts
  <2>11. /\ Len(a) \in Nat /\ Len(b) \in Nat /\ Len(c) \in Nat
         /\ DOMAIN ab = 1..Len(ab) /\ Len(ab) \in Nat /\ DOMAIN abc = 1..Len(abc)
    BY <2>8, <2>10, SeqFacts
  <2>12. Len(abc) <= 4
    BY <2>3, <2>9, <2>10, <2>11
  <2> HIDE DEF abc
  <2>13. \A k \in DOMAIN ab : k \in DOMAIN abc /\ abc[k] = ab[k]
    <3> SUFFICES ASSUME NEW k \in DOMAIN ab PROVE k \in DOMAIN abc /\ abc[k] = ab[k]
      OBVIOUS
    <3>1. k \in DOMAIN abc /\ ~(k > Len(ab))
      BY <2>10, <2>11
    <3> QED
      BY <3>1, <2>10
  <2>14. \A k \in DOMAIN ab : ~Uncooled(ab[k].key)
    BY <2>4 DEF OfStrategies, Uncooled, DexKeys
  <2>15. \A k \in DOMAIN c : Uncooled(c[k].key)
    BY <2>3 DEF OfStrategies, Uncooled
  <2>16. {ab[k].key : k \in DOMAIN ab}
           = {abc[k].key : k \in {m \in DOMAIN abc : ~Uncooled(abc[m].key)}}
    <3>1. ASSUME NEW k \in DOMAIN ab
          PROVE  k \in {m \in DOMAIN abc : ~Uncooled(abc[m].key)} /\ ab[k].key = abc[k].key
      BY <2>13, <2>14
    <3>2. ASSUME NEW k \in {m \in DOMAIN abc : ~Uncooled(abc[m].key)}
          PROVE  k \in DOMAIN ab /\ ab[k].key = abc[k].key
      BY <2>10, <2>15
    <3> QED
      BY <3>1, <3>2
  <2>17. lastMs' = MarkedKeys({ab[k].key : k \in DOMAIN ab}, now)
    BY <2>1 DEF Marked, ab
  <2>18. outbox' = abc
    BY <2>1 DEF ab, abc
  <2> QED
    BY <2>1, <2>2, <2>7, <2>12, <2>16, <2>17, <2>18
<1> QED
  BY <1>1, <1>2

\* The loop begins with nothing in hand.
LEMMA InitSilence == ArbInit => SilenceInv
<1> SUFFICES ASSUME ArbInit PROVE SilenceInv
  OBVIOUS
<1>1. IsSeq(<<>>) /\ <<>> \in Seq(Readings) /\ Len(<<>>) = 0
  BY EmptySeq
<1> QED
  <2>1. /\ now = StartTime /\ killed = FALSE /\ sinceKill = 0
        /\ step = "select" /\ batch = <<>> /\ outbox = <<>>
    BY DEF ArbInit
  <2>2. LoopShape
    BY <1>1, <2>1 DEF LoopShape
  <2>3. InHand = 0
    BY <1>1, <2>1 DEF InHand
  <2>4. StartTime \in Nat /\ BatchSize \in Nat
    BY ArbAssumption
  <2>5. killed \in BOOLEAN /\ ~killed
    BY <2>1
  <2>6. InHand <= 2 * BatchSize
    BY <2>3, <2>4
  <2>7. SilenceOK
    BY <2>1, <2>5, <2>6 DEF SilenceOK
  <2> QED
    BY <2>1, <2>2, <2>4, <2>7 DEF SilenceInv

\* What a step that leaves the loop alone leaves.
LEMMA LoopUnchanged ==
  ASSUME SilenceInv, UNCHANGED loop
  PROVE  LoopShape' /\ InHand' = InHand /\ Due' = Due
<1>1. UNCHANGED <<step, batch, outbox>>
  BY DEF loop
<1>2. Len(outbox') = Len(outbox) /\ Len(batch') = Len(batch)
  BY <1>1
<1> QED
  BY <1>1, <1>2 DEF SilenceInv, LoopShape, InHand, Due

\* Lengths are naturals.
LEMMA HandFacts ==
  ASSUME SilenceInv
  PROVE  /\ Len(outbox) \in Nat /\ Len(batch) \in Nat /\ InHand \in Nat /\ BatchSize \in Nat
         /\ Due \in Nat
<1>1. Len(outbox) \in Nat
  BY SeqFacts DEF SilenceInv, LoopShape
<1>2. Len(batch) \in Nat
  BY DEF SilenceInv, LoopShape
<1> QED
  BY <1>1, <1>2, ArbAssumption DEF InHand, Due

\* A reading processed is one of the batch, of a symbol the policy has a cooldown for.
LEMMA ReadingFacts ==
  ASSUME NEW r \in Readings
  PROVE  /\ r.ts \in Nat
         /\ r.symbol \notin {"basis", "cascade", "corr", "dexcex:buy", "dexcex:sell"}
         /\ Setting("cooldown", r.symbol) \in Nat
<1>1. PICK u \in Updates, t \in Nat :
        r = [symbol |-> u.symbol, quality |-> u.quality, book |-> u.book, ts |-> t]
  BY DEF Readings
<1>2. r.symbol = u.symbol /\ r.ts = t
  BY <1>1
<1> QED
  BY <1>2, ArbAssumption

\* Every step keeps the loop's shape, whatever Redis answers.
LEMMA NextShape ==
  ASSUME LoopShape, now \in Nat, [ArbNext]_arbVars
  PROVE  LoopShape' /\ now' \in Nat
<1>1. IsSeq(<<>>) /\ <<>> \in Seq(Readings) /\ Len(<<>>) = 0
  BY EmptySeq
<1>2. CASE BasisTimer \/ StrategyTimer
  <2>1. /\ step = "select" /\ step' = "publishTimed" /\ UNCHANGED <<now, killed, batch, observed>>
        /\ Fresh(outbox', now)
    BY <1>2, TimersEmit
  <2>2. IsSeq(outbox') /\ batch' = <<>> /\ now' = now
    BY <2>1 DEF Fresh, LoopShape
  <2> QED
    BY <1>1, <2>1, <2>2 DEF LoopShape
<1>3. CASE NoTimer \/ CheckKill \/ CheckMode
  <2>1. /\ UNCHANGED <<now, batch, outbox>> /\ step \in {"select", "kill", "mode"}
        /\ step' \in {"select", "kill", "mode", "read"}
    BY <1>3 DEF NoTimer, CheckKill, CheckMode
  <2> QED
    BY <2>1 DEF LoopShape
<1>4. CASE ReadConsensusUpdates
  <2>1. PICK n \in 0..BatchSize : \E read \in [1..n -> Dated] :
           batch' = read /\ step' = IF n = 0 THEN "select" ELSE "process"
    BY <1>4 DEF ReadConsensusUpdates
  <2>2. /\ batch' \in [1..n -> Dated] /\ step' = IF n = 0 THEN "select" ELSE "process"
        /\ step = "read" /\ UNCHANGED <<now, outbox>>
    BY <1>4, <2>1 DEF ReadConsensusUpdates
  <2>3. Dated \subseteq Readings /\ n \in Nat
    BY <2>1, ArbAssumption DEF Dated, Readings
  <2>4. batch' \in Seq(Readings) /\ Len(batch') = n
    BY <2>2, <2>3
  <2>5. n = 0 <=> batch' = <<>>
    BY <2>4
  <2>6. IsSeq(outbox') /\ outbox' = <<>>
    BY <2>2 DEF LoopShape
  <2> QED
    BY <2>2, <2>4, <2>5, <2>6 DEF LoopShape
<1>5. CASE ProcessUpdate
  <2>1. /\ step = "process" /\ step' = "publish" /\ batch' = Tail(batch) /\ batch # <<>>
        /\ outbox' \in Process(Head(batch)) /\ now' = now
    BY <1>5 DEF ProcessUpdate, LoopShape
  <2>2. Head(batch) \in Readings /\ Tail(batch) \in Seq(Readings)
    BY <2>1 DEF LoopShape
  <2>3. Fresh(outbox', Head(batch).ts)
    BY <2>1, <2>2, ReadingFacts, FreshProcess
  <2>4. IsSeq(outbox')
    BY <2>3 DEF Fresh
  <2> QED
    BY <2>1, <2>2, <2>4 DEF LoopShape
<1>6. CASE PublishTradeIntent
  <2>1. /\ step \in {"publish", "publishTimed"} /\ outbox # <<>> /\ outbox' = Tail(outbox)
        /\ UNCHANGED <<now, step, batch>>
    BY <1>6 DEF PublishTradeIntent
  <2>2. IsSeq(outbox')
    BY <2>1, SeqFacts DEF LoopShape
  <2> QED
    BY <2>1, <2>2 DEF LoopShape
<1>7. CASE AllPublished
  <2>1. /\ step \in {"publish", "publishTimed"} /\ outbox = <<>>
        /\ step' = IF step = "publishTimed" THEN "kill"
                   ELSE IF batch = <<>> THEN "select" ELSE "process"
        /\ UNCHANGED <<now, batch, outbox>>
    BY <1>7 DEF AllPublished
  <2> QED
    BY <2>1 DEF LoopShape
<1>8. CASE UNCHANGED loop /\ (now' = now \/ now' = now + 1)
  <2>1. UNCHANGED <<step, batch, outbox>>
    BY <1>8 DEF loop
  <2> QED
    BY <1>8, <2>1 DEF LoopShape
<1>9. CASE ServiceRestart
  <2>1. step' = "select" /\ batch' = <<>> /\ outbox' = <<>> /\ now' = now
    BY <1>9 DEF ServiceRestart
  <2> QED
    BY <1>1, <2>1 DEF LoopShape
<1> QED
  BY <1>2, <1>3, <1>4, <1>5, <1>6, <1>7, <1>8, <1>9
     DEF ArbNext, Recording, Tick, SetKillSwitch, PublishMode, arbVars

\* Every step keeps it, if Redis answers.
LEMMA NextSilence ==
  ASSUME BusFails = FALSE, SilenceInv, [ArbNext]_arbVars
  PROVE  SilenceInv'
<1>0. LoopShape' /\ now' \in Nat
  BY NextShape DEF SilenceInv
<1>1. /\ Len(outbox) \in Nat /\ Len(batch) \in Nat /\ InHand \in Nat /\ BatchSize \in Nat
      /\ BatchSize >= 2 /\ now \in Nat /\ killed \in BOOLEAN /\ sinceKill \in Nat
  BY HandFacts, ArbAssumption DEF SilenceInv, SilenceOK
<1>2. \A value, absent : KeyReads(value, absent) = {value}
  BY DEF KeyReads
<1>3. IsSeq(<<>>) /\ <<>> \in Seq(Readings) /\ Len(<<>>) = 0
  BY EmptySeq
<1>4. CASE BasisTimer \/ StrategyTimer
  <2>1. /\ step = "select" /\ step' = "publishTimed" /\ UNCHANGED <<now, killed, batch, observed>>
        /\ Fresh(outbox', now) /\ Len(outbox') <= 4
    BY <1>4, TimersEmit
  <2>2. ~killed
    BY <1>2, <1>4 DEF BasisTimer, StrategyTimer
  <2>3. IsSeq(outbox') /\ batch' = <<>> /\ sinceKill' = sinceKill
    BY <2>1 DEF Fresh, SilenceInv, LoopShape, observed
  <2>4. InHand' <= 2 * BatchSize
    <3>1. Len(outbox') \in Nat
      BY <2>3, SeqFacts
    <3>2. Len(batch') = 0
      BY <2>3, <1>3
    <3> QED
      BY <1>1, <2>1, <3>1, <3>2 DEF InHand
  <2> QED
    BY <1>1, <2>1, <2>2, <2>3, <1>0, <2>4 DEF SilenceInv, SilenceOK
<1>5. CASE NoTimer \/ CheckKill \/ CheckMode
  <2>1. /\ UNCHANGED <<now, killed, batch, outbox, sinceKill>> /\ step \in {"select", "kill", "mode"}
        /\ step' \in {"select", "kill", "mode", "read"}
        /\ step' = "mode" => ~killed
        /\ step' = "read" => step = "mode"
    BY <1>2, <1>5 DEF NoTimer, CheckKill, CheckMode, observed, switches
  <2>2. InHand = 0 /\ InHand' = 0
    BY <1>3, <2>1, <2>2 DEF SilenceInv, LoopShape, InHand
  <2>3. killed' => sinceKill' + Due' <= 2 * BatchSize
    BY <1>1, <2>1, <2>2 DEF SilenceInv, SilenceOK, Due
  <2> QED
    BY <1>1, <2>1, <1>0, <2>2, <2>3 DEF SilenceInv, SilenceOK
<1>6. CASE ReadConsensusUpdates
  <2>1. PICK n \in 0..BatchSize : \E read \in [1..n -> Dated] :
           batch' = read /\ step' = IF n = 0 THEN "select" ELSE "process"
    BY <1>6 DEF ReadConsensusUpdates
  <2>2. /\ batch' \in [1..n -> Dated] /\ step' = IF n = 0 THEN "select" ELSE "process"
        /\ step = "read" /\ UNCHANGED <<now, killed, outbox, sinceKill>>
    BY <1>6, <2>1 DEF ReadConsensusUpdates, observed, switches
  <2>3. Dated \subseteq Readings
    BY <1>1 DEF Dated, Readings
  <2>4. n \in Nat /\ n <= BatchSize
    BY <1>1, <2>1
  <2>5. batch' \in Seq(Readings) /\ Len(batch') = n
    BY <2>2, <2>3, <2>4
  <2>6. outbox = <<>> /\ Len(outbox') = 0
    BY <1>3, <2>2 DEF SilenceInv, LoopShape
  <2>7. InHand' = 2 * n /\ Due' = 2 * n
    BY <2>2, <2>4, <2>5, <2>6 DEF InHand, Due
  <2> QED
    BY <1>1, <2>2, <2>4, <1>0, <2>7 DEF SilenceInv, SilenceOK, Due
<1>7. CASE ProcessUpdate
  <2>1. /\ step = "process" /\ step' = "publish" /\ batch' = Tail(batch) /\ batch # <<>> /\ outbox = <<>>
        /\ UNCHANGED <<now, killed, sinceKill>>
    BY <1>7 DEF ProcessUpdate, observed, switches, SilenceInv, LoopShape
  <2>2. outbox' \in Process(Head(batch))
    BY <1>7 DEF ProcessUpdate
  <2>3. Head(batch) \in Readings /\ Tail(batch) \in Seq(Readings) /\ Len(Tail(batch)) = Len(batch) - 1
    BY <2>1 DEF SilenceInv, LoopShape
  <2>4. Fresh(outbox', Head(batch).ts) /\ Len(outbox') <= 2
    BY <2>2, <2>3, ReadingFacts, FreshProcess
  <2>5. IsSeq(outbox') /\ Len(outbox') \in Nat
    BY <2>4, SeqFacts DEF Fresh
  <2>6. InHand' \in Nat /\ InHand' <= InHand /\ Due' = InHand' /\ Due = InHand
    BY <1>1, <1>3, <2>1, <2>3, <2>4, <2>5 DEF InHand, Due
  <2>7. InHand <= 2 * BatchSize /\ (killed => sinceKill + InHand <= 2 * BatchSize)
        /\ (~killed => sinceKill = 0)
    BY <2>6 DEF SilenceInv, SilenceOK
  <2>8. InHand' <= 2 * BatchSize /\ (killed => sinceKill + InHand' <= 2 * BatchSize)
    <3> DEFINE b == BatchSize
               before == InHand
               after == InHand'
    <3>1. /\ before \in Nat /\ after \in Nat /\ b \in Nat /\ sinceKill \in Nat /\ after <= before
          /\ before <= 2 * b /\ (killed => sinceKill + before <= 2 * b)
      BY <1>1, <2>6, <2>7
    <3> HIDE DEF b, before, after
    <3>2. after <= 2 * b /\ (killed => sinceKill + after <= 2 * b)
      BY <3>1
    <3> QED
      BY <3>2 DEF b, before, after
  <2> QED
    BY <1>1, <2>1, <1>0, <2>6, <2>7, <2>8 DEF SilenceInv, SilenceOK
<1>8. CASE PublishTradeIntent
  <2>1. /\ step \in {"publish", "publishTimed"} /\ outbox # <<>> /\ outbox' = Tail(outbox)
        /\ UNCHANGED <<now, killed, step, batch>>
        /\ sinceKill' = IF killed THEN sinceKill + 1 ELSE 0
    BY <1>8 DEF PublishTradeIntent, Published, switches
  <2>2. IsSeq(outbox') /\ Len(outbox') = Len(outbox) - 1
    BY <2>1, SeqFacts DEF SilenceInv, LoopShape
  <2>3. InHand' = InHand - 1 /\ Due' = InHand' /\ Due = InHand
    BY <1>1, <2>1, <2>2 DEF InHand, Due
  <2> QED
    BY <1>1, <2>1, <1>0, <2>3 DEF SilenceInv, SilenceOK
<1>9. CASE AllPublished
  <2>1. /\ step \in {"publish", "publishTimed"} /\ outbox = <<>>
        /\ step' = IF step = "publishTimed" THEN "kill"
                   ELSE IF batch = <<>> THEN "select" ELSE "process"
        /\ UNCHANGED <<now, killed, batch, outbox, sinceKill>>
    BY <1>9 DEF AllPublished, observed, switches
  <2>2. InHand' = InHand /\ Due' = InHand' /\ Due = InHand
    BY <2>1 DEF InHand, Due
  <2> QED
    BY <2>1, <1>0, <2>2 DEF SilenceInv, SilenceOK
<1>10. CASE Recording \/ (\E wanted \in {"RUNNING", "PAUSED"} : PublishMode(wanted)) \/ UNCHANGED arbVars
  <2>1. UNCHANGED loop /\ UNCHANGED <<now, killed, sinceKill>>
    BY <1>10 DEF Recording, PublishMode, arbVars, observed, switches
  <2> QED
    BY <2>1, LoopUnchanged DEF SilenceInv, SilenceOK
<1>11. CASE Tick
  <2>1. UNCHANGED loop /\ UNCHANGED <<killed, sinceKill>> /\ now' = now + 1
    BY <1>11 DEF Tick, observed, switches
  <2> QED
    BY <1>1, <2>1, LoopUnchanged DEF SilenceInv, SilenceOK
<1>12. ASSUME NEW active \in BOOLEAN, SetKillSwitch(active)
       PROVE  SilenceInv'
  <2>1. /\ UNCHANGED loop /\ now' = now /\ killed' = active
        /\ sinceKill' = IF active THEN sinceKill ELSE 0
    BY <1>12 DEF SetKillSwitch
  <2>2. LoopShape' /\ InHand' = InHand /\ Due' = Due
    BY <2>1, LoopUnchanged
  <2>3. Due <= 2 * BatchSize /\ InHand <= 2 * BatchSize
    BY <1>1 DEF Due, SilenceInv, SilenceOK
  <2>4. sinceKill' \in Nat /\ (~active => sinceKill' = 0)
    BY <1>1, <2>1
  <2>5. active => sinceKill' + Due <= 2 * BatchSize
    <3>1. CASE killed
      BY <3>1, <2>1 DEF SilenceInv, SilenceOK
    <3>2. CASE ~killed /\ active
      <4>1. sinceKill' = 0
        BY <3>2, <2>1 DEF SilenceInv, SilenceOK
      <4>2. Due \in Nat
        BY HandFacts
      <4> QED
        BY <4>1, <4>2, <2>3
    <3> QED
      BY <3>1, <3>2
  <2> QED
    BY <1>1, <2>1, <2>2, <2>3, <2>4, <2>5 DEF SilenceInv, SilenceOK
<1>13. CASE ServiceRestart
  <2>1. /\ step' = "select" /\ batch' = <<>> /\ outbox' = <<>>
        /\ UNCHANGED <<now, killed, sinceKill>>
    BY <1>13 DEF ServiceRestart, switches
  <2>2. InHand' = 0 /\ Due' = 0
    BY <1>3, <2>1 DEF InHand, Due
  <2>3. Due \in Nat
    BY HandFacts
  <2>4. killed => sinceKill <= 2 * BatchSize
    BY <1>1, <2>3 DEF SilenceInv, SilenceOK
  <2> QED
    BY <1>1, <2>1, <1>0, <2>2, <2>4 DEF SilenceInv, SilenceOK
<1> QED
  BY <1>4, <1>5, <1>6, <1>7, <1>8, <1>9, <1>10, <1>11, <1>12, <1>13 DEF ArbNext

\* Once the kill switch is set, the arbitrage service publishes no more than came of the batch,
\* or of the timers, it had checked for.
THEOREM KillSilencesHolds == BusFails = FALSE /\ ArbSpec => []KillSilences
<1>1. ArbInit => SilenceInv
  BY InitSilence
<1>2. BusFails = FALSE /\ SilenceInv /\ [ArbNext]_arbVars => SilenceInv'
  BY NextSilence
<1>3. SilenceInv => KillSilences
  <2> SUFFICES ASSUME SilenceInv, killed PROVE sinceKill <= 2 * BatchSize
    BY DEF KillSilences
  <2> QED
    BY HandFacts DEF SilenceInv, SilenceOK
<1>4. BusFails = FALSE => [](BusFails = FALSE)
  <2>1. BusFails = FALSE => (BusFails = FALSE)'
    OBVIOUS
  <2> QED
    BY <2>1, PTL
<1> QED
  BY <1>1, <1>2, <1>3, <1>4, PTL DEF ArbSpec


-----------------------------------------------------------------------------
(* The cooldowns. What is about to be published was marked when it was     *)
(* made, and what was published with its key before is a cooldown older.   *)

MarksOK == \A key \in DOMAIN lastMs : lastMs[key] \in Nat

Sent(key) ==
    /\ lastIntent[key] \in Nat /\ lastIntent[key] <= now
    /\ ~Uncooled(key) => key \in DOMAIN lastMs /\ lastIntent[key] <= lastMs[key]
SentOK == \A key \in DOMAIN lastIntent : Sent(key)

Ready(intent) ==
    /\ intent.ts \in Nat /\ intent.ts <= now
    /\ Cooldown(intent.key) \in Nat
    /\ ~Uncooled(intent.key) => intent.key \in DOMAIN lastMs /\ lastMs[intent.key] = intent.ts
    /\ intent.key \in DOMAIN lastIntent =>
          intent.ts - lastIntent[intent.key] >= Cooldown(intent.key)
OutboxOK ==
    /\ \A k \in DOMAIN outbox : Ready(outbox[k])
    /\ KeysDiffer(outbox)

BatchOK == \A k \in DOMAIN batch : batch[k].ts <= now

SpacedInv ==
    /\ LoopShape /\ now \in Nat /\ MarksOK /\ SentOK /\ OutboxOK /\ BatchOK
    /\ crowded = FALSE

\* What an evaluation emits is ready, once its keys are marked.
LEMMA EmitKeeps ==
  ASSUME SpacedInv, NEW s, NEW at \in Nat, at <= now, Fresh(s, at), NEW marked,
         marked = {s[k].key : k \in {m \in DOMAIN s : ~Uncooled(s[m].key)}},
         outbox' = s, lastMs' = MarkedKeys(marked, at), UNCHANGED <<now, lastIntent>>
  PROVE  MarksOK' /\ SentOK' /\ OutboxOK'
<1>1. /\ DOMAIN lastMs' = marked \cup DOMAIN lastMs
      /\ \A key \in marked : lastMs'[key] = at
      /\ \A key \in DOMAIN lastMs : key \notin marked => lastMs'[key] = lastMs[key]
  BY DEF MarkedKeys
<1>2. MarksOK'
  BY <1>1 DEF SpacedInv, MarksOK
<1>3. ASSUME NEW key \in marked
      PROVE  key \in DOMAIN lastMs => lastMs[key] <= at
  <2>1. PICK k \in DOMAIN s : key = s[k].key /\ ~Uncooled(key)
    OBVIOUS
  <2>2. Cooldown(key) \in Nat /\ ~IsOnCooldown(key, at, Cooldown(key))
    BY <2>1 DEF Fresh, Sendable
  <2>3. key \in DOMAIN lastMs => lastMs[key] \in Nat /\ ~(at - lastMs[key] < Cooldown(key))
    BY <2>2 DEF IsOnCooldown, SpacedInv, MarksOK
  <2> QED
    BY <2>2, <2>3
<1>4. ASSUME NEW key \in DOMAIN lastIntent
      PROVE  Sent(key)'
  <2>1. lastIntent[key] \in Nat /\ lastIntent[key] <= now
        /\ (~Uncooled(key) => key \in DOMAIN lastMs /\ lastIntent[key] <= lastMs[key])
    BY DEF SpacedInv, SentOK, Sent
  <2>2. ASSUME ~Uncooled(key)
        PROVE  key \in DOMAIN lastMs' /\ lastIntent[key] <= lastMs'[key]
    <3>1. lastMs[key] \in Nat /\ key \in DOMAIN lastMs
      BY <2>1, <2>2 DEF SpacedInv, MarksOK
    <3>2. CASE key \in marked
      <4>1. lastMs[key] <= at /\ lastMs'[key] = at
        BY <1>1, <1>3, <3>1, <3>2
      <4> QED
        BY <1>1, <2>1, <2>2, <3>1, <4>1
    <3>3. CASE key \notin marked
      BY <1>1, <2>1, <2>2, <3>1, <3>3
    <3> QED
      BY <3>2, <3>3
  <2> QED
    BY <2>1, <2>2 DEF Sent, Uncooled
<1>5. SentOK'
  BY <1>4 DEF SentOK
<1>6. ASSUME NEW k \in DOMAIN s
      PROVE  Ready(s[k])'
  <2> DEFINE key == s[k].key
             ttl == Cooldown(key)
  <2>1. /\ s[k].ts = at /\ ttl \in Nat
        /\ Uncooled(key) => ttl = 0 /\ at = now
        /\ ~Uncooled(key) => ~IsOnCooldown(key, at, ttl)
    BY DEF Fresh, Sendable
  <2>2. ~Uncooled(key) => key \in marked
    OBVIOUS
  <2> HIDE DEF key, ttl
  <2>3. ~Uncooled(key) => key \in DOMAIN lastMs' /\ lastMs'[key] = at
    BY <1>1, <2>2
  <2>4. ASSUME key \in DOMAIN lastIntent
        PROVE  at - lastIntent[key] >= ttl
    <3>1. /\ lastIntent[key] \in Nat /\ lastIntent[key] <= now
          /\ ~Uncooled(key) => key \in DOMAIN lastMs /\ lastIntent[key] <= lastMs[key]
      BY <2>4 DEF SpacedInv, SentOK, Sent
    <3>2. CASE Uncooled(key)
      BY <2>1, <3>1, <3>2
    <3>3. CASE ~Uncooled(key)
      <4>1. key \in DOMAIN lastMs /\ lastMs[key] \in Nat /\ lastIntent[key] <= lastMs[key]
        BY <3>1, <3>3 DEF SpacedInv, MarksOK
      <4>2. ~(at - lastMs[key] < ttl)
        BY <2>1, <3>3, <4>1 DEF IsOnCooldown
      <4> QED
        BY <2>1, <3>1, <4>1, <4>2
    <3> QED
      BY <3>2, <3>3
  <2>5. /\ s[k].ts \in Nat /\ s[k].ts <= now' /\ Cooldown(s[k].key) \in Nat
        /\ ~Uncooled(s[k].key) => s[k].key \in DOMAIN lastMs' /\ lastMs'[s[k].key] = s[k].ts
        /\ s[k].key \in DOMAIN lastIntent' =>
              s[k].ts - lastIntent'[s[k].key] >= Cooldown(s[k].key)
    BY <2>1, <2>3, <2>4 DEF key, ttl
  <2> QED
    BY <2>5 DEF Ready, Uncooled, Cooldown, Setting
<1>7. OutboxOK'
  BY <1>6 DEF OutboxOK, Fresh, KeysDiffer
<1> QED
  BY <1>2, <1>5, <1>7

\* A publication leaves the rest of the outbox ready: its keys are others.
LEMMA PublishKeeps ==
  ASSUME SpacedInv, outbox # <<>>, outbox' = Tail(outbox), Published(Head(outbox)),
         UNCHANGED <<now, lastMs>>
  PROVE  SentOK' /\ OutboxOK' /\ crowded' = FALSE
<1> DEFINE sent == outbox[1]
<1>1. /\ Head(outbox) = sent /\ 1 \in DOMAIN outbox /\ IsSeq(Tail(outbox))
      /\ Len(outbox) \in Nat /\ DOMAIN outbox = 1..Len(outbox)
      /\ Len(Tail(outbox)) = Len(outbox) - 1
      /\ \A k \in 1..(Len(outbox) - 1) : Tail(outbox)[k] = outbox[k + 1]
  BY SeqFacts DEF SpacedInv, LoopShape
<1>2. DOMAIN Tail(outbox) = 1..(Len(outbox) - 1)
  BY <1>1, SeqFacts
<1>3. Ready(sent)
  BY <1>1 DEF SpacedInv, OutboxOK
<1> HIDE DEF sent
<1>4. /\ DOMAIN lastIntent' = {sent.key} \cup DOMAIN lastIntent
      /\ lastIntent'[sent.key] = sent.ts
      /\ \A key \in DOMAIN lastIntent : key # sent.key => lastIntent'[key] = lastIntent[key]
  BY <1>1 DEF Published
<1>5. crowded' = FALSE
  <2>1. sent.key \in DOMAIN lastIntent =>
          ~(sent.ts - lastIntent[sent.key] < Cooldown(sent.key))
    <3>1. sent.ts \in Nat /\ Cooldown(sent.key) \in Nat
          /\ (sent.key \in DOMAIN lastIntent =>
                /\ lastIntent[sent.key] \in Nat
                /\ sent.ts - lastIntent[sent.key] >= Cooldown(sent.key))
      BY <1>3 DEF Ready, SpacedInv, SentOK, Sent
    <3> QED
      BY <3>1
  <2>2. crowded' = (crowded \/ (/\ sent.key \in DOMAIN lastIntent
                                /\ sent.ts - lastIntent[sent.key] < Cooldown(sent.key)))
    BY <1>1 DEF Published
  <2> QED
    BY <2>1, <2>2 DEF SpacedInv
<1>6. ASSUME NEW key \in DOMAIN lastIntent'
      PROVE  Sent(key)'
  <2>1. CASE key = sent.key
    <3>1. /\ sent.ts \in Nat /\ sent.ts <= now
          /\ ~Uncooled(key) => key \in DOMAIN lastMs /\ lastMs[key] = sent.ts
      BY <1>3, <2>1 DEF Ready
    <3> QED
      BY <1>4, <2>1, <3>1 DEF Sent, Uncooled
  <2>2. CASE key # sent.key /\ key \in DOMAIN lastIntent
    <3>1. Sent(key) /\ lastIntent'[key] = lastIntent[key]
      BY <1>4, <2>2 DEF SpacedInv, SentOK
    <3> QED
      BY <3>1 DEF Sent, Uncooled
  <2> QED
    BY <1>4, <2>1, <2>2
<1>7. ASSUME NEW k \in DOMAIN outbox'
      PROVE  Ready(outbox[k])'
  <2>1. k + 1 \in DOMAIN outbox /\ k + 1 # 1 /\ outbox'[k] = outbox[k + 1]
    BY <1>1, <1>2
  <2> DEFINE next == outbox[k + 1]
  <2>2. next.key # sent.key
    BY <1>1, <2>1 DEF SpacedInv, OutboxOK, KeysDiffer, sent
  <2>3. Ready(next)
    BY <2>1 DEF SpacedInv, OutboxOK
  <2> HIDE DEF next
  <2>4. next.key \in DOMAIN lastIntent' => /\ next.key \in DOMAIN lastIntent
                                           /\ lastIntent'[next.key] = lastIntent[next.key]
    BY <1>4, <2>2
  <2>5. /\ next.ts \in Nat /\ next.ts <= now' /\ Cooldown(next.key) \in Nat
        /\ ~Uncooled(next.key) => next.key \in DOMAIN lastMs' /\ lastMs'[next.key] = next.ts
        /\ next.key \in DOMAIN lastIntent' =>
              next.ts - lastIntent'[next.key] >= Cooldown(next.key)
    BY <2>3, <2>4 DEF Ready
  <2>6. outbox'[k] = next
    BY <2>1 DEF next
  <2> QED
    BY <2>5, <2>6 DEF Ready, Uncooled, Cooldown, Setting
<1>8. KeysDiffer(outbox')
  <2> SUFFICES ASSUME NEW j \in DOMAIN outbox', NEW k \in DOMAIN outbox', outbox'[j].key = outbox'[k].key
               PROVE  j = k
    BY DEF KeysDiffer
  <2>1. /\ j \in Int /\ k \in Int /\ j + 1 \in DOMAIN outbox /\ k + 1 \in DOMAIN outbox
        /\ outbox'[j] = outbox[j + 1] /\ outbox'[k] = outbox[k + 1]
    BY <1>1, <1>2
  <2>2. j + 1 = k + 1
    BY <2>1 DEF SpacedInv, OutboxOK, KeysDiffer
  <2> QED
    BY <2>1, <2>2
<1>9. SentOK'
  BY <1>6 DEF SentOK
<1>10. OutboxOK'
  BY <1>7, <1>8 DEF OutboxOK, KeysDiffer
<1> QED
  BY <1>5, <1>9, <1>10


\* Nothing is marked, sent or ready at first.
LEMMA InitSpaced == ArbInit => SpacedInv
<1> SUFFICES ASSUME ArbInit PROVE SpacedInv
  OBVIOUS
<1>1. LoopShape /\ now \in Nat
  BY InitSilence DEF SilenceInv
<1>2. /\ lastMs = <<>> /\ lastIntent = <<>> /\ outbox = <<>> /\ batch = <<>> /\ crowded = FALSE
  BY DEF ArbInit
<1>3. DOMAIN <<>> = {}
  OBVIOUS
<1> QED
  BY <1>1, <1>2, <1>3 DEF SpacedInv, MarksOK, SentOK, OutboxOK, KeysDiffer, BatchOK

\* Every step keeps it, whatever Redis answers.
LEMMA NextSpaced ==
  ASSUME SpacedInv, [ArbNext]_arbVars
  PROVE  SpacedInv'
<1>1. LoopShape' /\ now' \in Nat
  BY NextShape DEF SpacedInv
<1>2. CASE BasisTimer \/ StrategyTimer
  <2>1. /\ UNCHANGED <<now, batch, lastIntent, crowded>> /\ Fresh(outbox', now)
        /\ \E marked : /\ lastMs' = MarkedKeys(marked, now)
                       /\ marked = {outbox'[k].key : k \in {m \in DOMAIN outbox' : ~Uncooled(outbox'[m].key)}}
    BY <1>2, TimersEmit DEF observed
  <2>2. PICK marked : /\ lastMs' = MarkedKeys(marked, now)
                      /\ marked = {outbox'[k].key : k \in {m \in DOMAIN outbox' : ~Uncooled(outbox'[m].key)}}
    BY <2>1
  <2>3. now \in Nat /\ now <= now
    BY DEF SpacedInv
  <2>4. PICK s : s = outbox'
    OBVIOUS
  <2>5. Fresh(s, now) /\ marked = {s[k].key : k \in {m \in DOMAIN s : ~Uncooled(s[m].key)}}
    BY <2>1, <2>2, <2>4
  <2>6. MarksOK' /\ SentOK' /\ OutboxOK'
    BY <2>1, <2>2, <2>3, <2>4, <2>5, EmitKeeps
  <2> QED
    BY <1>1, <2>1, <2>6 DEF SpacedInv, BatchOK
<1>3. CASE ProcessUpdate
  <2>1. /\ batch # <<>> /\ batch' = Tail(batch) /\ outbox' \in Process(Head(batch))
        /\ lastMs' = Marked(outbox', Head(batch).ts)
        /\ UNCHANGED <<now, lastIntent, crowded>>
    BY <1>3 DEF ProcessUpdate, observed, SpacedInv, LoopShape
  <2> DEFINE u == batch[1]
  <2>2. /\ Head(batch) = u /\ u \in Readings /\ 1 \in DOMAIN batch
        /\ DOMAIN batch = 1..Len(batch) /\ Len(batch) \in Nat
        /\ DOMAIN Tail(batch) = 1..(Len(batch) - 1)
        /\ \A k \in 1..(Len(batch) - 1) : Tail(batch)[k] = batch[k + 1]
    BY <2>1 DEF SpacedInv, LoopShape
  <2>3. u.ts <= now /\ u.ts \in Nat
    BY <2>2, ReadingFacts DEF SpacedInv, BatchOK
  <2>4. BatchOK'
    BY <2>1, <2>2 DEF SpacedInv, BatchOK
  <2> HIDE DEF u
  <2>5. PICK s : s = outbox'
    OBVIOUS
  <2>6. Fresh(s, u.ts) /\ OfStrategies(s, {u.symbol})
    BY <2>1, <2>2, <2>5, ReadingFacts, FreshProcess
  <2>7. \A k \in DOMAIN s : ~Uncooled(s[k].key)
    BY <2>2, <2>6, ReadingFacts DEF OfStrategies, Uncooled, DexKeys
  <2> DEFINE marked == {s[k].key : k \in {m \in DOMAIN s : ~Uncooled(s[m].key)}}
  <2>8. marked = {s[k].key : k \in DOMAIN s}
    BY <2>7
  <2>9. lastMs' = MarkedKeys(marked, u.ts)
    BY <2>1, <2>2, <2>5, <2>8 DEF Marked
  <2>10. MarksOK' /\ SentOK' /\ OutboxOK'
    <3>1. \E m : m = marked
      OBVIOUS
    <3> QED
      BY <2>1, <2>3, <2>5, <2>6, <2>9, EmitKeeps
  <2> QED
    BY <1>1, <2>1, <2>4, <2>10 DEF SpacedInv
<1>4. CASE PublishTradeIntent
  <2>1. /\ outbox # <<>> /\ outbox' = Tail(outbox) /\ UNCHANGED <<now, lastMs, batch>>
        /\ Published(Head(outbox)) \/ UNCHANGED <<lastIntent, crowded>>
    BY <1>4 DEF PublishTradeIntent, observed
  <2>2. BatchOK'
    BY <2>1 DEF SpacedInv, BatchOK
  <2>3. CASE Published(Head(outbox))
    BY <1>1, <2>1, <2>2, <2>3, PublishKeeps DEF SpacedInv, MarksOK
  <2>4. CASE UNCHANGED <<lastIntent, crowded>>
    <3>1. /\ Len(outbox) \in Nat /\ DOMAIN outbox = 1..Len(outbox) /\ IsSeq(Tail(outbox))
          /\ Len(Tail(outbox)) = Len(outbox) - 1
          /\ \A k \in 1..(Len(outbox) - 1) : Tail(outbox)[k] = outbox[k + 1]
      BY <2>1, SeqFacts DEF SpacedInv, LoopShape
    <3>2. DOMAIN Tail(outbox) = 1..(Len(outbox) - 1)
      BY <3>1, SeqFacts
    <3>3. ASSUME NEW k \in DOMAIN outbox'
          PROVE  k + 1 \in DOMAIN outbox /\ outbox'[k] = outbox[k + 1] /\ k \in Int
      BY <2>1, <3>1, <3>2
    <3>4. ASSUME NEW k \in DOMAIN outbox' PROVE Ready(outbox[k])'
      <4>1. Ready(outbox[k + 1]) /\ outbox'[k] = outbox[k + 1]
        BY <3>3 DEF SpacedInv, OutboxOK
      <4> QED
        BY <2>1, <2>4, <4>1 DEF Ready, Uncooled, Cooldown, Setting
    <3>5. ASSUME NEW j \in DOMAIN outbox', NEW k \in DOMAIN outbox', outbox'[j].key = outbox'[k].key
          PROVE  j = k
      <4>1. j + 1 = k + 1
        BY <3>3, <3>5 DEF SpacedInv, OutboxOK, KeysDiffer
      <4> QED
        BY <3>3, <4>1
    <3>6. OutboxOK'
      BY <3>4, <3>5 DEF OutboxOK, KeysDiffer
    <3>7. SentOK' /\ MarksOK'
      BY <2>1, <2>4 DEF SpacedInv, SentOK, Sent, MarksOK, Uncooled
    <3> QED
      BY <1>1, <2>1, <2>2, <2>4, <3>6, <3>7 DEF SpacedInv
  <2> QED
    BY <2>1, <2>3, <2>4
<1>5. ASSUME UNCHANGED <<outbox, lastMs, lastIntent, crowded>>, now' = now \/ now' = now + 1
      PROVE  MarksOK' /\ SentOK' /\ OutboxOK' /\ crowded' = FALSE
  <2>1. now \in Nat /\ now' \in Nat /\ now <= now'
    BY <1>1, <1>5 DEF SpacedInv
  <2>2. MarksOK' /\ crowded' = FALSE
    BY <1>5 DEF SpacedInv, MarksOK
  <2>3. SentOK'
    BY <1>5, <2>1 DEF SpacedInv, SentOK, Sent, Uncooled
  <2>4. ASSUME NEW k \in DOMAIN outbox' PROVE Ready(outbox[k])'
    <3>1. Ready(outbox[k]) /\ outbox'[k] = outbox[k]
      BY <1>5, <2>4 DEF SpacedInv, OutboxOK
    <3> QED
      BY <1>5, <2>1, <3>1 DEF Ready, Uncooled, Cooldown, Setting
  <2>5. KeysDiffer(outbox)'
    BY <1>5 DEF SpacedInv, OutboxOK, KeysDiffer
  <2>6. OutboxOK'
    BY <2>4, <2>5 DEF OutboxOK
  <2> QED
    BY <2>2, <2>3, <2>6
<1>6. CASE ReadConsensusUpdates
  <2>1. UNCHANGED <<now, outbox, lastMs, lastIntent, crowded>>
    BY <1>6 DEF ReadConsensusUpdates, observed
  <2>2. PICK n \in 0..BatchSize : batch' \in [1..n -> Dated]
    BY <1>6 DEF ReadConsensusUpdates
  <2>3. ASSUME NEW k \in DOMAIN batch' PROVE batch'[k].ts <= now'
    <3>1. batch'[k] \in Dated
      BY <2>2
    <3>2. batch'[k].ts = now
      BY <3>1 DEF Dated
    <3> QED
      BY <2>1, <3>2 DEF SpacedInv
  <2>4. BatchOK'
    BY <2>3 DEF BatchOK
  <2> QED
    BY <1>1, <1>5, <2>1, <2>4 DEF SpacedInv
<1>7. CASE /\ UNCHANGED <<batch, outbox, lastMs, lastIntent, crowded>>
           /\ now' = now \/ now' = now + 1
  <2>1. ASSUME NEW k \in DOMAIN batch' PROVE batch'[k].ts <= now'
    <3>1. batch[k].ts <= now /\ batch[k] \in Readings /\ batch'[k] = batch[k]
      BY <1>7, <2>1 DEF SpacedInv, BatchOK, LoopShape
    <3>2. batch[k].ts \in Nat
      BY <3>1, ReadingFacts
    <3> QED
      BY <1>7, <3>1, <3>2 DEF SpacedInv
  <2>2. BatchOK'
    BY <2>1 DEF BatchOK
  <2> QED
    BY <1>1, <1>5, <1>7, <2>2 DEF SpacedInv
<1>8. CASE ServiceRestart
  <2>1. /\ lastMs' = <<>> /\ lastIntent' = <<>> /\ outbox' = <<>> /\ batch' = <<>> /\ crowded' = crowded
    BY <1>8 DEF ServiceRestart
  <2>2. DOMAIN <<>> = {}
    OBVIOUS
  <2> QED
    BY <1>1, <2>1, <2>2 DEF SpacedInv, MarksOK, SentOK, OutboxOK, KeysDiffer, BatchOK
<1>9. (NoTimer \/ CheckKill \/ CheckMode \/ AllPublished \/ Recording \/ Tick
         \/ (\E active \in BOOLEAN : SetKillSwitch(active))
         \/ (\E wanted \in {"RUNNING", "PAUSED"} : PublishMode(wanted)) \/ UNCHANGED arbVars)
      => /\ UNCHANGED <<batch, outbox, lastMs, lastIntent, crowded>>
         /\ now' = now \/ now' = now + 1
  BY DEF NoTimer, CheckKill, CheckMode, AllPublished, Recording, Tick, SetKillSwitch, PublishMode,
         arbVars, loop, observed
<1> QED
  BY <1>2, <1>3, <1>4, <1>6, <1>7, <1>8, <1>9 DEF ArbNext

\* While the arbitrage service runs, two intents with one cooldown key are never closer than the
\* cooldown of their strategy and symbol, whatever fails.
THEOREM IntentsSpacedHolds == ArbSpec => []IntentsSpaced
<1>1. ArbInit => SpacedInv
  BY InitSpaced
<1>2. SpacedInv /\ [ArbNext]_arbVars => SpacedInv'
  BY NextSpaced
<1>3. SpacedInv => IntentsSpaced
  BY DEF SpacedInv, IntentsSpaced
<1> QED
  BY <1>1, <1>2, <1>3, PTL DEF ArbSpec

=============================================================================
