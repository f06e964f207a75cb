------------------------------- MODULE Payout -------------------------------
(***************************************************************************)
(* What the treasury promises of a deposit: while it knows of it, each     *)
(* venue is sent its share at most once, and nothing is sent of a deposit  *)
(* it does not know.                                                       *)
(***************************************************************************)
CONSTANTS Deposits, Receivers

VARIABLES
    known,   \* the deposits the treasury remembers
    paid     \* deposit -> venue -> shares it was sent since the deposit is known

Unpaid == [v \in Receivers |-> 0]

Init == known = {} /\ paid = [d \in Deposits |-> Unpaid]

Learn(d) ==
    /\ d \in Deposits \ known
    /\ known' = known \cup {d}
    /\ UNCHANGED paid

Pay(d, v) ==
    /\ d \in known /\ v \in Receivers /\ paid[d][v] = 0
    /\ paid' = [paid EXCEPT ![d][v] = 1]
    /\ UNCHANGED known

\* A restart, or a day.
Forget(forgotten) ==
    /\ forgotten \subseteq known
    /\ known' = known \ forgotten
    /\ paid' = [d \in Deposits |-> IF d \in forgotten THEN Unpaid ELSE paid[d]]

Next ==
    \/ \E d \in Deposits : Learn(d) \/ \E v \in Receivers : Pay(d, v)
    \/ \E forgotten \in SUBSET known : Forget(forgotten)

Spec == Init /\ [][Next]_<<known, paid>>
=============================================================================
