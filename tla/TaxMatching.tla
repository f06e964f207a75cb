---------------------------- MODULE TaxMatching ----------------------------
(***************************************************************************)
(* The matching of disposals with acquisitions for the UK tax report       *)
(* (src/internal/taxuk/matching.go): with acquisitions of the same day,    *)
(* then with those of the days that follow, then with the pool of whatever *)
(* else was acquired before.  One symbol; a trade is [sells, day, qty,     *)
(* unit], unit its cost or proceeds per unit with fees.                    *)
(*                                                                         *)
(* Unit costs are multiples of what the average of the pool divides by, so *)
(* that no division rounds.                                                *)
(***************************************************************************)
EXTENDS Integers, Sequences, FiniteSets, Functions

CONSTANTS
    Trades,        \* what a trade may be
    Pools,         \* the pool carried forward: [qty, cost]
    MatchWindow,   \* 30 days
    MaxSorted      \* a bound, of trades

ASSUME TaxAssumption ==
    /\ Trades \subseteq [sells : BOOLEAN, day : Int, qty : Nat, unit : Int]
    /\ Pools \subseteq [qty : Nat, cost : Int]
    /\ MatchWindow \in Nat /\ MaxSorted \in Nat

VARIABLES
    sorted,        \* the trades, in the order of time
    remaining,     \* what of each is not matched yet
    matched,       \* of each pair of a disposal and an acquisition
    drawn, cost,   \* what each disposal has of the pool, and its cost
    carried, pool, \* the pool before, and now
    phase, turn,   \* the rule, and the counters of its loops: what had its turn last
    disposals      \* the results

taxVars == <<sorted, remaining, matched, drawn, cost, carried, pool, phase, turn, disposals>>

Chronological(trades) ==
    \A j, k \in DOMAIN trades : j < k => trades[j].day <= trades[k].day

Sells == {k \in DOMAIN sorted : sorted[k].sells}
Buys == DOMAIN sorted \ Sells

TaxInit ==
    /\ sorted \in UNION {[1..n -> Trades] : n \in 1..MaxSorted} /\ Chronological(sorted)
    /\ carried \in Pools /\ pool = carried
    /\ remaining = [k \in DOMAIN sorted |-> sorted[k].qty]
    /\ matched = [p \in Sells \X Buys |-> 0]
    /\ drawn = [k \in Sells |-> 0] /\ cost = [k \in Sells |-> 0]
    /\ phase = "same-day" /\ turn = <<0, 0>>
    /\ disposals = [k \in Sells |-> 0]

-----------------------------------------------------------------------------

Less(a, b) == IF a < b THEN a ELSE b

\* The order of the two loops, disposals outside.
Before(p, q) == p[1] < q[1] \/ (p[1] = q[1] /\ p[2] < q[2])

Rank(p) == sorted[p[2]].day - sorted[p[1]].day

ToCome(gaps) == {p \in Sells \X Buys : Rank(p) \in gaps /\ Before(turn, p)}

\* The next pair so many days apart is matched with each other, or the rule is through.
Match(gaps, next) ==
    /\ \/ \E p \in ToCome(gaps) :
             LET qty == Less(remaining[p[1]], remaining[p[2]])
             IN  /\ \A q \in ToCome(gaps) : q = p \/ Before(p, q)
                 /\ matched' = [matched EXCEPT ![p] = @ + qty]
                 /\ remaining' = [k \in DOMAIN sorted |-> IF k \in {p[1], p[2]}
                                                          THEN remaining[k] - qty ELSE remaining[k]]
                 /\ turn' = p /\ UNCHANGED phase
       \/ /\ ToCome(gaps) = {}
          /\ phase' = next /\ turn' = <<0, 0>> /\ UNCHANGED <<matched, remaining>>
    /\ UNCHANGED <<sorted, drawn, cost, carried, pool, disposals>>

SameDay == phase = "same-day" /\ Match({0}, "30-day")

\* Mutant: the last day of the window is left out.
ThirtyDay_Before == phase = "30-day" /\ Match(1..(MatchWindow - 1), "section-104")

ThirtyDay == phase = "30-day" /\ Match(1..MatchWindow, "section-104")

\* Mutant: all that was acquired joins the pool, what is matched already as well.
Join_Whole(k) ==
    /\ k \in Buys
    /\ pool' = [qty |-> pool.qty + sorted[k].qty, cost |-> pool.cost + sorted[k].qty * sorted[k].unit]
    /\ remaining' = [remaining EXCEPT ![k] = 0]
    /\ UNCHANGED <<drawn, cost>>

\* What is left of an acquisition joins the pool.
Join(k) ==
    /\ k \in Buys
    /\ pool' = [qty |-> pool.qty + remaining[k], cost |-> pool.cost + remaining[k] * sorted[k].unit]
    /\ remaining' = [remaining EXCEPT ![k] = 0]
    /\ UNCHANGED <<drawn, cost>>

\* What is left of a disposal is drawn from it, as far as it goes, at the average cost.
Draw(k) ==
    LET qty == Less(remaining[k], pool.qty)
        paid == IF qty = 0 THEN 0 ELSE qty * (pool.cost \div pool.qty)
    IN  /\ k \in Sells
        /\ pool' = [qty |-> pool.qty - qty, cost |-> pool.cost - paid]
        /\ remaining' = [remaining EXCEPT ![k] = @ - qty]
        /\ drawn' = [drawn EXCEPT ![k] = qty] /\ cost' = [cost EXCEPT ![k] = paid]

\* The trades in their order.
Section104 ==
    /\ phase = "section-104" /\ turn[1] < Len(sorted)
    /\ Join(turn[1] + 1) \/ Draw(turn[1] + 1)
    /\ turn' = <<turn[1] + 1, 0>>
    /\ UNCHANGED <<sorted, matched, carried, phase, disposals>>

MatchedOf(sale) == SumFunctionOnSet([b \in Buys |-> matched[<<sale, b>>]], Buys)
PaidFor(sale) == SumFunctionOnSet([b \in Buys |-> matched[<<sale, b>>] * sorted[b].unit], Buys)
MatchedWith(buy) == SumFunctionOnSet([s \in Sells |-> matched[<<s, buy>>]], Sells)

\* A disposal reports the matched part, and its proceeds in proportion.
Results ==
    /\ phase = "section-104" /\ turn[1] = Len(sorted) /\ phase' = "done"
    /\ disposals' = [k \in Sells |-> [qty |-> MatchedOf(k) + drawn[k], cost |-> PaidFor(k) + cost[k],
                                      proceeds |-> (MatchedOf(k) + drawn[k]) * sorted[k].unit]]
    /\ UNCHANGED <<sorted, remaining, matched, drawn, cost, carried, pool, turn>>

TaxNext == SameDay \/ ThirtyDay \/ Section104 \/ Results

TaxSpec == TaxInit /\ [][TaxNext]_taxVars

-----------------------------------------------------------------------------

\* Where the units of a disposal may come from, the best first: the same day, the days that
\* follow, the earliest first, the pool.
Eligible(p) == Rank(p) \in 0..MatchWindow

\* A disposal has units from something worse than the acquisition, or lacks some.
Settled(sale, buy) ==
    \/ disposals[sale].qty < sorted[sale].qty
    \/ drawn[sale] > 0
    \/ \E other \in Buys : matched[<<sale, other>>] > 0 /\ Rank(<<sale, other>>) > Rank(<<sale, buy>>)

\* And the acquisition has units for something worse than the disposal: the pool, or a
\* disposal of another day, unless that came earlier.
Spare(sale, buy) ==
    \/ MatchedWith(buy) < sorted[buy].qty
    \/ \E other \in Sells :
          /\ matched[<<other, buy>>] > 0
          /\ Rank(<<other, buy>>) # 0
          /\ Rank(<<sale, buy>>) = 0 \/ sorted[other].day > sorted[sale].day

\* No disposal and no acquisition are left that should have been matched with each other
\* by the order of the rules: "Same-day rule", "30-day bed-and-breakfasting rule (FIFO
\* within the window)", "Section 104 pool" (src/internal/taxuk/matching.go:21-25).
MatchedInOrder ==
    phase = "done" =>
        \A sale \in Sells, buy \in Buys :
            Eligible(<<sale, buy>>) => ~(Settled(sale, buy) /\ Spare(sale, buy))

\* What was acquired and not matched, and what was drawn.
Pooled == [k \in DOMAIN sorted |-> IF sorted[k].sells THEN -drawn[k] ELSE sorted[k].qty - MatchedWith(k)]

\* What the pool held after a trade.
PoolAfter(k) == carried.qty + SumFunctionOnSet(Pooled, 1..k)

Expense == [k \in DOMAIN sorted |-> IF sorted[k].sells THEN 0 ELSE sorted[k].qty * sorted[k].unit]

\* Every pound that was paid is once in the costs of the disposals or in the pool that is
\* carried on; the pool never gives what it was given later only; and a disposal has no
\* more than was sold, and less only if the pool was then empty.
CostsAddUp ==
    phase = "done" =>
        /\ carried.cost + SumFunctionOnSet(Expense, DOMAIN sorted)
             = pool.cost + SumFunctionOnSet([k \in Sells |-> disposals[k].cost], Sells)
        /\ \A k \in DOMAIN sorted : PoolAfter(k) >= 0
        /\ \A k \in Sells :
              /\ disposals[k].qty <= sorted[k].qty
              /\ disposals[k].qty < sorted[k].qty => PoolAfter(k) = 0
=============================================================================
