-------------------------------- MODULE Sums --------------------------------
(***************************************************************************)
(* The sums of the models: deployed capital, amounts transferred, notional *)
(* traded in a day. They are written with SumFunctionOnSet of the          *)
(* community modules, a recursive function over the subsets of a set that  *)
(* takes the elements in the order CHOOSE gives them. Here it is shown to  *)
(* be a sum: elements come and go in any order.                            *)
(***************************************************************************)
EXTENDS Integers, Functions, FiniteSetTheorems, WellFoundedInduction, TLAPS

\* A set of naturals has a least member.
LEMMA LeastNat == ASSUME NEW T \in SUBSET Nat, T # {}
                  PROVE  \E x \in T : \A y \in T : x <= y
<1> DEFINE R == OpToRel(<, Nat)
<1>1. IsWellFoundedOn(R, Nat)
  BY NatLessThanWellFounded
<1>2. \A x, y \in Nat : y < x => <<y, x>> \in R
  BY DEF OpToRel
<1> HIDE DEF R
<1>3. PICK x \in T : \A y \in T : ~(<<y, x>> \in R)
  BY <1>1, WFMin
<1>4. ASSUME NEW y \in T PROVE x <= y
  <2>1. x \in Nat /\ y \in Nat
    OBVIOUS
  <2>2. ~(y < x)
    BY <1>2, <1>3, <2>1
  <2> QED BY <2>1, <2>2
<1> QED BY <1>4

\* A set of positions has a last one.
LEMMA LastOf == ASSUME NEW n \in Nat, NEW T \in SUBSET (1..n), T # {}
                PROVE  \E k \in T : \A j \in T : j <= k
<1> DEFINE R == {n - k : k \in T}
<1>1. R \in SUBSET Nat /\ R # {}
  <2>1. \A k \in T : n - k \in Nat
    OBVIOUS
  <2>2. PICK k \in T : TRUE
    OBVIOUS
  <2>3. n - k \in R
    OBVIOUS
  <2> QED BY <2>1, <2>3
<1>2. PICK r \in R : \A x \in R : r <= x
  BY <1>1, LeastNat
<1>3. PICK k \in T : r = n - k
  BY <1>2
<1>4. ASSUME NEW j \in T PROVE j <= k
  <2>1. n - k <= n - j
    BY <1>2, <1>3
  <2> QED BY <2>1
<1> QED BY <1>4

\* A set that holds 0 and the successors of its members holds every natural.
LEMMA Induct == ASSUME NEW S, 0 \in S, \A k \in Nat : k \in S => k + 1 \in S
                PROVE  \A n \in Nat : n \in S
<1> DEFINE T == Nat \ S
<1>1. SUFFICES ASSUME T # {} PROVE FALSE
  OBVIOUS
<1>2. PICK x \in T : \A y \in T : x <= y
  BY <1>1, LeastNat
<1>3. x \in Nat /\ x # 0 /\ x \notin S
  BY <1>2
<1>4. x - 1 \in Nat /\ ~(x <= x - 1) /\ (x - 1) + 1 = x
  BY <1>3
<1>5. x - 1 \in S
  BY <1>2, <1>4
<1> QED BY <1>3, <1>4, <1>5

-----------------------------------------------------------------------------

\* The element taken first, and the equation of the recursive function.
Chosen(T) == CHOOSE x \in T : TRUE
SumEquation(f, S, s) == s = [T \in SUBSET S |-> IF T = {} THEN 0 ELSE f[Chosen(T)] + s[T \ {Chosen(T)}]]

LEMMA SumDef == ASSUME NEW f, NEW S
                PROVE  SumFunctionOnSet(f, S) = (CHOOSE s : SumEquation(f, S, s))[S]
  BY Zenon DEF SumFunctionOnSet, FoldFunctionOnSet, MapThenFoldSet, SumEquation, Chosen

LEMMA ChosenIn == ASSUME NEW T, T # {} PROVE Chosen(T) \in T
  BY DEF Chosen

\* WithoutOne one of its elements a finite set is finite and has one less.
LEMMA WithoutOne == ASSUME NEW T, IsFiniteSet(T), NEW x \in T
                 PROVE  /\ IsFiniteSet(T \ {x})
                        /\ Cardinality(T) \in Nat /\ Cardinality(T \ {x}) \in Nat
                        /\ Cardinality(T) = Cardinality(T \ {x}) + 1
<1>1. /\ IsFiniteSet(T \ {x}) /\ Cardinality(T \ {x}) = Cardinality(T) - 1
  BY FS_RemoveElement
<1>2. Cardinality(T) \in Nat /\ Cardinality(T \ {x}) \in Nat
  BY <1>1, FS_CardinalityType
<1> QED BY <1>1, <1>2

LEMMA OneLess == ASSUME NEW T, IsFiniteSet(T), NEW n \in Nat, Cardinality(T) = n + 1, NEW x \in T
                 PROVE  IsFiniteSet(T \ {x}) /\ Cardinality(T \ {x}) = n
<1>1. IsFiniteSet(T \ {x}) /\ Cardinality(T \ {x}) \in Nat /\ Cardinality(T) = Cardinality(T \ {x}) + 1
  BY WithoutOne
<1> DEFINE m == Cardinality(T \ {x})
<1> HIDE DEF m
<1>2. m \in Nat /\ m + 1 = n + 1
  BY <1>1 DEF m
<1> QED BY <1>1, <1>2 DEF m

LEMMA WithoutChosen == ASSUME NEW T, IsFiniteSet(T), NEW n \in Nat, Cardinality(T) = n + 1
              PROVE  /\ T # {} /\ Chosen(T) \in T
                     /\ IsFiniteSet(T \ {Chosen(T)}) /\ Cardinality(T \ {Chosen(T)}) = n
<1>1. T # {}
  BY FS_EmptySet
<1> QED BY <1>1, ChosenIn, OneLess

\* Solutions of the equation over two sets agree on a subset of both.
LEMMA EquationsAgree ==
    ASSUME NEW f, NEW A, NEW B, NEW a, NEW b, SumEquation(f, A, a), SumEquation(f, B, b)
    PROVE  \A T \in SUBSET A : T \subseteq B /\ IsFiniteSet(T) => a[T] = b[T]
<1> DEFINE N == {n \in Nat : \A T \in SUBSET A :
                   T \subseteq B /\ IsFiniteSet(T) /\ Cardinality(T) = n => a[T] = b[T]}
<1>1. \A T \in SUBSET A : a[T] = IF T = {} THEN 0 ELSE f[Chosen(T)] + a[T \ {Chosen(T)}]
  BY DEF SumEquation
<1>2. \A T \in SUBSET B : b[T] = IF T = {} THEN 0 ELSE f[Chosen(T)] + b[T \ {Chosen(T)}]
  BY DEF SumEquation
<1>3. 0 \in N
  <2>1. ASSUME NEW T \in SUBSET A, T \subseteq B, IsFiniteSet(T), Cardinality(T) = 0
        PROVE  a[T] = b[T]
    BY <1>1, <1>2, <2>1, FS_EmptySet
  <2> QED BY <2>1
<1>4. ASSUME NEW n \in Nat, n \in N PROVE n + 1 \in N
  <2>1. ASSUME NEW T \in SUBSET A, T \subseteq B, IsFiniteSet(T), Cardinality(T) = n + 1
        PROVE  a[T] = b[T]
    <3>1. T # {}
      BY <2>1, FS_EmptySet
    <3> DEFINE U == T \ {Chosen(T)}
    <3>2. U \in SUBSET A /\ U \subseteq B /\ IsFiniteSet(U) /\ Cardinality(U) = n
      BY <2>1, WithoutChosen
    <3>3. a[U] = b[U]
      BY <1>4, <3>2
    <3> QED BY <1>1, <1>2, <2>1, <3>1, <3>3
  <2> QED BY <2>1
<1> HIDE DEF N
<1>5. \A n \in Nat : n \in N
  BY <1>3, <1>4, Induct
<1> QED BY <1>5, FS_CardinalityType DEF N

\* A finite set has a solution.
LEMMA EquationSolved ==
    ASSUME NEW f, NEW S, IsFiniteSet(S) PROVE \E s : SumEquation(f, S, s)
<1> DEFINE N == {n \in Nat : \A T : IsFiniteSet(T) /\ Cardinality(T) <= n => \E s : SumEquation(f, T, s)}
           Sum(T) == SumFunctionOnSet(f, T)
<1>1. ASSUME NEW T, \E s : SumEquation(f, T, s) PROVE SumEquation(f, T, CHOOSE s : SumEquation(f, T, s))
  BY <1>1
<1>2. 0 \in N
  <2>1. ASSUME NEW T, IsFiniteSet(T), Cardinality(T) <= 0 PROVE \E s : SumEquation(f, T, s)
    <3>1. T = {}
      BY <2>1, FS_EmptySet, FS_CardinalityType
    <3>2. SumEquation(f, T, [U \in SUBSET T |-> 0])
      BY <3>1 DEF SumEquation
    <3> QED BY <3>2
  <2> QED BY <2>1
<1>3. ASSUME NEW n \in Nat, n \in N PROVE n + 1 \in N
  <2>1. ASSUME NEW T, IsFiniteSet(T), Cardinality(T) <= n + 1 PROVE \E s : SumEquation(f, T, s)
    <3>1. ASSUME NEW U \in SUBSET T, U # T
          PROVE  SumEquation(f, U, CHOOSE s : SumEquation(f, U, s)) /\ IsFiniteSet(U)
      <4>1. PICK x \in T : x \notin U
        BY <3>1
      <4>2. U \in SUBSET (T \ {x})
        BY <4>1
      <4>3. IsFiniteSet(T \ {x}) /\ Cardinality(T \ {x}) \in Nat /\ Cardinality(T \ {x}) <= n
        BY <2>1, <4>1, WithoutOne
      <4>4. IsFiniteSet(U) /\ Cardinality(U) <= Cardinality(T \ {x})
        BY <4>2, <4>3, FS_Subset
      <4>5. Cardinality(U) <= n
        BY <4>3, <4>4, FS_CardinalityType
      <4> QED BY <1>1, <1>3, <4>4, <4>5
    <3>2. ASSUME NEW U \in SUBSET T, U # T, U # {}
          PROVE  Sum(U) = f[Chosen(U)] + Sum(U \ {Chosen(U)})
      <4> DEFINE V == U \ {Chosen(U)}
                 u == CHOOSE s : SumEquation(f, U, s)
                 v == CHOOSE s : SumEquation(f, V, s)
      <4>1. V \in SUBSET T /\ V # T /\ V \in SUBSET U
        BY <3>2
      <4>2. SumEquation(f, U, u) /\ SumEquation(f, V, v) /\ IsFiniteSet(V)
        BY <3>1, <3>2, <4>1
      <4>3. Sum(U) = u[U] /\ Sum(V) = v[V]
        BY SumDef
      <4> HIDE DEF u, v
      <4>4. v[V] = u[V]
        BY <4>1, <4>2, EquationsAgree
      <4>5. u[U] = f[Chosen(U)] + u[V]
        BY <3>2, <4>2 DEF SumEquation
      <4> QED BY <4>3, <4>4, <4>5
    <3>3. T # {} => Sum({}) = 0
      <4>1. SUFFICES ASSUME T # {} PROVE Sum({}) = 0
        OBVIOUS
      <4> DEFINE e == CHOOSE s : SumEquation(f, {}, s)
      <4>2. SumEquation(f, {}, e) /\ Sum({}) = e[{}]
        BY <3>1, <4>1, SumDef
      <4> HIDE DEF e
      <4> QED BY <4>2 DEF SumEquation
    <3> DEFINE whole == IF T = {} THEN 0 ELSE f[Chosen(T)] + Sum(T \ {Chosen(T)})
               s == [U \in SUBSET T |-> IF U = T THEN whole ELSE Sum(U)]
    <3>4. ASSUME NEW U \in SUBSET T
          PROVE  s[U] = IF U = {} THEN 0 ELSE f[Chosen(U)] + s[U \ {Chosen(U)}]
      <4> HIDE DEF Sum
      <4>1. CASE U = {}
        BY <3>3, <4>1
      <4>2. CASE U # {}
        <5>1. U \ {Chosen(U)} \in SUBSET T /\ U \ {Chosen(U)} # T
          BY <4>2, ChosenIn
        <5>2. s[U \ {Chosen(U)}] = Sum(U \ {Chosen(U)})
          BY <5>1
        <5>3. s[U] = f[Chosen(U)] + Sum(U \ {Chosen(U)})
          BY <3>2, <4>2
        <5> QED BY <4>2, <5>2, <5>3
      <4> QED BY <4>1, <4>2
    <3>5. s = [U \in SUBSET T |-> s[U]]
      OBVIOUS
    <3> HIDE DEF s
    <3>6. SumEquation(f, T, s)
      BY <3>4, <3>5 DEF SumEquation
    <3> QED BY <3>6
  <2> QED BY <2>1
<1> HIDE DEF N
<1>4. \A n \in Nat : n \in N
  BY <1>2, <1>3, Induct
<1>5. Cardinality(S) \in Nat /\ Cardinality(S) <= Cardinality(S)
  BY FS_CardinalityType
<1>6. Cardinality(S) \in N
  BY <1>4, <1>5
<1> QED BY <1>5, <1>6 DEF N

\* So the sum over a set is its first element's value and the sum over the others.
LEMMA SumUnfold ==
    ASSUME NEW f, NEW S, IsFiniteSet(S)
    PROVE  SumFunctionOnSet(f, S) =
             IF S = {} THEN 0 ELSE f[Chosen(S)] + SumFunctionOnSet(f, S \ {Chosen(S)})
<1> DEFINE U == S \ {Chosen(S)}
           s == CHOOSE t : SumEquation(f, S, t)
           u == CHOOSE t : SumEquation(f, U, t)
<1>1. IsFiniteSet(U) /\ U \in SUBSET S
  BY FS_Subset
<1>2. SumEquation(f, S, s) /\ SumEquation(f, U, u)
  BY <1>1, EquationSolved
<1>3. SumFunctionOnSet(f, S) = s[S] /\ SumFunctionOnSet(f, U) = u[U]
  BY SumDef
<1> HIDE DEF s, u
<1>4. u[U] = s[U]
  BY <1>1, <1>2, EquationsAgree
<1>5. s[S] = IF S = {} THEN 0 ELSE f[Chosen(S)] + s[U]
  BY <1>2 DEF SumEquation
<1> QED BY <1>3, <1>4, <1>5

LEMMA SumEmpty == ASSUME NEW f PROVE SumFunctionOnSet(f, {}) = 0
  BY SumUnfold, FS_EmptySet

\* Integers add up to an integer, and naturals to a natural.
LEMMA SumInt ==
    ASSUME NEW f, NEW S, IsFiniteSet(S), \A x \in S : f[x] \in Int
    PROVE  SumFunctionOnSet(f, S) \in Int
<1> DEFINE Sum(T) == SumFunctionOnSet(f, T)
           N == {n \in Nat : \A T \in SUBSET S :
                   IsFiniteSet(T) /\ Cardinality(T) = n => Sum(T) \in Int}
<1>1. 0 \in N
  BY SumEmpty, FS_EmptySet
<1>2. ASSUME NEW n \in Nat, n \in N PROVE n + 1 \in N
  <2>1. ASSUME NEW T \in SUBSET S, IsFiniteSet(T), Cardinality(T) = n + 1 PROVE Sum(T) \in Int
    <3>1. T # {}
      BY <2>1, FS_EmptySet
    <3> DEFINE U == T \ {Chosen(T)}
    <3>2. Chosen(T) \in S /\ U \in SUBSET S /\ IsFiniteSet(U) /\ Cardinality(U) = n
      BY <2>1, WithoutChosen
    <3>3. Sum(U) \in Int
      BY <1>2, <3>2
    <3>4. Sum(T) = f[Chosen(T)] + Sum(U)
      BY <2>1, <3>1, SumUnfold
    <3> HIDE DEF Sum, U
    <3> QED BY <3>2, <3>3, <3>4
  <2> QED BY <2>1
<1> HIDE DEF N
<1>3. \A n \in Nat : n \in N
  BY <1>1, <1>2, Induct
<1> QED BY <1>3, FS_CardinalityType DEF N

\* Any element may be taken out of a sum, whichever is taken first.
LEMMA SumRemove ==
    ASSUME NEW f, NEW S, IsFiniteSet(S), \A x \in S : f[x] \in Int
    PROVE  \A a \in S : SumFunctionOnSet(f, S) = f[a] + SumFunctionOnSet(f, S \ {a})
<1> DEFINE Sum(T) == SumFunctionOnSet(f, T)
           N == {n \in Nat : \A T \in SUBSET S :
                   IsFiniteSet(T) /\ Cardinality(T) = n => \A a \in T : Sum(T) = f[a] + Sum(T \ {a})}
<1>1. 0 \in N
  BY FS_EmptySet
<1>2. ASSUME NEW n \in Nat, n \in N PROVE n + 1 \in N
  <2>1. ASSUME NEW T \in SUBSET S, IsFiniteSet(T), Cardinality(T) = n + 1, NEW a \in T
        PROVE  Sum(T) = f[a] + Sum(T \ {a})
    <3> DEFINE x == Chosen(T)
    <3>1. x \in T
      BY ChosenIn
    <3>2. Sum(T) = f[x] + Sum(T \ {x})
      BY <2>1, <3>1, SumUnfold
    <3>3. CASE a = x
      BY <3>2, <3>3
    <3>4. CASE a # x
      <4> DEFINE rest == T \ {a, x}
      <4>1. /\ T \ {x} \in SUBSET S /\ IsFiniteSet(T \ {x}) /\ Cardinality(T \ {x}) = n
            /\ T \ {a} \in SUBSET S /\ IsFiniteSet(T \ {a}) /\ Cardinality(T \ {a}) = n
        BY <2>1, <3>1, OneLess
      <4>2. (T \ {x}) \ {a} = rest /\ (T \ {a}) \ {x} = rest
        OBVIOUS
      <4>3. a \in T \ {x} /\ x \in T \ {a}
        BY <3>1, <3>4
      <4> HIDE DEF Sum, x
      <4>4. Sum(T \ {x}) = f[a] + Sum(rest) /\ Sum(T \ {a}) = f[x] + Sum(rest)
        BY <1>2, <4>1, <4>2, <4>3
      <4>5. IsFiniteSet(rest) /\ rest \in SUBSET S
        BY <4>1, <4>2, FS_Subset
      <4>6. Sum(rest) \in Int
        BY <4>5, SumInt DEF Sum
      <4>7. f[a] \in Int /\ f[x] \in Int
        BY <3>1
      <4> HIDE DEF rest
      <4> QED BY <3>2, <4>4, <4>6, <4>7
    <3> QED BY <3>3, <3>4
  <2> QED BY <2>1
<1> HIDE DEF N
<1>3. \A n \in Nat : n \in N
  BY <1>1, <1>2, Induct
<1> QED BY <1>3, FS_CardinalityType DEF N

LEMMA SumAdd ==
    ASSUME NEW f, NEW S, IsFiniteSet(S), NEW a, a \notin S, f[a] \in Int, \A x \in S : f[x] \in Int
    PROVE  SumFunctionOnSet(f, S \cup {a}) = SumFunctionOnSet(f, S) + f[a]
<1>1. IsFiniteSet(S \cup {a}) /\ (S \cup {a}) \ {a} = S
  BY FS_AddElement
<1>2. \A x \in S \cup {a} : f[x] \in Int
  OBVIOUS
<1>3. SumFunctionOnSet(f, S \cup {a}) = f[a] + SumFunctionOnSet(f, S)
  BY <1>1, <1>2, SumRemove
<1>4. SumFunctionOnSet(f, S) \in Int
  BY SumInt
<1> QED BY <1>3, <1>4

LEMMA SumOne == ASSUME NEW f, NEW a, f[a] \in Int PROVE SumFunctionOnSet(f, {a}) = f[a]
<1>1. {a} = {} \cup {a}
  OBVIOUS
<1>2. SumFunctionOnSet(f, {} \cup {a}) = SumFunctionOnSet(f, {}) + f[a]
  BY SumAdd, FS_EmptySet
<1> QED BY <1>1, <1>2, SumEmpty

LEMMA SumTwo == ASSUME NEW f, NEW a, NEW b, a # b, f[a] \in Int, f[b] \in Int
                PROVE  SumFunctionOnSet(f, {a, b}) = f[a] + f[b]
<1>1. {a, b} = {a} \cup {b} /\ b \notin {a} /\ IsFiniteSet({a})
  BY FS_Singleton
<1>2. SumFunctionOnSet(f, {a} \cup {b}) = SumFunctionOnSet(f, {a}) + f[b]
  BY <1>1, SumAdd
<1> QED BY <1>1, <1>2, SumOne

\* The larger the values, the larger the sum.
LEMMA SumMonotone ==
    ASSUME NEW f, NEW g, NEW S, IsFiniteSet(S),
           \A x \in S : f[x] \in Int /\ g[x] \in Int /\ f[x] <= g[x]
    PROVE  SumFunctionOnSet(f, S) <= SumFunctionOnSet(g, S)
<1> DEFINE N == {n \in Nat : \A T \in SUBSET S : IsFiniteSet(T) /\ Cardinality(T) = n =>
                   SumFunctionOnSet(f, T) <= SumFunctionOnSet(g, T)}
<1>1. 0 \in N
  BY SumEmpty, FS_EmptySet
<1>2. ASSUME NEW n \in Nat, n \in N PROVE n + 1 \in N
  <2>1. ASSUME NEW T \in SUBSET S, IsFiniteSet(T), Cardinality(T) = n + 1
        PROVE  SumFunctionOnSet(f, T) <= SumFunctionOnSet(g, T)
    <3>1. T # {}
      BY <2>1, FS_EmptySet
    <3> DEFINE x == Chosen(T)
               U == T \ {x}
    <3>2. x \in S /\ U \in SUBSET S /\ IsFiniteSet(U) /\ Cardinality(U) = n
      BY <2>1, WithoutChosen
    <3>3. SumFunctionOnSet(f, T) = f[x] + SumFunctionOnSet(f, U)
      BY <2>1, <3>1, SumUnfold
    <3>4. SumFunctionOnSet(g, T) = g[x] + SumFunctionOnSet(g, U)
      BY <2>1, <3>1, SumUnfold
    <3> HIDE DEF x, U
    <3>5. SumFunctionOnSet(f, U) <= SumFunctionOnSet(g, U)
      BY <1>2, <3>2
    <3>6. SumFunctionOnSet(f, U) \in Int /\ SumFunctionOnSet(g, U) \in Int
      BY <3>2, SumInt
    <3> QED BY <3>2, <3>3, <3>4, <3>5, <3>6
  <2> QED BY <2>1
<1> HIDE DEF N
<1>3. \A n \in Nat : n \in N
  BY <1>1, <1>2, Induct
<1> QED BY <1>3, FS_CardinalityType DEF N

LEMMA SumSame ==
    ASSUME NEW f, NEW g, NEW S, IsFiniteSet(S), \A x \in S : f[x] \in Int /\ f[x] = g[x]
    PROVE  SumFunctionOnSet(f, S) = SumFunctionOnSet(g, S)
<1>1. \A x \in S : f[x] \in Int /\ g[x] \in Int /\ f[x] <= g[x] /\ g[x] <= f[x]
  OBVIOUS
<1>2. SumFunctionOnSet(f, S) <= SumFunctionOnSet(g, S)
  BY <1>1, SumMonotone
<1>3. SumFunctionOnSet(g, S) <= SumFunctionOnSet(f, S)
  BY <1>1, SumMonotone
<1>4. SumFunctionOnSet(f, S) \in Int /\ SumFunctionOnSet(g, S) \in Int
  BY <1>1, SumInt
<1> QED BY <1>2, <1>3, <1>4

\* A function on a set that gains or loses an element.
LEMMA SumExtend ==
    ASSUME NEW f, NEW h, NEW S, IsFiniteSet(S), NEW a, a \notin S, h[a] \in Int,
           \A x \in S : f[x] \in Int /\ h[x] = f[x]
    PROVE  SumFunctionOnSet(h, S \cup {a}) = SumFunctionOnSet(f, S) + h[a]
<1>1. \A x \in S : h[x] \in Int
  OBVIOUS
<1>2. SumFunctionOnSet(h, S \cup {a}) = SumFunctionOnSet(h, S) + h[a]
  BY <1>1, SumAdd
<1>3. SumFunctionOnSet(f, S) = SumFunctionOnSet(h, S)
  BY SumSame
<1> QED BY <1>2, <1>3

LEMMA SumShrink ==
    ASSUME NEW f, NEW h, NEW S, IsFiniteSet(S), NEW a \in S,
           \A x \in S : f[x] \in Int, \A x \in S \ {a} : h[x] = f[x]
    PROVE  SumFunctionOnSet(f, S) = f[a] + SumFunctionOnSet(h, S \ {a})
<1> DEFINE U == S \ {a}
<1>1. IsFiniteSet(U)
  BY FS_RemoveElement
<1>2. \A x \in U : f[x] \in Int /\ f[x] = h[x]
  OBVIOUS
<1>3. SumFunctionOnSet(f, S) = f[a] + SumFunctionOnSet(f, U)
  BY SumRemove
<1> HIDE DEF U
<1>4. SumFunctionOnSet(f, U) = SumFunctionOnSet(h, U)
  BY <1>1, <1>2, SumSame
<1> QED BY <1>3, <1>4 DEF U

\* Naturals: nothing less than 0, and a part is no more than the whole.
LEMMA SumNat ==
    ASSUME NEW f, NEW S, IsFiniteSet(S), \A x \in S : f[x] \in Nat
    PROVE  SumFunctionOnSet(f, S) \in Nat
<1> DEFINE N == {n \in Nat : \A T \in SUBSET S :
                   IsFiniteSet(T) /\ Cardinality(T) = n => SumFunctionOnSet(f, T) \in Nat}
<1>1. 0 \in N
  BY SumEmpty, FS_EmptySet
<1>2. ASSUME NEW n \in Nat, n \in N PROVE n + 1 \in N
  <2>1. ASSUME NEW T \in SUBSET S, IsFiniteSet(T), Cardinality(T) = n + 1
        PROVE  SumFunctionOnSet(f, T) \in Nat
    <3>1. T # {}
      BY <2>1, FS_EmptySet
    <3> DEFINE U == T \ {Chosen(T)}
    <3>2. Chosen(T) \in S /\ U \in SUBSET S /\ IsFiniteSet(U) /\ Cardinality(U) = n
      BY <2>1, WithoutChosen
    <3>3. SumFunctionOnSet(f, U) \in Nat /\ f[Chosen(T)] \in Nat
      BY <1>2, <3>2
    <3> QED BY <2>1, <3>1, <3>3, SumUnfold
  <2> QED BY <2>1
<1> HIDE DEF N
<1>3. \A n \in Nat : n \in N
  BY <1>1, <1>2, Induct
<1> QED BY <1>3, FS_CardinalityType DEF N

LEMMA SumZero ==
    ASSUME NEW f, NEW S, IsFiniteSet(S), \A x \in S : f[x] = 0
    PROVE  SumFunctionOnSet(f, S) = 0
<1> DEFINE N == {n \in Nat : \A T \in SUBSET S :
                   IsFiniteSet(T) /\ Cardinality(T) = n => SumFunctionOnSet(f, T) = 0}
<1>1. 0 \in N
  BY SumEmpty, FS_EmptySet
<1>2. ASSUME NEW n \in Nat, n \in N PROVE n + 1 \in N
  <2>1. ASSUME NEW T \in SUBSET S, IsFiniteSet(T), Cardinality(T) = n + 1
        PROVE  SumFunctionOnSet(f, T) = 0
    <3> DEFINE U == T \ {Chosen(T)}
    <3>1. T # {} /\ Chosen(T) \in S /\ U \in SUBSET S /\ IsFiniteSet(U) /\ Cardinality(U) = n
      BY <2>1, WithoutChosen
    <3>2. SumFunctionOnSet(f, U) = 0 /\ f[Chosen(T)] = 0
      BY <1>2, <3>1
    <3> QED BY <2>1, <3>1, <3>2, SumUnfold
  <2> QED BY <2>1
<1> HIDE DEF N
<1>3. \A n \in Nat : n \in N
  BY <1>1, <1>2, Induct
<1> QED BY <1>3, FS_CardinalityType DEF N

LEMMA SumPart ==
    ASSUME NEW f, NEW S, IsFiniteSet(S), \A x \in S : f[x] \in Nat, NEW T \in SUBSET S
    PROVE  SumFunctionOnSet(f, T) <= SumFunctionOnSet(f, S)
<1> DEFINE N == {n \in Nat : \A D \in SUBSET S : D \cap T = {} /\ IsFiniteSet(D) /\ Cardinality(D) = n =>
                   SumFunctionOnSet(f, T) <= SumFunctionOnSet(f, T \cup D)}
<1>0. IsFiniteSet(T) /\ SumFunctionOnSet(f, T) \in Nat
  BY FS_Subset, SumNat
<1>1. 0 \in N
  <2>1. ASSUME NEW D, IsFiniteSet(D), Cardinality(D) = 0 PROVE T \cup D = T
    BY <2>1, FS_EmptySet
  <2> QED BY <1>0, <2>1
<1>2. ASSUME NEW n \in Nat, n \in N PROVE n + 1 \in N
  <2>1. ASSUME NEW D \in SUBSET S, D \cap T = {}, IsFiniteSet(D), Cardinality(D) = n + 1
        PROVE  SumFunctionOnSet(f, T) <= SumFunctionOnSet(f, T \cup D)
    <3>1. D # {}
      BY <2>1, FS_EmptySet
    <3> DEFINE x == Chosen(D)
               U == D \ {x}
    <3>2. x \in S /\ x \in D /\ U \in SUBSET S /\ IsFiniteSet(U) /\ Cardinality(U) = n
      BY <2>1, WithoutChosen
    <3>3. (T \cup U) \cup {x} = T \cup D /\ x \notin T \cup U /\ T \cup U \in SUBSET S /\ U \cap T = {}
      BY <2>1, <3>2
    <3>4. IsFiniteSet(T \cup U)
      BY <3>3, FS_Subset
    <3>5. \A y \in T \cup U : f[y] \in Int
      BY <3>3
    <3>6. SumFunctionOnSet(f, T \cup D) = SumFunctionOnSet(f, T \cup U) + f[x]
      BY <3>2, <3>3, <3>4, <3>5, SumAdd
    <3>7. SumFunctionOnSet(f, T) <= SumFunctionOnSet(f, T \cup U)
      BY <1>2, <3>2, <3>3
    <3>8. SumFunctionOnSet(f, T \cup U) \in Nat /\ f[x] \in Nat
      BY <3>2, <3>3, <3>4, SumNat
    <3> HIDE DEF U, x
    <3> QED BY <1>0, <3>6, <3>7, <3>8
  <2> QED BY <2>1
<1> HIDE DEF N
<1>3. \A n \in Nat : n \in N
  BY <1>1, <1>2, Induct
<1> DEFINE D == S \ T
<1>4. IsFiniteSet(D) /\ D \in SUBSET S /\ D \cap T = {} /\ T \cup D = S
  BY FS_Subset
<1>5. Cardinality(D) \in N
  BY <1>3, <1>4, FS_CardinalityType
<1> HIDE DEF D
<1> QED BY <1>4, <1>5 DEF N

\* One value changes by d, and the sum with it.
LEMMA SumUpdate ==
    ASSUME NEW f, NEW g, NEW S, IsFiniteSet(S), NEW a \in S, NEW d \in Int, g[a] = f[a] + d,
           \A x \in S : f[x] \in Int /\ g[x] \in Int /\ (x # a => g[x] = f[x])
    PROVE  SumFunctionOnSet(g, S) = SumFunctionOnSet(f, S) + d
<1> DEFINE U == S \ {a}
<1>1. IsFiniteSet(U)
  BY FS_RemoveElement
<1>2. SumFunctionOnSet(f, S) = f[a] + SumFunctionOnSet(f, U)
  BY SumRemove
<1>3. SumFunctionOnSet(g, S) = g[a] + SumFunctionOnSet(g, U)
  BY SumRemove
<1>4. SumFunctionOnSet(f, U) = SumFunctionOnSet(g, U)
  BY <1>1, SumSame
<1>5. SumFunctionOnSet(f, U) \in Int
  BY <1>1, SumInt
<1>6. f[a] \in Int
  OBVIOUS
<1> HIDE DEF U
<1> QED BY <1>2, <1>3, <1>4, <1>5, <1>6

\* The sum of the sums.
LEMMA SumPlus ==
    ASSUME NEW f, NEW g, NEW h, NEW S, IsFiniteSet(S),
           \A x \in S : f[x] \in Int /\ g[x] \in Int /\ h[x] = f[x] + g[x]
    PROVE  SumFunctionOnSet(h, S) = SumFunctionOnSet(f, S) + SumFunctionOnSet(g, S)
<1> DEFINE N == {n \in Nat : \A T \in SUBSET S : IsFiniteSet(T) /\ Cardinality(T) = n =>
                   SumFunctionOnSet(h, T) = SumFunctionOnSet(f, T) + SumFunctionOnSet(g, T)}
<1>1. 0 \in N
  BY SumEmpty, FS_EmptySet
<1>2. ASSUME NEW n \in Nat, n \in N PROVE n + 1 \in N
  <2>1. ASSUME NEW T \in SUBSET S, IsFiniteSet(T), Cardinality(T) = n + 1
        PROVE  SumFunctionOnSet(h, T) = SumFunctionOnSet(f, T) + SumFunctionOnSet(g, T)
    <3> DEFINE x == Chosen(T)
               U == T \ {x}
    <3>1. T # {} /\ x \in S /\ U \in SUBSET S /\ IsFiniteSet(U) /\ Cardinality(U) = n
      BY <2>1, WithoutChosen
    <3>2. /\ SumFunctionOnSet(f, T) = f[x] + SumFunctionOnSet(f, U)
          /\ SumFunctionOnSet(g, T) = g[x] + SumFunctionOnSet(g, U)
          /\ SumFunctionOnSet(h, T) = h[x] + SumFunctionOnSet(h, U)
      BY <2>1, <3>1, SumUnfold
    <3> HIDE DEF x, U
    <3>3. SumFunctionOnSet(h, U) = SumFunctionOnSet(f, U) + SumFunctionOnSet(g, U)
      BY <1>2, <3>1
    <3>4. SumFunctionOnSet(f, U) \in Int /\ SumFunctionOnSet(g, U) \in Int
      BY <3>1, SumInt
    <3>5. f[x] \in Int /\ g[x] \in Int /\ h[x] = f[x] + g[x]
      BY <3>1
    <3> QED BY <3>2, <3>3, <3>4, <3>5
  <2> QED BY <2>1
<1> HIDE DEF N
<1>3. \A n \in Nat : n \in N
  BY <1>1, <1>2, Induct
<1> QED BY <1>3, FS_CardinalityType DEF N

\* A sequence sums to what a segment that it copies sums to.
LEMMA SumShift ==
    ASSUME NEW f, NEW g, NEW s \in Int, NEW n \in Nat,
           \A k \in 1..n : f[k] \in Int /\ g[s + k] = f[k]
    PROVE  SumFunctionOnSet(f, 1..n) = SumFunctionOnSet(g, (s + 1)..(s + n))
<1> DEFINE N == {m \in Nat : m <= n => SumFunctionOnSet(f, 1..m) = SumFunctionOnSet(g, (s + 1)..(s + m))}
<1>1. 0 \in N
  <2>1. 1..0 = {} /\ (s + 1)..(s + 0) = {}
    OBVIOUS
  <2> QED BY <2>1, SumEmpty
<1>2. ASSUME NEW m \in Nat, m \in N PROVE m + 1 \in N
  <2>1. SUFFICES ASSUME m + 1 <= n
        PROVE SumFunctionOnSet(f, 1..(m + 1)) = SumFunctionOnSet(g, (s + 1)..(s + (m + 1)))
    OBVIOUS
  <2> DEFINE A == 1..m
             B == (s + 1)..(s + m)
             a == m + 1
             b == s + (m + 1)
  <2>2. /\ 1..(m + 1) = A \cup {a} /\ a \notin A
        /\ (s + 1)..(s + (m + 1)) = B \cup {b} /\ b \notin B
    OBVIOUS
  <2>3. IsFiniteSet(A) /\ IsFiniteSet(B)
    BY FS_Interval
  <2>4. SumFunctionOnSet(f, A) = SumFunctionOnSet(g, B)
    BY <1>2, <2>1
  <2>5. f[a] \in Int /\ g[b] = f[a] /\ \A x \in A : f[x] \in Int
    BY <2>1
  <2>6. \A x \in B : g[x] \in Int
    <3>1. ASSUME NEW x \in B PROVE g[x] \in Int
      <4>1. x - s \in 1..n /\ s + (x - s) = x
        BY <2>1
      <4> DEFINE k == x - s
      <4>2. k \in 1..n /\ s + k = x
        BY <4>1
      <4> HIDE DEF k
      <4> QED BY <4>2
    <3> QED BY <3>1
  <2> HIDE DEF A, B, a, b
  <2>7. SumFunctionOnSet(f, A \cup {a}) = SumFunctionOnSet(f, A) + f[a]
    BY <2>2, <2>3, <2>5, SumAdd
  <2>8. SumFunctionOnSet(g, B \cup {b}) = SumFunctionOnSet(g, B) + g[b]
    BY <2>2, <2>3, <2>5, <2>6, SumAdd
  <2> QED BY <2>2, <2>4, <2>5, <2>7, <2>8
<1> HIDE DEF N
<1>3. n \in N
  BY <1>1, <1>2, Induct
<1> QED BY <1>3 DEF N

-----------------------------------------------------------------------------
(* A weighted mean, rounded down.                                          *)

\* A common factor.
LEMMA SumScale ==
    ASSUME NEW f, NEW g, NEW S, IsFiniteSet(S), NEW c \in Int,
           \A x \in S : f[x] \in Int /\ g[x] = c * f[x]
    PROVE  SumFunctionOnSet(g, S) = c * SumFunctionOnSet(f, S)
<1> DEFINE N == {n \in Nat : \A T \in SUBSET S : IsFiniteSet(T) /\ Cardinality(T) = n =>
                   SumFunctionOnSet(g, T) = c * SumFunctionOnSet(f, T)}
<1>0. \A x \in S : g[x] \in Int
  OBVIOUS
<1>1. 0 \in N
  <2>1. c * 0 = 0
    OBVIOUS
  <2> QED BY <2>1, SumEmpty, FS_EmptySet
<1>2. ASSUME NEW n \in Nat, n \in N PROVE n + 1 \in N
  <2>1. ASSUME NEW T \in SUBSET S, IsFiniteSet(T), Cardinality(T) = n + 1
        PROVE  SumFunctionOnSet(g, T) = c * SumFunctionOnSet(f, T)
    <3> DEFINE x == Chosen(T)
               U == T \ {x}
    <3>1. T # {} /\ x \in S /\ U \in SUBSET S /\ IsFiniteSet(U) /\ Cardinality(U) = n
      BY <2>1, WithoutChosen
    <3>2. /\ SumFunctionOnSet(f, T) = f[x] + SumFunctionOnSet(f, U)
          /\ SumFunctionOnSet(g, T) = g[x] + SumFunctionOnSet(g, U)
      BY <1>0, <2>1, <3>1, SumUnfold
    <3> HIDE DEF x, U
    <3>3. SumFunctionOnSet(g, U) = c * SumFunctionOnSet(f, U)
      BY <1>2, <3>1
    <3>4. SumFunctionOnSet(f, U) \in Int
      BY <3>1, SumInt
    <3>5. f[x] \in Int /\ g[x] = c * f[x]
      BY <3>1
    <3> QED BY <3>2, <3>3, <3>4, <3>5
  <2> QED BY <2>1
<1> HIDE DEF N
<1>3. \A n \in Nat : n \in N
  BY <1>1, <1>2, Induct
<1> QED BY <1>3, FS_CardinalityType DEF N

LEMMA Quotient ==
    ASSUME NEW a \in Nat, NEW b \in Nat, b > 0
    PROVE  a \div b \in Nat /\ (a \div b) * b <= a /\ a < (a \div b + 1) * b
<1>1. a \div b \in Nat /\ b * (a \div b) <= a /\ a < b * (a \div b) + b
  OBVIOUS
<1> DEFINE q == a \div b
<1> HIDE DEF q
<1>2. q \in Nat /\ b * q <= a /\ a < b * q + b
  BY <1>1 DEF q
<1>3. b * q = q * b /\ (q + 1) * b = b * q + b
  BY <1>2
<1> QED BY <1>2, <1>3 DEF q

\* Smaller and larger multiples of a natural.
LEMMA Multiples == ASSUME NEW a \in Int, NEW b \in Int, NEW c \in Nat, a <= b PROVE a * c <= b * c
  OBVIOUS

LEMMA ProductNat == ASSUME NEW a \in Nat, NEW b \in Nat PROVE a * b \in Nat
  OBVIOUS

\* A mean lies between two of the values that have weight.
LEMMA WeightedMean ==
    ASSUME NEW S, IsFiniteSet(S), NEW t, NEW m, NEW w, NEW P \in SUBSET S,
           \A x \in S : t[x] \in Nat /\ m[x] \in Nat /\ w[x] = t[x] * m[x],
           \A x \in S \ P : t[x] = 0,
           SumFunctionOnSet(t, S) > 0
    PROVE  /\ \E x \in P : m[x] <= SumFunctionOnSet(w, S) \div SumFunctionOnSet(t, S)
           /\ \E x \in P : SumFunctionOnSet(w, S) \div SumFunctionOnSet(t, S) <= m[x]
<1> DEFINE N == SumFunctionOnSet(t, S)
           W == SumFunctionOnSet(w, S)
           q == W \div N
           less == [x \in S |-> (q + 1) * t[x]]
           more == [x \in S |-> (q - 1) * t[x]]
<1>1. \A x \in S : w[x] \in Nat
  BY ProductNat
<1>2. N \in Nat /\ W \in Nat /\ N > 0
  BY <1>1, SumNat
<1> HIDE DEF N, W
<1>3. q \in Nat /\ q * N <= W /\ W < (q + 1) * N
  BY <1>2, Quotient
<1> HIDE DEF q
<1>4. \A x \in S : /\ t[x] \in Int /\ w[x] \in Int /\ less[x] \in Int /\ more[x] \in Int
                  /\ less[x] = (q + 1) * t[x] /\ more[x] = (q - 1) * t[x]
  BY <1>1, <1>3
<1> HIDE DEF less, more
<1>5. SumFunctionOnSet(less, S) = (q + 1) * N /\ SumFunctionOnSet(more, S) = (q - 1) * N
  <2>1. q + 1 \in Int /\ q - 1 \in Int
    BY <1>3
  <2> QED BY <1>4, <2>1, SumScale DEF N
<1>6. \E x \in P : m[x] <= q
  <2>1. SUFFICES ASSUME \A x \in P : ~(m[x] <= q) PROVE FALSE
    OBVIOUS
  <2>2. ASSUME NEW x \in S PROVE less[x] <= w[x]
    <3>1. CASE x \in P
      <4>1. t[x] \in Nat /\ m[x] \in Nat /\ w[x] = t[x] * m[x] /\ q + 1 <= m[x]
        BY <1>3, <2>1, <3>1
      <4>2. (q + 1) * t[x] <= m[x] * t[x]
        BY <1>3, <4>1, Multiples
      <4>3. m[x] * t[x] = t[x] * m[x]
        BY <4>1
      <4> QED BY <1>4, <4>1, <4>2, <4>3
    <3>2. CASE x \notin P
      <4>1. t[x] = 0 /\ m[x] \in Nat /\ w[x] = t[x] * m[x] /\ less[x] = (q + 1) * t[x]
        BY <1>4, <3>2
      <4> QED BY <1>3, <4>1
    <3> QED BY <3>1, <3>2
  <2>3. SumFunctionOnSet(less, S) <= W
    BY <1>4, <2>2, SumMonotone DEF W
  <2>4. (q + 1) * N \in Int
    BY <1>2, <1>3
  <2> QED BY <1>2, <1>3, <1>5, <2>3, <2>4
<1>7. \E x \in P : q <= m[x]
  <2>1. SUFFICES ASSUME \A x \in P : ~(q <= m[x]) PROVE FALSE
    OBVIOUS
  <2>2. ASSUME NEW x \in S PROVE w[x] <= more[x]
    <3>1. CASE x \in P
      <4>1. t[x] \in Nat /\ m[x] \in Nat /\ w[x] = t[x] * m[x] /\ m[x] <= q - 1
        BY <1>3, <2>1, <3>1
      <4>2. m[x] * t[x] <= (q - 1) * t[x]
        BY <1>3, <4>1, Multiples
      <4>3. m[x] * t[x] = t[x] * m[x]
        BY <4>1
      <4> QED BY <1>4, <4>1, <4>2, <4>3
    <3>2. CASE x \notin P
      <4>1. t[x] = 0 /\ m[x] \in Nat /\ w[x] = t[x] * m[x] /\ more[x] = (q - 1) * t[x]
        BY <1>4, <3>2
      <4> QED BY <1>3, <4>1
    <3> QED BY <3>1, <3>2
  <2>3. W <= SumFunctionOnSet(more, S)
    BY <1>4, <2>2, SumMonotone DEF W
  <2>4. (q - 1) * N = q * N - N /\ q * N \in Int
    BY <1>2, <1>3
  <2> QED BY <1>2, <1>3, <1>5, <2>3, <2>4
<1> QED BY <1>6, <1>7 DEF q, N, W
=============================================================================
