----------------------------- MODULE WindowProofs -----------------------------
(***************************************************************************)
(* Theorems of the aggregate views, for every window, every value of an    *)
(* epoch and any number of tasks and messages.                             *)
(*                                                                         *)
(* A sum is a fold over a set, whose recursion picks any element.  That it *)
(* is a sum at all needs an induction: an additive function on the sets of *)
(* epochs exists, by induction on the number of epochs, and it is what the *)
(* fold computes, by induction on the set.  The library's induction        *)
(* principles take a predicate as a parameter, so both are by way of a     *)
(* minimal counterexample in a well-founded order (WFMin).                 *)
(***************************************************************************)
EXTENDS SlidingWindow, FiniteSetTheorems, WellFoundedInduction, TLAPS

-----------------------------------------------------------------------------
(* The fold is a sum                                                       *)

\* A function of the sets of epochs up to n that adds up their values.
Additive(g, n) ==
    /\ g \in [SUBSET (1..n) -> Nat]
    /\ g[{}] = 0
    /\ \A s \in SUBSET (1..n), x \in 1..n : x \in s => g[s] = Value[x] + g[s \ {x}]

LEMMA AdditiveStart == \E g : Additive(g, 0)
<1> DEFINE g == [s \in SUBSET (1..0) |-> 0]
<1>1. 1..0 = {}
  OBVIOUS
<1>2. Additive(g, 0)
  BY <1>1, Zenon DEF Additive
<1>3. QED
  BY <1>2

LEMMA AdditiveStep ==
  ASSUME NEW n \in Nat, n < MaxEpoch, \E g : Additive(g, n)
  PROVE  \E g : Additive(g, n + 1)
<1>1. PICK g : Additive(g, n)
  OBVIOUS
<1> DEFINE m == n + 1
           h == [s \in SUBSET (1..m) |->
                     IF m \in s THEN Value[m] + g[s \ {m}] ELSE g[s]]
<1>2. Value \in [Epochs -> Nat] /\ 1..m \subseteq Epochs /\ m \in 1..m /\ 1..m = 1..n \cup {m}
      /\ m \notin 1..n
  BY WindowAssumption DEF WindowAssumption, Epochs
<1>3. \A x \in 1..m : Value[x] \in Nat
  BY <1>2
<1>4. ASSUME NEW s \in SUBSET (1..m)
      PROVE  s \ {m} \in SUBSET (1..n) /\ (m \notin s => s \in SUBSET (1..n))
  BY <1>2
<1> HIDE DEF m
<1>5. h \in [SUBSET (1..m) -> Nat]
  <2>1. ASSUME NEW s \in SUBSET (1..m)
        PROVE  (IF m \in s THEN Value[m] + g[s \ {m}] ELSE g[s]) \in Nat
    <3>1. g[s \ {m}] \in Nat /\ (m \notin s => g[s] \in Nat)
      BY <1>1, <1>4, Zenon DEF Additive
    <3>2. Value[m] \in Nat
      BY <1>2, <1>3
    <3>3. QED
      BY <3>1, <3>2
  <2>2. QED
    BY <2>1
<1>6. h[{}] = 0
  BY <1>1, Zenon DEF Additive
<1>7. ASSUME NEW s \in SUBSET (1..m), NEW x \in 1..m, x \in s
      PROVE  h[s] = Value[x] + h[s \ {x}]
  <2>1. s \ {x} \in SUBSET (1..m)
    OBVIOUS
  <2>2. CASE x = m
    <3>1. h[s] = Value[m] + g[s \ {m}]
      BY <1>7, <2>2
    <3>2. h[s \ {x}] = g[s \ {m}]
      BY <2>1, <2>2
    <3>3. QED
      BY <2>2, <3>1, <3>2
  <2>3. CASE x # m /\ m \in s
    <3>1. /\ h[s] = Value[m] + g[s \ {m}]
          /\ h[s \ {x}] = Value[m] + g[(s \ {x}) \ {m}]
      BY <1>7, <2>1, <2>3
    <3>2. s \ {m} \in SUBSET (1..n) /\ x \in 1..n /\ x \in s \ {m}
      BY <1>2, <1>4, <1>7, <2>3
    <3>3. g[s \ {m}] = Value[x] + g[(s \ {m}) \ {x}]
      BY <1>1, <3>2, Zenon DEF Additive
    <3>4. (s \ {m}) \ {x} = (s \ {x}) \ {m}
      OBVIOUS
    <3>5. (s \ {x}) \ {m} \in SUBSET (1..n)
      BY <1>4, <2>1
    <3>6. g[(s \ {x}) \ {m}] \in Nat
      BY <1>1, <3>5, Zenon DEF Additive
    <3>7. Value[x] \in Nat /\ Value[m] \in Nat
      BY <1>2, <1>3
    <3> HIDE DEF h
    <3>8. QED
      BY <3>1, <3>3, <3>4, <3>6, <3>7
  <2>4. CASE x # m /\ m \notin s
    <3>1. h[s] = g[s] /\ h[s \ {x}] = g[s \ {x}]
      BY <1>7, <2>1, <2>4
    <3>2. s \in SUBSET (1..n) /\ x \in 1..n
      BY <1>2, <1>4, <1>7, <2>4
    <3>3. g[s] = Value[x] + g[s \ {x}]
      BY <1>1, <1>7, <3>2, Zenon DEF Additive
    <3>4. QED
      BY <3>1, <3>3
  <2>5. QED
    BY <2>2, <2>3, <2>4
<1> HIDE DEF h
<1>8. Additive(h, m)
  BY <1>5, <1>6, <1>7 DEF Additive
<1>9. QED
  BY <1>8 DEF m

\* The recursion of the fold that defines a sum.
IsFold(f, S) ==
    f = [s \in SUBSET S |->
            IF s = {} THEN 0
            ELSE LET x == CHOOSE x \in s : TRUE IN Value[x] + f[s \ {x}]]

LEMMA SumUnfolds ==
  ASSUME NEW S
  PROVE  SumFunctionOnSet(Value, S) = (CHOOSE f : IsFold(f, S))[S]
BY Zenon DEF SumFunctionOnSet, FoldFunctionOnSet, MapThenFoldSet, IsFold

LEMMA AdditiveExists == \E g : Additive(g, MaxEpoch)
<1> DEFINE Bad == {n \in 0..MaxEpoch : ~ \E g : Additive(g, n)}
           Before == {ss \in Nat \X Nat : ss[1] < ss[2]}
<1>max. MaxEpoch \in Nat
  BY WindowAssumption DEF WindowAssumption
<1>1. IsWellFoundedOn(Before, Nat)
  BY NatLessThanWellFounded, Zenon DEF OpToRel
<1>2. Bad \subseteq Nat
  BY <1>max
<1>3. \A m, n \in Nat : m < n => <<m, n>> \in Before
  OBVIOUS
<1> HIDE DEF Before
<1>4. CASE Bad = {}
  BY <1>4, <1>max
<1>5. CASE Bad # {}
  <2>1. PICK n \in Bad : \A m \in Bad : ~ (<<m, n>> \in Before)
    BY <1>1, <1>2, <1>5, WFMin, Zenon
  <2>2. n \in 0..MaxEpoch /\ ~ \E g : Additive(g, n)
    OBVIOUS
  <2>3. n # 0
    BY <2>2, AdditiveStart
  <2>4. n - 1 \in Nat /\ n - 1 < n /\ n - 1 \in 0..MaxEpoch /\ n \in Nat /\ n - 1 < MaxEpoch
        /\ (n - 1) + 1 = n
    BY <1>max, <2>2, <2>3
  <2>5. n - 1 \notin Bad
    BY <1>2, <1>3, <2>1, <2>4
  <2>6. \E g : Additive(g, n - 1)
    BY <2>4, <2>5
  <2>7. QED
    BY <2>2, <2>4, <2>6, AdditiveStep
<1>6. QED
  BY <1>4, <1>5

\* An additive function is what the fold over any set of epochs computes.
LEMMA AdditiveIsFold ==
  ASSUME NEW g, Additive(g, MaxEpoch), NEW S \in SUBSET Epochs
  PROVE  IsFold([s \in SUBSET S |-> g[s]], S)
<1> DEFINE h == [s \in SUBSET S |-> g[s]]
           c(s) == CHOOSE x \in s : TRUE
<1>1. ASSUME NEW s \in SUBSET S
      PROVE  h[s] = IF s = {} THEN 0 ELSE Value[c(s)] + h[s \ {c(s)}]
  <2>1. CASE s = {}
    BY <2>1 DEF Additive
  <2>2. CASE s # {}
    <3>1. c(s) \in s
      BY <2>2
    <3> HIDE DEF c
    <3>2. c(s) \in Epochs /\ s \in SUBSET Epochs /\ s \ {c(s)} \in SUBSET S
      BY <3>1
    <3>3. g[s] = Value[c(s)] + g[s \ {c(s)}]
      BY <3>1, <3>2, Zenon DEF Additive, Epochs
    <3>4. QED
      BY <2>2, <3>2, <3>3
  <2>3. QED
    BY <2>1, <2>2
<1>2. QED
  BY <1>1, Zenon DEF IsFold

\* The recursion has one solution.
LEMMA FoldsAgree ==
  ASSUME NEW S, IsFiniteSet(S), NEW f, IsFold(f, S), NEW h, IsFold(h, S)
  PROVE  f = h
<1> DEFINE Bad == {s \in SUBSET S : f[s] # h[s]}
           c(s) == CHOOSE x \in s : TRUE
<1>1. IsWellFoundedOn(StrictSubsetOrdering(S), FiniteSubsetsOf(S))
  BY FS_StrictSubsetOrderingWellFounded
<1>2. Bad \subseteq FiniteSubsetsOf(S)
  BY FS_Subset DEF FiniteSubsetsOf
<1> HIDE DEF c
<1>3. /\ f = [s \in SUBSET S |-> f[s]] /\ h = [s \in SUBSET S |-> h[s]]
      /\ \A s \in SUBSET S : /\ f[s] = IF s = {} THEN 0 ELSE Value[c(s)] + f[s \ {c(s)}]
                             /\ h[s] = IF s = {} THEN 0 ELSE Value[c(s)] + h[s \ {c(s)}]
  BY Zenon DEF IsFold, c
<1>4. CASE Bad # {}
  <2>1. PICK s \in Bad : \A r \in Bad : ~ (<<r, s>> \in StrictSubsetOrdering(S))
    BY <1>1, <1>2, <1>4, WFMin, Zenon
  <2>2. s # {}
    BY <1>3
  <2>3. c(s) \in s
    BY <2>2 DEF c
  <2>4. s \ {c(s)} \in SUBSET S /\ s \ {c(s)} \subseteq s /\ s \ {c(s)} # s
    BY <2>3
  <2>5. <<s \ {c(s)}, s>> \in StrictSubsetOrdering(S)
    BY <1>2, <2>4, FS_Subset DEF StrictSubsetOrdering, FiniteSubsetsOf
  <2>6. f[s \ {c(s)}] = h[s \ {c(s)}]
    BY <2>1, <2>4, <2>5
  <2>7. s \in SUBSET S
    OBVIOUS
  <2>8. f[s] = Value[c(s)] + f[s \ {c(s)}] /\ h[s] = Value[c(s)] + h[s \ {c(s)}]
    BY <1>3, <2>2, <2>7, Zenon
  <2>9. QED
    BY <2>6, <2>8
<1>5. CASE Bad = {}
  BY <1>3, <1>5
<1>6. QED
  BY <1>4, <1>5

LEMMA SumIsAdditive ==
  ASSUME NEW g, Additive(g, MaxEpoch), NEW S \in SUBSET Epochs
  PROVE  SumFunctionOnSet(Value, S) = g[S]
<1> DEFINE h == [s \in SUBSET S |-> g[s]]
           f == CHOOSE f : IsFold(f, S)
<1>1. IsFiniteSet(S)
  <2>1. IsFiniteSet(1..MaxEpoch)
    BY WindowAssumption, FS_Interval DEF WindowAssumption
  <2>2. QED
    BY <2>1, FS_Subset, Zenon DEF Epochs
<1>2. IsFold(h, S)
  BY AdditiveIsFold
<1>3. IsFold(f, S)
  BY <1>2
<1>4. f = h
  BY <1>1, <1>2, <1>3, FoldsAgree
<1>5. SumFunctionOnSet(Value, S) = f[S]
  BY SumUnfolds
<1>6. QED
  BY <1>4, <1>5

-----------------------------------------------------------------------------
(* Sums over sets of epochs                                                *)

Sum(S) == SumFunctionOnSet(Value, S)

\* The sum of nothing is nothing, and a disjoint element adds its value.
LEMMA SumAdds ==
  /\ Sum({}) = 0
  /\ \A S \in SUBSET Epochs : Sum(S) \in Nat
  /\ \A S \in SUBSET Epochs, x \in Epochs : x \notin S => Sum(S \cup {x}) = Sum(S) + Value[x]
<1>1. PICK g : Additive(g, MaxEpoch)
  BY AdditiveExists
<1>2. \A S \in SUBSET Epochs : Sum(S) = g[S]
  BY <1>1, SumIsAdditive DEF Sum
<1>3. \A S \in SUBSET Epochs : Sum(S) \in Nat
  BY <1>1, <1>2, Zenon DEF Additive, Epochs
<1>4. Sum({}) = 0
  BY <1>1, <1>2, Zenon DEF Additive, Epochs
<1>5. ASSUME NEW S \in SUBSET Epochs, NEW x \in Epochs, x \notin S
      PROVE  Sum(S \cup {x}) = Sum(S) + Value[x]
  <2>1. S \cup {x} \in SUBSET Epochs /\ x \in S \cup {x} /\ (S \cup {x}) \ {x} = S
    BY <1>5
  <2>2. g[S \cup {x}] = Value[x] + g[S]
    <3>1. g[S \cup {x}] = Value[x] + g[(S \cup {x}) \ {x}]
      BY <1>1, <2>1, Zenon DEF Additive, Epochs
    <3>2. QED
      BY <2>1, <3>1, Zenon
  <2>3. Sum(S) \in Nat /\ Value[x] \in Nat
    BY <1>3, WindowAssumption DEF WindowAssumption
  <2>4. Sum(S \cup {x}) = Value[x] + Sum(S)
    BY <1>2, <2>1, <2>2, Zenon
  <2>5. QED
    BY <2>3, <2>4
<1>6. QED
  BY <1>3, <1>4, <1>5

LEMMA SumOfUnion ==
  ASSUME NEW A \in SUBSET Epochs, NEW B \in SUBSET Epochs, A \cap B = {}
  PROVE  Sum(A \cup B) = Sum(A) + Sum(B)
<1> DEFINE Bad == {X \in SUBSET B : Sum(A \cup X) # Sum(A) + Sum(X)}
<1>1. IsFiniteSet(1..MaxEpoch)
  BY WindowAssumption, FS_Interval DEF WindowAssumption
<1>2. IsFiniteSet(B)
  BY <1>1, FS_Subset, Zenon DEF Epochs
<1>3. IsWellFoundedOn(StrictSubsetOrdering(B), FiniteSubsetsOf(B))
  BY FS_StrictSubsetOrderingWellFounded
<1>4. Bad \subseteq FiniteSubsetsOf(B)
  BY <1>2, FS_Subset DEF FiniteSubsetsOf
<1>5. CASE Bad # {}
  <2>1. PICK X \in Bad : \A Y \in Bad : ~ (<<Y, X>> \in StrictSubsetOrdering(B))
    BY <1>3, <1>4, <1>5, WFMin, Zenon
  <2>2. X \in SUBSET B
    OBVIOUS
  <2>3. X # {}
    <3>1. A \cup {} = A /\ Sum(A) + 0 = Sum(A) /\ Sum({}) = 0
      BY SumAdds
    <3>2. QED
      BY <3>1
  <2>4. PICK x : x \in X
    BY <2>3
  <2> DEFINE Y == X \ {x}
  <2>5. /\ Y \in SUBSET B /\ Y \subseteq X /\ Y # X /\ Y \cup {x} = X
        /\ x \in Epochs /\ x \notin Y /\ Y \in SUBSET Epochs /\ X \in SUBSET Epochs
        /\ A \cup Y \in SUBSET Epochs /\ x \notin A \cup Y
        /\ (A \cup Y) \cup {x} = A \cup X
    BY <2>2, <2>4
  <2> HIDE DEF Y
  <2>6. <<Y, X>> \in StrictSubsetOrdering(B)
    BY <2>2, <2>5 DEF StrictSubsetOrdering
  <2>7. Sum(A \cup Y) = Sum(A) + Sum(Y)
    BY <2>1, <2>5, <2>6
  <2>8. /\ Sum(A \cup X) = Sum(A \cup Y) + Value[x]
        /\ Sum(X) = Sum(Y) + Value[x]
    BY <2>5, SumAdds
  <2>9. Sum(A) \in Nat /\ Sum(Y) \in Nat /\ Value[x] \in Nat
    BY <2>5, SumAdds, WindowAssumption DEF WindowAssumption
  <2>10. Sum(A \cup X) = Sum(A) + Sum(X)
    BY <2>7, <2>8, <2>9
  <2>11. QED
    BY <2>10
<1>6. CASE Bad = {}
  BY <1>6
<1>7. QED
  BY <1>5, <1>6

-----------------------------------------------------------------------------
(* Sums over intervals of the epochs with a snapshot                       *)

Within(lo, hi) == {e \in data : lo <= e /\ e <= hi}

LEMMA SumOfIntervals ==
  ASSUME data \subseteq Epochs, NEW lo \in Int, NEW mid \in Int, NEW hi \in Int,
         lo <= mid + 1, mid <= hi
  PROVE  Sum(Within(lo, hi)) = Sum(Within(lo, mid)) + Sum(Within(mid + 1, hi))
<1>1. \A e \in data : e \in Int
  BY DEF Epochs
<1>2. Within(lo, hi) = Within(lo, mid) \cup Within(mid + 1, hi)
  BY <1>1 DEF Within
<1>3. Within(lo, mid) \cap Within(mid + 1, hi) = {}
  BY <1>1 DEF Within
<1>4. Within(lo, mid) \in SUBSET Epochs /\ Within(mid + 1, hi) \in SUBSET Epochs
  BY DEF Within
<1>5. QED
  BY <1>2, <1>3, <1>4, SumOfUnion

LEMMA SumIsNat ==
  ASSUME data \subseteq Epochs, NEW lo, NEW hi
  PROVE  Sum(Within(lo, hi)) \in Nat
<1>1. Within(lo, hi) \in SUBSET Epochs
  BY DEF Within
<1>2. QED
  BY <1>1, SumAdds

LEMMA SumOfIsSum ==
  ASSUME data \subseteq Epochs, NEW lo \in Int, NEW hi \in Int
  PROVE  SumOf(lo, hi, {}) = Sum(Within(Larger(lo, First), hi))
<1>1. {e \in data \ {} : Larger(lo, First) <= e /\ e <= hi} = Within(Larger(lo, First), hi)
  BY DEF Within
<1>2. QED
  BY <1>1, Zenon DEF SumOf, Sum

LEMMA SumOfIsNat ==
  ASSUME data \subseteq Epochs, NEW lo, NEW hi, NEW gone
  PROVE  SumOf(lo, hi, gone) \in Nat
<1> DEFINE S == {e \in data \ gone : Larger(lo, First) <= e /\ e <= hi}
<1>1. S \in SUBSET Epochs
  OBVIOUS
<1>2. Sum(S) \in Nat
  BY <1>1, SumAdds
<1>3. SumOf(lo, hi, gone) = Sum(S)
  BY Zenon DEF SumOf, Sum
<1>4. QED
  BY <1>2, <1>3

\* An interval that is empty has no sum.
LEMMA EmptySum ==
  ASSUME data \subseteq Epochs, NEW lo \in Int, NEW hi \in Int, NEW gone, hi < lo
  PROVE  SumOf(lo, hi, gone) = 0
<1>1. First \in Int /\ \A e \in data : e \in Int
  BY WindowAssumption DEF WindowAssumption, Epochs
<1>2. {e \in data \ gone : Larger(lo, First) <= e /\ e <= hi} = {}
  BY <1>1 DEF Larger
<1>3. QED
  BY <1>2, SumAdds, Zenon DEF SumOf, Sum

\* The bounds of windows.
LEMMA Tails ==
  ASSUME NEW e \in Epochs
  PROVE  /\ TailOf(e) \in Int /\ First \in Int /\ e \in Int /\ First >= 1 /\ e >= 1
         /\ TailOf(e) >= First
         /\ First <= e => TailOf(e) <= e
         /\ Larger(TailOf(e), First) = TailOf(e)
         /\ \A d \in Epochs : d <= e => /\ Larger(TailOf(e) - (e - d), First) = TailOf(d)
                                        /\ TailOf(d) <= TailOf(e)
BY WindowAssumption DEF WindowAssumption, Epochs, TailOf, Larger

LEMMA TotalIsSum ==
  ASSUME data \subseteq Epochs, NEW e \in Epochs
  PROVE  Total(e, {}) = Sum(Within(TailOf(e), e))
BY Tails, SumOfIsSum DEF Total

\* What the cacher does to keep a view: from the sum of an earlier window,
\* with the epochs after it and without those before the new one, to the sum
\* of the new window, wherever the first epoch lies.
LEMMA WindowMoves ==
  ASSUME data \subseteq Epochs, NEW d \in Epochs, NEW e \in Epochs,
         TailOf(e) < d, d <= e
  PROVE  (Total(d, {}) + SumOf(d + 1, e, {})) - SumOf(TailOf(e) - (e - d), TailOf(e) - 1, {})
             = Total(e, {})
<1>1. /\ TailOf(e) \in Int /\ TailOf(d) \in Int /\ d \in Int /\ e \in Int
      /\ TailOf(d) <= TailOf(e) /\ TailOf(e) >= First /\ First \in Int
      /\ Larger(TailOf(e) - (e - d), First) = TailOf(d)
  BY Tails
<1> DEFINE a == Sum(Within(TailOf(d), TailOf(e) - 1))
           b == Sum(Within(TailOf(e), d))
           c == Sum(Within(d + 1, e))
<1>2. a \in Nat /\ b \in Nat /\ c \in Nat
  BY SumIsNat
<1>3. Total(d, {}) = a + b
  <2>1. Sum(Within(TailOf(d), d)) = a + Sum(Within((TailOf(e) - 1) + 1, d))
    BY <1>1, SumOfIntervals
  <2>2. (TailOf(e) - 1) + 1 = TailOf(e)
    BY <1>1
  <2>3. QED
    BY <2>1, <2>2, TotalIsSum
<1>4. Total(e, {}) = b + c
  BY <1>1, SumOfIntervals, TotalIsSum
<1>5. SumOf(d + 1, e, {}) = c
  <2>1. Larger(d + 1, First) = d + 1
    BY <1>1 DEF Larger
  <2>2. QED
    BY <1>1, <2>1, SumOfIsSum
<1>6. SumOf(TailOf(e) - (e - d), TailOf(e) - 1, {}) = a
  BY <1>1, SumOfIsSum
<1> HIDE DEF a, b, c
<1>7. QED
  BY <1>2, <1>3, <1>4, <1>5, <1>6

-----------------------------------------------------------------------------
(* The inductive invariant                                                 *)

TaskRecords ==
    [epoch : Epochs,
     at : {"check", "flag", "latest", "cached", "fetch", "write"},
     last : 0..MaxEpoch,
     cached : Int \cup {None},
     total : Int \cup {None}]

Shaped == task \in [Tasks -> TaskRecords \cup {None}]

\* The task has a view to start from.
Founded(t) == t.at = "cached" \/ (t.at = "fetch" /\ t.cached # None)

\* What the place of a task says of what it holds, disturbed or not.
Sound(t) ==
    /\ t.at \in {"check", "flag", "latest", "cached"} => t.cached = None
    /\ Founded(t) => TailOf(t.epoch) < t.last
    /\ t.at = "write" => t.total \in Int
    /\ kind = "volume" => /\ t.cached # None => t.cached >= 0
                          /\ t.at = "write" => t.total >= 0

WindowInv ==
    /\ TypeOK
    /\ Shaped
    /\ \A k \in Running : Sound(task[k])

\* What it holds is what the views are to be made of.
Precise(t) ==
    /\ Founded(t) => t.last <= t.epoch
    /\ t.at = "fetch" /\ t.cached # None => t.cached = Total(t.last, {})
    /\ t.at = "write" => t.total = Total(t.epoch, {})

ExactInv ==
    /\ ViewsAreExact
    /\ ~disturbed => \A k \in Running : Precise(task[k])

LEMMA InitInv == Init => WindowInv /\ ExactInv
<1> SUFFICES ASSUME Init
             PROVE  WindowInv /\ ExactInv
  OBVIOUS
<1>1. Running = {}
  BY DEF Init, Running
<1>2. Shaped
  BY DEF Init, Shaped
<1>3. flag \in BOOLEAN /\ disturbed \in BOOLEAN
  BY Zenon DEF Init
<1>4. kind \in Kinds /\ data \subseteq Epochs
      /\ view \in [Epochs -> Int \cup {None}] /\ \A e \in Epochs : view[e] = None
  BY DEF Init
<1>5. latest \in 0..MaxEpoch /\ messages \in 0..MaxMessages
  BY WindowAssumption DEF Init, WindowAssumption
<1>6. TypeOK
  BY <1>1, <1>3, <1>4, <1>5 DEF TypeOK
<1>7. QED
  BY <1>1, <1>2, <1>4, <1>6 DEF WindowInv, ExactInv, ViewsAreExact

\* TypeOK says of the tasks what their shape does.
LEMMA ShapeTypes ==
  ASSUME Shaped
  PROVE  \A k \in Running :
             /\ k \in Tasks
             /\ task[k] \in TaskRecords
             /\ task[k].epoch \in Epochs
             /\ task[k].at \in {"check", "flag", "latest", "cached", "fetch", "write"}
             /\ task[k].last \in 0..MaxEpoch
             /\ task[k].cached \in Int \cup {None}
             /\ task[k].total \in Int \cup {None}
<1>1. \A k \in Running : k \in Tasks /\ task[k] \in TaskRecords
  BY DEF Shaped, Running
<1>2. QED
  BY <1>1 DEF TaskRecords

\* A step of the surroundings keeps the tasks.
LEMMA SurroundingsKeep ==
  ASSUME WindowInv, task' = task, kind' = kind
  PROVE  Shaped' /\ \A k \in Running' : Sound(task[k])'
BY DEF WindowInv, Shaped, Running, Sound, Founded

\* So does a step of one task for the others; its own must be sound again.
LEMMA TaskKeeps ==
  ASSUME WindowInv, kind' = kind, NEW k \in Tasks, NEW r \in TaskRecords \cup {None},
         task' = [task EXCEPT ![k] = r],
         r # None => Sound(r)
  PROVE  Shaped' /\ \A j \in Running' : Sound(task[j])'
<1>1. task' \in [Tasks -> TaskRecords \cup {None}]
      /\ \A j \in Tasks : task'[j] = IF j = k THEN r ELSE task[j]
  BY DEF WindowInv, Shaped
<1>2. \A t : Sound(t)' <=> Sound(t)
  BY DEF Sound, Founded
<1>3. ASSUME NEW j \in Running'
      PROVE  Sound(task'[j])
  <2>1. j \in Tasks /\ task'[j] # None
    BY DEF Running
  <2>2. CASE j = k
    BY <1>1, <2>1, <2>2
  <2>3. CASE j # k
    BY <1>1, <2>1, <2>3 DEF WindowInv, Running
  <2>4. QED
    BY <2>2, <2>3
<1>4. \A j \in Running' : Sound(task[j])'
  BY <1>3 DEF Sound, Founded
<1>5. QED
  BY <1>1, <1>4 DEF Shaped

\* The type invariant, for steps that have taken care of the tasks.
LEMMA TypeFrom ==
  ASSUME Shaped',
         kind' \in Kinds, flag' \in BOOLEAN, latest' \in 0..MaxEpoch,
         view' \in [Epochs -> Int \cup {None}],
         kind' = "volume" => \A e \in Epochs : view'[e] # None => view'[e] >= 0,
         data' \subseteq Epochs,
         messages' \in 0..MaxMessages,
         disturbed' \in BOOLEAN
  PROVE  TypeOK'
<1>1. \A k \in Running' :
             /\ task'[k].epoch \in Epochs
             /\ task'[k].at \in {"check", "flag", "latest", "cached", "fetch", "write"}
             /\ task'[k].last \in 0..MaxEpoch
             /\ task'[k].cached \in Int \cup {None}
             /\ task'[k].total \in Int \cup {None}
  <2>1. \A k \in Running' : task'[k] \in TaskRecords
    BY DEF Shaped, Running
  <2>2. QED
    BY <2>1 DEF TaskRecords
<1>2. QED
  BY <1>1 DEF TypeOK

\* The value a task writes, disturbed or not.
LEMMA FetchedValue ==
  ASSUME WindowInv, NEW k \in Running, task[k].at = "fetch", NEW gone
  PROVE  /\ Total(task[k].epoch, gone) \in Nat
         /\ task[k].cached # None =>
                /\ Update(task[k], gone) \in Int
                /\ kind = "volume" => Update(task[k], gone) >= 0
<1> DEFINE t == task[k]
           plus == SumOf(t.last + 1, t.epoch, gone)
           minus == SumOf(TailOf(t.epoch) - (t.epoch - t.last), TailOf(t.epoch) - 1, gone)
<1>1. t.epoch \in Epochs /\ t.last \in 0..MaxEpoch /\ t.cached \in Int \cup {None}
      /\ Sound(t) /\ data \subseteq Epochs
  BY ShapeTypes DEF WindowInv, TypeOK
<1>2. t.epoch \in Int /\ t.last \in Int /\ TailOf(t.epoch) \in Int
  BY <1>1, Tails, WindowAssumption DEF WindowAssumption
<1>3. plus \in Nat /\ minus \in Nat
  BY <1>1, SumOfIsNat
<1>4. t.epoch <= t.last => plus = 0 /\ minus = 0
  <2>1. t.epoch <= t.last => t.epoch < t.last + 1
            /\ TailOf(t.epoch) - 1 < TailOf(t.epoch) - (t.epoch - t.last)
    BY <1>2
  <2>2. t.last + 1 \in Int /\ TailOf(t.epoch) - (t.epoch - t.last) \in Int
        /\ TailOf(t.epoch) - 1 \in Int
    BY <1>2
  <2>3. QED
    BY <1>1, <1>2, <2>1, <2>2, EmptySum
<1>5. Total(t.epoch, gone) \in Nat
  BY <1>1, SumOfIsNat DEF Total
<1>6. Update(t, gone) = IF kind = "volume" /\ t.epoch - t.last > 0
                          THEN Larger((t.cached + plus) - minus, 0)
                          ELSE (t.cached + plus) - minus
  BY DEF Update
<1>7. kind = "volume" /\ t.cached # None => t.cached >= 0
  BY <1>1 DEF Sound
<1> HIDE DEF plus, minus
<1>8. t.cached # None => Update(t, gone) \in Int /\ (kind = "volume" => Update(t, gone) >= 0)
  BY <1>1, <1>2, <1>3, <1>4, <1>6, <1>7 DEF Larger
<1>9. QED
  BY <1>5, <1>8

LEMMA InvKept ==
  ASSUME WindowInv, [Next]_vars
  PROVE  WindowInv'
<1> USE DEF WindowInv
<1>types. /\ kind \in Kinds /\ flag \in BOOLEAN /\ latest \in 0..MaxEpoch
          /\ view \in [Epochs -> Int \cup {None}]
          /\ kind = "volume" => \A e \in Epochs : view[e] # None => view[e] >= 0
          /\ data \subseteq Epochs /\ messages \in 0..MaxMessages /\ disturbed \in BOOLEAN
          /\ MaxMessages \in Nat /\ MaxEpoch \in Nat
          /\ First \in Epochs
  BY WindowAssumption DEF WindowAssumption, TypeOK
<1>arrive. ASSUME NEW es \in SUBSET Epochs, Arrive(es)
           PROVE  data' \subseteq Epochs /\ disturbed' \in BOOLEAN
  <2>1. data' = data \cup es
        /\ disturbed' = (disturbed \/ (es \ data) \cap Counted # {})
    BY <1>arrive DEF Arrive
  <2>2. disturbed' \in BOOLEAN
    BY <1>types, <2>1, Zenon
  <2>3. QED
    BY <1>types, <2>1, <2>2
<1>1. ASSUME NEW e \in Epochs, Appear(e)
      PROVE  WindowInv'
  <2>1. Arrive({e}) /\ UNCHANGED <<kind, flag, latest, view, task, messages>>
    BY <1>1 DEF Appear
  <2>2. data' \subseteq Epochs /\ disturbed' \in BOOLEAN
    BY <1>arrive, <2>1
  <2>3. QED
    BY <1>types, <2>1, <2>2, SurroundingsKeep, TypeFrom
<1>2. ASSUME NEW e \in Epochs, NEW k \in Tasks, Deliver(e, k)
      PROVE  WindowInv'
  <2> DEFINE r == [epoch |-> e, at |-> "check", last |-> 0, cached |-> None, total |-> None]
  <2>1. /\ Arrive({e}) /\ UNCHANGED <<kind, flag, latest, view>>
        /\ task' = [task EXCEPT ![k] = r]
        /\ messages' \in 0..MaxMessages
    BY <1>2, <1>types DEF Deliver
  <2>2. r \in TaskRecords
    BY <1>types DEF TaskRecords
  <2>3. Sound(r)
    BY DEF Sound, Founded
  <2>4. data' \subseteq Epochs /\ disturbed' \in BOOLEAN
    BY <1>arrive, <2>1
  <2> HIDE DEF r
  <2>5. QED
    BY <1>types, <2>1, <2>2, <2>3, <2>4, TaskKeeps, TypeFrom
<1>3. ASSUME NEW e \in Epochs, Seed(e)
      PROVE  WindowInv'
  <2>1. /\ Arrive(First..e) /\ UNCHANGED <<kind, flag, task, messages>> /\ kind = "frequency"
        /\ view' = [view EXCEPT ![e] = SumFunctionOnSet(Value, TailOf(e)..e)]
        /\ latest' = e
    BY <1>3 DEF Seed
  <2>2. First..e \in SUBSET Epochs /\ TailOf(e)..e \in SUBSET Epochs
    <3>1. First \in Int /\ TailOf(e) \in Int /\ e \in Int /\ 1 <= First /\ 1 <= TailOf(e)
          /\ e <= MaxEpoch
      BY <1>types, Tails DEF Epochs
    <3>2. QED
      BY <1>types, <3>1 DEF Epochs
  <2>3. SumFunctionOnSet(Value, TailOf(e)..e) \in Nat
    BY <2>2, SumAdds, Zenon DEF Sum
  <2>4. view' \in [Epochs -> Int \cup {None}]
    BY <1>types, <2>1, <2>3
  <2>5. data' \subseteq Epochs /\ disturbed' \in BOOLEAN
    BY <1>arrive, <2>1, <2>2
  <2>6. latest' \in 0..MaxEpoch
    BY <2>1 DEF Epochs
  <2>7. QED
    BY <1>types, <2>1, <2>4, <2>5, <2>6, SurroundingsKeep, TypeFrom
<1>4. CASE FlagExpires
  BY <1>4, <1>types, SurroundingsKeep, TypeFrom DEF FlagExpires
<1>5. ASSUME NEW e \in Epochs, ViewExpires(e)
      PROVE  WindowInv'
  <2>1. /\ UNCHANGED <<kind, flag, latest, data, task, messages, disturbed>>
        /\ kind = "frequency"
        /\ view' = [view EXCEPT ![e] = None]
    BY <1>5 DEF ViewExpires
  <2>2. view' \in [Epochs -> Int \cup {None}]
    BY <1>types, <2>1
  <2>3. QED
    BY <1>types, <2>1, <2>2, SurroundingsKeep, TypeFrom
<1>6. CASE LatestExpires
  BY <1>6, <1>types, SurroundingsKeep, TypeFrom DEF LatestExpires
<1>own. ASSUME NEW k \in Running
        PROVE  k \in Tasks /\ task[k] \in TaskRecords /\ task[k].epoch \in Epochs
               /\ task[k].last \in 0..MaxEpoch /\ task[k].cached \in Int \cup {None}
               /\ task[k].total \in Int \cup {None} /\ Sound(task[k])
  BY ShapeTypes
<1>7. ASSUME NEW k \in Tasks, Fail(k)
      PROVE  WindowInv'
  <2>1. task' = [task EXCEPT ![k] = None]
        /\ UNCHANGED <<kind, flag, latest, view, data, messages, disturbed>>
    BY <1>7 DEF Fail, End
  <2>2. QED
    BY <1>types, <2>1, TaskKeeps, TypeFrom
<1>8. ASSUME NEW k \in Tasks, CheckFlag(k)
      PROVE  WindowInv'
  <2> DEFINE r == IF flag THEN None ELSE [task[k] EXCEPT !.at = "flag"]
  <2>1. /\ k \in Running /\ task[k].at = "check"
        /\ task' = [task EXCEPT ![k] = r]
        /\ UNCHANGED <<kind, flag, latest, view, data, messages, disturbed>>
    BY <1>8 DEF CheckFlag, End, Goto, At
  <2>2. r \in TaskRecords \cup {None} /\ (r # None => Sound(r))
    BY <1>own, <2>1 DEF TaskRecords, Sound, Founded
  <2> HIDE DEF r
  <2>3. QED
    BY <1>types, <2>1, <2>2, TaskKeeps, TypeFrom
<1>9. ASSUME NEW k \in Tasks, SetFlag(k)
      PROVE  WindowInv'
  <2> DEFINE r == [task[k] EXCEPT !.at = "latest"]
  <2>1. /\ k \in Running /\ task[k].at = "flag" /\ flag' = TRUE
        /\ task' = [task EXCEPT ![k] = r]
        /\ UNCHANGED <<kind, latest, view, data, messages, disturbed>>
    BY <1>9 DEF SetFlag, Goto, At
  <2>2. r \in TaskRecords \cup {None} /\ (r # None => Sound(r))
    BY <1>own, <2>1 DEF TaskRecords, Sound, Founded
  <2> HIDE DEF r
  <2>3. QED
    BY <1>types, <2>1, <2>2, TaskKeeps, TypeFrom
<1>10. ASSUME NEW k \in Tasks, ReadLatest(k)
       PROVE  WindowInv'
  <2> DEFINE c == [task[k] EXCEPT !.last = latest, !.at = "cached"]
             f == [task[k] EXCEPT !.last = latest, !.at = "fetch"]
  <2>1. \/ task' = [task EXCEPT ![k] = c] /\ latest > TailOf(task[k].epoch)
        \/ task' = [task EXCEPT ![k] = f]
        \/ task' = [task EXCEPT ![k] = None]
    BY <1>10 DEF ReadLatest, End
  <2>2. /\ k \in Running /\ task[k].at = "latest"
        /\ UNCHANGED <<kind, flag, latest, view, data, messages>>
        /\ disturbed' = (disturbed \/ latest > task[k].epoch)
    BY <1>10 DEF ReadLatest, At
  <2>3. disturbed' \in BOOLEAN
    BY <1>types, <2>2, Zenon
  <2>4. c \in TaskRecords /\ f \in TaskRecords
    BY <1>own, <1>types, <2>2 DEF TaskRecords
  <2>5. task[k].cached = None
    BY <1>own, <2>2 DEF Sound
  <2>6. latest > TailOf(task[k].epoch) => Sound(c)
    BY <1>own, <1>types, <2>2, <2>5, Tails DEF TaskRecords, Sound, Founded
  <2>7. Sound(f)
    BY <1>own, <2>2, <2>5 DEF TaskRecords, Sound, Founded
  <2> HIDE DEF c, f
  <2>8. Shaped' /\ \A j \in Running' : Sound(task[j])'
    BY <2>1, <2>2, <2>4, <2>6, <2>7, TaskKeeps
  <2>9. QED
    BY <1>types, <2>2, <2>3, <2>8, TypeFrom
<1>11. ASSUME NEW k \in Tasks, ReadCached(k)
       PROVE  WindowInv'
  <2>1. PICK r \in {None, [task[k] EXCEPT !.cached = view[task[k].last], !.at = "fetch"]} :
          task' = [task EXCEPT ![k] = r]
    BY <1>11 DEF ReadCached, End
  <2>2. /\ k \in Running /\ task[k].at = "cached"
        /\ UNCHANGED <<kind, flag, latest, view, data, messages, disturbed>>
    BY <1>11 DEF ReadCached, At
  <2>3. task[k].last \in Epochs /\ TailOf(task[k].epoch) < task[k].last
    BY <1>own, <2>2, Tails DEF Sound, Founded, Epochs
  <2>4. view[task[k].last] \in Int \cup {None}
    BY <1>types, <2>3
  <2>5. kind = "volume" /\ view[task[k].last] # None => view[task[k].last] >= 0
    BY <1>types, <2>3
  <2>6. r \in TaskRecords \cup {None}
    BY <1>own, <2>1, <2>2, <2>4 DEF TaskRecords
  <2>7. r # None => Sound(r)
    BY <1>own, <2>1, <2>2, <2>3, <2>4, <2>5 DEF TaskRecords, Sound, Founded
  <2>8. QED
    BY <1>types, <2>1, <2>2, <2>6, <2>7, TaskKeeps, TypeFrom
<1>12. ASSUME NEW k \in Tasks, Fetch(k)
       PROVE  WindowInv'
  <2>1. k \in Running /\ task[k].at = "fetch"
        /\ UNCHANGED <<kind, flag, latest, view, data, messages>>
    BY <1>12 DEF Fetch, At
  <2>2. PICK gone \in {{}, {task[k].epoch}} :
          /\ task' = [task EXCEPT ![k].total = IF task[k].cached = None
                                                 THEN Total(task[k].epoch, gone)
                                                 ELSE Update(task[k], gone),
                                  ![k].at = "write"]
          /\ disturbed' = (disturbed \/ gone # {})
    BY <1>12 DEF Fetch
  <2> DEFINE total == IF task[k].cached = None THEN Total(task[k].epoch, gone)
                      ELSE Update(task[k], gone)
             r == [task[k] EXCEPT !.total = total, !.at = "write"]
  <2>3. total \in Int /\ (kind = "volume" => total >= 0)
    BY <2>1, FetchedValue
  <2>4. task' = [task EXCEPT ![k] = r]
    BY <2>2
  <2>5. disturbed' \in BOOLEAN
    BY <1>types, <2>2, Zenon
  <2> HIDE DEF total
  <2>6. r \in TaskRecords /\ Sound(r)
    BY <1>own, <2>1, <2>3 DEF TaskRecords, Sound, Founded
  <2> HIDE DEF r
  <2>7. QED
    BY <1>types, <2>1, <2>4, <2>5, <2>6, TaskKeeps, TypeFrom
<1>13. ASSUME NEW k \in Tasks, Write(k)
       PROVE  WindowInv'
  <2>1. /\ k \in Running /\ task[k].at = "write" /\ latest' = task[k].epoch /\ flag' = FALSE
        /\ task' = [task EXCEPT ![k] = None]
        /\ UNCHANGED <<kind, data, messages, disturbed>>
    BY <1>13 DEF Write, At, End
  <2>2. task[k].total \in Int /\ (kind = "volume" => task[k].total >= 0)
    BY <1>own, <2>1 DEF Sound
  <2>3. /\ view' \in [Epochs -> Int \cup {None}]
        /\ \A e \in Epochs : view'[e] \in {None, task[k].total, view[e]}
    BY <1>13, <1>types, <2>2 DEF Write
  <2>4. kind' = "volume" => \A e \in Epochs : view'[e] # None => view'[e] >= 0
    BY <1>types, <2>1, <2>2, <2>3
  <2>5. latest' \in 0..MaxEpoch
    BY <1>own, <2>1 DEF Epochs
  <2>6. QED
    BY <1>types, <2>1, <2>3, <2>4, <2>5, TaskKeeps, TypeFrom
<1>14. CASE UNCHANGED vars
  BY <1>14, <1>types, SurroundingsKeep, TypeFrom DEF vars
<1>15. QED
  BY <1>1, <1>2, <1>3, <1>4, <1>5, <1>6, <1>7, <1>8, <1>9, <1>10, <1>11, <1>12, <1>13,
     <1>14 DEF Next

-----------------------------------------------------------------------------
(* Views are exact                                                         *)

\* A sum changes with the epochs of its window only.
LEMMA TotalKept ==
  ASSUME NEW e \in Epochs, data \subseteq Epochs, data' \subseteq Epochs,
         \A x \in Epochs : x <= e => (x \in data' <=> x \in data)
  PROVE  Total(e, {})' = Total(e, {})
<1> DEFINE L == Larger(TailOf(e), First)
<1>1. {x \in data' \ {} : L <= x /\ x <= e} = {x \in data \ {} : L <= x /\ x <= e}
  OBVIOUS
<1>2. Total(e, {})' = SumFunctionOnSet(Value, {x \in data' \ {} : L <= x /\ x <= e})
  BY Zenon DEF Total, SumOf, TailOf, Larger
<1>3. Total(e, {}) = SumFunctionOnSet(Value, {x \in data \ {} : L <= x /\ x <= e})
  BY Zenon DEF Total, SumOf
<1> HIDE DEF L
<1>4. QED
  BY <1>1, <1>2, <1>3, Zenon

\* Every epoch up to this one is in some view, or about to be.
Weighed(e) == \A x \in Epochs : x <= e => x \in Counted

LEMMA ArriveKeeps ==
  ASSUME data \subseteq Epochs, NEW es \in SUBSET Epochs, Arrive(es), ~disturbed'
  PROVE  ~disturbed /\ \A e \in Epochs : Weighed(e) => Total(e, {})' = Total(e, {})
<1>1. data' = data \cup es /\ (es \ data) \cap Counted = {} /\ ~disturbed
  BY DEF Arrive
<1>2. QED
  BY <1>1, TotalKept DEF Weighed

\* What is weighed: epochs with a view, those a task starts from, and those
\* it is about to write.
LEMMA WeighedEpochs ==
  ASSUME WindowInv
  PROVE  /\ \A e \in Epochs : view[e] # None => Weighed(e)
         /\ \A k \in Running : /\ task[k].cached # None => Weighed(task[k].last)
                               /\ task[k].at = "write" => Weighed(task[k].epoch)
BY DEF Weighed, Counted

LEMMA Referred ==
  ASSUME WindowInv, NEW k \in Running
  PROVE  /\ task[k].epoch \in Epochs
         /\ Founded(task[k]) => task[k].last \in Epochs
<1>1. task[k].epoch \in Epochs /\ task[k].last \in 0..MaxEpoch /\ Sound(task[k])
  BY ShapeTypes DEF WindowInv
<1>2. Founded(task[k]) => task[k].last > 0
  BY <1>1, Tails, WindowAssumption DEF Sound, WindowAssumption
<1>3. QED
  BY <1>1, <1>2 DEF Epochs

LEMMA SurroundingsExact ==
  ASSUME WindowInv, ExactInv, task' = task,
         ~disturbed' => /\ ~disturbed
                        /\ \A e \in Epochs : Weighed(e) => Total(e, {})' = Total(e, {})
                        /\ \A e \in Epochs : view'[e] \in {None, view[e], Total(e, {})'}
  PROVE  ExactInv'
<1>1. ASSUME ~disturbed', NEW e \in Epochs, view'[e] # None
      PROVE  view'[e] = Total(e, {})'
  <2>1. CASE view'[e] = view[e]
    BY <1>1, <2>1, WeighedEpochs DEF ExactInv, ViewsAreExact
  <2>2. CASE view'[e] # view[e]
    BY <1>1, <2>2
  <2>3. QED
    BY <2>1, <2>2
<1>2. ASSUME ~disturbed', NEW k \in Running'
      PROVE  Precise(task[k])'
  <2>1. k \in Running /\ task'[k] = task[k] /\ Precise(task[k])
    BY <1>2 DEF Running, ExactInv
  <2>2. task[k].at = "fetch" /\ task[k].cached # None =>
            Total(task[k].last, {})' = Total(task[k].last, {})
    BY <1>2, <2>1, WeighedEpochs, Referred DEF Founded
  <2>3. task[k].at = "write" => Total(task[k].epoch, {})' = Total(task[k].epoch, {})
    BY <1>2, <2>1, WeighedEpochs, Referred
  <2>4. QED
    BY <2>1, <2>2, <2>3 DEF Precise, Founded
<1>3. QED
  BY <1>1, <1>2 DEF ExactInv, ViewsAreExact

LEMMA TaskExact ==
  ASSUME WindowInv, ExactInv, data' = data, NEW k \in Tasks, NEW r,
         task' = [task EXCEPT ![k] = r],
         ~disturbed' => /\ ~disturbed
                        /\ r # None => Precise(r)
                        /\ \A e \in Epochs : view'[e] \in {None, view[e], Total(e, {})}
  PROVE  ExactInv'
<1>1. \A e : Total(e, {})' = Total(e, {})
  BY DEF Total, SumOf
<1>2. \A t : Precise(t)' <=> Precise(t)
  BY <1>1 DEF Precise, Founded
<1>3. \A j \in Tasks : task'[j] = IF j = k THEN r ELSE task[j]
  BY DEF WindowInv, Shaped
<1>4. ASSUME ~disturbed', NEW e \in Epochs, view'[e] # None
      PROVE  view'[e] = Total(e, {})'
  BY <1>1, <1>4 DEF ExactInv, ViewsAreExact
<1>5. ASSUME ~disturbed', NEW j \in Running'
      PROVE  Precise(task'[j])
  <2>1. j \in Tasks /\ task'[j] # None
    BY DEF Running
  <2>2. QED
    BY <1>3, <1>5, <2>1 DEF ExactInv, Running
<1>6. ASSUME ~disturbed', NEW j \in Running'
      PROVE  Precise(task[j])'
  BY <1>1, <1>5, <1>6 DEF Precise, Founded
<1>7. QED
  BY <1>4, <1>6 DEF ExactInv, ViewsAreExact

LEMMA ExactKept ==
  ASSUME WindowInv, ExactInv, [Next]_vars
  PROVE  ExactInv'
<1>data. data \subseteq Epochs /\ First \in Epochs
  BY WindowAssumption DEF WindowInv, TypeOK, WindowAssumption
<1>own. ASSUME NEW k \in Running
        PROVE  task[k] \in TaskRecords /\ Sound(task[k]) /\ (~disturbed => Precise(task[k]))
  BY ShapeTypes DEF WindowInv, ExactInv
<1>1. ASSUME NEW e \in Epochs, Appear(e)
      PROVE  ExactInv'
  <2>1. Arrive({e}) /\ view' = view /\ task' = task
    BY <1>1 DEF Appear
  <2>2. QED
    BY <1>data, <2>1, ArriveKeeps, SurroundingsExact
<1>2. ASSUME NEW e \in Epochs, NEW k \in Tasks, Deliver(e, k)
      PROVE  ExactInv'
  <2> DEFINE r == [epoch |-> e, at |-> "check", last |-> 0, cached |-> None, total |-> None]
  <2>1. Arrive({e}) /\ view' = view /\ task' = [task EXCEPT ![k] = r] /\ task[k] = None
    BY <1>2 DEF Deliver
  <2>2. \A j \in Tasks : task'[j] = IF j = k THEN r ELSE task[j]
    BY <2>1 DEF WindowInv, Shaped
  <2>3. ~disturbed' => ~disturbed /\ \A x \in Epochs : Weighed(x) => Total(x, {})' = Total(x, {})
    BY <1>data, <2>1, ArriveKeeps
  <2>4. ASSUME ~disturbed', NEW x \in Epochs, view'[x] # None
        PROVE  view'[x] = Total(x, {})'
    BY <2>1, <2>3, <2>4, WeighedEpochs DEF ExactInv, ViewsAreExact
  <2>5. ASSUME ~disturbed', NEW j \in Running'
        PROVE  Precise(task[j])'
    <3>1. j \in Tasks /\ task'[j] # None
      BY DEF Running
    <3>2. CASE j = k
      <4>1. task'[j].at = "check"
        BY <2>2, <3>1, <3>2
      <4>2. QED
        BY <4>1 DEF Precise, Founded
    <3>3. CASE j # k
      <4>1. j \in Running /\ task'[j] = task[j] /\ Precise(task[j])
        BY <2>2, <2>3, <2>5, <3>1, <3>3 DEF Running, ExactInv
      <4>2. task[j].at = "fetch" /\ task[j].cached # None =>
                Total(task[j].last, {})' = Total(task[j].last, {})
        BY <2>3, <2>5, <4>1, WeighedEpochs, Referred DEF Founded
      <4>3. task[j].at = "write" => Total(task[j].epoch, {})' = Total(task[j].epoch, {})
        BY <2>3, <2>5, <4>1, WeighedEpochs, Referred
      <4>4. QED
        BY <4>1, <4>2, <4>3 DEF Precise, Founded
    <3>4. QED
      BY <3>2, <3>3
  <2>6. QED
    BY <2>4, <2>5 DEF ExactInv, ViewsAreExact
<1>3. ASSUME NEW e \in Epochs, Seed(e)
      PROVE  ExactInv'
  <2>1. Arrive(First..e) /\ task' = task /\ First <= e
        /\ view' = [view EXCEPT ![e] = SumFunctionOnSet(Value, TailOf(e)..e)]
    BY <1>3 DEF Seed
  <2>2. First \in Int /\ TailOf(e) \in Int /\ e \in Int /\ 1 <= First /\ First <= TailOf(e)
        /\ e <= MaxEpoch /\ MaxEpoch \in Nat
    <3>1. First \in Int /\ TailOf(e) \in Int /\ e \in Int /\ 1 <= First /\ First <= TailOf(e)
      BY Tails
    <3>2. MaxEpoch \in Nat /\ e <= MaxEpoch
      BY WindowAssumption DEF Epochs, WindowAssumption
    <3>3. QED
      BY <3>1, <3>2
  <2>3. First..e \in SUBSET Epochs
    BY <2>2 DEF Epochs
  <2>4. data' = data \cup First..e
    BY <2>1 DEF Arrive
  <2>5. Larger(TailOf(e), First) = TailOf(e)
    BY Tails
  <2>6. {x \in data' \ {} : TailOf(e) <= x /\ x <= e} = TailOf(e)..e
    <3>1. \A x \in data' : x \in Int
      BY <1>data, <2>3, <2>4 DEF Epochs
    <3>2. \A x \in TailOf(e)..e : x \in data' /\ TailOf(e) <= x /\ x <= e
      BY <2>2, <2>4
    <3>3. \A x \in data' : TailOf(e) <= x /\ x <= e => x \in TailOf(e)..e
      BY <2>2, <3>1
    <3>4. QED
      BY <3>2, <3>3
  <2>7. Total(e, {})' = SumFunctionOnSet(Value, {x \in data' \ {} : TailOf(e) <= x /\ x <= e})
    <3>1. Total(e, {})' =
              SumFunctionOnSet(Value, {x \in data' \ {} : Larger(TailOf(e), First) <= x /\ x <= e})
      BY Zenon DEF Total, SumOf, TailOf, Larger
    <3>2. QED
      BY <2>5, <3>1, Zenon
  <2>8. Total(e, {})' = SumFunctionOnSet(Value, TailOf(e)..e)
    BY <2>6, <2>7, Zenon
  <2>9. \A x \in Epochs : view'[x] \in {view[x], Total(x, {})'}
    BY <2>1, <2>8 DEF WindowInv, TypeOK
  <2>10. QED
    BY <1>data, <2>1, <2>3, <2>9, ArriveKeeps, SurroundingsExact
<1>quiet. ASSUME data' = data
          PROVE  \A e : Total(e, {})' = Total(e, {})
  BY <1>quiet DEF Total, SumOf
<1>4. CASE FlagExpires
  BY <1>4, <1>quiet, SurroundingsExact DEF FlagExpires
<1>5. ASSUME NEW e \in Epochs, ViewExpires(e)
      PROVE  ExactInv'
  <2>1. \A x \in Epochs : view'[x] \in {None, view[x]}
    BY <1>5 DEF ViewExpires, WindowInv, TypeOK
  <2>2. QED
    BY <1>5, <1>quiet, <2>1, SurroundingsExact DEF ViewExpires
<1>6. CASE LatestExpires
  BY <1>6, <1>quiet, SurroundingsExact DEF LatestExpires
<1>7. ASSUME NEW k \in Tasks, Fail(k)
      PROVE  ExactInv'
  BY <1>7, TaskExact DEF Fail, End
<1>8. ASSUME NEW k \in Tasks, CheckFlag(k)
      PROVE  ExactInv'
  <2> DEFINE r == IF flag THEN None ELSE [task[k] EXCEPT !.at = "flag"]
  <2>1. /\ k \in Running /\ task[k].at = "check"
        /\ task' = [task EXCEPT ![k] = r]
        /\ UNCHANGED <<view, data, disturbed>>
    BY <1>8 DEF CheckFlag, End, Goto, At
  <2>2. r # None => Precise(r)
    BY <1>own, <2>1 DEF TaskRecords, Precise, Founded
  <2> HIDE DEF r
  <2>3. QED
    BY <2>1, <2>2, TaskExact
<1>9. ASSUME NEW k \in Tasks, SetFlag(k)
      PROVE  ExactInv'
  <2> DEFINE r == [task[k] EXCEPT !.at = "latest"]
  <2>1. /\ k \in Running /\ task[k].at = "flag"
        /\ task' = [task EXCEPT ![k] = r]
        /\ UNCHANGED <<view, data, disturbed>>
    BY <1>9 DEF SetFlag, Goto, At
  <2>2. Precise(r)
    BY <1>own, <2>1 DEF TaskRecords, Precise, Founded
  <2> HIDE DEF r
  <2>3. QED
    BY <2>1, <2>2, TaskExact
<1>10. ASSUME NEW k \in Tasks, ReadLatest(k)
       PROVE  ExactInv'
  <2> DEFINE c == [task[k] EXCEPT !.last = latest, !.at = "cached"]
             f == [task[k] EXCEPT !.last = latest, !.at = "fetch"]
  <2>1. \/ task' = [task EXCEPT ![k] = c]
        \/ task' = [task EXCEPT ![k] = f]
        \/ task' = [task EXCEPT ![k] = None]
    BY <1>10 DEF ReadLatest, End
  <2>2. /\ k \in Running /\ task[k].at = "latest"
        /\ UNCHANGED <<view, data>>
        /\ disturbed' = (disturbed \/ latest > task[k].epoch)
    BY <1>10 DEF ReadLatest, At
  <2>3. task[k].cached = None
    BY <1>own, <2>2 DEF Sound
  <2>4. ~disturbed' => ~disturbed /\ ~(latest > task[k].epoch)
    BY <2>2
  <2>5. ~disturbed' => Precise(c) /\ Precise(f)
    <3>1. latest \in Int /\ task[k].epoch \in Int
      BY <2>2, Referred, WindowAssumption DEF WindowInv, TypeOK, Epochs, WindowAssumption
    <3>2. c.last = latest /\ c.at = "cached" /\ c.epoch = task[k].epoch
          /\ f.cached = None /\ f.at = "fetch"
      BY <1>own, <2>2, <2>3 DEF TaskRecords
    <3> HIDE DEF c, f
    <3>3. QED
      BY <2>4, <3>1, <3>2 DEF Precise, Founded
  <2> HIDE DEF c, f
  <2>6. QED
    BY <2>1, <2>2, <2>4, <2>5, TaskExact
<1>11. ASSUME NEW k \in Tasks, ReadCached(k)
       PROVE  ExactInv'
  <2> DEFINE cached == view[task[k].last]
             r == [task[k] EXCEPT !.cached = cached, !.at = "fetch"]
  <2>1. \/ task' = [task EXCEPT ![k] = r]
        \/ task' = [task EXCEPT ![k] = None]
    BY <1>11 DEF ReadCached, End
  <2>2. /\ k \in Running /\ task[k].at = "cached"
        /\ UNCHANGED <<view, data, disturbed>>
    BY <1>11 DEF ReadCached, At
  <2>3. task[k].last \in Epochs
    BY <2>2, Referred DEF Founded
  <2>4. ~disturbed => Precise(r)
    <3>1. r.cached = cached /\ r.at = "fetch" /\ r.last = task[k].last /\ r.epoch = task[k].epoch
      BY <1>own, <2>2 DEF TaskRecords
    <3>2. ~disturbed => task[k].last <= task[k].epoch
      BY <1>own, <2>2 DEF Precise, Founded
    <3>3. ~disturbed /\ cached # None => cached = Total(task[k].last, {})
      BY <2>3 DEF ExactInv, ViewsAreExact
    <3> HIDE DEF r, cached
    <3>4. QED
      BY <3>1, <3>2, <3>3 DEF Precise, Founded
  <2> HIDE DEF r
  <2>5. QED
    BY <2>1, <2>2, <2>4, TaskExact
<1>12. ASSUME NEW k \in Tasks, Fetch(k)
       PROVE  ExactInv'
  <2>1. k \in Running /\ task[k].at = "fetch" /\ UNCHANGED <<view, data>>
    BY <1>12 DEF Fetch, At
  <2>2. PICK gone \in {{}, {task[k].epoch}} :
          /\ task' = [task EXCEPT ![k].total = IF task[k].cached = None
                                                 THEN Total(task[k].epoch, gone)
                                                 ELSE Update(task[k], gone),
                                  ![k].at = "write"]
          /\ disturbed' = (disturbed \/ gone # {})
    BY <1>12 DEF Fetch
  <2> DEFINE total == IF task[k].cached = None THEN Total(task[k].epoch, gone)
                      ELSE Update(task[k], gone)
             r == [task[k] EXCEPT !.total = total, !.at = "write"]
  <2>3. task' = [task EXCEPT ![k] = r]
    BY <2>2
  <2>4. ~disturbed' => ~disturbed /\ gone = {}
    BY <2>2
  <2>5. ASSUME ~disturbed', task[k].cached # None
        PROVE  Update(task[k], gone) = Total(task[k].epoch, {})
    <3> DEFINE e == task[k].epoch
               d == task[k].last
    <3>1. d \in Epochs /\ e \in Epochs
      BY <2>1, <2>5, Referred DEF Founded
    <3>2. TailOf(e) < d /\ d <= e /\ task[k].cached = Total(d, {})
      BY <1>own, <2>1, <2>4, <2>5 DEF Sound, Precise, Founded
    <3>3. (Total(d, {}) + SumOf(d + 1, e, {})) - SumOf(TailOf(e) - (e - d), TailOf(e) - 1, {})
              = Total(e, {})
      BY <1>data, <3>1, <3>2, WindowMoves
    <3>4. Total(e, {}) \in Nat
      BY <1>data, SumOfIsNat DEF Total
    <3>5. Larger(Total(e, {}), 0) = Total(e, {})
      BY <3>4 DEF Larger
    <3>6. QED
      BY <2>4, <2>5, <3>2, <3>3, <3>5 DEF Update
  <2>6. ~disturbed' => total = Total(task[k].epoch, {})
    BY <2>4, <2>5
  <2> HIDE DEF total
  <2>7. ~disturbed' => Precise(r)
    <3>1. r.total = total /\ r.at = "write" /\ r.epoch = task[k].epoch
      BY <1>own, <2>1 DEF TaskRecords
    <3> HIDE DEF r
    <3>2. QED
      BY <2>6, <3>1 DEF Precise, Founded
  <2> HIDE DEF r
  <2>8. QED
    BY <2>1, <2>3, <2>4, <2>7, TaskExact
<1>13. ASSUME NEW k \in Tasks, Write(k)
       PROVE  ExactInv'
  <2>1. /\ k \in Running /\ task[k].at = "write"
        /\ task' = [task EXCEPT ![k] = None]
        /\ UNCHANGED <<data, disturbed>>
    BY <1>13 DEF Write, At, End
  <2>2. \A e \in Epochs : \/ view'[e] \in {None, view[e]}
                          \/ e = task[k].epoch /\ view'[e] = task[k].total
    BY <1>13 DEF Write
  <2>3. ~disturbed => task[k].total = Total(task[k].epoch, {})
    BY <1>own, <2>1 DEF Precise
  <2>4. QED
    BY <2>1, <2>2, <2>3, TaskExact
<1>14. CASE UNCHANGED vars
  BY <1>14, <1>quiet, SurroundingsExact DEF vars
<1>15. QED
  BY <1>1, <1>2, <1>3, <1>4, <1>5, <1>6, <1>7, <1>8, <1>9, <1>10, <1>11, <1>12, <1>13,
     <1>14 DEF Next

-----------------------------------------------------------------------------
(* Theorems                                                                *)

LEMMA WindowHolds == Spec => [](WindowInv /\ ExactInv)
<1>1. WindowInv /\ ExactInv /\ [Next]_vars => (WindowInv /\ ExactInv)'
  BY InvKept, ExactKept
<1>2. QED
  BY <1>1, InitInv, PTL DEF Spec

\* Every variable keeps its type; a volume never becomes negative, whatever
\* tasks overlap, repeat or start from a view of a later epoch.
THEOREM TypeCorrect == Spec => []TypeOK
<1>1. WindowInv => TypeOK
  BY DEF WindowInv
<1>2. QED
  BY <1>1, WindowHolds, PTL

\* A view that was updated epoch by epoch is the sum over its window, for any
\* window, values and number of tasks, until one of the named events happens.
THEOREM ViewsCorrect == Spec => []ViewsAreExact
<1>1. ExactInv => ViewsAreExact
  BY DEF ExactInv
<1>2. QED
  BY <1>1, WindowHolds, PTL

===============================================================================
