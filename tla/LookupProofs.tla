----------------------------- MODULE LookupProofs -----------------------------
(***************************************************************************)
(* Theorems of the lookups, for any chain of blocks, any sizes of epochs   *)
(* and batches, and any number of requests.                                *)
(*                                                                         *)
(* What has to be known of data, that a list of pairs can be sorted, how   *)
(* the epochs of a time series go down, that a closest block exists, comes *)
(* from minimal counterexamples in a well-founded order (WFMin).           *)
(***************************************************************************)
EXTENDS Lookup, FiniteSetTheorems, WellFoundedInduction, TLAPS

-----------------------------------------------------------------------------
(* Ends of sets of numbers                                                 *)

LEMMA LeastOfNat ==
  ASSUME NEW S \in SUBSET Nat, S # {}
  PROVE  \E x \in S : \A y \in S : x <= y
<1> DEFINE Earlier == {ss \in Nat \X Nat : ss[1] < ss[2]}
<1>1. IsWellFoundedOn(Earlier, Nat)
  BY NatLessThanWellFounded, Zenon DEF OpToRel
<1> HIDE DEF Earlier
<1>2. PICK x \in S : \A y \in S : ~ (<<y, x>> \in Earlier)
  BY <1>1, WFMin, Zenon
<1>3. \A y \in S : y < x => <<y, x>> \in Earlier
  BY DEF Earlier
<1>4. \A y \in S : ~ (y < x)
  BY <1>2, <1>3
<1>5. QED
  BY <1>4

LEMMA GreatestOfNat ==
  ASSUME NEW S \in SUBSET Nat, S # {}, NEW n \in Nat, \A s \in S : s <= n
  PROVE  \E x \in S : \A y \in S : y <= x
<1> DEFINE M == {m \in Nat : \A s \in S : s <= m}
<1>1. PICK m \in M : \A k \in M : m <= k
  BY LeastOfNat
<1>2. CASE m \in S
  BY <1>1, <1>2
<1>3. CASE m \notin S
  <2>1. PICK s \in S : TRUE
    OBVIOUS
  <2>2. \A y \in S : y < m
    BY <1>1, <1>3
  <2>3. m - 1 \in M
    BY <1>1, <2>1, <2>2
  <2>4. QED
    BY <1>1, <2>3
<1>4. QED
  BY <1>2, <1>3

LEMMA LeastIn ==
  ASSUME NEW S \in SUBSET Nat, S # {}
  PROVE  Least(S) \in S /\ \A y \in S : Least(S) <= y
  BY LeastOfNat DEF Least

LEMMA GreatestIn ==
  ASSUME NEW S \in SUBSET Nat, S # {}, NEW n \in Nat, \A s \in S : s <= n
  PROVE  Greatest(S) \in S /\ \A y \in S : y <= Greatest(S)
  BY GreatestOfNat DEF Greatest

-----------------------------------------------------------------------------
(* Sorted lists                                                            *)

\* Numbers that only go up go up by as much as their places do.
LEMMA Climbs ==
  ASSUME NEW n \in Nat, NEW f \in [1..n -> Int],
         \A i, j \in 1..n : i < j => f[i] < f[j]
  PROVE  \A i, j \in 1..n : i <= j => f[j] - f[i] >= j - i
<1> SUFFICES ASSUME NEW i \in 1..n
             PROVE  \A j \in 1..n : i <= j => f[j] - f[i] >= j - i
  OBVIOUS
<1> DEFINE Bad == {j \in 1..n : i <= j /\ ~ (f[j] - f[i] >= j - i)}
<1>1. CASE Bad # {}
  <2>0. Bad \in SUBSET Nat
    OBVIOUS
  <2>1. PICK j \in Bad : \A k \in Bad : j <= k
    BY <1>1, <2>0, LeastOfNat
  <2>2. j # i
    BY <2>1
  <2>3. j - 1 \in 1..n /\ j - 1 \notin Bad /\ i <= j - 1
    BY <2>1, <2>2
  <2>4. f[j - 1] < f[j] /\ f[j - 1] - f[i] >= (j - 1) - i
    BY <2>1, <2>3
  <2>5. f[j] \in Int /\ f[j - 1] \in Int /\ f[i] \in Int /\ i \in Int /\ j \in Int
    BY <2>1, <2>3
  <2>6. f[j] - f[i] >= j - i
    BY <2>4, <2>5
  <2>7. QED
    BY <2>1, <2>6
<1>2. QED
  BY <1>1

\* As many of them as an interval has are that interval, in its order.
LEMMA Consecutive ==
  ASSUME NEW n \in Nat, NEW a \in Int, NEW f \in [1..n -> Int],
         \A i \in 1..n : a <= f[i] /\ f[i] < a + n,
         \A i, j \in 1..n : i < j => f[i] < f[j]
  PROVE  \A i \in 1..n : f[i] = a + i - 1
<1>0. \A i, j \in 1..n : i <= j => f[j] - f[i] >= j - i
  BY Climbs
<1> SUFFICES ASSUME NEW i \in 1..n PROVE f[i] = a + i - 1
  OBVIOUS
<1>1. f[i] - f[1] >= i - 1 /\ f[n] - f[i] >= n - i
  BY <1>0
<1>2. f[1] \in Int /\ f[i] \in Int /\ f[n] \in Int /\ i \in Int
  OBVIOUS
<1>3. a <= f[1] /\ f[n] < a + n
  OBVIOUS
<1>4. QED
  BY <1>1, <1>2, <1>3

\* Pairs that can be sorted.
Sortable(pairs) == pairs \subseteq (0..MaxEpoch) \X Epochs

Sorts(s, pairs) ==
    /\ s \in [1..Cardinality(pairs) -> pairs]
    /\ \A i, j \in DOMAIN s : i < j => Before(s[i], s[j])

\* Before is a strict total order of pairs.
LEMMA BeforeOrders ==
  ASSUME NEW p \in Int \X Int, NEW q \in Int \X Int, NEW r \in Int \X Int
  PROVE  /\ ~ Before(p, p)
         /\ Before(p, q) /\ Before(q, r) => Before(p, r)
         /\ Before(p, q) \/ p = q \/ Before(q, p)
  BY DEF Before

LEMMA SortableFinite ==
  ASSUME NEW P, Sortable(P)
  PROVE  IsFiniteSet(P) /\ Cardinality(P) \in Nat /\ P \subseteq Int \X Int
<1>1. MaxEpoch \in Nat
  BY LookupAssumption DEF LookupAssumption
<1>2. IsFiniteSet(0..MaxEpoch) /\ IsFiniteSet(Epochs)
  BY <1>1, FS_Interval DEF Epochs
<1>3. IsFiniteSet((0..MaxEpoch) \X Epochs)
  BY <1>2, FS_Product
<1>4. IsFiniteSet(P)
  BY <1>3, FS_Subset DEF Sortable
<1>5. P \subseteq Int \X Int
  BY DEF Sortable, Epochs
<1>6. QED
  BY <1>4, <1>5, FS_CardinalityType

LEMMA LastPair ==
  ASSUME NEW P, Sortable(P), P # {}
  PROVE  \E q \in P : \A p \in P \ {q} : Before(p, q)
<1>1. MaxEpoch \in Nat
  BY LookupAssumption DEF LookupAssumption
<1> DEFINE M == {p[2] : p \in P}
<1>2. M \in SUBSET Nat /\ M # {} /\ \A e \in M : e <= MaxEpoch
  BY DEF Sortable, Epochs
<1>3. PICK e \in M : \A d \in M : d <= e
  BY <1>1, <1>2, GreatestOfNat
<1> DEFINE N == {p[1] : p \in {x \in P : x[2] = e}}
<1>4. N \in SUBSET Nat /\ N # {} /\ \A c \in N : c <= MaxEpoch
  BY <1>3 DEF Sortable
<1>5. PICK c \in N : \A d \in N : d <= c
  BY <1>1, <1>4, GreatestOfNat
<1>6. PICK q \in P : q[2] = e /\ q[1] = c
  BY <1>5
<1>7. ASSUME NEW p \in P \ {q}
      PROVE  Before(p, q)
  <2>1. p \in (0..MaxEpoch) \X Epochs /\ q \in (0..MaxEpoch) \X Epochs
    BY <1>6 DEF Sortable
  <2>2. p[2] <= e /\ (p[2] = e => p[1] <= c)
    BY <1>3, <1>5
  <2>3. p[2] # e \/ p[1] # c
    BY <1>6, <2>1
  <2>4. p[1] \in Int /\ p[2] \in Int /\ c \in Int /\ e \in Int
    BY <1>6, <2>1 DEF Epochs
  <2>5. QED
    BY <1>6, <2>2, <2>3, <2>4 DEF Before
<1>8. QED
  BY <1>6, <1>7

LEMMA SortExtends ==
  ASSUME NEW P, Sortable(P), NEW q \in P, \A p \in P \ {q} : Before(p, q),
         NEW s, Sorts(s, P \ {q})
  PROVE  \E t : Sorts(t, P)
<1> DEFINE n == Cardinality(P \ {q})
           t == [i \in 1..(n + 1) |-> IF i = n + 1 THEN q ELSE s[i]]
<1>1. n \in Nat /\ Cardinality(P) = n + 1
  <2>1. IsFiniteSet(P) /\ Cardinality(P) \in Nat
    BY SortableFinite
  <2>2. Cardinality(P \ {q}) = Cardinality(P) - 1 /\ IsFiniteSet(P \ {q})
    BY <2>1, FS_RemoveElement
  <2>3. n \in Nat
    BY <2>2, FS_CardinalityType
  <2>4. QED
    BY <2>1, <2>2, <2>3
<1>2. s \in [1..n -> P \ {q}] /\ \A i, j \in 1..n : i < j => Before(s[i], s[j])
  BY DEF Sorts
<1> HIDE DEF n
<1>3. \A i \in 1..n : s[i] \in P /\ Before(s[i], q)
  BY <1>2
<1>4. t \in [1..(n + 1) -> P]
  BY <1>1, <1>3
<1>5. ASSUME NEW i \in 1..(n + 1), NEW j \in 1..(n + 1), i < j
      PROVE  Before(t[i], t[j])
  <2>1. i \in 1..n /\ t[i] = s[i]
    BY <1>1, <1>5
  <2>2. CASE j = n + 1
    BY <2>1, <2>2, <1>3
  <2>3. CASE j # n + 1
    <3>1. j \in 1..n /\ t[j] = s[j]
      BY <1>1, <2>3
    <3>2. QED
      BY <1>2, <1>5, <2>1, <3>1
  <2>4. QED
    BY <2>2, <2>3
<1> HIDE DEF t
<1>6. DOMAIN t = 1..(n + 1)
  BY <1>4
<1>7. Sorts(t, P)
  BY <1>1, <1>4, <1>5, <1>6 DEF Sorts
<1>8. QED
  BY <1>7

LEMMA SortExists ==
  ASSUME NEW P, Sortable(P)
  PROVE  \E s : Sorts(s, P)
<1> DEFINE Bad == {S \in SUBSET P : ~ \E s : Sorts(s, S)}
<1>1. IsFiniteSet(P)
  BY SortableFinite
<1>2. Bad \subseteq FiniteSubsetsOf(P)
  BY <1>1, FS_Subset DEF FiniteSubsetsOf
<1>3. CASE Bad # {}
  <2>1. PICK S \in Bad : \A R \in Bad : ~ (<<R, S>> \in StrictSubsetOrdering(P))
    BY <1>2, <1>3, FS_StrictSubsetOrderingWellFounded, WFMin, Zenon
  <2>2. Sortable(S)
    BY <2>1 DEF Sortable
  <2>3. S # {}
    <3>1. SUFFICES ASSUME S = {} PROVE \E s : Sorts(s, S)
      BY <2>1
    <3>2. Cardinality(S) = 0
      BY <3>1, FS_EmptySet
    <3>3. Sorts(<<>>, S)
      BY <3>1, <3>2 DEF Sorts
    <3>4. QED
      BY <3>3
  <2>4. PICK q \in S : \A p \in S \ {q} : Before(p, q)
    BY <2>2, <2>3, LastPair
  <2>5. <<S \ {q}, S>> \in StrictSubsetOrdering(P)
    BY <2>1, <2>4 DEF StrictSubsetOrdering
  <2>6. PICK s : Sorts(s, S \ {q})
    BY <2>1, <2>5
  <2>7. QED
    BY <2>1, <2>2, <2>4, <2>6, SortExtends
<1>4. QED
  BY <1>3

\* A sorted list has each of its pairs once.
Enumerated(s, pairs) ==
  LET n == Cardinality(pairs)
  IN /\ n \in Nat
     /\ s \in [1..n -> pairs]
     /\ \A i, j \in 1..n : (i < j => Before(s[i], s[j])) /\ (s[i] = s[j] => i = j)
     /\ {s[i] : i \in 1..n} = pairs

LEMMA Enumerates ==
  ASSUME NEW P, Sortable(P), NEW s, Sorts(s, P)
  PROVE  Enumerated(s, P)
<1> DEFINE n == Cardinality(P)
<1>1. IsFiniteSet(P) /\ n \in Nat /\ P \subseteq Int \X Int
  BY SortableFinite
<1>2. s \in [1..n -> P] /\ \A i, j \in 1..n : i < j => Before(s[i], s[j])
  BY DEF Sorts
<1>3. Cardinality(1..n) = n
  <2> HIDE DEF n
  <2>1. QED
    BY <1>1, FS_Interval
<1> HIDE DEF n
<1>4. \A i, j \in 1..n : s[i] = s[j] => i = j
  <2> SUFFICES ASSUME NEW i \in 1..n, NEW j \in 1..n, s[i] = s[j]
               PROVE  i = j
    OBVIOUS
  <2>1. s[i] \in Int \X Int
    BY <1>1, <1>2
  <2>2. ~ Before(s[i], s[i])
    BY <2>1, BeforeOrders
  <2>3. ~ (i < j) /\ ~ (j < i)
    BY <1>2, <2>2, Zenon
  <2>4. QED
    BY <1>1, <2>3
<1>5. s \in Injection(1..n, P)
  BY <1>2, <1>4 DEF Injection, IsInjective
<1>6. s \in Surjection(1..n, P)
  BY <1>1, <1>3, <1>5, FS_Injection DEF n
<1>7. \A p \in P : \E i \in 1..n : s[i] = p
  BY <1>6 DEF Surjection
<1>8. {s[i] : i \in 1..n} = P
  BY <1>2, <1>7
<1>9. QED
  BY <1>1, <1>2, <1>4, <1>8 DEF n, Enumerated

\* Of a pair, as many are before it as its place says.
LEMMA InOrderSorts ==
  ASSUME NEW P, Sortable(P)
  PROVE  Sorts(InOrder(P), P)
<1> DEFINE n == Cardinality(P)
           earlier(p) == {q \in P : Before(q, p)}
<1>1. PICK s : Sorts(s, P)
  BY SortExists
<1>2. /\ n \in Nat /\ s \in [1..n -> P]
      /\ \A i, j \in 1..n : (i < j => Before(s[i], s[j])) /\ (s[i] = s[j] => i = j)
      /\ {s[i] : i \in 1..n} = P
  <2>1. Enumerated(s, P)
    BY <1>1, Enumerates
  <2>2. QED
    BY <2>1 DEF Enumerated
<1>3. IsFiniteSet(P) /\ P \subseteq Int \X Int
  BY SortableFinite
<1> HIDE DEF n
<1>4. ASSUME NEW i \in 1..n
      PROVE  Cardinality(earlier(s[i])) = i - 1
  <2> DEFINE f == [j \in 1..(i - 1) |-> s[j]]
  <2>1. \A j \in 1..n : Before(s[j], s[i]) => j < i
    <3> SUFFICES ASSUME NEW j \in 1..n, Before(s[j], s[i]) PROVE j < i
      OBVIOUS
    <3>1. s[i] \in Int \X Int /\ s[j] \in Int \X Int
      BY <1>2, <1>3
    <3>2. i # j /\ ~ Before(s[i], s[j])
      BY <3>1, BeforeOrders
    <3>3. ~ (i < j)
      BY <1>2, <3>2
    <3>4. QED
      BY <1>2, <3>2, <3>3
  <2>2. 1..(i - 1) \subseteq 1..n
    BY <1>2
  <2>3. f \in [1..(i - 1) -> earlier(s[i])]
    <3>1. ASSUME NEW j \in 1..(i - 1) PROVE s[j] \in earlier(s[i])
      BY <1>2, <2>2
    <3>2. QED
      BY <3>1
  <2>4. \A j, k \in 1..(i - 1) : f[j] = f[k] => j = k
    BY <1>2, <2>2
  <2>5. \A p \in earlier(s[i]) : \E j \in 1..(i - 1) : f[j] = p
    <3> SUFFICES ASSUME NEW p \in P, Before(p, s[i])
                 PROVE  \E j \in 1..(i - 1) : s[j] = p
      OBVIOUS
    <3>1. PICK j \in 1..n : s[j] = p
      BY <1>2
    <3>2. j < i
      BY <2>1, <3>1
    <3>3. j \in 1..(i - 1)
      BY <1>2, <3>2
    <3>4. QED
      BY <3>1, <3>3
  <2> HIDE DEF f
  <2>6. f \in Bijection(1..(i - 1), earlier(s[i]))
    BY <2>3, <2>4, <2>5 DEF Bijection, Injection, Surjection, IsInjective
  <2>7. ExistsBijection(1..(i - 1), earlier(s[i]))
    BY <2>6, Zenon DEF ExistsBijection
  <2>8. IsFiniteSet(1..(i - 1)) /\ Cardinality(1..(i - 1)) = i - 1
    BY <1>2, FS_Interval
  <2> HIDE DEF earlier
  <2>9. QED
    BY <2>7, <2>8, FS_Bijection
<1> HIDE DEF earlier
<1>5. ASSUME NEW i \in 1..n
      PROVE  (CHOOSE p \in P : Cardinality(earlier(p)) = i - 1) = s[i]
  <2>1. s[i] \in P /\ Cardinality(earlier(s[i])) = i - 1
    BY <1>2, <1>4
  <2>2. \A p \in P : Cardinality(earlier(p)) = i - 1 => p = s[i]
    <3> SUFFICES ASSUME NEW p \in P, Cardinality(earlier(p)) = i - 1 PROVE p = s[i]
      OBVIOUS
    <3>1. PICK j \in 1..n : s[j] = p
      BY <1>2
    <3>2. j - 1 = i - 1
      BY <1>4, <3>1
    <3>3. j = i
      BY <1>2, <3>2
    <3>4. QED
      BY <3>1, <3>3
  <2>3. QED
    BY <2>1, <2>2
<1>6. InOrder(P) = [i \in 1..n |-> CHOOSE p \in P : Cardinality(earlier(p)) = i - 1]
  BY DEF InOrder, n, earlier
<1>7. InOrder(P) = [i \in 1..n |-> s[i]]
  BY <1>5, <1>6, Zenon
<1>8. InOrder(P) = s
  BY <1>2, <1>7
<1>9. QED
  BY <1>1, <1>8

-----------------------------------------------------------------------------
(* Epochs and types                                                        *)

LEMMA Numbers ==
  /\ MaxEpoch \in Nat /\ MaxEpoch > 0
  /\ MaxRequests \in Nat
  /\ EpochSize \in Nat /\ EpochSize > 0
  /\ BlockTime \in Nat
  /\ Reach \in Nat
  /\ Times \subseteq Nat
  /\ \A step \in Spans : step \in Nat /\ step > 0
<1>1. Scale \in Nat /\ Scale > 0 /\ RawBlockTime \in Nat
  BY LookupAssumption DEF LookupAssumption
<1>2. BlockTime \in Nat
  BY <1>1 DEF BlockTime
<1>3. QED
  BY <1>2, LookupAssumption DEF LookupAssumption

LEMMA FirstTyped ==
  ASSUME TypeOK
  PROVE  First \in 0..MaxEpoch
<1>1. CASE final = {}
  BY <1>1, Numbers DEF First
<1>2. CASE final # {}
  <2>1. final \in SUBSET Nat
    BY DEF TypeOK, Epochs
  <2>2. Least(final) \in final
    BY <1>2, <2>1, LeastIn
  <2>3. First = Least(final)
    BY <1>2 DEF First
  <2>4. First \in 1..MaxEpoch
    BY <2>2, <2>3 DEF TypeOK, Epochs
  <2>5. QED
    BY <2>4
<1>3. QED
  BY <1>1, <1>2

LEMMA LastTyped ==
  ASSUME TypeOK
  PROVE  LastFinal \in 0..MaxEpoch /\ LastFinalized \in 0..MaxEpoch
                                   /\ MaxWithData \in 0..MaxEpoch
<1>1. LastFinal \in 0..MaxEpoch
  <2>1. CASE final = {}
    BY <2>1, Numbers DEF LastFinal
  <2>2. CASE final # {}
    <3>1. final \in SUBSET Nat /\ \A e \in final : e <= MaxEpoch
      BY DEF TypeOK, Epochs
    <3>2. Greatest(final) \in final
      BY <2>2, <3>1, Numbers, GreatestIn
    <3>3. LastFinal = Greatest(final)
      BY <2>2 DEF LastFinal
    <3>4. LastFinal \in 1..MaxEpoch
      BY <3>2, <3>3 DEF TypeOK, Epochs
    <3>5. QED
      BY <3>4
  <2>3. QED
    BY <2>1, <2>2
<1>2. LastFinalized \in 0..MaxEpoch
  BY <1>1 DEF LastFinalized, TypeOK
<1>3. MaxWithData \in 0..MaxEpoch
  BY <1>2 DEF MaxWithData, Larger, TypeOK
<1>4. QED
  BY <1>1, <1>2, <1>3

LEMMA InitTyped == Init => TypeOK
  BY Numbers DEF Init, TypeOK, Nothing

\* What a request leaves of what it was asked.
LEMMA ServeTyped ==
  ASSUME TypeOK, NEW r, NEW a, Serve(r, a),
         r.kind \in {"none", "bulk", "epoch", "nearby", "latest", "series",
                     "closest", "fallback"},
         entries' \in SUBSET Epochs, blank' \in SUBSET Epochs,
         pointer' \in 0..MaxEpoch, UNCHANGED submitted,
         cache' \in [Epochs -> {"none", "empty", "data"}], known' \in SUBSET Blocks
  PROVE  TypeOK'
  BY Numbers DEF Serve, TypeOK

LEMMA QuietTyped ==
  ASSUME TypeOK, Quiet,
         final' \in SUBSET Epochs, entries' \in SUBSET Epochs, blank' \in SUBSET Epochs,
         pointer' \in 0..MaxEpoch, submitted' \in 0..MaxEpoch, UNCHANGED known,
         cache' \in [Epochs -> {"none", "empty", "data"}]
  PROVE  TypeOK'
  BY DEF Quiet, Nothing, TypeOK

LEMMA AskingTyped ==
  ASSUME TypeOK, NEW es \in SUBSET (0..MaxEpoch), Asking(es)
  PROVE  entries' \in SUBSET Epochs /\ blank' \in SUBSET Epochs
<1>1. ASSUME NEW e \in Unknown(es)
      PROVE  e \in Epochs
  <2>1. e \in 0..MaxEpoch /\ First # 0 /\ First <= e
    BY DEF Unknown
  <2>2. First \in 0..MaxEpoch /\ MaxEpoch \in Nat
    BY FirstTyped, Numbers
  <2>3. QED
    BY <2>1, <2>2 DEF Epochs
<1>2. Unknown(es) \subseteq Epochs
  BY <1>1
<1>3. QED
  BY <1>2 DEF Asking, AskedOf, TypeOK

LEMMA WalkedTyped ==
  ASSUME TypeOK, NEW lo \in Epochs, NEW hi \in Epochs, NEW w \in Walks(lo, hi)
  PROVE  /\ w \in [Unknown(Ids(lo, hi)) -> Findings]
         /\ Ids(lo, hi) \subseteq Epochs
         /\ DOMAIN w \subseteq Epochs
<1>1. w \in [Unknown(Ids(lo, hi)) -> Findings]
  BY DEF Walks
<1>2. First \in 0..MaxEpoch /\ MaxWithData \in 0..MaxEpoch
  BY FirstTyped, LastTyped
<1>3. Ids(lo, hi) \subseteq Epochs
  BY <1>2, Numbers DEF Ids, Epochs, Larger, Smaller
<1>4. QED
  BY <1>1, <1>3 DEF Unknown

-----------------------------------------------------------------------------
(* Who answers                                                             *)

\* A step that answers a request of a kind is one that serves such a request.
LEMMA WhoAnswers ==
  ASSUME Next
  PROVE  /\ Answers("bulk") =>
                \E lo, hi \in Epochs : \E w \in Walks(lo, hi), complete \in BOOLEAN :
                    lo <= hi /\ SnapshotBulk(lo, hi, complete, w)
         /\ Answers("series") =>
                \E start, end \in Times, step \in Spans, e \in Epochs :
                    ReadSeries(start, end, step, e)
         /\ Answers("closest") => \E t \in Times : \E side : ReadClosest(t, side)
         /\ Answers("fallback") =>
                \E t \in Times : \E side, lost : ReadFallback(t, side, lost)
<1>1. ASSUME NEW e \in Epochs, Finalize(e) \/ Note(e) \/ Submit(e) \/ LeaveOut(e) \/ Expire(e) \/ CacheCid(e)
      PROVE  Answers("none")
  BY <1>1 DEF Finalize, Note, Submit, LeaveOut, Expire, CacheCid, Quiet, Nothing, Answers
<1>2. ASSUME NEW lo, NEW hi, NEW complete, NEW w, SnapshotBulk(lo, hi, complete, w)
      PROVE  Answers("bulk")
  BY <1>2 DEF SnapshotBulk, Serve, Answers
<1>3. ASSUME NEW e, NEW seek, NEW broken, ReadEpoch(e, seek, broken)
      PROVE  Answers("epoch")
  BY <1>3 DEF ReadEpoch, Serve, Answers
<1>4. ASSUME NEW e, NEW broken, ReadNearby(e, broken)
      PROVE  Answers("nearby")
  BY <1>4 DEF ReadNearby, Serve, Answers
<1>5. ASSUME NEW broken, ReadLatest(broken)
      PROVE  Answers("latest")
  BY <1>5 DEF ReadLatest, Serve, Answers
<1>6. ASSUME NEW start, NEW end, NEW step, NEW e, ReadSeries(start, end, step, e)
      PROVE  Answers("series")
  BY <1>6 DEF ReadSeries, Serve, Answers
<1>7. ASSUME NEW t, NEW side, ReadClosest(t, side)
      PROVE  Answers("closest")
  BY <1>7 DEF ReadClosest, Serve, Answers
<1>8. ASSUME NEW t, NEW side, NEW lost, ReadFallback(t, side, lost)
      PROVE  Answers("fallback")
  BY <1>8 DEF ReadFallback, Serve, Answers
<1>9. \A k, l : Answers(k) /\ Answers(l) => k = l
  BY DEF Answers
<1>10. CASE Answers("bulk")
  BY <1>1, <1>3, <1>4, <1>5, <1>6, <1>7, <1>8, <1>9, <1>10 DEF Next
<1>11. CASE Answers("series")
  BY <1>1, <1>2, <1>3, <1>4, <1>5, <1>7, <1>8, <1>9, <1>11 DEF Next
<1>12. CASE Answers("closest")
  BY <1>1, <1>2, <1>3, <1>4, <1>5, <1>6, <1>8, <1>9, <1>12 DEF Next
<1>13. CASE Answers("fallback")
  BY <1>1, <1>2, <1>3, <1>4, <1>5, <1>6, <1>7, <1>9, <1>13 DEF Next
<1>14. QED
  BY <1>9, <1>10, <1>11, <1>12, <1>13

-----------------------------------------------------------------------------
(* Blocks                                                                  *)

LEMMA StampTyped ==
  ASSUME NEW b \in Blocks
  PROVE  Stamp(b) \in Nat
  BY LookupAssumption DEF LookupAssumption, Blocks, Stamp

\* A closest block is on its side.
LEMMA ClosestSide ==
  ASSUME NEW S, NEW t, NEW side, NEW b \in Closest(S, t, side)
  PROVE  /\ b \in S
         /\ side = "before" => Stamp(b) <= t
         /\ side # "before" => Stamp(b) >= t
  BY DEF Closest

\* Whoever knows a closest block finds one of its time.
LEMMA ClosestSame ==
  ASSUME NEW S \in SUBSET Blocks, NEW t \in Nat, NEW side,
         NEW b \in Closest(Blocks, t, side), b \in S
  PROVE  /\ b \in Closest(S, t, side)
         /\ \A c \in Closest(S, t, side) :
                c \in Closest(Blocks, t, side) /\ Stamp(b) = Stamp(c)
<1>1. b \in Closest(S, t, side)
  BY DEF Closest
<1>2. ASSUME NEW c \in Closest(S, t, side)
      PROVE  c \in Closest(Blocks, t, side) /\ Stamp(b) = Stamp(c)
  <2>1. b \in Blocks /\ c \in Blocks
    BY <1>1, <1>2, ClosestSide
  <2>2. Stamp(b) \in Nat /\ Stamp(c) \in Nat
    BY <2>1, StampTyped
  <2>3. Stamp(b) = Stamp(c)
    BY <1>1, <1>2, <2>1, <2>2 DEF Closest
  <2>4. c \in Closest(Blocks, t, side)
    BY <1>2, <2>1, <2>3 DEF Closest
  <2>5. QED
    BY <2>3, <2>4
<1>3. QED
  BY <1>1, <1>2

\* If there is a block on a side, there is a closest one.
LEMMA ClosestExists ==
  ASSUME NEW t \in Nat, NEW side,
         NEW b \in Blocks, IF side = "before" THEN Stamp(b) <= t ELSE Stamp(b) >= t
  PROVE  Closest(Blocks, t, side) # {}
<1> DEFINE within == {c \in Blocks : IF side = "before" THEN Stamp(c) <= t ELSE Stamp(c) >= t}
           stamps == {Stamp(c) : c \in within}
<1>1. stamps \in SUBSET Nat /\ stamps # {}
  BY StampTyped
<1>2. CASE side = "before"
  <2>1. \A s \in stamps : s <= t
    BY <1>2
  <2>2. PICK s \in stamps : \A y \in stamps : y <= s
    BY <1>1, <2>1, GreatestOfNat
  <2>3. PICK c \in within : s = Stamp(c)
    BY <2>2
  <2>4. c \in Closest(Blocks, t, side)
    BY <1>2, <2>2, <2>3 DEF Closest
  <2>5. QED
    BY <2>4
<1>3. CASE side # "before"
  <2>1. PICK s \in stamps : \A y \in stamps : s <= y
    BY <1>1, LeastOfNat
  <2>2. PICK c \in within : s = Stamp(c)
    BY <2>1
  <2>3. c \in Closest(Blocks, t, side)
    BY <1>3, <2>1, <2>2 DEF Closest
  <2>4. QED
    BY <2>3
<1>4. QED
  BY <1>2, <1>3

LEMMA FallbackAnswers ==
  ASSUME TypeOK, NEW t \in Times, NEW side, NEW lost, ReadFallback(t, side, lost)
  PROVE  ClosestAnswer
<1> DEFINE now == Kept(FetchRange(t), lost)
           true == Closest(Blocks, t, side)
           range == (Estimate(t) - Reach)..(Estimate(t) + Reach)
<1>1. t \in Nat /\ now \in SUBSET Blocks
  BY Numbers DEF Kept, FetchRange, TypeOK
<1>2. /\ request'.kind = "fallback" /\ request'.time = t /\ request'.side = side
      /\ request'.whole = (lost = {})
      /\ \/ ~answer'.ok /\ (BlockTime = 0 \/ Closest(now, t, side) = {} \/ 0 \in Closest(now, t, side))
         \/ answer'.ok /\ answer'.block \in Closest(now, t, side)
  BY DEF ReadFallback, Serve, Failed
<1>3. lost = {} /\ BlockTime # 0 => {b \in Blocks : b \in range} \subseteq now
  BY DEF Kept, FetchRange
<1> HIDE DEF now, range
<1>4. answer'.ok => IF side = "before" THEN Stamp(answer'.block) <= t ELSE Stamp(answer'.block) >= t
  BY <1>2, ClosestSide
<1>5. true = {} => ~answer'.ok
  <2>1. SUFFICES ASSUME answer'.ok PROVE true # {}
    OBVIOUS
  <2>2. answer'.block \in Blocks
    BY <1>1, <1>2, <2>1, ClosestSide
  <2>3. QED
    BY <1>1, <1>4, <2>1, <2>2, ClosestExists
<1>6. ASSUME lost = {}, BlockTime # 0, NEW b \in true, b \in range
      PROVE  \/ answer'.ok /\ Stamp(b) = Stamp(answer'.block)
             \/ 0 \in true /\ ~answer'.ok
  <2>1. b \in now
    BY <1>3, <1>6, ClosestSide
  <2>2. b \in Closest(now, t, side)
    BY <1>1, <1>6, <2>1, ClosestSame
  <2>3. \A c \in Closest(now, t, side) : c \in true /\ Stamp(b) = Stamp(c)
    BY <1>1, <1>6, <2>1, ClosestSame
  <2>4. QED
    BY <1>2, <1>6, <2>2, <2>3
<1> HIDE DEF true
<1>7. \/ lost # {}
      \/ true = {} /\ ~answer'.ok
      \/ BlockTime = 0
      \/ true # {} /\ {b \in true : b \in range} = {}
      \/ answer'.ok /\ \E b \in true : Stamp(b) = Stamp(answer'.block)
      \/ 0 \in true /\ ~answer'.ok
  BY <1>5, <1>6
<1>8. QED
  BY <1>2, <1>4, <1>7 DEF ClosestAnswer, true, range

LEMMA ReadingAnswers ==
  ASSUME NEW t \in Times, NEW side, ReadClosest(t, side)
  PROVE  ClosestAnswer
<1>1. /\ request'.kind = "closest" /\ request'.time = t /\ request'.side = side
      /\ answer'.ok => answer'.block \in Closest(known, t, side)
  BY DEF ReadClosest, Serve, Failed
<1>2. answer'.ok => IF side = "before" THEN Stamp(answer'.block) <= t
                    ELSE Stamp(answer'.block) >= t
  BY <1>1, ClosestSide
<1>3. QED
  BY <1>1, <1>2 DEF ClosestAnswer

-----------------------------------------------------------------------------
(* Time series                                                             *)

LEMMA TimesStep ==
  ASSUME NEW k \in Nat, NEW d \in Nat
  PROVE  /\ k * d \in Nat /\ (k + 1) * d = k * d + d /\ 0 * d = 0
  OBVIOUS

LEMMA TimesMonotone ==
  ASSUME NEW j \in Nat, NEW k \in Nat, j <= k, NEW d \in Nat
  PROVE  j * d <= k * d
<1>1. (k - j) * d \in Nat /\ k - j \in Nat
  OBVIOUS
<1>2. k * d = j * d + (k - j) * d
  OBVIOUS
<1>3. QED
  BY <1>1, <1>2

\* The epochs of a series by the recursion that finds them.
Descends(f, head, d, n) ==
    f = [k \in 0..n |-> IF k = 0 THEN head ELSE Larger(f[k - 1] - d, First)]

\* The same without.
Descent(head, d, n) == [k \in 0..n |-> Larger(head - k * d, First)]

\* Those before which the first epoch was not reached.
Taken(head, d, n) == {k \in 0..n : k > 0 => Descent(head, d, n)[k - 1] > First}

LEMMA DescentDescends ==
  ASSUME TypeOK, NEW head \in Nat, First <= head, NEW d \in Nat, NEW n \in Nat
  PROVE  Descends(Descent(head, d, n), head, d, n)
<1> DEFINE f == Descent(head, d, n)
<1>1. First \in Int
  BY FirstTyped
<1>2. ASSUME NEW k \in 0..n
      PROVE  Larger(head - k * d, First) =
                 IF k = 0 THEN head ELSE Larger(f[k - 1] - d, First)
  <2>1. CASE k = 0
    BY <1>1, <2>1, TimesStep DEF Larger
  <2>2. CASE k # 0
    <3>1. k - 1 \in 0..n /\ k - 1 \in Nat /\ (k - 1) + 1 = k
      BY <2>2
    <3>2. f[k - 1] = Larger(head - (k - 1) * d, First)
      BY <3>1 DEF Descent
    <3>3. (k - 1) * d \in Nat /\ k * d = (k - 1) * d + d
      BY <3>1, TimesStep
    <3> HIDE DEF f
    <3>4. Larger(head - k * d, First) = Larger(f[k - 1] - d, First)
      BY <1>1, <3>2, <3>3 DEF Larger
    <3>5. QED
      BY <2>2, <3>4
  <2>3. QED
    BY <2>1, <2>2
<1>3. QED
  BY <1>2, Zenon DEF Descends, Descent

\* The recursion has one solution.
LEMMA DescentIsUnique ==
  ASSUME TypeOK, NEW head \in Nat, First <= head, NEW d \in Nat, NEW n \in Nat,
         NEW f, Descends(f, head, d, n)
  PROVE  f = Descent(head, d, n)
<1> DEFINE g == Descent(head, d, n)
           Bad == {k \in 0..n : f[k] # g[k]}
<1>1. Descends(g, head, d, n)
  BY DescentDescends
<1>2. /\ f = [k \in 0..n |-> f[k]] /\ g = [k \in 0..n |-> g[k]]
      /\ \A k \in 0..n : /\ f[k] = IF k = 0 THEN head ELSE Larger(f[k - 1] - d, First)
                        /\ g[k] = IF k = 0 THEN head ELSE Larger(g[k - 1] - d, First)
  <2> HIDE DEF g
  <2>1. QED
    BY <1>1, Zenon DEF Descends
<1> HIDE DEF g
<1>3. CASE Bad # {}
  <2>1. Bad \in SUBSET Nat
    OBVIOUS
  <2>2. PICK k \in Bad : \A j \in Bad : k <= j
    BY <1>3, <2>1, LeastOfNat
  <2>3. k # 0
    BY <1>2, <2>2
  <2>4. k - 1 \in 0..n /\ k - 1 \notin Bad
    BY <2>2, <2>3
  <2>5. f[k - 1] = g[k - 1]
    BY <2>4
  <2>6. f[k] = g[k]
    BY <1>2, <2>2, <2>3, <2>5, Zenon
  <2>7. QED
    BY <2>2, <2>6
<1>4. CASE Bad = {}
  BY <1>2, <1>4, Zenon DEF g
<1>5. QED
  BY <1>3, <1>4

LEMMA StepsAre ==
  ASSUME TypeOK, NEW head \in Nat, First <= head, NEW step, EpochsIn(step) \in Nat,
         NEW n \in Nat
  PROVE  Steps(head, step, n) =
             [k \in 1..Cardinality(Taken(head, EpochsIn(step), n)) |->
                  Descent(head, EpochsIn(step), n)[k - 1]]
<1> DEFINE d == EpochsIn(step)
           f == CHOOSE f : Descends(f, head, d, n)
<1>1. Descends(f, head, d, n)
  BY DescentDescends
<1>2. Steps(head, step, n) =
          LET taken == {k \in 0..n : k > 0 => f[k - 1] > First}
          IN [k \in 1..Cardinality(taken) |-> f[k - 1]]
  BY DEF Steps, Descends
<1> HIDE DEF f
<1>3. f = Descent(head, d, n)
  BY <1>1, DescentIsUnique
<1>4. QED
  BY <1>2, <1>3, Zenon DEF Taken

LEMMA TakenAre ==
  ASSUME TypeOK, NEW head \in Nat, First <= head, NEW d \in Nat, NEW n \in Nat
  PROVE  LET tail == Descent(head, d, n)
             taken == Taken(head, d, n)
         IN \E m \in 0..n : /\ taken = 0..m
                            /\ m = n \/ tail[m] = First
                            /\ \A k \in 0..(m - 1) : tail[k] > First
<1> DEFINE tail == Descent(head, d, n)
           e(k) == head - k * d
           taken == {k \in 0..n : k > 0 => tail[k - 1] > First}
<1>0. taken = Taken(head, d, n)
  BY DEF Taken
<1>1. First \in Nat
  BY FirstTyped
<1>2. \A k \in 0..n : e(k) \in Int /\ tail[k] = Larger(e(k), First)
  <2> SUFFICES ASSUME NEW k \in 0..n
               PROVE  e(k) \in Int /\ tail[k] = Larger(e(k), First)
    OBVIOUS
  <2>1. k * d \in Nat
    BY TimesStep
  <2>2. tail[k] = Larger(e(k), First)
    BY DEF Descent
  <2>3. QED
    BY <2>1, <2>2
<1>2a. \A j, k \in 0..n : j <= k => e(k) <= e(j)
  <2> SUFFICES ASSUME NEW j \in 0..n, NEW k \in 0..n, j <= k
               PROVE  e(k) <= e(j)
    OBVIOUS
  <2>1. j * d <= k * d /\ j * d \in Nat /\ k * d \in Nat
    BY TimesMonotone, TimesStep
  <2>2. QED
    BY <2>1
<1> HIDE DEF tail, e
<1>3. taken \in SUBSET Nat /\ 0 \in taken /\ \A k \in taken : k <= n
  OBVIOUS
<1>4. PICK m \in taken : \A k \in taken : k <= m
  <2> HIDE DEF taken
  <2>1. QED
    BY <1>3, GreatestOfNat, Zenon
<1>5. ASSUME NEW k \in 0..(m - 1)
      PROVE  tail[k] > First
  <2>1. m - 1 \in 0..n /\ m - 1 \in Nat /\ k \in 0..n /\ k \in Nat /\ k <= m - 1
    BY <1>4, <1>5
  <2>2. tail[m - 1] > First
    BY <1>4, <2>1
  <2>3. e(m - 1) > First
    BY <1>1, <1>2, <2>1, <2>2 DEF Larger
  <2>4. e(k) > First
    BY <1>1, <1>2, <1>2a, <2>1, <2>3
  <2>5. QED
    BY <1>1, <1>2, <2>1, <2>4 DEF Larger
<1>6. taken = 0..m
  <2>1. \A k \in 0..m : k \in taken
    <3> SUFFICES ASSUME NEW k \in 0..m PROVE k \in taken
      OBVIOUS
    <3>1. k > 0 => k - 1 \in 0..(m - 1)
      BY <1>4
    <3>2. k \in 0..n
      BY <1>4
    <3>3. QED
      BY <1>5, <3>1, <3>2
  <2>2. \A k \in taken : k \in 0..m
    BY <1>4
  <2>3. QED
    BY <2>1, <2>2
<1>7. ASSUME m # n
      PROVE  tail[m] = First
  <2>1. m + 1 \in 0..n /\ m + 1 \notin taken
    BY <1>4, <1>7
  <2>2. ~ (tail[m] > First)
    BY <1>4, <2>1
  <2>3. QED
    BY <1>1, <1>2, <1>4, <2>2 DEF Larger
<1>8. m \in 0..n
  BY <1>4
<1>9. QED
  BY <1>0, <1>5, <1>6, <1>7, <1>8, Zenon DEF tail

LEMMA SeriesShape ==
  ASSUME TypeOK, NEW head \in Nat, First <= head, NEW step, EpochsIn(step) \in Nat,
         NEW n \in Nat
  PROVE  LET s == Steps(head, step, n)
         IN \E m \in 0..n :
                /\ Len(s) = m + 1 /\ DOMAIN s = 1..(m + 1)
                /\ \A i \in 1..(m + 1) : s[i] = Larger(head - (i - 1) * EpochsIn(step), First)
                /\ m = n \/ s[m + 1] = First
                /\ \A i \in 1..m : s[i] > First
<1> DEFINE d == EpochsIn(step)
           tail == Descent(head, d, n)
           taken == Taken(head, d, n)
           s == Steps(head, step, n)
<1>1. PICK m \in 0..n : /\ taken = 0..m
                        /\ m = n \/ tail[m] = First
                        /\ \A k \in 0..(m - 1) : tail[k] > First
  BY TakenAre
<1>2. Cardinality(taken) = m + 1
  <2>1. Cardinality(0..m) = m + 1
    BY FS_Interval
  <2>2. QED
    BY <1>1, <2>1
<1>3. s = [k \in 1..Cardinality(taken) |-> tail[k - 1]]
  <2>1. Steps(head, step, n) =
            [k \in 1..Cardinality(Taken(head, EpochsIn(step), n)) |->
                 Descent(head, EpochsIn(step), n)[k - 1]]
    BY StepsAre
  <2>2. QED
    BY <2>1, Zenon
<1> HIDE DEF taken, s
<1>4. s = [k \in 1..(m + 1) |-> tail[k - 1]]
  BY <1>2, <1>3
<1>5. \A k \in 0..n : tail[k] = Larger(head - k * d, First)
  BY DEF Descent
<1> HIDE DEF tail, d
<1>6. \A i \in 1..(m + 1) : s[i] = Larger(head - (i - 1) * d, First)
  <2> SUFFICES ASSUME NEW i \in 1..(m + 1) PROVE s[i] = Larger(head - (i - 1) * d, First)
    OBVIOUS
  <2>1. s[i] = tail[i - 1] /\ i - 1 \in 0..n
    BY <1>4
  <2>2. QED
    BY <1>5, <2>1
<1>7. Len(s) = m + 1 /\ DOMAIN s = 1..(m + 1)
  BY <1>4
<1>8. m = n \/ s[m + 1] = First
  BY <1>1, <1>4
<1>9. \A i \in 1..m : s[i] > First
  <2> SUFFICES ASSUME NEW i \in 1..m PROVE s[i] > First
    OBVIOUS
  <2>1. s[i] = tail[i - 1] /\ i - 1 \in 0..(m - 1)
    BY <1>4
  <2>2. QED
    BY <1>1, <2>1
<1>10. QED
  BY <1>6, <1>7, <1>8, <1>9 DEF s, d

\* Whole epochs in a length of time.
LEMMA EpochsAre ==
  ASSUME BlockTime # 0, NEW t \in Nat
  PROVE  LET length == EpochSize * BlockTime
         IN /\ length \in Nat /\ length > 0
            /\ EpochsIn(t) \in Nat
            /\ EpochsIn(t) * length <= t /\ t - length < EpochsIn(t) * length
<1> DEFINE length == EpochSize * BlockTime
<1>1. length \in Nat /\ length > 0
  BY Numbers
<1>2. EpochsIn(t) = t \div length
  BY DEF EpochsIn
<1> HIDE DEF length
<1>3. t \div length \in Nat /\ (t \div length) * length <= t
      /\ t - length < (t \div length) * length
  BY <1>1
<1>4. QED
  BY <1>1, <1>2, <1>3 DEF length

LEMMA Spaced ==
  ASSUME TypeOK, BlockTime # 0, NEW head \in Nat, First <= head, NEW step \in Nat,
         NEW n \in Nat, NEW i \in Nat, i > 0, i < Len(Steps(head, step, n))
  PROVE  LET s == Steps(head, step, n)
             length == EpochSize * BlockTime
         IN /\ (s[i] - s[i + 1]) * length <= step
            /\ \/ (s[i] - s[i + 1]) * length > step - length
               \/ i = Len(s) - 1 /\ s[Len(s)] = First
<1> DEFINE d == EpochsIn(step)
           length == EpochSize * BlockTime
           s == Steps(head, step, n)
<1>1. First \in Nat
  BY FirstTyped
<1>2. /\ length \in Nat /\ length > 0 /\ d \in Nat
      /\ d * length <= step /\ step - length < d * length
  BY EpochsAre
<1>3. PICK m \in 0..n :
          /\ Len(s) = m + 1
          /\ \A k \in 1..(m + 1) : s[k] = Larger(head - (k - 1) * d, First)
          /\ m = n \/ s[m + 1] = First
          /\ \A k \in 1..m : s[k] > First
  BY <1>2, SeriesShape
<1> HIDE DEF s, d, length
<1>4. i \in 1..m
  BY <1>3 DEF s
<1>5. /\ s[i] = Larger(head - (i - 1) * d, First)
      /\ s[i + 1] = Larger(head - i * d, First)
      /\ s[i] > First
  BY <1>3, <1>4
<1>6. (i - 1) * d \in Nat /\ i * d = (i - 1) * d + d
  BY <1>2, <1>4, TimesStep
<1>7. /\ s[i] \in Int /\ s[i + 1] \in Int
      /\ 0 <= s[i] - s[i + 1] /\ s[i] - s[i + 1] <= d
      /\ s[i] - s[i + 1] = d \/ s[i + 1] = First
  BY <1>1, <1>2, <1>5, <1>6 DEF Larger
<1>8. (s[i] - s[i + 1]) * length <= d * length
  BY <1>2, <1>7, TimesMonotone
<1>9. (s[i] - s[i + 1]) * length <= step
  <2>1. (s[i] - s[i + 1]) * length \in Int /\ d * length \in Int
    BY <1>2, <1>7
  <2>2. QED
    BY <1>2, <1>8, <2>1
<1>10. s[i + 1] = First => i = m
  BY <1>1, <1>3, <1>4
<1>11. \/ (s[i] - s[i + 1]) * length > step - length
       \/ i = Len(s) - 1 /\ s[Len(s)] = First
  <2>1. CASE s[i + 1] = First
    BY <1>3, <1>10, <2>1
  <2>2. CASE s[i] - s[i + 1] = d
    BY <1>2, <2>2
  <2>3. QED
    BY <1>7, <2>1, <2>2
<1>12. QED
  BY <1>9, <1>11 DEF s, length

\* It is a list of numbers.
LEMMA SeriesDomain ==
  ASSUME TypeOK, BlockTime # 0, NEW start \in Times, NEW end \in Times, NEW step \in Spans,
         NEW epoch \in Epochs, ReadSeries(start, end, step, epoch)
  PROVE  LET s == SeriesOf(start, end, step, epoch)
         IN DOMAIN s = 1..Len(s) /\ \A i \in 1..Len(s) : s[i] \in Int
<1> DEFINE gap == end % step
           head == Larger(epoch - EpochsIn(gap), First)
           n == Larger(((end - gap) - start) \div step, 0)
           s == Steps(head, step, n)
<1>1. /\ start \in Nat /\ end \in Nat /\ step \in Nat /\ step > 0
      /\ epoch \in Nat /\ First \in Nat
  BY Numbers, FirstTyped DEF Epochs
<1>2. gap \in Nat
  BY <1>1
<1>3. EpochsIn(gap) \in Nat /\ EpochsIn(step) \in Nat
  <2> HIDE DEF gap
  <2>1. QED
    BY <1>1, <1>2, EpochsAre
<1>4. head \in Nat /\ First <= head
  <2> HIDE DEF gap
  <2>1. QED
    BY <1>1, <1>3 DEF Larger
<1>5. n \in Nat
  <2>1. ((end - gap) - start) \div step \in Int
    <3> HIDE DEF gap
    <3>1. QED
      BY <1>1, <1>2
  <2>2. QED
    BY <2>1 DEF Larger
<1>6. SeriesOf(start, end, step, epoch) = s
  BY DEF SeriesOf
<1> HIDE DEF gap, head, n
<1>7. PICK m \in 0..n :
          /\ Len(s) = m + 1 /\ DOMAIN s = 1..(m + 1)
          /\ \A i \in 1..(m + 1) : s[i] = Larger(head - (i - 1) * EpochsIn(step), First)
          /\ m = n \/ s[m + 1] = First
          /\ \A i \in 1..m : s[i] > First
  BY <1>3, <1>4, <1>5, SeriesShape
<1> HIDE DEF s
<1>8. \A i \in 1..(m + 1) : s[i] \in Int
  <2> SUFFICES ASSUME NEW i \in 1..(m + 1) PROVE s[i] \in Int
    OBVIOUS
  <2>1. (i - 1) * EpochsIn(step) \in Nat
    BY <1>3, TimesStep
  <2>2. QED
    BY <1>1, <1>4, <1>7, <2>1 DEF Larger
<1>9. QED
  BY <1>6, <1>7, <1>8

LEMMA SeriesAnswers ==
  ASSUME TypeOK, NEW start \in Times, NEW end \in Times, NEW step \in Spans,
         NEW epoch \in Epochs, ReadSeries(start, end, step, epoch)
  PROVE  SeriesAnswer
<1> DEFINE gap == end % step
           head == Larger(epoch - EpochsIn(gap), First)
           last == ((end - gap) - start) \div step
           n == Larger(last, 0)
           s == Steps(head, step, n)
           length == EpochSize * BlockTime
<1>1. /\ request'.kind = "series" /\ request'.start = start /\ request'.end = end
      /\ request'.step = step /\ request'.epoch = epoch
      /\ answer'.ok => BlockTime # 0 /\ answer'.epochs = s
  <2> HIDE DEF s
  <2>1. SeriesOf(start, end, step, epoch) = s
    BY DEF SeriesOf, s
  <2>2. QED
    BY <2>1 DEF ReadSeries, Serve, Failed
<1> SUFFICES ASSUME BlockTime # 0, answer'.epochs = s
             PROVE  /\ \A i \in 1..Len(s) : First <= s[i] /\ s[i] <= Larger(epoch, First)
                    /\ \A i \in 1..(Len(s) - 1) :
                           /\ (s[i] - s[i + 1]) * length <= step
                           /\ \/ (s[i] - s[i + 1]) * length > step - length
                              \/ i = Len(s) - 1 /\ s[Len(s)] = First
                    /\ s[Len(s)] = First \/ Len(s) = 1 + last
  <2> HIDE DEF s, last
  <2>1. QED
    BY <1>1 DEF SeriesAnswer, last
<1>2. /\ start \in Nat /\ end \in Nat /\ step \in Nat /\ step > 0
      /\ epoch \in Nat /\ First \in Nat
  BY Numbers, FirstTyped DEF Epochs
<1>3. gap \in Nat /\ gap < step
  BY <1>2
<1>4. EpochsIn(gap) \in Nat /\ EpochsIn(step) \in Nat
  <2> HIDE DEF gap
  <2>1. QED
    BY <1>2, <1>3, EpochsAre
<1>5. head \in Nat /\ First <= head /\ head <= Larger(epoch, First)
  <2> HIDE DEF gap
  <2>1. QED
    BY <1>2, <1>4 DEF Larger
<1>6. last \in Nat /\ n = last
  <2>1. (end - start) \div step > 0
    BY DEF ReadSeries
  <2>2. end - start >= step
    BY <1>2, <2>1
  <2> HIDE DEF gap
  <2>3. (end - gap) - start >= 0 /\ (end - gap) - start \in Nat
    BY <1>2, <1>3, <2>2
  <2>4. last \in Nat
    BY <1>2, <2>3
  <2> HIDE DEF last
  <2>5. QED
    BY <2>4 DEF Larger
<1> HIDE DEF gap, head, last, n
<1>7. PICK m \in 0..n :
          /\ Len(s) = m + 1
          /\ \A i \in 1..(m + 1) : s[i] = Larger(head - (i - 1) * EpochsIn(step), First)
          /\ m = n \/ s[m + 1] = First
          /\ \A i \in 1..m : s[i] > First
  BY <1>4, <1>5, <1>6, SeriesShape
<1>8. ASSUME NEW i \in 1..(Len(s) - 1)
      PROVE  /\ (s[i] - s[i + 1]) * length <= step
             /\ \/ (s[i] - s[i + 1]) * length > step - length
                \/ i = Len(s) - 1 /\ s[Len(s)] = First
  <2>1. Len(s) \in Nat
    BY <1>6, <1>7
  <2>2. i \in Nat /\ i > 0 /\ i < Len(s)
    <3> HIDE DEF s
    <3>1. QED
      BY <1>8, <2>1
  <2>3. n \in Nat /\ s = Steps(head, step, n)
    BY <1>6
  <2>4. QED
    BY <1>2, <1>5, <2>2, <2>3, Spaced, Zenon
<1> HIDE DEF s
<1>9. ASSUME NEW i \in 1..Len(s)
      PROVE  First <= s[i] /\ s[i] <= Larger(epoch, First)
  <2>1. i \in 1..(m + 1) /\ i - 1 \in Nat
    BY <1>6, <1>7
  <2>2. (i - 1) * EpochsIn(step) \in Nat
    BY <1>4, <2>1, TimesStep
  <2>3. s[i] = Larger(head - (i - 1) * EpochsIn(step), First)
    BY <1>7, <2>1
  <2>4. First <= s[i] /\ s[i] <= head /\ s[i] \in Nat
    BY <1>2, <1>5, <2>2, <2>3 DEF Larger
  <2>5. QED
    BY <1>2, <1>5, <2>4 DEF Larger
<1>10. s[Len(s)] = First \/ Len(s) = 1 + last
  BY <1>6, <1>7
<1>11. QED
  BY <1>8, <1>9, <1>10

\* A time series asks for epochs, and for 0 when there is no first one.
LEMMA SeriesTyped ==
  ASSUME TypeOK, NEW start \in Times, NEW end \in Times, NEW step \in Spans,
         NEW epoch \in Epochs, ReadSeries(start, end, step, epoch)
  PROVE  \E es \in SUBSET (0..MaxEpoch) : Asking(es)
<1> DEFINE s == SeriesOf(start, end, step, epoch)
<1>1. CASE BlockTime = 0
  BY <1>1 DEF ReadSeries
<1>2. CASE BlockTime # 0
  <2>1. Asking(ToSet(s)) /\ answer'.ok /\ answer'.epochs = s /\ request'.kind = "series"
        /\ request'.epoch = epoch
    BY <1>2 DEF ReadSeries, Serve
  <2>2. SeriesAnswer
    BY SeriesAnswers
  <2>3. \A i \in 1..Len(s) : First <= s[i] /\ s[i] <= Larger(epoch, First)
    <3> HIDE DEF s
    <3>1. QED
      BY <2>1, <2>2 DEF SeriesAnswer, Answers
  <2>4. DOMAIN s = 1..Len(s) /\ \A i \in 1..Len(s) : s[i] \in Int
    BY <1>2, SeriesDomain
  <2> HIDE DEF s
  <2>5. ToSet(s) = {s[i] : i \in DOMAIN s}
    BY DEF ToSet
  <2>6. epoch \in Nat /\ epoch <= MaxEpoch /\ First \in 0..MaxEpoch /\ MaxEpoch \in Nat
    BY FirstTyped, Numbers DEF Epochs
  <2>7. ToSet(s) \in SUBSET (0..MaxEpoch)
    BY <2>3, <2>4, <2>5, <2>6 DEF Larger
  <2>8. QED
    BY <2>1, <2>7
<1>3. QED
  BY <1>1, <1>2

-----------------------------------------------------------------------------
(* Types                                                                   *)

LEMMA TypeKept == TypeOK /\ [Next]_vars => TypeOK'
<1> SUFFICES ASSUME TypeOK, [Next]_vars
             PROVE  TypeOK'
  OBVIOUS
<1>1. ASSUME NEW e \in Epochs, Finalize(e) \/ Note(e) \/ Submit(e) \/ LeaveOut(e) \/ Expire(e) \/ CacheCid(e)
      PROVE  TypeOK'
  <2>0. e \in 0..MaxEpoch
    BY DEF Epochs
  <2>1. CASE Finalize(e)
    BY <2>1, QuietTyped DEF Finalize, redis, TypeOK
  <2>2. CASE Note(e)
    BY <2>2, <2>0, QuietTyped DEF Note, Larger, TypeOK
  <2>3. CASE Submit(e)
    BY <2>3, <2>0, QuietTyped DEF Submit, TypeOK
  <2>4. CASE Expire(e)
    BY <2>4, QuietTyped DEF Expire, TypeOK
  <2>5. CASE CacheCid(e)
    BY <2>5, QuietTyped DEF CacheCid, TypeOK
  <2>6. CASE LeaveOut(e)
    BY <2>6, QuietTyped DEF LeaveOut, TypeOK
  <2>7. QED
    BY <1>1, <2>1, <2>2, <2>3, <2>4, <2>5, <2>6
<1>2. ASSUME NEW lo \in Epochs, NEW hi \in Epochs, NEW w \in Walks(lo, hi), NEW complete,
             SnapshotBulk(lo, hi, complete, w)
      PROVE  TypeOK'
  <2>1. \A asked, gone : CacheAfter(asked, gone) \in [Epochs -> {"none", "empty", "data"}]
    BY DEF CacheAfter, DataOf, TypeOK
  <2>2. cache' \in [Epochs -> {"none", "empty", "data"}]
    BY <1>2, <2>1 DEF SnapshotBulk
  <2>3. DOMAIN w \subseteq Epochs
    BY WalkedTyped
  <2>4. entries' \in SUBSET Epochs /\ blank' \in SUBSET Epochs
    <3>1. \A fs : Found(w, fs) \subseteq Epochs
      BY <2>3 DEF Found
    <3>2. entries' = AskedOf(Found(w, {"asked", "broken"})) \cup Found(w, {"named", "both"})
      BY <1>2 DEF SnapshotBulk
    <3>3. PICK marked \in SUBSET Found(w, {"asked", "broken"}) :
              blank' = blank \cup marked \cup Found(w, {"left", "both"})
      BY <1>2 DEF SnapshotBulk
    <3>4. QED
      BY <3>1, <3>2, <3>3 DEF AskedOf, TypeOK
  <2>5. pointer' \in 0..MaxEpoch /\ UNCHANGED <<submitted, known>>
    BY <1>2, LastTyped DEF SnapshotBulk
  <2>6. PICK r, a : Serve(r, a) /\ r.kind = "bulk"
    BY <1>2 DEF SnapshotBulk
  <2>7. QED
    BY <2>2, <2>4, <2>5, <2>6, ServeTyped DEF TypeOK
<1>3. ASSUME NEW e \in Epochs, NEW seek, NEW broken, ReadEpoch(e, seek, broken)
      PROVE  TypeOK'
  <2>1. PICK r, a : Serve(r, a) /\ r.kind = "epoch"
    BY <1>3 DEF ReadEpoch
  <2>2. entries' \in SUBSET Epochs /\ blank' \in SUBSET Epochs
    BY <1>3, AskingTyped DEF ReadEpoch, Epochs
  <2>3. QED
    BY <1>3, <2>1, <2>2, ServeTyped DEF ReadEpoch, TypeOK
<1>4. ASSUME NEW e \in Epochs, NEW broken, ReadNearby(e, broken)
      PROVE  TypeOK'
  <2>1. PICK r, a : Serve(r, a) /\ r.kind = "nearby"
    BY <1>4 DEF ReadNearby
  <2>2. entries' \in SUBSET Epochs /\ blank' \in SUBSET Epochs
    BY <1>4, AskingTyped DEF ReadNearby, Epochs
  <2>3. QED
    BY <1>4, <2>1, <2>2, ServeTyped DEF ReadNearby, TypeOK
<1>5. ASSUME NEW broken, ReadLatest(broken)
      PROVE  TypeOK'
  <2>1. PICK r, a : Serve(r, a) /\ r.kind = "latest"
    BY <1>5 DEF ReadLatest
  <2>2. pointer' \in 0..MaxEpoch /\ UNCHANGED <<submitted, cache, known>>
    BY <1>5, LastTyped DEF ReadLatest, TypeOK
  <2>3. PICK target \in 0..MaxEpoch : Asking({target})
    BY <1>5, LastTyped DEF ReadLatest, TypeOK
  <2>4. entries' \in SUBSET Epochs /\ blank' \in SUBSET Epochs
    BY <2>3, AskingTyped
  <2>5. QED
    BY <2>1, <2>2, <2>4, ServeTyped DEF TypeOK
<1>6. ASSUME NEW start \in Times, NEW end \in Times, NEW step \in Spans, NEW e \in Epochs,
             ReadSeries(start, end, step, e)
      PROVE  TypeOK'
  <2>1. PICK r, a : Serve(r, a) /\ r.kind = "series"
    BY <1>6 DEF ReadSeries
  <2>2. PICK es \in SUBSET (0..MaxEpoch) : Asking(es)
    BY <1>6, SeriesTyped
  <2>3. entries' \in SUBSET Epochs /\ blank' \in SUBSET Epochs
    BY <2>2, AskingTyped
  <2>4. UNCHANGED <<pointer, submitted, cache, known>>
    BY <1>6 DEF ReadSeries
  <2>5. QED
    BY <2>1, <2>3, <2>4, ServeTyped DEF TypeOK
<1>7. ASSUME NEW t, NEW side, ReadClosest(t, side)
      PROVE  TypeOK'
  <2> DEFINE r == [kind |-> "closest", time |-> t, side |-> side]
  <2>1. \E a : Serve(r, a)
    BY <1>7, Zenon DEF ReadClosest
  <2>2. r.kind = "closest"
    OBVIOUS
  <2> HIDE DEF r
  <2>3. QED
    BY <1>7, <2>1, <2>2, ServeTyped DEF ReadClosest, redis, TypeOK
<1>8. ASSUME NEW t, NEW side, NEW lost, ReadFallback(t, side, lost)
      PROVE  TypeOK'
  <2> DEFINE r == [kind |-> "fallback", time |-> t, side |-> side, whole |-> lost = {}]
  <2>1. (\E a : Serve(r, a)) /\ r.kind = "fallback"
    <3>1. \E a : Serve(r, a)
      BY <1>8, Zenon DEF ReadFallback
    <3>2. QED
      BY <3>1
  <2> HIDE DEF r
  <2>2. known' \in SUBSET Blocks
    BY <1>8 DEF ReadFallback, Kept, FetchRange, TypeOK
  <2>3. UNCHANGED <<pointer, submitted, entries, blank, cache>>
    BY <1>8 DEF ReadFallback
  <2>4. QED
    BY <2>1, <2>2, <2>3, ServeTyped DEF TypeOK
<1>9. CASE UNCHANGED vars
  BY <1>9 DEF vars, redis, TypeOK
<1>10. QED
  BY <1>1, <1>2, <1>3, <1>4, <1>5, <1>6, <1>7, <1>8, <1>9 DEF Next

\* Every reachable state of the lookups is well typed: pointers and entries
\* name epochs, and only blocks of the chain have a cached time.
THEOREM TypeCorrect == Spec => []TypeOK
  BY InitTyped, TypeKept, PTL DEF Spec

\* Blocks are looked up by time as BlockIsClosest says, for any chain whose
\* blocks do not go back in time, whatever the readers before have left cached
\* and whatever the node of the chain leaves out.
THEOREM BlocksAreClosest == Spec => BlockIsClosest
<1>1. TypeOK /\ [Next]_vars => [ClosestAnswer]_vars
  BY WhoAnswers, ReadingAnswers, FallbackAnswers DEF ClosestAnswer
<1>2. QED
  BY <1>1, TypeCorrect, PTL DEF Spec, BlockIsClosest

\* The epochs of a time series are spaced as SeriesIsSpaced says, for any
\* sizes of epochs, block times and steps: the loop that goes back from the end
\* loses no observation but those before the first epoch of the project.
THEOREM SeriesAreSpaced == Spec => SeriesIsSpaced
<1>1. TypeOK /\ [Next]_vars => [SeriesAnswer]_vars
  BY WhoAnswers, SeriesAnswers DEF SeriesAnswer
<1>2. QED
  BY <1>1, TypeCorrect, PTL DEF Spec, SeriesIsSpaced

-----------------------------------------------------------------------------
(* Bulk reads                                                              *)

\* Epochs for which a null is collected, and all the pairs.
Nulls(lo, hi, w) ==
    (Ids(lo, hi) \ Named(lo, hi, w)) \cup Twice(w) \cup (MaxWithData + 1)..hi
Pairs(lo, hi, w) ==
    {<<e, e>> : e \in Named(lo, hi, w)} \cup {<<0, e>> : e \in Nulls(lo, hi, w)}

\* What a walk can name.
LEMMA NamedAre ==
  ASSUME TypeOK, NEW lo \in Epochs, NEW hi \in Epochs, NEW w \in Walks(lo, hi)
  PROVE  /\ Named(lo, hi, w) \subseteq Ids(lo, hi)
         /\ Twice(w) \subseteq Named(lo, hi, w)
         /\ \A e \in Ids(lo, hi) : e \in Larger(lo, First)..hi /\ e <= MaxWithData /\ First # 0
<1>1. w \in [Unknown(Ids(lo, hi)) -> Findings]
  BY WalkedTyped
<1>2. Unknown(Ids(lo, hi)) \subseteq Ids(lo, hi)
  BY DEF Unknown
<1>3. Named(lo, hi, w) \subseteq Ids(lo, hi) /\ Twice(w) \subseteq Named(lo, hi, w)
  BY <1>1, <1>2 DEF Named, Twice, Found
<1>4. \A e \in Ids(lo, hi) : e \in Larger(lo, First)..hi /\ e <= MaxWithData /\ First # 0
  BY FirstTyped, LastTyped DEF Ids, Epochs, Larger, Smaller
<1>5. QED
  BY <1>3, <1>4

LEMMA CollectedAre ==
  ASSUME TypeOK, NEW lo \in Epochs, NEW hi \in Epochs, NEW w \in Walks(lo, hi),
         Ids(lo, hi) # {}
  PROVE  LET P == Pairs(lo, hi, w)
             C == Collected(lo, hi, w)
             n == Cardinality(P)
         IN /\ Sortable(P) /\ n \in Nat /\ C \in [1..n -> P]
            /\ \A i, j \in 1..n : (i < j => Before(C[i], C[j])) /\ (C[i] = C[j] => i = j)
            /\ {C[i] : i \in 1..n} = P
            /\ \A p \in P : p[2] \in Larger(lo, First)..hi
<1> DEFINE P == Pairs(lo, hi, w)
           from == Larger(lo, First)
<1>1. /\ Named(lo, hi, w) \subseteq Ids(lo, hi) /\ Twice(w) \subseteq Ids(lo, hi)
      /\ \A e \in Ids(lo, hi) : e \in from..hi /\ e <= MaxWithData /\ First # 0
  BY NamedAre
<1>2. /\ lo \in Nat /\ hi \in Nat /\ lo > 0 /\ hi <= MaxEpoch /\ MaxEpoch \in Nat
      /\ First \in Nat /\ MaxWithData \in Nat
  BY Numbers, FirstTyped, LastTyped DEF Epochs
<1>3. from \in Nat /\ from > 0 /\ from <= MaxWithData
  BY <1>1, <1>2 DEF Larger
<1> HIDE DEF from
<1>4. Nulls(lo, hi, w) \subseteq from..hi
  BY <1>1, <1>2, <1>3 DEF Nulls
<1>5. from..hi \subseteq Epochs
  BY <1>2, <1>3 DEF Epochs
<1>6. Sortable(P) /\ \A p \in P : p[2] \in from..hi
  <2>1. ASSUME NEW p \in P
        PROVE  p \in (0..MaxEpoch) \X Epochs /\ p[2] \in from..hi
    <3>1. CASE \E e \in Named(lo, hi, w) : p = <<e, e>>
      <4>1. PICK e \in from..hi : p = <<e, e>>
        BY <1>1, <3>1
      <4>2. QED
        BY <1>2, <1>5, <4>1 DEF Epochs
    <3>2. CASE \E e \in Nulls(lo, hi, w) : p = <<0, e>>
      <4>1. PICK e \in from..hi : p = <<0, e>>
        BY <1>4, <3>2
      <4>2. QED
        BY <1>2, <1>5, <4>1
    <3>3. QED
      BY <3>1, <3>2 DEF Pairs
  <2> HIDE DEF P
  <2>2. QED
    BY <2>1 DEF Sortable
<1>7. Collected(lo, hi, w) = InOrder(P)
  BY DEF Collected, Pairs, Nulls
<1> HIDE DEF P
<1>8. Enumerated(Collected(lo, hi, w), P)
  BY <1>6, <1>7, InOrderSorts, Enumerates
<1>9. QED
  BY <1>6, <1>8 DEF P, from, Enumerated

\* A pair is at most as many places behind that of its epoch as there are
\* epochs answered twice.
LEMMA Places ==
  ASSUME TypeOK, NEW lo \in Epochs, NEW hi \in Epochs, NEW w \in Walks(lo, hi),
         Ids(lo, hi) # {}, NEW i \in 1..Cardinality(Pairs(lo, hi, w))
  PROVE  i <= (Collected(lo, hi, w)[i][2] - Larger(lo, First) + 1) + Cardinality(Twice(w))
<1> DEFINE P == Pairs(lo, hi, w)
           C == Collected(lo, hi, w)
           n == Cardinality(P)
           from == Larger(lo, First)
           e == C[i][2]
           CidIn(d) == IF d \in Named(lo, hi, w) THEN d ELSE 0
           A == {<<CidIn(d), d>> : d \in from..e}
           B == {<<0, d>> : d \in Twice(w)}
<1>1. /\ n \in Nat /\ C \in [1..n -> P] /\ P \subseteq Int \X Int
      /\ \A j, k \in 1..n : (j < k => Before(C[j], C[k])) /\ (C[j] = C[k] => j = k)
      /\ \A p \in P : p[2] \in from..hi
  BY CollectedAre, SortableFinite
<1>2. from \in Int /\ hi \in Int
  BY FirstTyped DEF Larger, Epochs
<1>3. i \in 1..n
  OBVIOUS
<1>4. \A p \in P : p[1] = CidIn(p[2]) \/ p \in B
  <2>1. ASSUME NEW d \in Nulls(lo, hi, w)
        PROVE  CidIn(d) = 0 \/ d \in Twice(w)
    <3>1. d \in (MaxWithData + 1)..hi => d \notin Named(lo, hi, w)
      BY NamedAre, LastTyped DEF Epochs
    <3>2. QED
      BY <2>1, <3>1 DEF Nulls
  <2>2. QED
    BY <2>1 DEF Pairs
<1>5. e \in from..hi /\ e \in Int
  BY <1>1, <1>2, <1>3
<1> HIDE DEF P, C, n, e
<1>6. IsFiniteSet(A) /\ Cardinality(A) <= e - from + 1 /\ Cardinality(A) \in Nat
  <2> DEFINE f == [d \in from..e |-> <<CidIn(d), d>>]
  <2> HIDE DEF from
  <2>1. IsFiniteSet(from..e) /\ Cardinality(from..e) = e - from + 1
    BY <1>2, <1>5, FS_Interval
  <2>2. f \in Surjection(from..e, A)
    BY DEF Surjection
  <2> HIDE DEF f, A
  <2>3. QED
    BY <2>1, <2>2, FS_Surjection, FS_CardinalityType
<1>7. IsFiniteSet(B) /\ Cardinality(B) <= Cardinality(Twice(w)) /\ Cardinality(B) \in Nat
      /\ Cardinality(Twice(w)) \in Nat
  <2> DEFINE f == [d \in Twice(w) |-> <<0, d>>]
  <2>1. IsFiniteSet(Epochs)
    BY Numbers, FS_Interval DEF Epochs
  <2>2. Twice(w) \subseteq Epochs
    BY WalkedTyped DEF Twice, Found
  <2>3. IsFiniteSet(Twice(w)) /\ Cardinality(Twice(w)) \in Nat
    BY <2>1, <2>2, FS_Subset, FS_CardinalityType
  <2>4. f \in Surjection(Twice(w), B)
    BY DEF Surjection
  <2> HIDE DEF f, B
  <2>5. QED
    BY <2>3, <2>4, FS_Surjection, FS_CardinalityType
<1>8. IsFiniteSet(A \cup B) /\ Cardinality(A \cup B) <= Cardinality(A) + Cardinality(B)
  <2> HIDE DEF A, B
  <2>1. IsFiniteSet(A \cap B)
    BY <1>6, FS_Subset
  <2>2. /\ Cardinality(A \cap B) \in Nat
        /\ Cardinality(A) \in Nat /\ Cardinality(B) \in Nat
    BY <1>6, <1>7, <2>1, FS_CardinalityType
  <2>3. /\ IsFiniteSet(A \cup B)
        /\ Cardinality(A \cup B) = Cardinality(A) + Cardinality(B) - Cardinality(A \cap B)
    BY <1>6, <1>7, FS_Union
  <2>4. QED
    BY <2>2, <2>3
<1>9. ASSUME NEW j \in 1..i
      PROVE  C[j] \in A \cup B
  <2>1. j \in 1..n /\ C[j] \in P
    BY <1>1, <1>3
  <2>2. C[j][2] <= e
    <3>1. j = i \/ Before(C[j], C[i])
      BY <1>1, <1>3, <2>1
    <3>2. C[j][2] \in Int /\ C[i][2] \in Int
      BY <1>1, <1>2, <1>3, <2>1
    <3>3. QED
      BY <3>1, <3>2 DEF Before, e
  <2>3. C[j][2] \in from..e
    BY <1>1, <1>2, <1>5, <2>1, <2>2
  <2>4. C[j] = <<C[j][1], C[j][2]>>
    BY <1>1, <2>1
  <2>5. CASE C[j] \in B
    BY <2>5
  <2>6. CASE C[j][1] = CidIn(C[j][2])
    <3> HIDE DEF CidIn
    <3>1. C[j] = <<CidIn(C[j][2]), C[j][2]>>
      BY <2>4, <2>6, Zenon
    <3>2. QED
      BY <2>3, <3>1
  <2>7. QED
    BY <1>4, <2>1, <2>5, <2>6
<1> HIDE DEF A, B, from
<1>10. i <= Cardinality(A \cup B)
  <2> DEFINE f == [j \in 1..i |-> C[j]]
  <2>1. f \in [1..i -> A \cup B]
    BY <1>9
  <2>2. \A j, k \in 1..i : f[j] = f[k] => j = k
    BY <1>1, <1>3
  <2> HIDE DEF f
  <2>3. f \in Injection(1..i, A \cup B)
    BY <2>1, <2>2 DEF Injection, IsInjective
  <2>4. Cardinality(1..i) = i
    BY <1>3, FS_Interval
  <2>5. QED
    BY <1>8, <2>3, <2>4, FS_Injection
<1>11. Cardinality(A \cup B) \in Nat
  BY <1>8, FS_CardinalityType
<1>12. QED
  BY <1>2, <1>3, <1>5, <1>6, <1>7, <1>8, <1>10, <1>11 DEF e, C, from

\* What a bulk read takes of the CIDs it collected.
LEMMA ValidShape ==
  ASSUME TypeOK, NEW lo \in Epochs, NEW hi \in Epochs, lo <= hi, NEW w \in Walks(lo, hi)
  PROVE  LET s == Valid(lo, hi, w)
         IN \E m \in Nat :
                /\ DOMAIN s = 1..m /\ Len(s) = m
                /\ \A i \in 1..m : s[i][1] = s[i][2] /\ s[i][2] \in Named(lo, hi, w)
                /\ \A i, j \in 1..m : i < j => s[i][2] < s[j][2]
                /\ \A e \in Named(lo, hi, w) :
                       e <= hi - Cardinality(Twice(w)) => \E i \in 1..m : s[i][1] = e
<1> DEFINE P == Pairs(lo, hi, w)
           C == Collected(lo, hi, w)
           from == Larger(lo, First)
           k == Smaller(Len(C), hi - from + 1)
           V == {p \in {C[i] : i \in 1..k} : p[1] # 0}
           s == Valid(lo, hi, w)
           m == Cardinality(V)
<1>1. s = InOrder(V)
  BY DEF Valid
<1>2. from \in Int /\ hi \in Int
  BY FirstTyped DEF Larger, Epochs
<1>3. /\ V \subseteq P /\ Sortable(V)
      /\ \A e \in Named(lo, hi, w) : e <= hi - Cardinality(Twice(w)) => <<e, e>> \in V
  <2>1. CASE Ids(lo, hi) = {}
    <3>1. C = <<>>
      BY <2>1 DEF Collected
    <3> HIDE DEF C, from
    <3>2. k \in Int /\ k <= 0
      BY <1>2, <3>1 DEF Smaller
    <3> HIDE DEF k
    <3>3. V = {}
      BY <3>2
    <3>4. Named(lo, hi, w) = {}
      BY <2>1, NamedAre
    <3> HIDE DEF V
    <3>5. QED
      BY <3>3, <3>4 DEF Sortable
  <2>2. CASE Ids(lo, hi) # {}
    <3> DEFINE n == Cardinality(P)
    <3>1. /\ Sortable(P) /\ n \in Nat /\ C \in [1..n -> P]
          /\ {C[i] : i \in 1..n} = P
          /\ \A p \in P : p[2] \in from..hi
      BY <2>2, CollectedAre
    <3>2. \A i \in 1..n : i <= (C[i][2] - from + 1) + Cardinality(Twice(w))
      BY <2>2, Places
    <3>3. Cardinality(Twice(w)) \in Nat
      <4>1. IsFiniteSet(Epochs)
        BY Numbers, FS_Interval DEF Epochs
      <4>2. Twice(w) \subseteq Epochs
        BY WalkedTyped DEF Twice, Found
      <4>3. QED
        BY <4>1, <4>2, FS_Subset, FS_CardinalityType
    <3>4. \A e \in Named(lo, hi, w) : <<e, e>> \in P /\ e \in Int /\ e # 0
      <4>1. Named(lo, hi, w) \subseteq Epochs
        BY NamedAre, WalkedTyped
      <4>2. \A e \in Named(lo, hi, w) : <<e, e>> \in P
        BY DEF Pairs
      <4>3. \A e \in Epochs : e \in Int /\ e # 0
        BY DEF Epochs
      <4> HIDE DEF P
      <4>4. QED
        BY <4>1, <4>2, <4>3, Zenon
    <3> HIDE DEF P, C, n, from
    <3>5. Len(C) = n
      BY <3>1
    <3>6. k \in Int /\ k <= n /\ k <= hi - from + 1 /\ (k = n \/ k = hi - from + 1)
      BY <1>2, <3>1, <3>5 DEF Smaller
    <3> HIDE DEF k
    <3>7. V \subseteq P
      BY <3>1, <3>6
    <3>8. ASSUME NEW e \in Named(lo, hi, w), e <= hi - Cardinality(Twice(w))
          PROVE  <<e, e>> \in V
      <4>1. PICK i \in 1..n : C[i] = <<e, e>>
        BY <3>1, <3>4
      <4>2. i <= (e - from + 1) + Cardinality(Twice(w))
        BY <3>2, <4>1
      <4>3. e \in Int /\ e # 0
        BY <3>4
      <4>4. i \in 1..k
        BY <1>2, <3>1, <3>3, <3>6, <3>8, <4>2, <4>3
      <4>5. QED
        BY <4>1, <4>3, <4>4
    <3> HIDE DEF V
    <3>9. Sortable(V)
      BY <3>1, <3>7 DEF Sortable
    <3>10. QED
      BY <3>7, <3>8, <3>9
  <2>3. QED
    BY <2>1, <2>2
<1>4. \A p \in V : p[1] = p[2] /\ p[2] \in Named(lo, hi, w)
  <2> SUFFICES ASSUME NEW p \in V PROVE p[1] = p[2] /\ p[2] \in Named(lo, hi, w)
    OBVIOUS
  <2>1. p \in P /\ p[1] # 0
    <3> HIDE DEF C, k, P
    <3>1. QED
      BY <1>3
  <2>2. QED
    BY <2>1 DEF Pairs
<1> HIDE DEF V, s
<1>5. /\ m \in Nat /\ s \in [1..m -> V]
      /\ \A i, j \in 1..m : i < j => Before(s[i], s[j])
      /\ {s[i] : i \in 1..m} = V
  <2>1. Enumerated(InOrder(V), V)
    BY <1>3, InOrderSorts, Enumerates
  <2>2. QED
    BY <1>1, <2>1 DEF Enumerated
<1> HIDE DEF m
<1>6. DOMAIN s = 1..m /\ Len(s) = m
  BY <1>5
<1>7. \A i \in 1..m : s[i][1] = s[i][2] /\ s[i][2] \in Named(lo, hi, w) /\ s[i][2] \in Int
  <2>1. Named(lo, hi, w) \subseteq Int
    BY NamedAre, WalkedTyped DEF Epochs
  <2>2. QED
    BY <1>4, <1>5, <2>1
<1>8. \A i, j \in 1..m : i < j => s[i][2] < s[j][2]
  BY <1>5, <1>7 DEF Before
<1>9. \A e \in Named(lo, hi, w) :
          e <= hi - Cardinality(Twice(w)) => \E i \in 1..m : s[i][1] = e
  <2> SUFFICES ASSUME NEW e \in Named(lo, hi, w), e <= hi - Cardinality(Twice(w))
               PROVE  \E i \in 1..m : s[i][1] = e
    OBVIOUS
  <2>1. <<e, e>> \in V
    BY <1>3
  <2>2. PICK i \in 1..m : s[i] = <<e, e>>
    BY <1>5, <2>1
  <2>3. QED
    BY <2>2
<1>10. QED
  BY <1>5, <1>6, <1>7, <1>8, <1>9 DEF s

\* What a bulk read names has an entry when it is done.
LEMMA NamedHaveEntries ==
  ASSUME TypeOK, NEW lo \in Epochs, NEW hi \in Epochs, NEW w \in Walks(lo, hi),
         NEW complete, SnapshotBulk(lo, hi, complete, w)
  PROVE  Named(lo, hi, w) \subseteq entries'
<1>1. w \in [Unknown(Ids(lo, hi)) -> Findings]
  BY WalkedTyped
<1>2. entries' = AskedOf(Found(w, {"asked", "broken"})) \cup Found(w, {"named", "both"})
  BY DEF SnapshotBulk
<1>3. Found(w, {"asked"}) \cap final \subseteq Unknown(Found(w, {"asked", "broken"})) \cap final
  BY <1>1 DEF Found, Unknown
<1>4. QED
  BY <1>2, <1>3 DEF Named, AskedOf

LEMMA BulkAnswers ==
  ASSUME TypeOK, NEW lo \in Epochs, NEW hi \in Epochs, lo <= hi, NEW w \in Walks(lo, hi),
         NEW complete \in BOOLEAN, SnapshotBulk(lo, hi, complete, w)
  PROVE  BulkAnswer
<1> DEFINE s == Valid(lo, hi, w)
           from == Larger(lo, First)
           given(gone) == [i \in DOMAIN s |-> [cid |-> s[i][1], data |-> DataOf(s[i][1], gone)]]
<1>1. PICK m \in Nat :
          /\ DOMAIN s = 1..m /\ Len(s) = m
          /\ \A i \in 1..m : s[i][1] = s[i][2] /\ s[i][2] \in Named(lo, hi, w)
          /\ \A i, j \in 1..m : i < j => s[i][2] < s[j][2]
          /\ \A e \in Named(lo, hi, w) :
                 e <= hi - Cardinality(Twice(w)) => \E i \in 1..m : s[i][1] = e
  BY ValidShape
<1>2. /\ from \in Int /\ hi \in Int
      /\ \A e \in Named(lo, hi, w) : e \in from..hi /\ e \in Int
  BY NamedAre, WalkedTyped, FirstTyped DEF Epochs, Larger
<1> HIDE DEF s
<1>3. /\ request'.kind = "bulk" /\ request'.lo = lo /\ request'.hi = hi
      /\ request'.complete = complete /\ request'.walk = w
      /\ answer'.ok => \/ complete /\ answer'.snapshots = <<>>
                       \/ /\ \E gone : answer'.snapshots = given(gone)
                          /\ complete => Len(s) = hi - from + 1
  <2> DEFINE refused == complete /\ Len(s) # hi - from + 1
             a(gone) == IF refused THEN [ok |-> TRUE, snapshots |-> <<>>]
                        ELSE FetchedOf(s, gone, complete)
  <2>1. PICK gone : Serve([kind |-> "bulk", lo |-> lo, hi |-> hi, complete |-> complete,
                           walk |-> w], a(gone))
    BY DEF SnapshotBulk, s
  <2>2. a(gone).ok => \/ complete /\ a(gone).snapshots = <<>>
                      \/ a(gone).snapshots = given(gone) /\ ~refused
    <3> HIDE DEF given
    <3>1. CASE refused
      BY <3>1
    <3>2. CASE ~refused
      <4>1. \/ complete /\ a(gone) = [ok |-> TRUE, snapshots |-> <<>>]
            \/ a(gone) = Failed
            \/ a(gone) = [ok |-> TRUE, snapshots |-> given(gone)]
        BY <3>2, Zenon DEF FetchedOf, given
      <4>2. QED
        BY <3>2, <4>1 DEF Failed
    <3>3. QED
      BY <3>1, <3>2
  <2> HIDE DEF a, given, from
  <2>3. QED
    BY <2>1, <2>2 DEF Serve
<1>4. ASSUME answer'.ok, complete, answer'.snapshots = <<>>
      PROVE  BulkAnswer
  BY <1>3, <1>4 DEF BulkAnswer
<1>5. ASSUME NEW gone, answer'.snapshots = given(gone), complete => Len(s) = hi - from + 1
      PROVE  BulkAnswer
  <2> DEFINE t == given(gone)
             cids == {t[i].cid : i \in DOMAIN t}
             sure == {e \in Ids(lo, hi) : e <= hi - Cardinality(Twice(w))}
  <2>1. DOMAIN t = 1..m /\ \A i \in 1..m : t[i].cid = s[i][1]
    BY <1>1
  <2> HIDE DEF t, from
  <2>2. \A i, j \in DOMAIN t : i < j => t[i].cid < t[j].cid
    BY <1>1, <2>1
  <2>3. cids \subseteq (from..hi) \cap entries'
    BY <1>1, <1>2, <2>1, NamedHaveEntries
  <2>4. ASSUME complete PROVE cids = from..hi
    <3> DEFINE g == [i \in 1..m |-> s[i][2]]
    <3>1. g \in [1..m -> Int]
      BY <1>1, <1>2
    <3>2. \A i \in 1..m : from <= g[i] /\ g[i] < from + m
      BY <1>1, <1>2, <1>5, <2>4
    <3>3. \A i, j \in 1..m : i < j => g[i] < g[j]
      BY <1>1
    <3>4. \A i \in 1..m : g[i] = from + i - 1
      <4> HIDE DEF g
      <4>1. QED
        BY <1>2, <3>1, <3>2, <3>3, Consecutive
    <3>5. \A i \in 1..m : t[i].cid = from + i - 1
      BY <1>1, <2>1, <3>4
    <3>6. \A e \in from..hi : \E i \in 1..m : t[i].cid = e
      <4> SUFFICES ASSUME NEW e \in from..hi
                   PROVE  \E i \in 1..m : t[i].cid = e
        OBVIOUS
      <4>1. e - from + 1 \in 1..m /\ from + (e - from + 1) - 1 = e
        BY <1>1, <1>2, <1>5, <2>4
      <4>2. QED
        BY <3>5, <4>1
    <3>7. QED
      BY <2>1, <2>3, <3>6
  <2>5. sure \cap (entries \cup final)
            \subseteq cids \cup (blank \ entries) \cup Found(w, {"left", "broken"})
    <3> SUFFICES ASSUME NEW e \in Ids(lo, hi), e <= hi - Cardinality(Twice(w)),
                        e \in entries \cup final, e \notin blank \ entries,
                        e \notin Found(w, {"left", "broken"})
                 PROVE  e \in cids
      OBVIOUS
    <3>1. e \in Named(lo, hi, w)
      <4>1. CASE e \in entries
        BY <4>1 DEF Named
      <4>2. CASE e \notin entries
        <5>1. w \in [Unknown(Ids(lo, hi)) -> Findings]
          BY WalkedTyped
        <5>2. First # 0 /\ First <= e
          BY NamedAre, FirstTyped DEF Larger, Epochs
        <5>3. e \in DOMAIN w
          BY <4>2, <5>1, <5>2 DEF Unknown
        <5>4. w[e] \in {"asked", "named", "both"}
          BY <5>1, <5>3 DEF Findings, Found
        <5>5. QED
          BY <4>2, <5>3, <5>4 DEF Named, Found
      <4>3. QED
        BY <4>1, <4>2
    <3>2. PICK i \in 1..m : s[i][1] = e
      BY <1>1, <3>1
    <3>3. QED
      BY <2>1, <3>2
  <2> HIDE DEF cids, sure
  <2>6. QED
    BY <1>3, <1>5, <2>2, <2>3, <2>4, <2>5 DEF BulkAnswer, from, t, cids, sure
<1>6. ASSUME ~ answer'.ok
      PROVE  BulkAnswer
  BY <1>6 DEF BulkAnswer
<1>7. QED
  <2> HIDE DEF given, from
  <2>1. QED
    BY <1>3, <1>4, <1>5, <1>6

\* Bulk reads answer as BulkIsAligned says, for any interval, any walk, any
\* entries and bits that came or went in between, any size of a batch and
\* anything IPFS fails to give: the CIDs of an interval are cut by their number
\* alone, and that loses at most one epoch for each that is answered twice.
THEOREM BulkReadsAreAligned == Spec => BulkIsAligned
<1>1. TypeOK /\ [Next]_vars => [BulkAnswer]_vars
  BY WhoAnswers, BulkAnswers DEF BulkAnswer
<1>2. QED
  BY <1>1, TypeCorrect, PTL DEF Spec, BulkIsAligned
=============================================================================
