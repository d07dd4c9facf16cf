-------------------------- MODULE DistributorProofs --------------------------
(***************************************************************************)
(* Theorems of the distributor, for any set of projects and preloaders,    *)
(* any dependencies between them, and any number of epochs and releases.   *)
(***************************************************************************)
EXTENDS Distributor, FiniteSetTheorems, TLAPS

-----------------------------------------------------------------------------
(* Type correctness. *)

LEMMA InitTyped == Init => TypeOK
  BY DistributorAssumption
     DEF Init, TypeOK, DistributorAssumption, Units, Epochs, None, Empty

\* A release that has a place was handled, and has an epoch.
Handled ==
    \A n \in Releases : IF n <= released
                          THEN epochOf[n] \in Epochs
                          ELSE epochOf[n] = 0 /\ stage[n] = "none" /\ direct[n] = {}

LEMMA HandledInit == Init => Handled
  BY DEF Init, Handled, Releases, DistributorAssumption

LEMMA ActiveHandled ==
  ASSUME TypeOK, Handled, NEW n \in Releases, stage[n] # "none" \/ direct[n] # {}
  PROVE  n <= released /\ epochOf[n] \in Epochs
  BY DEF Handled

LEMMA TypePreserved == TypeOK /\ Handled /\ [Next]_vars => TypeOK'
<1> SUFFICES ASSUME TypeOK, Handled, [Next]_vars
             PROVE  TypeOK'
  OBVIOUS
<1> USE DEF memory
<1>1. ASSUME NEW e \in Epochs, HandleRelease(e)
      PROVE  TypeOK'
  <2>1. /\ released' \in 0..MaxReleases
        /\ epochOf' \in [Releases -> 0..MaxEpoch]
    BY <1>1, DistributorAssumption
       DEF HandleRelease, TypeOK, Epochs, Releases, DistributorAssumption
  <2>2. toForget' \subseteq Epochs
    BY <1>1 DEF HandleRelease, TypeOK
  <2>3. QED
    BY <1>1, <2>1, <2>2 DEF HandleRelease, TypeOK, Gated
<1>2. ASSUME NEW e \in Epochs, Forget(e) \/ ForgetFails(e)
      PROVE  TypeOK'
  BY <1>2 DEF Forget, ForgetFails, TypeOK
<1>3. ASSUME NEW n \in Releases, ExecPreloaders(n)
      PROVE  TypeOK'
  BY <1>3, ActiveHandled DEF ExecPreloaders, TypeOK
<1>4. ASSUME NEW n \in Releases, WaiterStart(n)
      PROVE  TypeOK'
  <2>1. conds[epochOf[n]] \in Releases \cup {None, Empty}
    BY <1>4, ActiveHandled DEF WaiterStart, TypeOK
  <2>2. QED
    BY <1>4, <2>1 DEF WaiterStart, TypeOK
<1>5. ASSUME NEW n \in Releases, NEW ok \in SUBSET Preloaders, ResultsIn(n, ok)
      PROVE  TypeOK'
  BY <1>5 DEF ResultsIn, TypeOK
<1>6. ASSUME NEW n \in Releases, WaiterEnds(n)
      PROVE  TypeOK'
  BY <1>6 DEF WaiterEnds, TypeOK
<1>7. ASSUME NEW n \in Releases, WaiterFails(n)
      PROVE  TypeOK'
  <2>1. verdict' \in [Units -> {"none", "success", "failed"}]
    BY <1>7 DEF WaiterFails, TypeOK
  <2>2. QED
    BY <1>7, <2>1 DEF WaiterFails, TypeOK
<1>8. ASSUME NEW n \in Releases, NEW p \in Projects, Distribute(n, p) \/ Serve(n, p)
      PROVE  TypeOK'
  <2>1. sent' \in [Units -> Nat]
    BY <1>8 DEF Distribute, Serve, Enqueue, TypeOK
  <2>2. QED
    BY <1>8, <2>1 DEF Distribute, Serve, TypeOK
<1>9. ASSUME NEW n \in Releases, NEW p \in Projects, DistributeFails(n, p) \/ Refuse(n, p)
      PROVE  TypeOK'
  <2>1. CASE DistributeFails(n, p)
    BY <2>1 DEF DistributeFails, TypeOK
  <2>2. CASE Refuse(n, p)
    <3>1. <<p, epochOf[n]>> \in Units
      BY <2>2, ActiveHandled DEF Refuse, Units
    <3>2. QED
      BY <2>2, <3>1 DEF Refuse, TypeOK
  <2>3. QED
    BY <1>9, <2>1, <2>2
<1>10. ASSUME Crash
       PROVE  TypeOK'
  BY <1>10 DEF Crash, TypeOK
<1>11. ASSUME UNCHANGED vars
       PROVE  TypeOK'
  BY <1>11 DEF vars, TypeOK
<1>12. QED
  BY <1>1, <1>2, <1>3, <1>4, <1>5, <1>6, <1>7, <1>8, <1>9, <1>10, <1>11 DEF Next

LEMMA HandledPreserved == TypeOK /\ Handled /\ [Next]_vars => Handled'
<1> SUFFICES ASSUME TypeOK, Handled, [Next]_vars, NEW n \in Releases
             PROVE  IF n <= released'
                      THEN epochOf'[n] \in Epochs
                      ELSE epochOf'[n] = 0 /\ stage'[n] = "none" /\ direct'[n] = {}
  BY DEF Handled
<1> DEFINE Fine == IF n <= released'
                     THEN epochOf'[n] \in Epochs
                     ELSE epochOf'[n] = 0 /\ stage'[n] = "none" /\ direct'[n] = {}
<1> USE DEF memory
<1>1. ASSUME NEW e \in Epochs, HandleRelease(e)
      PROVE  Fine
  BY <1>1, DistributorAssumption
     DEF HandleRelease, Handled, TypeOK, Releases, DistributorAssumption
<1>2. ASSUME UNCHANGED <<released, epochOf>>,
             stage'[n] # "none" => stage[n] # "none",
             direct'[n] \subseteq direct[n]
      PROVE  Fine
  BY <1>2 DEF Handled
<1>3. ASSUME NEW e \in Epochs, Forget(e) \/ ForgetFails(e)
      PROVE  Fine
  BY <1>2, <1>3 DEF Forget, ForgetFails
<1>4. ASSUME NEW m \in Releases,
             \/ ExecPreloaders(m) \/ WaiterStart(m) \/ WaiterEnds(m) \/ WaiterFails(m)
             \/ \E ok \in SUBSET Preloaders : ResultsIn(m, ok)
      PROVE  Fine
  BY <1>2, <1>4
     DEF ExecPreloaders, WaiterStart, WaiterEnds, WaiterFails, ResultsIn, TypeOK
<1>5. ASSUME NEW m \in Releases, NEW p \in Projects,
             Distribute(m, p) \/ DistributeFails(m, p) \/ Serve(m, p) \/ Refuse(m, p)
      PROVE  Fine
  BY <1>2, <1>5 DEF Distribute, DistributeFails, Serve, Refuse, TypeOK
<1>6. ASSUME Crash
      PROVE  Fine
  BY <1>2, <1>6 DEF Crash, TypeOK
<1>7. ASSUME UNCHANGED vars
      PROVE  Fine
  BY <1>2, <1>7 DEF vars
<1>8. QED
  BY <1>1, <1>3, <1>4, <1>5, <1>6, <1>7 DEF Next

\* Every reachable state of the distributor is well typed.
THEOREM TypeCorrect == Spec => []TypeOK
<1>1. Init => TypeOK /\ Handled
  BY InitTyped, HandledInit
<1>2. TypeOK /\ Handled /\ [Next]_vars => (TypeOK /\ Handled)'
  BY TypePreserved, HandledPreserved
<1>3. QED
  BY <1>1, <1>2, PTL DEF Spec

-----------------------------------------------------------------------------
(* The conditions of an epoch. *)

Gone(n) == stage[n] \in {"over", "failed"}

\* A release of an epoch never leaves it, and a waiter that came to an end
\* stays there.
LEMMA PlacesKept ==
  ASSUME TypeOK, Handled, [Next]_vars, NEW n \in Releases, n <= released
  PROVE  /\ epochOf'[n] = epochOf[n]
         /\ Gone(n) => stage'[n] = stage[n]
<1> USE DEF memory
<1>1. ASSUME NEW e \in Epochs, HandleRelease(e)
      PROVE  epochOf'[n] = epochOf[n] /\ stage'[n] = stage[n]
  BY <1>1 DEF HandleRelease, TypeOK, Releases
<1>2. ASSUME NEW e \in Epochs, Forget(e) \/ ForgetFails(e)
      PROVE  epochOf'[n] = epochOf[n] /\ stage'[n] = stage[n]
  BY <1>2 DEF Forget, ForgetFails
<1>3. ASSUME NEW m \in Releases,
             \/ ExecPreloaders(m) \/ WaiterStart(m) \/ WaiterEnds(m) \/ WaiterFails(m)
             \/ \E ok \in SUBSET Preloaders : ResultsIn(m, ok)
      PROVE  /\ epochOf'[n] = epochOf[n]
             /\ Gone(n) => stage'[n] = stage[n]
  BY <1>3
     DEF ExecPreloaders, WaiterStart, WaiterEnds, WaiterFails, ResultsIn, TypeOK, Gone
<1>4. ASSUME NEW m \in Releases, NEW p \in Projects,
             Distribute(m, p) \/ DistributeFails(m, p) \/ Serve(m, p) \/ Refuse(m, p)
      PROVE  epochOf'[n] = epochOf[n] /\ stage'[n] = stage[n]
  BY <1>4 DEF Distribute, DistributeFails, Serve, Refuse
<1>5. ASSUME Crash
      PROVE  /\ epochOf'[n] = epochOf[n]
             /\ Gone(n) => stage'[n] = stage[n]
  BY <1>5 DEF Crash, TypeOK, Gone
<1>6. ASSUME UNCHANGED vars
      PROVE  epochOf'[n] = epochOf[n] /\ stage'[n] = stage[n]
  BY <1>6 DEF vars
<1>7. QED
  BY <1>1, <1>2, <1>3, <1>4, <1>5, <1>6 DEF Next, Gone

LEMMA OfEpochHandled ==
  ASSUME Handled, NEW e \in Epochs, NEW n \in ReleasesOf(e)
  PROVE  n \in Releases /\ n <= released
  BY DEF Handled, ReleasesOf, Epochs

\* Only the end of a waiter brings a release to "over", and it drops the
\* entry of its epoch.
LEMMA OverDrops ==
  ASSUME TypeOK, Handled, [Next]_vars, NEW n \in Releases,
         stage[n] # "over", stage'[n] = "over"
  PROVE  WaiterEnds(n)
<1> USE DEF memory
<1>1. ASSUME NEW e \in Epochs, HandleRelease(e)
      PROVE  FALSE
  BY <1>1 DEF HandleRelease, TypeOK
<1>2. ASSUME NEW m \in Releases,
             \/ ExecPreloaders(m) \/ WaiterStart(m) \/ WaiterFails(m)
             \/ \E ok \in SUBSET Preloaders : ResultsIn(m, ok)
      PROVE  FALSE
  BY <1>2 DEF ExecPreloaders, WaiterStart, WaiterFails, ResultsIn, TypeOK
<1>3. ASSUME Crash
      PROVE  FALSE
  BY <1>3 DEF Crash, TypeOK
<1>4. ASSUME UNCHANGED stage
      PROVE  FALSE
  BY <1>4
<1>5. ASSUME NEW m \in Releases, WaiterEnds(m)
      PROVE  m = n
  BY <1>5 DEF WaiterEnds, TypeOK
<1>6. QED
  BY <1>1, <1>2, <1>3, <1>4, <1>5
     DEF Next, Forget, ForgetFails, Distribute, DistributeFails, Serve, Refuse, vars

\* How a step changes the conditions, and who starts to hold some.
LEMMA CondsEffects ==
  ASSUME TypeOK, Handled, [Next]_vars
  PROVE  \/ conds' = conds /\ held' = held
         \/ \E n \in Releases : /\ ExecPreloaders(n)
                               /\ conds' = [conds EXCEPT ![epochOf[n]] = n]
                               /\ held' = held
         \/ \E n \in Releases : WaiterStart(n)
         \/ \E n \in Releases : WaiterEnds(n)
         \/ Crash
<1> USE DEF memory
<1>1. ASSUME NEW e \in Epochs, HandleRelease(e) \/ Forget(e) \/ ForgetFails(e)
      PROVE  conds' = conds /\ held' = held
  BY <1>1 DEF HandleRelease, Forget, ForgetFails
<1>2. ASSUME NEW m \in Releases,
             WaiterFails(m) \/ \E ok \in SUBSET Preloaders : ResultsIn(m, ok)
      PROVE  conds' = conds /\ held' = held
  BY <1>2 DEF WaiterFails, ResultsIn
<1>3. ASSUME NEW m \in Releases, NEW p \in Projects,
             Distribute(m, p) \/ DistributeFails(m, p) \/ Serve(m, p) \/ Refuse(m, p)
      PROVE  conds' = conds /\ held' = held
  BY <1>3 DEF Distribute, DistributeFails, Serve, Refuse
<1>4. ASSUME NEW m \in Releases, ExecPreloaders(m)
      PROVE  conds' = [conds EXCEPT ![epochOf[m]] = m] /\ held' = held
  BY <1>4 DEF ExecPreloaders
<1>5. ASSUME UNCHANGED vars
      PROVE  conds' = conds /\ held' = held
  BY <1>5 DEF vars
<1>6. QED
  BY <1>1, <1>2, <1>3, <1>4, <1>5 DEF Next

LEMMA DropsPreserved ==
  TypeOK /\ Handled /\ EntriesAreDropped /\ [Next]_vars => EntriesAreDropped'
<1> SUFFICES ASSUME TypeOK, Handled, EntriesAreDropped, [Next]_vars,
                    NEW e \in Epochs, conds'[e] # None
             PROVE  \E n \in ReleasesOf(e)' : stage'[n] # "over"
  BY DEF EntriesAreDropped
<1>1. CASE conds[e] # None
  <2>1. PICK n \in ReleasesOf(e) : stage[n] # "over"
    BY <1>1 DEF EntriesAreDropped
  <2>2. n \in Releases /\ epochOf[n] = e /\ epochOf'[n] = e
    BY OfEpochHandled, PlacesKept DEF ReleasesOf
  <2>3. stage'[n] # "over"
    <3> SUFFICES ASSUME stage'[n] = "over" PROVE FALSE
      OBVIOUS
    <3>1. WaiterEnds(n)
      BY <2>1, <2>2, OverDrops
    <3>2. QED
      BY <2>2, <3>1 DEF WaiterEnds, TypeOK
  <2>4. QED
    BY <2>2, <2>3 DEF ReleasesOf
<1>2. CASE conds[e] = None
  <2>1. PICK n \in Releases : /\ ExecPreloaders(n) \/ WaiterStart(n)
                              /\ epochOf[n] = e
    BY <1>2, CondsEffects DEF ExecPreloaders, WaiterStart, WaiterEnds, Crash, TypeOK
  <2>2. epochOf'[n] = e /\ stage'[n] # "over"
    BY <2>1 DEF ExecPreloaders, WaiterStart, TypeOK
  <2>3. QED
    BY <2>1, <2>2 DEF ReleasesOf
<1>3. QED
  BY <1>1, <1>2

\* An entry of _preload_completion_conditions stays behind only when a
\* waiter of its epoch is still under way, failed or was cancelled.
THEOREM NoEntryLeftBehind == Spec => []EntriesAreDropped
<1>1. Init => TypeOK /\ Handled /\ EntriesAreDropped
  BY InitTyped, HandledInit DEF Init, EntriesAreDropped
<1>2. TypeOK /\ Handled /\ EntriesAreDropped /\ [Next]_vars
        => (TypeOK /\ Handled /\ EntriesAreDropped)'
  BY TypePreserved, HandledPreserved, DropsPreserved
<1>3. QED
  BY <1>1, <1>2, PTL DEF Spec

\* What keeps an end of another waiter in sight until this one has read its
\* conditions.
StartsLate ==
    \A n \in Releases : stage[n] = "start" /\ conds[epochOf[n]] \in {None, Empty} =>
        \E m \in ReleasesOf(epochOf[n]) \ {n} : Gone(m)

LEMMA AnotherStaysGone ==
  ASSUME TypeOK, Handled, [Next]_vars, NEW n \in Releases,
         \E m \in ReleasesOf(epochOf[n]) \ {n} : Gone(m)
  PROVE  /\ epochOf[n] \in Epochs /\ epochOf'[n] = epochOf[n]
         /\ \E m \in (ReleasesOf(epochOf[n]))' \ {n} : Gone(m)'
<1>1. PICK m \in ReleasesOf(epochOf[n]) \ {n} : Gone(m)
  OBVIOUS
<1>2. m \in Releases /\ m <= released /\ epochOf[m] = epochOf[n] /\ epochOf[n] \in Epochs
  BY <1>1, ActiveHandled DEF ReleasesOf, Gone
<1>3. n <= released
  BY <1>2 DEF Handled, Epochs
<1>4. epochOf'[n] = epochOf[n] /\ epochOf'[m] = epochOf[n] /\ stage'[m] = stage[m]
  BY <1>1, <1>2, <1>3, PlacesKept
<1>5. QED
  BY <1>1, <1>2, <1>4 DEF ReleasesOf, Gone

LEMMA StartsLatePreserved ==
  TypeOK /\ Handled /\ StartsLate /\ [Next]_vars => StartsLate'
<1> SUFFICES ASSUME TypeOK, Handled, StartsLate, [Next]_vars, NEW n \in Releases,
                    stage'[n] = "start", conds'[epochOf'[n]] \in {None, Empty}
             PROVE  \E m \in (ReleasesOf(epochOf[n]))' \ {n} : Gone(m)'
  BY DEF StartsLate
<1> USE DEF memory
<1>1. stage[n] = "start" \/ ExecPreloaders(n)
  <2>1. ASSUME NEW m \in Releases,
               \/ WaiterStart(m) \/ WaiterEnds(m) \/ WaiterFails(m)
               \/ \E ok \in SUBSET Preloaders : ResultsIn(m, ok)
        PROVE  stage[n] = "start"
    BY <2>1 DEF WaiterStart, WaiterEnds, WaiterFails, ResultsIn, TypeOK
  <2>2. ASSUME NEW m \in Releases, ExecPreloaders(m)
        PROVE  stage[n] = "start" \/ m = n
    BY <2>2 DEF ExecPreloaders, TypeOK
  <2>3. ASSUME NEW e \in Epochs, HandleRelease(e)
        PROVE  stage[n] = "start"
    BY <2>3 DEF HandleRelease, TypeOK
  <2>4. ASSUME Crash
        PROVE  stage[n] = "start"
    BY <2>4 DEF Crash, TypeOK
  <2>5. ASSUME UNCHANGED stage
        PROVE  stage[n] = "start"
    BY <2>5
  <2>6. QED
    BY <2>1, <2>2, <2>3, <2>4, <2>5
       DEF Next, Forget, ForgetFails, Distribute, DistributeFails, Serve, Refuse, vars
<1>2. CASE ExecPreloaders(n)
  <2>1. conds'[epochOf'[n]] = n
    BY <1>2, ActiveHandled DEF ExecPreloaders, TypeOK
  <2>2. QED
    BY <2>1 DEF Releases, None, Empty
<1>3. CASE stage[n] = "start"
  <2>1. n <= released /\ epochOf[n] \in Epochs /\ epochOf'[n] = epochOf[n]
    BY <1>3, ActiveHandled, PlacesKept
  <2>2. CASE conds[epochOf[n]] \in {None, Empty}
    <3>1. \E m \in ReleasesOf(epochOf[n]) \ {n} : Gone(m)
      BY <1>3, <2>2 DEF StartsLate
    <3>2. QED
      BY <3>1, AnotherStaysGone
  <2>3. CASE conds[epochOf[n]] \notin {None, Empty}
    <3>1. PICK m \in Releases : WaiterEnds(m) /\ epochOf[m] = epochOf[n]
      <4> DEFINE e == epochOf[n]
      <4>1. e \in Epochs /\ conds[e] \in Releases /\ conds'[e] \in {None, Empty}
        BY <2>1, <2>3 DEF TypeOK
      <4>2. conds'[e] \notin Releases
        BY <4>1 DEF Releases, None, Empty
      <4>3. ~Crash
        BY DEF Crash, TypeOK
      <4>4. ASSUME NEW m \in Releases, ExecPreloaders(m)
            PROVE  conds'[e] \in Releases
        BY <4>1, <4>4 DEF ExecPreloaders, TypeOK
      <4>5. ASSUME NEW m \in Releases, WaiterStart(m)
            PROVE  conds'[e] = conds[e]
        <5>1. CASE epochOf[m] = e
          BY <2>3, <4>1, <4>5, <5>1 DEF WaiterStart, TypeOK
        <5>2. CASE epochOf[m] # e
          BY <4>1, <4>5, <5>2 DEF WaiterStart, TypeOK
        <5>3. QED
          BY <5>1, <5>2
      <4>6. ASSUME NEW m \in Releases, WaiterEnds(m)
            PROVE  epochOf[m] = e
        BY <4>1, <4>2, <4>6 DEF WaiterEnds, TypeOK
      <4>7. QED
        BY <4>1, <4>2, <4>3, <4>4, <4>5, <4>6, CondsEffects
    <3>2. m # n /\ stage'[m] = "over" /\ epochOf'[m] = epochOf'[n]
      BY <1>3, <2>1, <3>1 DEF WaiterEnds, TypeOK
    <3>3. QED
      BY <3>2 DEF ReleasesOf, Gone
  <2>4. QED
    BY <2>2, <2>3
<1>4. QED
  BY <1>1, <1>2, <1>3

LEMMA ConditionsPreserved ==
  TypeOK /\ Handled /\ StartsLate /\ ConditionsAreThere /\ [Next]_vars
    => ConditionsAreThere'
<1> SUFFICES ASSUME TypeOK, Handled, StartsLate, ConditionsAreThere, [Next]_vars,
                    NEW n \in Releases, held'[n] = Empty
             PROVE  \E m \in (ReleasesOf(epochOf[n]))' \ {n} : Gone(m)'
  BY DEF ConditionsAreThere, Gone
<1>1. held[n] = Empty \/ WaiterStart(n)
  BY CondsEffects DEF WaiterStart, WaiterEnds, Crash, TypeOK, None, Empty
<1>2. CASE held[n] = Empty
  <2>1. \E m \in ReleasesOf(epochOf[n]) \ {n} : Gone(m)
    BY <1>2 DEF ConditionsAreThere, Gone
  <2>2. QED
    BY <2>1, AnotherStaysGone
<1>3. CASE WaiterStart(n)
  <2>1. stage[n] = "start" /\ conds[epochOf[n]] \in {None, Empty}
    BY <1>3 DEF WaiterStart, TypeOK
  <2>2. \E m \in ReleasesOf(epochOf[n]) \ {n} : Gone(m)
    BY <2>1 DEF StartsLate
  <2>3. QED
    BY <2>2, AnotherStaysGone
<1>4. QED
  BY <1>1, <1>2, <1>3

\* A waiter whose conditions are gone, and which refuses every project
\* without a preloader having run, met the end of another release of the
\* same epoch.
THEOREM ConditionsOfOneEpoch == Spec => []ConditionsAreThere
<1> DEFINE Inv == TypeOK /\ Handled /\ StartsLate /\ ConditionsAreThere
<1>1. Init => Inv
  BY InitTyped, HandledInit DEF Init, StartsLate, ConditionsAreThere, None, Empty
<1>2. Inv /\ [Next]_vars => Inv'
  BY TypePreserved, HandledPreserved, StartsLatePreserved, ConditionsPreserved
<1>3. QED
  BY <1>1, <1>2, PTL DEF Spec

-----------------------------------------------------------------------------
(* The jobs. *)

\* A task of its own sends the job of a project without preloaders only.
DirectUngated == \A n \in Releases : direct[n] \cap Gated = {}

\* The release has earned a job of the project and has no right to another:
\* its task has sent it, or its waiter has looked at the project.
Spent(n, p) ==
    /\ Needs[p] \subseteq okBy[n]
    /\ p \notin direct[n]
    /\ p \in Gated => stage[n] \in {"serve", "over", "failed"} /\ p \notin left[n]

Used(p, e) == {n \in ReleasesOf(e) : Spent(n, p)}

SentOnce == \A p \in Projects, e \in Epochs : sent[<<p, e>>] <= Cardinality(Used(p, e))

LEMMA DirectPreserved == TypeOK /\ DirectUngated /\ [Next]_vars => DirectUngated'
<1> SUFFICES ASSUME TypeOK, DirectUngated, [Next]_vars, NEW n \in Releases
             PROVE  direct'[n] \cap Gated = {}
  BY DEF DirectUngated, Gated
<1> USE DEF memory
<1>1. ASSUME direct'[n] \subseteq direct[n]
      PROVE  direct'[n] \cap Gated = {}
  BY <1>1 DEF DirectUngated
<1>2. ASSUME NEW e \in Epochs, HandleRelease(e)
      PROVE  direct'[n] \cap Gated = {}
  BY <1>2 DEF HandleRelease, TypeOK, DirectUngated
<1>3. ASSUME NEW m \in Releases, NEW p \in Projects,
             Distribute(m, p) \/ DistributeFails(m, p) \/ Serve(m, p) \/ Refuse(m, p)
      PROVE  direct'[n] \cap Gated = {}
  BY <1>1, <1>3 DEF Distribute, DistributeFails, Serve, Refuse, TypeOK
<1>4. ASSUME Crash
      PROVE  direct'[n] \cap Gated = {}
  BY <1>4 DEF Crash
<1>5. CASE UNCHANGED direct
  BY <1>1, <1>5
<1>6. QED
  BY <1>2, <1>3, <1>4, <1>5
     DEF Next, Forget, ForgetFails, ExecPreloaders, WaiterStart, WaiterEnds,
         WaiterFails, ResultsIn, vars

\* What a release has spent stays spent.
LEMMA SpentKept ==
  ASSUME TypeOK, Handled, [Next]_vars,
         NEW n \in Releases, n <= released, NEW p \in Projects, Spent(n, p)
  PROVE  Spent(n, p)'
<1> USE DEF memory
<1>0. Needs[p] \subseteq Preloaders /\ (p \notin Gated => Needs[p] = {})
  BY DistributorAssumption DEF DistributorAssumption, Gated
<1>1. ASSUME NEW e \in Epochs, HandleRelease(e)
      PROVE  Spent(n, p)'
  <2>1. n # released + 1
    BY DEF TypeOK, Releases
  <2>2. QED
    BY <1>1, <2>1 DEF HandleRelease, TypeOK, Spent, Gated
<1>2. ASSUME NEW e \in Epochs, Forget(e) \/ ForgetFails(e)
      PROVE  Spent(n, p)'
  BY <1>2 DEF Forget, ForgetFails, Spent, Gated
<1>3. ASSUME NEW m \in Releases,
             \/ ExecPreloaders(m) \/ WaiterStart(m) \/ WaiterEnds(m) \/ WaiterFails(m)
      PROVE  Spent(n, p)'
  BY <1>3
     DEF ExecPreloaders, WaiterStart, WaiterEnds, WaiterFails, TypeOK, Spent, Gated
<1>4. ASSUME NEW m \in Releases, NEW ok \in SUBSET Preloaders, ResultsIn(m, ok)
      PROVE  Spent(n, p)'
  <2>1. CASE p \in Gated
    BY <1>4, <2>1 DEF ResultsIn, TypeOK, Spent, Gated
  <2>2. CASE p \notin Gated
    BY <1>0, <1>4, <2>2 DEF ResultsIn, TypeOK, Spent, Gated
  <2>3. QED
    BY <2>1, <2>2
<1>5. ASSUME NEW m \in Releases, NEW q \in Projects,
             Distribute(m, q) \/ DistributeFails(m, q) \/ Serve(m, q) \/ Refuse(m, q)
      PROVE  Spent(n, p)'
  BY <1>5 DEF Distribute, DistributeFails, Serve, Refuse, TypeOK, Spent, Gated
<1>6. ASSUME Crash
      PROVE  Spent(n, p)'
  BY <1>6 DEF Crash, TypeOK, Spent, Gated
<1>7. ASSUME UNCHANGED vars
      PROVE  Spent(n, p)'
  BY <1>7 DEF vars, Spent, Gated
<1>8. QED
  BY <1>1, <1>2, <1>3, <1>4, <1>5, <1>6, <1>7 DEF Next

LEMMA UsedGrows ==
  ASSUME TypeOK, Handled, [Next]_vars, NEW p \in Projects, NEW e \in Epochs
  PROVE  /\ Used(p, e) \subseteq Used(p, e)'
         /\ IsFiniteSet(Used(p, e)) /\ IsFiniteSet(Used(p, e)')
         /\ Cardinality(Used(p, e)) \in Nat /\ Cardinality(Used(p, e)') \in Nat
         /\ Cardinality(Used(p, e)) <= Cardinality(Used(p, e)')
<1>1. Used(p, e) \subseteq Used(p, e)'
  <2> SUFFICES ASSUME NEW n \in Used(p, e)
               PROVE  n \in Used(p, e)'
    OBVIOUS
  <2>1. n \in Releases /\ epochOf[n] = e /\ n <= released /\ Spent(n, p)
    BY OfEpochHandled DEF Used, ReleasesOf
  <2>2. epochOf'[n] = e /\ Spent(n, p)'
    BY <2>1, PlacesKept, SpentKept
  <2>3. QED
    BY <2>1, <2>2 DEF Used, ReleasesOf
<1>2. IsFiniteSet(Releases)
  BY FS_Interval, DistributorAssumption DEF Releases, DistributorAssumption
<1>3. Used(p, e) \in SUBSET Releases /\ Used(p, e)' \in SUBSET Releases
  BY DEF Used, ReleasesOf
<1>4. IsFiniteSet(Used(p, e)) /\ IsFiniteSet(Used(p, e)')
  BY <1>2, <1>3, FS_Subset
<1>5. QED
  BY <1>1, <1>4, FS_Subset, FS_CardinalityType

\* Only a release that has not spent its job sends one, and it spends it.
LEMMA SenderSpends ==
  ASSUME TypeOK, Handled, DirectUngated,
         NEW n \in Releases, NEW p \in Projects, Distribute(n, p) \/ Serve(n, p)
  PROVE  \E e \in Epochs : /\ n \notin Used(p, e) /\ n \in Used(p, e)'
                          /\ sent' = [sent EXCEPT ![<<p, e>>] = @ + 1]
<1>1. CASE Distribute(n, p)
  <2>1. epochOf[n] \in Epochs
    BY <1>1, ActiveHandled DEF Distribute
  <2>2. p \notin Gated /\ Needs[p] = {}
    BY <1>1 DEF Distribute, DirectUngated, Gated
  <2>3. ~Spent(n, p) /\ Spent(n, p)'
    BY <1>1, <2>2 DEF Distribute, Spent, TypeOK, Gated
  <2>4. QED
    BY <1>1, <2>1, <2>3 DEF Distribute, Enqueue, Used, ReleasesOf
<1>2. CASE Serve(n, p)
  <2>1. epochOf[n] \in Epochs
    BY <1>2, ActiveHandled DEF Serve
  <2>2. p \in Gated /\ p \notin direct[n]
    BY <1>2 DEF Serve, TypeOK, DirectUngated
  <2>3. ~Spent(n, p) /\ Spent(n, p)'
    BY <1>2, <2>2 DEF Serve, Satisfied, Spent, TypeOK, Gated
  <2>4. QED
    BY <1>2, <2>1, <2>3 DEF Serve, Enqueue, Used, ReleasesOf
<1>3. QED
  BY <1>1, <1>2

LEMMA SentOncePreserved ==
  TypeOK /\ Handled /\ DirectUngated /\ SentOnce /\ [Next]_vars => SentOnce'
<1> SUFFICES ASSUME TypeOK, Handled, DirectUngated, SentOnce, [Next]_vars,
                    NEW p \in Projects, NEW e \in Epochs
             PROVE  sent'[<<p, e>>] <= Cardinality(Used(p, e)')
  BY DEF SentOnce
<1> DEFINE U == Used(p, e)
           V == Used(p, e)'
<1>1. /\ U \subseteq V /\ IsFiniteSet(U) /\ IsFiniteSet(V)
      /\ Cardinality(U) \in Nat /\ Cardinality(V) \in Nat
      /\ Cardinality(U) <= Cardinality(V)
  BY UsedGrows
<1>2. sent[<<p, e>>] \in Nat /\ sent[<<p, e>>] <= Cardinality(U)
  BY DEF TypeOK, Units, SentOnce
<1> HIDE DEF U, V
<1>3. CASE sent'[<<p, e>>] = sent[<<p, e>>]
  BY <1>1, <1>2, <1>3 DEF V
<1>4. CASE \E n \in Releases, q \in Projects : Distribute(n, q) \/ Serve(n, q)
  <2>1. PICK n \in Releases, q \in Projects : Distribute(n, q) \/ Serve(n, q)
    BY <1>4
  <2>a. PICK f \in Epochs : /\ n \notin Used(q, f) /\ n \in Used(q, f)'
                             /\ sent' = [sent EXCEPT ![<<q, f>>] = @ + 1]
    BY <2>1, SenderSpends
  <2>b. sent' = [u \in Projects \X Epochs |-> IF u = <<q, f>> THEN sent[u] + 1 ELSE sent[u]]
    BY <2>a DEF TypeOK, Units
  <2>2. CASE q = p /\ f = e
    <3>1. n \notin U /\ n \in V /\ sent'[<<p, e>>] = sent[<<p, e>>] + 1
      <4>1. n \notin U /\ n \in V
        BY <2>a, <2>2 DEF U, V
      <4>2. sent'[<<p, e>>] = sent[<<p, e>>] + 1
        BY <2>b, <2>2 DEF Units
      <4>3. QED
        BY <4>1, <4>2
    <3>2. Cardinality(U \cup {n}) = Cardinality(U) + 1
      BY <1>1, <3>1, FS_AddElement
    <3>3. Cardinality(U \cup {n}) <= Cardinality(V)
      BY <1>1, <3>1, FS_Subset
    <3>4. QED
      BY <1>1, <1>2, <3>1, <3>2, <3>3 DEF V
  <2>3. CASE ~(q = p /\ f = e)
    <3>1. sent'[<<p, e>>] = sent[<<p, e>>]
      BY <2>b, <2>3 DEF Units
    <3>2. QED
      BY <1>3, <3>1
  <2>4. QED
    BY <2>2, <2>3
<1>5. CASE UNCHANGED sent
  BY <1>3, <1>5
<1>6. QED
  BY <1>4, <1>5
     DEF Next, HandleRelease, Forget, ForgetFails, ExecPreloaders, WaiterStart,
         WaiterEnds, WaiterFails, ResultsIn, DistributeFails, Refuse, Crash, vars

LEMMA SpentIsEarned ==
  ASSUME TypeOK, SentOnce
  PROVE  JobsAreEarned
<1> SUFFICES ASSUME NEW p \in Projects, NEW e \in Epochs
             PROVE  sent[<<p, e>>] <= Cardinality({n \in ReleasesOf(e) : Needs[p] \subseteq okBy[n]})
  BY DEF JobsAreEarned
<1> DEFINE W == {n \in ReleasesOf(e) : Needs[p] \subseteq okBy[n]}
<1>1. IsFiniteSet(Releases)
  BY FS_Interval, DistributorAssumption DEF Releases, DistributorAssumption
<1>2. IsFiniteSet(W)
  BY <1>1, FS_Subset DEF ReleasesOf
<1>3. Used(p, e) \in SUBSET W
  BY DEF Used, Spent
<1>4. /\ Cardinality(Used(p, e)) <= Cardinality(W) /\ IsFiniteSet(Used(p, e))
  BY <1>2, <1>3, FS_Subset
<1>5. Cardinality(W) \in Nat /\ Cardinality(Used(p, e)) \in Nat
  BY <1>2, <1>4, FS_CardinalityType
<1>6. sent[<<p, e>>] \in Nat /\ sent[<<p, e>>] <= Cardinality(Used(p, e))
  BY DEF TypeOK, Units, SentOnce
<1> HIDE DEF W
<1>7. sent[<<p, e>>] <= Cardinality(W)
  BY <1>4, <1>5, <1>6
<1>8. QED
  BY <1>7 DEF W

\* A project gets at most as many jobs for an epoch as the epoch had releases
\* in which the preloaders of the project all succeeded.
THEOREM JobsEarned == Spec => []JobsAreEarned
<1> DEFINE Inv == TypeOK /\ Handled /\ DirectUngated /\ SentOnce
<1>1. Init => Inv
  <2> SUFFICES ASSUME Init PROVE Inv
    OBVIOUS
  <2>1. TypeOK /\ Handled /\ DirectUngated
    BY InitTyped, HandledInit DEF Init, DirectUngated
  <2>2. SentOnce
    <3> SUFFICES ASSUME NEW p \in Projects, NEW e \in Epochs
                 PROVE  sent[<<p, e>>] <= Cardinality(Used(p, e))
      BY DEF SentOnce
    <3>1. sent[<<p, e>>] = 0
      BY DEF Init, Units
    <3>2. IsFiniteSet(Releases) /\ Used(p, e) \in SUBSET Releases
      BY FS_Interval, DistributorAssumption
         DEF Releases, DistributorAssumption, Used, ReleasesOf
    <3>3. Cardinality(Used(p, e)) \in Nat
      BY <3>2, FS_Subset, FS_CardinalityType
    <3>4. QED
      BY <3>1, <3>3
  <2>3. QED
    BY <2>1, <2>2
<1>2. Inv /\ [Next]_vars => Inv'
  BY TypePreserved, HandledPreserved, DirectPreserved, SentOncePreserved
<1>3. Inv => JobsAreEarned
  BY SpentIsEarned
<1>4. QED
  BY <1>1, <1>2, <1>3, PTL DEF Spec

-----------------------------------------------------------------------------
(* The status of an epoch that was released once. *)

\* What the only release of an epoch has sent and reported for a project, by
\* the place of its waiter.
Decides(n, p, e) ==
    /\ \/ stage[n] \in {"exec", "start", "gather"}
       \/ stage[n] = "serve" /\ p \in left[n]
       => sent[<<p, e>>] = 0
    /\ e \notin forgotten /\ (stage[n] = "over" \/ (stage[n] = "serve" /\ p \notin left[n]))
       => \/ verdict[<<p, e>>] = "success" /\ sent[<<p, e>>] = 1
          \/ verdict[<<p, e>>] = "failed" /\ sent[<<p, e>>] = 0
    /\ e \notin forgotten /\ sent[<<p, e>>] > 0 => verdict[<<p, e>>] = "success"

Unreleased == \A p \in Projects, e \in Epochs : ReleasesOf(e) = {} => sent[<<p, e>>] = 0
OneDecides ==
    \A n \in Releases, p \in Gated, e \in Epochs :
        ReleasesOf(e) = {n} => Decides(n, p, e)

\* A job and a status of an epoch are of one of its releases.
LEMMA SentOfEpoch ==
  ASSUME TypeOK, Handled, DirectUngated, [Next]_vars, NEW p \in Projects, NEW e \in Epochs
  PROVE  \/ sent'[<<p, e>>] = sent[<<p, e>>]
         \/ \E m \in ReleasesOf(e) : Serve(m, p)
         \/ \E m \in ReleasesOf(e) : Distribute(m, p) /\ p \notin Gated
<1>1. ASSUME NEW m \in Releases, NEW q \in Projects, Distribute(m, q) \/ Serve(m, q)
      PROVE  \/ sent'[<<p, e>>] = sent[<<p, e>>]
             \/ m \in ReleasesOf(e) /\ q = p
  <2>1. epochOf[m] \in Epochs
    BY <1>1, ActiveHandled DEF Distribute, Serve
  <2>2. sent' = [sent EXCEPT ![<<q, epochOf[m]>>] = @ + 1]
    BY <1>1 DEF Distribute, Serve, Enqueue
  <2>3. CASE <<q, epochOf[m]>> = <<p, e>>
    BY <2>3 DEF ReleasesOf
  <2>4. CASE <<q, epochOf[m]>> # <<p, e>>
    BY <2>2, <2>4 DEF TypeOK, Units
  <2>5. QED
    BY <2>3, <2>4
<1>2. ASSUME NEW m \in Releases, Distribute(m, p)
      PROVE  p \notin Gated
  BY <1>2 DEF Distribute, DirectUngated
<1>3. CASE UNCHANGED sent
  BY <1>3
<1>4. QED
  BY <1>1, <1>2, <1>3
     DEF Next, HandleRelease, Forget, ForgetFails, ExecPreloaders, WaiterStart,
         WaiterEnds, WaiterFails, ResultsIn, DistributeFails, Refuse, Crash, vars

LEMMA VerdictOfEpoch ==
  ASSUME TypeOK, Handled, [Next]_vars, NEW p \in Projects, NEW e \in Epochs
  PROVE  \/ verdict'[<<p, e>>] = verdict[<<p, e>>]
         \/ e \in forgotten'
         \/ \E m \in ReleasesOf(e) : Serve(m, p) \/ Refuse(m, p) \/ WaiterFails(m)
<1>1. ASSUME NEW m \in Releases, NEW q \in Projects, NEW v, stage[m] # "none",
             verdict' = [verdict EXCEPT ![<<q, epochOf[m]>>] = v]
      PROVE  verdict'[<<p, e>>] = verdict[<<p, e>>] \/ (m \in ReleasesOf(e) /\ q = p)
  <2>1. epochOf[m] \in Epochs
    BY <1>1, ActiveHandled
  <2>2. CASE <<q, epochOf[m]>> = <<p, e>>
    BY <2>2 DEF ReleasesOf
  <2>3. CASE <<q, epochOf[m]>> # <<p, e>>
    BY <1>1, <2>3 DEF TypeOK, Units
  <2>4. QED
    BY <2>2, <2>3
<1>2. ASSUME NEW m \in Releases, NEW q \in Projects, Serve(m, q) \/ Refuse(m, q)
      PROVE  verdict'[<<p, e>>] = verdict[<<p, e>>] \/ (m \in ReleasesOf(e) /\ q = p)
  <2>1. /\ stage[m] # "none"
        /\ \E v : verdict' = [verdict EXCEPT ![<<q, epochOf[m]>>] = v]
    BY <1>2 DEF Serve, Refuse
  <2>2. QED
    BY <1>1, <2>1
<1>3. ASSUME NEW m \in Releases, WaiterFails(m)
      PROVE  verdict'[<<p, e>>] = verdict[<<p, e>>] \/ m \in ReleasesOf(e)
  <2>1. CASE UNCHANGED verdict
    BY <2>1
  <2>2. CASE ~UNCHANGED verdict
    <3>1. PICK q \in left[m] : verdict' = [verdict EXCEPT ![<<q, epochOf[m]>>] =
                                              IF Satisfied(m, q) THEN "success" ELSE "failed"]
      BY <1>3, <2>2 DEF WaiterFails
    <3>2. q \in Projects /\ stage[m] # "none"
      BY <1>3 DEF WaiterFails, TypeOK, Gated
    <3>3. QED
      BY <1>1, <3>1, <3>2
  <2>3. QED
    BY <2>1, <2>2
<1>4. ASSUME NEW f \in Epochs, Forget(f)
      PROVE  verdict'[<<p, e>>] = verdict[<<p, e>>] \/ e \in forgotten'
  BY <1>4 DEF Forget, TypeOK, Units
<1>5. CASE UNCHANGED verdict
  BY <1>5
<1>6. QED
  BY <1>2, <1>3, <1>4, <1>5
     DEF Next, HandleRelease, ForgetFails, ExecPreloaders, WaiterStart, WaiterEnds,
         ResultsIn, Distribute, DistributeFails, Crash, vars

\* Releases of an epoch are only added, by the handling of an event.
LEMMA ReleasesKept ==
  ASSUME TypeOK, Handled, [Next]_vars, NEW e \in Epochs
  PROVE  /\ ReleasesOf(e) \subseteq ReleasesOf(e)'
         /\ \A n \in ReleasesOf(e)' : n \notin ReleasesOf(e) => stage'[n] = "exec"
<1>1. ReleasesOf(e) \subseteq ReleasesOf(e)'
  BY OfEpochHandled, PlacesKept DEF ReleasesOf
<1>2. ASSUME NEW f \in Epochs, HandleRelease(f), NEW n \in ReleasesOf(e)',
             n \notin ReleasesOf(e)
      PROVE  stage'[n] = "exec"
  BY <1>2 DEF HandleRelease, TypeOK, ReleasesOf
<1>3. (\E f \in Epochs : HandleRelease(f)) \/ epochOf' = epochOf
  BY DEF Next, Forget, ForgetFails, ExecPreloaders, WaiterStart, WaiterEnds, WaiterFails,
         ResultsIn, Distribute, DistributeFails, Serve, Refuse, Crash, vars
<1>4. QED
  BY <1>1, <1>2, <1>3 DEF ReleasesOf

\* The way of a waiter to its end: it serves or refuses a project before it
\* passes it.
LEMMA WaiterSteps ==
  ASSUME TypeOK, Handled, [Next]_vars, NEW n \in Releases, NEW p \in Gated, n <= released
  PROVE  /\ stage'[n] \in {"exec", "start", "gather"} => stage[n] \in {"none", "exec", "start", "gather"}
         /\ stage'[n] = "serve" /\ p \in left'[n] =>
               \/ stage[n] = "gather"
               \/ stage[n] = "serve" /\ p \in left[n] /\ ~Serve(n, p) /\ ~Refuse(n, p)
         /\ stage'[n] = "over" \/ (stage'[n] = "serve" /\ p \notin left'[n]) =>
               \/ /\ stage[n] = "over" \/ (stage[n] = "serve" /\ p \notin left[n])
                  /\ ~Serve(n, p) /\ ~Refuse(n, p) /\ ~WaiterFails(n)
               \/ Serve(n, p)
               \/ Refuse(n, p)
<1> USE DEF memory
<1> DEFINE Goal == /\ stage'[n] \in {"exec", "start", "gather"} => stage[n] \in {"none", "exec", "start", "gather"}
                   /\ stage'[n] = "serve" /\ p \in left'[n] =>
                         \/ stage[n] = "gather"
                         \/ stage[n] = "serve" /\ p \in left[n] /\ ~Serve(n, p) /\ ~Refuse(n, p)
                   /\ stage'[n] = "over" \/ (stage'[n] = "serve" /\ p \notin left'[n]) =>
                         \/ /\ stage[n] = "over" \/ (stage[n] = "serve" /\ p \notin left[n])
                            /\ ~Serve(n, p) /\ ~Refuse(n, p) /\ ~WaiterFails(n)
                         \/ Serve(n, p)
                         \/ Refuse(n, p)
<1>0. /\ Serve(n, p) \/ Refuse(n, p) => stage[n] = "serve" /\ p \in left[n] /\ p \notin left'[n]
      /\ WaiterFails(n) => stage'[n] = "failed"
  BY DEF Serve, Refuse, WaiterFails, TypeOK
<1>1. ASSUME stage'[n] = stage[n] /\ left'[n] = left[n]
      PROVE  Goal
  BY <1>0, <1>1
<1>2. ASSUME NEW e \in Epochs, HandleRelease(e)
      PROVE  Goal
  BY <1>1, <1>2 DEF HandleRelease, TypeOK
<1>3. ASSUME NEW m \in Releases, ExecPreloaders(m) \/ WaiterStart(m) \/ WaiterEnds(m) \/ WaiterFails(m)
      PROVE  Goal
  <2>1. CASE m # n
    BY <1>1, <1>3, <2>1 DEF ExecPreloaders, WaiterStart, WaiterEnds, WaiterFails, TypeOK
  <2>2. CASE m = n
    BY <1>0, <1>3, <2>2 DEF ExecPreloaders, WaiterStart, WaiterEnds, WaiterFails, TypeOK
  <2>3. QED
    BY <2>1, <2>2
<1>4. ASSUME NEW m \in Releases, NEW ok \in SUBSET Preloaders, ResultsIn(m, ok)
      PROVE  Goal
  <2>1. CASE m # n
    BY <1>1, <1>4, <2>1 DEF ResultsIn, TypeOK
  <2>2. CASE m = n
    BY <1>4, <2>2 DEF ResultsIn, TypeOK
  <2>3. QED
    BY <2>1, <2>2
<1>5. ASSUME NEW m \in Releases, NEW q \in Projects, Serve(m, q) \/ Refuse(m, q)
      PROVE  Goal
  <2>1. CASE m # n
    BY <1>1, <1>5, <2>1 DEF Serve, Refuse, TypeOK
  <2>2. CASE m = n /\ q = p
    BY <1>0, <1>5, <2>2 DEF Serve, Refuse
  <2>3. CASE m = n /\ q # p
    BY <1>0, <1>5, <2>3 DEF Serve, Refuse, TypeOK
  <2>4. QED
    BY <2>1, <2>2, <2>3
<1>6. ASSUME Crash
      PROVE  Goal
  BY <1>0, <1>6 DEF Crash, TypeOK
<1>7. CASE UNCHANGED <<stage, left>>
  BY <1>1, <1>7
<1>8. QED
  BY <1>2, <1>3, <1>4, <1>5, <1>6, <1>7
     DEF Next, Forget, ForgetFails, Distribute, DistributeFails, vars

\* A release that was handled is not waiting for its handling.
Begun == \A n \in Releases : n <= released => stage[n] # "none"

LEMMA BegunPreserved == TypeOK /\ Handled /\ Begun /\ [Next]_vars => Begun'
<1> SUFFICES ASSUME TypeOK, Handled, Begun, [Next]_vars, NEW n \in Releases, n <= released'
             PROVE  stage'[n] # "none"
  BY DEF Begun
<1> USE DEF memory
<1>1. ASSUME NEW e \in Epochs, HandleRelease(e)
      PROVE  stage'[n] # "none"
  BY <1>1 DEF HandleRelease, TypeOK, Begun, Releases
<1>2. ASSUME released' = released, stage[n] # "none" => stage'[n] # "none"
      PROVE  stage'[n] # "none"
  BY <1>2 DEF Begun
<1>3. ASSUME NEW m \in Releases,
             \/ ExecPreloaders(m) \/ WaiterStart(m) \/ WaiterEnds(m) \/ WaiterFails(m)
             \/ \E ok \in SUBSET Preloaders : ResultsIn(m, ok)
      PROVE  stage'[n] # "none"
  BY <1>2, <1>3 DEF ExecPreloaders, WaiterStart, WaiterEnds, WaiterFails, ResultsIn, TypeOK
<1>4. ASSUME Crash
      PROVE  stage'[n] # "none"
  BY <1>2, <1>4 DEF Crash, TypeOK
<1>5. CASE UNCHANGED <<released, stage>>
  BY <1>2, <1>5
<1>6. QED
  BY <1>1, <1>3, <1>4, <1>5
     DEF Next, Forget, ForgetFails, Distribute, DistributeFails, Serve, Refuse, vars

LEMMA DecidesPreserved ==
  ASSUME TypeOK, Handled, DirectUngated, Begun, Unreleased, OneDecides, [Next]_vars,
         NEW n \in Releases, NEW p \in Gated, NEW e \in Epochs, ReleasesOf(e)' = {n}
  PROVE  Decides(n, p, e)'
<1>1. p \in Projects /\ forgotten \subseteq forgotten'
  BY DEF Gated, Next, HandleRelease, Forget, ForgetFails, ExecPreloaders, WaiterStart,
         WaiterEnds, WaiterFails, ResultsIn, Distribute, DistributeFails, Serve, Refuse,
         Crash, vars
<1>2. CASE ReleasesOf(e) = {}
  <2>1. sent'[<<p, e>>] = 0
    BY <1>1, <1>2, SentOfEpoch DEF Unreleased
  <2>2. stage'[n] = "exec"
    BY <1>2, ReleasesKept
  <2>3. QED
    BY <2>1, <2>2 DEF Decides
<1>3. CASE ReleasesOf(e) # {}
  <2>1. ReleasesOf(e) = {n}
    BY <1>3, ReleasesKept
  <2>2. n <= released /\ stage[n] # "none" /\ epochOf[n] = e
    BY <2>1, OfEpochHandled DEF Begun, ReleasesOf
  <2>3. Decides(n, p, e)
    BY <2>1 DEF OneDecides
  <2>4. Serve(n, p) =>
           /\ stage[n] = "serve" /\ p \in left[n]
           /\ sent'[<<p, e>>] = sent[<<p, e>>] + 1 /\ verdict'[<<p, e>>] = "success"
    BY <1>1, <2>2 DEF Serve, Enqueue, TypeOK, Units
  <2>5. Refuse(n, p) =>
           /\ stage[n] = "serve" /\ p \in left[n]
           /\ sent'[<<p, e>>] = sent[<<p, e>>] /\ verdict'[<<p, e>>] = "failed"
    BY <1>1, <2>2 DEF Refuse, TypeOK, Units
  <2>6. ~Serve(n, p) => sent'[<<p, e>>] = sent[<<p, e>>]
    BY <1>1, <2>1, SentOfEpoch
  <2>7. \/ Serve(n, p) \/ Refuse(n, p) \/ WaiterFails(n) \/ e \in forgotten'
        \/ verdict'[<<p, e>>] = verdict[<<p, e>>]
    BY <1>1, <2>1, VerdictOfEpoch
  <2>8. ASSUME \/ stage'[n] \in {"exec", "start", "gather"}
               \/ stage'[n] = "serve" /\ p \in left'[n]
        PROVE  sent'[<<p, e>>] = 0
    BY <2>2, <2>3, <2>4, <2>6, <2>8, WaiterSteps DEF Decides
  <2>9. ASSUME e \notin forgotten',
               stage'[n] = "over" \/ (stage'[n] = "serve" /\ p \notin left'[n])
        PROVE  \/ verdict'[<<p, e>>] = "success" /\ sent'[<<p, e>>] = 1
               \/ verdict'[<<p, e>>] = "failed" /\ sent'[<<p, e>>] = 0
    <3>1. CASE Serve(n, p)
      BY <2>3, <2>4, <3>1 DEF Decides
    <3>2. CASE Refuse(n, p)
      BY <2>3, <2>5, <3>2 DEF Decides
    <3>3. CASE ~Serve(n, p) /\ ~Refuse(n, p)
      <4>1. /\ stage[n] = "over" \/ (stage[n] = "serve" /\ p \notin left[n])
            /\ ~WaiterFails(n)
        BY <2>2, <2>9, <3>3, WaiterSteps
      <4>2. e \notin forgotten
        BY <1>1, <2>9
      <4>3. verdict'[<<p, e>>] = verdict[<<p, e>>] /\ sent'[<<p, e>>] = sent[<<p, e>>]
        BY <2>6, <2>7, <2>9, <3>3, <4>1
      <4>4. QED
        BY <2>3, <4>1, <4>2, <4>3 DEF Decides
    <3>4. QED
      BY <3>1, <3>2, <3>3
  <2>10. ASSUME e \notin forgotten', sent'[<<p, e>>] > 0
         PROVE  verdict'[<<p, e>>] = "success"
    <3>1. CASE Serve(n, p)
      BY <2>4, <3>1
    <3>2. CASE Refuse(n, p)
      BY <2>3, <2>5, <2>10, <3>2 DEF Decides
    <3>3. CASE ~Serve(n, p) /\ ~Refuse(n, p)
      <4>1. sent[<<p, e>>] > 0 /\ verdict[<<p, e>>] = "success"
        BY <1>1, <2>3, <2>6, <2>10, <3>3 DEF Decides
      <4>2. CASE verdict'[<<p, e>>] = verdict[<<p, e>>]
        BY <4>1, <4>2
      \* A waiter that fails only writes of a project it has not passed.
      <4>3. CASE WaiterFails(n)
        <5>1. ASSUME NEW q \in left[n], q # p, NEW v,
                     verdict' = [verdict EXCEPT ![<<q, epochOf[n]>>] = v]
              PROVE  verdict'[<<p, e>>] = verdict[<<p, e>>]
          BY <1>1, <5>1 DEF TypeOK, Units
        <5>2. p \notin left[n]
          BY <2>3, <4>1, <4>3 DEF Decides, WaiterFails
        <5>3. QED
          BY <4>1, <4>3, <5>1, <5>2 DEF WaiterFails
      <4>4. QED
        BY <2>7, <2>10, <3>3, <4>2, <4>3
    <3>4. QED
      BY <3>1, <3>2, <3>3
  <2>11. QED
    BY <2>8, <2>9, <2>10 DEF Decides
<1>4. QED
  BY <1>2, <1>3

LEMMA UnreleasedPreserved ==
  ASSUME TypeOK, Handled, DirectUngated, Unreleased, [Next]_vars
  PROVE  Unreleased'
<1> SUFFICES ASSUME NEW p \in Projects, NEW e \in Epochs, ReleasesOf(e)' = {}
             PROVE  sent'[<<p, e>>] = 0
  BY DEF Unreleased
<1>1. ReleasesOf(e) = {}
  BY ReleasesKept
<1>2. QED
  BY <1>1, SentOfEpoch DEF Unreleased

\* What Redis says of an epoch that was released once is what was done: a
\* job is only sent after its status was written, whatever becomes of the
\* waiter, one that came to its end has served or refused every project with
\* preloaders, and no waiter of another epoch writes a status or sends a job.
THEOREM VerdictsTrue == Spec => []VerdictIsTrue
<1> DEFINE Inv == /\ TypeOK /\ Handled /\ DirectUngated /\ Begun
                  /\ Unreleased /\ OneDecides
<1>1. Init => Inv
  <2> SUFFICES ASSUME Init PROVE Inv
    OBVIOUS
  <2>1. TypeOK /\ Handled /\ DirectUngated
    BY InitTyped, HandledInit DEF Init, DirectUngated
  <2>2. Begun
    BY DEF Init, Begun, Releases
  <2>3. Unreleased
    BY DEF Init, Unreleased, Units
  <2>4. OneDecides
    BY DEF Init, OneDecides, ReleasesOf, Epochs
  <2>5. QED
    BY <2>1, <2>2, <2>3, <2>4
<1>2. Inv /\ [Next]_vars => Inv'
  <2> SUFFICES ASSUME Inv, [Next]_vars PROVE Inv'
    OBVIOUS
  <2>1. OneDecides'
    BY DecidesPreserved DEF OneDecides, Gated
  <2>2. QED
    BY <2>1, TypePreserved, HandledPreserved, DirectPreserved, BegunPreserved,
       UnreleasedPreserved
<1>3. Inv => VerdictIsTrue
  BY DEF VerdictIsTrue, OneDecides, Decides
<1>4. QED
  BY <1>1, <1>2, <1>3, PTL DEF Spec

-----------------------------------------------------------------------------
(* The ends of the waiters: what holds of EveryReleaseIsDecided without any  *)
(* fairness.                                                                 *)

\* A waiter has passed a project only when it has itself decided it.
PassedAreDecided ==
    \A n \in Releases, p \in Gated :
        stage[n] = "over" \/ (stage[n] = "serve" /\ p \notin left[n]) => <<n, p>> \in decided

\* A waiter that came to its end leaves no project with preloaders undecided.
EndsAreDecided ==
    \A n \in Releases, p \in Gated : stage[n] = "over" => <<n, p>> \in decided

\* What was sent or refused is never taken back.
LEMMA DecisionsStay ==
  ASSUME [Next]_vars
  PROVE  decided \subseteq decided'
<1> USE DEF memory
<1>1. ASSUME NEW m \in Releases, NEW q \in Projects, Refuse(m, q) \/ Serve(m, q)
      PROVE  decided \subseteq decided'
  BY <1>1 DEF Refuse, Serve
<1>2. CASE UNCHANGED decided
  BY <1>2
<1>3. QED
  BY <1>1, <1>2
     DEF Next, HandleRelease, Forget, ForgetFails, ExecPreloaders, WaiterStart, Distribute,
         WaiterEnds, WaiterFails, ResultsIn, DistributeFails, Crash, vars

LEMMA PassedPreserved ==
  TypeOK /\ Handled /\ PassedAreDecided /\ [Next]_vars => PassedAreDecided'
<1> SUFFICES ASSUME TypeOK, Handled, PassedAreDecided, [Next]_vars,
                    NEW n \in Releases, NEW p \in Gated,
                    stage'[n] = "over" \/ (stage'[n] = "serve" /\ p \notin left'[n])
             PROVE  <<n, p>> \in decided'
  BY DEF PassedAreDecided, Gated
<1>1. n <= released /\ stage[n] # "none"
  <2>1. ASSUME stage[n] = "none"
        PROVE  stage'[n] \in {"none", "exec"}
    BY <2>1 DEF Next, HandleRelease, Forget, ForgetFails, ExecPreloaders, WaiterStart,
         WaiterEnds, WaiterFails, ResultsIn, Distribute, DistributeFails, Serve, Refuse,
         Crash, vars, memory, TypeOK
  <2>2. QED
    BY <2>1, ActiveHandled
<1>2. CASE Serve(n, p) \/ Refuse(n, p)
  BY <1>2 DEF Serve, Refuse
<1>3. CASE ~Serve(n, p) /\ ~Refuse(n, p)
  <2>1. <<n, p>> \in decided
    BY <1>1, <1>3, WaiterSteps DEF PassedAreDecided
  <2>2. QED
    BY <2>1, DecisionsStay
<1>4. QED
  BY <1>2, <1>3

\* Whatever waiters of the epoch overlap and fail, one that comes to its end
\* has itself sent a job or recorded a refusal for every project with
\* preloaders.
THEOREM EndsDecided == Spec => []EndsAreDecided
<1> DEFINE Inv == TypeOK /\ Handled /\ PassedAreDecided
<1>1. Init => Inv
  BY InitTyped, HandledInit DEF Init, PassedAreDecided
<1>2. Inv /\ [Next]_vars => Inv'
  BY TypePreserved, HandledPreserved, PassedPreserved
<1>3. Inv => EndsAreDecided
  BY DEF PassedAreDecided, EndsAreDecided
<1>4. QED
  BY <1>1, <1>2, <1>3, PTL DEF Spec

\* The places of a release in their order; it can fail once it has begun.
Follows(place, next) ==
    \/ place = "none" /\ next = "exec"
    \/ place = "exec" /\ next = "start"
    \/ place = "start" /\ next = "gather"
    \/ place = "gather" /\ next = "serve"
    \/ place = "serve" /\ next = "over"
    \/ place \in {"exec", "start", "gather", "serve"} /\ next = "failed"

\* A step leaves a release alone, takes a project off its list or takes it
\* to its next place.
TakesOn(n) ==
    \/ stage'[n] = stage[n] /\ (stage[n] = "serve" => left'[n] = left[n])
    \/ /\ stage[n] = "serve" /\ stage'[n] = "serve"
       /\ \E p \in left[n] : left'[n] = left[n] \ {p}
    \/ Follows(stage[n], stage'[n])

WaitersGetOn == [][\A n \in Releases : TakesOn(n)]_vars

\* No step takes a release back: with finitely many projects it takes a
\* bounded number of steps of its own, however its steps mix with those of
\* other releases, repeated events, failures and crashes.
THEOREM ReleasesGetOn == Spec => WaitersGetOn
<1>1. ASSUME TypeOK, Handled, [Next]_vars, NEW n \in Releases
      PROVE  TakesOn(n)
  <2> USE <1>1 DEF memory
  <2>1. ASSUME NEW e \in Epochs, HandleRelease(e)
        PROVE  TakesOn(n)
    <3>1. CASE n = released + 1
      <4>1. stage[n] = "none" /\ stage'[n] = "exec"
        BY <2>1, <3>1 DEF HandleRelease, TypeOK, Handled, Releases
      <4>2. QED
        BY <4>1 DEF TakesOn, Follows
    <3>2. CASE n # released + 1
      BY <2>1, <3>2 DEF HandleRelease, TypeOK, TakesOn
    <3>3. QED
      BY <3>1, <3>2
  <2>2. ASSUME NEW m \in Releases, m # n,
               \/ ExecPreloaders(m) \/ WaiterStart(m) \/ WaiterEnds(m) \/ WaiterFails(m)
               \/ \E ok \in SUBSET Preloaders : ResultsIn(m, ok)
               \/ \E q \in Projects : Serve(m, q) \/ Refuse(m, q)
        PROVE  TakesOn(n)
    BY <2>2
       DEF ExecPreloaders, WaiterStart, WaiterEnds, WaiterFails, ResultsIn, Serve,
           Refuse, TypeOK, TakesOn
  <2>3. ASSUME \/ ExecPreloaders(n) \/ WaiterStart(n) \/ WaiterEnds(n) \/ WaiterFails(n)
               \/ \E ok \in SUBSET Preloaders : ResultsIn(n, ok)
        PROVE  TakesOn(n)
    BY <2>3
       DEF ExecPreloaders, WaiterStart, WaiterEnds, WaiterFails, ResultsIn, TypeOK,
           TakesOn, Follows
  <2>4. ASSUME NEW q \in Projects, Serve(n, q) \/ Refuse(n, q)
        PROVE  TakesOn(n)
    BY <2>4 DEF Serve, Refuse, TypeOK, TakesOn
  <2>5. ASSUME Crash
        PROVE  TakesOn(n)
    BY <2>5 DEF Crash, TypeOK, TakesOn, Follows
  <2>6. CASE UNCHANGED <<stage, left>>
    BY <2>6 DEF TakesOn
  <2>7. QED
    BY <2>1, <2>2, <2>3, <2>4, <2>5, <2>6
       DEF Next, Forget, ForgetFails, Distribute, DistributeFails, vars
<1>2. TypeOK /\ Handled /\ [Next]_vars => [\A n \in Releases : TakesOn(n)]_vars
  BY <1>1
<1>3. Init => TypeOK /\ Handled
  BY InitTyped, HandledInit
<1>4. TypeOK /\ Handled /\ [Next]_vars => (TypeOK /\ Handled)'
  BY TypePreserved, HandledPreserved
<1>5. QED
  BY <1>2, <1>3, <1>4, PTL DEF Spec, WaitersGetOn
=============================================================================
