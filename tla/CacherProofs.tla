----------------------------- MODULE CacherProofs -----------------------------
(***************************************************************************)
(* Theorems of the cacher, for any set of projects, tasks and messages.    *)
(***************************************************************************)
EXTENDS Cacher, TLAPS

-----------------------------------------------------------------------------
(* Facts about the operators. *)

\* A task that runs holds a published message.
LEMMA JobTyped ==
  ASSUME TypeOK, NEW t \in Tasks, job[t].kind # "none"
  PROVE  /\ job[t] \in published
         /\ job[t].kind \in {"submitted", "finalized", "batch"}
         /\ job[t].projects \in SUBSET Projects
         /\ job[t].epoch \in 1..MaxEpoch
<1>1. job[t] \in published
  BY DEF TypeOK, NoJob
<1>2. job[t] \in Message
  BY <1>1, CacherAssumption DEF TypeOK, CacherAssumption
<1>3. QED
  BY <1>1, <1>2 DEF Message, Epochs

LEMMA PutTyped ==
  ASSUME TypeOK, NEW S, NEW st \in Statuses, Put(S, st)
  PROVE  /\ data' \in [Entries -> Statuses]
         /\ expiry' \in [Entries -> {"none", "fresh", "due"}]
  BY DEF TypeOK, Put

LEMMA EndTaskTyped ==
  ASSUME TypeOK, NEW t \in Tasks, EndTask(t), published' = published
  PROVE  /\ step' \in [Tasks -> {"idle", "fetch", "read", "write"}]
         /\ job' \in [Tasks -> published' \cup {NoJob}]
         /\ todo' \in [Tasks -> SUBSET Projects]
         /\ seen' \in [Tasks -> [Projects -> 0..MaxEpoch]]
<1>1. NoneSeen \in [Projects -> 0..MaxEpoch]
  BY CacherAssumption DEF NoneSeen, CacherAssumption
<1>2. QED
  BY <1>1 DEF TypeOK, EndTask

LEMMA ReadLastTyped ==
  ASSUME TypeOK, NEW t \in Tasks, NEW p \in Projects, ReadLast(t, p)
  PROVE  /\ todo' \in [Tasks -> SUBSET Projects]
         /\ seen' \in [Tasks -> [Projects -> 0..MaxEpoch]]
         /\ raced' \subseteq Projects
<1>1. todo' \in [Tasks -> SUBSET Projects]
  BY DEF TypeOK, ReadLast
<1>2. [seen[t] EXCEPT ![p] = lastFinalized[p]] \in [Projects -> 0..MaxEpoch]
  BY DEF TypeOK
<1>3. seen' = [seen EXCEPT ![t] = [seen[t] EXCEPT ![p] = lastFinalized[p]]]
  BY DEF ReadLast
<1>4. seen' \in [Tasks -> [Projects -> 0..MaxEpoch]]
  BY <1>2, <1>3 DEF TypeOK
<1>5. raced' \subseteq Projects
  BY DEF TypeOK, ReadLast
<1>6. QED
  BY <1>1, <1>4, <1>5

LEMMA StoreFinalizedTyped ==
  ASSUME TypeOK, NEW t \in Tasks, NEW st \in Statuses,
         job[t].kind # "none", StoreFinalized(t, st)
  PROVE  /\ data' \in [Entries -> Statuses]
         /\ expiry' \in [Entries -> {"none", "fresh", "due"}]
         /\ lastFinalized' \in [Projects -> 0..MaxEpoch]
         /\ best' \in [Projects -> 0..MaxEpoch]
<1>1. job[t].epoch \in 0..MaxEpoch
  BY JobTyped
<1>2. \A p \in Projects : NewLast(t, p) \in 0..MaxEpoch
  BY <1>1 DEF NewLast, Larger, TypeOK
<1>3. \A p \in Projects : Larger(best[p], job[t].epoch) \in 0..MaxEpoch
  BY <1>1 DEF Larger, TypeOK
<1>4. lastFinalized' \in [Projects -> 0..MaxEpoch]
  BY <1>2 DEF StoreFinalized, TypeOK
<1>5. best' \in [Projects -> 0..MaxEpoch]
  BY <1>3 DEF StoreFinalized, TypeOK
<1>6. Put(EntriesOf(job[t]), st)
  BY DEF StoreFinalized
<1>7. QED
  BY <1>4, <1>5, <1>6, PutTyped

-----------------------------------------------------------------------------
(* Type correctness. *)

LEMMA InitTyped == Init => TypeOK
  BY CacherAssumption DEF CacherAssumption, Init, TypeOK, NoneSeen, NoJob, Statuses

LEMMA TypePreserved == TypeOK /\ [Next]_vars => TypeOK'
<1> SUFFICES ASSUME TypeOK, [Next]_vars
             PROVE  TypeOK'
  OBVIOUS
<1> USE DEF redis, broker, tasks, lookups, history
<1>1. ASSUME NEW m \in Traffic, Publish(m)
      PROVE  TypeOK'
  <2>1. sent' \in 0..MaxSent
    BY <1>1, CacherAssumption DEF Publish, TypeOK, CacherAssumption
  <2>2. /\ queue' \subseteq published' /\ published' \subseteq Traffic
        /\ job' \in [Tasks -> published' \cup {NoJob}]
    BY <1>1 DEF Publish, TypeOK
  <2>3. QED
    BY <1>1, <2>1, <2>2 DEF Publish, TypeOK
<1>2. ASSUME NEW m \in Traffic, NEW t \in Tasks, HandleEvent(m, t)
      PROVE  TypeOK'
  <2>1. m \in published /\ m.projects \in SUBSET Projects
    BY <1>2, CacherAssumption DEF HandleEvent, TypeOK, CacherAssumption, Message
  <2>2. /\ job' \in [Tasks -> published' \cup {NoJob}]
        /\ queue' \subseteq published'
    BY <1>2, <2>1 DEF HandleEvent, TypeOK
  <2>3. step' \in [Tasks -> {"idle", "fetch", "read", "write"}]
    BY <1>2 DEF HandleEvent, TypeOK
  <2>4. todo' \in [Tasks -> SUBSET Projects]
    BY <1>2, <2>1 DEF HandleEvent, TypeOK
  <2>5. QED
    BY <1>2, <2>2, <2>3, <2>4 DEF HandleEvent, TypeOK
<1>3. ASSUME NEW t \in Tasks, TaskFails(t)
      PROVE  TypeOK'
  BY <1>3, EndTaskTyped DEF TaskFails, TypeOK
<1>4. ASSUME NEW t \in Tasks, ReadSubmitted(t)
      PROVE  TypeOK'
  <2>1. resolving' \subseteq Entries
    BY <1>4, JobTyped DEF ReadSubmitted, TypeOK, EntriesOf, Entries, Epochs
  <2>2. step' \in [Tasks -> {"idle", "fetch", "read", "write"}]
    BY <1>4 DEF ReadSubmitted, TypeOK
  <2>3. QED
    BY <1>4, <2>1, <2>2 DEF ReadSubmitted, TypeOK
<1>5. ASSUME NEW t \in Tasks, WriteSubmitted(t)
      PROVE  TypeOK'
  <2>1. job[t].epoch \in 0..MaxEpoch
    BY <1>5, JobTyped DEF WriteSubmitted
  <2>2. lastSubmitted' \in [Projects -> 0..MaxEpoch]
    BY <1>5, <2>1 DEF WriteSubmitted, TypeOK
  <2>3. /\ data' \in [Entries -> Statuses]
        /\ expiry' \in [Entries -> {"none", "fresh", "due"}]
    BY <1>5, PutTyped DEF WriteSubmitted, Statuses
  <2>4. QED
    BY <1>5, <2>2, <2>3, EndTaskTyped DEF WriteSubmitted, TypeOK
<1>6. ASSUME NEW t \in Tasks, NEW p \in Projects, ReadFinalized(t, p)
      PROVE  TypeOK'
  <2>1. step' \in [Tasks -> {"idle", "fetch", "read", "write"}]
    BY <1>6 DEF ReadFinalized, TypeOK
  <2>2. QED
    BY <1>6, <2>1, ReadLastTyped DEF ReadFinalized, TypeOK
<1>7. ASSUME NEW t \in Tasks, WriteFinalized(t)
      PROVE  TypeOK'
  BY <1>7, EndTaskTyped, StoreFinalizedTyped DEF WriteFinalized, TypeOK, Statuses
<1>8. ASSUME NEW t \in Tasks, FetchBatch(t)
      PROVE  TypeOK'
  <2>1. step' \in [Tasks -> {"idle", "fetch", "read", "write"}]
    BY <1>8 DEF FetchBatch, TypeOK
  <2>2. QED
    BY <1>8, <2>1 DEF FetchBatch, TypeOK
<1>9. ASSUME NEW t \in Tasks, NEW p \in Projects, ReadBatch(t, p)
      PROVE  TypeOK'
  <2>1. resolving' \subseteq Entries
    BY <1>9, JobTyped DEF ReadBatch, TypeOK, Entries, Epochs
  <2>2. step' \in [Tasks -> {"idle", "fetch", "read", "write"}]
    BY <1>9 DEF ReadBatch, TypeOK
  <2>3. QED
    BY <1>9, <2>1, <2>2, ReadLastTyped DEF ReadBatch, TypeOK
<1>10. ASSUME NEW t \in Tasks, WriteBatch(t)
       PROVE  TypeOK'
  BY <1>10, EndTaskTyped, StoreFinalizedTyped DEF WriteBatch, TypeOK, Statuses
<1>11. ASSUME NEW x \in Entries, ResolveWrite(x)
       PROVE  TypeOK'
  <2>1. /\ data' \in [Entries -> Statuses]
        /\ expiry' \in [Entries -> {"none", "fresh", "due"}]
    BY <1>11, PutTyped DEF ResolveWrite, Statuses
  <2>2. QED
    BY <1>11, <2>1 DEF ResolveWrite, TypeOK
<1>12. ASSUME NEW x \in Entries, ResolveDone(x)
       PROVE  TypeOK'
  BY <1>12 DEF ResolveDone, TypeOK
<1>13. ASSUME NEW x \in Entries, Age(x)
       PROVE  TypeOK'
  BY <1>13 DEF Age, TypeOK
<1>14. ASSUME NEW p \in LookedUp, LookupStart(p) \/ LookupFails(p)
       PROVE  TypeOK'
  <2>1. p \in Projects
    BY CacherAssumption DEF CacherAssumption
  <2>2. asking' \subseteq Projects /\ raced' \subseteq Projects
    BY <1>14, <2>1 DEF LookupStart, LookupFails, TypeOK
  <2>3. answer' \in [Projects -> 0..MaxEpoch]
    BY <1>14, CacherAssumption DEF LookupStart, LookupFails, TypeOK, CacherAssumption
  <2>4. QED
    BY <1>14, <2>2, <2>3 DEF LookupStart, LookupFails, TypeOK
<1>15. ASSUME NEW p \in LookedUp, NEW e \in Epochs, LookupAnswer(p, e)
       PROVE  TypeOK'
  <2>1. answer' \in [Projects -> 0..MaxEpoch]
    BY <1>15, CacherAssumption DEF LookupAnswer, TypeOK, Epochs, CacherAssumption
  <2>2. QED
    BY <1>15, <2>1 DEF LookupAnswer, TypeOK
<1>16. ASSUME NEW p \in LookedUp, LookupWrite(p)
       PROVE  TypeOK'
  <2>1. p \in Projects /\ answer[p] \in 1..MaxEpoch /\ 0 \in 0..MaxEpoch
    BY <1>16, CacherAssumption DEF LookupWrite, TypeOK, CacherAssumption
  <2>2. Larger(best[p], answer[p]) \in 0..MaxEpoch
    BY <2>1 DEF Larger, TypeOK
  <2>3. /\ lastFinalized' \in [Projects -> 0..MaxEpoch]
        /\ best' \in [Projects -> 0..MaxEpoch]
        /\ answer' \in [Projects -> 0..MaxEpoch]
    BY <1>16, <2>1, <2>2 DEF LookupWrite, TypeOK
  <2>4. absent' \subseteq Entries
    BY <1>16, <2>1 DEF LookupWrite, TypeOK, Entries, Epochs
  <2>5. asking' \subseteq Projects
    BY <1>16 DEF LookupWrite, TypeOK
  <2>6. QED
    BY <1>16, <2>3, <2>4, <2>5 DEF LookupWrite, TypeOK
<1>17. CASE ListExpired \/ CleanupFails
  BY <1>17 DEF ListExpired, CleanupFails, TypeOK
<1>18. CASE DeleteExpired
  <2>1. /\ data' \in [Entries -> Statuses]
        /\ expiry' \in [Entries -> {"none", "fresh", "due"}]
    BY <1>18 DEF DeleteExpired, TypeOK, Statuses
  <2>2. QED
    BY <1>18, <2>1 DEF DeleteExpired, TypeOK
<1>19. CASE Crash
  BY <1>19, CacherAssumption DEF Crash, TypeOK, NoneSeen, CacherAssumption
<1>20. CASE UNCHANGED vars
  BY <1>20 DEF vars, TypeOK
<1>21. ASSUME NEW x \in Fetched, CidStart(x) \/ CidEnds(x)
       PROVE  TypeOK'
  <2>1. fetching' \subseteq Fetched
    BY <1>21 DEF CidStart, CidEnds, TypeOK
  <2>2. QED
    BY <1>21, <2>1 DEF CidStart, CidEnds, TypeOK
<1>22. ASSUME NEW x \in Fetched, CidWrite(x)
       PROVE  TypeOK'
  <2>1. /\ data' \in [Entries -> Statuses]
        /\ expiry' \in [Entries -> {"none", "fresh", "due"}]
    BY <1>22, PutTyped DEF CidWrite, Statuses
  <2>2. fetching' \subseteq Fetched
    BY <1>22 DEF CidWrite, TypeOK
  <2>3. QED
    BY <1>22, <2>1, <2>2 DEF CidWrite, TypeOK
<1>23. ASSUME NEW x \in Fetched, CidCutShort(x)
       PROVE  TypeOK'
  <2>1. data' \in [Entries -> Statuses]
    BY <1>23 DEF CidCutShort, TypeOK, Statuses
  <2>2. fetching' \subseteq Fetched
    BY <1>23 DEF CidCutShort, TypeOK
  <2>3. QED
    BY <1>23, <2>1, <2>2 DEF CidCutShort, TypeOK
<1>24. QED
  BY <1>1, <1>2, <1>3, <1>4, <1>5, <1>6, <1>7, <1>8, <1>9, <1>10, <1>11, <1>12,
     <1>13, <1>14, <1>15, <1>16, <1>17, <1>18, <1>19, <1>20, <1>21, <1>22, <1>23 DEF Next

\* Every key of Redis, every task and every history keeps its type.
THEOREM TypeCorrect == Spec => []TypeOK
  BY InitTyped, TypePreserved, PTL DEF Spec

-----------------------------------------------------------------------------
(* Entries and their expiry. *)

\* The ways in which a step can touch the entries.
EntriesKept == UNCHANGED <<data, expiry>>

EntriesPut == \E S \in SUBSET Entries, st \in Statuses \ {"none"} : Put(S, st)

EntriesHalfPut ==
    /\ expiry' = expiry
    /\ \E S \in SUBSET Entries :
           data' = [x \in Entries |-> IF x \in S THEN "half" ELSE data[x]]

EntryAged ==
    \E x \in Entries : /\ expiry[x] = "fresh" /\ data' = data
                      /\ expiry' = [expiry EXCEPT ![x] = "due"]

EntriesRemoved ==
    /\ data' = [x \in Entries |-> IF x \in doomed THEN "none" ELSE data[x]]
    /\ expiry' = [x \in Entries |-> IF x \in doomed THEN "none" ELSE expiry[x]]
    /\ doomed \subseteq absent'

LEMMA EntryEffects ==
  ASSUME TypeOK, [Next]_vars
  PROVE  /\ EntriesKept \/ EntriesPut \/ EntriesHalfPut \/ EntryAged \/ EntriesRemoved
         /\ absent \subseteq absent'
<1> USE DEF redis, history
<1>1. ASSUME NEW t \in Tasks, WriteSubmitted(t) \/ WriteFinalized(t) \/ WriteBatch(t)
      PROVE  EntriesPut /\ absent \subseteq absent'
  <2>1. EntriesOf(job[t]) \in SUBSET Entries
    BY <1>1, JobTyped DEF WriteSubmitted, WriteFinalized, WriteBatch, EntriesOf,
       Entries, Epochs
  <2>2. \E st \in Statuses \ {"none"} : Put(EntriesOf(job[t]), st)
    BY <1>1 DEF WriteSubmitted, WriteFinalized, WriteBatch, StoreFinalized, Statuses
  <2>3. absent' = absent
    BY <1>1 DEF WriteSubmitted, WriteFinalized, WriteBatch
  <2>4. QED
    BY <2>1, <2>2, <2>3 DEF EntriesPut
<1>2. ASSUME NEW x \in Entries, ResolveWrite(x)
      PROVE  EntriesPut /\ absent \subseteq absent'
  BY <1>2 DEF ResolveWrite, Siblings, EntriesPut, Statuses
<1>3. ASSUME NEW x \in Entries, Age(x)
      PROVE  EntryAged /\ absent \subseteq absent'
  BY <1>3 DEF Age, EntryAged
<1>4. CASE DeleteExpired
  BY <1>4 DEF DeleteExpired, EntriesRemoved
<1>5. ASSUME NEW m \in Traffic,
             Publish(m) \/ \E t \in Tasks : HandleEvent(m, t)
      PROVE  EntriesKept /\ absent \subseteq absent'
  BY <1>5 DEF Publish, HandleEvent, EntriesKept
<1>6. ASSUME NEW t \in Tasks, NEW p \in Projects, ReadFinalized(t, p) \/ ReadBatch(t, p)
      PROVE  EntriesKept /\ absent \subseteq absent'
  BY <1>6 DEF ReadFinalized, ReadBatch, EntriesKept
<1>7. ASSUME NEW t \in Tasks, TaskFails(t) \/ ReadSubmitted(t) \/ FetchBatch(t)
      PROVE  EntriesKept /\ absent \subseteq absent'
  BY <1>7 DEF TaskFails, ReadSubmitted, FetchBatch, EntriesKept
<1>8. ASSUME NEW p \in LookedUp,
             \/ LookupStart(p) \/ LookupFails(p) \/ LookupWrite(p)
             \/ \E e \in Epochs : LookupAnswer(p, e)
      PROVE  EntriesKept /\ absent \subseteq absent'
  BY <1>8 DEF LookupStart, LookupFails, LookupWrite, LookupAnswer, EntriesKept
<1>9. CASE \/ ListExpired \/ CleanupFails \/ Crash \/ UNCHANGED vars
           \/ \E x \in Entries : ResolveDone(x)
  BY <1>9 DEF ListExpired, CleanupFails, Crash, ResolveDone, vars, EntriesKept
<1>10. ASSUME NEW x \in Fetched, CidStart(x) \/ CidEnds(x)
       PROVE  EntriesKept /\ absent \subseteq absent'
  BY <1>10 DEF CidStart, CidEnds, EntriesKept
<1>11. ASSUME NEW x \in Fetched, CidWrite(x)
       PROVE  EntriesPut /\ absent \subseteq absent'
  <2>1. \A listed \in SUBSET Siblings(x) : {x} \cup listed \in SUBSET Entries
    BY CacherAssumption DEF Siblings, CacherAssumption
  <2>2. QED
    BY <1>11, <2>1 DEF CidWrite, EntriesPut, Statuses
<1>12. ASSUME NEW x \in Fetched, CidCutShort(x)
       PROVE  EntriesHalfPut /\ absent \subseteq absent'
  <2>1. \A listed \in SUBSET Siblings(x) : {x} \cup listed \in SUBSET Entries
    BY CacherAssumption DEF Siblings, CacherAssumption
  <2>2. QED
    BY <1>12, <2>1 DEF CidCutShort, EntriesHalfPut
<1>13. QED
  BY <1>1, <1>2, <1>3, <1>4, <1>5, <1>6, <1>7, <1>8, <1>9, <1>10, <1>11, <1>12 DEF Next

LEMMA ExpiryPreserved ==
  TypeOK /\ EntryHasExpiry /\ [Next]_vars => EntryHasExpiry'
<1> SUFFICES ASSUME TypeOK, EntryHasExpiry, [Next]_vars
             PROVE  EntryHasExpiry'
  OBVIOUS
<1>1. /\ data \in [Entries -> Statuses]
      /\ expiry \in [Entries -> {"none", "fresh", "due"}]
  BY DEF TypeOK
<1>2. CASE EntriesKept
  BY <1>2 DEF EntriesKept, EntryHasExpiry
<1>3. CASE EntriesPut
  BY <1>3 DEF EntriesPut, Put, EntryHasExpiry
<1>4. CASE EntryAged
  BY <1>1, <1>4 DEF EntryAged, EntryHasExpiry
<1>5. CASE EntriesRemoved
  BY <1>5 DEF EntriesRemoved, EntryHasExpiry
<1>6. CASE EntriesHalfPut
  <2>1. PICK S \in SUBSET Entries :
            data' = [x \in Entries |-> IF x \in S THEN "half" ELSE data[x]]
    BY <1>6 DEF EntriesHalfPut
  <2>2. expiry' = expiry
    BY <1>6 DEF EntriesHalfPut
  <2>3. ASSUME NEW x \in Entries
        PROVE  /\ data'[x] = "none" => expiry'[x] = "none"
               /\ data'[x] # "none" /\ expiry'[x] = "none" => data'[x] = "half"
    BY <2>1, <2>2 DEF EntryHasExpiry
  <2>4. QED
    BY <2>3 DEF EntryHasExpiry
<1>7. QED
  BY <1>2, <1>3, <1>4, <1>5, <1>6, EntryEffects

\* What is cached is in the expiry index, unless the last that was written of
\* it was the answer to a lookup that failed between its HSET and its ZADD.
THEOREM EntriesExpire == Spec => []EntryHasExpiry
<1>1. Init => EntryHasExpiry
  BY DEF Init, EntryHasExpiry
<1>2. QED
  BY <1>1, TypeCorrect, ExpiryPreserved, PTL DEF Spec

-----------------------------------------------------------------------------
(* The lookups of CIDs touch entries and nothing else. *)

CidStep(x) == CidStart(x) \/ CidEnds(x) \/ CidWrite(x) \/ CidCutShort(x)

LEMMA CidQuiet ==
  ASSUME NEW x, CidStep(x)
  PROVE  UNCHANGED <<lastFinalized, lastSubmitted, published, step, job, todo, seen,
                     asking, best, raced>>
<1> USE DEF redis, broker, tasks, history
<1>1. CASE CidStart(x) \/ CidEnds(x)
  BY <1>1 DEF CidStart, CidEnds
<1>2. CASE CidWrite(x) \/ CidCutShort(x)
  BY <1>2 DEF CidWrite, CidCutShort
<1>3. QED
  BY <1>1, <1>2 DEF CidStep

-----------------------------------------------------------------------------
(* The pointers name entries. *)

Known(x) == data[x] # "none" \/ x \in absent

KnownNext(x) == data'[x] # "none" \/ x \in absent'

\* What a task has read will be written back: it must be known as well.
PointerInv ==
    /\ LastFinalizedHasEntry
    /\ LastSubmittedHasEntry
    /\ \A t \in Tasks, p \in Projects : seen[t][p] # 0 => Known(<<p, seen[t][p]>>)

\* An entry goes only by being cleaned up.
LEMMA KnownForEver ==
  ASSUME TypeOK, [Next]_vars, NEW x \in Entries, Known(x)
  PROVE  KnownNext(x)
<1>1. data \in [Entries -> Statuses]
  BY DEF TypeOK
<1>2. CASE EntriesKept
  BY <1>2, EntryEffects DEF EntriesKept, Known, KnownNext
<1>3. CASE EntriesPut
  BY <1>3, EntryEffects DEF EntriesPut, Put, Known, KnownNext
<1>4. CASE EntryAged
  BY <1>4, EntryEffects DEF EntryAged, Known, KnownNext
<1>5. CASE EntriesRemoved
  BY <1>5, EntryEffects DEF EntriesRemoved, Known, KnownNext
<1>6. CASE EntriesHalfPut
  BY <1>6, EntryEffects DEF EntriesHalfPut, Known, KnownNext
<1>7. QED
  BY <1>2, <1>3, <1>4, <1>5, <1>6, EntryEffects

\* What a pipeline stores is the epoch of an entry it writes, or what its
\* task has read.
LEMMA StoredIsKnown ==
  ASSUME TypeOK, NEW t \in Tasks, NEW st \in Statuses \ {"none"},
         job[t].kind # "none", StoreFinalized(t, st), NEW p \in Projects
  PROVE  \/ lastFinalized'[p] = lastFinalized[p]
         \/ KnownNext(<<p, lastFinalized'[p]>>)
         \/ lastFinalized'[p] = seen[t][p]
<1>1. job[t].epoch \in 1..MaxEpoch
  BY JobTyped
<1>2. CASE p \notin job[t].projects
  BY <1>2 DEF StoreFinalized
<1>3. CASE p \in job[t].projects
  <2>1. lastFinalized'[p] = seen[t][p] \/ lastFinalized'[p] = job[t].epoch
    BY <1>3 DEF StoreFinalized, NewLast, Larger
  <2>2. <<p, job[t].epoch>> \in Entries /\ <<p, job[t].epoch>> \in EntriesOf(job[t])
    BY <1>1, <1>3 DEF Entries, Epochs, EntriesOf
  <2>3. data'[<<p, job[t].epoch>>] = st
    BY <2>2 DEF StoreFinalized, Put
  <2>4. QED
    BY <2>1, <2>3 DEF Known, KnownNext
<1>4. QED
  BY <1>2, <1>3

\* The ways in which a step can touch the pointers of p: what it stores is
\* known afterwards, or what a task has read.
LEMMA PointerEffects ==
  ASSUME TypeOK, [Next]_vars, NEW p \in Projects
  PROVE  /\ \/ lastFinalized'[p] = lastFinalized[p]
            \/ KnownNext(<<p, lastFinalized'[p]>>)
            \/ \E t \in Tasks : lastFinalized'[p] = seen[t][p]
         /\ \/ lastSubmitted'[p] = lastSubmitted[p]
            \/ KnownNext(<<p, lastSubmitted'[p]>>)
<1> DEFINE Final == \/ lastFinalized'[p] = lastFinalized[p]
                    \/ KnownNext(<<p, lastFinalized'[p]>>)
                    \/ \E t \in Tasks : lastFinalized'[p] = seen[t][p]
           Sub == \/ lastSubmitted'[p] = lastSubmitted[p]
                  \/ KnownNext(<<p, lastSubmitted'[p]>>)
<1> SUFFICES Final /\ Sub
  OBVIOUS
<1> USE DEF redis
<1>1. ASSUME UNCHANGED <<lastFinalized, lastSubmitted>>
      PROVE  Final /\ Sub
  BY <1>1
<1>2. ASSUME NEW t \in Tasks, WriteSubmitted(t)
      PROVE  Final /\ Sub
  <2>1. Put(EntriesOf(job[t]), "SUBMITTED")
    BY <1>2 DEF WriteSubmitted
  <2>2. lastFinalized' = lastFinalized
    BY <1>2 DEF WriteSubmitted
  <2>3. CASE p \notin job[t].projects
    BY <1>2, <2>2, <2>3 DEF WriteSubmitted
  <2>4. CASE p \in job[t].projects
    <3>1. lastSubmitted'[p] = job[t].epoch
      BY <1>2, <2>4 DEF WriteSubmitted
    <3>2. job[t].epoch \in 1..MaxEpoch
      BY <1>2, JobTyped DEF WriteSubmitted
    <3>3. /\ <<p, job[t].epoch>> \in Entries
          /\ <<p, job[t].epoch>> \in EntriesOf(job[t])
      BY <2>4, <3>2 DEF Entries, Epochs, EntriesOf
    <3>4. data'[<<p, job[t].epoch>>] = "SUBMITTED"
      BY <2>1, <3>3 DEF Put
    <3>5. QED
      BY <2>2, <3>1, <3>4 DEF Known, KnownNext
  <2>5. QED
    BY <2>3, <2>4
<1>3. ASSUME NEW t \in Tasks, WriteFinalized(t) \/ WriteBatch(t)
      PROVE  Final /\ Sub
  <2>1. \E st \in Statuses \ {"none"} : StoreFinalized(t, st)
    BY <1>3 DEF WriteFinalized, WriteBatch, Statuses
  <2>2. job[t].kind # "none" /\ lastSubmitted' = lastSubmitted
    BY <1>3 DEF WriteFinalized, WriteBatch
  <2>3. QED
    BY <2>1, <2>2, StoredIsKnown
<1>4. ASSUME NEW q \in LookedUp, LookupWrite(q)
      PROVE  Final /\ Sub
  <2>1. /\ lastFinalized' = [lastFinalized EXCEPT ![q] = answer[q]]
        /\ absent' = absent \cup {<<q, answer[q]>>}
        /\ lastSubmitted' = lastSubmitted
    BY <1>4 DEF LookupWrite
  <2>2. lastFinalized'[p] = lastFinalized[p] \/ (p = q /\ lastFinalized'[p] = answer[q])
    BY <2>1 DEF TypeOK
  <2>3. QED
    BY <2>1, <2>2 DEF Known, KnownNext
<1>5. ASSUME NEW m \in Traffic,
             Publish(m) \/ \E t \in Tasks : HandleEvent(m, t)
      PROVE  Final /\ Sub
  BY <1>1, <1>5 DEF Publish, HandleEvent
<1>6. ASSUME NEW t \in Tasks, NEW q \in Projects, ReadFinalized(t, q) \/ ReadBatch(t, q)
      PROVE  Final /\ Sub
  BY <1>1, <1>6 DEF ReadFinalized, ReadBatch
<1>7. ASSUME NEW t \in Tasks, TaskFails(t) \/ ReadSubmitted(t) \/ FetchBatch(t)
      PROVE  Final /\ Sub
  BY <1>1, <1>7 DEF TaskFails, ReadSubmitted, FetchBatch
<1>8. ASSUME NEW q \in LookedUp,
             \/ LookupStart(q) \/ LookupFails(q)
             \/ \E e \in Epochs : LookupAnswer(q, e)
      PROVE  Final /\ Sub
  BY <1>1, <1>8 DEF LookupStart, LookupFails, LookupAnswer
<1>9. ASSUME NEW x \in Entries, ResolveWrite(x) \/ ResolveDone(x) \/ Age(x)
      PROVE  Final /\ Sub
  BY <1>1, <1>9 DEF ResolveWrite, ResolveDone, Age
<1>10. CASE ListExpired \/ DeleteExpired \/ CleanupFails \/ Crash \/ UNCHANGED vars
  BY <1>1, <1>10 DEF ListExpired, DeleteExpired, CleanupFails, Crash, vars
<1>11. ASSUME NEW x \in Fetched, CidStep(x)
       PROVE  Final /\ Sub
  BY <1>1, <1>11, CidQuiet
<1>12. QED
  BY <1>2, <1>3, <1>4, <1>5, <1>6, <1>7, <1>8, <1>9, <1>10, <1>11 DEF Next, CidStep

\* What a task holds as read is what it held, or what it has just read.
LEMMA SeenEffects ==
  ASSUME TypeOK, [Next]_vars, NEW t \in Tasks, NEW p \in Projects
  PROVE  seen'[t][p] \in {0, seen[t][p], lastFinalized[p]}
<1> USE DEF tasks
<1>1. ASSUME seen' = seen
      PROVE  seen'[t][p] \in {0, seen[t][p], lastFinalized[p]}
  BY <1>1
<1>2. ASSUME NEW u \in Tasks, EndTask(u)
      PROVE  seen'[t][p] \in {0, seen[t][p], lastFinalized[p]}
  <2>1. seen'[t] = seen[t] \/ seen'[t] = NoneSeen
    BY <1>2 DEF EndTask, TypeOK
  <2>2. QED
    BY <2>1 DEF NoneSeen
<1>3. ASSUME NEW u \in Tasks, NEW q \in Projects, ReadLast(u, q)
      PROVE  seen'[t][p] \in {0, seen[t][p], lastFinalized[p]}
  <2>1. seen' = [seen EXCEPT ![u] = [seen[u] EXCEPT ![q] = lastFinalized[q]]]
    BY <1>3 DEF ReadLast
  <2>2. seen \in [Tasks -> [Projects -> 0..MaxEpoch]]
    BY DEF TypeOK
  <2>3. seen'[t] = seen[t] \/ seen'[t] = [seen[t] EXCEPT ![q] = lastFinalized[q]]
    BY <2>1, <2>2
  <2>4. seen[t] \in [Projects -> 0..MaxEpoch]
    BY <2>2
  <2>5. QED
    BY <2>3, <2>4
<1>4. ASSUME NEW u \in Tasks, WriteSubmitted(u) \/ WriteFinalized(u) \/ WriteBatch(u)
                              \/ TaskFails(u)
      PROVE  seen'[t][p] \in {0, seen[t][p], lastFinalized[p]}
  BY <1>2, <1>4 DEF WriteSubmitted, WriteFinalized, WriteBatch, TaskFails
<1>5. ASSUME NEW u \in Tasks, NEW q \in Projects, ReadFinalized(u, q) \/ ReadBatch(u, q)
      PROVE  seen'[t][p] \in {0, seen[t][p], lastFinalized[p]}
  BY <1>3, <1>5 DEF ReadFinalized, ReadBatch
<1>6. ASSUME NEW m \in Traffic,
             Publish(m) \/ \E u \in Tasks : HandleEvent(m, u)
      PROVE  seen'[t][p] \in {0, seen[t][p], lastFinalized[p]}
  BY <1>1, <1>6 DEF Publish, HandleEvent
<1>7. ASSUME NEW u \in Tasks, ReadSubmitted(u) \/ FetchBatch(u)
      PROVE  seen'[t][p] \in {0, seen[t][p], lastFinalized[p]}
  BY <1>1, <1>7 DEF ReadSubmitted, FetchBatch
<1>8. ASSUME NEW q \in LookedUp,
             \/ LookupStart(q) \/ LookupFails(q) \/ LookupWrite(q)
             \/ \E e \in Epochs : LookupAnswer(q, e)
      PROVE  seen'[t][p] \in {0, seen[t][p], lastFinalized[p]}
  BY <1>1, <1>8 DEF LookupStart, LookupFails, LookupWrite, LookupAnswer
<1>9. ASSUME NEW x \in Entries, ResolveWrite(x) \/ ResolveDone(x) \/ Age(x)
      PROVE  seen'[t][p] \in {0, seen[t][p], lastFinalized[p]}
  BY <1>1, <1>9 DEF ResolveWrite, ResolveDone, Age
<1>10. CASE ListExpired \/ DeleteExpired \/ CleanupFails \/ UNCHANGED vars
  BY <1>1, <1>10 DEF ListExpired, DeleteExpired, CleanupFails, vars
<1>11. CASE Crash
  BY <1>11 DEF Crash, NoneSeen
<1>12. ASSUME NEW x \in Fetched, CidStep(x)
       PROVE  seen'[t][p] \in {0, seen[t][p], lastFinalized[p]}
  BY <1>1, <1>12, CidQuiet
<1>13. QED
  BY <1>4, <1>5, <1>6, <1>7, <1>8, <1>9, <1>10, <1>11, <1>12 DEF Next, CidStep

LEMMA PointerPreserved == TypeOK /\ PointerInv /\ [Next]_vars => PointerInv'
<1> SUFFICES ASSUME TypeOK, PointerInv, [Next]_vars
             PROVE  PointerInv'
  OBVIOUS
<1>typed. TypeOK'
  BY TypePreserved
<1>old. /\ \A p \in Projects : lastFinalized[p] # 0 => Known(<<p, lastFinalized[p]>>)
        /\ \A p \in Projects : lastSubmitted[p] # 0 => Known(<<p, lastSubmitted[p]>>)
        /\ \A t \in Tasks, p \in Projects : seen[t][p] # 0 => Known(<<p, seen[t][p]>>)
  BY DEF PointerInv, LastFinalizedHasEntry, LastSubmittedHasEntry, Known, KnownNext
<1>range. /\ \A p \in Projects : lastFinalized[p] \in 0..MaxEpoch
          /\ \A p \in Projects : lastSubmitted[p] \in 0..MaxEpoch
          /\ \A t \in Tasks, p \in Projects : seen[t][p] \in 0..MaxEpoch
  BY DEF TypeOK
<1>keep. ASSUME NEW p \in Projects, NEW e \in 0..MaxEpoch, e # 0, Known(<<p, e>>)
         PROVE  KnownNext(<<p, e>>)
  <2>1. <<p, e>> \in Entries
    BY <1>keep, CacherAssumption DEF Entries, Epochs, CacherAssumption
  <2>2. QED
    BY <1>keep, <2>1, KnownForEver
<1>1. ASSUME NEW p \in Projects, lastFinalized'[p] # 0
      PROVE  KnownNext(<<p, lastFinalized'[p]>>)
  <2>1. \A e \in 0..MaxEpoch : e # 0 /\ Known(<<p, e>>) => KnownNext(<<p, e>>)
    BY <1>keep
  <2>2. QED
    BY <1>1, <1>old, <1>range, <2>1, PointerEffects DEF Known, KnownNext
<1>2. ASSUME NEW p \in Projects, lastSubmitted'[p] # 0
      PROVE  KnownNext(<<p, lastSubmitted'[p]>>)
  <2>1. \A e \in 0..MaxEpoch : e # 0 /\ Known(<<p, e>>) => KnownNext(<<p, e>>)
    BY <1>keep
  <2>2. QED
    BY <1>2, <1>old, <1>range, <2>1, PointerEffects DEF Known, KnownNext
<1>3. ASSUME NEW t \in Tasks, NEW p \in Projects, seen'[t][p] # 0
      PROVE  KnownNext(<<p, seen'[t][p]>>)
  <2>1. \A e \in 0..MaxEpoch : e # 0 /\ Known(<<p, e>>) => KnownNext(<<p, e>>)
    BY <1>keep
  <2>2. QED
    BY <1>3, <1>old, <1>range, <2>1, SeenEffects DEF Known, KnownNext
<1>4. QED
  BY <1>1, <1>2, <1>3
     DEF PointerInv, LastFinalizedHasEntry, LastSubmittedHasEntry, Known, KnownNext

LEMMA PointersHold == Spec => []PointerInv
<1>1. Init => PointerInv
  BY DEF Init, PointerInv, LastFinalizedHasEntry, LastSubmittedHasEntry, NoneSeen
<1>2. QED
  BY <1>1, TypeCorrect, PointerPreserved, PTL DEF Spec

\* The last finalized epoch never names something that was never stored.
THEOREM FinalizedPointerSound == Spec => []LastFinalizedHasEntry
<1>1. PointerInv => LastFinalizedHasEntry
  BY DEF PointerInv
<1>2. QED
  BY <1>1, PointersHold, PTL

\* Nor does the last submitted epoch.
THEOREM SubmittedPointerSound == Spec => []LastSubmittedHasEntry
<1>1. PointerInv => LastSubmittedHasEntry
  BY DEF PointerInv
<1>2. QED
  BY <1>1, PointersHold, PTL

-----------------------------------------------------------------------------
(* The last finalized epoch is the newest one. *)

\* What is left to read of a task's projects, at each of its steps.
ShapeInv ==
    \A t \in Tasks : /\ todo[t] \subseteq job[t].projects
                     /\ step[t] = "fetch" => todo[t] = job[t].projects
                     /\ step[t] = "write" => todo[t] = {}
                     /\ job[t].kind = "submitted" => todo[t] = {}

\* At most one read-modify-write of p is under way, and what it has read is
\* still what is stored.
TrackAt(p) ==
    /\ lastFinalized[p] = best[p]
    /\ \A t \in Tasks : Holds(t, p) => seen[t][p] = lastFinalized[p]
    /\ \A t, u \in Tasks : Holds(t, p) /\ Holds(u, p) => t = u
    /\ p \in asking => lastFinalized[p] = 0 /\ \A t \in Tasks : ~Holds(t, p)

TrackInv == \A p \in Projects : p \notin raced => TrackAt(p)

LEMMA ShapePreserved == TypeOK /\ ShapeInv /\ [Next]_vars => ShapeInv'
<1> SUFFICES ASSUME TypeOK, ShapeInv, [Next]_vars, NEW t \in Tasks
             PROVE  /\ todo'[t] \subseteq job'[t].projects
                    /\ step'[t] = "fetch" => todo'[t] = job'[t].projects
                    /\ step'[t] = "write" => todo'[t] = {}
                    /\ job'[t].kind = "submitted" => todo'[t] = {}
  BY DEF ShapeInv
<1> DEFINE Shaped == /\ todo'[t] \subseteq job'[t].projects
                     /\ step'[t] = "fetch" => todo'[t] = job'[t].projects
                     /\ step'[t] = "write" => todo'[t] = {}
                     /\ job'[t].kind = "submitted" => todo'[t] = {}
<1> USE DEF tasks
<1>old. /\ todo[t] \subseteq job[t].projects
        /\ step[t] = "fetch" => todo[t] = job[t].projects
        /\ step[t] = "write" => todo[t] = {}
        /\ job[t].kind = "submitted" => todo[t] = {}
  BY DEF ShapeInv
<1>typed. /\ todo \in [Tasks -> SUBSET Projects]
          /\ step \in [Tasks -> {"idle", "fetch", "read", "write"}]
          /\ job \in [Tasks -> published \cup {NoJob}]
  BY DEF TypeOK
<1>1. ASSUME UNCHANGED <<step, job, todo>>
      PROVE  Shaped
  BY <1>old, <1>1
<1>2. ASSUME NEW u \in Tasks, EndTask(u)
      PROVE  Shaped
  <2>1. CASE u = t
    BY <1>2, <1>typed, <2>1 DEF EndTask
  <2>2. CASE u # t
    BY <1>old, <1>2, <1>typed, <2>2 DEF EndTask
  <2>3. QED
    BY <2>1, <2>2
<1>3. ASSUME NEW m \in Traffic, NEW u \in Tasks, HandleEvent(m, u)
      PROVE  Shaped
  <2>1. CASE u = t
    BY <1>3, <1>typed, <2>1 DEF HandleEvent
  <2>2. CASE u # t
    BY <1>old, <1>3, <1>typed, <2>2 DEF HandleEvent
  <2>3. QED
    BY <2>1, <2>2
<1>4. ASSUME NEW u \in Tasks, ReadSubmitted(u)
      PROVE  Shaped
  BY <1>old, <1>4, <1>typed DEF ReadSubmitted
<1>5. ASSUME NEW u \in Tasks, NEW q \in Projects, ReadFinalized(u, q)
      PROVE  Shaped
  <2>1. \E r \in Projects : job[u].projects = {r}
    BY <1>5, JobTyped, CacherAssumption DEF ReadFinalized, TypeOK, CacherAssumption
  <2>2. /\ step' = [step EXCEPT ![u] = "write"] /\ job' = job
        /\ todo' = [todo EXCEPT ![u] = todo[u] \ {q}] /\ q \in todo[u]
    BY <1>5 DEF ReadFinalized, ReadLast
  <2>3. QED
    BY <1>old, <1>typed, <2>1, <2>2
<1>6. ASSUME NEW u \in Tasks, NEW q \in Projects, ReadBatch(u, q)
      PROVE  Shaped
  <2>1. /\ step' = IF todo[u] = {q} THEN [step EXCEPT ![u] = "write"] ELSE step
        /\ job' = job /\ todo' = [todo EXCEPT ![u] = todo[u] \ {q}] /\ q \in todo[u]
        /\ step[u] = "read"
    BY <1>6 DEF ReadBatch, ReadLast
  <2>2. QED
    BY <1>old, <1>typed, <2>1
<1>7. ASSUME NEW u \in Tasks, FetchBatch(u)
      PROVE  Shaped
  BY <1>old, <1>7, <1>typed DEF FetchBatch
<1>8. ASSUME NEW u \in Tasks, WriteSubmitted(u) \/ WriteFinalized(u) \/ WriteBatch(u)
                              \/ TaskFails(u)
      PROVE  Shaped
  BY <1>2, <1>8 DEF WriteSubmitted, WriteFinalized, WriteBatch, TaskFails
<1>9. ASSUME NEW m \in Traffic, Publish(m)
      PROVE  Shaped
  BY <1>1, <1>9 DEF Publish
<1>10. ASSUME NEW q \in LookedUp,
              \/ LookupStart(q) \/ LookupFails(q) \/ LookupWrite(q)
              \/ \E e \in Epochs : LookupAnswer(q, e)
       PROVE  Shaped
  BY <1>1, <1>10 DEF LookupStart, LookupFails, LookupWrite, LookupAnswer
<1>11. ASSUME NEW x \in Entries, ResolveWrite(x) \/ ResolveDone(x) \/ Age(x)
       PROVE  Shaped
  BY <1>1, <1>11 DEF ResolveWrite, ResolveDone, Age
<1>12. CASE ListExpired \/ DeleteExpired \/ CleanupFails \/ UNCHANGED vars
  BY <1>1, <1>12 DEF ListExpired, DeleteExpired, CleanupFails, vars
<1>13. CASE Crash
  BY <1>13 DEF Crash
<1>14. ASSUME NEW x \in Fetched, CidStep(x)
       PROVE  Shaped
  BY <1>1, <1>14, CidQuiet
<1>15. QED
  BY <1>3, <1>4, <1>5, <1>6, <1>7, <1>8, <1>9, <1>10, <1>11, <1>12, <1>13, <1>14
     DEF Next, CidStep

\* Steps that give nothing to hold keep what is known of p.
LEMMA TrackQuiet ==
  ASSUME NEW p \in Projects, TrackAt(p),
         lastFinalized'[p] = lastFinalized[p], best'[p] = best[p],
         p \in asking' => p \in asking,
         \A t \in Tasks : Holds(t, p)' => Holds(t, p) /\ seen'[t][p] = seen[t][p]
  PROVE  TrackAt(p)'
  BY DEF TrackAt

\* A task that ends holds nothing, the others hold what they held.
LEMMA EndTaskReleases ==
  ASSUME TypeOK, NEW u \in Tasks, EndTask(u), NEW p \in Projects
  PROVE  /\ ~Holds(u, p)'
         /\ \A t \in Tasks : Holds(t, p)' => Holds(t, p) /\ seen'[t][p] = seen[t][p]
<1>1. step'[u] = "idle"
  BY DEF EndTask, TypeOK
<1>2. \A t \in Tasks : t # u => /\ step'[t] = step[t] /\ job'[t] = job[t]
                               /\ todo'[t] = todo[t] /\ seen'[t] = seen[t]
  BY DEF EndTask, TypeOK
<1>3. QED
  BY <1>1, <1>2 DEF Holds

\* A task that reads q holds q from then on; another project is held as before.
LEMMA ReadLastHolds ==
  ASSUME TypeOK, NEW u \in Tasks, NEW q \in Projects, ReadLast(u, q), job' = job,
         step[u] = "read", step' = step \/ step' = [step EXCEPT ![u] = "write"],
         NEW p \in Projects, NEW t \in Tasks, Holds(t, p)'
  PROVE  \/ Holds(t, p) /\ seen'[t][p] = seen[t][p]
         \/ t = u /\ p = q /\ seen'[t][p] = lastFinalized[p]
<1>1. /\ seen' = [seen EXCEPT ![u] = [seen[u] EXCEPT ![q] = lastFinalized[q]]]
      /\ todo' = [todo EXCEPT ![u] = todo[u] \ {q}]
  BY DEF ReadLast
<1>2. /\ seen \in [Tasks -> [Projects -> 0..MaxEpoch]]
      /\ todo \in [Tasks -> SUBSET Projects]
      /\ step \in [Tasks -> {"idle", "fetch", "read", "write"}]
  BY DEF TypeOK
<1>3. CASE t # u
  <2>1. seen'[t] = seen[t] /\ todo'[t] = todo[t] /\ step'[t] = step[t]
    BY <1>1, <1>2, <1>3
  <2>2. QED
    BY <2>1 DEF Holds
<1>4. CASE t = u
  <2>1. seen'[t] = [seen[t] EXCEPT ![q] = lastFinalized[q]] /\ todo'[t] = todo[t] \ {q}
    BY <1>1, <1>2, <1>4
  <2>2. seen[t] \in [Projects -> 0..MaxEpoch]
    BY <1>2
  <2>3. CASE p = q
    BY <1>4, <2>1, <2>2, <2>3
  <2>4. CASE p # q
    <3>1. seen'[t][p] = seen[t][p]
      BY <2>1, <2>2, <2>4
    <3>2. Holds(t, p)
      BY <1>4, <2>1, <2>4 DEF Holds
    <3>3. QED
      BY <3>1, <3>2
  <2>5. QED
    BY <2>3, <2>4
<1>5. QED
  BY <1>3, <1>4

LEMMA TrackPreserved ==
  TypeOK /\ ShapeInv /\ TrackInv /\ [Next]_vars => TrackInv'
<1> SUFFICES ASSUME TypeOK, ShapeInv, TrackInv, [Next]_vars,
                    NEW p \in Projects, p \notin raced'
             PROVE  TrackAt(p)'
  BY DEF TrackInv
<1> USE DEF redis, tasks, lookups, history
<1>typed. /\ best \in [Projects -> 0..MaxEpoch]
          /\ lastFinalized \in [Projects -> 0..MaxEpoch]
          /\ seen \in [Tasks -> [Projects -> 0..MaxEpoch]]
  BY DEF TypeOK
\* p was not raced before the step, so all is known of it.
<1>old. ASSUME raced \subseteq raced'
        PROVE  TrackAt(p)
  BY <1>old DEF TrackInv
\* Steps that touch neither the pointers nor the tasks.
<1>1. ASSUME UNCHANGED <<lastFinalized, best, raced, step, job, todo, seen, asking>>
      PROVE  TrackAt(p)'
  BY <1>old, <1>1, TrackQuiet DEF Holds
\* Reads.
<1>2. ASSUME NEW u \in Tasks, NEW q \in Projects, ReadFinalized(u, q) \/ ReadBatch(u, q)
      PROVE  TrackAt(p)'
  <2>1. /\ ReadLast(u, q) /\ job' = job /\ step[u] = "read"
        /\ UNCHANGED <<lastFinalized, best, asking>>
    BY <1>2 DEF ReadFinalized, ReadBatch
  <2>2. step' = step \/ step' = [step EXCEPT ![u] = "write"]
    BY <1>2 DEF ReadFinalized, ReadBatch
  <2>3. TrackAt(p)
    BY <1>old, <2>1 DEF ReadLast
  <2>4. \A t \in Tasks : Holds(t, p)' =>
            \/ Holds(t, p) /\ seen'[t][p] = seen[t][p]
            \/ t = u /\ p = q /\ seen'[t][p] = lastFinalized[p]
    BY <2>1, <2>2, ReadLastHolds
  <2>5. CASE p # q
    BY <2>1, <2>3, <2>4, <2>5, TrackQuiet
  <2>6. CASE p = q
    <3>1. p \notin asking /\ \A t \in Tasks : ~Holds(t, p)
      BY <2>1, <2>6 DEF ReadLast, Contended
    <3>2. QED
      BY <2>1, <2>3, <2>4, <3>1 DEF TrackAt
  <2>7. QED
    BY <2>5, <2>6
\* Writes: the task held every project it writes.
<1>3. ASSUME NEW u \in Tasks, WriteFinalized(u) \/ WriteBatch(u)
      PROVE  TrackAt(p)'
  <2>1. /\ \E st \in Statuses : StoreFinalized(u, st)
        /\ EndTask(u) /\ step[u] = "write" /\ job[u].kind \in {"finalized", "batch"}
        /\ UNCHANGED <<raced, asking>>
    BY <1>3 DEF WriteFinalized, WriteBatch, Statuses
  <2>2. TrackAt(p)
    BY <1>old, <2>1
  <2>3. /\ ~Holds(u, p)'
        /\ \A t \in Tasks : Holds(t, p)' => Holds(t, p) /\ seen'[t][p] = seen[t][p]
    BY <2>1, EndTaskReleases
  <2>4. CASE p \notin job[u].projects
    <3>1. lastFinalized'[p] = lastFinalized[p] /\ best'[p] = best[p]
      BY <2>1, <2>4 DEF StoreFinalized
    <3>2. QED
      BY <2>1, <2>2, <2>3, <3>1, TrackQuiet
  <2>5. CASE p \in job[u].projects
    <3>1. Holds(u, p)
      BY <2>1, <2>5 DEF Holds, ShapeInv
    <3>2. seen[u][p] = best[p] /\ p \notin asking
      BY <2>2, <3>1 DEF TrackAt
    <3>3. /\ lastFinalized'[p] = Larger(seen[u][p], job[u].epoch)
          /\ best'[p] = Larger(best[p], job[u].epoch)
      BY <2>1, <2>5 DEF StoreFinalized, NewLast
    <3>4. \A t \in Tasks : ~Holds(t, p)'
      BY <2>2, <2>3, <3>1 DEF TrackAt
    <3>5. QED
      BY <2>1, <3>2, <3>3, <3>4 DEF TrackAt
  <2>6. QED
    BY <2>4, <2>5
\* Lookups.
<1>4. ASSUME NEW q \in LookedUp, LookupStart(q)
      PROVE  TrackAt(p)'
  <2>1. /\ UNCHANGED <<lastFinalized, best, step, job, todo, seen>>
        /\ lastFinalized[q] = 0 /\ asking' = asking \cup {q}
        /\ raced' = IF Contended(q) THEN raced \cup {q} ELSE raced
    BY <1>4 DEF LookupStart
  <2>2. TrackAt(p)
    BY <1>old, <2>1
  <2>3. \A t \in Tasks : Holds(t, p)' <=> Holds(t, p)
    BY <2>1 DEF Holds
  <2>4. CASE p # q
    BY <2>1, <2>2, <2>3, <2>4, TrackQuiet
  <2>5. CASE p = q
    <3>1. \A t \in Tasks : ~Holds(t, p)
      BY <2>1, <2>5 DEF Contended
    <3>2. QED
      BY <2>1, <2>2, <2>3, <2>5, <3>1 DEF TrackAt
  <2>6. QED
    BY <2>4, <2>5
<1>5. ASSUME NEW q \in LookedUp, LookupFails(q)
      PROVE  TrackAt(p)'
  <2>1. /\ UNCHANGED <<lastFinalized, best, raced, step, job, todo, seen>>
        /\ asking' = asking \ {q}
    BY <1>5 DEF LookupFails
  <2>2. QED
    BY <1>old, <2>1, TrackQuiet DEF Holds
<1>6. ASSUME NEW q \in LookedUp, LookupWrite(q)
      PROVE  TrackAt(p)'
  <2>1. /\ UNCHANGED <<raced, step, job, todo, seen>>
        /\ lastFinalized' = [lastFinalized EXCEPT ![q] = answer[q]]
        /\ best' = [best EXCEPT ![q] = Larger(best[q], answer[q])]
        /\ asking' = asking \ {q} /\ q \in asking /\ answer[q] # 0
    BY <1>6 DEF LookupWrite
  <2>2. TrackAt(p)
    BY <1>old, <2>1
  <2>3. \A t \in Tasks : Holds(t, p)' <=> Holds(t, p)
    BY <2>1 DEF Holds
  <2>4. CASE p # q
    <3>1. lastFinalized'[p] = lastFinalized[p] /\ best'[p] = best[p]
      BY <1>typed, <2>1, <2>4
    <3>2. QED
      BY <2>1, <2>2, <2>3, <3>1, TrackQuiet
  <2>5. CASE p = q
    <3>1. /\ lastFinalized'[p] = answer[p]
          /\ best'[p] = Larger(best[p], answer[p])
      BY <1>typed, <2>1, <2>5
    <3>2. best[p] = 0 /\ \A t \in Tasks : ~Holds(t, p)
      BY <2>1, <2>2, <2>5 DEF TrackAt
    <3>3. answer[p] \in 0..MaxEpoch
      BY DEF TypeOK
    <3>4. best'[p] = answer[p]
      BY <2>1, <2>5, <3>1, <3>2, <3>3 DEF Larger
    <3>5. QED
      BY <2>1, <2>3, <2>5, <3>1, <3>2, <3>4 DEF TrackAt
  <2>6. QED
    BY <2>4, <2>5
\* The other steps of tasks.
<1>7. ASSUME NEW u \in Tasks, WriteSubmitted(u) \/ TaskFails(u)
      PROVE  TrackAt(p)'
  <2>1. EndTask(u) /\ UNCHANGED <<lastFinalized, best, raced, asking>>
    BY <1>7 DEF WriteSubmitted, TaskFails
  <2>2. QED
    BY <1>old, <2>1, EndTaskReleases, TrackQuiet
<1>8. ASSUME NEW m \in Traffic, NEW u \in Tasks, HandleEvent(m, u)
      PROVE  TrackAt(p)'
  <2>1. /\ UNCHANGED <<lastFinalized, best, raced, asking, seen>>
        /\ job' = [job EXCEPT ![u] = m]
        /\ step' = [step EXCEPT ![u] = IF m.kind = "batch" THEN "fetch" ELSE "read"]
        /\ todo' = [todo EXCEPT ![u] = IF m.kind = "submitted" THEN {} ELSE m.projects]
    BY <1>8 DEF HandleEvent
  <2>2. \A t \in Tasks : Holds(t, p)' => Holds(t, p)
    BY <2>1 DEF Holds, TypeOK
  <2>3. QED
    BY <1>old, <2>1, <2>2, TrackQuiet
<1>9. ASSUME NEW u \in Tasks, FetchBatch(u) \/ ReadSubmitted(u)
      PROVE  TrackAt(p)'
  <2>1. UNCHANGED <<lastFinalized, best, raced, asking, seen, job, todo>>
    BY <1>9 DEF FetchBatch, ReadSubmitted
  <2>2. CASE FetchBatch(u)
    <3>1. step[u] = "fetch" /\ step' = [step EXCEPT ![u] = "read"]
      BY <2>2 DEF FetchBatch
    <3>2. \A t \in Tasks : Holds(t, p)' => Holds(t, p)
      BY <2>1, <3>1 DEF Holds, TypeOK, ShapeInv
    <3>3. QED
      BY <1>old, <2>1, <3>2, TrackQuiet
  <2>3. CASE ReadSubmitted(u)
    <3>1. step[u] = "read" /\ step' = [step EXCEPT ![u] = "write"]
      BY <2>3 DEF ReadSubmitted
    <3>2. \A t \in Tasks : Holds(t, p)' => Holds(t, p)
      BY <2>1, <3>1 DEF Holds, TypeOK
    <3>3. QED
      BY <1>old, <2>1, <3>2, TrackQuiet
  <2>4. QED
    BY <1>9, <2>2, <2>3
<1>10. CASE Crash
  <2>1. /\ UNCHANGED <<lastFinalized, best, raced, asking>>
        /\ step' = [t \in Tasks |-> "idle"]
    BY <1>10 DEF Crash
  <2>2. \A t \in Tasks : ~Holds(t, p)'
    BY <2>1 DEF Holds
  <2>3. QED
    BY <1>old, <2>1, <2>2, TrackQuiet
<1>11. ASSUME NEW m \in Traffic, Publish(m)
       PROVE  TrackAt(p)'
  BY <1>1, <1>11 DEF Publish
<1>12. ASSUME NEW q \in LookedUp, NEW e \in Epochs, LookupAnswer(q, e)
       PROVE  TrackAt(p)'
  BY <1>1, <1>12 DEF LookupAnswer
<1>13. ASSUME NEW x \in Entries, ResolveWrite(x) \/ ResolveDone(x) \/ Age(x)
       PROVE  TrackAt(p)'
  BY <1>1, <1>13 DEF ResolveWrite, ResolveDone, Age
<1>14. CASE ListExpired \/ DeleteExpired \/ CleanupFails \/ UNCHANGED vars
  BY <1>1, <1>14 DEF ListExpired, DeleteExpired, CleanupFails, vars
<1>15. ASSUME NEW x \in Fetched, CidStep(x)
       PROVE  TrackAt(p)'
  BY <1>1, <1>15, CidQuiet
<1>16. QED
  BY <1>2, <1>3, <1>4, <1>5, <1>6, <1>7, <1>8, <1>9, <1>10, <1>11, <1>12, <1>13,
     <1>14, <1>15 DEF Next, CidStep

\* Without overlapping read-modify-writes, the last finalized epoch is the
\* newest one stored, whatever the order of the events and the failures.
THEOREM LastFinalizedIsNewest == Spec => []LastFinalizedTracksMax
<1>1. Init => ShapeInv /\ TrackInv
  BY DEF Init, ShapeInv, TrackInv, TrackAt, Holds, NoJob
<1>2. TrackInv => LastFinalizedTracksMax
  BY DEF TrackInv, TrackAt, LastFinalizedTracksMax
<1>3. QED
  BY <1>1, <1>2, TypeCorrect, ShapePreserved, TrackPreserved, PTL DEF Spec

-----------------------------------------------------------------------------
(* Batches. *)

\* What a batch leaves behind for good: its entries, here or cleaned up, and
\* for each project a finalized epoch as new as the batch.
Applied(m) ==
    \A y \in EntriesOf(m) : Known(y) /\ best[y[1]] >= y[2]

BatchInv ==
    \A x \in Entries : data[x] = "SEQUENCER_FINALIZED" =>
        \E m \in published : m.kind = "batch" /\ x \in EntriesOf(m) /\ Applied(m)

\* Only the pipeline of a batch gives an entry the status of a batch.
LEMMA SequencedBy ==
  ASSUME TypeOK, [Next]_vars, NEW x \in Entries,
         data'[x] = "SEQUENCER_FINALIZED", data[x] # "SEQUENCER_FINALIZED"
  PROVE  \E t \in Tasks : WriteBatch(t) /\ x \in EntriesOf(job[t])
<1> USE DEF redis
<1>typed. data \in [Entries -> Statuses]
  BY DEF TypeOK
<1>1. ASSUME data' = data
      PROVE  FALSE
  BY <1>1
<1>2. ASSUME NEW t \in Tasks, WriteBatch(t)
      PROVE  x \in EntriesOf(job[t])
  BY <1>2 DEF WriteBatch, StoreFinalized, Put
<1>3. ASSUME NEW t \in Tasks, WriteSubmitted(t) \/ WriteFinalized(t)
      PROVE  FALSE
  BY <1>3 DEF WriteSubmitted, WriteFinalized, StoreFinalized, Put
<1>4. ASSUME NEW y \in Entries, ResolveWrite(y)
      PROVE  FALSE
  BY <1>4 DEF ResolveWrite, Put
<1>5. ASSUME NEW y \in Fetched, CidWrite(y) \/ CidCutShort(y)
      PROVE  FALSE
  BY <1>5 DEF CidWrite, CidCutShort, Put
<1>6. ASSUME NEW y \in Fetched, CidStart(y) \/ CidEnds(y)
      PROVE  FALSE
  BY <1>1, <1>6 DEF CidStart, CidEnds
<1>7. CASE DeleteExpired
  BY <1>7 DEF DeleteExpired
<1>8. ASSUME NEW m \in Traffic, Publish(m) \/ \E t \in Tasks : HandleEvent(m, t)
      PROVE  FALSE
  BY <1>1, <1>8 DEF Publish, HandleEvent
<1>9. ASSUME NEW t \in Tasks, TaskFails(t) \/ ReadSubmitted(t) \/ FetchBatch(t)
      PROVE  FALSE
  BY <1>1, <1>9 DEF TaskFails, ReadSubmitted, FetchBatch
<1>10. ASSUME NEW t \in Tasks, NEW p \in Projects, ReadFinalized(t, p) \/ ReadBatch(t, p)
       PROVE  FALSE
  BY <1>1, <1>10 DEF ReadFinalized, ReadBatch
<1>11. ASSUME NEW p \in LookedUp,
              \/ LookupStart(p) \/ LookupFails(p) \/ LookupWrite(p)
              \/ \E e \in Epochs : LookupAnswer(p, e)
       PROVE  FALSE
  BY <1>1, <1>11 DEF LookupStart, LookupFails, LookupWrite, LookupAnswer
<1>12. ASSUME NEW y \in Entries, ResolveDone(y) \/ Age(y)
       PROVE  FALSE
  BY <1>1, <1>12 DEF ResolveDone, Age
<1>13. CASE ListExpired \/ CleanupFails \/ Crash \/ UNCHANGED vars
  BY <1>1, <1>13 DEF ListExpired, CleanupFails, Crash, vars
<1>14. QED
  BY <1>2, <1>3, <1>4, <1>5, <1>6, <1>7, <1>8, <1>9, <1>10, <1>11, <1>12, <1>13 DEF Next

\* Publications are remembered and the newest finalized epoch never goes back.
LEMMA HistoryGrows ==
  ASSUME TypeOK, [Next]_vars
  PROVE  /\ published \subseteq published'
         /\ \A p \in Projects : best'[p] >= best[p]
<1> USE DEF broker, history
<1>typed. /\ best \in [Projects -> 0..MaxEpoch]
          /\ answer \in [Projects -> 0..MaxEpoch]
  BY DEF TypeOK
<1>1. ASSUME published \subseteq published', best' = best
      PROVE  published \subseteq published' /\ \A p \in Projects : best'[p] >= best[p]
  BY <1>typed, <1>1
<1>2. ASSUME NEW t \in Tasks, WriteFinalized(t) \/ WriteBatch(t)
      PROVE  published \subseteq published' /\ \A p \in Projects : best'[p] >= best[p]
  <2>1. job[t].epoch \in 1..MaxEpoch
    BY <1>2, JobTyped DEF WriteFinalized, WriteBatch
  <2>2. best' = [p \in Projects |->
            IF p \in job[t].projects THEN Larger(best[p], job[t].epoch) ELSE best[p]]
    BY <1>2 DEF WriteFinalized, WriteBatch, StoreFinalized
  <2>3. \A p \in Projects : Larger(best[p], job[t].epoch) >= best[p] /\ best[p] >= best[p]
    BY <1>typed, <2>1 DEF Larger
  <2>4. published' = published
    BY <1>2 DEF WriteFinalized, WriteBatch
  <2>5. QED
    BY <2>2, <2>3, <2>4
<1>3. ASSUME NEW q \in LookedUp, LookupWrite(q)
      PROVE  published \subseteq published' /\ \A p \in Projects : best'[p] >= best[p]
  <2>1. q \in Projects
    BY CacherAssumption DEF CacherAssumption
  <2>2. /\ best' = [best EXCEPT ![q] = Larger(best[q], answer[q])]
        /\ published' = published
    BY <1>3 DEF LookupWrite
  <2>3. \A p \in Projects : best[p] >= best[p] /\ Larger(best[p], answer[p]) >= best[p]
    BY <1>typed DEF Larger
  <2>4. QED
    BY <1>typed, <2>1, <2>2, <2>3
<1>4. ASSUME NEW m \in Traffic, Publish(m) \/ \E t \in Tasks : HandleEvent(m, t)
      PROVE  published \subseteq published' /\ \A p \in Projects : best'[p] >= best[p]
  BY <1>1, <1>4 DEF Publish, HandleEvent
<1>5. ASSUME NEW t \in Tasks,
             TaskFails(t) \/ ReadSubmitted(t) \/ FetchBatch(t) \/ WriteSubmitted(t)
      PROVE  published \subseteq published' /\ \A p \in Projects : best'[p] >= best[p]
  BY <1>1, <1>5 DEF TaskFails, ReadSubmitted, FetchBatch, WriteSubmitted
<1>6. ASSUME NEW t \in Tasks, NEW q \in Projects, ReadFinalized(t, q) \/ ReadBatch(t, q)
      PROVE  published \subseteq published' /\ \A p \in Projects : best'[p] >= best[p]
  BY <1>1, <1>6 DEF ReadFinalized, ReadBatch
<1>7. ASSUME NEW q \in LookedUp,
             LookupStart(q) \/ LookupFails(q) \/ \E e \in Epochs : LookupAnswer(q, e)
      PROVE  published \subseteq published' /\ \A p \in Projects : best'[p] >= best[p]
  BY <1>1, <1>7 DEF LookupStart, LookupFails, LookupAnswer
<1>8. ASSUME NEW x \in Entries, ResolveWrite(x) \/ ResolveDone(x) \/ Age(x)
      PROVE  published \subseteq published' /\ \A p \in Projects : best'[p] >= best[p]
  BY <1>1, <1>8 DEF ResolveWrite, ResolveDone, Age
<1>9. ASSUME NEW x \in Fetched, CidStep(x)
      PROVE  published \subseteq published' /\ \A p \in Projects : best'[p] >= best[p]
  BY <1>1, <1>9, CidQuiet
<1>10. CASE ListExpired \/ DeleteExpired \/ CleanupFails \/ Crash \/ UNCHANGED vars
  BY <1>1, <1>10 DEF ListExpired, DeleteExpired, CleanupFails, Crash, vars
<1>11. QED
  BY <1>2, <1>3, <1>4, <1>5, <1>6, <1>7, <1>8, <1>9, <1>10 DEF Next, CidStep

\* The pipeline of a batch applies it to all of its projects.
LEMMA WriteBatchApplies ==
  ASSUME TypeOK, NEW t \in Tasks, WriteBatch(t)
  PROVE  \A y \in EntriesOf(job[t]) : KnownNext(y) /\ best'[y[1]] >= y[2]
<1>1. job[t].epoch \in 1..MaxEpoch /\ job[t].projects \in SUBSET Projects
  BY JobTyped DEF WriteBatch
<1>2. ASSUME NEW y \in EntriesOf(job[t])
      PROVE  KnownNext(y) /\ best'[y[1]] >= y[2]
  <2>1. /\ y \in Entries /\ y[1] \in job[t].projects /\ y[1] \in Projects
        /\ y[2] = job[t].epoch
    BY <1>1 DEF EntriesOf, Entries, Epochs
  <2>2. data'[y] = "SEQUENCER_FINALIZED"
    BY <2>1 DEF WriteBatch, StoreFinalized, Put
  <2>3. best'[y[1]] = Larger(best[y[1]], job[t].epoch)
    BY <2>1 DEF WriteBatch, StoreFinalized
  <2>4. best[y[1]] \in 0..MaxEpoch
    BY <2>1 DEF TypeOK
  <2>5. best'[y[1]] >= y[2]
    BY <1>1, <2>1, <2>3, <2>4 DEF Larger
  <2>6. QED
    BY <2>2, <2>5 DEF KnownNext
<1>3. QED
  BY <1>2

LEMMA AppliedForEver ==
  ASSUME TypeOK, [Next]_vars, NEW m \in published, Applied(m)
  PROVE  \A y \in EntriesOf(m) : KnownNext(y) /\ best'[y[1]] >= y[2]
<1>1. m.projects \in SUBSET Projects /\ m.epoch \in 1..MaxEpoch
  BY CacherAssumption DEF TypeOK, CacherAssumption, Message, Epochs
<1>2. ASSUME NEW y \in EntriesOf(m)
      PROVE  KnownNext(y) /\ best'[y[1]] >= y[2]
  <2>1. y \in Entries /\ y[1] \in Projects /\ y[2] \in 1..MaxEpoch
    BY <1>1 DEF EntriesOf, Entries, Epochs
  <2>2. Known(y) /\ best[y[1]] >= y[2]
    BY DEF Applied
  <2>3. KnownNext(y)
    BY <2>1, <2>2, KnownForEver
  <2>4. best'[y[1]] >= best[y[1]]
    BY <2>1, HistoryGrows
  <2>5. best[y[1]] \in Int /\ best'[y[1]] \in Int
    BY <2>1, TypePreserved DEF TypeOK
  <2>6. best'[y[1]] >= y[2]
    BY <2>1, <2>2, <2>4, <2>5
  <2>7. QED
    BY <2>3, <2>6
<1>3. QED
  BY <1>2

LEMMA BatchPreserved == TypeOK /\ BatchInv /\ [Next]_vars => BatchInv'
<1> SUFFICES ASSUME TypeOK, BatchInv, [Next]_vars, NEW x \in Entries,
                    data'[x] = "SEQUENCER_FINALIZED"
             PROVE  \E m \in published' :
                       /\ m.kind = "batch" /\ x \in EntriesOf(m)
                       /\ \A y \in EntriesOf(m) : KnownNext(y) /\ best'[y[1]] >= y[2]
  BY DEF BatchInv, Applied, EntriesOf, Known, KnownNext
<1>1. CASE data[x] = "SEQUENCER_FINALIZED"
  <2>1. PICK m \in published : m.kind = "batch" /\ x \in EntriesOf(m) /\ Applied(m)
    BY <1>1 DEF BatchInv
  <2>2. m \in published'
    BY HistoryGrows
  <2>3. QED
    BY <2>1, <2>2, AppliedForEver
<1>2. CASE data[x] # "SEQUENCER_FINALIZED"
  <2>1. PICK t \in Tasks : WriteBatch(t) /\ x \in EntriesOf(job[t])
    BY <1>2, SequencedBy
  <2>2. job[t].kind = "batch" /\ job[t] \in published
    BY <2>1, JobTyped DEF WriteBatch
  <2>3. job[t] \in published'
    BY <2>2, HistoryGrows
  <2>4. QED
    BY <2>1, <2>2, <2>3, WriteBatchApplies
<1>3. QED
  BY <1>1, <1>2

\* Whatever fails or dies between the reads of a batch and its pipeline, who
\* finds one of its entries in Redis finds the whole of it applied.
THEOREM BatchesAreAtomic == Spec => []BatchIsAtomic
<1>1. Init => BatchInv
  BY DEF Init, BatchInv
<1>2. TypeOK /\ BatchInv /\ LastFinalizedTracksMax => BatchIsAtomic
  <2> SUFFICES ASSUME TypeOK, BatchInv, LastFinalizedTracksMax, NEW x \in Entries,
                      data[x] = "SEQUENCER_FINALIZED"
               PROVE  \E m \in published :
                        /\ m.kind = "batch" /\ x \in EntriesOf(m)
                        /\ \A y \in EntriesOf(m) :
                              /\ data[y] # "none" \/ y \in absent
                              /\ y[1] \notin raced => lastFinalized[y[1]] >= y[2]
    BY DEF BatchIsAtomic
  <2>1. PICK m \in published : m.kind = "batch" /\ x \in EntriesOf(m) /\ Applied(m)
    BY DEF BatchInv
  <2>2. m.projects \in SUBSET Projects
    BY CacherAssumption DEF TypeOK, CacherAssumption, Message
  <2>3. \A y \in EntriesOf(m) : y[1] \in Projects
    BY <2>2 DEF EntriesOf
  <2>4. \A y \in EntriesOf(m) :
            /\ data[y] # "none" \/ y \in absent
            /\ y[1] \notin raced => lastFinalized[y[1]] >= y[2]
    BY <2>1, <2>3 DEF Applied, Known, LastFinalizedTracksMax
  <2>5. QED
    BY <2>1, <2>4
<1>3. QED
  BY <1>1, <1>2, TypeCorrect, LastFinalizedIsNewest, BatchPreserved, PTL DEF Spec
=============================================================================
