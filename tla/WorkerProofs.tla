----------------------------- MODULE WorkerProofs -----------------------------
(***************************************************************************)
(* Theorems of the workers, for any types, projects, foreign snapshots and *)
(* bounds.                                                                 *)
(***************************************************************************)
EXTENDS Worker, TLAPS

-----------------------------------------------------------------------------
(* Parts of the inductive invariant.                                       *)

\* A job that commits a snapshot has a project, and after its upload the
\* snapshot is stored.
Located ==
    \A j \in Jobs :
        /\ stage[j] \in {"read", "upload", "submit", "note"} => current[j] \in Projects
        /\ stage[j] \in {"submit", "note"} => stored[Current(j)] # None

\* Names that can be resolved, by the place they are in.
Announced == \A m \in events : m.kind = "SnapshotSubmitted" => stored[m.snapshot] # None
SentStored == \A c \in sent : stored[c] # None
LastStored ==
    \A p \in Projects : /\ raw[p] # None => stored[raw[p]] # None
                        /\ noted[p] # None => stored[noted[p]] # None
ListedStored ==
    \A c \in Snapshots : stored[c] # None =>
        \A i \in DOMAIN stored[c] : stored[stored[c][i]] # None
ListsStored == \A j \in Jobs : \A i \in DOMAIN list[j] : stored[list[j][i]] # None
ForeignStored == \A c \in Foreign : stored[c] = ListOf[c]

Names == Announced /\ SentStored /\ LastStored /\ ListedStored /\ ListsStored /\ ForeignStored

Base == TypeOK /\ Located /\ Names

-----------------------------------------------------------------------------
(* Facts about the operators.                                              *)

LEMMA Foreigners ==
  /\ Foreign \subseteq [project : Projects, from : {None}, epoch : Epochs]
  /\ None \notin Snapshots /\ None \notin Bases /\ None \notin Projects
  /\ None \notin Seq(Snapshots)
  /\ \A c \in Foreign :
        /\ ListOf[c] \in Seq(Foreign)
        /\ ListOf[c] \in Seq(Snapshots)
        /\ ListOf[c] # None
        /\ Len(ListOf[c]) <= Window
        /\ \A i \in DOMAIN ListOf[c] :
              /\ ListOf[c][i] \in Foreign
              /\ ListOf[c][i].project = c.project
              /\ ListOf[c][i] # c
              /\ \A k \in DOMAIN ListOf[c] : ListOf[c][i] = ListOf[c][k] => i = k
<1>1. \A c \in Foreign : ListOf[c] \in Seq(Foreign)
  BY SnapshotAssumption DEF SnapshotAssumption
<1>2. Foreign \subseteq Snapshots
  BY DEF Snapshots
<1>3. \A c \in Foreign : ListOf[c] \in Seq(Snapshots)
  BY <1>1, <1>2
<1>4. \A c \in Foreign : \A i \in DOMAIN ListOf[c] : ListOf[c][i] \in Foreign
  BY <1>1
<1>5. QED
  BY <1>1, <1>3, <1>4, SnapshotAssumption DEF SnapshotAssumption

LEMMA SnapshotTyped ==
  ASSUME NEW c \in Snapshots
  PROVE  c.project \in Projects /\ c.epoch \in Epochs
BY Foreigners DEF Snapshots, Own

LEMMA OwnTyped ==
  ASSUME NEW j \in Jobs, NEW p \in Projects
  PROVE  /\ SnapshotOf(j, p) \in Own
         /\ SnapshotOf(j, p) \in Snapshots
         /\ SnapshotOf(j, p) \notin Foreign
         /\ SnapshotOf(j, p).project = p
         /\ SnapshotOf(j, p).epoch = j.epoch
BY Foreigners DEF SnapshotOf, Own, Snapshots, Jobs

\* The predecessor list made from a stored snapshot.
LEMMA ChainedTyped ==
  ASSUME TypeOK, NEW c \in Snapshots, stored[c] # None
  PROVE  /\ Chained(c) \in Seq(Snapshots)
         /\ \A i \in DOMAIN Chained(c) :
               \/ Chained(c)[i] = c
               \/ \E k \in DOMAIN stored[c] : Chained(c)[i] = stored[c][k]
<1>1. stored[c] \in Seq(Snapshots)
  BY DEF TypeOK
<1>2. CASE Len(stored[c]) >= Window
  <2>1. Chained(c) = Append(Tail(stored[c]), c)
    BY <1>2 DEF Chained
  <2>2. stored[c] # <<>>
    BY <1>1, <1>2, WorkerAssumption DEF WorkerAssumption
  <2>3. Tail(stored[c]) \in Seq(Snapshots) /\ Len(Tail(stored[c])) = Len(stored[c]) - 1
    BY <1>1, <2>2
  <2>4. \A i \in 1..(Len(stored[c]) - 1) : Tail(stored[c])[i] = stored[c][i + 1]
    BY <1>1, <2>2
  <2>5. QED
    BY <1>1, <2>1, <2>2, <2>3, <2>4
<1>3. CASE ~(Len(stored[c]) >= Window)
  <2>1. Chained(c) = Append(stored[c], c)
    BY <1>3 DEF Chained
  <2>2. QED
    BY <1>1, <2>1
<1>4. QED
  BY <1>2, <1>3

\* Only an upload changes what is stored, and nothing stored is lost.
LEMMA UploadStores ==
  ASSUME TypeOK, Located, NEW j \in Jobs, Upload(j)
  PROVE  /\ current[j] \in Projects
         /\ Current(j) \in Snapshots /\ Current(j) \notin Foreign
         /\ list[j] \in Seq(Snapshots) /\ list[j] # None
         /\ \A c \in Snapshots : stored'[c] = IF c = Current(j) THEN list[j] ELSE stored[c]
         /\ \A c \in Snapshots : stored[c] # None => stored'[c] # None
<1>1. current[j] \in Projects
  BY DEF Upload, Located
<1>2. Current(j) \in Snapshots /\ Current(j) \notin Foreign
  BY <1>1, OwnTyped DEF Current
<1>3. list[j] \in Seq(Snapshots) /\ list[j] # None
  BY Foreigners DEF TypeOK
<1>4. \A c \in Snapshots : stored'[c] = IF c = Current(j) THEN list[j] ELSE stored[c]
  BY DEF Upload, TypeOK
<1>5. QED
  BY <1>1, <1>2, <1>3, <1>4

LEMMA StoredKept ==
  ASSUME [Next]_vars
  PROVE  stored' = stored \/ \E j \in Jobs : Upload(j)
<1>1. CASE UNCHANGED vars
  BY <1>1 DEF vars, world
<1>2. ASSUME NEW j \in Jobs, Start(j) \/ Dies(j)
      PROVE  stored' = stored
  BY <1>2 DEF Start, Skip, ComputeNothing, Compute, Take, Dies, world
<1>3. ASSUME NEW j \in Jobs, Advance(j)
      PROVE  stored' = stored \/ Upload(j)
  BY <1>3 DEF Advance, Build, ReadRaw, ReadNoted, ReadFinal, UseLast, ReadNone, UploadFails,
              Send, SignFails, Record, world
<1>4. CASE HandleEvent
  BY <1>4 DEF HandleEvent, Forward, FanOut, HandlingFails, world
<1>5. QED
  BY <1>1, <1>2, <1>3, <1>4 DEF Next

\* How a job ends its project.
LEMMA ContinueTyped ==
  ASSUME TypeOK, NEW j \in Jobs, NEW payload \in SUBSET Snapshots, Continue(j, payload)
  PROVE  /\ stage' \in [Jobs -> Stages]
         /\ events' \subseteq Events
         /\ paid' \in [Jobs -> SUBSET Snapshots]
         /\ current' \in [Jobs -> Projects \cup {None}]
         /\ list' \in [Jobs -> Seq(Snapshots)]
         /\ outcome' \in [Jobs -> {"none", "success", "failed"}]
<1>1. [kind |-> "ProcessingComplete", job |-> j, payload |-> payload] \in Events
  BY DEF Events
<1>2. events' \subseteq Events
  BY <1>1 DEF Continue, TypeOK
<1>3. <<>> \in Seq(Snapshots)
  OBVIOUS
<1>4. QED
  BY <1>2, <1>3 DEF Continue, TypeOK, Stages

LEMMA UseLastTyped ==
  ASSUME TypeOK, NEW j \in Jobs, NEW c \in Snapshots, stored[c] # None, UseLast(j, c)
  PROVE  TypeOK'
<1>1. list' \in [Jobs -> Seq(Snapshots)]
  BY ChainedTyped DEF UseLast, TypeOK
<1>2. stage' \in [Jobs -> Stages]
  BY DEF UseLast, TypeOK, Stages
<1>3. QED
  BY <1>1, <1>2 DEF UseLast, TypeOK, messages, redis, world

LEMMA RecordedTyped ==
  ASSUME TypeOK, NEW j \in Jobs, current[j] \in Projects, Recorded(j)
  PROVE  /\ submitted' \in [Projects \X Epochs -> Verdicts]
         /\ raw' \in [Projects -> Snapshots \cup {None}]
<1>1. Current(j) \in Snapshots /\ j.epoch \in Epochs
  BY OwnTyped DEF Current, Jobs
<1>2. outcome[j] \in Verdicts
  BY DEF TypeOK, Verdicts
<1>3. QED
  BY <1>1, <1>2 DEF Recorded, TypeOK

\* The last snapshot a reader uses is stored.
LEMMA LastUsable ==
  ASSUME Base, NEW j \in Jobs, ReadRaw(j) \/ ReadNoted(j) \/ ReadFinal(j)
  PROVE  \/ ReadNone(j) /\ stage[j] = "read"
         \/ \E c \in Snapshots : /\ stored[c] # None /\ UseLast(j, c)
                                 /\ \/ c = raw[current[j]] \/ c = noted[current[j]]
                                    \/ c.project = current[j]
<1> USE DEF Base, Names
<1>1. CASE ReadRaw(j)
  <2>1. current[j] \in Projects
    BY <1>1 DEF ReadRaw, Located
  <2>2. raw[current[j]] # None /\ raw[current[j]] \in Snapshots
    BY <1>1, <2>1 DEF ReadRaw, Usable, TypeOK
  <2>3. stored[raw[current[j]]] # None
    BY <2>1, <2>2 DEF LastStored
  <2>4. QED
    BY <1>1, <2>2, <2>3 DEF ReadRaw
<1>2. CASE ReadNoted(j)
  <2>1. current[j] \in Projects
    BY <1>2 DEF ReadNoted, Located
  <2>2. noted[current[j]] # None /\ noted[current[j]] \in Snapshots
    BY <1>2, <2>1 DEF ReadNoted, UseLast, TypeOK
  <2>3. stored[noted[current[j]]] # None
    BY <2>1, <2>2 DEF LastStored
  <2>4. QED
    BY <1>2, <2>2, <2>3 DEF ReadNoted
<1>3. CASE ReadFinal(j)
  <2>1. CASE ReadNone(j)
    BY <1>3, <2>1 DEF ReadFinal
  <2>2. CASE ~ReadNone(j)
    <3>1. PICK c \in sent \cup Foreign : c.project = current[j] /\ UseLast(j, c)
      BY <1>3, <2>2 DEF ReadFinal
    <3>2. c \in Snapshots
      BY DEF Snapshots, TypeOK
    <3>3. stored[c] # None
      BY Foreigners DEF SentStored, ForeignStored
    <3>4. QED
      BY <3>1, <3>2, <3>3
  <2>3. QED
    BY <2>1, <2>2
<1>4. QED
  BY <1>1, <1>2, <1>3

-----------------------------------------------------------------------------
(* Types, the place of a job, and names that resolve.                      *)

LEMMA InitBase == Init => Base
<1> SUFFICES ASSUME Init
             PROVE  Base
  OBVIOUS
<1>1. TypeOK
  <2>1. queue \subseteq Jobs /\ events \subseteq Events
    BY DEF Init
  <2>2. <<>> \in Seq(Snapshots)
    OBVIOUS
  <2>3. stored \in [Snapshots -> Seq(Snapshots) \cup {None}]
    BY Foreigners DEF Init
  <2>4. QED
    BY <2>1, <2>2, <2>3 DEF Init, TypeOK, Stages, Verdicts
<1>2. Located
  BY DEF Init, Located
<1>3. \A c \in Snapshots : stored[c] # None => c \in Foreign /\ stored[c] = ListOf[c]
  BY DEF Init
<1>4. \A c \in Foreign : stored[c] # None /\ stored[c] = ListOf[c]
  BY Foreigners DEF Init, Snapshots
<1>5. ListedStored
  BY <1>3, <1>4, Foreigners DEF ListedStored
<1>6. Announced /\ SentStored /\ LastStored /\ ListsStored /\ ForeignStored
  BY <1>4 DEF Init, Announced, SentStored, LastStored, ListsStored, ForeignStored
<1>7. QED
  BY <1>1, <1>2, <1>5, <1>6 DEF Base, Names

LEMMA StartTyped ==
  ASSUME TypeOK, NEW j \in Jobs, Start(j)
  PROVE  TypeOK'
<1> USE DEF Take, world
<1>1. CASE Skip(j)
  BY <1>1 DEF Skip, TypeOK, Stages
<1>2. CASE ComputeNothing(j)
  <2>1. <<j.type, j.epoch>> \in (Types \cup Projects) \X Epochs
    BY DEF Jobs
  <2>2. built' \in [(Types \cup Projects) \X Epochs -> Verdicts]
    BY <1>2, <2>1 DEF ComputeNothing, TypeOK, Verdicts
  <2>3. QED
    BY <1>2, <2>2 DEF ComputeNothing, TypeOK, Stages
<1>3. ASSUME NEW ps \in SUBSET Projects, Compute(j, ps)
      PROVE  TypeOK'
  BY <1>3 DEF Compute, TypeOK, Stages
<1>4. QED
  BY <1>1, <1>2, <1>3 DEF Start

LEMMA AdvanceTyped ==
  ASSUME Base, NEW j \in Jobs, Advance(j)
  PROVE  TypeOK'
<1> USE DEF Base, messages, redis, world
<1>1. ASSUME NEW p \in Projects, Build(j, p)
      PROVE  TypeOK'
  <2>1. <<p, j.epoch>> \in (Types \cup Projects) \X Epochs
    BY DEF Jobs
  <2>2. built' \in [(Types \cup Projects) \X Epochs -> Verdicts]
    BY <1>1, <2>1 DEF Build, TypeOK, Verdicts
  <2>3. stage' \in [Jobs -> Stages] /\ todo' \in [Jobs -> SUBSET Projects]
    BY <1>1 DEF Build, TypeOK, Stages
  <2>4. current' \in [Jobs -> Projects \cup {None}]
    BY <1>1 DEF Build, TypeOK
  <2>5. QED
    BY <1>1, <2>2, <2>3, <2>4 DEF Build, TypeOK
<1>2. ASSUME ReadRaw(j) \/ ReadNoted(j) \/ ReadFinal(j)
      PROVE  TypeOK'
  <2>1. CASE ReadNone(j)
    BY <2>1 DEF ReadNone, TypeOK, Stages
  <2>2. CASE ~ReadNone(j)
    BY <1>2, <2>2, LastUsable, UseLastTyped
  <2>3. QED
    BY <2>1, <2>2
<1>3. CASE Upload(j)
  <2>1. stored' \in [Snapshots -> Seq(Snapshots) \cup {None}]
    BY <1>3, UploadStores DEF Upload, TypeOK
  <2>2. [kind |-> "SnapshotSubmitted", snapshot |-> Current(j)] \in Events
    BY <1>3, UploadStores DEF Events
  <2>3. events' \subseteq Events /\ stage' \in [Jobs -> Stages]
    BY <1>3, <2>2 DEF Upload, TypeOK, Stages
  <2>4. QED
    BY <1>3, <2>1, <2>3 DEF Upload, TypeOK
<1>4. CASE UploadFails(j)
  <2>1. paid[j] \in SUBSET Snapshots
    BY DEF TypeOK
  <2>2. QED
    BY <1>4, <2>1, ContinueTyped DEF UploadFails, TypeOK
<1>5. ASSUME NEW result \in {"success", "failed"}, Send(j, result)
      PROVE  TypeOK'
  <2>1. Current(j) \in Snapshots
    BY <1>5, OwnTyped DEF Send, Located, Current
  <2>2. QED
    BY <1>5, <2>1 DEF Send, TypeOK, Stages
<1>6. CASE SignFails(j)
  BY <1>6 DEF SignFails, TypeOK, Stages
<1>7. CASE Record(j)
  <2>1. current[j] \in Projects /\ Current(j) \in Snapshots
    BY <1>7, OwnTyped DEF Record, Located, Current
  <2>2. paid[j] \in SUBSET Snapshots /\ paid[j] \cup {Current(j)} \in SUBSET Snapshots
    BY <2>1 DEF TypeOK
  <2>3. PICK payload \in SUBSET Snapshots : Continue(j, payload)
    BY <1>7, <2>2 DEF Record
  <2>4. Recorded(j)
    BY <1>7 DEF Record
  <2>5. QED
    BY <1>7, <2>1, <2>3, <2>4, ContinueTyped, RecordedTyped DEF Record, TypeOK
<1>8. QED
  BY <1>1, <1>2, <1>3, <1>4, <1>5, <1>6, <1>7 DEF Advance

LEMMA DiesTyped ==
  ASSUME Base, NEW j \in Jobs, Dies(j)
  PROVE  TypeOK'
<1>1. /\ submitted' \in [Projects \X Epochs -> Verdicts]
      /\ raw' \in [Projects -> Snapshots \cup {None}]
  <2>1. CASE UNCHANGED <<submitted, raw>>
    BY <2>1 DEF Base, TypeOK
  <2>2. CASE stage[j] = "note" /\ Recorded(j)
    BY <2>2, RecordedTyped DEF Base, Located
  <2>3. QED
    BY <2>1, <2>2 DEF Dies
<1>2. <<>> \in Seq(Snapshots)
  OBVIOUS
<1>3. QED
  BY <1>1, <1>2 DEF Dies, Base, TypeOK, Stages, messages, world

\* Only base types have aggregators.
LEMMA AggregatesTyped ==
  ASSUME NEW j \in Jobs
  PROVE  /\ AggregatesOf(j) \subseteq Jobs
         /\ \A a \in AggregatesOf(j) : /\ a.type \in Aggregators /\ a.from = j.type
                                       /\ a.epoch = j.epoch
                                       /\ a.from \in DependsOn[a.type]
<1>1. \A a \in Aggregators : j.type \in DependsOn[a] => j.type \in Bases
  BY WorkerAssumption DEF WorkerAssumption
<1>2. QED
  BY <1>1 DEF AggregatesOf, Jobs, Types

LEMMA EventTyped ==
  ASSUME TypeOK, NEW m \in events
  PROVE  /\ m.kind = "SnapshotSubmitted" => m.snapshot \in Snapshots
         /\ m.kind = "ProcessingComplete" => m.job \in Jobs /\ m.payload \in SUBSET Snapshots
         /\ m.kind \in {"SnapshotSubmitted", "ProcessingComplete"}
BY DEF TypeOK, Events

LEMMA HandleTyped ==
  ASSUME TypeOK, HandleEvent
  PROVE  TypeOK'
<1> USE DEF redis, world, task
<1>1. PICK m \in events : Forward(m) \/ FanOut(m) \/ HandlingFails(m)
  BY DEF HandleEvent
<1>2. CASE Forward(m)
  <2>1. m.snapshot \in Snapshots
    BY <1>2, EventTyped DEF Forward
  <2>2. noted' \in [Projects -> Snapshots \cup {None}]
    BY <1>2, <2>1 DEF Forward, TypeOK
  <2>3. QED
    BY <1>2, <2>2 DEF Forward, TypeOK
<1>3. CASE FanOut(m)
  <2>1. AggregatesOf(m.job) \subseteq Jobs
    BY <1>3, EventTyped, AggregatesTyped DEF FanOut
  <2>2. QED
    BY <1>3, <2>1 DEF FanOut, TypeOK
<1>4. CASE HandlingFails(m)
  <2>1. queue' \subseteq Jobs
    BY <1>4, EventTyped, AggregatesTyped DEF HandlingFails, TypeOK
  <2>2. QED
    BY <1>4, <2>1 DEF HandlingFails, TypeOK
<1>5. QED
  BY <1>1, <1>2, <1>3, <1>4

LEMMA TypePreserved ==
  ASSUME Base, [Next]_vars
  PROVE  TypeOK'
<1>1. CASE UNCHANGED vars
  BY <1>1 DEF Base, TypeOK, vars, task, messages, redis, world
<1>2. CASE Next
  BY <1>2, StartTyped, AdvanceTyped, DiesTyped, HandleTyped DEF Next, Base
<1>3. QED
  BY <1>1, <1>2

\* What is stored stays, with its list, in every step.
LEMMA StoredStays ==
  ASSUME Base, [Next]_vars
  PROVE  /\ \A c \in Snapshots : stored[c] # None => stored'[c] # None
         /\ ForeignStored'
<1>1. CASE stored' = stored
  BY <1>1 DEF Base, Names, ForeignStored
<1>2. ASSUME NEW j \in Jobs, Upload(j)
      PROVE  /\ \A c \in Snapshots : stored[c] # None => stored'[c] # None
             /\ ForeignStored'
  BY <1>2, UploadStores DEF Base, Names, ForeignStored, Snapshots
<1>3. stored' = stored \/ \E j \in Jobs : Upload(j)
  BY StoredKept
<1>4. QED
  BY <1>1, <1>2, <1>3

LEMMA LocatedPreserved ==
  ASSUME Base, [Next]_vars
  PROVE  Located'
<1> DEFINE Fine(j) == /\ stage[j] \in {"read", "upload", "submit", "note"} => current[j] \in Projects
                      /\ stage[j] \in {"submit", "note"} => stored[Current(j)] # None
<1>1. \A c \in Snapshots : stored[c] # None => stored'[c] # None
  BY StoredStays
<1>2. ASSUME NEW k \in Jobs, stage'[k] = stage[k], current'[k] = current[k]
      PROVE  Fine(k)'
  BY <1>1, <1>2, OwnTyped DEF Base, Located, Current, SnapshotOf
<1>3. ASSUME NEW k \in Jobs, stage'[k] \in {"none", "build", "over", "lost"}
      PROVE  Fine(k)'
  BY <1>3
<1>4. ASSUME NEW j \in Jobs, Start(j)
      PROVE  \A k \in Jobs : Fine(k)'
  <2>1. \A k \in Jobs \ {j} : stage'[k] = stage[k] /\ current'[k] = current[k]
    BY <1>4 DEF Start, Skip, ComputeNothing, Compute, Take, Base, TypeOK
  <2>2. stage'[j] \in {"none", "build", "over", "lost"}
    BY <1>4 DEF Start, Skip, ComputeNothing, Compute, Take, Base, TypeOK
  <2>3. QED
    BY <1>2, <1>3, <2>1, <2>2
<1>5. ASSUME NEW j \in Jobs, NEW p \in Projects, Build(j, p)
      PROVE  \A k \in Jobs : Fine(k)'
  <2>1. \A k \in Jobs \ {j} : stage'[k] = stage[k] /\ current'[k] = current[k]
    BY <1>5 DEF Build, Base, TypeOK
  <2>2. stage'[j] \in {"read", "upload"} /\ current'[j] \in Projects
    BY <1>5 DEF Build, Base, TypeOK
  <2>3. QED
    BY <1>2, <2>1, <2>2
<1>6. ASSUME NEW j \in Jobs, ReadRaw(j) \/ ReadNoted(j) \/ ReadFinal(j)
      PROVE  \A k \in Jobs : Fine(k)'
  <2>1. stage[j] = "read" /\ stage' = [stage EXCEPT ![j] = "upload"] /\ current' = current
    BY <1>6, LastUsable DEF ReadNone, UseLast
  <2>2. \A k \in Jobs \ {j} : stage'[k] = stage[k] /\ current'[k] = current[k]
    BY <2>1 DEF Base, TypeOK
  <2>3. stage'[j] = "upload" /\ current'[j] \in Projects
    BY <2>1 DEF Base, TypeOK, Located
  <2>4. QED
    BY <1>2, <2>2, <2>3
<1>7. ASSUME NEW j \in Jobs, Upload(j)
      PROVE  \A k \in Jobs : Fine(k)'
  <2>1. \A k \in Jobs \ {j} : stage'[k] = stage[k] /\ current'[k] = current[k]
    BY <1>7 DEF Upload, Base, TypeOK
  <2>2. current'[j] \in Projects /\ stored'[Current(j)'] # None
    <3>1. current' = current
      BY <1>7 DEF Upload
    <3>2. Current(j)' = Current(j)
      BY <3>1 DEF Current, SnapshotOf
    <3>3. QED
      BY <1>7, <3>1, <3>2, UploadStores DEF Base
  <2>3. QED
    BY <1>2, <2>1, <2>2
<1>8. ASSUME NEW j \in Jobs, UploadFails(j) \/ Record(j) \/ Dies(j)
      PROVE  \A k \in Jobs : Fine(k)'
  <2>1. \A k \in Jobs \ {j} : stage'[k] = stage[k] /\ current'[k] = current[k]
    BY <1>8 DEF UploadFails, Record, Dies, Continue, Base, TypeOK
  <2>2. stage'[j] \in {"none", "build", "over", "lost"}
    BY <1>8 DEF UploadFails, Record, Dies, Continue, Base, TypeOK
  <2>3. QED
    BY <1>2, <1>3, <2>1, <2>2
<1>9. ASSUME NEW j \in Jobs, SignFails(j) \/ \E result \in {"success", "failed"} : Send(j, result)
      PROVE  \A k \in Jobs : Fine(k)'
  <2>1. /\ stage[j] = "submit" /\ stage' = [stage EXCEPT ![j] = "note"]
        /\ current' = current /\ stored' = stored
    BY <1>9 DEF SignFails, Send, world
  <2>2. \A k \in Jobs \ {j} : stage'[k] = stage[k] /\ current'[k] = current[k]
    BY <2>1 DEF Base, TypeOK
  <2>3. current'[j] \in Projects /\ stored'[Current(j)'] # None
    BY <2>1 DEF Base, Located, Current, SnapshotOf
  <2>4. QED
    BY <1>2, <2>2, <2>3
<1>10. ASSUME HandleEvent \/ UNCHANGED vars
       PROVE  \A k \in Jobs : Fine(k)'
  BY <1>2, <1>10 DEF HandleEvent, Forward, FanOut, HandlingFails, vars, task
<1>11. \A k \in Jobs : Fine(k)'
  <2>1. ASSUME NEW j \in Jobs, Advance(j)
        PROVE  \A k \in Jobs : Fine(k)'
    BY <1>5, <1>6, <1>7, <1>8, <1>9, <2>1 DEF Advance
  <2>2. QED
    BY <1>4, <1>8, <1>10, <2>1 DEF Next
<1>12. QED
  BY <1>11 DEF Located

\* What a step does to the places names are in.
LEMMA EventSteps ==
  ASSUME Base, [Next]_vars, NEW m \in events', m \notin events, m.kind = "SnapshotSubmitted"
  PROVE  \E j \in Jobs : Upload(j) /\ m.snapshot = Current(j)
<1>1. ASSUME NEW j \in Jobs, NEW payload, Continue(j, payload)
      PROVE  FALSE
  BY <1>1 DEF Continue
<1>2. ASSUME NEW j \in Jobs, Advance(j)
      PROVE  Upload(j) /\ m.snapshot = Current(j)
  <2>1. Upload(j)
    BY <1>1, <1>2 DEF Advance, Build, ReadRaw, ReadNoted, ReadFinal, UseLast, ReadNone,
                      UploadFails, Send, SignFails, Record, messages
  <2>2. QED
    BY <2>1 DEF Upload
<1>3. ASSUME NEW j \in Jobs, Start(j) \/ Dies(j)
      PROVE  FALSE
  BY <1>3 DEF Start, Skip, ComputeNothing, Compute, Take, Dies, messages
<1>4. ~HandleEvent
  BY DEF HandleEvent, Forward, FanOut, HandlingFails
<1>5. events' # events
  OBVIOUS
<1>6. QED
  BY <1>2, <1>3, <1>4, <1>5 DEF Next, vars, messages

LEMMA AnnouncedPreserved ==
  ASSUME Base, [Next]_vars
  PROVE  Announced'
<1> SUFFICES ASSUME NEW m \in events', m.kind = "SnapshotSubmitted"
             PROVE  stored'[m.snapshot] # None
  BY DEF Announced
<1>1. CASE m \in events
  BY <1>1, StoredStays, EventTyped DEF Base, Names, Announced
<1>2. CASE m \notin events
  BY <1>2, EventSteps, UploadStores DEF Base
<1>3. QED
  BY <1>1, <1>2

LEMMA SentSteps ==
  ASSUME [Next]_vars
  PROVE  \/ sent' = sent
         \/ \E j \in Jobs : stage[j] = "submit" /\ sent' = sent \cup {Current(j)}
<1>1. ASSUME NEW j \in Jobs, Start(j) \/ Dies(j)
      PROVE  sent' = sent
  BY <1>1 DEF Start, Skip, ComputeNothing, Compute, Take, Dies, world
<1>2. ASSUME NEW j \in Jobs, Advance(j)
      PROVE  sent' = sent \/ (stage[j] = "submit" /\ sent' = sent \cup {Current(j)})
  BY <1>2 DEF Advance, Build, ReadRaw, ReadNoted, ReadFinal, UseLast, ReadNone, Upload,
              UploadFails, Send, SignFails, Record, world
<1>3. ASSUME HandleEvent \/ UNCHANGED vars
      PROVE  sent' = sent
  BY <1>3 DEF HandleEvent, Forward, FanOut, HandlingFails, vars, world
<1>4. QED
  BY <1>1, <1>2, <1>3 DEF Next

LEMMA SentPreserved ==
  ASSUME Base, [Next]_vars
  PROVE  SentStored'
<1> SUFFICES ASSUME NEW c \in sent'
             PROVE  stored'[c] # None
  BY DEF SentStored
<1>1. c \in Snapshots
  BY TypePreserved DEF TypeOK
<1>2. stored[c] # None
  BY SentSteps DEF Base, Located, Names, SentStored
<1>3. QED
  BY <1>1, <1>2, StoredStays

LEMMA LastSteps ==
  ASSUME Base, [Next]_vars, NEW p \in Projects
  PROVE  /\ \/ raw'[p] = raw[p]
            \/ \E j \in Jobs : /\ stage[j] = "note" /\ outcome[j] = "success"
                               /\ current[j] = p /\ raw'[p] = Current(j)
         /\ \/ noted'[p] = noted[p]
            \/ \E m \in events : /\ m.kind = "SnapshotSubmitted"
                                 /\ m.snapshot.project = p /\ noted'[p] = m.snapshot
<1>1. ASSUME NEW j \in Jobs, Start(j)
      PROVE  raw' = raw /\ noted' = noted
  BY <1>1 DEF Start, Skip, ComputeNothing, Compute, Take
<1>2. ASSUME NEW j \in Jobs, Advance(j), ~Record(j)
      PROVE  raw' = raw /\ noted' = noted
  BY <1>2 DEF Advance, Build, ReadRaw, ReadNoted, ReadFinal, UseLast, ReadNone, Upload,
              UploadFails, Send, SignFails, redis
<1>3. ASSUME NEW j \in Jobs, Record(j) \/ Dies(j)
      PROVE  /\ noted' = noted
             /\ \/ raw' = raw
                \/ stage[j] = "note" /\ Recorded(j)
  BY <1>3 DEF Record, Dies
<1>4. ASSUME NEW j \in Jobs, stage[j] = "note", Recorded(j)
      PROVE  \/ raw'[p] = raw[p]
             \/ outcome[j] = "success" /\ current[j] = p /\ raw'[p] = Current(j)
  BY <1>4 DEF Recorded, Base, TypeOK
<1>5. ASSUME HandleEvent
      PROVE  /\ raw' = raw
             /\ \/ noted' = noted
                \/ \E m \in events : /\ m.kind = "SnapshotSubmitted"
                                     /\ noted' = [noted EXCEPT ![m.snapshot.project] = m.snapshot]
  BY <1>5 DEF HandleEvent, Forward, FanOut, HandlingFails, redis
<1>6. ASSUME NEW m \in events, m.kind = "SnapshotSubmitted",
             noted' = [noted EXCEPT ![m.snapshot.project] = m.snapshot]
      PROVE  noted'[p] = noted[p] \/ (m.snapshot.project = p /\ noted'[p] = m.snapshot)
  BY <1>6 DEF Base, TypeOK
<1>7. CASE UNCHANGED vars
  BY <1>7 DEF vars, redis
<1>8. ASSUME NEW j \in Jobs, Start(j) \/ Advance(j) \/ Dies(j)
      PROVE  /\ \/ raw'[p] = raw[p]
                \/ /\ stage[j] = "note" /\ outcome[j] = "success"
                   /\ current[j] = p /\ raw'[p] = Current(j)
             /\ noted'[p] = noted[p]
  BY <1>1, <1>2, <1>3, <1>4, <1>8
<1>9. CASE HandleEvent
  BY <1>5, <1>6, <1>9
<1>10. QED
  BY <1>7, <1>8, <1>9 DEF Next

LEMMA LastPreserved ==
  ASSUME Base, [Next]_vars
  PROVE  LastStored'
<1> SUFFICES ASSUME NEW p \in Projects
             PROVE  /\ raw'[p] # None => stored'[raw'[p]] # None
                    /\ noted'[p] # None => stored'[noted'[p]] # None
  BY DEF LastStored
<1>1. raw'[p] \in Snapshots \cup {None} /\ noted'[p] \in Snapshots \cup {None}
  BY TypePreserved DEF TypeOK
<1>2. raw'[p] # None => stored[raw'[p]] # None
  BY LastSteps DEF Base, Located, Names, LastStored
<1>3. noted'[p] # None => stored[noted'[p]] # None
  BY LastSteps DEF Base, Names, LastStored, Announced
<1>4. QED
  BY <1>1, <1>2, <1>3, StoredStays

LEMMA ListedPreserved ==
  ASSUME Base, [Next]_vars
  PROVE  ListedStored'
<1>1. \A c \in Snapshots : stored[c] # None => stored'[c] # None
  BY StoredStays
<1>2. ASSUME NEW c \in Snapshots, stored[c] # None, NEW i \in DOMAIN stored[c]
      PROVE  stored'[stored[c][i]] # None
  <2>1. stored[c][i] \in Snapshots
    BY <1>2 DEF Base, TypeOK
  <2>2. QED
    BY <1>1, <1>2, <2>1 DEF Base, Names, ListedStored
<1>3. CASE stored' = stored
  BY <1>2, <1>3 DEF ListedStored
<1>4. ASSUME NEW j \in Jobs, Upload(j)
      PROVE  ListedStored'
  <2>1. ASSUME NEW i \in DOMAIN list[j]
        PROVE  stored'[list[j][i]] # None
    <3>1. list[j][i] \in Snapshots
      BY <2>1 DEF Base, TypeOK
    <3>2. QED
      BY <1>1, <2>1, <3>1 DEF Base, Names, ListsStored
  <2>2. QED
    BY <1>2, <1>4, <2>1, UploadStores DEF Base, ListedStored
<1>5. QED
  BY <1>3, <1>4, StoredKept

LEMMA ListSteps ==
  ASSUME Base, [Next]_vars, NEW k \in Jobs
  PROVE  \/ list'[k] = list[k]
         \/ list'[k] = <<>>
         \/ /\ stage[k] = "read" /\ stage'[k] = "upload" /\ current' = current
            /\ \E c \in Snapshots : /\ stored[c] # None /\ list'[k] = Chained(c)
                                    /\ \/ c = raw[current[k]] \/ c = noted[current[k]]
                                       \/ c.project = current[k]
<1>1. ASSUME NEW j \in Jobs, Start(j)
      PROVE  list' = list
  BY <1>1 DEF Start, Skip, ComputeNothing, Compute, Take
<1>2. ASSUME NEW j \in Jobs, NEW payload, Continue(j, payload) \/ Dies(j)
      PROVE  list'[k] = list[k] \/ list'[k] = <<>>
  BY <1>2 DEF Continue, Dies, Base, TypeOK
<1>3. ASSUME NEW j \in Jobs, ReadRaw(j) \/ ReadNoted(j) \/ ReadFinal(j)
      PROVE  \/ list'[k] = list[k]
             \/ /\ k = j /\ stage[j] = "read" /\ stage'[j] = "upload" /\ current' = current
                /\ \E c \in Snapshots : /\ stored[c] # None /\ list'[j] = Chained(c)
                                        /\ \/ c = raw[current[j]] \/ c = noted[current[j]]
                                           \/ c.project = current[j]
  BY <1>3, LastUsable DEF ReadNone, UseLast, Base, TypeOK
<1>4. ASSUME NEW j \in Jobs, Advance(j),
             ~(ReadRaw(j) \/ ReadNoted(j) \/ ReadFinal(j))
      PROVE  list'[k] = list[k] \/ list'[k] = <<>>
  <2>1. UploadFails(j) \/ Record(j) => \E payload : Continue(j, payload)
    BY DEF UploadFails, Record
  <2>2. ~(UploadFails(j) \/ Record(j)) => list' = list
    BY <1>4 DEF Advance, Build, Upload, Send, SignFails
  <2>3. QED
    BY <1>2, <2>1, <2>2
<1>5. ASSUME HandleEvent \/ UNCHANGED vars
      PROVE  list' = list
  BY <1>5 DEF HandleEvent, Forward, FanOut, HandlingFails, vars, task
<1>6. ASSUME NEW j \in Jobs, Advance(j)
      PROVE  \/ list'[k] = list[k]
             \/ list'[k] = <<>>
             \/ /\ k = j /\ stage[j] = "read" /\ stage'[j] = "upload" /\ current' = current
                /\ \E c \in Snapshots : /\ stored[c] # None /\ list'[j] = Chained(c)
                                        /\ \/ c = raw[current[j]] \/ c = noted[current[j]]
                                           \/ c.project = current[j]
  BY <1>3, <1>4, <1>6
<1>7. QED
  BY <1>1, <1>2, <1>5, <1>6 DEF Next

LEMMA ListsPreserved ==
  ASSUME Base, [Next]_vars
  PROVE  ListsStored'
<1> SUFFICES ASSUME NEW k \in Jobs, NEW i \in DOMAIN list'[k]
             PROVE  stored'[list'[k][i]] # None
  BY DEF ListsStored
<1>1. list'[k][i] \in Snapshots
  BY TypePreserved DEF TypeOK
<1>2. stored[list'[k][i]] # None
  <2>1. CASE list'[k] = list[k]
    BY <2>1 DEF Base, Names, ListsStored
  <2>2. CASE list'[k] = <<>>
    BY <2>2
  <2>3. ASSUME NEW c \in Snapshots, stored[c] # None, list'[k] = Chained(c)
        PROVE  stored[list'[k][i]] # None
    BY <2>3, ChainedTyped DEF Base, Names, ListedStored
  <2>4. QED
    BY <2>1, <2>2, <2>3, ListSteps
<1>3. QED
  BY <1>1, <1>2, StoredStays

LEMMA BasePreserved ==
  ASSUME Base, [Next]_vars
  PROVE  Base'
BY TypePreserved, LocatedPreserved, AnnouncedPreserved, SentPreserved, LastPreserved,
   ListedPreserved, ListsPreserved, StoredStays DEF Base, Names

THEOREM BaseInvariant == Spec => []Base
<1>1. Base /\ [Next]_vars => Base'
  BY BasePreserved
<1>2. QED
  BY InitBase, <1>1, PTL DEF Spec

\* Type correctness of the workers, their queues and the keys they share.
THEOREM TypeCorrect == Spec => []TypeOK
BY BaseInvariant, PTL DEF Base

LEMMA NamesHold ==
  ASSUME Base
  PROVE  NamesResolve
<1> USE DEF Base, Names
<1> DEFINE Resolves(c) == c # None => stored[c] # None
<1>1. \A m \in events : m.kind = "SnapshotSubmitted" => Resolves(m.snapshot)
  BY DEF Announced
<1>2. \A c \in sent : Resolves(c)
  BY DEF SentStored
<1>3. \A p \in Projects : Resolves(raw[p]) /\ Resolves(noted[p])
  BY DEF LastStored
<1>4. \A d \in Snapshots : stored[d] # None => \A c \in Entries(stored[d]) : Resolves(c)
  BY DEF ListedStored, Entries
<1>5. \A j \in Jobs : \A c \in Entries(list[j]) : Resolves(c)
  BY DEF ListsStored, Entries
<1> DEFINE InEvents == {m.snapshot : m \in {n \in events : n.kind = "SnapshotSubmitted"}}
           InRaw == {raw[p] : p \in Projects}
           InNoted == {noted[p] : p \in Projects}
           InStored == UNION {Entries(stored[d]) : d \in {d \in Snapshots : stored[d] # None}}
           InLists == UNION {Entries(list[j]) : j \in Jobs}
<1>6. /\ \A c \in InEvents : Resolves(c)
      /\ \A c \in InRaw : Resolves(c)
      /\ \A c \in InNoted : Resolves(c)
  BY <1>1, <1>3
<1>7. ASSUME NEW c \in InStored
      PROVE  Resolves(c)
  <2>1. PICK d \in Snapshots : stored[d] # None /\ c \in Entries(stored[d])
    BY <1>7
  <2>2. QED
    BY <1>4, <2>1
<1>8. ASSUME NEW c \in InLists
      PROVE  Resolves(c)
  <2>1. PICK j \in Jobs : c \in Entries(list[j])
    BY <1>8
  <2>2. QED
    BY <1>5, <2>1
<1>9. NamesResolve <=>
         \A c \in InEvents \cup sent \cup InRaw \cup InNoted \cup InStored \cup InLists :
            Resolves(c)
  BY DEF NamesResolve
<1> HIDE DEF InEvents, InRaw, InNoted, InStored, InLists, Resolves
<1>10. QED
  BY <1>2, <1>6, <1>7, <1>8, <1>9

\* Whatever the workers announce, submit, record or list as a predecessor is
\* on IPFS, in every interleaving of jobs and with every loss: an upload that
\* fails leaves the project before any of it.
THEOREM NamesCorrect == Spec => []NamesResolve
BY BaseInvariant, NamesHold, PTL

-----------------------------------------------------------------------------
(* What one step does to one job, to the queue and to the completions.     *)

Same(k) ==
    /\ stage'[k] = stage[k]
    /\ todo'[k] = todo[k]
    /\ current'[k] = current[k]
    /\ list'[k] = list[k]
    /\ outcome'[k] = outcome[k]
    /\ paid'[k] = paid[k]

\* Only its own task touches a job.
LEMMA Untouched ==
  ASSUME TypeOK, [Next]_vars, NEW k \in Jobs
  PROVE  Same(k) \/ Start(k) \/ Advance(k) \/ Dies(k)
<1>1. ASSUME NEW j \in Jobs, j # k, Start(j)
      PROVE  Same(k)
  BY <1>1 DEF Start, Skip, ComputeNothing, Compute, Take, TypeOK, Same
<1>2. ASSUME NEW j \in Jobs, j # k, NEW payload, Continue(j, payload), todo' = todo
      PROVE  Same(k)
  BY <1>2 DEF Continue, TypeOK, Same
<1>3. ASSUME NEW j \in Jobs, j # k, NEW p \in Projects, Build(j, p)
      PROVE  Same(k)
  BY <1>3 DEF Build, TypeOK, Same
<1>4. ASSUME NEW j \in Jobs, j # k, ReadRaw(j) \/ ReadNoted(j) \/ ReadFinal(j)
      PROVE  Same(k)
  <2>1. ReadNone(j) \/ \E c : UseLast(j, c)
    BY <1>4 DEF ReadRaw, ReadNoted, ReadFinal
  <2>2. QED
    BY <1>4, <2>1 DEF ReadNone, UseLast, TypeOK, Same
<1>5. ASSUME NEW j \in Jobs, j # k, Upload(j) \/ SignFails(j)
      PROVE  Same(k)
  BY <1>5 DEF Upload, SignFails, TypeOK, Same
<1>6. ASSUME NEW j \in Jobs, j # k, NEW result \in {"success", "failed"}, Send(j, result)
      PROVE  Same(k)
  BY <1>6 DEF Send, TypeOK, Same
<1>7. ASSUME NEW j \in Jobs, j # k, Dies(j)
      PROVE  Same(k)
  BY <1>7 DEF Dies, TypeOK, Same
<1>8. ASSUME NEW j \in Jobs, j # k, Advance(j)
      PROVE  Same(k)
  <2>1. CASE UploadFails(j) \/ Record(j)
    BY <1>2, <1>8, <2>1 DEF UploadFails, Record
  <2>2. CASE ~(UploadFails(j) \/ Record(j))
    BY <1>3, <1>4, <1>5, <1>6, <1>8, <2>2 DEF Advance
  <2>3. QED
    BY <2>1, <2>2
<1>9. ASSUME HandleEvent \/ UNCHANGED vars
      PROVE  Same(k)
  BY <1>9 DEF HandleEvent, Forward, FanOut, HandlingFails, vars, task, Same
<1>10. QED
  BY <1>1, <1>7, <1>8, <1>9 DEF Next

\* A job starts from the queue; only a running one goes on or dies.
LEMMA OwnSteps ==
  ASSUME TypeOK, [Next]_vars, NEW k \in Jobs
  PROVE  /\ Start(k) => /\ k \in queue /\ k \notin queue' /\ events' = events
                        /\ stage'[k] \in {"build", "over"}
                        /\ stage'[k] = "build" => ~Simulated(k)
                        /\ paid'[k] = paid[k]
         /\ Advance(k) \/ Dies(k) => stage[k] \in Running
<1>1. Start(k) => /\ k \in queue /\ k \notin queue' /\ events' = events
                  /\ stage'[k] \in {"build", "over"}
                  /\ stage'[k] = "build" => ~Simulated(k)
                  /\ paid'[k] = paid[k]
  BY DEF Start, Skip, ComputeNothing, Compute, Take, TypeOK
<1>2. Advance(k) => stage[k] \in Running
  BY DEF Advance, Build, ReadRaw, ReadNoted, ReadFinal, UseLast, Upload,
         UploadFails, Send, SignFails, Record, Running, Stages
<1>3. Dies(k) => stage[k] \in Running
  BY DEF Dies
<1>4. QED
  BY <1>1, <1>2, <1>3

\* What is in the queue has been there, or comes from a completion that is
\* handled in this step.
LEMMA QueueSteps ==
  ASSUME [Next]_vars, NEW k \in queue', k \notin queue
  PROVE  /\ events' \subseteq events /\ UNCHANGED task
         /\ \E m \in events : /\ m.kind = "ProcessingComplete" /\ m \notin events'
                              /\ k \in AggregatesOf(m.job)
<1>1. ASSUME NEW j \in Jobs, Start(j) \/ Dies(j)
      PROVE  FALSE
  BY <1>1 DEF Start, Skip, ComputeNothing, Compute, Take, Dies, messages
<1>2. ASSUME NEW j \in Jobs, Advance(j)
      PROVE  FALSE
  BY <1>2 DEF Advance, Build, ReadRaw, ReadNoted, ReadFinal, UseLast, ReadNone, Upload,
              UploadFails, Send, SignFails, Record, messages
<1>3. ~UNCHANGED vars
  BY DEF vars, messages
<1>4. PICK m \in events : Forward(m) \/ FanOut(m) \/ HandlingFails(m)
  BY <1>1, <1>2, <1>3 DEF Next, HandleEvent
<1>5. events' = events \ {m} /\ UNCHANGED task
  BY <1>4 DEF Forward, FanOut, HandlingFails
<1>6. m.kind = "ProcessingComplete" /\ k \in AggregatesOf(m.job)
  BY <1>4 DEF Forward, FanOut, HandlingFails
<1>7. QED
  BY <1>5, <1>6

\* A completion comes from the end of its job, with what was paid.
LEMMA CompletionSteps ==
  ASSUME TypeOK, [Next]_vars, NEW m \in events', m \notin events,
         m.kind = "ProcessingComplete"
  PROVE  /\ m.job \in Jobs /\ stage[m.job] \in Running /\ stage'[m.job] = "over"
         /\ m.payload = paid'[m.job] /\ m.payload # {}
<1>1. ASSUME NEW j \in Jobs, NEW payload, Continue(j, payload), stage[j] \in {"upload", "note"}
      PROVE  /\ m.job \in Jobs /\ stage[m.job] \in Running /\ stage'[m.job] = "over"
             /\ m.payload = paid'[m.job] /\ m.payload # {}
  <2>1. todo[j] = {} /\ payload # {}
    BY <1>1 DEF Continue
  <2>2. m = [kind |-> "ProcessingComplete", job |-> j, payload |-> payload]
    BY <1>1, <2>1 DEF Continue
  <2>3. m.job = j /\ m.payload = payload
    BY <2>2
  <2>4. stage'[j] = "over" /\ paid'[j] = payload
    BY <1>1, <2>1 DEF Continue, TypeOK
  <2>5. QED
    BY <1>1, <2>1, <2>3, <2>4 DEF Running, Stages
<1>2. ASSUME NEW j \in Jobs, Start(j) \/ Dies(j)
      PROVE  FALSE
  BY <1>2 DEF Start, Skip, ComputeNothing, Compute, Take, Dies, messages
<1>3. ASSUME NEW j \in Jobs, Advance(j)
      PROVE  /\ stage[j] \in {"upload", "note"}
             /\ \E payload : Continue(j, payload)
  <2>1. ~Upload(j)
    BY DEF Upload
  <2>2. UploadFails(j) \/ Record(j)
    BY <1>3, <2>1 DEF Advance, Build, ReadRaw, ReadNoted, ReadFinal, UseLast, ReadNone, Send,
                      SignFails, messages
  <2>3. QED
    BY <2>2 DEF UploadFails, Record
<1>4. ~HandleEvent /\ ~UNCHANGED vars
  BY DEF HandleEvent, Forward, FanOut, HandlingFails, vars, messages
<1>5. QED
  BY <1>1, <1>2, <1>3, <1>4 DEF Next

\* The payload of a job grows by what it has submitted, for base types, and
\* is lost with the job.
LEMMA PaidSteps ==
  ASSUME TypeOK, [Next]_vars, NEW k \in Jobs
  PROVE  \/ paid'[k] = paid[k]
         \/ paid'[k] = {} /\ stage[k] \in Running
         \/ /\ stage[k] = "note" /\ outcome[k] = "success" /\ k.type \in Bases
            /\ paid'[k] = paid[k] \cup {Current(k)}
<1>1. ASSUME NEW payload, Continue(k, payload)
      PROVE  paid'[k] = payload
  BY <1>1 DEF Continue, TypeOK
<1>2. CASE UploadFails(k)
  BY <1>1, <1>2 DEF UploadFails
<1>3. CASE Record(k)
  BY <1>1, <1>3 DEF Record
<1>4. ASSUME Advance(k), ~UploadFails(k), ~Record(k)
      PROVE  paid' = paid
  BY <1>4 DEF Advance, Build, ReadRaw, ReadNoted, ReadFinal, UseLast, ReadNone, Upload,
              Send, SignFails
<1>5. CASE Dies(k)
  BY <1>5 DEF Dies, TypeOK
<1>6. QED
  BY <1>2, <1>3, <1>4, <1>5, Untouched, OwnSteps DEF Same

-----------------------------------------------------------------------------
(* Aggregates follow the completion of their base.                         *)

\* A job in the queue has not begun.
QueueFresh == \A j \in queue : stage[j] = "none"

\* Jobs come from the detector for base types, from completions for others.
Kinds ==
    \A j \in Jobs : j \in queue \/ stage[j] # "none" =>
        j.type = j.from \/ j.type \in Aggregators

OnlyBasesPay == \A j \in Jobs : paid[j] # {} => j.type \in Bases

\* A completion tells what its job was paid.
Completed ==
    \A m \in events : m.kind = "ProcessingComplete" =>
        stage[m.job] = "over" /\ m.payload = paid[m.job] /\ m.payload # {}

\* The aggregates of a job are untouched before its completion is handled.
Pending(j) ==
    stage[j] # "over" \/ \E m \in events : m.kind = "ProcessingComplete" /\ m.job = j
Waiting ==
    \A j \in Jobs : j.type = j.from /\ Pending(j) =>
        \A a \in AggregatesOf(j) : a \notin queue /\ stage[a] = "none"

Flow == /\ TypeOK /\ QueueFresh /\ Kinds /\ OnlyBasesPay /\ Completed /\ Waiting
        /\ AggregatesAreEarned

\* Jobs of base types are told apart by their aggregates.
LEMMA AggregatesApart ==
  ASSUME NEW j \in Jobs, NEW k \in Jobs, j.type = j.from, k.type = k.from,
         NEW a \in AggregatesOf(j), a \in AggregatesOf(k)
  PROVE  j = k
<1>1. a.from = j.type /\ a.epoch = j.epoch /\ a.from = k.type /\ a.epoch = k.epoch
  BY AggregatesTyped
<1>2. j.type = k.type /\ j.from = k.from /\ j.epoch = k.epoch
  BY <1>1
<1>3. /\ j = [type |-> j.type, from |-> j.from, epoch |-> j.epoch]
      /\ k = [type |-> k.type, from |-> k.from, epoch |-> k.epoch]
  BY DEF Jobs
<1>4. QED
  BY <1>2, <1>3

LEMMA InitFlow == Init => Flow
<1> SUFFICES ASSUME Init
             PROVE  Flow
  OBVIOUS
<1>1. TypeOK
  BY InitBase DEF Base
<1>2. \A j \in queue : j \in Jobs /\ j.type = j.from /\ j.type \in Bases
  BY DEF Init, Jobs
<1>3. \A j \in queue : j.type \notin Aggregators
  BY <1>2, WorkerAssumption DEF WorkerAssumption
<1>4. Waiting
  BY <1>3, AggregatesTyped DEF Init, Waiting
<1>5. AggregatesAreEarned
  BY <1>3 DEF Init, AggregatesAreEarned
<1>6. QED
  BY <1>1, <1>2, <1>4, <1>5 DEF Init, Flow, QueueFresh, Kinds, OnlyBasesPay, Completed

\* The job a completion is about belongs to a base type.
LEMMA CompletedBase ==
  ASSUME Flow, NEW m \in events, m.kind = "ProcessingComplete"
  PROVE  m.job \in Jobs /\ m.job.type = m.job.from /\ stage[m.job] = "over"
<1>1. m.job \in Jobs
  BY EventTyped DEF Flow
<1>2. stage[m.job] = "over" /\ paid[m.job] # {}
  BY DEF Flow, Completed
<1>3. m.job.type \in Bases
  BY <1>1, <1>2 DEF Flow, OnlyBasesPay
<1>4. m.job.type \notin Aggregators
  BY <1>3, WorkerAssumption DEF WorkerAssumption
<1>5. QED
  BY <1>1, <1>2, <1>4 DEF Flow, Kinds

\* A job that is not in the queue and has not begun stays so, or its message
\* comes; a job that is over stays so.
LEMMA StageSteps ==
  ASSUME Flow, [Next]_vars, NEW k \in Jobs
  PROVE  /\ stage[k] = "none" /\ k \notin queue => stage'[k] = "none"
         /\ stage[k] = "none" /\ k \in queue' /\ k \in queue => stage'[k] = "none"
         /\ stage[k] = "over" => stage'[k] = "over" /\ paid'[k] = paid[k]
         /\ stage'[k] # "none" => stage[k] # "none" \/ k \in queue
         /\ stage'[k] \in Running => stage[k] \in Running \/ ~Simulated(k)
<1>1. CASE Same(k)
  BY <1>1 DEF Same
<1>2. CASE Start(k)
  BY <1>2, OwnSteps DEF Flow, QueueFresh, Running
<1>3. CASE Advance(k) \/ Dies(k)
  BY <1>3, OwnSteps DEF Flow, Running
<1>4. QED
  BY <1>1, <1>2, <1>3, Untouched DEF Flow

LEMMA QueuePreserved ==
  ASSUME Flow, [Next]_vars, TypeOK'
  PROVE  QueueFresh' /\ Kinds'
<1>1. ASSUME NEW k \in queue', k \notin queue
      PROVE  stage'[k] = "none" /\ k.type \in Aggregators
  <2>1. UNCHANGED task
    BY <1>1, QueueSteps
  <2>2. PICK m \in events : m.kind = "ProcessingComplete" /\ k \in AggregatesOf(m.job)
    BY <1>1, QueueSteps
  <2>3. m.job \in Jobs /\ m.job.type = m.job.from
    BY <2>2, CompletedBase
  <2>4. stage[k] = "none"
    BY <2>2, <2>3 DEF Flow, Waiting, Pending
  <2>5. QED
    BY <2>1, <2>2, <2>3, <2>4, AggregatesTyped DEF task
<1>2. QueueFresh'
  <2>1. ASSUME NEW k \in queue'
        PROVE  stage'[k] = "none"
    BY <1>1, StageSteps DEF Flow, QueueFresh, TypeOK
  <2>2. QED
    BY <2>1 DEF QueueFresh
<1>3. Kinds'
  <2>1. ASSUME NEW j \in Jobs, j \in queue' \/ stage'[j] # "none"
        PROVE  j.type = j.from \/ j.type \in Aggregators
    BY <1>1, <2>1, StageSteps DEF Flow, Kinds
  <2>2. QED
    BY <2>1 DEF Kinds
<1>4. QED
  BY <1>2, <1>3

LEMMA CompletedPreserved ==
  ASSUME Flow, [Next]_vars, TypeOK'
  PROVE  OnlyBasesPay' /\ Completed'
<1>1. OnlyBasesPay'
  BY PaidSteps DEF Flow, OnlyBasesPay
<1>2. ASSUME NEW m \in events', m.kind = "ProcessingComplete"
      PROVE  stage'[m.job] = "over" /\ m.payload = paid'[m.job] /\ m.payload # {}
  <2>1. CASE m \in events
    BY <1>2, <2>1, CompletedBase, StageSteps DEF Flow, Completed
  <2>2. CASE m \notin events
    BY <1>2, <2>2, CompletionSteps DEF Flow
  <2>3. QED
    BY <2>1, <2>2
<1>3. QED
  BY <1>1, <1>2 DEF Completed

LEMMA PendingBefore ==
  ASSUME Flow, [Next]_vars, NEW j \in Jobs, Pending(j)'
  PROVE  Pending(j)
<1>1. CASE stage'[j] # "over"
  BY <1>1, StageSteps DEF Pending
<1>2. ASSUME NEW m \in events', m.kind = "ProcessingComplete", m.job = j
      PROVE  Pending(j)
  <2>1. CASE m \in events
    BY <1>2, <2>1 DEF Pending
  <2>2. CASE m \notin events
    <3>1. stage[j] \in Running
      BY <1>2, <2>2, CompletionSteps DEF Flow
    <3>2. QED
      BY <3>1 DEF Pending, Running
  <2>3. QED
    BY <2>1, <2>2
<1>3. QED
  BY <1>1, <1>2 DEF Pending

\* A completion is announced once.
LEMMA CompletionUnique ==
  ASSUME Flow, NEW m \in events, NEW n \in events, m.job = n.job,
         m.kind = "ProcessingComplete", n.kind = "ProcessingComplete"
  PROVE  m = n
<1>1. m.payload = n.payload
  BY DEF Flow, Completed
<1>2. m \in Events /\ n \in Events
  BY DEF Flow, TypeOK
<1>3. /\ m \in [kind : {"ProcessingComplete"}, job : Jobs, payload : SUBSET Snapshots]
      /\ n \in [kind : {"ProcessingComplete"}, job : Jobs, payload : SUBSET Snapshots]
  BY <1>2 DEF Events
<1>4. QED
  BY <1>1, <1>3

LEMMA WaitingPreserved ==
  ASSUME Flow, [Next]_vars, TypeOK'
  PROVE  Waiting'
<1> SUFFICES ASSUME NEW j \in Jobs, j.type = j.from, Pending(j)', NEW a \in AggregatesOf(j)
             PROVE  a \notin queue' /\ stage'[a] = "none"
  BY DEF Waiting, AggregatesOf
<1>1. a \in Jobs
  BY AggregatesTyped
<1>2. Pending(j)
  BY PendingBefore
<1>3. a \notin queue /\ stage[a] = "none"
  BY <1>2 DEF Flow, Waiting
<1>4. stage'[a] = "none"
  BY <1>1, <1>3, StageSteps
<1>5. ASSUME a \in queue'
      PROVE  FALSE
  <2>1. PICK m \in events : /\ m.kind = "ProcessingComplete" /\ m \notin events'
                            /\ a \in AggregatesOf(m.job)
    BY <1>3, <1>5, QueueSteps
  <2>2. events' \subseteq events /\ stage' = stage
    BY <1>3, <1>5, QueueSteps DEF task
  <2>3. m.job \in Jobs /\ m.job.type = m.job.from /\ stage[m.job] = "over"
    BY <2>1, CompletedBase
  <2>4. m.job = j
    BY <2>1, <2>3, AggregatesApart
  <2>5. PICK n \in events' : n.kind = "ProcessingComplete" /\ n.job = j
    BY <2>2, <2>3, <2>4 DEF Pending
  <2>6. n = m
    BY <2>1, <2>2, <2>4, <2>5, CompletionUnique
  <2>7. QED
    BY <2>1, <2>5, <2>6
<1>6. QED
  BY <1>4, <1>5

LEMMA EarnedPreserved ==
  ASSUME Flow, [Next]_vars, TypeOK'
  PROVE  AggregatesAreEarned'
<1> DEFINE BaseOf(j) == [j EXCEPT !.type = j.from]
           Earned(j) == /\ j.from \in DependsOn[j.type]
                        /\ stage[BaseOf(j)] = "over"
                        /\ paid[BaseOf(j)] # {}
<1> SUFFICES ASSUME NEW j \in Jobs, j.type \in Aggregators, j \in queue' \/ stage'[j] # "none"
             PROVE  Earned(j)' /\ (stage'[j] \in Running => j.epoch # 0)
  BY DEF AggregatesAreEarned
<1>1. BaseOf(j) \in Jobs
  BY DEF Jobs, Types
<1>2. ASSUME Earned(j)
      PROVE  Earned(j)'
  BY <1>1, <1>2, StageSteps
<1>3. CASE j \in queue \/ stage[j] # "none"
  <2>1. Earned(j) /\ (stage[j] \in Running => j.epoch # 0)
    BY <1>3 DEF Flow, AggregatesAreEarned
  <2>2. stage'[j] \in Running => j.epoch # 0
    BY <2>1, StageSteps DEF Simulated
  <2>3. QED
    BY <1>2, <2>1, <2>2
<1>4. CASE j \notin queue /\ stage[j] = "none"
  <2>1. stage'[j] = "none" /\ j \in queue'
    BY <1>4, StageSteps
  <2>2. PICK m \in events : m.kind = "ProcessingComplete" /\ j \in AggregatesOf(m.job)
    BY <1>4, <2>1, QueueSteps
  <2>3. m.job \in Jobs /\ m.job.type = m.job.from
    BY <2>2, CompletedBase
  <2>4. j.from = m.job.type /\ j.epoch = m.job.epoch /\ j.from \in DependsOn[j.type]
    BY <2>2, <2>3, AggregatesTyped
  <2>5. BaseOf(j) = m.job
    BY <2>3, <2>4 DEF Jobs
  <2>6. Earned(j)
    BY <2>2, <2>4, <2>5 DEF Flow, Completed
  <2>7. QED
    BY <1>2, <2>1, <2>6 DEF Running
<1>5. QED
  BY <1>3, <1>4

LEMMA FlowPreserved ==
  ASSUME Flow, Base', [Next]_vars
  PROVE  Flow'
BY QueuePreserved, CompletedPreserved, WaitingPreserved, EarnedPreserved DEF Base, Flow

THEOREM FlowInvariant == Spec => []Flow
<1>1. Base' /\ Flow /\ [Next]_vars => Flow'
  BY FlowPreserved
<1>2. QED
  BY InitFlow, BaseInvariant, <1>1, PTL DEF Spec

\* An aggregator only works on what the base job it depends on has had
\* submitted, however events are delayed, reordered or lost: a completion is
\* announced once, and nothing else makes a job of an aggregator.
THEOREM AggregatesCorrect == Spec => []AggregatesAreEarned
BY FlowInvariant, PTL DEF Flow

-----------------------------------------------------------------------------
(* Verdicts stand for what was done.                                       *)

LastSent == \A p \in Projects : raw[p] # None => raw[p] \in sent
PaidSent == \A j \in Jobs : paid[j] \subseteq sent
OutcomeSent ==
    \A j \in Jobs : stage[j] = "note" =>
        /\ outcome[j] \in {"success", "failed"}
        /\ outcome[j] = "success" => Current(j) \in sent
BuiltFirst ==
    \A j \in Jobs : stage[j] \in {"read", "upload", "submit", "note"} =>
        built[<<current[j], j.epoch>>] = "success"

\* A status, of project and epoch, that is earned.
Stands(p, e) ==
    /\ submitted[<<p, e>>] # "none" =>
          /\ built[<<p, e>>] = "success"
          /\ \E c \in Snapshots : c.project = p /\ c.epoch = e /\ stored[c] # None
    /\ submitted[<<p, e>>] = "success" =>
          \E c \in sent : c.project = p /\ c.epoch = e
StatusStands == \A p \in Projects, e \in Epochs : Stands(p, e)

Verdict == LastSent /\ PaidSent /\ OutcomeSent /\ BuiltFirst /\ StatusStands

LEMMA InitVerdict == Init => Verdict
BY DEF Init, Verdict, LastSent, PaidSent, OutcomeSent, BuiltFirst, StatusStands, Stands

LEMMA SentGrows ==
  ASSUME [Next]_vars
  PROVE  sent \subseteq sent'
BY SentSteps

\* Only types fail to be built, and no type is a project.
LEMMA BuiltStays ==
  ASSUME TypeOK, [Next]_vars, NEW p \in Projects, NEW e \in Epochs,
         built[<<p, e>>] = "success"
  PROVE  built'[<<p, e>>] = "success"
<1>1. ASSUME NEW j \in Jobs, Start(j)
      PROVE  built'[<<p, e>>] = "success"
  <2>1. j.type # p
    BY WorkerAssumption DEF WorkerAssumption, Jobs, Types
  <2>2. <<j.type, j.epoch>> # <<p, e>>
    BY <2>1
  <2>3. built' = built \/ built' = [built EXCEPT ![<<j.type, j.epoch>>] = "failed"]
    BY <1>1 DEF Start, Skip, ComputeNothing, Compute
  <2>4. QED
    BY <2>2, <2>3 DEF TypeOK
<1>2. ASSUME NEW j \in Jobs, NEW q \in Projects, Build(j, q)
      PROVE  built'[<<p, e>>] = "success"
  BY <1>2 DEF Build, TypeOK
<1>3. ASSUME NEW j \in Jobs, Advance(j) \/ Dies(j)
      PROVE  built'[<<p, e>>] = "success"
  BY <1>2, <1>3 DEF Advance, Dies, ReadRaw, ReadNoted, ReadFinal, UseLast, ReadNone, Upload,
                    UploadFails, Send, SignFails, Record, redis
<1>4. ASSUME HandleEvent \/ UNCHANGED vars
      PROVE  built' = built
  BY <1>4 DEF HandleEvent, Forward, FanOut, HandlingFails, vars, redis
<1>5. QED
  BY <1>1, <1>3, <1>4 DEF Next

\* How a job comes to have a project, and an outcome.
LEMMA CommitSteps ==
  ASSUME Base, [Next]_vars, NEW k \in Jobs
  PROVE  /\ stage'[k] \in {"read", "upload", "submit", "note"} =>
               \/ /\ stage[k] \in {"read", "upload", "submit", "note"}
                  /\ current'[k] = current[k]
               \/ \E p \in Projects : Build(k, p)
         /\ stage'[k] = "note" =>
               /\ current'[k] = current[k]
               /\ \/ stage[k] = "note" /\ outcome'[k] = outcome[k]
                  \/ outcome'[k] = "failed"
                  \/ outcome'[k] \in {"success", "failed"} /\ Current(k) \in sent'
<1> USE DEF Base
<1>1. CASE Same(k)
  BY <1>1 DEF Same, Located
<1>2. CASE Start(k) \/ Dies(k)
  BY <1>2, OwnSteps DEF Dies, TypeOK
<1>3. ASSUME NEW p \in Projects, Build(k, p)
      PROVE  stage'[k] \in {"read", "upload"}
  BY <1>3 DEF Build, TypeOK
<1>4. CASE ReadRaw(k) \/ ReadNoted(k) \/ ReadFinal(k)
  BY <1>4, LastUsable DEF ReadNone, UseLast, TypeOK
<1>5. CASE Upload(k)
  BY <1>5 DEF Upload, TypeOK
<1>6. CASE UploadFails(k) \/ Record(k)
  BY <1>6 DEF UploadFails, Record, Continue, TypeOK
<1>7. CASE SignFails(k)
  BY <1>7 DEF SignFails, TypeOK
<1>8. ASSUME NEW result \in {"success", "failed"}, Send(k, result)
      PROVE  /\ stage[k] = "submit" /\ current' = current /\ stage'[k] = "note"
             /\ outcome'[k] \in {"success", "failed"} /\ Current(k) \in sent'
  BY <1>8 DEF Send, TypeOK
<1>9. QED
  BY <1>1, <1>2, <1>3, <1>4, <1>5, <1>6, <1>7, <1>8, Untouched DEF Advance

\* A status is what a job found out.
LEMMA StatusSteps ==
  ASSUME Base, [Next]_vars, NEW p \in Projects, NEW e \in Epochs
  PROVE  \/ submitted'[<<p, e>>] = submitted[<<p, e>>]
         \/ \E j \in Jobs : /\ stage[j] = "note" /\ current[j] = p /\ j.epoch = e
                            /\ submitted'[<<p, e>>] = outcome[j]
<1>1. ASSUME NEW j \in Jobs, stage[j] = "note", Recorded(j)
      PROVE  \/ submitted'[<<p, e>>] = submitted[<<p, e>>]
             \/ current[j] = p /\ j.epoch = e /\ submitted'[<<p, e>>] = outcome[j]
  BY <1>1 DEF Recorded, Base, TypeOK
<1>2. ASSUME NEW j \in Jobs, Record(j) \/ Dies(j)
      PROVE  submitted' = submitted \/ (stage[j] = "note" /\ Recorded(j))
  BY <1>2 DEF Record, Dies
<1>3. ASSUME NEW j \in Jobs, Start(j) \/ (Advance(j) /\ ~Record(j))
      PROVE  submitted' = submitted
  BY <1>3 DEF Start, Skip, ComputeNothing, Compute, Take, Advance, Build, ReadRaw, ReadNoted,
              ReadFinal, UseLast, ReadNone, Upload, UploadFails, Send, SignFails, redis
<1>4. ASSUME HandleEvent \/ UNCHANGED vars
      PROVE  submitted' = submitted
  BY <1>4 DEF HandleEvent, Forward, FanOut, HandlingFails, vars, redis
<1>5. QED
  BY <1>1, <1>2, <1>3, <1>4 DEF Next

LEMMA VerdictPreserved ==
  ASSUME Base, Verdict, [Next]_vars
  PROVE  Verdict'
<1> USE DEF Verdict
<1>1. sent \subseteq sent'
  BY SentGrows
<1>2. LastSent'
  BY <1>1, LastSteps DEF LastSent, OutcomeSent
<1>3. PaidSent'
  BY <1>1, PaidSteps DEF Base, PaidSent, OutcomeSent
<1>4. OutcomeSent'
  <2>1. ASSUME NEW k \in Jobs, stage'[k] = "note"
        PROVE  /\ outcome'[k] \in {"success", "failed"}
               /\ outcome'[k] = "success" => Current(k)' \in sent'
    <3>1. current'[k] = current[k]
      BY <2>1, CommitSteps
    <3>2. Current(k)' = Current(k)
      BY <3>1 DEF Current, SnapshotOf
    <3>3. QED
      BY <1>1, <2>1, <3>2, CommitSteps DEF OutcomeSent
  <2>2. QED
    BY <2>1 DEF OutcomeSent
<1>5. BuiltFirst'
  <2>1. ASSUME NEW k \in Jobs, stage'[k] \in {"read", "upload", "submit", "note"}
        PROVE  built'[<<current'[k], k.epoch>>] = "success"
    <3>1. CASE /\ stage[k] \in {"read", "upload", "submit", "note"}
               /\ current'[k] = current[k]
      <4>1. current[k] \in Projects /\ k.epoch \in Epochs
        BY <3>1 DEF Base, Located, Jobs
      <4>2. QED
        BY <3>1, <4>1, BuiltStays DEF Base, BuiltFirst
    <3>2. ASSUME NEW p \in Projects, Build(k, p)
          PROVE  built'[<<current'[k], k.epoch>>] = "success"
      <4>1. <<p, k.epoch>> \in (Types \cup Projects) \X Epochs
        BY DEF Jobs
      <4>2. QED
        BY <3>2, <4>1 DEF Build, Base, TypeOK
    <3>3. QED
      BY <2>1, <3>1, <3>2, CommitSteps
  <2>2. QED
    BY <2>1 DEF BuiltFirst
<1>6. StatusStands'
  <2> SUFFICES ASSUME NEW p \in Projects, NEW e \in Epochs
               PROVE  Stands(p, e)'
    BY DEF StatusStands
  <2>1. \A c \in Snapshots : stored[c] # None => stored'[c] # None
    BY StoredStays
  <2>2. CASE submitted'[<<p, e>>] = submitted[<<p, e>>]
    BY <1>1, <2>1, <2>2, BuiltStays DEF Base, StatusStands, Stands
  <2>3. ASSUME NEW j \in Jobs, stage[j] = "note", current[j] = p, j.epoch = e,
               submitted'[<<p, e>>] = outcome[j]
        PROVE  Stands(p, e)'
    <3>1. Current(j) \in Snapshots /\ Current(j).project = p /\ Current(j).epoch = e
      BY <2>3, OwnTyped DEF Current
    <3>2. stored'[Current(j)] # None
      BY <2>1, <2>3, <3>1 DEF Base, Located
    <3>3. built'[<<p, e>>] = "success"
      BY <2>3, BuiltStays DEF Base, BuiltFirst
    <3>4. outcome[j] = "success" => Current(j) \in sent'
      BY <1>1, <2>3 DEF OutcomeSent
    <3>5. QED
      BY <2>3, <3>1, <3>2, <3>3, <3>4 DEF Stands
  <2>4. QED
    BY <2>2, <2>3, StatusSteps
<1>7. QED
  BY <1>2, <1>3, <1>4, <1>5, <1>6

LEMMA VerdictHolds ==
  ASSUME TypeOK, Verdict
  PROVE  VerdictsAreEarned
<1>1. \A c \in sent : c \in Snapshots
  BY DEF TypeOK
<1>2. ASSUME NEW p \in Projects, NEW e \in Epochs
      PROVE  LET ofTheEpoch == {c \in Snapshots : c.project = p /\ c.epoch = e}
             IN /\ submitted[<<p, e>>] # "none" =>
                      /\ built[<<p, e>>] = "success"
                      /\ \E c \in ofTheEpoch : stored[c] # None
                /\ submitted[<<p, e>>] = "success" => ofTheEpoch \cap sent # {}
  BY <1>1 DEF Verdict, StatusStands, Stands
<1>3. QED
  BY <1>2 DEF VerdictsAreEarned, Verdict, LastSent, PaidSent

THEOREM VerdictInvariant == Spec => []Verdict
<1>1. Base /\ Verdict /\ [Next]_vars => Verdict'
  BY VerdictPreserved
<1>2. QED
  BY InitVerdict, BaseInvariant, <1>1, PTL DEF Spec

\* What Redis says of submissions is true in every interleaving of jobs: a
\* success is of a snapshot that was sent, and a status of one that was built
\* and is on IPFS, whoever of several jobs of the epoch wrote it.
THEOREM VerdictsCorrect == Spec => []VerdictsAreEarned
<1>1. Base /\ Verdict => VerdictsAreEarned
  BY VerdictHolds DEF Base
<1>2. QED
  BY BaseInvariant, VerdictInvariant, <1>1, PTL

-----------------------------------------------------------------------------
(* Lists of predecessors.                                                  *)

\* A list of snapshots of a project, within its bound, none of them twice.
Proper(s, p) ==
    /\ Len(s) <= Window
    /\ \A i \in DOMAIN s : s[i].project = p /\ \A k \in DOMAIN s : s[i] = s[k] => i = k
Avoids(s, c) == \A i \in DOMAIN s : s[i] # c

ListsProper == \A j \in Jobs : Proper(list[j], current[j])
StoredProper ==
    \A c \in Snapshots : stored[c] # None => Proper(stored[c], c.project) /\ Avoids(stored[c], c)
LastOfProject ==
    \A p \in Projects : /\ raw[p] # None => raw[p].project = p
                        /\ noted[p] # None => noted[p].project = p

\* Between two projects a job has none, and no list before it has read.
AtRest ==
    \A j \in Jobs :
        /\ stage[j] \in {"none", "build", "over", "lost"} => current[j] = None
        /\ stage[j] \in {"none", "build", "read", "over", "lost"} => list[j] = <<>>

\* A job commits the projects of its type, each once.
ProjectsTyped ==
    \A j \in Jobs :
        /\ \A p \in todo[j] : TypeOf[p] = j.type
        /\ current[j] # None => TypeOf[current[j]] = j.type /\ current[j] \notin todo[j]

\* A snapshot is stored by its job alone, and once.
Settled(j, p) ==
    /\ stage[j] # "none"
    /\ p \notin todo[j]
    /\ current[j] = p => stage[j] \in {"submit", "note"}
StoredOnce ==
    \A j \in Jobs, p \in Projects :
        TypeOf[p] = j.type /\ stored[SnapshotOf(j, p)] # None => Settled(j, p)

Chains == /\ ListsProper /\ StoredProper /\ LastOfProject
          /\ AtRest /\ ProjectsTyped /\ StoredOnce

LEMMA InitChains == Init => Chains
<1> SUFFICES ASSUME Init
             PROVE  Chains
  OBVIOUS
<1>1. ListsProper
  BY WorkerAssumption DEF WorkerAssumption, Init, ListsProper, Proper
<1>2. StoredProper
  BY Foreigners DEF Init, StoredProper, Proper, Avoids
<1>3. StoredOnce
  BY OwnTyped DEF Init, StoredOnce
<1>4. QED
  BY <1>1, <1>2, <1>3 DEF Init, Chains, LastOfProject, AtRest, ProjectsTyped

\* A list that is made from a proper one is proper, within the bound because
\* a full one is cut before it grows.
LEMMA ChainedProper ==
  ASSUME TypeOK, NEW c \in Snapshots, stored[c] # None,
         Proper(stored[c], c.project), Avoids(stored[c], c)
  PROVE  Proper(Chained(c), c.project)
<1> DEFINE s == stored[c]
<1>1. s \in Seq(Snapshots) /\ Window \in Nat \ {0}
  BY WorkerAssumption DEF WorkerAssumption, TypeOK
<1>2. ASSUME NEW r \in Seq(Snapshots), Len(r) < Window,
             \A i \in DOMAIN r : r[i].project = c.project /\ r[i] # c
                                 /\ \A k \in DOMAIN r : r[i] = r[k] => i = k
      PROVE  Proper(Append(r, c), c.project)
  <2>1. Append(r, c) \in Seq(Snapshots) /\ Len(Append(r, c)) = Len(r) + 1
    BY <1>2
  <2>2. \A i \in 1..Len(r) : Append(r, c)[i] = r[i]
    BY <1>2
  <2>3. Append(r, c)[Len(r) + 1] = c
    BY <1>2
  <2>4. Len(Append(r, c)) <= Window
    BY <1>1, <1>2, <2>1
  <2>5. \A i \in 1..(Len(r) + 1) : i \in 1..Len(r) \/ i = Len(r) + 1
    BY <1>2
  <2>6. DOMAIN Append(r, c) = 1..(Len(r) + 1) /\ DOMAIN r = 1..Len(r)
    BY <1>2, <2>1
  <2>7. QED
    BY <1>2, <2>2, <2>3, <2>4, <2>5, <2>6 DEF Proper
<1>3. CASE Len(s) >= Window
  <2>1. s # <<>>
    BY <1>1, <1>3
  <2>2. Tail(s) \in Seq(Snapshots) /\ Len(Tail(s)) = Len(s) - 1
    BY <1>1, <2>1
  <2>3. \A i \in 1..(Len(s) - 1) : Tail(s)[i] = s[i + 1] /\ i + 1 \in 1..Len(s)
    BY <1>1, <2>1
  <2>4. DOMAIN Tail(s) = 1..(Len(s) - 1) /\ DOMAIN s = 1..Len(s)
    BY <1>1, <2>2
  <2>5. Len(Tail(s)) < Window
    BY <1>1, <2>2 DEF Proper
  <2>6. \A i \in DOMAIN Tail(s) : Tail(s)[i].project = c.project /\ Tail(s)[i] # c
    BY <2>3, <2>4 DEF Proper, Avoids
  <2>7. \A i, k \in DOMAIN Tail(s) : Tail(s)[i] = Tail(s)[k] => i = k
    <3> SUFFICES ASSUME NEW i \in DOMAIN Tail(s), NEW k \in DOMAIN Tail(s),
                        Tail(s)[i] = Tail(s)[k]
                 PROVE  i = k
      OBVIOUS
    <3>1. s[i + 1] = s[k + 1] /\ i + 1 \in DOMAIN s /\ k + 1 \in DOMAIN s
      BY <2>3, <2>4
    <3>2. i + 1 = k + 1
      BY <3>1 DEF Proper
    <3>3. QED
      BY <1>1, <2>4, <3>2
  <2>8. Chained(c) = Append(Tail(s), c)
    BY <1>3 DEF Chained
  <2>9. QED
    BY <1>2, <2>2, <2>5, <2>6, <2>7, <2>8
<1>4. CASE ~(Len(s) >= Window)
  <2>1. Chained(c) = Append(s, c)
    BY <1>4 DEF Chained
  <2>2. Len(s) < Window
    BY <1>1, <1>4
  <2>3. QED
    BY <1>1, <1>2, <2>1, <2>2 DEF Proper, Avoids
<1>5. QED
  BY <1>3, <1>4

\* The places a job goes through with a project.
LEMMA PlaceSteps ==
  ASSUME Base, Flow, [Next]_vars, NEW k \in Jobs
  PROVE  \/ Same(k)
         \/ /\ stage[k] = "none" /\ stage'[k] \in {"build", "over"}
            /\ current'[k] = current[k] /\ list'[k] = list[k]
            /\ todo'[k] = todo[k] \/ \A p \in todo'[k] : TypeOf[p] = k.type
         \/ /\ stage[k] = "build" /\ stage'[k] \in {"read", "upload"}
            /\ list'[k] = list[k]
            /\ \E p \in todo[k] : current'[k] = p /\ todo'[k] = todo[k] \ {p}
         \/ /\ stage[k] = "read" /\ stage'[k] = "upload"
            /\ current'[k] = current[k] /\ todo'[k] = todo[k]
         \/ /\ stage[k] \in {"upload", "submit"} /\ stage'[k] \in {"submit", "note"}
            /\ current'[k] = current[k] /\ todo'[k] = todo[k] /\ list'[k] = list[k]
         \/ /\ stage[k] \in Running /\ stage'[k] \in {"build", "over", "lost"}
            /\ current'[k] = None /\ list'[k] = <<>> /\ todo'[k] \subseteq todo[k]
<1> USE DEF Base
<1>1. CASE Start(k)
  BY <1>1 DEF Start, Skip, ComputeNothing, Compute, Take, TypeOK, Flow, QueueFresh
<1>2. ASSUME NEW p \in Projects, Build(k, p)
      PROVE  /\ stage[k] = "build" /\ stage'[k] \in {"read", "upload"}
             /\ list'[k] = list[k]
             /\ p \in todo[k] /\ current'[k] = p /\ todo'[k] = todo[k] \ {p}
  BY <1>2 DEF Build, TypeOK
<1>3. CASE ReadRaw(k) \/ ReadNoted(k) \/ ReadFinal(k)
  BY <1>3, LastUsable DEF ReadNone, UseLast, TypeOK
<1>4. CASE Upload(k)
  BY <1>4 DEF Upload, TypeOK
<1>5. CASE SignFails(k)
  BY <1>5 DEF SignFails, TypeOK
<1>6. ASSUME NEW result \in {"success", "failed"}, Send(k, result)
      PROVE  /\ stage[k] = "submit" /\ stage'[k] = "note"
             /\ current'[k] = current[k] /\ todo'[k] = todo[k] /\ list'[k] = list[k]
  BY <1>6 DEF Send, TypeOK
<1>7. CASE UploadFails(k) \/ Record(k)
  BY <1>7, OwnSteps DEF UploadFails, Record, Continue, TypeOK, Advance
<1>8. CASE Dies(k)
  BY <1>8 DEF Dies, TypeOK
<1>9. QED
  BY <1>1, <1>2, <1>3, <1>4, <1>5, <1>6, <1>7, <1>8, Untouched DEF Advance

LEMMA RestPreserved ==
  ASSUME Base, Flow, Chains, [Next]_vars
  PROVE  AtRest' /\ ProjectsTyped'
<1> SUFFICES ASSUME NEW k \in Jobs
             PROVE  /\ stage'[k] \in {"none", "build", "over", "lost"} => current'[k] = None
                    /\ stage'[k] \in {"none", "build", "read", "over", "lost"} =>
                          list'[k] = <<>>
                    /\ \A p \in todo'[k] : TypeOf[p] = k.type
                    /\ current'[k] # None =>
                          TypeOf[current'[k]] = k.type /\ current'[k] \notin todo'[k]
  BY DEF AtRest, ProjectsTyped
<1>1. /\ stage[k] \in {"none", "build", "over", "lost"} => current[k] = None
      /\ stage[k] \in {"none", "build", "read", "over", "lost"} => list[k] = <<>>
      /\ \A p \in todo[k] : TypeOf[p] = k.type
      /\ current[k] # None => TypeOf[current[k]] = k.type /\ current[k] \notin todo[k]
  BY DEF Chains, AtRest, ProjectsTyped
<1>2. QED
  BY <1>1, PlaceSteps DEF Same

LEMMA ListsProperPreserved ==
  ASSUME Base, Flow, Chains, [Next]_vars
  PROVE  ListsProper'
<1> SUFFICES ASSUME NEW k \in Jobs
             PROVE  Proper(list'[k], current'[k])
  BY DEF ListsProper, Proper
<1>1. Proper(<<>>, current'[k])
  BY WorkerAssumption DEF WorkerAssumption, Proper
<1>2. CASE list'[k] = <<>>
  BY <1>1, <1>2
<1>3. ASSUME stage[k] = "read", current' = current, NEW c \in Snapshots, stored[c] # None,
             list'[k] = Chained(c),
             c = raw[current[k]] \/ c = noted[current[k]] \/ c.project = current[k]
      PROVE  Proper(list'[k], current'[k])
  <2>1. current[k] \in Projects
    BY <1>3 DEF Base, Located
  <2>2. c # None
    BY Foreigners
  <2>3. c.project = current[k]
    BY <1>3, <2>1, <2>2 DEF Chains, LastOfProject
  <2>4. QED
    BY <1>3, <2>3, ChainedProper DEF Base, Chains, StoredProper
<1>4. CASE list'[k] = list[k] /\ list[k] # <<>>
  <2>1. Proper(list[k], current[k])
    BY DEF Chains, ListsProper
  <2>2. stage[k] \notin {"none", "build", "read"}
    BY <1>4 DEF Chains, AtRest
  <2>3. current'[k] = current[k]
    BY <1>4, <2>2, PlaceSteps DEF Same
  <2>4. QED
    BY <1>4, <2>1, <2>3
<1>5. QED
  BY <1>2, <1>3, <1>4, ListSteps

LEMMA StoredOncePreserved ==
  ASSUME Base, Flow, Chains, [Next]_vars
  PROVE  StoredOnce'
<1> SUFFICES ASSUME NEW k \in Jobs, NEW p \in Projects, TypeOf[p] = k.type,
                    stored'[SnapshotOf(k, p)] # None
             PROVE  Settled(k, p)'
  BY DEF StoredOnce, SnapshotOf
<1>1. p # None
  BY Foreigners
<1>2. CASE stored[SnapshotOf(k, p)] # None
  <2>1. Settled(k, p)
    BY <1>2 DEF Chains, StoredOnce
  <2>2. QED
    BY <1>1, <2>1, PlaceSteps DEF Settled, Same
<1>3. ASSUME NEW j \in Jobs, Upload(j), SnapshotOf(k, p) = Current(j)
      PROVE  Settled(k, p)'
  <2>1. current[j] \in Projects
    BY <1>3, UploadStores DEF Base
  <2>2. p = current[j] /\ k.from = j.from /\ k.epoch = j.epoch
    BY <1>3 DEF Current, SnapshotOf
  <2>3. TypeOf[current[j]] = j.type /\ current[j] \notin todo[j]
    BY <1>1, <2>2 DEF Chains, ProjectsTyped
  <2>4. k.type = j.type
    BY <2>2, <2>3
  <2>5. /\ j = [type |-> j.type, from |-> j.from, epoch |-> j.epoch]
        /\ k = [type |-> k.type, from |-> k.from, epoch |-> k.epoch]
    BY DEF Jobs
  <2>6. j = k
    BY <2>2, <2>4, <2>5
  <2>7. stage'[k] = "submit" /\ todo' = todo
    BY <1>3, <2>6 DEF Upload, Base, TypeOK
  <2>8. QED
    BY <2>2, <2>3, <2>6, <2>7 DEF Settled
<1>4. QED
  <2>1. SnapshotOf(k, p) \in Snapshots
    BY OwnTyped
  <2>2. CASE stored' = stored
    BY <1>2, <2>2
  <2>3. ASSUME NEW j \in Jobs, Upload(j)
        PROVE  Settled(k, p)'
    BY <1>2, <1>3, <2>1, <2>3, UploadStores DEF Base
  <2>4. QED
    BY <2>2, <2>3, StoredKept

LEMMA StoredProperPreserved ==
  ASSUME Base, Flow, Chains, [Next]_vars
  PROVE  StoredProper'
<1>1. CASE stored' = stored
  BY <1>1 DEF Chains, StoredProper
<1>2. ASSUME NEW j \in Jobs, Upload(j)
      PROVE  StoredProper'
  <2>1. /\ current[j] \in Projects /\ current[j] # None
        /\ Current(j) \in Snapshots /\ Current(j).project = current[j]
    BY <1>2, UploadStores, OwnTyped, Foreigners DEF Base, Current
  <2>2. Proper(list[j], current[j])
    BY DEF Chains, ListsProper
  <2>3. stored[Current(j)] = None
    <3>1. stage[j] = "upload" /\ TypeOf[current[j]] = j.type
      BY <1>2, <2>1 DEF Upload, Chains, ProjectsTyped
    <3>2. QED
      BY <2>1, <3>1 DEF Chains, StoredOnce, Settled, Current
  <2>4. Avoids(list[j], Current(j))
    BY <2>3 DEF Base, Names, ListsStored, Avoids
  <2>5. QED
    BY <1>2, <2>1, <2>2, <2>4, UploadStores DEF Base, Chains, StoredProper
<1>3. QED
  BY <1>1, <1>2, StoredKept

LEMMA LastOfPreserved ==
  ASSUME Base, Chains, [Next]_vars
  PROVE  LastOfProject'
<1>1. ASSUME NEW j \in Jobs, NEW p \in Projects, current[j] = p
      PROVE  Current(j).project = p
  BY <1>1, OwnTyped DEF Current
<1>2. QED
  BY <1>1, LastSteps DEF Chains, LastOfProject

THEOREM ChainsInvariant == Spec => []Chains
<1>1. Base /\ Flow /\ Chains /\ [Next]_vars => Chains'
  BY RestPreserved, ListsProperPreserved, StoredOncePreserved, StoredProperPreserved,
     LastOfPreserved DEF Chains
<1>2. QED
  BY InitChains, BaseInvariant, FlowInvariant, <1>1, PTL DEF Spec

\* Lists of predecessors have no repeats and keep to their bound, whichever
\* jobs of a project overlap and in whatever order they record: a job stores
\* the snapshot of a project once, so what it read before cannot hold it.
THEOREM ChainsCorrect == Spec => []ChainsHaveNoRepeats
<1>1. Chains => ChainsHaveNoRepeats
  BY DEF Chains, StoredProper, Proper, Avoids, ChainsHaveNoRepeats
<1>2. QED
  BY ChainsInvariant, <1>1, PTL
-----------------------------------------------------------------------------
(* What there is of JobsEnd without the fairness: no job goes round for    *)
(* ever, and none stands still for want of work.                           *)

\* The places of a job between two of its projects, from the first to the last.
Height(s) ==
    CASE s = "read" -> 5 [] s = "upload" -> 4 [] s = "submit" -> 3
      [] s = "note" -> 2 [] s = "build" -> 1 [] OTHER -> 0

\* The job is left alone, ends, takes up another of its projects, of which
\* compute has returned finitely many, or gets on with the one it has.
GetsOn(j) ==
    \/ stage'[j] = stage[j] /\ todo'[j] = todo[j]
    \/ stage'[j] \in {"over", "lost"}
    \/ todo'[j] \subseteq todo[j] /\ todo'[j] # todo[j]
    \/ todo'[j] = todo[j] /\ Height(stage'[j]) < Height(stage[j])

\* What any task does brings a running job nearer to its end or leaves it
\* where it is, and what has ended stays so.
JobsRunDown ==
    [][\A j \in Jobs : /\ stage[j] \in Running => GetsOn(j)
                       /\ stage[j] \in {"over", "lost"} => stage'[j] = stage[j]]_vars

LEMMA ContinueGoes ==
  ASSUME TypeOK, NEW j \in Jobs, NEW payload, Continue(j, payload)
  PROVE  stage'[j] = IF todo[j] = {} THEN "over" ELSE "build"
BY DEF Continue, TypeOK

LEMMA AdvanceGoes ==
  ASSUME TypeOK, NEW j \in Jobs, Advance(j)
  PROVE  \/ /\ \E p \in todo[j] : todo'[j] = todo[j] \ {p}
            /\ stage'[j] \in {"read", "upload"}
         \/ todo'[j] = todo[j] /\ Height(stage'[j]) < Height(stage[j])
         \/ stage'[j] = "over"
<1>1. ASSUME NEW p \in Projects, Build(j, p)
      PROVE  (\E q \in todo[j] : todo'[j] = todo[j] \ {q}) /\ stage'[j] \in {"read", "upload"}
  BY <1>1 DEF Build, TypeOK
<1>2. CASE ReadRaw(j) \/ ReadNoted(j) \/ ReadFinal(j)
  <2>1. stage[j] = "read" /\ (ReadNone(j) \/ \E c : UseLast(j, c))
    BY <1>2 DEF ReadRaw, ReadNoted, ReadFinal
  <2>2. stage'[j] = "upload" /\ todo' = todo
    BY <2>1 DEF ReadNone, UseLast, TypeOK
  <2>3. QED
    BY <2>1, <2>2 DEF Height
<1>3. CASE Upload(j)
  <2>1. stage[j] = "upload" /\ stage'[j] = "submit" /\ todo' = todo
    BY <1>3 DEF Upload, TypeOK
  <2>2. QED
    BY <2>1 DEF Height
<1>4. CASE SignFails(j) \/ \E result \in {"success", "failed"} : Send(j, result)
  <2>1. stage[j] = "submit" /\ stage'[j] = "note" /\ todo' = todo
    BY <1>4 DEF SignFails, Send, TypeOK
  <2>2. QED
    BY <2>1 DEF Height
<1>5. CASE UploadFails(j) \/ Record(j)
  <2>1. /\ stage[j] \in {"upload", "note"} /\ todo' = todo
        /\ \E payload : Continue(j, payload)
    BY <1>5 DEF UploadFails, Record
  <2>2. stage'[j] = IF todo[j] = {} THEN "over" ELSE "build"
    BY <2>1, ContinueGoes
  <2>3. QED
    BY <2>1, <2>2 DEF Height
<1>6. QED
  BY <1>1, <1>2, <1>3, <1>4, <1>5 DEF Advance

\* A job goes through its projects once and for all: no step of any task
\* gives it more to do, and what has ended does not begin again.
THEOREM JobsGetOn == Spec => JobsRunDown
<1>1. ASSUME Flow, [Next]_vars, NEW j \in Jobs, stage[j] \in Running
      PROVE  GetsOn(j)
  <2>1. TypeOK
    BY <1>1 DEF Flow
  <2>2. CASE Same(j)
    BY <2>2 DEF Same, GetsOn
  <2>3. CASE Start(j)
    BY <1>1, <2>1, <2>3, OwnSteps DEF Flow, QueueFresh, Running
  <2>4. CASE Advance(j)
    BY <2>1, <2>4, AdvanceGoes DEF GetsOn
  <2>5. CASE Dies(j)
    BY <2>1, <2>5 DEF Dies, TypeOK, GetsOn
  <2>6. QED
    BY <1>1, <2>1, <2>2, <2>3, <2>4, <2>5, Untouched
<1>2. ASSUME Flow, [Next]_vars, NEW j \in Jobs, stage[j] \in {"over", "lost"}
      PROVE  stage'[j] = stage[j]
  <2>1. TypeOK
    BY <1>2 DEF Flow
  <2>2. ~Start(j)
    BY <1>2, <2>1, OwnSteps DEF Flow, QueueFresh
  <2>3. ~(Advance(j) \/ Dies(j))
    BY <1>2, <2>1, OwnSteps DEF Running
  <2>4. QED
    BY <1>2, <2>1, <2>2, <2>3, Untouched DEF Same
<1>3. Flow /\ [Next]_vars =>
        [\A j \in Jobs : /\ stage[j] \in Running => GetsOn(j)
                         /\ stage[j] \in {"over", "lost"} => stage'[j] = stage[j]]_vars
  BY <1>1, <1>2
<1>4. QED
  BY <1>3, FlowInvariant, PTL DEF Spec, JobsRunDown
=============================================================================
