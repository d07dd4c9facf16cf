-------------------------------- MODULE Worker --------------------------------
(***************************************************************************)
(* The snapshot and aggregation workers (snapshotter/utils/                *)
(* generic_worker.py, snapshot_worker.py, aggregation_worker.py) and the   *)
(* two events that come back from them through the processor distributor:  *)
(* SnapshotSubmitted, which the cacher notes, and ProcessingComplete, from *)
(* which the distributor makes the jobs of the aggregators.                *)
(*                                                                         *)
(* handle_event starts a task in the event loop and returns: the message   *)
(* of the job is acknowledged before the job is done, jobs of one worker   *)
(* run concurrently, and a worker that stops forgets those it had begun.   *)
(* Jobs meet in Redis: every snapshot of a project with                    *)
(* keep_previous_snapshot_data lists its predecessors, which the job reads *)
(* from the last snapshot another job recorded.                            *)
(*                                                                         *)
(* Abstractions: a snapshot is named by its project, its epoch and the     *)
(* job it comes from, which stands for its CID, and holds only its         *)
(* previousSnapshots; the attempts of an upload have one outcome; queues   *)
(* deliver in any order; a type's projects are served in any order.        *)
(***************************************************************************)
EXTENDS Integers, Sequences, FiniteSets

CONSTANTS Bases,        \* project types with a snapshot worker
          Aggregators,  \* project types of the aggregation worker
          DependsOn,    \* base types whose name contains depends_on
          Projects,
          TypeOf,       \* the type a project id begins with
          Keeping,      \* types with keep_previous_snapshot_data
          Foreign,      \* snapshots of other nodes the chain finalized
          ListOf,       \* and their previousSnapshots
          MaxEpoch,     \* bound: epochs are 0..MaxEpoch, 0 the simulation
          Window,       \* longest list of previous snapshots (200)
          MaxRunning,   \* bound on the tasks at a time
          MaxPending,   \* bound on the events not handled yet
          MaxLost,      \* bound on the jobs lost
          None

ASSUME WorkerAssumption ==
    /\ Bases \cap Aggregators = {}
    /\ (Bases \cup Aggregators) \cap Projects = {}
    /\ DependsOn \in [Aggregators -> SUBSET Bases]
    /\ TypeOf \in [Projects -> Bases \cup Aggregators]
    /\ Keeping \subseteq Bases \cup Aggregators
    /\ MaxEpoch \in Nat
    /\ Window \in Nat \ {0}
    /\ MaxRunning \in Nat \ {0}
    /\ MaxPending \in Nat \ {0}
    /\ MaxLost \in Nat

Epochs == 0..MaxEpoch
Types == Bases \cup Aggregators

\* A job of a type for an epoch; that of an aggregator comes from the
\* completion of a base type.
Jobs == [type : Types, from : Bases, epoch : Epochs]

\* A snapshot, standing for its CID as well; one of another node comes from
\* no job.
Own == [project : Projects, from : Bases, epoch : Epochs]
Snapshots == Own \cup Foreign

ASSUME SnapshotAssumption ==
    /\ Foreign \subseteq [project : Projects, from : {None}, epoch : Epochs]
    /\ None \notin Snapshots \cup Bases \cup Projects
    /\ None \notin Seq(Snapshots)
    /\ \A c \in Foreign :
          /\ ListOf[c] \in Seq(Foreign)
          /\ Len(ListOf[c]) <= Window
          /\ \A i \in DOMAIN ListOf[c] :
                /\ ListOf[c][i].project = c.project
                /\ ListOf[c][i] # c
                /\ \A k \in DOMAIN ListOf[c] :
                      ListOf[c][i] = ListOf[c][k] => i = k

Events == [kind : {"SnapshotSubmitted"}, snapshot : Snapshots]
              \cup [kind : {"ProcessingComplete"}, job : Jobs,
                    payload : SUBSET Snapshots]

VARIABLES
    queue,     \* job messages the workers have not taken
    stage,     \* of each job
    todo,      \* projects of a job still to be committed
    current,   \* the project a job is committing
    list,      \* previousSnapshots of the snapshot it is committing
    outcome,   \* what the attempts at the collector came to
    paid,      \* payload of the ProcessingComplete message so far
    events,    \* queue of the distributor
    stored,    \* IPFS: the list of previous snapshots of a snapshot
    sent,      \* snapshots sent to the collector, which may have got them
    raw,       \* Redis: last_submitted_snapshot_raw_data_key
    noted,     \* Redis: last_submitted_snapshot_data_key
    built,     \* Redis: SNAPSHOT_BUILD, of types (failures) and projects
    submitted  \* Redis: SNAPSHOT_SUBMIT_COLLECTOR

task == <<stage, todo, current, list, outcome, paid>>
messages == <<queue, events>>
redis == <<raw, noted, built, submitted>>
world == <<stored, sent>>
vars == <<task, messages, redis, world>>

Stages == {"none", "build", "read", "upload", "submit", "note",
           "over", "lost"}
Running == Stages \ {"none", "over", "lost"}
Verdicts == {"none", "success", "failed"}

\* Mutant: the message carries the task type in the place of the project.
SnapshotOfType(j, p) == [project |-> j.type, from |-> j.from, epoch |-> j.epoch]

\* The snapshot a job commits for a project.
SnapshotOf(j, p) == [project |-> p, from |-> j.from, epoch |-> j.epoch]
Current(j) == SnapshotOf(j, current[j])

TypeOK ==
    /\ queue \subseteq Jobs
    /\ stage \in [Jobs -> Stages]
    /\ todo \in [Jobs -> SUBSET Projects]
    /\ current \in [Jobs -> Projects \cup {None}]
    /\ list \in [Jobs -> Seq(Snapshots)]
    /\ outcome \in [Jobs -> {"none", "success", "failed"}]
    /\ paid \in [Jobs -> SUBSET Snapshots]
    /\ events \subseteq Events
    /\ stored \in [Snapshots -> Seq(Snapshots) \cup {None}]
    /\ sent \subseteq Snapshots
    /\ raw \in [Projects -> Snapshots \cup {None}]
    /\ noted \in [Projects -> Snapshots \cup {None}]
    /\ built \in [(Types \cup Projects) \X Epochs -> Verdicts]
    /\ submitted \in [Projects \X Epochs -> Verdicts]

Init ==
    /\ queue = {j \in Jobs : j.type = j.from}
    /\ stage = [j \in Jobs |-> "none"]
    /\ todo = [j \in Jobs |-> {}]
    /\ current = [j \in Jobs |-> None]
    /\ list = [j \in Jobs |-> <<>>]
    /\ outcome = [j \in Jobs |-> "none"]
    /\ paid = [j \in Jobs |-> {}]
    /\ events = {}
    /\ stored = [c \in Snapshots |-> IF c \in Foreign THEN ListOf[c] ELSE None]
    /\ sent = {}
    /\ raw = [p \in Projects |-> None]
    /\ noted = [p \in Projects |-> None]
    /\ built = [k \in (Types \cup Projects) \X Epochs |-> "none"]
    /\ submitted = [k \in Projects \X Epochs |-> "none"]

-----------------------------------------------------------------------------
(* A job: handle_event, _process_task and _process.                        *)

\* The message is acknowledged when the task has been created; what compute
\* will return is chosen here.
Take(j) ==
    /\ j \in queue
    /\ Cardinality({k \in Jobs : stage[k] \in Running}) < MaxRunning
    /\ queue' = queue \ {j}
    /\ UNCHANGED <<current, list, outcome, paid, events, raw, noted, submitted, world>>

Simulated(j) == j.type \in Aggregators /\ j.epoch = 0

\* An aggregator skips the epoch of the simulation.
Skip(j) ==
    /\ Take(j)
    /\ Simulated(j)
    /\ stage' = [stage EXCEPT ![j] = "over"]
    /\ UNCHANGED <<todo, built>>

\* compute raises, or returns nothing, which fails an aggregator only.
ComputeNothing(j) ==
    /\ Take(j)
    /\ ~Simulated(j)
    /\ stage' = [stage EXCEPT ![j] = "over"]
    /\ \/ built' = [built EXCEPT ![<<j.type, j.epoch>>] = "failed"]
       \/ j.type \in Bases /\ UNCHANGED built
    /\ UNCHANGED todo

Compute(j, ps) ==
    /\ Take(j)
    /\ ~Simulated(j)
    /\ ps # {}
    /\ \A p \in ps : TypeOf[p] = j.type
    /\ stage' = [stage EXCEPT ![j] = "build"]
    /\ todo' = [todo EXCEPT ![j] = ps]
    /\ UNCHANGED built

Build(j, p) ==
    /\ stage[j] = "build"
    /\ p \in todo[j]
    /\ todo' = [todo EXCEPT ![j] = @ \ {p}]
    /\ current' = [current EXCEPT ![j] = p]
    /\ built' = [built EXCEPT ![<<p, j.epoch>>] = "success"]
    /\ stage' = [stage EXCEPT ![j] = IF j.type \in Keeping THEN "read" ELSE "upload"]
    /\ UNCHANGED <<list, outcome, paid, messages, raw, noted, submitted,
                   world>>

-----------------------------------------------------------------------------
(* _get_last_snapshot and the list of previous snapshots _commit_payload   *)
(* makes of it.                                                            *)

\* Mutant: a full list is cut one entry too late.
ChainedLate(c) ==
    Append(IF Len(stored[c]) > Window THEN Tail(stored[c]) ELSE stored[c], c)

\* The list of the last snapshot, without its first entry when it is full,
\* and the last snapshot.
Chained(c) ==
    Append(IF Len(stored[c]) >= Window THEN Tail(stored[c]) ELSE stored[c], c)

\* An epoch id of 0 reads as a missing one.
Usable(p) == raw[p] # None /\ raw[p].epoch # 0

ReadNone(j) ==
    /\ stage' = [stage EXCEPT ![j] = "upload"]
    /\ UNCHANGED <<todo, current, list, outcome, paid, messages, redis,
                   world>>

UseLast(j, c) ==
    /\ stage[j] = "read"
    /\ c # None
    /\ list' = [list EXCEPT ![j] = Chained(c)]
    /\ stage' = [stage EXCEPT ![j] = "upload"]
    /\ UNCHANGED <<todo, current, outcome, paid, messages, redis, world>>

ReadRaw(j) ==
    /\ stage[j] = "read"
    /\ Usable(current[j])
    /\ UseLast(j, raw[current[j]])

\* What the cacher noted, read back from IPFS.
ReadNoted(j) ==
    /\ stage[j] = "read"
    /\ ~Usable(current[j])
    /\ UseLast(j, noted[current[j]])

\* Nothing noted, or IPFS does not give it: the snapshot the chain finalized
\* last, one the collector got from this node or from another, or none.
ReadFinal(j) ==
    /\ stage[j] = "read"
    /\ ~Usable(current[j])
    /\ \/ \E c \in sent \cup Foreign : c.project = current[j] /\ UseLast(j, c)
       \/ ReadNone(j)

-----------------------------------------------------------------------------
(* _commit_payload: upload, announce, submit, record; then _process goes   *)
(* on to the next project or, after the last one, announces what is paid.  *)

\* Mutant: the completion goes out with nothing submitted.
ContinueUnpaid(j, payload) ==
    /\ stage' = [stage EXCEPT ![j] = IF todo[j] = {} THEN "over" ELSE "build"]
    /\ events' = IF todo[j] = {}
                 THEN events \cup {[kind |-> "ProcessingComplete", job |-> j,
                                    payload |-> payload]}
                 ELSE events
    /\ paid' = [paid EXCEPT ![j] = payload]
    /\ current' = [current EXCEPT ![j] = None]
    /\ list' = [list EXCEPT ![j] = <<>>]
    /\ outcome' = [outcome EXCEPT ![j] = "none"]

\* Mutant: the end of the projects is not seen.
ContinueForEver(j, payload) ==
    /\ stage' = [stage EXCEPT ![j] = "build"]
    /\ paid' = [paid EXCEPT ![j] = payload]
    /\ current' = [current EXCEPT ![j] = None]
    /\ list' = [list EXCEPT ![j] = <<>>]
    /\ outcome' = [outcome EXCEPT ![j] = "none"]
    /\ UNCHANGED events

Continue(j, payload) ==
    /\ stage' = [stage EXCEPT ![j] = IF todo[j] = {} THEN "over" ELSE "build"]
    /\ events' = IF todo[j] = {} /\ payload # {}
                 THEN events \cup {[kind |-> "ProcessingComplete", job |-> j,
                                    payload |-> payload]}
                 ELSE events
    /\ paid' = [paid EXCEPT ![j] = payload]
    /\ current' = [current EXCEPT ![j] = None]
    /\ list' = [list EXCEPT ![j] = <<>>]
    /\ outcome' = [outcome EXCEPT ![j] = "none"]

\* Mutant: a failed upload falls through to the announcement.
UploadUnchecked(j) ==
    /\ stage[j] = "upload"
    /\ Cardinality(events) < MaxPending
    /\ \/ stored' = [stored EXCEPT ![Current(j)] = list[j]]
       \/ UNCHANGED stored
    /\ events' = events \cup {[kind |-> "SnapshotSubmitted", snapshot |-> Current(j)]}
    /\ stage' = [stage EXCEPT ![j] = "submit"]
    /\ UNCHANGED <<todo, current, list, outcome, paid, queue, redis, sent>>

Upload(j) ==
    /\ stage[j] = "upload"
    /\ Cardinality(events) < MaxPending
    /\ stored' = [stored EXCEPT ![Current(j)] = list[j]]
    /\ events' = events \cup {[kind |-> "SnapshotSubmitted", snapshot |-> Current(j)]}
    /\ stage' = [stage EXCEPT ![j] = "submit"]
    /\ UNCHANGED <<todo, current, list, outcome, paid, queue, redis, sent>>

\* No status tells of it, only a notification.
UploadFails(j) ==
    /\ stage[j] = "upload"
    /\ Continue(j, paid[j])
    /\ UNCHANGED <<todo, queue, redis, world>>

\* send_message: an attempt succeeds; or the last one ends with its stream,
\* which passes for success; or all fail.
Send(j, result) ==
    /\ stage[j] = "submit"
    /\ sent' = sent \cup {Current(j)}
    /\ outcome' = [outcome EXCEPT ![j] = result]
    /\ stage' = [stage EXCEPT ![j] = "note"]
    /\ UNCHANGED <<todo, current, list, paid, messages, redis, stored>>

\* generate_signature raises: nothing is sent.
SignFails(j) ==
    /\ stage[j] = "submit"
    /\ outcome' = [outcome EXCEPT ![j] = "failed"]
    /\ stage' = [stage EXCEPT ![j] = "note"]
    /\ UNCHANGED <<todo, current, list, paid, messages, redis, world>>

\* Mutant: the last submission is stored whatever the collector said.
RecordedAnyway(j) ==
    /\ submitted' = [submitted EXCEPT ![<<current[j], j.epoch>>] = outcome[j]]
    /\ raw' = [raw EXCEPT ![current[j]] = Current(j)]

\* The pipeline that tells how it went.
Recorded(j) ==
    /\ submitted' = [submitted EXCEPT ![<<current[j], j.epoch>>] = outcome[j]]
    /\ raw' = [raw EXCEPT ![current[j]] =
                  IF outcome[j] = "success" THEN Current(j) ELSE @]

\* Only the snapshot worker has a payload.
Record(j) ==
    /\ stage[j] = "note"
    /\ Recorded(j)
    /\ Continue(j, IF outcome[j] = "success" /\ j.type \in Bases
                   THEN paid[j] \cup {Current(j)} ELSE paid[j])
    /\ UNCHANGED <<todo, queue, noted, built, world>>

\* The task ends early: the attempts to find the last snapshot are used up,
\* Redis raises, _cleanup_tasks cancels it, or the worker stops; the pipeline
\* it was waiting for may have run.  Nothing takes the job up again.
Dies(j) ==
    /\ stage[j] \in Running
    /\ Cardinality({k \in Jobs : stage[k] = "lost"}) < MaxLost
    /\ stage' = [stage EXCEPT ![j] = "lost"]
    /\ todo' = [todo EXCEPT ![j] = {}]
    /\ current' = [current EXCEPT ![j] = None]
    /\ list' = [list EXCEPT ![j] = <<>>]
    /\ outcome' = [outcome EXCEPT ![j] = "none"]
    /\ \/ UNCHANGED <<submitted, raw>>
       \/ stage[j] = "note" /\ Recorded(j)
    /\ paid' = [paid EXCEPT ![j] = {}]
    /\ UNCHANGED <<messages, noted, built, world>>

-----------------------------------------------------------------------------
(* process_event and _distribute_callbacks_aggregate of the distributor:   *)
(* an event whose handling raises is logged and gone.                      *)

\* To the cacher, which keeps the last one (its other keys are in Cacher);
\* the two queues on the way reorder as one does.
Forward(m) ==
    /\ m \in events
    /\ m.kind = "SnapshotSubmitted"
    /\ events' = events \ {m}
    /\ noted' = [noted EXCEPT ![m.snapshot.project] = m.snapshot]
    /\ UNCHANGED <<task, queue, raw, built, submitted, world>>

AggregatesOf(j) ==
    {[type |-> a, from |-> j.type, epoch |-> j.epoch] :
        a \in {a \in Aggregators : j.type \in DependsOn[a]}}

FanOut(m) ==
    /\ m \in events
    /\ m.kind = "ProcessingComplete"
    /\ events' = events \ {m}
    /\ queue' = queue \cup AggregatesOf(m.job)
    /\ UNCHANGED <<task, redis, world>>

\* An enqueue raises: the aggregators after it get nothing.
HandlingFails(m) ==
    /\ m \in events
    /\ events' = events \ {m}
    /\ \E js \in SUBSET IF m.kind = "ProcessingComplete" THEN AggregatesOf(m.job) ELSE {} :
          queue' = queue \cup js
    /\ UNCHANGED <<task, redis, world>>

-----------------------------------------------------------------------------
Start(j) == Skip(j) \/ ComputeNothing(j) \/ \E ps \in SUBSET Projects : Compute(j, ps)

Advance(j) ==
    \/ \E p \in Projects : Build(j, p)
    \/ ReadRaw(j)
    \/ ReadNoted(j)
    \/ ReadFinal(j)
    \/ Upload(j)
    \/ UploadFails(j)
    \/ \E result \in {"success", "failed"} : Send(j, result)
    \/ SignFails(j)
    \/ Record(j)

HandleEvent == \E m \in events : Forward(m) \/ FanOut(m) \/ HandlingFails(m)

Next ==
    \/ \E j \in Jobs : Start(j) \/ Advance(j) \/ Dies(j)
    \/ HandleEvent

\* The event loop runs every task that can go on, and its attempts end; the
\* workers take the messages of their queues and the distributor its own.
Fairness ==
    /\ \A j \in Jobs : WF_task(Start(j)) /\ WF_task(Advance(j))
    /\ WF_vars(HandleEvent)

Spec == Init /\ [][Next]_vars /\ Fairness

-----------------------------------------------------------------------------
(* Properties *)

Entries(s) == {s[i] : i \in DOMAIN s}

\* Whatever names a snapshot can be resolved: what is announced, submitted,
\* recorded, noted or listed as a predecessor is on IPFS.
NamesResolve ==
    \A c \in {m.snapshot : m \in {n \in events : n.kind = "SnapshotSubmitted"}}
                 \cup sent
                 \cup {raw[p] : p \in Projects} \cup {noted[p] : p \in Projects}
                 \cup (UNION {Entries(stored[d]) : d \in {d \in Snapshots : stored[d] # None}})
                 \cup (UNION {Entries(list[j]) : j \in Jobs}) :
        c # None => stored[c] # None

\* The list of a snapshot is of its project, has at most Window entries and
\* none twice, nor the snapshot itself, whatever the order in which the jobs
\* of the project commit and record.  (An epoch can come twice: a node that
\* is late finds its own epoch finalized from another node's snapshot.)
ChainsHaveNoRepeats ==
    \A c \in Snapshots : stored[c] # None =>
        LET s == stored[c]
        IN /\ Len(s) <= Window
           /\ \A i \in DOMAIN s :
                 /\ s[i] # c
                 /\ s[i].project = c.project
                 /\ \A k \in DOMAIN s : s[i] = s[k] => i = k

\* A success in the status of a project, the data of a last submission and
\* the payload of a completion stand for snapshots that were sent to the
\* collector; a status of any kind for one that was built and stored.
VerdictsAreEarned ==
    /\ \A p \in Projects : raw[p] # None => raw[p] \in sent
    /\ \A j \in Jobs : paid[j] \subseteq sent
    /\ \A p \in Projects, e \in Epochs :
          LET ofTheEpoch == {c \in Snapshots : c.project = p /\ c.epoch = e}
          IN /\ submitted[<<p, e>>] # "none" =>
                   /\ built[<<p, e>>] = "success"
                   /\ \E c \in ofTheEpoch : stored[c] # None
             /\ submitted[<<p, e>>] = "success" =>
                   ofTheEpoch \cap sent # {}

\* An aggregator works on an epoch only after the job of a base type it
\* depends on has come to its end with something submitted, and never on
\* the epoch of the simulation.
AggregatesAreEarned ==
    \A j \in Jobs :
        j.type \in Aggregators /\ (j \in queue \/ stage[j] # "none") =>
            LET base == [j EXCEPT !.type = j.from]
            IN /\ j.from \in DependsOn[j.type]
               /\ stage[base] = "over"
               /\ paid[base] # {}
               /\ stage[j] \in Running => j.epoch # 0

\* The work on an epoch comes to rest: every job handed to a worker for it
\* comes to its end or is lost with its task, however many projects it commits
\* and whatever fails for one of them.
JobsEnd ==
    \A e \in Epochs :
        (\E j \in queue : j.epoch = e) ~>
            \A j \in Jobs : j.epoch = e => j \notin queue /\ stage[j] \notin Running
=============================================================================
