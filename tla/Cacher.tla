-------------------------------- MODULE Cacher --------------------------------
(***************************************************************************)
(* The cacher (snapshotter/cacher.py): one process that consumes the       *)
(* snapshot events from its Dramatiq queue, turns each one into an asyncio *)
(* task, and keeps in Redis, per project, the entries of its epochs, the   *)
(* last finalized and last submitted epochs, and an expiry index that an   *)
(* hourly loop empties.                                                    *)
(*                                                                         *)
(* Abstractions: an entry is its status; time is the passage of an entry   *)
(* from "fresh" to "due"; process_snapshot_cid, which a task spawns, and   *)
(* the lookup of a finalized CID by a worker or the API are reduced to     *)
(* what they write here: the entry asked for and those of the epochs that  *)
(* its snapshot lists, which may be any (the list of a node that is late   *)
(* names its own epoch and later ones).  Redis pipelines are MULTI/EXEC    *)
(* transactions, hence one step.  A delivered message is gone from the     *)
(* queue (handle_event returns as soon as the task exists); publishing it  *)
(* again stands for a redelivery.                                          *)
(***************************************************************************)
EXTENDS Integers

CONSTANTS Projects,
          MaxEpoch,     \* bound: epochs are 1..MaxEpoch, 0 is no epoch
          Tasks,        \* bound: slots for the concurrent tasks of the loop
          Traffic,      \* the messages that may be published
          LookedUp,     \* bound: projects that are looked up on chain
          Fetched,      \* bound: entries whose CID is looked up on chain
          MaxSent       \* bound on publications

Epochs == 1..MaxEpoch
Entries == Projects \X Epochs

Message == [kind : {"submitted", "finalized", "batch"},
            projects : SUBSET Projects \ {{}}, epoch : Epochs]

ASSUME CacherAssumption ==
    /\ MaxEpoch \in Nat \ {0}
    /\ Traffic \subseteq Message
    /\ \A m \in Traffic : m.kind # "batch" => \E p \in Projects : m.projects = {p}
    /\ LookedUp \subseteq Projects
    /\ Fetched \subseteq Entries
    /\ MaxSent \in Nat

VARIABLES
    lastFinalized,   \* Redis: project_last_finalized_epoch_hmap, 0 = no field
    lastSubmitted,   \* Redis: last_submitted_snapshot_data_key, 0 = no key
    data,            \* Redis: project_data_hmap of every project
    expiry,          \* Redis: data_expiry_zset
    queue,           \* Dramatiq: messages waiting
    sent,            \* history: number of publications
    published,       \* history: messages ever published
    step,            \* where each task is
    job,             \* the message of each task
    todo,            \* projects whose last finalized epoch it has still to read
    seen,            \* the last finalized epochs it has read
    resolving,       \* entries whose process_snapshot_cid task is running
    asking,          \* projects a worker or the API is looking up on chain
    answer,          \* what the chain answered, 0 = not yet
    fetching,        \* entries whose CID a worker or the API is looking up
    doomed,          \* expired entries the cleanup loop has listed
    best,            \* history: newest epoch written as last finalized
    raced,           \* history: projects with overlapping read-modify-writes
    absent           \* history: entries cleaned up, or named by the chain alone

redis == <<lastFinalized, lastSubmitted, data, expiry>>
broker == <<queue, sent, published>>
tasks == <<step, job, todo, seen, resolving>>
lookups == <<asking, answer, fetching>>
history == <<best, raced, absent>>
vars == <<redis, broker, tasks, lookups, doomed, history>>

NoJob == [kind |-> "none", projects |-> {}, epoch |-> 0]
NoneSeen == [p \in Projects |-> 0]

\* The status of an entry written by a CID lookup is what the chain says; it
\* is an "answer", or a "half" one when the lookup failed on the way.
Statuses == {"none", "SUBMITTED", "SEQUENCER_FINALIZED", "FINALIZED", "answer", "half"}

TypeOK ==
    /\ lastFinalized \in [Projects -> 0..MaxEpoch]
    /\ lastSubmitted \in [Projects -> 0..MaxEpoch]
    /\ data \in [Entries -> Statuses]
    /\ expiry \in [Entries -> {"none", "fresh", "due"}]
    /\ queue \subseteq published
    /\ published \subseteq Traffic
    /\ sent \in 0..MaxSent
    /\ step \in [Tasks -> {"idle", "fetch", "read", "write"}]
    /\ job \in [Tasks -> published \cup {NoJob}]
    /\ todo \in [Tasks -> SUBSET Projects]
    /\ seen \in [Tasks -> [Projects -> 0..MaxEpoch]]
    /\ resolving \subseteq Entries
    /\ asking \subseteq Projects
    /\ answer \in [Projects -> 0..MaxEpoch]
    /\ fetching \subseteq Fetched
    /\ doomed \subseteq Entries
    /\ best \in [Projects -> 0..MaxEpoch]
    /\ raced \subseteq Projects
    /\ absent \subseteq Entries

Init ==
    /\ lastFinalized = [p \in Projects |-> 0]
    /\ lastSubmitted = [p \in Projects |-> 0]
    /\ data = [x \in Entries |-> "none"]
    /\ expiry = [x \in Entries |-> "none"]
    /\ queue = {}
    /\ sent = 0
    /\ published = {}
    /\ step = [t \in Tasks |-> "idle"]
    /\ job = [t \in Tasks |-> NoJob]
    /\ todo = [t \in Tasks |-> {}]
    /\ seen = [t \in Tasks |-> NoneSeen]
    /\ resolving = {}
    /\ asking = {}
    /\ answer = [p \in Projects |-> 0]
    /\ fetching = {}
    /\ doomed = {}
    /\ best = [p \in Projects |-> 0]
    /\ raced = {}
    /\ absent = {}

Larger(a, b) == IF a > b THEN a ELSE b

\* What the chain may answer for p: it is at least as far as the events.
OnChain(p, e) ==
    \A m \in published : m.kind # "submitted" /\ p \in m.projects => m.epoch <= e

-----------------------------------------------------------------------------
(* Arrival of messages: process_event creates the task of a message.       *)

Publish(m) ==
    /\ sent < MaxSent
    /\ sent' = sent + 1
    /\ queue' = queue \cup {m}
    /\ published' = published \cup {m}
    /\ UNCHANGED <<redis, tasks, lookups, doomed, history>>

HandleEvent(m, t) ==
    /\ m \in queue
    /\ step[t] = "idle"
    /\ queue' = queue \ {m}
    /\ job' = [job EXCEPT ![t] = m]
    /\ step' = [step EXCEPT ![t] = IF m.kind = "batch" THEN "fetch" ELSE "read"]
    /\ todo' = [todo EXCEPT ![t] = IF m.kind = "submitted" THEN {} ELSE m.projects]
    /\ UNCHANGED <<redis, sent, published, seen, resolving, lookups, doomed, history>>

EntriesOf(m) == m.projects \X {m.epoch}

\* HSET of the entries and ZADD of their expiry, in one pipeline.
Put(entries, status) ==
    /\ data' = [x \in Entries |-> IF x \in entries THEN status ELSE data[x]]
    /\ expiry' = [x \in Entries |-> IF x \in entries THEN "fresh" ELSE expiry[x]]

\* A task ends and frees its slot.
EndTask(t) ==
    /\ step' = [step EXCEPT ![t] = "idle"]
    /\ job' = [job EXCEPT ![t] = NoJob]
    /\ todo' = [todo EXCEPT ![t] = {}]
    /\ seen' = [seen EXCEPT ![t] = NoneSeen]

\* Any await of a task can raise: Redis and RPC errors, and the cancellation
\* of a task that timed out.
TaskFails(t) ==
    /\ step[t] # "idle"
    /\ EndTask(t)
    /\ UNCHANGED <<redis, broker, resolving, lookups, doomed, history>>

-----------------------------------------------------------------------------
(* _process_snapshot_submitted_message *)

\* Mutant: the last submitted epoch is stored outside the pipeline.
ReadSubmittedEager(t) ==
    /\ step[t] = "read"
    /\ job[t].kind = "submitted"
    /\ resolving' = resolving \cup EntriesOf(job[t])
    /\ lastSubmitted' = [p \in Projects |->
           IF p \in job[t].projects THEN job[t].epoch ELSE lastSubmitted[p]]
    /\ step' = [step EXCEPT ![t] = "write"]
    /\ UNCHANGED <<lastFinalized, data, expiry, broker, job, todo, seen, lookups,
                   doomed, history>>

\* Reads the last submission, whose value it then ignores.
ReadSubmitted(t) ==
    /\ step[t] = "read"
    /\ job[t].kind = "submitted"
    /\ resolving' = resolving \cup EntriesOf(job[t])
    /\ step' = [step EXCEPT ![t] = "write"]
    /\ UNCHANGED <<redis, broker, job, todo, seen, lookups, doomed, history>>

WriteSubmitted(t) ==
    /\ step[t] = "write"
    /\ job[t].kind = "submitted"
    /\ Put(EntriesOf(job[t]), "SUBMITTED")
    /\ lastSubmitted' = [p \in Projects |->
           IF p \in job[t].projects THEN job[t].epoch ELSE lastSubmitted[p]]
    /\ EndTask(t)
    /\ UNCHANGED <<lastFinalized, broker, resolving, lookups, doomed, history>>

-----------------------------------------------------------------------------
(* The read-modify-write of the last finalized epoch, common to finalized  *)
(* events, batches, and the lookups of other processes.                    *)

\* The task has read p's last finalized epoch and not written it back.
Holds(t, p) ==
    /\ step[t] \in {"read", "write"}
    /\ job[t].kind # "submitted"
    /\ p \in job[t].projects \ todo[t]

Contended(p) == p \in asking \/ \E t \in Tasks : Holds(t, p)

ReadLast(t, p) ==
    /\ seen' = [seen EXCEPT ![t] = [@ EXCEPT ![p] = lastFinalized[p]]]
    /\ todo' = [todo EXCEPT ![t] = @ \ {p}]
    /\ raced' = IF Contended(p) THEN raced \cup {p} ELSE raced

\* Mutant: the new epoch is stored whatever was there.
NewLastBlind(t, p) == job[t].epoch

\* Mutant: the epoch after the finalized one is stored.
NewLastNext(t, p) == Larger(seen[t][p], job[t].epoch + 1)

\* "use max of current and new"
NewLast(t, p) == Larger(seen[t][p], job[t].epoch)

\* Mutant: the pointer goes out at once, the entries with the pipeline.
StoreLastOnly(t) ==
    /\ lastFinalized' = [p \in Projects |->
           IF p \in job[t].projects THEN NewLast(t, p) ELSE lastFinalized[p]]
    /\ best' = [p \in Projects |->
           IF p \in job[t].projects THEN Larger(best[p], job[t].epoch) ELSE best[p]]
    /\ UNCHANGED <<data, expiry>>

\* The pipeline of a finalized event or batch.
StoreFinalized(t, status) ==
    /\ lastFinalized' = [p \in Projects |->
           IF p \in job[t].projects THEN NewLast(t, p) ELSE lastFinalized[p]]
    /\ best' = [p \in Projects |->
           IF p \in job[t].projects THEN Larger(best[p], job[t].epoch) ELSE best[p]]
    /\ Put(EntriesOf(job[t]), status)

-----------------------------------------------------------------------------
(* _process_snapshot_finalized_message *)

ReadFinalized(t, p) ==
    /\ step[t] = "read"
    /\ job[t].kind = "finalized"
    /\ p \in todo[t]
    /\ ReadLast(t, p)
    /\ step' = [step EXCEPT ![t] = "write"]
    /\ UNCHANGED <<redis, broker, job, resolving, lookups, doomed, best,
                   absent>>

\* Mutant: the entry is left to a later, separate call.
WriteFinalizedPartly(t) ==
    /\ step[t] = "write"
    /\ job[t].kind = "finalized"
    /\ StoreLastOnly(t)
    /\ EndTask(t)
    /\ UNCHANGED <<lastSubmitted, broker, resolving, lookups, doomed, raced,
                   absent>>

WriteFinalized(t) ==
    /\ step[t] = "write"
    /\ job[t].kind = "finalized"
    /\ StoreFinalized(t, "FINALIZED")
    /\ EndTask(t)
    /\ UNCHANGED <<lastSubmitted, broker, resolving, lookups, doomed, raced,
                   absent>>

-----------------------------------------------------------------------------
(* _process_snapshot_batch_submitted_message *)

\* The transaction of the batch is fetched and decoded.
FetchBatch(t) ==
    /\ step[t] = "fetch"
    /\ step' = [step EXCEPT ![t] = "read"]
    /\ UNCHANGED <<redis, broker, job, todo, seen, resolving, lookups, doomed, history>>

\* One project of the loop: its snapshot is resolved in a task of its own.
ReadBatch(t, p) ==
    /\ step[t] = "read"
    /\ job[t].kind = "batch"
    /\ p \in todo[t]
    /\ resolving' = resolving \cup {<<p, job[t].epoch>>}
    /\ ReadLast(t, p)
    /\ step' = IF todo[t] = {p} THEN [step EXCEPT ![t] = "write"] ELSE step
    /\ UNCHANGED <<redis, broker, job, lookups, doomed, best, absent>>

\* Mutant: the pipeline is executed inside the loop, once per project.
WriteBatchSplit(t) ==
    \E p \in job[t].projects :
        /\ step[t] \in {"read", "write"}
        /\ job[t].kind = "batch"
        /\ Put({<<p, job[t].epoch>>}, "SEQUENCER_FINALIZED")
        /\ EndTask(t)
        /\ UNCHANGED <<lastFinalized, lastSubmitted, broker, resolving, lookups, doomed,
                       best, raced, absent>>

WriteBatch(t) ==
    /\ step[t] = "write"
    /\ job[t].kind = "batch"
    /\ StoreFinalized(t, "SEQUENCER_FINALIZED")
    /\ EndTask(t)
    /\ UNCHANGED <<lastSubmitted, broker, resolving, lookups, doomed, raced,
                   absent>>

-----------------------------------------------------------------------------
(* process_snapshot_cid, seen from here: the entries of the epochs that a  *)
(* snapshot lists are written as SUBMITTED, level by level.  A task of the *)
(* cacher spawns it, a CID lookup calls it.                                *)

Siblings(x) == {y \in Entries : y[1] = x[1]}

\* Mutant: the entries get no expiry.
ResolveWriteForever(x) ==
    /\ x \in resolving \cup fetching
    /\ \E found \in SUBSET Siblings(x) \ {{}} :
           data' = [y \in Entries |-> IF y \in found THEN "SUBMITTED" ELSE data[y]]
    /\ UNCHANGED <<lastFinalized, lastSubmitted, expiry, broker, tasks, lookups,
                   doomed, history>>

ResolveWrite(x) ==
    /\ x \in resolving \cup fetching
    /\ \E found \in SUBSET Siblings(x) \ {{}} : Put(found, "SUBMITTED")
    /\ UNCHANGED <<lastFinalized, lastSubmitted, broker, tasks, lookups, doomed, history>>

\* It ends: done, nothing to do, an error, or cancelled.
ResolveDone(x) ==
    /\ x \in resolving
    /\ resolving' = resolving \ {x}
    /\ UNCHANGED <<redis, broker, step, job, todo, seen, lookups, doomed, history>>

-----------------------------------------------------------------------------
(* get_project_last_finalized_epoch, called by the workers and the API: an *)
(* empty field is filled from the chain.  One lookup per project at a time.*)

LookupStart(p) ==
    /\ p \notin asking
    /\ lastFinalized[p] = 0
    /\ asking' = asking \cup {p}
    /\ raced' = IF Contended(p) THEN raced \cup {p} ELSE raced
    /\ UNCHANGED <<redis, broker, tasks, answer, fetching, doomed, best, absent>>

\* Nothing is finalized yet, or a call fails.
LookupFails(p) ==
    /\ p \in asking
    /\ asking' = asking \ {p}
    /\ answer' = [answer EXCEPT ![p] = 0]
    /\ UNCHANGED <<redis, broker, tasks, fetching, doomed, history>>

LookupAnswer(p, e) ==
    /\ p \in asking
    /\ answer[p] = 0
    /\ OnChain(p, e)
    /\ answer' = [answer EXCEPT ![p] = e]
    /\ UNCHANGED <<redis, broker, tasks, asking, fetching, doomed, history>>

LookupWrite(p) ==
    /\ p \in asking
    /\ answer[p] # 0
    /\ lastFinalized' = [lastFinalized EXCEPT ![p] = answer[p]]
    /\ best' = [best EXCEPT ![p] = Larger(@, answer[p])]
    /\ absent' = absent \cup {<<p, answer[p]>>}
    /\ asking' = asking \ {p}
    /\ answer' = [answer EXCEPT ![p] = 0]
    /\ UNCHANGED <<lastSubmitted, data, expiry, broker, tasks, fetching, doomed, raced>>

-----------------------------------------------------------------------------
(* w3_get_and_cache_finalized_cid, called by the workers and the API for an *)
(* epoch that has neither entry nor blank bit.  Its retries start it again.  *)

CidStart(x) ==
    /\ x \notin fetching
    /\ data[x] = "none"
    /\ fetching' = fetching \cup {x}
    /\ UNCHANGED <<redis, broker, tasks, asking, answer, doomed, history>>

\* Still pending, blank (a bit, outside this model), or an error of a call.
CidEnds(x) ==
    /\ x \in fetching
    /\ fetching' = fetching \ {x}
    /\ UNCHANGED <<redis, broker, tasks, asking, answer, doomed, history>>

\* The pipeline: the entry, those its snapshot lists, and their expiry.
CidWrite(x) ==
    /\ x \in fetching
    /\ fetching' = fetching \ {x}
    /\ \E listed \in SUBSET Siblings(x) : Put({x} \cup listed, "answer")
    /\ UNCHANGED <<lastFinalized, lastSubmitted, broker, tasks, asking, answer, doomed,
                   history>>

\* Reading the list or setting the blank bits failed: the handler executes
\* what the pipeline holds by then, the HSETs and not yet the ZADD.
CidCutShort(x) ==
    /\ x \in fetching
    /\ fetching' = fetching \ {x}
    /\ \E listed \in SUBSET Siblings(x) :
           data' = [y \in Entries |-> IF y \in {x} \cup listed THEN "half" ELSE data[y]]
    /\ UNCHANGED <<lastFinalized, lastSubmitted, expiry, broker, tasks, asking, answer,
                   doomed, history>>

-----------------------------------------------------------------------------
(* Expiry and _cleanup_expired_project_data. *)

Age(x) ==
    /\ expiry[x] = "fresh"
    /\ expiry' = [expiry EXCEPT ![x] = "due"]
    /\ UNCHANGED <<lastFinalized, lastSubmitted, data, broker, tasks, lookups, doomed,
                   history>>

\* zrangebyscore up to now
ListExpired ==
    /\ doomed = {}
    /\ doomed' = {x \in Entries : expiry[x] = "due"}
    /\ doomed' # {}
    /\ UNCHANGED <<redis, broker, tasks, lookups, history>>

\* Mutant: only the index is cleaned.
DeleteExpiredIndex ==
    /\ doomed # {}
    /\ expiry' = [x \in Entries |-> IF x \in doomed THEN "none" ELSE expiry[x]]
    /\ absent' = absent \cup doomed
    /\ doomed' = {}
    /\ UNCHANGED <<lastFinalized, lastSubmitted, data, broker, tasks, lookups, best,
                   raced>>

\* The pipeline of HDELs and the ZREM.
DeleteExpired ==
    /\ doomed # {}
    /\ data' = [x \in Entries |-> IF x \in doomed THEN "none" ELSE data[x]]
    /\ expiry' = [x \in Entries |-> IF x \in doomed THEN "none" ELSE expiry[x]]
    /\ absent' = absent \cup doomed
    /\ doomed' = {}
    /\ UNCHANGED <<lastFinalized, lastSubmitted, broker, tasks, lookups, best,
                   raced>>

\* The loop logs the error and tries again an hour later.
CleanupFails ==
    /\ doomed # {}
    /\ doomed' = {}
    /\ UNCHANGED <<redis, broker, tasks, lookups, history>>

\* The process dies and is started again: Redis and the queue remain.
Crash ==
    /\ step' = [t \in Tasks |-> "idle"]
    /\ job' = [t \in Tasks |-> NoJob]
    /\ todo' = [t \in Tasks |-> {}]
    /\ seen' = [t \in Tasks |-> NoneSeen]
    /\ resolving' = {}
    /\ doomed' = {}
    /\ UNCHANGED <<redis, broker, lookups, best, raced, absent>>

-----------------------------------------------------------------------------
Next ==
    \/ \E m \in Traffic : Publish(m)
    \/ \E m \in Traffic, t \in Tasks : HandleEvent(m, t)
    \/ \E t \in Tasks : \/ TaskFails(t)
                        \/ ReadSubmitted(t)
                        \/ WriteSubmitted(t)
                        \/ WriteFinalized(t)
                        \/ FetchBatch(t)
                        \/ WriteBatch(t)
    \/ \E t \in Tasks, p \in Projects : ReadFinalized(t, p) \/ ReadBatch(t, p)
    \/ \E x \in Entries : ResolveWrite(x) \/ ResolveDone(x) \/ Age(x)
    \/ \E p \in LookedUp : \/ LookupStart(p)
                           \/ LookupFails(p)
                           \/ LookupWrite(p)
                           \/ \E e \in Epochs : LookupAnswer(p, e)
    \/ \E x \in Fetched : CidStart(x) \/ CidEnds(x) \/ CidWrite(x) \/ CidCutShort(x)
    \/ ListExpired
    \/ DeleteExpired
    \/ CleanupFails
    \/ Crash

Spec == Init /\ [][Next]_vars

\* The cleanup loop runs for ever, and swallows its errors; not every one of
\* its attempts fails.
Fairness == WF_vars(ListExpired) /\ SF_vars(DeleteExpired)

FairSpec == Spec /\ Fairness

-----------------------------------------------------------------------------
(* Properties *)

\* Whichever of the handlers, resolvers, lookups and the cleanup loop meet on
\* an entry, the expiry index names no ghost, and what is cached for ever is
\* only what a CID lookup wrote before it failed half-way, for as long as
\* nobody else writes that entry again.
EntryHasExpiry ==
    \A x \in Entries :
        /\ data[x] = "none" => expiry[x] = "none"
        /\ data[x] # "none" /\ expiry[x] = "none" => data[x] = "half"

\* "use max of current and new": as long as no two read-modify-writes of a
\* project overlap, its last finalized epoch is the newest one ever stored,
\* in whatever order the events arrive.
LastFinalizedTracksMax ==
    \A p \in Projects : p \notin raced => lastFinalized[p] = best[p]

\* The last finalized epoch of a project names an entry that is there, was
\* cleaned up, or was learnt from the chain: a failed or killed handler
\* leaves no pointer to something that was never stored.
LastFinalizedHasEntry ==
    \A p \in Projects : lastFinalized[p] # 0 =>
        LET x == <<p, lastFinalized[p]>> IN data[x] # "none" \/ x \in absent

\* The same of the last submitted epoch.
LastSubmittedHasEntry ==
    \A p \in Projects : lastSubmitted[p] # 0 =>
        LET x == <<p, lastSubmitted[p]>> IN data[x] # "none" \/ x \in absent

\* A batch is applied to all of its projects or to none: who finds in Redis
\* an entry that a batch wrote finds, or found until the cleanup, those of
\* the other projects, and their last finalized epochs are as far.
BatchIsAtomic ==
    \A x \in Entries :
        data[x] = "SEQUENCER_FINALIZED" =>
            \E m \in published :
                /\ m.kind = "batch" /\ x \in EntriesOf(m)
                /\ \A y \in EntriesOf(m) :
                      /\ data[y] # "none" \/ y \in absent
                      /\ y[1] \notin raced => lastFinalized[y[1]] >= y[2]

\* An entry whose time is over is eventually removed, or written again.
ExpiredEntriesGo ==
    \A x \in Entries :
        expiry[x] = "due" ~> data[x] = "none" \/ expiry[x] = "fresh"

\* cacher.py: "use max of current and new", read as a promise about the
\* stored value.
LastFinalizedNeverDecreases ==
    [][\A p \in Projects : lastFinalized'[p] >= lastFinalized[p]]_vars

\* _cleanup_expired_project_data: it removes the entries "that have exceeded
\* their TTL".
CleanupRemovesOnlyExpired ==
    [][\A x \in Entries :
           data[x] # "none" /\ data'[x] = "none" => expiry[x] = "due"]_vars
=============================================================================
