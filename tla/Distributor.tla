----------------------------- MODULE Distributor -----------------------------
(***************************************************************************)
(* The processor distributor (snapshotter/processor_distributor.py): for   *)
(* every EpochReleased event it sends the snapshot jobs of the projects,   *)
(* those without preloaders at once, the others when the preloaders they   *)
(* need have succeeded for the epoch.                                      *)
(*                                                                         *)
(* Several events are handled concurrently by tasks of one asyncio loop,   *)
(* which meet in _preload_completion_conditions; an epoch can be released  *)
(* again (the event detector repeats itself after a restart).  The tasks   *)
(* of a release are named by the release.                                  *)
(*                                                                         *)
(* Abstractions: the preloaders of a release have one outcome, the set     *)
(* that succeeded, chosen when the gather returns; the projects are served *)
(* in any order; the code between two awaits is one step.                  *)
(***************************************************************************)
EXTENDS Integers, FiniteSets

CONSTANTS Projects,
          Preloaders,
          Needs,         \* Needs[p]: the preload_tasks of the project p
          MaxEpoch,      \* bound: epochs are 1..MaxEpoch
          Keep,          \* epochs whose status is kept (30 in the code)
          MaxReleases    \* bound on the EpochReleased events

ASSUME DistributorAssumption ==
    /\ Needs \in [Projects -> SUBSET Preloaders]
    /\ MaxEpoch \in Nat \ {0}
    /\ Keep \in Nat \ {0}
    /\ MaxReleases \in Nat

Epochs == 1..MaxEpoch
Releases == 1..MaxReleases
Gated == {p \in Projects : Needs[p] # {}}

\* No entry in _preload_completion_conditions, and an entry that is the
\* empty dictionary; otherwise the release whose coroutines are in it.
None == 0
Empty == -1

VARIABLES
    released,    \* number of releases handled
    epochOf,     \* the epoch of each of them, 0 = not released yet
    stage,       \* where its exec_preloaders and preloader_waiter are
    direct,      \* projects whose job its own tasks have still to send
    conds,       \* _preload_completion_conditions
    held,        \* the conditions its waiter gathers
    okBy,        \* the preloaders its waiter saw succeed
    left,        \* the projects its waiter has not looked at yet
    toForget,    \* epochs whose status keys a cleanup task is to delete
    verdict,     \* Redis: the PRELOAD status of the projects, per epoch
    sent,        \* history: snapshot jobs enqueued for a project and epoch
    decided,     \* history: what each waiter has served or refused
    forgotten    \* history: epochs whose status was deleted

memory == <<stage, direct, conds, held, okBy, left, toForget>>
vars == <<released, epochOf, memory, verdict, sent, decided, forgotten>>

Units == Projects \X Epochs

TypeOK ==
    /\ released \in 0..MaxReleases
    /\ epochOf \in [Releases -> 0..MaxEpoch]
    /\ stage \in [Releases -> {"none", "exec", "start", "gather", "serve",
                               "over", "failed"}]
    /\ direct \in [Releases -> SUBSET Projects]
    /\ conds \in [Epochs -> Releases \cup {None, Empty}]
    /\ held \in [Releases -> Releases \cup {None, Empty}]
    /\ okBy \in [Releases -> SUBSET Preloaders]
    /\ left \in [Releases -> SUBSET Gated]
    /\ toForget \subseteq Epochs
    /\ verdict \in [Units -> {"none", "success", "failed"}]
    /\ sent \in [Units -> Nat]
    /\ decided \subseteq Releases \X Gated
    /\ forgotten \subseteq Epochs

Init ==
    /\ released = 0
    /\ epochOf = [n \in Releases |-> 0]
    /\ stage = [n \in Releases |-> "none"]
    /\ direct = [n \in Releases |-> {}]
    /\ conds = [e \in Epochs |-> None]
    /\ held = [n \in Releases |-> None]
    /\ okBy = [n \in Releases |-> {}]
    /\ left = [n \in Releases |-> {}]
    /\ toForget = {}
    /\ verdict = [u \in Units |-> "none"]
    /\ sent = [u \in Units |-> 0]
    /\ decided = {}
    /\ forgotten = {}

-----------------------------------------------------------------------------
(* process_event and _epoch_release_processor: one call creates the tasks  *)
(* of the release and of the cleanup.                                      *)

HandleRelease(e) ==
    LET n == released + 1
    IN /\ n \in Releases
       /\ released' = n
       /\ epochOf' = [epochOf EXCEPT ![n] = e]
       /\ stage' = [stage EXCEPT ![n] = "exec"]
       /\ direct' = [direct EXCEPT ![n] = Projects \ Gated]
       /\ toForget' = toForget \cup ({e - Keep} \cap Epochs)
       /\ UNCHANGED <<conds, held, okBy, left, verdict, sent, decided, forgotten>>

\* _distribute_callbacks_snapshotting
Enqueue(p, e) == sent' = [sent EXCEPT ![<<p, e>>] = @ + 1]

Distribute(n, p) ==
    /\ p \in direct[n]
    /\ direct' = [direct EXCEPT ![n] = @ \ {p}]
    /\ Enqueue(p, epochOf[n])
    /\ UNCHANGED <<released, epochOf, stage, conds, held, okBy, left, toForget,
                   verdict, decided, forgotten>>

\* The enqueue raises: _handle_task_result logs it.
DistributeFails(n, p) ==
    /\ p \in direct[n]
    /\ direct' = [direct EXCEPT ![n] = @ \ {p}]
    /\ UNCHANGED <<released, epochOf, stage, conds, held, okBy, left, toForget,
                   verdict, sent, decided, forgotten>>

\* _cleanup_older_epoch_status; an error is only returned by its gather.
Forget(e) ==
    /\ e \in toForget
    /\ toForget' = toForget \ {e}
    /\ verdict' = [u \in Units |-> IF u[2] = e THEN "none" ELSE verdict[u]]
    /\ forgotten' = forgotten \cup {e}
    /\ UNCHANGED <<released, epochOf, stage, direct, conds, held, okBy, left, sent,
                   decided>>

ForgetFails(e) ==
    /\ e \in toForget
    /\ toForget' = toForget \ {e}
    /\ UNCHANGED <<released, epochOf, stage, direct, conds, held, okBy, left,
                   verdict, sent, decided, forgotten>>

-----------------------------------------------------------------------------
(* _exec_preloaders: the coroutines are created, not started, and replace  *)
(* those of an earlier release of the epoch.                               *)

ExecPreloaders(n) ==
    /\ stage[n] = "exec"
    /\ stage' = [stage EXCEPT ![n] = "start"]
    /\ conds' = [conds EXCEPT ![epochOf[n]] = n]
    /\ UNCHANGED <<released, epochOf, direct, held, okBy, left, toForget, verdict,
                   sent, decided, forgotten>>

-----------------------------------------------------------------------------
(* _preloader_waiter *)

\* The defaultdict answers an empty dictionary for an epoch it lost.
WaiterStart(n) ==
    LET c == conds[epochOf[n]]
    IN /\ stage[n] = "start"
       /\ stage' = [stage EXCEPT ![n] = "gather"]
       /\ held' = [held EXCEPT ![n] = IF c = None THEN Empty ELSE c]
       /\ conds' = [conds EXCEPT ![epochOf[n]] = IF c = None THEN Empty ELSE c]
       /\ UNCHANGED <<released, epochOf, direct, okBy, left, toForget, verdict,
                      sent, decided, forgotten>>

\* Mutant: the projects without preloaders are not passed over.
ResultsInAll(n, ok) ==
    /\ stage[n] = "gather"
    /\ held[n] = Empty => ok = {}
    /\ stage' = [stage EXCEPT ![n] = "serve"]
    /\ okBy' = [okBy EXCEPT ![n] = ok]
    /\ left' = [left EXCEPT ![n] = Projects]
    /\ UNCHANGED <<released, epochOf, direct, conds, held, toForget, verdict,
                   sent, decided, forgotten>>

\* gather(return_exceptions=True).  Coroutines that two waiters share are
\* awaited twice and may raise for either.
ResultsIn(n, ok) ==
    /\ stage[n] = "gather"
    /\ held[n] = Empty => ok = {}
    /\ stage' = [stage EXCEPT ![n] = "serve"]
    /\ okBy' = [okBy EXCEPT ![n] = ok]
    /\ left' = [left EXCEPT ![n] = Gated]
    /\ UNCHANGED <<released, epochOf, direct, conds, held, toForget, verdict,
                   sent, decided, forgotten>>

\* Mutant: one of the preloaders is enough.
SatisfiedByAny(n, p) == Needs[p] \cap okBy[n] # {}

Satisfied(n, p) == Needs[p] \subseteq okBy[n]

\* Mutant: the job goes out before the status is written, and goes out
\* again when the write is retried.
ServeTwice(n, p) ==
    /\ stage[n] = "serve"
    /\ p \in left[n]
    /\ Satisfied(n, p)
    /\ left' = IF verdict[<<p, epochOf[n]>>] = "success"
                 THEN [left EXCEPT ![n] = @ \ {p}]
                 ELSE left
    /\ verdict' = [verdict EXCEPT ![<<p, epochOf[n]>>] = "success"]
    /\ Enqueue(p, epochOf[n])
    /\ decided' = decided \cup {<<n, p>>}
    /\ UNCHANGED <<released, epochOf, stage, direct, conds, held, okBy, toForget,
                   forgotten>>

\* The status of the project is written, then its job is sent.
Serve(n, p) ==
    /\ stage[n] = "serve"
    /\ p \in left[n]
    /\ Satisfied(n, p)
    /\ left' = [left EXCEPT ![n] = @ \ {p}]
    /\ verdict' = [verdict EXCEPT ![<<p, epochOf[n]>>] = "success"]
    /\ Enqueue(p, epochOf[n])
    /\ decided' = decided \cup {<<n, p>>}
    /\ UNCHANGED <<released, epochOf, stage, direct, conds, held, okBy, toForget,
                   forgotten>>

\* Mutant: nothing is reported when every preloader failed.
RefuseSome(n, p) ==
    /\ stage[n] = "serve"
    /\ p \in left[n]
    /\ ~Satisfied(n, p)
    /\ left' = [left EXCEPT ![n] = @ \ {p}]
    /\ IF okBy[n] = {}
         THEN UNCHANGED <<verdict, decided>>
         ELSE /\ verdict' = [verdict EXCEPT ![<<p, epochOf[n]>>] = "failed"]
              /\ decided' = decided \cup {<<n, p>>}
    /\ UNCHANGED <<released, epochOf, stage, direct, conds, held, okBy, toForget,
                   sent, forgotten>>

Refuse(n, p) ==
    /\ stage[n] = "serve"
    /\ p \in left[n]
    /\ ~Satisfied(n, p)
    /\ left' = [left EXCEPT ![n] = @ \ {p}]
    /\ verdict' = [verdict EXCEPT ![<<p, epochOf[n]>>] = "failed"]
    /\ decided' = decided \cup {<<n, p>>}
    /\ UNCHANGED <<released, epochOf, stage, direct, conds, held, okBy, toForget,
                   sent, forgotten>>

\* Mutant: the entry of the epoch stays.
WaiterEndsKeeping(n) ==
    /\ stage[n] = "serve"
    /\ left[n] = {}
    /\ stage' = [stage EXCEPT ![n] = "over"]
    /\ UNCHANGED <<released, epochOf, direct, conds, held, okBy, left, toForget,
                   verdict, sent, decided, forgotten>>

\* Mutant: the entries of all epochs go.
WaiterEndsClearing(n) ==
    /\ stage[n] = "serve"
    /\ left[n] = {}
    /\ stage' = [stage EXCEPT ![n] = "over"]
    /\ conds' = [e \in Epochs |-> None]
    /\ UNCHANGED <<released, epochOf, direct, held, okBy, left, toForget, verdict,
                   sent, decided, forgotten>>

WaiterEnds(n) ==
    /\ stage[n] = "serve"
    /\ left[n] = {}
    /\ stage' = [stage EXCEPT ![n] = "over"]
    /\ conds' = [conds EXCEPT ![epochOf[n]] = None]
    /\ UNCHANGED <<released, epochOf, direct, held, okBy, left, toForget, verdict,
                   sent, decided, forgotten>>

\* Mutant: the job of a project goes out before its status is written.
WaiterFailsBetween(n) ==
    /\ stage[n] \in {"gather", "serve"}
    /\ stage' = [stage EXCEPT ![n] = "failed"]
    /\ left' = [left EXCEPT ![n] = {}]
    /\ \/ UNCHANGED sent
       \/ \E p \in left[n] : Satisfied(n, p) /\ Enqueue(p, epochOf[n])
    /\ UNCHANGED <<released, epochOf, direct, conds, held, okBy, toForget, verdict,
                   decided, forgotten>>

\* The waiter is cancelled (_cleanup_tasks) or raises: its projects get
\* nothing, the entry of the epoch stays.  It can raise after the status of
\* a project was written and before its job went out, and after a write
\* that Redis applied though its answer was lost.
WaiterFails(n) ==
    /\ stage[n] \in {"gather", "serve"}
    /\ stage' = [stage EXCEPT ![n] = "failed"]
    /\ left' = [left EXCEPT ![n] = {}]
    /\ \/ UNCHANGED verdict
       \/ \E p \in left[n] :
             verdict' = [verdict EXCEPT ![<<p, epochOf[n]>>] =
                            IF Satisfied(n, p) THEN "success" ELSE "failed"]
    /\ UNCHANGED <<released, epochOf, direct, conds, held, okBy, toForget, sent,
                   decided, forgotten>>

\* The process dies and is started again.  The events it had acknowledged
\* are not delivered again.
Crash ==
    /\ stage' = [n \in Releases |->
                    IF stage[n] \in {"none", "over"} THEN stage[n] ELSE "failed"]
    /\ direct' = [n \in Releases |-> {}]
    /\ conds' = [e \in Epochs |-> None]
    /\ held' = [n \in Releases |-> None]
    /\ left' = [n \in Releases |-> {}]
    /\ toForget' = {}
    /\ UNCHANGED <<released, epochOf, okBy, verdict, sent, decided, forgotten>>

-----------------------------------------------------------------------------
Next ==
    \/ \E e \in Epochs : HandleRelease(e) \/ Forget(e) \/ ForgetFails(e)
    \/ \E n \in Releases : \/ ExecPreloaders(n)
                           \/ WaiterStart(n)
                           \/ \E ok \in SUBSET Preloaders : ResultsIn(n, ok)
                           \/ WaiterEnds(n)
                           \/ WaiterFails(n)
    \/ \E n \in Releases, p \in Projects : \/ Distribute(n, p)
                                           \/ DistributeFails(n, p)
                                           \/ Serve(n, p)
                                           \/ Refuse(n, p)
    \/ Crash

Spec == Init /\ [][Next]_vars

\* The loop runs its ready tasks; a gather returns or is cancelled when the
\* task has run for too long.
Fairness ==
    \A n \in Releases :
        /\ WF_vars(ExecPreloaders(n))
        /\ WF_vars(WaiterStart(n))
        /\ WF_vars((\E ok \in SUBSET Preloaders : ResultsIn(n, ok)) \/ WaiterFails(n))
        /\ WF_vars(WaiterEnds(n))
        /\ \A p \in Projects : WF_vars(Serve(n, p) \/ Refuse(n, p) \/ WaiterFails(n))

FairSpec == Spec /\ Fairness

-----------------------------------------------------------------------------
(* Properties *)

ReleasesOf(e) == {n \in Releases : epochOf[n] = e}

\* Every snapshot job was earned by a release of its epoch of its own, in
\* which the preloaders of the project succeeded: concurrent waiters of an
\* epoch neither double a job nor borrow each other's preloaders.
JobsAreEarned ==
    \A p \in Projects, e \in Epochs :
        sent[<<p, e>>] <= Cardinality({n \in ReleasesOf(e) : Needs[p] \subseteq okBy[n]})

\* For an epoch that was released once, a job that was sent has its status
\* in Redis, whatever became of the waiter; and when the waiter came to its
\* end, the status tells of every project whether its job was sent.
VerdictIsTrue ==
    \A e \in Epochs \ forgotten, p \in Gated, n \in Releases :
        ReleasesOf(e) = {n} =>
            /\ sent[<<p, e>>] > 0 => verdict[<<p, e>>] = "success"
            /\ stage[n] = "over" =>
                  \/ verdict[<<p, e>>] = "success" /\ sent[<<p, e>>] = 1
                  \/ verdict[<<p, e>>] = "failed" /\ sent[<<p, e>>] = 0

\* An entry of _preload_completion_conditions outlives the tasks of its
\* epoch only when one of them failed or was cancelled.
EntriesAreDropped ==
    \A e \in Epochs : conds[e] # None =>
        \E n \in ReleasesOf(e) : stage[n] # "over"

\* A waiter finds its conditions gone, and so refuses its projects without
\* having run a preloader, only when the epoch was released again: the end
\* of one epoch never takes the conditions of another.
ConditionsAreThere ==
    \A n \in Releases : held[n] = Empty =>
        \E m \in ReleasesOf(epochOf[n]) \ {n} : stage[m] \in {"over", "failed"}

\* Every release comes to an end of its own, in which its own waiter has
\* sent a job or recorded a refusal for each project with preloaders, unless
\* that waiter fails: other releases of the epoch, which share its
\* conditions, neither hold it up nor decide in its place.
EveryReleaseIsDecided ==
    \A n \in Releases :
        stage[n] = "exec" ~>
            \/ stage[n] = "failed"
            \/ stage[n] = "over" /\ \A p \in Gated : <<n, p>> \in decided
=============================================================================
