----------------------------- MODULE SlidingWindow -----------------------------
(***************************************************************************)
(* The aggregate views of the cacher (snapshotter/cacher.py,               *)
(* _process_active_pools_message, _process_active_tokens_message,          *)
(* _process_trade_volume_from_base_snapshot_message): the sum of a value   *)
(* over the epochs of a time window, for every snapshot that is submitted, *)
(* from the sum for the epoch indexed last: the new epochs are added, the  *)
(* ones that left the window subtracted.                                   *)
(*                                                                         *)
(* The trade volume of a project (Kind "volume") is computed in full when  *)
(* there is nothing to start from.  The frequencies of pools and tokens    *)
(* (Kind "frequency"; here of one of them) are only updated: the first     *)
(* ones are written by the compute modules, outside this repository, and   *)
(* all are given an hour to live.                                          *)
(*                                                                         *)
(* Tasks run concurrently, and a flag is to keep them apart.               *)
(***************************************************************************)
EXTENDS Integers, FiniteSets, Functions

CONSTANTS Kinds,        \* of {"volume", "frequency"}: those that are modelled
          MaxEpoch,     \* bound: epochs are 1..MaxEpoch, of which
          First,        \* projectFirstEpochId
          Length,       \* epochs in the time window, as get_tail_epoch_id counts
          Value,        \* of each epoch: what its snapshot adds
          Tasks,        \* bound: tasks at a time
          MaxMessages,  \* bound on the messages
          None

Epochs == 1..MaxEpoch

ASSUME WindowAssumption ==
    /\ Kinds \subseteq {"volume", "frequency"} /\ Kinds # {}
    /\ MaxEpoch \in Nat \ {0}
    /\ First \in Epochs
    /\ Length \in Nat
    /\ Value \in [Epochs -> Nat]
    /\ MaxMessages \in Nat
    /\ None \notin Int

VARIABLES
    kind,       \* of this view
    flag,       \* ...:processing
    latest,     \* ...:latest:epoch; 0 when it is not there
    view,       \* the view of each epoch
    data,       \* epochs whose snapshot can be read
    task,       \* of each task: None, or what it has read and where it is
    messages,   \* messages delivered
    disturbed   \* history: a view may have gone wrong (see ViewsAreExact)

vars == <<kind, flag, latest, view, data, task, messages, disturbed>>

Running == {k \in Tasks : task[k] # None}

TypeOK ==
    /\ kind \in Kinds
    /\ flag \in BOOLEAN
    /\ latest \in 0..MaxEpoch
    /\ view \in [Epochs -> Int \cup {None}]
    /\ kind = "volume" => \A e \in Epochs : view[e] # None => view[e] >= 0
    /\ data \subseteq Epochs
    /\ \A k \in Running :
           /\ task[k].epoch \in Epochs
           /\ task[k].at \in {"check", "flag", "latest", "cached", "fetch", "write"}
           /\ task[k].last \in 0..MaxEpoch
           /\ task[k].cached \in Int \cup {None}
           /\ task[k].total \in Int \cup {None}
    /\ messages \in 0..MaxMessages
    /\ disturbed \in BOOLEAN

Init ==
    /\ kind \in Kinds
    /\ flag = FALSE
    /\ latest = 0
    /\ view = [e \in Epochs |-> None]
    /\ data = {}
    /\ task = [k \in Tasks |-> None]
    /\ messages = 0
    /\ disturbed = FALSE

Larger(a, b) == IF a >= b THEN a ELSE b

\* get_tail_epoch_id
TailOf(e) == Larger(e - Length, First)

\* get_project_epoch_snapshot_bulk, as a sum: epochs before the first one,
\* those without a snapshot and those IPFS does not give are left out.
SumOf(lo, hi, gone) ==
    SumFunctionOnSet(Value, {e \in data \ gone : Larger(lo, First) <= e /\ e <= hi})

\* The sum over the window of an epoch.
Total(e, gone) == SumOf(TailOf(e), e, gone)

-----------------------------------------------------------------------------
(* The surroundings                                                        *)

\* Epochs e that a view, one that a task starts from, or one it is about to
\* write has gone without.
Counted == {e \in Epochs : \/ e <= latest
                           \/ \E x \in Epochs : e <= x /\ view[x] # None
                           \/ \E k \in Running : e <= task[k].last /\ task[k].cached # None
                           \/ \E k \in Running : e <= task[k].epoch /\ task[k].at = "write"}

\* The snapshots of these epochs can be read from now on.
Arrive(es) ==
    /\ data' = data \cup es
    /\ disturbed' = (disturbed \/ (es \ data) \cap Counted # {})

\* Finalized, by way of other nodes.
Appear(e) ==
    /\ e \notin data
    /\ Arrive({e})
    /\ UNCHANGED <<kind, flag, latest, view, task, messages>>

\* This node's snapshot of an epoch: it has been noted (see Cacher), and a
\* task begins.  Messages may come twice and in any order.
Deliver(e, k) ==
    /\ messages < MaxMessages
    /\ task[k] = None
    /\ First <= e
    /\ Arrive({e})
    /\ task' = [task EXCEPT ![k] = [epoch |-> e, at |-> "check", last |-> 0,
                                    cached |-> None, total |-> None]]
    /\ messages' = messages + 1
    /\ UNCHANGED <<kind, flag, latest, view>>

\* A compute module writes the first view, of pools or tokens.
Seed(e) ==
    /\ kind = "frequency"
    /\ latest = 0
    /\ First <= e
    /\ Arrive(First..e)
    /\ view' = [view EXCEPT ![e] = SumFunctionOnSet(Value, TailOf(e)..e)]
    /\ latest' = e
    /\ UNCHANGED <<kind, flag, task, messages>>

\* After 600 s.
FlagExpires ==
    /\ flag
    /\ flag' = FALSE
    /\ UNCHANGED <<kind, latest, view, data, task, messages, disturbed>>

\* After an hour.
ViewExpires(e) ==
    /\ kind = "frequency"
    /\ view[e] # None
    /\ view' = [view EXCEPT ![e] = None]
    /\ UNCHANGED <<kind, flag, latest, data, task, messages, disturbed>>

LatestExpires ==
    /\ kind = "frequency"
    /\ latest # 0
    /\ latest' = 0
    /\ UNCHANGED <<kind, flag, view, data, task, messages, disturbed>>

-----------------------------------------------------------------------------
(* A task                                                                  *)

At(k, step) == k \in Running /\ task[k].at = step
Goto(k, step) == task' = [task EXCEPT ![k].at = step]
End(k) == task' = [task EXCEPT ![k] = None]

\* An exception, or the end of the process: the flag stays.
Fail(k) ==
    /\ k \in Running
    /\ End(k)
    /\ UNCHANGED <<kind, flag, latest, view, data, messages, disturbed>>

CheckFlag(k) ==
    /\ At(k, "check")
    /\ IF flag THEN End(k) ELSE Goto(k, "flag")
    /\ UNCHANGED <<kind, flag, latest, view, data, messages, disturbed>>

SetFlag(k) ==
    /\ At(k, "flag")
    /\ flag' = TRUE
    /\ Goto(k, "latest")
    /\ UNCHANGED <<kind, latest, view, data, messages, disturbed>>

\* Disturbed: a later epoch than the task's own has been indexed.
\* With nothing to start from the frequencies are left as they are, and the
\* flag too.
ReadLatest(k) ==
    /\ At(k, "latest")
    /\ disturbed' = (disturbed \/ latest > task[k].epoch)
    /\ \/ /\ latest > TailOf(task[k].epoch)
          /\ task' = [task EXCEPT ![k].last = latest, ![k].at = "cached"]
       \/ /\ latest <= TailOf(task[k].epoch)
          /\ kind = "volume"
          /\ task' = [task EXCEPT ![k].last = latest, ![k].at = "fetch"]
       \/ /\ latest <= TailOf(task[k].epoch)
          /\ kind = "frequency"
          /\ End(k)
    /\ UNCHANGED <<kind, flag, latest, view, data, messages>>

ReadCached(k) ==
    LET cached == view[task[k].last]
    IN /\ At(k, "cached")
       /\ IF kind = "frequency" /\ cached = None THEN End(k)
          ELSE task' = [task EXCEPT ![k].cached = cached, ![k].at = "fetch"]
       /\ UNCHANGED <<kind, flag, latest, view, data, messages, disturbed>>

\* Mutant: the epochs that leave are counted from the new tail.
UpdateFromTail(t, gone) ==
    LET new == t.epoch - t.last
        sum == (t.cached + SumOf(t.last + 1, t.epoch, gone))
                   - SumOf(TailOf(t.epoch), (TailOf(t.epoch) + new) - 1, gone)
    IN IF kind = "volume" /\ new > 0 THEN Larger(sum, 0) ELSE sum

\* Mutant: the volume is not kept from becoming negative.
UpdateUnbounded(t, gone) ==
    LET new == t.epoch - t.last
    IN (t.cached + SumOf(t.last + 1, t.epoch, gone))
           - SumOf(TailOf(t.epoch) - new, TailOf(t.epoch) - 1, gone)

\* The cached sum, with the new epochs and without those that leave; a volume
\* is kept from becoming negative.
Update(t, gone) ==
    LET new == t.epoch - t.last
        sum == (t.cached + SumOf(t.last + 1, t.epoch, gone))
                   - SumOf(TailOf(t.epoch) - new, TailOf(t.epoch) - 1, gone)
    IN IF kind = "volume" /\ new > 0 THEN Larger(sum, 0) ELSE sum

\* What IPFS does not give, here nothing or the newest snapshot, is left out.
Fetch(k) ==
    LET t == task[k]
    IN /\ At(k, "fetch")
       /\ \E gone \in {{}, {t.epoch}} :
              /\ task' = [task EXCEPT
                             ![k].total = IF t.cached = None THEN Total(t.epoch, gone)
                                          ELSE Update(t, gone),
                             ![k].at = "write"]
              /\ disturbed' = (disturbed \/ gone # {})
       /\ UNCHANGED <<kind, flag, latest, view, data, messages>>

\* One pipeline.  Only volumes have their predecessor deleted, at the end:
\* for a repeated epoch that is the one just written.
Write(k) ==
    LET t == task[k]
        kept == IF kind = "volume" THEN Epochs \ {t.last} ELSE Epochs
    IN /\ At(k, "write")
       /\ view' = [e \in Epochs |->
                      IF e \notin kept THEN None
                      ELSE IF e = t.epoch THEN t.total ELSE view[e]]
       /\ latest' = t.epoch
       /\ flag' = FALSE
       /\ End(k)
       /\ UNCHANGED <<kind, data, messages, disturbed>>

-----------------------------------------------------------------------------

Next ==
    \/ \E e \in Epochs : Appear(e) \/ Seed(e) \/ ViewExpires(e)
    \/ \E e \in Epochs, k \in Tasks : Deliver(e, k)
    \/ FlagExpires \/ LatestExpires
    \/ \E k \in Tasks : \/ Fail(k)
                        \/ CheckFlag(k) \/ SetFlag(k) \/ ReadLatest(k)
                        \/ ReadCached(k) \/ Fetch(k) \/ Write(k)

Spec == Init /\ [][Next]_vars

-----------------------------------------------------------------------------
(* Properties                                                              *)

\* However tasks interleave, repeat, fail and lose their flag, a view that was
\* updated epoch by epoch is the sum over its window, as long as no task found
\* a later epoch indexed than its own, every snapshot could be read when it
\* was counted, and none appeared after that.
ViewsAreExact ==
    ~disturbed => \A e \in Epochs : view[e] # None => view[e] = Total(e, {})
=============================================================================
