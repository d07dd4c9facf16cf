-------------------------------- MODULE History --------------------------------
(***************************************************************************)
(* How the history of a project gets into Redis (snapshotter/utils/        *)
(* data_utils.py): get_project_finalized_cid and its bulk forms ask the    *)
(* chain for an epoch Redis knows nothing of, process_snapshot_cid follows *)
(* the previousSnapshots of a snapshot back in time.  Both note the epochs *)
(* they find data for in project_data_hmap, and those they take for empty  *)
(* in a bitmap; a reader looks in the one and then in the other.           *)
(*                                                                         *)
(* Any number of calls run at once, in the core API, the workers and the   *)
(* cacher; each is a task of a few Redis calls, and may fail or stop       *)
(* between any two.                                                        *)
(*                                                                         *)
(* Abstractions: one project; the CID an entry holds is any of the         *)
(* snapshots of its epoch, so an entry is an epoch; its status, which no   *)
(* reader looks at, is left out; of several attempts only the last is a    *)
(* step.                                                                   *)
(***************************************************************************)
EXTENDS Bitmap

CONSTANTS MaxEpoch,   \* bound: epochs are 1..MaxEpoch
          WithData,   \* epochs a snapshot of which is finalized
          ListsOf,    \* the epochs of the previousSnapshots of the
                      \* snapshots of an epoch, any node's, finalized or not
          FirstHead,  \* current epoch of the contract at the start
          Early,      \* epochs with a status at the start
          Lag,        \* age from which a missing status means blank (10)
          MaxDepth,   \* MAX_RECURSION_DEPTH (50)
          MaxCalls,   \* bound on the calls
          Reads,      \* bound: epochs asked for one at a time
          Intervals,  \* bound: intervals asked for
          MaxFaults,  \* bound on calls that fail and entries that expire
          None

Epochs == 1..MaxEpoch
Entries(s) == {s[i] : i \in DOMAIN s}

ASSUME HistoryAssumption ==
    /\ MaxEpoch \in Nat
    /\ Numbers = Epochs
    /\ WithData \subseteq Epochs
    /\ ListsOf \in [Epochs -> SUBSET Seq(Epochs)]
    /\ \A e \in WithData : ListsOf[e] # {}
    /\ FirstHead \in 0..MaxEpoch
    /\ Early \subseteq 1..FirstHead
    /\ {Lag, MaxDepth, MaxCalls, MaxFaults} \subseteq Nat
    /\ Reads \subseteq Epochs
    /\ Intervals \subseteq SUBSET Epochs
    /\ None \notin Epochs

VARIABLES
    keeping,    \* keep_previous_snapshot_data of the project
    head,       \* currentEpoch of the contract
    concluded,  \* epochs with a snapshotStatus
    entries,    \* project_data_hmap
    flag,       \* project_processing:<project>
    task,       \* of each caller: the call it has in hand
    calls,      \* calls begun
    faults,     \* calls failed and entries expired
    judged,     \* history: epochs taken for blank without a status
    forgotten   \* history: entries expired or whose writer stopped

chain == <<head, concluded>>
vars == <<bitmap, keeping, chain, entries, flag, task, calls, faults, judged, forgotten>>

Steps == {"idle", "walk", "ask", "own", "ownBack", "flag", "set", "mark",
          "back", "next", "unwind", "clear", "last", "store", "refresh",
          "bulk", "bulkBack", "bulkStore"}

Frames == [epoch : Epochs, list : Seq(Epochs)]

\* epoch is the one w3_get_and_cache_finalized_cid is about; path the
\* snapshots process_snapshot_cid is at, with their lists once they are read.
Idle == [at |-> "idle", epoch |-> None, list |-> <<>>, path |-> <<>>,
         root |-> FALSE, missing |-> {}, known |-> {}, found |-> {}]

\* The recursion goes no deeper than its bound.
TypeOK ==
    /\ BitmapTypeOK
    /\ keeping \in BOOLEAN
    /\ head \in 0..MaxEpoch
    /\ concluded \subseteq 1..head
    /\ entries \subseteq Epochs
    /\ flag \in BOOLEAN
    /\ task \in [Callers ->
          [at : Steps, epoch : Epochs \cup {None}, list : Seq(Epochs),
           path : Seq(Frames), root : BOOLEAN, missing : SUBSET Epochs,
           known : SUBSET Epochs, found : SUBSET Epochs]]
    /\ \A c \in Callers : Len(task[c].path) <= MaxDepth + 1
    /\ calls \in 0..MaxCalls
    /\ faults \in 0..MaxFaults
    /\ judged \subseteq Epochs
    /\ forgotten \subseteq Epochs

Init ==
    /\ BitmapInit
    /\ keeping \in BOOLEAN
    /\ head = FirstHead
    /\ concluded = Early
    /\ entries = {}
    /\ flag = FALSE
    /\ task = [c \in Callers |-> Idle]
    /\ calls = 0
    /\ faults = 0
    /\ judged = {}
    /\ forgotten = {}

-----------------------------------------------------------------------------
(* The chain: epochs are released in order; their status comes later, in   *)
(* any order.                                                              *)

Release ==
    /\ head < MaxEpoch
    /\ head' = head + 1
    /\ UNCHANGED <<bitmap, keeping, concluded, entries, flag, task, calls, faults, judged, forgotten>>

Conclude(e) ==
    /\ e <= head
    /\ e \notin concluded
    /\ concluded' = concluded \cup {e}
    /\ UNCHANGED <<bitmap, keeping, head, entries, flag, task, calls, faults, judged, forgotten>>

-----------------------------------------------------------------------------
(* The calls                                                               *)

Blank(e) == GetBit(e)
Unknown == {e \in Epochs : e \notin entries /\ ~Blank(e)}

Begin(c, t) ==
    /\ task[c].at = "idle"
    /\ calls < MaxCalls
    /\ calls' = calls + 1
    /\ task' = [task EXCEPT ![c] = t]
    /\ UNCHANGED <<bitmap, keeping, chain, entries, flag, faults, judged, forgotten>>

\* get_project_finalized_cid, of an epoch neither known nor blank.
BeginRead(c, e) ==
    /\ e \in Unknown
    /\ Begin(c, [Idle EXCEPT !.at = "ask", !.epoch = e])

\* get_project_finalized_cids_bulk, of an interval with such epochs; the
\* epochs it knows go with it, those with a CID (found) and those without.
BeginWalk(c, es) ==
    /\ keeping
    /\ es \cap Unknown # {}
    /\ Begin(c, [Idle EXCEPT !.at = "walk", !.missing = es \cap Unknown,
                             !.known = es \ Unknown,
                             !.found = es \cap entries])

\* The same for a project without lists: one batch call for all statuses,
\* then the blank bits, then the entries.
BeginBulk(c, es) ==
    /\ ~keeping
    /\ es \cap Unknown # {}
    /\ Begin(c, [Idle EXCEPT !.at = "bulk", !.missing = es \cap Unknown])

\* A snapshot was submitted or finalized (the cacher).
BeginResolve(c, e) ==
    /\ ListsOf[e] # {}
    /\ e <= head
    /\ Begin(c, [Idle EXCEPT !.at = "flag", !.root = TRUE,
                             !.path = <<[epoch |-> e, list |-> <<>>]>>])

Goto(c, t) ==
    /\ task' = [task EXCEPT ![c] = t]
    /\ UNCHANGED <<keeping, chain, calls>>

Fault ==
    /\ faults < MaxFaults
    /\ faults' = faults + 1

\* Mutant: the epoch is not taken from the missing ones.
AnsweredKeep(t) ==
    IF t.missing = {} THEN Idle
    ELSE [t EXCEPT !.at = "refresh", !.epoch = None, !.list = <<>>,
                   !.path = <<>>, !.root = FALSE]

\* What follows a call of w3_get_and_cache_finalized_cid.
Answered(t) ==
    IF t.missing \ {t.epoch} = {} THEN Idle
    ELSE [t EXCEPT !.at = "refresh", !.epoch = None, !.list = <<>>,
                   !.path = <<>>, !.root = FALSE,
                   !.missing = @ \ {t.epoch}]

\* What follows a call of process_snapshot_cid.
Processed(t) ==
    IF t.root
    THEN IF t.epoch = None THEN Idle
         ELSE [t EXCEPT !.at = "store", !.path = <<>>, !.root = FALSE]
    ELSE [t EXCEPT !.at = "ask", !.path = <<>>]

-----------------------------------------------------------------------------
(* w3_get_and_cache_finalized_cid                                          *)

\* Status and current epoch in one batch call.
Ask(c) ==
    LET t == task[c]
        known == t.epoch \in concluded
    IN /\ t.at = "ask"
       /\ IF t.epoch > head - Lag /\ ~known
          THEN /\ Goto(c, Answered(t))
               /\ UNCHANGED <<bitmap, judged>>
          ELSE IF known /\ t.epoch \in WithData
          THEN /\ Goto(c, [t EXCEPT !.at = "own"])
               /\ UNCHANGED <<bitmap, judged>>
          ELSE /\ Goto(c, Answered(t))
               /\ SetBits({t.epoch})
               /\ judged' = IF known THEN judged ELSE judged \cup {t.epoch}
       /\ UNCHANGED <<entries, flag, faults, forgotten>>

\* The list IPFS gives, which may be nothing. It names what was released
\* when it was written: a node that is late, its own and later epochs too.
Fetched(e) ==
    {<<>>} \cup IF keeping THEN {s \in ListsOf[e] : Entries(s) \subseteq 1..head} ELSE {}

\* What a list leaves out between its first entry and the end of the range.
LeftOut(s, end) == IF s = <<>> THEN {} ELSE (s[1]..end) \ Entries(s)

\* The epoch of the snapshot itself is in the range here.
Own(c, s) ==
    LET t == task[c]
        path == <<[epoch |-> t.epoch, list |-> <<>>]>>
        left == LeftOut(s, t.epoch)
    IN /\ t.at = "own"
       /\ s \in Fetched(t.epoch)
       /\ IF left = {} THEN UNCHANGED bitmap ELSE SetBitsInRange(c, left)
       /\ Goto(c, [t EXCEPT !.at = IF opened'[c] = Closed THEN "flag" ELSE "ownBack",
                            !.list = s, !.path = path, !.root = TRUE])
       /\ UNCHANGED <<entries, flag, faults, judged, forgotten>>

OwnBack(c) ==
    /\ task[c].at = "ownBack"
    /\ WriteBack(c)
    /\ Goto(c, [task[c] EXCEPT !.at = "flag"])
    /\ UNCHANGED <<entries, flag, faults, judged, forgotten>>

\* Redis raises while the bits are set: what is in the pipeline is executed
\* all the same, and null is returned.
OwnFails(c, s) ==
    LET t == task[c]
    IN /\ \/ t.at = "own" /\ s \in Fetched(t.epoch)
          \/ t.at = "ownBack" /\ s = t.list
       /\ Fault
       /\ opened' = [opened EXCEPT ![c] = Closed]
       /\ Goto(c, [t EXCEPT !.at = "store", !.list = s, !.path = <<>>, !.root = FALSE])
       /\ UNCHANGED <<bits, asked, raced, entries, flag, judged, forgotten>>

\* The pipeline, after process_snapshot_cid.
Store(c) ==
    LET t == task[c]
    IN /\ t.at = "store"
       /\ entries' = entries \cup {t.epoch} \cup Entries(t.list)
       /\ Goto(c, Answered(t))
       /\ UNCHANGED <<bitmap, flag, faults, judged, forgotten>>

-----------------------------------------------------------------------------
(* process_snapshot_cid                                                    *)

Exists(c) ==
    LET t == task[c]
    IN /\ t.at = "flag"
       /\ Goto(c, IF flag THEN Processed(t) ELSE [t EXCEPT !.at = "set"])
       /\ UNCHANGED <<bitmap, entries, flag, faults, judged, forgotten>>

\* A project without lists leaves the flag behind.
SetFlag(c) ==
    LET t == task[c]
    IN /\ t.at = "set"
       /\ flag' = TRUE
       /\ Goto(c, IF keeping THEN [t EXCEPT !.at = "mark"] ELSE Processed(t))
       /\ UNCHANGED <<bitmap, entries, faults, judged, forgotten>>

Top(t) == t.path[Len(t.path)]

\* Mutant: the range ends with the snapshot's own epoch, as that of Own.
MarkOwn(c, s) ==
    LET t == task[c]
        e == Top(t).epoch
        left == LeftOut(s, e)
    IN /\ t.at = "mark"
       /\ s \in Fetched(e)
       /\ IF left = {} THEN UNCHANGED bitmap ELSE SetBitsInRange(c, left)
       /\ Goto(c, [t EXCEPT !.at = IF opened'[c] = Closed THEN "next" ELSE "back",
                            !.path[Len(t.path)].list = s])
       /\ UNCHANGED <<entries, flag, faults, judged, forgotten>>

\* Mutant: the range stops one epoch too early.
MarkShort(c, s) ==
    LET t == task[c]
        e == Top(t).epoch
        left == LeftOut(s, e - 2)
    IN /\ t.at = "mark"
       /\ s \in Fetched(e)
       /\ IF left = {} THEN UNCHANGED bitmap ELSE SetBitsInRange(c, left)
       /\ Goto(c, [t EXCEPT !.at = IF opened'[c] = Closed THEN "next" ELSE "back",
                            !.path[Len(t.path)].list = s])
       /\ UNCHANGED <<entries, flag, faults, judged, forgotten>>

Mark(c, s) ==
    LET t == task[c]
        e == Top(t).epoch
        left == LeftOut(s, e - 1)
    IN /\ t.at = "mark"
       /\ s \in Fetched(e)
       /\ IF left = {} THEN UNCHANGED bitmap ELSE SetBitsInRange(c, left)
       /\ Goto(c, [t EXCEPT !.at = IF opened'[c] = Closed THEN "next" ELSE "back",
                            !.path[Len(t.path)].list = s])
       /\ UNCHANGED <<entries, flag, faults, judged, forgotten>>

Back(c) ==
    /\ task[c].at = "back"
    /\ WriteBack(c)
    /\ Goto(c, [task[c] EXCEPT !.at = "next"])
    /\ UNCHANGED <<entries, flag, faults, judged, forgotten>>

\* The way back out of the recursion; the flag goes before the last pipeline.
Out(t) == [t EXCEPT !.at = IF Len(t.path) > 1 THEN "unwind"
                           ELSE IF t.root THEN "clear" ELSE "last"]

\* Mutant: one level more than the bound.
DescendDeeper(c) ==
    LET t == task[c]
        s == Top(t).list
    IN /\ t.at = "next"
       /\ IF s # <<>> /\ t.root /\ Len(t.path) <= MaxDepth + 1 /\ s[1] \notin entries
          THEN Goto(c, [t EXCEPT !.at = "mark",
                                 !.path = Append(@, [epoch |-> s[1], list |-> <<>>])])
          ELSE Goto(c, Out(t))
       /\ UNCHANGED <<bitmap, entries, flag, faults, judged, forgotten>>

\* From the first of the list on, unless it is known or too deep.
Descend(c) ==
    LET t == task[c]
        s == Top(t).list
    IN /\ t.at = "next"
       /\ IF s # <<>> /\ t.root /\ Len(t.path) <= MaxDepth /\ s[1] \notin entries
          THEN Goto(c, [t EXCEPT !.at = "mark",
                                 !.path = Append(@, [epoch |-> s[1], list |-> <<>>])])
          ELSE Goto(c, Out(t))
       /\ UNCHANGED <<bitmap, entries, flag, faults, judged, forgotten>>

\* The pipeline of an inner call.
Unwind(c) ==
    LET t == task[c]
    IN /\ t.at = "unwind"
       /\ entries' = entries \cup Entries(Top(t).list)
       /\ Goto(c, Out([t EXCEPT !.path = SubSeq(@, 1, Len(@) - 1)]))
       /\ UNCHANGED <<bitmap, flag, faults, judged, forgotten>>

ClearFlag(c) ==
    /\ task[c].at = "clear"
    /\ flag' = FALSE
    /\ Goto(c, [task[c] EXCEPT !.at = "last"])
    /\ UNCHANGED <<bitmap, entries, faults, judged, forgotten>>

Last(c) ==
    LET t == task[c]
    IN /\ t.at = "last"
       /\ entries' = entries \cup Entries(Top(t).list)
       /\ Goto(c, Processed(t))
       /\ UNCHANGED <<bitmap, flag, faults, judged, forgotten>>

\* Redis raises: the call that was running returns nothing.
ProcessFails(c) ==
    LET t == task[c]
    IN /\ t.at \in {"flag", "set", "mark", "back", "next", "unwind", "clear", "last"}
       /\ Fault
       /\ opened' = [opened EXCEPT ![c] = Closed]
       /\ Goto(c, IF Len(t.path) > 1
                  THEN Out([t EXCEPT !.path = SubSeq(@, 1, Len(@) - 1)])
                  ELSE Processed(t))
       /\ UNCHANGED <<bits, asked, raced, entries, flag, judged, forgotten>>

-----------------------------------------------------------------------------
(* w3_get_and_cache_finalized_cid_bulk_using_previous_snapshots: from the  *)
(* newest of the missing epochs back.                                      *)

\* find_closest_larger_epoch_with_data
Closest(e, known) ==
    {k \in known : k > e /\ \A d \in known : d > e => k <= d}

\* The closest later snapshot is processed, once, without its recursion or
\* the flag; a blank epoch that is closer stands in its way.
Walk(c) ==
    LET t == task[c]
        e == LastOf(t.missing)
        from == Closest(e, t.known) \cap t.found
    IN /\ t.at = "walk"
       /\ Goto(c, IF from = {}
                  THEN [t EXCEPT !.at = "ask", !.epoch = e]
                  ELSE [t EXCEPT !.at = "mark", !.epoch = e,
                                 !.found = @ \ from,
                                 !.path = <<[epoch |-> LastOf(from), list |-> <<>>]>>])
       /\ UNCHANGED <<bitmap, entries, flag, faults, judged, forgotten>>

\* HMGET and GETRANGE, here at once.
Refresh(c) ==
    LET t == task[c]
        rest == t.missing \cap Unknown
    IN /\ t.at = "refresh"
       /\ Goto(c, IF rest = {} THEN Idle
                  ELSE [t EXCEPT !.at = "walk", !.missing = rest])
       /\ UNCHANGED <<bitmap, entries, flag, faults, judged, forgotten>>

-----------------------------------------------------------------------------
(* w3_get_and_cache_finalized_cid_bulk: statuses, blank bits, pipeline.    *)

Bulk(c) ==
    LET t == task[c]
        blank == (t.missing \cap concluded) \ WithData
    IN /\ t.at = "bulk"
       /\ IF blank = {} THEN UNCHANGED bitmap ELSE SetBitsInRange(c, blank)
       /\ Goto(c, [t EXCEPT !.at = IF opened'[c] = Closed THEN "bulkStore" ELSE "bulkBack",
                            !.found = t.missing \cap concluded \cap WithData])
       /\ UNCHANGED <<entries, flag, faults, judged, forgotten>>

BulkBack(c) ==
    /\ task[c].at = "bulkBack"
    /\ WriteBack(c)
    /\ Goto(c, [task[c] EXCEPT !.at = "bulkStore"])
    /\ UNCHANGED <<entries, flag, faults, judged, forgotten>>

BulkStore(c) ==
    /\ task[c].at = "bulkStore"
    /\ entries' = entries \cup task[c].found
    /\ Goto(c, Idle)
    /\ UNCHANGED <<bitmap, flag, faults, judged, forgotten>>

-----------------------------------------------------------------------------
(* What stops a call and what happens to the keys meanwhile.               *)

\* An epoch whose own bit is set and whose entry is still to be stored.
Pending(t) == IF t.list # <<>> THEN {t.epoch} ELSE {}

Crash(c) ==
    /\ task[c].at # "idle"
    /\ Fault
    /\ opened' = [opened EXCEPT ![c] = Closed]
    /\ Goto(c, Idle)
    /\ forgotten' = forgotten \cup Pending(task[c])
    /\ UNCHANGED <<bits, asked, raced, entries, flag, judged>>

\* The cleanup of the cacher: an entry goes, its bits stay.
Expire(e) ==
    /\ e \in entries
    /\ Fault
    /\ entries' = entries \ {e}
    /\ forgotten' = forgotten \cup {e}
    /\ UNCHANGED <<bitmap, keeping, chain, flag, task, calls, judged>>

\* After 600 seconds.
FlagExpires ==
    /\ flag
    /\ flag' = FALSE
    /\ UNCHANGED <<bitmap, keeping, chain, entries, task, calls, faults, judged, forgotten>>

-----------------------------------------------------------------------------
Lists == {<<>>} \cup UNION {ListsOf[e] : e \in Epochs}

Start(c) ==
    \/ \E e \in Reads : BeginRead(c, e)
    \/ \E e \in Epochs : BeginResolve(c, e)
    \/ \E es \in Intervals : BeginWalk(c, es) \/ BeginBulk(c, es)

Continue(c) ==
    \/ Ask(c) \/ OwnBack(c) \/ Store(c) \/ Exists(c) \/ SetFlag(c) \/ Back(c)
    \/ Descend(c) \/ Unwind(c) \/ ClearFlag(c) \/ Last(c)
    \/ Walk(c) \/ Refresh(c) \/ Bulk(c) \/ BulkBack(c) \/ BulkStore(c)
    \/ \E s \in Lists : Own(c, s) \/ Mark(c, s)

Fail(c) ==
    ProcessFails(c) \/ Crash(c) \/ \E s \in Lists : OwnFails(c, s)

Next ==
    \/ Release \/ FlagExpires
    \/ \E e \in Epochs : Conclude(e) \/ Expire(e)
    \/ \E c \in Callers : Start(c) \/ Continue(c) \/ Fail(c)

\* Every call of Redis, IPFS and the chain returns or raises.
Spec == Init /\ [][Next]_vars /\ \A c \in Callers : WF_vars(Continue(c))

-----------------------------------------------------------------------------
(* Properties *)

\* What the lists leave out between their first entry and their snapshot.
Gaps == UNION {UNION {LeftOut(s, e - 1) : s \in ListsOf[e]} : e \in Epochs}

\* An epoch with a finalized snapshot reads as blank only if a list left it
\* out, it was given up while the chain was late, its entry has expired or
\* the call that was to write it stopped, or that call is under way.
NothingIsHidden ==
    \A e \in WithData :
        Blank(e) /\ e \notin entries =>
            e \in Gaps \cup judged \cup forgotten
                       \cup UNION {Pending(task[c]) : c \in Callers}

\* Whoever comes to the end of a snapshot's list, at any depth and whatever
\* became of the levels below, leaves no hole in the history: each epoch from
\* the first of the list to the snapshot has an entry or its bit, if no other
\* caller had the byte of the bit read when it was set.
NoHoles ==
    [][\A c \in Callers :
          Unwind(c) \/ Last(c) =>
              LET f == Top(task[c])
              IN f.list # <<>> =>
                    \A e \in f.list[1]..(f.epoch - 1) :
                        \/ e \in entries'
                        \/ Position(e) \in bits' \cup raced']_vars

\* A call ends, however many snapshots it follows and epochs it walks through.
CallsEnd == \A c \in Callers : task[c].at # "idle" ~> task[c].at = "idle"
=============================================================================
