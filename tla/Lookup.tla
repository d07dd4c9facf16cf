-------------------------------- MODULE Lookup --------------------------------
(***************************************************************************)
(* What the core API, the workers and the cacher read of a project         *)
(* (snapshotter/utils/data_utils.py, core_api.py): the CIDs and snapshots  *)
(* of an interval, the snapshot of an epoch or the ones around it, the     *)
(* latest one, a time series, and the block closest to a point in time.    *)
(*                                                                         *)
(* A reader finds what others left in Redis: pointers, entries, cached     *)
(* snapshots; what is missing it asks of the chain and of IPFS, and leaves *)
(* for the next one.  Here a request is one step, and it is the sequence   *)
(* of requests, events and finalizations that varies, with what the lists  *)
(* of previous snapshots that are read on the way name and leave out; how  *)
(* the calls of several requests interleave, and stop half way, is in      *)
(* History and Bitmap.                                                     *)
(*                                                                         *)
(* A CID is the epoch of its snapshot, and 0 the CID that says null.       *)
(***************************************************************************)
EXTENDS Integers, FiniteSets, Sequences, SequencesExt

CONSTANTS MaxEpoch,     \* bound: epochs are 1..MaxEpoch
          MaxRequests,  \* bound on the requests
          CacheCids,    \* cache_cids of the project
          EpochSize,    \* EPOCH_SIZE, in blocks
          RawBlockTime, \* SOURCE_CHAIN_BLOCK_TIME, in 1/Scale seconds
          Scale,        \* 10^4
          Stamps,       \* of each block from 0: its timestamp
          Batch,        \* BATCH_SIZE of get_submission_data_bulk (1000)
          Reach,        \* BLOCK_RANGE_FOR_FALLBACK (50)
          Times,        \* bound: points in time asked for
          Spans         \* bound: lengths of time asked for

Epochs == 1..MaxEpoch
Blocks == 0..(Len(Stamps) - 1)
Stamp(b) == Stamps[b + 1]

ASSUME LookupAssumption ==
    /\ MaxEpoch \in Nat \ {0}
    /\ MaxRequests \in Nat
    /\ CacheCids \in BOOLEAN
    /\ {EpochSize, Scale, Batch} \subseteq Nat \ {0}
    /\ {RawBlockTime, Reach} \subseteq Nat
    /\ Stamps \in Seq(Nat) /\ Stamps # <<>>
    /\ \A b, c \in Blocks : b < c => Stamp(b) <= Stamp(c)
    /\ Times \subseteq Nat
    /\ Spans \subseteq Nat \ {0}

VARIABLES
    final,      \* chain: epochs with a finalized snapshot
    pointer,    \* project_last_finalized_epoch_hmap; 0 when it is not there
    submitted,  \* epoch of last_submitted_snapshot_data; 0 likewise
    entries,    \* project_data_hmap
    blank,      \* the bitmap of blank epochs
    cache,      \* cid_cache: "none", "empty" (a cached {}) or "data"
    known,      \* timestamp_to_block_number: blocks whose time is cached
    request,    \* the request of the last step
    answer,     \* and its answer
    requests    \* requests served

redis == <<pointer, submitted, entries, blank, cache, known>>
vars == <<final, redis, request, answer, requests>>

Larger(a, b) == IF a >= b THEN a ELSE b
Smaller(a, b) == IF a <= b THEN a ELSE b
Greatest(S) == CHOOSE x \in S : \A y \in S : y <= x
Least(S) == CHOOSE x \in S : \A y \in S : x <= y

Nothing == [kind |-> "none"]
Failed == [ok |-> FALSE]

TypeOK ==
    /\ final \subseteq Epochs
    /\ pointer \in 0..MaxEpoch
    /\ submitted \in 0..MaxEpoch
    /\ entries \subseteq Epochs
    /\ blank \subseteq Epochs
    /\ cache \in [Epochs -> {"none", "empty", "data"}]
    /\ known \subseteq Blocks
    /\ requests \in 0..MaxRequests
    /\ request.kind \in {"none", "bulk", "epoch", "nearby", "latest", "series",
                        "closest", "fallback"}

Init ==
    /\ final = {}
    /\ pointer = 0
    /\ submitted = 0
    /\ entries = {}
    /\ blank = {}
    /\ cache = [e \in Epochs |-> "none"]
    /\ known = {}
    /\ request = Nothing
    /\ answer = Failed
    /\ requests = 0

-----------------------------------------------------------------------------
(* What happens between requests                                           *)

\* Nothing is asked in this step.
Quiet ==
    /\ request' = Nothing
    /\ answer' = Failed
    /\ UNCHANGED requests

\* Finalized on the chain, in the order of the epochs but not all of them;
\* the event may come late or not at all.
Finalize(e) ==
    /\ \A d \in final : d < e
    /\ final' = final \cup {e}
    /\ Quiet
    /\ UNCHANGED redis

\* The cacher on the event: entry and pointer (see Cacher).
Note(e) ==
    /\ e \in final
    /\ entries' = entries \cup {e}
    /\ pointer' = Larger(pointer, e)
    /\ Quiet
    /\ UNCHANGED <<final, submitted, blank, cache, known>>

\* The cacher on a snapshot of this node, which may never be finalized; the
\* last one noted is the last one submitted, be it of an earlier epoch.
Submit(e) ==
    /\ submitted' = e
    /\ entries' = entries \cup {e}
    /\ Quiet
    /\ UNCHANGED <<final, pointer, blank, cache, known>>

\* A list that is read meanwhile leaves the epoch out (see History): its bit
\* is set, whatever entry it has.
LeaveOut(e) ==
    /\ blank' = blank \cup {e}
    /\ Quiet
    /\ UNCHANGED <<final, pointer, submitted, entries, cache, known>>

\* The cacher's cleanup; bits stay.
Expire(e) ==
    /\ e \in entries
    /\ entries' = entries \ {e}
    /\ Quiet
    /\ UNCHANGED <<final, pointer, submitted, blank, cache, known>>

\* The CID cacher (cid_cacher.py), for one of the CIDs it popped: the snapshot
\* is kept if nothing is cached, not even {}, and IPFS gives it within 10 s.
\* If not, the CID is not tried again.
CacheCid(e) ==
    /\ e \in entries
    /\ cache[e] = "none"
    /\ cache' = [cache EXCEPT ![e] = "data"]
    /\ Quiet
    /\ UNCHANGED <<final, pointer, submitted, entries, blank, known>>

-----------------------------------------------------------------------------
(* CIDs                                                                    *)

\* projectFirstEpochId
First == IF final = {} THEN 0 ELSE Least(final)

\* lastSequencerFinalizedSnapshot
LastFinal == IF final = {} THEN 0 ELSE Greatest(final)

\* get_project_last_finalized_epoch: the pointer wins over the chain, and is
\* set when it is not there.
LastFinalized == IF pointer # 0 THEN pointer ELSE LastFinal

\* Epochs of which Redis says nothing, and the chain is asked.
Unknown(es) == {e \in es : First # 0 /\ First <= e} \ (entries \cup blank)

\* get_project_finalized_cid: an entry wins over a bit, and both over the
\* chain; null if the snapshot the chain names cannot be read (broken).
FinalizedCid(e, broken) ==
    IF e \notin Unknown({e}) THEN IF First # 0 /\ First <= e /\ e \in entries THEN e ELSE 0
    ELSE IF e \in final /\ ~broken THEN e ELSE 0

\* Mutant: an entry for every epoch that was asked for.
AskedOfAll(es) == entries \cup es

\* The entries that stay of what was asked of the chain, read or not.
AskedOf(es) == entries \cup (Unknown(es) \cap final)

\* And the bits: an epoch without a snapshot gets one once it is 10 epochs
\* old, one with a snapshot if that has a list of earlier ones.
Asking(es) ==
    /\ entries' = AskedOf(es)
    /\ \E marked \in SUBSET Unknown(es) : blank' = blank \cup marked

MaxWithData == Larger(submitted, LastFinalized)

\* Epochs of an interval that may have data.
Ids(lo, hi) == IF First = 0 THEN {} ELSE Larger(lo, First)..Smaller(hi, MaxWithData)

\* What a bulk read finds out about an epoch of which Redis says nothing: it is
\* asked of the chain, and its snapshot perhaps cannot be read; or lists that
\* are read before its turn name it, leave it out, or one does and one does not.
Findings == {"asked", "broken", "named", "left", "both"}

Found(w, findings) == {e \in DOMAIN w : w[e] \in findings}

\* The walk of w3_get_and_cache_finalized_cid_bulk_using_previous_snapshots: the
\* newest epoch first; others need not be asked once a snapshot was read, that
\* of the closest epoch known or of one that was asked.  A project whose
\* snapshots have no lists asks for all of them.
Walks(lo, hi) ==
    LET unknown == Unknown(Ids(lo, hi))
        newest == Greatest(unknown)
        read == Ids(lo, hi) \cap entries
    IN {w \in [unknown -> Findings] :
            /\ unknown # {} => w[newest] \in {"asked", "broken"}
            /\ \A e \in unknown : w[e] = "broken" => e \in final
            /\ Found(w, {"named", "left", "both"}) # {} =>
                   read # {} \/ Found(w, {"asked", "broken"}) \cap final # {}}

\* Epochs of the interval a CID is found for, and those answered twice: the
\* walk looks a bit and an entry up for each epoch left, and takes both.
Named(lo, hi, w) ==
    (Ids(lo, hi) \cap entries) \cup Found(w, {"named", "both"}) \cup (Found(w, {"asked"}) \cap final)
Twice(w) == Found(w, {"both"})

\* The list of pairs <<cid, epoch>>, sorted by epoch, a null before a CID.
Before(p, q) == p[2] < q[2] \/ (p[2] = q[2] /\ p[1] < q[1])
InOrder(pairs) ==
    [i \in 1..Cardinality(pairs) |->
        CHOOSE p \in pairs : Cardinality({q \in pairs : Before(q, p)}) = i - 1]

\* get_project_finalized_cids_bulk: the pairs it collects, sorted by epoch;
\* nulls stand for epochs without a CID and for those after the last one with
\* data.
Collected(lo, hi, w) ==
    LET nulls == (Ids(lo, hi) \ Named(lo, hi, w)) \cup Twice(w) \cup (MaxWithData + 1)..hi
    IN IF Ids(lo, hi) = {} THEN <<>>
       ELSE InOrder({<<e, e>> : e \in Named(lo, hi, w)} \cup {<<0, e>> : e \in nulls})

-----------------------------------------------------------------------------
(* Snapshots                                                               *)

Serve(r, a) ==
    /\ requests < MaxRequests
    /\ requests' = requests + 1
    /\ request' = r
    /\ answer' = a
    /\ UNCHANGED final

\* Mutant: the range ends before the last epoch of the interval.
ValidShort(lo, hi, w) ==
    LET s == Collected(lo, hi, w)
        n == Smaller(Len(s), hi - Larger(lo, First))
    IN InOrder({p \in {s[i] : i \in 1..n} : p[1] # 0})

\* get_project_epoch_snapshot_bulk: as many as the interval has epochs, without
\* the null ones.
Valid(lo, hi, w) ==
    LET s == Collected(lo, hi, w)
        n == Smaller(Len(s), hi - Larger(lo, First) + 1)
    IN InOrder({p \in {s[i] : i \in 1..n} : p[1] # 0})

\* get_submission_data_bulk: the CIDs asked of IPFS.  When it must be
\* complete, the list of those missing is overwritten after the first batch,
\* and no later batch asks for anything.
Missing(s) == InOrder({p \in ToSet(s) : cache[p[1]] = "none"})
AskedBatch(s, complete) ==
    LET m == Missing(s)
    IN {m[i][1] : i \in 1..(IF complete THEN Smaller(Batch, Len(m)) ELSE Len(m))}

\* Given those IPFS does not deliver; what was cached once, be it nothing,
\* is the data.
DataOf(cid, gone) ==
    IF cache[cid] # "none" THEN cache[cid]
    ELSE IF cid \in gone THEN "empty" ELSE "data"

\* An epoch no batch asked for raises a KeyError.
FetchedOf(s, gone, complete) ==
    IF complete /\ AskedBatch(s, complete) \cap gone # {} THEN [ok |-> TRUE, snapshots |-> <<>>]
    ELSE IF complete /\ Len(Missing(s)) > Batch THEN Failed
    ELSE [ok |-> TRUE,
          snapshots |-> [i \in DOMAIN s |-> [cid |-> s[i][1], data |-> DataOf(s[i][1], gone)]]]

CacheAfter(asked, gone) ==
    [e \in Epochs |-> IF CacheCids /\ e \in asked THEN DataOf(e, gone) ELSE cache[e]]

\* The bits of a walk are those of Asking and those of its lists; gone: what
\* IPFS does not give.
SnapshotBulk(lo, hi, complete, w) ==
    LET s == Valid(lo, hi, w)
        refused == complete /\ Len(s) # hi - Larger(lo, First) + 1
        asked == IF refused THEN {} ELSE AskedBatch(s, complete)
    IN /\ entries' = AskedOf(Found(w, {"asked", "broken"})) \cup Found(w, {"named", "both"})
       /\ \E marked \in SUBSET Found(w, {"asked", "broken"}) :
              blank' = blank \cup marked \cup Found(w, {"left", "both"})
       /\ pointer' = LastFinalized
       /\ \E gone \in SUBSET asked :
              /\ Serve([kind |-> "bulk", lo |-> lo, hi |-> hi, complete |-> complete, walk |-> w],
                       IF refused THEN [ok |-> TRUE, snapshots |-> <<>>]
                       ELSE FetchedOf(s, gone, complete))
              /\ cache' = CacheAfter(asked, gone)
       /\ UNCHANGED <<submitted, known>>

\* get_project_epoch_snapshot: the epoch, or with seek the closest ones that
\* have an entry.
EpochSnapshot(e, seek, broken) ==
    LET cid == FinalizedCid(e, broken)
        before == {k \in AskedOf({e}) : k <= e}
        after == {k \in AskedOf({e}) : k > e}
    IN [ok |-> TRUE, exact |-> cid,
        previous |-> IF cid = 0 /\ seek /\ before # {} THEN Greatest(before) ELSE 0,
        next |-> IF cid = 0 /\ seek /\ after # {} THEN Least(after) ELSE 0]

ReadEpoch(e, seek, broken) ==
    /\ Serve([kind |-> "epoch", epoch |-> e, seek |-> seek], EpochSnapshot(e, seek, broken))
    /\ Asking({e})
    /\ UNCHANGED <<pointer, submitted, cache, known>>

\* fetch_single_epoch_snapshot: the snapshot of the epoch, or the one before.
ReadNearby(e, broken) ==
    LET found == EpochSnapshot(e, TRUE, broken)
    IN /\ Serve([kind |-> "nearby", epoch |-> e],
                [ok |-> TRUE,
                 exact |-> IF found.exact # 0 THEN found.exact ELSE found.previous])
       /\ Asking({e})
       /\ UNCHANGED <<pointer, submitted, cache, known>>

\* get_project_latest_snapshot: what was submitted last wins.
ReadLatest(broken) ==
    LET target == IF submitted # 0 THEN submitted ELSE LastFinalized
    IN /\ Serve([kind |-> "latest"],
                [ok |-> TRUE,
                 exact |-> IF target = 0 THEN 0 ELSE FinalizedCid(target, broken)])
       /\ Asking({target})
       /\ pointer' = IF submitted # 0 THEN pointer ELSE LastFinalized
       /\ UNCHANGED <<submitted, cache, known>>

-----------------------------------------------------------------------------
(* Time                                                                    *)

\* get_source_chain_block_time: whole seconds, 0 for a faster chain.
BlockTime == RawBlockTime \div Scale

\* Epochs in a length of time.
EpochsIn(seconds) == seconds \div (EpochSize * BlockTime)

\* Mutant: the last step is not held back at the first epoch.
StepsPast(head, step, n) ==
    LET tail[k \in 0..n] == IF k = 0 THEN head ELSE tail[k - 1] - EpochsIn(step)
        taken == {k \in 0..n : k > 0 => tail[k - 1] > First}
    IN [k \in 1..Cardinality(taken) |-> tail[k - 1]]

\* get_project_time_series_data: the epochs it asks for, from the last step
\* before the end back to the start or the first epoch.
Steps(head, step, n) ==
    LET tail[k \in 0..n] ==
            IF k = 0 THEN head ELSE Larger(tail[k - 1] - EpochsIn(step), First)
        taken == {k \in 0..n : k > 0 => tail[k - 1] > First}
    IN [k \in 1..Cardinality(taken) |-> tail[k - 1]]

SeriesOf(start, end, step, epoch) ==
    LET gap == end % step
        head == Larger(epoch - EpochsIn(gap), First)
    IN Steps(head, step, Larger(((end - gap) - start) \div step, 0))

\* The core API refuses a series with no observation.
ReadSeries(start, end, step, epoch) ==
    LET series == SeriesOf(start, end, step, epoch)
    IN /\ (end - start) \div step > 0
       /\ Serve([kind |-> "series", start |-> start, end |-> end, step |-> step,
                 epoch |-> epoch],
                IF BlockTime = 0 THEN Failed ELSE [ok |-> TRUE, epochs |-> series])
       /\ Asking(IF BlockTime = 0 THEN {} ELSE ToSet(series))
       /\ UNCHANGED <<pointer, submitted, cache, known>>

-----------------------------------------------------------------------------
(* Blocks                                                                  *)

\* get_block_number_closest_to_timestamp, of the blocks whose time is known;
\* any of those with the same time.
Closest(S, t, side) ==
    LET within == {b \in S : IF side = "before" THEN Stamp(b) <= t ELSE Stamp(b) >= t}
    IN {b \in within : \A c \in within :
            IF side = "before" THEN Stamp(c) <= Stamp(b) ELSE Stamp(b) <= Stamp(c)}

ReadClosest(t, side) ==
    /\ \/ /\ Closest(known, t, side) = {}
          /\ Serve([kind |-> "closest", time |-> t, side |-> side], Failed)
       \/ \E b \in Closest(known, t, side) :
              Serve([kind |-> "closest", time |-> t, side |-> side], [ok |-> TRUE, block |-> b])
    /\ UNCHANGED redis

\* Division that truncates towards zero, as int(a / b) does.
Truncated(a, b) == IF a >= 0 THEN a \div b ELSE -((-a) \div b)

\* The block the time should be in, counted back from the last one.
Estimate(t) == Len(Stamps) - 1 - Truncated(Stamp(Len(Stamps) - 1) - t, BlockTime)

\* Mutant: the range ends before the estimate.
RangeBefore(t) ==
    IF BlockTime = 0 THEN {}
    ELSE {b \in Blocks : b \in (Estimate(t) - Reach)..(Estimate(t) - 1)}

FetchRange(t) ==
    IF BlockTime = 0 THEN {}
    ELSE {b \in Blocks : b \in (Estimate(t) - Reach)..(Estimate(t) + Reach)}

\* fetch_block_timestamps keeps what the node gives; a batch or a block that
\* fails is left out.
Kept(blocks, lost) == known \cup (blocks \ lost)

\* _fallback_fetch_block_at_timestamp: block 0 passes for none.
ReadFallback(t, side, lost) ==
    LET now == Kept(FetchRange(t), lost)
        asked == [kind |-> "fallback", time |-> t, side |-> side, whole |-> lost = {}]
    IN /\ known' = now
       /\ \/ /\ BlockTime = 0 \/ Closest(now, t, side) = {} \/ 0 \in Closest(now, t, side)
             /\ Serve(asked, Failed)
          \/ /\ BlockTime # 0
             /\ \E b \in Closest(now, t, side) \ {0} :
                    Serve(asked, [ok |-> TRUE, block |-> b])
       /\ UNCHANGED <<pointer, submitted, entries, blank, cache>>

-----------------------------------------------------------------------------

Sides == {"before", "after"}

Next ==
    \/ \E e \in Epochs :
           Finalize(e) \/ Note(e) \/ Submit(e) \/ LeaveOut(e) \/ Expire(e) \/ CacheCid(e)
    \/ \E lo, hi \in Epochs :
           lo <= hi /\ \E w \in Walks(lo, hi), complete \in BOOLEAN : SnapshotBulk(lo, hi, complete, w)
    \/ \E e \in Epochs, broken \in BOOLEAN :
           ReadNearby(e, broken) \/ \E seek \in BOOLEAN : ReadEpoch(e, seek, broken)
    \/ \E broken \in BOOLEAN : ReadLatest(broken)
    \/ \E start, end \in Times, step \in Spans, e \in Epochs : ReadSeries(start, end, step, e)
    \/ \E t \in Times, side \in Sides : ReadClosest(t, side)
    \/ \E t \in Times : \E side \in Sides, lost \in SUBSET FetchRange(t) :
           ReadFallback(t, side, lost)

Spec == Init /\ [][Next]_vars

-----------------------------------------------------------------------------
(* Properties                                                              *)

\* This step is a request of this kind.
Answers(kind) == request'.kind = kind

\* A bulk answer names each epoch once and in order, and only epochs of the
\* interval that have an entry by then.  With ensure_complete it has all the
\* epochs since the first one, or nothing.  Without it no epoch with an entry
\* is left out, and no finalized one but those whose bit was set, that a list
\* leaves out or whose snapshot could not be read.  Only each epoch the walk
\* answers twice, a null and a CID, may cost the interval an epoch at its end.
BulkAnswer ==
    Answers("bulk") /\ answer'.ok =>
        LET r == request'
            s == answer'.snapshots
            cids == {s[i].cid : i \in DOMAIN s}
            all == Larger(r.lo, First)..r.hi
            sure == {e \in Ids(r.lo, r.hi) : e <= r.hi - Cardinality(Twice(r.walk))}
        IN /\ \A i, j \in DOMAIN s : i < j => s[i].cid < s[j].cid
           /\ cids \subseteq all \cap entries'
           /\ r.complete => s = <<>> \/ cids = all
           /\ ~r.complete =>
                  sure \cap (entries \cup final)
                      \subseteq cids \cup (blank \ entries) \cup Found(r.walk, {"left", "broken"})

\* Bulk reads answer that way.
BulkIsAligned == [][BulkAnswer]_vars

\* The observations of a time series are one step apart, to less than an
\* epoch, and stay between the project's first epoch and the one asked for;
\* only the last one may be closer, when it is the first epoch, and none is
\* missing unless the first epoch was reached.
SeriesAnswer ==
    Answers("series") /\ answer'.ok =>
        LET s == answer'.epochs
            n == Len(s)
            length == EpochSize * BlockTime
            apart(i) == (s[i] - s[i + 1]) * length
            r == request'
        IN /\ \A i \in 1..n : First <= s[i] /\ s[i] <= Larger(r.epoch, First)
           /\ \A i \in 1..(n - 1) :
                  /\ apart(i) <= r.step
                  /\ apart(i) > r.step - length \/ (i = n - 1 /\ s[n] = First)
           /\ s[n] = First \/ n = 1 + ((r.end - (r.end % r.step)) - r.start) \div r.step

\* Time series are spaced that way.
SeriesIsSpaced == [][SeriesAnswer]_vars

\* The block a lookup gives is on the side of the time that was asked for.
\* After a fallback that lost nothing, if the block closest to the time is
\* within the range it fetches, it gives a block of that very time; and it
\* only fails when there is none, or it is block 0, or its range misses it.
ClosestAnswer ==
    Answers("closest") \/ Answers("fallback") =>
        LET r == request'
            true == Closest(Blocks, r.time, r.side)
            reached == {b \in true : b \in (Estimate(r.time) - Reach)..(Estimate(r.time) + Reach)}
        IN /\ answer'.ok =>
                  IF r.side = "before" THEN Stamp(answer'.block) <= r.time
                  ELSE Stamp(answer'.block) >= r.time
           /\ r.kind = "fallback" /\ r.whole =>
                  \/ true = {} /\ ~answer'.ok
                  \/ BlockTime = 0
                  \/ true # {} /\ reached = {}
                  \/ answer'.ok /\ \E b \in true : Stamp(b) = Stamp(answer'.block)
                  \/ 0 \in true /\ ~answer'.ok

\* Lookups of blocks by time answer that way.
BlockIsClosest == [][ClosestAnswer]_vars
=============================================================================
