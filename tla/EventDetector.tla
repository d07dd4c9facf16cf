---------------------------- MODULE EventDetector ----------------------------
(***************************************************************************)
(* The system event detector (snapshotter/system_event_detector.py): one   *)
(* process that polls the anchor chain, fetches the logs of the blocks it  *)
(* has not seen, enqueues their events for the processor distributor and   *)
(* keeps its position in Redis.                                            *)
(*                                                                         *)
(* Abstractions: the events of a block travel together, so a block number  *)
(* stands for them; an epoch is named by the block that released it.  The  *)
(* RPC node answers with any head it may have (it can lag), or fails; a    *)
(* failed poll changes nothing and is a stuttering step.                   *)
(***************************************************************************)
EXTENDS Integers

CONSTANTS MaxHeight,    \* bound: the chain stops growing there
          CatchUp,      \* distance at which old blocks are given up (10 in the code)
          NodeLag,      \* how far behind the head an RPC node may answer
          EpochBlocks,  \* blocks that carry an EpochReleased event
          MaxRestarts,  \* bound on exits of the process, of any kind
          MaxRewinds    \* bound on scans answered by a node behind the cursor

ASSUME DetectorAssumption ==
    /\ MaxHeight \in Nat \ {0}
    /\ CatchUp \in Nat \ {0}
    /\ NodeLag \in Nat
    /\ EpochBlocks \subseteq 1..MaxHeight
    /\ MaxRestarts \in Nat
    /\ MaxRewinds \in Nat

VARIABLES
    height,        \* head of the anchor chain (outside the process)
    saved,         \* Redis: event_detector_last_processed_block, 0 = no key
    lastDetected,  \* Redis: last_epoch_detected_epoch_id, 0 = no key
    pc,            \* where the process is
    simDone,       \* _simulation_completed
    shutdown,      \* _shutdown_initiated
    cursor,        \* _last_processed_block, 0 = None
    current,       \* current_block of the iteration
    at,            \* next block whose events are to be broadcast
    copies,        \* history: times the events of each block were enqueued
    skipped,       \* history: blocks given up without being scanned
    restarts,      \* history: exits of the process
    rewinds        \* history: scans with the head behind the cursor

redis == <<saved, lastDetected>>
local == <<simDone, shutdown, cursor, current, at>>
history == <<copies, skipped, restarts, rewinds>>
vars == <<height, redis, pc, local, history>>

Blocks == 1..MaxHeight

TypeOK ==
    /\ height \in Blocks
    /\ saved \in 0..height
    /\ lastDetected \in 0..height
    /\ pc \in {"boot", "simulate", "poll", "fetch", "cast", "save", "down"}
    /\ simDone \in BOOLEAN
    /\ shutdown \in BOOLEAN
    /\ cursor \in 0..height
    /\ current \in 0..height
    /\ at \in 0..(MaxHeight + 1)
    /\ copies \in [Blocks -> Nat]
    /\ skipped \in SUBSET (1..height)
    /\ restarts \in 0..MaxRestarts
    /\ rewinds \in 0..MaxRewinds

Init ==
    /\ height = 1
    /\ saved = 0
    /\ lastDetected = 0
    /\ pc = "boot"
    /\ simDone = FALSE
    /\ shutdown = FALSE
    /\ cursor = 0
    /\ current = 0
    /\ at = 0
    /\ copies = [b \in Blocks |-> 0]
    /\ skipped = {}
    /\ restarts = 0
    /\ rewinds = 0

-----------------------------------------------------------------------------
(* The anchor chain. *)

Mine ==
    /\ height < MaxHeight
    /\ height' = height + 1
    /\ UNCHANGED <<redis, pc, local, history>>

\* get_current_block: any head a node in rotation may report.
HeadAnswers == {c \in 1..height : c >= height - NodeLag}

-----------------------------------------------------------------------------
(* init(): the simulation event (epoch 0) goes out first, then the process *)
(* waits out its 120 seconds and opens the gate of _broadcast_event.       *)

BroadcastSimulation ==
    /\ pc = "boot"
    /\ pc' = "simulate"
    /\ UNCHANGED <<height, redis, local, history>>

SimulationOver ==
    /\ pc = "simulate"
    /\ simDone' = TRUE
    /\ pc' = "poll"
    /\ UNCHANGED <<height, redis, shutdown, cursor, current, at, history>>

-----------------------------------------------------------------------------
(* _detect_events *)

\* Mutant: nothing is read back from Redis after a restart.
ResumedLocally == cursor

\* "Only use redis if state is not locally present".
Resumed == IF cursor = 0 THEN saved ELSE cursor

\* Where the scan starts after: far behind, it jumps to CatchUp blocks
\* before the head.
ScanAfter(c) ==
    IF Resumed # 0 /\ c - Resumed >= CatchUp THEN c - CatchUp ELSE Resumed

\* The blocks a poll that answers c gives up: those the jump passes over
\* or, with no position at all, everything before the head.
GivenUp(c) ==
    IF Resumed = 0 THEN 1..(c - 1) ELSE (Resumed + 1)..ScanAfter(c)

Poll(c) ==
    /\ pc = "poll"
    /\ c \in HeadAnswers
    /\ current' = c
    /\ IF c = Resumed
         THEN /\ cursor' = Resumed
              /\ pc' = "poll"
              /\ UNCHANGED skipped
         ELSE /\ cursor' = ScanAfter(c)
              /\ skipped' = skipped \cup GivenUp(c)
              /\ pc' = "fetch"
    /\ UNCHANGED <<height, redis, simDone, shutdown, at, copies, restarts, rewinds>>

\* Mutant: the range starts at the last processed block.
FromInclusive == IF cursor = 0 THEN current ELSE cursor

\* First block of the range asked of get_events.
From == IF cursor = 0 THEN current ELSE cursor + 1

\* Mutant: the first epoch of the range is recorded, not the newest.
NoteFirst ==
    LET epochs == EpochBlocks \cap (From..current)
    IN IF epochs = {}
         THEN UNCHANGED lastDetected
         ELSE \E e \in epochs : /\ \A f \in epochs : e <= f
                                /\ lastDetected' = e

\* get_events records the newest epoch of the range before anything is
\* enqueued.
NoteEpoch ==
    LET epochs == EpochBlocks \cap (From..current)
    IN IF epochs = {}
         THEN UNCHANGED lastDetected
         ELSE \E e \in epochs : /\ \A f \in epochs : f <= e
                                /\ lastDetected' = e

FetchEvents ==
    /\ pc = "fetch"
    /\ IF From <= current
         THEN UNCHANGED rewinds
         ELSE /\ rewinds < MaxRewinds   \* the node accepts the empty range
              /\ rewinds' = rewinds + 1
    /\ NoteEpoch
    /\ at' = From
    /\ pc' = "cast"
    /\ UNCHANGED <<height, saved, simDone, shutdown, cursor, current,
                   copies, skipped, restarts>>

\* Mutant: a failed fetch is taken for an empty answer.
FetchFailsEmpty ==
    /\ pc = "fetch"
    /\ NoteEpoch \/ UNCHANGED lastDetected
    /\ at' = current + 1
    /\ pc' = "cast"
    /\ UNCHANGED <<height, saved, simDone, shutdown, cursor, current, history>>

\* Any exception of get_events: the cursor keeps the jump Poll made.  The
\* epoch may have been recorded before the exception.
FetchFails ==
    /\ pc = "fetch"
    /\ NoteEpoch \/ UNCHANGED lastDetected
    /\ pc' = "poll"
    /\ UNCHANGED <<height, saved, local, history>>

\* Mutant: the loop runs one block past the range.
BroadcastOverrun ==
    /\ pc = "cast"
    /\ at <= current + 1
    /\ copies' = IF simDone THEN [copies EXCEPT ![at] = @ + 1] ELSE copies
    /\ at' = at + 1
    /\ UNCHANGED <<height, redis, pc, simDone, shutdown, cursor, current,
                   skipped, restarts, rewinds>>

\* _broadcast_event: enqueued only once the simulation is over.
Broadcast ==
    /\ pc = "cast"
    /\ at <= current
    /\ copies' = IF simDone THEN [copies EXCEPT ![at] = @ + 1] ELSE copies
    /\ at' = at + 1
    /\ UNCHANGED <<height, redis, pc, simDone, shutdown, cursor, current,
                   skipped, restarts, rewinds>>

BroadcastDone ==
    /\ pc = "cast"
    /\ at > current
    /\ cursor' = current
    /\ pc' = "save"
    /\ UNCHANGED <<height, redis, simDone, shutdown, current, at, history>>

\* Mutant: the position is persisted before the events are enqueued.
SaveEarly ==
    /\ pc \in {"cast", "save"}
    /\ saved' = current
    /\ pc' = IF pc = "save" THEN "poll" ELSE pc
    /\ UNCHANGED <<height, lastDetected, local, history>>

Save ==
    /\ pc = "save"
    /\ saved' = current
    /\ pc' = "poll"
    /\ UNCHANGED <<height, lastDetected, local, history>>

-----------------------------------------------------------------------------
(* Exits.  The container restarts the process ("unless-stopped").          *)

Exit ==
    /\ pc # "down"
    /\ restarts < MaxRestarts
    /\ restarts' = restarts + 1
    /\ pc' = "down"
    /\ simDone' = FALSE
    /\ shutdown' = FALSE
    /\ cursor' = 0
    /\ current' = 0
    /\ at' = 0
    /\ UNCHANGED <<height, lastDetected, copies, skipped, rewinds>>

\* SIGKILL, or an exception no handler of the loop catches (Redis errors,
\* enqueue errors): redis_cleanup logs it and exits without saving.
Crash ==
    /\ Exit
    /\ UNCHANGED saved

\* Mutant: the head being processed is stored instead of the position.
SignalExitAhead ==
    /\ ~shutdown
    /\ Exit
    /\ saved' = IF current = 0 THEN saved ELSE current

\* SIGTERM and its like: the first one raises GenericExitOnSignal, and
\* redis_cleanup stores the position if there is one.
SignalExit ==
    /\ ~shutdown
    /\ Exit
    /\ saved' = IF cursor = 0 THEN saved ELSE cursor

\* GenericExitOnSignal is an Exception: raised while one of the guarded
\* blocks runs, `except Exception` takes it for a failed call.
SignalSwallowed ==
    /\ ~shutdown
    /\ pc \in {"simulate", "poll", "fetch"}
    /\ shutdown' = TRUE
    /\ simDone' = TRUE
    /\ pc' = "poll"
    /\ (pc = "fetch" /\ NoteEpoch) \/ UNCHANGED lastDetected
    /\ UNCHANGED <<height, saved, cursor, current, at, history>>

Restart ==
    /\ pc = "down"
    /\ pc' = "boot"
    /\ UNCHANGED <<height, redis, local, history>>

-----------------------------------------------------------------------------
Next ==
    \/ Mine
    \/ BroadcastSimulation
    \/ SimulationOver
    \/ \E c \in Blocks : Poll(c)
    \/ FetchEvents
    \/ FetchFails
    \/ Broadcast
    \/ BroadcastDone
    \/ Save
    \/ Crash
    \/ SignalExit
    \/ SignalSwallowed
    \/ Restart

Spec == Init /\ [][Next]_vars

\* The loop never stops by itself and polls again after every failure; an
\* RPC node that is retried for ever answers with the true head, and with
\* its logs, again and again.
Fairness ==
    /\ WF_vars(BroadcastSimulation)
    /\ WF_vars(SimulationOver)
    /\ SF_vars(Poll(height))
    /\ WF_vars(FetchEvents \/ FetchFails)
    /\ SF_vars(FetchEvents)
    /\ WF_vars(Broadcast)
    /\ WF_vars(BroadcastDone)
    /\ WF_vars(Save)
    /\ WF_vars(Restart)

FairSpec == Spec /\ Fairness

-----------------------------------------------------------------------------
(* Properties *)

Settled(b) == copies[b] > 0 \/ b \in skipped

\* Whatever the interleaving of broadcasts, failures, exits and node lag,
\* a restart never resumes after a block whose events were neither enqueued
\* nor given up: the position is persisted behind the broadcast.
AtLeastOnce == \A b \in 1..saved : Settled(b)

Announced(b) == b <= lastDetected \/ b \in skipped

\* The marker of the newest epoch is written before the range it comes from
\* is broadcast: no epoch that was read for a broadcast, or that a position
\* in memory or in Redis covers, is newer than the marker Redis announces,
\* unless its block was given up.  An enqueued epoch can only be newer than
\* the marker when it lies beyond every position, to be scanned again.
MarkerIsCurrent ==
    \A b \in EpochBlocks :
       b <= saved \/ b <= cursor \/ (pc = "cast" /\ b <= current) => Announced(b)

\* The events of a block are repeated only by an exit of the process or by
\* a node that answered with a head behind the cursor, once for each.
BoundedRepeats == \A b \in Blocks : copies[b] <= 1 + restarts + rewinds

\* Blocks are given up only when no position is known at all, or when they
\* are CatchUp blocks or more behind the head: in particular a restart
\* honours the position kept in Redis.
SkipsOnlyOldBlocks ==
    [][ \/ cursor = 0 /\ saved = 0
        \/ \A b \in skipped' \ skipped : b + CatchUp <= height ]_vars

Feed == INSTANCE EventFeed
          WITH settled <- {b \in Blocks : Settled(b)}, mark <- saved

\* The detector implements the abstract feed: every checkpoint it writes,
\* on the normal path and on the way out, covers settled blocks only.
ImplementsFeed == Feed!Spec

\* Every block of the chain is eventually enqueued or given up.
EveryBlockSettles == \A b \in Blocks : b <= height ~> Settled(b)

\* _generic_exit_handler: "Handles the generic exit signal and initiates
\* shutdown": a signal that was taken ends the process.
SignalEndsProcess == shutdown ~> pc = "down"
=============================================================================
