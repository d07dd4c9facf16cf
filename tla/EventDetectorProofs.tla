------------------------- MODULE EventDetectorProofs -------------------------
(***************************************************************************)
(* Theorems of the event detector, for every chain height, catch-up        *)
(* distance, node lag and number of restarts.                              *)
(*                                                                         *)
(* AtLeastOnce is not inductive: that a checkpoint covers settled blocks   *)
(* only depends on what the process has done since it read its position,   *)
(* so the invariant has one clause per program location: everything below  *)
(* the cursor is settled, and during a broadcast everything below `at'.    *)
(***************************************************************************)
EXTENDS EventDetector, TLAPS

\* The process has a position and scans above it, or scans the head alone.
ScanFloor == IF cursor = 0 THEN current - 1 ELSE cursor

CursorSettled == \A b \in 1..cursor : Settled(b)

FloorSettled == pc \in {"fetch", "cast"} => \A b \in 1..ScanFloor : Settled(b)

CastSettled ==
    pc = "cast" => /\ at > ScanFloor
                   /\ at <= current + 1 \/ From > current
                   /\ \A b \in 1..current : b < at => Settled(b)

OnChain == \A b \in Blocks : Settled(b) => b <= height

GateOpen == pc \in {"poll", "fetch", "cast", "save"} => simDone

\* The position in Redis does not run ahead of the one in memory until it
\* is about to be replaced.
SavedBehind ==
    /\ pc \in {"poll", "fetch", "cast"} /\ cursor # 0 => saved <= cursor
    /\ pc \in {"fetch", "cast"} /\ cursor = 0 => saved = 0

AtHome ==
    /\ pc \in {"fetch", "cast", "save"} => current # 0
    /\ pc = "save" => cursor = current
    /\ pc \in {"boot", "simulate", "down"} => cursor = 0

PositionInv ==
    /\ TypeOK
    /\ OnChain
    /\ AtLeastOnce
    /\ CursorSettled
    /\ FloorSettled
    /\ CastSettled
    /\ GateOpen
    /\ SavedBehind
    /\ AtHome

\* Blocks the process has not broadcast since it last started or rewound.
Untouched(b) ==
    IF pc = "cast" THEN From > current \/ b >= at ELSE b > cursor

RepeatInv ==
    /\ BoundedRepeats
    /\ \A b \in Blocks : Untouched(b) => copies[b] <= restarts + rewinds
-----------------------------------------------------------------------------
(* Facts about the operators. *)

LEMMA InitTyped == Init => TypeOK
<1> SUFFICES ASSUME Init
             PROVE  TypeOK
  OBVIOUS
<1>1. simDone \in BOOLEAN /\ shutdown \in BOOLEAN
  BY Zenon DEF Init
<1>2. height \in Blocks /\ copies \in [Blocks -> Nat] /\ skipped \in SUBSET (1..height)
  BY DetectorAssumption DEF DetectorAssumption, Init, Blocks
<1>3. /\ saved \in 0..height /\ lastDetected \in 0..height
      /\ cursor \in 0..height /\ current \in 0..height /\ at \in 0..(MaxHeight + 1)
      /\ restarts \in 0..MaxRestarts /\ rewinds \in 0..MaxRewinds
  BY DetectorAssumption DEF DetectorAssumption, Init
<1>4. QED
  BY <1>1, <1>2, <1>3 DEF Init, TypeOK

\* An epoch recorded by get_events lies in the scanned range.
LEMMA NotedEpochInRange ==
  ASSUME TypeOK, NoteEpoch
  PROVE  \/ lastDetected' = lastDetected
         \/ lastDetected' \in From..current
  BY DEF NoteEpoch

LEMMA FromIsAboveFloor ==
  ASSUME TypeOK
  PROVE  From = ScanFloor + 1
  BY DEF From, ScanFloor, TypeOK

\* What the type invariant says of the numbers alone.
LEMMA Numbers ==
  ASSUME TypeOK
  PROVE  /\ height \in Nat /\ MaxHeight \in Nat /\ CatchUp \in Nat /\ CatchUp > 0
         /\ height >= 1 /\ height <= MaxHeight
         /\ saved \in Nat /\ saved <= height
         /\ lastDetected \in Nat /\ lastDetected <= height
         /\ cursor \in Nat /\ cursor <= height
         /\ current \in Nat /\ current <= height
         /\ at \in Nat /\ at <= MaxHeight + 1
  BY DetectorAssumption DEF DetectorAssumption, TypeOK, Blocks

\* A poll moves the position forward, over blocks it gives up.
LEMMA ScanAfterBounds ==
  ASSUME TypeOK, NEW c \in 1..height
  PROVE  /\ Resumed \in 0..height
         /\ ScanAfter(c) \in 0..height
         /\ Resumed <= ScanAfter(c)
         /\ (ScanAfter(c) = 0) <=> (Resumed = 0)
         /\ GivenUp(c) \subseteq 1..height
<1>1. Resumed \in 0..height
  BY Numbers DEF Resumed
<1>2. /\ ScanAfter(c) \in 0..height
      /\ Resumed <= ScanAfter(c)
      /\ (ScanAfter(c) = 0) <=> (Resumed = 0)
  BY <1>1, Numbers DEF ScanAfter
<1>3. GivenUp(c) \subseteq 1..height
  BY <1>1, <1>2, Numbers DEF GivenUp
<1>4. QED
  BY <1>1, <1>2, <1>3

-----------------------------------------------------------------------------
(* Type correctness. *)

LEMMA TypePreserved == TypeOK /\ [Next]_vars => TypeOK'
<1> SUFFICES ASSUME TypeOK, [Next]_vars
             PROVE  TypeOK'
  OBVIOUS
<1> USE DEF redis, local, history
<1>1. CASE Mine
  <2>1. height' \in Blocks /\ height \in 0..height' /\ 1..height \subseteq 1..height'
    BY <1>1, Numbers DEF Mine, Blocks
  <2>2. /\ saved' \in 0..height' /\ lastDetected' \in 0..height'
        /\ cursor' \in 0..height' /\ current' \in 0..height'
    BY <1>1, <2>1, Numbers DEF Mine
  <2>3. skipped' \in SUBSET (1..height')
    BY <1>1, <2>1 DEF Mine, TypeOK
  <2>4. QED
    BY <1>1, <2>1, <2>2, <2>3 DEF Mine, TypeOK
<1>2. CASE BroadcastSimulation
  BY <1>2 DEF BroadcastSimulation, TypeOK, Blocks
<1>3. CASE SimulationOver
  BY <1>3 DEF SimulationOver, TypeOK, Blocks
<1>4. ASSUME NEW c \in Blocks, Poll(c)
      PROVE  TypeOK'
  <2>1. c \in 1..height
    BY <1>4 DEF Poll, HeadAnswers
  <2>2. cursor' \in 0..height /\ pc' \in {"poll", "fetch"}
    BY <1>4, <2>1, ScanAfterBounds DEF Poll
  <2>3. skipped' \in SUBSET (1..height)
    BY <1>4, <2>1, ScanAfterBounds DEF Poll, TypeOK
  <2>4. current' \in 0..height
    BY <1>4, <2>1, Numbers DEF Poll
  <2>5. QED
    BY <1>4, <2>2, <2>3, <2>4 DEF Poll, TypeOK, Blocks
<1>5. CASE FetchEvents
  <2>1. NoteEpoch
    BY <1>5 DEF FetchEvents
  <2>2. lastDetected' \in 0..height
    BY <2>1, NotedEpochInRange, Numbers DEF From
  <2>3. at' \in 0..(MaxHeight + 1)
    BY <1>5, Numbers DEF FetchEvents, From
  <2>4. rewinds' \in 0..MaxRewinds
    BY <1>5, DetectorAssumption DEF FetchEvents, TypeOK, DetectorAssumption
  <2>5. QED
    BY <1>5, <2>2, <2>3, <2>4 DEF FetchEvents, TypeOK, Blocks
<1>6. CASE FetchFails
  <2>1. lastDetected' \in 0..height
    BY <1>6, NotedEpochInRange, Numbers DEF FetchFails, From
  <2>2. QED
    BY <1>6, <2>1 DEF FetchFails, TypeOK, Blocks
<1>7. CASE Broadcast
  <2>1. at' \in 0..(MaxHeight + 1)
    BY <1>7, Numbers DEF Broadcast
  <2>2. copies \in [Blocks -> Nat] /\ current \in 0..height /\ height \in Blocks
    BY DEF TypeOK
  <2>3. copies' \in [Blocks -> Nat]
    <3>1. \/ copies' = copies
          \/ copies' = [copies EXCEPT ![at] = copies[at] + 1]
      BY <1>7 DEF Broadcast
    <3>2. \A b \in Blocks : copies[b] + 1 \in Nat
      BY <2>2
    <3>3. [copies EXCEPT ![at] = copies[at] + 1] \in [Blocks -> Nat]
      BY <2>2, <3>2, Zenon
    <3>4. QED
      BY <2>2, <3>1, <3>3
  <2>4. UNCHANGED <<height, redis, pc, simDone, shutdown, cursor, current,
                    skipped, restarts, rewinds>>
    BY <1>7 DEF Broadcast
  <2>5. QED
    BY <2>1, <2>3, <2>4 DEF TypeOK, Blocks
<1>8. CASE BroadcastDone
  BY <1>8 DEF BroadcastDone, TypeOK, Blocks
<1>9. CASE Save
  BY <1>9 DEF Save, TypeOK, Blocks
<1>10. ASSUME Exit, saved' \in 0..height
       PROVE  TypeOK'
  <2>1. restarts' \in 0..MaxRestarts
    BY <1>10, DetectorAssumption DEF Exit, TypeOK, DetectorAssumption
  <2>2. cursor' \in 0..height /\ current' \in 0..height /\ at' \in 0..(MaxHeight + 1)
    BY <1>10, Numbers DEF Exit
  <2>3. QED
    BY <1>10, <2>1, <2>2 DEF Exit, TypeOK, Blocks
<1>11. CASE Crash
  BY <1>10, <1>11 DEF Crash, TypeOK
<1>12. CASE SignalExit
  BY <1>10, <1>12 DEF SignalExit, TypeOK
<1>13. CASE SignalSwallowed
  <2>1. lastDetected' \in 0..height
    BY <1>13, NotedEpochInRange, Numbers DEF SignalSwallowed, From
  <2>2. QED
    BY <1>13, <2>1 DEF SignalSwallowed, TypeOK, Blocks
<1>14. CASE Restart
  BY <1>14 DEF Restart, TypeOK, Blocks
<1>15. CASE UNCHANGED vars
  BY <1>15 DEF vars, TypeOK, Blocks
<1>16. QED
  BY <1>1, <1>2, <1>3, <1>4, <1>5, <1>6, <1>7, <1>8, <1>9, <1>11, <1>12,
     <1>13, <1>14, <1>15 DEF Next

\* Every variable keeps its type: the position and the marker in Redis never
\* pass the head of the chain, and the exits stay within their bound.
THEOREM TypeCorrect == Spec => []TypeOK
<1>1. Init => TypeOK
  BY InitTyped
<1>2. TypeOK /\ [Next]_vars => TypeOK'
  BY TypePreserved
<1>3. QED
  BY <1>1, <1>2, PTL DEF Spec
-----------------------------------------------------------------------------
(* The position covers settled blocks only. *)

\* A settled block stays settled, whatever the step.
LEMMA SettledGrows ==
  ASSUME TypeOK, [Next]_vars, NEW b \in Blocks, Settled(b)
  PROVE  Settled(b)'
<1>1. CASE UNCHANGED <<copies, skipped>>
  BY <1>1 DEF Settled
<1>2. ASSUME NEW c \in Blocks, Poll(c)
      PROVE  copies' = copies /\ skipped \subseteq skipped'
  BY <1>2 DEF Poll
<1>3. CASE Broadcast
  <2>1. copies \in [Blocks -> Nat] /\ skipped' = skipped
    BY <1>3 DEF Broadcast, TypeOK
  <2>2. copies'[b] = copies[b] \/ copies'[b] = copies[b] + 1
    BY <1>3, <2>1 DEF Broadcast
  <2>3. QED
    BY <2>1, <2>2 DEF Settled
<1>4. QED
  BY <1>1, <1>2, <1>3 DEF Next, Mine, BroadcastSimulation, SimulationOver,
     FetchEvents, FetchFails, BroadcastDone, Save, Crash, SignalExit, Exit,
     SignalSwallowed, Restart, vars, redis, local, history, Settled

LEMMA PositionStart == Init => PositionInv
  BY InitTyped DEF Init, PositionInv, OnChain, AtLeastOnce, CursorSettled,
     FloorSettled, CastSettled, GateOpen, SavedBehind, AtHome, Settled, Blocks

LEMMA PositionPreserved == PositionInv /\ [Next]_vars => PositionInv'
<1> SUFFICES ASSUME PositionInv, [Next]_vars
             PROVE  PositionInv'
  OBVIOUS
<1>typed. TypeOK /\ TypeOK'
  BY TypePreserved DEF PositionInv
<1>old. OnChain /\ AtLeastOnce /\ CursorSettled /\ FloorSettled /\ CastSettled
         /\ GateOpen /\ SavedBehind /\ AtHome
  BY DEF PositionInv
<1>num. /\ height \in Nat /\ MaxHeight \in Nat /\ height >= 1 /\ height <= MaxHeight
        /\ saved \in Nat /\ saved <= height
        /\ cursor \in Nat /\ cursor <= height
        /\ current \in Nat /\ current <= height
        /\ at \in Nat
  BY <1>typed, Numbers
<1> USE DEF redis, local, history, Blocks
<1>1. CASE Mine
  <2>1. \A b \in Blocks : Settled(b)' <=> Settled(b)
    BY <1>1 DEF Mine, Settled
  <2>2. OnChain' /\ AtLeastOnce' /\ CursorSettled'
    BY <1>1, <1>old, <1>num, <2>1 DEF Mine, OnChain, AtLeastOnce, CursorSettled
  <2>3. FloorSettled' /\ CastSettled'
    BY <1>1, <1>old, <1>num, <2>1
       DEF Mine, FloorSettled, CastSettled, ScanFloor, From
  <2>4. GateOpen' /\ SavedBehind' /\ AtHome'
    BY <1>1, <1>old DEF Mine, GateOpen, SavedBehind, AtHome
  <2>5. QED
    BY <1>typed, <2>2, <2>3, <2>4 DEF PositionInv
<1>2. CASE BroadcastSimulation \/ SimulationOver \/ Restart \/ UNCHANGED vars
  <2>1. UNCHANGED <<height, saved, cursor, current, at, copies, skipped>>
    BY <1>2 DEF BroadcastSimulation, SimulationOver, Restart, vars
  <2>2. OnChain' /\ AtLeastOnce' /\ CursorSettled'
    BY <1>old, <2>1 DEF OnChain, AtLeastOnce, CursorSettled, Settled
  <2>3. FloorSettled' /\ CastSettled' /\ GateOpen' /\ SavedBehind' /\ AtHome'
    BY <1>2, <1>old, <1>num DEF BroadcastSimulation, SimulationOver, Restart, vars,
       FloorSettled, CastSettled, GateOpen, SavedBehind, AtHome, ScanFloor, From, Settled
  <2>4. QED
    BY <1>typed, <2>2, <2>3 DEF PositionInv
<1>3. ASSUME NEW c \in Blocks, Poll(c)
      PROVE  PositionInv'
  <2>1. c \in 1..height
    BY <1>3, <1>num DEF Poll, HeadAnswers
  <2>2. /\ Resumed \in 0..height
        /\ ScanAfter(c) \in 0..height
        /\ Resumed <= ScanAfter(c)
        /\ (ScanAfter(c) = 0) <=> (Resumed = 0)
        /\ GivenUp(c) \subseteq 1..height
    BY <1>typed, <2>1, ScanAfterBounds
  <2>3. \A b \in 1..Resumed : Settled(b)
    BY <1>old DEF Resumed, AtLeastOnce, CursorSettled
  <2>4. pc = "poll" /\ current' = c /\ UNCHANGED <<height, saved, simDone, copies>>
    BY <1>3 DEF Poll
  <2>5. CASE c = Resumed
    <3>1. cursor' = c /\ pc' = "poll" /\ skipped' = skipped
      BY <1>3, <2>5 DEF Poll
    <3>2. \A b \in Blocks : Settled(b)' <=> Settled(b)
      BY <2>4, <3>1 DEF Settled
    <3>3. OnChain' /\ AtLeastOnce' /\ CursorSettled'
      BY <1>old, <1>num, <2>1, <2>3, <2>4, <2>5, <3>1, <3>2
         DEF OnChain, AtLeastOnce, CursorSettled
    <3>4. FloorSettled' /\ CastSettled' /\ GateOpen' /\ AtHome'
      BY <1>old, <2>4, <3>1 DEF FloorSettled, CastSettled, GateOpen, AtHome
    <3>5. SavedBehind'
      BY <1>old, <1>num, <2>4, <2>5, <3>1 DEF SavedBehind, Resumed
    <3>6. QED
      BY <1>typed, <3>3, <3>4, <3>5 DEF PositionInv
  <2>6. CASE c # Resumed
    <3>1. /\ cursor' = ScanAfter(c) /\ pc' = "fetch"
          /\ skipped' = skipped \cup GivenUp(c)
      BY <1>3, <2>6 DEF Poll
    <3>2. \A b \in Blocks : Settled(b)' <=> Settled(b) \/ b \in GivenUp(c)
      BY <2>4, <3>1 DEF Settled
    <3>3. \A b \in 1..ScanAfter(c) : Settled(b)'
      BY <1>num, <2>1, <2>2, <2>3, <3>2 DEF GivenUp
    <3>4. Resumed = 0 => \A b \in 1..(c - 1) : Settled(b)'
      BY <1>num, <2>1, <3>2 DEF GivenUp
    <3>5. OnChain' /\ AtLeastOnce' /\ CursorSettled'
      BY <1>old, <1>num, <2>2, <2>4, <3>1, <3>2, <3>3
         DEF OnChain, AtLeastOnce, CursorSettled
    <3>6. FloorSettled'
      BY <2>2, <2>4, <3>1, <3>3, <3>4 DEF FloorSettled, ScanFloor
    <3>7. CastSettled' /\ GateOpen' /\ AtHome'
      BY <1>old, <2>1, <2>4, <3>1 DEF CastSettled, GateOpen, AtHome
    <3>8. SavedBehind'
      BY <1>old, <1>num, <2>2, <2>4, <3>1 DEF SavedBehind, Resumed
    <3>9. QED
      BY <1>typed, <3>5, <3>6, <3>7, <3>8 DEF PositionInv
  <2>7. QED
    BY <2>5, <2>6
<1>4. CASE FetchEvents
  <2>1. /\ pc = "fetch" /\ pc' = "cast" /\ at' = From
        /\ UNCHANGED <<height, saved, simDone, cursor, current, copies, skipped>>
    BY <1>4 DEF FetchEvents
  <2>2. OnChain' /\ AtLeastOnce' /\ CursorSettled'
    BY <1>old, <2>1 DEF OnChain, AtLeastOnce, CursorSettled, Settled
  <2>3. FloorSettled' /\ GateOpen' /\ SavedBehind' /\ AtHome'
    BY <1>old, <2>1 DEF FloorSettled, GateOpen, SavedBehind, AtHome, ScanFloor, Settled
  <2>4. From = ScanFloor + 1
    BY <1>typed, FromIsAboveFloor
  <2>5. \A b \in 1..ScanFloor : Settled(b)
    BY <1>old, <2>1 DEF FloorSettled
  <2>6. CastSettled'
    BY <1>num, <2>1, <2>4, <2>5 DEF CastSettled, ScanFloor, From, Settled
  <2>7. QED
    BY <1>typed, <2>2, <2>3, <2>6 DEF PositionInv
<1>5. CASE FetchFails
  <2>1. /\ pc = "fetch" /\ pc' = "poll"
        /\ UNCHANGED <<height, saved, simDone, cursor, current, copies, skipped>>
    BY <1>5 DEF FetchFails
  <2>2. OnChain' /\ AtLeastOnce' /\ CursorSettled'
    BY <1>old, <2>1 DEF OnChain, AtLeastOnce, CursorSettled, Settled
  <2>3. FloorSettled' /\ CastSettled' /\ GateOpen' /\ SavedBehind' /\ AtHome'
    BY <1>old, <2>1 DEF FloorSettled, CastSettled, GateOpen, SavedBehind, AtHome
  <2>4. QED
    BY <1>typed, <2>2, <2>3 DEF PositionInv
<1>6. CASE Broadcast
  <2>1. /\ pc = "cast" /\ at <= current /\ at' = at + 1 /\ pc' = "cast"
        /\ UNCHANGED <<height, saved, simDone, cursor, current, skipped>>
    BY <1>6 DEF Broadcast
  <2>2. at \in Blocks /\ simDone
    BY <1>old, <1>num, <2>1 DEF CastSettled, GateOpen, ScanFloor, AtHome
  <2>3. copies \in [Blocks -> Nat]
    BY <1>typed DEF TypeOK
  <2>4. copies' = [copies EXCEPT ![at] = copies[at] + 1]
    BY <1>6, <2>2 DEF Broadcast
  <2>5. \A b \in Blocks : Settled(b)' <=> Settled(b) \/ b = at
    BY <2>1, <2>2, <2>3, <2>4 DEF Settled
  <2>6. OnChain' /\ AtLeastOnce' /\ CursorSettled'
    BY <1>old, <1>num, <2>1, <2>5 DEF OnChain, AtLeastOnce, CursorSettled
  <2>7. FloorSettled' /\ CastSettled'
    BY <1>old, <1>num, <2>1, <2>5 DEF FloorSettled, CastSettled, ScanFloor, From
  <2>8. GateOpen' /\ SavedBehind' /\ AtHome'
    BY <1>old, <2>1 DEF GateOpen, SavedBehind, AtHome
  <2>9. QED
    BY <1>typed, <2>6, <2>7, <2>8 DEF PositionInv
<1>7. CASE BroadcastDone
  <2>1. /\ pc = "cast" /\ at > current /\ pc' = "save" /\ cursor' = current
        /\ UNCHANGED <<height, saved, simDone, current, copies, skipped>>
    BY <1>7 DEF BroadcastDone
  <2>2. \A b \in 1..current : Settled(b)
    BY <1>old, <1>num, <2>1 DEF CastSettled
  <2>3. OnChain' /\ AtLeastOnce' /\ CursorSettled'
    BY <1>old, <2>1, <2>2 DEF OnChain, AtLeastOnce, CursorSettled, Settled
  <2>4. FloorSettled' /\ CastSettled' /\ GateOpen' /\ SavedBehind' /\ AtHome'
    BY <1>old, <2>1 DEF FloorSettled, CastSettled, GateOpen, SavedBehind, AtHome
  <2>5. QED
    BY <1>typed, <2>3, <2>4 DEF PositionInv
<1>8. CASE Save
  <2>1. /\ pc = "save" /\ pc' = "poll" /\ saved' = current
        /\ UNCHANGED <<height, simDone, cursor, current, copies, skipped>>
    BY <1>8 DEF Save
  <2>2. OnChain' /\ AtLeastOnce' /\ CursorSettled'
    BY <1>old, <2>1 DEF OnChain, AtLeastOnce, CursorSettled, Settled, AtHome
  <2>3. FloorSettled' /\ CastSettled' /\ GateOpen' /\ AtHome' /\ SavedBehind'
    BY <1>old, <1>num, <2>1 DEF FloorSettled, CastSettled, GateOpen, SavedBehind, AtHome
  <2>4. QED
    BY <1>typed, <2>2, <2>3 DEF PositionInv
<1>9. CASE Crash \/ SignalExit
  <2>1. /\ pc' = "down" /\ cursor' = 0 /\ UNCHANGED <<height, copies, skipped>>
        /\ saved' = saved \/ saved' = cursor
    BY <1>9 DEF Crash, SignalExit, Exit
  <2>2. OnChain' /\ AtLeastOnce' /\ CursorSettled'
    BY <1>old, <2>1 DEF OnChain, AtLeastOnce, CursorSettled, Settled
  <2>3. FloorSettled' /\ CastSettled' /\ GateOpen' /\ AtHome' /\ SavedBehind'
    BY <2>1 DEF FloorSettled, CastSettled, GateOpen, SavedBehind, AtHome
  <2>4. QED
    BY <1>typed, <2>2, <2>3 DEF PositionInv
<1>10. CASE SignalSwallowed
  <2>1. /\ pc \in {"simulate", "poll", "fetch"} /\ pc' = "poll" /\ simDone' = TRUE
        /\ UNCHANGED <<height, saved, cursor, current, copies, skipped>>
    BY <1>10 DEF SignalSwallowed
  <2>2. OnChain' /\ AtLeastOnce' /\ CursorSettled'
    BY <1>old, <2>1 DEF OnChain, AtLeastOnce, CursorSettled, Settled
  <2>3. FloorSettled' /\ CastSettled' /\ GateOpen' /\ AtHome' /\ SavedBehind'
    BY <1>old, <2>1 DEF FloorSettled, CastSettled, GateOpen, SavedBehind, AtHome
  <2>4. QED
    BY <1>typed, <2>2, <2>3 DEF PositionInv
<1>11. QED
  BY <1>1, <1>2, <1>3, <1>4, <1>5, <1>6, <1>7, <1>8, <1>9, <1>10 DEF Next

LEMMA PositionHolds == Spec => []PositionInv
  BY PositionStart, PositionPreserved, PTL DEF Spec

\* The checkpoint in Redis never covers a block whose events were neither
\* enqueued nor given up, however the process is interrupted.
THEOREM CheckpointCoversSettled == Spec => []AtLeastOnce
<1>1. PositionInv => AtLeastOnce
  BY DEF PositionInv
<1>2. QED
  BY <1>1, PositionHolds, PTL

-----------------------------------------------------------------------------
(* The marker of the newest epoch. *)

\* With no position the scan is of the head alone: the rest is given up.
HeadAlone == pc = "fetch" /\ cursor = 0 => 1..(current - 1) \subseteq skipped

MarkerInv == MarkerIsCurrent /\ HeadAlone

\* A step that keeps the marker, gives up no fewer blocks and moves no
\* position beyond where one was keeps the invariant.
LEMMA MarkerKept ==
  ASSUME MarkerInv, lastDetected' = lastDetected, skipped \subseteq skipped',
         saved' \in {saved, cursor}, cursor' \in {0, cursor},
         pc' = "cast" => pc = "cast" /\ current' = current,
         pc' = "fetch" => UNCHANGED <<pc, cursor, current>>
  PROVE  MarkerInv'
<1>1. ASSUME NEW b \in EpochBlocks,
             b <= saved' \/ b <= cursor' \/ (pc' = "cast" /\ b <= current')
      PROVE  Announced(b)'
  <2>1. b <= saved \/ b <= cursor \/ (pc = "cast" /\ b <= current) \/ b <= 0
    BY <1>1
  <2>2. b > 0
    BY DetectorAssumption DEF DetectorAssumption
  <2>3. Announced(b)
    BY <2>1, <2>2, DetectorAssumption DEF MarkerInv, MarkerIsCurrent, DetectorAssumption
  <2>4. QED
    BY <2>3 DEF Announced
<1>2. HeadAlone'
  BY DEF MarkerInv, HeadAlone
<1>3. QED
  BY <1>1, <1>2 DEF MarkerInv, MarkerIsCurrent

\* Recording the newest epoch of a range announces the whole of it, and takes
\* nothing back from what the positions cover: the range lies above them.
LEMMA NoteAnnounces ==
  ASSUME PositionInv, MarkerInv, pc = "fetch", NoteEpoch, UNCHANGED skipped,
         NEW b \in EpochBlocks, b <= saved \/ b <= cursor \/ b <= current
  PROVE  Announced(b)'
<1>num. /\ saved \in Nat /\ cursor \in Nat /\ current \in Nat /\ lastDetected \in Nat
        /\ b \in Nat /\ b > 0
  BY Numbers, DetectorAssumption DEF PositionInv, DetectorAssumption
<1>1. saved < From
  BY <1>num DEF PositionInv, SavedBehind, AtHome, From
<1>2. lastDetected' = lastDetected \/ lastDetected' \in From..current
  BY NotedEpochInRange DEF PositionInv
<1>3. CASE b \in From..current
  <2>1. b \in EpochBlocks \cap (From..current)
    BY <1>3
  <2>2. b <= lastDetected'
    BY <2>1 DEF NoteEpoch
  <2>3. QED
    BY <2>2 DEF Announced
<1>4. CASE b < From
  <2>1. Announced(b)
    <3>1. CASE cursor = 0
      BY <1>4, <1>num, <3>1 DEF From, Announced, MarkerInv, HeadAlone
    <3>2. CASE cursor # 0
      BY <1>4, <1>num, <3>2 DEF From, MarkerInv, MarkerIsCurrent
    <3>3. QED
      BY <3>1, <3>2
  <2>2. QED
    BY <1>2, <1>4, <1>num, <2>1 DEF Announced, From
<1>5. QED
  BY <1>1, <1>3, <1>4, <1>num DEF From

LEMMA MarkerPreserved ==
  PositionInv /\ MarkerInv /\ [Next]_vars => MarkerInv'
<1> SUFFICES ASSUME PositionInv, MarkerInv, [Next]_vars
             PROVE  MarkerInv'
  OBVIOUS
<1>typed. TypeOK
  BY DEF PositionInv
<1>num. /\ height \in Nat /\ saved \in Nat /\ cursor \in Nat /\ current \in Nat
        /\ \A b \in EpochBlocks : b \in Nat /\ b > 0
  BY <1>typed, Numbers, DetectorAssumption DEF DetectorAssumption
<1>1. ASSUME NEW c \in Blocks, Poll(c)
      PROVE  MarkerInv'
  <2>1. c \in 1..height /\ c \in Nat
    BY <1>1, <1>num DEF Poll, HeadAnswers
  <2>2. /\ Resumed \in 0..height /\ ScanAfter(c) \in 0..height
        /\ (ScanAfter(c) = 0) <=> (Resumed = 0)
    BY <1>typed, <2>1, ScanAfterBounds
  <2>3. pc = "poll" /\ pc' # "cast" /\ current' = c
        /\ UNCHANGED <<saved, lastDetected>>
    BY <1>1 DEF Poll, redis
  <2>4. \A b \in EpochBlocks : b <= Resumed \/ b <= saved => Announced(b)
    BY DEF MarkerInv, MarkerIsCurrent, Resumed
  <2>5. CASE c = Resumed
    <3>1. cursor' = Resumed /\ pc' = "poll" /\ skipped' = skipped
      BY <1>1, <2>5 DEF Poll
    <3>2. QED
      BY <2>3, <2>4, <3>1 DEF MarkerInv, MarkerIsCurrent, HeadAlone, Announced
  <2>6. CASE c # Resumed
    <3>1. cursor' = ScanAfter(c) /\ skipped' = skipped \cup GivenUp(c)
      BY <1>1, <2>6 DEF Poll
    <3>2. \A b \in EpochBlocks : b <= ScanAfter(c) => b <= Resumed \/ b \in GivenUp(c)
      BY <1>num, <2>2 DEF GivenUp
    <3>3. MarkerIsCurrent'
      BY <2>3, <2>4, <3>1, <3>2 DEF MarkerIsCurrent, Announced
    <3>4. HeadAlone'
      BY <2>2, <2>3, <3>1 DEF HeadAlone, GivenUp
    <3>5. QED
      BY <3>3, <3>4 DEF MarkerInv
  <2>7. QED
    BY <2>5, <2>6
<1>2. CASE FetchEvents
  <2>1. pc = "fetch" /\ pc' = "cast" /\ NoteEpoch
        /\ UNCHANGED <<saved, cursor, current, skipped>>
    BY <1>2 DEF FetchEvents
  <2>2. QED
    BY <2>1, NoteAnnounces DEF MarkerInv, MarkerIsCurrent, HeadAlone
\* The marker may be written although the scan is given up.
<1>3. ASSUME NoteEpoch, pc = "fetch", pc' = "poll", UNCHANGED <<saved, cursor, skipped>>
      PROVE  MarkerInv'
  BY <1>3, NoteAnnounces DEF MarkerInv, MarkerIsCurrent, HeadAlone
<1>4. CASE FetchFails
  <2>1. pc = "fetch" /\ pc' = "poll" /\ UNCHANGED <<saved, cursor, skipped>>
    BY <1>4 DEF FetchFails, local, history
  <2>2. CASE NoteEpoch
    BY <1>3, <2>1, <2>2
  <2>3. CASE UNCHANGED lastDetected
    BY <2>1, <2>3, MarkerKept
  <2>4. QED
    BY <1>4, <2>2, <2>3 DEF FetchFails
<1>5. CASE SignalSwallowed
  <2>1. pc' = "poll" /\ UNCHANGED <<saved, cursor, skipped>>
    BY <1>5 DEF SignalSwallowed, history
  <2>2. CASE pc = "fetch" /\ NoteEpoch
    BY <1>3, <2>1, <2>2
  <2>3. CASE UNCHANGED lastDetected
    BY <2>1, <2>3, MarkerKept
  <2>4. QED
    BY <1>5, <2>2, <2>3 DEF SignalSwallowed
<1>6. CASE BroadcastDone
  <2>1. pc = "cast" /\ pc' = "save" /\ cursor' = current
        /\ UNCHANGED <<saved, lastDetected, skipped>>
    BY <1>6 DEF BroadcastDone, redis, history
  <2>2. QED
    BY <2>1 DEF MarkerInv, MarkerIsCurrent, HeadAlone, Announced
<1>7. CASE Save
  <2>1. pc = "save" /\ pc' = "poll" /\ saved' = current /\ cursor = current
        /\ UNCHANGED <<lastDetected, cursor, skipped>>
    BY <1>7 DEF Save, PositionInv, AtHome, local, history
  <2>2. QED
    BY <2>1, MarkerKept
<1>8. CASE Crash \/ SignalExit
  BY <1>8, MarkerKept DEF Crash, SignalExit, Exit
<1>9. CASE \/ Mine \/ BroadcastSimulation \/ SimulationOver \/ Broadcast
           \/ Restart \/ UNCHANGED vars
  BY <1>9, MarkerKept DEF Mine, BroadcastSimulation, SimulationOver, Broadcast,
     Restart, vars, redis, local, history
<1>10. QED
  BY <1>1, <1>2, <1>4, <1>5, <1>6, <1>7, <1>8, <1>9 DEF Next

\* The marker in Redis is never older than an epoch about to be broadcast or
\* behind a position, unless the epoch's block was given up.
THEOREM MarkerComesFirst == Spec => []MarkerIsCurrent
<1>1. Init => MarkerInv
  BY DetectorAssumption
     DEF Init, MarkerInv, MarkerIsCurrent, HeadAlone, DetectorAssumption
<1>2. MarkerInv => MarkerIsCurrent
  BY DEF MarkerInv
<1>3. QED
  BY <1>1, <1>2, PositionHolds, MarkerPreserved, PTL DEF Spec

-----------------------------------------------------------------------------
(* Repeats. *)

LEMMA RepeatPreserved ==
  PositionInv /\ RepeatInv /\ [Next]_vars => RepeatInv'
<1> DEFINE Once == \A b \in Blocks : Untouched(b) => copies[b] <= restarts + rewinds
<1> SUFFICES ASSUME PositionInv, RepeatInv, [Next]_vars
             PROVE  BoundedRepeats' /\ Once'
  BY DEF RepeatInv
<1>typed. /\ TypeOK /\ TypeOK' /\ BoundedRepeats /\ Once
          /\ copies \in [Blocks -> Nat] /\ restarts \in Nat /\ rewinds \in Nat
          /\ cursor \in Nat /\ current \in Nat /\ at \in Nat /\ saved \in Nat
  BY TypePreserved, Numbers, DetectorAssumption
     DEF PositionInv, RepeatInv, TypeOK, DetectorAssumption
<1>cast. pc = "cast" => at >= From /\ (at <= current + 1 \/ From > current)
  BY <1>typed, FromIsAboveFloor DEF PositionInv, CastSettled, ScanFloor, From
\* Steps that broadcast nothing and do not touch the position.
<1>1. ASSUME UNCHANGED <<copies, restarts, rewinds, cursor, current, at>>,
             (pc' # "cast" /\ pc # "cast") \/ pc' = pc
      PROVE  BoundedRepeats' /\ Once'
  BY <1>1, <1>typed DEF BoundedRepeats, Untouched, From, Blocks
\* Exits: one more repeat is allowed of every block.
<1>2. ASSUME copies' = copies, restarts' + rewinds' = 1 + restarts + rewinds
      PROVE  BoundedRepeats' /\ Once'
  <2>1. restarts' \in Nat /\ rewinds' \in Nat
    BY <1>typed, DetectorAssumption DEF TypeOK, DetectorAssumption
  <2>2. \A b \in Blocks : copies[b] \in Nat /\ copies[b] <= 1 + restarts + rewinds
    BY <1>typed DEF BoundedRepeats
  <2>3. \A b \in Blocks : copies'[b] <= restarts' + rewinds'
    BY <1>2, <2>2
  <2>4. \A b \in Blocks : copies'[b] \in Nat
    BY <1>2, <2>2
  <2>5. QED
    BY <2>1, <2>3, <2>4 DEF BoundedRepeats, Blocks
<1>3. ASSUME NEW c \in Blocks, Poll(c)
      PROVE  BoundedRepeats' /\ Once'
  <2>1. c \in 1..height
    BY <1>3, <1>typed, Numbers DEF Poll, HeadAnswers
  <2>2. Resumed <= ScanAfter(c) /\ Resumed \in Nat /\ ScanAfter(c) \in Nat
    BY <1>typed, <2>1, ScanAfterBounds, Numbers
  <2>3. cursor' >= cursor /\ cursor' \in Nat
    BY <1>3, <1>typed, <2>2 DEF Poll, Resumed
  <2>4. pc = "poll" /\ pc' # "cast" /\ UNCHANGED <<copies, restarts, rewinds>>
    BY <1>3 DEF Poll
  <2>5. QED
    BY <1>typed, <2>3, <2>4 DEF BoundedRepeats, Untouched, Blocks
<1>4. CASE FetchEvents
  <2>1. pc = "fetch" /\ pc' = "cast" /\ at' = From
        /\ UNCHANGED <<copies, restarts, cursor, current>>
    BY <1>4 DEF FetchEvents
  <2>2. CASE From <= current
    <3>1. rewinds' = rewinds
      BY <1>4, <2>2 DEF FetchEvents
    <3>2. BoundedRepeats'
      BY <1>typed, <2>1, <3>1 DEF BoundedRepeats
    <3>3. \A b \in Blocks : Untouched(b)' => Untouched(b)
      BY <1>typed, <2>1, <2>2, DetectorAssumption
         DEF Untouched, From, Blocks, DetectorAssumption
    <3>4. QED
      BY <1>typed, <2>1, <3>1, <3>2, <3>3
  <2>3. CASE ~(From <= current)
    BY <1>2, <1>4, <1>typed, <2>1, <2>3 DEF FetchEvents
  <2>4. QED
    BY <2>2, <2>3
<1>5. CASE Broadcast
  <2>1. /\ pc = "cast" /\ pc' = "cast" /\ at <= current /\ at' = at + 1
        /\ UNCHANGED <<restarts, rewinds, cursor, current>>
    BY <1>5 DEF Broadcast
  <2>2. copies' = copies \/ copies' = [copies EXCEPT ![at] = copies[at] + 1]
    BY <1>5 DEF Broadcast
  <2>3. \A b \in Blocks : /\ copies[b] \in Nat
                          /\ b # at => copies'[b] = copies[b]
                          /\ copies'[b] = copies[b] \/ copies'[b] = copies[b] + 1
    BY <1>typed, <2>2
  <2>4. \A b \in Blocks : b = at => Untouched(b)
    BY <2>1 DEF Untouched, Blocks
  <2>5. BoundedRepeats'
    BY <1>typed, <2>1, <2>3, <2>4 DEF BoundedRepeats
  <2>6. \A b \in Blocks : Untouched(b)' => Untouched(b) /\ b # at
    BY <1>typed, <1>cast, <2>1, DetectorAssumption
       DEF Untouched, From, Blocks, DetectorAssumption
  <2>7. QED
    BY <1>typed, <2>1, <2>3, <2>5, <2>6
<1>6. CASE BroadcastDone
  <2>1. /\ pc = "cast" /\ pc' = "save" /\ at > current /\ cursor' = current
        /\ UNCHANGED <<copies, restarts, rewinds>>
    BY <1>6 DEF BroadcastDone, history
  <2>2. \A b \in Blocks : Untouched(b)' => Untouched(b)
    BY <1>typed, <1>cast, <2>1, DetectorAssumption
       DEF Untouched, Blocks, DetectorAssumption
  <2>3. QED
    BY <1>typed, <2>1, <2>2 DEF BoundedRepeats
<1>7. CASE Crash \/ SignalExit
  BY <1>2, <1>7, <1>typed DEF Crash, SignalExit, Exit
<1>8. CASE Mine \/ BroadcastSimulation \/ SimulationOver \/ FetchFails \/ Save
           \/ SignalSwallowed \/ Restart \/ UNCHANGED vars
  BY <1>1, <1>8 DEF Mine, BroadcastSimulation, SimulationOver, FetchFails, Save,
     SignalSwallowed, Restart, vars, local, history
<1>9. QED
  BY <1>3, <1>4, <1>5, <1>6, <1>7, <1>8 DEF Next

\* A block is enqueued at most once more than the process has exited or been
\* answered by a node behind its cursor.
THEOREM RepeatsAreBounded == Spec => []BoundedRepeats
<1>1. Init => RepeatInv
  BY DEF Init, RepeatInv, BoundedRepeats, Untouched, Blocks
<1>2. RepeatInv => BoundedRepeats
  BY DEF RepeatInv
<1>3. QED
  BY <1>1, <1>2, PositionHolds, RepeatPreserved, PTL DEF Spec

-----------------------------------------------------------------------------
(* The detector implements the abstract feed. *)

SettledBlocks == {b \in Blocks : Settled(b)}

LEMMA FeedStart == Init => Feed!Init
  BY DEF Init, Feed!Init, Settled, Blocks

LEMMA FeedStep ==
  PositionInv /\ PositionInv' /\ [Next]_vars => [Feed!Next]_(Feed!vars)
<1> SUFFICES ASSUME PositionInv, PositionInv', [Next]_vars
             PROVE  Feed!Next \/ UNCHANGED Feed!vars
  BY DEF Feed!vars
<1>typed. TypeOK /\ TypeOK'
  BY DEF PositionInv
<1>1. SettledBlocks \subseteq SettledBlocks'
  BY <1>typed, SettledGrows DEF SettledBlocks, Blocks
<1>2. SettledBlocks' \subseteq 1..height'
  BY <1>typed, Numbers DEF PositionInv, OnChain, SettledBlocks, Blocks
\* Steps that broadcast or give up blocks, or touch nothing of the feed.
<1>3. ASSUME UNCHANGED <<height, saved>>
      PROVE  Feed!Next
  BY <1>1, <1>2, <1>3 DEF Feed!Next, Feed!Settle, SettledBlocks
\* Steps that leave the settled blocks alone.
<1>4. ASSUME UNCHANGED <<copies, skipped>>
      PROVE  SettledBlocks' = SettledBlocks
  BY <1>4 DEF SettledBlocks, Settled, Blocks
<1>5. CASE Mine
  <2>1. height' = height + 1 /\ UNCHANGED <<saved, copies, skipped>>
    BY <1>5 DEF Mine, redis, history
  <2>2. QED
    BY <1>4, <2>1 DEF Feed!Next, Feed!Mine, SettledBlocks
\* Steps that write the checkpoint.
<1>6. ASSUME UNCHANGED <<height, copies, skipped>>, saved' # 0
      PROVE  Feed!Next
  <2>1. saved' \in 0..height'
    BY <1>typed DEF TypeOK
  <2>2. height <= MaxHeight /\ height \in Nat /\ MaxHeight \in Nat
    BY <1>typed, Numbers
  <2>3. saved' \in 1..height /\ height <= MaxHeight /\ height \in Nat /\ MaxHeight \in Nat
    BY <1>6, <2>1, <2>2
  <2>4. 1..saved' \subseteq SettledBlocks'
    BY <2>3 DEF PositionInv, AtLeastOnce, SettledBlocks, Blocks
  <2>5. SettledBlocks' = SettledBlocks
    BY <1>4, <1>6
  <2>6. QED
    BY <1>6, <2>3, <2>4, <2>5 DEF Feed!Next, Feed!Checkpoint, SettledBlocks
<1>7. CASE Save
  <2>1. saved' # 0 /\ UNCHANGED <<height, copies, skipped>>
    BY <1>7 DEF Save, PositionInv, AtHome, history
  <2>2. QED
    BY <1>6, <2>1
<1>8. CASE SignalExit
  <2>1. /\ height' = height /\ copies' = copies /\ skipped' = skipped
        /\ saved' = saved \/ (saved' = cursor /\ cursor # 0)
    BY <1>8 DEF SignalExit, Exit
  <2>2. QED
    BY <1>3, <1>6, <2>1
<1>9. CASE Crash
  BY <1>3, <1>9 DEF Crash, Exit
<1>10. ASSUME NEW c \in Blocks, Poll(c)
       PROVE  Feed!Next
  BY <1>3, <1>10 DEF Poll, redis
<1>11. CASE \/ BroadcastSimulation \/ SimulationOver \/ FetchEvents \/ FetchFails
            \/ Broadcast \/ BroadcastDone \/ SignalSwallowed \/ Restart
            \/ UNCHANGED vars
  BY <1>3, <1>11 DEF BroadcastSimulation, SimulationOver, FetchEvents, FetchFails,
     Broadcast, BroadcastDone, SignalSwallowed, Restart, vars, redis
<1>12. QED
  BY <1>5, <1>7, <1>8, <1>9, <1>10, <1>11 DEF Next

\* Every behaviour of the detector is one of the abstract feed: checkpoints
\* cover settled blocks, settled blocks are on the chain and stay settled.
THEOREM DetectorImplementsFeed == Spec => ImplementsFeed
  BY FeedStart, FeedStep, PositionHolds, PTL DEF Spec, ImplementsFeed, Feed!Spec
-----------------------------------------------------------------------------
(* Blocks are only given up when they are old.                             *)

\* A poll that knows a position gives up nothing beyond the jump.
LEMMA GivenUpAreOld ==
  ASSUME TypeOK, NEW c \in 1..height, Resumed # 0, NEW b \in GivenUp(c)
  PROVE  b + CatchUp <= height
<1>1. Resumed \in 0..height
  BY ScanAfterBounds
<1>2. b \in (Resumed + 1)..ScanAfter(c)
  BY DEF GivenUp
<1>3. CASE c - Resumed >= CatchUp
  BY <1>1, <1>2, <1>3, Numbers DEF ScanAfter
<1>4. CASE ~(c - Resumed >= CatchUp)
  BY <1>1, <1>2, <1>4, Numbers DEF ScanAfter
<1>5. QED
  BY <1>3, <1>4

LEMMA SkippingStep ==
  ASSUME TypeOK, [Next]_vars
  PROVE  \/ cursor = 0 /\ saved = 0
         \/ \A b \in skipped' \ skipped : b + CatchUp <= height
<1>1. CASE skipped' = skipped
  BY <1>1
<1>2. ASSUME NEW c \in Blocks, Poll(c), Resumed # 0
      PROVE  \A b \in skipped' \ skipped : b + CatchUp <= height
  <2>1. c \in 1..height
    BY <1>2 DEF Poll, HeadAnswers
  <2>2. skipped' \ skipped \subseteq GivenUp(c)
    BY <1>2 DEF Poll
  <2>3. QED
    BY <1>2, <2>1, <2>2, GivenUpAreOld
<1>3. ASSUME NEW c \in Blocks, Poll(c), Resumed = 0
      PROVE  cursor = 0 /\ saved = 0
  BY <1>3 DEF Resumed
<1>4. CASE \/ Mine \/ BroadcastSimulation \/ SimulationOver \/ FetchEvents
           \/ FetchFails \/ Broadcast \/ BroadcastDone \/ Save \/ Crash
           \/ SignalExit \/ SignalSwallowed \/ Restart \/ UNCHANGED vars
  BY <1>1, <1>4 DEF Mine, BroadcastSimulation, SimulationOver, FetchEvents, FetchFails,
     Broadcast, BroadcastDone, Save, Crash, SignalExit, SignalSwallowed, Restart, Exit,
     vars, history
<1>5. QED
  BY <1>2, <1>3, <1>4 DEF Next

\* No step gives up a block that is less than CatchUp behind the head, unless
\* there is no position in memory or in Redis: exits, lagging nodes and
\* failures never make the detector jump early.
THEOREM SkipsAreOld == Spec => SkipsOnlyOldBlocks
<1>1. TypeOK /\ [Next]_vars =>
        [ \/ cursor = 0 /\ saved = 0
          \/ \A b \in skipped' \ skipped : b + CatchUp <= height ]_vars
  BY SkippingStep
<1>2. QED
  BY <1>1, TypeCorrect, PTL DEF Spec, SkipsOnlyOldBlocks
=============================================================================
