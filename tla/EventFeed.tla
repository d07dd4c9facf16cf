------------------------------ MODULE EventFeed ------------------------------
(***************************************************************************)
(* What the event detector promises the rest of the node, with no mention  *)
(* of polling, RPC errors or processes: blocks appear on the anchor chain, *)
(* the detector settles them (hands their events on, or gives them up),    *)
(* and the checkpoint kept in Redis never covers a block that is not       *)
(* settled.  A restart resumes from the checkpoint, so nothing below it    *)
(* can be lost.                                                            *)
(***************************************************************************)
EXTENDS Integers

VARIABLES height,    \* head of the anchor chain
          settled,   \* blocks whose events were handed on or given up
          mark       \* durable checkpoint, 0 when there is none

vars == <<height, settled, mark>>

Init ==
    /\ height = 1
    /\ settled = {}
    /\ mark = 0

Mine ==
    /\ height' = height + 1
    /\ UNCHANGED <<settled, mark>>

Settle ==
    /\ settled \subseteq settled'
    /\ settled' \subseteq 1..height
    /\ UNCHANGED <<height, mark>>

\* The checkpoint may move back (the detector then repeats itself), never
\* over a block that is still open.
Checkpoint ==
    /\ mark' \in 1..height
    /\ 1..mark' \subseteq settled
    /\ UNCHANGED <<height, settled>>

Next == Mine \/ Settle \/ Checkpoint

Spec == Init /\ [][Next]_vars
=============================================================================
