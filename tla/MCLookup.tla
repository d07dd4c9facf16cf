------------------------------- MODULE MCLookup -------------------------------
(* Epochs of two blocks of two seconds (the chain says 2.0001); blocks 1 and *)
(* 2 have the same time, and there was a pause before 1 and before 3.       *)
EXTENDS Lookup

MCStamps == <<1, 4, 4, 7>>
MCTimes == {0, 9}
MCSpans == {3, 9}

\* Blocks and epochs share no state, and are explored apart.  A request is made
\* with at most one bit set and one snapshot cached, the second one with at most
\* two epochs that have data (what it leaves is checked all the same).
MCApart ==
    /\ known = {} \/ (final = {} /\ entries = {} /\ blank = {})
    /\ Cardinality(blank) <= 1
    /\ Cardinality({e \in Epochs : cache[e] # "none"}) <= 1
    /\ requests > 0 => Cardinality(final \cup entries) <= 2

\* Request and answer are written by every step and read by none: states that
\* only differ in them go on alike.  (Action properties are checked of every
\* step, also of one to a state that is not new.)
MCView == <<final, redis, requests>>
=============================================================================
