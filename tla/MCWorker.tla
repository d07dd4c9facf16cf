------------------------------- MODULE MCWorker -------------------------------
(* A base type and an aggregator that depends on it; snapshots of both list *)
(* their predecessors, and other nodes have had two epochs of the base      *)
(* type's project finalized, so that lists fill up.                         *)
EXTENDS Worker

CONSTANTS single, combined, pool, sum

MCBases == {single}
MCAggregators == {combined}
MCDependsOn == [a \in MCAggregators |-> {single}]
MCProjects == {pool, sum}
MCTypeOf == [p \in MCProjects |-> IF p = sum THEN combined ELSE single]
MCKeeping == {single, combined}
Finalized(e) == [project |-> pool, from |-> None, epoch |-> e]
MCForeign == {Finalized(0), Finalized(1)}
MCListOf == [c \in MCForeign |-> IF c.epoch = 0 THEN <<>> ELSE <<Finalized(0)>>]
=============================================================================
