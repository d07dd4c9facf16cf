------------------------------- MODULE MCCacher -------------------------------
(* The cacher on two projects: every kind of event meets every other one,   *)
(* out of order, on the second; the first only takes part in the batch.     *)
EXTENDS Cacher, TLC

CONSTANTS p1, p2, t1, t2

MCProjects == {p1, p2}

MCTasks == {t1, t2}

MCTraffic ==
    {[kind |-> "submitted", projects |-> {p2}, epoch |-> 2],
     [kind |-> "finalized", projects |-> {p2}, epoch |-> 1],
     [kind |-> "finalized", projects |-> {p2}, epoch |-> 2],
     [kind |-> "batch", projects |-> {p1, p2}, epoch |-> 2]}

\* One project, for the runs that need neither batches nor lookups.
MCOneProject == {p2}

MCOneTraffic ==
    {[kind |-> "submitted", projects |-> {p2}, epoch |-> 2],
     [kind |-> "finalized", projects |-> {p2}, epoch |-> 1],
     [kind |-> "finalized", projects |-> {p2}, epoch |-> 2]}

\* One entry that every writer meets on.
MCSameTraffic == {m \in MCOneTraffic : m.epoch = 2}

MCLookedUp == {p2}

MCFetched == {<<p2, 2>>}

\* The entries of the first project, which is there for the batch, are the
\* batch's and stay.
MCStay ==
    \A e \in Epochs : expiry[<<p1, e>>] # "due" /\ data[<<p1, e>>] # "SUBMITTED"

TaskSymmetry == Permutations(MCTasks)
=============================================================================
