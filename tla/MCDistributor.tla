---------------------------- MODULE MCDistributor ----------------------------
(* The distributor with a project that needs no preloader, one that needs   *)
(* one of two and one that needs both.                                      *)
EXTENDS Distributor

CONSTANTS plain, single, double, block, receipts

MCProjects == {plain, single, double}

\* One project and its only preloader, for the run with more releases.
MCOneProject == {single}

MCOnePreloader == {block}

MCPreloaders == {block, receipts}

MCNeedsOf(projects) ==
    [p \in projects |->
        CASE p = plain -> {}
          [] p = single -> {block}
          [] p = double -> {block, receipts}]

MCNeeds == MCNeedsOf(MCProjects)

MCOneNeeds == MCNeedsOf(MCOneProject)
=============================================================================
