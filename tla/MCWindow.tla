-------------------------------- MODULE MCWindow --------------------------------
(* Values of which no two sums are the same, the oldest the largest; when the *)
(* fifth epoch comes the first one leaves the window of four, of which two    *)
(* in the middle may be missing.                                              *)
EXTENDS SlidingWindow, TLC

CONSTANTS t1, t2

MCTasks == {t1, t2}
MCSymmetry == Permutations(MCTasks)
MCKinds == {"volume", "frequency"}
MCEpochs == 1..5
MCValue == [e \in MCEpochs |-> 2 ^ (5 - e)]

\* ViewsAreExact says nothing of a view that was disturbed, and nothing undoes
\* that: what follows is explored for volumes, whose type says more, and for
\* two messages.  Frequencies have a view to start from with no message at all,
\* and keys that expire: two messages do for them what three do for volumes.
MCMessages ==
    IF kind = "frequency" THEN ~disturbed /\ messages <= 2
    ELSE disturbed => messages <= 2
================================================================================
