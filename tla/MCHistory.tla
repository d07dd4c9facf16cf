------------------------------ MODULE MCHistory ------------------------------
(* The snapshot of epoch 3 lists 1, whose status comes late; that of 2 was  *)
(* made too late to be finalized and lists its own epoch. Epochs 2 and 3     *)
(* share a byte, and a range is of one byte.                                 *)
EXTENDS History

CONSTANTS c1, c2

MCCallers == {c1, c2}
MCNumbers == 1..3
MCWithData == {1, 3}
\* An interval of two and one of three epochs, of which some come to be known;
\* the epoch without a finalized snapshot, asked for alone.
MCReads == {2}
MCIntervals == {1..3, 1..2}
MCListsOf == [e \in 1..3 |-> CASE e = 1 -> {<<>>} [] e = 2 -> {<<2>>} [] e = 3 -> {<<1>>}]
=============================================================================
