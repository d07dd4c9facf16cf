-------------------------------- MODULE Bitmap --------------------------------
(***************************************************************************)
(* RedisBitmap (snapshotter/utils/redis/redis_bitmap.py): a set of epochs  *)
(* kept as the bits of a Redis string, which several clients set at once.  *)
(* set_bits_in_range reads the bytes of its range in one call and writes   *)
(* them back in another, so what others set in these bytes between the two *)
(* is lost.                                                                *)
(*                                                                         *)
(* The string is the set of the positions of its bits; clear and           *)
(* get_bit_count have no caller in the program and are left out.           *)
(***************************************************************************)
EXTENDS Integers, FiniteSets, Sequences

CONSTANTS Numbers,   \* the epoch ids callers pass
          Offset,    \* epoch_offset
          Limit,     \* positions Redis allows (2^32)
          MaxBatch,  \* max_batch_size
          MaxRange,  \* max_range_size, in bytes
          Spread,    \* bytes of the range per byte with a new bit (4)
          Width,     \* bits of a byte (8)
          Callers,
          Closed     \* no range is read

ASSUME BitmapAssumption ==
    /\ Numbers \subseteq Int
    /\ IsFiniteSet(Numbers)
    /\ Offset \in Int
    /\ {Limit, MaxBatch, MaxRange, Spread} \subseteq Nat
    /\ Width \in Nat \ {0}

VARIABLES
    bits,    \* positions of the bits of the string that are set
    opened,  \* of each caller: the range it has read and will write back
    asked,   \* history: positions set by a call that returned
    raced    \* history: positions set while another caller had their byte read

bitmap == <<bits, opened, asked, raced>>

Position(e) == e - Offset
Byte(p) == p \div Width
Positions == {Position(e) : e \in Numbers}

\* _validate_epoch_id and _validate_epoch_ids: other epochs raise.
Valid(es) ==
    /\ Cardinality(es) <= MaxBatch
    /\ \A e \in es : Position(e) >= 0 /\ Position(e) < Limit

ASSUME NumbersAreValid == Valid(Numbers)

Within(p, r) == Byte(p) \in r.first..r.last

Ranges == [first : Int, last : Int,
           old : SUBSET Positions, new : SUBSET Positions]

ASSUME ClosedIsNoRange == Closed \notin Ranges

BitmapTypeOK ==
    /\ bits \subseteq Positions
    /\ opened \in [Callers -> Ranges \cup {Closed}]
    /\ asked \subseteq Positions
    /\ raced \subseteq Positions

BitmapInit ==
    /\ bits = {}
    /\ opened = [c \in Callers |-> Closed]
    /\ asked = {}
    /\ raced = {}

\* Those of the positions others will write back as they read them.
Exposed(ps, others) ==
    {p \in ps : \E d \in others : opened[d] # Closed /\ Within(p, opened[d])}

\* SETBIT, one or a pipeline of them.
SetBits(es) ==
    LET ps == {Position(e) : e \in es}
    IN /\ bits' = bits \cup ps
       /\ asked' = asked \cup ps
       /\ raced' = raced \cup Exposed(ps, Callers)
       /\ UNCHANGED opened

FirstOf(bs) == CHOOSE b \in bs : \A k \in bs : b <= k
LastOf(bs) == CHOOSE b \in bs : \A k \in bs : k <= b

RangeOf(es) ==
    LET bs == {Byte(Position(e)) : e \in es}
    IN [first |-> FirstOf(bs), last |-> LastOf(bs),
        old |-> {p \in bits : Byte(p) \in FirstOf(bs)..LastOf(bs)},
        new |-> {Position(e) : e \in es}]

\* A range of too many bytes, or with too few of them to change.
Scattered(r) ==
    LET size == r.last - r.first + 1
    IN \/ size > MaxRange
       \/ size > Spread * Cardinality({Byte(p) : p \in r.new})

\* GETRANGE, or SETBIT in its place.
SetBitsInRange(c, es) ==
    /\ opened[c] = Closed
    /\ es # {}
    /\ IF Scattered(RangeOf(es))
       THEN SetBits(es)
       ELSE /\ opened' = [opened EXCEPT ![c] = RangeOf(es)]
            /\ UNCHANGED <<bits, asked, raced>>

\* Mutant: the bytes are written without what was in them.
WriteBlindly(c) ==
    /\ opened[c] # Closed
    /\ bits' = {p \in bits : ~Within(p, opened[c])} \cup opened[c].new
    /\ opened' = [opened EXCEPT ![c] = Closed]
    /\ asked' = asked \cup opened[c].new
    /\ raced' = raced \cup Exposed(opened[c].new, Callers \ {c})

\* Mutant: every bit of the bytes is set.
WriteSolid(c) ==
    /\ opened[c] # Closed
    /\ bits' = bits \cup {p \in Positions : Within(p, opened[c])}
    /\ opened' = [opened EXCEPT ![c] = Closed]
    /\ asked' = asked \cup opened[c].new
    /\ raced' = raced \cup Exposed(opened[c].new, Callers \ {c})

\* SETRANGE with the bytes as they were read and the new bits.
WriteBack(c) ==
    /\ opened[c] # Closed
    /\ bits' = {p \in bits : ~Within(p, opened[c])} \cup opened[c].old \cup opened[c].new
    /\ opened' = [opened EXCEPT ![c] = Closed]
    /\ asked' = asked \cup opened[c].new
    /\ raced' = raced \cup Exposed(opened[c].new, Callers \ {c})

-----------------------------------------------------------------------------
(* The readers *)

GetBit(e) == Position(e) \in bits

\* The bytes from first to last as far as the string goes.
GetRange(first, last) ==
    LET length == IF bits = {} THEN 0 ELSE LastOf({Byte(p) : p \in bits}) + 1
        end == IF last < length THEN last ELSE length - 1
    IN [k \in 1..(end - first + 1) |->
           {i \in 0..(Width - 1) : (first + k - 1) * Width + i \in bits}]

\* Mutant: bits are looked for in the first byte of the range only.
GetBitsOfFirstByte(es) ==
    LET first == Byte(FirstOf({Position(e) : e \in es}))
        data == GetRange(first, first)
    IN {e \in es : data # <<>> /\ Position(e) % Width \in data[1]}

\* The epochs of es whose bit is set, read by GETRANGE; or one by one when
\* the range is too large.
GetBitsInRange(es) ==
    LET first == Byte(FirstOf({Position(e) : e \in es}))
        last == Byte(LastOf({Position(e) : e \in es}))
        data == GetRange(first, last)
    IN IF last - first + 1 > MaxRange
       THEN {e \in es : GetBit(e)}
       ELSE {e \in es : /\ Byte(Position(e)) - first \in 0..(Len(data) - 1)
                        /\ Position(e) % Width \in data[Byte(Position(e)) - first + 1]}

-----------------------------------------------------------------------------
(* Properties *)

\* No bit is set that no call set or is setting, whatever is written back
\* in which order.
NothingInvented ==
    /\ bits \subseteq asked
    /\ \A c \in Callers : opened[c] # Closed => opened[c].old \subseteq asked

\* A bit set by a call that returned stays, unless another caller had read
\* its byte before and not written it back yet.
BitsStay == asked \ raced \subseteq bits

\* The three ways to read the bitmap agree, at the ends of the string and of
\* a byte too.
ReadersAgree ==
    \A es \in SUBSET Numbers :
        es # {} => GetBitsInRange(es) = {e \in es : GetBit(e)}
=============================================================================
