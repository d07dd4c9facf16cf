----------------------------- MODULE BitmapProofs -----------------------------
(***************************************************************************)
(* Facts about the bitmap, for any numbers, offset, sizes and callers: what *)
(* each of its operations may do to its bits, and the invariants any       *)
(* sequence of them keeps.                                                 *)
(***************************************************************************)
EXTENDS Bitmap, TLAPS, WellFoundedInduction

-----------------------------------------------------------------------------
(* Ends of sets of numbers                                                 *)

LEMMA LeastOfNaturals ==
  ASSUME NEW S \in SUBSET Nat, S # {}
  PROVE  \E x \in S : \A y \in S : x <= y
<1> DEFINE Before == {ss \in Nat \X Nat : ss[1] < ss[2]}
<1>1. IsWellFoundedOn(Before, Nat)
  BY NatLessThanWellFounded, Zenon DEF OpToRel
<1> HIDE DEF Before
<1>2. PICK x \in S : \A y \in S : ~ (<<y, x>> \in Before)
  BY <1>1, WFMin, Zenon
<1>3. \A y \in S : y < x => <<y, x>> \in Before
  BY DEF Before
<1>4. \A y \in S : ~ (y < x)
  BY <1>2, <1>3
<1>5. QED
  BY <1>4

LEMMA GreatestBelow ==
  ASSUME NEW S \in SUBSET Nat, S # {}, NEW n \in Nat, \A s \in S : s <= n
  PROVE  \E x \in S : \A y \in S : y <= x
<1> DEFINE M == {n - s : s \in S}
<1>1. M \in SUBSET Nat /\ M # {}
  <2>1. \A s \in S : s \in Nat /\ s <= n
    OBVIOUS
  <2>2. \A s \in S : n - s \in Nat
    BY <2>1
  <2>3. M \in SUBSET Nat
    BY <2>2, Zenon
  <2>4. M # {}
    BY Zenon
  <2>5. QED
    BY <2>3, <2>4, Zenon
<1>2. PICK m \in M : \A k \in M : m <= k
  BY <1>1, LeastOfNaturals
<1>3. PICK x \in S : m = n - x
  BY <1>2
<1>4. \A y \in S : n - x <= n - y
  BY <1>2, <1>3
<1>5. \A y \in S : y <= x
  BY <1>4
<1>6. QED
  BY <1>5

LEMMA FirstOfIn ==
  ASSUME NEW S \in SUBSET Nat, S # {}
  PROVE  FirstOf(S) \in S /\ \A y \in S : FirstOf(S) <= y
  BY LeastOfNaturals DEF FirstOf

LEMMA LastOfIn ==
  ASSUME NEW S \in SUBSET Nat, S # {}, NEW n \in Nat, \A s \in S : s <= n
  PROVE  LastOf(S) \in S /\ \A y \in S : y <= LastOf(S)
  BY GreatestBelow DEF LastOf

-----------------------------------------------------------------------------
(* Positions and bytes                                                     *)

LEMMA ByteBounded ==
  ASSUME NEW p \in Nat
  PROVE  Byte(p) \in Nat /\ Byte(p) <= p
  BY BitmapAssumption DEF BitmapAssumption, Byte

LEMMA PositionsBounded ==
  /\ Positions \in SUBSET Nat
  /\ \A p \in Positions : Byte(p) \in Nat /\ Byte(p) <= Limit
<1>1. Limit \in Nat /\ \A p \in Positions : p \in Nat /\ p <= Limit
  BY BitmapAssumption, NumbersAreValid
  DEF BitmapAssumption, NumbersAreValid, Valid, Positions, Position
<1>2. \A p \in Positions : Byte(p) \in Nat /\ Byte(p) <= p
  BY <1>1, ByteBounded
<1>3. QED
  BY <1>1, <1>2

-----------------------------------------------------------------------------
(* The operations                                                          *)

\* A caller forgets what it has read: its call failed or stopped.
Abandon(c) ==
    /\ opened' = [opened EXCEPT ![c] = Closed]
    /\ UNCHANGED <<bits, asked, raced>>

BitmapStep ==
    \/ UNCHANGED bitmap
    \/ \E es \in SUBSET Numbers : SetBits(es)
    \/ \E c \in Callers : \E es \in SUBSET Numbers : SetBitsInRange(c, es)
    \/ \E c \in Callers : WriteBack(c)
    \/ \E c \in Callers : Abandon(c)

LEMMA RangeTyped ==
  ASSUME BitmapTypeOK, NEW es \in SUBSET Numbers, es # {}
  PROVE  /\ RangeOf(es) \in Ranges
         /\ RangeOf(es).old = {p \in bits : Within(p, RangeOf(es))}
<1> DEFINE bs == {Byte(Position(e)) : e \in es}
<1>1. \A e \in es : Position(e) \in Positions
  BY DEF Positions
<1>2. \A e \in es : Byte(Position(e)) \in Nat /\ Byte(Position(e)) <= Limit
  BY <1>1, PositionsBounded
<1>3. bs \in SUBSET Nat /\ bs # {} /\ \A b \in bs : b <= Limit
  BY <1>2
<1>4. FirstOf(bs) \in bs /\ LastOf(bs) \in bs
  BY <1>3, FirstOfIn, LastOfIn, BitmapAssumption DEF BitmapAssumption
<1>5. FirstOf(bs) \in Int /\ LastOf(bs) \in Int
  BY <1>3, <1>4
<1>6. RangeOf(es) = [first |-> FirstOf(bs), last |-> LastOf(bs),
                     old |-> {p \in bits : Byte(p) \in FirstOf(bs)..LastOf(bs)},
                     new |-> {Position(e) : e \in es}]
  BY DEF RangeOf
<1> HIDE DEF bs
<1>7. {p \in bits : Byte(p) \in FirstOf(bs)..LastOf(bs)} \in SUBSET Positions
  BY DEF BitmapTypeOK
<1>8. {Position(e) : e \in es} \in SUBSET Positions
  BY <1>1
<1>9. QED
  BY <1>5, <1>6, <1>7, <1>8 DEF Ranges, Within

LEMMA BitmapTyped == BitmapTypeOK /\ BitmapStep => BitmapTypeOK'
<1> SUFFICES ASSUME BitmapTypeOK, BitmapStep
             PROVE  BitmapTypeOK'
  OBVIOUS
<1>1. CASE UNCHANGED bitmap
  BY <1>1 DEF bitmap, BitmapTypeOK
<1>2. ASSUME NEW es \in SUBSET Numbers, SetBits(es)
      PROVE  BitmapTypeOK'
  <2>1. {Position(e) : e \in es} \in SUBSET Positions
    BY DEF Positions
  <2>2. QED
    BY <1>2, <2>1 DEF SetBits, Exposed, BitmapTypeOK
<1>3. ASSUME NEW c \in Callers, NEW es \in SUBSET Numbers, SetBitsInRange(c, es)
      PROVE  BitmapTypeOK'
  <2>1. CASE SetBits(es)
    BY <1>2, <2>1
  <2>2. CASE ~SetBits(es)
    <3>1. /\ es # {} /\ opened' = [opened EXCEPT ![c] = RangeOf(es)]
          /\ UNCHANGED <<bits, asked, raced>>
      BY <1>3, <2>2 DEF SetBitsInRange
    <3>2. QED
      BY <3>1, RangeTyped DEF BitmapTypeOK
  <2>3. QED
    BY <2>1, <2>2
<1>4. ASSUME NEW c \in Callers, WriteBack(c)
      PROVE  BitmapTypeOK'
  <2>1. opened[c] \in Ranges
    BY <1>4 DEF WriteBack, BitmapTypeOK
  <2>2. opened[c].old \in SUBSET Positions /\ opened[c].new \in SUBSET Positions
    BY <2>1 DEF Ranges
  <2>3. QED
    BY <1>4, <2>2 DEF WriteBack, Exposed, BitmapTypeOK
<1>5. ASSUME NEW c \in Callers, Abandon(c)
      PROVE  BitmapTypeOK'
  BY <1>5 DEF Abandon, BitmapTypeOK
<1>6. QED
  BY <1>1, <1>2, <1>3, <1>4, <1>5 DEF BitmapStep

-----------------------------------------------------------------------------
(* The bits                                                                *)

\* What a caller has read and will write back is what is in its bytes, but
\* for the bits set since, which are counted as raced.
ReadsHold ==
    \A c \in Callers : opened[c] # Closed =>
        \A p \in bits \ raced : Within(p, opened[c]) => p \in opened[c].old

BitmapInv == BitmapTypeOK /\ NothingInvented /\ BitsStay /\ ReadsHold

LEMMA BitmapInitially == BitmapInit => BitmapInv
  BY DEF BitmapInit, BitmapInv, BitmapTypeOK, NothingInvented, BitsStay, ReadsHold

LEMMA BitmapKept == BitmapInv /\ BitmapStep => BitmapInv'
<1> SUFFICES ASSUME BitmapInv, BitmapStep
             PROVE  /\ NothingInvented' /\ BitsStay' /\ ReadsHold'
  BY BitmapTyped DEF BitmapInv
<1> USE DEF BitmapInv
<1>1. CASE UNCHANGED bitmap
  BY <1>1 DEF bitmap, NothingInvented, BitsStay, ReadsHold, Within
\* A bit set outside a range is raced for whoever has its byte open.
<1>2. ASSUME NEW es \in SUBSET Numbers, SetBits(es)
      PROVE  NothingInvented' /\ BitsStay' /\ ReadsHold'
  <2> DEFINE ps == {Position(e) : e \in es}
  <2>1. /\ bits' = bits \cup ps /\ asked' = asked \cup ps
        /\ raced' = raced \cup Exposed(ps, Callers) /\ opened' = opened
    BY <1>2 DEF SetBits
  <2> HIDE DEF ps
  <2>2. NothingInvented' /\ BitsStay'
    BY <2>1 DEF NothingInvented, BitsStay
  <2>3. ReadsHold'
    BY <2>1 DEF ReadsHold, Exposed, Within
  <2>4. QED
    BY <2>2, <2>3
<1>3. ASSUME NEW c \in Callers, NEW es \in SUBSET Numbers, SetBitsInRange(c, es)
      PROVE  NothingInvented' /\ BitsStay' /\ ReadsHold'
  <2>1. CASE SetBits(es)
    BY <1>2, <2>1
  <2>2. CASE ~SetBits(es)
    <3>1. /\ es # {} /\ opened' = [opened EXCEPT ![c] = RangeOf(es)]
          /\ UNCHANGED <<bits, asked, raced>>
      BY <1>3, <2>2 DEF SetBitsInRange
    <3>2. RangeOf(es).old = {p \in bits : Within(p, RangeOf(es))}
      BY <3>1, RangeTyped
    <3>3. \A d \in Callers : opened'[d] = IF d = c THEN RangeOf(es) ELSE opened[d]
      BY <3>1 DEF BitmapTypeOK
    <3>4. NothingInvented'
      BY <3>1, <3>2, <3>3 DEF NothingInvented
    <3>5. BitsStay'
      BY <3>1 DEF BitsStay
    <3>6. ReadsHold'
      BY <3>1, <3>2, <3>3 DEF ReadsHold, Within
    <3>7. QED
      BY <3>4, <3>5, <3>6
  <2>3. QED
    BY <2>1, <2>2
\* A bit that is not raced is in what the writer read, or out of its bytes.
<1>4. ASSUME NEW c \in Callers, WriteBack(c)
      PROVE  NothingInvented' /\ BitsStay' /\ ReadsHold'
  <2>1. /\ opened[c] # Closed
        /\ bits' = {p \in bits : ~Within(p, opened[c])} \cup opened[c].old \cup opened[c].new
        /\ asked' = asked \cup opened[c].new
        /\ raced' = raced \cup Exposed(opened[c].new, Callers \ {c})
    BY <1>4 DEF WriteBack
  <2>2. \A d \in Callers : opened'[d] = IF d = c THEN Closed ELSE opened[d]
    BY <1>4 DEF WriteBack, BitmapTypeOK
  <2>3. opened[c].old \subseteq asked
    BY <2>1 DEF NothingInvented
  <2>4. NothingInvented'
    BY <2>1, <2>2, <2>3 DEF NothingInvented
  <2>5. \A p \in asked \ raced : p \in bits'
    BY <2>1 DEF BitsStay, ReadsHold
  <2>6. BitsStay'
    BY <2>1, <2>5 DEF BitsStay
  <2>7. \A p \in bits' \ raced' : p \in opened[c].new \/ p \in bits
    BY <2>1, <2>3 DEF BitsStay
  <2>8. ASSUME NEW d \in Callers, opened'[d] # Closed, NEW p \in bits' \ raced',
               Within(p, opened[d])
        PROVE  p \in opened[d].old
    <3>1. d # c /\ opened'[d] = opened[d] /\ opened[d] # Closed
      BY <2>2, <2>8
    <3>2. p \notin raced /\ p \notin opened[c].new
      BY <2>1, <2>8, <3>1 DEF Exposed
    <3>3. QED
      BY <2>7, <2>8, <3>1, <3>2 DEF ReadsHold
  <2>9. ReadsHold'
    <3>1. \A d \in Callers : opened'[d] # Closed => opened'[d] = opened[d]
      BY <2>2
    <3>2. \A d \in Callers : opened'[d] # Closed =>
             \A p \in bits' \ raced' : Byte(p) \in opened[d].first..opened[d].last
                                          => p \in opened[d].old
      BY <2>8 DEF Within
    <3>3. QED
      BY <3>1, <3>2 DEF ReadsHold, Within, Byte
  <2>10. QED
    BY <2>4, <2>6, <2>9
<1>5. ASSUME NEW c \in Callers, Abandon(c)
      PROVE  NothingInvented' /\ BitsStay' /\ ReadsHold'
  <2>1. \A d \in Callers : opened'[d] = IF d = c THEN Closed ELSE opened[d]
    BY <1>5 DEF Abandon, BitmapTypeOK
  <2>2. QED
    BY <1>5, <2>1 DEF Abandon, NothingInvented, BitsStay, ReadsHold, Within
<1>6. QED
  BY <1>1, <1>2, <1>3, <1>4, <1>5 DEF BitmapStep

-----------------------------------------------------------------------------
(* The readers                                                             *)

LEMMA ByteOfPosition ==
  ASSUME NEW p \in Nat
  PROVE  /\ p % Width \in 0..(Width - 1)
         /\ Byte(p) * Width + (p % Width) = p
<1>1. /\ p % Width \in 0..(Width - 1)
      /\ (p \div Width) * Width + (p % Width) = p
  BY BitmapAssumption DEF BitmapAssumption
<1>2. QED
  BY <1>1 DEF Byte

LEMMA LengthFromDomain ==
  ASSUME NEW n \in Int, NEW d, d = [k \in 1..n |-> d[k]]
  PROVE  Len(d) = IF n > 0 THEN n ELSE 0
<1>1. CASE n > 0
  <2>1. n \in Nat /\ DOMAIN d = 1..n
    BY <1>1
  <2>2. QED
    BY <1>1, <2>1
<1>2. CASE ~(n > 0)
  <2>1. DOMAIN d = {}
    BY <1>2
  <2>2. d = <<>>
    BY <2>1
  <2>3. QED
    BY <1>2, <2>2
<1>3. QED
  BY <1>1, <1>2

\* The bytes that GETRANGE returns hold the bits of their positions, and
\* there is none beyond them.
LEMMA RangeHolds ==
  ASSUME BitmapTypeOK, NEW first \in Nat, NEW last \in Nat,
         NEW p \in Nat, Byte(p) \in first..last
  PROVE  LET data == GetRange(first, last)
             k == Byte(p) - first
         IN  (k \in 0..(Len(data) - 1) /\ p % Width \in data[k + 1]) <=> p \in bits
<1> DEFINE length == IF bits = {} THEN 0 ELSE LastOf({Byte(q) : q \in bits}) + 1
           end == IF last < length THEN last ELSE length - 1
           data == GetRange(first, last)
           k == Byte(p) - first
<1>1. length \in Nat /\ \A q \in bits : Byte(q) < length
  <2>1. CASE bits = {}
    BY <2>1
  <2>2. CASE bits # {}
    <3> DEFINE bs == {Byte(q) : q \in bits}
    <3>1. bs \in SUBSET Nat /\ bs # {} /\ \A b \in bs : b <= Limit
      BY <2>2, PositionsBounded DEF BitmapTypeOK
    <3>2. Limit \in Nat
      BY BitmapAssumption DEF BitmapAssumption
    <3>3. LastOf(bs) \in bs /\ \A b \in bs : b <= LastOf(bs)
      BY <3>1, <3>2, LastOfIn
    <3>4. length = LastOf(bs) + 1 /\ \A q \in bits : Byte(q) \in bs
      BY <2>2
    <3> HIDE DEF bs, length
    <3>5. LastOf(bs) \in Nat
      BY <3>1, <3>3
    <3>6. \A q \in bits : Byte(q) \in Nat /\ Byte(q) <= LastOf(bs)
      BY <3>1, <3>3, <3>4
    <3>7. length \in Nat
      BY <3>4, <3>5
    <3>8. \A q \in bits : Byte(q) < length
      BY <3>4, <3>5, <3>6
    <3>9. QED
      BY <3>7, <3>8
  <2>3. QED
    BY <2>1, <2>2
<1>2. data = [j \in 1..(end - first + 1) |->
                 {i \in 0..(Width - 1) : (first + j - 1) * Width + i \in bits}]
  BY DEF GetRange
<1> HIDE DEF length
<1>3. end \in Int /\ end <= last /\ (last >= length => end = length - 1)
               /\ (last < length => end = last)
  BY <1>1
<1> HIDE DEF data, end
<1>4. end - first + 1 \in Int
  BY <1>3
<1>5. Len(data) = IF end - first + 1 > 0 THEN end - first + 1 ELSE 0
  <2>1. data = [j \in 1..(end - first + 1) |-> data[j]]
    BY <1>2
  <2>2. QED
    BY <1>4, <2>1, LengthFromDomain
<1>6. Byte(p) \in Nat
  BY ByteBounded
<1>7. k \in 0..(Len(data) - 1) <=> Byte(p) <= end
  BY <1>3, <1>5, <1>6
<1>8. ASSUME Byte(p) <= end
      PROVE  p % Width \in data[k + 1] <=> p \in bits
  <2>1. k + 1 \in 1..(end - first + 1) /\ first + (k + 1) - 1 = Byte(p)
    BY <1>3, <1>6, <1>8
  <2>2. data[k + 1] = {i \in 0..(Width - 1) : (first + (k + 1) - 1) * Width + i \in bits}
    BY <1>2, <2>1
  <2>3. data[k + 1] = {i \in 0..(Width - 1) : Byte(p) * Width + i \in bits}
    BY <2>1, <2>2
  <2>4. QED
    BY <2>3, ByteOfPosition
<1>9. ASSUME Byte(p) > end
      PROVE  p \notin bits
  BY <1>1, <1>3, <1>6, <1>9
<1>10. QED
  BY <1>3, <1>6, <1>7, <1>8, <1>9 DEF data

\* Whatever is in the string, reading it by ranges or bit by bit is the same.
LEMMA ReadersAlwaysAgree == BitmapTypeOK => ReadersAgree
<1> SUFFICES ASSUME BitmapTypeOK, NEW es \in SUBSET Numbers, es # {}
             PROVE  GetBitsInRange(es) = {e \in es : GetBit(e)}
  BY DEF ReadersAgree
<1> DEFINE ps == {Position(e) : e \in es}
           first == Byte(FirstOf(ps))
           last == Byte(LastOf(ps))
<1>1. ps \in SUBSET Positions /\ ps # {} /\ \A e \in es : Position(e) \in ps
  BY DEF Positions
<1> HIDE DEF ps
<1>2. /\ ps \in SUBSET Nat /\ Limit \in Nat
      /\ \A p \in ps : p <= Limit
  <2>1. Limit \in Nat /\ \A p \in Positions : p \in Nat /\ p <= Limit
    BY BitmapAssumption, NumbersAreValid
    DEF BitmapAssumption, NumbersAreValid, Valid, Positions, Position
  <2>2. QED
    BY <1>1, <2>1
<1>3. /\ FirstOf(ps) \in ps /\ \A p \in ps : FirstOf(ps) <= p
      /\ LastOf(ps) \in ps /\ \A p \in ps : p <= LastOf(ps)
  BY <1>1, <1>2, FirstOfIn, LastOfIn
<1>4. \A p \in ps : p \in Nat /\ Byte(p) \in Nat
  BY <1>2, ByteBounded
<1>5. \A p \in ps : Byte(p) \in first..last
  <2>1. ASSUME NEW p \in Nat, NEW q \in Nat, p <= q
        PROVE  Byte(p) <= Byte(q)
    BY <2>1, BitmapAssumption DEF BitmapAssumption, Byte
  <2>2. QED
    BY <1>3, <1>4, <2>1
<1>6. first \in Nat /\ last \in Nat
  BY <1>3, <1>4
<1>7. GetBitsInRange(es) =
        IF last - first + 1 > MaxRange
        THEN {e \in es : GetBit(e)}
        ELSE {e \in es : /\ Byte(Position(e)) - first \in 0..(Len(GetRange(first, last)) - 1)
                         /\ Position(e) % Width
                              \in GetRange(first, last)[Byte(Position(e)) - first + 1]}
  BY DEF GetBitsInRange, ps
<1> HIDE DEF first, last
<1>8. \A p \in ps : (/\ Byte(p) - first \in 0..(Len(GetRange(first, last)) - 1)
                     /\ p % Width \in GetRange(first, last)[Byte(p) - first + 1])
                    <=> p \in bits
  BY <1>4, <1>5, <1>6, RangeHolds
<1>9. \A e \in es : (/\ Byte(Position(e)) - first \in 0..(Len(GetRange(first, last)) - 1)
                     /\ Position(e) % Width
                          \in GetRange(first, last)[Byte(Position(e)) - first + 1])
                    <=> GetBit(e)
  BY <1>1, <1>8 DEF GetBit
<1>10. QED
  BY <1>7, <1>9

-----------------------------------------------------------------------------
(* Where bits come from                                                    *)

\* The positions a call has set, or has read the bytes of in order to.
Claimed == asked \cup UNION {opened[c].new : c \in {d \in Callers : opened[d] # Closed}}

\* A step of the bitmap in which no epochs but es are set.
BitmapStepFor(es) ==
    \/ UNCHANGED bitmap
    \/ SetBits(es)
    \/ \E c \in Callers : SetBitsInRange(c, es) \/ WriteBack(c) \/ Abandon(c)

LEMMA StepForClaims ==
  ASSUME BitmapTypeOK, NEW es \in SUBSET Numbers, BitmapStepFor(es)
  PROVE  /\ BitmapStep
         /\ Claimed' \subseteq Claimed \cup {Position(e) : e \in es}
<1>1. BitmapStep
  BY DEF BitmapStep, BitmapStepFor
<1>2. CASE UNCHANGED bitmap
  BY <1>1, <1>2 DEF bitmap, Claimed
<1>3. CASE SetBits(es)
  BY <1>1, <1>3 DEF SetBits, Claimed
<1>4. ASSUME NEW c \in Callers, SetBitsInRange(c, es), ~SetBits(es)
      PROVE  Claimed' \subseteq Claimed \cup {Position(e) : e \in es}
  <2>1. opened' = [opened EXCEPT ![c] = RangeOf(es)] /\ asked' = asked
    BY <1>4 DEF SetBitsInRange
  <2>2. RangeOf(es).new = {Position(e) : e \in es}
    BY DEF RangeOf
  <2>3. \A d \in Callers : opened'[d] = IF d = c THEN RangeOf(es) ELSE opened[d]
    BY <2>1 DEF BitmapTypeOK
  <2>4. QED
    BY <2>1, <2>2, <2>3 DEF Claimed
<1>5. ASSUME NEW c \in Callers, WriteBack(c) \/ Abandon(c)
      PROVE  Claimed' \subseteq Claimed
  <2>1. \A d \in Callers : opened'[d] = IF d = c THEN Closed ELSE opened[d]
    BY <1>5 DEF BitmapTypeOK, WriteBack, Abandon
  <2>2. asked' \subseteq Claimed
    BY <1>5 DEF WriteBack, Abandon, Claimed
  <2>3. QED
    BY <2>1, <2>2 DEF Claimed
<1>6. QED
  BY <1>1, <1>2, <1>3, <1>4, <1>5 DEF BitmapStepFor
=============================================================================
