-------------------------- MODULE PoolMemory_proof --------------------------
(***************************************************************************)
(* Proofs about PoolMemory for every size of the pool and every sequence   *)
(* of calls, as long as the sizes asked for fit in a uint16_t: nobody      *)
(* shares a byte, nothing leaks, and a search fails only for want of room; *)
(* and all of it holds of the loop of pool_alloc, which implements it.     *)
(***************************************************************************)
EXTENDS PoolScan, WellFoundedInduction, TLAPS

SizesFit == \A size \in Sizes : size < Word

(* The callers hold nothing of a pool that is not initialized.             *)
NothingHeldBefore == ~initialized => live = {}

IInv ==
  /\ TypeOK
  /\ RegionsDisjoint
  /\ UsedIsGranted
  /\ TwiceTheRoomIsEnough
  /\ NothingHeldBefore

-----------------------------------------------------------------------------
(* The search.                                                             *)

LEMMA LeastOfASet ==
  ASSUME NEW S \in SUBSET Nat, S # {}
  PROVE  Least(S) \in S /\ \A j \in S : Least(S) <= j
<1> DEFINE R == {ss \in Nat \X Nat : ss[1] < ss[2]}
<1>1. IsWellFoundedOn(R, Nat)
  BY NatLessThanWellFounded DEF OpToRel
<1>2. PICK i \in S : \A j \in S : ~(<<j, i>> \in R)
  <2> HIDE DEF R
  <2> QED
    BY <1>1, WFMin
<1>3. \A j \in S : i <= j
  <2> TAKE j \in S
  <2>1. <<j, i>> \notin R /\ j \in Nat /\ i \in Nat
    BY <1>2
  <2> QED
    BY <2>1, Z3
<1> QED
  BY <1>3 DEF Least

LEMMA NeededIsSize ==
  ASSUME SizesFit, NEW size \in Sizes
  PROVE  size \in Nat /\ Needed(size) = size
<1>1. size \in Nat /\ size < Word /\ Word \in Nat
  BY PoolAssumption DEF SizesFit
<1> QED
  BY <1>1 DEF Needed

(* What the search finds is free, and as long as it has to be.             *)
LEMMA FoundIsFree ==
  ASSUME TypeOK, NEW n \in Nat, Found(n) # Null
  PROVE  Found(n) \in Block /\ Run(Found(n), Searched(n)) \subseteq Block \ used
<1>1. Blocks \in Nat /\ last \in Block /\ last \in Nat
  BY PoolAssumption DEF TypeOK, Block
<1>2. HighWindow \subseteq Block /\ LowWindow \subseteq Block /\ Block \subseteq Nat
  BY <1>1 DEF HighWindow, LowWindow, Block
<1>3. PICK W \in {HighWindow, LowWindow} : Fits(W, n) # {} /\ Found(n) = Least(Fits(W, n))
  BY DEF Found
<1>4. Fits(W, n) \in SUBSET Nat
  BY <1>2 DEF Fits
<1>5. Found(n) \in Fits(W, n)
  BY <1>3, <1>4, LeastOfASet
<1> QED
  BY <1>2, <1>5 DEF Fits

(* A run of 2n - 1 free blocks has n of them in one of the two windows.    *)
LEMMA NoRunOfTwiceTheRoom ==
  ASSUME TypeOK, NEW n \in Nat, Found(n) = Null, NEW i \in Block
  PROVE  ~(Run(i, 2 * Searched(n) - 1) \subseteq Block \ used)
<1> DEFINE s == Searched(n)
<1>1. /\ Blocks \in Nat /\ last \in Nat /\ last < Blocks /\ i \in Nat /\ i < Blocks
      /\ s \in Nat /\ s >= 1
  BY PoolAssumption DEF TypeOK, Block, Searched
<1>2. HighWindow \subseteq Nat /\ LowWindow \subseteq Nat
  BY <1>1 DEF HighWindow, LowWindow
<1>3. Fits(HighWindow, n) = {} /\ Fits(LowWindow, n) = {}
  <2>1. ASSUME NEW W \in {HighWindow, LowWindow}, Fits(W, n) # {}
        PROVE  Least(Fits(W, n)) # Null
    <3>1. Fits(W, n) \in SUBSET Nat
      BY <1>2 DEF Fits
    <3>2. Least(Fits(W, n)) \in Nat
      BY <2>1, <3>1, LeastOfASet
    <3> QED
      BY <3>2, PoolAssumption
  <2> QED
    BY <2>1 DEF Found
<1>4. SUFFICES ASSUME Run(i, 2 * s - 1) \subseteq Block \ used PROVE FALSE
  OBVIOUS
<1> HIDE DEF s
<1>5. i + 2 * s - 2 < Blocks
  <2>1. i + 2 * s - 2 \in Run(i, 2 * s - 1)
    BY <1>1 DEF Run
  <2> QED
    BY <1>1, <1>4, <2>1 DEF Block
<1>6. CASE last <= i + s - 1
  <2> DEFINE j == IF i <= last THEN last ELSE i
  <2>1. j \in Nat /\ last <= j /\ i <= j /\ j <= i + s - 1
    BY <1>1, <1>6
  <2>2. Run(j, s) \subseteq HighWindow \ used /\ j \in HighWindow
    <3>1. Run(j, s) \subseteq Run(i, 2 * s - 1) /\ j \in Run(j, s)
      BY <1>1, <2>1 DEF Run
    <3>2. Run(j, s) \subseteq HighWindow
      BY <1>1, <1>5, <2>1 DEF Run, HighWindow
    <3> QED
      BY <1>4, <3>1, <3>2
  <2> QED
    BY <1>3, <2>2 DEF Fits, s
<1>7. CASE last > i + s - 1
  <2>1. Run(i, s) \subseteq LowWindow \ used /\ i \in LowWindow
    <3>1. Run(i, s) \subseteq Run(i, 2 * s - 1) /\ i \in Run(i, s)
      BY <1>1 DEF Run
    <3>2. Run(i, s) \subseteq LowWindow
      BY <1>1, <1>7 DEF Run, LowWindow
    <3> QED
      BY <1>4, <3>1, <3>2
  <2> QED
    BY <1>3, <2>1 DEF Fits, s
<1> QED
  BY <1>1, <1>6, <1>7

LEMMA NextFreeIsABlock ==
  ASSUME NEW i, NEW taken
  PROVE  NextFree(i, taken) \in Block
<1> DEFINE free == {j \in Block : i <= j} \ taken
<1>1. free \in SUBSET Nat /\ 0 \in Block /\ free \subseteq Block
  BY PoolAssumption DEF Block
<1>2. free # {} => Least(free) \in free
  BY <1>1, LeastOfASet
<1> QED
  BY <1>1, <1>2 DEF NextFree

-----------------------------------------------------------------------------
LEMMA InitIInv == Init => IInv
<1>1. 0 \in Block /\ Null # 0 /\ 0 \in Nat
  BY PoolAssumption DEF Block
<1> QED
  BY <1>1
  DEF Init, IInv, TypeOK, RegionsDisjoint, UsedIsGranted, TwiceTheRoomIsEnough,
      NothingHeldBefore, Ok

LEMMA PoolInitIInv ==
  ASSUME IInv, PoolInit
  PROVE  IInv'
<1>1. live = {} /\ live' = {} /\ used' = {} /\ answer' = 0 /\ initialized' /\ last' = 0
      /\ asked' = 0
  BY DEF IInv, PoolInit, NothingHeldBefore, Ok
<1>2. 0 \in Block /\ Null # 0
  BY PoolAssumption DEF Block
<1> QED
  BY <1>1, <1>2
  DEF IInv, TypeOK, RegionsDisjoint, UsedIsGranted, TwiceTheRoomIsEnough,
      NothingHeldBefore, PoolInit

LEMMA PoolAllocIInv ==
  ASSUME SizesFit, IInv, NEW size \in Sizes, PoolAlloc(size)
  PROVE  IInv'
<1>1. size \in Nat /\ Needed(size) = size
  BY NeededIsSize
<1>2. /\ TypeOK /\ RegionsDisjoint /\ UsedIsGranted
      /\ initialized /\ initialized' = initialized /\ asked' = size
  BY DEF IInv, PoolAlloc
<1>3. CASE answer' = Null /\ UNCHANGED <<used, last, live>>
           /\ (size > Blocks \/ Found(size) = Null)
  <2>1. \A i \in Block : ~(Run(i, 2 * Searched(size) - 1) \subseteq Block \ used)
    <3>1. CASE Found(size) = Null
      BY <1>1, <1>2, <3>1, NoRunOfTwiceTheRoom
    <3>2. CASE size > Blocks
      <4> TAKE i \in Block
      <4>1. i \in Nat /\ Blocks \in Nat \ {0} /\ Searched(size) = size
        BY <1>1, <3>2, PoolAssumption DEF Block, Searched
      <4>2. i + 2 * size - 2 \in Run(i, 2 * size - 1) /\ i + 2 * size - 2 \notin Block
        BY <1>1, <3>2, <4>1 DEF Run, Block
      <4> QED
        BY <4>1, <4>2
    <3> QED
      BY <1>3, <3>1, <3>2
  <2> QED
    BY <1>1, <1>2, <1>3, <2>1
    DEF IInv, TypeOK, RegionsDisjoint, UsedIsGranted, TwiceTheRoomIsEnough, NothingHeldBefore
<1>4. CASE answer' = Found(size) /\ Found(size) # Null /\ Grant(answer', size)
  <2> DEFINE at == Found(size)
  <2>1. /\ at \in Block /\ Run(at, Searched(size)) \subseteq Block \ used
    BY <1>1, <1>2, <1>4, FoundIsFree
  <2>2. Run(at, size) \subseteq Block \ used
    <3>1. CASE size = 0
      <4>1. Run(at, size) = {}
        BY <2>1, <3>1, PoolAssumption DEF Run, Block
      <4> QED
        BY <4>1
    <3> QED
      BY <2>1, <3>1 DEF Searched
  <2>3. /\ used' = used \cup Run(at, size)
        /\ last' \in Block
        /\ live' = IF size = 0 THEN live ELSE live \cup {[at |-> at, size |-> size]}
    BY <1>1, <1>4, NextFreeIsABlock DEF Grant
  <2> DEFINE new == [at |-> at, size |-> size]
  <2>4. Extent(new) = Run(at, size)
    BY DEF Extent
  <2>5. size = 0 => Run(at, size) = {}
    BY <2>1, PoolAssumption DEF Run, Block
  <2>6. TypeOK'
    BY <1>1, <1>2, <1>4, <2>1, <2>2, <2>3 DEF TypeOK
  <2> HIDE DEF at
  <2>7. \A r \in live : Extent(r) \subseteq used /\ Extent(r) \subseteq Block
    BY <1>2 DEF UsedIsGranted, RegionsDisjoint
  <2>8. RegionsDisjoint'
    <3>1. \A r \in live : Extent(r) \cap Extent(new) = {}
      BY <2>2, <2>4, <2>7
    <3>2. live' \subseteq live \cup {new}
      BY <2>3
    <3>3. Extent(new) \subseteq Block
      BY <2>2, <2>4
    <3> HIDE DEF new
    <3>4. \A r \in live' : Extent(r) \subseteq Block
      BY <2>7, <3>2, <3>3
    <3>5. \A r, s \in live' : r = s \/ Extent(r) \cap Extent(s) = {}
      BY <1>2, <3>1, <3>2 DEF RegionsDisjoint
    <3> QED
      BY <3>4, <3>5 DEF RegionsDisjoint, Extent, Run, Block
  <2>9. UsedIsGranted'
    <3>1. CASE size = 0
      BY <1>2, <2>3, <2>5, <3>1 DEF UsedIsGranted, Extent, Run
    <3>2. CASE size # 0
      <4>1. live' = live \cup {new}
        BY <2>3, <3>2
      <4>2. used' = (UNION {Extent(r) : r \in live}) \cup Extent(new)
        BY <1>2, <2>3, <2>4 DEF UsedIsGranted
      <4> HIDE DEF new
      <4>3. used' = UNION {Extent(r) : r \in live'}
        BY <4>1, <4>2
      <4> QED
        BY <4>3 DEF UsedIsGranted, Extent, Run
    <3> QED
      BY <3>1, <3>2
  <2>10. answer' # Null
    BY <1>4
  <2> QED
    BY <1>2, <2>6, <2>8, <2>9, <2>10 DEF IInv, TwiceTheRoomIsEnough, NothingHeldBefore
<1> QED
  BY <1>1, <1>3, <1>4 DEF PoolAlloc

LEMMA PoolFreeRegionIInv ==
  ASSUME SizesFit, IInv, NEW ptr \in Block \cup {Null, Blocks}, NEW size \in Sizes,
         PoolFreeRegion(ptr, size)
  PROVE  IInv'
<1>1. size \in Nat /\ Needed(size) = size
  BY NeededIsSize
<1>2. /\ TypeOK /\ RegionsDisjoint /\ UsedIsGranted
      /\ initialized /\ initialized' = initialized /\ asked' = 0
      /\ answer' = FreeError(ptr, size)
  BY DEF IInv, PoolFreeRegion
<1>3. answer' \in {Ok, OutOfMemory, OutOfRange, InvalidArgument} /\ answer' # Null
  BY <1>2, PoolAssumption DEF FreeError, Ok, OutOfMemory, OutOfRange, InvalidArgument
<1>4. answer' \in Block \cup {Null, OutOfMemory, OutOfRange, InvalidArgument}
  BY <1>3, PoolAssumption DEF Ok, Block
<1>5. CASE UNCHANGED <<used, last, live>>
  BY <1>2, <1>3, <1>4, <1>5
  DEF IInv, TypeOK, RegionsDisjoint, UsedIsGranted, TwiceTheRoomIsEnough, NothingHeldBefore
<1>6. CASE answer' = Ok
  <2> DEFINE r == [at |-> ptr, size |-> size]
  <2>1. /\ r \in live
        /\ used' = used \ Freed(ptr, size)
        /\ last' = IF Freed(ptr, size) # {} /\ ptr < last THEN ptr ELSE last
        /\ live' = live \ {r}
    BY <1>6 DEF PoolFreeRegion
  <2>2. ptr \in Block /\ ptr \in Nat /\ size # 0 /\ Extent(r) \subseteq Block
    BY <1>2, <1>6, <2>1
    DEF FreeError, Ok, OutOfMemory, OutOfRange, InvalidArgument, RegionsDisjoint, Block
  <2>3. Freed(ptr, size) = Extent(r)
    <3>1. ptr + size - 1 \in Run(ptr, size) /\ Extent(r) = Run(ptr, size)
      BY <1>1, <2>2 DEF Run, Extent
    <3>2. ptr + size - 1 \in Nat /\ ptr + size - 1 < Word /\ Word \in Nat
      BY <1>1, <2>2, <3>1, PoolAssumption DEF Block
    <3>3. LastBlock(ptr, size) = ptr + size - 1
      BY <1>1, <3>2 DEF LastBlock
    <3> QED
      BY <3>1, <3>3 DEF Freed, Run
  <2>4. TypeOK'
    BY <1>2, <1>4, <2>1, <2>2 DEF TypeOK
  <2> HIDE DEF r
  <2>5. RegionsDisjoint'
    BY <1>2, <2>1 DEF RegionsDisjoint, Extent, Run, Block
  <2>6. UsedIsGranted'
    <3>1. \A s \in live \ {r} : Extent(s) \cap Extent(r) = {}
      BY <1>2, <2>1 DEF RegionsDisjoint
    <3>2. used' = (UNION {Extent(s) : s \in live}) \ Extent(r)
      BY <1>2, <2>1, <2>3 DEF UsedIsGranted
    <3>3. (UNION {Extent(s) : s \in live}) \ Extent(r) = UNION {Extent(s) : s \in live \ {r}}
      BY <3>1
    <3> QED
      BY <2>1, <3>2, <3>3 DEF UsedIsGranted, Extent, Run
  <2> QED
    BY <1>2, <1>3, <2>4, <2>5, <2>6 DEF IInv, TwiceTheRoomIsEnough, NothingHeldBefore
<1> QED
  BY <1>5, <1>6 DEF PoolFreeRegion

LEMMA PoolFreeIInv ==
  ASSUME IInv, PoolFree
  PROVE  IInv'
<1>1. 0 \in Block /\ Null # 0
  BY PoolAssumption DEF Block
<1> QED
  BY <1>1
  DEF IInv, PoolFree, TypeOK, RegionsDisjoint, UsedIsGranted, TwiceTheRoomIsEnough,
      NothingHeldBefore, Ok

LEMMA NextIInv ==
  ASSUME SizesFit, IInv, [Next]_vars
  PROVE  IInv'
<1>1. CASE UNCHANGED vars
  BY <1>1
  DEF IInv, TypeOK, RegionsDisjoint, UsedIsGranted, TwiceTheRoomIsEnough,
      NothingHeldBefore, vars
<1> QED
  BY <1>1, PoolInitIInv, PoolAllocIInv, PoolFreeRegionIInv, PoolFreeIInv DEF Next

(* The inductive invariant: besides what the properties say, only that     *)
(* nothing is held of a pool before pool_init, which clears the bitmap.    *)
THEOREM Invariance ==
  ASSUME SizesFit
  PROVE  Spec => []IInv
<1> QED
  BY InitIInv, NextIInv, PTL DEF Spec

(* No search begins outside of the pool, and no grant lies outside of it.  *)
THEOREM TypeCorrect ==
  ASSUME SizesFit
  PROVE  Spec => []TypeOK
<1>1. IInv => TypeOK
  BY DEF IInv
<1> QED
  BY Invariance, <1>1, PTL

(* No two callers of pool_alloc ever hold the same byte of the pool.       *)
THEOREM NobodyShares ==
  ASSUME SizesFit
  PROVE  Spec => []RegionsDisjoint
<1>1. IInv => RegionsDisjoint
  BY DEF IInv
<1> QED
  BY Invariance, <1>1, PTL

(* No sequence of grants and frees leaks a byte or frees one in use.       *)
THEOREM NothingLeaks ==
  ASSUME SizesFit
  PROVE  Spec => []UsedIsGranted
<1>1. IInv => UsedIsGranted
  BY DEF IInv
<1> QED
  BY Invariance, <1>1, PTL

(* The two windows of the search cost a caller at most a factor of two.    *)
THEOREM RoomIsFound ==
  ASSUME SizesFit
  PROVE  Spec => []TwiceTheRoomIsEnough
<1>1. IInv => TwiceTheRoomIsEnough
  BY DEF IInv
<1> QED
  BY Invariance, <1>1, PTL

-----------------------------------------------------------------------------
(* The scan.  Before block i of pass p, with c free blocks behind it, no   *)
(* run that is long enough begins in the window of p before these c, and   *)
(* none at all in the window of an earlier pass.                           *)

From(p) == IF p = 0 THEN last ELSE 0
UpTo(p) == IF p = 0 THEN Blocks ELSE last
Window(p) == From(p) .. (UpTo(p) - 1)

ScanAt(p, i, c, f) ==
  /\ initialized
  /\ wanted \in Sizes
  /\ needed = Needed(wanted) /\ needed <= Blocks
  /\ i \in From(p) .. UpTo(p)
  /\ c \in 0 .. (i - From(p)) /\ c < Searched(needed)
  /\ c > 0 => f = i - c
  /\ Run(i - c, c) \cap used = {}
  /\ \A j \in Fits(Window(p), needed) : i - c <= j
  /\ p = 1 => Fits(Window(0), needed) = {}

SInv ==
  /\ pass \in 0 .. 2
  /\ Searching => ScanAt(pass, idxBlock, consecutive, first)

LEMMA Windows ==
  ASSUME TypeOK
  PROVE  /\ Window(0) = HighWindow /\ Window(1) = LowWindow
         /\ Blocks \in Nat /\ last \in Nat /\ last < Blocks
         /\ \A p \in {0, 1} : From(p) \in Nat /\ UpTo(p) \in Nat /\ From(p) <= UpTo(p)
BY PoolAssumption DEF TypeOK, Block, Window, From, UpTo, HighWindow, LowWindow

LEMMA ScanGoesOn ==
  ASSUME NEW p \in {0, 1}, NEW i, NEW c, NEW f,
         ScanAt(p, i, c, f), Locals(p, i, c, f), UNCHANGED vars
  PROVE  SInv'
<1>1. /\ pass' = p /\ idxBlock' = i /\ consecutive' = c /\ first' = f
      /\ needed' = needed /\ wanted' = wanted
      /\ initialized' = initialized /\ used' = used /\ last' = last
  BY DEF Locals, vars
<1>2. ScanAt(p, i, c, f)'
  BY <1>1 DEF ScanAt, From, UpTo, Window, Fits, Run, Searched, Needed
<1>3. ScanAt(pass, idxBlock, consecutive, first)'
  BY <1>1, <1>2
<1> QED
  BY <1>1, <1>3 DEF SInv

LEMMA NoLongerSearching ==
  ASSUME pass' = 2
  PROVE  SInv'
BY DEF SInv, Searching

(* At the end of its window a pass has missed nothing.                     *)
LEMMA WindowSearched ==
  ASSUME TypeOK, NEW p \in {0, 1}, NEW i, NEW c, NEW f,
         ScanAt(p, i, c, f), i = UpTo(p)
  PROVE  Fits(Window(p), needed) = {}
<1> SUFFICES ASSUME NEW j \in Fits(Window(p), needed) PROVE FALSE
  OBVIOUS
<1> DEFINE s == Searched(needed)
<1>1. needed \in Nat /\ s \in Nat \ {0}
  BY PoolAssumption DEF ScanAt, Needed, Searched
<1>2. /\ i \in Nat /\ c \in Nat /\ c < s /\ i - c <= j
      /\ j \in Nat /\ Run(j, s) \subseteq Window(p)
  <2>1. From(p) \in Nat /\ UpTo(p) \in Nat
    BY Windows
  <2>2. i \in From(p) .. UpTo(p) /\ c \in 0 .. (i - From(p)) /\ c < s /\ i - c <= j
    BY DEF ScanAt
  <2>3. j \in Window(p) /\ Run(j, s) \subseteq Window(p)
    BY DEF Fits
  <2> HIDE DEF s
  <2> QED
    BY <2>1, <2>2, <2>3 DEF Window
<1> HIDE DEF s
<1>3. j + s - 1 \in Run(j, s)
  BY <1>1, <1>2 DEF Run
<1>4. j + s - 1 < i
  BY <1>1, <1>2, <1>3, Windows DEF Window
<1> QED
  BY <1>1, <1>2, <1>4

LEMMA BeginScan ==
  ASSUME IInv, SizesFit, SInv, NEW size \in Sizes, Begin(size)
  PROVE  SInv' /\ [Next]_vars
<1>1. CASE Needed(size) > Blocks
  <2>1. PoolAlloc(size) /\ UNCHANGED locals
    BY <1>1 DEF Begin, Refuse, PoolAlloc
  <2>2. Next
    BY <2>1 DEF Next
  <2>3. pass' = pass /\ pass \in 0 .. 2 /\ ~(pass < 2)
    BY <2>1 DEF Begin, SInv, Searching, locals
  <2> QED
    BY <2>2, <2>3 DEF SInv, Searching
<1>2. CASE ~(Needed(size) > Blocks)
  <2>1. /\ initialized /\ UNCHANGED vars
        /\ pass' = 0 /\ needed' = Needed(size) /\ wanted' = size
        /\ idxBlock' = last /\ consecutive' = 0 /\ first' = 0
    BY <1>2 DEF Begin
  <2>2. Needed(size) \in Nat
    BY NeededIsSize
  <2>3. TypeOK /\ (initialized /\ last \in Nat)' /\ last' = last
    BY <2>1, Windows DEF IInv, vars
  <2>4. ScanAt(0, last, 0, 0)'
    <3>1. needed' \in Nat /\ needed' <= Blocks /\ wanted' \in Sizes /\ (needed = Needed(wanted))'
      BY <1>2, <2>1, <2>2, PoolAssumption DEF Needed
    <3>2. (/\ last \in From(0) .. UpTo(0) /\ 0 \in 0 .. (last - From(0))
           /\ 0 < Searched(needed) /\ Run(last - 0, 0) \cap used = {})'
      BY <2>1, <2>3, <3>1, Windows DEF From, UpTo, Searched, Run
    <3>3. (\A j \in Fits(Window(0), needed) : last - 0 <= j)'
      BY <2>3, Windows DEF Fits, Window, From
    <3> QED
      BY <2>3, <3>1, <3>2, <3>3 DEF ScanAt
  <2>5. ScanAt(pass, idxBlock, consecutive, first)'
    BY <2>1, <2>3, <2>4
  <2> QED
    BY <2>1, <2>5 DEF SInv
<1> QED
  BY <1>1, <1>2, NeededIsSize, PoolAssumption

(* A free block ends the search with the first run of its window, or is    *)
(* one more of a run.                                                      *)
LEMMA FreeBlockScan ==
  ASSUME IInv, SizesFit, SInv, FreeBlock
  PROVE  SInv' /\ [Next]_vars
<1> DEFINE s == Searched(needed)
           i == idxBlock
           c == consecutive
           at == i - c
<1>1. pass \in {0, 1} /\ ScanAt(pass, i, c, first) /\ i \notin used /\ i < UpTo(pass)
  BY DEF FreeBlock, SInv, Searching, End, UpTo
<1>2. TypeOK
  BY DEF IInv
<1>3. needed \in Nat /\ s \in Nat \ {0} /\ (needed > 0 => s = needed) /\ (needed = 0 => s = 1)
  BY <1>1, NeededIsSize DEF ScanAt, Searched
<1>4. /\ i \in Nat /\ c \in Nat /\ c < s /\ at \in Nat /\ From(pass) <= at /\ From(pass) \in Nat
      /\ UpTo(pass) \in Nat /\ FirstOfRun = at
  <2>1. From(pass) \in Nat /\ UpTo(pass) \in Nat
    BY <1>1, <1>2, Windows
  <2>2. i \in From(pass) .. UpTo(pass) /\ c \in 0 .. (i - From(pass)) /\ c < s
    BY <1>1 DEF ScanAt
  <2>3. c > 0 => first = at
    BY <1>1 DEF ScanAt
  <2> HIDE DEF s
  <2>4. i \in Nat /\ c \in Nat /\ at \in Nat /\ From(pass) <= at
    BY <2>1, <2>2
  <2>5. FirstOfRun = at
    <3>1. CASE c = 0
      <4>1. at = i
        BY <2>4, <3>1
      <4> QED
        BY <3>1, <4>1 DEF FirstOfRun
    <3>2. CASE c > 0
      <4>1. c # 0
        BY <2>4, <3>2
      <4> QED
        BY <2>3, <3>2, <4>1 DEF FirstOfRun
    <3> QED
      BY <2>4, <3>1, <3>2
  <2> QED
    BY <2>1, <2>2, <2>4, <2>5
<1>5. \A j \in at .. i : j \notin used /\ j \in Window(pass)
  <2>1. \A j \in Run(at, c) : j \notin used
    BY <1>1 DEF ScanAt
  <2> QED
    BY <1>1, <1>4, <2>1 DEF Run, Window
<1>6. CASE c + 1 >= needed
  <2>1. c + 1 = s
    BY <1>3, <1>4, <1>6
  <2>2. Run(at, s) = at .. i
    BY <1>4, <2>1 DEF Run
  <2>3. at \in Fits(Window(pass), needed)
    BY <1>4, <1>5, <2>2 DEF Fits
  <2>4. Fits(Window(pass), needed) \in SUBSET Nat
    BY <1>4 DEF Fits, Window
  <2>5. Least(Fits(Window(pass), needed)) = at
    <3> DEFINE S == Fits(Window(pass), needed)
               m == Least(S)
    <3>1. \A j \in S : at <= j
      BY <1>1 DEF ScanAt
    <3>2. Least(S) \in S /\ \A j \in S : Least(S) <= j
      BY <2>3, <2>4, LeastOfASet
    <3>3. Least(S) \in Nat /\ Least(S) <= at /\ at <= Least(S)
      BY <2>3, <2>4, <3>1, <3>2
    <3>4. m \in Nat /\ m <= at /\ at <= m
      BY <3>3
    <3>5. m = at
      <4> HIDE DEF m
      <4> QED
        BY <1>4, <3>4
    <3> QED
      BY <3>5
  <2>6. Found(needed) = at
    BY <1>1, <1>2, <2>3, <2>5, Windows DEF Found, ScanAt
  <2>7. /\ Grant(at, wanted) /\ asked' = wanted /\ answer' = at /\ pass' = 2
        /\ UNCHANGED initialized
    BY <1>4, <1>6 DEF FreeBlock, EndScan
  <2>8. /\ initialized /\ wanted \in Sizes /\ needed = Needed(wanted) /\ needed <= Blocks
    BY <1>1 DEF ScanAt
  <2>9. ~(needed > Blocks) /\ at # Null
    BY <1>3, <1>4, <2>8, PoolAssumption
  <2>10. PoolAlloc(wanted)
    <3> HIDE DEF at, s, i, c
    <3> QED
      BY <2>6, <2>7, <2>8, <2>9 DEF PoolAlloc
  <2> QED
    BY <2>7, <2>8, <2>10, NoLongerSearching DEF Next
<1>7. CASE c + 1 < needed
  <2>1. Locals(pass, i + 1, c + 1, at) /\ UNCHANGED vars
    BY <1>3, <1>4, <1>7 DEF FreeBlock
  <2>2. ScanAt(pass, i + 1, c + 1, at)
    <3>1. (i + 1) - (c + 1) = at
      BY <1>4
    <3>2. Run(at, c + 1) \cap used = {}
      BY <1>4, <1>5 DEF Run
    <3>3. /\ i + 1 \in From(pass) .. UpTo(pass)
          /\ c + 1 \in 0 .. ((i + 1) - From(pass)) /\ c + 1 < s
      BY <1>1, <1>3, <1>4, <1>7
    <3> QED
      BY <1>1, <3>1, <3>2, <3>3 DEF ScanAt
  <2> QED
    BY <1>1, <2>1, <2>2, ScanGoesOn
<1> QED
  BY <1>3, <1>4, <1>6, <1>7

(* No run that is long enough goes over a block in use.                    *)
LEMMA UsedBlockScan ==
  ASSUME IInv, SizesFit, SInv, UsedBlock
  PROVE  SInv' /\ [Next]_vars
<1> DEFINE s == Searched(needed)
           i == idxBlock
           c == consecutive
<1>1. pass \in {0, 1} /\ ScanAt(pass, i, c, first) /\ i \in used /\ i < UpTo(pass)
  BY DEF UsedBlock, SInv, Searching, End, UpTo
<1>2. TypeOK
  BY DEF IInv
<1>3. needed \in Nat /\ s \in Nat \ {0}
  BY <1>1, NeededIsSize DEF ScanAt, Searched
<1>4. /\ i \in Nat /\ c \in Nat /\ c < s /\ From(pass) <= i /\ From(pass) \in Nat
      /\ UpTo(pass) \in Nat
  BY <1>1, <1>2, Windows DEF ScanAt
<1>5. ASSUME NEW j \in Fits(Window(pass), needed) PROVE (i + 1) - 0 <= j
  <2>1. j \in Nat /\ i - c <= j /\ Run(j, s) \cap used = {}
    BY <1>1, <1>4 DEF ScanAt, Fits, Window
  <2>2. i \notin Run(j, s)
    BY <1>1, <2>1
  <2> HIDE DEF s
  <2> QED
    BY <1>3, <1>4, <2>1, <2>2 DEF Run
<1>6. ScanAt(pass, i + 1, 0, first)
  <2>1. Run((i + 1) - 0, 0) = {}
    BY <1>4 DEF Run
  <2>2. i + 1 \in From(pass) .. UpTo(pass) /\ 0 \in 0 .. ((i + 1) - From(pass)) /\ 0 < s
    BY <1>1, <1>3, <1>4
  <2> QED
    BY <1>1, <1>5, <2>1, <2>2 DEF ScanAt
<1> QED
  BY <1>1, <1>6, ScanGoesOn DEF UsedBlock

LEMMA NextPassScan ==
  ASSUME IInv, SizesFit, SInv, NextPass
  PROVE  SInv' /\ [Next]_vars
<1>1. ScanAt(0, idxBlock, consecutive, first) /\ idxBlock = UpTo(0)
  BY DEF NextPass, SInv, Searching, End, UpTo
<1>2. TypeOK
  BY DEF IInv
<1>3. Fits(Window(0), needed) = {}
  BY <1>1, <1>2, WindowSearched
<1>4. needed \in Nat /\ 0 < Searched(needed)
  BY <1>1, NeededIsSize DEF ScanAt, Searched
<1>5. Run(0 - 0, 0) = {} /\ \A j \in Fits(Window(1), needed) : 0 - 0 <= j
  BY <1>2, Windows DEF Run, Fits, Window, From
<1>6. 0 \in From(1) .. UpTo(1) /\ 0 \in 0 .. (0 - From(1))
  BY <1>2, Windows DEF From, UpTo
<1>7. ScanAt(1, 0, 0, first)
  BY <1>1, <1>3, <1>4, <1>5, <1>6 DEF ScanAt
<1> QED
  BY <1>7, ScanGoesOn DEF NextPass, CountedAnew

LEMMA NothingFoundScan ==
  ASSUME IInv, SizesFit, SInv, NothingFound
  PROVE  SInv' /\ [Next]_vars
<1>1. ScanAt(1, idxBlock, consecutive, first) /\ idxBlock = UpTo(1)
  BY DEF NothingFound, SInv, Searching, End, UpTo
<1>2. Fits(LowWindow, needed) = {} /\ Fits(HighWindow, needed) = {}
  BY <1>1, WindowSearched, Windows DEF IInv, ScanAt
<1>3. Found(needed) = Null
  BY <1>2 DEF Found
<1>4. PoolAlloc(wanted) /\ wanted \in Sizes
  BY <1>1, <1>3 DEF NothingFound, Refuse, PoolAlloc, ScanAt
<1> QED
  BY <1>4, NoLongerSearching DEF NothingFound, EndScan, Next

(* While the scan runs it is where ScanAt says; each of its steps but the  *)
(* last stutters, and the last is the call.                                *)
LEMMA ScanStep ==
  ASSUME IInv, SizesFit, SInv, [ScanNext]_scanVars
  PROVE  SInv' /\ [Next]_vars
<1>1. CASE OtherCall
  BY <1>1 DEF OtherCall, SInv, Searching, locals, Next
<1>2. CASE UNCHANGED scanVars
  <2>1. UNCHANGED vars /\ UNCHANGED locals
    BY <1>2 DEF scanVars
  <2>2. Searching => SInv'
    <3>1. Searching => Locals(pass, idxBlock, consecutive, first)
      BY <2>1 DEF Locals, locals
    <3> QED
      BY <2>1, <3>1, ScanGoesOn DEF SInv, Searching
  <2>3. ~Searching => SInv'
    BY <2>1 DEF SInv, Searching, locals
  <2> QED
    BY <2>1, <2>2, <2>3
<1> QED
  BY <1>1, <1>2, BeginScan, FreeBlockScan, UsedBlockScan, NextPassScan, NothingFoundScan
  DEF ScanNext

(* For every pool, the loop of pool_alloc grants the first run of either   *)
(* window that is free and long enough, and refuses only when there is     *)
(* none: each call of it is one of PoolMemory, so that the theorems above  *)
(* hold of the loop.                                                       *)
THEOREM ScanIsFirstFit ==
  ASSUME SizesFit
  PROVE  ScanSpec => ImplementsFirstFit
<1>1. ScanInit => Init /\ IInv /\ SInv
  BY InitIInv DEF ScanInit, SInv, Searching
<1>2. IInv /\ SInv /\ [ScanNext]_scanVars => [Next]_vars /\ SInv' /\ IInv'
  BY ScanStep, NextIInv
<1> QED
  BY <1>1, <1>2, PTL DEF ScanSpec, Spec, ImplementsFirstFit
=============================================================================
