----------------------------- MODULE PoolMemory -----------------------------
(***************************************************************************)
(* The pool allocator (allocator/pool_memory.c): a bitmap of one-byte      *)
(* blocks, searched first-fit from last_free_block to the end and then     *)
(* from the start to last_free_block.  The FAT32 layer and the block       *)
(* adapter (sd_fat32.c) are its callers; they call from one thread, after  *)
(* pool_init, and free exactly what they were given.                       *)
(***************************************************************************)
EXTENDS Integers, FiniteSets

CONSTANTS
  Blocks,  \* BLOCKS_COUNT (4096)
  Word,    \* 2^16: counts of blocks are kept in uint16_t
  Sizes,   \* the sizes that callers ask for, in bytes
  Null     \* the null pointer

ASSUME PoolAssumption ==
  /\ Blocks \in Nat \ {0}
  /\ Word \in Nat
  /\ Blocks < Word
  /\ Sizes \subseteq Nat
  /\ Null \notin Int

VARIABLES
  initialized,
  used,     \* bitmap: the blocks marked as taken
  last,     \* last_free_block: where a search begins
  live,     \* ghost: regions granted and not freed, as the callers know them
  asked,    \* the size in the last call
  answer    \* what the last call returned

vars == <<initialized, used, last, live, asked, answer>>

Block == 0 .. (Blocks - 1)

Run(first, n) == first .. (first + n - 1)

Extent(r) == Run(r.at, r.size)

(* Errors of pool_free_region.                                             *)
Ok == 0
OutOfMemory == -2
OutOfRange == -4
InvalidArgument == -6

-----------------------------------------------------------------------------
(* blocks_needed, a uint16_t.                                              *)
Needed(size) == size % Word

(* Even for no bytes the search stops at a free block.                     *)
Searched(n) == IF n = 0 THEN 1 ELSE n

LowWindow == 0 .. (last - 1)
HighWindow == last .. (Blocks - 1)

(* Where a run of n free blocks begins that does not leave the window W.   *)
Fits(W, n) == {i \in W : Run(i, Searched(n)) \subseteq W \ used}

Least(S) == CHOOSE i \in S : \A j \in S : i <= j

Found(n) ==
  IF Fits(HighWindow, n) # {} THEN Least(Fits(HighWindow, n))
  ELSE IF Fits(LowWindow, n) # {} THEN Least(Fits(LowWindow, n))
  ELSE Null

(* The first free block at or after i, or the start of the pool.           *)
NextFreeWithoutWrap(i, taken) ==
  LET free == {j \in Block : i <= j} \ taken
  IN IF free = {} THEN Blocks ELSE Least(free)
NextFree(i, taken) ==
  LET free == {j \in Block : i <= j} \ taken
  IN IF free = {} THEN 0 ELSE Least(free)

Init ==
  /\ initialized = FALSE
  /\ used = {}
  /\ last = 0
  /\ live = {}
  /\ asked = 0
  /\ answer = Ok

PoolInit ==
  /\ ~initialized
  /\ initialized' = TRUE
  /\ used' = {}
  /\ last' = 0
  /\ asked' = 0 /\ answer' = Ok
  /\ UNCHANGED live

Grant(at, size) ==
  /\ used' = used \cup Run(at, Needed(size))
  /\ last' = NextFree(at + Needed(size), used')
  /\ live' = IF size = 0 THEN live ELSE live \cup {[at |-> at, size |-> size]}

PoolAlloc(size) ==
  /\ initialized
  /\ asked' = size
  /\ IF Needed(size) > Blocks \/ Found(Needed(size)) = Null
       THEN answer' = Null /\ UNCHANGED <<used, last, live>>
       ELSE answer' = Found(Needed(size)) /\ Grant(answer', size)
  /\ UNCHANGED initialized

-----------------------------------------------------------------------------
(* last_block, a uint16_t.                                                 *)
LastBlock(ptr, size) == (ptr + Needed(size) - 1) % Word

(* A pointer is a block of the pool, null, or to somewhere else (Blocks).  *)
FreeError(ptr, size) ==
  IF ptr = Null \/ size = 0 THEN InvalidArgument
  ELSE IF ptr \notin Block THEN OutOfRange
  ELSE IF LastBlock(ptr, size) >= Blocks THEN OutOfMemory
  ELSE Ok

FreedButLast(ptr, size) == ptr .. (LastBlock(ptr, size) - 1)
Freed(ptr, size) == ptr .. LastBlock(ptr, size)

(* The callers free a region they hold, or are refused.                    *)
PoolFreeRegion(ptr, size) ==
  /\ initialized
  /\ asked' = 0
  /\ answer' = FreeError(ptr, size)
  /\ IF answer' # Ok
       THEN UNCHANGED <<used, last, live>>
       ELSE /\ [at |-> ptr, size |-> size] \in live
            /\ used' = used \ Freed(ptr, size)
            /\ last' = IF Freed(ptr, size) # {} /\ ptr < last THEN ptr ELSE last
            /\ live' = live \ {[at |-> ptr, size |-> size]}
  /\ UNCHANGED initialized

(* Everything the callers hold is gone with it.                            *)
PoolFree ==
  /\ initialized
  /\ initialized' = FALSE
  /\ used' = {}
  /\ last' = 0
  /\ live' = {}
  /\ asked' = 0 /\ answer' = Ok

Next ==
  \/ PoolInit
  \/ \E size \in Sizes : PoolAlloc(size)
  \/ \E ptr \in Block \cup {Null, Blocks}, size \in Sizes : PoolFreeRegion(ptr, size)
  \/ PoolFree

Spec == Init /\ [][Next]_vars

-----------------------------------------------------------------------------
(* The bitmap covers the pool, and the next search starts inside it: the   *)
(* loops of pool_alloc index nothing beyond the bitmap.                    *)
TypeOK ==
  /\ initialized \in BOOLEAN
  /\ used \subseteq Block
  /\ last \in Block
  /\ live \subseteq [at : Block, size : Sizes]
  /\ asked \in Nat
  /\ answer \in Block \cup {Null, OutOfMemory, OutOfRange, InvalidArgument}

(* No two callers of pool_alloc hold the same byte, and each holds as many *)
(* bytes of the pool as it asked for.                                      *)
RegionsDisjoint ==
  /\ \A r \in live : Extent(r) \subseteq Block
  /\ \A r, s \in live : r = s \/ Extent(r) \cap Extent(s) = {}

(* The bitmap is exactly what is granted: after any sequence of grants and *)
(* frees nothing has leaked, and nothing in use is up for a new grant.     *)
UsedIsGranted == used = UNION {Extent(r) : r \in live}

(* pool_alloc may miss a free run that straddles last_free_block, but with *)
(* free room for nearly twice the size it never answers NULL.              *)
TwiceTheRoomIsEnough ==
  answer = Null =>
    ~\E i \in Block : Run(i, 2 * Searched(asked) - 1) \subseteq Block \ used
=============================================================================
