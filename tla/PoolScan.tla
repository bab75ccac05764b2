------------------------------ MODULE PoolScan ------------------------------
(***************************************************************************)
(* pool_alloc as the loop it is: one step for each block it looks at.  The *)
(* calls of PoolMemory are kept, but for PoolAlloc, which the scan         *)
(* implements.                                                             *)
(***************************************************************************)
EXTENDS PoolMemory

VARIABLES
  pass,         \* 0 or 1; 2 when nothing is being searched
  needed,       \* blocks_needed
  idxBlock,
  consecutive,  \* consecutive_free
  first,        \* first_free_block
  wanted        \* the size passed to pool_alloc

locals == <<pass, needed, idxBlock, consecutive, first, wanted>>
scanVars == <<vars, locals>>

Searching == pass < 2

ScanInit ==
  /\ Init
  /\ pass = 2 /\ needed = 0 /\ idxBlock = 0
  /\ consecutive = 0 /\ first = 0 /\ wanted = 0

Refuse(size) ==
  /\ asked' = size
  /\ answer' = Null
  /\ UNCHANGED <<initialized, used, last, live>>

(* What does not change while the scan goes on: the pool.                  *)
Locals(p, i, c, f) ==
  /\ pass' = p /\ idxBlock' = i /\ consecutive' = c /\ first' = f
  /\ UNCHANGED <<needed, wanted>>

EndScan == pass' = 2 /\ UNCHANGED <<needed, idxBlock, consecutive, first, wanted>>

Begin(size) ==
  /\ ~Searching
  /\ initialized
  /\ IF Needed(size) > Blocks
       THEN Refuse(size) /\ UNCHANGED locals
       ELSE /\ pass' = 0 /\ needed' = Needed(size) /\ wanted' = size
            /\ idxBlock' = last
            /\ consecutive' = 0 /\ first' = 0
            /\ UNCHANGED vars

EndBeforeLast == IF pass = 0 THEN Blocks - 1 ELSE last
End == IF pass = 0 THEN Blocks ELSE last

(* The bitmap bit of idxBlock is clear.  The run starts here or continues, *)
(* and is long enough at once or may become so.                            *)
FirstOfRunAlways == idxBlock
FirstOfRun == IF consecutive = 0 THEN idxBlock ELSE first

FreeBlock ==
  /\ Searching /\ idxBlock < End
  /\ idxBlock \notin used
  /\ IF consecutive + 1 >= needed
       THEN /\ Grant(FirstOfRun, wanted)
            /\ asked' = wanted
            /\ answer' = FirstOfRun
            /\ EndScan
            /\ UNCHANGED initialized
       ELSE /\ Locals(pass, idxBlock + 1, consecutive + 1, FirstOfRun)
            /\ UNCHANGED vars

UsedBlock ==
  /\ Searching /\ idxBlock < End
  /\ idxBlock \in used
  /\ Locals(pass, idxBlock + 1, 0, first)
  /\ UNCHANGED vars

(* The second pass starts to count anew.                                   *)
CarriedOver == consecutive
CountedAnew == 0

NextPass ==
  /\ pass = 0 /\ idxBlock = End
  /\ Locals(1, 0, CountedAnew, first)
  /\ UNCHANGED vars

NothingFound ==
  /\ pass = 1 /\ idxBlock = End
  /\ Refuse(wanted)
  /\ EndScan

OtherCall ==
  /\ ~Searching
  /\ \/ PoolInit
     \/ \E ptr \in Block \cup {Null, Blocks}, size \in Sizes : PoolFreeRegion(ptr, size)
     \/ PoolFree
  /\ UNCHANGED locals

ScanNext ==
  \/ \E size \in Sizes : Begin(size)
  \/ FreeBlock
  \/ UsedBlock
  \/ NextPass
  \/ NothingFound
  \/ OtherCall

ScanSpec == ScanInit /\ [][ScanNext]_scanVars

-----------------------------------------------------------------------------
(* The scan grants the first run of free blocks that begins in the upper   *)
(* window and stays in it, else in the lower one, and refuses exactly when *)
(* neither window holds such a run.                                        *)
ImplementsFirstFit == Spec
=============================================================================
