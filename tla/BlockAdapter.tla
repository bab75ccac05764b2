---------------------------- MODULE BlockAdapter ----------------------------
(***************************************************************************)
(* read_sd, write_sd and clear_sd (sd_fat32.c): the sectors of the FAT32   *)
(* library on the 512-byte blocks of the card.  What is left of a request  *)
(* after its whole blocks is a read-modify-write of one more block through *)
(* a temporary block from the pool.                                        *)
(*                                                                         *)
(* Memory is counted in units, some of which make a block; sectors are any *)
(* number of units.  Under the adapter, the driver does block requests as  *)
(* BlockDevice says.  The adapter is to serve sector requests as a block   *)
(* device whose blocks are the units does.                                 *)
(***************************************************************************)
EXTENDS Integers

CONSTANTS
  Units,      \* units of the card
  BlockSize,  \* sd_device.block_size
  Word,       \* 2^32: sizes and addresses in units are products of uint32_t
  MaxUnits,   \* longest request
  Requests,   \* the calls made
  Values,     \* what a caller may store in one unit
  Erased,
  NoData

Piece(v, u) == <<v, u>>

Unit == 0 .. (Units - 1)

Content == (Values \X Unit) \cup {Erased, NoData}

Call == [op : {"read", "write", "erase"}, sector : Nat, count : Nat \ {0},
         size : Nat \ {0}, val : Values]

From(r) == r.sector * r.size
To(r) == (r.sector + r.count) * r.size - 1

ASSUME BlockAdapterAssumption ==
  /\ BlockSize \in Nat \ {0}
  /\ Units \in Nat \ {0} /\ Units % BlockSize = 0
  /\ Word \in Nat \ {0} /\ Word % BlockSize = 0
  /\ Requests \subseteq Call /\ Requests # {}
  /\ MaxUnits \in Nat
  /\ \A r \in Requests : To(r) < Units /\ r.count * r.size <= MaxUnits
  /\ NoData # Erased /\ NoData \notin Values \X Unit

VARIABLES
  pc,      \* what the adapter waits for
  req,     \* the call, or the last one
  mem,     \* the card
  buf,     \* the caller's buffer of a read
  tmp,     \* tmp_block
  held,    \* tmp_block is taken from the pool
  todo,    \* blocks of the driver's request not served yet
  lost,    \* units of this call that the card failed to program
  result

vars == <<pc, req, mem, buf, tmp, held, todo, lost, result>>

-----------------------------------------------------------------------------
BlockStart(r) == (From(r) % Word) \div BlockSize

TotalUnits(r) == (r.count * r.size) % Word

FullBlocks(r) == TotalUnits(r) \div BlockSize

RemainingDropped(r) == 0
Remaining(r) == TotalUnits(r) % BlockSize

Tail(r) == BlockStart(r) + FullBlocks(r)

UnitsOf(b) == (b * BlockSize) .. (b * BlockSize + BlockSize - 1)

(* What the caller's buffer holds at its i-th unit.                        *)
Asked(i) == Piece(req.val, From(req) + i)

EmptyBuffer == [i \in 0 .. (MaxUnits - 1) |-> NoData]

EmptyBlock == [k \in 0 .. (BlockSize - 1) |-> NoData]

Init ==
  /\ pc = "idle"
  /\ req \in Requests
  /\ mem = [u \in Unit |-> Erased]
  /\ buf = EmptyBuffer /\ tmp = EmptyBlock
  /\ held = FALSE
  /\ todo = {} /\ lost = {}
  /\ result = "none"

Return(answer) == pc' = "idle" /\ result' = answer

(* After the whole blocks.                                                 *)
Rest(r) ==
  /\ IF Remaining(r) > 0 THEN pc' = "alloc" /\ result' = "none" ELSE Return("ok")
  /\ todo' = {}

Transfer(r) ==
  IF FullBlocks(r) > 0
    THEN /\ pc' = "blocks" /\ result' = "none"
         /\ todo' = BlockStart(r) .. (Tail(r) - 1)
    ELSE Rest(r)

(* erase_sd takes two block addresses, in either order.                    *)
EraseLast(r) == ((r.count * r.size + BlockSize - 1) % Word) \div BlockSize

Cleared(r) ==
  LET start == BlockStart(r)
      last  == EraseLast(r)
  IN IF start <= last THEN start .. last ELSE last .. start

Clear(r) == pc' = "erase" /\ result' = "none" /\ todo' = Cleared(r)

Submit(r) ==
  /\ pc = "idle"
  /\ req' = r
  /\ IF r.op = "erase" THEN Clear(r) ELSE Transfer(r)
  /\ buf' = EmptyBuffer
  /\ lost' = {}
  /\ UNCHANGED <<mem, tmp, held>>

-----------------------------------------------------------------------------
(* Block b after memcpy(tmp_block, data + ..., remaining_bytes).           *)
MergedWithNothing(k) ==
  IF k < Remaining(req) THEN Asked(FullBlocks(req) * BlockSize + k) ELSE NoData
Merged(k) ==
  IF k < Remaining(req) THEN Asked(FullBlocks(req) * BlockSize + k) ELSE tmp[k]

(* What the driver's request puts in unit u of block b.                    *)
Source(b, u) ==
  CASE pc = "blocks" -> Asked(u - BlockStart(req) * BlockSize)
    [] pc = "store"  -> Merged(u - b * BlockSize)
    [] pc = "erase"  -> Erased

Writing == pc \in {"store", "erase"} \/ (pc = "blocks" /\ req.op = "write")

DriverStores(b) ==
  /\ Writing /\ b \in todo /\ UnitsOf(b) \subseteq Unit
  /\ mem' = [u \in Unit |-> IF u \in UnitsOf(b) THEN Source(b, u) ELSE mem[u]]
  /\ lost' = lost \ UnitsOf(b)
  /\ todo' = todo \ {b}
  /\ UNCHANGED <<pc, req, buf, tmp, held, result>>

DriverLoses(b) ==
  /\ Writing /\ pc # "erase" /\ b \in todo /\ UnitsOf(b) \subseteq Unit
  /\ lost' = lost \cup (UnitsOf(b) \cap From(req) .. To(req))
  /\ todo' = todo \ {b}
  /\ UNCHANGED <<pc, req, mem, buf, tmp, held, result>>

DriverFetches(b) ==
  /\ ~Writing /\ b \in todo /\ UnitsOf(b) \subseteq Unit
  /\ IF pc = "fetch"
       THEN tmp' = [k \in DOMAIN tmp |-> mem[b * BlockSize + k]] /\ UNCHANGED buf
       ELSE /\ buf' = [i \in DOMAIN buf |->
                         IF i + BlockStart(req) * BlockSize \in UnitsOf(b)
                           THEN mem[i + BlockStart(req) * BlockSize] ELSE buf[i]]
            /\ UNCHANGED tmp
  /\ todo' = todo \ {b}
  /\ UNCHANGED <<pc, req, mem, held, lost, result>>

Busy == pc \in {"blocks", "fetch", "store", "erase"}

-----------------------------------------------------------------------------
BlocksDone ==
  /\ pc \in {"blocks", "erase"} /\ todo = {}
  /\ IF pc = "blocks" THEN Rest(req) ELSE Return("ok") /\ UNCHANGED todo
  /\ UNCHANGED <<req, mem, buf, tmp, held, lost>>

(* pool_alloc(block_size) may find no room.                                *)
AllocBlock ==
  /\ pc = "alloc"
  /\ \/ /\ held' = TRUE
        /\ pc' = "fetch" /\ todo' = {Tail(req)}
        /\ UNCHANGED result
     \/ Return("err") /\ UNCHANGED <<held, todo>>
  /\ UNCHANGED <<req, mem, buf, tmp, lost>>

TailFetched ==
  /\ pc = "fetch" /\ todo = {}
  /\ IF req.op = "write"
       THEN pc' = "store" /\ todo' = {Tail(req)} /\ UNCHANGED buf
       ELSE /\ pc' = "copied"
            /\ buf' = [i \in DOMAIN buf |->
                         LET k == i - FullBlocks(req) * BlockSize
                         IN IF k \in 0 .. (Remaining(req) - 1) THEN tmp[k] ELSE buf[i]]
            /\ UNCHANGED todo
  /\ UNCHANGED <<req, mem, tmp, held, lost, result>>

TailDone ==
  /\ pc \in {"store", "copied"} /\ todo = {}
  /\ held' = FALSE
  /\ Return("ok")
  /\ UNCHANGED <<req, mem, buf, tmp, todo, lost>>

(* The driver gives up: every path out returns the temporary block.        *)
HeldAfterFailedRead == held /\ pc = "fetch"
HeldAfterFailure == FALSE

DriverFails ==
  /\ Busy
  /\ held' = HeldAfterFailure
  /\ todo' = {}
  /\ Return("err")
  /\ UNCHANGED <<req, mem, buf, tmp, lost>>

(* The processor starts again: the pool is empty, the caller is gone.      *)
Reset ==
  /\ pc # "idle"
  /\ held' = FALSE
  /\ todo' = {}
  /\ Return("err")
  /\ UNCHANGED <<req, mem, buf, tmp, lost>>

Driver(b) == DriverStores(b) \/ DriverLoses(b) \/ DriverFetches(b)

Next ==
  \/ \E r \in Requests : Submit(r)
  \/ \E b \in todo : Driver(b)
  \/ BlocksDone
  \/ AllocBlock
  \/ TailFetched
  \/ TailDone
  \/ DriverFails
  \/ Reset

Spec == Init /\ [][Next]_vars

-----------------------------------------------------------------------------
(* The adapter's variables keep their types: in particular, whatever is    *)
(* written to the card has been read from it or is what the caller asked.  *)
TypeOK ==
  /\ pc \in {"idle", "blocks", "alloc", "fetch", "copied", "store", "erase"}
  /\ req \in Requests
  /\ mem \in [Unit -> Content \ {NoData}]
  /\ buf \in [0 .. (MaxUnits - 1) -> Content]
  /\ tmp \in [0 .. (BlockSize - 1) -> Content]
  /\ held \in BOOLEAN
  /\ todo \subseteq 0 .. (Units + MaxUnits)
  /\ lost \subseteq Unit
  /\ result \in {"none", "ok", "err"}

(* The temporary block is given back on every way out of a call, the       *)
(* failures included: after any history of calls the pool holds none.      *)
NothingHeld == held => pc \in {"fetch", "copied", "store"}

(* What the FAT32 library is taken to ask: sectors that begin on a block,  *)
(* and of clear_sd, which takes the number of blocks for the last block to *)
(* erase, only what it gets right.                                         *)
AnyValue == CHOOSE v \in Values : TRUE

Fits(r) ==
  /\ From(r) % BlockSize = 0
  /\ r.op = "erase" => (EraseLast(r) + 1) * BlockSize = To(r) + 1
  /\ r.op # "write" => r.val = AnyValue

(* The adapter implements a block device of units: a call answered 0 has   *)
(* read or written exactly the sectors asked for, a failed or interrupted  *)
(* one has changed nothing else, and the part of a block that the sectors  *)
(* do not cover is never changed.                                          *)
BD == INSTANCE BlockDevice
        WITH NBlocks <- Units, MaxCount <- MaxUnits, Ops <- {"read", "write", "erase"},
             phase <- IF pc = "idle" THEN "idle" ELSE "busy",
             req <- [op |-> req.op, start |-> From(req), last |-> To(req), val |-> req.val]

ImplementsBlockDevice == BD!Spec
=============================================================================
