------------------------------ MODULE SdBlocks ------------------------------
(***************************************************************************)
(* The vocabulary shared by the abstract block device and the SD driver:   *)
(* 512-byte blocks, what a block holds, and the requests that the FAT32    *)
(* layer makes through write_safe_sd, read_safe_sd and erase_sd.           *)
(***************************************************************************)
EXTENDS Integers

CONSTANTS
  NBlocks,   \* blocks of the card that requests address
  MaxCount,  \* longest transfer, in blocks
  Values,    \* what a caller may store in one block
  Erased,    \* what a block holds once erased
  NoData,    \* what a buffer holds before anything is read into it
  Ops        \* the kinds of request that are made

ASSUME SdBlocksAssumption ==
  /\ NBlocks \in Nat \ {0}
  /\ MaxCount \in Nat \ {0}
  /\ Values # {}
  /\ Ops \subseteq {"read", "write", "erase"}

Block == 0 .. (NBlocks - 1)

(* A written block carries its value and the block it was meant for: data  *)
(* stored or fetched at the wrong place is different data.                 *)
Piece(v, b) == <<v, b>>

Content == (Values \X Block) \cup {Erased, NoData}

AnyValue == CHOOSE v \in Values : TRUE

(* A transfer names its first and last block, first <= last.  The two ends *)
(* of an erase come in either order.  Only a write has a value of its own. *)
Request ==
  { r \in [op : Ops, start : Block, last : Block, val : Values] :
      /\ r.op = "erase" \/ (r.start <= r.last /\ r.last < r.start + MaxCount)
      /\ r.op = "write" \/ r.val = AnyValue }

Lo(r) == IF r.start <= r.last THEN r.start ELSE r.last

Hi(r) == IF r.start <= r.last THEN r.last ELSE r.start

Extent(r) == Lo(r) .. Hi(r)

(* What the request leaves in block b.                                     *)
Target(r, b) == IF r.op = "erase" THEN Erased ELSE Piece(r.val, b)
=============================================================================
