------------------------- MODULE BlockAdapter_proof -------------------------
(***************************************************************************)
(* Proofs about BlockAdapter for every size of card, block and sector.     *)
(* 1: types, and the temporary block always goes back.  2: on a card whose *)
(* units a word can count, asked for sectors that begin on a block, it     *)
(* implements a block device of units.  3: which calls of clear_sd erase   *)
(* what they are asked for.                                                *)
(***************************************************************************)
EXTENDS BlockAdapter, TLAPS

-----------------------------------------------------------------------------
(* Arithmetic.                                                             *)

LEMMA Numbers ==
  /\ BlockSize \in Nat \ {0} /\ Units \in Nat \ {0} /\ Word \in Nat \ {0} /\ MaxUnits \in Nat
  /\ NoData # Erased /\ NoData \notin Values \X Unit
BY BlockAdapterAssumption

LEMMA DivMod ==
  ASSUME NEW a \in Nat, NEW b \in Nat \ {0}
  PROVE  /\ a \div b \in Nat /\ a % b \in 0 .. (b - 1)
         /\ a = (a \div b) * b + (a % b)
         /\ a \div b <= a /\ a % b <= a
<1>1. a \div b \in Nat /\ a % b \in 0 .. (b - 1) /\ a = (a \div b) * b + (a % b)
  OBVIOUS
<1>2. \A q \in Nat : q <= q * b
  OBVIOUS
<1> QED
  BY <1>1, <1>2

LEMMA ModAtMost ==
  ASSUME NEW a \in Nat, NEW b \in Nat \ {0}
  PROVE  a % b \in Nat /\ a % b <= a
<1>1. a % b \in 0 .. (b - 1) /\ a % b <= a
  BY DivMod
<1> QED
  BY <1>1

LEMMA SmallMod ==
  ASSUME NEW a \in Nat, NEW b \in Nat \ {0}, a < b
  PROVE  a % b = a
OBVIOUS

LEMMA Product ==
  ASSUME NEW a \in Nat, NEW b \in Nat
  PROVE  a * b \in Nat
OBVIOUS

(* A later block lies behind an earlier one.                               *)
LEMMA Behind ==
  ASSUME NEW b \in Nat, NEW c \in Nat, b < c
  PROVE  b * BlockSize + BlockSize <= c * BlockSize
<1>1. BlockSize \in Nat
  BY Numbers
<1>2. \A d \in Nat : (b + 1 + d) * BlockSize = b * BlockSize + BlockSize + d * BlockSize
  BY <1>1
<1>3. c - b - 1 \in Nat /\ c = b + 1 + (c - b - 1)
  OBVIOUS
<1>4. (c - b - 1) * BlockSize \in Nat
  BY <1>1, <1>3, Product
<1>5. c * BlockSize = b * BlockSize + BlockSize + (c - b - 1) * BlockSize
  BY <1>2, <1>3
<1>6. b * BlockSize \in Nat /\ c * BlockSize \in Nat
  BY <1>1, Product
<1> QED
  BY <1>1, <1>4, <1>5, <1>6

LEMMA UnitsOfBlock ==
  ASSUME NEW b \in Nat, NEW u
  PROVE  /\ b * BlockSize \in Nat
         /\ u \in UnitsOf(b) <=> u \in Nat /\ b * BlockSize <= u /\ u < b * BlockSize + BlockSize
<1>1. BlockSize \in Nat \ {0}
  BY Numbers
<1>2. b * BlockSize \in Nat
  BY <1>1, Product
<1> QED
  BY <1>1, <1>2 DEF UnitsOf

LEMMA OneBlock ==
  ASSUME NEW b \in Nat, NEW c \in Nat, NEW u, u \in UnitsOf(b), u \in UnitsOf(c)
  PROVE  b = c
<1>1. /\ u \in Nat /\ b * BlockSize <= u /\ u < b * BlockSize + BlockSize
      /\ c * BlockSize <= u /\ u < c * BlockSize + BlockSize
      /\ b * BlockSize \in Nat /\ c * BlockSize \in Nat /\ BlockSize \in Nat
  BY UnitsOfBlock, Numbers
<1>2. ~(b < c)
  BY <1>1, Behind
<1>3. ~(c < b)
  BY <1>1, Behind
<1> QED
  BY <1>2, <1>3

(* Every unit between the starts of two blocks is in a block between them. *)
LEMMA BlockOf ==
  ASSUME NEW b \in Nat, NEW c \in Nat, NEW u \in Nat,
         b * BlockSize <= u, u < c * BlockSize
  PROVE  \E d \in b .. (c - 1) : u \in UnitsOf(d)
<1> DEFINE d == u \div BlockSize
<1>1. /\ BlockSize \in Nat \ {0} /\ d \in Nat /\ u % BlockSize \in 0 .. (BlockSize - 1)
      /\ u = d * BlockSize + (u % BlockSize)
  BY Numbers, DivMod
<1> HIDE DEF d
<1>2. d * BlockSize \in Nat /\ b * BlockSize \in Nat /\ c * BlockSize \in Nat
  BY <1>1, Product
<1>3. d * BlockSize <= u /\ u < d * BlockSize + BlockSize
  BY <1>1, <1>2
<1>4. u \in UnitsOf(d)
  BY <1>1, <1>3, UnitsOfBlock
<1>5. ~(d < b)
  BY <1>1, <1>2, <1>3, Behind
<1>6. d < c
  <2>1. CASE c < d
    BY <1>1, <1>2, <1>3, <2>1, Behind
  <2>2. CASE c = d
    BY <1>1, <1>2, <1>3, <2>2
  <2> QED
    BY <1>1, <2>1, <2>2
<1> QED
  BY <1>1, <1>4, <1>5, <1>6

(* The sectors of a call.                                                  *)
LEMMA Sectors ==
  ASSUME NEW r \in Requests
  PROVE  /\ r.count * r.size \in Nat \ {0} /\ r.count * r.size <= MaxUnits
         /\ From(r) \in Nat /\ From(r) <= To(r) /\ To(r) \in Unit
         /\ To(r) + 1 = From(r) + r.count * r.size
         /\ r.op \in {"read", "write", "erase"} /\ r.val \in Values
<1>1. /\ r.sector \in Nat /\ r.count \in Nat \ {0} /\ r.size \in Nat \ {0}
      /\ r.op \in {"read", "write", "erase"} /\ r.val \in Values
      /\ To(r) < Units /\ r.count * r.size <= MaxUnits
  BY BlockAdapterAssumption DEF Call
<1>2. r.count * r.size \in Nat \ {0} /\ r.sector * r.size \in Nat
  BY <1>1, Product
<1>3. (r.sector + r.count) * r.size = r.sector * r.size + r.count * r.size
  BY <1>1
<1> QED
  BY <1>1, <1>2, <1>3, Numbers DEF From, To, Unit

(* How a call falls into whole blocks and a rest.                          *)
LEMMA Parts ==
  ASSUME NEW r \in Requests
  PROVE  /\ BlockStart(r) \in Nat /\ BlockStart(r) <= Units
         /\ FullBlocks(r) \in Nat /\ FullBlocks(r) <= MaxUnits
         /\ Remaining(r) \in Nat /\ Remaining(r) < BlockSize
         /\ Tail(r) \in Nat /\ Tail(r) = BlockStart(r) + FullBlocks(r)
         /\ FullBlocks(r) * BlockSize \in Nat
         /\ FullBlocks(r) * BlockSize + Remaining(r) <= r.count * r.size
         /\ EraseLast(r) \in 0 .. MaxUnits
<1>1. /\ r.count * r.size \in Nat \ {0} /\ r.count * r.size <= MaxUnits
      /\ From(r) \in Nat /\ From(r) <= Units
  BY Sectors, Numbers DEF Unit
<1>2. BlockStart(r) \in Nat /\ BlockStart(r) <= Units
  <2>1. From(r) % Word \in Nat /\ From(r) % Word <= From(r)
    BY <1>1, Numbers, ModAtMost, Zenon
  <2>2. BlockStart(r) \in Nat /\ BlockStart(r) <= From(r) % Word
    BY <2>1, Numbers, DivMod DEF BlockStart
  <2> QED
    BY <1>1, <2>1, <2>2, Numbers
<1>3. TotalUnits(r) \in Nat /\ TotalUnits(r) <= r.count * r.size
  <2>1. r.count * r.size \in Nat
    BY <1>1
  <2> QED
    BY <2>1, Numbers, ModAtMost, Zenon DEF TotalUnits
<1>4. /\ FullBlocks(r) \in Nat /\ FullBlocks(r) <= TotalUnits(r)
      /\ Remaining(r) \in 0 .. (BlockSize - 1)
      /\ TotalUnits(r) = FullBlocks(r) * BlockSize + Remaining(r)
  BY <1>3, Numbers, DivMod DEF FullBlocks, Remaining
<1>5. FullBlocks(r) * BlockSize \in Nat
  BY <1>4, Numbers, Product
<1>6. EraseLast(r) \in 0 .. MaxUnits
  <2> DEFINE n == r.count * r.size + BlockSize - 1
  <2>1. n \in Nat /\ n % Word \in Nat /\ n % Word <= n
    <3>1. n \in Nat
      BY <1>1, Numbers
    <3> HIDE DEF n
    <3> QED
      BY <3>1, Numbers, ModAtMost, Zenon
  <2>2. EraseLast(r) \in Nat /\ n % Word = EraseLast(r) * BlockSize + ((n % Word) % BlockSize)
        /\ (n % Word) % BlockSize \in Nat
    <3>1. EraseLast(r) = (n % Word) \div BlockSize
      BY DEF EraseLast
    <3> HIDE DEF n
    <3>2. /\ (n % Word) \div BlockSize \in Nat
          /\ n % Word = ((n % Word) \div BlockSize) * BlockSize + ((n % Word) % BlockSize)
      BY <2>1, Numbers, DivMod, Zenon
    <3>3. (n % Word) % BlockSize \in Nat
      BY <2>1, Numbers, ModAtMost, Zenon
    <3> QED
      BY <3>1, <3>2, <3>3
  <2>3. EraseLast(r) * BlockSize <= r.count * r.size + BlockSize - 1
    <3>1. EraseLast(r) * BlockSize \in Nat
      BY <2>2, Numbers, Product
    <3> HIDE DEF n
    <3>2. EraseLast(r) * BlockSize <= n
      BY <2>1, <2>2, <3>1
    <3> QED
      BY <3>2 DEF n
  <2> HIDE DEF n
  <2>4. EraseLast(r) <= r.count * r.size
    <3>1. SUFFICES ASSUME r.count * r.size < EraseLast(r) PROVE FALSE
      BY <1>1, <2>2
    <3>2. /\ (r.count * r.size) * BlockSize + BlockSize <= EraseLast(r) * BlockSize
          /\ (r.count * r.size) * BlockSize \in Nat /\ EraseLast(r) * BlockSize \in Nat
      BY <1>1, <2>2, <3>1, Behind, Numbers, Product
    <3>3. \A k \in Nat : k <= k * BlockSize
      BY Numbers
    <3>4. r.count * r.size <= (r.count * r.size) * BlockSize
      BY <1>1, <3>3
    <3> QED
      BY <1>1, <2>3, <3>2, <3>4, Numbers
  <2> QED
    BY <1>1, <2>2, <2>4, Numbers
<1>7. Tail(r) \in Nat /\ Tail(r) = BlockStart(r) + FullBlocks(r)
  BY <1>2, <1>4 DEF Tail
<1> QED
  BY <1>1, <1>2, <1>3, <1>4, <1>5, <1>6, <1>7, Numbers

-----------------------------------------------------------------------------
(* 1. Types.                                                               *)

Stored == Content \ {NoData}

(* Where the adapter is in a call, and which blocks it then deals with.    *)
InCall ==
  /\ pc \in {"idle", "alloc", "copied"} => todo = {}
  /\ pc # "idle" => result = "none"
  /\ pc = "blocks" => todo \subseteq BlockStart(req) .. (Tail(req) - 1)
  /\ pc \in {"fetch", "store"} => todo \subseteq {Tail(req)}
  /\ pc = "store" => req.op = "write"
  /\ pc = "copied" => req.op = "read"
  /\ pc = "erase" <=> pc # "idle" /\ req.op = "erase"

(* Once fetched, the temporary block holds what the card held.             *)
Fetched ==
  pc = "store" \/ (pc = "fetch" /\ todo = {}) => tmp \in [0 .. (BlockSize - 1) -> Stored]

IInv == TypeOK /\ InCall /\ Fetched /\ NothingHeld

LEMMA InitIInv == Init => IInv
<1> SUFFICES ASSUME Init PROVE IInv
  OBVIOUS
<1>1. Erased \in Content /\ NoData \in Content /\ Erased \in Content \ {NoData}
  BY Numbers DEF Content
<1> QED
  BY <1>1 DEF Init, IInv, TypeOK, InCall, Fetched, NothingHeld, EmptyBuffer, EmptyBlock

(* The blocks a call deals with.                                           *)
LEMMA Ranges ==
  ASSUME NEW r \in Requests
  PROVE  /\ BlockStart(r) .. (Tail(r) - 1) \subseteq 0 .. (Units + MaxUnits)
         /\ {Tail(r)} \subseteq 0 .. (Units + MaxUnits)
         /\ EraseLast(r) \in 0 .. (Units + MaxUnits)
         /\ BlockStart(r) \in 0 .. (Units + MaxUnits)
<1>1. Tail(r) \in Nat /\ Tail(r) <= Units + MaxUnits
  BY Parts, Numbers
<1> QED
  BY <1>1, Parts, Numbers

(* What the rest of a call leaves when there are no whole blocks to do.    *)
LEMMA RestIInv ==
  ASSUME IInv, NEW r \in Requests, r.op # "erase", Rest(r), req' = r, UNCHANGED <<mem, tmp>>,
         held' = FALSE, buf' \in [0 .. (MaxUnits - 1) -> Content], lost' \subseteq Unit
  PROVE  IInv'
BY DEF Rest, Return, IInv, TypeOK, InCall, Fetched, NothingHeld

LEMMA SubmitIInv ==
  ASSUME IInv, NEW r \in Requests, Submit(r)
  PROVE  IInv'
<1>1. /\ pc = "idle" /\ req' = r /\ buf' = EmptyBuffer /\ lost' = {} /\ ~held
      /\ UNCHANGED <<mem, tmp, held>> /\ held \in BOOLEAN
  BY DEF Submit, IInv, TypeOK, NothingHeld
<1>2. buf' \in [0 .. (MaxUnits - 1) -> Content]
  BY <1>1 DEF EmptyBuffer, Content
<1>3. CASE r.op = "erase"
  <2>1. pc' = "erase" /\ result' = "none"
        /\ todo' = IF BlockStart(r) <= EraseLast(r) THEN BlockStart(r) .. EraseLast(r)
                   ELSE EraseLast(r) .. BlockStart(r)
    BY <1>3 DEF Submit, Clear, Cleared
  <2>2. todo' \subseteq 0 .. (Units + MaxUnits)
    BY <2>1, Ranges, Numbers
  <2> QED
    BY <1>1, <1>2, <1>3, <2>1, <2>2 DEF IInv, TypeOK, InCall, Fetched, NothingHeld
<1>4. CASE r.op # "erase" /\ FullBlocks(r) > 0
  <2>1. pc' = "blocks" /\ result' = "none" /\ todo' = BlockStart(r) .. (Tail(r) - 1)
    BY <1>4 DEF Submit, Transfer
  <2>2. todo' \subseteq 0 .. (Units + MaxUnits)
    BY <2>1, Ranges
  <2> QED
    BY <1>1, <1>2, <1>4, <2>1, <2>2 DEF IInv, TypeOK, InCall, Fetched, NothingHeld
<1>5. CASE r.op # "erase" /\ ~(FullBlocks(r) > 0)
  BY <1>1, <1>2, <1>5, RestIInv DEF Submit, Transfer
<1> QED
  BY <1>3, <1>4, <1>5

(* What the driver is given to write has been asked for or was read.       *)
LEMMA SourceType ==
  ASSUME IInv, Writing, NEW b \in todo, NEW u \in Unit, u \in UnitsOf(b)
  PROVE  Source(b, u) \in Stored
<1>0. req \in Requests /\ b \in Nat /\ u \in Nat /\ BlockSize \in Nat
  BY Numbers DEF IInv, TypeOK, Unit
<1>1. b * BlockSize \in Nat /\ b * BlockSize <= u /\ u < b * BlockSize + BlockSize
  BY <1>0, UnitsOfBlock
<1>2. ASSUME NEW i \in Nat, i < req.count * req.size
      PROVE  Asked(i) \in Stored
  <2>1. From(req) + i \in Unit /\ req.val \in Values
    <3>1. /\ From(req) \in Nat /\ To(req) \in Nat /\ To(req) < Units /\ Units \in Nat
          /\ To(req) + 1 = From(req) + req.count * req.size
          /\ req.count * req.size \in Nat /\ req.val \in Values
      BY <1>0, Sectors, Numbers DEF Unit
    <3> QED
      BY <1>2, <3>1 DEF Unit
  <2> QED
    BY <2>1, Numbers DEF Asked, Piece, Stored, Content
<1>3. CASE pc = "blocks"
  <2>1. b \in BlockStart(req) .. (Tail(req) - 1)
    BY <1>3 DEF IInv, InCall
  <2>2. BlockStart(req) * BlockSize <= b * BlockSize
    <3>1. CASE b = BlockStart(req)
      BY <1>1, <3>1
    <3>2. CASE BlockStart(req) < b
      BY <1>0, <1>1, <3>2, Parts, Behind, Product
    <3> QED
      BY <1>0, <2>1, <3>1, <3>2, Parts
  <2>3. b * BlockSize + BlockSize <= BlockStart(req) * BlockSize + FullBlocks(req) * BlockSize
    <3>1. b < Tail(req) /\ Tail(req) \in Nat
      BY <1>0, <2>1, Parts
    <3>2. b * BlockSize + BlockSize <= Tail(req) * BlockSize
      BY <1>0, <3>1, Behind
    <3>3. Tail(req) * BlockSize = BlockStart(req) * BlockSize + FullBlocks(req) * BlockSize
      BY <1>0, Parts
    <3> QED
      BY <3>2, <3>3
  <2>4. BlockStart(req) * BlockSize \in Nat /\ FullBlocks(req) * BlockSize \in Nat
        /\ FullBlocks(req) * BlockSize <= req.count * req.size /\ req.count * req.size \in Nat
    BY <1>0, Parts, Sectors, Product
  <2>5. u - BlockStart(req) * BlockSize \in Nat
        /\ u - BlockStart(req) * BlockSize < req.count * req.size
    BY <1>0, <1>1, <2>2, <2>3, <2>4
  <2> QED
    BY <1>2, <1>3, <2>5 DEF Source
<1>4. CASE pc = "store"
  <2>1. u - b * BlockSize \in 0 .. (BlockSize - 1)
    BY <1>0, <1>1
  <2>2. CASE u - b * BlockSize < Remaining(req)
    <3>1. FullBlocks(req) * BlockSize + (u - b * BlockSize) \in Nat
          /\ FullBlocks(req) * BlockSize + (u - b * BlockSize) < req.count * req.size
      BY <1>0, <1>1, <2>1, <2>2, Parts, Sectors
    <3> QED
      BY <1>2, <1>4, <2>2, <3>1 DEF Source, Merged
  <2>3. CASE ~(u - b * BlockSize < Remaining(req))
    BY <1>4, <2>1, <2>3 DEF Source, Merged, IInv, Fetched
  <2> QED
    BY <2>2, <2>3
<1>5. CASE pc = "erase"
  BY <1>5, Numbers DEF Source, Stored, Content
<1> QED
  BY <1>3, <1>4, <1>5 DEF Writing

LEMMA DriverIInv ==
  ASSUME IInv, NEW b \in todo, Driver(b)
  PROVE  IInv'
<1>0. b \in Nat /\ todo \subseteq 0 .. (Units + MaxUnits) /\ pc \notin {"idle", "alloc", "copied"}
      /\ BlockSize \in Nat
  BY Numbers DEF IInv, TypeOK, InCall
<1>1. CASE DriverStores(b)
  <2>1. /\ mem' = [u \in Unit |-> IF u \in UnitsOf(b) THEN Source(b, u) ELSE mem[u]]
        /\ lost' = lost \ UnitsOf(b) /\ todo' = todo \ {b}
        /\ UNCHANGED <<pc, req, buf, tmp, held, result>> /\ Writing
    BY <1>1 DEF DriverStores
  <2>2. mem' \in [Unit -> Content \ {NoData}]
    <3>1. \A u \in Unit : u \in UnitsOf(b) => Source(b, u) \in Stored
      BY <2>1, SourceType
    <3>2. mem \in [Unit -> Stored]
      BY DEF IInv, TypeOK, Stored
    <3>3. mem' \in [Unit -> Stored]
      BY <2>1, <3>1, <3>2
    <3> QED
      BY <3>3 DEF Stored
  <2>3. TypeOK'
    BY <2>1, <2>2 DEF IInv, TypeOK
  <2>4. InCall' /\ NothingHeld'
    BY <2>1 DEF IInv, InCall, NothingHeld
  <2>5. Fetched'
    BY <2>1 DEF IInv, Fetched, Writing
  <2> QED
    BY <2>3, <2>4, <2>5 DEF IInv
<1>2. CASE DriverLoses(b)
  <2>1. /\ lost' = lost \cup (UnitsOf(b) \cap From(req) .. To(req)) /\ todo' = todo \ {b}
        /\ UNCHANGED <<pc, req, mem, buf, tmp, held, result>> /\ Writing
        /\ UnitsOf(b) \subseteq Unit
    BY <1>2 DEF DriverLoses
  <2>2. lost' \subseteq Unit
    BY <2>1 DEF IInv, TypeOK
  <2>3. TypeOK'
    BY <2>1, <2>2 DEF IInv, TypeOK
  <2>4. InCall' /\ NothingHeld'
    BY <2>1 DEF IInv, InCall, NothingHeld
  <2>5. Fetched'
    BY <2>1 DEF IInv, Fetched, Writing
  <2> QED
    BY <2>3, <2>4, <2>5 DEF IInv
<1>3. CASE DriverFetches(b) /\ pc = "fetch"
  <2>1. /\ tmp' = [k \in DOMAIN tmp |-> mem[b * BlockSize + k]] /\ todo' = todo \ {b}
        /\ UnitsOf(b) \subseteq Unit
        /\ UNCHANGED <<pc, req, mem, buf, held, lost, result>>
    BY <1>3 DEF DriverFetches
  <2>2. DOMAIN tmp = 0 .. (BlockSize - 1) /\ mem \in [Unit -> Stored]
    BY DEF IInv, TypeOK, Stored
  <2>3. \A k \in 0 .. (BlockSize - 1) : b * BlockSize + k \in Unit
    BY <1>0, <2>1, UnitsOfBlock
  <2>4. tmp' \in [0 .. (BlockSize - 1) -> Stored]
    BY <2>1, <2>2, <2>3
  <2>5. TypeOK'
    BY <2>1, <2>4 DEF IInv, TypeOK, Stored
  <2> QED
    BY <2>1, <2>4, <2>5 DEF IInv, InCall, Fetched, NothingHeld
<1>4. CASE DriverFetches(b) /\ pc # "fetch"
  <2>1. /\ buf' = [i \in DOMAIN buf |->
                     IF i + BlockStart(req) * BlockSize \in UnitsOf(b)
                       THEN mem[i + BlockStart(req) * BlockSize] ELSE buf[i]]
        /\ todo' = todo \ {b} /\ UnitsOf(b) \subseteq Unit /\ ~Writing
        /\ UNCHANGED <<pc, req, mem, tmp, held, lost, result>>
    BY <1>4 DEF DriverFetches
  <2>2. buf' \in [0 .. (MaxUnits - 1) -> Content]
    <3>1. buf \in [0 .. (MaxUnits - 1) -> Content] /\ mem \in [Unit -> Content]
      BY DEF IInv, TypeOK
    <3> QED
      BY <2>1, <3>1
  <2>3. TypeOK'
    BY <2>1, <2>2 DEF IInv, TypeOK
  <2> QED
    BY <1>4, <2>1, <2>3 DEF IInv, InCall, Fetched, NothingHeld, Writing
<1> QED
  BY <1>1, <1>2, <1>3, <1>4 DEF Driver

LEMMA StepIInv ==
  ASSUME IInv, BlocksDone \/ AllocBlock \/ TailFetched \/ TailDone \/ DriverFails \/ Reset
  PROVE  IInv'
<1>0. req \in Requests
  BY DEF IInv, TypeOK
<1>1. CASE BlocksDone
  <2>1. CASE pc = "blocks"
    <3>1. Rest(req) /\ UNCHANGED <<req, mem, buf, tmp, held, lost>> /\ req.op # "erase" /\ held = FALSE
      BY <1>1, <2>1 DEF BlocksDone, IInv, InCall, TypeOK, NothingHeld
    <3>2. buf' \in [0 .. (MaxUnits - 1) -> Content] /\ lost' \subseteq Unit
      BY <3>1 DEF IInv, TypeOK
    <3> QED
      BY <1>0, <3>1, <3>2, RestIInv
  <2>2. CASE pc = "erase"
    BY <1>1, <2>2 DEF BlocksDone, Return, IInv, TypeOK, InCall, Fetched, NothingHeld
  <2> QED
    BY <1>1, <2>1, <2>2 DEF BlocksDone
<1>2. CASE AllocBlock
  <2>1. {Tail(req)} \subseteq 0 .. (Units + MaxUnits)
    BY <1>0, Ranges
  <2>2. /\ pc = "alloc" /\ todo = {} /\ result = "none" /\ req.op # "erase"
        /\ UNCHANGED <<req, mem, buf, tmp, lost>>
        /\ \/ held' = TRUE /\ pc' = "fetch" /\ todo' = {Tail(req)} /\ result' = result
           \/ pc' = "idle" /\ result' = "err" /\ held' = held /\ todo' = todo
    BY <1>2 DEF AllocBlock, Return, IInv, InCall
  <2>3. TypeOK'
    BY <2>1, <2>2 DEF IInv, TypeOK
  <2>4. InCall' /\ Fetched' /\ NothingHeld'
    BY <2>2 DEF IInv, InCall, Fetched, NothingHeld
  <2> QED
    BY <2>3, <2>4 DEF IInv
<1>3. CASE TailFetched
  <2>1. {Tail(req)} \subseteq 0 .. (Units + MaxUnits)
    BY <1>0, Ranges
  <2>2. CASE req.op = "write"
    BY <1>3, <2>1, <2>2 DEF TailFetched, IInv, TypeOK, InCall, Fetched, NothingHeld
  <2>3. CASE req.op # "write"
    <3>1. /\ pc = "fetch" /\ todo = {} /\ pc' = "copied"
          /\ buf' = [i \in DOMAIN buf |->
                       IF i - FullBlocks(req) * BlockSize \in 0 .. (Remaining(req) - 1)
                         THEN tmp[i - FullBlocks(req) * BlockSize] ELSE buf[i]]
          /\ UNCHANGED <<req, mem, tmp, held, lost, result, todo>>
      BY <1>3, <2>3 DEF TailFetched
    <3>2. req.op = "read"
      BY <1>0, <2>3, <3>1, Sectors DEF IInv, InCall
    <3>3. buf' \in [0 .. (MaxUnits - 1) -> Content]
      <4>1. buf \in [0 .. (MaxUnits - 1) -> Content] /\ tmp \in [0 .. (BlockSize - 1) -> Content]
        BY DEF IInv, TypeOK
      <4>2. \A k : k \in 0 .. (Remaining(req) - 1) => k \in 0 .. (BlockSize - 1)
        BY <1>0, Parts, Numbers
      <4> QED
        BY <3>1, <4>1, <4>2
    <3>4. TypeOK'
      BY <3>1, <3>3 DEF IInv, TypeOK
    <3> QED
      BY <3>1, <3>2, <3>4 DEF IInv, InCall, Fetched, NothingHeld
  <2> QED
    BY <2>2, <2>3
<1>4. CASE TailDone
  BY <1>4 DEF TailDone, Return, IInv, TypeOK, InCall, Fetched, NothingHeld
<1>5. CASE DriverFails
  BY <1>5 DEF DriverFails, HeldAfterFailure, Return, IInv, TypeOK, InCall, Fetched, NothingHeld
<1>6. CASE Reset
  BY <1>6 DEF Reset, Return, IInv, TypeOK, InCall, Fetched, NothingHeld
<1> QED
  BY <1>1, <1>2, <1>3, <1>4, <1>5, <1>6

LEMMA NextIInv == IInv /\ [Next]_vars => IInv'
<1> SUFFICES ASSUME IInv, [Next]_vars PROVE IInv'
  OBVIOUS
<1>1. CASE UNCHANGED vars
  BY <1>1 DEF vars, IInv, TypeOK, InCall, Fetched, NothingHeld
<1> QED
  BY <1>1, SubmitIInv, DriverIInv, StepIInv DEF Next

LEMMA Invariance == Spec => []IInv
<1> QED
  BY InitIInv, NextIInv, PTL DEF Spec

(* In any history of calls, failures and resets, of sectors of any size,   *)
(* the card only ever gets what was asked for or what was read from it.    *)
THEOREM TypeCorrect == Spec => []TypeOK
<1>1. IInv => TypeOK
  BY DEF IInv
<1> QED
  BY <1>1, Invariance, PTL

(* ... and the temporary block is back in the pool after every call.       *)
THEOREM BlockIsReturned == Spec => []NothingHeld
<1>1. IInv => NothingHeld
  BY DEF IInv
<1> QED
  BY <1>1, Invariance, PTL

-----------------------------------------------------------------------------
(* 2. The refinement.                                                      *)

AllFit == Units < Word /\ \A r \in Requests : Fits(r)

(* Sectors that begin on a block: no address or size wraps.                *)
LEMMA Layout ==
  ASSUME AllFit, NEW r \in Requests
  PROVE  /\ BlockStart(r) * BlockSize = From(r)
         /\ Tail(r) * BlockSize \in Nat
         /\ Tail(r) * BlockSize = From(r) + FullBlocks(r) * BlockSize
         /\ To(r) + 1 = Tail(r) * BlockSize + Remaining(r)
         /\ r.op = "erase" => (EraseLast(r) + 1) * BlockSize = To(r) + 1
<1>0. Fits(r) /\ Units < Word
  BY DEF AllFit
<1>1. /\ r.count * r.size \in Nat \ {0} /\ From(r) \in Nat /\ To(r) \in Nat
      /\ From(r) < Word /\ r.count * r.size < Word
      /\ To(r) + 1 = From(r) + r.count * r.size
  BY <1>0, Sectors, Numbers DEF Unit
<1>2. BlockStart(r) * BlockSize = From(r)
  <2>1. From(r) % Word = From(r)
    BY <1>1, Numbers, SmallMod
  <2>2. From(r) = (From(r) \div BlockSize) * BlockSize + (From(r) % BlockSize)
        /\ From(r) \div BlockSize \in Nat
    BY <1>1, Numbers, DivMod, Zenon
  <2>3. (From(r) \div BlockSize) * BlockSize \in Nat /\ From(r) % BlockSize = 0
    BY <1>0, <2>2, Numbers, Product DEF Fits
  <2>4. From(r) = (From(r) \div BlockSize) * BlockSize
    BY <1>1, <2>2, <2>3
  <2> QED
    BY <2>1, <2>4 DEF BlockStart
<1>3. r.count * r.size = FullBlocks(r) * BlockSize + Remaining(r)
  <2>1. TotalUnits(r) = r.count * r.size
    BY <1>1, Numbers, SmallMod DEF TotalUnits
  <2>2. TotalUnits(r) = (TotalUnits(r) \div BlockSize) * BlockSize + (TotalUnits(r) % BlockSize)
    <3>1. TotalUnits(r) \in Nat
      BY <1>1, <2>1
    <3> QED
      BY <3>1, Numbers, DivMod, Zenon
  <2> QED
    BY <2>1, <2>2 DEF FullBlocks, Remaining
<1>4. Tail(r) * BlockSize = BlockStart(r) * BlockSize + FullBlocks(r) * BlockSize
  BY Parts, Numbers
<1>5. FullBlocks(r) * BlockSize \in Nat /\ Remaining(r) \in Nat
  BY Parts
<1> QED
  BY <1>0, <1>1, <1>2, <1>3, <1>4, <1>5 DEF Fits

(* A whole block of a call lies among the units asked for.                 *)
LEMMA WholeBlock ==
  ASSUME AllFit, NEW r \in Requests, NEW b \in Nat, NEW u, u \in UnitsOf(b),
         \/ b \in BlockStart(r) .. (Tail(r) - 1)
         \/ r.op = "erase" /\ b \in BlockStart(r) .. EraseLast(r)
  PROVE  /\ u \in From(r) .. To(r)
         /\ b < Tail(r) => u < Tail(r) * BlockSize
<1>1. /\ u \in Nat /\ b * BlockSize \in Nat /\ b * BlockSize <= u /\ u < b * BlockSize + BlockSize
      /\ BlockSize \in Nat /\ From(r) \in Nat /\ To(r) \in Nat
      /\ BlockStart(r) \in Nat /\ Tail(r) \in Nat /\ EraseLast(r) \in Nat /\ Remaining(r) \in Nat
      /\ BlockStart(r) * BlockSize = From(r)
      /\ Tail(r) * BlockSize \in Nat /\ To(r) + 1 = Tail(r) * BlockSize + Remaining(r)
      /\ BlockStart(r) <= b
  BY UnitsOfBlock, Numbers, Sectors, Parts, Layout DEF Unit
<1>2. From(r) <= u
  <2>1. CASE b = BlockStart(r)
    BY <1>1, <2>1
  <2>2. CASE BlockStart(r) < b
    BY <1>1, <2>2, Behind
  <2> QED
    BY <1>1, <2>1, <2>2
<1>3. ASSUME b < Tail(r)
      PROVE  u < Tail(r) * BlockSize
  BY <1>1, <1>3, Behind
<1>4. u <= To(r)
  <2>1. CASE b \in BlockStart(r) .. (Tail(r) - 1)
    <3>1. b < Tail(r)
      BY <1>1, <2>1
    <3> QED
      BY <1>1, <1>3, <3>1
  <2>2. CASE r.op = "erase" /\ b \in BlockStart(r) .. EraseLast(r)
    <3>1. b < EraseLast(r) + 1 /\ EraseLast(r) + 1 \in Nat
          /\ (EraseLast(r) + 1) * BlockSize = To(r) + 1
      BY <1>1, <2>2, Layout
    <3>2. b * BlockSize + BlockSize <= (EraseLast(r) + 1) * BlockSize
      BY <3>1, Behind
    <3> QED
      BY <1>1, <3>1, <3>2
  <2> QED
    BY <2>1, <2>2
<1> QED
  BY <1>1, <1>2, <1>3, <1>4

-----------------------------------------------------------------------------
(* The request of the block device of units.                               *)
Abstract(r) == [op |-> r.op, start |-> From(r), last |-> To(r), val |-> r.val]

Wanted(r, u) == IF r.op = "erase" THEN Erased ELSE Piece(r.val, u)

LEMMA Vocabulary ==
  ASSUME AllFit, NEW r \in Requests
  PROVE  /\ Abstract(r) \in BD!Request
         /\ BD!Extent(Abstract(r)) = From(r) .. To(r)
         /\ \A u : BD!Target(Abstract(r), u) = Wanted(r, u)
<1>1. /\ From(r) \in Unit /\ To(r) \in Unit /\ From(r) <= To(r)
      /\ To(r) < From(r) + MaxUnits
      /\ r.op \in {"read", "write", "erase"} /\ r.val \in Values
      /\ r.op = "write" \/ r.val = AnyValue
  BY Sectors, Numbers DEF Unit, AllFit, Fits
<1>2. BD!Block = Unit /\ BD!AnyValue = AnyValue
  BY DEF BD!Block, Unit, BD!AnyValue, AnyValue
<1>3. /\ Abstract(r) \in [op : {"read", "write", "erase"}, start : Unit, last : Unit, val : Values]
      /\ Abstract(r).op = r.op /\ Abstract(r).start = From(r) /\ Abstract(r).last = To(r)
      /\ Abstract(r).val = r.val
  BY <1>1 DEF Abstract
<1>4. Abstract(r) \in BD!Request
  BY <1>1, <1>2, <1>3 DEF BD!Request
<1>5. BD!Extent(Abstract(r)) = From(r) .. To(r)
  BY <1>1, <1>3 DEF BD!Extent, BD!Lo, BD!Hi
<1>6. \A u : BD!Target(Abstract(r), u) = Wanted(r, u)
  BY <1>3 DEF BD!Target, BD!Piece, Wanted, Piece
<1> QED
  BY <1>4, <1>5, <1>6

(* A unit that the call has still to deal with.                            *)
Due(u) ==
  \/ \E b \in todo : u \in UnitsOf(b)
  \/ pc \in {"blocks", "alloc", "fetch"} /\ Tail(req) * BlockSize <= u

Served(u) ==
  IF req.op = "read" THEN buf[u - From(req)] = mem[u]
                     ELSE mem[u] = Wanted(req, u) \/ u \in lost

(* What is not due is served, and the temporary block shows the card.      *)
RInv ==
  /\ pc # "idle" => \A u \in From(req) .. To(req) : Due(u) \/ Served(u)
  /\ lost \subseteq From(req) .. To(req)
  /\ (pc = "store" /\ todo # {}) \/ (pc = "fetch" /\ todo = {}) =>
       \A k \in 0 .. (BlockSize - 1) : tmp[k] = mem[Tail(req) * BlockSize + k]
  /\ pc = "erase" => todo \subseteq BlockStart(req) .. EraseLast(req)

Simulates == BD!Next \/ UNCHANGED BD!vars

LEMMA InitRefines ==
  ASSUME AllFit, Init
  PROVE  BD!Init /\ RInv
<1>1. Abstract(req) \in BD!Request /\ pc = "idle" /\ mem = [u \in Unit |-> Erased]
      /\ buf = EmptyBuffer /\ lost = {} /\ result = "none"
  BY Vocabulary DEF Init
<1>2. BD!Init
  BY <1>1 DEF BD!Init, BD!Block, Unit, BD!EmptyBuffer, EmptyBuffer, Abstract
<1> QED
  BY <1>1, <1>2 DEF RInv

(* Steps on which the block device stutters.                               *)
LEMMA Stutters ==
  ASSUME pc # "idle", pc' # "idle", UNCHANGED <<req, mem, buf, lost, result>>
  PROVE  Simulates
BY DEF Simulates, BD!vars

(* A call that fails.                                                      *)
LEMMA Fails ==
  ASSUME RInv, pc # "idle", pc' = "idle", result' = "err", UNCHANGED <<req, mem, buf, lost>>
  PROVE  RInv' /\ Simulates
<1>1. BD!Fail
  BY DEF BD!Fail
<1> QED
  BY <1>1 DEF RInv, Simulates, BD!Next

(* A call that succeeds has nothing due.                                   *)
LEMMA Succeeds ==
  ASSUME AllFit, IInv, RInv, pc # "idle", \A u \in From(req) .. To(req) : ~Due(u),
         pc' = "idle", result' = "ok", UNCHANGED <<req, mem, buf, lost>>
  PROVE  RInv' /\ Simulates
<1>1. req \in Requests /\ \A u \in From(req) .. To(req) : Served(u)
  BY DEF RInv, IInv, TypeOK
<1>2. BD!Extent(Abstract(req)) = From(req) .. To(req)
      /\ \A u : BD!Target(Abstract(req), u) = Wanted(req, u)
  BY <1>1, Vocabulary
<1>3. BD!CarriedOut
  BY <1>1, <1>2 DEF BD!CarriedOut, Served, Abstract
<1>4. BD!Succeed
  BY <1>3 DEF BD!Succeed
<1> QED
  BY <1>4 DEF RInv, Simulates, BD!Next

LEMMA SubmitRefines ==
  ASSUME AllFit, IInv, RInv, NEW r \in Requests, Submit(r)
  PROVE  RInv' /\ Simulates
<1>1. /\ pc = "idle" /\ req' = r /\ mem' = mem /\ buf' = EmptyBuffer /\ lost' = {}
      /\ IF r.op = "erase" THEN Clear(r) ELSE Transfer(r)
  BY DEF Submit
<1>2. /\ From(r) \in Nat /\ To(r) \in Nat /\ BlockSize \in Nat \ {0}
      /\ BlockStart(r) \in Nat /\ Tail(r) \in Nat /\ EraseLast(r) \in Nat
      /\ FullBlocks(r) \in Nat /\ Remaining(r) \in Nat
      /\ Tail(r) = BlockStart(r) + FullBlocks(r)
      /\ BlockStart(r) * BlockSize = From(r)
      /\ Tail(r) * BlockSize \in Nat /\ From(r) <= To(r)
      /\ To(r) + 1 = Tail(r) * BlockSize + Remaining(r)
  BY Numbers, Sectors, Parts, Layout DEF Unit
<1>3. CASE r.op = "erase"
  <2>1. EraseLast(r) + 1 \in Nat /\ (EraseLast(r) + 1) * BlockSize = To(r) + 1
    BY <1>2, <1>3, Layout
  <2>2. BlockStart(r) <= EraseLast(r)
    <3>1. SUFFICES ASSUME EraseLast(r) + 1 <= BlockStart(r) PROVE FALSE
      BY <1>2
    <3>2. CASE EraseLast(r) + 1 = BlockStart(r)
      BY <1>2, <2>1, <3>2
    <3>3. CASE EraseLast(r) + 1 < BlockStart(r)
      BY <1>2, <2>1, <3>3, Behind
    <3> QED
      BY <1>2, <3>1, <3>2, <3>3
  <2>3. pc' = "erase" /\ result' = "none" /\ todo' = BlockStart(r) .. EraseLast(r)
    BY <1>1, <1>3, <2>2 DEF Clear, Cleared
  <2>4. ASSUME NEW u \in From(r) .. To(r)
        PROVE  \E b \in todo' : u \in UnitsOf(b)
    <3> DEFINE c == EraseLast(r) + 1
    <3>1. /\ u \in Nat /\ BlockStart(r) \in Nat /\ c \in Nat
          /\ BlockStart(r) * BlockSize <= u /\ u < c * BlockSize /\ c - 1 = EraseLast(r)
      <4>1. c * BlockSize = To(r) + 1 /\ c \in Nat /\ c - 1 = EraseLast(r)
        BY <1>2, <2>1
      <4> HIDE DEF c
      <4> QED
        BY <1>2, <4>1
    <3> HIDE DEF c
    <3>2. \E b \in BlockStart(r) .. (c - 1) : u \in UnitsOf(b)
      BY <3>1, BlockOf
    <3> QED
      BY <2>3, <3>1, <3>2
  <2>5. RInv'
    BY <1>1, <2>3, <2>4 DEF RInv, Due
  <2>6. BD!Submit(Abstract(r))
    BY <1>1, <2>3 DEF BD!Submit, BD!EmptyBuffer, EmptyBuffer, Abstract
  <2> QED
    BY <2>5, <2>6, Vocabulary DEF Simulates, BD!Next
<1>4. CASE r.op # "erase"
  <2>1. /\ pc' \in {"blocks", "alloc"} /\ result' = "none"
        /\ pc' = "blocks" => todo' = BlockStart(r) .. (Tail(r) - 1)
        /\ pc' = "alloc" => FullBlocks(r) = 0
    <3>1. CASE FullBlocks(r) > 0
      BY <1>1, <1>4, <3>1 DEF Transfer
    <3>2. CASE FullBlocks(r) = 0
      <4>1. Remaining(r) > 0
        BY <1>2, <3>2
      <4> QED
        BY <1>1, <1>4, <3>2, <4>1 DEF Transfer, Rest
    <3> QED
      BY <1>2, <3>1, <3>2
  <2>2. ASSUME NEW u \in From(r) .. To(r)
        PROVE  \/ \E b \in todo' : u \in UnitsOf(b)
               \/ pc' \in {"blocks", "alloc", "fetch"} /\ Tail(r) * BlockSize <= u
    <3>1. CASE Tail(r) * BlockSize <= u
      BY <2>1, <3>1
    <3>2. CASE ~(Tail(r) * BlockSize <= u)
      <4>1. u \in Nat /\ BlockStart(r) * BlockSize <= u /\ u < Tail(r) * BlockSize
        BY <1>2, <3>2
      <4>2. \E b \in BlockStart(r) .. (Tail(r) - 1) : u \in UnitsOf(b)
        BY <1>2, <4>1, BlockOf
      <4>3. pc' = "blocks"
        <5>1. FullBlocks(r) = 0 => Tail(r) = BlockStart(r)
          BY <1>2
        <5> QED
          BY <1>2, <2>1, <4>1, <5>1
      <4> QED
        BY <2>1, <4>2, <4>3
    <3> QED
      BY <3>1, <3>2
  <2>3. RInv'
    BY <1>1, <2>1, <2>2 DEF RInv, Due
  <2>4. BD!Submit(Abstract(r))
    BY <1>1, <2>1 DEF BD!Submit, BD!EmptyBuffer, EmptyBuffer, Abstract
  <2> QED
    BY <2>3, <2>4, Vocabulary DEF Simulates, BD!Next
<1> QED
  BY <1>3, <1>4

-----------------------------------------------------------------------------
(* What the driver writes: what was asked for, and otherwise what is there.*)
LEMMA SourceIs ==
  ASSUME AllFit, IInv, RInv, Writing, NEW b \in todo, NEW u \in Unit, u \in UnitsOf(b)
  PROVE  /\ req.op # "read"
         /\ Source(b, u) = IF u \in From(req) .. To(req) THEN Wanted(req, u) ELSE mem[u]
<1>0. /\ req \in Requests /\ b \in Nat /\ BlockSize \in Nat
      /\ req.op \in {"read", "write", "erase"}
  BY Numbers, Sectors DEF IInv, TypeOK
<1>1. /\ u \in Nat /\ b * BlockSize \in Nat /\ b * BlockSize <= u /\ u < b * BlockSize + BlockSize
  BY <1>0, UnitsOfBlock
<1>2. CASE pc = "blocks"
  <2>1. req.op = "write" /\ b \in BlockStart(req) .. (Tail(req) - 1)
    BY <1>2 DEF Writing, IInv, InCall
  <2>2. u \in From(req) .. To(req)
    BY <1>0, <2>1, WholeBlock
  <2>3. From(req) + (u - BlockStart(req) * BlockSize) = u
    BY <1>0, <1>1, <2>2, Layout, Sectors
  <2> QED
    BY <1>2, <2>1, <2>2, <2>3 DEF Source, Asked, Wanted
<1>3. CASE pc = "erase"
  <2>1. req.op = "erase" /\ b \in BlockStart(req) .. EraseLast(req)
    BY <1>3 DEF IInv, InCall, RInv
  <2>2. u \in From(req) .. To(req)
    BY <1>0, <2>1, WholeBlock
  <2> QED
    BY <1>3, <2>1, <2>2 DEF Source, Wanted
<1>4. CASE pc = "store"
  <2>1. req.op = "write" /\ b = Tail(req) /\ todo # {}
    BY <1>4 DEF IInv, InCall
  <2>2. /\ From(req) \in Nat /\ To(req) \in Nat /\ Remaining(req) \in Nat
        /\ FullBlocks(req) * BlockSize \in Nat
        /\ b * BlockSize = From(req) + FullBlocks(req) * BlockSize
        /\ To(req) + 1 = b * BlockSize + Remaining(req)
    BY <1>0, <2>1, Layout, Parts, Sectors DEF Unit
  <2>3. CASE u \in From(req) .. To(req)
    <3>1. u - b * BlockSize < Remaining(req)
          /\ From(req) + (FullBlocks(req) * BlockSize + (u - b * BlockSize)) = u
      BY <1>0, <1>1, <2>2, <2>3
    <3> QED
      BY <1>4, <2>1, <2>3, <3>1 DEF Source, Merged, Asked, Wanted
  <2>4. CASE u \notin From(req) .. To(req)
    <3>1. ~(u - b * BlockSize < Remaining(req)) /\ u - b * BlockSize \in 0 .. (BlockSize - 1)
          /\ b * BlockSize + (u - b * BlockSize) = u
      BY <1>0, <1>1, <2>2, <2>4
    <3>2. tmp[u - b * BlockSize] = mem[b * BlockSize + (u - b * BlockSize)]
      BY <1>4, <2>1, <3>1 DEF RInv
    <3> QED
      BY <1>4, <2>1, <2>4, <3>1, <3>2 DEF Source, Merged
  <2> QED
    BY <2>1, <2>3, <2>4
<1> QED
  BY <1>2, <1>3, <1>4 DEF Writing

(* One block less to do: what was not due is none of its units.            *)
LEMMA DueLess ==
  ASSUME IInv, NEW b \in todo, todo' = todo \ {b}, UNCHANGED <<pc, req>>, NEW u
  PROVE  /\ Due(u)' => Due(u)
         /\ Due(u) /\ ~Due(u)' => u \in UnitsOf(b)
         /\ ~Due(u) => u \notin UnitsOf(b)
BY DEF Due

LEMMA StoresRefines ==
  ASSUME AllFit, IInv, RInv, NEW b \in todo, DriverStores(b)
  PROVE  RInv' /\ Simulates
<1> DEFINE S == UnitsOf(b) \cap (From(req) .. To(req))
<1>1. /\ Writing /\ UnitsOf(b) \subseteq Unit
      /\ mem' = [u \in Unit |-> IF u \in UnitsOf(b) THEN Source(b, u) ELSE mem[u]]
      /\ lost' = lost \ UnitsOf(b) /\ todo' = todo \ {b}
      /\ UNCHANGED <<pc, req, buf, tmp, held, result>>
  BY DEF DriverStores
<1>2. req \in Requests /\ mem \in [Unit -> Content \ {NoData}] /\ pc \in {"blocks", "store", "erase"}
  BY <1>1 DEF IInv, TypeOK, Writing
<1>3. req.op # "read" /\ mem' = [u \in Unit |-> IF u \in S THEN Wanted(req, u) ELSE mem[u]]
  <2>1. \A u \in Unit : u \in UnitsOf(b) =>
          Source(b, u) = IF u \in From(req) .. To(req) THEN Wanted(req, u) ELSE mem[u]
    BY <1>1, SourceIs
  <2>2. \A u \in Unit : (IF u \in UnitsOf(b) THEN Source(b, u) ELSE mem[u])
                        = (IF u \in S THEN Wanted(req, u) ELSE mem[u])
    BY <2>1
  <2>3. req.op # "read"
    <3>1. PICK u \in UnitsOf(b) : TRUE
      <4>1. b \in Nat /\ BlockSize \in Nat \ {0}
        BY Numbers DEF IInv, TypeOK
      <4>2. b * BlockSize \in UnitsOf(b)
        BY <4>1, UnitsOfBlock
      <4> QED
        BY <4>2
    <3> QED
      BY <1>1, <3>1, SourceIs
  <2> QED
    BY <1>1, <2>2, <2>3
<1>4. lost' = lost \ S
  BY <1>1 DEF RInv
<1>5. From(req) .. To(req) \subseteq Unit
  BY <1>2, Sectors, Numbers DEF Unit
<1>6. BD!Store(S)
  <2>1. BD!Extent(Abstract(req)) = From(req) .. To(req)
        /\ \A u : BD!Target(Abstract(req), u) = Wanted(req, u)
    BY <1>2, Vocabulary
  <2>2. BD!Block = Unit
    BY DEF BD!Block, Unit
  <2>3. mem' = [u \in BD!Block |-> IF u \in S THEN BD!Target(Abstract(req), u) ELSE mem[u]]
    BY <1>3, <2>1, <2>2
  <2>4. req.op \in {"write", "erase"}
    BY <1>2, <1>3, Sectors
  <2>5. BD!Apply(S)
    BY <1>1, <1>4, <2>1, <2>3, <2>4 DEF BD!Apply, Abstract
  <2> QED
    BY <1>1, <1>2, <2>5 DEF BD!Store
<1>7. S \in SUBSET BD!Extent(Abstract(req))
  BY <1>2, Vocabulary
<1>8. Simulates
  BY <1>6, <1>7 DEF Simulates, BD!Next, Abstract
<1>9. RInv'
  <2>1. ASSUME NEW u \in From(req) .. To(req), ~Due(u)'
        PROVE  mem'[u] = Wanted(req, u) \/ u \in lost'
    <3>1. CASE u \in UnitsOf(b)
      BY <1>3, <1>5, <2>1, <3>1
    <3>2. CASE u \notin UnitsOf(b)
      <4>1. ~Due(u)
        BY <1>1, <2>1, <3>2, DueLess
      <4>2. mem[u] = Wanted(req, u) \/ u \in lost
        BY <1>2, <1>3, <4>1 DEF RInv, Served
      <4> QED
        BY <1>3, <1>4, <1>5, <3>2, <4>2
    <3> QED
      BY <3>1, <3>2
  <2>2. \A u \in From(req') .. To(req') : Due(u)' \/ Served(u)'
    BY <1>1, <1>3, <2>1 DEF Served
  <2>3. ~(pc' = "store" /\ todo' # {}) /\ pc' # "fetch"
    BY <1>1, <1>2 DEF IInv, InCall
  <2>4. pc' = "erase" => todo' \subseteq BlockStart(req') .. EraseLast(req')
    BY <1>1 DEF RInv
  <2>5. lost' \subseteq From(req') .. To(req')
    BY <1>1 DEF RInv
  <2> QED
    BY <2>2, <2>3, <2>4, <2>5 DEF RInv
<1> QED
  BY <1>8, <1>9

LEMMA LosesRefines ==
  ASSUME AllFit, IInv, RInv, NEW b \in todo, DriverLoses(b)
  PROVE  RInv' /\ Simulates
<1> DEFINE S == UnitsOf(b) \cap (From(req) .. To(req))
<1>1. /\ Writing /\ pc # "erase" /\ lost' = lost \cup S /\ todo' = todo \ {b}
      /\ UNCHANGED <<pc, req, mem, buf, tmp, held, result>>
  BY DEF DriverLoses
<1>2. req \in Requests /\ pc \in {"blocks", "store"} /\ req.op = "write"
  BY <1>1 DEF IInv, TypeOK, InCall, Writing
<1>3. BD!Extent(Abstract(req)) = From(req) .. To(req)
  BY <1>2, Vocabulary
<1>4. BD!Lose(S)
  BY <1>1, <1>2, <1>3 DEF BD!Lose, Abstract
<1>5. S \in SUBSET BD!Extent(Abstract(req))
  BY <1>3
<1>6. Simulates
  BY <1>4, <1>5 DEF Simulates, BD!Next, Abstract
<1>7. RInv'
  <2>1. ASSUME NEW u \in From(req) .. To(req), ~Due(u)'
        PROVE  mem[u] = Wanted(req, u) \/ u \in lost'
    <3>1. CASE u \in UnitsOf(b)
      BY <1>1, <3>1
    <3>2. CASE u \notin UnitsOf(b)
      <4>1. ~Due(u)
        BY <1>1, <2>1, <3>2, DueLess
      <4> QED
        BY <1>1, <1>2, <4>1 DEF RInv, Served
    <3> QED
      BY <3>1, <3>2
  <2>2. \A u \in From(req') .. To(req') : Due(u)' \/ Served(u)'
    BY <1>1, <1>2, <2>1 DEF Served
  <2>3. ~(pc' = "store" /\ todo' # {}) /\ pc' # "fetch"
    BY <1>1, <1>2 DEF IInv, InCall
  <2>4. lost' \subseteq From(req') .. To(req')
    BY <1>1 DEF RInv
  <2> QED
    BY <1>1, <2>2, <2>3, <2>4 DEF RInv
<1> QED
  BY <1>6, <1>7

LEMMA FetchesRefines ==
  ASSUME AllFit, IInv, RInv, NEW b \in todo, DriverFetches(b)
  PROVE  RInv' /\ Simulates
<1>1. /\ ~Writing /\ UnitsOf(b) \subseteq Unit /\ todo' = todo \ {b}
      /\ UNCHANGED <<pc, req, mem, held, lost, result>>
  BY DEF DriverFetches
<1>2. req \in Requests /\ b \in Nat /\ BlockSize \in Nat \ {0}
      /\ pc \in {"blocks", "fetch"}
  BY <1>1, Numbers DEF IInv, TypeOK, InCall, Writing
<1>3. CASE pc = "fetch"
  <2>1. b = Tail(req) /\ todo' = {} /\ UNCHANGED buf
        /\ tmp' = [k \in DOMAIN tmp |-> mem[b * BlockSize + k]]
        /\ DOMAIN tmp = 0 .. (BlockSize - 1)
    BY <1>1, <1>3 DEF DriverFetches, IInv, InCall, TypeOK
  <2>2. Simulates
    BY <1>1, <1>3, <2>1, Stutters
  <2>3. ASSUME NEW u \in From(req) .. To(req)
        PROVE  Due(u)' \/ Served(u)'
    <3>1. CASE u \in UnitsOf(b)
      BY <1>1, <1>2, <1>3, <2>1, <3>1, UnitsOfBlock DEF Due
    <3>2. CASE u \notin UnitsOf(b)
      <4>1. Due(u) => Due(u)'
        BY <1>1, <3>2, DueLess
      <4>2. Served(u) => Served(u)'
        BY <1>1, <2>1 DEF Served
      <4> QED
        BY <1>3, <4>1, <4>2 DEF RInv
    <3> QED
      BY <3>1, <3>2
  <2>4. \A k \in 0 .. (BlockSize - 1) : tmp'[k] = mem'[Tail(req') * BlockSize + k]
    BY <1>1, <2>1
  <2>5. RInv'
    BY <1>1, <1>3, <2>1, <2>3, <2>4 DEF RInv
  <2> QED
    BY <2>2, <2>5
<1>4. CASE pc = "blocks"
  <2>1. /\ buf' = [i \in DOMAIN buf |->
                     IF i + BlockStart(req) * BlockSize \in UnitsOf(b)
                       THEN mem[i + BlockStart(req) * BlockSize] ELSE buf[i]]
        /\ UNCHANGED tmp /\ b \in BlockStart(req) .. (Tail(req) - 1) /\ req.op = "read"
        /\ DOMAIN buf = 0 .. (MaxUnits - 1)
    BY <1>1, <1>2, <1>4, Sectors DEF DriverFetches, IInv, InCall, TypeOK, Writing
  <2>2. UnitsOf(b) \subseteq From(req) .. To(req) /\ BlockStart(req) * BlockSize = From(req)
        /\ From(req) \in Nat /\ To(req) \in Nat /\ To(req) < From(req) + MaxUnits /\ MaxUnits \in Nat
    <3>1. UnitsOf(b) \subseteq From(req) .. To(req)
      BY <1>2, <2>1, WholeBlock
    <3> QED
      BY <1>2, <3>1, Layout, Sectors, Numbers DEF Unit
  <2>3. \A i \in DOMAIN buf : i + BlockStart(req) * BlockSize = From(req) + i
    BY <2>1, <2>2
  <2>4. buf' = [i \in DOMAIN buf |-> IF From(req) + i \in UnitsOf(b) THEN mem[From(req) + i] ELSE buf[i]]
    BY <2>1, <2>3
  <2>5. BD!Extent(Abstract(req)) = From(req) .. To(req)
    BY <1>2, Vocabulary
  <2>6. BD!Fetch(UnitsOf(b))
    BY <1>1, <1>4, <2>1, <2>2, <2>4, <2>5 DEF BD!Fetch, Abstract
  <2>7. UnitsOf(b) \in SUBSET BD!Extent(Abstract(req))
    BY <2>2, <2>5
  <2>8. Simulates
    BY <2>6, <2>7 DEF Simulates, BD!Next, Abstract
  <2>9. ASSUME NEW u \in From(req) .. To(req), ~Due(u)'
        PROVE  buf'[u - From(req)] = mem[u]
    <3>1. u - From(req) \in DOMAIN buf /\ From(req) + (u - From(req)) = u
      BY <2>1, <2>2
    <3>2. CASE u \in UnitsOf(b)
      BY <2>4, <3>1, <3>2
    <3>3. CASE u \notin UnitsOf(b)
      <4>1. ~Due(u)
        BY <1>1, <2>9, <3>3, DueLess
      <4>2. buf[u - From(req)] = mem[u]
        BY <1>4, <2>1, <4>1 DEF RInv, Served
      <4> QED
        BY <2>4, <3>1, <3>3, <4>2
    <3> QED
      BY <3>2, <3>3
  <2>10. \A u \in From(req') .. To(req') : Due(u)' \/ Served(u)'
    BY <1>1, <2>1, <2>9 DEF Served
  <2>11. RInv'
    BY <1>1, <1>4, <2>10 DEF RInv
  <2> QED
    BY <2>8, <2>11
<1> QED
  BY <1>2, <1>3, <1>4

-----------------------------------------------------------------------------
LEMMA BlocksDoneRefines ==
  ASSUME AllFit, IInv, RInv, BlocksDone
  PROVE  RInv' /\ Simulates
<1>1. /\ pc \in {"blocks", "erase"} /\ todo = {} /\ UNCHANGED <<req, mem, buf, tmp, held, lost>>
      /\ IF pc = "blocks" THEN Rest(req) ELSE Return("ok") /\ UNCHANGED todo
  BY DEF BlocksDone
<1>2. req \in Requests /\ result = "none"
  BY <1>1 DEF IInv, TypeOK, InCall
<1>3. CASE pc = "erase"
  BY <1>1, <1>3, Succeeds DEF Return, Due
<1>4. CASE pc = "blocks" /\ Remaining(req) > 0
  <2>1. pc' = "alloc" /\ result' = "none" /\ todo' = {}
    BY <1>1, <1>4 DEF Rest
  <2>2. Simulates
    BY <1>1, <1>2, <1>4, <2>1, Stutters
  <2>3. \A u : Due(u)' <=> Due(u)
    BY <1>1, <1>4, <2>1 DEF Due
  <2>4. \A u : Served(u)' <=> Served(u)
    BY <1>1 DEF Served
  <2>5. RInv'
    BY <1>1, <1>4, <2>1, <2>3, <2>4 DEF RInv
  <2> QED
    BY <2>2, <2>5
<1>5. CASE pc = "blocks" /\ ~(Remaining(req) > 0)
  <2>1. pc' = "idle" /\ result' = "ok"
    BY <1>1, <1>5 DEF Rest, Return
  <2>2. \A u \in From(req) .. To(req) : ~Due(u)
    <3>1. To(req) + 1 = Tail(req) * BlockSize /\ From(req) \in Nat /\ To(req) \in Nat
      BY <1>2, <1>5, Layout, Parts, Sectors DEF Unit
    <3>2. \A u \in From(req) .. To(req) : ~(Tail(req) * BlockSize <= u)
      BY <3>1
    <3> QED
      BY <1>1, <3>2 DEF Due
  <2> QED
    BY <1>1, <1>5, <2>1, <2>2, Succeeds
<1> QED
  BY <1>1, <1>3, <1>4, <1>5

LEMMA AllocRefines ==
  ASSUME AllFit, IInv, RInv, AllocBlock
  PROVE  RInv' /\ Simulates
<1>1. /\ pc = "alloc" /\ todo = {} /\ UNCHANGED <<req, mem, buf, tmp, lost>> /\ req \in Requests
  BY DEF AllocBlock, IInv, InCall, TypeOK
<1>2. CASE pc' = "fetch" /\ todo' = {Tail(req)} /\ UNCHANGED result
  <2>1. Simulates
    BY <1>1, <1>2, Stutters
  <2>2. \A u : Due(u) => Due(u)'
    BY <1>1, <1>2 DEF Due
  <2>3. \A u : Served(u)' <=> Served(u)
    BY <1>1 DEF Served
  <2>4. RInv'
    BY <1>1, <1>2, <2>2, <2>3 DEF RInv
  <2> QED
    BY <2>1, <2>4
<1>3. CASE Return("err")
  BY <1>1, <1>3, Fails DEF Return
<1> QED
  BY <1>2, <1>3 DEF AllocBlock

LEMMA TailFetchedRefines ==
  ASSUME AllFit, IInv, RInv, TailFetched
  PROVE  RInv' /\ Simulates
<1>1. pc = "fetch" /\ todo = {} /\ UNCHANGED <<req, mem, tmp, held, lost, result>> /\ req \in Requests
  BY DEF TailFetched, IInv, TypeOK
<1>2. /\ From(req) \in Nat /\ To(req) \in Nat /\ To(req) < From(req) + MaxUnits /\ MaxUnits \in Nat
      /\ Remaining(req) \in Nat /\ Remaining(req) < BlockSize /\ BlockSize \in Nat
      /\ Tail(req) \in Nat /\ Tail(req) * BlockSize \in Nat /\ FullBlocks(req) * BlockSize \in Nat
      /\ Tail(req) * BlockSize = From(req) + FullBlocks(req) * BlockSize
      /\ To(req) + 1 = Tail(req) * BlockSize + Remaining(req)
  BY <1>1, Layout, Parts, Sectors, Numbers DEF Unit
<1>3. \A k \in 0 .. (BlockSize - 1) : tmp[k] = mem[Tail(req) * BlockSize + k]
  BY <1>1 DEF RInv
<1>4. CASE req.op = "write"
  <2>1. pc' = "store" /\ todo' = {Tail(req)} /\ UNCHANGED buf
    BY <1>4 DEF TailFetched
  <2>2. Simulates
    BY <1>1, <2>1, Stutters
  <2>3. ASSUME NEW u \in From(req) .. To(req)
        PROVE  Due(u)' \/ Served(u)'
    <3>1. CASE Tail(req) * BlockSize <= u
      <4>1. u \in UnitsOf(Tail(req))
        <5>1. u \in Nat /\ u < Tail(req) * BlockSize + BlockSize
          BY <1>2
        <5> QED
          BY <1>2, <3>1, <5>1, UnitsOfBlock, Zenon
      <4> QED
        BY <2>1, <4>1 DEF Due
    <3>2. CASE ~(Tail(req) * BlockSize <= u)
      <4>1. ~Due(u)
        BY <1>1, <3>2 DEF Due
      <4>2. Served(u)
        BY <1>1, <4>1 DEF RInv
      <4> QED
        BY <1>1, <2>1, <4>2 DEF Served
    <3> QED
      BY <3>1, <3>2
  <2>4. RInv'
    BY <1>1, <1>3, <2>1, <2>3 DEF RInv
  <2> QED
    BY <2>2, <2>4
<1>5. CASE req.op # "write"
  <2> DEFINE S == {u \in From(req) .. To(req) : Tail(req) * BlockSize <= u}
  <2>1. /\ pc' = "copied" /\ todo' = {}
        /\ buf' = [i \in DOMAIN buf |->
                     IF i - FullBlocks(req) * BlockSize \in 0 .. (Remaining(req) - 1)
                       THEN tmp[i - FullBlocks(req) * BlockSize] ELSE buf[i]]
    BY <1>1, <1>5 DEF TailFetched
  <2>2. req.op = "read" /\ DOMAIN buf = 0 .. (MaxUnits - 1)
    BY <1>1, <1>5, Sectors DEF IInv, InCall, TypeOK
  <2>3. ASSUME NEW i \in DOMAIN buf
        PROVE  buf'[i] = IF From(req) + i \in S THEN mem[From(req) + i] ELSE buf[i]
    <3>1. i \in Nat
      BY <2>2, <2>3
    <3>2. From(req) + i \in S <=> i - FullBlocks(req) * BlockSize \in 0 .. (Remaining(req) - 1)
      BY <1>2, <3>1
    <3>3. CASE From(req) + i \in S
      <4>1. /\ i - FullBlocks(req) * BlockSize \in 0 .. (BlockSize - 1)
            /\ Tail(req) * BlockSize + (i - FullBlocks(req) * BlockSize) = From(req) + i
        BY <1>2, <3>1, <3>2, <3>3
      <4>2. tmp[i - FullBlocks(req) * BlockSize] = mem[From(req) + i]
        BY <1>3, <4>1
      <4> QED
        BY <2>1, <2>3, <3>2, <3>3, <4>2
    <3>4. CASE From(req) + i \notin S
      BY <2>1, <2>3, <3>2, <3>4
    <3> QED
      BY <3>3, <3>4
  <2>4. buf' = [i \in DOMAIN buf |-> IF From(req) + i \in S THEN mem[From(req) + i] ELSE buf[i]]
    BY <2>1, <2>3
  <2>5. BD!Extent(Abstract(req)) = From(req) .. To(req)
    BY <1>1, Vocabulary
  <2>6. S \in SUBSET BD!Extent(Abstract(req))
    BY <2>5
  <2> HIDE DEF S
  <2>7. BD!Fetch(S)
    BY <1>1, <2>1, <2>2, <2>4, <2>6 DEF BD!Fetch, Abstract
  <2>8. Simulates
    BY <2>6, <2>7 DEF Simulates, BD!Next, Abstract
  <2>9. ASSUME NEW u \in From(req) .. To(req)
        PROVE  buf'[u - From(req)] = mem[u]
    <3>1. u - From(req) \in DOMAIN buf /\ From(req) + (u - From(req)) = u
      BY <1>2, <2>2, SMTT(30)
    <3>2. CASE u \in S
      BY <2>3, <3>1, <3>2
    <3>3. CASE u \notin S
      <4>1. ~(Tail(req) * BlockSize <= u)
        BY <3>3 DEF S
      <4>2. ~Due(u)
        BY <1>1, <4>1 DEF Due
      <4>3. buf[u - From(req)] = mem[u]
        BY <1>1, <2>2, <4>2 DEF RInv, Served
      <4> QED
        BY <2>3, <3>1, <3>3, <4>3
    <3> QED
      BY <3>2, <3>3
  <2>10. \A u \in From(req') .. To(req') : Served(u)'
    BY <1>1, <2>2, <2>9 DEF Served
  <2>11. RInv'
    BY <1>1, <2>1, <2>10 DEF RInv
  <2> QED
    BY <2>8, <2>11
<1> QED
  BY <1>4, <1>5

LEMMA StepRefines == AllFit /\ IInv /\ RInv /\ [Next]_vars => RInv' /\ Simulates
<1> SUFFICES ASSUME AllFit, IInv, RInv, [Next]_vars
             PROVE  RInv' /\ Simulates
  OBVIOUS
<1>1. CASE TailDone
  <2>1. pc \in {"store", "copied"} /\ todo = {} /\ pc' = "idle" /\ result' = "ok"
        /\ UNCHANGED <<req, mem, buf, lost>>
    BY <1>1 DEF TailDone, Return
  <2>2. \A u \in From(req) .. To(req) : ~Due(u)
    BY <2>1 DEF Due
  <2> QED
    BY <2>1, <2>2, Succeeds
<1>2. CASE DriverFails
  BY <1>2, Fails DEF DriverFails, Busy, Return
<1>3. CASE Reset
  BY <1>3, Fails DEF Reset, Return
<1>4. CASE UNCHANGED vars
  <2>1. \A u : (Due(u)' <=> Due(u)) /\ (Served(u)' <=> Served(u))
    BY <1>4 DEF vars, Due, Served
  <2>2. RInv'
    BY <1>4, <2>1 DEF vars, RInv
  <2>3. UNCHANGED BD!vars
    BY <1>4 DEF vars, BD!vars
  <2> QED
    BY <2>2, <2>3 DEF Simulates
<1> QED
  BY <1>1, <1>2, <1>3, <1>4, SubmitRefines, StoresRefines, LosesRefines, FetchesRefines,
     BlocksDoneRefines, AllocRefines, TailFetchedRefines DEF Next, Driver

(* On a card whose units a word can count, asked for sectors of any size   *)
(* that begin on a block, the adapter is a block device of units: whatever *)
(* fails or is reset in between, exactly what was asked for is read and    *)
(* written, and the rest of a shared block stays as it is.                 *)
THEOREM Refinement ==
  ASSUME AllFit
  PROVE  Spec => ImplementsBlockDevice
<1>1. Init => BD!Init /\ RInv
  BY InitRefines
<1>2. IInv /\ RInv /\ [Next]_vars => RInv' /\ [BD!Next]_(BD!vars)
  BY StepRefines DEF Simulates
<1> QED
  BY <1>1, <1>2, Invariance, PTL DEF Spec, ImplementsBlockDevice, BD!Spec

-----------------------------------------------------------------------------
(* The range of clear_sd.                                                  *)
Touches(r, u) == \E b \in Cleared(r) : u \in UnitsOf(b)

(* A call for whole blocks, of addresses that a word has room for.         *)
LEMMA WholeRange ==
  ASSUME NEW r \in Requests, To(r) + BlockSize < Word,
         From(r) % BlockSize = 0, (To(r) + 1) % BlockSize = 0
  PROVE  \E a, n \in Nat :
           /\ n > 0 /\ BlockStart(r) = a /\ EraseLast(r) = n
           /\ From(r) = a * BlockSize /\ To(r) + 1 = (a + n) * BlockSize
<1> DEFINE a == BlockStart(r)
           p == (To(r) + 1) \div BlockSize
           c == r.count * r.size
<1>1. /\ BlockSize \in Nat \ {0} /\ Word \in Nat \ {0}
      /\ From(r) \in Nat /\ To(r) \in Nat /\ c \in Nat \ {0}
      /\ To(r) + 1 = From(r) + c
  BY Numbers, Sectors DEF Unit
<1>2. \A x \in Nat :
        x % BlockSize = 0 => x \div BlockSize \in Nat /\ x = (x \div BlockSize) * BlockSize
  <2> SUFFICES ASSUME NEW x \in Nat, x % BlockSize = 0
               PROVE  x \div BlockSize \in Nat /\ x = (x \div BlockSize) * BlockSize
    OBVIOUS
  <2>1. x \div BlockSize \in Nat /\ x = (x \div BlockSize) * BlockSize + (x % BlockSize)
    BY <1>1, DivMod
  <2>2. (x \div BlockSize) * BlockSize \in Nat
    BY <1>1, <2>1, Product
  <2>3. QED
    BY <2>1, <2>2
<1>3. a \in Nat /\ From(r) = a * BlockSize
  <2>1. From(r) % Word = From(r)
    BY <1>1, SmallMod
  <2>2. QED
    BY <1>1, <1>2, <2>1 DEF BlockStart
<1>4. p \in Nat /\ To(r) + 1 = p * BlockSize
  BY <1>1, <1>2
<1> HIDE DEF a, p, c
<1>5. a * BlockSize \in Nat /\ p * BlockSize \in Nat
  BY <1>1, <1>3, <1>4, Product
<1>6. a < p
  <2>1. ~(p < a)
    BY <1>1, <1>3, <1>4, <1>5, Behind
  <2>2. p # a
    BY <1>1, <1>3, <1>4, <1>5
  <2>3. QED
    BY <1>3, <1>4, <2>1, <2>2
<1>7. p - a \in Nat /\ p - a > 0 /\ a + (p - a) = p
  BY <1>3, <1>4, <1>6
<1>8. (a + (p - a)) * BlockSize = a * BlockSize + (p - a) * BlockSize
  BY <1>1, <1>3, <1>7
<1>9. (p - a) * BlockSize \in Nat /\ c = (p - a) * BlockSize
  BY <1>1, <1>3, <1>4, <1>5, <1>7, <1>8, Product
<1>10. EraseLast(r) = p - a
  <2> DEFINE e == c + BlockSize - 1
             q == e \div BlockSize
  <2>1. e \in Nat /\ e < Word
    BY <1>1
  <2>2. e % Word = e
    BY <1>1, <2>1, SmallMod
  <2>3. EraseLast(r) = q
    BY <2>2 DEF EraseLast, c
  <2>4. /\ q \in Nat /\ e % BlockSize \in 0 .. (BlockSize - 1)
        /\ e = q * BlockSize + (e % BlockSize)
    BY <1>1, <2>1, DivMod
  <2> HIDE DEF q
  <2>5. e \in UnitsOf(q)
    <3>1. q * BlockSize \in Nat
      BY <1>1, <2>4, Product
    <3>2. QED
      BY <1>1, <2>1, <2>4, <3>1, UnitsOfBlock
  <2>6. e \in UnitsOf(p - a)
    BY <1>1, <1>7, <1>9, <2>1, UnitsOfBlock
  <2>7. QED
    BY <1>7, <2>3, <2>4, <2>5, <2>6, OneBlock
<1>11. QED
  BY <1>3, <1>4, <1>7, <1>10 DEF a

(* clear_sd gives erase_sd a number of blocks where it takes the address   *)
(* of the last one (sd_fat32.c:242), and erase_sd sorts the two            *)
(* (SD.c:1221).  Of all ranges of whole blocks on a card that a word of    *)
(* addresses covers, it erases those, and no more, that begin at the       *)
(* second block of the card.                                               *)
THEOREM ClearedRange ==
  ASSUME NEW r \in Requests, To(r) + BlockSize < Word,
         From(r) % BlockSize = 0, (To(r) + 1) % BlockSize = 0
  PROVE  (\A u \in Nat : Touches(r, u) <=> u \in From(r) .. To(r)) <=> From(r) = BlockSize
<1>1. /\ BlockSize \in Nat \ {0} /\ From(r) \in Nat /\ To(r) \in Nat
  BY Numbers, Sectors DEF Unit
<1>2. PICK a \in Nat, n \in Nat :
        /\ n > 0 /\ BlockStart(r) = a /\ EraseLast(r) = n
        /\ From(r) = a * BlockSize /\ To(r) + 1 = (a + n) * BlockSize
  BY WholeRange
<1>3. Cleared(r) = IF a <= n THEN a .. n ELSE n .. a
  BY <1>2 DEF Cleared
<1>4. \A b \in Nat : b * BlockSize \in Nat /\ b * BlockSize \in UnitsOf(b)
  BY <1>1, Product, UnitsOfBlock
<1>5. \A b \in Nat : b * BlockSize \in From(r) .. To(r) => b < a + n
  <2> SUFFICES ASSUME NEW b \in Nat, b * BlockSize \in From(r) .. To(r), ~(b < a + n)
               PROVE  FALSE
    OBVIOUS
  <2>1. (a + n) * BlockSize <= b * BlockSize
    <3>1. CASE a + n = b
      BY <1>1, <1>4, <3>1
    <3>2. CASE a + n < b
      BY <1>1, <1>2, <1>4, <3>2, Behind
    <3>3. QED
      BY <1>2, <3>1, <3>2
  <2>2. QED
    BY <1>1, <1>2, <1>4, <2>1
<1>6. ASSUME \A u \in Nat : Touches(r, u) <=> u \in From(r) .. To(r)
      PROVE  a = 1
  <2>1. a <= n
    <3>1. SUFFICES ASSUME ~(a <= n)
                   PROVE  FALSE
      OBVIOUS
    <3>2. n \in Cleared(r) /\ n < a
      BY <1>2, <1>3, <3>1
    <3>3. n * BlockSize \in From(r) .. To(r)
      BY <1>4, <1>6, <3>2 DEF Touches
    <3>4. n * BlockSize < From(r)
      BY <1>1, <1>2, <1>4, <3>2, Behind
    <3>5. QED
      BY <1>1, <1>4, <3>3, <3>4
  <2>2. n < a + n
    <3>1. n \in Cleared(r)
      BY <1>2, <1>3, <2>1
    <3>2. n * BlockSize \in From(r) .. To(r)
      BY <1>4, <1>6, <3>1 DEF Touches
    <3>3. QED
      BY <1>5, <3>2
  <2>3. ~(a > 1)
    <3>1. SUFFICES ASSUME a > 1
                   PROVE  FALSE
      OBVIOUS
    <3> DEFINE z == a + n - 1
    <3>2. z \in Nat /\ z > n /\ a <= z /\ z + 1 = a + n
      BY <1>2, <3>1
    <3> HIDE DEF z
    <3>3. z * BlockSize \in From(r) .. To(r)
      <4>1. z * BlockSize + BlockSize <= (a + n) * BlockSize
        BY <1>2, <3>2, Behind
      <4>2. a * BlockSize <= z * BlockSize
        <5>1. CASE a = z
          BY <1>4, <3>2, <5>1
        <5>2. CASE a < z
          BY <1>1, <1>2, <1>4, <3>2, <5>2, Behind
        <5>3. QED
          BY <1>2, <3>2, <5>1, <5>2
      <4>3. QED
        BY <1>1, <1>2, <1>4, <3>2, <4>1, <4>2
    <3>4. PICK b \in Cleared(r) : z * BlockSize \in UnitsOf(b)
      BY <1>4, <1>6, <3>2, <3>3 DEF Touches
    <3>5. b \in Nat /\ b <= n
      BY <1>2, <1>3, <2>1
    <3>6. b = z
      BY <1>4, <3>2, <3>4, <3>5, OneBlock
    <3>7. QED
      BY <3>2, <3>5, <3>6
  <2>4. QED
    BY <1>2, <2>2, <2>3
<1>7. ASSUME a = 1
      PROVE  \A u \in Nat : Touches(r, u) <=> u \in From(r) .. To(r)
  <2>1. SUFFICES ASSUME NEW u \in Nat
                 PROVE  Touches(r, u) <=> u \in From(r) .. To(r)
    OBVIOUS
  <2>2. Cleared(r) = a .. n
    BY <1>2, <1>3, <1>7
  <2>3. ASSUME NEW b \in a .. n, u \in UnitsOf(b)
        PROVE  u \in From(r) .. To(r)
    <3>1. b \in Nat /\ a <= b /\ b < a + n
      BY <1>2, <1>7, <2>3
    <3>2. b * BlockSize <= u /\ u < b * BlockSize + BlockSize
      BY <2>3, <3>1, UnitsOfBlock
    <3>3. b * BlockSize + BlockSize <= (a + n) * BlockSize
      BY <1>2, <3>1, Behind
    <3>4. a * BlockSize <= b * BlockSize
      <4>1. CASE a = b
        BY <1>4, <3>1, <4>1
      <4>2. CASE a < b
        BY <1>1, <1>2, <1>4, <3>1, <4>2, Behind
      <4>3. QED
        BY <1>2, <3>1, <4>1, <4>2
    <3>5. (a + n) * BlockSize \in Nat /\ a * BlockSize \in Nat /\ b * BlockSize \in Nat
      BY <1>2, <1>4, <3>1
    <3>6. QED
      BY <1>1, <1>2, <3>2, <3>3, <3>4, <3>5
  <2>4. ASSUME u \in From(r) .. To(r)
        PROVE  Touches(r, u)
    <3>1. a * BlockSize <= u /\ u < (a + n) * BlockSize
      <4>1. (a + n) * BlockSize \in Nat /\ a * BlockSize \in Nat
        BY <1>2, <1>4
      <4>2. QED
        BY <1>1, <1>2, <2>4, <4>1
    <3>2. PICK b \in a .. (a + n - 1) : u \in UnitsOf(b)
      BY <1>2, <3>1, BlockOf
    <3>3. b \in a .. n
      BY <1>2, <1>7, <3>2
    <3>4. QED
      BY <2>2, <3>2, <3>3 DEF Touches
  <2>5. QED
    BY <2>2, <2>3, <2>4 DEF Touches
<1>8. a = 1 <=> From(r) = BlockSize
  <2>1. CASE a = 1
    BY <1>1, <1>2, <2>1
  <2>2. CASE a = 0
    BY <1>1, <1>2, <2>2
  <2>3. CASE a > 1
    <3>1. 1 * BlockSize + BlockSize <= a * BlockSize
      BY <1>2, <2>3, Behind
    <3>2. QED
      BY <1>1, <1>2, <1>4, <2>3, <3>1
  <2>4. QED
    BY <1>2, <2>1, <2>2, <2>3
<1>9. QED
  BY <1>6, <1>7, <1>8
=============================================================================
