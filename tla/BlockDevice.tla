---------------------------- MODULE BlockDevice ----------------------------
(***************************************************************************)
(* What the SD driver promises to the FAT32 layer, with nothing of the bus *)
(* in it.  One request is served at a time.  While it is served, blocks of *)
(* its extent take their new content in any order, possibly repeatedly;    *)
(* blocks outside the extent never change.  A request answered "ok" has    *)
(* been carried out on every block, except for the blocks that the card    *)
(* itself failed to program (`lost'); one answered "err" has been carried  *)
(* out on some of them.                                                    *)
(***************************************************************************)
EXTENDS SdBlocks

VARIABLES
  phase,   \* "idle" or "busy"
  req,     \* the request served, or served last
  mem,     \* what the card holds
  buf,     \* the caller's buffer of a read
  lost,    \* blocks of this request that the card failed to program
  result   \* the last answer; "none" while a request is served

vars == <<phase, req, mem, buf, lost, result>>

EmptyBuffer == [i \in 0 .. (MaxCount - 1) |-> NoData]

Init ==
  /\ phase = "idle"
  /\ req \in Request
  /\ mem = [b \in Block |-> Erased]
  /\ buf = EmptyBuffer
  /\ lost = {}
  /\ result = "none"

Submit(r) ==
  /\ phase = "idle"
  /\ phase' = "busy"
  /\ req' = r
  /\ buf' = EmptyBuffer
  /\ lost' = {}
  /\ result' = "none"
  /\ UNCHANGED mem

(* The blocks of S take the content the request asks for.                  *)
Apply(S) ==
  /\ req.op \in {"write", "erase"}
  /\ S \subseteq Extent(req)
  /\ mem' = [b \in Block |-> IF b \in S THEN Target(req, b) ELSE mem[b]]
  /\ lost' = lost \ S
  /\ UNCHANGED buf

Store(S) ==
  /\ phase = "busy"
  /\ Apply(S)
  /\ UNCHANGED <<phase, req, result>>

Lose(S) ==
  /\ phase = "busy"
  /\ req.op = "write"
  /\ S \subseteq Extent(req)
  /\ lost' = lost \cup S
  /\ UNCHANGED <<phase, req, mem, buf, result>>

Fetch(S) ==
  /\ phase = "busy"
  /\ req.op = "read"
  /\ S \subseteq Extent(req)
  /\ buf' = [i \in DOMAIN buf |-> IF req.start + i \in S THEN mem[req.start + i] ELSE buf[i]]
  /\ UNCHANGED <<phase, req, mem, lost, result>>

CarriedOut ==
  \A b \in Extent(req) :
    IF req.op = "read" THEN buf[b - req.start] = mem[b]
                       ELSE mem[b] = Target(req, b) \/ b \in lost

Succeed ==
  /\ phase = "busy"
  /\ CarriedOut
  /\ phase' = "idle"
  /\ result' = "ok"
  /\ UNCHANGED <<req, mem, buf, lost>>

Fail ==
  /\ phase = "busy"
  /\ phase' = "idle"
  /\ result' = "err"
  /\ UNCHANGED req
  /\ \/ UNCHANGED <<mem, buf, lost>>
     \/ \E S \in SUBSET Extent(req) : Apply(S)

Next ==
  \/ \E r \in Request : Submit(r)
  \/ \E S \in SUBSET Extent(req) : Store(S) \/ Lose(S) \/ Fetch(S)
  \/ Succeed
  \/ Fail

Spec == Init /\ [][Next]_vars
=============================================================================
